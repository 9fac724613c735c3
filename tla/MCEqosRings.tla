---------------------------- MODULE MCEqosRings ----------------------------
(***************************************************************************)
(* EqosRings with rings of two to four descriptors: long enough to be      *)
(* full, to wrap around, and to hold descriptors of both owners.  The two  *)
(* rings share the calls that start and stop DMA and nothing else, so a    *)
(* client either sends or receives: with both at once the states of one    *)
(* ring are only multiplied by those of the other.                         *)
(***************************************************************************)
EXTENDS EqosRings
CONSTANTS b1, b2
TwoBuffers == {b1, b2}

VARIABLE traffic

MCInit == Init /\ traffic \in {"sends", "receives"}
MCNext ==
  /\ Next /\ UNCHANGED traffic
  /\ IF traffic = "sends" THEN UNCHANGED arrived ELSE TxBuffers' = AllTx(NoBuffer)

MCSpec == MCInit /\ [][MCNext]_<<vars, traffic>> /\ Fairness
=============================================================================
