--------------------------- MODULE MCOhciPeriodic ---------------------------
(* A keyboard whose reports are one packet, and a mouse whose reports are two. *)
EXTENDS OhciPeriodic

CONSTANTS kbd, mouse

MCEndpoints == {kbd, mouse}
MCPollingInterval == [e \in MCEndpoints |-> IF e = kbd THEN 10 ELSE 2]
MCTds == [e \in MCEndpoints |-> IF e = kbd THEN 1 ELSE 2]
=============================================================================
