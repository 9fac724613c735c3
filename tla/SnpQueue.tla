------------------------------ MODULE SnpQueue ------------------------------
(***************************************************************************)
(* What a Simple Network driver promises about the buffers it is lent:     *)
(* Transmit() takes a buffer while fewer than Capacity are lent,           *)
(* GetStatus() gives them back in the order they came, each once and only   *)
(* after it was transmitted, and a restart of the interface forgets all of  *)
(* them.                                                                    *)
(***************************************************************************)
EXTENDS Naturals, Sequences

CONSTANTS Buffers, NoBuffer, Capacity

VARIABLES
  lent,   \* buffers lent to the driver, oldest first, and whether each was sent
  TxBuf   \* the buffer the last GetStatus gave back

Entry == [buf : Buffers, sent : BOOLEAN]

Init == lent = <<>> /\ TxBuf = NoBuffer

Transmit(b) ==
  /\ Len(lent) < Capacity
  /\ lent' = Append(lent, [buf |-> b, sent |-> FALSE])
  /\ UNCHANGED TxBuf

Sent(i) ==
  /\ ~lent[i].sent
  /\ lent' = [lent EXCEPT ![i].sent = TRUE]
  /\ UNCHANGED TxBuf

Recycle ==
  /\ lent # <<>> /\ lent[1].sent
  /\ TxBuf' = lent[1].buf
  /\ lent' = Tail(lent)

Restart == lent # <<>> /\ lent' = <<>> /\ UNCHANGED TxBuf

Next ==
  \/ \E b \in Buffers : Transmit(b)
  \/ \E i \in DOMAIN lent : Sent(i)
  \/ Recycle
  \/ Restart

Spec == Init /\ [][Next]_<<lent, TxBuf>>
=============================================================================
