----------------------------- MODULE MCEqosMac -----------------------------
(* EqosMac with a client that switches one filter at a time.  Two groups fill  *)
(* a list of one twice over.                                                *)
EXTENDS EqosMac, TLC
CONSTANTS g1, g2
TwoGroups == {g1, g2}
TwoHashes == g1 :> 1 @@ g2 :> 2
OneFilter == {{}} \union {{f} : f \in Filters \ {"unicast"}}
Multicast == {{}, {"multicast"}}
=============================================================================
