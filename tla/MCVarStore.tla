----------------------------- MODULE MCVarStore -----------------------------
(* VarStore with one variable of two values besides "ResetDelay", a delay   *)
(* below and one above PLATFORM_RESET_DELAY, and one card to swap in.       *)
EXTENDS VarStore
CONSTANTS v1, hdr, delay
MCVars == {v1}
MCSettable == {0, 2}
MCMediaIds == {"boot", "swapped"}
MCHandles == {"disk", "part", "other"}
=============================================================================
