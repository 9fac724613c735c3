----------------------------- MODULE MCUsbHcMem -----------------------------
(***************************************************************************)
(* Instances of UsbHcMem for TLC: blocks of three pages of one unit, and a   *)
(* request larger than such a block, which gets one of its own.             *)
(***************************************************************************)
EXTENDS UsbHcMem, TLC

Symmetry == Permutations(Blocks)
=============================================================================
