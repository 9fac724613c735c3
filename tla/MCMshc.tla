------------------------------ MODULE MCMshc ------------------------------
(* A card of four blocks, transfers of up to three and a FIFO of two: a        *)
(* transfer can be given up with blocks in the FIFO, on the card's side and     *)
(* still to come, and be followed by one of other blocks.                     *)
EXTENDS Mshc
=============================================================================
