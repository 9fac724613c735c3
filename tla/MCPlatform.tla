----------------------------- MODULE MCPlatform ------------------------------
(***************************************************************************)
(* The rates of the SCMI clock, those of the setup page and one above them *)
(* (an operating system may set the variable), in MHz; the regulator of    *)
(* most boards and that of the Orange Pi 3B; the bytes of configuration    *)
(* space around the base address registers.                                *)
(***************************************************************************)
EXTENDS Platform

MCRates == {408, 816, 1104, 1416, 1608, 1800, 1992}
MCCustoms == {216, 312, 408, 816, 1008, 1200, 1416, 1608, 1800, 1992, 2100}
MCRegulators == {[base |-> 600000, step |-> 6250], [base |-> 712500, step |-> 12500]}
MCBytes == 12..25
=============================================================================
