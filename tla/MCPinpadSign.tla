---------------------------- MODULE MCPinpadSign ----------------------------
(* Small instances of PinpadSign: two pages.                               *)
EXTENDS PinpadSign

CONSTANTS p1, p2
=============================================================================
