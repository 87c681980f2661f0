--------------------------- MODULE MCScanLibrary ---------------------------
(* Two folders a game may lie in, one or two folder names; a disc set that *)
(* verifies, or two of them, and one that does not (a copy cut short).     *)
EXTENDS ScanLibrary, TLC
CONSTANTS top, sub, a, b, d1, d2, half
=============================================================================
