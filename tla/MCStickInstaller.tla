-------------------------- MODULE MCStickInstaller --------------------------
(* Two builds of RetroArch, and the states a file can be found in.         *)
EXTENDS StickInstaller, TLC
=============================================================================
