--------------------------- MODULE MCResumePoints ---------------------------
(* Two slots of a game of two discs, and two RetroArch cores. *)
EXTENDS ResumePoints

CONSTANTS discA, discB, coreA, coreB

TwoSlots == {0, 1}
TwoDiscs == {discA, discB}
TwoCores == {coreA, coreB}
=============================================================================
