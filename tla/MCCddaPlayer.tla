--------------------------- MODULE MCCddaPlayer ---------------------------
(* A disc with a data track, a pregap and a track of one sector, and one   *)
(* of three tracks, the first of two sectors.                              *)
EXTENDS CddaPlayer

Track(start, pregap, audio) == [start |-> start, pregap |-> pregap, audio |-> audio]

TwoDiscs ==
    {[tracks |-> <<Track(0, 0, FALSE), Track(3, 1, TRUE), Track(6, 2, TRUE)>>, leadout |-> 8],
     [tracks |-> <<Track(0, 0, TRUE), Track(2, 0, TRUE), Track(4, 1, TRUE)>>, leadout |-> 5]}

(* The discs are pressed right, as the theorem about OnlyMusicIsRead asks. *)
ASSUME DiscsInOrder == TablesAreInOrder
=============================================================================
