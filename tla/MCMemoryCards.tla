---------------------------- MODULE MCMemoryCards ----------------------------
(* Two games, a set they share and a second name for it. *)
EXTENDS MemoryCards, TLC

CONSTANTS g1, g2, s1, s2

TwoGames == {g1, g2}
TwoSets == {s1, s2}
OneSet == {s1}
Same == Permutations(TwoGames)

\* where the journal keeps what it promises: all but the hand-back's last steps and the screens
Covered == {"in", "play", "back"}
PuttingBack == {"restore"}
=============================================================================
