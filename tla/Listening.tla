----------------------------- MODULE Listening -----------------------------
(***************************************************************************)
(* What the player of audio CDs promises the listener, with no reader and  *)
(* no ring: after a jump the music goes on from the place jumped to, every *)
(* sector whole and in the order of the disc, and it ends when an order    *)
(* that was in force has nothing left.                                     *)
(***************************************************************************)
EXTENDS Naturals, Sequences

CONSTANT NoPlace

VARIABLES
    music,  \* the lengths in sectors of the audio tracks
    st,     \* "Stopped", "Playing" or "Paused"
    now,    \* the sector shown as being heard: its track and its frame
    part,   \* how many halves of it have been heard
    mode,   \* Repeat and the order of the tracks
    modes   \* the modes in force at some time since the last jump

Modes == [rep : {"Off", "Track", "Disc"}, order : Seq(DOMAIN music)]

Places == [index : DOMAIN music, frame : Nat]

PositionOf(order, index) == CHOOSE p \in DOMAIN order : order[p] = index

(* The tracks that follow a track that has run out; none at the end.       *)
Successors(m, index) ==
    LET pos == PositionOf(m.order, index) IN
    IF m.rep = "Track" THEN {index}
    ELSE IF pos < Len(m.order) THEN {m.order[pos + 1]}
    ELSE IF m.rep = "Disc" THEN {m.order[1]} ELSE {}

AtTrackEnd == now.frame + 1 = music[now.index]

Following ==
    IF AtTrackEnd
      THEN {[index |-> i, frame |-> 0] : i \in UNION {Successors(m, now.index) : m \in modes}}
      ELSE {[now EXCEPT !.frame = @ + 1]}

Init ==
    /\ st = "Stopped" /\ now = NoPlace /\ part = 0
    /\ mode \in Modes /\ modes = {mode}

Jump ==
    /\ st' \in {"Playing", "Paused"}
    /\ now' \in Places /\ now'.frame < music[now'.index]
    /\ part' = 0
    /\ mode' \in Modes /\ modes' = {mode'}

ChangeMode ==
    /\ mode' \in Modes /\ modes' = modes \cup {mode'}
    /\ UNCHANGED <<st, now, part>>

PauseOrResume ==
    /\ <<st, st'>> \in {<<"Playing", "Paused">>, <<"Paused", "Playing">>}
    /\ UNCHANGED <<now, part, mode, modes>>

Stop ==
    /\ st' = "Stopped" /\ now' = NoPlace /\ part' = 0
    /\ UNCHANGED <<mode, modes>>

Hear ==
    /\ st = "Playing"
    /\ IF part < 2 THEN now' = now /\ part' = part + 1
                   ELSE now' \in Following /\ part' = 1
    /\ UNCHANGED <<st, mode, modes>>

End ==
    /\ st = "Playing" /\ part = 2 /\ AtTrackEnd
    /\ \E m \in modes : Successors(m, now.index) = {}
    /\ st' = "Stopped"
    /\ UNCHANGED <<now, part, mode, modes>>

Next == music' = music /\ (Jump \/ ChangeMode \/ PauseOrResume \/ Stop \/ Hear \/ End)

Spec == Init /\ [][Next]_<<music, st, now, part, mode, modes>>
=============================================================================
