----------------------------- MODULE CddaPlayer -----------------------------
(***************************************************************************)
(* The player of audio CDs: a reader thread that brings sectors into a     *)
(* ring, the sound side that empties it, and the transport the user        *)
(* drives.  One lock guards all of it; the reader lets go of it while the  *)
(* drive reads, so a jump can overtake the sector being read.              *)
(*                                                                         *)
(* A sector is a place - track and frame - and is heard in two halves, the *)
(* sound side asking for any number of bytes.  What is in it, silence for  *)
(* a sector that will not read included, is left out.                      *)
(***************************************************************************)
EXTENDS Integers, Sequences, FiniteSets

CONSTANTS
    NoPlace,
    Tocs,         \* the discs: tracks with start, pregap and kind, and the leadout
    Capacity,     \* sectors in the ring
    PrevRestart,  \* frames into a track after which prev() goes back to its start
    MaxJumps,     \* bound: starts, stops, jumps
    MaxTurns      \* bound: changes of Repeat and shuffle

ASSUME CddaPlayerAssumption ==
    /\ Capacity \in Nat /\ Capacity >= 2
    /\ {PrevRestart, MaxJumps, MaxTurns} \subseteq Nat
    /\ \A t \in Tocs : t.tracks \in Seq([start : Nat, pregap : Nat, audio : BOOLEAN])
    /\ \A t \in Tocs : t.leadout \in Nat

VARIABLES
    toc,         \* the disc in the drive
    (* under the lock *)
    st, rep, shuf, order,
    generation,  \* one more with every jump
    active,      \* there is something left to read
    cur,         \* what the reader reads next
    ring,        \* the places of the sectors in the ring
    half,        \* half of the front one has been handed out
    now,         \* nowIndex and nowFrame
    quit,
    (* the threads *)
    reader,      \* its step, and the generation and place it took with it
    ui,          \* "free", or "joining" in stop
    (* history *)
    heard,       \* how many halves of now have been heard
    modes,       \* the modes in force at some time since the last jump
    (* bound *)
    turns

cursor  == <<active, cur, quit>>
sound   == <<ring, half, now, heard>>
setting == <<rep, shuf, order, modes, turns>>
vars == <<toc, st, setting, generation, cursor, sound, reader, ui>>

-----------------------------------------------------------------------------
(* The tracks: the audio of the disc, without the next track's pregap.     *)

EndOfX(t, i) == IF i = Len(t.tracks) THEN t.leadout ELSE t.tracks[i + 1].start
EndOf(t, i) ==
    IF i = Len(t.tracks) THEN t.leadout
    ELSE LET n == t.tracks[i + 1] IN
         IF n.pregap > 0 /\ n.pregap < n.start /\ n.start - n.pregap > t.tracks[i].start
           THEN n.start - n.pregap ELSE n.start

TrackAt(i) ==
    [start |-> toc.tracks[i].start, audio |-> toc.tracks[i].audio,
     length |-> EndOf(toc, i) - toc.tracks[i].start]
Plays(t) == t.audio /\ t.length > 0

tracks ==
    LET upTo[i \in 0 .. Len(toc.tracks)] ==
            IF i = 0 THEN <<>>
            ELSE IF Plays(TrackAt(i)) THEN Append(upTo[i - 1], TrackAt(i)) ELSE upTo[i - 1]
    IN upTo[Len(toc.tracks)]

lengths == [i \in DOMAIN tracks |-> tracks[i].length]

(* Disc order, or with shuffle the given track first and the others after. *)
rebuildOrder(first, shuffled) ==
    IF ~shuffled \/ tracks = <<>> THEN {[p \in DOMAIN tracks |-> p]}
    ELSE {o \in [DOMAIN tracks -> DOMAIN tracks] :
             o[1] = first /\ \A p, q \in DOMAIN o : o[p] = o[q] => p = q}

orderPos(index) == CHOOSE p \in DOMAIN order : order[p] = index

None == 0

successor(index, manual) ==
    IF rep = "Track" /\ ~manual THEN index
    ELSE IF orderPos(index) < Len(order) THEN order[orderPos(index) + 1]
    ELSE IF rep = "Disc" THEN order[1] ELSE None

Mode == [rep |-> rep, order |-> order]

-----------------------------------------------------------------------------
Awake == [pc |-> "awake", gen |-> 0, at |-> NoPlace]
Asleep == [Awake EXCEPT !.pc = "asleep"]
Gone == [Awake EXCEPT !.pc = "gone"]

Init ==
    /\ toc \in Tocs
    /\ st = "Stopped" /\ rep = "Off" /\ shuf = FALSE /\ order \in rebuildOrder(1, FALSE)
    /\ generation = 0 /\ active = FALSE /\ cur = NoPlace
    /\ ring = <<>> /\ half = FALSE /\ now = NoPlace
    /\ quit = FALSE /\ reader = Gone /\ ui = "free"
    /\ heard = 0 /\ modes = {Mode} /\ turns = 0

(* wake.notify_all()                                                       *)
Woken == IF reader = Asleep THEN Awake ELSE reader

startAtX(place) ==
    /\ generation < MaxJumps /\ generation' = generation + 1
    /\ ring' = <<>> /\ half' = FALSE
    /\ cur' = place /\ now' = place /\ active' = TRUE
    /\ quit' = quit
    /\ reader' = IF reader = Gone THEN Awake ELSE Woken
    /\ heard' = 0 /\ modes' = {Mode'}
startAt(place) ==
    /\ generation < MaxJumps /\ generation' = generation + 1
    /\ ring' = <<>> /\ half' = FALSE
    /\ cur' = place /\ now' = place /\ active' = TRUE
    /\ quit' = IF reader = Gone THEN FALSE ELSE quit
    /\ reader' = IF reader = Gone THEN Awake ELSE Woken
    /\ heard' = 0 /\ modes' = {Mode'}

play(index) ==
    /\ ui = "free"
    /\ order' \in rebuildOrder(index, shuf) /\ UNCHANGED rep
    /\ st' = "Playing"
    /\ startAt([index |-> index, frame |-> 0])
    /\ UNCHANGED <<toc, shuf, turns, ui>>

pause ==
    /\ ui = "free"
    /\ st = "Playing" /\ st' = "Paused"
    /\ UNCHANGED <<toc, setting, generation, cursor, sound, reader, ui>>

resume ==
    /\ ui = "free"
    /\ st = "Paused" /\ st' = "Playing"
    /\ UNCHANGED <<toc, setting, generation, cursor, sound, reader, ui>>

(* next, prev and seek go from the place heard, not from the one read.     *)
JumpFrom(targets) ==
    /\ ui = "free" /\ st # "Stopped" /\ now # NoPlace
    /\ \E place \in targets : UNCHANGED <<rep, order>> /\ startAt(place)
    /\ UNCHANGED <<toc, st, shuf, turns, ui>>

next ==
    LET n == successor(now.index, TRUE) IN
    JumpFrom({[index |-> i, frame |-> 0] : i \in {n} \ {None}})

PrevTarget ==
    LET pos == orderPos(now.index) IN
    IF now.frame >= PrevRestart THEN now.index
    ELSE IF pos > 1 THEN order[pos - 1]
    ELSE IF rep = "Disc" THEN order[Len(order)] ELSE now.index

prev == JumpFrom({[index |-> i, frame |-> 0] : i \in {PrevTarget}})

seek == JumpFrom({[now EXCEPT !.frame = f] : f \in 0 .. lengths[now.index] - 1})

(* stop: its section under the lock, and the join without it.              *)
stop ==
    /\ ui = "free"
    /\ generation < MaxJumps /\ generation' = generation + 1
    /\ quit' = TRUE /\ active' = FALSE /\ st' = "Stopped"
    /\ ring' = <<>> /\ half' = FALSE /\ now' = NoPlace /\ heard' = 0
    /\ ui' = "joining"
    /\ reader' = Woken
    /\ UNCHANGED <<toc, setting, cur>>

Joined ==
    /\ ui = "joining" /\ reader = Gone
    /\ ui' = "free"
    /\ UNCHANGED <<toc, st, setting, generation, cursor, sound, reader>>

Turn ==
    /\ ui = "free"
    /\ turns < MaxTurns /\ turns' = turns + 1
    /\ UNCHANGED <<toc, st, generation, cursor, sound, ui>>
    /\ modes' = modes \cup {Mode'}

setRepeat ==
    /\ rep' \in {"Off", "Track", "Disc"} \ {rep}
    /\ reader' = Woken
    /\ UNCHANGED <<shuf, order>>
    /\ Turn

setShuffle ==
    /\ shuf' = ~shuf
    /\ order' \in rebuildOrder(IF now = NoPlace THEN 1 ELSE now.index, shuf')
    /\ UNCHANGED <<rep, reader>>
    /\ Turn

-----------------------------------------------------------------------------
(* read(): the sound side, half a sector at a time.                        *)

HearX ==
    /\ st = "Playing" /\ ring # <<>>
    /\ now' = Head(ring)
    /\ heard' = IF heard < 2 THEN heard + 1 ELSE 1
    /\ half' = ~half
    /\ ring' = IF half THEN Tail(ring) ELSE ring
    /\ UNCHANGED <<toc, st, setting, generation, cursor, reader, ui>>
Hear ==
    /\ st = "Playing" /\ ring # <<>>
    /\ now' = Head(ring)
    /\ heard' = IF heard < 2 THEN heard + 1 ELSE 1
    /\ half' = ~half
    /\ IF half THEN ring' = Tail(ring) /\ reader' = Woken
               ELSE UNCHANGED <<ring, reader>>
    /\ UNCHANGED <<toc, st, setting, generation, cursor, ui>>

(* The ring empty: an underrun, unless nothing is left to read.            *)
OrderIsOver ==
    /\ st = "Playing" /\ ring = <<>> /\ ~active
    /\ st' = "Stopped"
    /\ UNCHANGED <<toc, setting, generation, cursor, sound, reader, ui>>

-----------------------------------------------------------------------------
(* run(): the reader thread.                                               *)

NothingToRead == ~active \/ Len(ring) = Capacity

ReaderWaits ==
    /\ reader = Awake /\ ~quit /\ NothingToRead
    /\ reader' = Asleep
    /\ UNCHANGED <<toc, st, setting, generation, cursor, sound, ui>>

ReaderReads ==
    /\ reader = Awake /\ ~quit /\ ~NothingToRead
    /\ reader' = [pc |-> "reading", gen |-> generation, at |-> cur]
    /\ UNCHANGED <<toc, st, setting, generation, cursor, sound, ui>>

StaleX == quit
Stale == reader.gen # generation \/ quit

Advance(place) ==
    IF place.frame + 1 < lengths[place.index]
      THEN cur' = [place EXCEPT !.frame = @ + 1] /\ UNCHANGED active
      ELSE LET n == successor(place.index, FALSE) IN
           IF n = None THEN active' = FALSE /\ UNCHANGED cur
                       ELSE cur' = [index |-> n, frame |-> 0] /\ UNCHANGED active

ReaderKeeps ==
    /\ reader.pc = "reading" /\ ~Stale
    /\ ring' = Append(ring, reader.at)
    /\ Advance(reader.at)
    /\ reader' = Awake
    /\ UNCHANGED <<toc, st, setting, generation, quit, half, now, heard, ui>>

ReaderDrops ==
    /\ reader.pc = "reading" /\ Stale
    /\ reader' = Awake
    /\ UNCHANGED <<toc, st, setting, generation, cursor, sound, ui>>

ReaderEnds ==
    /\ reader = Awake /\ quit
    /\ reader' = Gone
    /\ UNCHANGED <<toc, st, setting, generation, cursor, sound, ui>>

-----------------------------------------------------------------------------
Reader == ReaderWaits \/ ReaderReads \/ ReaderKeeps \/ ReaderDrops \/ ReaderEnds
SoundSide == Hear \/ OrderIsOver
User ==
    \/ \E index \in DOMAIN tracks : play(index)
    \/ pause \/ resume \/ next \/ prev \/ seek \/ stop \/ Joined \/ setRepeat \/ setShuffle

Next == Reader \/ SoundSide \/ User

Spec == Init /\ [][Next]_vars

(* The two threads run on their own, and stop only waits for the reader;   *)
(* nothing the user does is fair.                                          *)
FairSpec == Spec /\ WF_vars(Reader) /\ WF_vars(SoundSide) /\ WF_vars(Joined)

-----------------------------------------------------------------------------
Place == {p \in [index : DOMAIN tracks, frame : Nat] : p.frame < lengths[p.index]}

(* The state of the player, whichever disc it plays.                       *)
TypeOK ==
    /\ toc \in Tocs
    /\ st \in {"Stopped", "Playing", "Paused"} /\ rep \in {"Off", "Track", "Disc"}
    /\ {shuf, active, half, quit} \subseteq BOOLEAN
    /\ order \in [DOMAIN tracks -> DOMAIN tracks]
    /\ {cur, now, reader.at} \subseteq Place \cup {NoPlace}
    /\ ring \in Seq(Place) /\ Len(ring) <= Capacity
    /\ reader.pc \in {"awake", "asleep", "reading", "gone"}
    /\ ui \in {"free", "joining"} /\ heard \in 0 .. 2
    /\ {generation, turns, reader.gen} \subseteq Nat
    /\ modes \subseteq [rep : {"Off", "Track", "Disc"}, order : [DOMAIN tracks -> DOMAIN tracks]]

(* The header's promise to the listener, as Listening states it: after     *)
(* next, prev, seek or play nothing read before it is heard, no half of a  *)
(* sector is lost or heard twice, tracks follow one another as a mode in   *)
(* force said, and the end comes only after the last sector of the order.  *)
Promise == INSTANCE Listening WITH music <- lengths, part <- heard, mode <- Mode

HeardInOrder == Promise!Spec

(* The reader never sleeps through a call, or stop() would join it for     *)
(* ever: it is asleep only when nothing is left to read or the ring is     *)
(* full (the condition in run() and the four notify_all).                  *)
AwakeForWork == reader = Asleep => NothingToRead /\ ~quit

(* The tables of contents a drive gives for a disc that was pressed right: *)
(* tracks one after the other, each starting before the pregap of the next *)
(* one, and none after the leadout.                                        *)
TablesAreInOrder ==
    \A t \in Tocs : \A i \in DOMAIN t.tracks :
        /\ t.tracks[i].start <= t.leadout
        /\ i < Len(t.tracks) => t.tracks[i].start < t.tracks[i + 1].start - t.tracks[i + 1].pregap

(* No sector of a data track and none of a track's pregap is ever read as  *)
(* music (the constructor's ends of the tracks).                           *)
OnlyMusicIsRead ==
    reader.pc = "reading" =>
        LET lba == tracks[reader.at.index].start + reader.at.frame IN
        \E i \in DOMAIN toc.tracks :
            /\ toc.tracks[i].audio /\ toc.tracks[i].start <= lba
            /\ i < Len(toc.tracks) => lba < toc.tracks[i + 1].start - toc.tracks[i + 1].pregap
            /\ lba < toc.leadout

(* A disc that plays and is not repeated does not play for ever: the       *)
(* sound side tells the end of the order from an underrun.                 *)
DiscEnds == []<>(st # "Playing" \/ rep # "Off")
=============================================================================
