------------------------- MODULE CddaPlayer_proofs -------------------------
(***************************************************************************)
(* Proofs about the player of audio CDs: its types, the reader that never  *)
(* sleeps through a call, no sector of a data track read as music, and     *)
(* that the player keeps its promise to the listener.                      *)
(*                                                                         *)
(* The list of tracks is built by going through the table of contents, so  *)
(* what is on it is an induction; UpTo gives one over an interval, from    *)
(* the fact that a set of numbers has a least one.                         *)
(***************************************************************************)
EXTENDS CddaPlayer, FiniteSetTheorems, SequenceTheorems, WellFoundedInduction, TLAPS

-----------------------------------------------------------------------------
(* Induction over an interval, in a form that takes a set.                 *)
LEMMA UpTo ==
    ASSUME NEW n \in Nat, NEW S, 0 \in S, \A i \in 1 .. n : i - 1 \in S => i \in S
    PROVE  0 .. n \subseteq S
<1> DEFINE Left == {i \in 0 .. n : i \notin S}
<1> SUFFICES ASSUME Left # {} PROVE FALSE
    OBVIOUS
<1>1. PICK Less : IsWellFoundedOn(Less, Nat) /\ \A i, j \in Nat : i < j => <<i, j>> \in Less
      BY NatLessThanWellFounded DEF OpToRel
<1>2. PICK least \in Left : \A i \in Left : least <= i
  <2>1. Left \subseteq Nat
        OBVIOUS
  <2>2. \E least \in Left : \A i \in Left : ~ (<<i, least>> \in Less)
        <3> DEFINE Numbers == Nat
        <3>1. IsWellFoundedOn(Less, Numbers) /\ Left \subseteq Numbers
              BY <1>1, <2>1
        <3> HIDE DEF Left, Numbers
        <3> QED BY <3>1, WFMin
  <2>3. PICK least \in Left : \A i \in Left : ~ (<<i, least>> \in Less)
        BY <2>2
  <2>4. ASSUME NEW i \in Left PROVE least <= i
    <3>1. i \in Nat /\ least \in Nat /\ ~ (<<i, least>> \in Less)
          BY <2>1, <2>3
    <3>2. ~ (i < least)
          BY <1>1, <3>1
    <3> QED BY <3>1, <3>2
  <2> QED BY <2>4
<1>3. least \in 1 .. n /\ least - 1 \in 0 .. n
      BY <1>2
<1>4. least - 1 \in S
      BY <1>2, <1>3
<1> QED BY <1>3, <1>4

(* The tracks are entries of the table of contents that play.              *)
Music == {TrackAt(i) : i \in {j \in DOMAIN toc.tracks : Plays(TrackAt(j))}}

LEMMA TracksAreMusic ==
    ASSUME toc \in Tocs
    PROVE  tracks \in Seq(Music)
<1> DEFINE n == Len(toc.tracks)
           With(f, i) == IF i = 0 THEN <<>>
                         ELSE IF Plays(TrackAt(i)) THEN Append(f[i - 1], TrackAt(i)) ELSE f[i - 1]
           Built(f, m) == f = [i \in 0 .. m |-> With(f, i)]
           F == CHOOSE f : Built(f, n)
<1>1. n \in Nat /\ DOMAIN toc.tracks = 1 .. n
      BY CddaPlayerAssumption, LenProperties
<1>2. tracks = F[n]
      BY DEF tracks
<1>3. \A i \in 1 .. n : Plays(TrackAt(i)) => TrackAt(i) \in Music
      BY <1>1 DEF Music
<1> DEFINE Buildable == {m \in 0 .. n : \E f : Built(f, m) /\ f \in [0 .. m -> Seq(Music)]}
<1>4. 0 .. n \subseteq Buildable
  <2>1. 0 \in Buildable
    <3> DEFINE f == [i \in 0 .. 0 |-> <<>>]
    <3>1. f = [i \in 0 .. 0 |-> With(f, i)] /\ f \in [0 .. 0 -> Seq(Music)]
          BY EmptySeq
    <3> HIDE DEF f, With
    <3> QED BY <1>1, <3>1
  <2>2. ASSUME NEW m \in 1 .. n, m - 1 \in Buildable PROVE m \in Buildable
    <3>1. PICK g : Built(g, m - 1) /\ g \in [0 .. m - 1 -> Seq(Music)]
          BY <2>2
    <3> DEFINE f == [i \in 0 .. m |-> IF i = m THEN With(g, m) ELSE g[i]]
    <3>2. g[m - 1] \in Seq(Music)
          BY <3>1, <1>1
    <3>3. With(g, m) \in Seq(Music)
          BY <3>2, <1>1, <1>3, AppendProperties
    <3>4. f \in [0 .. m -> Seq(Music)]
          BY <3>1, <3>3
    <3>5. \A i \in 0 .. m : f[i] = With(f, i)
      <4> SUFFICES ASSUME NEW i \in 0 .. m PROVE f[i] = With(f, i)
          OBVIOUS
      <4>1. i # 0 => i - 1 \in 0 .. m - 1 /\ f[i - 1] = g[i - 1]
            OBVIOUS
      <4>2. i # m => f[i] = g[i] /\ g[i] = With(g, i)
        <5>1. ASSUME i # m PROVE g[i] = With(g, i)
          <6>1. i \in 0 .. m - 1
                BY <1>1, <5>1
          <6>2. g = [j \in 0 .. m - 1 |-> With(g, j)]
                BY <3>1
          <6> HIDE DEF With, f
          <6> QED BY <6>1, <6>2
        <5> HIDE DEF With
        <5> QED BY <5>1
      <4>3. i = m => f[i] = With(g, i)
            OBVIOUS
      <4> HIDE DEF f
      <4> QED BY <4>1, <4>2, <4>3
    <3>6. Built(f, m)
      <4>1. f = [i \in 0 .. m |-> f[i]]
            OBVIOUS
      <4> HIDE DEF f
      <4> QED BY <4>1, <3>5
    <3> HIDE DEF f, Built
    <3> QED BY <3>4, <3>6
  <2> HIDE DEF Buildable
  <2> QED BY <1>1, <2>1, <2>2, UpTo
<1>5. \E f : Built(f, n)
      <2> HIDE DEF Built
      <2> QED BY <1>1, <1>4
<1>6. Built(F, n)
      <2> HIDE DEF Built
      <2> QED BY <1>5
<1>7. \A i \in 0 .. n : F[i] = With(F, i)
      <2> HIDE DEF F
      <2> QED BY <1>6
<1> DEFINE Typed == {i \in 0 .. n : F[i] \in Seq(Music)}
<1>8. 0 .. n \subseteq Typed
  <2> HIDE DEF F
  <2>1. 0 \in Typed
    <3>1. F[0] = <<>>
          BY <1>1, <1>7
    <3>2. F[0] \in Seq(Music)
          BY <3>1, EmptySeq
    <3>3. 0 \in 0 .. n
          BY <1>1
    <3> QED BY <3>2, <3>3
  <2>2. ASSUME NEW i \in 1 .. n, i - 1 \in Typed PROVE i \in Typed
    <3>1. i \in 0 .. n /\ i # 0 /\ F[i - 1] \in Seq(Music)
          BY <1>1, <2>2
    <3>2. F[i] = IF Plays(TrackAt(i)) THEN Append(F[i - 1], TrackAt(i)) ELSE F[i - 1]
          BY <1>7, <3>1
    <3>3. F[i] \in Seq(Music)
          BY <1>3, <3>1, <3>2, AppendProperties
    <3> QED BY <3>1, <3>3
  <2> HIDE DEF Typed
  <2> QED BY <1>1, <2>1, <2>2, UpTo
<1> HIDE DEF F
<1> QED BY <1>1, <1>2, <1>8

(* There is something to hear on every track, and it starts and ends where *)
(* its entry says.                                                         *)
LEMMA TracksPlay ==
    ASSUME toc \in Tocs
    PROVE  /\ Len(tracks) \in Nat
           /\ DOMAIN tracks = 1 .. Len(tracks) /\ DOMAIN lengths = 1 .. Len(tracks)
           /\ \A k \in DOMAIN tracks :
                 /\ lengths[k] \in Nat \ {0}
                 /\ \E i \in DOMAIN toc.tracks :
                       /\ tracks[k].start = toc.tracks[i].start /\ toc.tracks[i].audio
                       /\ tracks[k].start + lengths[k] = EndOf(toc, i)
<1>1. tracks \in Seq(Music)
      BY TracksAreMusic
<1>2. Len(tracks) \in Nat /\ DOMAIN tracks = 1 .. Len(tracks) /\ \A k \in DOMAIN tracks : tracks[k] \in Music
      BY <1>1, LenProperties, ElementOfSeq
<1>3. DOMAIN lengths = DOMAIN tracks /\ \A k \in DOMAIN tracks : lengths[k] = tracks[k].length
      BY DEF lengths
<1>4. Len(toc.tracks) \in Nat /\ DOMAIN toc.tracks = 1 .. Len(toc.tracks)
      BY CddaPlayerAssumption, LenProperties
<1>5. ASSUME NEW i \in DOMAIN toc.tracks
      PROVE  toc.tracks[i].start \in Nat /\ toc.tracks[i].pregap \in Nat
  <2>1. toc.tracks \in [1 .. Len(toc.tracks) -> [start : Nat, pregap : Nat, audio : BOOLEAN]]
        BY CddaPlayerAssumption, LenProperties
  <2>2. toc.tracks[i] \in [start : Nat, pregap : Nat, audio : BOOLEAN]
        BY <1>4, <2>1
  <2> QED BY <2>2
<1>6. ASSUME NEW i \in DOMAIN toc.tracks
      PROVE  EndOf(toc, i) \in Int
  <2>1. i # Len(toc.tracks) => i + 1 \in DOMAIN toc.tracks
        BY <1>4
  <2>2. toc.leadout \in Nat
        BY CddaPlayerAssumption
  <2> QED BY <1>5, <2>1, <2>2 DEF EndOf
<1>7. ASSUME NEW k \in DOMAIN tracks
      PROVE  /\ lengths[k] \in Nat \ {0}
             /\ \E i \in DOMAIN toc.tracks :
                   /\ tracks[k].start = toc.tracks[i].start /\ toc.tracks[i].audio
                   /\ tracks[k].start + lengths[k] = EndOf(toc, i)
  <2>1. PICK i \in DOMAIN toc.tracks : tracks[k] = TrackAt(i) /\ Plays(TrackAt(i))
        BY <1>2 DEF Music
  <2> QED BY <1>3, <1>5, <1>6, <2>1 DEF TrackAt, Plays
<1> QED BY <1>2, <1>3, <1>7

LEMMA SameDisc ==
    ASSUME toc' = toc
    PROVE  tracks' = tracks /\ lengths' = lengths /\ Place' = Place
<1>1. tracks' = tracks
      BY DEF tracks, TrackAt, Plays
<1>2. lengths' = lengths
      BY <1>1 DEF lengths
<1> QED BY <1>1, <1>2 DEF Place

-----------------------------------------------------------------------------
(* Every order has every track in it: an order without repetitions is one  *)
(* without gaps, so orderPos finds what it looks for.                      *)
Orders ==
    {o \in [DOMAIN tracks -> DOMAIN tracks] :
        \A i \in DOMAIN tracks : \E p \in DOMAIN tracks : o[p] = i}

LEMMA OrdersAreComplete ==
    ASSUME toc \in Tocs, NEW first, NEW shuffled
    PROVE  rebuildOrder(first, shuffled) \subseteq Orders
<1> DEFINE T == DOMAIN tracks
<1>1. IsFiniteSet(T)
      BY TracksPlay, FS_Interval
<1>2. ASSUME NEW o \in [T -> T], \A p, q \in DOMAIN o : o[p] = o[q] => p = q
      PROVE  o \in Orders
  <2>1. o \in Injection(T, T)
        BY <1>2 DEF Injection, IsInjective
  <2>2. o \in Surjection(T, T)
        <3> HIDE DEF T
        <3> QED BY <1>1, <2>1, FS_Injection
  <2> QED BY <2>2 DEF Surjection, Orders
<1>3. [p \in T |-> p] \in Orders
      BY DEF Orders
<1> QED BY <1>2, <1>3 DEF rebuildOrder

LEMMA Positions ==
    ASSUME toc \in Tocs, order \in Orders, NEW index \in DOMAIN tracks
    PROVE  /\ Len(order) = Len(tracks) /\ DOMAIN order = 1 .. Len(tracks)
           /\ orderPos(index) \in 1 .. Len(tracks) /\ order[orderPos(index)] = index
<1>1. Len(tracks) \in Nat /\ DOMAIN tracks = 1 .. Len(tracks)
      BY TracksPlay
<1>2. DOMAIN order = 1 .. Len(tracks) /\ \E p \in DOMAIN order : order[p] = index
      BY <1>1 DEF Orders
<1>3. orderPos(index) \in DOMAIN order /\ order[orderPos(index)] = index
      BY <1>2 DEF orderPos
<1>4. Len(order) = Len(tracks)
      BY <1>1, <1>2
<1> QED BY <1>2, <1>3, <1>4

LEMMA SuccessorIsTrack ==
    ASSUME toc \in Tocs, order \in Orders, NEW index \in DOMAIN tracks, NEW manual
    PROVE  successor(index, manual) \in DOMAIN tracks \cup {None}
<1>1. /\ Len(order) = Len(tracks) /\ DOMAIN order = 1 .. Len(tracks)
      /\ orderPos(index) \in 1 .. Len(tracks) /\ order[orderPos(index)] = index
      BY Positions
<1>2. Len(tracks) \in Nat /\ DOMAIN tracks = 1 .. Len(tracks)
      BY TracksPlay
<1>3. \A p \in 1 .. Len(tracks) : order[p] \in DOMAIN tracks
      BY <1>2 DEF Orders
<1>4. 1 \in 1 .. Len(tracks)
      BY <1>1, <1>2
<1>5. orderPos(index) < Len(order) => orderPos(index) + 1 \in 1 .. Len(tracks)
      BY <1>1, <1>2
<1> QED BY <1>3, <1>4, <1>5 DEF successor

-----------------------------------------------------------------------------
(* The parts of the invariant.                                             *)

(* TypeOK, a variable at a time.                                           *)
Flags == shuf \in BOOLEAN /\ active \in BOOLEAN /\ half \in BOOLEAN /\ quit \in BOOLEAN

Values ==
    /\ toc \in Tocs /\ st \in {"Stopped", "Playing", "Paused"} /\ rep \in {"Off", "Track", "Disc"}
    /\ order \in Orders
    /\ modes \subseteq [rep : {"Off", "Track", "Disc"}, order : Orders] /\ Mode \in modes
    /\ ui \in {"free", "joining"} /\ heard \in 0 .. 2
    /\ generation \in Nat /\ turns \in Nat

Readers == [pc : {"awake", "asleep", "reading", "gone"}, gen : Nat, at : Place \cup {NoPlace}]

Places ==
    /\ cur \in Place \cup {NoPlace} /\ now \in Place \cup {NoPlace}
    /\ ring \in Seq(Place) /\ Len(ring) <= Capacity
    /\ reader \in Readers

(* A sector that will be kept is the next one, and there is room for it.   *)
Reading ==
    /\ active => cur \in Place
    /\ quit => ~active
    /\ quit /\ ui = "free" => reader = Gone
    /\ reader.pc = "reading" =>
          /\ reader.gen <= generation /\ reader.at \in Place
          /\ ~Stale => active /\ reader.at = cur /\ Len(ring) < Capacity

Inv == Flags /\ Values /\ Places /\ Reading /\ AwakeForWork

LEMMA InvInit == Init => Inv
<1> SUFFICES ASSUME Init PROVE Inv
    OBVIOUS
<1>1. order \in Orders
      BY OrdersAreComplete DEF Init
<1>2. Flags
      BY DEF Init, Flags
<1>3. Values
      BY <1>1 DEF Init, Values, Mode
<1>4. Places
      BY CddaPlayerAssumption, EmptySeq DEF Init, Places, Readers, Gone, Awake
<1>5. Reading /\ AwakeForWork
      BY DEF Init, Reading, AwakeForWork, Gone, Awake, Asleep
<1> QED BY <1>2, <1>3, <1>4, <1>5 DEF Inv

USE DEF cursor, sound, setting

LEMMA FlagsStep == Flags /\ [Next]_vars => Flags'
<1> SUFFICES ASSUME Flags, [Next]_vars PROVE Flags'
    OBVIOUS
<1> USE DEF Flags
<1>1. CASE Reader
      BY <1>1 DEF Reader, ReaderWaits, ReaderReads, ReaderKeeps, Advance, ReaderDrops, ReaderEnds
<1>2. CASE SoundSide
      BY <1>2 DEF SoundSide, Hear, OrderIsOver
<1>3. ASSUME NEW index \in DOMAIN tracks, play(index) PROVE Flags'
      BY <1>3 DEF play, startAt
<1>4. CASE next \/ prev \/ seek
      BY <1>4 DEF next, prev, seek, JumpFrom, startAt
<1>5. CASE pause \/ resume \/ stop \/ Joined \/ setRepeat \/ setShuffle
      BY <1>5 DEF pause, resume, stop, Joined, setRepeat, setShuffle, Turn
<1>6. CASE UNCHANGED vars
      BY <1>6 DEF vars
<1> QED BY <1>1, <1>2, <1>3, <1>4, <1>5, <1>6 DEF Next, User

(* next, prev and seek jump to a place on a track of the disc.             *)
LEMMA JumpsGoToPlaces ==
    ASSUME Values, Places, next \/ prev \/ seek
    PROVE  /\ ui = "free" /\ st # "Stopped"
           /\ \E place \in Place : startAt(place)
           /\ UNCHANGED <<toc, st, rep, order, shuf, turns, ui>>
<1> DEFINE Going(targets) ==
             /\ ui = "free" /\ st # "Stopped"
             /\ \E place \in targets : startAt(place)
             /\ UNCHANGED <<toc, st, rep, order, shuf, turns, ui>>
<1>1. \A targets : JumpFrom(targets) => now # NoPlace /\ Going(targets)
      BY DEF JumpFrom
<1>2. SUFFICES \E targets : Going(targets) /\ targets \subseteq Place
      OBVIOUS
<1>3. now \in Place
      BY <1>1 DEF next, prev, seek, Places
<1>4. now.index \in DOMAIN tracks /\ now.frame \in Nat
      BY <1>3 DEF Place
<1>5. toc \in Tocs /\ order \in Orders
      BY DEF Values
<1>6. Len(tracks) \in Nat /\ DOMAIN tracks = 1 .. Len(tracks)
      BY <1>5, TracksPlay
<1>7. \A i \in DOMAIN tracks : lengths[i] \in Nat \ {0}
      BY <1>5, TracksPlay
<1>8. \A i \in DOMAIN tracks : [index |-> i, frame |-> 0] \in Place
      BY <1>7 DEF Place
<1>9. CASE next
  <2>1. successor(now.index, TRUE) \in DOMAIN tracks \cup {None}
        BY <1>4, <1>5, SuccessorIsTrack
  <2> QED BY <1>1, <1>8, <1>9, <2>1 DEF next
<1>10. CASE prev
  <2>1. /\ Len(order) = Len(tracks) /\ orderPos(now.index) \in 1 .. Len(tracks)
        /\ \A p \in 1 .. Len(tracks) : order[p] \in DOMAIN tracks
        BY <1>4, <1>5, <1>6, Positions DEF Orders
  <2>2. orderPos(now.index) > 1 => orderPos(now.index) - 1 \in 1 .. Len(tracks)
        BY <1>6, <2>1
  <2>3. Len(order) \in 1 .. Len(tracks)
        BY <1>6, <2>1
  <2>4. PrevTarget \in DOMAIN tracks
        BY <1>4, <2>1, <2>2, <2>3 DEF PrevTarget
  <2> QED BY <1>1, <1>8, <1>10, <2>4 DEF prev
<1>11. CASE seek
  <2>1. \A f \in 0 .. lengths[now.index] - 1 : [now EXCEPT !.frame = f] \in Place
        BY <1>3, <1>4, <1>7 DEF Place
  <2> QED BY <1>1, <1>11, <2>1 DEF seek
<1> QED BY <1>9, <1>10, <1>11

LEMMA ValuesStep == Values /\ Places /\ [Next]_vars => Values'
<1> SUFFICES ASSUME Values, Places, [Next]_vars PROVE Values'
    OBVIOUS
<1>1. toc' = toc
      BY DEF Next, Reader, ReaderWaits, ReaderReads, ReaderKeeps, ReaderDrops, ReaderEnds, SoundSide,
             Hear, OrderIsOver, User, play, pause, resume, next, prev, seek, JumpFrom, stop, Joined,
             setRepeat, setShuffle, Turn, vars
<1>2. Orders' = Orders
      BY <1>1, SameDisc DEF Orders
<1>3. \A first, shuffled : rebuildOrder(first, shuffled) \subseteq Orders
      BY OrdersAreComplete DEF Values
<1>7. CASE next \/ prev \/ seek
  <2>1. PICK place \in Place : startAt(place)
        BY <1>7, JumpsGoToPlaces
  <2>2. UNCHANGED <<toc, st, rep, order, shuf, turns, ui>>
        BY <1>7, JumpsGoToPlaces
  <2> QED BY <1>2, <2>1, <2>2 DEF startAt, Values, Mode
<1> USE <1>1, <1>2 DEF Values, Mode
<1>4. CASE Reader
      BY <1>4 DEF Reader, ReaderWaits, ReaderReads, ReaderKeeps, ReaderDrops, ReaderEnds
<1>5. CASE SoundSide
      BY <1>5 DEF SoundSide, Hear, OrderIsOver
<1>6. ASSUME NEW index \in DOMAIN tracks, play(index) PROVE Values'
      BY <1>3, <1>6 DEF play, startAt
<1>8. CASE pause \/ resume \/ stop \/ Joined
      BY <1>8 DEF pause, resume, stop, Joined
<1>9. CASE setRepeat
      BY <1>9 DEF setRepeat, Turn
<1>10. CASE setShuffle
  <2>1. order' \in Orders
        BY <1>3, <1>10 DEF setShuffle
  <2> QED BY <1>10, <2>1 DEF setShuffle, Turn
<1>11. CASE UNCHANGED vars
       BY <1>11 DEF vars
<1> QED BY <1>4, <1>5, <1>6, <1>7, <1>8, <1>9, <1>10, <1>11 DEF Next, User

LEMMA PlacesStep == Inv /\ [Next]_vars => Places'
<1> SUFFICES ASSUME Inv, [Next]_vars PROVE Places'
    OBVIOUS
<1>1. toc \in Tocs /\ toc' = toc /\ toc' \in Tocs
      BY ValuesStep DEF Inv, Values, Next, Reader, ReaderWaits, ReaderReads, ReaderKeeps, ReaderDrops,
             ReaderEnds, SoundSide, Hear, OrderIsOver, User, play, pause, resume, next, prev, seek,
             JumpFrom, stop, Joined, setRepeat, setShuffle, Turn, vars
<1>2. Place' = Place /\ Readers' = Readers
      BY <1>1, SameDisc DEF Readers
<1>3. {Awake, Asleep, Gone} \subseteq Readers
      BY DEF Awake, Asleep, Gone, Readers
<1>4. Woken \in Readers
      BY <1>3 DEF Inv, Places, Woken
<1>5. Capacity \in Nat /\ Capacity >= 2
      BY CddaPlayerAssumption
<1> USE <1>1, <1>2, <1>3, <1>4, <1>5 DEF Inv, Places
<1>6. ASSUME NEW place \in Place, startAt(place) PROVE Places'
      BY <1>6, EmptySeq DEF startAt
<1>7. CASE ReaderWaits \/ ReaderDrops \/ ReaderEnds
      BY <1>7 DEF ReaderWaits, ReaderDrops, ReaderEnds
<1>8. CASE ReaderReads
  <2>1. reader' \in Readers
        BY <1>8 DEF ReaderReads, Readers, Values
  <2> QED BY <1>8, <2>1 DEF ReaderReads
<1>9. CASE ReaderKeeps
  <2>1. reader.at \in Place /\ Len(ring) < Capacity
        BY <1>9 DEF ReaderKeeps, Reading
  <2>2. ring' \in Seq(Place) /\ Len(ring') <= Capacity
        BY <1>9, <2>1, AppendProperties DEF ReaderKeeps
  <2>3. cur' \in Place \cup {NoPlace}
    <3>1. \A i \in DOMAIN tracks : lengths[i] \in Nat \ {0}
          BY TracksPlay
    <3>2. successor(reader.at.index, FALSE) \in DOMAIN tracks \cup {None}
          BY <2>1, SuccessorIsTrack DEF Place, Values
    <3>3. CASE reader.at.frame + 1 < lengths[reader.at.index]
      <4>1. [reader.at EXCEPT !.frame = @ + 1] \in Place
            BY <2>1, <3>3 DEF Place
      <4> QED BY <1>9, <3>3, <4>1 DEF ReaderKeeps, Advance
    <3>4. CASE ~ (reader.at.frame + 1 < lengths[reader.at.index])
      <4>1. \A i \in DOMAIN tracks : [index |-> i, frame |-> 0] \in Place
            BY <3>1 DEF Place
      <4> QED BY <1>9, <3>2, <3>4, <4>1 DEF ReaderKeeps, Advance
    <3> QED BY <3>3, <3>4
  <2> QED BY <1>9, <2>2, <2>3 DEF ReaderKeeps
<1>10. CASE Hear
  <2>1. Head(ring) \in Place /\ Tail(ring) \in Seq(Place) /\ Len(Tail(ring)) <= Capacity
        BY <1>10, HeadTailProperties DEF Hear
  <2> QED BY <1>10, <2>1 DEF Hear
<1>11. CASE OrderIsOver \/ pause \/ resume \/ Joined
       BY <1>11 DEF OrderIsOver, pause, resume, Joined
<1>12. ASSUME NEW index \in DOMAIN tracks, play(index) PROVE Places'
  <2>1. [index |-> index, frame |-> 0] \in Place
        BY TracksPlay DEF Place
  <2> QED BY <1>6, <1>12, <2>1 DEF play
<1>13. CASE next \/ prev \/ seek
       BY <1>6, <1>13, JumpsGoToPlaces
<1>14. CASE stop
       BY <1>14, EmptySeq DEF stop
<1>15. CASE setRepeat \/ setShuffle
       BY <1>15 DEF setRepeat, setShuffle, Turn
<1>16. CASE UNCHANGED vars
       BY <1>16 DEF vars
<1> QED BY <1>7, <1>8, <1>9, <1>10, <1>11, <1>12, <1>13, <1>14, <1>15, <1>16
        DEF Next, Reader, SoundSide, User

(* The reader's call on the drive, made without the lock.                  *)
LEMMA ReadingStep == Inv /\ [Next]_vars => Reading' /\ AwakeForWork'
<1> SUFFICES ASSUME Inv, [Next]_vars PROVE Reading' /\ AwakeForWork'
    OBVIOUS
<1>1. toc' = toc /\ Places'
      BY PlacesStep DEF Next, Reader, ReaderWaits, ReaderReads, ReaderKeeps, ReaderDrops, ReaderEnds,
             SoundSide, Hear, OrderIsOver, User, play, pause, resume, next, prev, seek, JumpFrom, stop,
             Joined, setRepeat, setShuffle, Turn, vars
<1>2. Place' = Place
      BY <1>1, SameDisc
<1>3. Len(ring) \in Nat /\ Len(ring) <= Capacity /\ Capacity \in Nat /\ generation \in Nat /\ ring \in Seq(Place)
      BY CddaPlayerAssumption, LenProperties DEF Inv, Places, Values
<1>4. Reading /\ AwakeForWork
      BY DEF Inv
<1>5. Woken # Asleep /\ (Woken = reader \/ Woken = Awake)
      BY DEF Woken, Awake, Asleep
<1>6. /\ Awake.pc # "reading" /\ Asleep.pc # "reading" /\ Gone.pc # "reading"
      /\ Awake # Asleep /\ Gone # Asleep
      BY DEF Awake, Asleep, Gone
<1>7. ASSUME NEW place \in Place, startAt(place), ui = "free" PROVE Reading' /\ AwakeForWork'
  <2>1. generation' = generation + 1 /\ ~quit' /\ active' /\ cur' = place
        BY <1>4, <1>7 DEF startAt, Reading
  <2>2. reader' # Asleep /\ (reader' = reader \/ reader' = Awake)
        BY <1>5, <1>6, <1>7 DEF startAt
  <2>3. reader'.pc = "reading" => reader' = reader /\ reader.gen <= generation /\ reader.at \in Place
        BY <1>4, <1>6, <2>2 DEF Reading
  <2>4. reader'.pc = "reading" => reader.gen \in Nat
        BY <2>3 DEF Inv, Places, Readers
  <2>5. reader'.pc = "reading" => reader'.gen <= generation' /\ reader'.at \in Place' /\ Stale'
        BY <1>2, <1>3, <2>1, <2>3, <2>4 DEF Stale
  <2> QED BY <1>2, <2>1, <2>2, <2>5 DEF Reading, AwakeForWork
<1>8. CASE ReaderWaits
  <2>1. AwakeForWork'
        BY <1>8 DEF ReaderWaits, AwakeForWork, NothingToRead
  <2>2. Reading'
        BY <1>2, <1>4, <1>6, <1>8 DEF ReaderWaits, Reading
  <2> QED BY <2>1, <2>2
<1>9. CASE ReaderReads
  <2>1. active /\ Len(ring) # Capacity /\ ~quit /\ cur \in Place
        BY <1>4, <1>9 DEF ReaderReads, NothingToRead, Reading
  <2>2. /\ reader' = [pc |-> "reading", gen |-> generation, at |-> cur]
        /\ UNCHANGED <<active, cur, quit, ring, generation, ui>>
        BY <1>9 DEF ReaderReads
  <2>3. Reading'
        BY <1>2, <1>3, <2>1, <2>2 DEF Reading, Stale
  <2>4. reader' # Asleep
        BY <2>2 DEF Asleep, Awake
  <2> QED BY <2>3, <2>4 DEF AwakeForWork
<1>10. CASE ReaderKeeps
  <2>1. ~quit' /\ reader' = Awake /\ active
        BY <1>4, <1>10 DEF ReaderKeeps, Reading, Stale
  <2>2. active' => cur' \in Place
    <3>1. reader.at \in Place /\ toc \in Tocs /\ order \in Orders
          BY <1>4, <1>10 DEF ReaderKeeps, Reading, Inv, Values
    <3>3. \A i \in DOMAIN tracks : [index |-> i, frame |-> 0] \in Place
          BY <3>1, TracksPlay DEF Place
    <3>4. successor(reader.at.index, FALSE) \in DOMAIN tracks \cup {None}
          BY <3>1, SuccessorIsTrack DEF Place
    <3>5. CASE reader.at.frame + 1 < lengths[reader.at.index]
      <4>1. [reader.at EXCEPT !.frame = @ + 1] \in Place
            BY <3>1, <3>5 DEF Place
      <4> QED BY <1>10, <3>5, <4>1 DEF ReaderKeeps, Advance
    <3>6. CASE ~ (reader.at.frame + 1 < lengths[reader.at.index])
          BY <1>10, <3>3, <3>4, <3>6 DEF ReaderKeeps, Advance
    <3> QED BY <3>5, <3>6
  <2> QED BY <1>2, <1>6, <2>1, <2>2 DEF Reading, AwakeForWork
<1>11. CASE ReaderDrops
       BY <1>2, <1>4, <1>6, <1>11 DEF ReaderDrops, Reading, AwakeForWork
<1>12. CASE ReaderEnds
       BY <1>2, <1>4, <1>6, <1>12 DEF ReaderEnds, Reading, AwakeForWork
<1>13. CASE Hear
  <2>1. UNCHANGED <<active, cur, quit, generation, ui>>
        BY <1>13 DEF Hear
  <2>2. (ring' = ring /\ reader' = reader) \/ (ring' = Tail(ring) /\ reader' = Woken)
    <3>1. CASE half
          BY <1>13, <3>1 DEF Hear
    <3>2. CASE ~half
          BY <1>13, <3>2 DEF Hear
    <3> QED BY <3>1, <3>2
  <2>3. Len(Tail(ring)) \in Nat /\ Len(Tail(ring)) <= Len(ring)
        BY <1>3, <1>13, HeadTailProperties, LenProperties DEF Hear
  <2>4. CASE ring' = ring /\ reader' = reader
        BY <1>2, <1>4, <2>1, <2>4 DEF Reading, AwakeForWork, NothingToRead, Stale
  <2>5. CASE ring' = Tail(ring) /\ reader' = Woken
    <3>1. reader' # Asleep
          BY <1>5, <2>5
    <3>2. reader' = reader \/ reader' = Awake
          BY <1>5, <2>5
    <3>3. Len(ring) < Capacity => Len(ring') < Capacity
          BY <1>3, <2>3, <2>5
    <3>4. quit /\ ui = "free" => reader' = Gone
          BY <1>4, <2>5 DEF Reading, Woken, Asleep, Awake, Gone
    <3> QED BY <1>2, <1>4, <1>6, <2>1, <3>1, <3>2, <3>3, <3>4 DEF Reading, AwakeForWork, Stale
  <2> QED BY <2>2, <2>4, <2>5
<1>14. CASE OrderIsOver \/ pause \/ resume
       BY <1>2, <1>4, <1>14 DEF OrderIsOver, pause, resume, Reading, AwakeForWork, NothingToRead, Stale
<1>15. ASSUME NEW index \in DOMAIN tracks, play(index) PROVE Reading' /\ AwakeForWork'
  <2>1. [index |-> index, frame |-> 0] \in Place
        BY TracksPlay DEF Place, Inv, Values
  <2> QED BY <1>7, <1>15, <2>1 DEF play
<1>16. CASE next \/ prev \/ seek
       BY <1>7, <1>16, JumpsGoToPlaces DEF Inv
<1>17. CASE stop
  <2>1. quit' /\ ~active' /\ ui' = "joining" /\ reader' = Woken /\ generation' = generation + 1
        BY <1>17 DEF stop
  <2>2. reader'.pc = "reading" => reader' = reader /\ reader.gen <= generation /\ reader.at \in Place
        BY <1>4, <1>5, <1>6, <2>1 DEF Reading
  <2>3. reader'.pc = "reading" => reader.gen \in Nat
        BY <2>2 DEF Inv, Places, Readers
  <2>4. reader'.pc = "reading" => reader'.gen <= generation' /\ reader'.at \in Place' /\ Stale'
        BY <1>2, <1>3, <2>1, <2>2, <2>3 DEF Stale
  <2> QED BY <1>5, <2>1, <2>4 DEF Reading, AwakeForWork
<1>18. CASE Joined
       BY <1>2, <1>4, <1>6, <1>18 DEF Joined, Reading, AwakeForWork
<1>19. CASE setRepeat
  <2>1. reader' = Woken /\ UNCHANGED <<active, cur, quit, ring, generation, ui>>
        BY <1>19 DEF setRepeat, Turn
  <2>2. quit /\ ui = "free" => reader' = Gone
        BY <1>4, <2>1 DEF Reading, Woken, Asleep, Awake, Gone
  <2> QED BY <1>2, <1>4, <1>5, <1>6, <2>1, <2>2 DEF Reading, AwakeForWork, Stale
<1>20. CASE setShuffle
       BY <1>2, <1>4, <1>20 DEF setShuffle, Turn, Reading, AwakeForWork, NothingToRead, Stale
<1>21. CASE UNCHANGED vars
       BY <1>2, <1>4, <1>21 DEF vars, Reading, AwakeForWork, NothingToRead, Stale
<1> QED BY <1>8, <1>9, <1>10, <1>11, <1>12, <1>13, <1>14, <1>15, <1>16, <1>17, <1>18, <1>19, <1>20, <1>21
        DEF Next, Reader, SoundSide, User

(* Spec => []Inv: the flags, the values, the places and what is being read *)
(* are well formed, and the reader is awake for its work.                  *)
THEOREM InvHolds == Spec => []Inv
<1>1. Inv /\ [Next]_vars => Inv'
      BY FlagsStep, ValuesStep, PlacesStep, ReadingStep DEF Inv
<1> QED BY <1>1, InvInit, PTL DEF Spec

(* Spec => []TypeOK: whatever disc is in the drive, a place read, shown or *)
(* waiting in the ring is a sector of a track of it, and every track is in *)
(* the order once (CddaPlayer's members, cdda_player.h).                   *)
THEOREM TypesAreKept == Spec => []TypeOK
<1>1. Inv => TypeOK
  <2> SUFFICES ASSUME Inv PROVE TypeOK
      OBVIOUS
  <2>1. Orders \subseteq [DOMAIN tracks -> DOMAIN tracks]
        BY DEF Orders
  <2>2. {shuf, active, half, quit} \subseteq BOOLEAN
        BY DEF Inv, Flags
  <2>3. /\ toc \in Tocs /\ st \in {"Stopped", "Playing", "Paused"} /\ rep \in {"Off", "Track", "Disc"}
        /\ order \in [DOMAIN tracks -> DOMAIN tracks]
        /\ modes \subseteq [rep : {"Off", "Track", "Disc"}, order : [DOMAIN tracks -> DOMAIN tracks]]
        /\ ui \in {"free", "joining"} /\ heard \in 0 .. 2 /\ generation \in Nat /\ turns \in Nat
        BY <2>1 DEF Inv, Values
  <2>4. /\ {cur, now, reader.at} \subseteq Place \cup {NoPlace}
        /\ ring \in Seq(Place) /\ Len(ring) <= Capacity
        /\ reader.pc \in {"awake", "asleep", "reading", "gone"} /\ reader.gen \in Nat
        BY DEF Inv, Places, Readers
  <2> QED BY <2>2, <2>3, <2>4 DEF TypeOK
<1> QED BY <1>1, InvHolds, PTL

(* Spec => []AwakeForWork: no call of the user and nothing the sound side  *)
(* does leaves the reader asleep with something to read or told to quit,   *)
(* however the threads interleave (the waits and notify_all of run()).     *)
THEOREM NeverSleepsThroughACall == Spec => []AwakeForWork
<1>1. Inv => AwakeForWork
      BY DEF Inv
<1> QED BY <1>1, InvHolds, PTL

(* For tables in order no sector of a data track and none of a pregap is   *)
(* ever read as music, wherever the user jumps and in whatever order he    *)
(* plays (the ends the constructor gives the tracks).                      *)
THEOREM NoNoiseIsRead ==
    ASSUME TablesAreInOrder PROVE Spec => []OnlyMusicIsRead
<1>1. Inv => OnlyMusicIsRead
  <2> SUFFICES ASSUME Inv, reader.pc = "reading" PROVE OnlyMusicIsRead
      BY DEF OnlyMusicIsRead
  <2> DEFINE k == reader.at.index
             lba == tracks[k].start + reader.at.frame
  <2>1. toc \in Tocs /\ reader.at \in Place
        BY DEF Inv, Values, Reading
  <2>2. k \in DOMAIN tracks /\ reader.at.frame \in Nat /\ reader.at.frame < lengths[k] /\ lengths[k] \in Nat
        BY <2>1, TracksPlay DEF Place
  <2>3. PICK i \in DOMAIN toc.tracks :
           /\ tracks[k].start = toc.tracks[i].start /\ toc.tracks[i].audio
           /\ tracks[k].start + lengths[k] = EndOf(toc, i)
        BY <2>1, <2>2, TracksPlay
  <2>4. DOMAIN toc.tracks = 1 .. Len(toc.tracks) /\ Len(toc.tracks) \in Nat /\ toc.leadout \in Nat
        BY <2>1, CddaPlayerAssumption, LenProperties
  <2>5. \A j \in DOMAIN toc.tracks : toc.tracks[j].start \in Nat /\ toc.tracks[j].pregap \in Nat
    <3> SUFFICES ASSUME NEW j \in DOMAIN toc.tracks
                 PROVE  toc.tracks[j].start \in Nat /\ toc.tracks[j].pregap \in Nat
        OBVIOUS
    <3>1. toc.tracks \in Seq([start : Nat, pregap : Nat, audio : BOOLEAN])
          BY <2>1, CddaPlayerAssumption
    <3>2. toc.tracks[j] \in [start : Nat, pregap : Nat, audio : BOOLEAN]
          BY <3>1, <2>4, ElementOfSeq
    <3> QED BY <3>2
  <2>6. i # Len(toc.tracks) => i < Len(toc.tracks) /\ i + 1 \in DOMAIN toc.tracks
        BY <2>4
  <2>7. toc.tracks[i].start <= lba /\ lba < EndOf(toc, i)
        BY <2>2, <2>3, <2>5
  <2>8. i < Len(toc.tracks) =>
           /\ toc.tracks[i].start < toc.tracks[i + 1].start - toc.tracks[i + 1].pregap
           /\ toc.tracks[i + 1].start <= toc.leadout
        BY <2>1, <2>4, <2>6 DEF TablesAreInOrder
  <2>9. CASE i = Len(toc.tracks)
    <3>1. EndOf(toc, i) = toc.leadout /\ ~ (i < Len(toc.tracks))
          BY <2>4, <2>9 DEF EndOf
    <3> QED BY <2>3, <2>7, <3>1 DEF OnlyMusicIsRead
  <2>10. CASE i < Len(toc.tracks)
    <3> DEFINE n == toc.tracks[i + 1]
    <3>1. n.start \in Nat /\ n.pregap \in Nat /\ toc.tracks[i].start \in Nat
          BY <2>4, <2>5, <2>6, <2>10
    <3>2. n.pregap < n.start /\ n.start - n.pregap > toc.tracks[i].start
          BY <2>8, <2>10, <3>1
    <3>3. EndOf(toc, i) = n.start - n.pregap
          BY <2>4, <2>10, <3>1, <3>2 DEF EndOf
    <3>4. lba < n.start - n.pregap /\ lba \in Nat /\ n.start <= toc.leadout
          BY <2>2, <2>3, <2>5, <2>7, <2>8, <2>10, <3>3
    <3>5. lba < toc.leadout
      <4> HIDE DEF n, lba
      <4> QED BY <2>4, <3>1, <3>4
    <3> QED BY <2>3, <2>7, <3>4, <3>5 DEF OnlyMusicIsRead
  <2> QED BY <2>4, <2>9, <2>10
<1> QED BY <1>1, InvHolds, PTL

-----------------------------------------------------------------------------
(* The promise to the listener.  The ring is the music between what was    *)
(* heard last and what is read next, each place following the one before   *)
(* it in a mode that was in force since the last jump.                     *)
After(music, ms, p) ==
    IF p.frame + 1 = music[p.index]
      THEN {[index |-> i, frame |-> 0] : i \in UNION {Promise!Successors(m, p.index) : m \in ms}}
      ELSE {[p EXCEPT !.frame = @ + 1]}

RunsOut(music, ms, p) ==
    p.frame + 1 = music[p.index] /\ \E m \in ms : Promise!Successors(m, p.index) = {}

LastKept == IF ring = <<>> THEN now ELSE ring[Len(ring)]
Due == IF ring = <<>> /\ heard = 0 THEN {now} ELSE After(lengths, modes, LastKept)

Hearing ==
    /\ st = "Stopped" => ring = <<>> /\ ~active
    /\ st # "Stopped" => now \in Place
    /\ half <=> heard = 1
    /\ half => ring # <<>> /\ ring[1] = now
    /\ ring # <<>> /\ heard = 0 => ring[1] = now
    /\ ring # <<>> /\ heard = 2 => ring[1] \in After(lengths, modes, now)

Stream ==
    /\ \A i \in 1 .. Len(ring) - 1 : ring[i + 1] \in After(lengths, modes, ring[i])
    /\ active => cur \in Due
    /\ st # "Stopped" /\ ~active => RunsOut(lengths, modes, LastKept) /\ (ring = <<>> => heard = 2)

(* A mode more takes nothing away from what may follow.                    *)
LEMMA MoreModes ==
    ASSUME NEW music, NEW ms, NEW more, ms \subseteq more, NEW p
    PROVE  /\ After(music, ms, p) \subseteq After(music, more, p)
           /\ RunsOut(music, ms, p) => RunsOut(music, more, p)
BY DEF After, RunsOut

LEMMA SuccessorsOfMode ==
    ASSUME toc \in Tocs, order \in Orders, NEW index \in DOMAIN tracks
    PROVE  Promise!Successors(Mode, index) = {successor(index, FALSE)} \ {None}
<1>1. /\ Len(order) = Len(tracks) /\ DOMAIN order = 1 .. Len(tracks) /\ Len(tracks) \in Nat
      /\ orderPos(index) \in 1 .. Len(tracks)
      /\ DOMAIN tracks = 1 .. Len(tracks)
      BY Positions, TracksPlay
<1>2. Mode.order = order /\ Mode.rep = rep /\ Promise!PositionOf(Mode.order, index) = orderPos(index)
      BY DEF Mode, Promise!PositionOf, orderPos
<1>3. index # None /\ \A p \in 1 .. Len(tracks) : order[p] # None
  <2>1. \A p \in 1 .. Len(tracks) : order[p] \in 1 .. Len(tracks)
        BY <1>1 DEF Orders
  <2> QED BY <1>1, <2>1 DEF None
<1>4. orderPos(index) < Len(order) => orderPos(index) + 1 \in 1 .. Len(tracks)
      BY <1>1
<1>5. 1 \in 1 .. Len(tracks)
      BY <1>1
<1> QED BY <1>1, <1>2, <1>3, <1>4, <1>5 DEF Promise!Successors, successor

(* What the reader takes up after a sector it keeps.                       *)
LEMMA AdvanceFollows ==
    ASSUME Inv, ReaderKeeps
    PROVE  \/ active' /\ cur' \in After(lengths, modes, reader.at)
           \/ ~active' /\ RunsOut(lengths, modes, reader.at)
<1> DEFINE p == reader.at
           n == successor(p.index, FALSE)
<1>1. toc \in Tocs /\ order \in Orders /\ p \in Place /\ active /\ Mode \in modes
      BY DEF Inv, Values, Reading, ReaderKeeps
<1>2. /\ p.index \in DOMAIN tracks /\ p.frame \in Nat
      /\ p.frame < lengths[p.index] /\ lengths[p.index] \in Nat
      BY <1>1, TracksPlay DEF Place
<1>3. Promise!Successors(Mode, p.index) = {n} \ {None}
      BY <1>1, <1>2, SuccessorsOfMode
<1>4. Advance(p)
      BY DEF ReaderKeeps
<1>5. CASE p.frame + 1 < lengths[p.index]
  <2>1. cur' = [p EXCEPT !.frame = @ + 1] /\ active'
        BY <1>1, <1>4, <1>5 DEF Advance
  <2>2. p.frame + 1 # lengths[p.index]
        BY <1>2, <1>5
  <2>3. cur' \in After(lengths, modes, p)
        <3> HIDE DEF p
        <3> QED BY <2>1, <2>2 DEF After
  <2> QED BY <2>1, <2>3
<1>6. CASE ~ (p.frame + 1 < lengths[p.index])
  <2>1. p.frame + 1 = lengths[p.index]
        BY <1>2, <1>6
  <2>2. CASE n = None
    <3>1. ~active'
          BY <1>4, <1>6, <2>2 DEF Advance
    <3>2. Promise!Successors(Mode, p.index) = {}
          BY <1>3, <2>2
    <3> QED BY <1>1, <2>1, <3>1, <3>2 DEF RunsOut
  <2>3. CASE n # None
    <3>1. cur' = [index |-> n, frame |-> 0] /\ active'
          BY <1>1, <1>4, <1>6, <2>3 DEF Advance
    <3>2. n \in UNION {Promise!Successors(m, p.index) : m \in modes}
          BY <1>1, <1>3, <2>3
    <3>3. cur' \in After(lengths, modes, p)
          <4> HIDE DEF p, n
          <4> QED BY <2>1, <3>1, <3>2 DEF After
    <3> QED BY <3>1, <3>3
  <2> QED BY <2>2, <2>3
<1> QED BY <1>5, <1>6

(* A jump leaves nothing of what was read before it.                       *)
LEMMA JumpsStartAfresh ==
    ASSUME NEW place \in Place, Place' = Place, startAt(place), st' # "Stopped"
    PROVE  Hearing' /\ Stream'
<1>1. ring' = <<>> /\ ~half' /\ cur' = place /\ now' = place /\ active' /\ heard' = 0
      BY DEF startAt
<1>2. Hearing'
      BY <1>1 DEF Hearing
<1>3. Due' = {now'} /\ Len(ring') = 0
      BY <1>1, EmptySeq DEF Due
<1> QED BY <1>1, <1>2, <1>3 DEF Stream

LEMMA StreamInit == Init => Hearing /\ Stream
<1> SUFFICES ASSUME Init PROVE Hearing /\ Stream
    OBVIOUS
<1>1. ring = <<>> /\ Len(ring) = 0 /\ ~half /\ heard = 0 /\ ~active /\ st = "Stopped"
      BY EmptySeq DEF Init
<1> QED BY <1>1 DEF Hearing, Stream

(* Half a sector handed out.                                               *)
LEMMA HearingGoesOn ==
    ASSUME Inv, Hearing, Stream, Hear, Place' = Place, lengths' = lengths
    PROVE  Hearing' /\ Stream'
<1>1. /\ ring \in Seq(Place) /\ Len(ring) \in Nat /\ ring # <<>> /\ Len(ring) >= 1
      /\ Head(ring) = ring[1] /\ ring[1] \in Place
      /\ heard \in 0 .. 2
      BY LenProperties, HeadTailProperties, EmptySeq, ElementOfSeq DEF Inv, Places, Values, Hear
<1>2. /\ st # "Stopped" /\ st' = st /\ now' = ring[1] /\ active' = active /\ cur' = cur /\ modes' = modes
      /\ heard' = IF heard < 2 THEN heard + 1 ELSE 1
      BY <1>1 DEF Hear
<1>3. CASE half
  <2>1. ring[1] = now /\ heard = 1 /\ heard' = 2 /\ ~half'
    <3>1. ring[1] = now
          BY <1>3 DEF Hearing
    <3>2. heard = 1
          BY <1>3 DEF Hearing
    <3>3. ~half'
          BY <1>3 DEF Hear
    <3> QED BY <1>2, <3>1, <3>2, <3>3
  <2>2. ring' = Tail(ring)
        BY <1>3 DEF Hear
  <2>3. /\ ring' \in Seq(Place) /\ Len(ring') = Len(ring) - 1
        /\ \A i \in 1 .. Len(ring) - 1 : ring'[i] = ring[i + 1]
        BY <1>1, <2>2, HeadTailProperties
  <2>4. ring' # <<>> => /\ Len(ring') \in Nat \ {0} /\ Len(ring) - 1 \in 1 .. Len(ring) - 1
                        /\ ring'[1] = ring[2] /\ ring'[Len(ring')] = ring[Len(ring)]
        BY <1>1, <2>3, EmptySeq
  <2>5. ring' = <<>> => Len(ring) = 1 /\ LastKept = now
    <3> SUFFICES ASSUME ring' = <<>> PROVE Len(ring) = 1 /\ LastKept = now
        OBVIOUS
    <3>1. Len(ring') = 0
          OBVIOUS
    <3>2. Len(ring) = 1
          BY <1>1, <2>3, <3>1
    <3> QED BY <1>1, <2>1, <3>2 DEF LastKept
  <2>6. LastKept' = LastKept
        BY <1>1, <1>2, <2>1, <2>4, <2>5 DEF LastKept
  <2>7. ring' # <<>> => ring'[1] \in After(lengths, modes, ring[1])
    <3> SUFFICES ASSUME ring' # <<>> PROVE ring'[1] \in After(lengths, modes, ring[1])
        OBVIOUS
    <3>1. 1 \in 1 .. Len(ring) - 1
          BY <1>1, <2>3, <2>4
    <3>2. ring[1 + 1] \in After(lengths, modes, ring[1])
          BY <3>1 DEF Stream
    <3> QED BY <2>4, <3>2
  <2>8. Hearing'
        BY <1>1, <1>2, <2>1, <2>7 DEF Hearing
  <2>9. \A i \in 1 .. Len(ring') - 1 : ring'[i + 1] \in After(lengths, modes, ring'[i])
    <3> SUFFICES ASSUME NEW i \in 1 .. Len(ring') - 1
                 PROVE  ring'[i + 1] \in After(lengths, modes, ring'[i])
        OBVIOUS
    <3>1. i \in 1 .. Len(ring) - 1 /\ i + 1 \in 1 .. Len(ring) - 1
          BY <1>1, <2>3
    <3>2. ring[(i + 1) + 1] \in After(lengths, modes, ring[i + 1])
          BY <3>1 DEF Stream
    <3>3. ring'[i] = ring[i + 1] /\ ring'[i + 1] = ring[(i + 1) + 1]
          BY <2>3, <3>1
    <3> QED BY <3>2, <3>3
  <2>10. active' => cur' \in Due'
         BY <1>1, <1>2, <2>1, <2>6 DEF Stream, Due
  <2>11. ~active' => RunsOut(lengths, modes, LastKept)
         BY <1>2 DEF Stream
  <2> QED BY <1>2, <2>1, <2>6, <2>8, <2>9, <2>10, <2>11 DEF Stream
<1>4. CASE ~half
  <2>1. ring' = ring /\ half' /\ heard' = 1
    <3>1. ring' = ring
          BY <1>4 DEF Hear
    <3>2. half'
          BY <1>4 DEF Hear
    <3>3. heard # 1
          BY <1>4 DEF Hearing
    <3> QED BY <1>1, <1>2, <3>1, <3>2, <3>3
  <2>2. Hearing'
        BY <1>1, <1>2, <2>1 DEF Hearing
  <2>3. LastKept' = LastKept /\ Due' = Due
        BY <1>1, <1>2, <2>1 DEF LastKept, Due
  <2> QED BY <1>1, <1>2, <2>1, <2>2, <2>3 DEF Stream
<1> QED BY <1>3, <1>4

(* A sector put into the ring.                                             *)
LEMMA ReadingGoesOn ==
    ASSUME Inv, Hearing, Stream, ReaderKeeps, Place' = Place, lengths' = lengths
    PROVE  Hearing' /\ Stream'
<1> DEFINE place == reader.at
<1>1. /\ ring \in Seq(Place) /\ Len(ring) \in Nat /\ place \in Place
      /\ active /\ cur = place /\ heard \in 0 .. 2
      BY LenProperties DEF Inv, Places, Values, Reading, ReaderKeeps
<1>2. ring' = Append(ring, place) /\ UNCHANGED <<st, half, now, heard, modes>>
      BY DEF ReaderKeeps
<1>3. st # "Stopped" /\ place \in Due
      BY <1>1 DEF Hearing, Stream
<1>4. /\ Len(ring') = Len(ring) + 1 /\ ring' # <<>>
      /\ \A i \in 1 .. Len(ring) : ring'[i] = ring[i]
      /\ ring'[Len(ring) + 1] = place
      BY <1>1, <1>2, AppendProperties
<1>5. LastKept' = place
      BY <1>4 DEF LastKept
<1>6. Hearing'
  <2>1. CASE ring = <<>>
    <3>1. Len(ring) = 0 /\ ring'[1] = place
          BY <1>4, <2>1, EmptySeq
    <3>2. ~half /\ heard # 1
          BY <2>1 DEF Hearing
    <3>3. heard = 0 => place = now
          BY <1>3, <2>1 DEF Due
    <3>4. heard = 2 => place \in After(lengths, modes, now)
          BY <1>3, <2>1 DEF Due, LastKept
    <3> QED BY <1>1, <1>2, <1>3, <1>4, <3>1, <3>2, <3>3, <3>4 DEF Hearing
  <2>2. CASE ring # <<>>
    <3>1. 1 \in 1 .. Len(ring)
          BY <1>1, <2>2, EmptySeq
    <3>2. ring'[1] = ring[1]
          BY <1>4, <3>1
    <3> QED BY <1>1, <1>2, <1>3, <1>4, <2>2, <3>2 DEF Hearing
  <2> QED BY <2>1, <2>2
<1>7. \A i \in 1 .. Len(ring') - 1 : ring'[i + 1] \in After(lengths, modes, ring'[i])
  <2> SUFFICES ASSUME NEW i \in 1 .. Len(ring) PROVE ring'[i + 1] \in After(lengths, modes, ring'[i])
      BY <1>1, <1>4
  <2>1. CASE i = Len(ring)
    <3>1. ring # <<>>
          BY <1>1, <2>1, EmptySeq
    <3>2. place \in After(lengths, modes, ring[Len(ring)])
          BY <1>3, <3>1 DEF Due, LastKept
    <3>3. ring'[i] = ring[Len(ring)] /\ ring'[i + 1] = place
          BY <1>4, <2>1
    <3> QED BY <3>2, <3>3
  <2>2. CASE i # Len(ring)
    <3>1. i \in 1 .. Len(ring) - 1 /\ i + 1 \in 1 .. Len(ring)
          BY <1>1, <2>2
    <3>2. ring[i + 1] \in After(lengths, modes, ring[i])
          BY <3>1 DEF Stream
    <3>3. ring'[i] = ring[i] /\ ring'[i + 1] = ring[i + 1]
          BY <1>4, <3>1
    <3> QED BY <3>2, <3>3
  <2> QED BY <2>1, <2>2
<1>8. Due' = After(lengths, modes, place)
      BY <1>2, <1>4, <1>5 DEF Due
<1>9. \/ active' /\ cur' \in After(lengths, modes, place)
      \/ ~active' /\ RunsOut(lengths, modes, place)
      BY AdvanceFollows
<1> HIDE DEF place
<1> QED BY <1>2, <1>4, <1>5, <1>6, <1>7, <1>8, <1>9 DEF Stream

(* A change of Repeat or of shuffle.                                       *)
LEMMA TurnsAreFollowed ==
    ASSUME Hearing, Stream, Turn, Place' = Place, lengths' = lengths
    PROVE  Hearing' /\ Stream'
<1>1. /\ UNCHANGED <<st, active, cur, ring, half, now, heard>>
      /\ modes \subseteq modes'
      BY DEF Turn
<1>2. \A p : /\ After(lengths, modes, p) \subseteq After(lengths, modes', p)
             /\ RunsOut(lengths, modes, p) => RunsOut(lengths, modes', p)
      BY <1>1, MoreModes
<1>3. Hearing'
      BY <1>1, <1>2 DEF Hearing
<1>4. LastKept' = LastKept /\ Due \subseteq Due'
      BY <1>1, <1>2 DEF LastKept, Due
<1>5. \A i \in 1 .. Len(ring) - 1 : ring[i + 1] \in After(lengths, modes', ring[i])
      BY <1>2 DEF Stream
<1>6. active => cur \in Due'
      BY <1>4 DEF Stream
<1>7. st # "Stopped" /\ ~active => RunsOut(lengths, modes', LastKept) /\ (ring = <<>> => heard = 2)
      BY <1>2 DEF Stream
<1> QED BY <1>1, <1>3, <1>4, <1>5, <1>6, <1>7 DEF Stream

LEMMA StreamStep == Inv /\ Hearing /\ Stream /\ [Next]_vars => Hearing' /\ Stream'
<1> SUFFICES ASSUME Inv, Hearing, Stream, [Next]_vars PROVE Hearing' /\ Stream'
    OBVIOUS
<1>1. toc \in Tocs /\ toc' = toc
      BY DEF Inv, Values, Next, Reader, ReaderWaits, ReaderReads, ReaderKeeps, ReaderDrops, ReaderEnds,
             SoundSide, Hear, OrderIsOver, User, play, pause, resume, next, prev, seek, JumpFrom, stop,
             Joined, setRepeat, setShuffle, Turn, vars
<1>2. Place' = Place /\ lengths' = lengths
      BY <1>1, SameDisc
<1>3. ASSUME UNCHANGED <<active, cur, ring, half, now, heard, modes>>, st' = st \/ (st # "Stopped" /\ st' # "Stopped")
      PROVE  Hearing' /\ Stream'
  <2>1. Hearing'
        BY <1>2, <1>3 DEF Hearing
  <2>2. LastKept' = LastKept /\ Due' = Due
        BY <1>2, <1>3 DEF LastKept, Due
  <2> QED BY <1>2, <1>3, <2>1, <2>2 DEF Stream
<1>4. CASE ReaderWaits \/ ReaderReads \/ ReaderDrops \/ ReaderEnds \/ Joined \/ UNCHANGED vars
      BY <1>3, <1>4 DEF ReaderWaits, ReaderReads, ReaderDrops, ReaderEnds, Joined, vars
<1>5. CASE pause \/ resume
      BY <1>3, <1>5 DEF pause, resume
<1>6. CASE OrderIsOver
      BY <1>2, <1>6, EmptySeq DEF OrderIsOver, Hearing, Stream
<1>7. CASE stop
      BY <1>2, <1>7, EmptySeq DEF stop, Hearing, Stream
<1>8. ASSUME NEW index \in DOMAIN tracks, play(index) PROVE Hearing' /\ Stream'
  <2>1. [index |-> index, frame |-> 0] \in Place
        BY <1>1, TracksPlay DEF Place
  <2> QED BY <1>2, <1>8, <2>1, JumpsStartAfresh DEF play
<1>9. CASE next \/ prev \/ seek
      BY <1>2, <1>9, JumpsGoToPlaces, JumpsStartAfresh DEF Inv
<1> QED BY <1>2, <1>4, <1>5, <1>6, <1>7, <1>8, <1>9, HearingGoesOn, ReadingGoesOn, TurnsAreFollowed
        DEF Next, Reader, SoundSide, User, setRepeat, setShuffle

(* The modes of the player are modes of the promise.                       *)
LEMMA ModesAreModes ==
    ASSUME toc \in Tocs
    PROVE  \A r \in {"Off", "Track", "Disc"}, o \in Orders : [rep |-> r, order |-> o] \in Promise!Modes
<1>1. ASSUME NEW o \in Orders PROVE o \in Seq(DOMAIN lengths)
  <2>1. /\ Len(tracks) \in Nat /\ DOMAIN tracks = 1 .. Len(tracks)
        /\ DOMAIN lengths = DOMAIN tracks
        BY TracksPlay
  <2>2. o \in [1 .. Len(tracks) -> DOMAIN lengths]
        BY <2>1 DEF Orders
  <2> QED BY <2>1, <2>2, IsASeq
<1> QED BY <1>1 DEF Promise!Modes

LEMMA PromiseInit == Init => Promise!Init
<1> SUFFICES ASSUME Init PROVE Promise!Init
    OBVIOUS
<1>1. Mode \in Promise!Modes
      BY InvInit, ModesAreModes DEF Inv, Values, Mode
<1> QED BY <1>1 DEF Init, Promise!Init

LEMMA PromiseStep ==
    ASSUME Inv, Inv', Hearing, Stream, [Next]_vars
    PROVE  [Promise!Next]_<<lengths, st, now, heard, Mode, modes>>
<1>1. toc \in Tocs /\ toc' = toc
      BY DEF Inv, Values, Next, Reader, ReaderWaits, ReaderReads, ReaderKeeps, ReaderDrops, ReaderEnds,
             SoundSide, Hear, OrderIsOver, User, play, pause, resume, next, prev, seek, JumpFrom, stop,
             Joined, setRepeat, setShuffle, Turn, vars
<1>2. lengths' = lengths
      BY <1>1, SameDisc
<1>3. Mode' \in Promise!Modes
  <2>1. Place' = Place /\ Orders' = Orders
        BY <1>1, SameDisc DEF Orders
  <2>2. toc' \in Tocs /\ order' \in Orders /\ rep' \in {"Off", "Track", "Disc"}
        BY <2>1 DEF Inv, Values
  <2> QED BY <1>1, <2>1, <2>2, ModesAreModes DEF Mode
<1>4. UNCHANGED <<st, now, heard, rep, order, modes>> => UNCHANGED <<lengths, st, now, heard, Mode, modes>>
      BY <1>2 DEF Mode
<1>5. CASE Reader \/ Joined \/ UNCHANGED vars
      BY <1>4, <1>5 DEF Reader, ReaderWaits, ReaderReads, ReaderKeeps, ReaderDrops, ReaderEnds, Joined, vars
<1>6. ASSUME NEW place \in Place, startAt(place), st' \in {"Playing", "Paused"} PROVE Promise!Jump
  <2>1. now' = place /\ heard' = 0 /\ modes' = {Mode'}
        BY <1>6 DEF startAt
  <2>2. DOMAIN lengths = DOMAIN tracks /\ place \in Promise!Places /\ place.frame < lengths[place.index]
        BY <1>1, TracksPlay DEF Place, Promise!Places
  <2> QED BY <1>3, <1>6, <2>1, <2>2 DEF Promise!Jump
<1>7. ASSUME NEW index \in DOMAIN tracks, play(index) PROVE Promise!Jump
  <2>1. [index |-> index, frame |-> 0] \in Place
        BY <1>1, TracksPlay DEF Place
  <2> QED BY <1>6, <1>7, <2>1 DEF play
<1>8. CASE next \/ prev \/ seek
  <2>1. PICK place \in Place : startAt(place)
        BY <1>8, JumpsGoToPlaces DEF Inv
  <2>2. st' \in {"Playing", "Paused"}
        BY <1>8, JumpsGoToPlaces DEF Inv, Values
  <2>3. Promise!Jump
        BY <1>6, <2>1, <2>2
  <2> QED BY <1>2, <2>3 DEF Promise!Next
<1>9. CASE pause \/ resume
  <2>1. Promise!PauseOrResume
        BY <1>4, <1>9 DEF pause, resume, Promise!PauseOrResume, Mode
  <2> QED BY <1>2, <2>1 DEF Promise!Next
<1>10. CASE stop
  <2>1. Promise!Stop
        BY <1>10 DEF stop, Promise!Stop, Mode
  <2> QED BY <1>2, <2>1 DEF Promise!Next
<1>11. CASE setRepeat \/ setShuffle
  <2>1. Promise!ChangeMode
        BY <1>3, <1>11 DEF setRepeat, setShuffle, Turn, Promise!ChangeMode
  <2> QED BY <1>2, <2>1 DEF Promise!Next
<1>12. CASE Hear
  <2>1. /\ ring \in Seq(Place) /\ ring # <<>> /\ Head(ring) = ring[1]
        /\ heard \in 0 .. 2 /\ now' = ring[1] /\ heard' = IF heard < 2 THEN heard + 1 ELSE 1
        /\ st = "Playing" /\ UNCHANGED <<st, rep, order, modes>>
        BY <1>12, HeadTailProperties DEF Inv, Places, Values, Hear
  <2>2. Promise!Following = After(lengths, modes, now)
        BY DEF Promise!Following, Promise!AtTrackEnd, After
  <2>3. CASE heard < 2
    <3>1. now' = now
      <4>1. heard = 0 => ring[1] = now
            BY <2>1 DEF Hearing
      <4>2. heard = 1 => ring[1] = now
            BY DEF Hearing
      <4> QED BY <2>1, <2>3, <4>1, <4>2
    <3>2. Promise!Hear
          BY <2>1, <2>3, <3>1 DEF Promise!Hear, Mode
    <3> QED BY <1>2, <3>2 DEF Promise!Next
  <2>4. CASE heard = 2
    <3>1. now' \in Promise!Following
          BY <2>1, <2>2, <2>4 DEF Hearing
    <3>2. Promise!Hear
          BY <2>1, <2>4, <3>1 DEF Promise!Hear, Mode
    <3> QED BY <1>2, <3>2 DEF Promise!Next
  <2> QED BY <2>1, <2>3, <2>4
<1>13. CASE OrderIsOver
  <2>1. heard = 2 /\ RunsOut(lengths, modes, now) /\ st = "Playing"
        BY <1>13 DEF OrderIsOver, Stream, LastKept
  <2>2. Promise!End
        BY <1>13, <2>1 DEF OrderIsOver, RunsOut, Promise!End, Promise!AtTrackEnd, Mode
  <2> QED BY <1>2, <2>2 DEF Promise!Next
<1> QED BY <1>2, <1>5, <1>7, <1>8, <1>9, <1>10, <1>11, <1>12, <1>13
        DEF Next, SoundSide, User, Promise!Next

(* Spec => HeardInOrder: on every disc, with every size of the ring and    *)
(* however the two threads and the user interleave, what is heard is what  *)
(* Listening promises - no half of a sector lost, heard twice or left over *)
(* from before a jump, tracks in the order of a mode that was in force,    *)
(* the end only after the last of them (read, run and startAt).            *)
THEOREM EveryNoteIsHeard == Spec => HeardInOrder
<1>1. Inv /\ Hearing /\ Stream /\ [Next]_vars => Inv' /\ Hearing' /\ Stream'
      BY FlagsStep, ValuesStep, PlacesStep, ReadingStep, StreamStep DEF Inv
<1>2. Inv /\ Inv' /\ Hearing /\ Stream /\ [Next]_vars => [Promise!Next]_<<lengths, st, now, heard, Mode, modes>>
      BY PromiseStep
<1>3. Init => Inv /\ Hearing /\ Stream
      BY InvInit, StreamInit
<1> QED BY <1>1, <1>2, <1>3, PromiseInit, PTL DEF Spec, HeardInOrder, Promise!Spec
=============================================================================
