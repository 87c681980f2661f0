------------------------- MODULE ScanLibrary_proofs -------------------------
(***************************************************************************)
(* Theorems about ScanLibrary, for any folders, games, disc sets and       *)
(* bounds: its state is well formed, a game folder has one row, the        *)
(* carousel's rows name only games there are, a scan never meets what      *)
(* another one left aside, the carousel shows what the database holds, a   *)
(* game that moved keeps its row, and a fingerprint on the stick is of a   *)
(* folder the library has.                                                 *)
(***************************************************************************)
EXTENDS ScanLibrary, FiniteSetTheorems, SequenceTheorems, TLAPS

-----------------------------------------------------------------------------
(* The operators.                                                          *)

(* A finite, non-empty set of numbers has a greatest one: the least of the *)
(* sets {k \in S : k >= i} under inclusion is the one of the greatest i.   *)
LEMMA MaxOfFinite ==
    ASSUME NEW S \in SUBSET Nat, IsFiniteSet(S), S # {}
    PROVE  Max(S) \in S /\ \A y \in S : Max(S) >= y
<1> DEFINE Above(i) == {k \in S : k >= i}
           T == {Above(i) : i \in S}
<1>1. IsWellFoundedOn(StrictSubsetOrdering(S), FiniteSubsetsOf(S))
      BY FS_StrictSubsetOrderingWellFounded
<1>2. T \subseteq FiniteSubsetsOf(S)
      BY FS_Subset DEF FiniteSubsetsOf
<1>3. T # {}
      OBVIOUS
<1> HIDE DEF T
<1>4. PICK X \in T : \A Y \in T : ~ (<<Y, X>> \in StrictSubsetOrdering(S))
      BY <1>1, <1>2, <1>3, WFMin
<1> USE DEF T
<1>5. PICK m \in S : X = Above(m)
      OBVIOUS
<1>6. ASSUME NEW y \in S, ~ (m >= y) PROVE FALSE
  <2>0. m \in Nat /\ y \in Nat /\ m < y
        BY <1>6
  <2>1. Above(y) \subseteq X /\ m \in X /\ m \notin Above(y)
    <3>1. \A k \in S : k \in Nat
          OBVIOUS
    <3>2. X = {k \in S : k >= m}
          BY <1>5
    <3>3. m \in X
          BY <2>0, <3>2
    <3>4. m \notin Above(y)
          BY <2>0
    <3>5. ASSUME NEW k \in Above(y) PROVE k \in X
      <4>1. k \in S /\ k >= y
            OBVIOUS
      <4> QED BY <2>0, <3>1, <3>2, <4>1
    <3> QED BY <3>3, <3>4, <3>5
  <2>2. <<Above(y), X>> \in StrictSubsetOrdering(S)
        BY <1>5, <2>1 DEF StrictSubsetOrdering
  <2>3. Above(y) \in T
        OBVIOUS
  <2> HIDE DEF T
  <2> QED BY <1>4, <2>2, <2>3
<1> QED BY <1>6 DEF Max

(* maxGameId() is above every id: what insertGame is given is new.         *)
LEMMA NewIdIsNew ==
    ASSUME IsTable(db, Rows)
    PROVE  NewId \in Ids /\ NewId \notin DOMAIN db
<1> DEFINE S == DOMAIN db \cup {0}
<1>1. S \in SUBSET Nat /\ IsFiniteSet(S) /\ S # {}
      BY FS_AddElement DEF IsTable, Ids
<1>2. Max(S) \in S /\ \A y \in S : Max(S) >= y
      <2> HIDE DEF S
      <2> QED BY <1>1, MaxOfFinite
<1>3. \A y \in S : y \in Nat
      BY <1>1
<1>4. maxGameId \in Nat /\ \A y \in DOMAIN db : y \in Nat /\ maxGameId >= y
      BY <1>2, <1>3 DEF maxGameId
<1> QED BY <1>4 DEF NewId, Ids

LEMMA TableWith ==
    ASSUME NEW t, NEW rows, IsTable(t, rows), NEW i \in Ids, NEW r \in rows
    PROVE  IsTable([j \in DOMAIN t \cup {i} |-> IF j = i THEN r ELSE t[j]], rows)
BY FS_AddElement DEF IsTable

LEMMA TableWithout ==
    ASSUME NEW t, NEW rows, IsTable(t, rows), NEW i
    PROVE  IsTable([j \in DOMAIN t \ {i} |-> t[j]], rows)
BY FS_RemoveElement DEF IsTable

(* The events are told apart by their kind.                                *)
LEMMA EventKinds ==
    ASSUME NEW e \in Events
    PROVE  /\ e.kind = "ScanStarted" => e.paths \subseteq Paths
           /\ e.kind = "GameVerified" => e.path \in Paths /\ e.discs \in Discs
           /\ e.kind = "GameFailedVerify" => e.path \in Paths
           /\ e.kind = "Finished" =>
                e.hier \subseteq Paths /\ e.failed \subseteq Paths /\ e.fp \in Trees
           /\ e.kind \in {"ScanStarted", "GameVerified", "GameFailedVerify", "Finished"}
BY DEF Events

-----------------------------------------------------------------------------
(* Type correctness.  What poll() holds in its hands between two of its    *)
(* steps, and that a scan is not reported before its fingerprint is taken, *)
(* are what the events and the tables are well formed by.                  *)

Phases ==
    /\ mpc = "frame" => events = <<>>
    /\ mpc = "discs" => events # <<>> /\ Head(events).kind = "GameVerified"
    /\ mpc = "save" => events # <<>> /\ Head(events).kind = "Finished" /\ vanished = {}
    /\ wpc = "finish" => fp \in Trees

TypeInv == TypeOK /\ Phases

USE DEF TypeInv, TypeOK

LEMMA TypeInit == Init => TypeInv
<1> SUFFICES ASSUME Init PROVE TypeInv
    OBVIOUS
<1>1. IsTable(<<>>, Rows) /\ IsTable(<<>>, Paths)
      BY FS_EmptySet DEF IsTable
<1>2. StickOK /\ WorkerOK
      BY <1>1 DEF Init, StickOK, WorkerOK
<1>3. MainOK
      BY <1>1 DEF Init, MainOK, UpdateOK, NoUpdate
<1>4. BoundsOK
      BY ScanLibraryAssumption DEF Init, BoundsOK
<1>5. requested \in BOOLEAN /\ queue \in Seq(Events)
      BY EmptySeq DEF Init
<1> QED BY <1>2, <1>3, <1>4, <1>5 DEF Init, Phases

LEMMA WorkerKeepsTypes ==
    ASSUME TypeInv, Worker
    PROVE  TypeInv'
<1> USE DEF worker, stick, dbVars, mainThread, bounds
<1>1. GamesIn(disk) \subseteq Paths
      BY DEF GamesIn
<1>2. \A paths \in SUBSET Paths : Started(paths) \in Events
      BY DEF Started, Events
<1>3. CASE TakeRequest
      BY <1>3 DEF TakeRequest, StickOK, WorkerOK, MainOK, UpdateOK, BoundsOK, Phases
<1>4. CASE checkForChanges
      BY <1>4 DEF checkForChanges, StickOK, WorkerOK, MainOK, UpdateOK, BoundsOK, Phases
<1>5. CASE ReadHierarchy
  <2>1. queue' \in Seq(Events)
        BY <1>1, <1>2, <1>5 DEF ReadHierarchy
  <2> QED BY <1>1, <1>5, <2>1
          DEF ReadHierarchy, StickOK, WorkerOK, MainOK, UpdateOK, BoundsOK, Phases
<1>6. ASSUME NEW p \in Paths, VisitGame(p) PROVE TypeInv'
  <2>1. disk[p] \in Discs => Verified(p, disk[p]) \in Events /\ Failed(p) \in Events
        BY DEF Verified, Failed, Events
  <2>2. queue' \in Seq(Events)
        BY <1>6, <2>1, ScanLibraryAssumption DEF VisitGame
  <2>3. StickOK' /\ WorkerOK'
        BY <1>6 DEF VisitGame, StickOK, WorkerOK
  <2> QED BY <1>6, <2>2, <2>3 DEF VisitGame, MainOK, UpdateOK, BoundsOK, Phases
<1>7. CASE TakeFingerprint
      BY <1>7 DEF TakeFingerprint, StickOK, WorkerOK, MainOK, UpdateOK, BoundsOK, Phases
<1>8. CASE EndScan
  <2>1. Finished(hier, failed, fp) \in Events
        BY <1>8 DEF EndScan, Finished, Events, WorkerOK, Phases
  <2>2. queue' \in Seq(Events)
        BY <1>8, <2>1 DEF EndScan
  <2> QED BY <1>8, <2>2 DEF EndScan, StickOK, WorkerOK, MainOK, UpdateOK, BoundsOK, Phases
<1> QED BY <1>3, <1>4, <1>5, <1>6, <1>7, <1>8 DEF Worker

(* The head of what poll() holds, and the rest of it.                      *)
LEMMA HeadOfEvents ==
    ASSUME events \in Seq(Events), events # <<>>
    PROVE  Head(events) \in Events /\ Tail(events) \in Seq(Events)
OBVIOUS

LEMMA deleteGameKeepsTypes ==
    ASSUME StickOK, UpdateOK, NEW id \in Ids, deleteGame(id)
    PROVE  IsTable(db', Rows) /\ shown' \subseteq Ids /\ UpdateOK'
<1>1. IsTable(db', Rows)
      BY TableWithout DEF deleteGame, Without, StickOK
<1> QED BY <1>1 DEF deleteGame, StickOK, UpdateOK

LEMMA TellingKeepsTypes ==
    ASSUME UpdateOK, NEW id \in Ids, NEW p \in Paths, NEW added \in SUBSET {id},
           update' = Telling(id, p, added)
    PROVE  UpdateOK'
<1> DEFINE c == [i \in DOMAIN update.changed \cup {id} |->
                    IF i = id THEN p ELSE update.changed[i]]
<1>1. IsTable(c, Paths)
      BY TableWith DEF UpdateOK
<1>2. update' = [removed |-> update.removed, added |-> update.added \cup added,
                 changed |-> c, finished |-> update.finished]
      BY DEF UpdateOK, Telling
<1>3. DOMAIN c = DOMAIN update.changed \cup {id}
      OBVIOUS
<1> HIDE DEF c
<1> QED BY <1>1, <1>2, <1>3 DEF UpdateOK

LEMMA WithRowIsTable ==
    ASSUME IsTable(db, Rows), NEW id \in Ids, NEW r \in Rows
    PROVE  IsTable(WithRow(id, r), Rows)
BY TableWith DEF WithRow

LEMMA ApplyVerifiedGameKeepsTypes ==
    ASSUME TypeInv, ApplyVerifiedGame
    PROVE  TypeInv'
<1> DEFINE e == Head(events)
<1>1. e.path \in Paths /\ e.discs \in Discs /\ e.kind = "GameVerified" /\ events # <<>>
      BY HeadOfEvents, EventKinds DEF ApplyVerifiedGame, Handling, MainOK
<1>2. IsTable(db, Rows) /\ UpdateOK /\ vanished \subseteq Vanished
      BY DEF StickOK, MainOK
<1>3. /\ IsTable(db', Rows) /\ UpdateOK' /\ vanished' \subseteq Vanished
      /\ fresh' \subseteq Ids
  <2> HIDE DEF e
  <2>1. ASSUME NEW id \in RowsAt(e.path), update' = Telling(id, e.path, {}),
               UNCHANGED <<db, vanished, fresh>>
        PROVE  UpdateOK'
    <3>1. id \in Ids
          BY <1>2 DEF RowsAt, IsTable
    <3> QED BY <1>1, <1>2, <2>1, <3>1, TellingKeepsTypes
  <2>2. ASSUME NEW v \in Claimable(e),
               db' = WithRow(v.id, [path |-> e.path, discs |-> v.discs]),
               update' = Telling(v.id, e.path, {})
        PROVE  IsTable(db', Rows) /\ UpdateOK'
    <3>1. v.id \in Ids /\ [path |-> e.path, discs |-> v.discs] \in Rows
          BY <1>1, <1>2 DEF Claimable, Vanished, Rows
    <3>2. IsTable(db', Rows)
          BY <1>2, <2>2, <3>1, WithRowIsTable
    <3>3. UpdateOK'
          BY <1>1, <1>2, <2>2, <3>1, TellingKeepsTypes
    <3> QED BY <3>2, <3>3
  <2>3. ASSUME db' = WithRow(NewId, [path |-> e.path, discs |-> NoGame]),
               update' = Telling(NewId, e.path, {NewId})
        PROVE  IsTable(db', Rows) /\ UpdateOK' /\ NewId \in Ids
    <3>1. NewId \in Ids /\ [path |-> e.path, discs |-> NoGame] \in Rows
          BY <1>1, <1>2, NewIdIsNew DEF Rows
    <3>2. IsTable(db', Rows)
          BY <1>2, <2>3, <3>1, WithRowIsTable
    <3>3. UpdateOK'
          BY <1>1, <1>2, <2>3, <3>1, TellingKeepsTypes
    <3> QED BY <3>1, <3>2, <3>3
  <2> QED BY <1>2, <2>1, <2>2, <2>3 DEF ApplyVerifiedGame, MainOK, e
<1> QED BY <1>1, <1>3
        DEF ApplyVerifiedGame, StickOK, WorkerOK, MainOK, BoundsOK, Phases, worker, bounds

LEMMA ReplaceDiscsKeepsTypes ==
    ASSUME TypeInv, ReplaceDiscs
    PROVE  TypeInv'
<1> DEFINE e == Head(events)
           row(i) == IF db[i].path = e.path THEN [db[i] EXCEPT !.discs = e.discs] ELSE db[i]
<1>1. e.discs \in Discs /\ events' \in Seq(Events)
      BY HeadOfEvents, EventKinds DEF ReplaceDiscs, Handled, MainOK, Phases
<1>2. IsTable(db', Rows)
  <2>1. \A i \in DOMAIN db : row(i) \in Rows
        BY <1>1 DEF StickOK, IsTable, Rows
  <2>2. db' = [i \in DOMAIN db |-> row(i)]
        BY DEF ReplaceDiscs
  <2> HIDE DEF row
  <2> QED BY <2>1, <2>2 DEF StickOK, IsTable
<1> QED BY <1>1, <1>2
        DEF ReplaceDiscs, StickOK, WorkerOK, MainOK, UpdateOK, BoundsOK, Phases, worker, bounds

LEMMA PollKeepsTypes ==
    ASSUME TypeInv, MainThread
    PROVE  TypeInv'
<1> USE DEF worker, stick, dbVars, mainThread, bounds
<1> DEFINE e == Head(events)
<1>1. events # <<>> => e \in Events /\ Tail(events) \in Seq(Events)
      BY HeadOfEvents DEF MainOK
<1>2. CASE BeginPoll
      BY <1>2, EmptySeq
      DEF BeginPoll, StickOK, WorkerOK, MainOK, UpdateOK, BoundsOK, Phases
<1>3. ASSUME NEW v \in vanished, DeleteUnclaimedVanished(v) PROVE TypeInv'
  <2>1. v.id \in Ids
        BY DEF MainOK, Vanished
  <2>2. IsTable(db', Rows) /\ shown' \subseteq Ids /\ UpdateOK'
        BY <1>3, <2>1, deleteGameKeepsTypes DEF DeleteUnclaimedVanished, MainOK
  <2> QED BY <1>3, <2>2
          DEF DeleteUnclaimedVanished, Handling, StickOK, WorkerOK, MainOK, BoundsOK, Phases
<1>4. CASE ApplyScanStarted
  <2>1. \A i \in DOMAIN db :
           [id |-> i, name |-> NameOf(db[i].path), discs |-> db[i].discs] \in Vanished
        BY DEF StickOK, IsTable, Rows, Vanished, Paths, NameOf
  <2>2. vanished' \subseteq Vanished /\ events' \in Seq(Events)
        BY <1>1, <1>4, <2>1 DEF ApplyScanStarted, MissingFrom, Handling, Handled
  <2> QED BY <1>4, <2>2
          DEF ApplyScanStarted, Handling, StickOK, WorkerOK, MainOK, UpdateOK, BoundsOK, Phases
<1>5. CASE ApplyVerifiedGame
      BY <1>5, ApplyVerifiedGameKeepsTypes
<1>6. CASE ReplaceDiscs
      BY <1>6, ReplaceDiscsKeepsTypes
<1>7. CASE ApplyFailedVerify
  <2>1. \A id \in RowsAt(e.path) : id \in Ids
        BY DEF RowsAt, StickOK, IsTable
  <2>2. IsTable(db', Rows) /\ shown' \subseteq Ids /\ UpdateOK'
    <3>1. ASSUME NEW id \in RowsAt(e.path), deleteGame(id)
          PROVE  IsTable(db', Rows) /\ shown' \subseteq Ids /\ UpdateOK'
          BY <2>1, <3>1, deleteGameKeepsTypes DEF MainOK
    <3> QED BY <1>7, <3>1 DEF ApplyFailedVerify, StickOK, MainOK, UpdateOK
  <2>3. events' \in Seq(Events)
        BY <1>1, <1>7 DEF ApplyFailedVerify, Handling, Handled
  <2> QED BY <1>7, <2>2, <2>3
          DEF ApplyFailedVerify, Handling, StickOK, WorkerOK, MainOK, BoundsOK, Phases
<1>8. CASE ApplyFinished
  <2>1. e.failed \subseteq Paths /\ shown' \subseteq Ids
        BY <1>1, <1>8, EventKinds DEF ApplyFinished, Handling, StickOK, IsTable
  <2> QED BY <1>8, <2>1
          DEF ApplyFinished, Handling, StickOK, WorkerOK, MainOK, UpdateOK, BoundsOK, Phases
<1>9. CASE SaveFingerprint
  <2>1. e.fp \in Trees /\ events' \in Seq(Events)
        BY <1>1, <1>9, EventKinds DEF SaveFingerprint, Handled, Phases
  <2>2. UpdateOK'
        BY <1>9 DEF SaveFingerprint, MainOK, UpdateOK
  <2> QED BY <1>9, <2>1, <2>2
          DEF SaveFingerprint, StickOK, WorkerOK, MainOK, BoundsOK, Phases
<1>10. CASE EndPoll
  <2>1. IsTable(Updated, Paths)
    <3>1. CASE update.finished
          BY <3>1 DEF Updated, StickOK, IsTable, Rows
    <3>2. CASE ~update.finished
      <4>1. IsFiniteSet((DOMAIN roster \ update.removed) \cup update.added)
        <5>1. IsFiniteSet(DOMAIN roster \ update.removed) /\ IsFiniteSet(update.added)
              BY FS_Subset DEF MainOK, UpdateOK, IsTable
        <5> QED BY <5>1, FS_Union
      <4> QED BY <3>2, <4>1 DEF Updated, MainOK, UpdateOK, IsTable
    <3> QED BY <3>1, <3>2
  <2>2. UpdateOK'
        BY <1>10, FS_EmptySet DEF EndPoll, NoUpdate, UpdateOK, IsTable
  <2> QED BY <1>10, <2>1, <2>2 DEF EndPoll, StickOK, WorkerOK, MainOK, BoundsOK, Phases
<1> QED BY <1>2, <1>3, <1>4, <1>5, <1>6, <1>7, <1>8, <1>9, <1>10 DEF MainThread

LEMMA StartAndStopKeepTypes ==
    ASSUME TypeInv, Boot \/ PowerCut \/ requestScan
    PROVE  TypeInv'
<1> USE DEF worker, stick, mainThread, bounds
<1>1. CASE Boot
  <2>1. IsTable(roster', Paths)
        BY <1>1 DEF Boot, StickOK, IsTable, Rows
  <2> QED BY <1>1, <2>1
          DEF Boot, StickOK, WorkerOK, MainOK, UpdateOK, BoundsOK, Phases,
              fingerprintsMatchDisk
<1>2. CASE PowerCut
  <2>1. IsTable(<<>>, Paths)
        BY FS_EmptySet DEF IsTable
  <2>2. UpdateOK'
        BY <1>2, <2>1 DEF PowerCut, NoUpdate, UpdateOK
  <2>3. StickOK' /\ WorkerOK' /\ MainOK'
        BY <1>2, <2>1, <2>2, EmptySeq DEF PowerCut, StickOK, WorkerOK, MainOK
  <2>4. BoundsOK'
        BY <1>2, ScanLibraryAssumption DEF PowerCut, BoundsOK
  <2> QED BY <1>2, <2>3, <2>4, EmptySeq DEF PowerCut, Phases
<1>3. CASE requestScan
  <2>1. BoundsOK'
        BY <1>3, ScanLibraryAssumption DEF requestScan, BoundsOK
  <2> QED BY <1>3, <2>1 DEF requestScan, StickOK, WorkerOK, MainOK, UpdateOK, Phases
<1> QED BY <1>1, <1>2, <1>3

LEMMA EditKeepsTypes ==
    ASSUME TypeInv, EditGames
    PROVE  TypeInv'
<1> USE DEF worker, dbVars, mainThread
<1>1. disk' \in Trees
  <2>1. ASSUME NEW p \in Paths, NEW d \in Discs \cup {NoGame}, disk' = [disk EXCEPT ![p] = d]
        PROVE  disk' \in Trees
        BY <2>1 DEF StickOK, Trees
  <2>2. ASSUME NEW p \in GamesIn(disk), NEW q \in Paths \ GamesIn(disk),
               disk' = [disk EXCEPT ![p] = NoGame, ![q] = disk[p]]
        PROVE  disk' \in Trees
        BY <2>2 DEF StickOK, Trees, GamesIn
  <2> QED BY <2>1, <2>2 DEF EditGames, Edited
<1>2. BoundsOK'
      BY <1>1, ScanLibraryAssumption DEF EditGames, BoundsOK
<1> QED BY <1>1, <1>2 DEF EditGames, StickOK, WorkerOK, MainOK, UpdateOK, Phases

LEMMA TypeStep == TypeInv /\ [Next]_vars => TypeInv'
<1> SUFFICES ASSUME TypeInv, [Next]_vars PROVE TypeInv'
    OBVIOUS
<1>1. CASE UNCHANGED vars
      BY <1>1 DEF vars, worker, stick, dbVars, mainThread, bounds,
                  StickOK, WorkerOK, MainOK, UpdateOK, BoundsOK, Phases
<1> QED BY <1>1, WorkerKeepsTypes, PollKeepsTypes, StartAndStopKeepTypes, EditKeepsTypes
        DEF Next

LEMMA TypeInvariant == Spec => []TypeInv
BY TypeInit, TypeStep, PTL DEF Spec

(* Every variable stays in its type, whatever the interleaving: the tables *)
(* stay finite, and no id is ever 0, which the code takes for "no game".   *)
THEOREM TypesAreKept == Spec => []TypeOK
<1>1. TypeInv => TypeOK
      OBVIOUS
<1> QED BY <1>1, TypeInvariant, PTL

-----------------------------------------------------------------------------
(* The rows.                                                               *)

RowsInv == OneRowPerFolder /\ ShownGamesExist

LEMMA RowsStep == TypeInv /\ RowsInv /\ [Next]_vars => RowsInv'
<1> SUFFICES ASSUME TypeInv, RowsInv, [Next]_vars PROVE RowsInv'
    OBVIOUS
<1> USE DEF RowsInv, OneRowPerFolder, ShownGamesExist
<1> DEFINE e == Head(events)
<1>1. CASE UNCHANGED <<db, shown>>
      BY <1>1
<1>2. ASSUME NEW id \in Ids, deleteGame(id) PROVE RowsInv'
      BY <1>2 DEF deleteGame, Without
<1>3. ASSUME NEW v \in vanished, DeleteUnclaimedVanished(v) PROVE RowsInv'
  <2>1. v.id \in Ids
        BY DEF MainOK, Vanished
  <2> QED BY <1>2, <1>3, <2>1 DEF DeleteUnclaimedVanished
<1>4. CASE ApplyFailedVerify
  <2>1. \A id \in RowsAt(e.path) : id \in Ids
        BY DEF RowsAt, StickOK, IsTable
  <2> QED BY <1>1, <1>2, <1>4, <2>1 DEF ApplyFailedVerify
(* A row is put at a folder only where there is none.                      *)
<1>5. ASSUME NEW id, NEW r, r.path = e.path, RowsAt(e.path) = {}, db' = WithRow(id, r),
             UNCHANGED shown
      PROVE  RowsInv'
      BY <1>5 DEF RowsAt, WithRow
<1>6. CASE ApplyVerifiedGame
  <2>1. ASSUME NEW v \in Claimable(e), RowsAt(e.path) = {},
               db' = WithRow(v.id, [path |-> e.path, discs |-> v.discs])
        PROVE  RowsInv'
        BY <1>5, <1>6, <2>1 DEF ApplyVerifiedGame
  <2>2. ASSUME RowsAt(e.path) = {}, db' = WithRow(NewId, [path |-> e.path, discs |-> NoGame])
        PROVE  RowsInv'
        BY <1>5, <1>6, <2>2 DEF ApplyVerifiedGame
  <2> QED BY <1>1, <1>6, <2>1, <2>2 DEF ApplyVerifiedGame
<1>7. CASE ReplaceDiscs
  <2>1. DOMAIN db' = DOMAIN db /\ \A i \in DOMAIN db : db'[i].path = db[i].path
        BY <1>7 DEF ReplaceDiscs, StickOK, IsTable, Rows
  <2> QED BY <1>7, <2>1 DEF ReplaceDiscs
<1>8. CASE ApplyFinished
      BY <1>8 DEF ApplyFinished
<1>9. CASE Worker \/ BeginPoll \/ ApplyScanStarted \/ SaveFingerprint \/ EndPoll
      BY <1>1, <1>9 DEF Worker, TakeRequest, checkForChanges, ReadHierarchy, VisitGame,
         TakeFingerprint, EndScan, BeginPoll, ApplyScanStarted, SaveFingerprint, EndPoll,
         stick, dbVars
<1>10. CASE Boot \/ PowerCut \/ requestScan \/ EditGames \/ UNCHANGED vars
       BY <1>1, <1>10 DEF Boot, PowerCut, requestScan, EditGames, vars, stick, dbVars
<1> QED BY <1>3, <1>4, <1>6, <1>7, <1>8, <1>9, <1>10 DEF Next, MainThread

LEMMA RowsInvariant == Spec => []RowsInv
<1>1. Init => RowsInv
      BY DEF Init, RowsInv, OneRowPerFolder, ShownGamesExist
<1> QED BY <1>1, RowsStep, TypeInvariant, PTL DEF Spec

(* A game folder never gets a second row, although no constraint of the    *)
(* database says so: applyVerifiedGame inserts or moves a row only where   *)
(* findGameIdByPath found none, and replaceDiscs leaves the folders alone. *)
THEOREM FoldersHaveOneRow == Spec => []OneRowPerFolder
<1>1. RowsInv => OneRowPerFolder
      BY DEF RowsInv
<1> QED BY <1>1, RowsInvariant, PTL

(* The carousel's rows never name a game the database no longer has.       *)
THEOREM RowsNameGames == Spec => []ShownGamesExist
<1>1. RowsInv => ShownGamesExist
      BY DEF RowsInv
<1> QED BY <1>1, RowsInvariant, PTL

-----------------------------------------------------------------------------
(* The events in order.  What poll() has taken and what is still queued    *)
(* make one stream; a scan is a ScanStarted, what it saw of the folders it *)
(* named, and a Finished, and the next one starts after it.  The rows kept *)
(* aside lie in folders the scan under way will not mention again.         *)

Stream == events \o queue
Scanning == wpc \in {"visit", "finish"}
Aside == {db[v.id].path : v \in vanished}

Looks(x) == x.kind \in {"GameVerified", "GameFailedVerify"}

(* No scan starts after event i, up to event j.                            *)
SameScan(s, i, j) == i <= j /\ \A k \in (i + 1)..j : s[k].kind # "ScanStarted"

InOrder(s, scanning, aside) ==
    /\ \A i \in 2..Len(s) : s[i].kind = "ScanStarted" <=> s[i - 1].kind = "Finished"
    /\ s # <<>> => (scanning <=> s[Len(s)].kind # "Finished")
    /\ s # <<>> /\ aside # {} => s[1].kind # "ScanStarted"
    /\ s = <<>> /\ aside # {} => scanning

InFolders(s, scanning, aside, left) ==
    /\ \A i, j \in 1..Len(s) :
          s[i].kind = "ScanStarted" /\ Looks(s[j]) /\ SameScan(s, i, j) => s[j].path \in s[i].paths
    /\ \A i \in 1..Len(s) :
          scanning /\ s[i].kind = "ScanStarted" /\ SameScan(s, i, Len(s)) => left \subseteq s[i].paths
    /\ \A j \in 1..Len(s) : Looks(s[j]) /\ SameScan(s, 0, j) => s[j].path \notin aside
    /\ scanning /\ SameScan(s, 0, Len(s)) => left \cap aside = {}

WellFormed(s, scanning, aside, left) ==
    InOrder(s, scanning, aside) /\ InFolders(s, scanning, aside, left)

LEMMA ShrinkKeepsStream ==
    ASSUME NEW s \in Seq(Events), NEW scanning \in BOOLEAN, NEW aside, NEW left,
           WellFormed(s, scanning, aside, left),
           NEW aside2 \in SUBSET aside, NEW left2 \in SUBSET left
    PROVE  WellFormed(s, scanning, aside2, left2)
BY DEF WellFormed, InOrder, InFolders

LEMMA StartKeepsStream ==
    ASSUME NEW s \in Seq(Events), NEW aside, NEW left,
           WellFormed(s, FALSE, aside, left), NEW paths \in SUBSET Paths
    PROVE  WellFormed(Append(s, Started(paths)), TRUE, aside, paths)
<1> DEFINE t == Append(s, Started(paths))
           n == Len(s)
<1>1. /\ n \in Nat /\ Len(t) = n + 1 /\ t[n + 1] = Started(paths) /\ t # <<>>
      /\ \A i \in 1..n : t[i] = s[i]
      OBVIOUS
<1>2. Started(paths).kind = "ScanStarted" /\ Started(paths).paths = paths
      BY DEF Started
<1>3. s = <<>> <=> n = 0
      OBVIOUS
<1> HIDE DEF t, n
<1>4. InOrder(t, TRUE, aside)
  <2>1. ASSUME NEW i \in 2..n + 1
        PROVE  t[i].kind = "ScanStarted" <=> t[i - 1].kind = "Finished"
    <3>1. CASE i = n + 1
          BY <1>1, <1>2, <1>3, <3>1 DEF WellFormed, InOrder, n
    <3>2. CASE i \in 2..n
          BY <1>1, <3>2 DEF WellFormed, InOrder, n
    <3> QED BY <1>1, <3>1, <3>2
  <2> QED BY <1>1, <1>2, <1>3, <2>1 DEF WellFormed, InOrder, n
<1>5. InFolders(t, TRUE, aside, paths)
  <2>1. ASSUME NEW i \in 0..n, NEW j \in i..n, SameScan(t, i, j)
        PROVE  SameScan(s, i, j)
        BY <1>1, <2>1 DEF SameScan
  <2>2. ASSUME NEW j \in 1..n + 1, Looks(t[j])
        PROVE  j \in 1..n /\ t[j] = s[j] /\ Looks(s[j])
        BY <1>1, <1>2, <2>2 DEF Looks
  <2>3. ASSUME NEW i \in 0..n + 1, SameScan(t, i, n + 1)
        PROVE  i = n + 1
        BY <1>1, <1>2, <2>3 DEF SameScan
  <2>4. ASSUME NEW i \in 1..n + 1, NEW j \in 1..n + 1, t[i].kind = "ScanStarted",
               Looks(t[j]), SameScan(t, i, j)
        PROVE  t[j].path \in t[i].paths
    <3>1. j \in 1..n /\ t[j] = s[j] /\ Looks(s[j])
          BY <2>2, <2>4
    <3>2. i \in 1..n /\ i \in 0..n /\ j \in i..n /\ t[i] = s[i]
          BY <1>1, <2>4, <3>1 DEF SameScan
    <3>3. SameScan(s, i, j)
          BY <2>1, <2>4, <3>2
    <3> QED BY <2>4, <3>1, <3>2, <3>3 DEF WellFormed, InFolders, n
  <2>5. ASSUME NEW i \in 1..n + 1, SameScan(t, i, n + 1)
        PROVE  paths \subseteq t[i].paths
        BY <1>1, <1>2, <2>3, <2>5
  <2>6. ASSUME NEW j \in 1..n + 1, Looks(t[j]), SameScan(t, 0, j)
        PROVE  t[j].path \notin aside
    <3>1. j \in 1..n /\ t[j] = s[j] /\ Looks(s[j])
          BY <2>2, <2>6
    <3>2. SameScan(s, 0, j)
          BY <1>1, <2>1, <2>6, <3>1
    <3> QED BY <3>1, <3>2 DEF WellFormed, InFolders, n
  <2>7. ~SameScan(t, 0, n + 1)
        BY <1>1, <2>3
  <2> QED BY <1>1, <2>4, <2>5, <2>6, <2>7 DEF InFolders
<1> QED BY <1>4, <1>5 DEF WellFormed, t

LEMMA LookKeepsStream ==
    ASSUME NEW s \in Seq(Events), NEW aside, NEW left, NEW x \in Events,
           WellFormed(s, TRUE, aside, left), Looks(x), x.path \in left
    PROVE  WellFormed(Append(s, x), TRUE, aside, left)
<1> DEFINE t == Append(s, x)
           n == Len(s)
<1>1. /\ n \in Nat /\ Len(t) = n + 1 /\ t[n + 1] = x /\ t # <<>>
      /\ \A i \in 1..n : t[i] = s[i]
      OBVIOUS
<1>2. x.kind # "ScanStarted" /\ x.kind # "Finished"
      BY DEF Looks
<1>3. s = <<>> <=> n = 0
      OBVIOUS
<1> HIDE DEF t, n
<1>4. InOrder(t, TRUE, aside)
  <2>1. ASSUME NEW i \in 2..n + 1
        PROVE  t[i].kind = "ScanStarted" <=> t[i - 1].kind = "Finished"
    <3>1. CASE i = n + 1
          BY <1>1, <1>2, <1>3, <3>1 DEF WellFormed, InOrder, n
    <3>2. CASE i \in 2..n
          BY <1>1, <3>2 DEF WellFormed, InOrder, n
    <3> QED BY <1>1, <3>1, <3>2
  <2> QED BY <1>1, <1>2, <1>3, <2>1 DEF WellFormed, InOrder, n
<1>5. InFolders(t, TRUE, aside, left)
  <2>1. ASSUME NEW i \in 0..n, NEW j \in i..n, SameScan(t, i, j)
        PROVE  SameScan(s, i, j)
        BY <1>1, <2>1 DEF SameScan
  <2>2. ASSUME NEW i \in 0..n, SameScan(t, i, n + 1)
        PROVE  SameScan(s, i, n)
        BY <1>1, <2>2 DEF SameScan
  <2>3. ASSUME NEW i \in 1..n + 1, NEW j \in 1..n + 1, t[i].kind = "ScanStarted",
               Looks(t[j]), SameScan(t, i, j)
        PROVE  t[j].path \in t[i].paths
    <3>1. i \in 1..n /\ i \in 0..n /\ i <= j
          BY <1>1, <1>2, <2>3 DEF SameScan
    <3>2. CASE j = n + 1
      <4>1. left \subseteq s[i].paths
            BY <1>1, <2>2, <2>3, <3>1, <3>2 DEF WellFormed, InFolders, n
      <4>2. t[j] = x /\ t[i] = s[i] /\ x.path \in left
            BY <1>1, <3>1, <3>2
      <4> QED BY <4>1, <4>2
    <3>3. CASE j \in 1..n
      <4>1. SameScan(s, i, j) /\ t[i] = s[i] /\ t[j] = s[j]
            BY <1>1, <2>1, <2>3, <3>1, <3>3
      <4>2. s[j].path \in s[i].paths
            BY <2>3, <3>1, <3>3, <4>1 DEF WellFormed, InFolders, Looks, n
      <4> QED BY <4>1, <4>2
    <3> QED BY <1>1, <3>2, <3>3
  <2>4. ASSUME NEW i \in 1..n + 1, t[i].kind = "ScanStarted", SameScan(t, i, n + 1)
        PROVE  left \subseteq t[i].paths
    <3>1. i \in 1..n /\ i \in 0..n
          BY <1>1, <1>2, <2>4
    <3> QED BY <1>1, <2>2, <2>4, <3>1 DEF WellFormed, InFolders, n
  <2>5. ASSUME NEW j \in 1..n + 1, Looks(t[j]), SameScan(t, 0, j)
        PROVE  t[j].path \notin aside
    <3>1. CASE j = n + 1
      <4>1. left \cap aside = {}
            BY <2>2, <2>5, <3>1 DEF WellFormed, InFolders, n
      <4>2. t[j] = x /\ x.path \in left
            BY <1>1, <3>1
      <4> QED BY <4>1, <4>2
    <3>2. CASE j \in 1..n
      <4>1. SameScan(s, 0, j) /\ t[j] = s[j]
            BY <1>1, <2>1, <2>5, <3>2
      <4>2. s[j].path \notin aside
            BY <2>5, <3>2, <4>1 DEF WellFormed, InFolders, Looks, n
      <4> QED BY <4>1, <4>2
    <3> QED BY <1>1, <3>1, <3>2
  <2>6. SameScan(t, 0, n + 1) => left \cap aside = {}
        BY <2>2 DEF WellFormed, InFolders, n
  <2> QED BY <1>1, <2>3, <2>4, <2>5, <2>6 DEF InFolders
<1> QED BY <1>4, <1>5 DEF WellFormed, t

LEMMA EndKeepsStream ==
    ASSUME NEW s \in Seq(Events), NEW aside, NEW left, NEW left2, NEW x \in Events,
           WellFormed(s, TRUE, aside, left), x.kind = "Finished"
    PROVE  WellFormed(Append(s, x), FALSE, aside, left2)
<1> DEFINE t == Append(s, x)
           n == Len(s)
<1>1. /\ n \in Nat /\ Len(t) = n + 1 /\ t[n + 1] = x /\ t # <<>>
      /\ \A i \in 1..n : t[i] = s[i]
      OBVIOUS
<1>2. s = <<>> <=> n = 0
      OBVIOUS
<1> HIDE DEF t, n
<1>3. InOrder(t, FALSE, aside)
  <2>1. ASSUME NEW i \in 2..n + 1
        PROVE  t[i].kind = "ScanStarted" <=> t[i - 1].kind = "Finished"
    <3>1. CASE i = n + 1
          BY <1>1, <1>2, <3>1 DEF WellFormed, InOrder, n
    <3>2. CASE i \in 2..n
          BY <1>1, <3>2 DEF WellFormed, InOrder, n
    <3> QED BY <1>1, <3>1, <3>2
  <2> QED BY <1>1, <1>2, <2>1 DEF WellFormed, InOrder, n
<1>4. InFolders(t, FALSE, aside, left2)
  <2>1. ASSUME NEW i \in 0..n, NEW j \in i..n, SameScan(t, i, j)
        PROVE  SameScan(s, i, j)
        BY <1>1, <2>1 DEF SameScan
  <2>2. ASSUME NEW i \in 1..n + 1, NEW j \in 1..n + 1, t[i].kind = "ScanStarted",
               Looks(t[j]), SameScan(t, i, j)
        PROVE  t[j].path \in t[i].paths
    <3>1. i \in 1..n /\ i \in 0..n /\ j \in i..n
          BY <1>1, <2>2 DEF SameScan, Looks
    <3> QED BY <1>1, <2>1, <2>2, <3>1 DEF WellFormed, InFolders, n
  <2>3. ASSUME NEW j \in 1..n + 1, Looks(t[j]), SameScan(t, 0, j)
        PROVE  t[j].path \notin aside
    <3>1. j \in 1..n
          BY <1>1, <2>3 DEF Looks
    <3> QED BY <1>1, <2>1, <2>3, <3>1 DEF WellFormed, InFolders, n
  <2> QED BY <1>1, <2>2, <2>3 DEF InFolders
<1> QED BY <1>3, <1>4 DEF WellFormed, t

(* A scan that is taken up sets aside only rows of folders it did not find.*)
LEMMA TakingKeepsStream ==
    ASSUME NEW s \in Seq(Events), s # <<>>, NEW scanning \in BOOLEAN, NEW aside, NEW left,
           WellFormed(s, scanning, aside, left), NEW aside2,
           \/ Head(s).kind = "ScanStarted" /\ aside2 \cap Head(s).paths = {}
           \/ Head(s).kind = "Finished" /\ aside2 = {}
           \/ Looks(Head(s)) /\ aside2 \subseteq aside
    PROVE  WellFormed(Tail(s), scanning, aside2, left)
<1> DEFINE t == Tail(s)
           n == Len(t)
<1>1. /\ n \in Nat /\ Len(s) = n + 1 /\ Head(s) = s[1]
      /\ \A i \in 1..n : t[i] = s[i + 1]
      /\ t = <<>> <=> n = 0
  <2>1. t \in Seq(Events) /\ Len(t) = Len(s) - 1 /\ \A i \in 1..Len(t) : t[i] = s[i + 1]
        BY HeadTailProperties
  <2>2. Len(s) \in Nat /\ Len(s) # 0 /\ Head(s) = s[1]
        BY LenProperties, EmptySeq, HeadTailProperties
  <2>3. t = <<>> <=> n = 0
        BY <2>1, EmptySeq
  <2> QED BY <2>1, <2>2, <2>3
<1> HIDE DEF t, n
<1>2. InOrder(t, scanning, aside2)
  <2>1. ASSUME NEW i \in 2..n
        PROVE  t[i].kind = "ScanStarted" <=> t[i - 1].kind = "Finished"
    <3>1. t[i] = s[i + 1] /\ t[i - 1] = s[i] /\ i + 1 \in 2..Len(s) /\ (i + 1) - 1 = i
          BY <1>1
    <3> QED BY <3>1 DEF WellFormed, InOrder
  <2>2. t # <<>> => (scanning <=> t[n].kind # "Finished")
    <3>1. t # <<>> => t[n] = s[Len(s)]
          BY <1>1
    <3> QED BY <3>1 DEF WellFormed, InOrder
  <2>3. t # <<>> => (t[1].kind = "ScanStarted" <=> s[1].kind = "Finished")
    <3>1. t # <<>> => t[1] = s[2] /\ 2 \in 2..Len(s) /\ 2 - 1 = 1
          BY <1>1
    <3> QED BY <3>1 DEF WellFormed, InOrder
  <2>4. t = <<>> => (scanning <=> s[1].kind # "Finished")
        BY <1>1 DEF WellFormed, InOrder
  <2> QED BY <1>1, <2>1, <2>2, <2>3, <2>4 DEF InOrder, Looks, n
<1>3. InFolders(t, scanning, aside2, left)
  <2>1. ASSUME NEW i \in Nat, NEW j \in 1..n, SameScan(t, i, j)
        PROVE  /\ SameScan(s, i + 1, j + 1)
               /\ i = 0 /\ s[1].kind # "ScanStarted" => SameScan(s, 0, j + 1)
    <3>1. ASSUME NEW k \in (i + 2)..(j + 1) PROVE s[k].kind # "ScanStarted"
      <4>1. k - 1 \in (i + 1)..j /\ k - 1 \in 1..n /\ t[k - 1] = s[k]
            BY <1>1
      <4> QED BY <2>1, <4>1 DEF SameScan
    <3> QED BY <2>1, <3>1 DEF SameScan
  <2>2. ASSUME NEW i \in 1..n, NEW j \in 1..n, t[i].kind = "ScanStarted", Looks(t[j]),
               SameScan(t, i, j)
        PROVE  t[j].path \in t[i].paths
        BY <1>1, <2>1, <2>2 DEF WellFormed, InFolders
  <2>3. ASSUME scanning, NEW i \in 1..n, t[i].kind = "ScanStarted", SameScan(t, i, n)
        PROVE  left \subseteq t[i].paths
        BY <1>1, <2>1, <2>3 DEF WellFormed, InFolders
  <2>4. ASSUME NEW j \in 1..n, Looks(t[j]), SameScan(t, 0, j)
        PROVE  t[j].path \notin aside2
    <3>1. CASE s[1].kind = "ScanStarted"
      <4>1. s[j + 1].path \in s[1].paths
            BY <1>1, <2>1, <2>4, <3>1 DEF WellFormed, InFolders
      <4> QED BY <1>1, <3>1, <4>1 DEF Looks
    <3>2. CASE s[1].kind = "Finished"
          BY <1>1, <3>2 DEF Looks
    <3>3. CASE Looks(s[1]) /\ aside2 \subseteq aside
      <4>1. s[j + 1].path \notin aside
            BY <1>1, <2>1, <2>4, <3>3 DEF WellFormed, InFolders, Looks
      <4> QED BY <1>1, <3>3, <4>1
    <3> QED BY <1>1, <3>1, <3>2, <3>3
  <2>5. ASSUME scanning, SameScan(t, 0, n)
        PROVE  left \cap aside2 = {}
    <3>1. SameScan(s, 1, n + 1) /\ (s[1].kind # "ScanStarted" => SameScan(s, 0, n + 1))
      <4>1. CASE n = 0
            BY <4>1 DEF SameScan
      <4>2. CASE n # 0
            BY <1>1, <2>1, <2>5, <4>2
      <4> QED BY <4>1, <4>2
    <3>2. CASE s[1].kind = "ScanStarted"
      <4>1. left \subseteq s[1].paths
            BY <1>1, <2>5, <3>1, <3>2 DEF WellFormed, InFolders
      <4> QED BY <1>1, <3>2, <4>1 DEF Looks
    <3>3. CASE s[1].kind = "Finished"
          BY <1>1, <3>3 DEF Looks
    <3>4. CASE Looks(s[1]) /\ aside2 \subseteq aside
          BY <1>1, <2>5, <3>1, <3>4 DEF WellFormed, InFolders, Looks
    <3> QED BY <1>1, <3>2, <3>3, <3>4
  <2> QED BY <1>1, <2>2, <2>3, <2>4, <2>5 DEF InFolders, n
<1> QED BY <1>2, <1>3 DEF WellFormed, t

(* The rows kept aside are in the database as they were set aside.         *)
RowsAside == VanishedAreTheirRows /\ \A v, w \in vanished : v.id = w.id => v = w

StreamInv == WellFormed(Stream, Scanning, Aside, todo) /\ RowsAside

LEMMA StreamAppend ==
    ASSUME events \in Seq(Events), queue \in Seq(Events), NEW x \in Events,
           UNCHANGED events, queue' = Append(queue, x)
    PROVE  Stream \in Seq(Events) /\ Stream' = Append(Stream, x)
<1>1. events \o Append(queue, x) = Append(events \o queue, x)
      OBVIOUS
<1> QED BY <1>1 DEF Stream

LEMMA StreamTail ==
    ASSUME events \in Seq(Events), queue \in Seq(Events), events # <<>>,
           Handled, UNCHANGED queue
    PROVE  /\ Stream \in Seq(Events) /\ Stream # <<>> /\ Head(Stream) = Head(events)
           /\ Stream' = Tail(Stream)
<1>1. Stream \in Seq(Events) /\ Stream # <<>> /\ Head(Stream) = Head(events)
      BY DEF Stream
<1>2. Tail(events) \o queue = Tail(events \o queue)
      OBVIOUS
<1> QED BY <1>1, <1>2 DEF Stream, Handled

LEMMA WorkerKeepsStream ==
    ASSUME TypeInv, StreamInv, Worker
    PROVE  StreamInv'
<1> USE DEF stick, dbVars, mainThread
<1>1. /\ events \in Seq(Events) /\ queue \in Seq(Events) /\ Stream \in Seq(Events)
      /\ Scanning \in BOOLEAN
      BY DEF MainOK, Stream, Scanning
<1>2. UNCHANGED <<events, vanished, db, fresh>>
      BY DEF Worker, TakeRequest, checkForChanges, ReadHierarchy, VisitGame, TakeFingerprint,
             EndScan
<1>3. UNCHANGED Aside /\ RowsAside'
      BY <1>2 DEF Aside, RowsAside, VanishedAreTheirRows, StreamInv
<1>4. CASE TakeRequest \/ checkForChanges
  <2>1. Scanning' = Scanning /\ Stream' = Stream /\ todo' = todo
        BY <1>2, <1>4 DEF TakeRequest, checkForChanges, Scanning, Stream
  <2> QED BY <1>3, <2>1 DEF StreamInv
<1>5. CASE TakeFingerprint
  <2>1. Scanning' = Scanning /\ Stream' = Stream /\ todo' = todo
        BY <1>2, <1>5 DEF TakeFingerprint, Scanning, Stream
  <2> QED BY <1>3, <2>1 DEF StreamInv
<1>6. CASE ReadHierarchy
  <2>1. GamesIn(disk) \in SUBSET Paths /\ Started(GamesIn(disk)) \in Events
        BY DEF GamesIn, Started, Events
  <2>2. Stream' = Append(Stream, Started(GamesIn(disk)))
        BY <1>1, <1>2, <1>6, <2>1, StreamAppend DEF ReadHierarchy
  <2>3. Scanning = FALSE /\ Scanning' = TRUE /\ todo' = GamesIn(disk)
        BY <1>6 DEF ReadHierarchy, Scanning
  <2> QED BY <1>1, <1>3, <2>1, <2>2, <2>3, StartKeepsStream DEF StreamInv
<1>7. ASSUME NEW p \in Paths, VisitGame(p) PROVE StreamInv'
  <2>1. Scanning = TRUE /\ Scanning' = TRUE /\ p \in todo /\ todo' \in SUBSET todo
        BY <1>7 DEF VisitGame, Scanning
  <2>2. WellFormed(Stream', TRUE, Aside, todo)
    <3>1. CASE disk[p] = NoGame /\ UNCHANGED queue
          BY <1>2, <2>1, <3>1 DEF StreamInv, Stream
    <3>2. ASSUME NEW x \in Events, Looks(x), x.path = p, queue' = Append(queue, x)
          PROVE  WellFormed(Stream', TRUE, Aside, todo)
      <4>1. Stream' = Append(Stream, x)
            BY <1>1, <1>2, <3>2, StreamAppend
      <4> QED BY <1>1, <2>1, <3>2, <4>1, LookKeepsStream DEF StreamInv
    <3>3. disk[p] \in Discs =>
             /\ Verified(p, disk[p]) \in Events /\ Looks(Verified(p, disk[p]))
             /\ Failed(p) \in Events /\ Looks(Failed(p))
             /\ Verified(p, disk[p]).path = p /\ Failed(p).path = p
          BY DEF Verified, Failed, Events, Looks
    <3> QED BY <1>7, <3>1, <3>2, <3>3, ScanLibraryAssumption DEF VisitGame
  <2>3. Stream' \in Seq(Events)
    <3>1. queue' \in Seq(Events)
          BY <1>7, WorkerKeepsTypes DEF Worker
    <3> QED BY <1>1, <1>2, <3>1 DEF Stream
  <2> QED BY <1>3, <2>1, <2>2, <2>3, ShrinkKeepsStream DEF StreamInv
<1>8. CASE EndScan
  <2>1. Finished(hier, failed, fp) \in Events /\ Finished(hier, failed, fp).kind = "Finished"
        BY <1>8 DEF EndScan, Finished, Events, WorkerOK, Phases
  <2>2. Stream' = Append(Stream, Finished(hier, failed, fp))
        BY <1>1, <1>2, <1>8, <2>1, StreamAppend DEF EndScan
  <2>3. Scanning = TRUE /\ Scanning' = FALSE
        BY <1>8 DEF EndScan, Scanning
  <2> QED BY <1>1, <1>3, <2>1, <2>2, <2>3, EndKeepsStream DEF StreamInv
<1> QED BY <1>4, <1>5, <1>6, <1>7, <1>8 DEF Worker

(* A folder poll() is about to apply an event of has no row kept aside.    *)
LEMMA HeadIsNotAside ==
    ASSUME TypeInv, StreamInv, events # <<>>, Looks(Head(events))
    PROVE  Head(events).path \notin Aside
<1>1. Stream \in Seq(Events) /\ Len(Stream) \in Nat /\ 1 <= Len(Stream)
      /\ Stream[1] = Head(events)
      BY DEF Stream, MainOK
<1>2. SameScan(Stream, 0, 1) /\ 1 \in 1..Len(Stream) /\ Looks(Stream[1])
      BY <1>1 DEF SameScan, Looks
<1> QED BY <1>1, <1>2 DEF StreamInv, WellFormed, InFolders

(* Writing a row that is none of theirs leaves the rows aside as they are. *)
LEMMA OtherRowsStayAside ==
    ASSUME RowsAside, NEW gone \in SUBSET vanished, vanished' = vanished \ gone,
           \A v \in vanished' : v.id \in DOMAIN db' /\ db'[v.id] = db[v.id] /\ v.id \notin fresh'
    PROVE  RowsAside' /\ Aside' \subseteq Aside
BY DEF RowsAside, VanishedAreTheirRows, Aside

LEMMA HandledKeepsStream ==
    ASSUME TypeInv, StreamInv, events # <<>>, Handled, UNCHANGED <<queue, wpc, todo>>,
           \/ Head(events).kind = "ScanStarted" /\ Aside' \cap Head(events).paths = {}
           \/ Head(events).kind = "Finished" /\ Aside' = {}
           \/ Looks(Head(events)) /\ Aside' \subseteq Aside
    PROVE  WellFormed(Stream', Scanning', Aside', todo')
<1>1. /\ Stream \in Seq(Events) /\ Stream # <<>> /\ Head(Stream) = Head(events)
      /\ Stream' = Tail(Stream)
      BY StreamTail DEF MainOK
<1>2. Scanning \in BOOLEAN /\ Scanning' = Scanning /\ todo' = todo
      BY DEF Scanning
<1>3. WellFormed(Stream, Scanning, Aside, todo)
      BY DEF StreamInv
<1>4. WellFormed(Tail(Stream), Scanning, Aside', todo)
      BY <1>1, <1>2, <1>3, TakingKeepsStream
<1> QED BY <1>1, <1>2, <1>4

LEMMA UnhandledKeepsStream ==
    ASSUME TypeInv, StreamInv, UNCHANGED <<events, queue, wpc, todo>>, Aside' \subseteq Aside
    PROVE  WellFormed(Stream', Scanning', Aside', todo')
<1>1. Stream \in Seq(Events) /\ Stream' = Stream
      BY DEF Stream, MainOK
<1>2. Scanning \in BOOLEAN /\ Scanning' = Scanning /\ todo' = todo
      BY DEF Scanning
<1> QED BY <1>1, <1>2, ShrinkKeepsStream DEF StreamInv

LEMMA PollKeepsStream ==
    ASSUME TypeInv, RowsInv, StreamInv, MainThread
    PROVE  StreamInv'
<1> USE DEF worker, stick, dbVars, mainThread
<1> DEFINE e == Head(events)
<1>1. RowsAside
      BY DEF StreamInv
<1>2. CASE BeginPoll
  <2>1. events = <<>>
        BY <1>2 DEF BeginPoll, Phases
  <2>2. Stream' = Stream
        BY <1>2, <2>1 DEF BeginPoll, Stream
  <2>3. UNCHANGED <<Scanning, Aside, todo>> /\ RowsAside'
        BY <1>1, <1>2 DEF BeginPoll, Scanning, Aside, RowsAside, VanishedAreTheirRows
  <2> QED BY <2>2, <2>3 DEF StreamInv
<1>3. ASSUME NEW v \in vanished, DeleteUnclaimedVanished(v) PROVE StreamInv'
  <2>1. \A w \in vanished \ {v} : w.id # v.id /\ w.id \in DOMAIN db /\ w.id \notin fresh
        BY <1>1 DEF RowsAside, VanishedAreTheirRows
  <2>2. RowsAside' /\ Aside' \subseteq Aside
    <3>1. vanished' = vanished \ {v} /\ db' = Without(v.id) /\ fresh' = fresh
          BY <1>3 DEF DeleteUnclaimedVanished, deleteGame
    <3>2. \A w \in vanished' : w.id \in DOMAIN db' /\ db'[w.id] = db[w.id] /\ w.id \notin fresh'
          BY <2>1, <3>1 DEF Without
    <3> QED BY <1>1, <3>1, <3>2, OtherRowsStayAside
  <2> QED BY <1>3, <2>2, UnhandledKeepsStream DEF DeleteUnclaimedVanished, StreamInv
<1>4. CASE ApplyScanStarted
  <2>1. events # <<>> /\ e.kind = "ScanStarted"
        BY <1>4 DEF ApplyScanStarted, Handling
  <2>2. UNCHANGED <<queue, wpc, todo, db>> /\ Handled /\ fresh' = {}
        BY <1>4 DEF ApplyScanStarted
  <2>3. vanished' = {[id |-> i, name |-> NameOf(db[i].path), discs |-> db[i].discs] :
                        i \in MissingFrom(e.paths)}
        BY <1>4 DEF ApplyScanStarted
  <2>4. Aside' \cap e.paths = {}
        BY <2>2, <2>3 DEF Aside, MissingFrom
  <2>5. RowsAside'
        BY <2>2, <2>3 DEF RowsAside, VanishedAreTheirRows, MissingFrom
  <2> QED BY <2>1, <2>2, <2>4, <2>5, HandledKeepsStream DEF StreamInv
<1>5. CASE ApplyVerifiedGame
  <2>1. UNCHANGED <<events, queue, wpc, todo>>
        BY <1>5 DEF ApplyVerifiedGame
  <2>2. RowsAside' /\ Aside' \subseteq Aside
    <3>1. CASE UNCHANGED <<db, vanished, fresh>>
          BY <1>1, <3>1 DEF RowsAside, VanishedAreTheirRows, Aside
    <3>2. ASSUME NEW v \in vanished, NEW r, db' = WithRow(v.id, r), vanished' = vanished \ {v},
                 UNCHANGED fresh
          PROVE  RowsAside' /\ Aside' \subseteq Aside
      <4>1. \A w \in vanished' :
               w.id \in DOMAIN db' /\ db'[w.id] = db[w.id] /\ w.id \notin fresh'
            BY <1>1, <3>2 DEF WithRow, RowsAside, VanishedAreTheirRows
      <4> QED BY <1>1, <3>2, <4>1, OtherRowsStayAside
    <3>3. ASSUME NEW r, db' = WithRow(NewId, r), vanished' = vanished,
                 fresh' = fresh \cup {NewId}
          PROVE  RowsAside' /\ Aside' \subseteq Aside
      <4>1. NewId \notin DOMAIN db
            BY NewIdIsNew DEF StickOK
      <4>2. \A w \in vanished' :
               w.id \in DOMAIN db' /\ db'[w.id] = db[w.id] /\ w.id \notin fresh'
            BY <1>1, <3>3, <4>1 DEF WithRow, RowsAside, VanishedAreTheirRows
      <4>3. vanished' = vanished \ {} /\ {} \in SUBSET vanished
            BY <3>3
      <4> QED BY <1>1, <4>2, <4>3, OtherRowsStayAside
    <3> QED BY <1>5, <3>1, <3>2, <3>3 DEF ApplyVerifiedGame, Claimable
  <2> QED BY <2>1, <2>2, UnhandledKeepsStream DEF StreamInv
<1>6. CASE ReplaceDiscs
  <2>1. events # <<>> /\ Looks(e) /\ UNCHANGED <<queue, wpc, todo, vanished, fresh>> /\ Handled
        BY <1>6 DEF ReplaceDiscs, Phases, Looks
  <2>2. e.path \notin Aside
        BY <2>1, HeadIsNotAside
  <2>3. \A w \in vanished' :
           w.id \in DOMAIN db' /\ db'[w.id] = db[w.id] /\ w.id \notin fresh'
        BY <1>1, <1>6, <2>1, <2>2 DEF ReplaceDiscs, Aside, RowsAside, VanishedAreTheirRows
  <2>4. vanished' = vanished \ {} /\ {} \in SUBSET vanished
        BY <2>1
  <2>5. RowsAside' /\ Aside' \subseteq Aside
        BY <1>1, <2>3, <2>4, OtherRowsStayAside
  <2> QED BY <2>1, <2>5, HandledKeepsStream DEF StreamInv
<1>7. CASE ApplyFailedVerify
  <2>1. events # <<>> /\ Looks(e) /\ UNCHANGED <<queue, wpc, todo, vanished, fresh>> /\ Handled
        BY <1>7 DEF ApplyFailedVerify, Handling, Looks
  <2>2. e.path \notin Aside
        BY <2>1, HeadIsNotAside
  <2>3. \A w \in vanished' :
           w.id \in DOMAIN db' /\ db'[w.id] = db[w.id] /\ w.id \notin fresh'
    <3>1. \A w \in vanished :
             w.id \in DOMAIN db /\ w.id \notin fresh /\ w.id \notin RowsAt(e.path)
          BY <1>1, <2>2 DEF RowsAt, Aside, RowsAside, VanishedAreTheirRows
    <3>2. db' = db \/ \E id \in RowsAt(e.path) : db' = Without(id)
          BY <1>7 DEF ApplyFailedVerify, deleteGame
    <3> QED BY <2>1, <3>1, <3>2 DEF Without
  <2>4. vanished' = vanished \ {} /\ {} \in SUBSET vanished
        BY <2>1
  <2>5. RowsAside' /\ Aside' \subseteq Aside
        BY <1>1, <2>3, <2>4, OtherRowsStayAside
  <2> QED BY <2>1, <2>5, HandledKeepsStream DEF StreamInv
<1>8. CASE ApplyFinished \/ EndPoll
  <2>1. UNCHANGED <<events, queue, wpc, todo, vanished, db, fresh>>
        BY <1>8 DEF ApplyFinished, EndPoll
  <2>2. RowsAside' /\ Aside' = Aside
        BY <1>1, <2>1 DEF RowsAside, VanishedAreTheirRows, Aside
  <2> QED BY <2>1, <2>2, UnhandledKeepsStream DEF StreamInv
<1>9. CASE SaveFingerprint
  <2>1. events # <<>> /\ e.kind = "Finished" /\ vanished' = {} /\ Handled
        /\ UNCHANGED <<queue, wpc, todo>>
        BY <1>9 DEF SaveFingerprint, Phases
  <2>2. Aside' = {} /\ RowsAside'
        BY <2>1 DEF Aside, RowsAside, VanishedAreTheirRows
  <2> QED BY <2>1, <2>2, HandledKeepsStream DEF StreamInv
<1> QED BY <1>2, <1>3, <1>4, <1>5, <1>6, <1>7, <1>8, <1>9 DEF MainThread

LEMMA StreamStep == TypeInv /\ RowsInv /\ StreamInv /\ [Next]_vars => StreamInv'
<1> SUFFICES ASSUME TypeInv, RowsInv, StreamInv, [Next]_vars PROVE StreamInv'
    OBVIOUS
<1> USE DEF worker, stick, dbVars, mainThread
<1>1. CASE PowerCut
  <2>1. Stream' = <<>> /\ Aside' = {} /\ Scanning' = FALSE /\ RowsAside'
        BY <1>1 DEF PowerCut, Stream, Aside, Scanning, RowsAside, VanishedAreTheirRows
  <2>2. WellFormed(<<>>, FALSE, {}, todo')
        BY DEF WellFormed, InOrder, InFolders
  <2> QED BY <2>1, <2>2 DEF StreamInv
<1>2. CASE Boot \/ requestScan \/ EditGames \/ UNCHANGED vars
  <2>1. UNCHANGED <<events, queue, vanished, db, fresh, todo>> /\ Scanning' = Scanning
        BY <1>2 DEF Boot, requestScan, EditGames, vars, Scanning
  <2>2. UNCHANGED <<Stream, Aside, RowsAside>>
        BY <2>1 DEF Stream, Aside, RowsAside, VanishedAreTheirRows
  <2> QED BY <2>1, <2>2 DEF StreamInv
<1> QED BY <1>1, <1>2, WorkerKeepsStream, PollKeepsStream DEF Next

LEMMA StreamInvariant == Spec => []StreamInv
<1>1. Init => StreamInv
  <2> SUFFICES ASSUME Init PROVE StreamInv
      OBVIOUS
  <2>1. Stream = <<>> /\ Aside = {} /\ Scanning = FALSE /\ RowsAside
        BY DEF Init, Stream, Aside, Scanning, RowsAside, VanishedAreTheirRows
  <2>2. WellFormed(<<>>, FALSE, {}, todo)
        BY DEF WellFormed, InOrder, InFolders
  <2> QED BY <2>1, <2>2 DEF StreamInv
<1> QED BY <1>1, StreamStep, RowsInvariant, TypeInvariant, PTL DEF Spec

(* A row claimMovedGame hands to a moved game, or deleteUnclaimedVanished  *)
(* deletes, is still the row the scan set aside: no event of that scan     *)
(* wrote it, deleted it, or gave its id to another game.                   *)
THEOREM AsideRowsAreTheirRows == Spec => []VanishedAreTheirRows
<1>1. StreamInv => VanishedAreTheirRows
      BY DEF StreamInv, RowsAside
<1> QED BY <1>1, StreamInvariant, PTL

(* poll() says of the rows a ScanStarted might find set aside that "it     *)
(* cannot happen": the worker reports Finished before it starts another.   *)
THEOREM NoScanMeetsAnother == Spec => []NothingLeftAside
<1>1. TypeInv /\ StreamInv => NothingLeftAside
  <2> SUFFICES ASSUME TypeInv, StreamInv, Handling("ScanStarted"), vanished # {} PROVE FALSE
      BY DEF NothingLeftAside
  <2>1. Stream # <<>> /\ Stream[1].kind = "ScanStarted"
        BY DEF Handling, Stream, MainOK
  <2>2. Aside # {}
        BY DEF Aside
  <2> QED BY <2>1, <2>2 DEF StreamInv, WellFormed, InOrder
<1> QED BY <1>1, StreamInvariant, TypeInvariant, PTL
-----------------------------------------------------------------------------
(* The rows a scan inserted.  A scan sees a folder once, so no event of it *)
(* that is still to come is about one of them.                             *)

Once(s, scanning, left) ==
    /\ \A i, j \in 1..Len(s) :
          i < j /\ Looks(s[i]) /\ Looks(s[j]) /\ SameScan(s, i, j) => s[i].path # s[j].path
    /\ scanning =>
          \A i \in 1..Len(s) : Looks(s[i]) /\ SameScan(s, i, Len(s)) => s[i].path \notin left

LEMMA ShrinkKeepsOnce ==
    ASSUME NEW s, NEW scanning, NEW left, Once(s, scanning, left), NEW left2 \in SUBSET left
    PROVE  Once(s, scanning, left2)
BY DEF Once

(* What is appended is of the last scan, or starts one.                    *)
LEMMA AppendKeepsOnce ==
    ASSUME NEW s \in Seq(Events), NEW scanning \in BOOLEAN, NEW left, Once(s, scanning, left),
           NEW x \in Events, NEW scanning2 \in BOOLEAN, NEW left2,
           \/ x.kind = "ScanStarted"
           \/ Looks(x) /\ scanning /\ x.path \in left /\ left2 = left \ {x.path}
           \/ x.kind = "Finished" /\ ~scanning2
    PROVE  Once(Append(s, x), scanning2, left2)
<1> DEFINE t == Append(s, x)
           n == Len(s)
<1>1. /\ n \in Nat /\ Len(t) = n + 1 /\ t[n + 1] = x
      /\ \A i \in 1..n : t[i] = s[i]
      OBVIOUS
<1> HIDE DEF t, n
<1>2. ASSUME NEW i \in 1..n, NEW j \in i..n, SameScan(t, i, j)
      PROVE  SameScan(s, i, j)
      BY <1>1, <1>2 DEF SameScan
<1>3. ASSUME NEW i \in 1..n, SameScan(t, i, n + 1)
      PROVE  SameScan(s, i, n) /\ x.kind # "ScanStarted"
      BY <1>1, <1>3 DEF SameScan
<1>4. ASSUME NEW i \in 1..n + 1, NEW j \in 1..n + 1, i < j, Looks(t[i]), Looks(t[j]), SameScan(t, i, j)
      PROVE  t[i].path # t[j].path
  <2>1. i \in 1..n
        BY <1>1, <1>4
  <2>2. CASE j = n + 1
    <3>1. Looks(x) /\ scanning /\ x.path \in left
          BY <1>1, <1>4, <2>2 DEF Looks
    <3>2. s[i].path \notin left
          BY <1>1, <1>3, <1>4, <2>1, <2>2, <3>1 DEF Once, n
    <3> QED BY <1>1, <2>1, <2>2, <3>1, <3>2
  <2>3. CASE j \in 1..n
        BY <1>1, <1>2, <1>4, <2>1, <2>3 DEF Once, n
  <2> QED BY <1>1, <2>2, <2>3
<1>5. ASSUME scanning2, NEW i \in 1..n + 1, Looks(t[i]), SameScan(t, i, n + 1)
      PROVE  t[i].path \notin left2
  <2>1. CASE i = n + 1
        BY <1>1, <1>5, <2>1 DEF Looks
  <2>2. CASE i \in 1..n
    <3>1. SameScan(s, i, n) /\ x.kind # "ScanStarted"
          BY <1>3, <1>5, <2>2
    <3>2. Looks(x) /\ scanning /\ left2 = left \ {x.path}
          BY <1>5, <3>1 DEF Looks
    <3> QED BY <1>1, <1>5, <2>2, <3>1, <3>2 DEF Once, n
  <2> QED BY <1>1, <2>1, <2>2
<1> QED BY <1>1, <1>4, <1>5 DEF Once, t

(* When an event has been applied its folder is none the scan looks at     *)
(* again: it may be added to what is not mentioned any more.               *)
LEMMA TakingOnce ==
    ASSUME NEW s \in Seq(Events), s # <<>>, NEW scanning \in BOOLEAN, NEW aside, NEW left,
           WellFormed(s, scanning, aside, left), Once(s, scanning, left), NEW aside2,
           \/ Head(s).kind \in {"ScanStarted", "Finished"} /\ aside2 = {}
           \/ Looks(Head(s)) /\ aside2 \subseteq aside \cup {Head(s).path}
    PROVE  WellFormed(Tail(s), scanning, aside2, left) /\ Once(Tail(s), scanning, left)
<1> DEFINE t == Tail(s)
           n == Len(t)
<1>1. /\ n \in Nat /\ Len(s) = n + 1 /\ Head(s) = s[1]
      /\ \A i \in 1..n : t[i] = s[i + 1]
      /\ t = <<>> <=> n = 0
  <2>1. t \in Seq(Events) /\ Len(t) = Len(s) - 1 /\ \A i \in 1..Len(t) : t[i] = s[i + 1]
        BY HeadTailProperties
  <2>2. Len(s) \in Nat /\ Len(s) # 0 /\ Head(s) = s[1]
        BY LenProperties, EmptySeq, HeadTailProperties
  <2>3. t = <<>> <=> n = 0
        BY <2>1, EmptySeq
  <2> QED BY <2>1, <2>2, <2>3
<1> HIDE DEF t, n
<1>2. ASSUME NEW i \in Nat, NEW j \in 1..n, SameScan(t, i, j)
      PROVE  SameScan(s, i + 1, j + 1)
  <2>1. ASSUME NEW k \in (i + 2)..(j + 1) PROVE s[k].kind # "ScanStarted"
    <3>1. k - 1 \in (i + 1)..j /\ k - 1 \in 1..n /\ t[k - 1] = s[k]
          BY <1>1
    <3> QED BY <1>2, <3>1 DEF SameScan
  <2> QED BY <1>2, <2>1 DEF SameScan
<1>3. Once(t, scanning, left)
  <2>1. ASSUME NEW i \in 1..n, NEW j \in 1..n, i < j, Looks(t[i]), Looks(t[j]), SameScan(t, i, j)
        PROVE  t[i].path # t[j].path
        BY <1>1, <1>2, <2>1 DEF Once
  <2>2. ASSUME scanning, NEW i \in 1..n, Looks(t[i]), SameScan(t, i, n)
        PROVE  t[i].path \notin left
        BY <1>1, <1>2, <2>2 DEF Once
  <2> QED BY <2>1, <2>2 DEF Once, n
<1>4. CASE Head(s).kind \in {"ScanStarted", "Finished"} /\ aside2 = {}
      BY <1>3, <1>4, TakingKeepsStream DEF t
<1>5. CASE Looks(Head(s)) /\ aside2 \subseteq aside \cup {Head(s).path}
  <2>1. WellFormed(t, scanning, aside, left)
        BY <1>5, TakingKeepsStream DEF t
  <2>2. InOrder(t, scanning, aside2)
    <3>1. t # <<>> => (t[1].kind = "ScanStarted" <=> s[1].kind = "Finished")
      <4>1. t # <<>> => t[1] = s[2] /\ 2 \in 2..Len(s) /\ 2 - 1 = 1
            BY <1>1
      <4> QED BY <4>1 DEF WellFormed, InOrder
    <3>2. t = <<>> => (scanning <=> s[1].kind # "Finished")
          BY <1>1 DEF WellFormed, InOrder
    <3> QED BY <1>1, <1>5, <2>1, <3>1, <3>2 DEF WellFormed, InOrder, Looks
  <2>3. ASSUME NEW j \in 1..n, Looks(t[j]), SameScan(t, 0, j)
        PROVE  t[j].path # s[1].path
    <3>1. SameScan(s, 1, j + 1)
          BY <1>2, <2>3
    <3>2. Looks(s[1]) /\ Looks(s[j + 1]) /\ t[j] = s[j + 1]
          BY <1>1, <1>5, <2>3
    <3> QED BY <1>1, <3>1, <3>2 DEF Once
  <2>4. scanning /\ SameScan(t, 0, n) => s[1].path \notin left
    <3>1. SameScan(t, 0, n) => SameScan(s, 1, n + 1)
      <4>1. CASE n = 0
            BY <4>1 DEF SameScan
      <4>2. CASE n # 0
            BY <1>1, <1>2, <4>2
      <4> QED BY <4>1, <4>2
    <3> QED BY <1>1, <1>5, <3>1 DEF Once
  <2>5. InFolders(t, scanning, aside2, left)
        BY <1>1, <1>5, <2>1, <2>3, <2>4 DEF WellFormed, InFolders, n
  <2> QED BY <1>3, <2>2, <2>5 DEF WellFormed, t
<1> QED BY <1>4, <1>5

(* The folders of the rows the scan under way inserted, but for the one    *)
(* whose event poll() is not through with.                                 *)
Current == IF mpc = "discs" THEN {Head(events).path} ELSE {}
Told == {db[i].path : i \in fresh} \ Current

FreshInv ==
    /\ fresh \subseteq DOMAIN db
    /\ WellFormed(Stream, Scanning, Told, todo)
    /\ Once(Stream, Scanning, todo)

LEMMA WorkerKeepsFresh ==
    ASSUME TypeInv, FreshInv, Worker
    PROVE  FreshInv'
<1> USE DEF stick, dbVars, mainThread
<1>1. /\ events \in Seq(Events) /\ queue \in Seq(Events) /\ Stream \in Seq(Events)
      /\ Scanning \in BOOLEAN
      BY DEF MainOK, Stream, Scanning
<1>2. UNCHANGED <<events, mpc, db, fresh>>
      BY DEF Worker, TakeRequest, checkForChanges, ReadHierarchy, VisitGame, TakeFingerprint,
             EndScan
<1>3. Told' = Told /\ fresh' \subseteq DOMAIN db'
      BY <1>2 DEF Told, Current, FreshInv
<1>4. WellFormed(Stream, Scanning, Told, todo) /\ Once(Stream, Scanning, todo)
      BY DEF FreshInv
<1>5. CASE TakeRequest \/ checkForChanges \/ TakeFingerprint
  <2>1. Scanning' = Scanning /\ Stream' = Stream /\ todo' = todo
        BY <1>2, <1>5 DEF TakeRequest, checkForChanges, TakeFingerprint, Scanning, Stream
  <2> QED BY <1>3, <1>4, <2>1 DEF FreshInv
<1>6. CASE ReadHierarchy
  <2>1. GamesIn(disk) \in SUBSET Paths /\ Started(GamesIn(disk)) \in Events
        BY DEF GamesIn, Started, Events
  <2>2. Stream' = Append(Stream, Started(GamesIn(disk)))
        BY <1>1, <1>2, <1>6, <2>1, StreamAppend DEF ReadHierarchy
  <2>3. Scanning = FALSE /\ Scanning' = TRUE /\ todo' = GamesIn(disk)
        BY <1>6 DEF ReadHierarchy, Scanning
  <2>4. Started(GamesIn(disk)).kind = "ScanStarted"
        BY DEF Started
  <2>5. Once(Stream', TRUE, todo')
        BY <1>1, <1>4, <2>1, <2>2, <2>3, <2>4, AppendKeepsOnce
  <2> QED BY <1>1, <1>3, <1>4, <2>1, <2>2, <2>3, <2>5, StartKeepsStream DEF FreshInv
<1>7. ASSUME NEW p \in Paths, VisitGame(p) PROVE FreshInv'
  <2>1. Scanning = TRUE /\ Scanning' = TRUE /\ p \in todo /\ todo' = todo \ {p}
        BY <1>7 DEF VisitGame, Scanning
  <2>2. WellFormed(Stream', TRUE, Told, todo) /\ Once(Stream', TRUE, todo')
    <3>1. CASE disk[p] = NoGame /\ UNCHANGED queue
      <4>1. Stream' = Stream
            BY <1>2, <3>1 DEF Stream
      <4> QED BY <1>4, <2>1, <4>1, ShrinkKeepsOnce
    <3>2. ASSUME NEW x \in Events, Looks(x), x.path = p, queue' = Append(queue, x)
          PROVE  WellFormed(Stream', TRUE, Told, todo) /\ Once(Stream', TRUE, todo')
      <4>1. Stream' = Append(Stream, x)
            BY <1>1, <1>2, <3>2, StreamAppend
      <4>2. Once(Stream', TRUE, todo')
            BY <1>1, <1>4, <2>1, <3>2, <4>1, AppendKeepsOnce
      <4> QED BY <1>1, <1>4, <2>1, <3>2, <4>1, <4>2, LookKeepsStream
    <3>3. disk[p] \in Discs =>
             /\ Verified(p, disk[p]) \in Events /\ Looks(Verified(p, disk[p]))
             /\ Failed(p) \in Events /\ Looks(Failed(p))
             /\ Verified(p, disk[p]).path = p /\ Failed(p).path = p
          BY DEF Verified, Failed, Events, Looks
    <3> QED BY <1>7, <3>1, <3>2, <3>3, ScanLibraryAssumption DEF VisitGame
  <2>3. Stream' \in Seq(Events)
    <3>1. queue' \in Seq(Events)
          BY <1>7, WorkerKeepsTypes DEF Worker
    <3> QED BY <1>1, <1>2, <3>1 DEF Stream
  <2> QED BY <1>3, <2>1, <2>2, <2>3, ShrinkKeepsStream DEF FreshInv
<1>8. CASE EndScan
  <2>1. Finished(hier, failed, fp) \in Events /\ Finished(hier, failed, fp).kind = "Finished"
        BY <1>8 DEF EndScan, Finished, Events, WorkerOK, Phases
  <2>2. Stream' = Append(Stream, Finished(hier, failed, fp))
        BY <1>1, <1>2, <1>8, <2>1, StreamAppend DEF EndScan
  <2>3. Scanning = TRUE /\ Scanning' = FALSE
        BY <1>8 DEF EndScan, Scanning
  <2>4. Once(Stream', FALSE, todo')
        BY <1>1, <1>4, <2>1, <2>2, <2>3, AppendKeepsOnce
  <2> QED BY <1>1, <1>3, <1>4, <2>1, <2>2, <2>3, <2>4, EndKeepsStream DEF FreshInv
<1> QED BY <1>5, <1>6, <1>7, <1>8 DEF Worker

(* The folder of the event poll() takes has no row the scan inserted.      *)
LEMMA HeadIsNotFresh ==
    ASSUME TypeInv, FreshInv, mpc = "poll", events # <<>>, Looks(Head(events))
    PROVE  \A i \in fresh : db[i].path # Head(events).path
<1>1. Stream \in Seq(Events) /\ Len(Stream) \in Nat /\ 1 <= Len(Stream)
      /\ Stream[1] = Head(events)
      BY DEF Stream, MainOK
<1>2. SameScan(Stream, 0, 1) /\ 1 \in 1..Len(Stream) /\ Looks(Stream[1])
      BY <1>1 DEF SameScan, Looks
<1>3. Head(events).path \notin Told
      BY <1>1, <1>2 DEF FreshInv, WellFormed, InFolders
<1> QED BY <1>3 DEF Told, Current

(* When a scan is taken up there is no row of another one's left.          *)
LEMMA StartHasNoFresh ==
    ASSUME TypeInv, FreshInv, mpc = "poll", events # <<>>, Head(events).kind = "ScanStarted"
    PROVE  fresh = {}
<1>1. Stream # <<>> /\ Stream[1].kind = "ScanStarted"
      BY DEF Stream, MainOK
<1>2. Told = {}
      BY <1>1 DEF FreshInv, WellFormed, InOrder
<1> QED BY <1>2 DEF Told, Current

LEMMA HandledKeepsFresh ==
    ASSUME TypeInv, FreshInv, events # <<>>, Handled, UNCHANGED <<queue, wpc, todo>>,
           fresh' \subseteq DOMAIN db',
           \/ Head(events).kind \in {"ScanStarted", "Finished"} /\ Told' = {}
           \/ Looks(Head(events)) /\ Told' \subseteq Told \cup {Head(events).path}
    PROVE  FreshInv'
<1>1. /\ Stream \in Seq(Events) /\ Stream # <<>> /\ Head(Stream) = Head(events)
      /\ Stream' = Tail(Stream)
      BY StreamTail DEF MainOK
<1>2. Scanning \in BOOLEAN /\ Scanning' = Scanning /\ todo' = todo
      BY DEF Scanning
<1>3. WellFormed(Stream, Scanning, Told, todo) /\ Once(Stream, Scanning, todo)
      BY DEF FreshInv
<1>4. WellFormed(Tail(Stream), Scanning, Told', todo) /\ Once(Tail(Stream), Scanning, todo)
      BY <1>1, <1>2, <1>3, TakingOnce
<1> QED BY <1>1, <1>2, <1>4 DEF FreshInv

LEMMA UnhandledKeepsFresh ==
    ASSUME TypeInv, FreshInv, UNCHANGED <<events, queue, wpc, todo>>,
           fresh' \subseteq DOMAIN db', Told' \subseteq Told
    PROVE  FreshInv'
<1>1. Stream \in Seq(Events) /\ Stream' = Stream
      BY DEF Stream, MainOK
<1>2. Scanning \in BOOLEAN /\ Scanning' = Scanning /\ todo' = todo
      BY DEF Scanning
<1> QED BY <1>1, <1>2, ShrinkKeepsStream DEF FreshInv

LEMMA PollKeepsFresh ==
    ASSUME TypeInv, StreamInv, FreshInv, MainThread
    PROVE  FreshInv'
<1> USE DEF worker, stick, dbVars, mainThread
<1> DEFINE e == Head(events)
<1>1. RowsAside /\ fresh \subseteq DOMAIN db
      BY DEF StreamInv, FreshInv
<1>2. CASE BeginPoll
  <2>1. events = <<>>
        BY <1>2 DEF BeginPoll, Phases
  <2>2. Stream' = Stream /\ Scanning' = Scanning /\ todo' = todo
        BY <1>2, <2>1 DEF BeginPoll, Stream, MainOK, Scanning
  <2>3. Told' = Told /\ fresh' \subseteq DOMAIN db'
        BY <1>1, <1>2 DEF BeginPoll, Told, Current
  <2> QED BY <2>2, <2>3 DEF FreshInv
<1>3. ASSUME NEW v \in vanished, DeleteUnclaimedVanished(v) PROVE FreshInv'
  <2>1. v.id \notin fresh /\ db' = Without(v.id) /\ UNCHANGED <<fresh, mpc, events, queue, wpc, todo>>
        BY <1>1, <1>3 DEF DeleteUnclaimedVanished, deleteGame, RowsAside, VanishedAreTheirRows
  <2>2. fresh' \subseteq DOMAIN db' /\ Told' \subseteq Told
        BY <1>1, <2>1 DEF Without, Told, Current
  <2> QED BY <2>1, <2>2, UnhandledKeepsFresh
<1>4. CASE ApplyScanStarted
  <2>1. events # <<>> /\ e.kind = "ScanStarted" /\ fresh' = {} /\ Handled /\ UNCHANGED <<queue, wpc, todo>>
        BY <1>4 DEF ApplyScanStarted, Handling
  <2>2. Told' = {}
        BY <2>1 DEF Told
  <2> QED BY <2>1, <2>2, HandledKeepsFresh
<1>5. CASE ApplyVerifiedGame
  <2>1. UNCHANGED <<events, queue, wpc, todo>> /\ mpc = "poll" /\ mpc' = "discs" /\ events # <<>> /\ Looks(e)
        BY <1>5 DEF ApplyVerifiedGame, Handling, Looks
  <2>2. Current = {} /\ Current' = {e.path}
        BY <2>1 DEF Current
  <2>3. fresh' \subseteq DOMAIN db' /\ Told' \subseteq Told
    <3>1. CASE UNCHANGED <<db, fresh>>
          BY <1>1, <2>2, <3>1 DEF Told
    <3>2. ASSUME NEW v \in vanished, NEW r, db' = WithRow(v.id, r), UNCHANGED fresh
          PROVE  fresh' \subseteq DOMAIN db' /\ Told' \subseteq Told
      <4>1. v.id \notin fresh
            BY <1>1 DEF RowsAside, VanishedAreTheirRows
      <4> QED BY <1>1, <2>2, <3>2, <4>1 DEF WithRow, Told
    <3>3. ASSUME NEW r, r.path = e.path, db' = WithRow(NewId, r), fresh' = fresh \cup {NewId}
          PROVE  fresh' \subseteq DOMAIN db' /\ Told' \subseteq Told
          BY <1>1, <2>2, <3>3 DEF WithRow, Told
    <3> QED BY <1>5, <3>1, <3>2, <3>3 DEF ApplyVerifiedGame, Claimable
  <2> QED BY <2>1, <2>3, UnhandledKeepsFresh
<1>6. CASE ReplaceDiscs
  <2>1. events # <<>> /\ Looks(e) /\ UNCHANGED <<queue, wpc, todo, fresh>> /\ Handled /\ mpc = "discs" /\ mpc' = "poll"
        BY <1>6 DEF ReplaceDiscs, Phases, Looks
  <2>2. DOMAIN db' = DOMAIN db /\ \A i \in DOMAIN db : db'[i].path = db[i].path
        BY <1>6 DEF ReplaceDiscs, StickOK, IsTable, Rows
  <2>3. fresh' \subseteq DOMAIN db' /\ Told' \subseteq Told \cup {e.path}
        BY <1>1, <2>1, <2>2 DEF Told, Current
  <2> QED BY <2>1, <2>3, HandledKeepsFresh
<1>7. CASE ApplyFailedVerify
  <2>1. events # <<>> /\ Looks(e) /\ UNCHANGED <<queue, wpc, todo, fresh, mpc>> /\ Handled /\ mpc = "poll"
        BY <1>7 DEF ApplyFailedVerify, Handling, Looks
  <2>2. \A i \in fresh : db[i].path # e.path
        BY <2>1, HeadIsNotFresh
  <2>3. db' = db \/ \E id \in RowsAt(e.path) : db' = Without(id)
        BY <1>7 DEF ApplyFailedVerify, deleteGame
  <2>4. fresh' \subseteq DOMAIN db' /\ Told' \subseteq Told
        BY <1>1, <2>1, <2>2, <2>3 DEF RowsAt, Without, Told, Current
  <2> QED BY <2>1, <2>4, HandledKeepsFresh
<1>8. CASE ApplyFinished \/ EndPoll
  <2>1. UNCHANGED <<events, queue, wpc, todo, db, fresh>> /\ mpc # "discs" /\ mpc' # "discs"
        BY <1>8 DEF ApplyFinished, EndPoll, Handling
  <2>2. fresh' \subseteq DOMAIN db' /\ Told' = Told
        BY <1>1, <2>1 DEF Told, Current
  <2> QED BY <2>1, <2>2, UnhandledKeepsFresh
<1>9. CASE SaveFingerprint
  <2>1. events # <<>> /\ e.kind = "Finished" /\ fresh' = {} /\ Handled /\ UNCHANGED <<queue, wpc, todo>>
        BY <1>9 DEF SaveFingerprint, Phases
  <2>2. Told' = {}
        BY <2>1 DEF Told
  <2> QED BY <2>1, <2>2, HandledKeepsFresh
<1> QED BY <1>2, <1>3, <1>4, <1>5, <1>6, <1>7, <1>8, <1>9 DEF MainThread

LEMMA FreshStep == TypeInv /\ StreamInv /\ FreshInv /\ [Next]_vars => FreshInv'
<1> SUFFICES ASSUME TypeInv, StreamInv, FreshInv, [Next]_vars PROVE FreshInv'
    OBVIOUS
<1> USE DEF worker, stick, dbVars, mainThread
<1>1. CASE PowerCut
  <2>1. Stream' = <<>> /\ fresh' = {} /\ Scanning' = FALSE
        BY <1>1 DEF PowerCut, Stream, Scanning
  <2>2. Told' = {}
        BY <2>1 DEF Told
  <2>3. WellFormed(<<>>, FALSE, {}, todo') /\ Once(<<>>, FALSE, todo')
        BY DEF WellFormed, InOrder, InFolders, Once
  <2> QED BY <2>1, <2>2, <2>3 DEF FreshInv
<1>2. CASE Boot \/ requestScan \/ EditGames \/ UNCHANGED vars
  <2>1. UNCHANGED <<events, queue, mpc, db, fresh, todo>> /\ Scanning' = Scanning
        BY <1>2 DEF Boot, requestScan, EditGames, vars, Scanning
  <2>2. UNCHANGED <<Stream, Told>>
        BY <2>1 DEF Stream, Told, Current
  <2> QED BY <2>1, <2>2 DEF FreshInv
<1> QED BY <1>1, <1>2, WorkerKeepsFresh, PollKeepsFresh DEF Next

LEMMA FreshInvariant == Spec => []FreshInv
<1>1. Init => FreshInv
  <2> SUFFICES ASSUME Init PROVE FreshInv
      OBVIOUS
  <2>1. Stream = <<>> /\ fresh = {} /\ Scanning = FALSE
        BY DEF Init, Stream, Scanning
  <2>2. Told = {}
        BY <2>1 DEF Told
  <2>3. WellFormed(<<>>, FALSE, {}, todo) /\ Once(<<>>, FALSE, todo)
        BY DEF WellFormed, InOrder, InFolders, Once
  <2> QED BY <2>1, <2>2, <2>3 DEF FreshInv
<1> QED BY <1>1, FreshStep, StreamInvariant, TypeInvariant, PTL DEF Spec

-----------------------------------------------------------------------------
(* The carousel.  What poll() has told the launcher so far makes of its    *)
(* games those of the database; what it has told to be added is of the     *)
(* scan under way, and so deleted by none of its events.                   *)

Follows ==
    \/ update.finished
    \/ /\ (DOMAIN roster \ update.removed) \cup update.added = DOMAIN db
       /\ \A i \in DOMAIN db :
             (IF i \in DOMAIN update.changed THEN update.changed[i] ELSE roster[i]) = db[i].path

RosterInv ==
    /\ wpc # "off" => Follows
    /\ mpc = "frame" => update = NoUpdate
    /\ wpc = "off" => mpc = "frame" /\ queue = <<>>
    /\ ~update.finished => update.added \subseteq fresh

LEMMA TellingSays ==
    ASSUME UpdateOK, NEW id, NEW p, NEW added, update' = Telling(id, p, added)
    PROVE  /\ update'.removed = update.removed /\ update'.finished = update.finished
           /\ update'.added = update.added \cup added
           /\ DOMAIN update'.changed = DOMAIN update.changed \cup {id}
           /\ update'.changed[id] = p
           /\ \A i \in DOMAIN update.changed : i # id => update'.changed[i] = update.changed[i]
BY DEF UpdateOK, Telling

LEMMA deleteGameSays ==
    ASSUME UpdateOK, NEW id, deleteGame(id)
    PROVE  /\ update'.removed = update.removed \cup {id} /\ update'.finished = update.finished
           /\ update'.added = update.added /\ update'.changed = update.changed
           /\ DOMAIN db' = DOMAIN db \ {id} /\ \A i \in DOMAIN db' : db'[i] = db[i]
BY DEF UpdateOK, deleteGame, Without

(* A row that goes is none the update adds.                                *)
LEMMA deleteGameFollows ==
    ASSUME TypeInv, Follows, NEW id, deleteGame(id), id \notin update.added \/ update.finished,
           UNCHANGED roster
    PROVE  Follows'
<1>1. CASE update.finished
      BY <1>1, deleteGameSays DEF MainOK, Follows
<1>2. CASE ~update.finished
  <2>1. /\ update'.removed = update.removed \cup {id} /\ update'.added = update.added
        /\ update'.changed = update.changed /\ id \notin update.added
        /\ DOMAIN db' = DOMAIN db \ {id} /\ \A i \in DOMAIN db' : db'[i] = db[i]
        BY <1>2, deleteGameSays DEF MainOK
  <2>2. (DOMAIN roster \ update'.removed) \cup update'.added = DOMAIN db'
        BY <1>2, <2>1 DEF Follows
  <2> QED BY <1>2, <2>1, <2>2 DEF Follows
<1> QED BY <1>1, <1>2

(* A row that is refreshed, moved or new is told with its folder.          *)
LEMMA TellingFollows ==
    ASSUME TypeInv, Follows, NEW id, NEW p, NEW added \in SUBSET {id}, update' = Telling(id, p, added),
           DOMAIN db' = DOMAIN db \cup {id}, id \in DOMAIN db \/ added = {id},
           db'[id].path = p, \A i \in DOMAIN db : i # id => db'[i] = db[i],
           UNCHANGED roster
    PROVE  Follows'
<1>1. CASE update.finished
      BY <1>1, TellingSays DEF MainOK, Follows
<1>2. CASE ~update.finished
  <2> USE TellingSays DEF MainOK
  <2>1. (DOMAIN roster \ update'.removed) \cup update'.added = DOMAIN db'
        BY <1>2 DEF Follows
  <2>2. ASSUME NEW i \in DOMAIN db'
        PROVE (IF i \in DOMAIN update'.changed THEN update'.changed[i] ELSE roster[i]) = db'[i].path
        BY <1>2, <2>2 DEF Follows
  <2> QED BY <2>1, <2>2 DEF Follows
<1> QED BY <1>1, <1>2

LEMMA PollKeepsRoster ==
    ASSUME TypeInv, StreamInv, FreshInv, RosterInv, MainThread
    PROVE  RosterInv'
<1> USE DEF worker, stick, dbVars, mainThread
<1> DEFINE e == Head(events)
<1>1. wpc # "off" /\ Follows /\ RowsAside /\ UpdateOK /\ fresh \subseteq DOMAIN db
      BY DEF MainThread, BeginPoll, DeleteUnclaimedVanished, ApplyScanStarted, ApplyVerifiedGame, ReplaceDiscs,
             ApplyFailedVerify, ApplyFinished, SaveFingerprint, EndPoll, Handling, RosterInv, StreamInv, MainOK,
             FreshInv
<1>2. CASE BeginPoll
  <2>1. wpc' # "off" /\ mpc' # "frame" /\ UNCHANGED <<update, roster, db, fresh>>
        BY <1>1, <1>2 DEF BeginPoll
  <2> QED BY <1>1, <2>1 DEF RosterInv, Follows
<1>3. ASSUME NEW v \in vanished, DeleteUnclaimedVanished(v) PROVE RosterInv'
  <2>1. v.id \notin fresh /\ deleteGame(v.id) /\ UNCHANGED <<fresh, mpc, wpc, roster>> /\ mpc # "frame"
        BY <1>1, <1>3 DEF DeleteUnclaimedVanished, Handling, RowsAside, VanishedAreTheirRows
  <2>2. Follows'
        BY <1>1, <2>1, deleteGameFollows DEF RosterInv
  <2> QED BY <1>1, <2>1, <2>2, deleteGameSays DEF RosterInv
<1>4. CASE ApplyScanStarted
  <2>1. fresh = {}
        BY <1>4, StartHasNoFresh DEF ApplyScanStarted, Handling
  <2>2. wpc' # "off" /\ mpc' # "frame" /\ fresh' = {} /\ UNCHANGED <<update, roster, db>>
        BY <1>1, <1>4 DEF ApplyScanStarted, Handling
  <2> QED BY <1>1, <2>1, <2>2 DEF RosterInv, Follows
<1>5. CASE ApplyVerifiedGame
  <2>1. wpc' # "off" /\ mpc' # "frame" /\ UNCHANGED roster
        BY <1>1, <1>5 DEF ApplyVerifiedGame
  <2>2. ASSUME NEW id \in RowsAt(e.path), update' = Telling(id, e.path, {}), UNCHANGED <<db, fresh>>
        PROVE  RosterInv'
    <3>1. /\ id \in DOMAIN db /\ DOMAIN db' = DOMAIN db \cup {id} /\ db'[id].path = e.path
          /\ \A i \in DOMAIN db : i # id => db'[i] = db[i]
          BY <2>2 DEF RowsAt
    <3>2. Follows'
      <4>1. {} \in SUBSET {id}
            OBVIOUS
      <4> QED BY <1>1, <2>1, <2>2, <3>1, <4>1, TellingFollows
    <3> QED BY <1>1, <2>1, <2>2, <3>2, TellingSays DEF RosterInv
  <2>3. ASSUME NEW v \in vanished, NEW r, r.path = e.path, db' = WithRow(v.id, r),
               update' = Telling(v.id, e.path, {}), UNCHANGED fresh
        PROVE  RosterInv'
    <3>1. /\ v.id \in DOMAIN db /\ DOMAIN db' = DOMAIN db \cup {v.id} /\ db'[v.id].path = e.path
          /\ \A i \in DOMAIN db : i # v.id => db'[i] = db[i]
          BY <1>1, <2>3 DEF RowsAside, VanishedAreTheirRows, WithRow
    <3>2. Follows'
      <4>1. {} \in SUBSET {v.id}
            OBVIOUS
      <4> QED BY <1>1, <2>1, <2>3, <3>1, <4>1, TellingFollows
    <3> QED BY <1>1, <2>1, <2>3, <3>2, TellingSays DEF RosterInv
  <2>4. ASSUME NEW r, r.path = e.path, db' = WithRow(NewId, r), update' = Telling(NewId, e.path, {NewId}),
               fresh' = fresh \cup {NewId}
        PROVE  RosterInv'
    <3>1. /\ DOMAIN db' = DOMAIN db \cup {NewId} /\ db'[NewId].path = e.path
          /\ \A i \in DOMAIN db : i # NewId => db'[i] = db[i]
          BY <2>4 DEF WithRow
    <3>2. Follows'
          BY <1>1, <2>1, <2>4, <3>1, TellingFollows
    <3>3. ~update'.finished => update'.added \subseteq fresh'
          BY <1>1, <2>4, TellingSays DEF RosterInv
    <3> QED BY <2>1, <3>2, <3>3 DEF RosterInv
  <2> QED BY <1>5, <2>2, <2>3, <2>4 DEF ApplyVerifiedGame, Claimable
<1>6. CASE ReplaceDiscs
  <2>1. wpc' # "off" /\ mpc' # "frame" /\ UNCHANGED <<update, roster, fresh>>
        BY <1>1, <1>6 DEF ReplaceDiscs
  <2>2. DOMAIN db' = DOMAIN db /\ \A i \in DOMAIN db : db'[i].path = db[i].path
        BY <1>6 DEF ReplaceDiscs, StickOK, IsTable, Rows
  <2> QED BY <1>1, <2>1, <2>2 DEF RosterInv, Follows
<1>7. CASE ApplyFailedVerify
  <2>1. /\ events # <<>> /\ Looks(e) /\ mpc = "poll" /\ mpc' = "poll" /\ wpc' # "off"
        /\ UNCHANGED <<roster, fresh>>
        BY <1>1, <1>7 DEF ApplyFailedVerify, Handling, Looks
  <2>2. CASE UNCHANGED <<db, update>>
        BY <1>1, <2>1, <2>2 DEF RosterInv, Follows
  <2>3. ASSUME NEW id \in RowsAt(e.path), deleteGame(id) PROVE RosterInv'
    <3>1. id \notin fresh
          BY <2>1, HeadIsNotFresh DEF RowsAt
    <3>2. Follows'
          BY <1>1, <2>1, <2>3, <3>1, deleteGameFollows DEF RosterInv
    <3> QED BY <1>1, <2>1, <2>3, <3>2, deleteGameSays DEF RosterInv
  <2> QED BY <1>7, <2>2, <2>3 DEF ApplyFailedVerify
<1>8. CASE ApplyFinished
  <2>1. wpc' # "off" /\ mpc' # "frame" /\ UNCHANGED <<update, roster, db, fresh>>
        BY <1>1, <1>8 DEF ApplyFinished
  <2> QED BY <1>1, <2>1 DEF RosterInv, Follows
<1>9. CASE SaveFingerprint
  <2>1. wpc' # "off" /\ mpc' # "frame" /\ update'.finished = TRUE
        BY <1>1, <1>9 DEF SaveFingerprint, UpdateOK
  <2> QED BY <2>1 DEF RosterInv, Follows
<1>10. CASE EndPoll
  <2>1. /\ wpc' # "off" /\ update' = NoUpdate /\ UNCHANGED db /\ roster' = Updated
        BY <1>1, <1>10 DEF EndPoll
  <2>2. DOMAIN roster' = DOMAIN db /\ \A i \in DOMAIN db : roster'[i] = db[i].path
    <3>1. CASE update.finished
          BY <2>1, <3>1 DEF Updated
    <3>2. CASE ~update.finished
          BY <1>1, <2>1, <3>2 DEF Updated, Follows
    <3> QED BY <3>1, <3>2
  <2>3. update'.removed = {} /\ update'.added = {} /\ update'.changed = <<>>
        BY <2>1 DEF NoUpdate
  <2>4. Follows'
        BY <2>1, <2>2, <2>3 DEF Follows
  <2> QED BY <2>1, <2>3, <2>4 DEF RosterInv
<1> QED BY <1>2, <1>3, <1>4, <1>5, <1>6, <1>7, <1>8, <1>9, <1>10 DEF MainThread

LEMMA RosterStep == TypeInv /\ StreamInv /\ FreshInv /\ RosterInv /\ [Next]_vars => RosterInv'
<1> SUFFICES ASSUME TypeInv, StreamInv, FreshInv, RosterInv, [Next]_vars PROVE RosterInv'
    OBVIOUS
<1> USE DEF worker, stick, dbVars, mainThread
<1>1. CASE Boot
  <2>1. mpc = "frame" /\ mpc' = "frame" /\ update' = NoUpdate /\ roster' = [i \in DOMAIN db |-> db[i].path]
        /\ wpc' # "off" /\ UNCHANGED <<db, fresh>>
        BY <1>1 DEF Boot, RosterInv
  <2>2. update'.removed = {} /\ update'.added = {} /\ update'.changed = <<>>
        BY <2>1 DEF NoUpdate
  <2>3. Follows'
        BY <2>1, <2>2 DEF Follows
  <2> QED BY <2>1, <2>2, <2>3 DEF RosterInv
<1>2. CASE PowerCut
  <2>1. wpc' = "off" /\ mpc' = "frame" /\ queue' = <<>> /\ update' = NoUpdate
        BY <1>2 DEF PowerCut
  <2>2. update'.added = {}
        BY <2>1 DEF NoUpdate
  <2> QED BY <2>1, <2>2 DEF RosterInv
<1>3. CASE requestScan \/ EditGames \/ UNCHANGED vars
  <2>1. UNCHANGED <<wpc, queue, mpc, update, roster, db, fresh>>
        BY <1>3 DEF requestScan, EditGames, vars
  <2> QED BY <2>1 DEF RosterInv, Follows
<1>4. CASE Worker
  <2>1. UNCHANGED <<mpc, update, roster, db, fresh>> /\ wpc # "off" /\ wpc' # "off"
        BY <1>4 DEF Worker, TakeRequest, checkForChanges, ReadHierarchy, VisitGame, TakeFingerprint, EndScan
  <2> QED BY <2>1 DEF RosterInv, Follows
<1> QED BY <1>1, <1>2, <1>3, <1>4, PollKeepsRoster DEF Next

(* Whenever a poll() is over the launcher's carousel is what the database  *)
(* holds, although the update it is given says neither in what order games *)
(* went and came, nor that an id was given out again (getGameRows,         *)
(* ScanUpdate): what is deleted is none of what this scan added.           *)
THEOREM CarouselIsTheDatabase == Spec => []RosterFollowsDatabase
<1>1. Init => RosterInv
  <2> SUFFICES ASSUME Init PROVE RosterInv
      OBVIOUS
  <2>1. update.added = {}
        BY DEF Init, NoUpdate
  <2> QED BY <2>1 DEF Init, RosterInv
<1>2. TypeInv /\ RosterInv => RosterFollowsDatabase
  <2> SUFFICES ASSUME TypeInv, RosterInv, mpc = "frame", wpc # "off"
               PROVE  roster = [i \in DOMAIN db |-> db[i].path]
      BY DEF RosterFollowsDatabase
  <2>1. ~update.finished /\ update.removed = {} /\ update.added = {} /\ update.changed = <<>>
        BY DEF RosterInv, NoUpdate
  <2>2. DOMAIN roster = DOMAIN db /\ \A i \in DOMAIN db : roster[i] = db[i].path
        BY <2>1 DEF RosterInv, Follows
  <2>3. roster = [i \in DOMAIN roster |-> roster[i]]
        BY DEF MainOK, IsTable
  <2> QED BY <2>2, <2>3
<1> QED BY <1>1, <1>2, RosterStep, FreshInvariant, StreamInvariant, TypeInvariant, PTL DEF Spec

-----------------------------------------------------------------------------
(* A moved game.  A row the scan inserted was inserted because none of the *)
(* rows kept aside was its own, by its folder's name and its discs.        *)

DiscsOf(i) == IF db[i].path \in Current THEN Head(events).discs ELSE db[i].discs

MovedInv ==
    \A v \in vanished, i \in fresh : ~(NameOf(db[i].path) = v.name /\ DiscsOf(i) = v.discs)

(* Fewer rows aside and fewer inserted, as they were.                      *)
LEMMA SameRowsKeepMoved ==
    ASSUME MovedInv, vanished' \subseteq vanished, fresh' \subseteq fresh,
           \A i \in fresh' : db'[i].path = db[i].path /\ DiscsOf(i)' = DiscsOf(i)
    PROVE  MovedInv'
BY DEF MovedInv

LEMMA PollKeepsMoved ==
    ASSUME TypeInv, RowsInv, StreamInv, FreshInv, MovedInv, MainThread
    PROVE  MovedInv'
<1> USE DEF worker, stick, dbVars, mainThread
<1> DEFINE e == Head(events)
<1>1. RowsAside /\ fresh \subseteq DOMAIN db
      BY DEF StreamInv, FreshInv
<1>2. CASE BeginPoll \/ ApplyFinished \/ EndPoll
  <2>1. UNCHANGED <<vanished, fresh, db>> /\ mpc # "discs" /\ mpc' # "discs"
        BY <1>2 DEF BeginPoll, ApplyFinished, EndPoll, Handling
  <2> QED BY <2>1, SameRowsKeepMoved DEF DiscsOf, Current
<1>3. ASSUME NEW v \in vanished, DeleteUnclaimedVanished(v) PROVE MovedInv'
  <2>1. v.id \notin fresh /\ db' = Without(v.id) /\ UNCHANGED <<fresh, mpc, events>> /\ vanished' \subseteq vanished
        BY <1>1, <1>3 DEF DeleteUnclaimedVanished, deleteGame, RowsAside, VanishedAreTheirRows
  <2>2. \A i \in fresh : db'[i] = db[i]
        BY <1>1, <2>1 DEF Without
  <2> QED BY <2>1, <2>2, SameRowsKeepMoved DEF DiscsOf, Current
<1>4. CASE ApplyScanStarted \/ SaveFingerprint
      BY <1>4 DEF ApplyScanStarted, SaveFingerprint, MovedInv
<1>5. CASE ApplyVerifiedGame
  <2>1. UNCHANGED events /\ mpc = "poll" /\ mpc' = "discs" /\ events # <<>> /\ Looks(e)
        BY <1>5 DEF ApplyVerifiedGame, Handling, Looks
  <2>2. Current = {} /\ Current' = {e.path}
        BY <2>1 DEF Current
  <2>3. \A i \in fresh : db[i].path # e.path
        BY <2>1, HeadIsNotFresh
  <2>4. CASE UNCHANGED <<db, vanished, fresh>>
        BY <2>2, <2>3, <2>4, SameRowsKeepMoved DEF DiscsOf
  <2>5. ASSUME NEW v \in vanished, NEW r, db' = WithRow(v.id, r), vanished' = vanished \ {v}, UNCHANGED fresh
        PROVE  MovedInv'
    <3>1. \A i \in fresh : i # v.id
          BY <1>1 DEF RowsAside, VanishedAreTheirRows
    <3>2. \A i \in fresh : db'[i] = db[i]
          BY <1>1, <2>5, <3>1 DEF WithRow
    <3> QED BY <2>2, <2>3, <2>5, <3>2, SameRowsKeepMoved DEF DiscsOf
  <2>6. ASSUME Claimable(e) = {}, db' = WithRow(NewId, [path |-> e.path, discs |-> NoGame]),
               fresh' = fresh \cup {NewId}, UNCHANGED vanished
        PROVE  MovedInv'
    <3>1. PICK id : id = NewId
          OBVIOUS
    <3>2. id \notin fresh
          BY <1>1, <3>1, NewIdIsNew DEF StickOK
    <3>3. \A i \in fresh : db'[i] = db[i] /\ DiscsOf(i)' = DiscsOf(i)
          BY <1>1, <2>1, <2>2, <2>3, <2>6, <3>1, <3>2 DEF WithRow, DiscsOf
    <3>4. db'[id].path = e.path /\ DiscsOf(id)' = e.discs
          BY <2>1, <2>2, <2>6, <3>1 DEF WithRow, DiscsOf
    <3>5. \A v \in vanished : ~(NameOf(e.path) = v.name /\ e.discs = v.discs)
          BY <2>6 DEF Claimable
    <3> QED BY <2>6, <3>1, <3>3, <3>4, <3>5 DEF MovedInv
  <2> QED BY <1>5, <2>4, <2>5, <2>6 DEF ApplyVerifiedGame, Claimable
<1>6. CASE ReplaceDiscs
  <2>1. mpc = "discs" /\ mpc' = "poll" /\ UNCHANGED <<fresh, vanished>>
        BY <1>6 DEF ReplaceDiscs
  <2>2. ASSUME NEW i \in fresh PROVE db'[i].path = db[i].path /\ DiscsOf(i)' = DiscsOf(i)
    <3>1. i \in DOMAIN db /\ db[i] \in Rows
          BY <1>1 DEF StickOK, IsTable
    <3> QED BY <1>6, <2>1, <3>1 DEF ReplaceDiscs, Rows, DiscsOf, Current
  <2> QED BY <2>1, <2>2, SameRowsKeepMoved
<1>7. CASE ApplyFailedVerify
  <2>1. events # <<>> /\ Looks(e) /\ mpc = "poll" /\ mpc' = "poll" /\ UNCHANGED <<fresh, vanished>>
        BY <1>7 DEF ApplyFailedVerify, Handling, Looks
  <2>2. \A i \in fresh : db[i].path # e.path
        BY <2>1, HeadIsNotFresh
  <2>3. db' = db \/ \E id \in RowsAt(e.path) : db' = Without(id)
        BY <1>7 DEF ApplyFailedVerify, deleteGame
  <2>4. \A i \in fresh : db'[i] = db[i]
        BY <1>1, <2>2, <2>3 DEF RowsAt, Without
  <2> QED BY <2>1, <2>4, SameRowsKeepMoved DEF DiscsOf, Current
<1> QED BY <1>2, <1>3, <1>4, <1>5, <1>6, <1>7 DEF MainThread

LEMMA MovedStep == TypeInv /\ RowsInv /\ StreamInv /\ FreshInv /\ MovedInv /\ [Next]_vars => MovedInv'
<1> SUFFICES ASSUME TypeInv, RowsInv, StreamInv, FreshInv, MovedInv, [Next]_vars PROVE MovedInv'
    OBVIOUS
<1> USE DEF worker, stick, dbVars, mainThread
<1>1. CASE PowerCut
      BY <1>1 DEF PowerCut, MovedInv
<1>2. CASE Boot \/ requestScan \/ EditGames \/ Worker \/ UNCHANGED vars
  <2>1. UNCHANGED <<vanished, fresh, db, mpc, events>>
        BY <1>2 DEF Boot, requestScan, EditGames, vars, Worker, TakeRequest, checkForChanges, ReadHierarchy,
                    VisitGame, TakeFingerprint, EndScan
  <2> QED BY <2>1 DEF MovedInv, DiscsOf, Current
<1> QED BY <1>1, <1>2, PollKeepsMoved DEF Next

(* A game moved within Games/ keeps its row, and with it its history: the  *)
(* scan that deletes a row (deleteUnclaimedVanished) has not inserted one  *)
(* for a game of that folder name and those discs (claimMovedGame).        *)
THEOREM MovedGamesKeepTheirRows == Spec => MovedGameKeepsItsRow
<1> DEFINE Keeps == \A i \in DOMAIN db \ DOMAIN db' :
                       Handling("Finished") =>
                          \A j \in fresh \cap DOMAIN db :
                             ~(NameOf(db[j].path) = NameOf(db[i].path) /\ db[j].discs = db[i].discs)
<1>1. Init => MovedInv
      BY DEF Init, MovedInv
<1>2. TypeInv /\ StreamInv /\ MovedInv /\ [Next]_vars => [Keeps]_vars
  <2> SUFFICES ASSUME TypeInv, StreamInv, MovedInv, [Next]_vars, Handling("Finished"),
                      NEW i \in DOMAIN db, i \notin DOMAIN db', NEW j \in fresh \cap DOMAIN db
               PROVE  ~(NameOf(db[j].path) = NameOf(db[i].path) /\ db[j].discs = db[i].discs)
      OBVIOUS
  <2> USE DEF worker, stick, dbVars, mainThread
  <2>1. mpc = "poll" /\ Head(events).kind = "Finished"
        BY DEF Handling
  <2>2. \E v \in vanished : DeleteUnclaimedVanished(v)
    <3>1. ~ UNCHANGED db
          OBVIOUS
    <3>2. MainThread
          BY <3>1 DEF Next, Boot, PowerCut, requestScan, EditGames, vars, Worker, TakeRequest, checkForChanges,
                      ReadHierarchy, VisitGame, TakeFingerprint, EndScan
    <3> QED BY <2>1, <3>1, <3>2 DEF MainThread, BeginPoll, ApplyScanStarted, ApplyVerifiedGame, ReplaceDiscs,
                      ApplyFailedVerify, ApplyFinished, SaveFingerprint, EndPoll, Handling
  <2>3. PICK v \in vanished : DeleteUnclaimedVanished(v)
        BY <2>2
  <2>4. i = v.id
        BY <2>3 DEF DeleteUnclaimedVanished, deleteGame, Without
  <2>5. NameOf(db[i].path) = v.name /\ db[i].discs = v.discs
        BY <2>4 DEF StreamInv, RowsAside, VanishedAreTheirRows
  <2>6. DiscsOf(j) = db[j].discs
        BY <2>1 DEF DiscsOf, Current
  <2> QED BY <2>5, <2>6 DEF MovedInv
<1> QED BY <1>1, <1>2, MovedStep, FreshInvariant, StreamInvariant, RowsInvariant, TypeInvariant, PTL
        DEF Spec, MovedGameKeepsItsRow

-----------------------------------------------------------------------------
(* The saved fingerprint.  Where the user keeps out of Games/ while a scan *)
(* reads it and no tree returns, the events of a scan of the folder as it  *)
(* is are followed by such events only: what was applied of one is right,  *)
(* and the rest of it is still to come.                                    *)

(* The event is one of a scan of the tree.                                 *)
Agrees(x, tree) ==
    /\ x.kind = "ScanStarted" => x.paths = GamesIn(tree)
    /\ x.kind = "GameVerified" => x.discs = tree[x.path] /\ x.discs \in Verifying
    /\ x.kind = "GameFailedVerify" => tree[x.path] \in Discs \ Verifying
    /\ x.kind = "Finished" =>
          x.fp = tree /\ x.failed = Refused(tree) /\ x.hier = GamesIn(tree) \ Refused(tree)

(* The scan that event i is of will still say what it saw of the folder.   *)
Pending(s, scanning, left, i, p) ==
    \/ \E k \in 1..Len(s) : SameScan(s, i, k) /\ Looks(s[k]) /\ s[k].path = p
    \/ scanning /\ SameScan(s, i, Len(s)) /\ p \in left

(* From event m on the scans are of the tree, and none before is.          *)
Turned(s, scanning, left, tree, m) ==
    /\ m \in 1..(Len(s) + 1)
    /\ m # 1 => s[m - 1].kind = "Finished"
    /\ \A j \in 1..(m - 1) : s[j].kind = "Finished" => s[j].fp # tree
    /\ \A j \in m..Len(s) : Agrees(s[j], tree)
    /\ \A j \in m..Len(s) : s[j].kind = "ScanStarted" =>
          \A p \in GamesIn(tree) : Pending(s, scanning, left, j, p)

(* What a step of the worker appends, and what is left to it then.         *)
Adds(x, scanning, left, tree, scanning2, left2) ==
    \/ x.kind = "ScanStarted" /\ ~scanning /\ scanning2 /\ GamesIn(tree) \subseteq left2
    \/ Looks(x) /\ scanning /\ scanning2 /\ left \subseteq left2 \cup {x.path}
    \/ x.kind = "Finished" /\ left = {}

LEMMA AppendKeepsPending ==
    ASSUME NEW s \in Seq(Events), NEW scanning \in BOOLEAN, NEW left, NEW tree, NEW x \in Events,
           NEW scanning2 \in BOOLEAN, NEW left2, Adds(x, scanning, left, tree, scanning2, left2),
           NEW i \in 0..Len(s), NEW p, Pending(s, scanning, left, i, p)
    PROVE  Pending(Append(s, x), scanning2, left2, i, p)
<1> DEFINE t == Append(s, x)
           n == Len(s)
<1>1. /\ n \in Nat /\ Len(t) = n + 1 /\ t[n + 1] = x
      /\ \A k \in 1..n : t[k] = s[k]
      OBVIOUS
<1> HIDE DEF t, n
<1>2. ASSUME NEW k \in i..n, SameScan(s, i, k) PROVE SameScan(t, i, k)
      BY <1>1, <1>2 DEF SameScan, n
<1>3. CASE \E k \in 1..n : SameScan(s, i, k) /\ Looks(s[k]) /\ s[k].path = p
  <2>1. PICK k \in 1..n : SameScan(s, i, k) /\ Looks(s[k]) /\ s[k].path = p
        BY <1>3
  <2>2. k \in i..n /\ k \in 1..n + 1 /\ t[k] = s[k]
        BY <1>1, <2>1 DEF SameScan, n
  <2> QED BY <1>1, <1>2, <2>1, <2>2 DEF Pending, t
<1>4. CASE scanning /\ SameScan(s, i, n) /\ p \in left
  <2>1. Looks(x) /\ scanning2 /\ left \subseteq left2 \cup {x.path}
        BY <1>4 DEF Adds
  <2>2. SameScan(t, i, n + 1)
        BY <1>1, <1>4, <2>1 DEF SameScan, Looks, n
  <2>3. CASE p = x.path
        BY <1>1, <2>1, <2>2, <2>3 DEF Pending, t
  <2>4. CASE p \in left2
        BY <1>1, <2>1, <2>2, <2>4 DEF Pending, t
  <2> QED BY <1>4, <2>1, <2>3, <2>4
<1> QED BY <1>3, <1>4 DEF Pending, n

LEMMA AppendKeepsTurned ==
    ASSUME NEW s \in Seq(Events), NEW scanning \in BOOLEAN, NEW left, NEW tree, NEW x \in Events,
           NEW scanning2 \in BOOLEAN, NEW left2, Adds(x, scanning, left, tree, scanning2, left2),
           Agrees(x, tree), NEW m, Turned(s, scanning, left, tree, m)
    PROVE  Turned(Append(s, x), scanning2, left2, tree, m)
<1> DEFINE t == Append(s, x)
           n == Len(s)
<1>1. /\ n \in Nat /\ Len(t) = n + 1 /\ t[n + 1] = x
      /\ \A k \in 1..n : t[k] = s[k]
      OBVIOUS
<1>2. ASSUME NEW i \in 0..n, NEW p, Pending(s, scanning, left, i, p) PROVE Pending(t, scanning2, left2, i, p)
      BY <1>2, AppendKeepsPending
<1> HIDE DEF t, n
<1>3. m \in 1..n + 1 /\ m \in 1..n + 2 /\ (m # 1 => m - 1 \in 1..n)
      BY <1>1 DEF Turned, n
<1>4. ASSUME NEW j \in m..n + 1, t[j].kind = "ScanStarted", NEW p \in GamesIn(tree)
      PROVE  Pending(t, scanning2, left2, j, p)
  <2>1. CASE j = n + 1
    <3>1. scanning2 /\ p \in left2
          BY <1>1, <1>4, <2>1 DEF Adds, Looks
    <3>2. SameScan(t, j, n + 1)
          BY <1>1, <2>1 DEF SameScan
    <3> QED BY <1>1, <3>1, <3>2 DEF Pending
  <2>2. CASE j \in m..n
    <3>1. j \in 1..n /\ j \in 0..n /\ t[j] = s[j]
          BY <1>1, <1>3, <2>2
    <3> QED BY <1>2, <1>4, <2>2, <3>1 DEF Turned, n
  <2> QED BY <1>1, <1>3, <2>1, <2>2
<1>5. \A j \in m..n + 1 : Agrees(t[j], tree)
  <2>1. ASSUME NEW j \in m..n PROVE Agrees(t[j], tree)
        BY <1>1, <1>3, <2>1 DEF Turned, n
  <2> QED BY <1>1, <1>3, <2>1
<1>6. \A j \in 1..(m - 1) : t[j].kind = "Finished" => t[j].fp # tree
  <2>1. \A j \in 1..(m - 1) : j \in 1..n /\ t[j] = s[j]
        BY <1>1, <1>3
  <2> QED BY <2>1 DEF Turned
<1>7. m # 1 => t[m - 1].kind = "Finished"
      BY <1>1, <1>3 DEF Turned
<1> QED BY <1>1, <1>3, <1>4, <1>5, <1>6, <1>7 DEF Turned, t

LEMMA TailOf ==
    ASSUME NEW s \in Seq(Events), s # <<>>
    PROVE  /\ Len(Tail(s)) \in Nat /\ Len(s) = Len(Tail(s)) + 1 /\ Head(s) = s[1]
           /\ \A i \in 1..Len(Tail(s)) : Tail(s)[i] = s[i + 1]
           /\ Tail(s) = <<>> <=> Len(Tail(s)) = 0
<1>1. Tail(s) \in Seq(Events) /\ Len(Tail(s)) = Len(s) - 1 /\ \A i \in 1..Len(Tail(s)) : Tail(s)[i] = s[i + 1]
      BY HeadTailProperties
<1>2. Len(s) \in Nat /\ Len(s) # 0 /\ Head(s) = s[1]
      BY LenProperties, EmptySeq, HeadTailProperties
<1>3. Tail(s) = <<>> <=> Len(Tail(s)) = 0
      BY <1>1, EmptySeq
<1> QED BY <1>1, <1>2, <1>3

LEMMA TailKeepsPending ==
    ASSUME NEW s \in Seq(Events), s # <<>>, NEW scanning \in BOOLEAN, NEW left, NEW p,
           NEW i \in 0..Len(Tail(s)), Pending(s, scanning, left, i + 1, p),
           ~(Looks(s[i + 1]) /\ s[i + 1].path = p)
    PROVE  Pending(Tail(s), scanning, left, i, p)
<1> DEFINE t == Tail(s)
           n == Len(t)
<1>1. n \in Nat /\ Len(s) = n + 1 /\ \A k \in 1..n : t[k] = s[k + 1]
      BY TailOf
<1> HIDE DEF t, n
<1>2. ASSUME NEW k \in (i + 1)..(n + 1), SameScan(s, i + 1, k) PROVE SameScan(t, i, k - 1)
  <2>1. ASSUME NEW j \in (i + 1)..(k - 1) PROVE t[j].kind # "ScanStarted"
    <3>1. j \in 1..n /\ j + 1 \in (i + 2)..k /\ t[j] = s[j + 1]
          BY <1>1
    <3> QED BY <1>2, <3>1 DEF SameScan
  <2> QED BY <1>1, <2>1 DEF SameScan
<1>3. CASE \E k \in 1..n + 1 : SameScan(s, i + 1, k) /\ Looks(s[k]) /\ s[k].path = p
  <2>1. PICK k \in 1..n + 1 : SameScan(s, i + 1, k) /\ Looks(s[k]) /\ s[k].path = p
        BY <1>3
  <2>2. k \in (i + 1)..(n + 1) /\ k # i + 1
        BY <1>1, <2>1 DEF SameScan
  <2>3. k - 1 \in 1..n /\ t[k - 1] = s[k]
        BY <1>1, <2>2
  <2> QED BY <1>2, <2>1, <2>2, <2>3 DEF Pending, t, n
<1>4. CASE scanning /\ SameScan(s, i + 1, n + 1) /\ p \in left
  <2>1. n + 1 \in (i + 1)..(n + 1)
        BY <1>1, <1>4 DEF SameScan
  <2>2. SameScan(t, i, n)
        BY <1>1, <1>2, <1>4, <2>1
  <2> QED BY <1>4, <2>2 DEF Pending, t, n
<1> QED BY <1>1, <1>3, <1>4 DEF Pending

(* An event of the scan under way is applied.                              *)
LEMMA HeadWasPending ==
    ASSUME NEW s \in Seq(Events), s # <<>>, NEW scanning \in BOOLEAN, NEW left, NEW p,
           Pending(s, scanning, left, 0, p)
    PROVE  (Looks(s[1]) /\ s[1].path = p) \/ Pending(Tail(s), scanning, left, 0, p)
<1>1. Len(s) \in Nat /\ Len(s) >= 1 /\ 0 \in 0..Len(Tail(s))
      BY TailOf
<1>2. \A k \in 1..Len(s) : SameScan(s, 0, k) => SameScan(s, 1, k)
      BY DEF SameScan
<1>3. Pending(s, scanning, left, 1, p)
      BY <1>1, <1>2 DEF Pending
<1> QED BY <1>1, <1>3, TailKeepsPending

LEMMA TailKeepsTurned ==
    ASSUME NEW s \in Seq(Events), s # <<>>, NEW scanning \in BOOLEAN, NEW left, NEW tree, NEW m,
           Turned(s, scanning, left, tree, m)
    PROVE  Turned(Tail(s), scanning, left, tree, IF m = 1 THEN 1 ELSE m - 1)
<1> DEFINE t == Tail(s)
           n == Len(t)
           l == IF m = 1 THEN 1 ELSE m - 1
<1>1. n \in Nat /\ Len(s) = n + 1 /\ \A k \in 1..n : t[k] = s[k + 1]
      BY TailOf
<1>2. ASSUME NEW j \in 1..n, NEW p, Pending(s, scanning, left, j + 1, p), ~Looks(s[j + 1])
      PROVE  Pending(t, scanning, left, j, p)
      BY <1>1, <1>2, TailKeepsPending
<1> HIDE DEF t, n, l
<1>3. m \in 1..n + 2 /\ l \in 1..n + 1 /\ (l # 1 => m = l + 1 /\ l - 1 \in 1..n)
      BY <1>1 DEF Turned, l
<1>4. l # 1 => t[l - 1].kind = "Finished"
      BY <1>1, <1>3 DEF Turned
<1>5. ASSUME NEW j \in 1..(l - 1), t[j].kind = "Finished" PROVE t[j].fp # tree
  <2>1. l # 1 /\ j \in 1..n /\ j + 1 \in 1..(m - 1) /\ t[j] = s[j + 1]
        BY <1>1, <1>3
  <2> QED BY <1>5, <2>1 DEF Turned
<1>6. ASSUME NEW j \in l..n PROVE j \in 1..n /\ j + 1 \in m..Len(s) /\ t[j] = s[j + 1]
      BY <1>1, <1>3 DEF l
<1>7. ASSUME NEW j \in l..n, t[j].kind = "ScanStarted", NEW p \in GamesIn(tree)
      PROVE  Pending(t, scanning, left, j, p)
      BY <1>2, <1>6, <1>7 DEF Turned, Looks
<1>8. \A j \in l..n : Agrees(t[j], tree)
      BY <1>6 DEF Turned
<1> QED BY <1>3, <1>4, <1>5, <1>7, <1>8 DEF Turned, t, n, l

-----------------------------------------------------------------------------
(* What may be said at any time where no tree returns: the trees the       *)
(* fingerprints are of have been; what the worker found of the tree it     *)
(* reads; what poll() has written when it is between two of its writes.    *)

Saves(s) == {s[j].fp : j \in {k \in 1..Len(s) : s[k].kind = "Finished"}}

PastInv ==
    /\ disk \in past /\ savedFp \in past \cup {NoTree}
    /\ wpc = "finish" => fp \in past
    /\ Saves(Stream) \subseteq past

FoundInv ==
    /\ wpc = "visit" =>
          todo \subseteq GamesIn(disk) /\ failed = Refused(disk) \ todo /\ hier = GamesIn(disk) \ failed
    /\ wpc = "finish" => todo = {}
    /\ wpc = "finish" /\ fp = disk => failed = Refused(disk) /\ hier = GamesIn(disk) \ failed

HandInv ==
    /\ mpc = "discs" => RowsAt(Head(events).path) # {}
    /\ mpc = "save" => /\ shown = {i \in DOMAIN db : db[i].path \in Head(events).hier}
                       /\ failures = Head(events).failed

LEMMA SavesOfAppend ==
    ASSUME NEW s \in Seq(Events), NEW x \in Events
    PROVE  /\ x.kind # "Finished" => Saves(Append(s, x)) \subseteq Saves(s)
           /\ Saves(Append(s, x)) \subseteq Saves(s) \cup {x.fp}
<1>1. Len(Append(s, x)) = Len(s) + 1 /\ Append(s, x)[Len(s) + 1] = x /\ Len(s) \in Nat
      /\ \A k \in 1..Len(s) : Append(s, x)[k] = s[k]
      OBVIOUS
<1>2. \A k \in 1..Len(s) + 1 : k \in 1..Len(s) \/ k = Len(s) + 1
      BY <1>1
<1> QED BY <1>1, <1>2 DEF Saves

LEMMA SavesOfTail ==
    ASSUME NEW s \in Seq(Events), s # <<>>
    PROVE  /\ Saves(Tail(s)) \subseteq Saves(s)
           /\ s[1].kind = "Finished" => s[1].fp \in Saves(s)
<1>1. /\ Len(Tail(s)) \in Nat /\ Len(s) = Len(Tail(s)) + 1
      /\ \A i \in 1..Len(Tail(s)) : Tail(s)[i] = s[i + 1]
      BY TailOf
<1>2. 1 \in 1..Len(s) /\ \A i \in 1..Len(Tail(s)) : i + 1 \in 1..Len(s)
      BY <1>1
<1> QED BY <1>1, <1>2 DEF Saves

LEMMA PastStep ==
    ASSUME ~TreesReturn, TypeInv, PastInv, [Next]_vars
    PROVE  PastInv'
<1> USE DEF worker, stick, dbVars, mainThread, bounds
<1>1. events \in Seq(Events) /\ queue \in Seq(Events) /\ Stream \in Seq(Events)
      BY DEF MainOK, Stream
<1>2. CASE Worker
  <2>1. UNCHANGED <<disk, savedFp, past, events>>
        BY <1>2 DEF Worker, TakeRequest, checkForChanges, ReadHierarchy, VisitGame, TakeFingerprint, EndScan
  <2>2. wpc' = "finish" => fp' \in past
        BY <1>2 DEF Worker, TakeRequest, checkForChanges, ReadHierarchy, VisitGame, TakeFingerprint, EndScan,
                    PastInv
  <2>3. Saves(Stream') \subseteq past
    <3>1. CASE queue' = queue
          BY <2>1, <3>1 DEF Stream, PastInv
    <3>2. ASSUME NEW x \in Events, queue' = Append(queue, x), x.kind = "Finished" => x.fp \in past
          PROVE  Saves(Stream') \subseteq past
      <4>1. Stream' = Append(Stream, x)
            BY <1>1, <2>1, <3>2, StreamAppend
      <4> QED BY <1>1, <3>2, <4>1, SavesOfAppend DEF PastInv
    <3>3. CASE ReadHierarchy
      <4>1. Started(GamesIn(disk)) \in Events /\ Started(GamesIn(disk)).kind # "Finished"
            BY DEF GamesIn, Started, Events
      <4> QED BY <3>2, <3>3, <4>1 DEF ReadHierarchy
    <3>4. ASSUME NEW p \in Paths, VisitGame(p) PROVE Saves(Stream') \subseteq past
      <4>1. disk[p] \in Discs => /\ Verified(p, disk[p]) \in Events /\ Verified(p, disk[p]).kind # "Finished"
                                 /\ Failed(p) \in Events /\ Failed(p).kind # "Finished"
            BY DEF Verified, Failed, Events
      <4> QED BY <3>1, <3>2, <3>4, <4>1, ScanLibraryAssumption DEF VisitGame
    <3>5. CASE EndScan
      <4>1. Finished(hier, failed, fp) \in Events /\ Finished(hier, failed, fp).fp = fp
            BY <3>5 DEF EndScan, Finished, Events, WorkerOK, Phases
      <4> QED BY <3>2, <3>5, <4>1 DEF EndScan, PastInv
    <3> QED BY <1>2, <3>1, <3>3, <3>4, <3>5 DEF Worker, TakeRequest, checkForChanges, TakeFingerprint
  <2> QED BY <2>1, <2>2, <2>3 DEF PastInv
<1>3. CASE MainThread
  <2>1. UNCHANGED <<disk, past, wpc, fp>>
        BY <1>3 DEF MainThread, BeginPoll, DeleteUnclaimedVanished, ApplyScanStarted, ApplyVerifiedGame,
                    ReplaceDiscs, ApplyFailedVerify, ApplyFinished, SaveFingerprint, EndPoll
  <2>2. CASE BeginPoll
    <3>1. Stream' = Stream
          BY <2>2, <1>1 DEF BeginPoll, Stream, Phases
    <3> QED BY <2>1, <2>2, <3>1 DEF BeginPoll, PastInv
  <2>3. CASE UNCHANGED <<events, queue, savedFp>>
        BY <2>1, <2>3 DEF PastInv, Stream
  <2>4. CASE events # <<>> /\ Handled /\ UNCHANGED queue
             /\ (savedFp' = savedFp \/ (Head(events).kind = "Finished" /\ savedFp' = Head(events).fp))
    <3>1. Stream # <<>> /\ Head(Stream) = Head(events) /\ Stream' = Tail(Stream)
          BY <1>1, <2>4, StreamTail
    <3>2. Head(Stream) = Stream[1]
          BY <1>1, <3>1, TailOf
    <3>3. Saves(Stream') \subseteq past /\ savedFp' \in past \cup {NoTree}
          BY <1>1, <2>4, <3>1, <3>2, SavesOfTail DEF PastInv
    <3> QED BY <2>1, <3>3 DEF PastInv
  <2>5. CASE ReplaceDiscs \/ ApplyFailedVerify \/ ApplyScanStarted
    <3>1. CASE ReplaceDiscs
          BY <2>4, <3>1 DEF ReplaceDiscs, Phases
    <3>2. CASE ApplyFailedVerify
          BY <2>4, <3>2 DEF ApplyFailedVerify, Handling
    <3>3. CASE ApplyScanStarted
          BY <2>4, <3>3 DEF ApplyScanStarted, Handling
    <3> QED BY <2>5, <3>1, <3>2, <3>3
  <2>6. CASE SaveFingerprint
        BY <2>4, <2>6 DEF SaveFingerprint, Phases
  <2>7. CASE (\E v \in vanished : DeleteUnclaimedVanished(v)) \/ ApplyVerifiedGame \/ ApplyFinished \/ EndPoll
        BY <2>3, <2>7 DEF DeleteUnclaimedVanished, ApplyVerifiedGame, ApplyFinished, EndPoll
  <2> QED BY <1>3, <2>2, <2>5, <2>6, <2>7 DEF MainThread
<1>4. CASE PowerCut
  <2>1. Stream' = <<>> /\ Saves(<<>>) = {}
        BY <1>4 DEF PowerCut, Stream, Saves
  <2> QED BY <1>4, <2>1 DEF PowerCut, PastInv
<1>5. CASE Boot \/ requestScan \/ UNCHANGED vars
      BY <1>5 DEF Boot, requestScan, vars, PastInv, Stream
<1>6. CASE EditGames
  <2>1. past' = past \cup {disk'} /\ UNCHANGED <<savedFp, wpc, fp, events, queue>>
        BY <1>6 DEF EditGames
  <2> QED BY <2>1 DEF PastInv, Stream
<1> QED BY <1>2, <1>3, <1>4, <1>5, <1>6 DEF Next

LEMMA FoundStep ==
    ASSUME ~EditsDuringScan, ~TreesReturn, TypeInv, PastInv, FoundInv, [Next]_vars
    PROVE  FoundInv'
<1> USE DEF worker, stick, dbVars, mainThread, bounds
<1>1. Refused(disk) \subseteq GamesIn(disk)
      BY ScanLibraryAssumption DEF Refused, GamesIn
<1>2. CASE ReadHierarchy
      BY <1>1, <1>2 DEF ReadHierarchy, FoundInv
<1>3. ASSUME NEW p \in Paths, VisitGame(p) PROVE FoundInv'
  <2>1. disk[p] # NoGame /\ wpc = "visit" /\ wpc' = "visit" /\ todo' = todo \ {p} /\ disk' = disk /\ p \in todo
        BY <1>3 DEF VisitGame, FoundInv, GamesIn
  <2>2. CASE disk[p] \in Verifying /\ UNCHANGED <<hier, failed>>
    <3>1. p \notin Refused(disk)
          BY <2>2 DEF Refused
    <3> QED BY <2>1, <2>2, <3>1 DEF FoundInv
  <2>3. CASE disk[p] \in Discs \ Verifying /\ failed' = failed \cup {p} /\ hier' = hier \ {p}
    <3>1. p \in Refused(disk)
          BY <2>3 DEF Refused
    <3> QED BY <2>1, <2>3, <3>1 DEF FoundInv
  <2> QED BY <1>3, <2>1, <2>2, <2>3 DEF VisitGame
<1>4. CASE TakeFingerprint
      BY <1>4 DEF TakeFingerprint, FoundInv
<1>5. CASE EditGames
  <2>1. wpc # "visit" /\ disk' \notin past /\ UNCHANGED <<wpc, todo, failed, hier, fp>>
        BY <1>5 DEF EditGames, MidScan
  <2> QED BY <2>1 DEF FoundInv, PastInv
<1>6. CASE EndScan \/ PowerCut \/ Boot \/ TakeRequest \/ checkForChanges
      BY <1>6 DEF EndScan, PowerCut, Boot, TakeRequest, checkForChanges, FoundInv
<1>7. CASE MainThread \/ requestScan \/ UNCHANGED vars
  <2>1. UNCHANGED <<disk, wpc, todo, failed, hier, fp>>
        BY <1>7 DEF MainThread, BeginPoll, DeleteUnclaimedVanished, ApplyScanStarted, ApplyVerifiedGame,
                    ReplaceDiscs, ApplyFailedVerify, ApplyFinished, SaveFingerprint, EndPoll, requestScan, vars
  <2> QED BY <2>1 DEF FoundInv
<1> QED BY <1>2, <1>3, <1>4, <1>5, <1>6, <1>7 DEF Next, Worker

LEMMA HandStep == TypeInv /\ HandInv /\ [Next]_vars => HandInv'
<1> SUFFICES ASSUME TypeInv, HandInv, [Next]_vars PROVE HandInv'
    OBVIOUS
<1> USE DEF worker, stick, dbVars, mainThread, bounds
<1>1. CASE ApplyVerifiedGame
  <2>1. mpc' = "discs" /\ events' = events
        BY <1>1 DEF ApplyVerifiedGame
  <2>2. \E id \in DOMAIN db' : db'[id].path = Head(events).path
    <3>1. ASSUME NEW id \in RowsAt(Head(events).path), UNCHANGED db
          PROVE  \E i \in DOMAIN db' : db'[i].path = Head(events).path
          BY <3>1 DEF RowsAt
    <3>2. ASSUME NEW id, NEW d, db' = WithRow(id, [path |-> Head(events).path, discs |-> d])
          PROVE  \E i \in DOMAIN db' : db'[i].path = Head(events).path
          BY <3>2 DEF WithRow
    <3> QED BY <1>1, <3>1, <3>2 DEF ApplyVerifiedGame
  <2> QED BY <2>1, <2>2 DEF HandInv, RowsAt
<1>2. CASE ApplyFinished
      BY <1>2 DEF ApplyFinished, HandInv
<1>3. CASE mpc' \notin {"discs", "save"}
      BY <1>3 DEF HandInv
<1>4. CASE UNCHANGED <<mpc, events, db, shown, failures>>
      BY <1>4 DEF HandInv, RowsAt
<1> QED BY <1>1, <1>2, <1>3, <1>4
        DEF Next, Worker, TakeRequest, checkForChanges, ReadHierarchy, VisitGame, TakeFingerprint, EndScan,
            MainThread, BeginPoll, DeleteUnclaimedVanished, ApplyScanStarted, Handling,
            ReplaceDiscs, ApplyFailedVerify, SaveFingerprint, EndPoll,
            requestScan, Boot, PowerCut, EditGames, vars

-----------------------------------------------------------------------------
(* The library while a scan of the folder as it is is applied: a folder is *)
(* either still to be mentioned, or as it should be; a row is of a folder  *)
(* found, or kept aside.                                                   *)

Underway(s, scanning) == IF s = <<>> THEN scanning ELSE s[1].kind # "ScanStarted"

Settled(p) ==
    IF disk[p] \in Verifying THEN \E i \in DOMAIN db : db[i].path = p /\ db[i].discs = disk[p]
    ELSE RowsAt(p) = {}

RowsSettling ==
    /\ \A i \in DOMAIN db : db[i].path \in GamesIn(disk) \/ \E v \in vanished : v.id = i
    /\ \A v \in vanished : db[v.id].path \notin GamesIn(disk)

Settling ==
    /\ \A p \in GamesIn(disk) : Pending(Stream, Scanning, todo, 0, p) \/ Settled(p)
    /\ RowsSettling

(* From event m on the scans are of the folder as it is.                   *)
TurnedAt(m) ==
    /\ Turned(Stream, Scanning, todo, disk, m)
    /\ wpc = "finish" => fp = disk
    /\ m # 1 => savedFp # disk
    /\ m = 1 /\ Underway(Stream, Scanning) => Settling
    /\ m = 1 /\ savedFp = disk => LibraryOf(disk) /\ vanished = {}

(* The folder changed once the fingerprint was taken: no scan is of it.    *)
TurnedLate ==
    wpc = "finish" /\ fp # disk /\ savedFp # disk /\ disk \notin Saves(Stream)

TreeInv == TurnedLate \/ \E m \in Nat : TurnedAt(m)

(* Nothing that TurnedAt speaks of changes.                                *)
LEMMA SameTurned ==
    ASSUME NEW m, TurnedAt(m), Stream' = Stream, Scanning' = Scanning,
           UNCHANGED <<stick, todo, vanished>>, wpc' = "finish" => fp' = disk
    PROVE  TurnedAt(m)'
<1>1. UNCHANGED <<db, shown, failures, savedFp, disk>>
      BY DEF stick
<1>2. Settling' = Settling
      BY <1>1 DEF Settling, RowsSettling, Settled, RowsAt
<1>3. LibraryOf(disk)' = LibraryOf(disk)
      BY <1>1 DEF LibraryOf
<1> QED BY <1>1, <1>2, <1>3 DEF TurnedAt

(* The worker reports what it sees of the folder as it is.                 *)
LEMMA AppendedTurned ==
    ASSUME TypeInv, NEW m, TurnedAt(m), NEW x \in Events, Agrees(x, disk),
           queue' = Append(queue, x), UNCHANGED <<events, stick, vanished>>,
           Adds(x, Scanning, todo, disk, Scanning', todo'),
           x.kind # "ScanStarted" => Scanning,
           wpc' # "finish"
    PROVE  TurnedAt(m)'
<1>1. UNCHANGED <<db, shown, failures, savedFp, disk>>
      BY DEF stick
<1>2. /\ Stream \in Seq(Events) /\ Stream' = Append(Stream, x)
      /\ Scanning \in BOOLEAN /\ Scanning' \in BOOLEAN
      BY StreamAppend DEF MainOK, Scanning
<1>3. Turned(Stream', Scanning', todo', disk, m)
      BY <1>2, AppendKeepsTurned DEF TurnedAt
<1>4. Underway(Stream', Scanning') => Underway(Stream, Scanning)
  <2>1. CASE Stream = <<>>
    <3>1. Append(<<>>, x) # <<>> /\ Append(<<>>, x)[1] = x
          OBVIOUS
    <3> QED BY <1>2, <2>1, <3>1 DEF Underway
  <2>2. CASE Stream # <<>>
    <3>1. Append(Stream, x) # <<>> /\ Append(Stream, x)[1] = Stream[1]
          BY <1>2, <2>2
    <3> QED BY <1>2, <2>2, <3>1 DEF Underway
  <2> QED BY <2>1, <2>2
<1>5. Settling => Settling'
  <2>1. ASSUME NEW p, Pending(Stream, Scanning, todo, 0, p) PROVE Pending(Stream', Scanning', todo', 0, p)
    <3>1. 0 \in 0..Len(Stream)
          BY <1>2
    <3> QED BY <1>2, <2>1, <3>1, AppendKeepsPending
  <2>2. RowsSettling' = RowsSettling /\ \A p \in GamesIn(disk) : Settled(p)' = Settled(p)
        BY <1>1 DEF RowsSettling, Settled, RowsAt
  <2> QED BY <1>1, <2>1, <2>2 DEF Settling
<1>6. LibraryOf(disk)' = LibraryOf(disk)
      BY <1>1 DEF LibraryOf
<1> QED BY <1>1, <1>3, <1>4, <1>5, <1>6 DEF TurnedAt

LEMMA WorkerKeepsTree ==
    ASSUME TypeInv, FoundInv, TreeInv, Worker
    PROVE  TreeInv'
<1> USE DEF stick, dbVars, mainThread
<1>1. events \in Seq(Events) /\ queue \in Seq(Events) /\ Stream \in Seq(Events)
      BY DEF MainOK, Stream
<1>2. UNCHANGED <<stick, events, vanished>>
      BY DEF Worker, TakeRequest, checkForChanges, ReadHierarchy, VisitGame, TakeFingerprint, EndScan
<1>3. CASE TurnedLate
  <2>1. EndScan
        BY <1>3 DEF TurnedLate, Worker, TakeRequest, checkForChanges, ReadHierarchy, VisitGame, TakeFingerprint
  <2> DEFINE x == Finished(hier, failed, fp)
  <2>2. x \in Events /\ x.kind = "Finished" /\ x.fp = fp
        BY <2>1 DEF EndScan, Finished, Events, WorkerOK, Phases
  <2>3. Stream' = Append(Stream, x)
        BY <1>1, <1>2, <2>1, <2>2, StreamAppend DEF EndScan
  <2> HIDE DEF x
  <2>4. /\ Len(Stream') = Len(Stream) + 1 /\ Len(Stream) \in Nat /\ Stream'[Len(Stream) + 1] = x
        BY <1>1, <2>3
  <2>5. disk \notin Saves(Stream')
        BY <1>1, <1>3, <2>2, <2>3, SavesOfAppend DEF TurnedLate
  <2> PICK m \in Nat : m = Len(Stream) + 2
      BY <1>1
  <2>6. Turned(Stream', Scanning', todo', disk, m)
    <3>1. m \in 1..(Len(Stream') + 1) /\ m - 1 = Len(Stream) + 1 /\ m..Len(Stream') = {}
          BY <2>4
    <3>2. \A j \in 1..Len(Stream') : Stream'[j].kind = "Finished" => Stream'[j].fp # disk
          BY <2>5 DEF Saves
    <3>3. m - 1 = Len(Stream')
          BY <2>4
    <3> QED BY <2>2, <2>4, <3>1, <3>2, <3>3 DEF Turned
  <2>7. m # 1 /\ wpc' # "finish"
        BY <2>1, <2>4 DEF EndScan
  <2>8. TurnedAt(m)'
        BY <1>2, <1>3, <2>6, <2>7 DEF TurnedAt, TurnedLate
  <2> QED BY <2>8 DEF TreeInv
<1>4. ASSUME NEW m \in Nat, TurnedAt(m) PROVE TreeInv'
  <2> SUFFICES TurnedAt(m)'
      BY DEF TreeInv
  <2>1. CASE TakeRequest \/ checkForChanges \/ TakeFingerprint
    <3>1. Stream' = Stream /\ Scanning' = Scanning /\ todo' = todo /\ (wpc' = "finish" => fp' = disk)
          BY <2>1 DEF TakeRequest, checkForChanges, TakeFingerprint, Stream, Scanning
    <3> QED BY <1>2, <1>4, <3>1, SameTurned
  <2>2. CASE ReadHierarchy
    <3> DEFINE x == Started(GamesIn(disk))
    <3>1. x \in Events /\ x.kind = "ScanStarted" /\ x.paths = GamesIn(disk)
          BY DEF GamesIn, Started, Events
    <3>2. queue' = Append(queue, x) /\ wpc' = "visit" /\ todo' = GamesIn(disk) /\ Scanning = FALSE /\ Scanning' = TRUE
          BY <2>2 DEF ReadHierarchy, Scanning
    <3> HIDE DEF x
    <3>3. Agrees(x, disk) /\ Adds(x, Scanning, todo, disk, Scanning', todo')
          BY <3>1, <3>2 DEF Agrees, Adds
    <3> QED BY <1>2, <1>4, <3>1, <3>2, <3>3, AppendedTurned
  <2>3. ASSUME NEW p \in Paths, VisitGame(p) PROVE TurnedAt(m)'
    <3>1. /\ disk[p] # NoGame /\ p \in todo /\ todo' = todo \ {p} /\ wpc' = "visit"
          /\ Scanning = TRUE /\ Scanning' = TRUE
          BY <2>3 DEF VisitGame, FoundInv, GamesIn, Scanning
    <3>2. ASSUME NEW x \in Events, Looks(x), x.path = p, Agrees(x, disk), queue' = Append(queue, x)
          PROVE  TurnedAt(m)'
      <4>1. Adds(x, Scanning, todo, disk, Scanning', todo')
            BY <3>1, <3>2 DEF Adds
      <4> QED BY <1>2, <1>4, <3>1, <3>2, <4>1, AppendedTurned
    <3>3. disk[p] \in Verifying =>
             Verified(p, disk[p]) \in Events /\ Looks(Verified(p, disk[p])) /\ Agrees(Verified(p, disk[p]), disk)
             /\ Verified(p, disk[p]).path = p
          BY ScanLibraryAssumption DEF Verified, Events, Looks, Agrees
    <3>4. disk[p] \in Discs \ Verifying =>
             Failed(p) \in Events /\ Looks(Failed(p)) /\ Agrees(Failed(p), disk) /\ Failed(p).path = p
          BY DEF Failed, Events, Looks, Agrees
    <3> QED BY <2>3, <3>1, <3>2, <3>3, <3>4 DEF VisitGame
  <2>4. CASE EndScan
    <3> DEFINE x == Finished(hier, failed, fp)
    <3>1. x \in Events /\ x.kind = "Finished" /\ x.fp = fp /\ x.hier = hier /\ x.failed = failed
          BY <2>4 DEF EndScan, Finished, Events, WorkerOK, Phases
    <3>2. queue' = Append(queue, x) /\ wpc' = "idle" /\ Scanning = TRUE
          BY <2>4 DEF EndScan, Scanning
    <3>3. todo = {} /\ fp = disk /\ failed = Refused(disk) /\ hier = GamesIn(disk) \ failed
          BY <1>4, <2>4 DEF EndScan, FoundInv, TurnedAt
    <3> HIDE DEF x
    <3>4. Agrees(x, disk) /\ Adds(x, Scanning, todo, disk, Scanning', todo')
          BY <3>1, <3>3 DEF Agrees, Adds
    <3> QED BY <1>2, <1>4, <3>1, <3>2, <3>4, AppendedTurned
  <2> QED BY <2>1, <2>2, <2>3, <2>4 DEF Worker
<1> QED BY <1>3, <1>4 DEF TreeInv

(* Starts, cuts and edits.                                                 *)
LEMMA EditKeepsTree ==
    ASSUME ~EditsDuringScan, ~TreesReturn, TypeInv, StreamInv, PastInv, EditGames
    PROVE  TreeInv'
<1>1. /\ disk' \in Trees /\ disk' \notin past /\ wpc # "visit"
      /\ UNCHANGED <<savedFp, wpc, fp, events, queue>>
      BY EditKeepsTypes DEF EditGames, MidScan, StickOK, worker, mainThread
<1>2. disk' # NoTree
      BY <1>1, ScanLibraryAssumption DEF Trees, Paths
<1>3. savedFp' # disk' /\ disk' \notin Saves(Stream) /\ Stream' = Stream /\ Stream \in Seq(Events)
      BY <1>1, <1>2 DEF PastInv, Stream, MainOK
<1>4. CASE wpc = "finish"
      BY <1>1, <1>3, <1>4 DEF TreeInv, TurnedLate, PastInv
<1>5. CASE wpc # "finish"
  <2> PICK m \in Nat : m = Len(Stream) + 1
      BY <1>3
  <2>1. Scanning = FALSE /\ Scanning' = FALSE
        BY <1>1, <1>5 DEF Scanning
  <2>2. m..Len(Stream) = {} /\ m \in 1..m /\ m - 1 = Len(Stream) /\ (m = 1 => Stream = <<>>)
        BY <1>3
  <2>3. m # 1 => Stream[m - 1].kind = "Finished"
        BY <2>1, <2>2 DEF StreamInv, WellFormed, InOrder
  <2>4. \A j \in 1..(m - 1) : Stream[j].kind = "Finished" => Stream[j].fp # disk'
        BY <1>3, <2>2 DEF Saves
  <2>5. Turned(Stream, FALSE, todo', disk', m)
        BY <2>2, <2>3, <2>4 DEF Turned
  <2>6. m = 1 => ~Underway(Stream, FALSE)
        BY <2>2 DEF Underway
  <2>7. TurnedAt(m)'
        BY <1>1, <1>3, <1>5, <2>1, <2>5, <2>6 DEF TurnedAt
  <2> QED BY <2>7 DEF TreeInv
<1> QED BY <1>4, <1>5

LEMMA StopKeepsTree ==
    ASSUME TypeInv, TreeInv, PowerCut
    PROVE  TreeInv'
<1>1. /\ Stream' = <<>> /\ Scanning' = FALSE /\ vanished' = {} /\ wpc' = "off"
      /\ UNCHANGED <<disk, db, shown, failures, savedFp>>
      BY DEF PowerCut, Stream, Scanning, stick
<1>2. savedFp = disk => LibraryOf(disk)
      BY DEF TreeInv, TurnedLate, TurnedAt
<1>3. LibraryOf(disk)' = LibraryOf(disk)
      BY <1>1 DEF LibraryOf
<1>4. Turned(<<>>, FALSE, todo', disk, 1)
      BY DEF Turned
<1>5. ~Underway(<<>>, FALSE)
      BY DEF Underway
<1>6. TurnedAt(1)'
      BY <1>1, <1>2, <1>3, <1>4, <1>5 DEF TurnedAt
<1> QED BY <1>6 DEF TreeInv

(* Between two scans nothing is under way.                                 *)
LEMMA AfterFinished ==
    ASSUME NEW s \in Seq(Events), s # <<>>, NEW scanning \in BOOLEAN, NEW aside,
           InOrder(s, scanning, aside), s[1].kind = "Finished", NEW left, NEW p
    PROVE  ~Underway(Tail(s), scanning) /\ ~Pending(s, scanning, left, 0, p)
<1>1. /\ Len(Tail(s)) \in Nat /\ Len(s) = Len(Tail(s)) + 1
      /\ \A i \in 1..Len(Tail(s)) : Tail(s)[i] = s[i + 1]
      /\ Tail(s) = <<>> <=> Len(Tail(s)) = 0
      BY TailOf
<1>2. CASE Len(s) = 1
  <2>1. ~scanning
        BY <1>2 DEF InOrder
  <2>2. \A k \in 1..Len(s) : ~Looks(s[k])
        BY <1>2 DEF Looks
  <2>3. Tail(s) = <<>>
    <3> DEFINE n == Len(Tail(s))
    <3>1. n \in Nat /\ Len(s) = n + 1
          BY <1>1
    <3> HIDE DEF n
    <3>2. n = 0
          BY <1>2, <3>1
    <3> QED BY <1>1, <3>2 DEF n
  <2> QED BY <2>1, <2>2, <2>3 DEF Underway, Pending
<1>3. CASE Len(s) # 1
  <2>1. 2 \in 2..Len(s) /\ 2 - 1 = 1 /\ 1 \in 1..Len(Tail(s)) /\ 1 + 1 = 2
        BY <1>1, <1>3
  <2>2. s[2].kind = "ScanStarted" /\ Tail(s)[1] = s[2]
        BY <1>1, <2>1 DEF InOrder
  <2>3. \A k \in 1..Len(s) : SameScan(s, 0, k) => k = 1
        BY <1>1, <2>2 DEF SameScan
  <2>4. \A k \in 1..Len(s) : SameScan(s, 0, k) => ~Looks(s[k])
        BY <2>3 DEF Looks
  <2>5. ~SameScan(s, 0, Len(s))
        BY <1>1, <1>3, <2>3
  <2> QED BY <1>1, <2>1, <2>2, <2>4, <2>5 DEF Underway, Pending
<1> QED BY <1>2, <1>3

(* The rows of poll()'s writes, while a scan is applied.                   *)
LEMMA DeletedKeepsSettling ==
    ASSUME RowsSettling, RowsAside, NEW id \in DOMAIN db, db' = Without(id), disk' = disk,
           NEW gone \in SUBSET vanished, vanished' = vanished \ gone,
           \A v \in vanished' : v.id # id, \A v \in gone : v.id = id
    PROVE  /\ RowsSettling'
           /\ \A p : db[id].path # p /\ Settled(p) => Settled(p)'
<1>1. DOMAIN db' = DOMAIN db \ {id} /\ \A i \in DOMAIN db' : db'[i] = db[i]
      BY DEF Without
<1>2. RowsSettling'
      BY <1>1 DEF RowsSettling, GamesIn, RowsAside, VanishedAreTheirRows
<1> QED BY <1>1, <1>2 DEF Settled, RowsAt

LEMMA WrittenKeepsSettling ==
    ASSUME RowsSettling, RowsAside, NEW id, NEW r, r.path \in GamesIn(disk), db' = WithRow(id, r), disk' = disk,
           NEW gone \in SUBSET vanished, vanished' = vanished \ gone,
           \A v \in vanished' : v.id # id, \A v \in gone : v.id = id,
           id \in DOMAIN db => \E v \in vanished : v.id = id
    PROVE  /\ RowsSettling'
           /\ \A p \in GamesIn(disk) : r.path # p /\ Settled(p) => Settled(p)'
<1>1. /\ DOMAIN db' = DOMAIN db \cup {id} /\ db'[id] = r
      /\ \A i \in DOMAIN db \ {id} : db'[i] = db[i]
      BY DEF WithRow
<1>2. RowsSettling'
      BY <1>1 DEF RowsSettling, GamesIn, RowsAside, VanishedAreTheirRows
<1>3. id \in DOMAIN db => db[id].path \notin GamesIn(disk)
      BY DEF RowsSettling
<1> QED BY <1>1, <1>2, <1>3 DEF Settled, RowsAt

(* A library that is the folder already has no row to insert, to move, to  *)
(* change or to delete.                                                    *)
LEMMA LibraryRows ==
    ASSUME LibraryOf(disk)
    PROVE  /\ \A i \in DOMAIN db : /\ db[i].path \in Paths /\ disk[db[i].path] \in Verifying
                                   /\ db[i] = [path |-> db[i].path, discs |-> disk[db[i].path]]
           /\ \A p \in Paths : disk[p] \in Verifying => RowsAt(p) # {}
           /\ \A i \in DOMAIN db : db[i].path \in GamesIn(disk) /\ db[i].path \notin Refused(disk)
<1>1. \A i \in DOMAIN db : db[i] \in Playable(disk)
      BY DEF LibraryOf
<1>2. \A r \in Playable(disk) : r.path \in Paths /\ disk[r.path] \in Verifying
                                 /\ r = [path |-> r.path, discs |-> disk[r.path]]
      BY DEF Playable
<1>3. \A p \in Paths : disk[p] \in Verifying => RowsAt(p) # {}
  <2> SUFFICES ASSUME NEW p \in Paths, disk[p] \in Verifying PROVE RowsAt(p) # {}
      OBVIOUS
  <2>1. [path |-> p, discs |-> disk[p]] \in Playable(disk)
        BY DEF Playable
  <2>2. PICK i \in DOMAIN db : db[i] = [path |-> p, discs |-> disk[p]]
        BY <2>1 DEF LibraryOf
  <2> QED BY <2>2 DEF RowsAt
<1>4. \A i \in DOMAIN db : db[i].path \in Paths /\ disk[db[i].path] \in Verifying
                            /\ db[i] = [path |-> db[i].path, discs |-> disk[db[i].path]]
      BY <1>1, <1>2
<1> QED BY <1>3, <1>4, ScanLibraryAssumption DEF GamesIn, Refused

(* poll() takes an event and leaves it where it is.                        *)
LEMMA UnhandledTurned ==
    ASSUME TypeInv, NEW m, TurnedAt(m), Stream' = Stream, UNCHANGED <<disk, savedFp, wpc, fp, todo>>,
           m = 1 /\ Underway(Stream, Scanning) /\ Settling => RowsSettling',
           m = 1 /\ Underway(Stream, Scanning) /\ Settling =>
               \A p \in GamesIn(disk) :
                  Pending(Stream, Scanning, todo, 0, p) \/ Settled(p)',
           m = 1 /\ LibraryOf(disk) /\ vanished = {} => LibraryOf(disk)' /\ vanished' = {}
    PROVE  TurnedAt(m)'
<1>1. Scanning' = Scanning
      BY DEF Scanning
<1>2. m = 1 /\ Underway(Stream, Scanning) => Settling'
      BY <1>1 DEF TurnedAt, Settling
<1> QED BY <1>1, <1>2 DEF TurnedAt

(* poll() takes an event and is done with it.                              *)
LEMMA HandledTurned ==
    ASSUME TypeInv, StreamInv, NEW m \in Nat, TurnedAt(m), events # <<>>, Handled,
           UNCHANGED <<disk, wpc, fp, todo, queue>>,
           \/ savedFp' = savedFp
           \/ Head(events).kind = "Finished" /\ savedFp' = Head(events).fp,
           m = 1 /\ Underway(Tail(Stream), Scanning) => RowsSettling',
           m = 1 /\ Underway(Tail(Stream), Scanning) =>
               \A p \in GamesIn(disk) : Pending(Tail(Stream), Scanning, todo, 0, p) \/ Settled(p)',
           m = 1 /\ savedFp' = disk => LibraryOf(disk)' /\ vanished' = {}
    PROVE  \E l \in Nat : TurnedAt(l)'
<1>1. /\ Stream \in Seq(Events) /\ Stream # <<>> /\ Head(Stream) = Head(events)
      /\ Stream' = Tail(Stream) /\ Scanning \in BOOLEAN /\ Scanning' = Scanning
      BY StreamTail DEF MainOK, Scanning
<1>2. Head(events) = Stream[1]
      BY <1>1, TailOf
<1>3. CASE m = 1
  <2>1. Turned(Stream', Scanning, todo, disk, 1)
        BY <1>1, <1>3, TailKeepsTurned DEF TurnedAt
  <2>2. Underway(Stream', Scanning) => Settling'
        BY <1>1, <1>3 DEF Settling
  <2>3. TurnedAt(1)'
        BY <1>1, <1>3, <2>1, <2>2 DEF TurnedAt
  <2> QED BY <2>3
<1>4. CASE m # 1
  <2> PICK l \in Nat : m = l + 1
    <3>1. m \in 1..(Len(Stream) + 1)
          BY DEF TurnedAt, Turned
    <3>2. m - 1 \in Nat /\ m = (m - 1) + 1
          BY <3>1
    <3> QED BY <3>2
  <2>1. Turned(Stream', Scanning, todo, disk, l)
        BY <1>1, <1>4, TailKeepsTurned DEF TurnedAt
  <2>2. savedFp' # disk
    <3>1. 1 \in 1..(m - 1)
          BY <1>4 DEF TurnedAt, Turned
    <3> QED BY <1>2, <1>4, <3>1 DEF TurnedAt, Turned
  <2>3. l = 1 => ~Underway(Stream', Scanning)
    <3>1. l = 1 => Stream[1].kind = "Finished"
          BY DEF TurnedAt, Turned
    <3> QED BY <1>1, <3>1, AfterFinished DEF StreamInv, WellFormed
  <2>4. TurnedAt(l)'
        BY <1>1, <1>4, <2>1, <2>2, <2>3 DEF TurnedAt
  <2> QED BY <2>4
<1> QED BY <1>3, <1>4

(* Before it comes to its turn, a late fingerprint is of no event.         *)
LEMMA PollKeepsLate ==
    ASSUME TypeInv, TurnedLate, MainThread
    PROVE  TurnedLate'
<1> USE DEF worker, stick, dbVars, mainThread
<1>1. events \in Seq(Events) /\ queue \in Seq(Events) /\ Stream \in Seq(Events)
      BY DEF MainOK, Stream
<1>2. UNCHANGED <<disk, wpc, fp>>
      BY DEF MainThread, BeginPoll, DeleteUnclaimedVanished, ApplyScanStarted, ApplyVerifiedGame,
             ReplaceDiscs, ApplyFailedVerify, ApplyFinished, SaveFingerprint, EndPoll
<1>3. CASE Stream' = Stream /\ savedFp' = savedFp
      BY <1>2, <1>3 DEF TurnedLate
<1>4. CASE /\ events # <<>> /\ Handled /\ UNCHANGED queue
           /\ \/ savedFp' = savedFp
              \/ Head(events).kind = "Finished" /\ savedFp' = Head(events).fp
  <2>1. Stream # <<>> /\ Head(Stream) = Head(events) /\ Stream' = Tail(Stream)
        BY <1>1, <1>4, StreamTail
  <2>2. Head(Stream) = Stream[1]
        BY <1>1, <2>1, TailOf
  <2> QED BY <1>1, <1>2, <1>4, <2>1, <2>2, SavesOfTail DEF TurnedLate
<1>5. CASE BeginPoll
      BY <1>1, <1>3, <1>5 DEF BeginPoll, Stream, Phases
<1>6. CASE ReplaceDiscs
      BY <1>4, <1>6 DEF ReplaceDiscs, Phases
<1>7. CASE ApplyFailedVerify
      BY <1>4, <1>7 DEF ApplyFailedVerify, Handling
<1>8. CASE ApplyScanStarted
      BY <1>4, <1>8 DEF ApplyScanStarted, Handling
<1>9. CASE SaveFingerprint
      BY <1>4, <1>9 DEF SaveFingerprint, Phases
<1>10. CASE (\E v \in vanished : DeleteUnclaimedVanished(v)) \/ ApplyVerifiedGame \/ ApplyFinished \/ EndPoll
       BY <1>3, <1>10 DEF DeleteUnclaimedVanished, ApplyVerifiedGame, ApplyFinished, EndPoll, Stream
<1> QED BY <1>5, <1>6, <1>7, <1>8, <1>9, <1>10 DEF MainThread

(* What the event at the head says of a folder as it is.                   *)
LEMMA HeadAgrees ==
    ASSUME TypeInv, TurnedAt(1), events # <<>>
    PROVE  /\ Stream \in Seq(Events) /\ Stream # <<>> /\ Stream[1] = Head(events) /\ 1 \in 1..Len(Stream)
           /\ Head(Stream) = Head(events) /\ Scanning \in BOOLEAN
           /\ Agrees(Head(events), disk)
           /\ Head(events).kind = "ScanStarted" =>
                 \A p \in GamesIn(disk) : Pending(Stream, Scanning, todo, 1, p)
           /\ Head(events).kind # "ScanStarted" => Underway(Stream, Scanning) /\ Settling
<1>1. Stream \in Seq(Events) /\ Stream # <<>> /\ Head(Stream) = Head(events)
      BY DEF Stream, MainOK
<1>2. Stream[1] = Head(events) /\ 1 \in 1..Len(Stream) /\ Scanning \in BOOLEAN
      BY <1>1, TailOf DEF Scanning
<1>3. Agrees(Head(events), disk)
      BY <1>1, <1>2 DEF TurnedAt, Turned
<1>4. Head(events).kind = "ScanStarted" => \A p \in GamesIn(disk) : Pending(Stream, Scanning, todo, 1, p)
      BY <1>1, <1>2 DEF TurnedAt, Turned
<1>5. Head(events).kind # "ScanStarted" => Underway(Stream, Scanning) /\ Settling
      BY <1>1, <1>2 DEF TurnedAt, Underway
<1> QED BY <1>1, <1>2, <1>3, <1>4, <1>5

LEMMA StartKeepsTree ==
    ASSUME TypeInv, StreamInv, NEW m \in Nat, TurnedAt(m), ApplyScanStarted
    PROVE  \E l \in Nat : TurnedAt(l)'
<1>1. /\ events # <<>> /\ Head(events).kind = "ScanStarted" /\ Handled
      /\ UNCHANGED <<disk, db, shown, failures, savedFp, wpc, fp, todo, queue>>
      BY DEF ApplyScanStarted, Handling, worker, stick
<1>2. vanished' = {[id |-> i, name |-> NameOf(db[i].path), discs |-> db[i].discs] :
                      i \in MissingFrom(Head(events).paths)}
      BY DEF ApplyScanStarted
<1>3. ASSUME m = 1, NEW p \in GamesIn(disk) PROVE Pending(Tail(Stream), Scanning, todo, 0, p)
  <2>1. /\ Stream \in Seq(Events) /\ Stream # <<>> /\ Scanning \in BOOLEAN
        /\ Pending(Stream, Scanning, todo, 1, p) /\ ~Looks(Stream[1])
        BY <1>1, <1>3, HeadAgrees DEF Looks
  <2>2. 0 \in 0..Len(Tail(Stream)) /\ 0 + 1 = 1
        BY <2>1, TailOf
  <2> QED BY <2>1, <2>2, TailKeepsPending
<1>4. m = 1 => MissingFrom(Head(events).paths) = {i \in DOMAIN db : db[i].path \notin GamesIn(disk)}
      BY <1>1, HeadAgrees DEF Agrees, MissingFrom
<1>5. m = 1 => RowsSettling'
  <2> SUFFICES ASSUME m = 1 PROVE RowsSettling'
      OBVIOUS
  <2> DEFINE row(i) == [id |-> i, name |-> NameOf(db[i].path), discs |-> db[i].discs]
  <2>1. \A i : row(i).id = i
        OBVIOUS
  <2>2. vanished' = {row(i) : i \in {j \in DOMAIN db : db[j].path \notin GamesIn(disk)}}
        BY <1>2, <1>4
  <2>3. db' = db /\ GamesIn(disk)' = GamesIn(disk)
        BY <1>1 DEF GamesIn
  <2> HIDE DEF row
  <2>4. \A i \in DOMAIN db : db[i].path \in GamesIn(disk) \/ \E v \in vanished' : v.id = i
        BY <2>1, <2>2
  <2>5. \A v \in vanished' : db[v.id].path \notin GamesIn(disk)
        BY <2>1, <2>2
  <2> QED BY <2>3, <2>4, <2>5 DEF RowsSettling
<1>6. m = 1 /\ savedFp' = disk => LibraryOf(disk)' /\ vanished' = {}
  <2> SUFFICES ASSUME m = 1, savedFp = disk PROVE LibraryOf(disk)' /\ vanished' = {}
      BY <1>1
  <2>1. LibraryOf(disk)
        BY DEF TurnedAt
  <2>2. LibraryOf(disk)'
        BY <1>1, <2>1 DEF LibraryOf
  <2>3. MissingFrom(Head(events).paths) = {}
        BY <1>4, <2>1, LibraryRows
  <2> QED BY <1>2, <2>2, <2>3
<1> QED BY <1>1, <1>3, <1>5, <1>6, HandledTurned

LEMMA DeleteKeepsTree ==
    ASSUME TypeInv, StreamInv, NEW m \in Nat, TurnedAt(m), NEW v \in vanished, DeleteUnclaimedVanished(v)
    PROVE  TurnedAt(m)'
<1>1. /\ Stream' = Stream /\ UNCHANGED <<disk, savedFp, wpc, fp, todo>>
      /\ vanished' = vanished \ {v} /\ db' = Without(v.id)
      BY DEF DeleteUnclaimedVanished, deleteGame, Stream, worker
<1>2. RowsAside /\ v.id \in DOMAIN db
      BY DEF StreamInv, RowsAside, VanishedAreTheirRows
<1>3. \A w \in vanished' : w.id # v.id
      BY <1>1, <1>2 DEF RowsAside
<1>4. ASSUME Settling
      PROVE  /\ RowsSettling'
             /\ \A p \in GamesIn(disk) : Pending(Stream, Scanning, todo, 0, p) \/ Settled(p)'
  <2>1. {v} \in SUBSET vanished /\ db[v.id].path \notin GamesIn(disk)
        BY <1>4 DEF Settling, RowsSettling
  <2>2. RowsSettling' /\ \A p : db[v.id].path # p /\ Settled(p) => Settled(p)'
        BY <1>1, <1>2, <1>3, <1>4, <2>1, DeletedKeepsSettling DEF Settling
  <2> QED BY <1>4, <2>1, <2>2 DEF Settling
<1> QED BY <1>1, <1>4, UnhandledTurned

LEMMA VerifiedKeepsTree ==
    ASSUME TypeInv, StreamInv, NEW m \in Nat, TurnedAt(m), ApplyVerifiedGame
    PROVE  TurnedAt(m)'
<1> DEFINE e == Head(events)
<1>1. /\ Stream' = Stream /\ UNCHANGED <<disk, shown, failures, savedFp, wpc, fp, todo>>
      /\ events # <<>> /\ e.kind = "GameVerified"
      BY DEF ApplyVerifiedGame, Handling, Stream, worker
<1>2. RowsAside
      BY DEF StreamInv
<1>3. CASE m # 1
      BY <1>1, <1>3, UnhandledTurned
<1>4. CASE m = 1
  <2>1. /\ Stream[1] = e /\ 1 \in 1..Len(Stream)
        /\ e.discs = disk[e.path] /\ e.discs \in Verifying /\ e.path \in Paths /\ Settling
    <3>1. e \in Events
          BY <1>1, HeadOfEvents DEF MainOK
    <3> QED BY <1>1, <1>4, <3>1, HeadAgrees, EventKinds DEF Agrees
  <2>2. e.path \in GamesIn(disk) /\ Pending(Stream, Scanning, todo, 0, e.path)
    <3>1. SameScan(Stream, 0, 1) /\ Looks(Stream[1])
          BY <1>1, <2>1 DEF SameScan, Looks
    <3> QED BY <2>1, <3>1, ScanLibraryAssumption DEF GamesIn, Pending
  <2>3. LibraryOf(disk) => RowsAt(e.path) # {}
        BY <2>1, LibraryRows
  <2> HIDE DEF e
  <2>4. CASE UNCHANGED <<db, vanished>>
    <3>1. RowsSettling' /\ \A p \in GamesIn(disk) : Settled(p) => Settled(p)'
          BY <1>1, <2>1, <2>4 DEF Settling, RowsSettling, Settled, RowsAt
    <3>2. LibraryOf(disk)' = LibraryOf(disk)
          BY <1>1, <2>4 DEF LibraryOf
    <3> QED BY <1>1, <2>1, <2>4, <3>1, <3>2, UnhandledTurned DEF Settling
  <2>5. ASSUME RowsAt(e.path) = {}, NEW id, NEW d, db' = WithRow(id, [path |-> e.path, discs |-> d]),
               NEW gone \in SUBSET vanished, vanished' = vanished \ gone,
               \A v \in vanished' : v.id # id, \A v \in gone : v.id = id,
               id \in DOMAIN db => \E v \in vanished : v.id = id
        PROVE  TurnedAt(m)'
    <3>1. RowsSettling' /\ \A p \in GamesIn(disk) : e.path # p /\ Settled(p) => Settled(p)'
      <4> DEFINE r == [path |-> e.path, discs |-> d]
      <4>1. r.path = e.path /\ r.path \in GamesIn(disk) /\ db' = WithRow(id, r)
            BY <2>2, <2>5
      <4>2. RowsSettling
            BY <2>1 DEF Settling
      <4> HIDE DEF r
      <4>3. RowsSettling' /\ \A p \in GamesIn(disk) : r.path # p /\ Settled(p) => Settled(p)'
            BY <1>1, <1>2, <2>5, <4>1, <4>2, WrittenKeepsSettling
      <4> QED BY <4>1, <4>3
    <3> QED BY <1>1, <2>1, <2>2, <2>3, <2>5, <3>1, UnhandledTurned DEF Settling
  <2>6. ASSUME RowsAt(e.path) = {}, NEW v \in Claimable(e), db' = WithRow(v.id, [path |-> e.path, discs |-> v.discs]),
               vanished' = vanished \ {v}
        PROVE  TurnedAt(m)'
    <3>1. v \in vanished /\ {v} \in SUBSET vanished
          BY <2>6 DEF Claimable
    <3>2. \A w \in vanished' : w.id # v.id
          BY <1>2, <2>6, <3>1 DEF RowsAside
    <3> QED BY <2>5, <2>6, <3>1, <3>2
  <2>7. ASSUME RowsAt(e.path) = {}, db' = WithRow(NewId, [path |-> e.path, discs |-> NoGame]), UNCHANGED vanished
        PROVE  TurnedAt(m)'
    <3>1. NewId \notin DOMAIN db
          BY NewIdIsNew DEF StickOK
    <3>2. \A v \in vanished : v.id # NewId
          BY <1>2, <3>1 DEF RowsAside, VanishedAreTheirRows
    <3>3. {} \in SUBSET vanished /\ vanished' = vanished \ {}
          BY <2>7
    <3> QED BY <2>5, <2>7, <3>1, <3>2, <3>3
  <2> QED BY <2>4, <2>6, <2>7 DEF ApplyVerifiedGame, e
<1> QED BY <1>3, <1>4

LEMMA ReplaceKeepsTree ==
    ASSUME TypeInv, StreamInv, HandInv, NEW m \in Nat, TurnedAt(m), ReplaceDiscs
    PROVE  \E l \in Nat : TurnedAt(l)'
<1> DEFINE e == Head(events)
<1>1. /\ events # <<>> /\ e.kind = "GameVerified" /\ Handled /\ RowsAt(e.path) # {}
      /\ UNCHANGED <<disk, shown, failures, savedFp, wpc, fp, todo, queue, vanished>>
      BY DEF ReplaceDiscs, Phases, HandInv, worker
<1>2. /\ DOMAIN db' = DOMAIN db
      /\ \A i \in DOMAIN db : /\ db'[i].path = db[i].path
                              /\ db[i].path = e.path => db'[i].discs = e.discs
                              /\ db[i].path # e.path => db'[i] = db[i]
                              /\ db[i] = [path |-> e.path, discs |-> e.discs] => db'[i] = db[i]
  <2>1. \A i \in DOMAIN db : db[i] \in Rows
        BY DEF StickOK, IsTable
  <2>2. \A r \in Rows : /\ [r EXCEPT !.discs = e.discs].path = r.path
                        /\ [r EXCEPT !.discs = e.discs].discs = e.discs
                        /\ r = [path |-> e.path, discs |-> e.discs] => [r EXCEPT !.discs = e.discs] = r
        BY DEF Rows
  <2>3. /\ DOMAIN db' = DOMAIN db
        /\ \A i \in DOMAIN db : /\ db[i].path = e.path => db'[i] = [db[i] EXCEPT !.discs = e.discs]
                                /\ db[i].path # e.path => db'[i] = db[i]
        BY DEF ReplaceDiscs
  <2> HIDE DEF e
  <2> SUFFICES ASSUME NEW i \in DOMAIN db
               PROVE  /\ db'[i].path = db[i].path
                      /\ db[i].path = e.path => db'[i].discs = e.discs
                      /\ db[i].path # e.path => db'[i] = db[i]
                      /\ db[i] = [path |-> e.path, discs |-> e.discs] => db'[i] = db[i]
      BY <2>3
  <2>4. CASE db[i].path = e.path
    <3>1. db'[i] = [db[i] EXCEPT !.discs = e.discs] /\ db[i] \in Rows
          BY <2>1, <2>3, <2>4
    <3> QED BY <2>2, <2>4, <3>1
  <2>5. CASE db[i].path # e.path
    <3>1. db'[i] = db[i]
          BY <2>3, <2>5
    <3> QED BY <2>5, <3>1
  <2> QED BY <2>4, <2>5
<1>3. CASE m # 1
      BY <1>1, <1>3, HandledTurned
<1>4. CASE m = 1
  <2>1. /\ Stream \in Seq(Events) /\ Stream # <<>> /\ Stream[1] = e /\ Scanning \in BOOLEAN
        /\ e.discs = disk[e.path] /\ e.discs \in Verifying /\ Settling
        BY <1>1, <1>4, HeadAgrees DEF Agrees
  <2> HIDE DEF e
  <2> PICK q : q = e.path
      OBVIOUS
  <2>2. RowsSettling'
        BY <1>1, <1>2, <2>1 DEF Settling, RowsSettling, GamesIn, StreamInv, RowsAside, VanishedAreTheirRows
  <2>3. Settled(q)'
        BY <1>1, <1>2, <2>1 DEF Settled, RowsAt
  <2>4. \A p : p # q /\ Settled(p) => Settled(p)'
        BY <1>1, <1>2 DEF Settled, RowsAt
  <2>5. ASSUME NEW p \in GamesIn(disk) PROVE Pending(Tail(Stream), Scanning, todo, 0, p) \/ Settled(p)'
    <3>1. CASE Settled(p) \/ p = q
          BY <2>3, <2>4, <3>1
    <3>2. CASE Pending(Stream, Scanning, todo, 0, p)
          BY <2>1, <2>3, <3>2, HeadWasPending
    <3> QED BY <2>1, <3>1, <3>2 DEF Settling
  <2>6. LibraryOf(disk) => LibraryOf(disk)'
    <3> SUFFICES ASSUME LibraryOf(disk) PROVE LibraryOf(disk)'
        OBVIOUS
    <3>1. \A i \in DOMAIN db : db'[i] = db[i]
          BY <1>2, <2>1, LibraryRows
    <3>2. {db'[i] : i \in DOMAIN db'} = {db[i] : i \in DOMAIN db}
          BY <1>2, <3>1
    <3> QED BY <1>1, <1>2, <3>2 DEF LibraryOf
  <2>7. savedFp' = disk => LibraryOf(disk)' /\ vanished' = {}
        BY <1>1, <1>4, <2>6 DEF TurnedAt
  <2> QED BY <1>1, <1>4, <2>2, <2>5, <2>7, HandledTurned DEF e
<1> QED BY <1>3, <1>4

LEMMA RefusedKeepsTree ==
    ASSUME TypeInv, RowsInv, StreamInv, NEW m \in Nat, TurnedAt(m), ApplyFailedVerify
    PROVE  \E l \in Nat : TurnedAt(l)'
<1> DEFINE e == Head(events)
<1>1. /\ events # <<>> /\ e.kind = "GameFailedVerify" /\ Handled
      /\ UNCHANGED <<disk, failures, savedFp, wpc, fp, todo, queue, vanished>>
      BY DEF ApplyFailedVerify, Handling, worker
<1>2. CASE m # 1
      BY <1>1, <1>2, HandledTurned
<1>3. CASE m = 1
  <2>1. /\ Stream \in Seq(Events) /\ Stream # <<>> /\ Stream[1] = e /\ Scanning \in BOOLEAN
        /\ disk[e.path] \in Discs \ Verifying /\ Settling
        BY <1>1, <1>3, HeadAgrees DEF Agrees
  <2>2. e.path \notin Aside
        BY <1>1, HeadIsNotAside DEF Looks
  <2>3. \/ RowsAt(e.path) = {} /\ UNCHANGED <<db, shown>>
        \/ \E id \in RowsAt(e.path) : db' = Without(id)
        BY DEF ApplyFailedVerify, deleteGame
  <2>4. LibraryOf(disk) => RowsAt(e.path) = {}
        BY <2>1, LibraryRows DEF RowsAt
  <2> HIDE DEF e
  <2> PICK q : q = e.path
      OBVIOUS
  <2>5. RowsSettling' /\ Settled(q)' /\ \A p : p # q /\ Settled(p) => Settled(p)'
    <3>1. CASE RowsAt(e.path) = {} /\ UNCHANGED <<db, shown>>
      <4>1. RowsSettling'
            BY <1>1, <2>1, <3>1 DEF Settling, RowsSettling, GamesIn
      <4> QED BY <1>1, <2>1, <3>1, <4>1 DEF Settled, RowsAt
    <3>2. ASSUME NEW id \in RowsAt(e.path), db' = Without(id)
          PROVE  RowsSettling' /\ Settled(q)' /\ \A p : p # q /\ Settled(p) => Settled(p)'
      <4>1. id \in DOMAIN db /\ db[id].path = e.path
            BY <3>2 DEF RowsAt
      <4>2. \A v \in vanished : v.id # id
            BY <2>2, <4>1 DEF Aside
      <4>3. {} \in SUBSET vanished /\ vanished' = vanished \ {}
            BY <1>1
      <4>4. RowsSettling' /\ \A p : db[id].path # p /\ Settled(p) => Settled(p)'
            BY <1>1, <2>1, <3>2, <4>1, <4>2, <4>3, DeletedKeepsSettling DEF Settling, StreamInv
      <4>5. Settled(q)'
        <5>1. \A i \in DOMAIN db' : i \in DOMAIN db /\ i # id /\ db'[i] = db[i]
              BY <3>2 DEF Without
        <5>2. RowsAt(q)' = {}
              BY <4>1, <5>1 DEF RowsAt, RowsInv, OneRowPerFolder
        <5> QED BY <1>1, <2>1, <5>2 DEF Settled
      <4> QED BY <4>1, <4>4, <4>5
    <3> QED BY <2>3, <3>1, <3>2
  <2>6. ASSUME NEW p \in GamesIn(disk) PROVE Pending(Tail(Stream), Scanning, todo, 0, p) \/ Settled(p)'
    <3>1. CASE Settled(p) \/ p = q
          BY <2>5, <3>1
    <3>2. CASE Pending(Stream, Scanning, todo, 0, p)
          BY <2>1, <2>5, <3>2, HeadWasPending
    <3> QED BY <2>1, <3>1, <3>2 DEF Settling
  <2>7. savedFp' = disk => LibraryOf(disk)' /\ vanished' = {}
        BY <1>1, <1>3, <2>3, <2>4 DEF TurnedAt, LibraryOf
  <2> QED BY <1>1, <1>3, <2>5, <2>6, <2>7, HandledTurned DEF e
<1> QED BY <1>2, <1>3

LEMMA FinishedKeepsTree ==
    ASSUME TypeInv, NEW m \in Nat, TurnedAt(m), ApplyFinished
    PROVE  TurnedAt(m)'
<1> DEFINE e == Head(events)
<1>1. /\ Stream' = Stream /\ UNCHANGED <<disk, db, savedFp, wpc, fp, todo, vanished>>
      /\ events # <<>> /\ e.kind = "Finished"
      /\ shown' = {i \in DOMAIN db : db[i].path \in e.hier} /\ failures' = e.failed
      BY DEF ApplyFinished, Handling, Stream, worker
<1>2. RowsSettling' = RowsSettling /\ \A p : Settled(p)' = Settled(p)
      BY <1>1 DEF RowsSettling, Settled, RowsAt, GamesIn
<1>3. m = 1 /\ LibraryOf(disk) => LibraryOf(disk)'
  <2> SUFFICES ASSUME m = 1, LibraryOf(disk) PROVE LibraryOf(disk)'
      OBVIOUS
  <2>1. e.failed = Refused(disk) /\ e.hier = GamesIn(disk) \ Refused(disk)
        BY <1>1, HeadAgrees DEF Agrees
  <2>2. shown' = DOMAIN db
        BY <1>1, <2>1, LibraryRows
  <2> QED BY <1>1, <2>1, <2>2 DEF LibraryOf
<1> QED BY <1>1, <1>2, <1>3, UnhandledTurned DEF Settling

(* A scan applied to its end leaves the library it is of.                  *)
LEMMA SettledLibrary ==
    ASSUME TypeInv, RowsInv, RowsSettling, vanished = {}, \A p \in GamesIn(disk) : Settled(p),
           shown = {i \in DOMAIN db : db[i].path \in GamesIn(disk) \ Refused(disk)},
           failures = Refused(disk)
    PROVE  LibraryOf(disk)
<1>1. ASSUME NEW i \in DOMAIN db
      PROVE  /\ db[i].path \in GamesIn(disk) /\ disk[db[i].path] \in Verifying
             /\ db[i] = [path |-> db[i].path, discs |-> disk[db[i].path]]
  <2>1. db[i].path \in GamesIn(disk) /\ db[i] \in Rows
        BY DEF RowsSettling, StickOK, IsTable
  <2>2. disk[db[i].path] \in Verifying
        BY <2>1 DEF Settled, RowsAt
  <2>3. PICK j \in DOMAIN db : db[j].path = db[i].path /\ db[j].discs = disk[db[i].path]
        BY <2>1, <2>2 DEF Settled
  <2>4. db[i].discs = disk[db[i].path]
        BY <2>3 DEF RowsInv, OneRowPerFolder
  <2> QED BY <2>1, <2>2, <2>4 DEF Rows
<1>2. {db[i] : i \in DOMAIN db} \subseteq Playable(disk)
      BY <1>1 DEF Playable, GamesIn
<1>3. ASSUME NEW r \in Playable(disk) PROVE \E i \in DOMAIN db : db[i] = r
  <2>1. PICK p \in Paths : disk[p] \in Verifying /\ r = [path |-> p, discs |-> disk[p]]
        BY DEF Playable
  <2>2. p \in GamesIn(disk)
        BY <2>1, ScanLibraryAssumption DEF GamesIn
  <2>3. PICK i \in DOMAIN db : db[i].path = p
        BY <2>1, <2>2 DEF Settled
  <2> QED BY <1>1, <2>1, <2>3
<1>4. shown = DOMAIN db
      BY <1>1 DEF Refused
<1> QED BY <1>2, <1>3, <1>4 DEF LibraryOf

LEMMA SaveKeepsTree ==
    ASSUME TypeInv, RowsInv, StreamInv, HandInv, NEW m \in Nat, TurnedAt(m), SaveFingerprint
    PROVE  \E l \in Nat : TurnedAt(l)'
<1> DEFINE e == Head(events)
<1>1. /\ events # <<>> /\ e.kind = "Finished" /\ Handled /\ vanished = {} /\ savedFp' = e.fp
      /\ UNCHANGED <<disk, db, shown, failures, wpc, fp, todo, queue, vanished>>
      BY DEF SaveFingerprint, Phases, worker, dbVars
<1>2. CASE m # 1
      BY <1>1, <1>2, HandledTurned
<1>3. CASE m = 1
  <2>1. /\ Stream \in Seq(Events) /\ Stream # <<>> /\ Stream[1] = e /\ Scanning \in BOOLEAN
        /\ e.failed = Refused(disk) /\ e.hier = GamesIn(disk) \ Refused(disk) /\ Settling
        BY <1>1, <1>3, HeadAgrees DEF Agrees
  <2>2. ASSUME NEW p
        PROVE  ~Underway(Tail(Stream), Scanning) /\ ~Pending(Stream, Scanning, todo, 0, p)
        BY <1>1, <2>1, AfterFinished DEF StreamInv, WellFormed
  <2>3. shown = {i \in DOMAIN db : db[i].path \in GamesIn(disk) \ Refused(disk)} /\ failures = Refused(disk)
        BY <2>1 DEF SaveFingerprint, HandInv
  <2>4. \A p \in GamesIn(disk) : Settled(p)
        BY <2>1, <2>2 DEF Settling
  <2>5. LibraryOf(disk)
        BY <1>1, <2>1, <2>3, <2>4, SettledLibrary DEF Settling
  <2>6. LibraryOf(disk)'
        BY <1>1, <2>5 DEF LibraryOf
  <2> QED BY <1>1, <1>3, <2>2, <2>6, HandledTurned
<1> QED BY <1>2, <1>3

LEMMA TreeStep ==
    ASSUME ~EditsDuringScan, ~TreesReturn, TypeInv, RowsInv, StreamInv, PastInv, FoundInv, HandInv,
           TreeInv, [Next]_vars
    PROVE  TreeInv'
<1>1. CASE Worker
      BY <1>1, WorkerKeepsTree
<1>2. CASE MainThread
  <2>1. CASE TurnedLate
        BY <1>2, <2>1, PollKeepsLate DEF TreeInv
  <2>2. ASSUME NEW m \in Nat, TurnedAt(m) PROVE \E l \in Nat : TurnedAt(l)'
    <3>1. CASE BeginPoll \/ EndPoll
      <4>1. Stream' = Stream /\ Scanning' = Scanning /\ UNCHANGED <<stick, todo, vanished>>
            /\ (wpc' = "finish" => fp' = disk)
            BY <2>2, <3>1 DEF BeginPoll, EndPoll, Phases, Stream, Scanning, MainOK, worker, TurnedAt
      <4> QED BY <2>2, <4>1, SameTurned
    <3> QED BY <1>2, <2>2, <3>1, StartKeepsTree, DeleteKeepsTree, VerifiedKeepsTree, ReplaceKeepsTree,
               RefusedKeepsTree, FinishedKeepsTree, SaveKeepsTree DEF MainThread
  <2> QED BY <2>1, <2>2 DEF TreeInv
<1>3. CASE EditGames
      BY <1>3, EditKeepsTree
<1>4. CASE PowerCut
      BY <1>4, StopKeepsTree
<1>5. CASE Boot \/ requestScan \/ UNCHANGED vars
  <2>1. Stream' = Stream /\ Scanning' = Scanning /\ UNCHANGED <<stick, todo, vanished, fp>>
        /\ (wpc' = "finish" => wpc = "finish")
        BY <1>5 DEF Boot, requestScan, vars, Stream, Scanning, worker, mainThread
  <2>2. ASSUME NEW m \in Nat, TurnedAt(m) PROVE TurnedAt(m)'
        BY <2>1, <2>2, SameTurned DEF TurnedAt
  <2>3. CASE TurnedLate
    <3>1. wpc' = wpc
          BY <1>5, <2>3 DEF Boot, requestScan, vars, worker, TurnedLate
    <3> QED BY <2>1, <2>3, <3>1 DEF TurnedLate, TreeInv, stick
  <2> QED BY <2>2, <2>3 DEF TreeInv
<1> QED BY <1>1, <1>2, <1>3, <1>4, <1>5 DEF Next

(* The startup check may be trusted, where the user keeps out of Games/    *)
(* while a scan reads it and no tree returns: a launcher that starts and   *)
(* finds games.fingerprint to match the folder has the library of that     *)
(* folder, wherever the scans before it were cut short.                    *)
THEOREM SkippedScansAreNotOwed ==
    ASSUME ~EditsDuringScan, ~TreesReturn
    PROVE  Spec => []SkippedScanIsNotOwed
<1> DEFINE Inv == PastInv /\ FoundInv /\ HandInv /\ TreeInv
<1>1. Init => Inv
  <2> SUFFICES ASSUME Init PROVE Inv
      OBVIOUS
  <2>1. Stream = <<>> /\ Scanning = FALSE /\ disk # NoTree /\ savedFp = NoTree /\ vanished = {} /\ wpc = "off"
        BY ScanLibraryAssumption DEF Init, Stream, Scanning, Trees, Paths
  <2>2. Turned(<<>>, FALSE, todo, disk, 1) /\ ~Underway(<<>>, FALSE) /\ Saves(<<>>) = {}
        BY DEF Turned, Underway, Saves
  <2>3. TurnedAt(1)
        BY <2>1, <2>2 DEF TurnedAt
  <2>4. PastInv /\ FoundInv /\ HandInv
        BY <2>1, <2>2 DEF Init, PastInv, FoundInv, HandInv
  <2> QED BY <2>3, <2>4 DEF TreeInv
<1>2. TypeInv /\ RowsInv /\ StreamInv /\ Inv /\ [Next]_vars => Inv'
      BY PastStep, FoundStep, HandStep, TreeStep
<1>3. Inv => SkippedScanIsNotOwed
      BY DEF TreeInv, TurnedLate, TurnedAt, SkippedScanIsNotOwed, fingerprintsMatchDisk
<1> HIDE DEF Inv
<1> QED BY <1>1, <1>2, <1>3, TypeInvariant, RowsInvariant, StreamInvariant, PTL DEF Spec

=============================================================================
