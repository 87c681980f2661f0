------------------------ MODULE DriveWatcher_proofs ------------------------
(***************************************************************************)
(* Theorems about DriveWatcher, for any discs, number of tries and bounds: *)
(* its state is well formed, a game has the drive for itself, and the      *)
(* answer about a disc that stays stands through a game.                   *)
(***************************************************************************)
EXTENDS DriveWatcher, TLAPS

USE DEF drive, watcher, threads, history, bounds

-----------------------------------------------------------------------------
(* The parts of the invariant.                                             *)

(* TypeOK, a variable at a time.                                           *)
Answers == [state : {"NoDrive", "Empty", "Reading", "Ready", "NotPs1", "Unreadable"},
            disc : Discs \cup {NoDisc}]

Flags ==
    /\ plugged \in BOOLEAN /\ inserted \in BOOLEAN /\ done \in BOOLEAN
    /\ rereading \in BOOLEAN /\ paused \in BOOLEAN /\ stopping \in BOOLEAN
    /\ seen \in BOOLEAN /\ same \in BOOLEAN

Values ==
    /\ disc \in Discs \cup {NoDisc} /\ cold \in 0 .. SpinUp
    /\ handle \in {"closed", "open", "dead"}
    /\ tries \in 0 .. ReadTries /\ status \in Answers
    /\ stepMutex \in {"free", "worker"}
    /\ wpc \in {"off", "waiting", "polling", "identifying"}
    /\ mpc \in {"menu", "playing", "joining"}
    /\ touches \in Nat /\ games \in Nat /\ stops \in Nat

(* The lock is held from the first line of a poll to its last.             *)
LockIsHeld == stepMutex = "worker" <=> wpc \in {"polling", "identifying"}

(* Tries are only counted on a disc not read to an end.                    *)
TriesAreCounted ==
    /\ ~done => tries < ReadTries
    /\ wpc = "identifying" => ~done

(* The drive is given away by pause, which waited a poll out.              *)
GivenAway ==
    /\ paused <=> mpc = "playing"
    /\ paused => handle = "closed" /\ wpc # "identifying"

(* The game of the answer is in a drive that answers, and a poll that      *)
(* reads it anew after a game knows that it does.                          *)
GameStays ==
    /\ status.state = "Ready" => status.disc \in Games
    /\ same => /\ plugged /\ handle # "dead"
               /\ status.state = "Ready" /\ status.disc = disc
               /\ ~paused => rereading \/ (done /\ handle = "open")

Inv == Flags /\ Values /\ LockIsHeld /\ TriesAreCounted /\ GivenAway /\ GameStays

-----------------------------------------------------------------------------
(* The answers the watcher publishes are answers, and only a game is Ready. *)
LEMMA AnswersAreTyped ==
    /\ NoDrive \in Answers /\ Empty \in Answers /\ Reading \in Answers
    /\ NoDrive.state # "Ready" /\ Empty.state # "Ready" /\ Reading.state # "Ready"
    /\ \A d \in Discs \cup {NoDisc} :
          /\ Identity(d) \in Answers
          /\ Identity(d).state = "Ready" => d \in Games /\ Identity(d).disc = d
          /\ d \in Games => Identity(d) = [state |-> "Ready", disc |-> d]
BY DriveWatcherAssumption DEF NoDrive, Empty, Reading, Answer, Answers, Identity, Discs

LEMMA InvInit == Init => Inv
<1> SUFFICES ASSUME Init PROVE Inv
    OBVIOUS
<1>1. Flags
      BY DEF Init, Flags
<1>2. Values
      BY DriveWatcherAssumption, AnswersAreTyped DEF Init, Values
<1>3. LockIsHeld /\ TriesAreCounted /\ GivenAway /\ GameStays
      BY DriveWatcherAssumption, AnswersAreTyped
         DEF Init, LockIsHeld, TriesAreCounted, GivenAway, GameStays
<1> QED BY <1>1, <1>2, <1>3 DEF Inv

LEMMA FlagsStep == Flags /\ [Next]_vars => Flags'
<1> SUFFICES ASSUME Flags, [Next]_vars PROVE Flags'
    OBVIOUS
<1> USE DEF Flags
<1>1. CASE resume
  <2>1. rereading' \in BOOLEAN
        BY <1>1 DEF resume
  <2> QED BY <1>1, <2>1 DEF resume
<1>2. CASE pollOnce
      BY <1>2 DEF pollOnce, PollBegins, PollIsPaused, OpenFails, OpenDrive, DriveIsGone, dropDrive,
                  NotReady, ReadAlready, DiscIsIn, IdentifyFails, Identify, Settle, PollEnds
<1>3. CASE WorkerEnds \/ start \/ pause \/ stop \/ Joined
      BY <1>3 DEF WorkerEnds, start, pause, dropDrive, stop, Joined
<1>4. CASE MoveDisc \/ MoveCable
      BY <1>4 DEF MoveDisc, MoveCable, Touch
<1>5. CASE UNCHANGED vars
      BY <1>5 DEF vars
<1> QED BY <1>1, <1>2, <1>3, <1>4, <1>5 DEF Next, launcher

LEMMA ValuesStep == Flags /\ Values /\ TriesAreCounted /\ [Next]_vars => Values'
<1> SUFFICES ASSUME Flags, Values, TriesAreCounted, [Next]_vars PROVE Values'
    OBVIOUS
<1> USE DriveWatcherAssumption, AnswersAreTyped DEF Flags, Values, TriesAreCounted
<1>1. CASE PollBegins \/ PollIsPaused \/ OpenFails \/ OpenDrive \/ DriveIsGone \/ NotReady
      BY <1>1 DEF PollBegins, PollIsPaused, OpenFails, OpenDrive, DriveIsGone, dropDrive, NotReady,
                  PollEnds
<1>2. CASE ReadAlready \/ DiscIsIn \/ IdentifyFails \/ Identify
      BY <1>2 DEF ReadAlready, DiscIsIn, IdentifyFails, Identify, Settle, PollEnds
<1>3. CASE WorkerEnds \/ launcher
      BY <1>3 DEF WorkerEnds, launcher, start, pause, dropDrive, resume, stop, Joined
<1>4. CASE MoveDisc \/ MoveCable
      BY <1>4 DEF MoveDisc, MoveCable, Touch
<1>5. CASE UNCHANGED vars
      BY <1>5 DEF vars
<1> QED BY <1>1, <1>2, <1>3, <1>4, <1>5 DEF Next, pollOnce

LEMMA HeldStep == Inv /\ [Next]_vars => (LockIsHeld /\ TriesAreCounted /\ GivenAway)'
<1> SUFFICES ASSUME Inv, [Next]_vars PROVE (LockIsHeld /\ TriesAreCounted /\ GivenAway)'
    OBVIOUS
<1> USE DriveWatcherAssumption DEF Inv, Flags, Values, LockIsHeld, TriesAreCounted, GivenAway
<1>1. CASE PollBegins \/ PollIsPaused \/ OpenFails \/ OpenDrive \/ DriveIsGone \/ NotReady
      BY <1>1 DEF PollBegins, PollIsPaused, OpenFails, OpenDrive, DriveIsGone, dropDrive, NotReady,
                  PollEnds
<1>2. CASE ReadAlready \/ DiscIsIn \/ IdentifyFails \/ Identify
      BY <1>2 DEF ReadAlready, DiscIsIn, IdentifyFails, Identify, Settle, PollEnds
<1>3. CASE start \/ stop \/ WorkerEnds \/ Joined
      BY <1>3 DEF start, stop, WorkerEnds, Joined
<1>4. CASE pause
      BY <1>4 DEF pause, dropDrive
<1>5. CASE resume
      BY <1>5 DEF resume
<1>6. CASE MoveDisc \/ MoveCable
      BY <1>6 DEF MoveDisc, MoveCable, Touch
<1>7. CASE UNCHANGED vars
      BY <1>7 DEF vars
<1> QED BY <1>1, <1>2, <1>3, <1>4, <1>5, <1>6, <1>7 DEF Next, pollOnce, launcher

LEMMA GameStaysStep == Inv /\ [Next]_vars => GameStays'
<1> SUFFICES ASSUME Inv, [Next]_vars PROVE GameStays'
    OBVIOUS
<1> USE AnswersAreTyped DEF Inv, Flags, Values, GivenAway, GameStays
<1>1. NoDisc \notin Games
      BY DriveWatcherAssumption DEF Discs
<1>2. CASE PollBegins \/ PollIsPaused \/ OpenDrive \/ ReadAlready
      BY <1>2 DEF PollBegins, PollIsPaused, OpenDrive, ReadAlready, PollEnds
<1>3. CASE OpenFails \/ DriveIsGone \/ NotReady
      BY <1>1, <1>3 DEF OpenFails, DriveIsGone, dropDrive, NotReady, HasNoDisc, Ready, PollEnds
<1>4. CASE DiscIsIn
      BY <1>4 DEF DiscIsIn, Ready
<1>5. CASE IdentifyFails
      BY <1>5 DEF IdentifyFails, Settle, PollEnds
<1>6. CASE Identify
      BY <1>6 DEF Identify, Fails, Ready, Settle, PollEnds
<1>7. CASE start \/ stop \/ WorkerEnds \/ Joined
      BY <1>7 DEF start, stop, WorkerEnds, Joined
<1>8. CASE pause
      BY <1>8 DEF pause, dropDrive
<1>9. CASE resume
      BY <1>9 DEF resume
<1>10. CASE MoveDisc \/ MoveCable
      BY <1>10 DEF MoveDisc, MoveCable, Touch
<1>11. CASE UNCHANGED vars
      BY <1>11 DEF vars
<1> QED BY <1>2, <1>3, <1>4, <1>5, <1>6, <1>7, <1>8, <1>9, <1>10, <1>11
        DEF Next, pollOnce, launcher

LEMMA InvHolds == Spec => []Inv
<1>1. Inv /\ [Next]_vars => Inv'
      BY FlagsStep, ValuesStep, HeldStep, GameStaysStep DEF Inv
<1> QED BY <1>1, InvInit, PTL DEF Spec

-----------------------------------------------------------------------------
(* The drive, the watcher's memory of it, the answer and the threads are   *)
(* what they can be; the tries of a disc are never more than ReadTries.    *)
THEOREM TypesAreKept == Spec => []TypeOK
<1>1. Inv => TypeOK
      BY DEF Inv, Flags, Values, TypeOK, Answers
<1> QED BY <1>1, InvHolds, PTL

(* pause() hands the drive over only once no poll is at work on it, and no *)
(* poll begun before or after it opens or reads it until resume().         *)
THEOREM GameHasTheDrive == Spec => []DriveIsTheGames
<1>1. Inv => DriveIsTheGames
      BY DEF Inv, GivenAway, DriveIsTheGames
<1> QED BY <1>1, InvHolds, PTL

(* A disc that never left and never failed to read keeps its answer from   *)
(* before the game to after it: resume()'s rereading lets no poll show     *)
(* Reading, and what is read again is the same game.                       *)
THEOREM AnswerIsKept == Spec => AnswerStands
<1>1. Inv /\ [Next]_vars => [same /\ same' => status' = status]_vars
  <2> SUFFICES ASSUME Inv, Next, same, same' PROVE status' = status
      OBVIOUS
  <2> USE AnswersAreTyped DEF Inv, Flags, Values, GivenAway, GameStays
  <2>1. CASE Identify
    <3>1. disc \in Games /\ status' = Identity(disc)
          BY <2>1 DEF Identify, Settle
    <3>2. status = [state |-> "Ready", disc |-> disc]
          BY DEF Answers
    <3> QED BY <3>1, <3>2
  <2>2. CASE DiscIsIn
        BY <2>2 DEF DiscIsIn, Ready
  <2>3. CASE OpenFails \/ DriveIsGone \/ NotReady \/ IdentifyFails
        BY <2>3, DriveWatcherAssumption DEF Discs, OpenFails, DriveIsGone, NotReady, HasNoDisc, IdentifyFails, Ready
  <2>4. CASE PollBegins \/ PollIsPaused \/ OpenDrive \/ ReadAlready \/ WorkerEnds \/ launcher
             \/ MoveDisc \/ MoveCable
        BY <2>4 DEF PollBegins, PollIsPaused, OpenDrive, ReadAlready, WorkerEnds, launcher, start,
                    pause, resume, stop, Joined, MoveDisc, MoveCable, Touch
  <2> QED BY <2>1, <2>2, <2>3, <2>4 DEF Next, pollOnce
<1> QED BY <1>1, InvHolds, PTL DEF Spec, AnswerStands
=============================================================================
