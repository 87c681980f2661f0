---------------------------- MODULE DriveWatcher ----------------------------
(***************************************************************************)
(* The watcher of the disc drive: a worker that polls the drive, the       *)
(* answer it publishes, and the launcher's thread that takes the drive     *)
(* away from it for a game (LaunchService::launchDisc).                    *)
(*                                                                         *)
(* A poll holds stepMutex_ from its first line to its last; the tray and   *)
(* the cable do not ask for it, so the disc may change between the test    *)
(* for readiness and the read.                                             *)
(***************************************************************************)
EXTENDS Naturals, FiniteSets

CONSTANTS
    NoDisc,
    Games,       \* discs whose identity is that of a PS1 game, or an Audio CD
    Others,      \* data discs that are not
    Broken,      \* discs that cannot be read
    ReadTries,
    SpinUp,      \* opens and reads that fail after a disc went in, at most
    QuickSwaps,  \* a disc is changed, or the cable pulled and put back, between two polls
    MaxTouches,  \* bound: discs moved, cables pulled
    MaxGames,    \* bound: discs played
    MaxStops     \* bound: calls of stop

Discs == Games \cup Others \cup Broken

ASSUME DriveWatcherAssumption ==
    /\ NoDisc \notin Discs /\ Games \cap Others = {} /\ Broken \cap (Games \cup Others) = {}
    /\ ReadTries \in Nat \ {0} /\ SpinUp \in 0 .. ReadTries - 1
    /\ QuickSwaps \in BOOLEAN /\ {MaxTouches, MaxGames, MaxStops} \subseteq Nat

VARIABLES
    (* the drive *)
    plugged, disc,
    cold,      \* failed opens and reads still to come before it is up to speed
    (* the watcher *)
    handle,    \* "closed", "open", or "dead": of a drive that was pulled
    inserted, done, rereading, tries, paused,
    status,    \* the state and the disc last published
    (* the threads *)
    stepMutex, \* "free", "worker"
    wpc,       \* "off", "waiting", "polling", "identifying"
    stopping,
    mpc,       \* "menu", "playing" or "joining"
    (* history *)
    seen,      \* a poll has met the drive as it now is
    same,      \* the disc of the answer never left the drive, and neither
               \*   failed to open or to read
    (* bounds *)
    touches, games, stops

drive   == <<plugged, disc, cold>>
watcher == <<handle, inserted, done, rereading, tries, paused, status>>
threads == <<stepMutex, wpc, stopping, mpc>>
history == <<seen, same>>
bounds  == <<touches, games, stops>>
vars == <<drive, watcher, threads, history, bounds>>

Answer(state, d) == [state |-> state, disc |-> d]
NoDrive == Answer("NoDrive", NoDisc)
Empty   == Answer("Empty", NoDisc)
Reading == Answer("Reading", NoDisc)

(* The answer to what DiscIdentity::identify read, after the last try.     *)
Identity(d) ==
    CASE d \in Games  -> Answer("Ready", d)
      [] d \in Others -> Answer("NotPs1", d)
      [] OTHER        -> Answer("Unreadable", NoDisc)

Init ==
    /\ plugged \in BOOLEAN /\ disc \in Discs \cup {NoDisc}
    /\ cold \in 0 .. SpinUp
    /\ handle = "closed" /\ inserted = FALSE /\ done = FALSE
    /\ rereading = FALSE /\ tries = 0 /\ paused = FALSE
    /\ status = NoDrive
    /\ stepMutex = "free" /\ wpc = "off" /\ stopping = FALSE /\ mpc = "menu"
    /\ seen = FALSE /\ same = FALSE
    /\ touches = 0 /\ games = 0 /\ stops = 0

-----------------------------------------------------------------------------
(* The player's hands, at any time.                                        *)

Touch ==
    /\ QuickSwaps \/ seen \/ mpc = "playing"
    /\ touches < MaxTouches /\ touches' = touches + 1
    /\ seen' = FALSE /\ same' = FALSE
    /\ UNCHANGED <<inserted, done, rereading, tries, paused, status, threads, games, stops>>

MoveDisc ==
    /\ disc' \in IF disc = NoDisc THEN Discs ELSE {NoDisc}
    /\ cold' \in 0 .. SpinUp
    /\ UNCHANGED <<plugged, handle>>
    /\ Touch

MoveCable ==
    /\ plugged' = ~plugged
    /\ handle' = IF handle = "open" THEN "dead" ELSE handle
    /\ cold' \in 0 .. SpinUp
    /\ UNCHANGED disc
    /\ Touch

-----------------------------------------------------------------------------
(* pollOnce, in the worker.                                                *)

Ready == handle = "open" /\ disc # NoDisc

PollBegins ==
    /\ wpc = "waiting" /\ ~stopping
    /\ stepMutex = "free" /\ stepMutex' = "worker"
    /\ wpc' = "polling"
    /\ UNCHANGED <<drive, watcher, stopping, mpc, history, bounds>>

PollEnds == stepMutex' = "free" /\ wpc' = "waiting" /\ UNCHANGED <<stopping, mpc>>

PollIsPaused ==
    /\ wpc = "polling" /\ paused
    /\ PollEnds
    /\ UNCHANGED <<drive, watcher, history, bounds>>

(* There is no drive, or it does not open.                                 *)
OpenFails ==
    /\ wpc = "polling" /\ ~paused /\ handle = "closed"
    /\ plugged => cold > 0
    /\ cold' = IF plugged THEN cold - 1 ELSE cold
    /\ status' = NoDrive
    /\ seen' = TRUE /\ same' = FALSE
    /\ PollEnds
    /\ UNCHANGED <<plugged, disc, handle, inserted, done, rereading, tries, paused, bounds>>

OpenDrive ==
    /\ wpc = "polling" /\ ~paused /\ handle = "closed" /\ plugged
    /\ handle' = "open" /\ inserted' = FALSE /\ done' = FALSE /\ tries' = 0
    /\ UNCHANGED <<drive, rereading, paused, status, threads, history, bounds>>

dropDrive ==
    /\ handle' = "closed"
    /\ inserted' = FALSE /\ done' = FALSE /\ rereading' = FALSE /\ tries' = 0

(* Its number is not in the list any more.                                 *)
DriveIsGone ==
    /\ wpc = "polling" /\ ~paused /\ handle = "dead"
    /\ dropDrive
    /\ status' = NoDrive
    /\ PollEnds
    /\ UNCHANGED <<drive, paused, history, bounds>>

(* The drive put back under the number it had is not opened anew: the old  *)
(* handle never gets ready.                                                *)
HasNoDisc == IF handle = "dead" THEN plugged ELSE handle = "open" /\ ~Ready

NotReadyX ==
    /\ wpc = "polling" /\ ~paused /\ HasNoDisc
    /\ inserted' = FALSE /\ tries' = 0
    /\ status' = Empty
    /\ seen' = TRUE
    /\ PollEnds
    /\ UNCHANGED <<drive, handle, done, rereading, paused, same, bounds>>
NotReady ==
    /\ wpc = "polling" /\ ~paused /\ HasNoDisc
    /\ inserted' = FALSE /\ done' = FALSE /\ rereading' = FALSE /\ tries' = 0
    /\ status' = Empty
    /\ seen' = TRUE
    /\ PollEnds
    /\ UNCHANGED <<drive, handle, paused, same, bounds>>

ReadAlready ==
    /\ wpc = "polling" /\ ~paused /\ Ready /\ done
    /\ PollEnds
    /\ UNCHANGED <<drive, watcher, history, bounds>>

(* The first poll that finds a disc shows Reading, unless an answer from   *)
(* before a game stands.                                                   *)
DiscIsIn ==
    /\ wpc = "polling" /\ ~paused /\ Ready /\ ~done
    /\ wpc' = "identifying"
    /\ inserted' = TRUE
    /\ tries' = IF inserted THEN tries ELSE 0
    /\ status' = IF inserted \/ rereading THEN status ELSE Reading
    /\ seen' = TRUE
    /\ UNCHANGED <<drive, handle, done, rereading, paused, stepMutex, stopping, mpc, same, bounds>>

(* What the read brings: the disc, or nothing.                             *)
Fails == ~Ready \/ disc \in Broken \/ cold > 0

Settle(answer) ==
    /\ done' = TRUE /\ rereading' = FALSE
    /\ status' = answer

IdentifyFails ==
    /\ wpc = "identifying" /\ Fails
    /\ cold' = IF cold > 0 THEN cold - 1 ELSE 0
    /\ tries' = tries + 1
    /\ same' = FALSE
    /\ IF tries + 1 < ReadTries
         THEN status' = Reading /\ UNCHANGED <<done, rereading>>
         ELSE Settle(Identity(NoDisc))
    /\ PollEnds
    /\ UNCHANGED <<plugged, disc, handle, inserted, paused, seen, bounds>>

Identify ==
    /\ wpc = "identifying" /\ ~Fails
    /\ Settle(Identity(disc))
    /\ PollEnds
    /\ UNCHANGED <<drive, handle, inserted, tries, paused, history, bounds>>

-----------------------------------------------------------------------------
(* The launcher's thread.                                                  *)

start ==
    /\ mpc = "menu" /\ wpc = "off"
    /\ wpc' = "waiting" /\ stopping' = FALSE
    /\ UNCHANGED <<drive, watcher, stepMutex, mpc, history, bounds>>

(* pause() waits a poll out and drops the drive; the game has it next.     *)
pauseX ==
    /\ mpc = "menu" /\ status.state = "Ready"
    /\ games < MaxGames /\ games' = games + 1
    /\ paused' = TRUE /\ dropDrive
    /\ mpc' = "playing"
    /\ same' = (plugged /\ status.disc = disc)
    /\ UNCHANGED <<drive, status, stepMutex, wpc, stopping, seen, touches, stops>>
pause ==
    /\ mpc = "menu" /\ status.state = "Ready"
    /\ games < MaxGames /\ games' = games + 1
    /\ stepMutex = "free"
    /\ paused' = TRUE /\ dropDrive
    /\ mpc' = "playing"
    /\ same' = (plugged /\ status.disc = disc)
    /\ UNCHANGED <<drive, status, stepMutex, wpc, stopping, seen, touches, stops>>

resumeX ==
    /\ mpc = "playing" /\ stepMutex = "free"
    /\ paused' = FALSE
    /\ mpc' = "menu"
    /\ cold' \in 0 .. SpinUp
    /\ UNCHANGED <<plugged, disc, handle, inserted, done, rereading, tries, status, stepMutex,
                   wpc, stopping, history, bounds>>
resume ==
    /\ mpc = "playing" /\ stepMutex = "free"
    /\ paused' = FALSE
    /\ rereading' = (status.state \in {"Ready", "NotPs1"})
    /\ mpc' = "menu"
    /\ cold' \in 0 .. SpinUp
    /\ UNCHANGED <<plugged, disc, handle, inserted, done, tries, status, stepMutex, wpc, stopping,
                   history, bounds>>

stop ==
    /\ mpc = "menu" /\ wpc # "off"
    /\ stops < MaxStops /\ stops' = stops + 1
    /\ stopping' = TRUE
    /\ mpc' = "joining"
    /\ UNCHANGED <<drive, watcher, stepMutex, wpc, history, touches, games>>

WorkerEnds ==
    /\ wpc = "waiting" /\ stopping
    /\ wpc' = "off"
    /\ UNCHANGED <<drive, watcher, stepMutex, stopping, mpc, history, bounds>>

Joined ==
    /\ mpc = "joining" /\ wpc = "off" /\ stepMutex = "free"
    /\ handle' = "closed"
    /\ mpc' = "menu"
    /\ same' = FALSE
    /\ UNCHANGED <<drive, inserted, done, rereading, tries, paused, status, stepMutex, wpc,
                   stopping, seen, bounds>>

-----------------------------------------------------------------------------
pollOnce ==
    \/ PollBegins \/ PollIsPaused \/ OpenFails \/ OpenDrive \/ DriveIsGone
    \/ NotReady \/ ReadAlready \/ DiscIsIn \/ IdentifyFails \/ Identify
launcher == start \/ pause \/ resume \/ stop \/ Joined
Next == pollOnce \/ WorkerEnds \/ launcher \/ MoveDisc \/ MoveCable

Spec == Init /\ [][Next]_vars

(* The worker polls for ever, and a game is left in the end, though it     *)
(* finds the lock taken by a poll now and then.  Nothing else the launcher *)
(* does is owed, and nothing the player's hands do.                        *)
FairSpec ==
    /\ Spec
    /\ WF_vars(pollOnce) /\ WF_vars(WorkerEnds) /\ WF_vars(Joined) /\ SF_vars(resume)

-----------------------------------------------------------------------------
TypeOK ==
    /\ plugged \in BOOLEAN /\ disc \in Discs \cup {NoDisc} /\ cold \in 0 .. SpinUp
    /\ handle \in {"closed", "open", "dead"}
    /\ {inserted, done, rereading, paused, stopping, seen, same} \subseteq BOOLEAN
    /\ tries \in 0 .. ReadTries
    /\ status \in [state : {"NoDrive", "Empty", "Reading", "Ready", "NotPs1", "Unreadable"},
                   disc : Discs \cup {NoDisc}]
    /\ stepMutex \in {"free", "worker"}
    /\ wpc \in {"off", "waiting", "polling", "identifying"}
    /\ mpc \in {"menu", "playing", "joining"}
    /\ {touches, games, stops} \subseteq Nat

(* While a game has the drive the watcher has no handle on it and gets     *)
(* none, whatever poll was under way when it was paused.                   *)
DriveIsTheGames == mpc = "playing" => handle = "closed" /\ wpc # "identifying"

(* The published answer in the end is what is in the drive: a swap, a disc *)
(* slow to spin up, a cable pulled, a disc changed during a game, a stop   *)
(* and a start - while the watcher runs.                                   *)
Truth ==
    IF ~plugged THEN NoDrive ELSE IF disc = NoDisc THEN Empty ELSE Identity(disc)

StatusFollowsDisc == <>[](wpc # "off" => status = Truth)

(* A disc that stays in the drive through a game and reads again keeps its *)
(* answer throughout: no flicker, and no other disc's.                     *)
AnswerStands == [][same /\ same' => status' = status]_vars
=============================================================================
