---------------------------- MODULE ScanLibrary ----------------------------
(***************************************************************************)
(* How the PS1 library (regional.db) follows the Games/ folder.            *)
(*                                                                         *)
(* ScanService is split over two threads.  The worker only ever reads the  *)
(* stick: it lists the game folders, verifies them one by one and queues   *)
(* what it saw.  The main thread applies the queue to the database in      *)
(* poll().  Between the two, and between any two steps of either, the user *)
(* edits the folder and the power may go.                                  *)
(*                                                                         *)
(* Modelled: ScanService::runScan for ScanPs1 (from the reading of the     *)
(* tree on), the watcher, poll(), the start of the worker and the startup  *)
(* check.  The scopes, the launcher's requests and the turns the scanner   *)
(* processors get are ScanRequests.                                        *)
(***************************************************************************)
EXTENDS Naturals, Sequences, FiniteSets, FiniteSetsExt

CONSTANTS
    Dirs,        \* the folders a game folder may lie in (Games/ and its sub-folders)
    Names,       \* names of game folders
    Discs,       \* what a game folder may hold: its disc file names
    Verifying,   \* those of Discs that pass UsbGame::verify()
    NoGame,      \* no game folder there; in a row, no DISC rows yet
    NoTree,      \* an empty fingerprint: no games.fingerprint was ever saved
    MaxEdits,    \* bound: edits of the Games/ folder
    MaxRequests, \* bound: scans asked for by hand
    MaxCuts,     \* bound: power cuts
    EditsDuringScan, \* the user may edit the folder while the worker reads it
    TreesReturn      \* an edit may lead back to a tree the folder was before

ASSUME ScanLibraryAssumption ==
    /\ Verifying \subseteq Discs
    /\ NoGame \notin Discs /\ NoTree \notin [Dirs \X Names -> Discs \cup {NoGame}]
    /\ MaxEdits \in Nat /\ MaxRequests \in Nat /\ MaxCuts \in Nat
    /\ EditsDuringScan \in BOOLEAN /\ TreesReturn \in BOOLEAN

Paths == Dirs \X Names
NameOf(p) == p[2]
Trees == [Paths -> Discs \cup {NoGame}]
GamesIn(tree) == {p \in Paths : tree[p] # NoGame}

VARIABLES
    (* the stick: survives a power cut *)
    disk,         \* the Games/ folder
    db,           \* GAME and DISC of regional.db: id -> folder and disc names
    shown,        \* SUBDIR_GAMES_TO_DISPLAY_ON_ROW: the ids some row displays
    failures,     \* FAILED_GAMES: the folders the Game Manager lists as refused
    savedFp,      \* games.fingerprint
    (* the worker thread *)
    wpc,          \* "off", "idle", "read", "visit" or "finish"
    hier,         \* GamesHierarchy: the folders found, less those that failed
    todo,         \* the folders scanGamesDirectory has yet to visit
    failed,       \* GameScanner::failedGames
    fp,           \* runScan's fp, for the Finished event
    lastScanned, lastCheck, \* lastScannedFingerprint_, lastCheckFingerprint_
    (* between the threads *)
    requested,    \* scanRequested_, its ScanPs1 bit
    queue,        \* queue_
    (* the main thread *)
    mpc,          \* "frame", "poll", "discs" or "save"
    events,       \* poll()'s own copy of the queue
    vanished,     \* vanished_
    update,       \* the ScanUpdate under construction
    roster,       \* the launcher's carousel: id -> folder (external)
    (* history and bounds *)
    fresh,        \* the ids inserted since the last ScanStarted
    past,         \* the trees Games/ has been, kept where none may return
    edits, requests, cuts

stick   == <<disk, db, shown, failures, savedFp>>
dbVars  == <<db, shown, failures>>
worker  == <<wpc, hier, todo, failed, fp, lastScanned, lastCheck>>
mainThread == <<mpc, events, vanished, update, roster, fresh>>
bounds  == <<past, edits, requests, cuts>>
vars == <<stick, worker, requested, queue, mainThread, bounds>>

Ids == Nat \ {0}
Rows == [path : Paths, discs : Discs \cup {NoGame}]
Vanished == [id : Ids, name : Names, discs : Discs \cup {NoGame}]

Started(paths)   == [kind |-> "ScanStarted", paths |-> paths]
Verified(p, d)   == [kind |-> "GameVerified", path |-> p, discs |-> d]
Failed(p)        == [kind |-> "GameFailedVerify", path |-> p]
Finished(h, f, t) == [kind |-> "Finished", hier |-> h, failed |-> f, fp |-> t]

Events ==      [kind : {"ScanStarted"}, paths : SUBSET Paths]
          \cup [kind : {"GameVerified"}, path : Paths, discs : Discs]
          \cup [kind : {"GameFailedVerify"}, path : Paths]
          \cup [kind : {"Finished"}, hier : SUBSET Paths, failed : SUBSET Paths, fp : Trees]

NoUpdate == [removed |-> {}, added |-> {}, changed |-> <<>>, finished |-> FALSE]

Init ==
    /\ disk \in Trees
    /\ db = <<>> /\ shown = {} /\ failures = {} /\ savedFp = NoTree
    /\ wpc = "off"
    /\ hier = {} /\ todo = {} /\ failed = {} /\ fp = NoTree
    /\ lastScanned = NoTree /\ lastCheck = NoTree
    /\ requested = FALSE /\ queue = <<>>
    /\ mpc = "frame" /\ events = <<>> /\ vanished = {}
    /\ update = NoUpdate /\ roster = <<>> /\ fresh = {}
    /\ past = {disk}
    /\ edits = 0 /\ requests = 0 /\ cuts = 0

fingerprintsMatchDisk == savedFp = disk

(* A start of the launcher: the fingerprint file is loaded, a scan asked   *)
(* for unless it matches the folder, the carousel filled from the database.*)
Boot ==
    /\ wpc = "off"
    /\ wpc' = "idle"
    /\ lastScanned' = savedFp /\ lastCheck' = savedFp
    /\ requested' = ~fingerprintsMatchDisk
    /\ roster' = [i \in DOMAIN db |-> db[i].path]
    /\ UNCHANGED <<stick, hier, todo, failed, fp, queue, mpc, events, vanished,
                   update, fresh, bounds>>

(* The power goes: everything in RAM is lost, at any point of any step.    *)
PowerCut ==
    /\ wpc # "off"
    /\ cuts < MaxCuts
    /\ cuts' = cuts + 1
    /\ wpc' = "off"
    /\ hier' = {} /\ todo' = {} /\ failed' = {} /\ fp' = NoTree
    /\ lastScanned' = NoTree /\ lastCheck' = NoTree
    /\ requested' = FALSE /\ queue' = <<>>
    /\ mpc' = "frame" /\ events' = <<>> /\ vanished' = {}
    /\ update' = NoUpdate /\ roster' = <<>> /\ fresh' = {}
    /\ UNCHANGED <<stick, past, edits, requests>>

-----------------------------------------------------------------------------
(* The worker.                                                             *)

requestScan ==
    /\ wpc # "off"
    /\ requests < MaxRequests
    /\ requests' = requests + 1
    /\ requested' = TRUE
    /\ UNCHANGED <<stick, worker, queue, mainThread, past, edits, cuts>>

(* threadMain, a scan was asked for.                                       *)
TakeRequest ==
    /\ wpc = "idle" /\ requested
    /\ requested' = FALSE
    /\ wpc' = "read"
    /\ UNCHANGED <<stick, hier, todo, failed, fp, lastScanned, lastCheck, queue,
                   mainThread, bounds>>

(* Mutant: a check that does not remember what it saw.                     *)
checkForChangesX ==
    /\ wpc = "idle" /\ ~requested
    /\ wpc' = IF disk # lastScanned /\ disk = lastCheck THEN "read" ELSE "idle"
    /\ UNCHANGED <<stick, hier, todo, failed, fp, lastScanned, lastCheck, requested, queue,
                   mainThread, bounds>>

(* threadMain, nothing was: the same changed tree twice in a row is due.   *)
checkForChanges ==
    /\ wpc = "idle" /\ ~requested
    /\ wpc' = IF disk # lastScanned /\ disk = lastCheck THEN "read" ELSE "idle"
    /\ lastCheck' = disk
    /\ UNCHANGED <<stick, hier, todo, failed, fp, lastScanned, requested, queue,
                   mainThread, bounds>>

ReadHierarchy ==
    /\ wpc = "read"
    /\ hier' = GamesIn(disk)
    /\ todo' = GamesIn(disk)
    /\ failed' = {}
    /\ queue' = Append(queue, Started(GamesIn(disk)))
    /\ wpc' = "visit"
    /\ UNCHANGED <<stick, fp, lastScanned, lastCheck, requested, mainThread, bounds>>

(* One folder of scanGamesDirectory, as it is when its turn comes: it may  *)
(* have lost its game since the tree was read, and is then passed over.    *)
VisitGame(p) ==
    /\ wpc = "visit" /\ p \in todo
    /\ todo' = todo \ {p}
    /\ \/ /\ disk[p] = NoGame
          /\ UNCHANGED <<hier, failed, queue>>
       \/ /\ disk[p] \in Verifying
          /\ queue' = Append(queue, Verified(p, disk[p]))
          /\ UNCHANGED <<hier, failed>>
       \/ /\ disk[p] \in Discs \ Verifying
          /\ queue' = Append(queue, Failed(p))
          /\ failed' = failed \cup {p}
          /\ hier' = hier \ {p}
    /\ UNCHANGED <<stick, wpc, fp, lastScanned, lastCheck, requested, mainThread, bounds>>

TakeFingerprint ==
    /\ wpc = "visit" /\ todo = {}
    /\ fp' = disk
    /\ lastScanned' = disk /\ lastCheck' = disk
    /\ wpc' = "finish"
    /\ UNCHANGED <<stick, hier, todo, failed, requested, queue, mainThread, bounds>>

(* Mutants: the worker saves the fingerprint itself; a scan that found no  *)
(* game reports nothing.                                                   *)
EndScanX ==
    /\ wpc = "finish"
    /\ queue' = Append(queue, Finished(hier, failed, fp))
    /\ savedFp' = fp
    /\ wpc' = "idle"
    /\ hier' = {} /\ failed' = {} /\ fp' = NoTree
    /\ UNCHANGED <<disk, dbVars, todo, lastScanned, lastCheck, requested, mainThread, bounds>>
EndScanXX ==
    /\ wpc = "finish"
    /\ queue' = IF hier = {} THEN queue ELSE Append(queue, Finished(hier, failed, fp))
    /\ wpc' = "idle"
    /\ hier' = {} /\ failed' = {} /\ fp' = NoTree
    /\ UNCHANGED <<stick, todo, lastScanned, lastCheck, requested, mainThread, bounds>>

EndScan ==
    /\ wpc = "finish"
    /\ queue' = Append(queue, Finished(hier, failed, fp))
    /\ wpc' = "idle"
    /\ hier' = {} /\ failed' = {} /\ fp' = NoTree
    /\ UNCHANGED <<stick, todo, lastScanned, lastCheck, requested, mainThread, bounds>>

Worker ==
    \/ TakeRequest \/ checkForChanges \/ ReadHierarchy
    \/ \E p \in Paths : VisitGame(p)
    \/ TakeFingerprint \/ EndScan

-----------------------------------------------------------------------------
(* The main thread: one poll(), event by event, every write of its own.    *)

(* Mutants (definitions named ...X are used by no action): the path looked *)
(* up without the separator every stored one carries; an id off by one; a  *)
(* delete that leaves one table, or does not tell the launcher; the folder *)
(* name of a path that still has its separator.                            *)
RowsAtX(p) == {i \in DOMAIN db : db[i].path = <<p>>}
RowsAt(p) == {i \in DOMAIN db : db[i].path = p}
maxGameId == Max(DOMAIN db \cup {0})
NewIdX == maxGameId
NewId == maxGameId + 1
Without(id) == [i \in DOMAIN db \ {id} |-> db[i]]
WithRow(id, r) == [i \in DOMAIN db \cup {id} |-> IF i = id THEN r ELSE db[i]]

deleteGameX(id) ==
    /\ db' = Without(id)
    /\ shown' = shown
    /\ update' = [update EXCEPT !.removed = @ \cup {id}]

deleteGameXX(id) ==
    /\ db' = Without(id)
    /\ shown' = shown \ {id}
    /\ UNCHANGED update

(* deleteGame: the three tables in one transaction.                        *)
deleteGame(id) ==
    /\ db' = Without(id)
    /\ shown' = shown \ {id}
    /\ update' = [update EXCEPT !.removed = @ \cup {id}]

BeginPoll ==
    /\ mpc = "frame" /\ queue # <<>>
    /\ events' = queue /\ queue' = <<>>
    /\ mpc' = "poll"
    /\ UNCHANGED <<stick, worker, requested, vanished, update, roster, fresh, bounds>>

Handling(kind) == mpc = "poll" /\ events # <<>> /\ Head(events).kind = kind
Handled == events' = Tail(events)

(* deleteUnclaimedVanished, one row: at ScanStarted and at Finished.       *)
DeleteUnclaimedVanished(v) ==
    /\ Handling("ScanStarted") \/ Handling("Finished")
    /\ v \in vanished
    /\ vanished' = vanished \ {v}
    /\ deleteGame(v.id)
    /\ UNCHANGED <<disk, failures, savedFp, worker, requested, queue, mpc, events, roster,
                   fresh, bounds>>

MissingFromX(paths) == DOMAIN db
MissingFrom(paths) == {i \in DOMAIN db : db[i].path \notin paths}

(* The rows whose folder was not found are kept aside: the game may turn   *)
(* up in another one.                                                      *)
ApplyScanStarted ==
    /\ Handling("ScanStarted") /\ vanished = {}
    /\ vanished' = {[id |-> i, name |-> NameOf(db[i].path), discs |-> db[i].discs] :
                       i \in MissingFrom(Head(events).paths)}
    /\ fresh' = {}
    /\ Handled
    /\ UNCHANGED <<stick, worker, requested, queue, mpc, update, roster, bounds>>

ClaimableX(e) == {v \in vanished : v.name = <<NameOf(e.path)>> /\ v.discs = e.discs}
Claimable(e) == {v \in vanished : v.name = NameOf(e.path) /\ v.discs = e.discs}

(* The update also carries the games added and refreshed, as they are now. *)
Telling(id, p, added) ==
    [update EXCEPT !.changed = [i \in DOMAIN @ \cup {id} |-> IF i = id THEN p ELSE @[i]],
                   !.added = @ \cup added]

(* applyVerifiedGame up to the GAME row: known by its folder, a vanished   *)
(* row moved (claimMovedGame), or new.                                     *)
ApplyVerifiedGame ==
    /\ Handling("GameVerified")
    /\ LET e == Head(events) IN
       \/ \E id \in RowsAt(e.path) :
             /\ update' = Telling(id, e.path, {})
             /\ UNCHANGED <<db, vanished, fresh>>
       \/ /\ RowsAt(e.path) = {}
          /\ \E v \in Claimable(e) :
                /\ db' = WithRow(v.id, [path |-> e.path, discs |-> v.discs])
                /\ vanished' = vanished \ {v}
                /\ update' = Telling(v.id, e.path, {})
          /\ UNCHANGED fresh
       \/ /\ RowsAt(e.path) = {} /\ Claimable(e) = {}
          /\ db' = WithRow(NewId, [path |-> e.path, discs |-> NoGame])
          /\ fresh' = fresh \cup {NewId}
          /\ update' = Telling(NewId, e.path, {NewId})
          /\ UNCHANGED vanished
    /\ mpc' = "discs"
    /\ UNCHANGED <<disk, shown, failures, savedFp, worker, requested, queue, events,
                   roster, bounds>>

(* replaceDiscs, the second transaction of applyVerifiedGame.              *)
ReplaceDiscs ==
    /\ mpc = "discs"
    /\ db' = [i \in DOMAIN db |->
                 IF db[i].path = Head(events).path
                 THEN [db[i] EXCEPT !.discs = Head(events).discs] ELSE db[i]]
    /\ Handled
    /\ mpc' = "poll"
    /\ UNCHANGED <<disk, shown, failures, savedFp, worker, requested, queue, vanished,
                   update, roster, fresh, bounds>>

ApplyFailedVerify ==
    /\ Handling("GameFailedVerify")
    /\ \/ /\ RowsAt(Head(events).path) = {}
          /\ UNCHANGED <<db, shown, update>>
       \/ \E id \in RowsAt(Head(events).path) : deleteGame(id)
    /\ Handled
    /\ UNCHANGED <<disk, failures, savedFp, worker, requested, queue, mpc, vanished, roster,
                   fresh, bounds>>

(* Finished, once the unclaimed rows are gone: the rows the carousel is    *)
(* built from and the refused folders ...                                  *)
ApplyFinished ==
    /\ Handling("Finished") /\ vanished = {}
    /\ shown' = {i \in DOMAIN db : db[i].path \in Head(events).hier}
    /\ failures' = Head(events).failed
    /\ mpc' = "save"
    /\ UNCHANGED <<disk, db, savedFp, worker, requested, queue, events, vanished, update,
                   roster, fresh, bounds>>

(* ... and last the fingerprint of what was scanned.                       *)
SaveFingerprint ==
    /\ mpc = "save"
    /\ savedFp' = Head(events).fp
    /\ update' = [update EXCEPT !.finished = TRUE]
    /\ fresh' = {}
    /\ Handled
    /\ mpc' = "poll"
    /\ UNCHANGED <<disk, dbVars, worker, requested, queue, vanished, roster, bounds>>

(* External: the launcher applies the update to its carousel - the games   *)
(* gone, then the games added or refreshed - or reads the roster again     *)
(* when a scan finished.                                                   *)
Updated ==
    IF update.finished THEN [i \in DOMAIN db |-> db[i].path]
    ELSE [i \in (DOMAIN roster \ update.removed) \cup update.added |->
             IF i \in DOMAIN update.changed THEN update.changed[i] ELSE roster[i]]

EndPoll ==
    /\ mpc = "poll" /\ events = <<>>
    /\ roster' = Updated
    /\ update' = NoUpdate
    /\ mpc' = "frame"
    /\ UNCHANGED <<stick, worker, requested, queue, events, vanished, fresh, bounds>>

MainThread ==
    \/ BeginPoll
    \/ \E v \in vanished : DeleteUnclaimedVanished(v)
    \/ ApplyScanStarted \/ ApplyVerifiedGame \/ ReplaceDiscs \/ ApplyFailedVerify
    \/ ApplyFinished \/ SaveFingerprint
    \/ EndPoll

-----------------------------------------------------------------------------
(* The user: copies a game in, deletes one, moves its folder, or changes   *)
(* what it holds (a copy that completes).                                  *)

MidScan == wpc = "visit"

Edited ==
    \/ \E p \in Paths, d \in Discs \cup {NoGame} :
          d # disk[p] /\ disk' = [disk EXCEPT ![p] = d]
    \/ \E p \in GamesIn(disk), q \in Paths \ GamesIn(disk) :
          NameOf(p) = NameOf(q) /\ disk' = [disk EXCEPT ![p] = NoGame, ![q] = disk[p]]

EditGames ==
    /\ edits < MaxEdits
    /\ EditsDuringScan \/ ~MidScan
    /\ edits' = edits + 1
    /\ Edited
    /\ TreesReturn \/ disk' \notin past
    /\ past' = IF TreesReturn THEN past ELSE past \cup {disk'}
    /\ UNCHANGED <<dbVars, savedFp, worker, requested, queue, mainThread, requests, cuts>>

Next ==
    \/ Boot \/ PowerCut \/ requestScan
    \/ Worker
    \/ MainThread
    \/ EditGames

(* The worker thread and the launcher's frame loop keep running; nobody    *)
(* has to edit, to ask for a scan or to cut the power.                     *)
Fairness == WF_vars(Boot) /\ WF_vars(Worker) /\ WF_vars(MainThread)

Spec == Init /\ [][Next]_vars
FairSpec == Spec /\ Fairness

-----------------------------------------------------------------------------
(* Properties.                                                             *)

IsTable(t, rows) ==
    /\ IsFiniteSet(DOMAIN t) /\ DOMAIN t \subseteq Ids
    /\ t = [i \in DOMAIN t |-> t[i]]
    /\ \A i \in DOMAIN t : t[i] \in rows

StickOK ==
    /\ disk \in Trees
    /\ IsTable(db, Rows) /\ shown \subseteq Ids /\ failures \subseteq Paths
    /\ savedFp \in Trees \cup {NoTree}

WorkerOK ==
    /\ wpc \in {"off", "idle", "read", "visit", "finish"}
    /\ hier \subseteq Paths /\ todo \subseteq Paths /\ failed \subseteq Paths
    /\ {fp, lastScanned, lastCheck} \subseteq Trees \cup {NoTree}

UpdateOK ==
    /\ update = [removed |-> update.removed, added |-> update.added,
                 changed |-> update.changed, finished |-> update.finished]
    /\ update.removed \subseteq Ids /\ update.added \subseteq DOMAIN update.changed
    /\ IsTable(update.changed, Paths) /\ update.finished \in BOOLEAN

MainOK ==
    /\ mpc \in {"frame", "poll", "discs", "save"}
    /\ events \in Seq(Events)
    /\ vanished \subseteq Vanished
    /\ UpdateOK
    /\ IsTable(roster, Paths)
    /\ fresh \subseteq Ids

BoundsOK ==
    /\ past \subseteq Trees
    /\ edits \in 0..MaxEdits /\ requests \in 0..MaxRequests /\ cuts \in 0..MaxCuts

TypeOK ==
    /\ StickOK /\ WorkerOK /\ MainOK /\ BoundsOK
    /\ requested \in BOOLEAN /\ queue \in Seq(Events)

(* A game folder has one row: GAME has no constraint on PATH, so that is   *)
(* up to applyVerifiedGame, which a moved row, a failed one and a power    *)
(* cut between two scans all lead through.                                 *)
OneRowPerFolder ==
    \A i, j \in DOMAIN db : db[i].path = db[j].path => i = j

(* The rows kept aside for a running scan are rows of the database, as     *)
(* they were: what claimMovedGame hands out, and deleteUnclaimedVanished   *)
(* deletes, is never a row inserted, claimed or deleted since.             *)
VanishedAreTheirRows ==
    \A v \in vanished :
        /\ v.id \in DOMAIN db
        /\ NameOf(db[v.id].path) = v.name
        /\ db[v.id].discs = v.discs
        /\ v.id \notin fresh

(* "a previous scan that never reported Finished (it cannot happen, but)": *)
(* a scan's ScanStarted never meets the rows another scan left aside.      *)
NothingLeftAside == Handling("ScanStarted") => vanished = {}

(* The tables the carousel rows are built from only name games there are.  *)
ShownGamesExist == shown \subseteq DOMAIN db

(* Whenever a poll is over the launcher shows the games of the database,   *)
(* under the folders they are in - although an update does not say in what *)
(* order its removals and additions came, and ids are given out again.     *)
RosterFollowsDatabase ==
    mpc = "frame" /\ wpc # "off" => roster = [i \in DOMAIN db |-> db[i].path]

(* A game moved within Games/ keeps its row - id, history, last played:    *)
(* a row is not deleted by a scan that inserted another one for a game of  *)
(* the same folder name and the same discs.                                *)
MovedGameKeepsItsRow ==
    [][\A i \in DOMAIN db \ DOMAIN db' :
          Handling("Finished") =>
              \A j \in fresh \cap DOMAIN db :
                 ~(NameOf(db[j].path) = NameOf(db[i].path) /\ db[j].discs = db[i].discs)]_vars

Playable(tree) == {[path |-> p, discs |-> tree[p]] : p \in {q \in Paths : tree[q] \in Verifying}}
Refused(tree) == {p \in Paths : tree[p] \in Discs \ Verifying}

LibraryOf(tree) ==
    /\ {db[i] : i \in DOMAIN db} = Playable(tree)
    /\ shown = DOMAIN db
    /\ failures = Refused(tree)

(* The startup check may be trusted: a launcher that starts and finds the  *)
(* saved fingerprint to match the folder asks for no scan, and needs none. *)
SkippedScanIsNotOwed ==
    wpc = "off" /\ fingerprintsMatchDisk => LibraryOf(disk)

(* Once the user leaves the folder alone the library comes to be that      *)
(* folder, and stays it.                                                   *)
LibraryConverges == <>[](wpc # "off" => LibraryOf(disk) /\ RosterFollowsDatabase)
=============================================================================
