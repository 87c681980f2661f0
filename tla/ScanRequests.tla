---------------------------- MODULE ScanRequests ----------------------------
(***************************************************************************)
(* What ScanService scans, and when: the scopes its callers ask for, the   *)
(* watcher, the scanner processors held back while a game runs, and the    *)
(* end of the worker.                                                      *)
(*                                                                         *)
(* The main thread and the worker share five atomics and no lock, so every *)
(* load, store or exchange of one is a step of its own.  A tree is a       *)
(* version number; what a scan does with the games in it is ScanLibrary.   *)
(***************************************************************************)
EXTENDS Naturals, FiniteSets

CONSTANTS
    Apps,        \* ScanApps: a scope that names no tree, so nothing is scanned
    Packages,    \* ScanPackages: the RAM index of Packages/ is rebuilt
    Trees,       \* the watched trees, each a scope (Packages among them)
    Processed,   \* the trees a modifying processor is installed for
    MaxChanges,  \* bound: changes of the trees by the user
    MaxRequests, \* bound: calls of requestScan
    MaxSuspends, \* bound: games launched
    MaxStops     \* bound: calls of stop

Scopes == {Apps} \cup Trees

ASSUME ScanRequestsAssumption ==
    /\ Packages \in Trees /\ Apps \notin Trees
    /\ Processed \subseteq Trees \ {Packages}
    /\ {MaxChanges, MaxRequests, MaxSuspends, MaxStops} \subseteq Nat

VARIABLES
    (* the atomics *)
    scanRequested, stopping, watching, processorsSuspended, processorsHeldBack,
    (* the worker thread *)
    wpc,         \* "off", "start", "loop", "begin", "procs", "holding" or "running"
    due,         \* the scopes of the scan at hand
    waiting,     \* the trees whose processors have not had their turn in it
    lastScanned, lastCheck,  \* the fingerprints of the watcher, per tree
    (* the stick *)
    tree,        \* the version of each tree
    owed,        \* processors.state: the trees a modifying processor is to run on
    (* the main thread *)
    mpc,         \* "frame", "resuming", "asking" or "joining"
    (* history *)
    asked,       \* the scopes asked for and not yet taken into a scan
    dropped,     \* those of them that a resume took off the flag
    indexed,     \* the package index was built since the worker started
    touched,     \* the trees the user changed since their last scan ended
    moving,      \* the trees the user changed since they were last looked at
    (* bounds *)
    changes, requests, suspends, stops

atomics == <<scanRequested, stopping, watching, processorsSuspended, processorsHeldBack>>
worker  == <<wpc, due, waiting, lastScanned, lastCheck>>
stick   == <<tree, owed>>
history == <<asked, dropped, indexed, touched, moving>>
bounds  == <<changes, requests, suspends, stops>>
vars == <<atomics, worker, stick, mpc, history, bounds>>

Init ==
    /\ scanRequested = {} /\ stopping = FALSE /\ watching = TRUE
    /\ processorsSuspended = FALSE /\ processorsHeldBack = FALSE
    /\ wpc = "off" /\ due = {} /\ waiting = {}
    /\ tree = [t \in Trees |-> 0]
    /\ lastScanned = tree /\ lastCheck = tree
    /\ owed \in SUBSET Processed
    /\ mpc = "frame"
    /\ asked = {} /\ dropped = {} /\ indexed = FALSE /\ touched = {} /\ moving = {}
    /\ changes = 0 /\ requests = 0 /\ suspends = 0 /\ stops = 0

-----------------------------------------------------------------------------
(* The main thread.                                                        *)

requestScan(scopes) ==
    /\ mpc = "frame"
    /\ requests < MaxRequests /\ requests' = requests + 1
    /\ scanRequested' = scanRequested \cup scopes
    /\ asked' = asked \cup scopes /\ dropped' = dropped \ scopes
    /\ UNCHANGED <<stopping, watching, processorsSuspended, processorsHeldBack, worker, stick,
                   mpc, indexed, touched, moving, changes, suspends, stops>>

(* A game is launched: no watching, no processor that modifies files.      *)
Suspend ==
    /\ mpc = "frame" /\ ~processorsSuspended
    /\ suspends < MaxSuspends /\ suspends' = suspends + 1
    /\ processorsSuspended' = TRUE /\ watching' = FALSE
    /\ UNCHANGED <<scanRequested, stopping, processorsHeldBack, worker, stick, mpc, history,
                   changes, requests, stops>>

(* setProcessorsSuspended(false), its three steps on the atomics.          *)
Resume ==
    /\ mpc = "frame" /\ processorsSuspended
    /\ processorsSuspended' = FALSE /\ watching' = TRUE
    /\ mpc' = "resuming"
    /\ UNCHANGED <<scanRequested, stopping, processorsHeldBack, worker, stick, history, bounds>>

ExchangeHeldBack ==
    /\ mpc = "resuming"
    /\ mpc' = IF processorsHeldBack THEN "asking" ELSE "frame"
    /\ processorsHeldBack' = FALSE
    /\ UNCHANGED <<scanRequested, stopping, watching, processorsSuspended, worker, stick,
                   history, bounds>>

(* scanRequested_.store(true): a store, not a fetch_or, and 1 is ScanApps. *)
StoreRequest ==
    /\ mpc = "asking"
    /\ scanRequested' = {Apps}
    /\ dropped' = asked \ {Apps}
    /\ mpc' = "frame"
    /\ UNCHANGED <<stopping, watching, processorsSuspended, processorsHeldBack, worker, stick,
                   asked, indexed, touched, moving, bounds>>

stop ==
    /\ mpc = "frame" /\ wpc # "off"
    /\ stops < MaxStops /\ stops' = stops + 1
    /\ stopping' = TRUE
    /\ mpc' = "joining"
    /\ UNCHANGED <<scanRequested, watching, processorsSuspended, processorsHeldBack, worker,
                   stick, history, changes, requests, suspends>>

Joined ==
    /\ mpc = "joining" /\ wpc = "off"
    /\ stopping' = FALSE
    /\ mpc' = "frame"
    /\ UNCHANGED <<scanRequested, watching, processorsSuspended, processorsHeldBack, worker,
                   stick, history, bounds>>

start ==
    /\ mpc = "frame" /\ wpc = "off"
    /\ wpc' = "start"
    /\ indexed' = FALSE
    /\ UNCHANGED <<atomics, due, waiting, lastScanned, lastCheck, stick, mpc, asked, dropped,
                   touched, moving, bounds>>

MainSteps == ExchangeHeldBack \/ StoreRequest \/ Joined

-----------------------------------------------------------------------------
(* The worker.                                                             *)

StartRequestX == {}
StartRequest == {Packages}

(* threadMain up to its loop: the package index is RAM only, so every      *)
(* start asks for it; with the core picks due it asks for all.             *)
BeginThread ==
    /\ wpc = "start"
    /\ \E scopes \in {StartRequest, Scopes} :
          /\ scanRequested' = scanRequested \cup scopes
          /\ asked' = asked \cup scopes /\ dropped' = dropped \ scopes
    /\ lastCheck' = lastScanned
    /\ wpc' = "loop"
    /\ UNCHANGED <<stopping, watching, processorsSuspended, processorsHeldBack, due, waiting,
                   lastScanned, stick, mpc, indexed, touched, moving, bounds>>

EndThread ==
    /\ wpc = "loop" /\ stopping
    /\ wpc' = "off"
    /\ UNCHANGED <<atomics, due, waiting, lastScanned, lastCheck, stick, mpc, history, bounds>>

TakeRequest ==
    /\ wpc = "loop" /\ ~stopping /\ scanRequested # {}
    /\ due' = scanRequested /\ scanRequested' = {}
    /\ asked' = asked \ scanRequested
    /\ wpc' = "begin"
    /\ UNCHANGED <<stopping, watching, processorsSuspended, processorsHeldBack, waiting,
                   lastScanned, lastCheck, stick, mpc, dropped, indexed, touched, moving,
                   bounds>>

ChangedX == {t \in Trees : tree[t] # lastScanned[t]}
Changed == {t \in Trees : tree[t] # lastScanned[t] /\ tree[t] = lastCheck[t]}

checkForChanges ==
    /\ wpc = "loop" /\ ~stopping /\ scanRequested = {} /\ watching
    /\ due' = Changed
    /\ lastCheck' = tree
    /\ moving' = {}
    /\ wpc' = IF Changed = {} THEN "loop" ELSE "begin"
    /\ UNCHANGED <<atomics, waiting, lastScanned, stick, mpc, asked, dropped, indexed,
                   touched, bounds>>

Turns == due \cap Processed

BeginScan ==
    /\ wpc = "begin"
    /\ waiting' = Turns
    /\ wpc' = "procs"
    /\ UNCHANGED <<atomics, due, lastScanned, lastCheck, stick, mpc, history, bounds>>

(* ProcessorState::isSettled: it ran on this very tree.                    *)
SkipSettled ==
    /\ wpc = "procs" /\ ~(waiting \subseteq owed)
    /\ waiting' = waiting \cap owed
    /\ UNCHANGED <<atomics, wpc, due, lastScanned, lastCheck, stick, mpc, history, bounds>>

(* processorShouldStop before a run: stopping, held back, or started.      *)
SkipStopped ==
    /\ wpc = "procs" /\ waiting # {} /\ stopping
    /\ waiting' = {}
    /\ UNCHANGED <<atomics, wpc, due, lastScanned, lastCheck, stick, mpc, history, bounds>>

SkipSuspended ==
    /\ wpc = "procs" /\ waiting # {} /\ waiting \subseteq owed /\ ~stopping /\ processorsSuspended
    /\ wpc' = "holding"
    /\ UNCHANGED <<atomics, due, waiting, lastScanned, lastCheck, stick, mpc, history, bounds>>

StartProcessor ==
    /\ wpc = "procs" /\ waiting # {} /\ waiting \subseteq owed /\ ~stopping /\ ~processorsSuspended
    /\ wpc' = "running"
    /\ UNCHANGED <<atomics, due, waiting, lastScanned, lastCheck, stick, mpc, history, bounds>>

(* processorHeldBack_.store(true), a step after the load that led here.    *)
HoldBack ==
    /\ wpc = "holding"
    /\ processorsHeldBack' = TRUE
    /\ \E t \in waiting : waiting' = waiting \ {t}
    /\ wpc' = "procs"
    /\ UNCHANGED <<scanRequested, stopping, watching, processorsSuspended, due, lastScanned,
                   lastCheck, stick, mpc, history, bounds>>

(* A run ends by itself; what it wrote is a new version of the tree, and   *)
(* settled as it is then.                                                  *)
FinishProcessor ==
    /\ wpc = "running"
    /\ \E t \in waiting :
          /\ waiting' = waiting \ {t}
          /\ owed' = owed \ {t}
          /\ tree' = [tree EXCEPT ![t] = @ + 1]
    /\ wpc' = "procs"
    /\ UNCHANGED <<atomics, due, lastScanned, lastCheck, mpc, history, bounds>>

(* The runner's stop callback, asked all through a run.                    *)
StopProcessorX ==
    /\ wpc = "running" /\ processorsSuspended
    /\ wpc' = "holding"
    /\ UNCHANGED <<atomics, due, waiting, lastScanned, lastCheck, stick, mpc, history, bounds>>
StopProcessorXX ==
    /\ wpc = "running" /\ stopping
    /\ waiting' = {} /\ wpc' = "procs"
    /\ UNCHANGED <<atomics, due, lastScanned, lastCheck, stick, mpc, history, bounds>>

StopProcessor ==
    /\ wpc = "running" /\ (stopping \/ processorsSuspended)
    /\ IF stopping
       THEN waiting' = {} /\ wpc' = "procs"
       ELSE wpc' = "holding" /\ UNCHANGED waiting
    /\ UNCHANGED <<atomics, due, lastScanned, lastCheck, stick, mpc, history, bounds>>

(* Mutants: the trees remembered as they were before the processors ran; a *)
(* scan that does not remember them; requests dropped at the end of a scan.*)
ScannedX == lastCheck
ScannedXX == lastScanned
Scanned == [t \in Trees |-> IF t \in due THEN tree[t] ELSE lastScanned[t]]
StillAskedX == {}
StillAsked == scanRequested

(* runScan after the processors: the trees in scope are scanned and their  *)
(* fingerprints remembered, the package index rebuilt.  What the launcher  *)
(* is told at the end is not modelled.                                     *)
EndScan ==
    /\ wpc = "procs" /\ waiting = {}
    /\ lastScanned' = Scanned
    /\ lastCheck' = [t \in Trees |-> IF t \in due THEN tree[t] ELSE lastCheck[t]]
    /\ indexed' = (indexed \/ Packages \in due)
    /\ touched' = touched \ due
    /\ moving' = moving \ due
    /\ scanRequested' = StillAsked
    /\ due' = {}
    /\ wpc' = "loop"
    /\ UNCHANGED <<stopping, watching, processorsSuspended, processorsHeldBack, waiting, stick,
                   mpc, asked, dropped, bounds>>

Worker ==
    \/ BeginThread \/ EndThread \/ TakeRequest \/ checkForChanges \/ BeginScan
    \/ SkipSettled \/ SkipStopped \/ SkipSuspended \/ StartProcessor \/ HoldBack
    \/ FinishProcessor \/ StopProcessor \/ EndScan

-----------------------------------------------------------------------------
(* The user changes a tree; a new file may be one a processor wants.       *)
Change(t) ==
    /\ changes < MaxChanges /\ changes' = changes + 1
    /\ tree' = [tree EXCEPT ![t] = @ + 1]
    /\ owed' = IF t \in Processed THEN owed \cup {t} ELSE owed
    /\ touched' = touched \cup {t}
    /\ moving' = moving \cup {t}
    /\ UNCHANGED <<atomics, worker, mpc, asked, dropped, indexed, requests, suspends, stops>>

Next ==
    \/ \E scopes \in SUBSET Scopes \ {{}} : requestScan(scopes)
    \/ Suspend \/ Resume \/ stop \/ start
    \/ MainSteps
    \/ Worker
    \/ \E t \in Trees : Change(t)

(* The worker's loop runs on, and the runner asks its stop callback; the   *)
(* main thread finishes the call it is in.  A processor need not end by    *)
(* itself, and no game need be launched or left.                           *)
Fairness ==
    /\ WF_vars(MainSteps)
    /\ WF_vars(BeginThread \/ EndThread \/ TakeRequest \/ checkForChanges \/ BeginScan \/ SkipSettled
               \/ SkipStopped \/ SkipSuspended \/ StartProcessor \/ HoldBack \/ EndScan)
    /\ WF_vars(StopProcessor)

Spec == Init /\ [][Next]_vars
FairSpec == Spec /\ Fairness

(* What is up to others: processors that end, and games that are left.     *)
ProcessorsEnd == WF_vars(FinishProcessor)
OthersFinish == ProcessorsEnd /\ WF_vars(Resume)

-----------------------------------------------------------------------------
(* Properties.                                                             *)

TypeOK ==
    /\ scanRequested \subseteq Scopes /\ due \subseteq Scopes /\ waiting \subseteq Trees
    /\ {stopping, watching, processorsSuspended, processorsHeldBack, indexed} \subseteq BOOLEAN
    /\ wpc \in {"off", "start", "loop", "begin", "procs", "holding", "running"}
    /\ mpc \in {"frame", "resuming", "asking", "joining"}
    /\ {lastScanned, lastCheck, tree} \subseteq [Trees -> Nat]
    /\ owed \subseteq Processed
    /\ asked \subseteq Scopes /\ dropped \subseteq Scopes /\ touched \subseteq Trees /\ moving \subseteq Trees
    /\ {changes, requests, suspends, stops} \subseteq Nat

(* "Kept even while a scan runs": every request is taken into a scan,      *)
(* unless a resume stores over it, the worker is stopped or a processor    *)
(* does not end.                                                           *)
EveryRequestIsTaken ==
    ProcessorsEnd =>
        \A s \in Scopes : s \in asked ~> (s \notin asked \/ s \in dropped \/ wpc = "off" \/ stopping)

(* "The index is RAM only: every start builds it" - but for a resume that  *)
(* stores over what the start asked for.                                   *)
IndexIsBuilt ==
    ProcessorsEnd => (wpc = "loop" ~> (indexed \/ Packages \in dropped \/ wpc = "off" \/ stopping))

(* A game in front is soon alone: no modifying processor goes on running.  *)
SuspendedProcessorsStop == processorsSuspended ~> (~processorsSuspended \/ wpc # "running")

(* stop() returns: the worker leaves a scan, and a processor, for it.      *)
StopReturns == stopping ~> wpc = "off"

(* The debounce: the watcher starts a scan of a tree only when nothing     *)
(* moved in it between its last two looks at it.                           *)
Debounced ==
    [][scanRequested = {} /\ wpc = "loop" /\ wpc' = "begin" => due' \cap moving = {}]_vars

(* A scan does not answer its own work: what its processors wrote is no    *)
(* change for the watcher, only what the user did is.                      *)
WatcherIgnoresOwnWork ==
    [][scanRequested = {} /\ wpc = "loop" /\ wpc' = "begin" => due' \subseteq touched]_vars

(* Left alone, with processors that end, the worker comes to rest.         *)
ScansEnd == OthersFinish => <>[](wpc \in {"off", "loop"})
=============================================================================
