--------------------------- MODULE ScanProcessors ---------------------------
(***************************************************************************)
(* The scanner processors of one scan: foreign programs run over the games *)
(* folder and over each game in the user's order, what processors.state    *)
(* remembers of them, and the user's edits, the game launch, the stop and  *)
(* the power cut that come in between.  When a scan is asked for is        *)
(* ScanRequests' business; here it is one flag, of the PS1 scope, and the  *)
(* fingerprint the watcher compares with.                                  *)
(*                                                                         *)
(* What a game folder holds is one of a few contents, and a digest is the  *)
(* content; the digest of the tree is all of them.                         *)
(***************************************************************************)
EXTENDS Naturals, Sequences, FiniteSets, Functions

CONSTANTS
    NoLine,        \* no line in processors.state
    Tree,          \* Games/ itself, the target of the folder processors
    Games,         \* the game folders in the order they are visited, a sequence
    FolderChain,   \* the processors over the tree and over each game, each a
    GameChain,     \*   sequence in the user's order
    Contents,      \* what a game folder may hold
    Arrives,       \* what each may hold when it is put on the stick
    Takes,         \* the contents a processor says are its own
    Effect,        \* what it makes of them
    Modifies,      \* the processors that change files
    Events,        \* bound: which events happen, at most once each: "change",
                   \*   "suspend", "cut", "fail", "update", "request", "stop"
    MaxEvents      \* bound: how many of them in one behaviour

Processors == Range(FolderChain) \cup Range(GameChain)
Targets == <<Tree>> \o Games

ASSUME ScanProcessorsAssumption ==
    /\ Games \in Seq(Range(Games))
    /\ FolderChain \in Seq(Range(FolderChain)) /\ GameChain \in Seq(Range(GameChain))
    /\ Tree \notin Range(Games) /\ FolderChain # <<>> /\ GameChain # <<>>
    /\ Range(FolderChain) \cap Range(GameChain) = {}
    /\ Takes \in [Range(GameChain) -> SUBSET Contents]
    /\ Effect \in [Range(GameChain) -> [Contents -> Contents]]
    /\ NoLine \notin [version : Nat, digest : Contents, result : {"ok", "failed", "interrupted"}]
    /\ Arrives \in [Range(Games) -> SUBSET Contents] /\ Modifies \subseteq Processors
    /\ MaxEvents \in Nat

VARIABLES
    (* the stick *)
    content,    \* of each game folder
    version,    \* of each processor, as its processor.ini says
    disk,       \* processors.state
    scanned,    \* games.fingerprint: the folders as the last scan left them
    (* the worker *)
    entries,    \* ProcessorState::entries_
    pc,         \* "idle", "check", "skipping", "asking", "running", "worked", "killing"
    at,         \* the target and the place in its chain
    before,     \* digestBefore: of the target, when the step began
    round, changed,
    (* the atomics *)
    suspended, heldBack, stopping, requested,
    (* history *)
    touched,    \* the user changed the target since the step began
    seen,       \* the runs seen to their end and the questions answered
    unseen,     \* those recorded as such of a target the user changed under
                \*   them, and of questions that got no answer
    finished,   \* what each processor last ended on and got saved, per target
    disturbed,  \* something came between the last scan and what it is to do
    (* bound *)
    happened

stick   == <<content, version, disk, scanned>>
worker  == <<entries, pc, at, before, round, changed>>
atomics == <<suspended, heldBack, stopping, requested>>
records == <<seen, unseen, finished>>
history == <<touched, records, disturbed>>
vars == <<stick, worker, atomics, history, happened>>

Happens(event) ==
    /\ event \in Events \ happened /\ Cardinality(happened) < MaxEvents
    /\ happened' = happened \cup {event}

Digest(t) == IF t = Tree THEN content ELSE content[t]
Chain(t) == IF t = Tree THEN FolderChain ELSE GameChain
Line(p, d, result) == [version |-> version[p], digest |-> d, result |-> result]

(* Mutants: whatever the target holds by now, however the run ended.       *)
isSettledX(p, t) ==
    LET l == entries[<<p, t>>] IN l # NoLine /\ l.version = version[p] /\ l.result # "interrupted"
isSettledXX(p, t) ==
    LET l == entries[<<p, t>>] IN l # NoLine /\ l.version = version[p] /\ l.digest = Digest(t)
isSettled(p, t) ==
    LET l == entries[<<p, t>>] IN
    /\ l # NoLine
    /\ l.version = version[p] /\ l.digest = Digest(t)
    /\ l.result # "interrupted"

ShouldStop(p) == stopping \/ (p \in Modifies /\ suspended)

target == Targets[at.t]
processor == Chain(target)[at.k]

Init ==
    /\ content \in [Range(Games) -> Contents] /\ (\A g \in Range(Games) : content[g] \in Arrives[g])
    /\ scanned = content
    /\ version = [p \in Processors |-> 1]
    /\ disk = [k \in Processors \X Range(Targets) |-> NoLine] /\ entries = disk
    /\ pc = "idle" /\ at = [t |-> 1, k |-> 1] /\ before = content /\ round = 0 /\ changed = FALSE
    /\ suspended = FALSE /\ heldBack = FALSE /\ stopping = FALSE /\ requested = TRUE
    /\ touched = FALSE /\ seen = {} /\ unseen = {} /\ finished = disk /\ disturbed = TRUE
    /\ happened = {}

-----------------------------------------------------------------------------
(* The walk over the targets.                                              *)

NextTarget == at' = [t |-> at.t + 1, k |-> 1]
NextProcessor == IF at.k < Len(Chain(target)) THEN at' = [at EXCEPT !.k = @ + 1] ELSE NextTarget

(* A game's chain waits behind a step that failed or was stopped; the      *)
(* folder processors do not wait for one another.                          *)
ChainStops == IF target = Tree THEN NextProcessor ELSE NextTarget

(* A scan of the games that was asked for, or that the watcher starts - it *)
(* does not watch while a game runs.                                       *)
StartScan ==
    /\ pc = "idle" /\ ~stopping
    /\ requested \/ (content # scanned /\ ~suspended)
    /\ requested' = FALSE
    /\ entries' = disk
    /\ pc' = "check" /\ at' = [t |-> 1, k |-> 1] /\ round' = 0 /\ changed' = FALSE
    /\ disturbed' = suspended
    /\ UNCHANGED <<stick, before, suspended, heldBack, stopping, touched, records, happened>>

AtStep == pc = "check" /\ at.t <= Len(Targets) /\ ~stopping

StepIsSettled ==
    /\ AtStep /\ isSettled(processor, target)
    /\ NextProcessor
    /\ UNCHANGED <<stick, entries, pc, before, round, changed, atomics, history, happened>>

(* processorShouldStop before a start: the suspension is read, then the    *)
(* flag that resuming looks at is set.                                     *)
StepIsSuspended ==
    /\ AtStep /\ ~isSettled(processor, target) /\ ShouldStop(processor)
    /\ pc' = "skipping"
    /\ UNCHANGED <<stick, entries, at, before, round, changed, atomics, history, happened>>

StepIsHeldBack ==
    /\ pc = "skipping"
    /\ heldBack' = TRUE
    /\ pc' = "check"
    /\ ChainStops
    /\ UNCHANGED <<stick, entries, before, round, changed, suspended, stopping, requested, history,
                   happened>>

(* The target is digested; --ismine is asked about a game, and a folder    *)
(* processor is started at once.                                           *)
StepBegins ==
    /\ AtStep /\ ~isSettled(processor, target) /\ ~ShouldStop(processor)
    /\ before' = Digest(target)
    /\ touched' = FALSE
    /\ pc' = IF target = Tree THEN "running" ELSE "asking"
    /\ UNCHANGED <<stick, entries, at, round, changed, atomics, records, disturbed, happened>>

(* What is recorded as settled is a run or an answer of a target that      *)
(* stood still, or it is not.                                              *)
Settles(digest, answered) ==
    LET what == {<<processor, version[processor], target, digest>>} IN
    IF answered /\ ~touched THEN seen' = seen \cup what /\ UNCHANGED unseen
                            ELSE unseen' = unseen \cup what /\ UNCHANGED seen

(* "Not its business - remembered", of the digest from before the question.*)
Denied(answered) ==
    /\ entries' = [entries EXCEPT ![<<processor, target>>] = Line(processor, before, "ok")]
    /\ finished' = [finished EXCEPT ![<<processor, target>>] = NoLine]
    /\ Settles(before, answered)
    /\ pc' = "check"
    /\ NextProcessor

AnswersYes ==
    /\ pc = "asking" /\ content[target] \in Takes[processor]
    /\ pc' = "running"
    /\ UNCHANGED <<stick, entries, at, before, round, changed, atomics, history, happened>>

AnswersNo ==
    /\ pc = "asking" /\ content[target] \notin Takes[processor]
    /\ Denied(TRUE)
    /\ UNCHANGED <<stick, before, round, changed, atomics, touched, disturbed, happened>>

(* The question is stopped, exit -2, and anything but 0 is "not mine".     *)
QuestionIsStopped ==
    /\ pc = "asking" /\ ShouldStop(processor)
    /\ Denied(FALSE)
    /\ heldBack' = (heldBack \/ ~stopping)
    /\ UNCHANGED <<stick, before, round, changed, suspended, stopping, requested, touched, disturbed,
                   happened>>

(* So is a processor that does not start, or exits with an error.          *)
QuestionFails ==
    /\ pc = "asking"
    /\ Happens("fail")
    /\ Denied(FALSE)
    /\ UNCHANGED <<stick, before, round, changed, atomics, touched, disturbed>>

-----------------------------------------------------------------------------
(* ProcessorRunner::start and what runProcessor records of it.             *)

RunWorks ==
    /\ pc = "running"
    /\ content' = IF target = Tree THEN content
                  ELSE [content EXCEPT ![target] = Effect[processor][@]]
    /\ pc' = "worked"
    /\ UNCHANGED <<version, disk, scanned, entries, at, before, round, changed, atomics, history,
                   happened>>

(* The digest after the run, and processors.state saved with it.           *)
recordX(result) ==
    /\ entries' = [entries EXCEPT ![<<processor, target>>] = Line(processor, Digest(target), result)]
    /\ UNCHANGED disk
record(result) ==
    /\ entries' = [entries EXCEPT ![<<processor, target>>] = Line(processor, Digest(target), result)]
    /\ disk' = entries'

(* "*changed = true": a game's files are not what they were before.        *)
Noticed == changed' = (changed \/ (target # Tree /\ Digest(target) # before))

Ended(result) ==
    /\ record(result) /\ Noticed
    /\ pc' = "check"
    /\ Settles(Digest(target), TRUE)
    /\ finished' = [finished EXCEPT ![<<processor, target>>] = Line(processor, Digest(target), result)]

RunSucceeds ==
    /\ pc = "worked"
    /\ Ended("ok")
    /\ NextProcessor
    /\ UNCHANGED <<content, version, scanned, before, round, atomics, touched, disturbed, happened>>

(* An error, an exit without #DONE, or silence past its Timeout=.          *)
RunFails ==
    /\ pc \in {"running", "worked"}
    /\ Happens("fail")
    /\ Ended("failed")
    /\ ChainStops
    /\ UNCHANGED <<content, version, scanned, before, round, atomics, touched, disturbed>>

RunIsStopped ==
    /\ pc \in {"running", "worked"} /\ ShouldStop(processor)
    /\ pc' = "killing"
    /\ UNCHANGED <<stick, entries, at, before, round, changed, atomics, history, happened>>

RunIsKilled ==
    /\ pc = "killing"
    /\ heldBack' = (heldBack \/ ~stopping)
    /\ record("interrupted") /\ Noticed
    /\ pc' = "check"
    /\ ChainStops
    /\ finished' = [finished EXCEPT ![<<processor, target>>] = NoLine]
    /\ UNCHANGED <<content, version, scanned, before, round, suspended, stopping, requested, touched,
                   seen, unseen, disturbed, happened>>

-----------------------------------------------------------------------------
(* Round again for what a step made, three times at most; then the save,   *)
(* and the fingerprint of what is there.                                   *)
RoundAgainX ==
    /\ pc = "check" /\ at.t > Len(Targets) /\ ~stopping
    /\ changed /\ round < 2
    /\ changed' = FALSE
    /\ at' = [t |-> 2, k |-> 1]
    /\ UNCHANGED <<stick, entries, pc, before, round, atomics, history, happened>>
RoundAgain ==
    /\ pc = "check" /\ at.t > Len(Targets) /\ ~stopping
    /\ changed /\ round < 2
    /\ round' = round + 1 /\ changed' = FALSE
    /\ at' = [t |-> 2, k |-> 1]
    /\ UNCHANGED <<stick, entries, pc, before, atomics, history, happened>>

ScanEnds ==
    /\ pc = "check"
    /\ stopping \/ (at.t > Len(Targets) /\ ~(changed /\ round < 2))
    /\ disk' = entries
    /\ scanned' = content
    /\ pc' = "idle"
    /\ UNCHANGED <<content, version, entries, at, before, round, changed, atomics, history, happened>>

-----------------------------------------------------------------------------
(* The launcher, the user and the power switch.                            *)

Suspend ==
    /\ ~suspended /\ ~stopping
    /\ Happens("suspend")
    /\ suspended' = TRUE /\ disturbed' = TRUE
    /\ UNCHANGED <<stick, worker, heldBack, stopping, requested, touched, records>>

(* What was held back is asked for by a store over the request flag, and   *)
(* of ScanApps, a scan that opens no processor: a request for the games on *)
(* the flag is gone with it (ScanRequests).                                *)
Resume ==
    /\ suspended
    /\ suspended' = FALSE
    /\ requested' = (requested /\ ~heldBack) /\ heldBack' = FALSE
    /\ UNCHANGED <<stick, worker, stopping, history, happened>>

requestScan ==
    /\ Happens("request")
    /\ requested' = TRUE
    /\ UNCHANGED <<stick, worker, suspended, heldBack, stopping, history>>

(* The user puts other files into a game folder, at any moment.            *)
Change ==
    /\ Happens("change")
    /\ \E g \in Range(Games), c \in Contents :
          /\ c # content[g] /\ content' = [content EXCEPT ![g] = c]
          /\ touched' = (touched \/ (pc \in {"asking", "running", "worked", "killing"} /\ target \in {g, Tree}))
    /\ disturbed' = TRUE
    /\ UNCHANGED <<version, disk, scanned, worker, atomics, records>>

Update ==
    /\ pc = "idle" /\ Happens("update")
    /\ \E p \in Processors : version' = [version EXCEPT ![p] = @ + 1]
    /\ disturbed' = TRUE
    /\ UNCHANGED <<content, disk, scanned, worker, atomics, touched, records>>

stop ==
    /\ ~suspended /\ ~stopping
    /\ Happens("stop")
    /\ stopping' = TRUE /\ disturbed' = TRUE
    /\ UNCHANGED <<stick, worker, suspended, heldBack, requested, touched, records>>

(* Started again, the launcher asks for a scan if the tree is not the one  *)
(* the last scan left, or for reasons of its own; processors.state is not  *)
(* what it looks at.                                                       *)
StartAgain ==
    /\ suspended' = FALSE /\ heldBack' = FALSE /\ stopping' = FALSE
    /\ requested' \in {TRUE, content # scanned}
    /\ disturbed' = TRUE
    /\ UNCHANGED <<stick, touched, records>>

Restart == stopping /\ pc = "idle" /\ StartAgain /\ UNCHANGED <<worker, happened>>

PowerCut ==
    /\ Happens("cut")
    /\ entries' = disk /\ pc' = "idle"
    /\ StartAgain
    /\ UNCHANGED <<at, before, round, changed>>

-----------------------------------------------------------------------------
Worker ==
    \/ StartScan \/ StepIsSettled \/ StepIsSuspended \/ StepIsHeldBack \/ StepBegins
    \/ AnswersYes \/ AnswersNo \/ QuestionIsStopped \/ QuestionFails
    \/ RunWorks \/ RunSucceeds \/ RunFails \/ RunIsStopped \/ RunIsKilled
    \/ RoundAgain \/ ScanEnds
Others == Suspend \/ Resume \/ requestScan \/ Change \/ Update \/ stop \/ Restart \/ PowerCut
Next == Worker \/ Others

Spec == Init /\ [][Next]_vars

(* A processor answers and ends, or its time limit or the launcher ends    *)
(* it; whether a game is left or a launcher started again is up to others. *)
FairSpec == Spec /\ WF_vars(Worker)

-----------------------------------------------------------------------------
Digests(t) == IF t = Tree THEN [Range(Games) -> Contents] ELSE Contents
Lines(t) == [version : Nat, result : {"ok", "failed", "interrupted"}, digest : Digests(t)] \cup {NoLine}

TypeOK ==
    /\ {content, scanned} \subseteq [Range(Games) -> Contents]
    /\ version \in [Processors -> Nat]
    /\ \A p \in Processors, t \in Range(Targets) :
          {disk[<<p, t>>], entries[<<p, t>>], finished[<<p, t>>]} \subseteq Lines(t)
    /\ pc \in {"idle", "check", "skipping", "asking", "running", "worked", "killing"}
    /\ at.t \in 1 .. Len(Targets) + 1 /\ at.k \in Nat /\ round \in 0 .. 2
    /\ pc \in {"asking", "running", "worked", "killing"} => before \in Digests(target)
    /\ {changed, suspended, heldBack, stopping, requested, touched, disturbed} \subseteq BOOLEAN

(* A processor is passed over on a target as it stands only if, at this    *)
(* version, it ran on it to its end or said it is not its own (isSettled,  *)
(* and the lines runProcessor records) - or the user changed the target    *)
(* while it did, or its question was stopped or failed: runProcessor       *)
(* records those as settled as well.                                       *)
SkippedWasSeen ==
    \A p \in Processors, t \in Range(Targets) :
        pc # "idle" /\ isSettled(p, t) => <<p, version[p], t, Digest(t)>> \in seen \cup unseen

(* "A power cut mid-scan must not make the next one redo what is done": no *)
(* processor starts on a target that was, when its step began, what its    *)
(* last finished run at this version had left.                             *)
DoneOnce ==
    [][pc # "running" /\ pc' = "running" =>
          LET l == finished[<<processor, target>>] IN
          l = NoLine \/ l.version # version[processor] \/ l.digest # before']_vars

(* "Resumed, the next scan catches up": after a scan that nothing came     *)
(* between, and whose last round changed nothing, there is no step of any  *)
(* game's chain that a stop, a game, a power cut or an edit before it left *)
(* undone, but those behind a step that failed (runItemChains).            *)
CaughtUp(k, t) ==
    LET l == entries[<<GameChain[k], t>>] IN
    /\ l # NoLine
    /\ l.version = version[GameChain[k]] /\ l.digest = content[t] /\ l.result # "interrupted"
Failed(k, t) == CaughtUp(k, t) /\ entries[<<GameChain[k], t>>].result = "failed"

NextScanCatchesUp ==
    pc = "idle" /\ ~disturbed /\ ~changed =>
        \A t \in Range(Games), k \in 1 .. Len(GameChain) :
            CaughtUp(k, t) \/ \E j \in 1 .. k - 1 : Failed(j, t)

(* Scans end, also where two steps undo each other, whatever is stopped,   *)
(* fails or is held back (the three rounds of runScan).                    *)
ScansEnd == (pc # "idle") ~> (pc = "idle")
=============================================================================
