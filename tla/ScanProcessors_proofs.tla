----------------------- MODULE ScanProcessors_proofs -----------------------
(***************************************************************************)
(* Theorems about ScanProcessors, for any games, chains, contents and      *)
(* events: its state is well formed, no processor is passed over on what   *)
(* it has not seen through, none is started on what it is done with, and a *)
(* scan left alone leaves nothing undone that an earlier one left.         *)
(***************************************************************************)
EXTENDS ScanProcessors, SequenceTheorems, TLAPS

USE DEF stick, worker, atomics, records, history

-----------------------------------------------------------------------------
(* The targets and the chains.                                             *)

LEMMA TargetsAre ==
    /\ Len(Targets) \in Nat \ {0} /\ Targets[1] = Tree
    /\ \A i \in 2 .. Len(Targets) : Targets[i] \in Range(Games)
    /\ \A g \in Range(Games) : \E i \in 2 .. Len(Targets) : Targets[i] = g
    /\ Range(Targets) = {Tree} \cup Range(Games)
<1> DEFINE S == {Tree} \cup Range(Games)
<1>1. Games \in Seq(S) /\ <<Tree>> \in Seq(S) /\ Len(<<Tree>>) = 1 /\ <<Tree>>[1] = Tree
  <2>1. Games \in Seq(Range(Games))
        BY ScanProcessorsAssumption
  <2>2. Games \in Seq(S)
        BY <2>1, LenProperties, IsASeq
  <2> QED BY <2>2
<1>2. Len(Games) \in Nat /\ DOMAIN Games = 1 .. Len(Games)
      BY <1>1, LenProperties
<1>3. /\ Targets \in Seq(S) /\ Len(Targets) = 1 + Len(Games)
      /\ \A i \in 1 .. 1 + Len(Games) : Targets[i] = IF i <= 1 THEN <<Tree>>[i] ELSE Games[i - 1]
  <2> HIDE DEF S
  <2> QED BY <1>1, <1>2, ConcatProperties DEF Targets
<1>4. DOMAIN Targets = 1 .. Len(Targets)
      BY <1>3, LenProperties
<1>5. \A i \in 2 .. Len(Targets) : Targets[i] \in Range(Games)
  <2> SUFFICES ASSUME NEW i \in 2 .. Len(Targets) PROVE Targets[i] \in Range(Games)
      OBVIOUS
  <2>1. i - 1 \in DOMAIN Games /\ i \in 1 .. 1 + Len(Games) /\ ~ (i <= 1)
        BY <1>2, <1>3
  <2>2. Targets[i] = Games[i - 1]
        BY <1>3, <2>1
  <2> QED BY <2>1, <2>2 DEF Range
<1>10. ASSUME NEW j \in DOMAIN Games
       PROVE  j + 1 \in 2 .. Len(Targets) /\ j + 1 \in DOMAIN Targets /\ Targets[j + 1] = Games[j]
  <2>1. j + 1 \in 1 .. 1 + Len(Games) /\ (j + 1) - 1 = j /\ ~ (j + 1 <= 1) /\ j + 1 \in 2 .. 1 + Len(Games)
        BY <1>2
  <2> QED BY <1>3, <1>4, <2>1
<1>6. Range(Games) \subseteq Range(Targets)
      BY <1>10 DEF Range
<1>11. \A g \in Range(Games) : \E i \in 2 .. Len(Targets) : Targets[i] = g
       BY <1>10 DEF Range
<1>7. 1 \in DOMAIN Targets /\ Targets[1] = Tree
      BY <1>1, <1>2, <1>3, <1>4
<1>8. Range(Targets) \subseteq S
      BY <1>3, <1>4, ElementOfSeq DEF Range
<1>9. Tree \in Range(Targets)
      BY <1>7 DEF Range
<1> QED BY <1>2, <1>3, <1>5, <1>6, <1>7, <1>8, <1>9, <1>11

LEMMA ChainsAre ==
    ASSUME NEW t
    PROVE  /\ Len(Chain(t)) \in Nat \ {0}
           /\ \A k \in 1 .. Len(Chain(t)) :
                 /\ Chain(t)[k] \in Processors
                 /\ t # Tree => Chain(t)[k] \in Range(GameChain)
<1>1. ASSUME NEW s, s \in Seq(Range(s)), s # <<>>
      PROVE  Len(s) \in Nat \ {0} /\ \A k \in 1 .. Len(s) : s[k] \in Range(s)
      BY <1>1, LenProperties, EmptySeq, ElementOfSeq
<1>2. /\ FolderChain \in Seq(Range(FolderChain)) /\ FolderChain # <<>>
      /\ GameChain \in Seq(Range(GameChain)) /\ GameChain # <<>>
      BY ScanProcessorsAssumption
<1> QED BY <1>1, <1>2 DEF Chain, Processors

(* Where the worker is in the walk over the targets.                       *)
Busy == {"skipping", "asking", "running", "worked", "killing"}

Where ==
    /\ at \in [t : 1 .. Len(Targets) + 1, k : Nat \ {0}]
    /\ at.t <= Len(Targets) => at.k <= Len(Chain(target))
    /\ pc \in Busy => at.t <= Len(Targets)

LEMMA StepIsOfChain ==
    ASSUME Where, at.t <= Len(Targets)
    PROVE  /\ processor \in Processors /\ target \in Range(Targets)
           /\ target # Tree => processor \in Range(GameChain) /\ target \in Range(Games)
<1>1. at.t \in 1 .. Len(Targets) /\ at.k \in 1 .. Len(Chain(target))
      BY TargetsAre, ChainsAre DEF Where
<1>2. target \in Range(Targets) /\ (target # Tree => target \in Range(Games))
  <2>1. at.t = 1 \/ at.t \in 2 .. Len(Targets)
        BY <1>1, TargetsAre
  <2> QED BY <2>1, TargetsAre DEF target
<1> QED BY <1>1, <1>2, ChainsAre DEF processor

LEMMA StepsStayOnChains ==
    ASSUME Where, at.t <= Len(Targets), NextProcessor \/ NextTarget \/ ChainStops
    PROVE  /\ at' \in [t : 1 .. Len(Targets) + 1, k : Nat \ {0}]
           /\ at'.t <= Len(Targets) => at'.k <= Len(Chain(target'))
<1>1. /\ Len(Targets) \in Nat /\ at.t \in 1 .. Len(Targets) /\ at.k \in Nat \ {0}
      /\ at \in [t : 1 .. Len(Targets) + 1, k : Nat \ {0}]
      /\ at.k <= Len(Chain(target)) /\ Len(Chain(target)) \in Nat
      BY TargetsAre, ChainsAre DEF Where
<1>2. CASE NextTarget
  <2>1. at' = [t |-> at.t + 1, k |-> 1]
        BY <1>2 DEF NextTarget
  <2>2. Len(Chain(target')) \in Nat \ {0}
        BY ChainsAre
  <2> QED BY <1>1, <2>1, <2>2
<1>3. CASE at.k < Len(Chain(target)) /\ at' = [at EXCEPT !.k = @ + 1]
  <2>1. at'.t = at.t /\ at'.k = at.k + 1 /\ at' \in [t : 1 .. Len(Targets) + 1, k : Nat \ {0}]
        BY <1>1, <1>3
  <2>2. target' = target
        BY <2>1 DEF target
  <2> QED BY <1>1, <1>3, <2>1, <2>2
<1> QED BY <1>2, <1>3 DEF NextProcessor, ChainStops

-----------------------------------------------------------------------------
(* The parts of the invariant.                                             *)

Flags ==
    /\ changed \in BOOLEAN /\ suspended \in BOOLEAN /\ heldBack \in BOOLEAN
    /\ stopping \in BOOLEAN /\ requested \in BOOLEAN /\ touched \in BOOLEAN /\ disturbed \in BOOLEAN

Values ==
    /\ content \in [Range(Games) -> Contents] /\ scanned \in [Range(Games) -> Contents]
    /\ version \in [Processors -> Nat]
    /\ pc \in {"idle", "check"} \cup Busy /\ round \in 0 .. 2

(* The step under way has digested its target, and only about a game a     *)
(* processor is asked.                                                     *)
Working == {"asking", "running", "worked", "killing"}

Begun ==
    /\ pc \in Working => before \in Digests(target)
    /\ pc = "asking" => target # Tree

Keys == Processors \X Range(Targets)

(* Memories of processors, with a line or none for every step.             *)
WellFormed(table) ==
    /\ DOMAIN table = Keys
    /\ \A p \in Processors, t \in Range(Targets) : table[<<p, t>>] \in Lines(t)

Tables == WellFormed(disk) /\ WellFormed(entries) /\ WellFormed(finished)

(* What is remembered as done was seen through.                            *)
SeenThrough(table, runs) ==
    \A p \in Processors, t \in Range(Targets) :
        LET l == table[<<p, t>>] IN
        l # NoLine /\ l.result # "interrupted" => <<p, l.version, t, l.digest>> \in runs

(* What is done is on the stick, and in what the worker goes by.           *)
DoneIsKept ==
    \A p \in Processors, t \in Range(Targets) :
        LET l == finished[<<p, t>>] IN
        l # NoLine => disk[<<p, t>>] = l /\ entries[<<p, t>>] = l /\ l.result # "interrupted"

(* A step is only begun on what is not settled.                            *)
BegunOnUnsettled ==
    pc \in Working =>
        LET l == entries[<<processor, target>>] IN
        l = NoLine \/ l.version # version[processor] \/ l.digest # before \/ l.result = "interrupted"

Typed == Flags /\ Values /\ Where /\ Begun /\ Tables

LEMMA DigestsAreDigests ==
    ASSUME Values, NEW t \in Range(Targets)
    PROVE  Digest(t) \in Digests(t)
<1>1. t = Tree \/ (t # Tree /\ t \in Range(Games))
      BY TargetsAre
<1> QED BY <1>1 DEF Digest, Digests, Values

LEMMA LinesAreLines ==
    ASSUME Values, NEW t, NEW p \in Processors, NEW d \in Digests(t), NEW result \in {"ok", "failed", "interrupted"}
    PROVE  Line(p, d, result) \in Lines(t)
BY DEF Line, Lines, Values

(* One line written leaves a table well formed.                            *)
LEMMA LinesAreWritten ==
    ASSUME NEW table, WellFormed(table), NEW p \in Processors, NEW t \in Range(Targets), NEW l \in Lines(t)
    PROVE  WellFormed([table EXCEPT ![<<p, t>>] = l])
<1> DEFINE new == [table EXCEPT ![<<p, t>>] = l]
<1>1. DOMAIN new = DOMAIN table
      OBVIOUS
<1>2. ASSUME NEW q \in Processors, NEW u \in Range(Targets) PROVE new[<<q, u>>] \in Lines(u)
  <2>1. <<q, u>> \in DOMAIN table /\ table[<<q, u>>] \in Lines(u)
        BY DEF WellFormed, Keys
  <2>2. CASE <<q, u>> = <<p, t>>
        BY <2>1, <2>2
  <2>3. CASE <<q, u>> # <<p, t>>
        BY <2>1, <2>3
  <2> QED BY <2>2, <2>3
<1> HIDE DEF new
<1> QED BY <1>1, <1>2 DEF WellFormed

LEMMA TypedInit == Init => Typed
<1> SUFFICES ASSUME Init PROVE Typed
    OBVIOUS
<1>1. Flags
      BY DEF Init, Flags
<1>2. Values
      BY ScanProcessorsAssumption DEF Init, Values, Busy
<1>3. Where
      BY TargetsAre, ChainsAre DEF Init, Where, Busy
<1>4. Tables
      BY DEF Init, Tables, WellFormed, Keys, Lines
<1>5. Begun
      BY DEF Init, Begun, Working
<1> QED BY <1>1, <1>2, <1>3, <1>4, <1>5 DEF Typed

LEMMA FlagsStep == Flags /\ [Next]_vars => Flags'
<1> SUFFICES ASSUME Flags, [Next]_vars PROVE Flags'
    OBVIOUS
<1> USE DEF Flags
<1>1. CASE \/ StartScan \/ StepIsSettled \/ StepIsSuspended \/ StepIsHeldBack \/ StepBegins
           \/ AnswersYes \/ AnswersNo \/ QuestionFails \/ RunWorks \/ RunIsStopped
      BY <1>1 DEF StartScan, StepIsSettled, StepIsSuspended, StepIsHeldBack, StepBegins, AnswersYes,
         AnswersNo, QuestionFails, RunWorks, RunIsStopped
<1>2. CASE QuestionIsStopped \/ RunIsKilled
  <2>1. heldBack' \in BOOLEAN /\ changed' \in BOOLEAN
        BY <1>2 DEF QuestionIsStopped, RunIsKilled, Noticed
  <2> QED BY <1>2, <2>1 DEF QuestionIsStopped, RunIsKilled
<1>3. CASE RunSucceeds \/ RunFails
  <2>1. changed' \in BOOLEAN
        BY <1>3 DEF RunSucceeds, RunFails, Ended, Noticed
  <2> QED BY <1>3, <2>1 DEF RunSucceeds, RunFails
<1>4. CASE RoundAgain \/ ScanEnds
      BY <1>4 DEF RoundAgain, ScanEnds
<1>5. CASE Suspend \/ Update \/ stop \/ requestScan
      BY <1>5 DEF Suspend, Update, stop, requestScan
<1>6. CASE Resume
  <2>1. requested' \in BOOLEAN
        BY <1>6 DEF Resume
  <2> QED BY <1>6, <2>1 DEF Resume
<1>7. CASE Change
  <2>1. touched' \in BOOLEAN
        BY <1>7 DEF Change
  <2> QED BY <1>7, <2>1 DEF Change
<1>8. CASE Restart \/ PowerCut
  <2>1. requested' \in BOOLEAN
        BY <1>8 DEF Restart, PowerCut, StartAgain
  <2> QED BY <1>8, <2>1 DEF Restart, PowerCut, StartAgain
<1>9. CASE UNCHANGED vars
      BY <1>9 DEF vars
<1> QED BY <1>1, <1>2, <1>3, <1>4, <1>5, <1>6, <1>7, <1>8, <1>9 DEF Next, Worker, Others

LEMMA WhereStep == Where /\ [Next]_vars => Where'
<1> SUFFICES ASSUME Where, [Next]_vars PROVE Where'
    OBVIOUS
<1>1. ASSUME pc' \notin Busy, at.t <= Len(Targets), NextProcessor \/ NextTarget \/ ChainStops PROVE Where'
      BY <1>1, StepsStayOnChains DEF Where
<1>2. ASSUME UNCHANGED at, pc' \in Busy => at.t <= Len(Targets) PROVE Where'
      BY <1>2 DEF Where, target
<1>3. {"idle", "check"} \cap Busy = {}
      BY DEF Busy
<1>4. pc \in Busy => at.t <= Len(Targets)
      BY DEF Where
<1>5. CASE StartScan \/ RoundAgain
  <2>1. /\ at' \in [t : 1 .. Len(Targets) + 1, k : Nat \ {0}] /\ at'.k = 1
        /\ pc' = "check"
        BY <1>5, TargetsAre DEF StartScan, RoundAgain
  <2>2. Len(Chain(target')) \in Nat \ {0}
        BY ChainsAre
  <2> QED BY <1>3, <2>1, <2>2 DEF Where
<1>6. CASE StepIsSettled
      BY <1>1, <1>3, <1>6 DEF StepIsSettled, AtStep
<1>7. CASE StepIsSuspended \/ StepBegins
      BY <1>2, <1>7 DEF StepIsSuspended, StepBegins, AtStep
<1>8. CASE \/ StepIsHeldBack \/ AnswersNo \/ QuestionIsStopped \/ QuestionFails
           \/ RunSucceeds \/ RunFails \/ RunIsKilled
  <2>1. pc \in Busy /\ pc' = "check" /\ (NextProcessor \/ ChainStops)
        BY <1>8 DEF StepIsHeldBack, AnswersNo, QuestionIsStopped, QuestionFails, Denied, RunSucceeds, RunFails, RunIsKilled, Ended, Busy
  <2> QED BY <1>1, <1>3, <1>4, <2>1
<1>9. CASE AnswersYes \/ RunWorks \/ RunIsStopped
  <2>1. pc \in Busy /\ UNCHANGED at
        BY <1>9 DEF AnswersYes, RunWorks, RunIsStopped, Busy
  <2> QED BY <1>2, <1>4, <2>1
<1>10. CASE ScanEnds \/ PowerCut
       BY <1>2, <1>3, <1>10 DEF ScanEnds, PowerCut
<1>11. CASE Suspend \/ Resume \/ requestScan \/ Change \/ Update \/ stop \/ Restart \/ UNCHANGED vars
       BY <1>2, <1>4, <1>11 DEF Suspend, Resume, requestScan, Change, Update, stop, Restart, vars
<1> QED BY <1>5, <1>6, <1>7, <1>8, <1>9, <1>10, <1>11 DEF Next, Worker, Others

LEMMA ValuesStep == Values /\ Where /\ [Next]_vars => Values'
<1> SUFFICES ASSUME Values, Where, [Next]_vars PROVE Values'
    OBVIOUS
<1>3. pc \in Busy => at.t <= Len(Targets)
      BY DEF Where
<1> USE DEF Values
<1>4. CASE StartScan \/ RoundAgain \/ ScanEnds
      BY <1>4 DEF StartScan, RoundAgain, ScanEnds
<1>5. CASE StepIsSettled \/ StepIsSuspended \/ StepIsHeldBack \/ StepBegins
      BY <1>5 DEF StepIsSettled, StepIsSuspended, StepIsHeldBack, StepBegins, Busy
<1>7. CASE AnswersYes \/ AnswersNo \/ QuestionIsStopped \/ QuestionFails
      BY <1>7 DEF AnswersYes, AnswersNo, QuestionIsStopped, QuestionFails, Denied, Busy
<1>8. CASE RunWorks
  <2>1. pc' = "worked" /\ UNCHANGED <<version, scanned, round>>
        BY <1>8 DEF RunWorks
  <2>2. content' \in [Range(Games) -> Contents]
    <3>1. CASE target = Tree
          BY <1>8, <3>1 DEF RunWorks
    <3>2. CASE target # Tree
      <4>1. target \in Range(Games) /\ processor \in Range(GameChain)
            BY <1>3, <1>8, <3>2, StepIsOfChain DEF RunWorks, Busy
      <4>2. Effect[processor] \in [Contents -> Contents] /\ content[target] \in Contents
            BY <4>1, ScanProcessorsAssumption
      <4>3. Effect[processor][content[target]] \in Contents
            BY <4>2
      <4>4. content' = [content EXCEPT ![target] = Effect[processor][content[target]]]
            BY <1>8, <3>2 DEF RunWorks
      <4> QED BY <4>3, <4>4
    <3> QED BY <3>1, <3>2
  <2> QED BY <2>1, <2>2 DEF Busy
<1>9. CASE RunSucceeds \/ RunFails \/ RunIsStopped \/ RunIsKilled
      BY <1>9 DEF RunSucceeds, RunFails, RunIsStopped, RunIsKilled, Ended, Busy
<1>10. CASE Suspend \/ Resume \/ requestScan \/ stop
       BY <1>10 DEF Suspend, Resume, requestScan, stop
<1>11. CASE Change
       BY <1>11 DEF Change
<1>12. CASE Update
       BY <1>12 DEF Update
<1>13. CASE Restart \/ PowerCut
       BY <1>13 DEF Restart, PowerCut, StartAgain
<1>14. CASE UNCHANGED vars
       BY <1>14 DEF vars
<1> QED BY <1>4, <1>5, <1>7, <1>8, <1>9, <1>10, <1>11, <1>12, <1>13, <1>14 DEF Next, Worker, Others

(* The steps that begin nothing: the step under way goes on, or is over.   *)
LEMMA BegunSteps ==
    ASSUME [Next]_vars
    PROVE  \/ StepBegins
           \/ pc' \notin Working
           \/ /\ pc \in Working /\ UNCHANGED <<entries, version, at, before>>
              /\ pc' = "asking" => pc = "asking"
<1> USE DEF Working
<1>1. CASE \/ StartScan \/ StepIsSettled \/ StepIsSuspended \/ StepIsHeldBack \/ RoundAgain \/ ScanEnds
      BY <1>1 DEF StartScan, StepIsSettled, StepIsSuspended, StepIsHeldBack, RoundAgain, ScanEnds, AtStep
<1>2. CASE AnswersNo \/ QuestionIsStopped \/ QuestionFails \/ RunSucceeds \/ RunFails \/ RunIsKilled
      BY <1>2 DEF AnswersNo, QuestionIsStopped, QuestionFails, Denied, RunSucceeds, RunFails, RunIsKilled, Ended
<1>3. CASE AnswersYes \/ RunWorks \/ RunIsStopped
      BY <1>3 DEF AnswersYes, RunWorks, RunIsStopped
<1>4. CASE Suspend \/ Resume \/ requestScan \/ Change \/ stop \/ UNCHANGED vars
      BY <1>4 DEF Suspend, Resume, requestScan, Change, stop, vars
<1>5. CASE Update \/ Restart \/ PowerCut
      BY <1>5 DEF Update, Restart, PowerCut
<1> QED BY <1>1, <1>2, <1>3, <1>4, <1>5 DEF Next, Worker, Others

LEMMA BegunStep == Begun /\ Values /\ Where /\ [Next]_vars => Begun'
<1> SUFFICES ASSUME Begun, Values, Where, [Next]_vars PROVE Begun'
    OBVIOUS
<1>1. CASE StepBegins
  <2>1. /\ before' = Digest(target) /\ target' = target
        /\ pc' = "asking" => target # Tree
        BY <1>1 DEF StepBegins, target
  <2>2. Digest(target) \in Digests(target)
        BY <1>1, StepIsOfChain, DigestsAreDigests DEF StepBegins, AtStep
  <2> QED BY <2>1, <2>2 DEF Begun
<1>2. CASE pc' \notin Working
      BY <1>2 DEF Begun, Working
<1>3. CASE /\ pc \in Working /\ UNCHANGED <<entries, version, at, before>>
           /\ pc' = "asking" => pc = "asking"
      BY <1>3 DEF Begun, target
<1> QED BY <1>1, <1>2, <1>3, BegunSteps

-----------------------------------------------------------------------------
(* What the tables say.                                                    *)

(* The actions that write them, by what they write: nothing, the line of a *)
(* processor that ended, of one taken to say no, or of one that was        *)
(* killed, or one table over the other.                                    *)
runs == seen \cup unseen

Ends(result) ==
    /\ entries' = [entries EXCEPT ![<<processor, target>>] = Line(processor, Digest(target), result)]
    /\ disk' = entries'
    /\ finished' = [finished EXCEPT ![<<processor, target>>] = Line(processor, Digest(target), result)]
    /\ runs' = runs \cup {<<processor, version[processor], target, Digest(target)>>}

Refuses ==
    /\ pc = "asking"
    /\ entries' = [entries EXCEPT ![<<processor, target>>] = Line(processor, before, "ok")]
    /\ finished' = [finished EXCEPT ![<<processor, target>>] = NoLine]
    /\ disk' = disk
    /\ runs' = runs \cup {<<processor, version[processor], target, before>>}

IsKilled ==
    /\ entries' = [entries EXCEPT ![<<processor, target>>] = Line(processor, Digest(target), "interrupted")]
    /\ disk' = entries'
    /\ finished' = [finished EXCEPT ![<<processor, target>>] = NoLine]
    /\ runs' = runs

Copies ==
    /\ <<disk', entries'>> \in {<<disk, entries>>, <<disk, disk>>, <<entries, entries>>}
    /\ finished' = finished /\ runs' = runs

LEMMA SettlesIt ==
    ASSUME NEW d, NEW answered, Settles(d, answered)
    PROVE  runs' = runs \cup {<<processor, version[processor], target, d>>}
BY DEF Settles, runs

LEMMA Writes ==
    ASSUME Where, [Next]_vars
    PROVE  \/ at.t <= Len(Targets) /\ (Ends("ok") \/ Ends("failed") \/ Refuses \/ IsKilled)
           \/ Copies
<1>1. pc \in Busy => at.t <= Len(Targets)
      BY DEF Where
<1>2. CASE RunSucceeds
      BY <1>1, <1>2, SettlesIt DEF RunSucceeds, Ended, record, Ends, Busy
<1>3. CASE RunFails
      BY <1>1, <1>3, SettlesIt DEF RunFails, Ended, record, Ends, Busy
<1>4. CASE AnswersNo \/ QuestionIsStopped \/ QuestionFails
  <2>1. pc = "asking" /\ disk' = disk /\ \E answered \in BOOLEAN : Denied(answered)
        BY <1>4 DEF AnswersNo, QuestionIsStopped, QuestionFails
  <2> QED BY <1>1, <2>1, SettlesIt DEF Denied, Refuses, Busy
<1>6. CASE RunIsKilled
      BY <1>1, <1>6 DEF RunIsKilled, record, IsKilled, Busy, runs
<1>7. CASE StartScan \/ StepIsSettled \/ StepIsSuspended \/ StepIsHeldBack \/ StepBegins \/ AnswersYes
           \/ RunWorks \/ RunIsStopped \/ RoundAgain \/ ScanEnds
      BY <1>7 DEF StartScan, StepIsSettled, StepIsSuspended, StepIsHeldBack, StepBegins, AnswersYes,
             RunWorks, RunIsStopped, RoundAgain, ScanEnds, Copies, runs
<1>8. CASE Others \/ UNCHANGED vars
      BY <1>8 DEF Others, Suspend, Resume, requestScan, Change, Update, stop, Restart, PowerCut, StartAgain,
             vars, Copies, runs
<1> QED BY <1>2, <1>3, <1>4, <1>6, <1>7, <1>8 DEF Next, Worker

LEMMA TablesStep == Values /\ Where /\ Begun /\ Tables /\ [Next]_vars => Tables'
<1> SUFFICES ASSUME Values, Where, Begun, Tables, [Next]_vars PROVE Tables'
    OBVIOUS
<1>1. CASE Copies
      BY <1>1 DEF Copies, Tables
<1>2. CASE at.t <= Len(Targets) /\ (Ends("ok") \/ Ends("failed") \/ Refuses \/ IsKilled)
  <2>1. processor \in Processors /\ target \in Range(Targets)
        BY <1>2, StepIsOfChain
  <2>2. \A result \in {"ok", "failed", "interrupted"} : Line(processor, Digest(target), result) \in Lines(target)
        BY <2>1, DigestsAreDigests, LinesAreLines
  <2>3. NoLine \in Lines(target)
        BY DEF Lines
  <2>4. \A l \in Lines(target) : /\ WellFormed([entries EXCEPT ![<<processor, target>>] = l])
                                 /\ WellFormed([finished EXCEPT ![<<processor, target>>] = l])
        BY <2>1, LinesAreWritten DEF Tables
  <2>5. CASE Ends("ok") \/ Ends("failed")
        BY <2>2, <2>4, <2>5 DEF Ends, Tables
  <2>6. CASE Refuses
    <3>1. Line(processor, before, "ok") \in Lines(target)
          BY <2>1, <2>6, LinesAreLines DEF Refuses, Begun, Working
    <3> QED BY <3>1, <2>3, <2>4, <2>6 DEF Refuses, Tables
  <2>7. CASE IsKilled
        BY <2>2, <2>3, <2>4, <2>7 DEF IsKilled, Tables
  <2> QED BY <1>2, <2>5, <2>6, <2>7
<1> QED BY <1>1, <1>2, Writes

LEMMA SeenStep ==
    ASSUME Where, Tables, [Next]_vars, SeenThrough(disk, runs), SeenThrough(entries, runs)
    PROVE  SeenThrough(disk', runs') /\ SeenThrough(entries', runs')
<1>1. CASE Copies
      BY <1>1 DEF Copies
<1>2. ASSUME at.t <= Len(Targets), runs \subseteq runs', NEW l,
             entries' = [entries EXCEPT ![<<processor, target>>] = l],
             l.result # "interrupted" => <<processor, l.version, target, l.digest>> \in runs'
      PROVE  SeenThrough(entries', runs') /\ (disk' = disk => SeenThrough(disk', runs'))
  <2>1. <<processor, target>> \in DOMAIN entries
        BY <1>2, StepIsOfChain DEF Tables, WellFormed, Keys
  <2>2. SeenThrough(disk, runs')
        BY <1>2 DEF SeenThrough
  <2>3. ASSUME NEW p \in Processors, NEW t \in Range(Targets),
               entries'[<<p, t>>] # NoLine, entries'[<<p, t>>].result # "interrupted"
        PROVE  <<p, entries'[<<p, t>>].version, t, entries'[<<p, t>>].digest>> \in runs'
    <3>1. <<p, t>> \in DOMAIN entries
          BY DEF Tables, WellFormed, Keys
    <3>2. CASE <<p, t>> = <<processor, target>>
          BY <1>2, <2>1, <2>3, <3>2
    <3>3. CASE <<p, t>> # <<processor, target>>
      <4>1. entries'[<<p, t>>] = entries[<<p, t>>]
            BY <1>2, <3>1, <3>3
      <4> QED BY <1>2, <2>3, <4>1 DEF SeenThrough
    <3> QED BY <3>2, <3>3
  <2> QED BY <2>2, <2>3 DEF SeenThrough
<1>3. CASE at.t <= Len(Targets) /\ (Ends("ok") \/ Ends("failed"))
      BY <1>2, <1>3 DEF Ends, Line
<1>4. CASE at.t <= Len(Targets) /\ Refuses
      BY <1>2, <1>4 DEF Refuses, Line
<1>5. CASE at.t <= Len(Targets) /\ IsKilled
      BY <1>2, <1>5 DEF IsKilled, Line
<1> QED BY <1>1, <1>3, <1>4, <1>5, Writes

LEMMA DoneStep ==
    ASSUME Where, Tables, [Next]_vars, DoneIsKept
    PROVE  DoneIsKept'
<1>1. CASE Copies
      BY <1>1 DEF Copies, DoneIsKept
<1>2. ASSUME at.t <= Len(Targets), NEW l, NEW f, f = NoLine \/ (f = l /\ l.result # "interrupted" /\ disk' = entries'),
             entries' = [entries EXCEPT ![<<processor, target>>] = l],
             finished' = [finished EXCEPT ![<<processor, target>>] = f],
             disk' = disk \/ disk' = entries'
      PROVE  DoneIsKept'
  <2> SUFFICES ASSUME NEW p \in Processors, NEW t \in Range(Targets), finished'[<<p, t>>] # NoLine
               PROVE  LET d == finished'[<<p, t>>] IN
                      disk'[<<p, t>>] = d /\ entries'[<<p, t>>] = d /\ d.result # "interrupted"
      BY DEF DoneIsKept
  <2>1. /\ <<p, t>> \in DOMAIN entries /\ <<p, t>> \in DOMAIN finished
        /\ <<processor, target>> \in DOMAIN entries /\ <<processor, target>> \in DOMAIN finished
        BY <1>2, StepIsOfChain DEF Tables, WellFormed, Keys
  <2>2. CASE <<p, t>> = <<processor, target>>
        BY <1>2, <2>1, <2>2
  <2>3. CASE <<p, t>> # <<processor, target>>
    <3>1. entries'[<<p, t>>] = entries[<<p, t>>] /\ finished'[<<p, t>>] = finished[<<p, t>>]
          BY <1>2, <2>1, <2>3
    <3> QED BY <1>2, <3>1 DEF DoneIsKept
  <2> QED BY <2>2, <2>3
<1>3. CASE at.t <= Len(Targets) /\ (Ends("ok") \/ Ends("failed"))
      BY <1>2, <1>3 DEF Ends, Line
<1>4. CASE at.t <= Len(Targets) /\ (Refuses \/ IsKilled)
      BY <1>2, <1>4 DEF Refuses, IsKilled
<1> QED BY <1>1, <1>3, <1>4, Writes

LEMMA UnsettledStep ==
    ASSUME BegunOnUnsettled, [Next]_vars
    PROVE  BegunOnUnsettled'
<1>1. CASE StepBegins
  <2>1. ~isSettled(processor, target) /\ before' = Digest(target) /\ UNCHANGED <<entries, version, at>>
        BY <1>1 DEF StepBegins
  <2> QED BY <2>1 DEF BegunOnUnsettled, isSettled, processor, target
<1>2. CASE pc' \notin Working
      BY <1>2 DEF BegunOnUnsettled, Working
<1>3. CASE pc \in Working /\ UNCHANGED <<entries, version, at, before>>
      BY <1>3 DEF BegunOnUnsettled, processor, target
<1> QED BY <1>1, <1>2, <1>3, BegunSteps

-----------------------------------------------------------------------------
(* What a scan left alone has upheld so far: at every place of a game's    *)
(* chain it has passed, the line is of the game as it is - or as it was    *)
(* when the run under way began - or the place is behind one that failed.  *)
AsItWas(t) == IF pc = "worked" /\ t = target THEN before ELSE content[t]

DoneIn(table, v, d, k, t) ==
    LET l == table[<<GameChain[k], t>>] IN
    l # NoLine /\ l.version = v[GameChain[k]] /\ l.digest = d /\ l.result # "interrupted"

UpheldIn(table, v, d, k, t) ==
    \/ DoneIn(table, v, d, k, t)
    \/ \E j \in 1 .. k - 1 : DoneIn(table, v, d, j, t) /\ table[<<GameChain[j], t>>].result = "failed"

Passed(i, k) == i < at.t \/ (i = at.t /\ k < at.k)

Quiet == pc # "idle" /\ ~disturbed => ~suspended /\ ~stopping /\ pc \notin {"skipping", "killing"}
Standing == pc \in {"asking", "running"} /\ ~disturbed /\ target # Tree => content[target] = before

Upheld ==
    pc # "idle" /\ ~disturbed /\ ~changed =>
        \A i \in 2 .. Len(Targets), k \in 1 .. Len(GameChain) :
            Passed(i, k) => UpheldIn(entries, version, AsItWas(Targets[i]), k, Targets[i])

CatchesUp == Quiet /\ Standing /\ Upheld /\ NextScanCatchesUp

(* A line written where none held takes nothing away.                      *)
LEMMA UpheldIsKept ==
    ASSUME NEW table, WellFormed(table), NEW p, NEW u, NEW l, NEW v, NEW d, NEW t \in Range(Targets),
           NEW k \in 1 .. Len(GameChain), UpheldIn(table, v, d, k, t),
           t = u => LET o == table[<<p, u>>] IN
                    o = NoLine \/ o.version # v[p] \/ o.digest # d \/ o.result = "interrupted"
    PROVE  UpheldIn([table EXCEPT ![<<p, u>>] = l], v, d, k, t)
<1> DEFINE new == [table EXCEPT ![<<p, u>>] = l]
<1>1. ASSUME NEW j \in 1 .. Len(GameChain), DoneIn(table, v, d, j, t)
      PROVE  new[<<GameChain[j], t>>] = table[<<GameChain[j], t>>]
  <2>1. <<GameChain[j], t>> \in DOMAIN table
    <3>1. GameChain \in Seq(Range(GameChain))
          BY ScanProcessorsAssumption
    <3>2. GameChain[j] \in Range(GameChain)
          BY <3>1, ElementOfSeq
    <3> QED BY <3>2 DEF WellFormed, Keys, Processors
  <2>2. <<GameChain[j], t>> # <<p, u>>
        BY <1>1 DEF DoneIn
  <2> QED BY <2>1, <2>2
<1>2. \A j \in 1 .. Len(GameChain) : DoneIn(table, v, d, j, t) => DoneIn(new, v, d, j, t)
  <2> HIDE DEF new
  <2> QED BY <1>1 DEF DoneIn
<1>3. k - 1 \in Int /\ \A j \in 1 .. k - 1 : j \in 1 .. Len(GameChain)
  <2>1. Len(GameChain) \in Nat
        BY ScanProcessorsAssumption, LenProperties
  <2> QED BY <2>1
<1> HIDE DEF new
<1>4. UpheldIn(new, v, d, k, t)
      BY <1>1, <1>2, <1>3 DEF UpheldIn
<1> QED BY <1>4 DEF new

(* At a game's place the worker's step is the processor's of that place,   *)
(* and moving on passes it, and those behind it if the chain stops.        *)
LEMMA PlaceIsOfGame ==
    ASSUME Where, at.t \in 2 .. Len(Targets)
    PROVE  /\ target \in Range(Games) /\ target # Tree
           /\ at.k \in 1 .. Len(GameChain) /\ processor = GameChain[at.k]
<1>1. target \in Range(Games) /\ target # Tree
      BY TargetsAre, ScanProcessorsAssumption DEF target
<1>2. Chain(target) = GameChain
      BY <1>1 DEF Chain
<1> QED BY <1>1, <1>2, TargetsAre, ChainsAre DEF Where, processor

LEMMA PlacesPassed ==
    ASSUME Where, at.t <= Len(Targets), NextProcessor \/ NextTarget,
           NEW i \in 2 .. Len(Targets), NEW k \in 1 .. Len(GameChain), Passed(i, k)', ~Passed(i, k)
    PROVE  i = at.t /\ (k = at.k \/ (~NextProcessor /\ k > at.k))
<1>1. /\ Len(Targets) \in Nat /\ at.t \in 1 .. Len(Targets) /\ at.k \in Nat \ {0}
      /\ Len(GameChain) \in Nat
  <2>1. Len(GameChain) \in Nat
        BY ScanProcessorsAssumption, LenProperties
  <2> QED BY <2>1, TargetsAre DEF Where
<1>2. CASE NextTarget
  <2>1. at'.t = at.t + 1 /\ at'.k = 1
        BY <1>2 DEF NextTarget
  <2>2. i = at.t /\ k >= at.k
        BY <1>1, <2>1 DEF Passed
  <2>3. NextProcessor => k = at.k
    <3>1. Chain(target) = GameChain
          BY <2>2, PlaceIsOfGame DEF Chain
    <3>2. at' # [at EXCEPT !.k = @ + 1]
      <4>1. at \in [t : 1 .. Len(Targets) + 1, k : Nat \ {0}]
            BY DEF Where
      <4> QED BY <1>1, <2>1, <4>1
    <3>3. NextProcessor => ~ (at.k < Len(GameChain))
          BY <3>1, <3>2 DEF NextProcessor
    <3> QED BY <1>1, <2>2, <3>3
  <2> QED BY <1>1, <2>2, <2>3
<1>3. CASE at.k < Len(Chain(target)) /\ at' = [at EXCEPT !.k = @ + 1]
  <2>1. at'.t = at.t /\ at'.k = at.k + 1
    <3>1. at \in [t : 1 .. Len(Targets) + 1, k : Nat \ {0}]
          BY DEF Where
    <3> QED BY <1>3, <3>1
  <2> QED BY <1>1, <2>1 DEF Passed
<1> QED BY <1>2, <1>3 DEF NextProcessor

(* The step that writes no line: StepIsSettled passes its place.           *)
LEMMA SettledIsUpheld ==
    ASSUME Typed, Upheld, StepIsSettled
    PROVE  Upheld'
<1> SUFFICES ASSUME ~disturbed, ~changed, NEW i \in 2 .. Len(Targets), NEW k \in 1 .. Len(GameChain), Passed(i, k)'
             PROVE  UpheldIn(entries, version, content[Targets[i]], k, Targets[i])
    BY DEF Upheld, StepIsSettled, AtStep, AsItWas
<1>1. Where /\ at.t <= Len(Targets) /\ NextProcessor /\ isSettled(processor, target) /\ pc = "check"
      BY DEF Typed, StepIsSettled, AtStep
<1>2. CASE Passed(i, k)
      BY <1>1, <1>2 DEF Upheld, AsItWas
<1>3. CASE ~Passed(i, k)
  <2>1. i = at.t /\ k = at.k
        BY <1>1, <1>3, PlacesPassed
  <2>2. target = Targets[i] /\ target # Tree /\ processor = GameChain[k]
        BY <1>1, <2>1, PlaceIsOfGame DEF target
  <2> QED BY <1>1, <2>2 DEF isSettled, UpheldIn, DoneIn, Digest
<1> QED BY <1>2, <1>3

(* The steps that write one, of the game as it was when they began: there  *)
(* was no such line, and the place is passed.                              *)
LEMMA LineIsUpheld ==
    ASSUME Typed, Standing, BegunOnUnsettled, Upheld, at.t <= Len(Targets),
           pc \in {"asking", "running", "worked"}, pc' = "check",
           UNCHANGED <<content, version, disturbed>>,
           NEW d, NEW result \in {"ok", "failed"},
           entries' = [entries EXCEPT ![<<processor, target>>] = Line(processor, d, result)],
           ~changed' => ~changed /\ (target # Tree => d = before /\ content[target] = before),
           NextProcessor \/ (NextTarget /\ result = "failed")
    PROVE  Upheld'
<1> SUFFICES ASSUME ~disturbed, ~changed', NEW i \in 2 .. Len(Targets), NEW k \in 1 .. Len(GameChain), Passed(i, k)'
             PROVE  UpheldIn(entries', version, content[Targets[i]], k, Targets[i])
    BY DEF Upheld, AsItWas
<1>1. Where /\ WellFormed(entries) /\ Targets[i] \in Range(Targets) /\ Targets[i] # Tree
      BY TargetsAre, ScanProcessorsAssumption DEF Typed, Tables
<1>2. AsItWas(Targets[i]) = content[Targets[i]]
      BY <1>1 DEF AsItWas
<1>3. CASE Passed(i, k)
  <2>1. UpheldIn(entries, version, content[Targets[i]], k, Targets[i])
        BY <1>2, <1>3 DEF Upheld
  <2>2. Targets[i] = target =>
            LET o == entries[<<processor, target>>] IN
            o = NoLine \/ o.version # version[processor] \/ o.digest # content[Targets[i]] \/ o.result = "interrupted"
        BY <1>1 DEF BegunOnUnsettled, Working
  <2> QED BY <1>1, <2>1, <2>2, UpheldIsKept
<1>4. CASE ~Passed(i, k)
  <2>1. i = at.t /\ (k = at.k \/ (result = "failed" /\ k > at.k))
        BY <1>1, <1>4, PlacesPassed
  <2>2. target = Targets[i] /\ at.k \in 1 .. Len(GameChain) /\ processor = GameChain[at.k]
        BY <1>1, <2>1, PlaceIsOfGame DEF target
  <2>3. entries'[<<processor, target>>] = Line(processor, content[target], result)
    <3>1. <<processor, target>> \in DOMAIN entries
          BY <1>1, StepIsOfChain DEF WellFormed, Keys
    <3> QED BY <1>1, <2>2, <3>1
  <2>4. DoneIn(entries', version, content[target], at.k, target) /\ entries'[<<processor, target>>].result = result
    <3>1. Line(processor, content[target], result) # NoLine
      <4>1. version[processor] \in Nat /\ content[target] \in Contents
            BY <1>1, <2>2, StepIsOfChain DEF Typed, Values
      <4> QED BY <4>1, ScanProcessorsAssumption DEF Line
    <3> QED BY <2>2, <2>3, <3>1 DEF DoneIn, Line
  <2>5. CASE k = at.k
        BY <2>2, <2>4, <2>5 DEF UpheldIn
  <2>6. CASE result = "failed" /\ k > at.k
    <3>1. at.k \in 1 .. k - 1
          BY <2>2, <2>6
    <3> QED BY <2>2, <2>4, <2>6, <3>1 DEF UpheldIn
  <2> QED BY <2>1, <2>5, <2>6
<1> QED BY <1>3, <1>4

LEMMA QuietStep == Quiet /\ [Next]_vars => Quiet'
<1> SUFFICES ASSUME Quiet, [Next]_vars, pc' # "idle", ~disturbed'
             PROVE  ~suspended' /\ ~stopping' /\ pc' \notin {"skipping", "killing"}
    BY DEF Quiet
<1>1. CASE StartScan
      BY <1>1 DEF StartScan
<1>2. CASE StepIsSuspended \/ RunIsStopped
      BY <1>2 DEF StepIsSuspended, AtStep, RunIsStopped, ShouldStop, Quiet
<1>3. CASE StepIsSettled \/ StepIsHeldBack \/ StepBegins \/ AnswersYes \/ RunWorks \/ RoundAgain \/ ScanEnds
      BY <1>3 DEF StepIsSettled, StepIsHeldBack, StepBegins, AtStep, AnswersYes, RunWorks, RoundAgain, ScanEnds, Quiet
<1>4. CASE AnswersNo \/ QuestionIsStopped \/ QuestionFails \/ RunSucceeds \/ RunFails \/ RunIsKilled
  <2>1. pc # "idle" /\ pc' = "check" /\ UNCHANGED <<suspended, stopping, disturbed>>
        BY <1>4 DEF AnswersNo, QuestionIsStopped, QuestionFails, Denied, RunSucceeds, RunFails, Ended, RunIsKilled
  <2> QED BY <2>1 DEF Quiet
<1>5. CASE Resume \/ requestScan \/ UNCHANGED vars
      BY <1>5 DEF Resume, requestScan, vars, Quiet
<1>6. ~ (Suspend \/ Change \/ Update \/ stop \/ Restart \/ PowerCut)
      BY DEF Suspend, Change, Update, stop, Restart, PowerCut, StartAgain
<1> QED BY <1>1, <1>2, <1>3, <1>4, <1>5, <1>6 DEF Next, Worker, Others

LEMMA StandingStep == Standing /\ Where /\ [Next]_vars => Standing'
<1> SUFFICES ASSUME Standing, Where, [Next]_vars, pc' \in {"asking", "running"}, ~disturbed', target' # Tree
             PROVE  content'[target'] = before'
    BY DEF Standing
<1>1. CASE StepBegins
      BY <1>1 DEF StepBegins, target, Digest
<1>2. CASE AnswersYes \/ Resume \/ requestScan \/ UNCHANGED vars
      BY <1>2 DEF AnswersYes, Resume, requestScan, vars, Standing, target
<1>3. CASE Suspend \/ Change \/ Update \/ stop \/ Restart \/ PowerCut
      BY <1>3 DEF Suspend, Change, Update, stop, Restart, PowerCut, StartAgain
<1>4. ~ (\/ StartScan \/ StepIsSettled \/ StepIsSuspended \/ StepIsHeldBack \/ AnswersNo \/ QuestionIsStopped
         \/ QuestionFails \/ RunWorks \/ RunSucceeds \/ RunFails \/ RunIsStopped \/ RunIsKilled \/ RoundAgain \/ ScanEnds)
      BY DEF StartScan, StepIsSettled, StepIsSuspended, StepIsHeldBack, AnswersNo, QuestionIsStopped, QuestionFails,
         Denied, RunWorks, RunSucceeds, RunFails, Ended, RunIsStopped, RunIsKilled, RoundAgain, ScanEnds, AtStep
<1> QED BY <1>1, <1>2, <1>3, <1>4 DEF Next, Worker, Others

LEMMA UpheldStep ==
    ASSUME Typed, BegunOnUnsettled, Quiet, Standing, Upheld, [Next]_vars
    PROVE  Upheld'
<1>1. CASE StartScan \/ RoundAgain
  <2>1. at'.t \in {1, 2} /\ at'.k = 1
        BY <1>1 DEF StartScan, RoundAgain
  <2>2. \A i \in 2 .. Len(Targets), k \in 1 .. Len(GameChain) : ~Passed(i, k)'
        BY <2>1, TargetsAre DEF Passed
  <2> QED BY <2>2 DEF Upheld
<1>2. CASE StepIsSettled
      BY <1>2, SettledIsUpheld
<1>3. CASE AnswersNo \/ QuestionIsStopped \/ QuestionFails
  <2>1. /\ pc = "asking" /\ UNCHANGED <<content, version, disturbed, changed>>
        /\ entries' = [entries EXCEPT ![<<processor, target>>] = Line(processor, before, "ok")]
        /\ pc' = "check" /\ NextProcessor
        BY <1>3 DEF AnswersNo, QuestionIsStopped, QuestionFails, Denied
  <2>2. at.t <= Len(Targets)
        BY <2>1 DEF Typed, Where, Busy
  <2>3. CASE disturbed
        BY <2>1, <2>3 DEF Upheld
  <2>4. CASE ~disturbed
    <3>1. target # Tree => content[target] = before
          BY <2>1, <2>4 DEF Standing
    <3> QED BY <2>1, <2>2, <3>1, LineIsUpheld
  <2> QED BY <2>3, <2>4
<1>4. CASE RunSucceeds \/ RunFails
  <2>1. PICK result \in {"ok", "failed"} :
            /\ Ended(result) /\ pc \in {"running", "worked"} /\ UNCHANGED <<content, version, disturbed>>
            /\ NextProcessor \/ (NextTarget /\ result = "failed")
        BY <1>4 DEF RunSucceeds, RunFails, ChainStops
  <2>2. at.t <= Len(Targets)
        BY <2>1 DEF Typed, Where, Busy
  <2>3. entries' = [entries EXCEPT ![<<processor, target>>] = Line(processor, Digest(target), result)] /\ pc' = "check"
        BY <2>1 DEF Ended, record
  <2>4. ~changed' => ~changed /\ (target # Tree => Digest(target) = before /\ content[target] = before)
    <3>1. changed' = (changed \/ (target # Tree /\ Digest(target) # before))
          BY <2>1 DEF Ended, Noticed
    <3> QED BY <3>1 DEF Digest
  <2> QED BY <2>1, <2>2, <2>3, <2>4, LineIsUpheld
<1>5. CASE RunWorks
  <2> SUFFICES ASSUME ~disturbed, ~changed, NEW i \in 2 .. Len(Targets), NEW k \in 1 .. Len(GameChain), Passed(i, k)
               PROVE  UpheldIn(entries, version, AsItWas(Targets[i])', k, Targets[i])
      BY <1>5 DEF RunWorks, Upheld, Passed
  <2>1. UpheldIn(entries, version, content[Targets[i]], k, Targets[i])
        BY <1>5 DEF RunWorks, Upheld, AsItWas
  <2>2. Targets[i] # Tree /\ Targets[i] \in Range(Games) /\ DOMAIN content = Range(Games)
        BY TargetsAre, ScanProcessorsAssumption DEF Typed, Values
  <2>3. /\ pc = "running" /\ pc' = "worked" /\ target' = target /\ before' = before
        /\ content' = IF target = Tree THEN content ELSE [content EXCEPT ![target] = Effect[processor][@]]
        BY <1>5 DEF RunWorks, target
  <2>4. CASE Targets[i] = target
        BY <2>1, <2>2, <2>3, <2>4 DEF Standing, AsItWas
  <2>5. CASE Targets[i] # target
        BY <2>1, <2>2, <2>3, <2>5 DEF AsItWas
  <2> QED BY <2>4, <2>5
<1>6. CASE StepIsSuspended \/ StepIsHeldBack \/ RunIsStopped \/ RunIsKilled
  <2>1. disturbed' = disturbed /\ (suspended \/ stopping \/ pc \in {"skipping", "killing"}) /\ pc # "idle"
        BY <1>6 DEF StepIsSuspended, StepIsHeldBack, AtStep, RunIsStopped, RunIsKilled, ShouldStop
  <2> QED BY <2>1 DEF Quiet, Upheld
<1>7. CASE StepBegins \/ AnswersYes
  <2>1. /\ pc \notin {"idle", "worked"} /\ pc' # "worked"
        /\ UNCHANGED <<content, version, entries, at, changed, disturbed>>
        BY <1>7 DEF StepBegins, AnswersYes, AtStep
  <2> QED BY <2>1 DEF Upheld, AsItWas, Passed
<1>8. CASE Resume \/ requestScan \/ UNCHANGED vars
      BY <1>8 DEF Resume, requestScan, vars, Upheld, AsItWas, Passed, target
<1>9. CASE ScanEnds
      BY <1>9 DEF ScanEnds, Upheld
<1>10. CASE Suspend \/ Change \/ Update \/ stop \/ Restart \/ PowerCut
       BY <1>10 DEF Suspend, Change, Update, stop, Restart, PowerCut, StartAgain, Upheld
<1> QED BY <1>1, <1>2, <1>3, <1>4, <1>5, <1>6, <1>7, <1>8, <1>9, <1>10 DEF Next, Worker, Others

(* A scan that ends has passed every place, and until something comes in   *)
(* between nothing of what it upheld is lost.                              *)
LEMMA CatchesUpStep ==
    ASSUME Typed, Quiet, Upheld, NextScanCatchesUp, [Next]_vars
    PROVE  NextScanCatchesUp'
<1> SUFFICES ASSUME pc' = "idle", ~disturbed', ~changed'
             PROVE  \A t \in Range(Games), k \in 1 .. Len(GameChain) :
                        (CaughtUp(k, t) \/ \E j \in 1 .. k - 1 : Failed(j, t))'
    BY DEF NextScanCatchesUp
<1>1. CASE ScanEnds
  <2> SUFFICES ASSUME NEW t \in Range(Games), NEW k \in 1 .. Len(GameChain)
               PROVE  CaughtUp(k, t) \/ \E j \in 1 .. k - 1 : Failed(j, t)
      BY <1>1 DEF ScanEnds, CaughtUp, Failed
  <2>1. pc = "check" /\ ~disturbed /\ ~changed
        BY <1>1 DEF ScanEnds
  <2>2. at.t > Len(Targets)
        BY <1>1, <2>1 DEF ScanEnds, Quiet
  <2>3. PICK i \in 2 .. Len(Targets) : Targets[i] = t
        BY TargetsAre
  <2>4. Passed(i, k)
        BY <2>2, TargetsAre DEF Passed, Typed, Where
  <2>5. UpheldIn(entries, version, content[t], k, t)
        BY <2>1, <2>3, <2>4 DEF Upheld, AsItWas
  <2> QED BY <2>5 DEF UpheldIn, DoneIn, CaughtUp, Failed
<1>2. CASE Resume \/ requestScan \/ UNCHANGED vars
      BY <1>2 DEF Resume, requestScan, vars, NextScanCatchesUp, CaughtUp, Failed
<1>3. ~ (Suspend \/ Change \/ Update \/ stop \/ Restart \/ PowerCut)
      BY DEF Suspend, Change, Update, stop, Restart, PowerCut, StartAgain
<1>4. ~ (\/ StartScan \/ StepIsSettled \/ StepIsSuspended \/ StepIsHeldBack \/ StepBegins \/ AnswersYes \/ AnswersNo
         \/ QuestionIsStopped \/ QuestionFails \/ RunWorks \/ RunSucceeds \/ RunFails \/ RunIsStopped \/ RunIsKilled
         \/ RoundAgain)
      BY DEF StartScan, StepIsSettled, StepIsSuspended, StepIsHeldBack, StepBegins, AnswersYes, AnswersNo,
         QuestionIsStopped, QuestionFails, Denied, RunWorks, RunSucceeds, RunFails, Ended, RunIsStopped, RunIsKilled,
         RoundAgain, AtStep
<1> QED BY <1>1, <1>2, <1>3, <1>4 DEF Next, Worker, Others

-----------------------------------------------------------------------------
(* Spec => []Typed: the walk is at a place of a chain, and every line of   *)
(* processors.state, in RAM and on disk, is of a processor and a target.   *)
THEOREM Types == Spec => []Typed
<1>1. Typed /\ [Next]_vars => Typed'
      BY FlagsStep, ValuesStep, WhereStep, BegunStep, TablesStep DEF Typed
<1> QED BY <1>1, TypedInit, PTL DEF Spec

(* Spec => []TypeOK: the walk stays within the chains, and processors.state*)
(* holds a line or none for every processor and target.                    *)
THEOREM TypesAreKept == Spec => []TypeOK
<1>1. Typed => TypeOK
  <2> SUFFICES ASSUME Typed PROVE TypeOK
      OBVIOUS
  <2>1. {changed, suspended, heldBack, stopping, requested, touched, disturbed} \subseteq BOOLEAN
        BY DEF Typed, Flags
  <2>2. at.t \in 1 .. Len(Targets) + 1 /\ at.k \in Nat
        BY TargetsAre DEF Typed, Where
  <2>3. \A p \in Processors, t \in Range(Targets) :
           {disk[<<p, t>>], entries[<<p, t>>], finished[<<p, t>>]} \subseteq Lines(t)
        BY DEF Typed, Tables, WellFormed
  <2>4. pc \in {"asking", "running", "worked", "killing"} => before \in Digests(target)
        BY DEF Typed, Begun, Working
  <2>5. {content, scanned} \subseteq [Range(Games) -> Contents]
        BY DEF Typed, Values
  <2> QED BY <2>1, <2>2, <2>3, <2>4, <2>5 DEF Typed, Values, TypeOK, Busy
<1> QED BY <1>1, Types, PTL

(* Spec => []SkippedWasSeen: no processor is passed over on a target it    *)
(* did not see through or refuse as it stands, at its version, whatever    *)
(* fails, is held back, killed or cut - but where the user changed the     *)
(* target under it, or its question got no answer (runProcessor).          *)
THEOREM NothingIsPassedOver == Spec => []SkippedWasSeen
<1> DEFINE Remembered == SeenThrough(disk, runs) /\ SeenThrough(entries, runs)
<1>1. Init => Remembered
      BY DEF Init, SeenThrough
<1>2. Typed /\ Remembered /\ [Next]_vars => Remembered'
      BY SeenStep DEF Typed
<1>3. Remembered => SkippedWasSeen
      BY DEF SeenThrough, SkippedWasSeen, isSettled, runs
<1> HIDE DEF Remembered
<1> QED BY <1>1, <1>2, <1>3, Types, PTL DEF Spec

(* Spec => DoneOnce: no processor is started on what its last finished run *)
(* left as it is, at the same version - a scan cut by the power included   *)
(* (processors.state is saved after every step, runProcessor).             *)
THEOREM NothingIsRedone == Spec => DoneOnce
<1>1. Init => DoneIsKept /\ BegunOnUnsettled
      BY DEF Init, DoneIsKept, BegunOnUnsettled, Working
<1>2. Typed /\ DoneIsKept /\ BegunOnUnsettled /\ [Next]_vars => (DoneIsKept /\ BegunOnUnsettled)'
      BY DoneStep, UnsettledStep DEF Typed
<1>3. ASSUME Typed, DoneIsKept, BegunOnUnsettled, [Next]_vars, pc # "running", pc' = "running"
      PROVE  LET l == finished[<<processor, target>>] IN
             l = NoLine \/ l.version # version[processor] \/ l.digest # before'
  <2>1. /\ at.t <= Len(Targets)
        /\ LET l == entries[<<processor, target>>] IN
           l = NoLine \/ l.version # version[processor] \/ l.digest # before' \/ l.result = "interrupted"
    <3>1. CASE StepBegins
          BY <3>1 DEF StepBegins, AtStep, isSettled
    <3>2. CASE AnswersYes
          BY <1>3, <3>2 DEF AnswersYes, BegunOnUnsettled, Typed, Where, Busy, Working
    <3>3. Worker => StepBegins \/ AnswersYes
          BY <1>3 DEF Worker, StartScan, StepIsSettled, StepIsSuspended, StepIsHeldBack, AnswersNo,
                 QuestionIsStopped, QuestionFails, Denied, RunWorks, RunSucceeds, RunFails, Ended,
                 RunIsStopped, RunIsKilled, RoundAgain, ScanEnds, AtStep
    <3>4. ~Others /\ ~UNCHANGED vars
          BY <1>3 DEF Others, Suspend, Resume, requestScan, Change, Update, stop, Restart, PowerCut,
                 StartAgain, vars
    <3> QED BY <1>3, <3>1, <3>2, <3>3, <3>4 DEF Next
  <2>2. processor \in Processors /\ target \in Range(Targets)
        BY <1>3, <2>1, StepIsOfChain DEF Typed
  <2> QED BY <1>3, <2>1, <2>2 DEF DoneIsKept
<1>4. Typed /\ DoneIsKept /\ BegunOnUnsettled /\ [Next]_vars =>
        [pc # "running" /\ pc' = "running" =>
            LET l == finished[<<processor, target>>] IN
            l = NoLine \/ l.version # version[processor] \/ l.digest # before']_vars
      BY <1>3
<1> QED BY <1>1, <1>2, <1>4, Types, PTL DEF Spec, DoneOnce

(* Spec => []NextScanCatchesUp: a scan nothing came between, whose last    *)
(* round changed nothing, leaves no step of a game's chain undone, whatever*)
(* stopped, held back, killed or cut the scans before it - but those behind*)
(* a step that failed (runScan and runItemChains).                         *)
THEOREM NothingIsLeftUndone == Spec => []NextScanCatchesUp
<1>1. Init => BegunOnUnsettled /\ CatchesUp
      BY DEF Init, BegunOnUnsettled, Working, CatchesUp, Quiet, Standing, Upheld, NextScanCatchesUp
<1>2. Typed /\ BegunOnUnsettled /\ CatchesUp /\ [Next]_vars => (BegunOnUnsettled /\ CatchesUp)'
      BY UnsettledStep, QuietStep, StandingStep, UpheldStep, CatchesUpStep DEF CatchesUp, Typed
<1>3. CatchesUp => NextScanCatchesUp
      BY DEF CatchesUp
<1> QED BY <1>1, <1>2, <1>3, Types, PTL DEF Spec
=============================================================================
