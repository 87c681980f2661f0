------------------------ MODULE ScanRequests_proofs ------------------------
(***************************************************************************)
(* Theorems about ScanRequests, for any trees, processors and bounds: its  *)
(* state is well formed, and what the watcher never does.                  *)
(***************************************************************************)
EXTENDS ScanRequests, TLAPS

USE DEF atomics, worker, stick, history, bounds

(* A processor's turn only comes in a scan of its tree.                    *)
Turned ==
    /\ waiting \subseteq due \cap Processed
    /\ wpc \in {"off", "start", "loop", "begin"} => waiting = {}

TypeInv == TypeOK /\ Turned

LEMMA TypeInit == Init => TypeInv
<1> SUFFICES ASSUME Init PROVE TypeInv
    OBVIOUS
<1>1. {stopping, watching, processorsSuspended, processorsHeldBack, indexed} \subseteq BOOLEAN
      BY DEF Init
<1>2. tree \in [Trees -> Nat] /\ lastScanned \in [Trees -> Nat] /\ lastCheck \in [Trees -> Nat]
      BY DEF Init
<1>3. owed \subseteq Processed /\ {changes, requests, suspends, stops} \subseteq Nat
      BY DEF Init
<1> QED BY <1>1, <1>2, <1>3 DEF Init, TypeInv, TypeOK, Turned

LEMMA TypeStep == TypeInv /\ [Next]_vars => TypeInv'
<1> SUFFICES ASSUME TypeInv, [Next]_vars PROVE TypeInv'
    OBVIOUS
<1> USE DEF TypeInv, TypeOK, Turned
<1>1. ASSUME NEW scopes \in SUBSET Scopes, requestScan(scopes) PROVE TypeInv'
      BY <1>1, ScanRequestsAssumption DEF requestScan
<1>2. CASE Suspend
  <2>1. {changes, requests, suspends, stops}' \subseteq Nat
        BY <1>2 DEF Suspend
  <2>2. {stopping, watching, processorsSuspended, processorsHeldBack, indexed}'
           \subseteq BOOLEAN
        BY <1>2 DEF Suspend
  <2> QED BY <1>2, <2>1, <2>2 DEF Suspend
<1>3. CASE Resume
      BY <1>3 DEF Resume
<1>4. CASE ExchangeHeldBack
      BY <1>4 DEF ExchangeHeldBack
<1>5. CASE StoreRequest
      BY <1>5 DEF StoreRequest, Scopes
<1>6. CASE stop
      BY <1>6, ScanRequestsAssumption DEF stop
<1>7. CASE Joined
      BY <1>7 DEF Joined
<1>8. CASE start
  <2>1. {stopping, watching, processorsSuspended, processorsHeldBack, indexed}' \subseteq BOOLEAN
        BY <1>8 DEF start
  <2> QED BY <1>8, <2>1 DEF start
<1>16. CASE BeginThread
  <2>1. StartRequest \subseteq Scopes
        BY ScanRequestsAssumption DEF StartRequest, Scopes
  <2>2. scanRequested' \subseteq Scopes /\ asked' \subseteq Scopes /\ dropped' \subseteq Scopes
        BY <1>16, <2>1 DEF BeginThread
  <2> QED BY <1>16, <2>2 DEF BeginThread
<1>9. CASE EndThread \/ TakeRequest \/ BeginScan \/ SkipSettled
      BY <1>9, ScanRequestsAssumption DEF EndThread, TakeRequest, BeginScan, Turns, SkipSettled
<1>10. CASE checkForChanges
       BY <1>10 DEF checkForChanges, Changed, Scopes
<1>11. CASE SkipStopped \/ SkipSuspended \/ StartProcessor \/ HoldBack \/ StopProcessor
       BY <1>11 DEF SkipStopped, SkipSuspended, StartProcessor, HoldBack, StopProcessor
<1>12. CASE FinishProcessor
  <2>1. tree' \in [Trees -> Nat] /\ owed' \subseteq owed
        BY <1>12 DEF FinishProcessor
  <2> QED BY <1>12, <2>1 DEF FinishProcessor
<1>13. CASE EndScan
  <2>1. lastScanned' \in [Trees -> Nat] /\ lastCheck' \in [Trees -> Nat]
        BY <1>13 DEF EndScan, Scanned
  <2>2. indexed' \in BOOLEAN
        BY <1>13 DEF EndScan
  <2> QED BY <1>13, <2>1, <2>2 DEF EndScan, StillAsked
<1>14. ASSUME NEW t \in Trees, Change(t) PROVE TypeInv'
  <2>1. tree' \in [Trees -> Nat] /\ owed' \subseteq Processed
        BY <1>14 DEF Change
  <2> QED BY <1>14, <2>1, ScanRequestsAssumption DEF Change
<1>15. CASE UNCHANGED vars
       BY <1>15 DEF vars
<1> QED BY <1>1, <1>2, <1>3, <1>4, <1>5, <1>6, <1>7, <1>8, <1>9, <1>10, <1>11, <1>12, <1>13,
           <1>14, <1>15, <1>16 DEF Next, MainSteps, Worker

LEMMA TypeInvariant == Spec => []TypeInv
BY TypeInit, TypeStep, PTL DEF Spec

(* Every variable stays in its type: no scan is of anything but scopes.    *)
THEOREM TypesAreKept == Spec => []TypeOK
<1>1. TypeInv => TypeOK
      BY DEF TypeInv
<1> QED BY <1>1, TypeInvariant, PTL

-----------------------------------------------------------------------------
(* The watcher.  A tree that is not as it was last scanned was touched by  *)
(* the user, or a scan of it is under way; and the versions the watcher    *)
(* remembers are never ahead of the tree.                                  *)

Busy == wpc \in {"begin", "procs", "holding", "running"}

WatcherInv ==
    /\ \A t \in Trees : tree[t] # lastScanned[t] => t \in touched \/ (Busy /\ t \in due)
    /\ \A t \in Trees : lastScanned[t] <= lastCheck[t] /\ lastCheck[t] <= tree[t]
    /\ \A t \in moving : lastCheck[t] < tree[t]

LEMMA WatcherStep == TypeInv /\ WatcherInv /\ [Next]_vars => WatcherInv'
<1> SUFFICES ASSUME TypeInv, WatcherInv, [Next]_vars PROVE WatcherInv'
    OBVIOUS
<1>0. /\ tree \in [Trees -> Nat] /\ lastScanned \in [Trees -> Nat] /\ lastCheck \in [Trees -> Nat]
      /\ waiting \subseteq due \cap Processed /\ moving \subseteq Trees
      BY DEF TypeInv, TypeOK, Turned
<1> USE DEF WatcherInv, Busy
<1>1. CASE UNCHANGED <<wpc, due, tree, lastScanned, lastCheck, touched, moving>>
      BY <1>1
<1>2. CASE start \/ BeginThread
      BY <1>0, <1>2 DEF start, BeginThread
<1>3. CASE EndThread \/ TakeRequest \/ BeginScan
  <2>1. UNCHANGED <<tree, lastScanned, lastCheck, touched, moving>>
        BY <1>3 DEF EndThread, TakeRequest, BeginScan
  <2>2. Busy /\ UNCHANGED due => Busy'
        BY <1>3 DEF EndThread, TakeRequest, BeginScan
  <2>3. ~Busy \/ UNCHANGED due
        BY <1>3 DEF EndThread, TakeRequest, BeginScan
  <2> QED BY <2>1, <2>2, <2>3
<1>4. CASE checkForChanges
  <2>1. lastCheck' = tree /\ moving' = {} /\ UNCHANGED <<tree, lastScanned, touched>> /\ ~Busy
        BY <1>4 DEF checkForChanges
  <2>2. \A t \in Trees : tree[t] \in Nat /\ lastScanned[t] \in Nat /\ lastCheck[t] \in Nat
        BY <1>0
  <2>3. \A t \in Trees : lastScanned[t] <= tree[t] /\ tree[t] <= tree[t]
        BY <2>2
  <2> QED BY <2>1, <2>3
<1>5. CASE SkipSettled \/ SkipStopped \/ SkipSuspended \/ StartProcessor \/ HoldBack
           \/ StopProcessor
      BY <1>0, <1>5 DEF SkipSettled, SkipStopped, SkipSuspended, StartProcessor, HoldBack,
         StopProcessor
<1>6. CASE FinishProcessor
      BY <1>0, <1>6 DEF FinishProcessor
<1>7. CASE EndScan
      BY <1>0, <1>7 DEF EndScan, Scanned
<1>8. ASSUME NEW t \in Trees, Change(t) PROVE WatcherInv'
  <2>1. tree' = [tree EXCEPT ![t] = tree[t] + 1] /\ touched' = touched \cup {t}
        /\ moving' = moving \cup {t} /\ UNCHANGED <<wpc, due, lastScanned, lastCheck>>
        BY <1>8 DEF Change
  <2>2. tree'[t] = tree[t] + 1 /\ \A u \in Trees \ {t} : tree'[u] = tree[u]
        BY <1>0, <2>1
  <2>3. \A u \in Trees : tree[u] \in Nat /\ lastScanned[u] \in Nat /\ lastCheck[u] \in Nat
        BY <1>0
  <2>4. \A u \in Trees : tree'[u] # lastScanned'[u] => u \in touched' \/ (Busy' /\ u \in due')
        BY <2>1, <2>2
  <2>5. \A u \in Trees : lastScanned'[u] <= lastCheck'[u] /\ lastCheck'[u] <= tree'[u]
        BY <2>1, <2>2, <2>3
  <2>6. \A u \in moving' : lastCheck'[u] < tree'[u]
        BY <1>0, <2>1, <2>2, <2>3
  <2> QED BY <2>4, <2>5, <2>6
<1>9. CASE (\E scopes \in SUBSET Scopes : requestScan(scopes)) \/ Suspend \/ Resume \/ stop
           \/ MainSteps \/ UNCHANGED vars
      BY <1>1, <1>9 DEF requestScan, Suspend, Resume, stop, MainSteps, ExchangeHeldBack,
         StoreRequest, Joined, vars
<1> QED BY <1>2, <1>3, <1>4, <1>5, <1>6, <1>7, <1>8, <1>9 DEF Next, Worker

LEMMA WatcherInvariant == Spec => []WatcherInv
<1>1. Init => WatcherInv
      BY DEF Init, WatcherInv
<1> QED BY <1>1, WatcherStep, TypeInvariant, PTL DEF Spec

(* The only step that starts a scan nobody asked for.                      *)
LEMMA UnaskedScans ==
    ASSUME [Next]_vars, scanRequested = {}, wpc = "loop", wpc' = "begin"
    PROVE  due' = Changed
<1>1. wpc' # wpc
      OBVIOUS
<1>2. ~ UNCHANGED vars
      BY <1>1 DEF vars
<1>3. checkForChanges
      BY <1>1, <1>2 DEF Next, Worker, MainSteps, requestScan, Suspend, Resume, stop, start,
         ExchangeHeldBack, StoreRequest, Joined, BeginThread, EndThread, TakeRequest, BeginScan, SkipSettled,
         SkipStopped, SkipSuspended, StartProcessor, HoldBack, FinishProcessor, StopProcessor,
         EndScan, Change
<1> QED BY <1>3 DEF checkForChanges

(* checkForChanges starts a scan of a tree only when it is as it was at    *)
(* the check before - no copy is scanned half-way.                         *)
THEOREM ScansWaitForTheCopy == Spec => Debounced
<1>1. TypeInv /\ WatcherInv /\ [Next]_vars =>
         [scanRequested = {} /\ wpc = "loop" /\ wpc' = "begin" => due' \cap moving = {}]_vars
  <2> SUFFICES ASSUME TypeInv, WatcherInv, [Next]_vars,
                      scanRequested = {}, wpc = "loop", wpc' = "begin"
               PROVE  due' \cap moving = {}
      OBVIOUS
  <2> QED BY UnaskedScans DEF Changed, TypeInv, TypeOK, WatcherInv
<1> QED BY <1>1, TypeInvariant, WatcherInvariant, PTL DEF Spec, Debounced

(* ... and never of a tree only its own scanner processors wrote to, since *)
(* the fingerprint is taken after they ran.                                *)
THEOREM ScansAnswerTheUser == Spec => WatcherIgnoresOwnWork
<1>1. TypeInv /\ WatcherInv /\ [Next]_vars =>
         [scanRequested = {} /\ wpc = "loop" /\ wpc' = "begin" => due' \subseteq touched]_vars
  <2> SUFFICES ASSUME TypeInv, WatcherInv, [Next]_vars,
                      scanRequested = {}, wpc = "loop", wpc' = "begin"
               PROVE  due' \subseteq touched
      OBVIOUS
  <2> QED BY UnaskedScans DEF Changed, TypeInv, TypeOK, WatcherInv, Busy
<1> QED BY <1>1, TypeInvariant, WatcherInvariant, PTL DEF Spec, WatcherIgnoresOwnWork
=============================================================================
