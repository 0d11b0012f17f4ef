-------------------------- MODULE LifecycleProofs --------------------------
(***************************************************************************)
(* What the holder of a run knows about it, and two consequences: cancelled*)
(* runs are audited at most once, and the engine implements Lifecycle.     *)
(***************************************************************************)
EXTENDS EngineProofs

\* What p has read or written about its run and may still rely on.
Knows(p) ==
  LET r == on[p] IN
  /\ pc[p] \in {"mark", "fail", "cancel_status"} => status[r] \in {"Running", "Awaiting"}
  /\ pc[p] \in {"body", "suspend", "succeed", "error"} => status[r] = "Running"
  /\ pc[p] = "wakeup" => status[r] = "Awaiting"
  /\ pc[p] = "succeed" => done[r] = Len(Plan[r])
  /\ pc[p] = "cancel_audit" => status[r] = "Cancelled" /\ audit[r] = 0
  /\ pc[p] = "cancel_clear" => status[r] = "Cancelled"
  /\ pc[p] = "retry_reset" => status[r] = "Failed"
  /\ pc[p] \in {"notify", "close"} => IsTerminal(status[r])

\* Nobody works on a run before Start has created it.
NotBefore == \A r \in Runs : starting[r] = "no" => status[r] = None

HolderInv == (\A p \in Procs : Knows(p)) /\ NotBefore /\ CancelAudited

\* The inductive invariant: exclusion is what keeps a holder's knowledge fresh.
RunInv == TypeInv /\ KindInv /\ LockInv /\ HolderInv

runVars == <<status, done, audit>>

\* p alone moves, and nothing happens to a run but the one p holds.
Alone(p) ==
  /\ Others(p) /\ pc[p] \in Critical
  /\ \A r \in Runs : r # on[p] => /\ status'[r] = status[r]
                                  /\ done'[r] = done[r]
                                  /\ audit'[r] = audit[r]

\* What the others know stays true when p changes the run it holds: they hold
\* other runs.
LEMMA OthersKnow ==
  ASSUME RunInv, NEW p \in Procs, Alone(p), NEW q \in Procs \ {p}
  PROVE  Knows(q)'
<1>1. CASE pc[q] \in Critical
  <2>1. on[q] \in Runs /\ on[q] # on[p]
    BY <1>1 DEF RunInv, TypeInv, OnRuns, Busy, LockInv, MutualExclusion, Holds, Alone
  <2>2. /\ status'[on[q]] = status[on[q]] /\ done'[on[q]] = done[on[q]]
        /\ audit'[on[q]] = audit[on[q]] /\ pc'[q] = pc[q] /\ on'[q] = on[q]
    BY <2>1 DEF Alone, Others
  <2>3. QED
    BY <2>2 DEF RunInv, HolderInv, Knows
<1>2. CASE pc[q] \notin Critical
  BY <1>2 DEF Alone, Others, Knows, Critical
<1>3. QED
  BY <1>1, <1>2

\* A step that leaves the runs alone makes nobody's knowledge stale but, at most,
\* that of the process that moves.
LEMMA SameRuns ==
  ASSUME RunInv, UNCHANGED runVars, NEW q \in Procs, pc'[q] = pc[q], on'[q] = on[q]
  PROVE  Knows(q)'
BY DEF RunInv, HolderInv, Knows, runVars

\* Every step keeps what holders know.
LEMMA HolderStep == RunInv /\ [Next]_vars => HolderInv'
<1> SUFFICES ASSUME RunInv, [Next]_vars PROVE HolderInv'
  OBVIOUS
<1> USE DEF storeVars, schedVars, registryVars, startVars, boundVars, planVars, queueVars,
            scanVars, clientVars, Goto
<1>0. /\ pc \in [Procs -> Labels] /\ on \in [Procs -> Runs \cup {None}]
      /\ status \in [Runs -> Statuses \cup {None}] /\ audit \in [Runs -> Nat]
      /\ done \in [Runs -> Nat] /\ starting \in [Runs -> {"no", "created", "scan", "dispatch", "done"}]
      /\ \A p \in Procs : pc[p] \in Critical => on[p] \in Runs
  BY DEF RunInv, TypeInv, TypeOK, OnRuns, Busy
<1>h. (\A p \in Procs : Knows(p)) /\ NotBefore /\ CancelAudited
  BY DEF RunInv, HolderInv
\* Steps that change no run.
<1>1. ASSUME NEW p \in Procs, Others(p), UNCHANGED runVars, Knows(p)', UNCHANGED starting
      PROVE  HolderInv'
  <2>1. \A q \in Procs : Knows(q)'
    BY <1>1, SameRuns DEF Others
  <2>2. QED
    BY <1>h, <1>1, <2>1 DEF HolderInv, NotBefore, CancelAudited, runVars
<1>2. ASSUME UNCHANGED <<pc, on, runVars>>, \A r \in Runs : starting'[r] = "no" => starting[r] = "no"
      PROVE  HolderInv'
  BY <1>h, <1>2, SameRuns DEF HolderInv, NotBefore, CancelAudited, runVars
\* Steps of a holder: its own knowledge, the audit of its run.
<1>3. ASSUME NEW p \in Procs, Alone(p), Knows(p)', UNCHANGED starting,
             status[on[p]] # None,
             audit'[on[p]] <= 1 /\ (audit'[on[p]] = 1 => status'[on[p]] = "Cancelled")
      PROVE  HolderInv'
  <2>1. \A q \in Procs : Knows(q)'
    BY <1>3, OthersKnow
  <2>2. NotBefore' /\ CancelAudited'
    BY <1>h, <1>3 DEF NotBefore, CancelAudited, Alone
  <2>3. QED
    BY <2>1, <2>2 DEF HolderInv
\* A process that is at a label outside the critical section knows nothing.
<1>4. ASSUME NEW p \in Procs, pc'[p] \notin Critical \/ pc'[p] \in {"gate", "release",
                                "cancel_check", "retry_check", "retry_release"}
      PROVE  Knows(p)'
  BY <1>4 DEF Knows, Critical
<1>5. ASSUME NEW p \in Procs, WorkerTake(p) \/ RunOnce(p) \/ RunAcquire(p) PROVE HolderInv'
  <2>1. Others(p) /\ UNCHANGED runVars /\ UNCHANGED starting
    BY <1>0, <1>5 DEF WorkerTake, RunOnce, RunAcquire, Return, Others, runVars
  <2>2. pc'[p] \in {"acquire", "exited", "gate", "idle", "done"}
    BY <1>0, <1>5 DEF WorkerTake, RunOnce, RunAcquire, Return
  <2>3. QED
    BY <1>1, <1>4, <2>1, <2>2 DEF Critical
<1>6. ASSUME NEW p \in Procs, RunGate(p) \/ CancelCheck(p) \/ RetryCheck(p) PROVE HolderInv'
  <2>1. Others(p) /\ UNCHANGED runVars /\ UNCHANGED starting /\ on[p] \in Runs
    BY <1>0, <1>6 DEF RunGate, CancelCheck, RetryCheck, Others, runVars, Critical
  <2>2. Knows(p)'
    BY <1>0, <1>6, <2>1
    DEF RunGate, CancelCheck, RetryCheck, Gate, IsTerminal, Statuses, Knows, runVars
  <2>3. QED
    BY <1>1, <2>1, <2>2
<1>7. ASSUME NEW p \in Procs, RunMark(p) \/ RunSuspend(p) \/ RunSucceed(p) \/ RunFail(p)
                                \/ CancelStatus(p) \/ RetryReset(p)
      PROVE  HolderInv'
  <2>1. Knows(p) /\ on[p] \in Runs /\ audit[on[p]] \in Nat
    BY <1>0, <1>h, <1>7 DEF RunMark, RunSuspend, RunSucceed, RunFail, CancelStatus, RetryReset, Critical
  <2>2. status[on[p]] \notin {None, "Cancelled"} /\ audit[on[p]] = 0
    BY <1>h, <1>7, <2>1
    DEF RunMark, RunSuspend, RunSucceed, RunFail, CancelStatus, RetryReset, Knows, CancelAudited, None
  <2>3. Alone(p) /\ UNCHANGED <<starting, audit>>
    BY <1>0, <1>7, <2>1
    DEF RunMark, RunSuspend, RunSucceed, RunFail, CancelStatus, RetryReset, SetStatus, Alone, Others,
        Critical
  <2>4. Knows(p)'
    BY <1>0, <1>7, <2>1, <2>2
    DEF RunMark, RunSuspend, RunSucceed, RunFail, AfterFailed, CancelStatus, RetryReset, SetStatus,
        Knows, IsTerminal
  <2>5. QED
    BY <1>3, <2>1, <2>2, <2>3, <2>4
<1>8. ASSUME NEW p \in Procs, RunBody(p) PROVE HolderInv'
  <2>1. Knows(p) /\ on[p] \in Runs /\ pc[p] = "body" /\ status[on[p]] = "Running"
    BY <1>0, <1>h, <1>8 DEF RunBody, Critical, Knows
  <2>2. UNCHANGED <<status, audit, on, starting>> /\ audit[on[p]] = 0
    BY <1>0, <1>h, <1>8, <2>1 DEF RunBody, CancelAudited
  <2>3. \/ pc' = pc
        \/ pc' = [pc EXCEPT ![p] = "succeed"] /\ done' = done /\ done[on[p]] = Len(Plan[on[p]])
        \/ pc' = [pc EXCEPT ![p] = "error"]
        \/ pc' = [pc EXCEPT ![p] = "suspend"]
    BY <1>8 DEF RunBody
  <2>4. done' = done \/ done' = [done EXCEPT ![on[p]] = @ + 1]
    BY <1>8 DEF RunBody
  <2>5. Alone(p)
    BY <1>0, <2>1, <2>2, <2>3, <2>4 DEF Alone, Others, Critical
  <2>6. Knows(p)'
    BY <1>0, <2>1, <2>2, <2>3 DEF Knows
  <2>7. QED
    BY <1>3, <2>1, <2>2, <2>5, <2>6 DEF None
<1>9. ASSUME NEW p \in Procs, RunError(p) PROVE HolderInv'
  <2>1. Others(p) /\ UNCHANGED runVars /\ UNCHANGED starting /\ Knows(p)
    BY <1>0, <1>h, <1>9 DEF RunError, Others, runVars
  <2>2. Knows(p)'
    BY <1>0, <1>9, <2>1 DEF RunError, Knows, runVars
  <2>3. QED
    BY <1>1, <2>1, <2>2
<1>10. ASSUME NEW p \in Procs, RunWakeup(p) \/ RunStoreFails(p) \/ NotifyClose(p) \/ RunRelease(p)
                                 \/ RetryRelease(p) \/ ClientRelease(p) \/ ClientAcquire(p)
       PROVE  HolderInv'
  <2>1. Others(p) /\ UNCHANGED runVars /\ UNCHANGED starting
    BY <1>0, <1>10
    DEF RunWakeup, RunStoreFails, NotifyClose, RunRelease, RetryRelease, ClientRelease,
        ClientAcquire, Return, Finish, Others, runVars
  <2>2. pc'[p] \in {"release", "idle", "done", "dispatch", "cancel_check", "retry_check"}
    BY <1>0, <1>10
    DEF RunWakeup, RunStoreFails, AfterWakeup, NotifyClose, RunRelease, RetryRelease, ClientRelease,
        ClientAcquire, Return, Finish
  <2>3. QED
    BY <1>1, <1>4, <2>1, <2>2 DEF Critical
<1>11. ASSUME NEW p \in Procs, Notify(p) \/ CancelClear(p) PROVE HolderInv'
  <2>1. Others(p) /\ UNCHANGED runVars /\ UNCHANGED starting /\ Knows(p)
    BY <1>0, <1>h, <1>11 DEF Notify, CancelClear, Others, runVars
  <2>2. Knows(p)'
    BY <1>0, <1>11, <2>1 DEF Notify, CancelClear, Knows, IsTerminal, runVars
  <2>3. QED
    BY <1>1, <2>1, <2>2
<1>12. ASSUME NEW p \in Procs, CancelAudit(p) PROVE HolderInv'
  <2>1. /\ on[p] \in Runs /\ pc[p] = "cancel_audit"
        /\ status[on[p]] = "Cancelled" /\ audit[on[p]] = 0
    BY <1>0, <1>h, <1>12 DEF CancelAudit, Critical, Knows
  <2>2. UNCHANGED <<status, done, on, starting>> /\ pc' = [pc EXCEPT ![p] = "cancel_clear"]
    BY <1>12 DEF CancelAudit
  <2>3. audit' = audit \/ audit' = [audit EXCEPT ![on[p]] = @ + 1]
    BY <1>12 DEF CancelAudit
  <2>4. Alone(p) /\ Knows(p)' /\ audit'[on[p]] <= 1
    BY <1>0, <2>1, <2>2, <2>3 DEF Alone, Others, Critical, Knows
  <2>5. QED
    BY <1>3, <2>1, <2>2, <2>4 DEF None
<1>13. ASSUME NEW p \in Procs, SignalCheck(p) \/ SignalPush(p) \/ ClientDispatch(p) PROVE HolderInv'
  <2>1. Others(p) /\ UNCHANGED runVars /\ UNCHANGED starting
    BY <1>0, <1>13 DEF SignalCheck, SignalPush, ClientDispatch, Finish, Others, runVars
  <2>2. pc'[p] \in {"push", "dispatch", "done"}
    BY <1>0, <1>13 DEF SignalCheck, SignalPush, ClientDispatch, Finish
  <2>3. QED
    BY <1>1, <1>4, <2>1, <2>2 DEF Critical
<1>14. ASSUME NEW p \in Procs, WaitDone(p) \/ WaitGiveUp(p) PROVE HolderInv'
  <2>1. Others(p) /\ UNCHANGED runVars /\ UNCHANGED starting
    BY <1>0, <1>14
    DEF WaitDone, WaitAdd, WaitQuery, WaitSelect, WaitGiveUp, WaitRequery, WaitRemove, Others, runVars
  <2>2. pc'[p] \in {"query", "remove", "select", "requery", "done"}
    BY <1>0, <1>14
    DEF WaitDone, WaitAdd, WaitQuery, WaitSelect, WaitGiveUp, WaitRequery, WaitRemove
  <2>3. QED
    BY <1>1, <1>4, <2>1, <2>2 DEF Critical
<1>15. ASSUME NEW p \in Procs, Stop(p) \/ StopTimeout(p) PROVE HolderInv'
  <2>1. Others(p) /\ UNCHANGED runVars /\ UNCHANGED starting
    BY <1>0, <1>15
    DEF Stop, StopCancel, StopClose, StopWait, StopTimeout, StopTimers, Finish, Others, runVars
  <2>2. pc'[p] \in {"stop_close", "stop_wait", "stop_timers", "done"}
    BY <1>0, <1>15 DEF Stop, StopCancel, StopClose, StopWait, StopTimeout, StopTimers, Finish
  <2>3. QED
    BY <1>1, <1>4, <2>1, <2>2 DEF Critical
<1>16. ASSUME NEW r \in Runs, StartCreate(r) PROVE HolderInv'
  <2>1. status[r] = None /\ audit[r] = 0 /\ status' = [status EXCEPT ![r] = "Running"]
    BY <1>0, <1>h, <1>16 DEF StartCreate, SetStatus, NotBefore, CancelAudited, None
  <2>2. UNCHANGED <<pc, on, done, audit>> /\ starting' = [starting EXCEPT ![r] = "created"]
    BY <1>16 DEF StartCreate
  <2>3. ASSUME NEW p \in Procs PROVE Knows(p)'
    <3>1. CASE on[p] = r
      \* Whoever holds r has found no instance and knows nothing about it.
      BY <1>h, <2>1, <2>2, <3>1 DEF Knows, None, IsTerminal
    <3>2. CASE on[p] # r
      <4>1. pc[p] \in Critical => status'[on[p]] = status[on[p]]
        BY <1>0, <2>1, <3>2
      <4>2. QED
        BY <1>h, <2>2, <4>1 DEF Knows, Critical
    <3>3. QED
      BY <3>1, <3>2
  <2>4. NotBefore' /\ CancelAudited'
    BY <1>0, <1>h, <2>1, <2>2 DEF NotBefore, CancelAudited
  <2>5. QED
    BY <2>3, <2>4 DEF HolderInv
<1>17. ASSUME NEW r \in Runs, StartRecover(r) \/ StartScan(r) \/ StartDispatch(r) PROVE HolderInv'
  <2>1. UNCHANGED <<pc, on, runVars>>
    BY <1>17 DEF StartRecover, StartScan, StartDispatch, runVars
  <2>2. \A x \in Runs : starting'[x] = "no" => starting[x] = "no"
    BY <1>0, <1>17 DEF StartRecover, StartScan, StartDispatch
  <2>3. QED
    BY <1>2, <2>1, <2>2
<1>18. ASSUME NEW r \in Runs, RecoverDispatch(r) \/ Elapse(r) \/ LeaseExpires(r) PROVE HolderInv'
  BY <1>2, <1>18 DEF RecoverDispatch, Elapse, LeaseExpires, runVars
<1>19. CASE RecoverScan \/ UNCHANGED vars \/ UNCHANGED <<pc, on, clientVars, storeVars>>
  BY <1>2, <1>19 DEF RecoverScan, vars, runVars
<1>20. CASE Crash
  <2>1. UNCHANGED runVars /\ \A p \in Procs : pc'[p] \in {"idle", "start", "done"}
    BY <1>20 DEF Crash, runVars
  <2>2. \A p \in Procs : Knows(p)'
    BY <1>4, <2>1 DEF Critical
  <2>3. \A r \in Runs : starting'[r] = "no" => starting[r] = "no"
    BY <1>20 DEF Crash
  <2>4. QED
    BY <1>h, <2>1, <2>2, <2>3 DEF HolderInv, NotBefore, CancelAudited, runVars
<1>21. QED
  BY <1>5, <1>6, <1>7, <1>8, <1>9, <1>10, <1>11, <1>12, <1>13, <1>14, <1>15, <1>16, <1>17, <1>18,
     <1>19, <1>20
  DEF Next, Run, Call, Start, Executors, Clients, Procs

\* Before Start there is nothing to know.
LEMMA RunInit == Init => RunInv
<1> SUFFICES ASSUME Init PROVE HolderInv
  BY TypeInit, KindInit, LockInit DEF RunInv
<1>1. pc = [p \in Procs |-> IF p \in Workers THEN "idle" ELSE "start"]
  BY Zenon DEF Init
<1>2. \A p \in Procs : Knows(p)
  BY <1>1 DEF Knows
<1>3. NotBefore /\ CancelAudited
  BY DEF Init, NotBefore, CancelAudited
<1>4. QED
  BY <1>2, <1>3 DEF HolderInv

\* The parts of the invariant, put together.
LEMMA RunStep == RunInv /\ [Next]_vars => RunInv'
BY TypeStep, KindStep, LockStep, HolderStep DEF RunInv

\* What a holder knows of its run is true in every reachable state.
LEMMA RunInvariant == Spec => []RunInv
BY RunInit, RunStep, PTL DEF Spec

\* A run has at most one audit entry, and only a cancelled run has one, however
\* Cancel, Retry, workers, crashes and failed audit writes interleave.
THEOREM EngineAudit == Spec => []CancelAudited
<1>1. RunInv => CancelAudited
  BY DEF RunInv, HolderInv
<1>2. QED
  BY <1>1, RunInvariant, PTL

-----------------------------------------------------------------------------
(* The engine implements Lifecycle. *)

\* Who holds what: the refinement mapping of Abstract.
HoldersOf == [r \in Runs |-> { p \in Procs : Holds(p, r) }]

\* The steps that change the status or the decisions of a run.
Changes(p) == \/ RunMark(p) \/ RunBody(p) \/ RunSuspend(p) \/ RunSucceed(p) \/ RunFail(p)
              \/ CancelStatus(p) \/ RetryReset(p)

\* Only these steps, and Start's creation of the run, change its status or decisions.
LEMMA ChangeKind ==
  ASSUME [Next]_vars
  PROVE  UNCHANGED <<status, done>> \/ (\E r \in Runs : StartCreate(r)) \/ \E p \in Procs : Changes(p)
<1> USE DEF storeVars, schedVars, registryVars, startVars, boundVars, planVars, queueVars,
            scanVars, clientVars
<1>1. ASSUME NEW p \in Procs,
             \/ WorkerTake(p) \/ RunOnce(p) \/ RunAcquire(p) \/ RunGate(p) \/ RunWakeup(p)
             \/ RunError(p) \/ RunStoreFails(p) \/ RunRelease(p) \/ Notify(p) \/ NotifyClose(p)
      PROVE  UNCHANGED <<status, done>>
  BY <1>1 DEF WorkerTake, RunOnce, RunAcquire, RunGate, RunWakeup, RunError, RunStoreFails,
              RunRelease, Notify, NotifyClose
<1>2. ASSUME NEW p \in Procs,
             \/ SignalCheck(p) \/ SignalPush(p) \/ ClientDispatch(p) \/ ClientAcquire(p)
             \/ CancelCheck(p) \/ CancelAudit(p) \/ CancelClear(p) \/ RetryCheck(p)
             \/ RetryRelease(p) \/ ClientRelease(p)
      PROVE  UNCHANGED <<status, done>>
  BY <1>2 DEF SignalCheck, SignalPush, ClientDispatch, ClientAcquire, CancelCheck, CancelAudit,
              CancelClear, RetryCheck, RetryRelease, ClientRelease
<1>3. ASSUME NEW p \in Procs, WaitDone(p) \/ WaitGiveUp(p) \/ Stop(p) \/ StopTimeout(p)
      PROVE  UNCHANGED <<status, done>>
  BY <1>3 DEF WaitDone, WaitAdd, WaitQuery, WaitSelect, WaitGiveUp, WaitRequery, WaitRemove,
              Stop, StopCancel, StopClose, StopWait, StopTimeout, StopTimers
<1>4. ASSUME NEW r \in Runs,
             \/ StartRecover(r) \/ StartScan(r) \/ StartDispatch(r) \/ RecoverDispatch(r)
             \/ Elapse(r) \/ LeaseExpires(r)
      PROVE  UNCHANGED <<status, done>>
  BY <1>4 DEF StartRecover, StartScan, StartDispatch, RecoverDispatch, Elapse, LeaseExpires
<1>5. CASE RecoverScan \/ Crash \/ UNCHANGED vars \/ UNCHANGED <<pc, on, clientVars, storeVars>>
  BY <1>5 DEF RecoverScan, Crash, vars
<1>6. QED
  BY <1>1, <1>2, <1>3, <1>4, <1>5
  DEF Next, Run, Call, Start, Changes, Executors, Clients, Procs

\* A step that changes no run claims one, lets some go, or is invisible.
LEMMA HoldersStep ==
  ASSUME RunInv, [Next]_vars
  PROVE  \/ HoldersOf' = HoldersOf
         \/ \E r \in Runs : /\ HoldersOf[r] = {}
                            /\ \E p \in Procs : HoldersOf' = [HoldersOf EXCEPT ![r] = {p}]
         \/ \E gone \in SUBSET Runs :
              HoldersOf' = [r \in Runs |-> IF r \in gone THEN {} ELSE HoldersOf[r]]
<1>0. LockInv /\ TypeInv
  BY DEF RunInv
<1>1. CASE Quiet
  BY <1>1 DEF Quiet, HoldersOf, Holds
<1>2. ASSUME NEW p \in Procs, Moves(p), pc'[p] \in Critical PROVE HoldersOf' = HoldersOf
  BY <1>2 DEF Moves, Others, HoldersOf, Holds
<1>3. ASSUME NEW p \in Procs, Others(p), pc'[p] \notin Critical
      PROVE  \E gone \in SUBSET Runs :
               HoldersOf' = [r \in Runs |-> IF r \in gone THEN {} ELSE HoldersOf[r]]
  <2> DEFINE gone == { r \in Runs : Holds(p, r) }
  <2>1. ASSUME NEW r \in gone PROVE HoldersOf'[r] = {}
    BY <1>0, <1>3, <2>1 DEF LockInv, MutualExclusion, HoldersOf, Holds, Others
  <2>2. ASSUME NEW r \in Runs \ gone PROVE HoldersOf'[r] = HoldersOf[r]
    BY <1>3, <2>2 DEF HoldersOf, Holds, Others
  <2>3. HoldersOf' = [r \in Runs |-> IF r \in gone THEN {} ELSE HoldersOf[r]]
    BY <2>1, <2>2 DEF HoldersOf
  <2>4. QED
    BY <2>3
<1>4. ASSUME NEW p \in Procs, Takes(p)
      PROVE  \E r \in Runs : /\ HoldersOf[r] = {}
                             /\ \E q \in Procs : HoldersOf' = [HoldersOf EXCEPT ![r] = {q}]
  <2>1. on'[p] \in Runs /\ ~lock[on'[p]]
    BY <1>4 DEF Takes
  <2>2. HoldersOf[on'[p]] = {}
    BY <1>0, <2>1 DEF LockInv, Locked, HoldersOf
  <2>3. \A q \in Procs \ {p} : ~(pc'[q] \in Critical /\ on'[q] = on'[p])
    BY <1>0, <1>4, <2>1 DEF Takes, Others, LockInv, Locked, Holds
  <2>4. HoldersOf' = [HoldersOf EXCEPT ![on'[p]] = {p}]
    <3>1. HoldersOf'[on'[p]] = {p}
      BY <1>4, <2>1, <2>3 DEF Takes, HoldersOf, Holds
    <3>2. ASSUME NEW r \in Runs, r # on'[p] PROVE HoldersOf'[r] = HoldersOf[r]
      BY <1>4, <3>2 DEF Takes, Others, HoldersOf, Holds
    <3>3. QED
      BY <3>1, <3>2 DEF HoldersOf
  <2>5. QED
    BY <2>1, <2>2, <2>4
<1>5. ASSUME NEW r \in Runs, LeaseExpires(r) PROVE HoldersOf' = HoldersOf
  BY <1>5 DEF LeaseExpires, HoldersOf, Holds
<1>6. ASSUME Crash
      PROVE  \E gone \in SUBSET Runs :
               HoldersOf' = [r \in Runs |-> IF r \in gone THEN {} ELSE HoldersOf[r]]
  <2>1. HoldersOf' = [r \in Runs |-> IF r \in Runs THEN {} ELSE HoldersOf[r]]
    BY <1>6 DEF Crash, HoldersOf, Holds, Critical
  <2>2. QED
    BY <2>1
<1>7. QED
  BY <1>0, <1>1, <1>2, <1>3, <1>4, <1>5, <1>6, StepKind DEF Moves, GivesBack

\* A holder that changes its run makes one move of the status graph.
LEMMA ChangeStep ==
  ASSUME RunInv, NEW p \in Procs, Changes(p)
  PROVE  /\ HoldersOf' = HoldersOf /\ on[p] \in Runs /\ HoldersOf[on[p]] # {}
         /\ \/ /\ UNCHANGED done
               /\ \E s \in Statuses :
                    /\ status' = [status EXCEPT ![on[p]] = s]
                    /\ \/ status[on[p]] = s
                       \/ status[on[p]] = "Awaiting" /\ s = "Running"
                       \/ status[on[p]] = "Running" /\ s = "Awaiting"
                       \/ status[on[p]] = "Running" /\ s = "Succeeded"
                          /\ done[on[p]] = Len(Plan[on[p]])
                       \/ status[on[p]] \in {"Running", "Awaiting"} /\ s \in {"Failed", "Cancelled"}
                       \/ status[on[p]] = "Failed" /\ s = "Running"
            \/ UNCHANGED <<status, done>>
            \/ /\ UNCHANGED status /\ status[on[p]] = "Running"
               /\ done[on[p]] < Len(Plan[on[p]])
               /\ done' = [done EXCEPT ![on[p]] = @ + 1]
<1> USE DEF Changes, planVars, Goto
<1>0. /\ pc \in [Procs -> Labels] /\ Knows(p) /\ on[p] \in Runs /\ pc[p] \in Critical
      /\ status \in [Runs -> Statuses \cup {None}]
  BY DEF RunInv, TypeInv, TypeOK, OnRuns, Busy, Critical, HolderInv, RunMark, RunBody, RunSuspend,
         RunSucceed, RunFail, CancelStatus, RetryReset
<1>1. HoldersOf' = HoldersOf /\ HoldersOf[on[p]] # {}
  <2>1. on' = on
    BY DEF RunMark, RunBody, RunSuspend, RunSucceed, RunFail, CancelStatus, RetryReset
  <2>2. pc' = pc \/ \E l \in Critical : pc' = [pc EXCEPT ![p] = l]
    <3>1. CASE RunBody(p)
      BY <3>1 DEF RunBody, Critical
    <3>2. CASE ~RunBody(p)
      BY <3>2 DEF RunMark, RunSuspend, RunSucceed, RunFail, CancelStatus, RetryReset, AfterFailed, Critical
    <3>3. QED
      BY <3>1, <3>2
  <2>3. \A q \in Procs : pc'[q] \in Critical <=> pc[q] \in Critical
    BY <1>0, <2>2
  <2>4. QED
    BY <1>0, <2>1, <2>3 DEF HoldersOf, Holds
<1>2. CASE RunBody(p)
  <2>1. pc[p] = "body" /\ status' = status
    BY <1>2 DEF RunBody
  <2>2. done' = done \/ (done[on[p]] < Len(Plan[on[p]]) /\ done' = [done EXCEPT ![on[p]] = @ + 1])
    BY <1>2 DEF RunBody
  <2>3. status[on[p]] = "Running"
    BY <1>0, <2>1 DEF Knows
  <2>4. QED
    BY <1>0, <1>1, <2>1, <2>2, <2>3
<1>3. CASE RunMark(p) \/ RunSuspend(p) \/ RunSucceed(p)
  BY <1>0, <1>1, <1>3 DEF RunMark, RunSuspend, RunSucceed, SetStatus, Knows, Statuses
<1>4. CASE RunFail(p)
  BY <1>0, <1>1, <1>4 DEF RunFail, SetStatus, Knows, Statuses
<1>5. CASE CancelStatus(p) \/ RetryReset(p)
  BY <1>0, <1>1, <1>5 DEF CancelStatus, RetryReset, SetStatus, Knows, Statuses
<1>6. QED
  BY <1>2, <1>3, <1>4, <1>5

\* Whatever workers, RunOnce, Cancel, Retry and crashes do to a run, it is a life
\* in the sense of Lifecycle: one holder at a time, changes by the holder and
\* along the status graph, decisions in Running only.
THEOREM EngineImplementsLifecycle == Spec => ImplementsLifecycle
<1>1. Init => Abstract!Init
  <2> SUFFICES ASSUME Init PROVE Abstract!Init
    OBVIOUS
  <2>1. pc = [p \in Procs |-> IF p \in Workers THEN "idle" ELSE "start"]
    BY Zenon DEF Init
  <2>2. \A p \in Procs : pc[p] \notin Critical
    BY <2>1 DEF Critical
  <2>3. QED
    BY <2>2 DEF Init, Abstract!Init, Abstract!None, None, Holds
<1>2. RunInv /\ [Next]_vars => [Abstract!Next]_(Abstract!vars)
  <2> SUFFICES ASSUME RunInv, [Next]_vars PROVE Abstract!Next \/ UNCHANGED Abstract!vars
    OBVIOUS
  <2>0. status \in [Runs -> Statuses \cup {None}]
    BY DEF RunInv, TypeInv, TypeOK
  <2>1. CASE UNCHANGED <<status, done>>
    <3>1. CASE HoldersOf' = HoldersOf
      BY <2>1, <3>1 DEF Abstract!vars, HoldersOf
    <3>2. ASSUME NEW r \in Runs, HoldersOf[r] = {}, NEW p \in Procs,
                 HoldersOf' = [HoldersOf EXCEPT ![r] = {p}]
          PROVE  Abstract!Claim(r)
      BY <2>1, <3>2 DEF Abstract!Claim, HoldersOf
    <3>3. ASSUME NEW gone \in SUBSET Runs,
                 HoldersOf' = [r \in Runs |-> IF r \in gone THEN {} ELSE HoldersOf[r]]
          PROVE  Abstract!LetGo
      BY <2>1, <3>3 DEF Abstract!LetGo, HoldersOf
    <3>4. QED
      BY <3>1, <3>2, <3>3, HoldersStep DEF Abstract!Next
  <2>2. ASSUME NEW r \in Runs, StartCreate(r) PROVE Abstract!Create(r)
    <3>1. status[r] = None /\ status' = [status EXCEPT ![r] = "Running"] /\ UNCHANGED <<pc, on, done>>
      BY <2>2 DEF StartCreate, SetStatus, planVars, RunInv, HolderInv, NotBefore
    <3>2. HoldersOf' = HoldersOf
      BY <3>1 DEF HoldersOf, Holds
    <3>3. QED
      BY <3>1, <3>2 DEF Abstract!Create, Abstract!Become, Abstract!None, None,
                             HoldersOf
  <2>3. ASSUME NEW p \in Procs, Changes(p) PROVE Abstract!Move(on[p]) \/ UNCHANGED Abstract!vars
    <3>1. HoldersOf' = HoldersOf /\ on[p] \in Runs /\ HoldersOf[on[p]] # {}
      BY <2>3, ChangeStep
    <3>2. CASE UNCHANGED <<status, done>>
      BY <3>1, <3>2 DEF Abstract!vars, HoldersOf
    <3>3. CASE /\ UNCHANGED status /\ status[on[p]] = "Running"
               /\ done[on[p]] < Len(Plan[on[p]])
               /\ done' = [done EXCEPT ![on[p]] = @ + 1]
      BY <3>1, <3>3 DEF Abstract!Move, Abstract!Decide, HoldersOf
    <3>4. ASSUME UNCHANGED done, NEW s \in Statuses, status' = [status EXCEPT ![on[p]] = s],
                 \/ status[on[p]] = s
                 \/ status[on[p]] = "Awaiting" /\ s = "Running"
                 \/ status[on[p]] = "Running" /\ s = "Awaiting"
                 \/ status[on[p]] = "Running" /\ s = "Succeeded" /\ done[on[p]] = Len(Plan[on[p]])
                 \/ status[on[p]] \in {"Running", "Awaiting"} /\ s \in {"Failed", "Cancelled"}
                 \/ status[on[p]] = "Failed" /\ s = "Running"
          PROVE  Abstract!Move(on[p]) \/ UNCHANGED Abstract!vars
      <4>1. CASE status[on[p]] = s
        <5>1. status' = status
          BY <2>0, <3>1, <3>4, <4>1
        <5>2. QED
          BY <3>1, <3>4, <5>1 DEF Abstract!vars, HoldersOf
      <4>2. CASE status[on[p]] # s
        BY <3>1, <3>4, <4>2 DEF Abstract!Move, Abstract!Become, HoldersOf
      <4>3. QED
        BY <4>1, <4>2
    <3>5. QED
      BY <2>3, <3>2, <3>3, <3>4, ChangeStep
  <2>4. QED
    BY <2>1, <2>2, <2>3, ChangeKind, ChangeStep DEF Abstract!Next
<1>3. QED
  BY <1>1, <1>2, RunInvariant, PTL DEF Spec, ImplementsLifecycle, Abstract!Spec
=============================================================================
