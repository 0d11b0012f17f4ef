-------------------------- MODULE SchedulerProofs --------------------------
(***************************************************************************)
(* The scheduler's timers and wakeups: what is registered is armed, a      *)
(* sleeping run that nobody works on has its wakeup, and Stop leaves no    *)
(* worker and no timer behind.                                             *)
(***************************************************************************)
EXTENDS LifecycleProofs

-----------------------------------------------------------------------------
(* Registered timers. *)

\* enqueue clears the timer of its run.  f differs from th at most in a goroutine
\* whose registration, if it has one, stays armed.
LEMMA EnqueueArmed ==
  ASSUME SchedTypeOK, RegisteredIsArmed, NEW r \in Runs, NEW f \in [Handles -> Goroutines],
         \A x \in Runs : timers[x] # None =>
           f[timers[x]].run = x /\ f[timers[x]].phase \in {"waiting", "dispatch", "cleanup"},
         Enqueue(r, f)
  PROVE  RegisteredIsArmed'
<1>0. timers \in [Runs -> Handles \cup {None}]
  BY DEF SchedTypeOK
<1>1. CASE stopped
  BY <1>1 DEF Enqueue, RegisteredIsArmed
<1>2. CASE ~stopped
  <2>1. timers' = [timers EXCEPT ![r] = None] /\ th' = CancelIn(f, timers[r])
    BY <1>2 DEF Enqueue, Unregistered
  <2>2. ASSUME NEW x \in Runs, timers'[x] # None
        PROVE  th'[timers'[x]].run = x /\ th'[timers'[x]].phase \in {"waiting", "dispatch", "cleanup"}
    <3>1. x # r /\ timers'[x] = timers[x] /\ timers[x] \in Handles
      BY <1>0, <2>1, <2>2
    <3>2. timers[x] # timers[r]
      BY <3>1, <2>2
    <3>3. CancelIn(f, timers[r])[timers[x]] = f[timers[x]]
      BY <1>0, <3>1, <3>2, CancelInEffect
    <3>4. QED
      BY <2>1, <2>2, <3>1, <3>3
  <2>3. QED
    BY <2>2 DEF RegisteredIsArmed
<1>3. QED
  BY <1>1, <1>2

\* scheduleWakeup registers a new goroutine, armed for its run, and the handle it
\* takes is nobody's.
LEMMA ScheduleArmed ==
  ASSUME SchedTypeOK, RegisteredIsArmed, NEW r \in Runs, NEW d \in {None, "future", "due"},
         ScheduleWakeup(r, d)
  PROVE  /\ RegisteredIsArmed'
         /\ d # None => HasWakeup(r)'
         /\ \A x \in Runs \ {r} : HasWakeup(x) /\ UNCHANGED queue => HasWakeup(x)'
<1>0. timers \in [Runs -> Handles \cup {None}] /\ th \in [Handles -> Goroutines]
      /\ \A x \in Runs : timers[x] # None => timers[x] \in Handles
  BY DEF SchedTypeOK
<1>1. CASE d = None
  BY <1>1 DEF ScheduleWakeup, None, RegisteredIsArmed, HasWakeup
<1>2. CASE d # None
  <2> DEFINE h == CHOOSE x \in Handles : th[x].phase = "free"
  <2>1. h \in Handles /\ th[h].phase = "free"
    BY <1>2 DEF ScheduleWakeup
  <2>2. \/ /\ d = "due" /\ timers' = timers
           /\ th' = [th EXCEPT ![h] = [run |-> r, phase |-> "redispatch", fired |-> TRUE]]
        \/ /\ d = "future" /\ timers' = [timers EXCEPT ![r] = h]
           /\ th' = [CancelIn(th, timers[r])
                       EXCEPT ![h] = [run |-> r, phase |-> "waiting", fired |-> FALSE]]
    BY <1>2 DEF ScheduleWakeup
  <2> HIDE DEF h
  <2>3. \A x \in Runs : timers[x] # h
    BY <2>1, SchedulerAssumption DEF RegisteredIsArmed
  <2>4. CASE /\ d = "due" /\ timers' = timers
             /\ th' = [th EXCEPT ![h] = [run |-> r, phase |-> "redispatch", fired |-> TRUE]]
    <3>1. \A x \in Handles : x # h => th'[x] = th[x]
      BY <1>0, <2>4
    <3>2. th'[h].run = r /\ th'[h].phase = "redispatch"
      BY <1>0, <2>1, <2>4
    <3>3. RegisteredIsArmed'
      BY <1>0, <2>3, <2>4, <3>1 DEF RegisteredIsArmed
    <3>4. HasWakeup(r)'
      BY <2>1, <3>2 DEF HasWakeup
    <3>5. ASSUME NEW x \in Runs \ {r}, HasWakeup(x), UNCHANGED queue PROVE HasWakeup(x)'
      BY <1>0, <2>1, <2>3, <2>4, <3>1, <3>5 DEF HasWakeup
    <3>6. QED
      BY <3>3, <3>4, <3>5
  <2>5. CASE /\ d = "future" /\ timers' = [timers EXCEPT ![r] = h]
             /\ th' = [CancelIn(th, timers[r])
                         EXCEPT ![h] = [run |-> r, phase |-> "waiting", fired |-> FALSE]]
    <3>0. CancelIn(th, timers[r]) \in [Handles -> Goroutines]
          /\ \A x \in Handles : /\ x # timers[r] => CancelIn(th, timers[r])[x] = th[x]
                                /\ th[x].phase # "waiting" => CancelIn(th, timers[r])[x] = th[x]
      BY <1>0, CancelInEffect
    <3>1. \A x \in Handles : x # h /\ (x # timers[r] \/ th[x].phase # "waiting") => th'[x] = th[x]
      BY <2>5, <3>0
    <3>2. th'[h].run = r /\ th'[h].phase = "waiting" /\ timers'[r] = h
      BY <1>0, <2>1, <2>5, <3>0
    <3>3. \A x \in Runs \ {r} : timers'[x] = timers[x] /\ (timers[x] # None => timers[x] # timers[r])
      BY <1>0, <2>5 DEF RegisteredIsArmed
    <3>4. RegisteredIsArmed'
      BY <1>0, <2>3, <3>1, <3>2, <3>3 DEF RegisteredIsArmed
    <3>5. HasWakeup(r)'
      BY <2>1, <3>2, SchedulerAssumption DEF HasWakeup
    <3>6. ASSUME NEW x \in Runs \ {r}, HasWakeup(x), UNCHANGED queue PROVE HasWakeup(x)'
      BY <1>0, <2>1, <2>3, <3>1, <3>3, <3>6 DEF HasWakeup
    <3>7. QED
      BY <3>4, <3>5, <3>6
  <2>6. QED
    BY <2>2, <2>4, <2>5
<1>3. QED
  BY <1>1, <1>2

\* The steps that touch the scheduler's timers.
LEMMA TimerKind ==
  ASSUME TypeInv, [Next]_vars
  PROVE  \/ UNCHANGED <<timers, th>>
         \/ \E r \in Runs : Enqueue(r, th)
         \/ \E h \in Handles : Goroutine(h)
         \/ \E p \in Procs : RunWakeup(p) \/ CancelClear(p) \/ StopTimers(p)
         \/ \E r \in Runs : Elapse(r)
         \/ Crash
<1> USE DEF schedVars, clientVars, queueVars
<1>1. ASSUME NEW p \in Procs,
             \/ WorkerTake(p) \/ RunOnce(p) \/ RunAcquire(p) \/ RunGate(p) \/ RunMark(p)
             \/ RunBody(p) \/ RunSuspend(p) \/ RunSucceed(p) \/ RunError(p) \/ RunFail(p)
             \/ RunStoreFails(p) \/ RunRelease(p) \/ Notify(p) \/ NotifyClose(p)
      PROVE  UNCHANGED <<timers, th>>
  BY <1>1 DEF WorkerTake, RunOnce, RunAcquire, RunGate, RunMark, RunBody, RunSuspend, RunSucceed,
              RunError, RunFail, RunStoreFails, RunRelease, Notify, NotifyClose
<1>2. ASSUME NEW p \in Procs,
             \/ SignalCheck(p) \/ SignalPush(p) \/ ClientAcquire(p) \/ CancelCheck(p)
             \/ CancelStatus(p) \/ CancelAudit(p) \/ RetryCheck(p) \/ RetryReset(p)
             \/ RetryRelease(p) \/ ClientRelease(p)
      PROVE  UNCHANGED <<timers, th>>
  BY <1>2 DEF SignalCheck, SignalPush, ClientAcquire, CancelCheck, CancelStatus, CancelAudit,
              RetryCheck, RetryReset, RetryRelease, ClientRelease
<1>3. ASSUME NEW p \in Procs,
             WaitDone(p) \/ WaitGiveUp(p) \/ StopCancel(p) \/ StopClose(p) \/ StopWait(p) \/ StopTimeout(p)
      PROVE  UNCHANGED <<timers, th>>
  BY <1>3 DEF WaitDone, WaitAdd, WaitQuery, WaitSelect, WaitGiveUp, WaitRequery, WaitRemove,
              StopCancel, StopClose, StopWait, StopTimeout
<1>4. ASSUME NEW p \in Procs, ClientDispatch(p) PROVE \E r \in Runs : Enqueue(r, th)
  BY <1>4 DEF ClientDispatch, TypeInv, OnRuns, Busy
<1>5. ASSUME NEW r \in Runs, StartCreate(r) \/ StartRecover(r) \/ LeaseExpires(r)
      PROVE  UNCHANGED <<timers, th>>
  BY <1>5 DEF StartCreate, StartRecover, LeaseExpires
<1>6. ASSUME NEW r \in Runs, StartScan(r) \/ StartDispatch(r) \/ RecoverDispatch(r)
      PROVE  UNCHANGED <<timers, th>> \/ \E x \in Runs : Enqueue(x, th)
  <2>1. startScan \subseteq Runs
    BY DEF TypeInv, TypeOK
  <2>2. QED
    BY <1>6, <2>1 DEF StartScan, StartDispatch, RecoverDispatch
<1>7. CASE RecoverScan \/ UNCHANGED vars
  BY <1>7 DEF RecoverScan, vars
<1>8. QED
  BY <1>1, <1>2, <1>3, <1>4, <1>5, <1>6, <1>7
  DEF Next, Run, Call, Start, Stop, Executors, Clients, Procs

\* Every step keeps registered timers armed.
LEMMA ArmedStep == TypeInv /\ RegisteredIsArmed /\ [Next]_vars => RegisteredIsArmed'
<1> SUFFICES ASSUME TypeInv, RegisteredIsArmed, [Next]_vars PROVE RegisteredIsArmed'
  OBVIOUS
<1>0. /\ SchedTypeOK /\ timers \in [Runs -> Handles \cup {None}] /\ th \in [Handles -> Goroutines]
      /\ \A r \in Runs : timers[r] # None => timers[r] \in Handles
  BY DEF TypeInv, TypeOK, SchedTypeOK
<1>1. CASE UNCHANGED <<timers, th>>
  BY <1>1 DEF RegisteredIsArmed
<1>2. ASSUME NEW r \in Runs, Enqueue(r, th) PROVE RegisteredIsArmed'
  BY <1>0, <1>2, EnqueueArmed DEF RegisteredIsArmed
<1>3. ASSUME NEW h \in Handles, TimerSelect(h) PROVE RegisteredIsArmed'
  <2>1. timers' = timers /\ \E ph \in {"dispatch", "cleanup"} : th' = [th EXCEPT ![h].phase = ph]
    BY <1>3 DEF TimerSelect
  <2>2. QED
    BY <1>0, <2>1 DEF RegisteredIsArmed, Goroutines
<1>4. ASSUME NEW h \in Handles, TimerDispatch(h) PROVE RegisteredIsArmed'
  <2>1. CASE th[h].phase = "dispatch" /\ Enqueue(th[h].run, [th EXCEPT ![h].phase = "cleanup"])
    <3> DEFINE f == [th EXCEPT ![h].phase = "cleanup"]
    <3>1. th[h].run \in Runs
      BY <2>1 DEF TypeInv, HandleRuns
    <3>2. f \in [Handles -> Goroutines]
      BY <1>0 DEF Goroutines, Phases
    <3>3. \A x \in Runs : timers[x] # None =>
            f[timers[x]].run = x /\ f[timers[x]].phase \in {"waiting", "dispatch", "cleanup"}
      BY <1>0 DEF RegisteredIsArmed, Goroutines
    <3>4. QED
      BY <1>0, <2>1, <3>1, <3>2, <3>3, EnqueueArmed
  <2>2. CASE th[h].phase = "redispatch" /\ Enqueue(th[h].run, [th EXCEPT ![h] = FreeHandle])
    <3> DEFINE f == [th EXCEPT ![h] = FreeHandle]
    <3>1. th[h].run \in Runs
      BY <2>2 DEF TypeInv, HandleRuns
    <3>2. f \in [Handles -> Goroutines]
      BY <1>0 DEF Goroutines, Phases, FreeHandle
    <3>3. \A x \in Runs : timers[x] # None =>
            f[timers[x]].run = x /\ f[timers[x]].phase \in {"waiting", "dispatch", "cleanup"}
      BY <1>0, <2>2 DEF RegisteredIsArmed
    <3>4. QED
      BY <1>0, <2>2, <3>1, <3>2, <3>3, EnqueueArmed
  <2>3. QED
    BY <1>4, <2>1, <2>2 DEF TimerDispatch
<1>5. ASSUME NEW h \in Handles, TimerCleanup(h) PROVE RegisteredIsArmed'
  BY <1>0, <1>5 DEF TimerCleanup, ClearTimerIf, RegisteredIsArmed
<1>6. ASSUME NEW p \in Procs, RunWakeup(p) PROVE RegisteredIsArmed'
  <2>1. on[p] \in Runs /\ deadline[on[p]] \in {None, "future", "due"}
    BY <1>6 DEF RunWakeup, TypeInv, TypeOK, OnRuns, Busy, Critical
  <2>2. QED
    BY <1>0, <1>6, <2>1, ScheduleArmed DEF RunWakeup
<1>7. ASSUME NEW p \in Procs, CancelClear(p) PROVE RegisteredIsArmed'
  <2>1. on[p] \in Runs
    BY <1>7 DEF CancelClear, TypeInv, OnRuns, Busy, Critical
  <2>2. timers' = [timers EXCEPT ![on[p]] = None] /\ th' = CancelIn(th, timers[on[p]])
    BY <1>7 DEF CancelClear, ClearTimer, Unregistered
  <2>3. \A x \in Runs : timers'[x] # None =>
          x # on[p] /\ timers'[x] = timers[x] /\ timers[x] # timers[on[p]]
    BY <1>0, <2>1, <2>2 DEF RegisteredIsArmed
  <2>4. \A x \in Handles : x # timers[on[p]] => th'[x] = th[x]
    BY <1>0, <2>1, <2>2, CancelInEffect
  <2>5. QED
    BY <1>0, <2>3, <2>4 DEF RegisteredIsArmed
<1>8. ASSUME NEW p \in Procs, StopTimers(p) PROVE RegisteredIsArmed'
  BY <1>8 DEF StopTimers, CancelAllTimers, RegisteredIsArmed
<1>9. ASSUME NEW r \in Runs, Elapse(r) PROVE RegisteredIsArmed'
  <2>1. UNCHANGED timers /\ \A h \in Handles : th'[h].run = th[h].run /\ th'[h].phase = th[h].phase
    BY <1>0, <1>9, FireTypes DEF Elapse, TypeInv
  <2>2. QED
    BY <1>0, <2>1 DEF RegisteredIsArmed
<1>10. CASE Crash
  BY <1>10 DEF Crash, RegisteredIsArmed
<1>11. QED
  BY <1>1, <1>2, <1>3, <1>4, <1>5, <1>6, <1>7, <1>8, <1>9, <1>10, TimerKind DEF Goroutine

\* Whatever timer is registered for a run is armed for that run, in every
\* interleaving of enqueue, registerTimer, clearTimerIf, Cancel and Stop.
THEOREM TimersArmed == Spec => []RegisteredIsArmed
<1>1. Init => RegisteredIsArmed
  BY DEF Init, SchedInit, RegisteredIsArmed
<1>2. QED
  BY <1>1, TypeInit, TypeStep, ArmedStep, PTL DEF Spec

-----------------------------------------------------------------------------
(* Wakeups. *)

\* Whoever holds the run for a while is not enough to keep its wakeup: the
\* invariant names the labels at which an executor is still on its way to the
\* run (it will look at the deadline again, or fail the run) or on its way out
\* with the wakeup still to be scheduled.
EnRoute == {"gate", "mark", "fail", "wakeup"}

Coming(p, r) == on[p] = r /\ (pc[p] \in EnRoute \/ (p \in Workers /\ pc[p] = "acquire"))

Pending(r) == HasWakeup(r) \/ \E p \in Procs : Coming(p, r)

Sleeping(r) == status[r] = "Awaiting" /\ deadline[r] # None

\* The queue is closed, and timers are cancelled, only when the engine's context is
\* done.
Shutdown ==
  /\ stopped => ctxDone
  /\ \A p \in Procs : pc[p] \in {"stop_close", "stop_wait", "stop_timers"} => ctxDone

Wakeups == \A r \in Runs : Sleeping(r) /\ ~ctxDone /\ r \notin lost => Pending(r)

WakeInv == RegisteredIsArmed /\ Shutdown /\ Wakeups

\* An accepted enqueue gives its run a wakeup, a dropped one records the loss, and
\* neither takes the wakeup of another run.
LEMMA EnqueueWakes ==
  ASSUME SchedTypeOK, RegisteredIsArmed, NEW r \in Runs, NEW f \in [Handles -> Goroutines],
         \A h \in Handles : f[h] = th[h] \/ (th[h].run = r /\ th[h].phase # "waiting"),
         Enqueue(r, f), ~stopped
  PROVE  /\ HasWakeup(r)' \/ r \in lost'
         /\ \A x \in Runs \ {r} : /\ HasWakeup(x) => HasWakeup(x)'
                                  /\ x \in lost => x \in lost'
<1>0. /\ timers \in [Runs -> Handles \cup {None}] /\ th \in [Handles -> Goroutines]
      /\ queue \in Seq(Runs) /\ \A x \in Runs : timers[x] # None => timers[x] \in Handles
  BY DEF SchedTypeOK
<1>1. timers' = [timers EXCEPT ![r] = None] /\ th' = CancelIn(f, timers[r])
  BY DEF Enqueue, Unregistered
<1>2. \/ queue' = Append(queue, r) /\ lost' = lost \ {r}
      \/ queue' = queue /\ lost' = lost \cup {r}
  BY DEF Enqueue
<1>3. Len(queue) \in Nat
  BY <1>0
<1>4. \A i \in 1..Len(queue) : i \in 1..Len(queue') /\ queue'[i] = queue[i]
  BY <1>0, <1>2
<1>5. HasWakeup(r)' \/ r \in lost'
  <2>1. CASE queue' = Append(queue, r)
    <3>1. Len(queue') = Len(queue) + 1 /\ queue'[Len(queue) + 1] = r
      BY <1>0, <2>1
    <3>2. Len(queue) + 1 \in 1..Len(queue')
      BY <1>3, <3>1
    <3>3. QED
      BY <3>1, <3>2 DEF HasWakeup
  <2>2. QED
    BY <1>2, <2>1
<1>6. ASSUME NEW x \in Runs \ {r}, HasWakeup(x) PROVE HasWakeup(x)'
  <2>1. \A h \in Handles : h # timers[r] \/ f[h].phase # "waiting" => th'[h] = f[h]
    BY <1>0, <1>1, CancelInEffect
  <2>2. CASE \E i \in 1..Len(queue) : queue[i] = x
    BY <1>4, <2>2 DEF HasWakeup
  <2>3. ASSUME NEW h \in Handles, th[h].run = x, th[h].phase \in {"dispatch", "redispatch"}
        PROVE  HasWakeup(x)'
    BY <2>1, <2>3 DEF HasWakeup
  <2>4. CASE timers[x] # None /\ th[timers[x]].phase = "waiting"
    <3>1. timers[x] \in Handles /\ th[timers[x]].run = x /\ timers[x] # timers[r] /\ timers'[x] = timers[x]
      BY <1>0, <1>1, <2>4 DEF RegisteredIsArmed
    <3>2. th'[timers[x]] = th[timers[x]]
      BY <2>1, <3>1
    <3>3. QED
      BY <2>4, <3>1, <3>2 DEF HasWakeup
  <2>5. QED
    BY <1>6, <2>2, <2>3, <2>4 DEF HasWakeup
<1>7. QED
  BY <1>2, <1>5, <1>6

\* Whatever changes, a run keeps its wakeup when the scheduler keeps it and the
\* process that moves was not the one that was coming.
LEMMA PendingKept ==
  ASSUME NEW r \in Runs, NEW p \in Procs, Others(p), ~Coming(p, r) \/ Coming(p, r)',
         HasWakeup(r) => HasWakeup(r)', Pending(r)
  PROVE  Pending(r)'
BY DEF Pending, Others, Coming

\* The same for a step in which no process moves.
LEMMA PendingSame ==
  ASSUME NEW r \in Runs, UNCHANGED <<pc, on>>, HasWakeup(r) => HasWakeup(r)', Pending(r)
  PROVE  Pending(r)'
BY DEF Pending, Coming

\* The engine's context is cancelled before anything else is taken away.
LEMMA ShutdownStep == TypeInv /\ Shutdown /\ [Next]_vars => Shutdown'
<1> SUFFICES ASSUME TypeInv, Shutdown, [Next]_vars PROVE Shutdown'
  OBVIOUS
<1> DEFINE Stopping == {"stop_close", "stop_wait", "stop_timers"}
<1> USE DEF schedVars, clientVars, queueVars, Goto
<1>0. pc \in [Procs -> Labels] /\ on \in [Procs -> Runs \cup {None}]
  BY DEF TypeInv, TypeOK
<1>1. ASSUME NEW p \in Procs, Others(p), pc'[p] \notin Stopping \/ pc[p] \in Stopping,
             UNCHANGED <<stopped, ctxDone>>
      PROVE  Shutdown'
  BY <1>1 DEF Shutdown, Others
<1>2. ASSUME UNCHANGED <<stopped, ctxDone, pc>> PROVE Shutdown'
  BY <1>2 DEF Shutdown
<1>3. ASSUME NEW r, NEW f, Enqueue(r, f) PROVE UNCHANGED stopped
  BY <1>3 DEF Enqueue
<1>4. ASSUME NEW p \in Procs,
             \/ WorkerTake(p) \/ RunOnce(p) \/ RunAcquire(p) \/ RunGate(p) \/ RunMark(p)
             \/ RunSuspend(p) \/ RunWakeup(p) \/ RunSucceed(p) \/ RunError(p) \/ RunFail(p)
             \/ RunStoreFails(p) \/ RunRelease(p) \/ Notify(p) \/ NotifyClose(p)
      PROVE  Shutdown'
  <2>1. Others(p) /\ UNCHANGED <<stopped, ctxDone>>
    BY <1>0, <1>4
    DEF WorkerTake, RunOnce, RunAcquire, RunGate, RunMark, RunSuspend, RunWakeup, RunSucceed,
        RunError, RunFail, RunStoreFails, RunRelease, Notify, NotifyClose, Return, Others
  <2>2. pc'[p] \notin Stopping
    BY <1>0, <1>4
    DEF WorkerTake, RunOnce, RunAcquire, RunGate, RunMark, RunSuspend, RunWakeup, RunSucceed,
        RunError, RunFail, RunStoreFails, RunRelease, Notify, NotifyClose, Return, AfterWakeup,
        AfterFailed
  <2>3. QED
    BY <1>1, <2>1, <2>2
<1>5. ASSUME NEW p \in Procs, RunBody(p) PROVE Shutdown'
  <2>1. pc' = pc \/ \E l \in {"succeed", "error", "suspend"} : pc' = [pc EXCEPT ![p] = l]
    BY <1>5 DEF RunBody
  <2>2. UNCHANGED <<stopped, ctxDone, on>>
    BY <1>5 DEF RunBody
  <2>3. QED
    BY <1>0, <1>1, <1>2, <2>1, <2>2 DEF Others
<1>6. ASSUME NEW p \in Procs,
             \/ SignalCheck(p) \/ SignalPush(p) \/ ClientAcquire(p) \/ ClientDispatch(p)
             \/ CancelCheck(p) \/ CancelStatus(p) \/ CancelAudit(p) \/ CancelClear(p)
             \/ RetryCheck(p) \/ RetryReset(p) \/ RetryRelease(p) \/ ClientRelease(p)
      PROVE  Shutdown'
  <2>1. Others(p) /\ UNCHANGED <<stopped, ctxDone>>
    BY <1>0, <1>3, <1>6
    DEF SignalCheck, SignalPush, ClientAcquire, ClientDispatch, CancelCheck, CancelStatus,
        CancelAudit, CancelClear, RetryCheck, RetryReset, RetryRelease, ClientRelease, Finish, Others
  <2>2. pc'[p] \notin Stopping
    BY <1>0, <1>6
    DEF SignalCheck, SignalPush, ClientAcquire, ClientDispatch, CancelCheck, CancelStatus,
        CancelAudit, CancelClear, RetryCheck, RetryReset, RetryRelease, ClientRelease, Finish
  <2>3. QED
    BY <1>1, <2>1, <2>2
<1>7. ASSUME NEW p \in Procs, WaitDone(p) \/ WaitGiveUp(p) PROVE Shutdown'
  BY <1>0, <1>1, <1>7
  DEF WaitDone, WaitAdd, WaitQuery, WaitSelect, WaitGiveUp, WaitRequery, WaitRemove, Others
<1>8. ASSUME NEW p \in Procs, StopCancel(p) PROVE Shutdown'
  BY <1>8 DEF StopCancel, Shutdown
<1>9. ASSUME NEW p \in Procs, StopClose(p) \/ StopWait(p) \/ StopTimeout(p) \/ StopTimers(p)
      PROVE  Shutdown'
  <2>1. ctxDone /\ ctxDone' = ctxDone
    BY <1>9 DEF StopClose, StopWait, StopTimeout, StopTimers, Shutdown
  <2>2. QED
    BY <2>1 DEF Shutdown
<1>10. ASSUME NEW h \in Handles, Goroutine(h), UNCHANGED pc PROVE Shutdown'
  BY <1>2, <1>3, <1>10 DEF Goroutine, TimerSelect, TimerDispatch, TimerCleanup
<1>11. ASSUME NEW r \in Runs, Start(r) \/ RecoverDispatch(r) \/ Elapse(r) \/ LeaseExpires(r)
       PROVE  Shutdown'
  BY <1>2, <1>3, <1>11
  DEF Start, StartCreate, StartRecover, StartScan, StartDispatch, RecoverDispatch, Elapse, LeaseExpires
<1>12. CASE RecoverScan \/ UNCHANGED vars
  BY <1>2, <1>12 DEF RecoverScan, vars
<1>13. CASE Crash
  BY <1>13 DEF Crash, Shutdown
<1>14. QED
  BY <1>4, <1>5, <1>6, <1>7, <1>8, <1>9, <1>10, <1>11, <1>12, <1>13
  DEF Next, Run, Call, Stop, Executors, Clients, Procs

\* A step that leaves the scheduler alone.
LEMMA WakeFrame ==
  ASSUME Wakeups, UNCHANGED schedVars, NEW p \in Procs, Others(p),
         \A r \in Runs : Sleeping(r)' => \/ Sleeping(r) /\ (Coming(p, r) => Coming(p, r)')
                                         \/ Coming(p, r)'
  PROVE  Wakeups'
<1> SUFFICES ASSUME NEW r \in Runs, Sleeping(r)', ~ctxDone', r \notin lost' PROVE Pending(r)'
  BY DEF Wakeups
<1>1. CASE Coming(p, r)'
  BY <1>1 DEF Pending
<1>2. CASE Sleeping(r) /\ (Coming(p, r) => Coming(p, r)')
  <2>1. Pending(r) /\ (HasWakeup(r) => HasWakeup(r)')
    BY <1>2 DEF Wakeups, schedVars, HasWakeup
  <2>2. QED
    BY <1>2, <2>1, PendingKept
<1>3. QED
  BY <1>1, <1>2

\* A step that enqueues a run.
LEMMA WakeEnqueue ==
  ASSUME TypeInv, WakeInv, NEW r \in Runs, NEW f \in [Handles -> Goroutines],
         \A h \in Handles : f[h] = th[h] \/ (th[h].run = r /\ th[h].phase # "waiting"),
         Enqueue(r, f), UNCHANGED <<status, deadline, ctxDone>>,
         NEW p \in Procs, Others(p), \A x \in Runs : ~Coming(p, x)
  PROVE  Wakeups'
<1> SUFFICES ASSUME NEW x \in Runs, Sleeping(x)', ~ctxDone', x \notin lost' PROVE Pending(x)'
  BY DEF Wakeups
<1>1. ~stopped /\ SchedTypeOK /\ RegisteredIsArmed
  BY DEF WakeInv, Shutdown, TypeInv, TypeOK
<1>2. CASE x = r
  BY <1>1, <1>2, EnqueueWakes DEF Pending
<1>3. CASE x # r
  <2>1. x \notin lost /\ (HasWakeup(x) => HasWakeup(x)')
    BY <1>1, <1>3, EnqueueWakes
  <2>2. Pending(x)
    BY <2>1 DEF WakeInv, Wakeups, Sleeping
  <2>3. QED
    BY <2>1, <2>2, PendingKept
<1>4. QED
  BY <1>2, <1>3

\* The same, when no process moves.
LEMMA WakeEnqueueSame ==
  ASSUME TypeInv, WakeInv, NEW r \in Runs, NEW f \in [Handles -> Goroutines],
         \A h \in Handles : f[h] = th[h] \/ (th[h].run = r /\ th[h].phase # "waiting"),
         Enqueue(r, f), UNCHANGED <<status, deadline, ctxDone, pc, on>>
  PROVE  Wakeups'
<1> SUFFICES ASSUME NEW x \in Runs, Sleeping(x)', ~ctxDone', x \notin lost' PROVE Pending(x)'
  BY DEF Wakeups
<1>1. ~stopped /\ SchedTypeOK /\ RegisteredIsArmed
  BY DEF WakeInv, Shutdown, TypeInv, TypeOK
<1>2. CASE x = r
  BY <1>1, <1>2, EnqueueWakes DEF Pending
<1>3. CASE x # r
  <2>1. x \notin lost /\ (HasWakeup(x) => HasWakeup(x)')
    BY <1>1, <1>3, EnqueueWakes
  <2>2. Pending(x)
    BY <2>1 DEF WakeInv, Wakeups, Sleeping
  <2>3. QED
    BY <2>1, <2>2, PendingSame
<1>4. QED
  BY <1>2, <1>3

\* Every step of every process leaves sleeping runs their wakeups, or records the loss.
LEMMA WakeupsStep == RunInv /\ WakeInv /\ [Next]_vars => Wakeups'
<1> SUFFICES ASSUME RunInv, WakeInv, [Next]_vars PROVE Wakeups'
  OBVIOUS
<1> USE DEF storeVars, planVars, clientVars, queueVars, Goto
<1>0. /\ TypeInv /\ SchedTypeOK /\ Wakeups /\ RegisteredIsArmed /\ Shutdown
      /\ pc \in [Procs -> Labels] /\ on \in [Procs -> Runs \cup {None}]
      /\ status \in [Runs -> Statuses \cup {None}]
      /\ deadline \in [Runs -> {None, "future", "due"}]
      /\ timers \in [Runs -> Handles \cup {None}] /\ th \in [Handles -> Goroutines]
      /\ queue \in Seq(Runs)
      /\ \A p \in Procs : Knows(p) /\ InKind(p) /\ (pc[p] \in Busy => on[p] \in Runs)
      /\ \A r \in Runs : timers[r] # None => timers[r] \in Handles
  BY DEF RunInv, WakeInv, TypeInv, TypeOK, SchedTypeOK, KindInv, HolderInv, OnRuns
\* A call that is not coming for a run changes neither the runs nor the scheduler.
<1>1. ASSUME NEW p \in Procs, Others(p), pc[p] \notin EnRoute \cup {"acquire"},
             UNCHANGED <<status, deadline, schedVars>>
      PROVE  Wakeups'
  BY <1>0, <1>1, WakeFrame DEF Coming, Sleeping
<1>2. ASSUME NEW p \in Procs, WorkerTake(p) PROVE Wakeups'
  <2>1. UNCHANGED <<status, deadline, timers, th, ctxDone, lost>> /\ pc[p] = "idle" /\ Others(p)
    BY <1>0, <1>2 DEF WorkerTake, Others
  <2>2. CASE queue # << >> /\ queue' = Tail(queue) /\ on' = [on EXCEPT ![p] = Head(queue)]
             /\ pc' = [pc EXCEPT ![p] = "acquire"] /\ p \in Workers
    <3> SUFFICES ASSUME NEW r \in Runs, Sleeping(r)', ~ctxDone', r \notin lost' PROVE Pending(r)'
      BY DEF Wakeups
    <3>1. Pending(r) /\ \A x \in Runs : ~Coming(p, x)
      BY <1>0, <2>1 DEF Wakeups, Sleeping, Coming, EnRoute
    <3>2. CASE Head(queue) = r
      BY <1>0, <2>2, <3>2 DEF Pending, Coming
    <3>3. CASE Head(queue) # r
      <4>1. ASSUME NEW i \in 1..Len(queue), queue[i] = r PROVE \E j \in 1..Len(queue') : queue'[j] = r
        <5>1. i # 1 /\ i - 1 \in 1..(Len(queue) - 1)
          BY <1>0, <2>2, <3>3, <4>1
        <5>2. Len(queue') = Len(queue) - 1 /\ queue'[i - 1] = queue[i]
          BY <1>0, <2>2, <5>1
        <5>3. QED
          BY <4>1, <5>1, <5>2
      <4>2. HasWakeup(r) => HasWakeup(r)'
        BY <2>1, <4>1 DEF HasWakeup
      <4>3. QED
        BY <2>1, <3>1, <4>2, PendingKept
    <3>4. QED
      BY <3>2, <3>3
  <2>3. CASE UNCHANGED <<queue, on>>
    BY <1>0, <1>1, <2>1, <2>3, <1>2, WakeFrame DEF WorkerTake, Coming, Sleeping, EnRoute, HasWakeup,
       Wakeups, Pending, Others
  <2>4. p \in Workers
    BY <1>0, <2>1, KindsDisjoint DEF InKind, RunLabels, Procs, Executors, Clients
  <2>5. QED
    BY <1>2, <2>2, <2>3, <2>4 DEF WorkerTake
<1>3. ASSUME NEW p \in Procs, RunAcquire(p) PROVE Wakeups'
  <2>0. pc[p] = "acquire" /\ on[p] \in Runs
    BY <1>0, <1>3 DEF RunAcquire, Busy
  <2>1. CASE pc' = [pc EXCEPT ![p] = "gate"] /\ UNCHANGED <<lost, on>>
    <3>1. UNCHANGED <<status, deadline, schedVars>> /\ Others(p) /\ \A r : Coming(p, r) => Coming(p, r)'
      BY <1>0, <1>3, <2>1 DEF RunAcquire, Others, Coming, EnRoute, schedVars
    <3>2. QED
      BY <1>0, <3>1, WakeFrame DEF Sleeping
  <2>2. CASE Return(p) /\ lost' = IF p \in Workers THEN lost \cup {on[p]} ELSE lost
    <3> SUFFICES ASSUME NEW r \in Runs, Sleeping(r)', ~ctxDone', r \notin lost' PROVE Pending(r)'
      BY DEF Wakeups
    <3>1. UNCHANGED <<status, deadline, queue, timers, th, ctxDone>> /\ Others(p)
      BY <1>0, <1>3, <2>2 DEF RunAcquire, Return, Others
    <3>2. r \notin lost /\ ~Coming(p, r)
      BY <2>0, <2>2 DEF Coming, EnRoute
    <3>3. Pending(r) /\ (HasWakeup(r) => HasWakeup(r)')
      BY <1>0, <3>1, <3>2 DEF Wakeups, Sleeping, HasWakeup
    <3>4. QED
      BY <3>1, <3>2, <3>3, PendingKept
  <2>3. QED
    BY <1>3, <2>1, <2>2 DEF RunAcquire
\* A failed store call costs the run it was about its wakeup, and no other.
<1>s. ASSUME NEW p \in Procs, RunStoreFails(p) PROVE Wakeups'
  <2> SUFFICES ASSUME NEW r \in Runs, Sleeping(r)', ~ctxDone', r \notin lost' PROVE Pending(r)'
    BY DEF Wakeups
  <2>1. /\ UNCHANGED <<status, deadline, queue, timers, th, ctxDone>> /\ Others(p)
        /\ lost' = lost \cup {on[p]}
    BY <1>0, <1>s DEF RunStoreFails, Return, Others
  <2>2. r \notin lost /\ ~Coming(p, r)
    BY <2>1 DEF Coming
  <2>3. Pending(r) /\ (HasWakeup(r) => HasWakeup(r)')
    BY <1>0, <2>1, <2>2 DEF Wakeups, Sleeping, HasWakeup
  <2>4. QED
    BY <2>1, <2>2, <2>3, PendingKept
<1>4. ASSUME NEW p \in Procs, RunGate(p) PROVE Wakeups'
  <2>1. /\ pc[p] = "gate" /\ on[p] \in Runs /\ UNCHANGED <<status, deadline, schedVars, on>> /\ Others(p)
        /\ status[on[p]] = "Awaiting" => pc'[p] \in {"mark", "fail"}
    BY <1>0, <1>4 DEF RunGate, Gate, IsTerminal, None, Others, Busy, Critical
  <2>2. \A r \in Runs : Sleeping(r) /\ Coming(p, r) => Coming(p, r)'
    BY <1>0, <2>1 DEF Sleeping, Coming, EnRoute
  <2>3. QED
    BY <1>0, <2>1, <2>2, WakeFrame DEF Sleeping
\* The holder of a run changes it: the run is not sleeping afterwards, or is
\* about to schedule its wakeup.
<1>5. ASSUME NEW p \in Procs, Changes(p) PROVE Wakeups'
  <2>1. /\ on[p] \in Runs /\ on' = on /\ UNCHANGED schedVars
        /\ \A r \in Runs \ {on[p]} : status'[r] = status[r] /\ deadline'[r] = deadline[r]
    <3>1. CASE RunBody(p)
      <4>1. \/ deadline' = deadline
            \/ deadline' = [deadline EXCEPT ![on[p]] = "future"]
            \/ deadline' = [deadline EXCEPT ![on[p]] = None]
        BY <3>1 DEF RunBody
      <4>2. QED
        BY <1>0, <3>1, <4>1 DEF RunBody, Busy, Critical
    <3>2. CASE ~RunBody(p)
      BY <1>0, <1>5, <3>2
      DEF Changes, RunMark, RunSuspend, RunSucceed, RunFail, CancelStatus, RetryReset, SetStatus,
          Busy, Critical
    <3>3. QED
      BY <3>1, <3>2
  <2>2. Others(p)
    <3>1. CASE RunBody(p)
      <4>1. pc' = pc \/ \E l \in {"succeed", "error", "suspend"} : pc' = [pc EXCEPT ![p] = l]
        BY <3>1 DEF RunBody
      <4>2. QED
        BY <1>0, <2>1, <4>1 DEF Others
    <3>2. CASE ~RunBody(p)
      BY <1>0, <1>5, <3>2
      DEF Changes, RunMark, RunSuspend, RunSucceed, RunFail, CancelStatus, RetryReset, Others
    <3>3. QED
      BY <3>1, <3>2
  <2>3. status'[on[p]] # "Awaiting" \/ pc'[p] = "wakeup"
    <3>1. CASE RunBody(p)
      BY <1>0, <3>1 DEF RunBody, Knows
    <3>2. CASE ~RunBody(p)
      BY <1>0, <1>5, <2>1, <3>2
      DEF Changes, RunMark, RunSuspend, RunSucceed, RunFail, CancelStatus, RetryReset, SetStatus, Knows
    <3>3. QED
      BY <3>1, <3>2
  <2>4. \A r \in Runs : Sleeping(r)' => \/ Sleeping(r) /\ ~Coming(p, r)
                                        \/ Coming(p, r)'
    BY <2>1, <2>3 DEF Sleeping, Coming, EnRoute
  <2>5. QED
    BY <1>0, <2>1, <2>2, <2>4, WakeFrame
<1>6. ASSUME NEW p \in Procs, RunWakeup(p) PROVE Wakeups'
  <2>1. /\ pc[p] = "wakeup" /\ on[p] \in Runs /\ Others(p)
        /\ ScheduleWakeup(on[p], deadline[on[p]])
        /\ UNCHANGED <<on, status, deadline, queue, ctxDone, lost>>
    BY <1>0, <1>6 DEF RunWakeup, Others, Busy, Critical
  <2>2. /\ deadline[on[p]] # None => HasWakeup(on[p])'
        /\ \A x \in Runs \ {on[p]} : HasWakeup(x) => HasWakeup(x)'
    BY <1>0, <2>1, ScheduleArmed
  <2> SUFFICES ASSUME NEW r \in Runs, Sleeping(r)', ~ctxDone', r \notin lost' PROVE Pending(r)'
    BY DEF Wakeups
  <2>3. CASE r = on[p]
    BY <2>1, <2>2, <2>3 DEF Sleeping, Pending
  <2>4. CASE r # on[p]
    <3>1. Pending(r) /\ ~Coming(p, r)
      BY <1>0, <2>1, <2>4 DEF Wakeups, Sleeping, Coming
    <3>2. QED
      BY <2>1, <2>2, <2>4, <3>1, PendingKept
  <2>5. QED
    BY <2>3, <2>4
<1>7. ASSUME NEW p \in Procs, CancelClear(p) PROVE Wakeups'
  <2>1. /\ pc[p] = "cancel_clear" /\ on[p] \in Runs /\ Others(p) /\ status[on[p]] = "Cancelled"
        /\ timers' = [timers EXCEPT ![on[p]] = None] /\ th' = CancelIn(th, timers[on[p]])
        /\ UNCHANGED <<status, deadline, queue, ctxDone, lost>>
    BY <1>0, <1>7 DEF CancelClear, ClearTimer, Unregistered, Others, Busy, Critical, Knows
  <2> SUFFICES ASSUME NEW r \in Runs, Sleeping(r)', ~ctxDone', r \notin lost' PROVE Pending(r)'
    BY DEF Wakeups
  <2>2. r # on[p] /\ Pending(r) /\ ~Coming(p, r)
    BY <1>0, <2>1 DEF Sleeping, Wakeups, Coming, EnRoute
  <2>3. /\ timers'[r] = timers[r] /\ (timers[r] # None => timers[r] # timers[on[p]])
        /\ \A h \in Handles : h # timers[on[p]] \/ th[h].phase # "waiting" => th'[h] = th[h]
    BY <1>0, <2>1, <2>2, CancelInEffect DEF RegisteredIsArmed
  <2>4. HasWakeup(r) => HasWakeup(r)'
    BY <1>0, <2>1, <2>3 DEF HasWakeup
  <2>5. QED
    BY <2>1, <2>2, <2>4, PendingKept
<1>8. ASSUME NEW p \in Procs,
             \/ RunOnce(p) \/ RunError(p) \/ RunRelease(p) \/ Notify(p) \/ NotifyClose(p)
             \/ SignalCheck(p) \/ SignalPush(p) \/ ClientAcquire(p) \/ CancelCheck(p) \/ CancelAudit(p)
             \/ RetryCheck(p) \/ RetryRelease(p) \/ ClientRelease(p)
      PROVE  Wakeups'
  <2>1. Others(p) /\ UNCHANGED <<status, deadline, schedVars>>
    BY <1>0, <1>8
    DEF RunOnce, RunError, RunRelease, Notify, NotifyClose, SignalCheck, SignalPush, ClientAcquire,
        CancelCheck, CancelAudit, RetryCheck, RetryRelease, ClientRelease, Return, Finish, Others
  <2>2. pc[p] \notin EnRoute \cup {"acquire"}
    BY <1>8
    DEF RunOnce, RunError, RunRelease, Notify, NotifyClose, SignalCheck, SignalPush, ClientAcquire,
        CancelCheck, CancelAudit, RetryCheck, RetryRelease, ClientRelease, EnRoute
  <2>3. QED
    BY <1>1, <2>1, <2>2
<1>9. ASSUME NEW p \in Procs, WaitDone(p) \/ WaitGiveUp(p) \/ StopWait(p) \/ StopTimeout(p) PROVE Wakeups'
  BY <1>0, <1>1, <1>9
  DEF WaitDone, WaitAdd, WaitQuery, WaitSelect, WaitGiveUp, WaitRequery, WaitRemove, StopWait,
      StopTimeout, EnRoute, Others
<1>10. ASSUME NEW p \in Procs, StopCancel(p) \/ StopClose(p) \/ StopTimers(p) PROVE Wakeups'
  <2>1. ctxDone'
    BY <1>0, <1>10 DEF StopCancel, StopClose, StopTimers, Shutdown
  <2>2. QED
    BY <2>1 DEF Wakeups
<1>11. ASSUME NEW p \in Procs, ClientDispatch(p) PROVE Wakeups'
  <2>1. /\ on[p] \in Runs /\ Enqueue(on[p], th) /\ UNCHANGED <<status, deadline, ctxDone>>
        /\ Others(p) /\ pc[p] = "dispatch"
    BY <1>0, <1>11 DEF ClientDispatch, Finish, Others, Busy
  <2>2. QED
    BY <1>0, <2>1, WakeEnqueue DEF Coming, EnRoute
<1>12. ASSUME NEW h \in Handles, TimerSelect(h), UNCHANGED <<pc, on, status, deadline>> PROVE Wakeups'
  <2> SUFFICES ASSUME NEW r \in Runs, Sleeping(r)', ~ctxDone', r \notin lost' PROVE Pending(r)'
    BY DEF Wakeups
  <2>1. Pending(r) /\ UNCHANGED <<queue, timers>>
    BY <1>0, <1>12 DEF Wakeups, Sleeping, TimerSelect
  <2>2. \/ th[h].phase \in {"waiting", "cancelled"} /\ th' = [th EXCEPT ![h].phase = "dispatch"]
        \/ th[h].phase = "cancelled" /\ th' = [th EXCEPT ![h].phase = "cleanup"]
    BY <1>12 DEF TimerSelect
  <2>3. /\ \A x \in Handles : x # h => th'[x] = th[x]
        /\ th'[h].run = th[h].run
        /\ th'[h].phase = "dispatch" \/ th[h].phase = "cancelled"
    BY <1>0, <2>2 DEF Goroutines
  <2>4. HasWakeup(r) => HasWakeup(r)'
    <3>1. CASE timers[r] = h
      <4>1. h # None /\ th[h].run = r
        BY <1>0, <3>1, SchedulerAssumption DEF RegisteredIsArmed
      <4>2. th[h].phase # "cancelled"
        BY <1>0, <3>1, <4>1 DEF RegisteredIsArmed
      <4>3. QED
        BY <2>3, <4>1, <4>2 DEF HasWakeup
    <3>2. CASE timers[r] # h
      BY <1>0, <2>1, <2>2, <2>3, <3>2 DEF HasWakeup
    <3>3. QED
      BY <3>1, <3>2
  <2>5. QED
    BY <1>12, <2>1, <2>4, PendingSame
<1>13. ASSUME NEW h \in Handles, TimerDispatch(h), UNCHANGED <<pc, on, status, deadline>> PROVE Wakeups'
  <2>0. ctxDone' = ctxDone
    BY <1>13 DEF TimerDispatch
  <2>1. CASE th[h].phase = "dispatch" /\ Enqueue(th[h].run, [th EXCEPT ![h].phase = "cleanup"])
    <3>1. th[h].run \in Runs
      BY <1>0, <2>1 DEF TypeInv, HandleRuns
    <3>2. [th EXCEPT ![h].phase = "cleanup"] \in [Handles -> Goroutines]
      BY <1>0 DEF Goroutines, Phases
    <3>3. \A x \in Handles : x # h => [th EXCEPT ![h].phase = "cleanup"][x] = th[x]
      BY <1>0
    <3>4. QED
      BY <1>0, <1>13, <2>0, <2>1, <3>1, <3>2, <3>3, WakeEnqueueSame
  <2>2. CASE th[h].phase = "redispatch" /\ Enqueue(th[h].run, [th EXCEPT ![h] = FreeHandle])
    <3>1. th[h].run \in Runs
      BY <1>0, <2>2 DEF TypeInv, HandleRuns
    <3>2. [th EXCEPT ![h] = FreeHandle] \in [Handles -> Goroutines]
      BY <1>0 DEF Goroutines, Phases, FreeHandle
    <3>3. \A x \in Handles : x # h => [th EXCEPT ![h] = FreeHandle][x] = th[x]
      BY <1>0
    <3>4. QED
      BY <1>0, <1>13, <2>0, <2>2, <3>1, <3>2, <3>3, WakeEnqueueSame
  <2>3. QED
    BY <1>13, <2>1, <2>2 DEF TimerDispatch
<1>14. ASSUME NEW h \in Handles, TimerCleanup(h), UNCHANGED <<pc, on, status, deadline>> PROVE Wakeups'
  <2> SUFFICES ASSUME NEW r \in Runs, Sleeping(r)', ~ctxDone', r \notin lost' PROVE Pending(r)'
    BY DEF Wakeups
  <2>1. Pending(r) /\ queue' = queue /\ th[h].phase = "cleanup"
    BY <1>0, <1>14 DEF Wakeups, Sleeping, TimerCleanup
  <2>2. \A x \in Handles : x # h => th'[x] = th[x]
    BY <1>0, <1>14 DEF TimerCleanup, ClearTimerIf
  <2>3. timers[r] # h => timers'[r] = timers[r]
    BY <1>14 DEF TimerCleanup, ClearTimerIf
  <2>4. HasWakeup(r) => HasWakeup(r)'
    BY <1>0, <2>1, <2>2, <2>3 DEF HasWakeup
  <2>5. QED
    BY <1>14, <2>1, <2>4, PendingSame
<1>15. ASSUME NEW r \in Runs, StartCreate(r) PROVE Wakeups'
  <2>1. /\ status' = [status EXCEPT ![r] = "Running"]
        /\ UNCHANGED <<deadline, schedVars, pc, on>>
    BY <1>15 DEF StartCreate, SetStatus
  <2> SUFFICES ASSUME NEW x \in Runs, Sleeping(x)', ~ctxDone', x \notin lost' PROVE Pending(x)'
    BY DEF Wakeups
  <2>2. Pending(x) /\ (HasWakeup(x) => HasWakeup(x)')
    BY <1>0, <2>1 DEF Sleeping, Wakeups, HasWakeup, schedVars
  <2>3. QED
    BY <2>1, <2>2, PendingSame
\* Steps that dispatch a run or leave the scheduler alone, while no process moves.
<1>16. ASSUME UNCHANGED <<pc, on, status, deadline, schedVars>> PROVE Wakeups'
  BY <1>0, <1>16 DEF Wakeups, Sleeping, Pending, Coming, HasWakeup, schedVars
<1>17. ASSUME NEW r \in Runs, StartRecover(r) \/ LeaseExpires(r) PROVE Wakeups'
  BY <1>16, <1>17 DEF StartRecover, LeaseExpires
<1>18. ASSUME NEW r \in Runs, StartScan(r) \/ StartDispatch(r) \/ RecoverDispatch(r) PROVE Wakeups'
  <2>1. UNCHANGED <<pc, on, status, deadline, ctxDone>> /\ startScan \subseteq Runs
    BY <1>0, <1>18 DEF StartScan, StartDispatch, RecoverDispatch, TypeInv, TypeOK
  <2>2. UNCHANGED schedVars \/ \E x \in Runs : Enqueue(x, th)
    BY <1>18, <2>1 DEF StartScan, StartDispatch, RecoverDispatch, schedVars
  <2>3. QED
    BY <1>0, <1>16, <2>1, <2>2, WakeEnqueueSame
<1>19. ASSUME NEW r \in Runs, Elapse(r) PROVE Wakeups'
  <2>1. /\ UNCHANGED <<timers, queue, ctxDone, lost, pc, on, status>> /\ deadline[r] = "future"
        /\ deadline' = [deadline EXCEPT ![r] = "due"]
        /\ \A h \in Handles : th'[h].run = th[h].run /\ th'[h].phase = th[h].phase
    BY <1>0, <1>19, FireTypes DEF Elapse, TypeInv
  <2> SUFFICES ASSUME NEW x \in Runs, Sleeping(x)', ~ctxDone', x \notin lost' PROVE Pending(x)'
    BY DEF Wakeups
  <2>2. Pending(x)
    BY <1>0, <2>1 DEF Wakeups, Sleeping, None
  <2>3. HasWakeup(x) => HasWakeup(x)'
    BY <1>0, <2>1 DEF HasWakeup
  <2>4. QED
    BY <2>1, <2>2, <2>3, PendingSame
<1>20. CASE RecoverScan \/ UNCHANGED vars
  BY <1>16, <1>20 DEF RecoverScan, vars
<1>21. CASE Crash
  BY <1>21 DEF Crash, Wakeups
<1>22. QED
  BY <1>2, <1>3, <1>s, <1>4, <1>5, <1>6, <1>7, <1>8, <1>9, <1>10, <1>11, <1>12, <1>13, <1>14,
     <1>15, <1>17, <1>18, <1>19, <1>20, <1>21
  DEF Next, Run, Call, Start, Stop, Goroutine, Changes, Executors, Clients, Procs

\* A sleeping run that nobody works on has a task, a registered timer or a goroutine
\* about to enqueue it, unless its wakeup met a held lock, a full queue, a failed
\* store call or a crash.
THEOREM WakeupsPending == Spec => []WakeupPending
<1>1. Init => WakeInv
  <2> SUFFICES ASSUME Init PROVE WakeInv
    OBVIOUS
  <2>1. pc = [p \in Procs |-> IF p \in Workers THEN "idle" ELSE "start"]
    BY Zenon DEF Init
  <2>2. stopped = FALSE /\ RegisteredIsArmed /\ Wakeups
    BY DEF Init, SchedInit, RegisteredIsArmed, Wakeups, Sleeping, None
  <2>3. QED
    BY <2>1, <2>2 DEF WakeInv, Shutdown
<1>2. RunInv /\ WakeInv /\ [Next]_vars => WakeInv'
  BY ArmedStep, ShutdownStep, WakeupsStep DEF WakeInv, RunInv
<1>3. RunInv /\ WakeInv => WakeupPending
  BY DEF WakeInv, Wakeups, WakeupPending, Sleeping, Pending, Coming, EnRoute, Holds, Critical
<1>4. QED
  BY <1>1, <1>2, <1>3, RunInvariant, PTL DEF Spec

-----------------------------------------------------------------------------
(* Stop, in one life of the process and without RunOnce: a caller of RunOnce*)
(* is no worker, Stop does not wait for it, and it may register a timer     *)
(* afterwards.                                                              *)

Quiesced == WorkersGone /\ \A r \in Runs : timers[r] = None

\* The Stop call that closed the queue is on its way, has reported an error, or
\* has left everything quiet.
Accounted(p) ==
  \/ pc[p] \in {"stop_wait", "stop_timers"}
  \/ pc[p] = "done" /\ (seen[p] = "error" \/ Quiesced)

StopInv ==
  /\ \A p \in Stoppers : pc[p] \in {"stop_wait", "stop_timers"} => stopped
  /\ \A p \in Stoppers : pc[p] = "stop_timers" => seen[p] = "error" \/ WorkersGone
  /\ \A p \in Stoppers : pc[p] = "done" /\ seen[p] = "ok" => stopped
  /\ stopped => \E p \in Stoppers : Accounted(p)

\* Quiet stays quiet.
LEMMA QuiescedStays ==
  ASSUME MaxCrashes = 0, Manuals = {}, TypeInv, KindInv, [Next]_vars
  PROVE  (WorkersGone => WorkersGone') /\ (Quiesced => Quiesced')
<1>0. ~Crash /\ Workers \subseteq Procs
  BY DEF Crash, TypeInv, TypeOK, Procs, Executors
<1>1. ASSUME WorkersGone PROVE WorkersGone'
  <2>1. CASE UNCHANGED pc
    BY <1>1, <2>1 DEF WorkersGone
  <2>2. ASSUME NEW p \in Procs, Acts(p) PROVE WorkersGone'
    BY <1>0, <1>1, <2>2 DEF WorkersGone, Acts, Others
  <2>3. QED
    BY <1>0, <2>1, <2>2, Actor
<1>2. ASSUME Quiesced PROVE Quiesced'
  <2>0. /\ WorkersGone /\ timers \in [Runs -> Handles \cup {None}] /\ \A r \in Runs : timers[r] = None
        /\ \A p \in Procs : InKind(p)
    BY <1>2 DEF Quiesced, TypeInv, TypeOK, SchedTypeOK, KindInv
  <2>1. ASSUME NEW r, NEW f, Enqueue(r, f) PROVE \A x \in Runs : timers'[x] = None
    BY <2>0, <2>1 DEF Enqueue, Unregistered
  <2>2. ASSUME NEW h \in Handles, Goroutine(h) PROVE \A x \in Runs : timers'[x] = None
    BY <2>0, <2>1, <2>2 DEF Goroutine, TimerSelect, TimerDispatch, TimerCleanup, ClearTimerIf
  <2>3. ASSUME NEW p \in Procs, RunWakeup(p) PROVE FALSE
    <3>1. pc[p] = "wakeup"
      BY <2>3 DEF RunWakeup
    <3>2. p \in Workers
      BY <2>0, <3>1 DEF InKind, Procs, Executors, Clients
    <3>3. QED
      BY <2>0, <3>1, <3>2 DEF WorkersGone
  <2>4. ASSUME NEW p \in Procs, CancelClear(p) \/ StopTimers(p) PROVE \A x \in Runs : timers'[x] = None
    BY <2>0, <2>4 DEF CancelClear, ClearTimer, Unregistered, StopTimers, CancelAllTimers
  <2>5. ASSUME NEW r \in Runs, Elapse(r) PROVE \A x \in Runs : timers'[x] = None
    BY <2>0, <2>5 DEF Elapse
  <2>6. \A x \in Runs : timers'[x] = None
    BY <1>0, <2>0, <2>1, <2>2, <2>3, <2>4, <2>5, TimerKind
  <2>7. QED
    BY <1>1, <2>0, <2>6 DEF Quiesced
<1>3. QED
  BY <1>1, <1>2

\* Every step keeps what the Stop calls have achieved so far.
LEMMA StopStep ==
  ASSUME MaxCrashes = 0, Manuals = {}
  PROVE  TypeInv /\ KindInv /\ StopInv /\ [Next]_vars => StopInv'
<1> SUFFICES ASSUME TypeInv, KindInv, StopInv, [Next]_vars PROVE StopInv'
  OBVIOUS
<1> USE DEF clientVars, schedVars, queueVars, Goto
<1>0. /\ pc \in [Procs -> Labels] /\ Stoppers \subseteq Procs /\ ~Crash
      /\ seen \in [Procs -> Statuses \cup {None, "ok", "busy", "ignored", "error"}]
      /\ (WorkersGone => WorkersGone') /\ (Quiesced => Quiesced')
  BY QuiescedStays DEF TypeInv, TypeOK, Procs, Clients, Crash
\* Nothing happens to the Stop calls.
<1>1. ASSUME UNCHANGED stopped, \A p \in Stoppers : pc'[p] = pc[p] /\ seen'[p] = seen[p]
      PROVE  StopInv'
  BY <1>0, <1>1 DEF StopInv, Accounted
\* A Stop call moves on.
<1>2. ASSUME NEW p \in Procs, Acts(p), Stop(p) \/ StopTimeout(p) PROVE StopInv'
  <2>0. p \in Stoppers
    BY <1>2, KindsDisjoint
    DEF Stop, StopCancel, StopClose, StopWait, StopTimeout, StopTimers, KindInv, InKind, Procs,
        Executors, Clients, RunLabels
  <2>1. \A q \in Stoppers \ {p} : pc'[q] = pc[q] /\ seen'[q] = seen[q]
    BY <1>0, <1>2 DEF Acts, Others
  <2>2. CASE StopCancel(p)
    <3>1. pc[p] = "start" /\ pc'[p] = "stop_close" /\ UNCHANGED stopped
      BY <1>0, <2>2 DEF StopCancel
    <3>2. QED
      BY <1>0, <2>1, <3>1 DEF StopInv, Accounted
  <2>3. CASE StopClose(p)
    <3>1. CASE stopped /\ Finish(p, "ok") /\ UNCHANGED stopped
      <4>1. pc[p] = "stop_close" /\ pc'[p] = "done" /\ seen'[p] = "ok"
        BY <1>0, <2>3, <3>1 DEF StopClose, Finish
      <4>2. QED
        BY <1>0, <2>1, <3>1, <4>1 DEF StopInv, Accounted
    <3>2. CASE ~stopped /\ CloseQueue /\ pc' = [pc EXCEPT ![p] = "stop_wait"]
      <4>1. stopped' /\ pc'[p] = "stop_wait"
        BY <1>0, <2>0, <3>2 DEF CloseQueue
      <4>2. QED
        BY <1>0, <2>0, <2>1, <4>1 DEF StopInv, Accounted
    <3>3. QED
      BY <2>3, <3>1, <3>2 DEF StopClose
  <2>4. CASE StopWait(p)
    <3>1. pc[p] = "stop_wait" /\ pc'[p] = "stop_timers" /\ UNCHANGED <<seen, stopped>> /\ WorkersGone
      BY <1>0, <2>4 DEF StopWait
    <3>2. QED
      BY <1>0, <2>0, <2>1, <3>1 DEF StopInv, Accounted
  <2>5. CASE StopTimeout(p)
    <3>1. pc[p] = "stop_wait" /\ pc'[p] = "stop_timers" /\ UNCHANGED stopped /\ seen'[p] = "error"
      BY <1>0, <2>5 DEF StopTimeout
    <3>2. QED
      BY <1>0, <2>0, <2>1, <3>1 DEF StopInv, Accounted
  <2>6. CASE StopTimers(p)
    <3>1. /\ pc[p] = "stop_timers" /\ pc'[p] = "done" /\ UNCHANGED stopped
          /\ seen'[p] = IF seen[p] = "error" THEN "error" ELSE "ok"
          /\ \A r \in Runs : timers'[r] = None
      BY <1>0, <2>6 DEF StopTimers, Finish, CancelAllTimers
    <3>2. seen'[p] = "error" \/ Quiesced'
      BY <1>0, <2>0, <3>1 DEF StopInv, Quiesced
    <3>3. QED
      BY <1>0, <2>0, <2>1, <3>1, <3>2 DEF StopInv, Accounted
  <2>7. QED
    BY <1>2, <2>2, <2>3, <2>4, <2>5, <2>6 DEF Stop
<1>3. QED
  BY <1>0, <1>1, <1>2, Actor DEF Acts, NoStop, Others

\* Once every Stop call made so far has returned nil, the workers have ended and no
\* timer is registered: for every number of concurrent Stop calls, in one life of
\* the process and without RunOnce calls.
THEOREM EngineStops ==
  ASSUME MaxCrashes = 0, Manuals = {}
  PROVE  Spec => []StopMeansStopped
<1>1. Init => StopInv
  <2> SUFFICES ASSUME Init PROVE StopInv
    OBVIOUS
  <2>1. \A p \in Stoppers : pc[p] = "start"
    BY KindsDisjoint DEF Init, Procs, Clients
  <2>2. stopped = FALSE
    BY DEF Init, SchedInit
  <2>3. QED
    BY <2>1, <2>2 DEF StopInv
<1>2. StopInv => StopMeansStopped
  BY DEF StopInv, StopMeansStopped, Accounted, Quiesced, WorkersGone
<1>3. TypeInv /\ KindInv /\ StopInv /\ [Next]_vars => StopInv'
  BY StopStep
<1>4. QED
  BY <1>1, <1>2, <1>3, TypeInit, TypeStep, KindInit, KindStep, PTL DEF Spec
=============================================================================
