---------------------------- MODULE EngineProofs ----------------------------
(***************************************************************************)
(* Type correctness and mutual exclusion of Engine, for any number of runs,*)
(* workers and API calls, every plan, every queue size, and every bound on *)
(* crashes and faults; which labels a process of each kind goes through,   *)
(* and what a step of one process leaves to the others.                    *)
(***************************************************************************)
EXTENDS Engine, TLAPS

\* Seven kinds of processes, and nobody is of two kinds.
LEMMA KindsDisjoint ==
  /\ Workers \cap Manuals = {} /\ Workers \cap Clients = {} /\ Manuals \cap Clients = {}
  /\ Waiters \cap (Cancellers \cup Retriers \cup Signallers \cup Stoppers) = {}
  /\ Stoppers \cap (Cancellers \cup Retriers \cup Signallers) = {}
  /\ Cancellers \cap Retriers = {} /\ Signallers \cap (Cancellers \cup Retriers) = {}
<1> DEFINE kinds == <<Workers, Manuals, Cancellers, Retriers, Signallers, Stoppers, Waiters>>
<1>1. \A i, j \in 1..7 : i # j => kinds[i] \cap kinds[j] = {}
  BY EngineAssumption
<1>2. /\ kinds[1] = Workers /\ kinds[2] = Manuals /\ kinds[3] = Cancellers
      /\ kinds[4] = Retriers /\ kinds[5] = Signallers /\ kinds[6] = Stoppers
      /\ kinds[7] = Waiters
  OBVIOUS
<1> HIDE DEF kinds
<1>3. /\ kinds[1] \cap kinds[2] = {} /\ kinds[1] \cap kinds[3] = {} /\ kinds[1] \cap kinds[4] = {}
      /\ kinds[1] \cap kinds[5] = {} /\ kinds[1] \cap kinds[6] = {} /\ kinds[1] \cap kinds[7] = {}
      /\ kinds[2] \cap kinds[3] = {} /\ kinds[2] \cap kinds[4] = {} /\ kinds[2] \cap kinds[5] = {}
      /\ kinds[2] \cap kinds[6] = {} /\ kinds[2] \cap kinds[7] = {}
      /\ kinds[7] \cap kinds[3] = {} /\ kinds[7] \cap kinds[4] = {} /\ kinds[7] \cap kinds[5] = {}
      /\ kinds[7] \cap kinds[6] = {}
      /\ kinds[6] \cap kinds[3] = {} /\ kinds[6] \cap kinds[4] = {} /\ kinds[6] \cap kinds[5] = {}
      /\ kinds[3] \cap kinds[4] = {} /\ kinds[5] \cap kinds[3] = {} /\ kinds[5] \cap kinds[4] = {}
  BY <1>1
<1>4. QED
  BY <1>2, <1>3 DEF Clients

-----------------------------------------------------------------------------
(* Type correctness. *)

\* Labels at which a process is about a run.
Busy == Critical \cup {"acquire", "dispatch", "push", "query", "select", "requery", "remove"}

\* What the types need to be inductive: a call that is about a run knows which,
\* and so does every timer goroutine.
OnRuns == \A p \in Procs : pc[p] \in Busy => on[p] \in Runs
HandleRuns == \A h \in Handles : th[h].phase # "free" => th[h].run \in Runs

TypeInv == TypeOK /\ OnRuns /\ HandleRuns

\* The variables have their types before anything happens.
LEMMA TypeInit == Init => TypeInv
<1> SUFFICES ASSUME Init PROVE TypeInv
  OBVIOUS
<1>1. SchedTypeOK
  <2>1. queue = << >> /\ stopped = FALSE /\ ctxDone = FALSE /\ lost = {}
        /\ timers = [r \in Runs |-> None] /\ th = [h \in Handles |-> FreeHandle]
    BY Zenon DEF Init, SchedInit
  <2>2. queue \in Seq(Runs) /\ Len(queue) <= QueueSize
    <3>1. ASSUME NEW S PROVE << >> \in Seq(S)
      OBVIOUS
    <3>2. Len(<< >>) = 0
      OBVIOUS
    <3>3. QED
      BY <2>1, <3>1, <3>2, SchedulerAssumption
  <2>3. stopped \in BOOLEAN /\ ctxDone \in BOOLEAN
    BY <2>1, Zenon
  <2>4. timers \in [Runs -> Handles \cup {None}] /\ lost \subseteq Runs
    BY <2>1
  <2>5. th \in [Handles -> Goroutines]
    BY <2>1 DEF FreeHandle, Goroutines, Phases
  <2>6. QED
    BY <2>2, <2>3, <2>4, <2>5 DEF SchedTypeOK
<1>2. RegistryTypeOK
  BY DEF Init, RegistryInit, RegistryTypeOK
<1>3. pc = [p \in Procs |-> IF p \in Workers THEN "idle" ELSE "start"]
  BY Zenon DEF Init
<1>4. pc \in [Procs -> Labels] /\ \A p \in Procs : pc[p] \in {"idle", "start"}
  BY <1>3 DEF Labels
<1>5. recovered \in BOOLEAN
  BY Zenon DEF Init
<1>6. done \in [Runs -> Nat] /\ \A r \in Runs : done[r] <= Len(Plan[r])
  BY EngineAssumption DEF Init
<1>7. mail \in [Runs -> BOOLEAN] /\ lock \in [Runs -> BOOLEAN]
  BY DEF Init
<1>8. TypeOK
  BY <1>1, <1>2, <1>4, <1>5, <1>6, <1>7 DEF Init, TypeOK
<1>9. OnRuns
  BY <1>4 DEF OnRuns, Busy, Critical
<1>10. HandleRuns
  BY DEF Init, SchedInit, HandleRuns, FreeHandle
<1>11. QED
  BY <1>8, <1>9, <1>10 DEF TypeInv

\* Cancelling a handle touches the phase of a waiting goroutine and nothing else.
LEMMA CancelInEffect ==
  ASSUME NEW f \in [Handles -> Goroutines], NEW h \in Handles \cup {None}
  PROVE  /\ CancelIn(f, h) \in [Handles -> Goroutines]
         /\ \A x \in Handles : /\ CancelIn(f, h)[x].run = f[x].run
                               /\ CancelIn(f, h)[x].fired = f[x].fired
                               /\ x # h => CancelIn(f, h)[x] = f[x]
                               /\ f[x].phase # "waiting" => CancelIn(f, h)[x] = f[x]
                               /\ x = h /\ f[x].phase = "waiting"
                                    => CancelIn(f, h)[x].phase = "cancelled"
BY SchedulerAssumption DEF CancelIn, Goroutines, Phases

\* What enqueue does to the scheduler.
LEMMA EnqueueTypes ==
  ASSUME SchedTypeOK, NEW r \in Runs, NEW f \in [Handles -> Goroutines], Enqueue(r, f)
  PROVE  /\ queue' \in Seq(Runs) /\ Len(queue') <= QueueSize
         /\ stopped' = stopped
         /\ timers' \in [Runs -> Handles \cup {None}]
         /\ th' \in [Handles -> Goroutines]
         /\ lost' \subseteq Runs
         /\ \A h \in Handles : th'[h].run = f[h].run /\ (th'[h].phase = "free" <=> f[h].phase = "free")
<1>1. timers[r] \in Handles \cup {None} /\ queue \in Seq(Runs) /\ Len(queue) \in Nat
      /\ Len(queue) <= QueueSize /\ QueueSize \in Nat
  BY SchedulerAssumption DEF SchedTypeOK
<1>2. CASE stopped
  BY <1>2, <1>1 DEF Enqueue, SchedTypeOK
<1>3. CASE ~stopped
  <2>1. timers' \in [Runs -> Handles \cup {None}] /\ stopped' = stopped
    BY <1>3 DEF Enqueue, SchedTypeOK, Unregistered
  <2>2. th' = CancelIn(f, timers[r])
    BY <1>3 DEF Enqueue
  <2>3. /\ th' \in [Handles -> Goroutines]
        /\ \A h \in Handles : /\ th'[h].run = f[h].run
                              /\ th'[h].phase = "free" <=> f[h].phase = "free"
    BY <2>2, <1>1, CancelInEffect
  <2>4. queue' \in Seq(Runs) /\ Len(queue') <= QueueSize /\ lost' \subseteq Runs
    <3>1. CASE ~QueueFull /\ queue' = Append(queue, r) /\ lost' = lost \ {r}
      BY <3>1, <1>1 DEF QueueFull, SchedTypeOK
    <3>2. CASE QueueFull /\ queue' = queue /\ lost' = lost \cup {r}
      BY <3>2, <1>1 DEF SchedTypeOK
    <3>3. QED
      BY <1>3, <3>1, <3>2 DEF Enqueue
  <2>5. QED
    BY <2>1, <2>3, <2>4
<1>4. QED
  BY <1>2, <1>3

\* scheduleWakeup takes a free handle, if it needs one.
LEMMA ScheduleTypes ==
  ASSUME SchedTypeOK, HandleRuns, NEW r \in Runs, NEW d \in {None, "future", "due"},
         ScheduleWakeup(r, d)
  PROVE  /\ timers' \in [Runs -> Handles \cup {None}]
         /\ th' \in [Handles -> Goroutines]
         /\ HandleRuns'
<1>1. timers[r] \in Handles \cup {None} /\ th \in [Handles -> Goroutines]
      /\ timers \in [Runs -> Handles \cup {None}]
  BY DEF SchedTypeOK
<1>2. CASE d = None
  BY <1>2, <1>1 DEF ScheduleWakeup, HandleRuns, None
<1>3. CASE d # None
  <2> DEFINE h == CHOOSE x \in Handles : th[x].phase = "free"
  <2>1. h \in Handles
    BY <1>3 DEF ScheduleWakeup
  <2> HIDE DEF h
  <2>2. CASE /\ th' = [th EXCEPT ![h] = [run |-> r, phase |-> "redispatch", fired |-> TRUE]]
             /\ UNCHANGED timers
    BY <2>1, <2>2, <1>1 DEF Goroutines, Phases, HandleRuns
  <2>3. CASE /\ timers' = [timers EXCEPT ![r] = h]
             /\ th' = [CancelIn(th, timers[r])
                         EXCEPT ![h] = [run |-> r, phase |-> "waiting", fired |-> FALSE]]
    <3>1. CancelIn(th, timers[r]) \in [Handles -> Goroutines]
          /\ \A x \in Handles : /\ CancelIn(th, timers[r])[x].run = th[x].run
                                /\ th[x].phase = "free" => CancelIn(th, timers[r])[x].phase = "free"
      BY <1>1, CancelInEffect
    <3>2. \A x \in Handles : CancelIn(th, timers[r])[x].phase # "free"
                                => CancelIn(th, timers[r])[x].run \in Runs
      BY <3>1 DEF HandleRuns
    <3>3. QED
      BY <2>1, <2>3, <1>1, <3>1, <3>2 DEF Goroutines, Phases, HandleRuns
  <2>4. QED
    BY <1>3, <2>2, <2>3 DEF ScheduleWakeup, h
<1>4. QED
  BY <1>2, <1>3

\* A process goes to label l, with r as the run it is about.
LEMMA MoveTypes ==
  ASSUME TypeInv, NEW p \in Procs, NEW l \in Labels, NEW r \in Runs \cup {None},
         pc' = [pc EXCEPT ![p] = l], on' = [on EXCEPT ![p] = r], l \in Busy => r \in Runs
  PROVE  pc' \in [Procs -> Labels] /\ on' \in [Procs -> Runs \cup {None}] /\ OnRuns'
BY DEF TypeInv, TypeOK, OnRuns

\* A process leaves for a label where it is about no run.
LEMMA LeaveTypes ==
  ASSUME TypeInv, NEW p \in Procs, NEW l \in {"idle", "done"},
         pc' = [pc EXCEPT ![p] = l], on' = [on EXCEPT ![p] = None]
  PROVE  pc' \in [Procs -> Labels] /\ on' \in [Procs -> Runs \cup {None}] /\ OnRuns'
<1>1. l \in Labels /\ l \notin Busy
  BY DEF Labels, Busy, Critical
<1>2. QED
  BY <1>1, MoveTypes

\* Release frees the lease or, when it fails, leaves it.
LEMMA ReleaseTypes ==
  ASSUME lock \in [Runs -> BOOLEAN], faults \in Nat, NEW r, Release(r)
  PROVE  lock' \in [Runs -> BOOLEAN] /\ faults' \in Nat
<1>1. CASE lock' = [lock EXCEPT ![r] = FALSE] /\ UNCHANGED faults
  <2>1. [lock EXCEPT ![r] = FALSE] \in [Runs -> BOOLEAN]
    OBVIOUS
  <2>2. QED
    BY <1>1, <2>1
<1>2. CASE Fault /\ UNCHANGED lock
  BY <1>2 DEF Fault
<1>3. QED
  BY <1>1, <1>2 DEF Release

\* A goroutine moves to its next phase.
LEMMA PhaseTypes ==
  ASSUME th \in [Handles -> Goroutines], HandleRuns, NEW h \in Handles, th[h].phase # "free",
         NEW ph \in Phases, th' = [th EXCEPT ![h].phase = ph]
  PROVE  th' \in [Handles -> Goroutines] /\ HandleRuns'
<1>1. /\ th' \in [Handles -> Goroutines]
      /\ th'[h].run = th[h].run
      /\ \A x \in Handles : x # h => th'[x] = th[x]
  BY DEF Goroutines
<1>2. QED
  BY <1>1 DEF HandleRuns

\* Timers are cancelled.
LEMMA CancelTypes ==
  ASSUME th \in [Handles -> Goroutines], HandleRuns, NEW h \in Handles \cup {None},
         th' = CancelIn(th, h)
  PROVE  th' \in [Handles -> Goroutines] /\ HandleRuns'
<1>1. /\ th' \in [Handles -> Goroutines]
      /\ \A x \in Handles : th'[x].run = th[x].run /\ (th[x].phase = "free" => th'[x].phase = "free")
  BY CancelInEffect
<1>2. QED
  BY <1>1 DEF HandleRuns

\* The time of r's deadline has come.
LEMMA FireTypes ==
  ASSUME th \in [Handles -> Goroutines], HandleRuns, NEW r, FireTimers(r)
  PROVE  /\ th' \in [Handles -> Goroutines] /\ HandleRuns'
         /\ \A h \in Handles : th'[h].run = th[h].run /\ th'[h].phase = th[h].phase
<1>1. \A h \in Handles : [th[h] EXCEPT !.fired = TRUE] \in Goroutines
                         /\ [th[h] EXCEPT !.fired = TRUE].run = th[h].run
                         /\ [th[h] EXCEPT !.fired = TRUE].phase = th[h].phase
  BY DEF Goroutines
<1>2. /\ th' \in [Handles -> Goroutines]
      /\ \A h \in Handles : th'[h].run = th[h].run /\ th'[h].phase = th[h].phase
  BY <1>1 DEF FireTimers
<1>3. QED
  BY <1>2 DEF HandleRuns

\* Every step keeps the types.
LEMMA TypeStep == TypeInv /\ [Next]_vars => TypeInv'
<1> SUFFICES ASSUME TypeInv, [Next]_vars PROVE TypeInv'
  OBVIOUS
<1> USE DEF TypeInv, TypeOK, SchedTypeOK, RegistryTypeOK, OnRuns, HandleRuns
<1> USE DEF storeVars, schedVars, registryVars, startVars, boundVars, planVars, queueVars,
            scanVars, clientVars, Goto
<1>0. \A p \in Procs : pc[p] \in Busy => on[p] \in Runs
  OBVIOUS
<1>1. ASSUME NEW p \in Executors, WorkerTake(p) PROVE TypeInv'
  <2>0. p \in Procs
    BY DEF Executors, Procs

  <2>1. CASE queue # << >> /\ queue' = Tail(queue) /\ on' = [on EXCEPT ![p] = Head(queue)]
             /\ pc' = [pc EXCEPT ![p] = "acquire"]
    <3>1. Head(queue) \in Runs /\ queue' \in Seq(Runs) /\ Len(queue') <= QueueSize
      BY <2>1, SchedulerAssumption
    <3>2. "acquire" \in Labels
      BY DEF Labels
    <3>3. pc' \in [Procs -> Labels] /\ on' \in [Procs -> Runs \cup {None}] /\ OnRuns'
      BY <2>0, <2>1, <3>1, <3>2, MoveTypes
    <3>4. QED
      BY <1>1, <3>1, <3>3 DEF WorkerTake
  <2>2. CASE pc' = [pc EXCEPT ![p] = "exited"] /\ UNCHANGED <<queue, on>>
    BY <2>0, <2>2, <1>1 DEF WorkerTake, Labels, Critical, Busy
  <2>3. QED
    BY <2>1, <2>2, <1>1 DEF WorkerTake
<1>2. ASSUME NEW p \in Executors, RunOnce(p) PROVE TypeInv'
  BY <1>2 DEF Labels, Critical, Busy, RunOnce
<1>3. ASSUME NEW p \in Executors, RunAcquire(p) PROVE TypeInv'
  <2>0. p \in Procs
    BY DEF Executors, Procs

  <2>1. on[p] \in Runs
    BY <2>0, <1>0, <1>3 DEF RunAcquire, Busy
  <2>2. CASE Acquire(on[p]) /\ pc' = [pc EXCEPT ![p] = "gate"] /\ UNCHANGED <<lost, on>>
    BY <2>0, <2>1, <2>2, <1>3 DEF RunAcquire, Acquire, Labels, Critical, Busy
  <2>3. CASE Return(p) /\ UNCHANGED lock
    <3>1. pc' \in [Procs -> Labels] /\ on' \in [Procs -> Runs \cup {None}] /\ OnRuns'
      BY <2>0, <2>3, LeaveTypes DEF Return
    <3>2. lost' \subseteq Runs
      BY <2>1, <1>3 DEF RunAcquire
    <3>3. QED
      BY <2>3, <3>1, <3>2, <1>3 DEF RunAcquire
  <2>4. QED
    BY <2>2, <2>3, <1>3 DEF RunAcquire
<1>4. ASSUME NEW p \in Executors, RunGate(p) PROVE TypeInv'
  <2>0. p \in Procs
    BY DEF Executors, Procs
  <2>1. on[p] \in Runs
    BY <2>0, <1>0, <1>4 DEF RunGate, Busy, Critical
  <2>2. PICK l \in {"mark", "fail", "release"} : pc' = [pc EXCEPT ![p] = l]
    BY <1>4 DEF RunGate
  <2>3. l \in Labels /\ on' = [on EXCEPT ![p] = on[p]]
    BY <1>4 DEF RunGate, Labels, Critical
  <2>4. pc' \in [Procs -> Labels] /\ on' \in [Procs -> Runs \cup {None}] /\ OnRuns'
    BY <2>0, <2>1, <2>2, <2>3, MoveTypes
  <2>5. QED
    BY <2>4, <1>4 DEF RunGate
<1>5. ASSUME NEW p \in Executors, RunMark(p) PROVE TypeInv'
  BY <1>5 DEF Labels, Critical, Busy, RunMark, SetStatus, Statuses
<1>6. ASSUME NEW p \in Executors, RunBody(p) PROVE TypeInv'
  <2>0. p \in Procs
    BY DEF Executors, Procs

  <2>1. on[p] \in Runs /\ pc[p] = "body"
    BY <2>0, <1>0, <1>6 DEF RunBody, Busy, Critical
  <2>2. pc' \in [Procs -> Labels] /\ OnRuns'
    <3>1. pc' = pc \/ pc' = [pc EXCEPT ![p] = "succeed"] \/ pc' = [pc EXCEPT ![p] = "error"]
            \/ pc' = [pc EXCEPT ![p] = "suspend"]
      BY <1>6 DEF RunBody
    <3>2. on' = on
      BY <1>6 DEF RunBody
    <3>3. QED
      BY <2>0, <2>1, <3>1, <3>2 DEF Labels, Critical, Busy
  <2>3. done' \in [Runs -> Nat] /\ \A r \in Runs : done'[r] <= Len(Plan[r])
    <3>1. done' = done \/ (done[on[p]] < Len(Plan[on[p]])
                             /\ done' = [done EXCEPT ![on[p]] = @ + 1])
      BY <1>6 DEF RunBody
    <3>2. Len(Plan[on[p]]) \in Nat
      BY <2>1, EngineAssumption
    <3>3. CASE done' = [done EXCEPT ![on[p]] = @ + 1] /\ done[on[p]] < Len(Plan[on[p]])
      <4>1. done[on[p]] + 1 \in Nat /\ done[on[p]] + 1 <= Len(Plan[on[p]])
        BY <2>1, <3>2, <3>3
      <4>2. QED
        BY <2>1, <3>3, <4>1
    <3>4. QED
      BY <3>1, <3>3
  <2>4. deadline' \in [Runs -> {None, "future", "due"}]
    <3>1. \/ deadline' = deadline
          \/ deadline' = [deadline EXCEPT ![on[p]] = "future"]
          \/ deadline' = [deadline EXCEPT ![on[p]] = None]
      BY <1>6 DEF RunBody
    <3>2. QED
      BY <3>1
  <2>5. mail' \in [Runs -> BOOLEAN]
    BY <1>6 DEF RunBody
  <2>6. QED
    BY <2>2, <2>3, <2>4, <2>5, <1>6 DEF RunBody
<1>7. ASSUME NEW p \in Executors, RunSuspend(p) PROVE TypeInv'
  BY <1>7 DEF Labels, Critical, Busy, RunSuspend, SetStatus, Statuses
<1>8. ASSUME NEW p \in Executors, RunWakeup(p) PROVE TypeInv'
  <2>0. p \in Procs
    BY DEF Executors, Procs

  <2>1. on[p] \in Runs
    BY <2>0, <1>0, <1>8 DEF RunWakeup, Busy, Critical
  <2>2. /\ timers' \in [Runs -> Handles \cup {None}] /\ th' \in [Handles -> Goroutines]
        /\ HandleRuns'
    BY <2>1, <1>8, ScheduleTypes DEF RunWakeup
  <2>3. QED
    BY <2>0, <2>1, <2>2, <1>8 DEF RunWakeup, AfterWakeup, Labels, Critical, Busy
<1>9. ASSUME NEW p \in Executors, RunSucceed(p) PROVE TypeInv'
  BY <1>9 DEF Labels, Critical, Busy, RunSucceed, SetStatus, Statuses
<1>10. ASSUME NEW p \in Executors, RunError(p) PROVE TypeInv'
  <2>0. p \in Procs
    BY DEF Executors, Procs

  <2>1. on[p] \in Runs
    BY <2>0, <1>0, <1>10 DEF RunError, Busy, Critical
  <2>2. PICK l \in {"fail", "release"} : pc' = [pc EXCEPT ![p] = l]
    BY <1>10 DEF RunError
  <2>3. l \in Labels /\ on' = [on EXCEPT ![p] = on[p]]
    BY <1>10 DEF RunError, Labels, Critical
  <2>4. pc' \in [Procs -> Labels] /\ on' \in [Procs -> Runs \cup {None}] /\ OnRuns'
    BY <2>0, <2>1, <2>2, <2>3, MoveTypes
  <2>5. QED
    BY <2>4, <1>10 DEF RunError
<1>f. ASSUME NEW p \in Executors, RunFail(p) PROVE TypeInv'
  BY <1>f DEF Labels, Critical, Busy, RunFail, AfterFailed, SetStatus, Statuses
<1>s. ASSUME NEW p \in Executors, RunStoreFails(p) PROVE TypeInv'
  <2>0. p \in Procs
    BY DEF Executors, Procs
  <2>1. on[p] \in Runs
    BY <2>0, <1>0, <1>s DEF RunStoreFails, Busy, Critical
  <2>2. pc' \in [Procs -> Labels] /\ on' \in [Procs -> Runs \cup {None}] /\ OnRuns'
    <3>1. CASE Return(p)
      BY <2>0, <3>1, LeaveTypes DEF Return
    <3>2. CASE pc' = [pc EXCEPT ![p] = "release"] /\ UNCHANGED on
      <4>1. "release" \in Labels /\ on' = [on EXCEPT ![p] = on[p]]
        BY <3>2 DEF Labels, Critical
      <4>2. QED
        BY <2>0, <2>1, <3>2, <4>1, MoveTypes
    <3>3. QED
      BY <3>1, <3>2, <1>s DEF RunStoreFails
  <2>3. lost' \subseteq Runs /\ faults' \in Nat
    BY <2>1, <1>s DEF RunStoreFails, Fault
  <2>4. QED
    BY <2>2, <2>3, <1>s DEF RunStoreFails
<1>11. ASSUME NEW p \in Executors, RunRelease(p) PROVE TypeInv'
  <2>0. p \in Procs
    BY DEF Executors, Procs

  <2>1. pc' \in [Procs -> Labels] /\ on' \in [Procs -> Runs \cup {None}] /\ OnRuns'
    BY <2>0, <1>11, LeaveTypes DEF RunRelease, Return
  <2>2. lock' \in [Runs -> BOOLEAN] /\ faults' \in Nat
    BY <1>11, ReleaseTypes DEF RunRelease
  <2>3. QED
    BY <2>1, <2>2, <1>11 DEF RunRelease
<1>12. ASSUME NEW p \in Procs, Notify(p) PROVE TypeInv'
  BY <1>12 DEF Labels, Critical, Busy, Notify, Detach
<1>13. ASSUME NEW p \in Procs, NotifyClose(p) PROVE TypeInv'
  BY <1>13 DEF Labels, Critical, Busy, NotifyClose, Close
<1>14. ASSUME NEW h \in Handles, TimerSelect(h), UNCHANGED <<pc, on, clientVars, storeVars>> PROVE TypeInv'
  <2>1. th' \in [Handles -> Goroutines] /\ HandleRuns'
    <3>1. \/ th' = [th EXCEPT ![h].phase = "dispatch"] /\ th[h].phase # "free"
          \/ th' = [th EXCEPT ![h].phase = "cleanup"] /\ th[h].phase # "free"
      BY <1>14 DEF TimerSelect
    <3>2. QED
      BY <3>1, PhaseTypes DEF Phases
  <2>2. QED
    BY <2>1, <1>14 DEF TimerSelect
<1>15. ASSUME NEW h \in Handles, TimerDispatch(h), UNCHANGED <<pc, on, clientVars, storeVars>> PROVE TypeInv'
  <2>1. \E f \in [Handles -> Goroutines] :
          /\ Enqueue(th[h].run, f) /\ th[h].run \in Runs
          /\ \A x \in Handles : f[x].phase # "free" => f[x].run \in Runs
    <3>1. CASE th[h].phase = "dispatch" /\ Enqueue(th[h].run, [th EXCEPT ![h].phase = "cleanup"])
      <4>1. th[h].run \in Runs /\ [th EXCEPT ![h].phase = "cleanup"] \in [Handles -> Goroutines]
        BY <3>1 DEF Goroutines, Phases
      <4>2. QED
        BY <3>1, <4>1 DEF Goroutines
    <3>2. CASE th[h].phase = "redispatch" /\ Enqueue(th[h].run, [th EXCEPT ![h] = FreeHandle])
      <4>1. th[h].run \in Runs /\ [th EXCEPT ![h] = FreeHandle] \in [Handles -> Goroutines]
        BY <3>2 DEF Goroutines, Phases, FreeHandle
      <4>2. QED
        BY <3>2, <4>1 DEF FreeHandle
    <3>3. QED
      BY <3>1, <3>2, <1>15 DEF TimerDispatch
  <2>2. PICK f \in [Handles -> Goroutines] :
          /\ Enqueue(th[h].run, f) /\ th[h].run \in Runs
          /\ \A x \in Handles : f[x].phase # "free" => f[x].run \in Runs
    BY <2>1
  <2>3. ctxDone' = ctxDone
    BY <1>15 DEF TimerDispatch
  <2>4. QED
    BY <2>2, <2>3, <1>15, EnqueueTypes
<1>16. ASSUME NEW h \in Handles, TimerCleanup(h), UNCHANGED <<pc, on, clientVars, storeVars>> PROVE TypeInv'
  BY <1>16 DEF TimerCleanup, ClearTimerIf, FreeHandle, Goroutines, Phases
<1>17. ASSUME NEW r \in Runs, StartCreate(r) PROVE TypeInv'
  BY <1>17 DEF StartCreate, SetStatus, Statuses
<1>18. ASSUME NEW r \in Runs, StartRecover(r) PROVE TypeInv'
  BY <1>18 DEF StartRecover, Live
<1>19. ASSUME NEW r \in Runs, StartScan(r) PROVE TypeInv'
  <2>1. CASE \E x \in startScan : Enqueue(x, th) /\ startScan' = startScan \ {x} /\ UNCHANGED starting
    <3>1. PICK x \in startScan : Enqueue(x, th) /\ startScan' = startScan \ {x} /\ UNCHANGED starting
      BY <2>1
    <3>2. QED
      BY <3>1, <1>19, EnqueueTypes DEF StartScan
  <2>2. CASE /\ starting' = [starting EXCEPT ![r] = "dispatch"]
             /\ UNCHANGED <<queue, stopped, timers, th, lost, startScan>>
    BY <2>2, <1>19 DEF StartScan
  <2>3. QED
    BY <2>1, <2>2, <1>19 DEF StartScan
<1>20. ASSUME NEW r \in Runs, StartDispatch(r) PROVE TypeInv'
  <2>1. Enqueue(r, th)
    BY <1>20 DEF StartDispatch
  <2>2. QED
    BY <2>1, <1>20, EnqueueTypes DEF StartDispatch
<1>21. ASSUME NEW r \in Runs, RecoverDispatch(r) PROVE TypeInv'
  <2>1. Enqueue(r, th)
    BY <1>21 DEF RecoverDispatch
  <2>2. QED
    BY <2>1, <1>21, EnqueueTypes DEF RecoverDispatch
<1>22. ASSUME NEW r \in Runs, Elapse(r) PROVE TypeInv'
  <2>1. th' \in [Handles -> Goroutines] /\ HandleRuns'
    BY <1>22, FireTypes DEF Elapse
  <2>2. deadline' \in [Runs -> {None, "future", "due"}]
    BY <1>22 DEF Elapse
  <2>3. QED
    BY <2>1, <2>2, <1>22 DEF Elapse
<1>23. ASSUME NEW r \in Runs, LeaseExpires(r) PROVE TypeInv'
  BY <1>23 DEF LeaseExpires
<1>24. ASSUME NEW p \in Procs, SignalCheck(p) PROVE TypeInv'
  <2>1. CASE Finish(p, "ignored")
    <3>1. pc' \in [Procs -> Labels] /\ on' \in [Procs -> Runs \cup {None}] /\ OnRuns'
      BY <2>1, LeaveTypes DEF Finish
    <3>2. QED
      BY <2>1, <3>1, <1>24 DEF SignalCheck, Finish
  <2>2. CASE \E r \in Runs : pc' = [pc EXCEPT ![p] = "push"] /\ on' = [on EXCEPT ![p] = r]
                             /\ UNCHANGED seen
    <3>1. pc' \in [Procs -> Labels] /\ on' \in [Procs -> Runs \cup {None}] /\ OnRuns'
      BY <2>2, MoveTypes DEF Labels
    <3>2. QED
      BY <2>2, <3>1, <1>24 DEF SignalCheck
  <2>3. QED
    BY <2>1, <2>2, <1>24 DEF SignalCheck
<1>25. ASSUME NEW p \in Procs, SignalPush(p) PROVE TypeInv'
  BY <1>25 DEF Labels, Critical, Busy, SignalPush
<1>26. ASSUME NEW p \in Procs, ClientDispatch(p) PROVE TypeInv'
  <2>1. on[p] \in Runs /\ Enqueue(on[p], th)
    BY <1>0, <1>26 DEF ClientDispatch, Busy
  <2>2. pc' \in [Procs -> Labels] /\ on' \in [Procs -> Runs \cup {None}] /\ OnRuns'
    BY <1>26, LeaveTypes DEF ClientDispatch, Finish
  <2>3. seen' \in [Procs -> Statuses \cup {None, "ok", "busy", "ignored", "error"}]
    BY <1>26 DEF ClientDispatch, Finish
  <2>4. QED
    BY <2>1, <2>2, <2>3, <1>26, EnqueueTypes DEF ClientDispatch
<1>27. ASSUME NEW p \in Procs, ClientAcquire(p) PROVE TypeInv'
  <2>1. CASE \E r \in Runs : /\ Acquire(r) /\ UNCHANGED seen
                             /\ pc' = [pc EXCEPT ![p] = IF p \in Cancellers THEN "cancel_check"
                                                        ELSE "retry_check"]
                             /\ on' = [on EXCEPT ![p] = r]
    <3>1. pc' \in [Procs -> Labels] /\ on' \in [Procs -> Runs \cup {None}] /\ OnRuns'
      BY <2>1, MoveTypes DEF Labels, Critical
    <3>2. lock' \in [Runs -> BOOLEAN]
      BY <2>1 DEF Acquire
    <3>3. QED
      BY <2>1, <3>1, <3>2, <1>27 DEF ClientAcquire
  <2>2. CASE Finish(p, "busy") /\ UNCHANGED lock
    <3>1. pc' \in [Procs -> Labels] /\ on' \in [Procs -> Runs \cup {None}] /\ OnRuns'
      BY <2>2, LeaveTypes DEF Finish
    <3>2. QED
      BY <2>2, <3>1, <1>27 DEF ClientAcquire, Finish
  <2>3. QED
    BY <2>1, <2>2, <1>27 DEF ClientAcquire
<1>28. ASSUME NEW p \in Procs, CancelCheck(p) PROVE TypeInv'
  BY <1>28 DEF Labels, Critical, Busy, CancelCheck
<1>29. ASSUME NEW p \in Procs, CancelStatus(p) PROVE TypeInv'
  BY <1>29 DEF Labels, Critical, Busy, CancelStatus, SetStatus, Statuses
<1>30. ASSUME NEW p \in Procs, CancelAudit(p) PROVE TypeInv'
  <2>1. audit' \in [Runs -> Nat] /\ faults' \in Nat
    BY <1>30 DEF CancelAudit, Fault
  <2>2. pc' \in [Procs -> Labels] /\ OnRuns'
    BY <1>30 DEF CancelAudit, Labels, Critical, Busy
  <2>3. QED
    BY <2>1, <2>2, <1>30 DEF CancelAudit
<1>31. ASSUME NEW p \in Procs, CancelClear(p) PROVE TypeInv'
  <2>1. on[p] \in Runs
    BY <1>0, <1>31 DEF CancelClear, Busy, Critical
  <2>2. timers' \in [Runs -> Handles \cup {None}] /\ th' = CancelIn(th, timers[on[p]])
    BY <1>31 DEF CancelClear, ClearTimer, Unregistered
  <2>3. th' \in [Handles -> Goroutines] /\ HandleRuns'
    BY <2>1, <2>2, CancelTypes
  <2>4. QED
    BY <2>1, <2>2, <2>3, <1>31 DEF CancelClear, Labels, Critical, Busy
<1>32. ASSUME NEW p \in Procs, RetryCheck(p) PROVE TypeInv'
  BY <1>32 DEF Labels, Critical, Busy, RetryCheck
<1>33. ASSUME NEW p \in Procs, RetryReset(p) PROVE TypeInv'
  BY <1>33 DEF Labels, Critical, Busy, RetryReset, SetStatus, Statuses
<1>34. ASSUME NEW p \in Procs, RetryRelease(p) PROVE TypeInv'
  <2>1. on[p] \in Runs
    BY <1>0, <1>34 DEF RetryRelease, Busy, Critical
  <2>2. lock' \in [Runs -> BOOLEAN] /\ faults' \in Nat
    BY <1>34, ReleaseTypes DEF RetryRelease
  <2>3. QED
    BY <2>1, <2>2, <1>34 DEF RetryRelease, Labels, Busy
<1>35. ASSUME NEW p \in Procs, ClientRelease(p) PROVE TypeInv'
  <2>1. pc' \in [Procs -> Labels] /\ on' \in [Procs -> Runs \cup {None}] /\ OnRuns'
    BY <1>35, LeaveTypes DEF ClientRelease, Finish
  <2>2. lock' \in [Runs -> BOOLEAN] /\ faults' \in Nat
    BY <1>35, ReleaseTypes DEF ClientRelease
  <2>3. seen' \in [Procs -> Statuses \cup {None, "ok", "busy", "ignored", "error"}]
    BY <1>35 DEF ClientRelease, Finish
  <2>4. QED
    BY <2>1, <2>2, <2>3, <1>35 DEF ClientRelease
<1>36. ASSUME NEW p \in Procs, WaitAdd(p) PROVE TypeInv'
  BY <1>36 DEF Labels, Critical, Busy, WaitAdd, Add
<1>37. ASSUME NEW p \in Procs, WaitQuery(p) PROVE TypeInv'
  BY <1>37 DEF Labels, Critical, Busy, WaitQuery, Statuses
<1>38. ASSUME NEW p \in Procs, WaitSelect(p) PROVE TypeInv'
  BY <1>38 DEF Labels, Critical, Busy, WaitSelect
<1>39. ASSUME NEW p \in Procs, WaitGiveUp(p) PROVE TypeInv'
  BY <1>39 DEF Labels, Critical, Busy, WaitGiveUp
<1>40. ASSUME NEW p \in Procs, WaitRequery(p) PROVE TypeInv'
  BY <1>40 DEF Labels, Critical, Busy, WaitRequery
<1>41. ASSUME NEW p \in Procs, WaitRemove(p) PROVE TypeInv'
  BY <1>41 DEF Labels, Critical, Busy, WaitRemove, Remove
<1>42. ASSUME NEW p \in Procs, StopCancel(p) PROVE TypeInv'
  BY <1>42 DEF Labels, Critical, Busy, StopCancel
<1>43. ASSUME NEW p \in Procs, StopClose(p) PROVE TypeInv'
  <2>1. CASE Finish(p, "ok") /\ UNCHANGED stopped
    <3>1. pc' \in [Procs -> Labels] /\ on' \in [Procs -> Runs \cup {None}] /\ OnRuns'
      BY <2>1, LeaveTypes DEF Finish
    <3>2. QED
      BY <2>1, <3>1, <1>43 DEF StopClose, Finish
  <2>2. CASE CloseQueue /\ pc' = [pc EXCEPT ![p] = "stop_wait"] /\ UNCHANGED <<on, seen>>
    <3>1. stopped' \in BOOLEAN
      BY <2>2, Zenon DEF CloseQueue
    <3>2. QED
      BY <2>2, <3>1, <1>43 DEF StopClose, Labels, Busy, Critical
  <2>3. QED
    BY <2>1, <2>2, <1>43 DEF StopClose
<1>44. ASSUME NEW p \in Procs, StopWait(p) PROVE TypeInv'
  BY <1>44 DEF Labels, Critical, Busy, StopWait
<1>45. ASSUME NEW p \in Procs, StopTimeout(p) PROVE TypeInv'
  BY <1>45 DEF Labels, Critical, Busy, StopTimeout
<1>46. ASSUME NEW p \in Procs, StopTimers(p) PROVE TypeInv'
  <2>1. pc' \in [Procs -> Labels] /\ on' \in [Procs -> Runs \cup {None}] /\ OnRuns'
    BY <1>46, LeaveTypes DEF StopTimers, Finish
  <2>2. seen' \in [Procs -> Statuses \cup {None, "ok", "busy", "ignored", "error"}]
    BY <1>46 DEF StopTimers, Finish
  <2>3. timers' \in [Runs -> Handles \cup {None}]
    BY <1>46 DEF StopTimers, CancelAllTimers
  <2>4. th' \in [Handles -> Goroutines] /\ HandleRuns'
    <3>1. th' = [h \in Handles |-> IF \E r \in Runs : timers[r] = h
                                   THEN CancelIn(th, h)[h] ELSE th[h]]
      BY <1>46 DEF StopTimers, CancelAllTimers
    <3>2. \A h \in Handles : CancelIn(th, h)[h] \in Goroutines /\ CancelIn(th, h)[h].run = th[h].run
                             /\ (th[h].phase = "free" => CancelIn(th, h)[h].phase = "free")
      <4>1. th \in [Handles -> Goroutines]
        OBVIOUS
      <4>2. QED
        BY ONLY <4>1, CancelInEffect
    <3>3. QED
      BY <3>1, <3>2
  <2>5. QED
    BY <2>1, <2>2, <2>3, <2>4, <1>46 DEF StopTimers
<1>47. ASSUME RecoverScan PROVE TypeInv'
  BY <1>47 DEF RecoverScan, Live
<1>48. ASSUME Crash PROVE TypeInv'
  <2>1. queue' \in Seq(Runs) /\ Len(queue') <= QueueSize
    <3>1. ASSUME NEW S PROVE << >> \in Seq(S)
      OBVIOUS
    <3>2. Len(<< >>) = 0 /\ queue' = << >>
      BY <1>48 DEF Crash
    <3>3. QED
      BY <3>1, <3>2, SchedulerAssumption
  <2>2. stopped' \in BOOLEAN /\ ctxDone' \in BOOLEAN /\ recovered' \in BOOLEAN
    BY <1>48, Zenon DEF Crash
  <2>3. th' \in [Handles -> Goroutines] /\ HandleRuns' /\ timers' \in [Runs -> Handles \cup {None}]
    BY <1>48 DEF Crash, Goroutines, Phases, FreeHandle
  <2>4. pc' \in [Procs -> Labels] /\ on' \in [Procs -> Runs \cup {None}] /\ OnRuns'
    BY <1>48 DEF Crash, Labels, Busy, Critical
  <2>5. seen' \in [Procs -> Statuses \cup {None, "ok", "busy", "ignored", "error"}]
    BY <1>48 DEF Crash
  <2>6. byID' \in [Runs -> SUBSET Waiters] /\ closed' \subseteq Waiters
        /\ closing' \in [Procs -> SUBSET Waiters]
    BY <1>48 DEF Crash
  <2>7. starting' \in [Runs -> {"no", "created", "scan", "dispatch", "done"}]
        /\ startScan' \subseteq Runs /\ scan' \subseteq Runs /\ lost' \subseteq Runs
        /\ crashes' \in Nat
    BY <1>48 DEF Crash
  <2>8. QED
    BY <2>1, <2>2, <2>3, <2>4, <2>5, <2>6, <2>7, <1>48 DEF Crash
<1>49. CASE UNCHANGED vars
  BY <1>49 DEF vars
<1>50. QED
  BY <1>1, <1>2, <1>3, <1>4, <1>5, <1>6, <1>7, <1>8, <1>9, <1>10, <1>f, <1>s, <1>11, <1>12, <1>13, <1>14, <1>15, <1>16, <1>17, <1>18, <1>19, <1>20, <1>21, <1>22, <1>23, <1>24, <1>25, <1>26, <1>27, <1>28, <1>29, <1>30, <1>31, <1>32, <1>33, <1>34, <1>35, <1>36, <1>37, <1>38, <1>39, <1>40, <1>41, <1>42, <1>43, <1>44, <1>45, <1>46, <1>47, <1>48, <1>49
  DEF Next, Run, Call, WaitDone, Stop, Start, Goroutine, Executors, Clients, Procs

\* Every variable of Engine has its type in every reachable state, and the task
\* queue never exceeds its capacity.
THEOREM EngineTypes == Spec => []TypeOK
<1>1. TypeInv => TypeOK
  BY DEF TypeInv
<1>2. QED
  BY <1>1, TypeInit, TypeStep, PTL DEF Spec

-----------------------------------------------------------------------------
(* What a step may do to the locks: nothing; a process moves on without    *)
(* touching its lock, takes a free one, or gives its own back; a lease that*)
(* nobody holds expires; the process of the engine crashes.                *)

Others(p) == \A q \in Procs \ {p} : pc'[q] = pc[q] /\ on'[q] = on[q]

Quiet == UNCHANGED <<pc, on, lock>>

Moves(p) ==
  /\ Others(p) /\ UNCHANGED lock
  /\ pc'[p] \in Critical => pc[p] \in Critical /\ on'[p] = on[p]

Takes(p) ==
  /\ Others(p) /\ pc[p] \notin Critical /\ pc'[p] \in Critical /\ on'[p] \in Runs
  /\ ~lock[on'[p]] /\ lock' = [lock EXCEPT ![on'[p]] = TRUE]

GivesBack(p) ==
  /\ Others(p) /\ pc[p] \in Critical /\ pc'[p] \notin Critical /\ on[p] \in Runs
  /\ lock' = [lock EXCEPT ![on[p]] = FALSE]

\* Release, of the lock p holds, and p moves to a label outside the critical
\* section.
LEMMA ReleaseKind ==
  ASSUME TypeInv, NEW p \in Procs, pc[p] \in Critical, Release(on[p]), Others(p),
         pc'[p] \notin Critical
  PROVE  Moves(p) \/ GivesBack(p)
<1>1. on[p] \in Runs
  BY DEF TypeInv, OnRuns, Busy
<1>2. QED
  BY <1>1 DEF Release, Moves, GivesBack

\* Every step of the engine is of one of these kinds.
LEMMA StepKind ==
  ASSUME TypeInv, [Next]_vars
  PROVE  \/ Quiet
         \/ \E p \in Procs : Moves(p) \/ Takes(p) \/ GivesBack(p)
         \/ \E r \in Runs : LeaseExpires(r)
         \/ Crash
<1> USE DEF storeVars, schedVars, registryVars, startVars, boundVars, planVars, queueVars,
            scanVars, clientVars, Goto
<1>0. pc \in [Procs -> Labels] /\ on \in [Procs -> Runs \cup {None}] /\ OnRuns
  BY DEF TypeInv, TypeOK
<1>1. ASSUME NEW p \in Procs, WorkerTake(p) PROVE Moves(p)
  BY <1>0, <1>1 DEF WorkerTake, Moves, Others, Critical
<1>2. ASSUME NEW p \in Procs, RunOnce(p) PROVE Moves(p)
  BY <1>0, <1>2 DEF RunOnce, Moves, Others, Critical
<1>3. ASSUME NEW p \in Procs, RunAcquire(p) PROVE Moves(p) \/ Takes(p)
  <2>1. on[p] \in Runs /\ pc[p] = "acquire"
    BY <1>0, <1>3 DEF RunAcquire, OnRuns, Busy
  <2>2. CASE Acquire(on[p]) /\ pc' = [pc EXCEPT ![p] = "gate"] /\ UNCHANGED on
    BY <1>0, <2>1, <2>2 DEF Acquire, Acquirable, Takes, Others, Critical
  <2>3. CASE Return(p) /\ UNCHANGED lock
    BY <1>0, <2>1, <2>3 DEF Return, Moves, Others, Critical
  <2>4. QED
    BY <2>2, <2>3, <1>3 DEF RunAcquire
<1>4. ASSUME NEW p \in Procs,
             RunGate(p) \/ RunMark(p) \/ RunSuspend(p) \/ RunWakeup(p) \/ RunSucceed(p)
               \/ Notify(p) \/ NotifyClose(p)
      PROVE  Moves(p)
  BY <1>0, <1>4
  DEF RunGate, RunMark, RunSuspend, RunWakeup, RunSucceed, Notify, NotifyClose, AfterWakeup,
      Moves, Others, Critical
<1>5. ASSUME NEW p \in Procs, RunBody(p) PROVE Moves(p)
  <2>1. pc' = pc \/ \E l \in {"succeed", "error", "suspend"} : pc' = [pc EXCEPT ![p] = l]
    BY <1>5 DEF RunBody
  <2>2. pc[p] = "body" /\ UNCHANGED <<on, lock>>
    BY <1>5 DEF RunBody
  <2>3. QED
    BY <1>0, <2>1, <2>2 DEF Moves, Others, Critical
<1>6. ASSUME NEW p \in Procs, RunError(p) \/ RunFail(p) \/ RunStoreFails(p) PROVE Moves(p)
  BY <1>0, <1>6 DEF RunError, RunFail, AfterFailed, RunStoreFails, Return, Moves, Others, Critical
<1>7. ASSUME NEW p \in Procs, RunRelease(p) PROVE Moves(p) \/ GivesBack(p)
  <2>1. pc[p] \in Critical /\ pc'[p] \notin Critical /\ Others(p)
    BY <1>0, <1>7 DEF RunRelease, Return, Others, Critical
  <2>2. QED
    BY <1>7, <2>1, ReleaseKind DEF RunRelease
<1>8. ASSUME NEW p \in Procs, RetryRelease(p) \/ ClientRelease(p) PROVE Moves(p) \/ GivesBack(p)
  <2>1. pc[p] \in Critical /\ pc'[p] \notin Critical /\ Others(p)
    BY <1>0, <1>8 DEF RetryRelease, ClientRelease, Finish, Others, Critical
  <2>2. QED
    BY <1>8, <2>1, ReleaseKind DEF RetryRelease, ClientRelease
<1>9. ASSUME NEW p \in Procs, SignalCheck(p) \/ SignalPush(p) \/ ClientDispatch(p) PROVE Moves(p)
  BY <1>0, <1>9 DEF SignalCheck, SignalPush, ClientDispatch, Finish, Moves, Others, Critical
<1>10. ASSUME NEW p \in Procs, ClientAcquire(p) PROVE Moves(p) \/ Takes(p)
  <2>1. pc[p] = "start"
    BY <1>10 DEF ClientAcquire
  <2>2. CASE \E r \in Runs : /\ Acquire(r)
                             /\ pc' = [pc EXCEPT ![p] = IF p \in Cancellers THEN "cancel_check"
                                                        ELSE "retry_check"]
                             /\ on' = [on EXCEPT ![p] = r]
    BY <1>0, <2>1, <2>2 DEF Acquire, Acquirable, Takes, Others, Critical
  <2>3. CASE Finish(p, "busy") /\ UNCHANGED lock
    BY <1>0, <2>1, <2>3 DEF Finish, Moves, Others, Critical
  <2>4. QED
    BY <2>2, <2>3, <1>10 DEF ClientAcquire
<1>11. ASSUME NEW p \in Procs,
              CancelCheck(p) \/ CancelStatus(p) \/ CancelAudit(p) \/ CancelClear(p)
                \/ RetryCheck(p) \/ RetryReset(p)
       PROVE  Moves(p)
  BY <1>0, <1>11
  DEF CancelCheck, CancelStatus, CancelAudit, CancelClear, RetryCheck, RetryReset,
      Moves, Others, Critical
<1>12. ASSUME NEW p \in Procs, WaitDone(p) \/ WaitGiveUp(p) PROVE Moves(p)
  BY <1>0, <1>12
  DEF WaitDone, WaitAdd, WaitQuery, WaitSelect, WaitGiveUp, WaitRequery, WaitRemove,
      Moves, Others, Critical
<1>13. ASSUME NEW p \in Procs, Stop(p) \/ StopTimeout(p) PROVE Moves(p)
  BY <1>0, <1>13
  DEF Stop, StopCancel, StopClose, StopWait, StopTimeout, StopTimers, Finish,
      Moves, Others, Critical
<1>14. ASSUME NEW r \in Runs, Start(r) \/ RecoverDispatch(r) \/ Elapse(r) PROVE Quiet
  BY <1>14
  DEF Start, StartCreate, StartRecover, StartScan, StartDispatch, RecoverDispatch, Elapse, Quiet
<1>15. CASE RecoverScan \/ UNCHANGED vars \/ UNCHANGED <<pc, on, clientVars, storeVars>>
  BY <1>15 DEF RecoverScan, vars, Quiet
<1>16. QED
  BY <1>1, <1>2, <1>3, <1>4, <1>5, <1>6, <1>7, <1>8, <1>9, <1>10, <1>11, <1>12, <1>13, <1>14,
     <1>15
  DEF Next, Run, Call, Executors, Clients, Procs

-----------------------------------------------------------------------------
(* Mutual exclusion. *)

\* Whoever works on a run holds its lease: the reason why the lease keeps the
\* next one out.
Locked == \A r \in Runs : \A p \in Procs : Holds(p, r) => lock[r]

LockInv == Locked /\ MutualExclusion

\* Nobody holds anything before anything happens.
LEMMA LockInit == Init => LockInv
<1> SUFFICES ASSUME Init PROVE \A p \in Procs : pc[p] \notin Critical
  BY DEF LockInv, Locked, MutualExclusion, Holds
<1>1. pc = [p \in Procs |-> IF p \in Workers THEN "idle" ELSE "start"]
  BY Zenon DEF Init
<1>2. QED
  BY <1>1 DEF Critical

\* Exclusion is kept by every step: Acquire needs a free lock, and a holder keeps its own
\* until it releases it or dies.
LEMMA LockStep == TypeInv /\ LockInv /\ [Next]_vars => LockInv'
<1> SUFFICES ASSUME TypeInv, LockInv, [Next]_vars PROVE LockInv'
  OBVIOUS
<1> USE DEF LockInv, Locked, MutualExclusion, Holds
<1>0. lock \in [Runs -> BOOLEAN]
  BY DEF TypeInv, TypeOK
<1>1. CASE Quiet
  BY <1>1 DEF Quiet
<1>2. ASSUME NEW p \in Procs, Moves(p) PROVE LockInv'
  BY <1>2 DEF Moves, Others
<1>3. ASSUME NEW p \in Procs, Takes(p) PROVE LockInv'
  \* Nobody else works on the run: the lease was free.
  <2>1. \A q \in Procs \ {p} : ~(pc'[q] \in Critical /\ on'[q] = on'[p])
    BY <1>3 DEF Takes, Others
  <2>2. QED
    BY <1>0, <1>3, <2>1 DEF Takes, Others
<1>4. ASSUME NEW p \in Procs, GivesBack(p) PROVE LockInv'
  \* Nobody else works on the run: p did.
  <2>1. \A q \in Procs \ {p} : ~Holds(q, on[p])
    BY <1>4 DEF GivesBack
  <2>2. QED
    BY <1>0, <1>4, <2>1 DEF GivesBack, Others
<1>5. ASSUME NEW r \in Runs, LeaseExpires(r) PROVE LockInv'
  BY <1>0, <1>5 DEF LeaseExpires
<1>6. CASE Crash
  BY <1>6 DEF Crash, Critical
<1>7. QED
  BY <1>1, <1>2, <1>3, <1>4, <1>5, <1>6, StepKind

\* At most one worker, RunOnce, Cancel or Retry is between Acquire and Release of
\* a run, through crashes, expired leases and failed Release calls.
THEOREM EngineExclusion == Spec => []MutualExclusion
<1>1. LockInv => MutualExclusion
  BY DEF LockInv
<1>2. QED
  BY <1>1, TypeInit, TypeStep, LockInit, LockStep, PTL DEF Spec

-----------------------------------------------------------------------------
(* Who can be where. *)

RunLabels == {"acquire", "gate", "mark", "body", "suspend", "wakeup", "succeed", "error",
              "fail", "notify", "close", "release"}

\* The labels of p, by its kind.
InKind(p) ==
  /\ p \in Workers => pc[p] \in RunLabels \cup {"idle", "exited"}
  /\ p \in Manuals => pc[p] \in RunLabels \cup {"start", "done"}
  /\ p \in Cancellers => pc[p] \in {"start", "cancel_check", "cancel_status", "cancel_audit",
                                    "cancel_clear", "notify", "close", "release", "done"}
  /\ p \in Retriers => pc[p] \in {"start", "retry_check", "retry_reset", "retry_release",
                                  "release", "dispatch", "done"}
  /\ p \in Signallers => pc[p] \in {"start", "push", "dispatch", "done"}
  /\ p \in Stoppers => pc[p] \in {"start", "stop_close", "stop_wait", "stop_timers", "done"}
  /\ p \in Waiters => pc[p] \in {"start", "query", "select", "requery", "remove", "done"}

KindInv == \A p \in Procs : InKind(p)

\* Every process starts at a label of its kind.
LEMMA KindInit == Init => KindInv
<1> SUFFICES ASSUME Init, NEW p \in Procs PROVE InKind(p)
  BY DEF KindInv
<1>1. pc[p] = IF p \in Workers THEN "idle" ELSE "start"
  BY DEF Init
<1>2. QED
  BY <1>1, KindsDisjoint DEF InKind, Clients

\* A call never leaves the labels of its kind.
LEMMA KindStep == TypeInv /\ KindInv /\ [Next]_vars => KindInv'
<1> SUFFICES ASSUME TypeInv, KindInv, [Next]_vars PROVE KindInv'
  OBVIOUS
<1> USE DEF Goto
<1>0. pc \in [Procs -> Labels] /\ on \in [Procs -> Runs \cup {None}] /\ \A p \in Procs : InKind(p)
  BY DEF TypeInv, TypeOK, KindInv
<1>1. ASSUME NEW p \in Procs, Others(p), InKind(p)' PROVE KindInv'
  BY <1>0, <1>1 DEF KindInv, InKind, Others
<1>2. ASSUME UNCHANGED pc PROVE KindInv'
  BY <1>0, <1>2 DEF KindInv, InKind
<1>3. ASSUME NEW p \in Executors,
             WorkerTake(p) \/ RunOnce(p) \/ RunAcquire(p) \/ RunStoreFails(p) \/ RunRelease(p)
      PROVE  KindInv'
  <2>1. p \in Procs /\ Others(p)
    BY <1>0, <1>3
    DEF WorkerTake, RunOnce, RunAcquire, RunStoreFails, RunRelease, Return, Others, Executors, Procs
  <2>2. InKind(p)'
    BY <1>0, <1>3, <2>1, KindsDisjoint
    DEF WorkerTake, RunOnce, RunAcquire, RunStoreFails, RunRelease, Return, InKind, RunLabels,
        Executors, Clients
  <2>3. QED
    BY <1>1, <2>1, <2>2
<1>4. ASSUME NEW p \in Executors,
             \/ RunGate(p) \/ RunMark(p) \/ RunSuspend(p) \/ RunWakeup(p) \/ RunSucceed(p)
             \/ RunError(p) \/ RunFail(p)
      PROVE  KindInv'
  <2>1. p \in Procs /\ Others(p)
    BY <1>0, <1>4
    DEF RunGate, RunMark, RunSuspend, RunWakeup, RunSucceed, RunError, RunFail, clientVars, Others,
        Executors, Procs
  <2>2. InKind(p)'
    BY <1>0, <1>4, <2>1
    DEF RunGate, RunMark, RunSuspend, RunWakeup, RunSucceed, RunError, RunFail, AfterWakeup,
        AfterFailed, InKind, RunLabels
  <2>3. QED
    BY <1>1, <2>1, <2>2
<1>5. ASSUME NEW p \in Executors, RunBody(p) PROVE KindInv'
  <2>1. pc' = pc \/ \E l \in {"succeed", "error", "suspend"} : pc' = [pc EXCEPT ![p] = l]
    BY <1>5 DEF RunBody
  <2>2. p \in Procs /\ pc[p] = "body" /\ on' = on
    BY <1>5 DEF RunBody, Executors, Procs
  <2>3. Others(p) /\ InKind(p)'
    BY <1>0, <2>1, <2>2 DEF Others, InKind, RunLabels
  <2>4. QED
    BY <1>1, <2>2, <2>3
<1>6. ASSUME NEW p \in Procs, Notify(p) \/ NotifyClose(p) PROVE KindInv'
  <2>1. Others(p) /\ InKind(p)'
    BY <1>0, <1>6 DEF Notify, NotifyClose, Others, InKind, RunLabels
  <2>2. QED
    BY <1>1, <2>1
<1>7. ASSUME NEW p \in Clients, SignalCheck(p) \/ SignalPush(p) \/ ClientDispatch(p) PROVE KindInv'
  <2>1. p \in Procs /\ Others(p)
    BY <1>0, <1>7 DEF SignalCheck, SignalPush, ClientDispatch, clientVars, Finish, Others, Procs
  <2>2. InKind(p)'
    BY <1>0, <1>7, <2>1, KindsDisjoint
    DEF SignalCheck, SignalPush, ClientDispatch, Finish, InKind, RunLabels, Clients
  <2>3. QED
    BY <1>1, <2>1, <2>2
<1>8. ASSUME NEW p \in Clients,
             \/ ClientAcquire(p) \/ RetryCheck(p) \/ RetryReset(p) \/ RetryRelease(p)
             \/ ClientRelease(p)
      PROVE  KindInv'
  <2>1. p \in Procs /\ Others(p)
    BY <1>0, <1>8
    DEF ClientAcquire, RetryCheck, RetryReset, RetryRelease, ClientRelease, clientVars, Finish, Others, Procs
  <2>2. InKind(p)'
    BY <1>0, <1>8, <2>1, KindsDisjoint
    DEF ClientAcquire, RetryCheck, RetryReset, RetryRelease, ClientRelease, Finish, InKind, RunLabels,
        Clients
  <2>3. QED
    BY <1>1, <2>1, <2>2
<1>9. ASSUME NEW p \in Clients, CancelCheck(p) \/ CancelStatus(p) \/ CancelAudit(p) \/ CancelClear(p)
      PROVE  KindInv'
  <2>1. p \in Procs /\ Others(p)
    BY <1>0, <1>9 DEF CancelCheck, CancelStatus, CancelAudit, CancelClear, clientVars, Others, Procs
  <2>2. InKind(p)'
    BY <1>0, <1>9, <2>1
    DEF CancelCheck, CancelStatus, CancelAudit, CancelClear, InKind, RunLabels
  <2>3. QED
    BY <1>1, <2>1, <2>2
<1>10. ASSUME NEW p \in Clients, WaitDone(p) \/ WaitGiveUp(p) PROVE KindInv'
  <2>1. p \in Procs /\ Others(p)
    BY <1>0, <1>10
    DEF WaitDone, WaitAdd, WaitQuery, WaitSelect, WaitGiveUp, WaitRequery, WaitRemove, Others, Procs
  <2>2. InKind(p)'
    BY <1>0, <1>10, <2>1, KindsDisjoint
    DEF WaitDone, WaitAdd, WaitQuery, WaitSelect, WaitGiveUp, WaitRequery, WaitRemove, InKind,
        RunLabels, Clients
  <2>3. QED
    BY <1>1, <2>1, <2>2
<1>11. ASSUME NEW p \in Clients, Stop(p) \/ StopTimeout(p) PROVE KindInv'
  <2>1. p \in Procs /\ Others(p)
    BY <1>0, <1>11
    DEF Stop, StopCancel, StopClose, StopWait, StopTimeout, StopTimers, clientVars, Finish, Others, Procs
  <2>2. InKind(p)'
    BY <1>0, <1>11, <2>1, KindsDisjoint
    DEF Stop, StopCancel, StopClose, StopWait, StopTimeout, StopTimers, Finish, InKind, RunLabels, Clients
  <2>3. QED
    BY <1>1, <2>1, <2>2
<1>12. ASSUME NEW r \in Runs, Start(r) \/ RecoverDispatch(r) \/ Elapse(r) \/ LeaseExpires(r)
       PROVE  UNCHANGED pc
  BY <1>12
  DEF Start, StartCreate, StartRecover, StartScan, StartDispatch, RecoverDispatch, Elapse, LeaseExpires
<1>13. CASE RecoverScan \/ UNCHANGED vars \/ UNCHANGED <<pc, on, clientVars, storeVars>>
  BY <1>2, <1>13 DEF RecoverScan, vars
<1>14. CASE Crash
  <2>1. ASSUME NEW p \in Procs PROVE InKind(p)'
    BY <1>14, KindsDisjoint DEF Crash, InKind, Clients
  <2>2. QED
    BY <2>1 DEF KindInv
<1>15. QED
  BY <1>2, <1>3, <1>4, <1>5, <1>6, <1>7, <1>8, <1>9, <1>10, <1>11, <1>12, <1>13, <1>14
  DEF Next, Run, Call, Executors, Clients, Procs

-----------------------------------------------------------------------------
(* Who acts.  A worker that has ended and a call that has returned do       *)
(* nothing any more, and nobody touches what another call has seen or has   *)
(* to close.                                                                *)

Acts(p) ==
  /\ Others(p) /\ pc[p] \notin {"exited", "done"}
  /\ \A q \in Procs \ {p} : seen'[q] = seen[q] /\ closing'[q] = closing[q]

NoStop(p) == p \notin Stoppers /\ UNCHANGED stopped
NoWaiter(p) == /\ p \notin Waiters /\ pc[p] \notin {"notify", "close"}
               /\ UNCHANGED <<byID, closed, closing>>

\* A step is one process's, and touches the locals of no other.
LEMMA Actor ==
  ASSUME TypeInv, KindInv, [Next]_vars, ~Crash
  PROVE  \/ UNCHANGED <<pc, on, seen, closing, stopped, registryVars>>
         \/ \E p \in Procs :
              /\ Acts(p)
              /\ Stop(p) \/ StopTimeout(p) \/ NoStop(p)
              /\ WaitDone(p) \/ WaitGiveUp(p) \/ Notify(p) \/ NotifyClose(p) \/ NoWaiter(p)
<1> USE DEF schedVars, clientVars, queueVars, registryVars, Goto
<1>0. /\ pc \in [Procs -> Labels] /\ on \in [Procs -> Runs \cup {None}] /\ \A p \in Procs : InKind(p)
      /\ seen \in [Procs -> Statuses \cup {None, "ok", "busy", "ignored", "error"}]
      /\ closing \in [Procs -> SUBSET Waiters]
  BY DEF TypeInv, TypeOK, KindInv
<1>e. ASSUME NEW r, NEW f, Enqueue(r, f) PROVE UNCHANGED stopped
  BY <1>e DEF Enqueue
<1>1. ASSUME NEW p \in Procs,
             \/ WorkerTake(p) \/ RunAcquire(p) \/ RunGate(p) \/ RunMark(p) \/ RunSuspend(p)
             \/ RunWakeup(p) \/ RunSucceed(p) \/ RunError(p) \/ RunFail(p) \/ RunStoreFails(p)
      PROVE  Acts(p) /\ NoStop(p) /\ NoWaiter(p)
  <2>1. UNCHANGED <<seen, closing, stopped, byID, closed>>
    BY <1>1
    DEF WorkerTake, RunAcquire, RunGate, RunMark, RunSuspend, RunWakeup, RunSucceed, RunError, RunFail,
        RunStoreFails
  <2>2. pc[p] \in (RunLabels \ {"notify", "close"}) \cup {"idle"} /\ p \notin Stoppers \cup Waiters
    BY <1>0, <1>1
    DEF WorkerTake, RunAcquire, RunGate, RunMark, RunSuspend, RunWakeup, RunSucceed, RunError, RunFail,
        RunStoreFails, RunLabels, InKind
  <2>3. Others(p)
    BY <1>0, <1>1
    DEF WorkerTake, RunAcquire, RunGate, RunMark, RunSuspend, RunWakeup, RunSucceed, RunError, RunFail,
        RunStoreFails, Return, Others
  <2>4. QED
    BY <2>1, <2>2, <2>3 DEF Acts, NoStop, NoWaiter, RunLabels
<1>2. ASSUME NEW p \in Procs, RunBody(p) PROVE Acts(p) /\ NoStop(p) /\ NoWaiter(p)
  <2>1. pc' = pc \/ \E l \in {"succeed", "error", "suspend"} : pc' = [pc EXCEPT ![p] = l]
    BY <1>2 DEF RunBody
  <2>2. pc[p] = "body" /\ UNCHANGED <<on, seen, closing, stopped, byID, closed>>
    BY <1>2 DEF RunBody
  <2>3. QED
    BY <1>0, <2>1, <2>2 DEF Acts, NoStop, NoWaiter, Others, InKind
<1>3. ASSUME NEW p \in Procs, RunOnce(p) \/ RunRelease(p) PROVE Acts(p) /\ NoStop(p) /\ NoWaiter(p)
  <2>1. UNCHANGED <<seen, closing, stopped, byID, closed>> /\ Others(p)
    BY <1>0, <1>3 DEF RunOnce, RunRelease, Return, Others
  <2>2. pc[p] \in {"start", "release"} /\ p \notin Stoppers \cup Waiters
    BY <1>0, <1>3, KindsDisjoint DEF RunOnce, RunRelease, InKind, Clients
  <2>3. QED
    BY <2>1, <2>2 DEF Acts, NoStop, NoWaiter
<1>n. ASSUME NEW p \in Procs, Notify(p) \/ NotifyClose(p) PROVE Acts(p) /\ NoStop(p)
  BY <1>0, <1>n DEF Notify, NotifyClose, Acts, NoStop, Others, InKind
<1>4. ASSUME NEW p \in Procs,
             \/ SignalCheck(p) \/ SignalPush(p) \/ ClientDispatch(p) \/ ClientAcquire(p)
             \/ RetryCheck(p) \/ RetryReset(p) \/ RetryRelease(p) \/ ClientRelease(p)
      PROVE  Acts(p) /\ NoStop(p) /\ NoWaiter(p)
  <2>1. UNCHANGED <<closing, stopped, byID, closed>> /\ Others(p)
    BY <1>0, <1>e, <1>4
    DEF SignalCheck, SignalPush, ClientDispatch, ClientAcquire, RetryCheck, RetryReset, RetryRelease,
        ClientRelease, Finish, Others
  <2>2. /\ pc[p] \in {"start", "push", "dispatch", "release", "retry_check", "retry_reset", "retry_release"}
        /\ p \notin Stoppers \cup Waiters
    BY <1>0, <1>4, KindsDisjoint
    DEF SignalCheck, SignalPush, ClientDispatch, ClientAcquire, RetryCheck, RetryReset, RetryRelease,
        ClientRelease, InKind
  <2>3. \A q \in Procs \ {p} : seen'[q] = seen[q]
    BY <1>0, <1>4
    DEF SignalCheck, SignalPush, ClientDispatch, ClientAcquire, RetryCheck, RetryReset, RetryRelease,
        ClientRelease, Finish
  <2>4. QED
    BY <2>1, <2>2, <2>3 DEF Acts, NoStop, NoWaiter
<1>5. ASSUME NEW p \in Procs, CancelCheck(p) \/ CancelStatus(p) \/ CancelAudit(p) \/ CancelClear(p)
      PROVE  Acts(p) /\ NoStop(p) /\ NoWaiter(p)
  BY <1>0, <1>5 DEF CancelCheck, CancelStatus, CancelAudit, CancelClear, Acts, NoStop, NoWaiter, Others, InKind
<1>6. ASSUME NEW p \in Procs, WaitDone(p) \/ WaitGiveUp(p) PROVE Acts(p) /\ NoStop(p)
  BY <1>0, <1>6, KindsDisjoint
  DEF WaitDone, WaitAdd, WaitQuery, WaitSelect, WaitGiveUp, WaitRequery, WaitRemove, Acts, NoStop,
      Others, InKind
<1>7. ASSUME NEW p \in Procs, Stop(p) \/ StopTimeout(p) PROVE Acts(p) /\ NoWaiter(p)
  BY <1>0, <1>7, KindsDisjoint
  DEF Stop, StopCancel, StopClose, StopWait, StopTimeout, StopTimers, Finish, Acts, NoWaiter, Others, InKind
<1>8. ASSUME NEW r \in Runs, Start(r) \/ RecoverDispatch(r) \/ Elapse(r) \/ LeaseExpires(r)
      PROVE  UNCHANGED <<pc, on, seen, closing, stopped, registryVars>>
  BY <1>e, <1>8
  DEF Start, StartCreate, StartRecover, StartScan, StartDispatch, RecoverDispatch, Elapse, LeaseExpires
<1>9. ASSUME NEW h \in Handles, Goroutine(h), UNCHANGED <<pc, on, clientVars, storeVars>>
      PROVE  UNCHANGED <<pc, on, seen, closing, stopped, registryVars>>
  BY <1>e, <1>9 DEF Goroutine, TimerSelect, TimerDispatch, TimerCleanup
<1>10. CASE RecoverScan \/ UNCHANGED vars
  BY <1>10 DEF RecoverScan, vars
<1>11. QED
  BY <1>1, <1>2, <1>3, <1>n, <1>4, <1>5, <1>6, <1>7, <1>8, <1>9, <1>10
  DEF Next, Run, Call, Executors, Clients, Procs
=============================================================================
