------------------------------- MODULE Engine -------------------------------
(***************************************************************************)
(* The engine (src/engine/engine.go, runner.go): workers that take runs    *)
(* from the scheduler's queue and execute them under a per-run lock, the   *)
(* API calls that work on the same runs (Start, Signal, Cancel, Retry,     *)
(* RunOnce, WaitDone, Stop), the Recover scan, and crashes of the process. *)
(*                                                                         *)
(* A process is a worker or one API call; pc[p] is the store, lock or      *)
(* scheduler call it makes next and on[p] the run it is about.  The        *)
(* workflow function is a sequence of primitives, Plan; how a primitive    *)
(* decides and replays is the subject of module WorkflowContext, here a    *)
(* decision is one step.                                                   *)
(***************************************************************************)
EXTENDS Scheduler, WaiterRegistry, FiniteSets

CONSTANTS
  Workers, Manuals, Cancellers, Retriers, Signallers, Stoppers,   \* processes
  Plan,            \* Plan[r]: the primitives of r's workflow: "exec", "sleep", "await"
  RecoverEnabled,  \* WithRecoverInterval(d) with d > 0
  ExecMayFail,     \* business functions may return errors
  MaxCrashes,      \* bound: process crashes
  MaxFaults        \* bound: failed store calls

\* Workers and RunOnce calls execute run(); the other processes are API calls.
Executors == Workers \cup Manuals
Clients == Cancellers \cup Retriers \cup Signallers \cup Stoppers \cup Waiters
Procs == Executors \cup Clients

ASSUME EngineAssumption ==
  /\ Plan \in [Runs -> Seq({"exec", "sleep", "await"})]
  /\ RecoverEnabled \in BOOLEAN /\ ExecMayFail \in BOOLEAN
  /\ MaxCrashes \in Nat /\ MaxFaults \in Nat
  /\ None \notin Runs
  /\ LET kinds == <<Workers, Manuals, Cancellers, Retriers, Signallers, Stoppers, Waiters>>
     IN  \A i, j \in 1..7 : i # j => kinds[i] \cap kinds[j] = {}

VARIABLES
  (* the store *)
  status,      \* RunMeta.Status; None before Start has created the instance
  done,        \* decisions in the log
  deadline,    \* the recorded, unfinished deadline: None, "future" or "due"
  mail,        \* a signal is in the mailbox
  audit,       \* KindCancel entries in the log
  lock,        \* the lease of the run is held and has not expired
  (* the process *)
  pc, on,      \* processes
  starting,    \* starting[r]: the Start call that creates r
  recovered,   \* recoverOnce is used up
  startScan,   \* what the scan of the first Start has still to dispatch
  scan,        \* what the Recover loop has still to dispatch
  closing,     \* closing[p]: channels p has detached and must close
  seen,        \* seen[p]: what an API call returned
  (* bounded environment events *)
  crashes, faults

storeVars  == <<status, done, deadline, mail, audit, lock>>
startVars  == <<starting, recovered, startScan>>
boundVars  == <<crashes, faults>>
planVars   == <<done, deadline, mail, audit>>
queueVars  == <<queue, stopped, ctxDone, lost>>
scanVars   == <<startVars, scan>>
clientVars == <<registryVars, scanVars, closing, seen, boundVars>>
vars == <<storeVars, schedVars, registryVars, pc, on, startVars, scan, closing, seen, boundVars>>

\* ListByStatus(Running, Awaiting).  (Mutants: only one of the
\* two statuses is looked for.)
MutAwaitingOnly == { r \in Runs : status[r] = "Awaiting" }
MutRunningOnly == { r \in Runs : status[r] = "Running" }
Live == { r \in Runs : status[r] \in {"Running", "Awaiting"} }

Critical == {"gate", "mark", "body", "suspend", "wakeup", "succeed", "error", "fail", "notify",
             "close", "release", "cancel_check", "cancel_status", "cancel_audit",
             "cancel_clear", "retry_check", "retry_reset", "retry_release"}
Labels == Critical \cup {"start", "idle", "acquire", "dispatch", "push", "query", "select",
                         "requery", "remove", "stop_close", "stop_wait", "stop_timers",
                         "exited", "done"}

\* p works on r between Acquire and Release.
Holds(p, r) == pc[p] \in Critical /\ on[p] = r

Init ==
  /\ status = [r \in Runs |-> None]
  /\ done = [r \in Runs |-> 0]
  /\ deadline = [r \in Runs |-> None]
  /\ mail = [r \in Runs |-> FALSE]
  /\ audit = [r \in Runs |-> 0]
  /\ lock = [r \in Runs |-> FALSE]
  /\ SchedInit /\ RegistryInit
  /\ pc = [p \in Procs |-> IF p \in Workers THEN "idle" ELSE "start"]
  /\ on = [p \in Procs |-> None]
  /\ starting = [r \in Runs |-> "no"] /\ recovered = FALSE /\ startScan = {}
  /\ scan = {}
  /\ closing = [p \in Procs |-> {}]
  /\ seen = [p \in Procs |-> None]
  /\ crashes = 0 /\ faults = 0

-----------------------------------------------------------------------------
(* Building blocks. *)

Goto(p, l) == pc' = [pc EXCEPT ![p] = l]

SetStatus(r, s) == status' = [status EXCEPT ![r] = s]

Fault == faults < MaxFaults /\ faults' = faults + 1

\* Locker.Acquire succeeds on a lease that is free or expired.  (Mutant: it
\* does not look.)
MutAlwaysFree(r) == TRUE
Acquirable(r) == ~lock[r]

Acquire(r) == Acquirable(r) /\ lock' = [lock EXCEPT ![r] = TRUE]

\* Locker.Release asks no questions: it deletes the lease whoever holds it.
\* When the call fails the lease is left to expire.
Release(r) ==
  \/ lock' = [lock EXCEPT ![r] = FALSE] /\ UNCHANGED faults
  \/ Fault /\ UNCHANGED lock

\* The gate of run() and Cancel: a terminal instance is left alone.  (Mutant:
\* only a succeeded one is.)
MutGate(r) == status[r] # "Succeeded"
Gate(r) == ~IsTerminal(status[r])

\* run() after it has scheduled a wakeup.  (Mutant: every end of run()
\* notifies.)
MutNotifyAlways == "notify"
AfterWakeup == "release"

\* fail() after it has written the status.  (Mutant: nobody is told.)
MutSilentFailure == "release"
AfterFailed == "notify"

\* A closed queue without tasks ends a worker's loop.  (Mutant: it does not.)
MutWorkersStay == FALSE
Drained == queue = << >> /\ stopped

\* What Stop waits for.  (Mutant: nothing.)
MutNoWait == TRUE
WorkersGone == \A w \in Workers : pc[w] = "exited"

-----------------------------------------------------------------------------
(* A worker's loop and RunOnce. *)

\* Take a task; a closed and drained queue ends the worker.
WorkerTake(w) ==
  /\ pc[w] = "idle"
  /\ \/ /\ queue # << >>
        /\ queue' = Tail(queue)
        /\ on' = [on EXCEPT ![w] = Head(queue)]
        /\ Goto(w, "acquire")
     \/ /\ Drained
        /\ Goto(w, "exited")
        /\ UNCHANGED <<queue, on>>
  /\ UNCHANGED <<stopped, timers, th, ctxDone, lost, clientVars, storeVars>>

\* RunOnce: a caller executes run() in its own goroutine.
RunOnce(p) ==
  /\ p \in Manuals /\ pc[p] = "start"
  /\ \E r \in Runs : on' = [on EXCEPT ![p] = r]
  /\ Goto(p, "acquire")
  /\ UNCHANGED <<clientVars, storeVars, schedVars>>

-----------------------------------------------------------------------------
(* run(). *)

\* The context run() was called with is done: the engine's, or that of the
\* caller of RunOnce, who does not cancel it.
Interrupted(p) == p \in Workers /\ ctxDone

\* run() returns.
Return(p) ==
  /\ Goto(p, IF p \in Workers THEN "idle" ELSE "done")
  /\ on' = [on EXCEPT ![p] = None]

\* Somebody else holds the lock: the task is skipped.
RunAcquire(p) ==
  /\ pc[p] = "acquire"
  /\ \/ Acquire(on[p]) /\ Goto(p, "gate") /\ UNCHANGED <<lost, on>>
     \/ /\ ~Acquirable(on[p])
        /\ Return(p)
        /\ lost' = IF p \in Workers THEN lost \cup {on[p]} ELSE lost
        /\ UNCHANGED lock
  /\ UNCHANGED <<status, queue, stopped, timers, th, ctxDone, clientVars, planVars>>

\* Of a live instance, the workflow is looked up: it may not be registered, or
\* by now in another version, and the run fails as it is, also an Awaiting one.
RunGate(p) ==
  LET live == status[on[p]] # None /\ Gate(on[p])
  IN  /\ pc[p] = "gate"
      /\ \/ live /\ \E l \in {"mark", "fail"} : Goto(p, l)
         \/ ~live /\ Goto(p, "release")
      /\ UNCHANGED <<on, clientVars, storeVars, schedVars>>

RunMark(p) ==
  /\ pc[p] = "mark"
  /\ SetStatus(on[p], "Running")
  /\ Goto(p, "body")
  /\ UNCHANGED <<lock, on, clientVars, schedVars, planVars>>

\* One decision of the workflow function, or its end.
RunBody(p) ==
  LET r == on[p]
      op == Plan[r][done[r] + 1]
      Decide == done' = [done EXCEPT ![r] = @ + 1]
      Stay == pc' = pc
  IN
  /\ pc[p] = "body"
  /\ \/ /\ done[r] = Len(Plan[r])
        /\ Goto(p, "succeed")
        /\ UNCHANGED <<done, deadline, mail>>
     \/ /\ done[r] < Len(Plan[r]) /\ op = "exec"
        /\ \/ ~Interrupted(p) /\ Decide /\ Stay
           \/ (Interrupted(p) \/ ExecMayFail) /\ Goto(p, "error") /\ UNCHANGED done
        /\ UNCHANGED <<deadline, mail>>
     \/ /\ done[r] < Len(Plan[r]) /\ op = "sleep"
        /\ \/ /\ deadline[r] = None
              /\ deadline' = [deadline EXCEPT ![r] = "future"]
              /\ Stay /\ UNCHANGED done
           \/ /\ deadline[r] = "future"
              /\ Goto(p, "suspend")
              /\ UNCHANGED <<done, deadline>>
           \/ /\ deadline[r] = "due"
              /\ deadline' = [deadline EXCEPT ![r] = None]
              /\ Decide /\ Stay
        /\ UNCHANGED mail
     \/ /\ done[r] < Len(Plan[r]) /\ op = "await"
        /\ \/ /\ mail[r]
              /\ mail' = [mail EXCEPT ![r] = FALSE]
              /\ Decide /\ Stay
           \/ /\ ~mail[r]
              /\ Goto(p, "suspend")
              /\ UNCHANGED <<done, mail>>
        /\ UNCHANGED deadline
  /\ UNCHANGED <<status, audit, lock, on, clientVars, schedVars>>

\* ErrSleeping / ErrAwaiting: Awaiting first, then the wakeup; the lock is
\* released last.
RunSuspend(p) ==
  /\ pc[p] = "suspend"
  /\ SetStatus(on[p], "Awaiting")
  /\ Goto(p, "wakeup")
  /\ UNCHANGED <<lock, on, clientVars, schedVars, planVars>>

RunWakeup(p) ==
  /\ pc[p] = "wakeup"
  /\ ScheduleWakeup(on[p], deadline[on[p]])
  /\ Goto(p, AfterWakeup)
  /\ UNCHANGED <<on, clientVars, storeVars, queueVars>>

RunSucceed(p) ==
  /\ pc[p] = "succeed"
  /\ SetStatus(on[p], "Succeeded")
  /\ Goto(p, "notify")
  /\ UNCHANGED <<lock, on, clientVars, schedVars, planVars>>

\* An error fails the run, unless the engine is shutting down: then the run is
\* left Running.
RunError(p) ==
  /\ pc[p] = "error"
  /\ Goto(p, IF Interrupted(p) THEN "release" ELSE "fail")
  /\ UNCHANGED <<on, clientVars, storeVars, schedVars>>

RunFail(p) ==
  /\ pc[p] = "fail"
  /\ SetStatus(on[p], "Failed")
  /\ Goto(p, AfterFailed)
  /\ UNCHANGED <<lock, on, clientVars, schedVars, planVars>>

\* A store call of run() reports an error: run() returns and leaves the run as
\* it is, without a wakeup.
RunStoreFails(p) ==
  /\ pc[p] \in {"acquire", "gate", "mark", "body", "suspend", "succeed", "fail"}
  /\ Fault
  /\ \/ pc[p] = "acquire" /\ Return(p)
     \/ pc[p] # "acquire" /\ Goto(p, "release") /\ UNCHANGED on
  /\ lost' = lost \cup {on[p]}
  /\ UNCHANGED <<queue, stopped, timers, th, ctxDone, closing, seen, crashes, storeVars,
                 registryVars, scanVars>>

RunRelease(p) ==
  /\ p \in Executors /\ pc[p] = "release"
  /\ Release(on[p])
  /\ Return(p)
  /\ UNCHANGED <<status, closing, seen, crashes, schedVars, planVars, registryVars, scanVars>>

\* waiterRegistry.notify, by whoever wrote the terminal status.
Notify(p) ==
  /\ pc[p] = "notify"
  /\ Detach(on[p])
  /\ closing' = [closing EXCEPT ![p] = byID[on[p]]]
  /\ Goto(p, "close")
  /\ UNCHANGED <<on, seen, storeVars, schedVars, scanVars, boundVars>>

NotifyClose(p) ==
  /\ pc[p] = "close"
  /\ Close(closing[p])
  /\ closing' = [closing EXCEPT ![p] = {}]
  /\ Goto(p, "release")
  /\ UNCHANGED <<on, seen, storeVars, schedVars, scanVars, boundVars>>

Run(p) ==
  \/ RunAcquire(p) \/ RunGate(p) \/ RunMark(p) \/ RunBody(p)
  \/ RunSuspend(p) \/ RunWakeup(p) \/ RunSucceed(p) \/ RunError(p) \/ RunFail(p)
  \/ RunRelease(p) \/ Notify(p) \/ NotifyClose(p)

-----------------------------------------------------------------------------
(* Start, one call per run. *)

StartCreate(r) ==
  /\ starting[r] = "no"
  /\ SetStatus(r, "Running")
  /\ starting' = [starting EXCEPT ![r] = "created"]
  /\ UNCHANGED <<lock, pc, on, recovered, startScan, scan, closing, seen, schedVars, planVars,
                 registryVars, boundVars>>

\* recoverOnce: the first Start lists the live runs, its own excepted.  Later
\* ones wait until that scan is over.
StartRecover(r) ==
  /\ starting[r] = "created"
  /\ \/ /\ ~recovered
        /\ recovered' = TRUE
        /\ startScan' = Live \ {r}
        /\ starting' = [starting EXCEPT ![r] = "scan"]
     \/ /\ recovered /\ \A x \in Runs : starting[x] # "scan"
        /\ starting' = [starting EXCEPT ![r] = "dispatch"]
        /\ UNCHANGED <<recovered, startScan>>
  /\ UNCHANGED <<pc, on, scan, closing, seen, storeVars, schedVars, registryVars, boundVars>>

StartScan(r) ==
  /\ starting[r] = "scan"
  /\ \/ \E x \in startScan :
          /\ Enqueue(x, th)
          /\ startScan' = startScan \ {x}
          /\ UNCHANGED starting
     \/ /\ startScan = {}
        /\ starting' = [starting EXCEPT ![r] = "dispatch"]
        /\ UNCHANGED <<queue, stopped, timers, th, lost, startScan>>
  /\ UNCHANGED <<ctxDone, pc, on, recovered, scan, closing, seen, storeVars, registryVars,
                 boundVars>>

StartDispatch(r) ==
  /\ starting[r] = "dispatch"
  /\ Enqueue(r, th)
  /\ starting' = [starting EXCEPT ![r] = "done"]
  /\ UNCHANGED <<ctxDone, pc, on, recovered, startScan, scan, closing, seen, storeVars,
                 registryVars, boundVars>>

Start(r) == StartCreate(r) \/ StartRecover(r) \/ StartScan(r) \/ StartDispatch(r)

-----------------------------------------------------------------------------
(* Signal, Cancel, Retry. *)

\* The call returns.
Finish(p, result) ==
  /\ Goto(p, "done")
  /\ on' = [on EXCEPT ![p] = None]
  /\ seen' = [seen EXCEPT ![p] = result]

\* Signal: check, push, dispatch.
SignalCheck(p) ==
  /\ p \in Signallers /\ pc[p] = "start"
  /\ \E r \in Runs :
       /\ status[r] # None
       /\ \/ IsTerminal(status[r]) /\ Finish(p, "ignored")
          \/ /\ ~IsTerminal(status[r])
             /\ Goto(p, "push")
             /\ on' = [on EXCEPT ![p] = r]
             /\ UNCHANGED seen
  /\ UNCHANGED <<closing, storeVars, schedVars, registryVars, scanVars, boundVars>>

SignalPush(p) ==
  /\ pc[p] = "push"
  /\ mail' = [mail EXCEPT ![on[p]] = TRUE]
  /\ Goto(p, "dispatch")
  /\ UNCHANGED <<status, done, deadline, audit, lock, on, clientVars, schedVars>>

\* The last step of Signal and of a successful Retry.
ClientDispatch(p) ==
  /\ pc[p] = "dispatch"
  /\ Enqueue(on[p], th)
  /\ Finish(p, "ok")
  /\ UNCHANGED <<ctxDone, closing, storeVars, registryVars, scanVars, boundVars>>

\* Cancel and Retry take the run's lock first, or return ErrRunBusy.
ClientAcquire(p) ==
  /\ p \in Cancellers \cup Retriers /\ pc[p] = "start"
  /\ \E r \in Runs :
       \/ /\ Acquire(r)
          /\ Goto(p, IF p \in Cancellers THEN "cancel_check" ELSE "retry_check")
          /\ on' = [on EXCEPT ![p] = r]
          /\ UNCHANGED seen
       \/ /\ ~Acquirable(r)
          /\ Finish(p, "busy")
          /\ UNCHANGED lock
  /\ UNCHANGED <<status, closing, schedVars, planVars, registryVars, scanVars, boundVars>>

CancelCheck(p) ==
  /\ pc[p] = "cancel_check"
  /\ Goto(p, IF status[on[p]] # None /\ Gate(on[p]) THEN "cancel_status" ELSE "release")
  /\ UNCHANGED <<on, clientVars, storeVars, schedVars>>

CancelStatus(p) ==
  /\ pc[p] = "cancel_status"
  /\ SetStatus(on[p], "Cancelled")
  /\ Goto(p, "cancel_audit")
  /\ UNCHANGED <<lock, on, clientVars, schedVars, planVars>>

\* The audit entry; a failed Append is logged and nothing is undone.
CancelAudit(p) ==
  /\ pc[p] = "cancel_audit"
  /\ \/ audit' = [audit EXCEPT ![on[p]] = @ + 1] /\ UNCHANGED faults
     \/ Fault /\ UNCHANGED audit
  /\ Goto(p, "cancel_clear")
  /\ UNCHANGED <<status, done, deadline, mail, lock, on, closing, seen, crashes, schedVars,
                 registryVars, scanVars>>

CancelClear(p) ==
  /\ pc[p] = "cancel_clear"
  /\ ClearTimer(on[p])
  /\ Goto(p, "notify")
  /\ UNCHANGED <<on, clientVars, storeVars, queueVars>>

\* Only a Failed run is retried.
RetryCheck(p) ==
  /\ pc[p] = "retry_check"
  /\ Goto(p, IF status[on[p]] = "Failed" THEN "retry_reset" ELSE "release")
  /\ UNCHANGED <<on, clientVars, storeVars, schedVars>>

RetryReset(p) ==
  /\ pc[p] = "retry_reset"
  /\ SetStatus(on[p], "Running")
  /\ Goto(p, "retry_release")
  /\ UNCHANGED <<lock, on, clientVars, schedVars, planVars>>

\* The lock is released before the dispatch.
RetryRelease(p) ==
  /\ pc[p] = "retry_release"
  /\ Release(on[p])
  /\ Goto(p, "dispatch")
  /\ UNCHANGED <<status, on, closing, seen, crashes, schedVars, planVars, registryVars,
                 scanVars>>

\* The other ends of Cancel and Retry.
ClientRelease(p) ==
  /\ p \in Clients /\ pc[p] = "release"
  /\ Release(on[p])
  /\ Finish(p, "ok")
  /\ UNCHANGED <<status, closing, crashes, schedVars, planVars, registryVars, scanVars>>

Call(p) ==
  \/ SignalCheck(p) \/ SignalPush(p) \/ ClientDispatch(p)
  \/ ClientAcquire(p)
  \/ CancelCheck(p) \/ CancelStatus(p) \/ CancelAudit(p) \/ CancelClear(p)
  \/ RetryCheck(p) \/ RetryReset(p) \/ RetryRelease(p)
  \/ ClientRelease(p) \/ Notify(p) \/ NotifyClose(p)

-----------------------------------------------------------------------------
(* WaitDone. *)

\* Register first, query afterwards.
WaitAdd(p) ==
  /\ p \in Waiters /\ pc[p] = "start"
  /\ \E r \in Runs : Add(r, p) /\ on' = [on EXCEPT ![p] = r]
  /\ Goto(p, "query")
  /\ UNCHANGED <<closing, seen, storeVars, schedVars, scanVars, boundVars>>

WaitQuery(p) ==
  /\ pc[p] = "query"
  /\ \/ /\ status[on[p]] = None \/ IsTerminal(status[on[p]])
        /\ seen' = [seen EXCEPT ![p] = IF status[on[p]] = None THEN "error" ELSE status[on[p]]]
        /\ Goto(p, "remove")
     \/ /\ status[on[p]] \in {"Running", "Awaiting"}
        /\ Goto(p, "select")
        /\ UNCHANGED seen
  /\ UNCHANGED <<on, closing, storeVars, schedVars, registryVars, scanVars, boundVars>>

\* The channel is closed, or the engine's context is done, or the caller's.
WaitSelect(p) ==
  /\ pc[p] = "select"
  /\ \/ p \in closed /\ Goto(p, "requery") /\ UNCHANGED seen
     \/ ctxDone /\ Goto(p, "remove") /\ seen' = [seen EXCEPT ![p] = "error"]
  /\ UNCHANGED <<on, closing, storeVars, schedVars, registryVars, scanVars, boundVars>>

WaitGiveUp(p) ==
  /\ pc[p] = "select"
  /\ Goto(p, "remove") /\ seen' = [seen EXCEPT ![p] = "error"]
  /\ UNCHANGED <<on, closing, storeVars, schedVars, registryVars, scanVars, boundVars>>

\* Woken up: read the metadata once more and return it.
WaitRequery(p) ==
  /\ pc[p] = "requery"
  /\ seen' = [seen EXCEPT ![p] = status[on[p]]]
  /\ Goto(p, "remove")
  /\ UNCHANGED <<on, closing, storeVars, schedVars, registryVars, scanVars, boundVars>>

WaitRemove(p) ==
  /\ pc[p] = "remove"
  /\ Remove(on[p], p)
  /\ Goto(p, "done")
  /\ on' = [on EXCEPT ![p] = None]
  /\ UNCHANGED <<closing, seen, storeVars, schedVars, scanVars, boundVars>>

WaitDone(p) == WaitAdd(p) \/ WaitQuery(p) \/ WaitSelect(p) \/ WaitRequery(p) \/ WaitRemove(p)

-----------------------------------------------------------------------------
(* Stop. *)

\* Cancel the engine's context.
StopCancel(p) ==
  /\ p \in Stoppers /\ pc[p] = "start"
  /\ ctxDone' = TRUE
  /\ Goto(p, "stop_close")
  /\ UNCHANGED <<queue, stopped, timers, th, lost, on, clientVars, storeVars>>

\* Close the queue; somebody who finds it closed returns nil at once.
StopClose(p) ==
  /\ pc[p] = "stop_close"
  /\ \/ stopped /\ Finish(p, "ok") /\ UNCHANGED stopped
     \/ ~stopped /\ CloseQueue /\ Goto(p, "stop_wait") /\ UNCHANGED <<on, seen>>
  /\ UNCHANGED <<queue, timers, th, ctxDone, lost, closing, storeVars, registryVars, scanVars,
                 boundVars>>

\* Wait for the workers, or for the caller's context.
StopWait(p) ==
  /\ pc[p] = "stop_wait"
  /\ WorkersGone
  /\ Goto(p, "stop_timers")
  /\ UNCHANGED <<on, clientVars, storeVars, schedVars>>

StopTimeout(p) ==
  /\ pc[p] = "stop_wait"
  /\ seen' = [seen EXCEPT ![p] = "error"]
  /\ Goto(p, "stop_timers")
  /\ UNCHANGED <<on, closing, storeVars, schedVars, registryVars, scanVars, boundVars>>

StopTimers(p) ==
  /\ pc[p] = "stop_timers"
  /\ CancelAllTimers
  /\ Finish(p, IF seen[p] = "error" THEN "error" ELSE "ok")
  /\ UNCHANGED <<closing, storeVars, queueVars, registryVars, scanVars, boundVars>>

Stop(p) == StopCancel(p) \/ StopClose(p) \/ StopWait(p) \/ StopTimers(p)

-----------------------------------------------------------------------------
(* Recover, time, leases, crashes. *)

RecoverScan ==
  /\ RecoverEnabled /\ ~ctxDone /\ scan = {} /\ Live # {}
  /\ scan' = Live
  /\ UNCHANGED <<pc, on, closing, seen, storeVars, schedVars, registryVars, startVars,
                 boundVars>>

RecoverDispatch(r) ==
  /\ r \in scan
  /\ Enqueue(r, th)
  /\ scan' = scan \ {r}
  /\ UNCHANGED <<ctxDone, pc, on, closing, seen, storeVars, registryVars, startVars, boundVars>>

Elapse(r) ==
  /\ deadline[r] = "future"
  /\ deadline' = [deadline EXCEPT ![r] = "due"]
  /\ FireTimers(r)
  /\ UNCHANGED <<status, done, mail, audit, lock, timers, pc, on, clientVars, queueVars>>

\* A lease outlives its holder only: leases are longer than any stretch of
\* execution under the lock.
LeaseExpires(r) ==
  /\ lock[r] /\ \A p \in Procs : ~Holds(p, r)
  /\ lock' = [lock EXCEPT ![r] = FALSE]
  /\ UNCHANGED <<status, pc, on, clientVars, schedVars, planVars>>

\* The process dies and restarts: the store stays, API calls in flight are
\* gone, a new engine has an empty queue and no timers.
Crash ==
  /\ crashes < MaxCrashes
  /\ crashes' = crashes + 1
  /\ queue' = << >> /\ stopped' = FALSE /\ ctxDone' = FALSE
  /\ timers' = [r \in Runs |-> None] /\ th' = [h \in Handles |-> FreeHandle]
  /\ lost' = Runs
  /\ byID' = [r \in Runs |-> {}] /\ closed' = {}
  /\ pc' = [p \in Procs |-> IF p \in Workers THEN "idle"
                            ELSE IF pc[p] = "start" THEN "start" ELSE "done"]
  /\ on' = [p \in Procs |-> None]
  /\ starting' = [r \in Runs |-> IF starting[r] = "no" THEN "no" ELSE "done"]
  /\ recovered' = FALSE /\ startScan' = {} /\ scan' = {}
  /\ closing' = [p \in Procs |-> {}]
  /\ seen' = [p \in Procs |-> IF p \in Workers \/ pc[p] \in {"start", "done"}
                              THEN seen[p] ELSE "error"]
  /\ UNCHANGED <<faults, storeVars>>

-----------------------------------------------------------------------------

Next ==
  \/ \E p \in Executors : WorkerTake(p) \/ RunOnce(p) \/ Run(p) \/ RunStoreFails(p)
  \/ \E h \in Handles : Goroutine(h) /\ UNCHANGED <<pc, on, clientVars, storeVars>>
  \/ \E r \in Runs : Start(r) \/ RecoverDispatch(r) \/ Elapse(r) \/ LeaseExpires(r)
  \/ \E p \in Clients : Call(p) \/ WaitDone(p) \/ WaitGiveUp(p) \/ Stop(p) \/ StopTimeout(p)
  \/ RecoverScan \/ Crash

Spec == Init /\ [][Next]_vars

\* Goroutines that can run do run: the workers, the timers, the Recover loop,
\* and every API call once it has been made.  Time passes and leases expire.
\* Nobody has to call the API, and neither crashes nor faults have to happen.
Fairness ==
  /\ \A p \in Executors : WF_vars(WorkerTake(p) \/ Run(p))
  /\ \A h \in Handles : WF_vars(Goroutine(h) /\ UNCHANGED <<pc, on, storeVars, clientVars>>)
  /\ \A r \in Runs :
       /\ WF_vars(starting[r] # "no" /\ Start(r))
       /\ WF_vars(RecoverDispatch(r))
       /\ WF_vars(Elapse(r))
       /\ WF_vars(LeaseExpires(r))
  /\ \A p \in Clients : WF_vars(pc[p] # "start" /\ (Call(p) \/ WaitDone(p) \/ Stop(p)))
  /\ WF_vars(RecoverScan)

FairSpec == Spec /\ Fairness

-----------------------------------------------------------------------------
(* Properties. *)

\* The type of every variable; the queue never exceeds its capacity.
TypeOK ==
  /\ SchedTypeOK /\ RegistryTypeOK
  /\ status \in [Runs -> Statuses \cup {None}]
  /\ done \in [Runs -> Nat] /\ \A r \in Runs : done[r] <= Len(Plan[r])
  /\ deadline \in [Runs -> {None, "future", "due"}]
  /\ mail \in [Runs -> BOOLEAN] /\ lock \in [Runs -> BOOLEAN] /\ audit \in [Runs -> Nat]
  /\ pc \in [Procs -> Labels] /\ on \in [Procs -> Runs \cup {None}]
  /\ starting \in [Runs -> {"no", "created", "scan", "dispatch", "done"}]
  /\ recovered \in BOOLEAN /\ startScan \subseteq Runs /\ scan \subseteq Runs
  /\ closing \in [Procs -> SUBSET Waiters]
  /\ seen \in [Procs -> Statuses \cup {None, "ok", "busy", "ignored", "error"}]
  /\ crashes \in Nat /\ faults \in Nat

\* At most one worker, Cancel or Retry is between Acquire and Release of a run,
\* also across crashes, expired leases and failed Release calls.
MutualExclusion ==
  \A r \in Runs : \A p, q \in Procs : Holds(p, r) /\ Holds(q, r) => p = q

\* A cancelled run has at most one audit entry and only a cancelled run has
\* one: replay never meets a KindCancel entry.
CancelAudited ==
  \A r \in Runs : audit[r] <= 1 /\ (audit[r] = 1 => status[r] = "Cancelled")

\* Whatever workers, RunOnce, Cancel, Retry and crashes do to a run, it is a
\* lifecycle of module Lifecycle: one holder at a time, changes only by the
\* holder and along the status graph, no decision but in Running.
Abstract == INSTANCE Lifecycle WITH
  Decisions <- [r \in Runs |-> Len(Plan[r])],
  holders <- [r \in Runs |-> { p \in Procs : Holds(p, r) }]
ImplementsLifecycle == Abstract!Spec

\* A sleeping run that nobody works on has its wakeup: a task, a registered
\* timer or a goroutine about to enqueue it.  The only ways to lose it are a
\* task that met a held lock, a full queue, a store call that failed in run()
\* and a crash.
WakeupPending ==
  \A r \in Runs :
    status[r] = "Awaiting" /\ deadline[r] # None /\ ~ctxDone /\ r \notin lost
      => \/ HasWakeup(r)
         \/ \E p \in Procs : Holds(p, r) \/ (p \in Workers /\ on[p] = r /\ pc[p] = "acquire")

\* WaitDone returns the metadata of a terminal run, or an error.
WaitDoneIsTerminal ==
  \A p \in Waiters : pc[p] = "done" => IsTerminal(seen[p]) \/ seen[p] = "error"

\* No missed wakeup: a WaitDone that blocks on a terminal run has been told,
\* or whoever made the run terminal is still about to tell it.
WaiterNotForgotten ==
  \A p \in Waiters :
    pc[p] = "select" /\ IsTerminal(status[on[p]]) /\ p \notin closed =>
      \E q \in Procs :
        /\ on[q] = on[p]
        /\ \/ pc[q] \in {"cancel_audit", "cancel_clear", "notify"} /\ p \in byID[on[p]]
           \/ pc[q] = "close" /\ p \in closing[q]

\* A WaitDone call that has returned leaves no registration behind.
RegistryClean ==
  \A p \in Waiters : pc[p] \in {"start", "done"} => \A r \in Runs : p \notin byID[r]

\* When all Stop calls have returned, and none of them with an error, the
\* workers have ended and no timer is registered any more.  (One that finds the
\* queue closed returns nil before this is so.)
StopMeansStopped ==
  (\E p \in Stoppers : pc[p] # "start")
  /\ (\A p \in Stoppers : pc[p] # "start" => pc[p] = "done" /\ seen[p] = "ok")
    => (\A w \in Workers : pc[w] = "exited") /\ (\A r \in Runs : timers[r] = None)

\* Stop returns.
StopReturns == \A p \in Stoppers : pc[p] = "stop_close" ~> pc[p] = "done"

\* A run whose recorded deadline has passed gets on, unless the engine stops.
SleepersWake ==
  \A r \in Runs :
    deadline[r] = "due" /\ ~IsTerminal(status[r])
      ~> deadline[r] # "due" \/ IsTerminal(status[r]) \/ ctxDone

\* r has come to an Await whose signal nobody has sent.
Unanswered(r) ==
  status[r] \in {"Running", "Awaiting"} /\ done[r] < Len(Plan[r])
    /\ Plan[r][done[r] + 1] = "await" /\ ~mail[r]

\* A run that was started, was dropped from a full queue or left behind by a
\* crash comes to a terminal status, unless the engine stops or there is a run
\* that waits for a signal: scan after scan, that one may take the last place
\* in the queue.
RunsComplete ==
  \A r \in Runs :
    status[r] \in {"Running", "Awaiting"}
      ~> IsTerminal(status[r]) \/ ctxDone \/ \E x \in Runs : Unanswered(x)

\* A signal that has been stored for a live run is consumed, unless the run
\* ends first or the engine stops.
SignalsHeard ==
  \A r \in Runs :
    mail[r] /\ ~IsTerminal(status[r]) ~> ~mail[r] \/ IsTerminal(status[r]) \/ ctxDone

\* A WaitDone on a run that has become terminal returns.
WaitersReturn ==
  \A p \in Waiters :
    pc[p] = "select" /\ IsTerminal(status[on[p]]) ~> pc[p] = "done"
=============================================================================
