----------------------------- MODULE Scheduler -----------------------------
(***************************************************************************)
(* The scheduler (src/engine/scheduler.go): a bounded task queue in memory,*)
(* one registered wakeup timer per run, and the goroutines that wait for   *)
(* the timers.  A timer's goroutine outlives its registration: cancelled   *)
(* or fired, it is still to run clearTimerIf when the run may already have *)
(* registered its next timer.                                              *)
(*                                                                         *)
(* The operators here are the scheduler's methods; module Engine calls     *)
(* them.  stopMu makes enqueue one atomic step, timersMu each of the       *)
(* others.                                                                 *)
(***************************************************************************)
EXTENDS Model, Naturals, Sequences

CONSTANTS
  QueueSize,   \* capacity of the task queue
  Handles      \* bound: timer goroutines alive at a time

ASSUME SchedulerAssumption == QueueSize \in Nat \ {0} /\ None \notin Handles

VARIABLES
  queue,       \* the TaskQueue: runs to execute
  stopped,     \* the queue is closed
  timers,      \* timers[r]: the handle registered for r, or None
  th,          \* th[h]: the goroutine behind handle h
  ctxDone,     \* the engine's context is cancelled
  lost         \* history: runs whose last wakeup was dropped, came too soon or failed

schedVars == <<queue, stopped, timers, th, ctxDone, lost>>

\* A goroutine waits in its select, has been cancelled there, has to dispatch,
\* or is left with its deferred clean-up.  "redispatch" is the goroutine that
\* scheduleWakeup starts for a deadline in the past; it has no timer.
Phases == {"free", "waiting", "cancelled", "dispatch", "cleanup", "redispatch"}
FreeHandle == [run |-> None, phase |-> "free", fired |-> FALSE]
Goroutines == [run : Runs \cup {None}, phase : Phases, fired : BOOLEAN]

SchedTypeOK ==
  /\ queue \in Seq(Runs) /\ Len(queue) <= QueueSize
  /\ stopped \in BOOLEAN /\ ctxDone \in BOOLEAN
  /\ timers \in [Runs -> Handles \cup {None}]
  /\ th \in [Handles -> Goroutines]
  /\ lost \subseteq Runs

SchedInit ==
  /\ queue = << >> /\ stopped = FALSE /\ ctxDone = FALSE
  /\ timers = [r \in Runs |-> None]
  /\ th = [h \in Handles |-> FreeHandle]
  /\ lost = {}

-----------------------------------------------------------------------------

\* timerHandle.cancel: its context is done; a goroutine past its select does
\* not notice.
CancelIn(f, h) ==
  IF h # None /\ f[h].phase = "waiting"
  THEN [f EXCEPT ![h].phase = "cancelled"] ELSE f

\* The registry without r's timer.  (Mutant: the entry is left behind.)
MutStaleEntry(r) == timers
Unregistered(r) == [timers EXCEPT ![r] = None]

\* The queue has no room left.  (Mutant: not asked.)
MutNeverFull == FALSE
QueueFull == Len(queue) = QueueSize

\* clearTimer: unregister and cancel whatever is registered.
ClearTimer(r) ==
  /\ timers' = Unregistered(r)
  /\ th' = CancelIn(th, timers[r])

\* enqueue: refuse when stopped; clear the timer; send without blocking, and
\* drop the task when the queue is full.  f is the state of the goroutines
\* without the effect of this call.
Enqueue(r, f) ==
  \/ /\ stopped
     /\ th' = f
     /\ UNCHANGED <<queue, stopped, timers, lost>>
  \/ /\ ~stopped
     /\ timers' = Unregistered(r)
     /\ th' = CancelIn(f, timers[r])
     /\ \/ ~QueueFull /\ queue' = Append(queue, r) /\ lost' = lost \ {r}
        \/ QueueFull /\ queue' = queue /\ lost' = lost \cup {r}
     /\ UNCHANGED stopped

\* scheduleWakeup, registerTimer: nothing without a deadline, a goroutine that
\* dispatches for a deadline in the past, else a new timer in place of the old.
ScheduleWakeup(r, deadline) ==
  \/ deadline = None /\ UNCHANGED <<timers, th>>
  \/ /\ deadline # None
     /\ \E h \in Handles : th[h].phase = "free"
     /\ LET h == CHOOSE x \in Handles : th[x].phase = "free"
        IN  \/ /\ deadline = "due"
               /\ th' = [th EXCEPT ![h] = [run |-> r, phase |-> "redispatch", fired |-> TRUE]]
               /\ UNCHANGED timers
            \/ /\ deadline = "future"
               /\ timers' = [timers EXCEPT ![r] = h]
               /\ th' = [CancelIn(th, timers[r])
                           EXCEPT ![h] = [run |-> r, phase |-> "waiting", fired |-> FALSE]]

\* Time reaches the deadline of r: the timer channels set for it deliver.
FireTimers(r) ==
  th' = [h \in Handles |-> IF th[h].run = r THEN [th[h] EXCEPT !.fired = TRUE] ELSE th[h]]

-----------------------------------------------------------------------------
(* The goroutine behind handle h. *)

\* select: either channel may be taken when both are ready.
TimerSelect(h) ==
  /\ \/ /\ th[h].phase \in {"waiting", "cancelled"} /\ th[h].fired
        /\ th' = [th EXCEPT ![h].phase = "dispatch"]
     \/ /\ th[h].phase = "cancelled" \/ (th[h].phase = "waiting" /\ ctxDone)
        /\ th' = [th EXCEPT ![h].phase = "cleanup"]
  /\ UNCHANGED <<queue, stopped, timers, ctxDone, lost>>

TimerDispatch(h) ==
  /\ \/ th[h].phase = "dispatch" /\ Enqueue(th[h].run, [th EXCEPT ![h].phase = "cleanup"])
     \/ th[h].phase = "redispatch" /\ Enqueue(th[h].run, [th EXCEPT ![h] = FreeHandle])
  /\ UNCHANGED ctxDone

\* Mutant: the clean-up does not look whose registration it removes.
MutClearAny(h) ==
  /\ timers' = [timers EXCEPT ![th[h].run] = None]
  /\ th' = [CancelIn(th, timers[th[h].run]) EXCEPT ![h] = FreeHandle]
\* clearTimerIf: a goroutine removes its own registration and no other.
ClearTimerIf(h) ==
  /\ timers' = [r \in Runs |-> IF r = th[h].run /\ timers[r] = h THEN None ELSE timers[r]]
  /\ th' = [th EXCEPT ![h] = FreeHandle]

TimerCleanup(h) ==
  /\ th[h].phase = "cleanup"
  /\ ClearTimerIf(h)
  /\ UNCHANGED <<queue, stopped, ctxDone, lost>>

Goroutine(h) == TimerSelect(h) \/ TimerDispatch(h) \/ TimerCleanup(h)

-----------------------------------------------------------------------------
(* stop *)

CloseQueue == stopped' = TRUE

CancelAllTimers ==
  /\ timers' = [r \in Runs |-> None]
  /\ th' = [h \in Handles |-> IF \E r \in Runs : timers[r] = h
                              THEN CancelIn(th, h)[h] ELSE th[h]]

-----------------------------------------------------------------------------

\* Whatever is registered for r is armed for r: a goroutine that still waits
\* in its select, or has fired and is about to dispatch or clean up itself.
RegisteredIsArmed ==
  \A r \in Runs : timers[r] # None =>
    th[timers[r]].run = r /\ th[timers[r]].phase \in {"waiting", "dispatch", "cleanup"}

\* r is queued, or a goroutine will enqueue it.
HasWakeup(r) ==
  \/ \E i \in 1..Len(queue) : queue[i] = r
  \/ \E h \in Handles :
       th[h].run = r /\ th[h].phase \in {"dispatch", "redispatch"}
  \/ timers[r] # None /\ th[timers[r]].phase = "waiting"
=============================================================================
