# A TLA+ model of track

track is a durable-execution engine in Go: a workflow is an ordinary function
that calls four primitives (`Execute`, `Sleep`, `Await`, `Return`); each
primitive records its decision in an append-only log, and after a suspension, a
crash or a restart the function is run again from the top and takes its earlier
decisions from the log.  This directory models the engine, checks it with TLC on
small instances, and proves every safety property and both refinements for every
workflow function, any number of processes and every bound.

## 1. The system

| part | state | operations |
|---|---|---|
| workflow primitives, `src/engine/context.go` | `journal`, `cursor`, `sleepDeadline`, `awaitDeadline`, `returnData` | `Execute`, `Sleep`, `Await`, `Return`, over `consume` and `commit` |
| run loop, `src/engine/runner.go` | none of its own | lock, gate on the status, look up, compare versions, read the log, mark Running, call the function, translate its error into a status, wake waiters, release |
| scheduler, `src/engine/scheduler.go` | the task queue, `stopped`, one registered timer per run, a goroutine per timer | `enqueue`, `scheduleWakeup`, `worker`, `stop`, `clearTimer`, `clearTimerIf` |
| engine API, `src/engine/engine.go` | the registered functions, `recoverOnce`, the engine's context | `Register`, `Start`, `RunOnce`, `Signal`, `Cancel`, `Retry`, `WaitDone`, `Stop`, `Recover` and its loop |
| waiter registry, `src/engine/waiters.go` | channels per run | `add`, `remove`, `notify` |
| store, mailbox, locker, `src/store`, `src/infra/memory` | log and metadata per run, one slot per signal, a lease per run | `Append`, `Read`, `UpdateStatus`, `GetResult`, `ListByStatus`; `Push`, `Fetch`, `Ack`; `Acquire`, `Release` |
| clock, `src/clock` | the time; the fake clock's list of timers | `Now`, `After`, `Advance` |
| retry policies, `src/policy` | the failures counted inside a policy object | `Next`, `ForExec` |
| examples, `src/examples` | none | three workflow functions |
| options, metrics, logging, test hooks | | not modelled, see section 7 |

How they interact.  An API call or a timer puts a run into the queue; a worker
takes it, acquires the run's lock (or skips the task if the lock is held), and
runs the function over a working copy of the log.  The function ends by
returning, failing, or suspending; a suspended run is marked Awaiting and gets a
timer, a signal dispatches it again, and the Recover scan dispatches every
Running or Awaiting run from time to time.  Cancel and Retry work on the same
metadata under the same lock.  WaitDone waits for a channel that whoever writes
a terminal status closes.  All memory but the store is lost in a crash.

What is hard here: the store calls of one run are separate steps, and signals,
the passing of time, a shutdown or a crash fall between any two of them; a
replay identifies an entry by position and kind alone; a wakeup can be lost in
several ways (skipped on a held lock, dropped by a full queue, cancelled by the
clean-up of an older timer, gone in a crash) and has to be made up for; API
calls read a status and act on it later; the attempts and waits of an Execute
happen under a lease that nobody renews.  `PROJECT.json` lists these hazards at
their lines, with the properties that would catch them going wrong.

## 2. The modules

| module | models |
|---|---|
| `Program` | a workflow function as an automaton over primitive calls; log entries; what it means for a log to be a walk of the function |
| `Execution` | the promise to a workflow: the function is walked once, and nothing that happens to the process shows |
| `Lifecycle` | the promise about a run: one holder at a time, who alone moves it along the status graph |
| `WorkflowContext` | one run: the primitives and `run()` over a store whose calls may fail, with signals, time, shutdown, crashes and registration of other code |
| `Model`, `Scheduler`, `WaiterRegistry` | statuses; the scheduler's and the registry's methods as operators |
| `Engine` | workers, RunOnce and API calls on shared runs: composes `Scheduler` and `WaiterRegistry` with the lock, the statuses, Recover, leases and crashes |
| `RetryPolicy`, `Clock` | the policies' attempts and delays; the fake clock's timers |
| `LeasedExecute` | one Execute in time: composes `RetryPolicy` and `Clock` with the lease of the run |
| `Examples` | the workflow functions of `src/examples` |
| `MCWorkflowContext`, `MCEngine`, `MCLeasedExecute` | the small workflow functions, plans and policies the runs use |
| `WorkflowContextProofs`, `ReplayProofs`, `ExecutionProofs` | theorems about `WorkflowContext`: types; replay; output, deadlines, effects, signals and `Execution` |
| `EngineProofs`, `LifecycleProofs`, `SchedulerProofs`, `WaiterProofs` | theorems about `Engine`: types and exclusion; audit and `Lifecycle`; timers, wakeups and Stop; WaitDone |
| `LeasedExecuteProofs` | theorems about `LeasedExecute` |

**WorkflowContext.**  A workflow function is deterministic between two
primitive calls, so it is given by constants: `Entry[v]`, the first call of code
version v; `Op`, `Delay`, `SignalOf` of each call; and `Succ[s][r]`, the call
that follows when call s returned r.  An entry of the log carries, besides its
kind and payload, the history field `by`: the call that recorded it.  The code
has no such field and no action looks at it; the properties do.  `pc` names the
next store or clock call: `idle` (no run in progress), `mark`, `call` (a
primitive is entered), `outcome` (the second half of Await), `expire`, `commit`,
`ack`, `check`, and the ends `suspend`, `succeed`, `error`, `fail`.  `Load` is
everything from the gate to the Read; since only the lock holder writes the
status and the log, the reads between them commute with all other steps.
`StorageError` is the failing Append or Fetch (a remote store may have written
the entry it reports as failed) whose error business code hands back, so that
run() leaves; `StorageErrorHandled` is that of an Execute whose errors business
code handles, and the run goes on with a working copy that lacks an entry the
log may have.  `StatusWriteFails` is the failing UpdateStatus.  The check of the
engine's context (`Interrupted`, `BusinessError`) and the write of Failed
(`FailRun`) are two steps, and Stop may fall between them; `cause` records
whether the error came up while the context was cancelled.  Cancel is here the
write of its status only.  Its audit entry comes after that, in a log that
run() does not read again, and is in `Engine`.
A Signal is two steps, the status check and the Push.  `Register` replaces the
deployed function at any time; a run in progress keeps the one it has looked up,
and the next one compares versions.  The per-run lock is left to `Engine`: here
at most one run is in progress.

**Engine.**  Each worker and each API call is a process with a `pc` naming the
next store, lock or scheduler call and `on`, the run it is about.  Workers and
RunOnce calls (`Manuals`) share the actions of `run()`; a RunOnce
(`src/engine/testing.go`) gets its run from its caller and not from the queue,
Stop does not wait for it, and its caller's context is assumed not to be
cancelled.  The workflow function of
run r is a sequence of decisions (`Plan[r]`); replay is not modelled again.
`lock[r]` is a lease that is held and has not expired, without an owner, as in
the code: `Release` frees whatever lease there is.  A timer's goroutine is a
handle in `th`, with the phases of the code: waiting in its select, cancelled
there, about to dispatch, about to clean up; `redispatch` is the goroutine that
`scheduleWakeup` starts for a deadline that has passed.  A deadline is `None`,
`future` or `due`; `Elapse` makes it due and lets the timers set for it fire.
`RunGate` may find the workflow unregistered or of another version, which fails
the run before it is marked Running (which code is registered is the subject of
`WorkflowContext`, so here it is a choice); `RunStoreFails` is run() returning on
a failed store call.  `lost` is a history variable: runs whose last wakeup was
skipped, dropped, used up by such a return or lost in a crash.  `Engine` implements `Lifecycle` with the holders of a run
being the processes between a successful Acquire and their Release.

**LeasedExecute.**  `Engine` lets a lease expire only when its holder is gone.
This module drops that condition.  Processes, workers of engines that share
a store, take a run whose function is one Execute: Acquire, then attempts of
`fn` under a timeout, `Next` of the policy after each failure, and a wait for
the clock between attempts.  Time is a number; `Advance` passes it in steps of
any size.  A lease is its expiry (0 when there is none), and `Release` removes
whatever lease there is.  `Clock` follows the fake clock: `Advance` moves the
timers that are due out of the list under the mutex and sends on their channels
after unlocking (`Deliver`), so other steps come between; a process waits on at
most one channel, so the channel has the process's name.  The channels are
buffered and have one reader each, so the order of the sends is left open and
the lists of timers are sets.  Two history variables
state the contract of docs/track.md 4.3: `late`, somebody has taken more time
than its timeout or wait grants, and `overran`, somebody has held the run for
as long as a lease.  `WorstCase` is the time a policy grants in the worst case,
attempts * timeout + (attempts - 1) * the longest delay (a negative FixedDelay
is no delay).  `LeaseAssumption` says that the policies are such as the
constructors build (`IsPolicy`; the lemma `ConstructorsBuild` proves that they
do) and that every policy's worst case is shorter than the lease.

## 3. The runs

Every run says what it shows in `PROJECT.json`; the bounds are in the .cfg
files.  None checks for deadlock: when every run is terminal and every API call
has returned, the system may stop.

| run | instance | checks |
|---|---|---|
| `replay` | the three example workflows and an order with all four primitives and both kinds of Await, registered over each other; a crash, a fault, a Retry, 2 signals | `TypeOK`, `ReplayFollowsRecording`, `LogIsWalk`, `RunAligned`, `OutputIsRecorded`, `DeadlinesRespected`, `WakeupIsCurrent`, `EffectsBounded`, `NewestSignalKept`, `ShutdownIsNotFailure`, `ImplementsExecution` |
| `progress` | a function that handles an Execute error with a second Execute, also when the store failed; every wait has a timeout; 2 crashes, a fault, a Retry | `UnreadIsReported`, `EventuallyTerminal` |
| `exclusion` | a worker, 2 RunOnces, 2 Cancels, a Retry, a crash, a fault | `TypeOK`, `MutualExclusion`, `CancelAudited`, `ImplementsLifecycle` |
| `wakeup` | a run that executes and sleeps, 2 workers, a RunOnce, 2 timer goroutines, a Signal, a Cancel, a WaitDone, a fault | `RegisteredIsArmed`, `WakeupPending`, `WaitDoneIsTerminal`, `WaiterNotForgotten`, `RegistryClean` |
| `stop` | two Stops, a WaitDone and a Signal against a worker and a timer; Execute may fail | `StopMeansStopped`, `StopReturns`, `WaitersReturn` |
| `recover` | 2 workers, a run that sleeps and awaits, a Signal, Recover, a fault | `SleepersWake`, `SignalsHeard` |
| `restart` | 2 runs, a queue of one, a crash | `RunsComplete` |
| `lease` | 2 processes, policies without retry, with a fixed, a negative and an exponential delay, a lease of 8 and a clock up to 10 | `TakeoverNeedsOverrun`, `TimelyNeverOverruns`, `AttemptsExact`, `TimersDeliver` |

Why the bounds are enough for the cases to happen.  A crash lets a run be
replayed and extended, a Retry or a failed store call lets it be replayed once
more, and `progress` has two crashes; one fault hits every store call in turn; a
Retry follows a failure and is followed by another.  Other code can be
registered, and undone, at every step.  In `Engine` one run suffices for
everything that is per run (locks, timers, waiters); two runs are used where
runs compete for the queue.  A queue of one is full as soon as two tasks meet.
Two timer handles let an old goroutine clean up after a new timer has been
registered; with one handle (`exclusion`, `stop`, `recover`, `restart`) a worker
that needs a second waits for the first goroutine to end, which only delays it.
Recover, which can dispatch a live run at any time and again and again, is in the
runs whose question is whether it makes up for lost wakeups (`recover`,
`restart`).  In `exclusion` RunOnce calls bring a second and a third executor, at
any time and without the queue; in `wakeup` a RunOnce does, and a Signal is the
extra task that meets a held lock or a full queue.  In `stop`, Recover's part
would be that its enqueue fails once `stopped` is set, which is the same operator
the Signal and the timer call.  The theorems of section 5 hold with Recover.  In `lease` the clock
goes past one whole lease, so a lease can expire under its holder, be taken over
and be removed by the first holder's Release.

What a property excepts, the code really does not give.  `WakeupPending` does
not hold for the runs in `lost`: a deadline that passes between the function's
check and `scheduleWakeup` makes the goroutine enqueue the run at once, a second
worker finds the lock held and skips it, and the first releases the lock; or a
store call of run() fails, and the task that brought the wakeup is used up.  Those
runs depend on periodic Recover, and `SleepersWake` checks that they get it.
`RunsComplete` excepts runs that wait for a signal: such a run can take the last
place in the queue scan after scan.  A second Stop returns nil at once, whether
or not the first is still waiting or has timed out; `StopMeansStopped` states
what holds nevertheless.  `UnreadIsReported` is what the drift check gives, and not
quite that a success has walked every recorded step (runner.go:210): when the
Append of a result is reported as failed but was written, and the function
handles the error and finishes, the check compares the cursor with the working
copy, and the run succeeds with an entry nobody walked.  One such entry per
failed store call is all there can be; without a failed call there is none.  `ShutdownIsNotFailure` speaks of errors that came up under the
cancelled context; an error that came up before Stop may well be written after it.
`AttemptsExact` is about fn's own failures: an Execute that ends because the
context is cancelled has made fewer attempts.

### Disagreements with the documentation

Four runs end in a violation of what a comment or a document of the repository
says.  Each is in `PROJECT.json` with the quotation.

| run | what happens |
|---|---|
| `caught_replay` | Execute fails, the function catches the error and executes a fallback, which is recorded; after a crash the failed Execute consumes the fallback's entry as its own success. |
| `signal_lost` | Await fetches p1 and records it; a Signal stores p2 in the slot; Ack deletes p2. |
| `signal_twice` | A crash between the record and Ack leaves p1 in the slot; the next Await of that name consumes it again. |
| `waiters_retry` | A run fails and wakes a WaitDone; Retry resets the run before WaitDone reads it; WaitDone returns a Running instance. |

`replay` checks `NewestSignalKept` where it holds: one Signal per name.

## 4. Fairness

`WorkflowContext!FairSpec` has weak fairness of the run's own steps (a live
instance is dispatched by its wakeup or by Recover, and a dispatched run goes
on; `Engine` is where that is checked) and of time.  `EventuallyTerminal` is
conditional on the engine not being left shut down.  `Engine!Fairness` is weak
fairness of each worker, each RunOnce, each timer goroutine, the Recover loop, each API call
once it has been made, of time and of the expiry of leases whose holder is gone:
the Go scheduler runs every runnable goroutine, and a ticker drives Recover.
Nothing forces API calls, faults, crashes, the caller's giving up on WaitDone
(`WaitGiveUp`) or the time limit of Stop (`StopTimeout`).

## 5. Proofs

`tlapm` checks all proofs.  The constants are arbitrary sets, functions and
numbers that satisfy the assumptions of their modules: for `WorkflowContext`,
`ProgramAssumption` and `BoundsAssumption` (the types of the constants, and that
the markers for "returned nil" and "returned an error" are not calls); for
`Engine`, `EngineAssumption` (types, and that the seven kinds of processes are
disjoint); for `LeasedExecute`, `LeaseAssumption`.  TLC evaluates them in every
run.

| theorem | states | invariant it rests on |
|---|---|---|
| `TypeCorrect` | `TypeOK` of `WorkflowContext` | `TypeInv` |
| `ReplayDeterministic`, `LogAlwaysWalk`, `RunAlwaysAligned` (E) | `ReplayFollowsRecording`, `LogIsWalk`, `RunAligned` | `Faithful` |
| `OutputRecorded` | `OutputIsRecorded` | `CopyInv`, `RunnerInv` |
| `SuccessComplete` | `UnreadIsReported` | `CopyInv` |
| `ShutdownHarmless` | `ShutdownIsNotFailure` | `ShutdownInv` |
| `DeadlinesHold` | `DeadlinesRespected` | `CopyInv`, `DeadlineInv` |
| `WakeupsCurrent` (E) | `WakeupIsCurrent` | `Faithful`, `CopyInv`, `DeadlineInv`, `WakeInv` |
| `EffectsAccounted` | `EffectsBounded` | `TypeInv`, `EffectsBounded` itself |
| `SignalsKept` (S) | `NewestSignalKept` | `CopyInv`, `SignalInv` |
| `RunImplementsWalk` (E) | `ImplementsExecution` | `Faithful`, `CopyInv`, `RunnerInv`, `DeadlineInv`, `ReturnInv` |
| `EngineTypes` | `TypeOK` of `Engine` | `TypeInv` |
| `EngineExclusion` | `MutualExclusion` | `LockInv` |
| `EngineAudit`, `EngineImplementsLifecycle` | `CancelAudited`, `ImplementsLifecycle` | `RunInv` |
| `TimersArmed` | `RegisteredIsArmed` | itself, with `TypeInv` |
| `WakeupsPending` | `WakeupPending` | `RunInv`, `WakeInv` |
| `EngineStops` (L) | `StopMeansStopped` | `KindInv`, `StopInv` |
| `WaitersCleanUp`, `WaitersAreTold` | `RegistryClean`, `WaiterNotForgotten` | `RunInv`, `WaiterInv` |
| `WaitDoneAnswers` (R) | `WaitDoneIsTerminal` | the same, and `AnswerInv` |
| `LeaseProtects` | `TakeoverNeedsOverrun` | `LeaseInv` |
| `AttemptsCounted` | `AttemptsExact` | `AttemptInv` |
| `LeaseLongEnough` | `TimelyNeverOverruns` | `LeaseInv`, `AttemptInv`, `TimeInv` |
| `WaitsAreWoken` | `TimersDeliver` | `AttemptInv`, `TimerInv` |

The letters are hypotheses, each one needed:

* (E) `ErrorsPropagate`: business code hands the errors of Execute back.  The
  run `caught_replay` is the counterexample without it.
* (S) `OneCallPerSignal`: no two Signal calls name the same signal.  The run
  `signal_lost` is the counterexample.
* (R) `Retriers = {}`: nobody calls Retry.  The run `waiters_retry` is the
  counterexample.
* (L) `MaxCrashes = 0` and `Manuals = {}`: the property speaks of the Stop calls
  and workers of one process, which a crash replaces by new ones; and a RunOnce
  is no worker: Stop does not wait for it, and it may register a timer after
  Stop has returned.

### Arguments: one run

`TypeOK` of `WorkflowContext` is not inductive: Advance looks up the successor of
a step, so a run in progress has to be at a step (`StepTypes`), what it commits
has to be an entry, and a run not in progress has to have its cursor at 0, or
Load would leave it beyond the log.

`Faithful` is the types, `LogIsWalk`, `RunAligned` and that no run has failed for
divergence.  `ReplayFollowsRecording` alone says nothing about where a run is
that has consumed its history and is about to add to it; `RunAligned` does: while
run() executes, its journal is the log, and its place in the function (`step`,
and for Await which half) is the place the consumed prefix leads to in the
version the log was recorded with, whatever has been registered since.  Then an
entry under the cursor was recorded by the call at hand (`CallFits`), so consume
never sees another kind; an entry committed at the end of the log extends the
walk (`WalkExtends`), also when the Append is reported as failed; and a function
that has returned has nothing left to read, because the place `Nil` fits no
entry.  A run that leaves (suspended, interrupted, crashed) forgets its place,
and Load starts at the entry of the same version again.

`CopyInv` and `RunnerInv` are what run() may rely on whatever business code does
with errors.  The working copy is the log, or the run has consumed all of it and
the log has results of Execute besides that were reported as not stored, at most
one per failed store call (`CopyInv`); such results come after decided calls
only, never between a Sleep or an Await and its deadline or between Return and
the end.  run() executes live instances only, and the result in its hands is the
one on record (`RunnerInv`).  `ShutdownInv` says that from the moment an error
comes up under the cancelled context until run() has judged it, the context
stays cancelled: only a restart ends that, and it ends the run too.  `DeadlineInv` adds what is known between reading a deadline and
acting on it: a run past a Sleep has seen its deadline pass, an Await about to
time out holds the deadline that was just recorded.  `WakeInv` adds that the two
deadlines the context carries belong to the call at hand; here the walk is
needed, since only it says which call recorded the last entry.  `SignalInv` says
that the slot, and the payload in an Await's hands, are the newest payload, so
Ack deletes what was recorded.  For `EffectsBounded` the number of recorded
results is a cardinality, which grows by one when an entry is appended
(`ExecsAppend`).

`RunImplementsWalk`: of the steps of `WorkflowContext`, an Append that reaches the
log is a decision of `Execution` (`DecideStep`, also when it is reported as
failed), the write of a final status is its end (`FinishStep`), and every other
step changes nothing that `Execution` sees (`WalkStep`).  Decisions are those of
the function because the run is aligned; an ended run has walked to the end
because consume has reached the end of the log.

### Arguments: the engine

For types it takes that a process about a run knows which, and so does every
timer goroutine (`OnRuns`, `HandleRuns`).  `LockInv` is exclusion together with:
whoever is between Acquire and Release has the lock set.  It is needed because
Release asks nobody: it is harmless only because the lock it frees is the
caller's own.  `KindInv` says which labels each kind of process goes through, and
the lemma `Actor` that a step of one process leaves the locals of the others
alone.

`RunInv` adds what a holder knows of its run (`Knows`): the status it has read
or written is still the status when it acts on it.  Exclusion is what keeps this
knowledge fresh (`OthersKnow`), and from it follow the guards that the code does
not repeat: Cancel writes its audit entry to a run it has cancelled, run() marks
only live runs, Retry resets only failed ones.  Each step that changes a status
is then a step of `Lifecycle` by the holder.

`WakeInv` strengthens `WakeupPending`: a process that holds a sleeping run counts
only at the labels where it will still look at the run or schedule its wakeup
(`gate`, `mark`, `fail`, `wakeup`); a holder at `notify` or `release` is no reason to
expect one.  It needs `RegisteredIsArmed`, or a registered timer would be no
wakeup, and that the queue is closed only after the context is cancelled.
`StopInv` accounts for the Stop call that closed the queue: it is on its way, has
reported an error, or has left everything quiet; every later one may return nil
at once because of it.  For WaitDone, `Registered` says that a registration
belongs to a call in progress, `Known` that a call that is neither registered nor
told is in the hands of a process about to close its channel, `Told` that a
terminal run with registered waiters has its teller.

### Arguments: time

`TakeoverNeedsOverrun` is not inductive: a state with one holder and no lease
would let a second in.  `LeaseInv` adds that, as long as nobody has overrun, a
holder's lease is there and is its own (`expiry` is `since` plus `Lease`) and
has not run out, and that no two processes hold.  So Acquire, which needs
an expired lease, finds no holder; Release finds only the releasing process; and
an Advance that ends a holder's lease sets `overran`.

`AttemptInv` relates calls of `fn` to the failures counted in the policy object,
which is the caller's own clone, or a `NoRetry` that all share and that counts
nothing.  `AttemptsExact` is an action property: `AskPolicy` decides by the
counter, and the invariant says the counter is the number of calls less one.  `TimeInv` is a budget: as long as nobody is late, the
time since Acquire is at most calls * timeout + failures * the longest wait, and
by `AttemptInv` that is within `WorstCase`, which is less than the lease.  It rests on
the cap of delayFor (`WaitCapped`), and that on the products of the backoff loop
being positive (`PowersPositive`).  `Powers` is a recursive function; that a
function satisfies its defining equation, and what its values are, is proved
without an induction rule, by way of the least counterexample (`Smallest`, from
the library's `WFMin`).  `TimerInv` says that the timers of a waiting process are
those of this wait, set for its end.

### Only model-checked

Liveness, which is outside the prover's reach: `EventuallyTerminal`,
`StopReturns`, `WaitersReturn`, `SleepersWake`, `SignalsHeard`, `RunsComplete`.
Every invariant, action property and refinement of the passing runs is a theorem.

## 6. Mutants

Each property of a passing run has a mutant: an operator `Mut...` beside the
definition it changes, which breaks the property when it takes its place.  They
are the bugs the code guards against: ignoring the version, not recording
Return's argument, recomputing a deadline, taking the signal out on Fetch,
clearing whatever timer is registered, notifying after a suspension, scanning
for one status only, and so on.

## 7. Not modelled

* Serialisation: a payload is a value; results that cannot be marshalled or
  unmarshalled are not modelled, nor is `Input`.
* The delays of a policy as numbers of float64: the model computes them in
  integers, so rounding and the overflow of a very long backoff are left out.
* `Engine` lets a lease expire only when its holder is gone, which is the
  condition docs/track.md (section 4.3) puts on deployments; `LeasedExecute` is
  where that condition is dropped.
* In `Engine` the store calls that fail are those of run(), Release and the audit
  Append; an API call whose first store call fails has changed nothing.
* One engine process; more than one would differ in the memory they share
  (timers, waiters), not in the lock and the store.
* `After` of a duration that is not positive: no caller asks for one.
* The cancellation of a RunOnce caller's context.
* `RunSync`, `NoAutoRecover` and other test hooks: they make a test
  deterministic and add no behaviour.  Options fill in a configuration.  Metrics
  and logging are write-only; the queue-depth gauge, which can lag behind the
  queue, is listed as a hazard.
* The main programs of the examples, which call the modelled API in sequence and
  print.

## 8. Plan

The parts of the code that keep state and can be checked are modelled, and the
safety properties of the passing runs are proved.  Left:

1. More about replay: that two runs of the same log at the same version reach
   the same place, as a statement about `Program` alone.
2. The retry policies: delays never decrease up to the cap, by the same
   least-counterexample argument as `PowersPositive`.
3. The hypotheses of section 5 weakened where the code gives more: `SignalsKept`
   for signals whose calls do not overlap an Await, `WaitDoneAnswers` for Retry
   calls of other runs.
