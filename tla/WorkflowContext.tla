--------------------------- MODULE WorkflowContext ---------------------------
(***************************************************************************)
(* Deterministic replay of one run: the primitives of                      *)
(* src/engine/context.go driven by run() of src/engine/runner.go, over a   *)
(* store whose calls may fail and a process that may be shut down, crash   *)
(* and restart, possibly with other code.                                  *)
(*                                                                         *)
(* An action is what the code does from one store or clock call to the     *)
(* next, so a crash, a Signal or the passing of time can fall between any  *)
(* two of them.  The per-run lock is not modelled here: at most one run()  *)
(* of the instance executes (module Engine shows that).                    *)
(***************************************************************************)
EXTENDS Program, FiniteSets

CONSTANTS
  Target,       \* Target[p]: the signal the Signal call with payload p names
  MaxCrashes,   \* bound: process crashes
  MaxFaults,    \* bound: failed store calls
  MaxRetries    \* bound: calls of the Retry API

ASSUME BoundsAssumption ==
  /\ Target \in [Payloads -> Signals]
  /\ MaxCrashes \in Nat /\ MaxFaults \in Nat /\ MaxRetries \in Nat

VARIABLES
  (* persistent: the store and the clock *)
  log, meta, mailbox, now,
  (* volatile: the process, its run() and its WorkflowContext *)
  deployed, ctxDone, pc, cause, journal, cursor, step, pending,
  sleepDeadline, awaitDeadline, returnData,
  (* Signal calls, one per payload *)
  sent, pushed,
  (* history: the newest payload pushed per signal; successful calls of fn *)
  newest, effects,
  (* bounded environment events *)
  crashes, faults, retries

storeVars  == <<log, meta, mailbox>>
wfVars     == <<journal, cursor, step, pending, sleepDeadline, awaitDeadline, returnData>>
procVars   == <<deployed, ctxDone>>
signalVars == <<sent, pushed, newest>>
boundVars  == <<crashes, faults, retries>>
vars == <<storeVars, now, procVars, pc, cause, wfVars, signalVars, effects, boundVars>>

NoEntry   == [kind |-> Nil, val |-> Nil, by |-> Nil]
NoVersion == "unregistered"

Statuses == {"Running", "Awaiting", "Succeeded", "Failed", "Cancelled"}
Terminal == meta.status \in {"Succeeded", "Failed", "Cancelled"}

\* Why a run is, or is about to be, failed, or was cancelled.  The error business
\* code returns is "interrupted" if it came up while the engine's context was
\* cancelled.
Causes == {"", "error", "interrupted", "mismatch", "drift", "version", "not_found", "reason"}

PCs == {"idle", "mark", "call", "outcome", "commit", "check", "expire", "ack",
        "suspend", "succeed", "error", "fail"}

-----------------------------------------------------------------------------
(* The state right after Start has persisted the instance. *)

Init ==
  /\ log = << >>
  /\ \E v \in Versions :
       /\ meta = [status |-> "Running", version |-> v, output |-> Nil, err |-> ""]
       /\ deployed = v
  /\ mailbox = [g \in Signals |-> Nil]
  /\ now = 0
  /\ ctxDone = FALSE
  /\ pc = "idle" /\ cause = ""
  /\ journal = << >> /\ cursor = 0 /\ step = Nil /\ pending = NoEntry
  /\ sleepDeadline = 0 /\ awaitDeadline = 0 /\ returnData = Nil
  /\ sent = {} /\ pushed = {}
  /\ newest = [g \in Signals |-> Nil]
  /\ effects = 0
  /\ crashes = 0 /\ faults = 0 /\ retries = 0

-----------------------------------------------------------------------------
(* Building blocks. *)

\* The WorkflowContext is not used any more.
Drop ==
  /\ journal' = << >> /\ cursor' = 0 /\ step' = Nil /\ pending' = NoEntry
  /\ sleepDeadline' = 0 /\ awaitDeadline' = 0 /\ returnData' = Nil

\* run() returns.
Leave == pc' = "idle" /\ cause' = "" /\ Drop

\* Business code returns an error.
ErrorCause == IF ctxDone THEN "interrupted" ELSE "error"

\* The primitive at step returns r to business code, which moves on.
Advance(r) ==
  LET t == Succ[step][r]
  IN  /\ step'  = IF t \in Steps THEN t ELSE step
      /\ pc'    = CASE t \in Steps -> "call" [] t = Nil -> "succeed" [] OTHER -> "error"
      /\ cause' = IF t = Fail THEN ErrorCause ELSE cause

\* Execute returns an error that business code does not hand back but handles.
Handled ==
  /\ Op[step] = "Execute" /\ Succ[step][Err] # Fail
  /\ Advance(Err)

\* wf.consume: the entry under the cursor, when it is of a kind the call wants.
Hit(stage) ==
  /\ cursor < Len(journal)
  /\ journal[cursor + 1].kind \in Want(step, stage)

\* wf.consume at the end of the history: the call runs for the first time.
Exhausted == cursor = Len(journal)

\* Where wf.commit leaves the cursor in the extended journal.  (Mutant: one
\* too far.)
MutPastEnd(j) == Len(j) + 1
End(j) == Len(j)

\* The deadline a replayed Sleep or Await works with.  (Mutant: computed anew.)
MutNewDeadline(e) == now + Delay[e.by]
Restored(e) == e.val

\* deadline.Sub(now) <= 0.  (Mutant: one unit early.)
MutDueEarly(d) == d <= now + 1
Due(d) == d <= now

\* The awaitDeadline of an Await without a timeout.  (Mutant: what an earlier
\* Await left behind.)
MutStaleDeadline == awaitDeadline
ZeroDeadline == 0

\* Fetch leaves the signal in its slot.  (Mutant: it takes it.)
MutFetchTakes(g) == [mailbox EXCEPT ![g] = Nil]
Fetched(g) == mailbox

\* Ack deletes whatever the slot holds.
Acked(g) == [mailbox EXCEPT ![g] = Nil]

\* Failed, but only because the engine is closing.  (Mutant: not asked.)
MutNotClosing == FALSE
Closing == ctxDone

\* The code at hand is the code the instance was started with.  (Mutant: any
\* registered code will do.)
MutAnyVersion == deployed # NoVersion
SameVersion == deployed = meta.version

\* failOnJournalDrift: entries are left unread when the function is done.
\* (Mutant: not looked at.)
MutNoDriftCheck == FALSE
Drifted == cursor # Len(journal)

\* Hand an entry to wf.commit.
Record(kind, val) ==
  /\ pending' = [kind |-> kind, val |-> val, by |-> step]
  /\ pc' = "commit"

\* One store call fails.
Fault == faults < MaxFaults /\ faults' = faults + 1

-----------------------------------------------------------------------------
(* run(), up to the call of the workflow function. *)

\* Gate on the status, look the workflow up, compare versions, Read the log.
Load ==
  /\ pc = "idle" /\ ~Terminal
  /\ \/ /\ SameVersion
        /\ journal' = log
        /\ step' = Entry[deployed]
        /\ pc' = "mark"
        /\ UNCHANGED cause
     \/ /\ ~SameVersion
        /\ pc' = "fail"
        /\ cause' = IF deployed = NoVersion THEN "not_found" ELSE "version"
        /\ UNCHANGED <<journal, step>>
  /\ UNCHANGED <<storeVars, now, procVars, cursor, pending, sleepDeadline, awaitDeadline,
                 returnData, signalVars, effects, boundVars>>

MarkRunning ==
  /\ pc = "mark"
  /\ meta' = [meta EXCEPT !.status = "Running"]
  /\ pc' = "call"
  /\ UNCHANGED <<log, mailbox, now, procVars, cause, wfVars, signalVars, effects, boundVars>>

-----------------------------------------------------------------------------
(* The primitives. *)

\* wf.consume finds an entry of another kind: ErrJournalMismatch, which ends
\* the function unless the call is an Execute whose errors are handled.
Mismatch ==
  /\ pc \in {"call", "outcome"}
  /\ cursor < Len(journal) /\ ~Hit(pc)
  /\ \/ pc' = "error" /\ cause' = "mismatch" /\ UNCHANGED step
     \/ Handled
  /\ UNCHANGED <<storeVars, now, procVars, journal, cursor, pending, sleepDeadline,
                 awaitDeadline, returnData, signalVars, effects, boundVars>>

\* Execute finds its result in the history and skips fn.
ExecuteReplay ==
  /\ pc = "call" /\ Op[step] = "Execute" /\ Hit("call")
  /\ cursor' = cursor + 1
  /\ Advance(journal[cursor + 1].val)
  /\ UNCHANGED <<storeVars, now, procVars, journal, pending, sleepDeadline, awaitDeadline,
                 returnData, signalVars, effects, boundVars>>

\* executeWithPolicy: fn succeeds, or the policy gives up on its error, or the
\* engine's context is done before fn is called.  Attempts that are retried
\* change nothing.  A panic of fn ends the whole function with an error.
ExecuteFn ==
  /\ pc = "call" /\ Op[step] = "Execute" /\ Exhausted
  /\ \/ \E v \in Values :
          /\ ~ctxDone
          /\ effects' = effects + 1
          /\ Record("exec", v)
          /\ UNCHANGED <<cause, step>>
     \/ /\ Advance(Err)
        /\ UNCHANGED <<effects, pending>>
     \/ /\ ~ctxDone
        /\ pc' = "error" /\ cause' = "error"
        /\ UNCHANGED <<effects, pending, step>>
  /\ UNCHANGED <<storeVars, now, procVars, journal, cursor, sleepDeadline, awaitDeadline,
                 returnData, signalVars, boundVars>>

\* Sleep restores its deadline from the history, or computes and records it.
SleepReplay ==
  /\ pc = "call" /\ Op[step] = "Sleep" /\ Hit("call")
  /\ cursor' = cursor + 1
  /\ sleepDeadline' = Restored(journal[cursor + 1])
  /\ pc' = "check"
  /\ UNCHANGED <<storeVars, now, procVars, cause, journal, step, pending, awaitDeadline,
                 returnData, signalVars, effects, boundVars>>

SleepFirst ==
  /\ pc = "call" /\ Op[step] = "Sleep" /\ Exhausted
  /\ Record("sleep", now + Delay[step])
  /\ UNCHANGED <<storeVars, now, procVars, cause, journal, cursor, step, sleepDeadline,
                 awaitDeadline, returnData, signalVars, effects, boundVars>>

\* The deadline against the clock: go on, or suspend with ErrSleeping.
SleepCheck ==
  /\ pc = "check"
  /\ \/ Due(sleepDeadline) /\ Advance(Nil)
     \/ ~Due(sleepDeadline) /\ pc' = "suspend" /\ UNCHANGED <<step, cause>>
  /\ UNCHANGED <<storeVars, now, procVars, journal, cursor, pending, sleepDeadline,
                 awaitDeadline, returnData, signalVars, effects, boundVars>>

\* Await without a timeout clears what an earlier Await left behind.
AwaitNoTimeout ==
  /\ pc = "call" /\ Op[step] = "Await" /\ Delay[step] = 0
  /\ awaitDeadline' = ZeroDeadline
  /\ pc' = "outcome"
  /\ UNCHANGED <<storeVars, now, procVars, cause, journal, cursor, step, pending,
                 sleepDeadline, returnData, signalVars, effects, boundVars>>

\* Await with a timeout restores its deadline, or computes and records it.
AwaitDeadlineReplay ==
  /\ pc = "call" /\ Op[step] = "Await" /\ Delay[step] > 0 /\ Hit("call")
  /\ cursor' = cursor + 1
  /\ awaitDeadline' = Restored(journal[cursor + 1])
  /\ pc' = "outcome"
  /\ UNCHANGED <<storeVars, now, procVars, cause, journal, step, pending, sleepDeadline,
                 returnData, signalVars, effects, boundVars>>

AwaitDeadlineFirst ==
  /\ pc = "call" /\ Op[step] = "Await" /\ Delay[step] > 0 /\ Exhausted
  /\ Record("await_deadline", now + Delay[step])
  /\ UNCHANGED <<storeVars, now, procVars, cause, journal, cursor, step, sleepDeadline,
                 awaitDeadline, returnData, signalVars, effects, boundVars>>

\* A decided Await: the payload or the timeout comes from the history.
AwaitReplay ==
  /\ pc = "outcome" /\ Hit("outcome")
  /\ cursor' = cursor + 1
  /\ Advance(ResultOf(journal[cursor + 1]))
  /\ UNCHANGED <<storeVars, now, procVars, journal, pending, sleepDeadline, awaitDeadline,
                 returnData, signalVars, effects, boundVars>>

\* An undecided Await: one Fetch.
AwaitFetch ==
  /\ pc = "outcome" /\ Exhausted
  /\ LET p == mailbox[SignalOf[step]]
     IN  \/ p # Nil /\ Record("await", p)
         \/ p = Nil /\ pc' = "expire" /\ UNCHANGED pending
  /\ mailbox' = Fetched(SignalOf[step])
  /\ UNCHANGED <<log, meta, now, procVars, cause, journal, cursor, step, sleepDeadline,
                 awaitDeadline, returnData, signalVars, effects, boundVars>>

\* No signal: decide the timeout once the deadline has passed, else suspend.
AwaitExpire ==
  /\ pc = "expire"
  /\ \/ /\ Delay[step] > 0 /\ Due(awaitDeadline)
        /\ Record("await_timeout", Nil)
     \/ /\ ~(Delay[step] > 0 /\ Due(awaitDeadline))
        /\ pc' = "suspend"
        /\ UNCHANGED pending
  /\ UNCHANGED <<storeVars, now, procVars, cause, journal, cursor, step, sleepDeadline,
                 awaitDeadline, returnData, signalVars, effects, boundVars>>

\* The signal is deleted once its consumption is on record.
AwaitAck ==
  /\ pc = "ack"
  /\ mailbox' = Acked(SignalOf[step])
  /\ Advance(journal[cursor].val)
  /\ UNCHANGED <<log, meta, now, procVars, journal, cursor, pending, sleepDeadline,
                 awaitDeadline, returnData, signalVars, effects, boundVars>>

\* Ack fails: logged, and the workflow goes on.
AwaitAckFails ==
  /\ pc = "ack" /\ Fault
  /\ Advance(journal[cursor].val)
  /\ UNCHANGED <<storeVars, now, procVars, journal, cursor, pending, sleepDeadline,
                 awaitDeadline, returnData, signalVars, effects, crashes, retries>>

ReturnReplay ==
  /\ pc = "call" /\ Op[step] = "Return" /\ Hit("call")
  /\ cursor' = cursor + 1
  /\ returnData' = journal[cursor + 1].val
  /\ pc' = "succeed"
  /\ UNCHANGED <<storeVars, now, procVars, cause, journal, step, pending, sleepDeadline,
                 awaitDeadline, signalVars, effects, boundVars>>

\* Mutant: the result is not put on record.
MutReturnUnrecorded ==
  /\ pc = "call" /\ Op[step] = "Return" /\ Exhausted
  /\ returnData' \in Values
  /\ pc' = "succeed"
  /\ UNCHANGED <<storeVars, now, procVars, cause, journal, cursor, step, pending,
                 sleepDeadline, awaitDeadline, signalVars, effects, boundVars>>
\* The argument may come from a source the log does not cover (time.Now).
ReturnFirst ==
  /\ pc = "call" /\ Op[step] = "Return" /\ Exhausted
  /\ \E v \in Values : Record("return", v)
  /\ UNCHANGED <<storeVars, now, procVars, cause, journal, cursor, step, sleepDeadline,
                 awaitDeadline, returnData, signalVars, effects, boundVars>>

\* wf.commit: Append, extend the working copy, put the cursor at its end; then
\* the primitive continues with what it just recorded.
Commit ==
  /\ pc = "commit"
  /\ log' = Append(log, pending)
  /\ journal' = Append(journal, pending)
  /\ cursor' = End(journal')
  /\ pending' = NoEntry
  /\ sleepDeadline' = IF pending.kind = "sleep" THEN pending.val ELSE sleepDeadline
  /\ awaitDeadline' = IF pending.kind = "await_deadline" THEN pending.val ELSE awaitDeadline
  /\ returnData' = IF pending.kind = "return" THEN pending.val ELSE returnData
  /\ \/ pending.kind \in {"exec", "await_timeout"} /\ Advance(ResultOf(pending))
     \/ pending.kind = "sleep" /\ pc' = "check" /\ UNCHANGED <<step, cause>>
     \/ pending.kind = "await_deadline" /\ pc' = "outcome" /\ UNCHANGED <<step, cause>>
     \/ pending.kind = "await" /\ pc' = "ack" /\ UNCHANGED <<step, cause>>
     \/ pending.kind = "return" /\ pc' = "succeed" /\ UNCHANGED <<step, cause>>
  /\ UNCHANGED <<meta, mailbox, now, procVars, signalVars, effects, boundVars>>

\* Append or Fetch reports an error: storageError, handed back by business
\* code, and the run stays Running for Recover.  A remote store may have
\* written the entry all the same.
StorageError ==
  /\ Fault
  /\ \/ pc = "commit" /\ log' \in {log, Append(log, pending)}
     \/ pc = "outcome" /\ Exhausted /\ UNCHANGED log
  /\ Leave
  /\ UNCHANGED <<meta, mailbox, now, procVars, signalVars, effects, crashes, retries>>

\* The storageError of an Execute reaches business code that handles it: the
\* run goes on, and its working copy lacks an entry the log may have.
StorageErrorHandled ==
  /\ pc = "commit" /\ pending.kind = "exec" /\ Fault
  /\ log' \in {log, Append(log, pending)}
  /\ pending' = NoEntry
  /\ Handled
  /\ UNCHANGED <<meta, mailbox, now, procVars, journal, cursor, sleepDeadline, awaitDeadline,
                 returnData, signalVars, effects, crashes, retries>>

-----------------------------------------------------------------------------
(* run(), after the workflow function returned. *)

\* ErrSleeping / ErrAwaiting: mark Awaiting and schedule the wakeup.
Suspend ==
  /\ pc = "suspend"
  /\ meta' = [meta EXCEPT !.status = "Awaiting"]
  /\ Leave
  /\ UNCHANGED <<log, mailbox, now, procVars, signalVars, effects, boundVars>>

\* nil / ErrReturn: the history must have been consumed to its end.
Succeed ==
  /\ pc = "succeed"
  /\ \/ /\ ~Drifted
        /\ meta' = [meta EXCEPT !.status = "Succeeded", !.err = "",
                                !.output = IF returnData = Nil THEN @ ELSE returnData]
     \/ /\ Drifted
        /\ meta' = [meta EXCEPT !.status = "Failed", !.err = "drift"]
  /\ Leave
  /\ UNCHANGED <<log, mailbox, now, procVars, signalVars, effects, boundVars>>

\* Another error.  While the engine is shutting down it is put down to that
\* and the run is left for Recover.
Interrupted ==
  /\ pc = "error" /\ Closing
  /\ Leave
  /\ UNCHANGED <<storeVars, now, procVars, signalVars, effects, boundVars>>

\* Otherwise run() is going to fail the instance, also if Stop comes now.
BusinessError ==
  /\ pc = "error" /\ ~Closing
  /\ pc' = "fail" /\ Drop
  /\ UNCHANGED <<storeVars, now, procVars, cause, signalVars, effects, boundVars>>

\* fail(): the status and the error are written.
FailRun ==
  /\ pc = "fail"
  /\ meta' = [meta EXCEPT !.status = "Failed", !.err = cause]
  /\ Leave
  /\ UNCHANGED <<log, mailbox, now, procVars, signalVars, effects, boundVars>>

\* UpdateStatus fails in run(), succeed() or fail(): the run is left as it was.
StatusWriteFails ==
  /\ pc \in {"mark", "suspend", "succeed", "fail"}
  /\ Fault
  /\ Leave
  /\ UNCHANGED <<storeVars, now, procVars, signalVars, effects, crashes, retries>>

-----------------------------------------------------------------------------
(* The API and the environment. *)

\* Mutant: a retried instance starts with an empty log.
MutRetryAfresh ==
  /\ pc = "idle" /\ meta.status = "Failed" /\ retries < MaxRetries
  /\ retries' = retries + 1
  /\ meta' = [meta EXCEPT !.status = "Running", !.err = "", !.output = Nil]
  /\ log' = << >>
  /\ UNCHANGED <<mailbox, now, procVars, pc, cause, wfVars, signalVars, effects, crashes,
                 faults>>
\* Retry resets a Failed instance; its log stays.
Retry ==
  /\ pc = "idle" /\ meta.status = "Failed" /\ retries < MaxRetries
  /\ retries' = retries + 1
  /\ meta' = [meta EXCEPT !.status = "Running", !.err = "", !.output = Nil]
  /\ UNCHANGED <<log, mailbox, now, procVars, pc, cause, wfVars, signalVars, effects,
                 crashes, faults>>

\* Cancel ends an instance that is not executing.  The audit entry it appends
\* afterwards is never replayed (run() skips a terminal instance) and is left
\* to module Engine.
Cancel ==
  /\ pc = "idle" /\ ~Terminal
  /\ meta' = [meta EXCEPT !.status = "Cancelled", !.err = "reason"]
  /\ UNCHANGED <<log, mailbox, now, procVars, pc, cause, wfVars, signalVars, effects, boundVars>>

\* Signal reads the status first; a terminal instance ignores the signal.
SignalCheck(p) ==
  /\ p \notin sent /\ ~Terminal
  /\ sent' = sent \cup {p}
  /\ UNCHANGED <<storeVars, now, procVars, pc, cause, wfVars, pushed, newest, effects, boundVars>>

\* Then it stores the payload over whatever the slot holds.
SignalPush(p) ==
  /\ p \in sent \ pushed
  /\ pushed' = pushed \cup {p}
  /\ mailbox' = [mailbox EXCEPT ![Target[p]] = p]
  /\ newest' = [newest EXCEPT ![Target[p]] = p]
  /\ UNCHANGED <<log, meta, now, procVars, pc, cause, wfVars, sent, effects, boundVars>>

\* Register replaces the workflow of that name at any time; a run in flight
\* goes on with the function it has looked up.
Register ==
  /\ \E v \in Versions \ {deployed} : deployed' = v
  /\ UNCHANGED <<storeVars, now, ctxDone, pc, cause, wfVars, signalVars, effects, boundVars>>

\* Stop cancels the engine's context; the run in flight, and the tasks the
\* workers still drain, see it cancelled.
Shutdown ==
  /\ ~ctxDone
  /\ ctxDone' = TRUE
  /\ UNCHANGED <<storeVars, now, deployed, pc, cause, wfVars, signalVars, effects, boundVars>>

\* The process dies (after a Stop, or not) and restarts with some code
\* registered.  Signal calls between their two steps die with it.
Crash ==
  /\ crashes < MaxCrashes
  /\ crashes' = crashes + 1
  /\ deployed' \in Versions \cup {NoVersion}
  /\ ctxDone' = FALSE
  /\ sent' = pushed
  /\ Leave
  /\ UNCHANGED <<storeVars, now, pushed, newest, effects, faults, retries>>

\* Deadlines that have not passed yet.  The clock matters only to them, so it
\* moves only while there are some.
Deadlines ==
  LET timed == {"sleep", "await_deadline"}
  IN  { log[i].val : i \in { j \in 1..Len(log) : log[j].kind \in timed } }
        \cup { e.val : e \in { x \in {pending} : x.kind \in timed } }
Tick ==
  /\ \E d \in Deadlines : d > now
  /\ now' = now + 1
  /\ UNCHANGED <<storeVars, procVars, pc, cause, wfVars, signalVars, effects, boundVars>>

-----------------------------------------------------------------------------

Primitive ==
  \/ Mismatch
  \/ ExecuteReplay \/ ExecuteFn
  \/ SleepReplay \/ SleepFirst \/ SleepCheck
  \/ AwaitNoTimeout \/ AwaitDeadlineReplay \/ AwaitDeadlineFirst
  \/ AwaitReplay \/ AwaitFetch \/ AwaitExpire \/ AwaitAck
  \/ ReturnReplay \/ ReturnFirst
  \/ Commit

Run ==
  \/ Load \/ MarkRunning \/ Primitive
  \/ Suspend \/ Succeed \/ Interrupted \/ BusinessError \/ FailRun

StoreFailure == AwaitAckFails \/ StorageError \/ StorageErrorHandled \/ StatusWriteFails

Environment ==
  \/ Cancel \/ Retry \/ Register \/ Shutdown \/ Crash \/ Tick
  \/ \E p \in Payloads : SignalCheck(p) \/ SignalPush(p)

Next == Run \/ StoreFailure \/ Environment

Spec == Init /\ [][Next]_vars

\* Recover and the wakeups keep dispatching a live instance and a dispatched
\* run goes on; time passes.  Nothing forces faults, crashes or signals.
FairSpec == Spec /\ WF_vars(Run) /\ WF_vars(Tick)

-----------------------------------------------------------------------------
(* Properties. *)

\* The type of every variable.
TypeOK ==
  /\ log \in Seq(LogEntry) /\ journal \in Seq(LogEntry)
  /\ meta \in [status : Statuses, version : Versions, output : Values \cup {Nil}, err : Causes]
  /\ mailbox \in [Signals -> Payloads \cup {Nil}]
  /\ newest \in [Signals -> Payloads \cup {Nil}]
  /\ deployed \in Versions \cup {NoVersion} /\ ctxDone \in BOOLEAN
  /\ pc \in PCs /\ cause \in Causes
  /\ cursor \in 0..Len(journal) /\ step \in Steps \cup {Nil}
  /\ pending \in LogEntry \cup {NoEntry}
  /\ returnData \in Values \cup {Nil}
  /\ now \in Nat /\ sleepDeadline \in Nat /\ awaitDeadline \in Nat
  /\ sent \subseteq Payloads /\ pushed \subseteq sent
  /\ effects \in Nat /\ crashes \in Nat /\ faults \in Nat /\ retries \in Nat

\* Replay follows the recording: whenever a primitive is about to consume an
\* entry of the history, that entry was recorded by this very call (consume
\* itself only compares kinds), so no run is failed for divergence.
ReplayFollowsRecording ==
  /\ pc \in {"call", "outcome"} /\ cursor < Len(journal)
       => Fits(journal[cursor + 1], [step |-> step, stage |-> pc])
  /\ meta.err \notin {"mismatch", "drift"}

\* The log is at all times a walk of the version the instance started with.
LogIsWalk ==
  \A i \in 1..Len(log) : Fits(log[i], Reached(log, i - 1, meta.version))

\* Where the run in progress is, in terms of its journal: the inductive
\* strengthening of ReplayFollowsRecording.  While run() executes, its working
\* copy is the log, and its place in the function is the place the consumed
\* entries lead to in the code the log was recorded with.
InRun == pc \notin {"idle", "fail"}
Here  == Reached(journal, cursor, meta.version)
RunAligned ==
  /\ InRun => journal = log /\ step \in Steps
  /\ ~InRun \/ pc = "mark" => cursor = 0
  /\ pc = "mark" => step = Entry[meta.version]
  /\ pc = "call" => Here = [step |-> step, stage |-> "call"]
  /\ pc \in {"outcome", "expire"} =>
       /\ Op[step] = "Await"
       /\ Here = [step |-> step, stage |-> IF Delay[step] = 0 THEN "call" ELSE "outcome"]
  /\ pc = "expire" => cursor = Len(journal)
  /\ pc = "commit" => /\ pending \in LogEntry /\ pending.by = step
                      /\ cursor = Len(journal) /\ Fits(pending, Here)
  /\ pc = "check" => cursor > 0 /\ journal[cursor].kind = "sleep" /\ journal[cursor].by = step
  /\ pc = "ack" => /\ cursor > 0 /\ cursor = Len(journal)
                   /\ journal[cursor].kind = "await" /\ journal[cursor].by = step
  /\ pc = "succeed" => Here.step = Nil
  /\ cause \notin {"mismatch", "drift"}

\* The output of a succeeded run is the recorded argument of Return, however
\* often Return was called again with another one.
OutputIsRecorded ==
  meta.output # Nil =>
    /\ meta.status = "Succeeded"
    /\ log # << >>
    /\ log[Len(log)].kind = "return" /\ log[Len(log)].val = meta.output

\* No step after a Sleep, and no timeout branch, is taken before the recorded
\* deadline, whatever suspensions, crashes and replays lie in between.
DeadlinesRespected ==
  \A i \in 1..Len(log) :
    /\ log[i].kind = "sleep" /\ i < Len(log) => log[i].val <= now
    /\ log[i].kind = "await_timeout" =>
         i > 1 /\ log[i-1].kind = "await_deadline" /\ log[i-1].val <= now

\* The wakeup a suspending run asks for is the deadline of the call it is
\* suspended in, and none if that call waits for a signal only: never the
\* leftover of an earlier call.
WakeupIsCurrent ==
  pc = "suspend" =>
    LET deadline == IF Op[step] = "Sleep" THEN sleepDeadline ELSE awaitDeadline
    IN  IF Delay[step] = 0 /\ Op[step] = "Await"
        THEN deadline = 0
        ELSE journal # << >> /\ journal[Len(journal)].by = step
               /\ deadline = journal[Len(journal)].val

\* fn succeeds once per recorded result: a second success of the same step
\* takes a crash or a failed store call between fn and the log.
EffectsBounded ==
  LET recorded == Cardinality({ i \in 1..Len(log) : log[i].kind = "exec" })
      inFlight == IF pc = "commit" /\ pending.kind = "exec" THEN 1 ELSE 0
  IN  /\ recorded + inFlight <= effects
      /\ effects <= recorded + inFlight + crashes + faults

\* The newest payload pushed for a signal is in the mailbox until the log
\* says it was consumed.
NewestSignalKept ==
  \A g \in Signals :
    newest[g] # Nil =>
      \/ mailbox[g] = newest[g]
      \/ \E i \in 1..Len(log) : log[i].kind = "await" /\ log[i].val = newest[g]

\* One Signal call satisfies at most one Await.
ConsumedOnce ==
  \A i, j \in 1..Len(log) :
    log[i].kind = "await" /\ log[j].kind = "await" /\ log[i].val = log[j].val => i = j

\* What failOnJournalDrift ensures: however business code handles errors and
\* replay diverges, a run declared a success has walked every recorded step, but
\* for entries whose Append was reported as failed: at most one for every store
\* call that reported a failure.
UnreadIsReported ==
  [][meta.status # "Succeeded" /\ meta'.status = "Succeeded" => Len(log) - cursor <= faults]_vars

\* Shutting the engine down never fails a run: an error that came up while
\* the engine's context was cancelled is on no instance, however the rest of
\* run(), Stop and a restart fall around it.
ShutdownIsNotFailure == meta.err # "interrupted"

\* A run whose Awaits all have timeouts reaches a terminal status, provided
\* the engine is not left shut down.
EventuallyTerminal == []<>~ctxDone => <>Terminal

\* The run implements the crash-free walk of its function.
Walk == INSTANCE Execution WITH
  version <- meta.version,
  trail   <- log,
  outcome <- IF Terminal THEN meta.status ELSE "live",
  output  <- meta.output

ImplementsExecution == Walk!ExecSpec
=============================================================================
