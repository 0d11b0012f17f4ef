--------------------------- MODULE ExecutionProofs ---------------------------
(***************************************************************************)
(* What a run promises beyond following its recording: the output is the   *)
(* recorded one, deadlines hold across replays, a wakeup is that of the    *)
(* call the run is suspended in, effects and signals are accounted for,    *)
(* and the run implements the crash-free walk of its function (Execution). *)
(***************************************************************************)
EXTENDS ReplayProofs, FiniteSetTheorems

-----------------------------------------------------------------------------
(* The shape of a step. *)

\* Labels run() is at while the workflow function executes.
Inside == {"call", "outcome", "commit", "check", "expire", "ack"}

\* A result found in the history is handed to business code, which moves on.
LEMMA ReplayAdvances ==
  ASSUME TypeInv, ExecuteReplay \/ AwaitReplay
  PROVE  /\ journal[cursor + 1] \in LogEntry
         /\ journal[cursor + 1].kind \in {"exec", "await", "await_timeout"}
         /\ pc' \in {"call", "succeed", "error"}
<1> DEFINE e == journal[cursor + 1]
<1>1. TypeOK /\ StepTypes /\ pc \in {"call", "outcome"} /\ step \in Steps
  BY DEF TypeInv, StepTypes, InRun, ExecuteReplay, AwaitReplay
<1>2. e \in LogEntry /\ e.kind \in Want(step, pc)
  BY <1>1 DEF ExecuteReplay, AwaitReplay, Hit, TypeOK
<1>3. e.kind \in {"exec", "await", "await_timeout"}
  <2>1. CASE ExecuteReplay
    BY <2>1, <1>1, <1>2, WantKinds DEF ExecuteReplay
  <2>2. CASE AwaitReplay
    <3>1. pc = "outcome" /\ Op[step] = "Await"
      BY <2>2, <1>1 DEF AwaitReplay, StepTypes
    <3>2. Want(step, "outcome") \subseteq {"await", "await_timeout"}
      BY <3>1, <1>1, WantKinds
    <3>3. QED
      BY <3>1, <3>2, <1>2
  <2>3. QED
    BY <2>1, <2>2
<1>4. ResultOf(e) \in Results /\ (e.kind = "exec" => e.val \in Results)
  BY <1>2, <1>3, ResultOfType DEF LogEntry, Results
<1>5. PICK r \in Results : Advance(r)
  BY <1>1, <1>2, <1>4, WantKinds DEF ExecuteReplay, AwaitReplay
<1>6. QED
  BY <1>1, <1>2, <1>3, <1>5, AdvanceType

\* The payload of an acknowledged signal is handed to business code.
LEMMA AckAdvances ==
  ASSUME TypeInv, AwaitAck \/ AwaitAckFails
  PROVE  /\ pc = "ack" /\ journal[cursor].kind = "await"
         /\ pc' \in {"call", "succeed", "error"}
<1>1. pc = "ack" /\ step \in Steps /\ Advance(journal[cursor].val)
  BY DEF AwaitAck, AwaitAckFails, TypeInv, StepTypes, InRun
<1>2. journal[cursor] \in LogEntry /\ journal[cursor].kind = "await"
  BY <1>1 DEF TypeInv, TypeOK, StepTypes
<1>3. journal[cursor].val \in Results
  BY <1>2 DEF LogEntry, Results
<1>4. QED
  BY <1>1, <1>2, <1>3, AdvanceType

\* A mismatch ends the function, or is the error of an Execute that business
\* code handles.
LEMMA MismatchMoves ==
  ASSUME TypeInv, Mismatch
  PROVE  /\ pc \in {"call", "outcome"}
         /\ \/ pc' = "error" /\ cause' = "mismatch"
            \/ pc = "call" /\ pc' \in {"call", "succeed"} /\ cause' = cause
<1>1. step \in Steps /\ pc \in {"call", "outcome"} /\ (pc = "outcome" => Op[step] = "Await")
  BY DEF Mismatch, TypeInv, StepTypes, InRun
<1>2. QED
  BY <1>1, HandledType DEF Mismatch

\* The storage error of an Execute is handled: the run goes on, and at most
\* the entry it was committing has reached the log.
LEMMA HandledMoves ==
  ASSUME TypeInv, StorageErrorHandled
  PROVE  /\ pc = "commit" /\ pending \in LogEntry /\ pending.kind = "exec"
         /\ pc' \in {"call", "succeed"} /\ faults' = faults + 1
         /\ log' = log \/ log' = Append(log, pending)
         /\ UNCHANGED <<meta, mailbox, now, ctxDone, cause, journal, cursor, sleepDeadline,
                        awaitDeadline, returnData, sent, pushed, newest, effects, crashes>>
<1>1. pc = "commit" /\ step \in Steps /\ pending \in LogEntry
  BY DEF StorageErrorHandled, TypeInv, StepTypes, InRun
<1>2. QED
  BY <1>1, HandledType DEF StorageErrorHandled, Fault, procVars, signalVars

\* wf.commit hands the entry back to the primitive that recorded it.
LEMMA CommitMoves ==
  ASSUME TypeInv, Commit
  PROVE  /\ pc = "commit" /\ pending \in LogEntry /\ step \in Steps
         /\ pc' \in {"call", "succeed", "error", "check", "outcome", "ack"}
         /\ pc' = "check" <=> pending.kind = "sleep"
         /\ pc' = "outcome" <=> pending.kind = "await_deadline"
         /\ pc' = "ack" <=> pending.kind = "await"
<1>1. pc = "commit" /\ pending \in LogEntry /\ step \in Steps
  BY DEF Commit, TypeInv, StepTypes, InRun
<1>2. CASE pending.kind \in {"exec", "await_timeout"}
  <2>1. Advance(ResultOf(pending))
    BY <1>2 DEF Commit
  <2>2. pc' \in {"call", "succeed", "error"}
    BY <2>1, <1>1, <1>2, ResultOfType, AdvanceType
  <2>3. QED
    BY <2>2, <1>1, <1>2
<1>3. CASE pending.kind \notin {"exec", "await_timeout"}
  BY <1>1, <1>3 DEF Commit
<1>4. QED
  BY <1>2, <1>3

\* A primitive touches neither the instance's metadata nor the clock, and
\* leaves the run inside the function or at one of the ways out of it.
LEMMA PrimitiveMoves ==
  ASSUME TypeInv, Primitive \/ AwaitAckFails
  PROVE  /\ pc \in Inside /\ pc' \in Inside \cup {"suspend", "succeed", "error"}
         /\ UNCHANGED <<meta, now, ctxDone>>
         /\ pc # "commit" => UNCHANGED <<log, journal>>
         /\ pc # "commit" /\ ~ReturnReplay => returnData' = returnData
<1> USE DEF storeVars, wfVars, procVars, Inside
<1>1. TypeOK /\ StepTypes /\ (pc \in Inside => step \in Steps)
  BY DEF TypeInv, StepTypes, InRun
<1>2. CASE Mismatch \/ SleepReplay \/ AwaitNoTimeout \/ AwaitDeadlineReplay \/ ReturnReplay
  <2>1. CASE Mismatch
    BY <2>1, <1>1, MismatchMoves DEF Mismatch
  <2>2. CASE ~Mismatch
    BY <1>2, <2>2 DEF SleepReplay, AwaitNoTimeout, AwaitDeadlineReplay, ReturnReplay
  <2>3. QED
    BY <2>1, <2>2
<1>3. CASE SleepFirst \/ AwaitDeadlineFirst \/ AwaitFetch \/ AwaitExpire \/ ReturnFirst
  BY <1>3 DEF SleepFirst, AwaitDeadlineFirst, AwaitFetch, AwaitExpire, ReturnFirst, Record
<1>4. CASE ExecuteReplay \/ AwaitReplay
  <2>1. pc' \in {"call", "succeed", "error"}
    BY <1>4, ReplayAdvances
  <2>2. QED
    BY <2>1, <1>4 DEF ExecuteReplay, AwaitReplay
<1>5. CASE ExecuteFn
  <2>1. Err \in Results
    BY DEF Results
  <2>2. pc' \in {"commit", "call", "succeed", "error"}
    BY <2>1, <1>1, <1>5, AdvanceType DEF ExecuteFn, Record
  <2>3. QED
    BY <2>2, <1>5 DEF ExecuteFn
<1>6. CASE SleepCheck
  <2>1. Nil \in Results
    BY DEF Results
  <2>2. pc' \in {"suspend", "call", "succeed", "error"}
    BY <2>1, <1>1, <1>6, AdvanceType DEF SleepCheck
  <2>3. QED
    BY <2>2, <1>6 DEF SleepCheck
<1>7. CASE AwaitAck \/ AwaitAckFails
  BY <1>7, AckAdvances DEF AwaitAck, AwaitAckFails
<1>8. CASE Commit
  BY <1>8, CommitMoves DEF Commit
<1>9. QED
  BY <1>2, <1>3, <1>4, <1>5, <1>6, <1>7, <1>8 DEF Primitive

\* run() returns, or dies with its process.
Ends == \/ Suspend \/ Succeed \/ FailRun \/ Interrupted \/ StatusWriteFails
        \/ StorageError \/ Crash

\* Something other than the run moves, or nothing does.
Aside == \/ Register \/ Shutdown \/ Tick \/ UNCHANGED vars
         \/ \E p \in Payloads : SignalCheck(p) \/ SignalPush(p)

\* Every step is one of these.
LEMMA StepKinds ==
  ASSUME [Next]_vars
  PROVE  \/ Load \/ MarkRunning \/ Primitive \/ AwaitAckFails \/ StorageErrorHandled
         \/ Ends \/ BusinessError \/ Cancel \/ Retry \/ Aside
BY DEF Next, Run, StoreFailure, Environment, Ends, Aside

\* A step aside leaves the instance and its run alone, and the clock never
\* goes back.
LEMMA AsideStays ==
  ASSUME TypeInv, Aside
  PROVE  /\ UNCHANGED <<log, meta, pc, cause, effects, faults, crashes>> /\ UNCHANGED wfVars
         /\ now' \in Nat /\ now <= now' /\ (ctxDone => ctxDone')
<1> USE DEF procVars
<1>1. now \in Nat
  BY DEF TypeInv, TypeOK
<1>2. CASE Register
  BY <1>1, <1>2 DEF Register, storeVars, boundVars
<1>3. CASE Shutdown
  BY <1>1, <1>3 DEF Shutdown, storeVars, boundVars
<1>4. CASE Tick
  BY <1>1, <1>4 DEF Tick, storeVars, boundVars
<1>5. CASE UNCHANGED vars
  BY <1>1, <1>5 DEF vars, storeVars, boundVars
<1>6. CASE \E p \in Payloads : SignalCheck(p) \/ SignalPush(p)
  BY <1>1, <1>6 DEF SignalCheck, SignalPush, storeVars, boundVars
<1>7. QED
  BY <1>2, <1>3, <1>4, <1>5, <1>6 DEF Aside

\* When run() ends, its context is gone, and all it may still have written is
\* the entry it was committing.
LEMMA EndsLeave ==
  ASSUME TypeInv, Ends
  PROVE  /\ Leave /\ now' = now /\ effects' = effects
         /\ \/ log' = log
            \/ pc = "commit" /\ pending \in LogEntry /\ log' = Append(log, pending) /\ meta' = meta
         /\ ~(Suspend \/ Succeed \/ FailRun) => meta' = meta
<1>1. StepTypes
  BY DEF TypeInv
<1>2. QED
  BY <1>1 DEF Ends, Suspend, Succeed, FailRun, Interrupted, StatusWriteFails, StorageError, Crash,
              storeVars, StepTypes

-----------------------------------------------------------------------------
(* The working copy. *)

\* The last entry the run has consumed or committed is of kind k.
Last(k) == cursor > 0 /\ journal[cursor].kind = k

\* The newest entry of the log.
Tip == log[Len(log)]

\* What the working copy of a run is worth, whatever business code does with
\* errors.  It is the log, or the run is at its end and the log has results of
\* Execute besides, which were reported as not stored: no more of them than
\* failed store calls, and none right after an entry whose call goes on.
CopyInv ==
  /\ InRun => \/ journal = log
              \/ /\ cursor = Len(journal) /\ log # << >>
                 /\ Tip.kind = "exec" \/ (cursor > 0 /\ Tip = journal[cursor])
  /\ InRun => Len(log) <= Len(journal) + faults
  /\ pc = "mark" => cursor = 0
  /\ pc = "check" => Last("sleep")
  /\ pc \in {"commit", "expire", "ack"} => cursor = Len(journal)
  /\ pc = "call" \/ (pc = "commit" /\ pending.kind = "exec")
       => ~Last("await_deadline") /\ ~Last("return")
  /\ InRun /\ cursor = Len(journal) /\ (Last("await_deadline") \/ Last("return") \/ pc = "ack")
       => log # << >> /\ Tip = journal[cursor]

\* A new instance has no run.
LEMMA CopyInit == Init => CopyInv
<1>1. Init => pc = "idle"
  BY Zenon DEF Init
<1>2. QED
  BY <1>1 DEF CopyInv, InRun

\* Every step keeps it.
LEMMA CopyStep ==
  ASSUME TypeInv, CopyInv, [Next]_vars
  PROVE  CopyInv'
<1> USE DEF InRun, Inside, storeVars, wfVars
<1>1. /\ log \in Seq(LogEntry) /\ journal \in Seq(LogEntry) /\ faults \in Nat
      /\ cursor \in 0..Len(journal) /\ Len(journal) \in Nat /\ Len(log) \in Nat /\ cursor \in Nat
      /\ (pc \in Inside => step \in Steps /\ Delay[step] \in Nat)
  BY ProgramAssumption DEF TypeInv, TypeOK, StepTypes
<1>2. CASE Load
  <2>1. /\ UNCHANGED <<log, faults>> /\ cursor' = 0
        /\ pc' = "fail" \/ (pc' = "mark" /\ journal' = log)
    BY <1>2 DEF Load, TypeInv, StepTypes, boundVars
  <2>2. QED
    BY <2>1, <1>1 DEF CopyInv, Last
<1>3. CASE MarkRunning
  <2>1. pc = "mark" /\ pc' = "call" /\ UNCHANGED <<log, journal, cursor, faults>>
    BY <1>3 DEF MarkRunning, boundVars
  <2>2. QED
    BY <2>1 DEF CopyInv, Last, Tip
<1>4. CASE ExecuteReplay \/ AwaitReplay \/ SleepReplay \/ AwaitDeadlineReplay \/ ReturnReplay
  <2>1. /\ pc \in {"call", "outcome"} /\ cursor < Len(journal) /\ cursor' = cursor + 1
        /\ UNCHANGED <<log, journal, faults>> /\ journal[cursor + 1].kind \in Want(step, pc)
    BY <1>4 DEF ExecuteReplay, AwaitReplay, SleepReplay, AwaitDeadlineReplay, ReturnReplay, Hit,
                boundVars
  <2>2. /\ pc' \in {"call", "succeed", "error", "check", "outcome"}
        /\ pc' = "call" => journal[cursor + 1].kind \in {"exec", "await", "await_timeout"}
        /\ pc' = "check" => journal[cursor + 1].kind = "sleep"
    <3>1. CASE ExecuteReplay \/ AwaitReplay
      BY <3>1, ReplayAdvances
    <3>2. CASE SleepReplay
      BY <3>2, <2>1, <1>1, WantKinds DEF SleepReplay
    <3>3. CASE AwaitDeadlineReplay \/ ReturnReplay
      BY <3>3 DEF AwaitDeadlineReplay, ReturnReplay
    <3>4. QED
      BY <3>1, <3>2, <3>3, <1>4
  <2>3. journal = log /\ log # << >> /\ cursor' > 0
    BY <2>1, <1>1 DEF CopyInv
  <2>4. cursor' = Len(journal') => Tip' = journal'[cursor']
    BY <2>1, <2>3 DEF Tip
  <2>5. QED
    BY <2>1, <2>2, <2>3, <2>4, <1>1 DEF CopyInv, Last
<1>5. CASE /\ Primitive \/ AwaitAckFails
           /\ ~Commit
           /\ ~(ExecuteReplay \/ AwaitReplay \/ SleepReplay \/ AwaitDeadlineReplay \/ ReturnReplay)
  <2>1. /\ UNCHANGED <<log, journal, cursor>> /\ faults <= faults' /\ faults' \in Nat
        /\ pc \in Inside
    BY <1>1, <1>5 DEF Primitive, Mismatch, ExecuteFn, SleepFirst, SleepCheck, AwaitNoTimeout,
         AwaitDeadlineFirst, AwaitFetch, AwaitExpire, AwaitAck, AwaitAckFails, ReturnFirst,
         boundVars, Fault
  <2>2. /\ pc' \in (Inside \ {"check", "ack"}) \cup {"suspend", "succeed", "error"}
        /\ pc' \in {"commit", "expire"} => cursor = Len(journal)
        /\ pc' = "call" \/ (pc' = "commit" /\ pending'.kind = "exec") => pc \in {"call", "check", "ack"}
    <3>1. Err \in Results /\ Nil \in Results
      BY DEF Results
    <3>2. CASE Mismatch
      BY <3>2, MismatchMoves
    <3>3. CASE ExecuteFn
      BY <3>1, <3>3, <1>1, AdvanceType DEF ExecuteFn, Record, Exhausted
    <3>4. CASE SleepCheck
      BY <3>1, <3>4, <1>1, AdvanceType DEF SleepCheck
    <3>5. CASE AwaitAck \/ AwaitAckFails
      BY <3>5, AckAdvances
    <3>6. CASE SleepFirst \/ AwaitDeadlineFirst \/ ReturnFirst \/ AwaitFetch \/ AwaitNoTimeout
      BY <3>6 DEF SleepFirst, AwaitDeadlineFirst, ReturnFirst, AwaitFetch, AwaitNoTimeout, Record,
                  Exhausted
    <3>7. CASE AwaitExpire
      BY <3>7 DEF AwaitExpire, Record, CopyInv
    <3>8. QED
      BY <3>2, <3>3, <3>4, <3>5, <3>6, <3>7, <1>5 DEF Primitive
  <2>3. pc \in {"call", "check", "ack"} => ~Last("await_deadline") /\ ~Last("return")
    BY DEF CopyInv, Last, TypeInv, StepTypes
  <2>4. QED
    BY <2>1, <2>2, <2>3, <1>1 DEF CopyInv, Last, Tip
<1>6. CASE Commit
  <2>1. /\ pc = "commit" /\ pending \in LogEntry /\ log' = Append(log, pending)
        /\ journal' = Append(journal, pending) /\ cursor' = Len(journal') /\ faults' = faults
    BY <1>6, CommitMoves DEF Commit, End, boundVars
  <2>2. /\ Len(log') = Len(log) + 1 /\ Len(journal') = Len(journal) + 1 /\ log' # << >>
        /\ Tip' = pending /\ journal'[cursor'] = pending /\ cursor' > 0
    BY <2>1, <1>1 DEF Tip
  <2>3. /\ pc' \in {"call", "succeed", "error", "check", "outcome", "ack"}
        /\ pc' = "check" => pending.kind = "sleep"
        /\ pc' = "call" => pending.kind \in {"exec", "await_timeout"}
    BY <1>6, CommitMoves DEF Commit
  <2>4. QED
    BY <2>1, <2>2, <2>3, <1>1 DEF CopyInv, Last
<1>7. CASE StorageErrorHandled
  <2>1. /\ pc = "commit" /\ pending \in LogEntry /\ pending.kind = "exec"
        /\ pc' \in {"call", "succeed"} /\ faults' = faults + 1
        /\ log' = log \/ log' = Append(log, pending)
        /\ UNCHANGED <<journal, cursor>>
    BY <1>7, HandledMoves
  <2>2. cursor = Len(journal) /\ ~Last("await_deadline") /\ ~Last("return")
    BY <2>1 DEF CopyInv
  <2>3. CASE log' = log
    BY <2>1, <2>2, <2>3, <1>1 DEF CopyInv, Last, Tip
  <2>4. CASE log' = Append(log, pending)
    <3>1. Len(log') = Len(log) + 1 /\ log' # << >> /\ Tip' = pending
      BY <2>1, <2>4, <1>1 DEF Tip
    <3>2. QED
      BY <3>1, <2>1, <2>2, <1>1 DEF CopyInv, Last
  <2>5. QED
    BY <2>1, <2>3, <2>4
<1>8. CASE Ends \/ BusinessError \/ Cancel \/ Retry
  <2>1. pc' \in {"idle", "fail"}
    BY <1>8, EndsLeave DEF Leave, BusinessError, Cancel, Retry
  <2>2. QED
    BY <2>1 DEF CopyInv
<1>9. CASE Aside
  <2>1. UNCHANGED <<log, pc, journal, cursor, pending, faults>>
    BY <1>9, AsideStays
  <2>2. QED
    BY <2>1 DEF CopyInv, Last, Tip
<1>10. QED
  BY <1>2, <1>3, <1>4, <1>5, <1>6, <1>7, <1>8, <1>9, StepKinds DEF Primitive

-----------------------------------------------------------------------------
(* Output, success and shutdown. *)

\* What run() relies on between its steps: it executes a live instance only,
\* and the result in its hands is the one its working copy has.
RunnerInv ==
  /\ pc # "idle" => ~Terminal
  /\ returnData # Nil =>
       /\ pc = "succeed" /\ cursor > 0
       /\ journal[cursor].kind = "return" /\ journal[cursor].val = returnData
  /\ OutputIsRecorded

\* A new instance has no output and no run.
LEMMA RunnerInit == Init => RunnerInv
<1>1. SUFFICES ASSUME Init PROVE RunnerInv
  OBVIOUS
<1>2. pc = "idle" /\ returnData = Nil
  BY <1>1, Zenon DEF Init
<1>3. PICK v \in Versions :
        meta = [status |-> "Running", version |-> v, output |-> Nil, err |-> ""]
  BY <1>1, Zenon DEF Init
<1>4. QED
  BY <1>2, <1>3 DEF RunnerInv, OutputIsRecorded, InRun

\* Every step keeps it.
LEMMA RunnerInvStep ==
  ASSUME TypeInv, CopyInv, RunnerInv, [Next]_vars
  PROVE  RunnerInv'
<1> USE DEF InRun, Terminal
<1>1. /\ meta \in [status : Statuses, version : Versions, output : Values \cup {Nil}, err : Causes]
      /\ log \in Seq(LogEntry) /\ journal \in Seq(LogEntry)
      /\ cursor \in 0..Len(journal) /\ Len(journal) \in Nat
  BY DEF TypeInv, TypeOK
<1>2. meta.status # "Succeeded" => meta.output = Nil
  BY DEF RunnerInv, OutputIsRecorded
<1>3. CASE Load
  <2>1. /\ UNCHANGED <<log, meta, returnData>> /\ pc = "idle" /\ ~Terminal
    BY <1>3 DEF Load, storeVars
  <2>2. QED
    BY <2>1 DEF RunnerInv, OutputIsRecorded
<1>4. CASE MarkRunning
  <2>1. pc = "mark" /\ pc' = "call" /\ UNCHANGED <<log, journal, returnData>>
    BY <1>4 DEF MarkRunning, wfVars
  <2>2. meta'.status = "Running" /\ meta'.output = meta.output
    BY <1>1, <1>4 DEF MarkRunning
  <2>3. QED
    BY <2>1, <2>2, <1>2 DEF RunnerInv, OutputIsRecorded
<1>5. CASE Commit
  <2>1. pc = "commit" /\ pc' \in Inside \cup {"suspend", "succeed", "error"} /\ meta' = meta
    BY <1>5, PrimitiveMoves DEF Commit, Primitive
  <2>2. returnData = Nil /\ pending \in LogEntry /\ ~Terminal
    BY <2>1 DEF RunnerInv, TypeInv, StepTypes
  <2>3. log' = Append(log, pending) /\ journal' = Append(journal, pending) /\ cursor' = Len(journal')
    BY <1>5 DEF Commit, End
  <2>4. cursor' > 0 /\ journal'[cursor'] = pending
    BY <2>2, <2>3, <1>1
  <2>5. returnData' # Nil => pending.kind = "return" /\ returnData' = pending.val /\ pc' = "succeed"
    BY <2>2, <1>5 DEF Commit
  <2>6. QED
    BY <2>1, <2>2, <2>3, <2>4, <2>5, <1>2 DEF RunnerInv, OutputIsRecorded, Inside
<1>6. CASE ReturnReplay
  <2>1. /\ pc = "call" /\ pc' = "succeed" /\ UNCHANGED <<meta, log, journal>>
        /\ cursor' = cursor + 1 /\ cursor < Len(journal)
        /\ returnData' = journal[cursor + 1].val
    BY <1>6 DEF ReturnReplay, Hit, storeVars
  <2>2. journal[cursor + 1].kind = "return"
    BY <1>6, WantKinds DEF ReturnReplay, Hit, TypeInv, StepTypes
  <2>3. QED
    BY <2>1, <2>2, <1>1 DEF RunnerInv, OutputIsRecorded
<1>7. CASE (Primitive \/ AwaitAckFails) /\ ~Commit /\ ~ReturnReplay
  <2>1. /\ pc \in Inside \ {"commit"} /\ pc' \in Inside \cup {"suspend", "succeed", "error"}
        /\ UNCHANGED <<meta, log, journal, returnData>>
    <3>1. pc # "commit"
      BY <1>7 DEF Primitive, Mismatch, ExecuteReplay, ExecuteFn, SleepReplay, SleepFirst,
             SleepCheck, AwaitNoTimeout, AwaitDeadlineReplay, AwaitDeadlineFirst, AwaitReplay,
             AwaitFetch, AwaitExpire, AwaitAck, AwaitAckFails, ReturnFirst
    <3>2. QED
      BY <3>1, <1>7, PrimitiveMoves
  <2>2. QED
    BY <2>1 DEF RunnerInv, OutputIsRecorded, Inside
<1>8. CASE Ends
  <2>1. pc' = "idle" /\ returnData' = Nil
    BY <1>8, EndsLeave DEF Leave, Drop
  <2>2. OutputIsRecorded'
    <3>1. CASE Succeed
      <4>1. pc = "succeed" /\ meta.output = Nil /\ log' = log
        BY <3>1, <1>2 DEF Succeed, RunnerInv
      <4>2. CASE returnData = Nil \/ Drifted
        <5>1. meta'.output = Nil
          BY <4>1, <4>2, <3>1, <1>1 DEF Succeed
        <5>2. QED
          BY <5>1 DEF OutputIsRecorded
      <4>3. CASE returnData # Nil /\ ~Drifted
        <5>1. meta'.output = returnData /\ meta'.status = "Succeeded"
          BY <4>3, <3>1, <1>1 DEF Succeed
        <5>2. cursor = Len(journal) /\ Last("return") /\ journal[cursor].val = returnData
          BY <4>3 DEF RunnerInv, Drifted, Last
        <5>3. log # << >> /\ Tip.kind = "return" /\ Tip.val = returnData
          BY <5>2, <4>1 DEF CopyInv, Last
        <5>4. QED
          BY <5>1, <5>3, <4>1 DEF OutputIsRecorded, Tip
      <4>4. QED
        BY <4>2, <4>3
    <3>2. CASE Suspend \/ FailRun
      <4>1. pc # "idle" /\ meta'.output = meta.output
        BY <3>2, <1>1 DEF Suspend, FailRun
      <4>2. QED
        BY <4>1, <1>2 DEF OutputIsRecorded, RunnerInv
    <3>3. CASE ~(Suspend \/ Succeed \/ FailRun)
      <4>1. meta' = meta
        BY <3>3, <1>8, EndsLeave
      <4>2. CASE log' = log
        BY <4>1, <4>2 DEF OutputIsRecorded, RunnerInv
      <4>3. CASE pc = "commit"
        BY <4>1, <4>3, <1>2 DEF OutputIsRecorded, RunnerInv
      <4>4. QED
        BY <4>2, <4>3, <1>8, EndsLeave
    <3>4. QED
      BY <3>1, <3>2, <3>3
  <2>3. QED
    BY <2>1, <2>2 DEF RunnerInv
<1>9. CASE Cancel \/ Retry
  <2>1. pc = "idle" /\ pc' = "idle" /\ returnData' = returnData
    BY <1>9 DEF Cancel, Retry, wfVars
  <2>2. meta'.output = Nil
    BY <1>9, <1>1, <1>2 DEF Cancel, Retry
  <2>3. QED
    BY <2>1, <2>2 DEF RunnerInv, OutputIsRecorded
<1>10. CASE Aside
  <2>1. UNCHANGED <<log, meta, pc, cause>> /\ UNCHANGED wfVars
    BY <1>10, AsideStays
  <2>2. UNCHANGED <<journal, cursor, returnData>>
    BY <2>1 DEF wfVars
  <2>3. QED
    BY <2>1, <2>2 DEF RunnerInv, OutputIsRecorded
<1>11. CASE StorageErrorHandled
  <2>1. pc = "commit" /\ pc' \in {"call", "succeed"} /\ UNCHANGED <<meta, returnData>>
    BY <1>11, HandledMoves
  <2>2. returnData = Nil /\ meta.output = Nil
    BY <2>1, <1>2 DEF RunnerInv
  <2>3. QED
    BY <2>1, <2>2 DEF RunnerInv, OutputIsRecorded
<1>12. CASE BusinessError
  <2>1. pc = "error" /\ UNCHANGED <<log, meta>> /\ returnData' = Nil
    BY <1>12 DEF BusinessError, Drop, storeVars
  <2>2. QED
    BY <2>1 DEF RunnerInv, OutputIsRecorded
<1>13. QED
  BY <1>3, <1>4, <1>5, <1>6, <1>7, <1>8, <1>9, <1>10, <1>11, <1>12, StepKinds

\* The invariant of the theorems of this section.
LEMMA RunnerInvariant == Spec => [](TypeInv /\ CopyInv /\ RunnerInv)
<1>1. Init => TypeInv /\ CopyInv /\ RunnerInv
  BY TypeInit, CopyInit, RunnerInit
<1>2. (TypeInv /\ CopyInv /\ RunnerInv) /\ [Next]_vars => (TypeInv /\ CopyInv /\ RunnerInv)'
  BY TypeStep, CopyStep, RunnerInvStep
<1>3. QED
  BY <1>1, <1>2, PTL DEF Spec

\* The output of a succeeded run is what the last entry of its log says Return
\* was first called with, for every function, with or without error handling.
THEOREM OutputRecorded == Spec => []OutputIsRecorded
<1>1. RunnerInv => OutputIsRecorded
  BY DEF RunnerInv
<1>2. QED
  BY <1>1, RunnerInvariant, PTL

\* However business code handles errors and replay diverges, a run is declared
\* a success with at most as many entries of its log unwalked as store calls
\* have reported a failure.
THEOREM SuccessComplete == Spec => UnreadIsReported
<1>1. TypeInv /\ CopyInv /\ [Next]_vars
        => [meta.status # "Succeeded" /\ meta'.status = "Succeeded"
              => Len(log) - cursor <= faults]_vars
  <2>1. SUFFICES ASSUME TypeInv, CopyInv, [Next]_vars,
                        meta.status # "Succeeded", meta'.status = "Succeeded"
                 PROVE  Len(log) - cursor <= faults
    OBVIOUS
  <2>2. /\ meta \in [status : Statuses, version : Versions, output : Values \cup {Nil}, err : Causes]
        /\ Len(log) \in Nat /\ cursor \in Nat /\ faults \in Nat
    BY <2>1 DEF TypeInv, TypeOK
  <2>3. meta' # meta
    BY <2>1
  <2>4. ~(Suspend \/ FailRun \/ MarkRunning \/ Cancel \/ Retry)
    BY <2>1, <2>2 DEF Suspend, FailRun, MarkRunning, Cancel, Retry
  <2>5. ~(Load \/ Aside \/ Primitive \/ AwaitAckFails \/ StorageErrorHandled \/ BusinessError)
    BY <2>1, <2>3, AsideStays, PrimitiveMoves, HandledMoves DEF Load, BusinessError, storeVars
  <2>6. Succeed
    BY <2>1, <2>3, <2>4, <2>5, StepKinds, EndsLeave
  <2>7. ~Drifted /\ pc = "succeed"
    BY <2>1, <2>2, <2>6 DEF Succeed
  <2>8. cursor = Len(journal) /\ Len(log) <= Len(journal) + faults
    BY <2>1, <2>7 DEF Drifted, CopyInv, InRun
  <2>9. QED
    BY <2>2, <2>8
<1>2. QED
  BY <1>1, RunnerInvariant, PTL DEF Spec, UnreadIsReported

\* What keeps an interrupted run from being failed: from the moment the error
\* comes up under the cancelled context until run() has judged it, the context
\* stays cancelled.
ShutdownInv ==
  /\ cause = "interrupted" => pc = "error" /\ ctxDone
  /\ ShutdownIsNotFailure

\* Business code goes on, or an error comes up and is marked.
LEMMA AdvanceCause ==
  ASSUME NEW r, Advance(r)
  PROVE  cause' = cause \/ (cause' \in {"interrupted", "error"} /\ (cause' = "interrupted" => ctxDone))
BY DEF Advance, ErrorCause

\* Every step keeps it.
LEMMA ShutdownStep ==
  ASSUME TypeInv, ShutdownInv, [Next]_vars
  PROVE  ShutdownInv'
<1> USE DEF storeVars, wfVars, Inside
<1>1. meta \in [status : Statuses, version : Versions, output : Values \cup {Nil}, err : Causes]
  BY DEF TypeInv, TypeOK
<1>2. CASE Load
  <2>1. pc = "idle" /\ meta' = meta /\ cause' \in {cause, "not_found", "version"}
    BY <1>2 DEF Load
  <2>2. QED
    BY <2>1 DEF ShutdownInv, ShutdownIsNotFailure
<1>3. CASE MarkRunning
  <2>1. pc = "mark" /\ cause' = cause /\ meta'.err = meta.err
    BY <1>1, <1>3 DEF MarkRunning
  <2>2. QED
    BY <2>1 DEF ShutdownInv, ShutdownIsNotFailure
<1>4. CASE Primitive \/ AwaitAckFails \/ StorageErrorHandled
  <2>1. pc \in Inside /\ UNCHANGED <<meta, ctxDone>> /\ cause # "interrupted"
    BY <1>4, PrimitiveMoves, HandledMoves DEF ShutdownInv
  <2>2. \/ cause' \in {cause, "mismatch", "error"}
        \/ /\ \E r : Advance(r)
           /\ cause' = "interrupted" => ctxDone
    <3>1. CASE \E r : Advance(r)
      BY <3>1, AdvanceCause
    <3>2. CASE ~(\E r : Advance(r))
      <4>1. ~Handled
        BY <3>2 DEF Handled
      <4>2. CASE Mismatch \/ ExecuteReplay \/ ExecuteFn \/ AwaitReplay \/ AwaitAck \/ AwaitAckFails
        BY <3>2, <4>1, <4>2 DEF Mismatch, ExecuteReplay, ExecuteFn, AwaitReplay, AwaitAck, AwaitAckFails
      <4>3. CASE Commit \/ SleepCheck \/ StorageErrorHandled
        BY <3>2, <4>1, <4>3 DEF Commit, SleepCheck, StorageErrorHandled
      <4>4. CASE \/ SleepReplay \/ SleepFirst \/ AwaitNoTimeout \/ AwaitDeadlineReplay
                 \/ AwaitDeadlineFirst \/ AwaitFetch \/ AwaitExpire \/ ReturnReplay \/ ReturnFirst
        BY <4>4 DEF SleepReplay, SleepFirst, AwaitNoTimeout, AwaitDeadlineReplay,
                    AwaitDeadlineFirst, AwaitFetch, AwaitExpire, ReturnReplay, ReturnFirst
      <4>5. QED
        BY <4>2, <4>3, <4>4, <1>4 DEF Primitive
    <3>3. QED
      BY <3>1, <3>2
  <2>3. cause' = "interrupted" => pc' = "error" /\ ctxDone
    <3>1. SUFFICES ASSUME cause' = "interrupted" PROVE pc' = "error" /\ ctxDone
      OBVIOUS
    <3>2. PICK r : Advance(r)
      BY <3>1, <2>1, <2>2
    <3>3. Succ[step][r] = Fail
      BY <3>1, <3>2, <2>1 DEF Advance
    <3>4. QED
      BY <3>1, <3>2, <3>3, <2>1, <2>2, ProgramAssumption DEF Advance, Fail, Nil
  <2>4. QED
    BY <2>1, <2>3 DEF ShutdownInv, ShutdownIsNotFailure
<1>5. CASE Ends
  <2>1. cause' = ""
    BY <1>5, EndsLeave DEF Leave
  <2>2. meta'.err # "interrupted"
    <3>1. CASE FailRun
      <4>1. pc = "fail" /\ meta'.err = cause
        BY <3>1, <1>1 DEF FailRun
      <4>2. QED
        BY <4>1 DEF ShutdownInv
    <3>2. CASE Suspend \/ Succeed
      <4>1. meta'.err \in {meta.err, "", "drift"}
        BY <3>2, <1>1 DEF Suspend, Succeed
      <4>2. QED
        BY <4>1 DEF ShutdownInv, ShutdownIsNotFailure
    <3>3. CASE ~(Suspend \/ Succeed \/ FailRun)
      BY <3>3, <1>5, EndsLeave DEF ShutdownInv, ShutdownIsNotFailure
    <3>4. QED
      BY <3>1, <3>2, <3>3
  <2>3. QED
    BY <2>1, <2>2 DEF ShutdownInv, ShutdownIsNotFailure
<1>6. CASE BusinessError
  <2>1. ~ctxDone /\ UNCHANGED <<meta, cause>>
    BY <1>6 DEF BusinessError, Closing
  <2>2. QED
    BY <2>1 DEF ShutdownInv, ShutdownIsNotFailure
<1>7. CASE Cancel \/ Retry
  <2>1. pc = "idle" /\ cause' = cause /\ meta'.err \in {meta.err, "", "reason"}
    BY <1>1, <1>7 DEF Cancel, Retry
  <2>2. QED
    BY <2>1 DEF ShutdownInv, ShutdownIsNotFailure
<1>8. CASE Aside
  BY <1>8, AsideStays DEF ShutdownInv, ShutdownIsNotFailure
<1>9. QED
  BY <1>2, <1>3, <1>4, <1>5, <1>6, <1>7, <1>8, StepKinds

\* No instance is ever failed with an error that came up while the engine's
\* context was cancelled, wherever Stop, the check of the context, the status
\* write, a crash and a restart fall.
THEOREM ShutdownHarmless == Spec => []ShutdownIsNotFailure
<1>1. Init => TypeInv /\ ShutdownInv
  <2>1. SUFFICES ASSUME Init PROVE ShutdownInv
    BY TypeInit
  <2>2. cause = ""
    BY <2>1, Zenon DEF Init
  <2>3. PICK v \in Versions :
          meta = [status |-> "Running", version |-> v, output |-> Nil, err |-> ""]
    BY <2>1, Zenon DEF Init
  <2>4. QED
    BY <2>2, <2>3 DEF ShutdownInv, ShutdownIsNotFailure
<1>2. (TypeInv /\ ShutdownInv) /\ [Next]_vars => (TypeInv /\ ShutdownInv)'
  BY TypeStep, ShutdownStep
<1>3. ShutdownInv => ShutdownIsNotFailure
  BY DEF ShutdownInv
<1>4. QED
  BY <1>1, <1>2, <1>3, PTL DEF Spec

-----------------------------------------------------------------------------
(* Deadlines. *)

\* What makes DeadlinesRespected inductive: a run that is past a Sleep has seen
\* its deadline pass, a run deciding an Await holds the deadline just recorded,
\* and a timeout about to be recorded comes right after a deadline that passed.
DeadlineInv ==
  /\ pc = "check" => Last("sleep") /\ sleepDeadline = journal[cursor].val
  /\ InRun /\ pc \notin {"check", "suspend"} /\ Last("sleep") => journal[cursor].val <= now
  /\ pc \in {"outcome", "expire"} /\ Delay[step] > 0 =>
       Last("await_deadline") /\ awaitDeadline = journal[cursor].val
  /\ pc = "commit" /\ pending.kind = "await_timeout" =>
       Last("await_deadline") /\ journal[cursor].val <= now
  /\ DeadlinesRespected

\* The log of a run stays within its deadlines when the entry being committed
\* is appended to it.
LEMMA DeadlinesAppend ==
  ASSUME TypeInv, CopyInv, DeadlineInv, pc = "commit",
         log' = Append(log, pending), now' = now
  PROVE  DeadlinesRespected'
<1>1. /\ pending \in LogEntry /\ Len(log) \in Nat /\ log \in Seq(LogEntry) /\ now \in Nat
  BY DEF TypeInv, TypeOK, StepTypes
<1>9. Len(log) > 0 /\ log[Len(log)].kind = "sleep" => log[Len(log)].val <= now
  <2>1. cursor = Len(journal) /\ InRun /\ (Last("sleep") => journal[cursor].val <= now)
    BY DEF CopyInv, DeadlineInv, InRun
  <2>2. CASE journal = log
    BY <2>1, <2>2 DEF Last
  <2>3. CASE journal # log
    <3>1. Tip.kind = "exec" \/ (cursor > 0 /\ Tip = journal[cursor])
      BY <2>1, <2>3 DEF CopyInv
    <3>2. QED
      BY <3>1, <2>1 DEF Last, Tip
  <2>4. QED
    BY <2>2, <2>3
<1>2. /\ Len(log') = Len(log) + 1 /\ log'[Len(log) + 1] = pending
      /\ \A i \in 1..Len(log) : log'[i] = log[i]
  BY <1>1, ReachedAppend
<1>3. \A i \in 1..Len(log) :
        /\ log[i].kind = "sleep" => log[i].val <= now
        /\ log[i].kind = "await_timeout" =>
             i > 1 /\ log[i-1].kind = "await_deadline" /\ log[i-1].val <= now
  <2>1. TAKE i \in 1..Len(log)
  <2>2. log[i].kind = "sleep" => log[i].val <= now
    <3>1. CASE i < Len(log)
      BY <3>1, <1>1 DEF DeadlineInv, DeadlinesRespected
    <3>2. CASE i = Len(log)
      BY <3>2, <1>1, <1>9
    <3>3. QED
      BY <3>1, <3>2, <1>1
  <2>3. QED
    BY <2>2 DEF DeadlineInv, DeadlinesRespected
<1>4. pending.kind = "await_timeout" =>
        Len(log) > 0 /\ log[Len(log)].kind = "await_deadline" /\ log[Len(log)].val <= now
  <2>1. SUFFICES ASSUME pending.kind = "await_timeout"
                 PROVE  Len(log) > 0 /\ Tip.kind = "await_deadline" /\ Tip.val <= now
    BY DEF Tip
  <2>2. Last("await_deadline") /\ journal[cursor].val <= now /\ cursor = Len(journal) /\ InRun
    BY <2>1 DEF DeadlineInv, CopyInv, InRun
  <2>3. log # << >> /\ Tip = journal[cursor]
    BY <2>2 DEF CopyInv
  <2>4. QED
    BY <2>2, <2>3, <1>1 DEF Last
<1>5. SUFFICES ASSUME NEW i \in 1..(Len(log) + 1)
               PROVE  /\ log'[i].kind = "sleep" /\ i < Len(log) + 1 => log'[i].val <= now
                      /\ log'[i].kind = "await_timeout" =>
                           i > 1 /\ log'[i-1].kind = "await_deadline" /\ log'[i-1].val <= now
  BY <1>1, <1>2 DEF DeadlinesRespected
<1>6. CASE i \in 1..Len(log)
  <2>1. log'[i] = log[i] /\ (i > 1 => log'[i-1] = log[i-1])
    BY <1>1, <1>2, <1>6
  <2>2. QED
    BY <2>1, <1>3, <1>6
<1>7. CASE i = Len(log) + 1
  <2>1. log'[i] = pending /\ i - 1 = Len(log)
    BY <1>1, <1>2, <1>7
  <2>2. Len(log) > 0 => i > 1 /\ log'[Len(log)] = log[Len(log)]
    BY <1>1, <1>2, <1>7
  <2>3. log'[i].kind = "await_timeout" =>
          i > 1 /\ log'[i-1].kind = "await_deadline" /\ log'[i-1].val <= now
    BY <2>1, <2>2, <1>4
  <2>4. QED
    BY <2>3, <1>1, <1>7
<1>8. QED
  BY <1>1, <1>6, <1>7

\* Nothing has been decided before its deadline in a new instance.
LEMMA DeadlineInit == Init => DeadlineInv
<1>1. SUFFICES ASSUME Init PROVE DeadlineInv
  OBVIOUS
<1>2. log = << >> /\ pc = "idle"
  BY <1>1, Zenon DEF Init
<1>3. Len(log) = 0
  BY <1>2, EmptyLog, Zenon
<1>4. QED
  BY <1>2, <1>3 DEF DeadlineInv, DeadlinesRespected, InRun

\* Every step keeps it.
LEMMA DeadlineStep ==
  ASSUME TypeInv, CopyInv, DeadlineInv, [Next]_vars
  PROVE  DeadlineInv'
<1> USE DEF InRun, Inside, storeVars, wfVars
<1>1. /\ log \in Seq(LogEntry) /\ journal \in Seq(LogEntry) /\ now \in Nat
      /\ cursor \in 0..Len(journal) /\ Len(journal) \in Nat /\ cursor \in Nat
      /\ (pc \in Inside => step \in Steps /\ Delay[step] \in Nat)
  BY ProgramAssumption DEF TypeInv, TypeOK, StepTypes
<1>2. DeadlinesRespected
  BY DEF DeadlineInv
<1>3. log' = log /\ now' = now => DeadlinesRespected'
  BY <1>2 DEF DeadlinesRespected
<1>4. CASE Load
  <2>1. UNCHANGED <<log, now>> /\ pc' \in {"mark", "fail"} /\ cursor' = 0
    BY <1>4 DEF Load, TypeInv, StepTypes
  <2>2. QED
    BY <2>1, <1>3 DEF DeadlineInv, Last
<1>5. CASE MarkRunning
  <2>1. pc = "mark" /\ pc' = "call" /\ UNCHANGED <<log, now, cursor>>
    BY <1>5 DEF MarkRunning
  <2>2. cursor' = 0
    BY <2>1 DEF CopyInv
  <2>3. QED
    BY <2>1, <2>2, <1>3 DEF DeadlineInv, Last
<1>6. CASE Mismatch
  <2>1. /\ pc \in {"call", "outcome"} /\ pc' \in {"error", "call", "succeed"}
        /\ UNCHANGED <<log, now, cursor, journal>>
    BY <1>6, MismatchMoves DEF Mismatch
  <2>2. QED
    BY <2>1, <1>3 DEF DeadlineInv, Last
<1>7. CASE ExecuteReplay \/ AwaitReplay \/ ReturnReplay
  <2>1. /\ pc \in {"call", "outcome"} /\ UNCHANGED <<log, now, journal>>
        /\ cursor' = cursor + 1 /\ journal[cursor + 1].kind \in Want(step, pc)
    BY <1>7 DEF ExecuteReplay, AwaitReplay, ReturnReplay, Hit
  <2>2. pc' \in {"call", "succeed", "error"}
    BY <1>7, ReplayAdvances DEF ReturnReplay
  <2>3. journal[cursor + 1].kind # "sleep"
    BY <2>1, <1>1, <1>7, ReplayAdvances, WantKinds DEF ReturnReplay
  <2>4. ~Last("sleep")'
    BY <2>1, <2>3 DEF Last
  <2>5. QED
    BY <2>1, <2>2, <2>4, <1>3 DEF DeadlineInv
<1>8. CASE ExecuteFn \/ SleepFirst \/ AwaitDeadlineFirst \/ ReturnFirst
  <2>1. pc = "call" /\ UNCHANGED <<log, now, journal, cursor>> /\ cursor = Len(journal)
    BY <1>8 DEF ExecuteFn, SleepFirst, AwaitDeadlineFirst, ReturnFirst, Exhausted
  <2>2. \/ pc' \in {"call", "succeed", "error"}
        \/ pc' = "commit" /\ pending'.kind # "await_timeout"
    <3>1. Err \in Results
      BY DEF Results
    <3>2. QED
      BY <3>1, <2>1, <1>1, <1>8, AdvanceType
      DEF ExecuteFn, SleepFirst, AwaitDeadlineFirst, ReturnFirst, Record
  <2>3. QED
    BY <2>1, <2>2, <1>3 DEF DeadlineInv, Last
<1>9. CASE SleepReplay
  <2>1. /\ pc = "call" /\ pc' = "check" /\ UNCHANGED <<log, now, journal>> /\ cursor' = cursor + 1
        /\ sleepDeadline' = journal[cursor + 1].val
    BY <1>9 DEF SleepReplay, Restored
  <2>2. journal[cursor + 1].kind = "sleep"
    BY <2>1, <1>1, <1>9, WantKinds DEF SleepReplay, Hit
  <2>3. QED
    BY <2>1, <2>2, <1>1, <1>3 DEF DeadlineInv, Last
<1>10. CASE SleepCheck
  <2>1. /\ pc = "check" /\ UNCHANGED <<log, now, journal, cursor>>
        /\ \/ pc' = "suspend"
           \/ sleepDeadline <= now /\ Advance(Nil)
    BY <1>10 DEF SleepCheck, Due
  <2>2. pc' = "suspend" \/ (pc' \in {"call", "succeed", "error"} /\ sleepDeadline <= now)
    <3>1. Nil \in Results
      BY DEF Results
    <3>2. QED
      BY <3>1, <2>1, <1>1, AdvanceType
  <2>3. QED
    BY <2>1, <2>2, <1>3 DEF DeadlineInv, Last
<1>11. CASE AwaitNoTimeout
  <2>1. /\ pc = "call" /\ pc' = "outcome" /\ UNCHANGED <<log, now, journal, cursor, step>>
        /\ Delay[step] = 0
    BY <1>11 DEF AwaitNoTimeout
  <2>2. QED
    BY <2>1, <1>3 DEF DeadlineInv, Last
<1>12. CASE AwaitDeadlineReplay
  <2>1. /\ pc = "call" /\ pc' = "outcome" /\ UNCHANGED <<log, now, journal>> /\ cursor' = cursor + 1
        /\ Op[step] = "Await" /\ Delay[step] # 0 /\ journal[cursor + 1].kind \in Want(step, "call")
        /\ awaitDeadline' = journal[cursor + 1].val
    BY <1>1, <1>12 DEF AwaitDeadlineReplay, Restored, Hit
  <2>2. journal[cursor + 1].kind = "await_deadline"
    BY <2>1, <1>1, WantKinds
  <2>3. QED
    BY <2>1, <2>2, <1>1, <1>3 DEF DeadlineInv, Last
<1>13. CASE AwaitFetch
  <2>1. /\ pc = "outcome" /\ UNCHANGED <<log, now, journal, cursor, step, awaitDeadline>>
        /\ cursor = Len(journal)
        /\ \/ pc' = "commit" /\ pending'.kind = "await"
           \/ pc' = "expire"
    BY <1>13 DEF AwaitFetch, Exhausted, Record
  <2>2. QED
    BY <2>1, <1>3 DEF DeadlineInv, Last
<1>14. CASE AwaitExpire
  <2>1. /\ pc = "expire" /\ UNCHANGED <<log, now, journal, cursor, step, awaitDeadline>>
        /\ \/ /\ pc' = "commit" /\ Delay[step] > 0 /\ awaitDeadline <= now
           \/ pc' = "suspend"
    BY <1>14 DEF AwaitExpire, Record, Due
  <2>2. QED
    BY <2>1, <1>3 DEF DeadlineInv, Last
<1>15. CASE AwaitAck \/ AwaitAckFails
  <2>1. UNCHANGED <<log, now, journal, cursor>>
    BY <1>15 DEF AwaitAck, AwaitAckFails
  <2>2. pc = "ack" /\ journal[cursor].kind = "await" /\ pc' \in {"call", "succeed", "error"}
    BY <1>15, AckAdvances
  <2>3. QED
    BY <2>1, <2>2, <1>3 DEF DeadlineInv, Last
<1>16. CASE Commit
  <2>1. pc = "commit" /\ pending \in LogEntry /\ now' = now /\ log' = Append(log, pending)
    BY <1>16 DEF Commit, TypeInv, StepTypes
  <2>2. DeadlinesRespected'
    BY <2>1, DeadlinesAppend
  <2>3. cursor' = Len(journal') /\ cursor' > 0 /\ journal'[cursor'] = pending
    BY <2>1, <1>1, <1>16 DEF Commit, End
  <2>4. /\ pc' \in {"call", "succeed", "error", "check", "outcome", "ack"}
        /\ pending.kind = "sleep" => pc' = "check" /\ sleepDeadline' = pending.val
        /\ pc' = "check" => pending.kind = "sleep"
        /\ pc' = "outcome" => pending.kind = "await_deadline" /\ awaitDeadline' = pending.val
    BY <1>16, CommitMoves DEF Commit
  <2>5. QED
    BY <2>2, <2>3, <2>4 DEF DeadlineInv, Last
<1>17. CASE Ends
  <2>1. pc' = "idle" /\ now' = now
    BY <1>17, EndsLeave DEF Leave, Drop
  <2>2. DeadlinesRespected'
    BY <1>3, <1>17, EndsLeave, DeadlinesAppend
  <2>3. QED
    BY <2>1, <2>2 DEF DeadlineInv
<1>18. CASE BusinessError \/ Cancel \/ Retry
  <2>1. pc' \in {"idle", "fail"} /\ UNCHANGED <<log, now>>
    BY <1>18 DEF BusinessError, Cancel, Retry
  <2>2. QED
    BY <2>1, <1>3 DEF DeadlineInv
<1>19. CASE Aside
  <2>1. UNCHANGED <<log, pc, journal, cursor, step, pending, sleepDeadline, awaitDeadline>>
        /\ now' \in Nat /\ now <= now'
    BY <1>19, AsideStays
  <2>2. \A i \in 1..Len(log) : log[i] \in LogEntry
    BY <1>1
  <2>3. \A i \in 1..Len(log) : log[i].kind \in {"sleep", "await_deadline"} => log[i].val \in Nat
    BY <2>2 DEF LogEntry
  <2>4. DeadlinesRespected'
    BY <2>1, <2>3, <1>1, <1>2 DEF DeadlinesRespected
  <2>5. \A k \in {"sleep", "await_deadline"} : Last(k) => journal[cursor].val \in Nat
    BY <1>1 DEF Last, LogEntry
  <2>6. QED
    BY <2>1, <2>4, <2>5, <1>1 DEF DeadlineInv, Last
<1>20. CASE StorageErrorHandled
  <2>1. /\ pc = "commit" /\ pc' \in {"call", "succeed"} /\ UNCHANGED <<now, journal, cursor>>
        /\ log' = log \/ log' = Append(log, pending)
    BY <1>20, HandledMoves
  <2>2. DeadlinesRespected'
    BY <2>1, <1>3, DeadlinesAppend
  <2>3. QED
    BY <2>1, <2>2 DEF DeadlineInv, Last
<1>21. QED
  BY <1>4, <1>5, <1>6, <1>7, <1>8, <1>9, <1>10, <1>11, <1>12, <1>13, <1>14, <1>15, <1>16, <1>17, <1>18, <1>19, <1>20, StepKinds
  DEF Primitive

\* No step after a Sleep and no timeout of an Await is on record before the
\* recorded deadline has passed, whatever crashes, replays and clock steps lie
\* in between, and whatever business code does with errors.
THEOREM DeadlinesHold == Spec => []DeadlinesRespected
<1>1. Init => TypeInv /\ CopyInv /\ DeadlineInv
  BY TypeInit, CopyInit, DeadlineInit
<1>2. (TypeInv /\ CopyInv /\ DeadlineInv) /\ [Next]_vars
        => (TypeInv /\ CopyInv /\ DeadlineInv)'
  BY TypeStep, CopyStep, DeadlineStep
<1>3. DeadlineInv => DeadlinesRespected
  BY DEF DeadlineInv
<1>4. QED
  BY <1>1, <1>2, <1>3, PTL DEF Spec

-----------------------------------------------------------------------------
(* Wakeups. *)

\* What the two deadlines the context carries are worth, by label.
WakeInv ==
  /\ pc = "check" => Op[step] = "Sleep"
  /\ pc \in {"outcome", "expire"} /\ Delay[step] = 0 => awaitDeadline = 0
  /\ WakeupIsCurrent

\* Every step keeps it.
LEMMA WakeStep ==
  ASSUME ErrorsPropagate, Faithful, DeadlineInv, WakeInv, [Next]_vars
  PROVE  WakeInv'
<1> USE DEF Inside, storeVars, wfVars
<1>1. /\ TypeInv /\ RunAligned /\ journal \in Seq(LogEntry) /\ now \in Nat
      /\ cursor \in 0..Len(journal) /\ Len(journal) \in Nat
      /\ (pc \in Inside => step \in Steps /\ Delay[step] \in Nat)
  BY ProgramAssumption DEF Faithful, TypeInv, TypeOK, StepTypes, InRun
<1>2. SUFFICES ASSUME pc' \in {"check", "outcome", "expire", "suspend"}
               PROVE  WakeInv'
  BY DEF WakeInv, WakeupIsCurrent
<1>3. CASE Load \/ MarkRunning \/ Ends \/ BusinessError \/ Cancel \/ Retry \/ StorageErrorHandled
  BY <1>1, <1>2, <1>3, EndsLeave, HandledMoves
  DEF Load, MarkRunning, BusinessError, Cancel, Retry, Leave
<1>4. CASE Aside
  <2>1. UNCHANGED <<pc, journal, step, sleepDeadline, awaitDeadline>>
    BY <1>1, <1>4, AsideStays
  <2>2. QED
    BY <2>1 DEF WakeInv, WakeupIsCurrent
<1>5. CASE SleepReplay
  BY <1>5 DEF SleepReplay, WakeInv, WakeupIsCurrent
<1>6. CASE AwaitNoTimeout
  BY <1>6 DEF AwaitNoTimeout, ZeroDeadline, WakeInv, WakeupIsCurrent
<1>7. CASE AwaitDeadlineReplay
  BY <1>1, <1>7 DEF AwaitDeadlineReplay, WakeInv, WakeupIsCurrent
<1>8. CASE AwaitFetch
  BY <1>2, <1>8 DEF AwaitFetch, Record, WakeInv, WakeupIsCurrent
<1>9. CASE Commit
  <2>1. pc = "commit" /\ pending \in LogEntry /\ pending.kind \in Want(step, Here.stage) /\ step \in Steps
    BY <1>1, <1>9 DEF Commit, RunAligned, Fits
  <2>2. CASE pending.kind = "sleep" /\ pc' = "check" /\ step' = step
    <3>1. Op[step] = "Sleep"
      BY <2>1, <2>2, ProgramAssumption DEF Want, Primitives
    <3>2. QED
      BY <3>1, <2>2 DEF WakeInv, WakeupIsCurrent
  <2>3. CASE pending.kind = "await_deadline" /\ pc' = "outcome" /\ step' = step
    <3>1. Delay[step] # 0
      BY <2>1, <2>3, ProgramAssumption DEF Want, Primitives
    <3>2. QED
      BY <3>1, <2>3 DEF WakeInv, WakeupIsCurrent
  <2>4. QED
    BY <2>2, <2>3, <1>1, <1>2, <1>9, CommitMoves DEF Commit
<1>10. CASE SleepCheck
  <2>1. pc = "check" /\ UNCHANGED <<log, journal, cursor, sleepDeadline, awaitDeadline>>
    BY <1>10 DEF SleepCheck
  <2>2. pc' = "suspend" /\ ~(sleepDeadline <= now) /\ step' = step
    <3>1. Nil \in Results
      BY DEF Results
    <3>2. ~Advance(Nil)
      BY <3>1, <2>1, <1>1, <1>2, AdvanceType
    <3>3. QED
      BY <3>2, <1>10 DEF SleepCheck, Due
  <2>3. /\ journal = log /\ cursor > 0 /\ journal[cursor].kind = "sleep"
        /\ sleepDeadline = journal[cursor].val /\ journal[cursor].by = step /\ Op[step] = "Sleep"
    BY <2>1, <1>1 DEF InRun, DeadlineInv, Last, RunAligned, WakeInv
  <2>4. cursor = Len(journal)
    BY <2>2, <2>3, <1>1 DEF DeadlineInv, DeadlinesRespected
  <2>5. journal # << >>
    BY <2>3, <1>1
  <2>6. QED
    BY <2>1, <2>2, <2>3, <2>4, <2>5 DEF WakeInv, WakeupIsCurrent
<1>11. CASE AwaitExpire
  <2>1. pc = "expire" /\ UNCHANGED <<journal, cursor, step, awaitDeadline>> /\ pc' = "suspend"
    BY <1>2, <1>11 DEF AwaitExpire, Record
  <2>2. Op[step] = "Await" /\ cursor = Len(journal) /\ Delay[step] \in Nat
        /\ Here = [step |-> step, stage |-> IF Delay[step] = 0 THEN "call" ELSE "outcome"]
    BY <2>1, <1>1 DEF RunAligned
  <2>3. CASE Delay[step] = 0
    BY <2>1, <2>2, <2>3 DEF WakeInv, WakeupIsCurrent
  <2>4. CASE Delay[step] # 0
    <3>1. cursor > 0 /\ journal[cursor].kind = "await_deadline" /\ awaitDeadline = journal[cursor].val
      BY <2>1, <2>2, <2>4 DEF DeadlineInv, Last
    <3>2. Here = [step |-> journal[cursor].by, stage |-> "outcome"]
      BY <3>1 DEF Here, Reached, After
    <3>3. journal[cursor].by = step
      BY <3>2, <2>2
    <3>4. journal # << >>
      BY <3>1, <1>1
    <3>5. QED
      BY <3>1, <3>3, <3>4, <2>1, <2>2, <2>4 DEF WakeInv, WakeupIsCurrent
  <2>5. QED
    BY <2>3, <2>4
<1>12. CASE \/ Mismatch \/ ExecuteReplay \/ ExecuteFn \/ SleepFirst \/ AwaitDeadlineFirst
            \/ AwaitReplay \/ AwaitAck \/ AwaitAckFails \/ ReturnReplay \/ ReturnFirst
  <2>1. CASE Mismatch \/ SleepFirst \/ AwaitDeadlineFirst \/ ReturnReplay \/ ReturnFirst
    BY <2>1, <1>1, <1>2, MismatchMoves
    DEF SleepFirst, AwaitDeadlineFirst, ReturnReplay, ReturnFirst, Record
  <2>2. CASE ExecuteReplay \/ AwaitReplay
    BY <2>2, <1>1, <1>2, ReplayAdvances
  <2>3. CASE ExecuteFn
    <3>1. Err \in Results
      BY DEF Results
    <3>2. pc' \in {"commit", "call", "succeed", "error"}
      BY <3>1, <2>3, <1>1, AdvanceType DEF ExecuteFn, Record
    <3>3. QED
      BY <3>2, <1>2
  <2>4. CASE AwaitAck \/ AwaitAckFails
    <3>1. pc' \in {"call", "succeed", "error"}
      BY <2>4, <1>1, AckAdvances
    <3>2. QED
      BY <3>1, <1>2
  <2>5. QED
    BY <2>1, <2>2, <2>3, <2>4, <1>12
<1>13. QED
  BY <1>3, <1>4, <1>5, <1>6, <1>7, <1>8, <1>9, <1>10, <1>11, <1>12, StepKinds DEF Primitive

\* A run that suspends asks to be woken at the recorded deadline of the call it
\* is suspended in, or not at all when that call waits for a signal only.
THEOREM WakeupsCurrent ==
  ASSUME ErrorsPropagate
  PROVE  Spec => []WakeupIsCurrent
<1> DEFINE Inv == Faithful /\ CopyInv /\ DeadlineInv /\ WakeInv
<1>1. Init => Inv
  <2>1. Init => WakeInv
    <3>1. Init => pc = "idle"
      BY Zenon DEF Init
    <3>2. QED
      BY <3>1 DEF WakeInv, WakeupIsCurrent
  <2>2. QED
    BY <2>1, FaithfulInit, CopyInit, DeadlineInit
<1>2. Inv /\ [Next]_vars => Inv'
  <2>1. Faithful => TypeInv
    BY DEF Faithful
  <2>2. QED
    BY <2>1, FaithfulStep, CopyStep, DeadlineStep, WakeStep
<1>3. Inv => WakeupIsCurrent
  BY DEF WakeInv
<1> HIDE DEF Inv
<1>4. QED
  BY <1>1, <1>2, <1>3, PTL DEF Spec

-----------------------------------------------------------------------------
(* Effects. *)

\* The positions of the recorded results of Execute, and whether one is about
\* to be recorded.
ExecsIn(j) == { i \in 1..Len(j) : j[i].kind = "exec" }
InFlight == IF pc = "commit" /\ pending.kind = "exec" THEN 1 ELSE 0

\* Appending an entry adds at most the one position.
LEMMA ExecsAppend ==
  ASSUME NEW j \in Seq(LogEntry), NEW e \in LogEntry
  PROVE  /\ Cardinality(ExecsIn(j)) \in Nat
         /\ Cardinality(ExecsIn(Append(j, e)))
              = Cardinality(ExecsIn(j)) + (IF e.kind = "exec" THEN 1 ELSE 0)
<1>1. Len(j) \in Nat
  OBVIOUS
<1>2. /\ Len(Append(j, e)) = Len(j) + 1 /\ Append(j, e)[Len(j) + 1] = e
      /\ \A i \in 1..Len(j) : Append(j, e)[i] = j[i]
  BY ReachedAppend
<1>3. IsFiniteSet(ExecsIn(j)) /\ Cardinality(ExecsIn(j)) \in Nat
  <2>1. IsFiniteSet(1..Len(j))
    BY <1>1, FS_Interval
  <2>2. ExecsIn(j) \in SUBSET (1..Len(j))
    BY DEF ExecsIn
  <2>3. IsFiniteSet(ExecsIn(j))
    BY <2>1, <2>2, FS_Subset
  <2>4. QED
    BY <2>3, FS_CardinalityType
<1>4. Len(j) + 1 \notin ExecsIn(j)
  BY <1>1 DEF ExecsIn
<1>5. CASE e.kind = "exec"
  <2>1. ExecsIn(Append(j, e)) = ExecsIn(j) \cup {Len(j) + 1}
    BY <1>1, <1>2, <1>5 DEF ExecsIn
  <2>2. QED
    BY <2>1, <1>3, <1>4, <1>5, FS_AddElement
<1>6. CASE e.kind # "exec"
  <2>1. ExecsIn(Append(j, e)) = ExecsIn(j)
    BY <1>1, <1>2, <1>6 DEF ExecsIn
  <2>2. QED
    BY <2>1, <1>3, <1>6
<1>7. QED
  BY <1>3, <1>5, <1>6

\* Every step accounts for the effects.
LEMMA EffectsStep ==
  ASSUME TypeInv, EffectsBounded, [Next]_vars
  PROVE  EffectsBounded'
<1> DEFINE n == Cardinality(ExecsIn(log))
<1>1. /\ log \in Seq(LogEntry) /\ effects \in Nat /\ crashes \in Nat /\ faults \in Nat
      /\ pc = "commit" => pending \in LogEntry
  BY DEF TypeInv, TypeOK, StepTypes
<1>2. n \in Nat /\ n + InFlight <= effects /\ effects <= n + InFlight + crashes + faults
  <2>1. n \in Nat
    <3>1. IsFiniteSet(1..Len(log)) /\ ExecsIn(log) \in SUBSET (1..Len(log))
      BY <1>1, FS_Interval DEF ExecsIn
    <3>2. IsFiniteSet(ExecsIn(log))
      BY <3>1, FS_Subset
    <3>3. QED
      BY <3>2, FS_CardinalityType
  <2>2. QED
    BY <2>1 DEF EffectsBounded, ExecsIn, InFlight
<1>3. SUFFICES /\ Cardinality(ExecsIn(log')) + InFlight' <= effects'
               /\ effects' <= Cardinality(ExecsIn(log')) + InFlight' + crashes' + faults'
  BY DEF EffectsBounded, ExecsIn, InFlight
<1>4. CASE Ends
  <2>1. InFlight' = 0 /\ effects' = effects
    BY <1>4, EndsLeave DEF Leave, Drop, InFlight
  <2>2. CASE StorageError \/ Crash
    <3>1. \/ crashes' = crashes + 1 /\ faults' = faults
          \/ crashes' = crashes /\ faults' = faults + 1
      BY <2>2, <1>1 DEF StorageError, Crash, Fault
    <3>2. crashes' \in Nat /\ faults' \in Nat
      BY <2>2, <1>1 DEF StorageError, Crash, Fault
    <3>3. InFlight = 0 \/ InFlight = 1
      BY DEF InFlight
    <3>4. CASE log' = log
      BY <3>1, <3>2, <3>3, <3>4, <2>1, <1>1, <1>2
    <3>5. CASE pc = "commit" /\ log' = Append(log, pending)
      <4>1. Cardinality(ExecsIn(log')) = n + InFlight
        BY <3>5, <1>1, ExecsAppend DEF InFlight
      <4>2. QED
        BY <4>1, <3>1, <3>2, <3>3, <2>1, <1>1, <1>2
    <3>6. QED
      BY <3>4, <3>5, <1>4, EndsLeave
  <2>3. CASE Suspend \/ Succeed \/ FailRun \/ Interrupted \/ StatusWriteFails
    <3>1. log' = log /\ InFlight = 0
      BY <2>3 DEF Suspend, Succeed, FailRun, Interrupted, StatusWriteFails, InFlight, storeVars
    <3>2. crashes' \in Nat /\ faults' \in Nat /\ crashes' = crashes /\ faults <= faults'
      BY <2>3, <1>1 DEF Suspend, Succeed, FailRun, Interrupted, StatusWriteFails, boundVars, Fault
    <3>3. QED
      BY <3>1, <3>2, <2>1, <1>1, <1>2
  <2>4. QED
    BY <2>2, <2>3, <1>4 DEF Ends
<1>9. CASE StorageErrorHandled
  <2>1. /\ pc = "commit" /\ pending.kind = "exec" /\ pc' \in {"call", "succeed"}
        /\ UNCHANGED <<effects, crashes>> /\ faults' = faults + 1
        /\ log' = log \/ log' = Append(log, pending)
    BY <1>9, HandledMoves
  <2>2. InFlight = 1 /\ InFlight' = 0
    BY <2>1 DEF InFlight
  <2>3. Cardinality(ExecsIn(log')) \in {n, n + 1}
    BY <2>1, <1>1, ExecsAppend
  <2>4. QED
    BY <2>1, <2>2, <2>3, <1>1, <1>2
<1>5. CASE Commit
  <2>1. /\ pc = "commit" /\ log' = Append(log, pending)
        /\ UNCHANGED <<effects, crashes, faults>>
    BY <1>5 DEF Commit, boundVars
  <2>2. Cardinality(ExecsIn(log')) = n + InFlight
    BY <2>1, <1>1, ExecsAppend DEF InFlight
  <2>3. InFlight' = 0
    <3>1. pc' # "commit"
      BY <1>5, CommitMoves
    <3>2. QED
      BY <3>1 DEF InFlight
  <2>4. InFlight \in {0, 1}
    BY DEF InFlight
  <2>5. QED
    BY <2>1, <2>2, <2>3, <2>4, <1>1, <1>2
<1>6. CASE ExecuteFn /\ effects' # effects
  <2>1. pc = "call" /\ pc' = "commit" /\ pending'.kind = "exec" /\ effects' = effects + 1
    BY <1>6 DEF ExecuteFn, Record
  <2>2. UNCHANGED <<log, crashes, faults>>
    BY <1>6 DEF ExecuteFn, storeVars, boundVars
  <2>3. InFlight = 0 /\ InFlight' = 1
    BY <2>1 DEF InFlight
  <2>4. QED
    BY <2>1, <2>2, <2>3, <1>1, <1>2
<1>7. CASE ~Ends /\ ~Commit /\ ~StorageErrorHandled /\ ~(ExecuteFn /\ effects' # effects)
  <2>1. /\ UNCHANGED <<log, effects, crashes>> /\ faults <= faults' /\ faults' \in Nat
        /\ InFlight' = InFlight
    <3>1. CASE Aside
      BY <3>1, <1>1, AsideStays DEF wfVars, InFlight
    <3>2. CASE Load \/ MarkRunning \/ BusinessError \/ Cancel \/ Retry
      BY <3>2, <1>1 DEF Load, MarkRunning, BusinessError, Cancel, Retry, storeVars, wfVars, boundVars,
                        InFlight
    <3>3. CASE ExecuteFn
      <4>1. Advance(Err) \/ pc' = "error"
        BY <3>3, <1>1, <1>7 DEF ExecuteFn
      <4>2. pc' \in {"call", "succeed", "error"} /\ pc = "call"
        <5>1. Err \in Results /\ step \in Steps /\ pc = "call"
          BY <3>3 DEF Results, ExecuteFn, TypeInv, StepTypes, InRun
        <5>2. QED
          BY <5>1, <4>1, AdvanceType
      <4>3. QED
        BY <4>2, <3>3, <1>1, <1>7 DEF ExecuteFn, storeVars, boundVars, InFlight
    <3>4. CASE ExecuteReplay \/ AwaitReplay
      BY <3>4, <1>1, ReplayAdvances DEF ExecuteReplay, AwaitReplay, storeVars, boundVars, InFlight
    <3>5. CASE AwaitAck \/ AwaitAckFails
      BY <3>5, <1>1, AckAdvances DEF AwaitAck, AwaitAckFails, storeVars, boundVars, Fault, InFlight
    <3>6. CASE SleepCheck
      <4>1. pc = "check" /\ pc' # "commit"
        <5>1. Nil \in Results /\ step \in Steps /\ pc = "check"
          BY <3>6 DEF Results, SleepCheck, TypeInv, StepTypes, InRun
        <5>2. QED
          BY <5>1, <3>6, AdvanceType DEF SleepCheck
      <4>2. QED
        BY <4>1, <3>6, <1>1 DEF SleepCheck, storeVars, boundVars, InFlight
    <3>7. CASE SleepFirst \/ AwaitDeadlineFirst \/ ReturnFirst \/ AwaitFetch \/ AwaitExpire
      BY <3>7, <1>1 DEF SleepFirst, AwaitDeadlineFirst, ReturnFirst, AwaitFetch, AwaitExpire,
                        Record, storeVars, boundVars, InFlight
    <3>8. CASE Mismatch \/ SleepReplay \/ AwaitNoTimeout \/ AwaitDeadlineReplay \/ ReturnReplay
      BY <3>8, <1>1, MismatchMoves DEF Mismatch, SleepReplay, AwaitNoTimeout, AwaitDeadlineReplay, ReturnReplay,
                        storeVars, boundVars, InFlight
    <3>9. QED
      BY <3>1, <3>2, <3>3, <3>4, <3>5, <3>6, <3>7, <3>8, <1>7, StepKinds DEF Primitive
  <2>2. InFlight \in {0, 1}
    BY DEF InFlight
  <2>3. QED
    BY <2>1, <2>2, <1>1, <1>2
<1>8. QED
  BY <1>4, <1>5, <1>6, <1>7, <1>9

\* Each success of a business function is on record or in flight, except one
\* per crash or failed store call; nothing is on record that did not happen.
THEOREM EffectsAccounted == Spec => []EffectsBounded
<1>1. Init => TypeInv /\ EffectsBounded
  <2>1. SUFFICES ASSUME Init PROVE EffectsBounded
    BY TypeInit
  <2>2. log = << >> /\ pc = "idle" /\ effects = 0 /\ crashes = 0 /\ faults = 0
    BY <2>1, Zenon DEF Init
  <2>3. { i \in 1..Len(log) : log[i].kind = "exec" } = {}
    <3>1. Len(log) = 0
      BY <2>2, EmptyLog, Zenon
    <3>2. QED
      BY <3>1
  <2>4. QED
    BY <2>2, <2>3, FS_EmptySet DEF EffectsBounded
<1>2. (TypeInv /\ EffectsBounded) /\ [Next]_vars => (TypeInv /\ EffectsBounded)'
  BY TypeStep, EffectsStep
<1>3. QED
  BY <1>1, <1>2, PTL DEF Spec

-----------------------------------------------------------------------------
(* Signals. *)

\* No two Signal calls name the same signal.
OneCallPerSignal == \A p, q \in Payloads : Target[p] = Target[q] => p = q

\* What an Await has in its hands is the newest payload of its signal: the slot
\* never holds another, and a payload once pushed is not pushed over.
SignalInv ==
  /\ \A g \in Signals : newest[g] # Nil => newest[g] \in pushed /\ Target[newest[g]] = g
  /\ \A g \in Signals : mailbox[g] # Nil => mailbox[g] = newest[g]
  /\ pc = "commit" /\ pending.kind = "await" =>
       pending.val # Nil /\ pending.val = newest[SignalOf[step]]
  /\ pc = "ack" => journal[cursor].val # Nil /\ journal[cursor].val = newest[SignalOf[step]]
  /\ NewestSignalKept

\* A log that only grows keeps what it says was consumed.
LEMMA KeptAppend ==
  ASSUME TypeInv, NewestSignalKept, UNCHANGED <<mailbox, newest>>,
         \/ log' = log
         \/ pending \in LogEntry /\ log' = Append(log, pending)
  PROVE  NewestSignalKept'
<1>1. CASE log' = log
  BY <1>1 DEF NewestSignalKept
<1>2. CASE pending \in LogEntry /\ log' = Append(log, pending)
  <2>1. /\ Len(log) \in Nat /\ Len(log') = Len(log) + 1
        /\ \A i \in 1..Len(log) : i \in 1..Len(log') /\ log'[i] = log[i]
    BY <1>2, ReachedAppend DEF TypeInv, TypeOK
  <2>2. QED
    BY <2>1 DEF NewestSignalKept
<1>3. QED
  BY <1>1, <1>2

\* Most steps neither touch the mailbox nor take an Await to its commit or its
\* acknowledgement.
LEMMA MailboxStays ==
  ASSUME TypeInv, [Next]_vars, ~AwaitFetch, ~AwaitAck, ~Commit,
         ~(\E p \in Payloads : SignalPush(p))
  PROVE  /\ UNCHANGED <<mailbox, newest, pushed>>
         /\ \/ pc' \notin {"commit", "ack"}
            \/ pc' = "commit" /\ pending'.kind # "await"
            \/ UNCHANGED <<pc, pending, journal, cursor, step>>
         /\ \/ log' = log
            \/ pending \in LogEntry /\ log' = Append(log, pending)
<1> USE DEF storeVars, signalVars
<1>1. CASE Aside
  BY <1>1 DEF Aside, Register, Shutdown, Tick, SignalCheck, vars, wfVars
<1>2. CASE Ends
  <2>1. UNCHANGED <<mailbox, newest, pushed>>
    BY <1>2 DEF Ends, Suspend, Succeed, FailRun, Interrupted, StatusWriteFails, StorageError, Crash
  <2>2. QED
    BY <2>1, <1>2, EndsLeave DEF Leave, Drop
<1>3. CASE Load \/ MarkRunning \/ BusinessError \/ Cancel \/ Retry
  BY <1>3 DEF Load, MarkRunning, BusinessError, Cancel, Retry, wfVars
<1>4. CASE ExecuteReplay \/ AwaitReplay
  BY <1>4, ReplayAdvances DEF ExecuteReplay, AwaitReplay
<1>5. CASE AwaitAckFails
  BY <1>5, AckAdvances DEF AwaitAckFails
<1>6. CASE ExecuteFn
  <2>1. Err \in Results /\ step \in Steps
    BY <1>6 DEF Results, ExecuteFn, TypeInv, StepTypes, InRun
  <2>2. QED
    BY <2>1, <1>6, AdvanceType DEF ExecuteFn, Record
<1>7. CASE SleepCheck
  <2>1. Nil \in Results /\ step \in Steps
    BY <1>7 DEF Results, SleepCheck, TypeInv, StepTypes, InRun
  <2>2. QED
    BY <2>1, <1>7, AdvanceType DEF SleepCheck
<1>8. CASE SleepFirst \/ AwaitDeadlineFirst \/ ReturnFirst \/ AwaitExpire
  BY <1>8 DEF SleepFirst, AwaitDeadlineFirst, ReturnFirst, AwaitExpire, Record
<1>9. CASE SleepReplay \/ AwaitNoTimeout \/ AwaitDeadlineReplay \/ ReturnReplay
  BY <1>9 DEF SleepReplay, AwaitNoTimeout, AwaitDeadlineReplay, ReturnReplay
<1>10. CASE Mismatch
  BY <1>10, MismatchMoves DEF Mismatch
<1>11. CASE StorageErrorHandled
  BY <1>11, HandledMoves
<1>12. QED
  BY <1>1, <1>2, <1>3, <1>4, <1>5, <1>6, <1>7, <1>8, <1>9, <1>10, <1>11, StepKinds DEF Primitive

\* Every step keeps the invariant.
LEMMA SignalStep ==
  ASSUME OneCallPerSignal, TypeInv, CopyInv, SignalInv, [Next]_vars
  PROVE  SignalInv'
<1>1. /\ mailbox \in [Signals -> Payloads \cup {Nil}] /\ newest \in [Signals -> Payloads \cup {Nil}]
      /\ pushed \subseteq Payloads /\ log \in Seq(LogEntry) /\ journal \in Seq(LogEntry)
      /\ cursor \in 0..Len(journal)
  BY DEF TypeInv, TypeOK
<1>2. InRun => step \in Steps /\ SignalOf[step] \in Signals
  BY ProgramAssumption DEF TypeInv, StepTypes
<1>3. CASE AwaitFetch
  <2>1. /\ pc = "outcome" /\ UNCHANGED <<log, mailbox, newest, pushed, step>>
        /\ \/ pc' = "expire"
           \/ /\ pc' = "commit" /\ mailbox[SignalOf[step]] # Nil
              /\ pending'.val = mailbox[SignalOf[step]]
    BY <1>3 DEF AwaitFetch, Fetched, Record, signalVars
  <2>2. SignalOf[step] \in Signals
    BY <2>1, <1>2 DEF InRun
  <2>3. NewestSignalKept'
    BY <2>1, KeptAppend DEF SignalInv
  <2>4. QED
    BY <2>1, <2>2, <2>3 DEF SignalInv
<1>4. CASE AwaitAck
  <2> DEFINE g == SignalOf[step]
  <2>1. /\ pc = "ack" /\ UNCHANGED <<log, newest, pushed>> /\ mailbox' = [mailbox EXCEPT ![g] = Nil]
        /\ pc' \in {"call", "succeed", "error"} /\ journal[cursor].kind = "await"
    BY <1>4, AckAdvances DEF AwaitAck, Acked, signalVars
  <2>2. g \in Signals /\ Len(log) \in 1..Len(log)
    BY <2>1, <1>1, <1>2 DEF InRun, CopyInv
  <2>3. log[Len(log)].kind = "await" /\ log[Len(log)].val = newest[g]
    BY <2>1 DEF SignalInv, CopyInv, InRun, Tip
  <2>4. NewestSignalKept'
    <3>1. SUFFICES ASSUME NEW h \in Signals, newest[h] # Nil
                   PROVE  \/ mailbox'[h] = newest[h]
                          \/ \E i \in 1..Len(log) : log[i].kind = "await" /\ log[i].val = newest[h]
      BY <2>1 DEF NewestSignalKept
    <3>2. CASE h = g
      BY <3>2, <2>2, <2>3
    <3>3. CASE h # g
      <4>1. mailbox'[h] = mailbox[h]
        BY <3>3, <2>1, <1>1
      <4>2. QED
        BY <4>1, <3>1 DEF SignalInv, NewestSignalKept
    <3>4. QED
      BY <3>2, <3>3
  <2>5. \A h \in Signals : mailbox'[h] # Nil => mailbox'[h] = newest'[h]
    BY <2>1, <2>2, <1>1 DEF SignalInv
  <2>6. QED
    BY <2>1, <2>4, <2>5 DEF SignalInv
<1>5. CASE Commit
  <2>1. /\ UNCHANGED <<mailbox, newest, pushed>> /\ log' = Append(log, pending)
        /\ journal' = Append(journal, pending) /\ cursor' = Len(journal')
        /\ pending \in LogEntry /\ pc = "commit"
        /\ pc' \in {"call", "succeed", "error", "check", "outcome", "ack"}
        /\ pc' = "ack" => pending.kind = "await" /\ step' = step
    BY <1>5, CommitMoves DEF Commit, End, signalVars
  <2>2. journal'[cursor'] = pending
    BY <2>1, <1>1
  <2>3. NewestSignalKept'
    BY <2>1, KeptAppend DEF SignalInv
  <2>4. QED
    BY <2>1, <2>2, <2>3 DEF SignalInv
<1>6. CASE \E p \in Payloads : SignalPush(p)
  <2>1. PICK p \in Payloads : SignalPush(p)
    BY <1>6
  <2> DEFINE g == Target[p]
  <2>2. /\ p \notin pushed /\ pushed' = pushed \cup {p}
        /\ mailbox' = [mailbox EXCEPT ![g] = p] /\ newest' = [newest EXCEPT ![g] = p]
        /\ UNCHANGED <<log, pc, pending, journal, cursor, step>>
    BY <2>1 DEF SignalPush, wfVars
  <2>3. g \in Signals
    BY BoundsAssumption
  <2>4. newest[g] = Nil
    <3>1. newest[g] # Nil => newest[g] \in pushed /\ Target[newest[g]] = g
      BY <2>3 DEF SignalInv
    <3>2. newest[g] \in pushed /\ Target[newest[g]] = g => newest[g] = p
      BY <1>1 DEF OneCallPerSignal
    <3>3. QED
      BY <3>1, <3>2, <2>2
  <2>5. \A h \in Signals : IF h = g THEN mailbox'[h] = p /\ newest'[h] = p
                                    ELSE mailbox'[h] = mailbox[h] /\ newest'[h] = newest[h]
    BY <2>2, <1>1
  <2>6. \A h \in Signals : newest[h] # Nil => newest'[h] = newest[h]
    BY <2>4, <2>5
  <2>7. /\ \A h \in Signals : newest'[h] # Nil => newest'[h] \in pushed' /\ Target[newest'[h]] = h
        /\ \A h \in Signals : mailbox'[h] # Nil => mailbox'[h] = newest'[h]
    BY <2>2, <2>5 DEF SignalInv
  <2>8. NewestSignalKept'
    BY <2>2, <2>5 DEF SignalInv, NewestSignalKept
  <2>9. /\ pc' = "commit" /\ pending'.kind = "await" =>
             pending'.val # Nil /\ pending'.val = newest'[SignalOf[step']]
        /\ pc' = "ack" => journal'[cursor'].val # Nil /\ journal'[cursor'].val = newest'[SignalOf[step']]
    BY <2>2, <2>6, <1>2 DEF SignalInv, InRun
  <2>10. QED
    BY <2>7, <2>8, <2>9 DEF SignalInv
<1>7. CASE ~(AwaitFetch \/ AwaitAck \/ Commit \/ \E p \in Payloads : SignalPush(p))
  <2>1. NewestSignalKept' /\ UNCHANGED <<mailbox, newest, pushed>>
    BY <1>7, MailboxStays, KeptAppend DEF SignalInv
  <2>2. \/ pc' \notin {"commit", "ack"}
        \/ pc' = "commit" /\ pending'.kind # "await"
        \/ UNCHANGED <<pc, pending, journal, cursor, step>>
    BY <1>7, MailboxStays
  <2>3. QED
    BY <2>1, <2>2 DEF SignalInv
<1>8. QED
  BY <1>3, <1>4, <1>5, <1>6, <1>7

\* The payload of a signal that is sent once stays in its slot, through crashes,
\* replays and failed acknowledgements, until the log says it was consumed.
THEOREM SignalsKept ==
  ASSUME OneCallPerSignal
  PROVE  Spec => []NewestSignalKept
<1> DEFINE Inv == TypeInv /\ CopyInv /\ SignalInv
<1>1. Init => Inv
  <2>1. SUFFICES ASSUME Init PROVE SignalInv
    BY TypeInit, CopyInit
  <2>2. pc = "idle" /\ mailbox = [g \in Signals |-> Nil] /\ newest = [g \in Signals |-> Nil]
    BY <2>1, Zenon DEF Init
  <2>3. QED
    BY <2>2 DEF SignalInv, NewestSignalKept
<1>2. Inv /\ [Next]_vars => Inv'
  BY TypeStep, CopyStep, SignalStep
<1>3. Inv => NewestSignalKept
  BY DEF SignalInv
<1> HIDE DEF Inv
<1>4. QED
  BY <1>1, <1>2, <1>3, PTL DEF Spec

-----------------------------------------------------------------------------
(* The run implements the walk. *)

\* The abstract walk speaks of the same function and the same entries.
LEMMA SameProgram ==
  /\ Walk!Nil = Nil /\ Walk!LogEntry = LogEntry
  /\ \A e, p : Walk!Fits(e, p) <=> Fits(e, p)
  /\ \A j, n, v : Walk!Reached(j, n, v) = Reached(j, n, v)
<1>1. Walk!Nil = Nil /\ Walk!Timeout = Timeout
  BY DEF Walk!Nil, Nil, Walk!Timeout, Timeout
<1>2. Walk!LogEntry = LogEntry
  BY <1>1 DEF Walk!LogEntry, LogEntry
<1>3. \A e, p : Walk!Fits(e, p) <=> Fits(e, p)
  BY DEF Walk!Fits, Fits, Walk!Want, Want
<1>4. \A j, n, v : Walk!Reached(j, n, v) = Reached(j, n, v)
  BY <1>1 DEF Walk!Reached, Reached, Walk!After, After, Walk!ResultOf, ResultOf
<1>5. QED
  BY <1>1, <1>2, <1>3, <1>4

\* A function that returned through Return has the recorded result in hand.
ReturnInv == pc = "succeed" /\ Last("return") => returnData = journal[cursor].val

\* Every step keeps it: the other ways to a successful end pass an entry of
\* another kind, an error of Execute being none of them.
LEMMA ReturnStep ==
  ASSUME ErrorsPropagate, TypeInv, DeadlineInv, ReturnInv, [Next]_vars
  PROVE  ReturnInv'
<1> USE DEF storeVars, wfVars
<1>1. /\ journal \in Seq(LogEntry) /\ cursor \in 0..Len(journal) /\ Len(journal) \in Nat
      /\ pc \notin {"idle", "fail"} => step \in Steps
  BY DEF TypeInv, TypeOK, StepTypes, InRun
<1>2. SUFFICES ASSUME pc' = "succeed", cursor' > 0, journal'[cursor'].kind = "return"
               PROVE  returnData' = journal'[cursor'].val
  BY DEF ReturnInv, Last
<1>3. CASE Aside
  <2>1. UNCHANGED <<pc, journal, cursor, returnData>>
    BY <1>3, AsideStays
  <2>2. QED
    BY <2>1, <1>2 DEF ReturnInv, Last
<1>4. CASE Ends \/ Load \/ MarkRunning \/ BusinessError \/ Cancel \/ Retry
  BY <1>2, <1>4, EndsLeave DEF Leave, Load, MarkRunning, BusinessError, Cancel, Retry
<1>5. CASE ReturnReplay
  BY <1>5 DEF ReturnReplay
<1>6. CASE Commit
  <2>1. /\ pending \in LogEntry /\ journal' = Append(journal, pending) /\ cursor' = Len(journal')
        /\ returnData' = IF pending.kind = "return" THEN pending.val ELSE returnData
    BY <1>6, CommitMoves DEF Commit, End
  <2>2. journal'[cursor'] = pending
    BY <2>1, <1>1
  <2>3. QED
    BY <2>1, <2>2, <1>2
<1>7. CASE ExecuteReplay \/ AwaitReplay
  <2>1. journal'[cursor'] = journal[cursor + 1]
    BY <1>7 DEF ExecuteReplay, AwaitReplay
  <2>2. QED
    BY <2>1, <1>2, <1>7, ReplayAdvances
<1>8. CASE AwaitAck \/ AwaitAckFails
  <2>1. journal'[cursor'] = journal[cursor]
    BY <1>8 DEF AwaitAck, AwaitAckFails
  <2>2. QED
    BY <2>1, <1>2, <1>8, AckAdvances
<1>9. CASE SleepCheck
  <2>1. journal'[cursor'] = journal[cursor] /\ journal[cursor].kind = "sleep"
    BY <1>9 DEF SleepCheck, DeadlineInv, Last
  <2>2. QED
    BY <2>1, <1>2
<1>10. CASE ExecuteFn
  <2>1. pc = "call" /\ step \in Steps /\ Succ[step][Err] = Fail
    BY <1>1, <1>10 DEF ExecuteFn, ErrorsPropagate
  <2>2. pc' \in {"commit", "error"}
    BY <2>1, <1>10, ProgramAssumption DEF ExecuteFn, Record, Advance, Fail, Nil
  <2>3. QED
    BY <2>2, <1>2
<1>11. CASE \/ SleepReplay \/ SleepFirst \/ AwaitNoTimeout \/ AwaitDeadlineReplay
            \/ AwaitDeadlineFirst \/ AwaitFetch \/ AwaitExpire \/ ReturnFirst
  BY <1>2, <1>11 DEF SleepReplay, SleepFirst, AwaitNoTimeout, AwaitDeadlineReplay,
                     AwaitDeadlineFirst, AwaitFetch, AwaitExpire, ReturnFirst, Record
<1>12. CASE Mismatch \/ StorageErrorHandled
  <2>1. pc \in {"call", "outcome", "commit"} /\ step \in Steps
    BY <1>1, <1>12 DEF Mismatch, StorageErrorHandled
  <2>2. ~Handled
    BY <2>1 DEF Handled, ErrorsPropagate
  <2>3. QED
    BY <2>2, <1>2, <1>12 DEF Mismatch, StorageErrorHandled
<1>13. QED
  BY <1>3, <1>4, <1>5, <1>6, <1>7, <1>8, <1>9, <1>10, <1>11, <1>12, StepKinds DEF Primitive

\* An entry that reaches the log is the decision of the call the walk is at.
LEMMA DecideStep ==
  ASSUME Faithful, RunnerInv, pc = "commit", pending \in LogEntry,
         log' = Append(log, pending), meta' = meta
  PROVE  Walk!Decide
<1>1. /\ journal = log /\ log \in Seq(LogEntry) /\ Len(log) \in Nat /\ cursor = Len(log)
      /\ ~Terminal /\ Fits(pending, Reached(log, Len(log), meta.version))
  BY DEF Faithful, TypeInv, TypeOK, RunAligned, RunnerInv, InRun, Here
<1>2. log' # << >> /\ log'[Len(log')] = pending
  BY <1>1
<1>3. ~Terminal'
  BY <1>1 DEF Terminal
<1>4. QED
  BY <1>1, <1>2, <1>3, SameProgram DEF Walk!Decide

\* A run that is declared a success has walked its function to the end.
LEMMA FinishStep ==
  ASSUME Faithful, RunnerInv, ReturnInv, Succeed
  PROVE  Walk!Finish
<1>1. /\ meta \in [status : Statuses, version : Versions, output : Values \cup {Nil}, err : Causes]
      /\ log \in Seq(LogEntry) /\ Len(log) \in Nat /\ cursor \in 0..Len(journal) /\ RunAligned
  BY DEF Faithful, TypeInv, TypeOK
<1>2. pc = "succeed" /\ journal = log /\ ~Terminal /\ Here.step = Nil /\ log' = log /\ InRun
  BY <1>1 DEF Succeed, RunnerInv, InRun, RunAligned
<1>3. cursor = Len(log)
  <2>1. ~(cursor < Len(journal))
    BY <1>2, NextEntryFits, ProgramAssumption DEF Fits
  <2>2. QED
    BY <2>1, <1>1, <1>2
<1>4. meta.output = Nil
  BY <1>2 DEF RunnerInv, OutputIsRecorded, Terminal
<1>5. /\ meta'.status = "Succeeded" /\ meta'.version = meta.version
      /\ meta'.output = IF returnData = Nil THEN Nil ELSE returnData
  BY <1>1, <1>2, <1>3, <1>4 DEF Succeed, Drifted
<1>6. Reached(log, Len(log), meta.version).step = Nil
  BY <1>2, <1>3 DEF Here
<1>7. Len(log) > 0
  <2>1. Entry[meta.version] \in Steps
    BY <1>1, ProgramAssumption
  <2>2. Len(log) = 0 => Reached(log, Len(log), meta.version).step = Entry[meta.version]
    BY DEF Reached
  <2>3. QED
    BY <2>1, <2>2, <1>1, <1>6, ProgramAssumption
<1>8. log # << >>
  BY <1>7
<1>9. meta'.output = IF log[Len(log)].kind = "return" THEN log[Len(log)].val ELSE Nil
  <2>1. CASE log[Len(log)].kind = "return"
    BY <2>1, <1>2, <1>3, <1>5, <1>7 DEF ReturnInv, Last
  <2>2. CASE log[Len(log)].kind # "return"
    BY <2>2, <1>2, <1>3, <1>5 DEF RunnerInv
  <2>3. QED
    BY <2>1, <2>2
<1>10. Terminal'
  BY <1>5 DEF Terminal
<1>11. QED
  BY <1>2, <1>5, <1>6, <1>8, <1>9, <1>10, SameProgram DEF Walk!Finish

\* Every step is a step of the walk, or not visible in it.
LEMMA WalkStep ==
  ASSUME Faithful, RunnerInv, ReturnInv, [Next]_vars
  PROVE  [Walk!ExecNext]_Walk!execVars
<1>1. meta \in [status : Statuses, version : Versions, output : Values \cup {Nil}, err : Causes]
  BY DEF Faithful, TypeInv, TypeOK
<1>2. TypeInv
  BY DEF Faithful
<1>3. CASE log' = log /\ meta' = meta
  BY <1>3 DEF Walk!execVars, Terminal
<1>4. CASE MarkRunning \/ Suspend
  <2>1. /\ log' = log /\ ~Terminal /\ meta'.status \in {"Running", "Awaiting"}
        /\ meta'.version = meta.version /\ meta'.output = meta.output
    BY <1>1, <1>4 DEF MarkRunning, Suspend, RunnerInv
  <2>2. QED
    BY <2>1 DEF Walk!execVars, Terminal
<1>5. CASE Succeed
  BY <1>5, FinishStep DEF Walk!ExecNext
<1>6. CASE FailRun
  <2>1. /\ log' = log /\ ~Terminal /\ meta'.status = "Failed"
        /\ meta'.version = meta.version /\ meta'.output = meta.output
    BY <1>1, <1>6 DEF FailRun, RunnerInv
  <2>2. Walk!Abort
    BY <2>1 DEF Walk!Abort, Terminal
  <2>3. QED
    BY <2>2 DEF Walk!ExecNext
<1>7. CASE Retry
  <2>1. /\ log' = log /\ meta.status = "Failed" /\ meta'.status = "Running"
        /\ meta'.version = meta.version /\ meta'.output = Nil
    BY <1>1, <1>7 DEF Retry
  <2>2. Walk!Resume
    BY <2>1, SameProgram DEF Walk!Resume, Terminal
  <2>3. QED
    BY <2>2 DEF Walk!ExecNext
<1>8. CASE pc = "commit" /\ pending \in LogEntry /\ log' = Append(log, pending) /\ meta' = meta
  BY <1>8, DecideStep DEF Walk!ExecNext
<1>9. CASE Commit
  BY <1>2, <1>8, <1>9, CommitMoves DEF Commit
<1>10. CASE (Primitive \/ AwaitAckFails) /\ pc # "commit"
  BY <1>2, <1>3, <1>10, PrimitiveMoves
<1>11. CASE Load \/ Aside
  BY <1>2, <1>3, <1>11, AsideStays DEF Load, storeVars
<1>12. CASE Ends /\ ~(Suspend \/ Succeed \/ FailRun)
  BY <1>2, <1>3, <1>8, <1>12, EndsLeave
<1>13. Primitive /\ pc = "commit" => Commit
  BY DEF Primitive, Mismatch, ExecuteReplay, ExecuteFn, SleepReplay, SleepFirst, SleepCheck,
         AwaitNoTimeout, AwaitDeadlineReplay, AwaitDeadlineFirst, AwaitReplay, AwaitFetch,
         AwaitExpire, AwaitAck, ReturnReplay, ReturnFirst
<1>14. AwaitAckFails => pc # "commit"
  BY DEF AwaitAckFails
<1>15. CASE StorageErrorHandled
  BY <1>2, <1>3, <1>8, <1>15, HandledMoves
<1>16. CASE BusinessError
  BY <1>3, <1>16 DEF BusinessError, storeVars
<1>17. CASE Cancel
  <2>1. /\ log' = log /\ ~Terminal /\ meta'.status = "Cancelled"
        /\ meta'.version = meta.version /\ meta'.output = meta.output
    BY <1>1, <1>17 DEF Cancel
  <2>2. Walk!Withdraw
    BY <2>1 DEF Walk!Withdraw, Terminal
  <2>3. QED
    BY <2>2 DEF Walk!ExecNext
<1>18. QED
  BY <1>4, <1>5, <1>6, <1>7, <1>9, <1>10, <1>11, <1>12, <1>13, <1>14, <1>15, <1>16, <1>17,
     StepKinds

\* Crashes, failed store calls, shutdowns, redeployments and replays are not
\* visible in what a run decides: it walks its function once.
THEOREM RunImplementsWalk ==
  ASSUME ErrorsPropagate
  PROVE  Spec => ImplementsExecution
<1> DEFINE Inv == Faithful /\ CopyInv /\ RunnerInv /\ DeadlineInv /\ ReturnInv
<1>1. Init => Inv
  <2>1. Init => ReturnInv
    <3>1. Init => pc = "idle"
      BY Zenon DEF Init
    <3>2. QED
      BY <3>1 DEF ReturnInv
  <2>2. QED
    BY <2>1, FaithfulInit, CopyInit, RunnerInit, DeadlineInit
<1>2. Inv /\ [Next]_vars => Inv'
  <2>1. Faithful => TypeInv
    BY DEF Faithful
  <2>2. QED
    BY <2>1, FaithfulStep, CopyStep, RunnerInvStep, DeadlineStep, ReturnStep
<1>3. Inv /\ [Next]_vars => [Walk!ExecNext]_Walk!execVars
  BY WalkStep
<1>4. Init => Walk!ExecInit
  <2>1. SUFFICES ASSUME Init PROVE Walk!ExecInit
    OBVIOUS
  <2>2. log = << >>
    BY <2>1, Zenon DEF Init
  <2>3. PICK v \in Versions :
          meta = [status |-> "Running", version |-> v, output |-> Nil, err |-> ""]
    BY <2>1, Zenon DEF Init
  <2>4. QED
    BY <2>2, <2>3, SameProgram DEF Walk!ExecInit, Terminal
<1> HIDE DEF Inv
<1>5. QED
  BY <1>1, <1>2, <1>3, <1>4, PTL DEF Spec, ImplementsExecution, Walk!ExecSpec
=============================================================================
