----------------------------- MODULE ReplayProofs -----------------------------
(***************************************************************************)
(* Replay is deterministic, for every workflow function whose business     *)
(* code hands the errors of Execute back to the engine: a run that is      *)
(* suspended, interrupted, crashed, redeployed and replayed any number of  *)
(* times follows its recording to the last entry.                          *)
(***************************************************************************)
EXTENDS WorkflowContextProofs

\* The inductive invariant.  The log alone is not enough: a step that commits
\* an entry keeps it a walk only because the run is where its log leads.
Faithful ==
  /\ TypeInv
  /\ LogIsWalk
  /\ RunAligned
  /\ meta.err \notin {"mismatch", "drift"}

-----------------------------------------------------------------------------
(* Walks. *)

\* Appending to a history does not move the places its prefixes lead to.
LEMMA ReachedAppend ==
  ASSUME NEW j \in Seq(LogEntry), NEW e \in LogEntry, NEW v
  PROVE  /\ Append(j, e) \in Seq(LogEntry)
         /\ Len(Append(j, e)) = Len(j) + 1
         /\ Append(j, e)[Len(j) + 1] = e
         /\ \A i \in 1..Len(j) : Append(j, e)[i] = j[i]
         /\ \A n \in 0..Len(j) : Reached(Append(j, e), n, v) = Reached(j, n, v)
         /\ Reached(Append(j, e), Len(j) + 1, v) = After(e)
<1>1. /\ Append(j, e) \in Seq(LogEntry)
      /\ Len(Append(j, e)) = Len(j) + 1
      /\ Append(j, e)[Len(j) + 1] = e
      /\ \A i \in 1..Len(j) : Append(j, e)[i] = j[i]
  OBVIOUS
<1>2. Len(j) \in Nat
  OBVIOUS
<1>3. \A n \in 0..Len(j) : Reached(Append(j, e), n, v) = Reached(j, n, v)
  <2> TAKE n \in 0..Len(j)
  <2>1. CASE n = 0
    BY <2>1 DEF Reached
  <2>2. CASE n # 0
    <3>1. Append(j, e)[n] = j[n]
      BY <1>1, <1>2, <2>2
    <3>2. QED
      BY <3>1, <2>2 DEF Reached
  <2>3. QED
    BY <2>1, <2>2
<1>4. Reached(Append(j, e), Len(j) + 1, v) = After(e)
  BY <1>1, <1>2 DEF Reached
<1>5. QED
  BY <1>1, <1>3, <1>4

\* An entry recorded where the log leads extends the walk.
LEMMA WalkExtends ==
  ASSUME Faithful, NEW e \in LogEntry, Fits(e, Reached(log, Len(log), meta.version)),
         log' = Append(log, e), meta'.version = meta.version
  PROVE  LogIsWalk'
<1>1. log \in Seq(LogEntry) /\ Len(log) \in Nat
  BY DEF Faithful, TypeInv, TypeOK
<1>2. SUFFICES ASSUME NEW i \in 1..(Len(log) + 1)
               PROVE  Fits(log'[i], Reached(log', i - 1, meta'.version))
  BY <1>1, ReachedAppend DEF LogIsWalk
<1>3. i - 1 \in 0..Len(log)
  BY <1>1
<1>4. Reached(log', i - 1, meta'.version) = Reached(log, i - 1, meta.version)
  <2>1. Reached(Append(log, e), i - 1, meta.version) = Reached(log, i - 1, meta.version)
    BY <1>1, <1>3, ReachedAppend
  <2>2. QED
    BY <2>1
<1>5. CASE i = Len(log) + 1
  <2>1. log'[i] = e /\ i - 1 = Len(log)
    BY <1>1, <1>5, ReachedAppend
  <2>2. QED
    BY <2>1, <1>4
<1>6. CASE i \in 1..Len(log)
  <2>1. log'[i] = log[i]
    BY <1>1, <1>6, ReachedAppend
  <2>2. Fits(log[i], Reached(log, i - 1, meta.version))
    BY <1>6 DEF Faithful, LogIsWalk
  <2>3. QED
    BY <2>1, <2>2, <1>4
<1>7. QED
  BY <1>1, <1>5, <1>6

\* The walk stays one when neither the log nor the instance's version changes.
LEMMA WalkStays ==
  ASSUME LogIsWalk, log' = log, meta'.version = meta.version
  PROVE  LogIsWalk'
BY DEF LogIsWalk

\* The entry under the cursor was recorded by the call the run is at.
LEMMA NextEntryFits ==
  ASSUME Faithful, InRun, cursor < Len(journal)
  PROVE  Fits(journal[cursor + 1], Here)
<1>1. journal = log /\ cursor \in Nat /\ Len(log) \in Nat
  BY DEF Faithful, RunAligned, TypeInv, TypeOK
<1>2. cursor + 1 \in 1..Len(log) /\ (cursor + 1) - 1 = cursor
  BY <1>1
<1>3. Fits(log[cursor + 1], Reached(log, (cursor + 1) - 1, meta.version))
  BY <1>2 DEF Faithful, LogIsWalk
<1>4. QED
  BY <1>1, <1>2, <1>3 DEF Here

\* ... and is of a kind the call accepts: consume never reports a mismatch.
LEMMA CallFits ==
  ASSUME Faithful, pc \in {"call", "outcome"}, cursor < Len(journal)
  PROVE  /\ Fits(journal[cursor + 1], [step |-> step, stage |-> pc])
         /\ journal[cursor + 1] \in LogEntry
         /\ journal[cursor + 1].by = step
         /\ Hit(pc)
<1>1. InRun
  BY DEF InRun
<1>2. step \in Steps /\ journal[cursor + 1] \in LogEntry
  BY <1>1 DEF Faithful, TypeInv, TypeOK, StepTypes
<1>3. Fits(journal[cursor + 1], Here)
  BY <1>1, NextEntryFits
<1>4. Fits(journal[cursor + 1], [step |-> step, stage |-> pc])
  <2>1. CASE pc = "call"
    BY <2>1, <1>3 DEF Faithful, RunAligned
  <2>2. CASE pc = "outcome"
    <3>1. Op[step] = "Await"
          /\ Here = [step |-> step, stage |-> IF Delay[step] = 0 THEN "call" ELSE "outcome"]
      BY <2>2 DEF Faithful, RunAligned
    <3>2. Delay[step] = 0 => Want(step, "call") = Want(step, "outcome")
      BY <1>2, <3>1, WantKinds
    <3>3. CASE Delay[step] = 0
      BY <3>1, <3>2, <3>3, <2>2, <1>3 DEF Fits
    <3>4. CASE Delay[step] # 0
      BY <3>1, <3>4, <2>2, <1>3
    <3>5. QED
      BY <3>3, <3>4
  <2>3. QED
    BY <2>1, <2>2
<1>5. QED
  BY <1>2, <1>4 DEF Fits, Hit

-----------------------------------------------------------------------------
(* Building blocks. *)

\* run() has returned, or is about to fail the instance.
LEMMA LeaveAligned ==
  ASSUME RunAligned, Leave \/ BusinessError
  PROVE  RunAligned'
BY DEF Leave, BusinessError, Drop, RunAligned, InRun

\* A primitive has returned what the entry e it consumed or committed says,
\* and the run is where e leads.
LEMMA AdvanceAligned ==
  ASSUME Faithful, step \in Steps, NEW e \in LogEntry, e.by = step,
         e.kind \in {"exec", "sleep", "await", "await_timeout"}, Advance(ResultOf(e)),
         journal' = log', Here' = After(e)
  PROVE  RunAligned'
<1> DEFINE t == Succ[step][ResultOf(e)]
<1>1. ResultOf(e) \in Results
  BY ResultOfType
<1>2. t \in Steps \cup {Nil, Fail}
  BY <1>1, SuccType
<1>3. After(e) = [step |-> t, stage |-> "call"]
  BY DEF After
<1>4. cause \notin {"mismatch", "drift"}
  BY DEF Faithful, RunAligned
<1>5. CASE t \in Steps
  <2>1. pc' = "call" /\ step' = t /\ cause' = cause
    BY <1>5, ProgramAssumption DEF Advance
  <2>2. QED
    BY <2>1, <1>3, <1>4, <1>5 DEF RunAligned, InRun
<1>6. CASE t = Nil
  <2>1. pc' = "succeed" /\ step' = step /\ cause' = cause
    BY <1>6, ProgramAssumption DEF Advance, Fail, Nil
  <2>2. Here'.step = Nil
    BY <1>3, <1>6
  <2>3. QED
    BY <2>1, <2>2, <1>4 DEF RunAligned, InRun
<1>7. CASE t = Fail
  <2>1. pc' = "error" /\ step' = step /\ cause' \in {"interrupted", "error"}
    BY <1>7, ProgramAssumption DEF Advance, ErrorCause, Fail, Nil
  <2>2. QED
    BY <2>1 DEF RunAligned, InRun
<1>8. QED
  BY <1>2, <1>5, <1>6, <1>7

\* The entry under the cursor has been consumed.
LEMMA HereConsumed ==
  ASSUME Faithful, cursor < Len(journal), cursor' = cursor + 1,
         journal' = journal
  PROVE  Here' = After(journal[cursor + 1])
BY DEF Faithful, TypeInv, TypeOK, Here, Reached

\* Nothing the run consists of has changed.
LEMMA AlignedStays ==
  ASSUME Faithful, UNCHANGED <<log, pc, cause, wfVars>>, meta'.version = meta.version
  PROVE  LogIsWalk' /\ RunAligned'
<1>1. LogIsWalk'
  BY WalkStays DEF Faithful
<1>2. Here' = Here
  BY DEF wfVars, Here
<1>3. RunAligned'
  BY <1>2 DEF Faithful, RunAligned, InRun, wfVars
<1>4. QED
  BY <1>1, <1>3
-----------------------------------------------------------------------------
(* The invariant is inductive. *)

\* The empty log of a new instance is a walk, and no run is in progress.
LEMMA FaithfulInit == Init => Faithful
<1>1. SUFFICES ASSUME Init PROVE Faithful
  OBVIOUS
<1>2. TypeInv
  BY <1>1, TypeInit
<1>3. log = << >> /\ pc = "idle" /\ cause = "" /\ cursor = 0
  BY <1>1, Zenon DEF Init
<1>4. PICK v \in Versions :
        meta = [status |-> "Running", version |-> v, output |-> Nil, err |-> ""]
  BY <1>1, Zenon DEF Init
<1>5. LogIsWalk
  <2>1. Len(log) = 0
    BY <1>3, EmptyLog, Zenon
  <2>2. QED
    BY <2>1 DEF LogIsWalk
<1>6. RunAligned
  BY <1>3 DEF RunAligned, InRun
<1>7. QED
  BY <1>2, <1>4, <1>5, <1>6 DEF Faithful

\* The steps of run() around the workflow function.
LEMMA RunnerStep ==
  ASSUME Faithful,
         \/ Load \/ MarkRunning \/ Suspend \/ Succeed
         \/ Interrupted \/ BusinessError \/ FailRun \/ StatusWriteFails
  PROVE  LogIsWalk' /\ RunAligned' /\ meta'.err \notin {"mismatch", "drift"}
<1>1. LogIsWalk /\ RunAligned /\ TypeOK /\ StepTypes /\ meta.err \notin {"mismatch", "drift"}
  BY DEF Faithful, TypeInv
<1>2. log' = log /\ meta'.version = meta.version
  BY <1>1 DEF TypeOK, Load, MarkRunning, Suspend, Succeed, FailRun, Interrupted, BusinessError,
              StatusWriteFails, storeVars
<1>3. LogIsWalk'
  BY <1>1, <1>2, WalkStays
<1>4. CASE Load
  <2>1. meta' = meta /\ cursor' = 0
    BY <1>1, <1>4 DEF Load, storeVars, StepTypes, InRun
  <2>2. CASE SameVersion
    <3>1. pc' = "mark" /\ journal' = log /\ step' = Entry[meta.version] /\ cause' = cause
      BY <2>2, <1>4 DEF Load, SameVersion
    <3>2. step' \in Steps
      BY <3>1, <1>1, ProgramAssumption DEF TypeOK
    <3>3. RunAligned'
      BY <3>1, <3>2, <2>1, <1>1, <1>2 DEF RunAligned, InRun
    <3>4. QED
      BY <3>3, <2>1, <1>1, <1>3
  <2>3. CASE ~SameVersion
    <3>1. pc' = "fail" /\ cause' \in {"not_found", "version"}
      BY <2>3, <1>4 DEF Load
    <3>2. RunAligned'
      BY <3>1, <2>1 DEF RunAligned, InRun
    <3>3. QED
      BY <3>2, <2>1, <1>1, <1>3
  <2>4. QED
    BY <2>2, <2>3
<1>5. CASE MarkRunning
  <2>1. /\ pc = "mark" /\ pc' = "call" /\ UNCHANGED <<log, journal, cursor, step, cause>>
        /\ meta'.err = meta.err
    BY <1>1, <1>5 DEF MarkRunning, wfVars, TypeOK
  <2>2. Here' = [step |-> step, stage |-> "call"]
    BY <2>1, <1>1, <1>2 DEF RunAligned, InRun, Here, Reached
  <2>3. RunAligned'
    BY <2>1, <2>2, <1>1, <1>2 DEF RunAligned, InRun
  <2>4. QED
    BY <2>1, <2>3, <1>1, <1>3
<1>6. CASE Succeed
  <2>1. ~Drifted
    <3>1. InRun /\ Here.step = Nil
      BY <1>1, <1>6 DEF Succeed, InRun, RunAligned
    <3>2. ~(cursor < Len(journal))
      BY <3>1, NextEntryFits, ProgramAssumption DEF Fits
    <3>3. cursor \in 0..Len(journal) /\ Len(journal) \in Nat
      BY <1>1 DEF TypeOK
    <3>4. QED
      BY <3>2, <3>3 DEF Drifted
  <2>2. meta'.err = ""
    BY <2>1, <1>1, <1>6 DEF Succeed, TypeOK
  <2>3. RunAligned'
    BY <1>1, <1>6, LeaveAligned DEF Succeed
  <2>4. QED
    BY <2>2, <2>3, <1>3
<1>7. CASE FailRun
  <2>1. meta'.err = cause
    BY <1>1, <1>7 DEF FailRun, TypeOK
  <2>2. cause \notin {"mismatch", "drift"}
    BY <1>1 DEF RunAligned
  <2>3. QED
    BY <2>1, <2>2, <1>1, <1>3, <1>7, LeaveAligned DEF FailRun
<1>8. CASE Suspend \/ Interrupted \/ BusinessError \/ StatusWriteFails
  <2>1. meta'.err = meta.err
    BY <1>1, <1>8 DEF Suspend, Interrupted, BusinessError, StatusWriteFails, storeVars, TypeOK
  <2>2. RunAligned'
    BY <1>1, <1>8, LeaveAligned DEF Suspend, Interrupted, StatusWriteFails
  <2>3. QED
    BY <2>1, <2>2, <1>1, <1>3
<1>9. QED
  BY <1>4, <1>5, <1>6, <1>7, <1>8

\* The primitives that read the history, the mailbox or the clock.
LEMMA PrimitiveStep ==
  ASSUME Faithful, ErrorsPropagate, Primitive \/ AwaitAckFails, ~Commit
  PROVE  LogIsWalk' /\ RunAligned' /\ meta'.err \notin {"mismatch", "drift"}
<1> USE DEF storeVars, wfVars, procVars
<1>1. LogIsWalk /\ RunAligned /\ TypeOK /\ StepTypes /\ meta.err \notin {"mismatch", "drift"}
  BY DEF Faithful, TypeInv
<1>2. UNCHANGED <<log, journal, meta>>
  BY DEF Primitive, Mismatch, ExecuteReplay, ExecuteFn, SleepReplay, SleepFirst, SleepCheck,
         AwaitNoTimeout, AwaitDeadlineReplay, AwaitDeadlineFirst, AwaitReplay, AwaitFetch,
         AwaitExpire, AwaitAck, AwaitAckFails, ReturnReplay, ReturnFirst
<1>3. LogIsWalk' /\ meta'.err \notin {"mismatch", "drift"}
  BY <1>1, <1>2, WalkStays
<1>4. InRun /\ step \in Steps /\ journal' = log'
  <2>1. InRun
    BY DEF InRun, Primitive, Mismatch, ExecuteReplay, ExecuteFn, SleepReplay, SleepFirst,
           SleepCheck, AwaitNoTimeout, AwaitDeadlineReplay, AwaitDeadlineFirst, AwaitReplay,
           AwaitFetch, AwaitExpire, AwaitAck, AwaitAckFails, ReturnReplay, ReturnFirst
  <2>2. QED
    BY <2>1, <1>1, <1>2 DEF RunAligned
<1>5. cause \notin {"mismatch", "drift"}
  BY <1>1 DEF RunAligned
<1>6. CASE Mismatch
  BY <1>6, CallFits DEF Mismatch
<1>7. CASE ExecuteReplay \/ AwaitReplay
  <2> DEFINE e == journal[cursor + 1]
  <2>1. pc \in {"call", "outcome"} /\ cursor < Len(journal) /\ cursor' = cursor + 1
    BY <1>7 DEF ExecuteReplay, AwaitReplay, Hit
  <2>2. e \in LogEntry /\ e.by = step /\ Here' = After(e)
    BY <2>1, <1>2, CallFits, HereConsumed
  <2>3. e.kind \in {"exec", "await", "await_timeout"} /\ Advance(ResultOf(e))
    <3>1. CASE ExecuteReplay
      <4>1. e.kind = "exec" /\ Advance(e.val)
        BY <3>1, <1>4, WantKinds DEF ExecuteReplay, Hit
      <4>2. ResultOf(e) = e.val
        BY <4>1 DEF ResultOf
      <4>3. QED
        BY <4>1, <4>2
    <3>2. CASE AwaitReplay
      <4>1. Op[step] = "Await"
        BY <3>2, <1>1 DEF AwaitReplay, StepTypes
      <4>2. Want(step, "outcome") \subseteq {"await", "await_timeout"}
        BY <4>1, <1>4, WantKinds
      <4>3. QED
        BY <4>2, <3>2 DEF AwaitReplay, Hit
    <3>3. QED
      BY <3>1, <3>2, <1>7
  <2>4. RunAligned'
    BY <2>2, <2>3, <1>4, AdvanceAligned
  <2>5. QED
    BY <2>4, <1>3
<1>8. CASE ExecuteFn
  <2>1. pc = "call" /\ Op[step] = "Execute" /\ cursor = Len(journal) /\ cursor' = cursor
    BY <1>8 DEF ExecuteFn, Exhausted
  <2>2. Here' = Here /\ Here = [step |-> step, stage |-> "call"]
    BY <2>1, <1>1, <1>2 DEF Here, RunAligned
  <2>3. CASE \E v \in Values : Record("exec", v) /\ UNCHANGED <<cause, step>>
    <3>1. PICK v \in Values : Record("exec", v) /\ UNCHANGED <<cause, step>>
      BY <2>3
    <3>2. pc' = "commit" /\ pending' = [kind |-> "exec", val |-> v, by |-> step] /\ pending' \in LogEntry
      BY <3>1, <1>4, RecordType DEF Record
    <3>3. Fits(pending', Here')
      BY <3>2, <2>1, <2>2, <1>4, WantKinds DEF Fits
    <3>4. QED
      BY <3>1, <3>2, <3>3, <2>1, <1>2, <1>3, <1>4, <1>5 DEF RunAligned, InRun
  <2>4. CASE Advance(Err)
    <3>1. Succ[step][Err] = Fail
      BY <2>1, <1>4 DEF ErrorsPropagate
    <3>2. pc' = "error" /\ step' = step /\ cause' \in {"interrupted", "error"}
      BY <3>1, <2>4, ProgramAssumption DEF Advance, ErrorCause, Fail, Nil
    <3>3. QED
      BY <3>2, <1>3, <1>4 DEF RunAligned, InRun
  <2>5. CASE pc' = "error" /\ cause' = "error" /\ step' = step
    BY <2>5, <1>3, <1>4 DEF RunAligned, InRun
  <2>6. QED
    BY <2>3, <2>4, <2>5, <1>8 DEF ExecuteFn
<1>9. CASE SleepReplay \/ AwaitDeadlineReplay \/ ReturnReplay
  <2> DEFINE e == journal[cursor + 1]
  <2>1. /\ pc = "call" /\ cursor < Len(journal) /\ cursor' = cursor + 1
        /\ UNCHANGED <<step, cause>>
    BY <1>9 DEF SleepReplay, AwaitDeadlineReplay, ReturnReplay, Hit
  <2>2. e \in LogEntry /\ e.by = step /\ e.kind \in Want(step, "call") /\ Here' = After(e)
    BY <2>1, <1>2, CallFits, HereConsumed DEF Hit
  <2>3. cursor \in Nat /\ cursor' > 0 /\ journal'[cursor'] = e
    BY <2>1, <1>1, <1>2 DEF TypeOK
  <2>4. CASE SleepReplay
    <3>1. pc' = "check" /\ e.kind = "sleep"
      BY <2>4, <2>2, <1>4, WantKinds DEF SleepReplay
    <3>2. QED
      BY <3>1, <2>1, <2>2, <2>3, <1>3, <1>4, <1>5 DEF RunAligned, InRun
  <2>5. CASE AwaitDeadlineReplay
    <3>1. pc' = "outcome" /\ Op[step] = "Await" /\ Delay[step] # 0
      BY <2>5, <1>4, ProgramAssumption DEF AwaitDeadlineReplay
    <3>2. e.kind = "await_deadline"
      BY <3>1, <2>2, <1>4, WantKinds
    <3>3. Here' = [step |-> step, stage |-> "outcome"]
      BY <3>2, <2>2 DEF After
    <3>4. QED
      BY <3>1, <3>3, <2>1, <1>3, <1>4, <1>5 DEF RunAligned, InRun
  <2>6. CASE ReturnReplay
    <3>1. pc' = "succeed" /\ e.kind = "return"
      BY <2>6, <2>2, <1>4, WantKinds DEF ReturnReplay
    <3>2. Here'.step = Nil
      BY <3>1, <2>2 DEF After
    <3>3. QED
      BY <3>1, <3>2, <2>1, <1>3, <1>4, <1>5 DEF RunAligned, InRun
  <2>7. QED
    BY <2>4, <2>5, <2>6, <1>9
<1>10. CASE SleepFirst \/ AwaitDeadlineFirst \/ ReturnFirst
  <2>1. /\ pc = "call" /\ cursor = Len(journal) /\ UNCHANGED <<cursor, step, cause>>
    BY <1>10 DEF SleepFirst, AwaitDeadlineFirst, ReturnFirst, Exhausted
  <2>2. Here' = Here /\ Here = [step |-> step, stage |-> "call"]
    BY <2>1, <1>1, <1>2 DEF Here, RunAligned
  <2>3. now + Delay[step] \in Nat /\ Delay[step] \in Nat
    BY <1>1, <1>4, ProgramAssumption DEF TypeOK
  <2>4. PICK k, v : /\ Record(k, v) /\ k \in Want(step, "call")
                    /\ \/ k = "return" /\ v \in Values
                       \/ k \in {"sleep", "await_deadline"} /\ v \in Nat
    <3>1. CASE SleepFirst
      BY <3>1, <2>3, <1>4, WantKinds DEF SleepFirst
    <3>2. CASE AwaitDeadlineFirst
      BY <3>2, <2>3, <1>4, WantKinds DEF AwaitDeadlineFirst
    <3>3. CASE ReturnFirst
      BY <3>3, <1>4, WantKinds DEF ReturnFirst
    <3>4. QED
      BY <3>1, <3>2, <3>3, <1>10
  <2>5. pc' = "commit" /\ pending' = [kind |-> k, val |-> v, by |-> step] /\ pending' \in LogEntry
    BY <2>4, <1>4, RecordType DEF Record
  <2>6. Fits(pending', Here')
    BY <2>2, <2>4, <2>5, <1>4 DEF Fits
  <2>7. QED
    BY <2>1, <2>5, <2>6, <1>2, <1>3, <1>4, <1>5 DEF RunAligned, InRun
<1>11. CASE SleepCheck \/ AwaitAck \/ AwaitAckFails
  <2> DEFINE e == journal[cursor]
  <2>1. pc \in {"check", "ack"} /\ cursor' = cursor
    BY <1>11 DEF SleepCheck, AwaitAck, AwaitAckFails
  <2>2. cursor > 0 /\ e \in LogEntry /\ e.by = step
    BY <2>1, <1>1 DEF RunAligned, TypeOK
  <2>3. Here' = After(e)
    BY <2>1, <2>2, <1>2 DEF Here, Reached
  <2>4. CASE SleepCheck /\ ~Due(sleepDeadline)
    <3>1. pc' = "suspend" /\ UNCHANGED <<step, cause>>
      BY <2>4 DEF SleepCheck
    <3>2. QED
      BY <3>1, <1>3, <1>4, <1>5 DEF RunAligned, InRun
  <2>5. CASE ~(SleepCheck /\ ~Due(sleepDeadline))
    <3>1. e.kind \in {"sleep", "await"} /\ Advance(ResultOf(e))
      <4>1. CASE SleepCheck
        BY <4>1, <2>5, <1>1 DEF SleepCheck, RunAligned, ResultOf
      <4>2. CASE AwaitAck \/ AwaitAckFails
        <5>1. e.kind = "await" /\ Advance(e.val)
          BY <4>2, <1>1 DEF AwaitAck, AwaitAckFails, RunAligned
        <5>2. ResultOf(e) = e.val
          BY <5>1 DEF ResultOf
        <5>3. QED
          BY <5>1, <5>2
      <4>3. QED
        BY <4>1, <4>2, <1>11
    <3>2. RunAligned'
      BY <3>1, <2>2, <2>3, <1>4, AdvanceAligned
    <3>3. QED
      BY <3>2, <1>3
  <2>6. QED
    BY <2>4, <2>5
<1>12. CASE AwaitNoTimeout
  <2>1. /\ pc = "call" /\ pc' = "outcome" /\ Op[step] = "Await" /\ Delay[step] = 0
        /\ UNCHANGED <<cursor, step, cause>>
    BY <1>12 DEF AwaitNoTimeout
  <2>2. Here' = [step |-> step, stage |-> "call"]
    BY <2>1, <1>1, <1>2 DEF Here, RunAligned
  <2>3. QED
    BY <2>1, <2>2, <1>3, <1>4, <1>5 DEF RunAligned, InRun
<1>13. CASE AwaitFetch \/ AwaitExpire
  <2> DEFINE st == IF Delay[step] = 0 THEN "call" ELSE "outcome"
  <2>1. /\ pc \in {"outcome", "expire"} /\ cursor = Len(journal)
        /\ UNCHANGED <<cursor, step, cause>>
    BY <1>13, <1>1 DEF AwaitFetch, AwaitExpire, Exhausted, RunAligned
  <2>2. Op[step] = "Await" /\ Here' = Here /\ Here = [step |-> step, stage |-> st]
    BY <2>1, <1>1, <1>2 DEF Here, RunAligned
  <2>3. Delay[step] \in Nat
    BY <1>4, ProgramAssumption
  <2>4. "await" \in Want(step, st) /\ (Delay[step] > 0 => "await_timeout" \in Want(step, st))
    BY <2>2, <2>3, <1>4, WantKinds
  <2>5. CASE \E k, v : /\ Record(k, v) /\ k \in Want(step, st)
                       /\ \/ k = "await" /\ v \in Payloads
                          \/ k = "await_timeout" /\ v = Nil
    <3>1. PICK k, v : /\ Record(k, v) /\ k \in Want(step, st)
                      /\ \/ k = "await" /\ v \in Payloads
                         \/ k = "await_timeout" /\ v = Nil
      BY <2>5
    <3>2. pc' = "commit" /\ pending' = [kind |-> k, val |-> v, by |-> step] /\ pending' \in LogEntry
      BY <3>1, <1>4, RecordType DEF Record
    <3>3. Fits(pending', Here')
      BY <3>1, <3>2, <2>2, <1>4 DEF Fits
    <3>4. QED
      BY <3>2, <3>3, <2>1, <1>2, <1>3, <1>4, <1>5 DEF RunAligned, InRun
  <2>6. CASE pc' \in {"expire", "suspend"}
    BY <2>6, <2>1, <2>2, <1>2, <1>3, <1>4, <1>5 DEF RunAligned, InRun
  <2>7. QED
    <3>1. CASE AwaitFetch
      <4>1. mailbox[SignalOf[step]] \in Payloads \cup {Nil}
        BY <1>1, <1>4, ProgramAssumption DEF TypeOK
      <4>2. QED
        BY <4>1, <3>1, <2>4, <2>5, <2>6 DEF AwaitFetch
    <3>2. CASE AwaitExpire
      BY <3>2, <2>4, <2>5, <2>6 DEF AwaitExpire
    <3>3. QED
      BY <3>1, <3>2, <1>13
<1>14. QED
  BY <1>6, <1>7, <1>8, <1>9, <1>10, <1>11, <1>12, <1>13 DEF Primitive

\* wf.commit: the entry extends the walk and the run moves with it.
LEMMA CommitStep ==
  ASSUME Faithful, Commit
  PROVE  LogIsWalk' /\ RunAligned' /\ meta'.err \notin {"mismatch", "drift"}
<1> USE DEF storeVars, wfVars, procVars
<1>1. LogIsWalk /\ RunAligned /\ TypeOK /\ meta.err \notin {"mismatch", "drift"}
  BY DEF Faithful, TypeInv
<1>2. /\ pc = "commit" /\ InRun /\ step \in Steps /\ pending \in LogEntry
      /\ journal = log /\ cursor = Len(journal) /\ Fits(pending, Here)
  BY <1>1 DEF Commit, RunAligned, InRun
<1>3. /\ UNCHANGED meta /\ log' = Append(log, pending)
      /\ journal' = Append(journal, pending)
      /\ cursor' = Len(journal')
  BY DEF Commit, End
<1>4. pending.by = step /\ pending.kind \in Want(Here.step, Here.stage) /\ Here.step = step
  <2>1. pending.by = Here.step /\ pending.kind \in Want(Here.step, Here.stage)
    BY <1>2 DEF Fits
  <2>2. pending.by = step
    BY <1>1, <1>2 DEF RunAligned
  <2>3. QED
    BY <2>1, <2>2
<1>5. journal' = log'
  BY <1>2, <1>3
<1>6. LogIsWalk'
  BY <1>2, <1>3, WalkExtends DEF Here
<1>7. Here' = After(pending) /\ journal'[cursor'] = pending /\ cursor' > 0
  <2>1. journal \in Seq(LogEntry) /\ Len(journal) \in Nat
    BY <1>1 DEF TypeOK
  <2>2. cursor' = Len(journal) + 1
    BY <2>1, <1>2, <1>3, ReachedAppend
  <2>3. journal'[cursor'] = pending
    BY <2>1, <2>2, <1>2, <1>3, ReachedAppend
  <2>4. QED
    BY <2>1, <2>2, <2>3 DEF Here, Reached
<1>8. cause \notin {"mismatch", "drift"}
  BY <1>1 DEF RunAligned
<1>9. CASE pending.kind \in {"exec", "await_timeout"} /\ Advance(ResultOf(pending))
  BY <1>9, <1>1, <1>2, <1>3, <1>4, <1>5, <1>6, <1>7, AdvanceAligned
<1>10. CASE pending.kind = "sleep" /\ pc' = "check" /\ UNCHANGED <<step, cause>>
  BY <1>10, <1>1, <1>2, <1>3, <1>4, <1>5, <1>6, <1>7, <1>8 DEF RunAligned, InRun
<1>11. CASE pending.kind = "await_deadline" /\ pc' = "outcome" /\ UNCHANGED <<step, cause>>
  <2>1. Op[step] = "Await" /\ Delay[step] # 0
    <3>1. "await_deadline" \in Want(step, Here.stage) /\ Op[step] \in Primitives
      BY <1>2, <1>4, <1>11, ProgramAssumption
    <3>2. QED
      BY <3>1, <1>2 DEF Want, Primitives
  <2>2. Here' = [step |-> step, stage |-> "outcome"]
    BY <1>4, <1>7, <1>11 DEF After
  <2>3. RunAligned'
    BY <2>1, <2>2, <1>2, <1>5, <1>8, <1>11 DEF RunAligned, InRun
  <2>4. QED
    BY <2>3, <1>1, <1>3, <1>6
<1>12. CASE pending.kind = "await" /\ pc' = "ack" /\ UNCHANGED <<step, cause>>
  BY <1>12, <1>1, <1>2, <1>3, <1>4, <1>5, <1>6, <1>7, <1>8 DEF RunAligned, InRun
<1>13. CASE pending.kind = "return" /\ pc' = "succeed" /\ UNCHANGED <<step, cause>>
  <2>1. Here'.step = Nil
    BY <1>7, <1>13 DEF After
  <2>2. QED
    BY <2>1, <1>13, <1>1, <1>2, <1>3, <1>5, <1>6, <1>8 DEF RunAligned, InRun
<1>14. QED
  BY <1>9, <1>10, <1>11, <1>12, <1>13 DEF Commit

\* A store call fails, or something other than the run moves.
LEMMA OtherStep ==
  ASSUME Faithful, StorageError \/ Environment \/ UNCHANGED vars
  PROVE  LogIsWalk' /\ RunAligned' /\ meta'.err \notin {"mismatch", "drift"}
<1> USE DEF storeVars, wfVars, procVars
<1>1. LogIsWalk /\ RunAligned /\ TypeOK /\ meta.err \notin {"mismatch", "drift"}
  BY DEF Faithful, TypeInv
<1>2. CASE StorageError
  <2>1. RunAligned' /\ meta' = meta
    BY <1>1, <1>2, LeaveAligned DEF StorageError
  <2>2. CASE log' = log
    BY <2>1, <2>2, <1>1, WalkStays
  <2>3. CASE pc = "commit" /\ log' = Append(log, pending)
    <3>1. pending \in LogEntry /\ Fits(pending, Reached(log, Len(log), meta.version))
      BY <2>3, <1>1 DEF RunAligned, InRun, Here
    <3>2. QED
      BY <3>1, <2>1, <2>3, <1>1, WalkExtends
  <2>4. QED
    BY <2>2, <2>3, <1>2 DEF StorageError
<1>3. CASE Crash
  <2>1. RunAligned' /\ meta' = meta /\ log' = log
    BY <1>1, <1>3, LeaveAligned DEF Crash
  <2>2. QED
    BY <2>1, <1>1, WalkStays
<1>4. CASE Cancel \/ Retry
  <2>1. meta'.version = meta.version /\ meta'.err \in {"", meta.err, "reason"}
    BY <1>1, <1>4 DEF Cancel, Retry, TypeOK
  <2>2. QED
    BY <2>1, <1>1, <1>4, AlignedStays DEF Cancel, Retry
<1>5. CASE \/ Register \/ Shutdown \/ Tick \/ UNCHANGED vars
           \/ \E p \in Payloads : SignalCheck(p) \/ SignalPush(p)
  <2>1. UNCHANGED <<log, meta, pc, cause, wfVars>>
    BY <1>5 DEF Register, storeVars, Shutdown, Tick, vars, SignalCheck, SignalPush
  <2>2. QED
    BY <2>1, <1>1, AlignedStays
<1>6. QED
  BY <1>2, <1>3, <1>4, <1>5 DEF Environment

\* Every step of the system keeps the invariant.
LEMMA FaithfulStep ==
  ASSUME ErrorsPropagate
  PROVE  Faithful /\ [Next]_vars => Faithful'
<1>1. SUFFICES ASSUME Faithful, [Next]_vars PROVE Faithful'
  OBVIOUS
<1>2. TypeInv'
  BY <1>1, TypeStep DEF Faithful
<1>3. LogIsWalk' /\ RunAligned' /\ meta'.err \notin {"mismatch", "drift"}
  <2>1. CASE Commit
    BY <2>1, <1>1, CommitStep
  <2>2. CASE (Primitive \/ AwaitAckFails) /\ ~Commit
    BY <2>2, <1>1, PrimitiveStep
  <2>3. CASE \/ Load \/ MarkRunning \/ Suspend \/ Succeed
             \/ Interrupted \/ BusinessError \/ FailRun \/ StatusWriteFails
    BY <2>3, <1>1, RunnerStep
  <2>4. CASE StorageError \/ Environment \/ UNCHANGED vars
    BY <2>4, <1>1, OtherStep
  <2>5. ~StorageErrorHandled
    <3>1. StorageErrorHandled => step \in Steps /\ Op[step] = "Execute" /\ Succ[step][Err] # Fail
      BY <1>1 DEF StorageErrorHandled, Handled, Faithful, TypeInv, StepTypes, InRun
    <3>2. QED
      BY <3>1 DEF ErrorsPropagate
  <2>6. QED
    BY <2>1, <2>2, <2>3, <2>4, <2>5, <1>1 DEF Next, Run, StoreFailure
<1>4. QED
  BY <1>2, <1>3 DEF Faithful

-----------------------------------------------------------------------------
(* The theorems. *)

\* Under every interleaving of suspensions, failed store calls, shutdowns,
\* crashes, redeployments and retries, an entry about to be consumed was
\* recorded by the very call that consumes it, and no run is failed for
\* divergence.
THEOREM ReplayDeterministic ==
  ASSUME ErrorsPropagate
  PROVE  Spec => []ReplayFollowsRecording
<1>1. Init => Faithful
  BY FaithfulInit
<1>2. Faithful /\ [Next]_vars => Faithful'
  BY FaithfulStep
<1>3. Faithful => ReplayFollowsRecording
  BY CallFits DEF Faithful, ReplayFollowsRecording
<1>4. QED
  BY <1>1, <1>2, <1>3, PTL DEF Spec

\* The persisted log is a walk of the version the instance was started with,
\* from its first call on, whatever code was registered in between.
THEOREM LogAlwaysWalk ==
  ASSUME ErrorsPropagate
  PROVE  Spec => []LogIsWalk
<1>1. Init => Faithful
  BY FaithfulInit
<1>2. Faithful /\ [Next]_vars => Faithful'
  BY FaithfulStep
<1>3. Faithful => LogIsWalk
  BY DEF Faithful
<1>4. QED
  BY <1>1, <1>2, <1>3, PTL DEF Spec

\* A run in progress is where its journal leads.
THEOREM RunAlwaysAligned ==
  ASSUME ErrorsPropagate
  PROVE  Spec => []RunAligned
<1>1. Init => Faithful
  BY FaithfulInit
<1>2. Faithful /\ [Next]_vars => Faithful'
  BY FaithfulStep
<1>3. Faithful => RunAligned
  BY DEF Faithful
<1>4. QED
  BY <1>1, <1>2, <1>3, PTL DEF Spec
=============================================================================
