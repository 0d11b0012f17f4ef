------------------------ MODULE WorkflowContextProofs ------------------------
(***************************************************************************)
(* Proofs about WorkflowContext, for every workflow function, every set of *)
(* values and payloads and every bound on crashes, faults and retries.     *)
(***************************************************************************)
EXTENDS WorkflowContext, TLAPS

-----------------------------------------------------------------------------
(* Operators of Program. *)

\* Every recorded entry has a kind and a step.
LEMMA EntryShape ==
  ASSUME NEW e \in LogEntry
  PROVE  e.kind \in Kinds /\ e.by \in Steps
BY DEF LogEntry, Kinds

\* The log of a new instance.
LEMMA EmptyLog == << >> \in Seq(LogEntry) /\ Len(<< >>) = 0
<1>1. ASSUME NEW S PROVE << >> \in Seq(S)
  OBVIOUS
<1>2. Len(<< >>) = 0
  OBVIOUS
<1>3. QED
  BY <1>1, <1>2, Zenon

\* What a call returns after consuming or committing an entry is a result the
\* function knows how to go on from.
LEMMA ResultOfType ==
  ASSUME NEW e \in LogEntry, e.kind \in {"exec", "await", "await_timeout", "sleep"}
  PROVE  ResultOf(e) \in Results
BY DEF LogEntry, ResultOf, Results

\* The function goes on to a step, returns nil, or returns an error.
LEMMA SuccType ==
  ASSUME NEW s \in Steps, NEW r \in Results
  PROVE  Succ[s][r] \in Steps \cup {Nil, Fail}
BY ProgramAssumption

\* The kinds a call accepts, by primitive.
LEMMA WantKinds ==
  ASSUME NEW s \in Steps, NEW g
  PROVE  /\ Op[s] = "Execute" => Want(s, g) = {"exec"}
         /\ Op[s] = "Sleep"   => Want(s, g) = {"sleep"}
         /\ Op[s] = "Return"  => Want(s, g) = {"return"}
         /\ Op[s] = "Await" /\ Delay[s] = 0 => Want(s, g) = {"await"}
         /\ Op[s] = "Await" /\ Delay[s] # 0 /\ g = "call" => Want(s, g) = {"await_deadline"}
         /\ Op[s] = "Await" /\ Delay[s] # 0 /\ g # "call" => Want(s, g) = {"await", "await_timeout"}
BY DEF Want

-----------------------------------------------------------------------------
(* Type correctness. *)

\* What the type invariant needs to be inductive: a run in progress is at a
\* step, a run not in progress has no cursor, and what a run is about to
\* commit or acknowledge is an entry.
StepTypes ==
  /\ InRun => step \in Steps
  /\ ~InRun => cursor = 0
  /\ pc \in {"outcome", "expire", "ack"} => Op[step] = "Await"
  /\ pc = "commit" =>
       /\ pending \in LogEntry
       /\ pending.kind \in {"await", "await_deadline"} => Op[step] = "Await"
  /\ pc = "ack" => cursor > 0 /\ journal[cursor].kind = "await"

TypeInv == TypeOK /\ StepTypes

\* The variables have their types before the instance is started.
LEMMA TypeInit == Init => TypeInv
<1>1. SUFFICES ASSUME Init PROVE TypeInv
  OBVIOUS
<1>2. PICK v \in Versions :
        /\ meta = [status |-> "Running", version |-> v, output |-> Nil, err |-> ""]
        /\ deployed = v
  BY <1>1 DEF Init
<1>3. TypeOK
  <2>1. meta \in [status : Statuses, version : Versions, output : Values \cup {Nil}, err : Causes]
    BY <1>2 DEF Statuses, Causes
  <2>2. ctxDone \in BOOLEAN
    BY <1>1, Zenon DEF Init
  <2>3. log \in Seq(LogEntry) /\ journal \in Seq(LogEntry) /\ cursor \in 0..Len(journal)
    <3>1. log = << >> /\ journal = << >> /\ cursor = 0
      BY <1>1, Zenon DEF Init
    <3>2. QED
      BY <3>1, EmptyLog
  <2>4. mailbox \in [Signals -> Payloads \cup {Nil}] /\ newest \in [Signals -> Payloads \cup {Nil}]
    BY <1>1 DEF Init
  <2>5. QED
    BY <1>1, <1>2, <2>1, <2>2, <2>3, <2>4 DEF Init, TypeOK, Causes, PCs
<1>4. StepTypes
  BY <1>1 DEF Init, StepTypes, InRun
<1>5. QED
  BY <1>3, <1>4 DEF TypeInv

\* The workflow function is done with: its context has its initial values.
LEMMA DropType ==
  ASSUME Drop
  PROVE  /\ journal' \in Seq(LogEntry)
         /\ cursor' \in 0..Len(journal') /\ step' \in Steps \cup {Nil}
         /\ pending' \in LogEntry \cup {NoEntry} /\ returnData' \in Values \cup {Nil}
         /\ sleepDeadline' \in Nat /\ awaitDeadline' \in Nat
         /\ pc' \in {"idle", "fail"} => StepTypes'
<1>1. journal' = << >> /\ cursor' = 0
  BY DEF Drop
<1>2. journal' \in Seq(LogEntry) /\ cursor' \in 0..Len(journal')
  BY <1>1, EmptyLog
<1>3. QED
  BY <1>2 DEF Drop, StepTypes, InRun

\* run() has returned.
LEMMA LeaveType ==
  ASSUME TypeInv, Leave
  PROVE  /\ pc' \in PCs /\ cause' \in Causes /\ journal' \in Seq(LogEntry)
         /\ cursor' \in 0..Len(journal') /\ step' \in Steps \cup {Nil}
         /\ pending' \in LogEntry \cup {NoEntry} /\ returnData' \in Values \cup {Nil}
         /\ sleepDeadline' \in Nat /\ awaitDeadline' \in Nat
         /\ StepTypes'
<1>1. Drop /\ pc' = "idle" /\ cause' = ""
  BY DEF Leave
<1>2. QED
  BY <1>1, DropType DEF PCs, Causes

\* A primitive has returned a result.
LEMMA AdvanceType ==
  ASSUME TypeInv, step \in Steps, NEW r \in Results, Advance(r)
  PROVE  /\ pc' \in {"call", "succeed", "error"} /\ cause' \in Causes
         /\ step' \in Steps
BY SuccType, ProgramAssumption DEF Advance, ErrorCause, Causes, TypeInv, TypeOK

\* Business code has handled an error of Execute.
LEMMA HandledType ==
  ASSUME TypeInv, step \in Steps, Handled
  PROVE  /\ pc' \in {"call", "succeed"} /\ cause' = cause
         /\ step' \in Steps /\ Op[step] = "Execute"
<1>1. Succ[step][Err] \in Steps \cup {Nil} /\ Op[step] = "Execute" /\ Advance(Err)
  BY SuccType DEF Handled, Results
<1> DEFINE t == Succ[step][Err]
<1>2. t # Fail /\ Nil \notin Steps
  BY <1>1, ProgramAssumption DEF Handled
<1>3. cause' = cause
  BY <1>1, <1>2 DEF Advance
<1>4. CASE t \in Steps
  BY <1>1, <1>3, <1>4 DEF Advance
<1>5. CASE t = Nil
  BY <1>1, <1>2, <1>3, <1>5 DEF Advance
<1>6. QED
  BY <1>1, <1>4, <1>5

\* An entry is about to be committed.
LEMMA RecordType ==
  ASSUME step \in Steps, NEW k, NEW v, Record(k, v),
         \/ k = "exec" /\ v \in Values
         \/ k = "return" /\ v \in Values
         \/ k = "await" /\ v \in Payloads
         \/ k = "sleep" /\ v \in Nat
         \/ k = "await_deadline" /\ v \in Nat
         \/ k = "await_timeout" /\ v = Nil
  PROVE  pc' = "commit" /\ pending' \in LogEntry /\ pending'.kind = k
BY DEF Record, LogEntry

\* Every step keeps the types.
LEMMA TypeStep == TypeInv /\ [Next]_vars => TypeInv'
<1> SUFFICES ASSUME TypeInv, [Next]_vars PROVE TypeInv'
  OBVIOUS
<1> USE DEF TypeInv, TypeOK, StepTypes, InRun, PCs
<1> USE DEF storeVars, wfVars, procVars, signalVars, boundVars
<1>1. CASE Load
  <2>1. CASE SameVersion
    <3>1. Entry[deployed] \in Steps
      BY ProgramAssumption, <2>1 DEF SameVersion
    <3>2. pc' = "mark" /\ journal' = log /\ step' \in Steps /\ cursor' = 0 /\ cause' = cause
      BY <3>1, <2>1, <1>1 DEF Load
    <3>3. cursor' \in 0..Len(journal')
      BY <3>2
    <3>4. QED
      BY <3>2, <3>3, <1>1 DEF Load
  <2>2. CASE ~SameVersion
    <3>1. pc' = "fail" /\ cause' \in Causes /\ UNCHANGED <<journal, step>>
      BY <2>2, <1>1 DEF Load, Causes
    <3>2. QED
      BY <3>1, <1>1 DEF Load
  <2>3. QED
    BY <2>1, <2>2
<1>2. CASE MarkRunning
  BY <1>2 DEF MarkRunning, Statuses
<1>3. CASE Mismatch
  <2>1. CASE pc' = "error" /\ cause' = "mismatch" /\ UNCHANGED step
    BY <2>1, <1>3 DEF Mismatch, Hit, Causes
  <2>2. CASE Handled
    <3>1. pc' \in {"call", "succeed"} /\ cause' = cause /\ step' \in Steps
      BY <2>2, <1>3, HandledType DEF Mismatch
    <3>2. QED
      BY <3>1, <1>3 DEF Mismatch
  <2>3. QED
    BY <2>1, <2>2, <1>3 DEF Mismatch
<1>4. CASE ExecuteReplay
  <2>1. journal[cursor + 1] \in LogEntry /\ journal[cursor + 1].kind = "exec"
    BY WantKinds, <1>4 DEF ExecuteReplay, Hit
  <2>2. journal[cursor + 1].val \in Results
    BY <2>1 DEF LogEntry, Results
  <2>3. pc' \in {"call", "succeed", "error"} /\ cause' \in Causes /\ step' \in Steps
    BY <2>2, <1>4, AdvanceType DEF ExecuteReplay
  <2>4. QED
    BY <2>3, <1>4 DEF ExecuteReplay, Hit
<1>5. CASE ExecuteFn
  <2>1. CASE \E v \in Values : Record("exec", v) /\ effects' = effects + 1 /\ UNCHANGED <<cause, step>>
    <3>1. pc' = "commit" /\ pending' \in LogEntry /\ pending'.kind = "exec"
      BY <2>1, <1>5, RecordType DEF ExecuteFn
    <3>2. QED
      BY <3>1, <2>1, <1>5 DEF ExecuteFn
  <2>2. CASE Advance(Err) /\ UNCHANGED <<effects, pending>>
    <3>1. pc' \in {"call", "succeed", "error"} /\ cause' \in Causes /\ step' \in Steps
      BY <2>2, <1>5, AdvanceType DEF ExecuteFn, Results
    <3>2. QED
      BY <3>1, <2>2, <1>5 DEF ExecuteFn
  <2>3. CASE pc' = "error" /\ cause' = "error" /\ UNCHANGED <<effects, pending, step>>
    BY <2>3, <1>5 DEF ExecuteFn, Causes
  <2>4. QED
    BY <2>1, <2>2, <2>3, <1>5 DEF ExecuteFn
<1>6. CASE SleepReplay
  <2>1. journal[cursor + 1] \in LogEntry /\ journal[cursor + 1].kind = "sleep"
    BY WantKinds, <1>6 DEF SleepReplay, Hit
  <2>2. sleepDeadline' \in Nat
    BY <2>1, <1>6 DEF SleepReplay, Restored, LogEntry
  <2>3. QED
    BY <2>2, <1>6 DEF SleepReplay, Hit
<1>7. CASE SleepFirst
  <2>1. now + Delay[step] \in Nat
    BY ProgramAssumption, <1>7 DEF SleepFirst
  <2>2. pc' = "commit" /\ pending' \in LogEntry /\ pending'.kind = "sleep"
    BY <2>1, <1>7, RecordType DEF SleepFirst
  <2>3. QED
    BY <2>2, <1>7 DEF SleepFirst
<1>8. CASE SleepCheck
  <2>1. CASE Advance(Nil)
    <3>1. pc' \in {"call", "succeed", "error"} /\ cause' \in Causes /\ step' \in Steps
      BY <2>1, <1>8, AdvanceType DEF SleepCheck, Results
    <3>2. QED
      BY <3>1, <1>8 DEF SleepCheck
  <2>2. CASE pc' = "suspend" /\ UNCHANGED <<step, cause>>
    BY <2>2, <1>8 DEF SleepCheck
  <2>3. QED
    BY <2>1, <2>2, <1>8 DEF SleepCheck
<1>9. CASE AwaitNoTimeout
  BY <1>9 DEF AwaitNoTimeout, ZeroDeadline
<1>10. CASE AwaitDeadlineReplay
  <2>1. journal[cursor + 1] \in LogEntry /\ journal[cursor + 1].kind = "await_deadline"
    <3>1. step \in Steps /\ Op[step] = "Await" /\ Delay[step] \in Nat /\ Delay[step] # 0
      BY ProgramAssumption, <1>10 DEF AwaitDeadlineReplay
    <3>2. Want(step, "call") = {"await_deadline"}
      BY <3>1, WantKinds
    <3>3. QED
      BY <3>2, <1>10 DEF AwaitDeadlineReplay, Hit
  <2>2. awaitDeadline' \in Nat
    BY <2>1, <1>10 DEF AwaitDeadlineReplay, Restored, LogEntry
  <2>3. QED
    BY <2>2, <1>10 DEF AwaitDeadlineReplay, Hit
<1>11. CASE AwaitDeadlineFirst
  <2>1. now + Delay[step] \in Nat
    BY ProgramAssumption, <1>11 DEF AwaitDeadlineFirst
  <2>2. pc' = "commit" /\ pending' \in LogEntry /\ pending'.kind = "await_deadline"
    BY <2>1, <1>11, RecordType DEF AwaitDeadlineFirst
  <2>3. QED
    BY <2>2, <1>11 DEF AwaitDeadlineFirst
<1>12. CASE AwaitReplay
  <2>1. journal[cursor + 1] \in LogEntry /\ journal[cursor + 1].kind \in {"await", "await_timeout"}
    <3>1. step \in Steps /\ Op[step] = "Await"
      BY <1>12 DEF AwaitReplay
    <3>2. Want(step, "outcome") \subseteq {"await", "await_timeout"}
      BY <3>1, WantKinds
    <3>3. QED
      BY <3>2, <1>12 DEF AwaitReplay, Hit
  <2>2. ResultOf(journal[cursor + 1]) \in Results
    BY <2>1, ResultOfType
  <2>3. pc' \in {"call", "succeed", "error"} /\ cause' \in Causes /\ step' \in Steps
    BY <2>2, <1>12, AdvanceType DEF AwaitReplay
  <2>4. QED
    BY <2>3, <1>12 DEF AwaitReplay, Hit
<1>13. CASE AwaitFetch
  <2>1. mailbox' = mailbox /\ mailbox[SignalOf[step]] \in Payloads \cup {Nil}
    BY ProgramAssumption, <1>13 DEF AwaitFetch, Fetched
  <2>2. CASE mailbox[SignalOf[step]] # Nil /\ Record("await", mailbox[SignalOf[step]])
    <3>1. pc' = "commit" /\ pending' \in LogEntry /\ pending'.kind = "await"
      BY <2>1, <2>2, <1>13, RecordType DEF AwaitFetch
    <3>2. QED
      BY <3>1, <2>1, <1>13 DEF AwaitFetch
  <2>3. CASE pc' = "expire" /\ UNCHANGED pending
    BY <2>1, <2>3, <1>13 DEF AwaitFetch
  <2>4. QED
    BY <2>2, <2>3, <1>13 DEF AwaitFetch
<1>14. CASE AwaitExpire
  <2>1. CASE Record("await_timeout", Nil)
    <3>1. pc' = "commit" /\ pending' \in LogEntry /\ pending'.kind = "await_timeout"
      BY <2>1, <1>14, RecordType DEF AwaitExpire
    <3>2. QED
      BY <3>1, <1>14 DEF AwaitExpire
  <2>2. CASE pc' = "suspend" /\ UNCHANGED pending
    BY <2>2, <1>14 DEF AwaitExpire
  <2>3. QED
    BY <2>1, <2>2, <1>14 DEF AwaitExpire
<1>15. CASE AwaitAck
  <2>1. journal[cursor] \in LogEntry /\ journal[cursor].val \in Results
    BY <1>15 DEF AwaitAck, LogEntry, Results
  <2>2. pc' \in {"call", "succeed", "error"} /\ cause' \in Causes /\ step' \in Steps
    BY <2>1, <1>15, AdvanceType DEF AwaitAck
  <2>3. QED
    BY <2>2, <1>15 DEF AwaitAck, Acked, Fault
<1>16. CASE AwaitAckFails
  <2>1. journal[cursor] \in LogEntry /\ journal[cursor].val \in Results
    BY <1>16 DEF AwaitAckFails, LogEntry, Results
  <2>2. pc' \in {"call", "succeed", "error"} /\ cause' \in Causes /\ step' \in Steps
    BY <2>1, <1>16, AdvanceType DEF AwaitAckFails
  <2>3. QED
    BY <2>2, <1>16 DEF AwaitAckFails, Acked, Fault
<1>17. CASE ReturnReplay
  <2>1. journal[cursor + 1] \in LogEntry /\ journal[cursor + 1].kind = "return"
    BY WantKinds, <1>17 DEF ReturnReplay, Hit
  <2>2. returnData' \in Values
    BY <2>1, <1>17 DEF ReturnReplay, LogEntry
  <2>3. QED
    BY <2>2, <1>17 DEF ReturnReplay, Hit
<1>18. CASE ReturnFirst
  <2>1. pc' = "commit" /\ pending' \in LogEntry /\ pending'.kind = "return"
    BY <1>18, RecordType DEF ReturnFirst
  <2>2. QED
    BY <2>1, <1>18 DEF ReturnFirst
<1>19. CASE Commit
  <2>1. pending \in LogEntry /\ log' \in Seq(LogEntry) /\ journal' \in Seq(LogEntry)
        /\ cursor' = Len(journal') /\ Len(journal') = Len(journal) + 1
        /\ journal'[Len(journal')] = pending
    BY <1>19 DEF Commit, End
  <2>2. sleepDeadline' \in Nat /\ awaitDeadline' \in Nat /\ returnData' \in Values \cup {Nil}
    BY <2>1, <1>19 DEF Commit, LogEntry
  <2>3. CASE pending.kind \in {"exec", "await_timeout"} /\ Advance(ResultOf(pending))
    <3>1. pc' \in {"call", "succeed", "error"} /\ cause' \in Causes /\ step' \in Steps
      BY <2>1, <2>3, <1>19, ResultOfType, AdvanceType DEF Commit
    <3>2. QED
      BY <3>1, <2>1, <2>2, <1>19 DEF Commit
  <2>4. CASE pending.kind = "sleep" /\ pc' = "check" /\ UNCHANGED <<step, cause>>
    BY <2>1, <2>2, <2>4, <1>19 DEF Commit
  <2>5. CASE pending.kind = "await_deadline" /\ pc' = "outcome" /\ UNCHANGED <<step, cause>>
    BY <2>1, <2>2, <2>5, <1>19 DEF Commit
  <2>6. CASE pending.kind = "await" /\ pc' = "ack" /\ UNCHANGED <<step, cause>>
    BY <2>1, <2>2, <2>6, <1>19 DEF Commit
  <2>7. CASE pending.kind = "return" /\ pc' = "succeed" /\ UNCHANGED <<step, cause>>
    BY <2>1, <2>2, <2>7, <1>19 DEF Commit
  <2>8. QED
    BY <2>3, <2>4, <2>5, <2>6, <2>7, <1>19 DEF Commit
<1>20. CASE StorageError
  <2>1. log' \in Seq(LogEntry)
    BY <1>20 DEF StorageError
  <2>2. QED
    BY <2>1, <1>20, LeaveType DEF StorageError, Fault
<1>21. CASE Suspend
  BY <1>21, LeaveType DEF Suspend, Statuses
<1>22. CASE Succeed
  BY <1>22, LeaveType DEF Succeed, Statuses, Causes
<1>23. CASE FailRun
  BY <1>23, LeaveType DEF FailRun, Statuses
<1>24. CASE Interrupted
  BY <1>24, LeaveType DEF Interrupted
<1>25. CASE StatusWriteFails
  BY <1>25, LeaveType DEF StatusWriteFails, Fault
<1>26. CASE Retry
  <2>1. meta' \in [status : Statuses, version : Versions, output : Values \cup {Nil}, err : Causes]
    BY <1>26 DEF Retry, Statuses, Causes
  <2>2. QED
    BY <2>1, <1>26 DEF Retry
<1>27. CASE \E p \in Payloads : SignalCheck(p)
  BY <1>27 DEF SignalCheck
<1>28. CASE \E p \in Payloads : SignalPush(p)
  BY <1>28, BoundsAssumption DEF SignalPush
<1>29. CASE Shutdown
  BY <1>29 DEF Shutdown
<1>30. CASE Crash
  <2>1. ctxDone' \in BOOLEAN
    BY <1>30, Zenon DEF Crash
  <2>2. sent' \subseteq Payloads /\ pushed' \subseteq sent'
    BY <1>30 DEF Crash
  <2>3. crashes' \in Nat
    BY <1>30 DEF Crash
  <2>4. deployed' \in Versions \cup {NoVersion}
    BY <1>30 DEF Crash
  <2>5. QED
    BY <2>1, <2>2, <2>3, <2>4, <1>30, LeaveType DEF Crash
<1>31. CASE Tick
  BY <1>31 DEF Tick
<1>32. CASE UNCHANGED vars
  BY <1>32 DEF vars
<1>33. CASE Register
  BY <1>33 DEF Register
<1>34. CASE StorageErrorHandled
  <2>1. log' \in Seq(LogEntry)
    <3>1. pending \in LogEntry
      BY <1>34 DEF StorageErrorHandled
    <3>2. QED
      BY <3>1, <1>34 DEF StorageErrorHandled
  <2>2. pc' \in {"call", "succeed"} /\ cause' = cause /\ step' \in Steps
    BY <1>34, HandledType DEF StorageErrorHandled
  <2>3. QED
    BY <2>1, <2>2, <1>34 DEF StorageErrorHandled, Fault
<1>35. CASE BusinessError
  BY <1>35, DropType DEF BusinessError
<1>36. CASE Cancel
  BY <1>36 DEF Cancel, Statuses, Causes
<1>37. QED
  BY <1>34, <1>35, <1>36, <1>1, <1>2, <1>3, <1>4, <1>5, <1>6, <1>7, <1>8, <1>9, <1>10, <1>11, <1>12, <1>13, <1>14, <1>15, <1>16, <1>17, <1>18, <1>19, <1>20, <1>21, <1>22, <1>23, <1>24, <1>25, <1>26, <1>27, <1>28, <1>29, <1>30, <1>31, <1>32, <1>33
  DEF Next, Run, Primitive, StoreFailure, Environment

\* TypeOK holds in every state of every behaviour.
THEOREM TypeCorrect == Spec => []TypeOK
<1>1. Init => TypeInv
  BY TypeInit
<1>2. TypeInv /\ [Next]_vars => TypeInv'
  BY TypeStep
<1>3. TypeInv => TypeOK
  BY DEF TypeInv
<1>4. QED
  BY <1>1, <1>2, <1>3, PTL DEF Spec
=============================================================================
