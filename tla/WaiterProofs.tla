---------------------------- MODULE WaiterProofs ----------------------------
(***************************************************************************)
(* WaitDone and the waiter registry: no registration is left behind, no    *)
(* wakeup is missed, and what is returned is terminal.                     *)
(***************************************************************************)
EXTENDS LifecycleProofs

\* Labels of a WaitDone call that is registered or has been told.
Waiting == {"query", "select", "requery", "remove"}

\* Labels at which the maker of a terminal status has still to detach the waiters.
Telling == {"cancel_audit", "cancel_clear", "notify"}

\* A registration belongs to a WaitDone call in progress, on that run.
Registered == \A r \in Runs : \A x \in byID[r] : x \in Waiters /\ pc[x] \in Waiting /\ on[x] = r

\* A call that has not been told is registered, or somebody is about to tell it.
Known == \A x \in Waiters :
  pc[x] \in {"query", "select"} /\ x \notin closed =>
    \/ x \in byID[on[x]]
    \/ \E q \in Procs : pc[q] = "close" /\ on[q] = on[x] /\ x \in closing[q]

\* Whoever blocks on a run that is terminal has its teller.
Told == \A x \in Waiters :
  pc[x] = "select" /\ x \in byID[on[x]] /\ IsTerminal(status[on[x]]) =>
    \E q \in Procs : pc[q] \in Telling /\ on[q] = on[x]

WaiterInv == Registered /\ Known /\ Told

\* A teller stays one until it detaches the registrations.
LEMMA TellingStep ==
  ASSUME TypeInv, [Next]_vars, ~Crash, NEW q \in Procs, pc[q] \in Telling
  PROVE  Notify(q) \/ (pc'[q] \in Telling /\ on'[q] = on[q])
<1> USE DEF clientVars, Goto
<1>0. pc \in [Procs -> Labels] /\ on \in [Procs -> Runs \cup {None}]
  BY DEF TypeInv, TypeOK
<1>1. ASSUME NEW p \in Procs, p # q, Others(p) PROVE pc'[q] \in Telling /\ on'[q] = on[q]
  BY <1>1 DEF Others
<1>2. ASSUME UNCHANGED <<pc, on>> PROVE pc'[q] \in Telling /\ on'[q] = on[q]
  BY <1>2
<1>3. ASSUME NEW p \in Procs, Others(p), pc[p] \notin Telling PROVE pc'[q] \in Telling /\ on'[q] = on[q]
  BY <1>1, <1>3
<1>4. ASSUME NEW p \in Procs,
             \/ WorkerTake(p) \/ RunOnce(p) \/ RunAcquire(p) \/ RunGate(p) \/ RunMark(p)
             \/ RunSuspend(p) \/ RunWakeup(p) \/ RunSucceed(p) \/ RunError(p) \/ RunFail(p)
             \/ RunStoreFails(p) \/ RunRelease(p) \/ NotifyClose(p)
      PROVE  pc'[q] \in Telling /\ on'[q] = on[q]
  <2>1. Others(p)
    BY <1>0, <1>4
    DEF WorkerTake, RunOnce, RunAcquire, RunGate, RunMark, RunSuspend, RunWakeup, RunSucceed, RunError,
        RunFail, RunStoreFails, RunRelease, NotifyClose, Return, Others
  <2>2. pc[p] \notin Telling
    BY <1>4
    DEF WorkerTake, RunOnce, RunAcquire, RunGate, RunMark, RunSuspend, RunWakeup, RunSucceed, RunError,
        RunFail, RunStoreFails, RunRelease, NotifyClose, Telling
  <2>3. QED
    BY <1>3, <2>1, <2>2
<1>5. ASSUME NEW p \in Procs, RunBody(p) PROVE pc'[q] \in Telling /\ on'[q] = on[q]
  <2>1. pc' = pc \/ \E l \in {"succeed", "error", "suspend"} : pc' = [pc EXCEPT ![p] = l]
    BY <1>5 DEF RunBody
  <2>2. pc[p] = "body" /\ on' = on
    BY <1>5 DEF RunBody
  <2>3. QED
    BY <1>0, <1>3, <2>1, <2>2 DEF Others, Telling
<1>6. ASSUME NEW p \in Procs,
             \/ SignalCheck(p) \/ SignalPush(p) \/ ClientDispatch(p) \/ ClientAcquire(p)
             \/ CancelCheck(p) \/ CancelStatus(p) \/ RetryCheck(p) \/ RetryReset(p)
             \/ RetryRelease(p) \/ ClientRelease(p)
      PROVE  pc'[q] \in Telling /\ on'[q] = on[q]
  <2>1. Others(p)
    BY <1>0, <1>6
    DEF SignalCheck, SignalPush, ClientDispatch, ClientAcquire, CancelCheck, CancelStatus, RetryCheck,
        RetryReset, RetryRelease, ClientRelease, Finish, Others
  <2>2. pc[p] \notin Telling
    BY <1>6
    DEF SignalCheck, SignalPush, ClientDispatch, ClientAcquire, CancelCheck, CancelStatus, RetryCheck,
        RetryReset, RetryRelease, ClientRelease, Telling
  <2>3. QED
    BY <1>3, <2>1, <2>2
<1>7. ASSUME NEW p \in Procs, CancelAudit(p) \/ CancelClear(p) PROVE pc'[q] \in Telling /\ on'[q] = on[q]
  <2>1. Others(p) /\ on' = on /\ pc'[p] \in Telling
    BY <1>0, <1>7 DEF CancelAudit, CancelClear, Others, Telling
  <2>2. QED
    BY <1>1, <2>1
<1>8. ASSUME NEW p \in Procs, Notify(p) PROVE Notify(q) \/ (pc'[q] \in Telling /\ on'[q] = on[q])
  BY <1>0, <1>1, <1>8 DEF Notify, Others
<1>9. ASSUME NEW p \in Procs, WaitDone(p) \/ WaitGiveUp(p) PROVE pc'[q] \in Telling /\ on'[q] = on[q]
  BY <1>0, <1>3, <1>9
  DEF WaitDone, WaitAdd, WaitQuery, WaitSelect, WaitGiveUp, WaitRequery, WaitRemove, Others, Telling
<1>10. ASSUME NEW p \in Procs, Stop(p) \/ StopTimeout(p) PROVE pc'[q] \in Telling /\ on'[q] = on[q]
  BY <1>0, <1>3, <1>10
  DEF Stop, StopCancel, StopClose, StopWait, StopTimeout, StopTimers, Finish, Others, Telling
<1>11. ASSUME NEW r \in Runs, Start(r) \/ RecoverDispatch(r) \/ Elapse(r) \/ LeaseExpires(r)
       PROVE  UNCHANGED <<pc, on>>
  BY <1>11
  DEF Start, StartCreate, StartRecover, StartScan, StartDispatch, RecoverDispatch, Elapse, LeaseExpires
<1>12. CASE RecoverScan \/ UNCHANGED vars \/ UNCHANGED <<pc, on, clientVars, storeVars>>
  BY <1>2, <1>12 DEF RecoverScan, vars
<1>13. QED
  BY <1>2, <1>4, <1>5, <1>6, <1>7, <1>8, <1>9, <1>10, <1>11, <1>12
  DEF Next, Run, Call, Executors, Clients, Procs

\* Facts about the kinds that the following proofs use.
LEMMA WaiterTypes ==
  ASSUME TypeInv, KindInv
  PROVE  /\ Waiters \subseteq Procs
         /\ pc \in [Procs -> Labels] /\ on \in [Procs -> Runs \cup {None}]
         /\ byID \in [Runs -> SUBSET Waiters] /\ closed \subseteq Waiters
         /\ closing \in [Procs -> SUBSET Waiters]
         /\ seen \in [Procs -> Statuses \cup {None, "ok", "busy", "ignored", "error"}]
         /\ \A p \in Procs : pc[p] \in Waiting => p \in Waiters /\ on[p] \in Runs
         /\ \A p \in Procs : pc[p] \in Telling \cup {"close"} => p \notin Waiters /\ on[p] \in Runs
<1>1. \A p \in Procs : InKind(p) /\ (pc[p] \in Busy => on[p] \in Runs)
  BY DEF TypeInv, OnRuns, KindInv
<1>2. \A p \in Procs : pc[p] \in Waiting => p \in Waiters /\ on[p] \in Runs
  BY <1>1 DEF InKind, RunLabels, Waiting, Busy, Procs, Executors, Clients
<1>3. \A p \in Procs : pc[p] \in Telling \cup {"close"} => p \notin Waiters /\ on[p] \in Runs
  BY <1>1 DEF InKind, Telling, Busy, Critical
<1>4. QED
  BY <1>2, <1>3 DEF TypeInv, TypeOK, RegistryTypeOK, Procs, Clients

\* Registrations are added and removed by their own WaitDone call, or taken by notify.
LEMMA RegisteredStep == TypeInv /\ KindInv /\ Registered /\ [Next]_vars => Registered'
<1> SUFFICES ASSUME TypeInv, KindInv, Registered, [Next]_vars PROVE Registered'
  OBVIOUS
<1> USE DEF registryVars, Goto
<1>0. /\ Waiters \subseteq Procs
      /\ pc \in [Procs -> Labels] /\ on \in [Procs -> Runs \cup {None}]
      /\ byID \in [Runs -> SUBSET Waiters]
      /\ \A p \in Procs : pc[p] \in Waiting => p \in Waiters /\ on[p] \in Runs
      /\ \A p \in Procs : pc[p] \in Telling \cup {"close"} => p \notin Waiters /\ on[p] \in Runs
  BY WaiterTypes
<1>1. CASE Crash
  BY <1>1 DEF Crash, Registered
<1>2. CASE UNCHANGED <<pc, on, registryVars>>
  BY <1>2 DEF Registered
<1>3. ASSUME NEW p \in Procs, Others(p), p \notin Waiters, \A r \in Runs : byID'[r] \subseteq byID[r]
      PROVE  Registered'
  BY <1>0, <1>3 DEF Registered, Others
<1>4. ASSUME NEW p \in Procs, Notify(p) \/ NotifyClose(p), Others(p) PROVE Registered'
  <2>1. p \notin Waiters /\ on[p] \in Runs
    BY <1>0, <1>4 DEF Notify, NotifyClose, Telling
  <2>2. \A r \in Runs : byID'[r] \subseteq byID[r]
    BY <1>0, <1>4, <2>1 DEF Notify, NotifyClose, Detach, Close
  <2>3. QED
    BY <1>3, <1>4, <2>1, <2>2
<1>5. ASSUME NEW p \in Procs, WaitAdd(p) PROVE Registered'
  <2>1. PICK r \in Runs : byID' = [byID EXCEPT ![r] = @ \cup {p}] /\ on' = [on EXCEPT ![p] = r]
    BY <1>5 DEF WaitAdd, Add
  <2>2. p \in Waiters /\ pc[p] = "start" /\ pc' = [pc EXCEPT ![p] = "query"]
    BY <1>5 DEF WaitAdd
  <2>3. \A x \in Runs : p \notin byID[x]
    BY <2>2 DEF Registered, Waiting
  <2>4. QED
    BY <1>0, <2>1, <2>2, <2>3 DEF Registered, Waiting
<1>6. ASSUME NEW p \in Procs, WaitQuery(p) \/ WaitSelect(p) \/ WaitGiveUp(p) \/ WaitRequery(p)
      PROVE  Registered'
  <2>1. UNCHANGED <<byID, on>> /\ \E l \in Waiting : pc' = [pc EXCEPT ![p] = l]
    BY <1>6 DEF WaitQuery, WaitSelect, WaitGiveUp, WaitRequery, Waiting
  <2>2. QED
    BY <1>0, <2>1 DEF Registered
<1>7. ASSUME NEW p \in Procs, WaitRemove(p) PROVE Registered'
  <2>1. /\ pc[p] = "remove" /\ byID' = [byID EXCEPT ![on[p]] = @ \ {p}]
        /\ pc' = [pc EXCEPT ![p] = "done"] /\ on' = [on EXCEPT ![p] = None]
    BY <1>7 DEF WaitRemove, Remove
  <2>2. on[p] \in Runs /\ \A x \in Runs : p \in byID[x] => x = on[p]
    BY <1>0, <2>1 DEF Registered, Waiting
  <2>3. QED
    BY <1>0, <2>1, <2>2 DEF Registered
<1>8. ASSUME NEW p \in Procs, NoWaiter(p), Acts(p) PROVE Registered'
  BY <1>0, <1>3, <1>8 DEF NoWaiter, Acts
<1>9. QED
  BY <1>1, <1>2, <1>4, <1>5, <1>6, <1>7, <1>8, Actor DEF WaitDone, Acts

\* A call that blocks leaves the registry only into the hands of who closes its channel.
LEMMA KnownStep == TypeInv /\ KindInv /\ Registered /\ Known /\ [Next]_vars => Known'
<1> SUFFICES ASSUME TypeInv, KindInv, Registered, Known, [Next]_vars PROVE Known'
  OBVIOUS
<1> USE DEF registryVars, Goto
<1>0. /\ Waiters \subseteq Procs
      /\ pc \in [Procs -> Labels] /\ on \in [Procs -> Runs \cup {None}]
      /\ byID \in [Runs -> SUBSET Waiters] /\ closing \in [Procs -> SUBSET Waiters]
      /\ \A p \in Procs : pc[p] \in Waiting => p \in Waiters /\ on[p] \in Runs
      /\ \A p \in Procs : pc[p] \in Telling \cup {"close"} => p \notin Waiters /\ on[p] \in Runs
  BY WaiterTypes
<1>1. CASE Crash
  BY <1>0, <1>1 DEF Crash, Known
<1>2. CASE UNCHANGED <<pc, on, closing, registryVars>>
  BY <1>2 DEF Known
<1>3. ASSUME NEW p \in Procs, NoWaiter(p), Acts(p) PROVE Known'
  BY <1>0, <1>3 DEF NoWaiter, Acts, Others, Known
<1>4. ASSUME NEW p \in Procs, Notify(p), Acts(p) PROVE Known'
  <2>1. /\ on[p] \in Runs /\ p \notin Waiters /\ pc[p] = "notify" /\ pc'[p] = "close" /\ on' = on
        /\ closing'[p] = byID[on[p]] /\ closed' = closed
        /\ \A r \in Runs : r # on[p] => byID'[r] = byID[r]
    BY <1>0, <1>4 DEF Notify, Detach, Telling
  <2>2. \A q \in Procs \ {p} : pc'[q] = pc[q] /\ closing'[q] = closing[q]
    BY <1>4 DEF Acts, Others
  <2> SUFFICES ASSUME NEW x \in Waiters, pc'[x] \in {"query", "select"}, x \notin closed'
               PROVE  \/ x \in byID'[on'[x]]
                      \/ \E q \in Procs : pc'[q] = "close" /\ on'[q] = on'[x] /\ x \in closing'[q]
    BY DEF Known
  <2>3. pc[x] \in {"query", "select"} /\ x \notin closed /\ x # p /\ on[x] \in Runs
    BY <1>0, <2>1, <2>2 DEF Waiting
  <2>4. CASE x \in byID[on[x]]
    BY <2>1, <2>3, <2>4
  <2>5. CASE \E q \in Procs : pc[q] = "close" /\ on[q] = on[x] /\ x \in closing[q]
    BY <2>1, <2>2, <2>5
  <2>6. QED
    BY <2>3, <2>4, <2>5 DEF Known
<1>5. ASSUME NEW p \in Procs, NotifyClose(p), Acts(p) PROVE Known'
  <2>1. /\ p \notin Waiters /\ pc[p] = "close" /\ on' = on
        /\ closed' = closed \cup closing[p] /\ byID' = byID
    BY <1>0, <1>5 DEF NotifyClose, Close
  <2>2. \A q \in Procs \ {p} : pc'[q] = pc[q] /\ closing'[q] = closing[q]
    BY <1>5 DEF Acts, Others
  <2>3. QED
    BY <1>0, <2>1, <2>2 DEF Known
<1>6. ASSUME NEW p \in Procs, WaitAdd(p) PROVE Known'
  <2>1. PICK r \in Runs : byID' = [byID EXCEPT ![r] = @ \cup {p}] /\ on' = [on EXCEPT ![p] = r]
    BY <1>6 DEF WaitAdd, Add
  <2>2. pc[p] = "start" /\ pc' = [pc EXCEPT ![p] = "query"] /\ UNCHANGED <<closing, closed>>
    BY <1>6 DEF WaitAdd, Add
  <2>3. p \in byID'[r] /\ \A x \in Runs : byID[x] \subseteq byID'[x]
    BY <1>0, <2>1
  <2>4. QED
    BY <1>0, <2>1, <2>2, <2>3 DEF Known, Waiting
<1>7. ASSUME NEW p \in Procs, WaitQuery(p) \/ WaitSelect(p) \/ WaitGiveUp(p) \/ WaitRequery(p)
      PROVE  Known'
  <2>1. UNCHANGED <<byID, closed, closing, on>> /\ pc[p] \in Waiting
    BY <1>7 DEF WaitQuery, WaitSelect, WaitGiveUp, WaitRequery, Waiting
  <2>2. \/ pc[p] = "query" /\ pc' = [pc EXCEPT ![p] = "select"]
        \/ \E l \in {"requery", "remove"} : pc' = [pc EXCEPT ![p] = l]
    BY <1>7 DEF WaitQuery, WaitSelect, WaitGiveUp, WaitRequery
  <2>3. QED
    BY <1>0, <2>1, <2>2 DEF Known, Waiting
<1>8. ASSUME NEW p \in Procs, WaitRemove(p) PROVE Known'
  <2>1. /\ pc[p] = "remove" /\ byID' = [byID EXCEPT ![on[p]] = @ \ {p}]
        /\ pc' = [pc EXCEPT ![p] = "done"] /\ on' = [on EXCEPT ![p] = None]
        /\ UNCHANGED <<closed, closing>>
    BY <1>8 DEF WaitRemove, Remove
  <2>2. ASSUME NEW x \in Waiters, x # p, pc[x] \in {"query", "select"}, x \in byID[on[x]]
        PROVE  x \in byID'[on[x]]
    BY <1>0, <2>1, <2>2 DEF Waiting
  <2>3. QED
    BY <1>0, <2>1, <2>2 DEF Known
<1>9. QED
  BY <1>1, <1>2, <1>3, <1>4, <1>5, <1>6, <1>7, <1>8, Actor DEF WaitDone

\* Whoever makes a status terminal is its teller.
LEMMA NewTeller ==
  ASSUME RunInv, [Next]_vars, NEW r \in Runs, IsTerminal(status'[r]), ~IsTerminal(status[r])
  PROVE  \E q \in Procs : pc'[q] \in Telling /\ on'[q] = r
<1> USE DEF Goto
<1>0. /\ pc \in [Procs -> Labels] /\ status \in [Runs -> Statuses \cup {None}]
      /\ \A p \in Procs : Knows(p)
  BY DEF RunInv, TypeInv, TypeOK, HolderInv
<1>1. ASSUME NEW x \in Runs, StartCreate(x) PROVE FALSE
  BY <1>0, <1>1 DEF StartCreate, SetStatus, IsTerminal
<1>2. ASSUME NEW p \in Procs, Changes(p) PROVE pc'[p] \in Telling /\ on'[p] = r
  <2>1. CASE RunBody(p)
    BY <2>1 DEF RunBody
  <2>2. CASE RunMark(p) \/ RunSuspend(p) \/ RetryReset(p)
    BY <1>0, <2>2 DEF RunMark, RunSuspend, RetryReset, SetStatus, IsTerminal
  <2>3. CASE RunSucceed(p) \/ RunFail(p) \/ CancelStatus(p)
    BY <1>0, <2>3 DEF RunSucceed, RunFail, AfterFailed, CancelStatus, SetStatus, IsTerminal, Telling
  <2>4. QED
    BY <1>2, <2>1, <2>2, <2>3 DEF Changes
<1>3. QED
  BY <1>1, <1>2, ChangeKind

\* Whoever makes a run terminal goes on to tell the waiters that are registered by then.
LEMMA ToldStep == RunInv /\ Registered /\ Told /\ [Next]_vars => Told'
<1> SUFFICES ASSUME RunInv, Registered, Told, [Next]_vars,
                    NEW x \in Waiters, pc'[x] = "select", x \in byID'[on'[x]], IsTerminal(status'[on'[x]])
             PROVE  \E q \in Procs : pc'[q] \in Telling /\ on'[q] = on'[x]
  BY DEF Told
<1> USE DEF registryVars, Goto
<1>0. /\ Waiters \subseteq Procs
      /\ pc \in [Procs -> Labels] /\ on \in [Procs -> Runs \cup {None}]
      /\ byID \in [Runs -> SUBSET Waiters]
      /\ \A p \in Procs : pc[p] \in Waiting => p \in Waiters /\ on[p] \in Runs
      /\ \A p \in Procs : pc[p] \in Telling \cup {"close"} => p \notin Waiters /\ on[p] \in Runs
      /\ TypeInv /\ KindInv
  BY WaiterTypes DEF RunInv
<1>1. ~Crash
  BY <1>0 DEF Crash
\* x was blocked already: it blocks on a run that is not terminal.
<1>2. pc[x] = "select" /\ on'[x] = on[x] /\ x \in byID[on[x]]
  <2>1. CASE UNCHANGED <<pc, on, registryVars>>
    BY <2>1
  <2>2. ASSUME NEW p \in Procs, p # x, Acts(p), \A r \in Runs : byID'[r] \subseteq byID[r] \cup {p}
        PROVE  pc[x] = "select" /\ on'[x] = on[x] /\ x \in byID[on[x]]
    BY <1>0, <2>2 DEF Acts, Others, Waiting
  <2>3. ASSUME NEW p \in Procs, NoWaiter(p) \/ Notify(p) \/ NotifyClose(p)
        PROVE  p # x /\ \A r \in Runs : byID'[r] \subseteq byID[r] \cup {p}
    BY <1>0, <2>3 DEF NoWaiter, Notify, NotifyClose, Detach, Close, Telling
  <2>4. ASSUME NEW p \in Procs, WaitDone(p) \/ WaitGiveUp(p)
        PROVE  p # x /\ \A r \in Runs : byID'[r] \subseteq byID[r] \cup {p}
    <3>1. p # x
      BY <1>0, <2>4
      DEF WaitDone, WaitAdd, WaitQuery, WaitSelect, WaitGiveUp, WaitRequery, WaitRemove, storeVars,
          IsTerminal
    <3>2. \A r \in Runs : byID'[r] \subseteq byID[r] \cup {p}
      BY <1>0, <2>4
      DEF WaitDone, WaitAdd, WaitQuery, WaitSelect, WaitGiveUp, WaitRequery, WaitRemove, Add, Remove
    <3>3. QED
      BY <3>1, <3>2
  <2>5. QED
    BY <1>0, <1>1, <2>1, <2>2, <2>3, <2>4, Actor
<1>3. CASE IsTerminal(status[on[x]])
  <2>1. PICK q \in Procs : pc[q] \in Telling /\ on[q] = on[x]
    BY <1>2, <1>3 DEF Told
  <2>2. CASE Notify(q)
    BY <1>0, <1>2, <2>1, <2>2 DEF Notify, Detach
  <2>3. QED
    BY <1>0, <1>1, <1>2, <2>1, <2>2, TellingStep
<1>4. CASE ~IsTerminal(status[on[x]])
  <2>1. on[x] \in Runs
    BY <1>0, <1>2 DEF Waiting
  <2>2. QED
    BY <1>2, <1>4, <2>1, NewTeller
<1>5. QED
  BY <1>3, <1>4

\* No call is in progress at the start.
LEMMA WaiterInit == Init => WaiterInv
<1> SUFFICES ASSUME Init PROVE WaiterInv
  OBVIOUS
<1>1. \A x \in Waiters : pc[x] = "start"
  BY KindsDisjoint DEF Init, Procs, Clients
<1>2. \A r \in Runs : byID[r] = {}
  BY DEF Init, RegistryInit
<1>3. QED
  BY <1>1, <1>2 DEF WaiterInv, Registered, Known, Told

\* The registry's invariant, together with the holders' knowledge it rests on.
LEMMA WaiterInvariant == Spec => [](RunInv /\ WaiterInv)
<1>1. RunInv /\ WaiterInv /\ [Next]_vars => WaiterInv'
  BY RegisteredStep, KnownStep, ToldStep DEF RunInv, WaiterInv
<1>2. QED
  BY <1>1, WaiterInit, RunInvariant, PTL DEF Spec

\* A WaitDone call that has returned leaves no registration behind, whichever of
\* notify, the contexts and its own query made it return.
THEOREM WaitersCleanUp == Spec => []RegistryClean
<1>1. RunInv /\ WaiterInv => RegistryClean
  BY DEF WaiterInv, Registered, RegistryClean, Waiting
<1>2. QED
  BY <1>1, WaiterInvariant, PTL

\* No missed wakeup: a WaitDone that blocks on a terminal run has been told, or
\* whoever made the run terminal is still about to tell it.
THEOREM WaitersAreTold == Spec => []WaiterNotForgotten
<1>1. RunInv /\ WaiterInv => WaiterNotForgotten
  <2> SUFFICES ASSUME RunInv, WaiterInv, NEW p \in Waiters, pc[p] = "select",
                      IsTerminal(status[on[p]]), p \notin closed
               PROVE  \E q \in Procs :
                        /\ on[q] = on[p]
                        /\ \/ pc[q] \in {"cancel_audit", "cancel_clear", "notify"} /\ p \in byID[on[p]]
                           \/ pc[q] = "close" /\ p \in closing[q]
    BY DEF WaiterNotForgotten
  <2>1. CASE p \in byID[on[p]]
    BY <2>1 DEF WaiterInv, Told, Telling
  <2>2. CASE p \notin byID[on[p]]
    BY <2>2 DEF WaiterInv, Known
  <2>3. QED
    BY <2>1, <2>2
<1>2. QED
  BY <1>1, WaiterInvariant, PTL

-----------------------------------------------------------------------------
(* What WaitDone returns, when nobody calls Retry. *)

\* x has been told, or is about to be.
Notified(x) == x \in closed \/ \E q \in Procs : x \in closing[q]

\* Whoever has been told finds a terminal run; whoever has an answer has a terminal
\* one, or an error.
AnswerInv == \A x \in Waiters :
  /\ Notified(x) => pc[x] # "start" /\ (pc[x] \in Waiting => IsTerminal(status[on[x]]))
  /\ pc[x] = "requery" => IsTerminal(status[on[x]])
  /\ pc[x] \in {"remove", "done"} => IsTerminal(seen[x]) \/ seen[x] = "error"

\* Only Retry takes a run out of a terminal status.
LEMMA TerminalStays ==
  ASSUME Retriers = {}, RunInv, [Next]_vars, NEW r \in Runs, IsTerminal(status[r])
  PROVE  status'[r] = status[r]
<1>0. /\ status \in [Runs -> Statuses \cup {None}] /\ NotBefore
      /\ \A p \in Procs : Knows(p) /\ InKind(p)
  BY DEF RunInv, TypeInv, TypeOK, HolderInv, KindInv
<1>1. ASSUME NEW x \in Runs, StartCreate(x) PROVE status'[r] = status[r]
  <2>1. status[x] = None /\ status' = [status EXCEPT ![x] = "Running"]
    BY <1>0, <1>1 DEF StartCreate, SetStatus, NotBefore
  <2>2. QED
    BY <1>0, <2>1 DEF IsTerminal, None
<1>2. ASSUME NEW p \in Procs, Changes(p) PROVE status'[r] = status[r]
  <2>1. CASE RunBody(p)
    BY <2>1 DEF RunBody
  <2>2. CASE RetryReset(p)
    BY <1>0, <2>2 DEF RetryReset, InKind, RunLabels, Procs, Executors, Clients
  <2>3. CASE RunMark(p) \/ RunSuspend(p) \/ RunSucceed(p) \/ RunFail(p) \/ CancelStatus(p)
    BY <1>0, <2>3
    DEF RunMark, RunSuspend, RunSucceed, RunFail, CancelStatus, SetStatus, Knows, IsTerminal
  <2>4. QED
    BY <1>2, <2>1, <2>2, <2>3 DEF Changes
<1>3. QED
  BY <1>1, <1>2, ChangeKind

\* Without Retry, a terminal status that WaitDone has read or was told of stays terminal.
LEMMA AnswerStep ==
  ASSUME Retriers = {}
  PROVE  RunInv /\ WaiterInv /\ AnswerInv /\ [Next]_vars => AnswerInv'
<1> SUFFICES ASSUME RunInv, WaiterInv, AnswerInv, [Next]_vars PROVE AnswerInv'
  OBVIOUS
<1> USE DEF registryVars, Goto
<1>0. /\ Waiters \subseteq Procs
      /\ pc \in [Procs -> Labels] /\ on \in [Procs -> Runs \cup {None}]
      /\ byID \in [Runs -> SUBSET Waiters] /\ closing \in [Procs -> SUBSET Waiters]
      /\ seen \in [Procs -> Statuses \cup {None, "ok", "busy", "ignored", "error"}]
      /\ \A p \in Procs : pc[p] \in Waiting => p \in Waiters /\ on[p] \in Runs
      /\ \A p \in Procs : pc[p] \in Telling \cup {"close"} => p \notin Waiters /\ on[p] \in Runs
      /\ TypeInv /\ KindInv /\ Registered
      /\ \A p \in Procs : Knows(p) /\ InKind(p)
  BY WaiterTypes DEF RunInv, WaiterInv, KindInv, HolderInv
<1>t. \A r \in Runs : IsTerminal(status[r]) => IsTerminal(status'[r])
  BY TerminalStays
\* A waiter for which nothing happens but that the run may become terminal.
<1>1. ASSUME NEW x \in Waiters, pc'[x] = pc[x], on'[x] = on[x], seen'[x] = seen[x],
             Notified(x)' => Notified(x) \/ (pc[x] \in Waiting /\ IsTerminal(status'[on[x]]))
      PROVE  /\ Notified(x)' => pc'[x] # "start" /\ (pc'[x] \in Waiting => IsTerminal(status'[on'[x]]))
             /\ pc'[x] = "requery" => IsTerminal(status'[on'[x]])
             /\ pc'[x] \in {"remove", "done"} => IsTerminal(seen'[x]) \/ seen'[x] = "error"
  BY <1>0, <1>t, <1>1 DEF AnswerInv, Waiting
<1>2. CASE UNCHANGED <<pc, on, seen, closing, registryVars>>
  BY <1>1, <1>2 DEF AnswerInv, Notified
<1>3. ASSUME NEW p \in Procs, Acts(p), NoWaiter(p) PROVE AnswerInv'
  <2>1. \A x \in Waiters : /\ pc'[x] = pc[x] /\ on'[x] = on[x] /\ seen'[x] = seen[x]
                           /\ Notified(x)' => Notified(x)
    BY <1>0, <1>3 DEF Acts, Others, NoWaiter, Notified
  <2>2. QED
    BY <1>1, <2>1 DEF AnswerInv
<1>4. ASSUME NEW p \in Procs, Acts(p), Notify(p) PROVE AnswerInv'
  <2>1. /\ p \notin Waiters /\ pc[p] = "notify" /\ on[p] \in Runs /\ IsTerminal(status[on[p]])
        /\ closing'[p] = byID[on[p]] /\ closed' = closed
    BY <1>0, <1>4 DEF Notify, Detach, Telling, Knows
  <2>2. \A q \in Procs \ {p} : pc'[q] = pc[q] /\ on'[q] = on[q] /\ seen'[q] = seen[q] /\ closing'[q] = closing[q]
    BY <1>4 DEF Acts, Others
  <2>3. ASSUME NEW x \in Waiters, Notified(x)', ~Notified(x)
        PROVE  pc[x] \in Waiting /\ IsTerminal(status'[on[x]])
    <3>1. x \in byID[on[p]]
      BY <2>1, <2>2, <2>3 DEF Notified
    <3>2. QED
      BY <1>0, <1>t, <2>1, <3>1 DEF Registered
  <2>4. QED
    BY <1>0, <1>1, <2>1, <2>2, <2>3 DEF AnswerInv
<1>5. ASSUME NEW p \in Procs, Acts(p), NotifyClose(p) PROVE AnswerInv'
  <2>1. p \notin Waiters /\ closed' = closed \cup closing[p] /\ closing'[p] = {}
    BY <1>0, <1>5 DEF NotifyClose, Close
  <2>2. \A q \in Procs \ {p} : pc'[q] = pc[q] /\ on'[q] = on[q] /\ seen'[q] = seen[q] /\ closing'[q] = closing[q]
    BY <1>5 DEF Acts, Others
  <2>3. \A x \in Waiters : Notified(x)' => Notified(x)
    BY <2>1, <2>2 DEF Notified
  <2>4. QED
    BY <1>0, <1>1, <2>1, <2>2, <2>3 DEF AnswerInv
\* A WaitDone call moves on; nobody is told by that.
<1>6. ASSUME NEW p \in Procs, Acts(p), WaitDone(p) \/ WaitGiveUp(p) PROVE AnswerInv'
  <2>1. UNCHANGED <<closed, closing, status>>
    BY <1>6
    DEF WaitDone, WaitAdd, WaitQuery, WaitSelect, WaitGiveUp, WaitRequery, WaitRemove, Add, Remove, storeVars
  <2>2. \A x \in Waiters : Notified(x)' <=> Notified(x)
    BY <2>1 DEF Notified
  <2>3. \A x \in Waiters \ {p} : pc'[x] = pc[x] /\ on'[x] = on[x] /\ seen'[x] = seen[x]
    BY <1>0, <1>6 DEF Acts, Others
  <2>4. p \in Waiters
    BY <1>0, <1>6
    DEF WaitDone, WaitAdd, WaitQuery, WaitSelect, WaitGiveUp, WaitRequery, WaitRemove, Waiting
  <2>5. /\ Notified(p) => pc'[p] # "start" /\ (pc'[p] \in Waiting => IsTerminal(status[on'[p]]))
        /\ pc'[p] = "requery" => IsTerminal(status[on'[p]])
        /\ pc'[p] \in {"remove", "done"} => IsTerminal(seen'[p]) \/ seen'[p] = "error"
    <3>1. CASE WaitAdd(p)
      BY <1>0, <2>4, <3>1 DEF WaitAdd, AnswerInv, Waiting
    <3>2. CASE WaitQuery(p)
      BY <1>0, <2>4, <3>2 DEF WaitQuery, AnswerInv, Waiting
    <3>3. CASE WaitSelect(p) \/ WaitGiveUp(p)
      BY <1>0, <2>4, <3>3 DEF WaitSelect, WaitGiveUp, AnswerInv, Waiting, Notified
    <3>4. CASE WaitRequery(p)
      BY <1>0, <2>4, <3>4 DEF WaitRequery, AnswerInv, Waiting
    <3>5. CASE WaitRemove(p)
      BY <1>0, <2>4, <3>5 DEF WaitRemove, AnswerInv, Waiting
    <3>6. QED
      BY <1>6, <3>1, <3>2, <3>3, <3>4, <3>5 DEF WaitDone
  <2>6. QED
    BY <1>1, <2>1, <2>2, <2>3, <2>5 DEF AnswerInv
<1>7. CASE Crash
  <2>1. \A x \in Waiters : ~Notified(x)'
    BY <1>7 DEF Crash, Notified
  <2>2. ASSUME NEW x \in Waiters
        PROVE  /\ pc'[x] \in {"start", "done"}
               /\ pc'[x] = "done" => seen'[x] = "error" \/ (pc[x] = "done" /\ seen'[x] = seen[x])
    BY <1>0, <1>7, KindsDisjoint DEF Crash, Clients
  <2>3. QED
    BY <2>1, <2>2 DEF AnswerInv
<1>8. QED
  BY <1>0, <1>2, <1>3, <1>4, <1>5, <1>6, <1>7, Actor

\* WaitDone returns the metadata of a terminal run, or an error, as long as nobody
\* retries runs.
THEOREM WaitDoneAnswers ==
  ASSUME Retriers = {}
  PROVE  Spec => []WaitDoneIsTerminal
<1>1. Init => AnswerInv
  <2> SUFFICES ASSUME Init PROVE AnswerInv
    OBVIOUS
  <2>1. \A x \in Waiters : pc[x] = "start"
    BY KindsDisjoint DEF Init, Procs, Clients
  <2>2. \A x \in Waiters : ~Notified(x)
    BY DEF Init, RegistryInit, Notified
  <2>3. QED
    BY <2>1, <2>2 DEF AnswerInv
<1>2. RunInv /\ WaiterInv /\ AnswerInv /\ [Next]_vars => AnswerInv'
  BY AnswerStep
<1>3. AnswerInv => WaitDoneIsTerminal
  BY DEF AnswerInv, WaitDoneIsTerminal
<1>4. QED
  BY <1>1, <1>2, <1>3, WaiterInvariant, PTL DEF Spec
=============================================================================
