--------------------------- MODULE LeasedExecute ---------------------------
(***************************************************************************)
(* Execute in time: the lease of a run (src/infra/memory/locker.go), the   *)
(* attempts and backoff waits of executeWithPolicy (src/engine/context.go) *)
(* that happen under it, and the clock both depend on.  The engine does    *)
(* not renew leases, so a run that executes for longer than its lease is   *)
(* taken over while it executes; docs/track.md 4.3 makes it a condition of *)
(* the deployment that no run does.                                        *)
(*                                                                         *)
(* One run, whose workflow function is one Execute, and processes that are *)
(* workers of engines sharing the store: each may take the run, die with   *)
(* the lease, or fail to release it.                                       *)
(***************************************************************************)
EXTENDS RetryPolicy, Clock

CONSTANTS
  Procs,      \* workers
  Policies,   \* the policies an Execute may be given
  Timeout,    \* WithTimeout
  Lease,      \* the duration of a lease
  MaxTime     \* bound: the clock

\* No lease: like one that expired before anything happened.
NoLease == 0

ASSUME LeaseAssumption ==
  /\ Timeout \in Nat \ {0} /\ Lease \in Nat \ {0} /\ MaxTime \in Nat
  /\ \A pol \in Policies : IsPolicy(pol) /\ WorstCase(pol, Timeout) < Lease
  /\ Procs \cap Policies = {}

VARIABLES
  expiry,     \* when the lease of the run expires, or NoLease
  pc, since,  \* what a worker does next; when it acquired the lease
  policy,     \* the policy of its Execute
  counter,    \* the policy object it asks: its own copy, or a shared one
  failures,   \* failures[o]: the counter inside policy object o
  calls,      \* calls of fn in this Execute
  limit,      \* when the running fn times out, or the backoff wait ends
  ctxDone,    \* the engine's context is cancelled
  overran,    \* history: a worker has held the run for as long as a lease
  late        \* history: somebody took more time than the policy grants

callVars == <<policy, counter, failures, calls>>
historyVars == <<overran, late>>
vars == <<clockVars, expiry, pc, since, callVars, limit, ctxDone, historyVars>>

Holding == {"check", "fn", "next", "wait", "release"}

Init ==
  /\ ClockInit
  /\ expiry = NoLease
  /\ pc = [p \in Procs |-> "idle"] /\ since = [p \in Procs |-> 0]
  /\ policy = [p \in Procs |-> NoRetry]
  /\ counter = [p \in Procs |-> p]
  /\ failures = [o \in Procs \cup Policies |-> 0]
  /\ calls = [p \in Procs |-> 0] /\ limit = [p \in Procs |-> 0]
  /\ ctxDone = FALSE /\ overran = FALSE /\ late = FALSE

-----------------------------------------------------------------------------

Goto(p, l) == pc' = [pc EXCEPT ![p] = l]

\* run() is over, and with it the locals of Execute.
Leave(p) ==
  /\ Goto(p, "idle")
  /\ since' = [since EXCEPT ![p] = 0]
  /\ policy' = [policy EXCEPT ![p] = NoRetry]
  /\ counter' = [counter EXCEPT ![p] = p]
  /\ failures' = [failures EXCEPT ![p] = 0]
  /\ calls' = [calls EXCEPT ![p] = 0]
  /\ limit' = [limit EXCEPT ![p] = 0]

\* A lease that is there and expires later than now.  (Mutant: a lease that
\* is about to expire no longer counts.)
MutNearlyOver == expiry > now + 1
Leased == expiry > now

\* ForExec clones a policy with a counter, a Cloner; NoRetry, which stands for
\* no policy too, is not one and is used as it is.  (Mutant: every policy object
\* is shared by all Execute calls that are given it.)
MutShared(p, pol) == pol
ForExec(p, pol) == IF pol.kind = "none" THEN pol ELSE p

\* Acquire, and Execute starts with its own copy of the policy.
Acquire(p) ==
  /\ pc[p] = "idle" /\ ~Leased
  /\ expiry' = now + Lease
  /\ since' = [since EXCEPT ![p] = now]
  /\ \E pol \in Policies :
       /\ policy' = [policy EXCEPT ![p] = pol]
       /\ counter' = [counter EXCEPT ![p] = ForExec(p, pol)]
  /\ Goto(p, "check")
  /\ UNCHANGED <<clockVars, failures, calls, limit, ctxDone, historyVars>>

\* The engine's context first, then fn.
Attempt(p) ==
  /\ pc[p] = "check"
  /\ \/ ctxDone /\ Goto(p, "release") /\ UNCHANGED <<calls, limit>>
     \/ /\ ~ctxDone
        /\ calls' = [calls EXCEPT ![p] = @ + 1]
        /\ limit' = [limit EXCEPT ![p] = now + Timeout]
        /\ Goto(p, "fn")
  /\ UNCHANGED <<clockVars, expiry, since, policy, counter, failures, ctxDone, historyVars>>

\* fn succeeds, or returns an error, of its own or for its context.
FnReturns(p) ==
  /\ pc[p] = "fn"
  /\ Goto(p, "release") \/ Goto(p, "next")
  /\ UNCHANGED <<clockVars, expiry, since, callVars, limit, ctxDone, historyVars>>

\* retry.Next: give up, go on at once, or wait.
AskPolicy(p) ==
  LET o == counter[p]
      n == failures[o]
      delay == DelayFor(policy[p], n + 1)
  IN
  /\ pc[p] = "next"
  /\ failures' = [failures EXCEPT ![o] = Counted(policy[p], n)]
  /\ \/ ~Again(policy[p], n) /\ Goto(p, "release") /\ UNCHANGED <<clockVars, limit>>
     \/ /\ Again(policy[p], n) /\ delay <= 0
        /\ Goto(p, "check")
        /\ UNCHANGED <<clockVars, limit>>
     \/ /\ Again(policy[p], n) /\ delay > 0
        /\ After(p, delay)
        /\ limit' = [limit EXCEPT ![p] = now + delay]
        /\ Goto(p, "wait")
  /\ UNCHANGED <<expiry, since, policy, counter, calls, ctxDone, historyVars>>

\* select: the timer, or the engine's context.
Wait(p) ==
  /\ pc[p] = "wait"
  /\ \/ p \in ready /\ Goto(p, "check") /\ ready' = ready \ {p}
     \/ ctxDone /\ Goto(p, "release") /\ UNCHANGED ready
  /\ UNCHANGED <<now, timers, due, expiry, since, callVars, limit, ctxDone, historyVars>>

\* Release deletes the lease whoever holds it; a failed Release leaves it.
Release(p) ==
  /\ pc[p] = "release"
  /\ expiry' \in {NoLease, expiry}
  /\ Leave(p)
  /\ UNCHANGED <<clockVars, ctxDone, historyVars>>

\* The process of p dies and restarts; the lease stays.
Die(p) ==
  /\ pc[p] \in Holding
  /\ Leave(p)
  /\ Forget(p)
  /\ UNCHANGED <<expiry, ctxDone, historyVars>>

\* The instant up to which p's time is accounted for.
Granted(p) == IF pc[p] \in {"fn", "wait"} THEN limit[p] ELSE now

Advance(d) ==
  LET holders == { p \in Procs : pc[p] \in Holding }
  IN
  /\ now + d <= MaxTime
  /\ AdvanceTime(d)
  /\ late' = (late \/ \E p \in holders : now + d > Granted(p))
  /\ overran' = (overran \/ \E p \in holders : now + d >= since[p] + Lease)
  /\ UNCHANGED <<expiry, pc, since, callVars, limit, ctxDone>>

Deliver == Send /\ UNCHANGED <<expiry, pc, since, callVars, limit, ctxDone, historyVars>>

Stop ==
  /\ ~ctxDone /\ ctxDone' = TRUE
  /\ UNCHANGED <<clockVars, expiry, pc, since, callVars, limit, historyVars>>

Next ==
  \/ \E p \in Procs :
       \/ Acquire(p) \/ Attempt(p) \/ FnReturns(p) \/ AskPolicy(p) \/ Wait(p) \/ Release(p)
       \/ Die(p)
  \/ \E d \in 1..MaxTime : Advance(d)
  \/ Deliver \/ Stop

Spec == Init /\ [][Next]_vars

-----------------------------------------------------------------------------
(* Properties. *)

\* A run has two holders at a time only after one of its holders, perhaps one
\* long gone whose Release removed another's lease, has outstayed its own.
TakeoverNeedsOverrun ==
  \A p, q \in Procs : p # q /\ pc[p] \in Holding /\ pc[q] \in Holding => overran

\* A lease longer than WorstCase is long enough: as long as fn keeps its
\* timeout and nothing else takes time, no lease expires under its holder.
TimelyNeverOverruns == ~late => ~overran

\* When fn has failed, Execute gives up only if it has called fn exactly as often
\* as its policy says, and tries again or waits to only if it has called it less
\* often, whatever other Execute calls were given the same policy object.
AttemptsExact ==
  [][\A p \in Procs :
       pc[p] = "next" =>
         /\ pc'[p] = "release" => calls[p] = policy[p].attempts
         /\ pc'[p] \in {"check", "wait"} => calls[p] < policy[p].attempts]_vars

\* A backoff wait has its timer: it is set for the end of the wait, or has been
\* sent or is about to be, and then the wait is really over.
TimersDeliver ==
  \A p \in Procs :
    pc[p] = "wait" =>
      IF now < limit[p]
      THEN p \notin ready /\ In(p, timers)
      ELSE p \in ready \/ In(p, due)
=============================================================================
