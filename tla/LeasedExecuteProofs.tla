------------------------ MODULE LeasedExecuteProofs ------------------------
(***************************************************************************)
(* An Execute under its lease, for every number of workers, every lease,   *)
(* every policy and every way the clock moves: the lease keeps a second    *)
(* holder away until somebody outstays it, attempts are those the policy   *)
(* grants, a lease longer than the policy's worst case is not outstayed,   *)
(* and every backoff wait is woken.                                        *)
(***************************************************************************)
EXTENDS LeasedExecute, WellFoundedInduction, TLAPS

Types ==
  /\ now \in Nat /\ expiry \in Nat
  /\ since \in [Procs -> Nat]
  /\ pc \in [Procs -> Holding \cup {"idle"}]
  /\ overran \in BOOLEAN

\* Until somebody overruns, the lease in the store is the holder's own and has
\* not expired; so there is one holder.  Both parts are needed: Release asks
\* nobody, and is harmless only because the lease it deletes is its caller's.
LeaseInv ==
  /\ Types
  /\ ~overran =>
       /\ \A p \in Procs : pc[p] \in Holding => expiry = since[p] + Lease /\ now < expiry
       /\ \A p, q \in Procs : pc[p] \in Holding /\ pc[q] \in Holding => p = q

\* The worker's locals and the clock's timers change; who holds what does not.
LEMMA HoldersStay ==
  ASSUME LeaseInv, UNCHANGED <<now, expiry, since, overran>>, NEW p \in Procs, NEW l \in Holding,
         pc[p] \in Holding, pc' = [pc EXCEPT ![p] = l]
  PROVE  LeaseInv'
BY DEF LeaseInv, Types

\* Nobody holds the run at the start.
LEMMA LeaseInit == Init => LeaseInv
<1> SUFFICES ASSUME Init PROVE LeaseInv
  OBVIOUS
<1>1. pc = [p \in Procs |-> "idle"] /\ "idle" \notin Holding
  BY DEF Init, Holding
<1>2. now = 0 /\ expiry = 0 /\ since = [p \in Procs |-> 0] /\ overran = FALSE
  BY DEF Init, ClockInit, NoLease
<1>3. QED
  BY <1>1, <1>2 DEF LeaseInv, Types

\* Every step keeps the holder's lease the holder's, or records an overrun.
LEMMA LeaseStep == LeaseInv /\ [Next]_vars => LeaseInv'
<1> SUFFICES ASSUME LeaseInv, [Next]_vars PROVE LeaseInv'
  OBVIOUS
<1> USE DEF clockVars, callVars, historyVars
<1>0. "idle" \notin Holding /\ {"check", "fn", "next", "wait", "release"} \subseteq Holding
  BY DEF Holding
<1>1. ASSUME NEW p \in Procs, Acquire(p) PROVE LeaseInv'
  <2>1. /\ pc[p] = "idle" /\ expiry <= now /\ expiry' = now + Lease /\ now' = now
        /\ since' = [since EXCEPT ![p] = now] /\ pc' = [pc EXCEPT ![p] = "check"]
        /\ overran' = overran
    BY <1>1 DEF Acquire, Goto, Leased, LeaseInv, Types
  <2>2. ~overran => \A q \in Procs : pc[q] \notin Holding
    BY <2>1 DEF LeaseInv, Types
  <2>3. QED
    BY <2>1, <2>2, <1>0, LeaseAssumption DEF LeaseInv, Types
<1>2. ASSUME NEW p \in Procs, Attempt(p) PROVE LeaseInv'
  <2>1. PICK l \in {"release", "fn"} : pc' = [pc EXCEPT ![p] = l]
    BY <1>2 DEF Attempt, Goto
  <2>2. pc[p] \in Holding /\ UNCHANGED <<now, expiry, since, overran>>
    BY <1>2, <1>0 DEF Attempt
  <2>3. QED
    BY <2>1, <2>2, <1>0, HoldersStay
<1>3. ASSUME NEW p \in Procs, FnReturns(p) PROVE LeaseInv'
  <2>1. PICK l \in {"release", "next"} : pc' = [pc EXCEPT ![p] = l]
    BY <1>3 DEF FnReturns, Goto
  <2>2. pc[p] \in Holding /\ UNCHANGED <<now, expiry, since, overran>>
    BY <1>3, <1>0 DEF FnReturns
  <2>3. QED
    BY <2>1, <2>2, <1>0, HoldersStay
<1>4. ASSUME NEW p \in Procs, AskPolicy(p) PROVE LeaseInv'
  <2>1. PICK l \in {"release", "check", "wait"} : pc' = [pc EXCEPT ![p] = l]
    BY <1>4 DEF AskPolicy, Goto
  <2>2. pc[p] \in Holding /\ UNCHANGED <<now, expiry, since, overran>>
    BY <1>4, <1>0 DEF AskPolicy, After
  <2>3. QED
    BY <2>1, <2>2, <1>0, HoldersStay
<1>5. ASSUME NEW p \in Procs, Wait(p) PROVE LeaseInv'
  <2>1. PICK l \in {"release", "check"} : pc' = [pc EXCEPT ![p] = l]
    BY <1>5 DEF Wait, Goto
  <2>2. pc[p] \in Holding /\ UNCHANGED <<now, expiry, since, overran>>
    BY <1>5, <1>0 DEF Wait
  <2>3. QED
    BY <2>1, <2>2, <1>0, HoldersStay
<1>6. ASSUME NEW p \in Procs, Release(p) \/ Die(p) PROVE LeaseInv'
  <2>1. /\ pc[p] \in Holding /\ pc' = [pc EXCEPT ![p] = "idle"]
        /\ since' = [since EXCEPT ![p] = 0] /\ UNCHANGED <<now, overran>>
    BY <1>6, <1>0 DEF Release, Die, Leave, Goto, Forget
  <2>2. expiry' \in Nat
    BY <1>6 DEF Release, Die, NoLease, LeaseInv, Types
  <2>3. ~overran => \A q \in Procs : pc'[q] \notin Holding
    BY <2>1, <1>0 DEF LeaseInv, Types
  <2>4. QED
    BY <2>1, <2>2, <2>3, <1>0 DEF LeaseInv, Types
<1>7. ASSUME NEW d \in 1..MaxTime, Advance(d) PROVE LeaseInv'
  <2>1. now' = now + d /\ UNCHANGED <<expiry, pc, since>>
    BY <1>7 DEF Advance, AdvanceTime
  <2>2. /\ overran' \in BOOLEAN
        /\ ~overran' => ~overran /\ \A p \in Procs : pc[p] \in Holding => ~(now + d >= since[p] + Lease)
    BY <1>7 DEF Advance
  <2>3. now' \in Nat
    BY <2>1, LeaseAssumption DEF LeaseInv, Types
  <2>4. QED
    BY <2>1, <2>2, <2>3, LeaseAssumption DEF LeaseInv, Types
<1>8. CASE Deliver \/ Stop \/ UNCHANGED vars
  <2>1. UNCHANGED <<now, expiry, pc, since, overran>>
    BY <1>8 DEF Deliver, Send, Stop, vars
  <2>2. QED
    BY <2>1 DEF LeaseInv, Types
<1>9. QED
  BY <1>1, <1>2, <1>3, <1>4, <1>5, <1>6, <1>7, <1>8 DEF Next

\* A run has two holders at a time only after one of its holders has outstayed
\* its lease, however many workers share the store, crash or fail to release.
THEOREM LeaseProtects == Spec => []TakeoverNeedsOverrun
<1>1. Init => LeaseInv
  BY LeaseInit
<1>2. LeaseInv /\ [Next]_vars => LeaseInv'
  BY LeaseStep
<1>3. LeaseInv => TakeoverNeedsOverrun
  BY DEF LeaseInv, Types, TakeoverNeedsOverrun
<1>4. QED
  BY <1>1, <1>2, <1>3, PTL DEF Spec

-----------------------------------------------------------------------------
(* Attempts. *)

\* The policies the constructors build are policies, whatever they are given.
LEMMA ConstructorsBuild ==
  /\ IsPolicy(NoRetry)
  /\ \A d, n \in Int : IsPolicy(NewFixedDelay(d, n))
  /\ \A i, num, max, n \in Int : \A den \in Nat \ {0} :
       IsPolicy(NewExponentialBackoff(i, <<num, den>>, max, n))
<1>1. ASSUME NEW n \in Int PROVE AtLeastOne(n) \in Nat \ {0}
  BY DEF AtLeastOne
<1>2. IsPolicy(NoRetry)
  BY DEF IsPolicy, NoRetry
<1>3. \A d, n \in Int : IsPolicy(NewFixedDelay(d, n))
  BY <1>1 DEF IsPolicy, NewFixedDelay
<1>4. ASSUME NEW i \in Int, NEW num \in Int, NEW max \in Int, NEW n \in Int, NEW den \in Nat \ {0}
      PROVE  IsPolicy(NewExponentialBackoff(i, <<num, den>>, max, n))
  <2> DEFINE pol == NewExponentialBackoff(i, <<num, den>>, max, n)
  <2>1. pol.kind = "exponential" /\ pol.attempts \in Nat \ {0} /\ pol.initial \in Int /\ pol.initial > 0
    BY <1>1 DEF NewExponentialBackoff
  <2>2. pol.max \in Int /\ pol.max > 0
    BY <1>1 DEF NewExponentialBackoff
  <2>3. pol.factor[1] \in Nat \ {0} /\ pol.factor[2] \in Nat \ {0}
    BY DEF NewExponentialBackoff
  <2>4. QED
    BY <2>1, <2>2, <2>3 DEF IsPolicy
<1>5. QED
  BY <1>2, <1>3, <1>4

\* The Execute of p has its own counter, or a policy that needs none and grants
\* one attempt, and at every label the counter and the calls of fn are in step.
Counting(p) ==
  /\ \/ counter[p] = p
     \/ counter[p] = policy[p] /\ policy[p].attempts = 1 /\ policy[p].kind = "none"
  /\ pc[p] # "idle" => policy[p] \in Policies /\ calls[p] <= policy[p].attempts
  /\ pc[p] = "idle" => counter[p] = p /\ calls[p] = 0 /\ failures[p] = 0
  /\ pc[p] \in {"check", "wait"} => failures[p] = calls[p] /\ calls[p] < policy[p].attempts
  /\ pc[p] \in {"fn", "next"} => failures[p] + 1 = calls[p]

CallTypes ==
  /\ pc \in [Procs -> Holding \cup {"idle"}]
  /\ DOMAIN policy = Procs /\ DOMAIN counter = Procs
  /\ calls \in [Procs -> Nat] /\ failures \in [Procs \cup Policies -> Nat]

\* Nothing is ever counted in a policy object that Execute calls share.
AttemptInv ==
  /\ CallTypes
  /\ \A p \in Procs : Counting(p)
  /\ \A pol \in Policies : failures[pol] = 0

\* What another worker does leaves the count of q alone.
LEMMA CountingStays ==
  ASSUME NEW q, Counting(q), pc'[q] = pc[q], policy'[q] = policy[q], counter'[q] = counter[q],
         calls'[q] = calls[q], failures'[q] = failures[q]
  PROVE  Counting(q)'
BY DEF Counting

\* With a shared policy the counter it asks and its own agree: both are at 0 and
\* stay there.
LEMMA AskCounts ==
  ASSUME AttemptInv, NEW p \in Procs, AskPolicy(p)
  PROVE  /\ pc[p] = "next" /\ failures[counter[p]] = failures[p]
         /\ failures' = [failures EXCEPT ![p] = Counted(policy[p], failures[p])]
<1>1. /\ pc[p] = "next" /\ Counting(p) /\ policy[p] \in Policies
      /\ failures' = [failures EXCEPT ![counter[p]] = Counted(policy[p], failures[counter[p]])]
      /\ failures \in [Procs \cup Policies -> Nat] /\ \A pol \in Policies : failures[pol] = 0
  BY DEF AskPolicy, AttemptInv, CallTypes, Counting
<1>2. CASE counter[p] = p
  BY <1>1, <1>2
<1>3. CASE counter[p] = policy[p] /\ policy[p].attempts = 1 /\ policy[p].kind = "none"
  <2>1. calls[p] <= 1 /\ failures[p] + 1 = calls[p] /\ calls[p] \in Nat
    BY <1>1, <1>3 DEF Counting, AttemptInv, CallTypes
  <2>2. failures[p] = 0 /\ failures[counter[p]] = 0
    BY <2>1, <1>1, <1>3
  <2>3. Counted(policy[p], 0) = 0
    BY <1>3 DEF Counted, Again
  <2>4. failures' = [failures EXCEPT ![counter[p]] = 0]
    BY <1>1, <2>2, <2>3
  <2>5. failures' = failures
    BY <2>4, <2>2, <1>1, <1>3
  <2>6. Counted(policy[p], failures[p]) = failures[p]
    BY <2>2, <2>3
  <2>7. failures = [failures EXCEPT ![p] = failures[p]]
    BY <1>1
  <2>8. QED
    BY <2>2, <2>5, <2>6, <2>7, <1>1
<1>4. QED
  BY <1>1, <1>2, <1>3 DEF Counting

\* Every step keeps the count.
LEMMA AttemptStep == AttemptInv /\ [Next]_vars => AttemptInv'
<1> SUFFICES ASSUME AttemptInv, [Next]_vars PROVE AttemptInv'
  OBVIOUS
<1> USE DEF callVars
<1>0. /\ "idle" \notin Holding /\ {"check", "fn", "next", "wait", "release"} \subseteq Holding
      /\ \A pol \in Policies : pol.attempts \in Nat \ {0} /\ (pol.kind = "none" => pol.attempts = 1)
      /\ Procs \cap Policies = {}
  BY LeaseAssumption DEF Holding, IsPolicy
<1>1. CallTypes /\ (\A p \in Procs : Counting(p)) /\ \A pol \in Policies : failures[pol] = 0
  BY DEF AttemptInv
<1>2. ASSUME NEW p \in Procs, Acquire(p) PROVE AttemptInv'
  <2>1. PICK pol \in Policies : /\ policy' = [policy EXCEPT ![p] = pol]
                                /\ counter' = [counter EXCEPT ![p] = ForExec(p, pol)]
    BY <1>2 DEF Acquire
  <2>2. pc[p] = "idle" /\ pc' = [pc EXCEPT ![p] = "check"] /\ UNCHANGED <<failures, calls>>
    BY <1>2 DEF Acquire, Goto
  <2>3. CallTypes'
    BY <2>1, <2>2, <1>0, <1>1 DEF CallTypes
  <2>4. Counting(p)'
    <3>1. policy'[p] = pol /\ counter'[p] = ForExec(p, pol) /\ pc'[p] = "check"
      BY <2>1, <2>2, <1>1 DEF CallTypes
    <3>2. \/ counter'[p] = p
          \/ counter'[p] = pol /\ pol.attempts = 1 /\ pol.kind = "none"
      <4>1. CASE pol.kind = "none"
        BY <4>1, <3>1, <1>0 DEF ForExec
      <4>2. CASE pol.kind # "none"
        BY <4>2, <3>1 DEF ForExec
      <4>3. QED
        BY <4>1, <4>2
    <3>3. calls'[p] = 0 /\ failures'[p] = 0
      BY <2>2, <1>1 DEF Counting
    <3>4. QED
      BY <3>1, <3>2, <3>3, <1>0 DEF Counting
  <2>5. ASSUME NEW q \in Procs, q # p PROVE Counting(q)'
    BY <2>1, <2>2, <2>5, <1>1, CountingStays DEF CallTypes
  <2>6. QED
    BY <2>2, <2>3, <2>4, <2>5, <1>1 DEF AttemptInv
<1>3. ASSUME NEW p \in Procs, Attempt(p) PROVE AttemptInv'
  <2>1. /\ pc[p] = "check" /\ UNCHANGED <<policy, counter, failures>>
        /\ \/ pc' = [pc EXCEPT ![p] = "release"] /\ calls' = calls
           \/ pc' = [pc EXCEPT ![p] = "fn"] /\ calls' = [calls EXCEPT ![p] = calls[p] + 1]
    BY <1>3 DEF Attempt, Goto
  <2>2. CallTypes'
    BY <2>1, <1>0, <1>1 DEF CallTypes
  <2>3. Counting(p)'
    BY <2>1, <1>0, <1>1 DEF CallTypes, Counting
  <2>4. ASSUME NEW q \in Procs, q # p PROVE Counting(q)'
    BY <2>1, <2>4, <1>1, CountingStays DEF CallTypes
  <2>5. QED
    BY <2>1, <2>2, <2>3, <2>4, <1>1 DEF AttemptInv
<1>4. ASSUME NEW p \in Procs, FnReturns(p) \/ Wait(p) PROVE AttemptInv'
  <2>1. /\ UNCHANGED <<policy, counter, failures, calls>>
        /\ \/ pc[p] = "fn" /\ pc' = [pc EXCEPT ![p] = "release"]
           \/ pc[p] = "fn" /\ pc' = [pc EXCEPT ![p] = "next"]
           \/ pc[p] = "wait" /\ pc' = [pc EXCEPT ![p] = "check"]
           \/ pc[p] = "wait" /\ pc' = [pc EXCEPT ![p] = "release"]
    BY <1>4 DEF FnReturns, Wait, Goto
  <2>2. CallTypes'
    BY <2>1, <1>0, <1>1 DEF CallTypes
  <2>3. Counting(p)'
    BY <2>1, <1>0, <1>1 DEF CallTypes, Counting
  <2>4. ASSUME NEW q \in Procs, q # p PROVE Counting(q)'
    BY <2>1, <2>4, <1>1, CountingStays DEF CallTypes
  <2>5. QED
    BY <2>1, <2>2, <2>3, <2>4, <1>1 DEF AttemptInv
<1>5. ASSUME NEW p \in Procs, AskPolicy(p) PROVE AttemptInv'
  <2>1. /\ pc[p] = "next" /\ UNCHANGED <<policy, counter, calls>>
        /\ policy[p].attempts \in Nat
    BY <1>0, <1>1, <1>5 DEF AskPolicy, Counting
  <2>2. /\ failures' = [failures EXCEPT ![p] = Counted(policy[p], failures[p])]
        /\ \/ pc' = [pc EXCEPT ![p] = "release"]
           \/ Again(policy[p], failures[p]) /\ pc' = [pc EXCEPT ![p] = "check"]
           \/ Again(policy[p], failures[p]) /\ pc' = [pc EXCEPT ![p] = "wait"]
    BY <1>5, AskCounts DEF AskPolicy, Goto
  <2>3. /\ Counted(policy[p], failures[p]) \in Nat
        /\ Again(policy[p], failures[p]) => /\ Counted(policy[p], failures[p]) = failures[p] + 1
                                            /\ failures[p] + 1 < policy[p].attempts
    BY <1>1 DEF Counted, Again, CallTypes
  <2>4. CallTypes'
    BY <2>1, <2>2, <2>3, <1>0, <1>1 DEF CallTypes
  <2>5. Counting(p)'
    BY <2>1, <2>2, <2>3, <1>0, <1>1 DEF CallTypes, Counting
  <2>6. ASSUME NEW q \in Procs, q # p PROVE Counting(q)'
    BY <2>1, <2>2, <2>6, <1>1, CountingStays DEF CallTypes
  <2>7. \A pol \in Policies : failures'[pol] = 0
    BY <2>2, <1>0, <1>1 DEF CallTypes
  <2>8. QED
    BY <2>4, <2>5, <2>6, <2>7 DEF AttemptInv
<1>6. ASSUME NEW p \in Procs, Release(p) \/ Die(p) PROVE AttemptInv'
  <2>1. /\ pc' = [pc EXCEPT ![p] = "idle"] /\ policy' = [policy EXCEPT ![p] = NoRetry]
        /\ counter' = [counter EXCEPT ![p] = p] /\ failures' = [failures EXCEPT ![p] = 0]
        /\ calls' = [calls EXCEPT ![p] = 0]
    BY <1>6 DEF Release, Die, Leave, Goto
  <2>2. CallTypes'
    BY <2>1, <1>1 DEF CallTypes
  <2>3. Counting(p)'
    <3>1. pc'[p] = "idle" /\ counter'[p] = p /\ calls'[p] = 0 /\ failures'[p] = 0
      BY <2>1, <1>1 DEF CallTypes
    <3>2. QED
      BY <3>1 DEF Counting
  <2>4. ASSUME NEW q \in Procs, q # p PROVE Counting(q)'
    BY <2>1, <2>4, <1>1, CountingStays DEF CallTypes
  <2>5. \A pol \in Policies : failures'[pol] = 0
    BY <2>1, <1>0, <1>1 DEF CallTypes
  <2>6. QED
    BY <2>2, <2>3, <2>4, <2>5 DEF AttemptInv
<1>7. CASE (\E d \in 1..MaxTime : Advance(d)) \/ Deliver \/ Stop \/ UNCHANGED vars
  <2>1. UNCHANGED <<pc, policy, counter, failures, calls>>
    BY <1>7 DEF Advance, Deliver, Stop, vars
  <2>2. QED
    BY <2>1, <1>1 DEF AttemptInv, CallTypes, Counting
<1>8. QED
  BY <1>2, <1>3, <1>4, <1>5, <1>6, <1>7 DEF Next

\* A worker that does nothing has counted nothing.
LEMMA AttemptInit == Init => AttemptInv
<1>1. SUFFICES ASSUME Init PROVE AttemptInv
  OBVIOUS
<1>2. /\ pc = [p \in Procs |-> "idle"] /\ policy = [p \in Procs |-> NoRetry]
      /\ counter = [p \in Procs |-> p] /\ failures = [o \in Procs \cup Policies |-> 0]
      /\ calls = [p \in Procs |-> 0]
  BY <1>1 DEF Init
<1>3. CallTypes /\ \A pol \in Policies : failures[pol] = 0
  BY <1>2 DEF CallTypes
<1>4. ASSUME NEW p \in Procs PROVE Counting(p)
  <2>1. pc[p] = "idle" /\ counter[p] = p /\ calls[p] = 0 /\ failures[p] = 0
    BY <1>2
  <2>2. QED
    BY <2>1 DEF Counting
<1>5. QED
  BY <1>3, <1>4 DEF AttemptInv

\* Every Execute, once fn has failed, gives up if and only if it has called fn as
\* often as its own policy says, whatever the other Execute calls under the same
\* policy do.
THEOREM AttemptsCounted == Spec => AttemptsExact
<1> DEFINE Exact(p) == pc[p] = "next" =>
                         /\ pc'[p] = "release" => calls[p] = policy[p].attempts
                         /\ pc'[p] \in {"check", "wait"} => calls[p] < policy[p].attempts
<1>1. Init => AttemptInv
  BY AttemptInit
<1>2. AttemptInv /\ [Next]_vars => AttemptInv'
  BY AttemptStep
<1>3. AttemptInv /\ [Next]_vars => [\A p \in Procs : Exact(p)]_vars
  <2>1. SUFFICES ASSUME AttemptInv, Next, NEW p \in Procs, pc[p] = "next"
                 PROVE  Exact(p)
    OBVIOUS
  <2>2. pc \in [Procs -> Holding \cup {"idle"}]
    BY <2>1 DEF AttemptInv, CallTypes
  <2>3. CASE AskPolicy(p)
    <3>1. failures[counter[p]] = failures[p]
      BY <2>1, <2>3, AskCounts
    <3>2. /\ failures[p] + 1 = calls[p] /\ calls[p] <= policy[p].attempts
          /\ failures[p] \in Nat /\ calls[p] \in Nat /\ policy[p].attempts \in Nat
      BY <2>1, LeaseAssumption DEF AttemptInv, CallTypes, Counting, IsPolicy
    <3>3. \/ ~Again(policy[p], failures[p]) /\ pc' = [pc EXCEPT ![p] = "release"]
          \/ Again(policy[p], failures[p]) /\ pc' = [pc EXCEPT ![p] = "check"]
          \/ Again(policy[p], failures[p]) /\ pc' = [pc EXCEPT ![p] = "wait"]
      BY <3>1, <2>3 DEF AskPolicy, Goto
    <3>4. QED
      BY <3>2, <3>3, <2>2 DEF Again
  <2>4. CASE Die(p)
    BY <2>2, <2>4 DEF Die, Leave, Goto
  <2>5. CASE Acquire(p) \/ Attempt(p) \/ FnReturns(p) \/ Wait(p) \/ Release(p)
    BY <2>1, <2>5 DEF Acquire, Attempt, FnReturns, Wait, Release
  <2>6. ASSUME NEW q \in Procs, q # p,
               \/ Acquire(q) \/ Attempt(q) \/ FnReturns(q) \/ AskPolicy(q) \/ Wait(q) \/ Release(q)
               \/ Die(q)
        PROVE  Exact(p)
    <3>1. pc'[p] = pc[p]
      BY <2>2, <2>6 DEF Acquire, Attempt, FnReturns, AskPolicy, Wait, Release, Die, Leave, Goto
    <3>2. QED
      BY <3>1, <2>1
  <2>7. CASE (\E d \in 1..MaxTime : Advance(d)) \/ Deliver \/ Stop
    <3>1. pc' = pc
      BY <2>7 DEF Advance, Deliver, Stop
    <3>2. QED
      BY <3>1, <2>1
  <2>8. QED
    BY <2>1, <2>3, <2>4, <2>5, <2>6, <2>7 DEF Next
<1>4. QED
  BY <1>1, <1>2, <1>3, PTL DEF Spec, AttemptsExact

-----------------------------------------------------------------------------
(* Powers is a recursive function; what is said of it takes induction, here *)
(* as the least counterexample.                                             *)

\* The order of numbers, as a relation.
Smaller == {ss \in Nat \X Nat : ss[1] < ss[2]}

\* A nonempty set of numbers has a smallest one.
LEMMA Smallest ==
  ASSUME NEW T \in SUBSET Nat, T # {}
  PROVE  \E n \in T : \A m \in T : n <= m
<1>1. IsWellFoundedOn(Smaller, Nat)
  BY NatLessThanWellFounded, Zenon DEF OpToRel, Smaller
<1>2. PICK n \in T : \A m \in T : ~ (<<m, n>> \in Smaller)
  BY <1>1, WFMin
<1>3. ASSUME NEW m \in T PROVE n <= m
  <2>1. m \in Nat /\ n \in Nat /\ <<m, n>> \in Nat \X Nat
    OBVIOUS
  <2>2. ~(m < n)
    BY <1>2, <2>1 DEF Smaller
  <2>3. QED
    BY <2>1, <2>2
<1>4. QED
  BY <1>3

\* The loop of delayFor as far as its n-th multiplication.
Partial(x, n) ==
  { f \in [0..n -> Nat \ {0}] : f[0] = 1 /\ \A k \in 1..n : f[k] = x * f[k - 1] }

\* It can be run to any length ...
LEMMA PartialExists ==
  ASSUME NEW x \in Nat \ {0}, NEW n \in Nat
  PROVE  Partial(x, n) # {}
<1> DEFINE T == { m \in Nat : Partial(x, m) = {} }
<1> SUFFICES ASSUME T # {} PROVE FALSE
  OBVIOUS
<1>1. PICK m \in T : \A j \in T : m <= j
  <2> HIDE DEF T
  <2>1. T \in SUBSET Nat
    BY DEF T
  <2>2. QED
    BY <2>1, Smallest
<1>2. CASE m = 0
  <2> DEFINE one == [k \in 0..0 |-> 1]
  <2>1. one \in Partial(x, 0)
    BY DEF Partial
  <2>2. QED
    BY <1>1, <1>2, <2>1
<1>3. CASE m # 0
  <2>1. m \in Nat /\ m - 1 \in Nat /\ m - 1 \notin T
    BY <1>1, <1>3
  <2>2. PICK f : f \in Partial(x, m - 1)
    BY <2>1
  <2>3. /\ f \in [0..(m - 1) -> Nat \ {0}] /\ f[0] = 1
        /\ \A k \in 1..(m - 1) : f[k] = x * f[k - 1]
    BY <2>2 DEF Partial
  <2> DEFINE g == [k \in 0..m |-> IF k = m THEN x * f[m - 1] ELSE f[k]]
  <2>4. f[m - 1] \in Nat \ {0}
    BY <2>1, <2>3
  <2>5. x * f[m - 1] \in Nat \ {0}
    BY <2>4
  <2>6. g \in [0..m -> Nat \ {0}]
    BY <2>1, <2>3, <2>5
  <2>7. g[0] = 1
    BY <2>1, <2>3, <1>3
  <2>8. ASSUME NEW k \in 1..m PROVE g[k] = x * g[k - 1]
    BY <2>1, <2>3
  <2>9. g \in Partial(x, m)
    BY <2>6, <2>7, <2>8 DEF Partial
  <2>10. QED
    BY <1>1, <2>9
<1>4. QED
  BY <1>2, <1>3

\* ... and longer runs agree with shorter ones.
LEMMA PartialUnique ==
  ASSUME NEW x \in Nat \ {0}, NEW m \in Nat, NEW n \in Nat,
         NEW f \in Partial(x, m), NEW g \in Partial(x, n), NEW k \in Nat, k <= m, k <= n
  PROVE  f[k] = g[k]
<1> DEFINE T == { j \in 0..k : f[j] # g[j] }
<1> SUFFICES ASSUME T # {} PROVE FALSE
  OBVIOUS
<1>1. PICK j \in T : \A i \in T : j <= i
  <2>1. T \in SUBSET Nat
    OBVIOUS
  <2> HIDE DEF T
  <2>2. QED
    BY <2>1, Smallest
<1>2. j # 0
  BY <1>1 DEF Partial
<1>3. j - 1 \in 0..k /\ j - 1 \notin T /\ j \in 1..m /\ j \in 1..n
  BY <1>1, <1>2
<1>4. f[j] = x * f[j - 1] /\ g[j] = x * g[j - 1]
  BY <1>3 DEF Partial
<1>5. QED
  BY <1>1, <1>3, <1>4

\* So there is a function that satisfies the recursive definition of Powers.
LEMMA PowersDefined ==
  ASSUME NEW x \in Nat \ {0}
  PROVE  Powers(x) = [k \in Nat |-> IF k = 0 THEN 1 ELSE x * Powers(x)[k - 1]]
<1> DEFINE up(n) == CHOOSE f : f \in Partial(x, n)
           h == [n \in Nat |-> up(n)[n]]
<1>1. \A n \in Nat : up(n) \in Partial(x, n)
  BY PartialExists
<1>2. ASSUME NEW k \in Nat PROVE h[k] = IF k = 0 THEN 1 ELSE x * h[k - 1]
  <2>1. CASE k = 0
    BY <1>1, <2>1 DEF Partial
  <2>2. CASE k # 0
    <3>1. k - 1 \in Nat /\ up(k) \in Partial(x, k) /\ up(k - 1) \in Partial(x, k - 1)
      BY <2>2, <1>1
    <3>2. h[k] = up(k)[k] /\ h[k - 1] = up(k - 1)[k - 1]
      BY <3>1
    <3> HIDE DEF up, h
    <3>3. up(k)[k - 1] = up(k - 1)[k - 1]
      BY <3>1, PartialUnique
    <3>4. up(k)[k] = x * up(k)[k - 1]
      BY <3>1, <2>2 DEF Partial
    <3>5. QED
      BY <3>4, <3>1, <3>2, <3>3, <2>2
  <2>3. QED
    BY <2>1, <2>2
<1>3. h = [k \in Nat |-> IF k = 0 THEN 1 ELSE x * h[k - 1]]
  <2>1. h = [k \in Nat |-> h[k]]
    OBVIOUS
  <2> HIDE DEF h
  <2>2. QED
    BY <2>1, <1>2
<1>4. \E f : f = [k \in Nat |-> IF k = 0 THEN 1 ELSE x * f[k - 1]]
  BY <1>3
<1>5. QED
  BY <1>4, Zenon DEF Powers

\* Backoff factors multiply to positive numbers.
LEMMA PowersPositive ==
  ASSUME NEW x \in Nat \ {0}, NEW n \in Nat
  PROVE  Powers(x)[n] \in Nat \ {0}
<1> DEFINE T == { k \in Nat : Powers(x)[k] \notin Nat \ {0} }
<1> SUFFICES ASSUME T # {} PROVE FALSE
  OBVIOUS
<1>1. PICK k \in T : \A i \in T : k <= i
  <2>1. T \in SUBSET Nat
    OBVIOUS
  <2> HIDE DEF T
  <2>2. QED
    BY <2>1, Smallest
<1>2. Powers(x)[k] = IF k = 0 THEN 1 ELSE x * Powers(x)[k - 1]
  BY PowersDefined
<1>3. k # 0
  BY <1>1, <1>2
<1>4. k - 1 \in Nat /\ k - 1 \notin T
  BY <1>1, <1>3
<1>5. QED
  BY <1>1, <1>2, <1>3, <1>4

-----------------------------------------------------------------------------
(* The time an Execute takes. *)

\* The cap on a backoff wait holds: no wait is longer than LongestWait.
LEMMA WaitCapped ==
  ASSUME NEW pol \in Policies, NEW k \in Nat \ {0}
  PROVE  /\ DelayFor(pol, k) \in Int /\ DelayFor(pol, k) <= LongestWait(pol)
         /\ LongestWait(pol) \in Nat
<1>1. IsPolicy(pol)
  BY LeaseAssumption
<1>2. LongestWait(pol) \in Nat /\ pol.max <= LongestWait(pol)
  BY <1>1 DEF IsPolicy, LongestWait
<1>3. CASE pol.kind # "exponential"
  BY <1>1, <1>2, <1>3 DEF IsPolicy, DelayFor
<1>4. CASE pol.kind = "exponential"
  <2> DEFINE num == pol.initial * Powers(pol.factor[1])[k - 1]
             den == Powers(pol.factor[2])[k - 1]
  <2>1. k - 1 \in Nat
    OBVIOUS
  <2>2. Powers(pol.factor[1])[k - 1] \in Nat \ {0} /\ den \in Nat \ {0}
    BY <2>1, <1>1, <1>4, PowersPositive DEF IsPolicy
  <2>3. num \in Int /\ pol.max \in Int
    BY <2>2, <1>1 DEF IsPolicy
  <2>4. DelayFor(pol, k) = Capped(num, den, pol.max)
    BY <1>4 DEF DelayFor
  <2> HIDE DEF num, den
  <2>5. ~(num > pol.max * den) => num \div den \in Int /\ num \div den <= pol.max
    BY <2>2, <2>3
  <2>6. QED
    BY <2>3, <2>4, <2>5, <1>2 DEF Capped
<1>5. QED
  BY <1>3, <1>4

\* The time c calls of fn and f waits may take under a policy.
Spent(pol, c, f) == c * Timeout + f * LongestWait(pol)

\* What an Execute may have spent grows by a timeout or a wait at a time, and is
\* within the worst case for as long as the policy's attempts last.
LEMMA SpentWithin ==
  ASSUME NEW pol \in Policies, NEW c \in Nat, NEW f \in Nat
  PROVE  /\ Spent(pol, c, f) \in Nat /\ WorstCase(pol, Timeout) \in Nat
         /\ WorstCase(pol, Timeout) < Lease
         /\ Spent(pol, 0, 0) = 0
         /\ Spent(pol, c + 1, f) = Spent(pol, c, f) + Timeout
         /\ Spent(pol, c, f + 1) = Spent(pol, c, f) + LongestWait(pol)
         /\ c <= pol.attempts /\ f + 1 <= pol.attempts => Spent(pol, c, f) <= WorstCase(pol, Timeout)
<1> DEFINE w == LongestWait(pol)
           a == pol.attempts
<1>1. w \in Nat
  BY WaitCapped
<1>2. a \in Nat \ {0} /\ Timeout \in Nat /\ WorstCase(pol, Timeout) < Lease
  BY LeaseAssumption DEF IsPolicy
<1>3. /\ Spent(pol, c, f) = c * Timeout + f * w /\ Spent(pol, 0, 0) = 0 * Timeout + 0 * w
      /\ Spent(pol, c + 1, f) = (c + 1) * Timeout + f * w
      /\ Spent(pol, c, f + 1) = c * Timeout + (f + 1) * w
      /\ WorstCase(pol, Timeout) = a * Timeout + (a - 1) * w
  BY DEF Spent, WorstCase
<1> HIDE DEF w, a
<1>4. c * Timeout \in Nat /\ f * w \in Nat /\ a * Timeout \in Nat /\ (a - 1) * w \in Nat
  BY <1>1, <1>2
<1>5. (c + 1) * Timeout = c * Timeout + Timeout /\ (f + 1) * w = f * w + w
  BY <1>1, <1>2
<1>6. c <= a => c * Timeout <= a * Timeout
  BY <1>2
<1>7. f + 1 <= a => f * w <= (a - 1) * w
  BY <1>1, <1>2
<1>8. /\ Spent(pol, c, f) \in Nat /\ WorstCase(pol, Timeout) \in Nat /\ Spent(pol, 0, 0) = 0
      /\ c <= a /\ f + 1 <= a => Spent(pol, c, f) <= WorstCase(pol, Timeout)
  BY <1>1, <1>2, <1>3, <1>4, <1>6, <1>7
<1>9. Spent(pol, c + 1, f) = Spent(pol, c, f) + Timeout /\ Spent(pol, c, f + 1) = Spent(pol, c, f) + w
  BY <1>1, <1>2, <1>3, <1>4, <1>5
<1>10. QED
  BY <1>2, <1>8, <1>9 DEF w, a

\* As long as nobody is late, every holder is within what it has counted so far:
\* during fn and during a wait, the end of fn's timeout or of the wait is.
Budget(p) == since[p] + Spent(policy[p], calls[p], failures[p])
InTime(p) ==
  /\ pc[p] \in {"check", "next"} => now <= Budget(p)
  /\ pc[p] \in {"fn", "wait"} => limit[p] <= Budget(p)
  /\ pc[p] = "release" => now <= since[p] + WorstCase(policy[p], Timeout)

TimeInv ==
  /\ limit \in [Procs -> Nat] /\ late \in BOOLEAN
  /\ \A p \in Procs : pc[p] \in {"fn", "wait"} /\ ~late => now <= limit[p]
  /\ ~late => ~overran /\ \A p \in Procs : InTime(p)

\* What another worker does does not touch the time of q.
LEMMA InTimeStays ==
  ASSUME NEW q, InTime(q), now' = now, pc'[q] = pc[q], since'[q] = since[q], policy'[q] = policy[q],
         calls'[q] = calls[q], failures'[q] = failures[q], limit'[q] = limit[q]
  PROVE  InTime(q)'
BY DEF InTime, Budget

\* Where the worker at hand is within its budget, so is its whole Execute.
LEMMA BudgetWithin ==
  ASSUME LeaseInv, AttemptInv, NEW p \in Procs, pc[p] \in Holding, InTime(p),
         limit[p] \in Nat
  PROVE  Granted(p) < since[p] + Lease
<1>1. /\ policy[p] \in Policies /\ calls[p] \in Nat /\ failures[p] \in Nat
      /\ calls[p] <= policy[p].attempts /\ since[p] \in Nat /\ now \in Nat
      /\ Lease \in Nat /\ policy[p].attempts \in Nat /\ pc[p] # "idle"
  BY LeaseAssumption DEF AttemptInv, CallTypes, Counting, LeaseInv, Types, IsPolicy, Holding
<1>2. /\ Spent(policy[p], calls[p], failures[p]) \in Nat /\ WorstCase(policy[p], Timeout) \in Nat
      /\ WorstCase(policy[p], Timeout) < Lease
  BY <1>1, SpentWithin
<1>3. CASE pc[p] = "release"
  BY <1>1, <1>2, <1>3 DEF InTime, Granted
<1>4. CASE pc[p] # "release"
  <2>1. pc[p] \in {"check", "fn", "next", "wait"}
    BY <1>4 DEF Holding
  <2>2. failures[p] + 1 <= policy[p].attempts
    BY <2>1, <1>1 DEF AttemptInv, Counting
  <2>3. Spent(policy[p], calls[p], failures[p]) <= WorstCase(policy[p], Timeout)
    BY <2>2, <1>1, SpentWithin
  <2>4. QED
    BY <2>1, <2>3, <1>1, <1>2 DEF InTime, Granted, Budget
<1>5. QED
  BY <1>3, <1>4

\* Every step keeps holders within their budgets, or makes somebody late.
LEMMA TimeStep ==
  ASSUME LeaseInv, AttemptInv, TimeInv, [Next]_vars
  PROVE  TimeInv'
<1> USE DEF callVars, historyVars
<1>0. /\ now \in Nat /\ since \in [Procs -> Nat] /\ pc \in [Procs -> Holding \cup {"idle"}]
      /\ DOMAIN policy = Procs /\ calls \in [Procs -> Nat] /\ failures \in [Procs \cup Policies -> Nat]
      /\ limit \in [Procs -> Nat] /\ late \in BOOLEAN /\ Timeout \in Nat
      /\ \A p \in Procs : Counting(p)
  BY LeaseAssumption DEF LeaseInv, Types, AttemptInv, CallTypes, TimeInv
<1>1. ASSUME NEW p \in Procs, Acquire(p) PROVE TimeInv'
  <2>1. PICK pol \in Policies : policy' = [policy EXCEPT ![p] = pol]
    BY <1>1 DEF Acquire
  <2>2. /\ pc[p] = "idle" /\ pc' = [pc EXCEPT ![p] = "check"] /\ since' = [since EXCEPT ![p] = now]
        /\ UNCHANGED <<now, failures, calls, limit, overran, late>>
    BY <1>1 DEF Acquire, Goto, clockVars
  <2>3. calls[p] = 0 /\ failures[p] = 0 /\ Spent(pol, 0, 0) = 0
    BY <2>2, <1>0, SpentWithin DEF Counting
  <2>4. InTime(p)'
    BY <2>1, <2>2, <2>3, <1>0 DEF InTime, Budget
  <2>5. ASSUME NEW q \in Procs, q # p, InTime(q) PROVE InTime(q)'
    BY <2>1, <2>2, <2>5, <1>0, InTimeStays
  <2>6. QED
    BY <2>2, <2>4, <2>5, <1>0 DEF TimeInv
<1>2. ASSUME NEW p \in Procs, Attempt(p) PROVE TimeInv'
  <2>1. /\ pc[p] = "check" /\ UNCHANGED <<now, since, policy, failures, overran, late>>
        /\ \/ pc' = [pc EXCEPT ![p] = "release"] /\ UNCHANGED <<calls, limit>>
           \/ /\ pc' = [pc EXCEPT ![p] = "fn"] /\ calls' = [calls EXCEPT ![p] = calls[p] + 1]
              /\ limit' = [limit EXCEPT ![p] = now + Timeout]
    BY <1>2 DEF Attempt, Goto, clockVars
  <2>2. /\ policy[p] \in Policies /\ calls[p] \in Nat /\ failures[p] \in Nat
        /\ calls[p] <= policy[p].attempts /\ failures[p] + 1 <= policy[p].attempts
    BY <2>1, <1>0, LeaseAssumption DEF Counting, IsPolicy
  <2>3. /\ Spent(policy[p], calls[p], failures[p]) <= WorstCase(policy[p], Timeout)
        /\ Spent(policy[p], calls[p] + 1, failures[p]) = Spent(policy[p], calls[p], failures[p]) + Timeout
        /\ Spent(policy[p], calls[p], failures[p]) \in Nat /\ WorstCase(policy[p], Timeout) \in Nat
    BY <2>2, SpentWithin
  <2>4. InTime(p) => InTime(p)'
    BY <2>1, <2>2, <2>3, <1>0 DEF InTime, Budget
  <2>5. ASSUME NEW q \in Procs, q # p, InTime(q) PROVE InTime(q)'
    BY <2>1, <2>5, <1>0, InTimeStays
  <2>6. QED
    BY <2>1, <2>4, <2>5, <1>0 DEF TimeInv
<1>3. ASSUME NEW p \in Procs, FnReturns(p) \/ Wait(p) PROVE TimeInv'
  <2>1. /\ UNCHANGED <<now, since, policy, failures, calls, limit, overran, late>>
        /\ \/ pc[p] = "fn" /\ pc' = [pc EXCEPT ![p] = "release"]
           \/ pc[p] = "fn" /\ pc' = [pc EXCEPT ![p] = "next"]
           \/ pc[p] = "wait" /\ pc' = [pc EXCEPT ![p] = "check"]
           \/ pc[p] = "wait" /\ pc' = [pc EXCEPT ![p] = "release"]
    BY <1>3 DEF FnReturns, Wait, Goto, clockVars
  <2>2. /\ policy[p] \in Policies /\ calls[p] \in Nat /\ failures[p] \in Nat
        /\ calls[p] <= policy[p].attempts /\ failures[p] + 1 <= policy[p].attempts
    BY <2>1, <1>0, LeaseAssumption DEF Counting, IsPolicy
  <2>3. /\ Spent(policy[p], calls[p], failures[p]) <= WorstCase(policy[p], Timeout)
        /\ Spent(policy[p], calls[p], failures[p]) \in Nat /\ WorstCase(policy[p], Timeout) \in Nat
    BY <2>2, SpentWithin
  <2>4. ~late => InTime(p)'
    BY <2>1, <2>2, <2>3, <1>0 DEF InTime, Budget, TimeInv
  <2>5. ASSUME NEW q \in Procs, q # p, InTime(q) PROVE InTime(q)'
    BY <2>1, <2>5, <1>0, InTimeStays
  <2>6. QED
    BY <2>1, <2>4, <2>5, <1>0 DEF TimeInv

<1>4. ASSUME NEW p \in Procs, AskPolicy(p) PROVE TimeInv'
  <2> DEFINE n == failures[p]
             pol == policy[p]
             delay == DelayFor(policy[p], failures[p] + 1)
  <2>1. /\ pc[p] = "next" /\ failures[counter[p]] = n /\ pol \in Policies /\ calls[p] \in Nat /\ n \in Nat
        /\ n + 1 = calls[p] /\ calls[p] <= pol.attempts
    BY <1>4, <1>0, AskCounts DEF Counting
  <2>2. /\ UNCHANGED <<now, since, policy, calls, overran, late>>
        /\ failures' = [failures EXCEPT ![p] = Counted(pol, n)]
        /\ \/ pc' = [pc EXCEPT ![p] = "release"] /\ limit' = limit
           \/ Again(pol, n) /\ pc' = [pc EXCEPT ![p] = "check"] /\ limit' = limit
           \/ /\ Again(pol, n) /\ delay > 0 /\ pc' = [pc EXCEPT ![p] = "wait"]
              /\ limit' = [limit EXCEPT ![p] = now + delay]
    BY <2>1, <1>4, AskCounts DEF AskPolicy, Goto, After, clockVars
  <2>3. delay \in Int /\ delay <= LongestWait(pol) /\ LongestWait(pol) \in Nat
    BY <2>1, WaitCapped
  <2>4. /\ Spent(pol, calls[p], n) <= WorstCase(pol, Timeout)
        /\ Spent(pol, calls[p], n + 1) = Spent(pol, calls[p], n) + LongestWait(pol)
        /\ Spent(pol, calls[p], n) \in Nat /\ WorstCase(pol, Timeout) \in Nat
    BY <2>1, SpentWithin
  <2>5. Again(pol, n) => failures'[p] = n + 1
    BY <2>2, <1>0 DEF Counted
  <2> HIDE DEF delay
  <2>6. limit' \in [Procs -> Nat] /\ \A q \in Procs : q # p => pc'[q] = pc[q] /\ limit'[q] = limit[q]
    BY <2>2, <2>3, <1>0
  <2>7. InTime(p) => InTime(p)'
    <3>1. SUFFICES ASSUME now <= since[p] + Spent(pol, calls[p], n) PROVE InTime(p)'
      BY <2>1 DEF InTime, Budget
    <3>2. CASE pc' = [pc EXCEPT ![p] = "release"]
      BY <3>1, <3>2, <2>2, <2>4, <1>0 DEF InTime
    <3>3. CASE Again(pol, n) /\ pc' = [pc EXCEPT ![p] = "check"]
      BY <3>1, <3>3, <2>2, <2>3, <2>4, <2>5, <1>0 DEF InTime, Budget
    <3>4. CASE Again(pol, n) /\ pc' = [pc EXCEPT ![p] = "wait"] /\ limit' = [limit EXCEPT ![p] = now + delay]
      BY <3>1, <3>4, <2>2, <2>3, <2>4, <2>5, <1>0 DEF InTime, Budget
    <3>5. QED
      BY <3>2, <3>3, <3>4, <2>2
  <2>8. ASSUME NEW q \in Procs, q # p, InTime(q) PROVE InTime(q)'
    BY <2>2, <2>6, <2>8, <1>0, InTimeStays
  <2>9. pc'[p] \in {"fn", "wait"} => now <= limit'[p]
    BY <2>2, <2>3, <1>0
  <2>10. QED
    BY <2>2, <2>6, <2>7, <2>8, <2>9, <1>0 DEF TimeInv
<1>5. ASSUME NEW p \in Procs, Release(p) \/ Die(p) PROVE TimeInv'
  <2>1. /\ pc' = [pc EXCEPT ![p] = "idle"] /\ since' = [since EXCEPT ![p] = 0]
        /\ policy' = [policy EXCEPT ![p] = NoRetry] /\ failures' = [failures EXCEPT ![p] = 0]
        /\ calls' = [calls EXCEPT ![p] = 0] /\ limit' = [limit EXCEPT ![p] = 0]
        /\ UNCHANGED <<now, overran, late>>
    BY <1>5 DEF Release, Die, Leave, Goto, Forget, clockVars
  <2>2. InTime(p)'
    BY <2>1, <1>0 DEF InTime
  <2>3. ASSUME NEW q \in Procs, q # p, InTime(q) PROVE InTime(q)'
    BY <2>1, <2>3, <1>0, InTimeStays
  <2>4. limit' \in [Procs -> Nat] /\ \A q \in Procs : pc'[q] \in {"fn", "wait"} => q # p
    BY <2>1, <1>0
  <2>5. QED
    BY <2>1, <2>2, <2>3, <2>4, <1>0 DEF TimeInv
<1>6. ASSUME NEW d \in 1..MaxTime, Advance(d) PROVE TimeInv'
  <2>1. now' = now + d /\ UNCHANGED <<pc, since, policy, failures, calls, limit>>
    BY <1>6 DEF Advance, AdvanceTime
  <2>2. /\ late' \in BOOLEAN
        /\ ~late' => ~late /\ \A p \in Procs : pc[p] \in Holding => ~(now + d > Granted(p))
        /\ overran' => overran \/ \E p \in Procs : pc[p] \in Holding /\ now + d >= since[p] + Lease
    BY <1>6, <1>0 DEF Advance
  <2>3. d \in Nat
    BY LeaseAssumption
  <2>4. SUFFICES ASSUME ~late'
                 PROVE  /\ ~overran'
                        /\ \A p \in Procs : /\ InTime(p)'
                                            /\ pc[p] \in {"fn", "wait"} => now' <= limit[p]
    BY <2>1, <2>2, <1>0 DEF TimeInv
  <2>5. ~overran /\ \A p \in Procs : InTime(p)
    BY <2>2, <2>4 DEF TimeInv
  <2>6. ASSUME NEW p \in Procs, pc[p] \in Holding
        PROVE  now + d <= Granted(p) /\ now + d < since[p] + Lease
    <3>1. Granted(p) \in Nat /\ since[p] + Lease \in Nat /\ now + d \in Nat
      BY <2>3, <1>0, LeaseAssumption DEF Granted
    <3>2. Granted(p) < since[p] + Lease
      BY <2>5, <2>6, <1>0, BudgetWithin
    <3>3. now + d <= Granted(p)
      BY <2>2, <2>4, <2>6, <3>1
    <3>4. QED
      BY <3>1, <3>2, <3>3
  <2>7. ~overran'
    <3>1. ASSUME NEW p \in Procs, pc[p] \in Holding PROVE ~(now + d >= since[p] + Lease)
      BY <3>1, <2>3, <2>6, <1>0, LeaseAssumption
    <3>2. QED
      BY <3>1, <2>2, <2>5
  <2>8. ASSUME NEW p \in Procs PROVE InTime(p)' /\ (pc[p] \in {"fn", "wait"} => now' <= limit[p])
    <3>1. CASE pc[p] \in {"fn", "wait"}
      <4>1. now + d <= limit[p]
        BY <3>1, <2>6 DEF Granted, Holding
      <4>2. QED
        BY <3>1, <4>1, <2>1, <2>5 DEF InTime, Budget
    <3>2. CASE pc[p] \in Holding \ {"fn", "wait"}
      <4>1. now + d <= now
        BY <3>2, <2>6 DEF Granted
      <4>2. QED
        BY <4>1, <1>0
    <3>3. CASE pc[p] = "idle"
      BY <3>3, <2>1 DEF InTime
    <3>4. QED
      BY <3>1, <3>2, <3>3, <1>0
  <2>9. QED
    BY <2>1, <2>7, <2>8
<1>7. CASE Deliver \/ Stop \/ UNCHANGED vars
  <2>1. UNCHANGED <<now, pc, since, policy, failures, calls, limit, overran, late>>
    BY <1>7 DEF Deliver, Send, Stop, vars, clockVars
  <2>2. QED
    BY <2>1 DEF TimeInv, InTime, Budget
<1>8. QED
  BY <1>1, <1>2, <1>3, <1>4, <1>5, <1>6, <1>7 DEF Next

\* A lease longer than the policy's worst case is never overrun by a holder
\* whose fn keeps its timeout, for every policy, lease and number of workers.
THEOREM LeaseLongEnough == Spec => []TimelyNeverOverruns
<1> DEFINE Inv == LeaseInv /\ AttemptInv /\ TimeInv
<1>1. Init => Inv
  <2>1. SUFFICES ASSUME Init PROVE TimeInv
    BY LeaseInit, AttemptInit
  <2>2. /\ pc = [p \in Procs |-> "idle"] /\ limit = [p \in Procs |-> 0]
        /\ overran = FALSE /\ late = FALSE
    BY <2>1 DEF Init
  <2>3. QED
    BY <2>2 DEF TimeInv, InTime
<1>2. Inv /\ [Next]_vars => Inv'
  BY LeaseStep, AttemptStep, TimeStep
<1>3. Inv => TimelyNeverOverruns
  BY DEF TimeInv, TimelyNeverOverruns
<1> HIDE DEF Inv
<1>4. QED
  BY <1>1, <1>2, <1>3, PTL DEF Spec

-----------------------------------------------------------------------------
(* Backoff timers. *)

\* A worker's timers, pending or taken out by Advance.  They belong to the wait
\* it is in; one that Wait left behind for a cancelled context is never met
\* again, because no Execute starts another attempt after that.
TimerOf(p) ==
  /\ pc[p] = "wait" =>
       /\ \A t \in timers \cup due : t.id = p => t.deadline = limit[p]
       /\ p \in ready \/ In(p, timers \cup due)
       /\ p \in ready => limit[p] <= now /\ ~In(p, timers \cup due)
  /\ pc[p] # "wait" /\ In(p, timers \cup due) => ctxDone /\ pc[p] \notin {"fn", "next"}

TimerInv ==
  /\ now \in Nat /\ pc \in [Procs -> Holding \cup {"idle"}] /\ limit \in [Procs -> Nat]
  /\ timers \subseteq [id : Procs, deadline : Nat] /\ due \subseteq [id : Procs, deadline : Nat]
  /\ \A t \in timers : now < t.deadline
  /\ \A t \in due : t.deadline <= now
  /\ \A p \in Procs : TimerOf(p)

\* A step that leaves the clock's timers alone.
LEMMA TimersStay ==
  ASSUME TimerInv, NEW q \in Procs, UNCHANGED <<now, timers, due, ready>>,
         pc'[q] = pc[q], limit'[q] = limit[q], ctxDone => ctxDone'
  PROVE  TimerOf(q)'
BY DEF TimerInv, TimerOf, In

\* Every step keeps the timers in order.
LEMMA TimerStep ==
  ASSUME AttemptInv, TimerInv, [Next]_vars
  PROVE  TimerInv'
<1> USE DEF callVars, historyVars, clockVars
<1>0. /\ now \in Nat /\ pc \in [Procs -> Holding \cup {"idle"}] /\ limit \in [Procs -> Nat]
      /\ timers \subseteq [id : Procs, deadline : Nat] /\ due \subseteq [id : Procs, deadline : Nat]
      /\ (\A t \in timers : now < t.deadline) /\ (\A t \in due : t.deadline <= now)
      /\ \A p \in Procs : TimerOf(p)
  BY DEF TimerInv
<1>1. {"check", "fn", "next", "wait", "release"} \subseteq Holding
  BY DEF Holding
<1>2. ASSUME NEW p \in Procs, NEW l \in Holding \ {"wait"}, pc' = [pc EXCEPT ![p] = l],
             UNCHANGED <<clockVars, ctxDone>>, limit' \in [Procs -> Nat],
             \A q \in Procs : q # p => limit'[q] = limit[q],
             In(p, timers \cup due) => ctxDone /\ l \notin {"fn", "next"}
      PROVE  TimerInv'
  <2>1. pc'[p] = l /\ pc' \in [Procs -> Holding \cup {"idle"}] /\ \A q \in Procs : q # p => pc'[q] = pc[q]
    BY <1>0, <1>2
  <2>2. TimerOf(p)'
    BY <2>1, <1>2 DEF TimerOf
  <2>3. ASSUME NEW q \in Procs, q # p PROVE TimerOf(q)'
    BY <2>1, <2>3, <1>2, TimersStay
  <2>4. QED
    BY <2>1, <2>2, <2>3, <1>0, <1>2 DEF TimerInv
<1>3. ASSUME NEW p \in Procs, Acquire(p) \/ Attempt(p) \/ FnReturns(p) PROVE TimerInv'
  <2>1. UNCHANGED <<clockVars, ctxDone>>
    BY <1>3 DEF Acquire, Attempt, FnReturns
  <2>2. limit' \in [Procs -> Nat] /\ \A q \in Procs : q # p => limit'[q] = limit[q]
    BY <1>0, <1>3, LeaseAssumption DEF Acquire, Attempt, FnReturns
  <2>3. /\ pc[p] # "wait"
        /\ \E l \in {"check", "release", "fn", "next"} :
             /\ pc' = [pc EXCEPT ![p] = l]
             /\ l \in {"fn", "next"} => ~ctxDone \/ pc[p] = "fn"
    BY <1>3 DEF Acquire, Attempt, FnReturns, Goto
  <2>4. PICK l \in {"check", "release", "fn", "next"} :
          /\ pc' = [pc EXCEPT ![p] = l]
          /\ l \in {"fn", "next"} => ~ctxDone \/ pc[p] = "fn"
    BY <2>3
  <2>5. In(p, timers \cup due) => ctxDone /\ l \notin {"fn", "next"}
    BY <2>3, <2>4, <1>0 DEF TimerOf
  <2>6. l \in Holding \ {"wait"}
    BY <1>1
  <2>7. QED
    BY <2>1, <2>2, <2>4, <2>5, <2>6, <1>2
<1>4. ASSUME NEW p \in Procs, AskPolicy(p) PROVE TimerInv'
  <2>1. pc[p] = "next" /\ ctxDone' = ctxDone /\ ~In(p, timers \cup due)
    BY <1>0, <1>4 DEF AskPolicy, TimerOf
  <2>2. CASE \E l \in {"release", "check"} : pc' = [pc EXCEPT ![p] = l] /\ UNCHANGED <<clockVars, limit>>
    <3>1. PICK l \in {"release", "check"} : pc' = [pc EXCEPT ![p] = l] /\ UNCHANGED <<clockVars, limit>>
      BY <2>2
    <3>2. l \in Holding \ {"wait"}
      BY <1>1
    <3>3. QED
      BY <3>1, <3>2, <2>1, <1>0, <1>2
  <2>3. CASE \E d : /\ d = DelayFor(policy[p], failures[counter[p]] + 1) /\ d > 0
                    /\ After(p, d) /\ limit' = [limit EXCEPT ![p] = now + d]
                    /\ pc' = [pc EXCEPT ![p] = "wait"]
    <3>1. PICK d : /\ d = DelayFor(policy[p], failures[counter[p]] + 1) /\ d > 0
                   /\ After(p, d) /\ limit' = [limit EXCEPT ![p] = now + d]
                   /\ pc' = [pc EXCEPT ![p] = "wait"]
      BY <2>3
    <3>2. d \in Int
      <4>1. policy[p] \in Policies /\ failures[counter[p]] + 1 \in Nat \ {0}
        BY <2>1, <1>4, AskCounts DEF AttemptInv, CallTypes, Counting
      <4>2. QED
        BY <4>1, <3>1, WaitCapped
    <3>3. now + d \in Nat /\ now < now + d
      BY <3>1, <3>2, <1>0
    <3> DEFINE t0 == [id |-> p, deadline |-> now + d]
    <3>4. /\ timers' = timers \cup {t0} /\ ready' = ready \ {p} /\ UNCHANGED <<now, due>>
          /\ t0 \in [id : Procs, deadline : Nat] /\ t0.id = p /\ t0.deadline = now + d
      BY <3>1, <3>3 DEF After
    <3> HIDE DEF t0
    <3>5. /\ pc' \in [Procs -> Holding \cup {"idle"}] /\ limit' \in [Procs -> Nat]
          /\ pc'[p] = "wait" /\ limit'[p] = now + d
          /\ \A q \in Procs : q # p => pc'[q] = pc[q] /\ limit'[q] = limit[q]
      BY <3>1, <3>3, <1>0, <1>1
    <3>6. TimerOf(p)'
      BY <3>4, <3>5, <2>1 DEF TimerOf, In
    <3>7. ASSUME NEW q \in Procs, q # p PROVE TimerOf(q)'
      <4>1. \A t \in timers' \cup due' : t.id = q => t \in timers \cup due
        BY <3>4, <3>7
      <4>2. In(q, timers' \cup due') <=> In(q, timers \cup due)
        BY <4>1, <3>4 DEF In
      <4>3. q \in ready' <=> q \in ready
        BY <3>4, <3>7
      <4>4. QED
        BY <4>1, <4>2, <4>3, <3>4, <3>5, <3>7, <2>1, <1>0 DEF TimerOf
    <3>8. QED
      BY <3>3, <3>4, <3>5, <3>6, <3>7, <1>0 DEF TimerInv
  <2>4. QED
    BY <2>2, <2>3, <1>4 DEF AskPolicy, Goto
<1>5. ASSUME NEW p \in Procs, Wait(p) PROVE TimerInv'
  <2>1. pc[p] = "wait" /\ UNCHANGED <<now, timers, due, limit, ctxDone>>
    BY <1>5 DEF Wait
  <2>2. /\ ready' \in {ready, ready \ {p}}
        /\ \/ pc' = [pc EXCEPT ![p] = "check"] /\ p \in ready
           \/ pc' = [pc EXCEPT ![p] = "release"] /\ ctxDone
    BY <1>5 DEF Wait, Goto
  <2>3. TimerOf(p)'
    BY <2>1, <2>2, <1>0 DEF TimerOf, In
  <2>4. ASSUME NEW q \in Procs, q # p PROVE TimerOf(q)'
    BY <2>1, <2>2, <2>4, <1>0 DEF TimerOf, In
  <2>5. pc' \in [Procs -> Holding \cup {"idle"}]
    BY <2>2, <1>0, <1>1
  <2>6. QED
    BY <2>1, <2>3, <2>4, <2>5, <1>0 DEF TimerInv
<1>6. ASSUME NEW p \in Procs, Release(p) PROVE TimerInv'
  <2>1. /\ pc[p] = "release" /\ pc' = [pc EXCEPT ![p] = "idle"] /\ limit' = [limit EXCEPT ![p] = 0]
        /\ UNCHANGED <<clockVars, ctxDone>>
    BY <1>6 DEF Release, Leave, Goto
  <2>2. TimerOf(p)'
    BY <2>1, <1>0 DEF TimerOf, In
  <2>3. ASSUME NEW q \in Procs, q # p PROVE TimerOf(q)'
    BY <2>1, <2>3, <1>0, TimersStay
  <2>4. QED
    BY <2>1, <2>2, <2>3, <1>0 DEF TimerInv
<1>7. ASSUME NEW p \in Procs, Die(p) PROVE TimerInv'
  <2>1. /\ pc' = [pc EXCEPT ![p] = "idle"] /\ limit' = [limit EXCEPT ![p] = 0]
        /\ timers' = { t \in timers : t.id # p } /\ due' = { t \in due : t.id # p }
        /\ ready' = ready \ {p} /\ UNCHANGED <<now, ctxDone>>
    BY <1>7 DEF Die, Leave, Goto, Forget
  <2>2. TimerOf(p)'
    BY <2>1, <1>0 DEF TimerOf, In
  <2>3. ASSUME NEW q \in Procs, q # p PROVE TimerOf(q)'
    <3>1. pc'[q] = pc[q] /\ limit'[q] = limit[q] /\ (q \in ready' <=> q \in ready)
      BY <2>1, <2>3, <1>0
    <3>2. timers' \cup due' \subseteq timers \cup due
      BY <2>1
    <3>3. In(q, timers' \cup due') <=> In(q, timers \cup due)
      BY <2>1, <2>3 DEF In
    <3>4. QED
      BY <3>1, <3>2, <3>3, <2>1, <1>0 DEF TimerOf
  <2>4. QED
    BY <2>1, <2>2, <2>3, <1>0 DEF TimerInv
<1>8. ASSUME NEW d \in 1..MaxTime, Advance(d) PROVE TimerInv'
  <2>1. /\ due = {} /\ now' = now + d /\ due' = { t \in timers : now' >= t.deadline }
        /\ timers' = { t \in timers : ~(now' >= t.deadline) }
        /\ UNCHANGED <<ready, pc, limit, ctxDone>>
    BY <1>8 DEF Advance, AdvanceTime, Reached
  <2>2. now' \in Nat /\ now <= now'
    BY <2>1, <1>0, LeaseAssumption
  <2>3. timers' \cup due' = timers \cup due
    BY <2>1
  <2>4. ASSUME NEW p \in Procs PROVE TimerOf(p)'
    <3>1. In(p, timers' \cup due') <=> In(p, timers \cup due)
      BY <2>3 DEF In
    <3>2. limit[p] <= now => limit[p] <= now'
      BY <2>2, <1>0
    <3>3. QED
      BY <3>1, <3>2, <2>1, <2>3, <1>0 DEF TimerOf
  <2>5. (\A t \in timers' : now' < t.deadline) /\ (\A t \in due' : t.deadline <= now')
    BY <2>1, <2>2, <1>0
  <2>6. QED
    BY <2>1, <2>2, <2>3, <2>4, <2>5, <1>0 DEF TimerInv
<1>9. CASE Deliver
  <2>1. PICK t \in due : ready' = ready \cup {t.id} /\ due' = due \ {t}
    BY <1>9 DEF Deliver, Send
  <2>2. UNCHANGED <<now, timers, pc, limit, ctxDone>>
    BY <1>9 DEF Deliver, Send
  <2>3. t \in [id : Procs, deadline : Nat] /\ t.deadline <= now
    BY <1>0
  <2>4. ASSUME NEW q \in Procs PROVE TimerOf(q)'
    <3>1. CASE q # t.id
      <4>1. In(q, timers' \cup due') <=> In(q, timers \cup due)
        BY <3>1, <2>1, <2>2 DEF In
      <4>2. QED
        BY <3>1, <4>1, <2>1, <2>2, <1>0 DEF TimerOf
    <3>2. CASE q = t.id /\ pc[q] # "wait"
      BY <3>2, <2>1, <2>2, <1>0 DEF TimerOf, In
    <3>3. CASE q = t.id /\ pc[q] = "wait"
      <4>1. \A u \in timers \cup due : u.id = q => u.deadline = limit[q]
        BY <3>3, <1>0 DEF TimerOf
      <4>2. limit[q] = t.deadline
        BY <4>1, <3>3
      <4>3. \A u \in timers' \cup due' : u.id # q
        <5>1. ASSUME NEW u \in timers, u.id = q PROVE FALSE
          BY <5>1, <4>1, <4>2, <2>3, <1>0
        <5>2. ASSUME NEW u \in due, u.id = q PROVE u = t
          BY <5>2, <4>1, <4>2, <3>3, <2>3, <1>0
        <5>3. QED
          BY <5>1, <5>2, <2>1, <2>2
      <4>4. QED
        BY <4>2, <4>3, <3>3, <2>1, <2>2, <2>3 DEF TimerOf, In
    <3>4. QED
      BY <3>1, <3>2, <3>3
  <2>5. QED
    BY <2>1, <2>2, <2>4, <1>0 DEF TimerInv
<1>10. CASE Stop \/ UNCHANGED vars
  <2>1. UNCHANGED <<clockVars, pc, limit>> /\ (ctxDone => ctxDone')
    BY <1>10 DEF Stop, vars
  <2>2. QED
    BY <2>1, <1>0, TimersStay DEF TimerInv
<1>11. QED
  BY <1>3, <1>4, <1>5, <1>6, <1>7, <1>8, <1>9, <1>10 DEF Next

\* A backoff wait is never without its timer and never ends early: the timer is
\* pending until the wait is over, then taken out, sent or received.
THEOREM WaitsAreWoken == Spec => []TimersDeliver
<1> DEFINE Inv == AttemptInv /\ TimerInv
<1>1. Init => Inv
  <2>1. SUFFICES ASSUME Init PROVE TimerInv
    BY AttemptInit
  <2>2. /\ pc = [p \in Procs |-> "idle"] /\ limit = [p \in Procs |-> 0]
        /\ now = 0 /\ timers = {} /\ due = {} /\ ready = {}
    BY <2>1 DEF Init, ClockInit
  <2>3. QED
    BY <2>2 DEF TimerInv, TimerOf, In
<1>2. Inv /\ [Next]_vars => Inv'
  BY AttemptStep, TimerStep
<1>3. Inv => TimersDeliver
  <2>1. SUFFICES ASSUME TimerInv, NEW p \in Procs, pc[p] = "wait"
                 PROVE  IF now < limit[p] THEN p \notin ready /\ In(p, timers)
                                          ELSE p \in ready \/ In(p, due)
    BY DEF TimersDeliver
  <2>2. QED
    BY <2>1 DEF TimerInv, TimerOf, In
<1> HIDE DEF Inv
<1>4. QED
  BY <1>1, <1>2, <1>3, PTL DEF Spec
=============================================================================
