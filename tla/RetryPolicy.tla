---------------------------- MODULE RetryPolicy ----------------------------
(***************************************************************************)
(* The retry policies (src/policy/retry.go) as values.  A policy object is *)
(* its configuration, a record, and a counter of failures, which the       *)
(* module that calls Next keeps.  Durations are integers in units of the   *)
(* smallest one (time.Millisecond, the repaired Initial); a backoff factor *)
(* is a fraction <<numerator, denominator>>, computed with exactly, as     *)
(* float64 does for factors with a power of two below the line and         *)
(* durations under 2^53.                                                   *)
(***************************************************************************)
EXTENDS Integers

AtLeastOne(n) == IF n < 1 THEN 1 ELSE n

NoRetry == [kind |-> "none", initial |-> 0, factor |-> <<1, 1>>, max |-> 0, attempts |-> 1]

NewFixedDelay(delay, maxAttempts) ==
  [kind |-> "fixed", initial |-> delay, factor |-> <<1, 1>>, max |-> delay,
   attempts |-> AtLeastOne(maxAttempts)]

\* Parameters that make no sense are replaced by defaults.
NewExponentialBackoff(initial, factor, max, maxAttempts) ==
  LET first == AtLeastOne(initial)
  IN  [kind     |-> "exponential",
       initial  |-> first,
       factor   |-> IF factor[1] <= factor[2] THEN <<2, 1>> ELSE factor,
       max      |-> IF max <= 0 THEN first ELSE max,
       attempts |-> AtLeastOne(maxAttempts)]

\* What the constructors guarantee of the policies they build.  A negative
\* Delay is let through, and means no wait.
IsPolicy(p) ==
  /\ p.attempts \in Nat \ {0}
  /\ p.initial \in Int /\ p.max \in Int
  /\ \/ p.kind = "none" /\ p.max = p.initial /\ p.attempts = 1
     \/ p.kind = "fixed" /\ p.max = p.initial
     \/ /\ p.kind = "exponential" /\ p.initial > 0 /\ p.max > 0
        /\ p.factor[1] \in Nat \ {0} /\ p.factor[2] \in Nat \ {0}

\* Nobody waits for longer than Max.  (Mutant: no cap.)
MutUncapped(num, den, max) == num \div den
Capped(num, den, max) == IF num > max * den THEN max ELSE num \div den

\* Powers(x)[k]: what k multiplications by x come to.
Powers(x) == LET times[k \in Nat] == IF k = 0 THEN 1 ELSE x * times[k - 1] IN times

\* delayFor: the wait after the k-th failure, capped after the loop.
DelayFor(p, k) ==
  IF p.kind = "exponential"
  THEN Capped(p.initial * Powers(p.factor[1])[k - 1], Powers(p.factor[2])[k - 1], p.max)
  ELSE p.initial

\* Next, after n failures were counted: is there another attempt?  (Mutant:
\* the first attempt is not counted.)
MutOneMore(p, n) == n < p.attempts
Again(p, n) == n + 1 < p.attempts

\* FixedDelay counts every failure, ExponentialBackoff only those it retries.
Counted(p, n) == IF p.kind = "fixed" \/ Again(p, n) THEN n + 1 ELSE n

\* The longest an Execute under p may take by what the policy promises: every
\* attempt takes its whole timeout and every wait the maximum.
LongestWait(p) == IF p.max < 0 THEN 0 ELSE p.max
WorstCase(p, timeout) == p.attempts * timeout + (p.attempts - 1) * LongestWait(p)
=============================================================================
