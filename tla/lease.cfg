\* Execute with its attempts and waits under a lease, in time.
SPECIFICATION Spec
CONSTANTS
  p1 = p1 p2 = p2
  Procs = {p1, p2}
  Policies <- SomePolicies
  Timeout = 1
  Lease = 8
  MaxTime = 10
SYMMETRY Interchangeable
INVARIANTS
  TakeoverNeedsOverrun
  TimelyNeverOverruns
  TimersDeliver
PROPERTIES
  AttemptsExact
CHECK_DEADLOCK FALSE
