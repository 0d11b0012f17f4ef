\* Workers, RunOnce, Cancel and Retry on one run, with a crash and a failed store call.
SPECIFICATION Spec
CONSTANTS
  c1 = c1 h1 = h1 r1 = r1 t1 = t1 w1 = w1 m1 = m1 m2 = m2 c2 = c2
  Runs = {r1}
  Workers = {w1}
  Manuals = {m1, m2}
  Cancellers = {c1, c2}
  Retriers = {t1}
  Signallers = {}
  Stoppers = {}
  Waiters = {}
  Plan <- ExecSleep
  RecoverEnabled = FALSE
  ExecMayFail = TRUE
  MaxCrashes = 1
  MaxFaults = 1
  QueueSize = 1
  Handles = {h1}
SYMMETRY Interchangeable
INVARIANTS
  TypeOK
  MutualExclusion
  CancelAudited
PROPERTIES
  ImplementsLifecycle
CHECK_DEADLOCK FALSE
