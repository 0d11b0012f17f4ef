\* With periodic Recover every wakeup and every signal gets through, failed store calls or not.
SPECIFICATION FairSpec
CONSTANTS
  g1 = g1 h1 = h1 r1 = r1 w1 = w1 w2 = w2
  Runs = {r1}
  Workers = {w1, w2}
  Manuals = {}
  Cancellers = {}
  Retriers = {}
  Signallers = {g1}
  Stoppers = {}
  Waiters = {}
  Plan <- SleepAwait
  RecoverEnabled = TRUE
  ExecMayFail = FALSE
  MaxCrashes = 0
  MaxFaults = 1
  QueueSize = 1
  Handles = {h1}
PROPERTIES
  SleepersWake
  SignalsHeard
CHECK_DEADLOCK FALSE
