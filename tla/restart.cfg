\* Two runs, a crash, the scan of the first Start and the periodic one.
SPECIFICATION FairSpec
CONSTANTS
  h1 = h1 r1 = r1 r2 = r2 w1 = w1
  Runs = {r1, r2}
  Workers = {w1}
  Manuals = {}
  Cancellers = {}
  Retriers = {}
  Signallers = {}
  Stoppers = {}
  Waiters = {}
  Plan <- JustExec
  RecoverEnabled = TRUE
  ExecMayFail = FALSE
  MaxCrashes = 1
  MaxFaults = 0
  QueueSize = 1
  Handles = {h1}
PROPERTIES
  RunsComplete
CHECK_DEADLOCK FALSE
