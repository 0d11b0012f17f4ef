\* WaitDone against a Retry.
SPECIFICATION Spec
CONSTANTS
  h1 = h1 h2 = h2 r1 = r1 t1 = t1 w1 = w1 x1 = x1
  Runs = {r1}
  Workers = {w1}
  Manuals = {}
  Cancellers = {}
  Retriers = {t1}
  Signallers = {}
  Stoppers = {}
  Waiters = {x1}
  Plan <- JustExec
  RecoverEnabled = TRUE
  ExecMayFail = TRUE
  MaxCrashes = 0
  MaxFaults = 0
  QueueSize = 1
  Handles = {h1, h2}
INVARIANTS
  WaitDoneIsTerminal
CHECK_DEADLOCK FALSE
