\* Stop and WaitDone against a worker, its timers and a Signal.
SPECIFICATION FairSpec
CONSTANTS
  g1 = g1 h1 = h1 r1 = r1 s1 = s1 s2 = s2 w1 = w1 x1 = x1
  Runs = {r1}
  Workers = {w1}
  Manuals = {}
  Cancellers = {}
  Retriers = {}
  Signallers = {g1}
  Stoppers = {s1, s2}
  Waiters = {x1}
  Plan <- ExecSleep
  RecoverEnabled = FALSE
  ExecMayFail = TRUE
  MaxCrashes = 0
  MaxFaults = 0
  QueueSize = 1
  Handles = {h1}
INVARIANTS
  StopMeansStopped
PROPERTIES
  StopReturns
  WaitersReturn
CHECK_DEADLOCK FALSE
