\* Timers and WaitDone calls against workers, RunOnce, a Signal and Cancel, with a failed store call.
SPECIFICATION Spec
CONSTANTS
  c1 = c1 h1 = h1 h2 = h2 r1 = r1 w1 = w1 w2 = w2 m1 = m1 g1 = g1 x1 = x1
  Runs = {r1}
  Workers = {w1, w2}
  Manuals = {m1}
  Cancellers = {c1}
  Retriers = {}
  Signallers = {g1}
  Stoppers = {}
  Waiters = {x1}
  Plan <- ExecSleep
  RecoverEnabled = FALSE
  ExecMayFail = TRUE
  MaxCrashes = 0
  MaxFaults = 1
  QueueSize = 1
  Handles = {h1, h2}
SYMMETRY Interchangeable
INVARIANTS
  RegisteredIsArmed
  WakeupPending
  WaitDoneIsTerminal
  WaiterNotForgotten
  RegistryClean
CHECK_DEADLOCK FALSE
