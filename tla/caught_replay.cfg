\* A caught error: replay does not repeat the first execution.
SPECIFICATION Spec
CONSTANTS
  Steps <- CatchSteps
  Entry <- CatchEntry
  Op <- CatchOp
  SignalOf <- CatchSignalOf
  Delay <- CatchDelay
  Succ <- CatchSucc
  Versions = {"v1"}
  Values = {"x", "y"}
  Payloads = {}
  Signals = {"a"}
  Target <- ToA
  MaxCrashes = 1
  MaxFaults = 0
  MaxRetries = 0
INVARIANTS
  ReplayFollowsRecording
CHECK_DEADLOCK FALSE
