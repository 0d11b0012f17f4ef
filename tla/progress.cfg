\* Every wait ends and errors are handled: the run comes to a terminal status, and
\* a divergent replay to no success.
SPECIFICATION FairSpec
CONSTANTS
  Steps <- CatchSteps
  Entry <- CatchEntry
  Op <- CatchOp
  SignalOf <- CatchSignalOf
  Delay <- CatchDelay
  Succ <- CatchSucc
  Versions = {"v1"}
  Values = {"x", "y"}
  Payloads = {"p1"}
  Signals = {"a"}
  Target <- ToA
  MaxCrashes = 2
  MaxFaults = 1
  MaxRetries = 1
PROPERTIES
  UnreadIsReported
  EventuallyTerminal
CHECK_DEADLOCK FALSE
