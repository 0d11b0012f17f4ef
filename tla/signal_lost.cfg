\* Two Signals with one name: Ack deletes the one nobody has read.
SPECIFICATION Spec
CONSTANTS
  Steps <- TwiceSteps
  Entry <- TwiceEntry
  Op <- TwiceOp
  SignalOf <- TwiceSignalOf
  Delay <- TwiceDelay
  Succ <- TwiceSucc
  Versions = {"v1"}
  Values = {"x"}
  Payloads = {"p1", "p2"}
  Signals = {"a"}
  Target <- ToA
  MaxCrashes = 0
  MaxFaults = 0
  MaxRetries = 0
INVARIANTS
  NewestSignalKept
CHECK_DEADLOCK FALSE
