\* Two Awaits of one signal and a crash between commit and Ack.
SPECIFICATION Spec
CONSTANTS
  Steps <- TwiceSteps
  Entry <- TwiceEntry
  Op <- TwiceOp
  SignalOf <- TwiceSignalOf
  Delay <- TwiceDelay
  Succ <- TwiceSucc
  Versions = {"v1"}
  Values = {"x"}
  Payloads = {"p1"}
  Signals = {"a"}
  Target <- ToA
  MaxCrashes = 1
  MaxFaults = 0
  MaxRetries = 0
INVARIANTS
  ConsumedOnce
CHECK_DEADLOCK FALSE
