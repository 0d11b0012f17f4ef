\* An order and the examples, through crashes, store faults and redeployments.
SPECIFICATION Spec
CONSTANTS
  Steps <- ShopSteps
  Entry <- ShopEntry
  Op <- ShopOp
  SignalOf <- ShopSignalOf
  Delay <- ShopDelay
  Succ <- ShopSucc
  Versions = {"order", "hello", "demo", "replay"}
  Values = {"x", "y"}
  Payloads = {"p1", "p2"}
  Signals = {"a", "b"}
  Target <- ShopTarget
  MaxCrashes = 1
  MaxFaults = 1
  MaxRetries = 1
INVARIANTS
  TypeOK
  ReplayFollowsRecording
  LogIsWalk
  RunAligned
  OutputIsRecorded
  DeadlinesRespected
  WakeupIsCurrent
  EffectsBounded
  NewestSignalKept
  ShutdownIsNotFailure
PROPERTIES
  ImplementsExecution
CHECK_DEADLOCK FALSE
