SPECIFICATION TSpec
CONSTANTS
  Start <- BeforeTheSecond
  Steps <- SomeSteps
  MaxTicks = 5
  Configs <- TwoConfigs
  RETRY_MAX = 2
INVARIANTS Normalised BackoffExact
PROPERTIES TimeoutExact QuietAfterRead
CHECK_DEADLOCK FALSE
