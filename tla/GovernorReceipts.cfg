SPECIFICATION Spec
CONSTANTS
  a1 = a1  a2 = a2  b1 = b1
  taskA = taskA  taskB = taskB
  NoValue = NoValue
  Callers = {a1, a2, b1}
  TaskOf <- MCTaskOf
  RequestID <- MCSharedID
  TryCallers = {b1}
  RetryCallers = {a2}
  QueueCapacity = 2
  FairnessQuantum = 1
  TaskBudget = 2
  RetryBudget = 1
  Windows <- MCTwoWindows
  MinimumStartInterval = 1
  BackoffBaseline <- MCBackoff
  RateResponseWindow = 3
  RateResponseThreshold = 2
  ResetSafetyMargin = 1
  ManualReserve = 0
  ReceiptAware = TRUE
  Outcomes <- MCReceiptOutcomes
  ReceiptSets <- MCReceiptSets
  TelemetrySnapshots <- MCRouteChange
  OperatorSteps = {"acknowledge", "close"}
  MaxTime = 4
  RetentionWindow = 10
CHECK_DEADLOCK FALSE
INVARIANTS UsageWithinLimits RequestCalledOnce EveryCallDebited
PROPERTIES ImplementsLane
