SPECIFICATION Spec
CONSTANTS
  a1 = a1  a2 = a2  b1 = b1
  taskA = taskA  taskB = taskB
  NoValue = NoValue
  Callers = {a1, a2, b1}
  TaskOf <- MCTaskOf
  RequestID <- MCDistinctIDs
  TryCallers = {}
  RetryCallers = {a2}
  QueueCapacity = 2
  FairnessQuantum = 1
  TaskBudget = 2
  RetryBudget = 1
  Windows <- MCOneWindow
  MinimumStartInterval = 1
  BackoffBaseline <- MCBackoff
  RateResponseWindow = 3
  RateResponseThreshold = 2
  ResetSafetyMargin = 1
  ManualReserve = 0
  ReceiptAware = FALSE
  Outcomes <- MCAllOutcomes
  ReceiptSets <- MCNone
  TelemetrySnapshots <- MCSnapshots
  OperatorSteps = {"cancel", "refresh"}
  MaxTime = 3
  RetentionWindow = 10
CHECK_DEADLOCK FALSE
INVARIANTS SingleLane UsageWithinLimits TurnIsTaken CooldownCoversReset
PROPERTIES PacedStarts NoOvertaking
