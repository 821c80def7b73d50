SPECIFICATION Spec
CONSTANTS
  a1 = a1  a2 = a2  b1 = b1
  taskA = taskA  taskB = taskB
  Attempts = {a1, a2}
  Tasks = {taskA}
  TaskOf <- MCOneTask
  Modes <- MCConcurrent
  MaxReceipts = 1
  MaxDeaths = 2
CHECK_DEADLOCK FALSE
INVARIANTS DebitsSurvive
