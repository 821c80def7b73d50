SPECIFICATION Spec
CONSTANTS
  a1 = a1  a2 = a2  b1 = b1
  taskA = taskA  taskB = taskB
  Attempts = {a1, a2, b1}
  Tasks = {taskA, taskB}
  TaskOf <- MCTaskOf
  Modes <- MCSequential
  MaxReceipts = 2
  MaxDeaths = 3
CHECK_DEADLOCK FALSE
INVARIANTS DebitsSurvive DebitedOnce SettledBeforeRunning
PROPERTIES StopSurvives
