SPECIFICATION FairSpec
CONSTANTS
  write = write  patch = patch  recipe = recipe  look = look
  a = a  b = b  c = c
  Proposals = {recipe}
  Kind <- MCKind
  Mode <- MCMode
  Contents = {a, b, c}
  FirstContent = a
  Before <- MCBefore
  After <- MCAfter
  None = None
  MaxSteps = 2
  MaxCorrections = 1
  MaxRepeatedActions = 1
  MaxConsecutiveFailures = 1
  MaxVerificationRetries = 1
  MaxFaults = 2
  MaxEdits = 0
CHECK_DEADLOCK FALSE
PROPERTIES ResumeEnds
