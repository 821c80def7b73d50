SPECIFICATION FairSpec
CONSTANTS
  write = write  patch = patch  recipe = recipe  look = look
  a = a  b = b  c = c
  Proposals = {write, patch, recipe, look}
  Kind <- MCKind
  Mode <- MCMode
  Contents = {a, b, c}
  FirstContent = a
  Before <- MCBefore
  After <- MCAfter
  None = None
  MaxSteps = 3
  MaxCorrections = 1
  MaxRepeatedActions = 1
  MaxConsecutiveFailures = 1
  MaxVerificationRetries = 1
  MaxFaults = 2
  MaxEdits = 1
CHECK_DEADLOCK FALSE
INVARIANTS UncertainStaysReachable EffectAuthorized RepeatGuarded EvidenceDescribesFile CompletedIsSettled
PROPERTIES NoBlindReplay TaskEnds
