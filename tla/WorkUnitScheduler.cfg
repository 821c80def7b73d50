SPECIFICATION FairSpec
CONSTANTS
  s1 = s1  s2 = s2  s3 = s3  e1 = e1  s4 = s4
  Units = {s1, s2, s3, e1, s4}
  Rank <- MCRank
  Needs <- MCNeeds
  Exclusive = {e1}
  Concurrency = 2
  MaxRestarts = 1
CHECK_DEADLOCK FALSE
INVARIANTS ExclusiveAlone NeedsCompleted NoWorkerLeft ParentGated
PROPERTIES ChainEnds
