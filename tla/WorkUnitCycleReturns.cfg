SPECIFICATION FairSpec
CONSTANTS
  N = 3
  MaxEdges = 2
CHECK_DEADLOCK FALSE
PROPERTIES ReturnsOnAcyclic
