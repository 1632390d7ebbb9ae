SPECIFICATION FairSpec
CONSTANTS
  NChild = 3
  NInputs = 2
  maxThread = 1
INVARIANTS
  IInv
  NumThreadCounts
  BoundedThreads
  WaitingHasAWaker
  ReleasedAfterTheThreads
PROPERTIES
  ForkJoinSpec
  Ends
