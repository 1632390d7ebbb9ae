SPECIFICATION Spec
CONSTANTS
  P = 7
  N = 3
  Values = {0, 1, 2}
  Challenges = {1, 2}
INVARIANTS
  SortedAlongTheTable
  GrandProductCloses
