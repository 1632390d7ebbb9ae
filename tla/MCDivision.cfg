SPECIFICATION Spec
CONSTANTS
  P = 3
  Divisions = {"divZh", "divByZerofier"}
  Lengths = {6}
  Divisors = {1, 2, 3, 4}
  MaxThreads = {1, 2, 4}
INVARIANTS
  ThreadsAreDisjoint
  DividesInShares
  RemainderIsReported
