SPECIFICATION Spec
CONSTANTS
  P = 97
  nBits = 2
  nBitsZK = 1
  qDeg = 2
  maxPolsOpenings = 3
  names <- MCnames
  f <- MCf
  Witnesses <- MCWitnesses
  Blinds <- MCBlinds
  Garbage = {0, 5}
  Challenges = {0, 2, 11}
INVARIANTS
  ExtendsTheWitness
  HidesTheWitness
  QuotientOfTheConstraints
