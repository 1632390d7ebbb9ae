SPECIFICATION Spec
CONSTANTS
  P = 73
  Keys <- MCKeys
  Inputs <- MCInputs
  Challenges <- MCChallenges
INVARIANTS
  TypeOK
  VerifierAccepts
  NeverRefusesItself
  DivisionsStayInside
  InvertsTheDenominators
