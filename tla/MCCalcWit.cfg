SPECIFICATION LoadSpec
CONSTANTS
  Keys <- MCKeys
  n = 4
  Hashes = {2, 3, 6, 7, 10}
  Sizes = {1, 2}
INVARIANTS
  LoadInv
  RunsOnAllItsInputs
  WitnessOfTheObject
  GoodObjectIsLoaded
PROPERTIES
  InputsStayAsTheyRan
