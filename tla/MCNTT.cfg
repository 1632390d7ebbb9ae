SPECIFICATION Spec
CONSTANTS
  P = 17
  Calls <- MCCalls
INVARIANTS
  Transforms
  OwnDomainEndsInDst
