SPECIFICATION Spec
CONSTANTS
  F <- MCF
  StageOf <- MCStageOf
  Publics <- MCPublics
  Confs <- MCConfs
  MaxProofs = 2
INVARIANTS
  InverseIsOfThisProof
