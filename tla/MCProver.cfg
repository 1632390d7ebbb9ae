SPECIFICATION Spec
CONSTANTS
  F <- MCF
  StageOf <- MCStageOf
  Publics <- MCPublics
  Confs <- MCConfs
  MaxProofs = 3
INVARIANTS
  TypeOK
  ChallengesBindTheProof
  OnlyThisProofIsHashed
  ChallengesAreDistinct
  ExpressionsUseFreshChallenges
  ReturnedProofIsBound
PROPERTIES
  FiatShamirSpec
