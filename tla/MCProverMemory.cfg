SPECIFICATION Spec
CONSTANTS
  Circuits <- MCCircuits
  PTauFiles <- MCPTauFiles
  ExecFiles <- MCExecFiles
  U32 = 64
  sizeofFr = 2
  MaxThreads = {1, 4, 6}
  Reserved = {100, 10000}
  MaxProofs = 2
INVARIANTS
  CopiesEachByteOnce
  SectionsAreDisjoint
  LoadedKeyIsTheSetups
  AccessesStayInside
  ReadsAreOfThisProof
  OnlyUnmappedCellsAreStale
CHECK_DEADLOCK FALSE
