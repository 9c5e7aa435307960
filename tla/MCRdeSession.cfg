SPECIFICATION SessionSpec
CONSTANTS
  ResourceIds <- MCResourceIds
  Values <- MCValues
  Size <- MCSize
  Flash <- MCFlash
  BejHdr = 1
  CrcLen = 1
  RecvFieldLen = 1
  MinChunk = 3
  DevChunk = 4
  MaxLanNum = 2
  WordSize = 1000
  Operations <- MCOperations
  OpIds = {32768}
  Dictionaries <- MCDictionaries
  Pages <- MCPages
  Chunks = {2, 3}
  InitMax = 3
  SendMax = 3
  MaxLosses = 1
INVARIANTS
  StatusMatchesOperation
  IdleTogether
  ReadIsWhole
  ExecutedOnce
PROPERTIES
  ChangesAreAsked
  OperationEnds
CHECK_DEADLOCK FALSE
