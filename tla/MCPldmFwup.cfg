SPECIFICATION Spec
CONSTANTS
  RecvBufMax = 2
  CompIds = {0}
  TransferSizes <- MCTransferSizes
  PkgLens <- MCPkgLens
  ImgSizes <- MCImgSizes
  Origins <- MCOrigins
  Handles <- MCHandles
  Versions = {v1}
  NoVersion = NoVersion
  MaxBlocks = 2
  CallbackResults = {TRUE}
INVARIANTS
  NoPendingTransition
  BuffersInBounds
  NothingLeftInIdle
PROPERTIES
  SessionEndsOnlyBy
