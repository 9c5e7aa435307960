SPECIFICATION SessionSpec
CONSTANTS
  RecvBufMax = 3
  CompIds = {0}
  TransferSizes <- MCTransferSizes
  PkgLens <- MCPkgLens
  ImgSizes <- MCImgSizes
  Origins <- MCOrigins
  Handles <- MCHandles
  Versions = {v1}
  NoVersion = NoVersion
  MaxBlocks = 3
  CallbackResults = {TRUE}
INVARIANTS
  DueMatchesState
  NeverBothWait
  TransferredIsDelivered
  FileIsInOrder
PROPERTIES
  TransferEnds
  ImplementsImageTransfer
