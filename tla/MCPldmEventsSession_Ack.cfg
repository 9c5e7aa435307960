SPECIFICATION SessionSpec
CONSTANTS
  BufSize = 7
  HdrLen = 2
  CrcLen = 1
  SyncField = 3
  AsyncField = 3
  Backlog = 1
  MinReceiver = 4
  DefaultSize = 6
  InitialSize = 4
  ReceiverSizes <- MCReceiverSizes
  DataLens <- MCDataLens
  Eids <- MCNobody
  MaxId = 2
PROPERTY FirstPollTakesNothing
