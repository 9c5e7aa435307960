SPECIFICATION SessionSpec
CONSTANTS
  MAX_LAN_NUM = 1
  NvmList <- MCNvmList
  Sizes <- MCSizes
  NodeSize = 1
  Alignment = 2
  PDR_POOL_SIZE = 28
  Spares <- MCSpares
  Limits <- MCLimits
  DefaultLimits = "default"
  Tids <- MCTids
  Eids <- MCEids
  BootTid = 103
  BootEid = 0
  MaxChange = 1
  FirstRecord = 1
  Counts <- MCCounts
INVARIANTS
  RepoIsConsistent
  TransferIsOneVersion
  WalkVisitsEveryRecord
PROPERTIES
  EventsTellTheChange
