SPECIFICATION FairSpec
CONSTANTS
  MAX_LAN_NUM = 4
  VpdLens <- MCVpdLens
  Controllers = {c1, c2}
  None = None
INVARIANTS
  ReadIsTheTable
  SomeoneMayGoOn
PROPERTIES
  ReadsGoOn
