SPECIFICATION Spec
CONSTANTS
  MaxPayload = 2
  HdrLen = 1
  BufSize = 10
  Lens <- MCLens
  Tags <- MCTags
  Names = {m1, m2, m3}
  MaxHits = 3
INVARIANTS
  DeliveredIsSent
  UnharmedArrives
