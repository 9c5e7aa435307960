SPECIFICATION FairSpec
CONSTANTS
  Interfaces <- MCInterfaces
  VdmPayload <- MCVdmPayload
  Eids <- MCEids
  Tids <- MCTids
  NoRecord = NoRecord
  Via = 1
  MaxResets = 2
INVARIANTS OwnerIsRight LocatorIsRight AnnouncedIsAnswered
PROPERTIES DiscoveryEnds
