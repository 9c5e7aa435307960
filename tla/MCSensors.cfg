SPECIFICATION Spec
CONSTANTS
  MAX_LAN_NUM = 1
  Readings <- MCReadings
  Limits <- MCLimits
  ModuleLimits <- MCModuleLimits
  Made <- MCMade
  Fields <- MCFields
  MaxRequests = 2
INVARIANTS EventsTellStates LinkIsShown
PROPERTIES EventsAreAChain
