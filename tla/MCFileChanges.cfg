SPECIFICATION FairSpec
CONSTANTS
  Directories = {assets, shaders}
  MaxCount = 2
  MaxChanges = 5
  MaxRegistrations = 2

INVARIANTS TypeOK CountMatches InOrder NoSilentLoss
PROPERTIES NotificationsGetOut DestroyReturns
CHECK_DEADLOCK FALSE
