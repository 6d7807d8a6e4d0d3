SPECIFICATION FairSpec
CONSTANTS
  u1 = u1
  u2 = u2
  k1 = k1
  Ids <- MCIds
  Users <- MCOneUser
  Keys <- MCKeys
  NoKey = NoKey
  MaxWrites = 3
  MaxCrashes = 0
PROPERTY OutboxExactlyOnce
CHECK_DEADLOCK FALSE
