SPECIFICATION FairSpec
CONSTANTS
  r1 = r1
  r2 = r2
  u1 = u1
  u2 = u2
  img = img
  Releases <- MCOneRelease
  Users <- MCUsers
  ImageDigest <- MCImageDigest
  NoRelease = NoRelease
  NoUser = NoUser
  LegacyTag = LegacyTag
  MaxMain = 3
  MaxShared = 2
  MaxCrashes = 1
  MaxReconfigs = 1
PROPERTY Recovery
