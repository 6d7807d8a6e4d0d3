SPECIFICATION Spec
CONSTANTS
  i1 = i1
  i2 = i2
  d1 = d1
  d2 = d2
  Ids <- MCIds
  Drafts <- MCOneDraft
  NoKey = NoKey
  Malformed = Malformed
  MaxWrites = 2
  MaxCrashes = 0
  MaxOrphans = 2
INVARIANT RecordedMeansEnforced
CHECK_DEADLOCK FALSE
