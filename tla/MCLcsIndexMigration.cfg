SPECIFICATION FairSpec
CONSTANTS
  i1 = i1
  i2 = i2
  d1 = d1
  d2 = d2
  Ids <- MCIds
  Drafts <- MCDrafts
  NoKey = NoKey
  Malformed = Malformed
  MaxWrites = 4
  MaxCrashes = 2
  MaxOrphans = 1
INVARIANTS RecordedMeansEnforced OneSnapshotPerDraft ValidationCannotFail
PROPERTIES ExactIndexKept RolloutCompletes
CHECK_DEADLOCK FALSE
