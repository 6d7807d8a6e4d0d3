SPECIFICATION FairSpec
CONSTANTS
  Ids <- MCIds
  CommentIds <- MCCommentIds
  Guests <- MCGuests
  MaxWrites = 5
  MaxCrashes = 2
  MaxDrifts = 1
INVARIANTS ValidationCannotFail NeverUnguarded RecordedMeansValid
  OneAssessmentPerGuest
PROPERTIES ClaimsKeepOwner RolloutCompletes
CHECK_DEADLOCK FALSE
