SPECIFICATION Spec
CONSTANTS
  jar = jar
  pom = pom
  module = module
  c1 = c1
  c2 = c2
  b1 = b1
  b2 = b2
  Missing = Missing
  NoCommit = NoCommit
  Garbled = Garbled
  VerificationError = VerificationError
  OSError = OSError
  Artifacts <- MCArtifacts
  Commits <- MCCommits
  Bytes <- MCBytes
  Pinned <- MCPinned
  FirstCommit = c1
  MaxRuns = 3
  Retries = 2
  MaxDeletes = 2
  MaxCrashes = 2
SYMMETRY MCSymmetry
INVARIANTS TypeOK NeverMixed SuccessStaysExact
PROPERTY CoordinateSpec
CHECK_DEADLOCK FALSE
