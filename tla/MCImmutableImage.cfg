SPECIFICATION Spec
CONSTANTS
  s1 = s1
  s2 = s2
  c1 = c1
  c2 = c2
  c3 = c3
  d1 = d1
  d2 = d2
  d3 = d3
  d4 = d4
  Absent = Absent
  ImageError = ImageError
  OSError = OSError
  Sources <- MCSources
  Configs <- MCConfigs
  Digests <- MCDigests
  SourceOf <- MCSourceOf
  ConfigOf <- MCConfigOf
  FirstSource = s2
  MaxRuns = 3
  Retries = 2
  MaxForeign = 1
  MaxCrashes = 1
SYMMETRY MCSymmetry
INVARIANTS TypeOK EvidenceIsCandidate ModeIsTrue EvidenceAgrees
PROPERTY NeverOverwritten
CHECK_DEADLOCK FALSE
