SPECIFICATION FairSpec
CONSTANTS
  p1 = p1
  p2 = p2
  p3 = p3
  Procs = {p1, p2, p3}
  MaxTries = 2
  BodyOutlives = TRUE
INVARIANTS
  ExclusiveUntilReaped
  NoLeakedDirectory
PROPERTIES
  AttemptEnds
  OrphanRecovered
