SPECIFICATION AllSpec
CONSTANTS
  w1 = w1
  w2 = w2
  w3 = w3
  t1 = t1
  t2 = t2
  t3 = t3
  t4 = t4
  p1 = p1
  p2 = p2
  Workers = {w1, w2, w3}
  Tokens = {t1, t2, t3, t4}
  Nobody = Nobody
  NoToken = NoToken
  Team = {w1, w2}
  Procs = {p1, p2}
  Absent = Absent
  Torn = Torn
  MaxAgents = 4
  MaxStarts = 2
  MaxStops = 2
  MaxFaults = 1
CONSTRAINT Explored
SYMMETRY Symmetry
INVARIANTS
  TokenIsPrivate
  NoStrayPane
  LeavesNothing
PROPERTIES
  RunningLeaseIsRespected
  OnlyTheOwnerFinishes
  RefusalIsCurrent
