SPECIFICATION Spec
CONSTANTS
  w1 = w1
  w2 = w2
  Workers = {w1, w2}
  Tokens = {}
  Nobody = Nobody
  NoToken = NoToken
  Torn = Torn
  MaxTasks = 2
  MaxFaults = 1
  Targets = {"completed", "pending"}
SYMMETRY Symmetry
INVARIANTS
  TypeOK
  UniqueIds
  Readable
  CounterTrails
CHECK_DEADLOCK FALSE
