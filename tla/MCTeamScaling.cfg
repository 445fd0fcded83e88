SPECIFICATION Spec
CONSTANTS
  Procs = {p1, p2}
  Started = 1
  MaxWorkers = 3
  MaxCount = 2
  MaxPanes = 4
  MaxTasks = 2
  MaxFaults = 1
SYMMETRY Symmetry
CONSTRAINT Explored
INVARIANTS
  TypeOK
  NoOrphanPane
  OneAgentPerName
  FailureRestores
  NumbersDiffer
