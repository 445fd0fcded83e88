CONSTANTS
  Owners = {"leader", "backup"}
  Requests = {"r1", "r2"}
  Messages = {"m1"}
  Cursors = {"c1"}
  MaxLog = 3
  MaxQueued = 3
  MaxMail = 2
  k1 = k1
  k2 = k2
  Keepers = {k1, k2}
  Pages = {"notes.md", "session-log.md"}
  SessionLogs = {"session-log.md"}
  Items = {"fact", "correction"}
  Nil = Nil
  MaxCalls = 3
  MaxEdits = 2
SPECIFICATION AllSpec
CONSTRAINT Bounded
SYMMETRY Symmetry
INVARIANTS
  ShadowedNeverMoves
  LogExplainsEngine
  IndexFollowsPages
  EnvironmentHeals
PROPERTIES
  LeaseChangesHandsFree
  ImplementsLifecycle
  NothingReplaced
