SPECIFICATION BridgeSpec
CONSTANTS
  b1 = b1
  b2 = b2
  Absent = Absent
  Torn = Torn
  NoEngine = NoEngine
  Nobody = Nobody
  Bridges = {b1, b2}
  MaxLog = 2
  MaxFaults = 1
  Owners = {}
  Requests = {}
  Messages = {"m1"}
  Cursors = {}
SYMMETRY Symmetry
INVARIANTS
  LockExcludes
  LoadsAreConsistent
  AckedIsDurable
  FilesAgree
