CONSTANTS
  b1 = b1
  b2 = b2
  Absent = Absent
  Torn = Torn
  NoEngine = NoEngine
  Nobody = Nobody
  Bridges = {b1}
  MaxLog = 2
  MaxFaults = 1
  Owners = {"leader"}
  Requests = {}
  Messages = {"m1"}
  Cursors = {}
SPECIFICATION BridgeSpec
INVARIANTS
  MailboxFollowsLog
