SPECIFICATION Spec
CONSTANTS
  Procs = {leader}
  Leaders = {leader}
  Readers = {}
  Contents = {hello}
  Inbox = Inbox
  Torn = Torn
  Bare = Bare
  MaxMessages = 1
  MaxRequests = 1
  MaxFaults = 0
  MaxDisturbances = 0
INVARIANT InstructionsAreQueued
CHECK_DEADLOCK FALSE
