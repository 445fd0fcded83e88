SPECIFICATION FairSpec
CONSTANTS
  Procs = {leader, worker}
  Leaders = {leader}
  Readers = {worker}
  Contents = {hello}
  Inbox = Inbox
  Torn = Torn
  Bare = Bare
  MaxMessages = 2
  MaxRequests = 2
  MaxFaults = 1
  MaxDisturbances = 1
CONSTRAINT FewDisturbances
INVARIANTS
  TypeOK
  NoFalseReceipt
  RequestTrailsMessage
  NoDuplicates
  Kept
PROPERTY
  DirectSettles
