SPECIFICATION Spec
CONSTANTS
  w1 = w1
  w2 = w2
  Workers = {w1, w2}
  Tokens = {}
  Nobody = Nobody
  NoToken = NoToken
  Torn = Torn
  MaxTasks = 1
  MaxFaults = 0
  Targets = {"completed"}
PROPERTIES
  TransitionsAuthorized
