SPECIFICATION BothSpec
CONSTANTS
  Modes = {"ralplan", "team", "ralph"}
  Absent = Absent
  Torn = Torn
  MaxCalls = 3
  MaxKills = 1
  Runs = {r1}
  Operator = Operator
  Policy = "score_improvement"
  Nobody = Nobody
  Missing = Missing
  Unparsed = Unparsed
  MaxIterations = 2
  MaxCommits = 2
  MaxStops = 1
  MaxOrders = 1
INVARIANTS
  ModesCompatible
  SkillFollowsMode
  LedgerExplainsManifest
PROPERTIES
  KeepsOnlyBetter
CHECK_DEADLOCK FALSE
