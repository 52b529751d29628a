SPECIFICATION MCSpec
CONSTANTS
  Cmd = {a}
  MaxPending = 1
  MaxCalls = 2
  MaxConns = 2
  MaxFaults = 1
  Service = {"a", "b"}
  PipelineName <- Names
  Editor = {e1}
  Typed <- TypedTexts
  Starter <- Start
  Added <- More
  MaxEdits = 3
  MaxBuilds = 3
  Commit = {1, 2}
  File <- Files
  Bound = {"b"}
  MaxFailures = 1
INVARIANTS
  TypeOK
  NothingIsLost
  NoCommandBetweenTheTwo
  TagsServe
  DeploysWhatWasSaved
PROPERTY DeliveredWhenConnected
CHECK_DEADLOCK FALSE
