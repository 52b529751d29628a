SPECIFICATION MCSpec
CONSTANTS
  Runtime = {"docker", "kubernetes"}
  History = 2
  MaxStream = 1
  Varied = TRUE
  Alike = TRUE
  MaxFrames = 2
  MaxOwn = 5
  MaxBatch = 1
  MaxBuffer = 2
  MaxEvents = 1
  MaxFaults = 1
  u1 = u1
  u2 = u2
  t1 = t1
  t2 = t2
  User = {u1, u2}
  Tenant = {t1, t2}
  Default = t1
  Protected = {}
  Role = {"owner", "viewer"}
  Session = {1, 2, 3}
  MaxActive = 2
  MaxCalls = 2
  MaxFailures = 1
INVARIANTS
  TypesOK
  DropsOldest
  OneActive
  GroupsFollowRole
  SessionsResolve
PROPERTIES
  Reported
  AccessComesBack
CHECK_DEADLOCK FALSE
