SPECIFICATION Spec
CONSTANTS
  Worker = {w1, w2}
  Service = {s1, s2}
  Sha = {c1}
  NoSha = NoSha
  Limits = {1, 2}
  LateHeartbeats = TRUE
  MaxRequests = 2
  MaxFaults = 1
SYMMETRY Symmetric
INVARIANTS
  TypeOK
PROPERTIES
  GrowthWithinKnownLimit
  InTurn
