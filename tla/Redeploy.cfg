SPECIFICATION FairSpec
CONSTANTS
  a1 = a1
  dev = dev
  prod = prod
  kaiad = kaiad
  n1 = n1
  Agent = {a1}
  Env = {dev, prod}
  Namespace = {kaiad, n1}
  Default = kaiad
  Unset = Unset
  MaxBuild = 2
  Config <- TwoBuilds
  Slot = {s1, s2}
  None = None
  Patient = TRUE
  MaxEvents = 1
INVARIANTS
  TypeOK
  SureIsTrue
PROPERTIES
  Settles
CHECK_DEADLOCK FALSE
