SPECIFICATION FewSpec
CONSTANTS
  read = read
  write = write
  secrets = secrets
  managed = managed
  t1 = t1
  t2 = t2
  Token = {t1, t2}
  NoToken = NoToken
  Version = {1, 2}
  NoImage = NoImage
  Policy = {read, write, secrets}
  Allowed = {read, write}
  Label = {managed}
  NoLabel = NoLabel
  Manages <- ThreeSpecs
  Namespace = {n1}
  Cluster = Cluster
  Polls = TRUE
  MaxEvents = 1
  MaxFaults = 1
INVARIANTS
  TypeOK
  KeepsEdits
PROPERTIES
  Converges
  ComesOnline
  StaysEnrolled
CHECK_DEADLOCK FALSE
