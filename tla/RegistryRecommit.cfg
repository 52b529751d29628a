SPECIFICATION Spec
CONSTANTS
  a = a
  x = x
  image = image
  index = index
  t1 = t1
  Blob = {a}
  Manifest = {image, index}
  Tag = {t1}
  Chunk = {x}
  Bytes <- OneBlob
  Refs <- ImageAndIndex
  RepoOf <- TwoRepos
  Pushes <- IndexByDigest
  None = None
  Request = {r1, r2}
  Orderly = TRUE
  MaxObjects = 2
  MaxLength = 1
  MaxFaults = 1
PROPERTY DropsNoCommitted
CHECK_DEADLOCK FALSE
