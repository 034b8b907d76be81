\* two versions, four packages, one of them a user's own, and four manifests
SPECIFICATION Spec
CONSTANTS
  p1 = p1
  p2 = p2
  p3 = p3
  a1 = a1
  a2 = a2
  b2 = b2
  c2 = c2
  None = None
  Procs = {p1, p2, p3}
  Versions = {1, 2}
  Digests = {a1, a2, b2, c2}
  VersionOf <- MCVersionOf
  Indexes <- MCIndexes
  Pin <- MCPin
  User <- MCUser
  Latest = {p2}
  Offline = {p3}
INVARIANTS Vetted OneRevision
PROPERTIES ImplementsRegistry
