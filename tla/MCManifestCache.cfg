\* the first two fetch and overwrite each other's files, at most a tick late
SPECIFICATION FairSpec
CONSTANTS
  p1 = p1
  p2 = p2
  p3 = p3
  NoManifest = NoManifest
  Procs = {p1, p2, p3}
  Offline = {p3}
  Refreshing = {p2}
  TTL = 1
  Retry = 2
  Delay = 1
INVARIANTS NeverStale
PROPERTIES Recovers
