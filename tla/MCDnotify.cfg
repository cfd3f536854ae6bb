\* FAMMonitorFile on a directory and on a file in it; the file is polled, the
\* directory is watched with the one descriptor the process may open.
SPECIFICATION FairSpec
CONSTANTS
  d = d
  f = f
  s1 = s1
  s2 = s2
  Root = Root
  None = None
  Dead = Dead
  Paths <- PairPaths
  Parent <- PairParent
  Above <- PairAbove
  Subs <- PairSubs
  SubPath <- PairPath
  SubIsDir <- PairIsDir
  Fds = {1}
  Slow = {f}
  NoKernel = {f}
  FileOrDir = {}
  BusyAt = 1
  QuietAt = 0
  MaxRefs = 2
  MaxBusy = 1
INVARIANTS
  TypeOK
  HashesAgree
  NoDanglingNode
  Listed
PROPERTIES
  CacheOfFiles
  NoticedAtRest
