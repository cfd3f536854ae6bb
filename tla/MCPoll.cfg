\* A directory that may be a plain file, and a file in it that two
\* subscriptions monitor, on a file system with a poll timeout.
SPECIFICATION FairSpec
CONSTANTS
  d = d
  e = e
  f = f
  s1 = s1
  s2 = s2
  s3 = s3
  Root = Root
  Paths <- NestPaths
  Parent <- NestParent
  Above <- NestAbove
  Subs <- NestSubs
  SubPath <- NestPath
  SubIsDir <- NestIsDir
  Slow = {f}
  FileOrDir = {e}
INVARIANTS
  TypeOK
  NoFreedNode
  Polled
  Informed
PROPERTIES
  Noticed
  CacheOfFs
