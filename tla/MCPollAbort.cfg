\* A directory and a file in it; the directory may be replaced by a plain file.
SPECIFICATION Spec
CONSTANTS
  d = d
  e = e
  f = f
  s1 = s1
  s2 = s2
  s3 = s3
  Root = Root
  Paths <- PairPaths
  Parent <- PairParent
  Above <- PairAbove
  Subs <- PairSubs
  SubPath <- PairPath
  SubIsDir <- PairIsDir
  Slow = {}
  FileOrDir = {d}
INVARIANTS
  NoAbort
