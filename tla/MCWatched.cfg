\* A directory and a subdirectory that may be missing.
SPECIFICATION Spec
CONSTANTS
  b1 = b1
  b2 = b2
  b3 = b3
  Tree <- NestTree
  Fixed <- TopFixed
  FilePaths = {}
  Refusable = {}
  NamePrefix <- BPrefix
  NoName = ""
  Subs <- NestSubs
  NoSub = NoSub
  SubDir <- NestDir
  SubFile <- NestFile
  NoWd = NoWd
  MaxGen = 6
  MaxQueue = 1
INVARIANTS
  Covered
