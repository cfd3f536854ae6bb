\* Subscriptions on two directories that are created, removed and renamed to
\* each other.
SPECIFICATION Spec
CONSTANTS
  b1 = b1
  b2 = b2
  b3 = b3
  Tree <- WideTree
  Fixed <- TopFixed
  FilePaths = {}
  Refusable = {}
  NamePrefix <- BPrefix
  NoName = ""
  Subs <- WideSubs
  NoSub = NoSub
  SubDir <- WideDir
  SubFile <- WideFile
  NoWd = NoWd
  MaxGen = 6
  MaxQueue = 1
SYMMETRY SameDir
INVARIANTS
  NoFreedSub
  TablesAgree
  ScanArmed
  Placed
