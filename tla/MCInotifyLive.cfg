\* A fair server, and a directory two levels below the last one that stays
\* with a file in it.
SPECIFICATION FairSpec
CONSTANTS
  b1 = b1
  b2 = b2
  b3 = b3
  Tree <- DeepTree
  Fixed <- TopFixed
  FilePaths <- DeepFiles
  Refusable <- DeepRefusable
  NamePrefix <- BPrefix
  NoName = ""
  Subs <- DeepSubs
  NoSub = NoSub
  SubDir <- DeepDir
  SubFile <- DeepFile
  NoWd = NoWd
  MaxGen = 6
  MaxQueue = 1
INVARIANTS
  Placed
PROPERTIES
  Returns
  FoundAgain
