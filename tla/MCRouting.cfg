\* Up to two lines in each configuration file, every backend, and mounts that come
\* and go while two paths are monitored.
SPECIFICATION Spec
CONSTANTS
  n = n
  nd = nd
  root = root
  mnt = mnt
  Paths = {n, nd}
  Mounts = {root, mnt}
  Types = {"ext3", "nfs", "vfat"}
  Length <- MCLength
  Prefix <- MCPrefix
  Builtin <- MCBuiltin
  StaticRules <- MCStatic
  Files <- MCFiles
  MountTables <- MCTables
  Subs = {1}
  MaxTime = 2
INVARIANTS
  TypeOK
  FirstRuleWins
  LastFssetWins
  MountFound
  CleanRemoval
