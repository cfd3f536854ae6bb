\* A rule of the mandatory file against one of the files read before it.
SPECIFICATION Spec
CONSTANTS
  n = n
  nd = nd
  root = root
  mnt = mnt
  Paths = {n, nd}
  Mounts = {root, mnt}
  Types = {"ext3", "nfs", "vfat"}
  Length <- MCLength
  Prefix <- MCPrefix
  Builtin <- MCBuiltin
  StaticRules <- MCStatic
  Files <- MCFiles
  MountTables <- MCTables
  Subs = {1}
  MaxTime = 2
INVARIANTS
  MandatoryWins
