\* One application and a server that lives: library numbered requests, file and
\* directory monitors on two paths, cancelled in every order.
SPECIFICATION Spec
CONSTANTS
  s1 = s1
  c1 = c1
  p1 = p1
  p2 = p2
  Socks = {s1}
  Clients = {c1}
  Paths = {p1, p2}
  NoPath = NoPath
  NoSock = NoSock
  SeqSpan = 3
  MonTypes = {"FILE", "DIR"}
  UserNums = {}
  UseAuto = TRUE
  DoubleCancel = FALSE
  MaxReq = 3
  MaxTab = 2
  MaxUp = 2
  MaxStarting = 1
  NonePaths = {}
  UseTimeout = FALSE
  Reports = {"Exists", "Deleted"}
  EmitTypes = {"Changed"}
  MaxPending = 2
  MaxReported = 10
  MaxDeaths = 0
SYMMETRY SockPathSymmetry
INVARIANTS
  TypeOK
  SortedUntilReset
  Attribution
  Agreement
PROPERTIES
  NoSpuriousClose
