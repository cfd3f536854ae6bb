\* Two applications that may fork a server each, use the same request numbers,
\* and leave; the server dies once or exits when idle, and one path is not
\* monitored.
SPECIFICATION Spec
CONSTANTS
  s1 = s1
  s2 = s2
  c1 = c1
  c2 = c2
  p1 = p1
  p2 = p2
  Socks = {s1, s2}
  Clients = {c1, c2}
  Paths = {p1, p2}
  NoPath = NoPath
  NoSock = NoSock
  SeqSpan = 4
  MonTypes = {"FILE"}
  UserNums = {}
  UseAuto = TRUE
  DoubleCancel = FALSE
  MaxReq = 1
  MaxTab = 1
  MaxUp = 2
  MaxStarting = 2
  NonePaths = {p2}
  UseTimeout = TRUE
  Reports = {"Exists"}
  EmitTypes = {"Changed"}
  MaxPending = 1
  MaxReported = 10
  MaxDeaths = 1
SYMMETRY SockClientSymmetry
INVARIANTS
  IdleTimer
  EqArmed
  Attribution
