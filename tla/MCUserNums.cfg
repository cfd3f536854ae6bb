\* Request numbers chosen by the application, inserted in every order, reused
\* after their acknowledgement.
SPECIFICATION Spec
CONSTANTS
  s1 = s1
  c1 = c1
  p1 = p1
  Socks = {s1}
  Clients = {c1}
  Paths = {p1}
  NoPath = NoPath
  NoSock = NoSock
  SeqSpan = 8
  MonTypes = {"FILE"}
  UserNums = {1, 2, 3, 4}
  UseAuto = FALSE
  DoubleCancel = FALSE
  MaxReq = 2
  MaxTab = 4
  MaxUp = 1
  MaxStarting = 1
  NonePaths = {}
  UseTimeout = FALSE
  Reports = {"Exists"}
  EmitTypes = {}
  MaxPending = 1
  MaxReported = 2
  MaxDeaths = 0
INVARIANTS
  UserNumsSorted
  Findable
