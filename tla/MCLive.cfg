\* Fair server and application, one server death: the connection is lost and
\* re-established at every point, and the numbers start again.
SPECIFICATION FairSpec
CONSTANTS
  s1 = s1
  s2 = s2
  c1 = c1
  p1 = p1
  Socks = {s1, s2}
  Clients = {c1}
  Paths = {p1}
  NoPath = NoPath
  NoSock = NoSock
  SeqSpan = 4
  MonTypes = {"FILE"}
  UserNums = {}
  UseAuto = TRUE
  DoubleCancel = FALSE
  MaxReq = 1
  MaxTab = 2
  MaxUp = 2
  MaxStarting = 1
  NonePaths = {}
  UseTimeout = FALSE
  Reports = {"Exists"}
  EmitTypes = {"Changed"}
  MaxPending = 1
  MaxReported = 10
  MaxDeaths = 1
PROPERTIES
  NoSpuriousClose
  CancelAckedUntilReset
  Resubscribed
  Reaped
