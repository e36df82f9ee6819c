SPECIFICATION Spec
CONSTANTS
  c1 = c1
  c2 = c2
  s1 = s1
  s2 = s2
  e1 = e1
  EpollThreads <- MCEpollThreads
  Conns <- MCOneConn
  Socks <- MCOneSock
  NetEventPerSock = 2
  TotalEventCount = 2
  MaxAccepts = 2
  Traffic = 1
  Batched = FALSE
  Malformed = FALSE
  AppSends = FALSE
  AppCloses = FALSE
INVARIANTS
  ReleasedOnce
