SPECIFICATION FairSpec
CONSTANTS
  c1 = c1
  c2 = c2
  s1 = s1
  s2 = s2
  e1 = e1
  EpollThreads <- MCEpollThreads
  Conns <- MCOneConn
  Socks <- MCOneSock
  NetEventPerSock = 5
  TotalEventCount = 5
  MaxAccepts = 1
  Traffic = 3
  Batched = TRUE
  Malformed = TRUE
  AppSends = TRUE
  AppCloses = TRUE
INVARIANTS
  TypeOK
  EveryEventHasItsToken
  ConnectIsHeardFirst
  CloseIsPushedOnce
  AtMostOneLateEvent
PROPERTIES
  
  EverythingIsGivenBack
