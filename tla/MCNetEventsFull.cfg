SPECIFICATION FairSpec
CONSTANTS
  c1 = c1
  c2 = c2
  s1 = s1
  s2 = s2
  e1 = e1
  EpollThreads <- MCEpollThreads
  Conns <- MCTwoConns
  Socks <- MCOneSock
  NetEventPerSock = 2
  TotalEventCount = 2
  MaxAccepts = 3
  Traffic = 0
  Batched = FALSE
  Malformed = FALSE
  AppSends = FALSE
  AppCloses = FALSE
INVARIANTS
  NoEventIsStranded
  NobodyIsLeftWaiting
PROPERTIES
  EveryPushEnds
  
