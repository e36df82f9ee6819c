SPECIFICATION FairSpec
CONSTANTS
  MaxMessageLen = 16
  HeaderLen = 2
  Start <- MCStart
  BadPackets = {3}
  Pacings = {TRUE, FALSE}
INVARIANTS
  TypeOK
  OnRecvGetsThePackets
  PushIsBetweenInTurns
PROPERTIES
  EveryPacketIsReceived
  BadHeaderCloses
  NoByteTwice
