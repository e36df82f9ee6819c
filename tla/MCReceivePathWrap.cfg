SPECIFICATION Spec
CONSTANTS
  MaxMessageLen = 8
  HeaderLen = 2
  Start <- MCStartWrap
  BadPackets = {}
  Pacings = {TRUE}
INVARIANTS
  OnRecvGetsThePackets
