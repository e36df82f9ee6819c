SPECIFICATION Spec
CONSTANTS
  MaxMessageLen = 16
  HeaderLen = 2
  Start <- MCStart
  BadPackets = {}
  Pacings = {FALSE}
INVARIANTS
  PushIsBetween
