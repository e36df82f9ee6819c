SPECIFICATION Spec
CONSTANTS
  MaxMessageLen = 5
  MessageLens <- MCMessageLens
  MaxSends = 4
  MaxTries = 3
INVARIANTS
  TypeOK
  RoomIsFree
  WriteIsLive
PROPERTIES
  StreamSpec
