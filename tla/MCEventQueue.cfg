SPECIFICATION FairSpec
CONSTANTS
  p1 = p1
  p2 = p2
  a = a
  b = b
  Producers <- MCProducers
  Items <- MCItems
  Size = 3
  StoresTwice = FALSE
  NoItem = NoItem
  NoThread = NoThread
INVARIANTS
  TypeOK
  StoreIsPrivate
PROPERTIES
  FifoSpec
  EveryItemIsTaken
