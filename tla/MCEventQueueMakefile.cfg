SPECIFICATION Spec
CONSTANTS
  p1 = p1
  p2 = p2
  a = a
  b = b
  Producers <- MCProducers
  Items <- MCItems
  Size = 3
  StoresTwice = TRUE
  NoItem = NoItem
  NoThread = NoThread
PROPERTIES
  FifoSpec
