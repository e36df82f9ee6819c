SPECIFICATION FairSpec
CONSTANTS
  ms1 = ms1
  ms2 = ms2
  ev1 = ev1
  ev2 = ev2
  Intervals <- MCIntervals
  Events <- MCEvents
  Asks <- MCAsks
  MaxRequests = 4
INVARIANTS
  TypeOK
  TicksDoNotOverlap
  EachTickOnce
  RequestsTakeEffect
  DeletedEventsStop
PROPERTIES
  AddedEventTicks
CHECK_DEADLOCK FALSE
