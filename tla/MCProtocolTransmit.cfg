SPECIFICATION FairSpec
CONSTANTS
  CONFIG_KENNING_PROTOCOL_MAX_OUTGOING_MESSAGE_SIZE = 2
  Sizes = {0, 1, 2, 3, 5}
  MaxEvents = 3
  MaxDepth = 3
INVARIANTS
  TypeOK
  ResponseNeverBusy
  SeriesComplete
PROPERTIES
  LinkIsAtomic
  EveryCallReturns
CHECK_DEADLOCK FALSE
