SPECIFICATION FairSpec
CONSTANTS
  Wds = {1, 2}
  Timeout = TRUE
  Commands <- MCCommands
  Modulus = 3
  QueueLimit = 1
  MaxEvents = 3
  MaxSignals = 1
INVARIANTS
  TypeOK
  CountersAddUp
  NoStatisticsLost
  TableComplete
  SortedAsAsked
PROPERTIES
  SignalEndsTool
CHECK_DEADLOCK FALSE
