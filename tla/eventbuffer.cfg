SPECIFICATION FairSpec
CONSTANTS
  Fanotify = FALSE
  Cap = 3
  MaxSize = 2
  QueueLimit = 2
  Wants = {0, 1}
  Errnos = {4}
  NoEvent = NoEvent
  MaxEvents = 4
  MaxInits = 2
INVARIANTS
  TypeOK
  CursorsSound
  NullMeansTimeoutOrError
PROPERTIES
  FifoDelivery
  CallReturns
