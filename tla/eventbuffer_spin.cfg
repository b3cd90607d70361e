SPECIFICATION FairSpec
CONSTANTS
  Fanotify = FALSE
  Cap = 3
  MaxSize = 2
  QueueLimit = 2
  Wants = {2}
  Errnos = {4}
  NoEvent = NoEvent
  MaxEvents = 2
  MaxInits = 1
PROPERTIES
  TimedCallReturns
