SPECIFICATION Spec
CONSTANTS
  Fanotify = TRUE
  Cap = 3
  MaxSize = 2
  QueueLimit = 1
  Wants = {1}
  Errnos = {4}
  NoEvent = NoEvent
  MaxEvents = 3
  MaxInits = 1
INVARIANTS
  NullMeansTimeoutOrError
