SPECIFICATION Spec
CONSTANTS
  Fanotify = FALSE
  Cap = 3
  MaxSize = 2
  QueueLimit = 3
  Wants = {1}
  Errnos = {4}
  NoEvent = NoEvent
  MaxEvents = 3
  MaxInits = 2
INVARIANTS
  EventsAreCurrent
