SPECIFICATION FairSpec
CONSTANTS
  Commands <- MCCommands
  Paths = {"abs", "rel", "missing"}
  AbsolutePaths = {"abs", "missing"}
  Missing = {"missing"}
  UserEvents <- MCUserEvents
  MaxEvents = 2
  StdioCap = 3
INVARIANTS
  TypeOK
  NothingWithheld
  ExitStatusTruthful
  ListedAreWatched
  NoFeedback
PROPERTIES
  EndsWhenDue
\* the tool ends
CHECK_DEADLOCK FALSE
