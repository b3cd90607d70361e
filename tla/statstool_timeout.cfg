SPECIFICATION FairSpec
CONSTANTS
  Wds = {1}
  Timeout = TRUE
  Commands <- MCCommands
  Modulus = 3
  QueueLimit = 2
  MaxEvents = 1
  MaxSignals = 0
PROPERTIES
  ListensOnlyForTimeout
CHECK_DEADLOCK FALSE
