CONSTANTS
  Kind = "RW"
  MayStop = TRUE
  MaxMessages = 2
  MaxReads = 2
SPECIFICATION FairSpec
CHECK_DEADLOCK FALSE
INVARIANTS
  TypeOK
  MessagesKept
PROPERTIES
  EveryMessageSent
  DestructorReturns
