SPECIFICATION FairSpec
CONSTANTS
  HeaderSize = 2
  Sizes = {0, 1, 3}
  MaxMessages = 3
  Garbage = Garbage
CHECK_DEADLOCK FALSE
INVARIANTS
  TypeOK
  InStep
PROPERTIES
  ImplementsChannel
  SentIsDelivered
  EndTogether
