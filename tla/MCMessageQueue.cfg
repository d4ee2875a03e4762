SPECIFICATION FairSpec
CONSTANTS
  NULL = NULL
  Senders = {s1, s2}
  Receivers = {r1, r2}
  Messages = {m1, m2, m3}
INVARIANTS
  TypeOK
  ListIntact
  OneOwner
  TokensMatchMessages
  NoMessagePassingError
PROPERTIES
  TimeoutJustified
  ImplementsMailbox
  PutReturns
  QueuedIsReceived
