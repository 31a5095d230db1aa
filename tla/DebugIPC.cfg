SPECIFICATION FairSpec
CONSTANTS
  Size <- MCSize
  QueueLimit <- MCQueueLimit
  MaxBlocks <- MCMaxBlocks
  NoBlock = NoBlock
INVARIANTS
  TypeOK
  RingHoldsUnread
  NoBlockMisused
  NoBlockLeaked
  NoLostWakeup
PROPERTIES
  ImplementsMailbox
  EveryDumpHandled
  EveryClientAnswered
CHECK_DEADLOCK FALSE
