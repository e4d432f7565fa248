SPECIFICATION FairSpec
CONSTANTS
  NBuf = 3
  NDesc = 2
  QSize = 3
  MboxSize = 1
  MaxHeld = 1
INVARIANTS TypeOK OwnedOnce
PROPERTIES InOrder QueueServed Recovers
