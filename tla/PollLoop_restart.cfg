\* A start, a restart and stops that may overlap them; the bounds stop it.
SPECIFICATION FairSpec
CONSTANTS
  Starters = {main}
  Stoppers = {w1}
  FromUser = {1, 3}
  Capacity = 1
  MayBeLate = FALSE
  MaxStarts = 2
  MaxMessages = 3
INVARIANTS
  TypeOK
  DoneMeansGone
PROPERTIES
  ImplementsDelivery
  StopEndsLoop
  MessagesArrive
CHECK_DEADLOCK FALSE
