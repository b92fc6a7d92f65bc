\* Two codes, a login and a renewal, up to expiry; the bounds stop it.
SPECIFICATION FairSpec
CONSTANTS
  WarningHours = 1
  ForceAfter = 2
  MaxTime = 2
  MaxTimers = 2
  MaxPollers = 2
INVARIANTS
  IInv
  OneConfirmation
  ExpiresOldOrRenewed
  
PROPERTY DeadCodeIsDropped
CHECK_DEADLOCK FALSE
