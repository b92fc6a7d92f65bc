\* Three logins, one of which main may have restored, any disconnects and no
\* messages; the bound stops it.
SPECIFICATION SessionSpec
CONSTANTS
  Starters = {1, 2, 3}
  Stoppers = {0}
  FromUser = {}
  Capacity = 1
  MayBeLate = FALSE
  MaxStarts = 3
  MaxMessages = 0
  MayOverlap = FALSE
  MayOverlook = FALSE
INVARIANTS
  
  Online
  
CHECK_DEADLOCK FALSE
