\* Two codes of which both may be confirmed, or a restored session and one
\* more, any disconnects; the bounds stop it.
SPECIFICATION FairSpec
CONSTANTS
  MaxQR = 2
  MaxScans = 2
INVARIANTS
  IInv
  
PROPERTY PollersEnd
CHECK_DEADLOCK FALSE
