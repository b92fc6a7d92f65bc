\* Three starts one after the other, nothing late; the bounds stop it.
SPECIFICATION Spec
CONSTANTS
  Starters = {main}
  Stoppers = {}
  FromUser = {1}
  Capacity = 1
  MayBeLate = FALSE
  MaxStarts = 3
  MaxMessages = 0
INVARIANT StartReplacesLoop
CHECK_DEADLOCK FALSE
