\* Seconds of two ticks, more messages than fit, two clients.
SPECIFICATION Spec
CONSTANTS
  maxSize = 2
  Clients = {c1, c2}
  TicksPerSecond = 2
  MaxTime = 4
  MaxPushes = 4
SYMMETRY Symmetry
INVARIANTS
  IInv
  PulledOnceInOrder
  UnseenCameLater
