\* Two handlers, one user, four requests over three rounds.
SPECIFICATION Spec
CONSTANTS
  Senders = {h1, h2}
  Users = {alice}
  NoUser = nobody
  Kinds = {"text", "image"}
  Limits = {2}
  BufferSizes = {1}
  InitLimit = 1
  InitMaxBuffer = 2
  ChanSize = 1
  MaxRequests = 4
  MaxReplies = 2
SYMMETRY Symmetry
INVARIANTS
  IInv
  
  InAcceptOrder
  
  
  
  LosesOnlyAtLimit
  
PROPERTY BufferBounded
