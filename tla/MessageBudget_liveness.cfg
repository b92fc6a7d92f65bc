\* No symmetry: liveness. A request may name the user or rely on the contact.
SPECIFICATION FairSpec
CONSTANTS
  Senders = {h1, h2}
  Users = {alice}
  NoUser = nobody
  Kinds = {"text", "image"}
  Limits = {1}
  BufferSizes = {1}
  InitLimit = 1
  InitMaxBuffer = 2
  ChanSize = 1
  MaxRequests = 3
  MaxReplies = 1
PROPERTIES
  RequestAnswered
  
