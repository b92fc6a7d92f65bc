\* Two users: a message for one, a reply of the other.
SPECIFICATION Spec
CONSTANTS
  Senders = {h1, h2}
  Users = {alice, bob}
  NoUser = nobody
  Kinds = {"text", "image"}
  Limits = {1}
  BufferSizes = {1}
  InitLimit = 1
  InitMaxBuffer = 2
  ChanSize = 1
  MaxRequests = 4
  MaxReplies = 2
INVARIANT DeliveredToAddressee
