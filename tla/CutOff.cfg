\* Requests cut off in the middle, whose statements may still run afterwards.
SPECIFICATION Spec
CONSTANTS
  netflix = netflix
  spotify = spotify
  alice = alice
  bob = bob
  Name = {netflix, spotify}
  User = {alice, bob}
  ZeroUser = ZeroUser
  MaxInt4 = 2
  Nil = Nil
  EmptyText = EmptyText
  NullText = NullText
  Malformed = Malformed
  MaxServiceID = 2
  MaxSubscriptionID = 2
  Worker = {w1, w2}
  Input <- RetriedInput
  Fault = {"lost", "restart"}
INVARIANTS
  NoDoubleBilling
  Inv
PROPERTIES
  NoResurrection
  GoesForward
  ImplementsStore
SYMMETRY
  WorkerSymmetry
