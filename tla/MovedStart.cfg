\* A start date moved past the stored end date.
SPECIFICATION Spec
CONSTANTS
  netflix = netflix
  spotify = spotify
  alice = alice
  bob = bob
  Name = {netflix, spotify}
  User = {alice, bob}
  ZeroUser = ZeroUser
  MaxInt4 = 2
  Nil = Nil
  EmptyText = EmptyText
  NullText = NullText
  Malformed = Malformed
  MaxServiceID = 3
  MaxSubscriptionID = 3
  Worker = {w1}
  Input <- MovedStartInput
  Fault = {}
INVARIANTS
  InvertedUpdateRefused
