\* Two requests that race on services, dates and deletes.
SPECIFICATION FairSpec
CONSTANTS
  netflix = netflix
  spotify = spotify
  alice = alice
  bob = bob
  Name = {netflix, spotify}
  User = {alice, bob}
  ZeroUser = ZeroUser
  MaxInt4 = 2
  Nil = Nil
  EmptyText = EmptyText
  NullText = NullText
  Malformed = Malformed
  MaxServiceID = 2
  MaxSubscriptionID = 3
  Worker = {w1, w2}
  Input <- ConflictingInput
  Fault = {}
INVARIANTS
  NoDoubleBilling
  ServiceResolved
  DatesOrdered
PROPERTIES
  ServerErrorsExplained
  ImplementsStore
  Answered
