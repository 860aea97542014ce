\* Services are deleted while requests resolve and use them.
SPECIFICATION CatalogSpec
CONSTANTS
  netflix = netflix
  spotify = spotify
  alice = alice
  bob = bob
  Name = {netflix, spotify}
  User = {alice, bob}
  ZeroUser = ZeroUser
  MaxInt4 = 2
  Nil = Nil
  EmptyText = EmptyText
  NullText = NullText
  Malformed = Malformed
  MaxServiceID = 3
  MaxSubscriptionID = 2
  Worker = {w1}
  Input <- CatalogInput
  Fault = {"lost", "restart"}
  Caller = {c1}
INVARIANTS
  CatalogInv
  ReferencedServiceExists
  ResolvedOrGone
PROPERTIES
  CatalogErrorsExplained
  ImplementsStore
