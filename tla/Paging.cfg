\* All pages of a list, while others insert, rename and delete.
SPECIFICATION Spec
CONSTANTS
  netflix = netflix
  spotify = spotify
  alice = alice
  Name = {netflix, spotify}
  User = {alice}
  ZeroUser = ZeroUser
  MaxInt4 = 2
  Nil = Nil
  EmptyText = EmptyText
  NullText = NullText
  Malformed = Malformed
  MaxID = 3
  DefaultLimit = 2
  Query <- PagedQuery
  Fault = {"error", "break"}
INVARIANTS
  TypeOK
  Inv
  NoneMissed
  NoneTwice
  TotalOfPage
