\* The rows of a page stop coming.
SPECIFICATION Spec
CONSTANTS
  netflix = netflix
  spotify = spotify
  alice = alice
  Name = {netflix, spotify}
  User = {alice}
  ZeroUser = ZeroUser
  MaxInt4 = 2
  Nil = Nil
  EmptyText = EmptyText
  NullText = NullText
  Malformed = Malformed
  MaxID = 3
  DefaultLimit = 2
  Query <- PlainQuery
  Fault = {"break"}
INVARIANTS
  WholePage
