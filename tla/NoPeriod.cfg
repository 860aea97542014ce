\* No period, and a clock east of UTC: months after the current one, and the current one.
SPECIFICATION Spec
CONSTANTS
  netflix = netflix
  spotify = spotify
  alice = alice
  bob = bob
  Name = {netflix, spotify}
  User = {alice, bob}
  ZeroUser = ZeroUser
  MaxInt4 = 3
  Nil = Nil
  EmptyText = EmptyText
  NullText = NullText
  Malformed = Malformed
  ID = {1, 2}
  Scenario <- NoPeriodScenario
  Zone = 1
  FirstMonth <- march
  LastMonth <- march
INVARIANTS
  TotalAsDocumented
