\* Totals over every position of a subscription and a period, in UTC.
SPECIFICATION Spec
CONSTANTS
  netflix = netflix
  spotify = spotify
  alice = alice
  bob = bob
  Name = {netflix, spotify}
  User = {alice, bob}
  ZeroUser = ZeroUser
  MaxInt4 = 3
  Nil = Nil
  EmptyText = EmptyText
  NullText = NullText
  Malformed = Malformed
  ID = {1, 2}
  Scenario <- DocumentedScenario
  Zone = 0
  FirstMonth <- march
  LastMonth <- april
INVARIANTS
  TypeOK
  TotalAsBilled
  StatsInv
  CountAsBilled
  MonthsAsDocumented
