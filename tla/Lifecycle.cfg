\* From the start of the container to its end, two connections, timeouts in the
\* order and with the sums of the real ones.
SPECIFICATION FairSpec
CONSTANTS
  entrypoint = entrypoint
  Runner = {entrypoint, byHand}
  Nobody = Nobody
  Last = 2
  MaxFaults = 1
  Conn = {c1, c2}
  MaxOpenConns = 1
  ReadTimeout = 1
  WriteTimeout = 1
  HandlerTimeout = 1
  RouterTimeout = 3
  ShutdownTimeout = 5
  StopGrace = 3
INVARIANTS
  TypeOK
  Inv
  VersionTrue
  ServesMigrated
  PoolOutlivesHandlers
  AnsweredInTime
PROPERTIES
  OnlyListsAreCut
  Available
  RequestsEnd
