\* The timeouts of config/local.yaml, of the code and of docker stop.
SPECIFICATION Spec
CONSTANTS
  entrypoint = entrypoint
  Runner = {entrypoint}
  Nobody = Nobody
  Last = 3
  MaxFaults = 0
  Conn = {c1}
  MaxOpenConns = 10
  ReadTimeout = 4
  WriteTimeout = 4
  HandlerTimeout = 5
  RouterTimeout = 10
  ShutdownTimeout = 30
  StopGrace = 10
PROPERTIES
  AnswersArrive
