------------------------------- MODULE Lifecycle -------------------------------
(***************************************************************************)
(* The service from the start of its container to its end: docker-entrypoint.sh   *)
(* runs the migrator, then main opens the pool, listens, waits for a signal, shuts  *)
(* the server down and closes the pool, while requests come, wait for connections   *)
(* of the pool, and run into their deadlines.                                  *)
(*                                                                         *)
(* Time is counted in seconds.  A clock that has reached its limit stops all time    *)
(* until what is due then has happened.                                         *)
(***************************************************************************)
EXTENDS Migrator, FiniteSets

CONSTANTS
  entrypoint,       \* the runner that docker-entrypoint.sh starts
  Conn,             \* connections of clients
  MaxOpenConns,     \* SetMaxOpenConns
  ReadTimeout, WriteTimeout,   \* of http.Server
  HandlerTimeout,   \* of the context of a handler
  RouterTimeout,    \* of middleware.Timeout
  ShutdownTimeout,  \* of the context of Shutdown
  StopGrace         \* from SIGTERM to SIGKILL in docker stop

(* What the configuration has to satisfy for an orderly shutdown: whoever has read a   *)
(* request by its read timeout and runs to the end of its context is done before      *)
(* Shutdown gives up.                                                          *)
ASSUME LifecycleAssumption ==
  /\ entrypoint \in Runner
  /\ IsFiniteSet(Conn)
  /\ MaxOpenConns \in Nat \ {0}
  /\ ReadTimeout \in Nat /\ WriteTimeout \in Nat /\ HandlerTimeout \in Nat
  /\ RouterTimeout \in Nat /\ ShutdownTimeout \in Nat /\ StopGrace \in Nat
  /\ ReadTimeout + HandlerTimeout < ShutdownTimeout
  /\ ReadTimeout + RouterTimeout < ShutdownTimeout

VARIABLES
  wanted,     \* docker keeps the container running
  stage,      \* where the main process of the container stands
  grace,      \* since docker stop
  drain,      \* since Shutdown was called
  listening,  \* the server accepts connections
  conn,       \* conn[c]: where the server stands with a connection
  inUse       \* connections of the pool in use

migrator == <<schema, runners, environment>>
container == <<wanted, stage, grace, drain>>
server == <<listening, conn, inUse>>
vars == <<migrator, container, server>>

Stage == {"exited", "waiting", "migrating", "opening", "starting", "serving",
          "draining", "closed"}

(* The stages in which main has its pool. *)
Running == {"starting", "serving", "draining"}

(* Kinds of requests by what bounds them: a body to read and a context of 5 s, such a   *)
(* context alone, or only the context of the router.                             *)
Kind == {"body", "plain", "list"}

(* open: since the connection was accepted; read: since the headers were read; call:    *)
(* since the handler made its context.  A clock nobody needs stands at 0.            *)
ConnState == [at : {"none", "header", "body", "waiting", "holding"}, kind : Kind,
              open : 0..ReadTimeout, read : Nat, call : 0..HandlerTimeout]

NoConn == [at |-> "none", kind |-> "plain", open |-> 0, read |-> 0, call |-> 0]

InFlight(c) == conn[c].at # "none"
Querying(c) == conn[c].at \in {"waiting", "holding"}

TypeOK ==
  /\ MigratorTypeOK
  /\ wanted \in BOOLEAN /\ stage \in Stage
  /\ grace \in 0..StopGrace /\ drain \in 0..ShutdownTimeout
  /\ listening \in BOOLEAN
  /\ conn \in [Conn -> ConnState]
  /\ inUse \in 0..MaxOpenConns

Init ==
  /\ MigratorInit
  /\ wanted = TRUE /\ stage = "exited"
  /\ grace = 0 /\ drain = 0
  /\ listening = FALSE
  /\ conn = [c \in Conn |-> NoConn]
  /\ inUse = 0

-----------------------------------------------------------------------------
(* The container. *)

(* The main process is gone, and with it all it had. *)
Exit ==
  /\ stage' = "exited"
  /\ grace' = 0 /\ drain' = 0
  /\ listening' = FALSE
  /\ conn' = [c \in Conn |-> NoConn]
  /\ inUse' = 0
  /\ step' = [step EXCEPT ![entrypoint] = "off"]
  /\ Unlock(entrypoint)

Advance(from, to) ==
  /\ stage = from /\ stage' = to
  /\ UNCHANGED <<wanted, grace, drain, server>>

(* Mutant of Start: restart: "no". *)
StartOnce ==
  /\ wanted /\ faults = 0
  /\ Advance("exited", "waiting")
  /\ UNCHANGED migrator

(* restart: unless-stopped *)
Start ==
  /\ wanted
  /\ Advance("exited", "waiting")
  /\ UNCHANGED migrator

(* until nc -z postgres 5432 *)
RunMigrator ==
  /\ postgresUp
  /\ Advance("waiting", "migrating")
  /\ Begin(entrypoint)

(* Mutant of MigratorEnds: no set -e. *)
MigratorEndsAnyhow ==
  /\ step[entrypoint] \in {"ok", "failed"}
  /\ Advance("migrating", "opening") /\ Goto(entrypoint, "off") /\ UNCHANGED locked
  /\ UNCHANGED <<schema, next, environment>>

(* set -e, exec ./main *)
MigratorEnds ==
  /\ stage = "migrating"
  /\ \/ /\ step[entrypoint] = "ok"
        /\ Advance("migrating", "opening") /\ Goto(entrypoint, "off") /\ UNCHANGED locked
     \/ /\ step[entrypoint] = "failed"
        /\ Exit /\ UNCHANGED wanted
  /\ UNCHANGED <<schema, next, environment>>

(* Ping, or os.Exit(1). *)
Open ==
  /\ stage = "opening"
  /\ \/ postgresUp /\ Advance("opening", "starting") /\ UNCHANGED runners
     \/ ~postgresUp /\ Exit /\ UNCHANGED <<wanted, next>>
  /\ UNCHANGED <<schema, environment>>

(* The goroutine that listens runs whenever it likes; after Shutdown it is told      *)
(* ErrServerClosed.                                                            *)
ListenAndServe ==
  /\ stage \in {"starting", "serving"} /\ ~listening
  /\ listening' = TRUE
  /\ UNCHANGED <<migrator, container, conn, inUse>>

(* The port is taken: os.Exit(1). *)
ListenFails ==
  /\ stage \in {"starting", "serving"} /\ ~listening
  /\ Fault /\ Exit
  /\ UNCHANGED <<schema, next, postgresUp, wanted>>

Notify == Advance("starting", "serving") /\ UNCHANGED migrator

(* SIGTERM or SIGINT for the main process.  sh as the first process of a container      *)
(* ignores it, main dies of it until it has called Notify, and after the first one it    *)
(* reads no other from the channel.                                              *)
Signal ==
  CASE stage = "serving"                -> /\ stage' = "draining" /\ listening' = FALSE
                                           /\ UNCHANGED <<runners, grace, drain, conn, inUse>>
    [] stage \in {"opening", "starting"} -> Exit /\ UNCHANGED next
    [] OTHER                            -> UNCHANGED <<runners, stage, grace, drain, server>>

(* docker stop *)
Stop ==
  /\ wanted /\ wanted' = FALSE
  /\ Signal
  /\ UNCHANGED <<schema, environment>>

(* kill, as long as nobody stops the container *)
Terminate ==
  /\ wanted /\ stage \in {"opening", "starting", "serving"}
  /\ Fault /\ Signal
  /\ UNCHANGED <<schema, postgresUp, wanted>>

(* docker start *)
DockerStart ==
  /\ ~wanted /\ stage = "exited" /\ wanted' = TRUE
  /\ UNCHANGED <<migrator, stage, grace, drain, server>>

(* Shutdown returns when no connection is active, or with an error at its deadline;      *)
(* main closes the pool in either case.                                           *)
Shutdown ==
  /\ (\A c \in Conn : ~InFlight(c)) \/ drain = ShutdownTimeout
  /\ Advance("draining", "closed")
  /\ UNCHANGED migrator

Return ==
  /\ stage = "closed"
  /\ Exit
  /\ UNCHANGED <<schema, next, environment, wanted>>

(* SIGKILL of docker stop *)
Kill ==
  /\ ~wanted /\ stage # "exited" /\ grace = StopGrace
  /\ Exit
  /\ UNCHANGED <<schema, next, environment, wanted>>

(* The main process dies of anything else. *)
Crash ==
  /\ stage # "exited"
  /\ Fault /\ Exit
  /\ UNCHANGED <<schema, next, postgresUp, wanted>>

-----------------------------------------------------------------------------
(* Requests. *)

Serve(c, state) ==
  /\ stage \in Running
  /\ conn' = [conn EXCEPT ![c] = state]
  /\ UNCHANGED <<migrator, container, listening>>

Accept(c) ==
  /\ listening /\ ~InFlight(c)
  /\ Serve(c, [NoConn EXCEPT !.at = "header"])
  /\ UNCHANGED inUse

ReadHeader(c) ==
  /\ conn[c].at = "header"
  /\ \/ Serve(c, [conn[c] EXCEPT !.at = "body", !.kind = "body"])
     \/ \E kind \in {"plain", "list"} :
          Serve(c, [conn[c] EXCEPT !.at = "waiting", !.kind = kind, !.open = 0])
  /\ UNCHANGED inUse

(* Decoded and validated, the request gets its context. *)
ReadBody(c) ==
  /\ conn[c].at = "body"
  /\ Serve(c, [conn[c] EXCEPT !.at = "waiting", !.open = 0])
  /\ UNCHANGED inUse

(* Mutant of Due: no middleware.Timeout and no context of its own for the list. *)
DueUnlessList(c) ==
  \/ conn[c].at \in {"header", "body"} /\ conn[c].open = ReadTimeout
  \/ Querying(c) /\ conn[c].kind # "list" /\ conn[c].call = HandlerTimeout

(* A limit that has been reached: of reading, of the context the router makes when the     *)
(* headers have been read, or of the one a handler makes from that.                    *)
Due(c) ==
  \/ conn[c].at \in {"header", "body"} /\ conn[c].open = ReadTimeout
  \/ Querying(c) /\ conn[c].read >= RouterTimeout
  \/ Querying(c) /\ conn[c].kind # "list" /\ conn[c].call = HandlerTimeout

(* Mutant of Acquire: no SetMaxOpenConns. *)
AcquireUnbounded(c) ==
  /\ conn[c].at = "waiting" /\ ~Due(c)
  /\ Serve(c, [conn[c] EXCEPT !.at = "holding"])
  /\ inUse' = inUse + 1

(* A statement gets a connection of the pool, unless its context is done. *)
Acquire(c) ==
  /\ conn[c].at = "waiting" /\ inUse < MaxOpenConns /\ ~Due(c)
  /\ Serve(c, [conn[c] EXCEPT !.at = "holding"])
  /\ inUse' = inUse + 1

(* Mutant of Release: every statement gets a context of its own. *)
ReleaseRenews(c) ==
  /\ conn[c].at = "holding"
  /\ \/ Serve(c, [conn[c] EXCEPT !.at = "waiting", !.call = 0])
     \/ Serve(c, NoConn)
  /\ inUse' = inUse - 1

(* Its end, in success, error or by its context, gives it back; the next statement or    *)
(* the answer follows.                                                         *)
Release(c) ==
  /\ conn[c].at = "holding"
  /\ \/ Serve(c, [conn[c] EXCEPT !.at = "waiting"])
     \/ Serve(c, NoConn)
  /\ inUse' = inUse - 1

(* The request is refused, or it ends without a connection: by its read timeout, its     *)
(* context, or because the client is gone.                                        *)
GiveUp(c) ==
  /\ conn[c].at \in {"header", "body", "waiting"}
  /\ Serve(c, NoConn)
  /\ UNCHANGED inUse

-----------------------------------------------------------------------------
(* Time. *)

(* Mutant of Elapsed: no middleware.Timeout, so that no clock runs for a list. *)
ElapsedUnlessList(c) ==
  CASE conn[c].at = "none" -> conn[c]
    [] Querying(c) /\ conn[c].kind = "list" -> conn[c]
    [] conn[c].at = "header" -> [conn[c] EXCEPT !.open = @ + 1]
    [] OTHER ->
         [conn[c] EXCEPT
            !.open = IF conn[c].at = "body" THEN @ + 1 ELSE @,
            !.read = @ + 1,
            !.call = IF Querying(c) THEN @ + 1 ELSE @]

Elapsed(c) ==
  CASE conn[c].at = "none"   -> conn[c]
    [] conn[c].at = "header" -> [conn[c] EXCEPT !.open = @ + 1]
    [] OTHER ->
         [conn[c] EXCEPT
            !.open = IF conn[c].at = "body" THEN @ + 1 ELSE @,
            !.read = @ + 1,
            !.call = IF Querying(c) /\ conn[c].kind # "list" THEN @ + 1 ELSE @]

Tick ==
  /\ \A c \in Conn : ~Due(c)
  /\ wanted \/ stage = "exited" \/ grace < StopGrace
  /\ stage = "draining" => drain < ShutdownTimeout
  /\ grace' = IF wanted \/ stage = "exited" THEN 0 ELSE grace + 1
  /\ drain' = IF stage = "draining" THEN drain + 1 ELSE drain
  /\ conn' = [c \in Conn |-> Elapsed(c)]
  /\ UNCHANGED <<migrator, wanted, stage, listening, inUse>>

-----------------------------------------------------------------------------
(* make migrate-up *)
RunByHand(r) ==
  /\ r # entrypoint
  /\ \/ Begin(r)
     \/ /\ step[r] \in {"ok", "failed"} /\ Goto(r, "off")
        /\ UNCHANGED <<schema, locked, next, environment>>
  /\ UNCHANGED <<container, server>>

Migrate ==
  /\ \/ \E r \in Runner : Up(r)
     \/ \E r \in Runner : LockTimesOut(r)
     \/ \E r \in Runner : RunnerFails(r)
     \/ PostgresStops
     \/ PostgresStarts
  /\ UNCHANGED <<container, server>>

Boot == Start \/ RunMigrator \/ MigratorEnds \/ Open \/ Notify
End == Shutdown \/ Return \/ Kill

Request(c) ==
  \/ Accept(c)
  \/ ReadHeader(c)
  \/ ReadBody(c)
  \/ Acquire(c)
  \/ Release(c)
  \/ GiveUp(c)

Next ==
  \/ Boot
  \/ ListenAndServe
  \/ ListenFails
  \/ Stop
  \/ Terminate
  \/ DockerStart
  \/ End
  \/ Crash
  \/ \E c \in Conn : Request(c)
  \/ Tick
  \/ \E r \in Runner : RunByHand(r)
  \/ Migrate

Spec == Init /\ [][Next]_vars

(* docker, sh, main, the migrators and Postgres go on as long as they can, and so does    *)
(* time; who waits for a lock of Postgres is in a queue.  Nobody has to stop the           *)
(* container, start it or send a request.                                         *)
FairSpec ==
  /\ Spec
  /\ WF_vars(Boot) /\ WF_vars(ListenAndServe) /\ WF_vars(End) /\ WF_vars(Tick)
  /\ \A c \in Conn : WF_vars((GiveUp(c) \/ Release(c)) /\ Due(c))
  /\ \A r \in Runner : WF_vars(Up(r) /\ UNCHANGED <<container, server>>)
  /\ SF_vars(Lock(entrypoint) /\ UNCHANGED <<container, server>>)
  /\ WF_vars(PostgresStarts /\ UNCHANGED <<container, server>>)

-----------------------------------------------------------------------------
(* main runs on the whole schema only, whatever runs of the migrator were killed or       *)
(* overlapped before: the exit code of the entrypoint's own run is true of the            *)
(* database, and stays true.                                                     *)
ServesMigrated ==
  stage \in {"opening", "closed"} \cup Running => applied = 1..Last /\ ~dirty

(* The pool is not closed under a handler: the deadlines of reading and of the contexts    *)
(* end every request before the 30 s of Shutdown are over, although a request may begin   *)
(* after the signal, on a connection accepted before it.                             *)
PoolOutlivesHandlers == \A c \in Conn : InFlight(c) => stage \in Running

(* Whatever it waits for and however many statements it has, a request is over when the     *)
(* context of the router is, or as soon as its body has been read if that takes longer;       *)
(* one with a context of its own when that is.  This is what WriteTimeout has to allow.       *)
AnsweredInTime ==
  \A c \in Conn : Querying(c) =>
    /\ \/ conn[c].read <= RouterTimeout
       \/ conn[c].kind = "body" /\ conn[c].read <= ReadTimeout
    /\ conn[c].kind # "list" => conn[c].read <= ReadTimeout + HandlerTimeout

(* Part of the invariant only: what Release needs to stay within the limit of the pool.      *)
PoolCount == inUse = Cardinality({c \in Conn : conn[c].at = "holding"})

(* The inductive invariant.  A request that was accepted before the signal has been open     *)
(* for longer than the server drains; from its headers on the clock of its context takes     *)
(* over, at most ReadTimeout later.  SIGKILL cannot be nearer than the signal.              *)
ContainerInv ==
  /\ wanted \/ stage = "exited" => grace = 0
  /\ stage \notin {"draining", "closed"} => drain = 0
  /\ stage = "draining" => grace <= drain
  /\ listening => stage \in {"starting", "serving"}
  /\ stage \in {"opening", "closed"} \cup Running => version = Last /\ ~dirty

Timely(c) ==
  /\ InFlight(c) => stage \in Running
  /\ conn[c].at = "header" => conn[c].read = 0
  /\ conn[c].at = "body" => conn[c].kind = "body"
  /\ conn[c].at = "body" => conn[c].read <= conn[c].open
  /\ conn[c].at \in {"header", "body"} => drain <= conn[c].open
  /\ Querying(c) /\ conn[c].kind # "list" =>
       drain <= ReadTimeout + conn[c].call /\ conn[c].read <= ReadTimeout + conn[c].call
  /\ Querying(c) /\ conn[c].kind = "list" => drain <= ReadTimeout + conn[c].read
  /\ Querying(c) =>
       \/ conn[c].read <= RouterTimeout
       \/ conn[c].kind = "body" /\ conn[c].read <= ReadTimeout

Inv ==
  /\ TypeOK
  /\ MigratorInv
  /\ ContainerInv
  /\ \A c \in Conn : Timely(c)
  /\ PoolCount

(* README.md promises that after a signal active requests are waited for.  docker's 10 s    *)
(* keep that for all but a list, whose context is that of the router: a list that began     *)
(* after the signal may be cut off.                                            *)
OnlyListsAreCut ==
  [][stage = "draining" /\ stage' = "exited" /\ UNCHANGED faults =>
       \A c \in Conn : InFlight(c) /\ Querying(c) => conn[c].kind = "list"]_vars

(* A container that should run gets to serve, after finitely many faults, unless one of     *)
(* them has left the schema dirty for good: nothing but a person clears that flag.  (The    *)
(* mark of a migration that goes well is gone again before main starts.)                 *)
Available ==
  wanted /\ stage = "exited" ~> (stage = "serving" /\ listening) \/ ~wanted \/ []dirty

(* Whatever a request waits for, its client's bytes, one of the connections of the pool that  *)
(* slow requests hold, or Postgres, some clock runs that ends it.  Waiting for the pool has     *)
(* no limit of its own, a list makes no context of its own, and one statement may follow       *)
(* another, so that slow requests would otherwise hold the pool for ever.                  *)
RequestsEnd == \A c \in Conn : InFlight(c) ~> ~InFlight(c)

(* README.md and the handlers document a status for every request; a handler that has run   *)
(* to its deadline answers 500.  That answer has to arrive: net/http drops what is       *)
(* written later than WriteTimeout after the headers.                                 *)
AnswersArrive ==
  [][\A c \in Conn :
       /\ Querying(c) /\ stage \in Running
       /\ stage' = stage /\ ~InFlight(c)'
       => conn[c].read <= WriteTimeout]_vars

=============================================================================
