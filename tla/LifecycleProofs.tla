---------------------------- MODULE LifecycleProofs ----------------------------
(***************************************************************************)
(* Inv is an inductive invariant of Lifecycle, for any number of connections and    *)
(* runners and any timeouts that satisfy LifecycleAssumption.                    *)
(***************************************************************************)
EXTENDS Lifecycle, MigratorProofs, FiniteSetTheorems

Holding == {c \in Conn : conn[c].at = "holding"}

LEMMA HoldingFinite == IsFiniteSet(Holding)
BY LifecycleAssumption, FS_Subset DEF Holding

LEMMA NoConnTyped == NoConn \in ConnState
BY LifecycleAssumption DEF NoConn, ConnState, Kind

-----------------------------------------------------------------------------
(* The migrators, Postgres and the runs by hand: whatever they do, container and        *)
(* server stand where they stood.                                              *)
LEMMA OutsideKeeps ==
  ASSUME Inv, UNCHANGED <<container, server>>, MigratorInv', Migrated => Migrated'
  PROVE  Inv'
<1> USE DEF container, server
<1>1. TypeOK'
  BY DEF Inv, TypeOK, MigratorInv
<1>2. ContainerInv'
  BY DEF Inv, ContainerInv, Migrated
<1>3. \A c \in Conn : Timely(c)'
  BY DEF Inv, Timely, InFlight, Querying
<1>4. PoolCount'
  BY DEF Inv, PoolCount
<1> QED  BY <1>1, <1>2, <1>3, <1>4 DEF Inv

LEMMA MigrateKeeps == Inv /\ Migrate => Inv'
<1> SUFFICES ASSUME Inv, Migrate PROVE Inv'
    OBVIOUS
<1>1. ASSUME NEW r \in Runner, Up(r) PROVE Inv'
  BY <1>1, UpKeeps, MigratedStays, OutsideKeeps DEF Migrate, Inv
<1>2. ASSUME NEW r \in Runner, LockTimesOut(r) PROVE Inv'
  BY <1>2, LockTimesOutKeeps, OutsideKeeps DEF Migrate, Inv, LockTimesOut, Migrated, schema
<1>3. ASSUME NEW r \in Runner, RunnerFails(r) PROVE Inv'
  BY <1>3, RunnerFailsKeeps, OutsideKeeps DEF Migrate, Inv, RunnerFails, Migrated, schema
<1>4. CASE PostgresStops \/ PostgresStarts
  <2>1. MigratorInv' /\ UNCHANGED <<container, server>>
    BY <1>4, PostgresKeeps DEF Inv, Migrate
  <2>2. UNCHANGED schema
    BY <1>4 DEF PostgresStops, PostgresStarts
  <2> QED  BY <2>1, <2>2, OutsideKeeps DEF Migrated, schema
<1> QED  BY <1>1, <1>2, <1>3, <1>4 DEF Migrate

LEMMA RunByHandKeeps ==
  ASSUME Inv, NEW r \in Runner, RunByHand(r)
  PROVE  Inv'
<1>1. CASE Begin(r)
  BY <1>1, BeginKeeps, OutsideKeeps DEF RunByHand, Inv, Begin, Migrated, schema
<1>2. CASE step[r] \in {"ok", "failed"} /\ Goto(r, "off")
             /\ UNCHANGED <<schema, locked, next, environment>>
  <2>1. Unlock(r)
    BY <1>2, IdleHoldsNothing DEF Inv, Locked
  <2>2. MigratorInv'
    BY <1>2, <2>1, LeaveKeeps DEF Inv, environment, MigratorInv, MigratorTypeOK
  <2> QED  BY <1>2, <2>2, OutsideKeeps DEF RunByHand, Migrated, schema
<1> QED  BY <1>1, <1>2 DEF RunByHand

-----------------------------------------------------------------------------
(* The container.                                                             *)

(* However the main process ends, nothing of it is left.                               *)
LEMMA ExitKeeps ==
  ASSUME Inv, Exit, UNCHANGED <<schema, next>>,
         postgresUp' \in BOOLEAN, faults' \in 0..MaxFaults, wanted' \in BOOLEAN
  PROVE  Inv'
<1> USE DEF Exit
<1>1. MigratorInv'
  BY LifecycleAssumption, LeaveKeeps DEF Inv, Goto
<1>2. TypeOK'
  <2>1. conn' \in [Conn -> ConnState]
    BY NoConnTyped
  <2>2. grace' \in 0..StopGrace /\ drain' \in 0..ShutdownTimeout /\ inUse' \in 0..MaxOpenConns
    BY LifecycleAssumption
  <2> QED  BY <1>1, <2>1, <2>2 DEF TypeOK, MigratorInv, Stage
<1>3. ContainerInv'
  BY DEF ContainerInv, Running
<1>4. \A c \in Conn : Timely(c)'
  BY DEF Timely, InFlight, Querying, NoConn
<1>5. PoolCount'
  <2>1. Holding' = {}
    BY DEF Holding, NoConn
  <2> QED  BY <2>1, FS_EmptySet DEF PoolCount, Holding
<1> QED  BY <1>1, <1>2, <1>3, <1>4, <1>5 DEF Inv

(* The main process goes on to its next stage.                                     *)
LEMMA AdvanceKeeps ==
  ASSUME Inv, MigratorInv',
         NEW from \in Stage, NEW to \in Stage \ {"exited", "draining"}, Advance(from, to),
         to \in Running \/ \A c \in Conn : ~InFlight(c),
         listening => to \in {"starting", "serving"},
         to \in {"opening", "closed"} \cup Running => Migrated',
         drain = 0 \/ to = "closed"
  PROVE  Inv'
<1> USE DEF Advance, server
<1>1. TypeOK'
  BY DEF Inv, TypeOK, MigratorInv
<1>2. ContainerInv'
  BY DEF Inv, ContainerInv, Migrated
<1>3. \A c \in Conn : Timely(c)'
  BY DEF Inv, Timely, InFlight, Querying
<1>4. PoolCount'
  BY DEF Inv, PoolCount
<1> QED  BY <1>1, <1>2, <1>3, <1>4 DEF Inv

(* Outside the stages in which main has its pool there are no requests.                 *)
LEMMA QuietOutside ==
  ASSUME Inv, stage \notin Running
  PROVE  ~listening /\ \A c \in Conn : ~InFlight(c)
BY DEF Inv, ContainerInv, Timely, Running

LEMMA BootKeeps == Inv /\ Boot => Inv'
<1> SUFFICES ASSUME Inv, Boot PROVE Inv'
    OBVIOUS
<1> USE DEF Stage, Running
<1>1. CASE Start
  <2>1. MigratorInv'
    BY <1>1 DEF Start, Inv, MigratorInv, MigratorTypeOK, VersionTrue, Progress,
                migrator, schema, runners, environment
  <2> QED  BY <1>1, <2>1, QuietOutside, AdvanceKeeps DEF Start, Advance, Inv, ContainerInv
<1>2. CASE RunMigrator
  <2>1. MigratorInv'
    BY <1>2, BeginKeeps, LifecycleAssumption DEF RunMigrator, Inv
  <2> QED  BY <1>2, <2>1, QuietOutside, AdvanceKeeps DEF RunMigrator, Advance, Inv, ContainerInv
<1>3. CASE MigratorEnds
  <2>0. postgresUp' \in BOOLEAN /\ faults' \in 0..MaxFaults
    BY <1>3 DEF MigratorEnds, environment, Inv, MigratorInv, MigratorTypeOK
  <2>1. CASE /\ step[entrypoint] = "ok" /\ Advance("migrating", "opening")
             /\ Goto(entrypoint, "off") /\ UNCHANGED locked
    <3>1. Unlock(entrypoint)
      BY <2>1, LifecycleAssumption, IdleHoldsNothing DEF Inv, Locked
    <3>2. MigratorInv'
      BY <1>3, <2>0, <2>1, <3>1, LifecycleAssumption, LeaveKeeps DEF MigratorEnds, Inv
    <3>3. Migrated'
      BY <1>3, <2>1, LifecycleAssumption
         DEF MigratorEnds, Inv, MigratorInv, Progress, Migrated, schema
    <3> QED  BY <2>1, <3>2, <3>3, QuietOutside, AdvanceKeeps DEF Advance, Inv, ContainerInv
  <2>2. CASE Exit /\ UNCHANGED wanted
    BY <1>3, <2>0, <2>2, ExitKeeps DEF MigratorEnds, Inv, TypeOK
  <2> QED  BY <1>3, <2>1, <2>2 DEF MigratorEnds
<1>4. CASE Open
  <2>0. postgresUp' \in BOOLEAN /\ faults' \in 0..MaxFaults
    BY <1>4 DEF Open, environment, Inv, MigratorInv, MigratorTypeOK
  <2>1. CASE Advance("opening", "starting") /\ UNCHANGED runners
    <3>1. MigratorInv'
      BY <1>4, <2>1 DEF Open, Inv, MigratorInv, MigratorTypeOK, VersionTrue, Progress,
                        schema, runners, environment
    <3>2. Migrated'
      BY <1>4, <2>1 DEF Open, Advance, Inv, ContainerInv, Migrated, schema
    <3> QED  BY <2>1, <3>1, <3>2, QuietOutside, AdvanceKeeps DEF Advance, Inv, ContainerInv
  <2>2. CASE Exit /\ UNCHANGED <<wanted, next>>
    BY <1>4, <2>0, <2>2, ExitKeeps DEF Open, Inv, TypeOK
  <2> QED  BY <1>4, <2>1, <2>2 DEF Open
<1>5. CASE Notify
  <2>1. MigratorInv' /\ Migrated'
    BY <1>5 DEF Notify, Advance, Inv, ContainerInv, Migrated, MigratorInv, MigratorTypeOK,
                VersionTrue, Progress, migrator, schema, runners, environment
  <2> QED  BY <1>5, <2>1, AdvanceKeeps DEF Notify, Advance, Inv, ContainerInv
<1> QED  BY <1>1, <1>2, <1>3, <1>4, <1>5 DEF Boot

LEMMA ListenKeeps == Inv /\ ListenAndServe => Inv'
<1> SUFFICES ASSUME Inv, ListenAndServe PROVE Inv'
    OBVIOUS
<1> USE DEF ListenAndServe, migrator, schema, runners, environment, container
<1>1. MigratorInv'
  BY DEF Inv, MigratorInv, MigratorTypeOK, VersionTrue, Progress
<1>2. TypeOK'
  BY <1>1 DEF Inv, TypeOK, MigratorInv
<1>3. ContainerInv' /\ PoolCount' /\ \A c \in Conn : Timely(c)'
  BY DEF Inv, ContainerInv, PoolCount, Timely, InFlight, Querying
<1> QED  BY <1>1, <1>2, <1>3 DEF Inv

(* A signal starts the draining, kills main before Notify, or is lost.                      *)
LEMMA SignalKeeps ==
  ASSUME Inv, Signal, UNCHANGED schema, wanted' \in BOOLEAN,
         stage # "exited" => wanted,
         postgresUp' = postgresUp, faults' \in 0..MaxFaults
  PROVE  Inv'
<1>1. CASE stage = "serving"
  <2> USE <1>1 DEF Signal
  <2>1. MigratorInv'
    BY DEF Inv, MigratorInv, MigratorTypeOK, VersionTrue, Progress, schema, runners
  <2>2. TypeOK'
    BY <2>1 DEF Inv, TypeOK, MigratorInv, Stage
  <2>3. ContainerInv'
    BY DEF Inv, ContainerInv, Running, schema
  <2>4. PoolCount' /\ \A c \in Conn : Timely(c)'
    BY DEF Inv, PoolCount, Timely, InFlight, Querying, Running
  <2> QED  BY <2>1, <2>2, <2>3, <2>4 DEF Inv
<1>2. CASE stage \in {"opening", "starting"}
  <2>1. Exit /\ UNCHANGED next
    BY <1>2 DEF Signal
  <2> QED  BY <2>1, ExitKeeps DEF Inv, MigratorInv, MigratorTypeOK
<1>3. CASE stage \notin {"serving", "opening", "starting"}
  <2> USE <1>3 DEF Signal
  <2>0. UNCHANGED <<runners, stage, grace, drain, server>>
    BY DEF Signal
  <2>1. MigratorInv'
    BY <2>0 DEF Inv, MigratorInv, MigratorTypeOK, VersionTrue, Progress, schema, runners
  <2>2. TypeOK'
    BY <2>0, <2>1 DEF Inv, TypeOK, MigratorInv, server
  <2>3. ContainerInv'
    BY <2>0 DEF Inv, ContainerInv, Running, schema, server
  <2>4. PoolCount' /\ \A c \in Conn : Timely(c)'
    BY <2>0 DEF Inv, PoolCount, Timely, InFlight, Querying, server
  <2> QED  BY <2>1, <2>2, <2>3, <2>4 DEF Inv
<1> QED  BY <1>1, <1>2, <1>3

LEMMA FaultsBounded == Inv /\ Fault => faults' \in 0..MaxFaults
BY MigratorAssumption DEF Fault, Inv, MigratorInv, MigratorTypeOK

LEMMA DockerKeeps == Inv /\ (Stop \/ Terminate \/ DockerStart) => Inv'
<1> SUFFICES ASSUME Inv, Stop \/ Terminate \/ DockerStart PROVE Inv'
    OBVIOUS
<1>1. CASE Stop
  BY <1>1, SignalKeeps DEF Stop, environment, Inv, MigratorInv, MigratorTypeOK
<1>2. CASE Terminate
  BY <1>2, FaultsBounded, SignalKeeps DEF Terminate, Inv, TypeOK
<1>3. CASE DockerStart
  <2> USE <1>3 DEF DockerStart, migrator, schema, runners, environment, server
  <2>1. MigratorInv'
    BY DEF Inv, MigratorInv, MigratorTypeOK, VersionTrue, Progress
  <2>2. TypeOK'
    BY <2>1 DEF Inv, TypeOK, MigratorInv
  <2>3. ContainerInv' /\ PoolCount' /\ \A c \in Conn : Timely(c)'
    BY DEF Inv, ContainerInv, PoolCount, Timely, InFlight, Querying
  <2> QED  BY <2>1, <2>2, <2>3 DEF Inv
<1> QED  BY <1>1, <1>2, <1>3

LEMMA DeathKeeps == Inv /\ (ListenFails \/ Crash) => Inv'
BY ExitKeeps, FaultsBounded DEF ListenFails, Crash, Inv, TypeOK, MigratorInv, MigratorTypeOK

(* When Shutdown gives up at its deadline, every request has met its own.                  *)
LEMMA NobodyAtDeadline ==
  ASSUME Inv, drain = ShutdownTimeout, NEW c \in Conn
  PROVE  ~InFlight(c)
<1>1. conn[c] \in ConnState
  BY DEF Inv, TypeOK
<1>2. conn[c].open <= ReadTimeout /\ conn[c].call <= HandlerTimeout
  BY <1>1, LifecycleAssumption DEF ConnState
<1>3. conn[c].open \in Nat /\ conn[c].call \in Nat /\ conn[c].read \in Nat
      /\ conn[c].at \in {"none", "header", "body", "waiting", "holding"}
  BY <1>1, LifecycleAssumption DEF ConnState
<1> QED  BY <1>2, <1>3, LifecycleAssumption DEF Inv, Timely, InFlight, Querying

LEMMA EndKeeps == Inv /\ End => Inv'
<1> SUFFICES ASSUME Inv, End PROVE Inv'
    OBVIOUS
<1>1. CASE Shutdown
  <2>1. MigratorInv' /\ Migrated'
    BY <1>1 DEF Shutdown, Advance, Inv, ContainerInv, Running, Migrated, MigratorInv,
                MigratorTypeOK, VersionTrue, Progress, migrator, schema, runners, environment
  <2>2. \A c \in Conn : ~InFlight(c)
    BY <1>1, NobodyAtDeadline DEF Shutdown
  <2> QED  BY <1>1, <2>1, <2>2, AdvanceKeeps DEF Shutdown, Advance, Stage, Inv, ContainerInv
<1>2. CASE Return \/ Kill
  BY <1>2, ExitKeeps DEF Return, Kill, environment, Inv, TypeOK, MigratorInv, MigratorTypeOK
<1> QED  BY <1>1, <1>2 DEF End

-----------------------------------------------------------------------------
(* Requests.                                                                 *)

(* A step of one connection leaves the others alone.                                  *)
LEMMA ServeKeeps ==
  ASSUME Inv, NEW c \in Conn, NEW state \in ConnState, Serve(c, state),
         inUse' \in 0..MaxOpenConns, Timely(c)', PoolCount'
  PROVE  Inv'
<1> USE DEF Serve, migrator, schema, runners, environment, container
<1>1. MigratorInv'
  BY DEF Inv, MigratorInv, MigratorTypeOK, VersionTrue, Progress
<1>2. TypeOK'
  BY <1>1 DEF Inv, TypeOK, MigratorInv
<1>3. ContainerInv'
  BY DEF Inv, ContainerInv
<1>4. ASSUME NEW d \in Conn PROVE Timely(d)'
  <2>1. CASE d # c
    BY <2>1 DEF Inv, TypeOK, Timely, InFlight, Querying
  <2> QED  BY <2>1
<1> QED  BY <1>1, <1>2, <1>3, <1>4 DEF Inv

(* The accounting of the pool, for a connection that neither gets nor gives one back, that    *)
(* gets one, and that gives one back.                                             *)
LEMMA SamePool ==
  ASSUME Inv, NEW c \in Conn, NEW state, Serve(c, state), UNCHANGED inUse,
         conn[c].at # "holding", state.at # "holding"
  PROVE  PoolCount' /\ inUse' \in 0..MaxOpenConns
<1>1. Holding' = Holding
  BY DEF Holding, Serve, Inv, TypeOK
<1> QED  BY <1>1 DEF PoolCount, Holding, Inv, TypeOK

LEMMA OneMore ==
  ASSUME Inv, NEW c \in Conn, NEW state, Serve(c, state), inUse' = inUse + 1,
         conn[c].at # "holding", state.at = "holding", inUse < MaxOpenConns
  PROVE  PoolCount' /\ inUse' \in 0..MaxOpenConns
<1>1. Holding' = Holding \cup {c} /\ c \notin Holding
  BY DEF Holding, Serve, Inv, TypeOK
<1>2. Cardinality(Holding') = Cardinality(Holding) + 1
  BY <1>1, HoldingFinite, FS_AddElement
<1>3. inUse' \in 0..MaxOpenConns
  BY LifecycleAssumption DEF Inv, TypeOK
<1> QED  BY <1>2, <1>3 DEF PoolCount, Holding, Inv

LEMMA OneLess ==
  ASSUME Inv, NEW c \in Conn, NEW state, Serve(c, state), inUse' = inUse - 1,
         conn[c].at = "holding", state.at # "holding"
  PROVE  PoolCount' /\ inUse' \in 0..MaxOpenConns
<1>1. Holding' = Holding \ {c} /\ c \in Holding
  BY DEF Holding, Serve, Inv, TypeOK
<1>2. Cardinality(Holding') = Cardinality(Holding) - 1
  BY <1>1, HoldingFinite, FS_RemoveElement
<1>3. inUse # 0
  BY <1>1, HoldingFinite, FS_EmptySet DEF Inv, PoolCount, Holding
<1>4. inUse' \in 0..MaxOpenConns
  BY <1>3, LifecycleAssumption DEF Inv, TypeOK
<1> QED  BY <1>2, <1>4 DEF PoolCount, Holding, Inv

LEMMA AcceptKeeps ==
  ASSUME Inv, NEW c \in Conn, Accept(c)
  PROVE  Inv'
<1> DEFINE state == [NoConn EXCEPT !.at = "header"]
<1>1. state \in ConnState /\ state.at = "header" /\ state.read = 0 /\ state.open = 0
  BY NoConnTyped DEF ConnState, NoConn
<1>2. Serve(c, state) /\ UNCHANGED inUse /\ conn[c].at # "holding"
  BY DEF Accept, InFlight
<1>3. conn'[c] = state /\ drain' = 0 /\ stage' \in Running
  BY <1>2 DEF Accept, Serve, container, Inv, TypeOK, ContainerInv, Running
<1>4. Timely(c)'
  BY <1>1, <1>3 DEF Timely, InFlight, Querying
<1>5. PoolCount' /\ inUse' \in 0..MaxOpenConns
  BY <1>1, <1>2, SamePool
<1> HIDE DEF state
<1> QED  BY <1>1, <1>2, <1>4, <1>5, ServeKeeps

LEMMA ReadHeaderKeeps ==
  ASSUME Inv, NEW c \in Conn, ReadHeader(c)
  PROVE  Inv'
<1>0. conn[c] \in ConnState /\ drain \in Nat
  BY LifecycleAssumption DEF Inv, TypeOK
<1>1. conn[c].at = "header" /\ conn[c].read = 0 /\ drain <= conn[c].open
      /\ conn[c].open \in 0..ReadTimeout /\ conn[c].call \in 0..HandlerTimeout
  BY <1>0 DEF ReadHeader, Inv, Timely, ConnState
<1>2. CASE Serve(c, [conn[c] EXCEPT !.at = "body", !.kind = "body"]) /\ UNCHANGED inUse
  <2> DEFINE state == [conn[c] EXCEPT !.at = "body", !.kind = "body"]
  <2>1. state \in ConnState /\ state.at = "body" /\ state.kind = "body"
        /\ state.open = conn[c].open /\ state.read = 0
    BY <1>0, <1>1 DEF ConnState, Kind
  <2>2. conn'[c] = state /\ drain' = drain /\ stage' \in Running
    BY <1>2 DEF Serve, container, Inv, TypeOK
  <2>3. Timely(c)'
    BY <1>1, <2>1, <2>2, LifecycleAssumption DEF Timely, InFlight, Querying
  <2>4. PoolCount' /\ inUse' \in 0..MaxOpenConns
    BY <1>1, <1>2, <2>1, SamePool
  <2> HIDE DEF state
  <2>5. Serve(c, state)
    BY <1>2 DEF state
  <2> QED  BY <2>1, <2>3, <2>4, <2>5, ServeKeeps
<1>3. ASSUME NEW kind \in {"plain", "list"}, UNCHANGED inUse,
             Serve(c, [conn[c] EXCEPT !.at = "waiting", !.kind = kind, !.open = 0])
      PROVE  Inv'
  <2> DEFINE state == [conn[c] EXCEPT !.at = "waiting", !.kind = kind, !.open = 0]
  <2>1. state \in ConnState /\ state.at = "waiting" /\ state.call = conn[c].call /\ state.read = 0
    <3>1. 0 \in 0..ReadTimeout
      BY LifecycleAssumption
    <3> QED  BY <1>0, <1>1, <3>1 DEF ConnState, Kind
  <2>2. conn'[c] = state /\ drain' = drain /\ stage' \in Running
    BY <1>3 DEF Serve, container, Inv, TypeOK
  <2>3. Timely(c)'
    BY <1>0, <1>1, <2>1, <2>2, LifecycleAssumption DEF Timely, InFlight, Querying
  <2>4. PoolCount' /\ inUse' \in 0..MaxOpenConns
    BY <1>1, <1>3, <2>1, SamePool
  <2> HIDE DEF state
  <2>5. Serve(c, state)
    BY <1>3 DEF state
  <2> QED  BY <2>1, <2>3, <2>4, <2>5, ServeKeeps
<1> QED  BY <1>2, <1>3 DEF ReadHeader

LEMMA ReadBodyKeeps ==
  ASSUME Inv, NEW c \in Conn, ReadBody(c)
  PROVE  Inv'
<1>0. conn[c] \in ConnState /\ drain \in Nat
  BY LifecycleAssumption DEF Inv, TypeOK
<1>1. conn[c].at = "body" /\ conn[c].kind = "body" /\ drain <= conn[c].open
      /\ conn[c].open \in 0..ReadTimeout /\ conn[c].call \in 0..HandlerTimeout
      /\ conn[c].read \in Nat /\ conn[c].read <= conn[c].open
  BY <1>0 DEF ReadBody, Inv, Timely, ConnState
<1> DEFINE state == [conn[c] EXCEPT !.at = "waiting", !.open = 0]
<1>2. state \in ConnState /\ state.at = "waiting" /\ state.kind = "body"
      /\ state.call = conn[c].call /\ state.read = conn[c].read
  <2>1. 0 \in 0..ReadTimeout
    BY LifecycleAssumption
  <2> QED  BY <1>0, <1>1, <2>1 DEF ConnState, Kind
<1>3. Serve(c, state) /\ UNCHANGED inUse
  BY DEF ReadBody
<1>4. conn'[c] = state /\ drain' = drain /\ stage' \in Running
  BY <1>3 DEF Serve, container, Inv, TypeOK
<1>5. Timely(c)'
  BY <1>0, <1>1, <1>2, <1>4, LifecycleAssumption DEF Timely, InFlight, Querying
<1>6. PoolCount' /\ inUse' \in 0..MaxOpenConns
  BY <1>1, <1>2, <1>3, SamePool
<1> HIDE DEF state
<1> QED  BY <1>2, <1>3, <1>5, <1>6, ServeKeeps

(* A statement begins or ends: the clocks go on as they were.                          *)
LEMMA QueryingStays ==
  ASSUME Inv, NEW c \in Conn, NEW point \in {"waiting", "holding"}, Querying(c),
         Serve(c, [conn[c] EXCEPT !.at = point]), inUse' \in 0..MaxOpenConns, PoolCount'
  PROVE  Inv'
<1>0. conn[c] \in ConnState
  BY DEF Inv, TypeOK
<1> DEFINE state == [conn[c] EXCEPT !.at = point]
<1>1. state \in ConnState /\ state.at = point /\ state.kind = conn[c].kind
      /\ state.call = conn[c].call /\ state.read = conn[c].read
  BY <1>0 DEF ConnState
<1>2. conn'[c] = state /\ drain' = drain /\ stage' \in Running
  BY DEF Serve, container, Inv, TypeOK
<1>3. Timely(c)'
  BY <1>1, <1>2 DEF Inv, Timely, InFlight, Querying
<1> HIDE DEF state
<1>4. Serve(c, state)
  BY DEF state
<1> QED  BY <1>1, <1>3, <1>4, ServeKeeps

(* A request ends.                                                            *)
LEMMA GoneKeeps ==
  ASSUME Inv, NEW c \in Conn, Serve(c, NoConn), inUse' \in 0..MaxOpenConns, PoolCount'
  PROVE  Inv'
<1>1. conn'[c] = NoConn
  BY DEF Serve, Inv, TypeOK
<1>2. Timely(c)'
  BY <1>1 DEF Timely, InFlight, Querying, NoConn
<1> QED  BY <1>2, NoConnTyped, ServeKeeps

LEMMA RequestKeeps ==
  ASSUME Inv, NEW c \in Conn, Request(c)
  PROVE  Inv'
<1>0. conn[c] \in ConnState
  BY DEF Inv, TypeOK
<1>1. CASE Accept(c) \/ ReadHeader(c) \/ ReadBody(c)
  BY <1>1, AcceptKeeps, ReadHeaderKeeps, ReadBodyKeeps
<1>2. CASE Acquire(c)
  <2>1. [conn[c] EXCEPT !.at = "holding"].at = "holding"
    BY <1>0 DEF ConnState
  <2>2. PoolCount' /\ inUse' \in 0..MaxOpenConns
    BY <1>2, <2>1, OneMore DEF Acquire
  <2> QED  BY <1>2, <2>2, QueryingStays DEF Acquire, Querying
<1>3. CASE Release(c)
  <2>1. CASE Serve(c, [conn[c] EXCEPT !.at = "waiting"])
    <3>1. [conn[c] EXCEPT !.at = "waiting"].at = "waiting"
      BY <1>0 DEF ConnState
    <3>2. PoolCount' /\ inUse' \in 0..MaxOpenConns
      BY <1>3, <2>1, <3>1, OneLess DEF Release
    <3> QED  BY <1>3, <2>1, <3>2, QueryingStays DEF Release, Querying
  <2>2. CASE Serve(c, NoConn)
    BY <1>3, <2>2, OneLess, GoneKeeps DEF Release, NoConn
  <2> QED  BY <1>3, <2>1, <2>2 DEF Release
<1>4. CASE GiveUp(c)
  BY <1>4, SamePool, GoneKeeps DEF GiveUp, NoConn
<1> QED  BY <1>1, <1>2, <1>3, <1>4 DEF Request

-----------------------------------------------------------------------------
(* Time.                                                                     *)

(* A second on one connection that is not due.                                        *)
LEMMA ElapsedTyped ==
  ASSUME NEW c, conn[c] \in ConnState, ~Due(c)
  PROVE  /\ Elapsed(c) \in ConnState
         /\ Elapsed(c).at = conn[c].at /\ Elapsed(c).kind = conn[c].kind
         /\ conn[c].at \in {"header", "body"} => Elapsed(c).open = conn[c].open + 1
         /\ conn[c].at = "header" => Elapsed(c).read = conn[c].read
         /\ conn[c].at \in {"body", "waiting", "holding"} => Elapsed(c).read = conn[c].read + 1
         /\ Querying(c) /\ conn[c].kind # "list" => Elapsed(c).call = conn[c].call + 1
         /\ Querying(c) => Elapsed(c).read <= RouterTimeout
<1> DEFINE at == conn[c].at
           kind == conn[c].kind
           open == conn[c].open
           read == conn[c].read
           call == conn[c].call
<1>1. /\ at \in {"none", "header", "body", "waiting", "holding"} /\ kind \in Kind
      /\ open \in 0..ReadTimeout /\ read \in Nat /\ call \in 0..HandlerTimeout
  BY DEF ConnState
<1>2. /\ at \in {"header", "body"} => open + 1 \in 0..ReadTimeout
      /\ Querying(c) /\ kind # "list" => call + 1 \in 0..HandlerTimeout
  BY <1>1, LifecycleAssumption DEF Due
<1>4. CASE at = "none"
  BY <1>1, <1>4 DEF Elapsed, Querying
<1>5. CASE at = "header"
  BY <1>1, <1>2, <1>5 DEF Elapsed, Querying, ConnState
<1>6. CASE at \notin {"none", "header"}
  <2> DEFINE newOpen == IF at = "body" THEN open + 1 ELSE open
             newRead == read + 1
             newCall == IF Querying(c) /\ kind # "list" THEN call + 1 ELSE call
  <2>1. newOpen \in 0..ReadTimeout /\ newRead \in Nat /\ newCall \in 0..HandlerTimeout
    BY <1>1, <1>2
  <2>2. Elapsed(c) = [conn[c] EXCEPT !.open = newOpen, !.read = newRead, !.call = newCall]
    BY <1>6 DEF Elapsed
  <2>3. Querying(c) => newRead <= RouterTimeout
    BY <1>1, LifecycleAssumption DEF Due
  <2> HIDE DEF newOpen, newRead, newCall
  <2>4. /\ Elapsed(c) \in ConnState
        /\ Elapsed(c).at = at /\ Elapsed(c).kind = kind
        /\ Elapsed(c).open = newOpen /\ Elapsed(c).read = newRead /\ Elapsed(c).call = newCall
    BY <2>1, <2>2 DEF ConnState
  <2> QED  BY <1>6, <2>3, <2>4 DEF newOpen, newRead, newCall, Querying
<1> QED  BY <1>4, <1>5, <1>6

LEMMA TickKeeps == Inv /\ Tick => Inv'
<1> SUFFICES ASSUME Inv, Tick PROVE Inv'
    OBVIOUS
<1> USE DEF Tick, migrator, schema, runners, environment
<1>1. MigratorInv'
  BY DEF Inv, MigratorInv, MigratorTypeOK, VersionTrue, Progress
<1>2. ASSUME NEW c \in Conn PROVE conn[c] \in ConnState /\ ~Due(c) /\ conn'[c] = Elapsed(c)
  BY DEF Inv, TypeOK
<1>3. grace' \in 0..StopGrace /\ drain' \in 0..ShutdownTimeout
      /\ drain \in Nat /\ drain' \in {drain, drain + 1}
  BY LifecycleAssumption DEF Inv, TypeOK
<1>4. TypeOK'
  <2>1. conn' \in [Conn -> ConnState]
    BY <1>2, ElapsedTyped
  <2> QED  BY <1>1, <1>3, <2>1 DEF Inv, TypeOK, MigratorInv
<1>5. ContainerInv'
  BY LifecycleAssumption DEF Inv, TypeOK, ContainerInv
<1>6. ASSUME NEW c \in Conn PROVE Timely(c)'
  <2>1. Timely(c) /\ conn[c] \in ConnState
    BY <1>2 DEF Inv
  <2>2. conn'[c].at = conn[c].at /\ conn'[c].kind = conn[c].kind
    BY <1>2, ElapsedTyped
  <2>3. CASE conn[c].at \in {"none", "header", "body"}
    <3>1. conn[c].at \in {"header", "body"} => drain' <= conn'[c].open
      BY <1>2, <1>3, <2>1, LifecycleAssumption, ElapsedTyped DEF Timely, ConnState
    <3>2. conn[c].at = "body" => conn'[c].read <= conn'[c].open
      BY <1>2, <2>1, LifecycleAssumption, ElapsedTyped DEF Timely, ConnState
    <3> QED  BY <1>2, <2>1, <2>2, <2>3, <3>1, <3>2, ElapsedTyped DEF Timely, InFlight, Querying
  <2>4. CASE conn[c].at \in {"waiting", "holding"}
    <3>1. conn[c].kind # "list" =>
            drain' <= ReadTimeout + conn'[c].call /\ conn'[c].read <= ReadTimeout + conn'[c].call
      BY <1>2, <1>3, <2>1, <2>4, LifecycleAssumption, ElapsedTyped
         DEF Timely, ConnState, Querying
    <3>2. /\ conn[c].kind = "list" => drain' <= ReadTimeout + conn'[c].read
          /\ conn'[c].read <= RouterTimeout
      BY <1>2, <1>3, <2>1, <2>4, LifecycleAssumption, ElapsedTyped
         DEF Timely, ConnState, Querying
    <3> QED  BY <2>1, <2>2, <2>4, <3>1, <3>2 DEF Timely, InFlight, Querying
  <2> QED  BY <2>1, <2>3, <2>4 DEF ConnState
<1>7. PoolCount'
  <2>1. \A c \in Conn : conn'[c].at = conn[c].at
    BY <1>2, ElapsedTyped
  <2>2. Holding' = Holding
    BY <2>1 DEF Holding
  <2> QED  BY <2>2 DEF PoolCount, Holding, Inv
<1> QED  BY <1>1, <1>4, <1>5, <1>6, <1>7 DEF Inv

-----------------------------------------------------------------------------
LEMMA Initially == Init => Inv
<1> SUFFICES ASSUME Init PROVE Inv
    OBVIOUS
<1> USE DEF Init
<1>1. MigratorInv
  BY MigratorInitially
<1>2. TypeOK
  <2>1. conn \in [Conn -> ConnState]
    BY NoConnTyped
  <2>2. grace \in 0..StopGrace /\ drain \in 0..ShutdownTimeout /\ inUse \in 0..MaxOpenConns
    BY LifecycleAssumption
  <2> QED  BY <1>1, <2>1, <2>2 DEF TypeOK, MigratorInv, Stage
<1>3. ContainerInv
  BY DEF ContainerInv, Running
<1>4. ASSUME NEW c \in Conn PROVE Timely(c)
  BY DEF Timely, InFlight, Querying, NoConn
<1>5. PoolCount
  <2>1. Holding = {}
    BY DEF Holding, NoConn
  <2> QED  BY <2>1, FS_EmptySet DEF PoolCount, Holding
<1> QED  BY <1>1, <1>2, <1>3, <1>4, <1>5 DEF Inv

LEMMA StutteringKeeps == Inv /\ UNCHANGED vars => Inv'
<1> SUFFICES ASSUME Inv, UNCHANGED vars PROVE Inv'
    OBVIOUS
<1>1. MigratorInv'
  BY DEF Inv, MigratorInv, MigratorTypeOK, VersionTrue, Progress,
         vars, migrator, schema, runners, environment
<1> QED  BY <1>1, OutsideKeeps DEF vars, migrator, schema, Migrated

(* Every step of the container, of a request, of time and of the migrators keeps the        *)
(* invariant: what main may rely on in each of its stages, and by which clock every         *)
(* request is bounded.                                                         *)
THEOREM InvHolds == Spec => []Inv
<1>1. Init => Inv
  BY Initially
<1>2. Inv /\ [Next]_vars => Inv'
  BY BootKeeps, ListenKeeps, DeathKeeps, DockerKeeps, EndKeeps, RequestKeeps, TickKeeps,
     RunByHandKeeps, MigrateKeeps, StutteringKeeps DEF Next
<1> QED  BY <1>1, <1>2, PTL DEF Spec

(* The variables of the life cycle keep their types: no clock passes its limit, and no       *)
(* more connections of the pool are in use than SetMaxOpenConns allows.                 *)
THEOREM TypeCorrect == Spec => []TypeOK
<1>1. Inv => TypeOK
  BY DEF Inv
<1> QED  BY <1>1, InvHolds, PTL

(* schema_migrations tells the truth, whoever died or overlapped between its             *)
(* transactions.                                                              *)
THEOREM VersionsTrue == Spec => []VersionTrue
<1>1. Inv => VersionTrue
  BY DEF Inv, MigratorInv
<1> QED  BY <1>1, InvHolds, PTL

(* Whenever main runs, all migrations are in the database.                              *)
THEOREM MigratedWhenServing == Spec => []ServesMigrated
<1>1. Inv => ServesMigrated
  BY MigratorAssumption
     DEF Inv, MigratorInv, MigratorTypeOK, VersionTrue, ContainerInv, ServesMigrated
<1> QED  BY <1>1, InvHolds, PTL

(* provider.Close never runs under a handler.                                         *)
THEOREM PoolOutlives == Spec => []PoolOutlivesHandlers
<1>1. Inv => PoolOutlivesHandlers
  BY DEF Inv, Timely, PoolOutlivesHandlers
<1> QED  BY <1>1, InvHolds, PTL

(* No request is worked on for longer than its contexts live. *)
LEMMA InTime == Inv => AnsweredInTime
<1> SUFFICES ASSUME Inv, NEW c \in Conn, Querying(c)
             PROVE  /\ \/ conn[c].read <= RouterTimeout
                       \/ conn[c].kind = "body" /\ conn[c].read <= ReadTimeout
                    /\ conn[c].kind # "list" => conn[c].read <= ReadTimeout + HandlerTimeout
    BY DEF AnsweredInTime
<1>1. Timely(c) /\ conn[c].call \in 0..HandlerTimeout /\ conn[c].read \in Nat
  BY DEF Inv, TypeOK, ConnState
<1> QED  BY <1>1, LifecycleAssumption DEF Timely

(* Whatever it waits for, a request is over within the limits of reading and of its contexts. *)
THEOREM AllInTime == Spec => []AnsweredInTime
<1> QED  BY InTime, InvHolds, PTL

(* With the one setting main uses for both timeouts of the server, what slow_answer finds   *)
(* goes away if it is above the timeout of the router.  (At equality whole seconds would      *)
(* do, but net/http sets the deadline of writing a moment before the router's context.)    *)
THEOREM RouterTimeoutSuffices ==
  ASSUME ReadTimeout = WriteTimeout, RouterTimeout < WriteTimeout
  PROVE  Spec => AnswersArrive
<1>1. ASSUME Inv, NEW c \in Conn, Querying(c)
      PROVE  conn[c].read <= WriteTimeout
  <2>1. conn[c].read \in Nat
    BY <1>1 DEF Inv, TypeOK, ConnState
  <2>2. conn[c].read <= RouterTimeout \/ conn[c].read <= ReadTimeout
    BY <1>1, InTime DEF AnsweredInTime
  <2> QED  BY <2>1, <2>2, LifecycleAssumption
<1>2. Inv /\ [Next]_vars =>
        [\A c \in Conn :
           /\ Querying(c) /\ stage \in Running
           /\ stage' = stage /\ ~InFlight(c)'
           => conn[c].read <= WriteTimeout]_vars
  BY <1>1
<1> QED  BY <1>2, InvHolds, PTL DEF Spec, AnswersArrive

-----------------------------------------------------------------------------
(* Only Kill ends a draining process without a fault.                                  *)
LEMMA OnlyKillCuts ==
  ASSUME Inv, [Next]_vars, stage = "draining", stage' = "exited", UNCHANGED faults
  PROVE  Kill
<1>1. faults \in Nat
  BY MigratorAssumption DEF Inv, MigratorInv, MigratorTypeOK
<1>2. ~Fault
  BY <1>1 DEF Fault
<1>3. ~Boot
  BY DEF Boot, Start, RunMigrator, MigratorEnds, Open, Notify, Advance
<1>4. ~UNCHANGED stage
  OBVIOUS
<1>5. ~Terminate /\ ~ListenFails /\ ~Crash
  BY <1>2 DEF Terminate, ListenFails, Crash
<1>6. ~Stop
  BY <1>4 DEF Stop, Signal
<1>7. ~DockerStart /\ ~ListenAndServe /\ ~Tick
  BY <1>4 DEF DockerStart, ListenAndServe, Tick, container
<1>8. ASSUME NEW c \in Conn PROVE ~Request(c)
  BY <1>4 DEF Request, Accept, ReadHeader, ReadBody, Acquire, Release, GiveUp, Serve, container
<1>9. ~Migrate /\ \A r \in Runner : ~RunByHand(r)
  BY <1>4 DEF Migrate, RunByHand, container
<1>10. ~Shutdown /\ ~Return
  BY DEF Shutdown, Return, Advance
<1>11. ~UNCHANGED vars
  BY <1>4 DEF vars, container
<1> QED  BY <1>3, <1>5, <1>6, <1>7, <1>8, <1>9, <1>10, <1>11 DEF Next, End

(* With the 10 s of docker longer than a read timeout and a handler's context together,     *)
(* as 4 s and 5 s are, docker stop cuts off no request but lists.                       *)
THEOREM OnlyListsCut ==
  ASSUME ReadTimeout + HandlerTimeout < StopGrace
  PROVE  Spec => OnlyListsAreCut
<1>1. ASSUME Inv, [Next]_vars, stage = "draining", stage' = "exited", UNCHANGED faults,
             NEW c \in Conn, InFlight(c), Querying(c)
      PROVE  conn[c].kind = "list"
  <2>1. grace = StopGrace
    BY <1>1, OnlyKillCuts DEF Kill
  <2>2. grace <= drain /\ Timely(c) /\ conn[c] \in ConnState /\ drain \in 0..ShutdownTimeout
    BY <1>1 DEF Inv, ContainerInv, TypeOK
  <2>3. conn[c].call \in 0..HandlerTimeout
    BY <2>2 DEF ConnState
  <2>4. ~(drain <= ReadTimeout + conn[c].call)
    BY <2>1, <2>2, <2>3, LifecycleAssumption
  <2> QED  BY <1>1, <2>2, <2>4 DEF Timely
<1>2. Inv /\ [Next]_vars =>
        [stage = "draining" /\ stage' = "exited" /\ UNCHANGED faults =>
           \A c \in Conn : InFlight(c) /\ Querying(c) => conn[c].kind = "list"]_vars
  BY <1>1
<1> QED  BY <1>2, InvHolds, PTL DEF Spec, OnlyListsAreCut

=============================================================================
