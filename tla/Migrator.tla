------------------------------- MODULE Migrator -------------------------------
(***************************************************************************)
(* cmd/migrator: m.Up of golang-migrate, as docker-entrypoint.sh runs it before   *)
(* every start of the service and as a developer runs it by hand.               *)
(*                                                                         *)
(* The table schema_migrations holds one version and its dirty flag.  Up takes a    *)
(* lock of the database session, reads the version, and for each migration that    *)
(* follows marks it dirty, runs its file and marks it clean: three transactions,   *)
(* between which the runner may die.                                          *)
(***************************************************************************)
EXTENDS Integers

CONSTANTS
  Runner,     \* the processes that may run cmd/migrator
  Nobody,     \* no runner
  Last,       \* the version of the last file in migrations/
  MaxFaults   \* bound: faults of the environment

ASSUME MigratorAssumption ==
  /\ Nobody \notin Runner
  /\ Last \in Nat \ {0}
  /\ MaxFaults \in Nat

VARIABLES
  version,    \* schema_migrations.version, 0 before the first migration
  dirty,      \* schema_migrations.dirty
  applied,    \* the migrations whose objects are in the database
  locked,     \* the runner that holds the lock
  step,       \* step[r]: where a runner stands
  next,       \* next[r]: the migration it is at
  postgresUp, \* Postgres accepts connections
  faults      \* faults so far

schema == <<version, dirty, applied>>
runners == <<locked, step, next>>
environment == <<postgresUp, faults>>

Step == {"off", "lock", "version", "mark", "run", "clear", "ok", "failed"}

(* The steps at which a runner holds the lock. *)
Locked == {"version", "mark", "run", "clear"}

MigratorTypeOK ==
  /\ version \in 0..Last
  /\ dirty \in BOOLEAN
  /\ applied \in SUBSET (1..Last)
  /\ locked \in Runner \cup {Nobody}
  /\ step \in [Runner -> Step]
  /\ next \in [Runner -> 1..Last]
  /\ postgresUp \in BOOLEAN
  /\ faults \in 0..MaxFaults

MigratorInit ==
  /\ version = 0 /\ dirty = FALSE /\ applied = {}
  /\ locked = Nobody
  /\ step = [r \in Runner |-> "off"]
  /\ next = [r \in Runner |-> 1]
  /\ postgresUp \in BOOLEAN
  /\ faults = 0

-----------------------------------------------------------------------------
Goto(r, s) == step' = [step EXCEPT ![r] = s]

Unlock(r) == locked' = IF locked = r THEN Nobody ELSE locked

(* migrate.New connects. *)
Begin(r) ==
  /\ step[r] = "off"
  /\ Goto(r, IF postgresUp THEN "lock" ELSE "failed")
  /\ UNCHANGED <<schema, locked, next, environment>>

Lock(r) ==
  /\ step[r] = "lock" /\ locked = Nobody
  /\ locked' = r
  /\ Goto(r, "version")
  /\ UNCHANGED <<schema, next, environment>>

(* Mutant of ReadVersion: a dirty version is forced clean. *)
ReadVersionForces(r) ==
  /\ step[r] = "version"
  /\ dirty' = FALSE
  /\ IF version = Last
     THEN Goto(r, "ok") /\ Unlock(r) /\ UNCHANGED next
     ELSE Goto(r, "mark") /\ next' = [next EXCEPT ![r] = version + 1] /\ UNCHANGED locked
  /\ UNCHANGED <<version, applied, environment>>

(* A dirty version is an error, the last one is ErrNoChange, which is none. *)
ReadVersion(r) ==
  /\ step[r] = "version"
  /\ IF dirty \/ version = Last
     THEN Goto(r, IF dirty THEN "failed" ELSE "ok") /\ Unlock(r) /\ UNCHANGED next
     ELSE Goto(r, "mark") /\ next' = [next EXCEPT ![r] = version + 1] /\ UNCHANGED locked
  /\ UNCHANGED <<schema, environment>>

Mark(r) ==
  /\ step[r] = "mark"
  /\ version' = next[r] /\ dirty' = TRUE
  /\ Goto(r, "run")
  /\ UNCHANGED <<applied, locked, next, environment>>

(* A file is one implicit transaction. *)
RunMigration(r) ==
  /\ step[r] = "run"
  /\ applied' = applied \cup {next[r]}
  /\ Goto(r, "clear")
  /\ UNCHANGED <<version, dirty, locked, next, environment>>

Clear(r) ==
  /\ step[r] = "clear"
  /\ dirty' = FALSE
  /\ IF next[r] = Last
     THEN Goto(r, "ok") /\ Unlock(r) /\ UNCHANGED next
     ELSE Goto(r, "mark") /\ next' = [next EXCEPT ![r] = @ + 1] /\ UNCHANGED locked
  /\ UNCHANGED <<version, applied, environment>>

Up(r) ==
  \/ Lock(r)
  \/ ReadVersion(r)
  \/ Mark(r)
  \/ RunMigration(r)
  \/ Clear(r)

-----------------------------------------------------------------------------
(* Faults. *)

Fault == faults < MaxFaults /\ faults' = faults + 1

(* The other one takes longer than the lock timeout. *)
LockTimesOut(r) ==
  /\ Fault
  /\ step[r] = "lock" /\ locked # Nobody
  /\ Goto(r, "failed")
  /\ UNCHANGED <<schema, locked, next, postgresUp>>

(* The runner gets an error, or its session ends: the lock is free again. *)
RunnerFails(r) ==
  /\ Fault
  /\ step[r] \in Locked \cup {"lock"}
  /\ Goto(r, "failed")
  /\ Unlock(r)
  /\ UNCHANGED <<schema, next, postgresUp>>

(* Every session ends with Postgres. *)
PostgresStops ==
  /\ Fault
  /\ postgresUp /\ postgresUp' = FALSE
  /\ step' = [r \in Runner |-> IF step[r] \in Locked \cup {"lock"} THEN "failed" ELSE step[r]]
  /\ locked' = Nobody
  /\ UNCHANGED <<schema, next>>

(* restart: unless-stopped *)
PostgresStarts ==
  /\ ~postgresUp /\ postgresUp' = TRUE
  /\ UNCHANGED <<schema, runners, faults>>

-----------------------------------------------------------------------------
(* The version says what is in the database, whoever has run how far and died: all  *)
(* migrations up to it, but perhaps the one it marks as dirty, and none beyond.      *)
VersionTrue ==
  \/ applied = 1..version
  \/ dirty /\ applied = 1..(version - 1)

(* What a runner that holds the lock may rely on: the lock is held by whoever is at work, *)
(* the file it is about to run is the next one, and "ok" means that nothing is missing.    *)
Progress(r) ==
  /\ step[r] \in Locked <=> locked = r
  /\ step[r] = "mark" => ~dirty /\ next[r] = version + 1
  /\ step[r] \in {"run", "clear"} => dirty /\ version = next[r]
  /\ step[r] = "run" => applied = 1..(version - 1)
  /\ step[r] = "clear" => applied = 1..version
  /\ step[r] = "ok" => ~dirty /\ version = Last

MigratorInv ==
  /\ MigratorTypeOK
  /\ VersionTrue
  /\ \A r \in Runner : Progress(r)

=============================================================================
