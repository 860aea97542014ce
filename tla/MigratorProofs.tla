---------------------------- MODULE MigratorProofs ----------------------------
(***************************************************************************)
(* Every step of the migrator keeps MigratorInv, and no step touches a database    *)
(* that has all migrations.                                                    *)
(***************************************************************************)
EXTENDS Migrator, TLAPS

USE MigratorAssumption

Migrated == version = Last /\ ~dirty

(* An empty database is one without migrations.                                    *)
LEMMA MigratorInitially == MigratorInit => MigratorInv
<1> SUFFICES ASSUME MigratorInit PROVE MigratorInv
    OBVIOUS
<1>1. MigratorTypeOK
  <2>1. /\ version \in 0..Last /\ applied \in SUBSET (1..Last) /\ faults \in 0..MaxFaults
        /\ step \in [Runner -> Step] /\ next \in [Runner -> 1..Last]
        /\ locked \in Runner \cup {Nobody}
    BY DEF MigratorInit, Step
  <2>2. dirty \in BOOLEAN /\ postgresUp \in BOOLEAN
    BY Zenon DEF MigratorInit
  <2> QED  BY <2>1, <2>2 DEF MigratorTypeOK
<1>2. VersionTrue
  BY DEF MigratorInit, VersionTrue
<1>3. ASSUME NEW r \in Runner PROVE Progress(r)
  BY DEF MigratorInit, Progress, Locked
<1> QED  BY <1>1, <1>2, <1>3 DEF MigratorInv

(* A runner that leaves its work, for whatever reason, leaves a true version behind.      *)
LEMMA LeaveKeeps ==
  ASSUME MigratorInv,
         NEW r \in Runner, NEW s \in {"off", "lock", "failed"},
         Goto(r, s), Unlock(r),
         UNCHANGED <<schema, next>>,
         postgresUp' \in BOOLEAN, faults' \in 0..MaxFaults
  PROVE  MigratorInv'
<1> USE DEF Goto, Unlock, schema
<1>1. MigratorTypeOK'
  BY DEF MigratorInv, MigratorTypeOK, Step
<1>2. VersionTrue'
  BY DEF MigratorInv, VersionTrue
<1>3. ASSUME NEW q \in Runner PROVE Progress(q)'
  <2>1. CASE q = r
    BY <2>1 DEF MigratorInv, MigratorTypeOK, Progress, Locked
  <2>2. CASE q # r
    BY <2>2 DEF MigratorInv, MigratorTypeOK, Progress, Locked
  <2> QED  BY <2>1, <2>2
<1> QED  BY <1>1, <1>2, <1>3 DEF MigratorInv

(* Who is not at work need not unlock.                                            *)
LEMMA IdleHoldsNothing ==
  ASSUME MigratorInv, NEW r \in Runner, step[r] \notin Locked, UNCHANGED locked
  PROVE  Unlock(r)
BY DEF MigratorInv, Progress, Unlock

LEMMA BeginKeeps ==
  ASSUME MigratorInv, NEW r \in Runner, Begin(r)
  PROVE  MigratorInv'
<1>1. Unlock(r)
  BY IdleHoldsNothing DEF Begin, Locked
<1> QED  BY <1>1, LeaveKeeps DEF Begin, environment, MigratorInv, MigratorTypeOK

-----------------------------------------------------------------------------
(* Two runners are never at work together.                                        *)
LEMMA OneAtWork ==
  ASSUME MigratorInv, NEW r \in Runner, NEW q \in Runner,
         step[r] \in Locked, step[q] \in Locked
  PROVE  q = r
BY DEF MigratorInv, Progress

LEMMA LockKeeps ==
  ASSUME MigratorInv, NEW r \in Runner, Lock(r)
  PROVE  MigratorInv'
<1> USE DEF Lock, Goto, schema, environment
<1>1. MigratorTypeOK'
  BY DEF MigratorInv, MigratorTypeOK, Step
<1>2. VersionTrue'
  BY DEF MigratorInv, VersionTrue
<1>3. ASSUME NEW q \in Runner PROVE Progress(q)'
  BY DEF MigratorInv, MigratorTypeOK, Progress, Locked
<1> QED  BY <1>1, <1>2, <1>3 DEF MigratorInv

LEMMA ReadVersionKeeps ==
  ASSUME MigratorInv, NEW r \in Runner, ReadVersion(r)
  PROVE  MigratorInv'
<1> USE DEF ReadVersion, Goto, Unlock, schema, environment
<1>1. MigratorTypeOK'
  BY DEF MigratorInv, MigratorTypeOK, Step
<1>2. VersionTrue'
  BY DEF MigratorInv, VersionTrue
<1>3. ASSUME NEW q \in Runner PROVE Progress(q)'
  <2>1. CASE q = r
    BY <2>1 DEF MigratorInv, MigratorTypeOK, Progress, Locked
  <2>2. CASE q # r
    BY <2>2 DEF MigratorInv, MigratorTypeOK, Progress, Locked
  <2> QED  BY <2>1, <2>2
<1> QED  BY <1>1, <1>2, <1>3 DEF MigratorInv

LEMMA MarkKeeps ==
  ASSUME MigratorInv, NEW r \in Runner, Mark(r)
  PROVE  MigratorInv'
<1> USE DEF Mark, Goto, environment
<1>1. ~dirty /\ version' = version + 1 /\ next[r] \in 1..Last /\ locked = r
  BY DEF MigratorInv, MigratorTypeOK, Progress, Locked
<1>2. MigratorTypeOK'
  BY <1>1 DEF MigratorInv, MigratorTypeOK, Step
<1>3. VersionTrue' /\ applied' = 1..(version' - 1)
  BY <1>1 DEF MigratorInv, MigratorTypeOK, VersionTrue
<1>4. ASSUME NEW q \in Runner PROVE Progress(q)'
  <2>1. CASE q = r
    BY <2>1, <1>1, <1>3 DEF MigratorInv, MigratorTypeOK, Progress, Locked
  <2>2. CASE q # r
    BY <2>2, <1>1 DEF MigratorInv, MigratorTypeOK, Progress, Locked
  <2> QED  BY <2>1, <2>2
<1> QED  BY <1>2, <1>3, <1>4 DEF MigratorInv

LEMMA RunMigrationKeeps ==
  ASSUME MigratorInv, NEW r \in Runner, RunMigration(r)
  PROVE  MigratorInv'
<1> USE DEF RunMigration, Goto, environment
<1>1. dirty /\ version = next[r] /\ next[r] \in 1..Last /\ applied = 1..(version - 1)
  BY DEF MigratorInv, MigratorTypeOK, Progress
<1>2. applied' = 1..version
  BY <1>1
<1>3. MigratorTypeOK'
  <2>1. applied' \in SUBSET (1..Last)
    BY <1>1, <1>2
  <2> QED  BY <2>1, <1>1 DEF MigratorInv, MigratorTypeOK, Step
<1>4. VersionTrue'
  BY <1>2 DEF VersionTrue
<1>5. ASSUME NEW q \in Runner PROVE Progress(q)'
  <2>1. CASE q = r
    BY <2>1, <1>1, <1>2 DEF MigratorInv, MigratorTypeOK, Progress, Locked
  <2>2. CASE q # r
    BY <2>2, <1>1, OneAtWork DEF MigratorInv, MigratorTypeOK, Progress, Locked
  <2> QED  BY <2>1, <2>2
<1> QED  BY <1>3, <1>4, <1>5 DEF MigratorInv

LEMMA ClearKeeps ==
  ASSUME MigratorInv, NEW r \in Runner, Clear(r)
  PROVE  MigratorInv'
<1> USE DEF Clear, Goto, Unlock, environment
<1>1. version = next[r] /\ next[r] \in 1..Last /\ applied = 1..version /\ locked = r
  BY DEF MigratorInv, MigratorTypeOK, Progress, Locked
<1>2. MigratorTypeOK'
  <2>1. step' \in [Runner -> Step] /\ next' \in [Runner -> 1..Last]
    BY <1>1 DEF MigratorInv, MigratorTypeOK, Step
  <2>2. locked' \in Runner \cup {Nobody}
    BY DEF MigratorInv, MigratorTypeOK
  <2> QED  BY <2>1, <2>2 DEF MigratorInv, MigratorTypeOK
<1>3. VersionTrue'
  BY <1>1 DEF VersionTrue
<1>4. ASSUME NEW q \in Runner PROVE Progress(q)'
  <2>1. CASE q = r
    BY <2>1, <1>1 DEF MigratorInv, MigratorTypeOK, Progress, Locked
  <2>2. CASE q # r
    BY <2>2, <1>1, OneAtWork DEF MigratorInv, MigratorTypeOK, Progress, Locked
  <2> QED  BY <2>1, <2>2
<1> QED  BY <1>2, <1>3, <1>4 DEF MigratorInv

LEMMA UpKeeps ==
  ASSUME MigratorInv, NEW r \in Runner, Up(r)
  PROVE  MigratorInv'
BY LockKeeps, ReadVersionKeeps, MarkKeeps, RunMigrationKeeps, ClearKeeps DEF Up

-----------------------------------------------------------------------------
(* Faults.                                                                   *)

LEMMA LockTimesOutKeeps ==
  ASSUME MigratorInv, NEW r \in Runner, LockTimesOut(r)
  PROVE  MigratorInv'
<1>1. Unlock(r)
  BY IdleHoldsNothing DEF LockTimesOut, Locked
<1>2. faults' \in 0..MaxFaults
  BY DEF LockTimesOut, Fault, MigratorInv, MigratorTypeOK
<1> QED  BY <1>1, <1>2, LeaveKeeps DEF LockTimesOut, MigratorInv, MigratorTypeOK

LEMMA RunnerFailsKeeps ==
  ASSUME MigratorInv, NEW r \in Runner, RunnerFails(r)
  PROVE  MigratorInv'
<1>1. faults' \in 0..MaxFaults
  BY DEF RunnerFails, Fault, MigratorInv, MigratorTypeOK
<1> QED  BY <1>1, LeaveKeeps DEF RunnerFails, MigratorInv, MigratorTypeOK

LEMMA PostgresKeeps ==
  ASSUME MigratorInv, PostgresStops \/ PostgresStarts
  PROVE  MigratorInv'
<1> USE DEF schema, runners
<1>1. CASE PostgresStops
  <2> USE <1>1 DEF PostgresStops, Fault
  <2>1. MigratorTypeOK'
    <3>1. step' \in [Runner -> Step]
      BY DEF MigratorInv, MigratorTypeOK, Step
    <3>2. faults' \in 0..MaxFaults
      BY DEF MigratorInv, MigratorTypeOK
    <3> QED  BY <3>1, <3>2 DEF MigratorInv, MigratorTypeOK
  <2>2. VersionTrue'
    BY DEF MigratorInv, VersionTrue
  <2>3. ASSUME NEW q \in Runner PROVE Progress(q)'
    BY DEF MigratorInv, MigratorTypeOK, Progress, Locked
  <2> QED  BY <2>1, <2>2, <2>3 DEF MigratorInv
<1>2. CASE PostgresStarts
  BY <1>2 DEF PostgresStarts, MigratorInv, MigratorTypeOK, VersionTrue, Progress
<1> QED  BY <1>1, <1>2

-----------------------------------------------------------------------------
(* Nobody marks a migration when there is none left, so a database that has them all      *)
(* keeps them, whoever starts another migrator.                                   *)
LEMMA MigratedStays ==
  ASSUME MigratorInv, Migrated, NEW r \in Runner, Up(r)
  PROVE  Migrated'
<1>1. step[r] \notin {"mark", "run", "clear"}
  BY DEF MigratorInv, MigratorTypeOK, Progress, Migrated
<1> QED  BY <1>1 DEF Up, Lock, ReadVersion, Mark, RunMigration, Clear, Migrated, schema

=============================================================================
