----------------------------- MODULE Migrations -----------------------------
(***************************************************************************)
(* Migrators that share a database, each with a connection of its own:     *)
(* the Migrate operations (migrate.rs) and the actor's handlers of them    *)
(* (handle_apply_migration and handle_revert_migration in                  *)
(* connection/actor.rs).                                                   *)
(*                                                                         *)
(* The database is an image: how often each statement of each migration's  *)
(* batch is in effect, and the rows of the tracking table.  A connection   *)
(* in manual-commit mode works on an image of its own until it commits;    *)
(* SQL Server (external) makes the others wait meanwhile, so a handler is  *)
(* one action.  A batch that fails may have run any of its statements: SQL *)
(* Server goes on after most errors.                                       *)
(*                                                                         *)
(* The order of calls is that of sqlx-core's Migrator (external): lock,    *)
(* dirty_version, list, apply (or skip) what is missing in ascending order *)
(* or revert the latest, unlock; the first error ends the run, without     *)
(* unlocking, and its connection is closed.                                *)
(*                                                                         *)
(* Faults names the ODBC calls that may fail: "begin", "track" (the        *)
(* tracking row), "commit", "restore"; "unrolled" and "unrestored" are     *)
(* failures of ROLLBACK and of restoring autocommit that are ignored after *)
(* a failed batch.  The batch itself may always fail.                      *)
(***************************************************************************)
EXTENDS Integers, FiniteSetsExt, Sequences

CONSTANTS
  Migrators,
  Versions,
  NoTx,            \* versions to be run outside a transaction
  Faults,
  MaxRuns          \* bound: runs of one migrator

ASSUME MigrationsAssumption ==
  /\ Versions \subseteq Nat /\ IsFiniteSet(Versions) /\ NoTx \subseteq Versions
  /\ Faults \subseteq {"begin", "track", "commit", "restore", "unrolled", "unrestored"}
  /\ MaxRuns \in Nat

VARIABLES
  db,          \* what is durable
  conn,        \* for each migrator, its connection
  locks,       \* how often its session holds sqlx_migration_lock
  pc, goal,    \* where its run is, and what it is for
  applied,     \* the versions it takes for recorded
  runs         \* runs it has begun

migVars == <<db, conn, locks, pc, goal, applied, runs>>

Batch == 1..2

Image == [done : [Versions -> [Batch -> 0..2]],
          rows : [Versions -> {"absent", "full", "skipped"}]]

Fresh == [autocommit |-> TRUE, pending |-> <<>>]

MigTypeOK ==
  /\ db \in Image
  /\ \A m \in Migrators :
       /\ conn[m].autocommit \in BOOLEAN
       /\ conn[m].pending = <<>> \/ conn[m].pending[1] \in Image
       /\ conn[m].pending # <<>> => ~conn[m].autocommit
  /\ locks \in [Migrators -> 0..1]
  /\ pc \in [Migrators -> {"idle", "locking", "listing", "running", "ending", "failed"}]
  /\ goal \in [Migrators -> {"apply", "skip", "revert"}]
  /\ applied \in [Migrators -> SUBSET Versions]
  /\ runs \in [Migrators -> 0..MaxRuns]

MigInit ==
  /\ db = [done |-> [v \in Versions |-> [k \in Batch |-> 0]],
           rows |-> [v \in Versions |-> "absent"]]
  /\ conn = [m \in Migrators |-> Fresh]
  /\ locks = [m \in Migrators |-> 0]
  /\ pc = [m \in Migrators |-> "idle"]
  /\ goal = [m \in Migrators |-> "apply"]
  /\ applied = [m \in Migrators |-> {}]
  /\ runs = [m \in Migrators |-> 0]

-----------------------------------------------------------------------------
(* The connection (external): a record of its mode, its own image if it    *)
(* has a transaction open, and the database.                               *)
Here(m) == [autocommit |-> conn[m].autocommit, pending |-> conn[m].pending, db |-> db]

Becomes(m, c) ==
  /\ conn' = [conn EXCEPT ![m] = [autocommit |-> c.autocommit, pending |-> c.pending]]
  /\ db' = c.db

Seen(c) == IF c.pending = <<>> THEN c.db ELSE c.pending[1]

Write(c, image) == IF c.autocommit THEN [c EXCEPT !.db = image]
                   ELSE [c EXCEPT !.pending = <<image>>]

Commit(c) == [c EXCEPT !.db = Seen(c), !.pending = <<>>]

Rollback(c) == [c EXCEPT !.pending = <<>>]

AutocommitOn(c) == [Commit(c) EXCEPT !.autocommit = TRUE]

(* No other connection has the tables locked. *)
Undisturbed(m) == \A n \in Migrators \ {m} : conn[n].pending = <<>>

-----------------------------------------------------------------------------
(* The two handlers differ in their batch and their tracking statement.    *)
Times(kind, n) == IF kind = "revert" THEN 0 ELSE IF n = 0 THEN 1 ELSE 2

Ran(c, kind, v, ks) ==
  Write(c, [Seen(c) EXCEPT !.done[v] =
              [k \in Batch |-> IF k \in ks THEN Times(kind, @[k]) ELSE @[k]]])

Row(kind) == [apply |-> "full", skip |-> "skipped", revert |-> "absent"][kind]

Tracked(c, kind, v) == Write(c, [Seen(c) EXCEPT !.rows[v] = Row(kind)])

(* version is the primary key of the tracking table. *)
Duplicate(c, kind, v) == kind # "revert" /\ Seen(c).rows[v] # "absent"

(* Mutant: a failed batch is not rolled back before autocommit returns. *)
AbandonCommits(c, v, failed) == AutocommitOn(c)

(* After a failed batch, when the calls in `failed` fail. *)
Abandon(c, v, failed) ==
  IF v \in NoTx THEN c
  ELSE LET ended == IF "unrolled" \in failed THEN c ELSE Rollback(c)
       IN  IF "unrestored" \in failed THEN ended ELSE AutocommitOn(ended)

(* Mutant: the batch's results are not drained, so that a statement that   *)
(* fails after the first one goes unnoticed.                               *)
HandleMigrationUndrained(m, kind, v, ok) ==
  LET begun == [Here(m) EXCEPT !.autocommit = v \in NoTx /\ @]
  IN  \E ks \in SUBSET Batch :
        LET recorded == Tracked(Ran(begun, kind, v, ks), kind, v)
        IN  /\ 1 \in ks /\ ok
            /\ Becomes(m, IF v \in NoTx THEN recorded ELSE AutocommitOn(recorded))

HandleMigration(m, kind, v, ok) ==
  LET tx       == v \notin NoTx
      begun    == IF tx THEN [Here(m) EXCEPT !.autocommit = FALSE] ELSE Here(m)
      ran      == Ran(begun, kind, v, Batch)
      recorded == Tracked(ran, kind, v)
  IN  \/ /\ tx /\ "begin" \in Faults
         /\ ~ok /\ Becomes(m, Here(m))
      \/ /\ ~ok
         /\ \E ks \in (SUBSET Batch) \ {Batch},
               failed \in SUBSET (Faults \cap {"unrolled", "unrestored"}) :
              Becomes(m, Abandon(Ran(begun, kind, v, ks), v, failed))
      \/ /\ "track" \in Faults \/ Duplicate(ran, kind, v)
         /\ ~ok /\ Becomes(m, ran)
      \/ /\ ~Duplicate(ran, kind, v)
         /\ \/ tx /\ "commit" \in Faults /\ ~ok /\ Becomes(m, recorded)
            \/ tx /\ "restore" \in Faults /\ ~ok /\ Becomes(m, Commit(recorded))
            \/ ok /\ Becomes(m, IF tx THEN AutocommitOn(recorded) ELSE recorded)

HandleApplyMigration(m, v, ok) == HandleMigration(m, "apply", v, ok)

HandleRevertMigration(m, v, ok) == HandleMigration(m, "revert", v, ok)

-----------------------------------------------------------------------------
Goto(m, p) == pc' = [pc EXCEPT ![m] = p]

Begin(m) ==
  /\ pc[m] = "idle" /\ runs[m] < MaxRuns
  /\ Goto(m, "locking")
  /\ \E g \in {"apply", "skip", "revert"} : goal' = [goal EXCEPT ![m] = g]
  /\ runs' = [runs EXCEPT ![m] = @ + 1]
  /\ UNCHANGED <<db, conn, locks, applied>>

(* Mutant: the lock is owned by a transaction, which autocommit ends. *)
LockForNothing(m) ==
  /\ pc[m] = "locking"
  /\ Goto(m, "listing")
  /\ UNCHANGED <<db, conn, locks, goal, applied, runs>>

(* sp_getapplock waits for the other sessions. *)
Lock(m) ==
  /\ pc[m] = "locking"
  /\ \A n \in Migrators \ {m} : locks[n] = 0
  /\ locks' = [locks EXCEPT ![m] = @ + 1]
  /\ Goto(m, "listing")
  /\ UNCHANGED <<db, conn, goal, applied, runs>>

(* dirty_version finds nothing, ever; then the recorded versions are read. *)
ListAppliedMigrations(m) ==
  /\ pc[m] = "listing"
  /\ Undisturbed(m)
  /\ applied' = [applied EXCEPT ![m] =
                   {v \in Versions : Seen(Here(m)).rows[v] # "absent"}]
  /\ Goto(m, "running")
  /\ UNCHANGED <<db, conn, locks, goal, runs>>

Missing(m) == Versions \ applied[m]

Apply(m) ==
  /\ pc[m] = "running" /\ goal[m] = "apply" /\ Missing(m) # {}
  /\ Undisturbed(m)
  /\ LET v == Min(Missing(m))
     IN  \/ /\ HandleApplyMigration(m, v, TRUE)
            /\ applied' = [applied EXCEPT ![m] = @ \cup {v}]
            /\ UNCHANGED pc
         \/ /\ HandleApplyMigration(m, v, FALSE)
            /\ Goto(m, "failed")
            /\ UNCHANGED applied
  /\ UNCHANGED <<locks, goal, runs>>

(* Recorded without being run, in one statement. *)
Skip(m) ==
  /\ pc[m] = "running" /\ goal[m] = "skip" /\ Missing(m) # {}
  /\ Undisturbed(m)
  /\ LET v == Min(Missing(m))
     IN  \/ /\ ~Duplicate(Here(m), "skip", v)
            /\ Becomes(m, Tracked(Here(m), "skip", v))
            /\ applied' = [applied EXCEPT ![m] = @ \cup {v}]
            /\ UNCHANGED pc
         \/ /\ "track" \in Faults \/ Duplicate(Here(m), "skip", v)
            /\ Goto(m, "failed")
            /\ UNCHANGED <<db, conn, applied>>
  /\ UNCHANGED <<locks, goal, runs>>

Revert(m) ==
  /\ pc[m] = "running" /\ goal[m] = "revert" /\ applied[m] # {}
  /\ Undisturbed(m)
  /\ LET v == Max(applied[m])
     IN  \/ /\ HandleRevertMigration(m, v, TRUE)
            /\ applied' = [applied EXCEPT ![m] = @ \ {v}]
            /\ Goto(m, "ending")
         \/ /\ HandleRevertMigration(m, v, FALSE)
            /\ Goto(m, "failed")
            /\ UNCHANGED applied
  /\ UNCHANGED <<locks, goal, runs>>

Over(m) == \/ pc[m] = "ending"
           \/ /\ pc[m] = "running"
              /\ IF goal[m] = "revert" THEN applied[m] = {} ELSE Missing(m) = {}

(* Mutant: the session keeps the lock. *)
UnlockForNothing(m) ==
  /\ Over(m)
  /\ Goto(m, "idle")
  /\ UNCHANGED <<db, conn, locks, goal, applied, runs>>

Unlock(m) ==
  /\ Over(m)
  /\ locks' = [locks EXCEPT ![m] = @ - 1]
  /\ Goto(m, "idle")
  /\ UNCHANGED <<db, conn, goal, applied, runs>>

(* The connection is closed, or its process crashes: the server rolls back *)
(* what is pending and releases the session's lock.                        *)
Close(m) ==
  /\ pc[m] # "idle"
  /\ conn' = [conn EXCEPT ![m] = Fresh]
  /\ locks' = [locks EXCEPT ![m] = 0]
  /\ Goto(m, "idle")
  /\ UNCHANGED <<db, goal, applied, runs>>

Call(m) == \/ Lock(m) \/ ListAppliedMigrations(m)
           \/ Apply(m) \/ Skip(m) \/ Revert(m) \/ Unlock(m)

MigNext == \E m \in Migrators : Begin(m) \/ Call(m) \/ Close(m)

(* A run goes on to its end, and a failed one gives its connection up. *)
MigSpec == /\ MigInit /\ [][MigNext]_migVars
           /\ \A m \in Migrators : /\ WF_migVars(Call(m))
                                   /\ WF_migVars(pc[m] = "failed" /\ Close(m))

-----------------------------------------------------------------------------
(* A migration run in a transaction is in effect once, as a whole, if it   *)
(* is recorded as run, and not at all otherwise, whatever fails, whoever   *)
(* crashes and whoever else migrates (actor.rs:573-655; tests/mssql.rs:955 *)
(* for a batch that fails half-way).                                       *)
RecordedIffInEffect ==
  \A v \in Versions \ NoTx :
    db.done[v] = [k \in Batch |-> IF db.rows[v] = "full" THEN 1 ELSE 0]

(* Without a transaction it may be in effect in part, and stay recorded    *)
(* when its revert fails half-way; but it is recorded only once its whole  *)
(* batch was run (actor.rs:597-638; tests/mssql.rs:955).                   *)
RecordedAfterBatch ==
  [][\A v \in Versions : db.rows[v] # "full" /\ db'.rows[v] = "full" =>
                           \A k \in Batch : db'.done[v][k] > 0]_migVars

(* What a migrator listed stays true while it works through the list:      *)
(* nobody else applies or reverts anything between its lock and its unlock *)
(* (migrate.rs:241-266).                                                   *)
ListStaysTrue ==
  \A m \in Migrators :
    pc[m] = "running" =>
      applied[m] = {v \in Versions : Seen(Here(m)).rows[v] # "absent"}

(* Every run ends: one that failed, holding the lock or a transaction that *)
(* keeps the tables locked, holds up nobody once its connection is closed  *)
(* (migrate.rs:241-266).                                                   *)
RunsEnd == \A m \in Migrators : pc[m] = "locking" ~> pc[m] \in {"idle", "failed"}

(* No call leaves its connection inside a transaction (actor.rs:624-631:    *)
(* "Don't leave the connection inside a half-applied transaction").        *)
LeftOutsideTransaction == \A m \in Migrators : conn[m] = Fresh
=============================================================================
