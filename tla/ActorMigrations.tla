-------------------------- MODULE ActorMigrations --------------------------
(***************************************************************************)
(* The migration handlers of the actor (connection/actor.rs) on the same   *)
(* session as its transaction handlers.  They switch autocommit without    *)
(* regard to transaction_depth, so a migration run inside an open          *)
(* Transaction ends it on the server, and one that fails late leaves its   *)
(* own transaction to whoever uses the connection next.                    *)
(*                                                                         *)
(* A script is one call of apply or revert: two statements and the one     *)
(* that writes its tracking row, which are items of Work.  The handlers of *)
(* the two differ only in these statements.                                *)
(*                                                                         *)
(* MigrationFaults names the calls of a migration that may fail, as in     *)
(* Migrations: "begin", "track", "commit", "restore", and, ignored after a *)
(* failed batch, "unrolled" and "unrestored".  The batch may always fail.  *)
(***************************************************************************)
EXTENDS TransactionActor

CONSTANTS
  Scripts,
  NoTx,            \* scripts to be run outside a transaction
  MigrationFaults

Statements == {"first", "second"}

MigrationWork == Scripts \X (Statements \cup {"row"})

ASSUME MigrationsAssumption ==
  /\ NoTx \subseteq Scripts
  /\ MigrationWork \subseteq Work
  /\ MigrationFaults \subseteq
       {"begin", "track", "commit", "restore", "unrolled", "unrestored"}

VARIABLES
  torn,     \* history: scripts whose batch was left without a tracking row
  left      \* history: a failed call left the connection in manual mode

migratingVars == <<transaction_depth, session, torn, left>>

MigratingInit == ActorInit /\ torn = {} /\ left = FALSE

-----------------------------------------------------------------------------
(* The statements of `done` take effect, in their order. *)
RanBatch(s, m, done) ==
  LET first == IF "first" \in done THEN Execute(s, <<m, "first">>) ELSE s
  IN  IF "second" \in done THEN Execute(first, <<m, "second">>) ELSE first

(* What an executed statement that fails may have done to the transaction. *)
Survives(s) == {s} \cup
  IF "abort" \in Faults /\ ~s.autocommit THEN {Abort(s)} ELSE {}

(* Mutant: what the failed batch did is not rolled back. *)
AbandonedCommits(s, failed) == AutocommitOn(s)

(* Mutant: manual-commit mode stays on after a failed batch. *)
AbandonedStaysManual(s, failed) == EndTranRollback(s)

(* After a failed batch, when the calls in `failed` fail. *)
Abandoned(s, failed) ==
  LET ended == IF "unrolled" \in failed THEN s ELSE EndTranRollback(s)
  IN  IF "unrestored" \in failed THEN ended ELSE AutocommitOn(ended)

(* A script in a transaction. *)
HandleMigrationTx(m, r) ==
  LET begun    == AutocommitOff(session)
      ran      == RanBatch(begun, m, Statements)
      recorded == Execute(ran, <<m, "row">>)
  IN  /\ m \notin NoTx
      /\ UNCHANGED transaction_depth
      /\ \/ /\ r = "err" /\ "begin" \in MigrationFaults
            /\ UNCHANGED <<session, torn, left>>
         \/ /\ r = "err"
            /\ \E done \in (SUBSET Statements) \ {Statements},
                  failed \in SUBSET (MigrationFaults \cap {"unrolled", "unrestored"}) :
                 /\ session' = Abandoned(RanBatch(begun, m, done), failed)
                 /\ left' = (left \/ "unrestored" \in failed)
            /\ UNCHANGED torn
         \/ /\ r = "err" /\ "track" \in MigrationFaults
            /\ session' \in Survives(ran)
            /\ torn' = torn \cup {m}
            /\ left' = TRUE
         \/ /\ r = "err" /\ "commit" \in MigrationFaults
            /\ session' = recorded
            /\ left' = TRUE
            /\ UNCHANGED torn
         \/ /\ r = "err" /\ "restore" \in MigrationFaults
            /\ session' = EndTranCommit(recorded)
            /\ left' = TRUE
            /\ UNCHANGED torn
         \/ /\ r = "ok"
            /\ session' = AutocommitOn(EndTranCommit(recorded))
            /\ left' = FALSE
            /\ UNCHANGED torn

(* A script without one: in whatever mode the connection is. *)
HandleMigrationNoTx(m, r) ==
  LET ran == RanBatch(session, m, Statements)
  IN  /\ m \in NoTx
      /\ \/ /\ r = "err"
            /\ \E done \in (SUBSET Statements) \ {Statements} :
                 session' \in Survives(RanBatch(session, m, done))
         \/ /\ r = "err" /\ "track" \in MigrationFaults
            /\ session' \in Survives(ran)
         \/ r = "ok" /\ session' = Execute(ran, <<m, "row">>)
      /\ UNCHANGED <<transaction_depth, torn, left>>

-----------------------------------------------------------------------------
(* The migrator runs a script whose row it does not find. *)
Pending(m) == <<m, "row">> \notin View(session)

(* When the actor ends its outermost transaction, all is as it should be   *)
(* again, unless that failed silently.                                     *)
Transact ==
  /\ Commands(Work \ MigrationWork)
  /\ left' = (left /\ ~(transaction_depth = 1 /\ transaction_depth' = 0))
  /\ UNCHANGED torn

Migrate ==
  /\ Len(session.log) < MaxLog
  /\ \E m \in Scripts, r \in Result :
       Pending(m) /\ (HandleMigrationTx(m, r) \/ HandleMigrationNoTx(m, r))

MigratingNext == Transact \/ Migrate

MigratingSpec == MigratingInit /\ [][MigratingNext]_migratingVars

-----------------------------------------------------------------------------
(* A script that runs in a transaction is durable as a whole and with its  *)
(* tracking row, or not at all: also when the transaction is the caller's, *)
(* who may roll it back to a savepoint, commit it or drop it, and also when *)
(* its commit failed and a later transaction, or a later migration, takes  *)
(* it along (actor.rs:573-655).  Only a tracking row that cannot be        *)
(* written (633) leaves a batch that others may make durable without one.  *)
WholeAndRecorded ==
  \A m \in Scripts \ (NoTx \cup torn) :
    \A k \in Statements :
      <<m, k>> \in session.durable <=> <<m, "row">> \in session.durable

(* A connection on which no transaction is open is out of manual-commit    *)
(* mode with nothing pending, although migrations ran inside transactions  *)
(* and failed there: unless a call has returned an error after its batch   *)
(* ran (actor.rs:633-651), and then until the next transaction or          *)
(* migration ends well (394, 427, 646).                                    *)
CleanAtRest ==
  transaction_depth = 0 /\ ~left => session.autocommit /\ session.log = <<>>
=============================================================================
