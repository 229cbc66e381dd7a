-------------------------- MODULE TransactionActor --------------------------
(***************************************************************************)
(* The transaction state of a ConnectionActor (connection/actor.rs): its   *)
(* field transaction_depth, the ODBC session it owns, and the handlers of  *)
(* the commands Begin, Commit, Rollback and StartRollback.  The actor      *)
(* thread runs one handler at a time, so each handler is one action; an    *)
(* ODBC call of it that fails ends the handler where the code's `?` does.  *)
(*                                                                         *)
(* Faults names the ODBC calls of Begin, Commit and Rollback that may fail *)
(* and be reported; IgnoredFaults those StartRollback may meet, which it   *)
(* throws away (`let _ =`).                                                *)
(*   "begin"        set_autocommit(false)                                  *)
(*   "save"         SAVE TRANSACTION                                       *)
(*   "commit"       SQLEndTran commit                                      *)
(*   "rollback"     SQLEndTran rollback                                    *)
(*   "restore"      set_autocommit(true)                                   *)
(*   "rollback_to"  ROLLBACK TRANSACTION <savepoint>                       *)
(*   "abort"        the server aborts the transaction while it executes a  *)
(*                  statement (deadlock victim)                            *)
(***************************************************************************)
EXTENDS SqlServerSession

CONSTANTS
  Faults,
  IgnoredFaults,
  MaxDepth,        \* bound: transactions open at once
  MaxLog           \* bound: entries of one server transaction

VARIABLES
  transaction_depth,   \* ConnectionActor::transaction_depth
  session              \* what the ODBC connection's calls act on

actorVars == <<transaction_depth, session>>

FaultKinds ==
  {"begin", "save", "commit", "rollback", "restore", "rollback_to", "abort"}

ASSUME FaultsAssumption ==
  Faults \subseteq FaultKinds /\ IgnoredFaults \subseteq FaultKinds

ASSUME BoundsAssumption == MaxDepth \in Nat \ {0} /\ MaxLog \in Nat

Result == {"ok", "err"}

ActorTypeOK == transaction_depth \in Nat /\ session \in Session

ActorInit == transaction_depth = 0 /\ session = NewSession

-----------------------------------------------------------------------------
(* Mutant: the savepoint is named after the depth it leads to. *)
HandleBeginNamedAhead(r) ==
  /\ r = "ok"
  /\ session' = IF transaction_depth = 0
                THEN AutocommitOff(session)
                ELSE SaveTransaction(session, transaction_depth + 1)
  /\ transaction_depth' = transaction_depth + 1

HandleBegin(r) ==
  \/ /\ transaction_depth = 0
     /\ r = "ok"
     /\ session' = AutocommitOff(session)
     /\ transaction_depth' = 1
  \/ /\ transaction_depth > 0
     /\ r = "ok"
     /\ ~session.autocommit     \* SAVE TRANSACTION wants a transaction
     /\ session' = SaveTransaction(session, transaction_depth)
     /\ transaction_depth' = transaction_depth + 1
  \/ /\ r = "err"
     /\ \/ transaction_depth = 0 /\ "begin" \in Faults
        \/ transaction_depth > 0 /\ ("save" \in Faults \/ session.autocommit)
     /\ UNCHANGED actorVars

(* What Commit and Rollback share: leave manual-commit mode once the       *)
(* server transaction `ended` is over.  If that fails the depth stays.     *)
RestoreAutocommit(ended, r) ==
  \/ /\ r = "ok"
     /\ session' = AutocommitOn(ended)
     /\ transaction_depth' = 0
  \/ /\ r = "err"
     /\ "restore" \in Faults
     /\ session' = ended
     /\ UNCHANGED transaction_depth

(* Mutant: a commit that fails to commit still counts the level as closed. *)
HandleCommitForgetsLevel(r) ==
  /\ r = "err"
  /\ "commit" \in Faults
  /\ transaction_depth' = transaction_depth - 1
  /\ UNCHANGED session

(* Mutant: SQLEndTran at every level. *)
HandleCommitEveryLevel(r) ==
  /\ r = "ok"
  /\ transaction_depth > 0
  /\ session' = EndTranCommit(session)
  /\ transaction_depth' = transaction_depth - 1

HandleCommit(r) ==
  \/ /\ transaction_depth = 0
     /\ r = "ok"
     /\ UNCHANGED actorVars
  \/ /\ transaction_depth = 1
     /\ RestoreAutocommit(EndTranCommit(session), r)
  \/ /\ transaction_depth = 1
     /\ r = "err"
     /\ "commit" \in Faults
     /\ UNCHANGED actorVars
  \/ /\ transaction_depth > 1
     /\ r = "ok"
     /\ transaction_depth' = transaction_depth - 1
     /\ UNCHANGED session

(* Mutant: a nested rollback only closes its level, as a nested commit does. *)
HandleRollbackCountsOnly(r) ==
  /\ r = "ok"
  /\ transaction_depth > 0
  /\ session' = IF transaction_depth = 1
                THEN AutocommitOn(EndTranRollback(session))
                ELSE session
  /\ transaction_depth' = transaction_depth - 1

(* Mutant: autocommit is turned on before the rollback. *)
HandleRollbackRestoresFirst(r) ==
  /\ r = "ok"
  /\ transaction_depth = 1
  /\ session' = EndTranRollback(AutocommitOn(session))
  /\ transaction_depth' = 0

(* Mutant: autocommit is not turned on again after a rollback. *)
HandleRollbackKeepsManualMode(r) ==
  /\ r = "ok"
  /\ transaction_depth = 1
  /\ session' = EndTranRollback(session)
  /\ transaction_depth' = 0

HandleRollback(r) ==
  \/ /\ transaction_depth = 0
     /\ r = "ok"
     /\ UNCHANGED actorVars
  \/ /\ transaction_depth = 1
     /\ RestoreAutocommit(EndTranRollback(session), r)
  \/ /\ transaction_depth = 1
     /\ r = "err"
     /\ "rollback" \in Faults
     /\ UNCHANGED actorVars
  \/ /\ transaction_depth > 1
     /\ r = "ok"
     /\ HasMark(session.log, transaction_depth - 1)
     /\ session' = RollbackTransaction(session, transaction_depth - 1)
     /\ transaction_depth' = transaction_depth - 1
  \/ /\ transaction_depth > 1
     /\ r = "err"
     /\ \/ "rollback_to" \in Faults
        \/ ~HasMark(session.log, transaction_depth - 1)
     /\ UNCHANGED actorVars

(* The outermost rollback of the Drop path, when the calls in `failed` fail. *)
RollbackIgnoring(failed) ==
  LET ended == IF "rollback" \in failed THEN session ELSE EndTranRollback(session)
  IN  IF "restore" \in failed THEN ended ELSE AutocommitOn(ended)

(* The Drop path: no reply, and every error is thrown away. *)
HandleStartRollback ==
  \/ /\ transaction_depth = 0
     /\ UNCHANGED actorVars
  \/ /\ transaction_depth = 1
     /\ \E failed \in SUBSET (IgnoredFaults \cap {"rollback", "restore"}) :
          session' = RollbackIgnoring(failed)
     /\ transaction_depth' = 0
  \/ /\ transaction_depth > 1
     /\ \/ /\ HasMark(session.log, transaction_depth - 1)
           /\ session' = RollbackTransaction(session, transaction_depth - 1)
        \/ /\ \/ "rollback_to" \in IgnoredFaults
              \/ ~HasMark(session.log, transaction_depth - 1)
           /\ UNCHANGED session
     /\ transaction_depth' = transaction_depth - 1

(* An Execute (or ExecSql) command, for the effect its statement has on    *)
(* the session.                                                            *)
HandleExecute(w) ==
  \/ session' = Execute(session, w) /\ UNCHANGED transaction_depth
  \/ /\ "abort" \in Faults
     /\ ~session.autocommit
     /\ session' = Abort(session)
     /\ UNCHANGED transaction_depth

-----------------------------------------------------------------------------
(* The actor under any sequence of commands, whose statements are of ws. *)
Commands(ws) ==
  \/ /\ Len(session.log) < MaxLog
     /\ transaction_depth < MaxDepth
     /\ \E r \in Result : HandleBegin(r)
  \/ \E r \in Result : HandleCommit(r)
  \/ \E r \in Result : HandleRollback(r)
  \/ HandleStartRollback
  \/ /\ Len(session.log) < MaxLog
     /\ \E w \in ws : HandleExecute(w)

ActorNext == Commands(Work)

ActorSpec == ActorInit /\ [][ActorNext]_actorVars

-----------------------------------------------------------------------------
(* The connection is in manual-commit mode exactly while the actor counts  *)
(* an open transaction, and at depth 0 nothing is pending: what a caller   *)
(* who is outside every transaction executes is durable at once (begin,    *)
(* commit and rollback switch the mode in actor.rs:354, 394 and 427).      *)
ManualModeIffOpen ==
  /\ session.autocommit <=> transaction_depth = 0
  /\ transaction_depth = 0 => session.log = <<>>

(* Whatever fails, reported or not, work done in manual-commit mode becomes *)
(* durable only when the outermost transaction ends: no nested begin,       *)
(* commit or rollback, no ignored failure at a nested level and no begin    *)
(* over a stale mode commits it (actor.rs:365, 402, 435 and 465).           *)
OnlyOutermostCommits ==
  [][session'.durable # session.durable =>
       session.autocommit \/ transaction_depth = 1]_actorVars

(* The savepoints sqlx_sp_1 .. sqlx_sp_m exist, in nesting order. *)
InPlace(log, m) ==
  /\ \A d \in 1..m : HasMark(log, d)
  /\ \A d, e \in 1..m : d < e => LastMark(log, d) < LastMark(log, e)

(* Every open nested transaction still has its savepoint, and the          *)
(* savepoints of the open levels stand in nesting order, whatever          *)
(* same-named marks earlier transactions left in the log.  Otherwise       *)
(* ROLLBACK TRANSACTION sqlx_sp_<d> (actor.rs:435) would fail, or undo     *)
(* more or less than one level.                                            *)
SavepointsInPlace == InPlace(session.log, transaction_depth - 1)

-----------------------------------------------------------------------------
(* The abstract stack: the view the k-th open transaction began with is    *)
(* what would be left if it rolled back now.                               *)
ViewAt(s, k) == IF k = 1 THEN s.durable
                ELSE s.durable \cup WorkUpTo(s.log, LastMark(s.log, k - 1))

Views(s, n) == [k \in 1..n |-> ViewAt(s, k)]

View(s) == s.durable \cup WorkIn(s.log)

Nested == INSTANCE NestedTransactions WITH
            view      <- View(session),
            stack     <- Views(session, transaction_depth),
            committed <- session.durable

(* As long as every failure is reported (none is met by StartRollback) and *)
(* the server aborts no transaction, the actor implements nested           *)
(* transactions: each rollback, nested or not, undoes exactly the work     *)
(* since its own begin, and only an outermost commit makes work durable.   *)
ImplementsNestedTransactions == Nested!Spec

Stutter == UNCHANGED Nested!vars

(* The reply tells the caller what became of its transaction: on Ok the    *)
(* very step it asked for was taken, and not some other step nested        *)
(* transactions allow; on an error nothing happened, or the outermost      *)
(* transaction ended and a fresh one is open.  A dropped transaction,      *)
(* which gets no reply, is rolled back (actor.rs:352-375, 383-404, 413-448 *)
(* and 456-468).                                                           *)
RepliesAreTrue ==
  [][/\ HandleBegin("ok") => Nested!Begin
     /\ HandleBegin("err") => Stutter
     /\ HandleCommit("ok") /\ transaction_depth > 0 => Nested!Commit
     /\ HandleCommit("err") => Nested!CommitAndChain \/ Stutter
     /\ HandleRollback("ok") /\ transaction_depth > 0 => Nested!Rollback
     /\ HandleRollback("err") => Nested!RollbackAndChain \/ Stutter
     /\ HandleStartRollback /\ transaction_depth > 0 => Nested!Rollback]_actorVars
=============================================================================
