-------------------------- MODULE SqlServerSession --------------------------
(***************************************************************************)
(* The database side of one ODBC connection, as far as the driver's        *)
(* transaction handlers can tell it apart.  It is external to the          *)
(* repository: the operators say what the ODBC calls made by               *)
(* connection/actor.rs do to the session.                                  *)
(*                                                                         *)
(* A session is a record                                                   *)
(*   autocommit  the connection attribute set_autocommit changes           *)
(*   log         what the open transaction has done so far: work items     *)
(*               and savepoint marks, oldest first                         *)
(*   durable     the work items that are committed                         *)
(* A savepoint named sqlx_sp_<n> is the mark of number n.  SQL Server      *)
(* allows several savepoints of one name; a rollback goes to the most      *)
(* recent one, keeps it and forgets every later one.                       *)
(***************************************************************************)
EXTENDS Integers, Sequences

CONSTANT Work    \* the distinguishable effects a statement can have

WorkEntry(w) == [kind |-> "work", item |-> w]
MarkEntry(n) == [kind |-> "mark", item |-> n]

Entry == [kind : {"work"}, item : Work] \cup [kind : {"mark"}, item : Nat]

Session == [autocommit : BOOLEAN, log : Seq(Entry), durable : SUBSET Work]

NewSession == [autocommit |-> TRUE, log |-> <<>>, durable |-> {}]

-----------------------------------------------------------------------------
(* The work items of a transaction log, and those before its i-th entry.   *)
WorkIn(log) == {w \in Work : \E i \in 1..Len(log) : log[i] = WorkEntry(w)}

WorkUpTo(log, i) == {w \in Work : \E j \in 1..i : log[j] = WorkEntry(w)}

IsLastMark(log, n, i) == /\ log[i] = MarkEntry(n)
                         /\ \A j \in (i+1)..Len(log) : log[j] # MarkEntry(n)

HasMark(log, n) == \E i \in 1..Len(log) : IsLastMark(log, n, i)

(* Where the most recent savepoint of that name is. *)
LastMark(log, n) == CHOOSE i \in 1..Len(log) : IsLastMark(log, n, i)

-----------------------------------------------------------------------------
(* A statement with an effect: committed at once under autocommit, part of *)
(* the open transaction otherwise.                                         *)
Execute(s, w) == IF s.autocommit
                 THEN [s EXCEPT !.durable = @ \cup {w}]
                 ELSE [s EXCEPT !.log = Append(@, WorkEntry(w))]

(* SQLEndTran *)
EndTranCommit(s) == [s EXCEPT !.durable = @ \cup WorkIn(s.log), !.log = <<>>]

EndTranRollback(s) == [s EXCEPT !.log = <<>>]

(* set_autocommit: turning it on commits a transaction that is still open. *)
AutocommitOn(s) == [EndTranCommit(s) EXCEPT !.autocommit = TRUE]

AutocommitOff(s) == [s EXCEPT !.autocommit = FALSE]

SaveTransaction(s, n) == [s EXCEPT !.log = Append(@, MarkEntry(n))]

RollbackTransaction(s, n) ==
  [s EXCEPT !.log = SubSeq(@, 1, LastMark(s.log, n))]

(* The server aborts the transaction (deadlock victim): nothing of it, and *)
(* no savepoint, is left; the connection stays in manual-commit mode.      *)
Abort(s) == [s EXCEPT !.log = <<>>]

(* SQLDisconnect on a connection with an open transaction rolls it back.   *)
Disconnect(s) == EndTranRollback(s)
=============================================================================
