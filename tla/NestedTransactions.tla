------------------------- MODULE NestedTransactions -------------------------
(***************************************************************************)
(* What nested transactions on one connection promise, with no channel,    *)
(* actor, savepoint or ODBC attribute in sight.                            *)
(*                                                                         *)
(*   view       the work a query on this connection sees                   *)
(*   stack      for each open transaction, outermost first, the view at    *)
(*              the moment it began                                        *)
(*   committed  the work that survives the connection                      *)
(*                                                                         *)
(* A rollback restores exactly the view its own transaction began with;    *)
(* the commit of a nested transaction hands its work to the enclosing one; *)
(* only the outermost commit makes work durable.                           *)
(***************************************************************************)
EXTENDS Naturals, Sequences

CONSTANT Work

VARIABLES view, stack, committed

vars == <<view, stack, committed>>

(* The transactions around the innermost one. *)
Outer(s) == SubSeq(s, 1, Len(s) - 1)

Init == view = {} /\ stack = <<>> /\ committed = {}

Do(w) == /\ view' = view \cup {w}
         /\ committed' = IF stack = <<>> THEN view' ELSE committed
         /\ UNCHANGED stack

Begin == stack' = Append(stack, view) /\ UNCHANGED <<view, committed>>

Commit == /\ stack # <<>>
          /\ stack' = Outer(stack)
          /\ committed' = IF Len(stack) = 1 THEN view ELSE committed
          /\ UNCHANGED view

Rollback == /\ stack # <<>>
            /\ view' = stack[Len(stack)]
            /\ stack' = Outer(stack)
            /\ UNCHANGED committed

(* A reported failure to leave manual-commit mode: the work is committed   *)
(* or rolled back, and the connection is in a fresh outermost transaction. *)
CommitAndChain == /\ Len(stack) = 1
                  /\ committed' = view
                  /\ stack' = <<view>>
                  /\ UNCHANGED view

RollbackAndChain == /\ Len(stack) = 1
                    /\ view' = stack[1]
                    /\ UNCHANGED <<stack, committed>>

Next == \/ \E w \in Work : Do(w)
        \/ Begin \/ Commit \/ Rollback
        \/ CommitAndChain \/ RollbackAndChain

Spec == Init /\ [][Next]_vars
=============================================================================
