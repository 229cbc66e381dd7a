----------------------- MODULE ActorMigrationsProofs -----------------------
(***************************************************************************)
(* Proofs about ActorMigrations: migrations between and inside             *)
(* transactions of the connection's user.  First what each call to the     *)
(* database keeps of a script's batch, then the handlers made of the calls. *)
(***************************************************************************)
EXTENDS ActorMigrations, TransactionActorProofs

(* After a failed batch, ROLLBACK does not fail silently. *)
UndoNeverSilent == "unrolled" \notin MigrationFaults

(* Of script m, the work in ws is its whole batch with the tracking row, or *)
(* nothing.                                                                *)
WholeIn(ws, m) == \A k \in Statements : <<m, k>> \in ws <=> <<m, "row">> \in ws

(* Where a rollback to a savepoint, or of everything, can cut the log.      *)
Cuts(log) ==
  {0} \cup {i \in 1..Len(log) : \E n \in Nat : log[i] = MarkEntry(n)}

(* Where the log of the open transaction can end: a commit takes all of it. *)
Ends(log) == Cuts(log) \cup {Len(log)}

(* Wherever the open transaction ends, script m is durable as a whole with *)
(* its row or not at all.                                                  *)
Accounted(s, m) ==
  /\ WholeIn(s.durable, m)
  /\ \A i \in Ends(s.log) : WholeIn(WorkUpTo(s.log, i), m)

(* The inductive invariant: WholeAndRecorded speaks of what is durable, but *)
(* a commit makes durable what is in the log.                              *)
MigratingInv ==
  /\ ActorTypeOK
  /\ \A m \in Scripts \ (NoTx \cup torn) : Accounted(session, m)

-----------------------------------------------------------------------------
(* What each call to the database keeps of a script that is accounted for. *)

(* The empty transaction, and the whole one. *)
LEMMA EndsOfLog ==
  ASSUME NEW log \in Seq(Entry)
  PROVE  /\ WorkUpTo(log, 0) = {}
         /\ Len(log) \in Ends(log)
         /\ 0 \in Ends(log)
<1>1. Len(log) \in Nat
  OBVIOUS
<1>2. WorkUpTo(log, 0) = {}
  BY DEF WorkUpTo
<1>. QED  BY <1>1, <1>2 DEF Ends, Cuts

(* Committing the open transaction, or throwing it away. *)
LEMMA AccountedEnded ==
  ASSUME NEW s \in Session, NEW t, NEW m, NEW b,
         Accounted(s, m),
         \/ IsSession(t, b, <<>>, s.durable)
         \/ IsSession(t, b, <<>>, s.durable \cup WorkIn(s.log))
  PROVE  Accounted(t, m)
<1>1. s.log \in Seq(Entry) /\ t.log = <<>>
  BY DEF Session, IsSession
<1>2. WholeIn(WorkIn(s.log), m)
  BY <1>1, EndsOfLog, WorkAppended DEF Accounted
<1>3. WholeIn(t.durable, m)
  BY <1>2 DEF Accounted, WholeIn, IsSession
<1>4. ASSUME NEW i \in Ends(t.log)  PROVE WholeIn(WorkUpTo(t.log, i), m)
  <2>1. i = 0 /\ <<>> \in Seq(Entry)
    BY <1>1, <1>4 DEF Ends, Cuts
  <2>. QED  BY <1>1, <2>1, EndsOfLog DEF WholeIn
<1>. QED  BY <1>3, <1>4 DEF Accounted

(* A longer log: nothing is lost, and the only new end is the last one. *)
LEMMA EndsAppended ==
  ASSUME NEW log \in Seq(Entry), NEW e \in Entry, NEW i \in Ends(Append(log, e))
  PROVE  \/ i = Len(log) + 1
         \/ i \in Ends(log) /\ WorkUpTo(Append(log, e), i) = WorkUpTo(log, i)
<1>1. /\ Len(Append(log, e)) = Len(log) + 1 /\ Len(log) \in Nat
      /\ \A j \in 1..Len(log) : Append(log, e)[j] = log[j]
  BY LogBasics
<1>2. CASE i = Len(log) + 1
  BY <1>2
<1>3. CASE i \in 0..Len(log)
  <2>1. i \in Ends(log)
    BY <1>1, <1>3 DEF Ends, Cuts
  <2>. QED  BY <1>3, <2>1, WorkAppended
<1>. QED  BY <1>1, <1>2, <1>3 DEF Ends, Cuts

(* A log is not cut behind work.                                           *)
LEMMA WorkIsNoCut ==
  ASSUME NEW log \in Seq(Entry), NEW w \in Work,
         NEW i \in Cuts(Append(log, WorkEntry(w)))
  PROVE  /\ i \in Cuts(log)
         /\ WorkUpTo(Append(log, WorkEntry(w)), i) = WorkUpTo(log, i)
<1>. DEFINE l == Append(log, WorkEntry(w))
<1>1. /\ l \in Seq(Entry) /\ Len(l) = Len(log) + 1 /\ Len(log) \in Nat
      /\ l[Len(log) + 1] = WorkEntry(w)
      /\ \A j \in 1..Len(log) : l[j] = log[j]
  BY LogBasics, EntriesTyped
<1>2. \A n : WorkEntry(w) # MarkEntry(n)
  BY EntriesDiffer
<1>. HIDE DEF l
<1>3. i # Len(log) + 1
  BY <1>1, <1>2 DEF Cuts, l
<1>4. i \in Cuts(log)
  BY <1>1, <1>3 DEF Cuts, l
<1>5. i \in 0..Len(log)
  BY <1>1, <1>4 DEF Cuts
<1>. QED  BY <1>4, <1>5, WorkAppended, EntriesTyped

(* Work or a savepoint that is not of the script, appended to the log. *)
LEMMA AccountedAppended ==
  ASSUME NEW s \in Session, NEW t, NEW m, NEW e \in Entry,
         IsSession(t, s.autocommit, Append(s.log, e), s.durable),
         Accounted(s, m),
         WholeIn(WorkIn(Append(s.log, e)), m)
  PROVE  Accounted(t, m)
<1>. DEFINE l == Append(s.log, e)
<1>1. /\ s.log \in Seq(Entry) /\ l \in Seq(Entry) /\ Len(l) = Len(s.log) + 1
      /\ t.log = l /\ t.durable = s.durable
  BY LogBasics DEF Session, IsSession
<1>2. WorkUpTo(l, Len(l)) = WorkIn(l)
  BY <1>1, WorkAppended
<1>3. ASSUME NEW i \in Ends(l)  PROVE WholeIn(WorkUpTo(l, i), m)
  <2>1. CASE i = Len(s.log) + 1
    BY <1>1, <1>2, <2>1
  <2>2. CASE i \in Ends(s.log) /\ WorkUpTo(l, i) = WorkUpTo(s.log, i)
    BY <2>2 DEF Accounted
  <2>. QED  BY <1>1, <2>1, <2>2, EndsAppended
<1>. HIDE DEF l
<1>. QED  BY <1>1, <1>3 DEF Accounted

(* A savepoint. *)
LEMMA AccountedSaved ==
  ASSUME NEW s \in Session, NEW n \in Nat, NEW m, Accounted(s, m)
  PROVE  Accounted(SaveTransaction(s, n), m)
<1>1. s.log \in Seq(Entry) /\ MarkEntry(n) \in Entry
  BY EntriesTyped DEF Session
<1>2. WorkIn(Append(s.log, MarkEntry(n))) = WorkIn(s.log)
  BY <1>1, WorkAppended
<1>3. WholeIn(WorkIn(s.log), m)
  BY <1>1, EndsOfLog, WorkAppended DEF Accounted
<1>. QED  BY <1>1, <1>2, <1>3, SaveIs, AccountedAppended

(* Back to a savepoint: the log is cut at one of its ends. *)
LEMMA AccountedCut ==
  ASSUME NEW s \in Session, NEW n \in Nat, HasMark(s.log, n), NEW m,
         Accounted(s, m)
  PROVE  Accounted(RollbackTransaction(s, n), m)
<1>. DEFINE k == LastMark(s.log, n)
            l == SubSeq(s.log, 1, k)
            t == RollbackTransaction(s, n)
<1>1. s.log \in Seq(Entry)
  BY DEF Session
<1>2. k \in 1..Len(s.log) /\ s.log[k] = MarkEntry(n)
  BY <1>1, LastMarkIs DEF IsLastMark
<1>3. /\ l \in Seq(Entry) /\ Len(l) = k /\ \A j \in 1..k : l[j] = s.log[j]
      /\ k \in 0..Len(s.log)
  BY <1>1, <1>2, LogBasics
<1>4. t.log = l /\ t.durable = s.durable
  BY RollbackToIs DEF IsSession
<1>5. ASSUME NEW i \in Ends(l)
      PROVE  i \in Ends(s.log) /\ WorkUpTo(l, i) = WorkUpTo(s.log, i)
  <2>1. i \in 0..k
    BY <1>3, <1>5 DEF Ends, Cuts
  <2>2. CASE i = 0
    BY <1>1, <1>3, <2>2, EndsOfLog
  <2>3. CASE i = k
    BY <1>1, <1>2, <1>3, <2>3, WorkCut DEF Ends, Cuts
  <2>4. CASE i # 0 /\ i # k
    <3>1. i \in 1..k /\ \E j \in Nat : l[i] = MarkEntry(j)
      BY <1>3, <1>5, <2>1, <2>4 DEF Ends, Cuts
    <3>2. i \in 0..Len(s.log) /\ i \in 1..Len(s.log) /\ \E j \in Nat : s.log[i] = MarkEntry(j)
      BY <1>2, <1>3, <3>1
    <3>3. i \in Ends(s.log)
      BY <3>2 DEF Ends, Cuts
    <3>. QED  BY <1>1, <1>3, <2>1, <3>3, WorkCut
  <2>. QED  BY <2>2, <2>3, <2>4
<1>. HIDE DEF l, t
<1>6. WholeIn(t.durable, m)
  BY <1>4 DEF Accounted
<1>7. \A i \in Ends(t.log) : WholeIn(WorkUpTo(t.log, i), m)
  BY <1>4, <1>5 DEF Accounted
<1>8. Accounted(t, m)
  BY <1>6, <1>7 DEF Accounted
<1>. QED  BY <1>8 DEF t

(* A statement that is not of the script. *)
LEMMA AccountedExecuted ==
  ASSUME NEW s \in Session, NEW w \in Work, NEW m, Accounted(s, m),
         w \notin {m} \X (Statements \cup {"row"})
  PROVE  Accounted(Execute(s, w), m)
<1>1. s.log \in Seq(Entry) /\ WorkEntry(w) \in Entry
  BY EntriesTyped DEF Session
<1>2. ASSUME NEW ws, WholeIn(ws, m)  PROVE WholeIn(ws \cup {w}, m)
  BY <1>2 DEF WholeIn, Statements
<1>3. CASE s.autocommit
  <2>1. /\ Execute(s, w).log = s.log
        /\ Execute(s, w).durable = s.durable \cup {w}
    BY <1>3, ExecuteIs DEF IsSession
  <2>2. WholeIn(Execute(s, w).durable, m)
    BY <1>2, <2>1 DEF Accounted
  <2>. QED  BY <2>1, <2>2 DEF Accounted
<1>4. CASE ~s.autocommit
  <2>1. WorkIn(Append(s.log, WorkEntry(w))) = WorkIn(s.log) \cup {w}
    BY <1>1, WorkAppended
  <2>2. WholeIn(WorkIn(s.log), m)
    BY <1>1, EndsOfLog, WorkAppended DEF Accounted
  <2>3. IsSession(Execute(s, w), s.autocommit, Append(s.log, WorkEntry(w)), s.durable)
    <3>1. s.autocommit = FALSE
      BY <1>4 DEF Session
    <3>. QED  BY <1>4, <3>1, ExecuteIs
  <2>4. WholeIn(WorkIn(Append(s.log, WorkEntry(w))), m)
    BY <1>2, <2>1, <2>2
  <2>. QED  BY <1>1, <2>3, <2>4, AccountedAppended
<1>. QED  BY <1>3, <1>4

(* Ending the transaction, by any call that does. *)
LEMMA AccountedCalls ==
  ASSUME NEW s \in Session, NEW m, Accounted(s, m)
  PROVE  /\ EndTranCommit(s) \in Session /\ Accounted(EndTranCommit(s), m)
         /\ EndTranRollback(s) \in Session /\ Accounted(EndTranRollback(s), m)
         /\ AutocommitOn(s) \in Session /\ Accounted(AutocommitOn(s), m)
         /\ AutocommitOff(s) \in Session /\ Accounted(AutocommitOff(s), m)
         /\ Abort(s) \in Session /\ Accounted(Abort(s), m)
<1>1. EndTranCommit(s) \in Session /\ Accounted(EndTranCommit(s), m)
  BY EndTranIs, AccountedEnded DEF IsSession
<1>2. EndTranRollback(s) \in Session /\ Accounted(EndTranRollback(s), m)
  BY EndTranIs, AccountedEnded DEF IsSession
<1>3. AutocommitOn(s) \in Session /\ Accounted(AutocommitOn(s), m)
  BY AutocommitIs, AccountedEnded DEF IsSession
<1>4. AutocommitOff(s) \in Session /\ Accounted(AutocommitOff(s), m)
  BY AutocommitIs DEF IsSession, Accounted
<1>5. Abort(s) = EndTranRollback(s)
  BY DEF Abort, EndTranRollback
<1>. QED  BY <1>1, <1>2, <1>3, <1>4, <1>5

-----------------------------------------------------------------------------
(* What the batch leaves. *)

(* Statements run in manual mode leave manual mode, and touch nothing      *)
(* durable.                                                                *)
LEMMA BatchTyped ==
  ASSUME NEW s \in Session, NEW m \in Scripts, NEW done \in SUBSET Statements
  PROVE  /\ RanBatch(s, m, done) \in Session
         /\ RanBatch(s, m, done).autocommit = s.autocommit
         /\ s.autocommit => RanBatch(s, m, done).log = s.log
         /\ ~s.autocommit => RanBatch(s, m, done).durable = s.durable
<1>. DEFINE first == IF "first" \in done THEN Execute(s, <<m, "first">>) ELSE s
<1>1. <<m, "first">> \in Work /\ <<m, "second">> \in Work
  BY MigrationsAssumption DEF MigrationWork, Statements
<1>2. ASSUME NEW q \in Session, NEW w \in Work
      PROVE  /\ Execute(q, w) \in Session
             /\ Execute(q, w).autocommit = q.autocommit
             /\ q.autocommit => Execute(q, w).log = q.log
             /\ ~q.autocommit => Execute(q, w).durable = q.durable
  <2>1. q.autocommit \in BOOLEAN
    BY DEF Session
  <2>. QED  BY <2>1, ExecuteIs DEF IsSession
<1>3. /\ first \in Session /\ first.autocommit = s.autocommit
      /\ s.autocommit => first.log = s.log
      /\ ~s.autocommit => first.durable = s.durable
  BY <1>1, <1>2
<1>4. RanBatch(s, m, done) =
        IF "second" \in done THEN Execute(first, <<m, "second">>) ELSE first
  BY DEF RanBatch
<1>. HIDE DEF first
<1>. QED  BY <1>1, <1>2, <1>3, <1>4

(* The statements of another script. *)
LEMMA AccountedBatch ==
  ASSUME NEW s \in Session, NEW m \in Scripts, NEW n \in Scripts, n # m,
         NEW done \in SUBSET Statements, Accounted(s, m)
  PROVE  Accounted(RanBatch(s, n, done), m)
<1>. DEFINE first == IF "first" \in done THEN Execute(s, <<n, "first">>) ELSE s
<1>1. <<n, "first">> \in Work /\ <<n, "second">> \in Work
  BY MigrationsAssumption DEF MigrationWork, Statements
<1>2. first \in Session /\ Accounted(first, m)
  <2>1. Execute(s, <<n, "first">>) \in Session
    BY <1>1, ExecuteIs DEF IsSession, Session
  <2>2. Accounted(Execute(s, <<n, "first">>), m)
    BY <1>1, AccountedExecuted
  <2>. QED  BY <2>1, <2>2
<1>3. RanBatch(s, n, done) =
        IF "second" \in done THEN Execute(first, <<n, "second">>) ELSE first
  BY DEF RanBatch
<1>. HIDE DEF first
<1>4. Accounted(Execute(first, <<n, "second">>), m)
  BY <1>1, <1>2, AccountedExecuted
<1>. QED  BY <1>2, <1>3, <1>4

(* The whole batch of the script in a transaction, and its tracking row:   *)
(* no savepoint stands between them.                                       *)
LEMMA AccountedRecorded ==
  ASSUME NEW s \in Session, ~s.autocommit, NEW m \in Scripts, Accounted(s, m)
  PROVE  Accounted(Execute(RanBatch(s, m, Statements), <<m, "row">>), m)
<1>. DEFINE a == <<m, "first">>
            b == <<m, "second">>
            c == <<m, "row">>
            s1 == Execute(s, a)
            s2 == Execute(s1, b)
            s3 == Execute(s2, c)
            l1 == Append(s.log, WorkEntry(a))
            l2 == Append(l1, WorkEntry(b))
            l3 == Append(l2, WorkEntry(c))
<1>1. a \in Work /\ b \in Work /\ c \in Work
  BY MigrationsAssumption DEF MigrationWork, Statements
<1>2. RanBatch(s, m, Statements) = s2
  BY DEF RanBatch, Statements
<1>. HIDE DEF a, b, c
<1>3. IsSession(s1, FALSE, l1, s.durable)
  BY <1>1, ExecuteIs
<1>4. IsSession(s2, FALSE, l2, s.durable)
  <2>. HIDE DEF s1
  <2>1. IsSession(Execute(s1, b), FALSE, Append(s1.log, WorkEntry(b)), s1.durable)
    BY <1>1, <1>3, ExecuteIs DEF IsSession
  <2>. QED  BY <1>3, <2>1 DEF IsSession
<1>5. IsSession(s3, FALSE, l3, s.durable)
  <2>. HIDE DEF s2
  <2>1. IsSession(Execute(s2, c), FALSE, Append(s2.log, WorkEntry(c)), s2.durable)
    BY <1>1, <1>4, ExecuteIs DEF IsSession
  <2>. QED  BY <1>4, <2>1 DEF IsSession
<1>6. /\ s.log \in Seq(Entry) /\ WorkEntry(a) \in Entry
      /\ WorkEntry(b) \in Entry /\ WorkEntry(c) \in Entry
  BY <1>1, EntriesTyped DEF Session
<1>7. /\ l1 \in Seq(Entry) /\ Len(l1) = Len(s.log) + 1 /\ l1[Len(s.log) + 1] = WorkEntry(a)
      /\ WorkIn(l1) = WorkIn(s.log) \cup {a}
  BY <1>1, <1>6, LogBasics, WorkAppended
<1>8. /\ l2 \in Seq(Entry) /\ Len(l2) = Len(l1) + 1
      /\ WorkIn(l2) = WorkIn(l1) \cup {b}
  <2>. HIDE DEF l1
  <2>. QED  BY <1>1, <1>6, <1>7, LogBasics, WorkAppended
<1>9. /\ l3 \in Seq(Entry) /\ Len(l3) = Len(l2) + 1
      /\ WorkIn(l3) = WorkIn(l2) \cup {c}
  <2>. HIDE DEF l2
  <2>. QED  BY <1>1, <1>6, <1>8, LogBasics, WorkAppended
<1>10. WholeIn(WorkIn(l3), m)
  BY <1>7, <1>8, <1>9 DEF WholeIn, Statements, a, b, c
<1>11. ASSUME NEW i \in Cuts(l3)  PROVE WholeIn(WorkUpTo(l3, i), m)
  <2>1. i \in Cuts(l2) /\ WorkUpTo(l3, i) = WorkUpTo(l2, i)
    <3>. HIDE DEF l2
    <3>. QED  BY <1>1, <1>8, <1>11, WorkIsNoCut
  <2>2. i \in Cuts(l1) /\ WorkUpTo(l2, i) = WorkUpTo(l1, i)
    <3>. HIDE DEF l1
    <3>. QED  BY <1>1, <1>7, <2>1, WorkIsNoCut
  <2>3. i \in Cuts(s.log) /\ WorkUpTo(l1, i) = WorkUpTo(s.log, i)
    BY <1>1, <1>6, <2>2, WorkIsNoCut
  <2>4. WholeIn(WorkUpTo(s.log, i), m)
    BY <2>3 DEF Accounted, Ends
  <2>. QED  BY <2>1, <2>2, <2>3, <2>4
<1>. HIDE DEF l1, l2, l3, s1, s2, s3
<1>12. s3.log = l3 /\ s3.durable = s.durable
  BY <1>5 DEF IsSession
<1>13. \A i \in Ends(l3) : WholeIn(WorkUpTo(l3, i), m)
  BY <1>9, <1>10, <1>11, WorkAppended DEF Ends
<1>14. Accounted(s3, m)
  BY <1>12, <1>13 DEF Accounted
<1>. QED  BY <1>2, <1>14 DEF s3, c

-----------------------------------------------------------------------------
(* What a command of the connection's user does to the session: nothing, or *)
(* some call to the database, or the two that end a transaction.           *)
UserCall(s, t, ws) ==
  \/ t \in {s, EndTranCommit(s), EndTranRollback(s), Abort(s),
            AutocommitOff(s), AutocommitOn(s),
            AutocommitOn(EndTranCommit(s)), AutocommitOn(EndTranRollback(s))}
  \/ \E n \in Nat : t = SaveTransaction(s, n)
  \/ \E n \in Nat : HasMark(s.log, n) /\ t = RollbackTransaction(s, n)
  \/ \E w \in ws : t = Execute(s, w)

(* Every handler of TransactionActor makes such a call. *)
LEMMA CommandCalls ==
  ASSUME ActorTypeOK, NEW ws \in SUBSET Work, Commands(ws)
  PROVE  UserCall(session, session', ws)
<1>0. transaction_depth \in Nat
  BY DEF ActorTypeOK
<1>1. ASSUME NEW r, HandleBegin(r)  PROVE UserCall(session, session', ws)
  BY <1>0, <1>1 DEF HandleBegin, UserCall, actorVars
<1>2. ASSUME NEW r, NEW ended \in {EndTranCommit(session), EndTranRollback(session)},
             RestoreAutocommit(ended, r)
      PROVE  UserCall(session, session', ws)
  BY <1>2 DEF RestoreAutocommit, UserCall
<1>3. ASSUME NEW r, HandleCommit(r)  PROVE UserCall(session, session', ws)
  <2>1. CASE RestoreAutocommit(EndTranCommit(session), r)
    BY <1>2, <2>1
  <2>2. CASE session' = session
    BY <2>2 DEF UserCall
  <2>. QED  BY <1>3, <2>1, <2>2 DEF HandleCommit, actorVars
<1>4. ASSUME transaction_depth > 1, HasMark(session.log, transaction_depth - 1),
             session' = RollbackTransaction(session, transaction_depth - 1)
      PROVE  UserCall(session, session', ws)
  <2>1. transaction_depth - 1 \in Nat
    BY <1>0, <1>4
  <2>. QED  BY <1>4, <2>1 DEF UserCall
<1>5. ASSUME NEW r, HandleRollback(r)  PROVE UserCall(session, session', ws)
  <2>1. CASE RestoreAutocommit(EndTranRollback(session), r)
    BY <1>2, <2>1
  <2>2. CASE session' = session
    BY <2>2 DEF UserCall
  <2>. QED  BY <1>4, <1>5, <2>1, <2>2 DEF HandleRollback, actorVars
<1>6. ASSUME HandleStartRollback  PROVE UserCall(session, session', ws)
  <2>1. CASE session' = session
    BY <2>1 DEF UserCall
  <2>2. ASSUME NEW failed, session' = RollbackIgnoring(failed)
        PROVE  UserCall(session, session', ws)
    BY <2>2 DEF RollbackIgnoring, UserCall
  <2>. QED  BY <1>4, <1>6, <2>1, <2>2 DEF HandleStartRollback, actorVars
<1>7. ASSUME NEW w \in ws, HandleExecute(w)  PROVE UserCall(session, session', ws)
  BY <1>7 DEF HandleExecute, UserCall
<1>. QED  BY <1>1, <1>3, <1>5, <1>6, <1>7 DEF Commands

(* The user's own commands keep every script accounted for. *)
LEMMA AccountedByUser ==
  ASSUME ActorTypeOK, Commands(Work \ MigrationWork),
         NEW m \in Scripts, Accounted(session, m)
  PROVE  Accounted(session', m)
<1>0. session \in Session
  BY DEF ActorTypeOK
<1>1. UserCall(session, session', Work \ MigrationWork)
  BY CommandCalls
<1>2. CASE session' \in {session, EndTranCommit(session), EndTranRollback(session),
                         Abort(session), AutocommitOff(session), AutocommitOn(session)}
  BY <1>0, <1>2, AccountedCalls
<1>3. CASE session' \in {AutocommitOn(EndTranCommit(session)),
                         AutocommitOn(EndTranRollback(session))}
  <2>1. PICK q \in Session : Accounted(q, m) /\ session' = AutocommitOn(q)
    BY <1>0, <1>3, AccountedCalls
  <2>. QED  BY <2>1, AccountedCalls
<1>4. CASE \E n \in Nat : session' = SaveTransaction(session, n)
  BY <1>0, <1>4, AccountedSaved
<1>5. CASE \E n \in Nat : /\ HasMark(session.log, n)
                          /\ session' = RollbackTransaction(session, n)
  BY <1>0, <1>5, AccountedCut
<1>6. CASE \E w \in Work \ MigrationWork : session' = Execute(session, w)
  <2>1. PICK w \in Work : w \notin MigrationWork /\ session' = Execute(session, w)
    BY <1>6
  <2>2. w \notin {m} \X (Statements \cup {"row"})
    BY <2>1 DEF MigrationWork
  <2>. QED  BY <1>0, <2>1, <2>2, AccountedExecuted
<1>. QED  BY <1>1, <1>2, <1>3, <1>4, <1>5, <1>6 DEF UserCall

-----------------------------------------------------------------------------
(* Executing statements, rolling back or committing them: what stays of a  *)
(* session's type and commit mode.                                         *)
LEMMA RowTyped ==
  ASSUME NEW s \in Session, NEW m \in Scripts
  PROVE  /\ Execute(s, <<m, "row">>) \in Session
         /\ Execute(s, <<m, "row">>).autocommit = s.autocommit
         /\ s.autocommit => Execute(s, <<m, "row">>).log = s.log
<1>1. <<m, "row">> \in Work
  BY MigrationsAssumption DEF MigrationWork
<1>2. s.autocommit \in BOOLEAN
  BY DEF Session
<1>. QED  BY <1>1, <1>2, ExecuteIs DEF IsSession

(* An aborted transaction, or one that survived the failure. *)
LEMMA SurvivesIs ==
  ASSUME NEW s \in Session, NEW t \in Survives(s)
  PROVE  /\ t \in Session
         /\ s.autocommit => t = s
         /\ \A m : Accounted(s, m) => Accounted(t, m)
<1>1. t \in {s, Abort(s)} /\ (s.autocommit => t = s)
  BY DEF Survives
<1>2. Abort(s) \in Session
  BY EndTranIs DEF Abort, EndTranRollback, IsSession
<1>. QED  BY <1>1, <1>2, AccountedCalls

(* What is left of a session after a failed batch. *)
LEMMA AbandonedIs ==
  ASSUME NEW s \in Session, NEW failed
  PROVE  /\ Abandoned(s, failed) \in Session
         /\ "unrestored" \notin failed =>
              Abandoned(s, failed).autocommit /\ Abandoned(s, failed).log = <<>>
         /\ \A m : Accounted(s, m) => Accounted(Abandoned(s, failed), m)
         /\ "unrolled" \notin failed =>
              /\ Abandoned(s, failed).durable = s.durable
              /\ Abandoned(s, failed).log = <<>>
<1>. DEFINE ended == IF "unrolled" \in failed THEN s ELSE EndTranRollback(s)
<1>1. /\ ended \in Session
      /\ \A m : Accounted(s, m) => Accounted(ended, m)
      /\ "unrolled" \notin failed => ended.durable = s.durable /\ ended.log = <<>>
  BY EndTranIs, AccountedCalls DEF IsSession
<1>2. Abandoned(s, failed) = IF "unrestored" \in failed THEN ended ELSE AutocommitOn(ended)
  BY DEF Abandoned
<1>. HIDE DEF ended
<1>3. /\ AutocommitOn(ended) \in Session
      /\ AutocommitOn(ended).autocommit /\ AutocommitOn(ended).log = <<>>
      /\ AutocommitOn(ended).durable = ended.durable \cup WorkIn(ended.log)
  BY <1>1, AutocommitIs DEF IsSession
<1>4. \A m : Accounted(ended, m) => Accounted(AutocommitOn(ended), m)
  BY <1>1, AccountedCalls
<1>5. "unrolled" \notin failed => AutocommitOn(ended).durable = s.durable
  BY <1>1, <1>3, EmptyLogHasNoWork
<1>. QED  BY <1>1, <1>2, <1>3, <1>4, <1>5

-----------------------------------------------------------------------------
(* The two migration handlers. *)

(* A script in a transaction, in manual mode throughout. *)
LEMMA TxIs ==
  ASSUME ActorTypeOK, left \in BOOLEAN, NEW m \in Scripts, NEW r \in Result,
         HandleMigrationTx(m, r)
  PROVE  /\ session' \in Session /\ UNCHANGED transaction_depth
         /\ left' \in BOOLEAN /\ torn \subseteq torn'
         /\ \/ left' \/ (session'.autocommit /\ session'.log = <<>>)
            \/ UNCHANGED <<session, left>>
         /\ UndoNeverSilent =>
              \A n \in Scripts \ torn' : Accounted(session, n) => Accounted(session', n)
<1>. DEFINE Clean == session'.autocommit /\ session'.log = <<>>
            Whole == \A n \in Scripts \ torn' :
                       Accounted(session, n) => Accounted(session', n)
            begun    == AutocommitOff(session)
            ran      == RanBatch(begun, m, Statements)
            recorded == Execute(ran, <<m, "row">>)
<1>0. session \in Session
  BY DEF ActorTypeOK
<1>1. /\ begun \in Session /\ ~begun.autocommit
      /\ \A n : Accounted(session, n) => Accounted(begun, n)
  BY <1>0, AutocommitIs, AccountedCalls DEF IsSession
<1>2. begun.durable = session.durable /\ begun.log = session.log
  BY <1>0, AutocommitIs DEF IsSession
<1>. HIDE DEF begun
<1>3. ran \in Session /\ ~ran.autocommit
  BY <1>1, BatchTyped
<1>4. recorded \in Session
  <2>. HIDE DEF ran
  <2>. QED  BY <1>3, RowTyped
<1>5. \A n \in Scripts : n # m /\ Accounted(session, n) => Accounted(ran, n)
  BY <1>1, AccountedBatch
<1>6. \A n \in Scripts : Accounted(session, n) => Accounted(recorded, n)
  <2>1. ASSUME NEW n \in Scripts, n # m, Accounted(session, n)
        PROVE  Accounted(recorded, n)
    <3>1. Accounted(ran, n)
      BY <1>5, <2>1
    <3>2. <<m, "row">> \in Work /\ <<m, "row">> \notin {n} \X (Statements \cup {"row"})
      BY <2>1, MigrationsAssumption DEF MigrationWork
    <3>. HIDE DEF ran
    <3>. QED  BY <1>3, <3>1, <3>2, AccountedExecuted
  <2>2. Accounted(session, m) => Accounted(recorded, m)
    BY <1>1, AccountedRecorded
  <2>. QED  BY <2>1, <2>2
<1>. HIDE DEF ran, recorded
<1>7. ASSUME NEW done \in SUBSET Statements, NEW failed,
             session' = Abandoned(RanBatch(begun, m, done), failed),
             left' = (left \/ "unrestored" \in failed)
      PROVE  /\ session' \in Session /\ left' \in BOOLEAN /\ (left' \/ Clean)
             /\ "unrolled" \notin failed => Whole
  <2>. DEFINE q == RanBatch(begun, m, done)
  <2>1. q \in Session /\ q.durable = session.durable
    BY <1>1, <1>2, BatchTyped
  <2>. HIDE DEF q
  <2>2. /\ session' \in Session
        /\ "unrestored" \notin failed => Clean
        /\ "unrolled" \notin failed => session'.durable = session.durable
                                       /\ session'.log = <<>>
    BY <1>7, <2>1, AbandonedIs DEF q
  <2>3. ASSUME "unrolled" \notin failed  PROVE Whole
    <3>1. IsSession(session', session'.autocommit, <<>>, session.durable)
      BY <2>2, <2>3 DEF IsSession
    <3>. QED  BY <1>0, <3>1, AccountedEnded
  <2>4. left' \in BOOLEAN /\ (left' \/ "unrestored" \notin failed)
    BY <1>7
  <2>. QED  BY <2>2, <2>3, <2>4
<1>8. ASSUME session' \in Survives(ran), torn' = torn \cup {m}
      PROVE  session' \in Session /\ Whole
  <2>1. \A n \in Scripts \ torn' : n # m
    BY <1>8
  <2>. QED  BY <1>3, <1>5, <1>8, <2>1, SurvivesIs
<1>9. ASSUME session' \in {recorded, EndTranCommit(recorded)}
      PROVE  session' \in Session /\ Whole
  BY <1>4, <1>6, <1>9, AccountedCalls, EndTranIs DEF IsSession
<1>10. ASSUME session' = AutocommitOn(EndTranCommit(recorded))
       PROVE  session' \in Session /\ Clean /\ Whole
  <2>1. session' \in Session /\ Clean
    BY <1>4, <1>10, EndedIs DEF IsSession
  <2>2. EndTranCommit(recorded) \in Session
    BY <1>4, EndTranIs DEF IsSession
  <2>3. ASSUME NEW n \in Scripts, Accounted(session, n)  PROVE Accounted(session', n)
    <3>1. Accounted(EndTranCommit(recorded), n)
      BY <1>4, <1>6, <2>3, AccountedCalls
    <3>. QED  BY <1>10, <2>2, <3>1, AccountedCalls
  <2>. QED  BY <2>1, <2>3
<1>11. CASE UNCHANGED <<session, torn, left>>
  BY <1>0, <1>11 DEF HandleMigrationTx
<1>12. ASSUME NEW done \in (SUBSET Statements) \ {Statements},
              NEW failed \in SUBSET (MigrationFaults \cap {"unrolled", "unrestored"}),
              session' = Abandoned(RanBatch(begun, m, done), failed),
              left' = (left \/ "unrestored" \in failed), UNCHANGED torn
       PROVE  /\ session' \in Session /\ left' \in BOOLEAN /\ torn \subseteq torn'
              /\ left' \/ Clean
              /\ UndoNeverSilent => Whole
  <2>1. UndoNeverSilent => "unrolled" \notin failed
    BY DEF UndoNeverSilent
  <2>2. torn \subseteq torn' /\ done \in SUBSET Statements
    BY <1>12
  <2>. HIDE DEF Clean, Whole
  <2>3. /\ session' \in Session /\ left' \in BOOLEAN /\ (left' \/ Clean)
        /\ "unrolled" \notin failed => Whole
    BY <1>7, <1>12, <2>2
  <2>4. UndoNeverSilent => Whole
    BY <2>1, <2>3, Zenon
  <2>. QED  BY <2>2, <2>3, <2>4, Zenon
<1>13. UNCHANGED transaction_depth
  BY DEF HandleMigrationTx
<1>14. \/ UNCHANGED <<session, torn, left>>
       \/ /\ \E done \in (SUBSET Statements) \ {Statements},
                failed \in SUBSET (MigrationFaults \cap {"unrolled", "unrestored"}) :
               /\ session' = Abandoned(RanBatch(begun, m, done), failed)
               /\ left' = (left \/ "unrestored" \in failed)
          /\ UNCHANGED torn
       \/ session' \in Survives(ran) /\ torn' = torn \cup {m} /\ left' = TRUE
       \/ session' \in {recorded, EndTranCommit(recorded)} /\ left' = TRUE /\ UNCHANGED torn
       \/ session' = AutocommitOn(EndTranCommit(recorded)) /\ left' = FALSE /\ UNCHANGED torn
  BY DEF HandleMigrationTx, begun, ran, recorded
<1>15. \/ UNCHANGED <<session, torn, left>>
       \/ /\ session' \in Session /\ left' \in BOOLEAN /\ torn \subseteq torn'
          /\ left' \/ Clean
          /\ UndoNeverSilent => Whole
  <2>. HIDE DEF Clean, Whole
  <2>. QED  BY <1>8, <1>9, <1>10, <1>12, <1>14
<1>. QED  BY <1>11, <1>13, <1>15

(* A script outside one: in the mode the connection is in.                 *)
LEMMA NoTxIs ==
  ASSUME ActorTypeOK, NEW m \in Scripts, NEW r \in Result,
         HandleMigrationNoTx(m, r)
  PROVE  /\ session' \in Session /\ UNCHANGED <<transaction_depth, left, torn>>
         /\ session.autocommit => session'.autocommit /\ session'.log = session.log
         /\ \A n \in Scripts \ NoTx : Accounted(session, n) => Accounted(session', n)
<1>0. session \in Session
  BY DEF ActorTypeOK
<1>1. ASSUME NEW done \in SUBSET Statements, NEW t \in Survives(RanBatch(session, m, done))
      PROVE  /\ t \in Session
             /\ session.autocommit => t.autocommit /\ t.log = session.log
             /\ \A n \in Scripts \ NoTx : Accounted(session, n) => Accounted(t, n)
  <2>. DEFINE q == RanBatch(session, m, done)
  <2>1. /\ q \in Session /\ q.autocommit = session.autocommit
        /\ session.autocommit => q.log = session.log
    BY <1>0, BatchTyped
  <2>2. \A n \in Scripts \ NoTx : n # m
    BY DEF HandleMigrationNoTx
  <2>3. \A n \in Scripts \ NoTx : Accounted(session, n) => Accounted(q, n)
    BY <1>0, <2>2, AccountedBatch
  <2>4. t \in Survives(q)
    OBVIOUS
  <2>. HIDE DEF q
  <2>. QED  BY <2>1, <2>3, <2>4, SurvivesIs
<1>2. ASSUME session' = Execute(RanBatch(session, m, Statements), <<m, "row">>)
      PROVE  /\ session' \in Session
             /\ session.autocommit => session'.autocommit /\ session'.log = session.log
             /\ \A n \in Scripts \ NoTx : Accounted(session, n) => Accounted(session', n)
  <2>. DEFINE q == RanBatch(session, m, Statements)
  <2>1. q \in Session /\ q.autocommit = session.autocommit
        /\ (session.autocommit => q.log = session.log)
    BY <1>0, BatchTyped
  <2>2. ASSUME NEW n \in Scripts \ NoTx, Accounted(session, n)
        PROVE  Accounted(session', n)
    <3>1. n # m
      BY DEF HandleMigrationNoTx
    <3>2. Accounted(q, n)
      BY <1>0, <2>2, <3>1, AccountedBatch
    <3>3. <<m, "row">> \in Work /\ <<m, "row">> \notin {n} \X (Statements \cup {"row"})
      BY <3>1, MigrationsAssumption DEF MigrationWork
    <3>4. session' = Execute(q, <<m, "row">>)
      BY <1>2
    <3>. HIDE DEF q
    <3>. QED  BY <2>1, <3>2, <3>3, <3>4, AccountedExecuted
  <2>3. session' = Execute(q, <<m, "row">>)
    BY <1>2
  <2>. HIDE DEF q
  <2>. QED  BY <2>1, <2>2, <2>3, RowTyped
<1>3. \/ \E done \in SUBSET Statements : session' \in Survives(RanBatch(session, m, done))
      \/ session' = Execute(RanBatch(session, m, Statements), <<m, "row">>)
  BY DEF HandleMigrationNoTx
<1>4. UNCHANGED <<transaction_depth, left, torn>>
  BY DEF HandleMigrationNoTx
<1>. QED  BY <1>1, <1>2, <1>3, <1>4

-----------------------------------------------------------------------------
(* Types, and the depth, session and mode of a state at rest. *)
MigratingTypes == ActorTypeOK /\ left \in BOOLEAN

(* The first state. *)
LEMMA MigratingStart ==
  ASSUME MigratingInit
  PROVE  MigratingTypes /\ CleanAtRest /\ MigratingInv
<1>1. /\ transaction_depth = 0 /\ left = FALSE
      /\ session \in Session /\ session.autocommit = TRUE /\ session.log = <<>>
      /\ session.durable = {}
  BY DEF MigratingInit, ActorInit, NewSession, Session
<1>2. MigratingTypes
  BY <1>1 DEF MigratingTypes, ActorTypeOK
<1>3. CleanAtRest
  BY <1>1 DEF CleanAtRest
<1>4. ASSUME NEW m  PROVE Accounted(session, m)
  <2>1. Ends(<<>>) = {0}
    BY DEF Ends, Cuts
  <2>2. Ends(<<>>) = {0} /\ WorkUpTo(<<>>, 0) = {}
    BY <2>1 DEF WorkUpTo
  <2>. QED  BY <1>1, <2>2 DEF Accounted, WholeIn
<1>. QED  BY <1>2, <1>3, <1>4 DEF MigratingInv, MigratingTypes

(* Types are kept, whatever fails. *)
LEMMA MigratingTypesStep ==
  ASSUME MigratingTypes, [MigratingNext]_migratingVars
  PROVE  MigratingTypes'
<1>1. CASE Transact
  <2>1. ActorNext /\ left' \in BOOLEAN
    BY <1>1 DEF Transact, ActorNext, Commands, MigratingTypes
  <2>2. ActorTypeOK'
    BY <2>1, TypeStep, NextIsHandled DEF MigratingTypes
  <2>. QED  BY <2>1, <2>2 DEF MigratingTypes
<1>2. ASSUME NEW m \in Scripts, NEW r \in Result,
             HandleMigrationTx(m, r) \/ HandleMigrationNoTx(m, r)
      PROVE  MigratingTypes'
  <2>1. session' \in Session /\ UNCHANGED transaction_depth /\ left' \in BOOLEAN
    BY <1>2, TxIs, NoTxIs DEF MigratingTypes
  <2>. QED  BY <2>1 DEF MigratingTypes, ActorTypeOK
<1>3. CASE UNCHANGED migratingVars
  BY <1>3 DEF migratingVars, MigratingTypes, ActorTypeOK
<1>. QED  BY <1>1, <1>2, <1>3 DEF MigratingNext, Migrate

(* Scripts stay accounted for, unless a ROLLBACK fails silently. *)
LEMMA MigratingInvStep ==
  ASSUME UndoNeverSilent, MigratingTypes, MigratingInv,
         [MigratingNext]_migratingVars
  PROVE  MigratingInv'
<1>1. ActorTypeOK'
  BY MigratingTypesStep DEF MigratingTypes
<1>2. ActorTypeOK /\ left \in BOOLEAN
  BY DEF MigratingTypes
<1>3. CASE Transact
  <2>1. \A m \in Scripts : Accounted(session, m) => Accounted(session', m)
    BY <1>2, <1>3, AccountedByUser DEF Transact
  <2>. QED  BY <1>1, <1>3, <2>1 DEF Transact, MigratingInv
<1>4. ASSUME NEW m \in Scripts, NEW r \in Result, HandleMigrationTx(m, r)
      PROVE  MigratingInv'
  <2>1. /\ torn \subseteq torn'
        /\ \A n \in Scripts \ torn' : Accounted(session, n) => Accounted(session', n)
    BY <1>2, <1>4, TxIs
  <2>. QED  BY <1>1, <2>1 DEF MigratingInv
<1>5. ASSUME NEW m \in Scripts, NEW r \in Result, HandleMigrationNoTx(m, r)
      PROVE  MigratingInv'
  <2>1. /\ torn' = torn
        /\ \A n \in Scripts \ NoTx : Accounted(session, n) => Accounted(session', n)
    BY <1>2, <1>5, NoTxIs
  <2>. QED  BY <1>1, <2>1 DEF MigratingInv
<1>6. CASE UNCHANGED migratingVars
  BY <1>1, <1>6 DEF migratingVars, MigratingInv
<1>. QED  BY <1>3, <1>4, <1>5, <1>6 DEF MigratingNext, Migrate

(* At rest the connection stays in autocommit mode with nothing pending,   *)
(* if StartRollback always manages to turn autocommit on.                  *)
LEMMA CleanStep ==
  ASSUME RestoreNeverSilent, MigratingTypes, CleanAtRest,
         [MigratingNext]_migratingVars
  PROVE  CleanAtRest'
<1>0. /\ ActorTypeOK /\ left \in BOOLEAN
      /\ session \in Session /\ transaction_depth \in Nat
  BY DEF MigratingTypes, ActorTypeOK
<1>. DEFINE Clean == session'.autocommit /\ session'.log = <<>>
<1>1. ASSUME session' = AutocommitOn(EndTranCommit(session))
             \/ session' = AutocommitOn(EndTranRollback(session))
             \/ session' = AutocommitOn(session)
      PROVE  Clean
  <2>1. PICK durable : IsSession(session', TRUE, <<>>, durable)
    BY <1>0, <1>1, EndedIs, AutocommitIs
  <2>. QED  BY <2>1 DEF IsSession
<1>2. CASE Transact
  <2>1. PICK ws : ws \in SUBSET Work /\ Commands(ws)
    BY <1>2 DEF Transact
  <2>2. left' = (left /\ ~(transaction_depth = 1 /\ transaction_depth' = 0))
    BY <1>2 DEF Transact
  <2>3. ASSUME transaction_depth # 0, transaction_depth' = 0  PROVE Clean
    <3>1. ~(\E r \in Result : HandleBegin(r))
      BY <1>0, <2>3 DEF HandleBegin, actorVars
    <3>2. ~(\E w \in ws : HandleExecute(w))
      BY <2>3 DEF HandleExecute
    <3>3. ASSUME NEW r, HandleCommit(r)  PROVE Clean
      <4>1. session' = AutocommitOn(EndTranCommit(session))
        BY <1>0, <2>3, <3>3 DEF HandleCommit, RestoreAutocommit, actorVars
      <4>. QED  BY <1>1, <4>1
    <3>4. ASSUME NEW r, HandleRollback(r)  PROVE Clean
      <4>1. session' = AutocommitOn(EndTranRollback(session))
        BY <1>0, <2>3, <3>4 DEF HandleRollback, RestoreAutocommit, actorVars
      <4>. QED  BY <1>1, <4>1
    <3>5. ASSUME HandleStartRollback  PROVE Clean
      <4>1. transaction_depth = 1
        BY <1>0, <2>3, <3>5 DEF HandleStartRollback
      <4>2. PICK failed \in SUBSET (IgnoredFaults \cap {"rollback", "restore"}) :
                   session' = RollbackIgnoring(failed)
        BY <3>5, <4>1 DEF HandleStartRollback
      <4>3. "restore" \notin failed
        BY DEF RestoreNeverSilent
      <4>. QED  BY <1>1, <4>2, <4>3 DEF RollbackIgnoring
    <3>. QED  BY <2>1, <3>1, <3>2, <3>3, <3>4, <3>5 DEF Commands
  <2>4. ASSUME transaction_depth = 0, transaction_depth' = 0, session.autocommit,
               session.log = <<>>
        PROVE  Clean
    <3>1. ~(\E r \in Result : HandleBegin(r)) \/ session' = session
      BY <2>4 DEF HandleBegin, actorVars
    <3>2. ASSUME NEW w \in ws, HandleExecute(w)  PROVE Clean
      BY <1>0, <2>1, <2>4, <3>2, ExecuteIs DEF HandleExecute, IsSession
    <3>3. ASSUME NEW r, HandleCommit(r)  PROVE session' = session
      BY <2>4, <3>3 DEF HandleCommit, actorVars
    <3>4. ASSUME NEW r, HandleRollback(r)  PROVE session' = session
      BY <2>4, <3>4 DEF HandleRollback, actorVars
    <3>5. ASSUME HandleStartRollback  PROVE session' = session
      BY <2>4, <3>5 DEF HandleStartRollback, actorVars
    <3>. QED  BY <2>1, <2>4, <3>1, <3>2, <3>3, <3>4, <3>5 DEF Commands
  <2>5. ASSUME transaction_depth = 0, ~left'  PROVE ~left
    <3>1. ~(transaction_depth = 1 /\ transaction_depth' = 0)
      BY <2>5
    <3>. QED  BY <2>2, <2>5, <3>1, Zenon
  <2>. QED  BY <2>3, <2>4, <2>5 DEF CleanAtRest
<1>3. ASSUME NEW m \in Scripts, NEW r \in Result, HandleMigrationTx(m, r)
      PROVE  CleanAtRest'
  BY <1>0, <1>3, TxIs DEF CleanAtRest
<1>4. ASSUME NEW m \in Scripts, NEW r \in Result, HandleMigrationNoTx(m, r)
      PROVE  CleanAtRest'
  BY <1>0, <1>4, NoTxIs DEF CleanAtRest
<1>5. CASE UNCHANGED migratingVars
  BY <1>5 DEF migratingVars, CleanAtRest
<1>. QED  BY <1>2, <1>3, <1>4, <1>5 DEF MigratingNext, Migrate

-----------------------------------------------------------------------------
(* A migration handler keeps the depth and leaves a session, whatever of   *)
(* its calls fails, among the user's own commands under every fault        *)
(* (connection/actor.rs:573-702).                                          *)
THEOREM MigratingTypeCorrect == MigratingSpec => []ActorTypeOK
<1>1. MigratingInit => MigratingTypes
  BY MigratingStart
<1>2. MigratingTypes /\ [MigratingNext]_migratingVars => MigratingTypes'
  BY MigratingTypesStep
<1>3. MigratingTypes => ActorTypeOK
  BY DEF MigratingTypes
<1>. QED  BY <1>1, <1>2, <1>3, PTL DEF MigratingSpec

(* However migrations and the caller's own transactions are mixed on one   *)
(* connection, and whatever fails but the ROLLBACK after a failed batch, a *)
(* script that runs in a transaction is durable as a whole and with its    *)
(* row or not at all, the scripts whose row could not be written apart     *)
(* (connection/actor.rs:573-655).                                          *)
THEOREM MigratingKeepsScriptsWhole ==
  UndoNeverSilent => (MigratingSpec => []WholeAndRecorded)
<1>. SUFFICES ASSUME UndoNeverSilent  PROVE MigratingSpec => []WholeAndRecorded
  OBVIOUS
<1>1. MigratingInit => MigratingTypes /\ MigratingInv
  BY MigratingStart
<1>2. MigratingTypes /\ MigratingInv /\ [MigratingNext]_migratingVars
        => MigratingTypes' /\ MigratingInv'
  BY MigratingTypesStep, MigratingInvStep
<1>3. MigratingInv => WholeAndRecorded
  BY DEF MigratingInv, Accounted, WholeIn, WholeAndRecorded
<1>. QED  BY <1>1, <1>2, <1>3, PTL DEF MigratingSpec

(* A connection with no open transaction is in autocommit mode with nothing *)
(* pending, although migrations ran and failed inside transactions, as long *)
(* as no call returned an error after its batch ran and StartRollback's    *)
(* set_autocommit does not fail silently (connection/actor.rs:456-468 and  *)
(* 573-655).                                                               *)
THEOREM MigratingRestsClean ==
  RestoreNeverSilent => (MigratingSpec => []CleanAtRest)
<1>. SUFFICES ASSUME RestoreNeverSilent  PROVE MigratingSpec => []CleanAtRest
  OBVIOUS
<1>1. MigratingInit => MigratingTypes /\ CleanAtRest
  BY MigratingStart
<1>2. MigratingTypes /\ CleanAtRest /\ [MigratingNext]_migratingVars
        => MigratingTypes' /\ CleanAtRest'
  BY MigratingTypesStep, CleanStep
<1>. QED  BY <1>1, <1>2, PTL DEF MigratingSpec
=============================================================================
