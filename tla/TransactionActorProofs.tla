----------------------- MODULE TransactionActorProofs -----------------------
(***************************************************************************)
(* Proofs about TransactionActor.  First lemmas about a transaction log    *)
(* and its savepoints, then the inductive invariant, then the refinement.  *)
(***************************************************************************)
EXTENDS TransactionActor, TLAPS

(* What an entry is and what appending one, or cutting the log, gives. *)
LEMMA LogBasics ==
  ASSUME NEW log \in Seq(Entry), NEW e \in Entry
  PROVE  /\ Append(log, e) \in Seq(Entry)
         /\ Len(Append(log, e)) = Len(log) + 1
         /\ Append(log, e)[Len(log) + 1] = e
         /\ \A i \in 1..Len(log) : Append(log, e)[i] = log[i]
         /\ \A i \in 0..Len(log) : /\ SubSeq(log, 1, i) \in Seq(Entry)
                                   /\ Len(SubSeq(log, 1, i)) = i
                                   /\ \A j \in 1..i : SubSeq(log, 1, i)[j] = log[j]
  OBVIOUS

(* Work and savepoint marks never look alike in a log. *)
LEMMA EntriesDiffer ==
  ASSUME NEW w, NEW n
  PROVE  WorkEntry(w) # MarkEntry(n)
  BY DEF WorkEntry, MarkEntry

(* Work and savepoint marks are log entries. *)
LEMMA EntriesTyped ==
  /\ \A w \in Work : WorkEntry(w) \in Entry
  /\ \A n \in Nat : MarkEntry(n) \in Entry
  BY DEF WorkEntry, MarkEntry, Entry

(* A savepoint that exists has a last occurrence, which LastMark returns. *)
LEMMA LastMarkIs ==
  ASSUME NEW log \in Seq(Entry), NEW n, HasMark(log, n)
  PROVE  LastMark(log, n) \in 1..Len(log) /\ IsLastMark(log, n, LastMark(log, n))
  BY DEF HasMark, LastMark

(* A mark of that name with no later one is the one LastMark chooses. *)
LEMMA LastMarkUnique ==
  ASSUME NEW log \in Seq(Entry), NEW n,
         NEW i \in 1..Len(log), IsLastMark(log, n, i)
  PROVE  HasMark(log, n) /\ LastMark(log, n) = i
<1>1. HasMark(log, n)
  BY DEF HasMark
<1>2. LastMark(log, n) \in 1..Len(log) /\ IsLastMark(log, n, LastMark(log, n))
  BY <1>1, LastMarkIs
<1>3. ~(LastMark(log, n) < i) /\ ~(i < LastMark(log, n))
  BY <1>2 DEF IsLastMark
<1>. QED  BY <1>1, <1>2, <1>3

(* SAVE TRANSACTION makes its mark the last one of its name ... *)
LEMMA SavedMark ==
  ASSUME NEW log \in Seq(Entry), NEW n \in Nat
  PROVE  /\ HasMark(Append(log, MarkEntry(n)), n)
         /\ LastMark(Append(log, MarkEntry(n)), n) = Len(log) + 1
<1>. DEFINE l == Append(log, MarkEntry(n))
<1>1. l \in Seq(Entry) /\ Len(l) = Len(log) + 1 /\ l[Len(log) + 1] = MarkEntry(n)
  BY LogBasics, EntriesTyped
<1>2. Len(log) + 1 \in 1..Len(l) /\ IsLastMark(l, n, Len(log) + 1)
  BY <1>1 DEF IsLastMark
<1>. HIDE DEF l
<1>. QED  BY <1>1, <1>2, LastMarkUnique DEF l

(* ... and no entry other than a mark of the same name moves a mark. *)
LEMMA KeptMark ==
  ASSUME NEW log \in Seq(Entry), NEW n, NEW e \in Entry,
         e # MarkEntry(n), HasMark(log, n)
  PROVE  /\ HasMark(Append(log, e), n)
         /\ LastMark(Append(log, e), n) = LastMark(log, n)
<1>. DEFINE l == Append(log, e)
            i == LastMark(log, n)
<1>1. i \in 1..Len(log) /\ IsLastMark(log, n, i)
  BY LastMarkIs
<1>2. /\ l \in Seq(Entry) /\ Len(l) = Len(log) + 1 /\ l[Len(log) + 1] = e
      /\ \A j \in 1..Len(log) : l[j] = log[j]
  BY LogBasics
<1>3. i \in 1..Len(l) /\ IsLastMark(l, n, i)
  <2>1. l[i] = MarkEntry(n)
    BY <1>1, <1>2 DEF IsLastMark
  <2>2. ASSUME NEW j \in (i+1)..Len(l)  PROVE l[j] # MarkEntry(n)
    <3>1. CASE j = Len(log) + 1
      BY <3>1, <1>2
    <3>2. CASE j \in (i+1)..Len(log)
      BY <3>2, <1>1, <1>2 DEF IsLastMark
    <3>. QED  BY <3>1, <3>2, <1>1, <1>2
  <2>. QED  BY <2>1, <2>2, <1>1, <1>2 DEF IsLastMark
<1>. QED  BY <1>2, <1>3, LastMarkUnique

(* Cutting the log behind a mark leaves the mark where it is. *)
LEMMA CutMark ==
  ASSUME NEW log \in Seq(Entry), NEW n, HasMark(log, n),
         NEW i \in 1..Len(log), LastMark(log, n) <= i
  PROVE  /\ HasMark(SubSeq(log, 1, i), n)
         /\ LastMark(SubSeq(log, 1, i), n) = LastMark(log, n)
<1>. DEFINE l == SubSeq(log, 1, i)
            m == LastMark(log, n)
<1>1. m \in 1..Len(log) /\ IsLastMark(log, n, m)
  BY LastMarkIs
<1>2. l \in Seq(Entry) /\ Len(l) = i /\ \A j \in 1..i : l[j] = log[j]
  OBVIOUS
<1>3. m \in 1..Len(l) /\ IsLastMark(l, n, m)
  BY <1>1, <1>2 DEF IsLastMark
<1>. QED  BY <1>2, <1>3, LastMarkUnique

-----------------------------------------------------------------------------
(* The work in an extended or a cut log. *)
LEMMA WorkAppended ==
  ASSUME NEW log \in Seq(Entry)
  PROVE  /\ \A w \in Work : WorkIn(Append(log, WorkEntry(w))) = WorkIn(log) \cup {w}
         /\ \A n \in Nat : WorkIn(Append(log, MarkEntry(n))) = WorkIn(log)
         /\ \A e \in Entry, i \in 0..Len(log) :
              WorkUpTo(Append(log, e), i) = WorkUpTo(log, i)
         /\ WorkUpTo(log, Len(log)) = WorkIn(log)
<1>1. ASSUME NEW w \in Work
      PROVE  WorkIn(Append(log, WorkEntry(w))) = WorkIn(log) \cup {w}
  <2>. DEFINE l == Append(log, WorkEntry(w))
  <2>1. /\ Len(l) = Len(log) + 1 /\ l[Len(log) + 1] = WorkEntry(w)
        /\ \A i \in 1..Len(log) : l[i] = log[i]
    BY EntriesTyped, LogBasics
  <2>2. \A v : WorkEntry(v) = WorkEntry(w) => v = w
    BY DEF WorkEntry
  <2>3. ASSUME NEW v \in Work
        PROVE  v \in WorkIn(l) <=> v \in WorkIn(log) \cup {w}
    <3>1. ASSUME NEW i \in 1..Len(l), l[i] = WorkEntry(v)
          PROVE  v \in WorkIn(log) \cup {w}
      <4>1. CASE i = Len(log) + 1
        BY <4>1, <3>1, <2>1, <2>2
      <4>2. CASE i \in 1..Len(log)
        BY <4>2, <3>1, <2>1 DEF WorkIn
      <4>. QED  BY <4>1, <4>2, <2>1
    <3>2. ASSUME v \in WorkIn(log) \cup {w}  PROVE v \in WorkIn(l)
      <4>1. CASE v = w
        BY <4>1, <2>1 DEF WorkIn
      <4>2. CASE v \in WorkIn(log)
        BY <4>2, <2>1 DEF WorkIn
      <4>. QED  BY <3>2, <4>1, <4>2
    <3>. QED  BY <3>1, <3>2 DEF WorkIn
  <2>. QED  BY <2>3 DEF WorkIn
<1>2. ASSUME NEW n \in Nat
      PROVE  WorkIn(Append(log, MarkEntry(n))) = WorkIn(log)
  <2>. DEFINE l == Append(log, MarkEntry(n))
  <2>1. /\ Len(l) = Len(log) + 1 /\ l[Len(log) + 1] = MarkEntry(n)
        /\ \A i \in 1..Len(log) : l[i] = log[i]
    BY EntriesTyped, LogBasics
  <2>2. \A v : WorkEntry(v) # MarkEntry(n)
    BY EntriesDiffer
  <2>3. ASSUME NEW v \in Work
        PROVE  v \in WorkIn(l) <=> v \in WorkIn(log)
    BY <2>1, <2>2 DEF WorkIn
  <2>. QED  BY <2>3 DEF WorkIn
<1>3. ASSUME NEW e \in Entry, NEW i \in 0..Len(log)
      PROVE  WorkUpTo(Append(log, e), i) = WorkUpTo(log, i)
  BY LogBasics DEF WorkUpTo
<1>4. WorkUpTo(log, Len(log)) = WorkIn(log)
  BY DEF WorkUpTo, WorkIn
<1>. QED  BY <1>1, <1>2, <1>3, <1>4

(* Cutting a log keeps the work that stood before the cut. *)
LEMMA WorkCut ==
  ASSUME NEW log \in Seq(Entry), NEW i \in 0..Len(log)
  PROVE  /\ WorkIn(SubSeq(log, 1, i)) = WorkUpTo(log, i)
         /\ \A j \in 0..i : WorkUpTo(SubSeq(log, 1, i), j) = WorkUpTo(log, j)
<1>1. Len(SubSeq(log, 1, i)) = i /\ \A j \in 1..i : SubSeq(log, 1, i)[j] = log[j]
  OBVIOUS
<1>. QED  BY <1>1 DEF WorkIn, WorkUpTo

-----------------------------------------------------------------------------
(* What each ODBC call makes of a well-formed session, field by field. *)
IsSession(s, autocommit, log, durable) ==
  /\ s \in Session
  /\ s.autocommit = autocommit
  /\ s.log = log
  /\ s.durable = durable

(* What SQLEndTran leaves of a session, field by field. *)
LEMMA EndTranIs ==
  ASSUME NEW s \in Session
  PROVE  /\ IsSession(EndTranCommit(s), s.autocommit, <<>>,
                      s.durable \cup WorkIn(s.log))
         /\ IsSession(EndTranRollback(s), s.autocommit, <<>>, s.durable)
<1>1. <<>> \in Seq(Entry) /\ WorkIn(s.log) \subseteq Work
  BY DEF WorkIn
<1>2. IsSession(EndTranCommit(s), s.autocommit, <<>>, s.durable \cup WorkIn(s.log))
  BY <1>1 DEF Session, EndTranCommit, IsSession
<1>3. IsSession(EndTranRollback(s), s.autocommit, <<>>, s.durable)
  BY <1>1 DEF Session, EndTranRollback, IsSession
<1>. QED  BY <1>2, <1>3

(* An empty log holds no work. *)
LEMMA EmptyLogHasNoWork == WorkIn(<<>>) = {}
  BY DEF WorkIn

(* What switching the commit mode leaves of a session. *)
LEMMA AutocommitIs ==
  ASSUME NEW s \in Session
  PROVE  /\ IsSession(AutocommitOff(s), FALSE, s.log, s.durable)
         /\ IsSession(AutocommitOn(s), TRUE, <<>>,
                      s.durable \cup WorkIn(s.log))
<1>1. AutocommitOff(s) = [s EXCEPT !.autocommit = FALSE]
  BY DEF AutocommitOff
<1>2. AutocommitOn(s) = [EndTranCommit(s) EXCEPT !.autocommit = TRUE]
  BY DEF AutocommitOn
<1>3. IsSession(AutocommitOff(s), FALSE, s.log, s.durable)
  BY <1>1 DEF Session, IsSession
<1>4. IsSession(AutocommitOn(s), TRUE, <<>>, s.durable \cup WorkIn(s.log))
  BY <1>2, EndTranIs DEF Session, IsSession
<1>. QED  BY <1>3, <1>4

(* Leaving manual-commit mode after the server transaction has ended. *)
LEMMA EndedIs ==
  ASSUME NEW s \in Session
  PROVE  /\ IsSession(AutocommitOn(EndTranCommit(s)), TRUE, <<>>,
                      s.durable \cup WorkIn(s.log))
         /\ IsSession(AutocommitOn(EndTranRollback(s)), TRUE, <<>>, s.durable)
<1>1. IsSession(EndTranCommit(s), s.autocommit, <<>>, s.durable \cup WorkIn(s.log))
  BY EndTranIs
<1>2. IsSession(EndTranRollback(s), s.autocommit, <<>>, s.durable)
  BY EndTranIs
<1>. QED  BY <1>1, <1>2, AutocommitIs, EmptyLogHasNoWork DEF IsSession

(* What SAVE TRANSACTION leaves of a session. *)
LEMMA SaveIs ==
  ASSUME NEW s \in Session, NEW n \in Nat
  PROVE  IsSession(SaveTransaction(s, n), s.autocommit,
                   Append(s.log, MarkEntry(n)), s.durable)
<1>1. Append(s.log, MarkEntry(n)) \in Seq(Entry)
  BY LogBasics, EntriesTyped DEF Session
<1>. QED  BY <1>1 DEF Session, SaveTransaction, IsSession

(* What ROLLBACK TRANSACTION to an existing savepoint leaves. *)
LEMMA RollbackToIs ==
  ASSUME NEW s \in Session, NEW n \in Nat, HasMark(s.log, n)
  PROVE  IsSession(RollbackTransaction(s, n), s.autocommit,
                   SubSeq(s.log, 1, LastMark(s.log, n)), s.durable)
<1>1. s.log \in Seq(Entry)
  BY DEF Session
<1>2. LastMark(s.log, n) \in 1..Len(s.log)
  BY <1>1, LastMarkIs
<1>3. SubSeq(s.log, 1, LastMark(s.log, n)) \in Seq(Entry)
  BY <1>1, <1>2, LogBasics
<1>. QED  BY <1>3 DEF Session, RollbackTransaction, IsSession

(* What a statement leaves of a session, in either commit mode. *)
LEMMA ExecuteIs ==
  ASSUME NEW s \in Session, NEW w \in Work
  PROVE  /\ s.autocommit => IsSession(Execute(s, w), TRUE, s.log,
                                      s.durable \cup {w})
         /\ ~s.autocommit => IsSession(Execute(s, w), FALSE,
                                       Append(s.log, WorkEntry(w)), s.durable)
<1>1. Append(s.log, WorkEntry(w)) \in Seq(Entry)
  BY LogBasics, EntriesTyped DEF Session
<1>2. CASE s.autocommit
  BY <1>2 DEF Session, Execute, IsSession
<1>3. CASE ~s.autocommit
  BY <1>1, <1>3 DEF Session, Execute, IsSession
<1>. QED  BY <1>2, <1>3

-----------------------------------------------------------------------------
(* The savepoints of the open levels through each change of the log. *)
LEMMA InPlaceFewer ==
  ASSUME NEW log, NEW m \in Int, NEW k \in Int, k <= m, InPlace(log, m)
  PROVE  InPlace(log, k)
  BY DEF InPlace

(* A new savepoint stands behind those of the enclosing levels. *)
LEMMA InPlaceSave ==
  ASSUME NEW log \in Seq(Entry), NEW n \in Nat \ {0}, InPlace(log, n - 1)
  PROVE  InPlace(Append(log, MarkEntry(n)), n)
<1>. DEFINE l == Append(log, MarkEntry(n))
<1>1. HasMark(l, n) /\ LastMark(l, n) = Len(log) + 1
  BY SavedMark
<1>2. ASSUME NEW d \in 1..(n-1)
      PROVE  /\ HasMark(l, d) /\ LastMark(l, d) = LastMark(log, d)
             /\ LastMark(log, d) \in 1..Len(log)
  <2>1. MarkEntry(n) # MarkEntry(d)
    BY DEF MarkEntry
  <2>2. HasMark(log, d)
    BY DEF InPlace
  <2>. QED  BY <2>1, <2>2, KeptMark, LastMarkIs, EntriesTyped
<1>3. ASSUME NEW d \in 1..n  PROVE HasMark(l, d)
  BY <1>1, <1>2
<1>4. ASSUME NEW d \in 1..n, NEW e \in 1..n, d < e
      PROVE  LastMark(l, d) < LastMark(l, e)
  <2>1. d \in 1..(n-1) /\ LastMark(l, d) = LastMark(log, d)
                      /\ LastMark(log, d) \in 1..Len(log)
    BY <1>2, <1>4
  <2>2. CASE e = n
    BY <2>1, <2>2, <1>1
  <2>3. CASE e \in 1..(n-1)
    <3>1. LastMark(l, e) = LastMark(log, e)
      BY <1>2, <2>3
    <3>. QED  BY <2>1, <2>3, <3>1, <1>4 DEF InPlace
  <2>. QED  BY <2>2, <2>3
<1>. QED  BY <1>3, <1>4 DEF InPlace

(* Work does not disturb the savepoints. *)
LEMMA InPlaceWork ==
  ASSUME NEW log \in Seq(Entry), NEW m \in Int, NEW w \in Work, InPlace(log, m)
  PROVE  InPlace(Append(log, WorkEntry(w)), m)
<1>1. ASSUME NEW d \in 1..m
      PROVE  /\ HasMark(Append(log, WorkEntry(w)), d)
             /\ LastMark(Append(log, WorkEntry(w)), d) = LastMark(log, d)
  <2>1. HasMark(log, d)
    BY DEF InPlace
  <2>. QED  BY <2>1, KeptMark, EntriesDiffer, EntriesTyped
<1>. QED  BY <1>1 DEF InPlace

(* Rolling back to a savepoint keeps it and those before it. *)
LEMMA InPlaceCut ==
  ASSUME NEW log \in Seq(Entry), NEW m \in Nat \ {0}, InPlace(log, m)
  PROVE  /\ InPlace(SubSeq(log, 1, LastMark(log, m)), m)
         /\ \A d \in 1..m : LastMark(SubSeq(log, 1, LastMark(log, m)), d)
                              = LastMark(log, d)
<1>. DEFINE i == LastMark(log, m)
            l == SubSeq(log, 1, i)
<1>1. i \in 1..Len(log)
  <2>1. HasMark(log, m)
    BY DEF InPlace
  <2>. QED  BY <2>1, LastMarkIs
<1>2. ASSUME NEW d \in 1..m
      PROVE  HasMark(l, d) /\ LastMark(l, d) = LastMark(log, d)
  <2>1. HasMark(log, d)
    BY DEF InPlace
  <2>2. LastMark(log, d) \in 1..Len(log)
    BY <2>1, LastMarkIs
  <2>3. LastMark(log, d) <= i
    BY <1>1, <2>2 DEF InPlace
  <2>. QED  BY <1>1, <2>1, <2>3, CutMark
<1>. QED  BY <1>2 DEF InPlace

-----------------------------------------------------------------------------
(* The inductive invariant. *)
ActorInv == ActorTypeOK /\ ManualModeIffOpen /\ SavepointsInPlace

(* No failure goes unreported, and the server aborts nothing by itself. *)
AllFailuresReported == IgnoredFaults = {} /\ "abort" \notin Faults

(* The state a handler leaves, from the session it leaves: inside a        *)
(* transaction, or outside.                                                *)
LEMMA InvOpen ==
  ASSUME NEW k \in Nat, transaction_depth' = k + 1, NEW log, NEW durable,
         IsSession(session', FALSE, log, durable), InPlace(log, k)
  PROVE  ActorInv'
<1>1. /\ session' \in Session /\ session'.autocommit = FALSE /\ session'.log = log
  BY DEF IsSession
<1>2. ActorTypeOK' /\ ManualModeIffOpen' /\ SavepointsInPlace'
  BY <1>1 DEF ActorTypeOK, ManualModeIffOpen, SavepointsInPlace
<1>. QED  BY <1>2 DEF ActorInv

(* A handler that ends outside every transaction keeps the invariant. *)
LEMMA InvClosed ==
  ASSUME transaction_depth' = 0, NEW durable,
         IsSession(session', TRUE, <<>>, durable)
  PROVE  ActorInv'
<1>1. /\ session' \in Session /\ session'.autocommit = TRUE /\ session'.log = <<>>
  BY DEF IsSession
<1>2. ActorTypeOK' /\ ManualModeIffOpen'
  BY <1>1 DEF ActorTypeOK, ManualModeIffOpen
<1>3. SavepointsInPlace'
  BY DEF SavepointsInPlace, InPlace
<1>. QED  BY <1>2, <1>3 DEF ActorInv

(* No savepoint is needed outside nested transactions. *)
LEMMA InPlaceNone ==
  ASSUME NEW log, NEW m \in Int, m <= 0
  PROVE  InPlace(log, m)
  BY DEF InPlace

(* The invariant holds of a new actor. *)
LEMMA InitInv == ActorInit => ActorInv
<1>. SUFFICES ASSUME ActorInit PROVE ActorInv
  OBVIOUS
<1>1. session \in Session /\ session.autocommit = TRUE /\ session.log = <<>>
  BY DEF ActorInit, NewSession, Session
<1>2. SavepointsInPlace
  BY InPlaceNone DEF ActorInit, SavepointsInPlace
<1>. QED  BY <1>1, <1>2 DEF ActorInit, ActorInv, ActorTypeOK, ManualModeIffOpen

(* A handler that fails before it changed anything keeps it. *)
LEMMA UnchangedInv ==
  ASSUME ActorInv, UNCHANGED actorVars
  PROVE  ActorInv'
  BY DEF actorVars, ActorInv, ActorTypeOK, ManualModeIffOpen, SavepointsInPlace

(* Begin keeps the invariant. *)
LEMMA BeginInv ==
  ASSUME ActorInv, NEW r, HandleBegin(r)
  PROVE  ActorInv'
<1>1. /\ transaction_depth \in Nat /\ session \in Session /\ session.log \in Seq(Entry)
      /\ ManualModeIffOpen /\ SavepointsInPlace
  BY DEF ActorInv, ActorTypeOK, Session
<1>2. CASE UNCHANGED actorVars
  BY <1>2, UnchangedInv
<1>3. CASE /\ transaction_depth = 0 /\ transaction_depth' = 1
           /\ session' = AutocommitOff(session)
  <2>1. IsSession(session', FALSE, session.log, session.durable)
    BY <1>1, <1>3, AutocommitIs
  <2>2. PICK k \in Nat : k = 0
    OBVIOUS
  <2>3. InPlace(session.log, k) /\ transaction_depth' = k + 1
    BY <1>3, <2>2, InPlaceNone
  <2>. QED  BY <2>1, <2>3, InvOpen
<1>4. CASE /\ transaction_depth > 0
           /\ transaction_depth' = transaction_depth + 1
           /\ session' = SaveTransaction(session, transaction_depth)
  <2>. DEFINE l == Append(session.log, MarkEntry(transaction_depth))
  <2>1. IsSession(session', FALSE, l, session.durable)
    <3>1. IsSession(session', session.autocommit, l, session.durable)
      BY <1>1, <1>4, SaveIs
    <3>2. session.autocommit = FALSE
      BY <1>1, <1>4 DEF ManualModeIffOpen, Session
    <3>. QED  BY <3>1, <3>2
  <2>2. InPlace(l, transaction_depth)
    BY <1>1, <1>4, InPlaceSave DEF SavepointsInPlace
  <2>. HIDE DEF l
  <2>. QED  BY <1>1, <1>4, <2>1, <2>2, InvOpen
<1>. QED  BY <1>2, <1>3, <1>4 DEF HandleBegin

(* Ending the outermost transaction, with or without autocommit restored. *)
LEMMA EndedInv ==
  ASSUME ActorInv, transaction_depth = 1, NEW r, NEW ended,
         ended \in {EndTranCommit(session), EndTranRollback(session)},
         RestoreAutocommit(ended, r)
  PROVE  ActorInv'
<1>1. session \in Session /\ session.autocommit = FALSE
  BY DEF ActorInv, ActorTypeOK, ManualModeIffOpen, Session
<1>2. CASE session' = AutocommitOn(ended) /\ transaction_depth' = 0
  <2>1. PICK durable : IsSession(session', TRUE, <<>>, durable)
    BY <1>1, <1>2, EndedIs
  <2>. QED  BY <1>2, <2>1, InvClosed
<1>3. CASE session' = ended /\ UNCHANGED transaction_depth
  <2>1. PICK durable : IsSession(session', FALSE, <<>>, durable)
    BY <1>1, <1>3, EndTranIs
  <2>2. PICK k \in Nat : k = 0
    OBVIOUS
  <2>3. transaction_depth' = k + 1 /\ InPlace(<<>>, k)
    BY <1>3, <2>2, InPlaceNone
  <2>. QED  BY <2>1, <2>3, InvOpen
<1>. QED  BY <1>2, <1>3 DEF RestoreAutocommit

(* Commit keeps the invariant. *)
LEMMA CommitInv ==
  ASSUME ActorInv, NEW r, HandleCommit(r)
  PROVE  ActorInv'
<1>1. CASE UNCHANGED actorVars
  BY <1>1, UnchangedInv
<1>2. CASE transaction_depth = 1 /\ RestoreAutocommit(EndTranCommit(session), r)
  BY <1>2, EndedInv
<1>3. CASE /\ transaction_depth > 1 /\ UNCHANGED session
           /\ transaction_depth' = transaction_depth - 1
  BY <1>3, InPlaceFewer
     DEF ActorInv, ActorTypeOK, ManualModeIffOpen, SavepointsInPlace
<1>. QED  BY <1>1, <1>2, <1>3 DEF HandleCommit

(* Going back to the savepoint of the innermost transaction. *)
LEMMA RollbackToInv ==
  ASSUME ActorInv, transaction_depth > 1,
         session' = RollbackTransaction(session, transaction_depth - 1),
         transaction_depth' = transaction_depth - 1
  PROVE  ActorInv'
<1>. DEFINE m == transaction_depth - 1
            l == SubSeq(session.log, 1, LastMark(session.log, m))
<1>0. m \in Nat \ {0} /\ m \in 1..m
  BY DEF ActorInv, ActorTypeOK
<1>1. /\ session \in Session /\ session.log \in Seq(Entry)
      /\ session.autocommit = FALSE
      /\ InPlace(session.log, m)
  BY DEF ActorInv, ActorTypeOK, ManualModeIffOpen, SavepointsInPlace, Session
<1>2. HasMark(session.log, m)
  <2>. HIDE DEF m
  <2>. QED  BY <1>0, <1>1 DEF InPlace
<1>3. IsSession(session', session.autocommit, l, session.durable)
  BY <1>0, <1>1, <1>2, RollbackToIs
<1>4. InPlace(l, m - 1)
  <2>1. InPlace(l, m)
    BY <1>0, <1>1, InPlaceCut
  <2>. QED  BY <1>0, <2>1, InPlaceFewer
<1>5. m - 1 \in Nat /\ transaction_depth' = (m - 1) + 1
  BY <1>0
<1>. HIDE DEF l, m
<1>. QED  BY <1>1, <1>3, <1>4, <1>5, InvOpen

(* Rollback keeps the invariant. *)
LEMMA RollbackInv ==
  ASSUME ActorInv, NEW r, HandleRollback(r)
  PROVE  ActorInv'
<1>1. CASE UNCHANGED actorVars
  BY <1>1, UnchangedInv
<1>2. CASE transaction_depth = 1 /\ RestoreAutocommit(EndTranRollback(session), r)
  BY <1>2, EndedInv
<1>3. CASE /\ transaction_depth > 1
           /\ session' = RollbackTransaction(session, transaction_depth - 1)
           /\ transaction_depth' = transaction_depth - 1
  BY <1>3, RollbackToInv
<1>. QED  BY <1>1, <1>2, <1>3 DEF HandleRollback

(* Without ignored failures StartRollback is a Rollback that succeeds. *)
LEMMA StartRollbackIs ==
  ASSUME ActorInv, AllFailuresReported, HandleStartRollback
  PROVE  HandleRollback("ok")
<1>1. CASE transaction_depth = 1
  <2>1. PICK failed \in SUBSET (IgnoredFaults \cap {"rollback", "restore"}) :
               session' = RollbackIgnoring(failed)
    BY <1>1 DEF HandleStartRollback
  <2>2. "rollback" \notin failed /\ "restore" \notin failed
    BY DEF AllFailuresReported
  <2>3. session' = AutocommitOn(EndTranRollback(session))
    BY <2>1, <2>2 DEF RollbackIgnoring
  <2>4. transaction_depth' = 0
    BY <1>1 DEF HandleStartRollback
  <2>. QED  BY <1>1, <2>3, <2>4 DEF HandleRollback, RestoreAutocommit
<1>2. CASE transaction_depth > 1
  <2>1. HasMark(session.log, transaction_depth - 1)
    BY <1>2 DEF ActorInv, ActorTypeOK, SavepointsInPlace, InPlace
  <2>. QED  BY <1>2, <2>1 DEF HandleStartRollback, AllFailuresReported, HandleRollback
<1>3. CASE transaction_depth = 0
  BY <1>3 DEF HandleStartRollback, HandleRollback
<1>. QED  BY <1>1, <1>2, <1>3 DEF ActorInv, ActorTypeOK

(* A statement keeps the invariant, if the server aborts nothing. *)
LEMMA ExecuteInv ==
  ASSUME ActorInv, AllFailuresReported, NEW w \in Work, HandleExecute(w)
  PROVE  ActorInv'
<1>1. /\ session' = Execute(session, w) /\ transaction_depth' = transaction_depth
      /\ transaction_depth \in Nat /\ session \in Session /\ session.log \in Seq(Entry)
      /\ ManualModeIffOpen /\ SavepointsInPlace
  BY DEF HandleExecute, AllFailuresReported, ActorInv, ActorTypeOK, Session
<1>2. CASE transaction_depth = 0
  <2>1. session.autocommit /\ session.log = <<>>
    BY <1>1, <1>2 DEF ManualModeIffOpen
  <2>2. PICK durable : IsSession(session', TRUE, <<>>, durable)
    BY <1>1, <2>1, ExecuteIs
  <2>3. transaction_depth' = 0
    BY <1>1, <1>2
  <2>. QED  BY <2>2, <2>3, InvClosed
<1>3. CASE transaction_depth # 0
  <2>1. ~session.autocommit
    BY <1>1, <1>3 DEF ManualModeIffOpen
  <2>2. IsSession(session', FALSE, Append(session.log, WorkEntry(w)), session.durable)
    BY <1>1, <2>1, ExecuteIs
  <2>3. InPlace(Append(session.log, WorkEntry(w)), transaction_depth - 1)
    BY <1>1, InPlaceWork DEF SavepointsInPlace
  <2>4. /\ transaction_depth - 1 \in Nat
        /\ transaction_depth' = (transaction_depth - 1) + 1
    BY <1>1, <1>3
  <2>. QED  BY <2>2, <2>3, <2>4, InvOpen
<1>. QED  BY <1>2, <1>3

(* Some handler ran, or none, however long the log and deep the nesting.   *)
Handled ==
  \/ \E r \in Result : HandleBegin(r) \/ HandleCommit(r) \/ HandleRollback(r)
  \/ HandleStartRollback
  \/ \E w \in Work : HandleExecute(w)
  \/ UNCHANGED actorVars

(* The steps of the specification are such. *)
LEMMA NextIsHandled ==
  ASSUME [ActorNext]_actorVars
  PROVE  Handled
  BY DEF ActorNext, Commands, Handled

(* Every handler keeps the invariant. *)
LEMMA NextInv ==
  ASSUME ActorInv, AllFailuresReported, Handled
  PROVE  ActorInv'
<1>1. CASE \E r \in Result : HandleBegin(r)
  BY <1>1, BeginInv
<1>2. CASE \E r \in Result : HandleCommit(r)
  BY <1>2, CommitInv
<1>3. CASE \E r \in Result : HandleRollback(r)
  BY <1>3, RollbackInv
<1>4. CASE HandleStartRollback
  BY <1>4, StartRollbackIs, RollbackInv
<1>5. CASE \E w \in Work : HandleExecute(w)
  BY <1>5, ExecuteInv
<1>6. CASE UNCHANGED actorVars
  BY <1>6, UnchangedInv
<1>. QED  BY <1>1, <1>2, <1>3, <1>4, <1>5, <1>6 DEF Handled

(* Every handler leaves a depth and a session, whatever fails. *)
LEMMA TypeStep ==
  ASSUME ActorTypeOK, Handled
  PROVE  ActorTypeOK'
<1>0. transaction_depth \in Nat /\ session \in Session
  BY DEF ActorTypeOK
<1>. SUFFICES transaction_depth' \in Nat /\ session' \in Session
  BY DEF ActorTypeOK
<1>1. /\ EndTranCommit(session) \in Session
      /\ EndTranRollback(session) \in Session
  BY <1>0, EndTranIs DEF IsSession
<1>2. \A s \in Session : /\ AutocommitOff(s) \in Session
                         /\ AutocommitOn(s) \in Session
  BY AutocommitIs DEF IsSession
<1>3. ASSUME NEW r, HandleBegin(r)
      PROVE  transaction_depth' \in Nat /\ session' \in Session
  <2>1. SaveTransaction(session, transaction_depth) \in Session
    BY <1>0, SaveIs DEF IsSession
  <2>2. session' \in {AutocommitOff(session),
                      SaveTransaction(session, transaction_depth), session}
    BY <1>3 DEF HandleBegin, actorVars
  <2>3. transaction_depth' \in {1, transaction_depth + 1, transaction_depth}
    BY <1>3, Zenon DEF HandleBegin, actorVars
  <2>. QED  BY <1>0, <1>2, <2>1, <2>2, <2>3
<1>4. ASSUME NEW ended \in Session, NEW r, RestoreAutocommit(ended, r)
      PROVE  transaction_depth' \in Nat /\ session' \in Session
  <2>1. session' \in {AutocommitOn(ended), ended}
    BY <1>4 DEF RestoreAutocommit
  <2>2. transaction_depth' \in {0, transaction_depth}
    BY <1>4, Zenon DEF RestoreAutocommit
  <2>. QED  BY <1>0, <1>2, <2>1, <2>2
<1>5. ASSUME NEW r, HandleCommit(r)
      PROVE  transaction_depth' \in Nat /\ session' \in Session
  <2>1. CASE transaction_depth = 1 /\ RestoreAutocommit(EndTranCommit(session), r)
    BY <2>1, <1>1, <1>4
  <2>2. CASE UNCHANGED actorVars
    BY <2>2, <1>0 DEF actorVars
  <2>3. CASE /\ transaction_depth > 1 /\ UNCHANGED session
             /\ transaction_depth' = transaction_depth - 1
    BY <2>3, <1>0
  <2>. QED  BY <1>5, <2>1, <2>2, <2>3 DEF HandleCommit
<1>6. ASSUME transaction_depth > 1, HasMark(session.log, transaction_depth - 1)
      PROVE  RollbackTransaction(session, transaction_depth - 1) \in Session
  <2>1. transaction_depth - 1 \in Nat
    BY <1>0, <1>6
  <2>. QED  BY <1>0, <1>6, <2>1, RollbackToIs DEF IsSession
<1>7. ASSUME NEW r, HandleRollback(r)
      PROVE  transaction_depth' \in Nat /\ session' \in Session
  <2>1. CASE transaction_depth = 1 /\ RestoreAutocommit(EndTranRollback(session), r)
    BY <2>1, <1>1, <1>4
  <2>2. CASE UNCHANGED actorVars
    BY <2>2, <1>0 DEF actorVars
  <2>3. CASE /\ transaction_depth > 1
             /\ HasMark(session.log, transaction_depth - 1)
             /\ session' = RollbackTransaction(session, transaction_depth - 1)
             /\ transaction_depth' = transaction_depth - 1
    BY <2>3, <1>0, <1>6
  <2>. QED  BY <1>7, <2>1, <2>2, <2>3 DEF HandleRollback
<1>8. ASSUME HandleStartRollback
      PROVE  transaction_depth' \in Nat /\ session' \in Session
  <2>1. CASE transaction_depth = 1
    <3>1. PICK failed : session' = RollbackIgnoring(failed)
      BY <1>8, <2>1 DEF HandleStartRollback
    <3>2. session' \in Session
      BY <1>0, <1>1, <1>2, <3>1 DEF RollbackIgnoring
    <3>. QED  BY <1>8, <2>1, <3>2 DEF HandleStartRollback
  <2>2. CASE transaction_depth > 1
    <3>1. session' \in Session
      BY <1>0, <1>6, <1>8, <2>2 DEF HandleStartRollback
    <3>. QED  BY <1>0, <1>8, <2>2, <3>1 DEF HandleStartRollback
  <2>3. CASE transaction_depth = 0
    BY <1>0, <1>8, <2>3 DEF HandleStartRollback, actorVars
  <2>. QED  BY <1>0, <2>1, <2>2, <2>3
<1>9. ASSUME NEW w \in Work, HandleExecute(w)
      PROVE  transaction_depth' \in Nat /\ session' \in Session
  <2>1. Execute(session, w) \in Session
    BY <1>0, ExecuteIs DEF IsSession
  <2>2. Abort(session) \in Session
    BY <1>1 DEF Abort, EndTranRollback
  <2>. QED  BY <1>0, <1>9, <2>1, <2>2 DEF HandleExecute
<1>10. CASE UNCHANGED actorVars
  BY <1>0, <1>10 DEF actorVars
<1>. QED  BY <1>3, <1>5, <1>7, <1>8, <1>9, <1>10 DEF Handled

(* The actor's depth is a natural number and its session a session under   *)
(* every fault, the ignored ones and the server's own aborts included: no  *)
(* handler of connection/actor.rs decrements a depth of 0.                 *)
THEOREM ActorTypeCorrect == ActorSpec => []ActorTypeOK
<1>1. ActorInit => ActorTypeOK
  BY InitInv DEF ActorInv
<1>2. ActorTypeOK /\ [ActorNext]_actorVars => ActorTypeOK'
  BY TypeStep, NextIsHandled
<1>. QED  BY <1>1, <1>2, PTL DEF ActorSpec

(* The invariant holds throughout. *)
LEMMA ActorInvariance == AllFailuresReported => (ActorSpec => []ActorInv)
<1>. SUFFICES ASSUME AllFailuresReported  PROVE ActorSpec => []ActorInv
  OBVIOUS
<1>1. ActorInv /\ [ActorNext]_actorVars => ActorInv'
  BY NextInv, NextIsHandled
<1>. QED  BY <1>1, InitInv, PTL DEF ActorSpec

(* StartRollback always manages to turn autocommit on again.  (Everything  *)
(* else may fail, silently or not, and the server may abort transactions.) *)
RestoreNeverSilent == "restore" \notin IgnoredFaults

(* How a step re-establishes ManualModeIffOpen, outside and inside a       *)
(* transaction.                                                            *)
LEMMA ModeClosed ==
  ASSUME transaction_depth' = 0, NEW durable,
         IsSession(session', TRUE, <<>>, durable)
  PROVE  ManualModeIffOpen'
<1>1. session'.autocommit = TRUE /\ session'.log = <<>>
  BY DEF IsSession
<1>. QED  BY <1>1 DEF ManualModeIffOpen

(* ManualModeIffOpen of a state inside a transaction. *)
LEMMA ModeOpen ==
  ASSUME NEW k \in Nat, transaction_depth' = k + 1, session'.autocommit = FALSE
  PROVE  ManualModeIffOpen'
BY DEF ManualModeIffOpen

(* One step keeps the mode and the depth in agreement. *)
LEMMA ModeStep ==
  ASSUME RestoreNeverSilent, ActorTypeOK, ManualModeIffOpen, Handled
  PROVE  ManualModeIffOpen'
<1>0. transaction_depth \in Nat /\ session \in Session
  BY DEF ActorTypeOK
<1>1. transaction_depth # 0 => session.autocommit = FALSE
  BY <1>0 DEF ManualModeIffOpen, Session
<1>2. transaction_depth = 0 => session.autocommit = TRUE /\ session.log = <<>>
  BY <1>0 DEF ManualModeIffOpen, Session
<1>3. CASE UNCHANGED actorVars
  BY <1>3 DEF actorVars, ManualModeIffOpen
<1>4. ASSUME transaction_depth # 0, UNCHANGED transaction_depth,
             session'.autocommit = FALSE
      PROVE  ManualModeIffOpen'
  <2>1. PICK k \in Nat : transaction_depth' = k + 1
    <3>1. transaction_depth - 1 \in Nat /\ transaction_depth' = (transaction_depth - 1) + 1
      BY <1>0, <1>4
    <3>. QED  BY <3>1
  <2>. QED  BY <1>4, <2>1, ModeOpen
<1>5. ASSUME transaction_depth > 1, transaction_depth' = transaction_depth - 1,
             session'.autocommit = FALSE
      PROVE  ManualModeIffOpen'
  <2>1. transaction_depth - 2 \in Nat /\ transaction_depth' = (transaction_depth - 2) + 1
    BY <1>0, <1>5
  <2>. QED  BY <1>5, <2>1, ModeOpen
<1>6. ASSUME NEW r, HandleBegin(r)
      PROVE  ManualModeIffOpen'
  <2>1. CASE transaction_depth = 0 /\ session' = AutocommitOff(session)
             /\ transaction_depth' = 1
    <3>1. session'.autocommit = FALSE
      BY <1>0, <2>1, AutocommitIs DEF IsSession
    <3>2. PICK k \in Nat : k = 0
      OBVIOUS
    <3>3. transaction_depth' = k + 1
      BY <2>1, <3>2
    <3>. QED  BY <3>1, <3>3, ModeOpen
  <2>2. CASE /\ transaction_depth > 0
             /\ session' = SaveTransaction(session, transaction_depth)
             /\ transaction_depth' = transaction_depth + 1
    <3>1. session'.autocommit = session.autocommit
      BY <1>0, <2>2, SaveIs DEF IsSession
    <3>2. session'.autocommit = FALSE
      BY <1>1, <2>2, <3>1
    <3>. QED  BY <1>0, <2>2, <3>2, ModeOpen
  <2>. QED  BY <1>3, <1>6, <2>1, <2>2 DEF HandleBegin
<1>7. ASSUME NEW ended \in {EndTranCommit(session), EndTranRollback(session)},
             NEW r, transaction_depth = 1, RestoreAutocommit(ended, r)
      PROVE  ManualModeIffOpen'
  <2>1. CASE session' = AutocommitOn(ended) /\ transaction_depth' = 0
    <3>1. PICK durable : IsSession(session', TRUE, <<>>, durable)
      BY <1>0, <2>1, EndedIs
    <3>. QED  BY <2>1, <3>1, ModeClosed
  <2>2. CASE session' = ended /\ UNCHANGED transaction_depth
    <3>1. session'.autocommit = session.autocommit
      BY <1>0, <2>2, EndTranIs DEF IsSession
    <3>2. transaction_depth # 0 /\ UNCHANGED transaction_depth
      BY <1>7, <2>2
    <3>3. session'.autocommit = FALSE
      BY <1>1, <3>1, <3>2
    <3>. QED  BY <1>4, <3>2, <3>3
  <2>. QED  BY <1>7, <2>1, <2>2 DEF RestoreAutocommit
<1>8. ASSUME NEW r, HandleCommit(r)
      PROVE  ManualModeIffOpen'
  <2>1. CASE transaction_depth = 1 /\ RestoreAutocommit(EndTranCommit(session), r)
    BY <1>7, <2>1
  <2>2. CASE /\ transaction_depth > 1 /\ UNCHANGED session
             /\ transaction_depth' = transaction_depth - 1
    <3>1. transaction_depth # 0
      BY <1>0, <2>2
    <3>2. session'.autocommit = FALSE
      BY <1>1, <2>2, <3>1
    <3>. QED  BY <1>5, <2>2, <3>2
  <2>. QED  BY <1>3, <1>8, <2>1, <2>2 DEF HandleCommit
<1>9. ASSUME transaction_depth > 1, HasMark(session.log, transaction_depth - 1)
      PROVE  RollbackTransaction(session, transaction_depth - 1).autocommit = FALSE
  <2>1. transaction_depth - 1 \in Nat
    BY <1>0, <1>9
  <2>2. RollbackTransaction(session, transaction_depth - 1).autocommit
          = session.autocommit
    BY <1>0, <1>9, <2>1, RollbackToIs DEF IsSession
  <2>. QED  BY <1>1, <1>9, <2>2
<1>10. ASSUME NEW r, HandleRollback(r)
       PROVE  ManualModeIffOpen'
  <2>1. CASE transaction_depth = 1 /\ RestoreAutocommit(EndTranRollback(session), r)
    BY <1>7, <2>1
  <2>2. CASE /\ transaction_depth > 1
             /\ HasMark(session.log, transaction_depth - 1)
             /\ session' = RollbackTransaction(session, transaction_depth - 1)
             /\ transaction_depth' = transaction_depth - 1
    BY <1>5, <1>9, <2>2
  <2>. QED  BY <1>3, <1>10, <2>1, <2>2 DEF HandleRollback
<1>11. ASSUME HandleStartRollback
       PROVE  ManualModeIffOpen'
  <2>1. CASE transaction_depth = 0
    BY <1>3, <1>11, <2>1 DEF HandleStartRollback
  <2>2. CASE transaction_depth = 1
    <3>1. PICK failed \in SUBSET (IgnoredFaults \cap {"rollback", "restore"}) :
                 session' = RollbackIgnoring(failed)
      BY <1>11, <2>2 DEF HandleStartRollback
    <3>2. "restore" \notin failed
      BY DEF RestoreNeverSilent
    <3>3. session' \in {AutocommitOn(session), AutocommitOn(EndTranRollback(session))}
      BY <3>1, <3>2 DEF RollbackIgnoring
    <3>4. PICK durable : IsSession(session', TRUE, <<>>, durable)
      BY <1>0, <3>3, AutocommitIs, EndedIs
    <3>5. transaction_depth' = 0
      BY <1>11, <2>2 DEF HandleStartRollback
    <3>. QED  BY <3>4, <3>5, ModeClosed
  <2>3. CASE transaction_depth > 1
    <3>0. transaction_depth # 0
      BY <1>0, <2>3
    <3>1. transaction_depth' = transaction_depth - 1
      BY <1>11, <2>3 DEF HandleStartRollback
    <3>2. CASE HasMark(session.log, transaction_depth - 1)
               /\ session' = RollbackTransaction(session, transaction_depth - 1)
      BY <1>5, <1>9, <2>3, <3>1, <3>2
    <3>3. CASE UNCHANGED session
      <4>1. session'.autocommit = FALSE
        BY <1>1, <3>0, <3>3
      <4>. QED  BY <1>5, <2>3, <3>1, <4>1
    <3>. QED  BY <1>11, <2>3, <3>2, <3>3 DEF HandleStartRollback
  <2>. QED  BY <1>0, <2>1, <2>2, <2>3
<1>12. ASSUME NEW w \in Work, HandleExecute(w)
       PROVE  ManualModeIffOpen'
  <2>1. CASE transaction_depth = 0
    <3>1. session' = Execute(session, w) /\ transaction_depth' = 0
      BY <1>2, <1>12, <2>1 DEF HandleExecute
    <3>2. PICK durable : IsSession(session', TRUE, <<>>, durable)
      BY <1>0, <1>2, <2>1, <3>1, ExecuteIs
    <3>. QED  BY <3>1, <3>2, ModeClosed
  <2>2. CASE transaction_depth # 0
    <3>1. Execute(session, w).autocommit = FALSE
      BY <1>0, <1>1, <2>2, ExecuteIs DEF IsSession
    <3>2. Abort(session).autocommit = FALSE
      BY <1>0, <1>1, <2>2, EndTranIs DEF Abort, EndTranRollback, IsSession
    <3>. QED  BY <1>4, <1>12, <2>2, <3>1, <3>2 DEF HandleExecute
  <2>. QED  BY <2>1, <2>2
<1>. QED  BY <1>3, <1>6, <1>8, <1>10, <1>11, <1>12 DEF Handled

(* Unless StartRollback silently fails to restore autocommit, the          *)
(* connection is in manual-commit mode exactly while a transaction is open *)
(* (actor.rs:346-469), whatever else fails and whatever the server aborts. *)
THEOREM ActorLeavesNoManualMode ==
  RestoreNeverSilent => (ActorSpec => []ManualModeIffOpen)
<1>. SUFFICES ASSUME RestoreNeverSilent  PROVE ActorSpec => []ManualModeIffOpen
  OBVIOUS
<1>1. ActorInit => ManualModeIffOpen
  BY InitInv DEF ActorInv
<1>2. ActorTypeOK /\ ManualModeIffOpen /\ [ActorNext]_actorVars
        => ManualModeIffOpen'
  BY ModeStep, NextIsHandled
<1>. QED  BY <1>1, <1>2, ActorTypeCorrect, PTL DEF ActorSpec

(* Whatever fails, inside a transaction the connection is in manual-commit *)
(* mode.                                                                   *)
ManualInside == transaction_depth > 0 => session.autocommit = FALSE

LEMMA ManualStays ==
  ASSUME ActorTypeOK, ManualInside, Handled
  PROVE  ManualInside'
<1>0. transaction_depth \in Nat /\ session \in Session
  BY DEF ActorTypeOK
<1>1. CASE UNCHANGED actorVars
  BY <1>1 DEF actorVars, ManualInside
<1>2. ASSUME transaction_depth > 0, session'.autocommit = session.autocommit
      PROVE  ManualInside'
  BY <1>2 DEF ManualInside
<1>3. ASSUME transaction_depth' = 0
      PROVE  ManualInside'
  BY <1>3 DEF ManualInside
<1>4. /\ EndTranCommit(session).autocommit = session.autocommit
      /\ EndTranRollback(session).autocommit = session.autocommit
      /\ Abort(session).autocommit = session.autocommit
  BY <1>0, EndTranIs DEF Abort, EndTranRollback, IsSession
<1>5. ASSUME transaction_depth > 1, HasMark(session.log, transaction_depth - 1),
             session' = RollbackTransaction(session, transaction_depth - 1)
      PROVE  ManualInside'
  <2>1. transaction_depth - 1 \in Nat
    BY <1>0, <1>5
  <2>2. session'.autocommit = session.autocommit
    BY <1>0, <1>5, <2>1, RollbackToIs DEF IsSession
  <2>3. transaction_depth > 0
    BY <1>0, <1>5
  <2>. QED  BY <1>2, <2>2, <2>3
<1>6. ASSUME transaction_depth > 1, UNCHANGED session
      PROVE  ManualInside'
  <2>1. transaction_depth > 0
    BY <1>0, <1>6
  <2>. QED  BY <1>2, <1>6, <2>1
<1>7. ASSUME NEW ended \in {EndTranCommit(session), EndTranRollback(session)},
             NEW r, transaction_depth = 1, RestoreAutocommit(ended, r)
      PROVE  ManualInside'
  <2>1. CASE transaction_depth' = 0
    BY <1>3, <2>1
  <2>2. CASE session' = ended
    <3>1. session'.autocommit = session.autocommit
      BY <1>4, <2>2
    <3>2. transaction_depth > 0
      BY <1>7
    <3>. QED  BY <1>2, <3>1, <3>2
  <2>. QED  BY <1>7, <2>1, <2>2 DEF RestoreAutocommit
<1>8. ASSUME NEW r, HandleBegin(r)
      PROVE  ManualInside'
  <2>1. AutocommitOff(session).autocommit = FALSE
    BY <1>0, AutocommitIs DEF IsSession
  <2>2. SaveTransaction(session, transaction_depth).autocommit = session.autocommit
    BY <1>0, SaveIs DEF IsSession
  <2>3. CASE session' = AutocommitOff(session)
    BY <2>1, <2>3 DEF ManualInside
  <2>4. CASE transaction_depth > 0 /\ session' = SaveTransaction(session, transaction_depth)
    BY <1>2, <2>2, <2>4
  <2>. QED  BY <1>1, <1>8, <2>3, <2>4 DEF HandleBegin
<1>9. ASSUME NEW r, HandleCommit(r)
      PROVE  ManualInside'
  BY <1>1, <1>6, <1>7, <1>9 DEF HandleCommit
<1>10. ASSUME NEW r, HandleRollback(r)
       PROVE  ManualInside'
  BY <1>1, <1>5, <1>7, <1>10 DEF HandleRollback
<1>11. ASSUME HandleStartRollback
       PROVE  ManualInside'
  BY <1>1, <1>3, <1>5, <1>6, <1>11 DEF HandleStartRollback
<1>12. ASSUME NEW w \in Work, HandleExecute(w)
       PROVE  ManualInside'
  <2>1. CASE transaction_depth = 0
    <3>1. transaction_depth' = 0
      BY <1>12, <2>1 DEF HandleExecute
    <3>. QED  BY <1>3, <3>1
  <2>2. CASE transaction_depth # 0
    <3>1. transaction_depth > 0 /\ session.autocommit = FALSE
      BY <1>0, <2>2 DEF ManualInside
    <3>2. Execute(session, w).autocommit = session.autocommit
      BY <1>0, <3>1, ExecuteIs DEF IsSession
    <3>3. session'.autocommit = session.autocommit
      BY <1>4, <1>12, <3>2 DEF HandleExecute
    <3>. QED  BY <1>2, <3>1, <3>3
  <2>. QED  BY <2>1, <2>2
<1>. QED  BY <1>1, <1>8, <1>9, <1>10, <1>11, <1>12 DEF Handled

(* A step in manual-commit mode makes nothing durable, unless it ends the  *)
(* outermost transaction.                                                  *)
LEMMA DurableKept ==
  ASSUME ActorTypeOK, Handled, session.autocommit # TRUE, transaction_depth # 1
  PROVE  session'.durable = session.durable
<1>0. transaction_depth \in Nat /\ session \in Session
  BY DEF ActorTypeOK
<1>1. CASE UNCHANGED actorVars
  BY <1>1 DEF actorVars
<1>2. CASE UNCHANGED session
  BY <1>2
<1>3. ASSUME NEW r, HandleBegin(r)
      PROVE  session'.durable = session.durable
  <2>1. AutocommitOff(session).durable = session.durable
    BY <1>0, AutocommitIs DEF IsSession
  <2>2. SaveTransaction(session, transaction_depth).durable = session.durable
    BY <1>0, SaveIs DEF IsSession
  <2>. QED  BY <1>1, <1>3, <2>1, <2>2 DEF HandleBegin
<1>4. ASSUME NEW r, HandleCommit(r)
      PROVE  session'.durable = session.durable
  BY <1>1, <1>2, <1>4 DEF HandleCommit
<1>5. ASSUME transaction_depth > 1, HasMark(session.log, transaction_depth - 1)
      PROVE  RollbackTransaction(session, transaction_depth - 1).durable
               = session.durable
  <2>1. transaction_depth - 1 \in Nat
    BY <1>0, <1>5
  <2>. QED  BY <1>0, <1>5, <2>1, RollbackToIs DEF IsSession
<1>6. ASSUME NEW r, HandleRollback(r)
      PROVE  session'.durable = session.durable
  BY <1>1, <1>5, <1>6 DEF HandleRollback
<1>7. ASSUME HandleStartRollback
      PROVE  session'.durable = session.durable
  <2>1. CASE transaction_depth = 0
    BY <1>1, <1>7, <2>1 DEF HandleStartRollback
  <2>2. CASE transaction_depth > 1
    BY <1>2, <1>5, <1>7, <2>2 DEF HandleStartRollback
  <2>. QED  BY <1>0, <2>1, <2>2
<1>8. ASSUME NEW w \in Work, HandleExecute(w)
      PROVE  session'.durable = session.durable
  <2>1. Execute(session, w).durable = session.durable
    <3>1. ~session.autocommit
      BY <1>0 DEF Session
    <3>. QED  BY <1>0, <3>1, ExecuteIs DEF IsSession
  <2>2. Abort(session).durable = session.durable
    BY <1>0, EndTranIs DEF Abort, EndTranRollback, IsSession
  <2>. QED  BY <1>8, <2>1, <2>2 DEF HandleExecute
<1>. QED  BY <1>1, <1>3, <1>4, <1>6, <1>7, <1>8 DEF Handled

(* Whatever fails, work done in manual-commit mode becomes durable only    *)
(* when the outermost transaction ends (actor.rs:365, 402, 435 and 465).   *)
THEOREM ActorCommitsOnlyOutermost == ActorSpec => OnlyOutermostCommits
<1>1. ASSUME ActorTypeOK, [ActorNext]_actorVars,
             session'.durable # session.durable
      PROVE  session.autocommit \/ transaction_depth = 1
  <2>1. session.autocommit = TRUE \/ transaction_depth = 1
    BY <1>1, DurableKept, NextIsHandled
  <2>. QED  BY <2>1
<1>2. ActorTypeOK /\ [ActorNext]_actorVars
        => [session'.durable # session.durable =>
              session.autocommit \/ transaction_depth = 1]_actorVars
  BY <1>1
<1>. QED  BY <1>2, ActorTypeCorrect, PTL DEF ActorSpec, OnlyOutermostCommits

(* While every failure is reported and the server aborts nothing, every    *)
(* open nested transaction finds its own savepoint when it rolls back      *)
(* (actor.rs:363 and 435).                                                 *)
THEOREM ActorKeepsSavepoints ==
  AllFailuresReported => (ActorSpec => []SavepointsInPlace)
<1>. SUFFICES ASSUME AllFailuresReported  PROVE ActorSpec => []SavepointsInPlace
  OBVIOUS
<1>1. ActorInv => SavepointsInPlace
  BY DEF ActorInv
<1>. QED  BY <1>1, ActorInvariance, PTL

-----------------------------------------------------------------------------
(* The refinement. *)
LEMMA ViewsIs ==
  ASSUME NEW s \in Session, NEW n \in Nat
  PROVE  /\ Views(s, n) \in Seq(SUBSET Work)
         /\ Len(Views(s, n)) = n
         /\ \A k \in 1..n : Views(s, n)[k] = ViewAt(s, k)
         /\ View(s) \in SUBSET Work
<1>1. s.durable \subseteq Work
  BY DEF Session
<1>2. \A k \in 1..n : ViewAt(s, k) \in SUBSET Work
  BY <1>1 DEF ViewAt, WorkUpTo
<1>3. View(s) \in SUBSET Work
  BY <1>1 DEF View, WorkIn
<1>. QED  BY <1>1, <1>2, <1>3 DEF Views

(* Two sequences of views are equal when they have the same length and     *)
(* the same entries.                                                       *)
LEMMA SameViews ==
  ASSUME NEW s \in Seq(SUBSET Work), NEW t \in Seq(SUBSET Work),
         Len(s) = Len(t), \A k \in 1..Len(s) : s[k] = t[k]
  PROVE  s = t
  OBVIOUS

(* The stack without its innermost transaction. *)
LEMMA OuterIs ==
  ASSUME NEW s \in Seq(SUBSET Work), Len(s) >= 1
  PROVE  /\ Nested!Outer(s) \in Seq(SUBSET Work)
         /\ Len(Nested!Outer(s)) = Len(s) - 1
         /\ \A k \in 1..(Len(s) - 1) : Nested!Outer(s)[k] = s[k]
<1>1. Len(s) - 1 \in 0..Len(s)
  OBVIOUS
<1>2. \A i \in 0..Len(s) : /\ SubSeq(s, 1, i) \in Seq(SUBSET Work)
                           /\ Len(SubSeq(s, 1, i)) = i
                           /\ \A j \in 1..i : SubSeq(s, 1, i)[j] = s[j]
  OBVIOUS
<1>. QED  BY <1>1, <1>2 DEF Nested!Outer

(* The stack with one transaction more. *)
LEMMA PushIs ==
  ASSUME NEW s \in Seq(SUBSET Work), NEW v \in SUBSET Work
  PROVE  /\ Append(s, v) \in Seq(SUBSET Work)
         /\ Len(Append(s, v)) = Len(s) + 1
         /\ \A k \in 1..Len(s) : Append(s, v)[k] = s[k]
         /\ Append(s, v)[Len(s) + 1] = v
  OBVIOUS

(* A handler that changes nothing is a stutter. *)
LEMMA StutterMaps ==
  ASSUME UNCHANGED actorVars
  PROVE  UNCHANGED Nested!vars
  BY DEF actorVars, Nested!vars

(* A new actor is an empty stack. *)
LEMMA InitMaps == ActorInit => Nested!Init
<1>. SUFFICES ASSUME ActorInit PROVE Nested!Init
  OBVIOUS
<1>1. session.durable = {} /\ session.log = <<>> /\ transaction_depth = 0
  BY DEF ActorInit, NewSession
<1>2. Views(session, transaction_depth) = <<>>
  BY <1>1 DEF Views
<1>3. View(session) = {}
  BY <1>1, EmptyLogHasNoWork DEF View
<1>. QED  BY <1>1, <1>2, <1>3 DEF Nested!Init

(* Opening a transaction pushes the present view. *)
LEMMA BeginMaps ==
  ASSUME ActorInv, NEW r, HandleBegin(r)
  PROVE  /\ r = "ok" => Nested!Begin
         /\ r # "ok" => Stutter
<1>1. /\ transaction_depth \in Nat /\ session \in Session /\ session.log \in Seq(Entry)
      /\ ManualModeIffOpen /\ SavepointsInPlace
  BY DEF ActorInv, ActorTypeOK, Session
<1>2. ActorInv'
  BY BeginInv
<1>3. transaction_depth' \in Nat /\ session' \in Session
  BY <1>2 DEF ActorInv, ActorTypeOK
<1>. DEFINE old == Views(session, transaction_depth)
            new == Views(session', transaction_depth')
<1>4. /\ old \in Seq(SUBSET Work) /\ Len(old) = transaction_depth
      /\ \A k \in 1..transaction_depth : old[k] = ViewAt(session, k)
      /\ View(session) \in SUBSET Work
  BY <1>1, ViewsIs
<1>5. /\ new \in Seq(SUBSET Work) /\ Len(new) = transaction_depth'
      /\ \A k \in 1..transaction_depth' : new[k] = ViewAt(session', k)
  BY <1>3, ViewsIs
<1>6. CASE /\ r = "ok" /\ transaction_depth = 0 /\ transaction_depth' = 1
           /\ session' = AutocommitOff(session)
  <2>1. session'.log = session.log /\ session'.durable = session.durable
    BY <1>1, <1>6, AutocommitIs DEF IsSession
  <2>2. View(session') = View(session) /\ View(session) = session.durable
    BY <1>1, <1>6, <2>1, EmptyLogHasNoWork DEF View, ManualModeIffOpen
  <2>3. ViewAt(session', 1) = View(session)
    BY <2>1, <2>2 DEF ViewAt
  <2>4. new = Append(old, View(session))
    <3>1. /\ Append(old, View(session)) \in Seq(SUBSET Work)
          /\ Len(Append(old, View(session))) = 1
          /\ Append(old, View(session))[1] = View(session)
      BY <1>4, <1>6, PushIs
    <3>2. Len(new) = 1 /\ new[1] = View(session)
      BY <1>5, <1>6, <2>3
    <3>. HIDE DEF old, new
    <3>. QED  BY <1>5, <3>1, <3>2, SameViews
  <2>5. Nested!Begin
    BY <2>1, <2>2, <2>4 DEF Nested!Begin
  <2>. QED  BY <1>6, <2>5
<1>7. CASE /\ r = "ok" /\ transaction_depth > 0
           /\ transaction_depth' = transaction_depth + 1
           /\ session' = SaveTransaction(session, transaction_depth)
  <2>. DEFINE d == transaction_depth
              l == Append(session.log, MarkEntry(d))
  <2>1. session'.log = l /\ session'.durable = session.durable
    BY <1>1, <1>7, SaveIs DEF IsSession
  <2>2. l \in Seq(Entry) /\ Len(l) = Len(session.log) + 1
    BY <1>1, LogBasics, EntriesTyped
  <2>3. WorkIn(l) = WorkIn(session.log)
    BY <1>1, WorkAppended
  <2>4. View(session') = View(session)
    BY <2>1, <2>3 DEF View
  <2>5. ASSUME NEW k \in 1..d  PROVE ViewAt(session', k) = ViewAt(session, k)
    <3>1. CASE k = 1
      BY <3>1, <2>1 DEF ViewAt
    <3>2. CASE k # 1
      <4>1. k - 1 \in 1..(d - 1)
        BY <1>1, <3>2
      <4>2. HasMark(session.log, k - 1)
        BY <4>1, <1>1 DEF SavepointsInPlace, InPlace
      <4>3. MarkEntry(d) # MarkEntry(k - 1) /\ MarkEntry(d) \in Entry
        BY <1>1, EntriesTyped DEF MarkEntry
      <4>4. LastMark(l, k - 1) = LastMark(session.log, k - 1)
        BY <1>1, <4>2, <4>3, KeptMark
      <4>5. LastMark(session.log, k - 1) \in 1..Len(session.log)
        BY <1>1, <4>2, LastMarkIs
      <4>6. WorkUpTo(l, LastMark(l, k - 1))
              = WorkUpTo(session.log, LastMark(session.log, k - 1))
        BY <1>1, <4>3, <4>4, <4>5, WorkAppended
      <4>. QED  BY <2>1, <3>2, <4>6 DEF ViewAt
    <3>. QED  BY <3>1, <3>2
  <2>6. ViewAt(session', d + 1) = View(session)
    <3>1. LastMark(l, d) = Len(l)
      BY <1>1, <2>2, SavedMark
    <3>2. WorkUpTo(l, LastMark(l, d)) = WorkIn(session.log)
      BY <2>2, <2>3, <3>1, WorkAppended
    <3>3. d + 1 # 1 /\ (d + 1) - 1 = d
      BY <1>1, <1>7
    <3>. HIDE DEF l
    <3>. QED  BY <2>1, <3>2, <3>3 DEF ViewAt, View
  <2>7. new = Append(old, View(session))
    <3>1. \A k \in 1..(d + 1) : new[k] = Append(old, View(session))[k]
      BY <1>1, <1>4, <1>5, <1>7, <2>5, <2>6, PushIs
    <3>. QED  BY <1>1, <1>4, <1>5, <1>7, <3>1, PushIs, SameViews
  <2>8. Nested!Begin
    BY <2>1, <2>4, <2>7 DEF Nested!Begin
  <2>. QED  BY <1>7, <2>8
<1>8. CASE r = "err" /\ UNCHANGED actorVars
  BY <1>8, StutterMaps DEF Stutter
<1>. QED  BY <1>6, <1>7, <1>8 DEF HandleBegin

(* Ending the outermost transaction leaves no transaction, or, when        *)
(* autocommit cannot be restored, a fresh one.                             *)
LEMMA EndedMaps ==
  ASSUME ActorInv, transaction_depth = 1, NEW durable,
         \/ /\ transaction_depth' = 0
            /\ IsSession(session', TRUE, <<>>, durable)
         \/ /\ transaction_depth' = 1
            /\ IsSession(session', FALSE, <<>>, durable)
  PROVE  /\ Views(session, transaction_depth) = <<session.durable>>
         /\ View(session') = durable
         /\ session'.durable = durable
         /\ Views(session', transaction_depth')
              = IF transaction_depth' = 0 THEN <<>> ELSE <<durable>>
<1>1. session \in Session
  BY DEF ActorInv, ActorTypeOK
<1>2. session'.log = <<>> /\ session'.durable = durable
  BY DEF IsSession
<1>3. View(session') = durable
  BY <1>2, EmptyLogHasNoWork DEF View
<1>4. Views(session, transaction_depth) = <<session.durable>>
  BY DEF Views, ViewAt
<1>5. Views(session', 0) = <<>>
  BY DEF Views
<1>6. Views(session', 1) = <<durable>>
  BY <1>2 DEF Views, ViewAt
<1>7. transaction_depth' \in {0, 1}
  OBVIOUS
<1>. QED  BY <1>2, <1>3, <1>4, <1>5, <1>6, <1>7

(* Commit is a Commit of the stack, a CommitAndChain, or a stutter. *)
LEMMA CommitMaps ==
  ASSUME ActorInv, NEW r, HandleCommit(r)
  PROVE  /\ r = "ok" /\ transaction_depth > 0 => Nested!Commit
         /\ r = "ok" /\ transaction_depth = 0 => Stutter
         /\ r # "ok" => Nested!CommitAndChain \/ Stutter
<1>1. transaction_depth \in Nat /\ session \in Session
  BY DEF ActorInv, ActorTypeOK
<1>2. CASE transaction_depth = 1 /\ RestoreAutocommit(EndTranCommit(session), r)
  <2>1. session.autocommit = FALSE
    BY <1>1, <1>2 DEF ActorInv, ManualModeIffOpen, Session
  <2>2. \/ /\ transaction_depth' = 0
           /\ IsSession(session', TRUE, <<>>, View(session))
        \/ /\ transaction_depth' = 1
           /\ IsSession(session', FALSE, <<>>, View(session))
    BY <1>1, <1>2, <2>1, EndTranIs, EndedIs DEF RestoreAutocommit, View
  <2>3. /\ Views(session, transaction_depth) = <<session.durable>>
        /\ View(session') = View(session) /\ session'.durable = View(session)
        /\ Views(session', transaction_depth')
             = IF transaction_depth' = 0 THEN <<>> ELSE <<View(session)>>
    BY <1>2, <2>2, EndedMaps
  <2>4. CASE r = "ok" /\ transaction_depth' = 0
    <3>1. Nested!Commit
      BY <2>3, <2>4 DEF Nested!Commit, Nested!Outer
    <3>. QED  BY <1>2, <2>4, <3>1
  <2>5. CASE r = "err" /\ transaction_depth' = 1
    <3>1. Nested!CommitAndChain
      BY <2>3, <2>5 DEF Nested!CommitAndChain
    <3>. QED  BY <2>5, <3>1
  <2>. QED  BY <1>2, <2>4, <2>5 DEF RestoreAutocommit
<1>3. CASE /\ (transaction_depth = 0 /\ r = "ok") \/ r = "err"
           /\ UNCHANGED actorVars
  BY <1>3, StutterMaps DEF Stutter
<1>4. CASE /\ r = "ok" /\ transaction_depth > 1 /\ UNCHANGED session
           /\ transaction_depth' = transaction_depth - 1
  <2>0. transaction_depth > 1
    BY <1>4
  <2>. DEFINE old == Views(session, transaction_depth)
              new == Views(session, transaction_depth - 1)
  <2>1. /\ old \in Seq(SUBSET Work) /\ Len(old) = transaction_depth
        /\ \A k \in 1..transaction_depth : old[k] = ViewAt(session, k)
        /\ new \in Seq(SUBSET Work) /\ Len(new) = transaction_depth - 1
        /\ \A k \in 1..(transaction_depth - 1) : new[k] = ViewAt(session, k)
    BY <1>1, <1>4, ViewsIs
  <2>2. new = Nested!Outer(old)
    <3>. HIDE DEF old, new
    <3>0. /\ Len(Nested!Outer(old)) = Len(old) - 1
          /\ \A k \in 1..(Len(old) - 1) : Nested!Outer(old)[k] = old[k]
      BY <1>1, <2>0, <2>1, OuterIs
    <3>1. \A k \in 1..(transaction_depth - 1) : new[k] = Nested!Outer(old)[k]
      BY <1>1, <2>0, <2>1, <3>0
    <3>2. Nested!Outer(old) \in Seq(SUBSET Work) /\ Len(Nested!Outer(old)) = Len(new)
      BY <1>1, <1>4, <2>1, OuterIs
    <3>. QED  BY <2>1, <3>1, <3>2, SameViews
  <2>3. old # <<>> /\ Len(old) # 1
    BY <1>1, <1>4, <2>1
  <2>. HIDE DEF old, new
  <2>4. Views(session', transaction_depth') = new
    BY <1>4 DEF new
  <2>5. Nested!Commit
    BY <1>4, <2>2, <2>3, <2>4 DEF Nested!Commit, old
  <2>. QED  BY <1>1, <1>4, <2>5
<1>. QED  BY <1>2, <1>3, <1>4 DEF HandleCommit

(* Rollback is a Rollback of the stack, a RollbackAndChain, or a stutter. *)
LEMMA RollbackMaps ==
  ASSUME ActorInv, NEW r, HandleRollback(r)
  PROVE  /\ r = "ok" /\ transaction_depth > 0 => Nested!Rollback
         /\ r = "ok" /\ transaction_depth = 0 => Stutter
         /\ r # "ok" => Nested!RollbackAndChain \/ Stutter
<1>1. /\ transaction_depth \in Nat /\ session \in Session /\ session.log \in Seq(Entry)
      /\ SavepointsInPlace
  BY DEF ActorInv, ActorTypeOK, Session
<1>2. CASE transaction_depth = 1 /\ RestoreAutocommit(EndTranRollback(session), r)
  <2>1. session.autocommit = FALSE
    BY <1>1, <1>2 DEF ActorInv, ManualModeIffOpen, Session
  <2>2. \/ /\ transaction_depth' = 0
           /\ IsSession(session', TRUE, <<>>, session.durable)
        \/ /\ transaction_depth' = 1
           /\ IsSession(session', FALSE, <<>>, session.durable)
    BY <1>1, <1>2, <2>1, EndTranIs, EndedIs DEF RestoreAutocommit
  <2>3. /\ Views(session, transaction_depth) = <<session.durable>>
        /\ View(session') = session.durable /\ session'.durable = session.durable
        /\ Views(session', transaction_depth')
             = IF transaction_depth' = 0 THEN <<>> ELSE <<session.durable>>
    BY <1>2, <2>2, EndedMaps
  <2>4. CASE r = "ok" /\ transaction_depth' = 0
    <3>1. Nested!Rollback
      BY <2>3, <2>4 DEF Nested!Rollback, Nested!Outer
    <3>. QED  BY <1>2, <2>4, <3>1
  <2>5. CASE r = "err" /\ transaction_depth' = 1
    <3>1. Nested!RollbackAndChain
      BY <2>3, <2>5 DEF Nested!RollbackAndChain
    <3>. QED  BY <2>5, <3>1
  <2>. QED  BY <1>2, <2>4, <2>5 DEF RestoreAutocommit
<1>3. CASE /\ (transaction_depth = 0 /\ r = "ok") \/ r = "err"
           /\ UNCHANGED actorVars
  BY <1>3, StutterMaps DEF Stutter
<1>4. CASE /\ r = "ok" /\ transaction_depth > 1
           /\ session' = RollbackTransaction(session, transaction_depth - 1)
           /\ transaction_depth' = transaction_depth - 1
  <2>0. transaction_depth > 1
    BY <1>4
  <2>. DEFINE m == transaction_depth - 1
              i == LastMark(session.log, m)
              l == SubSeq(session.log, 1, i)
              old == Views(session, transaction_depth)
              new == Views(session', transaction_depth')
  <2>1. m \in Nat \ {0} /\ m \in 1..m /\ InPlace(session.log, m)
    BY <1>1, <1>4 DEF SavepointsInPlace
  <2>2. HasMark(session.log, m) /\ i \in 1..Len(session.log)
    <3>. HIDE DEF m
    <3>1. HasMark(session.log, m)
      BY <2>1 DEF InPlace
    <3>. QED  BY <1>1, <3>1, LastMarkIs
  <2>3. session'.log = l /\ session'.durable = session.durable /\ session' \in Session
    BY <1>1, <1>4, <2>1, <2>2, RollbackToIs DEF IsSession
  <2>4. /\ WorkIn(l) = WorkUpTo(session.log, i)
        /\ \A j \in 0..i : WorkUpTo(l, j) = WorkUpTo(session.log, j)
    BY <1>1, <2>2, WorkCut
  <2>5. View(session') = ViewAt(session, transaction_depth)
    <3>1. transaction_depth # 1
      BY <1>1, <1>4
    <3>2. ViewAt(session, transaction_depth)
            = session.durable \cup WorkUpTo(session.log, i)
      BY <3>1 DEF ViewAt
    <3>. HIDE DEF l, i
    <3>. QED  BY <2>3, <2>4, <3>2 DEF View
  <2>6. ASSUME NEW k \in 1..m  PROVE ViewAt(session', k) = ViewAt(session, k)
    <3>1. CASE k = 1
      BY <3>1, <2>3 DEF ViewAt
    <3>2. CASE k # 1
      <4>. HIDE DEF m
      <4>1. k - 1 \in 1..m /\ k - 1 < m
        BY <2>1, <3>2
      <4>2. HasMark(session.log, k - 1)
        BY <2>1, <4>1 DEF InPlace
      <4>3. LastMark(session.log, k - 1) \in 1..Len(session.log)
        BY <1>1, <4>2, LastMarkIs
      <4>4. LastMark(session.log, k - 1) \in 0..i
        BY <2>1, <2>2, <4>1, <4>3 DEF InPlace
      <4>5. LastMark(l, k - 1) = LastMark(session.log, k - 1)
        BY <1>1, <2>1, <4>1, InPlaceCut
      <4>. HIDE DEF i, l
      <4>6. WorkUpTo(l, LastMark(l, k - 1))
              = WorkUpTo(session.log, LastMark(session.log, k - 1))
        BY <2>4, <4>4, <4>5
      <4>. QED  BY <2>3, <3>2, <4>6 DEF ViewAt
    <3>. QED  BY <3>1, <3>2
  <2>7. /\ old \in Seq(SUBSET Work) /\ Len(old) = transaction_depth
        /\ \A k \in 1..transaction_depth : old[k] = ViewAt(session, k)
    BY <1>1, ViewsIs
  <2>8. /\ new \in Seq(SUBSET Work) /\ Len(new) = m
        /\ \A k \in 1..m : new[k] = ViewAt(session', k)
    BY <1>4, <2>1, <2>3, ViewsIs
  <2>. HIDE DEF old, new, l, i
  <2>9. new = Nested!Outer(old)
    <3>0. /\ Len(Nested!Outer(old)) = Len(old) - 1
          /\ \A k \in 1..(Len(old) - 1) : Nested!Outer(old)[k] = old[k]
      BY <1>1, <2>0, <2>7, OuterIs
    <3>1. \A k \in 1..m : new[k] = Nested!Outer(old)[k]
      BY <1>1, <2>0, <2>6, <2>7, <2>8, <3>0
    <3>2. Nested!Outer(old) \in Seq(SUBSET Work) /\ Len(Nested!Outer(old)) = Len(new)
      BY <1>1, <1>4, <2>7, <2>8, OuterIs
    <3>. QED  BY <2>8, <3>1, <3>2, SameViews
  <2>10. old # <<>> /\ View(session') = old[Len(old)]
    BY <1>1, <1>4, <2>5, <2>7
  <2>11. Nested!Rollback
    BY <2>3, <2>9, <2>10 DEF Nested!Rollback, old, new
  <2>. QED  BY <1>1, <1>4, <2>11
<1>. QED  BY <1>2, <1>3, <1>4 DEF HandleRollback

(* A statement is a Do of the stack. *)
LEMMA ExecuteMaps ==
  ASSUME ActorInv, AllFailuresReported, NEW w \in Work, HandleExecute(w)
  PROVE  Nested!Do(w)
<1>1. /\ session' = Execute(session, w) /\ transaction_depth' = transaction_depth
      /\ transaction_depth \in Nat /\ session \in Session /\ session.log \in Seq(Entry)
      /\ ManualModeIffOpen /\ SavepointsInPlace
  BY DEF HandleExecute, AllFailuresReported, ActorInv, ActorTypeOK, Session
<1>. DEFINE old == Views(session, transaction_depth)
            new == Views(session', transaction_depth)
<1>2. CASE transaction_depth = 0
  <2>1. session.autocommit /\ session.log = <<>>
    BY <1>1, <1>2 DEF ManualModeIffOpen
  <2>2. session'.log = <<>> /\ session'.durable = session.durable \cup {w}
    BY <1>1, <2>1, ExecuteIs DEF IsSession
  <2>3. /\ View(session) = session.durable
        /\ View(session') = session.durable \cup {w}
    BY <2>1, <2>2, EmptyLogHasNoWork DEF View
  <2>4. old = <<>> /\ new = <<>>
    BY <1>2 DEF Views
  <2>. HIDE DEF old, new
  <2>. QED  BY <1>1, <2>2, <2>3, <2>4 DEF Nested!Do, old, new
<1>3. CASE transaction_depth # 0
  <2>. DEFINE l == Append(session.log, WorkEntry(w))
  <2>1. ~session.autocommit
    BY <1>1, <1>3 DEF ManualModeIffOpen
  <2>2. session'.log = l /\ session'.durable = session.durable
    BY <1>1, <2>1, ExecuteIs DEF IsSession
  <2>3. WorkEntry(w) \in Entry
    BY EntriesTyped
  <2>4. View(session') = View(session) \cup {w}
    <3>1. WorkIn(l) = WorkIn(session.log) \cup {w}
      BY <1>1, WorkAppended
    <3>. HIDE DEF l
    <3>. QED  BY <2>2, <3>1 DEF View
  <2>5. ASSUME NEW k \in 1..transaction_depth
        PROVE  ViewAt(session', k) = ViewAt(session, k)
    <3>1. CASE k = 1
      BY <3>1, <2>2 DEF ViewAt
    <3>2. CASE k # 1
      <4>1. k - 1 \in 1..(transaction_depth - 1)
        BY <1>1, <3>2
      <4>2. HasMark(session.log, k - 1)
        BY <4>1, <1>1 DEF SavepointsInPlace, InPlace
      <4>3. LastMark(l, k - 1) = LastMark(session.log, k - 1)
        BY <1>1, <2>3, <4>2, EntriesDiffer, KeptMark
      <4>4. LastMark(session.log, k - 1) \in 0..Len(session.log)
        BY <1>1, <4>2, LastMarkIs
      <4>5. WorkUpTo(l, LastMark(l, k - 1))
              = WorkUpTo(session.log, LastMark(session.log, k - 1))
        BY <1>1, <2>3, <4>3, <4>4, WorkAppended
      <4>. QED  BY <2>2, <3>2, <4>5 DEF ViewAt
    <3>. QED  BY <3>1, <3>2
  <2>6. new = old
    BY <2>5 DEF Views
  <2>7. old # <<>>
    <3>1. Len(old) = transaction_depth
      BY <1>1, ViewsIs
    <3>. HIDE DEF old
    <3>. QED  BY <1>1, <1>3, <3>1
  <2>. HIDE DEF old, new
  <2>. QED  BY <1>1, <2>2, <2>4, <2>6, <2>7 DEF Nested!Do, old, new
<1>. QED  BY <1>2, <1>3

(* Every handler is a step of the stack or a stutter. *)
LEMMA NextMaps ==
  ASSUME ActorInv, AllFailuresReported, [ActorNext]_actorVars
  PROVE  [Nested!Next]_Nested!vars
<1>0. transaction_depth > 0 \/ transaction_depth = 0
  BY DEF ActorInv, ActorTypeOK
<1>1. CASE \E r \in Result : HandleBegin(r)
  BY <1>1, BeginMaps DEF Stutter, Nested!Next
<1>2. CASE \E r \in Result : HandleCommit(r)
  BY <1>0, <1>2, CommitMaps DEF Stutter, Nested!Next
<1>3. CASE \E r \in Result : HandleRollback(r)
  BY <1>0, <1>3, RollbackMaps DEF Stutter, Nested!Next
<1>4. CASE HandleStartRollback
  BY <1>0, <1>4, StartRollbackIs, RollbackMaps DEF Stutter, Nested!Next
<1>5. CASE \E w \in Work : HandleExecute(w)
  BY <1>5, ExecuteMaps DEF Nested!Next
<1>6. CASE UNCHANGED actorVars
  BY <1>6, StutterMaps
<1>. QED  BY <1>1, <1>2, <1>3, <1>4, <1>5, <1>6 DEF ActorNext, Commands

(* The actor implements nested transactions, whatever the depth, the work  *)
(* and the failures that are reported: a rollback, dropped or awaited,     *)
(* nested or outermost, undoes exactly what its transaction did, and       *)
(* nothing is durable before the outermost commit (actor.rs:346-469).      *)
THEOREM ActorImplementsNestedTransactions ==
  AllFailuresReported => (ActorSpec => ImplementsNestedTransactions)
<1>. SUFFICES ASSUME AllFailuresReported
              PROVE  ActorSpec => ImplementsNestedTransactions
  OBVIOUS
<1>1. ActorInv /\ [ActorNext]_actorVars => [Nested!Next]_Nested!vars
  BY NextMaps
<1>. QED
  BY <1>1, InitMaps, ActorInvariance, PTL
     DEF ActorSpec, ImplementsNestedTransactions, Nested!Spec

(* What a handler answers is what it did, as long as every failure is      *)
(* reported: Ok means the step asked for, an error that nothing happened   *)
(* or that a fresh transaction is open, and a drop is a rollback           *)
(* (actor.rs:346-469).                                                     *)
THEOREM ActorRepliesAreTrue ==
  AllFailuresReported => (ActorSpec => RepliesAreTrue)
<1>. SUFFICES ASSUME AllFailuresReported  PROVE ActorSpec => RepliesAreTrue
  OBVIOUS
<1>. DEFINE Truth ==
       /\ HandleBegin("ok") => Nested!Begin
       /\ HandleBegin("err") => Stutter
       /\ HandleCommit("ok") /\ transaction_depth > 0 => Nested!Commit
       /\ HandleCommit("err") => Nested!CommitAndChain \/ Stutter
       /\ HandleRollback("ok") /\ transaction_depth > 0 => Nested!Rollback
       /\ HandleRollback("err") => Nested!RollbackAndChain \/ Stutter
       /\ HandleStartRollback /\ transaction_depth > 0 => Nested!Rollback
<1>1. ActorInv /\ [ActorNext]_actorVars => [Truth]_actorVars
  <2>. SUFFICES ASSUME ActorInv  PROVE Truth
    OBVIOUS
  <2>1. /\ HandleBegin("ok") => Nested!Begin
        /\ HandleBegin("err") => Stutter
    BY BeginMaps
  <2>2. /\ HandleCommit("ok") /\ transaction_depth > 0 => Nested!Commit
        /\ HandleCommit("err") => Nested!CommitAndChain \/ Stutter
    BY CommitMaps
  <2>3. /\ HandleRollback("ok") /\ transaction_depth > 0 => Nested!Rollback
        /\ HandleRollback("err") => Nested!RollbackAndChain \/ Stutter
    BY RollbackMaps
  <2>4. HandleStartRollback /\ transaction_depth > 0 => Nested!Rollback
    BY StartRollbackIs, RollbackMaps
  <2>. QED  BY <2>1, <2>2, <2>3, <2>4
<1>. QED  BY <1>1, ActorInvariance, PTL DEF ActorSpec, RepliesAreTrue
=============================================================================
