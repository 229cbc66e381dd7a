-------------------------- MODULE MigrationsProofs --------------------------
(***************************************************************************)
(* Proofs about Migrations, for any number of migrators and migrations:    *)
(* what a handler may do to a connection that comes to it clean, the       *)
(* inductive invariant, and the properties that follow from it.            *)
(***************************************************************************)
EXTENDS Migrations, SetInduction

(* A connection in a mode, with or without an image of its own. *)
Pendings == {<<>>} \cup {<<i>> : i \in Image}

Conn == [autocommit : BOOLEAN, pending : Pendings]

(* With the database behind it, field by field. *)
IsView(c, autocommit, pending, image) ==
  /\ c \in [autocommit : BOOLEAN, pending : Pendings, db : Image]
  /\ c.autocommit = autocommit
  /\ c.pending = pending
  /\ c.db = image

Effect(image, kind, v, ks) ==
  [image EXCEPT !.done[v] = [k \in Batch |-> IF k \in ks THEN Times(kind, @[k]) ELSE @[k]]]

Record(image, kind, v) == [image EXCEPT !.rows[v] = Row(kind)]

Kinds == {"apply", "skip", "revert"}

(* A statement of a migration leaves an image whose other versions are as  *)
(* they were, and so does its tracking row.                                *)
LEMMA EffectIs ==
  ASSUME NEW image \in Image, NEW kind \in Kinds, NEW v \in Versions,
         NEW ks \in SUBSET Batch
  PROVE  /\ Effect(image, kind, v, ks) \in Image
         /\ Effect(image, kind, v, ks).rows = image.rows
         /\ \A u \in Versions \ {v} :
              Effect(image, kind, v, ks).done[u] = image.done[u]
         /\ \A k \in Batch :
              Effect(image, kind, v, ks).done[v][k] =
                IF k \in ks THEN Times(kind, image.done[v][k]) ELSE image.done[v][k]
<1>. DEFINE d == [k \in Batch |-> IF k \in ks THEN Times(kind, image.done[v][k])
                                  ELSE image.done[v][k]]
<1>1. \A n \in 0..2 : Times(kind, n) \in 0..2
  BY DEF Times
<1>2. d \in [Batch -> 0..2]
  BY <1>1 DEF Image
<1>3. Effect(image, kind, v, ks) = [image EXCEPT !.done[v] = d]
  BY DEF Effect
<1>. HIDE DEF d
<1>4. Effect(image, kind, v, ks) =
        [done |-> [image.done EXCEPT ![v] = d], rows |-> image.rows]
  BY <1>3 DEF Image
<1>. QED  BY <1>2, <1>4 DEF Image, d

LEMMA RecordIs ==
  ASSUME NEW image \in Image, NEW kind \in Kinds, NEW v \in Versions
  PROVE  /\ Record(image, kind, v) \in Image
         /\ Record(image, kind, v).done = image.done
         /\ \A u \in Versions \ {v} : Record(image, kind, v).rows[u] = image.rows[u]
         /\ Record(image, kind, v).rows[v] = Row(kind)
<1>1. Row(kind) \in {"absent", "full", "skipped"}
  BY DEF Row, Kinds
<1>2. Record(image, kind, v) =
        [done |-> image.done, rows |-> [image.rows EXCEPT ![v] = Row(kind)]]
  BY DEF Record, Image
<1>. QED  BY <1>1, <1>2 DEF Image

-----------------------------------------------------------------------------
(* What the calls of a handler do to a connection. *)
LEMMA PendingsAre ==
  /\ <<>> \in Pendings
  /\ \A i \in Image : <<i>> \in Pendings /\ <<i>> # <<>> /\ <<i>>[1] = i
  BY DEF Pendings

LEMMA WriteIs ==
  ASSUME NEW c, NEW a, NEW p, NEW i, NEW x \in Image, IsView(c, a, p, i)
  PROVE  /\ a => IsView(Write(c, x), TRUE, p, x)
         /\ ~a => IsView(Write(c, x), FALSE, <<x>>, i)
<1>1. CASE c.autocommit
  BY <1>1 DEF IsView, Write
<1>2. CASE ~c.autocommit
  BY <1>2, PendingsAre DEF IsView, Write
<1>. QED  BY <1>1, <1>2 DEF IsView

LEMMA SeenIs ==
  ASSUME NEW c, NEW a, NEW i, NEW x \in Image
  PROVE  /\ IsView(c, a, <<>>, i) => Seen(c) = i
         /\ IsView(c, a, <<x>>, i) => Seen(c) = x
  BY PendingsAre DEF IsView, Seen

LEMMA EndIs ==
  ASSUME NEW c, NEW a, NEW i \in Image, NEW x \in Image
  PROVE  /\ IsView(c, a, <<>>, i) => IsView(Commit(c), a, <<>>, i)
         /\ IsView(c, a, <<x>>, i) => IsView(Commit(c), a, <<>>, x)
         /\ \A p : IsView(c, a, p, i) => IsView(Rollback(c), a, <<>>, i)
<1>1. ASSUME IsView(c, a, <<>>, i)  PROVE IsView(Commit(c), a, <<>>, i)
  BY <1>1, SeenIs, PendingsAre DEF IsView, Commit
<1>2. ASSUME IsView(c, a, <<x>>, i)  PROVE IsView(Commit(c), a, <<>>, x)
  <2>1. Seen(c) = x
    BY <1>2, SeenIs
  <2>. QED  BY <1>2, <2>1, PendingsAre DEF IsView, Commit
<1>3. ASSUME NEW p, IsView(c, a, p, i)  PROVE IsView(Rollback(c), a, <<>>, i)
  BY <1>3, PendingsAre DEF IsView, Rollback
<1>. QED  BY <1>1, <1>2, <1>3

LEMMA AutocommitIs ==
  ASSUME NEW c, NEW a, NEW i \in Image, NEW x \in Image
  PROVE  /\ IsView(c, a, <<>>, i) => IsView(AutocommitOn(c), TRUE, <<>>, i)
         /\ IsView(c, a, <<x>>, i) => IsView(AutocommitOn(c), TRUE, <<>>, x)
<1>1. ASSUME NEW d, NEW y, IsView(d, a, <<>>, y)
      PROVE  IsView([d EXCEPT !.autocommit = TRUE], TRUE, <<>>, y)
  BY <1>1 DEF IsView
<1>2. AutocommitOn(c) = [Commit(c) EXCEPT !.autocommit = TRUE]
  BY DEF AutocommitOn
<1>. QED  BY <1>1, <1>2, EndIs

LEMMA RanIs ==
  ASSUME NEW c, NEW kind, NEW v
  PROVE  /\ \A ks : Ran(c, kind, v, ks) = Write(c, Effect(Seen(c), kind, v, ks))
         /\ Tracked(c, kind, v) = Write(c, Record(Seen(c), kind, v))
  BY DEF Ran, Effect, Tracked, Record

(* What a handler makes of a connection that comes to it clean, running    *)
(* the migration in a transaction ...                                      *)
Final(kind, v) == Record(Effect(db, kind, v, Batch), kind, v)

LEMMA FinalIs ==
  ASSUME db \in Image, NEW kind \in Kinds, NEW v \in Versions
  PROVE  /\ Final(kind, v) \in Image
         /\ \A ks \in SUBSET Batch : Effect(db, kind, v, ks) \in Image
         /\ Effect(db, kind, v, Batch) \in Image
  BY EffectIs, RecordIs DEF Final

LEMMA RunInTransaction ==
  ASSUME db \in Image, NEW kind \in Kinds, NEW v \in Versions,
         NEW c, IsView(c, FALSE, <<>>, db)
  PROVE  LET ran == Ran(c, kind, v, Batch)
         IN  /\ \A ks \in SUBSET Batch :
                  IsView(Ran(c, kind, v, ks), FALSE, <<Effect(db, kind, v, ks)>>, db)
             /\ Seen(ran) = Effect(db, kind, v, Batch)
             /\ IsView(Tracked(ran, kind, v), FALSE, <<Final(kind, v)>>, db)
<1>1. Seen(c) = db
  BY SeenIs
<1>2. ASSUME NEW ks \in SUBSET Batch
      PROVE  IsView(Ran(c, kind, v, ks), FALSE, <<Effect(db, kind, v, ks)>>, db)
  <2>1. Ran(c, kind, v, ks) = Write(c, Effect(db, kind, v, ks))
    BY <1>1, RanIs
  <2>2. Effect(db, kind, v, ks) \in Image
    BY FinalIs
  <2>. QED  BY <2>1, <2>2, WriteIs
<1>. DEFINE ran == Ran(c, kind, v, Batch)
<1>3. IsView(ran, FALSE, <<Effect(db, kind, v, Batch)>>, db)
  BY <1>2
<1>. HIDE DEF ran
<1>4. Seen(ran) = Effect(db, kind, v, Batch)
  BY <1>3, SeenIs, FinalIs
<1>5. IsView(Tracked(ran, kind, v), FALSE, <<Final(kind, v)>>, db)
  <2>1. Tracked(ran, kind, v) = Write(ran, Final(kind, v))
    BY <1>4, RanIs DEF Final
  <2>2. Final(kind, v) \in Image
    BY FinalIs
  <2>. QED  BY <2>1, <2>2, <1>3, WriteIs
<1>. QED  BY <1>2, <1>4, <1>5 DEF ran

(* ... or without one. *)
LEMMA RunInAutocommit ==
  ASSUME db \in Image, NEW kind \in Kinds, NEW v \in Versions,
         NEW c, IsView(c, TRUE, <<>>, db)
  PROVE  LET ran == Ran(c, kind, v, Batch)
         IN  /\ \A ks \in SUBSET Batch :
                  IsView(Ran(c, kind, v, ks), TRUE, <<>>, Effect(db, kind, v, ks))
             /\ Seen(ran) = Effect(db, kind, v, Batch)
             /\ IsView(Tracked(ran, kind, v), TRUE, <<>>, Final(kind, v))
<1>1. Seen(c) = db
  BY SeenIs
<1>2. ASSUME NEW ks \in SUBSET Batch
      PROVE  IsView(Ran(c, kind, v, ks), TRUE, <<>>, Effect(db, kind, v, ks))
  <2>1. Ran(c, kind, v, ks) = Write(c, Effect(db, kind, v, ks))
    BY <1>1, RanIs
  <2>2. Effect(db, kind, v, ks) \in Image
    BY FinalIs
  <2>. QED  BY <2>1, <2>2, WriteIs
<1>. DEFINE ran == Ran(c, kind, v, Batch)
<1>3. IsView(ran, TRUE, <<>>, Effect(db, kind, v, Batch))
  BY <1>2
<1>. HIDE DEF ran
<1>4. Seen(ran) = Effect(db, kind, v, Batch)
  BY <1>3, SeenIs, FinalIs
<1>5. IsView(Tracked(ran, kind, v), TRUE, <<>>, Final(kind, v))
  <2>1. Tracked(ran, kind, v) = Write(ran, Final(kind, v))
    BY <1>4, RanIs DEF Final
  <2>2. Final(kind, v) \in Image
    BY FinalIs
  <2>. QED  BY <2>1, <2>2, <1>3, WriteIs
<1>. QED  BY <1>2, <1>4, <1>5 DEF ran

-----------------------------------------------------------------------------
(* What a handler called on a clean connection does to the database and to *)
(* the connection.  Once the batch has run it may go on to the tracking    *)
(* row; only a failed ROLLBACK can leave a part of a batch behind.         *)
Outcome(m, kind, v, ok) ==
  /\ db' \in Image
  /\ conn' \in [Migrators -> Conn]
  /\ conn'[m].pending # <<>> => ~conn'[m].autocommit
  /\ \A n \in Migrators \ {m} : conn'[n] = conn[n]
  /\ \A u \in Versions \ {v} : db'.done[u] = db.done[u] /\ db'.rows[u] = db.rows[u]
  /\ ok => conn'[m] = Fresh
  /\ db'.rows[v] # db.rows[v] \/ ok =>
       /\ db' = Final(kind, v)
       /\ kind # "revert" => db.rows[v] = "absent"
  /\ v \notin NoTx /\ "unrolled" \notin Faults =>
       \/ db' = db
       \/ /\ db' = Final(kind, v)
          /\ kind # "revert" => db.rows[v] = "absent"

(* The state a handler leaves, from the connection it leaves. *)
LEMMA BecomesIs ==
  ASSUME conn \in [Migrators -> Conn], NEW m \in Migrators,
         NEW c, NEW a, NEW p, NEW i, IsView(c, a, p, i), Becomes(m, c)
  PROVE  /\ db' = i /\ db' \in Image
         /\ conn' \in [Migrators -> Conn]
         /\ conn'[m].pending = p /\ conn'[m].autocommit = a
         /\ \A n \in Migrators \ {m} : conn'[n] = conn[n]
  BY DEF IsView, Becomes, Conn

LEMMA BecomesFresh ==
  ASSUME conn \in [Migrators -> Conn], NEW m \in Migrators,
         NEW c, NEW i, IsView(c, TRUE, <<>>, i), Becomes(m, c)
  PROVE  conn'[m] = Fresh
  BY DEF IsView, Becomes, Conn, Fresh

(* The outcomes there are: a database as it was, with a part of the batch, *)
(* or with the migration recorded.                                         *)
LEMMA SameDatabase ==
  ASSUME db \in Image, conn \in [Migrators -> Conn], NEW m \in Migrators,
         NEW kind, NEW v \in Versions,
         NEW c, NEW a, NEW p, IsView(c, a, p, db), p # <<>> => ~a, Becomes(m, c)
  PROVE  Outcome(m, kind, v, FALSE)
<1>1. /\ db' = db /\ db' \in Image
      /\ conn' \in [Migrators -> Conn]
      /\ conn'[m].pending = p /\ conn'[m].autocommit = a
      /\ \A n \in Migrators \ {m} : conn'[n] = conn[n]
  BY BecomesIs
<1>. QED  BY <1>1 DEF Outcome

LEMMA PartOfBatch ==
  ASSUME db \in Image, conn \in [Migrators -> Conn], NEW m \in Migrators,
         NEW kind \in Kinds, NEW v \in Versions, NEW ks \in SUBSET Batch,
         NEW c, NEW a \in BOOLEAN, IsView(c, a, <<>>, Effect(db, kind, v, ks)), Becomes(m, c),
         v \in NoTx \/ "unrolled" \in Faults
  PROVE  Outcome(m, kind, v, FALSE)
<1>1. /\ db' = Effect(db, kind, v, ks) /\ db' \in Image
      /\ conn' \in [Migrators -> Conn] /\ conn'[m].pending = <<>>
      /\ \A n \in Migrators \ {m} : conn'[n] = conn[n]
  BY BecomesIs
<1>2. /\ Effect(db, kind, v, ks).rows = db.rows
      /\ \A u \in Versions \ {v} : Effect(db, kind, v, ks).done[u] = db.done[u]
  BY EffectIs
<1>. QED  BY <1>1, <1>2 DEF Outcome

LEMMA WholeMigration ==
  ASSUME db \in Image, conn \in [Migrators -> Conn], NEW m \in Migrators,
         NEW kind \in Kinds, NEW v \in Versions, NEW ok \in BOOLEAN,
         NEW c, NEW a \in BOOLEAN, IsView(c, a, <<>>, Final(kind, v)), Becomes(m, c),
         ok => a, kind # "revert" => db.rows[v] = "absent"
  PROVE  Outcome(m, kind, v, ok)
<1>1. /\ db' = Final(kind, v) /\ db' \in Image
      /\ conn' \in [Migrators -> Conn] /\ conn'[m].pending = <<>>
      /\ \A n \in Migrators \ {m} : conn'[n] = conn[n]
  BY BecomesIs
<1>2. /\ Effect(db, kind, v, Batch) \in Image
      /\ Effect(db, kind, v, Batch).rows = db.rows
      /\ \A u \in Versions \ {v} : Effect(db, kind, v, Batch).done[u] = db.done[u]
  BY EffectIs, Batch \in SUBSET Batch
<1>3. \A u \in Versions \ {v} : db'.done[u] = db.done[u] /\ db'.rows[u] = db.rows[u]
  BY <1>1, <1>2, RecordIs DEF Final
<1>4. ok => conn'[m] = Fresh
  BY BecomesFresh
<1>. QED  BY <1>1, <1>3, <1>4 DEF Outcome

LEMMA DuplicateIs ==
  ASSUME db \in Image, NEW kind \in Kinds, NEW v \in Versions,
         NEW ran, Seen(ran) = Effect(db, kind, v, Batch), ~Duplicate(ran, kind, v)
  PROVE  kind # "revert" => db.rows[v] = "absent"
<1>1. Effect(db, kind, v, Batch).rows = db.rows
  BY EffectIs, Batch \in SUBSET Batch
<1>. QED  BY <1>1 DEF Duplicate

LEMMA HandlerIs ==
  ASSUME db \in Image, conn \in [Migrators -> Conn], NEW m \in Migrators,
         conn[m] = Fresh, NEW kind \in Kinds, NEW v \in Versions,
         NEW ok \in BOOLEAN, HandleMigration(m, kind, v, ok)
  PROVE  Outcome(m, kind, v, ok)
<1>1. IsView(Here(m), TRUE, <<>>, db)
  BY PendingsAre DEF IsView, Here, Fresh
<1>2. CASE v \notin NoTx
  <2>. DEFINE begun == [Here(m) EXCEPT !.autocommit = FALSE]
              ran == Ran(begun, kind, v, Batch)
              recorded == Tracked(ran, kind, v)
  <2>1. IsView(begun, FALSE, <<>>, db)
    BY <1>1 DEF IsView
  <2>. HIDE DEF begun
  <2>2. /\ \A ks \in SUBSET Batch :
             IsView(Ran(begun, kind, v, ks), FALSE, <<Effect(db, kind, v, ks)>>, db)
        /\ Seen(ran) = Effect(db, kind, v, Batch)
        /\ IsView(recorded, FALSE, <<Final(kind, v)>>, db)
    BY <2>1, RunInTransaction
  <2>3. IsView(ran, FALSE, <<Effect(db, kind, v, Batch)>>, db)
    BY <2>2
  <2>. HIDE DEF ran, recorded
  <2>4. CASE ~ok /\ Becomes(m, Here(m))
    BY <2>4, <1>1, SameDatabase
  <2>5. ASSUME ~ok, NEW ks \in SUBSET Batch,
               NEW failed \in SUBSET (Faults \cap {"unrolled", "unrestored"}),
               Becomes(m, Abandon(Ran(begun, kind, v, ks), v, failed))
        PROVE  Outcome(m, kind, v, FALSE)
    <3>. DEFINE c == Ran(begun, kind, v, ks)
                ended == IF "unrolled" \in failed THEN c ELSE Rollback(c)
    <3>1. IsView(c, FALSE, <<Effect(db, kind, v, ks)>>, db)
      BY <2>2
    <3>2. Effect(db, kind, v, ks) \in Image
      BY FinalIs
    <3>. HIDE DEF c
    <3>3. Abandon(c, v, failed) = IF "unrestored" \in failed THEN ended ELSE AutocommitOn(ended)
      BY <1>2 DEF Abandon
    <3>4. CASE "unrolled" \in failed
      <4>1. CASE "unrestored" \in failed
        BY <2>5, <3>1, <3>3, <3>4, <4>1, SameDatabase DEF c
      <4>2. CASE "unrestored" \notin failed
        <5>1. IsView(AutocommitOn(c), TRUE, <<>>, Effect(db, kind, v, ks))
          BY <3>1, <3>2, AutocommitIs
        <5>. QED  BY <2>5, <3>3, <3>4, <4>2, <5>1, PartOfBatch DEF c
      <4>. QED  BY <4>1, <4>2
    <3>5. CASE "unrolled" \notin failed
      <4>1. IsView(Rollback(c), FALSE, <<>>, db)
        BY <3>1, EndIs
      <4>2. IsView(AutocommitOn(Rollback(c)), TRUE, <<>>, db)
        BY <4>1, AutocommitIs
      <4>3. CASE "unrestored" \in failed
        BY <2>5, <3>3, <3>5, <4>1, <4>3, SameDatabase DEF c
      <4>4. CASE "unrestored" \notin failed
        BY <2>5, <3>3, <3>5, <4>2, <4>4, SameDatabase DEF c
      <4>. QED  BY <4>3, <4>4
    <3>. QED  BY <3>4, <3>5
  <2>6. CASE ~ok /\ Becomes(m, ran)
    BY <2>6, <2>3, SameDatabase
  <2>7. ASSUME ~Duplicate(ran, kind, v), ~ok, Becomes(m, recorded)
        PROVE  Outcome(m, kind, v, FALSE)
    BY <2>7, <2>2, SameDatabase
  <2>8. ASSUME ~Duplicate(ran, kind, v), ~ok, Becomes(m, Commit(recorded))
        PROVE  Outcome(m, kind, v, FALSE)
    <3>1. IsView(Commit(recorded), FALSE, <<>>, Final(kind, v))
      BY <2>2, FinalIs, EndIs
    <3>. QED  BY <2>2, <2>8, <3>1, DuplicateIs, WholeMigration
  <2>9. ASSUME ~Duplicate(ran, kind, v), ok, Becomes(m, AutocommitOn(recorded))
        PROVE  Outcome(m, kind, v, TRUE)
    <3>1. IsView(AutocommitOn(recorded), TRUE, <<>>, Final(kind, v))
      BY <2>2, FinalIs, AutocommitIs
    <3>. QED  BY <2>2, <2>9, <3>1, DuplicateIs, WholeMigration
  <2>. QED  BY <1>2, <2>4, <2>5, <2>6, <2>7, <2>8, <2>9
            DEF HandleMigration, begun, ran, recorded
<1>3. CASE v \in NoTx
  <2>. DEFINE begun == Here(m)
              ran == Ran(begun, kind, v, Batch)
              recorded == Tracked(ran, kind, v)
  <2>2. /\ \A ks \in SUBSET Batch :
             IsView(Ran(begun, kind, v, ks), TRUE, <<>>, Effect(db, kind, v, ks))
        /\ Seen(ran) = Effect(db, kind, v, Batch)
        /\ IsView(recorded, TRUE, <<>>, Final(kind, v))
    BY <1>1, RunInAutocommit
  <2>3. IsView(ran, TRUE, <<>>, Effect(db, kind, v, Batch))
    BY <2>2
  <2>. HIDE DEF begun, ran, recorded
  <2>5. ASSUME ~ok, NEW ks \in SUBSET Batch, NEW failed,
               Becomes(m, Abandon(Ran(begun, kind, v, ks), v, failed))
        PROVE  Outcome(m, kind, v, FALSE)
    <3>1. Becomes(m, Ran(begun, kind, v, ks))
      BY <1>3, <2>5 DEF Abandon
    <3>. QED  BY <1>3, <2>2, <3>1, PartOfBatch
  <2>6. CASE ~ok /\ Becomes(m, ran)
    BY <1>3, <2>6, <2>3, PartOfBatch
  <2>9. ASSUME ~Duplicate(ran, kind, v), ok, Becomes(m, recorded)
        PROVE  Outcome(m, kind, v, TRUE)
    BY <2>2, <2>9, DuplicateIs, WholeMigration
  <2>. QED  BY <1>3, <2>5, <2>6, <2>9 DEF HandleMigration, begun, ran, recorded
<1>. QED  BY <1>2, <1>3

-----------------------------------------------------------------------------
(* The inductive invariant: types; a connection is clean unless its run    *)
(* has failed; one session at a time holds the lock, for as long as its    *)
(* run is past "locking"; and what the run that holds it has listed is     *)
(* what is recorded.                                                       *)
MigTypes ==
  /\ db \in Image
  /\ conn \in [Migrators -> Conn]
  /\ \A m \in Migrators : conn[m].pending # <<>> => ~conn[m].autocommit
  /\ locks \in [Migrators -> 0..1]
  /\ pc \in [Migrators -> {"idle", "locking", "listing", "running", "ending", "failed"}]
  /\ goal \in [Migrators -> {"apply", "skip", "revert"}]
  /\ applied \in [Migrators -> SUBSET Versions]
  /\ runs \in [Migrators -> 0..MaxRuns]

CleanUnlessFailed == \A m \in Migrators : pc[m] # "failed" => conn[m] = Fresh

LockHeld ==
  \A m \in Migrators : locks[m] = IF pc[m] \in {"idle", "locking"} THEN 0 ELSE 1

LockExclusive ==
  \A m, n \in Migrators : m # n => locks[m] = 0 \/ locks[n] = 0

Recorded == {v \in Versions : db.rows[v] # "absent"}

ListsTrue == \A m \in Migrators : pc[m] = "running" => applied[m] = Recorded

MigInv ==
  MigTypes /\ CleanUnlessFailed /\ LockHeld /\ LockExclusive /\ ListsTrue

LEMMA MigInvTyped == MigInv => MigTypeOK
<1>. SUFFICES ASSUME MigInv  PROVE MigTypeOK
  OBVIOUS
<1>1. ASSUME NEW m \in Migrators
      PROVE  /\ conn[m].autocommit \in BOOLEAN
             /\ conn[m].pending = <<>> \/ conn[m].pending[1] \in Image
  BY DEF MigInv, MigTypes, Conn, Pendings
<1>. QED  BY <1>1 DEF MigTypeOK, MigInv, MigTypes

LEMMA MigInvInit == MigInit => MigInv
<1>. SUFFICES ASSUME MigInit  PROVE MigInv
  OBVIOUS
<1>1. Fresh \in Conn /\ Fresh.pending = <<>>
  BY PendingsAre DEF Conn, Fresh
<1>2. db \in Image
  BY DEF MigInit, Image
<1>3. MigTypes
  BY <1>1, <1>2, MigrationsAssumption DEF MigInit, MigTypes
<1>. QED  BY <1>3 DEF MigInit, MigInv, CleanUnlessFailed, LockHeld, LockExclusive, ListsTrue

(* What the steps that only move a run leave alone. *)
LEMMA SeenFresh ==
  ASSUME MigInv, NEW m \in Migrators, pc[m] # "failed"
  PROVE  conn[m] = Fresh /\ Seen(Here(m)) = db
  BY DEF MigInv, CleanUnlessFailed, Here, Seen, Fresh

(* While one run works through its list, no other does. *)
LEMMA RunsAlone ==
  ASSUME MigInv, NEW m \in Migrators, pc[m] = "running",
         NEW n \in Migrators \ {m}
  PROVE  pc[n] \in {"idle", "locking"}
<1>1. locks[m] = 1
  BY DEF MigInv, LockHeld
<1>2. locks[n] = 0
  BY <1>1 DEF MigInv, LockExclusive
<1>. QED  BY <1>2 DEF MigInv, LockHeld

-----------------------------------------------------------------------------
(* The invariant through each action. *)
LEMMA BeginInv ==
  ASSUME MigInv, NEW m \in Migrators, Begin(m)  PROVE MigInv'
<1>. USE DEF MigInv, Begin, Goto
<1>1. MigTypes'
  BY MigrationsAssumption DEF MigTypes
<1>2. CleanUnlessFailed' /\ LockHeld' /\ LockExclusive'
  BY DEF MigTypes, CleanUnlessFailed, LockHeld, LockExclusive
<1>3. ListsTrue'
  BY DEF MigTypes, ListsTrue, Recorded
<1>. QED  BY <1>1, <1>2, <1>3

LEMMA LockInv ==
  ASSUME MigInv, NEW m \in Migrators, Lock(m)  PROVE MigInv'
<1>. USE DEF MigInv, Lock, Goto
<1>0. locks[m] = 0
  BY DEF LockHeld
<1>1. MigTypes'
  BY <1>0 DEF MigTypes
<1>2. CleanUnlessFailed'
  BY DEF MigTypes, CleanUnlessFailed
<1>3. LockHeld' /\ LockExclusive'
  BY <1>0 DEF MigTypes, LockHeld, LockExclusive
<1>4. ListsTrue'
  BY DEF MigTypes, ListsTrue, Recorded
<1>. QED  BY <1>1, <1>2, <1>3, <1>4

LEMMA ListInv ==
  ASSUME MigInv, NEW m \in Migrators, ListAppliedMigrations(m)  PROVE MigInv'
<1>. USE DEF MigInv, ListAppliedMigrations, Goto
<1>0. applied' = [applied EXCEPT ![m] = Recorded]
  BY SeenFresh DEF Recorded
<1>1. MigTypes'
  BY <1>0 DEF MigTypes, Recorded
<1>2. CleanUnlessFailed' /\ LockHeld' /\ LockExclusive'
  BY DEF MigTypes, CleanUnlessFailed, LockHeld, LockExclusive
<1>3. ListsTrue'
  <2>1. Recorded' = Recorded
    BY DEF Recorded
  <2>. QED  BY <1>0, <2>1 DEF MigTypes, ListsTrue
<1>. QED  BY <1>1, <1>2, <1>3

LEMMA UnlockInv ==
  ASSUME MigInv, NEW m \in Migrators, Unlock(m)  PROVE MigInv'
<1>. USE DEF MigInv, Unlock, Goto
<1>0. locks[m] = 1
  BY DEF Over, LockHeld
<1>1. MigTypes'
  BY <1>0 DEF MigTypes
<1>2. CleanUnlessFailed'
  BY DEF MigTypes, CleanUnlessFailed, Over
<1>3. LockHeld' /\ LockExclusive'
  BY <1>0 DEF MigTypes, LockHeld, LockExclusive
<1>4. ListsTrue'
  BY DEF MigTypes, ListsTrue, Recorded
<1>. QED  BY <1>1, <1>2, <1>3, <1>4

LEMMA CloseInv ==
  ASSUME MigInv, NEW m \in Migrators, Close(m)  PROVE MigInv'
<1>. USE DEF MigInv, Close, Goto
<1>0. Fresh \in Conn /\ Fresh.pending = <<>>
  BY PendingsAre DEF Conn, Fresh
<1>1. MigTypes'
  BY <1>0 DEF MigTypes
<1>2. CleanUnlessFailed'
  BY DEF MigTypes, CleanUnlessFailed
<1>3. LockHeld' /\ LockExclusive'
  BY DEF MigTypes, LockHeld, LockExclusive
<1>4. ListsTrue'
  BY DEF MigTypes, ListsTrue, Recorded
<1>. QED  BY <1>1, <1>2, <1>3, <1>4

(* A step of a run that may write to the database. *)
LEMMA WorkInv ==
  ASSUME MigInv, NEW m \in Migrators, pc[m] = "running",
         db' \in Image, conn' \in [Migrators -> Conn],
         conn'[m].pending # <<>> => ~conn'[m].autocommit,
         \A n \in Migrators \ {m} : conn'[n] = conn[n],
         UNCHANGED <<locks, goal, runs>>,
         applied' \in [Migrators -> SUBSET Versions],
         \A n \in Migrators \ {m} : applied'[n] = applied[n],
         NEW p \in {"running", "ending", "failed"}, pc' = [pc EXCEPT ![m] = p],
         p # "failed" => conn'[m] = Fresh,
         p = "running" => applied'[m] = Recorded'
  PROVE  MigInv'
<1>. USE DEF MigInv
<1>1. MigTypes'
  BY DEF MigTypes
<1>2. CleanUnlessFailed'
  BY DEF MigTypes, CleanUnlessFailed
<1>3. LockHeld' /\ LockExclusive'
  BY DEF MigTypes, LockHeld, LockExclusive
<1>4. ListsTrue'
  <2>1. ASSUME NEW n \in Migrators, n # m  PROVE pc'[n] # "running"
    BY <2>1, RunsAlone DEF MigTypes
  <2>2. pc'[m] = p
    BY DEF MigTypes
  <2>. QED  BY <2>1, <2>2 DEF ListsTrue
<1>. QED  BY <1>1, <1>2, <1>3, <1>4

(* What a handler that succeeds adds to, or takes from, what is recorded.  *)
LEMMA RecordedNow ==
  ASSUME db \in Image, NEW m, NEW kind \in Kinds, NEW v \in Versions,
         Outcome(m, kind, v, TRUE)
  PROVE  Recorded' = IF kind = "revert" THEN Recorded \ {v} ELSE Recorded \cup {v}
<1>1. db'.rows[v] = Row(kind)
  BY EffectIs, RecordIs, Batch \in SUBSET Batch DEF Outcome, Final
<1>2. Row(kind) = "absent" <=> kind = "revert"
  BY DEF Row, Kinds
<1>3. \A u \in Versions \ {v} : db'.rows[u] = db.rows[u]
  BY DEF Outcome
<1>. QED  BY <1>1, <1>2, <1>3 DEF Recorded

LEMMA ApplyIs ==
  ASSUME MigInv, NEW m \in Migrators, Apply(m)
  PROVE  \E v \in Versions, ok \in BOOLEAN :
           /\ Outcome(m, "apply", v, ok)
           /\ IF ok THEN /\ applied' = [applied EXCEPT ![m] = @ \cup {v}]
                         /\ UNCHANGED pc
                    ELSE pc' = [pc EXCEPT ![m] = "failed"] /\ UNCHANGED applied
<1>. DEFINE v == Min(Missing(m))
<1>1. v \in Versions
  BY MinIs, MigrationsAssumption DEF Apply, Missing
<1>2. db \in Image /\ conn \in [Migrators -> Conn] /\ conn[m] = Fresh
  BY SeenFresh DEF Apply, MigInv, MigTypes
<1>3. ASSUME NEW ok \in BOOLEAN, HandleApplyMigration(m, v, ok)
      PROVE  Outcome(m, "apply", v, ok)
  BY <1>1, <1>2, <1>3, HandlerIs DEF HandleApplyMigration, Kinds
<1>. HIDE DEF v
<1>4. \/ /\ HandleApplyMigration(m, v, TRUE)
         /\ applied' = [applied EXCEPT ![m] = @ \cup {v}]
         /\ UNCHANGED pc
      \/ /\ HandleApplyMigration(m, v, FALSE)
         /\ pc' = [pc EXCEPT ![m] = "failed"]
         /\ UNCHANGED applied
  BY DEF Apply, Goto, v
<1>. QED  BY <1>1, <1>3, <1>4

LEMMA RevertIs ==
  ASSUME MigInv, NEW m \in Migrators, Revert(m)
  PROVE  \E v \in Versions, ok \in BOOLEAN :
           /\ Outcome(m, "revert", v, ok)
           /\ IF ok THEN /\ applied' = [applied EXCEPT ![m] = @ \ {v}]
                         /\ pc' = [pc EXCEPT ![m] = "ending"]
                    ELSE pc' = [pc EXCEPT ![m] = "failed"] /\ UNCHANGED applied
<1>. DEFINE v == Max(applied[m])
<1>1. v \in Versions
  <2>1. applied[m] \in SUBSET Versions /\ applied[m] # {}
    BY DEF Revert, MigInv, MigTypes
  <2>2. IsFiniteSet(applied[m]) /\ applied[m] \in SUBSET Nat
    BY <2>1, MigrationsAssumption, FS_Subset
  <2>. QED  BY <2>1, <2>2, MaxIs
<1>2. db \in Image /\ conn \in [Migrators -> Conn] /\ conn[m] = Fresh
  BY SeenFresh DEF Revert, MigInv, MigTypes
<1>3. ASSUME NEW ok \in BOOLEAN, HandleRevertMigration(m, v, ok)
      PROVE  Outcome(m, "revert", v, ok)
  BY <1>1, <1>2, <1>3, HandlerIs DEF HandleRevertMigration, Kinds
<1>. HIDE DEF v
<1>4. \/ /\ HandleRevertMigration(m, v, TRUE)
         /\ applied' = [applied EXCEPT ![m] = @ \ {v}]
         /\ pc' = [pc EXCEPT ![m] = "ending"]
      \/ /\ HandleRevertMigration(m, v, FALSE)
         /\ pc' = [pc EXCEPT ![m] = "failed"]
         /\ UNCHANGED applied
  BY DEF Revert, Goto, v
<1>. QED  BY <1>1, <1>3, <1>4

(* A skipped migration is recorded, in one statement, or nothing happens.  *)
LEMMA SkipIs ==
  ASSUME MigInv, NEW m \in Migrators, Skip(m)
  PROVE  \/ \E v \in Versions :
              /\ db.rows[v] = "absent"
              /\ db' = Record(db, "skip", v)
              /\ conn' \in [Migrators -> Conn] /\ conn'[m] = Fresh
              /\ \A n \in Migrators \ {m} : conn'[n] = conn[n]
              /\ applied' = [applied EXCEPT ![m] = @ \cup {v}]
              /\ UNCHANGED pc
         \/ /\ UNCHANGED <<db, conn, applied>>
            /\ pc' = [pc EXCEPT ![m] = "failed"]
<1>. DEFINE v == Min(Missing(m))
<1>1. v \in Versions
  BY MinIs, MigrationsAssumption DEF Skip, Missing
<1>2. db \in Image /\ conn \in [Migrators -> Conn] /\ conn[m] = Fresh /\ Seen(Here(m)) = db
  BY SeenFresh DEF Skip, MigInv, MigTypes
<1>3. IsView(Here(m), TRUE, <<>>, db)
  BY <1>2, PendingsAre DEF IsView, Here, Fresh
<1>. HIDE DEF v
<1>4. ASSUME ~Duplicate(Here(m), "skip", v), Becomes(m, Tracked(Here(m), "skip", v))
      PROVE  /\ db.rows[v] = "absent"
             /\ db' = Record(db, "skip", v)
             /\ conn' \in [Migrators -> Conn] /\ conn'[m] = Fresh
             /\ \A n \in Migrators \ {m} : conn'[n] = conn[n]
  <2>. DEFINE c == Tracked(Here(m), "skip", v)
              i == Record(db, "skip", v)
  <2>1. c = Write(Here(m), i)
    BY <1>2, RanIs
  <2>2. i \in Image
    BY <1>1, <1>2, RecordIs DEF Kinds
  <2>. HIDE DEF i
  <2>3. IsView(c, TRUE, <<>>, i)
    BY <2>1, <2>2, <1>3, WriteIs
  <2>. HIDE DEF c
  <2>4. Becomes(m, c)
    BY <1>4 DEF c
  <2>5. conn'[m] = Fresh
    BY <1>2, <2>3, <2>4, BecomesFresh
  <2>6. /\ db' = i /\ conn' \in [Migrators -> Conn]
        /\ \A n \in Migrators \ {m} : conn'[n] = conn[n]
    BY <1>2, <2>3, <2>4, BecomesIs
  <2>7. db.rows[v] = "absent"
    BY <1>2, <1>4 DEF Duplicate
  <2>. QED  BY <2>5, <2>6, <2>7 DEF i
<1>5. \/ /\ ~Duplicate(Here(m), "skip", v)
         /\ Becomes(m, Tracked(Here(m), "skip", v))
         /\ applied' = [applied EXCEPT ![m] = @ \cup {v}]
         /\ UNCHANGED pc
      \/ /\ pc' = [pc EXCEPT ![m] = "failed"]
         /\ UNCHANGED <<db, conn, applied>>
  BY DEF Skip, Goto, v
<1>. QED  BY <1>1, <1>4, <1>5

LEMMA ApplyInv ==
  ASSUME MigInv, NEW m \in Migrators, Apply(m)  PROVE MigInv'
<1>. PICK v \in Versions, ok \in BOOLEAN :
       /\ Outcome(m, "apply", v, ok)
       /\ IF ok THEN /\ applied' = [applied EXCEPT ![m] = @ \cup {v}]
                     /\ UNCHANGED pc
                ELSE pc' = [pc EXCEPT ![m] = "failed"] /\ UNCHANGED applied
  BY ApplyIs
<1>1. /\ pc[m] = "running" /\ UNCHANGED <<locks, goal, runs>>
      /\ db \in Image /\ applied \in [Migrators -> SUBSET Versions]
      /\ pc = [pc EXCEPT ![m] = "running"]
      /\ applied[m] = Recorded
  BY DEF Apply, MigInv, MigTypes, ListsTrue
<1>2. CASE ok
  <2>1. Recorded' = Recorded \cup {v}
    BY <1>1, <1>2, RecordedNow DEF Kinds
  <2>2. applied'[m] = Recorded'
    BY <1>1, <1>2, <2>1
  <2>3. pc' = [pc EXCEPT ![m] = "running"]
    BY <1>1, <1>2
  <2>4. /\ db' \in Image /\ conn' \in [Migrators -> Conn]
        /\ conn'[m].pending # <<>> => ~conn'[m].autocommit
        /\ conn'[m] = Fresh
        /\ \A n \in Migrators \ {m} : conn'[n] = conn[n]
    BY <1>2 DEF Outcome
  <2>5. /\ applied' \in [Migrators -> SUBSET Versions]
        /\ \A n \in Migrators \ {m} : applied'[n] = applied[n]
    BY <1>1, <1>2
  <2>. QED  BY <1>1, <2>2, <2>3, <2>4, <2>5, WorkInv
<1>3. CASE ~ok
  BY <1>1, <1>3, WorkInv DEF Outcome
<1>. QED  BY <1>2, <1>3

LEMMA RevertInv ==
  ASSUME MigInv, NEW m \in Migrators, Revert(m)  PROVE MigInv'
<1>. PICK v \in Versions, ok \in BOOLEAN :
       /\ Outcome(m, "revert", v, ok)
       /\ IF ok THEN /\ applied' = [applied EXCEPT ![m] = @ \ {v}]
                     /\ pc' = [pc EXCEPT ![m] = "ending"]
                ELSE pc' = [pc EXCEPT ![m] = "failed"] /\ UNCHANGED applied
  BY RevertIs
<1>1. /\ pc[m] = "running" /\ UNCHANGED <<locks, goal, runs>>
      /\ db \in Image /\ applied \in [Migrators -> SUBSET Versions]
  BY DEF Revert, MigInv, MigTypes
<1>2. CASE ok
  BY <1>1, <1>2, WorkInv DEF Outcome
<1>3. CASE ~ok
  BY <1>1, <1>3, WorkInv DEF Outcome
<1>. QED  BY <1>2, <1>3

LEMMA SkipInv ==
  ASSUME MigInv, NEW m \in Migrators, Skip(m)  PROVE MigInv'
<1>1. /\ pc[m] = "running" /\ UNCHANGED <<locks, goal, runs>>
      /\ db \in Image /\ applied \in [Migrators -> SUBSET Versions]
      /\ conn \in [Migrators -> Conn] /\ conn[m] = Fresh
      /\ pc = [pc EXCEPT ![m] = "running"]
      /\ applied[m] = Recorded
  BY DEF Skip, MigInv, MigTypes, ListsTrue, CleanUnlessFailed
<1>2. Fresh.pending = <<>>
  BY DEF Fresh
<1>3. ASSUME NEW v \in Versions,
             db.rows[v] = "absent",
             db' = Record(db, "skip", v),
             conn' \in [Migrators -> Conn], conn'[m] = Fresh,
             \A n \in Migrators \ {m} : conn'[n] = conn[n],
             applied' = [applied EXCEPT ![m] = @ \cup {v}],
             UNCHANGED pc
      PROVE  MigInv'
  <2>1. db' \in Image /\ db'.rows[v] = Row("skip")
        /\ \A u \in Versions \ {v} : db'.rows[u] = db.rows[u]
    BY <1>1, <1>3, RecordIs DEF Kinds
  <2>2. Recorded' = Recorded \cup {v}
    BY <2>1 DEF Recorded, Row
  <2>3. applied'[m] = Recorded'
    BY <1>1, <1>3, <2>2
  <2>4. pc' = [pc EXCEPT ![m] = "running"]
    BY <1>1, <1>3
  <2>5. applied' \in [Migrators -> SUBSET Versions]
        /\ \A n \in Migrators \ {m} : applied'[n] = applied[n]
    BY <1>1, <1>3
  <2>. QED  BY <1>1, <1>2, <1>3, <2>1, <2>3, <2>4, <2>5, WorkInv
<1>4. ASSUME UNCHANGED <<db, conn, applied>>, pc' = [pc EXCEPT ![m] = "failed"]
      PROVE  MigInv'
  BY <1>1, <1>2, <1>4, WorkInv
<1>. QED  BY <1>3, <1>4, SkipIs

LEMMA MigNextInv == MigInv /\ [MigNext]_migVars => MigInv'
<1>. SUFFICES ASSUME MigInv, [MigNext]_migVars  PROVE MigInv'
  OBVIOUS
<1>1. CASE UNCHANGED migVars
  BY <1>1 DEF migVars, MigInv, MigTypes, CleanUnlessFailed, LockHeld,
              LockExclusive, ListsTrue, Recorded
<1>2. CASE MigNext
  BY <1>2, BeginInv, LockInv, ListInv, ApplyInv, SkipInv, RevertInv, UnlockInv,
     CloseInv DEF MigNext, Call
<1>. QED  BY <1>1, <1>2

LEMMA MigInvariance == MigSpec => []MigInv
<1>1. MigInit => MigInv
  BY MigInvInit
<1>2. MigInv /\ [MigNext]_migVars => MigInv'
  BY MigNextInv
<1>. QED  BY <1>1, <1>2, PTL DEF MigSpec

-----------------------------------------------------------------------------
(* Whatever fails and whoever crashes, the variables keep their types. *)
THEOREM MigrationsTypeCorrect == MigSpec => []MigTypeOK
<1>1. MigInv => MigTypeOK
  BY MigInvTyped
<1>. QED  BY <1>1, MigInvariance, PTL

(* What a migrator listed stays true while it works through the list, for  *)
(* any number of migrators, each of which may fail or crash at any point   *)
(* (migrate.rs:241-266).                                                   *)
THEOREM MigrationsListStaysTrue == MigSpec => []ListStaysTrue
<1>1. MigInv => ListStaysTrue
  <2>. SUFFICES ASSUME MigInv, NEW m \in Migrators, pc[m] = "running"
                PROVE  applied[m] = {v \in Versions : Seen(Here(m)).rows[v] # "absent"}
    BY DEF ListStaysTrue
  <2>1. Seen(Here(m)) = db
    BY SeenFresh
  <2>2. applied[m] = Recorded
    BY DEF MigInv, ListsTrue
  <2>. QED  BY <2>1, <2>2 DEF Recorded
<1>. QED  BY <1>1, MigInvariance, PTL

-----------------------------------------------------------------------------
(* How a step changes the database. *)
LEMMA DatabaseStep ==
  ASSUME MigInv, NEW m \in Migrators, Begin(m) \/ Call(m) \/ Close(m)
  PROVE  \/ db' = db
         \/ \E kind \in {"apply", "revert"}, v \in Versions, ok \in BOOLEAN :
              Outcome(m, kind, v, ok)
         \/ \E v \in Versions : db.rows[v] = "absent" /\ db' = Record(db, "skip", v)
<1>1. CASE Apply(m)
  BY <1>1, ApplyIs
<1>2. CASE Revert(m)
  BY <1>2, RevertIs
<1>3. CASE Skip(m)
  BY <1>3, SkipIs
<1>4. CASE Begin(m) \/ Lock(m) \/ ListAppliedMigrations(m) \/ Unlock(m) \/ Close(m)
  BY <1>4 DEF Begin, Lock, ListAppliedMigrations, Unlock, Close
<1>. QED  BY <1>1, <1>2, <1>3, <1>4 DEF Call

(* A failed ROLLBACK is not hidden from the caller of a migration. *)
RollbackNeverSilent == "unrolled" \notin Faults

InEffectOnce(v) ==
  \A k \in Batch : db.done[v][k] = IF db.rows[v] = "full" THEN 1 ELSE 0

LEMMA InEffectStep ==
  ASSUME MigInv, RollbackNeverSilent, [MigNext]_migVars,
         NEW v \in Versions \ NoTx, InEffectOnce(v)
  PROVE  InEffectOnce(v)'
<1>0. CASE db' = db
  BY <1>0 DEF InEffectOnce
<1>1. ASSUME NEW m \in Migrators, NEW kind \in {"apply", "revert"},
             NEW u \in Versions, NEW ok \in BOOLEAN, Outcome(m, kind, u, ok)
      PROVE  InEffectOnce(v)'
  <2>1. CASE u # v
    BY <1>1, <2>1 DEF Outcome, InEffectOnce
  <2>2. CASE u = v /\ db' # db
    <3>1. db' = Final(kind, v) /\ (kind # "revert" => db.rows[v] = "absent")
      BY <1>1, <2>2 DEF Outcome, RollbackNeverSilent
    <3>2. db \in Image /\ kind \in Kinds
      BY DEF MigInv, MigTypes, Kinds
    <3>3. db'.rows[v] = Row(kind)
          /\ \A k \in Batch : db'.done[v][k] = Times(kind, db.done[v][k])
      <4>1. Effect(db, kind, v, Batch) \in Image
            /\ \A k \in Batch : Effect(db, kind, v, Batch).done[v][k] =
                                  Times(kind, db.done[v][k])
        BY <3>2, EffectIs, Batch \in SUBSET Batch
      <4>. QED  BY <3>1, <3>2, <4>1, RecordIs DEF Final
    <3>4. CASE kind = "apply"
      BY <3>1, <3>3, <3>4 DEF InEffectOnce, Row, Times
    <3>5. CASE kind = "revert"
      BY <3>3, <3>5 DEF InEffectOnce, Row, Times
    <3>. QED  BY <3>4, <3>5
  <2>. QED  BY <1>0, <2>1, <2>2
<1>2. ASSUME NEW u \in Versions, db.rows[u] = "absent", db' = Record(db, "skip", u)
      PROVE  InEffectOnce(v)'
  <2>1. db \in Image /\ "skip" \in Kinds
    BY DEF MigInv, MigTypes, Kinds
  <2>2. db'.done = db.done /\ db'.rows[u] = "skipped"
        /\ \A w \in Versions \ {u} : db'.rows[w] = db.rows[w]
    BY <1>2, <2>1, RecordIs DEF Row
  <2>. QED  BY <1>2, <2>2 DEF InEffectOnce
<1>3. CASE UNCHANGED migVars
  BY <1>0, <1>3 DEF migVars
<1>. QED  BY <1>0, <1>1, <1>2, <1>3, DatabaseStep DEF MigNext

(* A migration run in a transaction is in effect once, as a whole, exactly *)
(* if it is recorded as run: whatever else fails, whoever crashes and      *)
(* whoever migrates along (actor.rs:573-655).                              *)
THEOREM MigrationsRecordedIffInEffect ==
  RollbackNeverSilent => (MigSpec => []RecordedIffInEffect)
<1>. SUFFICES ASSUME RollbackNeverSilent  PROVE MigSpec => []RecordedIffInEffect
  OBVIOUS
<1>. DEFINE AllOnce == \A v \in Versions \ NoTx : InEffectOnce(v)
<1>1. MigInit => AllOnce
  BY DEF MigInit, InEffectOnce
<1>2. MigInv /\ AllOnce /\ [MigNext]_migVars => AllOnce'
  <2>. SUFFICES ASSUME MigInv, AllOnce, [MigNext]_migVars, NEW v \in Versions \ NoTx
                PROVE  InEffectOnce(v)'
    OBVIOUS
  <2>. QED  BY InEffectStep
<1>3. MigInv /\ AllOnce => RecordedIffInEffect
  <2>. SUFFICES ASSUME MigInv, AllOnce, NEW v \in Versions \ NoTx
                PROVE  db.done[v] = [k \in Batch |-> IF db.rows[v] = "full" THEN 1 ELSE 0]
    BY DEF RecordedIffInEffect
  <2>1. db.done[v] \in [Batch -> 0..2]
    BY DEF MigInv, MigTypes, Image
  <2>. QED  BY <2>1 DEF InEffectOnce
<1>. QED  BY <1>1, <1>2, <1>3, MigInvariance, PTL DEF MigSpec

(* No row says that a migration was run before the whole of its batch was, *)
(* in a transaction or not, even if failures of ROLLBACK are hidden        *)
(* (actor.rs:597-638).                                                     *)
THEOREM MigrationsRecordedAfterBatch == MigSpec => RecordedAfterBatch
<1>1. ASSUME MigInv, [MigNext]_migVars, NEW v \in Versions,
             db.rows[v] # "full", db'.rows[v] = "full", NEW k \in Batch
      PROVE  db'.done[v][k] > 0
  <2>0. db \in Image /\ db' # db
    BY <1>1 DEF MigInv, MigTypes
  <2>1. ASSUME NEW m \in Migrators, NEW kind \in {"apply", "revert"},
               NEW u \in Versions, NEW ok \in BOOLEAN, Outcome(m, kind, u, ok)
        PROVE  db'.done[v][k] > 0
    <3>1. u = v /\ db' = Final(kind, v) /\ kind \in Kinds
      BY <1>1, <2>1 DEF Outcome, Kinds
    <3>2. db'.rows[v] = Row(kind) /\ db'.done[v][k] = Times(kind, db.done[v][k])
      <4>1. Effect(db, kind, v, Batch) \in Image
            /\ Effect(db, kind, v, Batch).done[v][k] = Times(kind, db.done[v][k])
        BY <1>1, <2>0, <3>1, EffectIs, Batch \in SUBSET Batch
      <4>. QED  BY <2>0, <3>1, <4>1, RecordIs DEF Final
    <3>3. kind = "apply"
      BY <1>1, <3>2 DEF Row
    <3>. QED  BY <3>2, <3>3 DEF Times
  <2>3. "skip" \in Kinds
    BY DEF Kinds
  <2>2. ASSUME NEW u \in Versions, db' = Record(db, "skip", u)  PROVE FALSE
    <3>1. db'.rows[u] = "skipped" /\ \A w \in Versions \ {u} : db'.rows[w] = db.rows[w]
      BY <2>0, <2>2, <2>3, RecordIs DEF Row
    <3>. QED  BY <1>1, <3>1
  <2>. QED  BY <1>1, <2>0, <2>1, <2>2, DatabaseStep DEF MigNext, migVars
<1>2. MigInv /\ [MigNext]_migVars =>
        [\A v \in Versions : db.rows[v] # "full" /\ db'.rows[v] = "full" =>
           \A k \in Batch : db'.done[v][k] > 0]_migVars
  BY <1>1
<1>. QED  BY <1>2, MigInvariance, PTL DEF MigSpec, RecordedAfterBatch
=============================================================================
