--------------------------- MODULE StatementCache ---------------------------
(***************************************************************************)
(* The statement a query runs on (connection/actor.rs), around the result  *)
(* streams: a one-shot statement that is freed when the handler returns, a *)
(* prepared statement of the cache, or a new one that is cached at the     *)
(* end.  A handler may return with results of its statement unread.  A     *)
(* freed statement discards them, and so does a result set whose cursor is *)
(* dropped half-way: dropping odbc-api's CursorImpl (external) closes the  *)
(* cursor.  Behind a row count there is no cursor to drop, and a cached    *)
(* statement keeps what follows pending.                                   *)
(*                                                                         *)
(* A query's batch stands for its SQL text: the same text is the same      *)
(* cache key.  The cache is sqlx-core's (external); which entry it evicts  *)
(* is left open.  SQL Server (external) executes nothing on a connection   *)
(* while results of another of its statements are pending, unless the      *)
(* connection string asks for multiple active result sets.                 *)
(***************************************************************************)
EXTENDS ResultStream, FiniteSets

CONSTANT CacheSize     \* statement_cache_capacity

ASSUME CacheAssumption == CacheSize \in Nat

VARIABLES
  prepared,    \* for each query: persistent and with arguments
  handle,      \* what the command being served runs on
  cache,       \* for each SQL text: "absent", "clean" or "pending"
  refused,     \* queries the server refused because results were pending
  broken       \* history: queries whose walk failed outside a result set

cacheVars == <<prepared, handle, cache, refused, broken>>
allVars == <<streamVars, cacheVars>>

Held(c) == {b \in Batches : c[b] # "absent"}

Pending == \E b \in Batches : cache[b] = "pending"

CacheTypeOK ==
  /\ StreamTypeOK
  /\ prepared \in [Queries -> BOOLEAN]
  /\ handle \in {"none", "once", "cached", "new"}
  /\ cache \in [Batches -> {"absent", "clean", "pending"}]
  /\ Cardinality(Held(cache)) <= CacheSize
  /\ refused \subseteq Queries
  /\ broken \subseteq Queries

CacheInit ==
  /\ StreamInit
  /\ prepared = [q \in Queries |-> FALSE]
  /\ handle = "none"
  /\ cache = [b \in Batches |-> "absent"]
  /\ refused = {}
  /\ broken = {}

-----------------------------------------------------------------------------
(* Mutant: nothing is evicted. *)
InsertOnly(b, state) == cache' = [cache EXCEPT ![b] = state]

(* StatementCache::insert: over capacity some other entry goes, or the new *)
(* one if there is no other.                                               *)
Insert(b, state) ==
  LET full == [cache EXCEPT ![b] = state]
      others == Held(full) \ {b}
  IN  IF Cardinality(Held(full)) <= CacheSize THEN cache' = full
      ELSE \E victim \in IF others = {} THEN {b} ELSE others :
             cache' = [full EXCEPT ![victim] = "absent"]

CacheIssue ==
  /\ \E q \in Queries, b \in Batches, m \in {"many", "optional"} :
       /\ Issue(q, b, m)
       /\ \E p \in BOOLEAN : prepared' = [prepared EXCEPT ![q] = p]
  /\ UNCHANGED <<handle, cache, refused, broken>>

CacheRead == /\ Read \/ \E q \in Queries : Cancel(q)
             /\ UNCHANGED cacheVars

(* The handler picks its statement and executes it; a failure to execute   *)
(* leaves the statements as they were.  What is pending of the statement    *)
(* itself its execution discards.                                          *)
CacheStart ==
  /\ Start
  /\ LET b       == batch[at']
         own     == prepared[at'] /\ cache[b] # "absent"
         blocked == \E c \in Batches : cache[c] = "pending" /\ ~(own /\ c = b)
     IN  /\ blocked => pc' = "fail"
         /\ handle' = IF pc' = "fail" THEN "none"
                      ELSE IF ~prepared[at'] THEN "once"
                      ELSE IF own THEN "cached"
                      ELSE "new"
         /\ refused' = IF blocked THEN refused \cup {at'} ELSE refused
  /\ UNCHANGED <<prepared, cache, broken>>

(* A result set is walked through a CursorImpl, from the inspection of its *)
(* columns to its last row; an error while the handler has one drops it.   *)
(* Counting columns or rows, and going to the next result, is done without. *)
Break ==
  \/ /\ pc' = "fail" /\ pc \in {"inspect", "advance"}
     /\ broken' = broken \cup {at}
  \/ /\ \/ pc' # "fail"
        \/ pc \in {"fetch", "finish"}
        \/ pc = "inspect" /\ Current.columns # 0
     /\ UNCHANGED broken

(* Mutant: the handler takes the statement out of its cursor before it     *)
(* looks whether the row was heard.                                        *)
LeavesOpenCursor ==
  IF pc = "fail" THEN IF at \in broken THEN {"clean", "pending"} ELSE {"clean"}
  ELSE IF pc # "send" /\ result = Len(batch[at]) THEN {"clean"} ELSE {"pending"}

(* What the handler leaves behind of its statement's results: nothing once *)
(* the last one was consumed or a cursor was dropped, the results after a  *)
(* row count nobody heard, and what the server makes of it after an error  *)
(* outside a cursor.                                                       *)
Leaves ==
  IF pc = "fail" THEN IF at \in broken THEN {"clean", "pending"} ELSE {"clean"}
  ELSE IF pc = "send" \/ result = Len(batch[at]) THEN {"clean"} ELSE {"pending"}

(* The statement at the end of a handler.  A new one is cached only if its *)
(* first result had no columns and nothing failed.                         *)
Keep ==
  \/ /\ handle = "cached"
     /\ \E left \in Leaves : cache' = [cache EXCEPT ![batch[at]] = left]
  \/ /\ handle = "new"
     /\ batch[at][1].columns = 0
     /\ pc # "fail"
     /\ \E left \in Leaves : Insert(batch[at], left)
  \/ /\ \/ handle \in {"none", "once"}
        \/ handle = "new" /\ (batch[at][1].columns # 0 \/ pc = "fail")
     /\ UNCHANGED cache

CacheStep ==
  /\ ActorStep /\ ~Start
  /\ IF pc' = "idle" THEN Keep /\ handle' = "none" ELSE UNCHANGED <<cache, handle>>
  /\ Break
  /\ UNCHANGED <<prepared, refused>>

(* Blocking calls on a connection that is at rest. *)
AtRest == pc = "idle" /\ ~Busy /\ \A q \in Queries : sender[q] # "queued"

(* prepare() caches what it prepared, columns or not. *)
PrepareCall(b) ==
  /\ AtRest
  /\ cache[b] = "absent"
  /\ ~Pending
  /\ CacheSize > 0
  /\ Insert(b, "clean")
  /\ UNCHANGED <<streamVars, prepared, handle, refused, broken>>

ClearStatementCache ==
  /\ AtRest
  /\ cache' = [b \in Batches |-> "absent"]
  /\ UNCHANGED <<streamVars, prepared, handle, refused, broken>>

CacheNext == \/ CacheIssue \/ CacheRead \/ CacheStart \/ CacheStep
             \/ \E b \in Batches : PrepareCall(b)
             \/ ClearStatementCache

CacheSpec == CacheInit /\ [][CacheNext]_allVars

-----------------------------------------------------------------------------
(* The query's walk failed between two results, or the query was dropped   *)
(* and a row count of its batch comes before another result.               *)
CutShort(q) ==
  \/ q \in broken
  \/ /\ receiver[q] = "dropped"
     /\ \E i \in 1 .. Len(batch[q]) : i < Len(batch[q]) /\ batch[q][i].columns = 0

(* Results stay pending, and queries are refused for it, only after a      *)
(* query on a prepared statement failed between two results or was dropped *)
(* before the row count in front of another result.  A stream of rows may  *)
(* be dropped anywhere, a stream that ends by itself leaves its statement   *)
(* clean, and a one-shot query leaves nothing however it ends              *)
(* (helpers.rs:169-195, actor.rs:158-172, 213-219 and 231-259).            *)
PendingOnlyIfCutShort ==
  Pending \/ refused # {} => \E q \in Queries : prepared[q] /\ CutShort(q)
=============================================================================
