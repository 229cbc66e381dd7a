# TLA+ verification of sqlx-mssql-odbc

This directory specifies the driver in `sqlx-mssql-odbc-core`: how transactions,
results, prepared statements and migrations behave between the async caller, the
command channel, the actor thread and SQL Server, what becomes of a value on
its way from one Rust type through a column to another, and how databases are
opened, created and prepared from a URL. TLC checks the
specifications on small instances; for every value of the constants, TLAPS proves
all of the safety properties that hold, of the transactions, the result streams, the
statement cache, the migrations, the values and the databases.

Line numbers below are those of `sqlx-mssql-odbc-core/src/`.

## 1. Inventory

An `MssqlConnection` is a handle. It owns the sending end of an unbounded
command channel; a thread of its own, the `ConnectionActor`, owns the receiving
end and the ODBC connection, takes one command at a time and runs its handler
to the end. That is the whole of the driver's concurrency, and everything
difficult about it lies at that channel.

| Component | State | Operations | Talks to |
|---|---|---|---|
| Connection actor (`connection/actor.rs`) | `transaction_depth`, the ODBC connection with its autocommit attribute, `stmt_cache`, `batch_size` | `handle_begin`, `handle_commit`, `handle_rollback`, `handle_start_rollback`, `handle_execute`, `handle_prepare`, `handle_exec_sql`, migrations, cache size and clearing | ODBC calls to the server; a reply channel per command; a result channel per query |
| Handle (`connection.rs`, `connection/command.rs`) | its own `transaction_depth`, the command sender, the options | `begin_blocking`, `commit_blocking`, `rollback_blocking`, `start_rollback`, `fetch_many`, `fetch_optional`, `prepare`, `ping`, close | sends commands; blocks on replies, or reads a result channel |
| Transaction manager (`transaction.rs`) | none (the handle's depth) | `begin`, `commit`, `rollback`, `start_rollback` | called by sqlx-core's `Transaction` and its `Drop` |
| Result streaming (`actor.rs`, `connection/helpers.rs`) | the position in the batch, the cursor, the rowset buffer; a channel of 64 items per query | `drive_result_sets`, `stream_rows_unbuffered`, `stream_rows_buffered`, sending, forwarding of errors | the reader, who may drop its end at any time |
| Prepared statement cache (`actor.rs:143-262, 276-345`) | SQL text to ODBC statement, in sqlx-core's LRU `StatementCache` | look-up, insertion after execution or `prepare`, clearing | the server keeps the cursor of a statement that was not read to its end |
| Migrations (`migrate.rs`, `actor.rs:573-740`) | the tracking table, the application lock and the databases, all on the server | `apply`, `revert`, `skip`, `lock`, `unlock`, `dirty_version`, `list_applied_migrations`; `create_database`, `drop_database`, `database_exists`, `create_schema_if_not_exists`, `ensure_migrations_table` | commands to the actor, which switch autocommit without regard to `transaction_depth` |
| Options (`options.rs`) | a connection string and settings | parsing a URL, `encrypt`, `trust_certificate`, `with_database`, settings of buffers, cache and logs | the ODBC driver reads the string |
| Types, arguments, values, codecs (`type_info.rs`, `arguments.rs`, `value.rs`, `types/`) | none | compatibility of types, encoding, decoding | pure functions |
| Buffer descriptors and value fetch (`connection/helpers.rs`) | none | choosing a column buffer, reading a value from it | ODBC's column types |
| Error mapping (`error.rs`) | none | messages and codes; the kind of every error is `Other` | |
| `Any` bridge (`any.rs`) | none | maps types and rows to sqlx's `Any`; forwards calls | sqlx-core decodes each value |
| Macros, CLI, facade | none | forward to the above | |

What is hard in it:

* **Two counters for one fact.** The handle and the actor each count open
  transactions. They are updated at different times, and on the drop path by
  different rules (`connection.rs:146` resets, `actor.rs:467` decrements).
* **A command nobody waits for.** Dropping a `Transaction` queues
  `StartRollback`; later commands, or the end of the handle, follow while the
  transaction is still open on the server.
* **Nesting by savepoint names.** Savepoints are named after the depth, so names
  recur within one server transaction; a commit of a nested transaction leaves
  its mark behind.
* **Partial failure.** Ending a transaction is two ODBC calls, either of which
  may fail; `StartRollback` ignores both.
* **Back-pressure and cancellation.** The actor, and with it the whole
  connection, waits for the reader of a bounded channel, which may be dropped
  at any moment, with the next query already queued.
* **State left on the server.** A walk may be cut short with results of its
  batch still to come. A one-shot statement takes them along and a cursor that is
  dropped discards them, but behind a row count there is no cursor, and a cached
  statement keeps what follows.
* **One connection, two users of autocommit.** A migration switches autocommit
  and ends transactions without looking at the transaction depth, in or out of a
  `Transaction`.
* **A name read twice.** The database of a URL is written into a connection
  string, escaped and edited there by text search, and parsed out of the URL once
  more for the statements that create and drop it.
* **Four tables for one type.** What a Rust type calls itself, what it accepts,
  what it sends and what it decodes are written apart, and so are the kinds the
  two fetch modes produce; they meet only when a value has gone all the way.

What makes each component correct: the actor implements nested transactions;
a client is never told that work is committed, or gone, when it is not; a
released connection is outside every transaction; every reader gets the results
of its own batch in order and is told of a failure; a dropped stream releases
the actor; a connection stays usable; a migration is in effect as a whole and
recorded, or not at all; a connection string means what was asked for, and calls
act on the database it opens; a value that is read is the one that is there, and
the one that was bound. `PROJECT.json` lists the individual
hazards with their lines and the properties that cover them.

## 2. Modules

```
SqlServerSession            NestedTransactions      ResultDelivery
     |                        ^ (refines)             ^ (refines)
TransactionActor -------------+                    ResultStream
     |        \         \                             |
     |         \         ActorMigrations           StatementCache
     |          \             |
TransactionHandle \       ActorMigrationsProofs     Migrations
     |             \          |                        |
     |      TransactionActorProofs                  MigrationsProofs
     |             |                                   |
     TransactionHandleProofs                        SetInduction
                                                       |
                            StatementCache <- ResultStreamProofs

ColumnTypes <- ValueCodecs <- TemporalCodecs <- ColumnValues <- ColumnValuesProofs

ConnectionString <- DatabaseSetup <- DatabaseSetupProofs -> SetInduction
```

**SqlServerSession** is external to the repository: what the ODBC calls of the
transaction handlers do. A session is its autocommit attribute, the log of its
open transaction (work and savepoint marks) and its durable work. It has three
properties of SQL Server the driver meets: turning autocommit on commits what
is open (`SQLSetConnectAttr`), several savepoints may share a name and a
rollback goes to the latest of them, keeping it, and a disconnect rolls back.
A statement is reduced to a work item: what a property can tell apart is only
whether its effect is pending, durable or gone.

**NestedTransactions** is the abstract specification: a stack of the views each
open transaction began with. A rollback restores exactly its own view, a nested
commit only pops the stack, the outermost commit makes the view durable.

**TransactionActor** is the detailed one. Each handler of `actor.rs:346-469` is
one action, because the actor runs it to the end before it takes the next
command; its disjuncts are the handler's branches, with the result the caller
gets. A `?` is a disjunct that leaves what was done so far. The refinement
mapping computes the view each open level would return to from the log.

**TransactionHandle** puts the handle, the command channel and the client in
front of the actor. Sending a command, serving it, and taking its reply are
separate actions. The client is sqlx-core's `Transaction` (external): it can act
only through the innermost open transaction, and one whose commit or rollback
failed is dropped with its rollback pending. The manager's and the handle's own
`depth == 0` guards are the same test of the same field and appear once; so do
their depth updates, which store the same value twice. `open`, `kept` and
`discarded` are what the client believes about its work, and the
properties compare them with the session. `nested_dropped` is history: a
`StartRollback` was queued for a nested transaction, dropped or with a begin that
had failed.

**ResultDelivery** is what the reader of a query is promised; **ResultStream** is
the walk over the batch as the actor performs it, one ODBC call or one channel
operation per action, with two or more queries, their channels, and the reader
that takes, drops or finishes its stream. `sender` says who holds the sending
end, as Rust's ownership does: it is gone when the handler returns, and the
reader's `recv_async` then fails. Rows carry only their position. A rowset is the
number of rows in it, so row-by-row and buffered fetching differ in
`rowset` (1, or `batch_size`), a setting of the connection, and in the unbinding
that may fail. `StreamAssumption` says of SQL Server that a result without columns
has no rows.

**StatementCache** extends ResultStream by the statement a query runs on, what
is left unread on it, and the server's refusal to execute while results are
pending. A result set is walked through an odbc-api `CursorImpl` (made at
`helpers.rs:178`), whose drop closes the cursor and discards all that is pending, so
a walk that ends in a result set, because a row is not heard or a fetch fails, leaves
nothing (`Leaves`). A walk that ends at a row count (`helpers.rs:170`) has no cursor and
leaves the results behind it; after a failure where there is none either, of the
counts or of `SQLMoreResults` (`Break`), what is left is open. `broken`, history, is the
queries of the second kind. odbc-api, the server and sqlx-core's cache are external: the
entry the cache evicts is left open.

**Migrations** is the `Migrate` implementation and the actor's handlers of it,
for several migrators that share one database. The database is an image: how
often each statement of each migration's batch is in effect, and the tracking
rows. A connection in manual-commit mode works on an image of its own. While it
holds a transaction SQL Server (external) makes the others wait for its tables,
so a handler is one action; what its ODBC calls do in turn are the disjuncts of
`HandleMigration`, one per return, of which the apply and the revert handler
differ only in the batch and in the tracking statement. A failed batch leaves any
of its statements in effect, since SQL Server goes on after most errors. Lock,
list, apply or skip or revert, and unlock are separate actions in the order in
which sqlx-core's `Migrator` (external) calls them, and `Close` is a crash
between any two of them as well as the end of a connection.

**ActorMigrations** puts the migration handlers on the session of
TransactionActor, where they meet the transactions of the same connection. A
script is one call of `apply` or `revert`, two statements and the one that writes
its tracking row; its handler is one action, and the connection is whatever the
transaction handlers, or an earlier migration that failed, have left of it.
Migrations has the migrators of several connections and the shared database;
this module has one connection and its modes. Two
variables are history: `torn`, the scripts whose tracking row could not be written,
and `left`, that a failing call has left manual-commit mode on.

**ConnectionString** is `options.rs` and the names of `migrate.rs` as pure operators
over texts, which are sequences of units: a key with its equals sign, one of the
characters the escaping is about, or an atom for other text. How the ODBC driver
reads a connection string, and SQL Server a quoted name, is external, and is the
reference the result is held against. **DatabaseSetup** is the life of databases
around it: programs open connections with a URL, a connection string or a data
source name, after any edits by the builder's methods, create, drop and look for
databases, and prepare schemas and tracking tables. Each call to the server is an
action, which may be refused, so other programs act in between; a connection
whose handle was dropped lasts until its actor has noticed. `asked` is history: the
settings a call has asked for so far, in the order of its edits. `Units`, the units
texts are made of, is a constant that only has to hold those the code writes.

**ColumnTypes** has the data types of ODBC as records of a tag and its
parameters, their names and groups, and their form in offline query data.
**ValueCodecs** and **TemporalCodecs** are `arguments.rs`, `value.rs` and `types/`
as pure operators, one family of Rust types after the other: the columns it is
compatible with, what it sends, what it makes of each kind a fetch may produce. A
decoder that may fail is a set, of one value or none. **ColumnValues** puts them
together as the history of one value: bound as some Rust type, or already there;
kept by a column; made a kind by `fetch_value` and by the buffers, which may be too
small for it (`fits`); read as any Rust type, with the check of `try_get` or
without, or taken over by the `Any` driver. The server is external: what a
column of a type may hold, what it makes of a parameter, and the text the ODBC
driver renders, with the client locale's decimal separator. Row by row it is fetched in
UTF-16; in a narrow buffer it comes in the client's code page (`helpers.rs:396-412`,
`472`), in which the characters beyond ASCII (`NonAscii`) are lost unless it is
UTF-8 (`utf8`, `Narrow`).

What `as f64` (`value.rs:46`), `as f32` (`217`), the parsers and
`Decimal::try_from` (`decimal.rs:54`) make of a number is four functions, given as
constants: `ToF64`, `ToF32`, `ToDecimal` and `FloatToDecimal`. A number they leave as it is
is one that the type has, and beyond the largest they give `Infinity`, which a `Decimal`
refuses. `RoundingAssumption` is all that is said of them: each gives the number itself or
one next to it, every `f32` is an `f64`, an `f64` holds every `i32`, a `Decimal` every `i64`.

The data are scaled and keep their arithmetic: integers of 8, 16, 32 and 64 bits
have 3, 5, 7 and 9; numbers count halves, so that some are whole and some are
not; a date is an integer that spells its year and day, since the code reads dates
out of integers; a timestamp counts units, two to the microsecond and four to
the second. A text is what it spells: a number and its separator, a truth value, a
date, a UUID, a JSON document. The parsers of chrono, time, serde and the decimal
libraries are therefore external, and what the code does with their results is not.

**MC*** modules give TLC the instances, and the ***Proofs** modules hold the
theorems about the modules they are named after (section 5); those about
StatementCache are in `ResultStreamProofs`. **SetInduction** states induction over
the natural numbers, finite sets and sequences for a set of numbers, sets or
sequences, in which form the provers can use it, and what a flattened sequence holds.

## 3. Runs

| Run | Question | Result |
|---|---|---|
| `actor_reported` | With every reported failure, does the actor keep its savepoints apart, implement nested transactions, answer truthfully, and hold manual-commit mode and the commits to the outermost transaction? | yes |
| `actor_migrations` | When migrations run and fail between and inside transactions, the server aborts some and rollbacks fail silently: is a migration whole and recorded or gone, whoever ends its transaction, and is the connection clean when no transaction is open? | yes, but for what a failing call leaves behind (finding 2) |
| `handle` | Do handle and actor agree, is what the client believes true, does a released connection come back clean, do calls return, does the actor exit? Transactions fail and are dropped at every level | yes until a nested one is dropped; after it nothing discarded becomes durable, and the handle never counts more than the actor |
| `nested_drop_loses_commit` | Is kept work durable then? | **no**, finding 1 |
| `stream` | Order, completeness, errors, back-pressure, cancellation and termination of result streams, row by row and with rowsets that do not divide the result | holds |
| `migrations` | Two migrators, every reported failure, a crash at every point: is what is recorded in effect, exactly once and whole? Does a list stay true while it is worked through? Does everybody get on? | yes |
| `migration_left_open` | Does a call of the migrator leave its connection outside a transaction? | **no**, finding 2 |
| `cache_pending` | Do results stay pending, and queries get refused, only after a prepared query failed between two results or was dropped at a row count in front of another one? | yes; a row stream may be dropped anywhere |
| `values` | Does a value read back as what was bound, does every read tell the number or, where its type has it not, one next to it, do the two fetch modes agree, can the `Any` driver take each value over, does offline data keep a type? | yes, but for the exceptions below |
| `bool_refused` | Can a `BIT` column be read as a `bool`? | **no**, finding 3 |
| `uuid_scrambled` | Is a `Uuid` read row by row the one the column spells? | **no**, finding 4 |
| `database_setup` | Does a connection string mean what was asked for after every edit? Do creating, dropping and looking for a database hit the one the URL opens? Is preparing a database idempotent? | yes, but for the exceptions below |

### Bounds

* `Work`: two or three items. Properties compare a work item of one transaction
  with one of another, or one before a savepoint with one after it.
* `MaxDepth = 4`: three savepoint names alive at once, so a rollback can go to
  the first, a middle and the last of them. `MaxLog` leaves room for a mark that
  recurs under work of the same transaction.
* `MaxOpen`, `MaxQueue = 3`: a `StartRollback`, a statement and a call can be
  under way together, and a call is always the last of them, since it blocks.
* `MaxQueries = 2`: a query behind a dropped one; the actor holds one stream at a
  time. The batches contain a row count, an empty result set, a result set longer
  than the channel, and a batch that mixes them. `Capacity` is 2 instead of
  64, so that the channel does fill; `RowSetSizes` are 1 and 2, so that a rowset
  may be the last row only.
* `migrations`: two migrators, two runs each, so that a run follows one that
  failed or crashed; version 1 in a transaction and version 2 without one, each a
  batch of two statements, of which none, either or both take effect.
* `actor_migrations`: one statement of the client, a script in a transaction and one
  without, three levels. Every failure of a call is included but the ignored ones
  that would commit what they cannot roll back: `"restore"` of a dropped
  transaction and `"unrolled"` of a failed batch.
* `database_setup`: two programs, of which one makes two calls, so that it finds what
  it has left, and one may interfere; two preparations, so that one follows another.
  The first uses requests of every form, with each special character in each place
  where it is escaped, or is not; the second logs in with a default schema of its
  own.
* `CacheSize = 2` with three texts: eviction happens. A channel of one place and rowsets
  of two rows leave the reader as many points to drop its stream at as larger ones, in
  1.24 million states.
* `values`: every data type of ODBC and every code of SQL Server's, with two
  lengths, precisions and scales where the code looks at them; every Rust type of
  the crate. Numbers are the ends of each integer type and their neighbours
  beyond, one more, zero, and fractions, with some that a float or a `Decimal` does not
  have: an `f32` has 5 significant bits, an `f64` 7 and a `Decimal` made of one 6, ties go
  to even, and there is a number that overflows an `f32`, one on which rounding twice
  ends elsewhere than rounding once, and a fraction that a `Decimal` cuts; texts are of every sort some decoder
  accepts, and of one none does; dates and timestamps have a year that 16 bits
  (here 5) do not hold, times have fractions of a second and of a microsecond,
  moments have offsets of both signs, and the local zone has one of its own.

In `handle`, `DepthsAgree`, `KeptIsDurableAtFirst`, `OpenNotDurable` and
`ReleasedClean` are stated up to the first drop of a nested transaction
(`nested_dropped`), because finding 1 breaks them from there on. The ignored
failure to restore autocommit (`"restore"` in `IgnoredFaults`) would break
`ManualModeIffOpen` and `CleanAtRest`, so `actor_migrations` leaves it out; `ActorTypeOK`
and `OnlyOutermostCommits` are proved with it too. In `migrations` the ignored failure
of the rollback after a failed batch (`"unrolled"`) is left out for the same
reason: turning autocommit on would commit half a batch. (`handle` leaves out the
ignored failure of a dropped transaction's ODBC rollback for it, too: `actor.rs:458`
goes on to turn autocommit on, which commits what should be gone.)

`values` states `ReadsBackWhatItBound` without the types and values whose round
trip the code does break; each of these exceptions was seen to be needed:

* `bool` (finding 3) and `Uuid` (finding 4; in a buffered fetch a `UNIQUEIDENTIFIER`
  is text, which the check refuses to a `Uuid`, so `ModesAgree` leaves it out, too);
* `DateTime<Local>`: it sends the wall clock without an offset
  (`chrono.rs:127-134`) and takes a timestamp for UTC (`387-397`), so the instant
  shifts by the offset of the zone;
* dates of years that an `i16` does not hold (`chrono.rs:87`): some wrap to a year
  the server accepts;
* `BigDecimal` where the locale's separator is a comma: unlike `Decimal` it does
  not replace it (`bigdecimal.rs:37`).

Where `max_column_size` does not hold a value, the properties say nothing of a
buffered text, byte string or decimal, and all the same of everything else. Where the
client's code page is not UTF-8 they say nothing of a text with characters beyond ASCII
(a `Json` included) in a narrow buffer, that of `CHAR`, `VARCHAR`, `XML`,
`SQL_VARIANT` and the other fallback types: it loses them, and row by row it does not.
`helpers.rs:396` says as much. That the collation of a narrow column has the
characters that are put into it is taken for granted.

`ReadsAreTrue` does not ask an `f32`, `f64` or `Decimal` for a number its type does not
have. `BIGINT` 2^53 + 1 as `f64`, `INTEGER` 16777217 as `f32` and a `DOUBLE` as `Decimal`
(the test at `decimal.rs:134` has a tolerance) are one next to the number, `1e300` as
`f32` is infinite, and as `Decimal` it fails. An `f32` of a long integer or text is rounded
twice, and so may be the farther neighbour, but never beyond one. An integer type
gets the number itself, and so does a `Decimal` of an integer kind (`as_i64` is asked
before `as_f64`, `decimal.rs:50`) and a `BigDecimal` of anything.

`AnyRowsAreMade` leaves out dates, times, timestamps and, row by row,
`UNIQUEIDENTIFIER`: `any.rs:239-246` maps them to text, as which they do not
decode, so a row with one of them cannot be fetched through `Any` at all.

`database_setup` has these exceptions, each of which was seen to be needed:

* `ReadsAsAsked`: the edits search the text and not its settings, so a value that
  holds a key such as `Encrypt=` is taken for it (`options.rs:103`, `115`, `137`,
  `234`); `with_database` cuts at the first semicolon, also inside the braces its own
  `escape_odbc_value` has put around a name (`139-142`), and takes a byte position from
  the upper-cased text, which is off behind a character whose upper case is
  shorter, and panics inside one.
* `SetupHitsItsTarget` and `ExistsWasSo`: behind the legacy prefix `odbc:` the URL
  parser takes the whole rest for the path, so `create_database` creates a database
  of that name (`migrate.rs:24`).
* `ExistsWasSo`: a server that cannot be reached is reported as a database that does
  not exist (`migrate.rs:112-115`).
* `PreparedOnce`: a tracking table without a schema is looked for in `dbo` and created
  in the login's default schema (`migrate.rs:179`), so where they differ the second
  migration run fails to create it again.
* `PreparedOnce` speaks of what is made, and a schema whose name has a quote is
  never made: the statement inside `EXEC('...')` escapes it for brackets only
  (`migrate.rs:161`). Two quotes in a row are read as one, and a schema of another
  name is made; `PreparedAssumption` leaves such names out.
* A connection string that repeats a key, in either spelling, and a URL that names its
  driver twice, or by a text that is not one value, are no requests
  (`RequestsAssumption`). The edits know of one setting of each key, and a driver's
  name is written as it is given (`options.rs:232-238`), so that the rest of such a
  text would be further settings.

Times come back to the second and timestamps to the microsecond, as they are sent.
A `Geometry` never comes back, and needs no exception: the server does not convert
WKB to its own spatial type. Some unit tests assert more compatibility than
`Type::compatible` has (`chrono.rs:436-438`, `uuid.rs:62-68`, `json.rs:71-76`);
the model has the code's.

The work, the batches and the queries are told apart by `CHOOSE` (the
refinement mapping) or by order, so no symmetry is declared.

### Fairness and stopping

The actor runs on a thread of its own and never waits except for the channel of
a reader, which `CanSend` makes a guard: `WF(Actor)` and `WF(ActorStep)`. A
blocking call sits on its reply, so it takes it: `WF(Returns)`. `fetch_optional`
loops until it has its answer: `WF(ReadOn)`. A migrator goes on
with its run, and the connection of a run that failed is closed in the end:
`WF(Call)` and `WF` of that `Close`. The second is an assumption about the
application: a connection that goes back to a pool after a failed run keeps the
session's lock, and others wait for it. Nothing is assumed of what the
client does otherwise; in particular the reader of a `fetch_many` stream may stop
reading for good, and then the actor waits, as it does in the code. Its properties
therefore speak of dropped streams and of `fetch_optional`. `TransactionActor`,
`ActorMigrations`, `StatementCache` and `DatabaseSetup` state no fairness; their runs
check safety only.

Deadlock is not checked (`CHECK_DEADLOCK FALSE`) in the runs of the handle, the
streams, the cache, the migrations, the values and the databases: a closed connection has exited,
all queries of the bound have been issued, a reader may be content, the runs of the
bound are over, the value has been read, the calls have been made. That nothing waits for ever
where it should not is what `CallsReturn`, `ActorExits`, `DroppedFreesActor`,
`OptionalReturns` and `RunsEnd` say. The two runs of the
actor do check it.

## 4. Findings

1. **A dropped nested transaction loses the outer commit**
   (`connection.rs:146`). The drop resets the handle's depth to 0 while the
   actor closes one level; the outer commit then finds depth 0, sends nothing
   and returns `Ok`. The work stays uncommitted in manual-commit mode.
2. **A migration that cannot be recorded leaves its transaction open**
   (`actor.rs:633`, and 641 for the commit): the connection stays in
   manual-commit mode with the batch pending, while the actor counts no
   transaction. The comment at 626 wants the opposite for the failure just before.
3. **A `BIT` column cannot be read as a `bool`** (`arguments.rs:316`): `bool` is
   compatible with the numeric types, and `BIT`, its own type, is not one.
   The unit tests decode values directly, past the check of `try_get`.
4. **A `Uuid` read row by row is another one** (`types/uuid.rs:35`): the bytes are
   taken in SQL Server's order, in which the first three fields are reversed.
   `value.rs:350-361` knows of it.

Observed on the way, and without a run of their own; most are the exceptions of
section 3, and these besides:

* A prepared query whose batch has a row count in front of another result, dropped
  before that count is heard, leaves the later results pending on its cached statement
  (`helpers.rs:170`, `actor.rs:213-219`), so that without multiple active result sets the
  server refuses the next query of another statement. `PendingOnlyIfCutShort` says that
  nothing else does this but a failure between two results. The stream of a single
  `SELECT` may be dropped at any row, prepared or not, as the test
  `tests/mssql.rs:156` does with one that is not: its cursor is closed with it.
* The ignored failure of a dropped transaction's rollback, above.
* A migration inside an open `Transaction` commits it; the rollback of that
  transaction then returns `Ok`, although its work is durable. A batch that fails
  there rolls the client's work back, and the commit that follows returns `Ok`.
* A handler that panics: the stream in progress and every later one end silently as
  if complete (`connection.rs:254` drops the `Execute` that cannot be sent). The
  streams' model has no panics.
* The user and the password of a URL stay percent-encoded (`options.rs:202-203`);
  `encrypt(false)` removes nothing, although it "enables or disables" (`99`); a scheme
  in upper case makes the URL the name of a data source (`260`).
* `options.rs:9-12` warns that long text and binary fields are cut; a buffered
  `DECIMAL` is, too, and is then another number.
* An `AnyRow` looks a column up by its exact name and finds the last of several
  (`any.rs:274-276`), an `MssqlRow` by either case and finds the first (`row.rs:61-75`).

## 5. Proofs

Every theorem is of the form `Spec => []Inv`, `Spec => [][A]_vars` or
`Spec => AbstractSpec`, for every value of the constants that the named assumptions
of the modules allow: any work, any depth and length of the log, the queue and the
channels, any batches, migrators, versions and scripts, and every set of faults
that the theorem does not exclude; any data, columns and widths of the integers; any
requests, texts and names.

The assumptions on the values say that the integer types nest as Rust's do, that
data are of their kind and that only texts which spell no number have characters beyond
ASCII (`ColumnsAssumption`, `WidthsAssumption`, `DataAssumption`, `SeparatorsAssumption`),
and that rounding goes to a next number (`RoundingAssumption`, section 2); those on the databases that texts are made of the units
(`UnitsAssumption`) and what the last two exceptions of `database_setup` say of requests
and names (`RequestsAssumption`, `PreparedAssumption`).

Some theorems exclude faults, in a premise with a name:

| Premise | Excludes | Because |
|---|---|---|
| `RestoreNeverSilent` | `StartRollback` ignores that it could not turn autocommit on | depth 0 would be left in manual-commit mode |
| `AllFailuresReported` | that, the ignored failure of its ODBC rollback, and aborts by the server | discarded work would be committed, or open levels be gone without notice |
| `SavesSucceed` | a failing `SAVE TRANSACTION` | section 6 |
| `RollbackNeverSilent`, `UndoNeverSilent` | the ignored failure of the rollback after a failed batch | turning autocommit on would commit half a batch |

`AllFailuresReported` is the one premise that excludes more than TLC needs. In instances
of `handle`, `KeptIsDurableAtFirst` is violated if `StartRollback` may fail to restore
autocommit or the server may abort, and not if only its rollbacks are ignored;
`DiscardedNeverDurable` is violated if the outermost of them is, and by none of the others. The proofs use it
for `SavepointsInPlace`, on which the views of the open levels rest.

### The actor (`TransactionActorProofs`)

* `ActorTypeCorrect`: under every fault. Where a handler decrements the depth it is
  not 0.
* `ActorLeavesNoManualMode`: `ManualModeIffOpen`, if `RestoreNeverSilent`.
* `ActorCommitsOnlyOutermost`: `OnlyOutermostCommits`, under every fault.
* `ActorKeepsSavepoints`, `ActorImplementsNestedTransactions`, `ActorRepliesAreTrue`:
  `SavepointsInPlace`, the refinement and `RepliesAreTrue`, if `AllFailuresReported`.
  The refinement alone would be content with a rollback that acts as a commit, which
  nested transactions also allow; the last one ties each handler and reply to its
  step.

The inductive invariant of the last three is
`ActorInv == ActorTypeOK /\ ManualModeIffOpen /\ SavepointsInPlace`. None of
its parts would do alone: a nested begin or rollback keeps the savepoints in
place only because the connection is in manual-commit mode (a mark saved under
autocommit would belong to no transaction), and the mode follows the depth only
because the failing paths are known. The lemmas before it say what
each ODBC call leaves of a session, field by field, and what appending to a log
and cutting it do to its marks and its work (`SavedMark`, `KeptMark`, `CutMark`,
`WorkAppended`, `WorkCut`). Then there is one lemma per handler and invariant,
and for the refinement one per handler that names the abstract step it takes.

### The handle (`TransactionHandleProofs`)

* `HandleTypeCorrect`, `HandleNeverGetsAhead`, `HandleDepthsAgree`,
  `HandleOpenNotDurable`: `HandleTypeOK`, `HandleNeverAhead`, `DepthsAgree` and
  `OpenNotDurable`, under every fault.
* `HandleReleasedClean`: `ReleasedClean`, if `RestoreNeverSilent`.
* `HandleKeepsWhatItCommits`: `KeptIsDurableAtFirst`, if `AllFailuresReported`.
* `HandleDiscardsForGood`: `DiscardedNeverDurable`, if `SavesSucceed` besides.

The properties speak of moments at which the channel is drained; the invariants have
to bridge those between. `DepthInv` does it for the depths: a blocking call is the last
command of the channel (`CallOK`), between its serving and its return the actor's
depth is ahead of the handle's by what the unread reply owes (`Owed`), and with a
`StartRollback` in the channel the handle counts 0. `OpenInv` needs no more than
that and `ManualInside`, that inside a transaction the connection is in manual-commit
mode, which no fault breaks: while the counters agree, only a commit that has been
served makes open work durable (`OpenServed`).

`WorkInv` adds where the work is. As long as the counters agree (`InSync`), what an open
transaction did is missing from the view it began with (`Apart`), and is there in
the view with which the next one began, but for what is in the channel still
(`Done`). The first makes its rollback undo all of it, the second its commit keep
all of it. `OutsideOK` orders what was issued outside every transaction against the
`StartRollback` that could undo it. It includes `ActorInv`, so the theorems on the
actor are used for each command served.

After a nested drop the counters do not agree any more, and `DiscardInv` needs
the future: `Reaches` replays the channel on the actor's depth and says that every
statement issued in a transaction is served while the actor still counts one, and
that it ends with at least as many as the client has open. So none of them runs under
autocommit, and what a rollback or a drop removes is not yet durable.

### The streams and the cache (`ResultStreamProofs`)

* `StreamTypeCorrect`: `StreamTypeOK`, with the bound of the channels.
* `SentInOrderHolds`: `SentInOrder`.
* `StreamDelivers`: the refinement of `ResultDelivery`, step by step.
* `CacheTypeCorrect`: `CacheTypeOK`, with the bound of the cache.
* `PendingCutShort`: `PendingOnlyIfCutShort`.

All hold under every fault. `StreamInv` ties the place of the walk (`result`,
`fetched`, `pending`) to the number of events sent so far (`Reached`), so the next
event to be sent is the next one of the batch. For that the place of each
row and count in `Expected` has to be known, which is a concatenation of as many
pieces as the batch has results: the first part of the module computes it by
induction over them. A statement cache restricts the steps of the streams
(`CacheStreams`), so `CacheInv` contains `StreamInv`; `HandleOK` ties the statement
in use to the query it serves and to its entry in the cache. What a handler leaves
pending (`Leaves`) is settled where it returns: at a row its cursor is dropped, at a row
count the batch is known to go on behind it and the reader to have dropped its end, and
after a failure either a cursor was dropped or the query is in `broken`.

### The migrations (`MigrationsProofs`, `ActorMigrationsProofs`)

* `MigrationsTypeCorrect`, `MigrationsListStaysTrue`, `MigrationsRecordedAfterBatch`:
  `MigTypeOK`, `ListStaysTrue` and `RecordedAfterBatch`, under every fault and crash.
* `MigrationsRecordedIffInEffect`: `RecordedIffInEffect`, if `RollbackNeverSilent`.
* `MigratingTypeCorrect`: `ActorTypeOK` of the actor with migrations, under every
  fault.
* `MigratingKeepsScriptsWhole`: `WholeAndRecorded`, if `UndoNeverSilent`.
* `MigratingRestsClean`: `CleanAtRest`, if `RestoreNeverSilent`.

`MigInv` says that the lock is held by one migrator at most and through its whole run,
that its list is the table, and that a connection is fresh unless its run has
failed. The last is what makes the handlers provable: each begins on a clean
connection, so what it can do to the database is in a few lemmas
(`Outcome`), one per way out. In `ActorMigrationsProofs` there is no such clean
start. What is durable is the log at the moment of a commit, by a
migration, a client or a switch of autocommit, or after a rollback to any of its
savepoints; `MigratingInv` therefore says of every place where the log can be cut, and
of its end, that each script's statements up to there are its whole batch with the
row, or nothing.

### The values (`ColumnValuesProofs`)

* `ValuesTyped`: `ValuesTypeOK`.
* `BoundValuesReadBack`, `ReadsTellTheTruth`, `ModesTellTheSame`, `AnyRowsDecode`,
  `OfflineTypesKept`: the five properties of the run `values`, with its exceptions and
  no others.

The life of a value is short, so induction is not what is hard: it is that every Rust
type, column type and fetch mode meet. `ValuesInv` reduces them to what they depend
on. The content is one that a column of its type holds (`HeldBy`); what was bound is
kept in a column of its type's name (`BoundHere`); the kinds are what the fetch makes
of that content, and the results what the decoders make of the kinds. So a property
follows from the content alone, by one lemma per family of types: what a column of
the family holds, the kinds it becomes, and what a decoder of each Rust type makes of
these. Rounding has lemmas of its own: a number that a type has is left as it is (`NearbyItself`),
and rounding first to the `f64`s and then to the `f32`s still ends next to the number,
because every `f32` is an `f64` and so none lies between (`RoundedTwice`). That is why the
modes agree although a buffered integer is an `i64` whose cast rounds and an
`INTEGER` read row by row is not: an `f64` has all of the smaller ones.
Without `HeldBy` a `TINYINT` could hold what does not fit its buffer, and
without `BoundHere` nothing would tie what is read to what was bound. The choice of
an arm by a TLA+ `CASE` is only known where the arms exclude each other, and the first
attempts failed where those of a codec or of a reader overlapped; they are disjoint
now.

### The databases (`DatabaseSetupProofs`)

* `SetupTyped`: `SetupTypeOK`.
* `PreparationsHold`: `PreparedOnce`.
* `StatementsHitTheirTarget`, `ExistenceWasSeen`: `SetupHitsItsTarget` and
  `ExistsWasSo`.
* `StringsReadAsAsked`: `ReadsAsAsked`.

All hold with the exceptions of the properties and no others, for texts of any length.
`SetupInv` is what the first four need: a call in each of its stages (`CallOK`), an
open connection to a database that is there, and in `seen` whether it is there now
(`SeenOK`). Beyond it they need to know what the server reads. A name whose mark was
doubled is read as itself, in brackets and in quotes. And the database that a URL names
is the one that its connection string opens, for which the string has to be read.

A reader of a connection string is a state machine over units, and a text is a sequence
of any length; `SequenceInduction` carries a statement about one unit to a text. A
value that `escape_odbc_value` wrote leaves the reader of any settings with one
more, and behind each part of a URL the reader stands at a key (`UrlIsRead`). The
parameters come in any order and number, so what they make of the text is an invariant
of their own (`Shaped`): the driver that was chosen, the flags set so far, and the
login in between. A driver parameter replaces what is before the first semicolon, which
is why the first value must end there.

The edits search the text. They find what the reader would if every key in the text is
read as a key, and none as part of a value (`KeysRead`). That is so as long as what was
asked for holds no key (`PlainTextsKeys`), and `Faithful(text, asked)` is the invariant
of the builder: if nothing asked for holds a key, the string has `KeysRead` and reads
as what was asked. `with_database` is the last edit, and the hardest, since it cuts a
text in two: what is before the cut is read as before, the new database is stored, and
behind the old value the two readers agree in everything but what they have stored
for the database (`Twins`), which they keep to the end. For that the old value must not
hold the semicolon at which the text is cut (`Held`), and the cut must be where the
key is, which it is unless a character whose upper case is shorter is before it,
which then is still in the text (`MovesRead`). `AllTold` puts the stages of a call
together.

### Only model-checked

The invariants of the runs that expect a violation, and all liveness: `CallsReturn`,
`ActorExits`, `DroppedFreesActor`, `OptionalReturns` and `RunsEnd`. Liveness under
fairness and `ENABLED` are beyond the prover. Induction over data is, too, where it
takes a predicate as a parameter; what `SetInduction` states for sets suffices where
the induction is over the results of a batch, the statements of a script or the
units of a text.

## 6. Not modelled, and why

* Of the migrations: a lock that `sp_getapplock` refuses (its return code is not
  read); several connections together with the transactions of one of them, which
  are two modules.
* Error mapping decides nothing; log settings, and the time a migration took, are
  messages.
* Connection strings longer or stranger than those of the instance: case other than
  in the keys that are written in lower case, and Unicode beyond the one character
  whose upper case is shorter; a longer upper case (U+0149, U+0390) displaces the
  position of `options.rs:134-140` the other way.
* That a schema name with a quote fails even where the schema exists, since the whole batch
  is parsed first (`migrate.rs:157-160`): `PreparedAssumption` has no such name.
* Encodings that fail on a value out of range but for a `u64`: a text that
  `OffsetDateTime` cannot spell (`types/time.rs:99-108`, a year that RFC 3339 does not have)
  is an error of the bind, and no `DATETIMEOFFSET` would take it.
* How numbers are rounded: the proofs assume of IEEE 754 and rust_decimal only that it is
  to a next number. NaN is not a number of the model, and negative zero is zero.
* Columns looked up by name; statement metadata, which `describe.rs` hands to the
  macros.
* `Ping`, `Prepare`, `ScalarI64`, `StatementCacheSize` as commands of the
  handle's transaction model: they change no transaction state. `Shutdown` is
  never sent by the crate.
* Messages: no property is about them.
* `begin` and its kin call into the channel without an await point, so their
  futures cannot be dropped half-way, and the models have no such step.
* A failing `SAVE TRANSACTION` below the handle: what sqlx-core does with the
  half-built `Transaction` of a failed begin is version dependent. The model has both
  reactions, and the actor's runs and the theorems have the failure, but the run
  `handle` leaves it out. If sqlx-core rolls such a begin back, its `StartRollback`
  closes the enclosing transaction instead; what is issued in that one afterwards runs
  under autocommit, and `DiscardedNeverDurable` is lost. It is the only property of
  the run that is, and its theorem is the only one that excludes `"save"`.
* The macros, the CLI and the facade keep no state of their own; of the `Any` bridge
  the calls it forwards and its arguments, which sqlx-core converts.

## 7. Plan

1. **One invariant for the handle after a nested drop**: `HandleNeverAhead` and
   `DiscardedNeverDurable` are proved there; what is kept of the enclosing transaction
   once the driver's finding 1 is repaired is not stated yet.
2. **Several connections with transactions and migrations at once**: what a migrator
   sees of another connection's open transaction.
3. **Columns by name**: that a row and an `AnyRow` look a column up by different rules
   is an observation of section 4 without a model.
