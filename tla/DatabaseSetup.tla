--------------------------- MODULE DatabaseSetup ---------------------------
(***************************************************************************)
(* Programs that set up databases of one server: MigrateDatabase for Mssql *)
(* (create, drop and look for the database of a URL), the preparation of a *)
(* migrator's tables (migrate.rs), and opening a connection with options   *)
(* built from a URL or a connection string (options.rs, connection.rs).    *)
(*                                                                         *)
(* Every call to the server is a step of its own, so that other programs   *)
(* act between them.  A dropped handle does not wait for its actor, which  *)
(* disconnects later: `connections` holds its connection until then.       *)
(* The server is external: a connection may be refused at any time, and a  *)
(* statement for want of a permission.                                     *)
(***************************************************************************)
EXTENDS ConnectionString

CONSTANTS
  Units,            \* what texts are made of
  Clients,
  Requests,         \* for each client, what it connects with
  DefaultSchema,    \* for each client, that of its login
  Schemas,          \* names for create_schema_if_not_exists
  Tables,           \* names of the tracking table
  MaxCalls,         \* bound: calls of each client, but for Prepare
  MaxObjects        \* bound: schemas and tables prepared at once

Texts == Seq(Units)

ASSUME UnitsAssumption ==
  Special \cup {"'", "]", ".", "yes", "ODBC Driver 18", "master", "dbo"} \subseteq Units

(* A connection string holds each key at most once, in either spelling.    *)
KeysOnce(text) ==
  \A i, j \in DOMAIN text :
    text[i] \in Keys /\ text[j] \in Keys /\ Name(text[i]) = Name(text[j]) => i = j

(* The host of a URL needs no escaping; a URL names its driver at most     *)
(* once, and as the ODBC driver reads it, that is one value and repeats no *)
(* key.                                                                    *)
ASSUME RequestsAssumption ==
  \A c \in Clients : \A q \in Requests[c] :
    /\ q \in [form : {"url", "text"}, odbc : BOOLEAN, text : Texts, host : Texts,
               database : Texts, user : Texts, password : Texts,
               query : Seq([key : STRING, value : Texts])]
    /\ q.form = "text" => KeysOnce(q.text)
    /\ q.form = "url" =>
         /\ q.host # <<>> /\ ~Has(q.host, {";", "{"})
         /\ \A i, j \in DOMAIN q.query :
              q.query[i].key = "driver" /\ q.query[j].key = "driver" => i = j
         /\ \A p \in Range(q.query) : p.key = "driver" =>
              LET text == <<"Driver=">> \o p.value
              IN  /\ KeysOnce(text) /\ Reading(text) # {}
                  /\ \A s \in Reading(text) :
                       DOMAIN s = {"Driver="} /\ s["Driver="] # <<>>

(* In a schema's name no quote follows another: two would be read as one.  *)
ASSUME PreparedAssumption ==
  /\ \A c \in Clients : DefaultSchema[c] \in Texts \ {<<>>} /\ MaxCalls[c] \in Nat
  /\ Tables \subseteq Texts
  /\ \A s \in Schemas : s \in Texts /\ \A i \in 1..(Len(s) - 1) :
                         ~(s[i] = "'" /\ s[i+1] = "'")

VARIABLES
  databases,        \* for each database, its schemas and tables
  connections,      \* <<client, database>>, master left out
  client,           \* for each client, its call
  calls,            \* for each client, how many it has made
  seen              \* history: whether the database it asks about was there

setupVars == <<databases, connections, client, calls, seen>>

Dbo == <<"dbo">>

Master == <<"master">>

Masters == Clients \X {Master}

EmptyDatabase == [schemas |-> {Dbo, <<"app">>}, tables |-> {}]

Host == <<"h">>

NoRequest == [form |-> "text", odbc |-> FALSE, text |-> <<>>, host |-> Host,
              database |-> <<>>, user |-> <<>>, password |-> <<>>, query |-> <<>>]

Idle(result) ==
  [pc |-> "idle", op |-> "none", q |-> NoRequest, text |-> <<>>,
   asked |-> <<>>, on |-> <<>>, result |-> result]

SetupTypeOK ==
  /\ Master \in DOMAIN databases
  /\ \A x \in connections : x[1] \in Clients /\ x[2] \in DOMAIN databases
  /\ \A c \in Clients :
       /\ client[c].pc \in {"idle", "building", "direct", "master", "statement", "connected"}
       /\ client[c].result \in {"none", "ok", "err", "true", "false"}
       /\ client[c].on \notin {<<>>, Master} => <<c, client[c].on>> \in connections
       /\ calls[c] \in 0..MaxCalls[c]
       /\ seen[c] \subseteq BOOLEAN

SetupInit ==
  /\ databases = [n \in {Master} |-> EmptyDatabase]
  /\ connections = {}
  /\ client = [c \in Clients |-> Idle("none")]
  /\ calls = [c \in Clients |-> 0]
  /\ seen = [c \in Clients |-> {}]

-----------------------------------------------------------------------------
(* The database a string's settings name, and the one a request names.     *)
DatabaseIn(settings) ==
  IF "Database=" \in DOMAIN settings THEN settings["Database="] ELSE Master

Targets == [q \in UNION {Requests[c] : c \in Clients} |->
              {DatabaseIn(s) : s \in Reading(FromStr(q))}]

Target(q) == Targets[q]

Opens(s) == /\ "Server=" \in DOMAIN s => s["Server="] = Host
            /\ DatabaseIn(s) \in DOMAIN databases

(* What a program asks for with each part of a URL; the value of a driver  *)
(* is written as ODBC spells it.                                           *)
DriverAsked(q) ==
  LET given == {p \in Range(q.query) : p.key = "driver"}
  IN  IF given = {} THEN {DefaultDriver}
      ELSE {s["Driver="] : s \in UNION {Reading(<<"Driver=">> \o p.value) : p \in given}}

FlagAsked(q, name) ==
  IF [key |-> name, value |-> <<"true">>] \in Range(q.query) THEN <<"yes">> ELSE <<>>

Given(settings, key, value) ==
  IF value = <<>> THEN settings ELSE With(settings, key, value)

Asked(q) ==
  LET server(d)  == Given(Given(<<>>, "Driver=", d), "Server=", q.host)
      login(d)   == Given(Given(Given(server(d), "Database=", q.database),
                                "UID=", q.user), "PWD=", q.password)
      flagged(d) == Given(Given(login(d), "Encrypt=", FlagAsked(q, "encrypt")),
                          "TrustServerCertificate=", FlagAsked(q, "trust_certificate"))
  IN  IF q.form = "url" THEN {flagged(d) : d \in DriverAsked(q)}
      ELSE Reading(FromStr(q))

-----------------------------------------------------------------------------
(* The options of a call, pointed at master; the call fails at once if the *)
(* URL names no database, and panics if the rewriting does.                *)
ToMaster(call) ==
  LET moved == {[call EXCEPT !.pc = "master", !.text = t,
                             !.asked = With(@, "Database=", Master)] :
                  t \in WithDatabase(call.text, Master)}
  IN  IF ExtractDatabaseName(call.q) = {} \/ moved = {} THEN {Idle("err")} ELSE moved

Begin(c) ==
  /\ client[c].pc = "idle" /\ calls[c] < MaxCalls[c]
  /\ calls' = [calls EXCEPT ![c] = @ + 1]
  /\ \E q \in Requests[c], op \in {"open", "exists", "create", "drop"} :
     \E a \in Asked(q) :
       LET call == [pc |-> "building", op |-> op, q |-> q, text |-> FromStr(q),
                    asked |-> a, on |-> <<>>, result |-> "none"]
       IN  \E next \in CASE op = "open" -> {call}
                         [] op = "exists" -> {[call EXCEPT !.pc = "direct"]}
                         [] OTHER -> ToMaster(call) :
             client' = [client EXCEPT ![c] = next]
  /\ UNCHANGED <<databases, connections>>

(* The builder's methods; what is already set stays. *)
Build(c) ==
  LET call == client[c]
  IN  /\ call.pc = "building"
      /\ \E edit \in {[key |-> "Encrypt=", text |-> Encrypt(call.text, TRUE)],
                      [key |-> "TrustServerCertificate=",
                       text |-> TrustCertificate(call.text, TRUE)]} :
           client' = [client EXCEPT ![c].text = edit.text,
                        ![c].asked = IF edit.key \in DOMAIN @ THEN @
                                     ELSE With(@, edit.key, <<"yes">>)]
      /\ UNCHANGED <<databases, connections, calls>>

(* Mutant: a database that cannot be opened is one that does not exist. *)
ConnectFailedNoFallback(c) ==
  /\ client[c].pc = "direct"
  /\ client' = [client EXCEPT ![c] = Idle("false")]
  /\ UNCHANGED <<databases, connections, calls>>

ConnectFailed(c) ==
  LET call == client[c]
  IN  /\ call.pc \in {"building", "direct", "master"}
      /\ \E next \in CASE call.pc = "direct" -> ToMaster(call)
                       [] call.pc = "master" /\ call.op = "exists" -> {Idle("false")}
                       [] OTHER -> {Idle("err")} :
           client' = [client EXCEPT ![c] = next]
      /\ UNCHANGED <<databases, connections, calls>>

(* A connection that only shows that the database is there is dropped. *)
Connect(c) ==
  LET call == client[c]
  IN  /\ call.pc \in {"building", "direct", "master"}
      /\ \E s \in Reading(call.text) :
           /\ Opens(s)
           /\ connections' = connections \cup ({<<c, DatabaseIn(s)>>} \ Masters)
           /\ client' = [client EXCEPT ![c] =
                CASE call.pc = "building" -> [@ EXCEPT !.pc = "connected", !.on = DatabaseIn(s)]
                  [] call.pc = "direct" -> Idle("true")
                  [] call.pc = "master" -> [@ EXCEPT !.pc = "statement", !.on = DatabaseIn(s)]]
      /\ UNCHANGED <<databases, calls>>

InUse(n) == n = Master \/ \E x \in connections : x[2] = n

Execute(c, op, result) ==
  /\ client[c].pc = "statement" /\ client[c].op = op
  /\ client' = [client EXCEPT ![c] = Idle(result)]
  /\ UNCHANGED <<connections, calls>>

CreateDatabase(c) ==
  /\ Execute(c, "create", "ok")
  /\ \E name \in ExtractDatabaseName(client[c].q) : \E n \in Bracketed(name) :
       /\ n \notin DOMAIN databases
       /\ databases' = With(databases, n, EmptyDatabase)

(* Mutant: the database is taken from whoever is connected to it. *)
DropDatabaseForced(c) ==
  /\ Execute(c, "drop", "ok")
  /\ databases' = [m \in (DOMAIN databases) \ ExtractDatabaseName(client[c].q)
                    |-> databases[m]]

DropDatabase(c) ==
  /\ Execute(c, "drop", "ok")
  /\ \E name \in ExtractDatabaseName(client[c].q) : \E n \in Bracketed(name) :
       /\ ~InUse(n)
       /\ databases' = [m \in (DOMAIN databases) \ {n} |-> databases[m]]

(* The count of its name in sys.databases. *)
DatabaseExists(c) ==
  /\ \E name \in ExtractDatabaseName(client[c].q) : \E n \in Literal(name) :
       Execute(c, "exists", IF n \in DOMAIN databases THEN "true" ELSE "false")
  /\ UNCHANGED databases

StatementFailed(c) ==
  /\ \E op \in {"create", "drop", "exists"} : Execute(c, op, "err")
  /\ UNCHANGED databases

(* The actor of a handle that was dropped disconnects. *)
Disconnect(c) ==
  /\ \E x \in connections : /\ x[1] = c /\ x[2] # client[c].on
                            /\ connections' = connections \ {x}
  /\ UNCHANGED <<databases, client, calls>>

-----------------------------------------------------------------------------
(* A migrator's preparations on an open connection: what they may make of  *)
(* its database; nothing if the statement fails.                           *)
CreateSchemaIfNotExists(db, schema) ==
  IF Literal(schema) \subseteq db.schemas THEN {db}
  ELSE {[db EXCEPT !.schemas = @ \cup {s}] : s \in
          UNION {ReadQuoted(t, "]") : t \in ReadQuoted(Doubled(schema, "]"), "'")}}

SplitTableName(name) ==
  LET dot == Find(name, {"."})
  IN  [schema |-> SubSeq(name, 1, dot - 1), table |-> SubSeq(name, dot + 1, Len(name))]

(* The table is created in the schema it is qualified with, or in that of  *)
(* the login.                                                              *)
CreateTable(db, own, name) ==
  LET s    == SplitTableName(name)
      made == (IF s.schema = <<>> THEN {own} ELSE Bracketed(s.schema)) \X Bracketed(s.table)
  IN  {[db EXCEPT !.tables = @ \cup {x}] :
         x \in {y \in made \ db.tables : y[1] \in db.schemas}}

(* Mutant: a table of that name in any schema will do. *)
EnsureMigrationsTableAnywhere(db, own, name) ==
  IF \E x \in db.tables : x[2] = SplitTableName(name).table THEN {db}
  ELSE CreateTable(db, own, name)

(* It is looked for in the schema it is qualified with, or in dbo. *)
EnsureMigrationsTable(db, own, name) ==
  LET s      == SplitTableName(name)
      looked == (IF s.schema = <<>> THEN {Dbo} ELSE Literal(s.schema)) \X Literal(s.table)
  IN  IF looked \subseteq db.tables THEN {db} ELSE CreateTable(db, own, name)

(* Where SQL Server looks for the table that the list is read from. *)
Listed(db, own, name) ==
  LET s == SplitTableName(name)
  IN  \E x \in db.tables :
        /\ x[1] \in IF s.schema = <<>> THEN {own, Dbo} ELSE Bracketed(s.schema)
        /\ x[2] \in Bracketed(s.table)

Objects(n) ==
  Cardinality((databases[n].schemas \ EmptyDatabase.schemas) \cup databases[n].tables)

Prepare(c) ==
  /\ client[c].pc = "connected"
  /\ MapThenSumSet(Objects, DOMAIN databases) < MaxObjects
  /\ LET db == databases[client[c].on]
     IN  \E after \in UNION ({CreateSchemaIfNotExists(db, s) : s \in Schemas} \cup
                             {EnsureMigrationsTable(db, DefaultSchema[c], t) : t \in Tables}) :
           databases' = [databases EXCEPT ![client[c].on] = after]
  /\ UNCHANGED <<connections, client, calls>>

Close(c) ==
  /\ client[c].pc = "connected"
  /\ client' = [client EXCEPT ![c] = Idle("ok")]
  /\ UNCHANGED <<databases, connections, calls>>

-----------------------------------------------------------------------------
There(q, dbs) == Target(q) \cap DOMAIN dbs # {}

(* Whoever takes a step, a call of database_exists might see it. *)
Observe ==
  seen' = [c \in Clients |->
             IF client'[c].op # "exists" THEN {}
             ELSE (IF client[c].op = "exists" THEN seen[c] ELSE {})
                    \cup {There(client'[c].q, databases')}]

SetupNext ==
  \E c \in Clients :
    \/ Begin(c) /\ Observe
    \/ Build(c) /\ Observe
    \/ Connect(c) /\ Observe
    \/ ConnectFailed(c) /\ Observe
    \/ CreateDatabase(c) /\ Observe
    \/ DropDatabase(c) /\ Observe
    \/ DatabaseExists(c) /\ Observe
    \/ StatementFailed(c) /\ Observe
    \/ Disconnect(c) /\ Observe
    \/ Prepare(c) /\ Observe
    \/ Close(c) /\ Observe

SetupSpec == SetupInit /\ [][SetupNext]_setupVars

-----------------------------------------------------------------------------
(* A connection string says what was asked for, after any sequence of      *)
(* edits: the parts of the URL with whatever characters they hold, its     *)
(* parameters, encrypt and trust_certificate in any order, and another     *)
(* database in place of its own (options.rs:102-150, 173-244).  The edits  *)
(* search the text and not its settings, so that this is not so of a value *)
(* that holds a key, nor, when the database is replaced, of a name with a  *)
(* semicolon or behind a character whose upper case is shorter.            *)
ReadsAsAsked ==
  \A c \in Clients :
    LET call == client[c]
        plain == \A k \in DOMAIN call.asked : ~Has(call.asked[k], Keys)
        replaceable == /\ \A n \in Target(call.q) : ~Has(n, {";"} \cup Keys)
                       /\ ~Has(call.text, {"i2"})
    IN  call.pc # "idle" /\ plain /\ (call.pc \in {"master", "statement"} => replaceable)
          => Reading(call.text) = {call.asked}

(* create_database and drop_database act on the database that a connection *)
(* with the same URL opens, and on no other, whatever characters its name  *)
(* holds and whatever others create and drop meanwhile (migrate.rs:20-31,  *)
(* 85-98, 130-143).  Not so behind "odbc:", where the whole rest is taken *)
(* for the name.                                                           *)
SetupHitsItsTarget ==
  [][\A c \in Clients :
       LET op == client[c].op
           q  == client[c].q
           other(n) == n \in DOMAIN databases <=> n \in DOMAIN databases'
       IN  op \in {"create", "drop"} /\ client'[c].pc = "idle" /\ ~q.odbc =>
             /\ \A n \in ((DOMAIN databases) \cup (DOMAIN databases')) \ Target(q) : other(n)
             /\ client'[c].result = "ok" => (There(q, databases') <=> op = "create")]_setupVars

(* What database_exists says was so at some time during the call: of the   *)
(* database the URL opens, unless it could not ask, when it says that it   *)
(* does not exist (migrate.rs:100-128).                                    *)
ExistsWasSo ==
  [][\A c \in Clients :
       client[c].op = "exists" /\ client'[c].pc = "idle" /\ ~client[c].q.odbc =>
         /\ client'[c].result = "true" => TRUE \in seen[c]
         /\ client'[c].result = "false" => FALSE \in seen[c] \/ client[c].pc = "master"]_setupVars

(* Preparing is idempotent and enough: a schema or a tracking table that   *)
(* is there is left alone, and one that was ensured is found by the list,  *)
(* in any schema and under any name, whoever prepared the database before  *)
(* (migrate.rs:53-78, 153-207).  But a name without a schema is looked for *)
(* in dbo, so that a login with another default schema does not find its   *)
(* own table, and the second migration run fails to create it; and of two  *)
(* quotes in the name of a schema, EXEC('...') reads one.                  *)
PreparedOnce ==
  \A db \in Range(databases) :
    /\ \A s \in Schemas : LET after == CreateSchemaIfNotExists(db, s) IN
         /\ s \in db.schemas => after = {db}
         /\ \A d \in after : s \in d.schemas
    /\ \A t \in Tables, c \in Clients :
         LET own   == DefaultSchema[c]
             after == EnsureMigrationsTable(db, own, t)
         IN  /\ Listed(db, own, t) /\ (own = Dbo \/ SplitTableName(t).schema # <<>>)
                  => after = {db}
             /\ \A d \in after : Listed(d, own, t)
=============================================================================
