-------------------------- MODULE ConnectionString --------------------------
(***************************************************************************)
(* ODBC connection strings: how options.rs makes one of a URL and edits    *)
(* it, what migrate.rs takes for the name of the database, and how the     *)
(* ODBC driver and SQL Server (external) read the results.                 *)
(*                                                                         *)
(* A text is a sequence of units: a key with its "=", one of the four      *)
(* characters the escaping is about, a quote or a bracket, or an atom that *)
(* stands for other text.  The parts of a URL are as the url crate         *)
(* (external) delivers them: what is percent-encoded in the user, the      *)
(* password and the path stays so ("%3B"), what is in the query is         *)
(* decoded.                                                                *)
(*                                                                         *)
(* Only "i1" followed by "i2" is special: the two bytes of a dotless i,    *)
(* whose upper case is one byte.  Every other unit counts as one place,    *)
(* which is exact where a displacement does not reach back into a key.     *)
(*                                                                         *)
(* An operator whose result may not be there returns a set, of one value   *)
(* or none.                                                                *)
(***************************************************************************)
EXTENDS Integers, SequencesExt

Keys == {"Driver=", "Server=", "Database=", "database=", "UID=", "PWD=",
         "Encrypt=", "encrypt=", "TrustServerCertificate=", "DSN="}

Has(text, us) == \E i \in DOMAIN text : text[i] \in us

(* The first place of a unit of us, or 0; and the text from there on. *)
Find(text, us) == SelectInSeq(text, LAMBDA u : u \in us)

From(text, us) == LET i == Find(text, us)
                  IN  IF i = 0 THEN <<>> ELSE SubSeq(text, i, Len(text))

Doubled(text, mark) ==
  FlattenSeq([i \in 1..Len(text) |-> IF text[i] = mark THEN <<mark, mark>>
                                     ELSE <<text[i]>>])

-----------------------------------------------------------------------------
(* The ODBC driver's reading (external).  A value in braces ends at a      *)
(* single closing brace, another one at a semicolon; keys are not case     *)
(* sensitive, and of several settings of one key the first counts.         *)
Name(key) == CASE key = "database=" -> "Database="
               [] key = "encrypt=" -> "Encrypt="
               [] OTHER -> key

With(settings, key, value) ==
  [k \in (DOMAIN settings) \cup {key} |-> IF k = key THEN value ELSE settings[k]]

Stored(r) ==
  [r EXCEPT !.mode = "key",
            !.settings = IF r.key \in DOMAIN @ THEN @ ELSE With(@, r.key, r.value)]

ReadUnit(r, u) ==
  CASE r.mode = "key" /\ u = ";" -> r
    [] r.mode = "key" /\ u \in Keys ->
         [r EXCEPT !.mode = "start", !.key = Name(u), !.value = <<>>]
    [] r.mode = "start" /\ u = "{" -> [r EXCEPT !.mode = "braced"]
    [] r.mode \in {"start", "open", "closed"} /\ u = ";" -> Stored(r)
    [] (r.mode = "start" /\ u \notin {"{", ";"}) \/ (r.mode = "open" /\ u # ";") ->
         [r EXCEPT !.mode = "open", !.value = Append(@, u)]
    [] r.mode = "braced" /\ u = "}" -> [r EXCEPT !.mode = "closed"]
    [] (r.mode = "braced" /\ u # "}") \/ (r.mode = "closed" /\ u = "}") ->
         [r EXCEPT !.mode = "braced", !.value = Append(@, u)]
    [] OTHER -> [r EXCEPT !.mode = "malformed"]

(* The settings a string spells, if it spells any. *)
Reading(text) ==
  LET r == FoldLeft(ReadUnit, [mode |-> "key", key |-> "", value |-> <<>>,
                               settings |-> <<>>], Append(text, ";"))
  IN  IF r.mode = "key" THEN {r.settings} ELSE {}

(* SQL Server's reading of a quoted name or literal (external): what comes *)
(* before the closing mark, if nothing comes after it.                     *)
ReadQuotedUnit(r, u, mark) ==
  CASE r.mode = "in" /\ u = mark -> [r EXCEPT !.mode = "out"]
    [] (r.mode = "in" /\ u # mark) \/ (r.mode = "out" /\ u = mark) ->
         [mode |-> "in", read |-> Append(r.read, u)]
    [] OTHER -> [r EXCEPT !.mode = "malformed"]

ReadQuoted(text, mark) ==
  LET r == FoldLeft(LAMBDA s, u : ReadQuotedUnit(s, u, mark),
                    [mode |-> "in", read |-> <<>>], Append(text, mark))
  IN  IF r.mode = "out" THEN {r.read} ELSE {}

-----------------------------------------------------------------------------
Special == {";", "{", "}", "="} \cup Keys

(* Mutant: a semicolon alone does not count as special. *)
EscapeOdbcValueNotSemicolon(value) ==
  IF Has(value, Special \ {";"})
  THEN <<"{">> \o Doubled(value, "}") \o <<"}">> ELSE value

EscapeOdbcValue(value) ==
  IF Has(value, Special) THEN <<"{">> \o Doubled(value, "}") \o <<"}">> ELSE value

Encrypt(text, enable) ==
  IF enable /\ ~Has(text, {"Encrypt="}) THEN text \o <<";", "Encrypt=", "yes">>
  ELSE text

TrustCertificate(text, enable) ==
  IF enable /\ ~Has(text, {"TrustServerCertificate="})
  THEN text \o <<";", "TrustServerCertificate=", "yes">> ELSE text

(* The driver's value is taken as it is, in place of what reaches to the   *)
(* first semicolon.                                                        *)
Driver(text, value) ==
  LET i == Find(text, {"Driver="})
  IN  IF i = 0 THEN text
      ELSE SubSeq(text, 1, i) \o value \o From(SubSeq(text, i, Len(text)), {";"})

Parameter(text, p) ==
  CASE p.key = "encrypt" -> Encrypt(text, p.value = <<"true">>)
    [] p.key = "trust_certificate" -> TrustCertificate(text, p.value = <<"true">>)
    [] p.key = "driver" -> Driver(text, p.value)
    [] OTHER -> text

DefaultDriver == <<"ODBC Driver 18">>

Setting(key, value) ==
  IF value = <<>> THEN <<>> ELSE <<";", key>> \o EscapeOdbcValue(value)

MssqlUrlToConnectionString(url) ==
  FoldLeft(Parameter,
           <<"Driver=">> \o (<<"{">> \o DefaultDriver \o <<"}">>) \o <<";", "Server=">>
             \o url.host \o Setting("Database=", url.database) \o Setting("UID=", url.user)
             \o Setting("PWD=", url.password),
           url.query)

(* A request is what a program asks a connection with: a URL, a connection *)
(* string, or the name of a data source, perhaps after "odbc:".            *)
FromStr(q) ==
  CASE q.form = "url" -> MssqlUrlToConnectionString(q)
    [] q.form = "text" /\ Has(q.text, {"="} \cup Keys) -> q.text
    [] OTHER -> <<"DSN=">> \o q.text

(* The place is looked up in an upper-cased copy, where it is one less for *)
(* each "i2" before it; if it is inside a character of the text itself,    *)
(* slicing there panics.                                                   *)
WithDatabase(text, database) ==
  LET found == Find(text, {"Database=", "database="})
      start == found - Cardinality({i \in 1..(found - 1) : text[i] = "i2"})
      new   == <<"Database=">> \o EscapeOdbcValue(database)
  IN  IF start = 0 THEN {text \o <<";">> \o new}
      ELSE IF text[start] = "i2" THEN {}
      ELSE {SubSeq(text, 1, start - 1) \o new
              \o From(SubSeq(text, start, Len(text)), {";"})}

-----------------------------------------------------------------------------
(* Mutant: the name is taken out of the connection string instead. *)
ExtractDatabaseNameEscaped(q) ==
  IF q.form = "url" /\ q.database # <<>> THEN {EscapeOdbcValue(q.database)} ELSE {}

(* What Url::parse takes for the path: a connection string is no URL, and  *)
(* behind "odbc:" everything is one opaque path.                           *)
ExtractDatabaseName(q) ==
  LET path == IF q.odbc THEN IF q.form = "url" THEN <<"mssql-url">> ELSE q.text
              ELSE IF q.form = "url" THEN q.database ELSE <<>>
  IN  IF path = <<>> THEN {} ELSE {path}

(* What the server makes of a name in brackets and of a literal. *)
Bracketed(name) == ReadQuoted(Doubled(name, "]"), "]")

Literal(text) == ReadQuoted(Doubled(text, "'"), "'")
=============================================================================
