-------------------------- MODULE MCDatabaseSetup --------------------------
(***************************************************************************)
(* Two programs for TLC, the second with a default schema of its own, and  *)
(* requests of every form, with the characters that are escaped somewhere. *)
(***************************************************************************)
EXTENDS DatabaseSetup

CONSTANTS c1, c2

MCUnits == Special \cup {"'", "]", ".", "yes", "no", "true", "false", "master", "dbo",
                         "ODBC Driver 18", "source", "h", "app", "sa", "p", "%3B",
                         "a", "b", "d", "s", "i1", "i2"}

Url(database, password, query) ==
  [NoRequest EXCEPT !.form = "url", !.user = <<"sa">>, !.password = password,
                    !.database = database, !.query = query]

Flag(name, value) == [key |-> name, value |-> value]

Text(odbc, text) == [NoRequest EXCEPT !.odbc = odbc, !.text = text]

MCRequests ==
  {Url(<<"app">>, <<"%3B">>, <<Flag("encrypt", <<"true">>)>>),
   [Url(<<"app">>, <<"p">>, <<>>) EXCEPT !.odbc = TRUE],
   Url(<<"a", ";", "b">>, <<"p">>, <<Flag("driver", <<"{", "d", ";", "}", "}", "}">>)>>),
   Url(<<"a", "=", "]", "'">>, <<>>, <<Flag("encrypt", <<"false">>),
                                       Flag("trust_certificate", <<"true">>)>>),
   Url(<<>>, <<"p">>, <<>>),
   Url(<<"app">>, <<"p">>, <<Flag("driver", <<"i1", "i2">>)>>),
   Text(FALSE, <<"Server=", "h", ";", "database=", "app", ";", "encrypt=", "no">>),
   Text(TRUE, <<"Server=", "h", ";", "database=", "app">>),
   Text(FALSE, <<"Server=", "h", ";", "PWD=", "{", "Encrypt=", "}">>),
   Text(FALSE, <<"source">>)}

MCRequestsOf == (c1 :> MCRequests) @@
  (c2 :> {Url(<<"app">>, <<>>, <<>>), Url(<<>>, <<>>, <<>>)})

MCMaxCalls == (c1 :> 2) @@ (c2 :> 1)

MCDefaultSchema == (c1 :> Dbo) @@ (c2 :> <<"app">>)

MCSchemas == {<<"s", "]">>, <<"'">>}

MCTables == {<<"'">>, <<"s", "]", ".", "'">>}
=============================================================================
