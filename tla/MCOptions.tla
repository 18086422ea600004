----------------------------- MODULE MCOptions -----------------------------
(* Session with its history on one connection and one statement, and every *)
(* option, legal and illegal, that decides how a connection authenticates  *)
(* or what a statement does.                                               *)
EXTENDS SessionHistory, FiniteSets

OneQuery == {{"c"}}

OnePlace == {<<"acct1", "d1", "c">>}

(* Two names of one option, and a value that is refused: lists of two hold *)
(* one option that is taken and then one that is not.                      *)
ScopingOptions ==
  {<<"current_catalog", Str("d1")>>, <<"database", Str("d2")>>, <<"database", Num(1)>>}

CredentialOptions ==
  {<<"uri", Str("acct1")>>, <<"endpoint", Str("")>>, <<"endpoint", Str("bad")>>,
   <<"password", Str("k1")>>,
   <<"connection_string", Str("acct2")>>, <<"tenant_id", Str("t1")>>,
   <<"client_id", Str("i1")>>, <<"client_secret", Str("s1")>>,
   <<"account_key", Num(1)>>, <<"consistency", Str("session")>>}
    \cup {<<"auth", Str(a)>> : a \in {"key", "managed_identity",
            "service_principal", "connection_string", "none"}}

EveryStatementOption ==
  {<<"dialect", Str("datafusion")>>, <<"dialect", Str("native")>>,
   <<"dialect", Str("sql")>>, <<"output", Str("struct")>>,
   <<"container", Str("c")>>, <<"sample_size", Num(0)>>, <<"sample_size", Str("9")>>,
   <<"number_inference", Str("decimal")>>, <<"decimal", Str(<<20, 4>>)>>,
   <<"decimal", Str(<<4, 5>>)>>, <<"decimal", Str(<<39, 9>>)>>,
   <<"epoch_fields", Str({<<"at", "s">>})>>, <<"epoch_fields", Str({<<"at", "us">>})>>,
   <<"heterogeneous", Str("variant")>>, <<"infer_temporal", Str("on")>>,
   <<"pushdown_count", Str("off")>>, <<"pushdown_avg", Str("true")>>,
   <<"pushdown_sort", Str("false")>>, <<"pushdown_multi_sort", Str("on")>>,
   <<"pushdown_sort", Str("yes")>>, <<"consistency", Str("session")>>}

(* Two bounds.  A statement is made only from a database that has its      *)
(* endpoint and nothing else; until then the database's options are free,  *)
(* and no call that takes time begins.                                     *)
PlainConfig == [NoConfig EXCEPT !.endpoint = "acct1"]

StatementsArePlain ==
  IF \A s \in Statements : stmt[s] = Unset THEN \A n \in Connections : IsIdle(n)
  ELSE config = PlainConfig /\ \A n \in Connections : born[n] \in {Unset, PlainConfig}

(* Of the ten options that only shape the answer at most two are other     *)
(* than by default (a decimal's precision and scale are one); the four     *)
(* that decide what is run are free.                                       *)
FewOptions ==
  \A s \in Statements : stmt[s] # Unset =>
    Cardinality({f \in DOMAIN stmt[s] \ {"dialect", "container", "database", "query", "decimal_scale"} :
                   stmt[s][f] # NewStatementState(stmt[s].on)[f]}) <= 2
=============================================================================
