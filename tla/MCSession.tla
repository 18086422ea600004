----------------------------- MODULE MCSession -----------------------------
(* Session on a small instance: two connections and two statements, and    *)
(* the few options that move a statement's target.                         *)
EXTENDS Session, TLC

Alike == Permutations(Connections) \cup Permutations(Statements)

OneQuery == {{"c"}}

TwoPlaces == {<<"acct1", "d1", "c">>, <<"acct2", "d1", "c">>, <<"acct1", "d2", "c">>}

MovingDatabaseOptions ==
  {<<"uri", Str("acct1")>>, <<"connection_string", Str("acct2")>>}

MovingConnectionOptions == {<<"current_catalog", Str("d1")>>, <<"database", Num(1)>>}

MovingStatementOptions ==
  {<<"dialect", Str("datafusion")>>, <<"database", Str("d2")>>}
=============================================================================
