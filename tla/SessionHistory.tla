--------------------------- MODULE SessionHistory ---------------------------
(***************************************************************************)
(* Session with a history of what its clients asked for: the last value of *)
(* every option that a call took without an error, and the last query.     *)
(* The objects keep parsed copies of it in fields of their own, hand them  *)
(* down when they are made, and put the structures a query runs with       *)
(* together from them; the history knows only the calls.                   *)
(***************************************************************************)
EXTENDS Session
LOCAL INSTANCE SequencesExt

VARIABLE asked    \* of each connection and statement, the values by option

NothingAsked == [k \in {} |-> Unset]

With(a, key, value) ==
  [k \in DOMAIN a \cup {key} |-> IF k = key THEN value ELSE a[k]]

Ask(x, key, value) == asked' = [asked EXCEPT ![x] = With(@, key, value)]

(* A connection is asked for its database by the list it is made with, or  *)
(* else by the option of the database object.                              *)
AskedOf(options) ==
  IF options # <<>> THEN With(NothingAsked, "database", Last(options)[2])
  ELSE IF config.database # Unset THEN With(NothingAsked, "database", Str(config.database))
  ELSE NothingAsked

HInit == Init /\ asked = [x \in Callers |-> NothingAsked]

(* The calls that ask for something. *)
Asking ==
  \/ \E n \in Connections, l \in OptionLists(ConnectionOptions) :
       NewConnection(n, l) /\ asked' = [asked EXCEPT ![n] = AskedOf(l)]
  \/ \E n \in Connections, o \in ConnectionOptions :
       SetConnectionOption(n, o[1], o[2]) /\ Ask(n, "database", o[2])
  \/ \E n \in Connections, s \in Statements :
       NewStatement(n, s) /\ asked' = [asked EXCEPT ![s] = asked[n]]
  \/ \E s \in Statements, o \in StatementOptions :
       SetStatementOption(s, o[1], o[2]) /\ Ask(s, o[1], o[2])
  \/ \E s \in Statements, q \in Queries : SetSqlQuery(s, q) /\ Ask(s, "query", Str(q))

(* The others, those that are refused among them. *)
NotAsking ==
  /\ \/ \E o \in DatabaseOptions : SetDatabaseOption(o[1], o[2])
     \/ \E n \in Connections, l \in OptionLists(ConnectionOptions) : NewConnectionFails(n, l)
     \/ RefuseOption
     \/ Begin
     \/ \E x \in Callers : Continue(x)
  /\ UNCHANGED asked

HNext == Asking \/ NotAsking

HSpec == HInit /\ [][HNext]_<<vars, asked>>
----------------------------------------------------------------------------
(* What an option is where nothing was asked, as options.rs documents it,  *)
(* and DESIGN.md for the sample and the decimal.                           *)
Default ==
  [dialect |-> "native", output |-> "json", container |-> Unset, database |-> Unset,
   query |-> Unset, sample_size |-> 1000, number_inference |-> "float64",
   decimal |-> <<38, 9>>, infer_temporal |-> "off", epoch_fields |-> {},
   heterogeneous |-> "string", pushdown_count |-> "on", pushdown_avg |-> "off",
   pushdown_sort |-> "on", pushdown_multi_sort |-> "off"]

AskedText(a, key) == IF key \in DOMAIN a THEN a[key].string ELSE Default[key]

AskedOn(a, key) == IsOn(AskedText(a, key))

(* A sample has the size that was asked for if that is a size at all.      *)
AskedSample(a) ==
  IF "sample_size" \notin DOMAIN a THEN Default.sample_size
  ELSE IF a["sample_size"].int >= 1 THEN a["sample_size"].int
  ELSE 1

AskedNumber(a) ==
  IF AskedText(a, "number_inference") = "decimal"
  THEN [mode |-> "decimal", precision |-> AskedText(a, "decimal")[1],
        scale |-> AskedText(a, "decimal")[2]]
  ELSE [mode |-> "float64"]

AskedStatement(a) ==
  [dialect |-> AskedText(a, "dialect"),
   output |-> AskedText(a, "output"),
   container |-> AskedText(a, "container"),
   database |-> AskedText(a, "database"),
   sample |-> AskedSample(a),
   number |-> AskedNumber(a),
   temporal |-> AskedOn(a, "infer_temporal"),
   epoch |-> AskedText(a, "epoch_fields"),
   heterogeneous |-> AskedText(a, "heterogeneous"),
   count |-> AskedOn(a, "pushdown_count"),
   avg |-> AskedOn(a, "pushdown_avg"),
   sort |-> AskedOn(a, "pushdown_sort"),
   multi_sort |-> AskedOn(a, "pushdown_multi_sort")]

(* What a statement runs with is what was last asked for, option by        *)
(* option, since it was made, and where nothing was asked the default that *)
(* options.rs documents (:33-58), for the database what was asked of its   *)
(* connection until then; and a connection's database is the last one it   *)
(* was asked for.  No call that was refused has left a trace in between:   *)
(* not an illegal value of an option, not the list of a connection of      *)
(* which one option was taken and the next refused (database.rs:70-75).    *)
AsAsked ==
  /\ \A n \in Connections : client[n] # Unset =>
       /\ "database" \in DOMAIN asked[n] => IsString(asked[n]["database"])
       /\ current[n] = AskedText(asked[n], "database")
  /\ \A s \in Statements : stmt[s] # Unset =>
       /\ Effective(stmt[s]) = AskedStatement(asked[s])
       /\ stmt[s].query = AskedText(asked[s], "query")
       /\ ~IsIdle(s) => job[s].database = AskedText(asked[s], "database")
=============================================================================
