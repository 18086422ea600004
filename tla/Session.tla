------------------------------ MODULE Session ------------------------------
(***************************************************************************)
(* The objects of one ADBC session: a database with its configuration      *)
(* (database.rs), the connections made from it (connection.rs, client.rs)  *)
(* and their statements (statement.rs), each with the options clients set  *)
(* and with what it copied from its parent when it was made.  Threads use  *)
(* different objects at the same time; one object is used by one thread at *)
(* a time, since the calls that change it take it exclusively (&mut self). *)
(*                                                                         *)
(* What takes time is the executions of statements and the connections'    *)
(* get_table_schema: both resolve containers through the cache of their    *)
(* connection, in steps that interleave with every other call.  A schema   *)
(* is represented by where it was sampled, a query text by the containers  *)
(* it names, a connection string by the account in it.                     *)
(***************************************************************************)
EXTENDS Integers, Sequences
LOCAL INSTANCE SequencesExt
LOCAL INSTANCE FiniteSetsExt

CONSTANTS
  Connections,        \* those made from the one database (a bound)
  Statements,         \* those made from the connections (a bound)
  Containers,
  Queries,            \* the texts clients set, each a set of containers
  Catalogs,           \* the databases asked for in metadata calls, or Unset
  NonEmpty,           \* the <<account, database, container>> with documents
  Malformed,          \* accounts that are no URL, which the SDK refuses
  DatabaseOptions,    \* the <<key, value>> pairs clients set on a database,
  ConnectionOptions,  \* on a connection
  StatementOptions,   \* and on a statement
  ListBound,          \* options in one list (a bound)
  HasVariant,         \* the build has the feature "variant"
  Unset               \* None

ASSUME DisjointAssumption == Connections \cap Statements = {}
ASSUME QueriesAssumption == Unset \notin Queries /\ Queries \subseteq SUBSET Containers

(* An option value as it arrives: a string, an integer, or bytes. *)
Str(s) == [string |-> s]
Num(i) == [int |-> i]
IsString(v) == "string" \in DOMAIN v
IsInt(v) == "int" \in DOMAIN v

OptionLists(options) == BoundedSeq(options, ListBound)

ASSUME OptionsAssumption ==
  \A o \in DatabaseOptions \cup ConnectionOptions \cup StatementOptions :
    /\ IsString(o[2]) => o[2].string # Unset
    /\ IsInt(o[2]) => o[2].int \in Int /\ o[2].int # Unset

VARIABLES
  config,     \* CosmosDatabase.config
  born,       \* CosmosConnection.config: the database's when it was made
  client,     \* CosmosConnection.client, shared with its statements
  current,    \* CosmosConnection.current_database
  cache,      \* CosmosConnection.schema_cache, shared with its statements
  stmt,       \* the statements
  job,        \* the call that each object is busy with, if any
  outcome     \* how the last step went: "ok", "error" or "notfound"

vars == <<config, born, client, current, cache, stmt, job, outcome>>

Callers == Connections \cup Statements

----------------------------------------------------------------------------
(* The database's options. *)

ConfigFields ==
  {"endpoint", "auth", "account_key", "connection_string", "tenant_id",
   "client_id", "client_secret", "database"}

(* Two canonical keys are other names of two of the driver's own. *)
ConfigField(key) ==
  CASE key = "uri" -> "endpoint"
    [] key = "password" -> "account_key"
    [] OTHER -> key

DatabaseAccepts(key, value) ==
  ConfigField(key) \in ConfigFields /\ IsString(value)

ConfigWith(c, option) ==
  [c EXCEPT ![ConfigField(option[1])] = option[2].string]

(* Options taken one after the other: of those for one field the last      *)
(* stays.                                                                  *)
ConfigAfter(c, options) ==
  [f \in ConfigFields |->
     LET at == {i \in DOMAIN options : ConfigField(options[i][1]) = f}
     IN  IF at = {} THEN c[f] ELSE options[Max(at)][2].string]

DatabaseTakes(options) ==
  \A i \in DOMAIN options : DatabaseAccepts(options[i][1], options[i][2])

NoConfig == [f \in ConfigFields |-> Unset]

----------------------------------------------------------------------------
(* Credentials. *)

(* The options each mode is made of, and the modes that need all of them. *)
Carries ==
  [key |-> {"account_key"},
   connection_string |-> {"connection_string"},
   managed_identity |-> {"client_id"},
   service_principal |-> {"tenant_id", "client_id", "client_secret"},
   workload_identity |-> {"tenant_id", "client_id"},
   entra |-> {}]

Strict == {"key", "connection_string", "service_principal"}

NoCredential == [mode |-> "none"]

(* What an option of the database can hold, and what a client is made      *)
(* with; None is neither.                                                  *)
Texts == {Unset} \cup {o[2].string : o \in {p \in DatabaseOptions : IsString(p[2])}}

Credentials ==
  UNION {[mode : {mode}, carries : [Carries[mode] -> Texts]] : mode \in DOMAIN Carries}

Clients == [account : Texts, credential : Credentials]

ASSUME UnsetAssumption == Unset \notin [ConfigFields -> Texts] /\ Unset \notin Clients

(* A plausible bug: an account key is used whenever there is one. *)
ModeKeyFirst(c) ==
  IF c.connection_string # Unset THEN "connection_string"
  ELSE IF c.account_key # Unset THEN "key"
  ELSE IF c.auth # Unset THEN c.auth
  ELSE "entra"

Mode(c) ==
  IF c.connection_string # Unset THEN "connection_string"
  ELSE IF c.auth # Unset THEN c.auth
  ELSE IF c.account_key # Unset THEN "key"
  ELSE "entra"

CredentialFrom(c) ==
  LET mode == Mode(c)
  IN  IF /\ mode \in DOMAIN Carries
         /\ mode \in Strict => \A f \in Carries[mode] : c[f] # Unset
      THEN [mode |-> mode, carries |-> [f \in Carries[mode] |-> c[f]]]
      ELSE NoCredential

(* With a connection string the endpoint is not looked at. *)
Account(c) ==
  IF c.connection_string # Unset THEN c.connection_string ELSE c.endpoint

CanConnect(c) ==
  /\ CredentialFrom(c) # NoCredential
  /\ Account(c) \notin {Unset, ""} \cup Malformed

Client(c) == [account |-> Account(c), credential |-> CredentialFrom(c)]

----------------------------------------------------------------------------
(* A connection's options: two names of its current database. *)

ConnectionAccepts(key, value) ==
  key \in {"current_catalog", "database"} /\ IsString(value)

ConnectionTakes(options) ==
  \A i \in DOMAIN options : ConnectionAccepts(options[i][1], options[i][2])

(* Both keys set the same: the last option of a list stays. *)
CurrentAfter(database, options) ==
  IF options = <<>> THEN database ELSE Last(options)[2].string

----------------------------------------------------------------------------
(* A statement's options. *)

NewStatementState(n) ==
  [on |-> n, database |-> current[n], container |-> Unset, query |-> Unset,
   dialect |-> "native", output |-> "json", sample_size |-> Unset,
   number_decimal |-> FALSE, decimal_precision |-> 38, decimal_scale |-> 9,
   infer_temporal |-> FALSE, epoch_fields |-> {}, heterogeneous |-> "string",
   pushdown_count |-> TRUE, pushdown_avg |-> FALSE,
   pushdown_sort |-> TRUE, pushdown_multi_sort |-> FALSE]

Toggles == {"infer_temporal", "pushdown_count", "pushdown_avg",
            "pushdown_sort", "pushdown_multi_sort"}

(* Which texts the parsers take.  A decimal is its precision and scale, a  *)
(* list of epoch fields the set of its entries <<name, unit>>.             *)
Legal(key, text) ==
  CASE key \in {"container", "database"} -> TRUE
    [] key = "dialect" -> text \in {"native", "datafusion"}
    [] key = "output" -> text \in {"json", "variant", "struct"}
    [] key = "number_inference" -> text \in {"float64", "decimal"}
    [] key = "decimal" -> text[1] \in 1 .. 38 /\ text[2] \in 0 .. text[1]
    [] key \in Toggles -> text \in {"on", "true", "off", "false"}
    [] key = "epoch_fields" -> \A e \in text : e[2] \in {"s", "ms"}
    [] key = "heterogeneous" -> text \in {"string"} \cup (IF HasVariant THEN {"variant"} ELSE {})
    [] OTHER -> FALSE

StatementAccepts(key, value) ==
  IF key = "sample_size" THEN IsInt(value)
                         ELSE IsString(value) /\ Legal(key, value.string)

IsOn(text) == text \in {"on", "true"}

(* The arms of set_option, each with the field or fields it writes.        *)
StatementWith(st, key, value) ==
  CASE key = "dialect" -> [st EXCEPT !.dialect = value.string]
    [] key = "output" -> [st EXCEPT !.output = value.string]
    [] key = "container" -> [st EXCEPT !.container = value.string]
    [] key = "database" -> [st EXCEPT !.database = value.string]
    [] key = "sample_size" -> [st EXCEPT !.sample_size = value.int]
    [] key = "number_inference" -> [st EXCEPT !.number_decimal = (value.string = "decimal")]
    [] key = "decimal" -> [st EXCEPT !.decimal_precision = value.string[1],
                                     !.decimal_scale = value.string[2]]
    [] key = "infer_temporal" -> [st EXCEPT !.infer_temporal = IsOn(value.string)]
    [] key = "epoch_fields" -> [st EXCEPT !.epoch_fields = value.string]
    [] key = "heterogeneous" -> [st EXCEPT !.heterogeneous = value.string]
    [] key = "pushdown_count" -> [st EXCEPT !.pushdown_count = IsOn(value.string)]
    [] key = "pushdown_avg" -> [st EXCEPT !.pushdown_avg = IsOn(value.string)]
    [] key = "pushdown_sort" -> [st EXCEPT !.pushdown_sort = IsOn(value.string)]
    [] key = "pushdown_multi_sort" -> [st EXCEPT !.pushdown_multi_sort = IsOn(value.string)]

(* What execute makes of the options: inference_options, pushdown_config   *)
(* and the sample, at least one document however small the option.         *)
SampleOfUnclamped(st) == IF st.sample_size = Unset THEN 1000 ELSE st.sample_size

SampleOf(st) ==
  LET n == IF st.sample_size = Unset THEN 1000 ELSE st.sample_size
  IN  IF n < 1 THEN 1 ELSE n

(* How numbers are typed: NumberMode. *)
NumberMode(st) ==
  IF st.number_decimal
  THEN [mode |-> "decimal", precision |-> st.decimal_precision, scale |-> st.decimal_scale]
  ELSE [mode |-> "float64"]

Effective(st) ==
  [dialect |-> st.dialect, output |-> st.output, container |-> st.container,
   database |-> st.database, sample |-> SampleOf(st), number |-> NumberMode(st),
   temporal |-> st.infer_temporal, epoch |-> st.epoch_fields,
   heterogeneous |-> st.heterogeneous,
   count |-> st.pushdown_count, avg |-> st.pushdown_avg,
   sort |-> st.pushdown_sort, multi_sort |-> st.pushdown_multi_sort]

----------------------------------------------------------------------------
(* Calls that take time. *)

(* The database a call works in, the tables it has not asked for yet, the  *)
(* one it is busy with, and the schemas it has in hand.                    *)
Work(step, database, left, table, schemas) ==
  [step |-> step, database |-> database, left |-> left, table |-> table,
   schemas |-> schemas]

NoSchemas == [t \in Containers |-> Unset]

Idle == Work("idle", Unset, {}, Unset, NoSchemas)

IsIdle(x) == job[x] = Idle

(* The connection whose client and cache a call uses. *)
Owner(x) == IF x \in Connections THEN x ELSE stmt[x].on

(* A plausible bug: the cache knows containers by their names alone. *)
KeyOfContainer(database, table) == <<"any", table>>

Key(database, table) == <<database, table>>

(* Where query_documents goes. *)
Target(x, table) == <<client[Owner(x)].account, job[x].database, table>>

----------------------------------------------------------------------------
(* new_database_with_opts makes a database only when it takes every option *)
(* of the list, one after the other.                                       *)
Init ==
  /\ \E options \in OptionLists(DatabaseOptions) :
       /\ DatabaseTakes(options)
       /\ config = ConfigAfter(NoConfig, options)
  /\ born = [n \in Connections |-> Unset]
  /\ client = [n \in Connections |-> Unset]
  /\ current = [n \in Connections |-> Unset]
  /\ cache = [n \in Connections |-> [k \in {} |-> Unset]]
  /\ stmt = [s \in Statements |-> Unset]
  /\ job = [x \in Callers |-> Idle]
  /\ outcome = "ok"

SetDatabaseOption(key, value) ==
  /\ DatabaseAccepts(key, value)
  /\ config' = ConfigWith(config, <<key, value>>)
  /\ outcome' = "ok"
  /\ UNCHANGED <<born, client, current, cache, stmt, job>>

(* A plausible bug: what a connection refuses of the list is passed over.  *)
NewConnectionPartly(n, options) ==
  LET taken == SelectSeq(options, LAMBDA o : ConnectionAccepts(o[1], o[2]))
  IN  /\ client[n] = Unset
      /\ CanConnect(config)
      /\ born' = [born EXCEPT ![n] = config]
      /\ client' = [client EXCEPT ![n] = Client(config)]
      /\ current' = [current EXCEPT ![n] = CurrentAfter(config.database, taken)]
      /\ outcome' = "ok"
      /\ UNCHANGED <<config, cache, stmt, job>>

(* The client first, then the connection with the database it is scoped    *)
(* to, then the options of the list; an error anywhere and there is none.  *)
NewConnection(n, options) ==
  /\ client[n] = Unset
  /\ CanConnect(config)
  /\ ConnectionTakes(options)
  /\ born' = [born EXCEPT ![n] = config]
  /\ client' = [client EXCEPT ![n] = Client(config)]
  /\ current' = [current EXCEPT ![n] = CurrentAfter(config.database, options)]
  /\ outcome' = "ok"
  /\ UNCHANGED <<config, cache, stmt, job>>

NewConnectionFails(n, options) ==
  /\ client[n] = Unset
  /\ ~(CanConnect(config) /\ ConnectionTakes(options))
  /\ outcome' = "error"
  /\ UNCHANGED <<config, born, client, current, cache, stmt, job>>

(* A plausible bug: statements share the connection's current database. *)
SetConnectionOptionShared(n, key, value) ==
  /\ client[n] # Unset /\ IsIdle(n)
  /\ ConnectionAccepts(key, value)
  /\ current' = [current EXCEPT ![n] = value.string]
  /\ stmt' = [s \in Statements |->
               IF stmt[s] = Unset THEN Unset
               ELSE IF stmt[s].on = n THEN [stmt[s] EXCEPT !.database = value.string]
               ELSE stmt[s]]
  /\ outcome' = "ok"
  /\ UNCHANGED <<config, born, client, cache, job>>

SetConnectionOption(n, key, value) ==
  /\ client[n] # Unset /\ IsIdle(n)
  /\ ConnectionAccepts(key, value)
  /\ current' = [current EXCEPT ![n] = CurrentAfter(current[n], << <<key, value>> >>)]
  /\ outcome' = "ok"
  /\ UNCHANGED <<config, born, client, cache, stmt, job>>

NewStatement(n, s) ==
  /\ client[n] # Unset /\ IsIdle(n)
  /\ stmt[s] = Unset
  /\ stmt' = [stmt EXCEPT ![s] = NewStatementState(n)]
  /\ outcome' = "ok"
  /\ UNCHANGED <<config, born, client, current, cache, job>>

(* A plausible bug: an arm of set_option copied from the one above it and  *)
(* left writing that one's field.                                          *)
SetStatementOptionSwap(s, key, value) ==
  /\ stmt[s] # Unset /\ IsIdle(s)
  /\ StatementAccepts(key, value)
  /\ stmt' = [stmt EXCEPT ![s] =
               IF key = "pushdown_multi_sort" THEN [@ EXCEPT !.pushdown_sort = IsOn(value.string)]
                                              ELSE StatementWith(@, key, value)]
  /\ outcome' = "ok"
  /\ UNCHANGED <<config, born, client, current, cache, job>>

SetStatementOption(s, key, value) ==
  /\ stmt[s] # Unset /\ IsIdle(s)
  /\ StatementAccepts(key, value)
  /\ stmt' = [stmt EXCEPT ![s] = StatementWith(stmt[s], key, value)]
  /\ outcome' = "ok"
  /\ UNCHANGED <<config, born, client, current, cache, job>>

SetSqlQuery(s, query) ==
  /\ stmt[s] # Unset /\ IsIdle(s)
  /\ stmt' = [stmt EXCEPT ![s].query = query]
  /\ outcome' = "ok"
  /\ UNCHANGED <<config, born, client, current, cache, job>>

(* An option that is unknown or has no legal value is an error, before     *)
(* anything is written.                                                    *)
RefuseOption ==
  /\ \/ \E o \in DatabaseOptions : ~DatabaseAccepts(o[1], o[2])
     \/ \E n \in Connections, o \in ConnectionOptions :
          client[n] # Unset /\ IsIdle(n) /\ ~ConnectionAccepts(o[1], o[2])
     \/ \E s \in Statements, o \in StatementOptions :
          stmt[s] # Unset /\ IsIdle(s) /\ ~StatementAccepts(o[1], o[2])
  /\ outcome' = "error"
  /\ UNCHANGED <<config, born, client, current, cache, stmt, job>>

----------------------------------------------------------------------------
(* execute and get_table_schema. *)

Starts(x, work) ==
  /\ IsIdle(x)
  /\ job' = [job EXCEPT ![x] = work]
  /\ outcome' = "ok"
  /\ UNCHANGED <<config, born, client, current, cache, stmt>>

Ready(st) ==
  /\ st.query # Unset
  /\ st.database # Unset
  /\ st.dialect = "native" => st.container # Unset

(* A plausible bug: the query is moved out of the statement to be run. *)
ExecuteTakingQuery(s) ==
  /\ stmt[s] # Unset
  /\ IsIdle(s)
  /\ Ready(stmt[s])
  /\ job' = [job EXCEPT ![s] =
               Work("resolving", stmt[s].database, stmt[s].query, Unset, NoSchemas)]
  /\ stmt' = [stmt EXCEPT ![s].query = Unset]
  /\ outcome' = "ok"
  /\ UNCHANGED <<config, born, client, current, cache>>

(* The statement's own copy of the database goes into the catalog that is  *)
(* registered for the query, or into the one request of the native dialect.*)
Execute(s) ==
  /\ stmt[s] # Unset
  /\ Ready(stmt[s])
  /\ Starts(s,
       IF stmt[s].dialect = "native"
       THEN Work("scanning", stmt[s].database, {}, Unset, NoSchemas)
       ELSE Work("resolving", stmt[s].database, stmt[s].query, Unset, NoSchemas))

ExecuteRefused(s) ==
  /\ stmt[s] # Unset /\ IsIdle(s)
  /\ ~Ready(stmt[s])
  /\ outcome' = "error"
  /\ UNCHANGED <<config, born, client, current, cache, stmt, job>>

(* The catalog that is asked for, or else the current database. *)
GetTableSchema(n, catalog, table) ==
  /\ client[n] # Unset
  /\ catalog # Unset \/ current[n] # Unset
  /\ Starts(n, Work("resolving", IF catalog # Unset THEN catalog ELSE current[n],
                    {table}, Unset, NoSchemas))

GetTableSchemaRefused(n) ==
  /\ client[n] # Unset /\ IsIdle(n)
  /\ current[n] = Unset
  /\ outcome' = "error"
  /\ UNCHANGED <<config, born, client, current, cache, stmt, job>>

Ends(x, how) ==
  /\ job' = [job EXCEPT ![x] = Idle]
  /\ outcome' = how

Goes(x, work) ==
  /\ job' = [job EXCEPT ![x] = work]
  /\ outcome' = "ok"

(* DataFusion asks for the tables of a query in any order, each once. *)
Hit(x) ==
  /\ job[x].step = "resolving"
  /\ \E t \in job[x].left :
       LET k == Key(job[x].database, t)
       IN  /\ k \in DOMAIN cache[Owner(x)]
           /\ Goes(x, Work("resolving", job[x].database, job[x].left \ {t}, Unset,
                           [job[x].schemas EXCEPT ![t] = cache[Owner(x)][k]]))
  /\ UNCHANGED <<config, born, client, current, cache, stmt>>

Miss(x) ==
  /\ job[x].step = "resolving"
  /\ \E t \in job[x].left :
       /\ Key(job[x].database, t) \notin DOMAIN cache[Owner(x)]
       /\ Goes(x, Work("sampling", job[x].database, job[x].left \ {t}, t, job[x].schemas))
  /\ UNCHANGED <<config, born, client, current, cache, stmt>>

(* Documents in a sample: METADATA_SAMPLE_SIZE, or what the statement asks. *)
Sample(x) == IF x \in Connections THEN 100 ELSE Effective(stmt[x]).sample

SampleFinds(x) == Target(x, job[x].table) \in NonEmpty /\ Sample(x) > 0

SampleDocs(x) ==
  /\ job[x].step = "sampling"
  /\ SampleFinds(x)
  /\ Goes(x, Work("inserting", job[x].database, job[x].left, job[x].table,
                  [job[x].schemas EXCEPT ![job[x].table] = Target(x, job[x].table)]))
  /\ UNCHANGED <<config, born, client, current, cache, stmt>>

(* An empty container: no such table for a query, no columns for metadata. *)
SampleEmpty(x) ==
  /\ job[x].step = "sampling"
  /\ ~SampleFinds(x)
  /\ Ends(x, IF x \in Connections THEN "ok" ELSE "notfound")
  /\ UNCHANGED <<config, born, client, current, cache, stmt>>

Insert(x) ==
  LET k == Key(job[x].database, job[x].table)
  IN  /\ job[x].step = "inserting"
      /\ cache' = [cache EXCEPT ![Owner(x)] =
                     [j \in DOMAIN @ \cup {k} |->
                        IF j = k THEN job[x].schemas[job[x].table] ELSE @[j]]]
      /\ Goes(x, Work("resolving", job[x].database, job[x].left, Unset, job[x].schemas))
      /\ UNCHANGED <<config, born, client, current, stmt>>

(* All tables are known: the plan scans them, or their schema is returned. *)
Resolved(x) ==
  /\ job[x].step = "resolving"
  /\ job[x].left = {}
  /\ IF x \in Connections THEN Ends(x, "ok")
                           ELSE Goes(x, Work("scanning", job[x].database, {}, Unset, job[x].schemas))
  /\ UNCHANGED <<config, born, client, current, cache, stmt>>

Answered(s) ==
  /\ job[s].step = "scanning"
  /\ Ends(s, "ok")
  /\ UNCHANGED <<config, born, client, current, cache, stmt>>

(* The service, the planner or a decoder reports an error. *)
Fails(x) ==
  /\ job[x].step # "idle"
  /\ Ends(x, "error")
  /\ UNCHANGED <<config, born, client, current, cache, stmt>>

Configure ==
  \/ \E o \in DatabaseOptions : SetDatabaseOption(o[1], o[2])
  \/ \E n \in Connections, l \in OptionLists(ConnectionOptions) :
       NewConnection(n, l) \/ NewConnectionFails(n, l)
  \/ \E n \in Connections, o \in ConnectionOptions : SetConnectionOption(n, o[1], o[2])
  \/ \E n \in Connections, s \in Statements : NewStatement(n, s)
  \/ \E s \in Statements, o \in StatementOptions : SetStatementOption(s, o[1], o[2])
  \/ \E s \in Statements, q \in Queries : SetSqlQuery(s, q)
  \/ RefuseOption

Begin ==
  \/ \E s \in Statements : Execute(s) \/ ExecuteRefused(s)
  \/ \E n \in Connections, c \in Catalogs, t \in Containers : GetTableSchema(n, c, t)
  \/ \E n \in Connections : GetTableSchemaRefused(n)

Continue(x) ==
  Hit(x) \/ Miss(x) \/ SampleDocs(x) \/ SampleEmpty(x) \/ Insert(x)
    \/ Resolved(x) \/ Answered(x) \/ Fails(x)

Next == Configure \/ Begin \/ \E x \in Callers : Continue(x)

Spec == Init /\ [][Next]_vars
----------------------------------------------------------------------------
(* Properties. *)

TypeOK ==
  /\ DOMAIN config = ConfigFields
  /\ \A n \in Connections :
       /\ client[n] # Unset <=> born[n] # Unset
       /\ client[n] = Unset => current[n] = Unset /\ DOMAIN cache[n] = {}
       /\ ~IsIdle(n) => client[n] # Unset /\ job[n].step # "scanning"
  /\ \A s \in Statements :
       /\ stmt[s] # Unset => /\ stmt[s].on \in Connections
                            /\ client[stmt[s].on] # Unset
                            /\ \A key \in Toggles : stmt[s][key] \in BOOLEAN
                            /\ stmt[s].decimal_scale \in 0 .. stmt[s].decimal_precision
       /\ ~IsIdle(s) => stmt[s] # Unset /\ Ready(stmt[s])
  /\ outcome \in {"ok", "error", "notfound"}

(* A schema a query is planned with, or a metadata call returns, was       *)
(* sampled in the account, database and container that are asked for,      *)
(* whoever put it into the cache: other statements of the connection with  *)
(* another database, the connection's metadata calls before and after its  *)
(* database changed (lib.rs:29-32, connection.rs:29-31, :57-61).           *)
SchemasMatchTargets ==
  \A x \in Callers, t \in Containers :
    LET database == IF x \in Statements /\ ~IsIdle(x) THEN stmt[x].database
                                                     ELSE job[x].database
    IN  job[x].schemas[t] # Unset =>
          job[x].schemas[t] = <<client[Owner(x)].account, database, t>>

(* A connection authenticates as client.rs:24-27 says, from the options    *)
(* its database had when the connection was made and no later ones: a      *)
(* connection string always wins; else the auth that was chosen and no     *)
(* other, complete; else an account key; else the developer sign-in.       *)
ConnectsAsConfigured ==
  \A n \in Connections : client[n] # Unset =>
    LET f == born[n]
        c == client[n].credential
    IN  /\ IF f.connection_string # Unset
           THEN /\ c.mode = "connection_string"
                /\ client[n].account = f.connection_string
           ELSE /\ client[n].account = f.endpoint
                /\ f.auth # Unset => c.mode = f.auth
                /\ f.auth = Unset => c.mode \in {"key", "entra"}
                /\ c.mode = "entra" => f.auth = "entra" \/ f.account_key = Unset
        /\ \A o \in DOMAIN c.carries : c.carries[o] = f[o]
        /\ c.mode \in Strict => \A o \in DOMAIN c.carries : f[o] # Unset

(* A query reports a missing table only if the container of that name in   *)
(* its own database has no documents, whatever sample_size was accepted    *)
(* (statement.rs:303) and whatever else the connection has resolved.       *)
OnlyEmptyIsNotFound ==
  [][\A s \in Statements :
       ~IsIdle(s) /\ outcome' = "notfound" /\ IsIdle(s)' =>
         <<client[stmt[s].on].account, stmt[s].database, job[s].table>> \notin NonEmpty]_vars

(* Where a statement's requests go is settled when the statement is made   *)
(* and moves by its own database option only: not by what happens to the   *)
(* connection, the database object or other statements (connection.rs:57). *)
Where(s) == <<client[stmt[s].on].account, stmt[s].database>>

TargetsMoveByOwnCalls ==
  [][\A s \in Statements : stmt[s] # Unset =>
       \/ Where(s)' = Where(s)
       \/ \E o \in StatementOptions :
            o[1] = "database" /\ SetStatementOption(s, o[1], o[2])]_vars

(* A statement that can be executed can be executed again, whatever call   *)
(* on it failed or succeeded since; the one way back is to ask for the     *)
(* native dialect without a container (statement.rs:261-281).              *)
ReadyStaysReady ==
  [][\A s \in Statements : stmt[s] # Unset /\ Ready(stmt[s]) =>
         \/ Ready(stmt'[s])
         \/ stmt'[s].dialect = "native" /\ stmt[s].dialect # "native"]_vars
=============================================================================
