--------------------------- MODULE SessionProofs ---------------------------
(***************************************************************************)
(* Proofs about Session, for any number of connections, statements,        *)
(* containers, options and option values: what schemas and targets a       *)
(* connection and its statements have, and, in the second part, what the   *)
(* options keep and what setting one changes.                              *)
(***************************************************************************)
EXTENDS SessionHistory, Numbers
LOCAL INSTANCE SequencesExt
LOCAL INSTANCE FiniteSetsExt

(* The statements: made from a connection that exists; with the fields     *)
(* that a call reads.                                                      *)
StatementOK(w) ==
  /\ {"on", "database", "query"} \subseteq DOMAIN w
  /\ w.on \in Connections
  /\ client[w.on] # Unset
  /\ w.query = Unset \/ w.query \in Queries

StatementsOK ==
  /\ stmt = [s \in Statements |-> stmt[s]]
  /\ \A s \in Statements : stmt[s] # Unset => StatementOK(stmt[s])

(* The calls: an object that is busy exists, a busy statement keeps the    *)
(* database its query was given, and the schemas in hand are of the        *)
(* account of the call's connection and of that database.                  *)
WorkOK(x, w) ==
  /\ w = [step |-> w.step, database |-> w.database, left |-> w.left,
          table |-> w.table, schemas |-> w.schemas]
  /\ w.schemas = [t \in Containers |-> w.schemas[t]]
  /\ w.left \subseteq Containers
  /\ w.step \in {"sampling", "inserting"} => w.table \in Containers
  /\ w.step = "inserting" =>
       w.schemas[w.table] = <<client[Owner(x)].account, w.database, w.table>>
  /\ w # Idle /\ x \in Connections => client[x] # Unset
  /\ w # Idle /\ x \in Statements => stmt[x] # Unset /\ w.database = stmt[x].database
  /\ \A t \in Containers : w.schemas[t] # Unset =>
       w.schemas[t] = <<client[Owner(x)].account, w.database, t>>

JobsOK ==
  /\ job = [x \in Callers |-> job[x]]
  /\ \A x \in Callers : WorkOK(x, job[x])

(* The caches: what a connection knows of a container was sampled in the   *)
(* connection's own account, in the database and container of the key.     *)
CachesOK ==
  /\ cache = [n \in Connections |-> cache[n]]
  /\ client = [n \in Connections |-> client[n]]
  /\ \A n \in Connections :
       /\ client[n] = Unset => DOMAIN cache[n] = {}
       /\ \A k \in DOMAIN cache[n] :
            /\ k = <<k[1], k[2]>>
            /\ cache[n][k] = <<client[n].account, k[1], k[2]>>

IInv == StatementsOK /\ JobsOK /\ CachesOK
----------------------------------------------------------------------------
LEMMA IdleIsOK ==
  ASSUME NEW x
  PROVE  WorkOK(x, Idle)
<1>1. /\ Idle.step = "idle" /\ Idle.left = {}
      /\ Idle.schemas = [t \in Containers |-> Unset]
  BY DEF Idle, Work, NoSchemas
<1>2. \A t \in Containers : Idle.schemas[t] = Unset
  BY <1>1
<1>3. Idle = [step |-> Idle.step, database |-> Idle.database, left |-> Idle.left,
              table |-> Idle.table, schemas |-> Idle.schemas]
  BY DEF Idle, Work
<1>4. Idle.schemas = [t \in Containers |-> Idle.schemas[t]]
  BY <1>1, <1>2
<1> QED
  BY <1>1, <1>2, <1>3, <1>4 DEF WorkOK

LEMMA InitInv == Init => IInv
<1> SUFFICES ASSUME Init PROVE IInv
  OBVIOUS
<1>1. /\ client = [n \in Connections |-> Unset]
      /\ cache = [n \in Connections |-> [k \in {} |-> Unset]]
      /\ stmt = [s \in Statements |-> Unset]
      /\ job = [x \in Callers |-> Idle]
  BY DEF Init
<1>2. StatementsOK
  BY <1>1 DEF StatementsOK
<1>3. JobsOK
  BY <1>1, IdleIsOK DEF JobsOK
<1>4. CachesOK
  BY <1>1 DEF CachesOK
<1> QED
  BY <1>2, <1>3, <1>4 DEF IInv

(* Calls that touch nothing the invariant is about: options of the         *)
(* database and of connections, and everything that is refused.            *)
LEMMA QuietStep ==
  ASSUME IInv, UNCHANGED <<client, cache, stmt, job>>
  PROVE  IInv'
<1>1. StatementsOK'
  BY DEF IInv, StatementsOK, StatementOK
<1>2. JobsOK'
  BY DEF IInv, JobsOK, WorkOK, Owner
<1>3. CachesOK'
  BY DEF IInv, CachesOK
<1> QED
  BY <1>1, <1>2, <1>3 DEF IInv

(* A new connection: nothing is on it yet. *)
LEMMA NewConnectionStep ==
  ASSUME IInv, NEW n \in Connections, NEW l, NewConnection(n, l)
  PROVE  IInv'
<1>1. /\ client[n] = Unset
      /\ client' = [client EXCEPT ![n] = Client(config)]
      /\ UNCHANGED <<cache, stmt, job>>
  BY DEF NewConnection
<1>2. \A m \in Connections : client[m] # Unset => client'[m] = client[m]
  BY <1>1 DEF IInv, CachesOK
<1>3. StatementsOK'
  BY <1>1, <1>2 DEF IInv, StatementsOK, StatementOK
<1>4. JobsOK'
  <2> SUFFICES ASSUME NEW x \in Callers PROVE WorkOK(x, job[x])'
    BY <1>1 DEF JobsOK, IInv
  <2>1. CASE job[x] = Idle
    <3>1. WorkOK(x, Idle)'
      BY IdleIsOK DEF WorkOK, Owner, Idle, Work, NoSchemas
    <3> QED
      BY <2>1, <3>1, <1>1 DEF Idle, Work, NoSchemas
  <2>2. CASE job[x] # Idle
    <3>1. WorkOK(x, job[x])
      BY DEF IInv, JobsOK
    <3>2. Owner(x)' = Owner(x) /\ client[Owner(x)] # Unset /\ Owner(x) \in Connections
      BY <1>1, <2>2, <3>1 DEF Owner, WorkOK, IInv, StatementsOK, StatementOK, Callers
    <3>3. client'[Owner(x)] = client[Owner(x)]
      BY <1>2, <3>2
    <3>4. x \in Connections => client'[x] = client[x]
      BY <1>2, <2>2, <3>1 DEF WorkOK
    <3> QED
      BY <1>1, <2>2, <3>1, <3>2, <3>3, <3>4 DEF WorkOK
  <2> QED
    BY <2>1, <2>2
<1>5. CachesOK'
  BY <1>1 DEF IInv, CachesOK
<1> QED
  BY <1>3, <1>4, <1>5 DEF IInv

(* A statement that is made or changed while it runs nothing. *)
LEMMA StatementStep ==
  ASSUME IInv, NEW s \in Statements, IsIdle(s), NEW w, StatementOK(w),
         stmt' = [stmt EXCEPT ![s] = w], UNCHANGED <<client, cache, job>>
  PROVE  IInv'
<1>1. StatementsOK'
  BY DEF IInv, StatementsOK, StatementOK
<1>2. JobsOK'
  <2> SUFFICES ASSUME NEW x \in Callers PROVE WorkOK(x, job[x])'
    BY DEF JobsOK, IInv
  <2>1. CASE x = s
    <3>1. WorkOK(x, Idle)'
      BY IdleIsOK DEF WorkOK, Owner, Idle, Work, NoSchemas
    <3> QED
      BY <2>1, <3>1 DEF Idle, IsIdle, Work, NoSchemas
  <2>2. CASE x # s
    <3>1. WorkOK(x, job[x])
      BY DEF IInv, JobsOK
    <3>2. x \in Statements => stmt'[x] = stmt[x]
      BY <2>2 DEF IInv, StatementsOK
    <3>3. Owner(x)' = Owner(x)
      BY <3>2 DEF Owner, Callers
    <3> QED
      BY <3>1, <3>2, <3>3 DEF WorkOK
  <2> QED
    BY <2>1, <2>2
<1>3. CachesOK'
  BY DEF IInv, CachesOK
<1> QED
  BY <1>1, <1>2, <1>3 DEF IInv

(* The options of a statement, and the fields that their arms write.       *)
Keys == {"container", "database", "dialect", "output", "number_inference", "decimal",
         "epoch_fields", "heterogeneous", "sample_size"} \cup Toggles

FieldOf(key) == IF key = "number_inference" THEN "number_decimal" ELSE key

Meaning(key, value) ==
  IF key = "sample_size" THEN value.int
  ELSE IF key = "number_inference" THEN value.string = "decimal"
  ELSE IF key \in Toggles THEN IsOn(value.string)
  ELSE value.string

LEMMA AcceptedKeys ==
  ASSUME NEW key, NEW value, StatementAccepts(key, value)
  PROVE  key \in Keys
<1>1. CASE key = "sample_size"
  BY <1>1 DEF Keys
<1>2. CASE key # "sample_size"
  <2>1. Legal(key, value.string)
    BY <1>2 DEF StatementAccepts
  <2> QED
    BY <2>1 DEF Legal, Keys
<1> QED
  BY <1>1, <1>2

Wrote(w, f, v) == [w EXCEPT ![f] = v]

WroteDecimal(w, p, q) == [w EXCEPT !.decimal_precision = p, !.decimal_scale = q]

(* Every arm writes the field of its key and no other; that of decimal     *)
(* writes two.                                                             *)
LEMMA Arms ==
  ASSUME NEW w, NEW key \in Keys, NEW value
  PROVE  /\ key # "decimal" =>
              StatementWith(w, key, value) = Wrote(w, FieldOf(key), Meaning(key, value))
         /\ key = "decimal" =>
              StatementWith(w, key, value) =
                WroteDecimal(w, value.string[1], value.string[2])
<1>1. CASE key = "dialect"
  BY <1>1 DEF StatementWith, FieldOf, Meaning, Toggles, Wrote
<1>2. CASE key = "output"
  BY <1>2 DEF StatementWith, FieldOf, Meaning, Toggles, Wrote
<1>3. CASE key = "container"
  BY <1>3 DEF StatementWith, FieldOf, Meaning, Toggles, Wrote
<1>4. CASE key = "database"
  BY <1>4 DEF StatementWith, FieldOf, Meaning, Toggles, Wrote
<1>5. CASE key = "sample_size"
  BY <1>5 DEF StatementWith, FieldOf, Meaning, Toggles, Wrote
<1>6. CASE key = "number_inference"
  BY <1>6 DEF StatementWith, FieldOf, Meaning, Toggles, Wrote
<1>7. CASE key = "decimal"
  BY <1>7 DEF StatementWith, WroteDecimal
<1>8. CASE key = "infer_temporal"
  BY <1>8 DEF StatementWith, FieldOf, Meaning, Toggles, Wrote
<1>9. CASE key = "epoch_fields"
  BY <1>9 DEF StatementWith, FieldOf, Meaning, Toggles, Wrote
<1>10. CASE key = "heterogeneous"
  BY <1>10 DEF StatementWith, FieldOf, Meaning, Toggles, Wrote
<1>11. CASE key = "pushdown_count"
  BY <1>11 DEF StatementWith, FieldOf, Meaning, Toggles, Wrote
<1>12. CASE key = "pushdown_avg"
  BY <1>12 DEF StatementWith, FieldOf, Meaning, Toggles, Wrote
<1>13. CASE key = "pushdown_sort"
  BY <1>13 DEF StatementWith, FieldOf, Meaning, Toggles, Wrote
<1>14. CASE key = "pushdown_multi_sort"
  BY <1>14 DEF StatementWith, FieldOf, Meaning, Toggles, Wrote
<1> QED
  BY <1>1, <1>2, <1>3, <1>4, <1>5, <1>6, <1>7, <1>8, <1>9, <1>10, <1>11, <1>12, <1>13, <1>14
     DEF Keys, Toggles

(* No option sets the connection or the query, and only its own option the *)
(* database.                                                               *)
LEMMA Untouched ==
  ASSUME NEW w, NEW key \in Keys, NEW value
  PROVE  LET u == StatementWith(w, key, value)
         IN  /\ DOMAIN u = DOMAIN w
             /\ "on" \in DOMAIN w => u.on = w.on
             /\ "query" \in DOMAIN w => u.query = w.query
             /\ "database" \in DOMAIN w /\ key # "database" => u.database = w.database
<1>1. CASE key = "decimal"
  <2>1. StatementWith(w, key, value) = WroteDecimal(w, value.string[1], value.string[2])
    BY <1>1, Arms
  <2> QED
    BY <1>1, <2>1 DEF WroteDecimal
<1>2. CASE key # "decimal"
  <2>1. FieldOf(key) \notin {"on", "query"} /\ (key # "database" => FieldOf(key) # "database")
    BY DEF FieldOf, Keys, Toggles
  <2>2. StatementWith(w, key, value) = Wrote(w, FieldOf(key), Meaning(key, value))
    BY <1>2, Arms
  <2> QED
    BY <2>1, <2>2 DEF Wrote
<1> QED
  BY <1>1, <1>2

LEMMA StatementCalls ==
  ASSUME IInv, NEW s \in Statements,
         \/ \E n \in Connections : NewStatement(n, s)
         \/ \E key, value : SetStatementOption(s, key, value)
         \/ \E query \in Queries : SetSqlQuery(s, query)
  PROVE  IInv'
<1>1. ASSUME NEW n \in Connections, NewStatement(n, s)
      PROVE  IInv'
  <2>1. StatementOK(NewStatementState(n))
    BY <1>1 DEF NewStatement, StatementOK, NewStatementState
  <2>2. job[s] = Idle
    BY <1>1 DEF NewStatement, IInv, JobsOK, WorkOK, Callers
  <2> QED
    BY <1>1, <2>1, <2>2, StatementStep DEF NewStatement, IsIdle
<1>2. ASSUME NEW key, NEW value, SetStatementOption(s, key, value)
      PROVE  IInv'
  <2>1. key \in Keys
    BY <1>2, AcceptedKeys DEF SetStatementOption
  <2>2. StatementOK(stmt[s])
    BY <1>2 DEF SetStatementOption, IInv, StatementsOK
  <2>3. StatementOK(StatementWith(stmt[s], key, value))
    BY <2>1, <2>2, Untouched DEF StatementOK
  <2> QED
    BY <1>2, <2>3, StatementStep DEF SetStatementOption
<1>3. ASSUME NEW query \in Queries, SetSqlQuery(s, query)
      PROVE  IInv'
  <2> DEFINE w == [stmt[s] EXCEPT !.query = query]
  <2>1. StatementOK(stmt[s])
    BY <1>3 DEF SetSqlQuery, IInv, StatementsOK
  <2>2. StatementOK(w)
    BY <2>1 DEF StatementOK
  <2>3. stmt' = [stmt EXCEPT ![s] = w]
    BY <1>3 DEF SetSqlQuery
  <2> QED
    BY <1>3, <2>2, <2>3, StatementStep DEF SetSqlQuery
<1> QED
  BY <1>1, <1>2, <1>3

(* A call's record is in order when its parts are. *)
LEMMA WorkParts ==
  ASSUME NEW x \in Callers, NEW a, NEW d, NEW l \in SUBSET Containers, NEW u, NEW f,
         f = [t \in Containers |-> f[t]],
         a \in {"sampling", "inserting"} => u \in Containers,
         a = "inserting" => f[u] = <<client[Owner(x)].account, d, u>>,
         x \in Connections => client[x] # Unset,
         x \in Statements => stmt[x] # Unset /\ d = stmt[x].database,
         \A t \in Containers : f[t] # Unset =>
           f[t] = <<client[Owner(x)].account, d, t>>
  PROVE  WorkOK(x, Work(a, d, l, u, f))
<1> DEFINE w == Work(a, d, l, u, f)
<1>1. /\ w.step = a /\ w.database = d /\ w.left = l /\ w.table = u /\ w.schemas = f
      /\ w = [step |-> w.step, database |-> w.database, left |-> w.left,
              table |-> w.table, schemas |-> w.schemas]
  BY DEF Work
<1> HIDE DEF w
<1>2. WorkOK(x, w)
  BY <1>1 DEF WorkOK
<1> QED
  BY <1>2 DEF w

(* Nothing is in hand when a call starts. *)
LEMMA FirstWork ==
  ASSUME NEW x \in Callers, NEW a \in {"resolving", "scanning"}, NEW d,
         NEW l \in SUBSET Containers,
         x \in Connections => client[x] # Unset,
         x \in Statements => stmt[x] # Unset /\ d = stmt[x].database
  PROVE  WorkOK(x, Work(a, d, l, Unset, NoSchemas))
<1>1. NoSchemas = [t \in Containers |-> NoSchemas[t]]
  BY DEF NoSchemas
<1>2. \A t \in Containers : NoSchemas[t] = Unset
  BY DEF NoSchemas
<1> QED
  BY <1>1, <1>2, WorkParts

(* One call that starts, goes on or ends. *)
LEMMA JobStep ==
  ASSUME IInv, NEW x \in Callers, NEW w, WorkOK(x, w),
         job' = [job EXCEPT ![x] = w], UNCHANGED <<client, stmt>>
  PROVE  StatementsOK' /\ JobsOK'
<1>1. StatementsOK'
  BY DEF IInv, StatementsOK, StatementOK
<1>2. ASSUME NEW y \in Callers PROVE WorkOK(y, job[y])'
  <2>1. WorkOK(y, job'[y])
    BY DEF IInv, JobsOK
  <2>2. Owner(y)' = Owner(y)
    BY DEF Owner
  <2> QED
    BY <2>1, <2>2 DEF WorkOK
<1>3. job' = [y \in Callers |-> job'[y]]
  BY DEF IInv, JobsOK
<1>4. JobsOK'
  BY <1>2, <1>3 DEF JobsOK
<1> QED
  BY <1>1, <1>4

LEMMA CachesStay ==
  ASSUME IInv, UNCHANGED <<client, cache>>
  PROVE  CachesOK'
BY DEF IInv, CachesOK

LEMMA OwnerExists ==
  ASSUME IInv, NEW x \in Callers, job[x] # Idle
  PROVE  Owner(x) \in Connections /\ client[Owner(x)] # Unset
BY DEF IInv, JobsOK, WorkOK, StatementsOK, StatementOK, Owner, Callers

LEMMA StartStep ==
  ASSUME IInv,
         \/ \E s \in Statements : Execute(s)
         \/ \E n \in Connections, c \in Catalogs, t \in Containers : GetTableSchema(n, c, t)
  PROVE  IInv'
<1>1. ASSUME NEW s \in Statements, Execute(s)
      PROVE  IInv'
  <2> DEFINE plain == Work("scanning", stmt[s].database, {}, Unset, NoSchemas)
             planned == Work("resolving", stmt[s].database, stmt[s].query, Unset, NoSchemas)
             w == IF stmt[s].dialect = "native" THEN plain ELSE planned
  <2>1. stmt[s] # Unset /\ stmt[s].query \subseteq Containers /\ StatementOK(stmt[s])
    BY <1>1, QueriesAssumption DEF Execute, Ready, IInv, StatementsOK, StatementOK
  <2>2. s \in Connections => client[s] # Unset
    BY DisjointAssumption
  <2>3. WorkOK(s, plain)
    BY <2>1, <2>2, FirstWork DEF Callers
  <2>4. WorkOK(s, planned)
    BY <2>1, <2>2, FirstWork DEF Callers
  <2>5. WorkOK(s, w)
    BY <2>3, <2>4
  <2>6. job' = [job EXCEPT ![s] = w] /\ UNCHANGED <<client, cache, stmt>> /\ s \in Callers
    BY <1>1 DEF Execute, Starts, Callers
  <2> HIDE DEF w
  <2> QED
    BY <2>5, <2>6, JobStep, CachesStay DEF IInv
<1>2. ASSUME NEW n \in Connections, NEW c \in Catalogs, NEW t \in Containers,
             GetTableSchema(n, c, t)
      PROVE  IInv'
  <2> DEFINE w == Work("resolving", IF c # Unset THEN c ELSE current[n], {t}, Unset, NoSchemas)
  <2>1. client[n] # Unset /\ n \notin Statements
    BY <1>2, DisjointAssumption DEF GetTableSchema
  <2>2. WorkOK(n, w)
    BY <2>1, FirstWork DEF Callers
  <2>3. job' = [job EXCEPT ![n] = w] /\ UNCHANGED <<client, cache, stmt>> /\ n \in Callers
    BY <1>2 DEF GetTableSchema, Starts, Callers
  <2> HIDE DEF w
  <2> QED
    BY <2>2, <2>3, JobStep, CachesStay DEF IInv
<1> QED
  BY <1>1, <1>2

(* A call that goes on with the schemas it has. *)
LEMMA SameSchemas ==
  ASSUME IInv, NEW x \in Callers, job[x] # Idle, NEW a, NEW l \in SUBSET Containers, NEW u,
         a \in {"sampling", "inserting"} => u \in Containers,
         a # "inserting"
  PROVE  WorkOK(x, Work(a, job[x].database, l, u, job[x].schemas))
<1>1. WorkOK(x, job[x])
  BY DEF IInv, JobsOK
<1> DEFINE f == job[x].schemas
<1>2. /\ f = [t \in Containers |-> f[t]]
      /\ \A t \in Containers : f[t] # Unset =>
           f[t] = <<client[Owner(x)].account, job[x].database, t>>
      /\ x \in Connections => client[x] # Unset
      /\ x \in Statements => stmt[x] # Unset /\ job[x].database = stmt[x].database
  BY <1>1 DEF WorkOK
<1> HIDE DEF f
<1>3. WorkOK(x, Work(a, job[x].database, l, u, f))
  BY <1>2, WorkParts
<1> QED
  BY <1>3 DEF f

(* A call that goes on with one schema more, of the right place. *)
LEMMA OneMoreSchema ==
  ASSUME IInv, NEW x \in Callers, job[x] # Idle, NEW a, NEW l \in SUBSET Containers, NEW u,
         NEW t \in Containers, NEW schema,
         schema = <<client[Owner(x)].account, job[x].database, t>>,
         a \in {"sampling", "inserting"} => u = t
  PROVE  WorkOK(x, Work(a, job[x].database, l, u, [job[x].schemas EXCEPT ![t] = schema]))
<1>1. WorkOK(x, job[x])
  BY DEF IInv, JobsOK
<1> DEFINE f == [job[x].schemas EXCEPT ![t] = schema]
<1>2. f = [v \in Containers |-> f[v]] /\ f[t] = schema
  BY <1>1 DEF WorkOK
<1>3. \A v \in Containers : f[v] # Unset =>
        f[v] = <<client[Owner(x)].account, job[x].database, v>>
  BY <1>1 DEF WorkOK
<1>4. /\ x \in Connections => client[x] # Unset
      /\ x \in Statements => stmt[x] # Unset /\ job[x].database = stmt[x].database
  BY <1>1 DEF WorkOK
<1> HIDE DEF f
<1>5. WorkOK(x, Work(a, job[x].database, l, u, f))
  BY <1>2, <1>3, <1>4, WorkParts
<1> QED
  BY <1>5 DEF f

(* A schema from the cache is of the right place, because its key is. *)
LEMMA HitStep ==
  ASSUME IInv, NEW x \in Callers, Hit(x)
  PROVE  IInv'
<1> PICK t \in job[x].left :
      /\ Key(job[x].database, t) \in DOMAIN cache[Owner(x)]
      /\ Goes(x, Work("resolving", job[x].database, job[x].left \ {t}, Unset,
                      [job[x].schemas EXCEPT ![t] = cache[Owner(x)][Key(job[x].database, t)]]))
  BY DEF Hit
<1> DEFINE schema == cache[Owner(x)][Key(job[x].database, t)]
           w == Work("resolving", job[x].database, job[x].left \ {t}, Unset,
                     [job[x].schemas EXCEPT ![t] = schema])
<1>1. job[x] # Idle /\ job[x].left \subseteq Containers
  <2>1. WorkOK(x, job[x])
    BY DEF IInv, JobsOK
  <2> QED
    BY <2>1 DEF WorkOK, Hit, Idle, Work
<1>2. schema = <<client[Owner(x)].account, job[x].database, t>>
  BY <1>1, OwnerExists DEF IInv, CachesOK, Key
<1>3. WorkOK(x, w)
  <2>1. job[x].left \ {t} \in SUBSET Containers /\ t \in Containers
    BY <1>1
  <2> HIDE DEF schema
  <2> QED
    BY <1>1, <1>2, <2>1, OneMoreSchema
<1>4. job' = [job EXCEPT ![x] = w] /\ UNCHANGED <<client, cache, stmt>>
  BY DEF Goes, Hit
<1> HIDE DEF w
<1> QED
  BY <1>3, <1>4, JobStep, CachesStay DEF IInv

LEMMA MissStep ==
  ASSUME IInv, NEW x \in Callers, Miss(x)
  PROVE  IInv'
<1> PICK t \in job[x].left :
      Goes(x, Work("sampling", job[x].database, job[x].left \ {t}, t, job[x].schemas))
  BY DEF Miss
<1> DEFINE w == Work("sampling", job[x].database, job[x].left \ {t}, t, job[x].schemas)
<1>1. job[x] # Idle /\ t \in Containers /\ job[x].left \ {t} \in SUBSET Containers
  <2>1. WorkOK(x, job[x])
    BY DEF IInv, JobsOK
  <2> QED
    BY <2>1 DEF WorkOK, Miss, Idle, Work
<1>2. WorkOK(x, w)
  BY <1>1, SameSchemas
<1>3. job' = [job EXCEPT ![x] = w] /\ UNCHANGED <<client, cache, stmt>>
  BY DEF Goes, Miss
<1> HIDE DEF w
<1> QED
  BY <1>2, <1>3, JobStep, CachesStay DEF IInv

LEMMA SampleDocsStep ==
  ASSUME IInv, NEW x \in Callers, SampleDocs(x)
  PROVE  IInv'
<1> DEFINE t == job[x].table
           schema == Target(x, t)
           w == Work("inserting", job[x].database, job[x].left, t,
                     [job[x].schemas EXCEPT ![t] = schema])
<1>1. job[x] # Idle /\ t \in Containers /\ job[x].left \in SUBSET Containers
  <2>1. WorkOK(x, job[x])
    BY DEF IInv, JobsOK
  <2> QED
    BY <2>1 DEF WorkOK, SampleDocs, Idle, Work
<1>2. schema = <<client[Owner(x)].account, job[x].database, t>>
  BY DEF Target
<1>3. WorkOK(x, w)
  <2> HIDE DEF schema, t
  <2> QED
    BY <1>1, <1>2, OneMoreSchema
<1>4. job' = [job EXCEPT ![x] = w] /\ UNCHANGED <<client, cache, stmt>>
  BY DEF Goes, SampleDocs
<1> HIDE DEF w
<1> QED
  BY <1>3, <1>4, JobStep, CachesStay DEF IInv

(* Only what was sampled for a key is inserted under it. *)
LEMMA InsertStep ==
  ASSUME IInv, NEW x \in Callers, Insert(x)
  PROVE  IInv'
<1> DEFINE t == job[x].table
           n == Owner(x)
           k == Key(job[x].database, t)
           w == Work("resolving", job[x].database, job[x].left, Unset, job[x].schemas)
<1>1. /\ job[x] # Idle /\ t \in Containers /\ job[x].left \in SUBSET Containers
      /\ job[x].schemas[t] = <<client[n].account, job[x].database, t>>
  <2>1. WorkOK(x, job[x])
    BY DEF IInv, JobsOK
  <2> QED
    BY <2>1 DEF WorkOK, Insert, Idle, Work
<1>2. n \in Connections /\ client[n] # Unset
  BY <1>1, OwnerExists
<1>3. WorkOK(x, w)
  BY <1>1, SameSchemas
<1>4. job' = [job EXCEPT ![x] = w] /\ UNCHANGED <<client, stmt>>
  BY DEF Goes, Insert
<1>5. StatementsOK' /\ JobsOK'
  <2> HIDE DEF w
  <2> QED
    BY <1>3, <1>4, JobStep
<1>6. cache' = [cache EXCEPT ![n] = [j \in DOMAIN cache[n] \cup {k} |->
                  IF j = k THEN job[x].schemas[t] ELSE cache[n][j]]]
  BY DEF Insert
<1>7. CachesOK'
  <2>1. k = <<job[x].database, t>>
    BY DEF Key
  <2>2. CachesOK
    BY DEF IInv
  <2> DEFINE c == [j \in DOMAIN cache[n] \cup {k} |->
                     IF j = k THEN job[x].schemas[t] ELSE cache[n][j]]
             schema == job[x].schemas[t]
  <2> HIDE DEF n, k, t, schema
  <2>3. \A j \in DOMAIN c : j = <<j[1], j[2]>> /\ c[j] = <<client[n].account, j[1], j[2]>>
    <3>1. k[1] = job[x].database /\ k[2] = t
      BY <2>1
    <3>2. schema = <<client[n].account, k[1], k[2]>> /\ k = <<k[1], k[2]>>
      BY <1>1, <2>1, <3>1 DEF schema
    <3>3. \A j \in DOMAIN cache[n] :
            j = <<j[1], j[2]>> /\ cache[n][j] = <<client[n].account, j[1], j[2]>>
      BY <1>2, <2>2 DEF CachesOK
    <3> QED
      BY <3>2, <3>3 DEF schema
  <2>4. cache' = [cache EXCEPT ![n] = c] /\ client' = client
    BY <1>4, <1>6
  <2> HIDE DEF c
  <2> QED
    BY <1>2, <2>2, <2>3, <2>4 DEF CachesOK
<1> QED
  BY <1>5, <1>7 DEF IInv

LEMMA ResolvedStep ==
  ASSUME IInv, NEW x \in Callers, Resolved(x), x \notin Connections
  PROVE  IInv'
<1> DEFINE w == Work("scanning", job[x].database, {}, Unset, job[x].schemas)
<1>1. job[x] # Idle /\ {} \in SUBSET Containers
  BY DEF Resolved, Idle, Work
<1>2. WorkOK(x, w)
  BY <1>1, SameSchemas
<1>3. job' = [job EXCEPT ![x] = w] /\ UNCHANGED <<client, cache, stmt>>
  BY DEF Goes, Resolved
<1> HIDE DEF w
<1> QED
  BY <1>2, <1>3, JobStep, CachesStay DEF IInv

LEMMA EndStep ==
  ASSUME IInv, NEW x \in Callers, NEW how, Ends(x, how), UNCHANGED <<client, cache, stmt>>
  PROVE  IInv'
BY IdleIsOK, JobStep, CachesStay DEF IInv, Ends

LEMMA ContinueStep ==
  ASSUME IInv, NEW x \in Callers, Continue(x)
  PROVE  IInv'
<1>1. CASE Hit(x)
  BY <1>1, HitStep
<1>2. CASE Miss(x)
  BY <1>2, MissStep
<1>3. CASE SampleDocs(x)
  BY <1>3, SampleDocsStep
<1>4. CASE SampleEmpty(x)
  BY <1>4, EndStep DEF SampleEmpty
<1>5. CASE Insert(x)
  BY <1>5, InsertStep
<1>6. CASE Resolved(x)
  BY <1>6, ResolvedStep, EndStep DEF Resolved
<1>7. CASE Answered(x)
  BY <1>7, EndStep DEF Answered
<1>8. CASE Fails(x)
  BY <1>8, EndStep DEF Fails
<1> QED
  BY <1>1, <1>2, <1>3, <1>4, <1>5, <1>6, <1>7, <1>8 DEF Continue

LEMMA ConfigureStep ==
  ASSUME IInv, Configure
  PROVE  IInv'
<1>1. CASE \E o \in DatabaseOptions : SetDatabaseOption(o[1], o[2])
  BY <1>1, QuietStep DEF SetDatabaseOption
<1>2. CASE \E n \in Connections, l \in OptionLists(ConnectionOptions) : NewConnection(n, l)
  BY <1>2, NewConnectionStep
<1>3. CASE \E n \in Connections, l \in OptionLists(ConnectionOptions) : NewConnectionFails(n, l)
  BY <1>3, QuietStep DEF NewConnectionFails
<1>4. CASE \E n \in Connections, o \in ConnectionOptions : SetConnectionOption(n, o[1], o[2])
  BY <1>4, QuietStep DEF SetConnectionOption
<1>5. CASE \E n \in Connections, s \in Statements : NewStatement(n, s)
  BY <1>5, StatementCalls
<1>6. CASE \E s \in Statements, o \in StatementOptions : SetStatementOption(s, o[1], o[2])
  BY <1>6, StatementCalls
<1>7. CASE \E s \in Statements, q \in Queries : SetSqlQuery(s, q)
  BY <1>7, StatementCalls
<1>8. CASE RefuseOption
  BY <1>8, QuietStep DEF RefuseOption
<1> QED
  BY <1>1, <1>2, <1>3, <1>4, <1>5, <1>6, <1>7, <1>8 DEF Configure

LEMMA BeginStep ==
  ASSUME IInv, Begin
  PROVE  IInv'
<1>1. CASE \E s \in Statements : Execute(s)
  BY <1>1, StartStep
<1>2. CASE \E s \in Statements : ExecuteRefused(s)
  BY <1>2, QuietStep DEF ExecuteRefused
<1>3. CASE \E n \in Connections, c \in Catalogs, t \in Containers : GetTableSchema(n, c, t)
  BY <1>3, StartStep
<1>4. CASE \E n \in Connections : GetTableSchemaRefused(n)
  BY <1>4, QuietStep DEF GetTableSchemaRefused
<1> QED
  BY <1>1, <1>2, <1>3, <1>4 DEF Begin

LEMMA NextInv == IInv /\ [Next]_vars => IInv'
<1> SUFFICES ASSUME IInv, [Next]_vars PROVE IInv'
  OBVIOUS
<1>1. CASE Configure
  BY <1>1, ConfigureStep
<1>2. CASE Begin
  BY <1>2, BeginStep
<1>3. CASE \E x \in Callers : Continue(x)
  BY <1>3, ContinueStep
<1>4. CASE UNCHANGED vars
  BY <1>4, QuietStep DEF vars
<1> QED
  BY <1>1, <1>2, <1>3, <1>4 DEF Next
----------------------------------------------------------------------------
(* What a busy object works with, and what the caches hold, is of the      *)
(* account and the database its owner was given, in every reachable state. *)
THEOREM Invariance == Spec => []IInv
<1> QED
  BY InitInv, NextInv, PTL DEF Spec

LEMMA InvMatches == IInv => SchemasMatchTargets
<1> SUFFICES ASSUME IInv, NEW x \in Callers, NEW t \in Containers,
                    job[x].schemas[t] # Unset
             PROVE  job[x].schemas[t] =
                      <<client[Owner(x)].account,
                        IF x \in Statements /\ ~IsIdle(x) THEN stmt[x].database
                                                        ELSE job[x].database, t>>
  BY DEF SchemasMatchTargets
<1>1. WorkOK(x, job[x])
  BY DEF IInv, JobsOK
<1>2. job[x] # Idle
  BY DEF Idle, Work, NoSchemas
<1> QED
  BY <1>1, <1>2 DEF WorkOK, IsIdle

(* No plan and no metadata call ever gets a schema that was sampled in     *)
(* another account, database or container than the one that was asked for, *)
(* whatever the connection's calls and its statements' put into the cache. *)
THEOREM SchemasMatch == Spec => []SchemasMatchTargets
<1> QED
  BY Invariance, InvMatches, PTL
----------------------------------------------------------------------------
(* Where a statement's requests go is changed by nothing but its own       *)
(* database option: by no call on the database or the connection, by no    *)
(* other statement, by no step of a query.                                 *)
LEMMA TargetStep ==
  ASSUME IInv, [Next]_vars, NEW s \in Statements, stmt[s] # Unset
  PROVE  \/ Where(s)' = Where(s)
         \/ \E o \in StatementOptions : o[1] = "database" /\ SetStatementOption(s, o[1], o[2])
<1>1. StatementOK(stmt[s])
  BY DEF IInv, StatementsOK
<1>2. CASE UNCHANGED <<client, stmt>>
  BY <1>2 DEF Where
<1>3. ASSUME NEW n \in Connections, NEW l, NewConnection(n, l)
      PROVE  Where(s)' = Where(s)
  <2>1. stmt'[s] = stmt[s] /\ stmt[s].on # n
    BY <1>1, <1>3 DEF NewConnection, StatementOK
  <2>2. client'[stmt[s].on] = client[stmt[s].on]
    BY <1>1, <1>3, <2>1 DEF NewConnection, StatementOK, IInv, CachesOK
  <2> QED
    BY <2>1, <2>2 DEF Where
<1>4. ASSUME NEW r \in Statements, stmt'[s] = stmt[s], UNCHANGED client
      PROVE  Where(s)' = Where(s)
  BY <1>4 DEF Where
<1>5. ASSUME NEW n \in Connections, NEW r \in Statements, NewStatement(n, r)
      PROVE  Where(s)' = Where(s)
  BY <1>5, <1>4 DEF NewStatement, IInv, StatementsOK
<1>6. ASSUME NEW r \in Statements, NEW o \in StatementOptions, SetStatementOption(r, o[1], o[2])
      PROVE  \/ Where(s)' = Where(s)
             \/ r = s /\ o[1] = "database"
  <2>1. CASE r # s
    BY <2>1, <1>6, <1>4 DEF SetStatementOption, IInv, StatementsOK
  <2>2. CASE r = s /\ o[1] # "database"
    <3>1. o[1] \in Keys
      BY <1>6, AcceptedKeys DEF SetStatementOption
    <3>2. stmt'[s] = StatementWith(stmt[s], o[1], o[2])
      BY <1>6, <2>2 DEF SetStatementOption, IInv, StatementsOK
    <3>3. stmt'[s].on = stmt[s].on /\ stmt'[s].database = stmt[s].database
      BY <1>1, <2>2, <3>1, <3>2, Untouched DEF StatementOK
    <3>4. client' = client
      BY <1>6 DEF SetStatementOption
    <3> QED
      BY <3>3, <3>4 DEF Where
  <2> QED
    BY <2>1, <2>2
<1>7. ASSUME NEW r \in Statements, NEW q \in Queries, SetSqlQuery(r, q)
      PROVE  Where(s)' = Where(s)
  <2>1. CASE r # s
    BY <2>1, <1>7, <1>4 DEF SetSqlQuery, IInv, StatementsOK
  <2>2. CASE r = s
    <3>1. stmt'[s] = [stmt[s] EXCEPT !.query = q] /\ client' = client
      BY <1>7, <2>2 DEF SetSqlQuery, IInv, StatementsOK
    <3>2. stmt'[s].on = stmt[s].on /\ stmt'[s].database = stmt[s].database
      BY <1>1, <3>1 DEF StatementOK
    <3> QED
      BY <3>1, <3>2 DEF Where
  <2> QED
    BY <2>1, <2>2
<1>8. CASE Configure
  <2>1. CASE \/ \E o \in DatabaseOptions : SetDatabaseOption(o[1], o[2])
             \/ \E n \in Connections, l \in OptionLists(ConnectionOptions) :
                  NewConnectionFails(n, l)
             \/ \E n \in Connections, o \in ConnectionOptions :
                  SetConnectionOption(n, o[1], o[2])
             \/ RefuseOption
    BY <2>1, <1>2 DEF SetDatabaseOption, NewConnectionFails, SetConnectionOption, RefuseOption
  <2> QED
    BY <1>8, <2>1, <1>3, <1>5, <1>6, <1>7 DEF Configure
<1>9. CASE Begin
  BY <1>9, <1>2 DEF Begin, Execute, ExecuteRefused, GetTableSchema, GetTableSchemaRefused, Starts
<1>10. CASE \E x \in Callers : Continue(x)
  BY <1>10, <1>2 DEF Continue, Hit, Miss, SampleDocs, SampleEmpty, Insert, Resolved, Answered, Fails
<1>11. CASE UNCHANGED vars
  BY <1>11, <1>2 DEF vars
<1> QED
  BY <1>8, <1>9, <1>10, <1>11 DEF Next

(* A statement's requests go where it was made to send them, or where its  *)
(* own database option moved them (connection.rs:59, statement.rs).        *)
THEOREM TargetsAreOwn == Spec => TargetsMoveByOwnCalls
<1>1. IInv /\ [Next]_vars =>
        [\A s \in Statements : stmt[s] # Unset =>
          \/ Where(s)' = Where(s)
          \/ \E o \in StatementOptions :
               o[1] = "database" /\ SetStatementOption(s, o[1], o[2])]_vars
  BY TargetStep
<1> QED
  BY <1>1, Invariance, PTL DEF Spec, TargetsMoveByOwnCalls
----------------------------------------------------------------------------
(* A connection is what its database's options made it when it was made. *)
BornOK ==
  /\ born = [n \in Connections |-> born[n]]
  /\ client = [n \in Connections |-> client[n]]
  /\ \A n \in Connections : client[n] # Unset =>
       client[n] = Client(born[n]) /\ CanConnect(born[n])

LEMMA InitBorn == Init => BornOK
BY DEF Init, BornOK

LEMMA NextBorn == BornOK /\ [Next]_vars => BornOK'
<1> SUFFICES ASSUME BornOK, [Next]_vars PROVE BornOK'
  OBVIOUS
<1>1. CASE UNCHANGED <<born, client>>
  BY <1>1 DEF BornOK
<1>2. ASSUME NEW n \in Connections, NEW l, NewConnection(n, l)
      PROVE  BornOK'
  <2>1. /\ born' = [born EXCEPT ![n] = config]
        /\ client' = [client EXCEPT ![n] = Client(config)]
        /\ CanConnect(config)
    BY <1>2 DEF NewConnection
  <2>2. ASSUME NEW m \in Connections, client'[m] # Unset
        PROVE  client'[m] = Client(born'[m]) /\ CanConnect(born'[m])
    <3>1. CASE m = n
      BY <2>1, <3>1 DEF BornOK
    <3>2. CASE m # n
      <4>1. client'[m] = client[m] /\ born'[m] = born[m]
        BY <2>1, <3>2 DEF BornOK
      <4> QED
        BY <2>2, <4>1 DEF BornOK
    <3> QED
      BY <3>1, <3>2
  <2>3. /\ born' = [m \in Connections |-> born'[m]]
        /\ client' = [m \in Connections |-> client'[m]]
    BY <2>1 DEF BornOK
  <2> QED
    BY <2>2, <2>3 DEF BornOK, Client, CanConnect, Account, CredentialFrom, Mode
<1>3. CASE Configure
  BY <1>3, <1>1, <1>2 DEF Configure, SetDatabaseOption, NewConnectionFails,
     SetConnectionOption, NewStatement, SetStatementOption, SetSqlQuery, RefuseOption
<1>4. CASE Begin
  BY <1>4, <1>1 DEF Begin, Execute, ExecuteRefused, GetTableSchema,
     GetTableSchemaRefused, Starts
<1>5. CASE \E x \in Callers : Continue(x)
  BY <1>5, <1>1 DEF Continue, Hit, Miss, SampleDocs, SampleEmpty, Insert, Resolved,
     Answered, Fails
<1>6. CASE UNCHANGED vars
  BY <1>6, <1>1 DEF vars
<1> QED
  BY <1>3, <1>4, <1>5, <1>6 DEF Next

(* What a credential says of the options it was made from. *)
LEMMA CredentialChoice ==
  ASSUME NEW f, CredentialFrom(f) # NoCredential
  PROVE  LET c == CredentialFrom(f)
         IN  /\ c.mode = Mode(f)
             /\ \A o \in DOMAIN c.carries : c.carries[o] = f[o]
             /\ c.mode \in Strict => \A o \in DOMAIN c.carries : f[o] # Unset
<1> DEFINE mode == Mode(f)
<1>1. /\ CredentialFrom(f) = [mode |-> mode, carries |-> [o \in Carries[mode] |-> f[o]]]
      /\ mode \in Strict => \A o \in Carries[mode] : f[o] # Unset
  BY DEF CredentialFrom
<1> HIDE DEF mode
<1>2. /\ CredentialFrom(f).mode = mode
      /\ CredentialFrom(f).carries = [o \in Carries[mode] |-> f[o]]
  BY <1>1
<1> QED
  BY <1>1, <1>2 DEF mode

LEMMA BornConnects == BornOK => ConnectsAsConfigured
<1> SUFFICES ASSUME BornOK, NEW n \in Connections, client[n] # Unset
             PROVE  LET f == born[n]
                        c == client[n].credential
                    IN  /\ IF f.connection_string # Unset
                           THEN /\ c.mode = "connection_string"
                                /\ client[n].account = f.connection_string
                           ELSE /\ client[n].account = f.endpoint
                                /\ f.auth # Unset => c.mode = f.auth
                                /\ f.auth = Unset => c.mode \in {"key", "entra"}
                                /\ c.mode = "entra" => f.auth = "entra" \/ f.account_key = Unset
                        /\ \A o \in DOMAIN c.carries : c.carries[o] = f[o]
                        /\ c.mode \in Strict => \A o \in DOMAIN c.carries : f[o] # Unset
  BY DEF ConnectsAsConfigured
<1> DEFINE f == born[n]
           c == CredentialFrom(f)
<1>1. /\ client[n] = [account |-> Account(f), credential |-> c]
      /\ c # NoCredential
  BY DEF BornOK, Client, CanConnect
<1>2. client[n].account = Account(f) /\ client[n].credential = c
  <2> HIDE DEF c, f
  <2> QED
    BY <1>1
<1>3. /\ c.mode = Mode(f)
      /\ \A o \in DOMAIN c.carries : c.carries[o] = f[o]
      /\ c.mode \in Strict => \A o \in DOMAIN c.carries : f[o] # Unset
  BY <1>1, CredentialChoice
<1> HIDE DEF c, f
<1>4. IF f.connection_string # Unset
      THEN Mode(f) = "connection_string" /\ Account(f) = f.connection_string
      ELSE /\ Account(f) = f.endpoint
           /\ f.auth # Unset => Mode(f) = f.auth
           /\ f.auth = Unset => Mode(f) \in {"key", "entra"}
           /\ Mode(f) = "entra" => f.auth = "entra" \/ f.account_key = Unset
  BY DEF Mode, Account
<1> QED
  BY <1>2, <1>3, <1>4 DEF f

(* A connection authenticates as the options of its database said when it  *)
(* was made, in the order of precedence that client.rs documents, and never *)
(* with a credential of which a part is missing.                            *)
THEOREM Connects == Spec => []ConnectsAsConfigured
<1> QED
  BY InitBorn, NextBorn, BornConnects, PTL DEF Spec

----------------------------------------------------------------------------
(* The options: the types of what the objects keep, and what setting one   *)
(* changes of a statement.                                                 *)

(* A list's last place of some kind. *)
LEMMA LastPlace ==
  ASSUME NEW n \in Nat, NEW P, P \subseteq 1 .. n, P # {}
  PROVE  Max(P) \in P
<1>1. P \subseteq 0 .. n
  OBVIOUS
<1>2. \E x \in P : \A i \in P : x >= i
  BY <1>1, GreatestNumber
<1> QED
  BY <1>2 DEF Max

(* The options of a database are among those that were set.                *)
LEMMA ConfigTyped ==
  ASSUME NEW c \in [ConfigFields -> Texts], NEW options \in OptionLists(DatabaseOptions),
         DatabaseTakes(options)
  PROVE  ConfigAfter(c, options) \in [ConfigFields -> Texts]
<1> DEFINE At(f) == {i \in DOMAIN options : ConfigField(options[i][1]) = f}
<1>1. PICK n \in Nat : options \in [1 .. n -> DatabaseOptions]
  BY DEF OptionLists, BoundedSeq, SeqOf
<1>2. ASSUME NEW f \in ConfigFields, At(f) # {}
      PROVE  options[Max(At(f))][2].string \in Texts
  <2>1. At(f) \subseteq 1 .. n
    BY <1>1
  <2> HIDE DEF At
  <2>2. Max(At(f)) \in At(f)
    BY <1>2, <2>1, LastPlace
  <2>3. Max(At(f)) \in DOMAIN options
    BY <2>1, <2>2, <1>1
  <2> QED
    BY <1>1, <2>3 DEF DatabaseTakes, DatabaseAccepts, Texts
<1>3. ASSUME NEW f \in ConfigFields
      PROVE  (IF At(f) = {} THEN c[f] ELSE options[Max(At(f))][2].string) \in Texts
  BY <1>2
<1> QED
  BY <1>3 DEF ConfigAfter

LEMMA ClientTyped ==
  ASSUME NEW c \in [ConfigFields -> Texts], CanConnect(c)
  PROVE  Client(c) \in Clients
<1> DEFINE mode == Mode(c)
<1>1. /\ mode \in DOMAIN Carries
      /\ CredentialFrom(c) = [mode |-> mode, carries |-> [f \in Carries[mode] |-> c[f]]]
  BY DEF CanConnect, CredentialFrom
<1>2. \A m \in DOMAIN Carries : Carries[m] \subseteq ConfigFields
  BY DEF Carries, ConfigFields
<1> HIDE DEF mode
<1>3. CredentialFrom(c) \in [mode : {mode}, carries : [Carries[mode] -> Texts]]
  BY <1>1, <1>2
<1>4. CredentialFrom(c) \in Credentials
  BY <1>1, <1>3 DEF Credentials
<1>5. Account(c) \in Texts
  BY DEF Account, ConfigFields
<1> QED
  BY <1>4, <1>5 DEF Client, Clients
----------------------------------------------------------------------------
(* What the objects keep has the types of its fields; what exists is what  *)
(* was made; and a call in the middle of its work was complete when it     *)
(* began, and still is.                                                    *)
ConfigsTyped ==
  /\ config \in [ConfigFields -> Texts]
  /\ born = [n \in Connections |-> born[n]]
  /\ client = [n \in Connections |-> client[n]]
  /\ current = [n \in Connections |-> current[n]]
  /\ \A n \in Connections :
       /\ client[n] # Unset <=> born[n] # Unset
       /\ client[n] = Unset => current[n] = Unset

StatementFields ==
  {"on", "database", "container", "query", "dialect", "output", "sample_size",
   "number_decimal", "decimal_precision", "decimal_scale", "epoch_fields",
   "heterogeneous"} \cup Toggles

StatementTyped(w) ==
  /\ DOMAIN w = StatementFields
  /\ \A key \in Toggles \cup {"number_decimal"} : w[key] \in BOOLEAN
  /\ w.sample_size = Unset \/ w.sample_size \in Int
  /\ w.decimal_scale \in 0 .. w.decimal_precision

StatementsTyped == \A s \in Statements : stmt[s] # Unset => StatementTyped(stmt[s])

CallsReady ==
  \A x \in Callers : job[x] # Idle =>
    /\ x \in Statements => Ready(stmt[x])
    /\ x \in Connections => job[x].step # "scanning"

OutcomeOK == outcome \in {"ok", "error", "notfound"}

TInv == IInv /\ ConfigsTyped /\ StatementsTyped /\ CallsReady /\ OutcomeOK

LEMMA InitTyped == Init => TInv
<1> SUFFICES ASSUME Init PROVE TInv
  OBVIOUS
<1>1. IInv
  BY InitInv
<1>2. ConfigsTyped
  <2>1. PICK options \in OptionLists(DatabaseOptions) :
          DatabaseTakes(options) /\ config = ConfigAfter(NoConfig, options)
    BY DEF Init
  <2>2. NoConfig \in [ConfigFields -> Texts]
    BY DEF NoConfig, Texts
  <2>3. config \in [ConfigFields -> Texts]
    BY <2>1, <2>2, ConfigTyped
  <2> QED
    BY <2>3 DEF Init, ConfigsTyped
<1>3. StatementsTyped /\ CallsReady /\ OutcomeOK
  BY DEF Init, StatementsTyped, CallsReady, OutcomeOK
<1> QED
  BY <1>1, <1>2, <1>3 DEF TInv

(* The objects above the statements. *)
LEMMA ConfigsStay ==
  ASSUME ConfigsTyped, UNCHANGED <<config, born, client, current>>
  PROVE  ConfigsTyped'
BY DEF ConfigsTyped

LEMMA DatabaseOptionTyped ==
  ASSUME ConfigsTyped, NEW o \in DatabaseOptions, SetDatabaseOption(o[1], o[2])
  PROVE  ConfigsTyped'
<1>1. ConfigField(o[1]) \in ConfigFields /\ o[2].string \in Texts
  BY DEF SetDatabaseOption, DatabaseAccepts, Texts
<1>2. config' = [config EXCEPT ![ConfigField(o[1])] = o[2].string]
  BY DEF SetDatabaseOption, ConfigWith
<1>3. config' \in [ConfigFields -> Texts]
  BY <1>1, <1>2 DEF ConfigsTyped
<1> QED
  BY <1>3 DEF SetDatabaseOption, ConfigsTyped

LEMMA NewConnectionTyped ==
  ASSUME ConfigsTyped, NEW n \in Connections, NEW l, NewConnection(n, l)
  PROVE  ConfigsTyped'
<1>1. Client(config) # Unset /\ config # Unset
  BY ClientTyped, UnsetAssumption DEF ConfigsTyped, NewConnection
<1>2. /\ born' = [born EXCEPT ![n] = config]
      /\ client' = [client EXCEPT ![n] = Client(config)]
      /\ current' = [current EXCEPT ![n] = CurrentAfter(config.database, l)]
      /\ config' = config
  BY DEF NewConnection
<1> QED
  BY <1>1, <1>2 DEF ConfigsTyped

LEMMA ConfigsStep == ConfigsTyped /\ [Next]_vars => ConfigsTyped'
<1> SUFFICES ASSUME ConfigsTyped, [Next]_vars PROVE ConfigsTyped'
  OBVIOUS
<1>1. CASE Configure
  <2>1. CASE \E n \in Connections, o \in ConnectionOptions : SetConnectionOption(n, o[1], o[2])
    BY <2>1 DEF SetConnectionOption, ConfigsTyped
  <2>2. CASE \/ \E n \in Connections, l \in OptionLists(ConnectionOptions) :
                  NewConnectionFails(n, l)
             \/ \E n \in Connections, s \in Statements : NewStatement(n, s)
             \/ \E s \in Statements, o \in StatementOptions : SetStatementOption(s, o[1], o[2])
             \/ \E s \in Statements, q \in Queries : SetSqlQuery(s, q)
             \/ RefuseOption
    BY <2>2, ConfigsStay DEF NewConnectionFails, NewStatement, SetStatementOption,
       SetSqlQuery, RefuseOption
  <2> QED
    BY <1>1, <2>1, <2>2, DatabaseOptionTyped, NewConnectionTyped DEF Configure
<1>2. CASE Begin
  BY <1>2, ConfigsStay DEF Begin, Execute, ExecuteRefused, GetTableSchema,
     GetTableSchemaRefused, Starts
<1>3. CASE \E x \in Callers : Continue(x)
  BY <1>3, ConfigsStay DEF Continue, Hit, Miss, SampleDocs, SampleEmpty, Insert,
     Resolved, Answered, Fails
<1>4. CASE UNCHANGED vars
  BY <1>4, ConfigsStay DEF vars
<1> QED
  BY <1>1, <1>2, <1>3, <1>4 DEF Next

(* What the parsers let through has the type of its field.                 *)
LEMMA AcceptedMeaning ==
  ASSUME NEW o \in StatementOptions, StatementAccepts(o[1], o[2])
  PROVE  /\ o[1] \in Toggles => Meaning(o[1], o[2]) \in BOOLEAN
         /\ o[1] = "number_inference" => Meaning(o[1], o[2]) \in BOOLEAN
         /\ o[1] = "sample_size" => Meaning(o[1], o[2]) \in Int /\ Meaning(o[1], o[2]) # Unset
         /\ o[1] = "decimal" => o[2].string[2] \in 0 .. o[2].string[1]
         /\ o[1] \in {"container", "database"} => Meaning(o[1], o[2]) # Unset
<1>1. ASSUME o[1] \in Toggles PROVE Meaning(o[1], o[2]) \in BOOLEAN
  <2>1. o[1] # "sample_size" /\ o[1] # "number_inference"
    BY <1>1 DEF Toggles
  <2>2. Meaning(o[1], o[2]) = IsOn(o[2].string)
    BY <1>1, <2>1 DEF Meaning
  <2> QED
    BY <2>2 DEF IsOn
<1>2. o[1] = "number_inference" => Meaning(o[1], o[2]) \in BOOLEAN
  BY DEF Meaning, Toggles
<1>3. o[1] = "sample_size" => Meaning(o[1], o[2]) \in Int /\ Meaning(o[1], o[2]) # Unset
  BY OptionsAssumption DEF Meaning, StatementAccepts, Toggles
<1>4. o[1] = "decimal" => o[2].string[2] \in 0 .. o[2].string[1]
  BY DEF StatementAccepts, Legal, Toggles
<1>5. o[1] \in {"container", "database"} => Meaning(o[1], o[2]) # Unset
  <2>1. o[1] \in {"container", "database"} => Meaning(o[1], o[2]) = o[2].string
    BY DEF Meaning, Toggles
  <2>2. o[1] \in {"container", "database"} => IsString(o[2])
    BY DEF StatementAccepts
  <2> QED
    BY <2>1, <2>2, OptionsAssumption
<1> QED
  BY <1>1, <1>2, <1>3, <1>4, <1>5

LEMMA OptionTyped ==
  ASSUME NEW w, StatementTyped(w), NEW o \in StatementOptions, StatementAccepts(o[1], o[2])
  PROVE  StatementTyped(StatementWith(w, o[1], o[2]))
<1>1. o[1] \in Keys
  BY AcceptedKeys
<1>2. CASE o[1] = "decimal"
  <2>1. StatementWith(w, o[1], o[2]) = WroteDecimal(w, o[2].string[1], o[2].string[2])
    BY <1>1, <1>2, Arms
  <2>2. o[2].string[2] \in 0 .. o[2].string[1]
    BY <1>2, AcceptedMeaning
  <2> DEFINE p == o[2].string[1]
             q == o[2].string[2]
             u == WroteDecimal(w, p, q)
  <2> HIDE DEF p, q
  <2>3. /\ DOMAIN u = StatementFields
        /\ u.decimal_precision = p /\ u.decimal_scale = q
        /\ \A f \in StatementFields \ {"decimal_precision", "decimal_scale"} : u[f] = w[f]
    BY DEF StatementTyped, StatementFields, WroteDecimal
  <2> HIDE DEF u
  <2>4. StatementTyped(u)
    BY <2>2, <2>3 DEF StatementTyped, StatementFields, Toggles, p, q
  <2> QED
    BY <2>1, <2>4 DEF u, p, q
<1>3. CASE o[1] # "decimal"
  <2> DEFINE v == Meaning(o[1], o[2])
             k == FieldOf(o[1])
             u == Wrote(w, k, v)
  <2>1. StatementWith(w, o[1], o[2]) = u
    BY <1>1, <1>3, Arms
  <2>2. /\ k \in Toggles \cup {"number_decimal"} => v \in BOOLEAN
        /\ k = "sample_size" => v \in Int
        /\ k \in StatementFields \ {"decimal_precision", "decimal_scale"}
    BY <1>1, <1>3, AcceptedMeaning DEF FieldOf, Keys, Toggles, StatementFields
  <2> HIDE DEF v, k
  <2>3. /\ DOMAIN u = StatementFields
        /\ u[k] = v
        /\ \A f \in StatementFields \ {k} : u[f] = w[f]
    BY <2>2 DEF StatementTyped, Wrote
  <2> HIDE DEF u
  <2>4. StatementTyped(u)
    <3>1. \A key \in Toggles \cup {"number_decimal"} : u[key] \in BOOLEAN
      BY <2>2, <2>3 DEF StatementTyped, StatementFields
    <3>2. u.sample_size = Unset \/ u.sample_size \in Int
      BY <2>2, <2>3 DEF StatementTyped, StatementFields
    <3>3. u.decimal_scale \in 0 .. u.decimal_precision
      BY <2>2, <2>3 DEF StatementTyped, StatementFields
    <3> QED
      BY <2>3, <3>1, <3>2, <3>3 DEF StatementTyped
  <2> QED
    BY <2>1, <2>4
<1> QED
  BY <1>2, <1>3

LEMMA NewStatementTyped ==
  ASSUME NEW n
  PROVE  StatementTyped(NewStatementState(n))
<1>1. DOMAIN NewStatementState(n) = StatementFields
  BY DEF NewStatementState, StatementFields, Toggles
<1> DEFINE w == NewStatementState(n)
<1>2. /\ w.infer_temporal = FALSE /\ w.pushdown_count = TRUE /\ w.pushdown_avg = FALSE
      /\ w.pushdown_sort = TRUE /\ w.pushdown_multi_sort = FALSE
      /\ w.number_decimal = FALSE
  BY DEF NewStatementState
<1>3. w.sample_size = Unset
  BY DEF NewStatementState
<1>4. w.decimal_precision = 38 /\ w.decimal_scale = 9
  BY DEF NewStatementState
<1> HIDE DEF w
<1>5. \A key \in Toggles \cup {"number_decimal"} : w[key] \in BOOLEAN
  BY <1>2 DEF Toggles
<1> QED
  BY <1>1, <1>3, <1>4, <1>5 DEF StatementTyped, w

(* A statement that could be executed still can, unless the native dialect *)
(* is asked for.                                                           *)
LEMMA OptionKeepsReady ==
  ASSUME NEW w, StatementTyped(w), Ready(w),
         NEW o \in StatementOptions, StatementAccepts(o[1], o[2])
  PROVE  LET u == StatementWith(w, o[1], o[2])
         IN  \/ Ready(u)
             \/ u.dialect = "native" /\ w.dialect # "native"
<1>1. o[1] \in Keys
  BY AcceptedKeys
<1>2. {"query", "database", "dialect", "container"} \subseteq DOMAIN w
  BY DEF StatementTyped, StatementFields
<1>3. CASE o[1] = "decimal"
  <2>1. StatementWith(w, o[1], o[2]) = WroteDecimal(w, o[2].string[1], o[2].string[2])
    BY <1>1, <1>3, Arms
  <2> QED
    BY <1>2, <2>1 DEF Ready, WroteDecimal
<1>4. CASE o[1] # "decimal"
  <2> DEFINE v == Meaning(o[1], o[2])
             k == FieldOf(o[1])
             u == Wrote(w, k, v)
  <2>1. StatementWith(w, o[1], o[2]) = u
    BY <1>1, <1>4, Arms
  <2>2. /\ k \in {"container", "database"} => v # Unset
        /\ k # "query"
    BY <1>1, AcceptedMeaning DEF FieldOf, Keys, Toggles
  <2> HIDE DEF v, k
  <2>3. \/ Ready(u)
        \/ u.dialect = "native" /\ w.dialect # "native"
    BY <1>2, <2>2 DEF Ready, Wrote
  <2> QED
    BY <2>1, <2>3
<1> QED
  BY <1>3, <1>4

(* Every statement a step leaves is one there was, a new one, or one whose *)
(* option or query was set while it ran nothing.                           *)
LEMMA StatementChanges ==
  ASSUME TInv, [Next]_vars, NEW s \in Statements
  PROVE  \/ stmt'[s] = stmt[s]
         \/ /\ stmt[s] = Unset
            /\ \E n \in Connections : stmt'[s] = NewStatementState(n)
         \/ /\ stmt[s] # Unset /\ job[s] = Idle /\ job' = job
            /\ \E o \in StatementOptions :
                 /\ StatementAccepts(o[1], o[2])
                 /\ stmt'[s] = StatementWith(stmt[s], o[1], o[2])
         \/ /\ stmt[s] # Unset /\ job[s] = Idle /\ job' = job
            /\ \E q \in Queries : stmt'[s] = [stmt[s] EXCEPT !.query = q]
<1>1. stmt = [r \in Statements |-> stmt[r]]
  BY DEF TInv, IInv, StatementsOK
<1>2. CASE Configure
  <2>1. ASSUME NEW n \in Connections, NEW r \in Statements, NewStatement(n, r)
        PROVE  \/ stmt'[s] = stmt[s]
               \/ stmt[s] = Unset /\ stmt'[s] = NewStatementState(n)
    BY <1>1, <2>1 DEF NewStatement
  <2>2. ASSUME NEW r \in Statements, NEW o \in StatementOptions,
               SetStatementOption(r, o[1], o[2])
        PROVE  \/ stmt'[s] = stmt[s]
               \/ /\ stmt[s] # Unset /\ job[s] = Idle /\ job' = job
                  /\ StatementAccepts(o[1], o[2])
                  /\ stmt'[s] = StatementWith(stmt[s], o[1], o[2])
    BY <1>1, <2>2 DEF SetStatementOption, IsIdle
  <2>3. ASSUME NEW r \in Statements, NEW q \in Queries, SetSqlQuery(r, q)
        PROVE  \/ stmt'[s] = stmt[s]
               \/ /\ stmt[s] # Unset /\ job[s] = Idle /\ job' = job
                  /\ stmt'[s] = [stmt[s] EXCEPT !.query = q]
    BY <1>1, <2>3 DEF SetSqlQuery, IsIdle
  <2>4. CASE stmt' = stmt
    BY <2>4
  <2> QED
    BY <1>2, <2>1, <2>2, <2>3, <2>4 DEF Configure, SetDatabaseOption, NewConnection,
       NewConnectionFails, SetConnectionOption, RefuseOption
<1>3. CASE Begin
  BY <1>3 DEF Begin, Execute, ExecuteRefused, GetTableSchema, GetTableSchemaRefused, Starts
<1>4. CASE \E x \in Callers : Continue(x)
  BY <1>4 DEF Continue, Hit, Miss, SampleDocs, SampleEmpty, Insert, Resolved, Answered, Fails
<1>5. CASE UNCHANGED vars
  BY <1>5 DEF vars
<1> QED
  BY <1>2, <1>3, <1>4, <1>5 DEF Next

LEMMA StatementsStep ==
  ASSUME TInv, [Next]_vars
  PROVE  StatementsTyped'
<1> SUFFICES ASSUME NEW s \in Statements, stmt'[s] # Unset
             PROVE  StatementTyped(stmt'[s])
  BY DEF StatementsTyped, StatementTyped
<1>1. stmt[s] # Unset => StatementTyped(stmt[s])
  BY DEF TInv, StatementsTyped
<1>2. ASSUME StatementTyped(stmt[s]), NEW q, stmt'[s] = [stmt[s] EXCEPT !.query = q]
      PROVE  StatementTyped(stmt'[s])
  BY <1>2 DEF StatementTyped, StatementFields, Toggles
<1>3. CASE stmt'[s] = stmt[s]
  BY <1>1, <1>3
<1>4. ASSUME NEW n \in Connections, stmt'[s] = NewStatementState(n)
      PROVE  StatementTyped(stmt'[s])
  BY <1>4, NewStatementTyped
<1>5. ASSUME stmt[s] # Unset, NEW o \in StatementOptions, StatementAccepts(o[1], o[2]),
             stmt'[s] = StatementWith(stmt[s], o[1], o[2])
      PROVE  StatementTyped(stmt'[s])
  BY <1>1, <1>5, OptionTyped
<1> QED
  BY <1>1, <1>2, <1>3, <1>4, <1>5, StatementChanges

(* Nothing that a statement can still be given takes back what an          *)
(* execution needs, except the native dialect without a container.         *)
LEMMA ReadyStep ==
  ASSUME TInv, [Next]_vars, NEW s \in Statements, stmt[s] # Unset, Ready(stmt[s])
  PROVE  \/ Ready(stmt'[s])
         \/ stmt'[s].dialect = "native" /\ stmt[s].dialect # "native"
<1>1. StatementTyped(stmt[s])
  BY DEF TInv, StatementsTyped
<1>2. ASSUME NEW q \in Queries, stmt'[s] = [stmt[s] EXCEPT !.query = q]
      PROVE  Ready(stmt'[s])
  <2>1. {"query", "database", "dialect", "container"} \subseteq DOMAIN stmt[s]
    BY <1>1 DEF StatementTyped, StatementFields
  <2>2. q # Unset
    BY QueriesAssumption
  <2> QED
    BY <1>2, <2>1, <2>2 DEF Ready
<1>3. ASSUME NEW o \in StatementOptions, StatementAccepts(o[1], o[2]),
             stmt'[s] = StatementWith(stmt[s], o[1], o[2])
      PROVE  \/ Ready(stmt'[s])
             \/ stmt'[s].dialect = "native" /\ stmt[s].dialect # "native"
  BY <1>1, <1>3, OptionKeepsReady
<1>4. CASE stmt'[s] = stmt[s]
  BY <1>4
<1> QED
  BY <1>2, <1>3, <1>4, StatementChanges

LEMMA CallsStep ==
  ASSUME TInv, [Next]_vars
  PROVE  CallsReady'
<1> SUFFICES ASSUME NEW x \in Callers, job'[x] # Idle
             PROVE  /\ x \in Statements => Ready(stmt'[x])
                    /\ x \in Connections => job'[x].step # "scanning"
  BY DEF CallsReady, Ready, Idle, Work, NoSchemas
<1>1. /\ job = [y \in Callers |-> job[y]]
      /\ WorkOK(x, job[x])
      /\ job[x] # Idle /\ x \in Statements => stmt[x] # Unset /\ Ready(stmt[x])
      /\ job[x] # Idle /\ x \in Connections => job[x].step # "scanning"
  BY DEF TInv, IInv, JobsOK, CallsReady, WorkOK
<1>2. CASE job' = job
  <2>1. x \in Statements => stmt'[x] = stmt[x]
    BY <1>1, <1>2, StatementChanges
  <2> QED
    BY <1>1, <1>2, <2>1
<1>3. CASE Begin
  <2>1. ASSUME NEW s \in Statements, Execute(s)
        PROVE  /\ x \in Statements => Ready(stmt'[x])
               /\ x \in Connections => job'[x].step # "scanning"
    BY <1>1, <2>1, DisjointAssumption DEF Execute, Starts, Callers
  <2>2. ASSUME NEW n \in Connections, NEW c, NEW t, GetTableSchema(n, c, t)
        PROVE  /\ x \in Statements => Ready(stmt'[x])
               /\ x \in Connections => job'[x].step # "scanning"
    BY <1>1, <2>2, DisjointAssumption DEF GetTableSchema, Starts, Callers, Work
  <2> QED
    BY <1>2, <1>3, <2>1, <2>2 DEF Begin, ExecuteRefused, GetTableSchemaRefused
<1>4. ASSUME NEW y \in Callers, Continue(y)
      PROVE  /\ x \in Statements => Ready(stmt'[x])
             /\ x \in Connections => job'[x].step # "scanning"
  <2>1. stmt' = stmt /\ \E w : job' = [job EXCEPT ![y] = w]
    BY <1>4 DEF Continue, Hit, Miss, SampleDocs, SampleEmpty, Insert, Resolved,
       Answered, Fails, Goes, Ends
  <2>2. job[x] # Idle
    <3>1. job[y] # Idle
      BY <1>4 DEF Continue, Hit, Miss, SampleDocs, SampleEmpty, Insert, Resolved,
         Answered, Fails, Idle, Work
    <3> QED
      BY <1>1, <2>1, <3>1
  <2>3. CASE x \in Statements
    BY <1>1, <2>1, <2>2, <2>3, DisjointAssumption
  <2>4. CASE x \in Connections /\ x # y
    BY <1>1, <2>1, <2>2, <2>4, DisjointAssumption
  <2>5. CASE x \in Connections /\ x = y
    <3>1. x \notin Statements /\ \A w : Goes(y, w) => job'[x] = w
      BY <1>1, <2>5, DisjointAssumption DEF Goes
    <3>2. \A a, d, l, u, f : Work(a, d, l, u, f).step = a
      BY DEF Work
    <3>3. CASE Hit(y)
      BY <3>1, <3>2, <3>3 DEF Hit
    <3>4. CASE Miss(y)
      BY <3>1, <3>2, <3>4 DEF Miss
    <3>5. CASE SampleDocs(y)
      BY <3>1, <3>2, <3>5 DEF SampleDocs
    <3>6. CASE Insert(y)
      BY <3>1, <3>2, <3>6 DEF Insert
    <3>7. CASE SampleEmpty(y) \/ Answered(y) \/ Fails(y)
      BY <1>1, <2>5, <3>1, <3>7 DEF SampleEmpty, Answered, Fails, Ends
    <3>8. CASE Resolved(y)
      BY <1>1, <2>5, <3>1, <3>8 DEF Resolved, Ends
    <3> QED
      BY <1>4, <3>3, <3>4, <3>5, <3>6, <3>7, <3>8 DEF Continue
  <2> QED
    BY <2>3, <2>4, <2>5 DEF Callers
<1>5. CASE Configure
  BY <1>2, <1>5 DEF Configure, SetDatabaseOption, NewConnection, NewConnectionFails,
     SetConnectionOption, NewStatement, SetStatementOption, SetSqlQuery, RefuseOption
<1>6. CASE UNCHANGED vars
  BY <1>2, <1>6 DEF vars
<1> QED
  BY <1>3, <1>4, <1>5, <1>6 DEF Next

LEMMA OutcomeStep ==
  ASSUME OutcomeOK, [Next]_vars
  PROVE  OutcomeOK'
<1>1. CASE Configure
  BY <1>1 DEF Configure, SetDatabaseOption, NewConnection, NewConnectionFails,
     SetConnectionOption, NewStatement, SetStatementOption, SetSqlQuery, RefuseOption, OutcomeOK
<1>2. CASE Begin
  BY <1>2 DEF Begin, Execute, ExecuteRefused, GetTableSchema, GetTableSchemaRefused,
     Starts, OutcomeOK
<1>3. CASE \E x \in Callers : Continue(x)
  BY <1>3 DEF Continue, Hit, Miss, SampleDocs, SampleEmpty, Insert, Resolved,
     Answered, Fails, Goes, Ends, OutcomeOK
<1>4. CASE UNCHANGED vars
  BY <1>4 DEF vars, OutcomeOK
<1> QED
  BY <1>1, <1>2, <1>3, <1>4 DEF Next

LEMMA NextTyped == TInv /\ [Next]_vars => TInv'
<1> SUFFICES ASSUME TInv, [Next]_vars PROVE TInv'
  OBVIOUS
<1>1. IInv'
  BY NextInv DEF TInv
<1>2. ConfigsTyped'
  BY ConfigsStep DEF TInv
<1>3. StatementsTyped' /\ CallsReady' /\ OutcomeOK'
  BY StatementsStep, CallsStep, OutcomeStep DEF TInv
<1> QED
  BY <1>1, <1>2, <1>3 DEF TInv
----------------------------------------------------------------------------
(* The objects of a session in every reachable state, for any options.     *)
THEOREM Typed == Spec => []TInv
<1> QED
  BY InitTyped, NextTyped, PTL DEF Spec

LEMMA TypedOK == TInv => TypeOK
<1> SUFFICES ASSUME TInv PROVE TypeOK
  OBVIOUS
<1>1. DOMAIN config = ConfigFields /\ outcome \in {"ok", "error", "notfound"}
  BY DEF TInv, ConfigsTyped, OutcomeOK
<1>2. ASSUME NEW n \in Connections
      PROVE  /\ client[n] # Unset <=> born[n] # Unset
             /\ client[n] = Unset => current[n] = Unset /\ DOMAIN cache[n] = {}
             /\ ~IsIdle(n) => client[n] # Unset /\ job[n].step # "scanning"
  BY DEF TInv, ConfigsTyped, IInv, CachesOK, JobsOK, WorkOK, CallsReady, IsIdle, Callers
<1>3. ASSUME NEW s \in Statements
      PROVE  /\ stmt[s] # Unset => /\ stmt[s].on \in Connections
                                  /\ client[stmt[s].on] # Unset
                                  /\ \A key \in Toggles : stmt[s][key] \in BOOLEAN
                                  /\ stmt[s].decimal_scale \in 0 .. stmt[s].decimal_precision
             /\ ~IsIdle(s) => stmt[s] # Unset /\ Ready(stmt[s])
  <2>1. stmt[s] # Unset => StatementOK(stmt[s]) /\ StatementTyped(stmt[s])
    BY DEF TInv, StatementsTyped, IInv, StatementsOK
  <2>2. ~IsIdle(s) => stmt[s] # Unset /\ Ready(stmt[s])
    BY DEF TInv, IInv, JobsOK, WorkOK, CallsReady, IsIdle, Callers
  <2> QED
    BY <2>1, <2>2 DEF StatementOK, StatementTyped
<1> QED
  BY <1>1, <1>2, <1>3 DEF TypeOK

(* Every object that exists was made from one that exists; a call runs     *)
(* only on an object that exists and a query only of a complete statement; *)
(* what the options left in a statement is of the option's type.           *)
THEOREM TypeCorrect == Spec => []TypeOK
<1> QED
  BY Typed, TypedOK, PTL

(* A statement that can be executed can be executed again, whatever was    *)
(* done to it since (statement.rs:261-281).                                *)
THEOREM StaysReady == Spec => ReadyStaysReady
<1>1. TInv /\ [Next]_vars =>
        [\A s \in Statements : stmt[s] # Unset /\ Ready(stmt[s]) =>
           \/ Ready(stmt'[s])
           \/ stmt'[s].dialect = "native" /\ stmt[s].dialect # "native"]_vars
  BY ReadyStep
<1> QED
  BY <1>1, Typed, PTL DEF Spec, ReadyStaysReady
----------------------------------------------------------------------------
LEMMA EffectiveFields ==
  ASSUME NEW w
  PROVE  LET e == Effective(w)
         IN  /\ DOMAIN e = {"dialect", "output", "container", "database", "sample", "number",
                            "temporal", "epoch", "heterogeneous", "count", "avg", "sort",
                            "multi_sort"}
             /\ e.dialect = w.dialect /\ e.output = w.output
             /\ e.container = w.container /\ e.database = w.database
             /\ e.sample = SampleOf(w)
             /\ e.number = NumberMode(w)
             /\ e.temporal = w.infer_temporal /\ e.epoch = w.epoch_fields
             /\ e.heterogeneous = w.heterogeneous
             /\ e.count = w.pushdown_count /\ e.avg = w.pushdown_avg
             /\ e.sort = w.pushdown_sort /\ e.multi_sort = w.pushdown_multi_sort
BY DEF Effective

(* No document is missed because the sample was empty: whatever            *)
(* sample_size was accepted, at least one is asked for.                    *)
LEMMA SamplesOne ==
  ASSUME NEW w, StatementTyped(w)
  PROVE  Effective(w).sample \in Int /\ Effective(w).sample > 0
<1>1. Effective(w).sample = SampleOf(w)
  BY EffectiveFields
<1>2. SampleOf(w) \in Int /\ SampleOf(w) > 0
  BY DEF SampleOf, StatementTyped
<1> QED
  BY <1>1, <1>2

LEMMA NotFoundStep ==
  ASSUME TInv, [Next]_vars, NEW s \in Statements,
         ~IsIdle(s), outcome' = "notfound", IsIdle(s)'
  PROVE  <<client[stmt[s].on].account, stmt[s].database, job[s].table>> \notin NonEmpty
<1>1. /\ job = [y \in Callers |-> job[y]]
      /\ s \in Callers /\ s \notin Connections
      /\ stmt[s] # Unset /\ job[s].database = stmt[s].database
  BY DisjointAssumption DEF TInv, IInv, JobsOK, WorkOK, Callers, IsIdle
<1>2. job'[s] # job[s]
  BY DEF IsIdle, Idle, Work, NoSchemas
<1>3. SampleEmpty(s)
  <2>1. CASE Configure
    BY <1>2, <2>1 DEF Configure, SetDatabaseOption, NewConnection, NewConnectionFails,
       SetConnectionOption, NewStatement, SetStatementOption, SetSqlQuery, RefuseOption
  <2>2. CASE Begin
    BY <1>2, <2>2 DEF Begin, Execute, ExecuteRefused, GetTableSchema,
       GetTableSchemaRefused, Starts
  <2>3. ASSUME NEW x \in Callers, Continue(x)
        PROVE  SampleEmpty(s)
    <3>1. SampleEmpty(x)
      BY <2>3 DEF Continue, Hit, Miss, SampleDocs, Insert, Resolved, Answered, Fails, Goes, Ends
    <3>2. job' = [job EXCEPT ![x] = Idle]
      BY <3>1 DEF SampleEmpty, Ends
    <3>3. x = s
      BY <1>1, <1>2, <3>2
    <3> QED
      BY <3>1, <3>3
  <2>4. CASE UNCHANGED vars
    BY <1>2, <2>4 DEF vars
  <2> QED
    BY <2>1, <2>2, <2>3, <2>4 DEF Next
<1>4. Sample(s) > 0
  BY <1>1, SamplesOne DEF Sample, TInv, StatementsTyped
<1>5. Target(s, job[s].table) \notin NonEmpty
  BY <1>3, <1>4 DEF SampleEmpty, SampleFinds
<1> QED
  BY <1>1, <1>5 DEF Target, Owner

(* Only a container of the statement's own account and database that has   *)
(* no documents is ever reported as a table that is not there.             *)
THEOREM EmptyIsNotFound == Spec => OnlyEmptyIsNotFound
<1>1. TInv /\ [Next]_vars =>
        [\A s \in Statements :
           ~IsIdle(s) /\ outcome' = "notfound" /\ IsIdle(s)' =>
             <<client[stmt[s].on].account, stmt[s].database, job[s].table>> \notin NonEmpty]_vars
  BY NotFoundStep
<1> QED
  BY <1>1, Typed, PTL DEF Spec, OnlyEmptyIsNotFound
----------------------------------------------------------------------------
(* What the objects keep of what was asked for: field by field what it was *)
(* parsed to.                                                              *)
AsWritten == {"container", "database", "dialect", "output", "epoch_fields",
              "heterogeneous", "query"}

FollowsTexts(w, a) == \A f \in AsWritten : w[f] = AskedText(a, f)

FollowsToggles(w, a) == \A f \in Toggles : w[f] = AskedOn(a, f)

FollowsNumber(w, a) ==
  /\ w.number_decimal = (AskedText(a, "number_inference") = "decimal")
  /\ w.decimal_precision = AskedText(a, "decimal")[1]
  /\ w.decimal_scale = AskedText(a, "decimal")[2]

FollowsSample(w, a) ==
  IF "sample_size" \in DOMAIN a
  THEN /\ w.sample_size = a["sample_size"].int
       /\ w.sample_size \in Int /\ w.sample_size # Unset
  ELSE w.sample_size = Unset

Follows(w, a) ==
  FollowsTexts(w, a) /\ FollowsToggles(w, a) /\ FollowsNumber(w, a) /\ FollowsSample(w, a)

LEMMA TextWith ==
  ASSUME NEW a, NEW key, NEW value, NEW j
  PROVE  AskedText(With(a, key, value), j) = IF j = key THEN value.string ELSE AskedText(a, j)
BY DEF With, AskedText

LEMMA SampleWith ==
  ASSUME NEW w, NEW u, NEW a, NEW key, NEW value, FollowsSample(w, a),
         key # "sample_size", u.sample_size = w.sample_size
  PROVE  FollowsSample(u, With(a, key, value))
BY DEF With, FollowsSample

(* An arm of set_option keeps up with the history; so does set_sql_query.  *)
LEMMA ArmFollows ==
  ASSUME NEW w, StatementTyped(w), NEW a, Follows(w, a), NEW o \in StatementOptions,
         StatementAccepts(o[1], o[2]), o[1] # "decimal"
  PROVE  Follows(StatementWith(w, o[1], o[2]), With(a, o[1], o[2]))
<1> DEFINE key == o[1]
           value == o[2]
           k == FieldOf(key)
           v == Meaning(key, value)
           u == Wrote(w, k, v)
           b == With(a, key, value)
<1>1. key \in Keys /\ key # "decimal"
  BY AcceptedKeys
<1>2. StatementWith(w, o[1], o[2]) = u
  BY <1>1, Arms
<1>3. /\ k \in StatementFields
      /\ k \in AsWritten \cup Toggles => k = key
      /\ k \notin {"query", "decimal_precision", "decimal_scale"}
      /\ k = "sample_size" <=> key = "sample_size"
      /\ k = "number_decimal" <=> key = "number_inference"
  BY <1>1 DEF FieldOf, Keys, Toggles, StatementFields, AsWritten
<1>4. key = "sample_size" => /\ v = value.int
                            /\ v \in Int /\ v # Unset
  BY AcceptedMeaning DEF Meaning
<1>5. key \in AsWritten => v = value.string
  BY DEF Meaning, AsWritten, Toggles
<1>6. ASSUME key \in Toggles PROVE v = IsOn(value.string)
  <2>1. key # "sample_size" /\ key # "number_inference"
    BY <1>6 DEF Toggles
  <2> QED
    BY <1>6, <2>1 DEF Meaning
<1>7. ASSUME key = "number_inference" PROVE v = (value.string = "decimal")
  BY <1>7 DEF Meaning
<1>8. \A j : AskedText(b, j) = IF j = key THEN value.string ELSE AskedText(a, j)
  BY TextWith
<1>9. /\ "sample_size" \in DOMAIN b <=> "sample_size" \in DOMAIN a \/ key = "sample_size"
      /\ key = "sample_size" => b["sample_size"] = value
  BY DEF With
<1> HIDE DEF key, value, k, v, b
<1>10. /\ u[k] = v
       /\ \A f \in StatementFields \ {k} : u[f] = w[f]
  BY <1>3 DEF StatementTyped, Wrote
<1> HIDE DEF u
<1>11. FollowsTexts(u, b)
  <2> SUFFICES ASSUME NEW f \in AsWritten PROVE u[f] = AskedText(b, f)
    BY DEF FollowsTexts
  <2>1. w[f] = AskedText(a, f)
    BY DEF Follows, FollowsTexts
  <2>2. CASE f = key
    <3>1. k = key
      BY <1>1, <2>2 DEF k, FieldOf, AsWritten
    <3> QED
      BY <1>5, <1>8, <1>10, <2>2, <3>1
  <2>3. CASE f # key
    <3>1. f # k /\ f \in StatementFields
      BY <1>3, <2>3 DEF AsWritten, StatementFields
    <3> QED
      BY <1>8, <1>10, <2>1, <2>3, <3>1
  <2> QED
    BY <2>2, <2>3
<1>12. FollowsToggles(u, b)
  <2> SUFFICES ASSUME NEW f \in Toggles PROVE u[f] = AskedOn(b, f)
    BY DEF FollowsToggles
  <2>1. w[f] = AskedOn(a, f)
    BY DEF Follows, FollowsToggles
  <2>2. CASE f = key
    <3>1. k = key
      BY <1>1, <2>2 DEF k, FieldOf, Toggles
    <3>2. u[f] = IsOn(value.string)
      BY <1>6, <1>10, <2>2, <3>1
    <3> QED
      BY <1>8, <2>2, <3>2 DEF AskedOn
  <2>3. CASE f # key
    <3>1. f # k /\ f \in StatementFields
      BY <1>3, <2>3 DEF StatementFields
    <3>2. u[f] = w[f] /\ AskedText(b, f) = AskedText(a, f)
      BY <1>8, <1>10, <2>3, <3>1
    <3> QED
      BY <2>1, <3>2 DEF AskedOn
  <2> QED
    BY <2>2, <2>3
<1>13. FollowsNumber(u, b)
  <2>1. FollowsNumber(w, a)
    BY DEF Follows
  <2>2. u.decimal_precision = w.decimal_precision /\ u.decimal_scale = w.decimal_scale
    BY <1>3, <1>10 DEF StatementFields
  <2>3. AskedText(b, "decimal") = AskedText(a, "decimal")
    BY <1>1, <1>8
  <2>4. CASE key = "number_inference"
    <3>1. AskedText(b, "number_inference") = value.string
      BY <1>8, <2>4
    <3>2. u.number_decimal = (value.string = "decimal")
      BY <1>3, <1>7, <1>10, <2>4
    <3> QED
      BY <2>1, <2>2, <2>3, <3>1, <3>2 DEF FollowsNumber
  <2>5. CASE key # "number_inference"
    <3>1. AskedText(b, "number_inference") = AskedText(a, "number_inference")
      BY <1>8, <2>5
    <3>2. u.number_decimal = w.number_decimal
      BY <1>3, <1>10, <2>5 DEF StatementFields
    <3> QED
      BY <2>1, <2>2, <2>3, <3>1, <3>2 DEF FollowsNumber
  <2> QED
    BY <2>4, <2>5
<1>14. FollowsSample(u, b)
  <2>1. CASE key = "sample_size"
    <3>1. u.sample_size = v
      BY <1>3, <1>10, <2>1
    <3> QED
      BY <1>4, <1>9, <2>1, <3>1 DEF FollowsSample
  <2>2. CASE key # "sample_size"
    <3>1. u.sample_size = w.sample_size
      BY <1>3, <1>10, <2>2 DEF StatementFields
    <3> QED
      BY <2>2, <3>1, SampleWith DEF Follows, b
  <2> QED
    BY <2>1, <2>2
<1>15. Follows(u, b)
  BY <1>11, <1>12, <1>13, <1>14 DEF Follows
<1> QED
  BY <1>2, <1>15 DEF b, key, value

LEMMA DecimalFollows ==
  ASSUME NEW w, StatementTyped(w), NEW a, Follows(w, a), NEW value
  PROVE  Follows(StatementWith(w, "decimal", value), With(a, "decimal", value))
<1> DEFINE p == value.string[1]
           q == value.string[2]
           u == WroteDecimal(w, p, q)
           b == With(a, "decimal", value)
<1>1. StatementWith(w, "decimal", value) = u
  BY Arms DEF Keys
<1>2. \A j : AskedText(b, j) = IF j = "decimal" THEN value.string ELSE AskedText(a, j)
  BY TextWith
<1> HIDE DEF p, q, b
<1>3. /\ u.decimal_precision = p /\ u.decimal_scale = q
      /\ \A f \in StatementFields \ {"decimal_precision", "decimal_scale"} : u[f] = w[f]
  BY DEF StatementTyped, StatementFields, WroteDecimal
<1> HIDE DEF u
<1>4. FollowsTexts(u, b)
  <2> SUFFICES ASSUME NEW f \in AsWritten PROVE u[f] = AskedText(b, f)
    BY DEF FollowsTexts
  <2>1. u[f] = w[f] /\ AskedText(b, f) = AskedText(a, f)
    BY <1>2, <1>3 DEF AsWritten, StatementFields
  <2> QED
    BY <2>1 DEF Follows, FollowsTexts
<1>5. FollowsToggles(u, b)
  <2> SUFFICES ASSUME NEW f \in Toggles PROVE u[f] = AskedOn(b, f)
    BY DEF FollowsToggles
  <2>1. u[f] = w[f] /\ AskedText(b, f) = AskedText(a, f)
    BY <1>2, <1>3 DEF Toggles, StatementFields
  <2>2. w[f] = AskedOn(a, f)
    BY DEF Follows, FollowsToggles
  <2> QED
    BY <2>1, <2>2 DEF AskedOn
<1>6. FollowsNumber(u, b)
  <2>1. u.number_decimal = w.number_decimal
    BY <1>3 DEF StatementFields
  <2>2. AskedText(b, "number_inference") = AskedText(a, "number_inference")
    BY <1>2
  <2>3. AskedText(b, "decimal")[1] = p /\ AskedText(b, "decimal")[2] = q
    BY <1>2 DEF p, q
  <2>4. FollowsNumber(w, a)
    BY DEF Follows
  <2> QED
    BY <1>3, <2>1, <2>2, <2>3, <2>4 DEF FollowsNumber
<1>7. FollowsSample(u, b)
  <2>1. u.sample_size = w.sample_size
    BY <1>3 DEF StatementFields
  <2> QED
    BY <2>1, SampleWith DEF Follows, b
<1>8. Follows(u, b)
  BY <1>4, <1>5, <1>6, <1>7 DEF Follows
<1> QED
  BY <1>1, <1>8 DEF b

LEMMA OptionFollows ==
  ASSUME NEW w, StatementTyped(w), NEW a, Follows(w, a), NEW o \in StatementOptions,
         StatementAccepts(o[1], o[2])
  PROVE  Follows(StatementWith(w, o[1], o[2]), With(a, o[1], o[2]))
<1>1. CASE o[1] = "decimal"
  BY <1>1, DecimalFollows
<1>2. CASE o[1] # "decimal"
  BY <1>2, ArmFollows
<1> QED
  BY <1>1, <1>2

LEMMA QueryFollows ==
  ASSUME NEW w, StatementTyped(w), NEW a, Follows(w, a), NEW q
  PROVE  Follows([w EXCEPT !.query = q], With(a, "query", Str(q)))
<1> DEFINE u == [w EXCEPT !.query = q]
           b == With(a, "query", Str(q))
<1>1. \A j : AskedText(b, j) = IF j = "query" THEN q ELSE AskedText(a, j)
  <2>1. Str(q).string = q
    BY DEF Str
  <2> QED
    BY <2>1, TextWith
<1> HIDE DEF b
<1>2. u.query = q /\ \A f \in StatementFields \ {"query"} : u[f] = w[f]
  BY DEF StatementTyped, StatementFields
<1> HIDE DEF u
<1>3. FollowsTexts(u, b)
  <2> SUFFICES ASSUME NEW f \in AsWritten PROVE u[f] = AskedText(b, f)
    BY DEF FollowsTexts
  <2>1. CASE f = "query"
    BY <1>1, <1>2, <2>1
  <2>2. CASE f # "query"
    <3>1. u[f] = w[f] /\ AskedText(b, f) = AskedText(a, f)
      BY <1>1, <1>2, <2>2 DEF AsWritten, StatementFields
    <3> QED
      BY <3>1 DEF Follows, FollowsTexts
  <2> QED
    BY <2>1, <2>2
<1>4. FollowsToggles(u, b)
  <2> SUFFICES ASSUME NEW f \in Toggles PROVE u[f] = AskedOn(b, f)
    BY DEF FollowsToggles
  <2>1. u[f] = w[f] /\ AskedText(b, f) = AskedText(a, f)
    BY <1>1, <1>2 DEF Toggles, StatementFields
  <2>2. w[f] = AskedOn(a, f)
    BY DEF Follows, FollowsToggles
  <2> QED
    BY <2>1, <2>2 DEF AskedOn
<1>5. FollowsNumber(u, b)
  <2>1. /\ u.number_decimal = w.number_decimal
        /\ u.decimal_precision = w.decimal_precision /\ u.decimal_scale = w.decimal_scale
    BY <1>2 DEF StatementFields
  <2>2. /\ AskedText(b, "number_inference") = AskedText(a, "number_inference")
        /\ AskedText(b, "decimal") = AskedText(a, "decimal")
    BY <1>1
  <2>3. FollowsNumber(w, a)
    BY DEF Follows
  <2> QED
    BY <2>1, <2>2, <2>3 DEF FollowsNumber
<1>6. FollowsSample(u, b)
  <2>1. u.sample_size = w.sample_size
    BY <1>2 DEF StatementFields
  <2> QED
    BY <2>1, SampleWith DEF Follows, b
<1>7. Follows(u, b)
  BY <1>3, <1>4, <1>5, <1>6 DEF Follows
<1> QED
  BY <1>7 DEF u, b

(* A statement that follows runs with what was asked for. *)
LEMMA FollowsEffective ==
  ASSUME NEW w, StatementTyped(w), NEW a, Follows(w, a)
  PROVE  Effective(w) = AskedStatement(a)
<1>1. SampleOf(w) = AskedSample(a)
  BY DEF Follows, FollowsSample, SampleOf, AskedSample, Default
<1>2. NumberMode(w) = AskedNumber(a)
  BY DEF Follows, FollowsNumber, NumberMode, AskedNumber
<1>3. /\ w.dialect = AskedText(a, "dialect") /\ w.output = AskedText(a, "output")
      /\ w.container = AskedText(a, "container") /\ w.database = AskedText(a, "database")
      /\ w.epoch_fields = AskedText(a, "epoch_fields")
      /\ w.heterogeneous = AskedText(a, "heterogeneous")
  BY DEF Follows, FollowsTexts, AsWritten
<1>4. /\ w.infer_temporal = AskedOn(a, "infer_temporal")
      /\ w.pushdown_count = AskedOn(a, "pushdown_count")
      /\ w.pushdown_avg = AskedOn(a, "pushdown_avg")
      /\ w.pushdown_sort = AskedOn(a, "pushdown_sort")
      /\ w.pushdown_multi_sort = AskedOn(a, "pushdown_multi_sort")
  BY DEF Follows, FollowsToggles, Toggles
<1> QED
  BY <1>1, <1>2, <1>3, <1>4 DEF Effective, AskedStatement
----------------------------------------------------------------------------
(* The history of a connection has nothing but its database, so that a new *)
(* statement that takes it over has the defaults of everything else.       *)
ScopeOK(a, database) ==
  /\ DOMAIN a \subseteq {"database"}
  /\ "database" \in DOMAIN a => IsString(a["database"])
  /\ database = AskedText(a, "database")

HistoryOK ==
  /\ asked = [x \in Callers |-> asked[x]]
  /\ \A n \in Connections : client[n] # Unset => ScopeOK(asked[n], current[n])
  /\ \A s \in Statements : stmt[s] # Unset => Follows(stmt[s], asked[s])

HInv == TInv /\ HistoryOK

LEMMA NewFollows ==
  ASSUME NEW n, NEW a, ScopeOK(a, current[n])
  PROVE  Follows(NewStatementState(n), a)
<1> DEFINE w == NewStatementState(n)
<1>1. /\ w.database = current[n] /\ w.container = Unset /\ w.query = Unset
      /\ w.dialect = "native" /\ w.output = "json" /\ w.epoch_fields = {}
      /\ w.heterogeneous = "string"
  BY DEF NewStatementState
<1>2. /\ w.number_decimal = FALSE /\ w.infer_temporal = FALSE
      /\ w.pushdown_count = TRUE /\ w.pushdown_avg = FALSE
      /\ w.pushdown_sort = TRUE /\ w.pushdown_multi_sort = FALSE
  BY DEF NewStatementState
<1>3. w.decimal_precision = 38 /\ w.decimal_scale = 9 /\ w.sample_size = Unset
  BY DEF NewStatementState
<1> HIDE DEF w
<1>4. \A f : f # "database" => f \notin DOMAIN a /\ AskedText(a, f) = Default[f]
  BY DEF ScopeOK, AskedText
<1>5. FollowsTexts(w, a)
  BY <1>1, <1>4 DEF FollowsTexts, AsWritten, Default, ScopeOK
<1>6. FollowsToggles(w, a)
  <2>1. /\ IsOn("on") = TRUE /\ IsOn("off") = FALSE
    BY DEF IsOn
  <2>2. /\ AskedText(a, "infer_temporal") = "off" /\ AskedText(a, "pushdown_count") = "on"
        /\ AskedText(a, "pushdown_avg") = "off" /\ AskedText(a, "pushdown_sort") = "on"
        /\ AskedText(a, "pushdown_multi_sort") = "off"
    BY <1>4 DEF Default
  <2>3. /\ AskedOn(a, "infer_temporal") = FALSE /\ AskedOn(a, "pushdown_count") = TRUE
        /\ AskedOn(a, "pushdown_avg") = FALSE /\ AskedOn(a, "pushdown_sort") = TRUE
        /\ AskedOn(a, "pushdown_multi_sort") = FALSE
    BY <2>1, <2>2 DEF AskedOn
  <2> QED
    BY <1>2, <2>3 DEF FollowsToggles, Toggles
<1>7. FollowsNumber(w, a)
  <2>1. AskedText(a, "number_inference") = "float64" /\ AskedText(a, "decimal") = <<38, 9>>
    BY <1>4 DEF Default
  <2>2. AskedText(a, "decimal")[1] = 38 /\ AskedText(a, "decimal")[2] = 9
    BY <2>1
  <2>3. w.number_decimal = (AskedText(a, "number_inference") = "decimal")
    BY <1>2, <2>1
  <2> QED
    BY <1>3, <2>2, <2>3 DEF FollowsNumber
<1>8. FollowsSample(w, a)
  BY <1>3, <1>4 DEF FollowsSample
<1> QED
  BY <1>5, <1>6, <1>7, <1>8 DEF Follows, w

LEMMA ScopeWith ==
  ASSUME NEW a, DOMAIN a \subseteq {"database"}, NEW value, IsString(value)
  PROVE  ScopeOK(With(a, "database", value), value.string)
<1>1. AskedText(With(a, "database", value), "database") = value.string
  BY TextWith
<1>2. /\ DOMAIN With(a, "database", value) \subseteq {"database"}
      /\ With(a, "database", value)["database"] = value
  BY DEF With
<1> QED
  BY <1>1, <1>2 DEF ScopeOK

(* The connection's list: the last option of it that was taken is the last *)
(* that was asked for, since all were taken.                               *)
LEMMA NewScope ==
  ASSUME NEW options \in OptionLists(ConnectionOptions), ConnectionTakes(options)
  PROVE  ScopeOK(AskedOf(options), CurrentAfter(config.database, options))
<1>1. DOMAIN NothingAsked \subseteq {"database"} /\ NothingAsked = [k \in {} |-> Unset]
  BY DEF NothingAsked
<1>2. CASE options # <<>>
  <2>1. PICK n \in Nat : options \in [1 .. n -> ConnectionOptions]
    BY DEF OptionLists, BoundedSeq, SeqOf
  <2>2. options \in Seq(ConnectionOptions) /\ Len(options) = n /\ n # 0
    BY <1>2, <2>1
  <2>3. Last(options) = options[n] /\ n \in DOMAIN options
    BY <2>1, <2>2 DEF Last
  <2>4. IsString(Last(options)[2])
    BY <2>3 DEF ConnectionTakes, ConnectionAccepts
  <2>5. ScopeOK(With(NothingAsked, "database", Last(options)[2]), Last(options)[2].string)
    BY <1>1, <2>4, ScopeWith
  <2> QED
    BY <1>2, <2>5 DEF AskedOf, CurrentAfter
<1>3. CASE options = <<>> /\ config.database # Unset
  <2>1. IsString(Str(config.database)) /\ Str(config.database).string = config.database
    BY DEF IsString, Str
  <2>2. ScopeOK(With(NothingAsked, "database", Str(config.database)), config.database)
    BY <1>1, <2>1, ScopeWith
  <2> QED
    BY <1>3, <2>2 DEF AskedOf, CurrentAfter
<1>4. CASE options = <<>> /\ config.database = Unset
  <2>1. ScopeOK(NothingAsked, Unset)
    BY <1>1 DEF ScopeOK, AskedText, Default
  <2> QED
    BY <1>4, <2>1 DEF AskedOf, CurrentAfter
<1> QED
  BY <1>2, <1>3, <1>4

LEMMA InitHistory == HInit => HInv
<1> SUFFICES ASSUME HInit PROVE HInv
  OBVIOUS
<1>1. TInv
  BY InitTyped DEF HInit
<1>2. HistoryOK
  BY DEF HInit, Init, HistoryOK
<1> QED
  BY <1>1, <1>2 DEF HInv

LEMMA HistoryStep == [HNext]_<<vars, asked>> => [Next]_vars
<1> SUFFICES ASSUME HNext PROVE Next
  OBVIOUS
<1>1. CASE Asking
  BY <1>1 DEF Asking, Next, Configure
<1>2. CASE NotAsking
  BY <1>2 DEF NotAsking, Next, Configure
<1> QED
  BY <1>1, <1>2 DEF HNext

LEMMA AskingStep ==
  ASSUME HInv, Asking
  PROVE  HistoryOK'
<1>1. /\ asked = [x \in Callers |-> asked[x]]
      /\ stmt = [s \in Statements |-> stmt[s]]
      /\ client = [n \in Connections |-> client[n]]
      /\ current = [n \in Connections |-> current[n]]
      /\ \A n \in Connections : client[n] # Unset => ScopeOK(asked[n], current[n])
      /\ \A s \in Statements : stmt[s] # Unset =>
           StatementTyped(stmt[s]) /\ Follows(stmt[s], asked[s])
  BY DEF HInv, TInv, IInv, StatementsOK, ConfigsTyped, HistoryOK, StatementsTyped
<1>2. ASSUME NEW n \in Connections, NEW l \in OptionLists(ConnectionOptions),
             NewConnection(n, l), asked' = [asked EXCEPT ![n] = AskedOf(l)]
      PROVE  HistoryOK'
  <2>1. ScopeOK(AskedOf(l), CurrentAfter(config.database, l))
    BY <1>2, NewScope DEF NewConnection
  <2>2. /\ current' = [current EXCEPT ![n] = CurrentAfter(config.database, l)]
        /\ \E c : client' = [client EXCEPT ![n] = c]
        /\ stmt' = stmt
    BY <1>2 DEF NewConnection
  <2> QED
    BY <1>1, <1>2, <2>1, <2>2, DisjointAssumption DEF HistoryOK, Callers
<1>3. ASSUME NEW n \in Connections, NEW o \in ConnectionOptions,
             SetConnectionOption(n, o[1], o[2]), Ask(n, "database", o[2])
      PROVE  HistoryOK'
  <2>1. client[n] # Unset /\ IsString(o[2])
    BY <1>3 DEF SetConnectionOption, ConnectionAccepts
  <2>2. ScopeOK(With(asked[n], "database", o[2]), o[2].string)
    BY <1>1, <2>1, ScopeWith DEF ScopeOK
  <2>3. current' = [current EXCEPT ![n] = o[2].string]
    BY <1>3 DEF SetConnectionOption, CurrentAfter, Last
  <2>4. /\ asked' = [asked EXCEPT ![n] = With(asked[n], "database", o[2])]
        /\ client' = client /\ stmt' = stmt
    BY <1>3 DEF SetConnectionOption, Ask
  <2> QED
    BY <1>1, <2>1, <2>2, <2>3, <2>4, DisjointAssumption DEF HistoryOK, Callers
<1>4. ASSUME NEW n \in Connections, NEW s \in Statements, NewStatement(n, s),
             asked' = [asked EXCEPT ![s] = asked[n]]
      PROVE  HistoryOK'
  <2>1. /\ client[n] # Unset /\ client' = client /\ current' = current
        /\ stmt' = [stmt EXCEPT ![s] = NewStatementState(n)]
    BY <1>4 DEF NewStatement
  <2>2. Follows(NewStatementState(n), asked[n])
    BY <1>1, <2>1, NewFollows
  <2> QED
    BY <1>1, <1>4, <2>1, <2>2, DisjointAssumption DEF HistoryOK, Callers
<1>5. ASSUME NEW s \in Statements, NEW w, NEW a, Follows(w, a),
             stmt' = [stmt EXCEPT ![s] = w], asked' = [asked EXCEPT ![s] = a],
             UNCHANGED <<client, current>>
      PROVE  HistoryOK'
  BY <1>1, <1>5, DisjointAssumption DEF HistoryOK, Callers
<1>6. ASSUME NEW s \in Statements, NEW o \in StatementOptions,
             SetStatementOption(s, o[1], o[2]), Ask(s, o[1], o[2])
      PROVE  HistoryOK'
  <2>1. /\ stmt[s] # Unset /\ StatementAccepts(o[1], o[2])
        /\ stmt' = [stmt EXCEPT ![s] = StatementWith(stmt[s], o[1], o[2])]
        /\ asked' = [asked EXCEPT ![s] = With(asked[s], o[1], o[2])]
        /\ UNCHANGED <<client, current>>
    BY <1>6 DEF SetStatementOption, Ask
  <2>2. Follows(StatementWith(stmt[s], o[1], o[2]), With(asked[s], o[1], o[2]))
    BY <1>1, <2>1, OptionFollows
  <2> QED
    BY <1>5, <2>1, <2>2
<1>7. ASSUME NEW s \in Statements, NEW q \in Queries, SetSqlQuery(s, q), Ask(s, "query", Str(q))
      PROVE  HistoryOK'
  <2> DEFINE w == [stmt[s] EXCEPT !.query = q]
             a == With(asked[s], "query", Str(q))
  <2>1. /\ stmt[s] # Unset
        /\ stmt' = [stmt EXCEPT ![s] = w]
        /\ asked' = [asked EXCEPT ![s] = a]
        /\ UNCHANGED <<client, current>>
    BY <1>7 DEF SetSqlQuery, Ask
  <2>2. Follows(w, a)
    BY <1>1, <2>1, QueryFollows
  <2> HIDE DEF w, a
  <2> QED
    BY <1>5, <2>1, <2>2
<1> QED
  BY <1>2, <1>3, <1>4, <1>6, <1>7 DEF Asking

LEMMA NotAskingStep ==
  ASSUME HInv, NotAsking
  PROVE  HistoryOK'
<1>1. UNCHANGED <<client, current, stmt, asked>>
  <2>1. CASE Begin
    BY <2>1 DEF NotAsking, Begin, Execute, ExecuteRefused, GetTableSchema,
       GetTableSchemaRefused, Starts
  <2>2. CASE \E x \in Callers : Continue(x)
    BY <2>2 DEF NotAsking, Continue, Hit, Miss, SampleDocs, SampleEmpty, Insert, Resolved,
       Answered, Fails
  <2> QED
    BY <2>1, <2>2 DEF NotAsking, SetDatabaseOption, NewConnectionFails, RefuseOption
<1> QED
  BY <1>1 DEF HInv, HistoryOK

LEMMA NextHistory == HInv /\ [HNext]_<<vars, asked>> => HInv'
<1> SUFFICES ASSUME HInv, [HNext]_<<vars, asked>> PROVE HInv'
  OBVIOUS
<1>1. TInv'
  BY HistoryStep, NextTyped DEF HInv
<1>2. HistoryOK'
  <2>1. CASE UNCHANGED <<vars, asked>>
    BY <2>1 DEF HInv, HistoryOK, vars
  <2> QED
    BY <2>1, AskingStep, NotAskingStep DEF HNext
<1> QED
  BY <1>1, <1>2 DEF HInv

LEMMA HistoryAsAsked == HInv => AsAsked
<1> SUFFICES ASSUME HInv PROVE AsAsked
  OBVIOUS
<1>1. ASSUME NEW n \in Connections, client[n] # Unset
      PROVE  /\ "database" \in DOMAIN asked[n] => IsString(asked[n]["database"])
             /\ current[n] = AskedText(asked[n], "database")
  BY <1>1 DEF HInv, HistoryOK, ScopeOK
<1>2. ASSUME NEW s \in Statements, stmt[s] # Unset
      PROVE  /\ Effective(stmt[s]) = AskedStatement(asked[s])
             /\ stmt[s].query = AskedText(asked[s], "query")
             /\ ~IsIdle(s) => job[s].database = AskedText(asked[s], "database")
  <2>1. StatementTyped(stmt[s]) /\ Follows(stmt[s], asked[s])
    BY <1>2 DEF HInv, HistoryOK, TInv, StatementsTyped
  <2>2. /\ stmt[s].query = AskedText(asked[s], "query")
        /\ stmt[s].database = AskedText(asked[s], "database")
    BY <2>1 DEF Follows, FollowsTexts, AsWritten
  <2>3. ~IsIdle(s) => job[s].database = stmt[s].database
    BY DEF HInv, TInv, IInv, JobsOK, WorkOK, IsIdle, Callers
  <2> QED
    BY <2>1, <2>2, <2>3, FollowsEffective
<1> QED
  BY <1>1, <1>2 DEF AsAsked

(* Every object does what was last asked of it, option by option, whatever *)
(* was asked in between and refused, for all options and option values.    *)
THEOREM AlwaysAsAsked == HSpec => []AsAsked
<1> QED
  BY InitHistory, NextHistory, HistoryAsAsked, PTL DEF HSpec
=============================================================================
