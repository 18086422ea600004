----------------------------- MODULE Metadata -----------------------------
(***************************************************************************)
(* get_objects of one connection (metadata.rs): what its readers list of   *)
(* an account that other clients change meanwhile, through a service that  *)
(* may refuse any request, and what they leave in the connection's cache.  *)
(*                                                                         *)
(* driverbase walks the levels and calls CosmosGetObjects at each: the     *)
(* databases, the one empty schema, the containers, and at the deepest     *)
(* level the columns of every container, each from the cache or a sample.  *)
(* Names are sequences of characters, because LIKE looks into them.  A     *)
(* container stands for the set of fields of its documents.                *)
(***************************************************************************)
EXTENDS Integers, Sequences

CONSTANTS
  Readers,      \* threads that call get_objects
  Databases, Containers,    \* names there may be
  NameOrder,    \* all names, in the order of sort()
  FieldSets,    \* what containers may hold, {} when there is no document
  Start,        \* what there is at first
  Calls,        \* the arguments that each reader may call with
  Changes,      \* how often the account changes (a bound)
  None,         \* no filter; no key
  Absent        \* a container that does not exist

Keys == Databases \X Containers

ASSUME StartAssumption ==
  /\ Start \in [Keys -> FieldSets \cup {Absent}]
  /\ Absent \notin FieldSets \cup {{}}
ASSUME ChangesAssumption == Changes \in Nat

VARIABLES
  live,       \* the account
  changes,    \* how often it changed
  cache,      \* the connection's cache: a partial function of keys
  reader,     \* the readers' calls
  seen,       \* history: containers that existed at some time of the call
  stayed,     \* history: containers that existed all the time of the call
  held        \* history: the field sets a container ever had

vars == <<live, changes, cache, reader, seen, stayed, held>>
----------------------------------------------------------------------------
(* LIKE. *)

(* like_to_regex reads the pattern from left to right.  A backslash that is *)
(* not itself escaped takes the next character with it.                    *)
Escaped(pattern) ==
  LET escaped[i \in 0 .. Len(pattern)] ==
        i > 1 /\ pattern[i - 1] = "\\" /\ ~escaped[i - 1]
  IN  escaped

(* What each character of a pattern adds to the regex; a backslash by      *)
(* itself, also one that has no next character to take, adds nothing.      *)
Token(c) ==
  CASE c = "%" -> <<"run">>
    [] c = "_" -> <<"one">>
    [] c = "\\" -> <<"nothing">>
    [] OTHER -> <<"char", c>>

(* A plausible bug: an escaped character keeps its special meaning. *)
RegexEscapeLost(pattern) == [i \in 1 .. Len(pattern) |-> Token(pattern[i])]

Regex(pattern) ==
  [i \in 1 .. Len(pattern) |->
     IF Escaped(pattern)[i] THEN <<"char", pattern[i]>> ELSE Token(pattern[i])]

(* The regex crate: where in the name the tokens so far may end.  "." is   *)
(* no newline.                                                             *)
Plain(name, p, q) == \A i \in p + 1 .. q : name[i] # "\n"

After(name, at, token) ==
  CASE token[1] = "run" ->
         {q \in 0 .. Len(name) : \E p \in at : p <= q /\ Plain(name, p, q)}
    [] token[1] = "one" ->
         {q \in 1 .. Len(name) : q - 1 \in at /\ name[q] # "\n"}
    [] token[1] = "char" ->
         {q \in 1 .. Len(name) : q - 1 \in at /\ name[q] = token[2]}
    [] token[1] = "nothing" -> at

Ends(regex, name) ==
  LET ends[i \in 0 .. Len(regex)] ==
        IF i = 0 THEN {0} ELSE After(name, ends[i - 1], regex[i])
  IN  ends

IsMatch(regex, name) == Len(name) \in Ends(regex, name)[Len(regex)]

Retain(names, filter) ==
  IF filter = None THEN names ELSE {n \in names : IsMatch(Regex(filter), n)}

(* What metadata.rs:190 says a pattern means.  Of the backslashes in a row *)
(* every other escapes what comes next.                                    *)
TakenLiterally(pattern, i) ==
  \E j \in 1 .. i - 1 :
    /\ (i - j) % 2 = 1
    /\ \A m \in j .. i - 1 : pattern[m] = "\\"
    /\ j > 1 => pattern[j - 1] # "\\"

(* A character of the pattern stands for the part of a name from p to q:   *)
(* '%' for any run, '_' for any character, one that is escaped, and any    *)
(* other, for itself; a backslash for none, but there is a next character. *)
StandsFor(pattern, i, name, p, q) ==
  LET One == q = p + 1
      c == pattern[i]
  IN  IF TakenLiterally(pattern, i) THEN One /\ name[q] = c
      ELSE CASE c = "%" -> p <= q
             [] c = "_" -> One
             [] c = "\\" -> p = q /\ i < Len(pattern)
             [] OTHER -> One /\ name[q] = c

(* A name fits when it can be cut into such parts. *)
Like(pattern, name) ==
  \E cut \in [0 .. Len(pattern) -> 0 .. Len(name)] :
    /\ cut[0] = 0 /\ cut[Len(pattern)] = Len(name)
    /\ \A i \in 1 .. Len(pattern) : StandsFor(pattern, i, name, cut[i - 1], cut[i])

Fits(filter, name) == filter = None \/ Like(filter, name)

(* The filters and names of which metadata.rs:190 says what fits: patterns *)
(* that do not end in a backslash that escapes nothing, names of one line. *)
WellFormed(pattern) ==
  /\ pattern \in Seq(STRING)
  /\ pattern # <<>> /\ pattern[Len(pattern)] = "\\" => TakenLiterally(pattern, Len(pattern))

OneLine(name) == name \in Seq(STRING) /\ \A i \in 1 .. Len(name) : name[i] # "\n"

Filters(call) == {call.catalog, call.schema, call.table, call.column} \ {None}

ASSUME FiltersAssumption ==
  \A r \in Readers : \A call \in Calls[r] : \A filter \in Filters(call) : WellFormed(filter)

ASSUME NamesAssumption ==
  /\ NameOrder \in Seq(Seq(STRING))
  /\ \A name \in Databases \cup Containers \cup UNION FieldSets : OneLine(name)
  /\ \A name \in Databases \cup Containers :
       \E i \in 1 .. Len(NameOrder) : NameOrder[i] = name
----------------------------------------------------------------------------
(* Readers. *)

(* The first of some names in the order of sort(). *)
First(names) ==
  NameOrder[CHOOSE i \in 1 .. Len(NameOrder) :
              NameOrder[i] \in names /\ \A j \in 1 .. i - 1 : NameOrder[j] \notin names]

Existing == {k \in Keys : live[k] # Absent}

NoCall == [depth |-> "none"]

(* A call: what of it is still to be walked, and what it has listed: paths *)
(* of a database, a database and a container, or those and its columns.    *)
Begun(step, call) ==
  [step |-> step, call |-> call, catalogs |-> {}, tables |-> {},
   fields |-> {}, listed |-> {}]

Busy(r) == reader[r].step \notin {"idle", "done", "failed"}

Catalog(r) == First(reader[r].catalogs)
Table(r) == First(reader[r].tables)
KeyOf(r) == <<Catalog(r), Table(r)>>

Init ==
  /\ live = Start
  /\ changes = 0
  /\ cache = [k \in {} |-> {}]
  /\ reader = [r \in Readers |-> Begun("idle", NoCall)]
  /\ seen = [r \in Readers |-> {}]
  /\ stayed = [r \in Readers |-> {}]
  /\ held = [k \in Keys |-> {Start[k]}]

GetObjects(r, call) ==
  /\ ~Busy(r)
  /\ reader' = [reader EXCEPT ![r] = Begun("catalogs", call)]
  /\ seen' = [seen EXCEPT ![r] = Existing]
  /\ stayed' = [stayed EXCEPT ![r] = Existing]
  /\ UNCHANGED <<live, changes, cache, held>>

Unseen == <<live, changes, seen, stayed, held>>

GetCatalogs(r) ==
  LET names == Retain(Databases, reader[r].call.catalog)
  IN  /\ reader[r].step = "catalogs"
      /\ reader' = [reader EXCEPT ![r].step = "schemas", ![r].catalogs = names,
                                  ![r].listed = {<<n>> : n \in names}]
      /\ UNCHANGED <<Unseen, cache>>

(* The schema level holds one empty name; below it is what is asked for. *)
GetDbSchemas(r) ==
  LET call == reader[r].call
  IN  /\ reader[r].step = "schemas"
      /\ reader[r].catalogs # {}
      /\ IF call.depth \in {"tables", "columns"} /\ Retain({<<>>}, call.schema) # {}
         THEN reader' = [reader EXCEPT ![r].step = "tables"]
         ELSE reader' = [reader EXCEPT ![r].catalogs = @ \ {Catalog(r)}]
      /\ UNCHANGED <<Unseen, cache>>

Finish(r) ==
  /\ reader[r].step = "schemas"
  /\ reader[r].catalogs = {}
  /\ reader' = [reader EXCEPT ![r].step = "done"]
  /\ UNCHANGED <<Unseen, cache>>

WantsTables(call) == call.types # None => "table" \in call.types

GetTables(r) ==
  LET call == reader[r].call
      there == {t \in Containers : live[<<Catalog(r), t>>] # Absent}
      names == IF WantsTables(call) THEN Retain(there, call.table) ELSE {}
  IN  /\ reader[r].step = "tables"
      /\ IF call.depth = "columns"
         THEN reader' = [reader EXCEPT ![r].step = "columns", ![r].tables = names]
         ELSE reader' = [reader EXCEPT ![r].step = "schemas", ![r].catalogs = @ \ {Catalog(r)},
                           ![r].listed = @ \cup {<<Catalog(r), t>> : t \in names}]
      /\ UNCHANGED <<Unseen, cache>>

(* The columns of the next container are known: on to the one after it. *)
Listed(r, fields) ==
  LET columns == Retain(fields, reader[r].call.column)
  IN  reader' = [reader EXCEPT ![r].step = "columns", ![r].tables = @ \ {Table(r)},
                               ![r].fields = {},
                               ![r].listed = @ \cup {<<Catalog(r), Table(r), columns>>}]

LookUp(r) ==
  /\ reader[r].step = "columns"
  /\ reader[r].tables # {}
  /\ IF KeyOf(r) \in DOMAIN cache
     THEN Listed(r, cache[KeyOf(r)])
     ELSE reader' = [reader EXCEPT ![r].step = "sampling"]
  /\ UNCHANGED <<Unseen, cache>>

SampleDocs(r) ==
  /\ reader[r].step = "sampling"
  /\ live[KeyOf(r)] \notin {{}, Absent}
  /\ reader' = [reader EXCEPT ![r].step = "inserting", ![r].fields = live[KeyOf(r)]]
  /\ UNCHANGED <<Unseen, cache>>

(* A plausible bug: an empty container is remembered as one. *)
SampleEmptyCached(r) ==
  /\ reader[r].step = "sampling"
  /\ live[KeyOf(r)] = {}
  /\ Listed(r, {})
  /\ cache' = [k \in DOMAIN cache \cup {KeyOf(r)} |-> IF k = KeyOf(r) THEN {} ELSE cache[k]]
  /\ UNCHANGED <<Unseen>>

(* An empty container has no columns, and nothing is remembered of it. *)
SampleEmpty(r) ==
  /\ reader[r].step = "sampling"
  /\ live[KeyOf(r)] = {}
  /\ Listed(r, {})
  /\ UNCHANGED <<Unseen, cache>>

(* A plausible bug: a listing keeps the schemas to itself. *)
InsertNothing(r) ==
  /\ reader[r].step = "inserting"
  /\ Listed(r, reader[r].fields)
  /\ UNCHANGED <<Unseen, cache>>

Insert(r) ==
  /\ reader[r].step = "inserting"
  /\ Listed(r, reader[r].fields)
  /\ cache' = [k \in DOMAIN cache \cup {KeyOf(r)} |->
                 IF k = KeyOf(r) THEN reader[r].fields ELSE cache[k]]
  /\ UNCHANGED <<Unseen>>

TablesEnd(r) ==
  /\ reader[r].step = "columns"
  /\ reader[r].tables = {}
  /\ reader' = [reader EXCEPT ![r].step = "schemas", ![r].catalogs = @ \ {Catalog(r)}]
  /\ UNCHANGED <<Unseen, cache>>

(* Any request may fail, a sample also because its container is gone; the  *)
(* whole call is an error then.                                            *)
Refused(r) ==
  /\ \/ reader[r].step \in {"catalogs", "sampling"}
     \/ reader[r].step = "tables" /\ WantsTables(reader[r].call)
  /\ reader' = [reader EXCEPT ![r] = Begun("failed", NoCall)]
  /\ seen' = [seen EXCEPT ![r] = {}]
  /\ stayed' = [stayed EXCEPT ![r] = {}]
  /\ UNCHANGED <<live, changes, cache, held>>

(* Other clients create, fill, empty and drop containers. *)
Change(k, what) ==
  /\ changes < Changes
  /\ what # live[k]
  /\ changes' = changes + 1
  /\ live' = [live EXCEPT ![k] = what]
  /\ held' = [held EXCEPT ![k] = @ \cup {what}]
  /\ seen' = [r \in Readers |->
                IF Busy(r) /\ what # Absent THEN seen[r] \cup {k} ELSE seen[r]]
  /\ stayed' = [r \in Readers |->
                  IF Busy(r) /\ what = Absent THEN stayed[r] \ {k} ELSE stayed[r]]
  /\ UNCHANGED <<cache, reader>>

(* What a reader does without asking anybody, and what it hears. *)
OwnStep(r) == GetDbSchemas(r) \/ Finish(r) \/ LookUp(r) \/ Insert(r) \/ TablesEnd(r)
Heard(r) == SampleDocs(r) \/ SampleEmpty(r)
Answered(r) == GetCatalogs(r) \/ GetTables(r) \/ Heard(r)

Next ==
  \/ \E r \in Readers :
       \/ \E call \in Calls[r] : GetObjects(r, call)
       \/ OwnStep(r) \/ Answered(r) \/ Refused(r)
  \/ \E k \in Keys, what \in FieldSets \cup {Absent} : Change(k, what)

(* A reader that has begun goes on, each request is answered or refused,   *)
(* and no request that is repeated for ever is refused for ever.  A client *)
(* whose call failed calls again.                                          *)
Fairness ==
  \A r \in Readers :
    /\ WF_vars(OwnStep(r) \/ Answered(r) \/ Refused(r))
    /\ SF_vars(GetCatalogs(r)) /\ SF_vars(Heard(r))
    /\ \A c \in Databases :
         SF_vars(reader[r].step = "tables" /\ Catalog(r) = c /\ GetTables(r))
    /\ WF_vars(reader[r].step = "failed" /\ \E call \in Calls[r] : GetObjects(r, call))

Spec == Init /\ [][Next]_vars /\ Fairness
----------------------------------------------------------------------------
(* Properties. *)

TypeOK ==
  /\ live \in [Keys -> FieldSets \cup {Absent}]
  /\ DOMAIN cache \subseteq Keys
  /\ \A k \in DOMAIN cache : cache[k] \in held[k] \ {{}, Absent}
  /\ \A r \in Readers :
       /\ reader[r].step \in {"columns", "sampling", "inserting"} =>
            reader[r].call.depth = "columns"
       /\ reader[r].step \in {"sampling", "inserting"} => KeyOf(r) \in Keys
       /\ reader[r].step = "failed" => reader[r].listed = {}

(* A listing that ends without an error is true of the account: at every   *)
(* level it names what fits the filters (as metadata.rs:190 explains LIKE), *)
(* no container that did not exist during the call, every one that existed *)
(* all the time, and under each columns it had at some time                *)
(* (metadata.rs:102-179).                                                  *)
ListsWhatIsThere ==
  \A r \in Readers : reader[r].step = "done" =>
    LET call == reader[r].call
        listed == reader[r].listed
        deep == /\ call.depth \in {"tables", "columns"}
                /\ Fits(call.schema, <<>>) /\ WantsTables(call)
        fitting == {k \in Keys : deep /\ Fits(call.catalog, k[1]) /\ Fits(call.table, k[2])}
        tables == {<<p[1], p[2]>> : p \in {q \in listed : Len(q) > 1}}
    IN  /\ {p[1] : p \in listed} = {d \in Databases : Fits(call.catalog, d)}
        /\ stayed[r] \cap fitting \subseteq tables
        /\ tables \subseteq seen[r] \cap fitting
        /\ \A p \in listed : Len(p) = 3 =>
             \E fields \in held[<<p[1], p[2]>>] \ {Absent} :
               p[3] = {f \in fields : Fits(call.column, f)}

(* As long as no container is empty, a client that repeats a failed        *)
(* listing gets through, although any request may fail again and again and *)
(* one failure spoils the whole listing (metadata.rs:168): a listing that  *)
(* fails keeps what it has sampled (metadata.rs:58), so every sample that  *)
(* is answered once is answered for good.                                  *)
RetriesGetThrough ==
  <>[](\A k \in Keys : live[k] # {}) =>
    \A r \in Readers : reader[r].step = "failed" ~> reader[r].step = "done"
=============================================================================
