---------------------------- MODULE SchemaCache ----------------------------
(***************************************************************************)
(* The schema cache one ADBC connection shares among its statements and    *)
(* its metadata calls (cosmos-datafusion/src/lib.rs, SchemaCache), and the *)
(* two code paths that read and fill it:                                   *)
(*                                                                         *)
(*   "table"          CosmosSchemaProvider::table, DataFusion's lookup of  *)
(*                    a table name while it plans a query;                 *)
(*   "sample_schema"  metadata::sample_schema, behind get_table_schema and *)
(*                    the column level of get_objects.                     *)
(*                                                                         *)
(* Both look the container up under the mutex and release it, sample the   *)
(* container without holding it, and take it again to insert.  So between  *)
(* a miss and the insert any other call may miss, sample and insert too,   *)
(* and writers change the container: each of these is a step of its own.   *)
(*                                                                         *)
(* A document is represented by what it holds at one field, a schema by    *)
(* the type it gives that field: that is what inference and decoding tell  *)
(* apart.  Other fields only repeat it.                                    *)
(***************************************************************************)
EXTENDS Integers, FiniteSets

CONSTANTS
  Callers,         \* threads that call into one connection
  Containers,      \* the cache's keys, (database, container) pairs
  Ids,             \* document ids (bound: a container holds at most one per id)
  Kinds,           \* the kinds of value writers store at the observed field
  SampleSize,      \* adbc.cosmos.sample_size of the statements
  MetadataSample   \* METADATA_SAMPLE_SIZE

(* What a document holds at the field: nothing, null, a JSON integer, a    *)
(* JSON number with a fraction, or a value no number can be read from.     *)
AllKinds == {"absent", "null", "int", "float", "str"}

ASSUME SizesAssumption == /\ SampleSize \in Nat \ {0}
                          /\ MetadataSample \in Nat \ {0}
ASSUME KindsAssumption == Kinds \subseteq AllKinds

Schemas == {"NoColumn", "Null", "Int64", "Float64", "Utf8"}
NoSchema == "NoSchema"      \* no entry under this key
NotFound == "NotFound"      \* table() returned Ok(None)
Failed   == "Failed"        \* the call returned Err
Gone     == "gone"          \* no document under this id

Paths == {"table", "sample_schema"}
NoPath == "NoPath"          \* between calls
NoKey  == "NoKey"

VARIABLES
  docs,     \* the containers' documents, held by the service
  cache,    \* the HashMap behind the connection's mutex
  pc,       \* where each caller's current call stands
  path,     \* the code path of that call
  key,      \* the container it asks for
  schema,   \* what it inferred, between its sample and its insert
  answer,   \* what the caller's last call returned
  served,   \* history: the schemas of all non-empty samples, by container
  fills     \* history: 0, 1 or 2 (= more than once): each caller's inserts per key

vars == <<docs, cache, pc, path, key, schema, answer, served, fills>>

----------------------------------------------------------------------------
(* Sampling and inference. *)

Live(k) == {i \in Ids : docs[k][i] # Gone}

Limit(p) == IF p = "table" THEN SampleSize ELSE MetadataSample

(* SELECT * FROM c OFFSET 0 LIMIT n names no order: any n documents, or    *)
(* all of them when there are fewer.                                       *)
Samples(k, n) ==
  {S \in SUBSET Live(k) :
     IF Cardinality(Live(k)) <= n THEN S = Live(k) ELSE Cardinality(S) = n}

(* convert::infer_schema, and inference::infer_schema for metadata: merge  *)
(* the sample's shapes, stringify where they conflict, infer with          *)
(* arrow-json.  A number beside a string is the conflict this field can    *)
(* show; integers and fractions are one shape and widen to Float64.        *)
InferSchema(kinds) ==
  LET seen == kinds \ {"absent"}
  IN  CASE seen = {}       -> "NoColumn"
        [] seen = {"null"} -> "Null"
        [] "str" \in seen  -> "Utf8"
        [] "float" \in seen /\ "str" \notin seen -> "Float64"
        [] OTHER -> "Int64"

SchemaOf(k, S) == InferSchema({docs[k][i] : i \in S})

----------------------------------------------------------------------------
Init ==
  /\ docs \in [Containers -> [Ids -> Kinds \cup {Gone}]]
  /\ cache = [k \in Containers |-> NoSchema]
  /\ pc = [c \in Callers |-> "idle"]
  /\ path = [c \in Callers |-> NoPath]
  /\ key = [c \in Callers |-> NoKey]
  /\ schema = [c \in Callers |-> NoSchema]
  /\ answer = [c \in Callers |-> NoSchema]
  /\ served = [k \in Containers |-> {}]
  /\ fills = [c \in Callers |-> [k \in Containers |-> 0]]

(* A call starts: p is the path, k the container.  The lookup is the first *)
(* thing it does, and the mutex is free again when the step ends.          *)
Starts(c, p, k) ==
  /\ pc[c] = "idle"
  /\ path' = [path EXCEPT ![c] = p]
  /\ key' = [key EXCEPT ![c] = k]

Hit(c, p, k) ==
  /\ Starts(c, p, k)
  /\ cache[k] # NoSchema
  /\ answer' = [answer EXCEPT ![c] = cache[k]]
  /\ pc' = [pc EXCEPT ![c] = "done"]
  /\ UNCHANGED <<docs, cache, schema, served, fills>>

(* A plausible bug: sampling on every call, as before there was a cache. *)
MissWithoutLookup(c, p, k) ==
  /\ Starts(c, p, k)
  /\ pc' = [pc EXCEPT ![c] = "sampling"]
  /\ UNCHANGED <<docs, cache, schema, answer, served, fills>>

Miss(c, p, k) ==
  /\ Starts(c, p, k)
  /\ cache[k] = NoSchema
  /\ pc' = [pc EXCEPT ![c] = "sampling"]
  /\ UNCHANGED <<docs, cache, schema, answer, served, fills>>

(* A plausible bug: a failure is remembered like an answer. *)
SampleFailsCached(c) ==
  /\ pc[c] = "sampling"
  /\ cache' = [cache EXCEPT ![key[c]] = Failed]
  /\ answer' = [answer EXCEPT ![c] = Failed]
  /\ pc' = [pc EXCEPT ![c] = "done"]
  /\ UNCHANGED <<docs, path, key, schema, served, fills>>

(* The sampling query, or the inference over it, returns an error. *)
SampleFails(c) ==
  /\ pc[c] = "sampling"
  /\ answer' = [answer EXCEPT ![c] = Failed]
  /\ pc' = [pc EXCEPT ![c] = "done"]
  /\ UNCHANGED <<docs, cache, path, key, schema, served, fills>>

(* A plausible bug: the schema of an empty sample is kept like any other. *)
SampleEmptyCached(c) ==
  /\ pc[c] = "sampling"
  /\ Live(key[c]) = {}
  /\ cache' = [cache EXCEPT ![key[c]] = InferSchema({})]
  /\ answer' = [answer EXCEPT ![c] = InferSchema({})]
  /\ pc' = [pc EXCEPT ![c] = "done"]
  /\ UNCHANGED <<docs, path, key, schema, served, fills>>

(* An empty container: table() returns None, sample_schema the empty       *)
(* schema.  Neither writes the cache.                                      *)
SampleEmpty(c) ==
  /\ pc[c] = "sampling"
  /\ Live(key[c]) = {}
  /\ answer' = [answer EXCEPT ![c] =
                  IF path[c] = "table" THEN NotFound ELSE InferSchema({})]
  /\ pc' = [pc EXCEPT ![c] = "done"]
  /\ UNCHANGED <<docs, cache, path, key, schema, served, fills>>

SampleDocs(c) ==
  /\ pc[c] = "sampling"
  /\ Live(key[c]) # {}
  /\ \E S \in Samples(key[c], Limit(path[c])) :
       /\ schema' = [schema EXCEPT ![c] = SchemaOf(key[c], S)]
       /\ served' = [served EXCEPT ![key[c]] = @ \cup {SchemaOf(key[c], S)}]
  /\ pc' = [pc EXCEPT ![c] = "inserting"]
  /\ UNCHANGED <<docs, cache, path, key, answer, fills>>

(* A plausible bug: a call that finds the entry filled samples once more. *)
InsertOrSampleAgain(c) ==
  /\ pc[c] = "inserting"
  /\ IF cache[key[c]] = NoSchema
     THEN /\ cache' = [cache EXCEPT ![key[c]] = schema[c]]
          /\ answer' = [answer EXCEPT ![c] = schema[c]]
          /\ fills' = [fills EXCEPT ![c][key[c]] = IF @ = 0 THEN 1 ELSE 2]
          /\ pc' = [pc EXCEPT ![c] = "done"]
     ELSE /\ pc' = [pc EXCEPT ![c] = "sampling"]
          /\ UNCHANGED <<cache, answer, fills>>
  /\ schema' = [schema EXCEPT ![c] = NoSchema]
  /\ UNCHANGED <<docs, path, key, served>>

(* The insert takes the mutex again and overwrites whatever is there now;  *)
(* the call returns the schema it inferred itself.                         *)
Insert(c) ==
  /\ pc[c] = "inserting"
  /\ cache' = [cache EXCEPT ![key[c]] = schema[c]]
  /\ answer' = [answer EXCEPT ![c] = schema[c]]
  /\ schema' = [schema EXCEPT ![c] = NoSchema]
  /\ fills' = [fills EXCEPT ![c][key[c]] = IF @ = 0 THEN 1 ELSE 2]
  /\ pc' = [pc EXCEPT ![c] = "done"]
  /\ UNCHANGED <<docs, path, key, served>>

(* The caller takes its answer and is free for another call. *)
Return(c) ==
  /\ pc[c] = "done"
  /\ pc' = [pc EXCEPT ![c] = "idle"]
  /\ path' = [path EXCEPT ![c] = NoPath]
  /\ key' = [key EXCEPT ![c] = NoKey]
  /\ answer' = [answer EXCEPT ![c] = NoSchema]
  /\ UNCHANGED <<docs, cache, schema, served, fills>>

(* Any client of the service creates, replaces or deletes a document. *)
Write(k) ==
  /\ \E i \in Ids, d \in Kinds \cup {Gone} :
       /\ d # docs[k][i]
       /\ docs' = [docs EXCEPT ![k][i] = d]
  /\ UNCHANGED <<cache, pc, path, key, schema, answer, served, fills>>

Begin(c) == \E p \in Paths, k \in Containers : Hit(c, p, k) \/ Miss(c, p, k)

Sample(c) == SampleFails(c) \/ SampleEmpty(c) \/ SampleDocs(c)

Next ==
  \/ \E c \in Callers : Begin(c) \/ Sample(c) \/ Insert(c) \/ Return(c)
  \/ \E k \in Containers : Write(k)

(* A call that has begun runs on: the service answers or the client        *)
(* reports an error, and nothing blocks the insert.  No caller has to      *)
(* make another call, and no writer has to write.                          *)
Fairness == \A c \in Callers : WF_vars(Sample(c) \/ Insert(c) \/ Return(c))

Spec == Init /\ [][Next]_vars

FairSpec == Spec /\ Fairness

----------------------------------------------------------------------------
(* Properties. *)

TypeOK ==
  /\ docs \in [Containers -> [Ids -> Kinds \cup {Gone}]]
  /\ cache \in [Containers -> Schemas \cup {NoSchema}]
  /\ pc \in [Callers -> {"idle", "sampling", "inserting", "done"}]
  /\ path \in [Callers -> Paths \cup {NoPath}]
  /\ key \in [Callers -> Containers \cup {NoKey}]
  /\ schema \in [Callers -> Schemas \cup {NoSchema}]
  /\ answer \in [Callers -> Schemas \cup {NoSchema, NotFound, Failed}]
  /\ served \in [Containers -> SUBSET Schemas]
  /\ fills \in [Callers -> [Containers -> 0 .. 2]]
  /\ \A c \in Callers :
       pc[c] # "idle" => path[c] \in Paths /\ key[c] \in Containers

(* A schema in the cache, on its way into it, or returned for a container  *)
(* was inferred from documents that very container held at one time.  The  *)
(* one exception is the empty schema a metadata call returns for a         *)
(* container that had none (metadata.rs:57-61), which is never cached.     *)
SchemasComeFromSamples ==
  /\ \A k \in Containers : cache[k] # NoSchema => cache[k] \in served[k]
  /\ \A c \in Callers :
       /\ pc[c] = "inserting" => schema[c] \in served[key[c]]
       /\ pc[c] = "done" =>
            \/ answer[c] \in served[key[c]]
            \/ answer[c] = Failed
            \/ path[c] = "table" /\ answer[c] = NotFound
            \/ path[c] = "sample_schema" /\ answer[c] = InferSchema({})

(* What memoizing saves: whatever the calls and however they overlap, one  *)
(* thread samples and fills a container at most once in a connection's     *)
(* life, so a container is sampled successfully at most once per thread.   *)
OneFillPerCaller ==
  \A c \in Callers, k \in Containers : fills[c][k] <= 1

InFlight(k) ==
  {c \in Callers : pc[c] \in {"sampling", "inserting"} /\ key[c] = k}

(* Once a container's entry is filled it stays filled, and no call that    *)
(* starts later samples the container: only calls that had already missed  *)
(* can still overwrite the entry.                                          *)
NoLateSampler ==
  [][\A k \in Containers : cache[k] # NoSchema =>
       cache'[k] # NoSchema /\ InFlight(k)' \subseteq InFlight(k)]_vars

(* metadata.rs:35 and DESIGN.md:480-481: a container's schema is inferred  *)
(* once per connection and whichever path samples first wins.              *)
FirstSampleWins ==
  [][\A k \in Containers : cache[k] # NoSchema => cache'[k] = cache[k]]_vars

(* The overwriting of concurrent misses ends: every entry reaches a value  *)
(* it keeps, though the container goes on changing.                        *)
Stabilises ==
  \A k \in Containers :
    \E s \in Schemas \cup {NoSchema} : <>[](cache[k] = s)

(* Every call returns: no path holds the mutex while it waits. *)
CallsReturn == \A c \in Callers : pc[c] # "idle" ~> pc[c] = "idle"

(* The cache is a memoizer: the call that waits is the one that has missed *)
(* and not inserted yet, and what it samples meanwhile is not seen.  An    *)
(* empty container and an error are given up and not remembered.           *)
Reply ==
  [c \in Callers |->
     IF pc[c] \in {"sampling", "inserting"} THEN "waiting" ELSE answer[c]]

Memo == INSTANCE Memoizer
  WITH Keys <- Containers,
       Values <- Schemas,
       Refusals <- {NotFound, Failed, InferSchema({})},
       Nothing <- NoSchema,
       Waiting <- "waiting",
       memo <- cache,
       asked <- key,
       reply <- Reply

(* Both paths, in every overlap, do to the cache and to their callers what *)
(* a memoizer may do: lib.rs:29-32 says what the cache is for.             *)
ImplementsMemoizer == Memo!Spec
=============================================================================
