# TLA+ models of the Cosmos DB ADBC driver

The driver lets an Arrow client query Azure Cosmos DB: a container of JSON
documents becomes a table, and a query becomes Arrow batches. There are two
ways to ask. The *native* dialect passes Cosmos SQL through to one container.
The *datafusion* dialect plans ANSI SQL with DataFusion and sends as much of the
plan as it can to the service. These modules model what decides whether the
answers are right: the schema cache that a connection shares, the translation of
filters, the optimizer rule that folds aggregates and sorts, the inference
that turns documents into typed rows, the objects of a session with their
options, and the metadata listings.

Paths below are relative to `src/crates/`. `adbc` is `adbc-cosmos/src`, `df` is
`cosmos-datafusion/src`.

## 1. Inventory

| component | state it keeps | operations | what makes it correct |
|---|---|---|---|
| schema cache (`df/lib.rs`, `df/catalog.rs`, `adbc/metadata.rs`) | one map (database, container) -> schema per connection, behind a mutex | `table`, `sample_schema`: look up, sample, insert | a cached schema is that of documents of that container; failures and empty samples leave no entry; a container is not sampled again once known |
| predicate translation (`df/predicate.rs`) | none (pure) | `translate`, `pushdown_decisions` | pushed and kept filters together select the rows DataFusion alone would |
| pushdown rule (`df/pushdown.rs`) | the plan under rewriting | `try_fold_aggregate`, `try_fold_sort` | a folded plan answers what the query asks, whatever DataFusion's rules do before and after |
| table provider and scan (`df/provider.rs`, `df/convert.rs`) | schema, ORDER BY and top-N of one scan | `scan`, `supports_filters_pushdown`, `CosmosExec::execute`, `build_scan_sql`, `decode_docs`, `decode_scalar_agg` | the query text means what the plan node means, the answer decodes into the schema |
| shape normalization (`df/normalize.rs`) | none (pure) | `infer_doc_shape`, `normalize`, `coerce_to_schema` | exactly the conflicting nodes become text; no value is lost |
| struct inference (`adbc/inference.rs`) | none (pure) | `build_struct_batch`, `infer_schema` | a batch fails only by a document that disagrees with the sample or holds what a type the options ask for refuses; sampled values lose nothing but digits the options give up |
| metadata (`adbc/metadata.rs`) | none of its own | `get_catalogs`, `get_tables`, `get_columns`, `like_to_regex` | LIKE filters mean LIKE; a listing that ends is true of the account; one container that cannot be sampled fails the listing, and a repeated one goes on from what was cached |
| object graph and options (`adbc/driver.rs`, `database.rs`, `connection.rs`, `statement.rs`, `options.rs`) | configuration, current database, a statement's options and query | `set_option`, `get_option`, `new_connection`, `new_statement`, `execute` | an object keeps what its parent had when it was made; a refused option changes nothing; `execute` runs only when complete |
| credentials (`adbc/client.rs`) | none | `credential_from`, `build_client` | the documented precedence |
| transport (`cosmos-client/src/lib.rs`) | an SDK client | `query_documents`, `list_databases`, `list_containers` | all pages, in order |
| output builders (`adbc/output.rs`, `batch_reader.rs`) | batches not read yet | `build_json_batch`, `build_variant_batch`, `next` | one row per document, no batch twice |
| runtime and errors (`adbc/runtime.rs`, `error.rs`, `lib.rs`) | the tokio runtime | `block_on` | - |

How they interact. `CosmosConnection` owns the cache and hands the same `Arc` to
every statement and to every metadata call, so calls of several threads meet in
it. `execute` in the datafusion dialect registers a catalog for that one query;
DataFusion's planner calls back `CosmosSchemaProvider::table` (which fills the
cache), its optimizer calls back the Cosmos rule between its own rules, its
planner asks the provider which filters it takes, and `scan` builds the one
query that `CosmosExec` sends. `execute` in the native dialect sends its text and
gives the documents to an output builder or to `build_struct_batch`. Both
dialects normalize documents with `normalize.rs`, from opposite ends: by the
shape of the sample, or by the schema that was inferred from an earlier sample.

What is hard here. *Interleaving*: the cache's mutex is released between lookup
and insert; statements with different databases and the connection's metadata
calls fill one cache. *Ordering*: the optimizer runs to a fixpoint and either side may see
a filter, a limit or a sort first. *Semantics*: null against undefined,
three-valued logic, types that compare differently in the service, the placement
of nulls in an order. *Staleness*: documents outside the sample, containers that
change after their schema was cached. Nothing is persisted, so nothing has to
recover from a crash, and the driver itself neither retries nor times out
(whatever the SDK does is below `query_documents`). `PROJECT.json` lists the hazards line by line.

## 2. Modules

### SchemaCache and Memoizer (`MCSchemaCache`, `SchemaCacheProofs`)

Callers are threads of one connection. A call is a lookup (`Hit` or `Miss`), a
sample (`SampleDocs`, `SampleEmpty`, `SampleFails`), an `Insert` and a `Return`;
between two of these the mutex is free, so each is a step, and `Write` lets any
client change the container at any time. Both code paths are there: `table`
(sample size of the statement, `None` for an empty container) and
`sample_schema` (100 documents, an empty schema for an empty container). A
sample is any set of documents of the right size, since the sampling query names
no order. A document is what it holds at one field and a schema the type of that
field; that is all that inference and staleness tell apart. `served` and `fills`
are history: the schemas of all samples, and how often a thread filled an entry.

Run `schema_cache` (88,497 states): two threads, two containers of one document
id, integers and texts. Two threads are what it takes to miss together, and the
second container shows that keys are not mixed up.

 * `SchemasComeFromSamples`: whatever is cached, on its way into the cache or
   returned was inferred from documents this container held.
 * `OneFillPerCaller`: a thread fills an entry once in the connection's life.
 * `NoLateSampler`: an entry stays filled, and no call that starts later samples.
 * `Stabilises`: overwriting by calls that missed together ends.
 * `CallsReturn`: every call returns.

Fairness is `WF_vars(Sample(c) \/ Insert(c) \/ Return(c))` for each thread: a
call that has begun is a synchronous function on its own thread, the service
answers or the SDK reports an error, and no path holds the mutex across an
`await`, so no step of a call can be blocked by another. Nothing makes a
thread call again and no writer has to write.

`Memoizer` is the abstract specification: a call is answered from memory at once
(`Recall`), or it asks (`Ask`) and then learns a value, which is remembered
(`Learn`), or gives up, which is not (`GiveUp`). Nothing of sampling, of its size
or of other writers is left in it. `SchemaCache` implements it under the mapping
in the module: a call that is sampling or inserting is `Waiting`, a call with a
result has its reply, the cache is the memory. A `Hit` is a `Recall`, a `Miss` an
`Ask`, an `Insert` a `Learn`, an empty or failed sample a `GiveUp`; a successful
sample and everything writers do are stutters. `Learn` may overwrite what
somebody else learned since: this is what the code does, and `first_sample_wins`
shows that its comment says otherwise. The run checks the refinement as
`ImplementsMemoizer`.

### Predicate (`MCPredicate`, `PredicateProofs`)

One document, one column, a WHERE of up to two conjuncts or one AND or OR of two
leaves. The state is the loop of `pushdown_decisions` and `scan`: each conjunct
is translated and pushed (`Push`) or kept (`Keep`). `Local` is DataFusion's
evaluation over the decoded column, `Cosmos` the service's over the stored
document; both are three-valued. How the service compares null or unlike types
is *not* fixed: `Quirks` is a set of functions that give any truth value per
operator, and one of those the run uses is the behaviour `predicate.rs` reports.

Run `predicate` (517,720 states): two values (so that every comparison comes out
either way), equality, inequality and one operator for each direction of `flip`,
all lists with and without NULL, mirrored comparisons, null tests and
untranslatable filters. `ExactOnHomogeneousColumns` says that at each point of
the loop the filters pushed and kept so far, with those still pending, pass the
row exactly when DataFusion would.

### Pushdown (`MCPushdown`, `PushdownProofs`)

A plan is a sequence of operators over a scan, its meaning the *set* of answers
it may give (ties and unsorted limits leave a choice). The actions are the two
folds of the Cosmos rule and the DataFusion rules they meet (filter below sort,
filter into scan, limit into sort, limit into scan, unused columns away), in any
order and until none applies. The scan node keeps apart what DataFusion sees
(columns, filters, fetch) and what only the provider holds (keys, top-N,
aggregate). An answer is one value, or rows and which of them comes before
which: `Orderings` are the orders that a list of ranks allows, `Window` is what a
limit keeps of one, `Inside` what the innermost operators make of the scan's
answers. A null has a rank below or above all numbers, and `Largest` is the
largest of those. Each rule is a guard (`FilterMeetsSort`, `SortFolds`, ...) and
an action; the guards are also what `Settled` is made of.
The abstract specification is the query itself: `AnswersAreRight`
says every answer of the current plan is an answer of the query as written.
DataFusion's rules and the service's ORDER BY are external. In particular
whether a limit stays above the sort it was merged into is the constant
`LimitOverSort`; the code relies on "kept".

Run `pushdown` (77,664 states): every query of up to three of two filters, two
limits and seven sorts, alone or under one of four aggregates, over tables with
nulls and ties, with the default toggles and with all on. `NoFoldIsMissed` says
that when nothing more applies a sort the service can do has been folded,
whichever rule ran first. `TopNIsFinal` says that once a top-N is in the provider,
where DataFusion cannot see it, no filter, aggregate or other order reaches the
scan any more. Three operators are what a filter between a limit and
a sort takes; three rows are enough for a null, a tie or a filtered row on either
side of a limit of two.

### Shapes and Inference (`MCInference`, `ShapeProofs`, `InferenceProofs`)

`Shapes` has the pure part: JSON values, the shapes merged from them, Arrow types,
and the functions on these: `Merge`, `ShapeOf`, `Normalize`, `Coerce` of
`normalize.rs`, `Transform` of `inference.rs`, and `InferType` and `Decode`, which
are arrow-json's, modelled as the code relies on them. A value is a kind and its
parts, by name (an object) or by position (an array); a scalar is its kind, and
there are as many kinds as types treat differently: integers and doubles of few
digits or of many (`WholeDigits`, `FractionDigits`), dates and datetimes that are
some and others that only have the form (`no_date`, `no_datetime`), datetimes
finer than a microsecond. `Takes` says which kinds a type decodes, with a
decimal's precision and scale, `Cuts` of which it keeps fewer digits, and a `Cut`
value remembers what it was. A text made from another value keeps that value's
parts and, as `of`, its kind: two different values have different texts. An object has a part for every name, which
is `Absent` where the object lacks the field; a column that a type lacks is
`NoField`. Functions are recursive over `ValuesTo[n]`, the values that nest
containers n deep at most, up to `MaxDepth`: serde_json reads no more than 128
levels, so a bound exists, and the proofs hold for any.

`Inference` is the process. A sample is merged document by document into a shape
(`Observe`), the schema is inferred (`Infer`), documents are decoded row by row
(`DecodeRow`) until all are or one fails. `path` is `build_struct_batch` or the
provider.

Run `inference` (902,229 states): one or two sampled documents and up to one
more, a field that is absent or holds one of 23 values: null, integers, doubles,
texts, dates and datetimes of the kinds above, objects and arrays of them, an array
of an int and a text, an array of objects; four sets of options, with the decimals
(3,1), which some numbers overflow and others are rounded to, and (38,9).

 * `ShapeIsWhereTheyAgree`: the shape that merging arrives at is the one defined
   without merging, from all the values at a node together.
 * `OnlyDisagreementFails`: inference does not fail, and a document, sampled or
   not, fails the batch only where it disagrees with the sample (`Disagrees`: with
   it in the sample the shape or the schema were another), or where it holds what
   a type that the options ask for refuses (`Refused`): a number beyond the
   decimal's precision, a text that only has the form of a date or datetime. An
   epoch field may fail on anything, its type being the user's assertion.
 * `SampledRowsKeepValues`: a cell is the value, or its text, and null only for
   null or absent; what options give up (`Shortened`) may be cut: digits beyond
   the decimal's scale or, by default, beyond a double, and a datetime's beyond its
   column's unit.
 * `PathsAgree`: normalizing by shape and coercing by schema prepare the same
   documents.

That a document which disagrees fails the batch, or loses its fraction to an Int64
column, is what the code does: the property says who may fail, not that nobody
does. A text that panics the
profile is left out of the passing run and shown by `plain_when_off`. Two sampled
documents are enough for a conflict at any node and for its absence in the other;
the third is the one that was not sampled.

### Session and SessionHistory (`MCSession`, `MCOptions`, `SessionProofs`)

One database object, the connections made from it and their statements.

| state | code |
|---|---|
| `config` | `CosmosDatabase.config` |
| `born`, `client`, `current` | the configuration a connection was made from, its `Arc<CosmosClient>` and its `current_database` |
| `cache` | `CosmosConnection.schema_cache`, shared with its statements |
| `stmt` | a statement's fields, the connection whose client and cache it holds among them (`on`) |
| `job` | the call an object is busy with: the database it works in, the tables left, the schemas in hand |
| `outcome` | how the last step ended (the property's view of `Result`) |

A schema is represented by *where it was sampled* (account, database, container),
a query text by the containers it names. `set_option` of each object, `new_*`
with lists of options, `set_sql_query`, `execute` of both dialects and
`get_table_schema` are actions; the last two go on step by step (`Hit`, `Miss`,
`SampleDocs`, `SampleEmpty`, `Insert`, `Resolved`, `Answered`, `Fails`), and
between any two of these steps any other object may be called. An object that is
busy takes no other call: the calls that change it take `&mut self`. (Two
`get_table_schema` of one connection may overlap, being `&self`; that they meet in
its cache is what `SchemaCache` is about.) A connection
string is represented by the account in it, a decimal by its precision and
scale, a list of epoch fields by its entries. What a list of options leaves is
given field by field (`ConfigAfter`, `CurrentAfter`): the last one for a field
stays. A statement has the fields the code has; each arm of `set_option` is an arm
of `StatementWith` with the fields it writes, and `Effective` puts together what
`execute` reads of them.

`SessionHistory` adds one variable, `asked`: for each object the values of the
options its calls asked for and got, by the options' own names. It is kept beside
the calls and never looks at a field, so that it tells what clients may expect:
the last value, or what `options.rs` documents as the default, or what the parent
was asked for when the object was made.

Run `session` (545,316 states): two connections, two statements, one container,
two accounts, two databases, with the options that move a target. Two statements
of one connection are what it takes to share a cache with different databases;
the second connection and the second account show that nothing crosses over.
Objects of one kind are interchangeable (symmetry over both; no liveness here).

 * `SchemasMatchTargets`: a schema a call has in hand was sampled in the account,
   database and container this call asks for, whoever filled the cache.
 * `TargetsMoveByOwnCalls`: where a statement's requests go is settled when it is
   made and moves by its own `database` option only.

Run `options` (342,054 states): one object of each kind, every option of all
three, legal and refused, alone and in lists of two.

 * `ConnectsAsConfigured`: the documented precedence of credentials, from the
   options there were when the connection was made.
 * `AsAsked`: what a statement runs with, in every part that `execute` reads, and
   where a connection and its calls look, is what was last asked for. An arm of
   `set_option` that writes a neighbour's field, a field handed down wrongly, a
   list of which one option is taken and the next refused, a refused value that
   leaves a trace: each would show, at whatever later call.
 * `ReadyStaysReady`: a statement that can be executed can be executed again.
 * `OnlyEmptyIsNotFound`: a query misses a table only if the container is empty,
   whatever sample size was accepted.

Bounds: `ListBound` is 2 in `options`, so that a list holds an option that is taken
before one that is refused, and 1 in `session`; `StatementsArePlain`
lets the database's options vary only until there is a statement (what a
statement does depends on them through `client` alone); `FewOptions` allows two
options that shape the answer to differ from their defaults at once, which is
enough for one arm to disturb another. In `session` metadata calls name no
catalog, in `options` they do.

### Metadata (`MCMetadata`, `MetadataProofs`)

Threads call `get_objects` while other clients change the account and the service
may refuse any request. driverbase's walk over the levels is external, modelled
from how `CosmosGetObjects` is called: `GetCatalogs`, `GetDbSchemas` (one empty
name), `GetTables`, and at the deepest level for each container `LookUp`,
`SampleDocs` or `SampleEmpty`, and `Insert`. Names are sequences of characters,
since the filters look into them: `Regex` is `like_to_regex`, a token for each
character of the pattern, `IsMatch` the regex crate, which goes on from the places
of the name where the tokens so far may end, and `Like` is the meaning that
`metadata.rs:190` gives a pattern, written without regard to the code: the name
can be cut into one part per character of the pattern. `seen`, `stayed` and `held` are history: the
containers that existed at some time, or all the time, of a call, and what each
ever held.

Run `metadata` (13,622 states): two databases, two containers, names with a `%`
in them, 24 patterns for containers and some at every other level, two readers,
one change of the account.

 * `ListsWhatIsThere`: a listing that succeeds names exactly the databases that
   fit, every fitting container that existed throughout, none that never existed
   during the call, and columns each container had at some time.
 * `RetriesGetThrough`: as long as no container is empty, a client that repeats a
   failed listing gets through, although one failure spoils the whole listing:
   a listing that fails keeps what it has sampled.

Fairness. A call that has begun is a synchronous function on the caller's thread:
`WF` of its steps. That the same request is not refused for ever is an assumption
about the service, `SF` of each request (one per catalog for the containers, one
for the samples). That a client calls again after a failure is `WF` of doing so:
the driver does not retry, the property is about clients that do. Empty
containers are excluded by its premise because they are never remembered: each
listing has to sample them again.

Bounds: `Changes` is 1, so a container may appear, vanish, be emptied or filled
once; `FiltersAlone` tries the listings that reach no column on the first
account and before the other reader starts, as they touch nothing that is
shared. Patterns of three characters are enough for an escape between two
others; those that end in a lone backslash and names with a newline are left
out, as the comment says nothing of the former and `.` skips the latter.

## 3. Where code and documentation differ

| run | what it shows |
|---|---|
| `first_sample_wins` | two calls that miss together: the *last* insert wins, not the first sample (`metadata.rs:35`) |
| `heterogeneous_column` | a text column that also holds numbers: `x = '1'` is pushed and drops the row DataFusion would keep (`predicate.rs:122`) |
| `count_without_fold` | an unfolded COUNT(*) scans no column and sends `SELECT  FROM c` (`convert.rs:83`) |
| `average_of_cast` | `AVG(CAST(n AS BIGINT))` is folded to the average of the raw numbers (`pushdown.rs:272`) |
| `plain_when_off` | with every knob off a text with a character across its tenth byte panics in `is_iso_datetime` (`inference.rs:351`) |

Also seen, and left without a run:

 * ORDER BY with LIMIT and OFFSET brings a top-N and a limit to one scan, which
   `provider.rs:130` says never coexist; the answers stay right because the top-N
   is the one used, and `pushdown` checks that.
 * A folded top-N is known to the provider and not to DataFusion. Should
   DataFusion drop a limit it has merged into the sort, a later filter or COUNT
   passes below the top-N: set `LimitOverSort = "dropped"` and check
   `AnswersAreRight`.
 * Under `infer_temporal` the text `9999-99-99` makes its column a Date32
   (`inference.rs:336`), though `inference.rs:278-279` says that only ISO-8601
   dates do, and the decode of every document fails.
 * A text after the sample in a column of integers fails the whole scan, though
   `convert.rs:27-28` says that such drift does not fail the decode.
 * In LIKE a `_` or `%` does not match a newline, and a lone backslash at the end
   vanishes (`metadata.rs:206`).
 * `DESIGN.md:229` lists `sample_size` for statements and connections, and
   `consistency` and `max_retries` for connections; a connection takes only its
   current database (`connection.rs:167`).

## 4. Proofs

Every theorem holds for all values of the constants under the modules' named
assumptions: sizes are positive, the sets of kinds, values, operators and quirks
are subsets of those the code can meet, tables are sequences of numbers up to
`Largest`, an option's value is a string that is not `Unset` or an integer. No
assumption bounds the number of threads, containers, documents, values,
conjuncts, objects, options, operators of a plan, rows or characters of a name.

`Numbers` has what induction needs: a set of natural numbers has a least one, so
a set that has zero and with each number the next has all (`Induction`). A
property is stated as the set of numbers that have it. This is how functions that
are recursive over positions (of a pattern, a name or a plan) are shown to be
defined (`EndsFrom`, `InsideDefined`) and to do what they should.

`SchemaCacheProofs`. `TypeOK` is inductive. `SchemasComeFromSamples` is inductive
beside it because each schema in flight or returned is tied to `served`, which
only grows. `OneFillPerCaller` is not inductive: it needs to know that a thread
that has filled an entry cannot be on its way to fill it again. The invariant
`IInv` adds two parts: an entry that somebody filled is not empty
(`FilledStaysFilled`), so this thread's next lookup is a hit; and a thread that
is sampling or inserting has not filled this entry (`InFlightNotFilled`). That
the cache only ever gains entries (`CacheKeeps`) rests on provenance: what is
inserted is a schema and not the mark of a missing entry. `Invariance` is the
inductive theorem, `TypeCorrect`, `Provenance`, `Memoized` and `LateCallsHit`
(an action property) follow.

`Refinement`, in the same module, is `Spec => Memo!Spec`: the initial states map
to initial states, and each step of `SchemaCache` maps to the step named in
section 2 or to a stutter. It needs `IInv` for two facts: what is inserted is a
value that can be remembered, so `Learn` allows it and a later lookup is a
`Recall`; and an idle caller has neither key nor result (`IdleIsClean`), so that
its reply maps to nothing.

`PredicateProofs`. `Contract` is `Spec => []ExactOnHomogeneousColumns`. A
translated leaf is two-valued: the guard makes it false where DataFusion has
NULL, whatever the quirk answers, so it is true exactly when the local leaf is
(`LeafExact`, by form, with `Flip` for mirrored sides and NOT IN apart). Being
*true* carries over AND and OR without looking at false against unknown
(`Connectives`, `FilterExact`); no translated filter is ever under a NOT, the one
place where that difference would show. Then each step of the loop moves
the head of `pending` to a list that judges the row as before (`PendingSplits`,
`PushedGrows`, `KeptGrows`), so the conjuncts decided and pending together are
constant (`RowsStep`). `TypeCorrect` says that only guarded comparisons with
rendered literals, lists of them and null tests reach the service.

`SessionProofs`. The properties speak of schemas in hand, which come out of the
cache; so the invariant has to say that of the cache too. `IInv` is
`StatementsOK` (a statement holds on to a connection that exists, which never
changes), `JobsOK` (a busy statement works in the database it still has, since
its options cannot be set meanwhile; every schema in hand matches the job's own
target) and `CachesOK` (what a connection's cache holds under a database and a
container was sampled there, with that connection's client). `Invariance` is
inductive; `SchemasMatch` follows. `TargetsAreOwn` is the action property: no
other action touches the statement or the client it is on. `Connects` needs that a
client is the one its `born` configuration makes (`BornOK`), and then only the
precedence by cases. Two assumptions are used: connections and statements are
different things, and a query is a set of containers and is not `Unset`.

Its second part goes on from there. `TInv` adds to `IInv` what the fields of
every object hold (`ConfigsTyped`, `StatementsTyped`: the decimal's scale is within
its precision whatever was set), and that a call in the middle of its work was
complete when it began and still is (`CallsReady`). `TypeCorrect`, `StaysReady`,
and `EmptyIsNotFound` follow.

Its third part is about `SessionHistory`, whose steps are steps of `Session`, so
that `TInv` holds there too. `HInv` adds `HistoryOK`: of each statement every field
holds what the history says of it (`Follows`, field by field, where `AsAsked` speaks
of what is put together of them), and a connection's current database is what it was
asked for (`ScopeOK`), which is what its statements start with. `ArmFollows` and `DecimalFollows` go through the
arms of `set_option` one by one: the field of the key that was set follows it,
every other field follows what it did. The assumption on option values is
needed, since an option set to `Unset` would look as if never set. `AlwaysAsAsked`
is `HSpec => []AsAsked`.

`PushdownProofs`. `TypeCorrect` is inductive by itself. `TopN` is the action
property `TopNIsFinal`, for queries of any length: it needs to know that the
innermost operator of a plan with a top-N is the limit the top-N came from.
`FetchUnderLimit` says so, and says the same of each sort that took a fetch but is
not folded yet: its limit is right above it, and stays, as no rule moves a limit
and a filter does not pass a sort with a fetch. This is where "kept" is used; it
is a premise of the property, since with "dropped" it fails. `NoneIsMissed` is
`NoFoldIsMissed`. Its invariant says where the sort is while it is not folded
(`FoldIsAhead`): somewhere in the plan with only filters that Cosmos can evaluate
below it, over a scan without a fetch. Each rule keeps it there, moves it inward,
or folds it, and while it is there some rule has work (`FoldIsNear`).

The second part of `PushdownProofs` is about answers. `AnswersKept` is `Spec => []AnswersAreRight`, for every table and
every query, where limits are kept and no AVG is taken of a narrowing cast: without
either it fails, as section 3 shows. The argument is that no
rule adds an answer to a plan, so that the plan's answers stay among the query's.

 * Plans whose inner operators give no more answers give no more themselves
   (`OuterKeeps`, `InnerKeeps`), so each rule has only to be looked at where it
   rewrites: two neighbours (`NeighboursKeep`), or the innermost operator and the
   scan (`InnermostGoes`, `InnermostStays`).
 * A filter and a sort: an order of the rows that pass is part of an order of all
   rows (`OrdersExtend`: what ties is settled by putting the rows that pass first),
   so that sorting and then filtering gives whatever filtering and then sorting
   may (`FilterBelowSort`), in DataFusion and in the service (`FilterInScan`).
 * A limit and a sort or a scan: the first n rows hold every window that ends
   within them (`WindowOfFirst`).
 * A sort on keys that both order alike ranks rows the same way, nulls included
   (`SameOrderings`).
 * An aggregate depends on the rows and not on their order.

The invariant `AnswersInv` needs two more parts. An aggregate is the outermost
operator and a folded one is alone (`AggregateOnTop`), so that what a rule meets
inside are rows. And a plan is compared as if its scan asked for all columns
(`Full`), because a scan of no column answers with an error only, which the
property leaves out. It also rests on `FetchUnderLimit`: a filter or a fold that
reaches the scan finds no top-N there.

`MetadataProofs`. `LikeIsMatch` says that the regex made of a pattern matches the
names the pattern means: the places where the regex may end after some tokens are
the ends of the cuts of so many characters (`CutsTo`, `CutsExtend`), by induction
over the pattern. Patterns that end in a backslash that escapes nothing and names with a
newline are excluded by its premises, because it is false of them. `Invariance`
is the inductive invariant of listings: of each reader, what may be in its list
(`Entry`), and that whatever must be in it is there (`Named`) or on a part of the
walk that is still ahead (`Ahead`), while other readers fill the cache and the
account changes. `TypeCorrect` and `ListsTrue` (that is `ListsWhatIsThere`) follow.

`ShapeProofs`. First, that the recursive functions are defined: each is shown to
satisfy its equation at every value of every depth (`NormalizeIs`, `MergeIs`,
`DecodeIs`, ...), by induction over the depth (`LevelInduction`). Values and trees
of one depth more are made of those of one less (`ValuesToIs`, `TreesToIs`). The rest
are facts about any finite or infinite set of values, again by depth, and by what
the values' kinds have in common at a node (`ShapeCases`: nothing, a conflict,
objects, arrays, or one kind of scalar):

 * `MergeOfShapes`: merging the shapes of two sets is the shape of their union, so
   merging is associative, commutative and has `Unknown` as its unit on shapes;
   `ShapeOfOne` is the same for one value, through the elements of its arrays.
 * `InferWorks`: arrow-json infers a type from any set of values that were
   normalized by their own shape. Where they agree on objects or arrays it is one
   of parts, where they disagree all are texts.
 * `CoerceIsNormalize`: coercing a value by that type is normalizing it by the
   shape, node by node: the type is Utf8 exactly where the shape is a conflict or
   a text.
 * `SampleDecodes`: a normalized value decodes with the type inferred and
   transformed by the options unless it holds, at some depth, a kind the options
   refuse (`Readable`), and its cell keeps the value but for what they cut. At a leaf
   this goes through the kinds and types (`LeafTakes`); a container decodes and
   keeps if its parts do (`ContainerDecodes`), and is refused if one of them is.

`InferenceProofs`. The properties are about what becomes of the sample, so the
inductive invariant `IInv` ties every variable to it: the shape is the one of the
documents observed (`ShapeIsWhereTheyAgree`, which `MergeOfShapes` makes
inductive), a schema there is was made of the whole sample's shape (`SchemaInv`), each
row is what its document decodes to, and after an error the document that comes
next does not (`RowsInv`). `InferenceTypeOK`, `ShapeIsAgreement`,
`OnlyDisagreementsFail`, `SampleIsKept` and `PathsAlwaysAgree` follow by looking at one
column at a time (`SchemaIs`, `RowIs`, `CellOfSample`): a Variant takes all, an
epoch only what it keeps, and every other column is a case of `SampleDecodes`, in the
provider with all options off. That a document outside the sample fails only where
it disagrees is the same fact once more: one that changes neither shape nor schema
might as well have been sampled (`MightBeSampled`). `PlainSchema` says that with all options off the
struct path has the plain schema: of `PlainWhenOff` only the panic fails. No
bound is put on the number of documents or on `MaxDepth`; documents are objects
(a native `SELECT VALUE` of scalars is not modelled, see section 5).

Only model-checked: liveness (`Stabilises`, `CallsReturn`, `RetriesGetThrough`), which
needs fairness, and the properties of section 3, which fail.

## 5. Not modelled

Formatting of query text and escaping of names and literals; magnitudes beyond
the small ones (an Int64 above 2^53 compares as a double in the service); the
calendar and the digits of numbers, beyond the classes of section 2; a native query whose results are no objects (`SELECT VALUE c.x`), of
which arrow-json infers no record; paging inside the SDK; the physical plan's
properties and partitions; the output builders for JSON and Variant; the runtime
and the error types; the seeding example and the round-trip script.

Of the objects: `get_info` and `get_table_types` are constant replies; the
methods that return "not implemented", and `prepare`, which does nothing, change
no state; releasing an object only drops its references, and what others share of
it stays alive behind their `Arc`s; `get_option` only reads and is not modelled. The
mutex of the cache is not modelled either: each of its uses is one step, and no
step waits for it. Of the pushdown rule the guards against GROUP BY, DISTINCT,
FILTER and several aggregates have no query to decide on. One object in two threads at once is left out, as `&mut self`
excludes it.

## 6. Plan

Done, in this order: SchemaCache, Predicate, Pushdown, Inference, Session,
Metadata, Memoizer, and the proofs of all of them. What is left:

 * **Query**: one datafusion query end to end, composing the cache (INSTANCE
   SchemaCache), the scan and the decode: a schema cached from one sample and
   documents that come later, pushed filters on a column that is Int64 only in
   the sample. `session` already takes a query through the cache to its scan, but
   looks only at where schemas come from.

## 7. Running

In this directory: `tlc -config MCSchemaCache.cfg MCSchemaCache`, and so on for
each configuration. `FirstSampleWins.cfg` belongs to `MCSchemaCache`,
`HeterogeneousColumn.cfg` to `MCPredicate`, `PlainWhenOff.cfg` to `MCInference`,
`Options.cfg` to `MCOptions`,
`CountWithoutFold.cfg` and `AverageOfCast.cfg` to `MCPushdown`. `tlapm` takes `Numbers.tla`, `SchemaCacheProofs.tla`,
`PredicateProofs.tla`, `PushdownProofs.tla`, `SessionProofs.tla`,
`MetadataProofs.tla`, `ShapeProofs.tla` and `InferenceProofs.tla`. A passing run
takes up to about two minutes; a run whose name stands in section 3 ends with a
counterexample.
