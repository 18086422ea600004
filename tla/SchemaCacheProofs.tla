------------------------- MODULE SchemaCacheProofs -------------------------
(***************************************************************************)
(* Proofs about SchemaCache, for any callers, containers, documents and    *)
(* sample sizes: its invariants hold in every reachable state, and no step *)
(* lets a later call sample a container whose entry is filled.             *)
(***************************************************************************)
EXTENDS SchemaCache, TLAPS

(* The inductive invariant.  OneFillPerCaller is not inductive by itself:  *)
(* a second fill must be excluded before it happens, while the call is     *)
(* still sampling.  That takes two facts that reach back to the lookup: a  *)
(* container a caller has filled stays filled, so the caller's next lookup *)
(* hits; hence a caller that is sampling or inserting has not filled the   *)
(* container it is about.                                                  *)
FilledStaysFilled ==
  \A c \in Callers, k \in Containers : fills[c][k] # 0 => cache[k] # NoSchema

InFlightNotFilled ==
  \A c \in Callers :
    pc[c] \in {"sampling", "inserting"} => fills[c][key[c]] = 0

(* Between calls no answer is left over, so Reply tells them apart from    *)
(* calls: needed to read a step of the code as a step of the memoizer.     *)
IdleIsClean == \A c \in Callers : pc[c] = "idle" => answer[c] = NoSchema

IInv == /\ TypeOK
        /\ IdleIsClean
        /\ SchemasComeFromSamples
        /\ FilledStaysFilled
        /\ InFlightNotFilled
        /\ OneFillPerCaller

----------------------------------------------------------------------------
(* Inference gives one of the schemas, whatever was sampled. *)
LEMMA InferSchemaType ==
  ASSUME NEW kinds
  PROVE  InferSchema(kinds) \in Schemas
BY DEF InferSchema, Schemas

(* No entry is a value of its own, apart from every schema. *)
LEMMA NoSchemaIsNone == NoSchema \notin Schemas
BY DEF NoSchema, Schemas

----------------------------------------------------------------------------
(* The initial states satisfy the invariant. *)
LEMMA InitInv == Init => IInv
BY DEF Init, IInv, IdleIsClean, TypeOK, SchemasComeFromSamples,
       FilledStaysFilled, InFlightNotFilled, OneFillPerCaller, NoSchema

(* A step of a call or of a writer keeps every variable in its type. *)
LEMMA TypeStep == TypeOK /\ [Next]_vars => TypeOK'
<1> SUFFICES ASSUME TypeOK, [Next]_vars PROVE TypeOK'
  OBVIOUS
<1> USE DEF TypeOK
<1>1. ASSUME NEW c \in Callers, NEW p \in Paths, NEW k \in Containers,
             Hit(c, p, k)
      PROVE  TypeOK'
  BY <1>1 DEF Hit, Starts
<1>2. ASSUME NEW c \in Callers, NEW p \in Paths, NEW k \in Containers,
             Miss(c, p, k)
      PROVE  TypeOK'
  BY <1>2 DEF Miss, Starts
<1>3. ASSUME NEW c \in Callers, SampleFails(c) PROVE TypeOK'
  BY <1>3 DEF SampleFails
<1>4. ASSUME NEW c \in Callers, SampleEmpty(c) PROVE TypeOK'
  BY <1>4, InferSchemaType DEF SampleEmpty
<1>5. ASSUME NEW c \in Callers, SampleDocs(c) PROVE TypeOK'
  <2>1. PICK S \in Samples(key[c], Limit(path[c])) :
          /\ schema' = [schema EXCEPT ![c] = SchemaOf(key[c], S)]
          /\ served' = [served EXCEPT ![key[c]] = @ \cup {SchemaOf(key[c], S)}]
    BY <1>5 DEF SampleDocs
  <2>2. SchemaOf(key[c], S) \in Schemas
    BY InferSchemaType DEF SchemaOf
  <2>3. served' \in [Containers -> SUBSET Schemas]
    BY <2>1, <2>2
  <2> QED
    BY <1>5, <2>1, <2>2, <2>3 DEF SampleDocs
<1>6. ASSUME NEW c \in Callers, Insert(c) PROVE TypeOK'
  BY <1>6 DEF Insert
<1>7. ASSUME NEW c \in Callers, Return(c) PROVE TypeOK'
  BY <1>7 DEF Return
<1>8. ASSUME NEW k \in Containers, Write(k) PROVE TypeOK'
  BY <1>8 DEF Write
<1>9. CASE UNCHANGED vars
  BY <1>9 DEF vars
<1> QED
  BY <1>1, <1>2, <1>3, <1>4, <1>5, <1>6, <1>7, <1>8, <1>9
     DEF Next, Begin, Sample

(* An answer is given when a call is done and taken when it returns. *)
LEMMA IdleStep == TypeOK /\ IdleIsClean /\ [Next]_vars => IdleIsClean'
<1> SUFFICES ASSUME TypeOK, IdleIsClean, [Next]_vars PROVE IdleIsClean'
  OBVIOUS
<1> USE DEF TypeOK, IdleIsClean
<1>1. ASSUME NEW c \in Callers, NEW p \in Paths, NEW k \in Containers,
             Hit(c, p, k) \/ Miss(c, p, k)
      PROVE  IdleIsClean'
  BY <1>1 DEF Hit, Miss, Starts
<1>2. ASSUME NEW c \in Callers, Sample(c) PROVE IdleIsClean'
  BY <1>2 DEF Sample, SampleFails, SampleEmpty, SampleDocs
<1>3. ASSUME NEW c \in Callers, Insert(c) PROVE IdleIsClean'
  BY <1>3 DEF Insert
<1>4. ASSUME NEW c \in Callers, Return(c) PROVE IdleIsClean'
  BY <1>4 DEF Return
<1>5. CASE (\E k \in Containers : Write(k)) \/ UNCHANGED vars
  BY <1>5 DEF Write, vars
<1> QED
  BY <1>1, <1>2, <1>3, <1>4, <1>5 DEF Next, Begin

(* A step keeps the origin of every schema: served only grows. *)
LEMMA SamplesStep ==
  TypeOK /\ SchemasComeFromSamples /\ [Next]_vars => SchemasComeFromSamples'
<1> SUFFICES ASSUME TypeOK, SchemasComeFromSamples, [Next]_vars
             PROVE  SchemasComeFromSamples'
  OBVIOUS
<1> USE DEF TypeOK, SchemasComeFromSamples
<1>1. ASSUME NEW c \in Callers, NEW p \in Paths, NEW k \in Containers,
             Hit(c, p, k)
      PROVE  SchemasComeFromSamples'
  BY <1>1 DEF Hit, Starts
<1>2. ASSUME NEW c \in Callers, NEW p \in Paths, NEW k \in Containers,
             Miss(c, p, k)
      PROVE  SchemasComeFromSamples'
  BY <1>2 DEF Miss, Starts
<1>3. ASSUME NEW c \in Callers, SampleFails(c) PROVE SchemasComeFromSamples'
  BY <1>3 DEF SampleFails
<1>4. ASSUME NEW c \in Callers, SampleEmpty(c) PROVE SchemasComeFromSamples'
  BY <1>4 DEF SampleEmpty, Paths
<1>5. ASSUME NEW c \in Callers, SampleDocs(c) PROVE SchemasComeFromSamples'
  <2>1. PICK S \in Samples(key[c], Limit(path[c])) :
          /\ schema' = [schema EXCEPT ![c] = SchemaOf(key[c], S)]
          /\ served' = [served EXCEPT ![key[c]] = @ \cup {SchemaOf(key[c], S)}]
    BY <1>5 DEF SampleDocs
  <2>2. \A k \in Containers : served[k] \subseteq served'[k]
    BY <2>1
  <2>3. schema'[c] \in served'[key[c]]
    BY <1>5, <2>1 DEF SampleDocs
  <2> QED
    BY <1>5, <2>1, <2>2, <2>3 DEF SampleDocs
<1>6. ASSUME NEW c \in Callers, Insert(c) PROVE SchemasComeFromSamples'
  BY <1>6 DEF Insert
<1>7. ASSUME NEW c \in Callers, Return(c) PROVE SchemasComeFromSamples'
  BY <1>7 DEF Return
<1>8. ASSUME NEW k \in Containers, Write(k) PROVE SchemasComeFromSamples'
  BY <1>8 DEF Write
<1>9. CASE UNCHANGED vars
  BY <1>9 DEF vars
<1> QED
  BY <1>1, <1>2, <1>3, <1>4, <1>5, <1>6, <1>7, <1>8, <1>9
     DEF Next, Begin, Sample

(* A filled entry stays filled: the only write to the cache is an insert,  *)
(* and what it inserts is a schema.                                        *)
LEMMA CacheKeeps ==
  TypeOK /\ SchemasComeFromSamples /\ [Next]_vars =>
    \A k \in Containers : cache[k] # NoSchema => cache'[k] # NoSchema
<1> SUFFICES ASSUME TypeOK, SchemasComeFromSamples, [Next]_vars,
                    NEW k \in Containers, cache[k] # NoSchema
             PROVE  cache'[k] # NoSchema
  OBVIOUS
<1>1. ASSUME NEW c \in Callers, Insert(c) PROVE cache'[k] # NoSchema
  <2>1. schema[c] \in Schemas
    BY <1>1 DEF Insert, TypeOK, SchemasComeFromSamples
  <2> QED
    BY <1>1, <2>1, NoSchemaIsNone DEF Insert, TypeOK
<1>2. ASSUME cache' = cache PROVE cache'[k] # NoSchema
  BY <1>2
<1> QED
  BY <1>1, <1>2
     DEF Next, Begin, Sample, Hit, Miss, SampleFails, SampleEmpty, SampleDocs,
         Return, Write, vars

(* The fills: an insert counts one for a container its caller had not      *)
(* filled, and leaves its entry filled; a lookup that misses is about a    *)
(* container nobody has filled.                                            *)
FillInv == FilledStaysFilled /\ InFlightNotFilled /\ OneFillPerCaller

LEMMA FillStep == IInv /\ [Next]_vars => FillInv'
<1> SUFFICES ASSUME IInv, [Next]_vars PROVE FillInv'
  OBVIOUS
<1>0. \A k \in Containers : cache[k] # NoSchema => cache'[k] # NoSchema
  BY CacheKeeps DEF IInv
<1> USE DEF IInv, TypeOK, FillInv, FilledStaysFilled, InFlightNotFilled,
            OneFillPerCaller
<1>1. ASSUME NEW c \in Callers, NEW p \in Paths, NEW k \in Containers,
             Hit(c, p, k)
      PROVE  FillInv'
  BY <1>1 DEF Hit, Starts
<1>2. ASSUME NEW c \in Callers, NEW p \in Paths, NEW k \in Containers,
             Miss(c, p, k)
      PROVE  FillInv'
  <2>1. fills[c][k] = 0
    BY <1>2 DEF Miss
  <2> QED
    BY <1>2, <2>1 DEF Miss, Starts
<1>3. ASSUME NEW c \in Callers, SampleFails(c) PROVE FillInv'
  BY <1>3 DEF SampleFails
<1>4. ASSUME NEW c \in Callers, SampleEmpty(c) PROVE FillInv'
  BY <1>4 DEF SampleEmpty
<1>5. ASSUME NEW c \in Callers, SampleDocs(c) PROVE FillInv'
  BY <1>5 DEF SampleDocs
<1>6. ASSUME NEW c \in Callers, Insert(c) PROVE FillInv'
  <2>1. /\ key[c] \in Containers
        /\ fills[c][key[c]] = 0
        /\ fills' = [fills EXCEPT ![c][key[c]] = 1]
    BY <1>6 DEF Insert
  <2>2. cache'[key[c]] # NoSchema
    BY <1>6, <2>1, NoSchemaIsNone DEF Insert, SchemasComeFromSamples
  <2>3. FilledStaysFilled'
    BY <1>0, <2>1, <2>2
  <2>4. InFlightNotFilled'
    BY <1>6, <2>1 DEF Insert
  <2>5. OneFillPerCaller'
    BY <2>1
  <2> QED
    BY <2>3, <2>4, <2>5
<1>7. ASSUME NEW c \in Callers, Return(c) PROVE FillInv'
  BY <1>7 DEF Return
<1>8. ASSUME NEW k \in Containers, Write(k) PROVE FillInv'
  BY <1>8 DEF Write
<1>9. CASE UNCHANGED vars
  BY <1>9 DEF vars
<1> QED
  BY <1>1, <1>2, <1>3, <1>4, <1>5, <1>6, <1>7, <1>8, <1>9
     DEF Next, Begin, Sample

----------------------------------------------------------------------------
(* The invariant holds in every reachable state. *)
THEOREM Invariance == Spec => []IInv
<1>1. IInv /\ [Next]_vars => IInv'
  BY TypeStep, IdleStep, SamplesStep, FillStep DEF IInv, FillInv
<1> QED
  BY InitInv, <1>1, PTL DEF Spec

(* Every reachable state is well typed. *)
THEOREM TypeCorrect == Spec => []TypeOK
<1>1. IInv => TypeOK
  BY DEF IInv
<1> QED
  BY Invariance, <1>1, PTL

(* A schema in the cache or returned to a caller was inferred from         *)
(* documents the container held: catalog.rs:93-99, metadata.rs:56-61.      *)
THEOREM Provenance == Spec => []SchemasComeFromSamples
<1>1. IInv => SchemasComeFromSamples
  BY DEF IInv
<1> QED
  BY Invariance, <1>1, PTL

(* No thread samples and fills one container twice (lib.rs:29-32).         *)
THEOREM Memoized == Spec => []OneFillPerCaller
<1>1. IInv => OneFillPerCaller
  BY DEF IInv
<1> QED
  BY Invariance, <1>1, PTL

(* A filled entry stays filled and keeps later calls from sampling.        *)
THEOREM LateCallsHit == Spec => NoLateSampler
<1>1. IInv /\ [Next]_vars =>
        [\A k \in Containers : cache[k] # NoSchema =>
           cache'[k] # NoSchema /\ InFlight(k)' \subseteq InFlight(k)]_vars
  <2> SUFFICES ASSUME IInv, [Next]_vars,
                      NEW k \in Containers, cache[k] # NoSchema
               PROVE  cache'[k] # NoSchema /\ InFlight(k)' \subseteq InFlight(k)
    OBVIOUS
  <2>1. cache'[k] # NoSchema
    BY CacheKeeps DEF IInv
  <2>2. InFlight(k)' \subseteq InFlight(k)
    BY DEF IInv, TypeOK, InFlight, Next, Begin, Sample, Starts, Hit, Miss,
           SampleFails, SampleEmpty, SampleDocs, Insert, Return, Write, vars
  <2> QED
    BY <2>1, <2>2
<1> QED
  BY Invariance, <1>1, PTL DEF Spec, NoLateSampler

----------------------------------------------------------------------------
(* The refinement.  Each step of a call is a step of the memoizer or       *)
(* leaves what it sees alone: the sample is inside Ask .. Learn, and       *)
(* writers are outside.                                                    *)
LEMMA MemoInit == Init => Memo!Init
BY DEF Init, Memo!Init, Reply

LEMMA MemoStep == IInv /\ [Next]_vars => [Memo!Next]_(Memo!vars)
<1> SUFFICES ASSUME IInv, [Next]_vars PROVE [Memo!Next]_(Memo!vars)
  OBVIOUS
<1> USE DEF IInv, TypeOK, Reply
<1>1. ASSUME NEW c \in Callers, NEW p \in Paths, NEW k \in Containers,
             Hit(c, p, k)
      PROVE  Memo!Recall(c, k)
  BY <1>1 DEF Hit, Starts, Memo!Recall, IdleIsClean
<1>2. ASSUME NEW c \in Callers, NEW p \in Paths, NEW k \in Containers,
             Miss(c, p, k)
      PROVE  Memo!Ask(c, k)
  BY <1>2 DEF Miss, Starts, Memo!Ask, IdleIsClean
<1>3. ASSUME NEW c \in Callers, SampleFails(c) PROVE Memo!GiveUp(c)
  BY <1>3 DEF SampleFails, Memo!GiveUp
<1>4. ASSUME NEW c \in Callers, SampleEmpty(c) PROVE Memo!GiveUp(c)
  BY <1>4 DEF SampleEmpty, Memo!GiveUp
<1>5. ASSUME NEW c \in Callers, SampleDocs(c) PROVE UNCHANGED Memo!vars
  BY <1>5 DEF SampleDocs, Memo!vars
<1>6. ASSUME NEW c \in Callers, Insert(c) PROVE Memo!Learn(c)
  <2>1. schema[c] \in Schemas /\ key[c] \in Containers
    BY <1>6 DEF Insert, SchemasComeFromSamples
  <2> QED
    BY <1>6, <2>1 DEF Insert, Memo!Learn
<1>7. ASSUME NEW c \in Callers, Return(c) PROVE Memo!Return(c)
  <2>1. answer[c] # NoSchema /\ answer[c] # "waiting"
    BY <1>7, InferSchemaType
       DEF Return, SchemasComeFromSamples, Schemas, NoSchema, Failed, NotFound
  <2> QED
    BY <1>7, <2>1 DEF Return, Memo!Return
<1>8. ASSUME NEW k \in Containers, Write(k) PROVE UNCHANGED Memo!vars
  BY <1>8 DEF Write, Memo!vars
<1>9. CASE UNCHANGED vars
  BY <1>9 DEF vars, Memo!vars
<1> QED
  BY <1>1, <1>2, <1>3, <1>4, <1>5, <1>6, <1>7, <1>8, <1>9
     DEF Next, Begin, Sample, Memo!Next

(* The two paths of the code, together, implement the memoizer. *)
THEOREM Refinement == Spec => ImplementsMemoizer
<1>1. Init => Memo!Init
  BY MemoInit
<1>2. IInv /\ [Next]_vars => [Memo!Next]_(Memo!vars)
  BY MemoStep
<1> QED
  BY Invariance, <1>1, <1>2, PTL DEF Spec, ImplementsMemoizer, Memo!Spec
=============================================================================
