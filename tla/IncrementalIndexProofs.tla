----------------------- MODULE IncrementalIndexProofs -----------------------
(* Theorems about IncrementalIndex, for every number of documents and jobs *)
(* and every way of cutting texts into chunks: its types, its extractions, *)
(* and what an incremental job that succeeds leaves, whatever is deleted,  *)
(* retried, raised or killed meanwhile.                                    *)
EXTENDS IncrementalIndex, FiniteSetTheorems, TLAPS

(* Pieces(docs, dc): the documents of docs that give document dc[1] a row  *)
(* with chunk dc[2].                                                       *)
Pieces(docs, dc) == {dt \in docs : dt[1] = dc[1] /\ dc[2] \in ChunksOf[dt[2]]}

(* Their number is a natural number.                                       *)
LEMMA PieceCount ==
  ASSUME NEW docs \in SUBSET (DocIds \X Texts), NEW dc
  PROVE  Cardinality(Pieces(docs, dc)) \in Nat
<1>1. IsFiniteSet(DocIds)
  BY FS_Interval, DataAssumption DEF DocIds
<1>2. IsFiniteSet(DocIds \X Texts)
  BY <1>1, FS_Product, DataAssumption
<1>3. Pieces(docs, dc) \subseteq DocIds \X Texts
  BY DEF Pieces
<1>4. IsFiniteSet(Pieces(docs, dc))
  BY <1>2, <1>3, FS_Subset
<1>5. QED  BY <1>4, FS_CardinalityType

(* The rows that a chunking step leaves are counted.                       *)
LEMMA ChunkedRows ==
  ASSUME TypeOK, NEW docs \in SUBSET (DocIds \X Texts)
  PROVE  WithChunks(docs) \in [DocIds \X ChunkIds -> Nat]
<1>1. \A dc \in DocIds \X ChunkIds : Cardinality(Pieces(docs, dc)) \in Nat
  BY PieceCount
<1>2. \A dc \in DocIds \X ChunkIds : rows[dc] \in Nat
  BY DEF TypeOK
<1>3. WithChunks(docs) =
        [dc \in DocIds \X ChunkIds |-> rows[dc] + Cardinality(Pieces(docs, dc))]
  BY Zenon DEF WithChunks, Pieces
<1>4. QED  BY <1>1, <1>2, <1>3

-----------------------------------------------------------------------------
(* Type correctness.                                                       *)

LEMMA TypeInit == Init => TypeOK
<1> SUFFICES ASSUME Init PROVE TypeOK
  OBVIOUS
<1>1. /\ doc \in [DocIds -> Texts \cup {NoText}]
      /\ rows \in [DocIds \X ChunkIds -> Nat]
      /\ unit \in [Jobs \X ChunkIds -> {"none", "pending", "succeeded", "failed"}]
  BY DEF Init
<1>2. /\ jtype \in [Jobs -> {"full", "incremental"}]
      /\ job \in [Jobs -> {"none", "pending", "running", "succeeded", "failed"}]
      /\ done \in [Jobs -> SUBSET StepNames]
  BY DEF Init
<1>3. asking \in Nat /\ crashes \in 0..MaxCrashes /\ retries \in 0..MaxRetries
  BY DataAssumption DEF Init
<1>4. QED  BY <1>1, <1>2, <1>3 DEF Init, TypeOK, Points

LEMMA TypeApiStep == TypeOK /\ ApiStep => TypeOK'
<1> SUFFICES ASSUME TypeOK, ApiStep PROVE TypeOK'
  OBVIOUS
<1> USE DataAssumption
    DEF TypeOK, DocIds, Jobs, NoJob, documents, artefacts, graphFiles, vectors, control,
        memory, worker, history, bounds
<1>1. ASSUME NEW t \in Texts, NEW d \in DocIds, Upload(t, d) PROVE TypeOK'
  BY <1>1 DEF Upload
<1>2. ASSUME NEW d \in DocIds, DeleteDocument(d) PROVE TypeOK'
  <2>1. gone' \subseteq ChunkIds
    BY <1>2 DEF DeleteDocument, Live
  <2>2. rows' \in [DocIds \X ChunkIds -> Nat]
    BY <1>2 DEF DeleteDocument
  <2>3. doc' \in [DocIds -> Texts \cup {NoText}] /\ asking' \in Nat
    BY <1>2 DEF DeleteDocument
  <2>4. QED  BY <1>2, <2>1, <2>2, <2>3 DEF DeleteDocument
<1>3. ASSUME NEW j \in Jobs, TriggerJob(j) PROVE TypeOK'
  BY <1>3 DEF TriggerJob, Create
<1>4. CASE MaybeCreateShrinkJob
  <2>1. asking' \in Nat
    BY <1>4 DEF MaybeCreateShrinkJob
  <2>2. CASE UNCHANGED control
    BY <1>4, <2>1, <2>2 DEF MaybeCreateShrinkJob
  <2>3. ASSUME NEW j \in Jobs, Create(j, "incremental") PROVE TypeOK'
    BY <1>4, <2>1, <2>3 DEF MaybeCreateShrinkJob, Create
  <2>4. QED  BY <1>4, <2>2, <2>3 DEF MaybeCreateShrinkJob
<1>5. ASSUME NEW j \in Jobs, NEW c \in ChunkIds, RetryUnit(j, c) PROVE TypeOK'
  BY <1>5 DEF RetryUnit
<1> HIDE DEF TypeOK, Jobs, DocIds
<1>6. QED  BY <1>1, <1>2, <1>3, <1>4, <1>5 DEF ApiStep

LEMMA TypeChunkStep == TypeOK /\ ChunkStep => TypeOK'
<1> SUFFICES ASSUME TypeOK, ChunkStep PROVE TypeOK'
  OBVIOUS
<1> USE DEF TypeOK, Working, documents, artefacts, graphFiles, vectors, control,
        memory, worker, history, bounds, Points
<1>1. CASE ReadDocuments
  BY <1>1, DataAssumption DEF ReadDocuments, Executing, Present
<1>2. CASE WriteManifest
  BY <1>2 DEF WriteManifest
<1>3. CASE ChunkDocuments
  <2>1. rows' \in [DocIds \X ChunkIds -> Nat]
    BY <1>3, ChunkedRows DEF ChunkDocuments
  <2>2. QED  BY <1>3, <2>1 DEF ChunkDocuments
<1>4. CASE WriteTextUnits
  BY <1>4, DataAssumption DEF WriteTextUnits
<1>5. ASSUME NEW d \in DocIds, NEW t \in Texts, LoadDocument(d, t) PROVE TypeOK'
  <2>1. rows' \in [DocIds \X ChunkIds -> Nat]
    BY <1>5, ChunkedRows DEF LoadDocument
  <2>2. QED  BY <1>5, <2>1, DataAssumption DEF LoadDocument
<1> HIDE DEF TypeOK
<1>6. QED  BY <1>1, <1>2, <1>3, <1>4, <1>5 DEF ChunkStep

LEMMA TypeExtractStep == TypeOK /\ ExtractStep => TypeOK'
<1> SUFFICES ASSUME TypeOK, ExtractStep PROVE TypeOK'
  OBVIOUS
<1> USE DEF TypeOK, Working, documents, artefacts, graphFiles, vectors, control,
        memory, worker, history, bounds, Points
<1>1. CASE SelectBatch
  BY <1>1 DEF SelectBatch, Executing, Selectable, Live
<1>2. CASE FinalizeExtract
  BY <1>2 DEF FinalizeExtract, Executing, WriteGraph, SucceededUnits
<1>3. ASSUME NEW c \in ChunkIds, ExtractChunk(c) PROVE TypeOK'
  BY <1>3 DEF ExtractChunk
<1>4. ASSUME NEW c \in ChunkIds, SucceedUnit(c) PROVE TypeOK'
  BY <1>4 DEF SucceedUnit, UnitOutcome
<1>5. ASSUME NEW c \in ChunkIds, FailUnit(c) PROVE TypeOK'
  BY <1>5 DEF FailUnit, UnitOutcome
<1> HIDE DEF TypeOK
<1>6. QED  BY <1>1, <1>2, <1>3, <1>4, <1>5 DEF ExtractStep

LEMMA TypeGraphStep == TypeOK /\ GraphStep => TypeOK'
<1> SUFFICES ASSUME TypeOK, GraphStep PROVE TypeOK'
  OBVIOUS
<1> USE DEF TypeOK, Working, Executing, documents, artefacts, graphFiles, vectors, control,
        memory, worker, history, bounds, Points
<1>1. CASE MergeDelta
  BY <1>1 DEF MergeDelta, Pruned, Mergeable, WriteGraph, Live
<1>2. CASE Derive  BY <1>2 DEF Derive
<1>3. CASE UpdateCleanState  BY <1>3 DEF UpdateCleanState, Live
<1>4. CASE EmbedTextUnits  BY <1>4 DEF EmbedTextUnits
<1>5. CASE EmbedGraph  BY <1>5 DEF EmbedGraph
<1> HIDE DEF TypeOK
<1>6. QED  BY <1>1, <1>2, <1>3, <1>4, <1>5 DEF GraphStep

LEMMA TypeLoopStep ==
  TypeOK /\ (SettleStep \/ StepRaises \/ FailJob \/ CompleteJob \/ Crash) => TypeOK'
<1> SUFFICES ASSUME TypeOK, SettleStep \/ StepRaises \/ FailJob \/ CompleteJob \/ Crash
             PROVE  TypeOK'
  OBVIOUS
<1> USE DEF TypeOK, Working, Leave, Jobs, NoJob, documents, artefacts, graphFiles, vectors,
        control, memory, worker, history, bounds, Points
<1>1. CASE SettleStep  BY <1>1, SMTT(30) DEF SettleStep
<1>2. CASE StepRaises  BY <1>2 DEF StepRaises
<1>3. CASE FailJob  BY <1>3 DEF FailJob
<1>4. CASE CompleteJob  BY <1>4 DEF CompleteJob
<1>5. CASE Crash
  <2>1. crashes' \in 0..MaxCrashes
    BY <1>5, DataAssumption DEF Crash
  <2>2. job' \in [Jobs -> {"none", "pending", "running", "succeeded", "failed"}]
    BY <1>5 DEF Crash
  <2>3. QED  BY <1>5, <2>1, <2>2 DEF Crash
<1> HIDE DEF TypeOK
<1>6. QED  BY <1>1, <1>2, <1>3, <1>4, <1>5

LEMMA TypeClaim == TypeOK /\ (\E j \in Jobs : Claim(j)) => TypeOK'
<1> SUFFICES ASSUME TypeOK, NEW j \in Jobs, Claim(j) PROVE TypeOK'
  OBVIOUS
<1>1. PlanSteps(jtype[j]) \subseteq StepNames
  BY DEF TypeOK, StepNames
<1>2. late' \subseteq Jobs /\ UNCHANGED gone
  BY DEF Claim, TypeOK
<1>3. QED
  BY <1>1, <1>2, DataAssumption
     DEF Claim, TypeOK, Jobs, NoJob, documents, artefacts, graphFiles, vectors, memory,
         bounds, Points

LEMMA TypeStutter == TypeOK /\ UNCHANGED vars => TypeOK'
  BY DEF TypeOK, vars, documents, artefacts, graphFiles, vectors, control, memory, worker,
         history, bounds

LEMMA TypeNext == TypeOK /\ [Next]_vars => TypeOK'
  BY TypeApiStep, TypeChunkStep, TypeExtractStep, TypeGraphStep, TypeLoopStep, TypeClaim,
     TypeStutter DEF Next, WorkerStep

(* Every variable keeps its type, and a worker that is not idle executes a *)
(* RUNNING job, whatever the chunker, the uploads and the crashes are.     *)
THEOREM TypeCorrect == Spec => []TypeOK
<1>1. QED  BY TypeInit, TypeNext, PTL DEF Spec

-----------------------------------------------------------------------------
(* Extractions.                                                            *)

(* The chunks of the knowledge base follow from the rows alone.            *)
LEMMA LiveFromRows == UNCHANGED rows => Live' = Live
  BY DEF Live

(* The extraction of a chunk that has a row after the step is there after  *)
(* it: merge_delta and a late unit drop extractions of other chunks only.  *)
LEMMA KeptNext == [Next]_vars => extracted \cap Live' \subseteq extracted'
<1> SUFFICES ASSUME [Next]_vars PROVE extracted \cap Live' \subseteq extracted'
  OBVIOUS
<1> USE DEF Working, documents, artefacts, graphFiles, vectors, control, memory, worker,
        history, bounds
<1>1. CASE UNCHANGED vars  BY <1>1 DEF vars
<1>2. CASE ApiStep
  BY <1>2 DEF ApiStep, Upload, DeleteDocument, TriggerJob, MaybeCreateShrinkJob, RetryUnit
<1>3. CASE ChunkStep
  BY <1>3 DEF ChunkStep, ReadDocuments, WriteManifest, ChunkDocuments, WriteTextUnits,
              LoadDocument
<1>4. ASSUME NEW c \in ChunkIds, ExtractChunk(c)
      PROVE  extracted \cap Live' \subseteq extracted'
  BY <1>4, LiveFromRows DEF ExtractChunk
<1>5. CASE ExtractStep
  BY <1>4, <1>5 DEF ExtractStep, SelectBatch, FinalizeExtract, SucceedUnit, FailUnit,
                    UnitOutcome
<1>6. CASE MergeDelta
  BY <1>6, LiveFromRows DEF MergeDelta, Pruned
<1>7. CASE GraphStep
  BY <1>6, <1>7 DEF GraphStep, Derive, UpdateCleanState, EmbedTextUnits, EmbedGraph
<1>8. CASE (\E j \in Jobs : Claim(j)) \/ SettleStep \/ StepRaises \/ FailJob \/ CompleteJob
           \/ Crash
  BY <1>8 DEF Claim, SettleStep, StepRaises, FailJob, CompleteJob, Crash
<1>9. QED  BY <1>1, <1>2, <1>3, <1>5, <1>7, <1>8 DEF Next, WorkerStep

(* No extraction of a chunk of the knowledge base is ever lost.            *)
THEOREM ExtractionsKeptHolds == Spec => ExtractionsKept
<1>1. [Next]_vars => [extracted \cap Live' \subseteq extracted']_vars
  BY KeptNext
<1>2. QED  BY <1>1, PTL DEF Spec, ExtractionsKept

-----------------------------------------------------------------------------
(* The order of a plan's steps.                                            *)

(* Before(type, s): the steps that precede s in the plan of the type.      *)
Before(type, s) ==
  {Plan(type)[i] : i \in {n \in DOMAIN Plan(type) :
                            \E k \in DOMAIN Plan(type) : Plan(type)[k] = s /\ n < k}}

JobTypeNames == {"full", "incremental"}

LEMMA Earlier ==
  ASSUME NEW type, NEW i \in DOMAIN Plan(type), NEW k \in DOMAIN Plan(type), i < k
  PROVE  Plan(type)[i] \in Before(type, Plan(type)[k])
  BY DEF Before

(* The first step of a job.                                                *)
FirstStep(type) == IF type = "incremental" THEN "load_update_documents" ELSE "chunk_documents"

(* What precedes what in plan_full.                                        *)
LEMMA FullOrder ==
  /\ PlanSteps("full") = {"chunk_documents", "extract_graph", "generate_text_embeddings"}
                           \cup DerivedSteps
  /\ \A s \in PlanSteps("full") \ {"chunk_documents"} : "chunk_documents" \in Before("full", s)
  /\ \A s \in DerivedSteps \cup {"generate_text_embeddings"} :
        "extract_graph" \in Before("full", s)
  /\ \A s \in DerivedSteps : s \in Before("full", "generate_text_embeddings")
<1>1. /\ Plan("full") = PlanFull /\ DOMAIN PlanFull = 1..7
      /\ PlanFull[1] = "chunk_documents" /\ PlanFull[2] = "extract_graph"
      /\ PlanFull[3] = "summarize_descriptions" /\ PlanFull[4] = "finalize_graph"
      /\ PlanFull[5] = "create_communities" /\ PlanFull[6] = "community_reports"
      /\ PlanFull[7] = "generate_text_embeddings"
  BY DEF Plan, PlanFull
<1>2. PlanSteps("full") = {PlanFull[i] : i \in 1..7}
  BY <1>1 DEF PlanSteps
<1>3. \A s : s \in PlanSteps("full") <=> \E i \in 1..7 : s = PlanFull[i]
  BY <1>2
<1>4. PlanSteps("full") = {"chunk_documents", "extract_graph", "generate_text_embeddings"}
                           \cup DerivedSteps
  BY <1>1, <1>3 DEF DerivedSteps
<1>5. \A i, k \in 1..7 : i < k => PlanFull[i] \in Before("full", PlanFull[k])
  BY <1>1, Earlier
<1>6. \A k \in 2..7 : "chunk_documents" \in Before("full", PlanFull[k])
  BY <1>1, <1>5
<1>7. \A k \in 3..7 : "extract_graph" \in Before("full", PlanFull[k])
  BY <1>1, <1>5
<1>8. \A i \in 3..6 : PlanFull[i] \in Before("full", "generate_text_embeddings")
  BY <1>1, <1>5
<1>9. \A s \in DerivedSteps : \E i \in 3..6 : s = PlanFull[i]
  BY <1>1 DEF DerivedSteps
<1>10. \A s \in PlanSteps("full") \ {"chunk_documents"} : \E k \in 2..7 : s = PlanFull[k]
  BY <1>1, <1>3
<1>11. \A s \in DerivedSteps \cup {"generate_text_embeddings"} : \E k \in 3..7 : s = PlanFull[k]
  BY <1>1, <1>9
<1>12. QED  BY <1>4, <1>6, <1>7, <1>8, <1>9, <1>10, <1>11

(* What precedes what in plan_incremental.                                 *)
LEMMA IncrementalOrder ==
  /\ PlanSteps("incremental") =
        {"load_update_documents", "extract_graph", "merge_delta", "update_clean_state",
         "generate_text_embeddings"} \cup DerivedSteps
  /\ \A s \in PlanSteps("incremental") \ {"load_update_documents"} :
        "load_update_documents" \in Before("incremental", s)
  /\ \A s \in DerivedSteps \cup {"update_clean_state", "generate_text_embeddings"} :
        "merge_delta" \in Before("incremental", s)
  /\ \A s \in DerivedSteps \cup {"merge_delta", "update_clean_state", "generate_text_embeddings"} :
        "extract_graph" \in Before("incremental", s)
  /\ \A s \in DerivedSteps \cup {"update_clean_state"} :
        s \in Before("incremental", "generate_text_embeddings")
<1> DEFINE P == PlanIncremental
           b(s) == Before("incremental", s)
<1>1. /\ Plan("incremental") = P /\ DOMAIN P = 1..9
      /\ P[1] = "load_update_documents" /\ P[2] = "extract_graph" /\ P[3] = "merge_delta"
      /\ P[4] = "summarize_descriptions" /\ P[5] = "finalize_graph"
      /\ P[6] = "create_communities" /\ P[7] = "community_reports"
      /\ P[8] = "update_clean_state" /\ P[9] = "generate_text_embeddings"
  BY DEF Plan, PlanIncremental
<1>2. PlanSteps("incremental") = {P[i] : i \in 1..9}
  BY <1>1 DEF PlanSteps
<1> HIDE DEF P
<1>3. \A s : s \in PlanSteps("incremental") <=> \E i \in 1..9 : s = P[i]
  BY <1>2
<1>4. PlanSteps("incremental") =
        {"load_update_documents", "extract_graph", "merge_delta", "update_clean_state",
         "generate_text_embeddings"} \cup DerivedSteps
  BY <1>1, <1>3 DEF DerivedSteps
<1>5. \A i, k \in 1..9 : i < k => P[i] \in b(P[k])
  BY <1>1, Earlier
<1> HIDE DEF b
<1>6. \A k \in 2..9 : "load_update_documents" \in b(P[k])
  BY <1>1, <1>5
<1>7. \A k \in 4..9 : "merge_delta" \in b(P[k])
  BY <1>1, <1>5
<1>8. \A k \in 3..9 : "extract_graph" \in b(P[k])
  BY <1>1, <1>5
<1>9. \A i \in 4..8 : P[i] \in b("generate_text_embeddings")
  BY <1>1, <1>5
<1>10. \A s \in PlanSteps("incremental") \ {"load_update_documents"} : \E k \in 2..9 : s = P[k]
  BY <1>1, <1>3
<1>11. \A s \in DerivedSteps \cup {"update_clean_state"} : \E i \in 4..8 : s = P[i]
  BY <1>1 DEF DerivedSteps
<1>12. \A s \in DerivedSteps \cup {"update_clean_state", "generate_text_embeddings"} :
          \E k \in 4..9 : s = P[k]
  BY <1>1, <1>11
<1>13. \A s \in DerivedSteps \cup {"merge_delta", "update_clean_state",
                                   "generate_text_embeddings"} : \E k \in 3..9 : s = P[k]
  BY <1>1, <1>12
<1>14. QED
  BY <1>4, <1>6, <1>7, <1>8, <1>9, <1>10, <1>11, <1>12, <1>13 DEF b

(* There is one current step at a time.                                    *)
LEMMA OneCurrent ==
  ASSUME todo \subseteq PlanSteps(jtype[wjob]), NEW s, NEW r, Current(s), Current(r)
  PROVE  s = r
<1> DEFINE plan == Plan(jtype[wjob])
<1>1. PICK i \in DOMAIN plan : plan[i] = s
  BY DEF Current, PlanSteps
<1>2. PICK k \in DOMAIN plan : plan[k] = r
  BY DEF Current, PlanSteps
<1>3. DOMAIN plan \subseteq Nat
  BY DEF Plan, PlanFull, PlanIncremental
<1>4. ~(i < k) /\ ~(k < i)
  BY <1>1, <1>2 DEF Current
<1>5. QED  BY <1>1, <1>2, <1>3, <1>4

(* The first step of either plan precedes the extraction.                  *)
LEMMA FirstOfPlan ==
  ASSUME NEW type \in JobTypeNames, NEW s \in {"load_update_documents", "chunk_documents"},
         s \in PlanSteps(type)
  PROVE  "extract_graph" \notin Before(type, s)
<1> SUFFICES ASSUME "extract_graph" \in Before(type, s) PROVE FALSE
  OBVIOUS
<1>1. PICK i \in DOMAIN Plan(type) : \E k \in DOMAIN Plan(type) : Plan(type)[k] = s /\ i < k
  BY DEF Before
<1>2. PICK k \in DOMAIN Plan(type) : Plan(type)[k] = s /\ i < k
  BY <1>1
<1>3. CASE type = "full"
  <2>1. DOMAIN Plan(type) = 1..7 /\ Plan(type) = PlanFull
    BY <1>3 DEF Plan, PlanFull
  <2>2. k = 1
    BY <1>2, <2>1 DEF PlanFull
  <2>3. QED  BY <1>2, <2>1, <2>2
<1>4. CASE type = "incremental"
  <2>1. DOMAIN Plan(type) = 1..9 /\ Plan(type) = PlanIncremental
    BY <1>4 DEF Plan, PlanIncremental
  <2>2. k = 1
    BY <1>2, <2>1 DEF PlanIncremental
  <2>3. QED  BY <1>2, <2>1, <2>2
<1>5. QED  BY <1>3, <1>4 DEF JobTypeNames

-----------------------------------------------------------------------------
(* What jobs have done, and in which order.                                *)

FirstSteps == {"load_update_documents", "chunk_documents", "extract_graph"}

(* A RUNNING job is the worker's.  One that waits with later steps done,   *)
(* and is not late, has been put back by recovery: it is taken next, or    *)
(* becomes late.                                                           *)
Order ==
  /\ \A j \in Jobs : job[j] = "running" => j = wjob
  /\ \A j \in Jobs : job[j] = "none" => done[j] = {}
  /\ \A j \in Jobs \ late : job[j] = "pending" /\ Later(j) # {} => wjob = NoJob

(* The steps of a job that is not late are done in the plan's order.       *)
Closed ==
  /\ \A j \in Jobs : done[j] \subseteq PlanSteps(jtype[j])
  /\ \A j \in Jobs \ late : \A s \in done[j] : Before(jtype[j], s) \subseteq done[j]

(* What the worker has still to do.                                        *)
Remaining ==
  /\ wjob # NoJob => todo = PlanSteps(jtype[wjob]) \ done[wjob]
  /\ wjob = NoJob => todo = {}

(* Where it is in its step.                                                *)
Position ==
  /\ at = "load" => Current("load_update_documents")
  /\ at \in {"chunk", "text_units"} => Current("chunk_documents")
  /\ at = "extract" => Current("extract_graph")
  /\ at = "embed_graph" => Current("generate_text_embeddings")

Progress == TypeOK /\ Order /\ Closed /\ Remaining /\ Position

(* The steps between two commits of the job's own rows.                    *)
WorkStep == ChunkStep \/ ExtractStep \/ GraphStep \/ StepRaises

LEMMA StepCases ==
  ASSUME [Next]_vars
  PROVE  \/ ApiStep \/ WorkStep \/ SettleStep \/ FailJob \/ CompleteJob \/ Crash
         \/ \E j \in Jobs : Claim(j)
         \/ UNCHANGED vars
  BY DEF Next, WorkerStep, WorkStep

LEMMA WorkFrame ==
  ASSUME WorkStep
  PROVE  UNCHANGED <<jtype, job, done, wjob, todo, late>>
<1> USE DEF Working, documents, control, history
<1>1. CASE ChunkStep
  BY <1>1 DEF ChunkStep, ReadDocuments, WriteManifest, ChunkDocuments, WriteTextUnits,
              LoadDocument
<1>2. CASE ExtractStep
  BY <1>2 DEF ExtractStep, SelectBatch, FinalizeExtract, ExtractChunk, SucceedUnit, FailUnit,
              UnitOutcome
<1>3. CASE GraphStep
  BY <1>3 DEF GraphStep, MergeDelta, Derive, UpdateCleanState, EmbedTextUnits, EmbedGraph
<1>4. CASE StepRaises
  BY <1>4 DEF StepRaises
<1>5. QED  BY <1>1, <1>2, <1>3, <1>4 DEF WorkStep

(* A request leaves the worker and the files alone.                        *)
LEMMA ApiFrame ==
  ASSUME ApiStep, TypeOK
  PROVE  /\ UNCHANGED <<wjob, todo, at>>
         /\ UNCHANGED <<extracted, graph, current, textUnits, vecText, vecGraph>>
         /\ \/ UNCHANGED <<jtype, job, done, late>>
            \/ \E j \in Jobs : \E type \in JobTypeNames :
                 Create(j, type) /\ UNCHANGED late
            \/ \E j \in Jobs : \E c \in ChunkIds : RetryUnit(j, c)
         /\ UNCHANGED <<rows, gone>> \/ \E d \in DocIds : DeleteDocument(d)
<1> USE DEF artefacts, control, worker, memory, documents, graphFiles, vectors, history
<1>1. ASSUME NEW t \in Texts, NEW d \in DocIds, Upload(t, d)
      PROVE  /\ UNCHANGED <<wjob, todo, at, extracted, graph, current, textUnits, vecText,
                            vecGraph, jtype, job, done, late, rows, gone>>
  BY <1>1 DEF Upload
<1>2. ASSUME NEW d \in DocIds, DeleteDocument(d)
      PROVE  /\ UNCHANGED <<wjob, todo, at, extracted, graph, current, textUnits, vecText,
                            vecGraph, jtype, job, done, late>>
  BY <1>2 DEF DeleteDocument
<1>3. ASSUME NEW j \in Jobs, TriggerJob(j)
      PROVE  /\ UNCHANGED <<wjob, todo, at, extracted, graph, current, textUnits, vecText,
                            vecGraph, late, rows, gone>>
             /\ \E type \in JobTypeNames : Create(j, type)
  BY <1>3, DataAssumption DEF TriggerJob, JobTypeNames
<1>4. CASE MaybeCreateShrinkJob
  <2>1. UNCHANGED <<wjob, todo, at, extracted, graph, current, textUnits, vecText,
                    vecGraph, late, rows, gone>>
    BY <1>4 DEF MaybeCreateShrinkJob
  <2>2. UNCHANGED control \/ \E j \in Jobs : Create(j, "incremental")
    BY <1>4 DEF MaybeCreateShrinkJob
  <2>3. QED  BY <2>1, <2>2 DEF JobTypeNames
<1>5. ASSUME NEW j \in Jobs, NEW c \in ChunkIds, RetryUnit(j, c)
      PROVE  /\ UNCHANGED <<wjob, todo, at, extracted, graph, current, textUnits, vecText,
                            vecGraph, rows, gone>>
  BY <1>5 DEF RetryUnit
<1>6. QED  BY <1>1, <1>2, <1>3, <1>4, <1>5 DEF ApiStep

(* A crash interrupts a job under way.                                     *)
LEMMA CrashedJob == TypeOK /\ Remaining /\ Crash => wjob \in Jobs /\ job[wjob] = "running"
<1> SUFFICES ASSUME TypeOK, Remaining, Crash PROVE wjob # NoJob
  BY DEF TypeOK
<1>1. PICK s : Current(s)
  BY DEF Crash
<1>2. ASSUME wjob = NoJob PROVE FALSE
  <2>1. todo = {}
    BY <1>2 DEF Remaining
  <2>2. QED  BY <1>1, <2>1 DEF Current
<1>3. QED  BY <1>2

LEMMA WorkingJob ==
  ASSUME Progress, WorkStep \/ SettleStep \/ FailJob \/ CompleteJob
  PROVE  wjob \in Jobs /\ job[wjob] = "running" /\ wjob # NoJob /\ jtype[wjob] \in JobTypeNames
<1>1. at # "idle"
  BY DEF WorkStep, SettleStep, FailJob, CompleteJob, ChunkStep, ReadDocuments, WriteManifest,
         ChunkDocuments, WriteTextUnits, LoadDocument, ExtractStep, SelectBatch,
         FinalizeExtract, ExtractChunk, SucceedUnit, FailUnit, GraphStep, MergeDelta, Derive,
         UpdateCleanState, EmbedTextUnits, EmbedGraph, StepRaises, Executing
<1>2. QED  BY <1>1 DEF Progress, TypeOK, JobTypeNames

(* What a retry does to its job.                                           *)
LEMMA Retried ==
  ASSUME TypeOK, NEW j \in Jobs, NEW c \in ChunkIds, RetryUnit(j, c)
  PROVE  /\ UNCHANGED <<jtype, wjob, todo, at>>
         /\ job[j] = "failed" /\ job'[j] = "pending" /\ j # wjob
         /\ done'[j] = done[j] \ {"extract_graph"}
         /\ \A i \in Jobs \ {j} : job'[i] = job[i] /\ done'[i] = done[i]
         /\ late \subseteq late' /\ late' \subseteq late \cup {j}
         /\ j \notin late' => done[j] \subseteq FirstSteps
<1>1. j # wjob
  BY DEF RetryUnit, TypeOK, Jobs, NoJob
<1>2. QED  BY <1>1 DEF RetryUnit, TypeOK, worker, Later, FirstSteps

LEMMA OrderNext ==
  ASSUME Progress, [Next]_vars
  PROVE  Order'
<1> USE DEF NoJob, Jobs
<1>1. CASE UNCHANGED <<job, done, wjob, late>>
  BY <1>1 DEF Progress, Order, Later
<1>2. ASSUME NEW j \in Jobs, NEW type, Create(j, type), UNCHANGED <<wjob, late>> PROVE Order'
  <2>1. /\ job[j] = "none" /\ job'[j] = "pending" /\ UNCHANGED done
        /\ \A i \in Jobs : i # j => job'[i] = job[i]
    BY <1>2 DEF Create, Progress, TypeOK
  <2>2. done[j] = {}
    BY <2>1 DEF Progress, Order
  <2>3. QED  BY <1>2, <2>1, <2>2 DEF Progress, Order, Later
<1>3. ASSUME NEW j \in Jobs, NEW c \in ChunkIds, RetryUnit(j, c) PROVE Order'
  <2>1. j \notin late' => Later(j)' = {}
    BY <1>3, Retried DEF Progress, Later, FirstSteps
  <2>2. QED  BY <1>3, <2>1, Retried DEF Progress, Order, Later
<1>4. CASE ApiStep
  BY <1>1, <1>2, <1>3, <1>4, ApiFrame DEF Progress
<1>5. CASE WorkStep
  BY <1>1, <1>5, WorkFrame
<1>6. ASSUME NEW j \in Jobs, Claim(j) PROVE Order'
  <2>1. /\ job[j] = "pending" /\ wjob = NoJob /\ wjob' = j /\ UNCHANGED done
        /\ job'[j] = "running" /\ \A i \in Jobs : i # j => job'[i] = job[i]
        /\ late' = late \cup {i \in Jobs \ {j} : job[i] = "pending" /\ Later(i) # {}}
    BY <1>6 DEF Claim, Progress, TypeOK
  <2>2. QED  BY <2>1 DEF Progress, Order, Later
<1>7. CASE SettleStep
  <2>1. /\ UNCHANGED <<job, wjob, late>> /\ wjob \in Jobs /\ job[wjob] = "running"
        /\ \A i \in Jobs : i # wjob => done'[i] = done[i]
    BY <1>7 DEF SettleStep, Progress, TypeOK, Points, history
  <2>2. QED  BY <2>1 DEF Progress, Order, Later
<1>8. ASSUME NEW status \in {"succeeded", "failed", "pending"}, wjob \in Jobs,
             job' = [job EXCEPT ![wjob] = status], wjob' = NoJob, UNCHANGED <<done, late>>
      PROVE  Order'
  <2>1. /\ job'[wjob] = status /\ job[wjob] = "running"
        /\ \A i \in Jobs : i # wjob => job'[i] = job[i]
    BY <1>8 DEF Progress, TypeOK
  <2>2. QED  BY <1>8, <2>1 DEF Progress, Order, Later
<1>9. CASE FailJob
  BY <1>8, <1>9, WorkingJob DEF FailJob, Leave, history
<1>10. CASE CompleteJob
  BY <1>8, <1>10, WorkingJob DEF CompleteJob, Leave, history
<1>11. CASE Crash
  BY <1>8, <1>11, CrashedJob DEF Crash, Leave, Progress, history
<1>12. QED
  BY <1>1, <1>4, <1>5, <1>6, <1>7, <1>9, <1>10, <1>11, StepCases
     DEF vars, control, worker, history

(* The current step's predecessors are done, and it is not.                *)
LEMMA CurrentMeans ==
  ASSUME Progress, NEW s, Current(s)
  PROVE  /\ wjob \in Jobs /\ job[wjob] = "running" /\ jtype[wjob] \in JobTypeNames
         /\ s \in todo /\ s \in PlanSteps(jtype[wjob]) /\ s \notin done[wjob]
         /\ Before(jtype[wjob], s) \subseteq done[wjob]
         /\ todo \subseteq PlanSteps(jtype[wjob])
<1>1. wjob # NoJob
  BY DEF Progress, Remaining, Current
<1>2. wjob \in Jobs /\ job[wjob] = "running" /\ jtype[wjob] \in JobTypeNames
      /\ s \in todo /\ todo = PlanSteps(jtype[wjob]) \ done[wjob]
  BY <1>1 DEF Progress, TypeOK, Remaining, Current, JobTypeNames
<1>3. ASSUME NEW x \in Before(jtype[wjob], s) PROVE x \in done[wjob]
  <2>1. x \notin todo /\ x \in PlanSteps(jtype[wjob])
    BY DEF Current, Before, PlanSteps
  <2>2. QED  BY <1>2, <2>1
<1>4. QED  BY <1>2, <1>3

LEMMA SameCurrent ==
  ASSUME UNCHANGED <<jtype, wjob, todo>>, NEW s
  PROVE  Current(s)' <=> Current(s)
  BY DEF Current

LEMMA ClosedNext ==
  ASSUME Progress, [Next]_vars
  PROVE  Closed'
<1> USE DEF NoJob
<1>1. ASSUME UNCHANGED <<jtype, done>>, late \subseteq late' PROVE Closed'
  BY <1>1 DEF Progress, Closed
<1>2. ASSUME NEW j \in Jobs, NEW type, Create(j, type), UNCHANGED late PROVE Closed'
  <2>1. /\ UNCHANGED done /\ done[j] = {} /\ \A i \in Jobs : i # j => jtype'[i] = jtype[i]
    BY <1>2 DEF Create, Progress, TypeOK, Order
  <2>2. QED  BY <1>2, <2>1 DEF Progress, Closed
<1>3. ASSUME NEW j \in Jobs, NEW c \in ChunkIds, RetryUnit(j, c) PROVE Closed'
  <2>1. \A i \in Jobs : done'[i] \subseteq done[i]
    BY <1>3, Retried DEF Progress
  <2>2. ASSUME j \notin late', NEW s \in done'[j]
        PROVE  Before(jtype[j], s) \subseteq done'[j]
    <3>1. /\ s \in done[j] /\ s \in {"load_update_documents", "chunk_documents"}
          /\ Before(jtype[j], s) \subseteq done[j] /\ jtype[j] \in JobTypeNames
          /\ s \in PlanSteps(jtype[j])
      BY <1>3, <2>2, Retried DEF Progress, Closed, TypeOK, JobTypeNames, FirstSteps
    <3>2. "extract_graph" \notin Before(jtype[j], s)
      BY <3>1, FirstOfPlan
    <3>3. QED  BY <1>3, <3>1, <3>2, Retried DEF Progress
  <2>3. QED  BY <1>3, <2>1, <2>2, Retried DEF Progress, Closed
<1>4. CASE ApiStep
  BY <1>1, <1>2, <1>3, <1>4, ApiFrame DEF Progress
<1>5. CASE WorkStep
  BY <1>1, <1>5, WorkFrame
<1>6. ASSUME NEW j \in Jobs, Claim(j) PROVE Closed'
  BY <1>1, <1>6 DEF Claim
<1>7. CASE SettleStep
  <2>1. PICK s \in todo : Current(s) /\ done' = [done EXCEPT ![wjob] = @ \cup {s}]
    BY <1>7 DEF SettleStep
  <2>2. /\ UNCHANGED <<jtype, late>> /\ wjob \in Jobs
        /\ s \in PlanSteps(jtype[wjob]) /\ Before(jtype[wjob], s) \subseteq done[wjob]
    BY <1>7, <2>1, CurrentMeans DEF SettleStep, history
  <2>3. done'[wjob] = done[wjob] \cup {s} /\ \A i \in Jobs : i # wjob => done'[i] = done[i]
    BY <2>1, <2>2 DEF Progress, TypeOK
  <2>4. QED  BY <2>2, <2>3 DEF Progress, Closed
<1>8. CASE FailJob \/ CompleteJob \/ Crash
  BY <1>1, <1>8 DEF FailJob, CompleteJob, Crash, history
<1>9. QED
  BY <1>1, <1>4, <1>5, <1>6, <1>7, <1>8, StepCases DEF vars, control, history

LEMMA RemainingNext ==
  ASSUME Progress, [Next]_vars
  PROVE  Remaining'
<1>1. CASE UNCHANGED <<jtype, done, wjob, todo>>
  BY <1>1 DEF Progress, Remaining
<1>2. ASSUME NEW j \in Jobs, NEW type, Create(j, type), UNCHANGED <<wjob, todo>>
      PROVE  Remaining'
  <2>1. UNCHANGED done /\ \A i \in Jobs : i # j => jtype'[i] = jtype[i]
    BY <1>2 DEF Create, Progress, TypeOK
  <2>2. wjob # NoJob => wjob \in Jobs /\ wjob # j
    BY <1>2 DEF Create, Progress, TypeOK
  <2>3. QED  BY <1>2, <2>1, <2>2 DEF Progress, Remaining
<1>3. ASSUME NEW j \in Jobs, NEW c \in ChunkIds, RetryUnit(j, c) PROVE Remaining'
  <2>1. wjob # NoJob => done'[wjob] = done[wjob]
    BY <1>3, Retried DEF Progress, TypeOK
  <2>2. QED  BY <1>3, <2>1, Retried DEF Progress, Remaining
<1>4. CASE ApiStep
  BY <1>1, <1>2, <1>3, <1>4, ApiFrame DEF Progress
<1>5. CASE WorkStep
  BY <1>1, <1>5, WorkFrame
<1>6. ASSUME NEW j \in Jobs, Claim(j) PROVE Remaining'
  BY <1>6 DEF Claim, Remaining, NoJob, Jobs
<1>7. CASE SettleStep
  <2>1. PICK s \in todo : done' = [done EXCEPT ![wjob] = @ \cup {s}] /\ todo' = todo \ {s}
    BY <1>7 DEF SettleStep
  <2>2. UNCHANGED <<jtype, wjob>> /\ wjob \in Jobs /\ wjob # NoJob
    BY <1>7, WorkingJob DEF SettleStep
  <2>3. done'[wjob] = done[wjob] \cup {s}
    BY <2>1, <2>2 DEF Progress, TypeOK
  <2>4. QED  BY <2>1, <2>2, <2>3 DEF Progress, Remaining
<1>8. CASE FailJob \/ CompleteJob \/ Crash
  BY <1>8 DEF FailJob, CompleteJob, Crash, Leave, Remaining
<1>9. QED
  BY <1>1, <1>4, <1>5, <1>6, <1>7, <1>8, StepCases DEF vars, control, worker

LEMMA PositionNext ==
  ASSUME Progress, [Next]_vars
  PROVE  Position'
<1>1. CASE UNCHANGED <<jtype, wjob, todo, at>>
  BY <1>1, SameCurrent DEF Progress, Position
<1>2. ASSUME NEW j \in Jobs, NEW type, Create(j, type), UNCHANGED <<wjob, todo, at>>
      PROVE  Position'
  <2>1. \A i \in Jobs : i # j => jtype'[i] = jtype[i]
    BY <1>2 DEF Create, Progress, TypeOK
  <2>2. wjob # NoJob => wjob \in Jobs /\ wjob # j
    BY <1>2 DEF Create, Progress, TypeOK
  <2>3. CASE wjob = NoJob
    BY <1>2, <2>3 DEF Position, Progress, TypeOK
  <2>4. CASE wjob # NoJob
    <3>1. jtype'[wjob] = jtype[wjob]
      BY <2>1, <2>2, <2>4
    <3>2. \A s : Current(s)' <=> Current(s)
      BY <1>2, <3>1 DEF Current
    <3>3. QED  BY <1>2, <3>2 DEF Position, Progress
  <2>5. QED  BY <2>3, <2>4
<1>3. CASE ApiStep
  BY <1>1, <1>2, <1>3, ApiFrame, Retried DEF Progress
<1>4. CASE ChunkStep
  <2>1. UNCHANGED <<jtype, wjob, todo>>
    BY <1>4, WorkFrame DEF WorkStep
  <2>2. \A s : Current(s)' <=> Current(s)
    BY <2>1, SameCurrent
  <2>3. QED
    BY <1>4, <2>2
       DEF ChunkStep, ReadDocuments, WriteManifest, ChunkDocuments, WriteTextUnits,
           LoadDocument, Executing, Position, Progress
<1>5. CASE ExtractStep
  <2>1. UNCHANGED <<jtype, wjob, todo>>
    BY <1>5, WorkFrame DEF WorkStep
  <2>2. \A s : Current(s)' <=> Current(s)
    BY <2>1, SameCurrent
  <2>3. QED
    BY <1>5, <2>2
       DEF ExtractStep, SelectBatch, FinalizeExtract, ExtractChunk, SucceedUnit, FailUnit,
           UnitOutcome, Executing, Position, Progress
<1>6. CASE GraphStep
  <2>1. UNCHANGED <<jtype, wjob, todo>>
    BY <1>6, WorkFrame DEF WorkStep
  <2>2. \A s : Current(s)' <=> Current(s)
    BY <2>1, SameCurrent
  <2>3. QED
    BY <1>6, <2>2
       DEF GraphStep, MergeDelta, Derive, UpdateCleanState, EmbedTextUnits, EmbedGraph,
           Executing, Position, Progress
<1>7. CASE StepRaises \/ SettleStep \/ FailJob \/ CompleteJob \/ Crash \/ \E j \in Jobs : Claim(j)
  BY <1>7 DEF StepRaises, SettleStep, FailJob, CompleteJob, Crash, Leave, Claim, Position
<1>8. QED
  BY <1>1, <1>3, <1>4, <1>5, <1>6, <1>7, StepCases DEF vars, control, worker, WorkStep

LEMMA ProgressInductive == (Init => Progress) /\ (Progress /\ [Next]_vars => Progress')
<1>1. ASSUME Init PROVE Progress
  <2>1. TypeOK
    BY <1>1, TypeInit
  <2>2. Order
    BY <1>1 DEF Init, Order, Jobs, NoJob
  <2>3. Closed /\ Remaining /\ Position
    BY <1>1 DEF Init, Closed, Remaining, Position
  <2>4. QED  BY <2>1, <2>2, <2>3 DEF Progress
<1>2. ASSUME Progress, [Next]_vars PROVE Progress'
  BY <1>2, TypeNext, OrderNext, ClosedNext, RemainingNext, PositionNext DEF Progress
<1>3. QED  BY <1>1, <1>2


-----------------------------------------------------------------------------
(* What a job's steps leave.                                               *)

(* What a job has done, the step about to be committed included.           *)
Did(j) == done[j] \cup {s \in todo : wjob = j /\ at = "settle" /\ Current(s)}

(* The artefacts that job j has written are fit, as far as its next steps  *)
(* do not write them again.                                                *)
Derived(j) == Did(j) \cap DerivedSteps \subseteq current
TextEmbedded(j) ==
  "generate_text_embeddings" \in Did(j) \/ (wjob = j /\ at = "embed_graph") =>
     (textUnits # {} => vecText = textUnits)
GraphEmbedded(j) == "generate_text_embeddings" \in Did(j) /\ graph # {} => vecGraph = graph
GraphMerged(j) ==
  "merge_delta" \in Did(j) => extracted \cap Live \subseteq graph /\ graph \subseteq Live \cup gone
TextUnitsWritten(j) ==
  "update_clean_state" \in Did(j) => Live \subseteq textUnits /\ textUnits \subseteq Live \cup gone

FitOf(j) ==
  Derived(j) /\ TextEmbedded(j) /\ GraphEmbedded(j) /\ GraphMerged(j) /\ TextUnitsWritten(j)

Unsettled(j) == job[j] \in {"pending", "running"}
Fit == \A j \in Jobs \ late : Unsettled(j) => FitOf(j)

FitInv == Progress /\ Fit

(* A job that the worker is not at, and that has done nothing after its    *)
(* extraction, answers for nothing.                                        *)
LEMMA NothingLater ==
  ASSUME NEW j \in Jobs, done[j] \subseteq FirstSteps, j # wjob
  PROVE  FitOf(j)
<1>1. Did(j) \subseteq FirstSteps
  BY DEF Did
<1>2. QED
  BY <1>1 DEF FitOf, Derived, TextEmbedded, GraphEmbedded, GraphMerged, TextUnitsWritten,
              FirstSteps, DerivedSteps

LEMMA NothingLaterNext ==
  ASSUME NEW j \in Jobs, done'[j] \subseteq FirstSteps, j # wjob'
  PROVE  FitOf(j)'
<1>1. Did(j)' \subseteq FirstSteps
  BY DEF Did
<1>2. QED
  BY <1>1 DEF FitOf, Derived, TextEmbedded, GraphEmbedded, GraphMerged, TextUnitsWritten,
              FirstSteps, DerivedSteps

(* A step that writes no artefact, and adds nothing to what the job did.   *)
LEMMA SameFit ==
  ASSUME NEW j \in Jobs,
         UNCHANGED <<rows, extracted, graph, current, textUnits, vecText, vecGraph, gone>>,
         Did(j)' \subseteq Did(j),
         wjob' = j /\ at' = "embed_graph" => wjob = j /\ at = "embed_graph",
         FitOf(j)
  PROVE  FitOf(j)'
<1>1. Live' = Live
  BY LiveFromRows
<1>2. Derived(j)' /\ GraphEmbedded(j)'
  BY DEF FitOf, Derived, GraphEmbedded
<1>3. TextEmbedded(j)'
  BY DEF FitOf, TextEmbedded
<1>4. GraphMerged(j)' /\ TextUnitsWritten(j)'
  BY <1>1 DEF FitOf, GraphMerged, TextUnitsWritten
<1>5. QED  BY <1>2, <1>3, <1>4 DEF FitOf

(* A deletion only takes chunks from the knowledge base.                   *)
LEMMA FitDeletion ==
  ASSUME FitInv, NEW d \in DocIds, DeleteDocument(d)
  PROVE  Fit'
<1>1. /\ UNCHANGED <<jtype, job, done, wjob, todo, at, late>>
      /\ UNCHANGED <<extracted, graph, current, textUnits, vecText, vecGraph>>
  BY DEF DeleteDocument, artefacts, graphFiles, vectors, control, worker
<1>2. Live' \subseteq Live /\ Live \subseteq Live' \cup gone' /\ gone \subseteq gone'
  <2>1. ASSUME NEW c \in ChunkIds, NEW e \in DocIds, rows'[<<e, c>>] > 0
        PROVE  rows[<<e, c>>] > 0
    BY <2>1 DEF DeleteDocument
  <2>2. Live' \subseteq Live
    BY <2>1 DEF Live
  <2>3. gone' = gone \cup (Live \ Live')
    BY DEF DeleteDocument
  <2>4. QED  BY <2>2, <2>3
<1>3. ASSUME NEW j \in Jobs \ late, Unsettled(j), FitOf(j) PROVE FitOf(j)'
  <2>1. Did(j)' = Did(j)
    BY <1>1 DEF Did, Current
  <2>2. Derived(j)' /\ TextEmbedded(j)' /\ GraphEmbedded(j)'
    BY <1>1, <1>3, <2>1 DEF FitOf, Derived, TextEmbedded, GraphEmbedded
  <2>3. GraphMerged(j)' /\ TextUnitsWritten(j)'
    BY <1>1, <1>2, <1>3, <2>1 DEF FitOf, GraphMerged, TextUnitsWritten
  <2>4. QED  BY <2>2, <2>3 DEF FitOf
<1>4. QED  BY <1>1, <1>3 DEF Fit, FitInv, Unsettled

(* The jobs that a step leaves as they are stay fit.                       *)
LEMMA FitStill ==
  ASSUME FitInv,
         UNCHANGED <<rows, extracted, graph, current, textUnits, vecText, vecGraph, gone>>,
         NEW j \in Jobs, j \notin late, Unsettled(j),
         done'[j] = done[j],
         (wjob' = j => at' = "step") \/ (UNCHANGED <<wjob, todo, at>> /\
                                         (wjob = j => jtype'[j] = jtype[j]))
  PROVE  FitOf(j)'
<1>1. FitOf(j)
  BY DEF FitInv, Fit
<1>2. Did(j)' \subseteq Did(j)
  BY DEF Did, Current
<1>3. QED  BY <1>1, <1>2, SameFit

LEMMA FitApiStep ==
  ASSUME FitInv, ApiStep
  PROVE  Fit'
<1>1. TypeOK /\ Progress
  BY DEF FitInv, Progress
<1>2. CASE \E d \in DocIds : DeleteDocument(d)
  BY <1>2, FitDeletion
<1>3. CASE UNCHANGED <<rows, gone>>
  <2> SUFFICES ASSUME NEW j \in Jobs, j \notin late', Unsettled(j)' PROVE FitOf(j)'
    BY DEF Fit
  <2>1. /\ UNCHANGED <<wjob, todo, at>>
        /\ UNCHANGED <<rows, extracted, graph, current, textUnits, vecText, vecGraph, gone>>
    BY <1>1, <1>3, ApiFrame
  <2>2. CASE UNCHANGED <<jtype, job, done, late>>
    BY <2>1, <2>2, FitStill DEF Unsettled
  <2>3. ASSUME NEW i \in Jobs, NEW type, Create(i, type), UNCHANGED late PROVE FitOf(j)'
    <3>1. /\ job[i] = "none" /\ UNCHANGED done
          /\ \A k \in Jobs : k # i => job'[k] = job[k] /\ jtype'[k] = jtype[k]
      BY <1>1, <2>3 DEF Create, TypeOK
    <3>2. CASE j = i
      <4>1. done'[j] = {} /\ j # wjob'
        BY <1>1, <2>1, <3>1, <3>2 DEF Progress, Order, TypeOK, Jobs, NoJob
      <4>2. QED  BY <4>1, NothingLaterNext
    <3>3. CASE j # i
      BY <2>1, <2>3, <3>1, <3>3, FitStill DEF Unsettled
    <3>4. QED  BY <3>2, <3>3
  <2>4. ASSUME NEW i \in Jobs, NEW c \in ChunkIds, RetryUnit(i, c) PROVE FitOf(j)'
    <3>1. CASE j = i
      <4>1. done'[j] \subseteq FirstSteps /\ j # wjob'
        BY <1>1, <2>4, <3>1, Retried
      <4>2. QED  BY <4>1, NothingLaterNext
    <3>2. CASE j # i
      <4>1. job'[j] = job[j] /\ done'[j] = done[j] /\ jtype'[j] = jtype[j] /\ j \notin late
        BY <1>1, <2>4, <3>2, Retried
      <4>2. QED  BY <2>1, <4>1, FitStill DEF Unsettled
    <3>3. QED  BY <3>1, <3>2
  <2>5. QED  BY <1>1, <2>2, <2>3, <2>4, ApiFrame
<1>4. QED  BY <1>1, <1>2, <1>3, ApiFrame

(* Another job than the worker's that waits answers for nothing, so a step *)
(* of the worker has to be looked at for its own job only, and not at all  *)
(* when that job is late.                                                  *)
LEMMA WorkerFit ==
  ASSUME FitInv, WorkStep,
         wjob \notin late /\ FitOf(wjob) => FitOf(wjob)'
  PROVE  Fit'
<1> SUFFICES ASSUME NEW j \in Jobs, j \notin late', Unsettled(j)' PROVE FitOf(j)'
  BY DEF Fit
<1>1. UNCHANGED <<jtype, job, done, wjob, todo, late>>
  BY WorkFrame
<1>2. wjob \in Jobs /\ job[wjob] = "running" /\ wjob # NoJob
  BY WorkingJob DEF FitInv
<1>3. CASE j = wjob
  <2>1. FitOf(wjob)
    BY <1>1, <1>2, <1>3 DEF FitInv, Fit, Unsettled
  <2>2. QED  BY <1>1, <1>3, <2>1
<1>4. CASE j # wjob
  <2>1. job[j] = "pending" /\ j \notin late
    BY <1>1, <1>4 DEF Unsettled, FitInv, Progress, Order
  <2>2. Later(j) = {}
    BY <1>2, <2>1 DEF FitInv, Progress, Order
  <2>3. done'[j] \subseteq FirstSteps /\ j # wjob'
    BY <1>1, <1>4, <2>2 DEF Later, FirstSteps
  <2>4. QED  BY <2>3, NothingLaterNext
<1>5. QED  BY <1>3, <1>4

(* What the job did before a step, and what it does in a step that ends.   *)
LEMMA DidBefore ==
  ASSUME at # "settle", NEW j
  PROVE  Did(j) = done[j]
  BY DEF Did

LEMMA DidAfter ==
  ASSUME Progress, WorkStep, NEW s, Current(s), at # "settle"
  PROVE  /\ at' = "settle" => Did(wjob)' = done[wjob] \cup {s}
         /\ at' # "settle" => Did(wjob)' = done[wjob]
<1>1. UNCHANGED <<jtype, done, wjob, todo>>
  BY WorkFrame
<1>2. s \in todo /\ todo \subseteq PlanSteps(jtype[wjob])
  BY CurrentMeans
<1>3. \A r : Current(r) => r = s
  BY <1>2, OneCurrent
<1>4. \A r : Current(r)' <=> Current(r)
  BY <1>1, SameCurrent
<1>5. QED  BY <1>1, <1>2, <1>3, <1>4 DEF Did

(* At its first steps a job that is not late has done nothing after its    *)
(* extraction.                                                             *)
LEMMA FirstStepsOnly ==
  ASSUME Progress, NEW s \in FirstSteps, Current(s), wjob \notin late
  PROVE  done[wjob] \subseteq FirstSteps
<1>1. /\ wjob \in Jobs /\ jtype[wjob] \in JobTypeNames /\ s \notin done[wjob]
      /\ s \in PlanSteps(jtype[wjob])
      /\ done[wjob] \subseteq PlanSteps(jtype[wjob])
      /\ \A r \in done[wjob] : Before(jtype[wjob], r) \subseteq done[wjob]
  BY CurrentMeans DEF Progress, Closed
<1>2. ASSUME NEW r \in done[wjob], r \notin FirstSteps PROVE FALSE
  <2>1. CASE jtype[wjob] = "full"
    <3>1. s \in {"chunk_documents", "extract_graph"}
          /\ r \in DerivedSteps \cup {"generate_text_embeddings"}
      BY <1>1, <1>2, <2>1, FullOrder DEF FirstSteps, DerivedSteps
    <3>2. r \in PlanSteps("full") \ {"chunk_documents"}
      BY <1>1, <1>2, <2>1 DEF FirstSteps
    <3>3. s \in Before("full", r)
      BY <3>1, <3>2, FullOrder
    <3>4. QED  BY <1>1, <1>2, <2>1, <3>3
  <2>2. CASE jtype[wjob] = "incremental"
    <3>1. s \in {"load_update_documents", "extract_graph"}
          /\ r \in DerivedSteps \cup {"merge_delta", "update_clean_state",
                                      "generate_text_embeddings"}
      BY <1>1, <1>2, <2>2, IncrementalOrder DEF FirstSteps, DerivedSteps
    <3>2. r \in PlanSteps("incremental") \ {"load_update_documents"}
      BY <1>1, <1>2, <2>2 DEF FirstSteps
    <3>3. s \in Before("incremental", r)
      BY <3>1, <3>2, IncrementalOrder
    <3>4. QED  BY <1>1, <1>2, <2>2, <3>3
  <2>3. QED  BY <1>1, <2>1, <2>2 DEF JobTypeNames
<1>3. QED  BY <1>2

(* So they leave it nothing to answer for.                                 *)
LEMMA FitFirstSteps ==
  ASSUME FitInv, WorkStep, NEW s \in FirstSteps, Current(s), wjob \notin late,
         at # "settle", at' # "embed_graph"
  PROVE  FitOf(wjob)'
<1>1. done[wjob] \subseteq FirstSteps
  BY FirstStepsOnly DEF FitInv
<1>2. Did(wjob)' \subseteq FirstSteps
  BY <1>1, DidAfter DEF FitInv
<1>3. QED
  BY <1>2 DEF FitOf, Derived, TextEmbedded, GraphEmbedded, GraphMerged, TextUnitsWritten,
              FirstSteps, DerivedSteps

LEMMA FitChunkStep ==
  ASSUME FitInv, ChunkStep, wjob \notin late
  PROVE  FitOf(wjob)'
<1>1. PICK s \in FirstSteps : Current(s)
  <2>1. CASE ReadDocuments
    BY <2>1 DEF ReadDocuments, Executing, FirstSteps
  <2>2. CASE at \in {"load", "chunk", "text_units"}
    BY <2>2 DEF FitInv, Progress, Position, FirstSteps
  <2>3. QED
    BY <2>1, <2>2 DEF ChunkStep, WriteManifest, ChunkDocuments, WriteTextUnits, LoadDocument
<1>2. at # "settle" /\ at' # "embed_graph"
  BY DEF ChunkStep, ReadDocuments, WriteManifest, ChunkDocuments, WriteTextUnits, LoadDocument,
         Executing
<1>3. QED  BY <1>1, <1>2, FitFirstSteps DEF WorkStep

LEMMA FitExtractStep ==
  ASSUME FitInv, ExtractStep, wjob \notin late
  PROVE  FitOf(wjob)'
<1>1. Current("extract_graph")
  BY DEF ExtractStep, SelectBatch, FinalizeExtract, ExtractChunk, SucceedUnit, FailUnit,
         Executing, FitInv, Progress, Position
<1>2. at # "settle" /\ at' # "embed_graph"
  BY DEF ExtractStep, SelectBatch, FinalizeExtract, ExtractChunk, SucceedUnit, FailUnit,
         UnitOutcome, Executing
<1>3. QED  BY <1>1, <1>2, FitFirstSteps DEF WorkStep, FirstSteps

(* Nothing that depends on the graph is done when it is merged, or on the  *)
(* text units when they are written.                                       *)
LEMMA NothingDependent ==
  ASSUME Progress, wjob \notin late
  PROVE  /\ Current("merge_delta") =>
              /\ done[wjob] \cap DerivedSteps = {} /\ "generate_text_embeddings" \notin done[wjob]
              /\ "update_clean_state" \notin done[wjob]
         /\ Current("update_clean_state") => "generate_text_embeddings" \notin done[wjob]
<1>1. ASSUME NEW s \in {"merge_delta", "update_clean_state"}, Current(s)
      PROVE  /\ jtype[wjob] = "incremental" /\ s \notin done[wjob] /\ wjob \in Jobs
             /\ \A r \in done[wjob] : Before("incremental", r) \subseteq done[wjob]
  <2>1. /\ wjob \in Jobs /\ jtype[wjob] \in JobTypeNames
        /\ s \in PlanSteps(jtype[wjob]) /\ s \notin done[wjob]
        /\ \A r \in done[wjob] : Before(jtype[wjob], r) \subseteq done[wjob]
    BY <1>1, CurrentMeans DEF Progress, Closed
  <2>2. jtype[wjob] = "incremental"
    BY <2>1, FullOrder DEF JobTypeNames, DerivedSteps
  <2>3. QED  BY <2>1, <2>2
<1>2. CASE Current("merge_delta")
  <2>1. ASSUME NEW r \in DerivedSteps \cup {"update_clean_state", "generate_text_embeddings"}
        PROVE  r \notin done[wjob]
    BY <1>1, <1>2, <2>1, IncrementalOrder
  <2>2. ~Current("update_clean_state")
    BY <1>2, CurrentMeans, OneCurrent
  <2>3. QED  BY <2>1, <2>2
<1>3. CASE Current("update_clean_state")
  <2>1. "generate_text_embeddings" \notin done[wjob]
    BY <1>1, <1>3, IncrementalOrder
  <2>2. ~Current("merge_delta")
    BY <1>3, CurrentMeans, OneCurrent
  <2>3. QED  BY <2>1, <2>2
<1>4. QED  BY <1>2, <1>3

LEMMA FitGraphStep ==
  ASSUME FitInv, GraphStep, wjob \notin late, FitOf(wjob)
  PROVE  FitOf(wjob)'
<1> USE DEF Working, artefacts, graphFiles, vectors, memory, history
<1>1. Progress /\ WorkStep
  BY DEF FitInv, WorkStep
<1>2. UNCHANGED <<jtype, done, wjob, todo, rows>> /\ Live' = Live
  <2>1. UNCHANGED rows
    BY DEF GraphStep, MergeDelta, Derive, UpdateCleanState, EmbedTextUnits, EmbedGraph
  <2>2. QED  BY <1>1, <2>1, WorkFrame, LiveFromRows
<1>3. at # "settle"
  BY DEF GraphStep, MergeDelta, Derive, UpdateCleanState, EmbedTextUnits, EmbedGraph, Executing
<1>4. Did(wjob) = done[wjob]
  BY <1>3, DidBefore
<1>5. CASE MergeDelta
  <2>1. /\ Current("merge_delta") /\ at' = "settle" /\ graph' = Mergeable
        /\ extracted' = Pruned
    BY <1>5 DEF MergeDelta, Executing, WriteGraph
  <2>2. Did(wjob)' = done[wjob] \cup {"merge_delta"}
    BY <1>1, <1>3, <2>1, DidAfter
  <2>3. Derived(wjob)' /\ TextEmbedded(wjob)' /\ GraphEmbedded(wjob)' /\ TextUnitsWritten(wjob)'
    BY <1>1, <2>1, <2>2, NothingDependent
       DEF Derived, DerivedSteps, TextEmbedded, GraphEmbedded, TextUnitsWritten
  <2>4. GraphMerged(wjob)'
    BY <1>2, <2>1 DEF GraphMerged, Mergeable, Pruned
  <2>5. QED  BY <2>3, <2>4 DEF FitOf
<1>6. CASE Derive
  <2>1. PICK s \in DerivedSteps : Executing(s) /\ current' = current \cup {s}
    BY <1>6 DEF Derive
  <2>2. Current(s) /\ at' = "settle"
        /\ UNCHANGED <<extracted, graph, textUnits, vecText, vecGraph, gone>>
    BY <1>6, <2>1 DEF Derive, Executing
  <2>3. Did(wjob)' = done[wjob] \cup {s}
    BY <1>1, <1>3, <2>2, DidAfter
  <2>4. s \notin {"generate_text_embeddings", "merge_delta", "update_clean_state"}
    BY DEF DerivedSteps
  <2>5. Derived(wjob)'
    BY <1>4, <2>1, <2>3 DEF Derived, FitOf
  <2>6. TextEmbedded(wjob)' /\ GraphEmbedded(wjob)'
    BY <1>2, <1>4, <2>2, <2>3, <2>4 DEF TextEmbedded, GraphEmbedded, FitOf
  <2>7. GraphMerged(wjob)' /\ TextUnitsWritten(wjob)'
    BY <1>2, <1>4, <2>2, <2>3, <2>4 DEF GraphMerged, TextUnitsWritten, FitOf
  <2>8. QED  BY <2>5, <2>6, <2>7 DEF FitOf
<1>7. CASE UpdateCleanState
  <2>1. Current("update_clean_state") /\ at' = "settle" /\ textUnits' = Live
        /\ UNCHANGED <<extracted, graph, current, vecText, vecGraph, gone>>
    BY <1>7 DEF UpdateCleanState, Executing
  <2>2. Did(wjob)' = done[wjob] \cup {"update_clean_state"}
    BY <1>1, <1>3, <2>1, DidAfter
  <2>3. Derived(wjob)' /\ GraphMerged(wjob)'
    BY <1>2, <1>4, <2>1, <2>2 DEF Derived, DerivedSteps, GraphMerged, FitOf
  <2>4. TextUnitsWritten(wjob)'
    BY <1>2, <2>1 DEF TextUnitsWritten
  <2>5. TextEmbedded(wjob)' /\ GraphEmbedded(wjob)'
    BY <1>1, <2>1, <2>2, NothingDependent DEF TextEmbedded, GraphEmbedded
  <2>6. QED  BY <2>3, <2>4, <2>5 DEF FitOf
<1>8. CASE EmbedTextUnits
  <2>1. /\ Current("generate_text_embeddings") /\ at' = "embed_graph"
        /\ vecText' = IF textUnits = {} THEN vecText ELSE textUnits
        /\ UNCHANGED <<extracted, graph, current, textUnits, vecGraph, gone>>
    BY <1>8 DEF EmbedTextUnits, Executing
  <2>2. Did(wjob)' = done[wjob]
    BY <1>1, <1>3, <2>1, DidAfter
  <2>3. TextEmbedded(wjob)'
    BY <2>1 DEF TextEmbedded
  <2>4. Derived(wjob)' /\ GraphEmbedded(wjob)'
    BY <1>2, <1>4, <2>1, <2>2 DEF Derived, GraphEmbedded, FitOf
  <2>5. GraphMerged(wjob)' /\ TextUnitsWritten(wjob)'
    BY <1>2, <1>4, <2>1, <2>2 DEF GraphMerged, TextUnitsWritten, FitOf
  <2>6. QED  BY <2>3, <2>4, <2>5 DEF FitOf
<1>9. CASE EmbedGraph
  <2>1. /\ Current("generate_text_embeddings") /\ at = "embed_graph" /\ at' = "settle"
        /\ vecGraph' = IF graph = {} THEN vecGraph ELSE graph
        /\ UNCHANGED <<extracted, graph, current, textUnits, vecText, gone>>
    BY <1>1, <1>9 DEF EmbedGraph, Progress, Position
  <2>2. Did(wjob)' = done[wjob] \cup {"generate_text_embeddings"}
    BY <1>1, <1>3, <2>1, DidAfter
  <2>3. GraphEmbedded(wjob)'
    BY <2>1 DEF GraphEmbedded
  <2>4. TextEmbedded(wjob)'
    BY <1>2, <2>1 DEF TextEmbedded, FitOf
  <2>5. Derived(wjob)'
    BY <1>4, <2>1, <2>2 DEF Derived, DerivedSteps, FitOf
  <2>6. GraphMerged(wjob)' /\ TextUnitsWritten(wjob)'
    BY <1>2, <1>4, <2>1, <2>2 DEF GraphMerged, TextUnitsWritten, FitOf
  <2>7. QED  BY <2>3, <2>4, <2>5, <2>6 DEF FitOf
<1>10. QED  BY <1>5, <1>6, <1>7, <1>8, <1>9 DEF GraphStep

LEMMA FitWorkStep ==
  ASSUME FitInv, WorkStep
  PROVE  Fit'
<1>1. ASSUME StepRaises, FitOf(wjob) PROVE FitOf(wjob)'
  <2>1. UNCHANGED <<jtype, done, wjob, todo>> /\ at' = "reject"
    BY <1>1, WorkFrame DEF StepRaises, WorkStep
  <2>2. UNCHANGED <<rows, extracted, graph, current, textUnits, vecText, vecGraph, gone>>
    BY <1>1 DEF StepRaises, Working, artefacts, graphFiles, vectors, history
  <2>3. Did(wjob)' \subseteq Did(wjob)
    BY <2>1 DEF Did
  <2>4. wjob \in Jobs
    BY WorkingJob DEF FitInv
  <2>5. QED  BY <1>1, <2>1, <2>2, <2>3, <2>4, SameFit
<1>2. QED
  BY <1>1, WorkerFit, FitChunkStep, FitExtractStep, FitGraphStep DEF WorkStep

LEMMA FitLoopStep ==
  ASSUME FitInv, SettleStep \/ FailJob \/ CompleteJob \/ Crash \/ \E j \in Jobs : Claim(j)
  PROVE  Fit'
<1> USE DEF artefacts, graphFiles, vectors, documents, history
<1>1. Progress /\ TypeOK
  BY DEF FitInv, Progress
<1>2. UNCHANGED <<jtype, rows, extracted, graph, current, textUnits, vecText, vecGraph, gone>>
      /\ late \subseteq late'
  BY DEF SettleStep, FailJob, CompleteJob, Crash, Claim
<1> SUFFICES ASSUME NEW j \in Jobs, j \notin late', Unsettled(j)' PROVE FitOf(j)'
  BY DEF Fit
<1>3. ASSUME NEW i \in Jobs, Claim(i) PROVE FitOf(j)'
  <2>1. /\ job' = [job EXCEPT ![i] = "running"] /\ job[i] = "pending" /\ UNCHANGED done
        /\ wjob' = i /\ at' = "step"
    BY <1>3 DEF Claim
  <2>2. Unsettled(j)
    BY <1>1, <2>1 DEF Unsettled, TypeOK
  <2>3. QED  BY <1>2, <2>1, <2>2, FitStill
<1>4. CASE SettleStep
  <2>1. PICK s \in todo : at = "settle" /\ Current(s) /\ done' = [done EXCEPT ![wjob] = @ \cup {s}]
    BY <1>4 DEF SettleStep
  <2>2. UNCHANGED <<job, wjob>> /\ at' = "step"
    BY <1>4 DEF SettleStep
  <2>3. done'[j] \subseteq Did(j)
    BY <1>1, <2>1 DEF Did, TypeOK
  <2>4. Did(j)' \subseteq Did(j)
    BY <2>2, <2>3 DEF Did
  <2>5. FitOf(j)
    BY <1>2, <2>2 DEF Unsettled, FitInv, Fit
  <2>6. QED  BY <1>2, <2>2, <2>4, <2>5, SameFit
<1>5. CASE FailJob \/ CompleteJob \/ Crash
  <2>1. wjob \in Jobs /\ job[wjob] = "running"
    BY <1>1, <1>5, WorkingJob, CrashedJob DEF Progress
  <2>2. UNCHANGED done /\ wjob' = NoJob
    BY <1>5 DEF FailJob, CompleteJob, Crash, Leave
  <2>3. Unsettled(j)
    BY <1>1, <1>5, <2>1 DEF FailJob, CompleteJob, Crash, Unsettled, TypeOK
  <2>4. j # wjob'
    BY <2>2 DEF Jobs, NoJob
  <2>5. QED  BY <1>2, <2>2, <2>3, <2>4, FitStill
<1>6. QED  BY <1>3, <1>4, <1>5

LEMMA FitInductive == (Init => FitInv) /\ (FitInv /\ [Next]_vars => FitInv')
<1>1. ASSUME Init PROVE FitInv
  <2>1. \A j \in Jobs : ~Unsettled(j)
    BY <1>1 DEF Init, Unsettled
  <2>2. QED  BY <1>1, <2>1, ProgressInductive DEF FitInv, Fit
<1>2. ASSUME FitInv, [Next]_vars PROVE FitInv'
  <2>1. Progress' /\ FitInv
    BY <1>2, ProgressInductive DEF FitInv
  <2>2. ASSUME UNCHANGED vars, NEW j \in Jobs, j \notin late', Unsettled(j)' PROVE FitOf(j)'
    <3>1. UNCHANGED <<rows, extracted, graph, current, textUnits, vecText, vecGraph, gone,
                      late, jtype, job, done, wjob, todo, at>>
      BY <2>2 DEF vars, documents, artefacts, graphFiles, vectors, control, worker, history
    <3>2. QED  BY <2>1, <2>2, <3>1, FitStill DEF Unsettled
  <2>3. ASSUME UNCHANGED vars PROVE Fit'
    BY <2>2, <2>3 DEF Fit
  <2>4. ASSUME ApiStep \/ WorkStep PROVE Fit'
    BY <2>1, <2>4, FitApiStep, FitWorkStep
  <2>5. ASSUME SettleStep \/ FailJob \/ CompleteJob \/ Crash \/ \E j \in Jobs : Claim(j)
        PROVE  Fit'
    BY <2>1, <2>5, FitLoopStep
  <2>6. Fit'
    BY <1>2, <2>3, <2>4, <2>5, StepCases
  <2>7. QED  BY <2>1, <2>6 DEF FitInv
<1>3. QED  BY <1>1, <1>2

(* A job succeeds in CompleteJob, when all its steps are done.             *)
LEMMA Completion ==
  ASSUME FitInv, [Next]_vars, NEW j \in Jobs, j \notin late, Completes(j)
  PROVE  FitOf(j) /\ done[j] = PlanSteps(jtype[j]) /\ jtype[j] \in JobTypeNames
<1>1. Progress /\ TypeOK
  BY DEF FitInv, Progress
<1>2. job[j] = "running" /\ j = wjob /\ job'[j] = "succeeded"
  BY <1>1 DEF Completes, Progress, Order
<1>3. CompleteJob
  <2>1. CASE ApiStep
    <3>1. ASSUME NEW i \in Jobs, NEW type, Create(i, type) PROVE FALSE
      BY <1>1, <1>2, <3>1 DEF Create, TypeOK
    <3>2. ASSUME NEW i \in Jobs, NEW c \in ChunkIds, RetryUnit(i, c) PROVE FALSE
      BY <1>1, <1>2, <3>2, Retried
    <3>3. QED  BY <1>1, <1>2, <2>1, <3>1, <3>2, ApiFrame
  <2>2. CASE WorkStep
    BY <1>2, <2>2, WorkFrame
  <2>3. CASE SettleStep \/ FailJob \/ Crash \/ \E i \in Jobs : Claim(i)
    BY <1>1, <1>2, <2>3 DEF SettleStep, FailJob, Crash, Claim, TypeOK
  <2>4. CASE UNCHANGED vars
    BY <1>2, <2>4 DEF vars, control
  <2>5. QED  BY <2>1, <2>2, <2>3, <2>4, StepCases
<1>4. done[j] = PlanSteps(jtype[j])
  <2>1. todo = {} /\ wjob # NoJob
    BY <1>1, <1>3, WorkingJob DEF CompleteJob
  <2>2. PlanSteps(jtype[j]) \ done[j] = {}
    BY <1>1, <1>2, <2>1 DEF Progress, Remaining
  <2>3. QED  BY <1>1, <2>2 DEF Progress, Closed
<1>5. QED  BY <1>1, <1>2, <1>4 DEF FitInv, Fit, Unsettled, TypeOK, JobTypeNames

(* When a job that is not late succeeds, nothing that is derived is older  *)
(* than what it is derived from: the order of the plans is enough,         *)
(* whatever is deleted, retried, raised or killed before.                  *)
THEOREM ArtefactsCurrentHolds == Spec => ArtefactsCurrent
<1> DEFINE Step ==
      \A j \in Jobs \ late : Completes(j) =>
         /\ DerivedSteps \subseteq current
         /\ textUnits # {} => vecText = textUnits
         /\ graph # {} => vecGraph = graph
<1>1. ASSUME FitInv, [Next]_vars PROVE Step
  <2> SUFFICES ASSUME NEW j \in Jobs, j \notin late, Completes(j)
               PROVE  /\ DerivedSteps \subseteq current
                      /\ textUnits # {} => vecText = textUnits
                      /\ graph # {} => vecGraph = graph
    OBVIOUS
  <2>1. FitOf(j) /\ done[j] = PlanSteps(jtype[j]) /\ jtype[j] \in JobTypeNames
    BY <1>1, Completion
  <2>2. DerivedSteps \cup {"generate_text_embeddings"} \subseteq Did(j)
    BY <2>1, FullOrder, IncrementalOrder DEF Did, JobTypeNames
  <2>3. QED  BY <2>1, <2>2 DEF FitOf, Derived, TextEmbedded, GraphEmbedded
<1>2. FitInv /\ [Next]_vars => [Step]_vars
  BY <1>1
<1>3. QED  BY <1>2, FitInductive, PTL DEF Spec, ArtefactsCurrent

(* When an incremental job that is not late succeeds, the graph holds      *)
(* every extraction of the knowledge base's chunks, and nothing that was   *)
(* deleted before its merge: what it merged is what the extraction files   *)
(* and the chunk rows said then, and only deletions have come since.       *)
THEOREM GraphCleanHolds == Spec => GraphClean
<1> DEFINE Step ==
      \A j \in Jobs \ late : Completes(j) /\ jtype[j] = "incremental" =>
         /\ extracted \cap Live \subseteq graph /\ graph \subseteq Live \cup gone
         /\ Live \subseteq textUnits /\ textUnits \subseteq Live \cup gone
<1>1. ASSUME FitInv, [Next]_vars PROVE Step
  <2> SUFFICES ASSUME NEW j \in Jobs, j \notin late, Completes(j), jtype[j] = "incremental"
               PROVE  /\ extracted \cap Live \subseteq graph /\ graph \subseteq Live \cup gone
                      /\ Live \subseteq textUnits /\ textUnits \subseteq Live \cup gone
    OBVIOUS
  <2>1. FitOf(j) /\ done[j] = PlanSteps(jtype[j])
    BY <1>1, Completion
  <2>2. "merge_delta" \in Did(j) /\ "update_clean_state" \in Did(j)
    BY <2>1, IncrementalOrder DEF Did
  <2>3. QED  BY <2>1, <2>2 DEF FitOf, GraphMerged, TextUnitsWritten
<1>2. FitInv /\ [Next]_vars => [Step]_vars
  BY <1>1
<1>3. QED  BY <1>2, FitInductive, PTL DEF Spec, GraphClean

=============================================================================
