-------------------------- MODULE IncrementalIndex --------------------------
(***************************************************************************)
(* The data plane of one knowledge base: its documents and chunk rows, the *)
(* delta manifest, the extraction files, the graph parquet and what is     *)
(* derived from it, as the steps of full and incremental jobs write them   *)
(* (engine/orchestrator.py, engine/incremental.py, engine/atomic_steps.py, *)
(* strategies/extract_graph.py), while documents are uploaded and deleted  *)
(* through the API (api/routes_kbs.py).                                    *)
(*                                                                         *)
(* How jobs are queued, recovered and raced by retries is IndexJobs'       *)
(* subject: here one executor takes the oldest pending job, a crash puts   *)
(* its job back, and a retry of a failed job is one step.  A chunk id is   *)
(* the hash of the chunk's text, so two documents may share one; a graph   *)
(* is the set of chunks whose extractions are merged in it, which entities *)
(* and relationships there are.  What their descriptions say after         *)
(* summarize_descriptions is DeltaReports' subject.                        *)
(***************************************************************************)
EXTENDS Naturals, FiniteSets, Sequences

CONSTANTS
    NumDocs,            \* bound: document ids are 1..NumDocs
    Texts,              \* what may be uploaded, each text once
    ChunkIds,
    ChunksOf,           \* [Texts -> SUBSET ChunkIds]: the chunker's pieces of a text
    NoText,             \* there is no document with the id
    NumJobs,            \* bound: jobs ever created; ids are 1..NumJobs in order
    ClientJobs,         \* bound: a client submits a job with one of the ids 1..ClientJobs
    JobTypes,           \* types a client submits, of "full" and "incremental"
    MinNum, MinDen,     \* min_unit_success_ratio = MinNum / MinDen
    FailingChunks,      \* chunks whose extraction may fail
    RaisingSteps,       \* steps that may raise
    MaxCrashes,         \* bound: hard kills of the worker
    CrashSteps,         \* steps during which it may be killed
    MaxRetries,         \* bound: unit retries
    DeleteWhileIndexing \* may a document be deleted while a job is under way?

DocIds == 1..NumDocs
Jobs == 1..NumJobs
NoJob == 0

DerivedSteps ==
    {"summarize_descriptions", "finalize_graph", "create_communities", "community_reports"}
PlanFull ==
    <<"chunk_documents", "extract_graph", "summarize_descriptions", "finalize_graph",
      "create_communities", "community_reports", "generate_text_embeddings">>
\* create_base_text_units does nothing and is left out.
\* Mutant: the index is rebuilt before text_units.parquet is.
EmbedBeforeCleanState ==
    <<"load_update_documents", "extract_graph", "merge_delta", "summarize_descriptions",
      "finalize_graph", "create_communities", "community_reports",
      "generate_text_embeddings", "update_clean_state">>
PlanIncremental ==
    <<"load_update_documents", "extract_graph", "merge_delta", "summarize_descriptions",
      "finalize_graph", "create_communities", "community_reports", "update_clean_state",
      "generate_text_embeddings">>
Plan(type) == IF type = "incremental" THEN PlanIncremental ELSE PlanFull
PlanSteps(type) == {Plan(type)[i] : i \in DOMAIN Plan(type)}
StepNames == PlanSteps("full") \cup PlanSteps("incremental")

ASSUME DataAssumption ==
    /\ NumDocs \in Nat /\ NumJobs \in Nat /\ ClientJobs \in Nat
    /\ IsFiniteSet(Texts) /\ NoText \notin Texts
    /\ IsFiniteSet(ChunkIds)
    /\ ChunksOf \in [Texts -> SUBSET ChunkIds]
    /\ JobTypes \subseteq {"full", "incremental"}
    /\ MinNum \in Nat /\ MinDen \in Nat \ {0}
    /\ FailingChunks \subseteq ChunkIds
    /\ RaisingSteps \subseteq StepNames /\ CrashSteps \subseteq StepNames
    /\ MaxCrashes \in Nat /\ MaxRetries \in Nat
    /\ DeleteWhileIndexing \in BOOLEAN

VARIABLES
    doc,       \* doc[d]: the document's text, or NoText
    uploaded,  \* texts uploaded so far
    rows,      \* rows[d, c]: chunk rows of document d with chunk_id c
    manifest,  \* delta_manifest.json
    extracted, \* chunks with a (non-empty) extraction under extractions/
    graph,     \* chunks merged in entities.parquet and relationships.parquet
    built,     \* do these two files exist?
    current,   \* derived steps whose artefacts are those of this graph
    textUnits, \* chunks in text_units.parquet
    vecText,   \* chunks in the text_unit_text index
    vecGraph,  \* chunks of the graph in the entity_description index
    jtype,     \* jtype[j]: Job.type
    job,       \* job[j]: Job.status
    done,      \* done[j]: its SUCCEEDED steps
    unit,      \* unit[j, c]: Unit.status under its extract_graph step
    asking,    \* deletions whose handler has still to decide about a shrink job
    wjob,      \* the job the worker executes
    todo,      \* its steps not SUCCEEDED when it was taken, and not executed since
    at,        \* where in the first of them, in the plan's order, the worker is
    snapshot,  \* documents read, still to be chunked
    found,     \* new_chunk_ids
    batch,     \* chunks of the batch whose LLM call has not returned
    ready,     \* chunks whose extraction is written, but not their status
    late,      \* jobs with steps done before a graph that was written since (history)
    gone,      \* chunks deleted since the last merge (history)
    crashes, retries

documents  == <<doc, uploaded, asking>>
graphFiles == <<graph, built, current>>
vectors    == <<vecText, vecGraph>>
artefacts  == <<manifest, extracted, graphFiles, textUnits, vectors>>
control    == <<jtype, job, done, unit>>
memory     == <<snapshot, found, batch, ready>>
worker     == <<wjob, todo, at, memory>>
history    == <<late, gone>>
bounds     == <<crashes, retries>>
vars       == <<documents, rows, artefacts, control, worker, history, bounds>>

Points == {"idle", "step", "load", "chunk", "text_units", "extract", "embed_graph",
           "settle", "reject"}

TypeOK ==
    /\ doc \in [DocIds -> Texts \cup {NoText}] /\ uploaded \subseteq Texts
    /\ rows \in [DocIds \X ChunkIds -> Nat]
    /\ manifest \subseteq ChunkIds /\ extracted \subseteq ChunkIds
    /\ graph \subseteq ChunkIds /\ built \in BOOLEAN /\ current \subseteq DerivedSteps
    /\ textUnits \subseteq ChunkIds /\ vecText \subseteq ChunkIds /\ vecGraph \subseteq ChunkIds
    /\ jtype \in [Jobs -> {"full", "incremental"}]
    /\ job \in [Jobs -> {"none", "pending", "running", "succeeded", "failed"}]
    /\ done \in [Jobs -> SUBSET StepNames]
    /\ unit \in [Jobs \X ChunkIds -> {"none", "pending", "succeeded", "failed"}]
    /\ asking \in Nat
    /\ wjob \in Jobs \cup {NoJob} /\ (at = "idle" <=> wjob = NoJob) /\ at \in Points
    /\ wjob # NoJob => job[wjob] = "running"
    /\ todo \subseteq StepNames
    /\ snapshot \subseteq DocIds \X Texts /\ found \subseteq ChunkIds
    /\ batch \subseteq ChunkIds /\ ready \subseteq ChunkIds
    /\ late \subseteq Jobs /\ gone \subseteq ChunkIds
    /\ crashes \in 0..MaxCrashes /\ retries \in 0..MaxRetries

Init ==
    /\ doc = [d \in DocIds |-> NoText] /\ uploaded = {} /\ asking = 0
    /\ rows = [dc \in DocIds \X ChunkIds |-> 0]
    /\ manifest = {} /\ extracted = {} /\ graph = {} /\ built = FALSE /\ current = {}
    /\ textUnits = {} /\ vecText = {} /\ vecGraph = {}
    /\ jtype = [j \in Jobs |-> "full"] /\ job = [j \in Jobs |-> "none"]
    /\ done = [j \in Jobs |-> {}]
    /\ unit = [jc \in Jobs \X ChunkIds |-> "none"]
    /\ wjob = NoJob /\ todo = {} /\ at = "idle"
    /\ snapshot = {} /\ found = {} /\ batch = {} /\ ready = {}
    /\ late = {} /\ gone = {} /\ crashes = 0 /\ retries = 0

Present == {d \in DocIds : doc[d] # NoText}
Chunked(d) == \E c \in ChunkIds : rows[<<d, c>>] > 0
\* get_chunks: the chunk ids that have a row.
Live == {c \in ChunkIds : \E d \in DocIds : rows[<<d, c>>] > 0}
Units(j) == {c \in ChunkIds : unit[<<j, c>>] # "none"}
SucceededUnits(j) == {c \in ChunkIds : unit[<<j, c>>] = "succeeded"}
\* The steps a job has done after its extraction.
Later(j) == done[j] \ {"load_update_documents", "chunk_documents", "extract_graph"}

-----------------------------------------------------------------------------
(* API: documents and jobs.                                                *)

\* An INTEGER PRIMARY KEY of SQLite: one more than the highest id in use.
Upload(t, d) ==
    /\ t \notin uploaded
    /\ \A e \in Present : e < d
    /\ d = 1 \/ d - 1 \in Present
    /\ doc' = [doc EXCEPT ![d] = t]
    /\ uploaded' = uploaded \cup {t}
    /\ UNCHANGED <<asking, rows, artefacts, control, worker, history, bounds>>

\* No job has begun that has not been settled.
NothingUnderWay ==
    \A j \in Jobs : job[j] \in {"pending", "running"} => done[j] = {} /\ j # wjob

\* The document and its chunk rows, in one transaction.
DeleteDocument(d) ==
    /\ doc[d] # NoText
    /\ DeleteWhileIndexing \/ NothingUnderWay
    /\ doc' = [doc EXCEPT ![d] = NoText]
    /\ rows' = [dc \in DocIds \X ChunkIds |-> IF dc[1] = d THEN 0 ELSE rows[dc]]
    /\ asking' = asking + 1
    /\ gone' = gone \cup (Live \ Live')
    /\ UNCHANGED <<uploaded, late, artefacts, control, worker, bounds>>

\* create_job_pending: the next job id.
Create(j, type) ==
    /\ job[j] = "none" /\ \A i \in Jobs : i < j => job[i] # "none"
    /\ jtype' = [jtype EXCEPT ![j] = type]
    /\ job' = [job EXCEPT ![j] = "pending"]
    /\ UNCHANGED <<done, unit>>

TriggerJob(j) ==
    /\ j <= ClientJobs
    /\ \E type \in JobTypes : Create(j, type)
    /\ UNCHANGED <<documents, rows, artefacts, worker, history, bounds>>

\* Mutant: an incremental job that has ended coalesces, too.
CoalescesWithAnyJob ==
    \/ \E j \in Jobs : job[j] # "none" /\ jtype[j] = "incremental"
    \/ \A j \in Jobs : job[j] # "succeeded"

\* _maybe_create_shrink_job: a job that will see the deletion is on its way, or
\* nothing has been indexed.
Coalesces ==
    \/ \E j \in Jobs : job[j] \in {"pending", "running"} /\ jtype[j] = "incremental"
    \/ \A j \in Jobs : job[j] # "succeeded"

MaybeCreateShrinkJob ==
    /\ asking > 0
    /\ asking' = asking - 1
    /\ \/ Coalesces /\ UNCHANGED control
       \/ ~Coalesces /\ \E j \in Jobs : Create(j, "incremental")
    /\ UNCHANGED <<doc, uploaded, rows, artefacts, worker, history, bounds>>

\* POST /units/{id}/retry on a FAILED job: the unit PENDING, its step no longer
\* SUCCEEDED, the job requeued.
RetryUnit(j, c) ==
    /\ retries < MaxRetries
    /\ job[j] = "failed" /\ unit[<<j, c>>] # "none"
    /\ retries' = retries + 1
    /\ unit' = [unit EXCEPT ![<<j, c>>] = "pending"]
    /\ done' = [done EXCEPT ![j] = @ \ {"extract_graph"}]
    /\ job' = [job EXCEPT ![j] = "pending"]
    /\ late' = IF Later(j) = {} THEN late ELSE late \cup {j}
    /\ UNCHANGED <<jtype, gone, crashes, documents, rows, artefacts, worker>>

-----------------------------------------------------------------------------
(* The executor.                                                           *)

Claim(j) ==
    /\ at = "idle" /\ job[j] = "pending" /\ \A i \in Jobs : i < j => job[i] # "pending"
    /\ job' = [job EXCEPT ![j] = "running"]
    /\ wjob' = j /\ at' = "step"
    /\ todo' = PlanSteps(jtype[j]) \ done[j]
    /\ late' = late \cup {i \in Jobs \ {j} : job[i] = "pending" /\ Later(i) # {}}
    /\ UNCHANGED <<jtype, done, unit, memory, documents, rows, artefacts, gone, bounds>>

\* The step the worker is in, or comes to next.
Current(s) ==
    LET plan == Plan(jtype[wjob])
    IN  /\ s \in todo
        /\ \A i, k \in DOMAIN plan : plan[k] = s /\ i < k => plan[i] \notin todo
Executing(s) == at = "step" /\ Current(s)

\* A step's work between two commits leaves the control rows alone.
Working == UNCHANGED <<documents, control, wjob, todo, history, bounds>>

SettleStep ==
    /\ at = "settle"
    /\ \E s \in todo :
          /\ Current(s)
          /\ done' = [done EXCEPT ![wjob] = @ \cup {s}]
          /\ todo' = todo \ {s}
    /\ at' = "step"
    /\ UNCHANGED <<jtype, job, unit, wjob, memory, documents, rows, artefacts, history, bounds>>

\* The summaries read entities.parquet.
StepRaises ==
    /\ at \in {"step", "embed_graph"}
    /\ \/ \E s \in RaisingSteps : Current(s)
       \/ Current("summarize_descriptions") /\ ~built
    /\ at' = "reject"
    /\ Working /\ UNCHANGED <<memory, rows, artefacts>>

\* Mutant: the job is not given up.
LeaveTaken ==
    /\ UNCHANGED wjob /\ at' = "idle" /\ todo' = {}
    /\ snapshot' = {} /\ found' = {} /\ batch' = {} /\ ready' = {}

Leave ==
    /\ wjob' = NoJob /\ at' = "idle" /\ todo' = {}
    /\ snapshot' = {} /\ found' = {} /\ batch' = {} /\ ready' = {}

FailJob ==
    /\ at = "reject"
    /\ job' = [job EXCEPT ![wjob] = "failed"]
    /\ Leave
    /\ UNCHANGED <<jtype, done, unit, documents, rows, artefacts, history, bounds>>

CompleteJob ==
    /\ at = "step" /\ todo = {}
    /\ job' = [job EXCEPT ![wjob] = "succeeded"]
    /\ Leave
    /\ UNCHANGED <<jtype, done, unit, documents, rows, artefacts, history, bounds>>

\* A hard kill; recovery puts the job back.
Crash ==
    /\ crashes < MaxCrashes /\ \E s \in CrashSteps : Current(s)
    /\ crashes' = crashes + 1
    /\ job' = [job EXCEPT ![wjob] = "pending"]
    /\ Leave
    /\ UNCHANGED <<jtype, done, unit, retries, documents, rows, artefacts, history>>

-----------------------------------------------------------------------------
(* Chunking.                                                               *)

ReadDocuments ==
    /\ Executing("load_update_documents") \/ Executing("chunk_documents")
    /\ snapshot' = {<<d, doc[d]>> : d \in Present}
    /\ found' = {}
    /\ at' = IF Executing("load_update_documents") THEN "load" ELSE "chunk"
    /\ Working /\ UNCHANGED <<batch, ready, rows, artefacts>>

WithChunks(docs) ==
    [dc \in DocIds \X ChunkIds |->
       rows[dc] + Cardinality({dt \in docs : dt[1] = dc[1] /\ dc[2] \in ChunksOf[dt[2]]})]

\* load_update_documents, one document: skipped when it has chunk rows; add_chunks
\* breaks the foreign key when the document is gone.
LoadDocument(d, t) ==
    /\ at = "load" /\ <<d, t>> \in snapshot
    /\ snapshot' = snapshot \ {<<d, t>>}
    /\ \/ /\ Chunked(d)
          /\ UNCHANGED <<at, found, rows>>
       \/ /\ ~Chunked(d) /\ doc[d] # NoText
          /\ rows' = WithChunks({<<d, t>>})
          /\ found' = found \cup ChunksOf[t]
          /\ UNCHANGED at
       \/ /\ ~Chunked(d) /\ doc[d] = NoText
          /\ at' = "reject"
          /\ UNCHANGED <<found, rows>>
    /\ Working /\ UNCHANGED <<batch, ready, artefacts>>

WriteManifest ==
    /\ at = "load" /\ snapshot = {}
    /\ manifest' = found
    /\ at' = "settle"
    /\ Working
    /\ UNCHANGED <<memory, rows, extracted, graphFiles, textUnits, vectors>>

\* _chunk_documents: the rows of all documents in one transaction, then the file.
ChunkDocuments ==
    /\ at = "chunk"
    /\ IF \A dt \in snapshot : doc[dt[1]] # NoText
       THEN rows' = WithChunks(snapshot) /\ at' = "text_units"
       ELSE at' = "reject" /\ UNCHANGED rows
    /\ Working /\ UNCHANGED <<memory, artefacts>>

WriteTextUnits ==
    /\ at = "text_units"
    /\ LET chunks == UNION {ChunksOf[dt[2]] : dt \in snapshot}
       IN  textUnits' = IF chunks = {} THEN textUnits ELSE chunks
    /\ at' = "settle"
    /\ Working
    /\ UNCHANGED <<memory, rows, manifest, extracted, graphFiles, vectors>>

-----------------------------------------------------------------------------
(* Extraction.                                                             *)

\* Mutant: the manifest is not looked at.
SelectableUnfiltered == {c \in Live : unit[<<wjob, c>>] \in {"none", "pending"}}

\* next_units_batch; an incremental job looks at the manifest's chunks only.
Selectable ==
    {c \in Live : /\ unit[<<wjob, c>>] \in {"none", "pending"}
                  /\ jtype[wjob] = "incremental" => c \in manifest}

SelectBatch ==
    /\ Executing("extract_graph") /\ Selectable # {}
    /\ batch' = Selectable
    /\ unit' = [jc \in Jobs \X ChunkIds |->
                  IF jc[1] = wjob /\ jc[2] \in Selectable THEN "pending" ELSE unit[jc]]
    /\ at' = "extract"
    /\ UNCHANGED <<jtype, job, done, wjob, todo, snapshot, found, ready,
                   documents, rows, artefacts, history, bounds>>

\* run_unit and persist: a chunk deleted meanwhile is extracted from an empty
\* text.
ExtractChunk(c) ==
    /\ at = "extract" /\ c \in batch
    /\ extracted' = IF c \in Live THEN extracted \cup {c} ELSE extracted \ {c}
    /\ batch' = batch \ {c} /\ ready' = ready \cup {c}
    /\ Working
    /\ UNCHANGED <<at, snapshot, found, rows,
                   manifest, graphFiles, textUnits, vectors>>

UnitOutcome(c, status) ==
    /\ unit' = [unit EXCEPT ![<<wjob, c>>] = status]
    /\ at' = IF batch' \cup ready' = {} THEN "step" ELSE "extract"
    /\ UNCHANGED <<jtype, job, done, wjob, todo, snapshot, found,
                   documents, rows, artefacts, history, bounds>>

SucceedUnit(c) ==
    /\ at = "extract" /\ c \in ready
    /\ ready' = ready \ {c} /\ UNCHANGED batch
    /\ UnitOutcome(c, "succeeded")

FailUnit(c) ==
    /\ at = "extract" /\ c \in batch /\ c \in FailingChunks
    /\ batch' = batch \ {c} /\ UNCHANGED ready
    /\ UnitOutcome(c, "failed")

\* The graph files are rewritten: nothing derived reflects them any more.
WriteGraph(chunks) == graph' = chunks /\ built' = TRUE /\ current' = {}

\* finalize: nothing is written when there is no unit, or too few succeeded.
FinalizeExtract ==
    /\ Executing("extract_graph") /\ Selectable = {}
    /\ \/ /\ Units(wjob) = {}
          /\ at' = "settle" /\ UNCHANGED graphFiles
       \/ /\ Units(wjob) # {}
          /\ Cardinality(SucceededUnits(wjob)) * MinDen < MinNum * Cardinality(Units(wjob))
          /\ at' = "reject" /\ UNCHANGED graphFiles
       \/ /\ Units(wjob) # {}
          /\ Cardinality(SucceededUnits(wjob)) * MinDen >= MinNum * Cardinality(Units(wjob))
          /\ WriteGraph(SucceededUnits(wjob) \cap extracted)
          /\ at' = "settle"
    /\ Working
    /\ UNCHANGED <<memory, rows, manifest, extracted, textUnits, vectors>>

-----------------------------------------------------------------------------
(* What follows the extraction.                                            *)

\* Mutants: every file is merged; the new chunks' files are merged.
MergeEveryFile == extracted
MergeNewChunks == extracted \cap Live \cap manifest

\* Mutant: files of older jobs are pruned.
PruneOld == extracted \cap manifest
Pruned == extracted \cap Live

\* Orphan extractions are pruned, the others merged.
Mergeable == extracted \cap Live

MergeDelta ==
    /\ Executing("merge_delta")
    /\ extracted' = Pruned
    /\ WriteGraph(Mergeable)
    /\ at' = "settle"
    /\ gone' = {}
    /\ UNCHANGED <<documents, control, wjob, todo, late, bounds, memory, rows, manifest,
                   textUnits, vectors>>

\* The files are rewritten from the graph and what is carried over.
Derive ==
    /\ built
    /\ \E s \in DerivedSteps : Executing(s) /\ current' = current \cup {s}
    /\ at' = "settle"
    /\ Working
    /\ UNCHANGED <<memory, rows, manifest, extracted, graph, built, textUnits, vectors>>

UpdateCleanState ==
    /\ Executing("update_clean_state")
    /\ textUnits' = Live
    /\ at' = "settle"
    /\ Working
    /\ UNCHANGED <<memory, rows, manifest, extracted, graphFiles, vectors>>

\* An empty collection is skipped, a non-empty one replaces its index.
EmbedTextUnits ==
    /\ Executing("generate_text_embeddings")
    /\ vecText' = IF textUnits = {} THEN vecText ELSE textUnits
    /\ at' = "embed_graph"
    /\ Working
    /\ UNCHANGED <<memory, rows, manifest, extracted, graphFiles, textUnits, vecGraph>>

EmbedGraph ==
    /\ at = "embed_graph"
    /\ vecGraph' = IF graph = {} THEN vecGraph ELSE graph
    /\ at' = "settle"
    /\ Working
    /\ UNCHANGED <<memory, rows, manifest, extracted, graphFiles, textUnits, vecText>>

ChunkStep ==
    \/ ReadDocuments \/ WriteManifest \/ ChunkDocuments \/ WriteTextUnits
    \/ \E d \in DocIds : \E t \in Texts : LoadDocument(d, t)

ExtractStep ==
    \/ SelectBatch \/ FinalizeExtract
    \/ \E c \in ChunkIds : ExtractChunk(c) \/ SucceedUnit(c) \/ FailUnit(c)

GraphStep == MergeDelta \/ Derive \/ UpdateCleanState \/ EmbedTextUnits \/ EmbedGraph

WorkerStep ==
    \/ \E j \in Jobs : Claim(j)
    \/ ChunkStep \/ ExtractStep \/ GraphStep
    \/ SettleStep \/ StepRaises \/ FailJob \/ CompleteJob

ApiStep ==
    \/ \E t \in Texts : \E d \in DocIds : Upload(t, d)
    \/ \E d \in DocIds : DeleteDocument(d)
    \/ \E j \in Jobs : TriggerJob(j)
    \/ MaybeCreateShrinkJob
    \/ \E j \in Jobs : \E c \in ChunkIds : RetryUnit(j, c)

Next == WorkerStep \/ Crash \/ ApiStep

Spec == Init /\ [][Next]_vars

\* The worker loop goes on, and a request handler runs to its end.
FairSpec == Spec /\ WF_vars(WorkerStep) /\ WF_vars(MaybeCreateShrinkJob)

-----------------------------------------------------------------------------
(* Properties.                                                             *)

\* No job is waiting or running, no deletion is being handled, and the last job
\* SUCCEEDED.
Quiet ==
    /\ wjob = NoJob /\ asking = 0
    /\ \A j \in Jobs : job[j] \notin {"pending", "running"}
    /\ \E j \in Jobs : job[j] = "succeeded" /\ \A i \in Jobs : i > j => job[i] = "none"

\* A failed extraction that the step's success ratio allowed.
Tolerated(c) == \E j \in Jobs : unit[<<j, c>>] = "failed" /\ "extract_graph" \in done[j]

\* Every chunk of the knowledge base is in the graph once its jobs have
\* succeeded: what an earlier job extracted is kept by an incremental one, and
\* no chunk row is left out (load_update_documents, merge_delta).
GraphComplete == Quiet => \A c \in Live : c \in graph \/ Tolerated(c)

\* What is deleted is gone from the graph, the text units and the vectors once the jobs
\* have succeeded.  The code breaks it for a deletion after the merge of a job it
\* is coalesced with.
DeletedIsGone == Quiet /\ Live # {} => graph \cup textUnits \cup vecText \subseteq Live

Completes(j) == job[j] = "running" /\ job'[j] = "succeeded"

\* Whatever is deleted, retried, raised or killed meanwhile, an incremental job
\* that succeeds leaves in the graph every extraction there is of a chunk of the
\* knowledge base, and nothing that was deleted before its merge; so the text units
\* (merge_delta, update_clean_state; a deletion relies on it when it is coalesced
\* with a job under way).  Of a job that is late the steps done before
\* are not done again.
GraphClean ==
    [][\A j \in Jobs \ late : Completes(j) /\ jtype[j] = "incremental" =>
         /\ extracted \cap Live \subseteq graph /\ graph \subseteq Live \cup gone
         /\ Live \subseteq textUnits /\ textUnits \subseteq Live \cup gone]_vars

\* Nothing is older than what it is derived from when a job has succeeded, unless the
\* job is late: summaries, communities and reports were made on this graph, the
\* indexes hold these text units and this graph (the order of plan_full and
\* plan_incremental).  An empty collection is skipped, and its index stays.
ArtefactsCurrent ==
    [][\A j \in Jobs \ late : Completes(j) =>
         /\ DerivedSteps \subseteq current
         /\ textUnits # {} => vecText = textUnits
         /\ graph # {} => vecGraph = graph]_vars

\* An incremental job sends no chunk to the model that another job extracted
\* (ExtractGraphDeltaStrategy).
NoReparse ==
    wjob # NoJob /\ jtype[wjob] = "incremental" =>
        \A c \in batch : \A j \in Jobs \ {wjob} : unit[<<j, c>>] # "succeeded"

\* A chunk's row is the only one for its document and text (chunk_documents is
\* not run again for a document it has chunked).
RowsOnce == \A dc \in DocIds \X ChunkIds : rows[dc] <= 1

\* The extraction of a chunk of the knowledge base is never lost, whatever is
\* deleted, retried or crashes meanwhile: incremental jobs rebuild the graph
\* from these files alone (merge_delta prunes orphans only).
ExtractionsKept == [][extracted \cap Live' \subseteq extracted']_vars

\* What was deleted eventually leaves the graph.
DeletionsReachGraph == \A c \in ChunkIds : (c \in graph \ Live) ~> (c \notin graph \ Live)
=============================================================================
