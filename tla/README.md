# Verification of the GraphRAG knowledge-base platform

TLA+ models of the platform (`src/kb_platform`, `src/alembic`), the TLC
configurations that check them on small instances, and TLAPS proofs of what must
hold for every instance. Line numbers refer to the files under `src/`.

- [The system](#the-system): components, state, operations, what is hard
- [Modules](#modules): what is modelled, and how it corresponds to the code
- [Runs](#runs): what TLC checks, bounds, fairness
- [Divergences](#divergences): where the code does not do what it says
- [Proofs](#proofs)
- [Not modelled](#not-modelled) and [Plan](#plan)

## The system

Three processes share one SQLite database (WAL, foreign keys on) and one data
directory per knowledge base:

- the **API server** (FastAPI; one asyncio loop, `def` routes in a thread pool),
- one **worker** (`worker.py`; the phase-2b design, §3 and §5, makes a second one a
  non-goal) that polls the job table, and
- optionally an **MCP proxy**, stateless in front of the API.

The database is both the store and the queue: the server inserts rows, the worker
executes them, and neither calls the other. Every repository method is one
transaction (`session_scope`); nothing holds a lock from one call to the next.

| component | state | operations | what is hard | what makes it correct |
|---|---|---|---|---|
| **Index jobs** `worker.py`, `engine/orchestrator.py`, `engine/unit_worker.py`, `db/repository.py` | `job`, `step`, `unit` rows; heartbeats; the loop's stack | recover, claim, run a plan of atomic and fan-out steps, settle; SIGKILL, restart | a crash between any two commits; up to `concurrency` units in flight; recovery by heartbeat age | steps run in order; finished work is kept; the success ratio gates; jobs are served one at a time and all settle |
| **Retries** `api/routes_jobs.py` | the same rows | `retry_unit` (three commits), `retry_step` (two) | races with the worker at each commit | a retried unit is processed |
| **Knowledge-base contents** `engine/incremental.py`, `api/routes_kbs.py` | `document`, `chunk` rows; `delta_manifest.json` | upload, delete, chunk, load new documents | rows, manifest and step status are separate commits; row ids are reused | chunk rows are the document's text, once; no chunk is forgotten |
| **Artefacts** `engine/atomic_steps.py`, `strategies/extract_graph.py` | `extractions/*.json`, graph parquet, text units, LanceDB indexes | extract, merge, derive, clean up, embed | several files updated by different steps of different jobs | complete, without deleted content, nothing older than its source |
| **Summaries and reports** `strategies/summarize_descriptions.py`, `community_reports.py`, `delta.py` | `summaries/`, `reports/`, `reports_by_hash/`, input hashes | select by level or by hash, persist, carry over | community ids are reassigned by every clustering; reuse across jobs | a report describes the community it is filed under |
| **Realtime progress** `api/realtime.py` | subscribers, the last frame sent | subscribe, poll, diff, broadcast, unsubscribe | one baseline shared by all subscribers; awaits inside the broadcast | every subscriber converges to the database |
| **LLM failover** `llm/circuit_breaker.py`, `gateway.py`, `health.py` | breaker state per profile, failure counts | allow, record, fail over, probe | results of calls begun under an earlier state; streams that fail halfway | an open breaker recovers; a healthy profile is used |
| **Conversations** `conversation/service.py` | conversation and message rows | send, stream, rename, delete | disconnects, two turns at once, deletion in mid-stream | a history of question and answer |
| **Profiles** `api/routes_profiles.py` | provider profiles, references | create, update, delete | a check in one transaction, the write in the next; no foreign keys; row ids are reused | a knowledge base keeps the profiles it was given |
| **Queries** `query/`, `neo4j/`, `api/routes_query.py` | files of the index, read | select an engine, read or run a statement, stream | the index is written by another process meanwhile; anything may fail between two awaits; clients leave | a stream that has begun ends once, in done or error; the index read is the knowledge base's |
| **Embedding client** `llm/embedding.py` | vectors so far, attempts, the cycle of keys | send a batch, retry, order the reply | replies out of order or short | vectors belong to their texts |
| **Chunker** `graph/markdown_chunker.py` | blocks, the chunk being packed | segment, pack, take large blocks apart | sizes at the limit | no text lost, chunks within the size |
| **Migrations** `alembic/` | schema, version, profile rows | upgrade, downgrade | DDL commits by itself, the version later | head has the models' schema; connections survive |
| **Export, statistics, MCP, installer, web** | none, or a file | read, render | - | - |

The parts interact through rows and files only. A request commits job, step or
document rows; the worker's next poll or next read of a row sees them. Within the
worker, the orchestrator reads its steps once per job and each step's status again
when it has run; the fan-out asks the strategy for batches until there is none; the
steps hand artefacts to one another through files named by content or by step. The
realtime hub reads the same rows every half second.

The hazards of each part, at the lines where they bite, with the properties that
would catch them, are listed in `PROJECT.json`.

## Modules

| module | what |
|---|---|
| `JobQueue` | abstract: what the job table promises to those who submit jobs |
| `IndexJobs` | the control plane: jobs, steps, units, the worker, crashes, retries |
| `IndexJobsProofs` | theorems about `IndexJobs`: types, order, ratio, refinement |
| `IndexJobsRecovery` | theorems about what a crash leaves behind in `IndexJobs` |
| `IncrementalIndex` | the data plane: documents, chunks, extractions, graph, indexes |
| `IncrementalIndexProofs` | theorems about `IncrementalIndex`: types, extractions, what a job leaves behind |
| `DeltaReports` | what summaries and community reports say, job after job |
| `DeltaReportsProofs` | theorems about `DeltaReports` |
| `Failover` | the LLM gateway, its circuit breakers and the health probe |
| `RealtimeHub` | WebSocket clients of a job's progress |
| `Conversations` | turns of a conversation and the routes around them |
| `Catalogue` | provider profiles and who refers to them |
| `Queries` | streamed queries, over an index that is being written |
| `ServerProofs` | theorems about `RealtimeHub`, `Conversations`, `Catalogue` and `Queries` |
| `Migrations` | the schema's revisions |
| `MarkdownChunks` | the chunker |
| `ChunksProofs` | theorems about `MarkdownChunks` |
| `Embeddings` | the embedding client |
| `FoundationsProofs` | theorems about `Failover`, `Migrations` and `Embeddings` |
| `MC*` | small instances; `MCServer` and `MCFoundations` put independent parts side by side |

Definitions introduced by a comment beginning with `Mutant` are plausible mistakes in
the definition that follows them. No specification uses them; they show that each
property can fail.

### IndexJobs

One action is one repository call, or the in-memory step between two. Control is
`wpc`, the place in the worker's code:

| `wpc` | code |
|---|---|
| `down` | the process does not run |
| `idle`, `recover`, `claim` | `run_worker` and the head of `run_worker_once`: recover stale units, stale jobs, claim |
| `load`, `plan`, `next` | load the knowledge base and its adapter; `Orchestrator.run` marks the job, takes its snapshot of steps, loops |
| `work` | an atomic step |
| `select`, `lookup`, `mark`, `run`, `finalize` | `run_unit_fanout`: the batch, its rows, RUNNING, the coroutines under the semaphore, the ratio |
| `settle`, `check` | the step's status is written, then read again |
| `reject`, `raise`, `raise_job`, `raise_worker` | the failure paths: a step not SUCCEEDED; the three handlers of an exception, each with its own commit |

The variables `todo`, `cur`, `batch`, `held`, `waiting`, `active` are locals of those
functions; a crash loses them and keeps the rows. `fresh` holds the RUNNING units
whose heartbeat is younger than `stale_seconds` (30 s): a heartbeat task renews it
every 5 s while the worker lives, and `HeartbeatExpires` may happen once it does
not. `PromptRestart` says whether the worker may be back earlier than that.
A retry request is a small process of its own (`req[r].at`), because each of its
commits may fall between any two of the worker's.

Data is abstracted to what control depends on: an atomic step succeeds or raises, a
unit succeeds or fails, a strategy is the set of its subjects with their levels.
`EmptyOk` records that finalize accepts a step without units.

After a job is SUCCEEDED the code calls `reconsolidate` and `write_kb_stats` inside
the same `try`. The first returns at once (nothing in the running program sets
`needs_reconsolidation`), the second catches its own exceptions; both are left out.
So is the cancellation on SIGTERM: `JobStatus.CANCELLED` is never written, and a
worker stopped in mid-job leaves the same rows as a killed one.

### JobQueue

A queue served in submission order by one executor; a job whose executor died is put
back, a FAILED job can be requeued. `closing` is the job whose executor has written
FAILED once, in `Orchestrator.run`, and will write it again when the exception reaches
`run_worker_once` (`worker.py:113`): `FailAgain` is the only action that fails a job
which is not RUNNING, and it undoes a retry that came in between. `ImplementsQueue` is
`Queue!Spec` under `job <- job`, `closing <- Closing`: the rows are the abstract state,
and `Closing` is read off the worker's position (in the last handler, its job no longer
RUNNING); steps, units and the rest of the worker are hidden.

### IncrementalIndex

Documents come and go through the API while full and incremental jobs chunk,
extract, merge, derive and embed. The order of the commits inside a step is kept
where a crash or another request can fall between them: `ReadDocuments`, then one
`LoadDocument` per document, then `WriteManifest`, then `SettleStep`; the extraction
file, then the unit's status; the deletion, then (`asking`) the decision about a
shrink job.

- `rows[d, c]` counts the chunk rows of a document with a chunk id. A chunk id is the
  hash of the chunk's text, so documents may share one (`ChunksOf`).
- `graph` is the set of chunks whose extractions are merged in
  `entities.parquet`/`relationships.parquet`, that is, which entities and relationships
  there are; `current` the derived steps that have run on this graph.
  `summarize_descriptions` rewrites `entities.parquet` with the same entities and new
  descriptions; what descriptions and reports say is the subject of `DeltaReports`.
- `vecText`, `vecGraph` stand for the LanceDB tables: an empty collection is skipped,
  any other overwrites its table. The third, of community reports, goes the way of
  the second.
- `job`, `done`, `unit` are the part of the control rows the data plane needs. The
  races inside them are `IndexJobs`' subject: here a crash puts its job back with
  units PENDING, as it is after 30 seconds, and a unit retry is one step on a FAILED
  job.
- Two history variables say whom a promise is made to. `gone` holds the chunks deleted
  since the last merge. `late` holds the jobs that had steps after the extraction
  done when their extraction was reopened by a retry, or when the worker took another
  job while they were waiting (a crash or a retry put them back, and an older job
  was put back too): what they have done is not done again, on whatever graph they
  find.
- A new document's id is one more than the highest in use, as SQLite assigns it.

With the real adapter a graph without relationships makes `community_reports` raise
(the clustering has no rows and so no `level` column); the test adapter returns the
column. The model lets the step do either (`RaisingSteps`).

### DeltaReports

A job begins with a merged graph, any of `Graphs`, and goes through
`summarize_descriptions`, `create_communities` and `community_reports`, with the full
or the delta strategies. A description is the set of pieces it was made from, a
report the context it was written for, and a hash the hashed value; so "current" can
be said of each. Two things are between the writes of a unit: its files
(`summaries/`, `reports/`, `reports_by_hash/`) come first, its status and hash
second, and a worker killed between them resumes its job with the unit PENDING.
Clusterings are arbitrary: the ids, levels and parents of one say nothing about the
next. A job may follow one that FAILED, whose files it then finds as that one left
them. Units are retried in the last job only, when it has FAILED.

### Failover

`call[c]` is one request in `collect` or `astream`: the candidates left (`queue`, by
place in the profile list), those that failed, those whose breaker barred them when
the request began. Breakers belong to endpoints and are shared by all callers and the
probe. Everything between two awaits is one action. An endpoint that is up may still
refuse a request, send what is not JSON, or cut a stream; one that is down returns
5xx, 429 or nothing. A request ends in `answered`, in `error` when no candidate is
left, or in `raised`: `Misshapen` is a body in another encoding than its header says or
JSON of another shape than the code reads, which raises outside the handlers of
`collect` (`gateway.py:275-280`) and `astream` (`sse.py:16-31`), and `MisshapenUsage`
the same for the numbers of tokens, which `collect` reads again after it has recorded
the success (`gateway.py:281-296`); no other profile is tried then.
`Bootstrap` and `RunLoop` are the two orders in which a process
can start: in `server.main` bootstrap comes first (`BootstrapInLoop = FALSE`).
The count of failures is compared with the threshold only and stops there in the model.
A candidate uses the first key of its profile (`gateway.py:68`).

### RealtimeHub, Conversations, Catalogue, Queries

Four parts of the API server that share no rows; `MCServer` runs one per behaviour.

- `RealtimeHub`: a row is the number of its writes. A frame is read in two steps,
  `ReadJob` and the rest, because the worker writes from another process; a broadcast
  is one step per socket, because each send is awaited and subscriptions,
  disconnections and the handlers' ends fall in between. `baseline` is
  `_last_frame`, which `Subscribe` overwrites for everyone; when its snapshot raises
  the socket has been added already, and the baseline stays what it was, or unset in
  a new broadcaster (`realtime.py:121-123`).
- `Conversations`: a turn is a coroutine suspended at every await and yield, other
  routes run between its commits. Row ids come back after a deletion; `birth` tells
  two rows of one id apart. The route's check is `Accept`, the service's own read is
  `Begin`: it finds the conversation gone and says nothing, or decides
  from what it reads on title, engine and method. A title may be empty at any time: one
  given by a client, or one made of a blank question.
- `Catalogue`: each route validates in one transaction and writes in the next
  (`deleting`, `request` are what lies between). There are no foreign keys, as the
  migrations create none for these columns (`0005:35-36`, `0010:36-39`). Three history
  variables: `asked` and `given` are the births of the profiles as the request was
  validated and as the row's last request was; `overlapped` are the knowledge bases
  whose last write met a deletion of one of its profiles.
- `Queries`: the stream of one query from the choice of an engine to its last event.
  Files of the index are read one by one, in the order of `_build_engine`, while jobs
  write them in the order of the steps. A vector store that does not exist is opened
  without complaint; drift looks into it at once and may fail. The settings are
  read before the route's own `try` (`routes_query.py:59-67`): if that raises, the
  response ends without any event (`:121-123`).

### Migrations, MarkdownChunks, Embeddings

Three parts that share nothing; `MCFoundations` runs one per behaviour.

- `Migrations`: all eleven revisions, as the columns and indexes their DDL statements
  create. A statement is committed by itself; the rows that revisions 5 and 7 write
  and the version are committed together at the end. The process may be killed
  anywhere and any command given next. Types, defaults, constraints and keys are
  left out.
- `MarkdownChunks`: a line is its kind and the tokens of its sentences; a token is
  known by its place, so that a lost, doubled or displaced one is seen. Separators
  cost no token, and a sentence does not run over a line, which makes the
  token counts of the model a lower bound of the code's. `ChunksFaithful` bounds what a
  chunk has besides its headings, and leaves out a chunk that begins with a fence or is
  one row of a table under its header; that a sentence is not cut in two
  is not checked.
- `Embeddings`: a reply is any order of any subset of the batch's vectors, numbered,
  or in order and unnumbered. Callers that share one embedder, and so its cycle of
  keys, are not modelled; neither are pauses between attempts.

## Runs

Every instance is exhausted: the bounds are on jobs, crashes, retries, documents,
requests and the like, and nothing else is cut off. Deadlock is checked for
`IndexJobs` and `Failover`. It is not for the others, where the clients may have used
up their bound of requests.

| run | instance | shows |
|---|---|---|
| `core` | 1 job, 3 steps (atomic, flat fan-out of 2, two-level fan-out), 1 crash, 1 unit retry, 1 step retry, ratio 1/2, any step raising, any unit failing | types; `StepsInOrder`, `QualityGate`, `NoStrandedStep`; finished units, steps and jobs are kept |
| `crashes` | 1 job, 3 steps, 2 crashes, restarts after 30 s, 1 failing subject, 1 raising step, both retries, ratio 1 | `CrashIsTransparent`: a job fails only for another cause than a crash; `BottomUp`: a report is made after its children's |
| `queue` | 2 jobs of 2 steps, 1 crash, failing start, a raising step, failing units, 1 step retry | `JobOwnership`; refinement of `JobQueue`; under fairness `JobsSettle` and `UnitsNotStranded` |
| `delta` | 2 documents (2 chunks and 1), 2 client jobs of either type and 1 shrink job, 1 crash, 1 chunk that may fail, steps after the merge that raise | types; when the jobs are done: `GraphComplete`; at any time `NoReparse` |
| `churn` | 2 documents sharing a chunk, 2 jobs, deletion at any moment, a crash, a retry, a raising step, a chunk that may fail, ratio 2/3 | whenever a job succeeds: `GraphClean`, `ArtefactsCurrent`; at every step `ExtractionsKept` |
| `deletions` | 1 client job and 2 shrink jobs, 2 crashes | `DeletionsReachGraph` |
| `reports` | 3 jobs of either type, 4 graphs of 2 entities, 4 clusterings of up to 3 ids and levels, 1 failing unit of each kind, 1 kill, 1 retry | summaries and reports are about what is there, none is lost or paid for twice |
| `failover` | 2 callers, one streaming, on 2 endpoints in opposite order, 3 requests, threshold 2, outages and replies of another shape at any time, the probe | `BreakerConsistent`, `FailoverInOrder`; under fairness `BreakersFollowHealth` |
| `never_probed` | the same with 2 requests, started as `server.main` does | violated: `ProbeRuns` |
| `server` | 2 sockets of one job; 2 turns, 3 conversations, 1 rename; 3 profiles, 1 update, 1 knowledge base written twice, deletions that overlap with anything but another one of the same profile; 1 query of any method on 2 knowledge bases | `ViewsMonotone`, `NewestConverges`; `AnswersFollowQuestions`, `TurnLeavesTrace`; `ReferencesKept`; `StreamsEnd` |
| `query_root` | the same | violated: `QueriesOwnIndex` |
| `foundations` | 3 alembic commands over 2 knowledge bases; every document of up to 4 lines of 9 kinds and sizes, chunks of 3 tokens; up to 5 texts in batches of 3, 2 keys, 2 attempts | `UpgradeFaithful`; `ChunksFaithful`; `VectorsFit` |

Why the bounds are enough for the cases in question.

- Jobs: two steps suffice to be out of order and the third adds a second fan-out; two
  subjects make a leaf and its root, a batch with one done and one not, and every
  ratio that matters at 1/2 and 1; the effects of a crash on rows are repeated by a
  second crash, which `crashes` allows; two jobs make a queue.
- Data: one document is old when the other is new, the first has a chunk to fail and
  one to succeed, and with three jobs one comes after another that came after a first.
  In `churn` two jobs are enough for one to come between the halves of another; a
  failing chunk with a ratio above 1/2 makes a job fail that can be retried.
- Reports: with three jobs a hash can match the job before, the one before that, or
  one in between may have changed and restored it; four clusterings give an id to the
  same community, to a larger and to another one; a community has a parent, and in one
  clustering a parent's parent, so that a change two levels below is seen.
- Failover: one failure leaves a threshold of 2 closed and one opens it; with two
  callers and the probe a late result meets every state; a caller has two profiles on
  one endpoint, so one outcome of a request changes what the next attempt meets.
- Server: two sockets are the fewest that share a baseline; two turns overlap, and a
  third conversation takes over an id; a profile can be deleted and its id come back
  while a request that was validated for it waits to be written, or while another
  deletion is between check and commit; a job writes all files of an index around every
  read.
- Foundations: three commands make an upgrade cut short and repeated, a downgrade and
  an upgrade again; two connections share all, a name, or a name and its counter;
  four lines hold a heading, a table with header, rule and row, an open fence or a
  blank line between two blocks; sizes lie under, at and over the limit; five texts
  give a full batch and a short one.

**Fairness.** `WorkerStep` is weakly fair: the loop polls for ever, an exception is
caught by `run_worker_once`, and an LLM call ends because its HTTP client has a
timeout. `Restart` is fair because the service manager restarts a dead worker;
`HeartbeatExpires` because time passes; `RetryContinues` and `MaybeCreateShrinkJob`
because a handler runs to its end. In `Failover` the start of the process and the
probe's task are fair as tasks of a running event loop, and so is `CallStep(c)` of each
caller because of the same timeouts; the clock (`Tick`) and new requests are not
needed. In `RealtimeHub` the poll task and a subscription that has been accepted are
fair as tasks of the loop. Submitting a job, sending a retry, uploading, deleting,
connecting, disconnecting, outages and crashes are never required. Crashes and
retries are bounded, so they cannot be repeated for ever; the code promises nothing
if they are. In `deletions` no step raises: a shrink job that fails is not tried
again by itself.

**What the properties leave out.**

- `GraphClean` and `ArtefactsCurrent` make their promise for a job that succeeds, under
  any deletions, kills, retries and exceptions, with two exceptions each: a job that is
  `late`, and what was deleted after the job's merge (`gone`), or a collection that is
  empty, whose index is not rewritten.
- `GraphComplete` and `NoReparse` hold of the instance `delta`: documents are deleted
  while no job has begun, the worker is killed in any step but
  `load_update_documents`, nothing is retried, and no two documents share a chunk.
  `DeletionsReachGraph` is about deletions between jobs, too.
- `SummariesCurrent` has two exceptions: an entity whose last unit has failed or was
  killed before its status, and one that is left with one piece, which an
  incremental job describes by its old summary. `ReportsCurrent` has three: a failed
  unit, a report below that was retried, a context that an earlier job reported.
- `FailoverInOrder` promises that a request is given up as exhausted only when every
  profile has failed or was barred, and that a profile answers or raises only after
  those before it; a request that is `raised` leaves the later ones untried.
  `failover` is about a process whose probe runs, which the bound on requests leaves
  alone to bring a breaker back.
- `NewestConverges` is about the last subscriber. `ReferencesKept` leaves out a knowledge
  base whose last write met a deletion (`overlapped`). `AnswersFollowQuestions` and
  `TurnLeavesTrace` are about the conversation that was asked, not one that has taken
  over its id. `StreamsEnd` leaves out a stream whose settings could not be read,
  and one whose client has left.

What breaks a property in the excluded cases is listed below.

## Divergences

Two runs check a property that a comment or docstring states and that TLC refutes.
The quotations are in `PROJECT.json`.

| run | what happens |
|---|---|
| `never_probed` | `server.main` bootstraps before its event loop runs, so the probe that "is hosted by the SERVER process" is never started |
| `query_root` | queries read the server's directory, not the one the knowledge base's jobs write to |

The same for these configurations, which are kept beside the runs. TLC finds the
violation of the property each of them lists.

| configuration | the code says | what happens |
|---|---|---|
| `MCIndexJobs_hard_kill` | "Hard kills (SIGKILL) are still recovered on the next start" (`worker.py:148`) | killed and restarted within 30 s: the job is requeued, its RUNNING units are not, and it finalizes with them counted as not succeeded: FAILED |
| `MCIndexJobs_retry_stuck` | a retried unit must not sit "at PENDING forever" (`repository.py:287`) | a unit retried in the last moments of a RUNNING job stays PENDING in a FAILED one |
| `MCIncrementalIndex_lost_manifest` | "idempotent across job retries" (`incremental.py:36`) | a kill in `load_update_documents` empties the manifest; the documents are taken for indexed and never extracted |
| `MCIncrementalIndex_retry_shrinks` | a job continues from its first step not succeeded (design of 2026-06-24, line 168) | retrying an incremental job's extraction after its merge reduces the graph to the delta, because the SUCCEEDED `merge_delta` is skipped |
| `MCIncrementalIndex_twice_chunked` | inserts are "not re-run on resume" (`orchestrator.py:107`) | a kill after the chunk rows' commit makes `chunk_documents` insert them again |
| `MCIncrementalIndex_late_deletion` | a running job "will reconcile via merge_delta" (`routes_kbs.py:420`) | a deletion is coalesced with a job already past its merge (`DeletedIsGone`) |
| `MCDeltaReports_stale_report` | a skipped community gets its own report (`delta.py:85`) | another community has had its id since, and the row carries that one's text |
| `MCDeltaReports_old_summary` | descriptions are carried over by an unchanged hash (`delta.py:47`) | finalize takes any file under `summaries/` (`delta.py:52-67`), also when its unit failed, and for an entity that a deletion has left with one description and that was therefore not selected (`delta.py:33`): the deleted text comes back into `entities.parquet` and its vectors (`DescriptionsFromGraph`) |
| `MCFailover_gives_up` | "parse-failure → record a failure […], advance to the next candidate", "All candidates exhausted […] → raise" (design of 2026-07-02 on the provider layer, lines 245-250) | a body of another shape or encoding raises outside the handlers (`gateway.py:275-280`, `sse.py:16-31`); the request ends with profiles untried and the breaker untold (`ExhaustedBeforeFailing`) |
| `MCServer_orphans` | a profile in use is not deleted: "409 […] if any KB uses it (no orphaning)" (design of 2026-06-28, line 99) | check and deletion, validation and write are transactions of their own, and no foreign key stands behind them (`NoOrphans`) |
| `MCServer_lost_title` | the service "auto-sets conversation title from the first user message when empty" (plan of 2026-06-29, line 754) | whether it is empty is read when the turn begins (`service.py:124`) and used when it ends (`:177`): a rename in between is overwritten (`RenamesStand`) |
| `MCServer_partial_answer` | `StreamDone` holds "the" answer so far (`query/engine.py:43`) | a Neo4j stream that fails has its text replaced by the empty answer (`neo4j_engine.py:259`) |
| `MCServer_follow_up` | a message without a method takes the conversation's last one (design of 2026-06-29 on multi-turn chat, line 106) | the route builds the engine of `payload.method or "local"`, the service asks it for the last method used: after an answer of `cypher` or `hybrid` graphrag's engine is asked for that, and the turn ends in an error (`routes_conversations.py:159`, `service.py:130`) |
| `MCFoundations_fences` | a fence is one block "including any blank lines inside" (`markdown_chunker.py:65`) | a fence directly under a line of text does not open a block, and a blank line inside it splits it |

The models reach these states too, or lie beside them, and the properties above are
stated so as to exclude them.

*Jobs and data.*
- After a restart within 30 s a community's report is made while a child's unit still
  reads RUNNING, without the child's report (`community_reports.py:68`; `BottomUp`
  with `PromptRestart = TRUE`).
- When a step raises, FAILED is written by `Orchestrator.run` and again by
  `run_worker_once` (`worker.py:113`); a retry in between is overwritten, and the job
  goes from PENDING to FAILED unexecuted (`ImplementsQueue` without `JobQueue!FailAgain`,
  or with `job[j] = "failed"` as its guard).
- A unit retried in a SUCCEEDED job stays PENDING: `reactivate_job_for_unit` requeues
  FAILED jobs only (`repository.py:300`).
- The chunks of an incremental job that failed in `extract_graph` are taken for
  indexed by the next one (`incremental.py:47`; `GraphComplete` with a success ratio
  of 1 and a failing chunk).
- A document deleted during the first full job gets no shrink job: no job has
  SUCCEEDED yet (`routes_kbs.py:434`; `DeletedIsGone` with `ClientJobs = 1` and
  `DeleteWhileIndexing = TRUE`).
- An emptied knowledge base keeps its vectors, because empty collections are skipped
  (`atomic_steps.py:167`), where the shrink design (§3.3) expects them cleared; a full
  job on it does not rewrite the graph either. A graph that becomes empty
  while chunks remain, because they all failed, keeps its vectors in the same way.
- A full job killed after its chunk rows, whose `chunk_documents` then raises, leaves
  chunks with rows that no incremental job takes up (`GraphComplete` with
  `chunk_documents` among `RaisingSteps`).
- A document uploaded under the id of one that was deleted while being chunked gets
  that one's chunk rows: `DeleteDocument`, `Upload`, then `LoadDocument` of the text
  that was read before.
- A chunk shared with an indexed document is extracted again by an incremental job
  (`NoReparse` with `MCSharedChunks`).
- A unit of a summary that is retried after finalize has flattened the descriptions is
  never selected again and stays PENDING, and so does a PENDING unit whose hash
  another job has since reported (`delta.py:40`, `:106`): the ratio counts it.
- `reports_by_hash/` cannot be hit: the hash covers the id of the community, so a
  context without a file under its id is new (`delta.py:88-91`; `SidecarUnused`). A
  community that got a new id is paid for again.
- A child's report that succeeds on a retry does not cause its parent's to be redone.
  The parent's context may have changed all the same, and with it that of a skipped
  grandparent, which is written on it at the next chance.

*LLM.*
- An endpoint that answers 200 and then cuts the stream never opens its breaker if the
  threshold is 2 or more: every response header resets the count.
- A stream that fails over after it has delivered text delivers the next profile's
  whole answer after it.
- Breakers are asked when the request begins; a candidate that has opened since is
  still called, and one that is never called is left half-open.
- Completions use the first key of a profile only (`gateway.py:68`), where
  `graphrag_adapter.py:509` says the keys go round.
- The dimensions of vectors are compared within a batch, not between batches.

*Server.*
- A second subscriber's snapshot moves the baseline of all, and an older one misses a
  change made since the last poll (`realtime.py:53`), where the docstring says that
  intermediate states "are never silently lost" (`:65`).
- A first send that fails leaves its socket among the subscribers; when the next
  broadcast drops it, the broadcaster remains without any.
- A turn whose conversation is deleted ends its stream without an error event; if the
  id has been reused, its answer is stored in the new conversation.
- Titles may be empty: `ConversationRename.title` takes any string
  (`api/models.py:301`), and a blank question makes a blank title
  (`service.py:204-206`), so that the next turn sets it again.
- A query whose settings cannot be read or resolved (`routes_query.py:59-67`, before the
  inner `try`) ends its response with neither done nor error.
- `_require_profile` does not look at the kind: an embedding profile can be the chat
  profile. A fallback is not a reference, so the profile can be deleted, after which
  the knowledge base does not resolve. `update_profile` cannot set a field back to
  null.
- The database made by the migrations has no foreign keys on the profile references
  (`0005:35-36`, `0010:36-39`), which `create_all` would make of the models; only tests
  and `scripts/e2e_server.py` call that.
- `text_units.parquet` is what the job writes; `text_unit_ids.parquet`, which the
  reader prefers, is never written.

*Migrations.*
- An upgrade that is cut short cannot be completed: its statements are committed, and
  run again they fail because the tables or columns exist. A downgrade cut short,
  followed by an upgrade, reaches head without some columns.
- Two connections named `m` and one named `m-1` make revision 5 insert two profiles of
  one name; the upgrade fails on its unique constraint, after its DDL, and is stuck.
- Downgrading revision 5 loses the connections; upgrading again gives every knowledge
  base the default ones, and the names of the variables that hold the keys are gone.

## Proofs

TLAPS checks the following for all values of the constants that the modules'
assumptions allow. Nothing is assumed of bounds other than that they are numbers.

| assumption | allows |
|---|---|
| `PlanAssumption`, `EnvironmentAssumption` (`IndexJobs`) | any number of jobs, steps, subjects, levels, requests and crashes, any ratio, any concurrency |
| `DataAssumption` (`IncrementalIndex`) | any documents, jobs, crashes and retries, any chunker, any set of steps that raise or are killed |
| `ReportsAssumption` (`DeltaReports`) | any graphs over finitely many entities, any clusterings in which a parent's level is lower than its child's (`create_communities` takes both from one hierarchical clustering) |
| `FailoverAssumption` | any endpoints, callers, profile lists, threshold and number of requests |
| `HubAssumption`, `ConversationsAssumption`, `QueriesAssumption`, `CatalogueAssumption` | any sockets, steps and writes; any turns, conversations and history window; any knowledge bases and clients; any profiles and requests |
| `EmbeddingsAssumption`, `MigrationsAssumption` | any texts, batch size, keys and attempts; any knowledge bases, connections and commands, to the eleven revisions there are |
| `ChunksAssumption` | any document of any lines, a line without a token being a blank one (`segment` strips a line to see whether it is), any size of a chunk but 0, which `chunk()` refuses |

No theorem has a hypothesis beside these. What a property leaves out is in the property
itself, where a run checks the same: `BottomUp` and `CrashIsTransparent` begin with
`~PromptRestart` (`MCIndexJobs_hard_kill` shows why), the others name the exceptions
listed under [Runs](#runs).

| theorem | module |
|---|---|
| `TypeCorrect`, `JobOwnershipHolds` | `IndexJobsProofs` |
| `StepsInOrderHolds`, `QualityGateHolds` | `IndexJobsProofs` |
| `SucceededStepKeptHolds`, `SucceededUnitKeptHolds`, `SucceededJobFinalHolds` | `IndexJobsProofs` |
| `JobsImplementQueue`: `Spec => Queue!Spec` | `IndexJobsProofs` |
| `NoStrandedStepHolds`, `BottomUpHolds`, `CrashIsTransparentHolds` | `IndexJobsRecovery` |
| `TypeCorrect`, `ExtractionsKeptHolds` | `IncrementalIndexProofs` |
| `ArtefactsCurrentHolds`, `GraphCleanHolds` | `IncrementalIndexProofs` |
| `TypedHolds`, `SummariesCurrentHolds`, `ReportsCurrentHolds` | `DeltaReportsProofs` |
| `EveryCommunityReportedHolds`, `SidecarUnusedHolds`, `ReportsNotRepeatedHolds` | `DeltaReportsProofs` |
| `FailoverTypeCorrect`, `BreakerConsistentHolds`, `FailoverInOrderHolds` | `FoundationsProofs` |
| `ViewsMonotoneHolds` | `ServerProofs` |
| `AnswersFollowQuestionsHolds`, `TurnLeavesTraceHolds` | `ServerProofs` |
| `StreamsEndHolds`, `ReferencesKeptHolds` | `ServerProofs` |
| `VectorsFitHolds`, `UpgradeFaithfulHolds` | `FoundationsProofs` |
| `ChunksFaithfulHolds` | `ChunksProofs` |

**IndexJobs.** None of the properties is inductive alone. `IInv` is the conjunction of

- `TypeOK`, which also ties `wpc` to the locals that are meaningful there;
- `Ownership`: the worker's job is RUNNING while it owns it, no other job is, and
  after a restart recovery comes before the next claim. A second RUNNING job could
  only come from a claim, and a claim follows recovery, which requeues them all;
- `LoopProgress`: steps that are neither ahead in the snapshot nor current are
  SUCCEEDED or have been retried; the snapshot is in order and holds no SUCCEEDED
  step; the current step is RUNNING until it is settled. It carries `StepsInOrder`
  and `SucceededStepKept` across the loop;
- `Quality`: what `finalize` has established between its decision and the commit of
  the status. From then on `FanoutFrame` shows that only a retry touches the units
  of a settled step;
- `NoRework`: no unit the fan-out holds has SUCCEEDED, so none is set back to
  RUNNING. This is what makes `_run_batch`'s check of the row sufficient, although
  the status is read once and used after other commits.

The frame lemmas (`StepFrame`, `UnitFrame`, `RetriedKept`, `FanoutFrame`) say what
one step can do to rows of other steps and jobs; each invariance proof has one step
per action and uses them for the actions that do not concern it.
`FinalizedMeetsRatio` needs cardinalities of finite sets. The refinement maps every
action that writes a `job` row to one action of `JobQueue` and the others to
stuttering; `Ownership` supplies the abstract guards. `FailJobAgain` is `Settle` when
the exception came from loading the knowledge base, with the job still RUNNING, and
`FailAgain` when it came out of a step; a kill in between is `Abandon`.

*After a crash* (`IndexJobsRecovery`). `NoStrandedStep` needs to know which steps may
be RUNNING at all (`RunningSteps`): one where the loop is or that is still ahead of
it, in a job that is not over, or one after a retried step.
`RunningUnits` says the same of units, and that is where the age of the heartbeats
enters: once recovery waits for them, a RUNNING unit is in the fan-out's hands or in
a job not yet recovered. With it, `BatchLevel` shows that no unit below the level of
the batch under way is PENDING or RUNNING, which is `BottomUp`. For
`CrashIsTransparent` the ratio must have been missed for a reason: every unit
selected and not retried is terminal when the fan-out ends (`KnownUnits`,
`SelectionComplete`), so one that has not succeeded has failed; `Causes` keeps the
reason from the rejection to the job's status, through both writes of FAILED.

**IncrementalIndex.** `ExtractionsKept` follows from each step alone: files are
dropped by `MergeDelta` and by a unit of a deleted chunk only, and neither drops one
whose chunk has a row.

`GraphClean` and `ArtefactsCurrent` speak of the moment in which a job succeeds, so the
invariant says, of every job that has not ended, what its steps have left behind and
that nothing has spoilt it since. `Progress` is the control part: `Order` (a RUNNING job is
the worker's, and one that waits with later steps done is late or the next to be
taken), `Closed` (the steps of a job that is not late are done in the order of its plan;
`FullOrder` and `IncrementalOrder` spell out what the two plans put `Before` a step),
`Remaining` (the worker's steps are those of the plan that are not done) and `Position`
(which step it is in). `FitInv` adds
`Fit`: for every such job that is not late and every step it `Did`, the worker's current
one included once its work is written, the artefact fits what it was made of (`Derived`,
`TextEmbedded`, `GraphEmbedded`, `GraphMerged`, `TextUnitsWritten`).

Three things could spoil it. A deletion changes the live chunks, but adds to `gone` what
it takes (`FitDeletion`). A step that writes the graph or the text units
invalidates only what comes later in the plan, which the worker's job has not done yet
(`NothingDependent`). And another job writes on the files only when it has been claimed,
which makes late every waiting job that has something to lose. When all steps are done,
`Fit` is the conclusion of both properties (`Completion`).

**DeltaReports.** `Typed` adds `Control`, how a job's status, its steps done and its
units fit one another. `SidecarUnused` needs one fact, `ContextNamesIt`. `OnFile` (a
SUCCEEDED unit has its file) gives `ReportsNotRepeated` and, with `AllReported`,
`EveryCommunityReported`. `SummaryInv` follows each entity: that the file of one with
several pieces is made of them, or its last unit is unsettled (`Made`), that finalize
flattens exactly the file it may use (`Flat`), and that a description left alone is of
pieces that are there (`Cut`). `ReportsCurrent` is the
longest: in the job under way, every community of the clustering either has a report on
what it is now, or has a unit that says it has not, or comes under an exception
(`Settled`). A report is written on the reports of its children, so a retry below may
change it without anyone noticing; the exception had to be all descendants (`Below`),
where the first statement named the children only and TLC agreed with it on clusterings
of two levels. That is why `reports` has one of three.

**Failover.** `BreakerOps` is the heart of `BreakerConsistent`: each operation of a
breaker keeps state and count in agreement from whatever state the other actors have
left it in, so no order of late results matters. `FailoverInOrder` is not inductive:
it needs `QueueInv`, that while a request is being tried each of its profiles is a
candidate, has failed, or was barred. As the candidate in hand is the least one left
(`CurrentLeast`), those before it are out when it answers or raises, and all are out
when none is left.

**The server.** `ViewsMonotone`: `Freshness` orders everything that holds a row's
number, a client's view, the frame being sent and what has been read, below the
database; the baseline, which `Subscribe` overwrites for everyone, does not occur in
it. `AnswersFollowQuestions` and `TurnLeavesTrace`: `ConvInv` says what each phase of
a turn has read (`TurnFacts`), which messages a row may hold (`RowFacts`), and links a
turn to the row of its birth (`Link`), so that a row with a reused id is known to be
another. `StreamsEnd` is `QueryInv` client by client, since no query touches
another's stream. `ReferencesKept`: the answers of the routes' checks are old when they
are used, and no foreign key stands behind them. What does hold is `CatInv`: a
profile of a knowledge base that is not `overlapped` is alive, has the birth its request
was validated for, and no deletion of it is between check and commit. `WriteKb`
establishes that, unless it met a deletion; a check that comes later finds the reference
(`DeleteCheck`); and `NextPid`, the id of a new profile, is free (`NextPidFree`), so a
live row is never replaced.

**Embeddings.** A reply that is numbered is sorted by its numbers; they are as many as
the batch has texts and lie in its range, so each is there once (`Counting`, by the
least counterexample) and the vector at a place is that place's (`Placed`,
`ReplyInOrder`). `Paid` counts the requests of the present batch from the end of
`posts`, which bounds the attempts and fixes the key of each.

**Migrations.** The revisions are data, so what is needed of them is proved case by
case: together they create what the models declare (`MadeDeclared`, `ModelsMade`), and
no two create the same (`RevisionsApart`). Hence undoing one keeps what the earlier
ones created (`EarlierKept`), and `SchemaInv` holds: unless a downgrade was cut short,
the schema has at least what its version says, at every statement in between. For the
rows, `Backfilled` is a recursive function over the knowledge bases; that it exists
and that every connection has a profile in the end is shown by the least knowledge
base where it would fail (`ChainExists`, `AllProvided`).

**MarkdownChunks.** The functions that cut a document, a table, a list or a text are
recursive, and an induction rule that takes a predicate is out of the prover's reach.
`CountUp` and `SequencesUp` take the set of what the predicate holds of instead, and
`StepsExist` shows that a function given by its steps exists; the rest is ordinary.
Texts are put together in one way only, `FlattenSeq` over `\o` (`FlattenAppend`,
`FlattenConcat`, `FlattenToSet`). `SegmentFacts`: the blocks come in the order of the
document and only blank lines are in none (`CutTo`, line by line). `PackUnitsFacts`: the
pieces of a list or a text are the text again. A table is not the text again, as its
header comes in every piece: what is kept is that the pieces are `Growing`, each token is
after all before it or repeats one of a row (`RowsPacked`, row by row). `ChunkInv` carries
`Growing` over the whole of what has been taken, with the size of a chunk as what it is
made of: headings, then something that fits, that opens with a fence or that is one row
under its header (`Cut`, `PieceOK`). The order of first occurrences follows from `Growing`
by the least place a token has (`FirstFacts`).

**Only model-checked.** The liveness properties (`JobsSettle`, `UnitsNotStranded`,
`DeletionsReachGraph`, `BreakersFollowHealth`, `NewestConverges`), because TLAPS as
installed has no rule for fairness and `ENABLED`; `GraphComplete` and `NoReparse`,
which are true of instances without some kills, retries and shared chunks only.

## Not modelled

- `RetryService` and `reconsolidate`: unreachable from the running program, only tests
  call them.
- Graph export, statistics, the MCP proxy, the installer, the web dashboard, schemas,
  logging, document parsing: formatting or I/O without state of its own. Their
  correctness is in what they compute, not in an order of events.
- LLM wire clients: request building and HTTP; cost capture, which sums stored rows;
  the encryption of keys; presets, one row and one transaction each.
- Of the queries: prompts, parameters, sources, and what graphrag and Neo4j answer; the
  textual filter of Cypher statements and the cache of drivers.
- Of the conversations: `ConversationService.send`, which only tests call.
- Of the worker: a heartbeat whose write fails (`unit_worker.py:68`), because it ends
  the fan-out while sibling coroutines go on; a raising step is modelled without
  siblings that outlive it.

## Plan

Left to do, in order of what it would tell:

- `GraphComplete` with kills anywhere but in `load_update_documents`, retries before the
  merge and shared chunks, stated like `GraphClean` of the moment a job succeeds, so that
  it can be proved without a restriction on the instance;
- the chunker's promise that a sentence is not cut while it fits;
- the Neo4j profile among the references of `Catalogue`;
- callers that share an embedder.
