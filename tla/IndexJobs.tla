------------------------------ MODULE IndexJobs ------------------------------
(***************************************************************************)
(* The control plane of indexing: the job, step and unit rows in SQLite,   *)
(* the single worker process that polls and executes them (worker.py,      *)
(* engine/orchestrator.py, engine/unit_worker.py), its crashes and         *)
(* restarts, and the API server's retry endpoints, which write the same    *)
(* rows concurrently (api/routes_jobs.py).                                 *)
(*                                                                         *)
(* One action is one repository call (one committed session_scope), or the *)
(* in-memory step between two of them.  What the steps compute is          *)
(* abstracted: an atomic step succeeds or raises, a unit succeeds or       *)
(* fails.                                                                  *)
(***************************************************************************)
EXTENDS Naturals, FiniteSets

CONSTANTS
    NumJobs,         \* bound: jobs ever submitted; ids are 1..NumJobs in order
    NumSteps,        \* a plan's length; steps are named by their ordinal 1..NumSteps
    Fanout,          \* the UNIT_FANOUT steps of the plan; the others are ATOMIC
    Subjects,        \* chunks, entity titles and community ids
    SubjectsOf,      \* [Fanout -> SUBSET Subjects]: what the strategy enumerates
    Level,           \* [Fanout -> [Subjects -> Nat]]: community level, else 0
    EmptyOk,         \* fan-out steps whose finalize accepts having no unit at all
    MinNum, MinDen,  \* min_unit_success_ratio = MinNum / MinDen
    Concurrency,     \* permits of the unit semaphore
    FailingSubjects, \* subjects whose LLM call or persist may raise
    RaisingSteps,    \* steps whose dispatch may raise outside any unit
    StartMayRaise,   \* may loading the KB or building its adapter raise?
    UnitRetries,     \* bound: one POST /units/{id}/retry request per element
    StepRetries,     \* bound: one POST /steps/{id}/retry request per element
    MaxCrashes,      \* bound: hard kills of the worker
    PromptRestart,   \* may the worker be back within stale_seconds of a heartbeat?
    NoSubject        \* the subject of a step retry

Jobs  == 1..NumJobs
Steps == 1..NumSteps
Units == Jobs \X Fanout \X Subjects
NoJob  == 0
NoStep == 0
Requests == UnitRetries \cup StepRetries

ASSUME PlanAssumption ==
    /\ NumJobs \in Nat /\ NumSteps \in Nat
    /\ Fanout \subseteq Steps
    /\ IsFiniteSet(Subjects) /\ NoSubject \notin Subjects
    /\ SubjectsOf \in [Fanout -> SUBSET Subjects]
    /\ Level \in [Fanout -> [Subjects -> Nat]]
    /\ EmptyOk \subseteq Fanout

ASSUME EnvironmentAssumption ==
    /\ MinNum \in Nat /\ MinDen \in Nat \ {0}
    /\ Concurrency \in Nat \ {0}
    /\ FailingSubjects \subseteq Subjects
    /\ RaisingSteps \subseteq Steps
    /\ StartMayRaise \in BOOLEAN /\ PromptRestart \in BOOLEAN
    /\ UnitRetries \cap StepRetries = {}
    /\ MaxCrashes \in Nat

\* "none": the row has not been inserted yet.
JobStatus  == {"none", "pending", "running", "succeeded", "failed"}
StepStatus == {"pending", "running", "succeeded", "partially_failed", "failed"}
UnitStatus == {"none", "pending", "running", "succeeded", "failed"}

VARIABLES
    job,      \* job[j]: Job.status
    step,     \* step[j, s]: Step.status
    unit,     \* unit[j, s, x]: Unit.status
    fresh,    \* running units whose heartbeat_at is younger than stale_seconds
    wpc,      \* where the worker process is ("down": not running)
    wjob,     \* the job run_worker_once is executing
    todo,     \* steps of Orchestrator.run's snapshot still to be executed
    cur,      \* the step _run_step is executing
    verdict,  \* the status set_step_status is about to write
    batch,    \* subjects of next_units_batch still to be looked up
    held,     \* _run_batch's units: looked up, to be marked RUNNING
    waiting,  \* marked units whose coroutine waits for the semaphore
    active,   \* units holding a permit: run_unit is in flight
    req,      \* retry requests of the API server
    crashes   \* hard kills so far

rows    == <<job, step, unit>>
plan    == <<wjob, todo, cur, verdict>>
fanout  == <<batch, held, waiting, active>>
vars    == <<job, step, unit, fresh, wpc, plan, fanout, req, crashes>>

\* The worker's states while it executes a job it has claimed.
FanoutPcs == {"select", "lookup", "mark", "run", "finalize"}
StepPcs   == FanoutPcs \cup {"work", "settle", "check", "reject", "raise", "raise_job"}
OwningPcs == StepPcs \cup {"load", "plan", "next"}
WorkerPcs == OwningPcs \cup {"down", "idle", "recover", "claim", "raise_worker"}

RequestPcs == {"idle", "step", "job", "done"}
RequestState == [at : RequestPcs, job : Jobs \cup {NoJob},
                 step : Steps \cup {NoStep}, subject : Subjects \cup {NoSubject}]
IdleRequest == [at |-> "idle", job |-> NoJob, step |-> NoStep, subject |-> NoSubject]

TypeOK ==
    /\ job  \in [Jobs -> JobStatus]
    /\ step \in [Jobs \X Steps -> StepStatus]
    /\ unit \in [Units -> UnitStatus]
    /\ fresh \subseteq Units
    /\ wpc \in WorkerPcs
    /\ wjob \in Jobs \cup {NoJob} /\ (wpc \in OwningPcs \cup {"raise_worker"} <=> wjob # NoJob)
    /\ todo \subseteq Steps
    /\ cur \in Steps \cup {NoStep}
    /\ wpc \in StepPcs => cur # NoStep
    /\ wpc \in FanoutPcs => cur \in Fanout
    /\ verdict \in StepStatus
    /\ batch \subseteq Subjects /\ held \subseteq Subjects
    /\ waiting \subseteq Subjects /\ active \subseteq Subjects
    /\ wpc # "lookup" => batch = {}
    /\ wpc \notin {"lookup", "mark"} => held = {}
    /\ wpc \notin {"mark", "run"} => waiting = {}
    /\ wpc # "run" => active = {}
    /\ req \in [Requests -> RequestState]
    /\ \A r \in Requests : req[r].at # "idle" => req[r].job # NoJob /\ req[r].step # NoStep
    /\ crashes \in 0..MaxCrashes

Init ==
    /\ job  = [j \in Jobs |-> "none"]
    /\ step = [js \in Jobs \X Steps |-> "pending"]
    /\ unit = [u \in Units |-> "none"]
    /\ fresh = {}
    /\ wpc = "idle"
    /\ wjob = NoJob /\ todo = {} /\ cur = NoStep /\ verdict = "pending"
    /\ batch = {} /\ held = {} /\ waiting = {} /\ active = {}
    /\ req = [r \in Requests |-> IdleRequest]
    /\ crashes = 0

-----------------------------------------------------------------------------
(* What the strategies compute from the rows.                              *)

\* list_units: the subjects that have a unit row under the step.
Rows(j, s) == {x \in Subjects : unit[<<j, s, x>>] # "none"}
Succeeded(j, s) == {x \in Subjects : unit[<<j, s, x>>] = "succeeded"}

\* len(succeeded) / len(units) < min_success_ratio, in integers.
BelowRatio(j, s) ==
    Cardinality(Succeeded(j, s)) * MinDen < MinNum * Cardinality(Rows(j, s))

\* Mutant: units that are done count as units that succeeded.
FinalizedCountsDone(j, s) ==
    IF \E x \in Rows(j, s) : unit[<<j, s, x>>] \notin {"succeeded", "failed"}
    THEN "partially_failed" ELSE "succeeded"

\* strategy.finalize: the status it returns.
Finalized(j, s) ==
    IF Rows(j, s) = {}
    THEN IF s \in EmptyOk THEN "succeeded" ELSE "partially_failed"
    ELSE IF BelowRatio(j, s) THEN "partially_failed" ELSE "succeeded"

\* strategy.next_units_batch: the subjects without a unit, or with a PENDING
\* one, on the deepest level that has any.
Unprocessed(j, s) == {x \in SubjectsOf[s] : unit[<<j, s, x>>] \in {"none", "pending"}}
\* Mutant: all levels at once.
NextUnitsBatchFlat(j, s) == Unprocessed(j, s)

NextUnitsBatch(j, s) ==
    {x \in Unprocessed(j, s) : \A y \in Unprocessed(j, s) : Level[s][y] <= Level[s][x]}

-----------------------------------------------------------------------------
(* API server: new jobs.                                                   *)

\* POST /kbs/{id}/jobs -> create_job_pending: the job and its steps, in one
\* transaction.
Submit(j) ==
    /\ job[j] = "none"
    /\ \A i \in Jobs : i < j => job[i] # "none"
    /\ job' = [job EXCEPT ![j] = "pending"]
    /\ UNCHANGED <<step, unit, fresh, wpc, plan, fanout, req, crashes>>

-----------------------------------------------------------------------------
(* Worker: recover, claim, prepare.                                        *)

\* Mutant: the executor forgets to let go of its job.
ReleaseJobKept == wpc' = "idle" /\ UNCHANGED plan

\* run_worker_once leaves the job: back to the poll loop.
ReleaseJob ==
    /\ wpc' = "idle"
    /\ wjob' = NoJob /\ todo' = {} /\ cur' = NoStep /\ verdict' = "pending"

\* Mutants: the status filter is missing; units are recovered only with their
\* job; stale units are given up.
RecoverAnyStatus ==
    /\ wpc = "idle"
    /\ unit' = [u \in Units |-> IF unit[u] # "none" /\ u \notin fresh
                                THEN "pending" ELSE unit[u]]
    /\ wpc' = "recover"
    /\ UNCHANGED <<job, step, fresh, plan, fanout, req, crashes>>

RecoverWithJob ==
    /\ wpc = "idle"
    /\ unit' = [u \in Units |-> IF unit[u] = "running" /\ u \notin fresh /\ job[u[1]] = "running"
                                THEN "pending" ELSE unit[u]]
    /\ wpc' = "recover"
    /\ UNCHANGED <<job, step, fresh, plan, fanout, req, crashes>>

RecoverAsFailed ==
    /\ wpc = "idle"
    /\ unit' = [u \in Units |-> IF unit[u] = "running" /\ u \notin fresh
                                THEN "failed" ELSE unit[u]]
    /\ wpc' = "recover"
    /\ UNCHANGED <<job, step, fresh, plan, fanout, req, crashes>>

\* recover_stale_units: RUNNING units whose heartbeat is old, or NULL.
RecoverStaleUnits ==
    /\ wpc = "idle"
    /\ unit' = [u \in Units |-> IF unit[u] = "running" /\ u \notin fresh
                                THEN "pending" ELSE unit[u]]
    /\ wpc' = "recover"
    /\ UNCHANGED <<job, step, fresh, plan, fanout, req, crashes>>

\* Mutant: RUNNING jobs are taken to be alive.
RecoverNoJob ==
    /\ wpc = "recover" /\ wpc' = "claim"
    /\ UNCHANGED <<rows, fresh, plan, fanout, req, crashes>>

\* recover_stale_jobs: every RUNNING job, however recent.
RecoverStaleJobs ==
    /\ wpc = "recover"
    /\ job' = [j \in Jobs |-> IF job[j] = "running" THEN "pending" ELSE job[j]]
    /\ wpc' = "claim"
    /\ UNCHANGED <<step, unit, fresh, plan, fanout, req, crashes>>

\* Mutant: no ORDER BY.
ClaimAnyPendingJob(j) ==
    /\ wpc = "claim"
    /\ job[j] = "pending"
    /\ job' = [job EXCEPT ![j] = "running"]
    /\ wjob' = j
    /\ wpc' = "load"
    /\ UNCHANGED <<step, unit, fresh, todo, cur, verdict, fanout, req, crashes>>

\* claim_one_pending_job: the PENDING job with the lowest id.
ClaimOnePendingJob(j) ==
    /\ wpc = "claim"
    /\ job[j] = "pending"
    /\ \A i \in Jobs : i < j => job[i] # "pending"
    /\ job' = [job EXCEPT ![j] = "running"]
    /\ wjob' = j
    /\ wpc' = "load"
    /\ UNCHANGED <<step, unit, fresh, todo, cur, verdict, fanout, req, crashes>>

NothingToClaim ==
    /\ wpc = "claim"
    /\ \A j \in Jobs : job[j] # "pending"
    /\ wpc' = "idle"
    /\ UNCHANGED <<rows, fresh, plan, fanout, req, crashes>>

\* The KB is loaded, the adapter built, and Orchestrator.run starts by setting
\* the job RUNNING (again).
StartRun ==
    /\ wpc = "load"
    /\ job' = [job EXCEPT ![wjob] = "running"]
    /\ wpc' = "plan"
    /\ UNCHANGED <<step, unit, fresh, plan, fanout, req, crashes>>

\* The KB is gone, or its adapter cannot be built: straight to
\* run_worker_once's except clause.
StartRaises ==
    /\ wpc = "load" /\ StartMayRaise
    /\ wpc' = "raise_worker"
    /\ UNCHANGED <<rows, fresh, plan, fanout, req, crashes>>

\* Mutant: a resumed job executes its whole plan.
SnapshotAllSteps ==
    /\ wpc = "plan"
    /\ todo' = Steps
    /\ wpc' = "next"
    /\ UNCHANGED <<rows, fresh, wjob, cur, verdict, fanout, req, crashes>>

\* get_steps: read once; the loop iterates over this snapshot and skips what
\* was SUCCEEDED in it.
SnapshotSteps ==
    /\ wpc = "plan"
    /\ todo' = {s \in Steps : step[<<wjob, s>>] # "succeeded"}
    /\ wpc' = "next"
    /\ UNCHANGED <<rows, fresh, wjob, cur, verdict, fanout, req, crashes>>

-----------------------------------------------------------------------------
(* Worker: the step loop of Orchestrator.run.                              *)

StartStep(s) ==
    /\ wpc = "next"
    /\ s \in todo /\ \A t \in todo : s <= t
    /\ step' = [step EXCEPT ![<<wjob, s>>] = "running"]
    /\ cur' = s
    /\ todo' = todo \ {s}
    /\ wpc' = IF s \in Fanout THEN "select" ELSE "work"
    /\ UNCHANGED <<job, unit, fresh, wjob, verdict, fanout, req, crashes>>

\* _run_atomic: the step's work is done; SUCCEEDED is still to be written.
AtomicWork ==
    /\ wpc = "work"
    /\ verdict' = "succeeded"
    /\ wpc' = "settle"
    /\ UNCHANGED <<rows, fresh, wjob, todo, cur, fanout, req, crashes>>

\* An exception out of _dispatch_step: an atomic step's work, or reading the
\* artefacts in next_units_batch or finalize.
StepRaises ==
    /\ wpc \in {"work", "select", "finalize"} /\ cur \in RaisingSteps
    /\ wpc' = "raise"
    /\ UNCHANGED <<rows, fresh, plan, fanout, req, crashes>>

\* Mutant: the handler of _run_step does not write the step's status.
FailStepUnwritten ==
    /\ wpc = "raise" /\ wpc' = "raise_job"
    /\ UNCHANGED <<rows, fresh, plan, fanout, req, crashes>>

\* The three handlers it passes through, each with a commit of its own.
FailStep ==
    /\ wpc = "raise"
    /\ step' = [step EXCEPT ![<<wjob, cur>>] = "failed"]
    /\ wpc' = "raise_job"
    /\ UNCHANGED <<job, unit, fresh, plan, fanout, req, crashes>>

FailJob ==
    /\ wpc = "raise_job"
    /\ job' = [job EXCEPT ![wjob] = "failed"]
    /\ wpc' = "raise_worker"
    /\ UNCHANGED <<step, unit, fresh, plan, fanout, req, crashes>>

FailJobAgain ==
    /\ wpc = "raise_worker"
    /\ job' = [job EXCEPT ![wjob] = "failed"]
    /\ ReleaseJob
    /\ UNCHANGED <<step, unit, fresh, fanout, req, crashes>>

\* set_step_status after the work, or after finalize.
SettleStep ==
    /\ wpc = "settle"
    /\ step' = [step EXCEPT ![<<wjob, cur>>] = verdict]
    /\ wpc' = "check"
    /\ UNCHANGED <<job, unit, fresh, plan, fanout, req, crashes>>

\* Mutant: only FAILED stops the loop.
CheckNotFailed ==
    /\ wpc = "check"
    /\ wpc' = IF step[<<wjob, cur>>] # "failed" THEN "next" ELSE "reject"
    /\ UNCHANGED <<rows, fresh, plan, fanout, req, crashes>>

\* The status is read back before the loop goes on.
CheckStep ==
    /\ wpc = "check"
    /\ wpc' = IF step[<<wjob, cur>>] = "succeeded" THEN "next" ELSE "reject"
    /\ UNCHANGED <<rows, fresh, plan, fanout, req, crashes>>

RejectJob ==
    /\ wpc = "reject"
    /\ job' = [job EXCEPT ![wjob] = "failed"]
    /\ ReleaseJob
    /\ UNCHANGED <<step, unit, fresh, fanout, req, crashes>>

CompleteJob ==
    /\ wpc = "next" /\ todo = {}
    /\ job' = [job EXCEPT ![wjob] = "succeeded"]
    /\ ReleaseJob
    /\ UNCHANGED <<step, unit, fresh, fanout, req, crashes>>

-----------------------------------------------------------------------------
(* Worker: a fan-out step (UnitWorker).                                    *)

SelectBatch ==
    /\ wpc = "select"
    /\ NextUnitsBatch(wjob, cur) # {}
    /\ batch' = NextUnitsBatch(wjob, cur)
    /\ wpc' = "lookup"
    /\ UNCHANGED <<rows, fresh, plan, held, waiting, active, req, crashes>>

NothingToSelect ==
    /\ wpc = "select"
    /\ NextUnitsBatch(wjob, cur) = {}
    /\ wpc' = "finalize"
    /\ UNCHANGED <<rows, fresh, plan, fanout, req, crashes>>

\* get_unit_by_subject, add_unit when there is none, skip when SUCCEEDED.
LookupUnit(x) ==
    /\ wpc = "lookup" /\ x \in batch
    /\ batch' = batch \ {x}
    /\ held' = IF unit[<<wjob, cur, x>>] = "succeeded" THEN held ELSE held \cup {x}
    /\ unit' = IF unit[<<wjob, cur, x>>] = "none"
               THEN [unit EXCEPT ![<<wjob, cur, x>>] = "pending"] ELSE unit
    /\ wpc' = CASE batch' # {}                -> "lookup"
                [] batch' = {} /\ held' # {}  -> "mark"
                [] OTHER                      -> "select"
    /\ UNCHANGED <<job, step, fresh, plan, waiting, active, req, crashes>>

\* set_unit_running, with a heartbeat of now.
MarkRunning(x) ==
    /\ wpc = "mark" /\ x \in held
    /\ unit' = [unit EXCEPT ![<<wjob, cur, x>>] = "running"]
    /\ fresh' = fresh \cup {<<wjob, cur, x>>}
    /\ held' = held \ {x}
    /\ waiting' = waiting \cup {x}
    /\ wpc' = IF held' = {} THEN "run" ELSE "mark"
    /\ UNCHANGED <<job, step, plan, batch, active, req, crashes>>

\* A coroutine passes the semaphore; its heartbeat task touches the unit.
StartUnit(x) ==
    /\ wpc = "run" /\ x \in waiting
    /\ Cardinality(active) < Concurrency
    /\ waiting' = waiting \ {x}
    /\ active' = active \cup {x}
    /\ fresh' = IF unit[<<wjob, cur, x>>] = "running"
                THEN fresh \cup {<<wjob, cur, x>>} ELSE fresh
    /\ UNCHANGED <<rows, wpc, plan, batch, held, req, crashes>>

\* run_unit and persist return or raise; the outcome is written whatever the
\* row says by now.
FinishUnit(x, status) ==
    /\ wpc = "run" /\ x \in active
    /\ status = "failed" => x \in FailingSubjects
    /\ unit' = [unit EXCEPT ![<<wjob, cur, x>>] = status]
    /\ fresh' = fresh \ {<<wjob, cur, x>>}
    /\ active' = active \ {x}
    /\ wpc' = IF active' \cup waiting = {} THEN "select" ELSE "run"
    /\ UNCHANGED <<job, step, plan, batch, held, waiting, req, crashes>>

FinalizeStep ==
    /\ wpc = "finalize"
    /\ verdict' = Finalized(wjob, cur)
    /\ wpc' = "settle"
    /\ UNCHANGED <<rows, fresh, wjob, todo, cur, fanout, req, crashes>>

QueueStep ==
    \/ RecoverStaleUnits \/ RecoverStaleJobs
    \/ \E j \in Jobs : ClaimOnePendingJob(j)
    \/ NothingToClaim \/ StartRun \/ StartRaises \/ SnapshotSteps

LoopStep ==
    \/ \E s \in Steps : StartStep(s)
    \/ AtomicWork \/ StepRaises \/ FailStep \/ FailJob \/ FailJobAgain
    \/ SettleStep \/ CheckStep \/ RejectJob \/ CompleteJob

FanoutStep ==
    \/ SelectBatch \/ NothingToSelect \/ FinalizeStep
    \/ \E x \in Subjects : LookupUnit(x) \/ MarkRunning(x) \/ StartUnit(x)
    \/ \E x \in Subjects : FinishUnit(x, "succeeded") \/ FinishUnit(x, "failed")

WorkerStep == QueueStep \/ LoopStep \/ FanoutStep

-----------------------------------------------------------------------------
(* Worker process: death, time, restart.                                   *)

\* SIGKILL, or a stop in the poll loop: the process memory is lost.
Crash ==
    /\ wpc # "down" /\ crashes < MaxCrashes
    /\ crashes' = crashes + 1
    /\ wpc' = "down"
    /\ wjob' = NoJob /\ todo' = {} /\ cur' = NoStep /\ verdict' = "pending"
    /\ batch' = {} /\ held' = {} /\ waiting' = {} /\ active' = {}
    /\ UNCHANGED <<rows, fresh, req>>

Restart ==
    /\ wpc = "down"
    /\ PromptRestart \/ fresh = {}
    /\ wpc' = "idle"
    /\ UNCHANGED <<rows, fresh, plan, fanout, req, crashes>>

\* stale_seconds pass without a heartbeat.  A unit that is in flight never
\* gets there: its heartbeat task beats every heartbeat_interval.
HeartbeatExpires(u) ==
    /\ u \in fresh
    /\ ~(u[1] = wjob /\ u[2] = cur /\ u[3] \in active)
    /\ fresh' = fresh \ {u}
    /\ UNCHANGED <<rows, wpc, plan, fanout, req, crashes>>

-----------------------------------------------------------------------------
(* API server: retry requests.  Every transaction of a handler is an       *)
(* action; a request that never gets to its next one is one whose server   *)
(* died.                                                                   *)

\* POST /units/{id}/retry: reset_unit_to_pending, whatever the unit's status.
RetryUnit(r, u) ==
    /\ r \in UnitRetries /\ req[r].at = "idle"
    /\ unit[u] # "none"
    /\ unit' = [unit EXCEPT ![u] = "pending"]
    /\ fresh' = fresh \ {u}
    /\ req' = [req EXCEPT ![r] = [at |-> "step", job |-> u[1], step |-> u[2], subject |-> u[3]]]
    /\ UNCHANGED <<job, step, wpc, plan, fanout, crashes>>

\* reset_step_if_succeeded_for_unit.
RetryResetStep(r) ==
    /\ req[r].at = "step"
    /\ LET s == <<req[r].job, req[r].step>> IN
         step' = IF step[s] = "succeeded"
                 THEN [step EXCEPT ![s] = "partially_failed"] ELSE step
    /\ req' = [req EXCEPT ![r].at = "job"]
    /\ UNCHANGED <<job, unit, fresh, wpc, plan, fanout, crashes>>

\* POST /steps/{id}/retry: reset_failed_units_to_pending.
RetryStep(r, j, s) ==
    /\ r \in StepRetries /\ req[r].at = "idle"
    /\ job[j] # "none"
    /\ unit' = [u \in Units |-> IF u[1] = j /\ u[2] = s /\ unit[u] = "failed"
                                THEN "pending" ELSE unit[u]]
    /\ req' = [req EXCEPT ![r] = [at |-> "job", job |-> j, step |-> s, subject |-> NoSubject]]
    /\ UNCHANGED <<job, step, fresh, wpc, plan, fanout, crashes>>

\* Mutant: any job that is not running is requeued.
ReactivateIdleJob(r) ==
    /\ req[r].at = "job"
    /\ job' = IF job[req[r].job] # "running"
              THEN [job EXCEPT ![req[r].job] = "pending"] ELSE job
    /\ req' = [req EXCEPT ![r].at = "done"]
    /\ UNCHANGED <<step, unit, fresh, wpc, plan, fanout, crashes>>

\* reactivate_job_for_unit, reactivate_job_for_step: only a FAILED job.
RetryReactivateJob(r) ==
    /\ req[r].at = "job"
    /\ job' = IF job[req[r].job] = "failed"
              THEN [job EXCEPT ![req[r].job] = "pending"] ELSE job
    /\ req' = [req EXCEPT ![r].at = "done"]
    /\ UNCHANGED <<step, unit, fresh, wpc, plan, fanout, crashes>>

RetryContinues(r) == RetryResetStep(r) \/ RetryReactivateJob(r)

ApiStep ==
    \/ \E j \in Jobs : Submit(j)
    \/ \E r \in Requests : \E u \in Units : RetryUnit(r, u)
    \/ \E r \in Requests : \E j \in Jobs : \E s \in Steps : RetryStep(r, j, s)
    \/ \E r \in Requests : RetryContinues(r)

ProcessStep == Crash \/ Restart \/ \E u \in Units : HeartbeatExpires(u)

Next == WorkerStep \/ ProcessStep \/ ApiStep

Spec == Init /\ [][Next]_vars

\* The worker's event loop runs, systemd or the operator restarts it, clocks
\* advance, and the API server finishes the handlers it started.
Fairness ==
    /\ WF_vars(WorkerStep)
    /\ WF_vars(Restart)
    /\ \A u \in Units : WF_vars(HeartbeatExpires(u))
    /\ \A r \in Requests : WF_vars(RetryContinues(r))

FairSpec == Spec /\ Fairness

-----------------------------------------------------------------------------
(* Properties.                                                             *)

\* A retry request has touched the units of the step.
Retried(j, s) == \E r \in Requests : req[r].at # "idle" /\ req[r].job = j /\ req[r].step = s

\* At most one job is RUNNING, whatever was claimed, requeued after a crash or
\* reactivated by a retry (recover_stale_jobs resets every RUNNING job and
\* would take a second one away from its executor).
AtMostOneRunning ==
    \A i, j \in Jobs : job[i] = "running" /\ job[j] = "running" => i = j

\* Nobody moves a job away from under the worker that executes it: until the
\* worker itself writes the outcome, its job is RUNNING in the database.
WorkerOwnsJob == wpc \in OwningPcs => job[wjob] = "running"

JobOwnership == AtMostOneRunning /\ WorkerOwnsJob

\* The loop of Orchestrator.run reaches a step only over steps that are all
\* SUCCEEDED, and the end of the plan likewise, through crashes and resumes;
\* only a retry may have reopened one of them meanwhile.
StepsInOrder ==
    /\ wpc \in StepPcs =>
          \A s \in Steps : s < cur => step[<<wjob, s>>] = "succeeded" \/ Retried(wjob, s)
    /\ \A j \in Jobs : job[j] = "succeeded" =>
          \A s \in Steps : step[<<j, s>>] = "succeeded" \/ Retried(j, s)

\* A fan-out step that reads SUCCEEDED has at least min_unit_success_ratio of
\* its units SUCCEEDED, now and not only when finalize looked: no crash,
\* recovery or resume takes a result away (a retry may).
QualityGate ==
    \A j \in Jobs, s \in Fanout :
       step[<<j, s>>] = "succeeded" => ~BelowRatio(j, s) \/ Retried(j, s)

\* A job never ends with a step still RUNNING ("must not be stranded at
\* RUNNING", _run_step).  The row a crash left RUNNING is taken up again by the
\* resumed job, unless that fails before the step: building the adapter, or in
\* an earlier step a retry has reopened.
NoStrandedStep ==
    ~StartMayRaise =>
       \A j \in Jobs, s \in Steps :
          job[j] \in {"succeeded", "failed"} /\ step[<<j, s>>] = "running" =>
             \E t \in Steps : t < s /\ Retried(j, t)

\* A unit is processed only when every unit on a deeper level of its step is
\* terminal: a community's context reads its children's reports.  A retry may
\* reopen a child.  A worker back before the orphaned units' heartbeats are
\* stale breaks it: an orphan still RUNNING is not waited for.
BottomUp == ~PromptRestart =>
    \A x \in active : \A y \in SubjectsOf[cur] :
       Level[cur][y] > Level[cur][x] =>
          unit[<<wjob, cur, y>>] \in {"succeeded", "failed"} \/ Retried(wjob, cur)

\* Something other than a crash may have failed job j: a step that raised, a
\* unit whose subject fails, or a retry that has reopened a step.
HasCause(j) ==
    \/ \E s \in Steps : Retried(j, s) \/ (s \in RaisingSteps /\ step[<<j, s>>] = "failed")
    \/ \E s \in Fanout, x \in FailingSubjects : unit[<<j, s, x>>] = "failed"
    \/ StartMayRaise \/ MinNum > MinDen
    \/ \E s \in Fanout \ EmptyOk : SubjectsOf[s] = {}

\* Hard kills alone never fail a job, when the worker comes back only after the
\* heartbeats of the units it left RUNNING are stale: then recovery requeues
\* them together with their job.
CrashIsTransparent ==
    ~PromptRestart => \A j \in Jobs : job[j] = "failed" => HasCause(j)

\* Crash recovery and resume never redo a finished unit (an LLM call each):
\* only a retry request takes a unit out of SUCCEEDED.
SucceededUnitKept == [][
    \A u \in Units : unit[u] = "succeeded" /\ unit'[u] # "succeeded" =>
       \E r \in UnitRetries : /\ req'[r] # req[r]
                              /\ <<req'[r].job, req'[r].step, req'[r].subject>> = u]_vars

\* A SUCCEEDED step is never executed again as it stands ("skip steps already
\* completed so non-idempotent atomic work is not re-run"): at most a retry
\* demotes it to PARTIALLY_FAILED first.
SucceededStepKept == [][
    \A s \in Jobs \X Steps :
       step[s] = "succeeded" => step'[s] \in {"succeeded", "partially_failed"}]_vars

\* A SUCCEEDED job is final.
SucceededJobFinal == [][
    \A j \in Jobs : job[j] = "succeeded" => job'[j] = "succeeded"]_vars

\* Every submitted job is eventually settled, over crashes, restarts, failures
\* and retries.
JobsSettle ==
    \A j \in Jobs : job[j] \in {"pending", "running"} ~> job[j] \in {"succeeded", "failed"}

\* No unit stays RUNNING for ever: what a dead worker left behind is recovered
\* even when its job has been given up.
UnitsNotStranded == \A u \in Units : unit[u] = "running" ~> unit[u] # "running"

\* The job the worker has already failed on its way through the handlers, and
\* will fail again when run_worker_once catches the exception.
Closing == IF wpc = "raise_worker" /\ job[wjob] # "running" THEN {wjob} ELSE {}

\* The rows implement the queue, whatever raises, dies or is retried: only the
\* second write of FAILED can fail a job that is not RUNNING.
Queue == INSTANCE JobQueue WITH NumJobs <- NumJobs, job <- job, closing <- Closing
ImplementsQueue == Queue!Spec

-----------------------------------------------------------------------------
(* What the source says and the model refutes (README, "Divergences").     *)

\* "Hard kills (SIGKILL) are still recovered on the next start via stale
\* RUNNING -> PENDING reset" (run_worker).
HardKillRecovered == \A j \in Jobs : job[j] = "failed" => HasCause(j)

\* A retried unit does not stay behind, PENDING in a job that has failed
\* ("stuck on processing", reactivate_job_for_unit), where executing the job
\* would have processed it: all the steps before its own are SUCCEEDED.
RetriedUnitNotStuck ==
    \A r \in UnitRetries :
       /\ req[r].at = "done" /\ job[req[r].job] = "failed"
       /\ \A s \in Steps : s < req[r].step => step[<<req[r].job, s>>] = "succeeded"
       => unit[<<req[r].job, req[r].step, req[r].subject>>] # "pending"
=============================================================================
