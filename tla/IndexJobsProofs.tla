-------------------------- MODULE IndexJobsProofs --------------------------
(* Theorems about IndexJobs, for every number of jobs, steps, subjects,    *)
(* crashes and retry requests.                                             *)
EXTENDS IndexJobs, FiniteSetTheorems, TLAPS

(* The actions of the worker, of its environment and of the API server.    *)
LEMMA TypeInit == Init => TypeOK
  BY PlanAssumption, EnvironmentAssumption
     DEF Init, TypeOK, JobStatus, StepStatus, UnitStatus, WorkerPcs, OwningPcs, StepPcs,
         FanoutPcs, IdleRequest, RequestState, RequestPcs, NoJob, NoStep, Jobs, Steps, Units

LEMMA TypeQueueStep == TypeOK /\ QueueStep => TypeOK'
<1> SUFFICES ASSUME TypeOK, QueueStep PROVE TypeOK'
  OBVIOUS
<1> USE PlanAssumption, EnvironmentAssumption
    DEF TypeOK, JobStatus, StepStatus, UnitStatus, WorkerPcs, OwningPcs, StepPcs,
        FanoutPcs, NoJob, NoStep, Jobs, Steps, Units, rows, plan, fanout
<1>1. CASE RecoverStaleUnits  BY <1>1 DEF RecoverStaleUnits
<1>2. CASE RecoverStaleJobs  BY <1>2 DEF RecoverStaleJobs
<1>3. ASSUME NEW j \in Jobs, ClaimOnePendingJob(j) PROVE TypeOK'
  BY <1>3 DEF ClaimOnePendingJob
<1>4. CASE NothingToClaim  BY <1>4 DEF NothingToClaim
<1>5. CASE StartRun  BY <1>5 DEF StartRun
<1>6. CASE StartRaises  BY <1>6 DEF StartRaises
<1>7. CASE SnapshotSteps  BY <1>7 DEF SnapshotSteps
<1> HIDE DEF TypeOK, Jobs
<1>8. QED  BY <1>1, <1>2, <1>3, <1>4, <1>5, <1>6, <1>7 DEF QueueStep

LEMMA TypeLoopStep == TypeOK /\ LoopStep => TypeOK'
<1> SUFFICES ASSUME TypeOK, LoopStep PROVE TypeOK'
  OBVIOUS
<1> USE PlanAssumption, EnvironmentAssumption
    DEF TypeOK, JobStatus, StepStatus, UnitStatus, WorkerPcs, OwningPcs, StepPcs,
        FanoutPcs, NoJob, NoStep, Jobs, Steps, Units, rows, plan, fanout
<1>1. ASSUME NEW s \in Steps, StartStep(s) PROVE TypeOK'
  BY <1>1 DEF StartStep
<1>2. CASE AtomicWork  BY <1>2 DEF AtomicWork
<1>3. CASE StepRaises  BY <1>3 DEF StepRaises
<1>4. CASE FailStep  BY <1>4 DEF FailStep
<1>5. CASE FailJob  BY <1>5 DEF FailJob
<1>6. CASE FailJobAgain  BY <1>6 DEF FailJobAgain, ReleaseJob
<1>7. CASE SettleStep  BY <1>7 DEF SettleStep
<1>8. CASE CheckStep  BY <1>8 DEF CheckStep
<1>9. CASE RejectJob  BY <1>9 DEF RejectJob, ReleaseJob
<1>10. CASE CompleteJob  BY <1>10 DEF CompleteJob, ReleaseJob
<1> HIDE DEF TypeOK, Steps
<1>11. QED
  BY <1>1, <1>2, <1>3, <1>4, <1>5, <1>6, <1>7, <1>8, <1>9, <1>10 DEF LoopStep

LEMMA TypeFanoutStep == TypeOK /\ FanoutStep => TypeOK'
<1> SUFFICES ASSUME TypeOK, FanoutStep PROVE TypeOK'
  OBVIOUS
<1> USE PlanAssumption, EnvironmentAssumption
    DEF TypeOK, JobStatus, StepStatus, UnitStatus, WorkerPcs, OwningPcs, StepPcs,
        FanoutPcs, NoJob, NoStep, Jobs, Steps, Units, rows, plan, fanout
<1>1. CASE SelectBatch
  BY <1>1 DEF SelectBatch, NextUnitsBatch, Unprocessed
<1>2. CASE NothingToSelect  BY <1>2 DEF NothingToSelect
<1>3. CASE FinalizeStep  BY <1>3 DEF FinalizeStep, Finalized
<1>4. ASSUME NEW x \in Subjects, LookupUnit(x) PROVE TypeOK'
  BY <1>4 DEF LookupUnit
<1>5. ASSUME NEW x \in Subjects, MarkRunning(x) PROVE TypeOK'
  BY <1>5 DEF MarkRunning
<1>6. ASSUME NEW x \in Subjects, StartUnit(x) PROVE TypeOK'
  BY <1>6 DEF StartUnit
<1>7. ASSUME NEW x \in Subjects, FinishUnit(x, "succeeded") PROVE TypeOK'
  BY <1>7 DEF FinishUnit
<1>8. ASSUME NEW x \in Subjects, FinishUnit(x, "failed") PROVE TypeOK'
  BY <1>8 DEF FinishUnit
<1> HIDE DEF TypeOK
<1>9. (\E x \in Subjects : LookupUnit(x) \/ MarkRunning(x) \/ StartUnit(x)) => TypeOK'
  BY <1>4, <1>5, <1>6
<1>10. (\E x \in Subjects : FinishUnit(x, "succeeded") \/ FinishUnit(x, "failed")) => TypeOK'
  BY <1>7, <1>8
<1>11. QED
  BY <1>1, <1>2, <1>3, <1>9, <1>10 DEF FanoutStep

\* A handler's next transaction leaves a request well-formed.
LEMMA RequestMoves ==
  ASSUME NEW q \in RequestState, NEW pc \in RequestPcs
  PROVE  [q EXCEPT !.at = pc] \in RequestState
  BY DEF RequestState

LEMMA TypeProcessStep == TypeOK /\ ProcessStep => TypeOK'
<1> SUFFICES ASSUME TypeOK, ProcessStep PROVE TypeOK'
  OBVIOUS
<1> USE PlanAssumption, EnvironmentAssumption
    DEF TypeOK, JobStatus, StepStatus, UnitStatus, WorkerPcs, OwningPcs, StepPcs,
        FanoutPcs, NoJob, NoStep, Jobs, Steps, Units, rows, plan, fanout
<1>1. CASE Crash  BY <1>1 DEF Crash
<1>2. CASE Restart  BY <1>2 DEF Restart
<1>3. ASSUME NEW u \in Units, HeartbeatExpires(u) PROVE TypeOK'
  BY <1>3 DEF HeartbeatExpires
<1> HIDE DEF TypeOK, Units
<1>4. QED  BY <1>1, <1>2, <1>3 DEF ProcessStep

LEMMA TypeApiStep == TypeOK /\ ApiStep => TypeOK'
<1> SUFFICES ASSUME TypeOK, ApiStep PROVE TypeOK'
  OBVIOUS
<1> USE PlanAssumption, EnvironmentAssumption
    DEF TypeOK, JobStatus, StepStatus, UnitStatus, WorkerPcs, OwningPcs, StepPcs,
        FanoutPcs, NoJob, NoStep, Jobs, Steps, Units, rows, plan, fanout
<1>1. ASSUME NEW j \in Jobs, Submit(j) PROVE TypeOK'
  BY <1>1 DEF Submit
<1>2. ASSUME NEW r \in Requests, NEW u \in Units, RetryUnit(r, u) PROVE TypeOK'
  <2>1. u[1] \in Jobs /\ u[2] \in Fanout /\ u[3] \in Subjects
    BY DEF Units
  <2>2. req' \in [Requests -> RequestState]
    BY <1>2, <2>1 DEF RetryUnit, RequestState, RequestPcs
  <2>3. \A q \in Requests : req'[q].at # "idle" => req'[q].job # NoJob /\ req'[q].step # NoStep
    BY <1>2, <2>1 DEF RetryUnit
  <2>4. unit' \in [Units -> UnitStatus] /\ fresh' \subseteq Units
    BY <1>2 DEF RetryUnit
  <2>5. UNCHANGED <<job, step, wpc, plan, fanout, crashes>>
    BY <1>2 DEF RetryUnit
  <2>6. QED  BY <2>2, <2>3, <2>4, <2>5
<1>3. ASSUME NEW r \in Requests, NEW j \in Jobs, NEW s \in Steps, RetryStep(r, j, s)
      PROVE TypeOK'
  BY <1>3 DEF RetryStep, RequestState, RequestPcs
<1>4. ASSUME NEW r \in Requests, RetryResetStep(r) PROVE TypeOK'
  <2>1. step' \in [Jobs \X Steps -> StepStatus]
    <3> DEFINE js == <<req[r].job, req[r].step>>
    <3>1. CASE step[js] = "succeeded"
      BY <1>4, <3>1 DEF RetryResetStep
    <3>2. CASE step[js] # "succeeded"
      BY <1>4, <3>2 DEF RetryResetStep
    <3>3. QED  BY <3>1, <3>2
  <2>2. req' \in [Requests -> RequestState]
    <3>1. req' = [req EXCEPT ![r] = [req[r] EXCEPT !.at = "job"]]
      BY <1>4 DEF RetryResetStep
    <3>2. [req[r] EXCEPT !.at = "job"] \in RequestState
      BY RequestMoves DEF RequestPcs
    <3>3. QED  BY <3>1, <3>2
  <2>3. \A q \in Requests : req'[q].at # "idle" => req'[q].job # NoJob /\ req'[q].step # NoStep
    <3> SUFFICES ASSUME NEW q \in Requests, req'[q].at # "idle"
                 PROVE  req'[q].job # NoJob /\ req'[q].step # NoStep
      OBVIOUS
    <3>1. req[q].at # "idle" /\ req'[q].job = req[q].job /\ req'[q].step = req[q].step
      BY <1>4 DEF RetryResetStep, RequestState, RequestPcs
    <3>2. QED  BY <3>1
  <2>4. UNCHANGED <<job, unit, fresh, wpc, plan, fanout, crashes>>
    BY <1>4 DEF RetryResetStep
  <2>5. QED  BY <2>1, <2>2, <2>3, <2>4
<1>5. ASSUME NEW r \in Requests, RetryReactivateJob(r) PROVE TypeOK'
  <2>1. job' \in [Jobs -> JobStatus]
    BY <1>5 DEF RetryReactivateJob
  <2>2. req' \in [Requests -> RequestState]
    <3>1. req' = [req EXCEPT ![r] = [req[r] EXCEPT !.at = "done"]]
      BY <1>5 DEF RetryReactivateJob
    <3>2. [req[r] EXCEPT !.at = "done"] \in RequestState
      BY RequestMoves DEF RequestPcs
    <3>3. QED  BY <3>1, <3>2
  <2>3. \A q \in Requests : req'[q].at # "idle" => req'[q].job # NoJob /\ req'[q].step # NoStep
    <3> SUFFICES ASSUME NEW q \in Requests, req'[q].at # "idle"
                 PROVE  req'[q].job # NoJob /\ req'[q].step # NoStep
      OBVIOUS
    <3>1. req[q].at # "idle" /\ req'[q].job = req[q].job /\ req'[q].step = req[q].step
      BY <1>5 DEF RetryReactivateJob, RequestState, RequestPcs
    <3>2. QED  BY <3>1
  <2>4. UNCHANGED <<step, unit, fresh, wpc, plan, fanout, crashes>>
    BY <1>5 DEF RetryReactivateJob
  <2>5. QED  BY <2>1, <2>2, <2>3, <2>4
<1> HIDE DEF TypeOK, Jobs, Steps, Units
<1>6. QED  BY <1>1, <1>2, <1>3, <1>4, <1>5 DEF ApiStep, RetryContinues

LEMMA TypeInductive == TypeOK /\ [Next]_vars => TypeOK'
<1> SUFFICES ASSUME TypeOK, [Next]_vars PROVE TypeOK'
  OBVIOUS
<1>1. CASE WorkerStep
  BY <1>1, TypeQueueStep, TypeLoopStep, TypeFanoutStep DEF WorkerStep
<1>2. CASE ProcessStep  BY <1>2, TypeProcessStep
<1>3. CASE ApiStep  BY <1>3, TypeApiStep
<1>4. CASE UNCHANGED vars
  BY <1>4 DEF TypeOK, vars, plan, fanout, Units
<1>5. QED  BY <1>1, <1>2, <1>3, <1>4 DEF Next

\* The rows only ever hold statuses, and the worker's memory agrees with where
\* it is in the code.
THEOREM TypeCorrect == Spec => []TypeOK
<1>1. Init => TypeOK  BY TypeInit
<1>2. TypeOK /\ [Next]_vars => TypeOK'  BY TypeInductive
<1>3. QED  BY <1>1, <1>2, PTL DEF Spec

-----------------------------------------------------------------------------
(* Ownership is inductive.                                                 *)

\* JobOwnership, with where the one RUNNING job can be and what the second
\* write of FAILED can find.
Ownership ==
    /\ WorkerOwnsJob
    /\ AtMostOneRunning
    /\ \A j \in Jobs : job[j] = "running" => wpc \in {"down", "idle", "recover"} \/ wjob = j
    /\ wpc = "raise_worker" => job[wjob] \in {"running", "failed", "pending"}

\* A fan-out step in progress leaves jobs, steps, plan and requests alone.
LEMMA FanoutFrame ==
  ASSUME TypeOK, FanoutStep
  PROVE  /\ wpc \in FanoutPcs /\ wpc' \in FanoutPcs \cup {"settle"}
         /\ UNCHANGED <<job, step, wjob, todo, cur, req>>
<1> USE DEF FanoutPcs, plan, rows
<1>1. CASE SelectBatch  BY <1>1 DEF SelectBatch
<1>2. CASE NothingToSelect  BY <1>2 DEF NothingToSelect
<1>3. CASE FinalizeStep  BY <1>3 DEF FinalizeStep
<1>4. ASSUME NEW x \in Subjects, LookupUnit(x) \/ MarkRunning(x) \/ StartUnit(x)
      PROVE  /\ wpc \in FanoutPcs /\ wpc' \in FanoutPcs
             /\ UNCHANGED <<job, step, wjob, todo, cur, req>>
  BY <1>4 DEF LookupUnit, MarkRunning, StartUnit
<1>5. ASSUME NEW x \in Subjects, FinishUnit(x, "succeeded") \/ FinishUnit(x, "failed")
      PROVE  /\ wpc \in FanoutPcs /\ wpc' \in FanoutPcs
             /\ UNCHANGED <<job, step, wjob, todo, cur, req>>
  BY <1>5 DEF FinishUnit
<1>6. QED  BY <1>1, <1>2, <1>3, <1>4, <1>5 DEF FanoutStep

LEMMA OwnershipQueueStep == TypeOK /\ Ownership /\ QueueStep => Ownership'
<1> SUFFICES ASSUME TypeOK, Ownership, QueueStep PROVE Ownership'
  OBVIOUS
<1> USE DEF TypeOK, Ownership, WorkerOwnsJob, AtMostOneRunning, OwningPcs, StepPcs, FanoutPcs,
            NoJob, Jobs, rows, plan
<1>1. CASE RecoverStaleUnits  BY <1>1 DEF RecoverStaleUnits
<1>2. CASE RecoverStaleJobs  BY <1>2 DEF RecoverStaleJobs
<1>3. ASSUME NEW j \in Jobs, ClaimOnePendingJob(j) PROVE Ownership'
  BY <1>3 DEF ClaimOnePendingJob
<1>4. CASE NothingToClaim  BY <1>4 DEF NothingToClaim
<1>5. CASE StartRun  BY <1>5 DEF StartRun
<1>6. CASE StartRaises  BY <1>6 DEF StartRaises
<1>7. CASE SnapshotSteps  BY <1>7 DEF SnapshotSteps
<1> HIDE DEF Ownership, Jobs
<1>8. QED  BY <1>1, <1>2, <1>3, <1>4, <1>5, <1>6, <1>7 DEF QueueStep

LEMMA OwnershipLoopStep == TypeOK /\ Ownership /\ LoopStep => Ownership'
<1> SUFFICES ASSUME TypeOK, Ownership, LoopStep PROVE Ownership'
  OBVIOUS
<1> USE DEF TypeOK, Ownership, WorkerOwnsJob, AtMostOneRunning, OwningPcs, StepPcs, FanoutPcs,
            NoJob, Jobs, rows, plan
<1>1. ASSUME NEW s \in Steps, StartStep(s) PROVE Ownership'
  BY <1>1 DEF StartStep
<1>2. CASE AtomicWork  BY <1>2 DEF AtomicWork
<1>3. CASE StepRaises  BY <1>3 DEF StepRaises
<1>4. CASE FailStep  BY <1>4 DEF FailStep
<1>5. CASE FailJob  BY <1>5 DEF FailJob
<1>6. CASE FailJobAgain  BY <1>6 DEF FailJobAgain, ReleaseJob
<1>7. CASE SettleStep  BY <1>7 DEF SettleStep
<1>8. CASE CheckStep  BY <1>8 DEF CheckStep
<1>9. CASE RejectJob  BY <1>9 DEF RejectJob, ReleaseJob
<1>10. CASE CompleteJob  BY <1>10 DEF CompleteJob, ReleaseJob
<1> HIDE DEF Ownership
<1>11. QED
  BY <1>1, <1>2, <1>3, <1>4, <1>5, <1>6, <1>7, <1>8, <1>9, <1>10 DEF LoopStep

LEMMA OwnershipProcessStep == TypeOK /\ Ownership /\ ProcessStep => Ownership'
<1> SUFFICES ASSUME TypeOK, Ownership, ProcessStep PROVE Ownership'
  OBVIOUS
<1> USE DEF TypeOK, Ownership, WorkerOwnsJob, AtMostOneRunning, OwningPcs, StepPcs, FanoutPcs,
            NoJob, Jobs, rows, plan
<1>1. CASE Crash  BY <1>1 DEF Crash
<1>2. CASE Restart  BY <1>2 DEF Restart
<1>3. ASSUME NEW u \in Units, HeartbeatExpires(u) PROVE Ownership'
  BY <1>3 DEF HeartbeatExpires
<1> HIDE DEF Ownership
<1>4. QED  BY <1>1, <1>2, <1>3 DEF ProcessStep

LEMMA OwnershipApiStep == TypeOK /\ Ownership /\ ApiStep => Ownership'
<1> SUFFICES ASSUME TypeOK, Ownership, ApiStep PROVE Ownership'
  OBVIOUS
<1> USE DEF TypeOK, Ownership, WorkerOwnsJob, AtMostOneRunning, OwningPcs, StepPcs, FanoutPcs,
            NoJob, Jobs, rows, plan
<1>1. ASSUME NEW j \in Jobs, Submit(j) PROVE Ownership'
  BY <1>1 DEF Submit
<1>2. ASSUME NEW r \in Requests, NEW u \in Units, RetryUnit(r, u) PROVE Ownership'
  BY <1>2 DEF RetryUnit
<1>3. ASSUME NEW r \in Requests, NEW j \in Jobs, NEW s \in Steps, RetryStep(r, j, s)
      PROVE Ownership'
  BY <1>3 DEF RetryStep
<1>4. ASSUME NEW r \in Requests, RetryResetStep(r) PROVE Ownership'
  BY <1>4 DEF RetryResetStep
<1>5. ASSUME NEW r \in Requests, RetryReactivateJob(r) PROVE Ownership'
  BY <1>5 DEF RetryReactivateJob, RequestState
<1> HIDE DEF Ownership, Jobs
<1>6. QED  BY <1>1, <1>2, <1>3, <1>4, <1>5 DEF ApiStep, RetryContinues

LEMMA OwnershipInductive == TypeOK /\ Ownership /\ [Next]_vars => Ownership'
<1> SUFFICES ASSUME TypeOK, Ownership, [Next]_vars PROVE Ownership'
  OBVIOUS
<1>1. CASE FanoutStep
  BY <1>1, FanoutFrame
     DEF Ownership, WorkerOwnsJob, AtMostOneRunning, OwningPcs, StepPcs, FanoutPcs
<1>2. CASE UNCHANGED vars
  BY <1>2 DEF vars, plan, Ownership, WorkerOwnsJob, AtMostOneRunning
<1>3. QED
  BY <1>1, <1>2, OwnershipQueueStep, OwnershipLoopStep, OwnershipProcessStep, OwnershipApiStep
     DEF Next, WorkerStep

LEMMA OwnershipInit == Init => Ownership
  BY DEF Init, Ownership, WorkerOwnsJob, AtMostOneRunning, OwningPcs, StepPcs, FanoutPcs, Jobs

\* At most one job is RUNNING, and the job a worker executes stays RUNNING until
\* that worker settles it: claim, recovery and retries never interfere.
THEOREM JobOwnershipHolds == Spec => []JobOwnership
<1>1. Init => TypeOK /\ Ownership  BY TypeInit, OwnershipInit
<1>2. TypeOK /\ Ownership /\ [Next]_vars => (TypeOK /\ Ownership)'
  BY TypeInductive, OwnershipInductive
<1>3. TypeOK /\ Ownership => JobOwnership  BY DEF Ownership, JobOwnership
<1>4. QED  BY <1>1, <1>2, <1>3, PTL DEF Spec

-----------------------------------------------------------------------------
(* The order of steps, the quality gate and the kept results, and that     *)
(* IndexJobs implements JobQueue.                                          *)

(* The inductive invariant.  Each part is what one property needs to be    *)
(* preserved by every action; Ownership is above.                          *)

Done(j, s) == step[<<j, s>>] = "succeeded" \/ Retried(j, s)

\* What is behind the loop of Orchestrator.run and what is still ahead of it.
LoopProgress ==
    /\ wpc = "next" => \A s \in Steps \ todo : Done(wjob, s)
    /\ wpc \in StepPcs => \A s \in Steps \ (todo \cup {cur}) : Done(wjob, s)
    /\ wpc \in StepPcs => \A t \in todo : cur < t
    /\ wpc \in StepPcs \cup {"next"} => \A t \in todo : step[<<wjob, t>>] # "succeeded"
    /\ wpc \in StepPcs \ {"check", "reject", "raise_job"} => step[<<wjob, cur>>] = "running"
    /\ \A j \in Jobs : job[j] = "succeeded" => \A s \in Steps : Done(j, s)

\* What finalize has established about the step whose status is being written.
Quality ==
    /\ wpc = "work" => cur \notin Fanout
    /\ wpc = "settle" /\ cur \in Fanout /\ verdict = "succeeded" =>
          ~BelowRatio(wjob, cur) \/ Retried(wjob, cur)
    /\ QualityGate

\* No unit that is being processed has succeeded already.
NoRework ==
    /\ waiting \cap active = {}
    /\ wpc \in FanoutPcs =>
          \A x \in held \cup waiting \cup active : unit[<<wjob, cur, x>>] # "succeeded"

IInv == TypeOK /\ Ownership /\ LoopProgress /\ Quality /\ NoRework

-----------------------------------------------------------------------------
(* What one step can do to requests and steps.                             *)

\* A retry is never forgotten.
LEMMA RetriedKept ==
  ASSUME TypeOK, [Next]_vars, NEW j, NEW s, Retried(j, s)
  PROVE  Retried(j, s)'
<1> USE DEF Retried, TypeOK
<1>1. CASE UNCHANGED req  BY <1>1
<1>2. ASSUME NEW r \in Requests, NEW u \in Units, RetryUnit(r, u) PROVE Retried(j, s)'
  BY <1>2 DEF RetryUnit
<1>3. ASSUME NEW r \in Requests, NEW i \in Jobs, NEW t \in Steps, RetryStep(r, i, t)
      PROVE Retried(j, s)'
  BY <1>3 DEF RetryStep
<1>4. ASSUME NEW r \in Requests, RetryContinues(r) PROVE Retried(j, s)'
  <2>1. ASSUME NEW q \in Requests, req[q].at # "idle"
        PROVE  req'[q].at # "idle" /\ req'[q].job = req[q].job /\ req'[q].step = req[q].step
    <3>1. req[q] \in RequestState  OBVIOUS
    <3>2. CASE RetryResetStep(r)  BY <2>1, <3>1, <3>2 DEF RetryResetStep, RequestState
    <3>3. CASE RetryReactivateJob(r)  BY <2>1, <3>1, <3>3 DEF RetryReactivateJob, RequestState
    <3>4. QED  BY <1>4, <3>2, <3>3 DEF RetryContinues
  <2>2. QED  BY <2>1
<1> HIDE DEF Retried
<1>5. CASE WorkerStep \/ ProcessStep \/ UNCHANGED vars
  <2>1. UNCHANGED req
    BY <1>5, FanoutFrame
       DEF WorkerStep, QueueStep, LoopStep, ProcessStep, vars, RecoverStaleUnits,
           RecoverStaleJobs, ClaimOnePendingJob, NothingToClaim, StartRun, StartRaises,
           SnapshotSteps, StartStep, AtomicWork, StepRaises, FailStep, FailJob, FailJobAgain,
           SettleStep, CheckStep, RejectJob, CompleteJob, Crash, Restart, HeartbeatExpires
  <2>2. QED  BY <2>1, <1>1
<1>6. CASE ApiStep
  <2>1. ASSUME NEW i \in Jobs, Submit(i) PROVE UNCHANGED req  BY <2>1 DEF Submit
  <2>2. QED  BY <1>6, <2>1, <1>1, <1>2, <1>3, <1>4 DEF ApiStep
<1>7. QED  BY <1>5, <1>6 DEF Next

\* Only three worker actions and one retry transaction write a step's status.
StepWrites ==
    \/ UNCHANGED step
    \/ \E s \in Steps : StartStep(s)
    \/ FailStep \/ SettleStep
    \/ \E r \in Requests : RetryResetStep(r)

LEMMA StepFrame == TypeOK /\ [Next]_vars => StepWrites
<1> SUFFICES ASSUME TypeOK, [Next]_vars PROVE StepWrites
  OBVIOUS
<1> USE DEF StepWrites
<1>1. CASE QueueStep
  BY <1>1 DEF QueueStep, rows, RecoverStaleUnits, RecoverStaleJobs, ClaimOnePendingJob,
              NothingToClaim, StartRun, StartRaises, SnapshotSteps
<1>2. CASE LoopStep
  BY <1>2 DEF LoopStep, rows, AtomicWork, StepRaises, FailJob, FailJobAgain, CheckStep,
              RejectJob, CompleteJob
<1>3. CASE FanoutStep  BY <1>3, FanoutFrame
<1>4. CASE ProcessStep
  BY <1>4 DEF ProcessStep, rows, Crash, Restart, HeartbeatExpires
<1>5. CASE ApiStep
  BY <1>5 DEF ApiStep, Submit, RetryUnit, RetryStep, RetryContinues, RetryReactivateJob
<1>6. CASE UNCHANGED vars  BY <1>6 DEF vars
<1>7. QED  BY <1>1, <1>2, <1>3, <1>4, <1>5, <1>6 DEF Next, WorkerStep

\* A SUCCEEDED step leaves that status only by a retry that demotes it.
LEMMA StepKept ==
  ASSUME TypeOK, LoopProgress, [Next]_vars, NEW j \in Jobs, NEW s \in Steps,
         step[<<j, s>>] = "succeeded"
  PROVE  \/ step'[<<j, s>>] = "succeeded"
         \/ step'[<<j, s>>] = "partially_failed" /\ Retried(j, s)'
<1> USE DEF TypeOK
<1>1. CASE UNCHANGED step  BY <1>1
<1>2. ASSUME NEW t \in Steps, StartStep(t) PROVE step'[<<j, s>>] = "succeeded"
  BY <1>2 DEF StartStep, LoopProgress
<1>3. CASE FailStep
  BY <1>3 DEF FailStep, LoopProgress, StepPcs
<1>4. CASE SettleStep
  BY <1>4 DEF SettleStep, LoopProgress, StepPcs
<1>5. ASSUME NEW r \in Requests, RetryResetStep(r)
      PROVE  \/ step'[<<j, s>>] = "succeeded"
             \/ step'[<<j, s>>] = "partially_failed" /\ Retried(j, s)'
  <2>1. CASE <<j, s>> = <<req[r].job, req[r].step>>
    <3>1. req'[r].job = j /\ req'[r].step = s /\ req'[r].at # "idle"
      BY <1>5, <2>1 DEF RetryResetStep, RequestState
    <3>2. Retried(j, s)'  BY <3>1 DEF Retried
    <3>3. step'[<<j, s>>] = "partially_failed"
      BY <1>5, <2>1 DEF RetryResetStep
    <3>4. QED  BY <3>2, <3>3
  <2>2. CASE <<j, s>> # <<req[r].job, req[r].step>>
    BY <1>5, <2>2 DEF RetryResetStep
  <2>3. QED  BY <2>1, <2>2
<1>6. QED  BY <1>1, <1>2, <1>3, <1>4, <1>5, StepFrame DEF StepWrites

LEMMA DoneKept ==
  ASSUME TypeOK, LoopProgress, [Next]_vars, NEW j \in Jobs, NEW s \in Steps, Done(j, s)
  PROVE  Done(j, s)'
  BY StepKept, RetriedKept DEF Done

-----------------------------------------------------------------------------
(* LoopProgress is inductive.                                              *)

LEMMA LoopInit == Init => LoopProgress
  BY DEF Init, LoopProgress, StepPcs, FanoutPcs

LEMMA LoopQueueStep ==
  ASSUME TypeOK, Ownership, LoopProgress, QueueStep
  PROVE  LoopProgress'
<1>1. \A j \in Jobs, s \in Steps : Done(j, s) => Done(j, s)'
  BY DoneKept DEF Next, WorkerStep
<1> USE DEF TypeOK, LoopProgress, StepPcs, FanoutPcs, rows, plan
<1>2. CASE RecoverStaleUnits  BY <1>1, <1>2 DEF RecoverStaleUnits
<1>3. CASE RecoverStaleJobs  BY <1>1, <1>3 DEF RecoverStaleJobs
<1>4. ASSUME NEW j \in Jobs, ClaimOnePendingJob(j) PROVE LoopProgress'
  BY <1>1, <1>4 DEF ClaimOnePendingJob
<1>5. CASE NothingToClaim  BY <1>1, <1>5 DEF NothingToClaim
<1>6. CASE StartRun  BY <1>1, <1>6 DEF StartRun
<1>7. CASE StartRaises  BY <1>1, <1>7 DEF StartRaises
<1>8. CASE SnapshotSteps
  BY <1>1, <1>8 DEF SnapshotSteps, Done
<1> HIDE DEF TypeOK, LoopProgress
<1>9. QED  BY <1>2, <1>3, <1>4, <1>5, <1>6, <1>7, <1>8 DEF QueueStep

LEMMA LoopLoopStep ==
  ASSUME TypeOK, Ownership, LoopProgress, LoopStep
  PROVE  LoopProgress'
<1>1. \A j \in Jobs, s \in Steps : Done(j, s) => Done(j, s)'
  BY DoneKept DEF Next, WorkerStep
<1>2. wjob \in Jobs
  BY DEF TypeOK, LoopStep, StartStep, AtomicWork, StepRaises, FailStep, FailJob, FailJobAgain,
         SettleStep, CheckStep, RejectJob, CompleteJob, OwningPcs, StepPcs, FanoutPcs
<1> USE DEF TypeOK, LoopProgress, StepPcs, FanoutPcs, rows, plan
<1>3. ASSUME NEW s \in Steps, StartStep(s) PROVE LoopProgress'
  BY <1>1, <1>2, <1>3 DEF StartStep, Steps
<1>4. CASE AtomicWork  BY <1>1, <1>2, <1>4 DEF AtomicWork
<1>5. CASE StepRaises  BY <1>1, <1>2, <1>5 DEF StepRaises
<1>6. CASE FailStep  BY <1>1, <1>2, <1>6 DEF FailStep, Steps
<1>7. CASE FailJob  BY <1>1, <1>2, <1>7 DEF FailJob
<1>8. CASE FailJobAgain  BY <1>1, <1>2, <1>8 DEF FailJobAgain, ReleaseJob
<1>9. CASE SettleStep  BY <1>1, <1>2, <1>9 DEF SettleStep, Steps
<1>10. CASE CheckStep  BY <1>1, <1>2, <1>10 DEF CheckStep, Done
<1>11. CASE RejectJob  BY <1>1, <1>2, <1>11 DEF RejectJob, ReleaseJob
<1>12. CASE CompleteJob  BY <1>1, <1>2, <1>12 DEF CompleteJob, ReleaseJob
<1> HIDE DEF TypeOK, LoopProgress
<1>13. QED
  BY <1>3, <1>4, <1>5, <1>6, <1>7, <1>8, <1>9, <1>10, <1>11, <1>12 DEF LoopStep

LEMMA LoopFanoutStep ==
  ASSUME TypeOK, LoopProgress, FanoutStep
  PROVE  LoopProgress'
<1>1. \A j \in Jobs, s \in Steps : Done(j, s) => Done(j, s)'
  BY DoneKept DEF Next, WorkerStep
<1>2. wjob \in Jobs
  BY FanoutFrame DEF TypeOK, OwningPcs, StepPcs
<1>3. QED  BY <1>1, <1>2, FanoutFrame DEF TypeOK, LoopProgress, StepPcs, FanoutPcs

LEMMA LoopProcessStep ==
  ASSUME TypeOK, LoopProgress, ProcessStep
  PROVE  LoopProgress'
<1>1. \A j \in Jobs, s \in Steps : Done(j, s) => Done(j, s)'
  BY DoneKept DEF Next
<1> USE DEF TypeOK, LoopProgress, StepPcs, FanoutPcs, OwningPcs, rows, plan
<1>2. CASE Crash  BY <1>1, <1>2 DEF Crash
<1>3. CASE Restart  BY <1>1, <1>3 DEF Restart
<1>4. ASSUME NEW u \in Units, HeartbeatExpires(u) PROVE LoopProgress'
  BY <1>1, <1>4 DEF HeartbeatExpires
<1> HIDE DEF TypeOK, LoopProgress
<1>5. QED  BY <1>2, <1>3, <1>4 DEF ProcessStep

LEMMA LoopApiStep ==
  ASSUME TypeOK, LoopProgress, ApiStep
  PROVE  LoopProgress'
<1>1. \A j \in Jobs, s \in Steps : Done(j, s) => Done(j, s)'
  BY DoneKept DEF Next
<1> USE DEF TypeOK, LoopProgress, StepPcs, FanoutPcs, OwningPcs, rows, plan
<1>2. ASSUME NEW j \in Jobs, Submit(j) PROVE LoopProgress'
  BY <1>1, <1>2 DEF Submit
<1>3. ASSUME NEW r \in Requests, NEW u \in Units, RetryUnit(r, u) PROVE LoopProgress'
  BY <1>1, <1>3 DEF RetryUnit
<1>4. ASSUME NEW r \in Requests, NEW j \in Jobs, NEW s \in Steps, RetryStep(r, j, s)
      PROVE LoopProgress'
  BY <1>1, <1>4 DEF RetryStep
<1>5. ASSUME NEW r \in Requests, RetryResetStep(r) PROVE LoopProgress'
  BY <1>1, <1>5 DEF RetryResetStep
<1>6. ASSUME NEW r \in Requests, RetryReactivateJob(r) PROVE LoopProgress'
  BY <1>1, <1>6 DEF RetryReactivateJob
<1> HIDE DEF TypeOK, LoopProgress
<1>7. QED  BY <1>2, <1>3, <1>4, <1>5, <1>6 DEF ApiStep, RetryContinues

LEMMA LoopInductive == TypeOK /\ Ownership /\ LoopProgress /\ [Next]_vars => LoopProgress'
<1> SUFFICES ASSUME TypeOK, Ownership, LoopProgress, [Next]_vars PROVE LoopProgress'
  OBVIOUS
<1>1. CASE UNCHANGED vars
  BY <1>1 DEF vars, plan, LoopProgress, Done, Retried
<1>2. QED
  BY <1>1, LoopQueueStep, LoopLoopStep, LoopFanoutStep, LoopProcessStep, LoopApiStep
     DEF Next, WorkerStep

Control == TypeOK /\ Ownership /\ LoopProgress

LEMMA ControlInvariant == Spec => []Control
<1>1. Init => Control
  BY TypeInit, OwnershipInit, LoopInit DEF Control
<1>2. Control /\ [Next]_vars => Control'
  BY TypeInductive, OwnershipInductive, LoopInductive DEF Control
<1>3. QED  BY <1>1, <1>2, PTL DEF Spec

\* The loop of Orchestrator.run is behind only SUCCEEDED steps, and a SUCCEEDED
\* job has only SUCCEEDED steps, unless a retry has reopened one since.
THEOREM StepsInOrderHolds == Spec => []StepsInOrder
<1>1. Control => StepsInOrder
  <2> SUFFICES ASSUME Control PROVE StepsInOrder
    OBVIOUS
  <2>1. ASSUME wpc \in StepPcs, NEW s \in Steps, s < cur PROVE Done(wjob, s)
    <3>1. s \notin todo \cup {cur}
      BY <2>1 DEF Control, TypeOK, LoopProgress, Steps, NoStep
    <3>2. QED  BY <2>1, <3>1 DEF Control, LoopProgress
  <2>2. ASSUME NEW j \in Jobs, job[j] = "succeeded", NEW s \in Steps PROVE Done(j, s)
    BY <2>2 DEF Control, LoopProgress
  <2>3. QED  BY <2>1, <2>2 DEF StepsInOrder, Done
<1>2. QED  BY <1>1, ControlInvariant, PTL

\* No step that reads SUCCEEDED is executed again ("skip steps already
\* completed"): its status can only be demoted by a retry.
THEOREM SucceededStepKeptHolds == Spec => SucceededStepKept
<1> DEFINE Kept == \A s \in Jobs \X Steps :
              step[s] = "succeeded" => step'[s] \in {"succeeded", "partially_failed"}
<1>1. Control /\ [Next]_vars => Kept
  BY StepKept DEF Control
<1>2. Spec => [][Kept]_vars
  <2>1. Control /\ [Next]_vars => [Kept]_vars  BY <1>1
  <2>2. QED  BY <2>1, ControlInvariant, PTL DEF Spec
<1>3. QED  BY <1>2 DEF SucceededStepKept

\* A SUCCEEDED job is final: recovery, claims and retries leave it alone.
THEOREM SucceededJobFinalHolds == Spec => SucceededJobFinal
<1> DEFINE Final == \A j \in Jobs : job[j] = "succeeded" => job'[j] = "succeeded"
<1>1. TypeOK /\ Ownership /\ [Next]_vars => Final
  <2> SUFFICES ASSUME TypeOK, Ownership, [Next]_vars,
                      NEW j \in Jobs, job[j] = "succeeded"
               PROVE  job'[j] = "succeeded"
    OBVIOUS
  <2> USE DEF TypeOK, Ownership, WorkerOwnsJob, OwningPcs, StepPcs, FanoutPcs, rows
  <2>1. CASE QueueStep
    BY <2>1 DEF QueueStep, RecoverStaleUnits, RecoverStaleJobs, ClaimOnePendingJob,
                NothingToClaim, StartRun, StartRaises, SnapshotSteps
  <2>2. CASE LoopStep
    BY <2>2 DEF LoopStep, StartStep, AtomicWork, StepRaises, FailStep, FailJob, FailJobAgain,
                SettleStep, CheckStep, RejectJob, CompleteJob
  <2>3. CASE FanoutStep  BY <2>3, FanoutFrame
  <2>4. CASE ProcessStep
    BY <2>4 DEF ProcessStep, Crash, Restart, HeartbeatExpires
  <2>5. CASE ApiStep
    BY <2>5 DEF ApiStep, Submit, RetryUnit, RetryStep, RetryContinues, RetryResetStep,
                RetryReactivateJob
  <2>6. CASE UNCHANGED vars  BY <2>6 DEF vars
  <2>7. QED  BY <2>1, <2>2, <2>3, <2>4, <2>5, <2>6 DEF Next, WorkerStep
<1>2. Spec => [][Final]_vars
  <2>1. Control /\ [Next]_vars => [Final]_vars  BY <1>1 DEF Control
  <2>2. QED  BY <2>1, ControlInvariant, PTL DEF Spec
<1>3. QED  BY <1>2 DEF SucceededJobFinal

-----------------------------------------------------------------------------
(* Units: finished work is not redone.                                     *)

LEMMA NoReworkInductive == TypeOK /\ NoRework /\ [Next]_vars => NoRework'
<1> SUFFICES ASSUME TypeOK, NoRework, [Next]_vars PROVE NoRework'
  OBVIOUS
<1> USE DEF TypeOK, NoRework, FanoutPcs, rows, plan, fanout
<1>1. CASE QueueStep
  BY <1>1 DEF QueueStep, RecoverStaleUnits, RecoverStaleJobs, ClaimOnePendingJob,
              NothingToClaim, StartRun, StartRaises, SnapshotSteps
<1>2. CASE LoopStep
  BY <1>2 DEF LoopStep, StartStep, AtomicWork, StepRaises, FailStep, FailJob, FailJobAgain,
              SettleStep, CheckStep, RejectJob, CompleteJob, ReleaseJob
<1>3. CASE SelectBatch  BY <1>3 DEF SelectBatch
<1>4. CASE NothingToSelect  BY <1>4 DEF NothingToSelect
<1>5. CASE FinalizeStep  BY <1>5 DEF FinalizeStep
<1>6. ASSUME NEW x \in Subjects, LookupUnit(x) PROVE NoRework'
  BY <1>6 DEF LookupUnit, Units
<1>7. ASSUME NEW x \in Subjects, MarkRunning(x) PROVE NoRework'
  BY <1>7 DEF MarkRunning, Units
<1>8. ASSUME NEW x \in Subjects, StartUnit(x) PROVE NoRework'
  BY <1>8 DEF StartUnit
<1>9. ASSUME NEW x \in Subjects, NEW status, FinishUnit(x, status) PROVE NoRework'
  BY <1>9 DEF FinishUnit, Units
<1>10. CASE ProcessStep
  BY <1>10 DEF ProcessStep, Crash, Restart, HeartbeatExpires
<1>11. ASSUME NEW r \in Requests, NEW u \in Units, RetryUnit(r, u) PROVE NoRework'
  BY <1>11 DEF RetryUnit
<1>12. ASSUME NEW r \in Requests, NEW j \in Jobs, NEW s \in Steps, RetryStep(r, j, s)
       PROVE  NoRework'
  BY <1>12 DEF RetryStep, Units, OwningPcs, StepPcs
<1>13. CASE (\E j \in Jobs : Submit(j)) \/ \E r \in Requests : RetryContinues(r)
  BY <1>13 DEF Submit, RetryContinues, RetryResetStep, RetryReactivateJob
<1>14. CASE UNCHANGED vars  BY <1>14 DEF vars
<1> HIDE DEF TypeOK, NoRework
<1>15. QED
  BY <1>1, <1>2, <1>3, <1>4, <1>5, <1>6, <1>7, <1>8, <1>9, <1>10, <1>11, <1>12, <1>13, <1>14
     DEF Next, WorkerStep, FanoutStep, ApiStep

LEMMA NoReworkInvariant == Spec => [](Control /\ NoRework)
<1>1. Init => NoRework
  BY DEF Init, NoRework, FanoutPcs
<1>2. Control /\ NoRework /\ [Next]_vars => NoRework'
  BY NoReworkInductive DEF Control
<1>3. QED  BY <1>1, <1>2, ControlInvariant, PTL DEF Spec

\* No crash, recovery, resume or race of the worker takes a unit out of
\* SUCCEEDED: only the retry request that names it does.
THEOREM SucceededUnitKeptHolds == Spec => SucceededUnitKept
<1> DEFINE Kept == \A u \in Units : unit[u] = "succeeded" /\ unit'[u] # "succeeded" =>
              \E r \in UnitRetries :
                 /\ req'[r] # req[r]
                 /\ <<req'[r].job, req'[r].step, req'[r].subject>> = u
<1>1. TypeOK /\ NoRework /\ [Next]_vars => Kept
  <2> SUFFICES ASSUME TypeOK, NoRework, [Next]_vars,
                      NEW u \in Units, unit[u] = "succeeded", unit'[u] # "succeeded"
               PROVE  \E r \in UnitRetries :
                         /\ req'[r] # req[r]
                         /\ <<req'[r].job, req'[r].step, req'[r].subject>> = u
    OBVIOUS
  <2> USE DEF TypeOK, NoRework, FanoutPcs, rows
  <2>1. ~QueueStep
    BY DEF QueueStep, RecoverStaleUnits, RecoverStaleJobs, ClaimOnePendingJob,
           NothingToClaim, StartRun, StartRaises, SnapshotSteps
  <2>2. ~LoopStep
    BY DEF LoopStep, StartStep, AtomicWork, StepRaises, FailStep, FailJob, FailJobAgain,
           SettleStep, CheckStep, RejectJob, CompleteJob
  <2>3. ~SelectBatch /\ ~NothingToSelect /\ ~FinalizeStep
    BY DEF SelectBatch, NothingToSelect, FinalizeStep
  <2>4. ASSUME NEW x \in Subjects PROVE ~LookupUnit(x) /\ ~MarkRunning(x) /\ ~StartUnit(x)
    BY DEF LookupUnit, MarkRunning, StartUnit, Units
  <2>5. ASSUME NEW x \in Subjects, NEW status PROVE ~FinishUnit(x, status)
    BY DEF FinishUnit, Units
  <2>6. ~ProcessStep
    BY DEF ProcessStep, Crash, Restart, HeartbeatExpires
  <2>7. ASSUME NEW r \in Requests, NEW v \in Units, RetryUnit(r, v)
        PROVE  \E q \in UnitRetries :
                  /\ req'[q] # req[q]
                  /\ <<req'[q].job, req'[q].step, req'[q].subject>> = u
    <3>1. r \in UnitRetries /\ v = u  BY <2>7 DEF RetryUnit
    <3>2. req'[r] = [at |-> "step", job |-> u[1], step |-> u[2], subject |-> u[3]]
      BY <2>7, <3>1 DEF RetryUnit
    <3>3. req[r].at # req'[r].at  BY <2>7, <3>2 DEF RetryUnit
    <3>4. u = <<u[1], u[2], u[3]>>  BY DEF Units
    <3>5. QED  BY <3>1, <3>2, <3>3, <3>4
  <2>8. ASSUME NEW r \in Requests, NEW j \in Jobs, NEW s \in Steps PROVE ~RetryStep(r, j, s)
    BY DEF RetryStep
  <2>9. /\ \A j \in Jobs : ~Submit(j)
        /\ \A r \in Requests : ~RetryContinues(r)
    BY DEF Submit, RetryContinues, RetryResetStep, RetryReactivateJob
  <2>10. ~UNCHANGED vars  BY DEF vars
  <2> HIDE DEF TypeOK, NoRework
  <2>11. QED
    BY <2>1, <2>2, <2>3, <2>4, <2>5, <2>6, <2>7, <2>8, <2>9, <2>10
       DEF Next, WorkerStep, FanoutStep, ApiStep
<1>2. Spec => [][Kept]_vars
  <2>1. Control /\ NoRework /\ [Next]_vars => [Kept]_vars  BY <1>1 DEF Control
  <2>2. QED  BY <2>1, NoReworkInvariant, PTL DEF Spec
<1>3. QED  BY <1>2 DEF SucceededUnitKept

-----------------------------------------------------------------------------
(* The quality gate.                                                       *)

\* The ratio of a step changes only with its units' rows.
LEMMA RatioFrame ==
  ASSUME NEW j, NEW s, Rows(j, s)' = Rows(j, s), Succeeded(j, s)' = Succeeded(j, s)
  PROVE  BelowRatio(j, s)' = BelowRatio(j, s)
  BY DEF BelowRatio

\* What finalize accepts meets the ratio.
LEMMA FinalizedMeetsRatio ==
  ASSUME TypeOK, NEW j \in Jobs, NEW s \in Fanout, Finalized(j, s) = "succeeded"
  PROVE  ~BelowRatio(j, s)
<1>1. CASE Rows(j, s) = {}
  <2>1. Succeeded(j, s) = {}
    BY <1>1 DEF Rows, Succeeded
  <2>2. Cardinality(Rows(j, s)) = 0 /\ Cardinality(Succeeded(j, s)) = 0
    BY <1>1, <2>1, FS_EmptySet
  <2>3. QED  BY <2>2, EnvironmentAssumption DEF BelowRatio
<1>2. CASE Rows(j, s) # {}
  BY <1>2 DEF Finalized
<1>3. QED  BY <1>1, <1>2

\* A step leaves the units of a step alone, or neither creates one nor takes
\* one into or out of SUCCEEDED, or is a retry of it, or is the worker's work
\* on the step it executes.
UnitWrites(j, s) ==
    \/ Rows(j, s)' = Rows(j, s) /\ Succeeded(j, s)' = Succeeded(j, s)
    \/ Retried(j, s)'
    \/ FanoutStep /\ j = wjob /\ s = cur /\ wpc \in {"lookup", "mark", "run"}

LEMMA UnitFrame ==
  ASSUME TypeOK, [Next]_vars, NEW j \in Jobs, NEW s \in Fanout
  PROVE  UnitWrites(j, s)
<1> USE DEF TypeOK
<1>1. ASSUME unit' = unit PROVE UnitWrites(j, s)
  BY <1>1 DEF UnitWrites, Rows, Succeeded
<1>2. CASE RecoverStaleUnits
  <2>1. \A x \in Subjects : /\ unit'[<<j, s, x>>] = "none" <=> unit[<<j, s, x>>] = "none"
                            /\ unit'[<<j, s, x>>] = "succeeded" <=> unit[<<j, s, x>>] = "succeeded"
    BY <1>2 DEF RecoverStaleUnits, Units
  <2>2. QED  BY <2>1 DEF UnitWrites, Rows, Succeeded
<1>3. ASSUME NEW x \in Subjects, \/ LookupUnit(x) \/ MarkRunning(x) \/ StartUnit(x)
                                 \/ FinishUnit(x, "succeeded") \/ FinishUnit(x, "failed")
      PROVE  UnitWrites(j, s)
  <2>1. CASE j = wjob /\ s = cur
    BY <1>3, <2>1 DEF UnitWrites, FanoutStep, LookupUnit, MarkRunning, StartUnit, FinishUnit
  <2>2. CASE ~(j = wjob /\ s = cur)
    <3>1. \A y \in Subjects : unit'[<<j, s, y>>] = unit[<<j, s, y>>]
      BY <1>3, <2>2 DEF LookupUnit, MarkRunning, StartUnit, FinishUnit, Units, rows
    <3>2. QED  BY <3>1 DEF UnitWrites, Rows, Succeeded
  <2>3. QED  BY <2>1, <2>2
<1>4. ASSUME NEW r \in Requests, NEW u \in Units, RetryUnit(r, u) PROVE UnitWrites(j, s)
  <2>1. CASE u[1] = j /\ u[2] = s
    BY <1>4, <2>1 DEF RetryUnit, UnitWrites, Retried
  <2>2. CASE ~(u[1] = j /\ u[2] = s)
    <3>1. \A y \in Subjects : unit'[<<j, s, y>>] = unit[<<j, s, y>>]
      BY <1>4, <2>2 DEF RetryUnit, Units
    <3>2. QED  BY <3>1 DEF UnitWrites, Rows, Succeeded
  <2>3. QED  BY <2>1, <2>2
<1>5. ASSUME NEW r \in Requests, NEW i \in Jobs, NEW t \in Steps, RetryStep(r, i, t)
      PROVE  UnitWrites(j, s)
  <2>1. CASE i = j /\ t = s
    BY <1>5, <2>1 DEF RetryStep, UnitWrites, Retried
  <2>2. CASE ~(i = j /\ t = s)
    <3>1. \A y \in Subjects : unit'[<<j, s, y>>] = unit[<<j, s, y>>]
      BY <1>5, <2>2 DEF RetryStep, Units
    <3>2. QED  BY <3>1 DEF UnitWrites, Rows, Succeeded
  <2>3. QED  BY <2>1, <2>2
<1>6. CASE \/ RecoverStaleJobs \/ (\E i \in Jobs : ClaimOnePendingJob(i)) \/ NothingToClaim
           \/ StartRun \/ StartRaises \/ SnapshotSteps
  BY <1>1, <1>6 DEF RecoverStaleJobs, ClaimOnePendingJob, NothingToClaim, StartRun,
                    StartRaises, SnapshotSteps, rows
<1>7. CASE LoopStep
  BY <1>1, <1>7 DEF LoopStep, StartStep, AtomicWork, StepRaises, FailStep, FailJob,
                    FailJobAgain, SettleStep, CheckStep, RejectJob, CompleteJob, rows
<1>8. CASE SelectBatch \/ NothingToSelect \/ FinalizeStep
  BY <1>1, <1>8 DEF SelectBatch, NothingToSelect, FinalizeStep, rows
<1>9. CASE ProcessStep
  BY <1>1, <1>9 DEF ProcessStep, Crash, Restart, HeartbeatExpires, rows
<1>10. CASE (\E i \in Jobs : Submit(i)) \/ \E r \in Requests : RetryContinues(r)
  BY <1>1, <1>10 DEF Submit, RetryContinues, RetryResetStep, RetryReactivateJob
<1>11. CASE UNCHANGED vars  BY <1>1, <1>11 DEF vars
<1> HIDE DEF TypeOK
<1>12. QED
  BY <1>2, <1>3, <1>4, <1>5, <1>6, <1>7, <1>8, <1>9, <1>10, <1>11
     DEF Next, WorkerStep, QueueStep, FanoutStep, ApiStep

\* Where a step can become, or be about to become, SUCCEEDED.
LEMMA QualityInductive ==
  ASSUME TypeOK, Ownership, LoopProgress, Quality, [Next]_vars
  PROVE  Quality'
<1>1. ASSUME NEW j \in Jobs, NEW s \in Fanout, ~BelowRatio(j, s) \/ Retried(j, s)
      PROVE  \/ ~BelowRatio(j, s)' \/ Retried(j, s)'
             \/ FanoutStep /\ j = wjob /\ s = cur /\ wpc \in {"lookup", "mark", "run"}
  BY <1>1, UnitFrame, RatioFrame, RetriedKept DEF UnitWrites
<1>2. (wpc = "work" => cur \notin Fanout)'
  <2> USE DEF TypeOK, Quality, rows, plan
  <2>1. CASE QueueStep
    BY <2>1 DEF QueueStep, RecoverStaleUnits, RecoverStaleJobs, ClaimOnePendingJob,
                NothingToClaim, StartRun, StartRaises, SnapshotSteps
  <2>2. CASE LoopStep
    BY <2>2 DEF LoopStep, StartStep, AtomicWork, StepRaises, FailStep, FailJob, FailJobAgain,
                SettleStep, CheckStep, RejectJob, CompleteJob, ReleaseJob
  <2>3. CASE FanoutStep  BY <2>3, FanoutFrame DEF FanoutPcs
  <2>4. CASE ProcessStep
    BY <2>4 DEF ProcessStep, Crash, Restart, HeartbeatExpires
  <2>5. CASE ApiStep
    BY <2>5 DEF ApiStep, Submit, RetryUnit, RetryStep, RetryContinues, RetryResetStep,
                RetryReactivateJob
  <2>6. CASE UNCHANGED vars  BY <2>6 DEF vars
  <2>7. QED  BY <2>1, <2>2, <2>3, <2>4, <2>5, <2>6 DEF Next, WorkerStep
<1>3. (wpc = "settle" /\ cur \in Fanout /\ verdict = "succeeded" =>
          ~BelowRatio(wjob, cur) \/ Retried(wjob, cur))'
  <2> SUFFICES ASSUME wpc' = "settle", cur' \in Fanout, verdict' = "succeeded"
               PROVE  ~BelowRatio(wjob, cur)' \/ Retried(wjob, cur)'
    OBVIOUS
  <2>1. CASE FinalizeStep
    <3>1. Finalized(wjob, cur) = "succeeded" /\ UNCHANGED <<unit, wjob, cur>>
      BY <2>1 DEF FinalizeStep, rows
    <3>2. wjob \in Jobs
      BY <2>1 DEF FinalizeStep, TypeOK, OwningPcs, StepPcs, FanoutPcs
    <3>3. cur \in Fanout  BY <3>1
    <3>4. ~BelowRatio(wjob, cur)
      BY <3>1, <3>2, <3>3, FinalizedMeetsRatio
    <3>5. QED  BY <3>1, <3>4 DEF BelowRatio, Rows, Succeeded
  <2>2. CASE ~FinalizeStep
    <3>1. wpc = "settle" /\ UNCHANGED <<wjob, cur, verdict>>
      <4> USE DEF rows, plan, Quality
      <4>1. CASE QueueStep
        BY <4>1 DEF QueueStep, RecoverStaleUnits, RecoverStaleJobs, ClaimOnePendingJob,
                    NothingToClaim, StartRun, StartRaises, SnapshotSteps
      <4>2. CASE LoopStep
        BY <4>2 DEF LoopStep, StartStep, AtomicWork, StepRaises, FailStep, FailJob, FailJobAgain,
                    SettleStep, CheckStep, RejectJob, CompleteJob, ReleaseJob
      <4>3. CASE FanoutStep
        BY <4>3, <2>2 DEF FanoutStep, SelectBatch, NothingToSelect, LookupUnit, MarkRunning,
                          StartUnit, FinishUnit
      <4>4. CASE ProcessStep
        BY <4>4 DEF ProcessStep, Crash, Restart, HeartbeatExpires
      <4>5. CASE ApiStep
        BY <4>5 DEF ApiStep, Submit, RetryUnit, RetryStep, RetryContinues, RetryResetStep,
                    RetryReactivateJob
      <4>6. CASE UNCHANGED vars  BY <4>6 DEF vars
      <4>7. QED  BY <4>1, <4>2, <4>3, <4>4, <4>5, <4>6 DEF Next, WorkerStep
    <3>2. wjob \in Jobs
      BY <3>1 DEF TypeOK, OwningPcs, StepPcs
    <3>3. ~BelowRatio(wjob, cur) \/ Retried(wjob, cur)
      BY <3>1 DEF Quality
    <3>4. ~BelowRatio(wjob, cur)' \/ Retried(wjob, cur)'
      BY <3>1, <3>2, <3>3, <1>1
    <3>5. QED  BY <3>4
  <2>3. QED  BY <2>1, <2>2
<1>4. QualityGate'
  <2> SUFFICES ASSUME NEW j \in Jobs, NEW s \in Fanout, step'[<<j, s>>] = "succeeded"
               PROVE  ~BelowRatio(j, s)' \/ Retried(j, s)'
    BY DEF QualityGate
  <2>1. CASE step[<<j, s>>] = "succeeded"
    <3>1. ~BelowRatio(j, s) \/ Retried(j, s)
      BY <2>1 DEF Quality, QualityGate
    <3>2. ~(j = wjob /\ s = cur /\ wpc \in {"lookup", "mark", "run"})
      BY <2>1 DEF LoopProgress, StepPcs, FanoutPcs
    <3>3. QED  BY <3>1, <3>2, <1>1
  <2>2. CASE step[<<j, s>>] # "succeeded"
    <3>1. SettleStep /\ j = wjob /\ s = cur /\ verdict = "succeeded"
      <4> USE PlanAssumption DEF TypeOK
      <4>1. \A t \in Steps : ~StartStep(t)
        BY <2>2 DEF StartStep
      <4>2. ~FailStep  BY <2>2 DEF FailStep
      <4>3. \A r \in Requests : ~RetryResetStep(r)
        BY <2>2 DEF RetryResetStep
      <4>4. SettleStep
        BY <2>2, <4>1, <4>2, <4>3, StepFrame DEF StepWrites
      <4>5. QED  BY <4>4, <2>2 DEF SettleStep
    <3>2. ~BelowRatio(j, s) \/ Retried(j, s)
      BY <3>1 DEF Quality, SettleStep
    <3>3. QED  BY <3>1, <3>2, <1>1 DEF SettleStep
  <2>3. QED  BY <2>1, <2>2
<1>5. QED  BY <1>2, <1>3, <1>4 DEF Quality

LEMMA SafetyInvariant == Spec => []IInv
<1>1. Init => Quality
  BY PlanAssumption DEF Init, Quality, QualityGate
<1>2. Control /\ Quality /\ [Next]_vars => Quality'
  BY QualityInductive DEF Control
<1>3. Control /\ NoRework /\ Quality => IInv
  BY DEF Control, IInv
<1>4. QED  BY <1>1, <1>2, <1>3, ControlInvariant, NoReworkInvariant, PTL DEF Spec

\* A fan-out step that reads SUCCEEDED meets min_unit_success_ratio, in every
\* reachable state and whatever crashed in between, unless a retry touched it.
THEOREM QualityGateHolds == Spec => []QualityGate
<1>1. IInv => QualityGate  BY DEF IInv, Quality
<1>2. QED  BY <1>1, SafetyInvariant, PTL

-----------------------------------------------------------------------------
(* The refinement.                                                         *)

\* Away from run_worker_once's handler no second write of FAILED is to come.
LEMMA ClosingFrame ==
  ASSUME wpc # "raise_worker", wpc' # "raise_worker"
  PROVE  Closing' = Closing /\ Closing = {}
BY DEF Closing

\* A request that neither starts nor ends a job leaves that write to come.
LEMMA ClosingApiStep ==
  ASSUME UNCHANGED <<wpc, wjob>>,
         job[wjob] = "running" <=> job'[wjob] = "running"
  PROVE  Closing' = Closing
BY DEF Closing

\* Every step of the program is one of the queue or leaves the job table alone.
LEMMA QueueSimulation ==
  ASSUME TypeOK, Ownership, [Next]_vars
  PROVE  [Queue!Next]_(Queue!vars)
<1> USE DEF Queue!Next, Queue!vars, Queue!Jobs, Jobs
<1>1. CASE job' = job /\ Closing' = Closing  BY <1>1
<1>2. CASE RecoverStaleJobs
  <2>1. Closing' = Closing
    BY <1>2, ClosingFrame DEF RecoverStaleJobs
  <2>2. CASE \A j \in Jobs : job[j] # "running"
    BY <1>2, <2>1, <2>2 DEF RecoverStaleJobs, TypeOK
  <2>3. ASSUME NEW j \in Jobs, job[j] = "running" PROVE Queue!Requeue(j)
    BY <1>2, <2>1, <2>3 DEF RecoverStaleJobs, TypeOK, Ownership, AtMostOneRunning, Queue!Requeue
  <2>4. QED  BY <2>2, <2>3
<1>3. ASSUME NEW j \in Jobs, ClaimOnePendingJob(j) PROVE [Queue!Next]_(Queue!vars)
  <2>1. \A i \in Jobs : job[i] # "running"
    BY <1>3 DEF ClaimOnePendingJob, TypeOK, Ownership, OwningPcs, StepPcs, FanoutPcs, NoJob
  <2>2. Closing' = Closing /\ Closing = {}
    BY <1>3, ClosingFrame DEF ClaimOnePendingJob
  <2>3. Queue!Claim(j)
    BY <1>3, <2>1, <2>2 DEF ClaimOnePendingJob, Queue!Claim, Queue!Idle
  <2>4. QED  BY <2>3
<1>4. CASE StartRun
  <2>1. Closing' = Closing
    BY <1>4, ClosingFrame DEF StartRun
  <2>2. job' = job
    BY <1>4 DEF StartRun, TypeOK, Ownership, WorkerOwnsJob, OwningPcs
  <2>3. QED  BY <2>1, <2>2, <1>1
<1>5. CASE StartRaises
  <2>1. Closing = {} /\ Closing' = {} /\ job' = job
    BY <1>5 DEF StartRaises, Closing, rows, plan, Ownership, WorkerOwnsJob, OwningPcs
  <2>2. QED  BY <2>1, <1>1
<1>6. CASE FailJob
  <2>1. wjob \in Jobs /\ job[wjob] = "running"
    BY <1>6 DEF FailJob, TypeOK, Ownership, WorkerOwnsJob, OwningPcs, StepPcs
  <2>2. Closing' = {wjob}
    BY <1>6, <2>1 DEF FailJob, Closing, TypeOK, plan
  <2>3. Queue!Fail(wjob)
    BY <1>6, <2>1, <2>2 DEF FailJob, Queue!Fail
  <2>4. QED  BY <2>1, <2>3
<1>7. CASE FailJobAgain
  <2>1. wjob \in Jobs /\ wpc = "raise_worker"
    BY <1>7 DEF FailJobAgain, TypeOK
  <2>2. job' = [job EXCEPT ![wjob] = "failed"] /\ Closing' = {}
    BY <1>7 DEF FailJobAgain, ReleaseJob, Closing
  <2>3. CASE job[wjob] = "running"
    <3>1. Queue!Settle(wjob, "failed")
      BY <2>1, <2>2, <2>3 DEF Closing, Queue!Settle
    <3>2. QED  BY <2>1, <3>1
  <2>4. CASE job[wjob] # "running"
    <3>1. Queue!FailAgain(wjob)
      BY <2>1, <2>2, <2>4 DEF Closing, Queue!FailAgain
    <3>2. QED  BY <2>1, <3>1
  <2>5. QED  BY <2>3, <2>4
<1>8. ASSUME RejectJob \/ CompleteJob PROVE [Queue!Next]_(Queue!vars)
  <2>1. wjob \in Jobs /\ job[wjob] = "running"
    BY <1>8 DEF RejectJob, CompleteJob, TypeOK, Ownership, WorkerOwnsJob, OwningPcs, StepPcs
  <2>2. Closing' = Closing
    BY <1>8, ClosingFrame DEF RejectJob, CompleteJob, ReleaseJob
  <2>3. Queue!Settle(wjob, "failed") \/ Queue!Settle(wjob, "succeeded")
    BY <1>8, <2>1, <2>2 DEF RejectJob, CompleteJob, Queue!Settle
  <2>4. QED  BY <2>1, <2>3
<1>9. CASE Crash
  <2>1. Queue!Abandon
    BY <1>9 DEF Crash, Closing, Queue!Abandon, rows
  <2>2. QED  BY <2>1
<1>10. ASSUME NEW j \in Jobs, Submit(j) PROVE [Queue!Next]_(Queue!vars)
  <2>1. Closing' = Closing
    BY <1>10 DEF Submit, Closing, plan, TypeOK
  <2>2. Queue!Submit(j)
    BY <1>10, <2>1 DEF Submit, Queue!Submit
  <2>3. QED  BY <2>2
<1>11. ASSUME NEW r \in Requests, RetryReactivateJob(r)
       PROVE  [Queue!Next]_(Queue!vars)
  <2>1. req[r].job \in Jobs
    BY <1>11 DEF RetryReactivateJob, TypeOK, RequestState
  <2>2. job' = job \/ (job[req[r].job] = "failed"
                       /\ job' = [job EXCEPT ![req[r].job] = "pending"])
    BY <1>11 DEF RetryReactivateJob
  <2>3. Closing' = Closing
    BY <1>11, <2>1, <2>2 DEF RetryReactivateJob, Closing, plan, TypeOK
  <2>4. job' = job \/ Queue!Reactivate(req[r].job)
    BY <2>2, <2>3 DEF Queue!Reactivate
  <2>5. QED  BY <2>1, <2>3, <2>4
<1> HIDE DEF Jobs, Queue!Jobs, Queue!Next, Queue!vars
<1>12. QED
  <2>1. CASE QueueStep
    <3>1. CASE RecoverStaleUnits \/ NothingToClaim \/ SnapshotSteps
      BY <3>1, <1>1, ClosingFrame DEF RecoverStaleUnits, NothingToClaim, SnapshotSteps, rows
    <3>2. QED  BY <2>1, <3>1, <1>2, <1>3, <1>4, <1>5 DEF QueueStep
  <2>2. CASE LoopStep
    <3>1. ASSUME (\E s \in Steps : StartStep(s)) \/ AtomicWork \/ StepRaises
                 \/ FailStep \/ SettleStep \/ CheckStep
          PROVE  job' = job /\ Closing' = Closing
      BY <3>1, ClosingFrame
         DEF StartStep, AtomicWork, StepRaises, FailStep, SettleStep, CheckStep, rows
    <3>2. QED  BY <2>2, <3>1, <1>1, <1>6, <1>7, <1>8 DEF LoopStep
  <2>3. CASE FanoutStep
    <3>1. wpc # "raise_worker" /\ wpc' # "raise_worker" /\ job' = job
      BY <2>3, FanoutFrame DEF FanoutPcs
    <3>2. QED  BY <3>1, <1>1, ClosingFrame
  <2>4. CASE ProcessStep
    <3>1. CASE Restart \/ \E u \in Units : HeartbeatExpires(u)
      <4>1. job' = job /\ Closing' = Closing
        BY <3>1 DEF Restart, HeartbeatExpires, Closing, rows, plan
      <4>2. QED  BY <4>1, <1>1
    <3>2. QED  BY <2>4, <3>1, <1>9 DEF ProcessStep
  <2>5. CASE ApiStep
    <3>1. ASSUME NEW r \in Requests, RetryContinues(r) PROVE [Queue!Next]_(Queue!vars)
      <4>1. CASE RetryResetStep(r)
        BY <4>1, <1>1, ClosingApiStep DEF RetryResetStep, plan
      <4>2. QED  BY <3>1, <4>1, <1>11 DEF RetryContinues
    <3>2. ASSUME NEW r \in Requests, NEW u \in Units, RetryUnit(r, u)
          PROVE  job' = job /\ Closing' = Closing
      BY <3>2, ClosingApiStep DEF RetryUnit, plan
    <3>3. ASSUME NEW r \in Requests, NEW j \in Jobs, NEW s \in Steps, RetryStep(r, j, s)
          PROVE  job' = job /\ Closing' = Closing
      BY <3>3, ClosingApiStep DEF RetryStep, plan
    <3>4. QED  BY <2>5, <3>1, <3>2, <3>3, <1>1, <1>10 DEF ApiStep
  <2>6. CASE UNCHANGED vars
    BY <2>6, <1>1, ClosingApiStep DEF vars, plan
  <2>7. QED  BY <2>1, <2>2, <2>3, <2>4, <2>5, <2>6 DEF Next, WorkerStep

\* The job table behaves as the abstract queue: served in order, one job at a
\* time, settled by its executor only; and only the second write of FAILED, on
\* the way out of an exception, fails a job that is not RUNNING.
THEOREM JobsImplementQueue == Spec => ImplementsQueue
<1>1. Init => Queue!Init
  BY DEF Init, Queue!Init, Queue!Jobs, Jobs, Closing
<1>2. Control /\ [Next]_vars => [Queue!Next]_(Queue!vars)
  BY QueueSimulation DEF Control
<1>3. QED  BY <1>1, <1>2, ControlInvariant, PTL DEF Spec, ImplementsQueue, Queue!Spec
=============================================================================
