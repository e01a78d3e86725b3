-------------------------- MODULE IndexJobsRecovery --------------------------
(* What a crash of the worker leaves behind in IndexJobs, and what becomes *)
(* of it: RUNNING steps and units, the levels of a fan-out step and the    *)
(* status of the job, for every number of jobs, steps, subjects, crashes   *)
(* and retry requests.                                                     *)
EXTENDS IndexJobsProofs

(* The inductive invariant.  Control is in IndexJobsProofs.                *)

\* A retry of an earlier step may have the resumed job fail before this one.
Excused(j, s) == \E t \in Steps : t < s /\ Retried(j, t)

\* Where a step can be RUNNING: in a job that is not over, where the loop is or
\* ahead of it, every step before it done.
RunningSteps ==
    /\ \A j \in Jobs, s \in Steps : step[<<j, s>>] = "running" =>
          \A t \in Steps : t < s => Done(j, t)
    /\ \A j \in Jobs, s \in Steps : step[<<j, s>>] = "running" /\ ~Excused(j, s) =>
          job[j] \notin {"succeeded", "failed"}
    /\ wpc = "next" => \A s \in Steps \ todo : step[<<wjob, s>>] # "running"
    /\ wpc \in StepPcs => \A s \in Steps \ (todo \cup {cur}) : step[<<wjob, s>>] # "running"
    /\ wpc = "settle" => verdict # "running"
    /\ wpc = "check" => step[<<wjob, cur>>] # "running"
    /\ wpc \in {"reject", "raise_job"} => step[<<wjob, cur>>] \notin {"running", "succeeded"}
    /\ wpc = "raise_worker" =>
          \A s \in Steps : step[<<wjob, s>>] = "running" => Excused(wjob, s)

\* Where a unit can be RUNNING, when the worker restarts on stale heartbeats
\* only: orphaned by a crash and not recovered yet, or in the worker's hands.
RunningUnits ==
    \A u \in Units : unit[u] = "running" =>
       \/ wpc = "down"
       \/ wpc = "idle" /\ fresh = {}
       \/ /\ wpc \in {"mark", "run"} /\ u[1] = wjob /\ u[2] = cur
          /\ u[3] \in waiting \cup active

Terminal(j, s, x) == unit[<<j, s, x>>] \in {"succeeded", "failed"} \/ Retried(j, s)
InFlight == batch \cup held \cup waiting \cup active

\* The batch is of one level, and what is deeper is over.
BatchLevel ==
    wpc \in {"lookup", "mark", "run"} =>
       /\ InFlight \subseteq SubjectsOf[cur]
       /\ \A x, y \in InFlight : Level[cur][x] = Level[cur][y]
       /\ \A x \in InFlight : \A y \in SubjectsOf[cur] :
             Level[cur][y] > Level[cur][x] => Terminal(wjob, cur, y)

\* The rows of a step are those its strategy enumerates, and only a subject that
\* may fail has.
KnownUnits ==
    \A j \in Jobs, s \in Fanout, x \in Subjects :
       /\ unit[<<j, s, x>>] # "none" => x \in SubjectsOf[s]
       /\ unit[<<j, s, x>>] = "failed" => x \in FailingSubjects

\* A job that has failed, or is about to, has a cause.
Causes ==
    /\ \A j \in Jobs : job[j] = "failed" => HasCause(j)
    /\ wpc \in {"raise", "raise_job"} => cur \in RaisingSteps
    /\ wpc = "raise_job" => step[<<wjob, cur>>] = "failed"
    /\ wpc = "finalize" =>
          \A x \in SubjectsOf[cur] :
             unit[<<wjob, cur, x>>] \notin {"none", "pending"} \/ Retried(wjob, cur)
    /\ wpc = "settle" => verdict = "succeeded" \/ HasCause(wjob)
    /\ wpc = "check" => step[<<wjob, cur>>] = "succeeded" \/ HasCause(wjob)
    /\ wpc \in {"reject", "raise_worker"} => HasCause(wjob)

-----------------------------------------------------------------------------
(* RUNNING steps.                                                          *)

LEMMA ExcusedKept ==
  ASSUME TypeOK, [Next]_vars, NEW j, NEW s, Excused(j, s)
  PROVE  Excused(j, s)'
  BY RetriedKept DEF Excused

\* Steps that write neither rows of jobs and steps nor the loop's memory.
LEMMA RunningStepsFrame ==
  ASSUME Control, RunningSteps, [Next]_vars,
         UNCHANGED <<job, step, wpc, wjob, todo, cur, verdict>>
  PROVE  RunningSteps'
<1>1. \A j \in Jobs, s \in Steps : Done(j, s) => Done(j, s)'
  BY DoneKept DEF Control
<1>2. \A j \in Jobs, s \in Steps : Excused(j, s) => Excused(j, s)'
  BY ExcusedKept DEF Control
<1>3. wpc = "raise_worker" => wjob \in Jobs
  BY DEF Control, TypeOK, OwningPcs
<1>4. QED  BY <1>1, <1>2, <1>3 DEF RunningSteps

LEMMA RunningStepsQueueStep ==
  ASSUME ~StartMayRaise, Control, RunningSteps, QueueStep
  PROVE  RunningSteps'
<1>1. \A j \in Jobs, s \in Steps : Done(j, s) => Done(j, s)'
  BY DoneKept DEF Next, WorkerStep, Control
<1>2. \A j \in Jobs, s \in Steps : Excused(j, s) => Excused(j, s)'
  BY ExcusedKept DEF Next, WorkerStep, Control
<1> USE DEF Control, TypeOK, RunningSteps, StepPcs, FanoutPcs, rows, plan
<1>3. CASE RecoverStaleUnits  BY <1>1, <1>2, <1>3 DEF RecoverStaleUnits
<1>4. CASE RecoverStaleJobs  BY <1>1, <1>2, <1>4 DEF RecoverStaleJobs
<1>5. ASSUME NEW j \in Jobs, ClaimOnePendingJob(j) PROVE RunningSteps'
  BY <1>1, <1>2, <1>5 DEF ClaimOnePendingJob
<1>6. CASE NothingToClaim  BY <1>1, <1>2, <1>6 DEF NothingToClaim
<1>7. CASE StartRun  BY <1>1, <1>2, <1>7 DEF StartRun
<1>8. ~StartRaises  BY DEF StartRaises
<1>9. CASE SnapshotSteps  BY <1>1, <1>2, <1>9 DEF SnapshotSteps, OwningPcs
<1> HIDE DEF Control, TypeOK, RunningSteps
<1>10. QED  BY <1>3, <1>4, <1>5, <1>6, <1>7, <1>8, <1>9 DEF QueueStep

LEMMA RunningStepsLoopStep ==
  ASSUME Control, RunningSteps, LoopStep
  PROVE  RunningSteps'
<1>1. \A j \in Jobs, s \in Steps : Done(j, s) => Done(j, s)'
  BY DoneKept DEF Next, WorkerStep, Control
<1>2. \A j \in Jobs, s \in Steps : Excused(j, s) => Excused(j, s)'
  BY ExcusedKept DEF Next, WorkerStep, Control
<1>3. wjob \in Jobs
  BY DEF Control, TypeOK, LoopStep, StartStep, AtomicWork, StepRaises, FailStep, FailJob,
         FailJobAgain, SettleStep, CheckStep, RejectJob, CompleteJob, OwningPcs, StepPcs, FanoutPcs
\* A job is given up at a step that is not SUCCEEDED: a RUNNING step is ahead of it.
<1>4. ASSUME wpc \in {"reject", "raise_job"}, NEW s \in Steps, step[<<wjob, s>>] = "running"
      PROVE  Excused(wjob, s)
  <2>1. wpc \in StepPcs /\ cur \in Steps
    BY <1>4 DEF StepPcs, Control, TypeOK
  <2>2. step[<<wjob, cur>>] \notin {"running", "succeeded"}
    BY <1>4 DEF RunningSteps
  <2>3. s \in todo
    BY <1>3, <1>4, <2>1, <2>2 DEF RunningSteps
  <2>4. cur < s
    BY <2>1, <2>3 DEF Control, LoopProgress
  <2>5. Done(wjob, cur)
    BY <1>3, <1>4, <2>1, <2>4 DEF RunningSteps
  <2>6. QED  BY <2>1, <2>2, <2>4, <2>5 DEF Done, Excused
<1> USE DEF Control, TypeOK, RunningSteps, StepPcs, FanoutPcs, rows, plan
<1>5. ASSUME NEW s \in Steps, StartStep(s) PROVE RunningSteps'
  <2>1. job[wjob] = "running"
    BY <1>5 DEF StartStep, Ownership, WorkerOwnsJob, OwningPcs
  <2>2. \A t \in Steps : t < s => Done(wjob, t)
    BY <1>5 DEF StartStep, LoopProgress, Steps
  <2>3. \A j \in Jobs, t \in Steps :
          step'[<<j, t>>] = IF j = wjob /\ t = s THEN "running" ELSE step[<<j, t>>]
    BY <1>5 DEF StartStep
  <2>4. wpc' \in {"select", "work"} /\ wjob' = wjob /\ cur' = s /\ todo' = todo \ {s}
        /\ job' = job /\ wpc = "next"
    BY <1>5 DEF StartStep
  <2> HIDE DEF Control, TypeOK, Steps, RunningSteps
  <2>5. (\A j \in Jobs, t \in Steps : step[<<j, t>>] = "running" =>
            \A p \in Steps : p < t => Done(j, p))'
    BY <1>1, <2>2, <2>3 DEF RunningSteps
  <2>6. (\A j \in Jobs, t \in Steps : step[<<j, t>>] = "running" /\ ~Excused(j, t) =>
            job[j] \notin {"succeeded", "failed"})'
    BY <1>2, <2>1, <2>3, <2>4 DEF RunningSteps
  <2>7. (\A t \in Steps \ (todo \cup {cur}) : step[<<wjob, t>>] # "running")'
    BY <1>3, <2>3, <2>4 DEF RunningSteps
  <2>8. QED  BY <2>4, <2>5, <2>6, <2>7 DEF RunningSteps
<1>6. CASE AtomicWork  BY <1>1, <1>2, <1>6 DEF AtomicWork
<1>7. CASE StepRaises  BY <1>1, <1>2, <1>7 DEF StepRaises
<1>8. CASE FailStep
  <2>1. \A j \in Jobs, t \in Steps :
          step'[<<j, t>>] = IF j = wjob /\ t = cur THEN "failed" ELSE step[<<j, t>>]
    BY <1>8 DEF FailStep
  <2>2. wpc' = "raise_job" /\ wpc = "raise" /\ UNCHANGED <<wjob, cur, todo, job>>
    BY <1>8 DEF FailStep
  <2>3. QED  BY <1>1, <1>2, <1>3, <2>1, <2>2
<1>9. CASE FailJob
  <2>1. wpc = "raise_job" /\ wpc' = "raise_worker" /\ UNCHANGED <<step, wjob, cur, todo>>
        /\ job' = [job EXCEPT ![wjob] = "failed"]
    BY <1>9 DEF FailJob
  <2>2. QED  BY <1>1, <1>2, <1>3, <1>4, <2>1
<1>10. CASE FailJobAgain
  <2>1. wpc = "raise_worker" /\ wpc' = "idle" /\ UNCHANGED step
        /\ job' = [job EXCEPT ![wjob] = "failed"]
    BY <1>10 DEF FailJobAgain, ReleaseJob
  <2>2. QED  BY <1>1, <1>2, <1>3, <2>1
<1>11. CASE SettleStep
  <2>1. \A j \in Jobs, t \in Steps :
          step'[<<j, t>>] = IF j = wjob /\ t = cur THEN verdict ELSE step[<<j, t>>]
    BY <1>11 DEF SettleStep
  <2>2. wpc' = "check" /\ wpc = "settle" /\ UNCHANGED <<wjob, cur, todo, job>>
    BY <1>11 DEF SettleStep
  <2>3. QED  BY <1>1, <1>2, <1>3, <2>1, <2>2
<1>12. CASE CheckStep
  <2>1. wpc = "check" /\ UNCHANGED <<step, wjob, cur, todo, job>>
        /\ wpc' = IF step[<<wjob, cur>>] = "succeeded" THEN "next" ELSE "reject"
    BY <1>12 DEF CheckStep
  <2>2. QED  BY <1>1, <1>2, <1>3, <2>1
<1>13. CASE RejectJob
  <2>1. wpc = "reject" /\ wpc' = "idle" /\ UNCHANGED step
        /\ job' = [job EXCEPT ![wjob] = "failed"]
    BY <1>13 DEF RejectJob, ReleaseJob
  <2>2. QED  BY <1>1, <1>2, <1>3, <1>4, <2>1
<1>14. CASE CompleteJob
  <2>1. wpc = "next" /\ todo = {} /\ wpc' = "idle" /\ UNCHANGED step
        /\ job' = [job EXCEPT ![wjob] = "succeeded"]
    BY <1>14 DEF CompleteJob, ReleaseJob
  <2>2. QED  BY <1>1, <1>2, <1>3, <2>1
<1> HIDE DEF Control, TypeOK, RunningSteps
<1>15. QED
  BY <1>5, <1>6, <1>7, <1>8, <1>9, <1>10, <1>11, <1>12, <1>13, <1>14 DEF LoopStep

LEMMA RunningStepsFanoutStep ==
  ASSUME Control, RunningSteps, FanoutStep
  PROVE  RunningSteps'
<1>1. \A j \in Jobs, s \in Steps : Done(j, s) => Done(j, s)'
  BY DoneKept DEF Next, WorkerStep, Control
<1>2. \A j \in Jobs, s \in Steps : Excused(j, s) => Excused(j, s)'
  BY ExcusedKept DEF Next, WorkerStep, Control
<1>3. wpc \in FanoutPcs /\ wpc' \in FanoutPcs \cup {"settle"}
      /\ UNCHANGED <<job, step, wjob, todo, cur>>
  BY FanoutFrame DEF Control
<1>4. wpc' = "settle" => verdict' # "running"
  <2>1. CASE FinalizeStep  BY <2>1 DEF FinalizeStep, Finalized
  <2>2. CASE ~FinalizeStep
    BY <2>2 DEF FanoutStep, SelectBatch, NothingToSelect, LookupUnit, MarkRunning, StartUnit,
                FinishUnit
  <2>3. QED  BY <2>1, <2>2
<1>5. QED  BY <1>1, <1>2, <1>3, <1>4 DEF RunningSteps, StepPcs, FanoutPcs

LEMMA RunningStepsProcessStep ==
  ASSUME Control, RunningSteps, ProcessStep
  PROVE  RunningSteps'
<1>1. \A j \in Jobs, s \in Steps : Done(j, s) => Done(j, s)'
  BY DoneKept DEF Next, Control
<1>2. \A j \in Jobs, s \in Steps : Excused(j, s) => Excused(j, s)'
  BY ExcusedKept DEF Next, Control
<1> USE DEF RunningSteps, StepPcs, FanoutPcs, rows, plan
<1>3. CASE Crash  BY <1>1, <1>2, <1>3 DEF Crash
<1>4. CASE Restart  BY <1>1, <1>2, <1>4 DEF Restart
<1>5. ASSUME NEW u \in Units, HeartbeatExpires(u) PROVE RunningSteps'
  BY <1>5, RunningStepsFrame DEF HeartbeatExpires, Next, ProcessStep
<1> HIDE DEF RunningSteps
<1>6. QED  BY <1>3, <1>4, <1>5 DEF ProcessStep

LEMMA RunningStepsApiStep ==
  ASSUME Control, RunningSteps, ApiStep
  PROVE  RunningSteps'
<1>1. \A j \in Jobs, s \in Steps : Done(j, s) => Done(j, s)'
  BY DoneKept DEF Next, Control
<1>2. \A j \in Jobs, s \in Steps : Excused(j, s) => Excused(j, s)'
  BY ExcusedKept DEF Next, Control
<1>3. wjob \in Jobs \/ wpc \notin StepPcs \cup {"next", "raise_worker"}
  BY DEF Control, TypeOK, OwningPcs
<1> USE DEF RunningSteps, StepPcs, FanoutPcs, rows, plan
<1>4. ASSUME NEW j \in Jobs, Submit(j) PROVE RunningSteps'
  BY <1>1, <1>2, <1>4 DEF Submit, Control, TypeOK
<1>5. ASSUME NEW r \in Requests, NEW u \in Units, RetryUnit(r, u) PROVE RunningSteps'
  BY <1>5, RunningStepsFrame DEF RetryUnit, Next, ApiStep
<1>6. ASSUME NEW r \in Requests, NEW j \in Jobs, NEW s \in Steps, RetryStep(r, j, s)
      PROVE RunningSteps'
  BY <1>6, RunningStepsFrame DEF RetryStep, Next, ApiStep
<1>7. ASSUME NEW r \in Requests, RetryResetStep(r) PROVE RunningSteps'
  <2>1. \A s \in Jobs \X Steps :
          \/ step'[s] = step[s]
          \/ step[s] = "succeeded" /\ step'[s] = "partially_failed"
    BY <1>7 DEF RetryResetStep, Control, TypeOK
  <2>2. UNCHANGED <<job, wpc, wjob, todo, cur, verdict>>
    BY <1>7 DEF RetryResetStep
  <2>3. wpc \in StepPcs => cur \in Steps
    BY DEF Control, TypeOK
  <2>4. QED  BY <1>1, <1>2, <1>3, <2>1, <2>2, <2>3
<1>8. ASSUME NEW r \in Requests, RetryReactivateJob(r) PROVE RunningSteps'
  BY <1>1, <1>2, <1>8 DEF RetryReactivateJob, Control, TypeOK
<1> HIDE DEF RunningSteps
<1>9. QED  BY <1>4, <1>5, <1>6, <1>7, <1>8 DEF ApiStep, RetryContinues

LEMMA RunningStepsInductive ==
  ASSUME ~StartMayRaise, Control, RunningSteps, [Next]_vars
  PROVE  RunningSteps'
<1>1. CASE UNCHANGED vars
  BY <1>1 DEF vars, plan, RunningSteps, Done, Excused, Retried
<1>2. QED
  BY <1>1, RunningStepsQueueStep, RunningStepsLoopStep, RunningStepsFanoutStep,
     RunningStepsProcessStep, RunningStepsApiStep DEF Next, WorkerStep

\* No job ends with a step still RUNNING, over any number of crashes and
\* resumes, unless a retry has reopened a step before it.
THEOREM NoStrandedStepHolds == Spec => []NoStrandedStep
<1>1. CASE StartMayRaise
  BY <1>1, PTL DEF NoStrandedStep
<1>2. CASE ~StartMayRaise
  <2>1. Init => RunningSteps
    BY DEF Init, RunningSteps, StepPcs, FanoutPcs, Jobs
  <2>2. Control /\ RunningSteps /\ [Next]_vars => RunningSteps'
    BY <1>2, RunningStepsInductive
  <2>3. RunningSteps => NoStrandedStep
    BY DEF RunningSteps, NoStrandedStep, Excused
  <2>4. QED  BY <2>1, <2>2, <2>3, ControlInvariant, PTL DEF Spec
<1>3. QED  BY <1>1, <1>2

-----------------------------------------------------------------------------
(* RUNNING units.                                                          *)

LEMMA RunningUnitsInductive ==
  ASSUME ~PromptRestart, TypeOK, RunningUnits, [Next]_vars
  PROVE  RunningUnits'
<1> USE DEF TypeOK, RunningUnits, rows, plan, fanout
<1>1. CASE QueueStep
  BY <1>1 DEF QueueStep, RecoverStaleUnits, RecoverStaleJobs, ClaimOnePendingJob,
              NothingToClaim, StartRun, StartRaises, SnapshotSteps
<1>2. CASE LoopStep
  BY <1>2 DEF LoopStep, StartStep, AtomicWork, StepRaises, FailStep, FailJob, FailJobAgain,
              SettleStep, CheckStep, RejectJob, CompleteJob, ReleaseJob
<1>3. CASE SelectBatch \/ NothingToSelect \/ FinalizeStep
  BY <1>3 DEF SelectBatch, NothingToSelect, FinalizeStep
<1>4. ASSUME NEW x \in Subjects, LookupUnit(x) PROVE RunningUnits'
  BY <1>4 DEF LookupUnit
<1>5. ASSUME NEW x \in Subjects, MarkRunning(x) PROVE RunningUnits'
  BY <1>5 DEF MarkRunning, Units
<1>6. ASSUME NEW x \in Subjects, StartUnit(x) PROVE RunningUnits'
  BY <1>6 DEF StartUnit
<1>7. ASSUME NEW x \in Subjects, NEW status \in {"succeeded", "failed"}, FinishUnit(x, status)
      PROVE  RunningUnits'
  <2>1. ASSUME NEW u \in Units, unit'[u] = "running"
        PROVE  /\ u[1] = wjob /\ u[2] = cur /\ u[3] \in waiting \cup (active \ {x})
    <3>1. u # <<wjob, cur, x>> /\ unit[u] = "running" /\ wpc = "run"
      BY <1>7, <2>1 DEF FinishUnit
    <3>2. u[1] = wjob /\ u[2] = cur /\ u[3] \in waiting \cup active
      BY <3>1
    <3>3. u = <<u[1], u[2], u[3]>>
      BY DEF Units
    <3>4. QED  BY <3>1, <3>2, <3>3
  <2>2. UNCHANGED <<wjob, cur, waiting>> /\ active' = active \ {x}
        /\ wpc' = IF active' \cup waiting = {} THEN "select" ELSE "run"
    BY <1>7 DEF FinishUnit
  <2>3. QED  BY <2>1, <2>2
<1>8. CASE ProcessStep
  BY <1>8 DEF ProcessStep, Crash, Restart, HeartbeatExpires
<1>9. ASSUME NEW r \in Requests, NEW u \in Units, RetryUnit(r, u) PROVE RunningUnits'
  BY <1>9 DEF RetryUnit
<1>10. ASSUME NEW r \in Requests, NEW j \in Jobs, NEW s \in Steps, RetryStep(r, j, s)
       PROVE  RunningUnits'
  BY <1>10 DEF RetryStep
<1>11. CASE (\E j \in Jobs : Submit(j)) \/ \E r \in Requests : RetryContinues(r)
  BY <1>11 DEF Submit, RetryContinues, RetryResetStep, RetryReactivateJob
<1>12. CASE UNCHANGED vars  BY <1>12 DEF vars
<1> HIDE DEF TypeOK, RunningUnits
<1>13. QED
  BY <1>1, <1>2, <1>3, <1>4, <1>5, <1>6, <1>7, <1>8, <1>9, <1>10, <1>11, <1>12
     DEF Next, WorkerStep, FanoutStep, ApiStep

\* How one step can change a unit that has a row: a worker's write on the step
\* it executes, the recovery of an orphan, or a retry of its step.
UnitSteps(j, s, x) ==
    \/ unit'[<<j, s, x>>] = unit[<<j, s, x>>]
    \/ unit[<<j, s, x>>] = "running" /\ unit'[<<j, s, x>>] = "pending" /\ wpc = "idle"
    \/ unit[<<j, s, x>>] # "none" /\ unit'[<<j, s, x>>] = "pending" /\ Retried(j, s)'
    \/ /\ j = wjob /\ s = cur /\ wpc \in {"lookup", "mark", "run"}
       /\ \/ LookupUnit(x) /\ unit[<<j, s, x>>] = "none" /\ unit'[<<j, s, x>>] = "pending"
          \/ MarkRunning(x) /\ unit'[<<j, s, x>>] = "running"
          \/ FinishUnit(x, "succeeded") /\ unit'[<<j, s, x>>] = "succeeded"
          \/ FinishUnit(x, "failed") /\ unit'[<<j, s, x>>] = "failed"

LEMMA UnitStepsFrame ==
  ASSUME TypeOK, [Next]_vars, NEW j \in Jobs, NEW s \in Fanout, NEW x \in Subjects
  PROVE  UnitSteps(j, s, x)
<1> USE DEF TypeOK, UnitSteps
<1>1. ASSUME unit' = unit PROVE UnitSteps(j, s, x)
  BY <1>1
<1>2. CASE RecoverStaleUnits
  BY <1>2 DEF RecoverStaleUnits, Units
<1>3. ASSUME NEW y \in Subjects, LookupUnit(y) PROVE UnitSteps(j, s, x)
  BY <1>3 DEF LookupUnit, Units
<1>4. ASSUME NEW y \in Subjects, MarkRunning(y) PROVE UnitSteps(j, s, x)
  BY <1>4 DEF MarkRunning, Units
<1>5. ASSUME NEW y \in Subjects, StartUnit(y) PROVE UnitSteps(j, s, x)
  BY <1>1, <1>5 DEF StartUnit, rows
<1>6. ASSUME NEW y \in Subjects, FinishUnit(y, "succeeded") PROVE UnitSteps(j, s, x)
  BY <1>6 DEF FinishUnit, Units
<1>7. ASSUME NEW y \in Subjects, FinishUnit(y, "failed") PROVE UnitSteps(j, s, x)
  BY <1>7 DEF FinishUnit, Units
<1>8. ASSUME NEW r \in Requests, NEW u \in Units, RetryUnit(r, u) PROVE UnitSteps(j, s, x)
  <2>1. CASE u = <<j, s, x>>
    <3>1. Retried(j, s)'
      BY <1>8, <2>1 DEF RetryUnit, Retried
    <3>2. QED  BY <1>8, <2>1, <3>1 DEF RetryUnit
  <2>2. CASE u # <<j, s, x>>
    BY <1>8, <2>2 DEF RetryUnit, Units
  <2>3. QED  BY <2>1, <2>2
<1>9. ASSUME NEW r \in Requests, NEW i \in Jobs, NEW t \in Steps, RetryStep(r, i, t)
      PROVE  UnitSteps(j, s, x)
  <2>1. CASE i = j /\ t = s
    <3>1. Retried(j, s)'
      BY <1>9, <2>1 DEF RetryStep, Retried
    <3>2. QED  BY <1>9, <2>1, <3>1 DEF RetryStep, Units
  <2>2. CASE ~(i = j /\ t = s)
    BY <1>9, <2>2 DEF RetryStep, Units
  <2>3. QED  BY <2>1, <2>2
<1>10. CASE QueueStep
  BY <1>1, <1>2, <1>10 DEF QueueStep, RecoverStaleJobs, ClaimOnePendingJob, NothingToClaim,
                           StartRun, StartRaises, SnapshotSteps, rows
<1>11. CASE LoopStep
  BY <1>1, <1>11 DEF LoopStep, StartStep, AtomicWork, StepRaises, FailStep, FailJob,
                     FailJobAgain, SettleStep, CheckStep, RejectJob, CompleteJob, rows
<1>12. CASE SelectBatch \/ NothingToSelect \/ FinalizeStep
  BY <1>1, <1>12 DEF SelectBatch, NothingToSelect, FinalizeStep, rows
<1>13. CASE ProcessStep
  BY <1>1, <1>13 DEF ProcessStep, Crash, Restart, HeartbeatExpires, rows
<1>14. CASE (\E i \in Jobs : Submit(i)) \/ \E r \in Requests : RetryContinues(r)
  BY <1>1, <1>14 DEF Submit, RetryContinues, RetryResetStep, RetryReactivateJob
<1>15. CASE UNCHANGED vars  BY <1>1, <1>15 DEF vars
<1> HIDE DEF TypeOK, UnitSteps
<1>16. QED
  BY <1>3, <1>4, <1>5, <1>6, <1>7, <1>8, <1>9, <1>10, <1>11, <1>12, <1>13, <1>14, <1>15
     DEF Next, WorkerStep, FanoutStep, ApiStep

-----------------------------------------------------------------------------
(* Levels.                                                                 *)

\* What is over stays so: the worker takes up no unit deeper than its batch.
LEMMA TerminalKept ==
  ASSUME TypeOK, [Next]_vars, NEW j \in Jobs, NEW s \in Fanout, NEW x \in Subjects,
         Terminal(j, s, x), ~MarkRunning(x) \/ j # wjob \/ s # cur
  PROVE  Terminal(j, s, x)'
<1>1. CASE Retried(j, s)  BY <1>1, RetriedKept DEF Terminal
<1>2. CASE unit[<<j, s, x>>] \in {"succeeded", "failed"}
  BY <1>2, UnitStepsFrame DEF UnitSteps, Terminal
<1>3. QED  BY <1>1, <1>2 DEF Terminal

LEMMA KnownUnitsInductive ==
  ASSUME TypeOK, BatchLevel, KnownUnits, [Next]_vars
  PROVE  KnownUnits'
<1> SUFFICES ASSUME NEW j \in Jobs, NEW s \in Fanout, NEW x \in Subjects
             PROVE  /\ unit'[<<j, s, x>>] # "none" => x \in SubjectsOf[s]
                    /\ unit'[<<j, s, x>>] = "failed" => x \in FailingSubjects
  BY DEF KnownUnits
<1>1. UnitSteps(j, s, x)  BY UnitStepsFrame
<1>2. CASE LookupUnit(x) /\ j = wjob /\ s = cur
  BY <1>1, <1>2 DEF KnownUnits, LookupUnit, BatchLevel, InFlight, UnitSteps
<1>3. CASE MarkRunning(x) /\ j = wjob /\ s = cur
  BY <1>1, <1>3 DEF KnownUnits, MarkRunning, BatchLevel, InFlight, UnitSteps
<1>4. CASE FinishUnit(x, "succeeded") /\ j = wjob /\ s = cur
  BY <1>1, <1>4 DEF KnownUnits, FinishUnit, BatchLevel, InFlight, UnitSteps
<1>5. CASE FinishUnit(x, "failed") /\ j = wjob /\ s = cur
  BY <1>1, <1>5 DEF KnownUnits, FinishUnit, BatchLevel, InFlight, UnitSteps
<1>6. QED  BY <1>1, <1>2, <1>3, <1>4, <1>5 DEF KnownUnits, UnitSteps

\* The subjects in the worker's hands come from the selection.
LEMMA InFlightShrinks ==
  ASSUME TypeOK, [Next]_vars, wpc' \in {"lookup", "mark", "run"}, ~SelectBatch
  PROVE  /\ wpc \in {"lookup", "mark", "run"} /\ UNCHANGED <<wjob, cur>>
         /\ InFlight' \subseteq InFlight
<1> USE DEF TypeOK, InFlight, rows, plan, fanout
<1>1. CASE QueueStep
  BY <1>1 DEF QueueStep, RecoverStaleUnits, RecoverStaleJobs, ClaimOnePendingJob,
              NothingToClaim, StartRun, StartRaises, SnapshotSteps
<1>2. CASE LoopStep
  BY <1>2 DEF LoopStep, StartStep, AtomicWork, StepRaises, FailStep, FailJob, FailJobAgain,
              SettleStep, CheckStep, RejectJob, CompleteJob, ReleaseJob
<1>3. CASE FanoutStep
  BY <1>3 DEF FanoutStep, NothingToSelect, FinalizeStep, LookupUnit, MarkRunning, StartUnit,
              FinishUnit
<1>4. CASE ProcessStep
  BY <1>4 DEF ProcessStep, Crash, Restart, HeartbeatExpires
<1>5. CASE ApiStep
  BY <1>5 DEF ApiStep, Submit, RetryUnit, RetryStep, RetryContinues, RetryResetStep,
              RetryReactivateJob
<1>6. CASE UNCHANGED vars  BY <1>6 DEF vars
<1>7. QED  BY <1>1, <1>2, <1>3, <1>4, <1>5, <1>6 DEF Next, WorkerStep

LEMMA BatchLevelInductive ==
  ASSUME TypeOK, RunningUnits, BatchLevel, [Next]_vars
  PROVE  BatchLevel'
<1> SUFFICES ASSUME wpc' \in {"lookup", "mark", "run"}
             PROVE  /\ InFlight' \subseteq SubjectsOf[cur']
                    /\ \A x, y \in InFlight' : Level[cur'][x] = Level[cur'][y]
                    /\ \A x \in InFlight' : \A y \in SubjectsOf[cur'] :
                          Level[cur'][y] > Level[cur'][x] => Terminal(wjob, cur, y)'
  BY DEF BatchLevel
<1>1. CASE SelectBatch
  <2>1. wpc = "select" /\ UNCHANGED <<unit, wjob, cur, req>>
    BY <1>1 DEF SelectBatch, rows, plan
  <2>2. InFlight' = NextUnitsBatch(wjob, cur)
    BY <1>1, <2>1 DEF SelectBatch, InFlight, TypeOK
  <2>3. cur \in Fanout /\ wjob \in Jobs
    BY <2>1 DEF TypeOK, FanoutPcs, StepPcs, OwningPcs
  <2>4. Level[cur] \in [Subjects -> Nat] /\ SubjectsOf[cur] \subseteq Subjects
    BY <2>3, PlanAssumption
  <2>5. ASSUME NEW x \in NextUnitsBatch(wjob, cur), NEW y \in SubjectsOf[cur],
               Level[cur][y] > Level[cur][x]
        PROVE  Terminal(wjob, cur, y)'
    <3>1. Level[cur][x] \in Nat /\ Level[cur][y] \in Nat
      BY <2>4 DEF NextUnitsBatch, Unprocessed
    <3>2. y \notin Unprocessed(wjob, cur)
      BY <2>5, <3>1 DEF NextUnitsBatch
    <3>3. <<wjob, cur, y>> \in Units
      BY <2>3, <2>4 DEF Units
    <3>4. unit[<<wjob, cur, y>>] # "running"
      BY <2>1, <3>3 DEF RunningUnits
    <3>5. unit[<<wjob, cur, y>>] \in {"succeeded", "failed"}
      BY <3>2, <3>3, <3>4 DEF Unprocessed, TypeOK, UnitStatus
    <3>6. QED  BY <2>1, <3>5 DEF Terminal
  <2>6. \A x, y \in NextUnitsBatch(wjob, cur) : Level[cur][x] = Level[cur][y]
    <3> SUFFICES ASSUME NEW x \in NextUnitsBatch(wjob, cur), NEW y \in NextUnitsBatch(wjob, cur)
                 PROVE  Level[cur][x] = Level[cur][y]
      OBVIOUS
    <3>1. x \in Subjects /\ y \in Subjects
          /\ Level[cur][x] <= Level[cur][y] /\ Level[cur][y] <= Level[cur][x]
      BY <2>4 DEF NextUnitsBatch, Unprocessed
    <3>2. Level[cur][x] \in Nat /\ Level[cur][y] \in Nat
      BY <2>4, <3>1
    <3>3. QED  BY <3>1, <3>2
  <2>7. NextUnitsBatch(wjob, cur) \subseteq SubjectsOf[cur]
    BY DEF NextUnitsBatch, Unprocessed
  <2>8. QED  BY <2>1, <2>2, <2>5, <2>6, <2>7
<1>2. CASE ~SelectBatch
  <2>1. /\ wpc \in {"lookup", "mark", "run"} /\ UNCHANGED <<wjob, cur>>
        /\ InFlight' \subseteq InFlight
    BY <1>2, InFlightShrinks
  <2>2. cur \in Fanout /\ wjob \in Jobs
    BY <2>1 DEF TypeOK, FanoutPcs, StepPcs, OwningPcs
  <2>3. Level[cur] \in [Subjects -> Nat] /\ SubjectsOf[cur] \subseteq Subjects
    BY <2>2, PlanAssumption
  <2>4. ASSUME NEW x \in InFlight', NEW y \in SubjectsOf[cur], Level[cur][y] > Level[cur][x]
        PROVE  Terminal(wjob, cur, y)'
    <3>1. x \in InFlight /\ Terminal(wjob, cur, y)
      BY <2>1, <2>4 DEF BatchLevel
    <3>2. ~MarkRunning(y)
      <4> SUFFICES ASSUME MarkRunning(y) PROVE FALSE
        OBVIOUS
      <4>1. y \in InFlight  BY DEF MarkRunning, InFlight
      <4>2. x \in InFlight  BY <3>1
      <4>3. Level[cur][x] = Level[cur][y]
        BY <2>1, <4>1, <4>2 DEF BatchLevel
      <4>4. Level[cur][x] \in Nat
        BY <2>1, <2>3, <4>2 DEF BatchLevel
      <4>5. QED  BY <2>4, <4>3, <4>4
    <3>3. QED  BY <2>1, <2>2, <2>3, <3>1, <3>2, TerminalKept
  <2>5. QED  BY <2>1, <2>4 DEF BatchLevel
<1>3. QED  BY <1>1, <1>2

LEMMA BatchInvariant ==
  ~PromptRestart /\ Spec => [](Control /\ RunningUnits /\ BatchLevel /\ KnownUnits)
<1> SUFFICES ASSUME ~PromptRestart
             PROVE  Spec => [](Control /\ RunningUnits /\ BatchLevel /\ KnownUnits)
  OBVIOUS
<1>1. Init => RunningUnits /\ BatchLevel /\ KnownUnits
  BY PlanAssumption DEF Init, RunningUnits, BatchLevel, KnownUnits, Units
<1>2. Control /\ RunningUnits /\ BatchLevel /\ KnownUnits /\ [Next]_vars
        => (RunningUnits /\ BatchLevel /\ KnownUnits)'
  BY RunningUnitsInductive, BatchLevelInductive, KnownUnitsInductive DEF Control
<1>3. QED  BY <1>1, <1>2, ControlInvariant, PTL DEF Spec

\* A community is reported only when the communities below it are: no unit is in
\* flight while a deeper one of its step is unprocessed, unless a retry reopened
\* it or the worker came back while its orphans' heartbeats were fresh.
THEOREM BottomUpHolds == Spec => []BottomUp
<1>1. CASE PromptRestart
  BY <1>1, PTL DEF BottomUp
<1>2. CASE ~PromptRestart
  <2>1. Control /\ BatchLevel => BottomUp
    <3> SUFFICES ASSUME Control, BatchLevel, NEW x \in active, NEW y \in SubjectsOf[cur],
                        Level[cur][y] > Level[cur][x]
                 PROVE  unit[<<wjob, cur, y>>] \in {"succeeded", "failed"} \/ Retried(wjob, cur)
      BY DEF BottomUp
    <3>1. wpc = "run" /\ x \in InFlight
      BY DEF Control, TypeOK, InFlight
    <3>2. QED  BY <3>1 DEF BatchLevel, Terminal
  <2>2. QED  BY <1>2, <2>1, BatchInvariant, PTL
<1>3. QED  BY <1>1, <1>2

-----------------------------------------------------------------------------
(* Why a job fails.                                                        *)

\* A finite set has an element of the greatest level.
LEMMA GreatestLevel ==
  ASSUME NEW S, IsFiniteSet(S), S # {}, NEW level, \A x \in S : level[x] \in Nat
  PROVE  \E x \in S : \A y \in S : level[y] <= level[x]
<1> DEFINE Above(x) == {y \in S : level[y] >= level[x]}
           AboveSets == {Above(x) : x \in S}
<1>1. AboveSets \subseteq FiniteSubsetsOf(S) /\ AboveSets # {}
  <2>1. ASSUME NEW x \in S PROVE Above(x) \subseteq S /\ IsFiniteSet(Above(x))
    <3>1. Above(x) \in SUBSET S  OBVIOUS
    <3> HIDE DEF Above
    <3>2. QED  BY <3>1, FS_Subset
  <2> HIDE DEF Above
  <2>2. QED  BY <2>1 DEF FiniteSubsetsOf
<1>2. PICK A \in AboveSets : \A B \in AboveSets : <<B, A>> \notin StrictSubsetOrdering(S)
  <2>1. IsWellFoundedOn(StrictSubsetOrdering(S), FiniteSubsetsOf(S))
    BY FS_StrictSubsetOrderingWellFounded
  <2> HIDE DEF AboveSets
  <2>2. QED  BY <1>1, <2>1, WFMin
<1>3. PICK x \in S : A = Above(x)
  OBVIOUS
<1>4. ASSUME NEW y \in S, ~(level[y] <= level[x]) PROVE FALSE
  <2>1. Above(y) \subseteq Above(x) /\ x \in Above(x) /\ x \notin Above(y)
    BY <1>4
  <2>2. <<Above(y), Above(x)>> \in StrictSubsetOrdering(S)
    BY <2>1 DEF StrictSubsetOrdering
  <2>3. QED  BY <1>2, <1>3, <2>2
<1>5. QED  BY <1>4

\* As long as a unit is unprocessed, some are selected.
LEMMA SelectionComplete ==
  ASSUME NEW j, NEW s \in Fanout, NextUnitsBatch(j, s) = {}
  PROVE  Unprocessed(j, s) = {}
<1> SUFFICES ASSUME Unprocessed(j, s) # {} PROVE FALSE
  OBVIOUS
<1>1. Unprocessed(j, s) \subseteq Subjects /\ Level[s] \in [Subjects -> Nat]
  BY PlanAssumption DEF Unprocessed
<1>2. IsFiniteSet(Unprocessed(j, s))
  BY <1>1, FS_Subset, PlanAssumption
<1>3. \A x \in Unprocessed(j, s) : Level[s][x] \in Nat
  BY <1>1
<1>4. \E x \in Unprocessed(j, s) : \A y \in Unprocessed(j, s) : Level[s][y] <= Level[s][x]
  BY <1>2, <1>3, GreatestLevel
<1>5. QED  BY <1>4 DEF NextUnitsBatch

\* With a ratio of at most one, a step below it has a unit that did not succeed.
LEMMA BelowRatioShows ==
  ASSUME NEW j, NEW s, MinNum <= MinDen, BelowRatio(j, s)
  PROVE  \E x \in Subjects : unit[<<j, s, x>>] \notin {"none", "succeeded"}
<1> SUFFICES ASSUME \A x \in Subjects : unit[<<j, s, x>>] \in {"none", "succeeded"}
             PROVE  FALSE
  OBVIOUS
<1>1. Succeeded(j, s) = Rows(j, s)
  BY DEF Succeeded, Rows
<1> DEFINE n == Cardinality(Rows(j, s))
<1>2. n \in Nat
  BY FS_Subset, FS_CardinalityType, PlanAssumption DEF Rows
<1>3. n * MinDen < MinNum * n
  BY <1>1 DEF BelowRatio
<1> HIDE DEF n
<1>4. n * MinDen = MinNum * n + (MinDen - MinNum) * n
  BY <1>2, EnvironmentAssumption
<1>5. (MinDen - MinNum) * n >= 0
  BY <1>2, EnvironmentAssumption
<1>6. n * MinDen \in Int /\ MinNum * n \in Int /\ (MinDen - MinNum) * n \in Int
  BY <1>2, EnvironmentAssumption
<1>7. QED  BY <1>3, <1>4, <1>5, <1>6

\* What finalize does not accept has a cause: a failed unit, a step without any,
\* or a retry.
LEMMA RejectionHasCause ==
  ASSUME Control, RunningUnits, KnownUnits, Causes, wpc = "finalize",
         Finalized(wjob, cur) # "succeeded"
  PROVE  HasCause(wjob)
<1> SUFFICES ASSUME ~HasCause(wjob) PROVE FALSE
  OBVIOUS
<1>1. wjob \in Jobs /\ cur \in Fanout /\ cur \in Steps
  BY PlanAssumption DEF Control, TypeOK, OwningPcs, StepPcs, FanoutPcs
<1>2. ~Retried(wjob, cur) /\ MinNum <= MinDen
  BY <1>1, EnvironmentAssumption DEF HasCause
<1>3. \A x \in SubjectsOf[cur] : unit[<<wjob, cur, x>>] \notin {"none", "pending"}
  BY <1>2 DEF Causes
<1>4. SubjectsOf[cur] \subseteq Subjects
  BY <1>1, PlanAssumption
<1>5. CASE Rows(wjob, cur) = {}
  <2>1. SubjectsOf[cur] = {}
    BY <1>3, <1>4, <1>5 DEF Rows
  <2>2. cur \notin EmptyOk
    BY <1>5 DEF Finalized
  <2>3. QED  BY <1>1, <2>1, <2>2 DEF HasCause
<1>6. CASE Rows(wjob, cur) # {}
  <2>1. BelowRatio(wjob, cur)
    BY <1>6 DEF Finalized
  <2>2. PICK x \in Subjects : unit[<<wjob, cur, x>>] \notin {"none", "succeeded"}
    BY <1>2, <2>1, BelowRatioShows
  <2>3. <<wjob, cur, x>> \in Units
    BY <1>1 DEF Units
  <2>4. x \in SubjectsOf[cur]
    BY <1>1, <2>2 DEF KnownUnits
  <2>5. unit[<<wjob, cur, x>>] # "running"
    BY <2>3 DEF RunningUnits
  <2>6. unit[<<wjob, cur, x>>] = "failed"
    BY <1>3, <2>2, <2>3, <2>4, <2>5 DEF Control, TypeOK, UnitStatus
  <2>7. x \in FailingSubjects
    BY <1>1, <2>6 DEF KnownUnits
  <2>8. QED  BY <1>1, <2>6, <2>7 DEF HasCause
<1>7. QED  BY <1>5, <1>6

\* A cause can only disappear while the worker executes the job.
LEMMA CauseKept ==
  ASSUME Control, [Next]_vars, NEW j \in Jobs, HasCause(j),
         j = wjob => wpc \notin FanoutPcs \cup {"next"}
  PROVE  HasCause(j)'
<1>1. CASE StartMayRaise \/ MinNum > MinDen \/ \E s \in Fanout \ EmptyOk : SubjectsOf[s] = {}
  BY <1>1 DEF HasCause
<1>2. ASSUME NEW s \in Steps, Retried(j, s) PROVE HasCause(j)'
  BY <1>2, RetriedKept DEF HasCause, Control
<1>3. ASSUME NEW s \in Steps, s \in RaisingSteps, step[<<j, s>>] = "failed"
      PROVE  HasCause(j)'
  <2>1. ASSUME NEW t \in Steps PROVE ~StartStep(t) \/ j # wjob
    BY DEF StartStep
  <2>2. SettleStep => j # wjob \/ s # cur
    BY <1>3 DEF SettleStep, Control, LoopProgress, StepPcs
  <2>3. step'[<<j, s>>] = "failed"
    <3> USE DEF Control, TypeOK
    <3>1. ASSUME NEW t \in Steps, StartStep(t) PROVE step'[<<j, s>>] = "failed"
      BY <1>3, <2>1, <3>1 DEF StartStep
    <3>2. CASE FailStep  BY <1>3, <3>2 DEF FailStep
    <3>3. CASE SettleStep  BY <1>3, <2>2, <3>3 DEF SettleStep
    <3>4. ASSUME NEW r \in Requests, RetryResetStep(r) PROVE step'[<<j, s>>] = "failed"
      BY <1>3, <3>4 DEF RetryResetStep
    <3>5. QED  BY <1>3, <3>1, <3>2, <3>3, <3>4, StepFrame DEF StepWrites
  <2>4. QED  BY <1>3, <2>3 DEF HasCause
<1>4. ASSUME NEW s \in Fanout, NEW x \in FailingSubjects, unit[<<j, s, x>>] = "failed"
      PROVE  HasCause(j)'
  <2>1. x \in Subjects /\ s \in Steps
    BY EnvironmentAssumption, PlanAssumption
  <2>2. UnitSteps(j, s, x)
    BY <2>1, UnitStepsFrame DEF Control
  <2>3. unit'[<<j, s, x>>] = "failed" \/ Retried(j, s)'
    BY <1>4, <2>2 DEF UnitSteps, FanoutPcs
  <2>4. QED  BY <2>1, <2>3 DEF HasCause
<1>5. QED  BY <1>1, <1>2, <1>3, <1>4 DEF HasCause

LEMMA CausesQueueStep ==
  ASSUME Control, RunningUnits, KnownUnits, Causes, QueueStep
  PROVE  Causes'
<1>1. \A j \in Jobs : HasCause(j) /\ (j = wjob => wpc \notin FanoutPcs \cup {"next"})
                       => HasCause(j)'
  BY CauseKept DEF Next, WorkerStep
<1>2. wpc \notin FanoutPcs \cup {"next"}
  BY DEF QueueStep, RecoverStaleUnits, RecoverStaleJobs, ClaimOnePendingJob, NothingToClaim,
         StartRun, StartRaises, SnapshotSteps, FanoutPcs
<1>3. \A j \in Jobs : HasCause(j) => HasCause(j)'
  BY <1>1, <1>2
<1>4. StartRaises => \A j : HasCause(j)'
  BY DEF StartRaises, HasCause
<1> USE DEF Control, TypeOK, Causes, rows, plan
<1>5. CASE RecoverStaleUnits  BY <1>3, <1>5 DEF RecoverStaleUnits
<1>6. CASE RecoverStaleJobs  BY <1>3, <1>6 DEF RecoverStaleJobs
<1>7. ASSUME NEW j \in Jobs, ClaimOnePendingJob(j) PROVE Causes'
  BY <1>3, <1>7 DEF ClaimOnePendingJob
<1>8. CASE NothingToClaim  BY <1>3, <1>8 DEF NothingToClaim
<1>9. CASE StartRun  BY <1>3, <1>9 DEF StartRun
<1>10. CASE StartRaises
  <2>1. UNCHANGED <<job, wjob>> /\ wpc' = "raise_worker"
    BY <1>10 DEF StartRaises
  <2>2. QED  BY <1>3, <1>4, <1>10, <2>1
<1>11. CASE SnapshotSteps  BY <1>3, <1>11 DEF SnapshotSteps
<1> HIDE DEF Control, TypeOK, Causes
<1>12. QED  BY <1>5, <1>6, <1>7, <1>8, <1>9, <1>10, <1>11 DEF QueueStep

\* Where the loop gives a job up, it has a cause.
LEMMA CausesLoopStep ==
  ASSUME Control, RunningUnits, KnownUnits, Causes, LoopStep
  PROVE  Causes'
<1>1. \A j \in Jobs : HasCause(j) /\ (j = wjob => wpc \notin FanoutPcs \cup {"next"})
                       => HasCause(j)'
  BY CauseKept DEF Next, WorkerStep
<1>2. wjob \in Jobs
  BY DEF Control, TypeOK, LoopStep, StartStep, AtomicWork, StepRaises, FailStep, FailJob,
         FailJobAgain, SettleStep, CheckStep, RejectJob, CompleteJob, OwningPcs, StepPcs, FanoutPcs
<1>3. wpc \in FanoutPcs \cup {"next"} => job[wjob] # "failed"
  BY DEF Control, Ownership, WorkerOwnsJob, OwningPcs, StepPcs
<1>4. \A j \in Jobs : job[j] = "failed" => HasCause(j)'
  BY <1>1, <1>3 DEF Causes
\* A step that raised is the cause of what its handlers do.
<1>5. ASSUME NEW j \in Jobs, j = wjob, wpc = "raise_job" PROVE HasCause(j)'
  <2>1. cur \in Steps /\ cur \in RaisingSteps /\ step[<<j, cur>>] = "failed"
    BY <1>5 DEF Causes, Control, TypeOK, StepPcs
  <2>2. HasCause(j)
    BY <2>1 DEF HasCause
  <2>3. QED  BY <1>1, <1>5, <2>2 DEF FanoutPcs
<1>6. ASSUME NEW j \in Jobs, j = wjob, wpc \in {"reject", "raise_worker"} PROVE HasCause(j)'
  BY <1>1, <1>6 DEF FanoutPcs, Causes
<1> USE DEF Control, TypeOK, Causes, rows, plan
<1>7. ASSUME NEW s \in Steps, StartStep(s) PROVE Causes'
  <2>1. UNCHANGED job /\ wpc' \in {"select", "work"}
    BY <1>7 DEF StartStep
  <2>2. QED  BY <1>4, <2>1
<1>8. CASE AtomicWork
  <2>1. UNCHANGED job /\ wpc' = "settle" /\ verdict' = "succeeded"
    BY <1>8 DEF AtomicWork
  <2>2. QED  BY <1>4, <2>1
<1>9. CASE StepRaises
  <2>1. UNCHANGED <<job, cur>> /\ wpc' = "raise" /\ cur \in RaisingSteps
    BY <1>9 DEF StepRaises
  <2>2. QED  BY <1>4, <2>1
<1>10. CASE FailStep
  <2>1. UNCHANGED <<job, cur, wjob>> /\ wpc' = "raise_job" /\ wpc = "raise"
        /\ step'[<<wjob, cur>>] = "failed"
    BY <1>2, <1>10 DEF FailStep, StepPcs
  <2>2. QED  BY <1>4, <2>1
<1>11. CASE FailJob
  <2>1. wpc = "raise_job" /\ wpc' = "raise_worker" /\ UNCHANGED wjob
        /\ \A j \in Jobs : job'[j] = "failed" => j = wjob \/ job[j] = "failed"
    BY <1>2, <1>11 DEF FailJob
  <2>2. \E j \in Jobs : j = wjob /\ HasCause(j)'
    BY <1>2, <1>5, <2>1
  <2> HIDE DEF Control, TypeOK
  <2>3. QED  BY <1>4, <2>1, <2>2
<1>12. CASE FailJobAgain
  <2>1. wpc = "raise_worker" /\ wpc' = "idle"
        /\ \A j \in Jobs : job'[j] = "failed" => j = wjob \/ job[j] = "failed"
    BY <1>2, <1>12 DEF FailJobAgain, ReleaseJob
  <2>2. QED  BY <1>4, <1>6, <2>1
<1>13. CASE SettleStep
  <2>1. wpc = "settle" /\ wpc' = "check" /\ UNCHANGED <<job, wjob, cur>>
        /\ step'[<<wjob, cur>>] = verdict
    BY <1>2, <1>13 DEF SettleStep, StepPcs
  <2>2. verdict = "succeeded" \/ \E j \in Jobs : j = wjob /\ HasCause(j)'
    BY <1>1, <1>2, <2>1 DEF FanoutPcs
  <2>3. QED  BY <1>4, <2>1, <2>2
<1>14. CASE CheckStep
  <2>1. wpc = "check" /\ UNCHANGED <<job, step, wjob, cur>>
        /\ wpc' = IF step[<<wjob, cur>>] = "succeeded" THEN "next" ELSE "reject"
    BY <1>14 DEF CheckStep
  <2>2. step[<<wjob, cur>>] = "succeeded" \/ \E j \in Jobs : j = wjob /\ HasCause(j)'
    BY <1>1, <1>2, <2>1 DEF FanoutPcs
  <2>3. QED  BY <1>4, <2>1, <2>2
<1>15. CASE RejectJob
  <2>1. wpc = "reject" /\ wpc' = "idle"
        /\ \A j \in Jobs : job'[j] = "failed" => j = wjob \/ job[j] = "failed"
    BY <1>2, <1>15 DEF RejectJob, ReleaseJob
  <2>2. QED  BY <1>4, <1>6, <2>1
<1>16. CASE CompleteJob
  <2>1. wpc' = "idle" /\ \A j \in Jobs : job'[j] = "failed" => job[j] = "failed"
    BY <1>2, <1>16 DEF CompleteJob, ReleaseJob
  <2>2. QED  BY <1>4, <2>1
<1> HIDE DEF Control, TypeOK, Causes
<1>17. QED
  BY <1>7, <1>8, <1>9, <1>10, <1>11, <1>12, <1>13, <1>14, <1>15, <1>16 DEF LoopStep

LEMMA CausesFanoutStep ==
  ASSUME Control, RunningUnits, KnownUnits, Causes, FanoutStep
  PROVE  Causes'
<1>1. \A j \in Jobs : j # wjob /\ HasCause(j) => HasCause(j)'
  BY CauseKept DEF Next, WorkerStep
<1>2. wpc \in FanoutPcs /\ wpc' \in FanoutPcs \cup {"settle"}
      /\ UNCHANGED <<job, step, wjob, todo, cur, req>>
  BY FanoutFrame DEF Control
<1>3. wjob \in Jobs /\ cur \in Fanout
  BY <1>2 DEF Control, TypeOK, OwningPcs, StepPcs
<1>4. \A j \in Jobs : job'[j] = "failed" => HasCause(j)'
  BY <1>1, <1>2 DEF Causes, Control, Ownership, WorkerOwnsJob, OwningPcs, StepPcs
<1>5. ASSUME wpc' = "finalize", NEW x \in SubjectsOf[cur]
      PROVE  unit'[<<wjob, cur, x>>] \notin {"none", "pending"}
  <2>1. NothingToSelect
    BY <1>5 DEF FanoutStep, SelectBatch, FinalizeStep, LookupUnit, MarkRunning, StartUnit,
                FinishUnit, rows
  <2>2. Unprocessed(wjob, cur) = {} /\ UNCHANGED unit
    BY <1>3, <2>1, SelectionComplete DEF NothingToSelect, rows
  <2>3. QED  BY <1>5, <2>2 DEF Unprocessed
<1>6. ASSUME wpc' = "settle" PROVE verdict' = "succeeded" \/ HasCause(wjob)'
  <2>1. FinalizeStep
    BY <1>6 DEF FanoutStep, SelectBatch, NothingToSelect, LookupUnit, MarkRunning, StartUnit,
                FinishUnit
  <2>2. wpc = "finalize" /\ UNCHANGED <<job, step, unit, req>> /\ verdict' = Finalized(wjob, cur)
    BY <2>1 DEF FinalizeStep, rows
  <2>3. Finalized(wjob, cur) # "succeeded" => HasCause(wjob)
    BY <2>2, RejectionHasCause
  <2>4. HasCause(wjob) => HasCause(wjob)'
    BY <1>2, <2>2 DEF HasCause, Retried
  <2>5. QED  BY <2>2, <2>3, <2>4
<1>7. QED  BY <1>2, <1>4, <1>5, <1>6 DEF Causes, FanoutPcs

LEMMA CausesOtherStep ==
  ASSUME Control, RunningUnits, KnownUnits, Causes, ProcessStep \/ ApiStep \/ UNCHANGED vars
  PROVE  Causes'
<1>1. [Next]_vars
  BY DEF Next
<1>2. \A j \in Jobs : HasCause(j) /\ (j = wjob => wpc \notin FanoutPcs \cup {"next"})
                       => HasCause(j)'
  BY <1>1, CauseKept
<1>3. \A j \in Jobs : job[j] = "failed" => HasCause(j)'
  BY <1>2 DEF Causes, Control, Ownership, WorkerOwnsJob, OwningPcs, StepPcs
<1>4. CASE Crash
  <2>1. UNCHANGED job /\ wpc' = "down"  BY <1>4 DEF Crash, rows
  <2>2. QED  BY <1>3, <2>1 DEF Causes
<1>5. CASE Restart
  <2>1. UNCHANGED job /\ wpc' = "idle"  BY <1>5 DEF Restart, rows
  <2>2. QED  BY <1>3, <2>1 DEF Causes
<1>6. CASE ~Crash /\ ~Restart
  <2>1. /\ UNCHANGED <<wpc, wjob, cur, verdict>>
        /\ \A j \in Jobs : job'[j] = "failed" => job[j] = "failed"
    <3> USE DEF Control, TypeOK, plan, rows
    <3>1. CASE ProcessStep  BY <1>6, <3>1 DEF ProcessStep, HeartbeatExpires
    <3>2. CASE ApiStep
      BY <3>2 DEF ApiStep, Submit, RetryUnit, RetryStep, RetryContinues, RetryResetStep,
                  RetryReactivateJob
    <3>3. CASE UNCHANGED vars  BY <3>3 DEF vars
    <3>4. QED  BY <3>1, <3>2, <3>3
  <2>2. ASSUME NEW j \in Jobs, NEW t \in Steps, step[<<j, t>>] # "succeeded",
               wpc = "raise_job"
        PROVE  step'[<<j, t>>] = step[<<j, t>>]
    <3> USE DEF Control, TypeOK
    <3>1. ASSUME NEW r \in Requests, RetryResetStep(r) PROVE step'[<<j, t>>] = step[<<j, t>>]
      BY <2>2, <3>1 DEF RetryResetStep
    <3>2. (\A u \in Steps : ~StartStep(u)) /\ ~SettleStep
      BY <2>2 DEF StartStep, SettleStep
    <3>3. ~FailStep
      BY <2>2 DEF FailStep
    <3>4. QED  BY <1>1, <3>1, <3>2, <3>3, StepFrame DEF StepWrites
  <2>3. ASSUME NEW j \in Jobs, NEW s \in Fanout, NEW x \in SubjectsOf[s], wpc = "finalize",
               unit[<<j, s, x>>] \notin {"none", "pending"} \/ Retried(j, s)
        PROVE  unit'[<<j, s, x>>] \notin {"none", "pending"} \/ Retried(j, s)'
    <3>1. x \in Subjects
      BY PlanAssumption
    <3>2. CASE Retried(j, s)
      BY <1>1, <3>2, RetriedKept DEF Control
    <3>3. CASE unit[<<j, s, x>>] \notin {"none", "pending"}
      <4>1. UnitSteps(j, s, x)
        BY <1>1, <3>1, UnitStepsFrame DEF Control
      <4>2. QED  BY <2>3, <3>3, <4>1 DEF UnitSteps
    <3>4. QED  BY <2>3, <3>2, <3>3
  <2>4. ASSUME NEW j \in Jobs, NEW t \in Steps, step[<<j, t>>] = "succeeded"
        PROVE  step'[<<j, t>>] = "succeeded" \/ HasCause(j)'
    BY <1>1, <2>4, StepKept DEF HasCause, Control
  <2>5. ASSUME NEW j \in Jobs, j = wjob, wpc \in {"settle", "check", "reject", "raise_worker"},
               HasCause(j)
        PROVE  HasCause(j)'
    BY <1>2, <2>5 DEF FanoutPcs
  <2>6. /\ wpc \in StepPcs \cup {"raise_worker"} => wjob \in Jobs
        /\ wpc \in StepPcs => cur \in Steps
        /\ wpc = "finalize" => cur \in Fanout
    BY DEF Control, TypeOK, OwningPcs, FanoutPcs
  <2>7. QED  BY <1>3, <2>1, <2>2, <2>3, <2>4, <2>5, <2>6 DEF Causes, StepPcs, FanoutPcs
<1>7. QED  BY <1>4, <1>5, <1>6

\* Hard kills alone never fail a job, when the worker restarts on stale heartbeats.
THEOREM CrashIsTransparentHolds == Spec => []CrashIsTransparent
<1>1. CASE PromptRestart
  BY <1>1, PTL DEF CrashIsTransparent
<1>2. CASE ~PromptRestart
  <2>1. Init => Causes
    BY DEF Init, Causes, Jobs
  <2>2. Control /\ RunningUnits /\ KnownUnits /\ Causes /\ [Next]_vars => Causes'
    BY CausesQueueStep, CausesLoopStep, CausesFanoutStep, CausesOtherStep DEF Next, WorkerStep
  <2>3. Causes => CrashIsTransparent
    BY DEF Causes, CrashIsTransparent
  <2>4. QED  BY <1>2, <2>1, <2>2, <2>3, BatchInvariant, PTL DEF Spec
<1>3. QED  BY <1>1, <1>2
=============================================================================
