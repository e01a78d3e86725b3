------------------------------ MODULE JobQueue ------------------------------
(***************************************************************************)
(* What the job table promises to those who submit jobs: a queue served in *)
(* submission order by one executor.  A job is submitted once, executed    *)
(* alone, settled by its executor only, put back when the executor died,   *)
(* and requeued by a retry when it had failed.  The one exception: an      *)
(* executor on its way out of an exception writes FAILED twice, and the    *)
(* second write undoes a retry that came between.  IndexJobs, with its     *)
(* steps, units, handlers and crashes, implements it.                      *)
(***************************************************************************)
EXTENDS Naturals

CONSTANT NumJobs
VARIABLES
    job,      \* job[j]: the status of the j-th job submitted
    closing   \* the job that has been failed and will be failed again, if any

vars == <<job, closing>>

Jobs == 1..NumJobs

Init ==
    /\ job = [j \in Jobs |-> "none"]
    /\ closing = {}

Idle == closing = {} /\ \A j \in Jobs : job[j] # "running"

Submit(j) ==
    /\ job[j] = "none"
    /\ \A i \in Jobs : i < j => job[i] # "none"
    /\ job' = [job EXCEPT ![j] = "pending"]
    /\ UNCHANGED closing

\* Only an idle executor takes a job, the oldest that is pending.
Claim(j) ==
    /\ Idle
    /\ job[j] = "pending"
    /\ \A i \in Jobs : i < j => job[i] # "pending"
    /\ job' = [job EXCEPT ![j] = "running"]
    /\ UNCHANGED closing

Settle(j, status) ==
    /\ job[j] = "running"
    /\ job' = [job EXCEPT ![j] = status]
    /\ UNCHANGED closing

\* The first of two writes of FAILED: the executor is not idle yet.
Fail(j) ==
    /\ job[j] = "running"
    /\ job' = [job EXCEPT ![j] = "failed"]
    /\ closing' = {j}

\* The second: it also fails, unexecuted, a job that a retry has requeued.
FailAgain(j) ==
    /\ j \in closing
    /\ job' = [job EXCEPT ![j] = "failed"]
    /\ closing' = {}

\* The executor died between the two writes.
Abandon ==
    /\ closing' = {}
    /\ UNCHANGED job

\* The executor died: its job goes back to the queue.
Requeue(j) ==
    /\ job[j] = "running"
    /\ job' = [job EXCEPT ![j] = "pending"]
    /\ UNCHANGED closing

Reactivate(j) ==
    /\ job[j] = "failed"
    /\ job' = [job EXCEPT ![j] = "pending"]
    /\ UNCHANGED closing

Next ==
    \/ Abandon
    \/ \E j \in Jobs :
          \/ Submit(j) \/ Claim(j) \/ Requeue(j) \/ Reactivate(j)
          \/ Fail(j) \/ FailAgain(j)
          \/ \E status \in {"succeeded", "failed"} : Settle(j, status)

Spec == Init /\ [][Next]_vars
=============================================================================
