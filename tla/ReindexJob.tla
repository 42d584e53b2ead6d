----------------------------- MODULE ReindexJob -----------------------------
(***************************************************************************)
(* Re-indexing jobs: the controller that turns a ReindexJob resource into a*)
(* batch Job (internal/controller/reindexjob_controller.go), the worker in *)
(* the Job's pod, which runs the reindexer and reports the phase           *)
(* (cmd/activity/reindex_worker.go), and between them the API server and   *)
(* the Job controller, which are external.                                 *)
(*                                                                         *)
(* The controller reads ReindexJobs from its informer's cache and Jobs     *)
(* from the API server; status writes carry a resource version and are     *)
(* refused when it is not the current one.                                 *)
(***************************************************************************)
EXTENDS Integers, FiniteSets

CONSTANTS
  Jobs,               \* names of ReindexJobs
  WithTTL,            \* the ones with spec.ttlSecondsAfterFinished
  Reconcilers,        \* the controller's reconcile workers (--workers)
  MaxConcurrentJobs,  \* --max-concurrent-reindex-jobs
  BackoffLimit,       \* backoffLimit of a worker Job
  MaxCreates,         \* bound: creations of one ReindexJob
  MaxDeletes,         \* bound: deletions by users
  MaxProgress,        \* bound: progress reports
  MaxFaults           \* bound: failed calls, lost pods, resyncs, restarts

ASSUME JobsAssumption == IsFiniteSet(Jobs) /\ WithTTL \subseteq Jobs

ASSUME LimitsAssumption ==
  /\ MaxConcurrentJobs \in Nat /\ BackoffLimit \in Nat
  /\ MaxCreates \in Nat /\ MaxDeletes \in Nat
  /\ MaxProgress \in Nat /\ MaxFaults \in Nat

VARIABLES
  rj,      \* the ReindexJob resources at the API server
  cached,  \* the controller's informer cache of rj
  queue,   \* ReindexJobs waiting in the controller's work queue
  ctl,     \* per reconcile worker: the reconcile in progress, or Idle
  job,     \* the batch Job of each ReindexJob
  pod,     \* the worker in the Job's pod, or NoPod
  expired, \* per ReindexJob: the latest CompletedAt whose TTL has passed
  creates, deletes, reports, faults   \* how much of each bound is used

jobVars   == <<job, pod>>
boundVars == <<creates, deletes, reports, faults>>
vars == <<rj, cached, queue, ctl, jobVars, expired, boundVars>>

-----------------------------------------------------------------------------
Terminal == {"Succeeded", "Failed"}
Waiting  == {"", "Pending"}
Phases   == Terminal \cup Waiting \cup {"Running"}

\* completed: the version that set CompletedAt, or 0.  A deletion in the
\* foreground marks the object first.
Resource == [exists : BOOLEAN, deleting : BOOLEAN, rv : Nat, phase : Phases,
             completed : Nat]

Idle == [at |-> "idle"]
Reconciling == [at : {"lookup", "pending", "create", "running", "delete", "cleanup"},
                job : Jobs, rv : Nat, phase : Phases, count : Nat]

BatchJob == [state : {"none", "active", "complete", "failed"}, attempts : Nat]

NoPod == [at |-> "none"]
Worker == [at : {"boot", "setRunning", "run", "setSucceeded", "setFailed",
                 "succeeded", "failed"}, rv : Nat]

Init ==
  /\ rj = [j \in Jobs |-> [exists |-> FALSE, deleting |-> FALSE, rv |-> 0,
                           phase |-> "", completed |-> 0]]
  /\ cached = rj
  /\ queue = {}
  /\ ctl = [w \in Reconcilers |-> Idle]
  /\ job = [j \in Jobs |-> [state |-> "none", attempts |-> 0]]
  /\ pod = [j \in Jobs |-> NoPod]
  /\ expired = [j \in Jobs |-> 0]
  /\ creates = [j \in Jobs |-> 0] /\ deletes = 0 /\ reports = 0 /\ faults = 0

\* One more failed call, lost pod, resync or controller restart.
Fault   == faults < MaxFaults /\ faults' = faults + 1
NoFault == UNCHANGED faults

-----------------------------------------------------------------------------
(* The API server: users, the informer and the clock.                      *)

UserKeeps == UNCHANGED <<cached, queue, ctl, jobVars, expired, reports, faults>>

\* PrepareForCreate clears the status.
Fresh(r) == [exists |-> TRUE, deleting |-> FALSE, rv |-> r.rv + 1, phase |-> "",
             completed |-> 0]

Create(j) ==
  /\ ~rj[j].exists /\ creates[j] < MaxCreates
  /\ creates' = [creates EXCEPT ![j] = @ + 1]
  /\ rj' = [rj EXCEPT ![j] = Fresh(@)]
  /\ UNCHANGED deletes /\ UserKeeps

Gone(r) == [exists |-> FALSE, deleting |-> FALSE, rv |-> r.rv + 1, phase |-> "",
            completed |-> 0]

Marked(r) == [exists |-> TRUE, deleting |-> TRUE, rv |-> r.rv + 1,
              phase |-> r.phase, completed |-> r.completed]

\* No finalizer is set on a ReindexJob: an ordinary deletion takes effect at once.
UserDeletes(j) ==
  /\ rj[j].exists /\ ~rj[j].deleting /\ deletes < MaxDeletes
  /\ deletes' = deletes + 1
  /\ \/ rj' = [rj EXCEPT ![j] = Gone(@)]
     \/ rj' = [rj EXCEPT ![j] = Marked(@)]
  /\ UNCHANGED creates /\ UserKeeps

\* The garbage collector finishes a deletion in the foreground.
CollectGarbage(j) ==
  /\ rj[j].exists /\ rj[j].deleting
  /\ rj' = [rj EXCEPT ![j] = Gone(@)]
  /\ UNCHANGED <<creates, deletes>> /\ UserKeeps

\* The informer delivers the current object, or resyncs what it has.
Notify(j) ==
  /\ \/ cached[j] # rj[j] /\ NoFault
     \/ cached[j] = rj[j] /\ Fault
  /\ cached' = [cached EXCEPT ![j] = rj[j]]
  /\ queue' = queue \cup {j}
  /\ UNCHANGED <<rj, ctl, jobVars, expired, creates, deletes, reports>>

\* The clock passes CompletedAt plus the TTL.
TTLPasses(j) ==
  /\ j \in WithTTL
  /\ \E c \in {rj[j].completed, cached[j].completed} :
       c > expired[j] /\ expired' = [expired EXCEPT ![j] = c]
  /\ UNCHANGED <<rj, cached, queue, ctl, jobVars, boundVars>>

\* A status write with resource version rv: refused unless it is current.
Current(j, rv) == rj[j].exists /\ rj[j].rv = rv

\* updateJobPhase and the controller's status writes.  CompletedAt is set for
\* a terminal phase and never cleared.
WithPhase(r, phase) ==
  [exists |-> r.exists, deleting |-> r.deleting, rv |-> r.rv + 1, phase |-> phase,
   completed |-> IF phase \in Terminal THEN r.rv + 1 ELSE r.completed]

-----------------------------------------------------------------------------
(* The controller.  A reconcile takes its ReindexJob from the queue, and   *)
(* puts it back if it returns an error or a RequeueAfter.  Notifications   *)
(* that arrive meanwhile put it back too.                                  *)

ControllerKeeps == UNCHANGED <<cached, expired, creates, deletes, reports>>

Done(w)        == ctl' = [ctl EXCEPT ![w] = Idle] /\ UNCHANGED queue
Requeue(w)     == ctl' = [ctl EXCEPT ![w] = Idle] /\ queue' = queue \cup {ctl[w].job}
Proceed(w, at) == ctl' = [ctl EXCEPT ![w].at = at] /\ UNCHANGED queue

\* countRunningJobs: Jobs without a CompletionTime.  A failed Job has none.
RunningCount == Cardinality({j \in Jobs : job[j].state \in {"active", "failed"}})

\* Reconcile up to the concurrency check.  The work queue never hands an
\* object to two workers at a time.
Begin(w, j, at) ==
  /\ ctl' = [ctl EXCEPT ![w] = [at |-> at, job |-> j, rv |-> cached[j].rv,
                                phase |-> cached[j].phase, count |-> RunningCount]]
  /\ queue' = queue \ {j}

Picked(w, j) ==
  /\ ctl[w] = Idle /\ j \in queue
  /\ \A v \in Reconcilers : ctl[v] # Idle => ctl[v].job # j
  /\ UNCHANGED <<rj, jobVars, faults>> /\ ControllerKeeps

ReconcileGone(w, j) ==
  /\ ~cached[j].exists
  /\ queue' = queue \ {j} /\ UNCHANGED ctl /\ Picked(w, j)

ReconcileDeleting(w, j) ==
  /\ cached[j].exists /\ cached[j].deleting
  /\ Begin(w, j, "cleanup") /\ Picked(w, j)

\* Mutant: a ReindexJob that has not expired is not looked at again.
RequeueAfterTTL_Never(j) == queue' = queue \ {j}

\* A ReindexJob that has not expired is looked at again when it has.
RequeueAfterTTL(j) == UNCHANGED queue

\* handleTTLCleanup.  An unset TTL, or a missing CompletedAt, ends it.
HandleTTLCleanup(w, j) ==
  /\ cached[j].exists /\ ~cached[j].deleting /\ cached[j].phase \in Terminal
  /\ \/ /\ j \notin WithTTL \/ cached[j].completed = 0
        /\ queue' = queue \ {j} /\ UNCHANGED ctl
     \/ /\ j \in WithTTL /\ cached[j].completed > expired[j]
        /\ RequeueAfterTTL(j) /\ UNCHANGED ctl
     \/ /\ j \in WithTTL /\ cached[j].completed \in 1..expired[j]
        /\ Begin(w, j, "delete")
  /\ Picked(w, j)

\* Mutant: a terminal phase does not end the reconcile.
ReconcileUnfinished_AnyPhase(w, j) ==
  /\ cached[j].exists /\ ~cached[j].deleting
  /\ Begin(w, j, "lookup") /\ Picked(w, j)

ReconcileUnfinished(w, j) ==
  /\ cached[j].exists /\ ~cached[j].deleting /\ cached[j].phase \notin Terminal
  /\ Begin(w, j, "lookup") /\ Picked(w, j)

\* getJobForReindexJob returns a zero Job when there is none, which has no
\* CompletionTime.
NotCompleted(j) == job[j].state # "complete"

\* checkJobStatus looks again until the Job has completed, then leaves the
\* status to the worker.
CheckJobStatus(w) == IF NotCompleted(ctl[w].job) THEN Requeue(w) ELSE Done(w)

\* The rest of Reconcile.
Lookup(w) ==
  /\ ctl[w].at = "lookup"
  /\ LET j == ctl[w].job
     IN  \/ /\ ctl[w].count >= MaxConcurrentJobs /\ ~NotCompleted(j)
            /\ IF ctl[w].phase = "Pending" THEN Requeue(w) ELSE Proceed(w, "pending")
         \/ /\ ctl[w].count < MaxConcurrentJobs \/ NotCompleted(j)
            /\ ctl[w].phase \in Waiting
            /\ Proceed(w, "create")
         \/ /\ ctl[w].count < MaxConcurrentJobs \/ NotCompleted(j)
            /\ ctl[w].phase = "Running"
            /\ CheckJobStatus(w)
  /\ UNCHANGED <<rj, jobVars>> /\ NoFault /\ ControllerKeeps

\* The status write of a reconcile; an error, also a conflict, is retried.  A
\* call that fails may have taken effect.
UpdateStatus(w, at, phase) ==
  /\ ctl[w].at = at
  /\ LET j == ctl[w].job
     IN  \/ /\ Current(j, ctl[w].rv)
            /\ rj' = [rj EXCEPT ![j] = WithPhase(@, phase)]
            /\ NoFault \/ Fault
         \/ ~Current(j, ctl[w].rv) /\ UNCHANGED rj /\ NoFault
         \/ UNCHANGED rj /\ Fault
  /\ Requeue(w)
  /\ UNCHANGED jobVars /\ ControllerKeeps

SetPending(w) == UpdateStatus(w, "pending", "Pending")

\* Mutant: a Job that exists already counts as started.
CreateJob_IgnoresExisting(w) ==
  /\ ctl[w].at = "create" /\ NoFault
  /\ LET j == ctl[w].job
     IN  \/ /\ job[j].state = "none" /\ Proceed(w, "running")
            /\ job' = [job EXCEPT ![j] = [state |-> "active", attempts |-> 0]]
         \/ job[j].state # "none" /\ job' = job /\ Done(w)
  /\ UNCHANGED <<rj, pod>> /\ ControllerKeeps

\* startJob: create the Job, then write the phase.  Create fails if a Job of
\* that name exists; a failed call may have created it.
CreateJob(w) ==
  /\ ctl[w].at = "create"
  /\ LET j == ctl[w].job
         created == [job EXCEPT ![j] = [state |-> "active", attempts |-> 0]]
     IN  \/ job[j].state = "none" /\ job' = created /\ Proceed(w, "running") /\ NoFault
         \/ job[j].state # "none" /\ job' = job /\ Requeue(w) /\ NoFault
         \/ job[j].state = "none" /\ job' \in {job, created} /\ Requeue(w) /\ Fault
  /\ UNCHANGED <<rj, pod>> /\ ControllerKeeps

SetRunning(w) == UpdateStatus(w, "running", "Running")

\* handleTTLCleanup's Delete, without a precondition on the version.
DeleteExpired(w) ==
  /\ ctl[w].at = "delete"
  /\ LET j == ctl[w].job
     IN  \/ rj[j].exists /\ rj' = [rj EXCEPT ![j] = Gone(@)] /\ Done(w) /\ NoFault
         \/ ~rj[j].exists /\ UNCHANGED rj /\ Requeue(w) /\ NoFault
         \/ rj' \in {rj, [rj EXCEPT ![j] = Gone(@)]} /\ Requeue(w) /\ Fault
  /\ UNCHANGED jobVars /\ ControllerKeeps

\* handleDeletion.  A failed Get of the Job ends it, a failed Delete is retried.
\* The propagation is left to the cluster: the pod is deleted or orphaned.
HandleDeletion(w) ==
  /\ ctl[w].at = "cleanup"
  /\ LET j == ctl[w].job
     IN  \/ /\ job' = [job EXCEPT ![j] = [state |-> "none", attempts |-> 0]]
            /\ pod' \in {pod, [pod EXCEPT ![j] = NoPod]}
            /\ Done(w) /\ NoFault
         \/ UNCHANGED jobVars /\ Fault /\ (Done(w) \/ Requeue(w))
  /\ UNCHANGED rj /\ ControllerKeeps

\* A failed List or Get before anything is written.
LookupFails(w) ==
  /\ ctl[w].at = "lookup"
  /\ Fault /\ Requeue(w)
  /\ UNCHANGED <<rj, jobVars>> /\ ControllerKeeps

\* The controller restarts and lists every ReindexJob.
RestartController ==
  /\ Fault
  /\ ctl' = [w \in Reconcilers |-> Idle]
  /\ cached' = rj
  /\ queue' = {j \in Jobs : rj[j].exists}
  /\ UNCHANGED <<rj, jobVars, expired, creates, deletes, reports>>

-----------------------------------------------------------------------------
(* The Job controller and the worker in the pod.                           *)

PodKeeps == UNCHANGED <<cached, queue, ctl, expired, creates, deletes>>

StartPod(j) ==
  /\ job[j].state = "active" /\ pod[j] = NoPod
  /\ pod' = [pod EXCEPT ![j] = [at |-> "boot", rv |-> 0]]
  /\ UNCHANGED <<rj, job, reports>> /\ NoFault /\ PodKeeps

\* The container exits with an error: it is restarted up to BackoffLimit times.
PodFails(j) ==
  /\ pod' = [pod EXCEPT ![j] = NoPod]
  /\ job' = [job EXCEPT ![j] =
               CASE @.state # "active" -> @
                 [] @.state = "active" /\ @.attempts < BackoffLimit ->
                      [@ EXCEPT !.attempts = @ + 1]
                 [] @.state = "active" /\ @.attempts >= BackoffLimit ->
                      [@ EXCEPT !.state = "failed"]]

PodSucceeds(j) ==
  /\ pod' = [pod EXCEPT ![j] = NoPod]
  /\ job' = [job EXCEPT ![j].state = IF @ = "active" THEN "complete" ELSE @]

\* The pod or its node dies at any time.
LosePod(j) ==
  /\ pod[j] # NoPod
  /\ Fault /\ PodFails(j)
  /\ UNCHANGED <<rj, reports>> /\ PodKeeps

\* The status is written, the process is about to exit.
Exiting(j, at) == pod' = [pod EXCEPT ![j].at = at] /\ UNCHANGED job

\* The Get that begins updateJobPhase.
Reads(j, at) ==
  /\ rj[j].exists
  /\ pod' = [pod EXCEPT ![j] = [at |-> at, rv |-> rj[j].rv]]
  /\ UNCHANGED job

\* RunReindexWorker up to the reindexer.  Without its ReindexJob, the broker or
\* the API server the worker exits.
Boot(j) ==
  /\ pod[j].at = "boot"
  /\ \/ Reads(j, "setRunning") /\ NoFault
     \/ ~rj[j].exists /\ PodFails(j) /\ NoFault
     \/ PodFails(j) /\ Fault
  /\ UNCHANGED <<rj, reports>> /\ PodKeeps

\* The Update that ends updateJobPhase.
UpdateJobPhase(j, phase) ==
  /\ Current(j, pod[j].rv)
  /\ rj' = [rj EXCEPT ![j] = WithPhase(@, phase)]
  /\ NoFault

UpdateJobPhaseFails(j, phase) ==
  \/ ~Current(j, pod[j].rv) /\ UNCHANGED rj /\ NoFault
  \/ UNCHANGED rj /\ Fault
  \/ /\ Current(j, pod[j].rv)
     /\ rj' = [rj EXCEPT ![j] = WithPhase(@, phase)]
     /\ Fault

ReportRunning(j) ==
  /\ pod[j].at = "setRunning"
  /\ \/ /\ UpdateJobPhase(j, "Running")
        /\ pod' = [pod EXCEPT ![j].at = "run"] /\ UNCHANGED job
     \/ UpdateJobPhaseFails(j, "Running") /\ PodFails(j)
  /\ UNCHANGED reports /\ PodKeeps

WithProgress(r) == [exists |-> r.exists, deleting |-> r.deleting, rv |-> r.rv + 1,
                    phase |-> r.phase, completed |-> r.completed]

\* updateJobProgress, whose errors are ignored.
ReportProgress(j) ==
  /\ pod[j].at = "run" /\ rj[j].exists /\ reports < MaxProgress
  /\ reports' = reports + 1
  /\ rj' = [rj EXCEPT ![j] = WithProgress(@)]
  /\ UNCHANGED jobVars /\ NoFault /\ PodKeeps

\* The reindexer returns nil.  If the ReindexJob cannot be read the worker
\* reports nothing and still exits with success.
RunSucceeds(j) ==
  /\ pod[j].at = "run"
  /\ \/ Reads(j, "setSucceeded") /\ NoFault
     \/ ~rj[j].exists /\ PodSucceeds(j) /\ NoFault
     \/ PodSucceeds(j) /\ Fault
  /\ UNCHANGED <<rj, reports>> /\ PodKeeps

\* A time range that is invalid or beyond the retention, or an error of the
\* reindexer.
RunFails(j) ==
  /\ pod[j].at = "run"
  /\ \/ Reads(j, "setFailed") /\ NoFault
     \/ ~rj[j].exists /\ PodFails(j) /\ NoFault
     \/ PodFails(j) /\ Fault
  /\ UNCHANGED <<rj, reports>> /\ PodKeeps

\* Mutant: the worker reports a phase the API does not know.
ReportSucceeded_Completed(j) ==
  /\ pod[j].at = "setSucceeded"
  /\ UpdateJobPhase(j, "Completed") \/ UpdateJobPhaseFails(j, "Completed")
  /\ Exiting(j, "succeeded")
  /\ UNCHANGED reports /\ PodKeeps

\* A failed status write is only logged.
ReportSucceeded(j) ==
  /\ pod[j].at = "setSucceeded"
  /\ UpdateJobPhase(j, "Succeeded") \/ UpdateJobPhaseFails(j, "Succeeded")
  /\ Exiting(j, "succeeded")
  /\ UNCHANGED reports /\ PodKeeps

ReportFailed(j) ==
  /\ pod[j].at = "setFailed"
  /\ UpdateJobPhase(j, "Failed") \/ UpdateJobPhaseFails(j, "Failed")
  /\ Exiting(j, "failed")
  /\ UNCHANGED reports /\ PodKeeps

\* The worker returns, and the Job controller sees its exit code.
Exit(j) ==
  /\ \/ pod[j].at = "succeeded" /\ PodSucceeds(j)
     \/ pod[j].at = "failed" /\ PodFails(j)
  /\ UNCHANGED <<rj, reports>> /\ NoFault /\ PodKeeps

\* ttlSecondsAfterFinished: 300 of the worker Job.  The controller's informer is
\* never that far behind.
JobExpires(j) ==
  /\ job[j].state \in {"complete", "failed"}
  /\ cached[j] = rj[j]
  /\ job' = [job EXCEPT ![j] = [state |-> "none", attempts |-> 0]]
  /\ UNCHANGED <<rj, pod, reports>> /\ NoFault /\ PodKeeps

-----------------------------------------------------------------------------
User(j)  == Create(j) \/ UserDeletes(j)
ApiServer(j) == CollectGarbage(j) \/ Notify(j) \/ TTLPasses(j)

Reconcile(w) ==
  \/ \E j \in Jobs : \/ ReconcileGone(w, j) \/ ReconcileDeleting(w, j)
                     \/ HandleTTLCleanup(w, j) \/ ReconcileUnfinished(w, j)
  \/ Lookup(w) \/ LookupFails(w) \/ SetPending(w)
  \/ CreateJob(w) \/ SetRunning(w) \/ DeleteExpired(w) \/ HandleDeletion(w)

RunReindexWorker(j) ==
  \/ Boot(j) \/ ReportRunning(j) \/ ReportProgress(j)
  \/ RunSucceeds(j) \/ RunFails(j) \/ ReportSucceeded(j) \/ ReportFailed(j)
  \/ Exit(j)

Next ==
  \/ \E j \in Jobs : \/ User(j) \/ ApiServer(j) \/ RunReindexWorker(j)
                     \/ StartPod(j) \/ LosePod(j) \/ JobExpires(j)
  \/ \E w \in Reconcilers : Reconcile(w)
  \/ RestartController

Spec == Init /\ [][Next]_vars

\* Fairness the processes give: the informer delivers what changed, an object
\* in the work queue gets its turn, calls return, containers run and the
\* reindexer ends, the clock passes the TTLs.  Nothing is assumed of users,
\* faults or the periodic resync.
Delivery(j) == cached[j] # rj[j] /\ Notify(j)

Turn(j) ==
  \E w \in Reconcilers : \/ ReconcileGone(w, j) \/ ReconcileDeleting(w, j)
                          \/ HandleTTLCleanup(w, j) \/ ReconcileUnfinished(w, j)

Call(w) == \/ Lookup(w) \/ SetPending(w) \/ CreateJob(w) \/ SetRunning(w)
           \/ DeleteExpired(w) \/ HandleDeletion(w)

WorkerStep(j) == \/ Boot(j) \/ ReportRunning(j) \/ RunSucceeds(j) \/ RunFails(j)
                 \/ ReportSucceeded(j) \/ ReportFailed(j) \/ Exit(j)

FairSpec ==
  /\ Spec
  /\ \A j \in Jobs : /\ WF_vars(Delivery(j)) /\ SF_vars(Turn(j))
                     /\ WF_vars(CollectGarbage(j)) /\ WF_vars(TTLPasses(j))
                     /\ WF_vars(StartPod(j)) /\ WF_vars(WorkerStep(j))
                     /\ WF_vars(JobExpires(j))
  /\ \A w \in Reconcilers : WF_vars(Call(w))

-----------------------------------------------------------------------------
(* Properties.                                                             *)

\* The resources, the reconciles and the workers are well formed, and nobody
\* holds a resource version the API server has not given out.
TypeOK ==
  /\ rj \in [Jobs -> Resource] /\ cached \in [Jobs -> Resource]
  /\ \A j \in Jobs : cached[j].rv <= rj[j].rv
  /\ queue \subseteq Jobs
  /\ ctl \in [Reconcilers -> Reconciling \cup {Idle}]
  /\ \A w \in Reconcilers : ctl[w] # Idle => ctl[w].rv <= rj[ctl[w].job].rv
  /\ job \in [Jobs -> BatchJob]
  /\ pod \in [Jobs -> Worker \cup {NoPod}]
  /\ expired \in [Jobs -> Nat]
  /\ creates \in [Jobs -> Nat] /\ deletes \in Nat /\ reports \in Nat /\ faults \in Nat

Finished(r) == r.exists /\ r.phase \in Terminal

\* What the controller knows is what the version it carries says: a cached copy
\* of the current version is the current object, and a reconcile about to write
\* a phase over the current version writes over one that is not finished.
VersionInv ==
  /\ \A j \in Jobs : cached[j].rv = rj[j].rv => /\ cached[j].exists = rj[j].exists
                                               /\ cached[j].phase = rj[j].phase
  /\ \A w \in Reconcilers :
       ctl[w] # Idle /\ ctl[w].at \in {"lookup", "pending", "create", "running"} =>
         (ctl[w].rv = rj[ctl[w].job].rv => ~Finished(rj[ctl[w].job]))

\* A finished ReindexJob is never queued or started again by the controller,
\* however stale its cache is and however late its writes arrive; only a worker
\* its Job runs again reports Running over a terminal phase.
FinishedIsKept ==
  [][\A j \in Jobs :
       Finished(rj[j]) /\ rj'[j].exists =>
         \/ rj'[j].phase \in Terminal
         \/ rj'[j].phase = "Running" /\ pod[j].at = "setRunning"]_vars

\* A ReindexJob does not wait for ever: whatever single call fails, and also
\* when its Job was created but the phase was not written, it gets a phase
\* other than Pending or is deleted.
EveryJobStarts ==
  \A j \in Jobs :
    (rj[j].exists /\ rj[j].phase \in Waiting) ~> ~(rj[j].exists /\ rj[j].phase \in Waiting)

\* "If set, the controller will delete the ReindexJob": one with a TTL does not
\* stay finished for ever, though nothing but the controller's own requeue
\* tells it that the time has come.
FinishedIsCollected ==
  \A j \in WithTTL : Finished(rj[j]) ~> ~Finished(rj[j])
=============================================================================
