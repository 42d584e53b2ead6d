--------------------------- MODULE ReindexProofs ---------------------------
(***************************************************************************)
(* What ReindexJob guarantees for any number of ReindexJobs, reconcile      *)
(* workers, retries and faults: type correctness, and that the controller   *)
(* never takes a finished ReindexJob back.                                 *)
(***************************************************************************)
EXTENDS ReindexJob, FiniteSetTheorems, TLAPS

ReindexInv == TypeOK /\ VersionInv

\* Every write of a resource keeps it well formed and makes a new version of it.
LEMMA WriteType ==
  ASSUME NEW r \in Resource, NEW phase \in Phases
  PROVE  /\ WithPhase(r, phase) \in Resource /\ WithPhase(r, phase).rv = r.rv + 1
         /\ WithProgress(r) \in Resource /\ WithProgress(r).rv = r.rv + 1
         /\ Fresh(r) \in Resource /\ Fresh(r).rv = r.rv + 1
         /\ Marked(r) \in Resource /\ Marked(r).rv = r.rv + 1
         /\ Gone(r) \in Resource /\ Gone(r).rv = r.rv + 1
<1> DEFINE n == r.rv + 1
<1>1. n \in Nat
  BY DEF Resource
<1>2. "" \in Phases /\ phase \in Phases /\ r.phase \in Phases
  BY DEF Phases, Waiting, Resource
<1> HIDE DEF n
<1>3. ASSUME NEW e \in BOOLEAN, NEW d \in BOOLEAN, NEW p \in Phases, NEW c \in Nat
      PROVE  LET q == [exists |-> e, deleting |-> d, rv |-> n, phase |-> p, completed |-> c]
             IN  q \in Resource /\ q.rv = n
  BY <1>1, <1>3 DEF Resource
<1>4. r.exists \in BOOLEAN /\ r.deleting \in BOOLEAN /\ r.completed \in Nat
  BY DEF Resource
<1>5. (IF phase \in Terminal THEN n ELSE r.completed) \in Nat
  BY <1>1, <1>4
<1>6. WithPhase(r, phase) \in Resource /\ WithPhase(r, phase).rv = n
  BY <1>2, <1>3, <1>4, <1>5, Zenon DEF WithPhase, n
<1>7. WithProgress(r) \in Resource /\ WithProgress(r).rv = n
  BY <1>2, <1>3, <1>4, Zenon DEF WithProgress, n
<1>8. Fresh(r) \in Resource /\ Fresh(r).rv = n
  BY <1>2, <1>3 DEF Fresh, n
<1>9. Marked(r) \in Resource /\ Marked(r).rv = n
  BY <1>2, <1>3, <1>4 DEF Marked, n
<1>10. Gone(r) \in Resource /\ Gone(r).rv = n
  BY <1>2, <1>3 DEF Gone, n
<1> QED
  BY <1>6, <1>7, <1>8, <1>9, <1>10 DEF n

\* The inductive invariant holds in the initial state.
LEMMA ReindexInit == Init => ReindexInv
<1> SUFFICES ASSUME Init PROVE ReindexInv
  OBVIOUS
<1>1. \A j \in Jobs : rj[j] \in Resource /\ ~rj[j].exists
  BY DEF Init, Resource, Phases, Waiting
<1>2. rj \in [Jobs -> Resource]
  BY <1>1 DEF Init
<1>3. cached = rj /\ \A j \in Jobs : cached[j].rv <= rj[j].rv
  <2>1. cached = rj
    BY DEF Init
  <2>2. \A j \in Jobs : rj[j].rv \in Nat
    BY <1>1 DEF Resource
  <2> QED
    BY <2>1, <2>2
<1>4. /\ queue \subseteq Jobs /\ \A w \in Reconcilers : ctl[w] = Idle
      /\ ctl \in [Reconcilers -> Reconciling \cup {Idle}]
      /\ pod \in [Jobs -> Worker \cup {NoPod}]
  BY DEF Init
<1>5. job \in [Jobs -> BatchJob]
  <2>1. [state |-> "none", attempts |-> 0] \in BatchJob
    BY DEF BatchJob
  <2> QED
    BY <2>1 DEF Init
<1>6. /\ expired \in [Jobs -> Nat]
      /\ creates \in [Jobs -> Nat] /\ deletes \in Nat /\ reports \in Nat /\ faults \in Nat
  <2>1. /\ expired = [j \in Jobs |-> 0] /\ creates = [j \in Jobs |-> 0]
        /\ deletes = 0 /\ reports = 0 /\ faults = 0
    BY Zenon DEF Init
  <2> QED
    BY <2>1
<1> QED
  BY <1>1, <1>2, <1>3, <1>4, <1>5, <1>6 DEF ReindexInv, TypeOK, VersionInv

\* A step that changes at most one resource, and that one to a later version,
\* leaves true what the versions in the cache and the reconciles say.
LEMMA NewVersion ==
  ASSUME ReindexInv, NEW j \in Jobs, NEW r \in Resource, r.rv = rj[j].rv + 1,
         rj' = [rj EXCEPT ![j] = r],
         UNCHANGED cached,
         \A w \in Reconcilers : ctl'[w] = Idle \/ ctl'[w] = ctl[w]
  PROVE  /\ rj' \in [Jobs -> Resource] /\ cached' \in [Jobs -> Resource]
         /\ \A i \in Jobs : cached'[i].rv <= rj'[i].rv
         /\ \A w \in Reconcilers : ctl'[w] # Idle => ctl'[w].rv <= rj'[ctl'[w].job].rv
         /\ VersionInv'
<1> USE DEF ReindexInv, TypeOK
<1>1. rj' \in [Jobs -> Resource] /\ cached' \in [Jobs -> Resource]
  OBVIOUS
<1>2. \A i \in Jobs : rj'[i].rv \in Nat /\ cached[i].rv \in Nat /\ rj[i].rv \in Nat
  BY <1>1 DEF Resource
<1>3. \A i \in Jobs : /\ cached[i].rv <= rj[i].rv
                      /\ i # j => rj'[i] = rj[i]
                      /\ i = j => rj'[i].rv = rj[i].rv + 1
  OBVIOUS
<1>4. \A i \in Jobs : cached'[i].rv <= rj'[i].rv
  BY <1>2, <1>3
<1>5. \A w \in Reconcilers : ctl[w] # Idle =>
        /\ ctl[w].job \in Jobs /\ ctl[w].rv \in Nat
        /\ ctl[w].rv <= rj[ctl[w].job].rv
  BY DEF Reconciling
<1>6. \A w \in Reconcilers : ctl'[w] # Idle =>
        /\ ctl'[w] = ctl[w] /\ ctl[w].job \in Jobs
        /\ ctl[w].rv <= rj[ctl[w].job].rv /\ ctl[w].rv \in Nat
  BY <1>5
<1>7. \A w \in Reconcilers : ctl'[w] # Idle => ctl'[w].rv <= rj'[ctl'[w].job].rv
  BY <1>2, <1>3, <1>6
<1>8. \A i \in Jobs : cached'[i].rv = rj'[i].rv =>
        cached'[i].exists = rj'[i].exists /\ cached'[i].phase = rj'[i].phase
  BY <1>2, <1>3 DEF VersionInv
<1>9. \A w \in Reconcilers :
        ctl'[w] # Idle /\ ctl'[w].at \in {"lookup", "pending", "create", "running"} =>
          (ctl'[w].rv = rj'[ctl'[w].job].rv => ~Finished(rj'[ctl'[w].job]))
  <2> SUFFICES ASSUME NEW w \in Reconcilers, ctl'[w] # Idle,
                      ctl'[w].at \in {"lookup", "pending", "create", "running"},
                      ctl'[w].rv = rj'[ctl'[w].job].rv
               PROVE  ~Finished(rj'[ctl'[w].job])
    OBVIOUS
  <2>1. ctl[w].job # j
    BY <1>2, <1>3, <1>6
  <2>2. rj'[ctl'[w].job] = rj[ctl[w].job] /\ ctl'[w] = ctl[w]
    BY <2>1, <1>3, <1>6
  <2> QED
    BY <2>2 DEF VersionInv
<1> QED
  BY <1>1, <1>4, <1>7, <1>8, <1>9 DEF VersionInv

\* A step that changes neither the resources nor the cache, and begins no
\* reconcile, leaves it true as well.
LEMMA SameVersions ==
  ASSUME ReindexInv, UNCHANGED <<rj, cached>>,
         \A w \in Reconcilers :
           \/ ctl'[w] = Idle
           \/ /\ ctl[w] # Idle /\ ctl'[w] # Idle
              /\ ctl'[w].rv = ctl[w].rv /\ ctl'[w].job = ctl[w].job
              /\ \/ ctl'[w].at = ctl[w].at
                 \/ ctl[w].at \in {"lookup", "pending", "create", "running"}
  PROVE  /\ \A i \in Jobs : cached'[i].rv <= rj'[i].rv
         /\ \A w \in Reconcilers : ctl'[w] # Idle => ctl'[w].rv <= rj'[ctl'[w].job].rv
         /\ VersionInv'
BY DEF ReindexInv, TypeOK, VersionInv

\* Users, the informer and the clock preserve the invariant.
LEMMA ReindexApi ==
  ASSUME ReindexInv, NEW j \in Jobs, User(j) \/ ApiServer(j)
  PROVE  ReindexInv'
<1> USE DEF ReindexInv
<1>0. rj[j] \in Resource /\ cached[j] \in Resource
  BY DEF TypeOK
<1>1. CASE Create(j)
  <2>1. rj' = [rj EXCEPT ![j] = Fresh(rj[j])] /\ UNCHANGED <<cached, ctl>>
    BY <1>1 DEF Create, UserKeeps
  <2>2. creates' \in [Jobs -> Nat]
    BY <1>1 DEF Create, TypeOK
  <2>3. Fresh(rj[j]) \in Resource /\ Fresh(rj[j]).rv = rj[j].rv + 1
    BY <1>0, WriteType DEF Phases, Terminal
  <2> QED
    BY <1>1, <2>1, <2>2, <2>3, NewVersion DEF Create, UserKeeps, TypeOK, jobVars
<1>2. CASE UserDeletes(j)
  <2>1. PICK r \in Resource : r.rv = rj[j].rv + 1 /\ rj' = [rj EXCEPT ![j] = r]
    BY <1>0, <1>2, WriteType DEF UserDeletes, Phases, Terminal
  <2>2. deletes' \in Nat
    BY <1>2 DEF UserDeletes, TypeOK
  <2> QED
    BY <1>2, <2>1, <2>2, NewVersion DEF UserDeletes, UserKeeps, TypeOK, jobVars
<1>3. CASE CollectGarbage(j)
  <2>1. rj' = [rj EXCEPT ![j] = Gone(rj[j])] /\ UNCHANGED <<cached, ctl>>
    BY <1>3 DEF CollectGarbage, UserKeeps
  <2>2. Gone(rj[j]) \in Resource /\ Gone(rj[j]).rv = rj[j].rv + 1
    BY <1>0, WriteType DEF Phases, Terminal
  <2> QED
    BY <1>3, <2>1, <2>2, NewVersion DEF CollectGarbage, UserKeeps, TypeOK, jobVars
<1>4. CASE Notify(j)
  <2>1. cached' = [cached EXCEPT ![j] = rj[j]] /\ UNCHANGED <<rj, ctl>>
    BY <1>4 DEF Notify
  <2>2. queue' \subseteq Jobs /\ faults' \in Nat
    BY <1>4 DEF Notify, TypeOK, Fault, NoFault
  <2>3. TypeOK'
    <3>1. \A i \in Jobs : cached'[i].rv <= rj'[i].rv
      BY <2>1 DEF TypeOK, Resource
    <3> QED
      BY <1>4, <2>1, <2>2, <3>1 DEF Notify, TypeOK, jobVars
  <2>4. VersionInv'
    BY <2>1 DEF VersionInv, TypeOK
  <2> QED
    BY <2>3, <2>4
<1>5. CASE TTLPasses(j)
  <2>1. expired' \in [Jobs -> Nat]
    BY <1>0, <1>5 DEF TTLPasses, TypeOK, Resource
  <2>2. UNCHANGED <<rj, cached, queue, ctl, jobVars, boundVars>>
    BY <1>5 DEF TTLPasses
  <2> QED
    BY <2>1, <2>2 DEF TypeOK, VersionInv, jobVars, boundVars
<1> QED
  BY <1>1, <1>2, <1>3, <1>4, <1>5 DEF User, ApiServer

\* The ways a reconcile goes on or ends keep the work queue and the reconciles
\* well formed, and begin no reconcile.
LEMMA ReconcileEnds ==
  ASSUME TypeOK, NEW w \in Reconcilers, ctl[w] # Idle, Done(w) \/ Requeue(w)
  PROVE  /\ ctl' \in [Reconcilers -> Reconciling \cup {Idle}] /\ queue' \subseteq Jobs
         /\ \A v \in Reconcilers : ctl'[v] = Idle \/ (v # w /\ ctl'[v] = ctl[v])
<1>1. ctl[w].job \in Jobs
  BY DEF TypeOK, Reconciling
<1> QED
  BY <1>1 DEF Done, Requeue, TypeOK

\* The same when it goes on to its next call.
LEMMA ReconcileProceeds ==
  ASSUME TypeOK, NEW w \in Reconcilers, ctl[w] # Idle,
         NEW at \in {"pending", "create", "running"}, Proceed(w, at)
  PROVE  /\ ctl' \in [Reconcilers -> Reconciling \cup {Idle}] /\ queue' \subseteq Jobs
         /\ ctl'[w] # Idle /\ ctl'[w].rv = ctl[w].rv /\ ctl'[w].job = ctl[w].job
         /\ \A v \in Reconcilers : v # w => ctl'[v] = ctl[v]
<1>1. ctl[w] \in Reconciling
  BY DEF TypeOK
<1>2. [ctl[w] EXCEPT !.at = at] \in Reconciling
  BY <1>1 DEF Reconciling
<1>3. ctl' = [ctl EXCEPT ![w] = [ctl[w] EXCEPT !.at = at]] /\ queue' = queue
  BY DEF Proceed
<1>4. /\ [ctl[w] EXCEPT !.at = at].rv = ctl[w].rv
      /\ [ctl[w] EXCEPT !.at = at].job = ctl[w].job
      /\ [ctl[w] EXCEPT !.at = at].at = at
  BY <1>1 DEF Reconciling
<1>5. ctl'[w] = [ctl[w] EXCEPT !.at = at]
  BY <1>3 DEF TypeOK
<1> QED
  BY <1>2, <1>3, <1>4, <1>5 DEF TypeOK, Idle

\* A reconcile begins with a version the cache holds, so with a phase that is
\* the current one if the version is.
LEMMA ReconcileBegins ==
  ASSUME ReindexInv, NEW w \in Reconcilers, NEW j \in Jobs,
         NEW at \in {"lookup", "delete", "cleanup"}, Begin(w, j, at),
         RunningCount \in Nat,
         at = "lookup" => cached[j].phase \notin Terminal,
         UNCHANGED <<rj, cached>>
  PROVE  /\ ctl' \in [Reconcilers -> Reconciling \cup {Idle}] /\ queue' \subseteq Jobs
         /\ \A v \in Reconcilers : ctl'[v] # Idle => ctl'[v].rv <= rj'[ctl'[v].job].rv
         /\ VersionInv'
<1> DEFINE c == [at |-> at, job |-> j, rv |-> cached[j].rv,
                 phase |-> cached[j].phase, count |-> RunningCount]
<1>1. cached[j] \in Resource /\ cached[j].rv <= rj[j].rv
  BY DEF ReindexInv, TypeOK
<1>2. c \in Reconciling
  BY <1>1 DEF Resource, Reconciling
<1>3. c.at = at /\ c.job = j /\ c.rv = cached[j].rv
  OBVIOUS
<1>4. ctl' = [ctl EXCEPT ![w] = c] /\ queue' = queue \ {j}
  BY DEF Begin
<1> HIDE DEF c
<1>5. ctl' \in [Reconcilers -> Reconciling \cup {Idle}] /\ queue' \subseteq Jobs
  BY <1>2, <1>4 DEF ReindexInv, TypeOK
<1>6. ctl'[w] = c /\ \A v \in Reconcilers : v # w => ctl'[v] = ctl[v]
  BY <1>4 DEF ReindexInv, TypeOK
<1>7. \A v \in Reconcilers : ctl'[v] # Idle => ctl'[v].rv <= rj'[ctl'[v].job].rv
  BY <1>1, <1>3, <1>6 DEF ReindexInv, TypeOK
<1>8. c.at = "lookup" /\ c.rv = rj[j].rv => ~Finished(rj[j])
  BY <1>3 DEF ReindexInv, VersionInv, Finished
<1>9. VersionInv'
  <2>1. \A i \in Jobs : cached'[i].rv = rj'[i].rv =>
          cached'[i].exists = rj'[i].exists /\ cached'[i].phase = rj'[i].phase
    BY DEF ReindexInv, VersionInv
  <2>2. ASSUME NEW v \in Reconcilers, ctl'[v] # Idle,
               ctl'[v].at \in {"lookup", "pending", "create", "running"},
               ctl'[v].rv = rj'[ctl'[v].job].rv
        PROVE  ~Finished(rj'[ctl'[v].job])
    <3>1. CASE v = w
      BY <1>3, <1>6, <1>8, <2>2, <3>1
    <3>2. CASE v # w
      BY <1>6, <2>2, <3>2 DEF ReindexInv, VersionInv
    <3> QED
      BY <3>1, <3>2
  <2> QED
    BY <2>1, <2>2 DEF VersionInv
<1> QED
  BY <1>5, <1>7, <1>9

\* What the bounds and the concurrency check count are numbers.
LEMMA CountType ==
  /\ RunningCount \in Nat
  /\ TypeOK /\ (Fault \/ NoFault) => faults' \in Nat
<1> DEFINE running == {j \in Jobs : job[j].state \in {"active", "failed"}}
<1>1. IsFiniteSet(running)
  BY JobsAssumption, FS_Subset
<1>2. Cardinality(running) \in Nat
  BY <1>1, FS_CardinalityType
<1> QED
  BY <1>2 DEF RunningCount, Fault, NoFault, TypeOK

\* Taking a ReindexJob from the work queue preserves the invariant.
LEMMA ReindexPick ==
  ASSUME ReindexInv, NEW w \in Reconcilers, NEW j \in Jobs,
         \/ ReconcileGone(w, j) \/ ReconcileDeleting(w, j)
         \/ HandleTTLCleanup(w, j) \/ ReconcileUnfinished(w, j)
  PROVE  ReindexInv'
<1>1. UNCHANGED <<rj, jobVars, faults, cached, expired, creates, deletes, reports>>
  BY DEF ReconcileGone, ReconcileDeleting, HandleTTLCleanup, ReconcileUnfinished,
         Picked, ControllerKeeps
<1>2. \/ queue' \subseteq queue /\ UNCHANGED ctl
      \/ \E at \in {"lookup", "delete", "cleanup"} :
           Begin(w, j, at) /\ (at = "lookup" => cached[j].phase \notin Terminal)
  BY DEF ReconcileGone, ReconcileDeleting, HandleTTLCleanup, ReconcileUnfinished,
         RequeueAfterTTL
<1>3. CASE queue' \subseteq queue /\ UNCHANGED ctl
  BY <1>1, <1>3 DEF ReindexInv, TypeOK, VersionInv, jobVars
<1>4. CASE \E at \in {"lookup", "delete", "cleanup"} :
             Begin(w, j, at) /\ (at = "lookup" => cached[j].phase \notin Terminal)
  <2>1. /\ ctl' \in [Reconcilers -> Reconciling \cup {Idle}] /\ queue' \subseteq Jobs
        /\ \A v \in Reconcilers : ctl'[v] # Idle => ctl'[v].rv <= rj'[ctl'[v].job].rv
        /\ VersionInv'
    BY <1>1, <1>4, ReconcileBegins, CountType
  <2> QED
    BY <1>1, <2>1 DEF ReindexInv, TypeOK, jobVars
<1> QED
  BY <1>2, <1>3, <1>4

\* A status write of the controller, refused, lost or taking effect, preserves
\* what it touches.
LEMMA ReindexStatus ==
  ASSUME ReindexInv, NEW w \in Reconcilers,
         NEW at \in {"pending", "running"}, NEW phase \in Phases,
         UpdateStatus(w, at, phase)
  PROVE  ReindexInv'
<1>1. ctl[w] # Idle /\ ctl[w].job \in Jobs
  BY DEF UpdateStatus, ReindexInv, TypeOK, Reconciling, Idle
<1>2. /\ ctl' \in [Reconcilers -> Reconciling \cup {Idle}] /\ queue' \subseteq Jobs
      /\ \A v \in Reconcilers : ctl'[v] = Idle \/ (v # w /\ ctl'[v] = ctl[v])
  BY <1>1, ReconcileEnds DEF UpdateStatus, ReindexInv
<1>3. faults' \in Nat
  BY CountType DEF UpdateStatus, ReindexInv
<1>4. UNCHANGED <<jobVars, cached, expired, creates, deletes, reports>>
  BY DEF UpdateStatus, ControllerKeeps
<1> DEFINE j == ctl[w].job
           r == WithPhase(rj[j], phase)
<1>5. CASE rj' = [rj EXCEPT ![j] = r]
  <2>1. r \in Resource /\ r.rv = rj[j].rv + 1
    BY <1>1, WriteType DEF ReindexInv, TypeOK
  <2> HIDE DEF j, r
  <2>2. j \in Jobs
    BY <1>1 DEF j
  <2> QED
    BY <1>2, <1>3, <1>4, <1>5, <2>1, <2>2, NewVersion DEF ReindexInv, TypeOK, jobVars
<1>6. CASE UNCHANGED rj
  <2>1. \A v \in Reconcilers :
           \/ ctl'[v] = Idle
           \/ /\ ctl[v] # Idle /\ ctl'[v] # Idle
              /\ ctl'[v].rv = ctl[v].rv /\ ctl'[v].job = ctl[v].job
              /\ \/ ctl'[v].at = ctl[v].at
                 \/ ctl[v].at \in {"lookup", "pending", "create", "running"}
    BY <1>2
  <2> QED
    BY <1>2, <1>3, <1>4, <1>6, <2>1, SameVersions DEF ReindexInv, TypeOK, jobVars
<1> QED
  BY <1>5, <1>6 DEF UpdateStatus

\* A call of the controller that leaves the resources alone: a reconcile ends or
\* goes on, and the Job it created or deleted is well formed.
LEMMA ReindexQuiet ==
  ASSUME ReindexInv, NEW w \in Reconcilers,
         ctl[w] # Idle,
         \/ Done(w) \/ Requeue(w)
         \/ /\ ctl[w].at \in {"lookup", "create"}
            /\ \E at \in {"pending", "create", "running"} : Proceed(w, at),
         UNCHANGED <<rj, cached, expired, creates, deletes, reports>>,
         job' \in [Jobs -> BatchJob], pod' \in [Jobs -> Worker \cup {NoPod}],
         faults' \in Nat
  PROVE  ReindexInv'
<1>1. /\ ctl' \in [Reconcilers -> Reconciling \cup {Idle}] /\ queue' \subseteq Jobs
      /\ \A v \in Reconcilers :
           \/ ctl'[v] = Idle
           \/ /\ ctl[v] # Idle /\ ctl'[v] # Idle
              /\ ctl'[v].rv = ctl[v].rv /\ ctl'[v].job = ctl[v].job
              /\ \/ ctl'[v].at = ctl[v].at
                 \/ ctl[v].at \in {"lookup", "pending", "create", "running"}
  <2>1. CASE Done(w) \/ Requeue(w)
    BY <2>1, ReconcileEnds DEF ReindexInv
  <2>2. CASE /\ ctl[w].at \in {"lookup", "create"}
             /\ \E at \in {"pending", "create", "running"} : Proceed(w, at)
    <3>1. /\ ctl' \in [Reconcilers -> Reconciling \cup {Idle}] /\ queue' \subseteq Jobs
          /\ ctl'[w] # Idle /\ ctl'[w].rv = ctl[w].rv /\ ctl'[w].job = ctl[w].job
          /\ \A v \in Reconcilers : v # w => ctl'[v] = ctl[v]
      BY <2>2, ReconcileProceeds DEF ReindexInv
    <3> QED
      BY <2>2, <3>1
  <2> QED
    BY <2>1, <2>2
<1>2. /\ \A i \in Jobs : cached'[i].rv <= rj'[i].rv
      /\ \A v \in Reconcilers : ctl'[v] # Idle => ctl'[v].rv <= rj'[ctl'[v].job].rv
      /\ VersionInv'
  BY <1>1, SameVersions
<1> QED
  BY <1>1, <1>2 DEF ReindexInv, TypeOK

\* The Job controller's view of a Job without a history.
LEMMA NewJobType ==
  /\ [state |-> "active", attempts |-> 0] \in BatchJob
  /\ [state |-> "none", attempts |-> 0] \in BatchJob
BY DEF BatchJob

\* Every step of a reconcile preserves the invariant.
LEMMA ReindexReconcile ==
  ASSUME ReindexInv, NEW w \in Reconcilers, Reconcile(w)
  PROVE  ReindexInv'
<1>0. /\ TypeOK /\ job \in [Jobs -> BatchJob] /\ pod \in [Jobs -> Worker \cup {NoPod}]
  BY DEF ReindexInv, TypeOK
<1>1. ASSUME ctl[w].at # "idle" PROVE ctl[w] # Idle /\ ctl[w].job \in Jobs
  BY <1>0, <1>1 DEF TypeOK, Reconciling, Idle
<1>2. ASSUME NEW j \in Jobs,
             \/ ReconcileGone(w, j) \/ ReconcileDeleting(w, j)
             \/ HandleTTLCleanup(w, j) \/ ReconcileUnfinished(w, j)
      PROVE  ReindexInv'
  BY <1>2, ReindexPick
<1>3. CASE Lookup(w)
  <2>1. ctl[w].at = "lookup" /\ ctl[w] # Idle
    BY <1>1, <1>3 DEF Lookup
  <2>2. \/ Done(w) \/ Requeue(w)
        \/ \E at \in {"pending", "create", "running"} : Proceed(w, at)
    BY <1>3 DEF Lookup, CheckJobStatus
  <2>3. UNCHANGED <<rj, job, pod, cached, expired, creates, deletes, reports, faults>>
    BY <1>3 DEF Lookup, ControllerKeeps, NoFault, jobVars
  <2>4. faults' \in Nat
    BY <1>0, <2>3 DEF TypeOK
  <2> QED
    BY <1>0, <2>1, <2>2, <2>3, <2>4, ReindexQuiet
<1>4. CASE LookupFails(w)
  <2>1. ctl[w] # Idle /\ Requeue(w)
    BY <1>1, <1>4 DEF LookupFails
  <2>2. UNCHANGED <<rj, job, pod, cached, expired, creates, deletes, reports>>
    BY <1>4 DEF LookupFails, ControllerKeeps, jobVars
  <2>3. faults' \in Nat
    BY <1>0, <1>4, CountType DEF LookupFails
  <2> QED
    BY <1>0, <2>1, <2>2, <2>3, ReindexQuiet
<1>5. CASE SetPending(w)
  BY <1>0, <1>5, ReindexStatus DEF SetPending, Phases, Waiting
<1>6. CASE CreateJob(w)
  <2>1. ctl[w].at = "create" /\ ctl[w] # Idle /\ ctl[w].job \in Jobs
    BY <1>1, <1>6 DEF CreateJob
  <2>2. Requeue(w) \/ Proceed(w, "running")
    BY <1>6 DEF CreateJob
  <2>3. UNCHANGED <<rj, pod, cached, expired, creates, deletes, reports>>
    BY <1>6 DEF CreateJob, ControllerKeeps
  <2>4. faults' \in Nat
    BY <1>0, <1>6, CountType DEF CreateJob
  <2>5. job' \in [Jobs -> BatchJob]
    BY <1>0, <1>6, <2>1, NewJobType DEF CreateJob
  <2> QED
    BY <1>0, <2>1, <2>2, <2>3, <2>4, <2>5, ReindexQuiet
<1>7. CASE SetRunning(w)
  BY <1>7, ReindexStatus DEF SetRunning, Phases
<1>8. CASE DeleteExpired(w)
  <2> DEFINE j == ctl[w].job
             r == Gone(rj[j])
  <2>1. ctl[w] # Idle /\ j \in Jobs
    BY <1>1, <1>8 DEF DeleteExpired
  <2>2. Done(w) \/ Requeue(w)
    BY <1>8 DEF DeleteExpired
  <2>3. UNCHANGED <<job, pod, cached, expired, creates, deletes, reports>>
    BY <1>8 DEF DeleteExpired, ControllerKeeps, jobVars
  <2>4. faults' \in Nat
    BY <1>0, <1>8, CountType DEF DeleteExpired
  <2>5. UNCHANGED rj \/ rj' = [rj EXCEPT ![j] = r]
    BY <1>8 DEF DeleteExpired
  <2>6. CASE UNCHANGED rj
    BY <1>0, <2>1, <2>2, <2>3, <2>4, <2>6, ReindexQuiet
  <2>7. CASE rj' = [rj EXCEPT ![j] = r]
    <3>1. r \in Resource /\ r.rv = rj[j].rv + 1
      BY <1>0, <2>1, WriteType DEF TypeOK, Phases, Terminal
    <3>2. /\ ctl' \in [Reconcilers -> Reconciling \cup {Idle}] /\ queue' \subseteq Jobs
          /\ \A v \in Reconcilers : ctl'[v] = Idle \/ (v # w /\ ctl'[v] = ctl[v])
      BY <1>0, <2>1, <2>2, ReconcileEnds
    <3> HIDE DEF j, r
    <3> QED
      BY <1>0, <2>1, <2>3, <2>4, <2>7, <3>1, <3>2, NewVersion DEF ReindexInv, TypeOK
  <2> QED
    BY <2>5, <2>6, <2>7
<1>9. CASE HandleDeletion(w)
  <2>1. ctl[w] # Idle /\ ctl[w].job \in Jobs
    BY <1>1, <1>9 DEF HandleDeletion
  <2>2. Done(w) \/ Requeue(w)
    BY <1>9 DEF HandleDeletion
  <2>3. UNCHANGED <<rj, cached, expired, creates, deletes, reports>>
    BY <1>9 DEF HandleDeletion, ControllerKeeps
  <2>4. faults' \in Nat
    BY <1>0, <1>9, CountType DEF HandleDeletion
  <2>5. job' \in [Jobs -> BatchJob]
    BY <1>0, <1>9, <2>1, NewJobType DEF HandleDeletion, jobVars
  <2>6. pod' \in [Jobs -> Worker \cup {NoPod}]
    BY <1>0, <1>9, <2>1 DEF HandleDeletion, jobVars
  <2> QED
    BY <1>0, <2>1, <2>2, <2>3, <2>4, <2>5, <2>6, ReindexQuiet
<1> QED
  BY <1>2, <1>3, <1>4, <1>5, <1>6, <1>7, <1>8, <1>9 DEF Reconcile

\* Whatever way a worker ends, its Job and its pod stay well formed.
LEMMA PodEnds ==
  ASSUME TypeOK, NEW j \in Jobs, PodFails(j) \/ PodSucceeds(j)
  PROVE  job' \in [Jobs -> BatchJob] /\ pod' \in [Jobs -> Worker \cup {NoPod}]
<1>1. pod' \in [Jobs -> Worker \cup {NoPod}]
  BY DEF PodFails, PodSucceeds, TypeOK
<1>2. job[j] \in BatchJob
  BY DEF TypeOK
<1>3. PICK b : job' = [job EXCEPT ![j] = b] /\ b \in BatchJob
  <2>1. CASE PodSucceeds(j)
    <3>1. [job[j] EXCEPT !.state = IF @ = "active" THEN "complete" ELSE @] \in BatchJob
      BY <1>2 DEF BatchJob
    <3> QED
      BY <2>1, <3>1 DEF PodSucceeds
  <2>2. CASE PodFails(j)
    <3> DEFINE n == job[j].attempts + 1
    <3>1. n \in Nat /\ job[j].attempts \in Nat
      BY <1>2 DEF BatchJob
    <3>2. [job[j] EXCEPT !.attempts = n] \in BatchJob
      <4> HIDE DEF n
      <4> QED
        BY <1>2, <3>1 DEF BatchJob
    <3>3. [job[j] EXCEPT !.state = "failed"] \in BatchJob
      BY <1>2 DEF BatchJob
    <3>4. \/ job[j].state # "active"
          \/ job[j].state = "active" /\ job[j].attempts < BackoffLimit
          \/ job[j].state = "active" /\ job[j].attempts >= BackoffLimit
      BY <3>1, LimitsAssumption
    <3> DEFINE b == CASE job[j].state # "active" -> job[j]
                      [] job[j].state = "active" /\ job[j].attempts < BackoffLimit ->
                           [job[j] EXCEPT !.attempts = n]
                      [] job[j].state = "active" /\ job[j].attempts >= BackoffLimit ->
                           [job[j] EXCEPT !.state = "failed"]
    <3>5. job' = [job EXCEPT ![j] = b]
      BY <2>2 DEF PodFails
    <3>6. b \in BatchJob
      <4> HIDE DEF n
      <4>1. CASE job[j].state # "active"
        BY <1>2, <4>1
      <4>2. CASE job[j].state = "active" /\ job[j].attempts < BackoffLimit
        <5>1. ~(job[j].attempts >= BackoffLimit)
          BY <3>1, <4>2, LimitsAssumption
        <5> QED
          BY <3>2, <4>2, <5>1
      <4>3. CASE job[j].state = "active" /\ job[j].attempts >= BackoffLimit
        <5>1. ~(job[j].attempts < BackoffLimit)
          BY <3>1, <4>3, LimitsAssumption
        <5> QED
          BY <3>3, <4>3, <5>1
      <4> QED
        BY <3>4, <4>1, <4>2, <4>3
    <3> QED
      BY <3>5, <3>6
  <2> QED
    BY <2>1, <2>2
<1> QED
  BY <1>1, <1>3 DEF TypeOK

\* A step of a worker or of the Job controller writes at most one resource, once.
LEMMA ReindexOutside ==
  ASSUME ReindexInv, NEW j \in Jobs,
         UNCHANGED rj \/ \E r \in Resource : /\ r.rv = rj[j].rv + 1
                                             /\ rj' = [rj EXCEPT ![j] = r],
         job' \in [Jobs -> BatchJob], pod' \in [Jobs -> Worker \cup {NoPod}],
         reports' \in Nat, faults' \in Nat, PodKeeps
  PROVE  ReindexInv'
<1>1. UNCHANGED <<cached, queue, ctl, expired, creates, deletes>>
  BY DEF PodKeeps
<1>2. CASE UNCHANGED rj
  BY <1>1, <1>2 DEF ReindexInv, TypeOK, VersionInv
<1>3. CASE \E r \in Resource : r.rv = rj[j].rv + 1 /\ rj' = [rj EXCEPT ![j] = r]
  <2>1. /\ rj' \in [Jobs -> Resource] /\ cached' \in [Jobs -> Resource]
        /\ \A i \in Jobs : cached'[i].rv <= rj'[i].rv
        /\ \A w \in Reconcilers : ctl'[w] # Idle => ctl'[w].rv <= rj'[ctl'[w].job].rv
        /\ VersionInv'
    BY <1>1, <1>3, NewVersion
  <2> QED
    BY <1>1, <2>1 DEF ReindexInv, TypeOK
<1> QED
  BY <1>2, <1>3

\* Workers and the Job controller preserve the invariant.
LEMMA ReindexWorkers ==
  ASSUME ReindexInv, NEW j \in Jobs,
         RunReindexWorker(j) \/ StartPod(j) \/ LosePod(j) \/ JobExpires(j)
  PROVE  ReindexInv'
<1>0. /\ TypeOK /\ job \in [Jobs -> BatchJob] /\ pod \in [Jobs -> Worker \cup {NoPod}]
      /\ rj \in [Jobs -> Resource] /\ rj[j] \in Resource /\ rj[j].rv \in Nat
      /\ reports \in Nat
  BY DEF ReindexInv, TypeOK, Resource
<1>1. ASSUME NEW at \in {"setRunning", "setSucceeded", "setFailed"}, Reads(j, at)
      PROVE  job' \in [Jobs -> BatchJob] /\ pod' \in [Jobs -> Worker \cup {NoPod}]
  <2>1. [at |-> at, rv |-> rj[j].rv] \in Worker
    BY <1>0 DEF Worker
  <2> QED
    BY <1>0, <1>1, <2>1 DEF Reads
<1>2. ASSUME NEW phase \in Phases, UpdateJobPhase(j, phase) \/ UpdateJobPhaseFails(j, phase)
      PROVE  /\ faults' \in Nat
             /\ UNCHANGED rj \/ \E r \in Resource : /\ r.rv = rj[j].rv + 1
                                                     /\ rj' = [rj EXCEPT ![j] = r]
  <2>1. WithPhase(rj[j], phase) \in Resource /\ WithPhase(rj[j], phase).rv = rj[j].rv + 1
    BY <1>0, WriteType
  <2>2. UNCHANGED rj \/ rj' = [rj EXCEPT ![j] = WithPhase(rj[j], phase)]
    BY <1>2 DEF UpdateJobPhase, UpdateJobPhaseFails
  <2>3. faults' \in Nat
    BY <1>0, <1>2, CountType DEF UpdateJobPhase, UpdateJobPhaseFails
  <2> QED
    BY <2>1, <2>2, <2>3
<1>3. "Running" \in Phases /\ "Succeeded" \in Phases /\ "Failed" \in Phases
  BY DEF Phases, Terminal
<1>4. CASE StartPod(j)
  <2>1. [at |-> "boot", rv |-> 0] \in Worker
    BY DEF Worker
  <2>2. pod' \in [Jobs -> Worker \cup {NoPod}]
    BY <1>0, <1>4, <2>1 DEF StartPod
  <2>3. faults' \in Nat
    BY <1>0, <1>4, CountType DEF StartPod
  <2> QED
    BY <1>0, <1>4, <2>2, <2>3, ReindexOutside DEF StartPod
<1>5. CASE LosePod(j)
  <2>1. faults' \in Nat
    BY <1>0, <1>5, CountType DEF LosePod
  <2> QED
    BY <1>0, <1>5, <2>1, PodEnds, ReindexOutside DEF LosePod
<1>6. CASE JobExpires(j)
  <2>1. job' \in [Jobs -> BatchJob]
    BY <1>0, <1>6, NewJobType DEF JobExpires
  <2>2. faults' \in Nat
    BY <1>0, <1>6, CountType DEF JobExpires
  <2> QED
    BY <1>0, <1>6, <2>1, <2>2, ReindexOutside DEF JobExpires
<1>7. CASE Boot(j) \/ RunSucceeds(j) \/ RunFails(j)
  <2>1. faults' \in Nat
    BY <1>0, <1>7, CountType DEF Boot, RunSucceeds, RunFails
  <2>2. job' \in [Jobs -> BatchJob] /\ pod' \in [Jobs -> Worker \cup {NoPod}]
    <3>1. \/ \E at \in {"setRunning", "setSucceeded", "setFailed"} : Reads(j, at)
          \/ PodFails(j) \/ PodSucceeds(j)
      BY <1>7 DEF Boot, RunSucceeds, RunFails
    <3> QED
      BY <1>0, <1>1, <3>1, PodEnds
  <2>3. UNCHANGED <<rj, reports>> /\ PodKeeps
    BY <1>7 DEF Boot, RunSucceeds, RunFails
  <2> QED
    BY <1>0, <2>1, <2>2, <2>3, ReindexOutside
<1>8. CASE ReportRunning(j)
  <2>1. UpdateJobPhase(j, "Running") \/ UpdateJobPhaseFails(j, "Running")
    BY <1>8 DEF ReportRunning
  <2>2. job' \in [Jobs -> BatchJob] /\ pod' \in [Jobs -> Worker \cup {NoPod}]
    <3>1. CASE PodFails(j)
      BY <1>0, <3>1, PodEnds
    <3>2. CASE pod' = [pod EXCEPT ![j].at = "run"] /\ UNCHANGED job
      <4>1. pod[j] \in Worker
        BY <1>0, <1>8 DEF ReportRunning, NoPod
      <4>2. [pod[j] EXCEPT !.at = "run"] \in Worker
        BY <4>1 DEF Worker
      <4> QED
        BY <1>0, <3>2, <4>2
    <3> QED
      BY <1>8, <3>1, <3>2 DEF ReportRunning
  <2>3. UNCHANGED reports /\ PodKeeps
    BY <1>8 DEF ReportRunning
  <2> QED
    BY <1>0, <1>2, <1>3, <2>1, <2>2, <2>3, ReindexOutside
<1>9. CASE ReportProgress(j)
  <2>1. /\ rj' = [rj EXCEPT ![j] = WithProgress(rj[j])] /\ reports' = reports + 1
        /\ UNCHANGED <<job, pod>> /\ NoFault /\ PodKeeps
    BY <1>9 DEF ReportProgress, jobVars
  <2>2. WithProgress(rj[j]) \in Resource /\ WithProgress(rj[j]).rv = rj[j].rv + 1
    BY <1>0, <1>3, WriteType
  <2>3. reports' \in Nat /\ faults' \in Nat
    BY <1>0, <2>1, CountType
  <2> QED
    BY <1>0, <2>1, <2>2, <2>3, ReindexOutside
<1>10. CASE ReportSucceeded(j) \/ ReportFailed(j)
  <2>1. \E phase \in Phases : UpdateJobPhase(j, phase) \/ UpdateJobPhaseFails(j, phase)
    BY <1>3, <1>10 DEF ReportSucceeded, ReportFailed
  <2>2. job' \in [Jobs -> BatchJob] /\ pod' \in [Jobs -> Worker \cup {NoPod}]
    <3>1. pod[j] \in Worker
      BY <1>0, <1>10 DEF ReportSucceeded, ReportFailed, NoPod
    <3>2. ASSUME NEW at \in {"succeeded", "failed"}
          PROVE  [pod[j] EXCEPT !.at = at] \in Worker
      BY <3>1 DEF Worker
    <3> QED
      BY <1>0, <1>10, <3>2 DEF ReportSucceeded, ReportFailed, Exiting
  <2>3. UNCHANGED reports /\ PodKeeps
    BY <1>10 DEF ReportSucceeded, ReportFailed
  <2> QED
    BY <1>0, <1>2, <2>1, <2>2, <2>3, ReindexOutside
<1>11. CASE Exit(j)
  <2>1. faults' \in Nat
    BY <1>0, <1>11, CountType DEF Exit
  <2> QED
    BY <1>0, <1>11, <2>1, PodEnds, ReindexOutside DEF Exit
<1> QED
  BY <1>4, <1>5, <1>6, <1>7, <1>8, <1>9, <1>10, <1>11 DEF RunReindexWorker

\* A controller that restarts knows the current versions.
LEMMA ReindexRestart ==
  ASSUME ReindexInv, RestartController
  PROVE  ReindexInv'
<1>1. /\ cached' = rj /\ UNCHANGED <<rj, job, pod, expired, creates, deletes, reports>>
      /\ ctl' = [w \in Reconcilers |-> Idle] /\ queue' \subseteq Jobs
  BY DEF RestartController, jobVars
<1>2. faults' \in Nat
  BY CountType DEF RestartController, ReindexInv
<1>3. \A j \in Jobs : cached'[j].rv <= rj'[j].rv
  <2>1. \A j \in Jobs : rj[j].rv \in Nat
    BY DEF ReindexInv, TypeOK, Resource
  <2> QED
    BY <1>1, <2>1
<1>4. VersionInv'
  BY <1>1 DEF VersionInv
<1> QED
  BY <1>1, <1>2, <1>3, <1>4 DEF ReindexInv, TypeOK

\* Every step preserves the invariant.
LEMMA ReindexStep == ReindexInv /\ [Next]_vars => ReindexInv'
<1> SUFFICES ASSUME ReindexInv, [Next]_vars PROVE ReindexInv'
  OBVIOUS
<1>1. CASE UNCHANGED vars
  BY <1>1 DEF vars, jobVars, boundVars, ReindexInv, TypeOK, VersionInv
<1>2. CASE Next
  BY <1>2, ReindexApi, ReindexWorkers, ReindexReconcile, ReindexRestart DEF Next
<1> QED
  BY <1>1, <1>2

\* Every step respects that a finished ReindexJob is kept: a reconcile carries a
\* version, and the version it would overwrite is not the one it decided on.
LEMMA KeptStep ==
  ASSUME ReindexInv, [Next]_vars, NEW j \in Jobs, Finished(rj[j]), rj'[j].exists
  PROVE  \/ rj'[j].phase \in Terminal
         \/ rj'[j].phase = "Running" /\ pod[j].at = "setRunning"
<1>0. /\ rj \in [Jobs -> Resource] /\ rj[j].phase \in Terminal /\ rj[j].exists
  BY DEF ReindexInv, TypeOK, Finished
<1>1. CASE UNCHANGED rj
  BY <1>0, <1>1
<1>2. ASSUME NEW i \in Jobs, User(i) \/ ApiServer(i) \/ StartPod(i) \/ LosePod(i) \/ JobExpires(i)
      PROVE  rj'[j].phase \in Terminal
  <2>1. \/ UNCHANGED rj
        \/ ~rj[i].exists /\ rj' = [rj EXCEPT ![i] = Fresh(rj[i])]
        \/ rj' = [rj EXCEPT ![i] = Gone(rj[i])]
        \/ rj' = [rj EXCEPT ![i] = Marked(rj[i])]
    BY <1>2 DEF User, ApiServer, StartPod, LosePod, JobExpires, Create, UserDeletes,
         CollectGarbage, Notify, TTLPasses
  <2>2. Gone(rj[i]).exists = FALSE /\ Marked(rj[i]).phase = rj[i].phase
    BY DEF Gone, Marked
  <2>3. CASE i = j
    <3>1. rj'[j] = rj[j] \/ rj'[j] = Gone(rj[j]) \/ rj'[j] = Marked(rj[j])
      BY <1>0, <2>1, <2>3
    <3> QED
      BY <1>0, <2>2, <2>3, <3>1
  <2>4. CASE i # j
    <3>1. rj'[j] = rj[j]
      BY <1>0, <2>1, <2>4
    <3> QED
      BY <1>0, <3>1
  <2> QED
    BY <2>3, <2>4
<1>3. ASSUME NEW i \in Jobs, RunReindexWorker(i)
      PROVE  \/ rj'[j].phase \in Terminal
             \/ rj'[j].phase = "Running" /\ pod[j].at = "setRunning"
  <2>1. ASSUME NEW phase, UpdateJobPhase(i, phase) \/ UpdateJobPhaseFails(i, phase)
        PROVE  rj'[j].phase = rj[j].phase \/ (i = j /\ rj'[j].phase = phase)
    BY <1>0, <2>1 DEF UpdateJobPhase, UpdateJobPhaseFails, WithPhase
  <2>2. CASE ReportRunning(i)
    BY <1>0, <2>1, <2>2 DEF ReportRunning
  <2>3. CASE ReportSucceeded(i) \/ ReportFailed(i)
    BY <1>0, <2>1, <2>3 DEF ReportSucceeded, ReportFailed, Terminal
  <2>4. CASE ReportProgress(i)
    BY <1>0, <2>4 DEF ReportProgress, WithProgress
  <2>5. CASE Boot(i) \/ RunSucceeds(i) \/ RunFails(i) \/ Exit(i)
    BY <1>0, <2>5 DEF Boot, RunSucceeds, RunFails, Exit
  <2> QED
    BY <1>3, <2>2, <2>3, <2>4, <2>5 DEF RunReindexWorker
<1>4. ASSUME NEW w \in Reconcilers, Reconcile(w)
      PROVE  rj'[j].phase \in Terminal
  <2>1. ASSUME NEW at \in {"pending", "running"}, NEW phase, UpdateStatus(w, at, phase)
        PROVE  rj'[j] = rj[j]
    <3>1. ctl[w] # Idle /\ ctl[w].at = at /\ ctl[w].job \in Jobs
      BY <2>1 DEF UpdateStatus, ReindexInv, TypeOK, Reconciling, Idle
    <3>2. CASE ctl[w].job = j
      <4>1. ~Current(j, ctl[w].rv)
        BY <3>1, <3>2 DEF Current, ReindexInv, VersionInv
      <4> QED
        BY <2>1, <3>2, <4>1 DEF UpdateStatus
    <3>3. CASE ctl[w].job # j
      BY <1>0, <2>1, <3>1, <3>3 DEF UpdateStatus
    <3> QED
      BY <3>2, <3>3
  <2>2. CASE SetPending(w) \/ SetRunning(w)
    BY <1>0, <2>1, <2>2 DEF SetPending, SetRunning
  <2>3. CASE DeleteExpired(w)
    <3>1. ctl[w].job \in Jobs
      BY <2>3 DEF DeleteExpired, ReindexInv, TypeOK, Reconciling, Idle
    <3>2. rj'[j] = rj[j] \/ rj'[j] = Gone(rj[j])
      BY <1>0, <2>3, <3>1 DEF DeleteExpired
    <3>3. Gone(rj[j]).exists = FALSE
      BY DEF Gone
    <3> QED
      BY <1>0, <3>2, <3>3
  <2>4. ASSUME \/ Lookup(w) \/ LookupFails(w) \/ CreateJob(w) \/ HandleDeletion(w)
               \/ \E i \in Jobs : \/ ReconcileGone(w, i) \/ ReconcileDeleting(w, i)
                                  \/ HandleTTLCleanup(w, i) \/ ReconcileUnfinished(w, i)
        PROVE  UNCHANGED rj
    BY <2>4 DEF Lookup, LookupFails, CreateJob, HandleDeletion, ReconcileGone,
         ReconcileDeleting, HandleTTLCleanup, ReconcileUnfinished, Picked
  <2> QED
    BY <1>0, <1>4, <2>2, <2>3, <2>4 DEF Reconcile
<1>5. CASE RestartController
  BY <1>1, <1>5 DEF RestartController
<1>6. CASE UNCHANGED vars
  BY <1>1, <1>6 DEF vars
<1> QED
  BY <1>2, <1>3, <1>4, <1>5, <1>6 DEF Next

\* The inductive invariant holds in every reachable state.
LEMMA ReindexInvariant == Spec => []ReindexInv
<1> QED
  BY ReindexInit, ReindexStep, PTL DEF Spec

\* For any number of ReindexJobs, reconcile workers, retries and faults: the
\* resources, reconciles and workers are well formed, and nobody holds a
\* resource version that was not given out.
THEOREM ReindexTypeCorrect == Spec => []TypeOK
<1>1. ReindexInv => TypeOK
  BY DEF ReindexInv
<1> QED
  BY <1>1, ReindexInvariant, PTL

\* A cached copy of the current version is the current object, and a reconcile
\* that could still write over it decided on one that is not finished.
THEOREM VersionsAreHonest == Spec => []VersionInv
<1>1. ReindexInv => VersionInv
  BY DEF ReindexInv
<1> QED
  BY <1>1, ReindexInvariant, PTL

\* The controller never queues or starts a finished ReindexJob again, however
\* stale its cache and however late its writes.
THEOREM FinishedIsNeverTakenBack == Spec => FinishedIsKept
<1>1. ReindexInv /\ [Next]_vars =>
        [\A j \in Jobs :
           Finished(rj[j]) /\ rj'[j].exists =>
             \/ rj'[j].phase \in Terminal
             \/ rj'[j].phase = "Running" /\ pod[j].at = "setRunning"]_vars
  BY KeptStep
<1> QED
  BY <1>1, ReindexInvariant, PTL DEF Spec, FinishedIsKept
=============================================================================
