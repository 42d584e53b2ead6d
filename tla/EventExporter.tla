--------------------------- MODULE EventExporter ---------------------------
(***************************************************************************)
(* The Kubernetes event exporter (internal/eventexporter): the informer's  *)
(* callback, the bounded queue, the goroutine that publishes, the ack      *)
(* waiters, the resolvers of scope and city, and Run with its shutdown.    *)
(* The API server, its informer and JetStream are external: a connection   *)
(* delivers in order, a publish whose message id is in the duplicate       *)
(* window is acknowledged and dropped, an ack can be lost.                 *)
(***************************************************************************)
EXTENDS Naturals, Sequences, FiniteSets

CONSTANTS
  Events,        \* Event objects, by UID
  Labelled,      \* events whose namespace carries both upstream labels
  PlaneType,     \* "", "management" or "edge"
  Capacity,      \* publishQueueSize
  MaxPending,    \* publishAsyncMaxPending
  MaxVersion,    \* bound: writes of one event
  MaxFaults,     \* bound: failed publishes, lost messages and acks
  MaxRuns        \* bound: runs of the process

ASSUME ExporterAssumption ==
  /\ Labelled \subseteq Events
  /\ PlaneType \in {"", "management", "edge"}
  /\ Capacity \in Nat \ {0} /\ MaxPending \in Nat \ {0}
  /\ MaxVersion \in Nat /\ MaxFaults \in Nat /\ MaxRuns \in Nat \ {0}

VARIABLES
  store,      \* resourceVersion of every event at the API server, 0: none
  known,      \* the informer's copy of it
  producer,   \* the informer's callback: where it is in enqueue, and its job
  queue,      \* the channel of eventJobs
  dropped,    \* droppedEvents
  drainer,    \* the goroutine in drainQueue, and its job
  waiting,    \* jobs with an ack waiter (inFlight)
  acked,      \* jobs whose ack is on its way
  wire,       \* publishes the broker has not received
  stream,     \* the EVENTS stream
  window,     \* message ids in its duplicate window
  namespaces, \* whether the namespace informer has synced
  city,       \* cityResolver.city
  cancelled,  \* the context
  main,       \* the goroutine in Run
  runs,       \* runs of the process so far
  errors,     \* whether publishErrors has counted any
  faults      \* how much of MaxFaults is used

informerVars == <<store, known>>
queueVars    == <<producer, queue, dropped>>
ackVars      == <<waiting, acked>>
brokerVars   == <<wire, stream, window>>
resolverVars == <<namespaces, city>>
runVars      == <<cancelled, main, runs>>
vars == <<informerVars, queueVars, drainer, ackVars, brokerVars, resolverVars,
          runVars, errors, faults>>

-----------------------------------------------------------------------------
Job == [event : Events, rv : 1..MaxVersion, type : {"ADDED", "MODIFIED"}]

Idle == [at |-> "idle"]

\* Mutant: an update has the id of the event.
QualifiedMsgID_NoVersion(job) == <<job.event, 0>>

\* A message id: the UID, for a MODIFIED event with its resourceVersion.  All
\* jobs of one exporter have the same plane and cluster.
QualifiedMsgID(job) ==
  <<job.event, IF job.type = "MODIFIED" THEN job.rv ELSE 0>>

\* namespaceScopeResolver.Resolve: the namespace is in the lister's cache and
\* carries both upstream labels.
Resolve(e) == namespaces /\ e \in Labelled

\* The scope an event is published with: the deployment's own, or at the edge
\* its namespace's, and none when that cannot be recovered.
ResolveScope(e) ==
  CASE PlaneType # "edge" -> "deployment"
    [] PlaneType = "edge" /\ Resolve(e) -> "project"
    [] PlaneType = "edge" /\ ~Resolve(e) -> "none"

\* What publishEvent sends: the event with its scope and source annotations.
Stamped(job) ==
  [job |-> job, scope |-> ResolveScope(job.event), city |-> city, run |-> runs]

Running == main # "closed"

Fault   == faults < MaxFaults /\ faults' = faults + 1
NoFault == UNCHANGED faults

Init ==
  /\ store = [e \in Events |-> 0] /\ known = store
  /\ producer = Idle /\ queue = <<>> /\ dropped = 0
  /\ drainer = [at |-> "select"]
  /\ waiting = {} /\ acked = {}
  /\ wire = <<>> /\ stream = <<>> /\ window = {}
  /\ namespaces = FALSE /\ city = "none"
  /\ cancelled = FALSE /\ main = "syncing" /\ runs = 1
  /\ errors = FALSE /\ faults = 0

-----------------------------------------------------------------------------
\* Some component of the cluster creates or updates an event.
WriteEvent(e) ==
  /\ store[e] < MaxVersion
  /\ store' = [store EXCEPT ![e] = @ + 1]
  /\ UNCHANGED <<known, queueVars, drainer, ackVars, brokerVars, resolverVars,
                 runVars, errors, faults>>

\* Mutant: the queue takes one job too many.
TryEnqueue_OffByOne(job) ==
  Len(queue) <= Capacity /\ queue' = Append(queue, job)

\* tryEnqueue: TRUE iff the job fits.
TryEnqueue(job) ==
  Len(queue) < Capacity /\ queue' = Append(queue, job)

\* enqueue up to its first tryEnqueue.
Enqueue(job) ==
  \/ TryEnqueue(job) /\ producer' = Idle
  \/ /\ Len(queue) >= Capacity
     /\ producer' = [at |-> "evict", job |-> job] /\ UNCHANGED queue

\* Mutant: a resync is published like any other update.
OnUpdate_Resync(e) == Enqueue([event |-> e, rv |-> store[e], type |-> "MODIFIED"])

\* onUpdate: an update that does not change the resourceVersion is a resync.
OnUpdate(e) ==
  /\ known[e] # store[e]
  /\ Enqueue([event |-> e, rv |-> store[e], type |-> "MODIFIED"])

\* The informer delivers what it has learnt, one callback at a time; several
\* versions may have passed since the last one.  AddFunc or UpdateFunc runs.
Deliver(e) ==
  /\ Running /\ producer = Idle /\ store[e] # 0
  /\ \/ known[e] = 0 /\ Enqueue([event |-> e, rv |-> store[e], type |-> "ADDED"])
     \/ known[e] # 0 /\ OnUpdate(e)
  /\ known' = [known EXCEPT ![e] = store[e]]
  /\ UNCHANGED <<store, dropped, drainer, ackVars, brokerVars, resolverVars,
                 runVars, errors, faults>>

\* Mutant: the queue is left as it is.
EvictOldest_Nothing ==
  /\ Running /\ producer.at = "evict"
  /\ producer' = [producer EXCEPT !.at = "again"]
  /\ UNCHANGED <<queue, dropped>>
  /\ UNCHANGED <<informerVars, drainer, ackVars, brokerVars, resolverVars,
                 runVars, errors, faults>>

\* Mutant: an eviction is not counted.
EvictOldest_Uncounted ==
  /\ Running /\ producer.at = "evict"
  /\ producer' = [producer EXCEPT !.at = "again"]
  /\ queue' = IF queue = <<>> THEN queue ELSE Tail(queue)
  /\ UNCHANGED <<informerVars, dropped, drainer, ackVars, brokerVars,
                 resolverVars, runVars, errors, faults>>

EvictOldest ==
  /\ Running /\ producer.at = "evict"
  /\ producer' = [producer EXCEPT !.at = "again"]
  /\ \/ queue # <<>> /\ queue' = Tail(queue) /\ dropped' = dropped + 1
     \/ queue = <<>> /\ UNCHANGED <<queue, dropped>>
  /\ UNCHANGED <<informerVars, drainer, ackVars, brokerVars, resolverVars,
                 runVars, errors, faults>>

\* The second tryEnqueue.  A job that does not fit now is dropped itself.
EnqueueAgain ==
  /\ Running /\ producer.at = "again" /\ producer' = Idle
  /\ \/ TryEnqueue(producer.job) /\ UNCHANGED dropped
     \/ Len(queue) >= Capacity /\ dropped' = dropped + 1 /\ UNCHANGED queue
  /\ UNCHANGED <<informerVars, drainer, ackVars, brokerVars, resolverVars,
                 runVars, errors, faults>>

-----------------------------------------------------------------------------
\* drainQueue's select.  A cancelled context does not win over a queued job.
TakeJob ==
  /\ Running /\ drainer.at = "select" /\ queue # <<>>
  /\ drainer' = [at |-> "holding", job |-> Head(queue)]
  /\ queue' = Tail(queue)
  /\ UNCHANGED <<informerVars, producer, dropped, ackVars, brokerVars,
                 resolverVars, runVars, errors, faults>>

\* The drainer sees the cancelled context, with or without a job in its hand,
\* and goes on to awaitPendingAcks.
SeeCancel ==
  /\ Running /\ cancelled /\ drainer.at \in {"select", "holding"}
  /\ drainer' = [at |-> "acks"]
  /\ UNCHANGED <<informerVars, queueVars, ackVars, brokerVars, resolverVars,
                 runVars, errors, faults>>

\* publishEvent when PublishAsync accepts the message.
PublishEvent ==
  /\ Running /\ ~cancelled /\ drainer.at = "holding"
  /\ Cardinality(waiting) < MaxPending
  /\ wire' = Append(wire, Stamped(drainer.job))
  /\ waiting' = waiting \cup {drainer.job}
  /\ drainer' = [at |-> "select"]
  /\ UNCHANGED <<informerVars, queueVars, acked, stream, window, resolverVars,
                 runVars, errors, faults>>

\* Mutant: a publish that stalls is not counted.
PublishEventFails_Silent ==
  /\ Running /\ ~cancelled /\ drainer.at = "holding"
  /\ Cardinality(waiting) >= MaxPending
  /\ drainer' = [at |-> "select"]
  /\ UNCHANGED <<informerVars, queueVars, ackVars, brokerVars, resolverVars,
                 runVars, errors, faults>>

\* PublishAsync fails: the window of pending acks stays full for
\* publishStallWait, or the connection refuses the message.
PublishEventFails ==
  /\ Running /\ ~cancelled /\ drainer.at = "holding"
  /\ \/ Cardinality(waiting) >= MaxPending /\ NoFault
     \/ Cardinality(waiting) < MaxPending /\ Fault
  /\ errors' = TRUE
  /\ drainer' = [at |-> "select"]
  /\ UNCHANGED <<informerVars, queueVars, ackVars, brokerVars, resolverVars,
                 runVars>>

\* The broker receives the next publish and acknowledges it.
BrokerStores ==
  /\ wire # <<>>
  /\ LET msg == Head(wire)
         id  == QualifiedMsgID(msg.job)
     IN  /\ stream' = IF id \in window THEN stream ELSE Append(stream, msg)
         /\ window' = window \cup {id}
         /\ \/ acked' = acked \cup ({msg.job} \cap waiting) /\ NoFault
            \/ UNCHANGED acked /\ Fault
  /\ wire' = Tail(wire)
  /\ UNCHANGED <<informerVars, queueVars, drainer, waiting, resolverVars,
                 runVars, errors>>

\* The connection breaks and a publish is lost.
LosePublish ==
  /\ wire # <<>> /\ Fault
  /\ wire' = Tail(wire)
  /\ UNCHANGED <<informerVars, queueVars, drainer, ackVars, stream, window,
                 resolverVars, runVars, errors>>

\* duplicateWindow passes for a message id.
WindowPasses ==
  /\ \E id \in window : window' = window \ {id}
  /\ Fault
  /\ UNCHANGED <<informerVars, queueVars, drainer, ackVars, wire, stream,
                 resolverVars, runVars, errors>>

\* awaitAck: the ack arrives, or publishAckTimeout fails the future.
AwaitAck(job) ==
  /\ Running /\ job \in waiting
  /\ \/ job \in acked /\ UNCHANGED errors /\ NoFault
     \/ /\ job \notin acked /\ errors' = TRUE
        /\ IF \E i \in 1..Len(wire) : wire[i].job = job THEN Fault ELSE NoFault
  /\ waiting' = waiting \ {job} /\ acked' = acked \ {job}
  /\ UNCHANGED <<informerVars, queueVars, drainer, brokerVars, resolverVars,
                 runVars>>

\* awaitPendingAcks ends when no waiter is left and in any case after
\* ackDrainTimeout.
AwaitPendingAcks ==
  /\ Running /\ drainer.at = "acks"
  /\ drainer' = [at |-> "done"]
  /\ UNCHANGED <<informerVars, queueVars, ackVars, brokerVars, resolverVars,
                 runVars, errors, faults>>

-----------------------------------------------------------------------------
\* The namespace informer has its first list.
NamespacesSync ==
  /\ Running /\ PlaneType = "edge" /\ ~namespaces /\ namespaces' = TRUE
  /\ UNCHANGED <<informerVars, queueVars, drainer, ackVars, brokerVars, city,
                 runVars, errors, faults>>

\* Mutant: a failed resolution forgets the city.
ResolveOnce_Forgets ==
  /\ Running /\ PlaneType = "edge" /\ ~cancelled
  /\ city' \in {"none", "resolved"}
  /\ UNCHANGED <<informerVars, queueVars, drainer, ackVars, brokerVars,
                 namespaces, runVars, errors, faults>>

\* resolveOnce finds a delivered ServingLocation; without one, or when it
\* cannot be read, the city it has is kept.
ResolveOnce ==
  /\ Running /\ PlaneType = "edge" /\ ~cancelled
  /\ city' = "resolved"
  /\ UNCHANGED <<informerVars, queueVars, drainer, ackVars, brokerVars,
                 namespaces, runVars, errors, faults>>

\* WaitForCacheSync returns TRUE.
CacheSynced ==
  /\ main = "syncing" /\ (PlaneType = "edge" => namespaces)
  /\ main' = "serving"
  /\ UNCHANGED <<informerVars, queueVars, drainer, ackVars, brokerVars,
                 resolverVars, cancelled, runs, errors, faults>>

Cancel ==
  /\ Running /\ ~cancelled /\ cancelled' = TRUE
  /\ UNCHANGED <<informerVars, queueVars, drainer, ackVars, brokerVars,
                 resolverVars, main, runs, errors, faults>>

\* Mutant: Run waits until everything queued is published.
Return_QueueEmpty ==
  /\ Running /\ cancelled /\ queue = <<>>
  /\ main = "syncing" \/ drainer.at = "done"
  /\ main' = "closed"
  /\ UNCHANGED <<informerVars, queueVars, drainer, ackVars, brokerVars,
                 resolverVars, cancelled, runs, errors, faults>>

\* Run after the context is cancelled: it waits for the drainer, except when
\* the caches had not synced.  Returning closes the connection.
Return ==
  /\ Running /\ cancelled
  /\ main = "syncing" \/ drainer.at = "done"
  /\ main' = "closed"
  /\ UNCHANGED <<informerVars, queueVars, drainer, ackVars, brokerVars,
                 resolverVars, cancelled, runs, errors, faults>>

\* The process dies, or has returned, and starts again.
Restart ==
  /\ runs < MaxRuns /\ runs' = runs + 1
  /\ known' = [e \in Events |-> 0]
  /\ producer' = Idle /\ queue' = <<>> /\ drainer' = [at |-> "select"]
  /\ waiting' = {} /\ acked' = {}
  /\ namespaces' = FALSE /\ city' = "none"
  /\ cancelled' = FALSE /\ main' = "syncing"
  /\ UNCHANGED <<store, dropped, brokerVars, errors, faults>>

Next ==
  \/ \E e \in Events : WriteEvent(e) \/ Deliver(e)
  \/ EvictOldest \/ EnqueueAgain
  \/ TakeJob \/ SeeCancel \/ PublishEvent \/ PublishEventFails
  \/ BrokerStores \/ LosePublish \/ WindowPasses
  \/ \E job \in waiting : AwaitAck(job)
  \/ AwaitPendingAcks
  \/ NamespacesSync \/ ResolveOnce
  \/ CacheSynced \/ Cancel \/ Return \/ Restart

Spec == Init /\ [][Next]_vars

\* The informer calls back for every change, goroutines run, timers fire and
\* the connection delivers.  Nothing is assumed of those who write events,
\* cancel the context or restart the process, nor of faults.
FairSpec ==
  /\ Spec
  /\ \A e \in Events : WF_vars(Deliver(e))
  /\ WF_vars(EvictOldest) /\ WF_vars(EnqueueAgain)
  /\ WF_vars(TakeJob) /\ WF_vars(SeeCancel)
  /\ WF_vars(PublishEvent \/ PublishEventFails)
  /\ WF_vars(BrokerStores) /\ WF_vars(\E job \in waiting : AwaitAck(job))
  /\ WF_vars(AwaitPendingAcks)
  /\ WF_vars(NamespacesSync) /\ WF_vars(CacheSynced) /\ WF_vars(Return)

-----------------------------------------------------------------------------
Message == [job : Job, scope : {"deployment", "project", "none"},
            city : {"none", "resolved"}, run : 1..MaxRuns]

\* Well formed, and within the bounds the code sets: the queue never holds
\* more than its capacity and the acks waited for are of known jobs.
TypeOK ==
  /\ store \in [Events -> 0..MaxVersion] /\ known \in [Events -> 0..MaxVersion]
  /\ producer \in {Idle} \cup [at : {"evict", "again"}, job : Job]
  /\ queue \in Seq(Job) /\ Len(queue) <= Capacity /\ dropped \in Nat
  /\ drainer \in [at : {"select", "acks", "done"}] \cup [at : {"holding"}, job : Job]
  /\ waiting \in SUBSET Job /\ acked \in SUBSET waiting
  /\ wire \in Seq(Message) /\ stream \in Seq(Message)
  /\ window \in SUBSET (Events \X (0..MaxVersion))
  /\ namespaces \in BOOLEAN /\ city \in {"none", "resolved"}
  /\ cancelled \in BOOLEAN /\ main \in {"syncing", "serving", "closed"}
  /\ runs \in 1..MaxRuns /\ errors \in BOOLEAN /\ faults \in 0..MaxFaults

\* The event that arrives at a full queue gets in: after evictOldest there is
\* room for it, whether the slot was freed by the eviction or by drainQueue.
IncomingIsKept == producer.at = "again" => Len(queue) < Capacity

\* The stream never goes back to an earlier version of an event, and one run
\* of the exporter never stores the same version of an event twice: resyncs are
\* not published, whatever the duplicate window has forgotten.
VersionsAdvance ==
  \A i, j \in 1..Len(stream) :
    (i < j /\ stream[i].job.event = stream[j].job.event) =>
      /\ stream[i].job.rv <= stream[j].job.rv
      /\ stream[i].run = stream[j].run => stream[i].job.rv < stream[j].job.rv

\* Within a run the annotations only get better: once an event of a namespace
\* was published with its tenant, or with the city, the later ones are too.
StampsImprove ==
  \A i, j \in 1..Len(stream) :
    (i < j /\ stream[i].run = stream[j].run) =>
      /\ stream[i].city = "resolved" => stream[j].city = "resolved"
      /\ (stream[i].scope = "project" /\ stream[j].scope = "none") =>
           stream[j].job.event \notin Labelled

Stored(e, rv) ==
  \E i \in 1..Len(stream) : stream[i].job.event = e /\ stream[i].job.rv >= rv

\* A publish counted as successful is on the stream: an update in the version
\* published or a later one, a new event in some version.
AckedIsStored ==
  \A job \in acked : Stored(job.event, IF job.type = "MODIFIED" THEN job.rv ELSE 1)

\* The queue under the producer and the drainer is a bounded FIFO that sheds
\* its oldest item, and only for a producer that found it full.
Queue == INSTANCE LossyQueue WITH
  Items <- Job, items <- queue, lost <- dropped,
  found <- CASE producer.at = "idle" -> "room"
             [] producer.at = "evict" -> "full"
             [] producer.at = "again" -> "shed"

ImplementsQueue == Queue!Spec

\* Cancelling the context ends Run although acks may never come.
ShutdownEnds == cancelled ~> (main = "closed" \/ ~cancelled)

\* Unless the exporter is stopped, drops or fails something, the last version
\* of every event reaches the stream.
LatestIsReported ==
  \/ <>(cancelled \/ dropped > 0 \/ errors \/ runs > 1)
  \/ \A e \in Events : <>[](store[e] # 0 => Stored(e, store[e]))
=============================================================================
