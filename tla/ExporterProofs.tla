--------------------------- MODULE ExporterProofs --------------------------
(***************************************************************************)
(* What EventExporter guarantees for any set of events, queue size, ack    *)
(* window, number of faults and number of restarts: it is well formed, its *)
(* queue implements LossyQueue, the stream never goes back to an earlier   *)
(* version of an event, stamps only improve and an acknowledged publish is *)
(* stored.                                                                 *)
(***************************************************************************)
EXTENDS EventExporter, TLAPS

-----------------------------------------------------------------------------
(* Sequences: what appending and taking the head do to length and entries.  *)

\* Appending keeps every entry where it is and adds one at the end.
LEMMA AppendFacts ==
  ASSUME NEW S, NEW s \in Seq(S), NEW x \in S
  PROVE  /\ Append(s, x) \in Seq(S)
         /\ Len(Append(s, x)) = Len(s) + 1 /\ Len(s) \in Nat
         /\ \A i \in 1..Len(s) : Append(s, x)[i] = s[i]
         /\ Append(s, x)[Len(s) + 1] = x
BY SMT

\* The tail of a non-empty sequence is the sequence shifted by one.
LEMMA TailFacts ==
  ASSUME NEW S, NEW s \in Seq(S), s # <<>>
  PROVE  /\ Tail(s) \in Seq(S)
         /\ Len(s) \in Nat \ {0} /\ Len(Tail(s)) = Len(s) - 1
         /\ Head(s) = s[1] /\ Head(s) \in S
         /\ \A i \in 1..Len(Tail(s)) : i + 1 \in 1..Len(s) /\ Tail(s)[i] = s[i + 1]
BY SMT

-----------------------------------------------------------------------------
(* Type correctness.                                                       *)

\* The bounds are numbers, and the queue and the process exist.
LEMMA Limits ==
  /\ Capacity \in Nat \ {0} /\ MaxVersion \in Nat
  /\ MaxFaults \in Nat /\ MaxRuns \in Nat \ {0}
BY ExporterAssumption, Zenon


LEMMA InitType == Init => TypeOK
<1> SUFFICES ASSUME Init PROVE TypeOK
  OBVIOUS
<1>1. store \in [Events -> 0..MaxVersion] /\ known \in [Events -> 0..MaxVersion]
  BY Limits DEF Init
<1>2. queue \in Seq(Job) /\ wire \in Seq(Message) /\ stream \in Seq(Message)
  BY DEF Init
<1>3. Len(queue) <= Capacity /\ runs \in 1..MaxRuns /\ faults \in 0..MaxFaults
  BY Limits DEF Init
<1>4. drainer \in [at : {"select", "acks", "done"}]
  BY DEF Init
<1> QED
  BY <1>1, <1>2, <1>3, <1>4 DEF Init, TypeOK

\* A job for the informer's copy of an event is well formed, and TryEnqueue and
\* Enqueue keep the queue within its capacity.
LEMMA EnqueueType ==
  ASSUME TypeOK, NEW job \in Job, Enqueue(job)
  PROVE  /\ producer' \in {Idle} \cup [at : {"evict", "again"}, job : Job]
         /\ queue' \in Seq(Job) /\ Len(queue') <= Capacity
<1>1. queue \in Seq(Job) /\ Len(queue) <= Capacity /\ Capacity \in Nat
  BY Limits DEF TypeOK
<1>2. CASE TryEnqueue(job) /\ producer' = Idle
  BY <1>1, <1>2, AppendFacts DEF TryEnqueue
<1>3. CASE UNCHANGED queue /\ producer' = [at |-> "evict", job |-> job]
  BY <1>1, <1>3
<1> QED
  BY <1>2, <1>3 DEF Enqueue

LEMMA DeliverType == ASSUME TypeOK, NEW e \in Events, Deliver(e) PROVE TypeOK'
<1>1. store[e] \in 1..MaxVersion
  BY Limits DEF Deliver, TypeOK
<1>2. PICK job \in Job : Enqueue(job)
  BY <1>1 DEF Deliver, OnUpdate, Job
<1>3. /\ producer' \in {Idle} \cup [at : {"evict", "again"}, job : Job]
      /\ queue' \in Seq(Job) /\ Len(queue') <= Capacity
  BY <1>2, EnqueueType
<1>4. known' \in [Events -> 0..MaxVersion]
  BY <1>1 DEF Deliver, TypeOK
<1> QED
  BY <1>3, <1>4 DEF Deliver, TypeOK, ackVars, brokerVars, resolverVars, runVars

LEMMA EvictOldestType == ASSUME TypeOK, EvictOldest PROVE TypeOK'
<1>1. producer \in [at : {"evict", "again"}, job : Job]
  BY DEF EvictOldest, TypeOK, Idle
<1>2. producer' \in [at : {"evict", "again"}, job : Job]
  BY <1>1 DEF EvictOldest
<1>3. queue' \in Seq(Job) /\ Len(queue') <= Capacity /\ dropped' \in Nat
  <2>1. queue \in Seq(Job) /\ Len(queue) <= Capacity /\ dropped \in Nat
    BY DEF TypeOK
  <2>2. CASE queue # <<>> /\ queue' = Tail(queue) /\ dropped' = dropped + 1
    BY <2>1, <2>2, Limits, TailFacts
  <2>3. CASE UNCHANGED <<queue, dropped>>
    BY <2>1, <2>3
  <2> QED
    BY <2>2, <2>3 DEF EvictOldest
<1> QED
  BY <1>2, <1>3
  DEF EvictOldest, TypeOK, informerVars, ackVars, brokerVars, resolverVars, runVars

LEMMA EnqueueAgainType == ASSUME TypeOK, EnqueueAgain PROVE TypeOK'
<1>1. producer \in [at : {"evict", "again"}, job : Job] /\ producer.job \in Job
  BY DEF EnqueueAgain, TypeOK, Idle
<1>2. queue' \in Seq(Job) /\ Len(queue') <= Capacity /\ dropped' \in Nat
  <2>1. queue \in Seq(Job) /\ Len(queue) <= Capacity /\ dropped \in Nat
    BY DEF TypeOK
  <2>2. CASE TryEnqueue(producer.job) /\ UNCHANGED dropped
    BY <1>1, <2>1, <2>2, Limits, AppendFacts DEF TryEnqueue
  <2>3. CASE dropped' = dropped + 1 /\ UNCHANGED queue
    BY <2>1, <2>3
  <2> QED
    BY <2>2, <2>3 DEF EnqueueAgain
<1>3. producer' = Idle
  BY DEF EnqueueAgain
<1> QED
  BY <1>2, <1>3
  DEF EnqueueAgain, TypeOK, informerVars, ackVars, brokerVars, resolverVars, runVars

LEMMA TakeJobType == ASSUME TypeOK, TakeJob PROVE TypeOK'
<1>1. queue' \in Seq(Job) /\ Len(queue') <= Capacity /\ Head(queue) \in Job
  BY Limits, TailFacts DEF TakeJob, TypeOK
<1>2. drainer' \in [at : {"holding"}, job : Job]
  BY <1>1 DEF TakeJob
<1> QED
  BY <1>1, <1>2
  DEF TakeJob, TypeOK, informerVars, ackVars, brokerVars, resolverVars, runVars

\* What publishEvent sends is a message.
LEMMA StampedType ==
  ASSUME TypeOK, NEW job \in Job
  PROVE  Stamped(job) \in Message
<1>1. ResolveScope(job.event) \in {"deployment", "project", "none"}
  <2>1. Resolve(job.event) \in BOOLEAN
    BY DEF Resolve, TypeOK
  <2> QED
    BY <2>1, Limits DEF ResolveScope
<1> QED
  BY <1>1 DEF Stamped, Message, TypeOK

LEMMA PublishEventType == ASSUME TypeOK, PublishEvent PROVE TypeOK'
<1>1. drainer.job \in Job
  BY DEF PublishEvent, TypeOK
<1>2. wire' \in Seq(Message)
  BY <1>1, StampedType, AppendFacts DEF PublishEvent, TypeOK
<1>3. waiting' \in SUBSET Job /\ acked' \in SUBSET waiting'
  BY <1>1 DEF PublishEvent, TypeOK
<1>4. drainer' \in [at : {"select", "acks", "done"}]
  BY DEF PublishEvent
<1> QED
  BY <1>2, <1>3, <1>4
  DEF PublishEvent, TypeOK, informerVars, queueVars, resolverVars, runVars

\* Faults stay within their bound.
LEMMA FaultType ==
  ASSUME TypeOK, Fault \/ NoFault PROVE faults' \in 0..MaxFaults
BY Limits DEF TypeOK, Fault, NoFault

LEMMA BrokerStoresType == ASSUME TypeOK, BrokerStores PROVE TypeOK'
<1> DEFINE msg == Head(wire)
           id  == QualifiedMsgID(msg.job)
<1>1. wire' \in Seq(Message) /\ msg \in Message
  BY TailFacts DEF BrokerStores, TypeOK
<1>2. msg.job \in Job
  BY <1>1 DEF Message
<1>3. id \in Events \X (0..MaxVersion)
  BY <1>2, Limits DEF QualifiedMsgID, Job
<1> HIDE DEF id
<1>4. stream' \in Seq(Message) /\ window' \in SUBSET (Events \X (0..MaxVersion))
  BY <1>1, <1>3, AppendFacts DEF BrokerStores, TypeOK, id
<1>5. acked' \in SUBSET waiting' /\ waiting' \in SUBSET Job
  BY DEF BrokerStores, TypeOK
<1>6. faults' \in 0..MaxFaults
  BY FaultType DEF BrokerStores
<1> QED
  BY <1>1, <1>4, <1>5, <1>6
  DEF BrokerStores, TypeOK, informerVars, queueVars, resolverVars, runVars

\* The actions on the wire, the window and the acks.
LEMMA AckType ==
  ASSUME TypeOK,
         PublishEventFails \/ LosePublish \/ WindowPasses \/ \E job \in waiting : AwaitAck(job)
  PROVE  TypeOK'
<1>1. CASE PublishEventFails
  <2>1. faults' \in 0..MaxFaults
    BY <1>1, FaultType DEF PublishEventFails
  <2>2. drainer' \in [at : {"select", "acks", "done"}] /\ errors' \in BOOLEAN
    BY <1>1 DEF PublishEventFails
  <2> QED
    BY <1>1, <2>1, <2>2
    DEF PublishEventFails, TypeOK, informerVars, queueVars, ackVars, brokerVars, resolverVars, runVars
<1>2. CASE LosePublish
  <2>1. faults' \in 0..MaxFaults
    BY <1>2, FaultType DEF LosePublish
  <2>2. wire' \in Seq(Message)
    BY <1>2, TailFacts DEF LosePublish, TypeOK
  <2> QED
    BY <1>2, <2>1, <2>2
    DEF LosePublish, TypeOK, informerVars, queueVars, ackVars, resolverVars, runVars
<1>3. CASE WindowPasses
  <2>1. faults' \in 0..MaxFaults
    BY <1>3, FaultType DEF WindowPasses
  <2>2. window' \in SUBSET (Events \X (0..MaxVersion))
    BY <1>3 DEF WindowPasses, TypeOK
  <2> QED
    BY <1>3, <2>1, <2>2
    DEF WindowPasses, TypeOK, informerVars, queueVars, ackVars, resolverVars, runVars
<1>4. ASSUME NEW job \in waiting, AwaitAck(job) PROVE TypeOK'
  <2>1. faults' \in 0..MaxFaults
    BY <1>4, FaultType DEF AwaitAck
  <2>2. waiting' \in SUBSET Job /\ acked' \in SUBSET waiting' /\ errors' \in BOOLEAN
    BY <1>4 DEF AwaitAck, TypeOK
  <2> QED
    BY <1>4, <2>1, <2>2
    DEF AwaitAck, TypeOK, informerVars, queueVars, brokerVars, resolverVars, runVars
<1> QED
  BY <1>1, <1>2, <1>3, <1>4

\* The actions of Run, the resolvers and the API server.
LEMMA RunType ==
  ASSUME TypeOK,
         \/ SeeCancel \/ AwaitPendingAcks \/ NamespacesSync \/ ResolveOnce
         \/ CacheSynced \/ Cancel \/ Return \/ Restart
         \/ \E e \in Events : WriteEvent(e)
  PROVE  TypeOK'
<1> USE DEF informerVars, queueVars, ackVars, brokerVars, resolverVars, runVars
<1>1. CASE SeeCancel \/ AwaitPendingAcks
  <2>1. drainer' \in [at : {"select", "acks", "done"}]
    BY <1>1 DEF SeeCancel, AwaitPendingAcks
  <2> QED
    BY <1>1, <2>1 DEF SeeCancel, AwaitPendingAcks, TypeOK
<1>2. CASE NamespacesSync \/ ResolveOnce
  BY <1>2 DEF NamespacesSync, ResolveOnce, TypeOK
<1>3. CASE CacheSynced \/ Cancel \/ Return
  BY <1>3 DEF CacheSynced, Cancel, Return, TypeOK
<1>4. CASE Restart
  <2>1. known' \in [Events -> 0..MaxVersion]
    BY <1>4, Limits DEF Restart
  <2>2. queue' \in Seq(Job) /\ Len(queue') <= Capacity /\ runs' \in 1..MaxRuns
    BY <1>4, Limits DEF Restart, TypeOK
  <2>3. drainer' \in [at : {"select", "acks", "done"}]
    BY <1>4 DEF Restart
  <2> QED
    BY <1>4, <2>1, <2>2, <2>3 DEF Restart, TypeOK
<1>5. ASSUME NEW e \in Events, WriteEvent(e) PROVE TypeOK'
  <2>1. store' \in [Events -> 0..MaxVersion]
    BY <1>5, Limits DEF WriteEvent, TypeOK
  <2> QED
    BY <1>5, <2>1 DEF WriteEvent, TypeOK
<1> QED
  BY <1>1, <1>2, <1>3, <1>4, <1>5

LEMMA TypeNext == TypeOK /\ [Next]_vars => TypeOK'
<1> SUFFICES ASSUME TypeOK, [Next]_vars PROVE TypeOK'
  OBVIOUS
<1>1. CASE UNCHANGED vars
  BY <1>1 DEF TypeOK, vars, informerVars, queueVars, ackVars, brokerVars, resolverVars, runVars
<1>2. CASE Next
  BY <1>2, DeliverType, EvictOldestType, EnqueueAgainType, TakeJobType,
     PublishEventType, BrokerStoresType, AckType, RunType DEF Next
<1> QED
  BY <1>1, <1>2

\* Every reachable state is well formed: the queue stays within its capacity
\* and no ack is on its way for a job nobody waits for, whatever happens.
THEOREM ExporterType == Spec => []TypeOK
BY InitType, TypeNext, PTL DEF Spec
-----------------------------------------------------------------------------
(* The queue.                                                              *)

\* The steps that touch neither the queue nor its producer.
Elsewhere == UNCHANGED queueVars

\* Every step but those of the producer, the drainer's take and a restart
\* leaves the queue alone.
LEMMA QueueSteps ==
  ASSUME Next
  PROVE  \/ Elsewhere \/ (\E e \in Events : Deliver(e))
         \/ EvictOldest \/ EnqueueAgain \/ TakeJob \/ Restart
<1> USE DEF Elsewhere, queueVars
<1>1. ASSUME NEW e \in Events, WriteEvent(e) PROVE Elsewhere
  BY <1>1 DEF WriteEvent
<1>2. ASSUME NEW job \in waiting, AwaitAck(job) PROVE Elsewhere
  BY <1>2 DEF AwaitAck
<1>3. CASE SeeCancel \/ PublishEvent \/ PublishEventFails
  BY <1>3 DEF SeeCancel, PublishEvent, PublishEventFails
<1>4. CASE BrokerStores \/ LosePublish \/ WindowPasses \/ AwaitPendingAcks
  BY <1>4 DEF BrokerStores, LosePublish, WindowPasses, AwaitPendingAcks
<1>5. CASE NamespacesSync \/ ResolveOnce \/ CacheSynced \/ Cancel \/ Return
  BY <1>5 DEF NamespacesSync, ResolveOnce, CacheSynced, Cancel, Return
<1> QED
  BY <1>1, <1>2, <1>3, <1>4, <1>5 DEF Next

\* Between its eviction and its second tryEnqueue nobody but the drainer, who
\* only takes, touches the producer's queue.
LEMMA KeptNext ==
  ASSUME TypeOK, IncomingIsKept, [Next]_vars PROVE IncomingIsKept'
<1>1. queue \in Seq(Job) /\ Len(queue) <= Capacity /\ Len(queue) \in Nat
  BY DEF TypeOK
<1>2. CASE UNCHANGED queueVars
  BY <1>2 DEF queueVars, IncomingIsKept
<1>3. ASSUME NEW e \in Events, Deliver(e) PROVE IncomingIsKept'
  <2>1. PICK job : Enqueue(job)
    BY <1>3 DEF Deliver, OnUpdate
  <2>2. producer'.at \in {"idle", "evict"}
    BY <2>1 DEF Enqueue, Idle
  <2> QED
    BY <2>2 DEF IncomingIsKept
<1>4. CASE EvictOldest
  <2>1. CASE queue # <<>> /\ queue' = Tail(queue)
    BY <1>1, <2>1, Limits, TailFacts DEF IncomingIsKept
  <2>2. CASE queue = <<>> /\ queue' = queue
    BY <1>1, <2>2, Limits DEF IncomingIsKept
  <2> QED
    BY <1>4, <2>1, <2>2 DEF EvictOldest
<1>5. CASE EnqueueAgain \/ Restart
  BY <1>5 DEF EnqueueAgain, Restart, Idle, IncomingIsKept
<1>6. CASE TakeJob
  BY <1>1, <1>6, Limits, TailFacts DEF TakeJob, IncomingIsKept
<1> QED
  BY <1>2, <1>3, <1>4, <1>5, <1>6, QueueSteps DEF vars, Elsewhere

LEMMA KeptInit == Init => IncomingIsKept
BY DEF Init, Idle, IncomingIsKept

\* The event that arrives at a full queue always gets in, for any capacity.
THEOREM IncomingAlwaysKept == Spec => []IncomingIsKept
BY InitType, TypeNext, KeptInit, KeptNext, PTL DEF Spec

LEMMA QueueInit == Init => Queue!Init
BY DEF Init, Idle, Queue!Init

\* Every step of the exporter is a step of the bounded queue or leaves it alone.
LEMMA QueueNext ==
  ASSUME TypeOK, IncomingIsKept, [Next]_vars
  PROVE  [Queue!Next]_<<queue, CASE producer.at = "idle" -> "room"
                                 [] producer.at = "evict" -> "full"
                                 [] producer.at = "again" -> "shed", dropped>>
<1>1. queue \in Seq(Job) /\ Len(queue) <= Capacity /\ Len(queue) \in Nat
  BY DEF TypeOK
<1>2. CASE UNCHANGED queueVars
  BY <1>2 DEF queueVars
<1>3. ASSUME NEW e \in Events, Deliver(e) PROVE Queue!Next
  <2>1. store[e] \in 1..MaxVersion
    BY <1>3, Limits DEF Deliver, TypeOK
  <2>2. PICK job \in Job : Enqueue(job)
    BY <1>3, <2>1 DEF Deliver, OnUpdate, Job
  <2>3. producer.at = "idle" /\ UNCHANGED dropped
    BY <1>3 DEF Deliver, Idle
  <2>4. CASE TryEnqueue(job) /\ producer' = Idle
    <3>1. Queue!Offer(job)
      BY <2>3, <2>4 DEF TryEnqueue, Idle, Queue!Offer
    <3> QED
      BY <3>1 DEF Queue!Next
  <2>5. CASE Len(queue) >= Capacity /\ producer' = [at |-> "evict", job |-> job] /\ UNCHANGED queue
    <3>1. Len(queue) = Capacity
      BY <1>1, <2>5, Limits
    <3>2. Queue!FindFull
      BY <2>3, <2>5, <3>1 DEF Queue!FindFull
    <3> QED
      BY <3>2 DEF Queue!Next
  <2> QED
    BY <2>2, <2>4, <2>5 DEF Enqueue
<1>4. CASE EvictOldest
  <2>1. producer \in [at : {"evict", "again"}, job : Job]
    BY <1>4 DEF EvictOldest, TypeOK, Idle
  <2>2. producer.at = "evict" /\ producer'.at = "again"
    BY <1>4, <2>1 DEF EvictOldest
  <2>3. Queue!Shed
    BY <1>4, <2>2 DEF EvictOldest, Queue!Shed
  <2> QED
    BY <2>3 DEF Queue!Next
<1>5. CASE EnqueueAgain
  <2>1. producer.job \in Job /\ producer.at = "again"
    BY <1>5 DEF EnqueueAgain, TypeOK, Idle
  <2>2. TryEnqueue(producer.job) /\ UNCHANGED dropped
    BY <1>1, <1>5, <2>1, Limits DEF EnqueueAgain, IncomingIsKept
  <2>3. Queue!Offer(producer.job)
    BY <1>5, <2>2 DEF EnqueueAgain, TryEnqueue, Idle, Queue!Offer
  <2> QED
    BY <2>1, <2>3 DEF Queue!Next
<1>6. CASE TakeJob
  BY <1>6 DEF TakeJob, Queue!Next, Queue!Take
<1>7. CASE Restart
  BY <1>7 DEF Restart, Idle, Queue!Next, Queue!Reset
<1> QED
  BY <1>2, <1>3, <1>4, <1>5, <1>6, <1>7, QueueSteps DEF vars, Elsewhere

\* The exporter's queue, under its two goroutines and the restarts of the
\* process, implements the bounded FIFO that sheds its oldest item.
THEOREM ExporterImplementsQueue == Spec => ImplementsQueue
<1>1. Spec => [](TypeOK /\ IncomingIsKept)
  BY InitType, TypeNext, KeptInit, KeptNext, PTL DEF Spec
<1>2. TypeOK /\ IncomingIsKept /\ [Next]_vars =>
        [Queue!Next]_<<queue, CASE producer.at = "idle" -> "room"
                                [] producer.at = "evict" -> "full"
                                [] producer.at = "again" -> "shed", dropped>>
  BY QueueNext
<1> QED
  BY <1>1, <1>2, QueueInit, PTL DEF Spec, ImplementsQueue, Queue!Spec
-----------------------------------------------------------------------------
(* Versions and stamps.  Jobs move from the informer through the producer,  *)
(* the queue, the drainer and the wire to the stream and never overtake one *)
(* another, so an order between neighbours holds along the whole way.       *)

\* The jobs of this run that are not published yet.
Pending ==
  {queue[i] : i \in 1..Len(queue)}
    \cup (IF drainer.at = "holding" THEN {drainer.job} ELSE {})
    \cup (IF producer.at # "idle" THEN {producer.job} ELSE {})

\* The messages that were published, received or not.
Sent == {stream[i] : i \in 1..Len(stream)} \cup {wire[i] : i \in 1..Len(wire)}

\* One job is of an earlier version than another of the same event.
Older(a, b) == a.event = b.event => a.rv < b.rv

\* What VersionsAdvance and StampsImprove ask of two messages.
InOrder(m, n) ==
  /\ m.job.event = n.job.event =>
       m.job.rv <= n.job.rv /\ (m.run = n.run => m.job.rv < n.job.rv)
  /\ m.run = n.run =>
       /\ m.city = "resolved" => n.city = "resolved"
       /\ (m.scope = "project" /\ n.scope = "none") => n.job.event \notin Labelled

\* The messages, in the order in which they are stored or will be.
SentInOrder ==
  /\ \A i, j \in 1..Len(stream) : i < j => InOrder(stream[i], stream[j])
  /\ \A i, j \in 1..Len(wire) : i < j => InOrder(wire[i], wire[j])
  /\ \A i \in 1..Len(stream), j \in 1..Len(wire) : InOrder(stream[i], wire[j])

\* The jobs, in the order in which they will be published.
PendingInOrder ==
  /\ \A i, j \in 1..Len(queue) : i < j => Older(queue[i], queue[j])
  /\ drainer.at = "holding" =>
       \A i \in 1..Len(queue) : Older(drainer.job, queue[i])
  /\ producer.at # "idle" =>
       \A i \in 1..Len(queue) : Older(queue[i], producer.job)
  /\ (drainer.at = "holding" /\ producer.at # "idle") => Older(drainer.job, producer.job)

\* A message is no newer than the API server and, in its own run, than the
\* informer; it was stamped with what the resolvers still know.
SentIsPast(m) ==
  /\ m.run <= runs /\ m.job.rv <= store[m.job.event]
  /\ m.run = runs =>
       /\ m.job.rv <= known[m.job.event]
       /\ m.city = "resolved" => city = "resolved"
       /\ m.scope = "project" => namespaces

\* A message is no newer than a job of its event that is still to be published,
\* and older than it when it is of the same run.
SentIsBehind(m, job) ==
  m.job.event = job.event => m.job.rv <= job.rv /\ (m.run = runs => m.job.rv < job.rv)

OrderInv ==
  /\ \A e \in Events : known[e] <= store[e]
  /\ SentInOrder
  /\ PendingInOrder
  /\ \A m \in Sent : SentIsPast(m)
  /\ \A job \in Pending : job.rv <= known[job.event]
  /\ \A m \in Sent, job \in Pending : SentIsBehind(m, job)

\* The version an id in the duplicate window stands for is stored.
WindowIsStored ==
  \A id \in window : Stored(id[1], IF id[2] = 0 THEN 1 ELSE id[2])
\* A callback hands on one job, of the version the API server has, and this is
\* what the informer then knows.
LEMMA DeliverJob ==
  ASSUME TypeOK, OrderInv, NEW e \in Events, Deliver(e)
  PROVE  \E job \in Job :
           /\ Enqueue(job) /\ job.event = e /\ job.rv = store[e]
           /\ known[e] < store[e] /\ known' = [known EXCEPT ![e] = store[e]]
           /\ producer = Idle
<1>1. store[e] \in 1..MaxVersion /\ known[e] \in Nat /\ known[e] <= store[e]
  BY Limits DEF Deliver, TypeOK, OrderInv
<1>2. known[e] < store[e]
  BY <1>1 DEF Deliver, OnUpdate
<1>3. PICK job \in Job : Enqueue(job) /\ job.event = e /\ job.rv = store[e]
  BY <1>1 DEF Deliver, OnUpdate, Job
<1> QED
  BY <1>2, <1>3 DEF Deliver

\* The queue's entries are jobs, the wire's and the stream's are messages.
LEMMA Entries ==
  ASSUME TypeOK
  PROVE  /\ \A i \in 1..Len(queue) : queue[i] \in Job
         /\ \A i \in 1..Len(wire) : wire[i] \in Message
         /\ \A i \in 1..Len(stream) : stream[i] \in Message
         /\ Pending \subseteq Job /\ Sent \subseteq Message
<1>1. \A i \in 1..Len(queue) : queue[i] \in Job
  BY DEF TypeOK
<1>2. \A i \in 1..Len(wire) : wire[i] \in Message
  BY DEF TypeOK
<1>3. \A i \in 1..Len(stream) : stream[i] \in Message
  BY DEF TypeOK
<1>4. drainer.at = "holding" => drainer.job \in Job
  BY DEF TypeOK
<1>5. producer.at # "idle" => producer.job \in Job
  BY DEF TypeOK, Idle
<1> QED
  BY <1>1, <1>2, <1>3, <1>4, <1>5 DEF Pending, Sent

\* Only a callback of the informer adds a job.
LEMMA PendingShrinks ==
  ASSUME TypeOK, [Next]_vars, ~(\E e \in Events : Deliver(e))
  PROVE  Pending' \subseteq Pending
<1> USE DEF Pending
<1>1. CASE UNCHANGED <<queueVars, drainer>>
  BY <1>1 DEF queueVars
<1>2. CASE EvictOldest
  <2>1. producer \in [at : {"evict", "again"}, job : Job]
    BY <1>2 DEF EvictOldest, TypeOK, Idle
  <2>2. producer.at # "idle" /\ producer'.job = producer.job
    BY <1>2, <2>1 DEF EvictOldest
  <2>3. {queue'[i] : i \in 1..Len(queue')} \subseteq {queue[i] : i \in 1..Len(queue)}
    <3>1. CASE queue # <<>> /\ queue' = Tail(queue)
      BY <3>1, TailFacts DEF TypeOK
    <3>2. CASE queue' = queue
      BY <3>2
    <3> QED
      BY <1>2, <3>1, <3>2 DEF EvictOldest
  <2> QED
    BY <1>2, <2>2, <2>3 DEF EvictOldest
<1>3. CASE EnqueueAgain
  <2>1. producer.at # "idle" /\ producer.job \in Job /\ producer'.at = "idle"
    BY <1>3 DEF EnqueueAgain, TypeOK, Idle
  <2>2. {queue'[i] : i \in 1..Len(queue')} \subseteq {queue[i] : i \in 1..Len(queue)} \cup {producer.job}
    <3>1. CASE queue' = queue
      BY <3>1
    <3>2. CASE queue' = Append(queue, producer.job)
      BY <2>1, <3>2, AppendFacts DEF TypeOK
    <3> QED
      BY <1>3, <3>1, <3>2 DEF EnqueueAgain, TryEnqueue
  <2>3. UNCHANGED drainer
    BY <1>3 DEF EnqueueAgain
  <2> QED
    BY <2>1, <2>2, <2>3
<1>4. CASE TakeJob
  <2>1. /\ {queue'[i] : i \in 1..Len(queue')} \subseteq {queue[i] : i \in 1..Len(queue)}
        /\ drainer'.job \in {queue[i] : i \in 1..Len(queue)}
    BY <1>4, TailFacts DEF TakeJob, TypeOK
  <2> QED
    BY <1>4, <2>1 DEF TakeJob
<1>5. CASE UNCHANGED queueVars /\ drainer'.at # "holding"
  BY <1>5 DEF queueVars
<1>6. CASE Restart
  BY <1>6 DEF Restart, Idle
<1>7. CASE UNCHANGED vars
  BY <1>1, <1>7 DEF vars
<1>8. CASE Next
  <2>1. CASE SeeCancel \/ PublishEvent \/ PublishEventFails \/ AwaitPendingAcks
    BY <1>5, <2>1 DEF SeeCancel, PublishEvent, PublishEventFails, AwaitPendingAcks
  <2>2. CASE BrokerStores \/ LosePublish \/ WindowPasses
    BY <1>1, <2>2 DEF BrokerStores, LosePublish, WindowPasses
  <2>3. CASE NamespacesSync \/ ResolveOnce \/ CacheSynced \/ Cancel \/ Return
    BY <1>1, <2>3 DEF NamespacesSync, ResolveOnce, CacheSynced, Cancel, Return
  <2>4. ASSUME NEW e \in Events, WriteEvent(e) PROVE Pending' \subseteq Pending
    BY <1>1, <2>4 DEF WriteEvent
  <2>5. ASSUME NEW job \in waiting, AwaitAck(job) PROVE Pending' \subseteq Pending
    BY <1>1, <2>5 DEF AwaitAck
  <2> HIDE DEF Pending
  <2> QED
    BY <1>2, <1>3, <1>4, <1>6, <1>8, <2>1, <2>2, <2>3, <2>4, <2>5 DEF Next
<1> QED
  BY <1>7, <1>8

\* A callback adds the job it hands on.
LEMMA PendingGrows ==
  ASSUME TypeOK, NEW e \in Events, Deliver(e), NEW job \in Job, Enqueue(job)
  PROVE  Pending' \subseteq Pending \cup {job}
<1>1. UNCHANGED drainer
  BY DEF Deliver
<1>2. CASE queue' = Append(queue, job) /\ producer' = Idle
  <2>1. {queue'[i] : i \in 1..Len(queue')} \subseteq {queue[i] : i \in 1..Len(queue)} \cup {job}
    BY <1>2, AppendFacts, SMTT(40) DEF TypeOK
  <2> QED
    BY <1>1, <1>2, <2>1 DEF Pending, Idle
<1>3. CASE queue' = queue /\ producer' = [at |-> "evict", job |-> job]
  BY <1>1, <1>3 DEF Pending
<1> QED
  BY <1>2, <1>3 DEF Enqueue, TryEnqueue

\* Only publishEvent adds a message.
LEMMA SentShrinks ==
  ASSUME TypeOK, [Next]_vars, ~PublishEvent
  PROVE  Sent' \subseteq Sent
<1> USE DEF Sent, brokerVars
<1>1. CASE BrokerStores
  <2>1. wire # <<>> /\ wire \in Seq(Message) /\ stream \in Seq(Message) /\ wire' = Tail(wire)
    BY <1>1 DEF BrokerStores, TypeOK
  <2>2. /\ {wire'[i] : i \in 1..Len(wire')} \subseteq {wire[i] : i \in 1..Len(wire)}
        /\ Head(wire) \in {wire[i] : i \in 1..Len(wire)} /\ Head(wire) \in Message
    BY <2>1, TailFacts
  <2>3. stream' = stream \/ stream' = Append(stream, Head(wire))
    BY <1>1 DEF BrokerStores
  <2>4. {stream'[i] : i \in 1..Len(stream')} \subseteq {stream[i] : i \in 1..Len(stream)} \cup {Head(wire)}
    BY <2>1, <2>2, <2>3, AppendFacts, SMTT(40)
  <2> QED
    BY <2>2, <2>4
<1>2. CASE LosePublish
  BY <1>2, TailFacts DEF LosePublish, TypeOK
<1>3. CASE UNCHANGED <<wire, stream>>
  BY <1>3
<1>4. CASE UNCHANGED vars
  BY <1>3, <1>4 DEF vars
<1>5. CASE Next
  <2>1. ASSUME NEW e \in Events, WriteEvent(e) \/ Deliver(e) PROVE UNCHANGED <<wire, stream>>
    BY <2>1 DEF WriteEvent, Deliver
  <2>2. ASSUME NEW job \in waiting, AwaitAck(job) PROVE UNCHANGED <<wire, stream>>
    BY <2>2 DEF AwaitAck
  <2>3. CASE EvictOldest \/ EnqueueAgain \/ TakeJob \/ SeeCancel \/ PublishEventFails
    BY <1>3, <2>3 DEF EvictOldest, EnqueueAgain, TakeJob, SeeCancel, PublishEventFails
  <2>4. CASE WindowPasses \/ AwaitPendingAcks \/ NamespacesSync \/ ResolveOnce
    BY <1>3, <2>4 DEF WindowPasses, AwaitPendingAcks, NamespacesSync, ResolveOnce
  <2>5. CASE CacheSynced \/ Cancel \/ Return \/ Restart
    BY <1>3, <2>5 DEF CacheSynced, Cancel, Return, Restart
  <2> HIDE DEF Sent
  <2> QED
    BY <1>1, <1>2, <1>3, <1>5, <2>1, <2>2, <2>3, <2>4, <2>5 DEF Next
<1> QED
  BY <1>4, <1>5

LEMMA SentGrows ==
  ASSUME TypeOK, PublishEvent
  PROVE  Sent' \subseteq Sent \cup {Stamped(drainer.job)}
<1>1. drainer.job \in Job /\ Stamped(drainer.job) \in Message
  BY StampedType DEF PublishEvent, TypeOK
<1>2. {wire'[i] : i \in 1..Len(wire')} \subseteq {wire[i] : i \in 1..Len(wire)} \cup {Stamped(drainer.job)}
  BY <1>1, AppendFacts DEF PublishEvent, TypeOK
<1> QED
  BY <1>2 DEF Sent, PublishEvent
\* The resolvers only learn and the informer only advances, in one run.
LEMMA Advances ==
  ASSUME TypeOK, OrderInv, [Next]_vars
  PROVE  /\ \A e \in Events : store[e] <= store'[e] /\ known'[e] <= store'[e]
         /\ \/ Restart
            \/ /\ runs' = runs
               /\ \A e \in Events : known[e] <= known'[e]
               /\ city = "resolved" => city' = "resolved"
               /\ namespaces => namespaces'
<1> DEFINE Goal == /\ \A e \in Events : store[e] <= store'[e] /\ known'[e] <= store'[e]
                   /\ runs' = runs
                   /\ \A e \in Events : known[e] <= known'[e]
                   /\ city = "resolved" => city' = "resolved"
                   /\ namespaces => namespaces'
<1> USE DEF informerVars, resolverVars, runVars
<1>1. /\ \A e \in Events : store[e] \in Nat /\ known[e] \in Nat /\ known[e] <= store[e]
      /\ store \in [Events -> 0..MaxVersion] /\ known \in [Events -> 0..MaxVersion]
  BY Limits DEF TypeOK, OrderInv
<1>2. CASE UNCHANGED <<informerVars, resolverVars, runs>>
  BY <1>1, <1>2
<1>3. CASE UNCHANGED informerVars /\ runs' = runs
           /\ (city = "resolved" => city' = "resolved") /\ (namespaces => namespaces')
  BY <1>1, <1>3
<1>4. ASSUME NEW e \in Events, WriteEvent(e) PROVE Goal
  <2>1. UNCHANGED <<known, runs, city, namespaces>> /\ store' = [store EXCEPT ![e] = store[e] + 1]
    BY <1>4 DEF WriteEvent
  <2> QED
    BY <1>1, <2>1
<1>5. ASSUME NEW e \in Events, Deliver(e) PROVE Goal
  <2>1. UNCHANGED <<store, runs, city, namespaces>> /\ known' = [known EXCEPT ![e] = store[e]]
    BY <1>5 DEF Deliver
  <2> QED
    BY <1>1, <2>1
<1>6. CASE Restart
  <2>1. UNCHANGED store /\ \A e \in Events : known'[e] = 0
    BY <1>6 DEF Restart
  <2> QED
    BY <1>1, <1>6, <2>1
<1>7. CASE UNCHANGED vars
  BY <1>2, <1>7 DEF vars
<1>8. CASE Next
  <2>1. ASSUME NEW job \in waiting, AwaitAck(job) PROVE UNCHANGED <<informerVars, resolverVars, runs>>
    BY <2>1 DEF AwaitAck
  <2>2. CASE EvictOldest \/ EnqueueAgain \/ TakeJob \/ SeeCancel \/ PublishEventFails
    BY <1>2, <2>2 DEF EvictOldest, EnqueueAgain, TakeJob, SeeCancel, PublishEventFails
  <2>3. CASE WindowPasses \/ AwaitPendingAcks \/ CacheSynced \/ Cancel \/ Return
    BY <1>2, <2>3 DEF WindowPasses, AwaitPendingAcks, CacheSynced, Cancel, Return
  <2>4. CASE PublishEvent \/ BrokerStores \/ LosePublish
    BY <1>2, <2>4 DEF PublishEvent, BrokerStores, LosePublish
  <2>5. CASE NamespacesSync \/ ResolveOnce
    BY <1>3, <2>5 DEF NamespacesSync, ResolveOnce
  <2> QED
    BY <1>2, <1>4, <1>5, <1>6, <1>8, <2>1, <2>2, <2>3, <2>4, <2>5 DEF Next
<1> QED
  BY <1>7, <1>8

\* A message stays in the past of the informer and the resolvers.
LEMMA PastNext ==
  ASSUME TypeOK, OrderInv, [Next]_vars, TypeOK', NEW m \in Sent'
  PROVE  SentIsPast(m)'
<1>1. /\ \A e \in Events : store[e] \in Nat /\ store'[e] \in Nat /\ known[e] \in Nat /\ known'[e] \in Nat
      /\ runs \in Nat /\ runs' \in Nat
  BY Limits DEF TypeOK
<1>2. m \in Message
  <2>1. PublishEvent => Stamped(drainer.job) \in Message
    BY StampedType DEF PublishEvent, TypeOK
  <2> QED
    BY <2>1, Entries, SentShrinks, SentGrows
<1>3. m.job.event \in Events /\ m.job.rv \in Nat /\ m.run \in Nat
  BY <1>2, Limits DEF Message, Job
<1>4. m \in Sent => SentIsPast(m)
  BY DEF OrderInv
<1>5. CASE m \in Sent
  <2>1. CASE Restart
    <3>1. runs' = runs + 1 /\ store' = store
      BY <2>1 DEF Restart
    <3>2. m.run <= runs /\ m.job.rv <= store[m.job.event]
      BY <1>4, <1>5 DEF SentIsPast
    <3>3. m.run <= runs' /\ m.job.rv <= store'[m.job.event] /\ m.run # runs'
      BY <1>1, <1>3, <3>1, <3>2
    <3> QED
      BY <3>3 DEF SentIsPast
  <2>2. CASE ~Restart
    <3>1. /\ store[m.job.event] <= store'[m.job.event] /\ known[m.job.event] <= known'[m.job.event]
          /\ runs' = runs /\ (city = "resolved" => city' = "resolved") /\ (namespaces => namespaces')
      BY <1>3, <2>2, Advances
    <3>2. m.job.rv <= store'[m.job.event] /\ (m.run = runs => m.job.rv <= known'[m.job.event])
      BY <1>1, <1>3, <1>4, <1>5, <3>1 DEF SentIsPast
    <3> QED
      BY <1>4, <1>5, <3>1, <3>2 DEF SentIsPast
  <2> QED
    BY <2>1, <2>2
<1>6. CASE m \notin Sent
  <2>1. PublishEvent
    BY <1>6, SentShrinks
  <2>2. m = Stamped(drainer.job) /\ UNCHANGED <<informerVars, resolverVars, runs>>
    BY <1>6, <2>1, SentGrows DEF PublishEvent, runVars
  <2>3. drainer.job \in Pending /\ drainer.job \in Job
    BY <2>1 DEF PublishEvent, Pending, TypeOK
  <2>4. m.job = drainer.job /\ m.run = runs /\ m.city = city /\ m.scope = ResolveScope(drainer.job.event)
    BY <2>2 DEF Stamped
  <2>5. m.job.rv <= known[m.job.event] /\ known[m.job.event] <= store[m.job.event]
    BY <1>3, <2>3, <2>4 DEF OrderInv
  <2>6. m.scope = "project" => namespaces
    BY <2>4 DEF ResolveScope, Resolve
  <2>7. m.job.rv <= store[m.job.event]
    BY <1>1, <1>3, <2>5
  <2>8. m.run <= runs
    BY <1>1, <2>4
  <2> QED
    BY <2>2, <2>4, <2>5, <2>6, <2>7, <2>8 DEF SentIsPast, informerVars, resolverVars
<1> QED
  BY <1>5, <1>6

\* A job is of a version the informer has.
LEMMA PendingNext ==
  ASSUME TypeOK, OrderInv, [Next]_vars, TypeOK', NEW job \in Pending'
  PROVE  job.rv <= known'[job.event]
<1>1. job.event \in Events /\ job.rv \in Nat
  <2>1. job \in Job
    BY Entries, PendingShrinks, PendingGrows, DeliverJob
  <2> QED
    BY <2>1, Limits DEF Job
<1>2. known[job.event] \in Nat /\ known'[job.event] \in Nat
  BY <1>1, Limits DEF TypeOK
<1>3. job \in Pending => job.rv <= known[job.event]
  BY DEF OrderInv
<1>4. CASE \E e \in Events : Deliver(e)
  <2>1. PICK e \in Events : Deliver(e)
    BY <1>4
  <2>2. PICK new \in Job : /\ Enqueue(new) /\ new.event = e /\ new.rv = store[e]
                           /\ known[e] < store[e] /\ known' = [known EXCEPT ![e] = store[e]]
    BY <2>1, DeliverJob
  <2>f. known \in [Events -> 0..MaxVersion]
    BY DEF TypeOK
  <2>g. known'[e] = store[e] /\ (job.event # e => known'[job.event] = known[job.event])
    BY <1>1, <2>2, <2>f
  <2>3. known'[e] = store[e] /\ known[job.event] <= known'[job.event]
    BY <1>2, <2>2, <2>g
  <2>4. CASE job = new
    BY <1>1, <1>2, <2>2, <2>3, <2>4
  <2>5. CASE job \in Pending
    BY <1>1, <1>2, <1>3, <2>3, <2>5
  <2> QED
    BY <2>1, <2>2, <2>4, <2>5, PendingGrows
<1>5. CASE ~\E e \in Events : Deliver(e)
  <2>1. job \in Pending
    BY <1>5, PendingShrinks
  <2>2. ~Restart
    BY DEF Restart, Pending, Idle
  <2>3. known[job.event] <= known'[job.event]
    BY <1>1, <2>2, Advances
  <2> QED
    BY <1>1, <1>2, <1>3, <2>1, <2>3
<1> QED
  BY <1>4, <1>5
\* No job of this run overtakes a message of its event.
LEMMA BehindNext ==
  ASSUME TypeOK, OrderInv, [Next]_vars, TypeOK', NEW m \in Sent', NEW job \in Pending'
  PROVE  SentIsBehind(m, job)'
<1>1. runs \in Nat /\ (m \in Sent => m \in Message) /\ (job \in Pending => job \in Job)
  BY Limits, Entries DEF TypeOK
<1>2. ~Restart
  BY DEF Restart, Pending, Idle
<1>3. runs' = runs
  BY <1>2, Advances
<1>4. SUFFICES SentIsBehind(m, job)
  BY <1>3 DEF SentIsBehind
<1>5. CASE m \in Sent /\ job \in Pending
  BY <1>5 DEF OrderInv
<1>6. CASE job \notin Pending
  <2>1. PICK e \in Events : Deliver(e)
    BY <1>6, PendingShrinks
  <2>2. PICK new \in Job : /\ Enqueue(new) /\ new.event = e /\ new.rv = store[e]
                           /\ known[e] < store[e]
    BY <2>1, DeliverJob
  <2>3. job = new
    BY <1>6, <2>1, <2>2, PendingGrows
  <2>4. m \in Sent
    <3>1. ~PublishEvent
      BY <2>1 DEF Deliver, PublishEvent, brokerVars, TypeOK
    <3> QED
      BY <3>1, SentShrinks
  <2>5. SentIsPast(m) /\ m.job.rv \in Nat /\ store[e] \in Nat /\ known[e] \in Nat
    BY <1>1, <2>4, Limits, SMTT(40) DEF OrderInv, Message, Job, TypeOK
  <2> QED
    BY <2>2, <2>3, <2>5 DEF SentIsPast, SentIsBehind
<1>7. CASE m \notin Sent
  <2>1. PublishEvent
    BY <1>7, SentShrinks
  <2>2. m.job = drainer.job
    BY <1>7, <2>1, SentGrows DEF Stamped
  <2>3. drainer.job \in Job /\ job \in Job
    BY <1>1, <2>1 DEF PublishEvent, TypeOK, queueVars, Pending
  <2>4. Older(drainer.job, job)
    <3>1. UNCHANGED <<queue, producer>> /\ drainer.at = "holding" /\ drainer'.at = "select"
      BY <2>1 DEF PublishEvent, queueVars
    <3>2. \/ \E i \in 1..Len(queue) : job = queue[i]
          \/ producer.at # "idle" /\ job = producer.job
      BY <3>1 DEF Pending
    <3> QED
      BY <3>1, <3>2 DEF OrderInv, PendingInOrder
  <2> QED
    BY <2>2, <2>3, <2>4, Limits DEF Older, SentIsBehind, Job
<1> QED
  BY <1>5, <1>6, <1>7

\* What is published now follows everything published before it.
LEMMA NewInOrder ==
  ASSUME TypeOK, OrderInv, PublishEvent, NEW m \in Sent
  PROVE  InOrder(m, Stamped(drainer.job))
<1> DEFINE n == Stamped(drainer.job)
<1>1. drainer.job \in Pending
  BY DEF PublishEvent, Pending
<1>2. SentIsPast(m) /\ SentIsBehind(m, drainer.job)
  BY <1>1 DEF OrderInv
<1>3. n.job = drainer.job /\ n.run = runs /\ n.city = city /\ n.scope = ResolveScope(drainer.job.event)
  BY DEF Stamped
<1> HIDE DEF n
<1>4. (n.scope = "none" /\ namespaces) => n.job.event \notin Labelled
  BY <1>3 DEF ResolveScope, Resolve
<1>5. InOrder(m, n)
  BY <1>2, <1>3, <1>4 DEF InOrder, SentIsPast, SentIsBehind
<1> QED
  BY <1>5 DEF n

\* Messages stay in order when one is published, stored, taken for a duplicate
\* or lost.
LEMMA SentInOrderNext ==
  ASSUME TypeOK, OrderInv, [Next]_vars PROVE SentInOrder'
<1>1. SentInOrder /\ wire \in Seq(Message) /\ stream \in Seq(Message)
  BY DEF OrderInv, TypeOK
<1>2. CASE UNCHANGED <<wire, stream>>
  BY <1>1, <1>2 DEF SentInOrder, InOrder
<1>3. CASE PublishEvent
  <2> DEFINE n == Stamped(drainer.job)
  <2>1. stream' = stream /\ wire' = Append(wire, n) /\ n \in Message
    BY <1>3, StampedType DEF PublishEvent, TypeOK
  <2>2. /\ \A i \in 1..Len(stream) : InOrder(stream[i], n)
        /\ \A i \in 1..Len(wire) : InOrder(wire[i], n)
    BY <1>3, NewInOrder DEF Sent
  <2> HIDE DEF n
  <2>3. /\ Len(wire') = Len(wire) + 1 /\ Len(wire) \in Nat /\ wire'[Len(wire) + 1] = n
        /\ \A i \in 1..Len(wire) : wire'[i] = wire[i]
    BY <1>1, <2>1, AppendFacts
  <2>4. \A j \in 1..Len(wire') : j \in 1..Len(wire) \/ j = Len(wire) + 1
    BY <2>3
  <2>5. ASSUME NEW i \in 1..Len(wire'), NEW j \in 1..Len(wire'), i < j
        PROVE  InOrder(wire'[i], wire'[j])
    <3>1. i \in 1..Len(wire)
      BY <2>3, <2>5
    <3> QED
      BY <1>1, <2>2, <2>3, <2>4, <2>5, <3>1 DEF SentInOrder
  <2>6. ASSUME NEW i \in 1..Len(stream), NEW j \in 1..Len(wire')
        PROVE  InOrder(stream[i], wire'[j])
    BY <1>1, <2>2, <2>3, <2>4 DEF SentInOrder
  <2> QED
    BY <1>1, <2>1, <2>5, <2>6 DEF SentInOrder
<1>4. CASE BrokerStores \/ LosePublish
  <2> DEFINE h == Head(wire)
  <2>1. /\ wire' = Tail(wire) /\ h = wire[1] /\ h \in Message /\ Len(wire) \in Nat \ {0}
        /\ Len(wire') = Len(wire) - 1
        /\ \A i \in 1..Len(wire') : i + 1 \in 1..Len(wire) /\ wire'[i] = wire[i + 1]
    BY <1>1, <1>4, TailFacts DEF BrokerStores, LosePublish
  <2>2. stream' = stream \/ stream' = Append(stream, h)
    BY <1>4 DEF BrokerStores, LosePublish
  <2> HIDE DEF h
  <2>3. \A i, j \in 1..Len(wire') : i < j => InOrder(wire'[i], wire'[j])
    BY <1>1, <2>1 DEF SentInOrder
  <2>4. /\ \A i \in 1..Len(stream) : InOrder(stream[i], h)
        /\ \A i \in 1..Len(wire') : InOrder(h, wire'[i])
        /\ \A i \in 1..Len(stream), j \in 1..Len(wire') : InOrder(stream[i], wire'[j])
    BY <1>1, <2>1 DEF SentInOrder
  <2>5. CASE stream' = stream
    BY <1>1, <2>3, <2>4, <2>5 DEF SentInOrder
  <2>6. CASE stream' = Append(stream, h)
    <3>1. /\ Len(stream') = Len(stream) + 1 /\ Len(stream) \in Nat /\ stream'[Len(stream) + 1] = h
          /\ \A i \in 1..Len(stream) : stream'[i] = stream[i]
      BY <1>1, <2>1, <2>6, AppendFacts
    <3>2. \A i \in 1..Len(stream') : i \in 1..Len(stream) \/ i = Len(stream) + 1
      BY <3>1
    <3>3. ASSUME NEW i \in 1..Len(stream'), NEW j \in 1..Len(stream'), i < j
          PROVE  InOrder(stream'[i], stream'[j])
      <4>1. i \in 1..Len(stream)
        BY <3>1, <3>3
      <4> QED
        BY <1>1, <2>4, <3>1, <3>2, <3>3, <4>1 DEF SentInOrder
    <3>4. ASSUME NEW i \in 1..Len(stream'), NEW j \in 1..Len(wire')
          PROVE  InOrder(stream'[i], wire'[j])
      BY <2>4, <3>1, <3>2
    <3> QED
      BY <2>3, <3>3, <3>4 DEF SentInOrder
  <2> QED
    BY <2>2, <2>5, <2>6
<1>5. CASE Next
  <2>1. ASSUME NEW e \in Events, WriteEvent(e) \/ Deliver(e) PROVE UNCHANGED <<wire, stream>>
    BY <2>1 DEF WriteEvent, Deliver, brokerVars
  <2>2. ASSUME NEW job \in waiting, AwaitAck(job) PROVE UNCHANGED <<wire, stream>>
    BY <2>2 DEF AwaitAck, brokerVars
  <2>3. CASE EvictOldest \/ EnqueueAgain \/ TakeJob \/ SeeCancel \/ PublishEventFails
    BY <1>2, <2>3 DEF EvictOldest, EnqueueAgain, TakeJob, SeeCancel, PublishEventFails, brokerVars
  <2>4. CASE WindowPasses \/ AwaitPendingAcks \/ NamespacesSync \/ ResolveOnce
    BY <1>2, <2>4 DEF WindowPasses, AwaitPendingAcks, NamespacesSync, ResolveOnce, brokerVars
  <2>5. CASE CacheSynced \/ Cancel \/ Return \/ Restart
    BY <1>2, <2>5 DEF CacheSynced, Cancel, Return, Restart, brokerVars
  <2> QED
    BY <1>2, <1>3, <1>4, <1>5, <2>1, <2>2, <2>3, <2>4, <2>5 DEF Next
<1>6. CASE UNCHANGED vars
  BY <1>2, <1>6 DEF vars, brokerVars
<1> QED
  BY <1>5, <1>6

\* Jobs stay in order on their way through the queue.
LEMMA PendingInOrderNext ==
  ASSUME TypeOK, OrderInv, [Next]_vars PROVE PendingInOrder'
<1>1. PendingInOrder /\ queue \in Seq(Job)
  BY DEF OrderInv, TypeOK
<1> USE DEF PendingInOrder
<1>2. CASE UNCHANGED queueVars /\ (drainer' = drainer \/ drainer'.at # "holding")
  BY <1>1, <1>2 DEF queueVars, Older
<1>3. ASSUME NEW e \in Events, Deliver(e) PROVE PendingInOrder'
  <2>1. PICK new \in Job : /\ Enqueue(new) /\ new.event = e /\ new.rv = store[e]
                           /\ known[e] < store[e] /\ producer = Idle
    BY <1>3, DeliverJob
  <2>2. \A job \in Pending : Older(job, new)
    <3>1. ASSUME NEW job \in Pending, job.event = e PROVE job.rv < store[e]
      <4>1. job.rv <= known[e] /\ job.rv \in Nat /\ known[e] \in Nat /\ store[e] \in Nat
        <5>1. job \in Job /\ job.rv <= known[job.event]
          BY Entries DEF OrderInv
        <5>2. known[e] \in Nat /\ store[e] \in Nat
          BY Limits DEF TypeOK
        <5> QED
          BY <3>1, <5>1, <5>2, Limits DEF Job
      <4> QED
        BY <2>1, <4>1
    <3> QED
      BY <2>1, <3>1 DEF Older
  <2>3. /\ \A i \in 1..Len(queue) : Older(queue[i], new)
        /\ drainer.at = "holding" => Older(drainer.job, new)
    BY <2>2 DEF Pending
  <2>4. UNCHANGED drainer /\ producer.at = "idle"
    BY <1>3, <2>1 DEF Deliver, Idle
  <2>5. CASE queue' = Append(queue, new) /\ producer' = Idle
    <3>1. /\ Len(queue') = Len(queue) + 1 /\ Len(queue) \in Nat /\ queue'[Len(queue) + 1] = new
          /\ \A i \in 1..Len(queue) : queue'[i] = queue[i]
      BY <1>1, <2>5, AppendFacts
    <3>2. \A i \in 1..Len(queue') : i \in 1..Len(queue) \/ i = Len(queue) + 1
      BY <3>1
    <3>3. ASSUME NEW i \in 1..Len(queue'), NEW j \in 1..Len(queue'), i < j
          PROVE  Older(queue'[i], queue'[j])
      <4>1. i \in 1..Len(queue)
        BY <3>1, <3>3
      <4> QED
        BY <1>1, <2>3, <3>1, <3>2, <3>3, <4>1
    <3>4. drainer.at = "holding" => \A i \in 1..Len(queue') : Older(drainer.job, queue'[i])
      BY <1>1, <2>3, <3>1, <3>2
    <3>5. producer'.at = "idle"
      BY <2>5 DEF Idle
    <3> QED
      BY <2>4, <3>3, <3>4, <3>5
  <2>6. CASE queue' = queue /\ producer' = [at |-> "evict", job |-> new]
    BY <1>1, <2>3, <2>4, <2>6
  <2> QED
    BY <2>1, <2>5, <2>6 DEF Enqueue, TryEnqueue
<1>4. ASSUME queue # <<>>, queue' = Tail(queue)
      PROVE  /\ \A i, j \in 1..Len(queue') : i < j => Older(queue'[i], queue'[j])
             /\ \A i \in 1..Len(queue') : \E k \in 1..Len(queue) : queue'[i] = queue[k]
             /\ \A i \in 1..Len(queue') : Older(Head(queue), queue'[i])
             /\ 1 \in 1..Len(queue) /\ Head(queue) = queue[1]
  <2>1. /\ Len(queue) \in Nat \ {0} /\ Len(queue') = Len(queue) - 1 /\ Head(queue) = queue[1]
        /\ \A i \in 1..Len(queue') : i + 1 \in 1..Len(queue) /\ queue'[i] = queue[i + 1]
    BY <1>1, <1>4, TailFacts
  <2> QED
    BY <1>1, <2>1, SMTT(40)
<1>5. CASE EvictOldest
  <2>1. producer \in [at : {"evict", "again"}, job : Job]
    BY <1>5 DEF EvictOldest, TypeOK, Idle
  <2>2. producer.at # "idle" /\ producer'.job = producer.job /\ UNCHANGED drainer
    BY <1>5, <2>1 DEF EvictOldest
  <2>3. CASE queue # <<>> /\ queue' = Tail(queue)
    BY <1>1, <1>4, <2>2, <2>3
  <2>4. CASE queue' = queue
    BY <1>1, <2>2, <2>4
  <2> QED
    BY <1>5, <2>3, <2>4 DEF EvictOldest
<1>6. CASE EnqueueAgain
  <2> DEFINE new == producer.job
  <2>1. producer.at # "idle" /\ new \in Job /\ producer'.at = "idle" /\ UNCHANGED drainer
    BY <1>6 DEF EnqueueAgain, TypeOK, Idle
  <2> HIDE DEF new
  <2>2. CASE queue' = queue
    BY <1>1, <2>1, <2>2
  <2>3. CASE queue' = Append(queue, new)
    <3>1. /\ Len(queue') = Len(queue) + 1 /\ Len(queue) \in Nat /\ queue'[Len(queue) + 1] = new
          /\ \A i \in 1..Len(queue) : queue'[i] = queue[i]
      BY <1>1, <2>1, <2>3, AppendFacts
    <3>2. \A i \in 1..Len(queue') : i \in 1..Len(queue) \/ i = Len(queue) + 1
      BY <3>1
    <3>3. ASSUME NEW i \in 1..Len(queue'), NEW j \in 1..Len(queue'), i < j
          PROVE  Older(queue'[i], queue'[j])
      <4>1. i \in 1..Len(queue)
        BY <3>1, <3>3
      <4> QED
        BY <1>1, <2>1, <3>1, <3>2, <3>3, <4>1 DEF new
    <3>4. drainer.at = "holding" => \A i \in 1..Len(queue') : Older(drainer.job, queue'[i])
      BY <1>1, <2>1, <3>1, <3>2 DEF new
    <3> QED
      BY <2>1, <3>3, <3>4
  <2> QED
    BY <1>6, <2>2, <2>3 DEF EnqueueAgain, TryEnqueue, new
<1>7. CASE TakeJob
  <2>1. queue # <<>> /\ queue' = Tail(queue) /\ drainer'.job = Head(queue) /\ UNCHANGED producer
    BY <1>7 DEF TakeJob
  <2> QED
    BY <1>1, <1>4, <2>1
<1>8. CASE Restart
  BY <1>8 DEF Restart, Idle
<1>9. CASE UNCHANGED vars
  BY <1>2, <1>9 DEF vars
<1>10. CASE Next
  <2>1. CASE SeeCancel \/ PublishEvent \/ PublishEventFails \/ AwaitPendingAcks
    BY <1>2, <2>1 DEF SeeCancel, PublishEvent, PublishEventFails, AwaitPendingAcks
  <2>2. CASE BrokerStores \/ LosePublish \/ WindowPasses
    BY <1>2, <2>2 DEF BrokerStores, LosePublish, WindowPasses
  <2>3. CASE NamespacesSync \/ ResolveOnce \/ CacheSynced \/ Cancel \/ Return
    BY <1>2, <2>3 DEF NamespacesSync, ResolveOnce, CacheSynced, Cancel, Return
  <2>4. ASSUME NEW e \in Events, WriteEvent(e) PROVE PendingInOrder'
    BY <1>2, <2>4 DEF WriteEvent
  <2>5. ASSUME NEW job \in waiting, AwaitAck(job) PROVE PendingInOrder'
    BY <1>2, <2>5 DEF AwaitAck
  <2> HIDE DEF PendingInOrder
  <2> QED
    BY <1>3, <1>5, <1>6, <1>7, <1>8, <1>10, <2>1, <2>2, <2>3, <2>4, <2>5 DEF Next
<1> QED
  BY <1>9, <1>10
LEMMA OrderInit == Init => OrderInv
<1> SUFFICES ASSUME Init PROVE OrderInv
  OBVIOUS
<1>1. queue = <<>> /\ wire = <<>> /\ stream = <<>> /\ drainer.at = "select" /\ producer.at = "idle"
  BY DEF Init, Idle
<1>2. Sent = {} /\ Pending = {} /\ SentInOrder /\ PendingInOrder
  BY <1>1 DEF Sent, Pending, SentInOrder, PendingInOrder
<1>3. \A e \in Events : known[e] <= store[e]
  BY DEF Init
<1> QED
  BY <1>2, <1>3 DEF OrderInv

LEMMA OrderNext ==
  ASSUME TypeOK, OrderInv, [Next]_vars PROVE OrderInv'
<1>1. TypeOK'
  BY TypeNext
<1>2. \A e \in Events : known'[e] <= store'[e]
  BY Advances
<1>3. SentInOrder' /\ PendingInOrder'
  BY SentInOrderNext, PendingInOrderNext
<1>4. \A m \in Sent' : SentIsPast(m)'
  BY <1>1, PastNext
<1>5. \A job \in Pending' : job.rv <= known'[job.event]
  BY <1>1, PendingNext
<1>6. \A m \in Sent', job \in Pending' : SentIsBehind(m, job)'
  BY <1>1, BehindNext
<1> QED
  BY <1>2, <1>3, <1>4, <1>5, <1>6 DEF OrderInv

LEMMA OrderAlways == Spec => [](TypeOK /\ OrderInv)
<1>1. Init => TypeOK /\ OrderInv
  BY InitType, OrderInit
<1>2. TypeOK /\ OrderInv /\ [Next]_vars => (TypeOK /\ OrderInv)'
  BY TypeNext, OrderNext
<1> QED
  BY <1>1, <1>2, PTL DEF Spec

\* Whatever is evicted, lost, republished after a restart or forgotten by the
\* duplicate window, the stream never goes back to an earlier version of an
\* event, and a run stores no version of it twice.
THEOREM VersionsAlwaysAdvance == Spec => []VersionsAdvance
<1>1. OrderInv => VersionsAdvance
  BY DEF OrderInv, SentInOrder, InOrder, VersionsAdvance
<1> QED
  BY <1>1, OrderAlways, PTL

\* Scope and city annotations of one run only get better along the stream, for
\* any interleaving of the resolvers with the publisher.
THEOREM StampsAlwaysImprove == Spec => []StampsImprove
<1>1. OrderInv => StampsImprove
  BY DEF OrderInv, SentInOrder, InOrder, StampsImprove
<1> QED
  BY <1>1, OrderAlways, PTL

-----------------------------------------------------------------------------
(* Acks.                                                                   *)

\* The stream is append-only.
StreamGrows ==
  /\ Len(stream) \in Nat /\ Len(stream') \in Nat /\ Len(stream) <= Len(stream')
  /\ \A i \in 1..Len(stream) : stream'[i] = stream[i]

\* What is stored stays stored.
LEMMA StoredStays ==
  ASSUME StreamGrows, NEW e, NEW rv, Stored(e, rv) PROVE Stored(e, rv)'
<1>1. PICK i \in 1..Len(stream) : stream[i].job.event = e /\ stream[i].job.rv >= rv
  BY DEF Stored
<1>2. i \in 1..Len(stream') /\ stream'[i] = stream[i]
  BY DEF StreamGrows
<1> QED
  BY <1>1, <1>2 DEF Stored

\* The duplicate window remembers only ids whose version the stream has, so an
\* ack for a message dropped as a duplicate is no less true than one for a
\* message stored.
LEMMA AckedNext ==
  ASSUME TypeOK, WindowIsStored, AckedIsStored, [Next]_vars
  PROVE  WindowIsStored' /\ AckedIsStored'
<1> DEFINE Version(job) == IF job.type = "MODIFIED" THEN job.rv ELSE 1
<1>1. stream \in Seq(Message) /\ Len(stream) \in Nat
  BY DEF TypeOK
<1>2. ASSUME StreamGrows, window' \subseteq window, acked' \subseteq acked
      PROVE  WindowIsStored' /\ AckedIsStored'
  <2>1. \A id \in window' : Stored(id[1], IF id[2] = 0 THEN 1 ELSE id[2])'
    BY <1>2, StoredStays DEF WindowIsStored
  <2>2. \A job \in acked' : Stored(job.event, Version(job))'
    BY <1>2, StoredStays DEF AckedIsStored
  <2> QED
    BY <2>1, <2>2 DEF WindowIsStored, AckedIsStored
<1>3. CASE UNCHANGED stream /\ window' \subseteq window /\ acked' \subseteq acked
  BY <1>1, <1>2, <1>3 DEF StreamGrows
<1>4. CASE BrokerStores
  <2>1. PICK msg \in Message : msg = Head(wire)
    BY <1>4, TailFacts DEF BrokerStores, TypeOK
  <2> DEFINE id == QualifiedMsgID(msg.job)
  <2>2. /\ stream' = IF id \in window THEN stream ELSE Append(stream, msg)
        /\ window' = window \cup {id}
        /\ acked' \subseteq acked \cup {msg.job}
    BY <1>4, <2>1 DEF BrokerStores
  <2>3. msg.job \in Job
    BY DEF Message
  <2>4. msg.job.rv \in Nat \ {0} /\ msg.job.type \in {"ADDED", "MODIFIED"}
    BY <2>3, Limits DEF Job
  <2>5. id[1] = msg.job.event /\ (IF id[2] = 0 THEN 1 ELSE id[2]) = Version(msg.job)
    BY <2>4 DEF QualifiedMsgID
  <2> HIDE DEF id
  <2>6. StreamGrows
    <3>1. CASE stream' = stream
      BY <1>1, <3>1 DEF StreamGrows
    <3>2. CASE stream' = Append(stream, msg)
      BY <1>1, <3>2, AppendFacts DEF StreamGrows
    <3> QED
      BY <2>2, <3>1, <3>2
  <2>7. Stored(msg.job.event, Version(msg.job))'
    <3>1. CASE id \in window
      <4>1. Stored(msg.job.event, Version(msg.job))
        BY <2>5, <3>1 DEF WindowIsStored
      <4> QED
        BY <2>6, <4>1, StoredStays
    <3>2. CASE id \notin window
      <4>1. Len(stream') = Len(stream) + 1 /\ stream'[Len(stream) + 1] = msg
        BY <1>1, <2>2, <3>2, AppendFacts
      <4>2. Len(stream) + 1 \in 1..Len(stream') /\ msg.job.rv >= Version(msg.job)
        BY <1>1, <2>4, <4>1
      <4> QED
        BY <4>1, <4>2 DEF Stored
    <3> QED
      BY <3>1, <3>2
  <2>8. \A x \in window' : Stored(x[1], IF x[2] = 0 THEN 1 ELSE x[2])'
    <3>1. ASSUME NEW x \in window PROVE Stored(x[1], IF x[2] = 0 THEN 1 ELSE x[2])'
      BY <2>6, StoredStays DEF WindowIsStored
    <3>2. Stored(id[1], IF id[2] = 0 THEN 1 ELSE id[2])'
      BY <2>5, <2>7
    <3> QED
      BY <2>2, <3>1, <3>2
  <2>9. \A job \in acked' : Stored(job.event, Version(job))'
    BY <2>2, <2>6, <2>7, StoredStays DEF AckedIsStored
  <2> QED
    BY <2>8, <2>9 DEF WindowIsStored, AckedIsStored
<1>5. CASE UNCHANGED vars
  BY <1>3, <1>5 DEF vars, brokerVars, ackVars
<1>6. CASE Next
  <2>1. ASSUME NEW e \in Events, WriteEvent(e) \/ Deliver(e) PROVE UNCHANGED <<stream, window, acked>>
    BY <2>1 DEF WriteEvent, Deliver, brokerVars, ackVars
  <2>2. ASSUME NEW job \in waiting, AwaitAck(job)
        PROVE  UNCHANGED <<stream, window>> /\ acked' \subseteq acked
    BY <2>2 DEF AwaitAck, brokerVars
  <2>3. CASE EvictOldest \/ EnqueueAgain \/ TakeJob \/ SeeCancel \/ PublishEvent \/ PublishEventFails
    BY <1>3, <2>3 DEF EvictOldest, EnqueueAgain, TakeJob, SeeCancel, PublishEvent,
                      PublishEventFails, brokerVars, ackVars
  <2>4. CASE LosePublish \/ WindowPasses \/ AwaitPendingAcks \/ NamespacesSync \/ ResolveOnce
    BY <1>3, <2>4 DEF LosePublish, WindowPasses, AwaitPendingAcks, NamespacesSync,
                      ResolveOnce, brokerVars, ackVars
  <2>5. CASE CacheSynced \/ Cancel \/ Return \/ Restart
    BY <1>3, <2>5 DEF CacheSynced, Cancel, Return, Restart, brokerVars, ackVars
  <2> QED
    BY <1>3, <1>4, <1>6, <2>1, <2>2, <2>3, <2>4, <2>5 DEF Next
<1> QED
  BY <1>5, <1>6

\* A publish the exporter counts as successful is on the stream, whichever acks
\* were lost and whatever was dropped as a duplicate.
THEOREM AckedAlwaysStored == Spec => []AckedIsStored
<1>1. Init => TypeOK /\ WindowIsStored /\ AckedIsStored
  BY InitType DEF Init, WindowIsStored, AckedIsStored
<1>2. TypeOK /\ WindowIsStored /\ AckedIsStored /\ [Next]_vars
        => (TypeOK /\ WindowIsStored /\ AckedIsStored)'
  BY TypeNext, AckedNext
<1> QED
  BY <1>1, <1>2, PTL DEF Spec
=============================================================================
