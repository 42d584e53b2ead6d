-------------------------- MODULE DeadLetterProofs --------------------------
(***************************************************************************)
(* Proofs about DeadLetter, for every set of events, policies and replicas *)
(* and every bound: it is type correct; no event is lost when dead letters *)
(* of one event and policy carry different Timestamps, since LedgerInv is  *)
(* inductive; the pipeline implements the ledger.                          *)
(***************************************************************************)
EXTENDS DeadLetter, SequenceTheorems, FiniteSetTheorems, WellFoundedInduction, TLAPS

-----------------------------------------------------------------------------
(* Operators the model is built from.                                      *)

\* Acknowledging a message removes its key and changes no other entry.
LEMMA DropProperties ==
  ASSUME NEW f, NEW k
  PROVE  /\ DOMAIN Drop(f, k) = DOMAIN f \ {k}
         /\ \A x \in DOMAIN f \ {k} : Drop(f, k)[x] = f[x]
  BY DEF Drop

\* The swap-with-last removal of removeLocked yields a list of policies.
LEMMA RemoveByNameType ==
  ASSUME NEW S, NEW q \in Seq(S), NEW p
  PROVE  RemoveByName(q, p) \in Seq(S)
  <1>1. CASE Named(q, p) = {}
    BY <1>1 DEF RemoveByName
  <1>2. CASE Named(q, p) # {}
    <2> DEFINE i == First(Named(q, p))
               n == Len(q)
               w == [q EXCEPT ![i] = q[n]]
    <2>1. n \in Nat /\ DOMAIN q = 1..n
      BY LenProperties
    <2>2. n > 0
      BY <1>2, <2>1 DEF Named
    <2>3. w \in Seq(S) /\ Len(w) = n
      <3>1. q \in [1..n -> S] /\ q[n] \in S
        BY <2>1, <2>2, LenProperties
      <3> HIDE DEF i, n
      <3>2. w \in [1..n -> S]
        BY <3>1
      <3> QED BY <3>2, <2>1, IsASeq, LenProperties
    <2>4. SubSeq(w, 1, n - 1) \in Seq(S)
      BY <2>1, <2>2, <2>3, SubSeqProperties
    <2> QED BY <1>2, <2>4 DEF RemoveByName
  <1> QED BY <1>1, <1>2

\* The generation of a policy in the cache is a number, 0 if there is none.
LEMMA GenerationType ==
  ASSUME NEW q \in Seq(CompiledPolicy), NEW p
  PROVE  Generation(q, p) \in Nat
  <1>1. CASE Named(q, p) = {}
    BY <1>1 DEF Generation
  <1>2. CASE Named(q, p) # {}
    <2> DEFINE I == Named(q, p)
    <2>1. I \subseteq Nat /\ I \subseteq DOMAIN q
      BY LenProperties DEF Named
    <2> DEFINE R == {jk \in Nat \X Nat : jk[1] < jk[2]}
    <2>0. IsWellFoundedOn(R, Nat)
      BY NatLessThanWellFounded, Zenon DEF OpToRel
    <2>2. PICK i \in I : \A j \in I : ~(<<j, i>> \in R)
      BY <1>2, <2>1, <2>0, WFMin
    <2>3. ASSUME NEW j \in I PROVE i <= j
      <3>1. <<j, i>> \in Nat \X Nat /\ <<j, i>>[1] = j /\ <<j, i>>[2] = i
        BY <2>1
      <3>2. ~(j < i)
        BY <2>2, <3>1, Zenon
      <3> QED BY <2>1, <3>2
    <2>4. First(I) \in I
      BY <2>3 DEF First
    <2>5. q[First(I)] \in CompiledPolicy
      BY <2>1, <2>4, LenProperties, ElementOfSeq
    <2> QED BY <1>2, <2>5 DEF Generation, CompiledPolicy
  <1> QED BY <1>1, <1>2

\* A decode failure is evaluated like a policy that fails on every event.
LEMMA DecodeFailureType == DecodeFailure \in CompiledPolicy
  BY DEF DecodeFailure, CompiledPolicy, Verdicts

-----------------------------------------------------------------------------
(* Type correctness.                                                       *)

\* The processors start with every policy compiled and all streams empty.
LEMMA TypeInit == Init => TypeOK
  <1> SUFFICES ASSUME Init PROVE TypeOK
    OBVIOUS
  <1>1. PolicyTypeOK
    <2>1. api \in [Policies -> PolicyObject]
      BY DEF Init, PolicyObject
    <2>2. ASSUME NEW r \in Replicas PROVE cache[r] \in Seq(CompiledPolicy)
      <3> DEFINE n == Cardinality(Policies)
      <3>1. n \in Nat
        BY PolicyAssumption, FS_CardinalityType
      <3>2. {Compile(p, api[p]) : p \in Policies} \subseteq CompiledPolicy
        BY <2>1 DEF Compile, CompiledPolicy, PolicyObject
      <3>3. cache[r] \in [1..n -> CompiledPolicy]
        BY <3>2 DEF Init
      <3> QED BY <3>1, <3>3, IsASeq
    <2>3. cache \in [Replicas -> Seq(CompiledPolicy)]
      BY <2>2 DEF Init
    <2>4. inbox \in [Replicas -> Seq(Notification)] /\ removed \in [Replicas -> BOOLEAN]
      BY DEF Init
    <2> QED BY <2>1, <2>3, <2>4 DEF PolicyTypeOK
  <1>2. SourceTypeOK /\ DlqTypeOK
    BY DEF Init, SourceTypeOK, DlqTypeOK
  <1>3. FateTypeOK /\ IngestTypeOK /\ RetryTypeOK /\ BoundTypeOK
    BY DEF Init, FateTypeOK, IngestTypeOK, RetryTypeOK, BoundTypeOK
  <1> QED BY <1>1, <1>2, <1>3 DEF TypeOK

\* A write at the API server appends a well-formed notification for every replica.
LEMMA TypeWrite ==
  ASSUME TypeOK, NEW p \in Policies, NEW op \in {"add", "update", "delete"},
         NEW obj \in PolicyObject, Write(p, op, obj)
  PROVE  TypeOK'
  <1> DEFINE note == [op |-> op, name |-> p, wasReady |-> api[p].ready, obj |-> obj]
  <1>1. note \in Notification
    BY DEF TypeOK, PolicyTypeOK, PolicyObject, Notification
  <1>2. \A r \in Replicas : Append(inbox[r], note) \in Seq(Notification)
    BY <1>1, AppendProperties DEF TypeOK, PolicyTypeOK
  <1>3. inbox' \in [Replicas -> Seq(Notification)]
    BY <1>2 DEF Write
  <1>4. PolicyTypeOK'
    BY <1>3 DEF TypeOK, PolicyTypeOK, Write
  <1>5. SourceTypeOK' /\ DlqTypeOK' /\ FateTypeOK' /\ IngestTypeOK' /\ RetryTypeOK'
    BY DEF TypeOK, Write, sourceVars, dlqVars, fateVars, retryVars, SourceTypeOK,
           DlqTypeOK, FateTypeOK, IngestTypeOK, RetryTypeOK
  <1>6. BoundTypeOK'
    BY DEF TypeOK, BoundTypeOK, Write
  <1> QED BY <1>4, <1>5, <1>6 DEF TypeOK

\* What users and the controller write at the API server is a policy object.
LEMMA TypePolicyWrite == TypeOK /\ PolicyWrite => TypeOK'
  <1> SUFFICES ASSUME TypeOK, NEW p \in Policies,
                      \/ \E v \in Verdicts : WriteSpec(p, v) \/ CreatePolicy(p, v)
                      \/ WriteStatus(p) \/ DeletePolicy(p)
               PROVE  TypeOK'
    BY DEF PolicyWrite
  <1> DEFINE o == api[p]
  <1>0. o \in PolicyObject
    BY DEF TypeOK, PolicyTypeOK
  <1>1. ASSUME NEW v \in Verdicts, WriteSpec(p, v) PROVE TypeOK'
    <2>1. [o EXCEPT !.gen = @ + 1, !.verdict = v] \in PolicyObject
      <3> DEFINE g == o.gen + 1
      <3>1. g \in Nat
        BY <1>0 DEF PolicyObject
      <3> HIDE DEF g
      <3>2. [o EXCEPT !.gen = g, !.verdict = v] \in PolicyObject
        BY <1>0, <3>1 DEF PolicyObject
      <3> QED BY <3>2 DEF g
    <2> QED BY <1>1, <2>1, TypeWrite DEF WriteSpec
  <1>2. ASSUME NEW v \in Verdicts, CreatePolicy(p, v) PROVE TypeOK'
    <2>1. [gen |-> 1, ready |-> FALSE, verdict |-> v] \in PolicyObject
      BY DEF PolicyObject
    <2> QED BY <1>2, <2>1, TypeWrite DEF CreatePolicy
  <1>3. CASE WriteStatus(p)
    <2>1. [o EXCEPT !.ready = ~@] \in PolicyObject
      BY <1>0 DEF PolicyObject
    <2> QED BY <1>3, <2>1, TypeWrite DEF WriteStatus
  <1>4. CASE DeletePolicy(p)
    <2>1. [o EXCEPT !.gen = 0, !.ready = FALSE] \in PolicyObject
      BY <1>0 DEF PolicyObject
    <2> QED BY <1>4, <2>1, TypeWrite DEF DeletePolicy
  <1> QED BY <1>1, <1>2, <1>3, <1>4

\* The informer's handlers touch the inbox, the cache and the registered scans.
LEMMA TypeHandlerFrame ==
  ASSUME TypeOK, HandlerKeeps, Fault \/ NoFault, PolicyTypeOK',
         scans' \in [Replicas -> SUBSET Scan]
  PROVE  TypeOK'
  <1>1. SourceTypeOK' /\ DlqTypeOK' /\ FateTypeOK' /\ IngestTypeOK'
    BY DEF TypeOK, HandlerKeeps, sourceVars, dlqVars, fateVars, SourceTypeOK,
           DlqTypeOK, FateTypeOK, IngestTypeOK
  <1>2. RetryTypeOK'
    BY DEF TypeOK, HandlerKeeps, RetryTypeOK, dlqVars
  <1>3. BoundTypeOK'
    BY DEF TypeOK, HandlerKeeps, BoundTypeOK, Fault, NoFault
  <1> QED BY <1>1, <1>2, <1>3 DEF TypeOK

\* onPolicyAdd, onPolicyUpdate and onPolicyDelete leave well-formed caches
\* and registered scans behind.
LEMMA TypePolicyHandler ==
  ASSUME TypeOK, NEW r \in Replicas, PolicyHandler(r)
  PROVE  TypeOK'
  <1> DEFINE n == Head(inbox[r])
  <1>1. inbox[r] # <<>> => n \in Notification /\ Tail(inbox[r]) \in Seq(Notification)
    BY HeadTailProperties DEF TypeOK, PolicyTypeOK
  <1>2. cache[r] \in Seq(CompiledPolicy)
    BY DEF TypeOK, PolicyTypeOK
  <1>3. inbox[r] # <<>> => Compile(n.name, n.obj) \in CompiledPolicy
    BY <1>1 DEF Notification, PolicyObject, Compile, CompiledPolicy
  <1>4. inbox[r] # <<>> => Added(cache[r], n) \in Seq(CompiledPolicy)
    BY <1>2, <1>3, AppendProperties DEF Added
  <1>5. inbox[r] # <<>> => RemoveByName(cache[r], n.name) \in Seq(CompiledPolicy)
    BY <1>2, RemoveByNameType
  <1>6. CASE OnPolicyAdd(r)
    <2>1. PolicyTypeOK'
      BY <1>6, <1>1, <1>4 DEF OnPolicyAdd, HandlerKeeps, TypeOK, PolicyTypeOK
    <2>2. scans' \in [Replicas -> SUBSET Scan]
      BY <1>6 DEF OnPolicyAdd, TypeOK, RetryTypeOK
    <2>3. HandlerKeeps /\ (Fault \/ NoFault)
      BY <1>6 DEF OnPolicyAdd
    <2> QED BY <2>1, <2>2, <2>3, TypeHandlerFrame
  <1>7. CASE OnPolicyDelete(r)
    <2>1. PolicyTypeOK'
      BY <1>7, <1>1, <1>5 DEF OnPolicyDelete, HandlerKeeps, TypeOK, PolicyTypeOK
    <2>2. scans' \in [Replicas -> SUBSET Scan]
      BY <1>7 DEF OnPolicyDelete, TypeOK, RetryTypeOK
    <2>3. HandlerKeeps /\ (Fault \/ NoFault)
      BY <1>7 DEF OnPolicyDelete
    <2> QED BY <2>1, <2>2, <2>3, TypeHandlerFrame
  <1>8. CASE OnPolicyUpdateUnresolved(r)
    <2>1. PolicyTypeOK'
      BY <1>8, <1>1 DEF OnPolicyUpdateUnresolved, HandlerKeeps, TypeOK, PolicyTypeOK
    <2>2. scans' \in [Replicas -> SUBSET Scan]
      BY <1>8 DEF OnPolicyUpdateUnresolved, TypeOK, RetryTypeOK
    <2>3. HandlerKeeps /\ (Fault \/ NoFault)
      BY <1>8 DEF OnPolicyUpdateUnresolved
    <2> QED BY <2>1, <2>2, <2>3, TypeHandlerFrame
  <1>9. CASE OnPolicyUpdateRemove(r)
    <2>1. PolicyTypeOK'
      BY <1>9, <1>5 DEF OnPolicyUpdateRemove, HandlerKeeps, TypeOK, PolicyTypeOK
    <2>2. scans' \in [Replicas -> SUBSET Scan]
      BY <1>9 DEF OnPolicyUpdateRemove, TypeOK, RetryTypeOK
    <2>3. HandlerKeeps /\ (Fault \/ NoFault)
      BY <1>9 DEF OnPolicyUpdateRemove
    <2> QED BY <2>1, <2>2, <2>3, TypeHandlerFrame
  <1>10. CASE OnPolicyUpdateAdd(r)
    <2>1. PolicyTypeOK'
      BY <1>10, <1>1, <1>4 DEF OnPolicyUpdateAdd, HandlerKeeps, TypeOK, PolicyTypeOK
    <2>2. scans' \in [Replicas -> SUBSET Scan]
      <3> DEFINE c == [policy |-> n.name, gen |-> n.obj.gen, active |-> FALSE]
      <3>1. c \in Scan
        BY <1>10, <1>1 DEF OnPolicyUpdateAdd, Notification, PolicyObject, Scan
      <3>2. scans' = [scans EXCEPT ![r] = @ \cup {c}] \/ scans' = scans
        BY <1>10 DEF OnPolicyUpdateAdd
      <3>3. scans \in [Replicas -> SUBSET Scan]
        BY DEF TypeOK, RetryTypeOK
      <3> HIDE DEF c
      <3> QED BY <3>1, <3>2, <3>3
    <2>3. HandlerKeeps /\ (Fault \/ NoFault)
      BY <1>10 DEF OnPolicyUpdateAdd
    <2> QED BY <2>1, <2>2, <2>3, TypeHandlerFrame
  <1> QED BY <1>6, <1>7, <1>8, <1>9, <1>10 DEF PolicyHandler

\* The variables an action leaves alone keep their types.
LEMMA TypeFrame ==
  ASSUME TypeOK
  PROVE  /\ UNCHANGED policyVars => PolicyTypeOK'
         /\ UNCHANGED sourceVars /\ UNCHANGED failures => SourceTypeOK'
         /\ UNCHANGED dlqVars => DlqTypeOK'
         /\ UNCHANGED fateVars => FateTypeOK'
         /\ UNCHANGED ing => IngestTypeOK'
         /\ UNCHANGED retryVars /\ UNCHANGED failures => RetryTypeOK'
         /\ UNCHANGED <<writes, crashes>> /\ (Fault \/ NoFault) => BoundTypeOK'
  BY DEF TypeOK, policyVars, sourceVars, dlqVars, fateVars, retryVars,
         PolicyTypeOK, SourceTypeOK, DlqTypeOK, FateTypeOK, IngestTypeOK,
         RetryTypeOK, BoundTypeOK, Fault, NoFault

\* Storing a well-formed message keeps a source stream well formed.
LEMMA TypePutSource ==
  ASSUME SourceTypeOK, NEW m \in SourceMsg, src' = Put(src, nextSrc, m),
         nextSrc' = nextSrc + 1, srcSeen' \subseteq DOMAIN failures, UNCHANGED failures
  PROVE  SourceTypeOK'
  <1>1. nextSrc' \in Nat \ {0} /\ DOMAIN src' = DOMAIN src \cup {nextSrc}
    BY DEF SourceTypeOK, Put
  <1>2. DOMAIN src' \subseteq 1..(nextSrc' - 1)
    BY <1>1 DEF SourceTypeOK
  <1>3. ASSUME NEW s \in DOMAIN src' PROVE src'[s] \in SourceMsg
    <2>1. CASE s = nextSrc
      BY <2>1 DEF Put
    <2>2. CASE s \in DOMAIN src \ {nextSrc}
      <3>1. src'[s] = src[s]
        BY <2>2 DEF Put
      <3> QED BY <2>2, <3>1 DEF SourceTypeOK
    <2> QED BY <1>1, <2>1, <2>2
  <1> QED BY <1>1, <1>2, <1>3 DEF SourceTypeOK

\* Removing a message keeps a source stream well formed.
LEMMA TypeDropSource ==
  ASSUME SourceTypeOK, NEW k, src' = Drop(src, k), UNCHANGED <<nextSrc, srcSeen, failures>>
  PROVE  SourceTypeOK'
  <1>1. DOMAIN src' = DOMAIN src \ {k} /\ \A s \in DOMAIN src' : src'[s] = src[s]
    BY DropProperties
  <1> QED BY <1>1 DEF SourceTypeOK

\* A producer's publish appends a well-formed message to a source stream.
LEMMA TypeIngress ==
  ASSUME TypeOK, NEW e \in Events, Ingress(e)
  PROVE  TypeOK'
  <1>1. SourceTypeOK'
    <2>1. [event |-> e, id |-> 0, deliveries |-> 0, state |-> "queued"] \in SourceMsg
      BY DEF SourceMsg
    <2>2. srcSeen' \subseteq DOMAIN failures
      BY DEF Ingress, TypeOK, SourceTypeOK
    <2> QED BY <2>1, <2>2, TypePutSource DEF Ingress, TypeOK, dlqVars
  <1>2. FateTypeOK'
    BY DEF Ingress, TypeOK, FateTypeOK
  <1>3. PolicyTypeOK' /\ DlqTypeOK' /\ IngestTypeOK' /\ RetryTypeOK' /\ BoundTypeOK'
    BY TypeFrame DEF Ingress, dlqVars, boundVars, NoFault
  <1> QED BY <1>1, <1>2, <1>3 DEF TypeOK

\* Redelivery, dropping after maxDeliver and lapsing message ids.
LEMMA TypeBroker == TypeOK /\ Broker => TypeOK'
  <1> SUFFICES ASSUME TypeOK, Broker PROVE TypeOK'
    OBVIOUS
  <1>1. ASSUME NEW s \in DOMAIN src, SourceAckWaitExpires(s) PROVE TypeOK'
    <2>1. SourceTypeOK'
      <3>1. [src[s] EXCEPT !.state = "queued"] \in SourceMsg
        BY DEF TypeOK, SourceTypeOK, SourceMsg
      <3> QED BY <1>1, <3>1 DEF SourceAckWaitExpires, BrokerKeeps, TypeOK, SourceTypeOK
    <2>2. PolicyTypeOK' /\ DlqTypeOK' /\ FateTypeOK' /\ IngestTypeOK' /\ RetryTypeOK'
          /\ BoundTypeOK'
      BY <1>1, TypeFrame
      DEF SourceAckWaitExpires, BrokerKeeps, dlqVars, fateVars, boundVars, NoFault
    <2> QED BY <2>1, <2>2 DEF TypeOK
  <1>2. ASSUME NEW s \in DOMAIN src, MaxDeliveriesReached(s) PROVE TypeOK'
    <2>1. SourceTypeOK'
      BY <1>2, TypeDropSource DEF MaxDeliveriesReached, BrokerKeeps, TypeOK
    <2>2. FateTypeOK'
      BY <1>2 DEF MaxDeliveriesReached, BrokerKeeps, TypeOK, SourceTypeOK, SourceMsg,
                  FateTypeOK
    <2>3. PolicyTypeOK' /\ DlqTypeOK' /\ IngestTypeOK' /\ RetryTypeOK' /\ BoundTypeOK'
      BY <1>2, TypeFrame DEF MaxDeliveriesReached, BrokerKeeps, dlqVars, boundVars, NoFault
    <2> QED BY <2>1, <2>2, <2>3 DEF TypeOK
  <1>3. ASSUME NEW d \in DOMAIN dlq, DlqRedelivers(d) PROVE TypeOK'
    <2>1. DlqTypeOK'
      <3>1. /\ [dlq[d] EXCEPT !.state = "queued"] \in DeadLetterEvent
            /\ [dlq[d] EXCEPT !.state = "queued"].stamp = dlq[d].stamp
        BY DEF TypeOK, DlqTypeOK, DeadLetterEvent
      <3> QED BY <1>3, <3>1 DEF DlqRedelivers, BrokerKeeps, TypeOK, DlqTypeOK
    <2>2. PolicyTypeOK' /\ SourceTypeOK' /\ FateTypeOK' /\ IngestTypeOK' /\ RetryTypeOK'
          /\ BoundTypeOK'
      BY <1>3, TypeFrame DEF DlqRedelivers, BrokerKeeps, sourceVars, fateVars, boundVars, NoFault
    <2> QED BY <2>1, <2>2 DEF TypeOK
  <1>4. ASSUME NEW d \in DOMAIN dlq, BackoffExpires(d) PROVE TypeOK'
    <2>1. DlqTypeOK'
      <3>1. /\ [dlq[d] EXCEPT !.due = TRUE] \in DeadLetterEvent
            /\ [dlq[d] EXCEPT !.due = TRUE].stamp = dlq[d].stamp
        BY DEF TypeOK, DlqTypeOK, DeadLetterEvent
      <3> QED BY <1>4, <3>1 DEF BackoffExpires, BrokerKeeps, TypeOK, DlqTypeOK
    <2>2. PolicyTypeOK' /\ SourceTypeOK' /\ FateTypeOK' /\ IngestTypeOK' /\ RetryTypeOK'
          /\ BoundTypeOK'
      BY <1>4, TypeFrame DEF BackoffExpires, BrokerKeeps, sourceVars, fateVars, boundVars, NoFault
    <2> QED BY <2>1, <2>2 DEF TypeOK
  <1>5. CASE WindowPasses
    <2>1. SourceTypeOK' /\ DlqTypeOK'
      BY <1>5 DEF WindowPasses, TypeOK, SourceTypeOK, DlqTypeOK
    <2>2. PolicyTypeOK' /\ FateTypeOK' /\ IngestTypeOK' /\ RetryTypeOK' /\ BoundTypeOK'
      BY <1>5, TypeFrame DEF WindowPasses
    <2> QED BY <2>1, <2>2 DEF TypeOK
  <1> QED BY <1>1, <1>2, <1>3, <1>4, <1>5 DEF Broker

\* What a worker with a message in hand knows about it.
LEMMA IngestWorkType ==
  ASSUME TypeOK, NEW r \in Replicas, ing[r] # Idle
  PROVE  /\ ing[r] \in IngestWork
         /\ ing[r].todo # <<>> => /\ Head(ing[r].todo) \in CompiledPolicy
                                 /\ Tail(ing[r].todo) \in Seq(CompiledPolicy)
  <1>1. ing[r] \in IngestWork
    BY DEF TypeOK, IngestTypeOK
  <1>2. ing[r].todo \in Seq(CompiledPolicy)
    BY <1>1 DEF IngestWork
  <1> QED BY <1>1, <1>2, HeadTailProperties

\* A replica's ingest worker moves to well-formed work, or to none.
LEMMA TypeIngestUpdate ==
  ASSUME TypeOK, NEW r \in Replicas, NEW w \in IngestWork \cup {Idle},
         ing' = [ing EXCEPT ![r] = w]
  PROVE  IngestTypeOK'
  BY DEF TypeOK, IngestTypeOK

\* A NAK after processMessage failed keeps the source streams well formed.
LEMMA TypeNakSource ==
  ASSUME TypeOK, NEW r \in Replicas, NakSource(r), UNCHANGED <<nextSrc, srcSeen>>
  PROVE  /\ IngestTypeOK'
         /\ UNCHANGED failures => SourceTypeOK'
         /\ DOMAIN failures \subseteq DOMAIN failures' => SourceTypeOK'
  <1>1. IngestTypeOK'
    BY TypeIngestUpdate DEF NakSource
  <1>2. DOMAIN src' = DOMAIN src
    BY DEF NakSource
  <1>3. ASSUME NEW s \in DOMAIN src PROVE src'[s] \in SourceMsg
    <2>1. src[s] \in SourceMsg /\ [src[s] EXCEPT !.state = "queued"] \in SourceMsg
      BY DEF TypeOK, SourceTypeOK, SourceMsg
    <2> QED BY <2>1 DEF NakSource
  <1> QED BY <1>1, <1>2, <1>3 DEF TypeOK, SourceTypeOK

\* Recording a failure extends the list of failures and stores a dead letter.
LEMMA TypeStoreDeadLetter ==
  ASSUME TypeOK, NEW r \in Replicas, ing[r] # Idle, ing[r].todo # <<>>,
         NEW t \in 1..MaxFailures, StoreDeadLetter(r, t), UNCHANGED dlqSeen
  PROVE  /\ DlqTypeOK'
         /\ DOMAIN failures \subseteq DOMAIN failures'
         /\ t \in DOMAIN failures'
  <1> DEFINE w == ing[r]
             policy == Head(w.todo)
             f == [event |-> w.event, policy |-> policy.name]
             m == [event |-> w.event, policy |-> policy.name,
                   version |-> IF w.event \in AuditEvents THEN policy.gen ELSE 0,
                   retry |-> 0, stamp |-> t, due |-> TRUE, state |-> "queued"]
  <1>1. w \in IngestWork /\ policy \in CompiledPolicy
    BY IngestWorkType
  <1>2. f \in Failure
    BY <1>1 DEF IngestWork, CompiledPolicy, Failure
  <1>3. failures \in Seq(Failure) /\ DOMAIN failures = 1..Len(failures) /\ Len(failures) \in Nat
    BY LenProperties DEF TypeOK, DlqTypeOK
  <1>4. t \in {Len(failures) + 1} \cup DOMAIN failures
    BY DEF StoreDeadLetter, TimestampsFor
  <1>5. /\ failures' \in Seq(Failure)
        /\ DOMAIN failures \subseteq DOMAIN failures'
        /\ t \in DOMAIN failures'
    <2>1. CASE t > Len(failures)
      <3>1. failures' = Append(failures, f)
        BY <2>1 DEF StoreDeadLetter
      <3>2. failures' \in Seq(Failure) /\ Len(failures') = Len(failures) + 1
        BY <3>1, <1>2, <1>3, AppendProperties
      <3>3. DOMAIN failures' = 1..(Len(failures) + 1)
        BY <3>2, LenProperties
      <3> QED BY <2>1, <1>3, <1>4, <3>2, <3>3
    <2>2. CASE ~(t > Len(failures))
      BY <2>2, <1>3, <1>4 DEF StoreDeadLetter
    <2> QED BY <2>1, <2>2
  <1>6. m \in DeadLetterEvent
    <2>1. /\ w.event \in Events /\ policy.name \in Policies \cup {NoPolicy}
          /\ (IF w.event \in AuditEvents THEN policy.gen ELSE 0) \in Nat
      BY <1>1 DEF IngestWork, CompiledPolicy
    <2>2. t \in Nat
      BY BoundsAssumption
    <2> QED BY <2>1, <2>2 DEF DeadLetterEvent
  <1>7. dlq' = Put(dlq, nextDlq, m) /\ nextDlq' = nextDlq + 1
    BY DEF StoreDeadLetter
  <1>8. DlqTypeOK'
    <2>1. nextDlq' \in Nat \ {0} /\ DOMAIN dlq' \subseteq 1..(nextDlq' - 1)
      BY <1>7 DEF TypeOK, DlqTypeOK, Put
    <2>2. ASSUME NEW d \in DOMAIN dlq'
          PROVE  dlq'[d] \in DeadLetterEvent /\ dlq'[d].stamp \in DOMAIN failures'
      <3>1. CASE d = nextDlq
        <4>1. dlq'[d] = m
          BY <3>1, <1>7 DEF Put
        <4> QED BY <4>1, <1>5, <1>6
      <3>2. CASE d # nextDlq
        <4>1. d \in DOMAIN dlq /\ dlq'[d] = dlq[d]
          BY <3>2, <1>7 DEF Put
        <4> QED BY <4>1, <1>5 DEF TypeOK, DlqTypeOK
      <3> QED BY <3>1, <3>2
    <2>3. dlqSeen' \subseteq (DOMAIN failures') \X Nat
      BY <1>5 DEF TypeOK, DlqTypeOK
    <2> QED BY <1>5, <2>1, <2>2, <2>3 DEF DlqTypeOK
  <1> QED BY <1>5, <1>8

\* More recorded failures leave the sources and the retries well typed.
LEMMA TypeMoreFailures ==
  ASSUME TypeOK, DOMAIN failures \subseteq DOMAIN failures'
  PROVE  /\ UNCHANGED sourceVars => SourceTypeOK'
         /\ UNCHANGED retryVars => RetryTypeOK'
  BY DEF TypeOK, SourceTypeOK, RetryTypeOK, sourceVars, retryVars

\* Every step of the two processors' worker and processMessage keeps the types.
LEMMA TypeIngest ==
  ASSUME TypeOK, NEW r \in Replicas, Ingest(r)
  PROVE  TypeOK'
  <1>1. ASSUME NEW s \in DOMAIN src, Fetch(r, s) PROVE TypeOK'
    <2> DEFINE e == src[s].event
               m == [src[s] EXCEPT !.state = "hidden",
                                   !.deliveries = IF e \in AuditEvents THEN @ + 1 ELSE @]
               w == [seq |-> s, event |-> e, id |-> src[s].id, todo |-> PoliciesFor(r, e),
                     outcome |-> "none", stamp |-> 0]
    <2>1. src[s] \in SourceMsg /\ s \in Nat
      BY DEF TypeOK, SourceTypeOK
    <2>2. m \in SourceMsg
      <3> DEFINE n == IF e \in AuditEvents THEN src[s].deliveries + 1 ELSE src[s].deliveries
      <3>1. n \in Nat
        BY <2>1 DEF SourceMsg
      <3>2. m = [src[s] EXCEPT !.state = "hidden", !.deliveries = n]
        OBVIOUS
      <3> HIDE DEF n, m
      <3> QED BY <2>1, <3>1, <3>2 DEF SourceMsg
    <2>3. SourceTypeOK'
      <3>1. src' = [src EXCEPT ![s] = m]
        BY <1>1 DEF Fetch
      <3> HIDE DEF m
      <3> QED BY <1>1, <2>2, <3>1 DEF Fetch, dlqVars, TypeOK, SourceTypeOK
    <2>4. PoliciesFor(r, e) \in Seq(CompiledPolicy)
      BY DecodeFailureType DEF PoliciesFor, TypeOK, PolicyTypeOK
    <2>5. w \in IngestWork
      BY <2>1, <2>4 DEF SourceMsg, IngestWork
    <2>6. IngestTypeOK'
      BY <1>1, <2>5, TypeIngestUpdate DEF Fetch
    <2>7. PolicyTypeOK' /\ DlqTypeOK' /\ FateTypeOK' /\ RetryTypeOK' /\ BoundTypeOK'
      BY <1>1, TypeFrame DEF Fetch, dlqVars, boundVars, NoFault
    <2> QED BY <2>3, <2>6, <2>7 DEF TypeOK
  <1>2. CASE EvaluateNoMatch(r)
    <2>1. [ing[r] EXCEPT !.todo = Tail(@)] \in IngestWork
      BY <1>2, IngestWorkType DEF EvaluateNoMatch, Evaluating, IngestWork
    <2>2. IngestTypeOK'
      BY <1>2, <2>1, TypeIngestUpdate DEF EvaluateNoMatch
    <2>3. PolicyTypeOK' /\ SourceTypeOK' /\ DlqTypeOK' /\ FateTypeOK' /\ RetryTypeOK'
          /\ BoundTypeOK'
      BY <1>2, TypeFrame DEF EvaluateNoMatch, dlqVars, boundVars, NoFault
    <2> QED BY <2>2, <2>3 DEF TypeOK
  <1>3. CASE PublishActivity(r)
    <2>1. ing[r] \in IngestWork
      BY <1>3, IngestWorkType DEF PublishActivity, Evaluating
    <2>2. IngestTypeOK'
      <3>1. [ing[r] EXCEPT !.todo = <<>>, !.outcome = "published"] \in IngestWork
        BY <2>1, EmptySeq DEF IngestWork
      <3> QED BY <1>3, <3>1, TypeIngestUpdate, ZenonT(60) DEF PublishActivity
    <2>3. FateTypeOK'
      BY <1>3, <2>1 DEF PublishActivity, StoreActivity, IngestWork, TypeOK, FateTypeOK
    <2>4. PolicyTypeOK' /\ SourceTypeOK' /\ DlqTypeOK' /\ RetryTypeOK' /\ BoundTypeOK'
      BY <1>3, TypeFrame DEF PublishActivity, dlqVars, boundVars, NoFault
    <2> QED BY <2>2, <2>3, <2>4 DEF TypeOK
  <1>4. CASE PublishActivityFails(r)
    <2>1. ing[r] \in IngestWork
      BY <1>4, IngestWorkType DEF PublishActivityFails, Evaluating
    <2>2. FateTypeOK'
      BY <1>4, <2>1 DEF PublishActivityFails, StoreActivity, IngestWork, TypeOK, FateTypeOK
    <2>3. IngestTypeOK' /\ SourceTypeOK'
      BY <1>4, TypeNakSource DEF PublishActivityFails, dlqVars
    <2>4. PolicyTypeOK' /\ DlqTypeOK' /\ RetryTypeOK' /\ BoundTypeOK'
      BY <1>4, TypeFrame DEF PublishActivityFails, dlqVars
    <2> QED BY <2>2, <2>3, <2>4 DEF TypeOK
  <1>5. CASE PublishFailure(r)
    <2>0. ing[r] # Idle /\ ing[r].todo # <<>>
      BY <1>5 DEF PublishFailure, EvaluationFails, Evaluating
    <2>1. PICK t \in 1..MaxFailures :
            /\ StoreDeadLetter(r, t)
            /\ ing' = [ing EXCEPT ![r].todo = IF ing[r].event \in AuditEvents THEN Tail(@) ELSE <<>>,
                                  ![r].outcome = "failed", ![r].stamp = t]
      BY <1>5 DEF PublishFailure
    <2>2. DlqTypeOK' /\ DOMAIN failures \subseteq DOMAIN failures'
      BY <1>5, <2>0, <2>1, TypeStoreDeadLetter DEF PublishFailure
    <2>3. IngestTypeOK'
      <3> DEFINE left == IF ing[r].event \in AuditEvents THEN Tail(ing[r].todo) ELSE <<>>
                 w == [ing[r] EXCEPT !.todo = left, !.outcome = "failed", !.stamp = t]
      <3>1. ing[r] \in IngestWork /\ left \in Seq(CompiledPolicy) /\ t \in Nat
        BY <2>0, IngestWorkType, EmptySeq, BoundsAssumption
      <3>2. ing' = [ing EXCEPT ![r] = w]
        BY <2>1
      <3> HIDE DEF left
      <3>3. w \in IngestWork
        BY <3>1 DEF IngestWork
      <3> QED BY <3>2, <3>3, TypeIngestUpdate
    <2>4. SourceTypeOK' /\ RetryTypeOK'
      BY <1>5, <2>2, TypeMoreFailures DEF PublishFailure
    <2>5. Fault \/ NoFault
      BY <1>5 DEF PublishFailure, EvaluationFails
    <2>6. PolicyTypeOK' /\ FateTypeOK' /\ BoundTypeOK'
      BY <1>5, <2>5, TypeFrame DEF PublishFailure
    <2> QED BY <2>2, <2>3, <2>4, <2>6 DEF TypeOK
  <1>6. CASE PublishFailureFails(r)
    <2>0. ing[r] # Idle /\ ing[r].todo # <<>>
      BY <1>6 DEF PublishFailureFails, Evaluating
    <2>1. DlqTypeOK' /\ DOMAIN failures \subseteq DOMAIN failures'
      <3>1. CASE \E t \in 1..MaxFailures : StoreDeadLetter(r, t)
        BY <1>6, <2>0, <3>1, TypeStoreDeadLetter DEF PublishFailureFails
      <3>2. CASE UNCHANGED <<dlq, nextDlq, failures>>
        BY <1>6, <3>2, TypeFrame DEF PublishFailureFails, dlqVars
      <3> QED BY <1>6, <3>1, <3>2 DEF PublishFailureFails
    <2>2. IngestTypeOK' /\ SourceTypeOK'
      BY <1>6, <2>1, TypeNakSource DEF PublishFailureFails
    <2>3. RetryTypeOK'
      BY <1>6, <2>1, TypeMoreFailures DEF PublishFailureFails
    <2>4. PolicyTypeOK' /\ FateTypeOK' /\ BoundTypeOK'
      BY <1>6, TypeFrame DEF PublishFailureFails
    <2> QED BY <2>1, <2>2, <2>3, <2>4 DEF TypeOK
  <1>7. CASE MarshalFailure(r)
    <2>1. IngestTypeOK' /\ SourceTypeOK'
      BY <1>7, TypeNakSource DEF MarshalFailure, dlqVars
    <2>2. PolicyTypeOK' /\ DlqTypeOK' /\ FateTypeOK' /\ RetryTypeOK' /\ BoundTypeOK'
      BY <1>7, TypeFrame DEF MarshalFailure, dlqVars, boundVars, NoFault
    <2> QED BY <2>1, <2>2 DEF TypeOK
  <1>8. CASE AckSource(r)
    <2>1. ing[r] \in IngestWork
      BY <1>8, IngestWorkType DEF AckSource
    <2>2. IngestTypeOK'
      BY <1>8, TypeIngestUpdate DEF AckSource
    <2>3. FateTypeOK'
      BY <1>8, <2>1 DEF AckSource, IngestWork, TypeOK, FateTypeOK
    <2>4. SourceTypeOK'
      <3>1. CASE src' = Drop(src, ing[r].seq)
        BY <1>8, <3>1, TypeDropSource DEF AckSource, dlqVars, TypeOK
      <3>2. CASE src' = src
        BY <1>8, <3>2, TypeFrame DEF AckSource, sourceVars, dlqVars
      <3> QED BY <1>8, <3>1, <3>2 DEF AckSource
    <2>5. PolicyTypeOK' /\ DlqTypeOK' /\ RetryTypeOK' /\ BoundTypeOK'
      BY <1>8, TypeFrame DEF AckSource, dlqVars
    <2> QED BY <2>2, <2>3, <2>4, <2>5 DEF TypeOK
  <1> QED BY <1>1, <1>2, <1>3, <1>4, <1>5, <1>6, <1>7, <1>8 DEF Ingest

-----------------------------------------------------------------------------

\* What a retry run with a dead letter in hand knows about it.
LEMMA RetryWorkType ==
  ASSUME TypeOK, NEW r \in Replicas, cur[r] # Idle
  PROVE  /\ cur[r] \in RetryWork
         /\ cur[r].entry \in DeadLetterEvent
         /\ cur[r].entry.stamp \in DOMAIN failures
  BY DEF TypeOK, RetryTypeOK, RetryWork

\* A retry run moves to well-formed work that names a recorded failure.
LEMMA TypeRetryUpdate ==
  ASSUME TypeOK, NEW r \in Replicas, NEW w, cur' = [cur EXCEPT ![r] = w],
         w = Idle \/ (w \in RetryWork /\ w.entry.stamp \in DOMAIN failures),
         UNCHANGED <<run, scans, failures>>
  PROVE  RetryTypeOK'
  BY DEF TypeOK, RetryTypeOK

\* Moving on to the next phase of a retry.
LEMMA TypePhase ==
  ASSUME TypeOK, NEW r \in Replicas, cur[r] # Idle, NEW ph \in RetryPhase,
         cur' = [cur EXCEPT ![r].phase = ph], UNCHANGED <<run, scans, failures>>
  PROVE  RetryTypeOK'
  <1> DEFINE w == [cur[r] EXCEPT !.phase = ph]
  <1>1. cur[r] \in RetryWork /\ cur[r].entry.stamp \in DOMAIN failures
    BY RetryWorkType
  <1>2. w \in RetryWork /\ w.entry = cur[r].entry
    BY <1>1 DEF RetryWork
  <1>3. cur' = [cur EXCEPT ![r] = w]
    OBVIOUS
  <1> QED BY <1>1, <1>2, <1>3, TypeRetryUpdate

\* republishEvent keeps the source streams and their duplicate window well
\* formed, stored or dropped.
LEMMA TypeStoreRepublished ==
  ASSUME TypeOK, NEW r \in Replicas, cur[r] # Idle,
         StoreRepublished(cur[r].entry) \/ UNCHANGED sourceVars, UNCHANGED failures
  PROVE  SourceTypeOK'
  <1> DEFINE entry == cur[r].entry
             m == [event |-> entry.event, id |-> entry.stamp, deliveries |-> 0,
                   state |-> "queued"]
  <1>1. CASE UNCHANGED sourceVars
    BY <1>1, TypeFrame
  <1>2. CASE StoreRepublished(entry) /\ entry.stamp \notin srcSeen
    <2>1. m \in SourceMsg /\ entry.stamp \in DOMAIN failures
      BY RetryWorkType DEF DeadLetterEvent, SourceMsg
    <2>2. srcSeen' \subseteq DOMAIN failures
      BY <1>2, <2>1 DEF StoreRepublished, TypeOK, SourceTypeOK
    <2> QED BY <1>2, <2>1, <2>2, TypePutSource DEF StoreRepublished, TypeOK
  <1>3. CASE StoreRepublished(entry) /\ entry.stamp \in srcSeen
    BY <1>3, TypeFrame DEF StoreRepublished
  <1> QED BY <1>1, <1>2, <1>3

\* The updated dead letter is a dead letter of the same failure.
LEMMA TypeRequeuedEntry ==
  ASSUME NEW entry \in DeadLetterEvent
  PROVE  LET m == [entry EXCEPT !.retry = @ + 1, !.due = FALSE, !.state = "queued"]
         IN  /\ m \in DeadLetterEvent
             /\ m.stamp = entry.stamp /\ m.event = entry.event
             /\ m.retry = entry.retry + 1
  <1> DEFINE n == entry.retry + 1
             m == [entry EXCEPT !.retry = n, !.due = FALSE, !.state = "queued"]
  <1>1. n \in Nat
    BY DEF DeadLetterEvent
  <1> HIDE DEF n
  <1>2. m \in DeadLetterEvent /\ m.stamp = entry.stamp /\ m.event = entry.event /\ m.retry = n
    BY <1>1 DEF DeadLetterEvent
  <1> QED BY <1>2 DEF n

\* A metadata update appends a well-formed dead letter of a recorded failure.
LEMMA TypePutDlq ==
  ASSUME DlqTypeOK, NEW m \in DeadLetterEvent, m.stamp \in DOMAIN failures, NEW q,
         DOMAIN q = DOMAIN dlq,
         \A d \in DOMAIN q : q[d] \in DeadLetterEvent /\ q[d].stamp \in DOMAIN failures,
         dlq' = Put(q, nextDlq, m), nextDlq' = nextDlq + 1,
         NEW k \in (DOMAIN failures) \X Nat, dlqSeen' = dlqSeen \cup {k}, UNCHANGED failures
  PROVE  DlqTypeOK'
  <1>1. nextDlq' \in Nat \ {0} /\ DOMAIN dlq' \subseteq 1..(nextDlq' - 1)
    BY DEF DlqTypeOK, Put
  <1>2. ASSUME NEW d \in DOMAIN dlq'
        PROVE  dlq'[d] \in DeadLetterEvent /\ dlq'[d].stamp \in DOMAIN failures
    <2>1. dlq'[d] = m \/ (d \in DOMAIN q /\ dlq'[d] = q[d])
      BY DEF Put
    <2> QED BY <2>1
  <1> QED BY <1>1, <1>2 DEF DlqTypeOK

\* Putting a message back into view changes none of its other fields.
LEMMA TypeRequeue ==
  ASSUME DlqTypeOK, NEW seq, NEW v \in {"queued", "hidden"}, NEW q,
         q = IF seq \in DOMAIN dlq THEN [dlq EXCEPT ![seq].state = v] ELSE dlq
  PROVE  /\ DOMAIN q = DOMAIN dlq
         /\ \A d \in DOMAIN q : /\ q[d] \in DeadLetterEvent
                               /\ q[d].stamp \in DOMAIN failures
                               /\ q[d].stamp = dlq[d].stamp /\ q[d].retry = dlq[d].retry
                               /\ q[d].event = dlq[d].event
  <1>1. DOMAIN q = DOMAIN dlq
    OBVIOUS
  <1>2. ASSUME NEW d \in DOMAIN dlq PROVE q[d] = dlq[d] \/ q[d] = [dlq[d] EXCEPT !.state = v]
    OBVIOUS
  <1>3. ASSUME NEW d \in DOMAIN dlq
        PROVE  LET m == [dlq[d] EXCEPT !.state = v]
               IN  /\ m \in DeadLetterEvent /\ m.stamp = dlq[d].stamp
                   /\ m.retry = dlq[d].retry /\ m.event = dlq[d].event
    BY DEF DlqTypeOK, DeadLetterEvent
  <1> QED BY <1>1, <1>2, <1>3 DEF DlqTypeOK

\* The message id of a metadata update names a recorded failure.
LEMMA UpdateIdType ==
  ASSUME TypeOK, NEW r \in Replicas, cur[r] # Idle
  PROVE  UpdateId(cur[r].entry) \in (DOMAIN failures) \X Nat
  BY RetryWorkType DEF UpdateId, DeadLetterEvent

\* The steps of a retry run keep the policies, the fates and the ingest workers.
LEMMA TypeRetryFrame ==
  ASSUME TypeOK, RetryKeeps, Fault \/ NoFault
  PROVE  /\ PolicyTypeOK' /\ FateTypeOK' /\ IngestTypeOK' /\ BoundTypeOK'
         /\ UNCHANGED sourceVars => SourceTypeOK'
         /\ UNCHANGED <<dlq, nextDlq, dlqSeen>> => DlqTypeOK'
  BY TypeFrame DEF RetryKeeps, dlqVars

\* Fetching a dead letter only hides it.
LEMMA TypeNextMessage ==
  ASSUME TypeOK, NEW r \in Replicas, NEW d \in DOMAIN dlq, NextMessage(r, d),
         UNCHANGED <<nextDlq, dlqSeen, failures>>
  PROVE  DlqTypeOK'
  <1>1. dlq' = IF d \in DOMAIN dlq THEN [dlq EXCEPT ![d].state = "hidden"] ELSE dlq
    BY DEF NextMessage
  <1>2. DOMAIN dlq' = DOMAIN dlq
    BY <1>1
  <1>3. \A x \in DOMAIN dlq' : dlq'[x] \in DeadLetterEvent /\ dlq'[x].stamp \in DOMAIN failures
    BY <1>1, TypeRequeue DEF TypeOK
  <1> QED BY <1>2, <1>3 DEF TypeOK, DlqTypeOK

\* Every step of processRetryBatch and of the runs around it keeps the types.
LEMMA TypeRetry ==
  ASSUME TypeOK, NEW r \in Replicas, Retry(r)
  PROVE  TypeOK'
  <1>1. CASE StartPeriodic(r)
    <2>1. RetryTypeOK'
      BY <1>1 DEF StartPeriodic, RetryKeeps, TypeOK, RetryTypeOK
    <2> QED BY <1>1, <2>1, TypeRetryFrame DEF StartPeriodic, NoFault, TypeOK
  <1>2. CASE StartScan(r)
    <2>1. RetryTypeOK'
      BY <1>2 DEF StartScan, ScanRun, RetryKeeps, TypeOK, RetryTypeOK
    <2> QED BY <1>2, <2>1, TypeRetryFrame DEF StartScan, NoFault, TypeOK
  <1>0. CASE RegisterScan(r)
    <2>1. PICK c \in scans[r] :
            scans' = [scans EXCEPT ![r] =
                        IF \E a \in @ : a.active /\ a.policy = c.policy
                        THEN @ \ {c}
                        ELSE (@ \ {c}) \cup {[c EXCEPT !.active = TRUE]}]
      BY <1>0 DEF RegisterScan
    <2>2. scans \in [Replicas -> SUBSET Scan]
      BY DEF TypeOK, RetryTypeOK
    <2>3. c \in Scan
      BY <2>2
    <2>4. [c EXCEPT !.active = TRUE] \in Scan
      BY <2>3 DEF Scan
    <2>5. scans' \in [Replicas -> SUBSET Scan]
      BY <2>1, <2>2, <2>4
    <2>6. RetryTypeOK'
      BY <1>0, <2>5 DEF RegisterScan, RetryKeeps, TypeOK, RetryTypeOK
    <2> QED BY <1>0, <2>6, TypeRetryFrame DEF RegisterScan, NoFault, TypeOK
  <1>3. CASE EndRun(r)
    <2>1. RetryTypeOK'
      BY <1>3 DEF EndRun, RetryKeeps, TypeOK, RetryTypeOK
    <2> QED BY <1>3, <2>1, TypeRetryFrame DEF EndRun, NoFault, TypeOK
  <1>4. ASSUME NEW d \in DOMAIN dlq, Defer(r, d) PROVE TypeOK'
    <2>1. DlqTypeOK'
      BY <1>4, TypeNextMessage DEF Defer, RetryKeeps
    <2>2. RetryTypeOK'
      BY <1>4, TypeFrame DEF Defer, RetryKeeps
    <2> QED BY <1>4, <2>1, <2>2, TypeRetryFrame DEF Defer, NoFault, TypeOK
  <1>5. ASSUME NEW d \in DOMAIN dlq, Attempt(r, d) PROVE TypeOK'
    <2> DEFINE g == Generation(cache[r], dlq[d].policy)
               n == IF g > dlq[d].version THEN g ELSE dlq[d].version
               entry == [dlq[d] EXCEPT !.version = n]
               w == [seq |-> d, entry |-> entry,
                     phase |-> IF entry.event \in AuditEvents THEN "evaluate" ELSE "republish"]
    <2>1. dlq[d] \in DeadLetterEvent /\ dlq[d].stamp \in DOMAIN failures /\ d \in Nat
      BY DEF TypeOK, DlqTypeOK
    <2>2. n \in Nat
      BY <2>1, GenerationType DEF DeadLetterEvent, TypeOK, PolicyTypeOK
    <2>3. entry \in DeadLetterEvent /\ entry.stamp = dlq[d].stamp
      <3> HIDE DEF n
      <3> QED BY <2>1, <2>2 DEF DeadLetterEvent
    <2>4. w \in RetryWork /\ w.entry.stamp \in DOMAIN failures
      <3> HIDE DEF entry
      <3> QED BY <2>1, <2>3 DEF RetryWork, RetryPhase
    <2>5. cur' = [cur EXCEPT ![r] = w]
      BY <1>5 DEF Attempt
    <2>6. RetryTypeOK'
      <3> HIDE DEF w
      <3> QED BY <1>5, <2>4, <2>5, TypeRetryUpdate DEF Attempt, RetryKeeps
    <2>7. DlqTypeOK'
      BY <1>5, TypeNextMessage DEF Attempt, RetryKeeps
    <2> QED BY <1>5, <2>6, <2>7, TypeRetryFrame DEF Attempt, NoFault, TypeOK
  <1>6. CASE ReEvaluateDeadLetter(r)
    <2>1. RetryTypeOK'
      BY <1>6, TypePhase DEF ReEvaluateDeadLetter, RetryKeeps, RetryPhase
    <2> QED BY <1>6, <2>1, TypeRetryFrame DEF ReEvaluateDeadLetter, NoFault, TypeOK
  <1>7. CASE RepublishEvent(r)
    <2>1. RetryTypeOK'
      BY <1>7, TypePhase DEF RepublishEvent, RetryKeeps, RetryPhase
    <2>2. SourceTypeOK'
      BY <1>7, TypeStoreRepublished DEF RepublishEvent, RetryKeeps
    <2> QED BY <1>7, <2>1, <2>2, TypeRetryFrame DEF RepublishEvent, NoFault, TypeOK
  <1>8. CASE RepublishEventFails(r)
    <2>1. RetryTypeOK'
      BY <1>8, TypePhase DEF RepublishEventFails, RetryKeeps, RetryPhase
    <2>2. SourceTypeOK'
      BY <1>8, TypeStoreRepublished DEF RepublishEventFails, RetryKeeps
    <2> QED BY <1>8, <2>1, <2>2, TypeRetryFrame DEF RepublishEventFails, TypeOK
  <1>9. CASE UpdateAndRepublishMetadata(r)
    <2>1. RetryTypeOK'
      BY <1>9, TypePhase DEF UpdateAndRepublishMetadata, RetryKeeps, RetryPhase
    <2>2. DlqTypeOK'
      <3>1. CASE UpdateId(cur[r].entry) \in dlqSeen
        BY <1>9, <3>1, TypeFrame DEF UpdateAndRepublishMetadata, StoreMetadata, RetryKeeps, dlqVars
      <3>2. CASE UpdateId(cur[r].entry) \notin dlqSeen
        <4> DEFINE m == [cur[r].entry EXCEPT !.retry = @ + 1, !.due = FALSE, !.state = "queued"]
        <4>1. m \in DeadLetterEvent /\ m.stamp \in DOMAIN failures
          BY <1>9, RetryWorkType, TypeRequeuedEntry DEF UpdateAndRepublishMetadata
        <4>2. UpdateId(cur[r].entry) \in (DOMAIN failures) \X Nat
          BY <1>9, UpdateIdType DEF UpdateAndRepublishMetadata
        <4>3. /\ dlq' = Put(dlq, nextDlq, m) /\ nextDlq' = nextDlq + 1
              /\ dlqSeen' = dlqSeen \cup {UpdateId(cur[r].entry)} /\ UNCHANGED failures
          BY <1>9, <3>2 DEF UpdateAndRepublishMetadata, StoreMetadata, RetryKeeps
        <4> HIDE DEF m
        <4>4. \A d \in DOMAIN dlq : dlq[d] \in DeadLetterEvent /\ dlq[d].stamp \in DOMAIN failures
          BY DEF TypeOK, DlqTypeOK
        <4> QED BY <4>1, <4>2, <4>3, <4>4, TypePutDlq DEF TypeOK
      <3> QED BY <3>1, <3>2
    <2> QED BY <1>9, <2>1, <2>2, TypeRetryFrame DEF UpdateAndRepublishMetadata, NoFault, TypeOK
  <1>10. CASE UpdateMetadataFails(r)
    <2> DEFINE seq == cur[r].seq
               q == IF seq \in DOMAIN dlq THEN [dlq EXCEPT ![seq].state = "queued"] ELSE dlq
               m == [cur[r].entry EXCEPT !.retry = @ + 1, !.due = FALSE, !.state = "queued"]
    <2>1. RetryTypeOK'
      BY <1>10, TypeRetryUpdate DEF UpdateMetadataFails, RetryKeeps
    <2>2. /\ DOMAIN q = DOMAIN dlq
          /\ \A d \in DOMAIN q : q[d] \in DeadLetterEvent /\ q[d].stamp \in DOMAIN failures
      BY TypeRequeue, ZenonT(60) DEF TypeOK
    <2>3. m \in DeadLetterEvent /\ m.stamp \in DOMAIN failures
      BY <1>10, RetryWorkType, TypeRequeuedEntry DEF UpdateMetadataFails
    <2>4. UpdateId(cur[r].entry) \in (DOMAIN failures) \X Nat
      BY <1>10, UpdateIdType DEF UpdateMetadataFails
    <2>5. \/ dlq' = q /\ UNCHANGED <<nextDlq, dlqSeen>>
          \/ /\ dlq' = Put(q, nextDlq, m) /\ nextDlq' = nextDlq + 1
             /\ dlqSeen' = dlqSeen \cup {UpdateId(cur[r].entry)}
      BY <1>10 DEF UpdateMetadataFails
    <2>6. UNCHANGED failures
      BY <1>10 DEF UpdateMetadataFails, RetryKeeps
    <2>7. DlqTypeOK'
      <3> HIDE DEF q, m
      <3>1. CASE dlq' = q /\ UNCHANGED <<nextDlq, dlqSeen>>
        BY <3>1, <2>2, <2>6 DEF TypeOK, DlqTypeOK
      <3>2. CASE /\ dlq' = Put(q, nextDlq, m) /\ nextDlq' = nextDlq + 1
                 /\ dlqSeen' = dlqSeen \cup {UpdateId(cur[r].entry)}
        BY <3>2, <2>2, <2>3, <2>4, <2>6, TypePutDlq DEF TypeOK
      <3> QED BY <2>5, <3>1, <3>2
    <2> QED BY <1>10, <2>1, <2>7, TypeRetryFrame DEF UpdateMetadataFails, TypeOK
  <1>11. CASE AckDlq(r)
    <2>1. RetryTypeOK'
      BY <1>11, TypeRetryUpdate DEF AckDlq, RetryKeeps
    <2>2. DlqTypeOK'
      <3>1. DOMAIN dlq' \subseteq DOMAIN dlq /\ \A d \in DOMAIN dlq' : dlq'[d] = dlq[d]
        BY <1>11 DEF AckDlq, Drop
      <3> QED BY <1>11, <3>1 DEF AckDlq, RetryKeeps, TypeOK, DlqTypeOK
    <2>3. Fault \/ NoFault
      BY <1>11 DEF AckDlq
    <2> QED BY <1>11, <2>1, <2>2, <2>3, TypeRetryFrame DEF AckDlq, TypeOK
  <1> QED BY <1>0, <1>1, <1>2, <1>3, <1>4, <1>5, <1>6, <1>7, <1>8, <1>9, <1>10, <1>11 DEF Retry

\* A relisted inbox holds one add notification per existing policy.
LEMMA TypeRestart ==
  ASSUME TypeOK, NEW r \in Replicas, Restart(r)
  PROVE  TypeOK'
  <1>1. Relisted \subseteq Seq(Notification)
    <2> DEFINE P == {p \in Policies : api[p].gen > 0}
               N == [op : {"add"}, name : Policies, wasReady : {FALSE},
                     obj : {api[p] : p \in Policies}]
    <2>1. Cardinality(P) \in Nat
      BY PolicyAssumption, FS_Subset, FS_CardinalityType
    <2>2. N \subseteq Notification
      <3> SUFFICES ASSUME NEW x \in N PROVE x \in Notification
        OBVIOUS
      <3>1. x.name \in Policies /\ x.obj \in PolicyObject /\ x.op = "add"
        BY DEF TypeOK, PolicyTypeOK
      <3>2. x = [op |-> "add", name |-> x.name, wasReady |-> FALSE, obj |-> x.obj]
        OBVIOUS
      <3>3. [op |-> "add", name |-> x.name, wasReady |-> FALSE, obj |-> x.obj] \in Notification
        BY <3>1 DEF Notification
      <3> QED BY <3>2, <3>3
    <2>3. ASSUME NEW q \in Relisted PROVE q \in Seq(Notification)
      <3> DEFINE n == Cardinality(P)
      <3>1. q \in [1..n -> Notification]
        BY <2>2 DEF Relisted
      <3>2. n \in Nat
        BY <2>1
      <3> HIDE DEF n
      <3> QED BY <3>1, <3>2, IsASeq
    <2> QED BY <2>3
  <1>2. PolicyTypeOK'
    BY <1>1, EmptySeq DEF Restart, TypeOK, PolicyTypeOK
  <1>3. IngestTypeOK' /\ RetryTypeOK'
    BY DEF Restart, dlqVars, TypeOK, IngestTypeOK, RetryTypeOK
  <1>4. BoundTypeOK'
    BY DEF Restart, TypeOK, BoundTypeOK
  <1>5. SourceTypeOK' /\ DlqTypeOK' /\ FateTypeOK'
    BY TypeFrame DEF Restart, dlqVars
  <1> QED BY <1>2, <1>3, <1>4, <1>5 DEF TypeOK

\* Every step of the system keeps the types.
LEMMA TypeStep == TypeOK /\ [Next]_vars => TypeOK'
  <1> SUFFICES ASSUME TypeOK, [Next]_vars PROVE TypeOK'
    OBVIOUS
  <1>1. CASE UNCHANGED vars
    BY <1>1, TypeFrame DEF vars, dlqVars, boundVars, NoFault, TypeOK
  <1>2. CASE Next
    BY <1>2, TypeIngress, TypePolicyWrite, TypeBroker, TypePolicyHandler, TypeIngest,
       TypeRetry, TypeRestart DEF Next
  <1> QED BY <1>1, <1>2

\* Every message, dead letter and piece of work stays well formed, and every
\* failure that is named anywhere has been recorded, in every execution.
THEOREM TypeCorrect == Spec => []TypeOK
  <1>1. Init => TypeOK
    BY TypeInit
  <1>2. TypeOK /\ [Next]_vars => TypeOK'
    BY TypeStep
  <1> QED BY <1>1, <1>2, PTL DEF Spec

-----------------------------------------------------------------------------
(* Coverage, as a relation between the streams before and after a step.    *)

MsgType(S) == \A s \in DOMAIN S : S[s].id \in Nat
EntryType(D) == \A d \in DOMAIN D : D[d].stamp \in Nat /\ D[d].retry \in Nat

\* Coverage survives a step that settles the event of every source message
\* it removes and removes no dead letter.
LEMMA KeptUnlessSettled ==
  ASSUME NEW done, NEW done2, NEW S, NEW S2, NEW D, NEW D2, done \subseteq done2,
         \A s \in DOMAIN S :
            \/ s \in DOMAIN S2 /\ S2[s].event = S[s].event /\ S2[s].id = S[s].id
            \/ S[s].event \in done2,
         \A d \in DOMAIN D :
            /\ d \in DOMAIN D2 /\ D2[d].event = D[d].event
            /\ D2[d].stamp = D[d].stamp /\ D2[d].retry = D[d].retry,
         NEW e, NEW t, NEW n
  PROVE  /\ Later(done, S, D, e, t) => Later(done2, S2, D2, e, t)
         /\ Covered(done, S, D, e, t, n) => Covered(done2, S2, D2, e, t, n)
  <1>1. Later(done, S, D, e, t) => Later(done2, S2, D2, e, t)
    BY DEF Later
  <1>2. (\E d \in DOMAIN D : D[d].event = e /\ D[d].stamp = t /\ D[d].retry >= n)
        => (\E d \in DOMAIN D2 : D2[d].event = e /\ D2[d].stamp = t /\ D2[d].retry >= n)
    OBVIOUS
  <1> QED BY <1>1, <1>2 DEF Covered

\* Coverage survives the ack of source message k when its event has a dead
\* letter, or a copy, of a failure f later than the one the message is a copy of.
LEMMA KeptAfterFailure ==
  ASSUME NEW done, NEW S, NEW D, MsgType(S), EntryType(D),
         NEW k, NEW f \in Nat,
         k \in DOMAIN S => S[k].id < f /\ Covered(done, S, D, S[k].event, f, 0),
         NEW e, NEW t \in Nat, NEW n \in Nat
  PROVE  /\ Later(done, S, D, e, t) => Later(done, Drop(S, k), D, e, t)
         /\ Covered(done, S, D, e, t, n) => Covered(done, Drop(S, k), D, e, t, n)
  <1> DEFINE S2 == Drop(S, k)
  <1>1. DOMAIN S2 = DOMAIN S \ {k} /\ \A s \in DOMAIN S2 : S2[s] = S[s]
    BY DEF Drop
  <1> HIDE DEF S2
  <1>2. ASSUME k \in DOMAIN S, S[k].event = e, S[k].id >= t PROVE Later(done, S2, D, e, t)
    <2>1. Covered(done, S, D, e, f, 0) /\ f > t /\ S[k].id < f
      BY <1>2 DEF MsgType
    <2>2. CASE e \in done
      BY <2>2 DEF Later
    <2>3. CASE \E s \in DOMAIN S : S[s].event = e /\ S[s].id >= f
      <3>1. PICK s \in DOMAIN S : S[s].event = e /\ S[s].id >= f
        BY <2>3
      <3>2. s # k /\ S[s].id >= t
        BY <2>1, <3>1, <1>2 DEF MsgType
      <3> QED BY <1>1, <3>1, <3>2 DEF Later
    <2>4. CASE \E d \in DOMAIN D : D[d].event = e /\ D[d].stamp >= f
      BY <2>1, <2>4 DEF Later, EntryType
    <2>5. e \in done \/ (\E s \in DOMAIN S : S[s].event = e /\ S[s].id >= f)
          \/ (\E d \in DOMAIN D : D[d].event = e /\ D[d].stamp >= f)
      BY <2>1 DEF Covered, Later, EntryType
    <2> QED BY <2>2, <2>3, <2>4, <2>5
  <1>3. Later(done, S, D, e, t) => Later(done, S2, D, e, t)
    BY <1>1, <1>2 DEF Later
  <1> QED BY <1>3 DEF Covered, S2

\* Coverage survives the ack of dead letter k when its event is covered by a
\* copy of the failure, by a later failure, or by k with a higher RetryCount.
LEMMA KeptAfterRetry ==
  ASSUME NEW done, NEW S, NEW D, MsgType(S), EntryType(D), NEW k,
         k \in DOMAIN D => Covered(done, S, D, D[k].event, D[k].stamp, D[k].retry + 1),
         NEW e, NEW t \in Nat, NEW n \in Nat
  PROVE  /\ Later(done, S, D, e, t) => Later(done, S, Drop(D, k), e, t)
         /\ Covered(done, S, D, e, t, n) => Covered(done, S, Drop(D, k), e, t, n)
  <1> DEFINE D2 == Drop(D, k)
  <1>1. DOMAIN D2 = DOMAIN D \ {k} /\ \A d \in DOMAIN D2 : D2[d] = D[d]
    BY DEF Drop
  <1> HIDE DEF D2
  <1>2. ASSUME k \in DOMAIN D, D[k].event = e, D[k].stamp >= t
        PROVE  \/ e \in done
               \/ \E s \in DOMAIN S : S[s].event = e /\ S[s].id >= t
               \/ \E d \in DOMAIN D2 : D2[d].event = e /\ D2[d].stamp > D[k].stamp
               \/ \E d \in DOMAIN D2 : /\ D2[d].event = e /\ D2[d].stamp = D[k].stamp
                                       /\ D2[d].retry >= D[k].retry + 1
    <2>1. Covered(done, S, D, e, D[k].stamp, D[k].retry + 1)
      BY <1>2
    <2>2. ASSUME NEW s \in DOMAIN S, S[s].id >= D[k].stamp PROVE S[s].id >= t
      BY <2>2, <1>2 DEF MsgType, EntryType
    <2>3. ASSUME NEW d \in DOMAIN D, \/ D[d].stamp > D[k].stamp
                                     \/ D[d].retry >= D[k].retry + 1
          PROVE  d \in DOMAIN D2 /\ D2[d] = D[d]
      <3>1. d # k
        BY <2>3, <1>2 DEF EntryType
      <3> QED BY <3>1, <1>1
    <2> QED BY <2>1, <2>2, <2>3 DEF Covered, Later
  <1>3. Later(done, S, D, e, t) => Later(done, S, D2, e, t)
    <2> SUFFICES ASSUME NEW d \in DOMAIN D, D[d].event = e, D[d].stamp > t
                 PROVE  Later(done, S, D2, e, t)
      BY DEF Later
    <2>1. CASE d # k
      BY <2>1, <1>1 DEF Later
    <2>2. CASE d = k
      BY <2>2, <1>1, <1>2 DEF Later, EntryType
    <2> QED BY <2>1, <2>2
  <1>4. ASSUME NEW d \in DOMAIN D, D[d].event = e, D[d].stamp = t, D[d].retry >= n
        PROVE  Covered(done, S, D2, e, t, n)
    <2>1. CASE d # k
      BY <1>4, <2>1, <1>1 DEF Covered
    <2>2. CASE d = k
      BY <1>4, <2>2, <1>1, <1>2 DEF Covered, Later, EntryType
    <2> QED BY <2>1, <2>2
  <1> QED BY <1>3, <1>4 DEF Covered, D2

-----------------------------------------------------------------------------
(* What every step does to the streams, and why that carries LedgerInv.    *)

\* Messages keep their contents and their place; new ones get new sequence
\* numbers, stem from events that arrived, and new ids in the duplicate
\* windows are covered.
Steady ==
  /\ arrived \subseteq arrived' /\ activities \subseteq activities'
  /\ nextSrc' >= nextSrc /\ nextDlq' >= nextDlq
  /\ Len(failures') >= Len(failures)
  /\ \A t \in DOMAIN failures : failures'[t] = failures[t]
  /\ \A s \in DOMAIN src' :
       \/ s \in DOMAIN src /\ src'[s].event = src[s].event /\ src'[s].id = src[s].id
       \/ s >= nextSrc /\ src'[s].id \in 0..Len(failures') /\ src'[s].event \in arrived'
  /\ \A d \in DOMAIN dlq' :
       \/ /\ d \in DOMAIN dlq /\ dlq'[d].event = dlq[d].event
          /\ dlq'[d].stamp = dlq[d].stamp /\ dlq'[d].retry = dlq[d].retry
       \/ /\ d >= nextDlq /\ dlq'[d].event \in arrived'
          /\ failures'[dlq'[d].stamp].event = dlq'[d].event
  /\ \A e \in arrived' \ arrived : \E s \in DOMAIN src' : src'[s].event = e
  /\ \A k \in dlqSeen' \ dlqSeen :
       Covered(SettledEvents', src', dlq', failures'[k[1]].event, k[1], k[2])
  /\ \A t \in srcSeen' \ srcSeen :
       Later(SettledEvents', src', dlq', failures'[t].event, t)
  /\ \A e \in Events, t \in Nat, n \in Nat :
       /\ Later(SettledEvents, src, dlq, e, t) => Later(SettledEvents', src', dlq', e, t)
       /\ Covered(SettledEvents, src, dlq, e, t, n)
            => Covered(SettledEvents', src', dlq', e, t, n)

\* A step is steady and every worker it moves on is right about its message.
Carried ==
  /\ Steady
  /\ \A r \in Replicas : ing'[r] = ing[r] \/ IngestClaim(r)'
  /\ \A r \in Replicas : cur'[r] = cur[r] \/ RetryClaim(r)'

\* The fields of messages and dead letters that coverage looks at are typed.
LEMMA StreamTypes ==
  ASSUME TypeOK
  PROVE  MsgType(src) /\ EntryType(dlq)
  BY DEF TypeOK, SourceTypeOK, DlqTypeOK, SourceMsg, DeadLetterEvent, MsgType, EntryType

\* The recorded failures are numbered from 1 and name events.
LEMMA FailuresType ==
  ASSUME TypeOK
  PROVE  /\ failures \in Seq(Failure) /\ Len(failures) \in Nat
         /\ DOMAIN failures = 1..Len(failures)
         /\ \A t \in DOMAIN failures : failures[t].event \in Events /\ t \in Nat
  <1>1. failures \in Seq(Failure) /\ Len(failures) \in Nat /\ DOMAIN failures = 1..Len(failures)
    BY LenProperties DEF TypeOK, DlqTypeOK
  <1>2. \A t \in 1..Len(failures) : failures[t] \in Failure
    BY <1>1, ElementOfSeq
  <1> QED BY <1>1, <1>2 DEF Failure

\* Being on some stream is being covered from the start.
LEMMA OnAStreamIsCovered ==
  ASSUME TypeOK, NEW e
  PROVE  (e \in SettledEvents \/ OnAStream(e)) <=> Covered(SettledEvents, src, dlq, e, 0, 0)
  <1>1. \A s \in DOMAIN src : src[s].id >= 0
    BY StreamTypes DEF MsgType
  <1>2. \A d \in DOMAIN dlq : dlq[d].stamp > 0 \/ (dlq[d].stamp = 0 /\ dlq[d].retry >= 0)
    BY StreamTypes DEF EntryType
  <1> QED BY <1>1, <1>2 DEF OnAStream, Covered, Later

\* A step that carries the claims along preserves LedgerInv: what covered an
\* event before covers it after, and every new claim is covered.
LEMMA CarriedStep ==
  ASSUME TypeOK, TypeOK', LedgerInv, Carried
  PROVE  LedgerInv'
  <1>0. /\ nextSrc \in Nat /\ nextDlq \in Nat /\ nextSrc' \in Nat /\ nextDlq' \in Nat
        /\ DOMAIN src \subseteq Nat /\ DOMAIN dlq \subseteq Nat
        /\ DOMAIN src' \subseteq Nat /\ DOMAIN dlq' \subseteq Nat
    BY DEF TypeOK, SourceTypeOK, DlqTypeOK
  <1>1. /\ Len(failures) \in Nat /\ Len(failures') \in Nat
        /\ DOMAIN failures = 1..Len(failures) /\ DOMAIN failures' = 1..Len(failures')
        /\ DOMAIN failures \subseteq DOMAIN failures'
    <2>1. Len(failures) \in Nat /\ DOMAIN failures = 1..Len(failures)
      BY FailuresType
    <2>2. Len(failures') \in Nat /\ DOMAIN failures' = 1..Len(failures')
      BY LenProperties DEF TypeOK, DlqTypeOK
    <2> QED BY <2>1, <2>2 DEF Carried, Steady
  <1>2. NoEventLost'
    <2> SUFFICES ASSUME NEW e \in arrived' PROVE e \in SettledEvents' \/ OnAStream(e)'
      BY DEF NoEventLost
    <2>1. CASE e \in arrived
      <3>1. e \in Events
        BY <2>1 DEF TypeOK, FateTypeOK
      <3>2. Covered(SettledEvents, src, dlq, e, 0, 0)
        BY <2>1, OnAStreamIsCovered DEF LedgerInv, NoEventLost
      <3>3. Covered(SettledEvents', src', dlq', e, 0, 0)
        BY <3>1, <3>2 DEF Carried, Steady
      <3> QED BY <3>3 DEF Covered, Later, OnAStream
    <2>2. CASE e \notin arrived
      BY <2>2 DEF Carried, Steady, OnAStream
    <2> QED BY <2>1, <2>2
  <1>3. StreamInv'
    <2>1. ASSUME NEW s \in DOMAIN src'
          PROVE  src'[s].id \in 0..Len(failures') /\ src'[s].event \in arrived'
      BY <1>1 DEF LedgerInv, StreamInv, Carried, Steady
    <2>2. ASSUME NEW d \in DOMAIN dlq'
          PROVE  failures'[dlq'[d].stamp].event = dlq'[d].event /\ dlq'[d].event \in arrived'
      BY DEF LedgerInv, StreamInv, Carried, Steady, TypeOK, DlqTypeOK
    <2> QED BY <2>1, <2>2 DEF StreamInv
  <1>4. IngestInv'
    <2> SUFFICES ASSUME NEW r \in Replicas, ing'[r] = ing[r], ing[r] # Idle
                 PROVE  IngestClaim(r)'
      BY DEF IngestInv, Carried, IngestClaim
    <2>1. IngestClaim(r)
      BY DEF LedgerInv, IngestInv
    <2>2. ing[r] \in IngestWork
      BY IngestWorkType
    <2>3. /\ ing[r].event \in arrived'
          /\ ing[r].seq \in 1..(nextSrc' - 1)
          /\ ing[r].id \in 0..Len(failures')
      BY <2>1, <1>0, <1>1 DEF IngestClaim, Carried, Steady
    <2>4. ing[r].seq \in DOMAIN src' => /\ src'[ing[r].seq].event = ing[r].event
                                        /\ src'[ing[r].seq].id = ing[r].id
      BY <2>1, <1>0 DEF IngestClaim, Carried, Steady
    <2>5. ing[r].outcome = "published" => ing[r].event \in activities'
      BY <2>1 DEF IngestClaim, Carried, Steady
    <2>6. ing[r].outcome = "failed" =>
            /\ ing[r].stamp \in DOMAIN failures' /\ ing[r].stamp > ing[r].id
            /\ Covered(SettledEvents', src', dlq', ing[r].event, ing[r].stamp, 0)
      BY <2>1, <2>2, <1>1 DEF IngestClaim, IngestWork, Carried, Steady
    <2> QED BY <2>3, <2>4, <2>5, <2>6 DEF IngestClaim
  <1>5. RetryInv'
    <2> SUFFICES ASSUME NEW r \in Replicas, cur'[r] = cur[r], cur[r] # Idle
                 PROVE  RetryClaim(r)'
      BY DEF RetryInv, Carried, RetryClaim
    <2> DEFINE entry == cur[r].entry
    <2>1. RetryClaim(r)
      BY DEF LedgerInv, RetryInv
    <2>2. entry \in DeadLetterEvent /\ entry.stamp \in DOMAIN failures
      BY RetryWorkType
    <2>3. entry.event \in Events /\ entry.stamp \in Nat /\ entry.retry + 1 \in Nat
      BY <2>2 DEF DeadLetterEvent
    <2>4. entry.event \in arrived' /\ cur[r].seq \in 1..(nextDlq' - 1)
      BY <2>1, <1>0 DEF RetryClaim, Carried, Steady
    <2>5. failures'[entry.stamp].event = entry.event
      BY <2>1, <2>2 DEF RetryClaim, Carried, Steady
    <2>6. cur[r].seq \in DOMAIN dlq' => /\ dlq'[cur[r].seq].event = entry.event
                                        /\ dlq'[cur[r].seq].stamp = entry.stamp
                                        /\ dlq'[cur[r].seq].retry = entry.retry
      BY <2>1, <1>0 DEF RetryClaim, Carried, Steady
    <2>7. /\ cur[r].phase = "ackRequeued" =>
               Covered(SettledEvents', src', dlq', entry.event, entry.stamp, entry.retry + 1)
          /\ cur[r].phase = "ackRepublished" =>
               Later(SettledEvents', src', dlq', entry.event, entry.stamp)
      BY <2>1, <2>3 DEF RetryClaim, Carried, Steady
    <2> QED BY <2>4, <2>5, <2>6, <2>7 DEF RetryClaim
  <1>6. WindowInv'
    <2>1. ASSUME NEW k \in dlqSeen'
          PROVE  Covered(SettledEvents', src', dlq', failures'[k[1]].event, k[1], k[2])
      <3>1. CASE k \in dlqSeen
        <4>1. k[1] \in DOMAIN failures /\ k[2] \in Nat
          BY <3>1 DEF TypeOK, DlqTypeOK
        <4>2. failures[k[1]].event \in Events /\ k[1] \in Nat /\ failures'[k[1]] = failures[k[1]]
          BY <4>1, FailuresType DEF Carried, Steady
        <4>3. Covered(SettledEvents, src, dlq, failures[k[1]].event, k[1], k[2])
          BY <3>1 DEF LedgerInv, WindowInv
        <4> QED BY <4>1, <4>2, <4>3 DEF Carried, Steady
      <3> QED BY <3>1 DEF Carried, Steady
    <2>2. ASSUME NEW t \in srcSeen'
          PROVE  Later(SettledEvents', src', dlq', failures'[t].event, t)
      <3>1. CASE t \in srcSeen
        <4>1. t \in DOMAIN failures
          BY <3>1 DEF TypeOK, SourceTypeOK
        <4>2. failures[t].event \in Events /\ t \in Nat /\ failures'[t] = failures[t]
          BY <4>1, FailuresType DEF Carried, Steady
        <4>3. Later(SettledEvents, src, dlq, failures[t].event, t)
          BY <3>1 DEF LedgerInv, WindowInv
        <4> QED BY <4>2, <4>3 DEF Carried, Steady
      <3> QED BY <3>1 DEF Carried, Steady
    <2> QED BY <2>1, <2>2 DEF WindowInv
  <1> QED BY <1>2, <1>3, <1>4, <1>5, <1>6 DEF LedgerInv

-----------------------------------------------------------------------------
(* Steps that remove nothing.                                              *)

\* A step that keeps every message and dead letter is steady if what it adds is.
LEMMA GrowingIsSteady ==
  ASSUME TypeOK,
         arrived \subseteq arrived', activities \subseteq activities',
         SettledEvents \subseteq SettledEvents',
         nextSrc' >= nextSrc, nextDlq' >= nextDlq, Len(failures') >= Len(failures),
         \A t \in DOMAIN failures : failures'[t] = failures[t],
         \A s \in DOMAIN src :
           s \in DOMAIN src' /\ src'[s].event = src[s].event /\ src'[s].id = src[s].id,
         \A s \in DOMAIN src' \ DOMAIN src :
           s >= nextSrc /\ src'[s].id \in 0..Len(failures') /\ src'[s].event \in arrived',
         \A d \in DOMAIN dlq :
           /\ d \in DOMAIN dlq' /\ dlq'[d].event = dlq[d].event
           /\ dlq'[d].stamp = dlq[d].stamp /\ dlq'[d].retry = dlq[d].retry,
         \A d \in DOMAIN dlq' \ DOMAIN dlq :
           /\ d >= nextDlq /\ dlq'[d].event \in arrived'
           /\ failures'[dlq'[d].stamp].event = dlq'[d].event,
         \A e \in arrived' \ arrived : \E s \in DOMAIN src' : src'[s].event = e,
         \A k \in dlqSeen' \ dlqSeen :
           Covered(SettledEvents', src', dlq', failures'[k[1]].event, k[1], k[2]),
         \A t \in srcSeen' \ srcSeen :
           Later(SettledEvents', src', dlq', failures'[t].event, t)
  PROVE  Steady
  <1>1. ASSUME NEW e \in Events, NEW t \in Nat, NEW n \in Nat
        PROVE  /\ Later(SettledEvents, src, dlq, e, t) => Later(SettledEvents', src', dlq', e, t)
               /\ Covered(SettledEvents, src, dlq, e, t, n)
                    => Covered(SettledEvents', src', dlq', e, t, n)
    BY KeptUnlessSettled
  <1> QED BY <1>1 DEF Steady

\* The messages on both streams are the same but for delivery state and backoff.
SameTokens ==
  /\ DOMAIN src' = DOMAIN src /\ DOMAIN dlq' = DOMAIN dlq
  /\ \A s \in DOMAIN src : src'[s].event = src[s].event /\ src'[s].id = src[s].id
  /\ \A d \in DOMAIN dlq : /\ dlq'[d].event = dlq[d].event
                           /\ dlq'[d].stamp = dlq[d].stamp /\ dlq'[d].retry = dlq[d].retry

\* A step that stores and removes no message is steady.
LEMMA QuietIsSteady ==
  ASSUME TypeOK, UNCHANGED <<nextSrc, nextDlq, failures, arrived>>,
         activities \subseteq activities', SettledEvents \subseteq SettledEvents',
         srcSeen' \subseteq srcSeen, dlqSeen' \subseteq dlqSeen, SameTokens
  PROVE  Steady
  <1>1. nextSrc' >= nextSrc /\ nextDlq' >= nextDlq
    BY DEF TypeOK, SourceTypeOK, DlqTypeOK
  <1>2. Len(failures') >= Len(failures)
    BY FailuresType
  <1> QED BY <1>1, <1>2, GrowingIsSteady DEF SameTokens

\* The settled events change only with the fates.
LEMMA SettledUnchanged == UNCHANGED fateVars => SettledEvents' = SettledEvents
  BY DEF fateVars, SettledEvents

\* Policy writes, handlers and the start and end of runs touch no stream.
LEMMA CarriedPolicies ==
  ASSUME TypeOK, LedgerInv,
         UNCHANGED <<sourceVars, dlqVars, fateVars, ing, cur>>
  PROVE  Carried
  <1>1. SettledEvents' = SettledEvents
    BY SettledUnchanged
  <1>2. Steady
    BY <1>1, QuietIsSteady DEF sourceVars, dlqVars, fateVars, SameTokens
  <1> QED BY <1>2 DEF Carried

\* A new event is on its source stream when it arrives.
LEMMA CarriedIngress ==
  ASSUME TypeOK, LedgerInv, NEW e \in Events, Ingress(e)
  PROVE  Carried
  <1> DEFINE m == [event |-> e, id |-> 0, deliveries |-> 0, state |-> "queued"]
  <1>1. SettledEvents' = SettledEvents
    BY DEF Ingress, SettledEvents
  <1>2. nextSrc \in Nat /\ nextSrc \notin DOMAIN src /\ nextDlq \in Nat
    BY DEF TypeOK, SourceTypeOK, DlqTypeOK
  <1>3. /\ DOMAIN src' = DOMAIN src \cup {nextSrc} /\ src'[nextSrc] = m
        /\ \A s \in DOMAIN src : src'[s] = src[s]
    BY <1>2 DEF Ingress, Put
  <1>4. failures' = failures /\ Len(failures) \in Nat
    BY FailuresType DEF Ingress, dlqVars
  <1>5. Steady
    BY <1>1, <1>2, <1>3, <1>4, GrowingIsSteady DEF Ingress, dlqVars
  <1> QED BY <1>5 DEF Carried, Ingress, retryVars

\* Redeliveries and lapsed ids keep every message; a message the audit
\* consumer gives up on settles its event.
LEMMA CarriedBroker ==
  ASSUME TypeOK, LedgerInv, Broker
  PROVE  Carried
  <1>1. UNCHANGED <<ing, cur>>
    BY DEF Broker, SourceAckWaitExpires, MaxDeliveriesReached, DlqRedelivers,
           BackoffExpires, WindowPasses, BrokerKeeps, retryVars
  <1>2. ASSUME NEW s \in DOMAIN src, SourceAckWaitExpires(s) PROVE Steady
    <2>1. SameTokens
      <3>1. \A x \in DOMAIN src : src[x] \in SourceMsg
        BY DEF TypeOK, SourceTypeOK
      <3> QED BY <1>2, <3>1 DEF SourceAckWaitExpires, SameTokens, SourceMsg
    <2>2. SettledEvents' = SettledEvents
      BY <1>2 DEF SourceAckWaitExpires, BrokerKeeps, SettledEvents
    <2> QED BY <1>2, <2>1, <2>2, QuietIsSteady DEF SourceAckWaitExpires, BrokerKeeps
  <1>3. ASSUME NEW d \in DOMAIN dlq, DlqRedelivers(d) PROVE Steady
    <2>1. SameTokens
      <3>1. \A x \in DOMAIN dlq : dlq[x] \in DeadLetterEvent
        BY DEF TypeOK, DlqTypeOK
      <3> QED BY <1>3, <3>1 DEF DlqRedelivers, SameTokens, DeadLetterEvent
    <2>2. SettledEvents' = SettledEvents
      BY <1>3 DEF DlqRedelivers, BrokerKeeps, SettledEvents
    <2> QED BY <1>3, <2>1, <2>2, QuietIsSteady DEF DlqRedelivers, BrokerKeeps
  <1>4. ASSUME NEW d \in DOMAIN dlq, BackoffExpires(d) PROVE Steady
    <2>1. SameTokens
      <3>1. \A x \in DOMAIN dlq : dlq[x] \in DeadLetterEvent
        BY DEF TypeOK, DlqTypeOK
      <3> QED BY <1>4, <3>1 DEF BackoffExpires, SameTokens, DeadLetterEvent
    <2>2. SettledEvents' = SettledEvents
      BY <1>4 DEF BackoffExpires, BrokerKeeps, SettledEvents
    <2> QED BY <1>4, <2>1, <2>2, QuietIsSteady DEF BackoffExpires, BrokerKeeps
  <1>5. CASE WindowPasses
    <2>1. SettledEvents \subseteq SettledEvents'
      BY <1>5, SettledUnchanged DEF WindowPasses
    <2>2. SameTokens
      BY <1>5 DEF WindowPasses, SameTokens
    <2>3. srcSeen' \subseteq srcSeen /\ dlqSeen' \subseteq dlqSeen
      BY <1>5 DEF WindowPasses
    <2>4. UNCHANGED <<nextSrc, nextDlq, failures, arrived>> /\ activities \subseteq activities'
      BY <1>5 DEF WindowPasses, fateVars
    <2>5. Steady
      BY <2>1, <2>2, <2>3, <2>4, QuietIsSteady
    <2> QED BY <1>1, <2>5 DEF Carried
  <1>6. ASSUME NEW s \in DOMAIN src, MaxDeliveriesReached(s) PROVE Steady
    <2>1. /\ DOMAIN src' = DOMAIN src \ {s} /\ \A x \in DOMAIN src' : src'[x] = src[x]
          /\ SettledEvents' = SettledEvents \cup {src[s].event}
      BY <1>6 DEF MaxDeliveriesReached, BrokerKeeps, Drop, SettledEvents
    <2>2. UNCHANGED <<dlq, dlqSeen, srcSeen, nextSrc, nextDlq, failures, arrived, activities>>
      BY <1>6 DEF MaxDeliveriesReached, BrokerKeeps
    <2>3. ASSUME NEW e \in Events, NEW t \in Nat, NEW n \in Nat
          PROVE  /\ Later(SettledEvents, src, dlq, e, t) => Later(SettledEvents', src', dlq', e, t)
                 /\ Covered(SettledEvents, src, dlq, e, t, n)
                      => Covered(SettledEvents', src', dlq', e, t, n)
      BY <2>1, <2>2, KeptUnlessSettled
    <2>4. nextSrc' >= nextSrc /\ nextDlq' >= nextDlq /\ Len(failures') >= Len(failures)
      BY <2>2, FailuresType DEF TypeOK, SourceTypeOK, DlqTypeOK
    <2> QED BY <2>1, <2>2, <2>3, <2>4 DEF Steady
  <1> QED BY <1>1, <1>2, <1>3, <1>4, <1>5, <1>6 DEF Carried, Broker

-----------------------------------------------------------------------------
(* Ingest.                                                                 *)

\* A fetch hides a message and records what the worker holds.
LEMMA CarriedFetch ==
  ASSUME TypeOK, LedgerInv, NEW r \in Replicas, NEW s \in DOMAIN src, Fetch(r, s)
  PROVE  Carried
  <1>1. \A x \in DOMAIN src : src[x] \in SourceMsg
    BY DEF TypeOK, SourceTypeOK
  <1>2. SameTokens
    BY <1>1 DEF Fetch, SameTokens, dlqVars, SourceMsg
  <1>3. SettledEvents' = SettledEvents
    BY SettledUnchanged DEF Fetch
  <1>4. Steady
    BY <1>2, <1>3, QuietIsSteady DEF Fetch, dlqVars, fateVars
  <1>5. IngestClaim(r)'
    <2>1. /\ ing'[r].seq = s /\ ing'[r].event = src[s].event /\ ing'[r].id = src[s].id
          /\ ing'[r].outcome = "none"
      BY DEF Fetch, TypeOK, IngestTypeOK
    <2>2. src[s].event \in arrived /\ src[s].id \in 0..Len(failures) /\ s \in 1..(nextSrc - 1)
      BY DEF LedgerInv, StreamInv, TypeOK, SourceTypeOK
    <2>3. UNCHANGED <<arrived, nextSrc, failures>>
      BY DEF Fetch, fateVars, dlqVars
    <2> QED BY <1>2, <2>1, <2>2, <2>3 DEF IngestClaim, SameTokens
  <1>6. \A r2 \in Replicas : ing'[r2] = ing[r2] \/ IngestClaim(r2)'
    BY <1>5 DEF Fetch, TypeOK, IngestTypeOK
  <1> QED BY <1>4, <1>6 DEF Carried, Fetch, retryVars

\* A NAK leaves every message where it is and the worker idle.
LEMMA NakIsQuiet ==
  ASSUME TypeOK, NEW r \in Replicas, NakSource(r)
  PROVE  /\ DOMAIN src' = DOMAIN src
         /\ \A s \in DOMAIN src : src'[s].event = src[s].event /\ src'[s].id = src[s].id
         /\ \A r2 \in Replicas : ing'[r2] = ing[r2] \/ IngestClaim(r2)'
  <1>1. \A x \in DOMAIN src : src[x] \in SourceMsg
    BY DEF TypeOK, SourceTypeOK
  <1>2. /\ DOMAIN src' = DOMAIN src
        /\ \A s \in DOMAIN src : src'[s].event = src[s].event /\ src'[s].id = src[s].id
    BY <1>1 DEF NakSource, SourceMsg
  <1>3. \A r2 \in Replicas : ing'[r2] = ing[r2] \/ ing'[r2] = Idle
    BY DEF NakSource, TypeOK, IngestTypeOK
  <1> QED BY <1>2, <1>3 DEF IngestClaim

\* A failure recorded by the broker, whether or not the worker learns of it.
LEMMA StoredFailure ==
  ASSUME TypeOK, LedgerInv, ~SameSecond, NEW r \in Replicas,
         ing[r] # Idle, ing[r].todo # <<>>, NEW t \in 1..MaxFailures, StoreDeadLetter(r, t),
         UNCHANGED <<nextSrc, srcSeen, dlqSeen, fateVars>>,
         DOMAIN src' = DOMAIN src,
         \A s \in DOMAIN src : src'[s].event = src[s].event /\ src'[s].id = src[s].id
  PROVE  /\ Steady
         /\ t = Len(failures) + 1 /\ t \in DOMAIN failures'
         /\ Len(failures') = Len(failures) + 1
         /\ Covered(SettledEvents', src', dlq', ing[r].event, t, 0)
  <1> DEFINE w == ing[r]
             policy == Head(w.todo)
             f == [event |-> w.event, policy |-> policy.name]
             m == [event |-> w.event, policy |-> policy.name,
                   version |-> IF w.event \in AuditEvents THEN policy.gen ELSE 0,
                   retry |-> 0, stamp |-> t, due |-> TRUE, state |-> "queued"]
  <1>1. t = Len(failures) + 1
    BY DEF StoreDeadLetter, TimestampsFor
  <1>2. failures \in Seq(Failure) /\ Len(failures) \in Nat /\ DOMAIN failures = 1..Len(failures)
    BY FailuresType
  <1>3. f \in Failure
    BY IngestWorkType DEF IngestWork, CompiledPolicy, Failure
  <1>4. failures' = Append(failures, f)
    BY <1>1, <1>2 DEF StoreDeadLetter
  <1>5. /\ Len(failures') = Len(failures) + 1 /\ t \in DOMAIN failures' /\ failures'[t] = f
        /\ \A x \in DOMAIN failures : failures'[x] = failures[x]
    BY <1>1, <1>2, <1>3, <1>4, AppendProperties
  <1>6. nextDlq \in Nat /\ nextDlq \notin DOMAIN dlq /\ nextSrc \in Nat
    BY DEF TypeOK, DlqTypeOK, SourceTypeOK
  <1>7. /\ DOMAIN dlq' = DOMAIN dlq \cup {nextDlq} /\ dlq'[nextDlq] = m
        /\ nextDlq' = nextDlq + 1
        /\ \A d \in DOMAIN dlq : dlq'[d] = dlq[d]
    BY <1>6 DEF StoreDeadLetter, Put
  <1>8. SettledEvents' = SettledEvents
    BY SettledUnchanged
  <1>9. m.event = w.event /\ m.stamp = t /\ m.retry = 0 /\ f.event = w.event
    OBVIOUS
  <1>10. w.event \in arrived
    BY DEF LedgerInv, IngestInv, IngestClaim
  <1> HIDE DEF m, f
  <1>11. Covered(SettledEvents', src', dlq', w.event, t, 0)
    <2>1. dlq'[nextDlq].event = w.event /\ dlq'[nextDlq].stamp = t /\ dlq'[nextDlq].retry >= 0
      BY <1>7, <1>9
    <2> QED BY <1>7, <2>1 DEF Covered
  <1>12. Steady
    <2>1. UNCHANGED <<arrived, activities>>
      BY DEF fateVars
    <2>2. \A d \in DOMAIN dlq' \ DOMAIN dlq :
            /\ d >= nextDlq /\ dlq'[d].event \in arrived'
            /\ failures'[dlq'[d].stamp].event = dlq'[d].event
      BY <1>5, <1>6, <1>7, <1>9, <1>10, <2>1
    <2>3. nextSrc' >= nextSrc /\ nextDlq' >= nextDlq /\ Len(failures') >= Len(failures)
      BY <1>2, <1>5, <1>6, <1>7
    <2> QED BY <1>5, <1>7, <1>8, <2>1, <2>2, <2>3, GrowingIsSteady
  <1> QED BY <1>1, <1>5, <1>11, <1>12

\* A dead letter is stored before its source message is acknowledged, with a
\* later Timestamp than any failure before it.
LEMMA CarriedPublishFailure ==
  ASSUME TypeOK, TypeOK', LedgerInv, ~SameSecond, NEW r \in Replicas, PublishFailure(r)
  PROVE  Carried
  <1>0. ing[r] # Idle /\ ing[r].todo # <<>>
    BY DEF PublishFailure, EvaluationFails, Evaluating
  <1>1. PICK t \in 1..MaxFailures :
          /\ StoreDeadLetter(r, t)
          /\ ing' = [ing EXCEPT ![r].todo = IF ing[r].event \in AuditEvents THEN Tail(@) ELSE <<>>,
                                ![r].outcome = "failed", ![r].stamp = t]
    BY DEF PublishFailure
  <1>2. UNCHANGED <<src, nextSrc, srcSeen, dlqSeen, fateVars, cur>>
    BY DEF PublishFailure, sourceVars, retryVars
  <1>3. /\ Steady
        /\ t = Len(failures) + 1 /\ t \in DOMAIN failures'
        /\ Len(failures') = Len(failures) + 1
        /\ Covered(SettledEvents', src', dlq', ing[r].event, t, 0)
    BY <1>0, <1>1, <1>2, StoredFailure
  <1>4. ing[r] \in IngestWork
    BY <1>0, IngestWorkType
  <1>5. /\ ing'[r].event = ing[r].event /\ ing'[r].seq = ing[r].seq
        /\ ing'[r].id = ing[r].id /\ ing'[r].outcome = "failed" /\ ing'[r].stamp = t
    BY <1>1, <1>4 DEF TypeOK, IngestTypeOK, IngestWork
  <1>6. IngestClaim(r)'
    <2>1. /\ ing[r].event \in arrived /\ ing[r].seq \in 1..(nextSrc - 1)
          /\ ing[r].id \in 0..Len(failures)
          /\ ing[r].seq \in DOMAIN src => /\ src[ing[r].seq].event = ing[r].event
                                         /\ src[ing[r].seq].id = ing[r].id
      BY <1>0 DEF LedgerInv, IngestInv, IngestClaim
    <2>2. Len(failures) \in Nat
      BY FailuresType
    <2>3. t > ing[r].id /\ ing[r].id \in 0..Len(failures')
      BY <1>3, <2>1, <2>2
    <2> QED BY <1>2, <1>3, <1>5, <2>1, <2>3 DEF IngestClaim, fateVars
  <1>7. \A r2 \in Replicas : ing'[r2] = ing[r2] \/ IngestClaim(r2)'
    BY <1>1, <1>6 DEF TypeOK, IngestTypeOK
  <1> QED BY <1>2, <1>3, <1>7 DEF Carried

\* An acknowledged source message belongs to an event that has an activity,
\* has no matching policy, or has a dead letter of a later failure.
LEMMA CarriedAckSource ==
  ASSUME TypeOK, LedgerInv, NEW r \in Replicas, AckSource(r)
  PROVE  Carried
  <1> DEFINE w == ing[r]
  <1>1. w # Idle /\ w \in IngestWork
    BY IngestWorkType DEF AckSource
  <1>2. /\ w.event \in arrived
        /\ w.seq \in DOMAIN src => src[w.seq].event = w.event /\ src[w.seq].id = w.id
        /\ w.outcome = "published" => w.event \in activities
        /\ w.outcome = "failed" => /\ w.stamp > w.id /\ w.stamp \in Nat
                                   /\ Covered(SettledEvents, src, dlq, w.event, w.stamp, 0)
    BY <1>1 DEF LedgerInv, IngestInv, IngestClaim, IngestWork
  <1>3. /\ UNCHANGED <<nextSrc, srcSeen, dlq, nextDlq, dlqSeen, failures, arrived, activities>>
        /\ UNCHANGED cur
    BY DEF AckSource, dlqVars, retryVars
  <1>4. /\ SettledEvents \subseteq SettledEvents'
        /\ w.outcome = "none" => w.event \in SettledEvents'
        /\ w.outcome = "failed" => SettledEvents' = SettledEvents
    BY DEF AckSource, SettledEvents
  <1>5. src' = src \/ src' = Drop(src, w.seq)
    BY DEF AckSource
  <1>6. ASSUME NEW e \in Events, NEW t \in Nat, NEW n \in Nat
        PROVE  /\ Later(SettledEvents, src, dlq, e, t) => Later(SettledEvents', src', dlq', e, t)
               /\ Covered(SettledEvents, src, dlq, e, t, n)
                    => Covered(SettledEvents', src', dlq', e, t, n)
    <2>1. CASE src' = src
      BY <2>1, <1>3, <1>4, KeptUnlessSettled
    <2>2. CASE src' = Drop(src, w.seq) /\ w.outcome = "failed"
      <3>1. w.seq \in DOMAIN src =>
              /\ src[w.seq].id < w.stamp
              /\ Covered(SettledEvents, src, dlq, src[w.seq].event, w.stamp, 0)
        BY <2>2, <1>1, <1>2 DEF IngestWork
      <3>2. w.stamp \in Nat
        BY <2>2, <1>2
      <3> QED BY <2>2, <1>3, <1>4, <3>1, <3>2, StreamTypes, KeptAfterFailure
    <2>3. CASE src' = Drop(src, w.seq) /\ w.outcome # "failed"
      <3>1. w.event \in SettledEvents'
        BY <2>3, <1>1, <1>2, <1>3, <1>4 DEF IngestWork, SettledEvents
      <3>2. \A s \in DOMAIN src :
              \/ s \in DOMAIN src' /\ src'[s].event = src[s].event /\ src'[s].id = src[s].id
              \/ src[s].event \in SettledEvents'
        BY <2>3, <1>2, <3>1 DEF Drop
      <3> QED BY <1>3, <1>4, <3>2, KeptUnlessSettled
    <2> QED BY <1>5, <2>1, <2>2, <2>3
  <1>7. DOMAIN src' \subseteq DOMAIN src /\ \A s \in DOMAIN src' : src'[s] = src[s]
    BY <1>5 DEF Drop
  <1>8. nextSrc' >= nextSrc /\ nextDlq' >= nextDlq /\ Len(failures') >= Len(failures)
    BY <1>3, FailuresType DEF TypeOK, SourceTypeOK, DlqTypeOK
  <1>9. Steady
    BY <1>3, <1>6, <1>7, <1>8 DEF Steady
  <1>10. \A r2 \in Replicas : ing'[r2] = ing[r2] \/ IngestClaim(r2)'
    <2>1. \A r2 \in Replicas : ing'[r2] = ing[r2] \/ ing'[r2] = Idle
      BY DEF AckSource, TypeOK, IngestTypeOK
    <2> QED BY <2>1 DEF IngestClaim
  <1> QED BY <1>3, <1>9, <1>10 DEF Carried

\* Every ingest step carries the claims along.
LEMMA CarriedIngest ==
  ASSUME TypeOK, TypeOK', LedgerInv, ~SameSecond, NEW r \in Replicas, Ingest(r)
  PROVE  Carried
  <1>1. CASE \E s \in DOMAIN src : Fetch(r, s)
    BY <1>1, CarriedFetch
  <1>2. CASE EvaluateNoMatch(r)
    <2>1. SettledEvents' = SettledEvents
      BY <1>2, SettledUnchanged DEF EvaluateNoMatch
    <2>2. Steady
      BY <1>2, <2>1, QuietIsSteady DEF EvaluateNoMatch, sourceVars, dlqVars, fateVars, SameTokens
    <2>3. ing[r] # Idle /\ ing[r] \in IngestWork
      BY <1>2, IngestWorkType DEF EvaluateNoMatch, Evaluating
    <2>4. /\ ing'[r].event = ing[r].event /\ ing'[r].seq = ing[r].seq
          /\ ing'[r].id = ing[r].id /\ ing'[r].outcome = ing[r].outcome
          /\ ing'[r].stamp = ing[r].stamp
      BY <1>2, <2>3 DEF EvaluateNoMatch, TypeOK, IngestTypeOK, IngestWork
    <2>5. IngestClaim(r)'
      BY <1>2, <2>1, <2>3, <2>4 DEF EvaluateNoMatch, LedgerInv, IngestInv, IngestClaim,
         sourceVars, dlqVars, fateVars
    <2>6. \A r2 \in Replicas : ing'[r2] = ing[r2] \/ IngestClaim(r2)'
      BY <1>2, <2>5 DEF EvaluateNoMatch, TypeOK, IngestTypeOK
    <2> QED BY <1>2, <2>2, <2>6 DEF Carried, EvaluateNoMatch, retryVars
  <1>3. CASE PublishActivity(r)
    <2>1. SettledEvents \subseteq SettledEvents' /\ activities \subseteq activities'
      BY <1>3 DEF PublishActivity, StoreActivity, SettledEvents
    <2>2. Steady
      BY <1>3, <2>1, QuietIsSteady DEF PublishActivity, sourceVars, dlqVars, SameTokens
    <2>3. ing[r] # Idle /\ ing[r] \in IngestWork
      BY <1>3, IngestWorkType DEF PublishActivity, Evaluating
    <2>4. /\ ing'[r].event = ing[r].event /\ ing'[r].seq = ing[r].seq
          /\ ing'[r].id = ing[r].id /\ ing'[r].outcome = "published"
      BY <1>3, <2>3 DEF PublishActivity, TypeOK, IngestTypeOK, IngestWork
    <2>5. IngestClaim(r)'
      BY <1>3, <2>3, <2>4 DEF PublishActivity, StoreActivity, LedgerInv, IngestInv, IngestClaim,
         sourceVars, dlqVars
    <2>6. \A r2 \in Replicas : ing'[r2] = ing[r2] \/ IngestClaim(r2)'
      BY <1>3, <2>5 DEF PublishActivity, TypeOK, IngestTypeOK
    <2> QED BY <1>3, <2>2, <2>6 DEF Carried, PublishActivity, retryVars
  <1>4. CASE PublishActivityFails(r)
    <2>1. SettledEvents \subseteq SettledEvents' /\ activities \subseteq activities'
      BY <1>4 DEF PublishActivityFails, StoreActivity, SettledEvents
    <2>2. SameTokens /\ \A r2 \in Replicas : ing'[r2] = ing[r2] \/ IngestClaim(r2)'
      BY <1>4, NakIsQuiet DEF PublishActivityFails, SameTokens, dlqVars
    <2>3. Steady
      BY <1>4, <2>1, <2>2, QuietIsSteady DEF PublishActivityFails, dlqVars
    <2> QED BY <1>4, <2>2, <2>3 DEF Carried, PublishActivityFails, retryVars
  <1>5. CASE PublishFailure(r)
    BY <1>5, CarriedPublishFailure
  <1>6. CASE PublishFailureFails(r)
    <2>0. ing[r] # Idle /\ ing[r].todo # <<>>
      BY <1>6 DEF PublishFailureFails, Evaluating
    <2>1. /\ DOMAIN src' = DOMAIN src
          /\ \A s \in DOMAIN src : src'[s].event = src[s].event /\ src'[s].id = src[s].id
          /\ \A r2 \in Replicas : ing'[r2] = ing[r2] \/ IngestClaim(r2)'
      BY <1>6, NakIsQuiet DEF PublishFailureFails
    <2>2. UNCHANGED <<nextSrc, srcSeen, dlqSeen, fateVars, cur>>
      BY <1>6 DEF PublishFailureFails, retryVars
    <2>3. CASE \E t \in 1..MaxFailures : StoreDeadLetter(r, t)
      <3>1. Steady
        BY <2>0, <2>1, <2>2, <2>3, StoredFailure
      <3> QED BY <2>1, <2>2, <3>1 DEF Carried
    <2>4. CASE UNCHANGED <<dlq, nextDlq, failures>>
      <3>1. SettledEvents' = SettledEvents
        BY <2>2, SettledUnchanged
      <3>2. Steady
        BY <2>1, <2>2, <2>4, <3>1, QuietIsSteady DEF SameTokens, fateVars
      <3> QED BY <2>1, <2>2, <3>2 DEF Carried
    <2> QED BY <1>6, <2>3, <2>4 DEF PublishFailureFails
  <1>7. CASE MarshalFailure(r)
    <2>1. SettledEvents' = SettledEvents
      BY <1>7, SettledUnchanged DEF MarshalFailure
    <2>2. SameTokens /\ \A r2 \in Replicas : ing'[r2] = ing[r2] \/ IngestClaim(r2)'
      BY <1>7, NakIsQuiet DEF MarshalFailure, SameTokens, dlqVars
    <2>3. Steady
      BY <1>7, <2>1, <2>2, QuietIsSteady DEF MarshalFailure, dlqVars, fateVars
    <2> QED BY <1>7, <2>2, <2>3 DEF Carried, MarshalFailure, retryVars
  <1>8. CASE AckSource(r)
    BY <1>8, CarriedAckSource
  <1> QED BY <1>1, <1>2, <1>3, <1>4, <1>5, <1>6, <1>7, <1>8 DEF Ingest

-----------------------------------------------------------------------------
(* The retry controller.                                                   *)

\* Steps of a retry run that store and remove nothing, given what they do to cur.
LEMMA CarriedQuietRetry ==
  ASSUME TypeOK, RetryKeeps, UNCHANGED <<nextSrc, nextDlq, srcSeen, dlqSeen>>, SameTokens,
         \A r \in Replicas : cur'[r] = cur[r] \/ RetryClaim(r)'
  PROVE  Carried
  <1>1. SettledEvents' = SettledEvents
    BY SettledUnchanged DEF RetryKeeps
  <1>2. Steady
    BY <1>1, QuietIsSteady DEF RetryKeeps, fateVars
  <1> QED BY <1>2 DEF Carried, RetryKeeps

\* Hiding a fetched dead letter changes nothing coverage looks at.
LEMMA HidingIsQuiet ==
  ASSUME TypeOK, NEW r \in Replicas, NEW d \in DOMAIN dlq, NextMessage(r, d), UNCHANGED src
  PROVE  SameTokens
  <1>1. \A x \in DOMAIN dlq : dlq[x] \in DeadLetterEvent
    BY DEF TypeOK, DlqTypeOK
  <1> QED BY <1>1 DEF NextMessage, SameTokens, DeadLetterEvent

\* A steady step that moves a retry on to its next phase keeps what the run
\* believes; a phase that acknowledges must come with its coverage.
LEMMA PhaseClaim ==
  ASSUME TypeOK, TypeOK', LedgerInv, NEW r \in Replicas, cur[r] # Idle, NEW ph \in RetryPhase,
         cur' = [cur EXCEPT ![r].phase = ph], Steady,
         ph = "ackRequeued" =>
           Covered(SettledEvents', src', dlq', cur[r].entry.event, cur[r].entry.stamp,
                   cur[r].entry.retry + 1),
         ph = "ackRepublished" =>
           Later(SettledEvents', src', dlq', cur[r].entry.event, cur[r].entry.stamp)
  PROVE  \A r2 \in Replicas : cur'[r2] = cur[r2] \/ RetryClaim(r2)'
  <1>1. cur[r] \in RetryWork /\ cur[r].entry.stamp \in DOMAIN failures
    BY RetryWorkType
  <1>2. cur'[r].entry = cur[r].entry /\ cur'[r].seq = cur[r].seq /\ cur'[r].phase = ph
    BY <1>1 DEF TypeOK, RetryTypeOK, RetryWork
  <1>3. nextDlq \in Nat /\ nextDlq' \in Nat /\ nextDlq' >= nextDlq
    BY DEF TypeOK, DlqTypeOK, Steady
  <1>4. /\ cur[r].entry.event \in arrived /\ cur[r].seq \in 1..(nextDlq - 1)
        /\ failures[cur[r].entry.stamp].event = cur[r].entry.event
        /\ cur[r].seq \in DOMAIN dlq => /\ dlq[cur[r].seq].event = cur[r].entry.event
                                       /\ dlq[cur[r].seq].stamp = cur[r].entry.stamp
                                       /\ dlq[cur[r].seq].retry = cur[r].entry.retry
    BY DEF LedgerInv, RetryInv, RetryClaim
  <1>5. /\ cur[r].entry.event \in arrived' /\ cur[r].seq \in 1..(nextDlq' - 1)
        /\ failures'[cur[r].entry.stamp].event = cur[r].entry.event
    BY <1>1, <1>3, <1>4 DEF Steady
  <1>6. cur[r].seq \in DOMAIN dlq' => /\ dlq'[cur[r].seq].event = cur[r].entry.event
                                      /\ dlq'[cur[r].seq].stamp = cur[r].entry.stamp
                                      /\ dlq'[cur[r].seq].retry = cur[r].entry.retry
    BY <1>3, <1>4 DEF Steady
  <1>7. RetryClaim(r)'
    BY <1>2, <1>5, <1>6 DEF RetryClaim
  <1> QED BY <1>7 DEF TypeOK, RetryTypeOK

\* An attempt works on a copy of the dead letter it fetched.
LEMMA CarriedAttempt ==
  ASSUME TypeOK, TypeOK', LedgerInv, NEW r \in Replicas, NEW d \in DOMAIN dlq, Attempt(r, d)
  PROVE  Carried
  <1> DEFINE g == Generation(cache[r], dlq[d].policy)
             n == IF g > dlq[d].version THEN g ELSE dlq[d].version
             entry == [dlq[d] EXCEPT !.version = n]
  <1>1. SameTokens
    BY HidingIsQuiet DEF Attempt, sourceVars
  <1>2. dlq[d] \in DeadLetterEvent /\ d \in 1..(nextDlq - 1)
    BY DEF TypeOK, DlqTypeOK
  <1>3. /\ cur'[r].seq = d /\ cur'[r].entry = entry
        /\ cur'[r].phase = "evaluate" \/ cur'[r].phase = "republish"
    BY DEF Attempt, TypeOK, RetryTypeOK
  <1>4. entry.event = dlq[d].event /\ entry.stamp = dlq[d].stamp /\ entry.retry = dlq[d].retry
    <2> HIDE DEF n
    <2> QED BY <1>2 DEF DeadLetterEvent
  <1>5. UNCHANGED <<arrived, failures, nextDlq>>
    BY DEF Attempt, RetryKeeps, fateVars
  <1> HIDE DEF entry
  <1>6. RetryClaim(r)'
    <2>1. /\ dlq[d].event \in arrived
          /\ failures[dlq[d].stamp].event = dlq[d].event
      BY DEF LedgerInv, StreamInv
    <2>2. /\ dlq'[d].event = dlq[d].event /\ dlq'[d].stamp = dlq[d].stamp
          /\ dlq'[d].retry = dlq[d].retry
      BY <1>1 DEF SameTokens
    <2> QED BY <1>2, <1>3, <1>4, <1>5, <2>1, <2>2 DEF RetryClaim
  <1>7. \A r2 \in Replicas : cur'[r2] = cur[r2] \/ RetryClaim(r2)'
    BY <1>6 DEF Attempt, TypeOK, RetryTypeOK
  <1> QED BY <1>1, <1>7, CarriedQuietRetry DEF Attempt, sourceVars

\* A republish accepted by the broker: stored, or dropped as a duplicate of a
\* copy that is accounted for.
LEMMA RepublishIsSteady ==
  ASSUME TypeOK, LedgerInv, NEW r \in Replicas, cur[r] # Idle,
         StoreRepublished(cur[r].entry), RetryKeeps, UNCHANGED <<dlq, nextDlq, dlqSeen>>
  PROVE  /\ Steady
         /\ Later(SettledEvents', src', dlq', cur[r].entry.event, cur[r].entry.stamp)
  <1> DEFINE entry == cur[r].entry
             m == [event |-> entry.event, id |-> entry.stamp, deliveries |-> 0,
                   state |-> "queued"]
  <1>1. entry \in DeadLetterEvent /\ entry.stamp \in DOMAIN failures
    BY RetryWorkType
  <1>2. entry.event \in arrived /\ failures[entry.stamp].event = entry.event
    BY DEF LedgerInv, RetryInv, RetryClaim
  <1>3. SettledEvents' = SettledEvents /\ UNCHANGED <<arrived, activities, failures>>
    BY SettledUnchanged DEF RetryKeeps, fateVars
  <1>4. CASE entry.stamp \in srcSeen
    <2>1. UNCHANGED <<src, nextSrc, srcSeen>>
      BY <1>4 DEF StoreRepublished, sourceVars
    <2>2. SameTokens
      BY <2>1 DEF SameTokens
    <2>3. Later(SettledEvents, src, dlq, entry.event, entry.stamp)
      BY <1>2, <1>4 DEF LedgerInv, WindowInv
    <2>4. Steady
      BY <1>3, <2>1, <2>2, QuietIsSteady
    <2> QED BY <1>3, <2>1, <2>3, <2>4
  <1>5. CASE entry.stamp \notin srcSeen
    <2>1. nextSrc \in Nat /\ nextSrc \notin DOMAIN src /\ nextDlq \in Nat
      BY DEF TypeOK, SourceTypeOK, DlqTypeOK
    <2>2. /\ DOMAIN src' = DOMAIN src \cup {nextSrc} /\ src'[nextSrc] = m
          /\ \A s \in DOMAIN src : src'[s] = src[s]
          /\ nextSrc' = nextSrc + 1 /\ srcSeen' = srcSeen \cup {entry.stamp}
      BY <1>5, <2>1 DEF StoreRepublished, Put
    <2>3. m.event = entry.event /\ m.id = entry.stamp
      OBVIOUS
    <2>4. entry.stamp \in 0..Len(failures) /\ Len(failures) \in Nat /\ entry.stamp \in Nat
      BY <1>1, FailuresType
    <2> HIDE DEF m
    <2>5. Later(SettledEvents', src', dlq', entry.event, entry.stamp)
      BY <2>2, <2>3, <2>4 DEF Later
    <2>6. \A t \in srcSeen' \ srcSeen : Later(SettledEvents', src', dlq', failures'[t].event, t)
      BY <2>2, <2>5, <1>2, <1>3
    <2>7. Steady
      BY <1>2, <1>3, <2>1, <2>2, <2>3, <2>4, <2>6, GrowingIsSteady
    <2> QED BY <2>5, <2>7
  <1> QED BY <1>4, <1>5

\* A metadata update the broker stores on top of streams q that differ from dlq
\* only in what is in view.
LEMMA StoredUpdateIsSteady ==
  ASSUME TypeOK, LedgerInv, NEW r \in Replicas, cur[r] # Idle, RetryKeeps,
         UNCHANGED sourceVars, NEW q, DOMAIN q = DOMAIN dlq,
         \A d \in DOMAIN dlq : /\ q[d].stamp = dlq[d].stamp /\ q[d].retry = dlq[d].retry
                              /\ q[d].event = dlq[d].event,
         dlq' = Put(q, nextDlq, [cur[r].entry EXCEPT !.retry = @ + 1, !.due = FALSE,
                                                     !.state = "queued"]),
         nextDlq' = nextDlq + 1,
         dlqSeen' = dlqSeen \cup {UpdateId(cur[r].entry)}
  PROVE  /\ Steady
         /\ Covered(SettledEvents', src', dlq', cur[r].entry.event, cur[r].entry.stamp,
                    cur[r].entry.retry + 1)
  <1> DEFINE entry == cur[r].entry
             m == [entry EXCEPT !.retry = @ + 1, !.due = FALSE, !.state = "queued"]
  <1>1. entry \in DeadLetterEvent /\ entry.stamp \in DOMAIN failures
    BY RetryWorkType
  <1>2. m.stamp = entry.stamp /\ m.event = entry.event /\ m.retry = entry.retry + 1
    BY <1>1, TypeRequeuedEntry
  <1>3. entry.retry + 1 \in Nat
    BY <1>1 DEF DeadLetterEvent
  <1>4. entry.event \in arrived /\ failures[entry.stamp].event = entry.event
    BY DEF LedgerInv, RetryInv, RetryClaim
  <1>5. SettledEvents' = SettledEvents /\ UNCHANGED <<arrived, activities, failures>>
    BY SettledUnchanged DEF RetryKeeps, fateVars
  <1>6. nextDlq \in Nat /\ nextDlq \notin DOMAIN dlq /\ nextSrc \in Nat /\ Len(failures) \in Nat
    BY FailuresType DEF TypeOK, SourceTypeOK, DlqTypeOK
  <1> HIDE DEF m
  <1>7. /\ DOMAIN dlq' = DOMAIN dlq \cup {nextDlq} /\ dlq'[nextDlq] = m
        /\ \A d \in DOMAIN dlq : dlq'[d] = q[d]
    <2>1. dlq' = Put(q, nextDlq, m)
      BY DEF m
    <2> QED BY <2>1, <1>6 DEF Put
  <1>8. Covered(SettledEvents', src', dlq', entry.event, entry.stamp, entry.retry + 1)
    <2>1. dlq'[nextDlq].retry >= entry.retry + 1
      BY <1>2, <1>3, <1>7
    <2> QED BY <1>2, <1>7, <2>1 DEF Covered
  <1>9. \A k \in dlqSeen' \ dlqSeen :
          Covered(SettledEvents', src', dlq', failures'[k[1]].event, k[1], k[2])
    <2>1. UpdateId(entry)[1] = entry.stamp /\ UpdateId(entry)[2] = entry.retry + 1
      BY DEF UpdateId
    <2> QED BY <1>4, <1>5, <1>8, <2>1
  <1>10. UNCHANGED <<src, nextSrc, srcSeen>>
    BY DEF sourceVars
  <1>11. \A d \in DOMAIN dlq' \ DOMAIN dlq :
           /\ d >= nextDlq /\ dlq'[d].event \in arrived'
           /\ failures'[dlq'[d].stamp].event = dlq'[d].event
    BY <1>2, <1>4, <1>5, <1>6, <1>7
  <1>12. nextSrc' >= nextSrc /\ nextDlq' >= nextDlq /\ Len(failures') >= Len(failures)
    BY <1>5, <1>6, <1>10, SMTT(40)
  <1>13. Steady
    BY <1>5, <1>7, <1>9, <1>10, <1>11, <1>12, GrowingIsSteady
  <1> QED BY <1>8, <1>13

\* A stored or dropped metadata update leaves a dead letter with one retry
\* more, or something later, behind.
LEMMA CarriedUpdate ==
  ASSUME TypeOK, TypeOK', LedgerInv, NEW r \in Replicas, UpdateAndRepublishMetadata(r)
  PROVE  Carried
  <1> DEFINE entry == cur[r].entry
  <1>0. /\ cur[r] # Idle /\ cur' = [cur EXCEPT ![r].phase = "ackRequeued"]
        /\ "ackRequeued" \in RetryPhase /\ RetryKeeps /\ UNCHANGED sourceVars
        /\ StoreMetadata(entry)
    BY DEF UpdateAndRepublishMetadata, RetryPhase
  <1>1. /\ Steady
        /\ Covered(SettledEvents', src', dlq', entry.event, entry.stamp, entry.retry + 1)
    <2>1. CASE UpdateId(entry) \notin dlqSeen
      BY <1>0, <2>1, StoredUpdateIsSteady DEF StoreMetadata
    <2>2. CASE UpdateId(entry) \in dlqSeen
      <3>1. UNCHANGED <<src, nextSrc, srcSeen, dlq, nextDlq, dlqSeen, failures, arrived, activities>>
        BY <1>0, <2>2 DEF StoreMetadata, RetryKeeps, sourceVars, fateVars
      <3>2. SettledEvents' = SettledEvents
        BY <1>0, SettledUnchanged DEF RetryKeeps
      <3>3. SameTokens
        BY <3>1 DEF SameTokens
      <3>4. Steady
        BY <3>1, <3>2, <3>3, QuietIsSteady
      <3>5. Covered(SettledEvents, src, dlq, failures[entry.stamp].event, entry.stamp,
                    entry.retry + 1)
        <4>1. UpdateId(entry)[1] = entry.stamp /\ UpdateId(entry)[2] = entry.retry + 1
          BY DEF UpdateId
        <4> QED BY <2>2, <4>1 DEF LedgerInv, WindowInv
      <3>6. failures[entry.stamp].event = entry.event
        BY <1>0 DEF LedgerInv, RetryInv, RetryClaim
      <3> QED BY <3>1, <3>2, <3>4, <3>5, <3>6
    <2> QED BY <2>1, <2>2
  <1>2. \A r2 \in Replicas : cur'[r2] = cur[r2] \/ RetryClaim(r2)'
    BY <1>0, <1>1, PhaseClaim
  <1> QED BY <1>0, <1>1, <1>2 DEF Carried, RetryKeeps

\* After a failed metadata update the dead letter stays on the stream.
LEMMA CarriedUpdateFails ==
  ASSUME TypeOK, LedgerInv, NEW r \in Replicas, UpdateMetadataFails(r)
  PROVE  Carried
  <1> DEFINE seq == cur[r].seq
             q == IF seq \in DOMAIN dlq THEN [dlq EXCEPT ![seq].state = "queued"] ELSE dlq
  <1>0. cur[r] # Idle /\ RetryKeeps /\ UNCHANGED sourceVars
    BY DEF UpdateMetadataFails
  <1>1. /\ DOMAIN q = DOMAIN dlq
        /\ \A d \in DOMAIN dlq : /\ q[d].stamp = dlq[d].stamp /\ q[d].retry = dlq[d].retry
                                 /\ q[d].event = dlq[d].event
    BY TypeRequeue DEF TypeOK
  <1>2. \A r2 \in Replicas : cur'[r2] = cur[r2] \/ RetryClaim(r2)'
    <2>1. \A r2 \in Replicas : cur'[r2] = cur[r2] \/ cur'[r2] = Idle
      BY DEF UpdateMetadataFails, TypeOK, RetryTypeOK
    <2> QED BY <2>1 DEF RetryClaim
  <1>3. CASE dlq' = q /\ UNCHANGED <<nextDlq, dlqSeen>>
    <2>1. SameTokens
      BY <1>0, <1>1, <1>3 DEF SameTokens, sourceVars
    <2> QED BY <1>0, <1>2, <1>3, <2>1, CarriedQuietRetry DEF sourceVars
  <1>4. CASE /\ dlq' = Put(q, nextDlq, [cur[r].entry EXCEPT !.retry = @ + 1, !.due = FALSE,
                                                            !.state = "queued"])
             /\ nextDlq' = nextDlq + 1
             /\ dlqSeen' = dlqSeen \cup {UpdateId(cur[r].entry)}
    <2>1. Steady
      BY <1>0, <1>1, <1>4, StoredUpdateIsSteady
    <2> QED BY <1>0, <1>2, <2>1 DEF Carried, RetryKeeps
  <1> QED BY <1>3, <1>4 DEF UpdateMetadataFails

\* An acknowledged dead letter is covered by its update or its republished
\* copy.
LEMMA CarriedAckDlq ==
  ASSUME TypeOK, LedgerInv, NEW r \in Replicas, AckDlq(r)
  PROVE  Carried
  <1> DEFINE w == cur[r]
             entry == cur[r].entry
  <1>1. w # Idle /\ entry \in DeadLetterEvent /\ entry.retry + 1 \in Nat
    BY RetryWorkType DEF AckDlq, DeadLetterEvent
  <1>2. Covered(SettledEvents, src, dlq, entry.event, entry.stamp, entry.retry + 1)
    BY <1>1 DEF AckDlq, LedgerInv, RetryInv, RetryClaim, Covered
  <1>3. w.seq \in DOMAIN dlq =>
          Covered(SettledEvents, src, dlq, dlq[w.seq].event, dlq[w.seq].stamp,
                  dlq[w.seq].retry + 1)
    BY <1>1, <1>2 DEF LedgerInv, RetryInv, RetryClaim
  <1>4. /\ UNCHANGED <<src, nextSrc, srcSeen, nextDlq, dlqSeen, failures, arrived, activities>>
        /\ UNCHANGED ing /\ SettledEvents' = SettledEvents
    BY SettledUnchanged DEF AckDlq, RetryKeeps, sourceVars, fateVars
  <1>5. dlq' = dlq \/ dlq' = Drop(dlq, w.seq)
    BY DEF AckDlq
  <1>6. ASSUME NEW e \in Events, NEW t \in Nat, NEW n \in Nat
        PROVE  /\ Later(SettledEvents, src, dlq, e, t) => Later(SettledEvents', src', dlq', e, t)
               /\ Covered(SettledEvents, src, dlq, e, t, n)
                    => Covered(SettledEvents', src', dlq', e, t, n)
    <2>1. CASE dlq' = dlq
      BY <2>1, <1>4
    <2>2. CASE dlq' = Drop(dlq, w.seq)
      BY <2>2, <1>3, <1>4, StreamTypes, KeptAfterRetry
    <2> QED BY <1>5, <2>1, <2>2
  <1>7. DOMAIN dlq' \subseteq DOMAIN dlq /\ \A d \in DOMAIN dlq' : dlq'[d] = dlq[d]
    BY <1>5 DEF Drop
  <1>8. nextSrc' >= nextSrc /\ nextDlq' >= nextDlq /\ Len(failures') >= Len(failures)
    BY <1>4, FailuresType DEF TypeOK, SourceTypeOK, DlqTypeOK
  <1>9. Steady
    BY <1>4, <1>6, <1>7, <1>8 DEF Steady
  <1>10. \A r2 \in Replicas : cur'[r2] = cur[r2] \/ RetryClaim(r2)'
    <2>1. \A r2 \in Replicas : cur'[r2] = cur[r2] \/ cur'[r2] = Idle
      BY DEF AckDlq, TypeOK, RetryTypeOK
    <2> QED BY <2>1 DEF RetryClaim
  <1> QED BY <1>4, <1>9, <1>10 DEF Carried

\* Every step of a retry run carries the claims along.
LEMMA CarriedRetry ==
  ASSUME TypeOK, TypeOK', LedgerInv, NEW r \in Replicas, Retry(r)
  PROVE  Carried
  <1>1. CASE StartPeriodic(r) \/ RegisterScan(r) \/ StartScan(r) \/ EndRun(r)
    BY <1>1, CarriedPolicies DEF StartPeriodic, RegisterScan, StartScan, EndRun, RetryKeeps, dlqVars
  <1>2. ASSUME NEW d \in DOMAIN dlq, Defer(r, d) PROVE Carried
    <2>1. SameTokens
      BY <1>2, HidingIsQuiet DEF Defer, sourceVars
    <2> QED BY <1>2, <2>1, CarriedQuietRetry DEF Defer, sourceVars, retryVars
  <1>3. ASSUME NEW d \in DOMAIN dlq, Attempt(r, d) PROVE Carried
    BY <1>3, CarriedAttempt
  <1>4. CASE ReEvaluateDeadLetter(r)
    <2>1. /\ RetryKeeps /\ UNCHANGED <<src, nextSrc, srcSeen, dlq, nextDlq, dlqSeen>>
          /\ cur[r] # Idle
      BY <1>4 DEF ReEvaluateDeadLetter, sourceVars
    <2>2. SameTokens
      BY <2>1 DEF SameTokens
    <2>3. Steady
      BY <2>1, <2>2, QuietIsSteady, SettledUnchanged DEF RetryKeeps, fateVars
    <2>4. PICK ph \in {"republish", "requeue"} : cur' = [cur EXCEPT ![r].phase = ph]
      BY <1>4 DEF ReEvaluateDeadLetter
    <2>5. \A r2 \in Replicas : cur'[r2] = cur[r2] \/ RetryClaim(r2)'
      BY <2>1, <2>3, <2>4, PhaseClaim DEF RetryPhase
    <2> QED BY <2>1, <2>3, <2>5 DEF Carried, RetryKeeps
  <1>5. CASE RepublishEvent(r)
    <2>1. /\ cur[r] # Idle /\ RetryKeeps /\ StoreRepublished(cur[r].entry)
          /\ UNCHANGED <<dlq, nextDlq, dlqSeen>>
          /\ cur' = [cur EXCEPT ![r].phase = "ackRepublished"]
      BY <1>5 DEF RepublishEvent
    <2>2. /\ Steady
          /\ Later(SettledEvents', src', dlq', cur[r].entry.event, cur[r].entry.stamp)
      BY <2>1, RepublishIsSteady
    <2>3. \A r2 \in Replicas : cur'[r2] = cur[r2] \/ RetryClaim(r2)'
      BY <2>1, <2>2, PhaseClaim DEF RetryPhase
    <2> QED BY <2>1, <2>2, <2>3 DEF Carried, RetryKeeps
  <1>6. CASE RepublishEventFails(r)
    <2>1. /\ cur[r] # Idle /\ RetryKeeps
          /\ StoreRepublished(cur[r].entry) \/ UNCHANGED sourceVars
          /\ UNCHANGED <<dlq, nextDlq, dlqSeen>>
          /\ cur' = [cur EXCEPT ![r].phase = "requeue"]
      BY <1>6 DEF RepublishEventFails
    <2>2. Steady
      <3>1. CASE StoreRepublished(cur[r].entry)
        BY <2>1, <3>1, RepublishIsSteady
      <3>2. CASE UNCHANGED sourceVars
        <4>1. SameTokens
          BY <2>1, <3>2 DEF SameTokens, sourceVars
        <4> QED BY <2>1, <3>2, <4>1, QuietIsSteady, SettledUnchanged
                DEF RetryKeeps, fateVars, sourceVars
      <3> QED BY <2>1, <3>1, <3>2
    <2>3. \A r2 \in Replicas : cur'[r2] = cur[r2] \/ RetryClaim(r2)'
      BY <2>1, <2>2, PhaseClaim DEF RetryPhase
    <2> QED BY <2>1, <2>2, <2>3 DEF Carried, RetryKeeps
  <1>7. CASE UpdateAndRepublishMetadata(r)
    BY <1>7, CarriedUpdate
  <1>8. CASE UpdateMetadataFails(r)
    BY <1>8, CarriedUpdateFails
  <1>9. CASE AckDlq(r)
    BY <1>9, CarriedAckDlq
  <1> QED BY <1>1, <1>2, <1>3, <1>4, <1>5, <1>6, <1>7, <1>8, <1>9 DEF Retry

\* A restart forgets claims and touches no stream.
LEMMA CarriedRestart ==
  ASSUME TypeOK, LedgerInv, NEW r \in Replicas, Restart(r)
  PROVE  Carried
  <1>1. SettledEvents' = SettledEvents
    BY SettledUnchanged DEF Restart
  <1>2. SameTokens
    BY DEF Restart, sourceVars, dlqVars, SameTokens
  <1>3. Steady
    BY <1>1, <1>2, QuietIsSteady DEF Restart, sourceVars, dlqVars, fateVars
  <1>4. /\ \A r2 \in Replicas : ing'[r2] = ing[r2] \/ ing'[r2] = Idle
        /\ \A r2 \in Replicas : cur'[r2] = cur[r2] \/ cur'[r2] = Idle
    BY DEF Restart, TypeOK, IngestTypeOK, RetryTypeOK
  <1> QED BY <1>3, <1>4 DEF Carried, IngestClaim, RetryClaim

-----------------------------------------------------------------------------
(* The theorems.                                                           *)

\* With all streams empty there is nothing to cover.
LEMMA LedgerInit == Init => LedgerInv
  <1> SUFFICES ASSUME Init PROVE LedgerInv
    OBVIOUS
  <1>1. /\ arrived = {} /\ DOMAIN src = {} /\ DOMAIN dlq = {} /\ srcSeen = {} /\ dlqSeen = {}
        /\ \A r \in Replicas : ing[r] = Idle /\ cur[r] = Idle
    BY DEF Init
  <1>2. NoEventLost /\ StreamInv /\ WindowInv
    BY <1>1 DEF NoEventLost, StreamInv, WindowInv
  <1>3. IngestInv /\ RetryInv
    BY <1>1 DEF IngestInv, RetryInv, IngestClaim, RetryClaim
  <1> QED BY <1>2, <1>3 DEF LedgerInv

\* LedgerInv is inductive as long as no two failures share a Timestamp.
LEMMA LedgerStep ==
  ASSUME ~SameSecond
  PROVE  TypeOK /\ TypeOK' /\ LedgerInv /\ [Next]_vars => LedgerInv'
  <1> SUFFICES ASSUME TypeOK, TypeOK', LedgerInv, [Next]_vars PROVE LedgerInv'
    OBVIOUS
  <1> SUFFICES Carried
    BY CarriedStep
  <1>1. CASE UNCHANGED vars
    BY <1>1, CarriedPolicies DEF vars, retryVars
  <1>2. ASSUME NEW e \in Events, Ingress(e) PROVE Carried
    BY <1>2, CarriedIngress
  <1>3. CASE PolicyWrite
    BY <1>3, CarriedPolicies DEF PolicyWrite, WriteSpec, CreatePolicy, 
       WriteStatus, DeletePolicy, Write, retryVars
  <1>4. CASE Broker
    BY <1>4, CarriedBroker
  <1>5. ASSUME NEW r \in Replicas, PolicyHandler(r) PROVE Carried
    BY <1>5, CarriedPolicies DEF PolicyHandler, OnPolicyAdd, OnPolicyDelete,
       OnPolicyUpdateUnresolved, OnPolicyUpdateRemove, OnPolicyUpdateAdd, HandlerKeeps
  <1>6. ASSUME NEW r \in Replicas, Ingest(r) PROVE Carried
    BY <1>6, CarriedIngest
  <1>7. ASSUME NEW r \in Replicas, Retry(r) PROVE Carried
    BY <1>7, CarriedRetry
  <1>8. ASSUME NEW r \in Replicas, Restart(r) PROVE Carried
    BY <1>8, CarriedRestart
  <1> QED BY <1>1, <1>2, <1>3, <1>4, <1>5, <1>6, <1>7, <1>8 DEF Next

\* The streams, the work in progress and the duplicate windows always account
\* for the same events, if no event fails twice on a policy in one second.
THEOREM LedgerIsInvariant == ASSUME ~SameSecond PROVE Spec => []LedgerInv
  <1>1. Init => LedgerInv
    BY LedgerInit
  <1>2. TypeOK /\ TypeOK' /\ LedgerInv /\ [Next]_vars => LedgerInv'
    BY LedgerStep
  <1>3. Spec => []TypeOK
    BY TypeCorrect
  <1> QED BY <1>1, <1>2, <1>3, PTL DEF Spec

\* No event is lost between the source streams and the dead-letter queue: not
\* by a crash, a lost ack, a redelivery to another replica, a failed publish, a
\* dropped duplicate or a policy change, for any number of each.
THEOREM EventsAreNeverLost == ASSUME ~SameSecond PROVE Spec => []NoEventLost
  <1>1. LedgerInv => NoEventLost
    BY DEF LedgerInv
  <1> QED BY <1>1, LedgerIsInvariant, PTL

-----------------------------------------------------------------------------
(* The pipeline implements the ledger.                                     *)

SettledArrived == SettledEvents \subseteq arrived

\* A step lets one event arrive, settles one event that arrived, or does neither.
LEMMA OneEventAtATime ==
  ASSUME TypeOK, LedgerInv, [Next]_vars
  PROVE  \/ UNCHANGED <<arrived, SettledEvents>>
         \/ \E e \in Events \ arrived : arrived' = arrived \cup {e} /\ UNCHANGED SettledEvents
         \/ \E e \in arrived : SettledEvents' = SettledEvents \cup {e} /\ UNCHANGED arrived
  <1> DEFINE Goal == \/ UNCHANGED <<arrived, SettledEvents>>
                     \/ \E e \in Events \ arrived :
                          arrived' = arrived \cup {e} /\ UNCHANGED SettledEvents
                     \/ \E e \in arrived :
                          SettledEvents' = SettledEvents \cup {e} /\ UNCHANGED arrived
  <1>0. ASSUME UNCHANGED fateVars PROVE Goal
    BY <1>0 DEF fateVars, SettledEvents
  <1>1. CASE UNCHANGED vars
    BY <1>0, <1>1 DEF vars
  <1>2. ASSUME NEW e \in Events, Ingress(e) PROVE Goal
    BY <1>2 DEF Ingress, SettledEvents
  <1>3. CASE PolicyWrite
    BY <1>0, <1>3 DEF PolicyWrite, WriteSpec, CreatePolicy, 
       WriteStatus, DeletePolicy, Write
  <1>4. CASE Broker
    <2>1. ASSUME NEW s \in DOMAIN src, MaxDeliveriesReached(s) PROVE Goal
      <3>1. src[s].event \in arrived
        BY DEF LedgerInv, StreamInv
      <3> QED BY <2>1, <3>1 DEF MaxDeliveriesReached, BrokerKeeps, SettledEvents
    <2> QED BY <1>0, <1>4, <2>1 DEF Broker, SourceAckWaitExpires, DlqRedelivers, BackoffExpires,
            WindowPasses, BrokerKeeps, fateVars
  <1>5. ASSUME NEW r \in Replicas, PolicyHandler(r) PROVE Goal
    BY <1>0, <1>5 DEF PolicyHandler, OnPolicyAdd, OnPolicyDelete,
       OnPolicyUpdateUnresolved, OnPolicyUpdateRemove, OnPolicyUpdateAdd, HandlerKeeps
  <1>6. ASSUME NEW r \in Replicas, Ingest(r) PROVE Goal
    <2>1. ing[r] # Idle => ing[r].event \in arrived
      BY DEF LedgerInv, IngestInv, IngestClaim
    <2>2. CASE PublishActivity(r)
      BY <2>1, <2>2 DEF PublishActivity, Evaluating, StoreActivity, SettledEvents
    <2>3. CASE PublishActivityFails(r)
      BY <2>1, <2>3 DEF PublishActivityFails, Evaluating, StoreActivity, SettledEvents
    <2>4. CASE AckSource(r)
      BY <2>1, <2>4, SMTT(40) DEF AckSource, SettledEvents
    <2> QED BY <1>0, <1>6, <2>2, <2>3, <2>4 DEF Ingest, Fetch, EvaluateNoMatch, PublishFailure,
            PublishFailureFails, MarshalFailure
  <1>7. ASSUME NEW r \in Replicas, Retry(r) PROVE Goal
    BY <1>0, <1>7 DEF Retry, StartPeriodic, RegisterScan, StartScan, EndRun, Defer, Attempt,
       ReEvaluateDeadLetter, RepublishEvent, RepublishEventFails, UpdateAndRepublishMetadata,
       UpdateMetadataFails, AckDlq, RetryKeeps
  <1>8. ASSUME NEW r \in Replicas, Restart(r) PROVE Goal
    BY <1>0, <1>8 DEF Restart
  <1> QED BY <1>1, <1>2, <1>3, <1>4, <1>5, <1>6, <1>7, <1>8 DEF Next

\* With nothing lost, the fate of an event follows from whether it arrived and
\* whether it is settled.
LEMMA FateWithoutLoss ==
  ASSUME NoEventLost, NEW e
  PROVE  Fate(e) = IF e \notin arrived THEN "absent"
                   ELSE IF e \in SettledEvents THEN "settled" ELSE "owed"
  BY DEF NoEventLost, Fate

\* Under LedgerInv every step maps to a step of the ledger or to a stutter.
LEMMA LedgerMapping ==
  ASSUME TypeOK, LedgerInv, LedgerInv', SettledArrived, [Next]_vars
  PROVE  [Ledger!Next]_([e \in Events |-> Fate(e)])
  <1> DEFINE F == [e \in Events |-> Fate(e)]
             A(e) == IF e \notin arrived THEN "absent"
                     ELSE IF e \in SettledEvents THEN "settled" ELSE "owed"
             B(e) == IF e \notin arrived' THEN "absent"
                     ELSE IF e \in SettledEvents' THEN "settled" ELSE "owed"
  <1>1. F = [e \in Events |-> A(e)]
    BY FateWithoutLoss DEF LedgerInv
  <1>2. F' = [e \in Events |-> B(e)]
    <2>1. ASSUME NEW e \in Events PROVE Fate(e)' = B(e)
      BY DEF LedgerInv, NoEventLost, Fate
    <2> QED BY <2>1
  <1> SUFFICES Ledger!Next \/ F' = F
    OBVIOUS
  <1>3. CASE UNCHANGED <<arrived, SettledEvents>>
    BY <1>1, <1>2, <1>3
  <1>4. ASSUME NEW e \in Events \ arrived, arrived' = arrived \cup {e}, UNCHANGED SettledEvents
        PROVE  Ledger!Next
    <2>1. F[e] = "absent" /\ F' = [F EXCEPT ![e] = "owed"]
      BY <1>1, <1>2, <1>4 DEF SettledArrived
    <2>2. Ledger!Arrive(e)
      BY <2>1 DEF Ledger!Arrive
    <2> QED BY <2>2 DEF Ledger!Next
  <1>5. ASSUME NEW e \in arrived, SettledEvents' = SettledEvents \cup {e}, UNCHANGED arrived
        PROVE  Ledger!Next \/ F' = F
    <2>0. e \in Events
      BY DEF TypeOK, FateTypeOK
    <2>1. CASE e \in SettledEvents
      BY <1>1, <1>2, <1>5, <2>1
    <2>2. CASE e \notin SettledEvents
      <3>1. F[e] = "owed" /\ F' = [F EXCEPT ![e] = "settled"]
        BY <1>1, <1>2, <1>5, <2>0, <2>2
      <3>2. Ledger!Settle(e)
        BY <3>1 DEF Ledger!Settle
      <3> QED BY <2>0, <3>2 DEF Ledger!Next
    <2> QED BY <2>1, <2>2
  <1> QED BY <1>3, <1>4, <1>5, OneEventAtATime

\* The whole pipeline, with its broker, its faults and its restarts, implements
\* the ledger: an event is owed an answer from its arrival until it is settled,
\* once and for all.
THEOREM PipelineImplementsLedger == ASSUME ~SameSecond PROVE Spec => ImplementsLedger
  <1>1. Init => Ledger!Init
    <2> SUFFICES ASSUME Init PROVE Ledger!Init
      OBVIOUS
    <2>1. \A e \in Events : Fate(e) = "absent"
      BY DEF Init, Fate
    <2> QED BY <2>1 DEF Ledger!Init
  <1>2. Init => SettledArrived
    BY DEF Init, SettledArrived, SettledEvents
  <1>3. TypeOK /\ LedgerInv /\ SettledArrived /\ [Next]_vars => SettledArrived'
    BY OneEventAtATime DEF SettledArrived
  <1>4. TypeOK /\ LedgerInv /\ LedgerInv' /\ SettledArrived /\ [Next]_vars
          => [Ledger!Next]_([e \in Events |-> Fate(e)])
    BY LedgerMapping
  <1>5. Spec => []TypeOK /\ []LedgerInv
    BY TypeCorrect, LedgerIsInvariant
  <1> QED BY <1>1, <1>2, <1>3, <1>4, <1>5, PTL DEF Spec, ImplementsLedger, Ledger!Spec

-----------------------------------------------------------------------------
(* One line of retries per failure.                                        *)

\* Every copy on a source stream and every updated dead letter is the publish
\* that its duplicate window remembers, and there is one of each.
SourceLine ==
  /\ \A s \in DOMAIN src : src[s].id # 0 => src[s].id \in srcSeen
  /\ \A s, t \in DOMAIN src : src[s].id = src[t].id /\ src[s].id # 0 => s = t

DlqLine ==
  /\ \A d \in DOMAIN dlq : dlq[d].retry # 0 => <<dlq[d].stamp, dlq[d].retry>> \in dlqSeen
  /\ \A d, e \in DOMAIN dlq :
       dlq[d].stamp = dlq[e].stamp /\ dlq[d].retry = dlq[e].retry => d = e

\* Messages that are delivered, hidden, requeued or dropped stay in line.
LEMMA SourceLineKept ==
  ASSUME SourceLine, srcSeen \subseteq srcSeen', DOMAIN src' \subseteq DOMAIN src,
         \A s \in DOMAIN src' : src'[s].id = src[s].id
  PROVE  SourceLine'
  BY DEF SourceLine

LEMMA DlqLineKept ==
  ASSUME DlqLine, dlqSeen \subseteq dlqSeen', DOMAIN dlq' \subseteq DOMAIN dlq,
         \A d \in DOMAIN dlq' : dlq'[d].stamp = dlq[d].stamp /\ dlq'[d].retry = dlq[d].retry
  PROVE  DlqLine'
  BY DEF DlqLine

\* A publish that no window remembers starts a line or carries it on.
LEMMA SourceLinePut ==
  ASSUME SourceTypeOK, SourceLine, NEW m, src' = Put(src, nextSrc, m),
         \/ m.id = 0 /\ srcSeen' = srcSeen
         \/ m.id \notin srcSeen /\ srcSeen' = srcSeen \cup {m.id}
  PROVE  SourceLine'
  <1>1. /\ DOMAIN src' = DOMAIN src \cup {nextSrc}
        /\ \A s \in DOMAIN src' : src'[s] = IF s = nextSrc THEN m ELSE src[s]
    BY DEF Put
  <1>2. \A s \in DOMAIN src' : s # nextSrc => s \in DOMAIN src /\ src'[s] = src[s]
    BY <1>1
  <1>3. src'[nextSrc] = m /\ nextSrc \in DOMAIN src'
    BY <1>1
  <1>4. \A s \in DOMAIN src' : s # nextSrc /\ src'[s].id # 0 => src'[s].id # m.id
    BY <1>2 DEF SourceLine
  <1>5. \A s \in DOMAIN src' : src'[s].id # 0 => src'[s].id \in srcSeen'
    BY <1>2, <1>3 DEF SourceLine
  <1>6. ASSUME NEW s \in DOMAIN src', NEW t \in DOMAIN src', src'[s].id = src'[t].id,
               src'[s].id # 0
        PROVE  s = t
    BY <1>2, <1>3, <1>4, <1>6 DEF SourceLine
  <1> QED BY <1>5, <1>6 DEF SourceLine

LEMMA DlqLinePut ==
  ASSUME DlqLine, NEW q, NEW m, DOMAIN q \subseteq DOMAIN dlq,
         \A d \in DOMAIN q : q[d].stamp = dlq[d].stamp /\ q[d].retry = dlq[d].retry,
         dlq' = Put(q, nextDlq, m),
         \/ /\ m.retry = 0 /\ dlqSeen' = dlqSeen
            /\ \A d \in DOMAIN dlq : dlq[d].stamp # m.stamp
         \/ /\ m.retry # 0 /\ <<m.stamp, m.retry>> \notin dlqSeen
            /\ dlqSeen' = dlqSeen \cup {<<m.stamp, m.retry>>}
  PROVE  DlqLine'
  <1>1. /\ DOMAIN dlq' = DOMAIN q \cup {nextDlq}
        /\ \A d \in DOMAIN dlq' : dlq'[d] = IF d = nextDlq THEN m ELSE q[d]
    BY DEF Put
  <1>2. \A d \in DOMAIN dlq' : d # nextDlq =>
          d \in DOMAIN dlq /\ dlq'[d].stamp = dlq[d].stamp /\ dlq'[d].retry = dlq[d].retry
    BY <1>1
  <1>3. dlq'[nextDlq] = m /\ nextDlq \in DOMAIN dlq'
    BY <1>1
  <1>4. \A d \in DOMAIN dlq' : d # nextDlq => ~(dlq'[d].stamp = m.stamp /\ dlq'[d].retry = m.retry)
    BY <1>2 DEF DlqLine
  <1>5. \A d \in DOMAIN dlq' : dlq'[d].retry # 0 => <<dlq'[d].stamp, dlq'[d].retry>> \in dlqSeen'
    <2> TAKE d \in DOMAIN dlq'
    <2>1. CASE d = nextDlq
      BY <1>3, <2>1
    <2>2. CASE d # nextDlq
      BY <1>2, <2>2 DEF DlqLine
    <2> QED BY <2>1, <2>2
  <1>6. ASSUME NEW d \in DOMAIN dlq', NEW e \in DOMAIN dlq',
               dlq'[d].stamp = dlq'[e].stamp, dlq'[d].retry = dlq'[e].retry
        PROVE  d = e
    BY <1>2, <1>3, <1>4, <1>6 DEF DlqLine
  <1> QED BY <1>5, <1>6 DEF DlqLine

\* The broker's own steps, and NakSource and Drop, on one message.
LEMMA SourceLineSame ==
  ASSUME SourceTypeOK, SourceLine, UNCHANGED srcSeen, NEW s, NEW v,
         \/ src' = src
         \/ src' = Drop(src, s)
         \/ s \in DOMAIN src /\ src' = [src EXCEPT ![s].state = v]
  PROVE  SourceLine'
  <1>1. CASE src' = src
    BY <1>1 DEF SourceLine
  <1>2. CASE src' = Drop(src, s)
    <2>1. DOMAIN src' = DOMAIN src \ {s} /\ \A x \in DOMAIN src \ {s} : src'[x] = src[x]
      BY <1>2, DropProperties
    <2> QED BY <2>1, SourceLineKept
  <1>3. CASE s \in DOMAIN src /\ src' = [src EXCEPT ![s].state = v]
    <2>1. DOMAIN src' = DOMAIN src /\ \A x \in DOMAIN src : src'[x].id = src[x].id
      BY <1>3 DEF SourceTypeOK, SourceMsg
    <2> QED BY <2>1, SourceLineKept
  <1> QED BY <1>1, <1>2, <1>3

LEMMA DlqLineSame ==
  ASSUME DlqTypeOK, DlqLine, UNCHANGED dlqSeen, NEW d, NEW v,
         \/ dlq' = dlq
         \/ dlq' = Drop(dlq, d)
         \/ d \in DOMAIN dlq /\ dlq' = [dlq EXCEPT ![d].state = v]
         \/ d \in DOMAIN dlq /\ dlq' = [dlq EXCEPT ![d].due = v]
  PROVE  DlqLine'
  <1>1. CASE dlq' = dlq
    BY <1>1 DEF DlqLine
  <1>2. CASE dlq' = Drop(dlq, d)
    <2>1. DOMAIN dlq' = DOMAIN dlq \ {d} /\ \A x \in DOMAIN dlq \ {d} : dlq'[x] = dlq[x]
      BY <1>2, DropProperties
    <2> QED BY <2>1, DlqLineKept
  <1>3. CASE d \in DOMAIN dlq /\ dlq' = [dlq EXCEPT ![d].state = v]
    <2>1. DOMAIN dlq' = DOMAIN dlq
          /\ \A x \in DOMAIN dlq : dlq'[x].stamp = dlq[x].stamp /\ dlq'[x].retry = dlq[x].retry
      BY <1>3 DEF DlqTypeOK, DeadLetterEvent
    <2> QED BY <2>1, DlqLineKept
  <1>4. CASE d \in DOMAIN dlq /\ dlq' = [dlq EXCEPT ![d].due = v]
    <2>1. DOMAIN dlq' = DOMAIN dlq
          /\ \A x \in DOMAIN dlq : dlq'[x].stamp = dlq[x].stamp /\ dlq'[x].retry = dlq[x].retry
      BY <1>4 DEF DlqTypeOK, DeadLetterEvent
    <2> QED BY <2>1, DlqLineKept
  <1> QED BY <1>1, <1>2, <1>3, <1>4

\* A new failure has a Timestamp that no dead letter has.
LEMMA StoreDeadLetterInLine ==
  ASSUME ~SameSecond, TypeOK, DlqLine, NEW r \in Replicas, NEW t \in Nat,
         StoreDeadLetter(r, t), UNCHANGED dlqSeen
  PROVE  DlqLine'
  <1> DEFINE m == [event |-> ing[r].event, policy |-> Head(ing[r].todo).name,
                   version |-> IF ing[r].event \in AuditEvents THEN Head(ing[r].todo).gen ELSE 0,
                   retry |-> 0, stamp |-> t, due |-> TRUE, state |-> "queued"]
  <1>1. dlq' = Put(dlq, nextDlq, m) /\ t = Len(failures) + 1
    BY DEF StoreDeadLetter, TimestampsFor
  <1>2. \A d \in DOMAIN dlq : dlq[d].stamp # t
    BY <1>1 DEF TypeOK, DlqTypeOK
  <1>3. m.retry = 0 /\ m.stamp = t
    OBVIOUS
  <1> HIDE DEF m
  <1> QED BY <1>1, <1>2, <1>3, DlqLinePut

LEMMA RepublishInLine ==
  ASSUME TypeOK, SourceLine, NEW entry, StoreRepublished(entry)
  PROVE  SourceLine'
  <1>1. CASE entry.stamp \in srcSeen
    BY <1>1 DEF StoreRepublished, sourceVars, SourceLine
  <1>2. CASE entry.stamp \notin srcSeen
    <2> DEFINE m == [event |-> entry.event, id |-> entry.stamp, deliveries |-> 0, state |-> "queued"]
    <2>1. src' = Put(src, nextSrc, m) /\ srcSeen' = srcSeen \cup {m.id} /\ m.id \notin srcSeen
      BY <1>2 DEF StoreRepublished
    <2> HIDE DEF m
    <2> QED BY <2>1, SourceLinePut DEF TypeOK
  <1> QED BY <1>1, <1>2

\* What updateAndRepublishMetadata stores, after q has become the stream.
LEMMA MetadataInLine ==
  ASSUME TypeOK, DlqLine, NEW r \in Replicas, cur[r] # Idle, NEW q,
         DOMAIN q \subseteq DOMAIN dlq,
         \A d \in DOMAIN q : q[d].stamp = dlq[d].stamp /\ q[d].retry = dlq[d].retry,
         UpdateId(cur[r].entry) \notin dlqSeen,
         dlq' = Put(q, nextDlq, [cur[r].entry EXCEPT !.retry = @ + 1, !.due = FALSE,
                                                     !.state = "queued"]),
         dlqSeen' = dlqSeen \cup {UpdateId(cur[r].entry)}
  PROVE  DlqLine'
  <1> DEFINE m == [cur[r].entry EXCEPT !.retry = @ + 1, !.due = FALSE, !.state = "queued"]
  <1>1. cur[r].entry \in DeadLetterEvent
    BY RetryWorkType DEF RetryWork
  <1>2. m.stamp = cur[r].entry.stamp /\ m.retry = cur[r].entry.retry + 1 /\ m.retry # 0
    BY <1>1 DEF DeadLetterEvent
  <1>3. UpdateId(cur[r].entry) = <<m.stamp, m.retry>>
    BY <1>2 DEF UpdateId
  <1>4. dlq' = Put(q, nextDlq, m)
    OBVIOUS
  <1> HIDE DEF m
  <1> QED BY <1>2, <1>3, <1>4, DlqLinePut

-----------------------------------------------------------------------------

LEMMA InLineIngest ==
  ASSUME ~SameSecond, TypeOK, SourceLine, DlqLine, NEW r \in Replicas, Ingest(r)
  PROVE  SourceLine' /\ DlqLine'
  <1>0. SourceTypeOK /\ DlqTypeOK
    BY DEF TypeOK
  <1>n. NakSource(r) /\ UNCHANGED srcSeen => SourceLine'
    BY <1>0, SourceLineSame DEF NakSource
  <1>1. ASSUME NEW s \in DOMAIN src, Fetch(r, s) PROVE SourceLine' /\ DlqLine'
    <2>1. DOMAIN src' = DOMAIN src /\ \A x \in DOMAIN src : src'[x].id = src[x].id
      BY <1>0, <1>1 DEF Fetch, SourceTypeOK, SourceMsg
    <2>2. UNCHANGED <<srcSeen, dlq, dlqSeen>>
      BY <1>1 DEF Fetch, dlqVars
    <2> QED BY <2>1, <2>2, SourceLineKept, <1>0, DlqLineSame
  <1>2. CASE EvaluateNoMatch(r) \/ PublishActivity(r)
    BY <1>2 DEF EvaluateNoMatch, PublishActivity, sourceVars, dlqVars, SourceLine, DlqLine
  <1>3. CASE PublishActivityFails(r)
    <2>1. NakSource(r) /\ UNCHANGED <<srcSeen, dlq, dlqSeen>>
      BY <1>3 DEF PublishActivityFails, dlqVars
    <2> QED BY <2>1, <1>0, <1>n, DlqLineSame
  <1>4. CASE PublishFailure(r)
    <2>1. UNCHANGED <<src, srcSeen, dlqSeen>>
      BY <1>4 DEF PublishFailure, sourceVars
    <2>2. PICK t \in 1..MaxFailures : StoreDeadLetter(r, t)
      BY <1>4 DEF PublishFailure
    <2>3. DlqLine'
      BY <2>1, <2>2, StoreDeadLetterInLine
    <2> QED BY <2>1, <2>3 DEF SourceLine
  <1>5. CASE PublishFailureFails(r)
    <2>1. NakSource(r) /\ UNCHANGED <<srcSeen, dlqSeen>>
      BY <1>5 DEF PublishFailureFails
    <2>2. \/ \E t \in 1..MaxFailures : StoreDeadLetter(r, t)
          \/ UNCHANGED dlq
      BY <1>5 DEF PublishFailureFails
    <2>3. ASSUME NEW t \in 1..MaxFailures, StoreDeadLetter(r, t) PROVE DlqLine'
      BY <2>1, <2>3, StoreDeadLetterInLine
    <2> QED BY <2>1, <2>2, <2>3, <1>0, <1>n, DlqLineSame
  <1>6. CASE MarshalFailure(r)
    <2>1. NakSource(r) /\ UNCHANGED <<srcSeen, dlq, dlqSeen>>
      BY <1>6 DEF MarshalFailure, dlqVars
    <2> QED BY <2>1, <1>0, <1>n, DlqLineSame
  <1>7. CASE AckSource(r)
    <2>1. src' = Drop(src, ing[r].seq) \/ src' = src
      BY <1>7 DEF AckSource
    <2>2. UNCHANGED <<srcSeen, dlq, dlqSeen>>
      BY <1>7 DEF AckSource, dlqVars
    <2> QED BY <2>1, <2>2, <1>0, SourceLineSame, DlqLineSame
  <1> QED BY <1>1, <1>2, <1>3, <1>4, <1>5, <1>6, <1>7 DEF Ingest

LEMMA InLineRetry ==
  ASSUME TypeOK, SourceLine, DlqLine, NEW r \in Replicas, Retry(r)
  PROVE  SourceLine' /\ DlqLine'
  <1>0. SourceTypeOK /\ DlqTypeOK
    BY DEF TypeOK
  <1>1. CASE StartPeriodic(r) \/ RegisterScan(r) \/ StartScan(r) \/ EndRun(r)
    BY <1>1 DEF StartPeriodic, RegisterScan, StartScan, EndRun, sourceVars, SourceLine, DlqLine
  <1>2. ASSUME NEW d \in DOMAIN dlq, Defer(r, d) \/ Attempt(r, d) PROVE SourceLine' /\ DlqLine'
    <2>1. dlq' = [dlq EXCEPT ![d].state = "hidden"] /\ UNCHANGED <<src, srcSeen, dlqSeen>>
      BY <1>2 DEF Defer, Attempt, NextMessage, sourceVars
    <2> QED BY <2>1, <1>0, SourceLineSame, DlqLineSame
  <1>3. CASE ReEvaluateDeadLetter(r)
    BY <1>3 DEF ReEvaluateDeadLetter, sourceVars, SourceLine, DlqLine
  <1>4. CASE RepublishEvent(r) \/ RepublishEventFails(r)
    <2>1. UNCHANGED <<dlq, dlqSeen>>
      BY <1>4 DEF RepublishEvent, RepublishEventFails
    <2>2. StoreRepublished(cur[r].entry) \/ UNCHANGED <<src, srcSeen>>
      BY <1>4 DEF RepublishEvent, RepublishEventFails, sourceVars
    <2> QED BY <2>1, <2>2, <1>0, RepublishInLine, SourceLineSame, DlqLineSame
  <1>5. CASE UpdateAndRepublishMetadata(r)
    <2>1. UNCHANGED <<src, srcSeen>> /\ cur[r] # Idle /\ StoreMetadata(cur[r].entry)
      BY <1>5 DEF UpdateAndRepublishMetadata, sourceVars
    <2>2. CASE UpdateId(cur[r].entry) \in dlqSeen
      BY <2>1, <2>2, <1>0, SourceLineSame, DlqLineSame DEF StoreMetadata
    <2>3. CASE UpdateId(cur[r].entry) \notin dlqSeen
      <3>1. DlqLine'
        <4>1. /\ dlq' = Put(dlq, nextDlq, [cur[r].entry EXCEPT !.retry = @ + 1, !.due = FALSE,
                                                                 !.state = "queued"])
              /\ dlqSeen' = dlqSeen \cup {UpdateId(cur[r].entry)}
          BY <2>1, <2>3 DEF StoreMetadata
        <4>2. \A d \in DOMAIN dlq : dlq[d].stamp = dlq[d].stamp /\ dlq[d].retry = dlq[d].retry
          OBVIOUS
        <4> QED BY <2>1, <2>3, <4>1, <4>2, MetadataInLine, Zenon
      <3> QED BY <2>1, <3>1, <1>0, SourceLineSame
    <2> QED BY <2>2, <2>3
  <1>6. CASE UpdateMetadataFails(r)
    <2> DEFINE seq == cur[r].seq
               q == IF seq \in DOMAIN dlq THEN [dlq EXCEPT ![seq].state = "queued"] ELSE dlq
    <2>1. UNCHANGED <<src, srcSeen>> /\ cur[r] # Idle
      BY <1>6 DEF UpdateMetadataFails, sourceVars
    <2>2. DOMAIN q = DOMAIN dlq
          /\ \A d \in DOMAIN q : q[d].stamp = dlq[d].stamp /\ q[d].retry = dlq[d].retry
      BY <1>0 DEF DlqTypeOK, DeadLetterEvent
    <2>3. \/ dlq' = q /\ UNCHANGED dlqSeen
          \/ /\ UpdateId(cur[r].entry) \notin dlqSeen
             /\ dlq' = Put(q, nextDlq, [cur[r].entry EXCEPT !.retry = @ + 1, !.due = FALSE,
                                                            !.state = "queued"])
             /\ dlqSeen' = dlqSeen \cup {UpdateId(cur[r].entry)}
      BY <1>6 DEF UpdateMetadataFails
    <2> HIDE DEF q
    <2>4. ASSUME dlq' = q /\ UNCHANGED dlqSeen PROVE DlqLine'
      BY <2>2, <2>4, DlqLineKept
    <2>5. ASSUME UpdateId(cur[r].entry) \notin dlqSeen,
                 dlq' = Put(q, nextDlq, [cur[r].entry EXCEPT !.retry = @ + 1, !.due = FALSE,
                                                             !.state = "queued"]),
                 dlqSeen' = dlqSeen \cup {UpdateId(cur[r].entry)}
          PROVE  DlqLine'
      <3>1. DOMAIN q \subseteq DOMAIN dlq
        BY <2>2
      <3> QED BY <2>1, <2>2, <2>5, <3>1, MetadataInLine, Zenon
    <2>6. DlqLine'
      BY <2>3, <2>4, <2>5
    <2> QED BY <2>1, <2>6, <1>0, SourceLineSame
  <1>7. CASE AckDlq(r)
    <2>1. (dlq' = Drop(dlq, cur[r].seq) \/ dlq' = dlq) /\ UNCHANGED <<src, srcSeen, dlqSeen>>
      BY <1>7 DEF AckDlq, sourceVars
    <2> QED BY <2>1, <1>0, SourceLineSame, DlqLineSame
  <1> QED BY <1>1, <1>2, <1>3, <1>4, <1>5, <1>6, <1>7 DEF Retry

LEMMA InLineStep ==
  ASSUME ~SameSecond, TypeOK, SourceLine, DlqLine, [Next]_vars, [~WindowPasses]_vars
  PROVE  SourceLine' /\ DlqLine'
  <1>0. SourceTypeOK /\ DlqTypeOK
    BY DEF TypeOK
  <1>1. CASE UNCHANGED <<src, srcSeen, dlq, dlqSeen>>
    BY <1>1 DEF SourceLine, DlqLine
  <1>2. ASSUME NEW e \in Events, Ingress(e) PROVE SourceLine' /\ DlqLine'
    <2> DEFINE m == [event |-> e, id |-> 0, deliveries |-> 0, state |-> "queued"]
    <2>1. src' = Put(src, nextSrc, m) /\ m.id = 0 /\ UNCHANGED <<srcSeen, dlq, dlqSeen>>
      BY <1>2 DEF Ingress, dlqVars
    <2> HIDE DEF m
    <2> QED BY <2>1, <1>0, SourceLinePut, DlqLineSame
  <1>3. CASE PolicyWrite
    <2>1. UNCHANGED <<sourceVars, dlqVars>>
      BY <1>3, Zenon DEF PolicyWrite, WriteSpec, CreatePolicy, WriteStatus, DeletePolicy, Write
    <2> QED BY <1>1, <2>1 DEF sourceVars, dlqVars
  <1>4. ASSUME NEW s \in DOMAIN src, SourceAckWaitExpires(s) \/ MaxDeliveriesReached(s)
        PROVE  SourceLine' /\ DlqLine'
    <2>1. /\ src' = Drop(src, s) \/ src' = [src EXCEPT ![s].state = "queued"]
          /\ UNCHANGED <<srcSeen, dlq, dlqSeen>>
      BY <1>4 DEF SourceAckWaitExpires, MaxDeliveriesReached
    <2> QED BY <2>1, <1>0, SourceLineSame, DlqLineSame
  <1>5. ASSUME NEW d \in DOMAIN dlq, DlqRedelivers(d) \/ BackoffExpires(d)
        PROVE  SourceLine' /\ DlqLine'
    <2>1. /\ \/ dlq' = [dlq EXCEPT ![d].state = "queued"]
             \/ dlq' = [dlq EXCEPT ![d].due = TRUE]
          /\ UNCHANGED <<src, srcSeen, dlqSeen>>
      BY <1>5 DEF DlqRedelivers, BackoffExpires
    <2> QED BY <2>1, <1>0, SourceLineSame, DlqLineSame
  <1>6. CASE WindowPasses
    BY <1>1, <1>6 DEF vars, sourceVars, dlqVars
  <1>7. ASSUME NEW r \in Replicas, PolicyHandler(r) \/ Restart(r) PROVE SourceLine' /\ DlqLine'
    BY <1>1, <1>7 DEF PolicyHandler, OnPolicyAdd, OnPolicyDelete, OnPolicyUpdateUnresolved,
                      OnPolicyUpdateRemove, OnPolicyUpdateAdd, HandlerKeeps, Restart,
                      sourceVars, dlqVars
  <1>8. CASE UNCHANGED vars
    BY <1>1, <1>8 DEF vars, sourceVars, dlqVars
  <1> QED BY <1>2, <1>3, <1>4, <1>5, <1>6, <1>7, <1>8, InLineIngest, InLineRetry
          DEF Next, Broker

\* As long as no message id leaves the duplicate window of its stream, a failure
\* has one line of retries: for any number of replicas, restarts, failed calls
\* and lost acks, republishEvent and updateAndRepublishMetadata store no copy
\* and no RetryCount of it twice.
THEOREM RetriesNeverFork ==
  ASSUME ~SameSecond
  PROVE  Spec /\ [][~WindowPasses]_vars => []NoForkedRetries
  <1>1. Init => SourceLine /\ DlqLine
    BY DEF Init, SourceLine, DlqLine
  <1>2. TypeOK /\ SourceLine /\ DlqLine /\ [Next]_vars /\ [~WindowPasses]_vars
          => SourceLine' /\ DlqLine'
    BY InLineStep
  <1>3. SourceLine /\ DlqLine => NoForkedRetries
    BY DEF SourceLine, DlqLine, NoForkedRetries
  <1>4. Spec => []TypeOK
    BY TypeCorrect
  <1> QED BY <1>1, <1>2, <1>3, <1>4, PTL DEF Spec

=============================================================================
