----------------------------- MODULE DeadLetter -----------------------------
(***************************************************************************)
(* The activity processor's failure path: ingest of audit and Kubernetes   *)
(* events, the dead-letter stream, and the retry controller that feeds     *)
(* dead letters back to ingest (internal/activityprocessor/processor.go,   *)
(* dlq_retry.go, policycache.go; internal/processor/dlq.go, event.go).     *)
(*                                                                         *)
(* All policies target one resource type, so one list of compiled policies *)
(* per replica stands for the policy cache.  A policy's rules are          *)
(* abstracted to their verdict on each event.  JetStream is external: a    *)
(* message stays on its stream until it is acknowledged, is redelivered    *)
(* after a NAK or an expired ack wait, and a publish whose message id is   *)
(* in the duplicate window is accepted and dropped.                        *)
(***************************************************************************)
EXTENDS Naturals, Sequences, FiniteSets

CONSTANTS
  AuditEvents,   \* events on AUDIT_EVENTS
  K8sEvents,     \* events on EVENTS
  Undecodable,   \* valid JSON that does not decode into an event
  Malformed,     \* payloads that are not JSON at all
  Policies,      \* ActivityPolicy names
  NoPolicy,      \* the empty PolicyName of an undecodable event's dead letter
  Replicas,      \* processor pods sharing the durable consumers
  MaxDeliver,    \* maxDeliver of the audit consumer
  SameSecond,    \* whether an event can fail twice within one second
  MaxWrites,     \* bound: policy writes at the API server
  MaxFailures,   \* bound: first-time dead letters
  MaxRetry,      \* bound: RetryCount
  MaxFaults,     \* bound: failed calls, lost acks, lapsed message ids
  MaxCrashes     \* bound: replica restarts

ASSUME EventsAssumption ==
  /\ AuditEvents \cap K8sEvents = {}
  /\ Undecodable \cup Malformed \subseteq AuditEvents \cup K8sEvents

ASSUME PolicyAssumption == IsFiniteSet(Policies) /\ NoPolicy \notin Policies

ASSUME SecondAssumption == SameSecond \in BOOLEAN

ASSUME BoundsAssumption ==
  /\ MaxDeliver \in Nat \ {0}
  /\ MaxWrites \in Nat /\ MaxFailures \in Nat /\ MaxRetry \in Nat
  /\ MaxFaults \in Nat /\ MaxCrashes \in Nat

VARIABLES
  api,         \* the ActivityPolicy objects: generation, Ready condition, verdicts
  inbox,       \* informer notifications a replica has not handled yet
  removed,     \* TRUE between the two halves of onPolicyUpdate
  cache,       \* the replica's compiled policies, in evaluation order
  src,         \* the source streams: sequence number -> message
  nextSrc,     \* next sequence number of src
  srcSeen,     \* republish ids inside the source streams' duplicate window
  dlq,         \* the dead-letter stream: sequence number -> dead letter
  nextDlq,     \* next sequence number of dlq
  dlqSeen,     \* metadata-update ids inside the dead-letter duplicate window
  failures,    \* event and policy of the first-time dead letters, by Timestamp
  arrived,     \* events the producers have published
  activities,  \* events with an activity on the output stream
  skipped,     \* events acknowledged with no policy matching them
  exhausted,   \* events dropped after MaxDeliver deliveries
  ing,         \* per replica: the ingest worker's message, or Idle
  run,         \* per replica: the retry run that holds the mutex
  scans,       \* per replica: RetryForPolicy calls that have not returned
  cur,         \* per replica: the dead letter under retry, or Idle
  writes, faults, crashes   \* how much of each bound is used

policyVars == <<api, inbox, removed, cache>>
sourceVars == <<src, nextSrc, srcSeen>>
dlqVars    == <<dlq, nextDlq, dlqSeen, failures>>
fateVars   == <<arrived, activities, skipped, exhausted>>
retryVars  == <<run, scans, cur>>
boundVars  == <<writes, faults, crashes>>
vars == <<policyVars, sourceVars, dlqVars, fateVars, ing, retryVars, boundVars>>

-----------------------------------------------------------------------------
Events   == AuditEvents \cup K8sEvents
Verdicts == [Events -> {"match", "nomatch", "error"}]

\* An ActivityPolicy object; generation 0 stands for "no such object".  A rule
\* that does not compile is skipped, so it shows in the verdicts only.
PolicyObject == [gen : Nat, ready : BOOLEAN, verdict : Verdicts]
Notification == [op : {"add", "update", "delete"}, name : Policies,
                 wasReady : BOOLEAN, obj : PolicyObject]
CompiledPolicy == [name : Policies \cup {NoPolicy}, gen : Nat, verdict : Verdicts]

SourceMsg == [event : Events, id : Nat, deliveries : Nat,
              state : {"queued", "hidden"}]

\* Timestamp is the position in failures; due says NextRetryAfter is unset or past.
\* A message is hidden from the next fetch while a delivery of it is
\* unacknowledged or a NAK delay runs.
DeadLetterEvent == [event : Events, policy : Policies \cup {NoPolicy},
                    version : Nat, retry : Nat, stamp : Nat, due : BOOLEAN,
                    state : {"queued", "hidden"}]

\* With its position, what identifies a failure in message ids.
Failure == [event : Events, policy : Policies \cup {NoPolicy}]

Idle == [seq |-> 0]
IngestWork == [seq : Nat, event : Events, id : Nat, todo : Seq(CompiledPolicy),
               outcome : {"none", "failed", "published"}, stamp : Nat]
RetryPhase == {"evaluate", "republish", "requeue",
               "ackRepublished", "ackRequeued"}
RetryWork == [seq : Nat, entry : DeadLetterEvent, phase : RetryPhase]

\* A RetryForPolicy call; active once it is registered in activeRetries.
Scan == [policy : Policies, gen : Nat, active : BOOLEAN]
NoRun    == [kind |-> "none"]
Periodic == [kind |-> "periodic"]
ScanRun(c) == [kind |-> "scan", scan |-> c]

Put(f, k, v) == [x \in DOMAIN f \cup {k} |-> IF x = k THEN v ELSE f[x]]
Drop(f, k)   == [x \in DOMAIN f \ {k} |-> f[x]]

-----------------------------------------------------------------------------
(* The policy cache's list for the resource.                               *)

Named(q, p) == {i \in DOMAIN q : q[i].name = p}

First(I) == CHOOSE i \in I : \A j \in I : i <= j

\* removeLocked: swap the first entry of that name with the last and truncate.
RemoveByName(q, p) ==
  IF Named(q, p) = {} THEN q
  ELSE SubSeq([q EXCEPT ![First(Named(q, p))] = q[Len(q)]], 1, Len(q) - 1)

Compile(p, obj) == [name |-> p, gen |-> obj.gen, verdict |-> obj.verdict]

Generation(q, p) ==
  IF Named(q, p) = {} THEN 0 ELSE q[First(Named(q, p))].gen

\* reEvaluateDeadLetter: every policy is evaluated, the first error decides.
Resolved(q, e) ==
  /\ e \notin Undecodable \cup Malformed
  /\ \A i \in DOMAIN q : q[i].verdict[e] # "error"

-----------------------------------------------------------------------------
Init ==
  /\ \E v \in [Policies -> Verdicts] :
       api = [p \in Policies |->
                [gen |-> 1, ready |-> TRUE, verdict |-> v[p]]]
  /\ inbox = [r \in Replicas |-> <<>>]
  /\ removed = [r \in Replicas |-> FALSE]
  /\ cache \in [Replicas -> {q \in [1..Cardinality(Policies) ->
                                     {Compile(p, api[p]) : p \in Policies}] :
                             \A p \in Policies : Named(q, p) # {}}]
  /\ src = <<>> /\ nextSrc = 1 /\ srcSeen = {}
  /\ dlq = <<>> /\ nextDlq = 1 /\ dlqSeen = {}
  /\ failures = <<>>
  /\ arrived = {} /\ activities = {} /\ skipped = {} /\ exhausted = {}
  /\ ing = [r \in Replicas |-> Idle]
  /\ run = [r \in Replicas |-> NoRun]
  /\ scans = [r \in Replicas |-> {}]
  /\ cur = [r \in Replicas |-> Idle]
  /\ writes = 0 /\ faults = 0 /\ crashes = 0

-----------------------------------------------------------------------------
(* The API server and its users.  A write notifies every replica.          *)

Write(p, op, obj) ==
  /\ writes < MaxWrites
  /\ writes' = writes + 1
  /\ api' = [api EXCEPT ![p] = obj]
  /\ inbox' = [r \in Replicas |->
                 Append(inbox[r], [op |-> op, name |-> p,
                                   wasReady |-> api[p].ready, obj |-> obj])]
  /\ UNCHANGED <<removed, cache, sourceVars, dlqVars, fateVars, ing, retryVars,
                 faults, crashes>>

\* A spec change bumps the generation; Ready keeps its value until the
\* controller has looked at the new spec.
WriteSpec(p, v) ==
  /\ api[p].gen > 0
  /\ Write(p, "update", [api[p] EXCEPT !.gen = @ + 1, !.verdict = v])

\* The controller's verdict on the spec; the generation stays.
WriteStatus(p) ==
  /\ api[p].gen > 0
  /\ Write(p, "update", [api[p] EXCEPT !.ready = ~@])

DeletePolicy(p) ==
  /\ api[p].gen > 0
  /\ Write(p, "delete", [api[p] EXCEPT !.gen = 0, !.ready = FALSE])

\* A recreated policy starts at generation 1 again.
CreatePolicy(p, v) ==
  /\ api[p].gen = 0
  /\ Write(p, "add", [gen |-> 1, ready |-> FALSE, verdict |-> v])

-----------------------------------------------------------------------------
(* The informer's handlers, one notification at a time per replica.  The   *)
(* resource of a policy is looked up through API discovery, which can fail.*)

\* One more failed call, lost ack or lapsed message id.
Fault == faults < MaxFaults /\ faults' = faults + 1

NoFault == UNCHANGED faults

HandlerKeeps == UNCHANGED <<api, sourceVars, dlqVars, fateVars, ing, run, cur,
                            writes, crashes>>

\* policyCache.Add: a policy is added whether or not its rules compile.
Added(q, n) == Append(q, Compile(n.name, n.obj))

OnPolicyAdd(r) ==
  /\ inbox[r] # <<>> /\ Head(inbox[r]).op = "add"
  /\ LET n == Head(inbox[r])
     IN  \/ /\ n.obj.ready /\ NoFault
            /\ cache' = [cache EXCEPT ![r] = Added(@, n)]
         \/ /\ n.obj.ready /\ Fault
            /\ cache' = cache
         \/ /\ ~n.obj.ready /\ NoFault
            /\ cache' = cache
  /\ inbox' = [inbox EXCEPT ![r] = Tail(@)]
  /\ UNCHANGED <<removed, scans>> /\ HandlerKeeps

\* onPolicyUpdate gives up before it changes anything if it cannot resolve
\* the resource of a Ready policy.
OnPolicyUpdateUnresolved(r) ==
  /\ inbox[r] # <<>> /\ Head(inbox[r]).op = "update"
  /\ Head(inbox[r]).obj.ready /\ ~removed[r]
  /\ Fault
  /\ inbox' = [inbox EXCEPT ![r] = Tail(@)]
  /\ UNCHANGED <<cache, removed, scans>> /\ HandlerKeeps

\* First half of onPolicyUpdate: policyCache.Remove(oldPolicy), left out when
\* the old resource cannot be resolved.
OnPolicyUpdateRemove(r) ==
  /\ inbox[r] # <<>> /\ Head(inbox[r]).op = "update"
  /\ Head(inbox[r]).wasReady /\ ~removed[r]
  /\ \/ cache' = [cache EXCEPT ![r] = RemoveByName(@, Head(inbox[r]).name)] /\ NoFault
     \/ cache' = cache /\ Fault
  /\ removed' = [removed EXCEPT ![r] = TRUE]
  /\ UNCHANGED <<inbox, scans>> /\ HandlerKeeps

\* Second half: policyCache.Add(newPolicy) if it is Ready, and a goroutine to
\* run RetryForPolicy.
OnPolicyUpdateAdd(r) ==
  /\ inbox[r] # <<>> /\ Head(inbox[r]).op = "update"
  /\ Head(inbox[r]).wasReady => removed[r]
  /\ LET n == Head(inbox[r])
     IN  IF n.obj.ready
         THEN /\ cache' = [cache EXCEPT ![r] = Added(@, n)]
              /\ scans' = [scans EXCEPT ![r] =
                             @ \cup {[policy |-> n.name, gen |-> n.obj.gen,
                                      active |-> FALSE]}]
         ELSE UNCHANGED <<cache, scans>>
  /\ inbox' = [inbox EXCEPT ![r] = Tail(@)]
  /\ removed' = [removed EXCEPT ![r] = FALSE]
  /\ NoFault /\ HandlerKeeps

OnPolicyDelete(r) ==
  /\ inbox[r] # <<>> /\ Head(inbox[r]).op = "delete"
  /\ \/ cache' = [cache EXCEPT ![r] = RemoveByName(@, Head(inbox[r]).name)] /\ NoFault
     \/ cache' = cache /\ Fault
  /\ inbox' = [inbox EXCEPT ![r] = Tail(@)]
  /\ UNCHANGED <<removed, scans>> /\ HandlerKeeps

-----------------------------------------------------------------------------
(* JetStream, as the processor uses it.                                    *)

Ingress(e) ==
  /\ e \notin arrived
  /\ arrived' = arrived \cup {e}
  /\ src' = Put(src, nextSrc, [event |-> e, id |-> 0, deliveries |-> 0, state |-> "queued"])
  /\ nextSrc' = nextSrc + 1
  /\ UNCHANGED <<policyVars, srcSeen, dlqVars, activities, skipped, exhausted,
                 ing, retryVars, boundVars>>

BrokerKeeps == UNCHANGED <<policyVars, nextSrc, nextDlq, failures, arrived,
                           activities, skipped, ing, retryVars, boundVars>>

SourceAckWaitExpires(s) ==
  /\ s \in DOMAIN src /\ src[s].state = "hidden"
  /\ src' = [src EXCEPT ![s].state = "queued"]
  /\ UNCHANGED <<srcSeen, dlq, dlqSeen, exhausted>> /\ BrokerKeeps

\* The audit consumer gives up on a message after maxDeliver deliveries.
MaxDeliveriesReached(s) ==
  /\ s \in DOMAIN src /\ src[s].state = "queued"
  /\ src[s].event \in AuditEvents /\ src[s].deliveries >= MaxDeliver
  /\ exhausted' = exhausted \cup {src[s].event}
  /\ src' = Drop(src, s)
  /\ UNCHANGED <<srcSeen, dlq, dlqSeen>> /\ BrokerKeeps

\* A dead letter comes back when its ack wait or its NAK delay is over.
DlqRedelivers(d) ==
  /\ d \in DOMAIN dlq /\ dlq[d].state = "hidden"
  /\ dlq' = [dlq EXCEPT ![d].state = "queued"]
  /\ UNCHANGED <<src, srcSeen, dlqSeen, exhausted>> /\ BrokerKeeps

\* The clock passes NextRetryAfter.
BackoffExpires(d) ==
  /\ d \in DOMAIN dlq /\ ~dlq[d].due
  /\ dlq' = [dlq EXCEPT ![d].due = TRUE]
  /\ UNCHANGED <<src, srcSeen, dlqSeen, exhausted>> /\ BrokerKeeps

\* A message id leaves its stream's duplicate window.
WindowPasses ==
  /\ Fault
  /\ \/ \E t \in srcSeen : srcSeen' = srcSeen \ {t} /\ UNCHANGED dlqSeen
     \/ \E k \in dlqSeen : dlqSeen' = dlqSeen \ {k} /\ UNCHANGED srcSeen
  /\ UNCHANGED <<policyVars, src, nextSrc, dlq, nextDlq, failures, fateVars, ing,
                 retryVars, writes, crashes>>

-----------------------------------------------------------------------------
(* Ingest: worker and processMessage of both processors.                   *)

\* What is left to evaluate when a message is picked up.  An undecodable
\* payload fails once, for no policy and at version 0.
DecodeFailure == [name |-> NoPolicy, gen |-> 0, verdict |-> [e \in Events |-> "error"]]

PoliciesFor(r, e) ==
  IF e \in Undecodable \cup Malformed THEN <<DecodeFailure>> ELSE cache[r]

Fetch(r, s) ==
  /\ ing[r] = Idle
  /\ s \in DOMAIN src /\ src[s].state = "queued"
  /\ LET e == src[s].event
     IN  /\ e \in AuditEvents => src[s].deliveries < MaxDeliver
         /\ src' = [src EXCEPT ![s].state = "hidden",
                               ![s].deliveries = IF e \in AuditEvents THEN @ + 1 ELSE @]
         /\ ing' = [ing EXCEPT ![r] = [seq |-> s, event |-> e, id |-> src[s].id,
                                       todo |-> PoliciesFor(r, e),
                                       outcome |-> "none", stamp |-> 0]]
  /\ UNCHANGED <<policyVars, nextSrc, srcSeen, dlqVars, fateVars, retryVars, boundVars>>

Evaluating(r, verdict) ==
  /\ ing[r] # Idle /\ ing[r].todo # <<>>
  /\ Head(ing[r].todo).verdict[ing[r].event] = verdict

EvaluateNoMatch(r) ==
  /\ Evaluating(r, "nomatch")
  /\ ing' = [ing EXCEPT ![r].todo = Tail(@)]
  /\ UNCHANGED <<policyVars, sourceVars, dlqVars, fateVars, retryVars, boundVars>>

\* msg.Nak() after processMessage returned an error.
NakSource(r) ==
  /\ src' = IF ing[r].seq \in DOMAIN src
            THEN [src EXCEPT ![ing[r].seq].state = "queued"] ELSE src
  /\ ing' = [ing EXCEPT ![r] = Idle]

StoreActivity(e) == activities' = activities \cup {e}

\* First matching policy wins: nothing after it is evaluated.
PublishActivity(r) ==
  /\ Evaluating(r, "match")
  /\ StoreActivity(ing[r].event)
  /\ ing' = [ing EXCEPT ![r].todo = <<>>, ![r].outcome = "published"]
  /\ UNCHANGED <<policyVars, sourceVars, dlqVars, arrived, skipped, exhausted,
                 retryVars, boundVars>>

PublishActivityFails(r) ==
  /\ Evaluating(r, "match")
  /\ Fault
  /\ StoreActivity(ing[r].event) \/ UNCHANGED activities
  /\ NakSource(r)
  /\ UNCHANGED <<policyVars, nextSrc, srcSeen, dlqVars, arrived, skipped,
                 exhausted, retryVars, writes, crashes>>

\* A metav1.Time is stored in whole seconds: a failure in the same second as
\* the last one of that event and policy carries the same Timestamp.
TimestampsFor(f) ==
  {Len(failures) + 1} \cup
  (IF SameSecond
   THEN {t \in DOMAIN failures :
           /\ failures[t] = f
           /\ \A u \in DOMAIN failures : failures[u] = f => u <= t}
   ELSE {})

\* NATSDLQPublisher.publish: a new dead letter, without a message id.  The
\* Kubernetes event path always passes version 0.
StoreDeadLetter(r, t) ==
  LET w == ing[r]
      policy == Head(w.todo)
  IN  /\ Len(failures) < MaxFailures
      /\ t \in TimestampsFor([event |-> w.event, policy |-> policy.name])
      /\ failures' = IF t > Len(failures)
                     THEN Append(failures, [event |-> w.event, policy |-> policy.name])
                     ELSE failures
      /\ dlq' = Put(dlq, nextDlq,
                    [event |-> w.event, policy |-> policy.name,
                     version |-> IF w.event \in AuditEvents THEN policy.gen ELSE 0,
                     retry |-> 0, stamp |-> t, due |-> TRUE, state |-> "queued"])
      /\ nextDlq' = nextDlq + 1

\* Mutant: the failed message is acknowledged without a dead letter.
PublishFailure_Drops(r) ==
  /\ Evaluating(r, "error")
  /\ ing' = [ing EXCEPT ![r].todo = <<>>, ![r].outcome = "failed"]
  /\ UNCHANGED <<policyVars, sourceVars, dlqVars, fateVars, retryVars, boundVars>>

\* An audit event that matches fails all the same when API discovery cannot
\* resolve the kind of a resource its summary links to (BuildFromAudit).
EvaluationFails(r) ==
  \/ Evaluating(r, "error") /\ NoFault
  \/ Evaluating(r, "match") /\ ing[r].event \in AuditEvents /\ Fault

\* The audit path goes on to the next policy, the event path stops.
PublishFailure(r) ==
  /\ EvaluationFails(r)
  /\ ing[r].event \notin Malformed
  /\ \E t \in 1..MaxFailures :
       /\ StoreDeadLetter(r, t)
       /\ ing' = [ing EXCEPT ![r].todo = IF ing[r].event \in AuditEvents THEN Tail(@) ELSE <<>>,
                             ![r].outcome = "failed",
                             ![r].stamp = t]
  /\ UNCHANGED <<policyVars, sourceVars, dlqSeen, fateVars, retryVars, writes, crashes>>

PublishFailureFails(r) ==
  /\ \/ Evaluating(r, "error")
     \/ Evaluating(r, "match") /\ ing[r].event \in AuditEvents
  /\ ing[r].event \notin Malformed
  /\ Fault
  /\ \/ \E t \in 1..MaxFailures : StoreDeadLetter(r, t)
     \/ UNCHANGED <<dlq, nextDlq, failures>>
  /\ NakSource(r)
  /\ UNCHANGED <<policyVars, nextSrc, srcSeen, dlqSeen, fateVars, retryVars,
                 writes, crashes>>

\* A payload that is not JSON cannot be embedded as a json.RawMessage:
\* marshalling the dead letter fails, every time.
MarshalFailure(r) ==
  /\ Evaluating(r, "error")
  /\ ing[r].event \in Malformed
  /\ NakSource(r)
  /\ UNCHANGED <<policyVars, nextSrc, srcSeen, dlqVars, fateVars, retryVars, boundVars>>

\* processMessage returned nil: msg.Ack(), which may not reach the broker.
AckSource(r) ==
  /\ ing[r] # Idle /\ ing[r].todo = <<>>
  /\ ing' = [ing EXCEPT ![r] = Idle]
  /\ skipped' = IF ing[r].outcome = "none" THEN skipped \cup {ing[r].event} ELSE skipped
  /\ \/ src' = Drop(src, ing[r].seq) /\ NoFault
     \/ src' = src /\ Fault
  /\ UNCHANGED <<policyVars, nextSrc, srcSeen, dlqVars, arrived, activities,
                 exhausted, retryVars, writes, crashes>>

-----------------------------------------------------------------------------
(* The retry controller.  mu admits one run per replica; the durable       *)
(* consumer is shared by all replicas.                                     *)

RetryKeeps == UNCHANGED <<policyVars, fateVars, ing, failures, writes, crashes>>

StartPeriodic(r) ==
  /\ run[r] = NoRun
  /\ run' = [run EXCEPT ![r] = Periodic]
  /\ UNCHANGED <<sourceVars, dlq, nextDlq, dlqSeen, scans, cur, faults>> /\ RetryKeeps

\* RetryForPolicy returns at once if a retry for that policy is registered.
RegisterScan(r) ==
  /\ \E c \in scans[r] :
       /\ ~c.active
       /\ scans' = [scans EXCEPT ![r] =
                      IF \E a \in @ : a.active /\ a.policy = c.policy
                      THEN @ \ {c}
                      ELSE (@ \ {c}) \cup {[c EXCEPT !.active = TRUE]}]
  /\ UNCHANGED <<sourceVars, dlq, nextDlq, dlqSeen, run, cur, faults>> /\ RetryKeeps

StartScan(r) ==
  /\ run[r] = NoRun
  /\ \E c \in scans[r] : c.active /\ run' = [run EXCEPT ![r] = ScanRun(c)]
  /\ UNCHANGED <<sourceVars, dlq, nextDlq, dlqSeen, scans, cur, faults>> /\ RetryKeeps

\* Empty batch, deadline or cancellation; a policy scan unregisters itself.
EndRun(r) ==
  /\ run[r] # NoRun /\ cur[r] = Idle
  /\ scans' = IF run[r].kind = "scan"
              THEN [scans EXCEPT ![r] = @ \ {run[r].scan}] ELSE scans
  /\ run' = [run EXCEPT ![r] = NoRun]
  /\ UNCHANGED <<sourceVars, dlq, nextDlq, dlqSeen, cur, faults>> /\ RetryKeeps

\* Mutant: a newer policy generation does not make a dead letter eligible.
IsEligibleForRetry_BackoffOnly(r, entry) == entry.due

IsEligibleForRetry(r, entry) ==
  \/ Generation(cache[r], entry.policy) > entry.version
  \/ entry.due

\* The checks processRetryBatch makes before it attempts a retry.
Attempts(r, entry) ==
  IF run[r].kind = "scan"
  THEN /\ entry.policy = run[r].scan.policy
       /\ run[r].scan.gen > 0 => entry.version < run[r].scan.gen
  ELSE IsEligibleForRetry(r, entry)

\* The run's next message from the shared consumer.  Messages of a batch are
\* handled one after the other and independently.
NextMessage(r, d) ==
  /\ run[r] # NoRun /\ cur[r] = Idle
  /\ d \in DOMAIN dlq /\ dlq[d].state = "queued"
  /\ dlq' = [dlq EXCEPT ![d].state = "hidden"]

\* A retry that must wait is deferred at the broker (NakWithDelay).
Defer(r, d) ==
  /\ NextMessage(r, d)
  /\ ~Attempts(r, dlq[d])
  /\ UNCHANGED <<sourceVars, nextDlq, dlqSeen, retryVars, faults>> /\ RetryKeeps

\* The attempt records the policy generation it is made under.  Only audit
\* events are evaluated in place.
Attempt(r, d) ==
  /\ NextMessage(r, d)
  /\ Attempts(r, dlq[d])
  /\ LET generation == Generation(cache[r], dlq[d].policy)
         entry == [dlq[d] EXCEPT !.version = IF generation > @ THEN generation ELSE @]
     IN  cur' = [cur EXCEPT ![r] =
                   [seq |-> d, entry |-> entry,
                    phase |-> IF entry.event \in AuditEvents THEN "evaluate"
                              ELSE "republish"]]
  /\ UNCHANGED <<sourceVars, nextDlq, dlqSeen, run, scans, faults>> /\ RetryKeeps

ReEvaluateDeadLetter(r) ==
  /\ cur[r] # Idle /\ cur[r].phase = "evaluate"
  /\ \/ /\ Resolved(cache[r], cur[r].entry.event)
        /\ cur' = [cur EXCEPT ![r].phase = "republish"]
        /\ NoFault
     \/ /\ \/ ~Resolved(cache[r], cur[r].entry.event) /\ NoFault
           \/ \E i \in DOMAIN cache[r] :
                cache[r][i].verdict[cur[r].entry.event] = "match" /\ Fault
        /\ cur[r].entry.retry < MaxRetry
        /\ cur' = [cur EXCEPT ![r].phase = "requeue"]
  /\ UNCHANGED <<sourceVars, dlq, nextDlq, dlqSeen, run, scans>> /\ RetryKeeps

\* Mutant: the republish carries no message id.
StoreRepublished_NoMsgId(entry) ==
  /\ src' = Put(src, nextSrc, [event |-> entry.event, id |-> entry.stamp,
                               deliveries |-> 0, state |-> "queued"])
  /\ nextSrc' = nextSrc + 1
  /\ UNCHANGED srcSeen

\* Publish the original payload under its stable id.
StoreRepublished(entry) ==
  IF entry.stamp \in srcSeen
  THEN UNCHANGED sourceVars
  ELSE /\ src' = Put(src, nextSrc, [event |-> entry.event, id |-> entry.stamp,
                                    deliveries |-> 0, state |-> "queued"])
       /\ nextSrc' = nextSrc + 1
       /\ srcSeen' = srcSeen \cup {entry.stamp}

RepublishEvent(r) ==
  /\ cur[r] # Idle /\ cur[r].phase = "republish"
  /\ StoreRepublished(cur[r].entry)
  /\ cur' = [cur EXCEPT ![r].phase = "ackRepublished"]
  /\ UNCHANGED <<dlq, nextDlq, dlqSeen, run, scans, faults>> /\ RetryKeeps

\* The publish reports an error, whether or not the broker stored it.
RepublishEventFails(r) ==
  /\ cur[r] # Idle /\ cur[r].phase = "republish"
  /\ cur[r].entry.retry < MaxRetry
  /\ Fault
  /\ StoreRepublished(cur[r].entry) \/ UNCHANGED sourceVars
  /\ cur' = [cur EXCEPT ![r].phase = "requeue"]
  /\ UNCHANGED <<dlq, nextDlq, dlqSeen, run, scans>> /\ RetryKeeps

\* Mutant: the id leaves out the failure's identity.
UpdateId_NoIdentity(entry) == <<0, entry.retry + 1>>

\* The id of a metadata update: the failure's identity and the new RetryCount.
UpdateId(entry) == <<entry.stamp, entry.retry + 1>>

\* Mutant: the update carries no message id.
StoreMetadata_NoMsgId(entry) ==
  /\ dlq' = Put(dlq, nextDlq, [entry EXCEPT !.retry = @ + 1, !.due = FALSE,
                                            !.state = "queued"])
  /\ nextDlq' = nextDlq + 1
  /\ UNCHANGED dlqSeen

StoreMetadata(entry) ==
  IF UpdateId(entry) \in dlqSeen
  THEN UNCHANGED <<dlq, nextDlq, dlqSeen>>
  ELSE /\ dlq' = Put(dlq, nextDlq, [entry EXCEPT !.retry = @ + 1, !.due = FALSE,
                                                 !.state = "queued"])
       /\ nextDlq' = nextDlq + 1
       /\ dlqSeen' = dlqSeen \cup {UpdateId(entry)}

UpdateAndRepublishMetadata(r) ==
  /\ cur[r] # Idle /\ cur[r].phase = "requeue"
  /\ StoreMetadata(cur[r].entry)
  /\ cur' = [cur EXCEPT ![r].phase = "ackRequeued"]
  /\ UNCHANGED <<sourceVars, run, scans, faults>> /\ RetryKeeps

\* Mutant: the message is acknowledged although the update was not stored.
UpdateMetadataFails_Acks(r) ==
  /\ cur[r] # Idle /\ cur[r].phase = "requeue"
  /\ Fault
  /\ cur' = [cur EXCEPT ![r] = Idle]
  /\ dlq' = Drop(dlq, cur[r].seq)
  /\ UNCHANGED <<sourceVars, nextDlq, dlqSeen, run, scans>> /\ RetryKeeps

\* "Only ACK if metadata update succeeds, otherwise NAK to prevent data loss."
UpdateMetadataFails(r) ==
  /\ cur[r] # Idle /\ cur[r].phase = "requeue"
  /\ Fault
  /\ cur' = [cur EXCEPT ![r] = Idle]
  /\ LET seq == cur[r].seq
         requeued == IF seq \in DOMAIN dlq THEN [dlq EXCEPT ![seq].state = "queued"] ELSE dlq
     IN  \/ dlq' = requeued /\ UNCHANGED <<nextDlq, dlqSeen>>
         \/ /\ UpdateId(cur[r].entry) \notin dlqSeen
            /\ dlq' = Put(requeued, nextDlq,
                          [cur[r].entry EXCEPT !.retry = @ + 1, !.due = FALSE,
                                               !.state = "queued"])
            /\ nextDlq' = nextDlq + 1
            /\ dlqSeen' = dlqSeen \cup {UpdateId(cur[r].entry)}
  /\ UNCHANGED <<sourceVars, run, scans>> /\ RetryKeeps

AckDlq(r) ==
  /\ cur[r] # Idle /\ cur[r].phase \in {"ackRepublished", "ackRequeued"}
  /\ cur' = [cur EXCEPT ![r] = Idle]
  /\ \/ dlq' = Drop(dlq, cur[r].seq) /\ NoFault
     \/ dlq' = dlq /\ Fault
  /\ UNCHANGED <<sourceVars, nextDlq, dlqSeen, run, scans>> /\ RetryKeeps

-----------------------------------------------------------------------------
\* A replica dies and comes back.  Start waits for the informer to have
\* listed the policies, not for its handlers to have run: ingest begins with
\* whatever the add handlers have put into the empty cache so far.
Relisted ==
  {q \in [1..Cardinality({p \in Policies : api[p].gen > 0}) ->
            [op : {"add"}, name : Policies, wasReady : {FALSE},
             obj : {api[p] : p \in Policies}]] :
     /\ \A i \in DOMAIN q : q[i].obj = api[q[i].name] /\ q[i].obj.gen > 0
     /\ \A i, j \in DOMAIN q : q[i].name = q[j].name => i = j}

Restart(r) ==
  /\ crashes < MaxCrashes
  /\ crashes' = crashes + 1
  /\ cache' = [cache EXCEPT ![r] = <<>>]
  /\ \E q \in Relisted : inbox' = [inbox EXCEPT ![r] = q]
  /\ removed' = [removed EXCEPT ![r] = FALSE]
  /\ ing' = [ing EXCEPT ![r] = Idle]
  /\ run' = [run EXCEPT ![r] = NoRun]
  /\ scans' = [scans EXCEPT ![r] = {}]
  /\ cur' = [cur EXCEPT ![r] = Idle]
  /\ UNCHANGED <<api, sourceVars, dlqVars, fateVars, writes, faults>>

-----------------------------------------------------------------------------
PolicyWrite ==
  \E p \in Policies :
    \/ \E v \in Verdicts : WriteSpec(p, v) \/ CreatePolicy(p, v)
    \/ WriteStatus(p) \/ DeletePolicy(p)

PolicyHandler(r) ==
  \/ OnPolicyAdd(r) \/ OnPolicyDelete(r)
  \/ OnPolicyUpdateUnresolved(r) \/ OnPolicyUpdateRemove(r) \/ OnPolicyUpdateAdd(r)

Broker ==
  \/ \E s \in DOMAIN src : SourceAckWaitExpires(s) \/ MaxDeliveriesReached(s)
  \/ \E d \in DOMAIN dlq : DlqRedelivers(d) \/ BackoffExpires(d)
  \/ WindowPasses

Ingest(r) ==
  \/ \E s \in DOMAIN src : Fetch(r, s)
  \/ EvaluateNoMatch(r)
  \/ PublishActivity(r) \/ PublishActivityFails(r)
  \/ PublishFailure(r) \/ PublishFailureFails(r) \/ MarshalFailure(r)
  \/ AckSource(r)

Retry(r) ==
  \/ StartPeriodic(r) \/ RegisterScan(r) \/ StartScan(r) \/ EndRun(r)
  \/ \E d \in DOMAIN dlq : Defer(r, d) \/ Attempt(r, d)
  \/ ReEvaluateDeadLetter(r)
  \/ RepublishEvent(r) \/ RepublishEventFails(r)
  \/ UpdateAndRepublishMetadata(r) \/ UpdateMetadataFails(r)
  \/ AckDlq(r)

Next ==
  \/ \E e \in Events : Ingress(e)
  \/ PolicyWrite
  \/ Broker
  \/ \E r \in Replicas : PolicyHandler(r) \/ Ingest(r) \/ Retry(r) \/ Restart(r)

Spec == Init /\ [][Next]_vars

\* Fairness the processes and JetStream give: handlers, workers and retry runs
\* go on, messages are redelivered, a policy scan or a periodic run fetches
\* what is queued before it ends.  Nothing is assumed of the environment, of
\* faults, of restarts, or of the backoff running out.
Progress(r) ==
  /\ WF_vars(PolicyHandler(r))
  /\ WF_vars(\/ EvaluateNoMatch(r) \/ PublishActivity(r) \/ PublishFailure(r)
             \/ MarshalFailure(r) \/ AckSource(r))
  /\ \A s \in 1..(Cardinality(Events) + MaxFailures) : SF_vars(Fetch(r, s))
  /\ WF_vars(StartPeriodic(r) \/ RegisterScan(r) \/ StartScan(r))
  /\ \A d \in 1..(MaxFailures * (MaxRetry + 1)) : SF_vars(Defer(r, d) \/ Attempt(r, d))
  /\ WF_vars(\/ ReEvaluateDeadLetter(r) \/ RepublishEvent(r)
             \/ UpdateAndRepublishMetadata(r) \/ AckDlq(r))
  /\ SF_vars(EndRun(r))

BrokerProgress ==
  /\ \A s \in 1..(Cardinality(Events) + MaxFailures) :
       WF_vars(SourceAckWaitExpires(s)) /\ WF_vars(MaxDeliveriesReached(s))
  /\ \A d \in 1..(MaxFailures * (MaxRetry + 1)) : WF_vars(DlqRedelivers(d))

FairSpec == Spec /\ BrokerProgress /\ \A r \in Replicas : Progress(r)

-----------------------------------------------------------------------------
(* Properties.                                                             *)

PolicyTypeOK ==
  /\ api \in [Policies -> PolicyObject]
  /\ inbox \in [Replicas -> Seq(Notification)]
  /\ removed \in [Replicas -> BOOLEAN]
  /\ cache \in [Replicas -> Seq(CompiledPolicy)]

SourceTypeOK ==
  /\ nextSrc \in Nat \ {0} /\ DOMAIN src \subseteq 1..(nextSrc - 1)
  /\ \A s \in DOMAIN src : src[s] \in SourceMsg
  /\ srcSeen \subseteq DOMAIN failures

DlqTypeOK ==
  /\ failures \in Seq(Failure)
  /\ nextDlq \in Nat \ {0} /\ DOMAIN dlq \subseteq 1..(nextDlq - 1)
  /\ \A d \in DOMAIN dlq : dlq[d] \in DeadLetterEvent /\ dlq[d].stamp \in DOMAIN failures
  /\ dlqSeen \subseteq (DOMAIN failures) \X Nat

FateTypeOK ==
  /\ arrived \subseteq Events /\ activities \subseteq Events
  /\ skipped \subseteq Events /\ exhausted \subseteq Events

IngestTypeOK == ing \in [Replicas -> IngestWork \cup {Idle}]

RetryTypeOK ==
  /\ run \in [Replicas -> {NoRun, Periodic} \cup [kind : {"scan"}, scan : Scan]]
  /\ scans \in [Replicas -> SUBSET Scan]
  /\ cur \in [Replicas -> RetryWork \cup {Idle}]
  /\ \A r \in Replicas : cur[r] # Idle => cur[r].entry.stamp \in DOMAIN failures

BoundTypeOK == writes \in Nat /\ faults \in Nat /\ crashes \in Nat

\* Messages, dead letters and the work of every replica are well formed, and
\* whatever names a failure (a dead letter, the dead letter under retry, an id
\* in a duplicate window) names one that was recorded.
TypeOK ==
  /\ PolicyTypeOK /\ SourceTypeOK /\ DlqTypeOK /\ FateTypeOK
  /\ IngestTypeOK /\ RetryTypeOK /\ BoundTypeOK

\* The events whose story is over: they have an activity, no policy wanted
\* them, or the audit consumer gave up delivering them.
SettledEvents == activities \cup skipped \cup exhausted

OnAStream(e) ==
  \/ \E s \in DOMAIN src : src[s].event = e
  \/ \E d \in DOMAIN dlq : dlq[d].event = e

\* Every event that reached a source stream is settled, still on a source
\* stream, or on the dead-letter stream: no order of NAKs, redeliveries, lost
\* acks, duplicate drops, policy changes and restarts loses a failed event.
NoEventLost == \A e \in arrived : e \in SettledEvents \/ OnAStream(e)

\* Between them the replicas keep one line of retries per failure: no two dead
\* letters of a failure have the same RetryCount and no two copies of it are on
\* a source stream, however deliveries of one message overlap (republishEvent
\* and updateAndRepublishMetadata rely on message ids for this, so it holds as
\* long as none leaves its duplicate window, WindowPasses).
NoForkedRetries ==
  /\ \A d1, d2 \in DOMAIN dlq :
       dlq[d1].stamp = dlq[d2].stamp /\ dlq[d1].retry = dlq[d2].retry => d1 = d2
  /\ \A s1, s2 \in DOMAIN src :
       src[s1].id = src[s2].id /\ src[s1].id # 0 => s1 = s2

\* Event e is safe after its failure t: it is among the settled events done, is
\* on the source streams S as copy t or later, or has a dead letter of a later
\* failure in D.
Later(done, S, D, e, t) ==
  \/ e \in done
  \/ \E s \in DOMAIN S : S[s].event = e /\ S[s].id >= t
  \/ \E d \in DOMAIN D : D[d].event = e /\ D[d].stamp > t

\* The same, or D has a dead letter of t itself with at least n retries.
Covered(done, S, D, e, t, n) ==
  \/ Later(done, S, D, e, t)
  \/ \E d \in DOMAIN D : D[d].event = e /\ D[d].stamp = t /\ D[d].retry >= n

\* What an ingest worker believes about its message is true of the message the
\* broker holds, and when it is about to acknowledge a failure, something
\* else covers the event.
IngestClaim(r) == ing[r] # Idle =>
  /\ ing[r].event \in arrived
  /\ ing[r].seq \in 1..(nextSrc - 1)
  /\ ing[r].id \in 0..Len(failures)
  /\ ing[r].seq \in DOMAIN src => /\ src[ing[r].seq].event = ing[r].event
                                 /\ src[ing[r].seq].id = ing[r].id
  /\ ing[r].outcome = "published" => ing[r].event \in activities
  /\ ing[r].outcome = "failed" =>
       /\ ing[r].stamp \in DOMAIN failures /\ ing[r].stamp > ing[r].id
       /\ Covered(SettledEvents, src, dlq, ing[r].event, ing[r].stamp, 0)

IngestInv == \A r \in Replicas : IngestClaim(r)

\* The same of the retry run and its dead letter.
RetryClaim(r) == cur[r] # Idle =>
  /\ cur[r].entry.event \in arrived
  /\ cur[r].seq \in 1..(nextDlq - 1)
  /\ failures[cur[r].entry.stamp].event = cur[r].entry.event
  /\ cur[r].seq \in DOMAIN dlq => /\ dlq[cur[r].seq].event = cur[r].entry.event
                                 /\ dlq[cur[r].seq].stamp = cur[r].entry.stamp
                                 /\ dlq[cur[r].seq].retry = cur[r].entry.retry
  /\ cur[r].phase = "ackRequeued" =>
       Covered(SettledEvents, src, dlq, cur[r].entry.event, cur[r].entry.stamp,
               cur[r].entry.retry + 1)
  /\ cur[r].phase = "ackRepublished" =>
       Later(SettledEvents, src, dlq, cur[r].entry.event, cur[r].entry.stamp)

RetryInv == \A r \in Replicas : RetryClaim(r)

\* A message id inside a duplicate window stands for a publish whose event is
\* still covered, so dropping a repeated publish loses nothing.
WindowInv ==
  /\ \A k \in dlqSeen : Covered(SettledEvents, src, dlq, failures[k[1]].event, k[1], k[2])
  /\ \A t \in srcSeen : Later(SettledEvents, src, dlq, failures[t].event, t)

\* The messages on the streams stem from events that arrived.
StreamInv ==
  /\ \A s \in DOMAIN src : src[s].id \in 0..Len(failures) /\ src[s].event \in arrived
  /\ \A d \in DOMAIN dlq : /\ failures[dlq[d].stamp].event = dlq[d].event
                           /\ dlq[d].event \in arrived

\* The inductive strengthening of NoEventLost: the streams, the work in
\* progress and the duplicate windows all account for the same events.
LedgerInv == NoEventLost /\ StreamInv /\ IngestInv /\ RetryInv /\ WindowInv

-----------------------------------------------------------------------------
(* The pipeline implements the ledger.                                     *)

Fate(e) ==
  IF e \notin arrived THEN "absent"
  ELSE IF e \in SettledEvents THEN "settled"
  ELSE IF OnAStream(e) THEN "owed"
  ELSE "lost"

Ledger == INSTANCE EventLedger WITH fate <- [e \in Events |-> Fate(e)]

\* Every step of the processors, the broker and the policy handlers is a step
\* of the ledger or leaves it alone: events arrive once, are owed an answer
\* until they are settled, and are never unsettled or lost.
ImplementsLedger == Ledger!Spec

-----------------------------------------------------------------------------
(* Liveness.                                                               *)

\* Every replica runs policies none of which fails on the event, and every
\* dead letter of it is past its backoff or older than the active policy.
Retriable(e) ==
  \A r \in Replicas :
    /\ inbox[r] = <<>>
    /\ Resolved(cache[r], e)
    /\ \A d \in DOMAIN dlq : dlq[d].event = e =>
         dlq[d].due \/ Generation(cache[r], dlq[d].policy) > dlq[d].version

\* "Broker delays must not hide policy fixes": once a fix is active for good,
\* the event's dead letters leave the queue, also when the policy-update scan
\* missed them, they were deferred at the broker, and their backoff never ends.
FixedEventsDrain ==
  \A e \in AuditEvents :
    <>[]Retriable(e) => []<>(\A d \in DOMAIN dlq : dlq[d].event # e)
=============================================================================
