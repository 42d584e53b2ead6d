----------------------------- MODULE LiveWatch -----------------------------
(***************************************************************************)
(* The Watch API (internal/watch, the Watch methods of the registries) and *)
(* its client, `activity feed --watch`: a consumer of a JetStream stream,  *)
(* the goroutine that turns its messages into watch events, the request    *)
(* handler of the API server that serves them, Stop from both sides, and a *)
(* client that resumes from the last resourceVersion it saw.  Activities   *)
(* and Kubernetes events are watched by the same code over other subjects. *)
(* JetStream and the request handler are external.  A push can be lost, an *)
(* unacknowledged message is pushed again, a consumer without subscribers  *)
(* is removed after a while.                                               *)
(***************************************************************************)
EXTENDS Naturals, Sequences, FiniteSets, SequencesExt

CONSTANTS
  Items,        \* activities and events that may be published
  Requests,     \* what a client may ask for
  Capacity,     \* length of resultChan
  MaxPublished, \* bound: length of the stream
  MaxFaults,    \* bound: lost pushes, early redeliveries, failed calls
  MaxWatches    \* bound: watches of the client

Item ==
  [resource : {"activity", "event"}, tenant : Seq(STRING), group : Seq(STRING),
   kind : STRING, ns : STRING, actor : STRING, source : STRING, ok : BOOLEAN]

\* The flags of `activity feed`, or the path and field selectors of another
\* client; "" and <<>> where nothing is asked for.  For an event, source
\* stands for the reason and the other fields matchesFilter compares.
Request ==
  [resource : {"activity", "event"}, cli : BOOLEAN, scope : Seq(STRING),
   path : STRING, group : Seq(STRING), kind : STRING, ns : STRING,
   actor : STRING, source : STRING]

ASSUME WatchAssumption ==
  /\ Items \subseteq Item /\ \A i \in Items : Len(i.tenant) \in {0, 2}
  /\ Requests \subseteq Request /\ \A r \in Requests : Len(r.scope) \in {0, 2}
  /\ Capacity \in Nat \ {0}
  /\ MaxPublished \in Nat /\ MaxFaults \in Nat /\ MaxWatches \in Nat

\* Requests name tenants, API groups, kinds and namespaces as Kubernetes does:
\* none is a wildcard of NATS or has the underscore that stands for no
\* namespace, for the platform and for the dots of an API group.
ASSUME NamesAssumption ==
  /\ \A r \in Requests :
       /\ {"*", ">"} \cap (Range(r.scope) \cup Range(r.group) \cup {r.kind, r.path}) = {}
       /\ r.scope # <<"platform", "_">> /\ r.path # "_"
  /\ \A i \in Items : i.group # <<"normalized">>

VARIABLES
  req,      \* the request of the client
  stream,   \* the stream; a message's sequence number is its index
  consumer, \* [on, next, unacked, again, stalled]
  inbox,    \* messages pushed to the subscription, 0 for a control message
  proc,     \* the goroutine in processMessages, and its message
  stop,     \* how far Stop has got
  cancelled,\* the watch's context
  result,   \* resultChan
  handler,  \* the request handler of the API server
  client,   \* [rv, from, seen]
  lost,     \* sequence numbers of which a push was lost
  panic,    \* what has panicked
  faults,   \* how much of MaxFaults is used
  watches   \* watches started

natsVars   == <<stream, consumer, inbox, lost>>
clientVars == <<req, client, watches>>
vars == <<natsVars, proc, stop, cancelled, result, handler, clientVars, panic,
          faults>>

-----------------------------------------------------------------------------
(* Subjects and filters.                                                   *)

\* A field nothing is asked for, or that is not set.
Unset == ""

Token(s) == IF s = Unset THEN "*" ELSE s

\* buildActivitySubject of the processors: <prefix>.<tenant_type>.
\* <tenant_name>.<api_group>.<origin>.<kind>.<namespace>.<name>.  A dotted API
\* group is several tokens.
ActivitySubject(i) ==
  <<"activities">> \o (IF i.tenant = <<>> THEN <<"platform", "_">> ELSE i.tenant)
    \o (IF i.group = <<>> THEN <<"core">> ELSE i.group)
    \o <<"audit", i.kind, IF i.ns = Unset THEN "_" ELSE i.ns, "name">>

\* EventSubject: <prefix>.<namespace>, with a prefix of two tokens.
EventSubject(i) == <<"events", "k8s", i.ns>>

Subject(i) ==
  IF i.resource = "activity" THEN ActivitySubject(i) ELSE EventSubject(i)

\* What runWatch of `activity feed` sends as field selectors: the API group is
\* left to the client.
RunWatchSelectors(r) == [r EXCEPT !.path = Unset, !.group = <<>>]

\* What the registries' Watch makes of a request: actor and namespace
\* selectors of activities are not looked at.
WatchFilter(r) ==
  LET s == IF r.cli THEN RunWatchSelectors(r) ELSE r
  IN [ns |-> s.path, group |-> s.group, kind |-> s.kind, source |-> s.source]

\* parseFieldSelectorForWatch: the event's own namespace goes first.  Events
\* have no API group to select.
EventsWatchFilter(r) ==
  [ns |-> IF r.path # Unset THEN r.path ELSE r.ns, group |-> <<>>,
   kind |-> r.kind, source |-> r.source]

\* NATSWatcher.buildSubject: one token per field, the dots of the API group
\* replaced.
BuildSubject(r) ==
  LET f == WatchFilter(r)
      group == IF Len(f.group) > 1 THEN <<"normalized">>
               ELSE IF f.group = <<>> THEN <<"*">> ELSE f.group
  IN IF r.scope = <<>> THEN <<"activities", ">">>
     ELSE <<"activities">> \o r.scope \o group
            \o <<"*", Token(f.kind), Token(f.ns), ">">>

\* EventsWatcher.buildSubject.
BuildEventsSubject(r) ==
  LET f == EventsWatchFilter(r)
  IN IF r.scope = <<>> THEN <<"events", "k8s", ">">>
     ELSE <<"events", "k8s">> \o r.scope \o <<Token(f.ns), Token(f.kind), ">">>

FilterSubject(r) ==
  IF r.resource = "activity" THEN BuildSubject(r) ELSE BuildEventsSubject(r)

\* Subject matching of NATS: * is one token, > the rest, at least one.
SubjectMatches(pattern, subject) ==
  /\ Last(pattern) = ">" \/ Len(pattern) = Len(subject)
  /\ Len(subject) >= Len(pattern)
  /\ \A k \in 1..Len(pattern) : pattern[k] \in {"*", ">", subject[k]}

\* Mutant: the change source is not compared.
MatchesFilter_Nothing(i) == TRUE

\* ActivityWatch.matchesFilter; the registry never sets a CEL filter.
MatchesFilter(i) ==
  LET f == WatchFilter(req) IN f.source = Unset \/ i.source = f.source

\* eventsWatch.matchesFilter.
MatchesEventsFilter(i) ==
  LET f == EventsWatchFilter(req) IN f.source = Unset \/ i.source = f.source

Matches(i) ==
  IF i.resource = "activity" THEN MatchesFilter(i) ELSE MatchesEventsFilter(i)

-----------------------------------------------------------------------------
NoConsumer == [on |-> FALSE, next |-> 1, unacked |-> {}, again |-> {},
               stalled |-> FALSE]

Subscribed == handler \in {"serving", "stopping"} /\ stop = "no"

Fault == faults < MaxFaults /\ faults' = faults + 1

Init ==
  /\ req \in Requests
  /\ stream = <<>> /\ consumer = NoConsumer /\ inbox = <<>> /\ lost = {}
  /\ proc = [at |-> "done"] /\ stop = "closed" /\ cancelled = TRUE
  /\ result = <<>> /\ handler = "gone"
  /\ client = [rv |-> 0, from |-> 1, seen |-> {}]
  /\ panic = "none" /\ faults = 0 /\ watches = 0

\* A processor or an exporter publishes.
Publish(i) ==
  /\ Len(stream) < MaxPublished /\ panic = "none"
  /\ i.resource = req.resource
  /\ stream' = Append(stream, i)
  /\ UNCHANGED <<consumer, inbox, lost, proc, stop, cancelled, result, handler,
                 clientVars, panic, faults>>

-----------------------------------------------------------------------------
(* Watch.                                                                  *)

\* Mutant: a resumed watch starts after the last message seen at the stream's
\* end.
AddConsumer_FromNow ==
  /\ handler = "gone" /\ proc.at = "done" /\ watches < MaxWatches
  /\ panic = "none"
  /\ consumer' = [NoConsumer EXCEPT !.on = TRUE, !.next = Len(stream) + 1]
  /\ client' = IF client.rv > 0 THEN client
               ELSE [client EXCEPT !.from = Len(stream) + 1]
  /\ handler' = "adding" /\ watches' = watches + 1
  /\ inbox' = <<>> /\ lost' = {s \in lost : client.rv > 0}
  /\ UNCHANGED <<req, stream, proc, stop, cancelled, result, panic, faults>>

\* Mutant: resourceVersion 0 is a sequence number too.
AddConsumer_Zero ==
  /\ handler = "gone" /\ proc.at = "done" /\ watches < MaxWatches
  /\ panic = "none"
  /\ LET start == client.rv
     IN /\ consumer' = [NoConsumer EXCEPT !.on = TRUE, !.next = start]
        /\ client' = IF client.rv > 0 THEN client
                     ELSE [client EXCEPT !.from = start]
  /\ handler' = "adding" /\ watches' = watches + 1
  /\ inbox' = <<>> /\ lost' = {s \in lost : client.rv > 0}
  /\ UNCHANGED <<req, stream, proc, stop, cancelled, result, panic, faults>>

\* Watch of the registry and of the watcher, up to AddConsumer: from the
\* sequence number that is the client's resourceVersion, or from now on.  The
\* client is new, or reconnects after its last watch has ended.
AddConsumer ==
  /\ handler = "gone" /\ proc.at = "done" /\ watches < MaxWatches
  /\ panic = "none"
  /\ LET start == IF client.rv > 0 THEN client.rv ELSE Len(stream) + 1
     IN /\ consumer' = [NoConsumer EXCEPT !.on = TRUE, !.next = start]
        /\ client' = IF client.rv > 0 THEN client
                     ELSE [client EXCEPT !.from = start]
  /\ handler' = "adding" /\ watches' = watches + 1
  /\ inbox' = <<>> /\ lost' = {s \in lost : client.rv > 0}
  /\ UNCHANGED <<req, stream, proc, stop, cancelled, result, panic, faults>>

\* The rest of Watch, with SubscribeSync.
Subscribe ==
  /\ handler = "adding"
  /\ handler' = "serving" /\ proc' = [at |-> "top"]
  /\ stop' = "no" /\ cancelled' = FALSE /\ result' = <<>>
  /\ UNCHANGED <<natsVars, clientVars, panic, faults>>

\* SubscribeSync fails, and the consumer is deleted again, which may fail too.
SubscribeFails ==
  /\ handler = "adding" /\ Fault
  /\ handler' = "gone"
  /\ consumer' \in {consumer, NoConsumer}
  /\ UNCHANGED <<stream, inbox, lost, proc, stop, cancelled, result, clientVars,
                 panic>>

-----------------------------------------------------------------------------
(* JetStream.                                                              *)

Pushing == consumer.on /\ Subscribed /\ ~consumer.stalled

\* The next message whose subject is filtered for, if there is one.
NextSeq == {s \in consumer.next..Len(stream) :
              SubjectMatches(FilterSubject(req), Subject(stream[s]))}

Push ==
  /\ Pushing /\ NextSeq # {}
  /\ LET s == CHOOSE t \in NextSeq : \A u \in NextSeq : t <= u
     IN /\ consumer' = [consumer EXCEPT !.next = s + 1, !.unacked = @ \cup {s}]
        /\ \/ inbox' = Append(inbox, s) /\ UNCHANGED <<lost, faults>>
           \/ Fault /\ lost' = lost \cup {s} /\ UNCHANGED inbox
  /\ UNCHANGED <<stream, proc, stop, cancelled, result, handler, clientVars,
                 panic>>

PushAgain(s) ==
  /\ Pushing /\ s \in consumer.again
  /\ consumer' = [consumer EXCEPT !.again = @ \ {s}]
  /\ inbox' = Append(inbox, s)
  /\ UNCHANGED <<stream, lost, proc, stop, cancelled, result, handler,
                 clientVars, panic, faults>>

\* The ack wait of a message passes: one that was lost, or one that still waits
\* for its turn, for an ack that is late or lost.
AckWaitExpires(s) ==
  /\ consumer.on /\ s \in consumer.unacked \ consumer.again
  /\ \/ s \in lost /\ ~Contains(inbox, s) /\ UNCHANGED faults
     \/ Fault
  /\ consumer' = [consumer EXCEPT !.again = @ \cup {s}]
  /\ UNCHANGED <<stream, inbox, lost, proc, stop, cancelled, result, handler,
                 clientVars, panic>>

\* A flow control message: nothing is pushed until it is answered.
PushControl ==
  /\ Pushing /\ inbox # <<>>
  /\ consumer' = [consumer EXCEPT !.stalled = TRUE]
  /\ inbox' = Append(inbox, 0)
  /\ UNCHANGED <<stream, lost, proc, stop, cancelled, result, handler,
                 clientVars, panic, faults>>

\* InactiveThreshold passes for a consumer nobody subscribes to.
ConsumerExpires ==
  /\ consumer.on /\ ~Subscribed /\ handler # "adding"
  /\ consumer' = NoConsumer
  /\ UNCHANGED <<stream, inbox, lost, proc, stop, cancelled, result, handler,
                 clientVars, panic, faults>>

Acked(s)  == [consumer EXCEPT !.unacked = @ \ {s}, !.again = @ \ {s}]
Naked(s)  == [consumer EXCEPT !.again = @ \cup ({s} \cap consumer.unacked)]

-----------------------------------------------------------------------------
(* processMessages.                                                        *)

\* The head of the loop, and NextMsgWithContext: with the context cancelled it
\* returns, and so does the goroutine.  The error that NextMsg returns after
\* Unsubscribe leads back here.
SeeCancel ==
  /\ proc.at = "top" /\ cancelled
  /\ proc' = [at |-> "defer"]
  /\ UNCHANGED <<natsVars, stop, cancelled, result, handler, clientVars, panic,
                 faults>>

\* Mutant: a flow control message is not answered.
RespondControl_Ignored ==
  /\ proc.at = "top" /\ Subscribed /\ inbox # <<>> /\ Head(inbox) = 0
  /\ inbox' = Tail(inbox)
  /\ UNCHANGED <<stream, lost, consumer, proc, stop, cancelled, result, handler,
                 clientVars, panic, faults>>

RespondControl ==
  /\ proc.at = "top" /\ Subscribed /\ inbox # <<>> /\ Head(inbox) = 0
  /\ inbox' = Tail(inbox)
  /\ consumer' = [consumer EXCEPT !.stalled = FALSE]
  /\ UNCHANGED <<stream, lost, proc, stop, cancelled, result, handler,
                 clientVars, panic, faults>>

NextMsg ==
  /\ proc.at = "top" /\ Subscribed /\ inbox # <<>> /\ Head(inbox) # 0
  /\ inbox' = Tail(inbox)
  /\ proc' = [at |-> "parse", seq |-> Head(inbox)]
  /\ UNCHANGED <<stream, lost, consumer, stop, cancelled, result, handler,
                 clientVars, panic, faults>>

\* A message that is no JSON is handed back; one the filter rejects is done.
Skip ==
  /\ proc.at = "parse"
  /\ \/ ~stream[proc.seq].ok /\ consumer' = Naked(proc.seq)
     \/ /\ stream[proc.seq].ok /\ ~Matches(stream[proc.seq])
        /\ consumer' = Acked(proc.seq)
  /\ proc' = [at |-> "top"]
  /\ UNCHANGED <<stream, inbox, lost, stop, cancelled, result, handler,
                 clientVars, panic, faults>>

Sending == /\ proc.at = "parse"
           /\ stream[proc.seq].ok /\ Matches(stream[proc.seq])

\* The select of the send and the context, met for the first time: any case
\* that is ready is taken, and a send on a closed channel is ready.
Send ==
  /\ Sending
  /\ \/ /\ stop # "closed" /\ Len(result) < Capacity
        /\ result' = Append(result, proc.seq)
        /\ consumer' = Acked(proc.seq) /\ proc' = [at |-> "top"]
        /\ UNCHANGED panic
     \/ /\ cancelled
        /\ proc' = [at |-> "defer"] /\ UNCHANGED <<result, consumer, panic>>
     \/ /\ stop = "closed"
        /\ panic' = "send" /\ proc' = [at |-> "defer"]
        /\ UNCHANGED <<result, consumer>>
     \/ /\ stop # "closed" /\ ~cancelled /\ Len(result) = Capacity
        /\ proc' = [proc EXCEPT !.at = "blocked"]
        /\ UNCHANGED <<result, consumer, panic>>
  /\ UNCHANGED <<stream, inbox, lost, stop, cancelled, handler, clientVars,
                 faults>>

\* A blocked select wakes up for the reader, or for the context, which is
\* cancelled before the channel is closed.
WakeUp ==
  /\ proc.at = "blocked"
  /\ \/ /\ ~cancelled /\ Len(result) < Capacity
        /\ result' = Append(result, proc.seq)
        /\ consumer' = Acked(proc.seq) /\ proc' = [at |-> "top"]
     \/ /\ cancelled
        /\ proc' = [at |-> "defer"] /\ UNCHANGED <<result, consumer>>
  /\ UNCHANGED <<stream, inbox, lost, stop, cancelled, handler, clientVars,
                 panic, faults>>

-----------------------------------------------------------------------------
(* Stop, by the handler or by the deferred call of processMessages.        *)

\* Mutant: Stop does not look at the flag.
StopBegins_Twice(who) ==
  /\ \/ who = "handler" /\ handler = "stopping"
     \/ who = "proc" /\ proc.at = "defer"
  /\ stop \in {"no", "closed"}
  /\ IF stop = "no" THEN stop' = who /\ UNCHANGED <<panic, handler, proc>>
     ELSE /\ panic' = IF panic = "none" THEN "close" ELSE panic
          /\ IF who = "handler" THEN handler' = "gone" /\ UNCHANGED proc
             ELSE proc' = [at |-> "done"] /\ UNCHANGED handler
          /\ UNCHANGED stop
  /\ UNCHANGED <<natsVars, cancelled, result, clientVars, faults>>

\* The first caller sets stopped and unsubscribes; the second finds it set,
\* once the first has unlocked the mutex, and returns.
StopBegins(who) ==
  /\ \/ who = "handler" /\ handler = "stopping"
     \/ who = "proc" /\ proc.at = "defer"
  /\ \/ stop = "no" /\ stop' = who /\ UNCHANGED <<handler, proc>>
     \/ /\ stop = "closed"
        /\ IF who = "handler" THEN handler' = "gone" /\ UNCHANGED proc
           ELSE proc' = [at |-> "done"] /\ UNCHANGED handler
        /\ UNCHANGED stop
  /\ UNCHANGED <<natsVars, cancelled, result, clientVars, panic, faults>>

\* DeleteConsumer, which may fail.
StopDeletes ==
  /\ stop \in {"handler", "proc"}
  /\ \/ consumer' = NoConsumer /\ UNCHANGED faults
     \/ Fault /\ UNCHANGED consumer
  /\ stop' = "deleted"
  /\ UNCHANGED <<stream, inbox, lost, proc, cancelled, result, handler,
                 clientVars, panic>>

\* Mutant: the context is not cancelled.
StopCancels_Not ==
  /\ stop = "deleted"
  /\ stop' = "cancelled" /\ UNCHANGED cancelled
  /\ UNCHANGED <<natsVars, proc, result, handler, clientVars, panic, faults>>

StopCancels ==
  /\ stop = "deleted"
  /\ stop' = "cancelled" /\ cancelled' = TRUE
  /\ UNCHANGED <<natsVars, proc, result, handler, clientVars, panic, faults>>

StopCloses ==
  /\ stop = "cancelled"
  /\ stop' = "closed"
  /\ UNCHANGED <<natsVars, proc, cancelled, result, handler, clientVars, panic,
                 faults>>

-----------------------------------------------------------------------------
(* The request handler and the client.                                     *)

\* The handler writes the next watch event to the client.
Serve ==
  /\ handler = "serving" /\ result # <<>>
  /\ client' = [client EXCEPT !.rv = Head(result), !.seen = @ \cup {Head(result)}]
  /\ result' = Tail(result)
  /\ UNCHANGED <<natsVars, proc, stop, cancelled, handler, req, watches, panic,
                 faults>>

\* The client goes away or the request times out: the request's context, and
\* with it the watch's, is cancelled.
RequestEnds ==
  /\ handler = "serving"
  /\ cancelled' = TRUE /\ handler' = "stopping"
  /\ UNCHANGED <<natsVars, proc, stop, result, clientVars, panic, faults>>

\* The handler leaves before the request's context is cancelled, or finds the
\* channel closed, and calls Stop.
HandlerStops ==
  /\ handler = "serving"
  /\ handler' = "stopping"
  /\ UNCHANGED <<natsVars, proc, stop, cancelled, result, clientVars, panic,
                 faults>>

\* The API server dies, of a panic or otherwise, and is started again.  The
\* broker forgets the subscription, and later the consumer.
Restart ==
  /\ handler # "gone" \/ proc.at # "done"
  /\ \/ panic # "none" /\ UNCHANGED faults
     \/ panic = "none" /\ Fault
  /\ proc' = [at |-> "done"] /\ stop' = "closed" /\ cancelled' = TRUE
  /\ handler' = "gone" /\ result' = <<>> /\ panic' = "none"
  /\ UNCHANGED <<natsVars, clientVars>>

-----------------------------------------------------------------------------
Process ==
  \/ SeeCancel \/ RespondControl \/ NextMsg \/ Skip \/ Send \/ WakeUp

Stop ==
  \/ \E who \in {"handler", "proc"} : StopBegins(who)
  \/ StopDeletes \/ StopCancels \/ StopCloses

Server ==
  \/ AddConsumer \/ Subscribe \/ SubscribeFails
  \/ Process \/ Stop
  \/ Serve \/ RequestEnds \/ HandlerStops

JetStream ==
  \/ \E i \in Items : Publish(i)
  \/ Push \/ PushControl \/ ConsumerExpires
  \/ \E s \in 1..MaxPublished : PushAgain(s) \/ AckWaitExpires(s)

Next ==
  \/ Restart
  \/ panic = "none" /\ (Server \/ JetStream)

Spec == Init /\ [][Next]_vars

\* Goroutines run, Stop's calls return, the handler writes what it gets, the
\* broker pushes what it has and pushes again what is not acknowledged.  Fresh
\* messages get their turn among the redelivered (SF).
Fairness ==
  /\ WF_vars(Process) /\ WF_vars(Stop) /\ WF_vars(Subscribe)
  /\ WF_vars(Serve) /\ WF_vars(panic # "none" /\ Restart)
  /\ SF_vars(Push)
  /\ \A s \in 1..MaxPublished :
       SF_vars(PushAgain(s)) /\ WF_vars(AckWaitExpires(s))

FairSpec == Spec /\ Fairness

-----------------------------------------------------------------------------
(* Properties.                                                             *)

Seqs == 1..Len(stream)

\* Well formed: a consumer starts at a sequence number the stream can have and
\* redelivers only what is unacknowledged (Watch's choice of the start).
TypeOK ==
  /\ req \in Requests /\ stream \in Seq(Items)
  /\ consumer.next \in 1..(MaxPublished + 1)
  /\ consumer.again \subseteq consumer.unacked /\ consumer.unacked \subseteq Seqs
  /\ {consumer.on, consumer.stalled, cancelled} \subseteq BOOLEAN
  /\ Range(inbox) \subseteq Seqs \cup {0}
  /\ proc.at \in {"top", "parse", "blocked", "defer", "done"}
  /\ proc.at \in {"parse", "blocked"} => proc.seq \in Seqs
  /\ stop \in {"no", "handler", "proc", "deleted", "cancelled", "closed"}
  /\ Len(result) <= Capacity /\ Range(result) \subseteq Seqs
  /\ handler \in {"gone", "adding", "serving", "stopping"}
  /\ client.rv \in Seqs \cup {0} /\ client.from \in 1..(MaxPublished + 1)
  /\ client.seen \subseteq Seqs
  /\ lost \subseteq Seqs /\ panic \in {"none", "send", "close"}
  /\ faults \in 0..MaxFaults /\ watches \in 0..MaxWatches

InScope(i) == req.scope = <<>> \/ i.tenant = req.scope

\* What the registries understood of the request.
Filter == IF req.resource = "activity" THEN WatchFilter(req)
          ELSE EventsWatchFilter(req)

Wanted(i) ==
  /\ i.ok /\ InScope(i)
  /\ Filter.group \in {<<>>, i.group} /\ Filter.kind \in {Unset, i.kind}
  /\ Filter.ns \in {Unset, i.ns} /\ Filter.source \in {Unset, i.source}

\* The requests and messages for which the subjects of publisher and watcher
\* agree: no field is filtered by subject, or the API group is one token.
\* Events have no tenant in their subject.
Routable(i) ==
  LET bySubject == Filter.group # <<>> \/ Filter.kind # Unset \/ Filter.ns # Unset
  IN IF i.resource = "event" THEN req.scope = <<>> /\ ~bySubject
     ELSE ~bySubject \/ (req.scope # <<>> /\ Len(i.group) = 1)

\* Whatever is on its way to the client belongs to its tenant, and, where the
\* subjects agree, is what it asked for: the subject and matchesFilter together
\* apply the whole filter.
DeliveredMatches ==
  \A s \in Range(result) \cup client.seen :
    InScope(stream[s]) /\ (Routable(stream[s]) => Wanted(stream[s]))

\* A client that resumes from the last resourceVersion it saw misses nothing,
\* though events were acknowledged when they were put on a channel whose
\* content the end of a watch throws away.  What it has not seen is newer than
\* all it has seen, and still before it while it watches.  The one exception is
\* a message of which a push was lost.
NothingMissed ==
  \A s \in Seqs :
    /\ s >= client.from /\ s \notin client.seen \cup lost
    /\ Wanted(stream[s]) /\ Routable(stream[s])
    => /\ \A t \in client.seen : t < s
       /\ handler = "serving" /\ stop = "no" =>
            s >= consumer.next \/ s \in consumer.unacked \/ Contains(result, s)

\* Both the handler and processMessages call Stop: the channel is closed once,
\* and after the context is cancelled, so that a goroutine blocked in its send
\* is woken by the context and not by the close, on which it would panic.
ClosedOnce ==
  /\ panic # "close"
  /\ proc.at = "blocked" /\ stop = "closed" => cancelled

\* Stop or the end of the request ends the goroutine and the handler, though
\* NextMsg, the send and the mutex may all be in the way.
StopEnds ==
  handler = "stopping" ~> handler = "gone" /\ proc.at = "done"

\* While a watch is served, whatever is published for it reaches the client:
\* past lost pushes, flow control, a full channel and messages that are no
\* JSON.
MatchingIsDelivered ==
  \A s \in 1..MaxPublished :
    /\ handler = "serving" /\ s \in Seqs /\ s >= consumer.next
    /\ Wanted(stream[s]) /\ Routable(stream[s])
    ~> s \in client.seen \/ handler # "serving"
=============================================================================
