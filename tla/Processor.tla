----------------------------- MODULE Processor -----------------------------
(***************************************************************************)
(* The life of the activity processor: Start and Stop, the informer that   *)
(* calls onPolicyAdd, onPolicyUpdate and onPolicyDelete one at a time, the *)
(* policy cache they keep, and the workers that evaluate the policies of   *)
(* the cache while it changes.                                             *)
(*                                                                         *)
(* The cache is modelled down to its Go slices, because Get hands a worker *)
(* the slice itself: a slice is an array of the heap and a length, append  *)
(* writes into the array as long as it has room, and removal moves the     *)
(* last element into the hole.  All policies here target one resource; the *)
(* slices of other resources share nothing with its own.                   *)
(*                                                                         *)
(* What happens to an event once the policies have been evaluated is       *)
(* module DeadLetter.                                                      *)
(***************************************************************************)
EXTENDS Integers, Sequences, FiniteSets

CONSTANTS
  Policies,    \* names of the ActivityPolicies of one resource
  Workers,     \* audit workers and event workers
  EventWorkers,\* the event workers, which look policies up by kind
  MaxWrites,   \* bound on writes of policies (and resyncs)
  MaxFaults    \* bound on failed calls of the discovery API

ASSUME ProcessorAssumption ==
  /\ IsFiniteSet(Policies) /\ IsFiniteSet(Workers)
  /\ EventWorkers \subseteq Workers
  /\ MaxWrites \in Nat /\ MaxFaults \in Nat

VARIABLES
  api,       \* the policies in the API server
  store,     \* the informer's copy
  notes,     \* notifications the informer has queued for the handlers
  pending,   \* the policy onPolicyUpdate has removed and will add, as a set
  heap,      \* per index, the arrays ever allocated
  slices,    \* per index, the slice of the resource
  reader,    \* per worker, the evaluation it is at
  main,      \* where RunProcessor is
  signalled, \* the process got SIGTERM
  running,   \* the goroutines that Stop's WaitGroup counts
  writes, faults,
  unresolved \* policies of which a handler gave up on a discovery error

vars == <<api, store, notes, pending, heap, slices, reader, main, signalled,
          running, writes, faults, unresolved>>

cacheVars == <<heap, slices, reader>>
lifeVars  == <<main, signalled, running>>

Version == [live : BOOLEAN, ready : BOOLEAN, rv : Nat]
Absent  == [live |-> FALSE, ready |-> FALSE, rv |-> 0]

Compiled == [name : Policies, rv : Nat]
Nil      == [name |-> "nil", rv |-> 0]

Index == {"policies", "policiesByKind"}

IndexOf(w) == IF w \in EventWorkers THEN "policiesByKind" ELSE "policies"

NilSlice == [arr |-> 0, len |-> 0]

Idle == [at |-> "idle"]

IsPolicyReady(v) == v.live /\ v.ready

----------------------------------------------------------------------------
(* Go's slices.  h is a sequence of arrays, an array a sequence of entries *)
(* as long as its capacity.                                                *)

Elements(h, s) == [i \in 1 .. s.len |-> h[s.arr][i]]

Grown(h, s, c) ==
  LET cap == IF s.len = 0 THEN 1 ELSE 2 * s.len
  IN  [i \in 1 .. cap |-> IF i <= s.len THEN h[s.arr][i]
                          ELSE IF i = s.len + 1 THEN c ELSE Nil]

HasRoom(h, s) == s.arr # 0 /\ s.len < Len(h[s.arr])

AppendHeap(h, s, c) ==
  IF HasRoom(h, s) THEN [h EXCEPT ![s.arr][s.len + 1] = c]
  ELSE Append(h, Grown(h, s, c))

AppendSlice(h, s, c) ==
  [arr |-> IF HasRoom(h, s) THEN s.arr ELSE Len(h) + 1, len |-> s.len + 1]

\* Where removeLocked finds the policy, 0 when it does not.
Found(h, s, name) ==
  LET at == {i \in 1 .. s.len : h[s.arr][i].name = name}
  IN  IF at = {} THEN 0 ELSE CHOOSE i \in at : \A j \in at : i <= j

----------------------------------------------------------------------------
(* The policy cache.                                                       *)

Add(name, rv) ==
  LET c == [name |-> name, rv |-> rv]
  IN  /\ heap' = [ix \in Index |-> AppendHeap(heap[ix], slices[ix], c)]
      /\ slices' = [ix \in Index |-> AppendSlice(heap[ix], slices[ix], c)]
      /\ reader' = [w \in Workers |->
                      IF reader[w].at = "idle" THEN Idle
                      ELSE [reader[w] EXCEPT !.cached = @ \cup {c}]]

RemoveLocked_Clears(h, s, name) ==
  LET i == Found(h, s, name)
  IN  IF i = 0 THEN h ELSE [h EXCEPT ![s.arr][i] = h[s.arr][s.len],
                                     ![s.arr][s.len] = Nil]

RemoveLocked(h, s, name) ==
  LET i == Found(h, s, name)
  IN  IF i = 0 THEN h ELSE [h EXCEPT ![s.arr][i] = h[s.arr][s.len]]

Shrunk(h, s, name) ==
  IF Found(h, s, name) = 0 THEN s
  ELSE IF s.len = 1 THEN NilSlice
  ELSE [s EXCEPT !.len = @ - 1]

Remove_NotByKind(name) ==
  /\ heap' = [heap EXCEPT !.policies = RemoveLocked(@, slices.policies, name)]
  /\ slices' = [slices EXCEPT !.policies = Shrunk(heap.policies, @, name)]
  /\ UNCHANGED reader

Remove(name) ==
  LET gone(ix) == LET i == Found(heap[ix], slices[ix], name)
                  IN  IF i = 0 THEN {} ELSE {heap[ix][slices[ix].arr][i]}
  IN  /\ heap' = [ix \in Index |-> RemoveLocked(heap[ix], slices[ix], name)]
      /\ slices' = [ix \in Index |-> Shrunk(heap[ix], slices[ix], name)]
      /\ reader' = [w \in Workers |->
                      IF reader[w].at = "idle" THEN Idle
                      ELSE [reader[w] EXCEPT !.standing = @ \ gone(IndexOf(w)),
                                             !.calm = FALSE]]

Entries(ix) == LET e == Elements(heap[ix], slices[ix])
               IN  {e[i] : i \in DOMAIN e}

----------------------------------------------------------------------------
Init ==
  /\ api = [p \in Policies |-> [live |-> TRUE, ready |-> TRUE, rv |-> 1]]
  /\ store = [p \in Policies |-> Absent]
  /\ notes = <<>>
  /\ pending = {}
  /\ heap = [ix \in Index |-> <<>>]
  /\ slices = [ix \in Index |-> NilSlice]
  /\ reader = [w \in Workers |-> Idle]
  /\ main = "start"
  /\ signalled = FALSE
  /\ running \in {{}, {"health"}}
  /\ writes = 0 /\ faults = 0
  /\ unresolved = {}

----------------------------------------------------------------------------
(* Policies, and the informer that follows them.                           *)

\* A user creates, edits or deletes a policy, or the status controller sets
\* or clears its Ready condition.
WritePolicy(p) ==
  /\ writes < MaxWrites /\ ~signalled
  /\ \/ api' = [api EXCEPT ![p] = [live  |-> TRUE, ready |-> FALSE,
                                   rv    |-> writes + 2]]
     \/ api[p].live /\ api' = [api EXCEPT ![p].ready = TRUE, ![p].rv = writes + 2]
     \/ api[p].live /\ api' = [api EXCEPT ![p] = Absent]
  /\ writes' = writes + 1
  /\ UNCHANGED <<store, notes, pending, faults, unresolved>>
  /\ UNCHANGED cacheVars /\ UNCHANGED lifeVars

Informing == "cache" \in running

\* The informer takes over the current state of a policy and queues the
\* handler's call.
Notify(p) ==
  /\ Informing /\ store[p] # api[p]
  /\ store' = [store EXCEPT ![p] = api[p]]
  /\ notes' = Append(notes, [name |-> p, old |-> store[p], new |-> api[p]])
  /\ UNCHANGED <<api, pending, writes, faults, unresolved>>
  /\ UNCHANGED cacheVars /\ UNCHANGED lifeVars

\* The periodic resync: an update that changes nothing.
Resync(p) ==
  /\ Informing /\ store[p].live /\ writes < MaxWrites /\ ~signalled
  /\ writes' = writes + 1
  /\ notes' = Append(notes, [name |-> p, old |-> store[p], new |-> store[p]])
  /\ UNCHANGED <<api, store, pending, faults, unresolved>>
  /\ UNCHANGED cacheVars /\ UNCHANGED lifeVars

----------------------------------------------------------------------------
(* The handlers.  kindToResource may fail at any call.                     *)

Handling(n) == Informing /\ notes # <<>> /\ pending = {} /\ n = Head(notes)

Done == notes' = Tail(notes) /\ UNCHANGED <<api, store, pending, writes>>

KindToResourceFails(name) ==
  /\ faults < MaxFaults
  /\ faults' = faults + 1
  /\ unresolved' = unresolved \cup {name}

Resolved == UNCHANGED <<faults, unresolved>>

OnPolicyAdd ==
  \E n \in {notes[i] : i \in DOMAIN notes} :
    /\ Handling(n) /\ ~n.old.live /\ n.new.live
    /\ \/ ~IsPolicyReady(n.new) /\ Resolved /\ UNCHANGED cacheVars
       \/ IsPolicyReady(n.new) /\ KindToResourceFails(n.name) /\ UNCHANGED cacheVars
       \/ IsPolicyReady(n.new) /\ Resolved /\ Add(n.name, n.new.rv)
    /\ Done /\ UNCHANGED lifeVars

Keep == UNCHANGED <<api, store, notes, writes>> /\ UNCHANGED lifeVars

OnPolicyUpdateRemove_Skips ==
  \E n \in {notes[i] : i \in DOMAIN notes} :
    /\ Handling(n) /\ n.old.live /\ n.new.live
    /\ pending' = {n}
    /\ IF IsPolicyReady(n.old) /\ ~IsPolicyReady(n.new)
       THEN Remove(n.name) ELSE UNCHANGED cacheVars
    /\ Resolved /\ Keep

\* onPolicyUpdate up to the removal of the old version, which is skipped
\* when the old resource does not resolve.
OnPolicyUpdateRemove ==
  \E n \in {notes[i] : i \in DOMAIN notes} :
    /\ Handling(n) /\ n.old.live /\ n.new.live
    /\ pending' = {n}
    /\ \/ IsPolicyReady(n.old) /\ Resolved /\ Remove(n.name)
       \/ IsPolicyReady(n.old) /\ KindToResourceFails(n.name) /\ UNCHANGED cacheVars
       \/ ~IsPolicyReady(n.old) /\ Resolved /\ UNCHANGED cacheVars
    /\ Keep

\* The new resource of a ready policy does not resolve: nothing is done.
OnPolicyUpdateUnresolved ==
  \E n \in {notes[i] : i \in DOMAIN notes} :
    /\ Handling(n) /\ n.old.live /\ n.new.live
    /\ IsPolicyReady(n.new) /\ KindToResourceFails(n.name)
    /\ Done /\ UNCHANGED cacheVars /\ UNCHANGED lifeVars

\* The rest of onPolicyUpdate, in a critical section of its own.
OnPolicyUpdateAdd ==
  \E n \in pending :
    /\ IF IsPolicyReady(n.new) THEN Add(n.name, n.new.rv) ELSE UNCHANGED cacheVars
    /\ pending' = {}
    /\ notes' = Tail(notes)
    /\ UNCHANGED <<api, store, writes, faults, unresolved>> /\ UNCHANGED lifeVars

OnPolicyDelete ==
  \E n \in {notes[i] : i \in DOMAIN notes} :
    /\ Handling(n) /\ n.old.live /\ ~n.new.live
    /\ \/ Resolved /\ Remove(n.name)
       \/ KindToResourceFails(n.name) /\ UNCHANGED cacheVars
    /\ Done /\ UNCHANGED lifeVars

----------------------------------------------------------------------------
(* The workers.                                                            *)

workVars == <<api, store, notes, pending, heap, slices, writes, faults, unresolved>>

\* A message is fetched and Get or GetByKind returns the slice.
Get(w) ==
  /\ w \in running /\ ~signalled /\ reader[w].at = "idle"
  /\ LET ix == IndexOf(w)
     IN  reader' = [reader EXCEPT ![w] =
           [at |-> "next", slice |-> slices[ix], i |-> 1, read |-> <<>>,
            snap |-> Elements(heap[ix], slices[ix]),
            standing |-> Entries(ix), cached |-> Entries(ix), calm |-> TRUE]]
  /\ UNCHANGED workVars /\ UNCHANGED lifeVars

Evaluating(w) == reader[w].at = "next" /\ reader[w].i <= reader[w].slice.len

\* The next element is read and the policy evaluated: the first match ends
\* the loop.
EvaluateNext(w) ==
  /\ Evaluating(w)
  /\ LET r == reader[w]
         c == heap[IndexOf(w)][r.slice.arr][r.i]
     IN  \/ reader' = [reader EXCEPT ![w].i = @ + 1, ![w].read = Append(@, c)]
         \/ reader' = [reader EXCEPT ![w] = Idle]
  /\ UNCHANGED workVars /\ UNCHANGED lifeVars

\* No policy matched: the message is finished.
Finish(w) ==
  /\ reader[w].at = "next" /\ reader[w].i > reader[w].slice.len
  /\ reader' = [reader EXCEPT ![w] = Idle]
  /\ UNCHANGED workVars /\ UNCHANGED lifeVars

----------------------------------------------------------------------------
(* RunProcessor, Start and Stop.                                           *)

idleVars == <<api, store, notes, pending, heap, slices, reader, writes, faults, unresolved>>

\* Start up to the goroutine of the informer.
StartCache ==
  /\ main = "start"
  /\ main' = "syncing"
  /\ running' = running \cup {"cache"}
  /\ UNCHANGED signalled /\ UNCHANGED idleVars

\* WaitForCacheSync: the informer has listed the policies; their handlers
\* need not have run.
CacheSynced ==
  /\ main = "syncing" /\ ~signalled
  /\ \A p \in Policies : store[p].live \/ ~api[p].live
  /\ main' = "connecting"
  /\ UNCHANGED <<signalled, running>> /\ UNCHANGED idleVars

\* NATS is connected and the workers start.  (The retry controller's goroutine
\* is left out: it ends with the context as the informer's does.)
StartWorkers ==
  /\ main = "connecting"
  /\ main' = "serving"
  /\ running' = running \cup Workers
  /\ UNCHANGED signalled /\ UNCHANGED idleVars

\* Start returns an error, and the process ends.
StartFails ==
  /\ main \in {"syncing", "connecting"}
  /\ main' = "exited"
  /\ running' = {}
  /\ reader' = [w \in Workers |-> Idle]
  /\ UNCHANGED signalled
  /\ UNCHANGED <<api, store, notes, pending, heap, slices, writes, faults, unresolved>>

Sigterm ==
  /\ ~signalled /\ main # "exited"
  /\ signalled' = TRUE
  /\ UNCHANGED <<main, running>> /\ UNCHANGED idleVars

GoroutineEnds_NotWorkers(g) ==
  /\ signalled /\ g = "cache"
  /\ running' = running \ {g}
  /\ UNCHANGED <<main, signalled>> /\ UNCHANGED idleVars

\* A goroutine notices that the context is cancelled, a worker when it has
\* finished its message.  Nothing ends the health server but its Shutdown.
GoroutineEnds(g) ==
  /\ signalled /\ g \in running \ {"health"}
  /\ g \in Workers => reader[g].at = "idle"
  /\ running' = running \ {g}
  /\ UNCHANGED <<main, signalled>> /\ UNCHANGED idleVars

Stop ==
  /\ main = "serving" /\ signalled
  /\ main' = "waiting"
  /\ UNCHANGED <<signalled, running>> /\ UNCHANGED idleVars

\* wg.Wait, which counts the health server too.
WaitReturns ==
  /\ main = "waiting" /\ running = {}
  /\ main' = "draining"
  /\ UNCHANGED <<signalled, running>> /\ UNCHANGED idleVars

\* Shutdown of the health server, then the input and the output connection
\* are drained, or closed after drainTimeout.
Drain ==
  /\ main = "draining"
  /\ main' = "exited"
  /\ running' = running \ {"health"}
  /\ UNCHANGED signalled /\ UNCHANGED idleVars

----------------------------------------------------------------------------
Handlers == \/ OnPolicyAdd \/ OnPolicyUpdateRemove \/ OnPolicyUpdateUnresolved
            \/ OnPolicyUpdateAdd \/ OnPolicyDelete

Work(w) == EvaluateNext(w) \/ Finish(w)

Next ==
  \/ \E p \in Policies : WritePolicy(p) \/ Notify(p) \/ Resync(p)
  \/ Handlers
  \/ \E w \in Workers : Get(w) \/ Work(w)
  \/ StartCache \/ CacheSynced \/ StartWorkers \/ StartFails \/ Sigterm
  \/ \E g \in running : GoroutineEnds(g)
  \/ Stop \/ WaitReturns \/ Drain

Spec == Init /\ [][Next]_vars

\* Goroutines are scheduled, evaluations and drains end.  Nothing is assumed
\* of users, of the signal or of the discovery API.
FairSpec ==
  /\ Spec
  /\ WF_vars(Handlers)
  /\ \A p \in Policies : WF_vars(Notify(p))
  /\ \A w \in Workers : WF_vars(Work(w))
  /\ WF_vars(\E g \in running : GoroutineEnds(g))
  /\ WF_vars(Stop) /\ WF_vars(WaitReturns) /\ WF_vars(Drain)

----------------------------------------------------------------------------
\* Slices lie within their arrays and hold compiled policies, and the two
\* indexes of the cache hold the same ones at every step (Add, Remove).
TypeOK ==
  /\ api \in [Policies -> Version] /\ store \in [Policies -> Version]
  /\ \A ix \in Index :
       /\ slices[ix].arr \in 0 .. Len(heap[ix])
       /\ slices[ix].arr = 0 <=> slices[ix].len = 0
       /\ slices[ix].arr # 0 => slices[ix].len <= Len(heap[ix][slices[ix].arr])
       /\ Entries(ix) \subseteq Compiled
  /\ Entries("policies") = Entries("policiesByKind")
  /\ Cardinality(pending) <= 1
  /\ unresolved \subseteq Policies

\* When the handlers have caught up, a policy that no discovery error has hit
\* is in the cache once, in its current version, if it is ready, and not at all
\* otherwise: no version is left over, none is there twice, in either index
\* (onPolicyAdd, onPolicyUpdate, onPolicyDelete and the two removals).
CacheFollowsPolicies ==
  notes = <<>> =>
    \A ix \in Index, p \in Policies \ unresolved :
      LET e  == Elements(heap[ix], slices[ix])
          at == {i \in DOMAIN e : e[i].name = p}
      IN  IF IsPolicyReady(store[p])
          THEN Cardinality(at) = 1 /\ \A i \in at : e[i].rv = store[p].rv
          ELSE at = {}

\* Whatever the handlers do to the array under a worker's loop, the worker
\* meets only policies that were in the cache at some time since its Get, and
\* without a removal it meets the policies of its Get, in their order.
ReadsAreCached ==
  \A w \in Workers : reader[w].at # "idle" =>
    LET r == reader[w]
        met == {r.read[i] : i \in DOMAIN r.read}
    IN  /\ met \subseteq r.cached
        /\ r.calm => r.read = SubSeq(r.snap, 1, Len(r.read))

\* SIGTERM ends the processor, the connections drained, when no health server
\* was configured.
StopReturns ==
  (signalled /\ main = "serving" /\ "health" \notin running) ~> (main = "exited")

\* "PolicyCache provides thread-safe caching": a policy that was in the cache
\* from a worker's Get to the end of its loop is evaluated, unless one before
\* it matched.
StandingIsEvaluated ==
  \A w \in Workers :
    (reader[w].at = "next" /\ reader[w].i > reader[w].slice.len) =>
      \A c \in reader[w].standing : \E i \in DOMAIN reader[w].read : reader[w].read[i] = c
============================================================================
