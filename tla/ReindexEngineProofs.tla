------------------------ MODULE ReindexEngineProofs ------------------------
(***************************************************************************)
(* Proofs about Reindex, for every set of rows, policies and jobs, every   *)
(* page size and every bound: an audit log has at most one activity in the *)
(* merged table, whatever the processor, repeated deliveries and repeated  *)
(* runs publish for it; and a run that succeeds leaves the activities of   *)
(* its window in the table.                                                *)
(***************************************************************************)
EXTENDS Reindex, PageProofs, SequenceTheorems, FunctionTheorems

\* Whatever publishes an activity gives it the key of its source: for an audit
\* log that is a function of the log alone.
Keyed(a) ==
  \/ \E r \in AuditLogs : a.key = BuildFromAudit(r)
  \/ a.key.origin[1] = "event"

Todo == Range(batch.todo)

\* Activities on their way and in the table have such keys, and the table has
\* one row for each.
KeysOK ==
  /\ audits \subseteq AuditLogs /\ IsFiniteSet(audits)
  /\ events \subseteq Events /\ IsFiniteSet(events)
  /\ batch.todo \in Seq(Todo)
  /\ \A a \in live \cup stream \cup activities \cup Todo : Keyed(a)
  /\ \A a, b \in activities : a.key = b.key => a = b

-----------------------------------------------------------------------------
(* What a run still has to do.  A row of its window is ahead of the cursor *)
(* or has its activity: in the batch, in the stream or in the table, where *)
(* something else may have replaced it.                                    *)

InRun == phase \in {"audit", "event", "succeeded"}

\* Activities on their way and in the table.
Held == Todo \cup stream \cup activities

\* An activity that the rules of the run make.
Own(a) ==
  /\ a.ver = rules.ver
  /\ \/ \E r \in AuditLogs : a.key = BuildFromAudit(r) /\ a.pol \in EvaluateAudit(r, rules)
     \/ \E r \in Events : a.key.origin = <<"event", r.id>> /\ a.pol \in MatchEvent(r, rules)

\* a is the activity of policy p in this run, or was inserted in its place.
Serves(a, p) ==
  \/ a \in Held /\ <<a.by, a.ver, a.pol>> = <<run, rules.ver, p>>
  \/ a \in activities /\ a.key \in foreign

AuditDone(r) ==
  \A p \in EvaluateAudit(r, rules) : \E a \in Held : a.key = BuildFromAudit(r) /\ Serves(a, p)

EventDone(r) ==
  \A p \in MatchEvent(r, rules) : \E a \in Held : a.key.origin = <<"event", r.id>> /\ Serves(a, p)

\* The window of a run does not move.
Wanted(r) == InWindow(r, QuerySpec(job), now)

\* The fields of a batch.
IsBatch(b) == b = [todo |-> b.todo, size |-> b.size, next |-> b.next]

RunOK ==
  /\ run \in Nat
  /\ IsBatch(batch)
  /\ phase \in {"idle", "failed"} \/ (InRun /\ job \in Jobs /\ run > 0)
  /\ DOMAIN rules.order \subseteq Nat
  /\ batch = NoBatch \/ (Running /\ batch.size # 0)
  /\ begin \subseteq audits \cup events
  /\ \A a \in live : a.by = 0
  /\ \A a \in Held : a.by \in 0 .. run

OwnOK == InRun => \A a \in Held : a.by = run => Own(a)

\* Audit logs are ahead of the cursor until their page is in hand.
AuditAhead(r) ==
  /\ phase = "audit"
  /\ IF batch = NoBatch
     THEN \A c \in cursor : AfterCursor(r, c.pos)
     ELSE batch.next # {} /\ \A c \in batch.next : AfterCursor(r, c.pos)

AuditsFed ==
  InRun /\ ~job.dryRun /\ AuditsReadable =>
    \A r \in begin \cap AuditLogs : Wanted(r) => AuditDone(r) \/ AuditAhead(r)

\* Events are read in order, and the offset counts those that have been.
EventsRead(next) ==
  \E done \in SUBSET {r \in events : Wanted(r)} :
    /\ Leading(done, {r \in events : Wanted(r)}) /\ Cardinality(done) = OffsetOf(next)
    /\ \A r \in done : EventDone(r)

EventsAllRead == \A r \in events : Wanted(r) => EventDone(r)

EventsFed ==
  InRun /\ ~job.dryRun /\ EventsReadable =>
    \/ phase = "audit"
    \/ phase = "event" /\ batch = NoBatch /\ EventsRead(cursor)
    \/ phase = "event" /\ batch # NoBatch /\ batch.next # {} /\ EventsRead(batch.next)
    \/ phase = "event" /\ batch # NoBatch /\ batch.next = {} /\ EventsAllRead
    \/ phase = "succeeded" /\ EventsAllRead

FeedInv == KeysOK /\ RunOK /\ OwnOK /\ AuditsFed /\ EventsFed

-----------------------------------------------------------------------------
(* Pages.                                                                  *)

\* What a query hands out are rows of its table.
LEMMA AuditPageRows ==
  ASSUME NEW table, NEW spec, NEW scope, NEW cur, NEW t,
         NEW reply \in CreateAuditLogQuery(table, spec, scope, cur, t)
  PROVE  reply.rows \subseteq table
<1>1. CASE reply = Refused
  BY <1>1 DEF Refused
<1>2. CASE reply \in QueryAuditLogs(table, spec, scope, cur, t)
  <2> DEFINE S == AuditRows(table, spec, scope, cur, t)
             limit == PageLimit(spec.limit)
             key(r) == AuditOrder(r, spec, scope)
             some(X, n) == Taken(X, n, key)
             kept(f) == {r \in f : Decodes(r)}
             page(f, P) == [ok |-> TRUE, rows |-> P,
                            token |-> IF Cardinality(kept(f)) > limit
                                      THEN EncodeCursor(LastOf(P, key), spec, t) ELSE {}]
  <2>1. QueryAuditLogs(table, spec, scope, cur, t) =
          UNION {{page(f, P) : P \in some(kept(f), limit)} : f \in some(S, limit + 1)}
    BY Zenon DEF QueryAuditLogs, FetchPage, Taken, LastOf
  <2>2. \A X, n : some(X, n) \subseteq SUBSET X
    BY DEF Taken
  <2>3. \A f, P : page(f, P).rows = P
    OBVIOUS
  <2> HIDE DEF page, some
  <2>4. PICK f \in some(S, limit + 1) : \E P \in some(kept(f), limit) : reply = page(f, P)
    BY <1>2, <2>1, Zenon
  <2>5. f \subseteq S /\ reply.rows \subseteq kept(f)
    BY <2>2, <2>3, <2>4
  <2> QED
    BY <2>5 DEF AuditRows
<1> QED
  BY <1>1, <1>2 DEF CreateAuditLogQuery

LEMMA EventPageRows ==
  ASSUME NEW table, NEW spec, NEW scope, NEW cur, NEW t,
         NEW reply \in CreateEventQuery(table, spec, scope, cur, t)
  PROVE  reply.rows \subseteq table
<1>1. CASE reply = Refused
  BY <1>1 DEF Refused
<1>2. CASE reply \in QueryEvents(table, spec, scope, cur, t)
  <2> DEFINE S == EventRows(table, spec, scope, t)
             limit == ResolveEventQueryLimit(spec.limit)
             some(X, n) == Taken(X, n, EventQueryOrder)
             skipped == CHOOSE P \in some(S, OffsetOf(cur)) : TRUE
             kept(f) == {r \in f : Decodes(r)}
             page(f, P) == [ok |-> TRUE, rows |-> P,
                            token |-> IF Cardinality(kept(f)) > limit
                                      THEN EncodeEventQueryCursor(cur, spec, t) ELSE {}]
  <2>1. QueryEvents(table, spec, scope, cur, t) =
          UNION {{page(f, P) : P \in some(kept(f), limit)} : f \in some(S \ skipped, limit + 1)}
    BY Zenon DEF QueryEvents, FetchPage, Taken, LastOf
  <2>2. \A X, n : some(X, n) \subseteq SUBSET X
    BY DEF Taken
  <2>3. \A f, P : page(f, P).rows = P
    OBVIOUS
  <2> HIDE DEF page, some, skipped
  <2>4. PICK f \in some(S \ skipped, limit + 1) :
          \E P \in some(kept(f), limit) : reply = page(f, P)
    BY <1>2, <2>1, Zenon
  <2>5. f \subseteq S /\ reply.rows \subseteq kept(f)
    BY <2>2, <2>3, <2>4
  <2> QED
    BY <2>5 DEF EventRows
<1> QED
  BY <1>1, <1>2 DEF CreateEventQuery

-----------------------------------------------------------------------------
(* The batch of a page.                                                    *)

\* What a row of a batch turns into.
Act(r, pols, key) == Activity(key[r], run, rules.ver, CHOOSE p \in pols[r] : TRUE)

\* A batch is a sequence of the activities of the rows that a policy matches,
\* one for each.
LEMMA MadeFacts ==
  ASSUME NEW rows, IsFiniteSet(rows), NEW sortKey, NEW pols, NEW key,
         NEW made \in Made(rows, sortKey, pols, key)
  PROVE  /\ made \in Seq(Range(made))
         /\ \A a : a \in Range(made) <=>
                   \E r \in rows : pols[r] # {} /\ a = Act(r, pols, key)
<1> DEFINE hits == {r \in rows : pols[r] # {}}
           act(r) == Act(r, pols, key)
           n == Cardinality(hits)
<1>1. PICK q \in [1 .. n -> hits] :
        /\ made = [i \in DOMAIN q |-> act(q[i])]
        /\ \A i, j \in 1 .. n : i < j => q[i] # q[j]
  <2>1. PICK q \in Sorted(hits, sortKey) : made = [i \in DOMAIN q |-> act(q[i])]
    BY DEF Made, Act
  <2> HIDE DEF act, hits
  <2>2. /\ q \in [1 .. n -> hits]
        /\ \A i, j \in DOMAIN q : i < j => q[i] # q[j]
    BY DEF Sorted
  <2>3. DOMAIN q = 1 .. n
    BY <2>2
  <2>4. \A i, j \in 1 .. n : i < j => q[i] # q[j]
    BY <2>2, <2>3
  <2> QED
    BY <2>1, <2>2, <2>4
<1>2. IsFiniteSet(hits)
  BY FS_Subset
<1>3. n \in Nat
  BY <1>2, FS_CardinalityType
<1>4. DOMAIN made = 1 .. n /\ \A i \in 1 .. n : made[i] = act(q[i]) /\ q[i] \in hits
  BY <1>1
<1> HIDE DEF act, hits, n
<1>5. made = [i \in 1 .. n |-> made[i]]
  BY <1>1, <1>4
<1>6. Range(made) = {made[i] : i \in 1 .. n}
  BY <1>4 DEF Range
<1>7. made \in Seq(Range(made))
  BY <1>3, <1>5, <1>6
<1>8. \A r \in hits : \E i \in 1 .. n : q[i] = r
  <2> DEFINE R == {q[i] : i \in 1 .. n}
  <2>1. R \subseteq hits
    BY <1>4
  <2>2. \A i, j \in 1 .. n : q[i] = q[j] => i = j
    BY <1>1, <1>3
  <2>3. q \in [1 .. n -> R] /\ \A t \in R : \E i \in 1 .. n : q[i] = t
    BY <1>1
  <2> HIDE DEF R
  <2>4. q \in Bijection(1 .. n, R)
    BY <2>2, <2>3, Fun_IsBij
  <2>5. Cardinality(R) = n
    BY <1>3, <2>4, FS_CountingElements DEF ExistsBijection
  <2>6. R = hits
    BY <1>2, <2>1, <2>5, FS_Subset DEF n
  <2> QED
    BY <2>6 DEF R
<1>9. \A a : a \in Range(made) <=> \E r \in hits : a = act(r)
  BY <1>4, <1>6, <1>8
<1> QED
  BY <1>7, <1>9 DEF act, hits

\* The same of the rest of a sequence.
LEMMA TailFacts ==
  ASSUME NEW S, NEW q \in Seq(S), q # <<>>
  PROVE  /\ Head(q) \in Range(q) /\ Tail(q) \in Seq(Range(Tail(q)))
         /\ Range(q) = {Head(q)} \cup Range(Tail(q))
<1>1. /\ Len(q) \in Nat \ {0} /\ Head(q) = q[1] /\ DOMAIN q = 1 .. Len(q)
      /\ Tail(q) \in Seq(S) /\ Len(Tail(q)) = Len(q) - 1
      /\ \A i \in 1 .. Len(q) - 1 : Tail(q)[i] = q[i + 1]
  OBVIOUS
<1>2. PICK t : t = Tail(q)
  OBVIOUS
<1>3. t \in Seq(S) /\ Len(t) = Len(q) - 1 /\ \A i \in 1 .. Len(t) : t[i] = q[i + 1]
  BY <1>1, <1>2
<1>4. t = [i \in 1 .. Len(t) |-> t[i]] /\ Range(t) = {t[i] : i \in 1 .. Len(t)} /\ Len(t) \in Nat
  BY <1>3, SMTT(40) DEF Range
<1>5. t \in Seq(Range(t))
  BY <1>4
<1>6. \A i \in 1 .. Len(t) : i + 1 \in 1 .. Len(q)
  BY <1>1, <1>3
<1>7. Range(t) \subseteq Range(q)
  BY <1>1, <1>3, <1>4, <1>6 DEF Range
<1>8. Head(q) \in Range(q)
  BY <1>1 DEF Range
<1>9. ASSUME NEW x \in Range(q) PROVE x = Head(q) \/ x \in Range(t)
  <2>1. PICK i \in 1 .. Len(q) : x = q[i]
    BY <1>1 DEF Range
  <2>2. CASE i # 1
    <3>1. i - 1 \in 1 .. Len(t) /\ (i - 1) + 1 = i
      BY <1>1, <1>3, <2>2
    <3>2. t[i - 1] = x
      BY <1>3, <2>1, <3>1
    <3> QED
      BY <1>4, <3>1, <3>2
  <2> QED
    BY <1>1, <2>1, <2>2
<1> QED
  BY <1>2, <1>5, <1>7, <1>8, <1>9

-----------------------------------------------------------------------------
(* The inductive invariant.                                                *)

LEMMA EmptyTodo ==
  /\ NoBatch.todo = <<>> /\ Range(<<>>) = {} /\ <<>> \in Seq({}) /\ IsBatch(NoBatch)
BY DEF NoBatch, Range, IsBatch

LEMMA InitKeys == Init => KeysOK
<1> SUFFICES ASSUME Init PROVE KeysOK
  OBVIOUS
<1>1. batch.todo = <<>> /\ Todo = {}
  BY EmptyTodo DEF Init, Todo
<1>2. IsFiniteSet(audits) /\ IsFiniteSet(events)
  BY ReindexAssumption, FS_Subset DEF Init
<1> QED
  BY <1>1, <1>2, EmptyTodo DEF Init, KeysOK

\* Keyed is about the activity alone.
LEMMA EventKeyed ==
  ASSUME NEW a, NEW ts, NEW tenant, NEW id,
         a.key = [ts |-> ts, tenant |-> tenant, origin |-> <<"event", id>>]
  PROVE  Keyed(a)
BY DEF Keyed

\* A batch becomes the one in hand, or goes away.
LEMMA BatchKeys ==
  ASSUME KeysOK, UNCHANGED <<audits, events, live, activities>>,
         \A a \in stream' : a \in stream \/ Keyed(a),
         batch'.todo \in Seq(Range(batch'.todo)),
         \A a \in Range(batch'.todo) : Keyed(a)
  PROVE  KeysOK'
<1>1. \A a : Keyed(a)' <=> Keyed(a)
  BY DEF Keyed, BuildFromAudit
<1>2. Todo' = Range(batch'.todo)
  BY DEF Todo
<1>3. \A a \in live' \cup stream' \cup activities' \cup Todo' : Keyed(a)
  BY <1>2 DEF KeysOK
<1> QED
  BY <1>1, <1>2, <1>3 DEF KeysOK

LEMMA NoBatchKeys ==
  ASSUME KeysOK, UNCHANGED <<audits, events, live, activities>>,
         \A a \in stream' : a \in stream \/ Keyed(a), batch' = NoBatch
  PROVE  KeysOK'
<1>1. batch'.todo = <<>> /\ Range(batch'.todo) = {}
  BY EmptyTodo
<1>2. batch'.todo \in Seq(Range(batch'.todo)) /\ \A a \in Range(batch'.todo) : Keyed(a)
  BY <1>1, EmptyTodo
<1> QED
  BY <1>2, BatchKeys

\* The parts that the live pipeline changes.
LEMMA LiveKeys ==
  ASSUME KeysOK, UNCHANGED <<batch, stream>>,
         audits' \subseteq AuditLogs, IsFiniteSet(audits'),
         events' \subseteq Events, IsFiniteSet(events'),
         \A a \in live' : a \in live \/ Keyed(a), activities' = activities
  PROVE  KeysOK'
<1>1. \A a : Keyed(a)' <=> Keyed(a)
  BY DEF Keyed, BuildFromAudit
<1>2. Todo' = Todo
  BY DEF Todo
<1>3. \A a \in live' \cup stream' \cup activities' \cup Todo' : Keyed(a)
  BY <1>2 DEF KeysOK
<1> QED
  BY <1>1, <1>2, <1>3 DEF KeysOK

LEMMA InsertKeys ==
  ASSUME KeysOK, NEW a \in live \cup stream, Insert(a), UNCHANGED <<audits, events, batch>>,
         live' \subseteq live, stream' \subseteq stream
  PROVE  KeysOK'
<1>1. \A b : Keyed(b)' <=> Keyed(b)
  BY DEF Keyed, BuildFromAudit
<1>2. Todo' = Todo
  BY DEF Todo
<1>3. activities' = {b \in activities : b.key # a.key} \cup {a}
  BY DEF Insert
<1>4. \A b \in live' \cup stream' \cup activities' \cup Todo' : Keyed(b)
  BY <1>2, <1>3 DEF KeysOK
<1>5. \A b, c \in activities' : b.key = c.key => b = c
  BY <1>3 DEF KeysOK
<1> QED
  BY <1>1, <1>2, <1>4, <1>5 DEF KeysOK

\* What the worker evaluates a page to.
LEMMA AuditBatchKeys ==
  ASSUME NEW rows, rows \subseteq AuditLogs, IsFiniteSet(rows),
         NEW made \in EvaluateAuditBatch(rows)
  PROVE  made \in Seq(Range(made)) /\ \A a \in Range(made) : Keyed(a)
<1> DEFINE sortKey == [r \in rows |-> AuditOrder(r, QuerySpec(job), Platform)]
           pols == [r \in rows |-> EvaluateAudit(r, rules)]
           key == [r \in rows |-> BuildFromAudit(r)]
<1>1. made \in Made(rows, sortKey, pols, key)
  BY DEF EvaluateAuditBatch
<1>2. \A r \in rows : key[r] = BuildFromAudit(r)
  OBVIOUS
<1> HIDE DEF sortKey, pols, key
<1>3. made \in Seq(Range(made)) /\ \A a \in Range(made) : \E r \in rows : a.key = key[r]
  BY <1>1, MadeFacts DEF Act, Activity
<1> QED
  BY <1>2, <1>3 DEF Keyed

LEMMA EventBatchKeys ==
  ASSUME NEW rows, IsFiniteSet(rows), NEW made \in EvaluateEventBatch(rows)
  PROVE  made \in Seq(Range(made)) /\ \A a \in Range(made) : Keyed(a)
<1> DEFINE sortKey == [r \in rows |-> EventQueryOrder(r)]
           pols == [r \in rows |-> MatchEvent(r, rules)]
           key == [r \in rows |-> BuildFromEvent(r)]
<1>1. made \in Made(rows, sortKey, pols, key)
  BY DEF EvaluateEventBatch
<1>2. \A r \in rows : key[r] = BuildFromEvent(r)
  OBVIOUS
<1> HIDE DEF sortKey, pols, key
<1>3. made \in Seq(Range(made)) /\ \A a \in Range(made) : \E r \in rows : a.key = key[r]
  BY <1>1, MadeFacts DEF Act, Activity
<1>4. ASSUME NEW a \in Range(made) PROVE Keyed(a)
  <2>1. PICK r \in rows : a.key = BuildFromEvent(r)
    BY <1>2, <1>3
  <2> QED
    BY <2>1 DEF BuildFromEvent, Keyed
<1> QED
  BY <1>3, <1>4

\* The batch of a page is published whole, or not at all in a dry run.
LEMMA FetchedKeys ==
  ASSUME KeysOK, UNCHANGED <<audits, events, live, activities, stream>>,
         NEW reply, NEW made, Fetched(reply, made),
         made \in Seq(Range(made)), \A a \in Range(made) : Keyed(a)
  PROVE  KeysOK'
<1>1. CASE batch' = NoBatch
  BY <1>1, NoBatchKeys
<1>2. CASE batch'.todo \in {<<>>, made}
  <2>1. batch'.todo \in Seq(Range(batch'.todo)) /\ \A a \in Range(batch'.todo) : Keyed(a)
    BY <1>2, EmptyTodo
  <2> QED
    BY <2>1, BatchKeys
<1> QED
  BY <1>1, <1>2 DEF Fetched

LEMMA StepKeys == KeysOK /\ [Next]_vars => KeysOK'
<1> SUFFICES ASSUME KeysOK, [Next]_vars PROVE KeysOK'
  OBVIOUS
<1>k. /\ audits \subseteq AuditLogs /\ IsFiniteSet(audits)
      /\ events \subseteq Events /\ IsFiniteSet(events)
      /\ batch.todo \in Seq(Todo) /\ \A a \in Todo : Keyed(a)
  BY DEF KeysOK
<1>1. ASSUME NEW r \in AuditLogs, StoreAuditLog(r) PROVE KeysOK'
  <2>1. audits' = audits \cup {r} /\ UNCHANGED <<events, live, stream, activities, batch>>
    BY <1>1 DEF StoreAuditLog, worker
  <2>2. IsFiniteSet(audits')
    BY <1>k, <2>1, FS_AddElement
  <2> QED
    BY <1>k, <2>1, <2>2, LiveKeys
<1>2. ASSUME NEW r \in Events, StoreEvent(r) PROVE KeysOK'
  <2>1. events' = events \cup {r} /\ UNCHANGED <<audits, live, stream, activities, batch>>
    BY <1>2 DEF StoreEvent, worker
  <2>2. IsFiniteSet(events')
    BY <1>k, <2>1, FS_AddElement
  <2> QED
    BY <1>k, <2>1, <2>2, LiveKeys
<1>3. ASSUME NEW r \in AuditLogs, ProcessAuditLog(r) PROVE KeysOK'
  <2>1. /\ live' = live \cup {Activity(BuildFromAudit(r), 0, policy, p) : p \in EvaluateAudit(r, AllRules)}
        /\ UNCHANGED <<audits, events, stream, activities, batch>>
    BY <1>3 DEF ProcessAuditLog, Process, stored, worker
  <2>2. \A a \in live' : a \in live \/ Keyed(a)
    BY <2>1 DEF Activity, Keyed
  <2> QED
    BY <1>k, <2>1, <2>2, LiveKeys
<1>4. ASSUME NEW r \in Events, ProcessEvent(r) PROVE KeysOK'
  <2>1. /\ live' = live \cup {Activity(BuildActivity(r), 0, policy, p) : p \in MatchEvent(r, AllRules)}
        /\ UNCHANGED <<audits, events, stream, activities, batch>>
    BY <1>4 DEF ProcessEvent, Process, stored, worker
  <2>2. \A a \in live' : a \in live \/ Keyed(a)
    BY <2>1 DEF Activity, BuildActivity, Keyed
  <2> QED
    BY <1>k, <2>1, <2>2, LiveKeys
<1>5. CASE EditPolicies \/ Tick
  <2>1. UNCHANGED <<audits, events, live, stream, activities, batch>>
    BY <1>5 DEF EditPolicies, Tick, stored, worker
  <2> QED
    BY <1>k, <2>1, LiveKeys
<1>6. ASSUME NEW a \in live \cup stream, Deliver(a) \/ Redeliver(a) PROVE KeysOK'
  <2>1. Insert(a) /\ UNCHANGED <<audits, events, batch>>
        /\ live' \subseteq live /\ stream' \subseteq stream
    BY <1>6 DEF Deliver, Redeliver, stored, worker
  <2> QED
    BY <2>1, InsertKeys
<1>7. ASSUME NEW j, NEW U, Run(j, U) \/ RunFails(j) PROVE KeysOK'
  <2>1. batch' = NoBatch /\ UNCHANGED <<audits, events, live, stream, activities>>
    BY <1>7 DEF Run, RunFails, stored
  <2> QED
    BY <2>1, NoBatchKeys
<1>8. ASSUME Fail, UNCHANGED <<audits, events, live, activities>>,
             \A a \in stream' : a \in stream \/ Keyed(a)
      PROVE  KeysOK'
  BY <1>8, NoBatchKeys DEF Fail
<1>9. CASE FetchAuditLogBatch
  <2>1. UNCHANGED <<audits, events, live, stream, activities>>
    BY <1>9 DEF FetchAuditLogBatch, stored
  <2>2. PICK reply \in CreateAuditLogQuery(audits, QuerySpec(job), Platform, cursor, now) :
          \/ \E made \in EvaluateAuditBatch(reply.rows) : Fetched(reply, made)
          \/ Fail
    BY <1>9 DEF FetchAuditLogBatch
  <2>3. reply.rows \subseteq audits
    BY AuditPageRows
  <2>4. reply.rows \subseteq AuditLogs /\ IsFiniteSet(reply.rows)
    BY <1>k, <2>3, FS_Subset
  <2>5. ASSUME NEW made \in EvaluateAuditBatch(reply.rows), Fetched(reply, made) PROVE KeysOK'
    <3>1. made \in Seq(Range(made)) /\ \A a \in Range(made) : Keyed(a)
      BY <2>4, AuditBatchKeys
    <3> QED
      BY <2>1, <2>5, <3>1, FetchedKeys
  <2> QED
    BY <1>8, <2>1, <2>2, <2>5
<1>10. CASE FetchEventBatch
  <2>1. UNCHANGED <<audits, events, live, stream, activities>>
    BY <1>10 DEF FetchEventBatch, stored
  <2>2. PICK reply \in CreateEventQuery(events, QuerySpec(job), Platform, cursor, now) :
          \/ \E made \in EvaluateEventBatch(reply.rows) : Fetched(reply, made)
          \/ Fail
    BY <1>10 DEF FetchEventBatch
  <2>3. reply.rows \subseteq events
    BY EventPageRows
  <2>4. IsFiniteSet(reply.rows)
    BY <1>k, <2>3, FS_Subset
  <2>5. ASSUME NEW made \in EvaluateEventBatch(reply.rows), Fetched(reply, made) PROVE KeysOK'
    <3>1. made \in Seq(Range(made)) /\ \A a \in Range(made) : Keyed(a)
      BY <2>4, EventBatchKeys
    <3> QED
      BY <2>1, <2>5, <3>1, FetchedKeys
  <2> QED
    BY <1>8, <2>1, <2>2, <2>5
<1>11. CASE FetchFails \/ WorkerDies
  BY <1>8, <1>11 DEF FetchFails, WorkerDies, stored
<1>12. ASSUME batch.todo # <<>>
       PROVE  /\ Keyed(Head(batch.todo)) /\ Tail(batch.todo) \in Seq(Range(Tail(batch.todo)))
              /\ \A a \in Range(Tail(batch.todo)) : Keyed(a)
  <2>1. /\ Head(batch.todo) \in Range(batch.todo)
        /\ Tail(batch.todo) \in Seq(Range(Tail(batch.todo)))
        /\ Range(batch.todo) = {Head(batch.todo)} \cup Range(Tail(batch.todo))
    BY <1>k, <1>12, TailFacts
  <2> QED
    BY <1>k, <2>1 DEF Todo
<1>13. CASE PublishWithRetry
  <2>1. /\ batch.todo # <<>> /\ stream' = stream \cup {Head(batch.todo)}
        /\ batch' = [batch EXCEPT !.todo = Tail(batch.todo)]
        /\ UNCHANGED <<audits, events, live, activities>>
    BY <1>13 DEF PublishWithRetry, stored
  <2>2. batch'.todo = Tail(batch.todo)
    BY <2>1
  <2> QED
    BY <1>12, <2>1, <2>2, BatchKeys
<1>14. ASSUME NEW reached \in BOOLEAN, PublishFails(reached) PROVE KeysOK'
  <2>1. /\ batch.todo # <<>> /\ UNCHANGED <<audits, events, live, activities>>
        /\ \A a \in stream' : a \in stream \/ a = Head(batch.todo)
    BY <1>14 DEF PublishFails, stored
  <2>2. \A a \in stream' : a \in stream \/ Keyed(a)
    BY <1>12, <2>1
  <2>3. CASE Fail
    BY <1>8, <2>1, <2>2, <2>3
  <2>4. CASE batch' = batch
    BY <1>k, <2>1, <2>2, <2>4, BatchKeys DEF Todo
  <2> QED
    BY <1>14, <2>3, <2>4 DEF PublishFails, GiveUp
<1>15. CASE EndBatch
  <2>1. UNCHANGED <<audits, events, live, stream, activities>> /\ (Fail \/ batch' = NoBatch)
    BY <1>15 DEF EndBatch, stored
  <2> QED
    BY <1>8, <2>1, NoBatchKeys
<1>16. CASE UNCHANGED vars
  <2>1. UNCHANGED <<audits, events, live, stream, activities, batch>>
    BY <1>16 DEF vars, stored, worker
  <2> QED
    BY <1>k, <2>1, LiveKeys
<1> QED
  BY <1>1, <1>2, <1>3, <1>4, <1>5, <1>6, <1>7, <1>9, <1>10, <1>11, <1>13, <1>14, <1>15, <1>16
     DEF Next

LEMMA KeysImply == KeysOK => OneActivityPerAuditLog
<1> SUFFICES ASSUME KeysOK, NEW a \in activities, NEW b \in activities,
                    a.key.origin = b.key.origin, a.key.origin[1] = "audit"
             PROVE  a = b
  BY DEF OneActivityPerAuditLog
<1>1. a.key.origin[1] # "event" /\ b.key.origin[1] # "event"
  OBVIOUS
<1>2. PICK r \in AuditLogs : a.key = BuildFromAudit(r)
  BY <1>1 DEF KeysOK, Keyed
<1>3. PICK s \in AuditLogs : b.key = BuildFromAudit(s)
  BY <1>1 DEF KeysOK, Keyed
<1>4. r.id = s.id
  BY <1>2, <1>3 DEF BuildFromAudit
<1>5. a.key = b.key
  BY <1>2, <1>3, <1>4, RowsAssumption
<1> QED
  BY <1>5 DEF KeysOK

-----------------------------------------------------------------------------
(* The feed.                                                               *)

\* At most one policy stops the search.
LEMMA FirstOne ==
  ASSUME NEW order, DOMAIN order \subseteq Nat, NEW stops,
         NEW p \in First(order, stops), NEW q \in First(order, stops)
  PROVE  p = q
<1>1. PICK i \in DOMAIN order :
        /\ p = order[i] /\ order[i] \in stops
        /\ \A l \in DOMAIN order : l < i => order[l] \notin stops
  BY DEF First
<1>2. PICK k \in DOMAIN order :
        /\ q = order[k] /\ order[k] \in stops
        /\ \A l \in DOMAIN order : l < k => order[l] \notin stops
  BY DEF First
<1>3. i = k
  BY <1>1, <1>2
<1> QED
  BY <1>1, <1>2, <1>3

\* A row has at most one activity, and none without policies.
LEMMA OnePolicy ==
  ASSUME NEW r, NEW rs, DOMAIN rs.order \subseteq Nat
  PROVE  /\ \A p, q \in EvaluateAudit(r, rs) : p = q
         /\ \A p, q \in MatchEvent(r, rs) : p = q
         /\ DOMAIN rs.order = {} => EvaluateAudit(r, rs) = {} /\ MatchEvent(r, rs) = {}
<1>1. \A p, q \in EvaluateAudit(r, rs) : p = q
  BY FirstOne DEF EvaluateAudit
<1>2. \A p, q \in MatchEvent(r, rs) : p = q
  BY FirstOne DEF MatchEvent
<1>3. ASSUME DOMAIN rs.order = {} PROVE EvaluateAudit(r, rs) = {} /\ MatchEvent(r, rs) = {}
  BY <1>3 DEF EvaluateAudit, MatchEvent, First
<1> QED
  BY <1>1, <1>2, <1>3

\* The window of a run does not move with the clock.
LEMMA WindowFixed ==
  ASSUME job \in Jobs, job' = job
  PROVE  \A r : Wanted(r)' <=> Wanted(r)
<1>1. ~job.start.rel /\ ~job.end.rel
  BY JobsAssumption
<1>2. QuerySpec(job').start = job.start /\ QuerySpec(job').end = job.end
      /\ QuerySpec(job).start = job.start /\ QuerySpec(job).end = job.end
  BY DEF QuerySpec
<1> QED
  BY <1>1, <1>2 DEF Wanted, InWindow, ParseFlexibleTime

\* Rows of the two tables that a run reads.
LEMMA BeginRows ==
  ASSUME KeysOK, RunOK
  PROVE  begin \cap AuditLogs \subseteq audits /\ begin \cap Events \subseteq events
BY RowsAssumption DEF KeysOK, RunOK

LEMMA TablesDistinct ==
  ASSUME KeysOK
  PROVE  Distinct(audits) /\ Distinct(events)
BY RowsAssumption DEF KeysOK, Distinct

\* What the pages of a run are taken from.
LEMMA PageRows ==
  ASSUME NEW cur
  PROVE  /\ AuditRows(audits, QuerySpec(job), Platform, cur, now) =
              {r \in audits : Wanted(r) /\ \A c \in cur : AfterCursor(r, c.pos)}
         /\ EventRows(events, QuerySpec(job), Platform, now) = {r \in events : Wanted(r)}
<1>1. \A r : /\ AuditScope(r, Platform) /\ EventScope(r, Platform)
             /\ MatchesQuery(r, QuerySpec(job))
  BY DEF AuditScope, EventScope, MatchesQuery, QuerySpec, Platform
<1> QED
  BY <1>1 DEF AuditRows, EventRows, Wanted

\* The activities of a batch are the run's, and every row that a policy
\* matches has one.
LEMMA AuditBatchMade ==
  ASSUME NEW rows, rows \subseteq AuditLogs, IsFiniteSet(rows),
         NEW made \in EvaluateAuditBatch(rows), DOMAIN rules.order \subseteq Nat
  PROVE  /\ \A a \in Range(made) : a.by = run /\ Own(a)
         /\ \A r \in rows : \A p \in EvaluateAudit(r, rules) : \E a \in Range(made) :
              a.key = BuildFromAudit(r) /\ <<a.by, a.ver, a.pol>> = <<run, rules.ver, p>>
<1> DEFINE sortKey == [r \in rows |-> AuditOrder(r, QuerySpec(job), Platform)]
           pols == [r \in rows |-> EvaluateAudit(r, rules)]
           key == [r \in rows |-> BuildFromAudit(r)]
           act(r) == Act(r, pols, key)
<1>1. made \in Made(rows, sortKey, pols, key)
  BY DEF EvaluateAuditBatch
<1>2. \A r \in rows : key[r] = BuildFromAudit(r) /\ pols[r] = EvaluateAudit(r, rules)
  OBVIOUS
<1>3. \A r \in rows : pols[r] # {} =>
        /\ act(r).key = BuildFromAudit(r) /\ act(r).by = run /\ act(r).ver = rules.ver
        /\ act(r).pol \in EvaluateAudit(r, rules)
  BY <1>2 DEF Act, Activity
<1> HIDE DEF sortKey, pols, key
<1>4. \A a : a \in Range(made) <=> \E r \in rows : pols[r] # {} /\ a = act(r)
  BY <1>1, MadeFacts
<1> HIDE DEF act
<1>5. ASSUME NEW a \in Range(made) PROVE a.by = run /\ Own(a)
  BY <1>3, <1>4 DEF Own
<1>6. ASSUME NEW r \in rows, NEW p \in EvaluateAudit(r, rules)
      PROVE  \E a \in Range(made) :
               a.key = BuildFromAudit(r) /\ <<a.by, a.ver, a.pol>> = <<run, rules.ver, p>>
  <2>1. pols[r] # {}
    BY <1>2
  <2>2. act(r) \in Range(made) /\ act(r).pol = p
    BY <1>3, <1>4, <2>1, OnePolicy
  <2> QED
    BY <1>3, <2>1, <2>2
<1> QED
  BY <1>5, <1>6

\* made has an activity of the run's for each event that a policy matches.
EventsMade(rows, made) ==
  \A r \in rows : \A p \in MatchEvent(r, rules) : \E a \in Range(made) :
    a.key.origin = <<"event", r.id>> /\ a.by = run /\ a.ver = rules.ver /\ a.pol = p

LEMMA EventBatchMade ==
  ASSUME NEW rows, rows \subseteq Events, IsFiniteSet(rows),
         NEW made \in EvaluateEventBatch(rows), DOMAIN rules.order \subseteq Nat
  PROVE  /\ \A a \in Range(made) : a.by = run /\ Own(a)
         /\ EventsMade(rows, made)
<1> DEFINE sortKey == [r \in rows |-> EventQueryOrder(r)]
           pols == [r \in rows |-> MatchEvent(r, rules)]
           key == [r \in rows |-> BuildFromEvent(r)]
           act(r) == Act(r, pols, key)
<1>1. made \in Made(rows, sortKey, pols, key)
  BY DEF EvaluateEventBatch
<1>2. \A r \in rows : key[r].origin = <<"event", r.id>> /\ pols[r] = MatchEvent(r, rules)
  BY DEF BuildFromEvent
<1>3. \A r \in rows : pols[r] # {} =>
        /\ act(r).key.origin = <<"event", r.id>> /\ act(r).by = run /\ act(r).ver = rules.ver
        /\ act(r).pol \in MatchEvent(r, rules)
  BY <1>2 DEF Act, Activity
<1> HIDE DEF sortKey, pols, key
<1>4. \A a : a \in Range(made) <=> \E r \in rows : pols[r] # {} /\ a = act(r)
  BY <1>1, MadeFacts
<1> HIDE DEF act
<1>5. ASSUME NEW a \in Range(made) PROVE a.by = run /\ Own(a)
  BY <1>3, <1>4 DEF Own
<1>6. ASSUME NEW r \in rows, NEW p \in MatchEvent(r, rules)
      PROVE  \E a \in Range(made) :
               /\ a.key.origin = <<"event", r.id>> /\ a.by = run
               /\ a.ver = rules.ver /\ a.pol = p
  <2>1. pols[r] # {}
    BY <1>2
  <2>2. act(r) \in Range(made) /\ act(r).pol = p
    BY <1>3, <1>4, <2>1, OnePolicy
  <2> QED
    BY <1>3, <2>1, <2>2
<1>7. EventsMade(rows, made)
  BY <1>6 DEF EventsMade
<1> QED
  BY <1>5, <1>7

\* Activities of the run that have the key of a row are those of the policy
\* that makes the row's.
LEMMA OwnKey ==
  ASSUME NEW a, Own(a), DOMAIN rules.order \subseteq Nat
  PROVE  /\ a.ver = rules.ver
         /\ \A r \in AuditLogs : a.key = BuildFromAudit(r) =>
              \A p \in EvaluateAudit(r, rules) : a.pol = p
         /\ \A r \in Events : a.key.origin = <<"event", r.id>> =>
              \A p \in MatchEvent(r, rules) : a.pol = p
<1>1. \A r : BuildFromAudit(r).origin = <<"audit", r.id>>
  BY DEF BuildFromAudit
<1>2. \A i, j : <<"audit", i>> # <<"event", j>>
  OBVIOUS
<1>3. ASSUME NEW r \in AuditLogs, a.key = BuildFromAudit(r), NEW p \in EvaluateAudit(r, rules)
      PROVE  a.pol = p
  <2>1. PICK s \in AuditLogs : a.key = BuildFromAudit(s) /\ a.pol \in EvaluateAudit(s, rules)
    BY <1>1, <1>2, <1>3 DEF Own
  <2>2. <<"audit", s.id>> = <<"audit", r.id>>
    BY <1>1, <1>3, <2>1, Zenon
  <2>3. s = r
    BY <2>2, RowsAssumption
  <2> QED
    BY <1>3, <2>1, <2>3, OnePolicy
<1>4. ASSUME NEW r \in Events, a.key.origin = <<"event", r.id>>, NEW p \in MatchEvent(r, rules)
      PROVE  a.pol = p
  <2>1. PICK s \in Events : a.key.origin = <<"event", s.id>> /\ a.pol \in MatchEvent(s, rules)
    BY <1>1, <1>2, <1>4 DEF Own
  <2>2. s.id = r.id
    BY <1>4, <2>1
  <2>3. s = r
    BY <2>2, RowsAssumption
  <2> QED
    BY <1>4, <2>1, <2>3, OnePolicy
<1> QED
  BY <1>3, <1>4 DEF Own

\* What a row has, it keeps as long as nothing is inserted.
LEMMA DoneStays ==
  ASSUME UNCHANGED <<run, rules, foreign, activities>>, Held \subseteq Held'
  PROVE  \A r : (AuditDone(r) => AuditDone(r)') /\ (EventDone(r) => EventDone(r)')
<1>1. \A a, p : Serves(a, p) => Serves(a, p)'
  BY DEF Serves
<1>2. \A r : BuildFromAudit(r)' = BuildFromAudit(r)
  BY DEF BuildFromAudit
<1> QED
  BY <1>1, <1>2 DEF AuditDone, EventDone

\* Nor when something is inserted in its place.
LEMMA DoneInserted ==
  ASSUME KeysOK, RunOK, OwnOK, InRun, NEW a \in live \cup stream, Insert(a),
         UNCHANGED <<run, rules, batch, phase>>, stream \subseteq stream' \cup {a}
  PROVE  /\ \A r \in AuditLogs : AuditDone(r) => AuditDone(r)'
         /\ \A r \in Events : EventDone(r) => EventDone(r)'
<1>1. /\ activities' = {b \in activities : b.key # a.key} \cup {a}
      /\ a.by # run => foreign' = foreign \cup {a.key}
      /\ a.by = run => foreign' = foreign
  BY DEF Insert, InRun
<1>2. Todo' = Todo
  BY DEF Todo
<1>3. a \in Held' /\ a \in activities' /\ foreign \subseteq foreign'
  BY <1>1 DEF Held
<1>4. \A b \in Held : b \in Held' \/ (b \in activities /\ b.key = a.key)
  BY <1>1, <1>2 DEF Held
<1>5. \A b \in activities : b \in activities' \/ b.key = a.key
  BY <1>1
<1>6. a.by = run => Own(a) /\ a \in Held
  BY DEF OwnOK, RunOK, Held, InRun
<1>7. DOMAIN rules.order \subseteq Nat
  BY DEF RunOK
<1>8. \A b, p : Serves(b, p) =>
        \/ b \in Held' /\ Serves(b, p)'
        \/ b \in Held /\ b.key = a.key
  BY <1>3, <1>4, <1>5 DEF Serves, Held
<1>9. ASSUME a.by # run PROVE \A p : Serves(a, p)'
  BY <1>1, <1>3, <1>9 DEF Serves
<1>10. ASSUME a.by = run, NEW p, a.ver = rules.ver, a.pol = p PROVE Serves(a, p)'
  BY <1>3, <1>10 DEF Serves
<1>11. \A r : BuildFromAudit(r)' = BuildFromAudit(r)
  BY DEF BuildFromAudit
<1>12. ASSUME NEW r \in AuditLogs, AuditDone(r) PROVE AuditDone(r)'
  <2> SUFFICES ASSUME NEW p \in EvaluateAudit(r, rules)
               PROVE  \E b \in Held' : b.key = BuildFromAudit(r) /\ Serves(b, p)'
    BY <1>11 DEF AuditDone
  <2>1. PICK b \in Held : b.key = BuildFromAudit(r) /\ Serves(b, p)
    BY <1>12 DEF AuditDone
  <2>2. CASE b.key = a.key
    <3>1. a.by = run => a.ver = rules.ver /\ a.pol = p
      BY <1>6, <1>7, <2>1, <2>2, OwnKey
    <3> QED
      BY <1>3, <1>9, <1>10, <2>1, <2>2, <3>1
  <2> QED
    BY <1>8, <2>1, <2>2
<1>13. ASSUME NEW r \in Events, EventDone(r) PROVE EventDone(r)'
  <2> SUFFICES ASSUME NEW p \in MatchEvent(r, rules)
               PROVE  \E b \in Held' : b.key.origin = <<"event", r.id>> /\ Serves(b, p)'
    BY DEF EventDone
  <2>1. PICK b \in Held : b.key.origin = <<"event", r.id>> /\ Serves(b, p)
    BY <1>13 DEF EventDone
  <2>2. CASE b.key = a.key
    <3>1. a.by = run => a.ver = rules.ver /\ a.pol = p
      BY <1>6, <1>7, <2>1, <2>2, OwnKey
    <3> QED
      BY <1>3, <1>9, <1>10, <2>1, <2>2, <3>1
  <2> QED
    BY <1>8, <2>1, <2>2
<1> QED
  BY <1>12, <1>13

\* Steps that keep the run where it is and what its rows have: the parts of
\* the invariant that are about its progress.
LEMMA ProgressStays ==
  ASSUME KeysOK, RunOK, AuditsFed, EventsFed,
         UNCHANGED <<phase, job, cursor, begin>>, batch' = NoBatch <=> batch = NoBatch,
         batch'.next = batch.next, audits \subseteq audits',
         InRun /\ EventsReadable' => events' = events,
         InRun => /\ \A r \in AuditLogs : AuditDone(r) => AuditDone(r)'
                  /\ \A r \in Events : EventDone(r) => EventDone(r)'
  PROVE  AuditsFed' /\ EventsFed'
<1>1. InRun' <=> InRun
  BY DEF InRun
<1>2. ASSUME InRun, ~job.dryRun, AuditsReadable' PROVE AuditsFed'
  <2>1. AuditsReadable
    BY <1>2 DEF AuditsReadable
  <2>2. \A r : Wanted(r)' <=> Wanted(r)
    BY <1>2, WindowFixed DEF RunOK, InRun
  <2>3. \A r : AuditAhead(r)' <=> AuditAhead(r)
    BY DEF AuditAhead
  <2> QED
    BY <1>2, <2>1, <2>2, <2>3 DEF AuditsFed
<1>3. ASSUME InRun, ~job.dryRun, EventsReadable' PROVE EventsFed'
  <2>1. events' = events
    BY <1>3
  <2>2. EventsReadable
    BY <1>3, <2>1 DEF EventsReadable
  <2>3. \A r : Wanted(r)' <=> Wanted(r)
    BY <1>3, WindowFixed DEF RunOK, InRun
  <2>4. {r \in events : Wanted(r)}' = {r \in events : Wanted(r)}
    BY <2>1, <2>3
  <2>5. \A r \in events : EventDone(r) => EventDone(r)'
    BY <1>3 DEF KeysOK
  <2>6. \A next : EventsRead(next) => EventsRead(next)'
    BY <2>4, <2>5 DEF EventsRead
  <2>7. EventsAllRead => EventsAllRead'
    BY <2>1, <2>3, <2>5 DEF EventsAllRead
  <2> QED
    BY <1>3, <2>2, <2>6, <2>7 DEF EventsFed
<1> QED
  BY <1>1, <1>2, <1>3 DEF AuditsFed, EventsFed

\* The live pipeline and the clock leave the run alone.
LEMMA QuietFeed ==
  ASSUME FeedInv, KeysOK',
         UNCHANGED <<stream, activities, run, phase, job, rules, cursor, batch, begin, foreign>>,
         audits \subseteq audits', events \subseteq events',
         EventsReadable' => events' = events,
         \A a \in live' : a \in live \/ a.by = 0
  PROVE  FeedInv'
<1>1. Todo' = Todo /\ Held' = Held
  BY DEF Todo, Held
<1>2. (InRun' <=> InRun) /\ (Running' <=> Running) /\ \A a : Own(a)' <=> Own(a)
  BY DEF InRun, Running, Own, BuildFromAudit
<1>3. RunOK'
  BY <1>1, <1>2 DEF FeedInv, RunOK
<1>4. OwnOK'
  BY <1>1, <1>2 DEF FeedInv, OwnOK
<1>5. \A r : (AuditDone(r) => AuditDone(r)') /\ (EventDone(r) => EventDone(r)')
  BY <1>1, DoneStays
<1>6. AuditsFed' /\ EventsFed'
  BY <1>5, ProgressStays DEF FeedInv
<1> QED
  BY <1>3, <1>4, <1>6 DEF FeedInv

\* An activity is inserted.
LEMMA InsertFeed ==
  ASSUME FeedInv, KeysOK', NEW a \in live \cup stream, Insert(a),
         UNCHANGED <<audits, events, worker>>,
         live' \subseteq live, stream' \subseteq stream, stream \subseteq stream' \cup {a}
  PROVE  FeedInv'
<1>1. UNCHANGED <<run, phase, job, rules, cursor, batch, attempt, begin>>
  BY DEF worker
<1>2. Todo' = Todo
  BY <1>1 DEF Todo
<1>3. /\ activities' = {b \in activities : b.key # a.key} \cup {a}
      /\ foreign' \subseteq foreign \cup {a.key}
  BY DEF Insert
<1>4. (InRun' <=> InRun) /\ (Running' <=> Running) /\ \A b : Own(b)' <=> Own(b)
  BY <1>1 DEF InRun, Running, Own, BuildFromAudit
<1>5. \A b \in Held' : b \in Held \/ (b = a /\ a \in live)
  BY <1>2, <1>3 DEF Held
<1>6. RunOK'
  BY <1>1, <1>4, <1>5 DEF FeedInv, RunOK
<1>7. OwnOK'
  BY <1>1, <1>4, <1>5 DEF FeedInv, RunOK, OwnOK, InRun
<1>8. InRun => /\ \A r \in AuditLogs : AuditDone(r) => AuditDone(r)'
               /\ \A r \in Events : EventDone(r) => EventDone(r)'
  BY <1>1, DoneInserted DEF FeedInv
<1>9. AuditsFed' /\ EventsFed'
  BY <1>1, <1>8, ProgressStays DEF FeedInv
<1> QED
  BY <1>6, <1>7, <1>9 DEF FeedInv

\* A run that fails has nothing left to show.
LEMMA FailFeed ==
  ASSUME FeedInv, KeysOK', Fail, UNCHANGED <<audits, events, live, activities>>,
         stream' \subseteq stream \cup Todo
  PROVE  FeedInv'
<1>1. /\ phase' = "failed" /\ rules' = NoRules /\ begin' = {} /\ foreign' = {}
      /\ batch' = NoBatch /\ run' = run
  BY DEF Fail
<1>2. Todo' = {} /\ Held' \subseteq Held
  BY <1>1, EmptyTodo DEF Todo, Held
<1>3. ~InRun' /\ DOMAIN rules'.order = {}
  BY <1>1 DEF InRun, NoRules
<1>4. RunOK'
  BY <1>1, <1>2, <1>3, EmptyTodo DEF FeedInv, RunOK
<1> QED
  BY <1>1, <1>3, <1>4 DEF FeedInv, OwnOK, AuditsFed, EventsFed

\* A run begins: all rows are ahead, and no activity is its own.
LEMMA BeginFeed ==
  ASSUME FeedInv, KeysOK', NEW j \in Jobs, NEW U, Run(j, U)
  PROVE  FeedInv'
<1>1. /\ run' = run + 1 /\ job' = j /\ begin' = audits \cup events /\ foreign' = {}
      /\ cursor' = {} /\ batch' = NoBatch
      /\ phase' = IF FetchActivePolicies(j) = {} THEN "succeeded" ELSE "audit"
      /\ UNCHANGED <<audits, events, live, stream, activities>>
  BY DEF Run, stored
<1>2. DOMAIN rules'.order = {k \in FetchActivePolicies(j) : Policies[k] \notin U}
  BY DEF Run
<1>3. DOMAIN rules'.order \subseteq Nat /\ (phase' = "succeeded" => DOMAIN rules'.order = {})
  <2>1. DOMAIN Policies \subseteq Nat
    BY ReindexAssumption
  <2> QED
    BY <1>1, <1>2, <2>1 DEF FetchActivePolicies
<1>4. Todo' = {} /\ Held' \subseteq Held
  BY <1>1, EmptyTodo DEF Todo, Held
<1>5. run \in Nat /\ \A a \in Held : a.by \in 0 .. run
  BY DEF FeedInv, RunOK
<1>6. RunOK'
  BY <1>1, <1>3, <1>4, <1>5, EmptyTodo DEF FeedInv, RunOK, InRun
<1>7. \A a \in Held' : a.by # run'
  BY <1>1, <1>4, <1>5
<1>8. OwnOK'
  BY <1>1, <1>7 DEF OwnOK
<1>9. phase' = "succeeded" => \A r : AuditDone(r)' /\ EventDone(r)'
  <2>1. phase' = "succeeded" =>
          \A r : EvaluateAudit(r, rules') = {} /\ MatchEvent(r, rules') = {}
    BY <1>3, OnePolicy
  <2> QED
    BY <2>1 DEF AuditDone, EventDone
<1>10. AuditsFed'
  BY <1>1, <1>9 DEF AuditsFed, AuditAhead
<1>11. EventsFed'
  BY <1>1, <1>9 DEF EventsFed, EventsAllRead
<1> QED
  BY <1>6, <1>8, <1>10, <1>11 DEF FeedInv

LEMMA NoBeginFeed ==
  ASSUME FeedInv, KeysOK', NEW j \in Jobs, RunFails(j)
  PROVE  FeedInv'
<1>1. /\ phase' = "failed" /\ rules' = NoRules /\ begin' = {} /\ foreign' = {}
      /\ batch' = NoBatch /\ run' = run + 1
      /\ UNCHANGED <<audits, events, live, stream, activities>>
  BY DEF RunFails, stored
<1>2. Todo' = {} /\ Held' \subseteq Held
  BY <1>1, EmptyTodo DEF Todo, Held
<1>3. ~InRun' /\ DOMAIN rules'.order = {}
  BY <1>1 DEF InRun, NoRules
<1>4. RunOK'
  BY <1>1, <1>2, <1>3, EmptyTodo DEF FeedInv, RunOK
<1> QED
  BY <1>1, <1>3, <1>4 DEF FeedInv, OwnOK, AuditsFed, EventsFed

\* An activity of the batch is published.
LEMMA PublishFeed ==
  ASSUME FeedInv, KeysOK', UNCHANGED <<audits, events, live, activities, run, phase, job,
                                       rules, cursor, begin, foreign>>,
         Running, Held' = Held, batch'.next = batch.next, batch'.size = batch.size,
         batch # NoBatch, batch' # NoBatch, IsBatch(batch')
  PROVE  FeedInv'
<1>1. (InRun' <=> InRun) /\ (Running' <=> Running) /\ \A b : Own(b)' <=> Own(b)
  BY DEF InRun, Running, Own, BuildFromAudit
<1>2. RunOK' /\ OwnOK'
  BY <1>1 DEF FeedInv, RunOK, OwnOK
<1>3. \A r : (AuditDone(r) => AuditDone(r)') /\ (EventDone(r) => EventDone(r)')
  BY DoneStays
<1>4. AuditsFed' /\ EventsFed'
  BY <1>3, ProgressStays DEF FeedInv
<1> QED
  BY <1>2, <1>4 DEF FeedInv

\* A page comes in: the batch in hand is made of it.
LEMMA FetchedBatch ==
  ASSUME FeedInv, KeysOK', batch = NoBatch, NEW reply, IsFiniteSet(reply.rows), reply.rows # {},
         NEW made, Fetched(reply, made), made \in Seq(Range(made)),
         \A a \in Range(made) : a.by = run /\ Own(a), Running,
         UNCHANGED <<audits, events, live, stream, activities, run, job, rules, begin, foreign>>
  PROVE  /\ RunOK' /\ OwnOK'
         /\ batch' # NoBatch /\ batch'.next = reply.token
         /\ phase' = phase /\ cursor' = cursor
         /\ ~job.dryRun => Todo' = Range(made)
         /\ \A r : (AuditDone(r) => AuditDone(r)') /\ (EventDone(r) => EventDone(r)')
<1>1. /\ batch' = [todo |-> IF job.dryRun THEN <<>> ELSE made,
                   size |-> Cardinality(reply.rows), next |-> reply.token]
      /\ phase' = phase /\ cursor' = cursor
  BY DEF Fetched
<1>2. batch'.size # 0
  <2>1. Cardinality(reply.rows) # 0
    BY FS_EmptySet
  <2> QED
    BY <1>1, <2>1
<1>3. batch' # NoBatch /\ batch'.next = reply.token
  BY <1>1, <1>2 DEF NoBatch
<1>4. Todo' = Range(batch'.todo) /\ Todo = {}
  BY EmptyTodo DEF Todo
<1>5. (~job.dryRun => Todo' = Range(made)) /\ Todo' \subseteq Range(made)
  <2>1. CASE job.dryRun
    BY <1>1, <1>4, <2>1, EmptyTodo
  <2>2. CASE ~job.dryRun
    BY <1>1, <1>4, <2>2
  <2> QED
    BY <2>1, <2>2
<1>6. Held \subseteq Held' /\ \A a \in Held' : a \in Held \/ a \in Range(made)
  BY <1>4, <1>5 DEF Held
<1>7. (InRun' <=> InRun) /\ (Running' <=> Running) /\ \A b : Own(b)' <=> Own(b)
  BY <1>1 DEF InRun, Running, Own, BuildFromAudit
<1>8. IsBatch(batch')
  BY <1>1 DEF IsBatch
<1>9. RunOK'
  BY <1>1, <1>2, <1>6, <1>7, <1>8 DEF FeedInv, RunOK
<1>10. OwnOK'
  BY <1>6, <1>7 DEF FeedInv, OwnOK
<1>11. \A r : (AuditDone(r) => AuditDone(r)') /\ (EventDone(r) => EventDone(r)')
  BY <1>6, DoneStays
<1> QED
  BY <1>1, <1>3, <1>5, <1>9, <1>10, <1>11

\* An empty page ends this half of the run.
LEMMA FetchedNothing ==
  ASSUME FeedInv, KeysOK', batch = NoBatch, batch' = NoBatch, Running, phase' = NextPhase,
         UNCHANGED <<audits, events, live, stream, activities, run, job, rules, begin, foreign>>
  PROVE  /\ RunOK' /\ OwnOK' /\ InRun'
         /\ \A r : (AuditDone(r) => AuditDone(r)') /\ (EventDone(r) => EventDone(r)')
<1>1. Held' = Held /\ InRun /\ InRun' /\ \A b : Own(b)' <=> Own(b)
  BY DEF Held, Todo, InRun, Running, NextPhase, Own, BuildFromAudit
<1>2. RunOK' /\ OwnOK'
  BY <1>1 DEF FeedInv, RunOK, OwnOK, InRun
<1> QED
  BY <1>1, <1>2, DoneStays

\* Nothing of the events has been read when their half of the run begins.
LEMMA EventsBegin ==
  EventsRead({})
<1> DEFINE F == {r \in events : Wanted(r)}
<1>1. Leading({}, F) /\ Cardinality({}) = 0 /\ {} \in SUBSET F
  BY FS_EmptySet DEF Leading
<1>2. OffsetOf({}) = 0
  BY DEF OffsetOf
<1> QED
  BY <1>1, <1>2 DEF EventsRead

\* The window and the page size of the queries.
LEMMA SpecFacts ==
  ASSUME job \in Jobs
  PROVE  QuerySpec(job).limit \in Nat /\ QuerySpec(job).filter = NoFilter
BY JobsAssumption DEF QuerySpec

\* Audit logs of one time are read in the order of their ids.
LEMMA TiesInOrder ==
  ASSUME KeysOK, job \in Jobs, AuditsReadable, NEW r \in audits, NEW s \in audits,
         r.ts = s.ts, r.id < s.id
  PROVE  ~Precedes(AuditOrder(r, QuerySpec(job), Platform), AuditOrder(s, QuerySpec(job), Platform))
<1>1. \A x : AuditOrder(x, QuerySpec(job), Platform) = <<Hour(x.ts), x.ts, x.grp, x.id>>
  BY SpecFacts DEF AuditOrder, Platform, NoFilter
<1>2. /\ r.grp <= s.grp /\ r.ts \in Nat /\ r.id \in Nat /\ s.id \in Nat
      /\ r.grp \in Nat /\ s.grp \in Nat
  BY RowsAssumption DEF AuditsReadable, KeysOK, Columns
<1>3. Hour(r.ts) = Hour(s.ts) /\ Hour(r.ts) \in Nat
  BY <1>2, HourOrder
<1> QED
  BY <1>1, <1>2, <1>3, PrecedesFour

\* A page of audit logs.
LEMMA AuditPageFeed ==
  ASSUME FeedInv, KeysOK', FetchAuditLogBatch
  PROVE  FeedInv'
<1> DEFINE S == {r \in audits : Wanted(r) /\ \A c \in cursor : AfterCursor(r, c.pos)}
<1>1. /\ phase = "audit" /\ batch = NoBatch
      /\ UNCHANGED <<audits, events, live, stream, activities>>
  BY DEF FetchAuditLogBatch, stored
<1>2. PICK reply \in CreateAuditLogQuery(audits, QuerySpec(job), Platform, cursor, now) :
        \/ /\ reply.ok
           /\ \E made \in EvaluateAuditBatch(reply.rows) : Fetched(reply, made)
           /\ UNCHANGED <<run, job, rules, attempt, begin, foreign>>
        \/ Fail
  BY DEF FetchAuditLogBatch
<1>3. CASE Fail
  BY <1>1, <1>3, FailFeed
<1>4. ASSUME reply.ok, NEW made \in EvaluateAuditBatch(reply.rows), Fetched(reply, made),
             UNCHANGED <<run, job, rules, attempt, begin, foreign>>
      PROVE  FeedInv'
  <2>1. reply # Refused
    BY <1>4 DEF Refused
  <2>2. reply.rows \subseteq audits
    BY AuditPageRows
  <2>3. /\ reply.rows \subseteq AuditLogs /\ IsFiniteSet(reply.rows)
        /\ Running /\ InRun /\ job \in Jobs /\ DOMAIN rules.order \subseteq Nat
    BY <1>1, <2>2, FS_Subset DEF FeedInv, KeysOK, RunOK, Running, InRun
  <2>4. \A r : Wanted(r)' <=> Wanted(r)
    BY <1>4, <2>3, WindowFixed
  <2>5. ASSUME AuditsReadable
        PROVE  \/ reply.token = {} /\ reply.rows = S
               \/ \E c : /\ reply.token = {c} /\ reply.rows # {}
                         /\ \A r \in S \ reply.rows : AfterCursor(r, c.pos)
    <3>1. S = AuditRows(audits, QuerySpec(job), Platform, cursor, now)
      BY PageRows
    <3>2. S \subseteq audits
      OBVIOUS
    <3> HIDE DEF S
    <3>3. Distinct(audits) /\ \A r \in audits : r.stage >= r.ts
      BY TablesDistinct, RowsAssumption DEF FeedInv, KeysOK
    <3>4. \A r \in S : Decodes(r)
      BY <2>5, <3>2 DEF AuditsReadable
    <3>5. \A r, s \in S : r.ts = s.ts /\ r.id < s.id =>
            ~Precedes(AuditOrder(r, QuerySpec(job), Platform),
                      AuditOrder(s, QuerySpec(job), Platform))
      BY <2>3, <2>5, <3>2, TiesInOrder DEF FeedInv
    <3> QED
      BY <2>1, <2>3, <3>1, <3>3, <3>4, <3>5, SpecFacts, AuditPageNext
  <2>6. ASSUME ~job.dryRun, AuditsReadable, NEW r \in begin \cap AuditLogs, Wanted(r)
        PROVE  AuditDone(r) \/ r \in S
    <3>1. r \in audits
      BY BeginRows DEF FeedInv
    <3> QED
      BY <1>1, <2>3, <2>6, <3>1 DEF FeedInv, AuditsFed, AuditAhead
  <2>7. AuditsReadable' <=> AuditsReadable
    BY <1>1 DEF AuditsReadable
  <2>8. CASE reply.rows = {}
    <3>1. phase' = "event" /\ cursor' = {} /\ batch' = NoBatch /\ phase' = NextPhase
      BY <1>1, <1>4, <2>8 DEF Fetched, NextPhase
    <3>2. /\ RunOK' /\ OwnOK'
          /\ \A r : (AuditDone(r) => AuditDone(r)')
      BY <1>1, <1>4, <2>3, <3>1, FetchedNothing
    <3>3. AuditsFed'
      BY <1>4, <2>4, <2>5, <2>6, <2>7, <2>8, <3>2 DEF AuditsFed
    <3>4. EventsRead({})'
      BY EventsBegin, PTL
    <3>5. EventsFed'
      BY <3>1, <3>4 DEF EventsFed
    <3> QED
      BY <3>2, <3>3, <3>5 DEF FeedInv
  <2>9. CASE reply.rows # {}
    <3>1. made \in Seq(Range(made))
      BY <2>3, AuditBatchKeys
    <3>2. /\ \A a \in Range(made) : a.by = run /\ Own(a)
          /\ \A r \in reply.rows : \A p \in EvaluateAudit(r, rules) : \E a \in Range(made) :
               a.key = BuildFromAudit(r) /\ <<a.by, a.ver, a.pol>> = <<run, rules.ver, p>>
      BY <2>3, AuditBatchMade
    <3>3. /\ RunOK' /\ OwnOK'
          /\ batch' # NoBatch /\ batch'.next = reply.token
          /\ phase' = phase /\ cursor' = cursor
          /\ ~job.dryRun => Todo' = Range(made)
          /\ \A r : AuditDone(r) => AuditDone(r)'
      BY <1>1, <1>4, <2>3, <2>9, <3>1, <3>2, FetchedBatch
    <3>4. ASSUME ~job.dryRun, NEW r \in reply.rows PROVE AuditDone(r)'
      <4>1. \A a \in Range(made) : a \in Held'
        BY <3>3, <3>4 DEF Held
      <4>2. \A p : \A a \in Range(made) :
              <<a.by, a.ver, a.pol>> = <<run, rules.ver, p>> => Serves(a, p)'
        BY <1>4, <4>1 DEF Serves
      <4>3. BuildFromAudit(r)' = BuildFromAudit(r)
        BY DEF BuildFromAudit
      <4> QED
        BY <1>4, <3>2, <4>1, <4>2, <4>3 DEF AuditDone
    <3>5. ASSUME AuditsReadable, NEW r \in S \ reply.rows PROVE AuditAhead(r)'
      BY <1>1, <2>5, <3>3, <3>5 DEF AuditAhead
    <3>6. AuditsFed'
      BY <1>4, <2>4, <2>6, <2>7, <3>3, <3>4, <3>5 DEF AuditsFed
    <3>7. EventsFed'
      BY <1>1, <3>3 DEF EventsFed
    <3> QED
      BY <3>3, <3>6, <3>7 DEF FeedInv
  <2> QED
    BY <2>8, <2>9
<1> QED
  BY <1>2, <1>3, <1>4

\* A page of events.
LEMMA EventPageFeed ==
  ASSUME FeedInv, KeysOK', FetchEventBatch
  PROVE  FeedInv'
<1> DEFINE F == {r \in events : Wanted(r)}
<1>1. /\ phase = "event" /\ batch = NoBatch
      /\ UNCHANGED <<audits, events, live, stream, activities>>
  BY DEF FetchEventBatch, stored
<1>2. PICK reply \in CreateEventQuery(events, QuerySpec(job), Platform, cursor, now) :
        \/ /\ reply.ok
           /\ \E made \in EvaluateEventBatch(reply.rows) : Fetched(reply, made)
           /\ UNCHANGED <<run, job, rules, attempt, begin, foreign>>
        \/ Fail
  BY DEF FetchEventBatch
<1>3. CASE Fail
  BY <1>1, <1>3, FailFeed
<1>4. ASSUME reply.ok, NEW made \in EvaluateEventBatch(reply.rows), Fetched(reply, made),
             UNCHANGED <<run, job, rules, attempt, begin, foreign>>
      PROVE  FeedInv'
  <2>1. reply # Refused
    BY <1>4 DEF Refused
  <2>2. reply.rows \subseteq events
    BY EventPageRows
  <2>3. /\ reply.rows \subseteq Events /\ IsFiniteSet(reply.rows)
        /\ Running /\ InRun /\ job \in Jobs /\ DOMAIN rules.order \subseteq Nat
    BY <1>1, <2>2, FS_Subset DEF FeedInv, KeysOK, RunOK, Running, InRun
  <2>4. \A r : Wanted(r)' <=> Wanted(r)
    BY <1>4, <2>3, WindowFixed
  <2>5. F' = F /\ F \subseteq events
    BY <1>1, <2>4
  <2>6. /\ AuditsReadable' <=> AuditsReadable
        /\ EventsReadable' <=> EventsReadable
    BY <1>1, <1>4 DEF AuditsReadable, EventsReadable
  <2>7. ~job.dryRun /\ AuditsReadable =>
          \A r \in begin \cap AuditLogs : Wanted(r) => AuditDone(r)
    BY <1>1, <2>3 DEF FeedInv, AuditsFed, AuditAhead
  <2>8. ASSUME ~job.dryRun, EventsReadable
        PROVE  \E done \in SUBSET F : GoesOn(reply, done, F) /\ \A r \in done : EventDone(r)
    <3>1. EventsRead(cursor)
      BY <1>1, <2>3, <2>8 DEF FeedInv, EventsFed
    <3>2. PICK done \in SUBSET F :
            /\ Leading(done, F) /\ Cardinality(done) = OffsetOf(cursor)
            /\ \A r \in done : EventDone(r)
      BY <3>1 DEF EventsRead
    <3>3. F = EventRows(events, QuerySpec(job), Platform, now)
      BY PageRows
    <3>4. Distinct(events)
      BY TablesDistinct DEF FeedInv
    <3> HIDE DEF F
    <3>5. GoesOn(reply, done, F)
      BY <2>1, <2>3, <3>2, <3>3, <3>4, SpecFacts, EventPageNext
    <3> QED
      BY <3>2, <3>5
  <2>9. CASE reply.rows = {}
    <3>1. phase' = "succeeded" /\ batch' = NoBatch /\ phase' = NextPhase
      BY <1>1, <1>4, <2>9 DEF Fetched, NextPhase
    <3>2. /\ RunOK' /\ OwnOK'
          /\ \A r : (AuditDone(r) => AuditDone(r)') /\ (EventDone(r) => EventDone(r)')
      BY <1>1, <1>4, <2>3, <3>1, FetchedNothing
    <3>3. AuditsFed'
      BY <1>4, <2>4, <2>6, <2>7, <3>2 DEF AuditsFed
    <3>4. ASSUME ~job.dryRun, EventsReadable PROVE EventsAllRead'
      <4>1. PICK done \in SUBSET F : GoesOn(reply, done, F) /\ \A r \in done : EventDone(r)
        BY <2>8, <3>4
      <4>2. \A r \in F : Decodes(r)
        BY <2>5, <3>4 DEF EventsReadable
      <4>3. F \subseteq done
        BY <2>9, <4>1, <4>2 DEF GoesOn
      <4> QED
        BY <1>1, <2>4, <3>2, <4>1, <4>3 DEF EventsAllRead
    <3>5. EventsFed'
      BY <1>4, <2>6, <3>1, <3>4 DEF EventsFed
    <3> QED
      BY <3>2, <3>3, <3>5 DEF FeedInv
  <2>10. CASE reply.rows # {}
    <3>1. made \in Seq(Range(made))
      BY <2>3, EventBatchKeys
    <3>2. /\ \A a \in Range(made) : a.by = run /\ Own(a)
          /\ EventsMade(reply.rows, made)
      BY <2>3, EventBatchMade
    <3>3. /\ RunOK' /\ OwnOK'
          /\ batch' # NoBatch /\ batch'.next = reply.token
          /\ phase' = phase /\ cursor' = cursor
          /\ ~job.dryRun => Todo' = Range(made)
          /\ \A r : (AuditDone(r) => AuditDone(r)') /\ (EventDone(r) => EventDone(r)')
      BY <1>1, <1>4, <2>3, <2>10, <3>1, <3>2, FetchedBatch
    <3>4. ASSUME ~job.dryRun, NEW r \in reply.rows PROVE EventDone(r)'
      <4>1. \A a \in Range(made) : a \in Held'
        BY <3>3, <3>4 DEF Held
      <4>2. \A p : \A a \in Range(made) :
              a.by = run /\ a.ver = rules.ver /\ a.pol = p => Serves(a, p)'
        BY <1>4, <4>1 DEF Serves
      <4>3. ASSUME NEW p \in MatchEvent(r, rules)
            PROVE  \E a \in Held' : a.key.origin = <<"event", r.id>> /\ Serves(a, p)'
        BY <3>2, <3>4, <4>1, <4>2, <4>3 DEF EventsMade
      <4> QED
        BY <1>4, <4>3 DEF EventDone
    <3>5. AuditsFed'
      BY <1>4, <2>4, <2>6, <2>7, <3>3 DEF AuditsFed
    <3>6. ASSUME ~job.dryRun, EventsReadable
          PROVE  \/ batch'.next # {} /\ EventsRead(reply.token)'
                 \/ batch'.next = {} /\ EventsAllRead'
      <4>1. PICK done \in SUBSET F : GoesOn(reply, done, F) /\ \A r \in done : EventDone(r)
        BY <2>8, <3>6
      <4>2. \A r \in F : Decodes(r)
        BY <2>5, <3>6 DEF EventsReadable
      <4>3. \A r \in done \cup reply.rows : EventDone(r)'
        BY <3>3, <3>4, <3>6, <4>1
      <4>4. CASE reply.token = {}
        <5>1. F \subseteq done \cup reply.rows
          BY <4>1, <4>2, <4>4 DEF GoesOn
        <5> QED
          BY <1>1, <2>4, <3>3, <4>3, <4>4, <5>1 DEF EventsAllRead
      <4>5. CASE reply.token # {}
        <5>1. /\ done \cup reply.rows \in SUBSET F /\ Leading(done \cup reply.rows, F)
              /\ \A c \in reply.token : c.pos = <<Cardinality(done \cup reply.rows)>>
          BY <4>1, <4>5 DEF GoesOn, Leading
        <5> DEFINE read == done \cup reply.rows
        <5> HIDE DEF read
        <5>2. \A c \in reply.token : c.pos[1] = Cardinality(read)
          <6>1. \A c \in reply.token : c.pos = <<Cardinality(read)>>
            BY <5>1, Zenon DEF read
          <6> QED
            BY <6>1
        <5>3. OffsetOf(reply.token) = Cardinality(read)
          <6>1. (CHOOSE c \in reply.token : TRUE) \in reply.token
            BY <4>5
          <6> QED
            BY <4>5, <5>2, <6>1 DEF OffsetOf
        <5>4. read \in SUBSET F' /\ Leading(read, F') /\ \A r \in read : EventDone(r)'
          BY <2>5, <4>3, <5>1 DEF read
        <5>5. EventsRead(reply.token)'
          BY <5>3, <5>4 DEF EventsRead
        <5> QED
          BY <3>3, <4>5, <5>5
      <4> QED
        BY <4>4, <4>5
    <3>7. EventsRead(reply.token)' => EventsRead(batch.next)'
      BY <3>3
    <3>8. EventsFed'
      BY <1>1, <1>4, <2>6, <3>3, <3>6, <3>7 DEF EventsFed
    <3> QED
      BY <3>3, <3>5, <3>8 DEF FeedInv
  <2> QED
    BY <2>9, <2>10
<1> QED
  BY <1>2, <1>3, <1>4

\* A batch is out: on to the next page, or to the next half of the run.
LEMMA EndBatchFeed ==
  ASSUME FeedInv, KeysOK', EndBatch
  PROVE  FeedInv'
<1>1. /\ Running /\ batch # NoBatch /\ batch.todo = <<>>
      /\ UNCHANGED <<audits, events, live, stream, activities>>
  BY DEF EndBatch, stored
<1>2. CASE Fail
  BY <1>1, <1>2, FailFeed
<1>3. CASE /\ phase' = IF batch.next = {} THEN NextPhase ELSE phase
           /\ cursor' = batch.next /\ batch' = NoBatch
           /\ UNCHANGED <<run, job, rules, attempt, begin, foreign>>
  <2>1. Todo = {} /\ Todo' = {} /\ Held' = Held
    BY <1>1, <1>3, EmptyTodo DEF Todo, Held
  <2>2. InRun /\ InRun' /\ job \in Jobs /\ \A b : Own(b)' <=> Own(b)
    BY <1>1, <1>3 DEF FeedInv, RunOK, InRun, Running, NextPhase, Own, BuildFromAudit
  <2>3. RunOK' /\ OwnOK'
    BY <1>1, <1>3, <2>1, <2>2, EmptyTodo DEF FeedInv, RunOK, OwnOK, InRun
  <2>4. \A r : (AuditDone(r) => AuditDone(r)') /\ (EventDone(r) => EventDone(r)')
    BY <1>1, <1>3, <2>1, DoneStays
  <2>5. \A r : Wanted(r)' <=> Wanted(r)
    BY <1>3, <2>2, WindowFixed
  <2>6. /\ AuditsReadable' <=> AuditsReadable
        /\ EventsReadable' <=> EventsReadable
    BY <1>1, <1>3 DEF AuditsReadable, EventsReadable
  <2>7. \A r : AuditAhead(r) => AuditAhead(r)'
    BY <1>1, <1>3 DEF AuditAhead
  <2>8. AuditsFed'
    BY <1>3, <2>2, <2>4, <2>5, <2>6, <2>7 DEF FeedInv, AuditsFed
  <2>9. {r \in events : Wanted(r)}' = {r \in events : Wanted(r)}
    BY <1>1, <2>5
  <2>10. ASSUME ~job.dryRun, EventsReadable PROVE EventsFed'
    <3>1. CASE phase = "audit"
      <4>1. EventsRead({})'
        BY EventsBegin, PTL
      <4> QED
        BY <1>3, <3>1, <4>1 DEF EventsFed, NextPhase
    <3>2. CASE phase = "event" /\ batch.next # {} /\ EventsRead(batch.next)
      <4>1. EventsRead(cursor)'
        BY <1>3, <2>4, <2>9, <3>2 DEF EventsRead
      <4> QED
        BY <1>3, <3>2, <4>1 DEF EventsFed
    <3>3. CASE phase = "event" /\ batch.next = {} /\ EventsAllRead
      <4>1. EventsAllRead'
        BY <1>1, <2>4, <2>5, <3>3 DEF EventsAllRead
      <4> QED
        BY <1>3, <3>3, <4>1 DEF EventsFed, NextPhase
    <3> QED
      BY <1>1, <2>2, <2>10, <3>1, <3>2, <3>3 DEF FeedInv, EventsFed, Running
  <2>11. EventsFed'
    BY <1>3, <2>6, <2>10 DEF EventsFed
  <2> QED
    BY <2>3, <2>8, <2>11 DEF FeedInv
<1> QED
  BY <1>2, <1>3 DEF EndBatch

LEMMA InitFeed == Init => FeedInv
<1> SUFFICES ASSUME Init PROVE FeedInv
  OBVIOUS
<1>1. /\ run = 0 /\ phase = "idle" /\ rules = NoRules /\ batch = NoBatch
      /\ live = {} /\ stream = {} /\ activities = {} /\ begin = {} /\ foreign = {}
  BY DEF Init
<1>2. Held = {}
  BY <1>1, EmptyTodo DEF Held, Todo
<1>3. ~InRun /\ DOMAIN rules.order = {}
  BY <1>1 DEF InRun, NoRules
<1>4. RunOK
  BY <1>1, <1>2, <1>3, EmptyTodo DEF RunOK
<1> QED
  BY <1>1, <1>3, <1>4, InitKeys DEF FeedInv, OwnOK, AuditsFed, EventsFed

\* Publishing moves an activity from the batch to the stream, or leaves it in
\* the batch, in the stream too if the answer was lost.
LEMMA PublishingFeed ==
  ASSUME FeedInv, KeysOK',
         PublishWithRetry \/ \E reached \in BOOLEAN : PublishFails(reached)
  PROVE  FeedInv'
<1>1. /\ batch.todo # <<>> /\ UNCHANGED <<audits, events, live, activities>>
  BY DEF PublishWithRetry, PublishFails, stored
<1>2. /\ Head(batch.todo) \in Todo
      /\ Todo = {Head(batch.todo)} \cup Range(Tail(batch.todo))
  BY <1>1, TailFacts DEF FeedInv, KeysOK, Todo
<1>3. batch # NoBatch /\ Running /\ batch.size # 0 /\ IsBatch(batch)
  BY <1>1, EmptyTodo DEF FeedInv, RunOK
<1>4. CASE PublishWithRetry
  <2>1. /\ stream' = stream \cup {Head(batch.todo)}
        /\ batch'.todo = Tail(batch.todo) /\ batch'.size = batch.size /\ batch'.next = batch.next
        /\ UNCHANGED <<run, phase, job, rules, cursor, begin, foreign>>
    BY <1>3, <1>4 DEF PublishWithRetry, IsBatch
  <2>2. Held' = Held
    BY <1>1, <1>2, <2>1 DEF Held, Todo
  <2>3. batch' # NoBatch
    BY <1>3, <2>1 DEF NoBatch
  <2>4. IsBatch(batch')
    <3>1. batch' = [batch EXCEPT !.todo = Tail(batch.todo)]
      BY <1>4 DEF PublishWithRetry
    <3> QED
      BY <1>3, <3>1 DEF IsBatch
  <2> QED
    BY <1>1, <1>3, <2>1, <2>2, <2>3, <2>4, PublishFeed
<1>5. ASSUME NEW reached \in BOOLEAN, PublishFails(reached) PROVE FeedInv'
  <2>1. stream \subseteq stream' /\ stream' \subseteq stream \cup {Head(batch.todo)}
    BY <1>5 DEF PublishFails
  <2>2. CASE Fail
    BY <1>1, <1>2, <2>1, <2>2, FailFeed
  <2>3. CASE UNCHANGED <<run, phase, job, rules, cursor, batch, begin, foreign>>
    <3>1. Held' = Held
      BY <1>1, <1>2, <2>1, <2>3 DEF Held, Todo
    <3> QED
      BY <1>1, <1>3, <2>3, <3>1, PublishFeed
  <2> QED
    BY <1>5, <2>2, <2>3 DEF PublishFails, GiveUp
<1> QED
  BY <1>4, <1>5

LEMMA StepFeed == FeedInv /\ [Next]_vars => FeedInv'
<1> SUFFICES ASSUME FeedInv, [Next]_vars PROVE FeedInv'
  OBVIOUS
<1>k. KeysOK'
  BY StepKeys DEF FeedInv
<1>1. ASSUME NEW r \in AuditLogs, StoreAuditLog(r) PROVE FeedInv'
  <2>1. audits' = audits \cup {r}
        /\ UNCHANGED <<events, live, stream, activities, run, phase, job, rules, cursor, batch,
                       begin, foreign>>
    BY <1>1 DEF StoreAuditLog, worker
  <2> QED
    BY <1>k, <2>1, QuietFeed
<1>2. ASSUME NEW r \in Events, StoreEvent(r) PROVE FeedInv'
  <2>1. /\ r \notin events /\ events' = events \cup {r}
        /\ UNCHANGED <<audits, live, stream, activities, run, phase, job, rules, cursor, batch,
                       begin, foreign>>
    BY <1>2 DEF StoreEvent, worker
  <2>2. r \notin begin
    BY <2>1, BeginRows DEF FeedInv
  <2>3. ~EventsReadable'
    BY <2>1, <2>2 DEF EventsReadable
  <2> QED
    BY <1>k, <2>1, <2>3, QuietFeed
<1>3. ASSUME NEW r, NEW key, NEW pols, Process(r, key, pols) PROVE FeedInv'
  <2>1. /\ live' = live \cup {Activity(key, 0, policy, p) : p \in pols}
        /\ UNCHANGED <<audits, events, stream, activities, run, phase, job, rules, cursor, batch,
                       begin, foreign>>
    BY <1>3 DEF Process, stored, worker
  <2>2. \A a \in live' : a \in live \/ a.by = 0
    BY <2>1 DEF Activity
  <2> QED
    BY <1>k, <2>1, <2>2, QuietFeed
<1>4. CASE EditPolicies \/ Tick \/ UNCHANGED vars
  <2>1. UNCHANGED <<audits, events, live, stream, activities, run, phase, job, rules, cursor,
                    batch, begin, foreign>>
    BY <1>4 DEF EditPolicies, Tick, vars, stored, worker
  <2> QED
    BY <1>k, <2>1, QuietFeed
<1>5. ASSUME NEW a \in live \cup stream, Deliver(a) \/ Redeliver(a) PROVE FeedInv'
  <2>1. /\ Insert(a) /\ UNCHANGED <<audits, events, worker>>
        /\ live' \subseteq live /\ stream' \subseteq stream /\ stream \subseteq stream' \cup {a}
    BY <1>5 DEF Deliver, Redeliver, stored
  <2> QED
    BY <1>k, <2>1, InsertFeed
<1>6. ASSUME NEW j \in Jobs, NEW U, Run(j, U) \/ RunFails(j) PROVE FeedInv'
  BY <1>k, <1>6, BeginFeed, NoBeginFeed
<1>7. CASE FetchAuditLogBatch \/ FetchEventBatch
  BY <1>k, <1>7, AuditPageFeed, EventPageFeed
<1>8. CASE FetchFails \/ WorkerDies
  <2>1. Fail /\ UNCHANGED <<audits, events, live, stream, activities>>
    BY <1>8 DEF FetchFails, WorkerDies, stored
  <2> QED
    BY <1>k, <2>1, FailFeed
<1>9. CASE PublishWithRetry \/ \E reached \in BOOLEAN : PublishFails(reached)
  BY <1>k, <1>9, PublishingFeed
<1>10. CASE EndBatch
  BY <1>k, <1>10, EndBatchFeed
<1>11. ASSUME NEW r, ProcessAuditLog(r) \/ ProcessEvent(r) PROVE FeedInv'
  BY <1>3, <1>11 DEF ProcessAuditLog, ProcessEvent
<1> QED
  BY <1>1, <1>2, <1>4, <1>5, <1>6, <1>7, <1>8, <1>9, <1>10, <1>11 DEF Next

\* A run that has succeeded holds nothing, and nothing is ahead of it.
LEMMA FeedImplies == FeedInv => FeedReflectsHistory
<1> SUFFICES ASSUME FeedInv, Finished PROVE FeedReflectsHistory
  BY DEF FeedReflectsHistory
<1>1. phase = "succeeded" /\ ~job.dryRun /\ InRun /\ \A a \in stream : a.by # run
  BY DEF Finished, InRun
<1>2. batch = NoBatch
  BY <1>1 DEF FeedInv, RunOK, Running
<1>3. Todo = {}
  BY <1>2, EmptyTodo DEF Todo
<1>4. \A a, p : Serves(a, p) =>
        /\ a \in activities
        /\ (a.by = run /\ a.ver = rules.ver /\ a.pol = p) \/ a.key \in foreign
  BY <1>1, <1>3 DEF Serves, Held
<1>5. ASSUME AuditsReadable, NEW r \in begin \cap AuditLogs, InWindow(r, QuerySpec(job), now),
             NEW p \in EvaluateAudit(r, rules)
      PROVE  \E a \in activities :
               /\ a.key = BuildFromAudit(r)
               /\ \/ <<a.by, a.ver, a.pol>> = <<run, rules.ver, p>>
                  \/ a.key \in foreign
  <2>1. AuditDone(r)
    BY <1>1, <1>5 DEF FeedInv, AuditsFed, AuditAhead, Wanted
  <2>2. PICK a \in Held : a.key = BuildFromAudit(r) /\ Serves(a, p)
    BY <1>5, <2>1 DEF AuditDone
  <2> QED
    BY <1>4, <2>2
<1>6. ASSUME EventsReadable, NEW r \in begin \cap Events, InWindow(r, QuerySpec(job), now),
             NEW p \in MatchEvent(r, rules)
      PROVE  \E a \in activities :
               /\ a.key.origin = <<"event", r.id>>
               /\ \/ <<a.by, a.ver, a.pol>> = <<run, rules.ver, p>>
                  \/ a.key \in foreign
  <2>1. EventsAllRead
    BY <1>1, <1>6 DEF FeedInv, EventsFed
  <2>2. r \in events
    BY <1>6, BeginRows DEF FeedInv
  <2>3. EventDone(r)
    BY <1>6, <2>1, <2>2 DEF EventsAllRead, Wanted
  <2>4. PICK a \in Held : a.key.origin = <<"event", r.id>> /\ Serves(a, p)
    BY <1>6, <2>3 DEF EventDone
  <2> QED
    BY <1>4, <2>4
<1> QED
  BY <1>5, <1>6 DEF FeedReflectsHistory

\* Once a run has succeeded and its stream has drained, the table has, for
\* every row of its window that was stored when it began, the activity that
\* its policies make of it, or one that the processor or an earlier run put in
\* its place: for any number of rows, any page size, and whatever is stored,
\* processed, delivered twice or published in vain meanwhile, provided the rows
\* can be paged through.  The offset of the events counts what has been read
\* and the token of the audit logs is behind no row that has not: a row is
\* ahead of the cursor or has its activity, in the batch, the stream or the
\* table.
THEOREM FeedAlwaysReflects == Spec => []FeedReflectsHistory
<1>1. Spec => []FeedInv
  BY InitFeed, StepFeed, PTL DEF Spec
<1> QED
  BY <1>1, FeedImplies, PTL

\* Each audit log has at most one activity in the merged table: for any number
\* of runs, cut short and repeated, any page size, any edit of the policies,
\* repeated deliveries, and publishes that failed after they had arrived.
\* BuildFromAudit makes the key of the log alone, and the table keeps one row
\* for each key.
THEOREM AtMostOneActivity == Spec => []OneActivityPerAuditLog
<1>1. Spec => []KeysOK
  BY InitKeys, StepKeys, PTL DEF Spec
<1> QED
  BY <1>1, KeysImply, PTL
=============================================================================
