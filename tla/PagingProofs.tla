---------------------------- MODULE PagingProofs ---------------------------
(***************************************************************************)
(* What Paging guarantees for any table of rows, any requests and any      *)
(* bounds: reads are well formed, a token is good for one query only, no   *)
(* row is handed out twice and none is left out, each under the condition  *)
(* that the property states.                                               *)
(***************************************************************************)
EXTENDS Paging, PageProofs
-----------------------------------------------------------------------------
(* The inductive invariant.  A read is characterised by the token of its   *)
(* last page: rows that the client has are not after it, rows that it has  *)
(* to get still are.                                                       *)

AuditClients == {"query", "audit", "history"}
EventClients == {"events", "listevents"}

\* The rows that q lets through whatever the time.
Scoped(q, r) ==
  /\ MatchesQuery(r, q.spec)
  /\ CASE q.client \in {"feed", "listactivities"} -> ActivityScope(r, q.scope)
       [] q.client \in AuditClients               -> AuditScope(r, q.scope)
       [] q.client \in EventClients               -> EventScope(r, q.scope)

\* The rows of S that q reads at time t.
Found(q, S, t) == {r \in S : Scoped(q, r) /\ InWindow(r, WindowOf(q), t)}

After(q, r, c) ==
  IF q.client = "listevents" THEN r.ins < c.pos[1] ELSE AfterCursor(r, c.pos)

HashOf(q) == HashQueryParams(WindowOf(q))

\* A token of a read of q.
CursorOK(q, c) ==
  /\ q.client # "listevents" => c.hash = HashOf(q)
  /\ IF q.client \in EventClients
     THEN c.pos = <<c.pos[1]>> /\ c.pos[1] \in Nat
     ELSE c.pos = <<c.pos[1], c.pos[2]>> /\ c.pos[1] \in Nat /\ c.pos[2] \in Nat

Crossed(q, M) ==
  \E r, s \in M : /\ Scoped(q, r) /\ Scoped(q, s)
                  /\ r.ts = s.ts /\ r.id < s.id
                  /\ Precedes(AuditOrder(r, q.spec, q.scope),
                              AuditOrder(s, q.spec, q.scope))

\* When no row of M is handed out twice.
Solid(q, M) ==
  q.client \in AuditClients => ~Crossed(q, M) /\ \A r \in M : r.stage <= r.ts

\* When every row is handed out, unless q is an EventQuery.
Sound(q, M) ==
  /\ q.client = "listactivities" => \A r \in M : r.json # "garbled"
  /\ q.client \in AuditClients => (\A r \in M : Decodes(r)) /\ ~Crossed(q, M)
  /\ q.client = "listevents" =>
       /\ \A r \in M : Decodes(r)
       /\ \A r, s \in M : Scoped(q, r) /\ Scoped(q, s) /\ r.ins = s.ins => r = s

ReadOK ==
  /\ TypeOK
  /\ Distinct(table)
  /\ \A r, s \in table \cup met : r.id = s.id => r = s
  /\ phase \in {"paging", "done"} => table \subseteq met

TokenOK ==
  /\ asked \subseteq Requests
  /\ \A q \in asked : q.client = req.client
  /\ req.client # "listevents" => \A p, q \in asked : p.spec = q.spec
  /\ phase \in {"paging", "done"} => req \in asked
  /\ phase = "idle" => asked = {}
  /\ \A c, d \in token : c = d
  /\ \A c \in token : CursorOK(req, c)

\* The rows of the first page's time are still in the scope and before the
\* end of the window, and in a calm table they are the rows that q reads.
BaseOK ==
  (phase \in {"paging", "done"} /\ OneRequest) =>
    /\ \A r \in base :
         /\ Scoped(req, r)
         /\ WindowOf(req).end # NoTime =>
              r.ts < ParseFlexibleTime(WindowOf(req).end, now)
    /\ calm => base = Found(req, table, now) /\ seen \subseteq base

PlaceOK ==
  (phase = "paging" /\ OneRequest /\ req.client # "events") => \A c \in token :
    /\ Solid(req, met) => \A s \in seen : ~After(req, s, c)
    /\ Sound(req, met) => \A r \in Found(req, base, now) :
         Decodes(r) => r \in seen \/ After(req, r, c)

\* The offset of an EventQuery counts the first rows of a calm table.
OffsetOK ==
  (phase = "paging" /\ OneRequest /\ req.client = "events" /\ calm) =>
    /\ \A c \in token : c.pos = <<Cardinality(seen)>>
    /\ Leading(seen, base)

TwiceOK ==
  (OneRequest /\ IF req.client = "events" THEN calm ELSE Solid(req, met)) => twice = {}

DoneOK ==
  (/\ phase = "done" /\ OneRequest
   /\ IF req.client = "events" THEN calm /\ \A r \in met : Decodes(r)
      ELSE Sound(req, met))
    => \A r \in Found(req, base, now) : Decodes(r) => r \in seen

PagingInv ==
  ReadOK /\ TokenOK /\ BaseOK /\ PlaceOK /\ OffsetOK /\ TwiceOK /\ DoneOK

-----------------------------------------------------------------------------
(* What a reply says about the rows, for each kind of request.             *)

\* The rows of T that q reads at time t after a token.
Left(q, T, cur, t) == {r \in Found(q, T, t) : \A c \in cur : After(q, r, c)}

\* A page of T that is not refused, where M are the rows met so far.
PageOK(q, T, M, cur, t, reply) ==
  /\ reply.ok = TRUE /\ reply.rows \subseteq Left(q, T, cur, t)
  /\ q.client # "listevents" => \A c \in cur : c.hash = HashOf(q)
  /\ \/ /\ reply.token = {}
        /\ Sound(q, M) => \A r \in Left(q, T, cur, t) : Decodes(r) => r \in reply.rows
     \/ \E c : /\ reply.token = {c} /\ CursorOK(q, c)
               /\ Solid(q, M) =>
                    /\ \A p \in reply.rows : ~After(q, p, c)
                    /\ \A s \in Columns : After(q, s, c) => \A d \in cur : After(q, s, d)
               /\ Sound(q, M) => \A r \in Left(q, T, cur, t) :
                    Decodes(r) => r \in reply.rows \/ After(q, r, c)

\* A request names a client, and a query that its window is part of.
LEMMA RequestFacts ==
  ASSUME NEW q \in Requests
  PROVE  /\ q.spec.limit \in Nat
         /\ q.spec.start \in Time /\ q.spec.end \in Time
         /\ q.client \in {"feed", "listactivities"} \cup AuditClients \cup EventClients
         /\ q.client \in {"listactivities", "listevents"} =>
              q.spec.start = NoTime /\ q.spec.end = NoTime
BY RequestsAssumption DEF Request, AuditClients, EventClients

\* The window of the list calls.
LEMMA WindowFacts ==
  ASSUME NEW q \in Requests
  PROVE  /\ WindowOf(q).start \in Time /\ WindowOf(q).end \in Time
         /\ WindowOf(q).filter = q.spec.filter /\ WindowOf(q).limit = q.spec.limit
         /\ q.client \notin {"listactivities", "listevents"} => WindowOf(q) = q.spec
         /\ q.client \in {"listactivities", "listevents"} =>
              WindowOf(q) = [q.spec EXCEPT !.start = [rel |-> TRUE, at |-> ListWindow],
                                           !.end = NoTime]
BY RequestsAssumption, QueryPageAssumption DEF Request, Time, NoTime, WindowOf

\* The conditions of the queries are those of Found.
LEMMA FoundAudits ==
  ASSUME NEW q \in Requests, q.client \in AuditClients, NEW T, NEW cur, NEW t
  PROVE  \A r : r \in AuditRows(T, WindowOf(q), q.scope, cur, t)
                <=> r \in Found(q, T, t) /\ \A c \in cur : AfterCursor(r, c.pos)
<1>1. \A r : MatchesQuery(r, WindowOf(q)) <=> MatchesQuery(r, q.spec)
  BY WindowFacts DEF MatchesQuery
<1>2. \A r : Scoped(q, r) <=> MatchesQuery(r, q.spec) /\ AuditScope(r, q.scope)
  BY DEF Scoped, AuditClients, EventClients
<1> QED
  BY <1>1, <1>2 DEF Found, AuditRows

LEMMA FoundActivities ==
  ASSUME NEW q \in Requests, q.client \in {"feed", "listactivities"}, NEW T, NEW cur, NEW t
  PROVE  \A r : r \in ActivityRows(T, WindowOf(q), q.scope, cur, t)
                <=> r \in Found(q, T, t) /\ \A c \in cur : AfterCursor(r, c.pos)
<1>1. \A r : MatchesQuery(r, WindowOf(q)) <=> MatchesQuery(r, q.spec)
  BY WindowFacts DEF MatchesQuery
<1>2. \A r : Scoped(q, r) <=> MatchesQuery(r, q.spec) /\ ActivityScope(r, q.scope)
  BY DEF Scoped, AuditClients, EventClients
<1> QED
  BY <1>1, <1>2 DEF Found, ActivityRows

LEMMA FoundEvents ==
  ASSUME NEW q \in Requests, q.client \in EventClients, NEW T, NEW t
  PROVE  EventRows(T, WindowOf(q), q.scope, t) =
           Found(q, T, t)
<1>1. \A r : MatchesQuery(r, WindowOf(q)) <=> MatchesQuery(r, q.spec)
  BY WindowFacts DEF MatchesQuery
<1>2. \A r : Scoped(q, r) <=> MatchesQuery(r, q.spec) /\ EventScope(r, q.scope)
  BY DEF Scoped, AuditClients, EventClients
<1> QED
  BY <1>1, <1>2 DEF Found, EventRows

\* A token of audit logs or activities is a time and an id.
LEMMA AfterMeans ==
  ASSUME NEW q, q.client \notin EventClients, NEW c, CursorOK(q, c), NEW r \in Columns
  PROVE  /\ c.pos[1] \in Nat /\ c.pos[2] \in Nat
         /\ After(q, r, c) <=> r.ts < c.pos[1] \/ (r.ts = c.pos[1] /\ r.id < c.pos[2])
<1>1. /\ c.pos = <<c.pos[1], c.pos[2]>> /\ c.pos[1] \in Nat /\ c.pos[2] \in Nat
      /\ q.client # "listevents"
  BY DEF CursorOK, EventClients
<1>2. AfterCursor(r, <<c.pos[1], c.pos[2]>>)
        <=> r.ts < c.pos[1] \/ (r.ts = c.pos[1] /\ r.id < c.pos[2])
  BY <1>1, AfterCursorMeans
<1> QED
  BY <1>1, <1>2 DEF After

\* After a row that is itself after a token comes nothing that is not.
LEMMA AfterAfter ==
  ASSUME NEW q, q.client \notin EventClients, NEW c, CursorOK(q, c), NEW d, CursorOK(q, d),
         NEW l \in Columns, c.pos = <<l.ts, l.id>>, After(q, l, d),
         NEW s \in Columns, After(q, s, c)
  PROVE  After(q, s, d)
<1>1. /\ s.ts \in Nat /\ s.id \in Nat /\ l.ts \in Nat /\ l.id \in Nat
      /\ c.pos[1] = l.ts /\ c.pos[2] = l.id /\ d.pos[1] \in Nat /\ d.pos[2] \in Nat
  BY AfterMeans DEF Columns
<1>2. s.ts < l.ts \/ (s.ts = l.ts /\ s.id < l.id)
  BY <1>1, AfterMeans
<1>3. l.ts < d.pos[1] \/ (l.ts = d.pos[1] /\ l.id < d.pos[2])
  BY AfterMeans
<1>4. s.ts < d.pos[1] \/ (s.ts = d.pos[1] /\ s.id < d.pos[2])
  BY <1>1, <1>2, <1>3
<1> QED
  BY <1>4, AfterMeans

\* What the table and the tokens are when a page is asked for.
Asking(q, T, M, cur) ==
  /\ q \in Requests /\ Distinct(T) /\ T \subseteq Rows /\ T \subseteq M
  /\ \A c \in cur : CursorOK(q, c) \/ c.hash # HashOf(q)

\* Reads of audit logs.
LEMMA AuditReply ==
  ASSUME NEW q, NEW T, NEW M, NEW cur, NEW t, Asking(q, T, M, cur),
         q.client \in AuditClients,
         NEW reply \in CreateAuditLogQuery(T, q.spec, q.scope, cur, t), reply # Refused
  PROVE  PageOK(q, T, M, cur, t, reply)
<1> DEFINE S == Left(q, T, cur, t)
           Key(r) == AuditOrder(r, q.spec, q.scope)
<1>1. /\ WindowOf(q) = q.spec /\ HashOf(q) = HashQueryParams(q.spec)
      /\ q.client \notin EventClients /\ q.client # "listevents" /\ q.client # "listactivities"
      /\ q.spec.limit \in Nat
  BY WindowFacts, RequestFacts DEF Asking, AuditClients, EventClients, HashOf
<1>2. AuditRows(T, q.spec, q.scope, cur, t) = S
  <2>1. \A r, c : After(q, r, c) <=> AfterCursor(r, c.pos)
    BY <1>1 DEF After
  <2>2. q \in Requests
    BY DEF Asking
  <2>3. \A r : r \in AuditRows(T, WindowOf(q), q.scope, cur, t)
               <=> r \in Found(q, T, t) /\ \A c \in cur : AfterCursor(r, c.pos)
    BY <2>2, FoundAudits, Zenon
  <2> QED
    BY <1>1, <2>1, <2>3 DEF Left
<1>3. /\ DecodeCursor(cur, q.spec, t) /\ reply.ok = TRUE /\ reply.rows \subseteq S
      /\ \/ reply.token = {} /\ ((\A r \in S : Decodes(r)) => reply.rows = S)
         \/ \E last \in reply.rows :
              /\ reply.token = EncodeCursor(last, q.spec, t)
              /\ \A p \in reply.rows : p # last => Precedes(Key(p), Key(last))
              /\ \A r \in S \ reply.rows : Precedes(Key(last), Key(r))
  <2>1. Distinct(T) /\ q.spec.limit \in Nat
    BY <1>1 DEF Asking
  <2> DEFINE A == AuditRows(T, q.spec, q.scope, cur, t)
  <2>2. \/ reply = Refused
        \/ /\ DecodeCursor(cur, q.spec, t) /\ reply.ok = TRUE /\ reply.rows \subseteq A
           /\ \/ reply.token = {} /\ ((\A r \in A : Decodes(r)) => reply.rows = A)
              \/ \E last \in reply.rows :
                   /\ reply.token = EncodeCursor(last, q.spec, t)
                   /\ \A p \in reply.rows : p # last => Precedes(Key(p), Key(last))
                   /\ \A r \in A \ reply.rows : Precedes(Key(last), Key(r))
    BY <2>1, AuditPage, Zenon
  <2> HIDE DEF A
  <2>3. A = S
    BY <1>2 DEF A
  <2> HIDE DEF S, Key
  <2> QED
    BY <2>2, <2>3
<1>4. \A c \in cur : c.hash = HashOf(q) /\ CursorOK(q, c)
  BY <1>1, <1>3 DEF DecodeCursor, Asking
<1>5. S \subseteq T /\ S \subseteq Columns /\ S \subseteq M /\ \A r \in S : Scoped(q, r)
  BY DEF Left, Found, Asking, Distinct
<1>6. CASE reply.token = {} /\ ((\A r \in S : Decodes(r)) => reply.rows = S)
  <2>1. Sound(q, M) => \A r \in S : Decodes(r)
    BY <1>5 DEF Sound
  <2> QED
    BY <1>3, <1>4, <1>6, <2>1 DEF PageOK
<1>7. ASSUME NEW last \in reply.rows,
             reply.token = EncodeCursor(last, q.spec, t),
             \A p \in reply.rows : p # last => Precedes(Key(p), Key(last)),
             \A r \in S \ reply.rows : Precedes(Key(last), Key(r))
      PROVE  PageOK(q, T, M, cur, t, reply)
  <2> DEFINE c == [pos |-> <<last.stage, last.id>>, hash |-> HashQueryParams(q.spec), issued |-> t]
  <2>1. reply.token = {c} /\ c.pos = <<last.stage, last.id>> /\ c.hash = HashOf(q)
    BY <1>1, <1>7 DEF EncodeCursor
  <2> HIDE DEF c
  <2>2. /\ last \in S /\ last \in Columns /\ last.stage \in Nat /\ last.id \in Nat
        /\ last.ts \in Nat /\ last.stage >= last.ts
    BY <1>3, <1>5, RowsAssumption DEF Asking, Columns
  <2>3. CursorOK(q, c) /\ c.pos[1] = last.stage /\ c.pos[2] = last.id
    BY <1>1, <2>1, <2>2 DEF CursorOK
  <2>4. \A p, r \in S : /\ p.ts \in Nat /\ p.id \in Nat
                        /\ p # r => p.id # r.id
                        /\ Precedes(Key(p), Key(r)) => p.ts >= r.ts
                        /\ ~Crossed(q, M) /\ Precedes(Key(p), Key(r)) /\ p # r /\ p.ts = r.ts
                             => p.id > r.id
    <3>1. \A p, r \in S : p.ts \in Nat /\ p.id \in Nat /\ (p # r => p.id # r.id)
      BY <1>5 DEF Asking, Distinct, Columns
    <3>2. \A p, r \in S : Precedes(Key(p), Key(r)) => p.ts >= r.ts
      BY <1>5, AuditOrderTotal
    <3>3. \A p, r \in S : p.ts = r.ts /\ p.id < r.id /\ Precedes(Key(p), Key(r)) => Crossed(q, M)
      BY <1>5, Zenon DEF Crossed
    <3> QED
      BY <3>1, <3>2, <3>3
  <2> HIDE DEF Key
  <2>5. ASSUME Solid(q, M), NEW p \in reply.rows PROVE ~After(q, p, c)
    <3>1. last.stage <= last.ts /\ ~Crossed(q, M)
      BY <1>5, <2>2, <2>5 DEF Solid
    <3>2. p \in S /\ p \in Columns /\ (p = last \/ Precedes(Key(p), Key(last)))
      BY <1>3, <1>5, <1>7
    <3>3. p.ts > last.ts \/ (p.ts = last.ts /\ (p = last \/ p.id > last.id))
      BY <2>2, <2>4, <3>1, <3>2
    <3> QED
      BY <1>1, <2>2, <2>3, <2>4, <3>1, <3>2, <3>3, AfterMeans
  <2>6. ASSUME Solid(q, M), NEW s \in Columns, After(q, s, c), NEW d \in cur
        PROVE  After(q, s, d)
    <3>1. last.stage = last.ts
      BY <1>5, <2>2, <2>6 DEF Solid
    <3>2. After(q, last, d) /\ CursorOK(q, d)
      BY <1>4, <2>2 DEF Left
    <3> QED
      BY <1>1, <2>1, <2>2, <2>3, <2>6, <3>1, <3>2, AfterAfter
  <2>7. ASSUME Sound(q, M), NEW r \in S, r \notin reply.rows PROVE After(q, r, c)
    <3>1. ~Crossed(q, M) /\ Precedes(Key(last), Key(r)) /\ last # r /\ r \in Columns
      BY <1>5, <1>7, <2>7 DEF Sound
    <3>2. last.ts >= r.ts /\ (last.ts = r.ts => last.id > r.id) /\ r.ts \in Nat /\ r.id \in Nat
      BY <2>2, <2>4, <3>1
    <3>3. r.ts < last.stage \/ (r.ts = last.stage /\ r.id < last.id)
      BY <2>2, <3>2
    <3> QED
      BY <1>1, <2>3, <3>1, <3>3, AfterMeans
  <2> QED
    BY <1>3, <1>4, <2>1, <2>3, <2>5, <2>6, <2>7 DEF PageOK
<1> QED
  BY <1>3, <1>6, <1>7
\* Reads of activities: q hands out the rows of found that decode.
LEMMA ActivityReply ==
  ASSUME NEW q, NEW T, NEW M, NEW cur, NEW t, Asking(q, T, M, cur),
         q.client \in {"feed", "listactivities"},
         DecodeActivityCursor(cur, WindowOf(q), t),
         NEW found \in QueryActivities(T, WindowOf(q), q.scope, cur, t),
         NEW reply, reply.ok = TRUE, reply.token = found.token,
         reply.rows = {r \in found.rows : Decodes(r)},
         q.client = "feed" => \A r \in found.rows : Decodes(r)
  PROVE  PageOK(q, T, M, cur, t, reply)
<1> DEFINE S == Left(q, T, cur, t)
           A == ActivityRows(T, WindowOf(q), q.scope, cur, t)
<1>1. /\ q \in Requests /\ q.client \notin EventClients /\ q.client # "listevents"
      /\ q.client \notin AuditClients /\ WindowOf(q).limit \in Nat /\ Distinct(T)
  BY WindowFacts, RequestFacts DEF Asking, AuditClients, EventClients
<1>2. A = S
  <2>1. \A r, c : After(q, r, c) <=> AfterCursor(r, c.pos)
    BY <1>1 DEF After
  <2>2. q \in Requests
    BY <1>1
  <2>3. \A r : r \in A <=> r \in Found(q, T, t) /\ \A c \in cur : AfterCursor(r, c.pos)
    BY <2>2, FoundActivities, Zenon
  <2> QED
    BY <2>1, <2>3 DEF Left
<1>3. /\ found.ok = TRUE /\ found.rows \subseteq A
      /\ \/ found.token = {} /\ found.rows = A
         \/ \E last \in found.rows :
              /\ found.token = EncodeActivityCursor(last, WindowOf(q), t)
              /\ \A p \in found.rows : p # last =>
                   p.ts > last.ts \/ (p.ts = last.ts /\ p.id > last.id)
              /\ \A r \in A \ found.rows :
                   last.ts > r.ts \/ (last.ts = r.ts /\ last.id > r.id)
  <2>1. Distinct(T) /\ WindowOf(q).limit \in Nat
    BY <1>1
  <2>2. found \in QueryActivities(T, WindowOf(q), q.scope, cur, t)
    OBVIOUS
  <2> QED
    BY <2>1, <2>2, ActivityPage, ZenonT(60)
<1> HIDE DEF A
<1>4. \A c \in cur : c.hash = HashOf(q) /\ CursorOK(q, c)
  <2>1. \A c \in cur : c.hash = HashOf(q)
    BY DEF DecodeActivityCursor, HashActivityQueryParams, HashOf, HashQueryParams
  <2> QED
    BY <2>1 DEF Asking
<1>5. S \subseteq T /\ S \subseteq Columns /\ S \subseteq M
  BY DEF Left, Found, Asking, Distinct
<1>6. CASE found.token = {} /\ found.rows = A
  BY <1>2, <1>3, <1>4, <1>6 DEF PageOK
<1>7. ASSUME NEW last \in found.rows,
             found.token = EncodeActivityCursor(last, WindowOf(q), t),
             \A p \in found.rows : p # last =>
               p.ts > last.ts \/ (p.ts = last.ts /\ p.id > last.id),
             \A r \in A \ found.rows :
               last.ts > r.ts \/ (last.ts = r.ts /\ last.id > r.id)
      PROVE  PageOK(q, T, M, cur, t, reply)
  <2>1. last \in S /\ last \in Columns /\ last \in M /\ last.id \in Nat /\ last.ts \in Nat
    BY <1>2, <1>3, <1>5 DEF Columns
  <2>2. CASE last.json = "garbled"
    <3>1. reply.token = {}
      BY <1>7, <2>2 DEF EncodeActivityCursor
    <3>2. q.client = "listactivities"
      BY <2>2 DEF Decodes
    <3>3. ~Sound(q, M)
      BY <2>1, <2>2, <3>2 DEF Sound
    <3> QED
      BY <1>2, <1>3, <1>4, <3>1, <3>3 DEF PageOK
  <2>3. CASE last.json # "garbled"
    <3> DEFINE c == [pos |-> <<last.ts, last.id>>, issued |-> t,
                     hash |-> HashActivityQueryParams(WindowOf(q))]
    <3>1. reply.token = {c} /\ c.pos = <<last.ts, last.id>> /\ c.hash = HashOf(q)
      BY <1>7, <2>3 DEF EncodeActivityCursor, HashOf, HashQueryParams, HashActivityQueryParams
    <3> HIDE DEF c
    <3>2. CursorOK(q, c) /\ c.pos[1] = last.ts /\ c.pos[2] = last.id
      BY <1>1, <2>1, <3>1 DEF CursorOK
    <3>3. \A p \in S : p.ts \in Nat /\ p.id \in Nat /\ p \in Columns
      BY <1>5 DEF Columns
    <3>4. ASSUME NEW p \in reply.rows PROVE ~After(q, p, c)
      <4>1. p \in S /\ (p = last \/ p.ts > last.ts \/ (p.ts = last.ts /\ p.id > last.id))
        BY <1>2, <1>3, <1>7
      <4>2. ~(p.ts < last.ts \/ (p.ts = last.ts /\ p.id < last.id))
        BY <2>1, <3>3, <4>1
      <4> QED
        BY <1>1, <3>2, <3>3, <4>1, <4>2, AfterMeans
    <3>5. ASSUME NEW s \in Columns, After(q, s, c), NEW d \in cur PROVE After(q, s, d)
      <4>1. After(q, last, d) /\ CursorOK(q, d)
        BY <1>4, <2>1 DEF Left
      <4> QED
        BY <1>1, <2>1, <3>1, <3>2, <3>5, <4>1, AfterAfter
    <3>6. ASSUME NEW r \in S, Decodes(r), r \notin reply.rows PROVE After(q, r, c)
      <4>1. r.ts < last.ts \/ (r.ts = last.ts /\ r.id < last.id)
        BY <1>2, <1>7, <2>1, <3>3, <3>6
      <4> QED
        BY <1>1, <3>2, <3>3, <4>1, AfterMeans
    <3>7. reply.rows \subseteq S
      BY <1>2, <1>3
    <3> QED
      BY <1>4, <3>1, <3>2, <3>4, <3>5, <3>6, <3>7 DEF PageOK
  <2> QED
    BY <2>2, <2>3
<1> QED
  BY <1>3, <1>6, <1>7

LEMMA CreateActivityReply ==
  ASSUME NEW q, NEW T, NEW M, NEW cur, NEW t, Asking(q, T, M, cur), q.client = "feed",
         NEW reply \in CreateActivityQuery(T, q.spec, q.scope, cur, t), reply # Refused
  PROVE  PageOK(q, T, M, cur, t, reply)
<1>1. WindowOf(q) = q.spec /\ q.spec.limit \in Nat /\ Distinct(T)
  BY WindowFacts, RequestFacts DEF Asking
<1>2. /\ DecodeActivityCursor(cur, q.spec, t)
      /\ \E found \in QueryActivities(T, q.spec, q.scope, cur, t) :
           reply = IF \A r \in found.rows : Decodes(r) THEN found ELSE Refused
  BY Zenon DEF CreateActivityQuery
<1>3. PICK found \in QueryActivities(T, q.spec, q.scope, cur, t) :
        reply = found /\ \A r \in found.rows : Decodes(r)
  BY <1>2, Zenon
<1>4. found.ok = TRUE
  BY <1>1, ActivityPage, Zenon
<1>5. reply.rows = {r \in found.rows : Decodes(r)}
  BY <1>3
<1> QED
  BY <1>1, <1>2, <1>3, <1>4, <1>5, ActivityReply

LEMMA ListActivitiesReply ==
  ASSUME NEW q, NEW T, NEW M, NEW cur, NEW t, Asking(q, T, M, cur),
         q.client = "listactivities",
         NEW reply \in ListActivities(T, q.spec, q.scope, cur, t), reply # Refused
  PROVE  PageOK(q, T, M, cur, t, reply)
<1> DEFINE W == [q.spec EXCEPT !.start = [rel |-> TRUE, at |-> ListWindow], !.end = NoTime]
<1>1. WindowOf(q) = W /\ W.limit \in Nat /\ Distinct(T)
  BY WindowFacts, RequestFacts DEF Asking
<1>2. /\ DecodeActivityCursor(cur, W, t)
      /\ \E found \in QueryActivities(T, W, q.scope, cur, t) :
           reply = [found EXCEPT !.rows = {r \in @ : Decodes(r)}]
  BY Zenon DEF ListActivities
<1> HIDE DEF W
<1>3. PICK found \in QueryActivities(T, W, q.scope, cur, t) :
        reply = [found EXCEPT !.rows = {r \in @ : Decodes(r)}]
  BY <1>2, Zenon
<1>4. found = [ok |-> TRUE, rows |-> found.rows, token |-> found.token]
  BY ActivityPageShape
<1>5. /\ reply.ok = TRUE /\ reply.token = found.token
      /\ reply.rows = {r \in found.rows : Decodes(r)}
  BY <1>3, <1>4
<1> QED
  BY <1>1, <1>2, <1>3, <1>5, ActivityReply

LEMMA ListEventsReply ==
  ASSUME NEW q, NEW T, NEW M, NEW cur, NEW t, Asking(q, T, M, cur), q.client = "listevents",
         \A c \in cur : CursorOK(q, c),
         NEW reply \in ListEvents(T, q.spec, q.scope, cur, t)
  PROVE  PageOK(q, T, M, cur, t, reply)
<1> DEFINE W == [q.spec EXCEPT !.start = [rel |-> TRUE, at |-> ListWindow], !.end = NoTime]
           S == Left(q, T, cur, t)
           A == {r \in EventRows(T, W, q.scope, t) : \A c \in cur : r.ins < c.pos[1]}
<1>1. /\ WindowOf(q) = W /\ q.spec.limit \in Nat /\ Distinct(T) /\ q \in Requests
      /\ q.client \in EventClients /\ q.client \notin AuditClients
  BY WindowFacts, RequestFacts DEF Asking, EventClients, AuditClients
<1>2. A = S
  <2>1. \A r, c : After(q, r, c) <=> r.ins < c.pos[1]
    BY DEF After
  <2>2. EventRows(T, WindowOf(q), q.scope, t) = Found(q, T, t)
    BY <1>1, FoundEvents
  <2> QED
    BY <1>1, <2>1, <2>2 DEF Left
<1>3. /\ reply.ok = TRUE /\ reply.rows \subseteq A
      /\ \/ reply.token = {} /\ ((\A r \in A : Decodes(r)) => reply.rows = A)
         \/ \E last \in reply.rows :
              /\ reply.token = {[pos |-> <<last.ins>>, hash |-> <<>>, issued |-> t]}
              /\ \A p \in reply.rows : p.ins >= last.ins
              /\ \A r \in A \ reply.rows : r.ins <= last.ins
  BY <1>1, EventListPage, ZenonT(60)
<1> HIDE DEF A, W
<1>5. /\ S \subseteq T /\ S \subseteq Columns /\ S \subseteq M
      /\ \A r \in S : Scoped(q, r) /\ r.ins \in Nat
  BY DEF Left, Found, Asking, Distinct, Columns
<1>6. CASE reply.token = {} /\ ((\A r \in A : Decodes(r)) => reply.rows = A)
  <2>1. Sound(q, M) => \A r \in S : Decodes(r)
    BY <1>5 DEF Sound
  <2> QED
    BY <1>2, <1>3, <1>6, <2>1 DEF PageOK
<1>7. ASSUME NEW last \in reply.rows,
             reply.token = {[pos |-> <<last.ins>>, hash |-> <<>>, issued |-> t]},
             \A p \in reply.rows : p.ins >= last.ins,
             \A r \in A \ reply.rows : r.ins <= last.ins
      PROVE  PageOK(q, T, M, cur, t, reply)
  <2> DEFINE c == [pos |-> <<last.ins>>, hash |-> <<>>, issued |-> t]
  <2>1. reply.token = {c} /\ c.pos = <<last.ins>>
    BY <1>7
  <2> HIDE DEF c
  <2>2. last \in S /\ last.ins \in Nat
    BY <1>2, <1>3, <1>5
  <2>3. CursorOK(q, c) /\ c.pos[1] = last.ins
    BY <1>1, <2>1, <2>2 DEF CursorOK
  <2>4. \A s, d : After(q, s, d) <=> s.ins < d.pos[1]
    BY DEF After
  <2>5. \A p \in reply.rows : ~After(q, p, c)
    BY <1>2, <1>3, <1>5, <1>7, <2>2, <2>3, <2>4
  <2>6. ASSUME NEW s \in Columns, After(q, s, c), NEW d \in cur PROVE After(q, s, d)
    <3>1. last.ins < d.pos[1] /\ d.pos[1] \in Nat /\ s.ins < last.ins /\ s.ins \in Nat
      BY <1>1, <2>2, <2>3, <2>4, <2>6 DEF Left, CursorOK, Columns
    <3> QED
      BY <2>2, <2>4, <3>1
  <2>7. ASSUME Sound(q, M), NEW r \in S, r \notin reply.rows PROVE After(q, r, c)
    <3>1. r.ins # last.ins
      BY <1>5, <2>2, <2>7 DEF Sound
    <3>2. r.ins <= last.ins /\ r.ins \in Nat
      BY <1>2, <1>5, <1>7, <2>7
    <3> QED
      BY <2>2, <2>3, <2>4, <3>1, <3>2
  <2>8. reply.rows \subseteq S
    BY <1>2, <1>3
  <2> QED
    BY <1>3, <2>1, <2>3, <2>5, <2>6, <2>7, <2>8 DEF PageOK
<1> QED
  BY <1>3, <1>6, <1>7
\* A page of an EventQuery that is not refused: when the token counts the
\* first rows of what q reads, the page goes on from there.
EventPageOK(q, T, cur, t, reply) ==
  LET F == Found(q, T, t)
  IN  /\ reply.ok = TRUE /\ reply.rows \subseteq F
      /\ \A c \in cur : c.hash = HashOf(q)
      /\ reply.token = {} \/ \E c : reply.token = {c} /\ CursorOK(q, c)
      /\ \A done \in SUBSET F : Leading(done, F) /\ Cardinality(done) = OffsetOf(cur) =>
           /\ reply.rows \subseteq F \ done
           /\ reply.token = {} /\ (\A r \in F : Decodes(r)) => reply.rows = F \ done
           /\ reply.token # {} =>
                /\ Leading(done \cup reply.rows, F)
                /\ \A c \in reply.token : c.pos = <<Cardinality(done \cup reply.rows)>>

\* Reads of events with an EventQuery.
LEMMA EventReply ==
  ASSUME NEW q, NEW T, NEW M, NEW cur, NEW t, Asking(q, T, M, cur), q.client = "events",
         cur = {} \/ \E c : cur = {c},
         NEW reply \in CreateEventQuery(T, q.spec, q.scope, cur, t), reply # Refused
  PROVE  EventPageOK(q, T, cur, t, reply)
<1> DEFINE F == Found(q, T, t)
           A == EventRows(T, q.spec, q.scope, t)
           n == ResolveEventQueryLimit(q.spec.limit)
           skipped == Skipped(T, q.spec, q.scope, cur, t)
<1>1. /\ WindowOf(q) = q.spec /\ q.spec.limit \in Nat /\ Distinct(T) /\ q \in Requests
      /\ q.client \in EventClients /\ HashOf(q) = HashQueryParams(q.spec)
  BY WindowFacts, RequestFacts DEF Asking, EventClients, HashOf
<1>2. A = F
  BY <1>1, FoundEvents
<1>3. /\ DecodeEventQueryCursor(cur, q.spec, t) /\ reply.ok = TRUE
      /\ reply.rows \subseteq A \ skipped
      /\ reply.token = {} \/ reply.token = EncodeEventQueryCursor(cur, q.spec, t)
  <2>1. Distinct(T) /\ q.spec.limit \in Nat
    BY <1>1
  <2>2. \/ reply = Refused
        \/ /\ DecodeEventQueryCursor(cur, q.spec, t) /\ reply.ok = TRUE
           /\ reply.rows \subseteq A \ skipped
           /\ \/ /\ reply.token = {}
                 /\ (\A r \in A : Decodes(r)) => reply.rows = A \ skipped
              \/ /\ reply.token = EncodeEventQueryCursor(cur, q.spec, t)
                 /\ Cardinality(reply.rows) = n
                 /\ \A p \in reply.rows, r \in (A \ skipped) \ reply.rows :
                      ~Precedes(EventQueryOrder(r), EventQueryOrder(p))
    BY <2>1, EventPage
  <2> HIDE DEF A, skipped, n
  <2> QED
    BY <2>2
<1>4. \A c \in cur : c.hash = HashOf(q) /\ CursorOK(q, c)
  <2>1. \A c \in cur : c.hash = HashOf(q)
    BY <1>1, <1>3 DEF DecodeEventQueryCursor, HashEventQueryParams, HashQueryParams
  <2> QED
    BY <2>1 DEF Asking
<1>5. n \in Nat \ {0} /\ OffsetOf(cur) \in Nat
  <2>1. n \in Nat \ {0}
    BY <1>1, LimitsPositive
  <2>2. OffsetOf(cur) \in Nat
    BY <1>1, <1>4 DEF OffsetOf, CursorOK
  <2> QED
    BY <2>1, <2>2
<1> DEFINE c == [pos |-> <<OffsetOf(cur) + n>>, hash |-> HashEventQueryParams(q.spec), issued |-> t]
<1>6. /\ EncodeEventQueryCursor(cur, q.spec, t) = {c} /\ c.pos = <<OffsetOf(cur) + n>>
      /\ c.hash = HashOf(q)
  BY <1>1 DEF EncodeEventQueryCursor, HashEventQueryParams, HashQueryParams
<1> HIDE DEF c
<1>7. CursorOK(q, c)
  BY <1>1, <1>5, <1>6 DEF CursorOK
<1> HIDE DEF A, F, n, skipped
<1>8. ASSUME NEW done \in SUBSET F, Leading(done, F), Cardinality(done) = OffsetOf(cur)
      PROVE  /\ reply.rows \subseteq F \ done
             /\ reply.token = {} /\ (\A r \in F : Decodes(r)) => reply.rows = F \ done
             /\ reply.token # {} =>
                  /\ Leading(done \cup reply.rows, F)
                  /\ \A d \in reply.token : d.pos = <<Cardinality(done \cup reply.rows)>>
  <2>1. F = EventRows(T, q.spec, q.scope, t)
    BY <1>2 DEF A
  <2>2. GoesOn(reply, done, F)
    BY <1>1, <1>8, <2>1, EventPageNext
  <2> QED
    BY <2>2 DEF GoesOn
<1>9. reply.token = {} \/ reply.token = {c}
  BY <1>3, <1>6
<1>10. reply.rows \subseteq F
  BY <1>2, <1>3
<1> QED
  BY <1>3, <1>4, <1>7, <1>8, <1>9, <1>10 DEF EventPageOK, F
-----------------------------------------------------------------------------
(* The invariant holds at the start and is kept by the table and the clock. *)

LEMMA PagingInitInv == Init => PagingInv
<1> SUFFICES ASSUME Init PROVE PagingInv
  OBVIOUS
<1>1. ReadOK
  BY FS_EmptySet, RowsAssumption DEF Init, ReadOK, TypeOK, Distinct
<1>2. TokenOK
  BY DEF Init, TokenOK
<1>3. asked # {req} /\ phase = "idle" /\ twice = {}
  BY DEF Init
<1> QED
  BY <1>1, <1>2, <1>3 DEF PagingInv, BaseOK, PlaceOK, OffsetOK, TwiceOK, DoneOK, OneRequest

\* More rows make a read no more reliable.
LEMMA FewerRows ==
  ASSUME NEW q, NEW M, NEW N, M \subseteq N
  PROVE  (Solid(q, N) => Solid(q, M)) /\ (Sound(q, N) => Sound(q, M))
<1>1. Crossed(q, M) => Crossed(q, N)
  BY Zenon DEF Crossed
<1> QED
  BY <1>1 DEF Solid, Sound

LEMMA InsertKeeps ==
  ASSUME PagingInv, NEW r \in Rows, Insert(r)
  PROVE  PagingInv'
<1>1. /\ phase \in {"idle", "paging"} /\ \A s \in table \cup met : s.id # r.id
      /\ table' = table \cup {r} /\ met' = IF phase = "paging" THEN met \cup {r} ELSE met
      /\ calm' = (phase = "idle")
      /\ UNCHANGED <<now, req, token, phase, base, seen, twice, asked>>
  BY DEF Insert, Reading
<1>2. ReadOK /\ TokenOK /\ met \subseteq met'
  BY <1>1 DEF PagingInv
<1>3. ReadOK'
  <2>1. TypeOK'
    BY <1>1, <1>2 DEF ReadOK, TypeOK
  <2>2. IsFiniteSet(table')
    BY <1>1, <1>2, FS_AddElement DEF ReadOK, Distinct
  <2>3. table' \subseteq Columns /\ r \in Columns
    BY <1>1, <1>2, RowsAssumption DEF ReadOK, TypeOK
  <2>4. \A s, u \in table' \cup met' : s.id = u.id => s = u
    BY <1>1, <1>2 DEF ReadOK
  <2>5. phase' \in {"paging", "done"} => table' \subseteq met'
    BY <1>1, <1>2 DEF ReadOK
  <2> QED
    BY <2>1, <2>2, <2>3, <2>4, <2>5 DEF ReadOK, Distinct
<1>4. TokenOK'
  BY <1>1, <1>2 DEF TokenOK
<1>5. BaseOK' /\ OffsetOK' /\ DoneOK'
  BY <1>1 DEF PagingInv, BaseOK, OffsetOK, DoneOK, OneRequest
<1>6. /\ Solid(req, met') => Solid(req, met)
      /\ Sound(req, met') => Sound(req, met)
  BY <1>2, FewerRows
<1>7. PlaceOK' /\ TwiceOK'
  BY <1>1, <1>2, <1>6 DEF PagingInv, PlaceOK, TwiceOK, OneRequest, TokenOK
<1> QED
  BY <1>3, <1>4, <1>5, <1>7 DEF PagingInv

LEMMA DropKeeps ==
  ASSUME PagingInv, NEW r \in Rows, Drop(r)
  PROVE  PagingInv'
<1>1. /\ phase \in {"idle", "paging"} /\ table' = table \ {r} /\ base' = base \ {r}
      /\ calm' = (phase = "idle")
      /\ UNCHANGED <<now, req, token, phase, met, seen, twice, asked>>
  BY DEF Drop, Reading
<1>2. ReadOK /\ TokenOK
  BY DEF PagingInv
<1>3. ReadOK'
  <2>1. TypeOK'
    BY <1>1, <1>2 DEF ReadOK, TypeOK
  <2>2. IsFiniteSet(table')
    BY <1>1, <1>2, FS_Subset DEF ReadOK, Distinct
  <2> QED
    BY <1>1, <1>2, <2>1, <2>2 DEF ReadOK, Distinct
<1>4. TokenOK'
  BY <1>1, <1>2 DEF TokenOK
<1>5. BaseOK' /\ OffsetOK' /\ DoneOK'
  BY <1>1 DEF PagingInv, BaseOK, OffsetOK, DoneOK, OneRequest
<1>6. \A s \in Found(req, base', now) : s \in Found(req, base, now)
  BY <1>1 DEF Found
<1>7. PlaceOK' /\ TwiceOK'
  BY <1>1, <1>2, <1>6 DEF PagingInv, PlaceOK, TwiceOK, OneRequest, TokenOK
<1> QED
  BY <1>3, <1>4, <1>5, <1>7 DEF PagingInv

\* A moment later a time in a request is the same or one later.
LEMMA TimesMove ==
  ASSUME NEW x \in Time, NEW t \in Nat
  PROVE  /\ ParseFlexibleTime(x, t) \in Int
         /\ x.rel => ParseFlexibleTime(x, t + 1) = ParseFlexibleTime(x, t) + 1
         /\ ~x.rel => ParseFlexibleTime(x, t + 1) = ParseFlexibleTime(x, t)
BY DEF ParseFlexibleTime, Time

LEMMA TickKeeps ==
  ASSUME PagingInv, Tick
  PROVE  PagingInv'
<1>1. /\ phase \in {"idle", "paging"} /\ now < MaxNow /\ now' = now + 1
      /\ calm' = (phase = "idle" \/ (calm /\ ~WindowOf(req).start.rel /\ ~WindowOf(req).end.rel))
      /\ UNCHANGED <<table, req, token, phase, base, met, seen, twice, asked>>
  BY DEF Tick, Reading
<1>2. ReadOK /\ TokenOK /\ req \in Requests /\ now \in Nat /\ base \subseteq Columns
  BY RowsAssumption DEF PagingInv, ReadOK, TypeOK
<1>3. ReadOK'
  BY <1>1, <1>2, RowsAssumption DEF ReadOK, TypeOK, Distinct
<1>4. TokenOK'
  BY <1>1, <1>2 DEF TokenOK
<1> DEFINE W == WindowOf(req)
           start(t) == ParseFlexibleTime(W.start, t)
           end(t) == ParseFlexibleTime(W.end, t)
<1>5. /\ start(now) \in Int /\ end(now) \in Int
      /\ start(now') \in {start(now), start(now) + 1} /\ end(now') \in {end(now), end(now) + 1}
      /\ ~W.start.rel => start(now') = start(now)
      /\ ~W.end.rel => end(now') = end(now)
  <2>1. W.start \in Time /\ W.end \in Time
    BY <1>2, WindowFacts
  <2> QED
    BY <1>1, <1>2, <2>1, TimesMove DEF Time
<1>6. \A S, t : \A s : s \in Found(req, S, t) <=>
        /\ s \in S /\ Scoped(req, s) /\ s.ts >= start(t)
        /\ W.end # NoTime => s.ts < end(t)
  BY DEF Found, InWindow
<1>7. \A s \in Columns : s.ts \in Nat
  BY DEF Columns
<1> HIDE DEF W, start, end
<1>8. phase = "paging" /\ OneRequest =>
        \A s \in base : Scoped(req, s) /\ (W.end # NoTime => s.ts < end(now))
  BY DEF PagingInv, BaseOK, W, end
<1>9. phase = "paging" /\ OneRequest =>
        \A s \in base : Scoped(req, s) /\ (W.end # NoTime => s.ts < end(now'))
  BY <1>2, <1>5, <1>7, <1>8
<1>10. phase = "paging" /\ OneRequest =>
         \A s \in Found(req, base, now') : s \in Found(req, base, now)
  BY <1>2, <1>5, <1>6, <1>7, <1>8
<1>11. phase = "paging" /\ calm' => Found(req, table, now') = Found(req, table, now) /\ calm
  <2>1. phase = "paging" /\ calm' => calm /\ start(now') = start(now) /\ end(now') = end(now)
    BY <1>1, <1>5 DEF W
  <2>2. phase = "paging" /\ calm' =>
          \A s : s \in Found(req, table, now') <=> s \in Found(req, table, now)
    BY <1>6, <2>1
  <2>3. \A t : Found(req, table, t) \subseteq table
    BY DEF Found
  <2> QED
    BY <2>1, <2>2, <2>3
<1>12. BaseOK' /\ OffsetOK' /\ DoneOK'
  BY <1>1, <1>9, <1>11 DEF PagingInv, BaseOK, OffsetOK, DoneOK, OneRequest, W, end
<1>13. PlaceOK' /\ TwiceOK'
  BY <1>1, <1>2, <1>10 DEF PagingInv, PlaceOK, TwiceOK, OneRequest, TokenOK
<1> QED
  BY <1>3, <1>4, <1>12, <1>13 DEF PagingInv

LEMMA OthersKeep ==
  ASSUME PagingInv, RequestFails \/ Exit \/ UNCHANGED vars
  PROVE  PagingInv'
<1>1. ReadOK /\ TokenOK
  BY DEF PagingInv
<1>2. CASE RequestFails
  <2>1. ReadOK' /\ TokenOK'
    BY <1>1, <1>2, FS_EmptySet DEF RequestFails, ReadOK, TokenOK, TypeOK, Distinct
  <2>2. BaseOK' /\ PlaceOK' /\ OffsetOK' /\ DoneOK'
    BY <1>2 DEF RequestFails, BaseOK, PlaceOK, OffsetOK, DoneOK
  <2>3. TwiceOK'
    BY <1>2 DEF RequestFails, PagingInv, TwiceOK, OneRequest
  <2> QED
    BY <2>1, <2>2, <2>3 DEF PagingInv
<1>3. CASE Exit
  <2>1. ReadOK' /\ TokenOK'
    BY <1>1, <1>3 DEF Exit, ReadOK, TokenOK, TypeOK, Distinct
  <2>2. BaseOK' /\ PlaceOK' /\ OffsetOK' /\ DoneOK' /\ TwiceOK'
    BY <1>3 DEF Exit, BaseOK, PlaceOK, OffsetOK, DoneOK, TwiceOK
  <2> QED
    BY <2>1, <2>2 DEF PagingInv
<1>4. CASE UNCHANGED vars
  BY <1>4 DEF vars, PagingInv, ReadOK, TypeOK, Distinct, TokenOK, BaseOK, PlaceOK,
              OffsetOK, TwiceOK, DoneOK, OneRequest
<1> QED
  BY <1>2, <1>3, <1>4
-----------------------------------------------------------------------------
(* Pages keep the invariant.                                               *)

\* Matching is Found at the present time.
LEMMA MatchingFound ==
  ASSUME NEW q \in Requests, NEW S
  PROVE  Matching(q, S) = Found(q, S, now)
<1>1. CASE q.client \in AuditClients
  <2>1. Matching(q, S) = AuditRows(S, WindowOf(q), q.scope, {}, now)
    BY <1>1 DEF Matching, AuditClients
  <2>2. \A r : r \in AuditRows(S, WindowOf(q), q.scope, {}, now)
               <=> r \in Found(q, S, now) /\ \A c \in {} : AfterCursor(r, c.pos)
    BY <1>1, FoundAudits, Zenon
  <2> QED
    BY <2>1, <2>2
<1>2. CASE q.client \in {"feed", "listactivities"}
  <2>1. Matching(q, S) = ActivityRows(S, WindowOf(q), q.scope, {}, now)
    BY <1>2 DEF Matching
  <2>2. \A r : r \in ActivityRows(S, WindowOf(q), q.scope, {}, now)
               <=> r \in Found(q, S, now) /\ \A c \in {} : AfterCursor(r, c.pos)
    BY <1>2, FoundActivities, Zenon
  <2> QED
    BY <2>1, <2>2
<1>3. CASE q.client \in EventClients
  <2>1. Matching(q, S) = EventRows(S, WindowOf(q), q.scope, now)
    BY <1>3 DEF Matching, EventClients
  <2> QED
    BY <1>3, <2>1, FoundEvents
<1> QED
  BY <1>1, <1>2, <1>3, RequestFacts

\* Whatever the client, a reply is refused or a page.
LEMMA ReplyOK ==
  ASSUME NEW q, NEW M, NEW cur, Asking(q, table, M, cur),
         cur = {} \/ \E c : cur = {c},
         q.client = "listevents" => \A c \in cur : CursorOK(q, c),
         NEW reply \in Reply(q, cur)
  PROVE  \/ reply = Refused
         \/ q.client # "events" /\ PageOK(q, table, M, cur, now, reply)
         \/ q.client = "events" /\ EventPageOK(q, table, cur, now, reply)
<1>1. q \in Requests
  BY DEF Asking
<1>2. CASE q.client \in AuditClients
  <2>1. reply \in CreateAuditLogQuery(table, q.spec, q.scope, cur, now) /\ q.client # "events"
    BY <1>2 DEF Reply, AuditClients
  <2> QED
    BY <1>2, <2>1, AuditReply
<1>3. CASE q.client = "feed"
  <2>1. reply \in CreateActivityQuery(table, q.spec, q.scope, cur, now)
    BY <1>3 DEF Reply
  <2> QED
    BY <1>3, <2>1, CreateActivityReply
<1>4. CASE q.client = "listactivities"
  <2>1. reply \in ListActivities(table, q.spec, q.scope, cur, now)
    BY <1>4 DEF Reply
  <2> QED
    BY <1>4, <2>1, ListActivitiesReply
<1>5. CASE q.client = "listevents"
  <2>1. reply \in ListEvents(table, q.spec, q.scope, cur, now)
    BY <1>5 DEF Reply
  <2> QED
    BY <1>5, <2>1, ListEventsReply
<1>6. CASE q.client = "events"
  <2>1. reply \in CreateEventQuery(table, q.spec, q.scope, cur, now)
    BY <1>6 DEF Reply
  <2> QED
    BY <1>6, <2>1, EventReply
<1> QED
  BY <1>1, <1>2, <1>3, <1>4, <1>5, <1>6, RequestFacts DEF EventClients

\* What all pages have in common.
PageFacts(q, cur, reply) ==
  \/ reply = Refused
  \/ /\ reply.ok = TRUE /\ reply.rows \subseteq Found(q, table, now)
     /\ q.client # "listevents" => \A c \in cur : c.hash = HashOf(q)
     /\ reply.token = {} \/ \E c : reply.token = {c} /\ CursorOK(q, c)

LEMMA ReplyFacts ==
  ASSUME NEW q, NEW M, NEW cur, NEW reply,
         \/ reply = Refused
         \/ q.client # "events" /\ PageOK(q, table, M, cur, now, reply)
         \/ q.client = "events" /\ EventPageOK(q, table, cur, now, reply)
  PROVE  PageFacts(q, cur, reply)
<1>1. CASE PageOK(q, table, M, cur, now, reply)
  <2>1. Left(q, table, cur, now) \subseteq Found(q, table, now)
    BY DEF Left
  <2> QED
    BY <1>1, <2>1 DEF PageOK, PageFacts
<1>2. CASE EventPageOK(q, table, cur, now, reply)
  BY <1>2 DEF EventPageOK, PageFacts
<1> QED
  BY <1>1, <1>2 DEF PageFacts

\* The parameters that a token fixes are all that a client can change.
LEMMA HashFixesSpec ==
  ASSUME NEW p \in Requests, NEW q \in Requests, p.client = q.client, HashOf(p) = HashOf(q)
  PROVE  p.spec = q.spec
<1>1. /\ WindowOf(p).start = WindowOf(q).start /\ WindowOf(p).end = WindowOf(q).end
      /\ WindowOf(p).filter = WindowOf(q).filter /\ WindowOf(p).limit = WindowOf(q).limit
  BY DEF HashOf, HashQueryParams
<1>2. /\ p.spec.filter = q.spec.filter /\ p.spec.limit = q.spec.limit
      /\ p.spec.start = q.spec.start /\ p.spec.end = q.spec.end
  BY <1>1, WindowFacts, RequestFacts
<1>3. /\ p.spec \in [start : Time, end : Time, filter : Nat, limit : Nat]
      /\ q.spec \in [start : Time, end : Time, filter : Nat, limit : Nat]
  BY RequestsAssumption DEF Request
<1> QED
  BY <1>2, <1>3

\* The phase after a page is what its token says.
LEMMA ReceiveFacts ==
  ASSUME NEW q, NEW cur, NEW reply, PageFacts(q, cur, reply), NEW before,
         Receive(q, reply, before)
  PROVE  /\ seen' = before \cup reply.rows /\ token' = reply.token
         /\ phase' \in {"paging", "done", "failed"} /\ (phase' = "paging" <=> token' # {})
         /\ phase' = "failed" <=> reply = Refused
         /\ phase' = "failed" <=> ~reply.ok
         /\ reply = Refused => reply.rows = {} /\ reply.token = {}
         /\ Cardinality(token') <= 1 /\ \A c, d \in token' : c = d
         /\ \A c \in token' : CursorOK(q, c)
<1>1. /\ seen' = before \cup reply.rows /\ token' = reply.token
      /\ phase' = IF ~reply.ok THEN "failed" ELSE IF reply.token = {} THEN "done" ELSE "paging"
  BY DEF Receive
<1>2. Refused.ok = FALSE /\ Refused.rows = {} /\ Refused.token = {}
  BY DEF Refused
<1>3. CASE reply = Refused
  <2>1. token' = {} /\ phase' = "failed" /\ ~reply.ok
    BY <1>1, <1>2, <1>3
  <2> QED
    BY <1>1, <1>2, <1>3, <2>1, FS_EmptySet
<1>4. CASE /\ reply.ok = TRUE
           /\ reply.token = {} \/ \E c : reply.token = {c} /\ CursorOK(q, c)
  <2>1. reply # Refused
    BY <1>2, <1>4
  <2>2. CASE reply.token = {}
    BY <1>1, <1>4, <2>1, <2>2, FS_EmptySet
  <2>3. ASSUME NEW c, reply.token = {c}, CursorOK(q, c)
        PROVE  /\ Cardinality(token') <= 1 /\ token' # {}
               /\ \A d \in token' : CursorOK(q, d) /\ \A e \in token' : d = e
    <3>1. token' = {c} /\ Cardinality({c}) = 1
      BY <1>1, <2>3, FS_Singleton
    <3> QED
      BY <2>3, <3>1
  <2> QED
    BY <1>1, <1>4, <2>1, <2>2, <2>3
<1> QED
  BY <1>3, <1>4 DEF PageFacts
LEMMA FirstPageKeeps ==
  ASSUME PagingInv, NEW q \in Requests, FirstPage(q)
  PROVE  PagingInv'
<1>1. ReadOK /\ TokenOK /\ table \subseteq Rows /\ Distinct(table)
  BY DEF PagingInv, ReadOK, TypeOK
<1>2. PICK reply \in Reply(q, {}) :
        Receive(q, reply, {}) /\ asked' = IF reply.ok THEN {q} ELSE {}
  BY DEF FirstPage
<1>3. /\ req' = q /\ base' = Found(q, table, now) /\ met' = table /\ twice' = {}
      /\ calm' = TRUE /\ table' = table /\ now' = now
  BY MatchingFound DEF FirstPage
<1>4. \/ reply = Refused
      \/ q.client # "events" /\ PageOK(q, table, table, {}, now, reply)
      \/ q.client = "events" /\ EventPageOK(q, table, {}, now, reply)
  <2>1. Asking(q, table, table, {})
    BY <1>1 DEF Asking
  <2> QED
    BY <2>1, ReplyOK
<1>5. PageFacts(q, {}, reply)
  BY <1>4, ReplyFacts
<1>6. /\ seen' = reply.rows /\ token' = reply.token
      /\ phase' \in {"paging", "done", "failed"} /\ (phase' = "paging" <=> token' # {})
      /\ phase' = "failed" <=> reply = Refused
      /\ phase' = "failed" <=> ~reply.ok
      /\ reply = Refused => reply.rows = {} /\ reply.token = {}
      /\ Cardinality(token') <= 1 /\ \A c, d \in token' : c = d
      /\ \A c \in token' : CursorOK(q, c)
  BY <1>2, <1>5, ReceiveFacts
<1>7. base' \subseteq table /\ reply.rows \subseteq base'
  BY <1>3, <1>5, <1>6 DEF PageFacts, Found
<1>8. ReadOK'
  <2>1. TypeOK'
    BY <1>1, <1>3, <1>6, <1>7 DEF ReadOK, TypeOK
  <2>2. Distinct(table)' /\ table' \subseteq met'
    BY <1>1, <1>3 DEF Distinct
  <2>3. \A r, s \in table' \cup met' : r.id = s.id => r = s
    BY <1>1, <1>3 DEF Distinct
  <2> QED
    BY <2>1, <2>2, <2>3 DEF ReadOK
<1>9. TokenOK'
  BY <1>2, <1>3, <1>6 DEF TokenOK
<1>10. phase' # "failed" => asked' = {q} /\ reply # Refused
  BY <1>2, <1>6
<1>11. BaseOK'
  BY <1>3, <1>6, <1>7 DEF BaseOK, Found, InWindow
<1>12. Found(q, base', now) = base' /\ Left(q, table, {}, now) = base'
  BY <1>3 DEF Found, Left
<1>13. PlaceOK'
  <2>1. CASE phase' = "paging" /\ q.client # "events"
    <3>1. PageOK(q, table, table, {}, now, reply) /\ reply.token # {}
      BY <1>4, <1>6, <1>10, <2>1
    <3> QED
      BY <1>3, <1>6, <1>12, <3>1 DEF PageOK, PlaceOK
  <2> QED
    BY <1>3, <2>1 DEF PlaceOK
<1>14. ASSUME q.client = "events", reply # Refused
       PROVE  /\ reply.token = {} /\ (\A r \in base' : Decodes(r)) => reply.rows = base'
              /\ reply.token # {} => /\ Leading(reply.rows, base')
                                     /\ \A c \in reply.token : c.pos = <<Cardinality(reply.rows)>>
  <2> DEFINE F == Found(q, table, now)
  <2>1. Leading({}, F) /\ Cardinality({}) = OffsetOf({}) /\ {} \in SUBSET F
    BY FS_EmptySet DEF Leading, OffsetOf
  <2>2. EventPageOK(q, table, {}, now, reply)
    BY <1>4, <1>14
  <2>3. \A done \in SUBSET F : Leading(done, F) /\ Cardinality(done) = OffsetOf({}) =>
          /\ reply.token = {} /\ (\A r \in F : Decodes(r)) => reply.rows = F \ done
          /\ reply.token # {} =>
               /\ Leading(done \cup reply.rows, F)
               /\ \A c \in reply.token : c.pos = <<Cardinality(done \cup reply.rows)>>
    BY <2>2, Zenon DEF EventPageOK
  <2> HIDE DEF F
  <2>4. /\ reply.token = {} /\ (\A r \in F : Decodes(r)) => reply.rows = F \ {}
        /\ reply.token # {} =>
             /\ Leading({} \cup reply.rows, F)
             /\ \A c \in reply.token : c.pos = <<Cardinality({} \cup reply.rows)>>
    BY <2>1, <2>3, Zenon
  <2>5. {} \cup reply.rows = reply.rows /\ F \ {} = F /\ base' = F
    BY <1>3 DEF F
  <2> QED
    BY <2>4, <2>5
<1>15. OffsetOK'
  BY <1>3, <1>6, <1>10, <1>14 DEF OffsetOK
<1>16. TwiceOK'
  BY <1>3 DEF TwiceOK
<1>17. DoneOK'
  <2>1. CASE phase' = "done" /\ q.client # "events"
    <3>1. PageOK(q, table, table, {}, now, reply) /\ reply.token = {}
      BY <1>4, <1>6, <1>10, <2>1
    <3> QED
      BY <1>3, <1>6, <1>12, <2>1, <3>1 DEF PageOK, DoneOK
  <2>2. CASE phase' = "done" /\ q.client = "events"
    <3>1. (\A r \in base' : Decodes(r)) => reply.rows = base'
      BY <1>6, <1>10, <1>14, <2>2
    <3> QED
      BY <1>3, <1>6, <1>7, <1>12, <2>2, <3>1 DEF DoneOK
  <2> QED
    BY <1>3, <2>1, <2>2 DEF DoneOK
<1> QED
  BY <1>8, <1>9, <1>11, <1>13, <1>15, <1>16, <1>17 DEF PagingInv

LEMMA NextPageKeeps ==
  ASSUME PagingInv, NEW q \in Requests, q.client = req.client, NextPage(q)
  PROVE  PagingInv'
<1>1. /\ ReadOK /\ TokenOK /\ table \subseteq Rows /\ Distinct(table) /\ phase = "paging"
      /\ table \subseteq met /\ base \subseteq table /\ req \in Requests /\ req \in asked
  BY DEF PagingInv, ReadOK, TokenOK, TypeOK, NextPage
<1>2. PICK reply \in Reply(q, token) :
        /\ Receive(q, reply, seen) /\ twice' = twice \cup (seen \cap reply.rows)
        /\ asked' = IF reply.ok THEN asked \cup {q} ELSE asked
  BY DEF NextPage
<1>3. req' = q /\ UNCHANGED <<table, now, base, met, calm>>
  BY DEF NextPage
<1>4. PICK c : token = {c}
  <2>1. token # {} /\ \A d, e \in token : d = e
    BY <1>1 DEF ReadOK, TypeOK, TokenOK
  <2> QED
    BY <2>1
<1>5. CursorOK(req, c)
  BY <1>1, <1>4 DEF TokenOK
<1>6. Asking(q, table, met, token) /\ (q.client = "listevents" => CursorOK(q, c))
  BY <1>1, <1>4, <1>5 DEF Asking, CursorOK
<1>7. \/ reply = Refused
      \/ q.client # "events" /\ PageOK(q, table, met, token, now, reply)
      \/ q.client = "events" /\ EventPageOK(q, table, token, now, reply)
  BY <1>4, <1>6, ReplyOK
<1>8. PageFacts(q, token, reply)
  BY <1>7, ReplyFacts
<1>9. /\ seen' = seen \cup reply.rows /\ token' = reply.token
      /\ phase' \in {"paging", "done", "failed"} /\ (phase' = "paging" <=> token' # {})
      /\ phase' = "failed" <=> reply = Refused
      /\ phase' = "failed" <=> ~reply.ok
      /\ reply = Refused => reply.rows = {} /\ reply.token = {}
      /\ Cardinality(token') <= 1 /\ \A d, e \in token' : d = e
      /\ \A d \in token' : CursorOK(q, d)
  BY <1>2, <1>8, ReceiveFacts
<1>10. reply.rows \subseteq Found(q, table, now) /\ reply.rows \subseteq table
  BY <1>8, <1>9 DEF PageFacts, Found
<1>11. ReadOK'
  <2>1. TypeOK'
    BY <1>1, <1>2, <1>3, <1>9, <1>10 DEF ReadOK, TypeOK
  <2> QED
    BY <1>1, <1>3, <2>1 DEF ReadOK, Distinct
<1>12. reply # Refused /\ q.client # "listevents" => q.spec = req.spec
  <2>1. reply # Refused /\ q.client # "listevents" => c.hash = HashOf(q) /\ c.hash = HashOf(req)
    BY <1>4, <1>5, <1>8 DEF PageFacts, CursorOK
  <2> QED
    BY <1>1, <2>1, HashFixesSpec
<1>13. TokenOK'
  <2>1. asked' \subseteq Requests /\ \A p \in asked' : p.client = req'.client
    BY <1>1, <1>2, <1>3 DEF TokenOK
  <2>2. q.client # "listevents" => \A p, r \in asked' : p.spec = r.spec
    BY <1>1, <1>2, <1>9, <1>12 DEF TokenOK
  <2>3. phase' \in {"paging", "done"} => q \in asked'
    BY <1>2, <1>9
  <2> QED
    BY <1>3, <1>9, <2>1, <2>2, <2>3 DEF TokenOK
<1>14. asked' = {q} => q = req /\ asked = {req}
  BY <1>1, <1>2
<1>15. asked' # {q} => BaseOK' /\ PlaceOK' /\ OffsetOK' /\ TwiceOK' /\ DoneOK'
  BY <1>3 DEF BaseOK, PlaceOK, OffsetOK, TwiceOK, DoneOK, OneRequest
<1>16. ASSUME q = req, asked = {req}
       PROVE  BaseOK' /\ PlaceOK' /\ OffsetOK' /\ TwiceOK' /\ DoneOK'
  <2>1. /\ \A r \in base : /\ Scoped(req, r)
                           /\ WindowOf(req).end # NoTime =>
                                r.ts < ParseFlexibleTime(WindowOf(req).end, now)
        /\ calm => base = Found(req, table, now) /\ seen \subseteq base
    BY <1>1, <1>16 DEF PagingInv, BaseOK, OneRequest
  <2>2. req' = req /\ calm => seen' \subseteq base
    BY <1>9, <1>10, <1>16, <2>1
  <2>3. BaseOK'
    BY <1>3, <1>16, <2>1, <2>2 DEF BaseOK
  <2>4. ASSUME req.client # "events" PROVE PlaceOK' /\ OffsetOK' /\ TwiceOK' /\ DoneOK'
    <3>1. /\ Solid(req, met) => twice = {} /\ \A s \in seen : ~After(req, s, c)
          /\ Sound(req, met) => \A r \in Found(req, base, now) :
               Decodes(r) => r \in seen \/ After(req, r, c)
      BY <1>1, <1>4, <1>16, <2>4 DEF PagingInv, PlaceOK, TwiceOK, OneRequest
    <3>2. \A r : r \in Left(req, table, token, now) <=> r \in Found(req, table, now) /\ After(req, r, c)
      BY <1>4 DEF Left
    <3>3. Found(req, base, now) \subseteq Found(req, table, now)
      BY <1>1 DEF Found
    <3>4. seen \subseteq Columns
      BY <1>1, RowsAssumption DEF ReadOK, TypeOK
    <3>5. \A r \in reply.rows : reply # Refused => After(req, r, c)
      BY <1>7, <1>16, <2>4, <3>2 DEF PageOK
    <3>6. Solid(req, met) => twice' = {}
      BY <1>2, <1>9, <3>1, <3>5
    <3>7. TwiceOK'
      BY <1>3, <1>16, <2>4, <3>6 DEF TwiceOK
    <3>8. PlaceOK'
      <4>1. SUFFICES ASSUME phase' = "paging", NEW d \in token'
                     PROVE  /\ Solid(req, met) => \A s \in seen' : ~After(req, s, d)
                            /\ Sound(req, met) => \A r \in Found(req, base, now) :
                                 Decodes(r) => r \in seen' \/ After(req, r, d)
        BY <1>3, <1>16 DEF PlaceOK
      <4>2. /\ Solid(req, met) =>
                 /\ \A p \in reply.rows : ~After(req, p, d)
                 /\ \A s \in Columns : After(req, s, d) => After(req, s, c)
            /\ Sound(req, met) => \A r \in Left(req, table, token, now) :
                 Decodes(r) => r \in reply.rows \/ After(req, r, d)
        <5>1. PageOK(req, table, met, token, now, reply) /\ reply.token = token'
          BY <1>7, <1>9, <1>16, <2>4, <4>1
        <5> QED
          BY <1>4, <4>1, <5>1 DEF PageOK
      <4> QED
        BY <1>9, <3>1, <3>2, <3>3, <3>4, <4>2
    <3>9. DoneOK'
      <4>1. ASSUME phase' = "done", Sound(req, met), NEW r \in Found(req, base, now), Decodes(r)
            PROVE  r \in seen'
        <5>1. PageOK(req, table, met, token, now, reply) /\ reply.token = {}
          BY <1>7, <1>9, <1>16, <2>4, <4>1
        <5>2. \A s \in Left(req, table, token, now) : Decodes(s) => s \in reply.rows
          BY <4>1, <5>1 DEF PageOK
        <5> QED
          BY <1>9, <3>1, <3>2, <3>3, <4>1, <5>2
      <4> QED
        BY <1>3, <1>16, <2>4, <4>1 DEF DoneOK
    <3>10. OffsetOK'
      BY <1>3, <1>16, <2>4 DEF OffsetOK
    <3> QED
      BY <3>7, <3>8, <3>9, <3>10
  <2>5. ASSUME req.client = "events" PROVE PlaceOK' /\ OffsetOK' /\ TwiceOK' /\ DoneOK'
    <3>1. PlaceOK'
      BY <1>3, <1>16, <2>5 DEF PlaceOK
    <3>2. ASSUME ~calm PROVE OffsetOK' /\ TwiceOK' /\ DoneOK'
      BY <1>3, <1>16, <2>5, <3>2 DEF OffsetOK, TwiceOK, DoneOK
    <3>3. ASSUME calm PROVE OffsetOK' /\ TwiceOK' /\ DoneOK'
      <4>1. /\ twice = {} /\ c.pos = <<Cardinality(seen)>> /\ Leading(seen, base)
            /\ base = Found(req, table, now) /\ seen \in SUBSET base
        BY <1>1, <1>4, <1>16, <2>1, <2>5, <3>3 DEF PagingInv, OffsetOK, TwiceOK, OneRequest
      <4>2. OffsetOf(token) = Cardinality(seen)
        BY <1>4, <4>1 DEF OffsetOf
      <4>3. CASE reply = Refused
        BY <1>2, <1>3, <1>9, <4>1, <4>3 DEF OffsetOK, TwiceOK, DoneOK
      <4>4. CASE reply # Refused
        <5>1. EventPageOK(req, table, token, now, reply)
          BY <1>7, <1>16, <2>5, <4>4
        <5> DEFINE F == Found(req, table, now)
        <5>2. \A done \in SUBSET F : Leading(done, F) /\ Cardinality(done) = OffsetOf(token) =>
                /\ reply.rows \subseteq F \ done
                /\ reply.token = {} /\ (\A r \in F : Decodes(r)) => reply.rows = F \ done
                /\ reply.token # {} =>
                     /\ Leading(done \cup reply.rows, F)
                     /\ \A d \in reply.token : d.pos = <<Cardinality(done \cup reply.rows)>>
          BY <5>1, Zenon DEF EventPageOK
        <5> HIDE DEF F
        <5>3. /\ reply.rows \subseteq base \ seen
              /\ reply.token = {} /\ (\A r \in base : Decodes(r)) => reply.rows = base \ seen
              /\ reply.token # {} =>
                   /\ Leading(seen \cup reply.rows, base)
                   /\ \A d \in reply.token : d.pos = <<Cardinality(seen \cup reply.rows)>>
          <6>1. base = F
            BY <4>1 DEF F
          <6>2. seen \in SUBSET F /\ Leading(seen, F) /\ Cardinality(seen) = OffsetOf(token)
            BY <4>1, <4>2, <6>1
          <6>3. /\ reply.rows \subseteq F \ seen
                /\ reply.token = {} /\ (\A r \in F : Decodes(r)) => reply.rows = F \ seen
                /\ reply.token # {} =>
                     /\ Leading(seen \cup reply.rows, F)
                     /\ \A d \in reply.token : d.pos = <<Cardinality(seen \cup reply.rows)>>
            BY <5>2, <6>2, Zenon
          <6> QED
            BY <6>1, <6>3
        <5>4. TwiceOK'
          BY <1>2, <1>3, <4>1, <5>3 DEF TwiceOK
        <5>5. OffsetOK'
          BY <1>3, <1>9, <5>3 DEF OffsetOK
        <5>6. DoneOK'
          <6>1. ASSUME phase' = "done", \A r \in met : Decodes(r) PROVE base \subseteq seen'
            <7>1. reply.token = {} /\ \A r \in base : Decodes(r)
              BY <1>1, <1>9, <6>1
            <7> QED
              BY <1>9, <5>3, <7>1
          <6>2. Found(req, base, now) \subseteq base
            BY DEF Found
          <6> QED
            BY <1>3, <1>16, <2>5, <6>1, <6>2 DEF DoneOK
        <5> QED
          BY <5>4, <5>5, <5>6
      <4> QED
        BY <4>3, <4>4
    <3> QED
      BY <3>1, <3>2, <3>3
  <2> QED
    BY <2>3, <2>4, <2>5
<1> QED
  BY <1>3, <1>11, <1>13, <1>14, <1>15, <1>16 DEF PagingInv

-----------------------------------------------------------------------------
(* The theorems.                                                           *)

LEMMA PagingInvKept == PagingInv /\ [Next]_vars => PagingInv'
<1> SUFFICES ASSUME PagingInv, [Next]_vars PROVE PagingInv'
  OBVIOUS
<1>1. ASSUME NEW r \in Rows, Insert(r) \/ Drop(r) PROVE PagingInv'
  BY <1>1, InsertKeeps, DropKeeps
<1>2. ASSUME NEW q \in Requests, FirstPage(q) PROVE PagingInv'
  BY <1>2, FirstPageKeeps
<1>3. CASE RunAllPages
  <2>1. NextPage(req) /\ req \in Requests
    BY <1>3 DEF RunAllPages, FeedRunAllPages, QueryRunAllPages, AuditRunAllPages,
                HistoryRunAllPages, EventsRunAllPages, ListAllActivities, ListAllEvents,
                PagingInv, ReadOK, TypeOK
  <2> QED
    BY <2>1, NextPageKeeps
<1>4. ASSUME NEW q \in Requests, ContinueAfter(q) PROVE PagingInv'
  <2>1. q.client = req.client /\ NextPage(q)
    BY <1>4 DEF ContinueAfter
  <2> QED
    BY <2>1, NextPageKeeps
<1> QED
  BY <1>1, <1>2, <1>3, <1>4, TickKeeps, OthersKeep DEF Next

\* The properties that the runs check follow from the invariant.
LEMMA PagingInvImplies ==
  PagingInv => TypeOK /\ OneQueryPerToken /\ NoRowTwice /\ EveryRowSeen
<1> SUFFICES ASSUME PagingInv PROVE TypeOK /\ OneQueryPerToken /\ NoRowTwice /\ EveryRowSeen
  OBVIOUS
<1>1. TypeOK /\ TokenOK /\ req \in Requests /\ TwiceOK /\ DoneOK
  BY DEF PagingInv, ReadOK, TypeOK
<1>2. OneQueryPerToken
  <2>1. SUFFICES ASSUME req.client # "listevents" PROVE Cardinality({q.spec : q \in asked}) <= 1
    BY DEF OneQueryPerToken
  <2>2. CASE asked = {}
    <3>1. {q.spec : q \in asked} = {}
      BY <2>2
    <3> QED
      BY <3>1, FS_EmptySet
  <2>3. ASSUME NEW p \in asked PROVE Cardinality({q.spec : q \in asked}) <= 1
    <3>1. {q.spec : q \in asked} = {p.spec}
      BY <1>1, <2>1, <2>3 DEF TokenOK
    <3>2. Cardinality({p.spec}) = 1
      BY FS_Singleton
    <3> QED
      BY <3>1, <3>2
  <2> QED
    BY <2>2, <2>3
<1>3. \A r : req.client \in AuditClients \cup EventClients =>
              (r \in Wanted <=> r \in met /\ Scoped(req, r))
  BY DEF Wanted, Scoped, AuditClients, EventClients
<1>4. req.client \in AuditClients => (CrossedTies <=> Crossed(req, met))
  BY <1>3 DEF CrossedTies, Crossed
<1>5. \A r \in met : r.stage \in Nat /\ r.ts \in Nat
  BY <1>1, RowsAssumption DEF TypeOK, Columns
<1>6. NoRowTwice
  <2>1. SUFFICES ASSUME OneRequest, twice # {}
                 PROVE  \/ /\ req.client \in AuditClients
                           /\ CrossedTies \/ \E r \in met : r.stage > r.ts
                        \/ req.client = "events" /\ ~calm
    BY DEF NoRowTwice, AuditClients
  <2>2. CASE req.client = "events"
    BY <1>1, <2>1, <2>2 DEF TwiceOK, TypeOK
  <2>3. CASE req.client # "events"
    <3>1. ~Solid(req, met)
      BY <1>1, <2>1, <2>3 DEF TwiceOK
    <3> QED
      BY <1>4, <1>5, <3>1 DEF Solid
  <2> QED
    BY <2>2, <2>3
<1>7. EveryRowSeen
  <2>1. SUFFICES ASSUME phase = "done", OneRequest, Reliable,
                        NEW r \in Matching(req, base), Decodes(r)
                 PROVE  r \in seen
    BY DEF EveryRowSeen
  <2>2. r \in Found(req, base, now)
    BY <1>1, <2>1, MatchingFound
  <2>3. IF req.client = "events" THEN calm /\ \A s \in met : Decodes(s) ELSE Sound(req, met)
    <3>1. CASE req.client = "feed"
      BY <3>1 DEF Sound, AuditClients
    <3>2. CASE req.client = "listactivities"
      BY <2>1, <3>2 DEF Sound, AuditClients, Reliable
    <3>3. CASE req.client \in AuditClients
      BY <1>4, <2>1, <3>3 DEF Sound, AuditClients, Reliable
    <3>4. CASE req.client = "events"
      BY <2>1, <3>4 DEF Reliable
    <3>5. CASE req.client = "listevents"
      <4>1. /\ \A s \in met : Decodes(s)
            /\ \A s, u \in Wanted : s.ins = u.ins => s = u
        BY <2>1, <3>5 DEF Reliable
      <4> QED
        BY <1>3, <3>5, <4>1 DEF Sound, AuditClients, EventClients
    <3> QED
      BY <1>1, <3>1, <3>2, <3>3, <3>4, <3>5, RequestFacts DEF EventClients
  <2> QED
    BY <1>1, <2>1, <2>2, <2>3 DEF DoneOK
<1> QED
  BY <1>1, <1>2, <1>6, <1>7

-----------------------------------------------------------------------------
(* Facets.                                                                 *)

LEMMA PrecedesTwo ==
  ASSUME NEW a1, NEW a2, NEW b1, NEW b2
  PROVE  Precedes(<<a1, a2>>, <<b1, b2>>) <=> a1 > b1 \/ (a1 = b1 /\ a2 > b2)
BY DEF Precedes

FacetOrder(c) == <<c[2], -c[1]>>

\* P holds the first of the counts X.
Top(P, X) ==
  P \subseteq X /\ \A p \in P, r \in X \ P : ~Precedes(FacetOrder(r), FacetOrder(p))

\* A set of counts has as many first ones as one likes.
LEMMA TopExists ==
  ASSUME NEW X, IsFiniteSet(X), NEW b \in Nat,
         \A c \in X : c[1] \in Nat /\ c[2] \in 0 .. b,
         NEW k \in 0 .. Cardinality(X)
  PROVE  \E P : Top(P, X) /\ Cardinality(P) = k
<1> DEFINE Bad == {n \in 0 .. Cardinality(X) : ~\E P : Top(P, X) /\ Cardinality(P) = n}
<1>1. SUFFICES ASSUME Bad # {} PROVE FALSE
  OBVIOUS
<1>2. Cardinality(X) \in Nat /\ Bad \subseteq Nat
  BY FS_CardinalityType
<1>3. PICK n \in Bad : \A x \in Bad : n <= x
  BY <1>1, <1>2, LeastNat, Zenon
<1>4. n \in 0 .. Cardinality(X) /\ ~\E P : Top(P, X) /\ Cardinality(P) = n
  BY <1>3
<1>5. n # 0
  <2>1. Top({}, X) /\ Cardinality({}) = 0
    BY FS_EmptySet DEF Top
  <2> QED
    BY <1>4, <2>1
<1>6. n - 1 \in 0 .. Cardinality(X) /\ n - 1 \notin Bad
  BY <1>2, <1>3, <1>4, <1>5
<1>7. PICK P : Top(P, X) /\ Cardinality(P) = n - 1
  BY <1>6
<1> HIDE DEF Bad
<1>8. P \subseteq X /\ IsFiniteSet(P) /\ X \ P # {}
  <2>1. P \subseteq X /\ P # X
    BY <1>2, <1>4, <1>7 DEF Top
  <2> QED
    BY <2>1, FS_Subset
<1> DEFINE R == X \ P
           less == [c \in R |-> b - c[2]]
           value == [c \in R |-> c[1]]
<1>9. \A c \in R : /\ less[c] = b - c[2] /\ value[c] = c[1]
                    /\ less[c] \in Nat /\ value[c] \in Nat
                    /\ c[2] \in Nat /\ c[1] \in Nat
  OBVIOUS
<1> HIDE DEF less, value
<1>10. PICK x \in R : LastBy(x, R, less, value, value, value)
  <2>1. /\ R # {}
        /\ \A c \in R : less[c] \in Nat /\ value[c] \in Nat /\ value[c] \in Nat /\ value[c] \in Nat
    BY <1>8, <1>9
  <2> HIDE DEF R
  <2> QED
    BY <2>1, LexLeast, Zenon
<1>11. ASSUME NEW c \in R PROVE ~Precedes(FacetOrder(c), FacetOrder(x))
  <2>1. less[x] <= less[c] /\ (less[x] = less[c] => value[x] <= value[c])
    BY <1>10 DEF LastBy
  <2>2. c[2] <= x[2] /\ (c[2] = x[2] => x[1] <= c[1])
    BY <1>9, <2>1
  <2>3. x[1] \in Nat /\ x[2] \in Nat /\ c[1] \in Nat /\ c[2] \in Nat
    BY <1>9
  <2> QED
    BY <2>2, <2>3, PrecedesTwo DEF FacetOrder
<1>12. Top(P \cup {x}, X)
  BY <1>7, <1>8, <1>11 DEF Top
<1>13. Cardinality(P \cup {x}) = n
  <2>1. x \notin P /\ n \in Int /\ Cardinality(P) = n - 1
    BY <1>2, <1>4, <1>7
  <2>2. Cardinality(P \cup {x}) = Cardinality(P) + 1
    BY <1>8, <2>1, FS_AddElement
  <2> QED
    BY <2>1, <2>2
<1> QED
  BY <1>4, <1>12, <1>13

Count(S, v) == Cardinality({r \in S : r.grp = v})

\* The values of a facet have the counts of their rows, and a value that is
\* left out has no greater one than those that fill the facet.
LEMMA CountedValues ==
  ASSUME NEW S, IsFiniteSet(S), \A r \in S : r.grp \in Nat
  PROVE  LET P == CountValues(S, 0)
         IN  /\ \A c \in P : c[2] = Count(S, c[1])
             /\ \A v \in {r.grp : r \in S} \ {c[1] : c \in P} :
                  Cardinality(P) = DefaultFacets /\ \A c \in P : c[2] >= Count(S, v)
<1> DEFINE X == {<<v, Count(S, v)>> : v \in {r.grp : r \in S}}
           some == Taken(X, DefaultFacets, FacetOrder)
           P == CountValues(S, 0)
           k == IF DefaultFacets < Cardinality(X) THEN DefaultFacets ELSE Cardinality(X)
<1>1. DefaultFacets \in Nat \ {0} /\ MaxFacets \in Nat /\ DefaultFacets <= MaxFacets
  BY QueryPageAssumption
<1>2. P = CHOOSE Q \in some : TRUE
  <2> DEFINE asked0 == IF 0 <= 0 THEN DefaultFacets ELSE 0
             most == IF asked0 > MaxFacets THEN MaxFacets ELSE asked0
  <2>1. most = DefaultFacets
    BY <1>1
  <2> HIDE DEF most
  <2>2. P = CHOOSE Q \in Taken(X, most, FacetOrder) : TRUE
    BY Zenon DEF CountValues, Count, Taken, FacetOrder, most
  <2> QED
    BY <2>1, <2>2
<1>3. some = {Q \in SUBSET X : Cardinality(Q) = k
                /\ \A p \in Q, r \in X \ Q : ~Precedes(FacetOrder(r), FacetOrder(p))}
  BY Zenon DEF Taken
<1> HIDE DEF some, P
<1>4. IsFiniteSet(X) /\ Cardinality(X) \in Nat
  <2> DEFINE f == [r \in S |-> <<r.grp, Count(S, r.grp)>>]
  <2>1. f \in Surjection(S, X)
    BY DEF Surjection
  <2> QED
    BY <2>1, FS_Surjection, FS_CardinalityType
<1>5. Cardinality(S) \in Nat /\ \A v : Count(S, v) \in 0 .. Cardinality(S)
  <2>1. ASSUME NEW v PROVE Count(S, v) \in Nat /\ Count(S, v) <= Cardinality(S)
    <3> DEFINE T == {r \in S : r.grp = v}
    <3>1. T \in SUBSET S /\ Count(S, v) = Cardinality(T)
      BY DEF Count
    <3> HIDE DEF T
    <3> QED
      BY <3>1, FS_Subset, FS_CardinalityType
  <2>2. Cardinality(S) \in Nat
    BY FS_CardinalityType
  <2> QED
    BY <2>1, <2>2
<1>6. \A c \in X : c[1] \in Nat /\ c[2] \in 0 .. Cardinality(S) /\ c[2] = Count(S, c[1])
  BY <1>5
<1>7. \A v \in {r.grp : r \in S} : <<v, Count(S, v)>> \in X
  OBVIOUS
<1> HIDE DEF X
<1>8. k \in 0 .. Cardinality(X)
  BY <1>1, <1>4
<1>9. P \in some
  <2>1. PICK Q : Top(Q, X) /\ Cardinality(Q) = k
    BY <1>4, <1>5, <1>6, <1>8, TopExists
  <2>2. Q \in some
    BY <1>3, <2>1 DEF Top
  <2> QED
    BY <1>2, <2>2
<1>10. /\ P \subseteq X /\ Cardinality(P) = k
       /\ \A p \in P, r \in X \ P : ~Precedes(FacetOrder(r), FacetOrder(p))
  BY <1>3, <1>9
<1>11. ASSUME NEW v \in {r.grp : r \in S} \ {c[1] : c \in P}
       PROVE  Cardinality(P) = DefaultFacets /\ \A c \in P : c[2] >= Count(S, v)
  <2> DEFINE w == <<v, Count(S, v)>>
  <2>1. w \in X \ P /\ w[1] = v /\ w[2] = Count(S, v)
    BY <1>7
  <2> HIDE DEF w
  <2>2. Cardinality(P) # Cardinality(X)
    BY <1>4, <1>10, <2>1, FS_Subset
  <2>3. ASSUME NEW c \in P PROVE c[2] >= Count(S, v)
    <3>1. ~Precedes(FacetOrder(w), FacetOrder(c))
      BY <1>10, <2>1
    <3>2. ~(w[2] > c[2])
      BY <3>1, PrecedesTwo DEF FacetOrder
    <3>3. w[2] \in Nat /\ c[2] \in Nat
      BY <1>5, <1>6, <1>10, <2>1
    <3> QED
      BY <2>1, <3>2, <3>3
  <2> QED
    BY <1>10, <2>2, <2>3
<1> QED
  BY <1>6, <1>10, <1>11 DEF P
LEMMA FacetsFollow == PagingInv => FacetsMatchPages
<1> DEFINE S == Found(req, table, now)
           values == {r.grp : r \in seen}
           count(v) == Cardinality({r \in seen : r.grp = v})
<1>1. SUFFICES ASSUME PagingInv, phase = "done", calm, OneRequest, Reliable,
                      \A r \in Matching(req, met) : Decodes(r),
                      req.spec.filter = NoFilter \/ req.client \notin EventClients
               PROVE  LET counted ==
                            CASE req.client \in {"feed", "listactivities"}
                                   -> QueryFacet(table, WindowOf(req), req.scope, 0, now)
                              [] req.client \in AuditClients
                                   -> QueryAuditLogFacet(table, WindowOf(req), req.scope, 0, now)
                              [] OTHER
                                   -> QueryEventFacet(table, WindowOf(req), req.scope, 0, now)
                      IN  /\ \A c \in counted : c[2] = count(c[1])
                          /\ \A v \in values \ {c[1] : c \in counted} :
                               /\ Cardinality(counted) = DefaultFacets
                               /\ \A c \in counted : c[2] >= count(v)
  BY Zenon DEF FacetsMatchPages, AuditClients, EventClients
<1> DEFINE counted ==
             CASE req.client \in {"feed", "listactivities"}
                    -> QueryFacet(table, WindowOf(req), req.scope, 0, now)
               [] req.client \in AuditClients
                    -> QueryAuditLogFacet(table, WindowOf(req), req.scope, 0, now)
               [] OTHER
                    -> QueryEventFacet(table, WindowOf(req), req.scope, 0, now)
<1>2. /\ req \in Requests /\ table \subseteq met /\ table \subseteq Columns /\ IsFiniteSet(table)
      /\ base = S /\ seen \subseteq base
  BY <1>1 DEF PagingInv, ReadOK, TypeOK, Distinct, BaseOK
<1>3. seen = S
  <2>1. EveryRowSeen
    BY <1>1, PagingInvImplies
  <2>2. {r \in Matching(req, base) : Decodes(r)} \subseteq seen
    BY <1>1, <2>1 DEF EveryRowSeen
  <2>3. Matching(req, base) = Found(req, base, now) /\ Matching(req, met) = Found(req, met, now)
    BY <1>2, MatchingFound
  <2>4. Found(req, base, now) = S /\ S \subseteq Found(req, met, now)
    BY <1>2 DEF Found
  <2> QED
    BY <1>1, <1>2, <2>2, <2>3, <2>4
<1>4. \A r : MatchesQuery(r, WindowOf(req)) <=> MatchesQuery(r, req.spec)
  BY <1>2, WindowFacts DEF MatchesQuery
<1> DEFINE W == WindowOf(req)
           facet == CountValues(S, 0)
<1>5. counted = facet
  <2>1. CASE req.client \in {"feed", "listactivities"}
    <3>1. {r \in table : /\ ActivityScope(r, req.scope)
                         /\ InWindow(r, W, now) /\ MatchesQuery(r, W)} = S
      BY <1>4, <2>1 DEF Found, Scoped, AuditClients, EventClients
    <3>2. QueryFacet(table, W, req.scope, 0, now) = facet
      BY <3>1, Zenon DEF QueryFacet
    <3>3. counted = QueryFacet(table, W, req.scope, 0, now)
      BY <2>1 DEF AuditClients
    <3> QED
      BY <3>2, <3>3, Zenon
  <2>2. CASE req.client \in AuditClients
    <3>1. {r \in table : /\ AuditScope(r, req.scope)
                         /\ InWindow(r, W, now) /\ MatchesQuery(r, W)} = S
      BY <1>4, <2>2 DEF Found, Scoped, AuditClients, EventClients
    <3>2. QueryAuditLogFacet(table, W, req.scope, 0, now) = facet
      BY <3>1, Zenon DEF QueryAuditLogFacet
    <3>3. counted = QueryAuditLogFacet(table, W, req.scope, 0, now)
      BY <2>2 DEF AuditClients
    <3> QED
      BY <3>2, <3>3, Zenon
  <2>3. CASE req.client \in EventClients
    <3>1. {r \in table : EventScope(r, req.scope) /\ InWindow(r, W, now)} = S
      <4>1. \A r : MatchesQuery(r, req.spec)
        BY <1>1, <2>3 DEF MatchesQuery
      <4> QED
        BY <2>3, <4>1 DEF Found, Scoped, AuditClients, EventClients
    <3>2. QueryEventFacet(table, W, req.scope, 0, now) = facet
      BY <3>1, Zenon DEF QueryEventFacet
    <3>3. counted = QueryEventFacet(table, W, req.scope, 0, now)
      BY <2>3 DEF AuditClients, EventClients
    <3> QED
      BY <3>2, <3>3, Zenon
  <2> QED
    BY <1>2, <2>1, <2>2, <2>3, RequestFacts
<1>6. IsFiniteSet(S) /\ \A r \in S : r.grp \in Nat
  BY <1>2, FS_Subset DEF Found, Columns
<1> HIDE DEF S, counted
<1>7. /\ \A c \in facet : c[2] = Count(S, c[1])
      /\ \A v \in {r.grp : r \in S} \ {c[1] : c \in facet} :
           Cardinality(facet) = DefaultFacets /\ \A c \in facet : c[2] >= Count(S, v)
  BY <1>6, CountedValues, Zenon
<1>8. \A v : count(v) = Count(S, v)
  BY <1>3 DEF Count
<1>9. values = {r.grp : r \in S}
  BY <1>3
<1> HIDE DEF facet, count, values
<1>10. /\ \A c \in counted : c[2] = count(c[1])
       /\ \A v \in values \ {c[1] : c \in counted} :
            /\ Cardinality(counted) = DefaultFacets
            /\ \A c \in counted : c[2] >= count(v)
  BY <1>5, <1>7, <1>8, <1>9
<1> QED
  BY <1>10, Zenon DEF counted

LEMMA PagingAlways == Spec => []PagingInv
<1> QED
  BY PagingInitInv, PagingInvKept, PTL DEF Spec

\* Reads are well formed: rows come from the table, and a client pages exactly
\* as long as it holds a token (the loops of pkg/cmd).
THEOREM PagingTyped == Spec => []TypeOK
<1> QED
  BY PagingAlways, PagingInvImplies, PTL

\* All pages that a token strings together were produced for one set of
\* parameters (hashQueryParams and its siblings).
THEOREM OneQueryAlways == Spec => []OneQueryPerToken
<1> QED
  BY PagingAlways, PagingInvImplies, PTL

\* No row is handed out twice, under the conditions that NoRowTwice states for
\* each kind of read (the cursor conditions of buildQuery and its siblings).
THEOREM NeverTwice == Spec => []NoRowTwice
<1> QED
  BY PagingAlways, PagingInvImplies, PTL

\* A client that has read to the end has every row that was there for its first
\* page and still is, under the conditions that Reliable states for each kind
\* of read (the cursor conditions against ORDER BY and LIMIT).
THEOREM AllRowsSeen == Spec => []EveryRowSeen
<1> QED
  BY PagingAlways, PagingInvImplies, PTL

\* The facet counts next to a list of results are those of the rows that
\* reading all its pages gives (queryFacet and its siblings repeat the
\* conditions of the queries).
THEOREM FacetsAlwaysMatch == Spec => []FacetsMatchPages
<1> QED
  BY PagingAlways, FacetsFollow, PTL
=============================================================================
