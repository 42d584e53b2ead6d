------------------------------- MODULE Paging -------------------------------
(***************************************************************************)
(* A client that reads a table of internal/storage page by page while the  *)
(* table changes under it: Vector inserts rows, late ones too, ClickHouse  *)
(* drops rows that expire or that a newer version replaces, and time       *)
(* passes, which moves "now-1h" windows and ages continue tokens.  The     *)
(* requests themselves are module QueryPage.                               *)
(*                                                                         *)
(* The clients are the commands of the CLI with --all-pages (feed, query,  *)
(* audit, history, events), a user who pages by hand with --continue-after *)
(* and may change a parameter on the way, and Kubernetes clients that list *)
(* activities or events.                                                   *)
(***************************************************************************)
EXTENDS QueryPage

CONSTANTS
  Rows,       \* the rows that may be inserted
  Requests,   \* [client, spec, scope]: what the clients may ask for
  MaxNow      \* bound on the clock

\* A request is not answered before it is received.
ASSUME RowsAssumption ==
  /\ MaxNow \in Nat
  /\ Rows \subseteq Columns
  /\ \A r \in Rows : r.stage >= r.ts

Time == [rel : BOOLEAN, at : Int]

Request ==
  [client : {"feed", "query", "audit", "history", "events",
             "listactivities", "listevents"},
   spec   : [start : Time, end : Time, filter : Nat, limit : Nat],
   scope  : [type : STRING, name : Nat]]

\* GET has no parameters for a window.
ASSUME RequestsAssumption ==
  /\ Requests \subseteq Request
  /\ \A q \in Requests : q.client \in {"listactivities", "listevents"}
                          => q.spec.start = NoTime /\ q.spec.end = NoTime

VARIABLES
  table,    \* the rows of the table that the current request reads
  now,      \* the clock
  req,      \* the client, the parameters and the scope of its current request
  token,    \* the continue token of its last page, {} when there is none
  phase,    \* "idle", "paging", "done" or "failed"
  base,     \* rows that were there for the first page and have stayed
  met,      \* rows that were in the table at some time of this read
  seen,     \* rows that the client received
  twice,    \* rows that it received more than once
  calm,     \* no row came or went during this read, and no window moved
  asked     \* the requests that its pages were produced for

vars == <<table, now, req, token, phase, base, met, seen, twice, calm, asked>>

Reply(q, cursor) ==
  CASE q.client = "feed"
         -> CreateActivityQuery(table, q.spec, q.scope, cursor, now)
    [] q.client \in {"query", "audit", "history"}
         -> CreateAuditLogQuery(table, q.spec, q.scope, cursor, now)
    [] q.client = "events"
         -> CreateEventQuery(table, q.spec, q.scope, cursor, now)
    [] q.client = "listactivities"
         -> ListActivities(table, q.spec, q.scope, cursor, now)
    [] q.client = "listevents"
         -> ListEvents(table, q.spec, q.scope, cursor, now)

\* The window a client's pages are read from, the list calls' own included.
WindowOf(q) ==
  IF q.client \in {"listactivities", "listevents"}
  THEN [q.spec EXCEPT !.start = [rel |-> TRUE, at |-> ListWindow], !.end = NoTime]
  ELSE q.spec

\* What q reads when all is well.
Matching(q, S) ==
  CASE q.client \in {"feed", "listactivities"}
         -> ActivityRows(S, WindowOf(q), q.scope, {}, now)
    [] q.client \in {"query", "audit", "history"}
         -> AuditRows(S, WindowOf(q), q.scope, {}, now)
    [] q.client \in {"events", "listevents"}
         -> EventRows(S, WindowOf(q), q.scope, now)

Init ==
  /\ table = {}
  /\ now = 0
  /\ req \in Requests
  /\ token = {}
  /\ phase = "idle"
  /\ base = {} /\ met = {} /\ seen = {} /\ twice = {}
  /\ calm = TRUE
  /\ asked = {}

----------------------------------------------------------------------------
(* The table and the clock.                                                *)

\* Nothing is followed past the end of a read until the next one begins.
Reading == phase \in {"idle", "paging"}

Insert(r) ==
  /\ Reading
  /\ \A s \in table \cup met : s.id # r.id
  /\ r.ts <= now
  /\ table' = table \cup {r}
  /\ met' = IF phase = "paging" THEN met \cup {r} ELSE met
  /\ calm' = (phase = "idle")
  /\ UNCHANGED <<now, req, token, phase, base, seen, twice, asked>>

Drop(r) ==
  /\ Reading
  /\ r \in table
  /\ table' = table \ {r}
  /\ base' = base \ {r}
  /\ calm' = (phase = "idle")
  /\ UNCHANGED <<now, req, token, phase, met, seen, twice, asked>>

Tick ==
  /\ Reading
  /\ now < MaxNow
  /\ now' = now + 1
  /\ calm' = (phase = "idle" \/ (calm /\ ~WindowOf(req).start.rel
                                    /\ ~WindowOf(req).end.rel))
  /\ UNCHANGED <<table, req, token, phase, base, met, seen, twice, asked>>

----------------------------------------------------------------------------
(* The clients.                                                            *)

Receive_Retries(q, reply, before) ==
  /\ seen' = before \cup reply.rows
  /\ token' = IF reply.ok THEN reply.token ELSE token
  /\ phase' = IF token' # {} THEN "paging" ELSE IF reply.ok THEN "done" ELSE "failed"

\* A page arrives: the loops go on while there is a token, and give up on
\* the first error.
Receive(q, reply, before) ==
  /\ seen' = before \cup reply.rows
  /\ token' = reply.token
  /\ phase' = IF ~reply.ok THEN "failed"
              ELSE IF reply.token = {} THEN "done" ELSE "paging"

FirstPage(q) ==
  /\ phase = "idle"
  /\ req' = q
  /\ base' = Matching(q, table)
  /\ met' = table
  /\ twice' = {}
  /\ calm' = TRUE
  /\ \E reply \in Reply(q, {}) :
       /\ Receive(q, reply, {})
       /\ asked' = IF reply.ok THEN {q} ELSE {}
  /\ UNCHANGED <<table, now>>

NextPage(q) ==
  /\ phase = "paging"
  /\ req' = q
  /\ \E reply \in Reply(q, token) :
       /\ Receive(q, reply, seen)
       /\ twice' = twice \cup (seen \cap reply.rows)
       /\ asked' = IF reply.ok THEN asked \cup {q} ELSE asked
  /\ UNCHANGED <<table, now, base, met, calm>>

\* One loop per command: the same parameters on every page.
FeedRunAllPages    == req.client = "feed"    /\ NextPage(req)
QueryRunAllPages   == req.client = "query"   /\ NextPage(req)
AuditRunAllPages   == req.client = "audit"   /\ NextPage(req)
HistoryRunAllPages == req.client = "history" /\ NextPage(req)
EventsRunAllPages  == req.client = "events"  /\ NextPage(req)
ListAllActivities  == req.client = "listactivities" /\ NextPage(req)
ListAllEvents      == req.client = "listevents"     /\ NextPage(req)

RunAllPages ==
  \/ FeedRunAllPages \/ QueryRunAllPages \/ AuditRunAllPages
  \/ HistoryRunAllPages \/ EventsRunAllPages
  \/ ListAllActivities \/ ListAllEvents

\* --continue-after with other parameters, or in another scope.
ContinueAfter(q) ==
  /\ q.client = req.client /\ q # req
  /\ NextPage(q)

RequestFails_KeepsToken ==
  /\ phase = "paging"
  /\ phase' = "failed"
  /\ UNCHANGED <<table, now, req, token, base, met, seen, twice, calm, asked>>

\* ClickHouse does not answer.
RequestFails ==
  /\ phase = "paging"
  /\ phase' = "failed"
  /\ token' = {}
  /\ UNCHANGED <<table, now, req, base, met, seen, twice, calm, asked>>

\* The command exits.
Exit ==
  /\ phase \in {"done", "failed"}
  /\ phase' = "idle"
  /\ base' = {} /\ met' = {} /\ seen' = {} /\ twice' = {}
  /\ calm' = TRUE
  /\ asked' = {}
  /\ UNCHANGED <<table, now, req, token>>

Next ==
  \/ \E r \in Rows : Insert(r)
  \/ \E r \in Rows : Drop(r)
  \/ Tick
  \/ \E q \in Requests : FirstPage(q)
  \/ RunAllPages
  \/ \E q \in Requests : ContinueAfter(q)
  \/ RequestFails
  \/ Exit

Spec == Init /\ [][Next]_vars

\* A client that has a token asks for the next page.
FairSpec == Spec /\ WF_vars(RunAllPages)

----------------------------------------------------------------------------
\* Rows, token and phase agree: a client pages exactly as long as it holds a
\* token, also after a request that failed (the loops of pkg/cmd).
TypeOK ==
  /\ table \subseteq Rows /\ base \subseteq table
  /\ now \in 0 .. MaxNow
  /\ req \in Requests
  /\ phase \in {"idle", "paging", "done", "failed"}
  /\ Cardinality(token) <= 1
  /\ phase = "paging" <=> token # {}
  /\ met \subseteq Rows /\ seen \subseteq met /\ twice \subseteq seen
  /\ calm \in BOOLEAN

\* The rows of a read of audit logs or events that its scope and filter let
\* through, those that have left the window included.
Wanted ==
  {r \in met : /\ MatchesQuery(r, req.spec)
               /\ IF req.client \in {"events", "listevents"}
                  THEN EventScope(r, req.scope)
                  ELSE AuditScope(r, req.scope)}

\* Rows that the ORDER BY tells apart by a column that the cursor lacks.
CrossedTies ==
  \E r, s \in Wanted : /\ r.ts = s.ts /\ r.id < s.id
                       /\ Precedes(AuditOrder(r, req.spec, req.scope),
                                   AuditOrder(s, req.spec, req.scope))

\* What each kind of read needs for its pages to hold every row.  The feed
\* needs nothing.
Reliable ==
  CASE req.client = "feed"           -> TRUE
    [] req.client = "listactivities" -> \A r \in met : r.json # "garbled"
    [] req.client \in {"query", "audit", "history"}
         -> (\A r \in met : Decodes(r)) /\ ~CrossedTies
    [] req.client = "events"         -> (\A r \in met : Decodes(r)) /\ calm
    [] req.client = "listevents"
         -> /\ \A r \in met : Decodes(r)
            /\ \A r, s \in Wanted : r.ins = s.ins => r = s

\* All pages were produced for the current parameters.
OneRequest == asked = {req}

\* A client that pages with unchanged parameters until there is no token has
\* received every row that was there for its first page, is still there and
\* is still in its window, whatever was inserted or dropped meanwhile.  An
\* ActivityQuery needs nothing more; audit logs need rows that decode and no
\* equal timestamps in crossed order, EventQuery a table that does not change,
\* List on events distinct insertion times (buildQuery's cursor conditions
\* against its ORDER BY, encodeCursor, decodeActivityCursor).
EveryRowSeen ==
  (phase = "done" /\ OneRequest /\ Reliable)
    => {r \in Matching(req, base) : Decodes(r)} \subseteq seen

\* No row is handed out twice: for audit logs as long as no request was slow
\* and no equal timestamps are in crossed order, for EventQuery as long as the
\* table does not change.
NoRowTwice ==
  OneRequest =>
    \/ twice = {}
    \/ /\ req.client \in {"query", "audit", "history"}
       /\ CrossedTies \/ \E r \in met : r.stage > r.ts
    \/ req.client = "events" /\ ~calm

\* All pages that a token strings together were produced for the parameters
\* of the first: a token with other parameters is refused, in another scope it
\* is not (hashQueryParams and its two siblings; List on events has no hash).
OneQueryPerToken ==
  req.client # "listevents" => Cardinality({q.spec : q \in asked}) <= 1

\* The facet counts next to a list of results are the counts of the rows that
\* reading all its pages gives, and name the most frequent values
\* (queryFacet, queryAuditLogFacet and queryEventFacet repeat the
\* conditions of the queries).
FacetsMatchPages ==
  (phase = "done" /\ calm /\ OneRequest /\ Reliable
     /\ twice = {} /\ \A r \in Matching(req, met) : Decodes(r)) =>
    LET counted ==
          CASE req.client \in {"feed", "listactivities"}
                 -> QueryFacet(table, WindowOf(req), req.scope, 0, now)
            [] req.client \in {"query", "audit", "history"}
                 -> QueryAuditLogFacet(table, WindowOf(req), req.scope, 0, now)
            [] OTHER
                 -> QueryEventFacet(table, WindowOf(req), req.scope, 0, now)
        count(v) == Cardinality({r \in seen : r.grp = v})
    IN  req.spec.filter = NoFilter \/ req.client \notin {"events", "listevents"} =>
          /\ \A c \in counted : c[2] = count(c[1])
          /\ \A v \in {r.grp : r \in seen} \ {c[1] : c \in counted} :
               /\ Cardinality(counted) = DefaultFacets
               /\ \A c \in counted : c[2] >= count(v)

\* A client that follows the tokens comes to an end, unless it reads audit
\* logs and a slow request is among them (its cursor lies after rows that were
\* already handed out).
PagingEnds ==
  (phase = "paging")
    ~> \/ phase # "paging"
       \/ /\ req.client \in {"query", "audit", "history"}
          /\ \E r \in table : r.stage > r.ts
=============================================================================
