----------------------------- MODULE QueryPage -----------------------------
(***************************************************************************)
(* What one request for a page of audit logs, activities or Kubernetes     *)
(* events returns: the checks of the API server's registries, the query    *)
(* that internal/storage builds (scope, time window, filter, cursor, order,*)
(* LIMIT) and the continue token made from its rows.  No state of its own: *)
(* module Paging gives it a table that changes and clients that page       *)
(* through it, module Reindex the tables a re-index job reads.             *)
(*                                                                         *)
(* A row is a record with the columns that the queries look at:            *)
(*   id      audit_id, activity_name or uid: unique                        *)
(*   ts      timestamp (audit: requestReceivedTimestamp), last_timestamp   *)
(*   stage   the stageTimestamp inside an audit event's JSON, never        *)
(*           before ts and later than it for a slow request                *)
(*   ins     inserted_at                                                   *)
(*   user    the user or actor                                             *)
(*   grp     api_group, resource: the columns that an ORDER BY puts        *)
(*           between the time and the id, and the column facets count      *)
(*   tenant  the scope annotations or the tenant                           *)
(*   about   the user whose own User object an event-origin activity is    *)
(*           about, 0 when there is none                                   *)
(*   json    "good", "mistyped" (its metadata can be read, the whole       *)
(*           cannot) or "garbled"                                          *)
(* Times and ids are integers.  A query parameter reaches ClickHouse as    *)
(* the same instant: the driver's formatting of times is not modelled.     *)
(***************************************************************************)
EXTENDS Integers, FiniteSets, Sequences

CONSTANTS
  HourLen,          \* ticks in one of ClickHouse's hour buckets
  CursorTTL,        \* cursorTTL: how long a continue token is accepted
  MaxQueryWindow,   \* GetMaxQueryWindow
  MaxPageSize,      \* GetMaxPageSize
  DefaultLimit,     \* the page size when the request gives none
  ListWindow,       \* how far back List reads: one hour or 24 hours
  DefaultFacets,    \* values in a facet when the request does not say
  MaxFacets         \* and at most

ASSUME QueryPageAssumption ==
  /\ {HourLen, MaxPageSize, DefaultLimit, DefaultFacets, MaxFacets}
       \subseteq Nat \ {0}
  /\ {CursorTTL, MaxQueryWindow, ListWindow} \subseteq Nat
  /\ DefaultFacets <= MaxFacets

\* The columns of a row: times count up from the epoch.
Columns ==
  [id : Nat, ts : Nat, stage : Nat, ins : Nat, user : Nat, grp : Nat,
   about : Nat, tenant : [type : STRING, name : Nat],
   json : {"good", "mistyped", "garbled"}]

Platform == [type |-> "Platform", name |-> 0]
NoFilter == 0

----------------------------------------------------------------------------
(* Time.  A time in a request is absolute or "now-<at>"; it is resolved    *)
(* anew for every page.                                                    *)

NoTime == [rel |-> FALSE, at |-> -1]

ParseFlexibleTime(t, now) == IF t.rel THEN now - t.at ELSE t.at

InWindow(r, spec, now) ==
  /\ r.ts >= ParseFlexibleTime(spec.start, now)
  /\ spec.end # NoTime => r.ts < ParseFlexibleTime(spec.end, now)

\* The registries' checks of the three query resources; times in the
\* future are refused by ParseFlexibleTime itself.
ValidateQuerySpec(spec, now) ==
  LET start == ParseFlexibleTime(spec.start, now)
      end   == ParseFlexibleTime(spec.end, now)
  IN  /\ start <= now /\ end <= now
      /\ start < end /\ end - start <= MaxQueryWindow
      /\ spec.limit \in 0 .. MaxPageSize

\* toStartOfHour, ClickHouse's own.
Hour(t) == t \div HourLen

----------------------------------------------------------------------------
(* Scopes and filters.  The CEL filter or field selector of a request is   *)
(* "the user is u", or none.                                               *)

AuditScope(r, scope) ==
  CASE scope = Platform       -> TRUE
    [] scope.type = "User"    -> r.user = scope.name
    [] OTHER                  -> r.tenant = scope

\* What the user did, plus platform events about their own account.
UserScopeActivityCondition(r, user) == r.user = user \/ r.about = user

ActivityScope(r, scope) ==
  CASE scope = Platform       -> TRUE
    [] scope.type = "User"    -> UserScopeActivityCondition(r, scope.name)
    [] OTHER                  -> r.tenant = scope

EventScope(r, scope) == scope = Platform \/ r.tenant = scope

MatchesQuery(r, spec) == spec.filter = NoFilter \/ r.user = spec.filter

----------------------------------------------------------------------------
(* Order and LIMIT.  All orders are descending.  Rows that an ORDER BY     *)
(* does not tell apart come in any order, so LIMIT n has a set of results. *)

AuditOrder(r, spec, scope) ==
  CASE scope = Platform /\ spec.filter = NoFilter
         -> <<Hour(r.ts), r.ts, r.grp, r.id>>
    [] scope.type = "User" \/ (scope = Platform /\ spec.filter # NoFilter)
         -> <<Hour(r.ts), r.ts, r.user, r.grp, r.id>>
    [] OTHER
         -> <<Hour(r.ts), r.ts, r.user, r.id>>

ActivityOrder(r) == <<Hour(r.ts), r.ts, r.id>>

EventQueryOrder(r) == <<Hour(r.ts), r.ts, r.grp, r.id>>

EventListOrder(r) == <<r.ins>>

Precedes(a, b) ==
  \E i \in DOMAIN a : /\ \A j \in 1 .. i - 1 : a[j] = b[j]
                      /\ a[i] > b[i]

Taken(S, n, key(_)) ==
  LET k == IF n < Cardinality(S) THEN n ELSE Cardinality(S)
  IN  {P \in SUBSET S :
         /\ Cardinality(P) = k
         /\ \A p \in P, q \in S \ P : ~Precedes(key(q), key(p))}

LastOf(P, key(_)) == CHOOSE r \in P : \A q \in P : ~Precedes(key(r), key(q))

\* Fetch one row more than the page holds, drop the rows that do not decode,
\* and hand out a token when more than a page is left.
FetchPage(S, limit, key(_), good(_), token(_)) ==
  UNION {LET kept == {r \in fetched : good(r)}
         IN  {[ok    |-> TRUE,
               rows  |-> page,
               token |-> IF Cardinality(kept) > limit
                         THEN token(LastOf(page, key)) ELSE {}] :
                page \in Taken(kept, limit, key)} :
           fetched \in Taken(S, limit + 1, key)}

Refused == [ok |-> FALSE, rows |-> {}, token |-> {}]

----------------------------------------------------------------------------
(* Continue tokens: none is {}, one is a singleton.                        *)

HashQueryParams_NoFilter(spec) == <<spec.start, spec.end, spec.limit>>

HashQueryParams(spec) == <<spec.start, spec.end, spec.filter, spec.limit>>

EncodeCursor(r, spec, now) ==
  {[pos |-> <<r.stage, r.id>>, hash |-> HashQueryParams(spec), issued |-> now]}

DecodeCursor(cursor, spec, now) ==
  \A c \in cursor : /\ c.hash = HashQueryParams(spec)
                    /\ now - c.issued <= CursorTTL

HashActivityQueryParams(spec) ==
  <<spec.start, spec.end, spec.filter, spec.limit>>

EncodeActivityCursor(r, spec, now) ==
  IF r.json = "garbled"
  THEN {}
  ELSE {[pos    |-> <<r.ts, r.id>>,
         hash   |-> HashActivityQueryParams(spec),
         issued |-> now]}

DecodeActivityCursor(cursor, spec, now) ==
  \A c \in cursor : /\ c.hash = HashActivityQueryParams(spec)
                    /\ now - c.issued <= CursorTTL

HashEventQueryParams(spec) ==
  <<spec.start, spec.end, spec.filter, spec.limit>>

ResolveEventQueryLimit(limit) ==
  IF limit <= 0 THEN DefaultLimit
  ELSE IF limit > MaxPageSize THEN MaxPageSize ELSE limit

OffsetOf(cursor) == IF cursor = {} THEN 0 ELSE (CHOOSE c \in cursor : TRUE).pos[1]

EncodeEventQueryCursor(cursor, spec, now) ==
  {[pos    |-> <<OffsetOf(cursor) + ResolveEventQueryLimit(spec.limit)>>,
    hash   |-> HashEventQueryParams(spec),
    issued |-> now]}

DecodeEventQueryCursor(cursor, spec, now) ==
  \A c \in cursor : /\ c.hash = HashEventQueryParams(spec)
                    /\ now - c.issued <= CursorTTL

AfterCursor_NoTies(r, pos) == r.ts < pos[1]

AfterCursor_Inclusive(r, pos) ==
  r.ts < pos[1] \/ (r.ts = pos[1] /\ r.id <= pos[2])

\* The rows after a cursor's time and id.
AfterCursor(r, pos) ==
  \/ Hour(r.ts) < Hour(pos[1])
  \/ Hour(r.ts) = Hour(pos[1]) /\ r.ts < pos[1]
  \/ r.ts = pos[1] /\ r.id < pos[2]

----------------------------------------------------------------------------
(* The queries.                                                            *)

PageLimit(limit) ==
  LET asked == IF limit <= 0 THEN DefaultLimit ELSE limit
  IN  IF asked > MaxPageSize THEN MaxPageSize ELSE asked

Decodes(r) == r.json = "good"

AuditRows(table, spec, scope, cursor, now) ==
  {r \in table : /\ AuditScope(r, scope)
                 /\ InWindow(r, spec, now)
                 /\ MatchesQuery(r, spec)
                 /\ \A c \in cursor : AfterCursor(r, c.pos)}

QueryAuditLogs(table, spec, scope, cursor, now) ==
  LET key(r)   == AuditOrder(r, spec, scope)
      token(r) == EncodeCursor(r, spec, now)
  IN  FetchPage(AuditRows(table, spec, scope, cursor, now),
                PageLimit(spec.limit), key, Decodes, token)

CreateAuditLogQuery(table, spec, scope, cursor, now) ==
  IF ValidateQuerySpec(spec, now) /\ DecodeCursor(cursor, spec, now)
  THEN QueryAuditLogs(table, spec, scope, cursor, now)
  ELSE {Refused}

ActivityRows(table, spec, scope, cursor, now) ==
  {r \in table : /\ ActivityScope(r, scope)
                 /\ InWindow(r, spec, now)
                 /\ MatchesQuery(r, spec)
                 /\ \A c \in cursor : AfterCursor(r, c.pos)}

\* The rows are not decoded here.
QueryActivities(table, spec, scope, cursor, now) ==
  LET all(r)   == TRUE
      token(r) == EncodeActivityCursor(r, spec, now)
  IN  FetchPage(ActivityRows(table, spec, scope, cursor, now),
                PageLimit(spec.limit), ActivityOrder, all, token)

\* One row that does not decode fails the request.
CreateActivityQuery(table, spec, scope, cursor, now) ==
  IF ValidateQuerySpec(spec, now) /\ DecodeActivityCursor(cursor, spec, now)
  THEN {IF \A r \in reply.rows : Decodes(r) THEN reply ELSE Refused :
          reply \in QueryActivities(table, spec, scope, cursor, now)}
  ELSE {Refused}

\* GET on activities: the last hour, no end, and no checks but the token's.
ListActivities(table, spec, scope, cursor, now) ==
  LET asked == [spec EXCEPT !.start = [rel |-> TRUE, at |-> ListWindow],
                            !.end   = NoTime]
  IN  IF DecodeActivityCursor(cursor, asked, now)
      THEN {[reply EXCEPT !.rows = {r \in @ : Decodes(r)}] :
              reply \in QueryActivities(table, asked, scope, cursor, now)}
      ELSE {Refused}

EventRows(table, spec, scope, now) ==
  {r \in table : /\ EventScope(r, scope)
                 /\ InWindow(r, spec, now)
                 /\ MatchesQuery(r, spec)}

\* LIMIT n OFFSET m.
QueryEvents(table, spec, scope, cursor, now) ==
  LET S         == EventRows(table, spec, scope, now)
      token(r)  == EncodeEventQueryCursor(cursor, spec, now)
      skipped   == CHOOSE P \in Taken(S, OffsetOf(cursor), EventQueryOrder) : TRUE
  IN  FetchPage(S \ skipped, ResolveEventQueryLimit(spec.limit),
                EventQueryOrder, Decodes, token)

CreateEventQuery(table, spec, scope, cursor, now) ==
  IF ValidateQuerySpec(spec, now) /\ DecodeEventQueryCursor(cursor, spec, now)
  THEN QueryEvents(table, spec, scope, cursor, now)
  ELSE {Refused}

\* GET on events: the last 24 hours.  The token is the inserted_at of the last
\* row: no hash, no expiry.
ListEvents(table, spec, scope, cursor, now) ==
  LET asked    == [spec EXCEPT !.start = [rel |-> TRUE, at |-> ListWindow],
                               !.end   = NoTime]
      limit    == IF spec.limit > 0 THEN spec.limit ELSE DefaultLimit
      token(r) == {[pos |-> <<r.ins>>, hash |-> <<>>, issued |-> now]}
  IN  FetchPage({r \in EventRows(table, asked, scope, now) :
                   \A c \in cursor : r.ins < c.pos[1]},
                limit, EventListOrder, Decodes, token)

----------------------------------------------------------------------------
(* Facets: the most frequent values of a column, with their counts.        *)

CountValues(S, limit) ==
  LET asked  == IF limit <= 0 THEN DefaultFacets ELSE limit
      most   == IF asked > MaxFacets THEN MaxFacets ELSE asked
      counts == {<<v, Cardinality({r \in S : r.grp = v})>> :
                   v \in {r.grp : r \in S}}
      key(c) == <<c[2], -c[1]>>
  IN  CHOOSE P \in Taken(counts, most, key) : TRUE

QueryAuditLogFacet(table, spec, scope, limit, now) ==
  CountValues({r \in table : /\ AuditScope(r, scope)
                             /\ InWindow(r, spec, now)
                             /\ MatchesQuery(r, spec)}, limit)

QueryFacet(table, spec, scope, limit, now) ==
  CountValues({r \in table : /\ ActivityScope(r, scope)
                             /\ InWindow(r, spec, now)
                             /\ MatchesQuery(r, spec)}, limit)

QueryEventFacet_AllScopes(table, spec, scope, limit, now) ==
  CountValues({r \in table : InWindow(r, spec, now)}, limit)

\* The facet queries of events take no filter.
QueryEventFacet(table, spec, scope, limit, now) ==
  CountValues({r \in table : /\ EventScope(r, scope)
                             /\ InWindow(r, spec, now)}, limit)
=============================================================================
