------------------------------ MODULE Reindex ------------------------------
(***************************************************************************)
(* The re-index worker's run over the history (internal/reindex), next to  *)
(* the live processor that it shares the activities table with.  The       *)
(* worker lists the policies once, reads the audit logs of its window page *)
(* by page (module QueryPage), then the events, evaluates every row and    *)
(* publishes the activities to ACTIVITIES_REINDEX; the processor evaluates *)
(* the same rows as they arrive and publishes to ACTIVITIES; Vector        *)
(* inserts both into a table that keeps, for each key, the row inserted    *)
(* last (ReplacingMergeTree, reindex_version is the insertion time).       *)
(*                                                                         *)
(* The Job object, its retries and the ReindexJob's status are module      *)
(* ReindexJob; here a run may follow any other.  Progress counts and       *)
(* metrics are left out.                                                   *)
(***************************************************************************)
EXTENDS QueryPage, SequencesExt

CONSTANTS
  AuditLogs, Events,  \* the rows that may be stored, as in QueryPage
  Old,                \* rows that arrived before there was a policy
  Policies,           \* the policies, a sequence in the order List has them
  Verdict,            \* [version -> [policy -> [row -> verdict]]]
  Jobs,               \* [start, end, size, rate, dryRun, names]: the options
  MaxRetries,         \* defaultMaxRetries
  MaxNow, MaxRuns, MaxFaults   \* bounds

ASSUME ReindexAssumption ==
  /\ MaxRetries \in Nat \ {0}
  /\ Old \subseteq AuditLogs \cup Events /\ IsFiniteSet(Old)
  /\ Policies \in Seq(Range(Policies))

\* The worker resolves "now-7d" before it starts: the window of a run is fixed.
ASSUME JobsAssumption ==
  \A j \in Jobs : /\ j.size \in Nat \ {0} /\ j.rate \in Nat
                  /\ ~j.start.rel /\ ~j.end.rel

\* Audit logs and events are rows of two tables; the id of an audit log is its
\* auditID, that of an event its uid.  A request is not answered before it is
\* received.
ASSUME RowsAssumption ==
  /\ AuditLogs \cup Events \subseteq Columns /\ AuditLogs \cap Events = {}
  /\ \A r, s \in AuditLogs : r.id = s.id => r = s
  /\ \A r, s \in Events : r.id = s.id => r = s
  /\ \A r \in AuditLogs : r.stage >= r.ts

VARIABLES
  audits, events,  \* the rows that ClickHouse has
  now,             \* the clock
  policy,          \* the version of the policies' specs
  evaluated,       \* rows that the processor has evaluated
  live,            \* activities in ACTIVITIES that Vector has not inserted
  stream,          \* the same of ACTIVITIES_REINDEX
  activities,      \* the merged activities table
  run,             \* how many runs have started
  phase,           \* "idle", "audit", "event", "succeeded" or "failed"
  job,             \* the options of the run
  rules,           \* its compiled policies: [ver, order], in the order of List
  cursor,          \* the token of the page to fetch
  batch,           \* the page in hand: [todo, size, next], or NoBatch
  attempt,         \* failed attempts to publish Head(batch.todo)
  begin,           \* rows that were stored when the run started
  foreign,         \* keys that something else has inserted since
  faults

stored  == <<audits, events>>
worker  == <<run, phase, job, rules, cursor, batch, attempt, begin>>
vars    == <<stored, now, policy, evaluated, live, stream, activities, worker,
             foreign, faults>>

NoBatch == [todo |-> <<>>, size |-> 0, next |-> {}]
NoRules == [ver |-> 0, order |-> <<>>]

Init ==
  /\ audits = AuditLogs \cap Old /\ events = Events \cap Old
  /\ evaluated = Old
  /\ now = 1
  /\ policy = 1
  /\ live = {} /\ stream = {} /\ activities = {}
  /\ run = 0 /\ phase = "idle"
  /\ job = CHOOSE j \in Jobs : TRUE
  /\ rules = NoRules
  /\ cursor = {} /\ batch = NoBatch /\ attempt = 0
  /\ begin = {} /\ foreign = {}
  /\ faults = 0

----------------------------------------------------------------------------
(* Evaluation.  A rule's verdict on a row is "match", "none", "badmatch"   *)
(* (its match expression fails) or "badsummary" (its summary does).  The   *)
(* result is the set of the policy that makes the activity: none, or one.  *)

First(order, stops) ==
  {order[i] : i \in {k \in DOMAIN order :
                       /\ order[k] \in stops
                       /\ \A l \in DOMAIN order : l < k => order[l] \notin stops}}

\* An error of either kind is logged and the next policy tried.
EvaluateAudit(r, rs) ==
  First(rs.order, {p \in Range(rs.order) : Verdict[rs.ver][p][r] = "match"})

\* A failing summary ends the search, without an activity.
MatchEvent(r, rs) ==
  LET stops == {p \in Range(rs.order) :
                  Verdict[rs.ver][p][r] \in {"match", "badsummary"}}
  IN  {p \in First(rs.order, stops) : Verdict[rs.ver][p][r] = "match"}

\* The columns that the table is keyed by.
BuildFromAudit_Now(r) == [ts |-> now, tenant |-> r.tenant, origin |-> <<"audit", r.id>>]

BuildFromAudit(r) ==
  [ts |-> r.ts, tenant |-> r.tenant, origin |-> <<"audit", r.id>>]

BuildActivity(r) ==
  [ts |-> r.ts, tenant |-> r.tenant, origin |-> <<"event", r.id>>]

\* eventRecordToMap keeps no annotations, and no time that
\* resolveEventTimestamp can read.
BuildFromEvent(r) ==
  [ts |-> now, tenant |-> Platform, origin |-> <<"event", r.id>>]

Activity(key, by, ver, pol) == [key |-> key, by |-> by, ver |-> ver, pol |-> pol]

----------------------------------------------------------------------------
(* The live pipeline.                                                      *)

StoreAuditLog(r) ==
  /\ r \in AuditLogs \ audits /\ r.ts <= now
  /\ audits' = audits \cup {r}
  /\ UNCHANGED <<events, now, policy, evaluated, live, stream, activities,
                 worker, foreign, faults>>

StoreEvent(r) ==
  /\ r \in Events \ events /\ r.ts <= now
  /\ events' = events \cup {r}
  /\ UNCHANGED <<audits, now, policy, evaluated, live, stream, activities,
                 worker, foreign, faults>>

AllRules == [ver |-> policy, order |-> Policies]

\* processMessage and the event processor's counterpart; failures go to the
\* dead-letter queue, which is module DeadLetter.
Process(r, key, pols) ==
  /\ r.ts <= now /\ r \notin evaluated
  /\ evaluated' = evaluated \cup {r}
  /\ live' = live \cup {Activity(key, 0, policy, p) : p \in pols}
  /\ UNCHANGED <<stored, now, policy, stream, activities, worker, foreign, faults>>

ProcessAuditLog(r) ==
  r \in AuditLogs /\ Process(r, BuildFromAudit(r), EvaluateAudit(r, AllRules))

ProcessEvent(r) ==
  r \in Events /\ Process(r, BuildActivity(r), MatchEvent(r, AllRules))

EditPolicies ==
  /\ policy + 1 \in DOMAIN Verdict
  /\ policy' = policy + 1
  /\ UNCHANGED <<stored, now, evaluated, live, stream, activities, worker,
                 foreign, faults>>

Tick ==
  /\ now < MaxNow
  /\ now' = now + 1
  /\ UNCHANGED <<stored, policy, evaluated, live, stream, activities, worker,
                 foreign, faults>>

\* The row inserted last replaces the others of its key.
Insert(a) ==
  /\ activities' = {b \in activities : b.key # a.key} \cup {a}
  /\ foreign' = IF a.by # run /\ phase \in {"audit", "event", "succeeded"}
                THEN foreign \cup {a.key} ELSE foreign

Deliver(a) ==
  /\ a \in live \cup stream
  /\ Insert(a)
  /\ live' = live \ {a}
  /\ stream' = stream \ {a}
  /\ UNCHANGED <<stored, now, policy, evaluated, worker, faults>>

\* The acknowledgment comes late: Vector gets the message again.
Redeliver(a) ==
  /\ a \in live \cup stream
  /\ faults < MaxFaults
  /\ Insert(a)
  /\ faults' = faults + 1
  /\ UNCHANGED <<stored, now, policy, evaluated, live, stream, worker>>

----------------------------------------------------------------------------
(* The worker.                                                             *)

Running == phase \in {"audit", "event"}

Fail ==
  /\ phase' = "failed"
  /\ rules' = NoRules /\ begin' = {} /\ foreign' = {}
  /\ cursor' = {} /\ batch' = NoBatch /\ attempt' = 0
  /\ UNCHANGED <<run, job>>

\* fetchActivePolicies: all policies, or those the job names or whose labels
\* it asks for; here their places in the list.
FetchActivePolicies(j) == {i \in DOMAIN Policies : Policies[i] \in j.names}

\* Policies whose resource discovery does not know are left out with a warning.
Run(j, unresolved) ==
  /\ ~Running /\ run < MaxRuns
  /\ faults + Cardinality(unresolved) <= MaxFaults
  /\ run' = run + 1
  /\ job' = j
  /\ rules' = [ver   |-> policy,
               order |-> [i \in {k \in FetchActivePolicies(j) :
                                  Policies[k] \notin unresolved} |-> Policies[i]]]
  /\ phase' = IF FetchActivePolicies(j) = {} THEN "succeeded" ELSE "audit"
  /\ cursor' = {} /\ batch' = NoBatch /\ attempt' = 0
  /\ begin' = audits \cup events
  /\ foreign' = {}
  /\ faults' = faults + Cardinality(unresolved)
  /\ UNCHANGED <<stored, now, policy, evaluated, live, stream, activities>>

\* The list of policies cannot be read.
RunFails(j) ==
  /\ ~Running /\ run < MaxRuns /\ faults < MaxFaults
  /\ run' = run + 1
  /\ job' = j
  /\ rules' = NoRules
  /\ phase' = "failed"
  /\ cursor' = {} /\ batch' = NoBatch /\ attempt' = 0
  /\ begin' = {} /\ foreign' = {}
  /\ faults' = faults + 1
  /\ UNCHANGED <<stored, now, policy, evaluated, live, stream, activities>>

QuerySpec(j) ==
  [start |-> j.start, end |-> j.end, filter |-> NoFilter, limit |-> j.size]

\* A page: none of it left ends this half of the run, the audit logs' or the
\* events'; otherwise made[i] is what row i turns into.
NextPhase == IF phase = "audit" THEN "event" ELSE "succeeded"

Fetched(reply, made) ==
  IF reply.rows = {}
  THEN phase' = NextPhase /\ cursor' = {} /\ batch' = NoBatch
  ELSE /\ batch' = [todo |-> IF job.dryRun THEN <<>> ELSE made,
                    size |-> Cardinality(reply.rows),
                    next |-> reply.token]
       /\ UNCHANGED <<phase, cursor>>

\* Rows in the order of the page, each with the activity of the policy
\* that matched, if any: sortKey, pols and key are functions on the rows.
Sorted(S, sortKey) ==
  {q \in [1 .. Cardinality(S) -> S] :
     \A i, j \in DOMAIN q :
       i < j => q[i] # q[j] /\ ~Precedes(sortKey[q[j]], sortKey[q[i]])}

Made(rows, sortKey, pols, key) ==
  LET act(r) == Activity(key[r], run, rules.ver, CHOOSE p \in pols[r] : TRUE)
  IN  {[i \in DOMAIN q |-> act(q[i])] :
         q \in Sorted({r \in rows : pols[r] # {}}, sortKey)}

EvaluateAuditBatch(rows) ==
  Made(rows, [r \in rows |-> AuditOrder(r, QuerySpec(job), Platform)],
       [r \in rows |-> EvaluateAudit(r, rules)],
       [r \in rows |-> BuildFromAudit(r)])

EvaluateEventBatch(rows) ==
  Made(rows, [r \in rows |-> EventQueryOrder(r)],
       [r \in rows |-> MatchEvent(r, rules)],
       [r \in rows |-> BuildFromEvent(r)])

FetchAuditLogBatch ==
  /\ phase = "audit" /\ batch = NoBatch
  /\ \E reply \in CreateAuditLogQuery(audits, QuerySpec(job), Platform, cursor, now) :
       IF reply.ok
       THEN /\ \E made \in EvaluateAuditBatch(reply.rows) : Fetched(reply, made)
            /\ UNCHANGED <<run, job, rules, attempt, begin, foreign>>
       ELSE Fail
  /\ UNCHANGED <<stored, now, policy, evaluated, live, stream, activities, faults>>

FetchEventBatch ==
  /\ phase = "event" /\ batch = NoBatch
  /\ \E reply \in CreateEventQuery(events, QuerySpec(job), Platform, cursor, now) :
       IF reply.ok
       THEN /\ \E made \in EvaluateEventBatch(reply.rows) : Fetched(reply, made)
            /\ UNCHANGED <<run, job, rules, attempt, begin, foreign>>
       ELSE Fail
  /\ UNCHANGED <<stored, now, policy, evaluated, live, stream, activities, faults>>

FetchFails ==
  /\ Running /\ batch = NoBatch
  /\ faults < MaxFaults
  /\ Fail
  /\ faults' = faults + 1
  /\ UNCHANGED <<stored, now, policy, evaluated, live, stream, activities>>

PublishWithRetry ==
  /\ batch.todo # <<>>
  /\ stream' = stream \cup {Head(batch.todo)}
  /\ batch' = [batch EXCEPT !.todo = Tail(@)]
  /\ attempt' = 0
  /\ UNCHANGED <<stored, now, policy, evaluated, live, activities, run, phase,
                 job, rules, cursor, begin, foreign, faults>>

GiveUp_Continues ==
  /\ batch' = [batch EXCEPT !.todo = Tail(@)]
  /\ attempt' = 0
  /\ UNCHANGED <<run, phase, job, rules, cursor, begin, foreign>>

\* The last attempt has failed: the error ends the run.
GiveUp == Fail

\* Publish returns an error, whether or not the stream has the message.  All
\* attempts of one activity count as one fault.
PublishFails(reached) ==
  /\ batch.todo # <<>>
  /\ attempt > 0 \/ faults < MaxFaults
  /\ stream' = IF reached THEN stream \cup {Head(batch.todo)} ELSE stream
  /\ faults' = IF attempt = 0 THEN faults + 1 ELSE faults
  /\ IF attempt + 1 < MaxRetries
     THEN /\ attempt' = attempt + 1
          /\ UNCHANGED <<run, phase, job, rules, cursor, batch, begin, foreign>>
     ELSE GiveUp
  /\ UNCHANGED <<stored, now, policy, evaluated, live, activities>>

\* NewRateLimiter's burst, which Wait cannot exceed; a rate of 0 is no limiter.
Burst(j) == IF j.size > 2 * j.rate THEN j.size ELSE 2 * j.rate

\* The batch is out: wait for the rate limiter, then the next page.
EndBatch ==
  /\ Running /\ batch # NoBatch /\ batch.todo = <<>>
  /\ IF job.rate > 0 /\ batch.size > Burst(job)
     THEN Fail
     ELSE /\ phase' = IF batch.next = {} THEN NextPhase ELSE phase
          /\ cursor' = batch.next
          /\ batch' = NoBatch
          /\ UNCHANGED <<run, job, rules, attempt, begin, foreign>>
  /\ UNCHANGED <<stored, now, policy, evaluated, live, stream, activities, faults>>

\* The pod is killed, or its context cancelled.
WorkerDies ==
  /\ Running /\ faults < MaxFaults
  /\ Fail
  /\ faults' = faults + 1
  /\ UNCHANGED <<stored, now, policy, evaluated, live, stream, activities>>

Next ==
  \/ \E r \in AuditLogs : StoreAuditLog(r)
  \/ \E r \in Events : StoreEvent(r)
  \/ \E r \in AuditLogs : ProcessAuditLog(r)
  \/ \E r \in Events : ProcessEvent(r)
  \/ EditPolicies
  \/ Tick
  \/ \E a \in live \cup stream : Deliver(a)
  \/ \E a \in live \cup stream : Redeliver(a)
  \/ \E j \in Jobs, U \in SUBSET Range(Policies) : Run(j, U)
  \/ \E j \in Jobs : RunFails(j)
  \/ FetchAuditLogBatch
  \/ FetchEventBatch
  \/ FetchFails
  \/ PublishWithRetry
  \/ \E reached \in BOOLEAN : PublishFails(reached)
  \/ EndBatch
  \/ WorkerDies

Spec == Init /\ [][Next]_vars

----------------------------------------------------------------------------
Finished ==
  phase = "succeeded" /\ ~job.dryRun /\ \A a \in stream : a.by # run

\* Rows that the paging of the two queries can be trusted with (see module
\* Paging): a page of rows that do not decode ends the read, audit logs are
\* skipped where the order of the query and of its token differ, and an event
\* that comes in moves the offset of the others.
AuditsReadable ==
  /\ \A r \in audits : Decodes(r)
  /\ \A r, s \in audits : r.ts = s.ts /\ r.id < s.id => r.grp <= s.grp

EventsReadable == events \subseteq begin /\ \A r \in events : Decodes(r)

\* "When the job finishes, your activity feed reflects the full history for
\* the policies and time range you specified" (docs/guides/reindex-jobs.md):
\* once a run has succeeded and its stream has drained, every row of the
\* window that was stored when it began, and that its compiled policies turn
\* into an activity, is in the table as these policies have it, or as
\* something else that was inserted since the run began has it: an activity
\* of the processor's or of an earlier run that was still on its way.  It
\* needs rows that can be paged through.
FeedReflectsHistory ==
  Finished =>
    /\ AuditsReadable =>
         \A r \in begin \cap AuditLogs :
           InWindow(r, QuerySpec(job), now) =>
             \A p \in EvaluateAudit(r, rules) :
               \E a \in activities :
                 /\ a.key = BuildFromAudit(r)
                 /\ \/ <<a.by, a.ver, a.pol>> = <<run, rules.ver, p>>
                    \/ a.key \in foreign
    /\ EventsReadable =>
         \A r \in begin \cap Events :
           InWindow(r, QuerySpec(job), now) =>
             \A p \in MatchEvent(r, rules) :
               \E a \in activities :
                 /\ a.key.origin = <<"event", r.id>>
                 /\ \/ <<a.by, a.ver, a.pol>> = <<run, rules.ver, p>>
                    \/ a.key \in foreign

\* "each source event produces at most one Activity" (migrations/007), for
\* audit logs: whatever the processor, repeated deliveries, publishes that
\* failed after they arrived, and runs that were cut short and repeated
\* insert, an audit log has one row in the merged table, because
\* BuildFromAudit gives all of them the same key.
OneActivityPerAuditLog ==
  \A a, b \in activities :
    a.key.origin = b.key.origin /\ a.key.origin[1] = "audit" => a = b
=============================================================================
