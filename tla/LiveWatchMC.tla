---------------------------- MODULE LiveWatchMC ----------------------------
(***************************************************************************)
(* Instances of LiveWatch.                                                 *)
(***************************************************************************)
EXTENDS LiveWatch

Project  == <<"Project", "p1">>
Project2 == <<"Project", "p2">>

Activity(tenant, group, source) ==
  [resource |-> "activity", tenant |-> tenant, group |-> group, kind |-> "Pod",
   ns |-> "", actor |-> "alice", source |-> source, ok |-> TRUE]

Event(source, ok) ==
  [resource |-> "event", tenant |-> Project, group |-> <<>>, kind |-> "Pod",
   ns |-> "default", actor |-> "", source |-> source, ok |-> ok]

\* An activity of a plain group by the system, one of another tenant and a
\* dotted group; an event, and one that is no JSON.
MCItems ==
  {Activity(Project, <<"apps">>, "system"),
   Activity(Project2, <<"networking", "io">>, "human"),
   Event("Started", TRUE), Event("Killed", FALSE)}

Ask(resource, scope) ==
  [resource |-> resource, cli |-> FALSE, scope |-> scope, path |-> "",
   group |-> <<>>, kind |-> "", ns |-> "", actor |-> "", source |-> ""]

\* `activity feed --watch --change-source human`, a watch of one kind, and a
\* watch of events by reason.
MCRequests ==
  {[Ask("activity", Project) EXCEPT !.cli = TRUE, !.source = "human"],
   [Ask("activity", Project) EXCEPT !.kind = "Pod", !.group = <<"apps">>],
   [Ask("event", <<>>) EXCEPT !.source = "Started"]}
=============================================================================
