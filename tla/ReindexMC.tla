----------------------------- MODULE ReindexMC -----------------------------
(***************************************************************************)
(* Two audit logs of one second and two events.  A2 and E1 were stored     *)
(* before there was a policy; E2 arrives at time 2, outside the window of  *)
(* the jobs.  Version 2 of the policies matches where version 1 did not,   *)
(* and its p1 fails where it matched, so that p2 takes over.               *)
(***************************************************************************)
EXTENDS Reindex

Org == [type |-> "Organization", name |-> 1]

Row(id, ts, stage, grp) ==
  [id |-> id, ts |-> ts, stage |-> stage, ins |-> 0, user |-> 1, grp |-> grp,
   tenant |-> Org, about |-> 0, json |-> "good"]

A1 == Row(1, 0, 0, 1)
A2 == Row(2, 0, 0, 2)
E1 == Row(11, 0, 0, 1)
E2 == Row(12, 2, 2, 1)

MCAuditLogs == {A1, A2}
MCEvents == {E1, E2}
MCOld == {A2, E1}
MCPolicies == <<"p1", "p2">>

MCVerdict ==
  <<[p1 |-> (A1 :> "match"      @@ A2 :> "none"  @@ E1 :> "badsummary" @@ E2 :> "none"),
     p2 |-> (A1 :> "none"       @@ A2 :> "none"  @@ E1 :> "none"       @@ E2 :> "match")],
    [p1 |-> (A1 :> "badsummary" @@ A2 :> "match" @@ E1 :> "badmatch"   @@ E2 :> "none"),
     p2 |-> (A1 :> "match"      @@ A2 :> "none"  @@ E1 :> "match"      @@ E2 :> "none")]>>

Abs(t) == [rel |-> FALSE, at |-> t]

MCJobs ==
  {[start |-> Abs(0), end |-> Abs(1), size |-> 1, rate |-> 1, dryRun |-> FALSE,
    names |-> {"p1", "p2"}],
   [start |-> Abs(0), end |-> Abs(1), size |-> 2, rate |-> 1, dryRun |-> TRUE,
    names |-> {"p1"}]}
=============================================================================
