----------------------------- MODULE PagingMC ------------------------------
(***************************************************************************)
(* Rows and requests for module Paging.  Rows 2 and 3 have the same        *)
(* timestamp and insertion time, and ids that cross their groups; row 4 is *)
(* a slow request in the next hour; row 5, which sorts before row 1, does  *)
(* not decode, in one of two ways.                                         *)
(***************************************************************************)
EXTENDS Paging

Org == [type |-> "Organization", name |-> 1]

Row(id, ts, stage, ins, user, grp, tenant, about, json) ==
  [id |-> id, ts |-> ts, stage |-> stage, ins |-> ins, user |-> user,
   grp |-> grp, tenant |-> tenant, about |-> about, json |-> json]

MCRows ==
  {Row(1, 0, 0, 1, 1, 1, Org,      0, "good"),
   Row(3, 1, 1, 2, 1, 1, Org,      0, "good"),
   Row(2, 1, 1, 2, 2, 2, Org,      1, "good"),
   Row(4, 2, 4, 3, 1, 2, Platform, 0, "good"),
   Row(5, 0, 0, 0, 1, 2, Org,      0, "mistyped"),
   Row(5, 0, 0, 0, 1, 2, Org,      0, "garbled")}

Abs(t) == [rel |-> FALSE, at |-> t]
Ago(t) == [rel |-> TRUE,  at |-> t]

SpecOf(start, end, filter, limit) ==
  [start |-> start, end |-> end, filter |-> filter, limit |-> limit]

MCRequests ==
  {[client |-> "feed", scope |-> Platform,
    spec |-> SpecOf(Ago(3), Ago(0), NoFilter, 1)],
   [client |-> "feed", scope |-> [type |-> "User", name |-> 1],
    spec |-> SpecOf(Ago(3), Ago(0), NoFilter, 2)],
   [client |-> "query", scope |-> Platform,
    spec |-> SpecOf(Abs(0), Abs(3), NoFilter, 1)],
   [client |-> "audit", scope |-> Org,
    spec |-> SpecOf(Abs(0), Abs(3), NoFilter, 2)],
   [client |-> "history", scope |-> Platform,
    spec |-> SpecOf(Abs(0), Abs(3), 1, 1)],
   [client |-> "events", scope |-> Org,
    spec |-> SpecOf(Abs(0), Abs(3), NoFilter, 1)],
   [client |-> "listactivities", scope |-> Platform,
    spec |-> SpecOf(NoTime, NoTime, NoFilter, 2)],
   [client |-> "listevents", scope |-> Platform,
    spec |-> SpecOf(NoTime, NoTime, NoFilter, 1)],
   [client |-> "query", scope |-> Org,
    spec |-> SpecOf(Abs(0), Abs(3), 1, 1)],
   [client |-> "events", scope |-> Platform,
    spec |-> SpecOf(Abs(0), Abs(3), NoFilter, 1)]}
=============================================================================
