----------------------------- MODULE PageProofs ----------------------------
(***************************************************************************)
(* What the pages of QueryPage are, for every table, request and page      *)
(* size: the orders of the queries, the rows of a page, its token, and     *)
(* where the next page goes on.  The proofs about clients (PagingProofs)   *)
(* and about the re-index job (ReindexEngineProofs) rest on these lemmas.  *)
(***************************************************************************)
EXTENDS QueryPage, FiniteSetTheorems, WellFoundedInduction, TLAPS

-----------------------------------------------------------------------------
(* Numbers and finite sets.                                                *)

\* A set of natural numbers that is not empty has a least element.
LEMMA LeastNat ==
  ASSUME NEW T, T \subseteq Nat, T # {}
  PROVE  \E m \in T : \A x \in T : m <= x
<1> DEFINE R == OpToRel(<, Nat)
<1>1. R = {ss \in Nat \X Nat : ss[1] < ss[2]}
  BY Zenon DEF OpToRel
<1>2. IsWellFoundedOn(R, Nat)
  BY NatLessThanWellFounded, Zenon
<1> HIDE DEF R
<1>3. PICK m \in T : \A x \in T : ~(<<x, m>> \in R)
  BY <1>2, WFMin, Zenon
<1>4. \A a, b \in Nat : a < b => <<a, b>> \in R
  BY <1>1
<1>5. ASSUME NEW x \in T PROVE m <= x
  <2>1. ~(x < m) /\ x \in Nat /\ m \in Nat
    BY <1>3, <1>4
  <2> QED
    BY <2>1
<1> QED
  BY <1>5

\* A function to the naturals is least somewhere.
LEMMA LeastAt ==
  ASSUME NEW P, P # {}, NEW f, \A p \in P : f[p] \in Nat
  PROVE  \E m \in P : \A p \in P : f[m] <= f[p]
<1> DEFINE T == {f[p] : p \in P}
<1>1. T \subseteq Nat /\ T # {}
  OBVIOUS
<1> HIDE DEF T
<1>2. PICK v \in T : \A x \in T : v <= x
  BY <1>1, LeastNat
<1> QED
  BY <1>2 DEF T

\* Hours are in the order of the times that they hold.
LEMMA HourOrder ==
  ASSUME NEW a \in Nat, NEW b \in Nat, a <= b
  PROVE  Hour(a) \in Nat /\ Hour(b) \in Nat /\ Hour(a) <= Hour(b)
<1>1. HourLen \in Nat \ {0}
  BY QueryPageAssumption
<1> QED
  BY <1>1 DEF Hour

-----------------------------------------------------------------------------
(* The orders of the queries.                                              *)

\* AuditOrder has one or two columns between the time and the id.
LEMMA AuditOrderShape ==
  ASSUME NEW spec, NEW scope
  PROVE  \/ \A r : AuditOrder(r, spec, scope) = <<Hour(r.ts), r.ts, r.grp, r.id>>
         \/ \A r : AuditOrder(r, spec, scope) = <<Hour(r.ts), r.ts, r.user, r.id>>
         \/ \A r : AuditOrder(r, spec, scope) = <<Hour(r.ts), r.ts, r.user, r.grp, r.id>>
BY DEF AuditOrder, Platform

\* Precedes on the tuples that the queries order by.
LEMMA PrecedesOne ==
  ASSUME NEW a, NEW b
  PROVE  Precedes(<<a>>, <<b>>) <=> a > b
BY DEF Precedes

LEMMA PrecedesThree ==
  ASSUME NEW a1, NEW a2, NEW a3, NEW b1, NEW b2, NEW b3
  PROVE  Precedes(<<a1, a2, a3>>, <<b1, b2, b3>>)
           <=> \/ a1 > b1
               \/ a1 = b1 /\ a2 > b2
               \/ a1 = b1 /\ a2 = b2 /\ a3 > b3
BY DEF Precedes

LEMMA PrecedesFour ==
  ASSUME NEW a1, NEW a2, NEW a3, NEW a4, NEW b1, NEW b2, NEW b3, NEW b4
  PROVE  Precedes(<<a1, a2, a3, a4>>, <<b1, b2, b3, b4>>)
           <=> \/ a1 > b1
               \/ a1 = b1 /\ a2 > b2
               \/ a1 = b1 /\ a2 = b2 /\ a3 > b3
               \/ a1 = b1 /\ a2 = b2 /\ a3 = b3 /\ a4 > b4
BY DEF Precedes

LEMMA PrecedesFive ==
  ASSUME NEW a1, NEW a2, NEW a3, NEW a4, NEW a5,
         NEW b1, NEW b2, NEW b3, NEW b4, NEW b5
  PROVE  Precedes(<<a1, a2, a3, a4, a5>>, <<b1, b2, b3, b4, b5>>)
           <=> \/ a1 > b1
               \/ a1 = b1 /\ a2 > b2
               \/ a1 = b1 /\ a2 = b2 /\ a3 > b3
               \/ a1 = b1 /\ a2 = b2 /\ a3 = b3 /\ a4 > b4
               \/ a1 = b1 /\ a2 = b2 /\ a3 = b3 /\ a4 = b4 /\ a5 > b5
BY DEF Precedes
\* m is last in P by four columns.
LastBy(m, P, f, g, h, k) ==
  \A p \in P :
    /\ f[m] <= f[p]
    /\ f[m] = f[p] => g[m] <= g[p]
    /\ f[m] = f[p] /\ g[m] = g[p] => h[m] <= h[p]
    /\ f[m] = f[p] /\ g[m] = g[p] /\ h[m] = h[p] => k[m] <= k[p]

\* Some row of a set is last by four columns.
LEMMA LexLeast ==
  ASSUME NEW P, P # {}, NEW f, NEW g, NEW h, NEW k,
         \A p \in P : f[p] \in Nat /\ g[p] \in Nat /\ h[p] \in Nat /\ k[p] \in Nat
  PROVE  \E m \in P : LastBy(m, P, f, g, h, k)
<1>1. PICK a \in P : \A p \in P : f[a] <= f[p]
  BY LeastAt
<1> DEFINE A == {p \in P : f[p] = f[a]}
<1>2. PICK b \in A : \A p \in A : g[b] <= g[p]
  <2>1. A # {} /\ \A p \in A : g[p] \in Nat
    BY <1>1
  <2> HIDE DEF A
  <2> QED
    BY <2>1, LeastAt
<1> DEFINE B == {p \in A : g[p] = g[b]}
<1>3. PICK c \in B : \A p \in B : h[c] <= h[p]
  <2>1. B # {} /\ \A p \in B : h[p] \in Nat
    BY <1>2
  <2> HIDE DEF B
  <2> QED
    BY <2>1, LeastAt
<1> DEFINE C == {p \in B : h[p] = h[c]}
<1>4. PICK d \in C : \A p \in C : k[d] <= k[p]
  <2>1. C # {} /\ \A p \in C : k[p] \in Nat
    BY <1>3
  <2> HIDE DEF C
  <2> QED
    BY <2>1, LeastAt
<1>5. d \in P /\ f[d] = f[a] /\ g[d] = g[b] /\ h[d] = h[c]
  BY <1>4
<1>6. ASSUME NEW p \in P
      PROVE  /\ f[d] <= f[p]
             /\ f[d] = f[p] => g[d] <= g[p]
             /\ f[d] = f[p] /\ g[d] = g[p] => h[d] <= h[p]
             /\ f[d] = f[p] /\ g[d] = g[p] /\ h[d] = h[p] => k[d] <= k[p]
  <2>1. f[d] <= f[p]
    BY <1>1, <1>5
  <2>2. f[d] = f[p] => p \in A
    BY <1>5
  <2>3. f[d] = f[p] /\ g[d] = g[p] => p \in B
    BY <1>5
  <2>4. f[d] = f[p] /\ g[d] = g[p] /\ h[d] = h[p] => p \in C
    BY <1>5
  <2> HIDE DEF A, B, C
  <2> QED
    BY <1>2, <1>3, <1>4, <1>5, <2>1, <2>2, <2>3, <2>4
<1> QED
  BY <1>5, <1>6 DEF LastBy

\* Two rows with different ids are in one order or the other, and never
\* against the order of their times.
LEMMA AuditOrderTotal ==
  ASSUME NEW r \in Columns, NEW s \in Columns, NEW spec, NEW scope
  PROVE  LET a == AuditOrder(r, spec, scope)
             b == AuditOrder(s, spec, scope)
         IN  /\ r.id # s.id => Precedes(a, b) \/ Precedes(b, a)
             /\ Precedes(a, b) => r.ts >= s.ts
             /\ ~(Precedes(a, b) /\ Precedes(b, a))
<1>1. /\ r.ts \in Nat /\ r.user \in Nat /\ r.grp \in Nat /\ r.id \in Nat
      /\ s.ts \in Nat /\ s.user \in Nat /\ s.grp \in Nat /\ s.id \in Nat
  BY DEF Columns
<1>2. /\ Hour(r.ts) \in Nat /\ Hour(s.ts) \in Nat
      /\ r.ts <= s.ts => Hour(r.ts) <= Hour(s.ts)
      /\ s.ts <= r.ts => Hour(s.ts) <= Hour(r.ts)
  BY <1>1, HourOrder
<1> DEFINE hr == Hour(r.ts)
           hs == Hour(s.ts)
<1> HIDE DEF hr, hs
<1>3. CASE \A x : AuditOrder(x, spec, scope) = <<Hour(x.ts), x.ts, x.grp, x.id>>
  BY <1>1, <1>2, <1>3, PrecedesFour
<1>4. CASE \A x : AuditOrder(x, spec, scope) = <<Hour(x.ts), x.ts, x.user, x.id>>
  BY <1>1, <1>2, <1>4, PrecedesFour
<1>5. CASE \A x : AuditOrder(x, spec, scope) = <<Hour(x.ts), x.ts, x.user, x.grp, x.id>>
  BY <1>1, <1>2, <1>5, PrecedesFive, SMTT(40)
<1> QED
  BY <1>3, <1>4, <1>5, AuditOrderShape

\* A page of audit logs has a last row.
LEMMA AuditLast ==
  ASSUME NEW P, P # {}, P \subseteq Columns, NEW spec, NEW scope
  PROVE  \E m \in P : \A p \in P :
           ~Precedes(AuditOrder(m, spec, scope), AuditOrder(p, spec, scope))
<1> DEFINE ts == [p \in P |-> p.ts]
           grp == [p \in P |-> p.grp]
           user == [p \in P |-> p.user]
           id == [p \in P |-> p.id]
<1>1. \A p \in P : p.ts \in Nat /\ p.user \in Nat /\ p.grp \in Nat /\ p.id \in Nat
  BY DEF Columns
<1>2. \A p \in P : ts[p] = p.ts /\ grp[p] = p.grp /\ user[p] = p.user /\ id[p] = p.id
  OBVIOUS
<1> HIDE DEF ts, grp, user, id
<1>3. \A p \in P : ts[p] \in Nat /\ grp[p] \in Nat /\ user[p] \in Nat /\ id[p] \in Nat
  BY <1>1, <1>2
<1>4. \A p, q \in P : /\ Hour(p.ts) \in Nat
                      /\ p.ts <= q.ts => Hour(p.ts) <= Hour(q.ts)
  BY <1>1, HourOrder
<1>5. CASE \A x : AuditOrder(x, spec, scope) = <<Hour(x.ts), x.ts, x.grp, x.id>>
  <2>1. \A p \in P : ts[p] \in Nat /\ grp[p] \in Nat /\ id[p] \in Nat /\ id[p] \in Nat
    BY <1>3
  <2>2. PICK m \in P : LastBy(m, P, ts, grp, id, id)
    BY <2>1, LexLeast, Zenon
  <2>3. ASSUME NEW p \in P
        PROVE ~Precedes(<<Hour(m.ts), m.ts, m.grp, m.id>>, <<Hour(p.ts), p.ts, p.grp, p.id>>)
    <3>1. /\ m.ts \in Nat /\ m.user \in Nat /\ m.grp \in Nat /\ m.id \in Nat
          /\ p.ts \in Nat /\ p.user \in Nat /\ p.grp \in Nat /\ p.id \in Nat
          /\ Hour(m.ts) \in Nat /\ Hour(p.ts) \in Nat
          /\ m.ts <= p.ts => Hour(m.ts) <= Hour(p.ts)
      BY <1>1, <1>4
    <3>2. /\ m.ts <= p.ts
          /\ m.ts = p.ts => m.grp <= p.grp
          /\ m.ts = p.ts /\ m.grp = p.grp => m.id <= p.id
          /\ m.ts = p.ts /\ m.grp = p.grp /\ m.id = p.id => m.id <= p.id
      BY <1>2, <2>2 DEF LastBy
    <3> QED
      BY <3>1, <3>2, PrecedesFour
  <2> QED
    BY <1>5, <2>3
<1>6. CASE \A x : AuditOrder(x, spec, scope) = <<Hour(x.ts), x.ts, x.user, x.id>>
  <2>1. \A p \in P : ts[p] \in Nat /\ user[p] \in Nat /\ id[p] \in Nat /\ id[p] \in Nat
    BY <1>3
  <2>2. PICK m \in P : LastBy(m, P, ts, user, id, id)
    BY <2>1, LexLeast, Zenon
  <2>3. ASSUME NEW p \in P
        PROVE ~Precedes(<<Hour(m.ts), m.ts, m.user, m.id>>, <<Hour(p.ts), p.ts, p.user, p.id>>)
    <3>1. /\ m.ts \in Nat /\ m.user \in Nat /\ m.grp \in Nat /\ m.id \in Nat
          /\ p.ts \in Nat /\ p.user \in Nat /\ p.grp \in Nat /\ p.id \in Nat
          /\ Hour(m.ts) \in Nat /\ Hour(p.ts) \in Nat
          /\ m.ts <= p.ts => Hour(m.ts) <= Hour(p.ts)
      BY <1>1, <1>4
    <3>2. /\ m.ts <= p.ts
          /\ m.ts = p.ts => m.user <= p.user
          /\ m.ts = p.ts /\ m.user = p.user => m.id <= p.id
          /\ m.ts = p.ts /\ m.user = p.user /\ m.id = p.id => m.id <= p.id
      BY <1>2, <2>2 DEF LastBy
    <3> QED
      BY <3>1, <3>2, PrecedesFour
  <2> QED
    BY <1>6, <2>3
<1>7. CASE \A x : AuditOrder(x, spec, scope) = <<Hour(x.ts), x.ts, x.user, x.grp, x.id>>
  <2>1. \A p \in P : ts[p] \in Nat /\ user[p] \in Nat /\ grp[p] \in Nat /\ id[p] \in Nat
    BY <1>3
  <2>2. PICK m \in P : LastBy(m, P, ts, user, grp, id)
    BY <2>1, LexLeast, Zenon
  <2>3. ASSUME NEW p \in P
        PROVE ~Precedes(<<Hour(m.ts), m.ts, m.user, m.grp, m.id>>, <<Hour(p.ts), p.ts, p.user, p.grp, p.id>>)
    <3>1. /\ m.ts \in Nat /\ m.user \in Nat /\ m.grp \in Nat /\ m.id \in Nat
          /\ p.ts \in Nat /\ p.user \in Nat /\ p.grp \in Nat /\ p.id \in Nat
          /\ Hour(m.ts) \in Nat /\ Hour(p.ts) \in Nat
          /\ m.ts <= p.ts => Hour(m.ts) <= Hour(p.ts)
      BY <1>1, <1>4
    <3>2. /\ m.ts <= p.ts
          /\ m.ts = p.ts => m.user <= p.user
          /\ m.ts = p.ts /\ m.user = p.user => m.grp <= p.grp
          /\ m.ts = p.ts /\ m.user = p.user /\ m.grp = p.grp => m.id <= p.id
      BY <1>2, <2>2 DEF LastBy
    <3> QED
      BY <3>1, <3>2, PrecedesFive
  <2> QED
    BY <1>7, <2>3
<1> QED
  BY <1>5, <1>6, <1>7, AuditOrderShape
\* Activities come by time, then by id.
LEMMA ActivityOrderTotal ==
  ASSUME NEW r \in Columns, NEW s \in Columns
  PROVE  Precedes(ActivityOrder(r), ActivityOrder(s))
           <=> r.ts > s.ts \/ (r.ts = s.ts /\ r.id > s.id)
<1>1. r.ts \in Nat /\ r.id \in Nat /\ s.ts \in Nat /\ s.id \in Nat
  BY DEF Columns
<1>2. /\ Hour(r.ts) \in Nat /\ Hour(s.ts) \in Nat
      /\ r.ts <= s.ts => Hour(r.ts) <= Hour(s.ts)
      /\ s.ts <= r.ts => Hour(s.ts) <= Hour(r.ts)
  BY <1>1, HourOrder
<1> QED
  BY <1>1, <1>2, PrecedesThree DEF ActivityOrder

\* A page of activities has a last row.
LEMMA ActivityLast ==
  ASSUME NEW P, P # {}, P \subseteq Columns
  PROVE  \E m \in P : \A p \in P : ~Precedes(ActivityOrder(m), ActivityOrder(p))
<1> DEFINE ts == [p \in P |-> p.ts]
           id == [p \in P |-> p.id]
<1>1. \A p \in P : ts[p] = p.ts /\ id[p] = p.id /\ ts[p] \in Nat /\ id[p] \in Nat
  BY DEF Columns
<1> HIDE DEF ts, id
<1>2. \A p \in P : ts[p] \in Nat /\ id[p] \in Nat /\ id[p] \in Nat /\ id[p] \in Nat
  BY <1>1
<1>3. PICK m \in P : LastBy(m, P, ts, id, id, id)
  BY <1>2, LexLeast, Zenon
<1>4. ASSUME NEW p \in P PROVE ~Precedes(ActivityOrder(m), ActivityOrder(p))
  <2>1. m.ts <= p.ts /\ (m.ts = p.ts => m.id <= p.id)
    BY <1>1, <1>3 DEF LastBy
  <2>2. m.ts \in Nat /\ p.ts \in Nat /\ m.id \in Nat /\ p.id \in Nat
    BY DEF Columns
  <2>3. m \in Columns /\ p \in Columns
    OBVIOUS
  <2> QED
    BY <2>1, <2>2, <2>3, ActivityOrderTotal
<1> QED
  BY <1>4

\* Events come in one order or the other when their ids differ.
LEMMA EventOrderTotal ==
  ASSUME NEW r \in Columns, NEW s \in Columns, r.id # s.id
  PROVE  \/ Precedes(EventQueryOrder(r), EventQueryOrder(s))
         \/ Precedes(EventQueryOrder(s), EventQueryOrder(r))
<1>1. /\ r.ts \in Nat /\ r.grp \in Nat /\ r.id \in Nat
      /\ s.ts \in Nat /\ s.grp \in Nat /\ s.id \in Nat
  BY DEF Columns
<1>2. /\ Hour(r.ts) \in Nat /\ Hour(s.ts) \in Nat
      /\ r.ts <= s.ts => Hour(r.ts) <= Hour(s.ts)
      /\ s.ts <= r.ts => Hour(s.ts) <= Hour(r.ts)
  BY <1>1, HourOrder
<1> QED
  BY <1>1, <1>2, PrecedesFour DEF EventQueryOrder

\* A page of List on events has a last row.
LEMMA EventListLast ==
  ASSUME NEW P, P # {}, P \subseteq Columns
  PROVE  \E m \in P : \A p \in P : ~Precedes(EventListOrder(m), EventListOrder(p))
<1> DEFINE ins == [p \in P |-> p.ins]
<1>1. \A p \in P : ins[p] = p.ins /\ ins[p] \in Nat
  BY DEF Columns
<1> HIDE DEF ins
<1>2. PICK m \in P : \A p \in P : ins[m] <= ins[p]
  BY <1>1, LeastAt
<1>3. ASSUME NEW p \in P PROVE ~Precedes(EventListOrder(m), EventListOrder(p))
  <2>1. m.ins <= p.ins /\ m.ins \in Nat /\ p.ins \in Nat
    BY <1>1, <1>2
  <2> QED
    BY <2>1, PrecedesOne DEF EventListOrder
<1> QED
  BY <1>3

\* The condition on the hour adds nothing to the ones on time and id.
LEMMA AfterCursorMeans ==
  ASSUME NEW r \in Columns, NEW t \in Nat, NEW i \in Nat
  PROVE  AfterCursor(r, <<t, i>>) <=> r.ts < t \/ (r.ts = t /\ r.id < i)
<1>1. r.ts \in Nat /\ r.id \in Nat
  BY DEF Columns
<1>2. /\ Hour(r.ts) \in Nat /\ Hour(t) \in Nat
      /\ r.ts <= t => Hour(r.ts) <= Hour(t)
      /\ t <= r.ts => Hour(t) <= Hour(r.ts)
  BY <1>1, HourOrder
<1> QED
  BY <1>1, <1>2 DEF AfterCursor

-----------------------------------------------------------------------------
(* Pages.                                                                  *)

\* One row more than a page is fetched of S, the rows of kept decode, P is the
\* page: without a row too many it is all of kept, and all of S when all rows
\* decode; with one, every row decoded and the page is full.
LEMMA PageSplit ==
  ASSUME NEW S, IsFiniteSet(S), NEW n \in Nat \ {0},
         NEW f, f \subseteq S,
         Cardinality(f) = IF n + 1 < Cardinality(S) THEN n + 1 ELSE Cardinality(S),
         NEW kept, kept \subseteq f, NEW P, P \subseteq kept,
         Cardinality(P) = IF n < Cardinality(kept) THEN n ELSE Cardinality(kept)
  PROVE  /\ Cardinality(kept) <= n => P = kept /\ (kept = f => P = S)
         /\ Cardinality(kept) > n =>
              kept = f /\ P # {} /\ Cardinality(P) = n /\ n < Cardinality(S)
<1>1. /\ IsFiniteSet(f) /\ Cardinality(f) <= Cardinality(S)
      /\ Cardinality(S) = Cardinality(f) => S = f
  BY FS_Subset
<1>2. /\ IsFiniteSet(kept) /\ Cardinality(kept) <= Cardinality(f)
      /\ Cardinality(f) = Cardinality(kept) => f = kept
  BY <1>1, FS_Subset
<1>3. /\ IsFiniteSet(P) /\ Cardinality(P) <= Cardinality(kept)
      /\ Cardinality(kept) = Cardinality(P) => kept = P
  BY <1>2, FS_Subset
<1>4. /\ Cardinality(S) \in Nat /\ Cardinality(f) \in Nat
      /\ Cardinality(kept) \in Nat /\ Cardinality(P) \in Nat
  BY <1>1, <1>2, <1>3, FS_CardinalityType
<1>5. Cardinality(P) > 0 => P # {}
  BY FS_EmptySet
<1> QED
  BY <1>1, <1>2, <1>3, <1>4, <1>5
\* The limits that the queries work with are at least one.
LEMMA LimitsPositive ==
  ASSUME NEW n \in Nat
  PROVE  /\ PageLimit(n) \in Nat \ {0}
         /\ ResolveEventQueryLimit(n) \in Nat \ {0}
         /\ (IF n > 0 THEN n ELSE DefaultLimit) \in Nat \ {0}
BY QueryPageAssumption DEF PageLimit, ResolveEventQueryLimit

\* A table of distinct rows.
Distinct(T) == /\ IsFiniteSet(T) /\ T \subseteq Columns
               /\ \A r, s \in T : r.id = s.id => r = s

\* A page of audit logs is its rows, and either all of them that decode or the
\* first ones, with a token made of the last of these.
LEMMA AuditPage ==
  ASSUME NEW T, Distinct(T), NEW spec, spec.limit \in Nat, NEW scope, NEW cur, NEW t,
         NEW reply \in CreateAuditLogQuery(T, spec, scope, cur, t)
  PROVE  LET S == AuditRows(T, spec, scope, cur, t)
             Key(r) == AuditOrder(r, spec, scope)
         IN  \/ reply = Refused
             \/ /\ DecodeCursor(cur, spec, t) /\ reply.ok = TRUE /\ reply.rows \subseteq S
                /\ \/ reply.token = {} /\ ((\A r \in S : Decodes(r)) => reply.rows = S)
                   \/ \E last \in reply.rows :
                        /\ reply.token = EncodeCursor(last, spec, t)
                        /\ \A p \in reply.rows : p # last => Precedes(Key(p), Key(last))
                        /\ \A q \in S \ reply.rows : Precedes(Key(last), Key(q))
<1> DEFINE S == AuditRows(T, spec, scope, cur, t)
           n == PageLimit(spec.limit)
           Key(r) == AuditOrder(r, spec, scope)
           some(X, k) == Taken(X, k, Key)
           last(P) == LastOf(P, Key)
           kept(f) == {r \in f : Decodes(r)}
           page(f, P) == [ok |-> TRUE, rows |-> P,
                          token |-> IF Cardinality(kept(f)) > n
                                    THEN EncodeCursor(last(P), spec, t) ELSE {}]
<1>1. CASE reply = Refused
  BY <1>1
<1>2. CASE DecodeCursor(cur, spec, t) /\ reply \in QueryAuditLogs(T, spec, scope, cur, t)
  <2>1. QueryAuditLogs(T, spec, scope, cur, t) =
          UNION {{page(f, P) : P \in some(kept(f), n)} : f \in some(S, n + 1)}
    BY Zenon DEF QueryAuditLogs, FetchPage, Taken, LastOf
  <2>2. \A X, k : \A P \in some(X, k) :
          /\ P \subseteq X
          /\ Cardinality(P) = IF k < Cardinality(X) THEN k ELSE Cardinality(X)
          /\ \A p \in P, q \in X \ P : ~Precedes(Key(q), Key(p))
    BY Zenon DEF Taken
  <2>3. \A P : P # {} /\ P \subseteq Columns =>
          last(P) \in P /\ \A p \in P : ~Precedes(Key(last(P)), Key(p))
    BY AuditLast, Zenon DEF LastOf
  <2>4. \A r, s \in T : r # s => Precedes(Key(r), Key(s)) \/ Precedes(Key(s), Key(r))
    BY AuditOrderTotal DEF Distinct
  <2>5. \A f, P : /\ page(f, P).ok = TRUE /\ page(f, P).rows = P
                  /\ page(f, P).token = IF Cardinality(kept(f)) > n
                                        THEN EncodeCursor(last(P), spec, t) ELSE {}
    OBVIOUS
  <2>6. S \subseteq T /\ IsFiniteSet(S) /\ S \subseteq Columns
    BY FS_Subset DEF Distinct, AuditRows
  <2>7. n \in Nat \ {0}
    BY LimitsPositive
  <2>8. \A f : kept(f) \subseteq f /\ ((\A r \in f : Decodes(r)) => kept(f) = f)
    OBVIOUS
  <2> HIDE DEF S, n, Key, some, last, kept, page
  <2>9. PICK f \in some(S, n + 1) : \E P \in some(kept(f), n) : reply = page(f, P)
    BY <1>2, <2>1, Zenon
  <2>10. PICK P \in some(kept(f), n) : reply = page(f, P)
    BY <2>9
  <2>11. f \subseteq S /\ kept(f) \subseteq f /\ P \subseteq kept(f)
    BY <2>2, <2>8
  <2>12. /\ Cardinality(f) = IF n + 1 < Cardinality(S) THEN n + 1 ELSE Cardinality(S)
         /\ Cardinality(P) = IF n < Cardinality(kept(f)) THEN n ELSE Cardinality(kept(f))
    BY <2>2, Zenon
  <2>13. /\ Cardinality(kept(f)) <= n => P = kept(f) /\ (kept(f) = f => P = S)
         /\ Cardinality(kept(f)) > n => kept(f) = f /\ P # {}
    BY <2>6, <2>7, <2>11, <2>12, PageSplit
  <2>14. IsFiniteSet(kept(f)) /\ Cardinality(kept(f)) \in Nat
    BY <2>6, <2>11, FS_Subset, FS_CardinalityType
  <2>15. CASE Cardinality(kept(f)) <= n
    <3>1. reply.token = {} /\ reply.rows = kept(f)
      BY <2>5, <2>7, <2>10, <2>13, <2>14, <2>15
    <3>2. (\A r \in S : Decodes(r)) => kept(f) = f
      BY <2>8, <2>11
    <3> QED
      BY <1>2, <2>5, <2>10, <2>11, <2>13, <2>15, <3>1, <3>2 DEF S, Key
  <2>16. CASE Cardinality(kept(f)) > n
    <3>1. kept(f) = f /\ P # {} /\ P \subseteq Columns
      BY <2>6, <2>11, <2>13, <2>16
    <3>2. reply.rows = P /\ reply.token = EncodeCursor(last(P), spec, t)
      BY <2>5, <2>10, <2>16
    <3>3. last(P) \in P /\ \A p \in P : ~Precedes(Key(last(P)), Key(p))
      BY <2>3, <3>1
    <3>4. \A p \in P : p # last(P) => Precedes(Key(p), Key(last(P)))
      BY <2>4, <2>6, <2>11, <3>3
    <3>5. \A q \in S \ P : ~Precedes(Key(q), Key(last(P)))
      BY <2>2, <3>1, <3>3
    <3>6. \A q \in S \ P : Precedes(Key(last(P)), Key(q))
      BY <2>4, <2>6, <2>11, <3>3, <3>5
    <3> QED
      BY <1>2, <2>5, <2>10, <2>11, <3>2, <3>3, <3>4, <3>6 DEF S, Key
  <2>17. Cardinality(kept(f)) <= n \/ Cardinality(kept(f)) > n
    BY <2>7, <2>14
  <2> QED
    BY <2>15, <2>16, <2>17, Zenon
<1> QED
  BY <1>1, <1>2 DEF CreateAuditLogQuery
\* A page of activities has no other fields.
LEMMA ActivityPageShape ==
  ASSUME NEW T, NEW spec, NEW scope, NEW cur, NEW t,
         NEW reply \in QueryActivities(T, spec, scope, cur, t)
  PROVE  reply = [ok |-> TRUE, rows |-> reply.rows, token |-> reply.token]
<1> DEFINE S == ActivityRows(T, spec, scope, cur, t)
           n == PageLimit(spec.limit)
           some(X, k) == Taken(X, k, ActivityOrder)
           kept(f) == {r \in f : TRUE}
           tok(f, P) == IF Cardinality(kept(f)) > n
                          THEN EncodeActivityCursor(LastOf(P, ActivityOrder), spec, t) ELSE {}
<1>1. QueryActivities(T, spec, scope, cur, t) =
        UNION {{[ok |-> TRUE, rows |-> P, token |-> tok(f, P)] : P \in some(kept(f), n)} :
                 f \in some(S, n + 1)}
  BY Zenon DEF QueryActivities, FetchPage, Taken, LastOf
<1> HIDE DEF S, n, some, kept, tok
<1>2. PICK f, P : reply = [ok |-> TRUE, rows |-> P, token |-> tok(f, P)]
  BY <1>1, Zenon
<1> QED
  BY <1>2

\* A page of activities is all of its rows or the first ones, by time and id,
\* with a token made of the last of these.
LEMMA ActivityPage ==
  ASSUME NEW T, Distinct(T), NEW spec, spec.limit \in Nat, NEW scope, NEW cur, NEW t,
         NEW reply \in QueryActivities(T, spec, scope, cur, t)
  PROVE  LET S == ActivityRows(T, spec, scope, cur, t)
         IN  /\ reply.ok = TRUE /\ reply.rows \subseteq S
             /\ \/ reply.token = {} /\ reply.rows = S
                \/ \E last \in reply.rows :
                     /\ reply.token = EncodeActivityCursor(last, spec, t)
                     /\ \A p \in reply.rows : p # last =>
                          p.ts > last.ts \/ (p.ts = last.ts /\ p.id > last.id)
                     /\ \A q \in S \ reply.rows :
                          last.ts > q.ts \/ (last.ts = q.ts /\ last.id > q.id)
<1> DEFINE S == ActivityRows(T, spec, scope, cur, t)
           n == PageLimit(spec.limit)
           some(X, k) == Taken(X, k, ActivityOrder)
           last(P) == LastOf(P, ActivityOrder)
           kept(f) == {r \in f : TRUE}
           page(f, P) == [ok |-> TRUE, rows |-> P,
                          token |-> IF Cardinality(kept(f)) > n
                                    THEN EncodeActivityCursor(last(P), spec, t) ELSE {}]
<1>1. QueryActivities(T, spec, scope, cur, t) =
        UNION {{page(f, P) : P \in some(kept(f), n)} : f \in some(S, n + 1)}
  BY Zenon DEF QueryActivities, FetchPage, Taken, LastOf
<1>2. \A X, k : \A P \in some(X, k) :
        /\ P \subseteq X
        /\ Cardinality(P) = IF k < Cardinality(X) THEN k ELSE Cardinality(X)
        /\ \A p \in P, q \in X \ P : ~Precedes(ActivityOrder(q), ActivityOrder(p))
  BY Zenon DEF Taken
<1>3. \A P : P # {} /\ P \subseteq Columns =>
        last(P) \in P /\ \A p \in P : ~Precedes(ActivityOrder(last(P)), ActivityOrder(p))
  BY ActivityLast, Zenon DEF LastOf
<1>4. \A r, s \in T : /\ Precedes(ActivityOrder(r), ActivityOrder(s)) <=>
                           r.ts > s.ts \/ (r.ts = s.ts /\ r.id > s.id)
                      /\ r # s => r.id # s.id
                      /\ r.ts \in Nat /\ r.id \in Nat
  BY ActivityOrderTotal DEF Distinct, Columns
<1>5. \A f, P : /\ page(f, P).ok = TRUE /\ page(f, P).rows = P
                /\ page(f, P).token = IF Cardinality(kept(f)) > n
                                      THEN EncodeActivityCursor(last(P), spec, t) ELSE {}
  OBVIOUS
<1>6. S \subseteq T /\ IsFiniteSet(S) /\ S \subseteq Columns
  BY FS_Subset DEF Distinct, ActivityRows
<1>7. n \in Nat \ {0}
  BY LimitsPositive
<1>8. \A f : kept(f) = f
  OBVIOUS
<1> HIDE DEF S, n, some, last, kept, page
<1>9. PICK f \in some(S, n + 1) : \E P \in some(kept(f), n) : reply = page(f, P)
  BY <1>1, Zenon
<1>10. PICK P \in some(f, n) : reply = page(f, P)
  BY <1>8, <1>9
<1>11. f \subseteq S /\ P \subseteq f
  BY <1>2
<1>12. /\ Cardinality(f) = IF n + 1 < Cardinality(S) THEN n + 1 ELSE Cardinality(S)
       /\ Cardinality(P) = IF n < Cardinality(f) THEN n ELSE Cardinality(f)
  BY <1>2, Zenon
<1>13. /\ Cardinality(f) <= n => P = S
       /\ Cardinality(f) > n => P # {}
  BY <1>6, <1>7, <1>11, <1>12, PageSplit
<1>14. IsFiniteSet(f) /\ Cardinality(f) \in Nat
  BY <1>6, <1>11, FS_Subset, FS_CardinalityType
<1>15. CASE Cardinality(f) <= n
  <2>1. reply.token = {} /\ reply.rows = S
    BY <1>5, <1>7, <1>8, <1>10, <1>13, <1>14, <1>15
  <2> QED
    BY <1>5, <1>10, <2>1 DEF S
<1>16. CASE Cardinality(f) > n
  <2>1. P # {} /\ P \subseteq Columns /\ P \subseteq T /\ S \subseteq T
    BY <1>6, <1>11, <1>13, <1>16
  <2>2. reply.rows = P /\ reply.token = EncodeActivityCursor(last(P), spec, t)
    BY <1>5, <1>8, <1>10, <1>16
  <2>3. last(P) \in P /\ \A p \in P : ~Precedes(ActivityOrder(last(P)), ActivityOrder(p))
    BY <1>3, <2>1
  <2>4. \A p \in P : p # last(P) =>
          p.ts > last(P).ts \/ (p.ts = last(P).ts /\ p.id > last(P).id)
    BY <1>4, <2>1, <2>3
  <2>5. \A q \in S \ P : ~Precedes(ActivityOrder(q), ActivityOrder(last(P)))
    <3>1. \A q \in S \ f : ~Precedes(ActivityOrder(q), ActivityOrder(last(P)))
      BY <1>2, <1>9, <1>11, <2>3
    <3>2. \A q \in f \ P : ~Precedes(ActivityOrder(q), ActivityOrder(last(P)))
      BY <1>2, <1>10, <2>3
    <3> QED
      BY <3>1, <3>2
  <2>6. \A q \in S \ P : last(P).ts > q.ts \/ (last(P).ts = q.ts /\ last(P).id > q.id)
    BY <1>4, <2>1, <2>3, <2>5
  <2> QED
    BY <1>5, <1>10, <1>11, <2>2, <2>3, <2>4, <2>6 DEF S
<1>17. Cardinality(f) <= n \/ Cardinality(f) > n
  BY <1>7, <1>14
<1> QED
  BY <1>15, <1>16, <1>17, Zenon

\* A page of List on events is its rows, and either all of them that decode or
\* the first ones by insertion time, with the time of the last of these.
LEMMA EventListPage ==
  ASSUME NEW T, Distinct(T), NEW spec, spec.limit \in Nat, NEW scope, NEW cur, NEW t,
         NEW reply \in ListEvents(T, spec, scope, cur, t)
  PROVE  LET window == [spec EXCEPT !.start = [rel |-> TRUE, at |-> ListWindow],
                                    !.end = NoTime]
             S == {r \in EventRows(T, window, scope, t) : \A c \in cur : r.ins < c.pos[1]}
         IN  /\ reply.ok = TRUE /\ reply.rows \subseteq S
             /\ \/ reply.token = {} /\ ((\A r \in S : Decodes(r)) => reply.rows = S)
                \/ \E last \in reply.rows :
                     /\ reply.token = {[pos |-> <<last.ins>>, hash |-> <<>>, issued |-> t]}
                     /\ \A p \in reply.rows : p.ins >= last.ins
                     /\ \A q \in S \ reply.rows : q.ins <= last.ins
<1> DEFINE window == [spec EXCEPT !.start = [rel |-> TRUE, at |-> ListWindow],
                                  !.end = NoTime]
           S == {r \in EventRows(T, window, scope, t) : \A c \in cur : r.ins < c.pos[1]}
           n == IF spec.limit > 0 THEN spec.limit ELSE DefaultLimit
           some(X, k) == Taken(X, k, EventListOrder)
           last(P) == LastOf(P, EventListOrder)
           kept(f) == {r \in f : Decodes(r)}
           page(f, P) == [ok |-> TRUE, rows |-> P,
                          token |-> IF Cardinality(kept(f)) > n
                                    THEN {[pos |-> <<last(P).ins>>, hash |-> <<>>, issued |-> t]}
                                    ELSE {}]
<1>1. ListEvents(T, spec, scope, cur, t) =
        UNION {{page(f, P) : P \in some(kept(f), n)} : f \in some(S, n + 1)}
  BY Zenon DEF ListEvents, FetchPage, Taken, LastOf
<1>2. \A X, k : \A P \in some(X, k) :
        /\ P \subseteq X
        /\ Cardinality(P) = IF k < Cardinality(X) THEN k ELSE Cardinality(X)
        /\ \A p \in P, q \in X \ P : ~Precedes(EventListOrder(q), EventListOrder(p))
  BY Zenon DEF Taken
<1>3. \A P : P # {} /\ P \subseteq Columns =>
        last(P) \in P /\ \A p \in P : ~Precedes(EventListOrder(last(P)), EventListOrder(p))
  BY EventListLast, Zenon DEF LastOf
<1>4. \A r, s \in T : /\ Precedes(EventListOrder(r), EventListOrder(s)) <=> r.ins > s.ins
                      /\ r.ins \in Nat
  BY PrecedesOne DEF EventListOrder, Distinct, Columns
<1>5. \A f, P : /\ page(f, P).ok = TRUE /\ page(f, P).rows = P
                /\ page(f, P).token =
                     IF Cardinality(kept(f)) > n
                     THEN {[pos |-> <<last(P).ins>>, hash |-> <<>>, issued |-> t]} ELSE {}
  OBVIOUS
<1>6. S \subseteq T /\ IsFiniteSet(S) /\ S \subseteq Columns
  BY FS_Subset DEF Distinct, EventRows
<1>7. n \in Nat \ {0}
  BY LimitsPositive
<1>8. \A f : kept(f) \subseteq f /\ ((\A r \in f : Decodes(r)) => kept(f) = f)
  OBVIOUS
<1> HIDE DEF window, S, n, some, last, kept, page
<1>9. PICK f \in some(S, n + 1) : \E P \in some(kept(f), n) : reply = page(f, P)
  BY <1>1, Zenon
<1>10. PICK P \in some(kept(f), n) : reply = page(f, P)
  BY <1>9
<1>11. f \subseteq S /\ kept(f) \subseteq f /\ P \subseteq kept(f)
  BY <1>2, <1>8
<1>12. /\ Cardinality(f) = IF n + 1 < Cardinality(S) THEN n + 1 ELSE Cardinality(S)
       /\ Cardinality(P) = IF n < Cardinality(kept(f)) THEN n ELSE Cardinality(kept(f))
  BY <1>2, Zenon
<1>13. /\ Cardinality(kept(f)) <= n => P = kept(f) /\ (kept(f) = f => P = S)
       /\ Cardinality(kept(f)) > n => kept(f) = f /\ P # {}
  BY <1>6, <1>7, <1>11, <1>12, PageSplit
<1>14. IsFiniteSet(kept(f)) /\ Cardinality(kept(f)) \in Nat
  BY <1>6, <1>11, FS_Subset, FS_CardinalityType
<1>15. CASE Cardinality(kept(f)) <= n
  <2>0. ~(Cardinality(kept(f)) > n) /\ P = kept(f)
    BY <1>7, <1>13, <1>14, <1>15
  <2>1. reply.token = {} /\ reply.rows = kept(f)
    BY <1>5, <1>10, <2>0, Zenon
  <2>2. (\A r \in S : Decodes(r)) => kept(f) = f
    BY <1>8, <1>11
  <2> QED
    BY <1>5, <1>10, <1>11, <1>13, <1>15, <2>1, <2>2 DEF S, window
<1>16. CASE Cardinality(kept(f)) > n
  <2>1. kept(f) = f /\ P # {} /\ P \subseteq Columns /\ P \subseteq T /\ S \subseteq T
    BY <1>6, <1>11, <1>13, <1>16
  <2>2. reply.rows = P /\ reply.token = {[pos |-> <<last(P).ins>>, hash |-> <<>>, issued |-> t]}
    BY <1>5, <1>10, <1>16
  <2>3. last(P) \in P /\ \A p \in P : ~Precedes(EventListOrder(last(P)), EventListOrder(p))
    BY <1>3, <2>1
  <2>4. \A p \in P : p.ins >= last(P).ins
    BY <1>4, <2>1, <2>3
  <2>5. \A q \in S \ P : ~Precedes(EventListOrder(q), EventListOrder(last(P)))
    BY <1>2, <2>1, <2>3
  <2>6. \A q \in S \ P : q.ins <= last(P).ins
    BY <1>4, <2>1, <2>3, <2>5
  <2> QED
    BY <1>5, <1>10, <1>11, <2>2, <2>3, <2>4, <2>6 DEF S, window
<1>17. Cardinality(kept(f)) <= n \/ Cardinality(kept(f)) > n
  BY <1>7, <1>14
<1> QED
  BY <1>15, <1>16, <1>17, Zenon

\* The rows that the offset of an EventQuery skips.
Skipped(T, spec, scope, cur, t) ==
  CHOOSE P \in Taken(EventRows(T, spec, scope, t), OffsetOf(cur), EventQueryOrder) : TRUE

\* A page of an EventQuery leaves out what its offset says, and is either all
\* other rows that decode or as many of the first of them as were asked for.
LEMMA EventPage ==
  ASSUME NEW T, Distinct(T), NEW spec, spec.limit \in Nat, NEW scope, NEW cur, NEW t,
         NEW reply \in CreateEventQuery(T, spec, scope, cur, t)
  PROVE  LET S == EventRows(T, spec, scope, t)
             skipped == Skipped(T, spec, scope, cur, t)
             Key(r) == EventQueryOrder(r)
         IN  \/ reply = Refused
             \/ /\ DecodeEventQueryCursor(cur, spec, t) /\ reply.ok = TRUE
                /\ reply.rows \subseteq S \ skipped
                /\ \/ /\ reply.token = {}
                      /\ (\A r \in S : Decodes(r)) => reply.rows = S \ skipped
                   \/ /\ reply.token = EncodeEventQueryCursor(cur, spec, t)
                      /\ Cardinality(reply.rows) = ResolveEventQueryLimit(spec.limit)
                      /\ \A p \in reply.rows, q \in (S \ skipped) \ reply.rows :
                           ~Precedes(Key(q), Key(p))
<1> DEFINE S == EventRows(T, spec, scope, t)
           n == ResolveEventQueryLimit(spec.limit)
           Key(r) == EventQueryOrder(r)
           some(X, k) == Taken(X, k, EventQueryOrder)
           skipped == CHOOSE P \in some(S, OffsetOf(cur)) : TRUE
           rest == S \ skipped
           kept(f) == {r \in f : Decodes(r)}
           page(f, P) == [ok |-> TRUE, rows |-> P,
                          token |-> IF Cardinality(kept(f)) > n
                                    THEN EncodeEventQueryCursor(cur, spec, t) ELSE {}]
<1>1. CASE reply = Refused
  BY <1>1
<1>2. CASE /\ DecodeEventQueryCursor(cur, spec, t)
           /\ reply \in QueryEvents(T, spec, scope, cur, t)
  <2>1. QueryEvents(T, spec, scope, cur, t) =
          UNION {{page(f, P) : P \in some(kept(f), n)} : f \in some(rest, n + 1)}
    BY Zenon DEF QueryEvents, FetchPage, Taken, LastOf
  <2>2. \A X, k : \A P \in some(X, k) :
          /\ P \subseteq X
          /\ Cardinality(P) = IF k < Cardinality(X) THEN k ELSE Cardinality(X)
          /\ \A p \in P, q \in X \ P : ~Precedes(Key(q), Key(p))
    BY Zenon DEF Taken
  <2>3. rest = S \ Skipped(T, spec, scope, cur, t)
    BY DEF Skipped
  <2>5. \A f, P : /\ page(f, P).ok = TRUE /\ page(f, P).rows = P
                  /\ page(f, P).token = IF Cardinality(kept(f)) > n
                                        THEN EncodeEventQueryCursor(cur, spec, t) ELSE {}
    OBVIOUS
  <2>6. IsFiniteSet(rest) /\ rest \subseteq S
    BY FS_Subset DEF Distinct, EventRows
  <2>7. n \in Nat \ {0}
    BY LimitsPositive
  <2>8. \A f : kept(f) \subseteq f /\ ((\A r \in f : Decodes(r)) => kept(f) = f)
    OBVIOUS
  <2> HIDE DEF S, n, some, Key, kept, page, rest
  <2>9. PICK f \in some(rest, n + 1) : \E P \in some(kept(f), n) : reply = page(f, P)
    BY <1>2, <2>1, Zenon
  <2>10. PICK P \in some(kept(f), n) : reply = page(f, P)
    BY <2>9
  <2>11. f \subseteq rest /\ kept(f) \subseteq f /\ P \subseteq kept(f)
    BY <2>2, <2>8
  <2>12. /\ Cardinality(f) = IF n + 1 < Cardinality(rest) THEN n + 1 ELSE Cardinality(rest)
         /\ Cardinality(P) = IF n < Cardinality(kept(f)) THEN n ELSE Cardinality(kept(f))
    BY <2>2, Zenon
  <2>13. /\ Cardinality(kept(f)) <= n => P = kept(f) /\ (kept(f) = f => P = rest)
         /\ Cardinality(kept(f)) > n => kept(f) = f /\ Cardinality(P) = n
    BY <2>6, <2>7, <2>11, <2>12, PageSplit
  <2>14. IsFiniteSet(kept(f)) /\ Cardinality(kept(f)) \in Nat
    BY <2>6, <2>11, FS_Subset, FS_CardinalityType
  <2>15. reply.ok = TRUE /\ reply.rows = P /\ P \subseteq rest
    BY <2>5, <2>10, <2>11
  <2>16. CASE Cardinality(kept(f)) <= n
    <3>1. ~(Cardinality(kept(f)) > n)
      BY <2>7, <2>14, <2>16
    <3>2. reply.token = {}
      BY <2>5, <2>10, <3>1, Zenon
    <3>3. (\A r \in S : Decodes(r)) => reply.rows = rest
      BY <2>6, <2>8, <2>11, <2>13, <2>15, <2>16
    <3> QED
      BY <1>2, <2>3, <2>15, <3>2, <3>3, Zenon DEF S, Key
  <2>17. CASE Cardinality(kept(f)) > n
    <3>1. kept(f) = f /\ Cardinality(P) = n
      BY <2>13, <2>17
    <3>2. reply.token = EncodeEventQueryCursor(cur, spec, t)
      BY <2>5, <2>10, <2>17
    <3>3. \A p \in P, q \in rest \ P : ~Precedes(Key(q), Key(p))
      <4>1. \A p \in P, q \in rest \ f : ~Precedes(Key(q), Key(p))
        BY <2>2, <2>9, <2>11
      <4>2. \A p \in P, q \in f \ P : ~Precedes(Key(q), Key(p))
        BY <2>2, <2>10, <3>1
      <4> QED
        BY <4>1, <4>2
    <3> QED
      BY <1>2, <2>3, <2>15, <3>1, <3>2, <3>3, Zenon DEF S, Key, n
  <2>18. Cardinality(kept(f)) <= n \/ Cardinality(kept(f)) > n
    BY <2>7, <2>14
  <2> QED
    BY <2>16, <2>17, <2>18, Zenon
<1> QED
  BY <1>1, <1>2, Zenon DEF CreateEventQuery

\* P is a set of first rows of F in the order of an EventQuery.
Leading(P, F) ==
  P \subseteq F /\ \A p \in P, r \in F \ P : ~Precedes(EventQueryOrder(r), EventQueryOrder(p))

\* There is one such set of each size.
LEMMA LeadingUnique ==
  ASSUME NEW F, Distinct(F), NEW P, Leading(P, F), NEW Q, Leading(Q, F),
         Cardinality(P) = Cardinality(Q)
  PROVE  P = Q
<1>1. IsFiniteSet(P) /\ IsFiniteSet(Q)
  BY FS_Subset DEF Leading, Distinct
<1>2. P \subseteq Q => P = Q
  BY <1>1, FS_Subset
<1>3. Q \subseteq P => P = Q
  BY <1>1, FS_Subset
<1>4. ASSUME NEW p \in P \ Q, NEW r \in Q \ P PROVE FALSE
  <2>1. p \in F /\ r \in F /\ p \in Columns /\ r \in Columns /\ p.id # r.id
    BY DEF Leading, Distinct
  <2>2. /\ ~Precedes(EventQueryOrder(r), EventQueryOrder(p))
        /\ ~Precedes(EventQueryOrder(p), EventQueryOrder(r))
    BY <2>1 DEF Leading
  <2> QED
    BY <2>1, <2>2, EventOrderTotal
<1> QED
  BY <1>2, <1>3, <1>4

\* A reply goes on where the rows of done end, and so does its token.
GoesOn(reply, done, F) ==
  /\ reply.rows \subseteq F \ done
  /\ reply.token = {} /\ (\A r \in F : Decodes(r)) => reply.rows = F \ done
  /\ reply.token # {} =>
       /\ reply.rows # {} /\ Leading(done \cup reply.rows, F)
       /\ \A c \in reply.token : c.pos = <<Cardinality(done \cup reply.rows)>>

\* So does the page of an EventQuery whose offset counts the first rows.
LEMMA EventPageNext ==
  ASSUME NEW T, Distinct(T), NEW spec, spec.limit \in Nat, NEW scope, NEW cur, NEW t,
         NEW reply \in CreateEventQuery(T, spec, scope, cur, t), reply # Refused,
         NEW F, F = EventRows(T, spec, scope, t),
         NEW done \in SUBSET F, Leading(done, F), Cardinality(done) = OffsetOf(cur)
  PROVE  GoesOn(reply, done, F)
<1> DEFINE n == ResolveEventQueryLimit(spec.limit)
           skipped == Skipped(T, spec, scope, cur, t)
           c == [pos |-> <<OffsetOf(cur) + n>>, hash |-> HashEventQueryParams(spec), issued |-> t]
<1>1. /\ reply.rows \subseteq F \ skipped
      /\ \/ /\ reply.token = {}
            /\ (\A r \in F : Decodes(r)) => reply.rows = F \ skipped
         \/ /\ reply.token = EncodeEventQueryCursor(cur, spec, t)
            /\ Cardinality(reply.rows) = n
            /\ \A p \in reply.rows, r \in (F \ skipped) \ reply.rows :
                 ~Precedes(EventQueryOrder(r), EventQueryOrder(p))
  <2> DEFINE A == EventRows(T, spec, scope, t)
  <2>1. /\ reply.rows \subseteq A \ skipped
        /\ \/ /\ reply.token = {}
              /\ (\A r \in A : Decodes(r)) => reply.rows = A \ skipped
           \/ /\ reply.token = EncodeEventQueryCursor(cur, spec, t)
              /\ Cardinality(reply.rows) = n
              /\ \A p \in reply.rows, r \in (A \ skipped) \ reply.rows :
                   ~Precedes(EventQueryOrder(r), EventQueryOrder(p))
    BY EventPage
  <2>2. F = A
    OBVIOUS
  <2> HIDE DEF A, skipped, n
  <2> QED
    BY <2>1, <2>2
<1>2. EncodeEventQueryCursor(cur, spec, t) = {c} /\ c.pos = <<OffsetOf(cur) + n>>
  BY DEF EncodeEventQueryCursor
<1> HIDE DEF c
<1>3. n \in Nat \ {0}
  BY LimitsPositive
<1>4. Distinct(F)
  BY FS_Subset DEF EventRows, Distinct
<1>5. /\ IsFiniteSet(F) /\ IsFiniteSet(done) /\ Cardinality(done) <= Cardinality(F)
      /\ Cardinality(F) \in Nat /\ OffsetOf(cur) \in Nat
  BY <1>4, FS_Subset, FS_CardinalityType DEF Distinct
<1>6. skipped = done
  <2> DEFINE some == Taken(F, OffsetOf(cur), EventQueryOrder)
  <2>1. some = {P \in SUBSET F :
                  /\ Cardinality(P) = IF OffsetOf(cur) < Cardinality(F)
                                      THEN OffsetOf(cur) ELSE Cardinality(F)
                  /\ \A p \in P, r \in F \ P :
                       ~Precedes(EventQueryOrder(r), EventQueryOrder(p))}
    BY Zenon DEF Taken
  <2>2. OffsetOf(cur) = IF OffsetOf(cur) < Cardinality(F) THEN OffsetOf(cur) ELSE Cardinality(F)
    BY <1>5
  <2>3. \A P \in some : Leading(P, F) /\ Cardinality(P) = OffsetOf(cur)
    BY <2>1, <2>2 DEF Leading
  <2>4. done \in some
    BY <2>1, <2>2 DEF Leading
  <2>5. skipped = CHOOSE P \in some : TRUE
    BY DEF Skipped
  <2> HIDE DEF some, skipped
  <2>6. skipped \in some
    BY <2>4, <2>5
  <2> QED
    BY <1>4, <2>3, <2>6, LeadingUnique
<1> HIDE DEF n, skipped
<1>7. reply.rows \subseteq F \ done
  BY <1>1, <1>6
<1>8. CASE reply.token = {} /\ ((\A r \in F : Decodes(r)) => reply.rows = F \ skipped)
  BY <1>6, <1>7, <1>8 DEF GoesOn
<1>9. CASE /\ reply.token = {c} /\ Cardinality(reply.rows) = n
           /\ \A p \in reply.rows, r \in (F \ done) \ reply.rows :
                ~Precedes(EventQueryOrder(r), EventQueryOrder(p))
  <2>1. Leading(done \cup reply.rows, F)
    BY <1>7, <1>9 DEF Leading
  <2>2. IsFiniteSet(reply.rows) /\ done \cap reply.rows = {}
    BY <1>5, <1>7, FS_Subset
  <2>3. Cardinality(done \cup reply.rows) = OffsetOf(cur) + n
    <3>1. Cardinality(done \cup reply.rows) =
            Cardinality(done) + Cardinality(reply.rows) - Cardinality(done \cap reply.rows)
      BY <1>5, <2>2, FS_Union
    <3>2. Cardinality(done \cap reply.rows) = 0
      BY <2>2, FS_EmptySet
    <3> QED
      BY <1>3, <1>5, <1>9, <3>1, <3>2
  <2>4. reply.rows # {}
    BY <1>3, <1>9, FS_EmptySet
  <2> QED
    BY <1>2, <1>7, <1>9, <2>1, <2>3, <2>4 DEF GoesOn
<1> QED
  BY <1>1, <1>2, <1>6, <1>8, <1>9

\* Where every row decodes and no two rows of one time are out of order, the
\* rows that a page of audit logs leaves are after its token.
LEMMA AuditPageNext ==
  ASSUME NEW T, Distinct(T), \A r \in T : r.stage >= r.ts,
         NEW spec, spec.limit \in Nat, NEW scope, NEW cur, NEW t,
         NEW reply \in CreateAuditLogQuery(T, spec, scope, cur, t), reply # Refused,
         NEW S, S = AuditRows(T, spec, scope, cur, t), \A r \in S : Decodes(r),
         \A r, s \in S : r.ts = s.ts /\ r.id < s.id =>
           ~Precedes(AuditOrder(r, spec, scope), AuditOrder(s, spec, scope))
  PROVE  /\ reply.rows \subseteq S
         /\ \/ reply.token = {} /\ reply.rows = S
            \/ \E c : /\ reply.token = {c} /\ reply.rows # {}
                      /\ \A r \in S \ reply.rows : AfterCursor(r, c.pos)
<1> DEFINE Key(r) == AuditOrder(r, spec, scope)
<1>1. /\ reply.rows \subseteq S
      /\ \/ reply.token = {} /\ ((\A r \in S : Decodes(r)) => reply.rows = S)
         \/ \E last \in reply.rows :
              /\ reply.token = EncodeCursor(last, spec, t)
              /\ \A q \in S \ reply.rows : Precedes(Key(last), Key(q))
  BY AuditPage
<1>2. S \subseteq T /\ S \subseteq Columns
  BY DEF AuditRows, Distinct
<1>3. ASSUME NEW last \in reply.rows, reply.token = EncodeCursor(last, spec, t),
             \A q \in S \ reply.rows : Precedes(Key(last), Key(q))
      PROVE  \E c : /\ reply.token = {c} /\ reply.rows # {}
                    /\ \A r \in S \ reply.rows : AfterCursor(r, c.pos)
  <2> DEFINE c == [pos |-> <<last.stage, last.id>>, hash |-> HashQueryParams(spec), issued |-> t]
  <2>1. reply.token = {c} /\ c.pos = <<last.stage, last.id>>
    BY <1>3 DEF EncodeCursor
  <2> HIDE DEF c
  <2>2. /\ last \in S /\ last \in Columns /\ last.ts \in Nat /\ last.id \in Nat
        /\ last.stage \in Nat /\ last.stage >= last.ts
    BY <1>1, <1>2 DEF Columns
  <2>3. ASSUME NEW r \in S \ reply.rows PROVE AfterCursor(r, c.pos)
    <3>1. r \in Columns /\ r.ts \in Nat /\ r.id \in Nat /\ r # last
      BY <1>2 DEF Columns
    <3>2. Precedes(Key(last), Key(r))
      BY <1>3, <2>3
    <3>3. last.ts >= r.ts
      BY <2>2, <3>1, <3>2, AuditOrderTotal
    <3>4. last.id # r.id
      BY <1>2, <2>2, <3>1 DEF Distinct
    <3>5. ~(last.ts = r.ts /\ last.id < r.id)
      BY <2>2, <3>2
    <3>6. r.ts < last.stage \/ (r.ts = last.stage /\ r.id < last.id)
      BY <2>2, <3>1, <3>3, <3>4, <3>5
    <3> QED
      BY <2>1, <2>2, <3>1, <3>6, AfterCursorMeans
  <2> QED
    BY <2>1, <2>3
<1> QED
  BY <1>1, <1>3
=============================================================================
