-------------------------- MODULE ProcessorProofs --------------------------
(***************************************************************************)
(* What Processor guarantees for any policies and workers and any number   *)
(* of writes and discovery faults: slices stay within their arrays, a      *)
(* worker whose slice is changed under its loop meets only cached policies, *)
(* and the cache agrees with the informer once the handlers have caught up. *)
(***************************************************************************)
EXTENDS Processor, FiniteSetTheorems, SequenceTheorems, WellFoundedInduction, TLAPS

Entry == Compiled \cup {Nil}
Slice == [arr : Nat, len : Nat]
Note  == [name : Policies, old : Version, new : Version]

\* The state of a worker in its loop.
Loop == [at : {"next"}, slice : Slice, i : Nat, read : Seq(Compiled), snap : Seq(Compiled),
         standing : SUBSET Compiled, cached : SUBSET Compiled, calm : BOOLEAN]

\* A slice lies within its array.
Within(h, s) ==
  /\ s.arr \in 0 .. Len(h)
  /\ s.arr = 0 => s.len = 0
  /\ s.arr # 0 => s.len <= Len(h[s.arr])

\* The cache's slice: within its array, without one when it is empty, and full
\* of compiled policies.
SliceOK(h, s) ==
  /\ Within(h, s)
  /\ s.len = 0 => s.arr = 0
  /\ \A i \in 1 .. s.len : h[s.arr][i] \in Compiled

\* The two indexes see the same calls and are therefore the same.
CacheOK ==
  /\ heap \in [Index -> Seq(Seq(Entry))] /\ slices \in [Index -> Slice]
  /\ \A ix \in Index : SliceOK(heap[ix], slices[ix])
  /\ heap["policies"] = heap["policiesByKind"]
  /\ slices["policies"] = slices["policiesByKind"]

\* onPolicyUpdate is between its two halves only for the note being handled.
NotesOK ==
  /\ api \in [Policies -> Version] /\ store \in [Policies -> Version]
  /\ notes \in Seq(Note) /\ writes \in Nat /\ unresolved \subseteq Policies
  /\ \/ pending = {}
     \/ /\ notes # <<>> /\ pending = {Head(notes)}
        /\ Head(notes).old.live /\ Head(notes).new.live

\* What lies in the array under a worker's loop was in the cache since its Get,
\* as everything in the cache now; without a removal it is what Get saw.
LoopOK(r, h, s) ==
  /\ Within(h, r.slice)
  /\ r.i = Len(r.read) + 1 /\ Len(r.read) <= r.slice.len /\ Len(r.snap) = r.slice.len
  /\ \A k \in 1 .. r.slice.len : h[r.slice.arr][k] \in r.cached
  /\ \A k \in 1 .. s.len : h[s.arr][k] \in r.cached
  /\ \A k \in 1 .. Len(r.read) : r.read[k] \in r.cached
  /\ r.calm =>
       /\ s.arr = r.slice.arr => r.slice.len <= s.len
       /\ \A k \in 1 .. r.slice.len : h[r.slice.arr][k] = r.snap[k]
       /\ \A k \in 1 .. Len(r.read) : r.read[k] = r.snap[k]

ReadersOK ==
  /\ reader \in [Workers -> {Idle} \cup Loop]
  /\ \A w \in Workers : reader[w].at # "idle" =>
       LoopOK(reader[w], heap[IndexOf(w)], slices[IndexOf(w)])

\* A slice holds a policy as the version v says: once in that version if it is
\* ready, and not at all otherwise.
HoldsIn(h, s, p, v) ==
  IF IsPolicyReady(v)
  THEN \E k \in 1 .. s.len :
         /\ h[s.arr][k] = [name |-> p, rv |-> v.rv]
         /\ \A j \in 1 .. s.len : h[s.arr][j].name = p => j = k
  ELSE \A k \in 1 .. s.len : h[s.arr][k].name # p

Holds(p, v) == HoldsIn(heap["policies"], slices["policies"], p, v)

\* Of a policy no discovery error has hit, the cache holds the version its first
\* unhandled note starts from, or none between the halves of onPolicyUpdate, or
\* the informer's when there is no note; and its notes form a chain that ends
\* at the informer's version.
FollowsInv ==
  /\ \A i, j \in 1 .. Len(notes) :
       (/\ i < j /\ notes[i].name = notes[j].name
        /\ \A k \in 1 .. Len(notes) : (i < k /\ k < j) => notes[k].name # notes[i].name)
       => notes[i].new = notes[j].old
  /\ \A i \in 1 .. Len(notes) :
       (\A k \in 1 .. Len(notes) : i < k => notes[k].name # notes[i].name)
       => notes[i].new = store[notes[i].name]
  /\ \A i \in 1 .. Len(notes) :
       (/\ notes[i].name \notin unresolved
        /\ \A k \in 1 .. Len(notes) : k < i => notes[k].name # notes[i].name)
       => Holds(notes[i].name, IF i = 1 /\ pending # {} THEN Absent ELSE notes[i].old)
  /\ \A p \in Policies \ unresolved :
       (\A k \in 1 .. Len(notes) : notes[k].name # p) => Holds(p, store[p])
-----------------------------------------------------------------------------
(* Go's slices.                                                            *)

\* An entry of an array of the heap, and the array itself.
LEMMA HeapFacts ==
  ASSUME NEW h \in Seq(Seq(Entry)), NEW a \in 1 .. Len(h)
  PROVE  /\ h[a] \in Seq(Entry) /\ Len(h[a]) \in Nat /\ Len(h) \in Nat
         /\ \A i \in 1 .. Len(h[a]) : h[a][i] \in Entry
BY ElementOfSeq, LenProperties

\* Writing one entry of one array leaves everything else as it was.
LEMMA WriteHeap ==
  ASSUME NEW h \in Seq(Seq(Entry)), NEW a \in 1 .. Len(h), NEW i \in 1 .. Len(h[a]),
         NEW c \in Entry, NEW g, g = [h EXCEPT ![a][i] = c]
  PROVE  /\ g \in Seq(Seq(Entry)) /\ Len(g) = Len(h)
         /\ \A b \in 1 .. Len(h) : Len(g[b]) = Len(h[b])
         /\ \A b \in 1 .. Len(h) : \A j \in 1 .. Len(h[b]) :
              g[b][j] = IF b = a /\ j = i THEN c ELSE h[b][j]
<1> DEFINE row == [h[a] EXCEPT ![i] = c]
<1>1. h[a] \in Seq(Entry) /\ Len(h[a]) \in Nat /\ Len(h) \in Nat
  BY HeapFacts
<1>2. row \in Seq(Entry) /\ Len(row) = Len(h[a])
  BY <1>1, ExceptSeq
<1>3. \A j \in 1 .. Len(h[a]) : row[j] = IF j = i THEN c ELSE h[a][j]
  BY <1>1
<1> HIDE DEF row
<1>4. g = [h EXCEPT ![a] = row]
  BY DEF row
<1>5. g \in Seq(Seq(Entry)) /\ Len(g) = Len(h)
  BY <1>2, <1>4, ExceptSeq
<1>6. \A b \in 1 .. Len(h) : g[b] = IF b = a THEN row ELSE h[b]
  BY <1>1, <1>4, SMTT(40)
<1> QED
  BY <1>2, <1>3, <1>5, <1>6

\* append keeps what the slice holds and adds one; it writes into no other
\* place that existed before.
LEMMA AppendFacts ==
  ASSUME NEW h \in Seq(Seq(Entry)), NEW s \in Slice, SliceOK(h, s), NEW c \in Compiled,
         NEW g, g = AppendHeap(h, s, c), NEW t, t = AppendSlice(h, s, c)
  PROVE  /\ g \in Seq(Seq(Entry)) /\ t \in Slice /\ SliceOK(g, t)
         /\ t.len = s.len + 1 /\ g[t.arr][t.len] = c
         /\ \A i \in 1 .. s.len : g[t.arr][i] = h[s.arr][i]
         /\ Len(h) \in Nat /\ Len(g) \in Nat /\ Len(h) <= Len(g)
         /\ \A b \in 1 .. Len(h) : Len(g[b]) = Len(h[b])
         /\ \A b \in 1 .. Len(h) : \A j \in 1 .. Len(h[b]) :
              g[b][j] = IF b = s.arr /\ b = t.arr /\ j = s.len + 1 THEN c ELSE h[b][j]
         /\ t.arr = s.arr \/ t.arr = Len(h) + 1
<1>1. s.arr \in Nat /\ s.len \in Nat /\ Len(h) \in Nat /\ c \in Entry
  BY LenProperties DEF Slice, Entry
<1>2. t = [arr |-> IF HasRoom(h, s) THEN s.arr ELSE Len(h) + 1, len |-> s.len + 1]
  BY DEF AppendSlice
<1>3. t \in Slice /\ t.len = s.len + 1
  BY <1>1, <1>2 DEF Slice
<1>4. CASE HasRoom(h, s)
  <2>1. t.arr = s.arr /\ g = [h EXCEPT ![s.arr][s.len + 1] = c]
    BY <1>2, <1>4 DEF AppendHeap
  <2>2. s.arr \in 1 .. Len(h) /\ s.len < Len(h[s.arr])
    BY <1>1, <1>4 DEF HasRoom, SliceOK, Within
  <2>3. Len(h[s.arr]) \in Nat /\ s.len + 1 \in 1 .. Len(h[s.arr])
    BY <1>1, <2>2, HeapFacts
  <2>4. /\ g \in Seq(Seq(Entry)) /\ Len(g) = Len(h)
        /\ \A b \in 1 .. Len(h) : Len(g[b]) = Len(h[b])
        /\ \A b \in 1 .. Len(h) : \A j \in 1 .. Len(h[b]) :
             g[b][j] = IF b = s.arr /\ j = s.len + 1 THEN c ELSE h[b][j]
    BY <1>1, <2>1, <2>2, <2>3, WriteHeap, SMTT(40)
  <2>5. /\ \A i \in 1 .. s.len : i \in 1 .. Len(h[s.arr]) /\ i # s.len + 1
        /\ \A i \in 1 .. t.len : i \in 1 .. s.len \/ i = s.len + 1
    BY <1>1, <1>3, <2>3, SMTT(40)
  <2>6. \A i \in 1 .. s.len : g[t.arr][i] = h[s.arr][i]
    BY <2>1, <2>2, <2>4, <2>5
  <2>7. g[t.arr][t.len] = c
    BY <1>3, <2>1, <2>2, <2>3, <2>4
  <2>8. SliceOK(g, t)
    <3>1. Within(g, t)
      BY <1>1, <1>3, <2>1, <2>2, <2>3, <2>4 DEF Within
    <3>2. \A i \in 1 .. t.len : g[t.arr][i] \in Compiled
      BY <1>3, <2>5, <2>6, <2>7 DEF SliceOK
    <3> QED
      BY <1>1, <1>3, <3>1, <3>2 DEF SliceOK
  <2> QED
    BY <1>1, <1>3, <2>1, <2>4, <2>6, <2>7, <2>8
<1>5. CASE ~HasRoom(h, s)
  <2> DEFINE new == Grown(h, s, c)
             cap == IF s.len = 0 THEN 1 ELSE 2 * s.len
  <2>1. t.arr = Len(h) + 1 /\ g = Append(h, new)
    BY <1>2, <1>5 DEF AppendHeap
  <2>2. cap \in Nat /\ s.len + 1 <= cap
    BY <1>1
  <2>3. new = [i \in 1 .. cap |-> IF i <= s.len THEN h[s.arr][i]
                                  ELSE IF i = s.len + 1 THEN c ELSE Nil]
    BY DEF Grown
  <2> HIDE DEF cap
  <2>4. \A i \in 1 .. cap : new[i] \in Entry
    <3>1. \A i \in 1 .. cap : i <= s.len => i \in 1 .. s.len
      BY <1>1, <2>2
    <3> QED
      BY <1>1, <2>3, <3>1 DEF SliceOK, Entry
  <2>5. new \in [1 .. cap -> Entry]
    BY <2>3, <2>4
  <2>6. new \in Seq(Entry) /\ Len(new) = cap
    BY <2>2, <2>5, SeqDef, LenProperties
  <2>7. /\ \A i \in 1 .. s.len : new[i] = h[s.arr][i]
        /\ new[s.len + 1] = c
    BY <1>1, <2>2, <2>3
  <2> HIDE DEF new
  <2>8. /\ g \in Seq(Seq(Entry)) /\ Len(g) = Len(h) + 1 /\ g[Len(h) + 1] = new
        /\ \A b \in 1 .. Len(h) : g[b] = h[b]
    BY <2>1, <2>6, AppendProperties
  <2>9. SliceOK(g, t)
    <3>1. Within(g, t)
      BY <1>1, <1>3, <2>1, <2>2, <2>6, <2>8 DEF Within
    <3>2. \A i \in 1 .. t.len : i \in 1 .. s.len \/ i = s.len + 1
      BY <1>1, <1>3
    <3>3. \A i \in 1 .. t.len : g[t.arr][i] \in Compiled
      BY <2>1, <2>7, <2>8, <3>2 DEF SliceOK
    <3> QED
      BY <1>1, <1>3, <3>1, <3>3 DEF SliceOK
  <2>10. \A b \in 1 .. Len(h) : b # t.arr
    BY <1>1, <2>1
  <2> QED
    BY <1>1, <1>3, <2>1, <2>7, <2>8, <2>9, <2>10
<1> QED
  BY <1>4, <1>5

\* removeLocked's search finds the policy where it is, if it is there.
LEMMA FoundFacts ==
  ASSUME NEW h, NEW s \in Slice, NEW name
  PROVE  /\ Found(h, s, name) \in 0 .. s.len
         /\ Found(h, s, name) = 0 => \A i \in 1 .. s.len : h[s.arr][i].name # name
         /\ Found(h, s, name) # 0 => h[s.arr][Found(h, s, name)].name = name
<1> DEFINE at == {i \in 1 .. s.len : h[s.arr][i].name = name}
<1>1. s.len \in Nat
  BY DEF Slice
<1>2. Found(h, s, name) = IF at = {} THEN 0 ELSE CHOOSE i \in at : \A j \in at : i <= j
  BY DEF Found
<1>3. CASE at = {}
  BY <1>1, <1>2, <1>3
<1>4. CASE at # {}
  <2> DEFINE R == {jk \in Nat \X Nat : jk[1] < jk[2]}
  <2>1. at \subseteq Nat
    BY <1>1
  <2>2. IsWellFoundedOn(R, Nat)
    BY NatLessThanWellFounded, Zenon DEF OpToRel
  <2>3. PICK i \in at : \A j \in at : ~(<<j, i>> \in R)
    BY <1>4, <2>1, <2>2, WFMin, ZenonT(60)
  <2>4. ASSUME NEW j \in at PROVE i <= j
    <3>1. <<j, i>> \in Nat \X Nat /\ <<j, i>>[1] = j /\ <<j, i>>[2] = i
      BY <2>1
    <3>2. ~(j < i)
      BY <2>3, <3>1, Zenon
    <3> QED
      BY <2>1, <3>2
  <2>5. Found(h, s, name) \in at
    BY <1>2, <1>4, <2>4
  <2> QED
    BY <1>1, <2>5
<1> QED
  BY <1>3, <1>4

\* removeLocked overwrites the entry it found with the last one, in place, and
\* touches nothing else.
LEMMA RemoveFacts ==
  ASSUME NEW h \in Seq(Seq(Entry)), NEW s \in Slice, SliceOK(h, s), NEW name,
         NEW k, k = Found(h, s, name),
         NEW g, g = RemoveLocked(h, s, name), NEW t, t = Shrunk(h, s, name)
  PROVE  /\ g \in Seq(Seq(Entry)) /\ t \in Slice /\ SliceOK(g, t) /\ k \in 0 .. s.len
         /\ Len(g) = Len(h) /\ \A b \in 1 .. Len(h) : Len(g[b]) = Len(h[b])
         /\ k = 0 => g = h /\ t = s
         /\ k # 0 => /\ t.len = s.len - 1
                     /\ \A b \in 1 .. Len(h) : \A j \in 1 .. Len(h[b]) :
                          g[b][j] = IF b = s.arr /\ j = k THEN h[b][s.len] ELSE h[b][j]
         /\ t.len # 0 => t.arr = s.arr
<1>1. s.arr \in Nat /\ s.len \in Nat /\ Len(h) \in Nat /\ k \in 0 .. s.len
  BY LenProperties, FoundFacts DEF Slice
<1>2. CASE k = 0
  <2>1. g = h /\ t = s
    BY <1>2 DEF RemoveLocked, Shrunk
  <2> QED
    BY <1>1, <1>2, <2>1
<1>3. CASE k # 0
  <2>1. k \in 1 .. s.len /\ s.len # 0
    BY <1>1, <1>3
  <2>2. s.arr \in 1 .. Len(h) /\ s.len <= Len(h[s.arr])
    BY <1>1, <2>1 DEF SliceOK, Within
  <2>3. Len(h[s.arr]) \in Nat
    BY <2>2, HeapFacts
  <2>4. k \in 1 .. Len(h[s.arr]) /\ s.len \in 1 .. s.len /\ h[s.arr][s.len] \in Entry
    BY <1>1, <2>1, <2>2, <2>3 DEF SliceOK, Entry
  <2>5. g = [h EXCEPT ![s.arr][k] = h[s.arr][s.len]]
    BY <1>3 DEF RemoveLocked
  <2>6. /\ g \in Seq(Seq(Entry)) /\ Len(g) = Len(h)
        /\ \A b \in 1 .. Len(h) : Len(g[b]) = Len(h[b])
        /\ \A b \in 1 .. Len(h) : \A j \in 1 .. Len(h[b]) :
             g[b][j] = IF b = s.arr /\ j = k THEN h[s.arr][s.len] ELSE h[b][j]
    BY <2>2, <2>4, <2>5, WriteHeap, SMTT(40)
  <2>7. t = IF s.len = 1 THEN NilSlice ELSE [s EXCEPT !.len = s.len - 1]
    BY <1>3 DEF Shrunk
  <2>8. t \in Slice /\ t.len = s.len - 1 /\ (t.len # 0 => t.arr = s.arr) /\ (t.len = 0 => t.arr = 0)
    BY <1>1, <2>1, <2>7 DEF NilSlice, Slice
  <2>9. SliceOK(g, t)
    <3>1. Within(g, t)
      BY <1>1, <2>1, <2>2, <2>3, <2>6, <2>8, SMTT(40) DEF Within
    <3>2. ASSUME NEW i \in 1 .. t.len PROVE g[t.arr][i] \in Compiled
      <4>1. t.arr = s.arr /\ i \in 1 .. s.len /\ i \in 1 .. Len(h[s.arr])
        BY <1>1, <2>1, <2>2, <2>3, <2>8
      <4> QED
        BY <2>2, <2>4, <2>6, <4>1, SMTT(40) DEF SliceOK
    <3> QED
      BY <2>8, <3>1, <3>2 DEF SliceOK
  <2> QED
    BY <1>1, <1>3, <2>6, <2>8, <2>9
<1> QED
  BY <1>2, <1>3
-----------------------------------------------------------------------------
(* Every step is one of these, for the cache and for the notes.            *)

\* What a handler does for the note at the head: it ends with it, or stops
\* after the first half of onPolicyUpdate, or does the second half.
HandlerStep(n) ==
  /\ notes # <<>> /\ n = Head(notes) /\ UNCHANGED <<api, store, writes>>
  /\ \/ /\ pending = {} /\ pending' = {} /\ notes' = Tail(notes)
        /\ \/ /\ UNCHANGED <<cacheVars, unresolved>>
              /\ ~n.old.live /\ n.new.live /\ ~IsPolicyReady(n.new)
           \/ UNCHANGED cacheVars /\ unresolved' = unresolved \cup {n.name}
           \/ UNCHANGED unresolved /\ Add(n.name, n.new.rv)
                /\ ~n.old.live /\ IsPolicyReady(n.new)
           \/ UNCHANGED unresolved /\ Remove(n.name) /\ n.old.live /\ ~n.new.live
     \/ /\ pending = {} /\ pending' = {n} /\ UNCHANGED notes
        /\ n.old.live /\ n.new.live
        /\ \/ UNCHANGED <<cacheVars, unresolved>> /\ ~IsPolicyReady(n.old)
           \/ UNCHANGED cacheVars /\ unresolved' = unresolved \cup {n.name}
           \/ UNCHANGED unresolved /\ Remove(n.name) /\ IsPolicyReady(n.old)
     \/ /\ pending = {n} /\ pending' = {} /\ notes' = Tail(notes) /\ UNCHANGED unresolved
        /\ \/ UNCHANGED cacheVars /\ ~IsPolicyReady(n.new)
           \/ Add(n.name, n.new.rv) /\ IsPolicyReady(n.new)

LEMMA HandlerSteps ==
  ASSUME NotesOK, Handlers PROVE \E n \in Note : HandlerStep(n)
<1> USE DEF HandlerStep
<1>1. notes # <<>> => Head(notes) \in Note
  BY HeadTailProperties DEF NotesOK
<1>2. CASE OnPolicyAdd
  <2>1. PICK n : /\ Handling(n) /\ ~n.old.live /\ n.new.live
                 /\ \/ ~IsPolicyReady(n.new) /\ Resolved /\ UNCHANGED cacheVars
                    \/ IsPolicyReady(n.new) /\ KindToResourceFails(n.name) /\ UNCHANGED cacheVars
                    \/ IsPolicyReady(n.new) /\ Resolved /\ Add(n.name, n.new.rv)
                 /\ Done
    BY <1>2 DEF OnPolicyAdd
  <2>2. notes # <<>> /\ n = Head(notes) /\ n \in Note /\ pending = {} /\ pending' = {}
    BY <1>1, <2>1 DEF Handling, Done
  <2> QED
    BY <2>1, <2>2 DEF Done, Resolved, KindToResourceFails
<1>3. CASE OnPolicyUpdateRemove
  <2>1. PICK n : /\ Handling(n) /\ n.old.live /\ n.new.live
                 /\ pending' = {n}
                 /\ \/ IsPolicyReady(n.old) /\ Resolved /\ Remove(n.name)
                    \/ IsPolicyReady(n.old) /\ KindToResourceFails(n.name) /\ UNCHANGED cacheVars
                    \/ ~IsPolicyReady(n.old) /\ Resolved /\ UNCHANGED cacheVars
                 /\ Keep
    BY <1>3 DEF OnPolicyUpdateRemove
  <2>2. notes # <<>> /\ n = Head(notes) /\ n \in Note /\ pending = {}
    BY <1>1, <2>1 DEF Handling
  <2> QED
    BY <2>1, <2>2 DEF Keep, Resolved, KindToResourceFails
<1>4. CASE OnPolicyUpdateUnresolved
  <2>1. PICK n : /\ Handling(n) /\ n.old.live /\ n.new.live
                 /\ IsPolicyReady(n.new) /\ KindToResourceFails(n.name)
                 /\ Done /\ UNCHANGED cacheVars
    BY <1>4 DEF OnPolicyUpdateUnresolved
  <2>2. notes # <<>> /\ n = Head(notes) /\ n \in Note /\ pending = {} /\ pending' = {}
    BY <1>1, <2>1 DEF Handling, Done
  <2> QED
    BY <2>1, <2>2 DEF Done, KindToResourceFails
<1>5. CASE OnPolicyUpdateAdd
  <2>1. PICK n \in pending :
          /\ IF IsPolicyReady(n.new) THEN Add(n.name, n.new.rv) ELSE UNCHANGED cacheVars
          /\ pending' = {} /\ notes' = Tail(notes)
          /\ UNCHANGED <<api, store, writes, faults, unresolved>>
    BY <1>5 DEF OnPolicyUpdateAdd
  <2>2. notes # <<>> /\ n = Head(notes) /\ pending = {n} /\ n \in Note
    BY <1>1 DEF NotesOK
  <2> QED
    BY <2>1, <2>2
<1>6. CASE OnPolicyDelete
  <2>1. PICK n : /\ Handling(n) /\ n.old.live /\ ~n.new.live
                 /\ \/ Resolved /\ Remove(n.name)
                    \/ KindToResourceFails(n.name) /\ UNCHANGED cacheVars
                 /\ Done
    BY <1>6 DEF OnPolicyDelete
  <2>2. notes # <<>> /\ n = Head(notes) /\ n \in Note /\ pending = {} /\ pending' = {}
    BY <1>1, <2>1 DEF Handling, Done
  <2> QED
    BY <2>1, <2>2 DEF Done, Resolved, KindToResourceFails
<1> QED
  BY <1>2, <1>3, <1>4, <1>5, <1>6 DEF Handlers

noteVars == <<api, store, notes, pending, writes, unresolved>>

\* What is neither a handler nor the informer changes no note.
LEMMA Steps ==
  ASSUME Next
  PROVE  \/ \E p \in Policies : (WritePolicy(p) \/ Notify(p) \/ Resync(p)) /\ UNCHANGED cacheVars
         \/ Handlers
         \/ UNCHANGED noteVars /\ \E w \in Workers : Get(w) \/ Work(w)
         \/ UNCHANGED noteVars /\ StartFails
         \/ UNCHANGED noteVars /\ UNCHANGED cacheVars
<1> USE DEF noteVars, cacheVars
<1>1. ASSUME NEW p \in Policies, WritePolicy(p) \/ Notify(p) \/ Resync(p)
      PROVE  UNCHANGED cacheVars
  BY <1>1 DEF WritePolicy, Notify, Resync
<1>2. ASSUME NEW w \in Workers, Get(w) \/ Work(w) PROVE UNCHANGED noteVars
  BY <1>2 DEF Get, Work, EvaluateNext, Finish, workVars
<1>3. StartFails => UNCHANGED noteVars
  BY DEF StartFails
<1>4. CASE StartCache \/ CacheSynced \/ StartWorkers \/ Sigterm
  BY <1>4 DEF StartCache, CacheSynced, StartWorkers, Sigterm, idleVars
<1>5. ASSUME NEW g \in running, GoroutineEnds(g)
      PROVE  UNCHANGED noteVars /\ UNCHANGED cacheVars
  BY <1>5 DEF GoroutineEnds, idleVars
<1>6. CASE Stop \/ WaitReturns \/ Drain
  BY <1>6 DEF Stop, WaitReturns, Drain, idleVars
<1> HIDE DEF noteVars, cacheVars
<1> QED
  BY <1>1, <1>2, <1>3, <1>4, <1>5, <1>6 DEF Next

-----------------------------------------------------------------------------
(* Notes.                                                                  *)

LEMMA NotesNext ==
  ASSUME NotesOK, [Next]_vars PROVE NotesOK'
<1>1. /\ api \in [Policies -> Version] /\ store \in [Policies -> Version]
      /\ notes \in Seq(Note) /\ writes \in Nat /\ unresolved \subseteq Policies
  BY DEF NotesOK
<1>2. ASSUME NEW p \in Policies, WritePolicy(p) PROVE NotesOK'
  <2>1. UNCHANGED <<store, notes, pending, unresolved>> /\ writes' = writes + 1
    BY <1>2 DEF WritePolicy
  <2>2. writes + 2 \in Nat /\ api[p].live \in BOOLEAN /\ api[p] \in Version
    BY <1>1 DEF Version
  <2>3. api' \in [Policies -> Version]
    <3>1. CASE api' = [api EXCEPT ![p] = [live |-> TRUE, ready |-> FALSE, rv |-> writes + 2]]
      BY <1>1, <2>2, <3>1 DEF Version
    <3>2. CASE api' = [api EXCEPT ![p].ready = TRUE, ![p].rv = writes + 2]
      BY <1>1, <2>2, <3>2 DEF Version
    <3>3. CASE api' = [api EXCEPT ![p] = Absent]
      BY <1>1, <3>3 DEF Version, Absent
    <3> QED
      BY <1>2, <3>1, <3>2, <3>3 DEF WritePolicy
  <2> QED
    BY <1>1, <2>1, <2>3 DEF NotesOK
<1>3. ASSUME NEW p \in Policies, Notify(p) \/ Resync(p) PROVE NotesOK'
  <2>1. PICK n \in Note : notes' = Append(notes, n)
    <3>1. [name |-> p, old |-> store[p], new |-> api[p]] \in Note
          /\ [name |-> p, old |-> store[p], new |-> store[p]] \in Note
      BY <1>1 DEF Note
    <3> QED
      BY <1>3, <3>1 DEF Notify, Resync
  <2>2. notes' \in Seq(Note) /\ notes' # <<>> /\ (notes # <<>> => Head(notes') = Head(notes))
    BY <1>1, <2>1
  <2>3. store' \in [Policies -> Version] /\ writes' \in Nat /\ UNCHANGED <<api, pending, unresolved>>
    BY <1>1, <1>3 DEF Notify, Resync
  <2> QED
    BY <1>1, <2>2, <2>3 DEF NotesOK
<1>4. CASE Handlers
  <2>1. PICK n \in Note :
           /\ notes # <<>> /\ n = Head(notes) /\ UNCHANGED <<api, store, writes>>
           /\ \/ pending' = {} /\ notes' = Tail(notes)
              \/ pending' = {n} /\ UNCHANGED notes /\ n.old.live /\ n.new.live
           /\ UNCHANGED unresolved \/ unresolved' = unresolved \cup {n.name}
    BY <1>4, HandlerSteps DEF HandlerStep
  <2>2. n.name \in Policies
    BY DEF Note
  <2>3. Tail(notes) \in Seq(Note)
    BY <1>1, <2>1
  <2> QED
    BY <1>1, <2>1, <2>2, <2>3 DEF NotesOK
<1>5. CASE UNCHANGED noteVars
  BY <1>5 DEF noteVars, NotesOK
<1>6. CASE UNCHANGED vars
  BY <1>5, <1>6 DEF vars, noteVars
<1>7. CASE Next
  BY <1>2, <1>3, <1>4, <1>5, <1>7, Steps
<1> QED
  BY <1>6, <1>7
-----------------------------------------------------------------------------
(* The cache and the workers in their loops.                               *)

LEMMA IndexFacts ==
  ASSUME CacheOK, NEW ix \in Index
  PROVE  /\ heap[ix] \in Seq(Seq(Entry)) /\ slices[ix] \in Slice /\ SliceOK(heap[ix], slices[ix])
         /\ heap[ix] = heap["policies"] /\ slices[ix] = slices["policies"]
         /\ "policies" \in Index /\ "policiesByKind" \in Index
BY DEF CacheOK, Index

\* A worker in its loop, after its array was written by Add.
LEMMA LoopAdd ==
  ASSUME NEW h \in Seq(Seq(Entry)), NEW s \in Slice, SliceOK(h, s), NEW c \in Compiled,
         NEW g, g = AppendHeap(h, s, c), NEW t, t = AppendSlice(h, s, c),
         NEW r \in Loop, LoopOK(r, h, s),
         NEW q, q = [r EXCEPT !.cached = @ \cup {c}]
  PROVE  q \in Loop /\ LoopOK(q, g, t)
<1>1. /\ q \in Loop /\ q.slice = r.slice /\ q.i = r.i /\ q.read = r.read /\ q.snap = r.snap
      /\ q.cached = r.cached \cup {c} /\ q.calm = r.calm /\ q.slice \in Slice
  BY DEF Loop
<1>2. /\ t.len = s.len + 1 /\ g[t.arr][t.len] = c
      /\ \A i \in 1 .. s.len : g[t.arr][i] = h[s.arr][i]
      /\ Len(h) \in Nat /\ Len(g) \in Nat /\ Len(h) <= Len(g)
      /\ \A b \in 1 .. Len(h) : Len(g[b]) = Len(h[b])
      /\ \A b \in 1 .. Len(h) : \A j \in 1 .. Len(h[b]) :
           g[b][j] = IF b = s.arr /\ b = t.arr /\ j = s.len + 1 THEN c ELSE h[b][j]
      /\ t.arr = s.arr \/ t.arr = Len(h) + 1
  BY AppendFacts, SMTT(200)
<1>3. /\ s.len \in Nat /\ s.arr \in Nat /\ r.slice.len \in Nat /\ r.slice.arr \in Nat
      /\ r.slice.arr # 0 => r.slice.arr \in 1 .. Len(h)
  BY <1>1, <1>2 DEF Slice, LoopOK, Within
<1>4. Within(g, q.slice)
  BY <1>1, <1>2, <1>3, SMTT(40) DEF LoopOK, Within
<1>5. ASSUME NEW k \in 1 .. r.slice.len
      PROVE  /\ r.slice.arr \in 1 .. Len(h) /\ k \in 1 .. Len(h[r.slice.arr])
             /\ g[r.slice.arr][k] \in q.cached
             /\ r.calm => g[r.slice.arr][k] = h[r.slice.arr][k]
  <2>1. r.slice.arr # 0 /\ k \in Nat /\ 1 <= k /\ k <= r.slice.len
    BY <1>3 DEF LoopOK, Within
  <2>2. r.slice.arr \in 1 .. Len(h)
    BY <1>3, <2>1
  <2>3. Len(h[r.slice.arr]) \in Nat
    BY <2>2, HeapFacts
  <2>4. k \in 1 .. Len(h[r.slice.arr])
    BY <1>3, <2>1, <2>2, <2>3 DEF LoopOK, Within
  <2>5. g[r.slice.arr][k] = IF r.slice.arr = s.arr /\ r.slice.arr = t.arr /\ k = s.len + 1
                            THEN c ELSE h[r.slice.arr][k]
    BY <1>2, <2>2, <2>4
  <2>6. r.calm => ~(r.slice.arr = s.arr /\ k = s.len + 1)
    BY <1>3, <2>1 DEF LoopOK
  <2> QED
    BY <1>1, <2>2, <2>4, <2>5, <2>6 DEF LoopOK
<1>6. \A k \in 1 .. t.len : g[t.arr][k] \in q.cached
  <2>1. \A k \in 1 .. t.len : k \in 1 .. s.len \/ k = t.len
    BY <1>2, <1>3
  <2> QED
    BY <1>1, <1>2, <2>1 DEF LoopOK
<1>7. r.calm => (t.arr = r.slice.arr => r.slice.len <= t.len)
  BY <1>2, <1>3, SMTT(40) DEF LoopOK
<1>8. r.calm => \A k \in 1 .. r.slice.len : g[r.slice.arr][k] = r.snap[k]
  BY <1>5 DEF LoopOK
<1> QED
  BY <1>1, <1>4, <1>5, <1>6, <1>7, <1>8 DEF LoopOK

\* A worker in its loop, after an entry of its array was overwritten by Remove.
LEMMA LoopRemove ==
  ASSUME NEW h \in Seq(Seq(Entry)), NEW s \in Slice, SliceOK(h, s), NEW name,
         NEW g, g = RemoveLocked(h, s, name), NEW t, t = Shrunk(h, s, name),
         NEW r \in Loop, LoopOK(r, h, s), NEW q \in Loop,
         q.slice = r.slice, q.i = r.i, q.read = r.read, q.snap = r.snap,
         q.cached = r.cached, q.calm = FALSE
  PROVE  LoopOK(q, g, t)
<1> DEFINE k == Found(h, s, name)
<1>1. /\ q.slice = r.slice /\ q.i = r.i /\ q.read = r.read /\ q.snap = r.snap
      /\ q.cached = r.cached /\ q.calm = FALSE /\ q.slice \in Slice
  BY DEF Loop
<1>2. /\ k \in 0 .. s.len /\ t \in Slice
      /\ Len(g) = Len(h) /\ \A b \in 1 .. Len(h) : Len(g[b]) = Len(h[b])
      /\ k = 0 => g = h /\ t = s
      /\ k # 0 => /\ t.len = s.len - 1
                  /\ \A b \in 1 .. Len(h) : \A j \in 1 .. Len(h[b]) :
                       g[b][j] = IF b = s.arr /\ j = k THEN h[b][s.len] ELSE h[b][j]
      /\ t.len # 0 => t.arr = s.arr
  BY RemoveFacts, SMTT(40)
<1> HIDE DEF k
<1>3. /\ s.len \in Nat /\ s.arr \in Nat /\ r.slice.len \in Nat /\ r.slice.arr \in Nat
      /\ t.len \in Nat /\ Len(h) \in Nat
      /\ r.slice.arr # 0 => r.slice.arr \in 1 .. Len(h)
      /\ s.arr # 0 => s.arr \in 1 .. Len(h)
  BY <1>1, <1>2, LenProperties DEF Slice, LoopOK, Within, SliceOK
<1>4. Within(g, q.slice)
  BY <1>1, <1>2, <1>3 DEF LoopOK, Within
<1>5. CASE k = 0
  BY <1>1, <1>2, <1>4, <1>5 DEF LoopOK
<1>6. CASE k # 0
  <2>1. s.arr \in 1 .. Len(h) /\ s.len \in 1 .. s.len /\ s.len # 0
    BY <1>2, <1>3, <1>6 DEF SliceOK, Within
  <2>2. h[s.arr][s.len] \in r.cached
    BY <2>1 DEF LoopOK
  <2>3. ASSUME NEW j \in 1 .. r.slice.len PROVE g[r.slice.arr][j] \in r.cached
    <3>1. r.slice.arr # 0
      BY <1>3 DEF LoopOK, Within
    <3>2. r.slice.arr \in 1 .. Len(h) /\ Len(h[r.slice.arr]) \in Nat
      BY <1>3, <3>1, HeapFacts
    <3>3. j \in 1 .. Len(h[r.slice.arr])
      BY <1>3, <3>1, <3>2, SMTT(40) DEF LoopOK, Within
    <3>4. g[r.slice.arr][j] = IF r.slice.arr = s.arr /\ j = k THEN h[s.arr][s.len] ELSE h[r.slice.arr][j]
      BY <1>2, <1>6, <3>2, <3>3
    <3> QED
      BY <2>2, <3>4 DEF LoopOK
  <2>4. ASSUME NEW j \in 1 .. t.len PROVE g[t.arr][j] \in r.cached
    <3>1. t.arr = s.arr /\ j \in 1 .. s.len /\ Len(h[s.arr]) \in Nat
      <4>1. t.len # 0 /\ t.len = s.len - 1
        BY <1>2, <1>3, <1>6
      <4>2. Len(h[s.arr]) \in Nat
        BY <2>1, HeapFacts
      <4> QED
        BY <1>2, <1>3, <4>1, <4>2
    <3>2. j \in 1 .. Len(h[s.arr])
      BY <1>3, <2>1, <3>1 DEF SliceOK, Within
    <3>3. g[t.arr][j] = IF j = k THEN h[s.arr][s.len] ELSE h[s.arr][j]
      BY <1>2, <1>6, <2>1, <3>1, <3>2
    <3> QED
      BY <2>2, <3>1, <3>3 DEF LoopOK
  <2> QED
    BY <1>1, <1>4, <2>3, <2>4 DEF LoopOK
<1> QED
  BY <1>5, <1>6

\* A worker that is not idle is in its loop.
LEMMA LoopType ==
  ASSUME ReadersOK, NEW w \in Workers
  PROVE  reader[w] = Idle \/ (reader[w] \in Loop /\ reader[w].at # "idle")
BY DEF ReadersOK, Loop, Idle

LEMMA AddCache ==
  ASSUME CacheOK, ReadersOK, NEW name \in Policies, NEW rv \in Nat, Add(name, rv)
  PROVE  CacheOK' /\ ReadersOK'
<1> DEFINE c == [name |-> name, rv |-> rv]
<1>1. c \in Compiled
  BY DEF Compiled
<1>2. /\ heap' = [ix \in Index |-> AppendHeap(heap[ix], slices[ix], c)]
      /\ slices' = [ix \in Index |-> AppendSlice(heap[ix], slices[ix], c)]
      /\ reader' = [w \in Workers |-> IF reader[w].at = "idle" THEN Idle
                                      ELSE [reader[w] EXCEPT !.cached = @ \cup {c}]]
  BY DEF Add
<1> HIDE DEF c
<1>3. ASSUME NEW ix \in Index
      PROVE  heap'[ix] \in Seq(Seq(Entry)) /\ slices'[ix] \in Slice /\ SliceOK(heap'[ix], slices'[ix])
  BY <1>1, <1>2, IndexFacts, AppendFacts
<1>4. CacheOK'
  <2>1. heap' \in [Index -> Seq(Seq(Entry))] /\ slices' \in [Index -> Slice]
    BY <1>2, <1>3
  <2>2. heap'["policies"] = heap'["policiesByKind"] /\ slices'["policies"] = slices'["policiesByKind"]
    BY <1>2 DEF CacheOK, Index
  <2> QED
    BY <1>3, <2>1, <2>2 DEF CacheOK
<1>5. ASSUME NEW w \in Workers
      PROVE  /\ reader'[w] \in {Idle} \cup Loop
             /\ reader'[w].at # "idle" => LoopOK(reader'[w], heap'[IndexOf(w)], slices'[IndexOf(w)])
  <2>1. CASE reader[w].at = "idle"
    BY <1>2, <2>1 DEF Idle
  <2>2. CASE reader[w].at # "idle"
    <3>1. /\ IndexOf(w) \in Index /\ reader[w] \in Loop
          /\ LoopOK(reader[w], heap[IndexOf(w)], slices[IndexOf(w)])
      BY <2>2, LoopType DEF IndexOf, Index, ReadersOK, Idle
    <3>2. reader'[w] = [reader[w] EXCEPT !.cached = @ \cup {c}]
      BY <1>2, <2>2
    <3> QED
      BY <1>1, <1>2, <3>1, <3>2, IndexFacts, LoopAdd
  <2> QED
    BY <2>1, <2>2
<1>6. reader' \in [Workers -> {Idle} \cup Loop]
  BY <1>2, <1>5
<1> QED
  BY <1>4, <1>5, <1>6 DEF ReadersOK

LEMMA RemoveCache ==
  ASSUME CacheOK, ReadersOK, NEW name, Remove(name)
  PROVE  CacheOK' /\ ReadersOK'
<1> DEFINE gone(ix) == LET i == Found(heap[ix], slices[ix], name)
                       IN  IF i = 0 THEN {} ELSE {heap[ix][slices[ix].arr][i]}
<1>1. /\ heap' = [ix \in Index |-> RemoveLocked(heap[ix], slices[ix], name)]
      /\ slices' = [ix \in Index |-> Shrunk(heap[ix], slices[ix], name)]
      /\ reader' = [w \in Workers |-> IF reader[w].at = "idle" THEN Idle
                                      ELSE [reader[w] EXCEPT !.standing = @ \ gone(IndexOf(w)),
                                                             !.calm = FALSE]]
  BY DEF Remove
<1> HIDE DEF gone
<1>2. ASSUME NEW ix \in Index
      PROVE  heap'[ix] \in Seq(Seq(Entry)) /\ slices'[ix] \in Slice /\ SliceOK(heap'[ix], slices'[ix])
  BY <1>1, IndexFacts, RemoveFacts, ZenonT(60)
<1>3. CacheOK'
  <2>1. heap' \in [Index -> Seq(Seq(Entry))] /\ slices' \in [Index -> Slice]
    BY <1>1, <1>2
  <2>2. heap'["policies"] = heap'["policiesByKind"] /\ slices'["policies"] = slices'["policiesByKind"]
    BY <1>1 DEF CacheOK, Index
  <2> QED
    BY <1>2, <2>1, <2>2 DEF CacheOK
<1>4. ASSUME NEW w \in Workers
      PROVE  /\ reader'[w] \in {Idle} \cup Loop
             /\ reader'[w].at # "idle" => LoopOK(reader'[w], heap'[IndexOf(w)], slices'[IndexOf(w)])
  <2>1. CASE reader[w].at = "idle"
    BY <1>1, <2>1 DEF Idle
  <2>2. CASE reader[w].at # "idle"
    <3>1. /\ IndexOf(w) \in Index /\ reader[w] \in Loop
          /\ LoopOK(reader[w], heap[IndexOf(w)], slices[IndexOf(w)])
      BY <2>2, LoopType DEF IndexOf, Index, ReadersOK, Idle
    <3>2. reader'[w] = [reader[w] EXCEPT !.standing = @ \ gone(IndexOf(w)), !.calm = FALSE]
      BY <1>1, <2>2
    <3>3. /\ heap'[IndexOf(w)] = RemoveLocked(heap[IndexOf(w)], slices[IndexOf(w)], name)
          /\ slices'[IndexOf(w)] = Shrunk(heap[IndexOf(w)], slices[IndexOf(w)], name)
      BY <1>1, <3>1
    <3>4. /\ heap[IndexOf(w)] \in Seq(Seq(Entry)) /\ slices[IndexOf(w)] \in Slice
          /\ SliceOK(heap[IndexOf(w)], slices[IndexOf(w)])
      BY <3>1, IndexFacts
    <3>5. /\ reader'[w] \in Loop /\ reader'[w].slice = reader[w].slice /\ reader'[w].i = reader[w].i
          /\ reader'[w].read = reader[w].read /\ reader'[w].snap = reader[w].snap
          /\ reader'[w].cached = reader[w].cached /\ reader'[w].calm = FALSE
      BY <3>1, <3>2 DEF Loop
    <3>6. LoopOK(reader'[w], heap'[IndexOf(w)], slices'[IndexOf(w)])
      BY <3>1, <3>3, <3>4, <3>5, LoopRemove, ZenonT(60)
    <3> QED
      BY <3>5, <3>6
  <2> QED
    BY <2>1, <2>2
<1>5. reader' \in [Workers -> {Idle} \cup Loop]
  BY <1>1, <1>4
<1> QED
  BY <1>3, <1>4, <1>5 DEF ReadersOK
\* Get hands out the slice as it is; the loop reads one entry at a time.
LEMMA GetLoop ==
  ASSUME CacheOK, ReadersOK, NEW w \in Workers, Get(w)
  PROVE  ReadersOK'
<1> DEFINE ix == IndexOf(w)
           h == heap[ix]
           s == slices[ix]
           snap == Elements(h, s)
           new == [at |-> "next", slice |-> s, i |-> 1, read |-> <<>>, snap |-> snap,
                   standing |-> Entries(ix), cached |-> Entries(ix), calm |-> TRUE]
<1>1. ix \in Index
  BY DEF IndexOf, Index
<1>2. h \in Seq(Seq(Entry)) /\ s \in Slice /\ SliceOK(h, s)
  BY <1>1, IndexFacts
<1>3. UNCHANGED <<heap, slices>> /\ reader' = [reader EXCEPT ![w] = new]
  BY DEF Get, workVars
<1>4. Entries(ix) = {snap[i] : i \in DOMAIN snap}
  BY DEF Entries
<1> HIDE DEF ix, h, s
<1>5. s.len \in Nat /\ snap = [i \in 1 .. s.len |-> h[s.arr][i]]
  BY <1>2 DEF Slice, Elements
<1>6. \A i \in 1 .. s.len : snap[i] = h[s.arr][i] /\ snap[i] \in Compiled
  BY <1>2, <1>5 DEF SliceOK
<1>7. snap \in [1 .. s.len -> Compiled]
  BY <1>5, <1>6
<1>8. snap \in Seq(Compiled) /\ Len(snap) = s.len /\ DOMAIN snap = 1 .. s.len
  BY <1>5, <1>7, SeqDef, LenProperties
<1>9. Entries(ix) \subseteq Compiled /\ \A i \in 1 .. s.len : h[s.arr][i] \in Entries(ix)
  BY <1>4, <1>6, <1>8
<1>10. new \in Loop
  BY <1>2, <1>8, <1>9 DEF Loop
<1>11. LoopOK(new, h, s)
  <2>1. /\ new.slice = s /\ new.i = 1 /\ new.read = <<>> /\ new.snap = snap
        /\ new.cached = Entries(ix)
    OBVIOUS
  <2> HIDE DEF new, snap
  <2>2. Within(h, new.slice) /\ Len(new.read) = 0
    BY <1>2, <2>1 DEF SliceOK
  <2> QED
    BY <1>5, <1>6, <1>8, <1>9, <2>1, <2>2 DEF LoopOK
<1> HIDE DEF new
<1>12. ASSUME NEW v \in Workers
       PROVE  /\ reader'[v] \in {Idle} \cup Loop
              /\ reader'[v].at # "idle" => LoopOK(reader'[v], heap'[IndexOf(v)], slices'[IndexOf(v)])
  <2>1. CASE v = w
    BY <1>3, <1>10, <1>11, <2>1 DEF ReadersOK, ix, h, s
  <2>2. CASE v # w
    BY <1>3, <2>2 DEF ReadersOK
  <2> QED
    BY <2>1, <2>2
<1>13. reader' \in [Workers -> {Idle} \cup Loop]
  BY <1>3, <1>10 DEF ReadersOK
<1> QED
  BY <1>12, <1>13 DEF ReadersOK

\* The loop reads one entry at a time from the array as it is now.
LEMMA WorkLoop ==
  ASSUME CacheOK, ReadersOK, NEW w \in Workers, Work(w)
  PROVE  ReadersOK'
<1> DEFINE r == reader[w]
           h == heap[IndexOf(w)]
           s == slices[IndexOf(w)]
           c == h[r.slice.arr][r.i]
           next == [r EXCEPT !.i = r.i + 1, !.read = Append(r.read, c)]
<1>1. /\ UNCHANGED <<heap, slices>>
      /\ \/ reader' = [reader EXCEPT ![w] = Idle]
         \/ Evaluating(w) /\ reader' = [reader EXCEPT ![w] = next]
  <2>1. CASE EvaluateNext(w)
    <3>1. reader' = [reader EXCEPT ![w].i = @ + 1, ![w].read = Append(@, c)]
          \/ reader' = [reader EXCEPT ![w] = Idle]
      BY <2>1 DEF EvaluateNext
    <3>2. [reader EXCEPT ![w].i = @ + 1, ![w].read = Append(@, c)] = [reader EXCEPT ![w] = next]
      <4>1. r = Idle \/ r \in Loop
        BY LoopType
      <4>2. r \in Loop
        BY <2>1, <4>1 DEF EvaluateNext, Evaluating, Idle
      <4>3. reader \in [Workers -> {Idle} \cup Loop]
        BY DEF ReadersOK
      <4> QED
        BY <4>2, <4>3 DEF Loop
    <3> QED
      BY <2>1, <3>1, <3>2 DEF EvaluateNext, workVars
  <2>2. CASE Finish(w)
    BY <2>2 DEF Finish, workVars
  <2> QED
    BY <2>1, <2>2, SMTT(40) DEF Work
<1>2. ASSUME NEW q \in {Idle} \cup Loop, reader' = [reader EXCEPT ![w] = q],
             q.at # "idle" => LoopOK(q, h, s)
      PROVE  ReadersOK'
  <2>1. reader' \in [Workers -> {Idle} \cup Loop]
    BY <1>2 DEF ReadersOK
  <2>2. ASSUME NEW v \in Workers
        PROVE  reader'[v].at # "idle" => LoopOK(reader'[v], heap'[IndexOf(v)], slices'[IndexOf(v)])
    <3>1. CASE v = w
      BY <1>1, <1>2, <3>1 DEF ReadersOK
    <3>2. CASE v # w
      BY <1>1, <1>2, <3>2 DEF ReadersOK
    <3> QED
      BY <3>1, <3>2
  <2> QED
    BY <2>1, <2>2 DEF ReadersOK
<1>3. CASE reader' = [reader EXCEPT ![w] = Idle]
  <2>1. Idle.at = "idle"
    BY DEF Idle
  <2> QED
    BY <1>2, <1>3, <2>1
<1>4. CASE Evaluating(w) /\ reader' = [reader EXCEPT ![w] = next]
  <2>1. r \in Loop /\ LoopOK(r, h, s) /\ r.at # "idle"
    BY <1>4, LoopType DEF Evaluating, ReadersOK, Idle
  <2>2. /\ r.slice.len \in Nat /\ r.read \in Seq(Compiled) /\ Len(r.read) \in Nat
        /\ r.i = Len(r.read) + 1 /\ r.i <= r.slice.len /\ r.cached \subseteq Compiled
    BY <1>4, <2>1, LenProperties DEF Evaluating, Loop, Slice, LoopOK
  <2>3. r.i \in 1 .. r.slice.len
    BY <2>2
  <2>4. c \in r.cached /\ (r.calm => c = r.snap[r.i])
    BY <2>1, <2>3 DEF LoopOK
  <2> HIDE DEF c, h, s
  <2>5. /\ Append(r.read, c) \in Seq(Compiled) /\ Len(Append(r.read, c)) = Len(r.read) + 1
        /\ \A k \in 1 .. Len(r.read) : Append(r.read, c)[k] = r.read[k]
        /\ Append(r.read, c)[Len(r.read) + 1] = c
    BY <2>2, <2>4, AppendProperties
  <2>6. /\ next \in Loop /\ next.slice = r.slice /\ next.i = r.i + 1 /\ next.snap = r.snap
        /\ next.read = Append(r.read, c) /\ next.cached = r.cached /\ next.calm = r.calm
    <3> DEFINE a == Append(r.read, c)
               k == r.i + 1
    <3>1. a \in Seq(Compiled) /\ k \in Nat
      BY <2>2, <2>5
    <3> HIDE DEF a, k, r
    <3>2. [r EXCEPT !.i = k, !.read = a] \in Loop
      BY <2>1, <3>1 DEF Loop
    <3>3. /\ next.slice = r.slice /\ next.i = k /\ next.snap = r.snap
          /\ next.read = a /\ next.cached = r.cached /\ next.calm = r.calm
      BY <2>1 DEF Loop, a, k
    <3> QED
      BY <3>2, <3>3 DEF a, k
  <2> HIDE DEF next
  <2>7. \A k \in 1 .. Len(next.read) : k \in 1 .. Len(r.read) \/ k = Len(r.read) + 1
    BY <2>2, <2>5, <2>6
  <2>8. /\ \A k \in 1 .. Len(next.read) : next.read[k] \in next.cached
        /\ next.calm => \A k \in 1 .. Len(next.read) : next.read[k] = next.snap[k]
    BY <2>1, <2>2, <2>4, <2>5, <2>6, <2>7 DEF LoopOK
  <2>9. next.i = Len(next.read) + 1 /\ Len(next.read) <= next.slice.len
    BY <2>2, <2>5, <2>6
  <2>10. LoopOK(next, h, s)
    BY <2>1, <2>6, <2>8, <2>9 DEF LoopOK
  <2> QED
    BY <1>2, <1>4, <2>6, <2>10
<1> QED
  BY <1>1, <1>3, <1>4

LEMMA CacheNext ==
  ASSUME NotesOK, CacheOK, ReadersOK, [Next]_vars
  PROVE  CacheOK' /\ ReadersOK'
<1>1. CASE UNCHANGED cacheVars
  BY <1>1 DEF cacheVars, CacheOK, ReadersOK
<1>2. CASE Handlers
  <2>1. PICK n \in Note : \/ UNCHANGED cacheVars
                          \/ Add(n.name, n.new.rv)
                          \/ Remove(n.name)
    BY <1>2, HandlerSteps DEF HandlerStep
  <2>2. n.name \in Policies /\ n.new.rv \in Nat
    BY DEF Note, Version
  <2> QED
    BY <1>1, <2>1, <2>2, AddCache, RemoveCache
<1>3. ASSUME NEW w \in Workers, Get(w) \/ Work(w) PROVE CacheOK' /\ ReadersOK'
  <2>1. UNCHANGED <<heap, slices>>
    BY <1>3 DEF Get, Work, EvaluateNext, Finish, workVars
  <2>2. CacheOK'
    BY <2>1 DEF CacheOK
  <2> QED
    BY <1>3, <2>2, GetLoop, WorkLoop
<1>4. CASE StartFails
  <2>1. UNCHANGED <<heap, slices>> /\ reader' = [w \in Workers |-> Idle]
    BY <1>4 DEF StartFails
  <2> QED
    BY <2>1 DEF CacheOK, ReadersOK, Idle
<1>5. CASE UNCHANGED vars
  BY <1>1, <1>5 DEF vars, cacheVars
<1>6. CASE Next
  BY <1>1, <1>2, <1>3, <1>4, <1>6, Steps
<1> QED
  BY <1>5, <1>6

ProcessorInv == NotesOK /\ CacheOK /\ ReadersOK

LEMMA ProcessorInit == Init => ProcessorInv
<1> SUFFICES ASSUME Init PROVE ProcessorInv
  OBVIOUS
<1>1. NotesOK
  BY DEF Init, NotesOK, Version, Absent
<1>2. CacheOK
  <2>1. ASSUME NEW ix \in Index PROVE SliceOK(heap[ix], slices[ix]) /\ slices[ix] \in Slice
    BY DEF Init, NilSlice, SliceOK, Within, Slice
  <2>2. heap \in [Index -> Seq(Seq(Entry))] /\ slices \in [Index -> Slice]
    BY <2>1 DEF Init
  <2> QED
    BY <2>1, <2>2 DEF Init, CacheOK, Index
<1>3. ReadersOK
  BY DEF Init, ReadersOK, Idle
<1> QED
  BY <1>1, <1>2, <1>3 DEF ProcessorInv

LEMMA ProcessorAlways == Spec => []ProcessorInv
<1>1. ProcessorInv /\ [Next]_vars => ProcessorInv'
  BY NotesNext, CacheNext DEF ProcessorInv
<1> QED
  BY <1>1, ProcessorInit, PTL DEF Spec

\* Slices stay within their arrays and the two indexes of the cache agree at
\* every step, for any policies, workers, writes and discovery faults.
THEOREM ProcessorType == Spec => []TypeOK
<1>1. ProcessorInv => TypeOK
  <2> SUFFICES ASSUME ProcessorInv PROVE TypeOK
    OBVIOUS
  <2>1. NotesOK /\ CacheOK
    BY DEF ProcessorInv
  <2>2. ASSUME NEW ix \in Index
        PROVE  /\ slices[ix].arr \in 0 .. Len(heap[ix])
               /\ slices[ix].arr = 0 <=> slices[ix].len = 0
               /\ slices[ix].arr # 0 => slices[ix].len <= Len(heap[ix][slices[ix].arr])
               /\ Entries(ix) \subseteq Compiled
               /\ Entries(ix) = Entries("policies")
    <3>1. /\ SliceOK(heap[ix], slices[ix])
          /\ heap[ix] = heap["policies"] /\ slices[ix] = slices["policies"]
      BY <2>1, IndexFacts
    <3>2. Entries(ix) \subseteq Compiled
      BY <3>1 DEF Entries, Elements, SliceOK
    <3> QED
      BY <3>1, <3>2 DEF SliceOK, Within, Entries
  <2>3. Cardinality(pending) <= 1
    <3>1. CASE pending = {}
      BY <3>1, FS_EmptySet
    <3>2. CASE pending # {}
      <4>1. PICK n : pending = {n}
        BY <2>1, <3>2 DEF NotesOK
      <4>2. Cardinality({n}) = 1
        BY FS_Singleton
      <4> QED
        BY <4>1, <4>2
    <3> QED
      BY <3>1, <3>2
  <2>4. "policiesByKind" \in Index
    BY DEF Index
  <2> QED
    BY <2>1, <2>2, <2>3, <2>4 DEF TypeOK, NotesOK
<1> QED
  BY <1>1, ProcessorAlways, PTL

\* Whatever the handlers write into the array under a worker's loop, the worker
\* meets only policies that were cached since its Get, and without a removal
\* exactly those of its Get, in order.
THEOREM ReadsAlwaysCached == Spec => []ReadsAreCached
<1>1. ProcessorInv => ReadsAreCached
  <2> SUFFICES ASSUME ProcessorInv, NEW w \in Workers, reader[w].at # "idle"
               PROVE  /\ \A i \in DOMAIN reader[w].read : reader[w].read[i] \in reader[w].cached
                      /\ reader[w].calm =>
                           reader[w].read = SubSeq(reader[w].snap, 1, Len(reader[w].read))
    BY DEF ReadsAreCached
  <2> DEFINE r == reader[w]
             u == SubSeq(r.snap, 1, Len(r.read))
  <2>1. r \in Loop /\ LoopOK(r, heap[IndexOf(w)], slices[IndexOf(w)])
    BY LoopType DEF ProcessorInv, ReadersOK, Idle
  <2> HIDE DEF r
  <2>2. /\ r.read \in Seq(Compiled) /\ r.snap \in Seq(Compiled) /\ r.slice.len \in Nat
        /\ Len(r.read) \in Nat /\ DOMAIN r.read = 1 .. Len(r.read)
    BY <2>1, LenProperties DEF Loop, Slice
  <2>3. \A i \in DOMAIN r.read : r.read[i] \in r.cached
    BY <2>1, <2>2 DEF LoopOK
  <2>4. ASSUME r.calm PROVE r.read = u
    <3>1. Len(r.read) <= Len(r.snap) /\ \A k \in 1 .. Len(r.read) : r.read[k] = r.snap[k]
      BY <2>1, <2>2, <2>4 DEF LoopOK
    <3>2. \A i \in 1 .. Len(r.read) : r.snap[i] \in Compiled
      BY <2>2, <3>1, ElementOfSeq
    <3>3. /\ u \in Seq(Compiled)
          /\ Len(u) = IF 1 <= Len(r.read) THEN Len(r.read) - 1 + 1 ELSE 0
          /\ \A i \in 1 .. Len(r.read) - 1 + 1 : u[i] = r.snap[1 + i - 1]
      BY <2>2, <3>2, SubSeqProperties
    <3> HIDE DEF u
    <3>4. Len(u) = Len(r.read) /\ \A i \in 1 .. Len(r.read) : u[i] = r.read[i]
      BY <2>2, <3>1, <3>3
    <3> QED
      BY <2>2, <3>3, <3>4, SeqEqual
  <2> QED
    BY <2>3, <2>4 DEF r
<1> QED
  BY <1>1, ProcessorAlways, PTL
-----------------------------------------------------------------------------
(* The cache follows the policies.                                         *)

\* Adding a policy leaves the others as they are.
LEMMA AddHolds ==
  ASSUME CacheOK, NEW name \in Policies, NEW rv \in Nat, Add(name, rv)
  PROVE  /\ \A p, v : p # name /\ Holds(p, v) =>
              HoldsIn(heap'["policies"], slices'["policies"], p, v)
         /\ \A v : v.rv = rv /\ IsPolicyReady(v) /\ Holds(name, Absent) =>
              HoldsIn(heap'["policies"], slices'["policies"], name, v)
<1> DEFINE c == [name |-> name, rv |-> rv]
           h == heap["policies"]
           s == slices["policies"]
           g == heap'["policies"]
           t == slices'["policies"]
<1>1. c \in Compiled /\ c.name = name
  BY DEF Compiled
<1>2. h \in Seq(Seq(Entry)) /\ s \in Slice /\ SliceOK(h, s)
  BY IndexFacts DEF CacheOK, Index
<1>3. g = AppendHeap(h, s, c) /\ t = AppendSlice(h, s, c)
  BY DEF Add, Index
<1> HIDE DEF c, h, s, g, t
<1>4. /\ t.len = s.len + 1 /\ g[t.arr][t.len] = c
      /\ \A i \in 1 .. s.len : g[t.arr][i] = h[s.arr][i]
  BY <1>1, <1>2, <1>3, AppendFacts, SMTT(60)
<1>5. /\ s.len \in Nat /\ t.len \in 1 .. t.len
      /\ \A i \in 1 .. t.len : i \in 1 .. s.len \/ i = t.len
      /\ \A i \in 1 .. s.len : i \in 1 .. t.len
  BY <1>2, <1>4 DEF Slice
<1>6. ASSUME NEW p, NEW v, p # name, HoldsIn(h, s, p, v) PROVE HoldsIn(g, t, p, v)
  <2>1. CASE IsPolicyReady(v)
    <3>1. PICK k \in 1 .. s.len : /\ h[s.arr][k] = [name |-> p, rv |-> v.rv]
                                  /\ \A j \in 1 .. s.len : h[s.arr][j].name = p => j = k
      BY <1>6, <2>1 DEF HoldsIn
    <3>2. k \in 1 .. t.len /\ g[t.arr][k] = [name |-> p, rv |-> v.rv]
      BY <1>4, <1>5, <3>1
    <3>3. \A j \in 1 .. t.len : g[t.arr][j].name = p => j = k
      BY <1>1, <1>4, <1>5, <1>6, <3>1
    <3> QED
      BY <2>1, <3>2, <3>3 DEF HoldsIn
  <2>2. CASE ~IsPolicyReady(v)
    BY <1>1, <1>4, <1>5, <1>6, <2>2 DEF HoldsIn
  <2> QED
    BY <2>1, <2>2
<1>7. ASSUME NEW v, v.rv = rv, IsPolicyReady(v), HoldsIn(h, s, name, Absent)
      PROVE  HoldsIn(g, t, name, v)
  <2>1. \A k \in 1 .. s.len : h[s.arr][k].name # name
    BY <1>7 DEF HoldsIn, Absent, IsPolicyReady
  <2>2. \A j \in 1 .. t.len : g[t.arr][j].name = name => j = t.len
    BY <1>4, <1>5, <2>1
  <2>3. g[t.arr][t.len] = [name |-> name, rv |-> v.rv]
    BY <1>4, <1>7 DEF c
  <2> QED
    BY <1>5, <1>7, <2>2, <2>3 DEF HoldsIn
<1> QED
  BY <1>6, <1>7 DEF Holds, h, s, g, t

\* Removing a policy the slice holds at most once leaves none of it, and the
\* others as they are although one of them moves.
LEMMA RemoveHolds ==
  ASSUME CacheOK, NEW name, Remove(name)
  PROVE  /\ \A p, v : p # name /\ Holds(p, v) =>
              HoldsIn(heap'["policies"], slices'["policies"], p, v)
         /\ \A u, v : ~IsPolicyReady(v) /\ Holds(name, u) =>
              HoldsIn(heap'["policies"], slices'["policies"], name, v)
<1> DEFINE h == heap["policies"]
           s == slices["policies"]
           g == heap'["policies"]
           t == slices'["policies"]
           k == Found(h, s, name)
<1>1. h \in Seq(Seq(Entry)) /\ s \in Slice /\ SliceOK(h, s)
  BY IndexFacts DEF CacheOK, Index
<1>2. g = RemoveLocked(h, s, name) /\ t = Shrunk(h, s, name)
  BY DEF Remove, Index
<1> HIDE DEF h, s, g, t
<1>3. /\ k \in 0 .. s.len
      /\ k = 0 => g = h /\ t = s
      /\ k # 0 => /\ t.len = s.len - 1
                  /\ \A b \in 1 .. Len(h) : \A j \in 1 .. Len(h[b]) :
                       g[b][j] = IF b = s.arr /\ j = k THEN h[b][s.len] ELSE h[b][j]
      /\ t.len # 0 => t.arr = s.arr
  BY <1>1, <1>2, RemoveFacts
<1>4. /\ k = 0 => \A i \in 1 .. s.len : h[s.arr][i].name # name
      /\ k # 0 => h[s.arr][k].name = name
  <2>1. s \in Slice
    BY <1>1
  <2> QED
    BY <2>1, FoundFacts
<1> HIDE DEF k
<1>5. CASE k = 0
  <2>1. \A v : ~IsPolicyReady(v) => HoldsIn(g, t, name, v)
    BY <1>3, <1>4, <1>5 DEF HoldsIn
  <2> QED
    BY <1>3, <1>5, <2>1 DEF Holds, h, s, g, t
<1>6. CASE k # 0
  <2>1. s.len \in Nat \ {0} /\ k \in 1 .. s.len /\ t.len = s.len - 1 /\ s.arr \in 1 .. Len(h)
    BY <1>1, <1>3, <1>6, LenProperties DEF Slice, SliceOK, Within
  <2>2. Len(h[s.arr]) \in Nat /\ \A i \in 1 .. s.len : i \in 1 .. Len(h[s.arr])
    BY <1>1, <2>1, HeapFacts DEF SliceOK, Within
  <2>3. \A i \in 1 .. t.len :
          /\ i \in 1 .. s.len /\ i # s.len
          /\ g[t.arr][i] = IF i = k THEN h[s.arr][s.len] ELSE h[s.arr][i]
    <3> SUFFICES ASSUME NEW i \in 1 .. t.len
                 PROVE  /\ i \in 1 .. s.len /\ i # s.len
                        /\ g[t.arr][i] = IF i = k THEN h[s.arr][s.len] ELSE h[s.arr][i]
      OBVIOUS
    <3>1. i \in 1 .. s.len /\ i # s.len /\ t.len # 0
      BY <2>1
    <3>2. t.arr = s.arr /\ i \in 1 .. Len(h[s.arr])
      BY <1>3, <2>2, <3>1
    <3> QED
      BY <1>3, <1>6, <2>1, <3>1, <3>2
  <2>4. \A i \in 1 .. s.len : i # s.len => i \in 1 .. t.len
    BY <2>1
  <2>5. ASSUME NEW p, NEW v, p # name, HoldsIn(h, s, p, v) PROVE HoldsIn(g, t, p, v)
    <3>1. CASE IsPolicyReady(v)
      <4>1. PICK m \in 1 .. s.len : /\ h[s.arr][m] = [name |-> p, rv |-> v.rv]
                                    /\ \A j \in 1 .. s.len : h[s.arr][j].name = p => j = m
        BY <2>5, <3>1 DEF HoldsIn
      <4>2. m # k
        BY <1>4, <1>6, <2>5, <4>1
      <4> DEFINE n == IF m = s.len THEN k ELSE m
      <4>3. n \in 1 .. t.len /\ g[t.arr][n] = [name |-> p, rv |-> v.rv]
        BY <2>1, <2>3, <2>4, <4>1, <4>2
      <4>4. \A j \in 1 .. t.len : g[t.arr][j].name = p => j = n
        BY <2>1, <2>3, <4>1, <4>2, SMTT(40)
      <4> QED
        BY <3>1, <4>3, <4>4 DEF HoldsIn
    <3>2. CASE ~IsPolicyReady(v)
      <4>1. \A i \in 1 .. s.len : h[s.arr][i].name # p
        BY <2>5, <3>2 DEF HoldsIn
      <4>2. s.len \in 1 .. s.len
        BY <2>1
      <4>3. \A i \in 1 .. t.len : g[t.arr][i].name # p
        BY <2>3, <4>1, <4>2
      <4> QED
        BY <3>2, <4>3 DEF HoldsIn
    <3> QED
      BY <3>1, <3>2
  <2>6. ASSUME NEW u, NEW v, ~IsPolicyReady(v), HoldsIn(h, s, name, u)
        PROVE  HoldsIn(g, t, name, v)
    <3>1. PICK m \in 1 .. s.len : \A j \in 1 .. s.len : h[s.arr][j].name = name => j = m
      BY <1>4, <1>6, <2>1, <2>6 DEF HoldsIn
    <3>2. \A j \in 1 .. s.len : h[s.arr][j].name = name => j = k
      BY <1>4, <1>6, <2>1, <3>1
    <3>3. s.len \in 1 .. s.len
      BY <2>1
    <3>4. \A i \in 1 .. t.len : g[t.arr][i].name # name
      BY <2>3, <3>2, <3>3
    <3> QED
      BY <2>6, <3>4 DEF HoldsIn
  <2> QED
    BY <2>5, <2>6 DEF Holds, h, s, g, t
<1> QED
  BY <1>5, <1>6
\* A handler that has finished with its note leaves the cache as the note says,
\* for its policy, and as it was for the others.
LEMMA TakeNote ==
  ASSUME NotesOK, FollowsInv, notes # <<>>, notes' = Tail(notes), pending' = {},
         UNCHANGED store, unresolved \subseteq unresolved',
         \A q, v : q # Head(notes).name /\ Holds(q, v) =>
           HoldsIn(heap'["policies"], slices'["policies"], q, v),
         Head(notes).name \notin unresolved' =>
           HoldsIn(heap'["policies"], slices'["policies"], Head(notes).name, Head(notes).new)
  PROVE  FollowsInv'
<1> DEFINE Now(q, v) == HoldsIn(heap'["policies"], slices'["policies"], q, v)
           p == Head(notes).name
           L == Len(notes)
           M == Len(notes')
<1>1. /\ notes \in Seq(Note) /\ L \in Nat \ {0} /\ M = L - 1 /\ Head(notes) = notes[1]
      /\ \A i \in 1 .. M : i + 1 \in 1 .. L /\ notes'[i] = notes[i + 1]
      /\ \A i \in 1 .. L : notes[i] \in Note
  BY HeadTailProperties, LenProperties, ElementOfSeq DEF NotesOK
<1> HIDE DEF p, Now, L, M
<1>0. L \in Nat /\ M \in Nat /\ M = L - 1
  BY <1>1
<1>2. \A i \in 1 .. L : i = 1 \/ (i - 1 \in 1 .. M /\ notes'[i - 1] = notes[i])
  <2> SUFFICES ASSUME NEW i \in 1 .. L, i # 1
               PROVE  i - 1 \in 1 .. M /\ notes'[i - 1] = notes[i]
    OBVIOUS
  <2>1. i - 1 \in 1 .. M /\ (i - 1) + 1 = i
    BY <1>1
  <2> QED
    BY <1>1, <2>1
<1>3. 1 \in 1 .. L /\ notes[1].name = p /\ notes[1].new = Head(notes).new
  BY <1>1 DEF p
<1>4. ASSUME NEW i \in 1 .. M, NEW j \in 1 .. M, i < j, notes'[i].name = notes'[j].name,
             \A k \in 1 .. M : (i < k /\ k < j) => notes'[k].name # notes'[i].name
      PROVE  notes'[i].new = notes'[j].old
  <2>1. i + 1 \in 1 .. L /\ j + 1 \in 1 .. L /\ i + 1 < j + 1
    BY <1>1, <1>4
  <2>2. ASSUME NEW k \in 1 .. L, i + 1 < k, k < j + 1 PROVE notes[k].name # notes[i + 1].name
    <3>1. k # 1 /\ i < k - 1 /\ k - 1 < j
      BY <1>0, <2>2
    <3>2. k - 1 \in 1 .. M /\ notes'[k - 1] = notes[k]
      BY <1>2, <3>1
    <3> QED
      BY <1>1, <1>4, <3>1, <3>2
  <2> QED
    BY <1>1, <1>4, <2>1, <2>2 DEF FollowsInv, L
<1>5. ASSUME NEW i \in 1 .. M,
             \A k \in 1 .. M : i < k => notes'[k].name # notes'[i].name
      PROVE  notes'[i].new = store'[notes'[i].name]
  <2>1. i + 1 \in 1 .. L
    BY <1>1
  <2>2. ASSUME NEW k \in 1 .. L, i + 1 < k PROVE notes[k].name # notes[i + 1].name
    <3>1. k # 1 /\ i < k - 1
      BY <1>0, <2>2
    <3>2. k - 1 \in 1 .. M /\ notes'[k - 1] = notes[k]
      BY <1>2, <3>1
    <3> QED
      BY <1>1, <1>5, <3>1, <3>2
  <2>3. notes[i + 1].new = store[notes[i + 1].name]
    BY <2>1, <2>2 DEF FollowsInv, L
  <2> QED
    BY <1>1, <2>3
<1>6. ASSUME NEW i \in 1 .. M, notes'[i].name \notin unresolved',
             \A k \in 1 .. M : k < i => notes'[k].name # notes'[i].name
      PROVE  Now(notes'[i].name, notes'[i].old)
  <2>0. i + 1 # 1 /\ 1 < i + 1
    BY <1>0
  <2>1. i + 1 \in 1 .. L /\ i + 1 # 1 /\ 1 < i + 1 /\ notes'[i] = notes[i + 1]
    BY <1>1, <2>0
  <2>2. CASE notes'[i].name = p
    <3>1. ASSUME NEW k \in 1 .. L, 1 < k, k < i + 1 PROVE notes[k].name # notes[1].name
      <4>1. k # 1 /\ k - 1 < i
        BY <1>0, <3>1
      <4>2. k - 1 \in 1 .. M /\ notes'[k - 1] = notes[k]
        BY <1>2, <4>1
      <4> QED
        BY <1>3, <1>6, <2>2, <4>1, <4>2
    <3>2. notes[1].new = notes[i + 1].old
      BY <1>3, <2>1, <2>2, <3>1 DEF FollowsInv, L
    <3> QED
      BY <1>3, <1>6, <2>1, <2>2, <3>2 DEF Now, p
  <2>3. CASE notes'[i].name # p
    <3>1. ASSUME NEW k \in 1 .. L, k < i + 1 PROVE notes[k].name # notes[i + 1].name
      <4>1. CASE k = 1
        BY <1>3, <2>1, <2>3, <4>1
      <4>2. CASE k # 1
        <5>1. k - 1 < i
          BY <1>0, <3>1
        <5>2. k - 1 \in 1 .. M /\ notes'[k - 1] = notes[k]
          BY <1>2, <4>2
        <5> QED
          BY <1>6, <2>1, <5>1, <5>2
      <4> QED
        BY <4>1, <4>2
    <3>2. notes[i + 1].name \notin unresolved
      BY <1>6, <2>1
    <3>3. Holds(notes[i + 1].name, notes[i + 1].old)
      BY <2>1, <3>1, <3>2 DEF FollowsInv, L
    <3> QED
      BY <2>1, <2>3, <3>3 DEF Now, p
  <2> QED
    BY <2>2, <2>3
<1>7. ASSUME NEW q \in Policies, q \notin unresolved', \A k \in 1 .. M : notes'[k].name # q
      PROVE  Now(q, store'[q])
  <2>1. CASE q = p
    <3>1. ASSUME NEW k \in 1 .. L, 1 < k PROVE notes[k].name # notes[1].name
      <4>0. k # 1
        BY <1>0, <3>1
      <4>1. k - 1 \in 1 .. M /\ notes'[k - 1] = notes[k]
        BY <1>2, <4>0
      <4> QED
        BY <1>3, <1>7, <2>1, <4>1
    <3>2. notes[1].new = store[notes[1].name]
      BY <1>3, <3>1 DEF FollowsInv, L
    <3> QED
      BY <1>3, <1>7, <2>1, <3>2 DEF Now, p
  <2>2. CASE q # p
    <3>1. ASSUME NEW k \in 1 .. L PROVE notes[k].name # q
      BY <1>2, <1>3, <1>7, <2>2
    <3>2. q \notin unresolved
      BY <1>7
    <3>3. Holds(q, store[q])
      BY <3>1, <3>2 DEF FollowsInv, L
    <3> QED
      BY <2>2, <3>3 DEF Now, p
  <2> QED
    BY <2>1, <2>2
<1> QED
  BY <1>4, <1>5, <1>6, <1>7 DEF FollowsInv, Holds, Now, M
\* A new note continues the chain of its policy.
LEMMA AddNote ==
  ASSUME NotesOK, FollowsInv, NEW p \in Policies, NEW v \in Version,
         notes' = Append(notes, [name |-> p, old |-> store[p], new |-> v]),
         store' = [store EXCEPT ![p] = v], UNCHANGED <<pending, unresolved, heap, slices>>
  PROVE  FollowsInv'
<1> DEFINE new == [name |-> p, old |-> store[p], new |-> v]
           L == Len(notes)
<1>0. new \in Note /\ new.name = p /\ new.old = store[p] /\ new.new = v
  BY DEF NotesOK, Note
<1> HIDE DEF new
<1>1. /\ L \in Nat /\ Len(notes') = L + 1 /\ notes'[L + 1] = new
      /\ \A i \in 1 .. L : notes'[i] = notes[i] /\ i \in 1 .. L + 1
  BY <1>0, AppendProperties, LenProperties DEF NotesOK, new
<1> HIDE DEF L
<1>2. \A i \in 1 .. L + 1 : (i \in 1 .. L /\ i # L + 1 /\ i < L + 1) \/ i = L + 1
  BY <1>1
<1>3. L + 1 \in 1 .. L + 1 /\ \A i \in 1 .. L + 1 : ~(L + 1 < i)
  BY <1>1
<1>4. store'[p] = v /\ \A q \in Policies : q # p => store'[q] = store[q]
  BY DEF NotesOK
<1>5. \A i \in 1 .. L : notes[i].name \in Policies
  <2>1. \A i \in 1 .. L : notes[i] \in Note
    BY ElementOfSeq DEF NotesOK, L
  <2> QED
    BY <2>1 DEF Note
<1>6. \A q, u : HoldsIn(heap'["policies"], slices'["policies"], q, u) <=> Holds(q, u)
  BY DEF Holds
<1>7. ASSUME NEW i \in 1 .. L + 1, NEW j \in 1 .. L + 1, i < j, notes'[i].name = notes'[j].name,
             \A k \in 1 .. L + 1 : (i < k /\ k < j) => notes'[k].name # notes'[i].name
      PROVE  notes'[i].new = notes'[j].old
  <2>1. i \in 1 .. L /\ notes'[i] = notes[i]
    BY <1>1, <1>2, <1>3, <1>7
  <2>2. CASE j \in 1 .. L
    <3>1. notes'[j] = notes[j]
      BY <1>1, <2>2
    <3>2. \A k \in 1 .. L : (i < k /\ k < j) => notes[k].name # notes[i].name
      BY <1>1, <1>7, <2>1
    <3> QED
      BY <1>7, <2>1, <2>2, <3>1, <3>2 DEF FollowsInv, L
  <2>3. CASE j = L + 1
    <3>1. notes[i].name = p
      BY <1>0, <1>1, <1>7, <2>1, <2>3
    <3>2. \A k \in 1 .. L : i < k => notes[k].name # notes[i].name
      BY <1>1, <1>2, <1>7, <2>1, <2>3
    <3>3. notes[i].new = store[p]
      BY <2>1, <3>1, <3>2 DEF FollowsInv, L
    <3> QED
      BY <1>0, <1>1, <2>1, <2>3, <3>3
  <2> QED
    BY <1>2, <2>2, <2>3
<1>8. ASSUME NEW i \in 1 .. L + 1, \A k \in 1 .. L + 1 : i < k => notes'[k].name # notes'[i].name
      PROVE  notes'[i].new = store'[notes'[i].name]
  <2>1. CASE i = L + 1
    BY <1>0, <1>1, <1>4, <2>1
  <2>2. CASE i \in 1 .. L /\ i < L + 1
    <3>1. notes'[i] = notes[i] /\ notes[i].name # p
      BY <1>0, <1>1, <1>3, <1>8, <2>2
    <3>2. \A k \in 1 .. L : i < k => notes[k].name # notes[i].name
      BY <1>1, <1>8, <2>2, <3>1
    <3>3. notes[i].new = store[notes[i].name]
      BY <2>2, <3>2 DEF FollowsInv, L
    <3> QED
      BY <1>4, <1>5, <2>2, <3>1, <3>3
  <2> QED
    BY <1>2, <2>1, <2>2
<1>9. ASSUME NEW i \in 1 .. L + 1, notes'[i].name \notin unresolved',
             \A k \in 1 .. L + 1 : k < i => notes'[k].name # notes'[i].name
      PROVE  Holds(notes'[i].name, IF i = 1 /\ pending' # {} THEN Absent ELSE notes'[i].old)
  <2>1. CASE i = L + 1
    <3>1. notes'[i].name = p /\ notes'[i].old = store[p]
      BY <1>0, <1>1, <2>1
    <3>2. \A k \in 1 .. L : notes[k].name # p
      BY <1>1, <1>2, <1>9, <2>1, <3>1
    <3>3. Holds(p, store[p])
      BY <1>9, <3>1, <3>2 DEF FollowsInv, L
    <3>4. i = 1 => pending = {}
      BY <1>1, <2>1 DEF NotesOK, L
    <3> QED
      BY <3>1, <3>3, <3>4
  <2>2. CASE i \in 1 .. L
    <3>1. notes'[i] = notes[i] /\ \A k \in 1 .. L : k < i => notes[k].name # notes[i].name
      BY <1>1, <1>9, <2>2
    <3>2. Holds(notes[i].name, IF i = 1 /\ pending # {} THEN Absent ELSE notes[i].old)
      BY <1>9, <2>2, <3>1 DEF FollowsInv, L
    <3> QED
      BY <3>1, <3>2
  <2> QED
    BY <1>2, <2>1, <2>2
<1>10. ASSUME NEW q \in Policies, q \notin unresolved', \A k \in 1 .. L + 1 : notes'[k].name # q
       PROVE  Holds(q, store'[q])
  <2>1. q # p
    BY <1>0, <1>1, <1>3, <1>10
  <2>2. \A k \in 1 .. L : notes[k].name # q
    BY <1>1, <1>10
  <2>3. Holds(q, store[q])
    BY <1>10, <2>2 DEF FollowsInv, L
  <2> QED
    BY <1>4, <2>1, <2>3
<1>11. /\ \A i \in 1 .. L + 1 :
            (notes'[i].name \notin unresolved'
             /\ \A k \in 1 .. L + 1 : k < i => notes'[k].name # notes'[i].name)
            => HoldsIn(heap'["policies"], slices'["policies"], notes'[i].name,
                       IF i = 1 /\ pending' # {} THEN Absent ELSE notes'[i].old)
       /\ \A q \in Policies \ unresolved' :
            (\A k \in 1 .. L + 1 : notes'[k].name # q)
            => HoldsIn(heap'["policies"], slices'["policies"], q, store'[q])
  BY <1>6, <1>9, <1>10
<1> DEFINE M == Len(notes')
<1>12. M = L + 1
  BY <1>1
<1> HIDE DEF M
<1>13. \A i, j \in 1 .. M :
         (/\ i < j /\ notes'[i].name = notes'[j].name
          /\ \A k \in 1 .. M : (i < k /\ k < j) => notes'[k].name # notes'[i].name)
         => notes'[i].new = notes'[j].old
  BY <1>7, <1>12
<1>14. \A i \in 1 .. M :
         (\A k \in 1 .. M : i < k => notes'[k].name # notes'[i].name)
         => notes'[i].new = store'[notes'[i].name]
  BY <1>8, <1>12
<1>15. \A i \in 1 .. M :
         (/\ notes'[i].name \notin unresolved'
          /\ \A k \in 1 .. M : k < i => notes'[k].name # notes'[i].name)
         => HoldsIn(heap'["policies"], slices'["policies"], notes'[i].name,
                    IF i = 1 /\ pending' # {} THEN Absent ELSE notes'[i].old)
  BY <1>11, <1>12
<1>16. \A q \in Policies \ unresolved' :
         (\A k \in 1 .. M : notes'[k].name # q)
         => HoldsIn(heap'["policies"], slices'["policies"], q, store'[q])
  BY <1>11, <1>12
<1> QED
  BY <1>13, <1>14, <1>15, <1>16 DEF FollowsInv, Holds, M

\* The first half of onPolicyUpdate leaves none of its policy in the cache.
LEMMA HalfNote ==
  ASSUME NotesOK, FollowsInv, notes # <<>>, pending' = {Head(notes)},
         UNCHANGED <<notes, store>>, unresolved \subseteq unresolved',
         \A q, v : q # Head(notes).name /\ Holds(q, v) =>
           HoldsIn(heap'["policies"], slices'["policies"], q, v),
         Head(notes).name \notin unresolved' =>
           HoldsIn(heap'["policies"], slices'["policies"], Head(notes).name, Absent)
  PROVE  FollowsInv'
<1> DEFINE Now(q, v) == HoldsIn(heap'["policies"], slices'["policies"], q, v)
           L == Len(notes)
<1>1. L \in Nat \ {0} /\ Head(notes) = notes[1] /\ 1 \in 1 .. L
  BY HeadTailProperties, LenProperties DEF NotesOK
<1>2. ASSUME NEW i \in 1 .. L, notes[i].name \notin unresolved',
             \A k \in 1 .. L : k < i => notes[k].name # notes[i].name
      PROVE  Now(notes[i].name, IF i = 1 /\ pending' # {} THEN Absent ELSE notes[i].old)
  <2>1. CASE i = 1
    BY <1>1, <1>2, <2>1
  <2>2. CASE i # 1
    <3>1. 1 < i
      BY <1>1, <2>2
    <3>2. notes[i].name # Head(notes).name /\ notes[i].name \notin unresolved
      BY <1>1, <1>2, <3>1
    <3>3. Holds(notes[i].name, notes[i].old)
      BY <1>2, <2>2, <3>2 DEF FollowsInv
    <3> QED
      BY <2>2, <3>2, <3>3
  <2> QED
    BY <2>1, <2>2
<1>3. ASSUME NEW q \in Policies, q \notin unresolved', \A k \in 1 .. L : notes[k].name # q
      PROVE  Now(q, store[q])
  <2>1. q # Head(notes).name /\ q \notin unresolved
    BY <1>1, <1>3
  <2>2. Holds(q, store[q])
    BY <1>3, <2>1 DEF FollowsInv
  <2> QED
    BY <2>1, <2>2
<1> HIDE DEF Now
<1>4. /\ \A i \in 1 .. Len(notes') :
            (notes'[i].name \notin unresolved'
             /\ \A k \in 1 .. Len(notes') : k < i => notes'[k].name # notes'[i].name)
            => Now(notes'[i].name, IF i = 1 /\ pending' # {} THEN Absent ELSE notes'[i].old)
      /\ \A q \in Policies \ unresolved' :
           (\A k \in 1 .. Len(notes') : notes'[k].name # q) => Now(q, store'[q])
  BY <1>2, <1>3
<1> QED
  BY <1>4 DEF FollowsInv, Holds, Now
\* The first note's policy, if no discovery error has hit it, is in the cache
\* as the note's old version says, or not at all between the halves.
LEMMA HeadHolds ==
  ASSUME NotesOK, FollowsInv, notes # <<>>, Head(notes).name \notin unresolved
  PROVE  Holds(Head(notes).name, IF pending # {} THEN Absent ELSE Head(notes).old)
<1>1. Len(notes) \in Nat /\ 1 \in 1 .. Len(notes) /\ Head(notes) = notes[1]
  BY HeadTailProperties, LenProperties DEF NotesOK
<1>2. \A k \in 1 .. Len(notes) : ~(k < 1)
  BY <1>1
<1> QED
  BY <1>1, <1>2 DEF FollowsInv

LEMMA FollowsHandlers ==
  ASSUME NotesOK, CacheOK, FollowsInv, Handlers PROVE FollowsInv'
<1> DEFINE Now(q, v) == HoldsIn(heap'["policies"], slices'["policies"], q, v)
<1>1. PICK n \in Note : HandlerStep(n)
  BY HandlerSteps
<1> USE DEF HandlerStep
<1>2. n.name \in Policies /\ n.new.rv \in Nat
  BY DEF Note, Version
<1>3. n.name \notin unresolved => Holds(n.name, IF pending # {} THEN Absent ELSE n.old)
  BY <1>1, HeadHolds
<1>4. ~IsPolicyReady(Absent) /\ (~n.old.live => ~IsPolicyReady(n.old))
      /\ (~n.new.live => ~IsPolicyReady(n.new))
  BY DEF IsPolicyReady, Absent
<1>5. \A u, v : ~IsPolicyReady(u) /\ ~IsPolicyReady(v) /\ Holds(n.name, u) => Holds(n.name, v)
  BY DEF Holds, HoldsIn
<1>6. UNCHANGED cacheVars => \A q, v : Holds(q, v) => Now(q, v)
  BY DEF cacheVars, Holds
<1>7. Add(n.name, n.new.rv) =>
        /\ \A q, v : q # n.name /\ Holds(q, v) => Now(q, v)
        /\ IsPolicyReady(n.new) /\ Holds(n.name, Absent) => Now(n.name, n.new)
  BY <1>2, AddHolds
<1>8. Remove(n.name) =>
        /\ \A q, v : q # n.name /\ Holds(q, v) => Now(q, v)
        /\ \A u, v : ~IsPolicyReady(v) /\ Holds(n.name, u) => Now(n.name, v)
  BY RemoveHolds
<1> HIDE DEF Now
<1>9. \A q, v : q # n.name /\ Holds(q, v) => Now(q, v)
  BY <1>1, <1>6, <1>7, <1>8
<1>10. unresolved \subseteq unresolved'
  BY <1>1
<1>11. CASE notes' = Tail(notes)
  <2>1. pending' = {}
    BY <1>1, <1>11 DEF NotesOK
  <2>2. n.name \notin unresolved' => Now(n.name, n.new)
    <3> SUFFICES ASSUME n.name \notin unresolved' PROVE Now(n.name, n.new)
      OBVIOUS
    <3>1. n.name \notin unresolved
      BY <1>10
    <3>2. CASE pending = {n}
      <4>1. Holds(n.name, Absent)
        BY <1>3, <3>1, <3>2
      <4>2. CASE Add(n.name, n.new.rv) /\ IsPolicyReady(n.new)
        BY <1>7, <4>1, <4>2
      <4>3. CASE UNCHANGED cacheVars /\ ~IsPolicyReady(n.new)
        BY <1>4, <1>5, <1>6, <4>1, <4>3
      <4> QED
        BY <1>1, <3>2, <4>2, <4>3
    <3>3. CASE pending = {} /\ pending' = {}
      <4>1. Holds(n.name, n.old)
        BY <1>3, <3>1, <3>3
      <4>2. CASE UNCHANGED cacheVars /\ ~n.old.live /\ ~IsPolicyReady(n.new)
        BY <1>4, <1>5, <1>6, <4>1, <4>2
      <4>3. CASE Add(n.name, n.new.rv) /\ ~n.old.live /\ IsPolicyReady(n.new)
        BY <1>4, <1>5, <1>7, <4>1, <4>3
      <4>4. CASE Remove(n.name) /\ ~n.new.live
        BY <1>4, <1>8, <4>1, <4>4
      <4> QED
        BY <1>1, <3>3, <4>2, <4>3, <4>4
    <3> QED
      BY <1>1, <2>1, <3>2, <3>3
  <2> QED
    BY <1>1, <1>9, <1>10, <1>11, <2>1, <2>2, TakeNote DEF Now
<1>12. CASE UNCHANGED notes /\ pending = {} /\ pending' = {n}
  <2>1. n.name \notin unresolved' => Now(n.name, Absent)
    <3> SUFFICES ASSUME n.name \notin unresolved' PROVE Now(n.name, Absent)
      OBVIOUS
    <3>1. Holds(n.name, n.old)
      BY <1>3, <1>10, <1>12
    <3>2. CASE UNCHANGED cacheVars /\ ~IsPolicyReady(n.old)
      BY <1>4, <1>5, <1>6, <3>1, <3>2
    <3>3. CASE Remove(n.name)
      BY <1>4, <1>8, <3>1, <3>3
    <3> QED
      BY <1>1, <1>12, <3>2, <3>3
  <2> QED
    BY <1>1, <1>9, <1>10, <1>12, <2>1, HalfNote DEF Now
<1> QED
  BY <1>1, <1>11, <1>12

LEMMA FollowsNext ==
  ASSUME NotesOK, CacheOK, FollowsInv, [Next]_vars PROVE FollowsInv'
<1>1. CASE UNCHANGED <<store, notes, pending, unresolved, heap, slices>>
  BY <1>1 DEF FollowsInv, Holds
<1>2. ASSUME NEW p \in Policies, WritePolicy(p) PROVE FollowsInv'
  BY <1>1, <1>2 DEF WritePolicy, cacheVars
<1>3. ASSUME NEW p \in Policies, Notify(p) PROVE FollowsInv'
  <2>1. api[p] \in Version
    BY DEF NotesOK
  <2>2. /\ notes' = Append(notes, [name |-> p, old |-> store[p], new |-> api[p]])
        /\ store' = [store EXCEPT ![p] = api[p]] /\ UNCHANGED <<pending, unresolved, heap, slices>>
    BY <1>3 DEF Notify, cacheVars
  <2> QED
    BY <2>1, <2>2, AddNote
<1>4. ASSUME NEW p \in Policies, Resync(p) PROVE FollowsInv'
  <2>1. store[p] \in Version /\ store \in [Policies -> Version]
    BY DEF NotesOK
  <2>2. notes' = Append(notes, [name |-> p, old |-> store[p], new |-> store[p]])
        /\ UNCHANGED <<store, pending, unresolved, heap, slices>>
    BY <1>4 DEF Resync, cacheVars
  <2>3. store' = [store EXCEPT ![p] = store[p]]
    BY <2>1, <2>2
  <2> QED
    BY <2>1, <2>2, <2>3, AddNote
<1>5. ASSUME NEW w \in Workers, Get(w) \/ Work(w)
      PROVE  UNCHANGED <<store, notes, pending, unresolved, heap, slices>>
  BY <1>5 DEF Get, Work, EvaluateNext, Finish, workVars
<1>6. CASE StartFails
  BY <1>1, <1>6 DEF StartFails
<1>7. CASE UNCHANGED noteVars /\ UNCHANGED cacheVars
  BY <1>1, <1>7 DEF noteVars, cacheVars
<1>8. CASE UNCHANGED vars
  BY <1>1, <1>8 DEF vars
<1>9. CASE Next
  BY <1>1, <1>2, <1>3, <1>4, <1>5, <1>6, <1>7, <1>9, FollowsHandlers, Steps
<1> QED
  BY <1>8, <1>9

LEMMA FollowsInit == Init => FollowsInv
<1> SUFFICES ASSUME Init PROVE FollowsInv
  OBVIOUS
<1>1. notes = <<>> /\ Len(notes) = 0
  BY DEF Init
<1>2. ASSUME NEW p \in Policies PROVE Holds(p, store[p])
  <2>1. ~IsPolicyReady(store[p]) /\ slices["policies"].len = 0
    BY DEF Init, IsPolicyReady, Absent, NilSlice, Index
  <2> QED
    BY <2>1 DEF Holds, HoldsIn
<1> QED
  BY <1>1, <1>2 DEF FollowsInv

\* Once the handlers have caught up, the cache agrees with the informer on
\* every policy that no discovery error has hit, whatever was written, resynced
\* or deleted in between and however many policies share the slice.
THEOREM CacheAlwaysFollows == Spec => []CacheFollowsPolicies
<1>1. Init => ProcessorInv /\ FollowsInv
  BY ProcessorInit, FollowsInit
<1>2. ProcessorInv /\ FollowsInv /\ [Next]_vars => (ProcessorInv /\ FollowsInv)'
  BY NotesNext, CacheNext, FollowsNext DEF ProcessorInv
<1>3. ProcessorInv /\ FollowsInv => CacheFollowsPolicies
  <2> SUFFICES ASSUME ProcessorInv, FollowsInv, notes = <<>>,
                      NEW ix \in Index, NEW p \in Policies \ unresolved
               PROVE  LET e  == Elements(heap[ix], slices[ix])
                          at == {i \in DOMAIN e : e[i].name = p}
                      IN  IF IsPolicyReady(store[p])
                          THEN Cardinality(at) = 1 /\ \A i \in at : e[i].rv = store[p].rv
                          ELSE at = {}
    BY DEF CacheFollowsPolicies
  <2> DEFINE h  == heap["policies"]
             s  == slices["policies"]
             e  == Elements(heap[ix], slices[ix])
             at == {i \in DOMAIN e : e[i].name = p}
  <2>1. heap[ix] = h /\ slices[ix] = s
    BY IndexFacts DEF ProcessorInv
  <2>2. HoldsIn(h, s, p, store[p])
    BY DEF FollowsInv, Holds
  <2>3. DOMAIN e = 1 .. s.len /\ \A i \in 1 .. s.len : e[i] = h[s.arr][i]
    BY <2>1 DEF Elements
  <2> HIDE DEF h, s, e
  <2>4. CASE IsPolicyReady(store[p])
    <3>1. PICK k \in 1 .. s.len : /\ h[s.arr][k] = [name |-> p, rv |-> store[p].rv]
                                  /\ \A j \in 1 .. s.len : h[s.arr][j].name = p => j = k
      BY <2>2, <2>4 DEF HoldsIn
    <3>2. at = {k}
      BY <2>3, <3>1
    <3>3. Cardinality({k}) = 1
      BY FS_Singleton
    <3>4. e[k].rv = store[p].rv
      BY <2>3, <3>1
    <3> QED
      BY <2>4, <3>2, <3>3, <3>4 DEF e
  <2>5. CASE ~IsPolicyReady(store[p])
    <3>1. at = {}
      BY <2>2, <2>3, <2>5 DEF HoldsIn
    <3> QED
      BY <2>5, <3>1 DEF e
  <2> QED
    BY <2>4, <2>5
<1> QED
  BY <1>1, <1>2, <1>3, PTL DEF Spec
============================================================================
