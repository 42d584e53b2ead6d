---------------------------- MODULE WatchProofs ----------------------------
(***************************************************************************)
(* Proofs about LiveWatch, for every set of items and requests, every      *)
(* channel length and every bound: its type invariant, that a client which *)
(* resumes from its last resourceVersion misses nothing, and that it gets  *)
(* only what it asked for.  What is due to the client is, while it is      *)
(* served, still to be pushed, or on its way through the subscription's    *)
(* inbox, processMessages and resultChan, in the order of the stream.      *)
(***************************************************************************)
EXTENDS LiveWatch, SequenceTheorems, WellFoundedInduction, NaturalsInduction,
        TLAPS

-----------------------------------------------------------------------------
(* Types.                                                                  *)

Consumers ==
  [on : BOOLEAN, next : Nat \ {0}, unacked : SUBSET Nat, again : SUBSET Nat,
   stalled : BOOLEAN]

Procs ==
  [at : {"top", "defer", "done"}] \cup [at : {"parse", "blocked"}, seq : Nat]

Clients == [rv : Nat, from : Nat \ {0}, seen : SUBSET Nat]

\* The type invariant of the module with what it leaves to the reader: the
\* shape of the records and sequences, the consumer's position, and that all
\* that is published is of the resource the client watches.
WatchType ==
  /\ req \in Requests /\ stream \in Seq(Items)
  /\ consumer \in Consumers /\ inbox \in Seq(Nat) /\ lost \in SUBSET Nat
  /\ proc \in Procs
  /\ stop \in {"no", "handler", "proc", "deleted", "cancelled", "closed"}
  /\ cancelled \in BOOLEAN
  /\ result \in Seq(Nat) /\ Len(result) <= Capacity
  /\ handler \in {"gone", "adding", "serving", "stopping"}
  /\ client \in Clients
  /\ panic \in {"none", "send", "close"}
  /\ faults \in 0 .. MaxFaults /\ watches \in 0 .. MaxWatches

Numbers ==
  /\ Len(stream) <= MaxPublished
  /\ \A s \in Seqs : stream[s].resource = req.resource
  /\ consumer.next \in 1 .. Len(stream) + 1
  /\ consumer.again \subseteq consumer.unacked
  /\ \A s \in consumer.unacked : s \in Seqs /\ s < consumer.next
  /\ \A j \in 1 .. Len(inbox) : inbox[j] \in Seqs \cup {0}
  /\ \A j \in 1 .. Len(result) : result[j] \in Seqs
  /\ proc.at \in {"parse", "blocked"} => proc.seq \in Seqs
  /\ client.rv \in Seqs \cup {0} /\ client.from \in 1 .. Len(stream) + 1
  /\ client.seen \subseteq Seqs /\ lost \subseteq Seqs

Typed == WatchType /\ Numbers

LEMMA Bounds ==
  /\ Capacity \in Nat \ {0} /\ MaxPublished \in Nat /\ MaxFaults \in Nat
  /\ MaxWatches \in Nat
BY WatchAssumption

LEMMA InitTyped == Init => Typed
<1> SUFFICES ASSUME Init PROVE Typed
  OBVIOUS
<1>1. WatchType
  BY Bounds DEF Init, WatchType, Consumers, Procs, Clients, NoConsumer
<1>2. Numbers
  BY Bounds DEF Init, Numbers, NoConsumer, Seqs
<1> QED
  BY <1>1, <1>2 DEF Typed

\* The stream grows at its end.
LEMMA PublishFacts ==
  ASSUME Typed, NEW i \in Items, Publish(i)
  PROVE  /\ stream' \in Seq(Items) /\ Len(stream') = Len(stream) + 1
         /\ Len(stream) \in Nat
         /\ \A s \in Seqs : stream'[s] = stream[s]
         /\ stream'[Len(stream) + 1] = i /\ i.resource = req.resource
         /\ Len(stream') <= MaxPublished
BY Bounds DEF Typed, WatchType, Publish, Seqs

\* The first of the messages that match.
LEMMA Least ==
  ASSUME NEW S, S \subseteq Nat, S # {}
  PROVE  \E t \in S : \A u \in S : t <= u
<1> DEFINE R == {jk \in Nat \X Nat : jk[1] < jk[2]}
<1>1. IsWellFoundedOn(R, Nat)
  BY NatLessThanWellFounded, Zenon DEF OpToRel
<1>2. PICK i \in S : \A j \in S : ~(<<j, i>> \in R)
  BY <1>1, WFMin
<1>3. ASSUME NEW j \in S PROVE i <= j
  <2>1. <<j, i>> \in Nat \X Nat /\ <<j, i>>[1] = j /\ <<j, i>>[2] = i
    OBVIOUS
  <2>2. ~(j < i)
    BY <1>2, <2>1, Zenon
  <2> QED
    BY <2>2
<1> QED
  BY <1>3

LEMMA PushFacts ==
  ASSUME Typed, Push
  PROVE  \E s \in NextSeq :
           /\ \A u \in NextSeq : s <= u
           /\ s \in Seqs /\ consumer.next <= s
           /\ consumer' = [consumer EXCEPT !.next = s + 1,
                                           !.unacked = consumer.unacked \cup {s}]
           /\ \/ inbox' = Append(inbox, s) /\ UNCHANGED <<lost, faults>>
              \/ Fault /\ lost' = lost \cup {s} /\ UNCHANGED inbox
<1>1. NextSeq \subseteq Seqs /\ NextSeq \subseteq Nat /\ \A s \in NextSeq : consumer.next <= s
  BY DEF NextSeq, Seqs, Typed, WatchType, Consumers
<1>2. NextSeq # {}
  BY DEF Push
<1>3. \E t \in NextSeq : \A u \in NextSeq : t <= u
  BY <1>1, <1>2, Least
<1> DEFINE s == CHOOSE t \in NextSeq : \A u \in NextSeq : t <= u
<1>4. s \in NextSeq /\ \A u \in NextSeq : s <= u
  BY <1>3
<1> QED
  BY <1>1, <1>4 DEF Push

\* Append and Tail as the invariants need them.
LEMMA AppendFacts ==
  ASSUME NEW q \in Seq(Nat), NEW s \in Nat, NEW p, p = Append(q, s)
  PROVE  /\ p \in Seq(Nat) /\ Len(p) = Len(q) + 1 /\ Len(q) \in Nat
         /\ p[Len(q) + 1] = s /\ \A j \in 1 .. Len(q) : p[j] = q[j]
OBVIOUS

LEMMA TailFacts ==
  ASSUME NEW q \in Seq(Nat), q # <<>>, NEW p, p = Tail(q)
  PROVE  /\ p \in Seq(Nat) /\ Len(p) = Len(q) - 1 /\ Len(q) \in Nat \ {0}
         /\ Head(q) = q[1] /\ Head(q) \in Nat
         /\ \A j \in 1 .. Len(p) : p[j] = q[j + 1]
OBVIOUS

\* The records' fields.
LEMMA Shapes ==
  /\ NoConsumer \in Consumers
  /\ \A at \in {"top", "defer", "done"} : [at |-> at] \in Procs
  /\ \A at \in {"parse", "blocked"}, s \in Nat : [at |-> at, seq |-> s] \in Procs
  /\ \A c \in Consumers : /\ c.on \in BOOLEAN /\ c.stalled \in BOOLEAN /\ c.next \in Nat \ {0}
                          /\ c.unacked \subseteq Nat /\ c.again \subseteq Nat
  /\ \A c \in Consumers, A \in SUBSET Nat : [c EXCEPT !.again = A] \in Consumers
  /\ \A c \in Consumers, U \in SUBSET Nat, A \in SUBSET Nat :
       [c EXCEPT !.unacked = U, !.again = A] \in Consumers
  /\ \A c \in Consumers, n \in Nat \ {0}, U \in SUBSET Nat :
       [c EXCEPT !.next = n, !.unacked = U] \in Consumers
  /\ \A c \in Consumers, n \in Nat \ {0} : [c EXCEPT !.on = TRUE, !.next = n] \in Consumers
  /\ \A c \in Consumers, b \in BOOLEAN : [c EXCEPT !.stalled = b] \in Consumers
  /\ \A c \in Clients : c.rv \in Nat /\ c.from \in Nat \ {0} /\ c.seen \subseteq Nat
  /\ \A c \in Clients, n \in Nat \ {0} : [c EXCEPT !.from = n] \in Clients
  /\ \A c \in Clients, n \in Nat, S \in SUBSET Nat : [c EXCEPT !.rv = n, !.seen = S] \in Clients
<1>1. NoConsumer \in Consumers
  BY DEF Consumers, NoConsumer
<1>2. \A at \in {"top", "defer", "done"} : [at |-> at] \in Procs
  BY DEF Procs
<1>3. \A at \in {"parse", "blocked"}, s \in Nat : [at |-> at, seq |-> s] \in Procs
  BY DEF Procs
<1>4. \A c \in Consumers : /\ c.on \in BOOLEAN /\ c.stalled \in BOOLEAN /\ c.next \in Nat \ {0}
                          /\ c.unacked \subseteq Nat /\ c.again \subseteq Nat
  BY DEF Consumers
<1>5. \A c \in Consumers, A \in SUBSET Nat : [c EXCEPT !.again = A] \in Consumers
  BY DEF Consumers
<1>6. \A c \in Consumers, U \in SUBSET Nat, A \in SUBSET Nat :
       [c EXCEPT !.unacked = U, !.again = A] \in Consumers
  BY DEF Consumers
<1>7. \A c \in Consumers, n \in Nat \ {0}, U \in SUBSET Nat :
       [c EXCEPT !.next = n, !.unacked = U] \in Consumers
  BY DEF Consumers
<1>8. \A c \in Consumers, n \in Nat \ {0} : [c EXCEPT !.on = TRUE, !.next = n] \in Consumers
  BY DEF Consumers
<1>9. \A c \in Consumers, b \in BOOLEAN : [c EXCEPT !.stalled = b] \in Consumers
  BY DEF Consumers
<1>10. \A c \in Clients : c.rv \in Nat /\ c.from \in Nat \ {0} /\ c.seen \subseteq Nat
  BY DEF Clients
<1>11. \A c \in Clients, n \in Nat \ {0} : [c EXCEPT !.from = n] \in Clients
  BY DEF Clients
<1>12. \A c \in Clients, n \in Nat, S \in SUBSET Nat : [c EXCEPT !.rv = n, !.seen = S] \in Clients
  BY DEF Clients
<1> QED
  BY <1>1, <1>2, <1>3, <1>4, <1>5, <1>6, <1>7, <1>8, <1>9, <1>10, <1>11, <1>12

LEMMA ServerTyped ==
  ASSUME Typed, Server
  PROVE  Typed'
<1> USE Bounds
<1>0. /\ Len(stream) \in Nat /\ Seqs = 1 .. Len(stream)
      /\ \A s \in Seqs : s \in Nat
  BY DEF Typed, WatchType, Seqs
<1>1. CASE AddConsumer
  <2>0. consumer' \in Consumers /\ client' \in Clients
    <3> DEFINE start == IF client.rv > 0 THEN client.rv ELSE Len(stream) + 1
    <3>1. client \in Clients /\ client.rv \in Nat
      BY Shapes DEF Typed, WatchType
    <3>2. start \in Nat \ {0}
      BY <1>0, <3>1
    <3>3. /\ consumer' = [NoConsumer EXCEPT !.on = TRUE, !.next = start]
          /\ client' = client \/ client' = [client EXCEPT !.from = start]
      BY <1>1 DEF AddConsumer
    <3> HIDE DEF start
    <3> QED
      BY <3>1, <3>2, <3>3, Shapes
  <2>1. WatchType'
    BY <1>0, <1>1, <2>0 DEF AddConsumer, Typed, WatchType
  <2>2. Numbers'
    BY <1>0, <1>1, SMTT(40) DEF AddConsumer, Typed, WatchType, Numbers, NoConsumer, Consumers, Seqs
  <2> QED
    BY <2>1, <2>2 DEF Typed
<1>2. CASE Subscribe
  <2>1. WatchType'
    <3>1. proc' \in Procs
      BY <1>2, Shapes DEF Subscribe
    <3> QED
      <4>1. result' \in Seq(Nat) /\ Len(result') <= Capacity
        BY <1>2 DEF Subscribe
      <4>2. UNCHANGED <<req, stream, consumer, inbox, lost, client, watches, panic, faults>>
        BY <1>2 DEF Subscribe, natsVars, clientVars
      <4>3. stop' = "no" /\ cancelled' = FALSE /\ handler' = "serving"
        BY <1>2 DEF Subscribe
      <4> QED
        BY <3>1, <4>1, <4>2, <4>3 DEF Typed, WatchType
  <2>2. Numbers'
    BY <1>0, <1>2 DEF Subscribe, Typed, WatchType, Numbers, Seqs, natsVars, clientVars
  <2> QED
    BY <2>1, <2>2 DEF Typed
<1>3. CASE SubscribeFails
  <2>1. WatchType'
    <3>1. consumer' \in Consumers
      BY <1>3, Shapes DEF SubscribeFails, Typed, WatchType
    <3> QED
      BY <1>0, <1>3, <3>1 DEF SubscribeFails, Fault, Typed, WatchType, clientVars
  <2>2. Numbers'
    BY <1>0, <1>3 DEF SubscribeFails, Typed, WatchType, Numbers, Seqs, NoConsumer, clientVars
  <2> QED
    BY <2>1, <2>2 DEF Typed
<1>4. CASE SeeCancel
  BY <1>4, Shapes DEF SeeCancel, Typed, WatchType, Numbers, Seqs, natsVars, clientVars
<1>5. CASE RespondControl
  <2>1. /\ inbox' \in Seq(Nat) /\ Len(inbox') = Len(inbox) - 1
        /\ \A j \in 1 .. Len(inbox') : inbox'[j] = inbox[j + 1]
    BY <1>5, TailFacts DEF RespondControl, Typed, WatchType
  <2>2. WatchType'
    BY <1>5, <2>1, Shapes DEF RespondControl, Typed, WatchType, clientVars
  <2>3. \A j \in 1 .. Len(inbox') : inbox'[j] \in Seqs \cup {0}
    <3>1. Len(inbox) \in Nat /\ \A j \in 1 .. Len(inbox) : inbox[j] \in Seqs \cup {0}
      BY DEF Typed, WatchType, Numbers
    <3>2. \A j \in 1 .. Len(inbox') : j + 1 \in 1 .. Len(inbox)
      BY <2>1, <3>1
    <3> QED
      BY <2>1, <3>1, <3>2
  <2>4. Numbers'
    BY <1>0, <1>5, <2>1, <2>3 DEF RespondControl, Typed, WatchType, Numbers, Consumers, Seqs, clientVars
  <2> QED
    BY <2>2, <2>4 DEF Typed
<1>6. CASE NextMsg
  <2>1. /\ inbox' \in Seq(Nat) /\ Len(inbox') = Len(inbox) - 1
        /\ Len(inbox) \in Nat \ {0} /\ Head(inbox) = inbox[1] /\ Head(inbox) \in Nat
        /\ \A j \in 1 .. Len(inbox') : inbox'[j] = inbox[j + 1]
    BY <1>6, TailFacts DEF NextMsg, Typed, WatchType
  <2>2. WatchType'
    BY <1>6, <2>1, Shapes DEF NextMsg, Typed, WatchType, clientVars
  <2>3. \A j \in 1 .. Len(inbox') : inbox'[j] \in Seqs \cup {0}
    <3>1. Len(inbox) \in Nat /\ \A j \in 1 .. Len(inbox) : inbox[j] \in Seqs \cup {0}
      BY DEF Typed, WatchType, Numbers
    <3>2. \A j \in 1 .. Len(inbox') : j + 1 \in 1 .. Len(inbox)
      BY <2>1, <3>1
    <3> QED
      BY <2>1, <3>1, <3>2
  <2>4. Head(inbox) \in Seqs
    BY <1>6, <2>1 DEF NextMsg, Typed, Numbers
  <2>5. Numbers'
    BY <1>0, <1>6, <2>1, <2>3, <2>4 DEF NextMsg, Typed, WatchType, Numbers, Seqs, clientVars
  <2> QED
    BY <2>2, <2>5 DEF Typed
<1>7. CASE Skip
  <2>1. consumer' \in {Acked(proc.seq), Naked(proc.seq)}
    BY <1>7 DEF Skip
  <2>2. /\ consumer' \in Consumers /\ consumer'.next = consumer.next
        /\ consumer'.unacked \subseteq consumer.unacked
        /\ consumer'.again \subseteq consumer'.unacked
    <3>1. /\ consumer \in Consumers /\ consumer.again \subseteq consumer.unacked
          /\ consumer.unacked \subseteq Nat /\ consumer.again \subseteq Nat
      BY Shapes DEF Typed, WatchType, Numbers
    <3> QED
      BY <2>1, <3>1, ZenonT(60) DEF Acked, Naked, Consumers
  <2>3. WatchType'
    BY <1>7, <2>2, Shapes DEF Skip, Typed, WatchType, clientVars
  <2>4. Numbers'
    BY <1>7, <2>2 DEF Skip, Typed, WatchType, Numbers, Seqs, clientVars
  <2> QED
    BY <2>3, <2>4 DEF Typed
<1>8. ASSUME Send \/ WakeUp PROVE Typed'
  <2>1. proc.seq \in Seqs /\ proc.seq \in Nat /\ proc.at \in {"parse", "blocked"}
    BY <1>0, <1>8 DEF Send, Sending, WakeUp, Typed, Numbers
  <2>2. /\ UNCHANGED <<stream, inbox, lost, stop, cancelled, handler, req, client, watches, faults>>
        /\ panic' \in {"none", "send", "close"}
        /\ proc' \in Procs /\ (proc'.at \in {"parse", "blocked"} => proc'.seq = proc.seq)
        /\ \/ UNCHANGED <<result, consumer>>
           \/ /\ Len(result) < Capacity /\ result' = Append(result, proc.seq)
              /\ consumer' = Acked(proc.seq)
    BY <1>8, <2>1 DEF Send, Sending, WakeUp, Typed, WatchType, Procs, clientVars
  <2>3. /\ consumer' \in Consumers /\ consumer'.next = consumer.next
        /\ consumer'.unacked \subseteq consumer.unacked
        /\ consumer'.again \subseteq consumer'.unacked
    <3>1. /\ consumer \in Consumers /\ consumer.again \subseteq consumer.unacked
          /\ consumer.unacked \subseteq Nat /\ consumer.again \subseteq Nat
      BY Shapes DEF Typed, WatchType, Numbers
    <3> QED
      BY <2>2, <3>1 DEF Acked, Consumers
  <2>4. /\ result' \in Seq(Nat) /\ Len(result') <= Capacity
        /\ \A j \in 1 .. Len(result') : result'[j] \in Seqs
    <3>1. CASE UNCHANGED <<result, consumer>>
      BY <3>1 DEF Typed, WatchType, Numbers
    <3>2. CASE Len(result) < Capacity /\ result' = Append(result, proc.seq)
      <4>1. /\ result' \in Seq(Nat) /\ Len(result') = Len(result) + 1 /\ Len(result) \in Nat
            /\ result'[Len(result) + 1] = proc.seq
            /\ \A j \in 1 .. Len(result) : result'[j] = result[j]
        BY <2>1, <3>2, AppendFacts DEF Typed, WatchType
      <4> QED
        BY <2>1, <3>2, <4>1, SMTT(40) DEF Typed, WatchType, Numbers
    <3> QED
      BY <2>2, <3>1, <3>2
  <2>5. WatchType'
    BY <2>2, <2>3, <2>4 DEF Typed, WatchType
  <2>6. Numbers'
    BY <2>1, <2>2, <2>3, <2>4 DEF Typed, WatchType, Numbers, Seqs
  <2> QED
    BY <2>5, <2>6 DEF Typed
<1>9. CASE Stop
  <2>1. /\ UNCHANGED <<stream, inbox, lost, req, client, watches, result, panic>>
        /\ faults' \in 0 .. MaxFaults
        /\ stop' \in {"no", "handler", "proc", "deleted", "cancelled", "closed"}
        /\ cancelled' \in BOOLEAN /\ handler' \in {"gone", "adding", "serving", "stopping"}
        /\ consumer' \in {consumer, NoConsumer}
        /\ proc' \in {proc, [at |-> "done"]}
    <3>1. CASE \E who \in {"handler", "proc"} : StopBegins(who)
      BY <3>1 DEF StopBegins, Typed, WatchType, natsVars, clientVars
    <3>2. CASE StopDeletes
      BY <3>2 DEF StopDeletes, Fault, Typed, WatchType, natsVars, clientVars
    <3>3. CASE StopCancels \/ StopCloses
      BY <3>3 DEF StopCancels, StopCloses, Typed, WatchType, natsVars, clientVars
    <3> QED
      BY <1>9, <3>1, <3>2, <3>3 DEF Stop
  <2>2. WatchType'
    BY <2>1, Shapes DEF Typed, WatchType
  <2>3. Numbers'
    BY <1>0, <2>1, SMTT(40) DEF Typed, WatchType, Numbers, NoConsumer, Seqs
  <2> QED
    BY <2>2, <2>3 DEF Typed
<1>10. CASE Serve
  <2>1. /\ result' \in Seq(Nat) /\ Len(result') = Len(result) - 1 /\ Len(result) \in Nat \ {0}
        /\ Head(result) = result[1] /\ Head(result) \in Nat
        /\ \A j \in 1 .. Len(result') : result'[j] = result[j + 1]
    BY <1>10, TailFacts DEF Serve, Typed, WatchType
  <2>2. WatchType'
    <3>1. client' \in Clients
      BY <1>10, <2>1, Shapes DEF Serve, Typed, WatchType
    <3> QED
      BY <1>10, <2>1, <3>1 DEF Serve, Typed, WatchType, natsVars
  <2>3. Head(result) \in Seqs /\ \A j \in 1 .. Len(result') : result'[j] \in Seqs
    <3>1. Len(result) \in Nat /\ \A j \in 1 .. Len(result) : result[j] \in Seqs
      BY DEF Typed, WatchType, Numbers
    <3>2. 1 \in 1 .. Len(result) /\ \A j \in 1 .. Len(result') : j + 1 \in 1 .. Len(result)
      BY <2>1, <3>1
    <3> QED
      BY <2>1, <3>1, <3>2
  <2>4. Numbers'
    <3>1. /\ client'.rv = Head(result) /\ client'.from = client.from
          /\ client'.seen = client.seen \cup {Head(result)}
      BY <1>10 DEF Serve, Typed, WatchType, Clients
    <3>2. UNCHANGED <<stream, consumer, inbox, lost, proc, req>>
      BY <1>10 DEF Serve, natsVars
    <3> QED
      BY <2>3, <3>1, <3>2 DEF Typed, Numbers, Seqs
  <2> QED
    BY <2>2, <2>4 DEF Typed
<1>11. CASE RequestEnds \/ HandlerStops
  BY <1>11, ZenonT(60) DEF RequestEnds, HandlerStops, Typed, WatchType, Numbers, Seqs, natsVars, clientVars
<1> QED
  BY <1>1, <1>2, <1>3, <1>4, <1>5, <1>6, <1>7, <1>8, <1>9, <1>10, <1>11 DEF Server, Process

LEMMA JetStreamTyped ==
  ASSUME Typed, JetStream
  PROVE  Typed'
<1> USE Bounds
<1>0. /\ Len(stream) \in Nat /\ Seqs = 1 .. Len(stream)
      /\ \A s \in Seqs : s \in Nat
      /\ consumer \in Consumers /\ inbox \in Seq(Nat)
  BY DEF Typed, WatchType, Seqs
<1>1. ASSUME NEW i \in Items, Publish(i) PROVE Typed'
  <2>1. /\ stream' \in Seq(Items) /\ Len(stream') = Len(stream) + 1
        /\ \A s \in Seqs : stream'[s] = stream[s]
        /\ stream'[Len(stream) + 1] = i /\ i.resource = req.resource
        /\ Len(stream') <= MaxPublished
    BY <1>1, PublishFacts
  <2>2. UNCHANGED <<consumer, inbox, lost, proc, stop, cancelled, result, handler, req, client,
                    watches, panic, faults>>
    BY <1>1 DEF Publish, clientVars
  <2>3. WatchType'
    BY <2>1, <2>2 DEF Typed, WatchType
  <2>4. Seqs' = Seqs \cup {Len(stream) + 1}
    BY <1>0, <2>1 DEF Seqs
  <2>5. \A s \in Seqs' : stream'[s].resource = req.resource
    BY <2>1, <2>4 DEF Typed, Numbers
  <2>6. consumer.next \in 1 .. Len(stream') + 1 /\ client.from \in 1 .. Len(stream') + 1
    BY <1>0, <2>1 DEF Typed, Numbers
  <2>7. Numbers'
    BY <2>1, <2>2, <2>4, <2>5, <2>6 DEF Typed, Numbers
  <2> QED
    BY <2>3, <2>7 DEF Typed
<1>2. CASE Push
  <2>1. PICK s \in NextSeq :
          /\ s \in Seqs /\ consumer.next <= s
          /\ consumer' = [consumer EXCEPT !.next = s + 1,
                                          !.unacked = consumer.unacked \cup {s}]
          /\ \/ inbox' = Append(inbox, s) /\ UNCHANGED <<lost, faults>>
             \/ Fault /\ lost' = lost \cup {s} /\ UNCHANGED inbox
    BY <1>2, PushFacts
  <2>2. /\ consumer'.next = s + 1 /\ consumer'.unacked = consumer.unacked \cup {s}
        /\ consumer'.again = consumer.again
    BY <1>0, <2>1 DEF Consumers
  <2>3. consumer' \in Consumers
    <3>1. s + 1 \in Nat \ {0} /\ consumer.unacked \cup {s} \in SUBSET Nat
      BY <1>0, <2>1 DEF Consumers
    <3> QED
      BY <1>0, <2>1, <3>1, Shapes
  <2>4. UNCHANGED <<stream, proc, stop, cancelled, result, handler, req, client, watches, panic>>
    BY <1>2 DEF Push, clientVars
  <2>5. inbox' \in Seq(Nat) /\ \A j \in 1 .. Len(inbox') : inbox'[j] \in Seqs \cup {0}
    <3>1. \A j \in 1 .. Len(inbox) : inbox[j] \in Seqs \cup {0}
      BY DEF Typed, Numbers
    <3>2. CASE inbox' = Append(inbox, s)
      <4>1. /\ inbox' \in Seq(Nat) /\ Len(inbox') = Len(inbox) + 1 /\ Len(inbox) \in Nat
            /\ inbox'[Len(inbox) + 1] = s /\ \A j \in 1 .. Len(inbox) : inbox'[j] = inbox[j]
        BY <1>0, <2>1, <3>2, AppendFacts
      <4> QED
        BY <2>1, <3>1, <4>1, SMTT(40)
    <3> QED
      BY <1>0, <2>1, <3>1, <3>2
  <2>6. lost' \subseteq Seqs /\ lost' \in SUBSET Nat /\ faults' \in 0 .. MaxFaults
    BY <1>0, <2>1, SMTT(40) DEF Fault, Typed, WatchType, Numbers
  <2>7. WatchType'
    BY <2>3, <2>4, <2>5, <2>6 DEF Typed, WatchType
  <2>8. /\ consumer'.next \in 1 .. Len(stream) + 1
        /\ \A u \in consumer'.unacked : u \in Seqs /\ u < consumer'.next
    <3>1. s \in Nat /\ s <= Len(stream) /\ s < s + 1
      BY <1>0, <2>1
    <3>2. consumer.next \in Nat
      BY <1>0, Shapes
    <3>3. \A u \in consumer.unacked : u \in Seqs /\ u < consumer.next
      BY DEF Typed, Numbers
    <3>4. \A u \in consumer.unacked : u < s + 1
      BY <1>0, <2>1, <3>1, <3>2, <3>3
    <3>5. s + 1 \in 1 .. Len(stream) + 1
      BY <1>0, <3>1
    <3> QED
      BY <2>1, <2>2, <3>1, <3>3, <3>4, <3>5
  <2>9. Numbers'
    BY <2>2, <2>4, <2>5, <2>6, <2>8 DEF Typed, Numbers, Seqs
  <2> QED
    BY <2>7, <2>9 DEF Typed
<1>3. ASSUME NEW s \in Nat, s = 0 \/ s \in consumer.again,
             PushControl \/ PushAgain(s), inbox' = Append(inbox, s)
      PROVE  Typed'
  <2>1. s \in Seqs \cup {0}
    BY <1>0, <1>3 DEF PushAgain, Typed, Numbers
  <2>2. /\ inbox' \in Seq(Nat) /\ Len(inbox') = Len(inbox) + 1 /\ Len(inbox) \in Nat
        /\ inbox'[Len(inbox) + 1] = s /\ \A j \in 1 .. Len(inbox) : inbox'[j] = inbox[j]
    BY <1>0, <1>3, AppendFacts
  <2>3. \A j \in 1 .. Len(inbox') : inbox'[j] \in Seqs \cup {0}
    BY <2>1, <2>2, SMTT(40) DEF Typed, Numbers
  <2>4. /\ consumer' \in Consumers /\ consumer'.next = consumer.next
        /\ consumer'.unacked = consumer.unacked /\ consumer'.again \subseteq consumer.again
    BY <1>0, <1>3 DEF PushAgain, PushControl, Consumers
  <2>5. UNCHANGED <<stream, lost, proc, stop, cancelled, result, handler, req, client, watches,
                    panic, faults>>
    BY <1>3 DEF PushAgain, PushControl, clientVars
  <2>6. WatchType'
    BY <2>2, <2>4, <2>5 DEF Typed, WatchType
  <2>7. Numbers'
    BY <2>3, <2>4, <2>5 DEF Typed, Numbers, Seqs
  <2> QED
    BY <2>6, <2>7 DEF Typed
<1>4. CASE ConsumerExpires
  <2>1. consumer' \in Consumers
    BY <1>4, Shapes DEF ConsumerExpires
  <2>2. WatchType'
    BY <1>4, <2>1 DEF ConsumerExpires, Typed, WatchType, clientVars
  <2>3. Numbers'
    BY <1>0, <1>4 DEF ConsumerExpires, NoConsumer, Typed, Numbers, Seqs, clientVars
  <2> QED
    BY <2>2, <2>3 DEF Typed
<1>5. ASSUME NEW s \in 1 .. MaxPublished, AckWaitExpires(s) PROVE Typed'
  <2>1. /\ consumer' \in Consumers /\ consumer'.next = consumer.next
        /\ consumer'.unacked = consumer.unacked /\ consumer'.again = consumer.again \cup {s}
    BY <1>0, <1>5 DEF AckWaitExpires, Consumers
  <2>2. s \in consumer.unacked /\ faults' \in 0 .. MaxFaults
    BY <1>5 DEF AckWaitExpires, Fault, Typed, WatchType
  <2>3. UNCHANGED <<stream, inbox, lost, proc, stop, cancelled, result, handler, req, client,
                    watches, panic>>
    BY <1>5 DEF AckWaitExpires, clientVars
  <2>4. WatchType'
    BY <2>1, <2>2, <2>3 DEF Typed, WatchType
  <2>5. Numbers'
    BY <2>1, <2>2, <2>3 DEF Typed, Numbers, Seqs
  <2> QED
    BY <2>4, <2>5 DEF Typed
<1>6. CASE PushControl
  BY <1>3, <1>6 DEF PushControl
<1>7. ASSUME NEW s \in 1 .. MaxPublished, PushAgain(s) PROVE Typed'
  BY <1>3, <1>7 DEF PushAgain
<1> QED
  BY <1>1, <1>2, <1>4, <1>5, <1>6, <1>7 DEF JetStream

LEMMA StepTyped == Typed /\ [Next]_vars => Typed'
<1> SUFFICES ASSUME Typed, [Next]_vars PROVE Typed'
  OBVIOUS
<1>1. CASE Restart
  <2>1. proc' \in Procs /\ proc'.at = "done"
    BY <1>1, Shapes DEF Restart
  <2>2. WatchType'
    BY <1>1, <2>1, Bounds DEF Restart, Fault, Typed, WatchType, natsVars, clientVars
  <2>3. Numbers'
    BY <1>1, <2>1 DEF Restart, Typed, Numbers, Seqs, natsVars, clientVars
  <2> QED
    BY <2>2, <2>3 DEF Typed
<1>2. CASE UNCHANGED vars
  BY <1>2 DEF vars, natsVars, clientVars, Typed, WatchType, Numbers, Seqs
<1> QED
  BY <1>1, <1>2, ServerTyped, JetStreamTyped DEF Next

LEMMA TypedImplies == Typed => TypeOK
<1> SUFFICES ASSUME Typed PROVE TypeOK
  OBVIOUS
<1>1. /\ Len(stream) \in Nat /\ Seqs = 1 .. Len(stream) /\ Len(stream) <= MaxPublished
      /\ Len(inbox) \in Nat /\ Len(result) \in Nat
  BY DEF Typed, WatchType, Numbers, Seqs
<1>2. Range(inbox) \subseteq Seqs \cup {0} /\ Range(result) \subseteq Seqs
  BY <1>1, SMTT(40) DEF Typed, WatchType, Numbers, Range
<1>3. consumer.next \in 1 .. MaxPublished + 1 /\ client.from \in 1 .. MaxPublished + 1
  BY <1>1, Bounds DEF Typed, Numbers
<1>4. proc.at \in {"top", "parse", "blocked", "defer", "done"}
  BY DEF Typed, WatchType, Procs
<1>5. {consumer.on, consumer.stalled, cancelled} \subseteq BOOLEAN
  BY Shapes DEF Typed, WatchType
<1> QED
  BY <1>2, <1>3, <1>4, <1>5 DEF Typed, WatchType, Numbers, TypeOK

\* A consumer of the watch API starts at a sequence number the stream can have
\* and redelivers only what is unacknowledged; no goroutine, channel or client
\* ever holds the number of a message that is not in the stream; resultChan
\* never exceeds its capacity.
THEOREM WatchTyped == Spec => []TypeOK
<1>1. Spec => []Typed
  BY InitTyped, StepTyped, PTL DEF Spec
<1> QED
  BY <1>1, TypedImplies, PTL

-----------------------------------------------------------------------------
(* What is due to the client.                                              *)

Due == {s \in Seqs : /\ s >= client.from /\ s \notin client.seen \cup lost
                     /\ Wanted(stream[s]) /\ Routable(stream[s])}

\* The message processMessages is at.
Cur == IF proc.at \in {"parse", "blocked"} THEN {proc.seq} ELSE {}

\* Whatever is due and pushed is on its way, unacknowledged until it is in
\* resultChan.
Held(due, next, unacked, cur, res, box) ==
  \A s \in due : s < next =>
    \/ \E j \in 1 .. Len(res) : res[j] = s
    \/ s \in unacked /\ (s \in cur \/ \E j \in 1 .. Len(box) : box[j] = s)

\* Whatever is due is before every later message: nothing overtakes it.
Ordered(due, cur, res, box) ==
  \A s \in due :
    /\ \A j \in 1 .. Len(res) : s < res[j] => \E i \in 1 .. Len(res) : i < j /\ res[i] = s
    /\ \A t \in cur : s < t => \E i \in 1 .. Len(res) : res[i] = s
    /\ \A j \in 1 .. Len(box) : s < box[j] =>
         \/ \E i \in 1 .. Len(res) : res[i] = s
         \/ s \in cur
         \/ \E i \in 1 .. Len(box) : i < j /\ box[i] = s

\* A watch that is served has not begun to stop; one that is set up has no
\* goroutine yet; a client has a resourceVersion once it has seen something.
Control ==
  /\ handler = "serving" =>
       stop = "no" /\ ~cancelled /\ proc.at \in {"top", "parse", "blocked"}
  /\ handler = "adding" => proc.at = "done" /\ inbox = <<>> /\ consumer.unacked = {}
  /\ client.rv = 0 => client.seen = {}
  /\ client.rv # 0 => client.rv \in client.seen

InFlight ==
  /\ \A s \in Due, t \in client.seen : t < s
  /\ handler = "adding" => \A s \in Due : consumer.next <= s
  /\ handler = "serving" =>
       /\ Held(Due, consumer.next, consumer.unacked, Cur, result, inbox)
       /\ Ordered(Due, Cur, result, inbox)

\* With fewer messages due, or acknowledgements of what is not due, the
\* invariants stay.
LEMMA FewerDue ==
  ASSUME NEW due, NEW d2, d2 \subseteq due, NEW next, NEW un, NEW u2, NEW cur,
         NEW res, NEW box, \A s \in d2 : s \in un => s \in u2
  PROVE  /\ Held(due, next, un, cur, res, box) => Held(d2, next, u2, cur, res, box)
         /\ Ordered(due, cur, res, box) => Ordered(d2, cur, res, box)
<1>1. Held(due, next, un, cur, res, box) => Held(d2, next, u2, cur, res, box)
  BY Zenon DEF Held
<1>2. Ordered(due, cur, res, box) => Ordered(d2, cur, res, box)
  BY Zenon DEF Ordered
<1> QED
  BY <1>1, <1>2

\* A pushed message goes to the end of the inbox: a fresh one, before which
\* nothing is due that is not pushed, or one that is pushed again.
LEMMA Pushed ==
  ASSUME NEW due, due \subseteq Nat, NEW n1 \in Nat, NEW n2 \in Nat, NEW un, NEW cur,
         NEW res \in Seq(Nat), NEW box \in Seq(Nat), NEW t \in Nat,
         NEW b2, b2 = Append(box, t),
         Held(due, n1, un, cur, res, box), Ordered(due, cur, res, box),
         \A s \in due : s < t => s < n1,
         \A s \in due : s < n2 /\ ~(s < n1) => s = t
  PROVE  Held(due, n2, un \cup {t}, cur, res, b2) /\ Ordered(due, cur, res, b2)
<1>1. /\ b2 \in Seq(Nat) /\ Len(b2) = Len(box) + 1 /\ Len(box) \in Nat
      /\ b2[Len(box) + 1] = t /\ \A j \in 1 .. Len(box) : b2[j] = box[j]
  BY AppendFacts
<1>2. \A s : (\E j \in 1 .. Len(box) : box[j] = s) => \E j \in 1 .. Len(b2) : b2[j] = s
  BY <1>1
<1>3. \E j \in 1 .. Len(b2) : b2[j] = t
  BY <1>1
<1>4. Held(due, n2, un \cup {t}, cur, res, b2)
  <2> SUFFICES ASSUME NEW s \in due, s < n2
               PROVE  \/ \E j \in 1 .. Len(res) : res[j] = s
                      \/ s \in un \cup {t} /\ (s \in cur \/ \E j \in 1 .. Len(b2) : b2[j] = s)
    BY DEF Held
  <2>1. CASE s < n1
    BY <1>2, <2>1, Zenon DEF Held
  <2>2. CASE ~(s < n1)
    BY <1>3, <2>2
  <2> QED
    BY <2>1, <2>2
<1>5. Ordered(due, cur, res, b2)
  <2> SUFFICES ASSUME NEW s \in due, NEW j \in 1 .. Len(b2), s < b2[j]
               PROVE  \/ \E i \in 1 .. Len(res) : res[i] = s
                      \/ s \in cur
                      \/ \E i \in 1 .. Len(b2) : i < j /\ b2[i] = s
    BY Zenon DEF Ordered
  <2>1. CASE j \in 1 .. Len(box)
    <3>1. s < box[j]
      BY <1>1, <2>1
    <3>2. \/ \E i \in 1 .. Len(res) : res[i] = s
          \/ s \in cur
          \/ \E i \in 1 .. Len(box) : i < j /\ box[i] = s
      BY <2>1, <3>1, Zenon DEF Ordered
    <3> QED
      BY <1>1, <3>2
  <2>2. CASE j = Len(box) + 1
    <3>1. s < n1
      BY <1>1, <2>2
    <3>2. \/ \E i \in 1 .. Len(res) : res[i] = s
          \/ s \in cur
          \/ \E i \in 1 .. Len(box) : box[i] = s
      BY <3>1, Zenon DEF Held
    <3> QED
      BY <1>1, <2>2, <3>2, SMTT(40)
  <2> QED
    BY <1>1, <2>1, <2>2
<1> QED
  BY <1>4, <1>5

\* The head of the inbox is taken up, or dropped when it is not due.
LEMMA Taken ==
  ASSUME NEW due, due \subseteq Nat, NEW next, NEW un,
         NEW res \in Seq(Nat), NEW box \in Seq(Nat), box # <<>>,
         NEW b2, b2 = Tail(box), NEW c2, \A t \in c2 : t = Head(box),
         Head(box) \in due => Head(box) \in c2,
         Held(due, next, un, {}, res, box), Ordered(due, {}, res, box)
  PROVE  Held(due, next, un, c2, res, b2) /\ Ordered(due, c2, res, b2)
<1>1. /\ b2 \in Seq(Nat) /\ Len(b2) = Len(box) - 1 /\ Len(box) \in Nat \ {0}
      /\ Head(box) = box[1] /\ Head(box) \in Nat
      /\ \A j \in 1 .. Len(b2) : b2[j] = box[j + 1]
  BY TailFacts
<1>2. ASSUME NEW s \in due, NEW i \in 1 .. Len(box), box[i] = s
      PROVE  s \in c2 \/ (i - 1 \in 1 .. Len(b2) /\ b2[i - 1] = s)
  BY <1>1, <1>2
<1>3. Held(due, next, un, c2, res, b2)
  <2> SUFFICES ASSUME NEW s \in due, s < next
               PROVE  \/ \E j \in 1 .. Len(res) : res[j] = s
                      \/ s \in un /\ (s \in c2 \/ \E j \in 1 .. Len(b2) : b2[j] = s)
    BY DEF Held
  <2>1. \/ \E j \in 1 .. Len(res) : res[j] = s
        \/ s \in un /\ \E j \in 1 .. Len(box) : box[j] = s
    BY Zenon DEF Held
  <2> QED
    BY <1>2, <2>1
<1>4. Ordered(due, c2, res, b2)
  <2>1. ASSUME NEW s \in due, NEW t \in c2, s < t
        PROVE  \E i \in 1 .. Len(res) : res[i] = s
    <3>1. t = box[1] /\ 1 \in 1 .. Len(box)
      BY <1>1
    <3>2. \/ \E i \in 1 .. Len(res) : res[i] = s
          \/ \E i \in 1 .. Len(box) : i < 1 /\ box[i] = s
      BY <2>1, <3>1, Zenon DEF Ordered
    <3> QED
      BY <1>1, <3>2
  <2>2. ASSUME NEW s \in due, NEW j \in 1 .. Len(b2), s < b2[j]
        PROVE  \/ \E i \in 1 .. Len(res) : res[i] = s
               \/ s \in c2
               \/ \E i \in 1 .. Len(b2) : i < j /\ b2[i] = s
    <3>1. j + 1 \in 1 .. Len(box) /\ s < box[j + 1]
      BY <1>1, <2>2
    <3>2. \/ \E i \in 1 .. Len(res) : res[i] = s
          \/ \E i \in 1 .. Len(box) : i < j + 1 /\ box[i] = s
      BY <3>1, Zenon DEF Ordered
    <3>3. CASE \E i \in 1 .. Len(box) : i < j + 1 /\ box[i] = s
      <4>1. PICK i \in 1 .. Len(box) : i < j + 1 /\ box[i] = s
        BY <3>3
      <4>2. s \in c2 \/ (i - 1 \in 1 .. Len(b2) /\ b2[i - 1] = s)
        BY <1>2, <4>1
      <4> QED
        <5>1. i - 1 < j
          BY <4>1
        <5> QED
          BY <4>2, <5>1
    <3> QED
      BY <3>2, <3>3
  <2> QED
    BY <2>1, <2>2, Zenon DEF Ordered
<1> QED
  BY <1>3, <1>4

\* The message at hand is done with when it is not due.
LEMMA Dropped ==
  ASSUME NEW due, NEW next, NEW un, NEW t, t \notin due, NEW res, NEW box,
         Held(due, next, un, {t}, res, box), Ordered(due, {t}, res, box)
  PROVE  Held(due, next, un, {}, res, box) /\ Ordered(due, {}, res, box)
<1>1. Held(due, next, un, {}, res, box)
  BY Zenon DEF Held
<1>2. Ordered(due, {}, res, box)
  BY Zenon DEF Ordered
<1> QED
  BY <1>1, <1>2

\* The message at hand is sent, and acknowledged.
LEMMA Sent ==
  ASSUME NEW due, due \subseteq Nat, NEW next, NEW un, NEW t \in Nat,
         NEW res \in Seq(Nat), NEW box \in Seq(Nat), NEW r2, r2 = Append(res, t),
         Held(due, next, un, {t}, res, box), Ordered(due, {t}, res, box)
  PROVE  Held(due, next, un \ {t}, {}, r2, box) /\ Ordered(due, {}, r2, box)
<1>1. /\ r2 \in Seq(Nat) /\ Len(r2) = Len(res) + 1 /\ Len(res) \in Nat
      /\ r2[Len(res) + 1] = t /\ \A j \in 1 .. Len(res) : r2[j] = res[j]
  BY AppendFacts
<1>2. \A s : (s = t \/ \E j \in 1 .. Len(res) : res[j] = s) => \E j \in 1 .. Len(r2) : r2[j] = s
  BY <1>1
<1>3. Held(due, next, un \ {t}, {}, r2, box)
  <2> SUFFICES ASSUME NEW s \in due, s < next
               PROVE  \/ \E j \in 1 .. Len(r2) : r2[j] = s
                      \/ s \in un \ {t} /\ \E j \in 1 .. Len(box) : box[j] = s
    BY Zenon DEF Held
  <2>1. \/ \E j \in 1 .. Len(res) : res[j] = s
        \/ s \in un /\ (s = t \/ \E j \in 1 .. Len(box) : box[j] = s)
    BY Zenon DEF Held
  <2> QED
    BY <1>2, <2>1, Zenon
<1>4. Ordered(due, {}, r2, box)
  <2>1. ASSUME NEW s \in due, NEW j \in 1 .. Len(r2), s < r2[j]
        PROVE  \E i \in 1 .. Len(r2) : i < j /\ r2[i] = s
    <3>1. CASE j \in 1 .. Len(res)
      <4>1. s < res[j]
        BY <1>1, <2>1, <3>1
      <4>2. \E i \in 1 .. Len(res) : i < j /\ res[i] = s
        BY <3>1, <4>1, Zenon DEF Ordered
      <4> QED
        BY <1>1, <4>2
    <3>2. CASE j = Len(res) + 1
      <4>1. \E i \in 1 .. Len(res) : res[i] = s
        BY <1>1, <2>1, <3>2 DEF Ordered
      <4> QED
        BY <1>1, <3>2, <4>1
    <3> QED
      BY <1>1, <3>1, <3>2
  <2>2. ASSUME NEW s \in due, NEW j \in 1 .. Len(box), s < box[j]
        PROVE  \/ \E i \in 1 .. Len(r2) : r2[i] = s
               \/ \E i \in 1 .. Len(box) : i < j /\ box[i] = s
    <3>1. \/ s = t \/ \E i \in 1 .. Len(res) : res[i] = s
          \/ \E i \in 1 .. Len(box) : i < j /\ box[i] = s
      BY <2>2, Zenon DEF Ordered
    <3> QED
      BY <1>2, <3>1, Zenon
  <2> QED
    BY <2>1, <2>2, Zenon DEF Ordered
<1> QED
  BY <1>3, <1>4

\* The client gets the head of resultChan: nothing that is still due is older.
LEMMA Served ==
  ASSUME NEW due, due \subseteq Nat, NEW next, NEW un, NEW cur,
         NEW res \in Seq(Nat), res # <<>>, NEW box, NEW r2, r2 = Tail(res),
         NEW d2, d2 = due \ {Head(res)},
         Held(due, next, un, cur, res, box), Ordered(due, cur, res, box)
  PROVE  /\ Held(d2, next, un, cur, r2, box) /\ Ordered(d2, cur, r2, box)
         /\ \A s \in d2 : Head(res) < s
<1>1. /\ r2 \in Seq(Nat) /\ Len(r2) = Len(res) - 1 /\ Len(res) \in Nat \ {0}
      /\ Head(res) = res[1] /\ Head(res) \in Nat
      /\ \A j \in 1 .. Len(r2) : r2[j] = res[j + 1]
  BY TailFacts
<1>2. ASSUME NEW s \in d2, NEW i \in 1 .. Len(res), res[i] = s
      PROVE  i - 1 \in 1 .. Len(r2) /\ r2[i - 1] = s
  BY <1>1, <1>2
<1>3. ASSUME NEW s \in d2, \E i \in 1 .. Len(res) : res[i] = s
      PROVE  \E i \in 1 .. Len(r2) : r2[i] = s
  BY <1>2, <1>3, Zenon
<1>4. Held(d2, next, un, cur, r2, box)
  BY <1>3, Zenon DEF Held
<1>5. ASSUME NEW s \in d2, NEW j \in 1 .. Len(r2), s < r2[j]
      PROVE  \E i \in 1 .. Len(r2) : i < j /\ r2[i] = s
  <2>1. j + 1 \in 1 .. Len(res) /\ s < res[j + 1] /\ s \in due
    BY <1>1, <1>5
  <2>2. PICK i \in 1 .. Len(res) : i < j + 1 /\ res[i] = s
    BY <2>1, Zenon DEF Ordered
  <2>3. i - 1 \in 1 .. Len(r2) /\ r2[i - 1] = s
    BY <1>2, <2>2
  <2> QED
    BY <1>1, <2>2, <2>3, SMTT(40)
<1>6. Ordered(d2, cur, r2, box)
  BY <1>3, <1>5, Zenon DEF Ordered
<1>7. ASSUME NEW s \in d2 PROVE Head(res) < s
  <2>1. 1 \in 1 .. Len(res) /\ s \in due /\ s # res[1]
    BY <1>1
  <2>2. ~(s < res[1])
    BY <1>1, <2>1 DEF Ordered
  <2> QED
    BY <1>1, <2>1, <2>2
<1> QED
  BY <1>4, <1>6, <1>7

-----------------------------------------------------------------------------
(* Subjects: what is due passes the subject filter and matchesFilter.      *)

\* Tokens of subjects: names, and the literals of the code.
Literals == {"activities", "platform", "_", "core", "audit", "name", "events", "k8s",
             "normalized", "*", ">"}
Tokens == STRING \cup Literals

\* Tuples and concatenation, by index.
LEMMA Tuple1 ==
  ASSUME NEW a \in Tokens
  PROVE  <<a>> \in Seq(Tokens) /\ Len(<<a>>) = 1 /\ <<a>>[1] = a
OBVIOUS

LEMMA Tuple2 ==
  ASSUME NEW a \in Tokens, NEW b \in Tokens
  PROVE  /\ <<a, b>> \in Seq(Tokens) /\ Len(<<a, b>>) = 2
         /\ <<a, b>>[1] = a /\ <<a, b>>[2] = b
OBVIOUS

LEMMA Tuple3 ==
  ASSUME NEW a \in Tokens, NEW b \in Tokens, NEW c \in Tokens
  PROVE  /\ <<a, b, c>> \in Seq(Tokens) /\ Len(<<a, b, c>>) = 3
         /\ <<a, b, c>>[1] = a /\ <<a, b, c>>[2] = b /\ <<a, b, c>>[3] = c
OBVIOUS

LEMMA Tuple4 ==
  ASSUME NEW a \in Tokens, NEW b \in Tokens, NEW c \in Tokens, NEW d \in Tokens
  PROVE  /\ <<a, b, c, d>> \in Seq(Tokens) /\ Len(<<a, b, c, d>>) = 4
         /\ <<a, b, c, d>>[1] = a /\ <<a, b, c, d>>[2] = b
         /\ <<a, b, c, d>>[3] = c /\ <<a, b, c, d>>[4] = d
OBVIOUS

LEMMA Joined ==
  ASSUME NEW a \in Seq(Tokens), NEW b \in Seq(Tokens)
  PROVE  /\ a \o b \in Seq(Tokens) /\ Len(a \o b) = Len(a) + Len(b)
         /\ Len(a) \in Nat /\ Len(b) \in Nat
         /\ \A k \in 1 .. Len(a) : (a \o b)[k] = a[k]
         /\ \A k \in 1 .. Len(b) : (a \o b)[Len(a) + k] = b[k]
OBVIOUS

LEMMA LiteralTokens ==
  /\ "activities" \in Tokens /\ "platform" \in Tokens /\ "_" \in Tokens /\ "core" \in Tokens
  /\ "audit" \in Tokens /\ "name" \in Tokens /\ "events" \in Tokens /\ "k8s" \in Tokens
  /\ "normalized" \in Tokens /\ "*" \in Tokens /\ ">" \in Tokens
BY DEF Tokens, Literals

GroupTokens(i) == IF i.group = <<>> THEN <<"core">> ELSE i.group
NsToken(i) == IF i.ns = Unset THEN "_" ELSE i.ns
TenantTokens(i) == IF i.tenant = <<>> THEN <<"platform", "_">> ELSE i.tenant

\* The token the watcher puts in place of the API group.
GroupToken(r) ==
  LET f == WatchFilter(r)
  IN IF Len(f.group) > 1 THEN <<"normalized">>
     ELSE IF f.group = <<>> THEN <<"*">> ELSE f.group

LEMMA Fields ==
  /\ \A i \in Items : /\ i \in Item /\ i.tenant \in Seq(Tokens) /\ i.group \in Seq(Tokens)
                      /\ Len(i.tenant) \in {0, 2} /\ i.kind \in Tokens /\ i.ns \in Tokens
                      /\ i.resource \in {"activity", "event"}
  /\ \A r \in Requests : /\ r.scope \in Seq(Tokens) /\ Len(r.scope) \in {0, 2}
                         /\ r.group \in Seq(Tokens)
<1>1. Items \subseteq Item /\ \A i \in Items : Len(i.tenant) \in {0, 2}
  BY WatchAssumption, Zenon
<1>2. Requests \subseteq Request /\ \A r \in Requests : Len(r.scope) \in {0, 2}
  BY WatchAssumption, Zenon
<1>3. \A s \in Seq(STRING) : s \in Seq(Tokens)
  BY DEF Tokens
<1>4. \A s \in STRING : s \in Tokens
  BY DEF Tokens
<1>5. /\ \A i \in Item : /\ i.tenant \in Seq(STRING) /\ i.group \in Seq(STRING)
                        /\ i.kind \in STRING /\ i.ns \in STRING
                        /\ i.resource \in {"activity", "event"}
      /\ \A r \in Request : r.scope \in Seq(STRING) /\ r.group \in Seq(STRING)
  BY DEF Item, Request
<1> HIDE DEF Tokens
<1> QED
  BY <1>1, <1>2, <1>3, <1>4, <1>5

LEMMA TenantFacts ==
  ASSUME NEW i \in Items
  PROVE  /\ TenantTokens(i) \in Seq(Tokens) /\ Len(TenantTokens(i)) = 2
         /\ i.tenant # <<>> => TenantTokens(i) = i.tenant
<1>1. i.tenant \in Seq(Tokens) /\ Len(i.tenant) \in {0, 2}
  BY Fields
<1>2. CASE i.tenant = <<>>
  <2>1. TenantTokens(i) = <<"platform", "_">>
    BY <1>2, Zenon DEF TenantTokens
  <2> QED
    <3>1. "platform" \in Tokens /\ "_" \in Tokens
      BY LiteralTokens
    <3>2. <<"platform", "_">> \in Seq(Tokens) /\ Len(<<"platform", "_">>) = 2
      BY <3>1, Tuple2, Zenon
    <3> QED
      BY <1>2, <2>1, <3>2, Zenon
<1>3. CASE i.tenant # <<>>
  BY <1>1, <1>3 DEF TenantTokens
<1> QED
  BY <1>2, <1>3

LEMMA GroupFacts ==
  ASSUME NEW i \in Items
  PROVE  /\ GroupTokens(i) \in Seq(Tokens) /\ Len(GroupTokens(i)) \in Nat \ {0}
         /\ Len(i.group) = 1 => GroupTokens(i) = i.group
<1>1. i.group \in Seq(Tokens)
  BY Fields
<1>2. CASE i.group = <<>>
  <2>1. GroupTokens(i) = <<"core">>
    BY <1>2, Zenon DEF GroupTokens
  <2>2. GroupTokens(i) \in Seq(Tokens) /\ Len(GroupTokens(i)) = 1
    BY <2>1, LiteralTokens, Tuple1, Zenon
  <2>3. Len(i.group) = 0
    BY <1>2
  <2> QED
    BY <2>2, <2>3
<1>3. CASE i.group # <<>>
  BY <1>1, <1>3 DEF GroupTokens
<1> QED
  BY <1>2, <1>3

\* Where the tokens of an activity's subject are.
LEMMA ActivityTokens ==
  ASSUME NEW i \in Items, NEW g, g = Len(GroupTokens(i)), NEW sub, sub = ActivitySubject(i)
  PROVE  /\ Len(sub) = g + 7 /\ g \in Nat \ {0}
         /\ sub[1] = "activities" /\ sub[2] = TenantTokens(i)[1] /\ sub[3] = TenantTokens(i)[2]
         /\ sub[4] = GroupTokens(i)[1]
         /\ g = 1 => sub[6] = i.kind /\ sub[7] = NsToken(i)
<1>1. sub = <<"activities">> \o TenantTokens(i) \o GroupTokens(i)
              \o <<"audit", i.kind, NsToken(i), "name">>
  BY Zenon DEF ActivitySubject, TenantTokens, GroupTokens, NsToken
<1>2. i.kind \in Tokens /\ NsToken(i) \in Tokens
  <2>1. i.kind \in Tokens /\ i.ns \in Tokens
    BY Fields
  <2>2. NsToken(i) \in {"_", i.ns}
    BY Zenon DEF NsToken
  <2> QED
    BY <2>1, <2>2, LiteralTokens
<1>3. g \in Nat \ {0} /\ GroupTokens(i) \in Seq(Tokens)
  BY GroupFacts
<1>4. TenantTokens(i) \in Seq(Tokens) /\ Len(TenantTokens(i)) = 2
  BY TenantFacts
<1> DEFINE a == <<"activities">> \o TenantTokens(i)
           b == a \o GroupTokens(i)
           c == <<"audit", i.kind, NsToken(i), "name">>
<1>5. a \in Seq(Tokens) /\ Len(a) = 3 /\ a[1] = "activities" /\ a[2] = TenantTokens(i)[1]
      /\ a[3] = TenantTokens(i)[2]
  <2> DEFINE l == <<"activities">>
  <2>1. l \in Seq(Tokens) /\ Len(l) = 1 /\ l[1] = "activities"
    BY LiteralTokens, Tuple1, Zenon
  <2> HIDE DEF l
  <2>2. a = l \o TenantTokens(i)
    BY DEF l
  <2>3. /\ a \in Seq(Tokens) /\ Len(a) = Len(l) + Len(TenantTokens(i))
        /\ \A k \in 1 .. Len(l) : a[k] = l[k]
        /\ \A k \in 1 .. Len(TenantTokens(i)) : a[Len(l) + k] = TenantTokens(i)[k]
    <3> HIDE DEF a
    <3> QED
      BY <1>4, <2>1, <2>2, Joined, Zenon
  <2> HIDE DEF a
  <2>4. a[1] = l[1] /\ a[1 + 1] = TenantTokens(i)[1] /\ a[1 + 2] = TenantTokens(i)[2]
    BY <1>4, <2>1, <2>3
  <2> QED
    BY <1>4, <2>1, <2>3, <2>4
<1>6. c \in Seq(Tokens) /\ Len(c) = 4 /\ c[2] = i.kind /\ c[3] = NsToken(i)
  BY <1>2, LiteralTokens, Tuple4, Zenon
<1> HIDE DEF a
<1>7. b \in Seq(Tokens) /\ Len(b) = 3 + g /\ b[1] = a[1] /\ b[2] = a[2] /\ b[3] = a[3]
      /\ b[4] = GroupTokens(i)[1]
  <2>1. /\ b \in Seq(Tokens) /\ Len(b) = Len(a) + g
        /\ \A k \in 1 .. Len(a) : b[k] = a[k]
        /\ \A k \in 1 .. g : b[Len(a) + k] = GroupTokens(i)[k]
    BY <1>3, <1>5, Joined, Zenon
  <2> HIDE DEF b
  <2>2. b[1] = a[1] /\ b[2] = a[2] /\ b[3] = a[3] /\ b[3 + 1] = GroupTokens(i)[1]
    BY <1>3, <1>5, <2>1
  <2> QED
    BY <1>5, <2>1, <2>2
<1> HIDE DEF b, c
<1>8. sub = b \o c
  BY <1>1 DEF a, b, c
<1>9. /\ Len(sub) = Len(b) + Len(c) /\ \A k \in 1 .. Len(b) : sub[k] = b[k]
      /\ \A k \in 1 .. Len(c) : sub[Len(b) + k] = c[k]
  <2>1. b \in Seq(Tokens) /\ c \in Seq(Tokens)
    BY <1>6, <1>7
  <2> QED
    <3>1. /\ Len(b \o c) = Len(b) + Len(c) /\ \A k \in 1 .. Len(b) : (b \o c)[k] = b[k]
          /\ \A k \in 1 .. Len(c) : (b \o c)[Len(b) + k] = c[k]
      BY <2>1, Joined, Zenon
    <3> QED
      BY <1>8, <3>1, Zenon
<1>10. /\ sub[1] = b[1] /\ sub[2] = b[2] /\ sub[3] = b[3] /\ sub[4] = b[4]
  BY <1>3, <1>7, <1>9
<1>11. g = 1 => sub[6] = c[2] /\ sub[7] = c[3]
  BY <1>3, <1>6, <1>7, <1>9
<1>12. Len(sub) = g + 7
  BY <1>3, <1>6, <1>7, <1>9
<1> QED
  BY <1>3, <1>5, <1>6, <1>7, <1>10, <1>11, <1>12

\* What the registry makes of a request for activities.
LEMMA FilterFacts ==
  ASSUME NEW r \in Requests, NEW f, f = WatchFilter(r)
  PROVE  /\ f.group \in {<<>>, r.group} /\ f.group \in Seq(Tokens)
         /\ Token(f.kind) \in Tokens /\ Token(f.ns) \in Tokens
<1>1. /\ r \in Request /\ r.group \in Seq(Tokens)
  BY Fields, WatchAssumption, Zenon
<1>2. /\ f.kind = r.kind /\ f.group \in {<<>>, r.group} /\ f.ns \in {Unset, r.path}
  BY <1>1 DEF WatchFilter, RunWatchSelectors, Request
<1>3. r.kind \in STRING /\ r.path \in STRING
  BY <1>1 DEF Request
<1>4. \A s \in STRING : s \in Tokens
  BY DEF Tokens
<1>5. Token(f.kind) \in Tokens /\ Token(f.ns) \in Tokens
  BY <1>2, <1>3, <1>4, LiteralTokens DEF Token
<1>6. <<>> \in Seq(Tokens)
  OBVIOUS
<1> QED
  BY <1>1, <1>2, <1>5, <1>6

LEMMA GroupTokenFacts ==
  ASSUME NEW r \in Requests, NEW f, f = WatchFilter(r), NEW t, t = GroupToken(r)
  PROVE  /\ t \in Seq(Tokens) /\ Len(t) = 1
         /\ f.group = <<>> => t[1] = "*"
         /\ Len(f.group) = 1 => t = f.group
         /\ Len(f.group) > 1 => t[1] = "normalized"
<1>1. f.group \in Seq(Tokens) /\ Len(f.group) \in Nat
  <2>1. f.group \in Seq(Tokens)
    BY FilterFacts
  <2> QED
    BY <2>1
<1>2. t = IF Len(f.group) > 1 THEN <<"normalized">> ELSE IF f.group = <<>> THEN <<"*">> ELSE f.group
  BY DEF GroupToken
<1>3. /\ <<"*">> \in Seq(Tokens) /\ Len(<<"*">>) = 1 /\ <<"*">>[1] = "*"
      /\ <<"normalized">> \in Seq(Tokens) /\ Len(<<"normalized">>) = 1
      /\ <<"normalized">>[1] = "normalized"
  BY LiteralTokens, Tuple1, Zenon
<1>4. f.group = <<>> <=> Len(f.group) = 0
  BY <1>1
<1>5. CASE Len(f.group) > 1
  <2>1. t = <<"normalized">> /\ f.group # <<>> /\ Len(f.group) # 1
    <3>1. \A n \in Nat : n > 1 => n # 0 /\ n # 1
      OBVIOUS
    <3>2. Len(f.group) # 0 /\ Len(f.group) # 1
      BY <1>1, <1>5, <3>1, Zenon
    <3> QED
      BY <1>2, <1>4, <1>5, <3>2, Zenon
  <2> QED
    BY <1>3, <1>5, <2>1, Zenon
<1>6. CASE Len(f.group) = 0
  <2>1. t = <<"*">> /\ Len(f.group) # 1 /\ ~(Len(f.group) > 1)
    BY <1>1, <1>2, <1>4, <1>6
  <2> QED
    BY <1>3, <1>6, <2>1, Zenon
<1>7. CASE Len(f.group) = 1
  <2>1. t = f.group /\ f.group # <<>> /\ ~(Len(f.group) > 1)
    BY <1>1, <1>2, <1>4, <1>7
  <2> QED
    BY <1>1, <1>7, <2>1, Zenon
<1>8. \A n \in Nat : n > 1 \/ n = 0 \/ n = 1
  OBVIOUS
<1> QED
  BY <1>1, <1>5, <1>6, <1>7, <1>8, Zenon

\* Where the tokens of the watcher's subject are.
LEMMA PatternTokens ==
  ASSUME NEW r \in Requests, r.scope # <<>>, NEW pat, pat = BuildSubject(r),
         NEW f, f = WatchFilter(r)
  PROVE  /\ pat \in Seq(Tokens) /\ Len(pat) = 8 /\ pat[1] = "activities"
         /\ pat[2] = r.scope[1] /\ pat[3] = r.scope[2] /\ pat[4] = GroupToken(r)[1]
         /\ pat[5] = "*" /\ pat[6] = Token(f.kind) /\ pat[7] = Token(f.ns) /\ pat[8] = ">"
<1> DEFINE l == <<"activities">>
           a == l \o r.scope
           b == a \o GroupToken(r)
           c == <<"*", Token(f.kind), Token(f.ns), ">">>
<1>1. pat = b \o c
  BY DEF BuildSubject, GroupToken
<1>2. r.scope \in Seq(Tokens) /\ Len(r.scope) = 2
  <2>1. r.scope \in Seq(Tokens) /\ Len(r.scope) \in {0, 2}
    BY Fields
  <2> QED
    BY <2>1
<1>3. GroupToken(r) \in Seq(Tokens) /\ Len(GroupToken(r)) = 1
  BY GroupTokenFacts
<1>4. Token(f.kind) \in Tokens /\ Token(f.ns) \in Tokens
  BY FilterFacts
<1>5. l \in Seq(Tokens) /\ Len(l) = 1 /\ l[1] = "activities"
  BY LiteralTokens, Tuple1, Zenon
<1>6. /\ c \in Seq(Tokens) /\ Len(c) = 4 /\ c[1] = "*" /\ c[2] = Token(f.kind)
      /\ c[3] = Token(f.ns) /\ c[4] = ">"
  <2>1. "*" \in Tokens /\ ">" \in Tokens
    BY LiteralTokens
  <2> QED
    BY <1>4, <2>1, Tuple4, Zenon
<1> HIDE DEF l, c
<1>7. /\ a \in Seq(Tokens) /\ Len(a) = Len(l) + Len(r.scope)
      /\ \A k \in 1 .. Len(l) : a[k] = l[k]
      /\ \A k \in 1 .. Len(r.scope) : a[Len(l) + k] = r.scope[k]
  <2>1. l \in Seq(Tokens) /\ r.scope \in Seq(Tokens)
    BY <1>2, <1>5
  <2> QED
    BY <2>1, Joined, Zenon
<1> HIDE DEF a
<1>8. Len(a) = 3 /\ a[1] = "activities" /\ a[1 + 1] = r.scope[1] /\ a[1 + 2] = r.scope[2]
  BY <1>2, <1>5, <1>7
<1>9. /\ b \in Seq(Tokens) /\ Len(b) = Len(a) + Len(GroupToken(r))
      /\ \A k \in 1 .. Len(a) : b[k] = a[k]
      /\ \A k \in 1 .. Len(GroupToken(r)) : b[Len(a) + k] = GroupToken(r)[k]
  <2>1. a \in Seq(Tokens) /\ GroupToken(r) \in Seq(Tokens)
    BY <1>3, <1>7
  <2> QED
    BY <2>1, Joined, Zenon
<1> HIDE DEF b
<1>10. /\ Len(b) = 4 /\ b[1] = a[1] /\ b[2] = a[2] /\ b[3] = a[3]
       /\ b[3 + 1] = GroupToken(r)[1]
  BY <1>3, <1>8, <1>9
<1>11. /\ b \o c \in Seq(Tokens) /\ Len(b \o c) = Len(b) + Len(c)
       /\ \A k \in 1 .. Len(b) : (b \o c)[k] = b[k]
       /\ \A k \in 1 .. Len(c) : (b \o c)[Len(b) + k] = c[k]
  <2>1. b \in Seq(Tokens) /\ c \in Seq(Tokens)
    BY <1>6, <1>9
  <2> QED
    BY <2>1, Joined, Zenon
<1>12. /\ pat \in Seq(Tokens) /\ Len(pat) = Len(b) + Len(c)
       /\ \A k \in 1 .. Len(b) : pat[k] = b[k]
       /\ \A k \in 1 .. Len(c) : pat[Len(b) + k] = c[k]
  BY <1>1, <1>11, Zenon
<1>13. /\ Len(pat) = 8 /\ pat[1] = b[1] /\ pat[2] = b[2] /\ pat[3] = b[3] /\ pat[4] = b[4]
       /\ pat[4 + 1] = c[1] /\ pat[4 + 2] = c[2] /\ pat[4 + 3] = c[3] /\ pat[4 + 4] = c[4]
  BY <1>6, <1>10, <1>12
<1> QED
  BY <1>6, <1>8, <1>10, <1>12, <1>13

\* An activity that is wanted and routable passes the watcher's subject.
LEMMA ActivityRouted ==
  ASSUME Typed, req.resource = "activity", NEW i \in Items, i.resource = "activity",
         Wanted(i), Routable(i)
  PROVE  SubjectMatches(FilterSubject(req), Subject(i))
<1> DEFINE f == WatchFilter(req)
           pat == BuildSubject(req)
           sub == ActivitySubject(i)
           g == Len(GroupTokens(i))
<1>1. req \in Requests
  BY DEF Typed, WatchType
<1>2. /\ Len(sub) = g + 7 /\ g \in Nat \ {0}
      /\ sub[1] = "activities" /\ sub[2] = TenantTokens(i)[1] /\ sub[3] = TenantTokens(i)[2]
      /\ sub[4] = GroupTokens(i)[1]
      /\ g = 1 => sub[6] = i.kind /\ sub[7] = NsToken(i)
  BY ActivityTokens, ZenonT(60)
<1>3. FilterSubject(req) = pat /\ Subject(i) = sub
  BY Zenon DEF FilterSubject, Subject
<1>4. Filter = f
  BY Zenon DEF Filter
<1>5. /\ req.scope = <<>> \/ i.tenant = req.scope
      /\ f.group \in {<<>>, i.group} /\ f.kind \in {Unset, i.kind} /\ f.ns \in {Unset, i.ns}
  BY <1>4, Zenon DEF Wanted, InScope
<1>6. \/ f.group = <<>> /\ f.kind = Unset /\ f.ns = Unset
      \/ req.scope # <<>> /\ Len(i.group) = 1
  <2>1. i.resource # "event"
    OBVIOUS
  <2> QED
    BY <1>4, <2>1, Zenon DEF Routable
<1> HIDE DEF f, pat, sub, g
<1>7. CASE req.scope = <<>>
  <2>1. pat = <<"activities", ">">>
    BY <1>7, Zenon DEF pat, BuildSubject
  <2>2. pat[1] = "activities" /\ pat[2] = ">" /\ Len(pat) = 2
    <3>1. "activities" \in Tokens /\ ">" \in Tokens
      BY LiteralTokens
    <3> QED
      BY <2>1, <3>1, Tuple2, Zenon
  <2>3. Last(pat) = ">"
    BY <2>2 DEF Last
  <2>4. Len(sub) >= Len(pat)
    BY <1>2, <2>2
  <2>5. \A k \in 1 .. Len(pat) : pat[k] \in {"*", ">", sub[k]}
    BY <1>2, <2>2
  <2> QED
    BY <1>3, <2>3, <2>4, <2>5 DEF SubjectMatches
<1>8. CASE req.scope # <<>>
  <2>1. /\ Len(pat) = 8 /\ pat[1] = "activities"
        /\ pat[2] = req.scope[1] /\ pat[3] = req.scope[2] /\ pat[4] = GroupToken(req)[1]
        /\ pat[5] = "*" /\ pat[6] = Token(f.kind) /\ pat[7] = Token(f.ns) /\ pat[8] = ">"
    BY <1>1, <1>8, PatternTokens DEF pat, f
  <2>2. TenantTokens(i) = req.scope
    BY <1>5, <1>8, TenantFacts
  <2>3. pat[4] \in {"*", sub[4]}
    <3>1. CASE f.group = <<>>
      BY <1>1, <2>1, <3>1, GroupTokenFacts DEF f
    <3>2. CASE f.group # <<>>
      <4>1. f.group = i.group /\ Len(i.group) = 1
        BY <1>5, <1>6, <3>2
      <4>2. GroupTokens(i) = i.group
        BY <4>1, GroupFacts
      <4>3. Len(f.group) = 1 => GroupToken(req) = f.group
        BY <1>1, GroupTokenFacts DEF f
      <4>4. GroupToken(req) = f.group
        BY <4>1, <4>3
      <4> QED
        BY <1>2, <2>1, <4>1, <4>2, <4>4
    <3> QED
      BY <3>1, <3>2
  <2>4. (pat[6] = "*" \/ (g = 1 /\ pat[6] = i.kind)) /\ (pat[7] = "*" \/ (g = 1 /\ pat[7] = NsToken(i)))
    <3>1. CASE f.kind = Unset /\ f.ns = Unset
      BY <2>1, <3>1 DEF Token
    <3>2. CASE ~(f.kind = Unset /\ f.ns = Unset)
      <4>1. Len(i.group) = 1
        BY <1>6, <3>2
      <4>2. g = 1
        BY <4>1, GroupFacts DEF g
      <4>3. pat[6] \in {"*", i.kind}
        BY <1>5, <2>1 DEF Token
      <4>4. pat[7] \in {"*", NsToken(i)}
        BY <1>5, <2>1 DEF Token, NsToken
      <4> QED
        BY <4>2, <4>3, <4>4
    <3> QED
      BY <3>1, <3>2
  <2>5. pat[6] \in {"*", sub[6]} /\ pat[7] \in {"*", sub[7]}
    BY <1>2, <2>4
  <2>6. \A k \in 1 .. 8 : pat[k] \in {"*", ">", sub[k]}
    BY <1>2, <2>1, <2>2, <2>3, <2>5
  <2>7. Last(pat) = ">"
    BY <2>1 DEF Last
  <2>8. Len(sub) >= Len(pat)
    BY <1>2, <2>1
  <2> QED
    BY <1>3, <2>1, <2>6, <2>7, <2>8 DEF SubjectMatches
<1> QED
  BY <1>7, <1>8

LEMMA EventRouted ==
  ASSUME Typed, req.resource # "activity", NEW i \in Items, i.resource = "event",
         Wanted(i), Routable(i)
  PROVE  SubjectMatches(FilterSubject(req), Subject(i))
<1> DEFINE pat == BuildEventsSubject(req)
           sub == EventSubject(i)
<1>1. FilterSubject(req) = pat /\ Subject(i) = sub
  <2>1. i.resource # "activity"
    OBVIOUS
  <2> QED
    BY <2>1, Zenon DEF FilterSubject, Subject
<1>2. req.scope = <<>>
  BY Zenon DEF Routable
<1>3. pat = <<"events", "k8s", ">">>
  BY <1>2, Zenon DEF BuildEventsSubject
<1>4. sub = <<"events", "k8s", i.ns>>
  BY DEF EventSubject
<1>5. i.ns \in Tokens /\ "events" \in Tokens /\ "k8s" \in Tokens /\ ">" \in Tokens
  BY Fields, LiteralTokens
<1> HIDE DEF pat, sub
<1>6. Len(pat) = 3 /\ pat[1] = "events" /\ pat[2] = "k8s" /\ pat[3] = ">"
  BY <1>3, <1>5, Tuple3, Zenon
<1>7. Len(sub) = 3 /\ sub[1] = "events" /\ sub[2] = "k8s"
  BY <1>4, <1>5, Tuple3, Zenon
<1>8. \A k \in 1 .. Len(pat) : pat[k] \in {"*", ">", sub[k]}
  BY <1>6, <1>7
<1>9. Last(pat) = ">" /\ Len(sub) >= Len(pat)
  BY <1>6, <1>7 DEF Last
<1> QED
  BY <1>1, <1>8, <1>9 DEF SubjectMatches

\* What is due to the client is pushed by the broker and sent by
\* processMessages: it is JSON, and the subject and matchesFilter let it pass.
LEMMA DueRouted ==
  ASSUME Typed, NEW s \in Due
  PROVE  /\ s \in Seqs /\ s \in Nat
         /\ SubjectMatches(FilterSubject(req), Subject(stream[s]))
         /\ stream[s].ok /\ Matches(stream[s])
<1> DEFINE i == stream[s]
<1>1. s \in Seqs /\ s \in Nat /\ i \in Items /\ i.resource = req.resource
      /\ Wanted(i) /\ Routable(i)
  BY DEF Due, Seqs, Typed, WatchType, Numbers
<1>2. i.resource \in {"activity", "event"}
  BY <1>1, Fields
<1> HIDE DEF i
<1>3. SubjectMatches(FilterSubject(req), Subject(i))
  <2>1. CASE i.resource = "activity"
    BY <1>1, <2>1, ActivityRouted
  <2>2. CASE i.resource = "event"
    <3>1. req.resource # "activity"
      BY <1>1, <2>2
    <3> QED
      BY <1>1, <2>2, <3>1, EventRouted
  <2> QED
    BY <1>2, <2>1, <2>2
<1>4. i.ok /\ Matches(i)
  <2>1. i.ok /\ Filter.source \in {Unset, i.source}
    BY <1>1, Zenon DEF Wanted
  <2>2. CASE i.resource = "activity"
    <3>1. Filter = WatchFilter(req)
      BY <1>1, <2>2, Zenon DEF Filter
    <3> QED
      BY <2>1, <2>2, <3>1, Zenon DEF Matches, MatchesFilter
  <2>3. CASE i.resource = "event"
    <3>1. i.resource # "activity"
      BY <2>3
    <3>2. Filter = EventsWatchFilter(req)
      BY <1>1, <3>1, Zenon DEF Filter
    <3> QED
      BY <2>1, <3>1, <3>2, Zenon DEF Matches, MatchesEventsFilter
  <2> QED
    BY <1>2, <2>2, <2>3
<1> QED
  BY <1>1, <1>3, <1>4 DEF i

-----------------------------------------------------------------------------
(* The control of a watch.                                                 *)

LEMMA InitControl == Init => Control
BY DEF Init, Control

LEMMA StepControl == Typed /\ Control /\ [Next]_vars => Control'
<1> SUFFICES ASSUME Typed, Control, [Next]_vars PROVE Control'
  OBVIOUS
<1>0. client \in Clients /\ consumer \in Consumers
  BY DEF Typed, WatchType
<1>1. CASE Restart
  BY <1>1 DEF Restart, Control, natsVars, clientVars
<1>2. CASE AddConsumer
  <2>1. consumer'.unacked = {} /\ client'.rv = client.rv /\ client'.seen = client.seen
    BY <1>0, <1>2 DEF AddConsumer, NoConsumer, Clients
  <2> QED
    BY <1>2, <2>1 DEF AddConsumer, Control
<1>3. CASE Subscribe \/ SubscribeFails
  BY <1>3 DEF Subscribe, SubscribeFails, Control, natsVars, clientVars
<1>4. CASE SeeCancel \/ RespondControl \/ NextMsg
  BY <1>4 DEF SeeCancel, RespondControl, NextMsg, Control, natsVars, clientVars
<1>5. CASE Skip
  <2>1. proc.at # "done"
    BY <1>5 DEF Skip
  <2> QED
    BY <1>5, <2>1 DEF Skip, Control, clientVars
<1>6. CASE Send
  <2>1. proc.at = "parse" /\ proc'.at \in {"top", "defer", "blocked"}
        /\ (~cancelled /\ stop # "closed" => proc'.at \in {"top", "blocked"})
    BY <1>6 DEF Send, Sending, Typed, WatchType, Procs
  <2> QED
    BY <1>6, <2>1 DEF Send, Control, clientVars
<1>7. CASE WakeUp
  <2>1. proc.at = "blocked" /\ proc'.at \in {"top", "defer"} /\ (~cancelled => proc'.at = "top")
    BY <1>7 DEF WakeUp
  <2> QED
    BY <1>7, <2>1 DEF WakeUp, Control, clientVars
<1>8. ASSUME NEW who \in {"handler", "proc"}, StopBegins(who) PROVE Control'
  <2>1. handler # "serving" /\ handler' # "serving"
    BY <1>8 DEF StopBegins, Control
  <2>2. UNCHANGED <<consumer, inbox, client>> /\ (handler' = "adding" => handler = "adding")
        /\ proc' \in {proc, [at |-> "done"]}
    BY <1>8 DEF StopBegins, natsVars, clientVars
  <2> QED
    BY <2>1, <2>2 DEF Control
<1>9. CASE StopDeletes
  BY <1>9 DEF StopDeletes, NoConsumer, Control, clientVars
<1>10. CASE StopCancels \/ StopCloses
  BY <1>10 DEF StopCancels, StopCloses, Control, natsVars, clientVars
<1>11. CASE Serve
  <2>1. /\ client'.rv = Head(result) /\ client'.seen = client.seen \cup {Head(result)}
    BY <1>0, <1>11 DEF Serve, Clients
  <2>2. Head(result) # 0
    <3>1. Len(result) \in Nat \ {0} /\ Head(result) = result[1]
      BY <1>11, TailFacts DEF Serve, Typed, WatchType
    <3>2. result[1] \in Seqs
      BY <3>1 DEF Typed, Numbers
    <3> QED
      BY <3>1, <3>2 DEF Seqs
  <2> QED
    BY <1>11, <2>1, <2>2 DEF Serve, Control, natsVars
<1>12. CASE RequestEnds \/ HandlerStops
  BY <1>12 DEF RequestEnds, HandlerStops, Control, natsVars, clientVars
<1>13. ASSUME NEW i \in Items, Publish(i) PROVE Control'
  BY <1>13 DEF Publish, Control, clientVars
<1>14. CASE Push
  <2>1. handler # "adding"
    BY <1>14 DEF Push, Pushing, Subscribed
  <2> QED
    BY <1>14, <2>1 DEF Push, Control, clientVars
<1>15. CASE PushControl \/ ConsumerExpires
  BY <1>15 DEF PushControl, ConsumerExpires, Pushing, Subscribed, Control, clientVars
<1>16. ASSUME NEW s \in 1 .. MaxPublished, PushAgain(s) \/ AckWaitExpires(s) PROVE Control'
  <2>1. s \in consumer.unacked
    BY <1>16 DEF PushAgain, AckWaitExpires, Typed, Numbers
  <2> QED
    BY <1>16, <2>1 DEF PushAgain, AckWaitExpires, Control, clientVars
<1>17. CASE UNCHANGED vars
  BY <1>17 DEF vars, natsVars, clientVars, Control
<1> QED
  BY <1>1, <1>2, <1>3, <1>4, <1>5, <1>6, <1>7, <1>8, <1>9, <1>10, <1>11, <1>12, <1>13, <1>14, <1>15,
     <1>16, <1>17 DEF Next, Server, Process, Stop, JetStream

-----------------------------------------------------------------------------
(* Nothing that is due is lost on its way.                                 *)

LEMMA DueNat == Typed => Due \subseteq Nat /\ Due \subseteq Seqs
BY DEF Due, Seqs, Typed, WatchType

\* What is due changes with the stream, the client and the lost pushes only.
LEMMA WantedKept ==
  ASSUME NEW s, req' = req, stream'[s] = stream[s]
  PROVE  /\ Wanted(stream[s])' <=> Wanted(stream[s])
         /\ Routable(stream[s])' <=> Routable(stream[s])
BY DEF Wanted, Routable, InScope, Filter

LEMMA DueSame ==
  ASSUME UNCHANGED <<req, stream, client, lost>>
  PROVE  Due' = Due
BY WantedKept DEF Due, Seqs

LEMMA DueLost ==
  ASSUME UNCHANGED <<req, stream, client>>, NEW s, lost' = lost \cup {s}
  PROVE  Due' = Due \ {s}
BY WantedKept DEF Due, Seqs

LEMMA DueServed ==
  ASSUME UNCHANGED <<req, stream, lost>>, NEW h, client'.from = client.from,
         client'.seen = client.seen \cup {h}
  PROVE  Due' = Due \ {h}
BY WantedKept DEF Due, Seqs

LEMMA DueGrows ==
  ASSUME Typed, NEW i \in Items, Publish(i)
  PROVE  Due' \subseteq Due \cup {Len(stream) + 1}
<1>1. /\ Len(stream') = Len(stream) + 1 /\ Len(stream) \in Nat
      /\ \A s \in Seqs : stream'[s] = stream[s]
  BY PublishFacts
<1>2. UNCHANGED <<req, client, lost>>
  BY DEF Publish, clientVars
<1>3. ASSUME NEW s \in Due', s # Len(stream) + 1 PROVE s \in Due
  <2>1. s \in Seqs
    BY <1>1, <1>3 DEF Due, Seqs
  <2> QED
    BY <1>1, <1>2, <1>3, <2>1, WantedKept DEF Due
<1> QED
  BY <1>3

LEMMA InitInFlight == Init => InFlight
<1> SUFFICES ASSUME Init PROVE InFlight
  OBVIOUS
<1>1. Due = {}
  BY DEF Init, Due, Seqs
<1> QED
  BY <1>1 DEF Init, InFlight

LEMMA ServerInFlight ==
  ASSUME Typed, Control, InFlight, Server
  PROVE  InFlight'
<1>0. Due \subseteq Nat /\ Due \subseteq Seqs
  BY DueNat
<1>t. /\ result \in Seq(Nat) /\ inbox \in Seq(Nat) /\ consumer \in Consumers /\ client \in Clients
      /\ consumer.next \in Nat /\ client.rv \in Nat /\ Len(stream) \in Nat
      /\ Seqs = 1 .. Len(stream)
  <2>1. /\ result \in Seq(Nat) /\ inbox \in Seq(Nat) /\ consumer \in Consumers
        /\ client \in Clients /\ stream \in Seq(Items)
    BY DEF Typed, WatchType
  <2>2. consumer.next \in Nat /\ client.rv \in Nat
    BY <2>1 DEF Consumers, Clients
  <2> QED
    BY <2>1, <2>2 DEF Seqs
<1>a. /\ \A s \in Due, t \in client.seen : t < s
      /\ handler = "adding" => \A s \in Due : consumer.next <= s
      /\ handler = "serving" =>
           /\ Held(Due, consumer.next, consumer.unacked, Cur, result, inbox)
           /\ Ordered(Due, Cur, result, inbox)
  BY DEF InFlight
<1>1. CASE AddConsumer
  <2>1. /\ UNCHANGED <<req, stream>> /\ client'.seen = client.seen /\ handler' = "adding"
        /\ client.rv > 0 => UNCHANGED <<client, lost>> /\ consumer'.next = client.rv
        /\ ~(client.rv > 0) => client'.from = Len(stream) + 1
    BY <1>1, <1>t DEF AddConsumer, NoConsumer, Clients
  <2>2. CASE client.rv > 0
    <3>1. Due' = Due
      BY <2>1, <2>2, DueSame
    <3>2. client.rv \in client.seen
      BY <1>t, <2>2 DEF Control
    <3>3. \A s \in Due : client.rv < s
      BY <1>a, <3>2
    <3>4. \A s \in Due : client.rv <= s
      BY <1>0, <1>t, <3>3
    <3> QED
      BY <1>a, <2>1, <2>2, <3>1, <3>4 DEF InFlight
  <2>3. CASE ~(client.rv > 0)
    <3>1. Due' = {}
      BY <1>t, <2>1, <2>3 DEF Due, Seqs
    <3> QED
      BY <2>1, <3>1 DEF InFlight
  <2> QED
    BY <2>2, <2>3
<1>2. CASE Subscribe
  <2>1. /\ UNCHANGED <<req, stream, client, lost, consumer, inbox>> /\ result' = <<>>
        /\ handler' = "serving" /\ proc'.at = "top" /\ handler = "adding"
    BY <1>2 DEF Subscribe, natsVars, clientVars
  <2>2. Due' = Due /\ Cur' = {} /\ inbox = <<>>
    BY <2>1, DueSame DEF Cur, Control
  <2>3. \A s \in Due : ~(s < consumer.next)
    BY <1>0, <1>t, <1>a, <2>1
  <2>4. Held(Due, consumer.next, consumer.unacked, {}, <<>>, <<>>)
    BY <2>3, Zenon DEF Held
  <2>5. Ordered(Due, {}, <<>>, <<>>)
    BY DEF Ordered
  <2> QED
    BY <1>a, <2>1, <2>2, <2>4, <2>5 DEF InFlight
<1>3. ASSUME handler' \notin {"adding", "serving"}, UNCHANGED <<req, stream, client, lost>>
      PROVE  InFlight'
  <2>1. Due' = Due
    BY <1>3, DueSame
  <2> QED
    BY <1>3, <1>a, <2>1 DEF InFlight
<1>4. CASE SubscribeFails \/ RequestEnds \/ HandlerStops
  BY <1>3, <1>4 DEF SubscribeFails, RequestEnds, HandlerStops, natsVars, clientVars
<1>5. ASSUME SeeCancel \/ Stop PROVE InFlight'
  <2>1. CASE SeeCancel
    <3>1. handler # "serving" /\ handler # "adding" /\ handler' = handler
      BY <2>1 DEF SeeCancel, Control
    <3> QED
      BY <1>3, <2>1, <3>1 DEF SeeCancel, natsVars, clientVars
  <2>2. ASSUME NEW who \in {"handler", "proc"}, StopBegins(who) PROVE InFlight'
    <3>1. handler # "serving" /\ handler # "adding" /\ handler' \in {handler, "gone"}
      BY <2>2 DEF StopBegins, Control
    <3> QED
      BY <1>3, <2>2, <3>1 DEF StopBegins, natsVars, clientVars
  <2>3. CASE StopDeletes \/ StopCancels \/ StopCloses
    <3>1. handler # "serving" /\ handler' = handler /\ UNCHANGED <<req, stream, client, lost>>
      BY <2>3 DEF StopDeletes, StopCancels, StopCloses, Control, natsVars, clientVars
    <3>2. CASE handler = "adding"
      <4>1. Due' = Due
        BY <3>1, DueSame
      <4>2. consumer' \in {consumer, NoConsumer}
        BY <2>3 DEF StopDeletes, StopCancels, StopCloses, natsVars
      <4>3. \A s \in Due : 1 <= s
        BY <1>0, <1>t
      <4>4. \A s \in Due : consumer'.next <= s
        BY <1>a, <3>2, <4>2, <4>3 DEF NoConsumer
      <4> QED
        BY <1>a, <3>1, <3>2, <4>1, <4>4 DEF InFlight
    <3> QED
      BY <1>3, <3>1, <3>2
  <2> QED
    BY <1>5, <2>1, <2>2, <2>3 DEF Stop
<1>6. ASSUME UNCHANGED <<req, stream, client, lost, handler>>, proc.at # "done",
             handler = "serving" =>
               /\ Held(Due, consumer'.next, consumer'.unacked, Cur', result', inbox')
               /\ Ordered(Due, Cur', result', inbox')
      PROVE  InFlight'
  <2>1. Due' = Due
    BY <1>6, DueSame
  <2>2. handler # "adding"
    BY <1>6 DEF Control
  <2> QED
    BY <1>6, <1>a, <2>1, <2>2, Zenon DEF InFlight
<1>7. CASE RespondControl \/ NextMsg
  <2>1. /\ UNCHANGED <<req, stream, client, lost, handler, result>> /\ proc.at = "top"
        /\ inbox # <<>> /\ inbox' = Tail(inbox)
        /\ consumer'.next = consumer.next /\ consumer'.unacked = consumer.unacked
    BY <1>7, <1>t DEF RespondControl, NextMsg, clientVars, Consumers
  <2>2. Cur = {} /\ Cur' \in {{}, {Head(inbox)}} /\ (Head(inbox) # 0 => Cur' = {Head(inbox)})
    BY <1>7, <2>1 DEF RespondControl, NextMsg, Cur
  <2>3. Head(inbox) \in Due => Cur' = {Head(inbox)}
    BY <1>0, <1>t, <2>2
  <2>4. ASSUME handler = "serving"
        PROVE  /\ Held(Due, consumer.next, consumer.unacked, Cur', result, inbox')
               /\ Ordered(Due, Cur', result, inbox')
    <3>1. /\ Held(Due, consumer.next, consumer.unacked, {}, result, inbox)
          /\ Ordered(Due, {}, result, inbox)
      BY <1>a, <2>2, <2>4
    <3>2. PICK c2 : c2 = Cur'
      OBVIOUS
    <3>3. PICK b2 : b2 = inbox'
      OBVIOUS
    <3>4. (\A t \in c2 : t = Head(inbox)) /\ (Head(inbox) \in Due => Head(inbox) \in c2)
      BY <2>2, <2>3, <3>2
    <3>5. /\ Held(Due, consumer.next, consumer.unacked, c2, result, b2)
          /\ Ordered(Due, c2, result, b2)
      <4>1. Due \subseteq Nat /\ result \in Seq(Nat) /\ inbox \in Seq(Nat) /\ inbox # <<>>
            /\ b2 = Tail(inbox)
        BY <1>0, <1>t, <2>1, <3>3
      <4> QED
        BY <3>1, <3>4, <4>1, Taken, Zenon
    <3> QED
      BY <3>2, <3>3, <3>5
  <2>5. proc.at # "done"
    BY <2>1
  <2> QED
    BY <1>6, <2>1, <2>4, <2>5
<1>8. CASE Skip
  <2>1. /\ UNCHANGED <<req, stream, client, lost, handler, result, inbox>> /\ proc.at = "parse"
        /\ proc'.at = "top" /\ ~(stream[proc.seq].ok /\ Matches(stream[proc.seq]))
        /\ consumer' \in {Acked(proc.seq), Naked(proc.seq)}
    BY <1>8 DEF Skip, clientVars
  <2>2. Cur = {proc.seq} /\ Cur' = {}
    BY <2>1 DEF Cur
  <2>3. proc.seq \notin Due
    BY <2>1, DueRouted
  <2>4. /\ consumer'.next = consumer.next
        /\ \A s \in Due : s \in consumer.unacked => s \in consumer'.unacked
    BY <1>t, <2>1, <2>3 DEF Acked, Naked, Consumers
  <2>5. ASSUME handler = "serving"
        PROVE  /\ Held(Due, consumer.next, consumer'.unacked, {}, result, inbox)
               /\ Ordered(Due, {}, result, inbox)
    <3>1. /\ Held(Due, consumer.next, consumer.unacked, {proc.seq}, result, inbox)
          /\ Ordered(Due, {proc.seq}, result, inbox)
      BY <1>a, <2>2, <2>5
    <3>2. /\ Held(Due, consumer.next, consumer.unacked, {}, result, inbox)
          /\ Ordered(Due, {}, result, inbox)
      BY <2>3, <3>1, Dropped
    <3>3. PICK u2 : u2 = consumer'.unacked
      OBVIOUS
    <3>4. Held(Due, consumer.next, u2, {}, result, inbox)
      BY <2>4, <3>2, <3>3, FewerDue
    <3> QED
      BY <3>2, <3>3, <3>4
  <2>6. proc.at # "done"
    BY <2>1
  <2> QED
    BY <1>6, <2>1, <2>2, <2>4, <2>5, <2>6
<1>9. ASSUME Send \/ WakeUp PROVE InFlight'
  <2>1. /\ UNCHANGED <<req, stream, client, lost, handler, inbox>>
        /\ proc.at \in {"parse", "blocked"} /\ proc.at # "done"
    BY <1>9 DEF Send, Sending, WakeUp, clientVars
  <2>2. Cur = {proc.seq} /\ proc.seq \in Nat
    BY <1>t, <2>1 DEF Cur, Typed, Numbers
  <2>3. CASE /\ result' = Append(result, proc.seq) /\ consumer' = Acked(proc.seq)
             /\ proc' = [at |-> "top"]
    <3>1. Cur' = {} /\ consumer'.next = consumer.next
          /\ consumer'.unacked = consumer.unacked \ {proc.seq}
      BY <1>t, <2>3 DEF Cur, Acked, Consumers
    <3>2. ASSUME handler = "serving"
          PROVE  /\ Held(Due, consumer.next, consumer.unacked \ {proc.seq}, {}, result', inbox)
                 /\ Ordered(Due, {}, result', inbox)
      <4>1. /\ Held(Due, consumer.next, consumer.unacked, {proc.seq}, result, inbox)
            /\ Ordered(Due, {proc.seq}, result, inbox)
        BY <1>a, <2>2, <3>2
      <4>2. PICK r2 : r2 = result'
        OBVIOUS
      <4>3. /\ Held(Due, consumer.next, consumer.unacked \ {proc.seq}, {}, r2, inbox)
            /\ Ordered(Due, {}, r2, inbox)
        BY <1>0, <1>t, <2>2, <2>3, <4>1, <4>2, Sent
      <4> QED
        BY <4>2, <4>3
    <3> QED
      BY <1>6, <2>1, <3>1, <3>2
  <2>4. CASE UNCHANGED <<result, consumer>> /\ proc'.at = "blocked" /\ proc'.seq = proc.seq
    <3>1. Cur' = Cur
      BY <2>2, <2>4 DEF Cur
    <3> QED
      BY <1>6, <1>a, <2>1, <2>4, <3>1
  <2>5. CASE handler # "serving"
    BY <1>6, <2>1, <2>5
  <2>6. ASSUME handler = "serving"
        PROVE  \/ /\ result' = Append(result, proc.seq) /\ consumer' = Acked(proc.seq)
                  /\ proc' = [at |-> "top"]
               \/ UNCHANGED <<result, consumer>> /\ proc'.at = "blocked" /\ proc'.seq = proc.seq
    <3>1. ~cancelled /\ stop # "closed"
      BY <2>6 DEF Control
    <3> QED
      BY <1>9, <3>1 DEF Send, Sending, WakeUp, Typed, WatchType, Procs
  <2> QED
    BY <2>3, <2>4, <2>5, <2>6
<1>10. CASE Serve
  <2>1. /\ UNCHANGED <<req, stream, lost, consumer, inbox, proc>> /\ handler = "serving"
        /\ handler' = "serving" /\ result # <<>> /\ result' = Tail(result)
        /\ client'.from = client.from /\ client'.seen = client.seen \cup {Head(result)}
    BY <1>10, <1>t DEF Serve, natsVars, Clients
  <2>2. Due' = Due \ {Head(result)} /\ Cur' = Cur
    BY <2>1, DueServed DEF Cur
  <2>3. PICK r2 : r2 = result'
    OBVIOUS
  <2>4. PICK d2 : d2 = Due'
    OBVIOUS
  <2>5. /\ Held(d2, consumer.next, consumer.unacked, Cur, r2, inbox) /\ Ordered(d2, Cur, r2, inbox)
        /\ \A s \in d2 : Head(result) < s
    <3>1. /\ Due \subseteq Nat /\ result \in Seq(Nat) /\ result # <<>> /\ r2 = Tail(result)
          /\ d2 = Due \ {Head(result)}
      BY <1>0, <1>t, <2>1, <2>2, <2>3, <2>4
    <3>2. /\ Held(Due, consumer.next, consumer.unacked, Cur, result, inbox)
          /\ Ordered(Due, Cur, result, inbox)
      BY <1>a, <2>1
    <3> QED
      BY <3>1, <3>2, Served, Zenon
  <2>6. \A s \in Due', t \in client'.seen : t < s
    BY <1>a, <2>1, <2>2, <2>4, <2>5
  <2> QED
    BY <2>1, <2>2, <2>3, <2>4, <2>5, <2>6 DEF InFlight
<1> QED
  BY <1>1, <1>2, <1>4, <1>5, <1>7, <1>8, <1>9, <1>10 DEF Server, Process

LEMMA JetStreamInFlight ==
  ASSUME Typed, Control, InFlight, JetStream
  PROVE  InFlight'
<1>0. Due \subseteq Nat /\ Due \subseteq Seqs
  BY DueNat
<1>t. /\ result \in Seq(Nat) /\ inbox \in Seq(Nat) /\ consumer \in Consumers
      /\ consumer.next \in Nat /\ Len(stream) \in Nat /\ Seqs = 1 .. Len(stream)
      /\ client.seen \subseteq Seqs /\ consumer.next <= Len(stream) + 1
  <2>1. /\ result \in Seq(Nat) /\ inbox \in Seq(Nat) /\ consumer \in Consumers
        /\ stream \in Seq(Items) /\ client.seen \subseteq Seqs
        /\ consumer.next \in 1 .. Len(stream) + 1
    BY DEF Typed, WatchType, Numbers
  <2>2. consumer.next \in Nat
    BY <2>1 DEF Consumers
  <2> QED
    BY <2>1, <2>2 DEF Seqs
<1>a. /\ \A s \in Due, t \in client.seen : t < s
      /\ handler = "adding" => \A s \in Due : consumer.next <= s
      /\ handler = "serving" =>
           /\ Held(Due, consumer.next, consumer.unacked, Cur, result, inbox)
           /\ Ordered(Due, Cur, result, inbox)
  BY DEF InFlight
<1>1. ASSUME NEW i \in Items, Publish(i) PROVE InFlight'
  <2>1. UNCHANGED <<consumer, inbox, proc, result, handler, client>>
    BY <1>1 DEF Publish, clientVars
  <2>2. Due' \subseteq Due \cup {Len(stream) + 1} /\ Cur' = Cur
    BY <1>1, <2>1, DueGrows DEF Cur
  <2>3. PICK d2 : d2 = Due'
    OBVIOUS
  <2>4. \A s \in d2 : s \in Due \/ s = Len(stream) + 1
    BY <2>2, <2>3
  <2>5. \A s \in d2, t \in client.seen : t < s
    BY <1>t, <1>a, <2>4
  <2>6. handler = "adding" => \A s \in d2 : consumer.next <= s
    BY <1>t, <1>a, <2>4
  <2>7. ASSUME handler = "serving"
        PROVE  /\ Held(d2, consumer.next, consumer.unacked, Cur, result, inbox)
               /\ Ordered(d2, Cur, result, inbox)
    <3>1. ~(Len(stream) + 1 < consumer.next)
      BY <1>t
    <3>2. Held(d2, consumer.next, consumer.unacked, Cur, result, inbox)
      BY <1>a, <2>4, <2>7, <3>1, Zenon DEF Held
    <3>3. /\ \A j \in 1 .. Len(result) : ~(Len(stream) + 1 < result[j])
          /\ \A t \in Cur : ~(Len(stream) + 1 < t)
          /\ \A j \in 1 .. Len(inbox) : ~(Len(stream) + 1 < inbox[j])
      <4>1. \A n \in Seqs \cup {0} : ~(Len(stream) + 1 < n)
        BY <1>t
      <4>2. /\ \A j \in 1 .. Len(result) : result[j] \in Seqs \cup {0}
            /\ \A t \in Cur : t \in Seqs \cup {0}
            /\ \A j \in 1 .. Len(inbox) : inbox[j] \in Seqs \cup {0}
        BY DEF Cur, Typed, Numbers
      <4> QED
        BY <4>1, <4>2, Zenon
    <3>4. Ordered(d2, Cur, result, inbox)
      <4>1. Ordered(Due, Cur, result, inbox)
        BY <1>a, <2>7
      <4>2. PICK n : n = Len(stream) + 1
        OBVIOUS
      <4>3. /\ \A j \in 1 .. Len(result) : ~(n < result[j])
            /\ \A t \in Cur : ~(n < t)
            /\ \A j \in 1 .. Len(inbox) : ~(n < inbox[j])
        BY <3>3, <4>2
      <4>4. Ordered({n}, Cur, result, inbox)
        BY <4>3, Zenon DEF Ordered
      <4>5. d2 \subseteq Due \cup {n}
        BY <2>4, <4>2
      <4> QED
        BY <4>1, <4>4, <4>5 DEF Ordered
    <3> QED
      BY <3>2, <3>4
  <2> QED
    BY <2>1, <2>2, <2>3, <2>5, <2>6, <2>7 DEF InFlight
<1>2. ASSUME UNCHANGED <<req, stream, client, lost, handler, proc, result>>,
             handler # "adding", NEW t \in Nat, inbox' = Append(inbox, t),
             NEW n2 \in Nat, consumer'.next = n2,
             \A s \in Due : s < t => s < consumer.next,
             \A s \in Due : s < n2 /\ ~(s < consumer.next) => s = t,
             \A s \in Due : s \in consumer.unacked \cup {t} => s \in consumer'.unacked
      PROVE  InFlight'
  <2>1. Due' = Due /\ Cur' = Cur
    BY <1>2, DueSame DEF Cur
  <2>2. ASSUME handler = "serving"
        PROVE  /\ Held(Due, n2, consumer'.unacked, Cur, result, inbox')
               /\ Ordered(Due, Cur, result, inbox')
    <3>1. PICK b2 : b2 = inbox'
      OBVIOUS
    <3>2. PICK u2 : u2 = consumer'.unacked
      OBVIOUS
    <3>3. /\ Held(Due, consumer.next, consumer.unacked, Cur, result, inbox)
          /\ Ordered(Due, Cur, result, inbox)
      BY <1>a, <2>2
    <3>4. Due \subseteq Nat /\ result \in Seq(Nat) /\ inbox \in Seq(Nat) /\ consumer.next \in Nat
          /\ b2 = Append(inbox, t)
      BY <1>0, <1>t, <1>2, <3>1
    <3>5. /\ Held(Due, n2, consumer.unacked \cup {t}, Cur, result, b2)
          /\ Ordered(Due, Cur, result, b2)
      BY <1>2, <3>3, <3>4, Pushed, Zenon
    <3>6. Held(Due, n2, u2, Cur, result, b2)
      BY <1>2, <3>2, <3>5, FewerDue, Zenon
    <3> QED
      BY <3>1, <3>2, <3>5, <3>6
  <2> QED
    BY <1>2, <1>a, <2>1, <2>2 DEF InFlight
<1>3. CASE Push
  <2>1. PICK t \in NextSeq :
          /\ \A u \in NextSeq : t <= u
          /\ t \in Seqs /\ consumer.next <= t
          /\ consumer' = [consumer EXCEPT !.next = t + 1,
                                          !.unacked = consumer.unacked \cup {t}]
          /\ \/ inbox' = Append(inbox, t) /\ UNCHANGED <<lost, faults>>
             \/ Fault /\ lost' = lost \cup {t} /\ UNCHANGED inbox
    BY <1>3, PushFacts
  <2>2. consumer'.next = t + 1 /\ consumer'.unacked = consumer.unacked \cup {t}
    BY <1>t, <2>1 DEF Consumers
  <2>3. UNCHANGED <<req, stream, client, handler, proc, result>> /\ handler # "adding"
    BY <1>3 DEF Push, Pushing, Subscribed, clientVars
  <2>4. ASSUME NEW s \in Due, ~(s < consumer.next) PROVE t <= s
    <3>1. s \in Seqs /\ s \in Nat /\ SubjectMatches(FilterSubject(req), Subject(stream[s]))
      BY DueRouted
    <3>2. s \in consumer.next .. Len(stream)
      BY <1>t, <2>4, <3>1
    <3>3. s \in NextSeq
      BY <3>1, <3>2 DEF NextSeq
    <3> QED
      BY <2>1, <3>3
  <2>5. t \in Nat /\ t + 1 \in Nat
    BY <1>t, <2>1
  <2>6. /\ \A s \in Due : s < t => s < consumer.next
        /\ \A s \in Due : s < t + 1 /\ ~(s < consumer.next) => s = t
    BY <1>0, <2>4, <2>5
  <2>7. CASE inbox' = Append(inbox, t) /\ UNCHANGED lost
    <3>1. PICK n2 \in Nat : n2 = t + 1
      BY <2>5
    <3>2. consumer'.next = n2 /\ \A s \in Due : s < n2 /\ ~(s < consumer.next) => s = t
      BY <2>2, <2>6, <3>1
    <3>3. \A s \in Due : s \in consumer.unacked \cup {t} => s \in consumer'.unacked
      BY <2>2
    <3>4. UNCHANGED <<req, stream, client, lost, handler, proc, result>>
      BY <2>3, <2>7
    <3> QED
      BY <1>2, <2>3, <2>5, <2>6, <2>7, <3>2, <3>3, <3>4
  <2>8. CASE lost' = lost \cup {t} /\ UNCHANGED inbox
    <3>1. Due' = Due \ {t} /\ Cur' = Cur
      BY <2>3, <2>8, DueLost DEF Cur
    <3>2. PICK d2 : d2 = Due'
      OBVIOUS
    <3>3. ASSUME handler = "serving"
          PROVE  /\ Held(d2, t + 1, consumer'.unacked, Cur, result, inbox)
                 /\ Ordered(d2, Cur, result, inbox)
      <4>1. d2 \subseteq Due
        BY <3>1, <3>2
      <4>2. PICK u2 : u2 = consumer'.unacked
        OBVIOUS
      <4>3. \A s \in d2 : s \in consumer.unacked => s \in u2
        BY <2>2, <4>2
      <4>4. /\ Held(d2, consumer.next, u2, Cur, result, inbox)
            /\ Ordered(d2, Cur, result, inbox)
        BY <1>a, <3>3, <4>1, <4>3, FewerDue
      <4>5. \A s \in d2 : s < t + 1 => s < consumer.next
        BY <2>6, <3>1, <3>2
      <4>6. Held(d2, t + 1, u2, Cur, result, inbox)
        BY <4>4, <4>5, Zenon DEF Held
      <4> QED
        BY <4>2, <4>4, <4>6
    <3>4. \A s \in d2, u \in client.seen : u < s
      BY <1>a, <3>1, <3>2
    <3> QED
      BY <2>2, <2>3, <2>8, <3>1, <3>2, <3>3, <3>4 DEF InFlight
  <2> QED
    BY <2>1, <2>7, <2>8
<1>4. CASE PushControl
  <2>1. /\ UNCHANGED <<req, stream, client, lost, handler, proc, result>>
        /\ handler # "adding" /\ inbox' = Append(inbox, 0)
    BY <1>4 DEF PushControl, Pushing, Subscribed, clientVars
  <2>2. consumer'.next = consumer.next /\ consumer'.unacked = consumer.unacked
    BY <1>4, <1>t DEF PushControl, Consumers
  <2>3. 0 \in Nat /\ \A s \in Due : ~(s < 0) /\ s # 0
    BY <1>0, <1>t
  <2>4. \A s \in Due : s \in consumer.unacked \cup {0} => s \in consumer'.unacked
    BY <2>2, <2>3
  <2> QED
    BY <1>2, <1>t, <2>1, <2>2, <2>3, <2>4
<1>5. ASSUME NEW t \in 1 .. MaxPublished, PushAgain(t) PROVE InFlight'
  <2>1. /\ UNCHANGED <<req, stream, client, lost, handler, proc, result>>
        /\ handler # "adding" /\ inbox' = Append(inbox, t)
    BY <1>5 DEF PushAgain, Pushing, Subscribed, clientVars
  <2>2. consumer'.next = consumer.next /\ consumer'.unacked = consumer.unacked
    BY <1>5, <1>t DEF PushAgain, Consumers
  <2>3. t \in consumer.unacked /\ t < consumer.next /\ t \in Nat
    BY <1>5, Bounds DEF PushAgain, Typed, Numbers
  <2>4. \A s \in Due : s < t => s < consumer.next
    BY <1>0, <1>t, <2>3
  <2>5. \A s \in Due : s \in consumer.unacked \cup {t} => s \in consumer'.unacked
    BY <2>2, <2>3
  <2> QED
    BY <1>2, <1>t, <2>1, <2>2, <2>3, <2>4, <2>5
<1>6. ASSUME NEW t \in 1 .. MaxPublished, AckWaitExpires(t) PROVE InFlight'
  <2>1. UNCHANGED <<req, stream, client, lost, handler, proc, result, inbox>>
    BY <1>6 DEF AckWaitExpires, clientVars
  <2>2. consumer'.next = consumer.next /\ consumer'.unacked = consumer.unacked
    BY <1>6, <1>t DEF AckWaitExpires, Consumers
  <2>3. Due' = Due /\ Cur' = Cur
    BY <2>1, DueSame DEF Cur
  <2> QED
    BY <1>a, <2>1, <2>2, <2>3 DEF InFlight
<1>7. CASE ConsumerExpires
  <2>1. UNCHANGED <<req, stream, client, lost, handler>> /\ handler # "adding" /\ handler # "serving"
    BY <1>7 DEF ConsumerExpires, Subscribed, Control, clientVars
  <2>2. Due' = Due
    BY <2>1, DueSame
  <2> QED
    BY <1>a, <2>1, <2>2 DEF InFlight
<1> QED
  BY <1>1, <1>3, <1>4, <1>5, <1>6, <1>7 DEF JetStream

LEMMA StepInFlight == Typed /\ Control /\ InFlight /\ [Next]_vars => InFlight'
<1> SUFFICES ASSUME Typed, Control, InFlight, [Next]_vars PROVE InFlight'
  OBVIOUS
<1>1. CASE Restart
  <2>1. UNCHANGED <<req, stream, client, lost>> /\ handler' = "gone"
    BY <1>1 DEF Restart, natsVars, clientVars
  <2>2. Due' = Due
    BY <2>1, DueSame
  <2> QED
    BY <2>1, <2>2 DEF InFlight
<1>2. CASE UNCHANGED vars
  <2>1. UNCHANGED <<req, stream, client, lost, handler, proc, result, inbox, consumer>>
    BY <1>2 DEF vars, natsVars, clientVars
  <2>2. Due' = Due /\ Cur' = Cur
    BY <2>1, DueSame DEF Cur
  <2> QED
    BY <2>1, <2>2 DEF InFlight
<1> QED
  BY <1>1, <1>2, ServerInFlight, JetStreamInFlight DEF Next

LEMMA InFlightImplies == Typed /\ Control /\ InFlight => NothingMissed
<1> SUFFICES ASSUME Typed, Control, InFlight, NEW s \in Seqs,
                    s >= client.from, s \notin client.seen \cup lost,
                    Wanted(stream[s]), Routable(stream[s])
             PROVE  /\ \A t \in client.seen : t < s
                    /\ handler = "serving" /\ stop = "no" =>
                         s >= consumer.next \/ s \in consumer.unacked \/ Contains(result, s)
  BY Zenon DEF NothingMissed
<1>1. s \in Due /\ s \in Nat /\ consumer.next \in Nat
  BY DEF Due, Seqs, Typed, WatchType, Consumers
<1>2. \A t \in client.seen : t < s
  BY <1>1 DEF InFlight
<1>3. ASSUME handler = "serving", ~(s >= consumer.next)
      PROVE  s \in consumer.unacked \/ Contains(result, s)
  <2>1. s < consumer.next
    BY <1>1, <1>3
  <2>2. \/ \E j \in 1 .. Len(result) : result[j] = s
        \/ s \in consumer.unacked
    BY <1>1, <1>3, <2>1, Zenon DEF InFlight, Held
  <2> QED
    BY <2>2 DEF Contains
<1> QED
  BY <1>2, <1>3

\* A client that resumes from the last resourceVersion it saw misses nothing,
\* for any stream, any request, any channel length and any number of watches:
\* what it has not seen is newer than all it has seen and, while it is served,
\* still to be pushed, unacknowledged, or in resultChan.  Only a message of
\* which a push was lost is excepted: processMessages acknowledges the later
\* ones before it is pushed again.
THEOREM NothingEverMissed == Spec => []NothingMissed
<1>1. Spec => [](Typed /\ Control /\ InFlight)
  BY InitTyped, StepTyped, InitControl, StepControl, InitInFlight, StepInFlight, PTL DEF Spec
<1> QED
  BY <1>1, InFlightImplies, PTL

-----------------------------------------------------------------------------
(* What reaches the client is what it asked for.                           *)

\* The broker's filter lets a message pass, and processMessages accepts it.
Passed(s) == SubjectMatches(FilterSubject(req), Subject(stream[s]))
Accepted(s) == Passed(s) /\ stream[s].ok /\ Matches(stream[s])

\* Whatever the broker pushes passes its filter, at the first push and at
\* every other; whatever is sent was accepted, the message that a full channel
\* blocks too.
Filtered ==
  /\ \A s \in consumer.unacked : Passed(s)
  /\ \A j \in 1 .. Len(inbox) : inbox[j] # 0 => Passed(inbox[j])
  /\ proc.at \in {"parse", "blocked"} => Passed(proc.seq)
  /\ proc.at = "blocked" => Accepted(proc.seq)
  /\ \A j \in 1 .. Len(result) : Accepted(result[j])
  /\ \A s \in client.seen : Accepted(s)

LEMMA InitFiltered == Init => Filtered
BY DEF Init, Filtered, NoConsumer

LEMMA PassedKept ==
  ASSUME NEW s, req' = req, stream'[s] = stream[s]
  PROVE  (Passed(s)' <=> Passed(s)) /\ (Accepted(s)' <=> Accepted(s))
BY DEF Passed, Accepted, Matches, MatchesFilter, MatchesEventsFilter

\* The verdict on a message does not change while the stream is the same.
LEMMA PassedSame ==
  ASSUME req' = req, stream' = stream
  PROVE  \A s : (Passed(s)' <=> Passed(s)) /\ (Accepted(s)' <=> Accepted(s))
BY PassedKept

LEMMA StepFiltered == Typed /\ Control /\ Filtered /\ [Next]_vars => Filtered'
<1> SUFFICES ASSUME Typed, Control, Filtered, [Next]_vars PROVE Filtered'
  OBVIOUS
<1>t. /\ result \in Seq(Nat) /\ inbox \in Seq(Nat) /\ consumer \in Consumers /\ client \in Clients
      /\ proc \in Procs /\ consumer.again \subseteq consumer.unacked
  BY DEF Typed, WatchType, Numbers
<1>f. /\ \A s \in consumer.unacked : Passed(s)
      /\ \A j \in 1 .. Len(inbox) : inbox[j] # 0 => Passed(inbox[j])
      /\ proc.at \in {"parse", "blocked"} => Passed(proc.seq)
      /\ proc.at = "blocked" => Accepted(proc.seq)
      /\ \A j \in 1 .. Len(result) : Accepted(result[j])
      /\ \A s \in client.seen : Accepted(s)
  BY DEF Filtered
\* The steps that only end, clear or leave alone what is on its way.
<1>1. ASSUME UNCHANGED <<req, stream>>, consumer'.unacked \subseteq consumer.unacked,
             inbox' \in {inbox, <<>>}, result' \in {result, <<>>},
             client'.seen = client.seen,
             proc' = proc \/ proc'.at \in {"top", "defer", "done"}
      PROVE  Filtered'
  <2>1. \A s : (Passed(s)' <=> Passed(s)) /\ (Accepted(s)' <=> Accepted(s))
    BY <1>1, PassedSame
  <2>2. /\ \A s \in consumer'.unacked : Passed(s)
        /\ \A s \in client'.seen : Accepted(s)
    BY <1>1, <1>f
  <2>3. \A j \in 1 .. Len(inbox') : inbox'[j] # 0 => Passed(inbox'[j])
    BY <1>1, <1>f
  <2>4. \A j \in 1 .. Len(result') : Accepted(result'[j])
    BY <1>1, <1>f
  <2>5. /\ proc'.at \in {"parse", "blocked"} => Passed(proc'.seq)
        /\ proc'.at = "blocked" => Accepted(proc'.seq)
    BY <1>1, <1>f
  <2> QED
    BY <2>1, <2>2, <2>3, <2>4, <2>5 DEF Filtered
<1>2. CASE Restart
  BY <1>1, <1>2 DEF Restart, natsVars, clientVars
<1>3. CASE AddConsumer
  <2>1. consumer'.unacked = {} /\ client'.seen = client.seen
    BY <1>3, <1>t DEF AddConsumer, NoConsumer, Clients
  <2> QED
    BY <1>1, <1>3, <2>1 DEF AddConsumer
<1>4. CASE Subscribe \/ SubscribeFails \/ SeeCancel \/ RequestEnds \/ HandlerStops
  <2>1. consumer' \in {consumer, NoConsumer} /\ UNCHANGED <<req, stream, client, inbox>>
    BY <1>4 DEF Subscribe, SubscribeFails, SeeCancel, RequestEnds, HandlerStops, natsVars, clientVars
  <2>2. consumer'.unacked \subseteq consumer.unacked
    BY <2>1 DEF NoConsumer
  <2> QED
    BY <1>1, <1>4, <2>1, <2>2 DEF Subscribe, SubscribeFails, SeeCancel, RequestEnds, HandlerStops
<1>5. CASE Stop
  <2>1. /\ consumer' \in {consumer, NoConsumer} /\ UNCHANGED <<req, stream, client, inbox, result>>
        /\ proc' \in {proc, [at |-> "done"]}
    <3>1. CASE \E who \in {"handler", "proc"} : StopBegins(who)
      BY <3>1 DEF StopBegins, natsVars, clientVars
    <3>2. CASE StopDeletes \/ StopCancels \/ StopCloses
      BY <3>2 DEF StopDeletes, StopCancels, StopCloses, natsVars, clientVars
    <3> QED
      BY <1>5, <3>1, <3>2 DEF Stop
  <2>2. consumer'.unacked \subseteq consumer.unacked
    BY <2>1 DEF NoConsumer
  <2> QED
    BY <1>1, <2>1, <2>2
<1>6. CASE RespondControl \/ NextMsg
  <2>1. /\ inbox' \in Seq(Nat) /\ Len(inbox') = Len(inbox) - 1
        /\ Len(inbox) \in Nat \ {0} /\ Head(inbox) = inbox[1]
        /\ \A j \in 1 .. Len(inbox') : inbox'[j] = inbox[j + 1]
    BY <1>6, <1>t, TailFacts DEF RespondControl, NextMsg
  <2>2. /\ UNCHANGED <<req, stream, client, result>> /\ consumer'.unacked = consumer.unacked
        /\ \/ proc' = proc /\ proc.at = "top"
           \/ proc'.at = "parse" /\ proc'.seq = Head(inbox) /\ Head(inbox) # 0
    BY <1>6, <1>t DEF RespondControl, NextMsg, clientVars, Consumers
  <2>3. \A s : (Passed(s)' <=> Passed(s)) /\ (Accepted(s)' <=> Accepted(s))
    BY <2>2, PassedSame
  <2>4. Head(inbox) # 0 => Passed(Head(inbox))
    BY <1>f, <2>1
  <2>5. \A j \in 1 .. Len(inbox') : inbox'[j] # 0 => Passed(inbox'[j])
    <3>1. \A j \in 1 .. Len(inbox') : j + 1 \in 1 .. Len(inbox)
      BY <2>1
    <3> QED
      BY <1>f, <2>1, <3>1
  <2>6. /\ proc'.at \in {"parse", "blocked"} => Passed(proc'.seq)
        /\ proc'.at = "blocked" => Accepted(proc'.seq)
    BY <1>f, <2>2, <2>4
  <2> QED
    BY <1>f, <2>2, <2>3, <2>5, <2>6 DEF Filtered
<1>7. CASE Skip
  <2>1. consumer' \in {Acked(proc.seq), Naked(proc.seq)}
    BY <1>7 DEF Skip
  <2>2. consumer'.unacked \subseteq consumer.unacked
    BY <1>t, <2>1 DEF Acked, Naked, Consumers
  <2> QED
    BY <1>1, <1>7, <2>2 DEF Skip, clientVars
<1>8. ASSUME Send \/ WakeUp PROVE Filtered'
  <2>1. /\ UNCHANGED <<req, stream, client, inbox>>
        /\ proc.at \in {"parse", "blocked"} /\ Accepted(proc.seq)
    BY <1>8, <1>f DEF Send, Sending, WakeUp, clientVars, Accepted
  <2>2. \A s : (Passed(s)' <=> Passed(s)) /\ (Accepted(s)' <=> Accepted(s))
    BY <2>1, PassedSame
  <2>3. \/ proc'.at \in {"top", "defer"}
        \/ proc'.at = "blocked" /\ proc'.seq = proc.seq
    BY <1>8, <1>t DEF Send, Sending, WakeUp, Procs
  <2>4. \/ UNCHANGED <<result, consumer>>
        \/ result' = Append(result, proc.seq) /\ consumer' = Acked(proc.seq)
    BY <1>8 DEF Send, WakeUp
  <2>5. consumer'.unacked \subseteq consumer.unacked
    BY <1>t, <2>4 DEF Acked, Consumers
  <2>6. \A j \in 1 .. Len(result') : Accepted(result'[j])
    <3>1. CASE result' = result
      BY <1>f, <3>1
    <3>2. CASE result' = Append(result, proc.seq)
      <4>1. proc.seq \in Nat
        BY <2>1 DEF Typed, WatchType, Numbers, Seqs
      <4>2. /\ Len(result') = Len(result) + 1 /\ Len(result) \in Nat
            /\ result'[Len(result) + 1] = proc.seq
            /\ \A j \in 1 .. Len(result) : result'[j] = result[j]
        BY <1>t, <3>2, <4>1, AppendFacts
      <4>3. \A j \in 1 .. Len(result') : j \in 1 .. Len(result) \/ j = Len(result) + 1
        BY <4>2
      <4> QED
        BY <1>f, <2>1, <4>2, <4>3
    <3> QED
      BY <2>4, <3>1, <3>2
  <2>7. /\ proc'.at \in {"parse", "blocked"} => Passed(proc'.seq)
        /\ proc'.at = "blocked" => Accepted(proc'.seq)
    BY <2>1, <2>3 DEF Accepted
  <2> QED
    BY <1>f, <2>1, <2>2, <2>5, <2>6, <2>7 DEF Filtered
<1>9. CASE Serve
  <2>1. /\ Len(result') = Len(result) - 1 /\ Len(result) \in Nat \ {0} /\ Head(result) = result[1]
        /\ \A j \in 1 .. Len(result') : result'[j] = result[j + 1]
    BY <1>9, <1>t, TailFacts DEF Serve
  <2>2. /\ UNCHANGED <<req, stream, consumer, inbox, proc>>
        /\ client'.seen = client.seen \cup {Head(result)}
    BY <1>9, <1>t DEF Serve, natsVars, Clients
  <2>3. \A s : (Passed(s)' <=> Passed(s)) /\ (Accepted(s)' <=> Accepted(s))
    BY <2>2, PassedSame
  <2>4. 1 \in 1 .. Len(result) /\ \A j \in 1 .. Len(result') : j + 1 \in 1 .. Len(result)
    BY <2>1
  <2>5. Accepted(Head(result)) /\ \A j \in 1 .. Len(result') : Accepted(result'[j])
    BY <1>f, <2>1, <2>4
  <2> QED
    BY <1>f, <2>2, <2>3, <2>5 DEF Filtered
<1>10. ASSUME NEW i \in Items, Publish(i) PROVE Filtered'
  <2>1. \A s \in Seqs : stream'[s] = stream[s]
    BY <1>10, PublishFacts
  <2>2. UNCHANGED <<req, consumer, inbox, proc, result, client>>
    BY <1>10 DEF Publish, clientVars
  <2>3. \A s \in Seqs : (Passed(s)' <=> Passed(s)) /\ (Accepted(s)' <=> Accepted(s))
    BY <2>1, <2>2, PassedKept
  <2>4. /\ \A s \in consumer.unacked : s \in Seqs
        /\ \A j \in 1 .. Len(inbox) : inbox[j] # 0 => inbox[j] \in Seqs
        /\ proc.at \in {"parse", "blocked"} => proc.seq \in Seqs
        /\ \A j \in 1 .. Len(result) : result[j] \in Seqs
        /\ \A s \in client.seen : s \in Seqs
    BY DEF Typed, Numbers
  <2> QED
    BY <1>f, <2>2, <2>3, <2>4 DEF Filtered
\* The broker's pushes.
<1>11. ASSUME UNCHANGED <<req, stream, proc, result, client>>, NEW s \in Nat,
              s = 0 \/ Passed(s), inbox' = inbox \/ inbox' = Append(inbox, s),
              \A u \in consumer'.unacked : u \in consumer.unacked \/ (u = s /\ Passed(s))
       PROVE  Filtered'
  <2>1. \A u : (Passed(u)' <=> Passed(u)) /\ (Accepted(u)' <=> Accepted(u))
    BY <1>11, PassedSame
  <2>2. \A u \in consumer'.unacked : Passed(u)
    BY <1>11, <1>f
  <2>3. \A j \in 1 .. Len(inbox') : inbox'[j] # 0 => Passed(inbox'[j])
    <3>1. CASE inbox' = inbox
      BY <1>f, <3>1
    <3>2. CASE inbox' = Append(inbox, s)
      <4>1. /\ Len(inbox') = Len(inbox) + 1 /\ Len(inbox) \in Nat /\ inbox'[Len(inbox) + 1] = s
            /\ \A j \in 1 .. Len(inbox) : inbox'[j] = inbox[j]
        BY <1>t, <1>11, <3>2, AppendFacts
      <4>2. \A j \in 1 .. Len(inbox') : j \in 1 .. Len(inbox) \/ j = Len(inbox) + 1
        BY <4>1
      <4> QED
        BY <1>f, <1>11, <4>1, <4>2
    <3> QED
      BY <1>11, <3>1, <3>2
  <2> QED
    BY <1>f, <1>11, <2>1, <2>2, <2>3 DEF Filtered
<1>12. CASE Push
  <2>1. PICK s \in NextSeq :
          /\ s \in Seqs
          /\ consumer' = [consumer EXCEPT !.next = s + 1,
                                          !.unacked = consumer.unacked \cup {s}]
          /\ \/ inbox' = Append(inbox, s) /\ UNCHANGED <<lost, faults>>
             \/ Fault /\ lost' = lost \cup {s} /\ UNCHANGED inbox
    BY <1>12, PushFacts
  <2>2. Passed(s) /\ s \in Nat
    BY <2>1 DEF NextSeq, Passed, Seqs, Typed, WatchType
  <2>3. consumer'.unacked = consumer.unacked \cup {s}
    BY <1>t, <2>1 DEF Consumers
  <2>4. UNCHANGED <<req, stream, proc, result, client>>
    BY <1>12 DEF Push, clientVars
  <2> QED
    BY <1>11, <2>1, <2>2, <2>3, <2>4
<1>13. CASE PushControl
  <2>1. consumer'.unacked = consumer.unacked
    BY <1>13, <1>t DEF PushControl, Consumers
  <2>2. UNCHANGED <<req, stream, proc, result, client>> /\ inbox' = Append(inbox, 0) /\ 0 \in Nat
    BY <1>13 DEF PushControl, clientVars
  <2> QED
    BY <1>11, <2>1, <2>2
<1>14. ASSUME NEW s \in 1 .. MaxPublished, PushAgain(s) PROVE Filtered'
  <2>1. consumer'.unacked = consumer.unacked /\ s \in consumer.unacked
    BY <1>14, <1>t DEF PushAgain, Consumers
  <2>2. UNCHANGED <<req, stream, proc, result, client>> /\ inbox' = Append(inbox, s) /\ s \in Nat
    BY <1>14, Bounds DEF PushAgain, clientVars
  <2> QED
    BY <1>11, <1>f, <2>1, <2>2
<1>15. ASSUME NEW s \in 1 .. MaxPublished, AckWaitExpires(s) PROVE Filtered'
  <2>1. consumer'.unacked = consumer.unacked
    BY <1>15, <1>t DEF AckWaitExpires, Consumers
  <2> QED
    BY <1>1, <1>15, <2>1 DEF AckWaitExpires, clientVars
<1>16. CASE ConsumerExpires
  BY <1>1, <1>16 DEF ConsumerExpires, NoConsumer, clientVars
<1>17. CASE UNCHANGED vars
  BY <1>1, <1>17 DEF vars, natsVars, clientVars
<1> QED
  BY <1>2, <1>3, <1>4, <1>5, <1>6, <1>7, <1>8, <1>9, <1>10, <1>12, <1>13, <1>14, <1>15, <1>16, <1>17
     DEF Next, Server, Process, JetStream

\* The names of requests and items, token by token.
LEMMA Names ==
  /\ \A r \in Requests :
       /\ \A k \in 1 .. Len(r.scope) : r.scope[k] \notin {"*", ">"}
       /\ \A k \in 1 .. Len(r.group) : r.group[k] \notin {"*", ">"}
       /\ r.kind \notin {"*", ">"} /\ r.path \notin {"*", ">", "_"}
       /\ r.scope # <<"platform", "_">>
  /\ \A i \in Items : i.group # <<"normalized">>
<1>1. ASSUME NEW r \in Requests
      PROVE  /\ \A k \in 1 .. Len(r.scope) : r.scope[k] \notin {"*", ">"}
             /\ \A k \in 1 .. Len(r.group) : r.group[k] \notin {"*", ">"}
             /\ r.kind \notin {"*", ">"} /\ r.path \notin {"*", ">", "_"}
             /\ r.scope # <<"platform", "_">>
  <2>1. /\ {"*", ">"} \cap (Range(r.scope) \cup Range(r.group) \cup {r.kind, r.path}) = {}
        /\ r.scope # <<"platform", "_">> /\ r.path # "_"
    BY NamesAssumption, Zenon
  <2>2. r.scope \in Seq(Tokens) /\ r.group \in Seq(Tokens)
    BY Fields
  <2>3. \A k \in 1 .. Len(r.scope) : r.scope[k] \in Range(r.scope)
    BY <2>2 DEF Range
  <2>4. \A k \in 1 .. Len(r.group) : r.group[k] \in Range(r.group)
    BY <2>2 DEF Range
  <2> QED
    BY <2>1, <2>3, <2>4, Zenon
<1> QED
  BY <1>1, NamesAssumption, Zenon

\* Sequences of tokens that agree at every index are equal.
LEMMA SameTokens ==
  ASSUME NEW a \in Seq(Tokens), NEW b \in Seq(Tokens), NEW n \in Nat, Len(a) = n, Len(b) = n,
         \A k \in 1 .. n : a[k] = b[k]
  PROVE  a = b
OBVIOUS

\* The watcher's subject lets only messages of the tenant pass.
LEMMA PassedScope ==
  ASSUME Typed, req.scope # <<>>, NEW i \in Items,
         SubjectMatches(BuildSubject(req), ActivitySubject(i))
  PROVE  i.tenant = req.scope
<1> DEFINE pat == BuildSubject(req)
           sub == ActivitySubject(i)
<1>1. req \in Requests
  BY DEF Typed, WatchType
<1>2. sub[2] = TenantTokens(i)[1] /\ sub[3] = TenantTokens(i)[2]
  BY ActivityTokens
<1>3. Len(pat) = 8 /\ pat[2] = req.scope[1] /\ pat[3] = req.scope[2]
  BY <1>1, PatternTokens
<1>4. \A k \in 1 .. Len(pat) : pat[k] \in {"*", ">", sub[k]}
  BY DEF SubjectMatches
<1> HIDE DEF pat, sub
<1>5. req.scope \in Seq(Tokens) /\ Len(req.scope) = 2
  <2>1. req.scope \in Seq(Tokens) /\ Len(req.scope) \in {0, 2}
    BY <1>1, Fields
  <2> QED
    BY <2>1
<1>6. \A k \in 1 .. Len(req.scope) : req.scope[k] \notin {"*", ">"}
  BY <1>1, Names
<1>7. req.scope[1] = TenantTokens(i)[1] /\ req.scope[2] = TenantTokens(i)[2]
  BY <1>2, <1>3, <1>4, <1>5, <1>6
<1>8. TenantTokens(i) \in Seq(Tokens) /\ Len(TenantTokens(i)) = 2
  BY TenantFacts
<1>9. \A k \in 1 .. 2 : req.scope[k] = TenantTokens(i)[k]
  BY <1>7
<1>10. req.scope = TenantTokens(i)
  BY <1>5, <1>8, <1>9, SameTokens
<1>11. req.scope # <<"platform", "_">>
  BY <1>1, Names
<1> QED
  BY <1>10, <1>11, Zenon DEF TenantTokens

\* With an API group of one token, it applies the filter's group, kind and
\* namespace as well.
LEMMA PassedFields ==
  ASSUME Typed, req.scope # <<>>, NEW i \in Items, Len(i.group) = 1,
         SubjectMatches(BuildSubject(req), ActivitySubject(i)),
         NEW f, f = WatchFilter(req)
  PROVE  /\ f.group \in {<<>>, i.group} /\ f.kind \in {Unset, i.kind} /\ f.ns \in {Unset, i.ns}
<1> DEFINE pat == BuildSubject(req)
           sub == ActivitySubject(i)
<1>1. req \in Requests
  BY DEF Typed, WatchType
<1>2. GroupTokens(i) = i.group
  BY GroupFacts
<1>3. sub[4] = i.group[1] /\ sub[6] = i.kind /\ sub[7] = NsToken(i)
  BY <1>2, ActivityTokens, ZenonT(60)
<1>4. /\ Len(pat) = 8 /\ pat[4] = GroupToken(req)[1] /\ pat[6] = Token(f.kind)
      /\ pat[7] = Token(f.ns)
  BY <1>1, PatternTokens
<1>5. \A k \in 1 .. Len(pat) : pat[k] \in {"*", ">", sub[k]}
  BY DEF SubjectMatches
<1> HIDE DEF pat, sub
<1>6. /\ GroupToken(req)[1] \in {"*", ">", i.group[1]} /\ Token(f.kind) \in {"*", ">", i.kind}
      /\ Token(f.ns) \in {"*", ">", NsToken(i)}
  BY <1>3, <1>4, <1>5
<1>7. /\ f.kind = req.kind /\ f.group \in {<<>>, req.group} /\ f.ns \in {Unset, req.path}
  <2>1. req \in Request
    BY <1>1, WatchAssumption, Zenon
  <2> QED
    BY <2>1 DEF WatchFilter, RunWatchSelectors, Request
<1>8. req.kind \notin {"*", ">"} /\ req.path \notin {"*", ">", "_"}
  BY <1>1, Names
<1>9. f.kind \in {Unset, i.kind}
  BY <1>6, <1>7, <1>8 DEF Token
<1>10. f.ns \in {Unset, i.ns}
  BY <1>6, <1>7, <1>8 DEF Token, NsToken
<1>11. f.group \in {<<>>, i.group}
  <2>1. i.group \in Seq(Tokens) /\ f.group \in Seq(Tokens)
    BY <1>1, Fields, FilterFacts
  <2>2. CASE f.group = <<>>
    BY <2>2
  <2>3. CASE f.group # <<>> /\ Len(f.group) = 1
    <3>1. GroupToken(req) = f.group
      BY <1>1, <2>3, GroupTokenFacts
    <3>2. f.group = req.group
      BY <1>7, <2>3
    <3>3. f.group[1] \notin {"*", ">"}
      <4>1. \A k \in 1 .. Len(req.group) : req.group[k] \notin {"*", ">"}
        BY <1>1, Names, Zenon
      <4>2. 1 \in 1 .. Len(req.group)
        BY <2>3, <3>2
      <4> QED
        BY <3>2, <4>1, <4>2, Zenon
    <3>4. f.group[1] = i.group[1]
      BY <1>6, <3>1, <3>3
    <3>5. \A k \in 1 .. 1 : f.group[k] = i.group[k]
      BY <3>4
    <3> QED
      BY <2>1, <2>3, <3>5, SameTokens
  <2>4. CASE Len(f.group) > 1
    <3>1. GroupToken(req)[1] = "normalized"
      BY <1>1, <2>4, GroupTokenFacts
    <3>2. i.group[1] = "normalized"
      BY <1>6, <3>1
    <3>3. <<"normalized">> \in Seq(Tokens) /\ Len(<<"normalized">>) = 1
          /\ <<"normalized">>[1] = "normalized"
      BY LiteralTokens, Tuple1, Zenon
    <3>4. PICK n : n = <<"normalized">>
      OBVIOUS
    <3>5. n \in Seq(Tokens) /\ Len(n) = 1 /\ n[1] = "normalized"
      BY <3>3, <3>4, Zenon
    <3>6. \A k \in 1 .. 1 : i.group[k] = n[k]
      BY <3>2, <3>5
    <3>7. i.group = n
      BY <2>1, <3>5, <3>6, SameTokens
    <3> QED
      BY <3>4, <3>7, Names, Zenon
  <2>5. f.group = <<>> \/ Len(f.group) = 1 \/ Len(f.group) > 1
    BY <2>1
  <2> QED
    BY <2>2, <2>3, <2>4, <2>5
<1> QED
  BY <1>9, <1>10, <1>11

\* The subject of an event has three tokens; that of a watch of one tenant's
\* events has more, so that nothing passes.
LEMMA NoEventPasses ==
  ASSUME Typed, req.scope # <<>>, NEW i \in Items
  PROVE  ~SubjectMatches(BuildEventsSubject(req), EventSubject(i))
<1> DEFINE f == EventsWatchFilter(req)
           l == <<"events", "k8s">>
           c == <<Token(f.ns), Token(f.kind), ">">>
           a == l \o req.scope
<1>1. req \in Requests
  BY DEF Typed, WatchType
<1>2. BuildEventsSubject(req) = a \o c
  BY DEF BuildEventsSubject
<1>3. req.scope \in Seq(Tokens) /\ Len(req.scope) = 2
  <2>1. req.scope \in Seq(Tokens) /\ Len(req.scope) \in {0, 2}
    BY <1>1, Fields
  <2> QED
    BY <2>1
<1>4. Token(f.ns) \in Tokens /\ Token(f.kind) \in Tokens
  <2>1. req \in Request
    BY <1>1, WatchAssumption, Zenon
  <2>2. f.kind = req.kind /\ f.ns \in {req.path, req.ns} /\ req.kind \in STRING
        /\ req.path \in STRING /\ req.ns \in STRING
    BY <2>1 DEF EventsWatchFilter, Request
  <2>3. \A s \in STRING : s \in Tokens
    BY DEF Tokens
  <2> QED
    BY <2>2, <2>3, LiteralTokens DEF Token
<1>5. l \in Seq(Tokens) /\ Len(l) = 2
  <2>1. "events" \in Tokens /\ "k8s" \in Tokens
    BY LiteralTokens
  <2> QED
    BY <2>1, Tuple2, Zenon
<1>6. c \in Seq(Tokens) /\ Len(c) = 3
  <2>1. ">" \in Tokens
    BY LiteralTokens
  <2> QED
    BY <1>4, <2>1, Tuple3, Zenon
<1> HIDE DEF l, c, f
<1>7. a \in Seq(Tokens) /\ Len(a) = Len(l) + Len(req.scope)
  BY <1>3, <1>5, Joined, Zenon
<1> HIDE DEF a
<1>8. Len(a \o c) = Len(a) + Len(c)
  BY <1>6, <1>7, Joined, Zenon
<1>9. Len(BuildEventsSubject(req)) = 7
  BY <1>2, <1>3, <1>5, <1>6, <1>7, <1>8
<1>10. Len(EventSubject(i)) = 3
  BY DEF EventSubject
<1> QED
  BY <1>9, <1>10 DEF SubjectMatches

\* What the subject and matchesFilter let pass is of the tenant and, where the
\* subjects agree, wanted.
LEMMA AcceptedFits ==
  ASSUME Typed, NEW s \in Seqs, Accepted(s)
  PROVE  InScope(stream[s]) /\ (Routable(stream[s]) => Wanted(stream[s]))
<1> DEFINE i == stream[s]
<1>1. i \in Items /\ i.resource = req.resource /\ i.ok /\ Matches(i)
      /\ SubjectMatches(FilterSubject(req), Subject(i))
  BY DEF Accepted, Passed, Seqs, Typed, WatchType, Numbers
<1>2. i.resource \in {"activity", "event"}
  BY <1>1, Fields
<1> HIDE DEF i
<1>3. CASE i.resource = "activity"
  <2>1. SubjectMatches(BuildSubject(req), ActivitySubject(i))
    BY <1>1, <1>3, Zenon DEF FilterSubject, Subject
  <2>2. Filter = WatchFilter(req)
    BY <1>1, <1>3, Zenon DEF Filter
  <2>3. InScope(i)
    BY <1>1, <2>1, PassedScope DEF InScope
  <2>4. Filter.source \in {Unset, i.source}
    BY <1>1, <1>3, <2>2, Zenon DEF Matches, MatchesFilter
  <2>5. ASSUME Routable(i)
        PROVE  /\ Filter.group \in {<<>>, i.group} /\ Filter.kind \in {Unset, i.kind}
               /\ Filter.ns \in {Unset, i.ns}
    <3>1. \/ Filter.group = <<>> /\ Filter.kind = Unset /\ Filter.ns = Unset
          \/ req.scope # <<>> /\ Len(i.group) = 1
      <4>1. i.resource # "event"
        BY <1>3
      <4> QED
        BY <2>5, <4>1, Zenon DEF Routable
    <3>2. CASE req.scope # <<>> /\ Len(i.group) = 1
      BY <1>1, <2>1, <2>2, <3>2, PassedFields
    <3> QED
      BY <3>1, <3>2
  <2> QED
    BY <1>1, <2>3, <2>4, <2>5 DEF i, Wanted
<1>4. CASE i.resource = "event"
  <2>0. i.resource # "activity"
    BY <1>4
  <2>1. SubjectMatches(BuildEventsSubject(req), EventSubject(i))
    BY <1>1, <2>0, Zenon DEF FilterSubject, Subject
  <2>2. Filter = EventsWatchFilter(req)
    BY <1>1, <2>0, Zenon DEF Filter
  <2>3. req.scope = <<>>
    BY <1>1, <2>1, NoEventPasses
  <2>4. InScope(i)
    BY <2>3 DEF InScope
  <2>5. Filter.source \in {Unset, i.source}
    BY <1>1, <2>0, <2>2, Zenon DEF Matches, MatchesEventsFilter
  <2>6. Routable(i) => Filter.group = <<>> /\ Filter.kind = Unset /\ Filter.ns = Unset
    BY <1>4, Zenon DEF Routable
  <2> QED
    BY <1>1, <2>4, <2>5, <2>6 DEF i, Wanted
<1> QED
  BY <1>2, <1>3, <1>4

LEMMA FilteredImplies == Typed /\ Filtered => DeliveredMatches
<1> SUFFICES ASSUME Typed, Filtered, NEW s \in Range(result) \cup client.seen
             PROVE  InScope(stream[s]) /\ (Routable(stream[s]) => Wanted(stream[s]))
  BY Zenon DEF DeliveredMatches
<1>1. Accepted(s) /\ s \in Seqs
  BY DEF Filtered, Typed, WatchType, Numbers, Range
<1> QED
  BY <1>1, AcceptedFits

\* Whatever is on its way to a client belongs to its tenant and, where the
\* subjects of publisher and watcher agree, is what it asked for: buildSubject
\* and matchesFilter together apply the whole filter, to every push and every
\* redelivery, for all requests and items with names of Kubernetes.
THEOREM DeliveredAlwaysMatches == Spec => []DeliveredMatches
<1>1. Spec => [](Typed /\ Control /\ Filtered)
  BY InitTyped, StepTyped, InitControl, StepControl, InitFiltered, StepFiltered, PTL DEF Spec
<1> QED
  BY <1>1, FilteredImplies, PTL

-----------------------------------------------------------------------------
(* The end of a watch.                                                     *)

\* Stop cancels the context before it closes the channel, and a new watch
\* starts with both undone.
Closing ==
  /\ panic # "close"
  /\ stop \in {"cancelled", "closed"} => cancelled

LEMMA InitClosing == Init => Closing
BY DEF Init, Closing

LEMMA StepClosing == Closing /\ [Next]_vars => Closing'
<1> SUFFICES ASSUME Closing, [Next]_vars PROVE Closing'
  OBVIOUS
<1>1. CASE Restart
  BY <1>1 DEF Restart, Closing
<1>2. CASE UNCHANGED vars
  BY <1>2 DEF vars, Closing
<1>3. CASE AddConsumer \/ Subscribe \/ SubscribeFails
  BY <1>3 DEF AddConsumer, Subscribe, SubscribeFails, Closing
<1>4. CASE SeeCancel \/ RespondControl \/ NextMsg \/ Skip \/ WakeUp
  BY <1>4 DEF SeeCancel, RespondControl, NextMsg, Skip, WakeUp, Closing
<1>5. CASE Send
  BY <1>5 DEF Send, Closing
<1>6. ASSUME NEW who \in {"handler", "proc"}, StopBegins(who) PROVE Closing'
  BY <1>6 DEF StopBegins, Closing
<1>7. CASE StopDeletes \/ StopCancels \/ StopCloses
  BY <1>7 DEF StopDeletes, StopCancels, StopCloses, Closing
<1>8. CASE Serve \/ RequestEnds \/ HandlerStops
  BY <1>8 DEF Serve, RequestEnds, HandlerStops, Closing
<1>9. CASE JetStream
  BY <1>9 DEF JetStream, Publish, Push, PushControl, ConsumerExpires, PushAgain,
              AckWaitExpires, Closing
<1> QED
  BY <1>1, <1>2, <1>3, <1>4, <1>5, <1>6, <1>7, <1>8, <1>9
  DEF Next, Server, Process, Stop

\* Whichever of the handler and processMessages calls Stop first, and however
\* cancellation, sends and the calls of Stop interleave: the channel is closed
\* once, and never under a goroutine that is still blocked in its send.
THEOREM AlwaysClosedOnce == Spec => []ClosedOnce
<1>1. Closing => ClosedOnce
  BY DEF Closing, ClosedOnce
<1> QED
  BY <1>1, InitClosing, StepClosing, PTL DEF Spec
=============================================================================
