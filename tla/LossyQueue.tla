---------------------------- MODULE LossyQueue -----------------------------
(***************************************************************************)
(* What the event exporter's publish queue promises: a FIFO of bounded     *)
(* length whose producer never waits.  A producer that found the queue     *)
(* full sheds the oldest item, at most one for every item it adds, and     *)
(* never the item it is adding.                                            *)
(***************************************************************************)
EXTENDS Naturals, Sequences

CONSTANTS Items, Capacity

VARIABLES
  items,    \* the queue, oldest first
  found,    \* "room", "full" or "shed": what the producer has met
  lost      \* how many items were shed

Init == items = <<>> /\ found = "room" /\ lost = 0

Offer(x) ==
  /\ Len(items) < Capacity
  /\ items' = Append(items, x) /\ found' = "room" /\ UNCHANGED lost

FindFull ==
  /\ found = "room" /\ Len(items) = Capacity
  /\ found' = "full" /\ UNCHANGED <<items, lost>>

Shed ==
  /\ found = "full" /\ found' = "shed"
  /\ \/ items # <<>> /\ items' = Tail(items) /\ lost' = lost + 1
     \/ items = <<>> /\ UNCHANGED <<items, lost>>

Take == items # <<>> /\ items' = Tail(items) /\ UNCHANGED <<found, lost>>

\* The process that holds the queue ends, and the queue with it.
Reset == items' = <<>> /\ found' = "room" /\ UNCHANGED lost

Next == (\E x \in Items : Offer(x)) \/ FindFull \/ Shed \/ Take \/ Reset

Spec == Init /\ [][Next]_<<items, found, lost>>
=============================================================================
