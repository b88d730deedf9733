----------------------------- MODULE LossyFifo -----------------------------
(***************************************************************************)
(* What a drop-newest queue promises its consumer, independent of slots,   *)
(* indices and semaphores: items come out once, in the order they were     *)
(* offered, and an item is refused only when the queue cannot be sure of a *)
(* free place.  FrameQueue implements this.                                *)
(***************************************************************************)
EXTENDS Naturals, Sequences

CONSTANT Capacity      \* the places of the queue

VARIABLES offered,     \* how many items were offered; an item is its number
          queue,       \* the accepted items still to be delivered
          delivered,   \* the items delivered, in order
          refused      \* how many items were refused

vars == <<offered, queue, delivered, refused>>

Init == offered = 0 /\ queue = <<>> /\ delivered = <<>> /\ refused = 0

Accept == /\ Len(queue) < Capacity
          /\ queue' = Append(queue, offered)
          /\ offered' = offered + 1
          /\ UNCHANGED <<delivered, refused>>

\* The place of the item delivered last may still be occupied.
Refuse == /\ Len(queue) >= Capacity - 1
          /\ refused' = refused + 1
          /\ offered' = offered + 1
          /\ UNCHANGED <<queue, delivered>>

Deliver == /\ queue # <<>>
           /\ delivered' = Append(delivered, Head(queue))
           /\ queue' = Tail(queue)
           /\ UNCHANGED <<offered, refused>>

Next == Accept \/ Refuse \/ Deliver

Spec == Init /\ [][Next]_vars
=============================================================================
