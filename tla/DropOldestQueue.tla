-------------------------- MODULE DropOldestQueue --------------------------
(***************************************************************************)
(* What a queue that prefers fresh data promises: putting always succeeds, *)
(* at the price of the oldest waiting item when there is no room, and      *)
(* items are got in the order they were put.  BatchStream implements this. *)
(***************************************************************************)
EXTENDS Integers, Sequences

CONSTANT Depth      \* the places of the queue

VARIABLES put,      \* how many items were put; an item is its number
          queue,    \* the items waiting, oldest first
          got       \* the item got last, or -1

vars == <<put, queue, got>>

Init == put = 0 /\ queue = <<>> /\ got = -1

Put == /\ put' = put + 1
       /\ queue' = Append(IF Len(queue) = Depth THEN Tail(queue) ELSE queue,
                          put)
       /\ UNCHANGED got

Get == /\ queue # <<>>
       /\ got' = Head(queue)
       /\ queue' = Tail(queue)
       /\ UNCHANGED put

Next == Put \/ Get

Spec == Init /\ [][Next]_vars
=============================================================================
