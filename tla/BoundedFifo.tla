---------------------------- MODULE BoundedFifo -----------------------------
(***************************************************************************)
(* What message queues promise their callers (queue.h): each item sent is  *)
(* delivered once, in the order of sending but for those put in front, and *)
(* no queue ever holds more than its capacity.                             *)
(***************************************************************************)
EXTENDS Sequences, Naturals

CONSTANTS Queues, Items, Capacity

VARIABLES contents,  \* the items each queue holds, first to be received first
          delivered  \* the item that was handed out last, by each queue

vars == <<contents, delivered>>

Init == /\ contents = [q \in Queues |-> <<>>]
        /\ delivered \in [Queues -> Items]

Send(q, item) == /\ Len(contents[q]) < Capacity
                 /\ contents' = [contents EXCEPT ![q] = Append(@, item)]
                 /\ UNCHANGED delivered

SendFront(q, item) == /\ Len(contents[q]) < Capacity
                      /\ contents' = [contents EXCEPT ![q] = <<item>> \o @]
                      /\ UNCHANGED delivered

Receive(q) == /\ contents[q] # <<>>
              /\ delivered' = [delivered EXCEPT ![q] = Head(contents[q])]
              /\ contents' = [contents EXCEPT ![q] = Tail(@)]

Peek(q) == /\ contents[q] # <<>>
           /\ delivered' = [delivered EXCEPT ![q] = Head(contents[q])]
           /\ UNCHANGED contents

Reset(q) == /\ contents' = [contents EXCEPT ![q] = <<>>]
            /\ UNCHANGED delivered

Next == \E q \in Queues : \/ Receive(q) \/ Peek(q) \/ Reset(q)
                          \/ \E item \in Items : Send(q, item) \/ SendFront(q, item)

Spec == Init /\ [][Next]_vars
=============================================================================
