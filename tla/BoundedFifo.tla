----------------------------- MODULE BoundedFifo -----------------------------
(***************************************************************************)
(* What the transmit queue of a connection promises to its callers: a      *)
(* bounded first-in first-out queue.  A producer hands over an item, which *)
(* is appended in one step as soon as there is room; a consumer receives   *)
(* the oldest item in one step as soon as there is one.  Nothing is said   *)
(* about locks, condition variables or storage: module RingBuffer models   *)
(* those and is shown to implement this specification.                     *)
(***************************************************************************)
EXTENDS Naturals, Sequences

CONSTANTS
    Producers,  \* threads that push
    Consumers,  \* threads that pop
    Items,      \* what is pushed
    NoItem,     \* a default-constructed or moved-from item
    Capacity    \* number of items the queue holds at most

VARIABLES
    fifo,  \* the queued items, oldest first
    item,  \* item[p]: the argument of p's push that is not yet in the queue
    got    \* got[c]: the item c's latest pop obtained

vars == <<fifo, item, got>>

Init ==
    /\ fifo = <<>>
    /\ item = [p \in Producers |-> NoItem]
    /\ got = [c \in Consumers |-> NoItem]

(* p offers x; it may have to wait before x is in the queue. *)
Offer(p, x) ==
    /\ item[p] = NoItem
    /\ item' = [item EXCEPT ![p] = x]
    /\ UNCHANGED <<fifo, got>>

Enqueue(p) ==
    /\ item[p] # NoItem
    /\ Len(fifo) < Capacity
    /\ fifo' = Append(fifo, item[p])
    /\ item' = [item EXCEPT ![p] = NoItem]
    /\ UNCHANGED got

(* c asks for an item; what it obtained before is gone. *)
Ask(c) ==
    /\ got' = [got EXCEPT ![c] = NoItem]
    /\ UNCHANGED <<fifo, item>>

Dequeue(c) ==
    /\ fifo # <<>>
    /\ got[c] = NoItem
    /\ got' = [got EXCEPT ![c] = Head(fifo)]
    /\ fifo' = Tail(fifo)
    /\ UNCHANGED item

Next ==
    \/ \E p \in Producers : Enqueue(p) \/ \E x \in Items : Offer(p, x)
    \/ \E c \in Consumers : Ask(c) \/ Dequeue(c)

Spec == Init /\ [][Next]_vars
==============================================================================
