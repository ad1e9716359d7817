------------------------------ MODULE RingBuffer ------------------------------
(***************************************************************************)
(* libs/libcon/src/ring_buffer.hpp: the blocking queue between the threads *)
(* that send on a connection and the code that transmits.  One mutex, two  *)
(* condition variables and a boost::circular_buffer whose elements are     *)
(* never removed: m_unread counts how many of the newest ones are still to *)
(* be read, and a push into a full buffer drops the oldest, a read one.    *)
(*                                                                         *)
(* Every action is one critical section of m_mutex, or one notify_one,     *)
(* which the code calls after it has released the mutex.  A thread is      *)
(*   "out"     not in the queue's code,                                    *)
(*   "try"     about to take the mutex and evaluate the wait predicate,    *)
(*   "wait"    asleep on its condition variable,                           *)
(*   "signal"  past its critical section, about to call notify_one.        *)
(***************************************************************************)
EXTENDS Naturals, Sequences, FiniteSets

CONSTANTS Producers, Consumers, Items, NoItem, Capacity

ASSUME ThreadsAssumption ==
    /\ IsFiniteSet(Producers)
    /\ IsFiniteSet(Consumers)
    /\ Producers \cap Consumers = {}
ASSUME ItemsAssumption == NoItem \notin Items
ASSUME CapacityAssumption == Capacity \in Nat \ {0}

VARIABLES
    container,  \* m_container, newest element first
    unread,     \* m_unread
    item,       \* item[p]: the argument of push_front, NoItem once moved from
    got,        \* got[c]: the local `item' that pop_back returns
    pc          \* where each thread is

vars == <<container, unread, item, got, pc>>

Threads == Producers \cup Consumers

At(S, where) == {t \in S : pc[t] = where}

is_not_full == unread < Capacity
is_not_empty == unread > 0

Init ==
    /\ container = <<>>
    /\ unread = 0
    /\ item = [p \in Producers |-> NoItem]
    /\ got = [c \in Consumers |-> NoItem]
    /\ pc = [t \in Threads |-> "out"]

-------------------------------------------------------------------------------
(* boost::circular_buffer::push_front: a full buffer loses its last element. *)
PushFront(s, x) ==
    [i \in 1 .. (IF Len(s) < Capacity THEN Len(s) + 1 ELSE Capacity) |->
        IF i = 1 THEN x ELSE s[i - 1]]

(* Mutant of Oldest: the end that was pushed last. *)
Newest == container[1]

(* The oldest unread element: m_container[--m_unread], counted from 1. *)
Oldest == container[unread]

(* notify_one by t on the condition variable of the threads in S: one of     *)
(* those asleep goes back to its predicate; the call is lost if none sleeps. *)
NotifyOne(t, S) ==
    \/ /\ At(S, "wait") = {}
       /\ pc' = [pc EXCEPT ![t] = "out"]
    \/ \E s \in At(S, "wait") : pc' = [pc EXCEPT ![t] = "out", ![s] = "try"]

CallPush(p, x) ==
    /\ pc[p] = "out"
    /\ item' = [item EXCEPT ![p] = x]
    /\ pc' = [pc EXCEPT ![p] = "try"]
    /\ UNCHANGED <<container, unread, got>>

(* m_not_full.wait releases the mutex and goes to sleep in one step. *)
PushBlock(p) ==
    /\ pc[p] = "try"
    /\ ~is_not_full
    /\ pc' = [pc EXCEPT ![p] = "wait"]
    /\ UNCHANGED <<container, unread, item, got>>

PushStore(p) ==
    /\ pc[p] = "try"
    /\ is_not_full
    /\ container' = PushFront(container, item[p])
    /\ unread' = unread + 1
    /\ item' = [item EXCEPT ![p] = NoItem]
    /\ pc' = [pc EXCEPT ![p] = "signal"]
    /\ UNCHANGED got

(* Mutant of PushSignal: notify only when the queue was empty. *)
PushSignalIfFirst(p) ==
    /\ pc[p] = "signal"
    /\ IF unread = 1
       THEN NotifyOne(p, Consumers)
       ELSE pc' = [pc EXCEPT ![p] = "out"]
    /\ UNCHANGED <<container, unread, item, got>>

PushSignal(p) ==
    /\ pc[p] = "signal"
    /\ NotifyOne(p, Consumers)
    /\ UNCHANGED <<container, unread, item, got>>

CallPop(c) ==
    /\ pc[c] = "out"
    /\ got' = [got EXCEPT ![c] = NoItem]
    /\ pc' = [pc EXCEPT ![c] = "try"]
    /\ UNCHANGED <<container, unread, item>>

PopBlock(c) ==
    /\ pc[c] = "try"
    /\ ~is_not_empty
    /\ pc' = [pc EXCEPT ![c] = "wait"]
    /\ UNCHANGED <<container, unread, item, got>>

PopTake(c) ==
    /\ pc[c] = "try"
    /\ is_not_empty
    /\ got' = [got EXCEPT ![c] = Oldest]
    /\ unread' = unread - 1
    /\ pc' = [pc EXCEPT ![c] = "signal"]
    /\ UNCHANGED <<container, item>>

(* Mutant of PopSignal: the other condition variable. *)
PopSignalNotEmpty(c) ==
    /\ pc[c] = "signal"
    /\ NotifyOne(c, Consumers)
    /\ UNCHANGED <<container, unread, item, got>>

PopSignal(c) ==
    /\ pc[c] = "signal"
    /\ NotifyOne(c, Producers)
    /\ UNCHANGED <<container, unread, item, got>>

(* A condition variable may wake a thread nobody notified. *)
SpuriousWakeup(t) ==
    /\ pc[t] = "wait"
    /\ pc' = [pc EXCEPT ![t] = "try"]
    /\ UNCHANGED <<container, unread, item, got>>

PushStep(p) == PushBlock(p) \/ PushStore(p) \/ PushSignal(p)
PopStep(c) == PopBlock(c) \/ PopTake(c) \/ PopSignal(c)

Next ==
    \/ \E p \in Producers : PushStep(p) \/ \E x \in Items : CallPush(p, x)
    \/ \E c \in Consumers : PopStep(c) \/ CallPop(c)
    \/ \E t \in Threads : SpuriousWakeup(t)

Spec == Init /\ [][Next]_vars

(* A thread inside push_front or pop_back keeps running; nobody is obliged  *)
(* to call them, and no spurious wake-up is ever owed to a sleeper.         *)
Fairness ==
    /\ \A p \in Producers : WF_vars(PushStep(p))
    /\ \A c \in Consumers : WF_vars(PopStep(c))

FairSpec == Spec /\ Fairness

-------------------------------------------------------------------------------
(* The types of the variables, with the two bounds that keep the index      *)
(* m_unread - 1 inside the circular buffer: it holds at most Capacity       *)
(* elements, and the unread ones are among them.                            *)
TypeOK ==
    /\ container \in Seq(Items)
    /\ Len(container) <= Capacity
    /\ unread \in 0 .. Len(container)
    /\ item \in [Producers -> Items \cup {NoItem}]
    /\ got \in [Consumers -> Items \cup {NoItem}]
    /\ pc \in [Threads -> {"out", "try", "wait", "signal"}]

(* notify_one is called after the mutex is released and wakes one thread     *)
(* only, so a wake-up could be lost.  It never is: while a producer sleeps,  *)
(* every free place is matched by a consumer that has still to notify or by  *)
(* a producer on its way to the predicate, which will use that place.        *)
FreePlacesAnnounced ==
    At(Producers, "wait") # {} =>
        Capacity - unread <=
            Cardinality(At(Consumers, "signal")) + Cardinality(At(Producers, "try"))

(* The same for consumers: while one sleeps, every unread item is matched by *)
(* a producer that has still to notify or by a consumer about to look.       *)
ItemsAnnounced ==
    At(Consumers, "wait") # {} =>
        unread <=
            Cardinality(At(Producers, "signal")) + Cardinality(At(Consumers, "try"))

(* Producers and consumers never all sleep on each other: if every thread    *)
(* inside the queue is asleep, the queue is full for the producers among     *)
(* them and empty for the consumers, so only one of the two kinds sleeps.    *)
NoMutualSleep == ~(At(Producers, "wait") # {} /\ At(Consumers, "wait") # {}
                   /\ \A t \in Threads : pc[t] \in {"wait", "out"})

(* What the queue promises: see BoundedFifo.  The queue content is the       *)
(* unread part of the container, oldest first.                               *)
Content == [i \in 1 .. unread |-> container[unread + 1 - i]]

Fifo == INSTANCE BoundedFifo WITH fifo <- Content
FifoSpec == Fifo!Spec

(* A producer that sleeps while there is room is woken, or somebody else     *)
(* takes the room first: it does not sleep forever beside a free place.      *)
SleepingProducerServed ==
    \A p \in Producers :
        (pc[p] = "wait" /\ is_not_full) ~> (pc[p] # "wait" \/ ~is_not_full)

(* A consumer that sleeps while an item is unread is woken, or somebody else *)
(* reads the item first.                                                     *)
SleepingConsumerServed ==
    \A c \in Consumers :
        (pc[c] = "wait" /\ is_not_empty) ~> (pc[c] # "wait" \/ ~is_not_empty)

(* Neither side sleeps on what there is, as long as the other side goes on   *)
(* with the call it is in (push_front, pop_back).                            *)
SleepersServed == SleepingProducerServed /\ SleepingConsumerServed
===============================================================================
