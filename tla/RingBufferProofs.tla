--------------------------- MODULE RingBufferProofs ---------------------------
(***************************************************************************)
(* Proofs about RingBuffer, for every set of threads, every item set and   *)
(* every capacity.                                                         *)
(***************************************************************************)
EXTENDS RingBuffer, FiniteSetTheorems, SequenceTheorems, TLAPS

(* A push owns its item exactly until the item is stored, and a pop has      *)
(* nothing to return before it has taken an item.                            *)
Arguments ==
    /\ \A p \in Producers : pc[p] \in {"try", "wait"} <=> item[p] # NoItem
    /\ \A c \in Consumers : pc[c] \in {"try", "wait"} => got[c] = NoItem

TypeInv == TypeOK /\ Arguments

-------------------------------------------------------------------------------
(* A push puts the item first, keeps what fits and stays a bounded sequence. *)
LEMMA PushFrontIsSeq ==
    ASSUME NEW s \in Seq(Items), Len(s) <= Capacity, NEW x \in Items
    PROVE  /\ PushFront(s, x) \in Seq(Items)
           /\ Len(PushFront(s, x)) =
                  IF Len(s) < Capacity THEN Len(s) + 1 ELSE Capacity
           /\ \A i \in 1 .. Len(PushFront(s, x)) :
                  PushFront(s, x)[i] = IF i = 1 THEN x ELSE s[i - 1]
<1> DEFINE n == IF Len(s) < Capacity THEN Len(s) + 1 ELSE Capacity
           e(i) == IF i = 1 THEN x ELSE s[i - 1]
<1>1. Len(s) \in Nat /\ Capacity \in Nat /\ n \in Nat /\ n <= Len(s) + 1
  BY CapacityAssumption, LenProperties
<1>2. \A i \in 1 .. n : e(i) \in Items
  <2> SUFFICES ASSUME NEW i \in 1 .. n PROVE e(i) \in Items
    OBVIOUS
  <2>1. CASE i = 1
    BY <2>1
  <2>2. CASE i # 1
    <3>1. i - 1 \in 1 .. Len(s)
      BY <1>1, <2>2
    <3> QED
      BY <2>2, <3>1, ElementOfSeq
  <2> QED
    BY <2>1, <2>2
<1>3. PushFront(s, x) = [i \in 1 .. n |-> e(i)]
  BY DEF PushFront
<1> HIDE DEF n, e
<1>4. [i \in 1 .. n |-> e(i)] \in Seq(Items)
  BY <1>1, <1>2, IsASeq
<1>5. Len(PushFront(s, x)) = n
  <2>1. DOMAIN PushFront(s, x) = 1 .. n
    BY <1>3
  <2> QED
    BY <1>1, <1>3, <1>4, <2>1, LenProperties
<1>6. \A i \in 1 .. n : PushFront(s, x)[i] = e(i)
  BY <1>3
<1> QED
  BY <1>3, <1>4, <1>5, <1>6 DEF n, e

-------------------------------------------------------------------------------
(* The initial state is well typed. *)
LEMMA InitTypeInv == Init => TypeInv
<1> SUFFICES ASSUME Init PROVE TypeInv
  OBVIOUS
<1>1. container \in Seq(Items) /\ Len(container) = 0
  BY EmptySeq DEF Init
<1> QED
  BY <1>1, CapacityAssumption DEF Init, TypeInv, TypeOK, Arguments, Threads

(* Every step keeps the variables well typed, the read index inside the      *)
(* circular buffer and the arguments where the program counters say.         *)
LEMMA NextTypeInv == TypeInv /\ [Next]_vars => TypeInv'
<1> SUFFICES ASSUME TypeInv, [Next]_vars PROVE TypeInv'
  OBVIOUS
<1> USE DEF TypeInv, TypeOK, Arguments, Threads
<1>0. /\ Len(container) \in Nat
      /\ Producers \cap Consumers = {}
      /\ NoItem \notin Items
      /\ Capacity \in Nat \ {0}
  BY LenProperties, ThreadsAssumption, ItemsAssumption, CapacityAssumption
<1>1. ASSUME NEW p \in Producers, NEW x \in Items, CallPush(p, x)
      PROVE  TypeInv'
  BY <1>0, <1>1 DEF CallPush
<1>2. ASSUME NEW p \in Producers, PushBlock(p)
      PROVE  TypeInv'
  BY <1>0, <1>2 DEF PushBlock
<1>3. ASSUME NEW p \in Producers, PushStore(p)
      PROVE  TypeInv'
  <2>1. item[p] \in Items
    BY <1>3 DEF PushStore
  <2>2. /\ container' \in Seq(Items)
        /\ Len(container') =
               IF Len(container) < Capacity THEN Len(container) + 1 ELSE Capacity
    BY <1>3, <2>1, PushFrontIsSeq DEF PushStore
  <2>3. Len(container') <= Capacity /\ unread' \in 0 .. Len(container')
    BY <1>0, <1>3, <2>2 DEF PushStore, is_not_full
  <2>4. /\ item' \in [Producers -> Items \cup {NoItem}]
        /\ got' = got
        /\ pc' \in [Producers \cup Consumers -> {"out", "try", "wait", "signal"}]
    BY <1>3 DEF PushStore
  <2>5. Arguments'
    BY <1>0, <1>3 DEF PushStore
  <2> QED
    BY <2>2, <2>3, <2>4, <2>5
<1>4. ASSUME NEW p \in Producers, PushSignal(p)
      PROVE  TypeInv'
  <2>1. UNCHANGED <<container, unread, item, got>>
    BY <1>4 DEF PushSignal
  <2>2. CASE pc' = [pc EXCEPT ![p] = "out"]
    BY <1>0, <1>4, <2>1, <2>2 DEF PushSignal
  <2>3. CASE \E c \in At(Consumers, "wait") :
                 pc' = [pc EXCEPT ![p] = "out", ![c] = "try"]
    BY <1>0, <1>4, <2>1, <2>3 DEF PushSignal, At
  <2> QED
    BY <1>4, <2>2, <2>3 DEF PushSignal, NotifyOne
<1>5. ASSUME NEW c \in Consumers, CallPop(c)
      PROVE  TypeInv'
  BY <1>0, <1>5 DEF CallPop
<1>6. ASSUME NEW c \in Consumers, PopBlock(c)
      PROVE  TypeInv'
  BY <1>0, <1>6 DEF PopBlock
<1>7. ASSUME NEW c \in Consumers, PopTake(c)
      PROVE  TypeInv'
  <2>1. unread \in 1 .. Len(container)
    BY <1>0, <1>7 DEF PopTake, is_not_empty
  <2>2. container[unread] \in Items
    BY <2>1, ElementOfSeq
  <2>3. unread' \in 0 .. Len(container)
    BY <1>0, <1>7, <2>1 DEF PopTake
  <2> QED
    BY <1>0, <1>7, <2>2, <2>3 DEF PopTake, Oldest
<1>8. ASSUME NEW c \in Consumers, PopSignal(c)
      PROVE  TypeInv'
  <2>1. UNCHANGED <<container, unread, item, got>>
    BY <1>8 DEF PopSignal
  <2>2. CASE pc' = [pc EXCEPT ![c] = "out"]
    BY <1>0, <1>8, <2>1, <2>2 DEF PopSignal
  <2>3. CASE \E p \in At(Producers, "wait") :
                 pc' = [pc EXCEPT ![c] = "out", ![p] = "try"]
    BY <1>0, <1>8, <2>1, <2>3 DEF PopSignal, At
  <2> QED
    BY <1>8, <2>2, <2>3 DEF PopSignal, NotifyOne
<1>9. ASSUME NEW t \in Producers \cup Consumers, SpuriousWakeup(t)
      PROVE  TypeInv'
  BY <1>0, <1>9 DEF SpuriousWakeup
<1>10. CASE UNCHANGED vars
  BY <1>10 DEF vars
<1> QED
  BY <1>1, <1>2, <1>3, <1>4, <1>5, <1>6, <1>7, <1>8, <1>9, <1>10
     DEF Next, PushStep, PopStep

(* The circular buffer never holds more than its capacity and every read     *)
(* index is inside it, whatever the threads do.                              *)
THEOREM TypeCorrect == Spec => []TypeOK
<1>1. Spec => []TypeInv
  BY InitTypeInv, NextTypeInv, PTL DEF Spec
<1>2. TypeInv => TypeOK
  BY DEF TypeInv
<1> QED
  BY <1>1, <1>2, PTL

-------------------------------------------------------------------------------
Count(f, S, w) == Cardinality({s \in S : f[s] = w})

(* The common form of FreePlacesAnnounced and ItemsAnnounced: while a thread *)
(* of A sleeps, each of the n things it sleeps for is announced by a thread  *)
(* of B that has still to notify or by a thread of A about to look.          *)
Announced(f, A, B, n) ==
    {s \in A : f[s] = "wait"} # {} => n <= Count(f, B, "signal") + Count(f, A, "try")

(* From f to g, t moves from a to b and is the only one of S that moves.     *)
Moves(S, f, g, t, a, b) ==
    /\ f[t] = a
    /\ g[t] = b
    /\ \A s \in S \ {t} : g[s] = f[s]

(* What the move of one thread changes in the count of those that are at w.  *)
LEMMA OneMoves ==
    ASSUME NEW S, IsFiniteSet(S), NEW f, NEW g, NEW t \in S,
           NEW a, NEW b, a # b, Moves(S, f, g, t, a, b), NEW w
    PROVE  Count(g, S, w) =
               IF w = a THEN Count(f, S, w) - 1
               ELSE IF w = b THEN Count(f, S, w) + 1
               ELSE Count(f, S, w)
<1> USE DEF Count, Moves
<1> DEFINE F == {s \in S : f[s] = w}
           G == {s \in S : g[s] = w}
<1>1. IsFiniteSet(F)
  BY FS_Subset, F \in SUBSET S
<1>2. CASE w = a
  <2>1. G = F \ {t} /\ t \in F
    BY <1>2
  <2> HIDE DEF F, G
  <2>2. Cardinality(F \ {t}) = Cardinality(F) - 1
    BY <1>1, <2>1, FS_RemoveElement
  <2>3. Cardinality(G) = Cardinality(F) - 1
    BY <2>1, <2>2
  <2> QED
    BY <1>2, <2>3 DEF F, G
<1>3. CASE w = b /\ w # a
  <2>1. G = F \cup {t} /\ t \notin F
    BY <1>3
  <2> HIDE DEF F, G
  <2>2. Cardinality(F \cup {t}) = Cardinality(F) + 1
    BY <1>1, <2>1, FS_AddElement
  <2>3. Cardinality(G) = Cardinality(F) + 1
    BY <2>1, <2>2
  <2> QED
    BY <1>3, <2>3 DEF F, G
<1>4. CASE w # a /\ w # b
  <2>1. G = F
    BY <1>4
  <2> QED
    BY <1>4, <2>1
<1> QED
  BY <1>2, <1>3, <1>4

(* Threads outside S do not change its counts. *)
LEMMA NobodyMoves ==
    ASSUME NEW S, NEW f, NEW g, \A s \in S : g[s] = f[s], NEW w
    PROVE  /\ {s \in S : g[s] = w} = {s \in S : f[s] = w}
           /\ Count(g, S, w) = Count(f, S, w)
  BY {s \in S : g[s] = w} = {s \in S : f[s] = w} DEF Count

(* The number of threads that wait is a natural number. *)
LEMMA CountIsNat ==
    ASSUME NEW S, IsFiniteSet(S), NEW f, NEW w
    PROVE  Count(f, S, w) \in Nat
  BY FS_Subset, FS_CardinalityType, {s \in S : f[s] = w} \in SUBSET S DEF Count

(* A thread of the sleeping group moves: entering the queue or waking up     *)
(* adds a looker, going to sleep happens only when there is nothing to       *)
(* announce, and a looker that takes one of the n things leaves n - 1.       *)
LEMMA SleepersSideMoves ==
    ASSUME NEW A \in SUBSET Threads, NEW B \in SUBSET Threads, A \cap B = {},
           IsFiniteSet(A), IsFiniteSet(B), NEW t \in A, NEW f, NEW g,
           NEW a, NEW b, Moves(Threads, f, g, t, a, b), NEW n \in Int, NEW m \in Int,
           Announced(f, A, B, n),
           \/ b = "try" /\ a # "try" /\ m = n
           \/ a = "signal" /\ b = "out" /\ m = n
           \/ a = "try" /\ b = "wait" /\ m <= 0
           \/ a = "try" /\ b = "signal" /\ m = n - 1
    PROVE  Announced(g, A, B, m)
<1>1. Count(g, B, "signal") = Count(f, B, "signal")
  BY NobodyMoves DEF Moves
<1>2. Moves(A, f, g, t, a, b)
  BY DEF Moves
<1>3. f[t] = a /\ g[t] = b /\ a # b
  BY DEF Moves
<1>4. Count(g, A, "try") =
          IF "try" = a THEN Count(f, A, "try") - 1
          ELSE IF "try" = b THEN Count(f, A, "try") + 1
          ELSE Count(f, A, "try")
  BY <1>2, <1>3, OneMoves
<1>5. /\ Count(f, A, "try") \in Nat /\ Count(f, B, "signal") \in Nat
      /\ Count(g, A, "try") \in Nat /\ Count(g, B, "signal") \in Nat
  BY CountIsNat
<1>6. b # "wait" => {s \in A : g[s] = "wait"} \subseteq {s \in A : f[s] = "wait"}
  BY <1>2 DEF Moves
<1>7. CASE m <= 0
  BY <1>5, <1>7 DEF Announced
<1>8. CASE b # "wait"
  BY <1>1, <1>3, <1>4, <1>5, <1>6, <1>8 DEF Announced
<1> QED
  BY <1>7, <1>8

(* A thread of the other group moves outside its signal, or makes one more   *)
(* thing available and has yet to announce it.                               *)
LEMMA OtherSideMoves ==
    ASSUME NEW A \in SUBSET Threads, NEW B \in SUBSET Threads, A \cap B = {},
           IsFiniteSet(A), IsFiniteSet(B), NEW t \in B, NEW f, NEW g,
           NEW a, NEW b, Moves(Threads, f, g, t, a, b), NEW n \in Int, NEW m \in Int,
           Announced(f, A, B, n), a # "signal", a # b,
           IF b = "signal" THEN m = n + 1 ELSE m = n
    PROVE  Announced(g, A, B, m)
<1>1. /\ {s \in A : g[s] = "wait"} = {s \in A : f[s] = "wait"}
      /\ Count(g, A, "try") = Count(f, A, "try")
  BY NobodyMoves DEF Moves
<1>2. Moves(B, f, g, t, a, b)
  BY DEF Moves
<1>4. Count(g, B, "signal") =
          IF "signal" = b THEN Count(f, B, "signal") + 1 ELSE Count(f, B, "signal")
  BY <1>2, OneMoves
<1>5. Count(f, A, "try") \in Nat /\ Count(f, B, "signal") \in Nat
  BY CountIsNat
<1> QED
  BY <1>1, <1>4, <1>5 DEF Announced

(* A thread of the other group announces: a sleeper becomes a looker, or     *)
(* there is no sleeper left.                                                 *)
LEMMA OtherSideNotifies ==
    ASSUME NEW A \in SUBSET Threads, NEW B \in SUBSET Threads, A \cap B = {},
           IsFiniteSet(A), IsFiniteSet(B), NEW t \in B, NEW n \in Int,
           TypeOK, pc[t] = "signal", NotifyOne(t, A), Announced(pc, A, B, n)
    PROVE  Announced(pc', A, B, n)
<1>1. CASE At(A, "wait") = {} /\ pc' = [pc EXCEPT ![t] = "out"]
  <2>1. {s \in A : pc'[s] = "wait"} = {}
    BY <1>1 DEF At, TypeOK
  <2> QED
    BY <2>1 DEF Announced
<1>2. ASSUME NEW s \in At(A, "wait"), pc' = [pc EXCEPT ![t] = "out", ![s] = "try"]
      PROVE  Announced(pc', A, B, n)
  <2>1. /\ s \in A /\ s \notin B /\ pc[s] = "wait" /\ s # t
        /\ pc'[s] = "try" /\ pc'[t] = "out"
        /\ \A r \in Threads \ {s, t} : pc'[r] = pc[r]
    BY <1>2 DEF At, TypeOK
  <2>2. Count(pc', B, "signal") = Count(pc, B, "signal") - 1
    <3>1. Moves(B, pc, pc', t, "signal", "out")
      BY <2>1 DEF Moves
    <3> QED
      BY <2>1, <3>1, OneMoves
  <2>3. Count(pc', A, "try") = Count(pc, A, "try") + 1
    <3>1. Moves(A, pc, pc', s, "wait", "try")
      BY <2>1 DEF Moves
    <3> QED
      BY <2>1, <3>1, OneMoves
  <2>4. Count(pc, A, "try") \in Nat /\ Count(pc, B, "signal") \in Nat
    BY CountIsNat
  <2> QED
    BY <2>1, <2>2, <2>3, <2>4 DEF Announced
<1> QED
  BY <1>1, <1>2 DEF NotifyOne

(* A thread of the sleeping group announces to the other group: its own      *)
(* sleepers see no difference.                                               *)
LEMMA SleepersSideNotifies ==
    ASSUME NEW A \in SUBSET Threads, NEW B \in SUBSET Threads, A \cap B = {},
           IsFiniteSet(A), IsFiniteSet(B), NEW t \in A, NEW n \in Int,
           TypeOK, pc[t] = "signal", NotifyOne(t, B), Announced(pc, A, B, n)
    PROVE  Announced(pc', A, B, n)
<1>1. /\ \A r \in A \ {t} : pc'[r] = pc[r]
      /\ pc'[t] = "out"
      /\ \A r \in B : pc[r] = "signal" <=> pc'[r] = "signal"
  BY DEF NotifyOne, At, TypeOK
<1>2. {s \in A : pc'[s] = "wait"} = {s \in A : pc[s] = "wait"}
  BY <1>1
<1>3. Count(pc', A, "try") = Count(pc, A, "try")
  <2>1. Moves(A, pc, pc', t, "signal", "out")
    BY <1>1 DEF Moves
  <2> QED
    BY <2>1, OneMoves
<1>4. {s \in B : pc'[s] = "signal"} = {s \in B : pc[s] = "signal"}
  BY <1>1
<1>5. Count(pc', B, "signal") = Count(pc, B, "signal")
  BY <1>4 DEF Count
<1> QED
  BY <1>2, <1>3, <1>5 DEF Announced

PlacesAndItems ==
    /\ Announced(pc, Producers, Consumers, Capacity - unread)
    /\ Announced(pc, Consumers, Producers, unread)

(* Every step keeps each free place and each unread item announced to the    *)
(* threads that sleep on it.                                                 *)
LEMMA NextPlacesAndItems == TypeInv /\ PlacesAndItems /\ [Next]_vars => PlacesAndItems'
<1> SUFFICES ASSUME TypeInv, PlacesAndItems, [Next]_vars PROVE PlacesAndItems'
  OBVIOUS
<1>a. /\ Announced(pc, Producers, Consumers, Capacity - unread)
      /\ Announced(pc, Consumers, Producers, unread)
  BY DEF PlacesAndItems
<1>b. /\ TypeOK
      /\ unread \in Int /\ Capacity - unread \in Int /\ Capacity \in Int
      /\ IsFiniteSet(Producers) /\ IsFiniteSet(Consumers)
      /\ Producers \in SUBSET Threads /\ Consumers \in SUBSET Threads
      /\ Producers \cap Consumers = {} /\ Consumers \cap Producers = {}
      /\ pc \in [Threads -> {"out", "try", "wait", "signal"}]
  BY ThreadsAssumption, CapacityAssumption, LenProperties DEF TypeInv, TypeOK,
       Threads
<1>1. ASSUME NEW p \in Producers, NEW x \in Items, CallPush(p, x)
      PROVE  PlacesAndItems'
  <2>1. Moves(Threads, pc, pc', p, "out", "try") /\ unread' = unread
    BY <1>b, <1>1 DEF CallPush, Moves
  <2> QED
    BY <1>a, <1>b, <2>1, SleepersSideMoves, OtherSideMoves DEF PlacesAndItems
<1>2. ASSUME NEW p \in Producers, PushBlock(p)
      PROVE  PlacesAndItems'
  <2>1. /\ Moves(Threads, pc, pc', p, "try", "wait") /\ unread' = unread
        /\ Capacity - unread' <= 0
    BY <1>b, <1>2 DEF PushBlock, Moves, is_not_full
  <2> QED
    BY <1>a, <1>b, <2>1, SleepersSideMoves, OtherSideMoves DEF PlacesAndItems
<1>3. ASSUME NEW p \in Producers, PushStore(p)
      PROVE  PlacesAndItems'
  <2>1. /\ Moves(Threads, pc, pc', p, "try", "signal") /\ unread' = unread + 1
        /\ unread' \in Int /\ Capacity - unread' \in Int
        /\ Capacity - unread' = (Capacity - unread) - 1
    BY <1>b, <1>3 DEF PushStore, Moves
  <2> QED
    BY <1>a, <1>b, <2>1, SleepersSideMoves, OtherSideMoves DEF PlacesAndItems
<1>4. ASSUME NEW p \in Producers, PushSignal(p)
      PROVE  PlacesAndItems'
  <2>1. pc[p] = "signal" /\ NotifyOne(p, Consumers) /\ unread' = unread
    BY <1>4 DEF PushSignal
  <2> QED
    BY <1>a, <1>b, <2>1, SleepersSideNotifies, OtherSideNotifies DEF PlacesAndItems
<1>5. ASSUME NEW c \in Consumers, CallPop(c)
      PROVE  PlacesAndItems'
  <2>1. Moves(Threads, pc, pc', c, "out", "try") /\ unread' = unread
    BY <1>b, <1>5 DEF CallPop, Moves
  <2> QED
    BY <1>a, <1>b, <2>1, SleepersSideMoves, OtherSideMoves DEF PlacesAndItems
<1>6. ASSUME NEW c \in Consumers, PopBlock(c)
      PROVE  PlacesAndItems'
  <2>1. Moves(Threads, pc, pc', c, "try", "wait") /\ unread' = unread /\ unread' <= 0
    BY <1>b, <1>6 DEF PopBlock, Moves, is_not_empty
  <2> QED
    BY <1>a, <1>b, <2>1, SleepersSideMoves, OtherSideMoves DEF PlacesAndItems
<1>7. ASSUME NEW c \in Consumers, PopTake(c)
      PROVE  PlacesAndItems'
  <2>1. /\ Moves(Threads, pc, pc', c, "try", "signal") /\ unread' = unread - 1
        /\ unread' \in Int /\ Capacity - unread' \in Int
        /\ Capacity - unread' = (Capacity - unread) + 1
    BY <1>b, <1>7 DEF PopTake, Moves
  <2> QED
    BY <1>a, <1>b, <2>1, SleepersSideMoves, OtherSideMoves DEF PlacesAndItems
<1>8. ASSUME NEW c \in Consumers, PopSignal(c)
      PROVE  PlacesAndItems'
  <2>1. pc[c] = "signal" /\ NotifyOne(c, Producers) /\ unread' = unread
    BY <1>8 DEF PopSignal
  <2> QED
    BY <1>a, <1>b, <2>1, SleepersSideNotifies, OtherSideNotifies DEF PlacesAndItems
<1>9. ASSUME NEW t \in Threads, SpuriousWakeup(t)
      PROVE  PlacesAndItems'
  <2>1. Moves(Threads, pc, pc', t, "wait", "try") /\ unread' = unread
    BY <1>b, <1>9 DEF SpuriousWakeup, Moves
  <2>2. t \in Producers \/ t \in Consumers
    BY <1>9 DEF Threads
  <2> QED
    BY <1>a, <1>b, <2>1, <2>2, SleepersSideMoves, OtherSideMoves DEF PlacesAndItems
<1>10. CASE UNCHANGED vars
  BY <1>a, <1>10 DEF vars, PlacesAndItems
<1> QED
  BY <1>1, <1>2, <1>3, <1>4, <1>5, <1>6, <1>7, <1>8, <1>9, <1>10
     DEF Next, PushStep, PopStep

(* Nobody sleeps when the queue is constructed. *)
LEMMA InitPlacesAndItems == Init => PlacesAndItems
  BY DEF Init, PlacesAndItems, Announced, Threads

(* So both hold in every state of the queue. *)
LEMMA InvariantPlacesAndItems == Spec => [](TypeInv /\ PlacesAndItems)
  BY InitTypeInv, NextTypeInv, InitPlacesAndItems, NextPlacesAndItems, PTL DEF Spec

(* No producer is left asleep beside a free place that nobody announces.     *)
THEOREM NoLostPlace == Spec => []FreePlacesAnnounced
<1>1. PlacesAndItems => FreePlacesAnnounced
  BY DEF PlacesAndItems, Announced, Count, FreePlacesAnnounced, At
<1> QED
  BY <1>1, InvariantPlacesAndItems, PTL

(* No consumer is left asleep beside an item that nobody announces.          *)
THEOREM NoLostItem == Spec => []ItemsAnnounced
<1>1. PlacesAndItems => ItemsAnnounced
  BY DEF PlacesAndItems, Announced, Count, ItemsAnnounced, At
<1> QED
  BY <1>1, InvariantPlacesAndItems, PTL

(* The threads inside the queue never all sleep: the free places and the     *)
(* unread items together are Capacity, which is positive, so one of them is  *)
(* announced by a thread that is awake.                                      *)
THEOREM NeverAllAsleep == Spec => []NoMutualSleep
<1>1. TypeInv /\ PlacesAndItems => NoMutualSleep
  <2> SUFFICES ASSUME TypeInv, PlacesAndItems,
                      At(Producers, "wait") # {}, At(Consumers, "wait") # {},
                      \A t \in Threads : pc[t] \in {"wait", "out"}
               PROVE  FALSE
    BY DEF NoMutualSleep
  <2>1. \A S \in {Producers, Consumers}, w \in {"try", "signal"} : Count(pc, S, w) = 0
    <3>1. \A S \in {Producers, Consumers}, w \in {"try", "signal"} :
              {s \in S : pc[s] = w} = {}
      BY DEF Threads
    <3> QED
      BY <3>1, FS_EmptySet DEF Count
  <2>2. Capacity - unread <= 0 + 0 /\ unread <= 0 + 0
    BY <2>1 DEF PlacesAndItems, Announced, At
  <2> QED
    BY <2>2, CapacityAssumption, LenProperties DEF TypeInv, TypeOK
<1> QED
  BY <1>1, InvariantPlacesAndItems, PTL

-------------------------------------------------------------------------------
(* The unread part of a buffer, oldest first, is a sequence of items.        *)
LEMMA UnreadPart ==
    ASSUME NEW buf \in Seq(Items), NEW u \in 0 .. Len(buf)
    PROVE  LET q == [i \in 1 .. u |-> buf[u + 1 - i]]
           IN  q \in Seq(Items) /\ Len(q) = u
<1> DEFINE e(i) == buf[u + 1 - i]
<1>1. u \in Nat /\ u <= Len(buf)
  BY LenProperties
<1>2. \A i \in 1 .. u : e(i) \in Items
  <2> SUFFICES ASSUME NEW i \in 1 .. u PROVE e(i) \in Items
    OBVIOUS
  <2>1. u + 1 - i \in 1 .. Len(buf)
    BY <1>1, LenProperties
  <2> QED
    BY <2>1, ElementOfSeq
<1> HIDE DEF e
<1>3. [i \in 1 .. u |-> e(i)] \in Seq(Items)
  BY <1>1, <1>2, IsASeq
<1>4. Len([i \in 1 .. u |-> e(i)]) = u
  BY <1>1, <1>3, LenProperties
<1> QED
  BY <1>3, <1>4 DEF e

(* What the refinement maps the container to is a sequence of items. *)
LEMMA ContentIsSeq ==
    ASSUME TypeOK
    PROVE  /\ Content \in Seq(Items)
           /\ Len(Content) = unread
           /\ \A i \in 1 .. unread : Content[i] = container[unread + 1 - i]
  BY UnreadPart DEF TypeOK, Content

(* The same after a step. *)
LEMMA NextContentIsSeq ==
    ASSUME TypeOK'
    PROVE  /\ Content' \in Seq(Items)
           /\ Len(Content') = unread'
           /\ \A i \in 1 .. unread' : Content'[i] = container'[unread' + 1 - i]
<1>1. container' \in Seq(Items) /\ unread' \in 0 .. Len(container')
  BY DEF TypeOK
<1>2. Content' = [i \in 1 .. unread' |-> container'[unread' + 1 - i]]
  BY DEF Content
<1> QED
  BY <1>1, <1>2, UnreadPart

(* A push appends its item to the content.                                   *)
LEMMA StoreAppends ==
    ASSUME TypeInv, TypeInv', NEW p \in Producers, PushStore(p)
    PROVE  Content' = Append(Content, item[p])
<1>1. /\ item[p] \in Items
      /\ unread < Capacity /\ unread' = unread + 1
      /\ container' = PushFront(container, item[p])
  BY ItemsAssumption DEF PushStore, is_not_full, TypeInv, TypeOK, Arguments
<1>2. /\ Len(container) \in Nat /\ unread \in Nat /\ unread <= Len(container)
      /\ Len(container') \in Nat /\ unread' <= Len(container')
  BY LenProperties DEF TypeInv, TypeOK
<1>3. /\ Content \in Seq(Items) /\ Len(Content) = unread
      /\ \A i \in 1 .. unread : Content[i] = container[unread + 1 - i]
  BY ContentIsSeq DEF TypeInv
<1>4. /\ Content' \in Seq(Items) /\ Len(Content') = unread'
      /\ \A i \in 1 .. unread' : Content'[i] = container'[unread' + 1 - i]
  <2>1. TypeOK'
    BY DEF TypeInv
  <2> QED
    BY <2>1, NextContentIsSeq
<1>5. \A i \in 1 .. Len(container') :
          container'[i] = IF i = 1 THEN item[p] ELSE container[i - 1]
  BY <1>1, PushFrontIsSeq, SMTT(20) DEF TypeInv, TypeOK
<1>6. /\ Append(Content, item[p]) \in Seq(Items)
      /\ Len(Append(Content, item[p])) = unread + 1
      /\ \A i \in 1 .. unread + 1 :
             Append(Content, item[p])[i] = IF i = unread + 1 THEN item[p] ELSE Content[i]
  BY <1>1, <1>3, AppendProperties
<1> HIDE DEF Content
<1>7. \A i \in 1 .. unread + 1 : Content'[i] = Append(Content, item[p])[i]
  <2> SUFFICES ASSUME NEW i \in 1 .. unread + 1
               PROVE  Content'[i] = Append(Content, item[p])[i]
    OBVIOUS
  <2>1. Content'[i] = container'[unread + 2 - i] /\ unread + 2 - i \in 1 .. Len(container')
    BY <1>1, <1>2, <1>4
  <2>2. CASE i = unread + 1
    BY <1>2, <1>5, <1>6, <2>1, <2>2
  <2>3. CASE i \in 1 .. unread
    <3>1. Content'[i] = container[unread + 1 - i]
      BY <1>2, <1>5, <2>1, <2>3
    <3> QED
      BY <1>2, <1>3, <1>6, <2>3, <3>1
  <2>4. i = unread + 1 \/ i \in 1 .. unread
    BY <1>2
  <2> QED
    BY <2>2, <2>3, <2>4
<1> QED
  BY <1>1, <1>4, <1>6, <1>7, SeqEqual

(* A pop takes the head of the content.                                      *)
LEMMA TakeRemovesHead ==
    ASSUME TypeInv, TypeInv', NEW c \in Consumers, PopTake(c)
    PROVE  /\ Content # <<>>
           /\ Oldest = Head(Content)
           /\ Content' = Tail(Content)
<1>1. /\ unread \in Nat /\ unread > 0 /\ unread' = unread - 1
      /\ container' = container
  BY LenProperties DEF PopTake, is_not_empty, TypeInv, TypeOK
<1>3. /\ Content \in Seq(Items) /\ Len(Content) = unread
      /\ \A i \in 1 .. unread : Content[i] = container[unread + 1 - i]
  BY ContentIsSeq DEF TypeInv
<1>4. /\ Content' \in Seq(Items) /\ Len(Content') = unread'
      /\ \A i \in 1 .. unread' : Content'[i] = container[unread' + 1 - i]
  <2>1. TypeOK'
    BY DEF TypeInv
  <2> QED
    BY <1>1, <2>1, NextContentIsSeq
<1>5. Content # <<>>
  BY <1>1, <1>3, EmptySeq
<1>6. Oldest = Head(Content)
  BY <1>1, <1>3, <1>5 DEF Oldest
<1>7. /\ Tail(Content) \in Seq(Items) /\ Len(Tail(Content)) = unread - 1
      /\ \A i \in 1 .. unread - 1 : Tail(Content)[i] = Content[i + 1]
  BY <1>3, <1>5, HeadTailProperties
<1>8. Content' = Tail(Content)
  <2>1. ASSUME NEW i \in 1 .. unread - 1 PROVE Content'[i] = Tail(Content)[i]
    <3>1. Tail(Content)[i] = container[unread - i]
      BY <1>1, <1>3, <1>7
    <3>2. unread' + 1 - i = unread - i /\ i \in 1 .. unread'
      BY <1>1
    <3>3. Content'[i] = container[unread' + 1 - i]
      BY <1>4, <3>2
    <3> QED
      BY <3>1, <3>2, <3>3
  <2> QED
    BY <1>1, <1>4, <1>7, <2>1, SeqEqual
<1> QED
  BY <1>5, <1>6, <1>8

(* Every step of the ring buffer is a step of the bounded queue or a stutter *)
LEMMA StepRefines ==
    ASSUME TypeInv, TypeInv', [Next]_vars
    PROVE  [Fifo!Next]_Fifo!vars
<1>1. ASSUME NEW p \in Producers, NEW x \in Items, CallPush(p, x)
      PROVE  Fifo!Offer(p, x)
  <2>1. item[p] = NoItem
    BY <1>1 DEF CallPush, TypeInv, Arguments
  <2> QED
    BY <1>1, <2>1 DEF CallPush, Fifo!Offer, Content
<1>2. ASSUME NEW p \in Producers, PushStore(p)
      PROVE  Fifo!Enqueue(p)
  <2>1. Content' = Append(Content, item[p]) /\ Len(Content) = unread
    BY <1>2, StoreAppends, ContentIsSeq DEF TypeInv
  <2>2. item[p] # NoItem
    BY <1>2 DEF PushStore, TypeInv, Arguments
  <2> QED
    BY <1>2, <2>1, <2>2 DEF PushStore, is_not_full, Fifo!Enqueue
<1>3. ASSUME NEW c \in Consumers, CallPop(c)
      PROVE  Fifo!Ask(c)
  BY <1>3 DEF CallPop, Fifo!Ask, Content
<1>4. ASSUME NEW c \in Consumers, PopTake(c)
      PROVE  Fifo!Dequeue(c)
  <2>1. got[c] = NoItem
    BY <1>4 DEF PopTake, TypeInv, Arguments
  <2> QED
    BY <1>4, <2>1, TakeRemovesHead DEF PopTake, Fifo!Dequeue
<1>5. ASSUME UNCHANGED <<container, unread, item, got>>
      PROVE  UNCHANGED Fifo!vars
  BY <1>5 DEF Fifo!vars, Content
<1>6. \/ \E p \in Producers : PushStore(p) \/ \E x \in Items : CallPush(p, x)
      \/ \E c \in Consumers : PopTake(c) \/ CallPop(c)
      \/ UNCHANGED <<container, unread, item, got>>
  BY DEF Next, PushStep, PopStep, PushBlock, PushSignal, PopBlock, PopSignal,
         SpuriousWakeup, vars
<1> QED
  BY <1>1, <1>2, <1>3, <1>4, <1>5, <1>6 DEF Fifo!Next

(* push_front and pop_back implement a bounded first-in first-out queue:     *)
(* an item is obtained once, in the order the pushes stored them.            *)
THEOREM ImplementsFifo == Spec => FifoSpec
<1>1. Init => Fifo!Init
  BY DEF Init, Fifo!Init, Content
<1>2. TypeInv /\ TypeInv' /\ [Next]_vars => [Fifo!Next]_Fifo!vars
  BY StepRefines
<1>3. Spec => []TypeInv
  BY InitTypeInv, NextTypeInv, PTL DEF Spec
<1> QED
  BY <1>1, <1>2, <1>3, PTL DEF Spec, FifoSpec, Fifo!Spec
===============================================================================
