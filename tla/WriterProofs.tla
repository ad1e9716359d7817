----------------------------- MODULE WriterProofs -----------------------------
(***************************************************************************)
(* Proofs about Writer: for every transport, queue capacity and bound, and *)
(* whatever the network, the user, a disconnect and the library do, no pop *)
(* blocks and no message is forgotten; and what is sent leaves once and in *)
(* order, unless startWrite meets a move assignment half done.             *)
(***************************************************************************)
EXTENDS Writer, SequenceTheorems, TLAPS

(* A queue that is not empty gives a buffer and keeps buffers.               *)
LEMMA HeadAndTail ==
    ASSUME NEW q \in Seq(Buffer), q # <<>>
    PROVE  /\ Head(q) \in Buffer
           /\ Head(q) = q[1]
           /\ Tail(q) \in Seq(Buffer)
           /\ Len(q) \in Nat \ {0}
           /\ Len(Tail(q)) = Len(q) - 1
           /\ \A i \in 1 .. Len(q) - 1 : Tail(q)[i] = q[i + 1]
  BY HeadTailProperties, EmptySeq

(* A push makes the queue longer by its message.                             *)
LEMMA Appending ==
    ASSUME NEW q \in Seq(Buffer), NEW b \in Buffer
    PROVE  /\ Append(q, b) \in Seq(Buffer)
           /\ Append(q, b) # <<>>
           /\ Len(q) \in Nat
           /\ Len(Append(q, b)) = Len(q) + 1
           /\ \A i \in 1 .. Len(q) : Append(q, b)[i] = q[i]
           /\ Append(q, b)[Len(q) + 1] = b
<1>1. /\ Append(q, b) \in Seq(Buffer)
      /\ Len(q) \in Nat
      /\ Len(Append(q, b)) = Len(q) + 1
      /\ \A i \in 1 .. Len(q) : Append(q, b)[i] = q[i]
      /\ Append(q, b)[Len(q) + 1] = b
  BY AppendProperties, LenProperties
<1>2. Append(q, b) # <<>>
  BY <1>1, EmptySeq
<1> QED
  BY <1>1, <1>2

(* Edits of tx_current_ by the handler leave a buffer.                       *)
LEMMA Edits ==
    ASSUME NEW b \in Buffer, NEW k \in Nat
    PROVE  /\ [b EXCEPT !.lo = @ + k] \in Buffer
           /\ [b EXCEPT !.lo = @ + k].lo = b.lo + k
           /\ [b EXCEPT !.lo = @ + k].hi = b.hi
  BY DEF Buffer

(* So does clear() after a complete transmission. *)
LEMMA Emptying ==
    ASSUME NEW b \in Buffer
    PROVE  /\ Emptied(b) \in Buffer
           /\ Emptied(b).lo = b.hi
           /\ Emptied(b).hi = b.hi
  BY DEF Buffer, Emptied

(* Every step keeps the variables well typed and write_lock_ exclusive.       *)
LEMMA NextTypeOK ==
    ASSUME Always, [Next]_vars
    PROVE  TypeOK'
<1> USE DEF Always, TypeOK, Threads, Buffer, Nothing, Goto, Exclusive,
            InStartWrite, InHandler
<1>1. ASSUME NEW n \in 1 .. MaxLen, CallSend(n)
      PROVE  TypeOK'
  BY <1>1 DEF CallSend
<1>2. CASE Push
  <2>1. [lo |-> accepted, hi |-> accepted + len] \in Buffer
    OBVIOUS
  <2>2. /\ tx_queue' \in Seq(Buffer)
        /\ Len(tx_queue') = Len(tx_queue) + 1
        /\ Len(tx_queue) \in Nat
    BY <1>2, <2>1, AppendProperties, LenProperties DEF Push
  <2>3. Len(tx_queue') <= Capacity
    BY <1>2, <2>2, CapacityAssumption DEF Push
  <2> QED
    BY <1>2, <2>2, <2>3 DEF Push
<1>3. CASE DoWrite
  <2>1. posted' \in Nat /\ pc["gui"] = "dowrite"
    BY <1>3 DEF DoWrite
  <2>2. PICK where \in {"idle", "check"} : pc' = [pc EXCEPT !["gui"] = where]
    BY <1>3 DEF DoWrite
  <2>3. write_lock # "gui"
    BY <2>1
  <2>4. UNCHANGED <<torn, transport, accepted, len, tx_queue, tx_current, moved,
                    write_in_progress, write_lock, should_run, inflight, written, wire>>
    BY <1>3 DEF DoWrite
  <2> QED
    BY <2>1, <2>2, <2>3, <2>4
<1>4. CASE RunPosted
  BY <1>4 DEF RunPosted
<1>5. ASSUME NEW t \in Threads, Check(t)
      PROVE  TypeOK'
  BY <1>5 DEF Check
<1>6. ASSUME NEW t \in Threads, Acquire(t)
      PROVE  TypeOK'
  BY <1>6 DEF Acquire
<1>7. ASSUME NEW t \in Threads, Inspect(t)
      PROVE  TypeOK'
  BY <1>7 DEF Inspect
<1>8. ASSUME NEW t \in Threads, Pop(t)
      PROVE  TypeOK'
  <2>1. tx_queue \in Seq(Buffer) /\ tx_queue # <<>>
    BY <1>8 DEF Pop
  <2>2. Head(tx_queue) \in Buffer /\ Tail(tx_queue) \in Seq(Buffer)
        /\ Len(Tail(tx_queue)) <= Capacity
    BY <2>1, HeadAndTail, CapacityAssumption
  <2> QED
    BY <1>8, <2>1, <2>2 DEF Pop
<1>9. ASSUME NEW t \in Threads, Mark(t)
      PROVE  TypeOK'
  BY <1>9 DEF Mark
<1>10. ASSUME NEW t \in Threads, Launch(t)
       PROVE  TypeOK'
  BY <1>10 DEF Launch
<1>11. ASSUME NEW t \in Threads, Unlock(t)
       PROVE  TypeOK'
  BY <1>11 DEF Unlock
<1>12. ASSUME NEW b \in inflight, NEW k \in 1 .. MaxLen, Complete(b, k)
       PROVE  TypeOK'
  <2>1. wire' \in Seq(Nat)
    <3>1. wire \in Seq(Nat) /\ b.lo \in Nat /\ k \in Nat
      BY <1>12 DEF Complete
    <3> DEFINE next == [i \in 1 .. k |-> b.lo + i - 1]
    <3>2. next \in Seq(Nat)
      <4>1. \A i \in 1 .. k : b.lo + i - 1 \in Nat
        BY <3>1
      <4> QED
        BY <3>1, <4>1, IsASeq
    <3>3. wire' = wire \o next
      BY <1>12 DEF Complete
    <3> HIDE DEF next
    <3> QED
      BY <3>1, <3>2, <3>3, ConcatProperties
  <2>2. pc' = [pc EXCEPT !["strand"] = "advance"] /\ pc["strand"] = "idle"
    BY <1>12 DEF Complete
  <2>3. inflight' \in SUBSET Buffer /\ written' \in Nat
    BY <1>12 DEF Complete
  <2>4. UNCHANGED <<torn, transport, accepted, len, tx_queue, tx_current, moved,
                    write_in_progress, write_lock, should_run, posted>>
    BY <1>12 DEF Complete
  <2> QED
    BY <2>1, <2>2, <2>3, <2>4
<1>13. ASSUME NEW b \in inflight, Fail(b)
       PROVE  TypeOK'
  BY <1>13 DEF Fail
<1>14. CASE Advance
  <2>1. tx_current' \in Buffer
    BY <1>14, Edits DEF Advance
  <2>2. \E w \in {"release", "hpop", "hclear"} : pc' = [pc EXCEPT !["strand"] = w]
    BY <1>14 DEF Advance
  <2>3. UNCHANGED <<torn, transport, accepted, len, tx_queue, moved, write_in_progress,
                     write_lock, should_run, inflight, posted, wire>>
        /\ written' \in Nat
    BY <1>14 DEF Advance
  <2>4. pc["strand"] = "advance"
    BY <1>14 DEF Advance
  <2> QED
    BY <2>1, <2>2, <2>3, <2>4, SMTT(20)
<1>15. CASE HandlerPop
  <2>1. tx_queue \in Seq(Buffer) /\ tx_queue # <<>>
    BY <1>15 DEF HandlerPop
  <2>2. Head(tx_queue) \in Buffer /\ Tail(tx_queue) \in Seq(Buffer)
        /\ Len(Tail(tx_queue)) <= Capacity
    BY <2>1, HeadAndTail, CapacityAssumption
  <2>3. tx_current' \in Buffer
    BY <1>15, Emptying DEF HandlerPop
  <2>4. pc' = [pc EXCEPT !["strand"] = "assign"] /\ pc["strand"] = "hpop"
    BY <1>15 DEF HandlerPop
  <2>5. /\ tx_queue' \in Seq(Buffer) /\ Len(tx_queue') <= Capacity /\ moved' \in Buffer
        /\ UNCHANGED <<torn, transport, accepted, len, write_in_progress, write_lock,
                        should_run, inflight, posted, written, wire>>
    BY <1>15, <2>2 DEF HandlerPop
  <2> QED
    BY <2>3, <2>4, <2>5
<1>16. CASE HandlerAssign
  BY <1>16 DEF HandlerAssign
<1>17. CASE HandlerClear
  <2>1. tx_current' \in Buffer
    BY <1>17, Emptying DEF HandlerClear
  <2> QED
    BY <1>17, <2>1 DEF HandlerClear
<1>18. CASE Release
  <2>1. PICK w \in {"idle", "check"} : pc' = [pc EXCEPT !["strand"] = w]
    BY <1>18 DEF Release
  <2>2. posted' \in Nat /\ pc["strand"] = "release"
    BY <1>18 DEF Release
  <2>3. UNCHANGED <<torn, transport, accepted, len, tx_queue, tx_current, moved, write_lock,
                     should_run, inflight, written, wire>>
        /\ write_in_progress' \in BOOLEAN
    BY <1>18 DEF Release
  <2> QED
    BY <2>1, <2>2, <2>3, SMTT(20)
<1>19. CASE Stop
  BY <1>19 DEF Stop
<1>20. CASE Open
  BY <1>20 DEF Open
<1>21. CASE UNCHANGED vars
  BY <1>21 DEF vars
<1> QED
  BY <1>1, <1>2, <1>3, <1>4, <1>5, <1>6, <1>7, <1>8, <1>9, <1>10, <1>11, <1>12,
     <1>13, <1>14, <1>15, <1>16, <1>17, <1>18, <1>19, <1>20, <1>21
     DEF Next, GuiStep, StrandStep, Completion, StartWrite, Handler

(* The first message of a contiguous queue begins at its front, is not empty *)
(* and leaves a contiguous queue behind.                                     *)
LEMMA ContiguousTail ==
    ASSUME NEW q \in Seq(Buffer), NEW front \in Nat, NEW end \in Nat,
           q # <<>>, Contiguous(q, front, end)
    PROVE  /\ Head(q) \in Buffer
           /\ Head(q).lo = front
           /\ Head(q).lo < Head(q).hi
           /\ Head(q).hi <= end
           /\ Contiguous(Tail(q), Head(q).hi, end)
<1>1. /\ Len(q) \in Nat \ {0}
      /\ Head(q) = q[1] /\ Head(q) \in Buffer
      /\ Tail(q) \in Seq(Buffer)
      /\ Len(Tail(q)) = Len(q) - 1
      /\ \A i \in 1 .. Len(q) - 1 : Tail(q)[i] = q[i + 1]
  BY HeadAndTail
<1>2. /\ Head(q).lo = front /\ Head(q).lo < Head(q).hi /\ Head(q).hi <= end
  <2>1. 1 \in 1 .. Len(q)
    BY <1>1
  <2> QED
    BY <1>1, <2>1 DEF Contiguous
<1>3. Tail(q) = <<>> => Head(q).hi = end
  <2>1. ASSUME Tail(q) = <<>> PROVE Len(q) = 1
    <3>1. Len(Tail(q)) = 0
      BY <2>1, EmptySeq
    <3> DEFINE m == Len(Tail(q))
               n == Len(q)
    <3>2. m = 0 /\ m = n - 1 /\ n \in Nat
      BY <1>1, <3>1
    <3> HIDE DEF m, n
    <3>3. n = 1
      BY <3>2
    <3> QED
      BY <3>3 DEF n
  <2> QED
    BY <1>1, <2>1 DEF Contiguous
<1>4. Tail(q) # <<>> => Tail(q)[Len(Tail(q))].hi = end
  <2>1. Tail(q) # <<>> => Len(q) - 1 \in 1 .. Len(q) - 1
    BY <1>1, EmptySeq
  <2>2. Tail(q) # <<>> => Tail(q)[Len(q) - 1] = q[Len(q)]
    BY <1>1, <2>1
  <2> QED
    BY <1>1, <2>2 DEF Contiguous
<1>5. ASSUME NEW i \in 1 .. Len(Tail(q))
      PROVE  /\ Tail(q)[i].lo < Tail(q)[i].hi
             /\ Tail(q)[i].hi <= end
             /\ Tail(q)[i].lo = IF i = 1 THEN Head(q).hi ELSE Tail(q)[i - 1].hi
  <2>1. /\ i + 1 \in 1 .. Len(q) /\ i \in 1 .. Len(q) - 1 /\ (i + 1) - 1 = i /\ i + 1 # 1
        /\ i # 1 => i - 1 \in 1 .. Len(q) - 1 /\ (i - 1) + 1 = i
    BY <1>1
  <2>2. Tail(q)[i] = q[i + 1] /\ (i # 1 => Tail(q)[i - 1] = q[i])
    BY <1>1, <2>1
  <2>3. /\ q[i + 1].lo < q[i + 1].hi
        /\ q[i + 1].hi <= end
        /\ q[i + 1].lo = q[i].hi
    BY <2>1 DEF Contiguous
  <2> QED
    BY <1>1, <2>2, <2>3
<1> QED
  BY <1>1, <1>2, <1>3, <1>4, <1>5 DEF Contiguous

(* A message pushed at the end of a contiguous queue keeps it contiguous.    *)
LEMMA ContiguousAppend ==
    ASSUME NEW q \in Seq(Buffer), NEW front \in Nat, NEW end \in Nat, NEW n \in Nat,
           n > 0, Contiguous(q, front, end)
    PROVE  Contiguous(Append(q, [lo |-> end, hi |-> end + n]), front, end + n)
<1> DEFINE m == [lo |-> end, hi |-> end + n]
           r == Append(q, m)
<1>1. m \in Buffer /\ m.lo = end /\ m.hi = end + n
  BY DEF Buffer
<1> HIDE DEF m
<1>2. /\ r # <<>>
      /\ Len(q) \in Nat /\ Len(r) = Len(q) + 1
      /\ \A i \in 1 .. Len(q) : r[i] = q[i]
      /\ r[Len(q) + 1] = m
  BY <1>1, Appending
<1> HIDE DEF r
<1>3. ASSUME NEW i \in 1 .. Len(r)
      PROVE  /\ r[i].lo < r[i].hi
             /\ r[i].hi <= end + n
             /\ r[i].lo = IF i = 1 THEN front ELSE r[i - 1].hi
  <2>1. CASE i \in 1 .. Len(q)
    <3>1. /\ r[i] = q[i]
          /\ i # 1 => r[i - 1] = q[i - 1]
      BY <1>2, <2>1
    <3>2. /\ q[i].lo < q[i].hi
          /\ q[i].hi <= end
          /\ q[i].lo = IF i = 1 THEN front ELSE q[i - 1].hi
      BY <2>1 DEF Contiguous
    <3>3. q[i] \in Buffer
      BY <2>1, ElementOfSeq
    <3> QED
      BY <3>1, <3>2, <3>3, SMTT(20) DEF Buffer
  <2>2. CASE i = Len(q) + 1
    <3>1. r[i] = m
      BY <1>2, <2>2
    <3>2. CASE q = <<>>
      BY <1>1, <1>2, <2>2, <3>1, <3>2 DEF Contiguous
    <3>3. CASE q # <<>>
      <4>1. i # 1 /\ i - 1 = Len(q) /\ Len(q) \in 1 .. Len(q)
        BY <1>2, <2>2, <3>3, EmptySeq
      <4>2. r[i - 1].hi = end
        BY <1>2, <3>3, <4>1 DEF Contiguous
      <4> QED
        BY <1>1, <3>1, <4>1, <4>2
    <3> QED
      BY <3>2, <3>3
  <2> QED
    BY <1>2, <2>1, <2>2
<1>4. Contiguous(r, front, end + n)
  BY <1>1, <1>2, <1>3 DEF Contiguous
<1> QED
  BY <1>4 DEF r, m

(* The first byte not transmitted yet is a natural number. *)
LEMMA FrontIsNat ==
    ASSUME TypeOK
    PROVE  Front \in Nat
  BY DEF TypeOK, Front, Buffer

(* No message of the queue is empty: none that is popped, none that is left. *)
LEMMA Messages ==
    ASSUME Always, tx_queue # <<>>
    PROVE  /\ Head(tx_queue) \in Buffer
           /\ Head(tx_queue).lo < Head(tx_queue).hi
           /\ ~IsEmpty(Head(tx_queue))
           /\ \A i \in 1 .. Len(Tail(tx_queue)) :
                  Tail(tx_queue)[i].lo < Tail(tx_queue)[i].hi
<1>1. tx_queue \in Seq(Buffer)
  BY DEF Always, TypeOK
<1>2. /\ Head(tx_queue) \in Buffer
      /\ Head(tx_queue) = tx_queue[1]
      /\ Len(tx_queue) \in Nat \ {0}
      /\ Len(Tail(tx_queue)) = Len(tx_queue) - 1
      /\ \A i \in 1 .. Len(tx_queue) - 1 : Tail(tx_queue)[i] = tx_queue[i + 1]
  BY <1>1, HeadAndTail
<1>3. \A i \in 1 .. Len(tx_queue) : tx_queue[i].lo < tx_queue[i].hi
  BY DEF Always, MessagesInv
<1>4. Head(tx_queue).lo < Head(tx_queue).hi
  BY <1>2, <1>3
<1>5. ASSUME NEW i \in 1 .. Len(Tail(tx_queue))
      PROVE  Tail(tx_queue)[i].lo < Tail(tx_queue)[i].hi
  <2>1. i \in 1 .. Len(tx_queue) - 1 /\ i + 1 \in 1 .. Len(tx_queue)
    BY <1>2
  <2> QED
    BY <1>2, <1>3, <2>1
<1> QED
  BY <1>2, <1>4, <1>5 DEF IsEmpty, Buffer

(* After a push the queue is not empty.                                      *)
LEMMA Pushed ==
    ASSUME Always, Push
    PROVE  tx_queue' # <<>>
<1> DEFINE m == [lo |-> accepted, hi |-> accepted + len]
<1>1. m \in Buffer /\ tx_queue \in Seq(Buffer) /\ tx_queue' = Append(tx_queue, m)
  BY DEF Always, TypeOK, Buffer, Push
<1> HIDE DEF m
<1> QED
  BY <1>1, Appending

(* A partial transmission leaves a part of tx_current_, and a whole one      *)
(* leaves it as it is for now.                                               *)
LEMMA NeverEmptied ==
    ASSUME Always, Advance
    PROVE  /\ ~IsEmpty(tx_current')
           /\ tx_current'.lo <= tx_current'.hi
           /\ tx_current'.hi = tx_current.hi
<1> USE DEF Always, TypeOK, HandlerInv, MessagesInv, Busy, Buffer, Threads
<1>1. tx_current.lo < tx_current.hi
  BY DEF Advance, IsEmpty
<1>2. CASE Size(tx_current) > written
  <2>1. tx_current'.lo = tx_current.lo + written /\ tx_current'.hi = tx_current.hi
    BY <1>2, Edits, SMTT(20) DEF Advance, Size
  <2> QED
    BY <1>2, <2>1 DEF Size, IsEmpty
<1>3. CASE ~(Size(tx_current) > written)
  <2>1. tx_current' = tx_current
    BY <1>3 DEF Advance
  <2> QED
    BY <1>1, <2>1 DEF IsEmpty
<1> QED
  BY <1>2, <1>3

(* While the operating system reads, nobody takes a message.                 *)
LEMMA NextFlightInv ==
    ASSUME Always, [Next]_vars
    PROVE  FlightInv'
<1> USE DEF Always, TypeOK, FlightInv, HandlerInv, TakeInv, MarkInv, IsEmpty, MayTake,
            Busy, Taking, Threads, Buffer, Nothing, Goto, Exclusive, InStartWrite,
            InHandler
<1>1. ASSUME NEW n \in 1 .. MaxLen, CallSend(n)
      PROVE  FlightInv'
  BY <1>1 DEF CallSend
<1>2. CASE Push
  BY <1>2 DEF Push
<1>3. CASE DoWrite
  BY <1>3 DEF DoWrite
<1>4. CASE RunPosted
  BY <1>4 DEF RunPosted
<1>5. ASSUME NEW t \in Threads, Check(t)
      PROVE  FlightInv'
  BY <1>5 DEF Check
<1>6. ASSUME NEW t \in Threads, Acquire(t)
      PROVE  FlightInv'
  BY <1>6 DEF Acquire
<1>7. ASSUME NEW t \in Threads, Inspect(t)
      PROVE  FlightInv'
  BY <1>7 DEF Inspect
<1>8. ASSUME NEW t \in Threads, Pop(t)
      PROVE  FlightInv'
  <2>1. ~IsEmpty(tx_current')
    BY <1>8, Messages DEF Pop
  <2> QED
    BY <1>8, <2>1 DEF Pop
<1>9. ASSUME NEW t \in Threads, Mark(t)
      PROVE  FlightInv'
  BY <1>9 DEF Mark
<1>10. ASSUME NEW t \in Threads, Launch(t)
       PROVE  FlightInv'
  BY <1>10 DEF Launch
<1>11. ASSUME NEW t \in Threads, Unlock(t)
       PROVE  FlightInv'
  BY <1>11 DEF Unlock
<1>12. ASSUME NEW b \in inflight, NEW k \in 1 .. MaxLen, Complete(b, k)
       PROVE  FlightInv'
  BY <1>12 DEF Complete
<1>13. ASSUME NEW b \in inflight, Fail(b)
       PROVE  FlightInv'
  BY <1>13 DEF Fail
<1>14. CASE Advance
  <2>1. ~IsEmpty(tx_current')
    BY <1>14, NeverEmptied
  <2> QED
    BY <1>14, <2>1 DEF Advance
<1>15. CASE HandlerPop
  BY <1>15 DEF HandlerPop
<1>16. CASE HandlerAssign
  <2>1. ~IsEmpty(tx_current')
    BY <1>16 DEF HandlerAssign, MessagesInv
  <2> QED
    BY <1>16, <2>1 DEF HandlerAssign
<1>17. CASE HandlerClear
  BY <1>17 DEF HandlerClear
<1>18. CASE Release
  BY <1>18 DEF Release
<1>19. CASE Stop
  BY <1>19 DEF Stop
<1>20. CASE Open
  BY <1>20 DEF Open
<1>21. CASE UNCHANGED vars
  BY <1>21 DEF vars
<1> QED
  BY <1>1, <1>2, <1>3, <1>4, <1>5, <1>6, <1>7, <1>8, <1>9, <1>10, <1>11, <1>12,
     <1>13, <1>14, <1>15, <1>16, <1>17, <1>18, <1>19, <1>20, <1>21
     DEF Next, GuiStep, StrandStep, Completion, StartWrite, Handler

(* The handler and the GUI thread stay out of each other's way.               *)
LEMMA NextHandlerInv ==
    ASSUME Always, [Next]_vars
    PROVE  HandlerInv'
<1> USE DEF Always, TypeOK, FlightInv, HandlerInv, TakeInv, MarkInv, IsEmpty, MayTake,
            Busy, Taking, Threads, Buffer, Nothing, Goto, Exclusive, InStartWrite,
            InHandler
<1>1. ASSUME NEW n \in 1 .. MaxLen, CallSend(n)
      PROVE  HandlerInv'
  BY <1>1 DEF CallSend
<1>2. CASE Push
  <2>1. tx_queue' # <<>>
    BY <1>2, Pushed
  <2> QED
    BY <1>2, <2>1 DEF Push
<1>3. CASE DoWrite
  BY <1>3 DEF DoWrite
<1>4. CASE RunPosted
  BY <1>4 DEF RunPosted
<1>5. ASSUME NEW t \in Threads, Check(t)
      PROVE  HandlerInv'
  BY <1>5 DEF Check
<1>6. ASSUME NEW t \in Threads, Acquire(t)
      PROVE  HandlerInv'
  BY <1>6 DEF Acquire
<1>7. ASSUME NEW t \in Threads, Inspect(t)
      PROVE  HandlerInv'
  BY <1>7 DEF Inspect
<1>8. ASSUME NEW t \in Threads, Pop(t)
      PROVE  HandlerInv'
  <2>1. ~IsEmpty(tx_current')
    BY <1>8, Messages DEF Pop
  <2> QED
    BY <1>8, <2>1 DEF Pop
<1>9. ASSUME NEW t \in Threads, Mark(t)
      PROVE  HandlerInv'
  BY <1>9 DEF Mark
<1>10. ASSUME NEW t \in Threads, Launch(t)
       PROVE  HandlerInv'
  BY <1>10 DEF Launch
<1>11. ASSUME NEW t \in Threads, Unlock(t)
       PROVE  HandlerInv'
  BY <1>11 DEF Unlock
<1>12. ASSUME NEW b \in inflight, NEW k \in 1 .. MaxLen, Complete(b, k)
       PROVE  HandlerInv'
  BY <1>12 DEF Complete
<1>13. ASSUME NEW b \in inflight, Fail(b)
       PROVE  HandlerInv'
  BY <1>13 DEF Fail
<1>14. CASE Advance
  <2>1. ~IsEmpty(tx_current')
    BY <1>14, NeverEmptied
  <2> QED
    BY <1>14, <2>1 DEF Advance
<1>15. CASE HandlerPop
  BY <1>15 DEF HandlerPop
<1>16. CASE HandlerAssign
  <2>1. ~IsEmpty(tx_current')
    BY <1>16 DEF HandlerAssign, MessagesInv
  <2> QED
    BY <1>16, <2>1 DEF HandlerAssign
<1>17. CASE HandlerClear
  BY <1>17 DEF HandlerClear
<1>18. CASE Release
  BY <1>18 DEF Release
<1>19. CASE Stop
  BY <1>19 DEF Stop
<1>20. CASE Open
  BY <1>20 DEF Open
<1>21. CASE UNCHANGED vars
  BY <1>21 DEF vars
<1> QED
  BY <1>1, <1>2, <1>3, <1>4, <1>5, <1>6, <1>7, <1>8, <1>9, <1>10, <1>11, <1>12,
     <1>13, <1>14, <1>15, <1>16, <1>17, <1>18, <1>19, <1>20, <1>21
     DEF Next, GuiStep, StrandStep, Completion, StartWrite, Handler

(* What a thread has seen under write_lock_ stays true until it has acted.    *)
LEMMA NextTakeInv ==
    ASSUME Always, [Next]_vars
    PROVE  TakeInv'
<1> USE DEF Always, TypeOK, FlightInv, HandlerInv, TakeInv, MarkInv, IsEmpty, MayTake,
            Busy, Taking, Threads, Buffer, Nothing, Goto, Exclusive, InStartWrite,
            InHandler
<1>1. ASSUME NEW n \in 1 .. MaxLen, CallSend(n)
      PROVE  TakeInv'
  BY <1>1 DEF CallSend
<1>2. CASE Push
  <2>1. tx_queue' # <<>>
    BY <1>2, Pushed
  <2> QED
    BY <1>2, <2>1 DEF Push
<1>3. CASE DoWrite
  BY <1>3 DEF DoWrite
<1>4. CASE RunPosted
  BY <1>4 DEF RunPosted
<1>5. ASSUME NEW t \in Threads, Check(t)
      PROVE  TakeInv'
  BY <1>5 DEF Check
<1>6. ASSUME NEW t \in Threads, Acquire(t)
      PROVE  TakeInv'
  BY <1>6 DEF Acquire
<1>7. ASSUME NEW t \in Threads, Inspect(t)
      PROVE  TakeInv'
  BY <1>7 DEF Inspect
<1>8. ASSUME NEW t \in Threads, Pop(t)
      PROVE  TakeInv'
  <2>1. ~IsEmpty(tx_current')
    BY <1>8, Messages DEF Pop
  <2> QED
    BY <1>8, <2>1 DEF Pop
<1>9. ASSUME NEW t \in Threads, Mark(t)
      PROVE  TakeInv'
  BY <1>9 DEF Mark
<1>10. ASSUME NEW t \in Threads, Launch(t)
       PROVE  TakeInv'
  BY <1>10 DEF Launch
<1>11. ASSUME NEW t \in Threads, Unlock(t)
       PROVE  TakeInv'
  BY <1>11 DEF Unlock
<1>12. ASSUME NEW b \in inflight, NEW k \in 1 .. MaxLen, Complete(b, k)
       PROVE  TakeInv'
  BY <1>12 DEF Complete
<1>13. ASSUME NEW b \in inflight, Fail(b)
       PROVE  TakeInv'
  BY <1>13 DEF Fail
<1>14. CASE Advance
  <2>1. ~IsEmpty(tx_current')
    BY <1>14, NeverEmptied
  <2> QED
    BY <1>14, <2>1 DEF Advance
<1>15. CASE HandlerPop
  BY <1>15 DEF HandlerPop
<1>16. CASE HandlerAssign
  <2>1. ~IsEmpty(tx_current')
    BY <1>16 DEF HandlerAssign, MessagesInv
  <2> QED
    BY <1>16, <2>1 DEF HandlerAssign
<1>17. CASE HandlerClear
  BY <1>17 DEF HandlerClear
<1>18. CASE Release
  BY <1>18 DEF Release
<1>19. CASE Stop
  BY <1>19 DEF Stop
<1>20. CASE Open
  BY <1>20 DEF Open
<1>21. CASE UNCHANGED vars
  BY <1>21 DEF vars
<1> QED
  BY <1>1, <1>2, <1>3, <1>4, <1>5, <1>6, <1>7, <1>8, <1>9, <1>10, <1>11, <1>12,
     <1>13, <1>14, <1>15, <1>16, <1>17, <1>18, <1>19, <1>20, <1>21
     DEF Next, GuiStep, StrandStep, Completion, StartWrite, Handler

(* A marked transmission has a buffer, up to the end of its handler.          *)
LEMMA NextMarkInv ==
    ASSUME Always, [Next]_vars
    PROVE  MarkInv'
<1> USE DEF Always, TypeOK, FlightInv, HandlerInv, TakeInv, MarkInv, IsEmpty, MayTake,
            Busy, Taking, Threads, Buffer, Nothing, Goto, Exclusive, InStartWrite,
            InHandler
<1>1. ASSUME NEW n \in 1 .. MaxLen, CallSend(n)
      PROVE  MarkInv'
  BY <1>1 DEF CallSend
<1>2. CASE Push
  BY <1>2 DEF Push
<1>3. CASE DoWrite
  BY <1>3 DEF DoWrite
<1>4. CASE RunPosted
  BY <1>4 DEF RunPosted
<1>5. ASSUME NEW t \in Threads, Check(t)
      PROVE  MarkInv'
  BY <1>5 DEF Check
<1>6. ASSUME NEW t \in Threads, Acquire(t)
      PROVE  MarkInv'
  BY <1>6 DEF Acquire
<1>7. ASSUME NEW t \in Threads, Inspect(t)
      PROVE  MarkInv'
  BY <1>7 DEF Inspect
<1>8. ASSUME NEW t \in Threads, Pop(t)
      PROVE  MarkInv'
  <2>1. ~IsEmpty(tx_current')
    BY <1>8, Messages DEF Pop
  <2> QED
    BY <1>8, <2>1 DEF Pop
<1>9. ASSUME NEW t \in Threads, Mark(t)
      PROVE  MarkInv'
  BY <1>9 DEF Mark
<1>10. ASSUME NEW t \in Threads, Launch(t)
       PROVE  MarkInv'
  BY <1>10 DEF Launch
<1>11. ASSUME NEW t \in Threads, Unlock(t)
       PROVE  MarkInv'
  BY <1>11 DEF Unlock
<1>12. ASSUME NEW b \in inflight, NEW k \in 1 .. MaxLen, Complete(b, k)
       PROVE  MarkInv'
  BY <1>12 DEF Complete
<1>13. ASSUME NEW b \in inflight, Fail(b)
       PROVE  MarkInv'
  BY <1>13 DEF Fail
<1>14. CASE Advance
  <2>1. ~IsEmpty(tx_current')
    BY <1>14, NeverEmptied
  <2> QED
    BY <1>14, <2>1 DEF Advance
<1>15. CASE HandlerPop
  BY <1>15 DEF HandlerPop
<1>16. CASE HandlerAssign
  <2>1. ~IsEmpty(tx_current')
    BY <1>16 DEF HandlerAssign, MessagesInv
  <2> QED
    BY <1>16, <2>1 DEF HandlerAssign
<1>17. CASE HandlerClear
  BY <1>17 DEF HandlerClear
<1>18. CASE Release
  BY <1>18 DEF Release
<1>19. CASE Stop
  BY <1>19 DEF Stop
<1>20. CASE Open
  BY <1>20 DEF Open
<1>21. CASE UNCHANGED vars
  BY <1>21 DEF vars
<1> QED
  BY <1>1, <1>2, <1>3, <1>4, <1>5, <1>6, <1>7, <1>8, <1>9, <1>10, <1>11, <1>12,
     <1>13, <1>14, <1>15, <1>16, <1>17, <1>18, <1>19, <1>20, <1>21
     DEF Next, GuiStep, StrandStep, Completion, StartWrite, Handler

(* No step queues or moves an empty message.                                 *)
LEMMA NextMessagesInv ==
    ASSUME Always, [Next]_vars
    PROVE  MessagesInv'
<1> USE DEF Always, TypeOK, MessagesInv, Threads, Buffer, Nothing, Goto, Exclusive,
            InStartWrite, InHandler
<1>1. ASSUME NEW n \in 1 .. MaxLen, CallSend(n)
      PROVE  MessagesInv'
  BY <1>1 DEF CallSend
<1>2. CASE Push
  <2>1. [lo |-> accepted, hi |-> accepted + len] \in Buffer
    OBVIOUS
  <2>2. /\ Len(tx_queue) \in Nat
        /\ Len(tx_queue') = Len(tx_queue) + 1
        /\ \A i \in 1 .. Len(tx_queue) : tx_queue'[i] = tx_queue[i]
        /\ tx_queue'[Len(tx_queue) + 1] = [lo |-> accepted, hi |-> accepted + len]
    BY <1>2, <2>1, Appending DEF Push
  <2>3. ASSUME NEW i \in 1 .. Len(tx_queue')
        PROVE  tx_queue'[i].lo < tx_queue'[i].hi
    <3>1. CASE i \in 1 .. Len(tx_queue)
      BY <2>2, <3>1
    <3>2. CASE i = Len(tx_queue) + 1
      BY <1>2, <2>2, <3>2 DEF Push
    <3> QED
      BY <2>2, <3>1, <3>2
  <2> QED
    BY <1>2, <2>3 DEF Push
<1>3. CASE DoWrite
  BY <1>3 DEF DoWrite
<1>4. CASE RunPosted
  BY <1>4 DEF RunPosted
<1>5. ASSUME NEW t \in Threads, Check(t)
      PROVE  MessagesInv'
  BY <1>5 DEF Check
<1>6. ASSUME NEW t \in Threads, Acquire(t)
      PROVE  MessagesInv'
  BY <1>6 DEF Acquire
<1>7. ASSUME NEW t \in Threads, Inspect(t)
      PROVE  MessagesInv'
  BY <1>7 DEF Inspect
<1>8. ASSUME NEW t \in Threads, Pop(t)
      PROVE  MessagesInv'
  <2>1. /\ tx_current'.lo < tx_current'.hi
        /\ tx_current' \in Buffer
        /\ \A i \in 1 .. Len(tx_queue') : tx_queue'[i].lo < tx_queue'[i].hi
    BY <1>8, Messages DEF Pop
  <2>2. /\ pc'["gui"] = "push" => pc["gui"] = "push"
        /\ pc'["strand"] = "assign" => pc["strand"] = "assign"
    BY <1>8 DEF Pop
  <2>3. moved' = moved /\ len' = len
    BY <1>8 DEF Pop
  <2>4. pc'["gui"] = "push" => len' > 0
    BY <2>2, <2>3
  <2>5. pc'["strand"] = "assign" => moved'.lo < moved'.hi
    BY <2>2, <2>3
  <2>6. tx_current'.lo <= tx_current'.hi
    BY <2>1
  <2> QED
    BY <2>1, <2>4, <2>5, <2>6 DEF MessagesInv
<1>9. ASSUME NEW t \in Threads, Mark(t)
      PROVE  MessagesInv'
  BY <1>9 DEF Mark
<1>10. ASSUME NEW t \in Threads, Launch(t)
       PROVE  MessagesInv'
  BY <1>10 DEF Launch
<1>11. ASSUME NEW t \in Threads, Unlock(t)
       PROVE  MessagesInv'
  BY <1>11 DEF Unlock
<1>12. ASSUME NEW b \in inflight, NEW k \in 1 .. MaxLen, Complete(b, k)
       PROVE  MessagesInv'
  BY <1>12 DEF Complete
<1>13. ASSUME NEW b \in inflight, Fail(b)
       PROVE  MessagesInv'
  BY <1>13 DEF Fail
<1>14. CASE Advance
  <2>1. tx_current'.lo <= tx_current'.hi
    BY <1>14, NeverEmptied
  <2>2. pc'["gui"] = pc["gui"] /\ pc'["strand"] # "assign"
    BY <1>14 DEF Advance
  <2> QED
    BY <1>14, <2>1, <2>2 DEF Advance
<1>15. CASE HandlerPop
  <2>1. /\ moved'.lo < moved'.hi
        /\ \A i \in 1 .. Len(tx_queue') : tx_queue'[i].lo < tx_queue'[i].hi
    BY <1>15, Messages DEF HandlerPop
  <2>2. tx_current'.lo <= tx_current'.hi
    BY <1>15, Emptying DEF HandlerPop
  <2>3. pc'["gui"] = pc["gui"] /\ len' = len
    BY <1>15 DEF HandlerPop
  <2> QED
    BY <2>1, <2>2, <2>3 DEF MessagesInv
<1>16. CASE HandlerAssign
  BY <1>16 DEF HandlerAssign
<1>17. CASE HandlerClear
  <2>1. tx_current'.lo <= tx_current'.hi
    BY <1>17, Emptying DEF HandlerClear
  <2> QED
    BY <1>17, <2>1 DEF HandlerClear
<1>18. CASE Release
  BY <1>18 DEF Release
<1>19. CASE Stop
  BY <1>19 DEF Stop
<1>20. CASE Open
  BY <1>20 DEF Open
<1>21. CASE UNCHANGED vars
  BY <1>21 DEF vars
<1> QED
  BY <1>1, <1>2, <1>3, <1>4, <1>5, <1>6, <1>7, <1>8, <1>9, <1>10, <1>11, <1>12,
     <1>13, <1>14, <1>15, <1>16, <1>17, <1>18, <1>19, <1>20, <1>21
     DEF Next, GuiStep, StrandStep, Completion, StartWrite, Handler

(* Until a race is lost, the mark keeps the GUI thread and the handler apart. *)
LEMMA NextMarkedInv ==
    ASSUME Always, Untorn, ~torn', [Next]_vars
    PROVE  MarkedInv'
<1> USE DEF Always, Untorn, MarkedInv, TypeOK, FlightInv, HandlerInv, TakeInv, MarkInv,
            IsEmpty, MayTake, Busy, Taking, Threads, Buffer, Nothing, Goto, Exclusive, InStartWrite,
            InHandler
<1>1. ASSUME NEW n \in 1 .. MaxLen, CallSend(n)
      PROVE  MarkedInv'
  BY <1>1 DEF CallSend
<1>2. CASE Push
  <2>1. tx_queue' # <<>>
    BY <1>2, Pushed
  <2> QED
    BY <1>2, <2>1 DEF Push
<1>3. CASE DoWrite
  BY <1>3 DEF DoWrite
<1>4. CASE RunPosted
  BY <1>4 DEF RunPosted
<1>5. ASSUME NEW t \in Threads, Check(t)
      PROVE  MarkedInv'
  BY <1>5 DEF Check
<1>6. ASSUME NEW t \in Threads, Acquire(t)
      PROVE  MarkedInv'
  BY <1>6 DEF Acquire
<1>7. ASSUME NEW t \in Threads, Inspect(t)
      PROVE  MarkedInv'
  BY <1>7 DEF Inspect
<1>8. ASSUME NEW t \in Threads, Pop(t)
      PROVE  MarkedInv'
  BY <1>8 DEF Pop
<1>9. ASSUME NEW t \in Threads, Mark(t)
      PROVE  MarkedInv'
  BY <1>9 DEF Mark
<1>10. ASSUME NEW t \in Threads, Launch(t)
       PROVE  MarkedInv'
  BY <1>10 DEF Launch
<1>11. ASSUME NEW t \in Threads, Unlock(t)
       PROVE  MarkedInv'
  BY <1>11 DEF Unlock
<1>12. ASSUME NEW b \in inflight, NEW k \in 1 .. MaxLen, Complete(b, k)
       PROVE  MarkedInv'
  BY <1>12 DEF Complete
<1>13. ASSUME NEW b \in inflight, Fail(b)
       PROVE  MarkedInv'
  BY <1>13 DEF Fail
<1>14. CASE Advance
  <2>1. inflight = {} /\ inflight' = {} /\ write_in_progress' = write_in_progress
    BY <1>14 DEF Advance
  <2>2. pc["strand"] = "advance" /\ write_in_progress /\ pc["gui"] \notin Taking
    BY <1>14 DEF Advance
  <2>3. /\ pc' = [pc EXCEPT !["strand"] = pc'["strand"]]
        /\ pc'["strand"] \in {"release", "hpop", "hclear"}
    BY <1>14 DEF Advance
  <2>4. pc'["strand"] = "hclear" => tx_queue' = <<>>
    BY <1>14 DEF Advance
  <2>5. pc'["strand"] = "release" => ~IsEmpty(tx_current')
    BY <1>14, NeverEmptied
  <2> QED
    BY <2>1, <2>2, <2>3, <2>4, <2>5
<1>15. CASE HandlerPop
  BY <1>15 DEF HandlerPop
<1>16. CASE HandlerAssign
  <2>1. ~IsEmpty(tx_current')
    BY <1>16 DEF HandlerAssign, MessagesInv
  <2> QED
    BY <1>16, <2>1 DEF HandlerAssign
<1>17. CASE HandlerClear
  BY <1>17 DEF HandlerClear
<1>18. CASE Release
  BY <1>18 DEF Release
<1>19. CASE Stop
  BY <1>19 DEF Stop
<1>20. CASE Open
  BY <1>20 DEF Open
<1>21. CASE UNCHANGED vars
  BY <1>21 DEF vars
<1> QED
  BY <1>1, <1>2, <1>3, <1>4, <1>5, <1>6, <1>7, <1>8, <1>9, <1>10, <1>11, <1>12,
     <1>13, <1>14, <1>15, <1>16, <1>17, <1>18, <1>19, <1>20, <1>21
     DEF Next, GuiStep, StrandStep, Completion, StartWrite, Handler

(* No step loses, repeats or reorders a byte between send() and tx_current_. *)
LEMMA NextQueueInv ==
    ASSUME Always, Untorn, ~torn', [Next]_vars
    PROVE  QueueInv'
<1> USE DEF Always, Untorn, TypeOK, HandlerInv, MarkedInv, MessagesInv, Busy, Taking, Threads,
            Buffer, Nothing, Goto, Exclusive, InStartWrite, InHandler
<1>1. ASSUME NEW n \in 1 .. MaxLen, CallSend(n)
      PROVE  QueueInv'
  <2>1. Front' = Front
    BY <1>1 DEF CallSend, Front
  <2> QED
    BY <1>1, <2>1 DEF CallSend, QueueInv
<1>2. CASE Push
  <2>1. Contiguous(tx_queue', Front, accepted')
    BY <1>2, FrontIsNat, ContiguousAppend DEF Push, QueueInv
  <2>2. Front' = Front
    BY <1>2 DEF Push, Front
  <2> QED
    BY <1>2, <2>1, <2>2 DEF Push, QueueInv
<1>3. CASE DoWrite
  <2>1. Front' = Front
    BY <1>3 DEF DoWrite, Front
  <2> QED
    BY <1>3, <2>1 DEF DoWrite, QueueInv
<1>4. CASE RunPosted
  <2>1. Front' = Front
    BY <1>4 DEF RunPosted, Front
  <2> QED
    BY <1>4, <2>1 DEF RunPosted, QueueInv
<1>5. ASSUME NEW t \in Threads, Check(t)
      PROVE  QueueInv'
  <2>1. Front' = Front
    BY <1>5 DEF Check, Front
  <2> QED
    BY <1>5, <2>1 DEF Check, QueueInv
<1>6. ASSUME NEW t \in Threads, Acquire(t)
      PROVE  QueueInv'
  <2>1. Front' = Front
    BY <1>6 DEF Acquire, Front
  <2> QED
    BY <1>6, <2>1 DEF Acquire, QueueInv
<1>7. ASSUME NEW t \in Threads, Inspect(t)
      PROVE  QueueInv'
  <2>1. Front' = Front
    BY <1>7 DEF Inspect, Front
  <2> QED
    BY <1>7, <2>1 DEF Inspect, QueueInv
<1>8. ASSUME NEW t \in Threads, Pop(t)
      PROVE  QueueInv'
  <2>1. tx_queue \in Seq(Buffer) /\ Contiguous(tx_queue, Front, accepted) /\ tx_queue # <<>>
    BY <1>8 DEF Pop, QueueInv
  <2>2. /\ Head(tx_queue).lo < Head(tx_queue).hi
        /\ Contiguous(tx_queue', Head(tx_queue).hi, accepted)
    BY <1>8, <2>1, FrontIsNat, ContiguousTail DEF Pop
  <2>3. pc'["strand"] # "assign" /\ (pc'["gui"] = "push" => pc["gui"] = "push")
    BY <1>8 DEF Pop
  <2>4. Front' = Head(tx_queue).hi
    BY <1>8, <2>3 DEF Pop, Front
  <2>5. Head(tx_queue) \in Buffer
    BY <2>1, HeadAndTail
  <2> QED
    BY <1>8, <2>2, <2>3, <2>4, <2>5, SMTT(20) DEF Pop, QueueInv
<1>9. ASSUME NEW t \in Threads, Mark(t)
      PROVE  QueueInv'
  <2>1. Front' = Front
    BY <1>9 DEF Mark, Front
  <2> QED
    BY <1>9, <2>1 DEF Mark, QueueInv
<1>10. ASSUME NEW t \in Threads, Launch(t)
       PROVE  QueueInv'
  <2>1. Front' = Front
    BY <1>10 DEF Launch, Front
  <2> QED
    BY <1>10, <2>1 DEF Launch, QueueInv
<1>11. ASSUME NEW t \in Threads, Unlock(t)
       PROVE  QueueInv'
  <2>1. Front' = Front
    BY <1>11 DEF Unlock, Front
  <2> QED
    BY <1>11, <2>1 DEF Unlock, QueueInv
<1>12. ASSUME NEW b \in inflight, NEW k \in 1 .. MaxLen, Complete(b, k)
       PROVE  QueueInv'
  <2>1. Front' = Front
    BY <1>12 DEF Complete, Front
  <2> QED
    BY <1>12, <2>1 DEF Complete, QueueInv
<1>13. ASSUME NEW b \in inflight, Fail(b)
       PROVE  QueueInv'
  <2>1. Front' = Front
    BY <1>13 DEF Fail, Front
  <2> QED
    BY <1>13, <2>1 DEF Fail, QueueInv
<1>14. CASE Advance
  <2>1. tx_current'.hi = tx_current.hi
    BY <1>14, NeverEmptied
  <2>2. Front' = Front
    BY <1>14, <2>1 DEF Advance, Front
  <2>3. pc'["strand"] # "assign" /\ pc'["gui"] = pc["gui"]
    BY <1>14 DEF Advance
  <2> QED
    BY <1>14, <2>1, <2>2, <2>3 DEF Advance, QueueInv
<1>15. CASE HandlerPop
  <2>1. tx_queue \in Seq(Buffer) /\ Contiguous(tx_queue, Front, accepted) /\ tx_queue # <<>>
    BY <1>15 DEF HandlerPop, QueueInv
  <2>2. /\ Head(tx_queue).lo = Front
        /\ Head(tx_queue).lo < Head(tx_queue).hi
        /\ Contiguous(tx_queue', Head(tx_queue).hi, accepted)
    BY <1>15, <2>1, FrontIsNat, ContiguousTail DEF HandlerPop
  <2>3. /\ pc'["strand"] = "assign" /\ pc'["gui"] = pc["gui"]
        /\ moved' = Head(tx_queue) /\ tx_current'.hi = tx_current.hi
        /\ UNCHANGED accepted
    BY <1>15, Emptying DEF HandlerPop
  <2>4. Front' = Head(tx_queue).hi /\ Front = tx_current.hi
    BY <1>15, <2>3 DEF HandlerPop, Front
  <2> QED
    BY <2>2, <2>3, <2>4 DEF QueueInv
<1>16. CASE HandlerAssign
  <2>1. Front' = Front
    BY <1>16 DEF HandlerAssign, Front
  <2> QED
    BY <1>16, <2>1 DEF HandlerAssign, QueueInv
<1>17. CASE HandlerClear
  <2>1. tx_current'.hi = tx_current.hi
    BY <1>17, Emptying DEF HandlerClear
  <2>2. Front' = Front
    BY <1>17, <2>1 DEF HandlerClear, Front
  <2> QED
    BY <1>17, <2>1, <2>2 DEF HandlerClear, QueueInv
<1>18. CASE Release
  <2>1. Front' = Front
    BY <1>18 DEF Release, Front
  <2> QED
    BY <1>18, <2>1 DEF Release, QueueInv
<1>19. CASE Stop
  <2>1. Front' = Front
    BY <1>19 DEF Stop, Front
  <2> QED
    BY <1>19, <2>1 DEF Stop, QueueInv
<1>20. CASE Open
  <2>1. Front' = Front
    BY <1>20 DEF Open, Front
  <2> QED
    BY <1>20, <2>1 DEF Open, QueueInv
<1>21. CASE UNCHANGED vars
  <2>1. Front' = Front
    BY <1>21 DEF vars, Front
  <2> QED
    BY <1>21, <2>1 DEF vars, QueueInv
<1> QED
  BY <1>1, <1>2, <1>3, <1>4, <1>5, <1>6, <1>7, <1>8, <1>9, <1>10, <1>11, <1>12,
     <1>13, <1>14, <1>15, <1>16, <1>17, <1>18, <1>19, <1>20, <1>21
     DEF Next, GuiStep, StrandStep, Completion, StartWrite, Handler

(* The wire is always exactly as far as the handler believes.                *)
LEMMA NextWireInv ==
    ASSUME Always, Untorn, ~torn', [Next]_vars
    PROVE  WireInv'
<1> USE DEF Always, Untorn, TypeOK, HandlerInv, MarkedInv, MessagesInv, Busy, Taking, Threads,
            Buffer, Nothing, Goto, Exclusive, InStartWrite, InHandler
<1>1. ASSUME NEW n \in 1 .. MaxLen, CallSend(n)
      PROVE  WireInv'
  BY <1>1 DEF CallSend, WireInv
<1>2. CASE Push
  BY <1>2 DEF Push, WireInv
<1>3. CASE DoWrite
  BY <1>3 DEF DoWrite, WireInv
<1>4. CASE RunPosted
  BY <1>4 DEF RunPosted, WireInv
<1>5. ASSUME NEW t \in Threads, Check(t)
      PROVE  WireInv'
  BY <1>5 DEF Check, WireInv
<1>6. ASSUME NEW t \in Threads, Acquire(t)
      PROVE  WireInv'
  BY <1>6 DEF Acquire, WireInv
<1>7. ASSUME NEW t \in Threads, Inspect(t)
      PROVE  WireInv'
  BY <1>7 DEF Inspect, WireInv
<1>8. ASSUME NEW t \in Threads, Pop(t)
      PROVE  WireInv'
  <2>1. /\ tx_queue \in Seq(Buffer) /\ Contiguous(tx_queue, Front, accepted) /\ tx_queue # <<>>
        /\ IsEmpty(tx_current)
    BY <1>8 DEF Pop, QueueInv
  <2>2. pc["strand"] \notin InHandler /\ pc'["strand"] \notin InHandler
    BY <1>8 DEF Pop
  <2>3. tx_current'.lo = Front
    BY <1>8, <2>1, FrontIsNat, ContiguousTail DEF Pop
  <2>4. Front = tx_current.lo
    BY <2>1, <2>2 DEF Front, IsEmpty
  <2> QED
    BY <1>8, <2>2, <2>3, <2>4 DEF Pop, WireInv
<1>9. ASSUME NEW t \in Threads, Mark(t)
      PROVE  WireInv'
  BY <1>9 DEF Mark, WireInv
<1>10. ASSUME NEW t \in Threads, Launch(t)
       PROVE  WireInv'
  BY <1>10 DEF Launch, WireInv
<1>11. ASSUME NEW t \in Threads, Unlock(t)
       PROVE  WireInv'
  BY <1>11 DEF Unlock, WireInv
<1>12. ASSUME NEW b \in inflight, NEW k \in 1 .. MaxLen, Complete(b, k)
       PROVE  WireInv'
  <2>1. b = tx_current /\ pc["strand"] = "idle" /\ k \in Nat
    BY <1>12 DEF Complete
  <2>2. Len(wire') = Len(wire) + k
    <3> DEFINE e(i) == b.lo + i - 1
    <3>1. \A i \in 1 .. k : e(i) \in Nat
      BY <2>1
    <3>2. [i \in 1 .. k |-> e(i)] \in Seq(Nat) /\ Len([i \in 1 .. k |-> e(i)]) = k
      <4> HIDE DEF e
      <4>1. [i \in 1 .. k |-> e(i)] \in Seq(Nat)
        BY <2>1, <3>1, IsASeq
      <4> QED
        BY <2>1, <4>1, LenProperties
    <3> QED
      BY <1>12, <3>2, ConcatProperties DEF Complete
  <2>3. Len(wire) = tx_current.lo
    BY <2>1 DEF WireInv
  <2> QED
    BY <1>12, <2>1, <2>2, <2>3 DEF Complete, WireInv, Size
<1>13. ASSUME NEW b \in inflight, Fail(b)
       PROVE  WireInv'
  BY <1>13 DEF Fail, WireInv
<1>14. CASE Advance
  <2>1. written \in 1 .. Size(tx_current) /\ Len(wire) = tx_current.lo + written
    BY <1>14 DEF Advance, WireInv
  <2>2. CASE Size(tx_current) > written
    <3>1. tx_current'.lo = tx_current.lo + written /\ pc'["strand"] = "release" /\ wire' = wire
      BY <1>14, <2>2, Edits, SMTT(20) DEF Advance, Size
    <3> QED
      BY <2>1, <3>1 DEF WireInv
  <2>3. CASE Size(tx_current) <= written
    <3>1. tx_current' = tx_current /\ pc'["strand"] \in {"hpop", "hclear"} /\ wire' = wire
      BY <1>14, <2>3 DEF Advance, Size
    <3>2. Len(wire) = tx_current.hi
      BY <2>1, <2>3 DEF Size
    <3> QED
      BY <3>1, <3>2 DEF WireInv
  <2>4. Size(tx_current) \in Int
    BY DEF Size
  <2> QED
    BY <2>2, <2>3, <2>4
<1>15. CASE HandlerPop
  <2>1. /\ tx_current'.hi = tx_current.hi /\ wire' = wire
        /\ pc["strand"] = "hpop" /\ pc'["strand"] = "assign"
    BY <1>15, Emptying DEF HandlerPop
  <2> QED
    BY <2>1 DEF WireInv
<1>16. CASE HandlerAssign
  <2>1. /\ tx_current'.lo = tx_current.hi /\ wire' = wire
        /\ pc["strand"] = "assign" /\ pc'["strand"] = "release"
    BY <1>16 DEF HandlerAssign, QueueInv
  <2> QED
    BY <2>1 DEF WireInv
<1>17. CASE HandlerClear
  <2>1. /\ tx_current'.lo = tx_current.hi /\ wire' = wire
        /\ pc["strand"] = "hclear" /\ pc'["strand"] = "release"
    BY <1>17, Emptying DEF HandlerClear
  <2> QED
    BY <2>1 DEF WireInv
<1>18. CASE Release
  BY <1>18 DEF Release, WireInv
<1>19. CASE Stop
  BY <1>19 DEF Stop, WireInv
<1>20. CASE Open
  BY <1>20 DEF Open, WireInv
<1>21. CASE UNCHANGED vars
  BY <1>21 DEF vars, WireInv
<1> QED
  BY <1>1, <1>2, <1>3, <1>4, <1>5, <1>6, <1>7, <1>8, <1>9, <1>10, <1>11, <1>12,
     <1>13, <1>14, <1>15, <1>16, <1>17, <1>18, <1>19, <1>20, <1>21
     DEF Next, GuiStep, StrandStep, Completion, StartWrite, Handler

-------------------------------------------------------------------------------
(* Nothing is queued, held or in flight in the initial state. *)
LEMMA InitInductive == Init => Inductive
<1> SUFFICES ASSUME Init PROVE Inductive
  OBVIOUS
<1> USE DEF Init, Threads, Buffer, Nothing, Exclusive, InStartWrite, InHandler
<1>1. /\ <<>> \in Seq(Buffer) /\ Len(tx_queue) = 0
      /\ <<>> \in Seq(Nat) /\ Len(wire) = 0
  BY EmptySeq
<1>2. TypeOK
  <2>1. should_run \in BOOLEAN
    OBVIOUS
  <2>2. pc = [t \in Threads |-> "idle"] /\ write_lock = "none"
    OBVIOUS
  <2>3. \A t \in Threads : pc[t] \in Exclusive <=> write_lock = t
    BY <2>2
  <2>4. /\ tx_queue \in Seq(Buffer) /\ Len(tx_queue) <= Capacity /\ wire \in Seq(Nat)
        /\ inflight \in SUBSET Buffer /\ tx_current \in Buffer /\ moved \in Buffer
    BY <1>1, CapacityAssumption
  <2>5. /\ pc \in [Threads -> {"idle", "push", "dowrite"} \cup InStartWrite \cup InHandler]
        /\ pc["gui"] \notin InHandler
        /\ pc["strand"] \notin {"push", "dowrite"}
    BY <2>2
  <2>6. write_lock \in Threads \cup {"none"} /\ write_in_progress \in BOOLEAN
    BY <2>2
  <2> QED
    BY <2>1, <2>3, <2>4, <2>5, <2>6 DEF TypeOK
<1>3. FlightInv /\ HandlerInv /\ TakeInv /\ MarkInv /\ MessagesInv /\ MarkedInv
  BY <1>1 DEF FlightInv, HandlerInv, TakeInv, MarkInv, MessagesInv, MarkedInv, Busy, Taking
<1>4. Front = 0
  BY DEF Front
<1>5. QueueInv
  BY <1>1, <1>4 DEF QueueInv, Contiguous
<1>6. WireInv
  BY <1>1 DEF WireInv
<1> QED
  BY <1>2, <1>3, <1>5, <1>6 DEF Inductive, Always, Untorn

(* A lost race is not forgotten.                                             *)
LEMMA TornStays ==
    ASSUME Always, torn, [Next]_vars
    PROVE  torn'
  BY DEF Next, GuiStep, StrandStep, Completion, StartWrite, Handler, CallSend, Push,
         DoWrite, RunPosted, Check, Acquire, Inspect, Pop, Mark, Launch, Unlock,
         Complete, Fail, Advance, HandlerPop, HandlerAssign, HandlerClear, Release,
         Stop, Open, vars

(* Inductive is what its name says.                                          *)
LEMMA Invariance == Spec => []Inductive
<1>1. Always /\ [Next]_vars => Always'
  BY NextTypeOK, NextFlightInv, NextHandlerInv, NextTakeInv, NextMarkInv, NextMessagesInv
     DEF Always
<1>2. Always /\ Untorn /\ ~torn' /\ [Next]_vars => Untorn'
  BY NextMarkedInv, NextQueueInv, NextWireInv DEF Untorn
<1>3. Inductive /\ [Next]_vars => Inductive'
  BY <1>1, <1>2, TornStays DEF Inductive
<1> QED
  BY <1>3, InitInductive, PTL DEF Spec

(* The variables keep their types, the queue its capacity and write_lock_    *)
(* its single holder.                                                        *)
THEOREM TypeCorrect == Spec => []TypeOK
<1>1. Inductive => TypeOK
  BY DEF Inductive, Always
<1> QED
  BY <1>1, Invariance, PTL

(* Between async_send and its completion nobody touches the buffer that the  *)
(* operating system reads, although the handler edits it without a lock,     *)
(* until startWrite meets its move assignment half done.                     *)
THEOREM BufferUntouched == Spec => []InFlightIsCurrent
<1>1. Inductive => InFlightIsCurrent
  BY DEF Inductive, Untorn, MarkedInv, InFlightIsCurrent
<1> QED
  BY <1>1, Invariance, PTL

(* pop_back is called only when a message is there.                          *)
THEOREM NeverBlocksInPop == Spec => []PopNeverBlocks
<1>1. Inductive => PopNeverBlocks
  BY DEF Inductive, Always, TakeInv, HandlerInv, PopNeverBlocks, Threads
<1> QED
  BY <1>1, Invariance, PTL

(* A queued message is not forgotten by any step.                            *)
LEMMA NextNoLostKick ==
    ASSUME Always, NoLostKick, [Next]_vars
    PROVE  NoLostKick'
<1> USE DEF Always, TypeOK, HandlerInv, TakeInv, MarkInv, NoLostKick, OnItsWay,
            Declines, MayTake, IsEmpty, Threads, Goto, Exclusive, InStartWrite,
            InHandler
<1>1. ASSUME NEW n \in 1 .. MaxLen, CallSend(n)
      PROVE  NoLostKick'
  BY <1>1 DEF CallSend
<1>2. CASE Push
  BY <1>2 DEF Push
<1>3. CASE DoWrite
  <2>1. ~(transport # "serial" /\ should_run /\ tx_queue # <<>> /\ IsEmpty(tx_current))
            \/ ~Declines \/ pc["strand"] \in {"assign", "release"}
    OBVIOUS
  <2> QED
    BY <1>3, <2>1 DEF DoWrite
<1>4. CASE RunPosted
  BY <1>4 DEF RunPosted
<1>5. ASSUME NEW t \in Threads, Check(t)
      PROVE  NoLostKick'
  BY <1>5 DEF Check
<1>6. ASSUME NEW t \in Threads, Acquire(t)
      PROVE  NoLostKick'
  BY <1>6 DEF Acquire
<1>7. ASSUME NEW t \in Threads, Inspect(t)
      PROVE  NoLostKick'
  BY <1>7 DEF Inspect
<1>8. ASSUME NEW t \in Threads, Pop(t)
      PROVE  NoLostKick'
  <2>1. ~IsEmpty(tx_current')
    BY <1>8, Messages DEF Pop
  <2> QED
    BY <1>8, <2>1 DEF Pop
<1>9. ASSUME NEW t \in Threads, Mark(t)
      PROVE  NoLostKick'
  BY <1>9 DEF Mark
<1>10. ASSUME NEW t \in Threads, Launch(t)
       PROVE  NoLostKick'
  BY <1>10 DEF Launch
<1>11. ASSUME NEW t \in Threads, Unlock(t)
       PROVE  NoLostKick'
  BY <1>11 DEF Unlock
<1>12. ASSUME NEW b \in inflight, NEW k \in 1 .. MaxLen, Complete(b, k)
       PROVE  NoLostKick'
  BY <1>12 DEF Complete
<1>13. ASSUME NEW b \in inflight, Fail(b)
       PROVE  NoLostKick'
  BY <1>13 DEF Fail
<1>14. CASE Advance
  BY <1>14 DEF Advance
<1>15. CASE HandlerPop
  BY <1>15 DEF HandlerPop
<1>16. CASE HandlerAssign
  BY <1>16 DEF HandlerAssign
<1>17. CASE HandlerClear
  BY <1>17 DEF HandlerClear
<1>18. CASE Release
  BY <1>18 DEF Release
<1>19. CASE Stop
  BY <1>19 DEF Stop
<1>20. CASE Open
  BY <1>20 DEF Open
<1>21. CASE UNCHANGED vars
  BY <1>21 DEF vars
<1> QED
  BY <1>1, <1>2, <1>3, <1>4, <1>5, <1>6, <1>7, <1>8, <1>9, <1>10, <1>11, <1>12,
     <1>13, <1>14, <1>15, <1>16, <1>17, <1>18, <1>19, <1>20, <1>21
     DEF Next, GuiStep, StrandStep, Completion, StartWrite, Handler

(* While a message is queued and nothing is being sent, somebody is on his   *)
(* way to send it.                                                           *)
THEOREM NothingForgotten == Spec => []NoLostKick
<1>1. Init => NoLostKick
  BY DEF Init, NoLostKick
<1>2. Inductive /\ NoLostKick /\ [Next]_vars => NoLostKick'
  BY NextNoLostKick DEF Inductive
<1> QED
  BY <1>1, <1>2, Invariance, PTL DEF Spec

(* No step brings a stalled path back.                                       *)
LEMMA StallStays ==
    ASSUME Always, Stalled, [Next]_vars
    PROVE  Stalled'
<1> USE DEF Always, TypeOK, HandlerInv, TakeInv, MessagesInv, Stalled, MayTake, IsEmpty,
            Threads, Goto, Exclusive, InStartWrite, InHandler
<1>1. ASSUME NEW n \in 1 .. MaxLen, CallSend(n)
      PROVE  Stalled'
  BY <1>1 DEF CallSend
<1>2. CASE Push
  BY <1>2 DEF Push
<1>3. CASE DoWrite
  BY <1>3 DEF DoWrite
<1>4. CASE RunPosted
  BY <1>4 DEF RunPosted
<1>5. ASSUME NEW t \in Threads, Check(t)
      PROVE  Stalled'
  BY <1>5 DEF Check
<1>6. ASSUME NEW t \in Threads, Acquire(t)
      PROVE  Stalled'
  BY <1>6 DEF Acquire
<1>7. ASSUME NEW t \in Threads, Inspect(t)
      PROVE  Stalled'
  BY <1>7 DEF Inspect
<1>8. ASSUME NEW t \in Threads, Pop(t)
      PROVE  Stalled'
  BY <1>8 DEF Pop
<1>9. ASSUME NEW t \in Threads, Mark(t)
      PROVE  Stalled'
  BY <1>9 DEF Mark
<1>10. ASSUME NEW t \in Threads, Launch(t)
       PROVE  Stalled'
  BY <1>10 DEF Launch
<1>11. ASSUME NEW t \in Threads, Unlock(t)
       PROVE  Stalled'
  BY <1>11 DEF Unlock
<1>12. ASSUME NEW b \in inflight, NEW k \in 1 .. MaxLen, Complete(b, k)
       PROVE  Stalled'
  BY <1>12 DEF Complete
<1>13. ASSUME NEW b \in inflight, Fail(b)
       PROVE  Stalled'
  BY <1>13 DEF Fail
<1>14. CASE Advance
  BY <1>14 DEF Advance
<1>15. CASE HandlerPop
  BY <1>15 DEF HandlerPop
<1>16. CASE HandlerAssign
  BY <1>16 DEF HandlerAssign
<1>17. CASE HandlerClear
  BY <1>17 DEF HandlerClear
<1>18. CASE Release
  BY <1>18 DEF Release
<1>19. CASE Stop
  BY <1>19 DEF Stop
<1>20. CASE Open
  BY <1>20 DEF Open
<1>21. CASE UNCHANGED vars
  BY <1>21 DEF vars
<1> QED
  BY <1>1, <1>2, <1>3, <1>4, <1>5, <1>6, <1>7, <1>8, <1>9, <1>10, <1>11, <1>12,
     <1>13, <1>14, <1>15, <1>16, <1>17, <1>18, <1>19, <1>20, <1>21
     DEF Next, GuiStep, StrandStep, Completion, StartWrite, Handler

(* Once a message is left in tx_current_ with nobody sending it, nothing is  *)
(* sent on this connection any more.                                         *)
THEOREM StalledForever == Spec => StallIsFinal
<1>1. Inductive /\ [Next]_vars => [Stalled => Stalled']_vars
  BY StallStays DEF Inductive
<1> QED
  BY <1>1, Invariance, PTL DEF Spec, StallIsFinal

(* A completion appends the next bytes of the accepted stream to the wire.   *)
LEMMA CompletionTransmits ==
    ASSUME Always, Untorn, TypeOK', NEW b \in inflight, NEW k \in 1 .. MaxLen, Complete(b, k)
    PROVE  Stream!Transmit
<1>1. /\ b = tx_current /\ b.lo \in Nat /\ b.hi \in Nat
      /\ pc["strand"] = "idle"
      /\ wire \in Seq(Nat) /\ accepted \in Nat
  BY DEF Complete, Always, Untorn, MarkedInv, TypeOK, Buffer
<1>2. Len(wire) = b.lo /\ Len(wire) \in Nat
  BY <1>1, LenProperties DEF Untorn, WireInv
<1>3. k \in Nat \ {0} /\ b.lo + k <= b.hi
  BY <1>1 DEF Complete, Size
<1>4. b.hi <= accepted
  BY <1>1 DEF Untorn, QueueInv, Contiguous, Front
<1> DEFINE e(i) == b.lo + i - 1
           t == [i \in 1 .. k |-> e(i)]
<1>5. \A i \in 1 .. k : e(i) \in Nat
  BY <1>1, <1>3
<1>6. t \in Seq(Nat) /\ Len(t) = k /\ \A i \in 1 .. k : t[i] = e(i)
  <2> HIDE DEF e
  <2>1. t \in Seq(Nat)
    BY <1>3, <1>5, IsASeq
  <2> QED
    BY <1>3, <2>1, LenProperties
<1>7. wire' = wire \o t
  BY DEF Complete
<1> HIDE DEF t
<1>8. /\ Len(wire') = Len(wire) + k
      /\ \A i \in 1 .. Len(wire) + k :
             wire'[i] = IF i <= Len(wire) THEN wire[i] ELSE t[i - Len(wire)]
  BY <1>1, <1>6, <1>7, ConcatProperties
<1>9. ASSUME NEW i \in 1 .. Len(wire')
      PROVE  wire'[i] = IF i <= Len(wire) THEN wire[i] ELSE i - 1
  <2>1. CASE i <= Len(wire)
    BY <1>2, <1>3, <1>8, <2>1
  <2>2. CASE ~(i <= Len(wire))
    <3>1. i - Len(wire) \in 1 .. k
      BY <1>2, <1>3, <1>8, <2>2
    <3>2. wire'[i] = e(i - Len(wire))
      BY <1>2, <1>6, <1>8, <2>2, <3>1
    <3> QED
      BY <1>2, <2>2, <3>2
  <2> QED
    BY <2>1, <2>2
<1>10. wire' \in Seq(Nat) /\ accepted' = accepted /\ torn' = torn
  BY DEF Complete, TypeOK
<1>11. Len(wire) < Len(wire') /\ Len(wire') <= accepted
  BY <1>1, <1>2, <1>3, <1>4, <1>8
<1> QED
  BY <1>9, <1>10, <1>11 DEF Stream!Transmit

(* Until a race is lost, every step is an accepted message, a transmission   *)
(* of the next bytes, or nothing the other end can see.                      *)
LEMMA StepRefines ==
    ASSUME Always, Untorn, TypeOK', ~torn, ~torn', [Next]_vars
    PROVE  [Stream!Next]_Stream!vars
<1>1. CASE Push
  <2>1. /\ accepted' > accepted /\ accepted' \in Nat
        /\ wire' = wire /\ torn' = torn
    BY <1>1 DEF Push, Always, MessagesInv, TypeOK
  <2> QED
    BY <2>1 DEF Stream!Next, Stream!Accept
<1>2. ASSUME NEW b \in inflight, NEW k \in 1 .. MaxLen, Complete(b, k)
      PROVE  Stream!Next
  BY <1>2, CompletionTransmits DEF Stream!Next
<1>3. Push \/ Completion \/ UNCHANGED <<accepted, wire>>
  BY DEF Next, GuiStep, StrandStep, StartWrite, Handler, CallSend, DoWrite,
         RunPosted, Check, Acquire, Inspect, Pop, Mark, Launch, Unlock, Fail,
         Advance, HandlerPop, HandlerAssign, HandlerClear, Release, Stop, Open, vars
<1>4. torn' = torn
  BY DEF Always, TypeOK
<1> QED
  BY <1>1, <1>2, <1>3, <1>4 DEF Completion, Stream!vars

(* What leaves is what was handed to send(), byte by byte, in order, nothing *)
(* twice and nothing left out in between, until startWrite meets the         *)
(* handler's move assignment half done.                                      *)
THEOREM ImplementsStream == Spec => StreamSpec
<1>1. Init => Stream!Init
  BY DEF Init, Stream!Init
<1>2. Inductive /\ Inductive' /\ [Next]_vars => [Stream!Next]_Stream!vars
  <2> SUFFICES ASSUME Inductive, Inductive', [Next]_vars
               PROVE  [Stream!Next]_Stream!vars
    OBVIOUS
  <2>1. Always /\ TypeOK'
    BY DEF Inductive, Always
  <2>2. CASE torn'
    BY <2>1, <2>2 DEF Stream!Next, Stream!Undefined, Always, TypeOK
  <2>3. CASE ~torn'
    <3>1. ~torn /\ Untorn
      BY <2>1, <2>3, TornStays DEF Inductive
    <3> QED
      BY <2>1, <2>3, <3>1, StepRefines
  <2> QED
    BY <2>2, <2>3
<1> QED
  BY <1>1, <1>2, Invariance, PTL DEF Spec, StreamSpec, Stream!Spec
===============================================================================
