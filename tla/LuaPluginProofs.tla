---------------------------- MODULE LuaPluginProofs ----------------------------
(***************************************************************************)
(* Proofs about LuaPlugin, for any size of the plot and any bounds.        *)
(***************************************************************************)
EXTENDS LuaPlugin, SequenceTheorems, TLAPS

(* The points to be shown are as many as the buffer holds. *)
LengthInv == Len(latest) = Len(Data)

(* Who draws or calls back has the mutex; and who is between the two         *)
(* assignments of AddPoint is in the script.                                 *)
LockInv ==
    pc # "ended" =>
        /\ pc = "draw" <=> mutex = "gui"
        /\ strand = "lua" <=> mutex = "strand"
        /\ half \subseteq InLua

(* Until the first frame nothing reaches the strand, unless setup() has sent *)
(* a request.                                                                *)
Loading == {"none", "script", "connections", "setup"}

QuietInv ==
    ~early /\ pc \in Loading =>
        posted = <<>> /\ requests = 0 /\ strand = "idle" /\ ~serialOpen

(* Where the oldest point is, once the offset of a point that is half added  *)
(* has moved on.                                                             *)
Oldest == IF half = {} THEN Offset ELSE (Offset + 1) % MaxSize

(* The buffer is in order while it fills, and a ring when it is full.        *)
RingInv ==
    ~early /\ pc # "ended" =>
        /\ Len(Data) < MaxSize => Offset = 0 /\ half = {} /\ latest = Data
        /\ Len(Data) = MaxSize =>
               \A i \in 1 .. MaxSize :
                   latest[i] = Data[((i - 1 + Oldest) % MaxSize) + 1]

(* The inductive invariant, to which RingInv is added for the plot. *)
TypeInv == TypeOK /\ LengthInv /\ LockInv /\ QuietInv

-------------------------------------------------------------------------------
(* The index of a ring wraps round once. *)
LEMMA WrapsOnce ==
    ASSUME NEW m \in Nat \ {0}, NEW x \in 0 .. 2 * m - 1
    PROVE  x % m = IF x < m THEN x ELSE x - m
<1>1. CASE x < m
  BY <1>1
<1>2. CASE x >= m
  <2>1. x - m \in 0 .. m - 1 /\ (x - m) % m = x - m
    BY <1>2
  <2>2. x % m = (x - m) % m
    BY <1>2
  <2> QED
    BY <1>2, <2>1, <2>2
<1> QED
  BY <1>1, <1>2

(* Every step keeps the mutex with the one who runs the script. *)
LEMMA NextLockInv ==
    ASSUME TypeInv, [Next]_vars PROVE LockInv'
<1>0. /\ TypeOK /\ LockInv /\ QuietInv
  BY DEF TypeInv
<1>1. ASSUME NEW thread \in Threads, NEW p \in Points, AddPoint(thread, p)
      PROVE  LockInv'
  BY <1>0, <1>1 DEF AddPoint, LockInv, InLua, AtCall
<1>2. ASSUME NEW thread \in Threads, Erase(thread)
      PROVE  LockInv'
  BY <1>0, <1>2 DEF Erase, LockInv, InLua
<1>3. ASSUME NEW thread \in Threads, Put(thread)
      PROVE  LockInv'
  BY <1>0, <1>3 DEF Put, LockInv, InLua, buffer
<1>4. ASSUME NEW thread \in Threads, ScriptError(thread)
      PROVE  LockInv'
  BY <1>4 DEF ScriptError, LockInv
<1>5. CASE Load
  BY <1>0, <1>5 DEF Load, LoadSteps, LockInv, InLua, buffer
<1>6. CASE Select
  BY <1>0, <1>6 DEF Select, LockInv, InLua, buffer
<1>7. CASE OpenClosePort \/ PressRequest
  BY <1>0, <1>7 DEF OpenClosePort, PressRequest, LockInv, InLua, buffer
<1>8. CASE DrawGui
  BY <1>0, <1>8 DEF DrawGui, LockInv, InLua, buffer
<1>9. CASE Drawn
  BY <1>0, <1>9 DEF Drawn, LockInv, InLua, AtCall, buffer
<1>10. CASE OnReceive
  BY <1>0, <1>10 DEF OnReceive, LockInv, InLua, buffer
<1>11. CASE TakeHandler
  BY <1>0, <1>11 DEF TakeHandler, LockInv, InLua, buffer
<1>12. CASE MakeRequest
  BY <1>0, <1>12 DEF MakeRequest, LockInv, InLua, buffer
<1>13. CASE Lock
  BY <1>0, <1>13 DEF Lock, LockInv, InLua, buffer
<1>14. CASE CallbackReturns
  BY <1>0, <1>14 DEF CallbackReturns, LockInv, InLua, AtCall, buffer
<1>15. CASE UNCHANGED vars
  BY <1>0, <1>15 DEF vars, LockInv, InLua, buffer
<1> QED
  BY <1>1, <1>2, <1>3, <1>4, <1>5, <1>6, <1>7, <1>8, <1>9, <1>10, <1>11, <1>12,
     <1>13, <1>14, <1>15
     DEF Next, Script

(* Every step keeps the strand quiet until the first frame. *)
LEMMA NextQuietInv ==
    ASSUME TypeInv, [Next]_vars PROVE QuietInv'
<1>0. /\ TypeOK /\ LockInv /\ QuietInv
  BY DEF TypeInv
<1>1. ASSUME NEW thread \in Threads, NEW p \in Points, AddPoint(thread, p)
      PROVE  QuietInv'
  BY <1>0, <1>1 DEF AddPoint, QuietInv, plugin
<1>2. ASSUME NEW thread \in Threads, Erase(thread)
      PROVE  QuietInv'
  BY <1>0, <1>2 DEF Erase, QuietInv, plugin
<1>3. ASSUME NEW thread \in Threads, Put(thread)
      PROVE  QuietInv'
  BY <1>0, <1>3 DEF Put, QuietInv, Loading, InLua, AtCall
<1>4. ASSUME NEW thread \in Threads, ScriptError(thread)
      PROVE  QuietInv'
  BY <1>4 DEF ScriptError, QuietInv, Loading
<1>5. CASE Load
  BY <1>0, <1>5 DEF Load, LoadSteps, QuietInv, Loading, plugin
<1>6. CASE Select
  BY <1>0, <1>6 DEF Select, QuietInv
<1>7. CASE OpenClosePort \/ PressRequest
  BY <1>7 DEF OpenClosePort, PressRequest, QuietInv, Loading
<1>8. CASE DrawGui
  BY <1>8 DEF DrawGui, QuietInv, Loading
<1>9. CASE Drawn
  BY <1>9 DEF Drawn, QuietInv, Loading
<1>10. CASE OnReceive
  BY <1>0, <1>10 DEF OnReceive, QuietInv
<1>11. CASE TakeHandler
  BY <1>0, <1>11 DEF TakeHandler, QuietInv
<1>12. CASE MakeRequest
  BY <1>0, <1>12 DEF MakeRequest, QuietInv
<1>13. CASE Lock
  BY <1>0, <1>13 DEF Lock, QuietInv
<1>14. CASE CallbackReturns
  BY <1>0, <1>14 DEF CallbackReturns, QuietInv, InLua, AtCall
<1>15. CASE UNCHANGED vars
  BY <1>0, <1>15 DEF vars, QuietInv, plugin
<1> QED
  BY <1>1, <1>2, <1>3, <1>4, <1>5, <1>6, <1>7, <1>8, <1>9, <1>10, <1>11, <1>12,
     <1>13, <1>14, <1>15
     DEF Next, Script

(* Every step keeps the buffer and what it is to show equally long. *)
LEMMA NextLengthInv ==
    ASSUME TypeInv, [Next]_vars PROVE LengthInv'
<1>0. /\ TypeOK /\ LengthInv /\ MaxSize \in Nat \ {0}
  BY MaxSizeAssumption DEF TypeInv
<1>1. ASSUME NEW thread \in Threads, NEW p \in Points, AddPoint(thread, p)
      PROVE  LengthInv'
  BY <1>0, <1>1 DEF AddPoint, LengthInv
<1>2. ASSUME NEW thread \in Threads, Erase(thread)
      PROVE  LengthInv'
  BY <1>2 DEF Erase, LengthInv, buffer
<1>3. ASSUME NEW thread \in Threads, Put(thread)
      PROVE  LengthInv'
  BY <1>0, <1>3 DEF Put, LengthInv, buffer
<1>4. ASSUME NEW thread \in Threads, ScriptError(thread)
      PROVE  LengthInv'
  BY <1>0, <1>4 DEF ScriptError, LengthInv, buffer
<1>5. CASE Load
  BY <1>0, <1>5 DEF Load, LengthInv, buffer
<1>6. CASE Select
  BY <1>0, <1>6 DEF Select, LengthInv, buffer
<1>7. CASE OpenClosePort \/ PressRequest
  BY <1>0, <1>7 DEF OpenClosePort, PressRequest, LengthInv, buffer
<1>8. CASE DrawGui
  BY <1>0, <1>8 DEF DrawGui, LengthInv, buffer
<1>9. CASE Drawn
  BY <1>0, <1>9 DEF Drawn, LengthInv, buffer
<1>10. CASE OnReceive
  BY <1>0, <1>10 DEF OnReceive, LengthInv, buffer
<1>11. CASE TakeHandler
  BY <1>0, <1>11 DEF TakeHandler, LengthInv, buffer
<1>12. CASE MakeRequest
  BY <1>0, <1>12 DEF MakeRequest, LengthInv, buffer
<1>13. CASE Lock
  BY <1>0, <1>13 DEF Lock, LengthInv, buffer
<1>14. CASE CallbackReturns
  BY <1>0, <1>14 DEF CallbackReturns, LengthInv, buffer
<1>15. CASE UNCHANGED vars
  BY <1>0, <1>15 DEF vars, LengthInv, buffer
<1> QED
  BY <1>1, <1>2, <1>3, <1>4, <1>5, <1>6, <1>7, <1>8, <1>9, <1>10, <1>11, <1>12,
     <1>13, <1>14, <1>15
     DEF Next, Script

(* Every step keeps the types. *)
LEMMA NextTypeOK ==
    ASSUME TypeInv, [Next]_vars PROVE TypeOK'
<1>0. /\ TypeOK /\ LengthInv /\ LockInv
      /\ MaxSize \in Nat \ {0} /\ MaxPosted \in Nat /\ MaxRequests \in Nat
  BY MaxSizeAssumption, BoundsAssumption DEF TypeInv
<1>1. ASSUME NEW thread \in Threads, NEW p \in Points, AddPoint(thread, p)
      PROVE  TypeOK'
  <2> DEFINE Grows == /\ Len(Data) < MaxSize
                      /\ Data' = Append(Data, p) /\ latest' = Append(latest, p)
                      /\ half' = half /\ Offset' = Offset
             Overwrites == /\ Len(Data) = MaxSize
                           /\ Data' = [Data EXCEPT ![Offset + 1] = p]
                           /\ latest' = Append(Tail(latest), p)
                           /\ half' = half \cup {thread} /\ Offset' = Offset
             Moves == /\ UNCHANGED <<Data, latest>>
                      /\ half' = half \ {thread}
                      /\ Offset' = (Offset + 1) % MaxSize
  <2>1. /\ Data \in Seq(Points) /\ latest \in Seq(Points) /\ Len(Data) <= MaxSize
        /\ Offset \in 0 .. MaxSize - 1 /\ half \subseteq Threads
        /\ Len(Data) \in Nat
    BY <1>0 DEF TypeOK
  <2>2. Grows \/ Overwrites \/ Moves
    BY <1>0, <1>1, <2>1 DEF AddPoint
  <2>3. /\ Data' \in Seq(Points) /\ latest' \in Seq(Points)
        /\ Len(Data') <= MaxSize
    <3>1. CASE Grows
      BY <1>0, <2>1, <3>1
    <3>2. CASE Overwrites
      <4>1. Data' \in Seq(Points) /\ Len(Data') = Len(Data)
        BY <2>1, <3>2
      <4>2. latest # <<>>
        BY <1>0, <2>1, <3>2 DEF LengthInv
      <4>3. Tail(latest) \in Seq(Points)
        BY <2>1, <4>2
      <4> QED
        BY <3>2, <4>1, <4>3
    <3>3. CASE Moves
      BY <2>1, <3>3
    <3> QED
      BY <2>2, <3>1, <3>2, <3>3
  <2>4. half' \subseteq Threads /\ Offset' \in 0 .. MaxSize - 1
    BY <1>0, <2>1, <2>2
  <2> QED
    BY <1>0, <1>1, <2>3 DEF AddPoint, TypeOK, plugin
<1>2. ASSUME NEW thread \in Threads, Erase(thread)
      PROVE  TypeOK'
  BY <1>0, <1>2 DEF Erase, TypeOK, plugin
<1>3. ASSUME NEW thread \in Threads, Put(thread)
      PROVE  TypeOK'
  BY <1>0, <1>3 DEF Put, TypeOK, buffer, plugin
<1>4. ASSUME NEW thread \in Threads, ScriptError(thread)
      PROVE  TypeOK'
  BY <1>0, <1>4 DEF ScriptError, TypeOK, buffer, plugin
<1>5. CASE Load
  BY <1>0, <1>5 DEF Load, LoadSteps, TypeOK, buffer, plugin
<1>6. CASE Select
  BY <1>0, <1>6 DEF Select, TypeOK, buffer
<1>7. CASE OpenClosePort \/ PressRequest
  <2>1. CASE OpenClosePort
    BY <1>0, <2>1 DEF OpenClosePort, TypeOK, buffer
  <2>2. CASE PressRequest
    BY <1>0, <2>2 DEF PressRequest, TypeOK, buffer, plugin
  <2> QED
    BY <1>7, <2>1, <2>2
<1>8. CASE DrawGui
  BY <1>0, <1>8 DEF DrawGui, TypeOK, Threads, buffer, plugin
<1>9. CASE Drawn
  BY <1>0, <1>9 DEF Drawn, TypeOK, buffer, plugin
<1>10. CASE OnReceive
  BY <1>0, <1>10 DEF OnReceive, TypeOK, buffer, plugin
<1>11. CASE TakeHandler
  BY <1>0, <1>11 DEF TakeHandler, TypeOK, buffer, plugin
<1>12. CASE MakeRequest
  BY <1>0, <1>12 DEF MakeRequest, TypeOK, buffer, plugin
<1>13. CASE Lock
  BY <1>0, <1>13 DEF Lock, TypeOK, Threads, buffer, plugin
<1>14. CASE CallbackReturns
  BY <1>0, <1>14 DEF CallbackReturns, TypeOK, buffer, plugin
<1>15. CASE UNCHANGED vars
  BY <1>0, <1>15 DEF vars, TypeOK, buffer, plugin
<1> QED
  BY <1>1, <1>2, <1>3, <1>4, <1>5, <1>6, <1>7, <1>8, <1>9, <1>10, <1>11, <1>12,
     <1>13, <1>14, <1>15
     DEF Next, Script


(* When the offset moves on, every point is the one before it was, and the   *)
(* oldest has become the last.                                               *)
LEMMA IndexMoves ==
    ASSUME NEW m \in Nat \ {0}, NEW o \in 0 .. m - 1, NEW i \in 1 .. m
    PROVE  /\ (i - 1 + ((o + 1) % m)) % m = IF i = m THEN o ELSE (i + o) % m
           /\ (i + o) % m \in 0 .. m - 1
           /\ i < m => (i + o) % m # o
<1> DEFINE x == i + o
<1>1. x \in 0 .. 2 * m - 1
  OBVIOUS
<1>2. x % m = IF x < m THEN x ELSE x - m
  <2> HIDE DEF x
  <2> QED
    BY <1>1, WrapsOnce
<1>3. (i + o) % m = IF i + o < m THEN i + o ELSE i + o - m
  BY <1>2
<1>4. CASE o + 1 < m
  <2> DEFINE y == (o + 1) % m
  <2>1. y = o + 1
    BY <1>4
  <2> HIDE DEF y
  <2>2. i - 1 + y = i + o
    BY <2>1
  <2> QED
    BY <1>3, <1>4, <2>2 DEF y
<1>5. CASE o + 1 = m
  <2>1. (o + 1) % m = 0
    BY <1>5
  <2>2. i - 1 + ((o + 1) % m) = i - 1
    BY <2>1
  <2>3. (i - 1) % m = i - 1
    OBVIOUS
  <2> QED
    BY <1>3, <1>5
<1> QED
  BY <1>4, <1>5

(* The point a full buffer is overwritten with: the ring is as before but    *)
(* for the oldest point, which is the newest now.                            *)
LEMMA Overwritten ==
    ASSUME NEW p \in Points, MaxSize \in Nat \ {0},
           Data \in Seq(Points), Len(Data) = MaxSize,
           latest \in Seq(Points), Len(latest) = MaxSize,
           Offset \in 0 .. MaxSize - 1,
           \A i \in 1 .. MaxSize :
               latest[i] = Data[((i - 1 + Offset) % MaxSize) + 1],
           latest' = Append(Tail(latest), p),
           Data' = [Data EXCEPT ![Offset + 1] = p]
    PROVE  \A i \in 1 .. MaxSize :
               latest'[i] = Data'[((i - 1 + ((Offset + 1) % MaxSize)) % MaxSize) + 1]
<1>1. /\ Tail(latest) \in Seq(Points) /\ Len(Tail(latest)) = MaxSize - 1
      /\ \A i \in 1 .. MaxSize - 1 : Tail(latest)[i] = latest[i + 1]
  <2>1. latest # <<>>
    OBVIOUS
  <2> QED
    BY <2>1
<1>2. latest'[MaxSize] = p /\ \A i \in 1 .. MaxSize - 1 : latest'[i] = latest[i + 1]
  BY <1>1
<1>3. Data'[Offset + 1] = p /\ \A k \in 0 .. MaxSize - 1 : k # Offset => Data'[k + 1] = Data[k + 1]
  OBVIOUS
<1> SUFFICES ASSUME NEW i \in 1 .. MaxSize
             PROVE  latest'[i] = Data'[((i - 1 + ((Offset + 1) % MaxSize)) % MaxSize) + 1]
  OBVIOUS
<1> DEFINE k == (i - 1 + ((Offset + 1) % MaxSize)) % MaxSize
           j == (i + Offset) % MaxSize
<1>4. /\ k = IF i = MaxSize THEN Offset ELSE j
      /\ j \in 0 .. MaxSize - 1
      /\ i < MaxSize => j # Offset
  BY IndexMoves
<1>5. CASE i = MaxSize
  <2> HIDE DEF k
  <2> QED
    BY <1>4, <1>5 DEF k
<1>6. CASE i < MaxSize
  <2>1. latest[i + 1] = Data[j + 1]
    <3>1. i + 1 \in 1 .. MaxSize /\ (i + 1) - 1 + Offset = i + Offset
      BY <1>6
    <3> QED
      BY <3>1
  <2>2. k = j /\ j \in 0 .. MaxSize - 1 /\ j # Offset
    BY <1>4, <1>6
  <2> HIDE DEF j, k
  <2>3. Data'[k + 1] = Data[j + 1]
    BY <1>3, <2>2
  <2>4. latest'[i] = Data'[k + 1]
    BY <1>6, <2>1, <2>3
  <2> QED
    BY <2>4 DEF k
<1> QED
  BY <1>5, <1>6

(* As long as setup() sends no request, one thread is in the script. *)
LEMMA OneInLua ==
    ASSUME TypeInv, ~early, NEW t1 \in InLua, NEW t2 \in InLua
    PROVE  t1 = t2
<1>1. LockInv /\ QuietInv
  BY DEF TypeInv
<1> QED
  BY <1>1 DEF LockInv, QuietInv, Loading, InLua

(* Every step keeps the buffer a ring of the latest points. *)
LEMMA NextRingInv ==
    ASSUME TypeInv, RingInv, [Next]_vars PROVE RingInv'
<1>0. /\ TypeOK /\ LengthInv /\ LockInv /\ QuietInv /\ RingInv
      /\ MaxSize \in Nat \ {0}
  BY MaxSizeAssumption DEF TypeInv
<1>1. ASSUME NEW thread \in Threads, NEW p \in Points, AddPoint(thread, p)
      PROVE  RingInv'
  <2> SUFFICES ASSUME ~early', pc' # "ended"
               PROVE  /\ Len(Data') < MaxSize =>
                             Offset' = 0 /\ half' = {} /\ latest' = Data'
                      /\ Len(Data') = MaxSize =>
                             \A i \in 1 .. MaxSize :
                                 latest'[i] = Data'[((i - 1 + Oldest') % MaxSize) + 1]
    BY DEF RingInv
  <2>1. /\ ~early /\ pc # "ended"
        /\ Data \in Seq(Points) /\ latest \in Seq(Points)
        /\ Len(latest) = Len(Data) /\ Len(Data) <= MaxSize
        /\ Offset \in 0 .. MaxSize - 1
        /\ half \subseteq InLua /\ InLua \subseteq Threads
        /\ Len(Data) < MaxSize => Offset = 0 /\ half = {} /\ latest = Data
        /\ Len(Data) = MaxSize =>
               \A i \in 1 .. MaxSize :
                   latest[i] = Data[((i - 1 + Oldest) % MaxSize) + 1]
    BY <1>0, <1>1 DEF AddPoint, TypeOK, LengthInv, LockInv, RingInv, InLua, Threads
  <2>2. thread \in InLua /\ half \subseteq {thread}
    BY <1>1, <2>1, OneInLua DEF AddPoint, AtCall
  <2>3. CASE AtCall(thread) /\ Len(Data) < MaxSize
    <3>1. /\ Data' = Append(Data, p) /\ latest' = Data' /\ Offset' = 0 /\ half' = {}
      BY <1>1, <2>1, <2>3 DEF AddPoint
    <3>2. Oldest' = 0
      BY <3>1 DEF Oldest
    <3>3. ASSUME NEW i \in 1 .. MaxSize
          PROVE  ((i - 1 + 0) % MaxSize) + 1 = i
      BY <1>0
    <3> QED
      BY <3>1, <3>2, <3>3
  <2>4. CASE AtCall(thread) /\ Len(Data) = MaxSize
    <3>1. /\ half = {} /\ half' # {}
          /\ Data' = [Data EXCEPT ![Offset + 1] = p]
          /\ latest' = Append(Tail(latest), p) /\ Offset' = Offset
      BY <1>1, <2>2, <2>4 DEF AddPoint, AtCall
    <3>2. Oldest = Offset /\ Oldest' = (Offset + 1) % MaxSize
      BY <3>1 DEF Oldest
    <3>3. \A i \in 1 .. MaxSize :
              latest[i] = Data[((i - 1 + Offset) % MaxSize) + 1]
      BY <2>1, <2>4, <3>2
    <3>4. \A i \in 1 .. MaxSize :
              latest'[i] = Data'[((i - 1 + Oldest') % MaxSize) + 1]
      <4>1. /\ MaxSize \in Nat \ {0} /\ p \in Points
            /\ Data \in Seq(Points) /\ latest \in Seq(Points)
            /\ Len(Data) = MaxSize /\ Len(latest) = MaxSize
            /\ Offset \in 0 .. MaxSize - 1
        BY <2>1, <2>4
      <4>2. \A i \in 1 .. MaxSize :
                latest'[i] = Data'[((i - 1 + ((Offset + 1) % MaxSize)) % MaxSize) + 1]
        BY <3>1, <3>3, <4>1, Overwritten
      <4> QED
        BY <3>2, <4>2
    <3>5. Len(Data') = MaxSize
      BY <2>1, <2>4, <3>1
    <3> QED
      BY <1>0, <3>4, <3>5
  <2>5. CASE thread \in half
    <3>1. /\ half = {thread} /\ half' = {} /\ UNCHANGED <<Data, latest>>
          /\ Offset' = (Offset + 1) % MaxSize
      BY <1>1, <2>2, <2>5 DEF AddPoint, AtCall
    <3>2. Oldest' = Oldest
      BY <3>1 DEF Oldest
    <3> QED
      BY <2>1, <3>1, <3>2
  <2> QED
    BY <1>1, <2>3, <2>4, <2>5 DEF AddPoint
<1>2. ASSUME NEW thread \in Threads, Erase(thread)
      PROVE  RingInv'
  <2>1. CASE early \/ pc = "ended"
    BY <1>2, <2>1 DEF Erase, RingInv
  <2>2. CASE ~early /\ pc # "ended"
    <3>1. half \subseteq InLua /\ InLua \subseteq Threads
      BY <1>0, <2>2 DEF LockInv, InLua, Threads
    <3>2. half = {}
      BY <1>2, <2>2, <3>1, OneInLua DEF Erase, AtCall
    <3>3. Data' = <<>> /\ latest' = <<>> /\ Offset' = 0 /\ half' = {}
      BY <1>2, <3>2 DEF Erase
    <3>4. Len(Data') = 0
      BY <3>3
    <3> QED
      BY <1>0, <3>3, <3>4 DEF RingInv
  <2> QED
    BY <2>1, <2>2
<1>3. ASSUME NEW thread \in Threads, Put(thread)
      PROVE  RingInv'
  BY <1>3 DEF Put, RingInv, Oldest, buffer
<1>4. ASSUME NEW thread \in Threads, ScriptError(thread)
      PROVE  RingInv'
  BY <1>4 DEF ScriptError, RingInv
<1>5. CASE Load
  BY <1>5 DEF Load, LoadSteps, RingInv, Oldest, buffer
<1>6. CASE Select
  BY <1>6 DEF Select, RingInv, Oldest, buffer
<1>7. CASE OpenClosePort \/ PressRequest
  BY <1>7 DEF OpenClosePort, PressRequest, RingInv, Oldest, buffer
<1>8. CASE DrawGui
  BY <1>8 DEF DrawGui, RingInv, Oldest, buffer
<1>9. CASE Drawn
  BY <1>9 DEF Drawn, RingInv, Oldest, buffer
<1>10. CASE OnReceive
  BY <1>10 DEF OnReceive, RingInv, Oldest, buffer
<1>11. CASE TakeHandler
  BY <1>11 DEF TakeHandler, RingInv, Oldest, buffer
<1>12. CASE MakeRequest
  BY <1>12 DEF MakeRequest, RingInv, Oldest, buffer
<1>13. CASE Lock
  BY <1>13 DEF Lock, RingInv, Oldest, buffer
<1>14. CASE CallbackReturns
  BY <1>14 DEF CallbackReturns, RingInv, Oldest, buffer
<1>15. CASE UNCHANGED vars
  BY <1>15 DEF vars, RingInv, Oldest, buffer
<1> QED
  BY <1>1, <1>2, <1>3, <1>4, <1>5, <1>6, <1>7, <1>8, <1>9, <1>10, <1>11, <1>12,
     <1>13, <1>14, <1>15
     DEF Next, Script

(* Nothing is loaded, nothing drawn at the start. *)
LEMMA InitInv == Init => TypeInv /\ RingInv
<1> SUFFICES ASSUME Init PROVE TypeInv /\ RingInv
  OBVIOUS
<1>0. /\ MaxSize \in Nat \ {0} /\ MaxRequests \in Nat
      /\ pc = "none" /\ hasAction \in BOOLEAN /\ hasReceive \in BOOLEAN
      /\ selected = FALSE /\ serialOpen = FALSE /\ mutex = "free" /\ posted = <<>>
      /\ strand = "idle" /\ requests = 0 /\ Data = <<>> /\ Offset = 0
      /\ half = {} /\ latest = <<>> /\ early = FALSE
  BY MaxSizeAssumption, BoundsAssumption DEF Init
<1>1. TypeOK
  <2>1. Data \in Seq(Points) /\ Len(Data) = 0 /\ latest \in Seq(Points)
    BY <1>0
  <2>2. posted \in Seq({"put", "callback"})
    BY <1>0
  <2>3. {hasAction, hasReceive, selected, serialOpen, early} \subseteq BOOLEAN
    BY <1>0
  <2>4. requests \in 0 .. MaxRequests /\ Offset \in 0 .. MaxSize - 1 /\ Len(Data) <= MaxSize
    BY <1>0, <2>1
  <2> QED
    BY <1>0, <2>3 DEF TypeOK
<1>2. LengthInv /\ LockInv /\ QuietInv
  BY <1>0 DEF LengthInv, LockInv, QuietInv
<1>3. RingInv
  BY <1>0 DEF RingInv
<1> QED
  BY <1>1, <1>2, <1>3 DEF TypeInv

(* Every step keeps the whole. *)
LEMMA NextInv ==
    ASSUME TypeInv, RingInv, [Next]_vars PROVE TypeInv' /\ RingInv'
BY NextTypeOK, NextLengthInv, NextLockInv, NextQuietInv, NextRingInv DEF TypeInv

(* So both hold in every state that the plugin reaches. *)
LEMMA InvariantInv == Spec => [](TypeInv /\ RingInv)
BY InitInv, NextInv, PTL DEF Spec

(* The plugin, the queue of the strand, the mutex and the buffer are always  *)
(* of their types; the offset stays within the buffer.                       *)
THEOREM TypeCorrect == Spec => []TypeOK
<1>1. TypeInv => TypeOK
  BY DEF TypeInv
<1> QED
  BY <1>1, InvariantInv, PTL

(* The Lua state is used by one thread at a time, unless setup() sends a     *)
(* request: the script is loaded without the mutex, but before anything can  *)
(* call it back (LuaPlugin::LuaPlugin, drawGui, onReceive).                  *)
THEOREM OneThreadInLua == Spec => []LuaOfOneThread
<1>1. TypeInv => LuaOfOneThread
  <2> SUFFICES ASSUME TypeInv, Threads \subseteq InLua, ~early PROVE FALSE
    BY DEF LuaOfOneThread, TypeInv, TypeOK
  <2>1. "gui" \in InLua /\ "strand" \in InLua
    BY DEF Threads
  <2> QED
    BY <2>1, OneInLua
<1> QED
  BY <1>1, InvariantInv, PTL

(* What plotLine() shows are the last points added, in their order, for any  *)
(* size of the buffer, whichever thread has added them (ScrollingBuffer).    *)
THEOREM PlotIsLatest == Spec => []PlotShowsLatest
<1>1. TypeInv /\ RingInv => PlotShowsLatest
  <2> SUFFICES ASSUME TypeInv, RingInv, pc = "draw", AtCall("gui"), ~early
               PROVE  Shown = latest
    BY DEF PlotShowsLatest
  <2>1. /\ Data \in Seq(Points) /\ latest \in Seq(Points) /\ Len(Data) \in Nat
        /\ Len(latest) = Len(Data) /\ Len(Data) <= MaxSize
        /\ MaxSize \in Nat \ {0}
    BY MaxSizeAssumption DEF TypeInv, TypeOK, LengthInv
  <2>2. half = {}
    <3>1. half \subseteq InLua
      BY DEF TypeInv, LockInv
    <3> QED
      BY <3>1, OneInLua DEF AtCall
  <2>3. Oldest = Offset
    BY <2>2 DEF Oldest
  <2>4. ASSUME NEW i \in 1 .. Len(Data)
        PROVE  latest[i] = Data[((i - 1 + Offset) % Len(Data)) + 1]
    <3>1. CASE Len(Data) < MaxSize
      <4>1. Offset = 0 /\ latest = Data
        BY <3>1 DEF RingInv
      <4>2. ((i - 1 + 0) % Len(Data)) + 1 = i
        BY <2>1
      <4> QED
        BY <4>1, <4>2
    <3>2. CASE Len(Data) = MaxSize
      BY <2>3, <3>2 DEF RingInv
    <3> QED
      BY <2>1, <3>1, <3>2
  <2>5. DOMAIN Data = 1 .. Len(Data) /\ DOMAIN latest = 1 .. Len(Data)
    BY <2>1
  <2>6. latest = [i \in 1 .. Len(Data) |-> latest[i]]
    BY <2>1
  <2> QED
    BY <2>4, <2>5, <2>6 DEF Shown
<1> QED
  BY <1>1, InvariantInv, PTL

===============================================================================
