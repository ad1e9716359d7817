---------------------------- MODULE CoapClientProofs ----------------------------
(***************************************************************************)
(* Proofs about CoapClient, for any number of requests and sessions.       *)
(***************************************************************************)
EXTENDS CoapClient, FiniteSetTheorems, SequenceTheorems, TLAPS

(* Where a thread stands in a request, and where in a callback. *)
Requesting == {"pdu", "track", "count", "body", "data", "send"}
Calling == {"check", "deliver", "flush", "uncount"}

(* Every place where a thread of the client can stand. *)
Places ==
    {"idle", "pdu", "track", "count", "body", "data", "send",
     "replace", "process", "check", "deliver", "flush", "uncount"}

(* A request whose token has been put into the list. *)
Sent(r) ==
    \/ of[r] # 0
    \/ \E s \in Senders : job[s].req = r /\ pc[s] \in {"body", "data", "send"}

AllSent == {r \in Requests : Sent(r)}

(* A thread that makes a request holds the lock, so that the session stays;  *)
(* and every request is of one thread.                                       *)
SenderInv ==
    /\ \A s \in Senders :
           /\ pc[s] \in {"idle", "replace"} \cup Requesting
           /\ pc[s] \in Requesting =>
                  s \in shared /\ job[s].req \in Requests /\ of[job[s].req] = 0
           /\ pc[s] \notin Requesting => job[s].req = 0
           /\ pc[s] \in Requesting \ {"pdu"} => job[s].session = session
    /\ job["gui"].req = job["lua"].req => job["gui"].req = 0
    /\ pc["lua"] # "replace"
    /\ pc["gui"] = "replace" => session < MaxSessions

(* What arrives was sent. *)
CallbackInv ==
    /\ pc["io"] \in {"idle", "process"} \cup Calling
    /\ pc["io"] \in Calling =>
           job["io"].req \in Requests /\ of[job["io"].req] # 0
    /\ \A r \in live : of[r] # 0
    /\ \A r \in Requests : answered[r] # 0 => of[r] # 0

(* The count stays within what has been sent. *)
CountInv ==
    /\ count <= Cardinality(AllSent)
    /\ pc["io"] = "uncount" => count >= 1

(* Who is about to write the list is alone with it. *)
RaceInv == ~raced => \A t1 \in Writing, t2 \in InList : t1 = t2

(* A token that is stored and not counted yet has its slot. *)
RoomInv ==
    ~raced => \A s \in Senders : pc[s] = "count" => count < Len(tracked_tokens)

(* The inductive invariant about threads, locks and counters. *)
TypeInv ==
    TypeOK /\ SenderInv /\ CallbackInv /\ CountInv /\ RaceInv /\ RoomInv

(* What the step did, apart from the history of races. *)
Kept == raced' = (raced \/ (Cardinality(InList') > 1 /\ Writing' # {}))

-------------------------------------------------------------------------------
(* The sets that the constants make. *)
LEMMA Constants ==
    /\ MaxRequests \in Nat /\ MaxSessions \in Nat /\ MaxSessions >= 1
    /\ IsFiniteSet(Requests) /\ Cardinality(Requests) = MaxRequests
    /\ \A S \in SUBSET Requests :
           Cardinality(S) \in Nat /\ Cardinality(S) <= MaxRequests
<1>1. MaxRequests \in Nat /\ MaxSessions \in Nat /\ MaxSessions >= 1
  BY BoundsAssumption
<1>2. IsFiniteSet(Requests) /\ Cardinality(Requests) = MaxRequests
  BY <1>1, FS_Interval DEF Requests
<1>3. ASSUME NEW S \in SUBSET Requests
      PROVE  Cardinality(S) \in Nat /\ Cardinality(S) <= MaxRequests
  BY <1>2, FS_Subset, FS_CardinalityType
<1> QED
  BY <1>1, <1>2, <1>3

(* Two threads in the list are more than one. *)
LEMMA TwoThreads ==
    ASSUME NEW S \in SUBSET Threads, NEW t1 \in S, NEW t2 \in S, t1 # t2
    PROVE  Cardinality(S) > 1
<1>1. IsFiniteSet({t1}) /\ Cardinality({t1}) = 1
  BY FS_Singleton
<1>2. Cardinality({t1} \cup {t2}) = 2
  BY <1>1, FS_AddElement
<1>3. IsFiniteSet(Threads)
  <2>1. IsFiniteSet({"gui"})
    BY FS_Singleton
  <2>2. IsFiniteSet({"gui"} \cup {"lua"})
    BY <2>1, FS_AddElement
  <2>3. IsFiniteSet(({"gui"} \cup {"lua"}) \cup {"io"})
    BY <2>2, FS_AddElement
  <2>4. Threads = ({"gui"} \cup {"lua"}) \cup {"io"}
    BY DEF Threads, Senders
  <2> QED
    BY <2>3, <2>4
<1>4. IsFiniteSet(S) /\ Cardinality(S) \in Nat
  BY <1>3, FS_Subset, FS_CardinalityType
<1>5. {t1} \cup {t2} \in SUBSET S
  OBVIOUS
<1>6. Cardinality({t1} \cup {t2}) <= Cardinality(S)
  BY <1>4, <1>5, FS_Subset
<1> QED
  BY <1>2, <1>4, <1>6

(* No other thread is in the list when one is about to write it, or the race *)
(* is on record.                                                             *)
LEMMA KeptRaceInv ==
    ASSUME Kept PROVE RaceInv' /\ (raced => raced')
<1>1. raced => raced'
  BY DEF Kept
<1>2. ASSUME ~raced', NEW t1 \in Writing', NEW t2 \in InList', t1 # t2
      PROVE  FALSE
  <2>1. t1 \in InList' /\ InList' \in SUBSET Threads
    BY <1>2 DEF Writing, InList
  <2>2. Cardinality(InList') > 1
    BY <1>2, <2>1, TwoThreads
  <2> QED
    BY <1>2, <2>2 DEF Kept
<1> QED
  BY <1>1, <1>2 DEF RaceInv

(* Every step keeps the requests with their threads and their session. *)
LEMMA NextSenderInv ==
    ASSUME TypeInv, Step PROVE SenderInv'
<1>0. /\ shared \subseteq Threads /\ session \in Sessions
      /\ of \in [Requests -> {0} \cup Sessions] /\ live \subseteq Requests
      /\ pc \in [Threads -> Places]
      /\ job \in [Threads -> Job]
      /\ answered \in [Requests -> 0 .. 2]
      /\ MaxRequests \in Nat /\ MaxSessions \in Nat
      /\ SenderInv /\ CallbackInv
  BY Constants DEF TypeInv, TypeOK, Places

<1>1. ASSUME NEW s \in Senders, LockRequest(s)
      PROVE  SenderInv'
  BY <1>0, <1>1 DEF LockRequest, Used, SenderInv, Requesting, Senders, Goto,
       libcoap
<1>2. ASSUME NEW s \in Senders, NewPdu(s)
      PROVE  SenderInv'
  BY <1>0, <1>2 DEF NewPdu, SenderInv, Requesting, Goto, libcoap
<1>3. ASSUME NEW s \in Senders, TrackStore(s)
      PROVE  SenderInv'
  BY <1>0, <1>3 DEF TrackStore, SenderInv, Requesting, Goto, libcoap
<1>4. ASSUME NEW s \in Senders, TrackCount(s)
      PROVE  SenderInv'
  BY <1>0, <1>4 DEF TrackCount, SenderInv, Requesting, Goto, libcoap
<1>5. ASSUME NEW s \in Senders, StoreBody(s)
      PROVE  SenderInv'
  BY <1>0, <1>5 DEF StoreBody, SenderInv, Requesting, Goto, libcoap
<1>6. ASSUME NEW s \in Senders, AddData(s)
      PROVE  SenderInv'
  BY <1>0, <1>6 DEF AddData, SenderInv, Requesting, Goto, libcoap
<1>7. ASSUME NEW s \in Senders, Send(s)
      PROVE  SenderInv'
  BY <1>0, <1>7 DEF Send, SenderInv, Requesting, Senders, Goto, NoJob, Requests
<1>8. CASE SetOptions
  BY <1>0, <1>8 DEF SetOptions, SenderInv, Requesting, Goto
<1>9. CASE ReplaceSession
  BY <1>0, <1>9 DEF ReplaceSession, MayReplace, SenderInv, Senders, Threads, Goto
<1>10. CASE StartIO
  BY <1>0, <1>10 DEF StartIO, SenderInv, Senders, Goto, libcoap
<1>11. CASE EndIO
  BY <1>0, <1>11 DEF EndIO, SenderInv, Requesting, Goto, libcoap
<1>12. ASSUME NEW r \in Requests, GiveUp(r)
      PROVE  SenderInv'
  BY <1>0, <1>12 DEF GiveUp, SenderInv
<1>13. ASSUME NEW r \in Requests, NEW response \in Response, Receive(r, response)
      PROVE  SenderInv'
  BY <1>0, <1>13 DEF Receive, SenderInv, Requesting, Goto, libcoap
<1>14. CASE CheckToken
  BY <1>0, <1>14 DEF CheckToken, Return, SenderInv, Senders, Threads, Goto,
       libcoap
<1>15. CASE Deliver
  BY <1>0, <1>15 DEF Deliver, Return, SenderInv, Senders, Threads, Goto, libcoap
<1>16. CASE Flush
  <2>1. \A s \in Senders : pc'[s] = pc[s] /\ job'[s] = job[s]
    BY <1>0, <1>16 DEF Flush, Return, Goto, Senders, Threads
  <2>2. shared' = shared /\ of' = of /\ session' = session
    BY <1>16 DEF Flush, libcoap
  <2> QED
    BY <1>0, <2>1, <2>2 DEF SenderInv, Senders
<1>17. CASE FlushCount
  BY <1>0, <1>17 DEF FlushCount, Return, SenderInv, Requesting, Goto, libcoap
<1>18. ASSUME NEW s \in Senders, TrackFails(s)
       PROVE  SenderInv'
  BY <1>0, <1>18 DEF TrackFails, SenderInv, Requesting, Goto, libcoap
<1> QED
  BY <1>1, <1>2, <1>3, <1>4, <1>5, <1>6, <1>7, <1>8, <1>9, <1>10, <1>11, <1>12,
     <1>13, <1>14, <1>15, <1>16, <1>17, <1>18
     DEF Step, Request, Callback, Libcoap

(* Every step keeps what arrives to what was sent. *)
LEMMA NextCallbackInv ==
    ASSUME TypeInv, Step PROVE CallbackInv'
<1>0. /\ shared \subseteq Threads /\ session \in Sessions
      /\ of \in [Requests -> {0} \cup Sessions] /\ live \subseteq Requests
      /\ pc \in [Threads -> Places]
      /\ job \in [Threads -> Job]
      /\ answered \in [Requests -> 0 .. 2]
      /\ MaxRequests \in Nat /\ MaxSessions \in Nat
      /\ SenderInv /\ CallbackInv
  BY Constants DEF TypeInv, TypeOK, Places

<1>1. ASSUME NEW s \in Senders, LockRequest(s)
      PROVE  CallbackInv'
  BY <1>0, <1>1 DEF LockRequest, CallbackInv, Senders, Goto, libcoap, signals
<1>2. ASSUME NEW s \in Senders, NewPdu(s)
      PROVE  CallbackInv'
  BY <1>0, <1>2 DEF NewPdu, SenderInv, CallbackInv, Goto, libcoap, signals
<1>3. ASSUME NEW s \in Senders, TrackStore(s)
      PROVE  CallbackInv'
  BY <1>0, <1>3 DEF TrackStore, SenderInv, CallbackInv, Goto, libcoap, signals
<1>4. ASSUME NEW s \in Senders, TrackCount(s)
      PROVE  CallbackInv'
  BY <1>0, <1>4 DEF TrackCount, SenderInv, CallbackInv, Goto, libcoap, signals
<1>5. ASSUME NEW s \in Senders, StoreBody(s)
      PROVE  CallbackInv'
  BY <1>0, <1>5 DEF StoreBody, SenderInv, CallbackInv, Goto, libcoap, signals
<1>6. ASSUME NEW s \in Senders, AddData(s)
      PROVE  CallbackInv'
  BY <1>0, <1>6 DEF AddData, SenderInv, CallbackInv, Goto, libcoap, signals
<1>7. ASSUME NEW s \in Senders, Send(s)
      PROVE  CallbackInv'
  BY <1>0, <1>7 DEF Send, SenderInv, CallbackInv, Goto, Sessions, signals
<1>8. CASE SetOptions
  BY <1>0, <1>8 DEF SetOptions, CallbackInv, Goto, signals
<1>9. CASE ReplaceSession
  BY <1>0, <1>9 DEF ReplaceSession, CallbackInv, Goto, signals
<1>10. CASE StartIO
  BY <1>0, <1>10 DEF StartIO, CallbackInv, Calling, Goto, libcoap, signals
<1>11. CASE EndIO
  BY <1>0, <1>11 DEF EndIO, CallbackInv, Calling, Goto, libcoap, signals
<1>12. ASSUME NEW r \in Requests, GiveUp(r)
      PROVE  CallbackInv'
  BY <1>0, <1>12 DEF GiveUp, CallbackInv, signals
<1>13. ASSUME NEW r \in Requests, NEW response \in Response, Receive(r, response)
      PROVE  CallbackInv'
  BY <1>0, <1>13 DEF Receive, CallbackInv, Calling, Goto, libcoap, signals
<1>14. CASE CheckToken
  BY <1>0, <1>14 DEF CheckToken, Return, CallbackInv, Calling, Goto, libcoap,
       signals
<1>15. CASE Deliver
  BY <1>0, <1>15 DEF Deliver, Return, CallbackInv, Calling, Goto, libcoap, signals
<1>16. CASE Flush
  BY <1>0, <1>16 DEF Flush, Return, CallbackInv, Calling, Goto, libcoap, signals
<1>17. CASE FlushCount
  BY <1>0, <1>17 DEF FlushCount, Return, CallbackInv, Calling, Goto, libcoap,
       signals
<1>18. ASSUME NEW s \in Senders, TrackFails(s)
       PROVE  CallbackInv'
  BY <1>0, <1>18 DEF TrackFails, SenderInv, CallbackInv, Goto, libcoap
<1> QED
  BY <1>1, <1>2, <1>3, <1>4, <1>5, <1>6, <1>7, <1>8, <1>9, <1>10, <1>11, <1>12,
     <1>13, <1>14, <1>15, <1>16, <1>17, <1>18
     DEF Step, Request, Callback, Libcoap

(* What is sent stays so. *)
LEMMA AllSentGrows ==
    ASSUME TypeInv, Step PROVE \A r \in Requests : Sent(r) => Sent(r)'
<1>0. /\ shared \subseteq Threads /\ session \in Sessions
      /\ of \in [Requests -> {0} \cup Sessions] /\ live \subseteq Requests
      /\ pc \in [Threads -> Places]
      /\ job \in [Threads -> Job]
      /\ answered \in [Requests -> 0 .. 2]
      /\ MaxRequests \in Nat /\ MaxSessions \in Nat
      /\ SenderInv /\ CallbackInv
  BY Constants DEF TypeInv, TypeOK, Places

<1>1. ASSUME NEW s \in Senders, LockRequest(s)
      PROVE  \A r \in Requests : Sent(r) => Sent(r)'
  BY <1>1 DEF LockRequest, Sent, Goto, libcoap
<1>2. ASSUME NEW s \in Senders, NewPdu(s)
      PROVE  \A r \in Requests : Sent(r) => Sent(r)'
  BY <1>2 DEF NewPdu, Sent, Goto, libcoap
<1>3. ASSUME NEW s \in Senders, TrackStore(s)
      PROVE  \A r \in Requests : Sent(r) => Sent(r)'
  BY <1>3 DEF TrackStore, Sent, Goto, libcoap
<1>4. ASSUME NEW s \in Senders, TrackCount(s)
      PROVE  \A r \in Requests : Sent(r) => Sent(r)'
  BY <1>4 DEF TrackCount, Sent, Goto, libcoap
<1>5. ASSUME NEW s \in Senders, StoreBody(s)
      PROVE  \A r \in Requests : Sent(r) => Sent(r)'
  BY <1>5 DEF StoreBody, Sent, Goto, libcoap
<1>6. ASSUME NEW s \in Senders, AddData(s)
      PROVE  \A r \in Requests : Sent(r) => Sent(r)'
  BY <1>6 DEF AddData, Sent, Goto, libcoap
<1>7. ASSUME NEW s \in Senders, Send(s)
      PROVE  \A r \in Requests : Sent(r) => Sent(r)'
  BY <1>0, <1>7 DEF Send, Sent, SenderInv, Goto, Sessions
<1>8. CASE SetOptions
  BY <1>8 DEF SetOptions, Sent, Goto
<1>9. CASE ReplaceSession
  BY <1>0, <1>9 DEF ReplaceSession, MayReplace, Sent, SenderInv
<1>10. CASE StartIO
  BY <1>10 DEF StartIO, Sent, Goto, libcoap
<1>11. CASE EndIO
  BY <1>11 DEF EndIO, Sent, Goto, libcoap
<1>12. ASSUME NEW q \in Requests, GiveUp(q)
      PROVE  \A r \in Requests : Sent(r) => Sent(r)'
  BY <1>12 DEF GiveUp, Sent
<1>13. ASSUME NEW q \in Requests, NEW response \in Response, Receive(q, response)
      PROVE  \A r \in Requests : Sent(r) => Sent(r)'
  BY <1>13 DEF Receive, Sent, Goto, libcoap
<1>14. CASE CheckToken
  BY <1>0, <1>14 DEF CheckToken, Return, Sent, SenderInv, Goto, libcoap
<1>15. CASE Deliver
  BY <1>0, <1>15 DEF Deliver, Return, Sent, SenderInv, Goto, libcoap
<1>16. CASE Flush
  BY <1>0, <1>16 DEF Flush, Return, Sent, SenderInv, Goto, libcoap
<1>17. CASE FlushCount
  BY <1>17 DEF FlushCount, Return, Sent, Goto, libcoap
<1>18. ASSUME NEW s \in Senders, TrackFails(s)
       PROVE  \A r \in Requests : Sent(r) => Sent(r)'
  BY <1>18 DEF TrackFails, Sent, Goto, libcoap
<1> QED
  BY <1>1, <1>2, <1>3, <1>4, <1>5, <1>6, <1>7, <1>8, <1>9, <1>10, <1>11, <1>12,
     <1>13, <1>14, <1>15, <1>16, <1>17, <1>18
     DEF Step, Request, Callback, Libcoap


(* A request that is counted was not sent before. *)
LEMMA CountedIsNew ==
    ASSUME TypeInv, NEW s \in Senders, TrackCount(s)
    PROVE  \E r \in Requests : r = job[s].req /\ ~Sent(r) /\ Sent(r)'
<1>0. pc \in [Threads -> Places] /\ SenderInv
  BY DEF TypeInv, TypeOK, Places
<1>1. job[s].req \in Requests /\ of[job[s].req] = 0
  BY <1>0 DEF SenderInv, TrackCount, Requesting
<1>2. PICK r \in Requests : r = job[s].req
  BY <1>1
<1>3. ~Sent(r)
  BY <1>0, <1>2 DEF SenderInv, Sent, TrackCount, Senders, Requests
<1>4. Sent(r)'
  BY <1>0, <1>2 DEF Sent, TrackCount, Threads, Goto
<1> QED
  BY <1>2, <1>3, <1>4

(* Every step keeps the count within what has been sent. *)
LEMMA NextCountInv ==
    ASSUME TypeInv, Step PROVE CountInv'
<1>0. /\ pc \in [Threads -> Places] /\ count \in Nat /\ CountInv
      /\ SenderInv
  BY Constants DEF TypeInv, TypeOK, Places
<1>1. AllSent \subseteq AllSent' /\ AllSent \in SUBSET Requests
                                /\ AllSent' \in SUBSET Requests
  BY AllSentGrows DEF AllSent
<1>2. /\ IsFiniteSet(AllSent) /\ IsFiniteSet(AllSent')
      /\ Cardinality(AllSent) \in Nat /\ Cardinality(AllSent') \in Nat
  BY <1>1, Constants, FS_Subset
<1>3. Cardinality(AllSent) <= Cardinality(AllSent')
  BY <1>1, <1>2, FS_Subset
<1>4. ASSUME NEW s \in Senders, TrackCount(s)
      PROVE  CountInv'
  <2>1. PICK r \in Requests : ~Sent(r) /\ Sent(r)'
    BY <1>4, CountedIsNew
  <2>2. AllSent \cup {r} \in SUBSET AllSent'
    BY <1>1, <2>1 DEF AllSent
  <2>3. Cardinality(AllSent \cup {r}) = Cardinality(AllSent) + 1
    BY <1>2, <2>1, FS_AddElement DEF AllSent
  <2>4. Cardinality(AllSent \cup {r}) <= Cardinality(AllSent')
    BY <1>2, <2>2, FS_Subset
  <2>5. count' = count + 1 /\ pc'["io"] = pc["io"]
    BY <1>4 DEF TrackCount, Goto, Senders
  <2> QED
    BY <1>0, <1>2, <2>3, <2>4, <2>5 DEF CountInv
<1>5. CASE Flush
  BY <1>0, <1>2, <1>3, <1>5 DEF Flush, Return, Goto, CountInv
<1>6. CASE FlushCount
  <2>1. count' <= count /\ pc'["io"] = "process"
    BY <1>0, <1>6 DEF FlushCount, Return, Goto, Threads
  <2>2. count' \in Int
    BY <1>0, <1>6 DEF FlushCount
  <2> QED
    BY <1>0, <1>2, <1>3, <2>1, <2>2 DEF CountInv
<1>7. ASSUME count' = count, pc'["io"] = "uncount" => pc["io"] = "uncount"
      PROVE  CountInv'
  BY <1>0, <1>2, <1>3, <1>7 DEF CountInv
<1>8. ASSUME NEW s \in Senders,
             LockRequest(s) \/ NewPdu(s) \/ TrackStore(s) \/ TrackFails(s)
                 \/ StoreBody(s) \/ AddData(s) \/ Send(s)
      PROVE  CountInv'
  BY <1>0, <1>7, <1>8 DEF LockRequest, NewPdu, TrackStore, TrackFails, StoreBody,
       AddData, Send, Goto, Threads, lists
<1>9. CASE SetOptions \/ ReplaceSession
  BY <1>0, <1>7, <1>9 DEF SetOptions, ReplaceSession, Goto, Threads, lists
<1>10. CASE StartIO \/ EndIO \/ CheckToken \/ Deliver
  BY <1>0, <1>7, <1>10 DEF StartIO, EndIO, CheckToken, Deliver, Return, Goto,
       lists
<1>11. ASSUME NEW r \in Requests, Libcoap(r)
       PROVE  CountInv'
  BY <1>0, <1>7, <1>11 DEF Libcoap, GiveUp, Receive, Goto, lists
<1> QED
  BY <1>4, <1>5, <1>6, <1>8, <1>9, <1>10, <1>11 DEF Step, Request, Callback

(* A slot holds a token or the junk of fresh memory. *)
LEMMA SlotType ==
    ASSUME TypeInv
    PROVE  \A i \in Nat \ {0} : Slot(i) \in Requests \cup {Junk}
<1>1. tracked_tokens \in Seq(Requests \cup {Junk})
  BY DEF TypeInv, TypeOK
<1> QED
  BY <1>1 DEF Slot

(* The list a new token makes: one slot more than are counted. *)
LEMMA StoredList ==
    ASSUME TypeInv, NEW s \in Senders, TrackStore(s)
    PROVE  /\ tracked_tokens' \in Seq(Requests \cup {Junk})
           /\ Len(tracked_tokens') = count + 1
           /\ \A i \in 1 .. count : tracked_tokens'[i] = Slot(i)
           /\ tracked_tokens'[count + 1] = job[s].req
<1>1. count \in Nat /\ job[s].req \in Requests
  BY DEF TypeInv, TypeOK, TrackStore, SenderInv
<1> DEFINE e(i) == IF i = count + 1 THEN job[s].req ELSE Slot(i)
<1>2. \A i \in 1 .. count + 1 : e(i) \in Requests \cup {Junk}
  BY <1>1, SlotType
<1>3. tracked_tokens' = [i \in 1 .. count + 1 |-> e(i)]
  BY DEF TrackStore
<1>4. \A i \in 1 .. count : e(i) = Slot(i)
  BY <1>1
<1>5. e(count + 1) = job[s].req
  OBVIOUS
<1> HIDE DEF e
<1>6. tracked_tokens' \in Seq(Requests \cup {Junk}) /\ Len(tracked_tokens') = count + 1
  BY <1>1, <1>2, <1>3
<1> QED
  BY <1>1, <1>3, <1>4, <1>5, <1>6

(* A token that cannot be stored leaves the slots that are counted alone. *)
LEMMA UnstoredList ==
    ASSUME TypeInv, NEW s \in Senders, TrackFails(s)
    PROVE  \/ UNCHANGED tracked_tokens
           \/ /\ tracked_tokens' \in Seq(Requests \cup {Junk})
              /\ Len(tracked_tokens') = count + 1
              /\ \A i \in 1 .. count : tracked_tokens'[i] = Slot(i)
<1>1. count \in Nat
  BY DEF TypeInv, TypeOK
<1> DEFINE e(i) == IF i = count + 1 THEN Junk ELSE Slot(i)
<1>2. \A i \in 1 .. count + 1 : e(i) \in Requests \cup {Junk}
  BY <1>1, SlotType
<1>3. tracked_tokens' \in {tracked_tokens, [i \in 1 .. count + 1 |-> e(i)]}
  BY DEF TrackFails
<1>4. \A i \in 1 .. count : e(i) = Slot(i)
  BY <1>1
<1> HIDE DEF e
<1>5. /\ [i \in 1 .. count + 1 |-> e(i)] \in Seq(Requests \cup {Junk})
      /\ Len([i \in 1 .. count + 1 |-> e(i)]) = count + 1
  BY <1>1, <1>2
<1> QED
  BY <1>1, <1>3, <1>4, <1>5

(* A token that is flushed leaves a list as long as before. *)
LEMMA MovedList ==
    ASSUME TypeInv, NEW i \in 1 .. count
    PROVE  /\ Moved(i) \in Seq(Requests \cup {Junk})
           /\ Len(Moved(i)) = Len(tracked_tokens)
           /\ \A k \in 1 .. Len(tracked_tokens) :
                  Moved(i)[k] = IF k \in i .. count - 1 THEN Slot(k + 1) ELSE Slot(k)
<1>1. count \in Nat /\ Len(tracked_tokens) \in Nat
  BY DEF TypeInv, TypeOK
<1> DEFINE n == Len(tracked_tokens)
           e(k) == IF k \in i .. count - 1 THEN Slot(k + 1) ELSE Slot(k)
<1>2. \A k \in 1 .. n : e(k) \in Requests \cup {Junk}
  <2>1. \A k \in 1 .. n : k \in Nat \ {0} /\ k + 1 \in Nat \ {0}
    BY <1>1
  <2> QED
    BY <2>1, SlotType
<1>3. Moved(i) = [k \in 1 .. n |-> e(k)]
  BY DEF Moved
<1>4. Moved(i) \in Seq(Requests \cup {Junk}) /\ Len(Moved(i)) = n
  <2> HIDE DEF e, n
  <2>1. n \in Nat
    BY <1>1 DEF n
  <2> QED
    BY <1>2, <1>3, <2>1
<1> QED
  BY <1>3, <1>4

(* Every step keeps a slot for the token that is stored and not counted. *)
LEMMA NextRoomInv ==
    ASSUME TypeInv, Step, Kept PROVE RoomInv'
<1>0. /\ pc \in [Threads -> Places] /\ count \in Nat /\ RoomInv /\ RaceInv
      /\ SenderInv /\ (raced => raced')
      /\ tracked_tokens \in Seq(Requests \cup {Junk})
  BY KeptRaceInv DEF TypeInv, TypeOK, Places
<1>1. ASSUME NEW s \in Senders, TrackStore(s)
      PROVE  RoomInv'
  BY <1>0, <1>1 DEF RoomInv, TrackStore
<1>2. ASSUME NEW s \in Senders, TrackCount(s)
      PROVE  RoomInv'
  <2>1. ASSUME ~raced', NEW q \in Senders, pc'[q] = "count"
        PROVE  FALSE
    <3>1. q # s /\ pc[q] = "count" /\ pc[s] = "count"
      BY <1>0, <1>2, <2>1 DEF TrackCount, Goto, Threads
    <3> QED
      BY <1>0, <2>1, <3>1 DEF RaceInv, Writing, InList, Threads
  <2> QED
    BY <2>1 DEF RoomInv
<1>3. CASE Flush
  <2>1. Len(tracked_tokens') = Len(tracked_tokens)
    BY <1>3, MovedList DEF Flush
  <2> QED
    BY <1>0, <1>3, <2>1 DEF RoomInv, Flush, Return, Goto, Threads
<1>4. CASE FlushCount
  BY <1>0, <1>4 DEF RoomInv, FlushCount, Return, Goto
<1>5. ASSUME UNCHANGED lists, \A s \in Senders : pc'[s] = "count" => pc[s] = "count"
      PROVE  RoomInv'
  BY <1>0, <1>5 DEF RoomInv, lists
<1>6. ASSUME NEW s \in Senders,
             LockRequest(s) \/ NewPdu(s) \/ StoreBody(s) \/ AddData(s) \/ Send(s)
      PROVE  RoomInv'
  BY <1>0, <1>5, <1>6 DEF LockRequest, NewPdu, StoreBody, AddData, Send, Goto,
       Threads
<1>7. CASE SetOptions \/ ReplaceSession
  BY <1>0, <1>5, <1>7 DEF SetOptions, ReplaceSession, Goto, Threads
<1>8. CASE StartIO \/ EndIO \/ CheckToken \/ Deliver
  BY <1>0, <1>5, <1>8 DEF StartIO, EndIO, CheckToken, Deliver, Return, Goto,
       Threads
<1>9. ASSUME NEW r \in Requests, Libcoap(r)
      PROVE  RoomInv'
  BY <1>0, <1>5, <1>9 DEF Libcoap, GiveUp, Receive, Goto, Threads
<1>10. ASSUME NEW s \in Senders, TrackFails(s)
       PROVE  RoomInv'
  <2>1. count' = count /\ \A q \in Senders : pc'[q] = "count" => pc[q] = "count"
    BY <1>0, <1>10 DEF TrackFails, Goto, Threads
  <2>2. UNCHANGED tracked_tokens \/ count < Len(tracked_tokens')
    BY <1>0, <1>10, UnstoredList
  <2> QED
    BY <1>0, <2>1, <2>2 DEF RoomInv
<1> QED
  BY <1>1, <1>2, <1>3, <1>4, <1>6, <1>7, <1>8, <1>9, <1>10
     DEF Step, Request, Callback


(* Every step keeps the list a list, and the count within it as long as no   *)
(* two threads were in it.                                                   *)
LEMMA NextListOK ==
    ASSUME TypeInv, Step, Kept
    PROVE  /\ tracked_tokens' \in Seq(Requests \cup {Junk})
           /\ count' \in 0 .. MaxRequests
           /\ ~raced' => count' <= Len(tracked_tokens')
<1>0. /\ pc \in [Threads -> Places] /\ count \in Nat /\ RoomInv /\ CountInv
      /\ (raced => raced') /\ MaxRequests \in Nat
      /\ tracked_tokens \in Seq(Requests \cup {Junk})
      /\ Len(tracked_tokens) \in Nat
      /\ ~raced => count <= Len(tracked_tokens)
  BY KeptRaceInv, Constants DEF TypeInv, TypeOK, Places
<1>1. count' \in Nat => count' \in 0 .. MaxRequests
  <2>1. count' <= Cardinality(AllSent') /\ AllSent' \in SUBSET Requests
    BY NextCountInv DEF CountInv, AllSent
  <2>2. Cardinality(AllSent') \in Nat /\ Cardinality(AllSent') <= MaxRequests
    BY <2>1, Constants
  <2> QED
    BY <1>0, <2>1, <2>2
<1>2. ASSUME NEW s \in Senders, TrackStore(s)
      PROVE  /\ tracked_tokens' \in Seq(Requests \cup {Junk}) /\ count' \in Nat
             /\ ~raced' => count' <= Len(tracked_tokens')
  BY <1>0, <1>2, StoredList DEF TrackStore
<1>3. ASSUME NEW s \in Senders, TrackCount(s)
      PROVE  /\ tracked_tokens' \in Seq(Requests \cup {Junk}) /\ count' \in Nat
             /\ ~raced' => count' <= Len(tracked_tokens')
  BY <1>0, <1>3 DEF TrackCount, RoomInv
<1>4. CASE Flush
  <2>1. /\ tracked_tokens' \in Seq(Requests \cup {Junk})
        /\ Len(tracked_tokens') = Len(tracked_tokens)
    BY <1>0, <1>4, MovedList DEF Flush
  <2> QED
    BY <1>0, <1>1, <1>4, <2>1 DEF Flush
<1>5. CASE FlushCount
  <2>1. count >= 1
    BY <1>0, <1>5 DEF FlushCount, CountInv
  <2> QED
    BY <1>0, <1>1, <1>5, <2>1 DEF FlushCount
<1>6. ASSUME UNCHANGED lists
      PROVE  /\ tracked_tokens' \in Seq(Requests \cup {Junk})
             /\ count' \in 0 .. MaxRequests
             /\ ~raced' => count' <= Len(tracked_tokens')
  BY <1>0, <1>1, <1>6 DEF lists
<1>7. ASSUME NEW s \in Senders,
             LockRequest(s) \/ NewPdu(s) \/ StoreBody(s) \/ AddData(s) \/ Send(s)
      PROVE  UNCHANGED lists
  BY <1>7 DEF LockRequest, NewPdu, StoreBody, AddData, Send
<1>8. CASE SetOptions \/ ReplaceSession
  BY <1>6, <1>8 DEF SetOptions, ReplaceSession
<1>9. CASE StartIO \/ EndIO \/ CheckToken \/ Deliver
  BY <1>6, <1>9 DEF StartIO, EndIO, CheckToken, Deliver
<1>10. ASSUME NEW r \in Requests, Libcoap(r)
       PROVE  UNCHANGED lists
  BY <1>10 DEF Libcoap, GiveUp, Receive
<1>11. ASSUME NEW s \in Senders, TrackFails(s)
       PROVE  /\ tracked_tokens' \in Seq(Requests \cup {Junk}) /\ count' \in Nat
              /\ ~raced' => count' <= Len(tracked_tokens')
  <2>1. count' = count
    BY <1>11 DEF TrackFails
  <2> QED
    BY <1>0, <1>11, <2>1, UnstoredList
<1> QED
  BY <1>1, <1>2, <1>3, <1>4, <1>5, <1>6, <1>7, <1>8, <1>9, <1>10, <1>11
     DEF Step, Request, Callback

(* What TypeOK says of all but the list. *)
RestOK ==
    /\ shared \subseteq Threads
    /\ large_data_mtx \in Senders \cup {"none"}
    /\ session \in Sessions
    /\ is_mcast \in BOOLEAN
    /\ of \in [Requests -> {0} \cup Sessions]
    /\ live \subseteq Requests
    /\ pc \in [Threads -> Places]
    /\ job \in [Threads -> Job]
    /\ answered \in [Requests -> 0 .. 2]
    /\ kept \cup untracked \subseteq Requests

(* Every step keeps the rest of the state what it is. *)
LEMMA NextRestOK ==
    ASSUME TypeInv, Step PROVE RestOK'
<1>0. /\ shared \subseteq Threads /\ large_data_mtx \in Senders \cup {"none"}
      /\ session \in Sessions /\ is_mcast \in BOOLEAN
      /\ of \in [Requests -> {0} \cup Sessions] /\ live \subseteq Requests
      /\ pc \in [Threads -> Places] /\ job \in [Threads -> Job]
      /\ answered \in [Requests -> 0 .. 2] /\ kept \cup untracked \subseteq Requests
      /\ MaxRequests \in Nat /\ MaxSessions \in Nat
      /\ SenderInv /\ CallbackInv
  BY Constants DEF TypeInv, TypeOK, Places

<1>1. ASSUME NEW s \in Senders, LockRequest(s)
      PROVE  RestOK'
  BY <1>0, <1>1 DEF LockRequest, RestOK, CallbackInv, Requesting, Threads, Places,
       Goto, Job, Requests, libcoap, lists, signals
<1>2. ASSUME NEW s \in Senders, NewPdu(s)
      PROVE  RestOK'
  <2>1. job[s] \in Job
    BY <1>0, <1>2 DEF Threads
  <2>2. [job[s] EXCEPT !.session = session] \in Job
    BY <1>0, <2>1 DEF Job, Sessions
  <2>3. job' \in [Threads -> Job]
    BY <1>0, <1>2, <2>2 DEF NewPdu
  <2>4. pc' \in [Threads -> Places]
    BY <1>0, <1>2 DEF NewPdu, Goto, Places
  <2> QED
    BY <1>0, <1>2, <2>3, <2>4 DEF NewPdu, RestOK, libcoap, signals
<1>3. ASSUME NEW s \in Senders, TrackStore(s)
      PROVE  RestOK'
  BY <1>0, <1>3 DEF TrackStore, RestOK, Places, Goto, libcoap, signals
<1>4. ASSUME NEW s \in Senders, TrackCount(s)
      PROVE  RestOK'
  BY <1>0, <1>4 DEF TrackCount, RestOK, Places, Goto, libcoap, signals
<1>5. ASSUME NEW s \in Senders, StoreBody(s)
      PROVE  RestOK'
  BY <1>0, <1>5 DEF StoreBody, RestOK, Places, Goto, libcoap, signals
<1>6. ASSUME NEW s \in Senders, AddData(s)
      PROVE  RestOK'
  BY <1>0, <1>6 DEF AddData, RestOK, Places, Goto, libcoap, signals
<1>7. ASSUME NEW s \in Senders, Send(s)
      PROVE  RestOK'
  BY <1>0, <1>7 DEF Send, RestOK, SenderInv, Places, Goto, Job, Body, NoJob,
       signals
<1>8. CASE SetOptions
  BY <1>0, <1>8 DEF SetOptions, RestOK, Places, Goto, signals
<1>9. CASE ReplaceSession
  BY <1>0, <1>9 DEF ReplaceSession, MayReplace, RestOK, SenderInv, Senders,
       Threads, Goto, Sessions, signals
<1>10. CASE StartIO
  BY <1>0, <1>10 DEF StartIO, RestOK, Threads, Places, Goto, libcoap, signals
<1>11. CASE EndIO
  BY <1>0, <1>11 DEF EndIO, RestOK, Places, Goto, libcoap, signals
<1>12. ASSUME NEW r \in Requests, GiveUp(r)
      PROVE  RestOK'
  BY <1>0, <1>12 DEF GiveUp, RestOK, signals
<1>13. ASSUME NEW r \in Requests, NEW response \in Response, Receive(r, response)
      PROVE  RestOK'
  <2>1. [NoJob EXCEPT !.req = r, !.what = response] \in Job
    <3>1. NoJob \in Job /\ r \in 0 .. MaxRequests
      BY <1>0 DEF Job, NoJob, Body, Requests
    <3>2. [NoJob EXCEPT !.req = r] \in Job
      BY <3>1 DEF Job
    <3> QED
      BY <1>13, <3>2 DEF Job
  <2>2. job' \in [Threads -> Job]
    BY <1>0, <1>13, <2>1 DEF Receive
  <2>3. pc' \in [Threads -> Places]
    BY <1>0, <1>13 DEF Receive, Goto, Places
  <2> QED
    BY <1>0, <1>13, <2>2, <2>3 DEF Receive, RestOK, libcoap, signals
<1>14. CASE CheckToken
  BY <1>0, <1>14 DEF CheckToken, Return, RestOK, Senders, Places, Goto, Job, Body,
       NoJob, libcoap, lists, signals
<1>15. CASE Deliver
  <2>1. job["io"].req \in Requests /\ NoJob \in Job
    BY <1>0, <1>15 DEF Deliver, CallbackInv, Job, NoJob, Body
  <2>2. answered' \in [Requests -> 0 .. 2]
    BY <1>0, <1>15 DEF Deliver, signals
  <2>3. job' \in [Threads -> Job] /\ pc' \in [Threads -> Places]
    BY <1>0, <1>15, <2>1 DEF Deliver, Return, Goto, Places
  <2>4. kept' \subseteq Requests
    BY <1>0, <1>15, <2>1 DEF Deliver, signals
  <2> QED
    BY <1>0, <1>15, <2>2, <2>3, <2>4 DEF Deliver, RestOK, libcoap, signals
<1>16. CASE Flush
  <2>1. pc' \in [Threads -> Places] /\ job' \in [Threads -> Job]
    <3>1. CASE Goto("io", "uncount") /\ UNCHANGED job
      BY <1>0, <3>1 DEF RestOK, Places, Goto
    <3>2. CASE Return
      <4>1. NoJob \in Job
        BY BoundsAssumption DEF Job, NoJob, Body
      <4> QED
        BY <1>0, <3>2, <4>1 DEF Return, RestOK, Places, Goto
    <3> QED
      BY <1>16, <3>1, <3>2 DEF Flush
  <2> QED
    BY <1>0, <1>16, <2>1 DEF Flush, RestOK, libcoap, signals
<1>17. CASE FlushCount
  BY <1>0, <1>17 DEF FlushCount, Return, RestOK, Threads, Places, Goto, Job, Body,
       NoJob, libcoap, signals
<1>18. ASSUME NEW s \in Senders, TrackFails(s)
       PROVE  RestOK'
  <2>1. untracked' \subseteq Requests /\ UNCHANGED <<answered, kept>>
    BY <1>0, <1>18 DEF TrackFails, SenderInv, Requesting
  <2> QED
    BY <1>0, <1>18, <2>1 DEF TrackFails, RestOK, Places, Goto, libcoap
<1> QED
  BY <1>1, <1>2, <1>3, <1>4, <1>5, <1>6, <1>7, <1>8, <1>9, <1>10, <1>11, <1>12,
     <1>13, <1>14, <1>15, <1>16, <1>17, <1>18
     DEF Step, Request, Callback, Libcoap

(* The whole is true at the start, and every step keeps it. *)
LEMMA InitTypeInv == Init => TypeInv
<1> SUFFICES ASSUME Init PROVE TypeInv
  OBVIOUS
<1>0. /\ MaxRequests \in Nat /\ MaxSessions \in Nat /\ MaxSessions >= 1
      /\ shared = {} /\ large_data_mtx = "none" /\ session = 1
      /\ is_mcast = FALSE /\ tracked_tokens = <<>> /\ count = 0
      /\ of = [r \in Requests |-> 0] /\ live = {} /\ kept = {} /\ untracked = {} /\ raced = FALSE
      /\ pc = [t \in Threads |-> "idle"] /\ job = [t \in Threads |-> NoJob]
      /\ answered = [r \in Requests |-> 0]
  BY Constants DEF Init
<1>1. RestOK
  <2>1. NoJob \in Job
    BY <1>0 DEF Job, NoJob, Body
  <2>2. 1 \in Sessions
    BY <1>0 DEF Sessions
  <2>3. "idle" \in Places
    BY DEF Places
  <2> QED
    <3>1. pc \in [Threads -> Places] /\ job \in [Threads -> Job]
      BY <1>0, <2>1, <2>3
    <3>2. of \in [Requests -> {0} \cup Sessions] /\ answered \in [Requests -> 0 .. 2]
      BY <1>0
    <3> QED
      BY <1>0, <2>2, <3>1, <3>2 DEF RestOK
<1>2. TypeOK
  <2>1. tracked_tokens \in Seq(Requests \cup {Junk}) /\ Len(tracked_tokens) = 0
    BY <1>0
  <2>2. count \in 0 .. MaxRequests /\ count <= Len(tracked_tokens)
    BY <1>0, <2>1
  <2>3. raced \in BOOLEAN
    BY <1>0
  <2> QED
    BY <1>1, <2>1, <2>2, <2>3 DEF TypeOK, RestOK, Places
<1>3. SenderInv /\ CallbackInv
  BY <1>0 DEF SenderInv, CallbackInv, Senders, Threads, Requesting, Calling, NoJob
<1>4. CountInv
  <2>1. Cardinality(AllSent) \in Nat
    BY Constants DEF AllSent
  <2> QED
    BY <1>0, <2>1 DEF CountInv, Threads
<1>5. RaceInv /\ RoomInv
  BY <1>0 DEF RaceInv, InList, RoomInv, Threads
<1> QED
  BY <1>2, <1>3, <1>4, <1>5 DEF TypeInv

(* Every step keeps the whole. *)
LEMMA NextTypeInv ==
    ASSUME TypeInv, [Next]_vars PROVE TypeInv'
<1>1. CASE Next
  <2>1. Step /\ Kept
    BY <1>1 DEF Next, Kept
  <2>2. RestOK' /\ raced' \in BOOLEAN
    BY <2>1, NextRestOK DEF Kept
  <2>3. TypeOK'
    BY <2>1, <2>2, NextListOK DEF TypeOK, RestOK, Places
  <2>4. SenderInv' /\ CallbackInv' /\ CountInv' /\ RaceInv' /\ RoomInv'
    BY <2>1, NextSenderInv, NextCallbackInv, NextCountInv, KeptRaceInv, NextRoomInv
  <2> QED
    BY <2>3, <2>4 DEF TypeInv
<1>2. CASE UNCHANGED vars
  BY <1>2 DEF vars, TypeInv, TypeOK, SenderInv, CallbackInv, CountInv, AllSent,
     Sent, RaceInv, Writing, InList, RoomInv
<1> QED
  BY <1>1, <1>2

(* The list, the locks, the jobs and the session are always of their types;  *)
(* and as long as no two threads were in the list at a time, every counted   *)
(* token has a slot in the array (track_new_token, track_flush_token).       *)
THEOREM TypeCorrect == Spec => []TypeOK
<1>1. TypeInv => TypeOK
  BY DEF TypeInv
<1> QED
  BY <1>1, InitTypeInv, NextTypeInv, PTL DEF Spec

(* A request is made, tracked and sent for one session: createSession() does *)
(* not replace it while a thread holds the lock, for any number of requests  *)
(* and of sessions.                                                          *)
THEOREM SessionStays == Spec => []SessionInUse
<1>1. TypeInv => SessionInUse
  BY DEF TypeInv, SenderInv, SessionInUse
<1> QED
  BY <1>1, InitTypeInv, NextTypeInv, PTL DEF Spec

-------------------------------------------------------------------------------
(* Where the list ends, once a token that has been moved away is counted.    *)
Last == IF pc["io"] = "uncount" THEN count - 1 ELSE count

(* The tokens that a response may find. *)
Listing == {Slot(i) : i \in 1 .. Last}

(* A request has one slot.                                                   *)
Injective == \A i, j \in 1 .. Last : Slot(i) = Slot(j) => i = j

(* The token that is stored and not counted is behind the last.              *)
StoredInv ==
    \A s \in Senders :
        pc[s] = "count" =>
            /\ count < Len(tracked_tokens)
            /\ tracked_tokens[count + 1] = job[s].req

(* Every open request that is tracked is listed ...                          *)
OpenInv == \A r \in Requests \ untracked : Open(r) => r \in Listing

(* ... and one that was answered is not, once it is flushed. *)
ClosedInv ==
    \A r \in Requests \ kept :
        /\ answered[r] <= 1
        /\ answered[r] # 0 =>
               r \notin Listing \/ (pc["io"] = "flush" /\ job["io"].req = r)

(* A response is delivered while its token is listed, flushed when it was    *)
(* delivered.                                                                *)
CallInv ==
    /\ pc["io"] = "deliver" => job["io"].req \in Listing
    /\ pc["io"] \in {"flush", "uncount"} => answered[job["io"].req] # 0

(* The list as it is when its writers were alone with it. *)
InOrder ==
    /\ Listing \subseteq AllSent
    /\ Injective
    /\ StoredInv
    /\ OpenInv
    /\ ClosedInv
    /\ CallInv

(* With TypeInv, the inductive invariant about the list of tokens. *)
ListInv == ~raced => InOrder

-------------------------------------------------------------------------------
(* A step that leaves the slots in the list alone leaves the list alone. *)
LEMMA SameSlots ==
    ASSUME Last' = Last, \A i \in 1 .. Last : Slot(i)' = Slot(i)
    PROVE  Listing' = Listing /\ (Injective => Injective')
BY DEF Listing, Injective

(* A step outside the list does so. *)
LEMMA SameList ==
    ASSUME UNCHANGED lists, pc'["io"] = "uncount" <=> pc["io"] = "uncount"
    PROVE  Listing' = Listing /\ (Injective => Injective')
<1>1. Last' = Last
  BY DEF Last, lists
<1>2. \A i : Slot(i)' = Slot(i)
  BY DEF Slot, lists
<1> QED
  BY <1>1, <1>2, SameSlots

(* The new token is put behind the list. *)
LEMMA StoreKeepsList ==
    ASSUME TypeInv, InOrder, ~raced, NEW s \in Senders, TrackStore(s)
    PROVE  /\ Listing' = Listing /\ Injective'
           /\ \A q \in Senders \ {s} : pc[q] # "count"
<1>0. /\ pc \in [Threads -> Places] /\ count \in Nat /\ RaceInv
      /\ count <= Len(tracked_tokens)
  BY Constants DEF TypeInv, TypeOK, Places
<1>1. pc["io"] # "uncount" /\ \A q \in Senders \ {s} : pc[q] # "count"
  BY <1>0 DEF RaceInv, Writing, InList, TrackStore, Threads
<1>2. pc'["io"] = pc["io"]
  BY DEF TrackStore, Goto, Senders
<1>3. Last = count /\ Last' = count
  BY <1>1, <1>2 DEF Last, TrackStore
<1>4. ASSUME NEW i \in 1 .. count
      PROVE  Slot(i)' = Slot(i)
  <2>1. Len(tracked_tokens') = count + 1 /\ tracked_tokens'[i] = Slot(i)
    BY StoredList
  <2>2. Slot(i)' = tracked_tokens'[i]
    BY <1>0, <2>1 DEF Slot
  <2> QED
    BY <2>1, <2>2
<1> QED
  BY <1>1, <1>3, <1>4, SameSlots DEF InOrder

(* A token that cannot be stored leaves the list alone. *)
LEMMA UnstoredKeepsList ==
    ASSUME TypeInv, InOrder, ~raced, NEW s \in Senders, TrackFails(s)
    PROVE  /\ Listing' = Listing /\ Injective'
           /\ \A q \in Senders \ {s} : pc[q] # "count"
<1>0. /\ pc \in [Threads -> Places] /\ count \in Nat /\ RaceInv
      /\ count <= Len(tracked_tokens)
  BY Constants DEF TypeInv, TypeOK, Places
<1>1. pc["io"] # "uncount" /\ \A q \in Senders \ {s} : pc[q] # "count"
  BY <1>0 DEF RaceInv, Writing, InList, TrackFails, Threads
<1>2. pc'["io"] = pc["io"] /\ count' = count
  BY DEF TrackFails, Goto, Senders
<1>3. Last = count /\ Last' = count
  BY <1>1, <1>2 DEF Last
<1>4. ASSUME NEW i \in 1 .. count
      PROVE  Slot(i)' = Slot(i)
  <2>1. CASE UNCHANGED tracked_tokens
    BY <2>1 DEF Slot
  <2>2. CASE Len(tracked_tokens') = count + 1 /\ tracked_tokens'[i] = Slot(i)
    <3>1. Slot(i)' = tracked_tokens'[i]
      BY <1>0, <2>2 DEF Slot
    <3> QED
      BY <2>2, <3>1
  <2> QED
    BY <2>1, <2>2, UnstoredList
<1> QED
  BY <1>1, <1>3, <1>4, SameSlots DEF InOrder

(* A token that is counted is new in the list. *)
LEMMA CountAddsToken ==
    ASSUME TypeInv, InOrder, ~raced, NEW s \in Senders, TrackCount(s)
    PROVE  \E r \in Requests :
               /\ r = job[s].req /\ r \in AllSent' /\ answered[r] = 0
               /\ Listing' = Listing \cup {r} /\ Injective'
               /\ \A q \in Senders \ {s} : pc[q] # "count"
               /\ pc["io"] \notin {"check", "flush", "uncount"}
<1>0. /\ pc \in [Threads -> Places] /\ count \in Nat /\ RaceInv
      /\ count <= Len(tracked_tokens)
      /\ answered \in [Requests -> 0 .. 2]
      /\ CallbackInv /\ StoredInv /\ Injective /\ Listing \subseteq AllSent
  BY DEF TypeInv, TypeOK, Places, InOrder
<1>1. PICK r \in Requests : r = job[s].req /\ ~Sent(r) /\ Sent(r)'
  BY CountedIsNew
<1>2. answered[r] = 0
  BY <1>0, <1>1 DEF CallbackInv, Sent
<1>3. /\ pc["io"] \notin {"check", "flush", "uncount"}
      /\ \A q \in Senders \ {s} : pc[q] # "count"
  BY <1>0 DEF RaceInv, Writing, InList, TrackCount, Threads
<1>4. pc'["io"] = pc["io"]
  BY DEF TrackCount, Goto, Senders
<1>5. Last = count /\ Last' = count + 1
  BY <1>3, <1>4 DEF Last, TrackCount
<1>6. \A i : Slot(i)' = Slot(i)
  BY DEF Slot, TrackCount
<1>7. Slot(count + 1) = r
  BY <1>0, <1>1 DEF Slot, StoredInv, TrackCount
<1>8. Listing' = Listing \cup {r}
  <2>1. Listing = {Slot(i) : i \in 1 .. count}
    BY <1>5 DEF Listing
  <2>2. Listing' = {Slot(i) : i \in 1 .. count + 1}
    BY <1>5, <1>6 DEF Listing
  <2>3. \A i \in 1 .. count + 1 : i \in 1 .. count \/ i = count + 1
    BY <1>0
  <2>4. 1 .. count \subseteq 1 .. count + 1 /\ count + 1 \in 1 .. count + 1
    BY <1>0
  <2> QED
    BY <1>7, <2>1, <2>2, <2>3, <2>4
<1>9. Injective'
  <2>1. \A i \in 1 .. count : Slot(i) # r
    BY <1>0, <1>1, <1>5 DEF Listing, AllSent
  <2>2. \A i \in 1 .. count + 1 : i \in 1 .. count \/ i = count + 1
    BY <1>0
  <2>3. \A i, j \in 1 .. count : Slot(i) = Slot(j) => i = j
    BY <1>0, <1>5 DEF Injective
  <2> QED
    BY <1>5, <1>6, <1>7, <2>1, <2>2, <2>3 DEF Injective
<1> QED
  BY <1>1, <1>2, <1>3, <1>8, <1>9 DEF AllSent

(* A token that is flushed is in the list no more, the others are. *)
LEMMA FlushTakesToken ==
    ASSUME TypeInv, InOrder, ~raced, pc["io"] = "flush", pc'["io"] = "uncount",
           count' = count, NEW i \in 1 .. count, Slot(i) = job["io"].req,
           tracked_tokens' = Moved(i)
    PROVE  Listing' = Listing \ {job["io"].req} /\ Injective'
<1> DEFINE q == job["io"].req
<1>0. /\ count \in Nat /\ Len(tracked_tokens) \in Nat
      /\ count <= Len(tracked_tokens) /\ Injective
  BY Constants DEF TypeInv, TypeOK, InOrder
<1>1. Last = count /\ Last' = count - 1
  BY DEF Last
<1>2. ASSUME NEW k \in 1 .. count - 1
      PROVE  Slot(k)' = Slot(IF k < i THEN k ELSE k + 1)
  <2>1. k \in 1 .. Len(tracked_tokens) /\ Len(tracked_tokens') = Len(tracked_tokens)
    BY <1>0, MovedList
  <2>2. Slot(k)' = tracked_tokens'[k]
    BY <1>0, <2>1 DEF Slot
  <2>3. tracked_tokens'[k] = IF k \in i .. count - 1 THEN Slot(k + 1) ELSE Slot(k)
    BY <2>1, MovedList
  <2> QED
    BY <1>0, <2>2, <2>3
<1>3. \A k, l \in 1 .. count : Slot(k) = Slot(l) => k = l
  BY <1>0, <1>1 DEF Injective
<1>4. Listing = {Slot(k) : k \in 1 .. count}
  BY <1>1 DEF Listing
<1>5. Listing' = {Slot(k)' : k \in 1 .. count - 1}
  BY <1>1 DEF Listing
<1> HIDE DEF q
<1>6. ASSUME NEW r \in Listing'
      PROVE  r \in Listing \ {q}
  <2>1. PICK k \in 1 .. count - 1 : r = Slot(k)'
    BY <1>5
  <2> DEFINE l == IF k < i THEN k ELSE k + 1
  <2>2. r = Slot(l)
    BY <1>2, <2>1
  <2>3. l \in 1 .. count /\ l # i
    BY <1>0
  <2> HIDE DEF l
  <2>4. Slot(i) = q
    BY DEF q
  <2> QED
    BY <1>3, <1>4, <2>2, <2>3, <2>4
<1>7. ASSUME NEW r \in Listing, r # q
      PROVE  r \in Listing'
  <2>1. PICK l \in 1 .. count : r = Slot(l)
    BY <1>4
  <2>2. l # i
    BY <1>7, <2>1 DEF q
  <2> DEFINE k == IF l < i THEN l ELSE l - 1
  <2>3. k \in 1 .. count - 1 /\ l = IF k < i THEN k ELSE k + 1
    BY <1>0, <2>2
  <2> HIDE DEF k
  <2>4. Slot(k)' = Slot(l)
    BY <1>2, <2>3
  <2> QED
    BY <1>5, <2>1, <2>3, <2>4
<1>8. Injective'
  <2>1. ASSUME NEW k \in 1 .. count - 1, NEW l \in 1 .. count - 1, Slot(k)' = Slot(l)'
        PROVE  k = l
    <3> DEFINE u == IF k < i THEN k ELSE k + 1
               v == IF l < i THEN l ELSE l + 1
    <3>1. Slot(u) = Slot(v)
      BY <1>2, <2>1
    <3>2. u \in 1 .. count /\ v \in 1 .. count /\ (u = v => k = l)
      BY <1>0
    <3> HIDE DEF u, v
    <3> QED
      BY <1>3, <3>1, <3>2
  <2> QED
    BY <1>1, <2>1 DEF Injective
<1> QED
  BY <1>6, <1>7, <1>8 DEF q


(* A step outside the list keeps it in order: a request, once sent, is open  *)
(* until it is answered.                                                     *)
LEMMA OutsideTheList ==
    ASSUME TypeInv, InOrder, ~raced,
           UNCHANGED <<lists, signals>>,
           pc'["io"] = "uncount" <=> pc["io"] = "uncount",
           pc'["io"] = "flush" <=> pc["io"] = "flush",
           pc["io"] \in {"flush", "uncount"} => job'["io"] = job["io"],
           pc'["io"] = "deliver" => job'["io"].req \in Listing,
           \A s \in Senders :
               pc'[s] = "count" => pc[s] = "count" /\ job'[s].req = job[s].req,
           \A r \in Requests : Sent(r)' <=> Sent(r)
    PROVE  InOrder'
<1>1. Listing' = Listing /\ Injective'
  BY SameList DEF InOrder
<1>2. Listing' \subseteq AllSent'
  BY <1>1 DEF InOrder, AllSent
<1>3. StoredInv'
  BY DEF InOrder, StoredInv, lists
<1>4. OpenInv'
  BY <1>1 DEF InOrder, OpenInv, Open, Sent, signals
<1>5. ClosedInv' /\ CallInv'
  BY <1>1 DEF InOrder, ClosedInv, CallInv, signals
<1> QED
  BY <1>1, <1>2, <1>3, <1>4, <1>5 DEF InOrder

(* Every step keeps the list in order, until two threads are in it at a      *)
(* time.                                                                     *)
LEMMA NextListInv ==
    ASSUME TypeInv, ListInv, Step, Kept PROVE ListInv'
<1> SUFFICES ASSUME ~raced' PROVE InOrder'
  BY DEF ListInv
<1>0. /\ ~raced /\ InOrder
      /\ pc \in [Threads -> Places] /\ job \in [Threads -> Job]
      /\ of \in [Requests -> {0} \cup Sessions]
      /\ answered \in [Requests -> 0 .. 2] /\ count \in Nat
      /\ SenderInv /\ CallbackInv /\ RaceInv
      /\ Listing \subseteq AllSent /\ Injective /\ StoredInv /\ OpenInv
      /\ ClosedInv /\ CallInv
  BY KeptRaceInv DEF ListInv, InOrder, TypeInv, TypeOK, Places
<1>1. AllSent \subseteq AllSent'
  BY AllSentGrows DEF AllSent
<1>2. ASSUME NEW s \in Senders, LockRequest(s)
      PROVE  InOrder'
  <2>1. \A r \in Requests : Sent(r)' <=> Sent(r)
    BY <1>2 DEF LockRequest, Sent, Goto, libcoap
  <2> QED
    BY <1>0, <1>2, <2>1, OutsideTheList DEF LockRequest, Goto, signals, CallInv
<1>3. ASSUME NEW s \in Senders, NewPdu(s)
      PROVE  InOrder'
  <2>1. \A r \in Requests : Sent(r)' <=> Sent(r)
    BY <1>3 DEF NewPdu, Sent, Goto, libcoap
  <2> QED
    BY <1>0, <1>3, <2>1, OutsideTheList DEF NewPdu, Goto, signals, CallInv
<1>4. ASSUME NEW s \in Senders, StoreBody(s) \/ AddData(s)
      PROVE  InOrder'
  <2>1. \A r \in Requests : Sent(r)' <=> Sent(r)
    BY <1>0, <1>4 DEF StoreBody, AddData, Sent, Threads, Goto, libcoap
  <2> QED
    BY <1>0, <1>4, <2>1, OutsideTheList DEF StoreBody, AddData, Threads, Goto,
         signals, CallInv
<1>5. ASSUME NEW s \in Senders, Send(s)
      PROVE  InOrder'
  <2>1. \A r \in Requests : Sent(r)' <=> Sent(r)
    BY <1>0, <1>1, <1>5 DEF Send, Sent, AllSent, Goto
  <2> QED
    BY <1>0, <1>5, <2>1, OutsideTheList DEF Send, Goto, signals, CallInv
<1>6. CASE SetOptions \/ ReplaceSession
  <2>1. \A r \in Requests : Sent(r)' <=> Sent(r)
    BY <1>0, <1>6 DEF SetOptions, ReplaceSession, Sent, Threads, Goto
  <2> QED
    BY <1>0, <1>6, <2>1, OutsideTheList DEF SetOptions, ReplaceSession, Threads,
         Goto, signals, CallInv
<1>7. CASE StartIO \/ EndIO
  <2>1. \A r \in Requests : Sent(r)' <=> Sent(r)
    BY <1>0, <1>7 DEF StartIO, EndIO, Sent, Threads, Goto, libcoap
  <2> QED
    BY <1>0, <1>7, <2>1, OutsideTheList DEF StartIO, EndIO, Threads, Goto, signals
<1>8. ASSUME NEW r \in Requests, Libcoap(r)
      PROVE  InOrder'
  <2>1. \A q \in Requests : Sent(q)' <=> Sent(q)
    BY <1>0, <1>8 DEF Libcoap, GiveUp, Receive, Sent, Threads, Goto, libcoap
  <2> QED
    BY <1>0, <1>8, <2>1, OutsideTheList DEF Libcoap, GiveUp, Receive, Threads,
         Goto, signals
<1>9. CASE CheckToken
  <2>1. \A r \in Requests : Sent(r)' <=> Sent(r)
    BY <1>0, <1>9 DEF CheckToken, Return, Sent, Threads, Goto, libcoap
  <2>2. Tracked = Listing
    BY <1>9 DEF CheckToken, Tracked, Listing, Last
  <2> QED
    BY <1>0, <1>9, <2>1, <2>2, OutsideTheList DEF CheckToken, Return, Threads,
         Goto, signals
<1>10. CASE Deliver
  <2>1. UNCHANGED <<lists, of, untracked>> /\ \A s \in Senders : pc'[s] = pc[s] /\ job'[s] = job[s]
    BY <1>0, <1>10 DEF Deliver, Return, Goto, Senders, Threads, libcoap
  <2>2. /\ pc["io"] = "deliver" /\ pc'["io"] \in {"process", "flush"}
        /\ job["io"].req \in Requests
    BY <1>0, <1>10 DEF Deliver, Return, Goto, Threads, CallbackInv
  <2>3. Listing' = Listing /\ Injective'
    BY <1>0, <2>1, <2>2, SameList
  <2>4. Listing' \subseteq AllSent'
    BY <1>0, <1>1, <2>3
  <2>5. StoredInv'
    BY <1>0, <2>1 DEF StoredInv, lists
  <2>6. OpenInv'
    <3>1. \A r \in Requests : answered'[r] = 0 => answered[r] = 0
      BY <1>0, <1>10 DEF Deliver, signals
    <3> QED
      BY <1>0, <2>1, <2>3, <3>1 DEF OpenInv, Open
  <2>7. ClosedInv' /\ CallInv'
    BY <1>0, <1>10, <2>2, <2>3 DEF Deliver, Return, Goto, signals, ClosedInv,
         CallInv
  <2> QED
    BY <2>3, <2>4, <2>5, <2>6, <2>7 DEF InOrder
<1>11. ASSUME NEW s \in Senders, TrackStore(s)
       PROVE  InOrder'
  <2>1. /\ Listing' = Listing /\ Injective'
        /\ \A q \in Senders \ {s} : pc[q] # "count"
    BY <1>0, <1>11, StoreKeepsList
  <2>2. StoredInv'
    BY <1>0, <1>11, <2>1 DEF StoredInv, TrackStore, Goto
  <2>3. OpenInv'
    BY <1>0, <1>11, <2>1 DEF OpenInv, Open, TrackStore, Goto, libcoap, signals
  <2>4. ClosedInv' /\ CallInv'
    BY <1>0, <1>11, <2>1 DEF TrackStore, Goto, signals, ClosedInv, CallInv
  <2> QED
    BY <1>0, <1>1, <2>1, <2>2, <2>3, <2>4 DEF InOrder
<1>12. ASSUME NEW s \in Senders, TrackCount(s)
       PROVE  InOrder'
  <2>1. PICK r \in Requests :
            /\ r = job[s].req /\ r \in AllSent' /\ answered[r] = 0
            /\ Listing' = Listing \cup {r} /\ Injective'
            /\ \A q \in Senders \ {s} : pc[q] # "count"
            /\ pc["io"] \notin {"check", "flush", "uncount"}
    BY <1>0, <1>12, CountAddsToken
  <2>2. StoredInv'
    BY <1>0, <1>12, <2>1 DEF StoredInv, TrackCount, Goto, Threads
  <2>3. OpenInv'
    BY <1>0, <1>12, <2>1 DEF OpenInv, Open, TrackCount, Goto, libcoap, signals
  <2>4. ClosedInv' /\ CallInv'
    BY <1>0, <1>12, <2>1 DEF TrackCount, Goto, signals, ClosedInv, CallInv
  <2> QED
    BY <1>0, <1>1, <2>1, <2>2, <2>3, <2>4 DEF InOrder
<1>13. CASE Flush
  <2>0. /\ pc["io"] = "flush" /\ count' = count /\ UNCHANGED <<of, signals>>
        /\ Tracked = Listing /\ job["io"].req \in Requests
        /\ answered[job["io"].req] # 0
        /\ \A s \in Senders : pc[s] # "count" /\ pc'[s] = pc[s] /\ job'[s] = job[s]
    BY <1>0, <1>13 DEF Flush, Return, Goto, Senders, Threads, libcoap, signals,
         Tracked, Listing, Last, CallInv, CallbackInv, RaceInv, Writing, InList
  <2>1. ASSUME NEW i \in 1 .. count, FirstSlot(i), tracked_tokens' = Moved(i),
               Goto("io", "uncount"), UNCHANGED job
        PROVE  InOrder'
    <3>1. pc'["io"] = "uncount" /\ job' = job
      BY <1>0, <2>1 DEF Goto, Threads
    <3>2. Listing' = Listing \ {job["io"].req} /\ Injective'
      BY <1>0, <2>0, <2>1, <3>1, FlushTakesToken DEF FirstSlot
    <3>3. StoredInv'
      BY <2>0 DEF StoredInv
    <3>4. OpenInv'
      BY <1>0, <2>0, <3>2 DEF OpenInv, Open, signals
    <3>5. ClosedInv' /\ CallInv'
      BY <1>0, <2>0, <3>1, <3>2 DEF ClosedInv, CallInv, signals
    <3> QED
      BY <1>0, <1>1, <3>2, <3>3, <3>4, <3>5 DEF InOrder
  <2>2. ASSUME job["io"].req \notin Tracked, Return, UNCHANGED tracked_tokens
        PROVE  InOrder'
    <3>1. pc'["io"] = "process"
      BY <1>0, <2>2 DEF Return, Goto, Threads
    <3>2. Listing' = Listing /\ Injective'
      BY <1>0, <2>0, <2>2, <3>1, SameList DEF lists
    <3>3. StoredInv'
      BY <2>0 DEF StoredInv
    <3>4. OpenInv'
      BY <1>0, <2>0, <3>2 DEF OpenInv, Open, signals
    <3>5. ClosedInv' /\ CallInv'
      BY <1>0, <2>0, <2>2, <3>1, <3>2 DEF ClosedInv, CallInv, signals
    <3> QED
      BY <1>0, <1>1, <3>2, <3>3, <3>4, <3>5 DEF InOrder
  <2> QED
    BY <1>13, <2>1, <2>2 DEF Flush
<1>14. CASE FlushCount
  <2>0. /\ pc["io"] = "uncount" /\ pc'["io"] = "process" /\ count' = count - 1
        /\ UNCHANGED <<of, signals, tracked_tokens>>
        /\ \A s \in Senders : pc[s] # "count" /\ pc'[s] = pc[s] /\ job'[s] = job[s]
    BY <1>0, <1>14 DEF FlushCount, Return, Goto, Senders, Threads, libcoap, signals, RaceInv,
       Writing, InList
  <2>1. Last' = Last /\ \A i : Slot(i)' = Slot(i)
    BY <2>0 DEF Last, Slot
  <2>2. Listing' = Listing /\ Injective'
    BY <1>0, <2>1, SameSlots
  <2>3. StoredInv'
    BY <2>0 DEF StoredInv
  <2>4. OpenInv'
    BY <1>0, <2>0, <2>2 DEF OpenInv, Open, signals
  <2>5. ClosedInv' /\ CallInv'
    BY <1>0, <2>0, <2>2 DEF ClosedInv, CallInv, signals
  <2> QED
    BY <1>0, <1>1, <2>2, <2>3, <2>4, <2>5 DEF InOrder
<1>15. ASSUME NEW s \in Senders, TrackFails(s)
       PROVE  InOrder'
  <2>1. /\ Listing' = Listing /\ Injective'
        /\ \A q \in Senders \ {s} : pc[q] # "count"
    BY <1>0, <1>15, UnstoredKeepsList
  <2>2. StoredInv'
    BY <1>0, <1>15, <2>1 DEF StoredInv, TrackFails, Goto, Threads
  <2>3. OpenInv'
    BY <1>0, <1>15, <2>1 DEF OpenInv, Open, TrackFails, Goto, Threads, libcoap
  <2>4. ClosedInv' /\ CallInv'
    BY <1>0, <1>15, <2>1 DEF TrackFails, Goto, ClosedInv, CallInv
  <2> QED
    BY <1>0, <1>1, <2>1, <2>2, <2>3, <2>4 DEF InOrder
<1> QED
  BY <1>2, <1>3, <1>4, <1>5, <1>6, <1>7, <1>8, <1>9, <1>10, <1>11, <1>12, <1>13,
     <1>14, <1>15 DEF Step, Request, Callback

(* At the start the list is empty and nothing is open. *)
LEMMA InitListInv == Init => ListInv
<1> SUFFICES ASSUME Init PROVE InOrder
  BY DEF ListInv
<1>1. Last = 0 /\ 1 .. Last = {}
  BY DEF Init, Last, Threads
<1>2. Listing = {} /\ Injective
  BY <1>1 DEF Listing, Injective
<1>3. StoredInv /\ CallInv
  BY DEF Init, StoredInv, CallInv, Threads
<1>4. OpenInv /\ ClosedInv
  BY DEF Init, OpenInv, Open, ClosedInv, Threads
<1> QED
  BY <1>2, <1>3, <1>4 DEF InOrder

(* As long as no two threads are in the list at a time, it leads every       *)
(* response to its open request, if there was memory for its token, and no   *)
(* second one                                                                *)
(* (track_new_token, track_check_token, track_flush_token): for any number   *)
(* of requests, whatever was added, answered late or twice, and flushed.     *)
THEOREM TokensLead == Spec => []TokensMatch
<1>1. TypeInv /\ ListInv => TokensMatch
  <2> SUFFICES ASSUME TypeInv, InOrder
               PROVE  /\ \A r \in Requests \ untracked : Open(r) => r \in Tracked
                      /\ \A r \in Requests \ kept : answered[r] <= 1
    BY DEF ListInv, TokensMatch, ResponsesFound, AnsweredOnce
  <2>1. count \in Nat
    BY DEF TypeInv, TypeOK
  <2>2. 1 .. Last \subseteq 1 .. count
    BY <2>1 DEF Last
  <2>3. Listing \subseteq Tracked
    BY <2>2 DEF Listing, Tracked
  <2> QED
    BY <2>3 DEF InOrder, OpenInv, ClosedInv
<1>2. Init => TypeInv /\ ListInv
  BY InitTypeInv, InitListInv
<1>3. TypeInv /\ ListInv /\ [Next]_vars => TypeInv' /\ ListInv'
  <2> SUFFICES ASSUME TypeInv, ListInv, [Next]_vars PROVE TypeInv' /\ ListInv'
    OBVIOUS
  <2>1. CASE Next
    BY <2>1, NextTypeInv, NextListInv DEF Next, Kept
  <2>2. CASE UNCHANGED vars
    <3>1. ListInv'
      BY <2>2 DEF vars, ListInv, InOrder, Listing, Last, Slot, AllSent, Sent, Injective, StoredInv,
         OpenInv, Open, ClosedInv, CallInv
    <3> QED
      BY <3>1, NextTypeInv
  <2> QED
    BY <2>1, <2>2
<1> QED
  BY <1>1, <1>2, <1>3, PTL DEF Spec

-------------------------------------------------------------------------------
(* The locks: a thread that keeps a body waits for the holder of             *)
(* large_data_mtx_, and one that replaces the session for every holder of    *)
(* coap_mtx_.                                                                *)
WaitsFor(t, u) ==
    \/ t \in Senders /\ pc[t] = "body" /\ u = large_data_mtx
    \/ t = "gui" /\ pc[t] = "replace" /\ u \in shared

HoldersDoNotWait ==
    \A t, u, v \in Threads : ~(WaitsFor(t, u) /\ WaitsFor(u, v))

(* The locks are held where the code holds them, and nowhere else. *)
LockInv ==
    /\ \A s \in Senders : s \in shared <=> pc[s] \in Requesting
    /\ "io" \in shared <=> pc["io"] # "idle"
    /\ \A s \in Senders : large_data_mtx = s <=> pc[s] = "data"

(* Every step takes and gives back the locks it should. *)
LEMMA NextLockInv ==
    ASSUME TypeInv, LockInv, [Next]_vars PROVE LockInv'
<1>0. /\ pc \in [Threads -> Places] /\ SenderInv /\ CallbackInv
      /\ Senders \subseteq Threads /\ "io" \in Threads /\ "io" \notin Senders
      /\ "none" \notin Senders /\ "gui" \in Senders
      /\ \A s \in Senders : pc[s] \in {"idle", "replace"} \cup Requesting
  BY DEF TypeInv, TypeOK, Places, Threads, Senders, SenderInv
<1>1. ASSUME NEW s \in Senders, LockRequest(s) \/ Send(s)
      PROVE  LockInv'
  BY <1>0, <1>1 DEF LockRequest, Send, LockInv, Requesting, Goto
<1>2. ASSUME NEW s \in Senders, NewPdu(s) \/ TrackStore(s) \/ TrackFails(s) \/ TrackCount(s)
      PROVE  LockInv'
  BY <1>0, <1>2 DEF NewPdu, TrackStore, TrackFails, TrackCount, LockInv, Requesting, Goto
<1>3. ASSUME NEW s \in Senders, StoreBody(s) \/ AddData(s)
      PROVE  LockInv'
  BY <1>0, <1>3 DEF StoreBody, AddData, LockInv, Requesting, Goto
<1>4. CASE SetOptions \/ ReplaceSession
  BY <1>0, <1>4 DEF SetOptions, ReplaceSession, LockInv, Requesting, Goto
<1>5. CASE StartIO \/ EndIO
  BY <1>0, <1>5 DEF StartIO, EndIO, LockInv, Goto
<1>6. ASSUME NEW r \in Requests, Libcoap(r)
      PROVE  LockInv'
  BY <1>0, <1>6 DEF Libcoap, GiveUp, Receive, LockInv, Goto
<1>7. CASE Callback
  <2>1. /\ UNCHANGED <<shared, large_data_mtx>> /\ pc["io"] # "idle"
        /\ \E where \in Places : where # "idle" /\ pc' = [pc EXCEPT !["io"] = where]
    BY <1>7 DEF Callback, CheckToken, Deliver, Flush, FlushCount, Return, Goto, Places
  <2> QED
    BY <1>0, <2>1 DEF LockInv
<1>8. CASE UNCHANGED vars
  BY <1>8 DEF vars, LockInv
<1> QED
  BY <1>1, <1>2, <1>3, <1>4, <1>5, <1>6, <1>7, <1>8 DEF Next, Step, Request

(* In every behaviour, for any number of requests and of sessions, no thread *)
(* that holds coap_mtx_ or large_data_mtx_ while another waits for it waits  *)
(* itself: there is no circle, although sendRequest() takes the one under    *)
(* the other and libcoap calls back to freeLargeData() under both, and       *)
(* although the GUI thread takes coap_mtx_ both ways.                        *)
THEOREM LocksAreGivenBack == Spec => []HoldersDoNotWait
<1>1. TypeInv /\ LockInv => HoldersDoNotWait
  <2> SUFFICES ASSUME TypeInv, LockInv, NEW t \in Threads, NEW u \in Threads,
                      NEW v \in Threads, WaitsFor(t, u), WaitsFor(u, v)
               PROVE  FALSE
    BY DEF HoldersDoNotWait
  <2>1. /\ \A s \in Senders : s \in shared <=> pc[s] \in Requesting
        /\ \A s \in Senders : large_data_mtx = s <=> pc[s] = "data"
        /\ pc["lua"] # "replace"
    BY DEF LockInv, TypeInv, SenderInv
  <2>2. u \in Senders /\ pc[u] \in {"body", "replace"}
    BY DEF WaitsFor, Senders
  <2>3. u \in shared /\ t = "gui" /\ pc["gui"] = "replace"
    BY <2>1, <2>2 DEF WaitsFor
  <2>4. pc[u] = "body" /\ v = large_data_mtx
    BY <2>1, <2>2, <2>3 DEF WaitsFor, Requesting
  <2>5. v \in Senders
    BY <2>4 DEF TypeInv, TypeOK, Threads, Senders
  <2> QED
    BY <2>1, <2>2, <2>3, <2>4, <2>5 DEF Senders
<1>2. Init => TypeInv /\ LockInv
  <2>1. Init => LockInv
    BY DEF Init, LockInv, Threads, Senders, Requesting
  <2> QED
    BY <2>1, InitTypeInv
<1>3. TypeInv /\ LockInv /\ [Next]_vars => TypeInv' /\ LockInv'
  BY NextTypeInv, NextLockInv
<1> QED
  BY <1>1, <1>2, <1>3, PTL DEF Spec

===============================================================================
