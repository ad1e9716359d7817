------------------------------- MODULE CoapClient -------------------------------
(***************************************************************************)
(* The CoAP client (coap_client.cpp): requests, the list of tracked        *)
(* tokens that leads a response back to its request, the bodies kept for   *)
(* libcoap, and the session that Apply replaces.                           *)
(*                                                                         *)
(* Requests come from the GUI thread (coap_client_win.cpp) and from the    *)
(* strand of a Lua plugin (lua_plugin.cpp), which alone sends bodies; the  *)
(* client's strand polls libcoap, which calls back into the client.  All   *)
(* three hold coap_mtx_ shared, so that nothing keeps them apart in the    *)
(* list; createSession alone takes it exclusively.  libcoap is what its    *)
(* callers see of it: a message is answered, once or again, reset or lost. *)
(***************************************************************************)
EXTENDS Naturals, Sequences, FiniteSets

CONSTANTS
    MaxRequests,    \* bound: requests in one behaviour
    MaxSessions     \* bound: sessions created

ASSUME BoundsAssumption == MaxRequests \in Nat \ {0} /\ MaxSessions \in Nat \ {0}

VARIABLES
    shared,           \* coap_mtx_: the threads that hold it shared
    large_data_mtx,   \* its holder, or "none"
    session,          \* the session in use
    is_mcast,
    tracked_tokens,   \* the slots of the array
    count,            \* tracked_tokens_count
    of,               \* the session a request was sent in, 0 before
    live,             \* requests that libcoap may still see answered
    pc,               \* where the threads are
    job,              \* the request a thread is busy with, see Job
    answered,         \* final responses and errors handled, up to two
    kept,             \* history: requests not flushed because of is_mcast
    untracked,        \* history: requests the list had no memory for
    raced             \* history: the list was used by two threads at a time

vars == <<shared, large_data_mtx, session, is_mcast, tracked_tokens, count,
          of, live, pc, job, answered, kept, untracked, raced>>

(* Everything but the history of races, which Next keeps. *)
code == <<shared, large_data_mtx, session, is_mcast, tracked_tokens, count,
          of, live, pc, job, answered, kept, untracked>>

lists == <<tracked_tokens, count>>
libcoap == <<session, is_mcast, of, live>>
signals == <<answered, kept, untracked>>

Senders == {"gui", "lua"}
Threads == Senders \cup {"io"}
Requests == 1 .. MaxRequests
Sessions == 1 .. MaxSessions

(* The token of a request is its number; a slot of fresh memory holds none.  *)
Junk == 0
Body == {"none", "small", "large"}

(* A response without blocks, or an error; a block of several; a reset.      *)
Response == {"single", "more", "last", "rst"}

Job == [req : 0 .. MaxRequests, session : 0 .. MaxSessions,
        what : Body \cup Response]
NoJob == [req |-> 0, session |-> 0, what |-> "none"]

Goto(t, where) == pc' = [pc EXCEPT ![t] = where]

Init ==
    /\ shared = {}
    /\ large_data_mtx = "none"
    /\ session = 1
    /\ is_mcast = FALSE
    /\ tracked_tokens = <<>>
    /\ count = 0
    /\ of = [r \in Requests |-> 0]
    /\ live = {}
    /\ pc = [t \in Threads |-> "idle"]
    /\ job = [t \in Threads |-> NoJob]
    /\ answered = [r \in Requests |-> 0]
    /\ kept = {}
    /\ untracked = {}
    /\ raced = FALSE

(* What is in the list: the slots below the count, those of them that exist. *)
Slot(i) == IF i <= Len(tracked_tokens) THEN tracked_tokens[i] ELSE Junk
Tracked == {Slot(i) : i \in 1 .. count}

-------------------------------------------------------------------------------
(* sendRequest().                                                            *)

Used == {r \in Requests : of[r] # 0} \cup {job[s].req : s \in Senders}

(* The options are put together, then the lock is taken.  The requests of    *)
(* the window have no body.                                                  *)
LockRequest(s) ==
    /\ pc[s] = "idle"
    /\ \E r \in Requests \ Used, body \in Body :
          /\ \A q \in Requests \ Used : r <= q
          /\ s = "gui" => body = "none"
          /\ job' = [job EXCEPT ![s] = [req |-> r, session |-> 0, what |-> body]]
    /\ shared' = shared \cup {s}
    /\ Goto(s, "pdu")
    /\ UNCHANGED <<large_data_mtx, lists, libcoap, signals>>

(* The message and its token are made for the session. *)
NewPdu(s) ==
    /\ pc[s] = "pdu"
    /\ job' = [job EXCEPT ![s].session = session]
    /\ Goto(s, "track")
    /\ UNCHANGED <<shared, large_data_mtx, lists, libcoap, signals>>

(* Mutant of TrackStore: the array is not made larger. *)
TrackStoreShort(s) ==
    /\ pc[s] = "track"
    /\ tracked_tokens' = [i \in 1 .. count |-> Slot(i)]
    /\ Goto(s, "count")
    /\ UNCHANGED <<shared, large_data_mtx, count, libcoap, job, signals>>

(* track_new_token(): the array grows by a slot for the token ...            *)
TrackStore(s) ==
    /\ pc[s] = "track"
    /\ tracked_tokens' = [i \in 1 .. count + 1 |->
                             IF i = count + 1 THEN job[s].req ELSE Slot(i)]
    /\ Goto(s, "count")
    /\ UNCHANGED <<shared, large_data_mtx, count, libcoap, job, signals>>

(* ... or there is no memory for the array or for the token, which the new   *)
(* slot then lacks: the request is sent all the same, and not counted.       *)
TrackFails(s) ==
    /\ pc[s] = "track"
    /\ tracked_tokens' \in
           {tracked_tokens,
            [i \in 1 .. count + 1 |-> IF i = count + 1 THEN Junk ELSE Slot(i)]}
    /\ untracked' = untracked \cup {job[s].req}
    /\ Goto(s, IF job[s].what = "none" THEN "send" ELSE "body")
    /\ UNCHANGED <<shared, large_data_mtx, count, libcoap, job, answered, kept>>

(* ... and the count follows. *)
TrackCount(s) ==
    /\ pc[s] = "count"
    /\ count' = count + 1
    /\ Goto(s, IF job[s].what = "none" THEN "send" ELSE "body")
    /\ UNCHANGED <<shared, large_data_mtx, tracked_tokens, libcoap, job, signals>>

(* The body is kept for libcoap, under large_data_mtx_. *)
StoreBody(s) ==
    /\ pc[s] = "body"
    /\ large_data_mtx = "none"
    /\ large_data_mtx' = s
    /\ Goto(s, "data")
    /\ UNCHANGED <<shared, lists, libcoap, job, signals>>

(* Mutant of MayFree: freeLargeData() takes large_data_mtx_. *)
MayFreeLocked == large_data_mtx = "none"

(* freeLargeData() takes no lock. *)
MayFree == TRUE

(* coap_add_data_large_request(), under the lock still: a body that fits     *)
(* into the message is copied, and libcoap calls back at once to free it.    *)
AddData(s) ==
    /\ pc[s] = "data"
    /\ job[s].what = "small" => MayFree
    /\ large_data_mtx' = "none"
    /\ Goto(s, "send")
    /\ UNCHANGED <<shared, lists, libcoap, job, signals>>

(* coap_send(), which may fail. *)
Send(s) ==
    /\ pc[s] = "send"
    /\ of' = [of EXCEPT ![job[s].req] = job[s].session]
    /\ live' \in {live, live \cup {job[s].req}}
    /\ shared' = shared \ {s}
    /\ job' = [job EXCEPT ![s] = NoJob]
    /\ Goto(s, "idle")
    /\ UNCHANGED <<large_data_mtx, session, is_mcast, lists, signals>>

-------------------------------------------------------------------------------
(* setOptions(), of the GUI thread: createSession() looks at the address     *)
(* before it takes the lock.  An address that resolves to nothing changes    *)
(* nothing here.                                                             *)
SetOptions ==
    /\ pc["gui"] = "idle"
    /\ session < MaxSessions
    /\ is_mcast' \in BOOLEAN
    /\ Goto("gui", "replace")
    /\ UNCHANGED <<shared, large_data_mtx, session, of, live, lists, job,
                   signals>>

(* Mutant of MayReplace: the lock is taken shared. *)
MayReplaceShared == TRUE

MayReplace == shared = {}

(* libcoap frees the old session unless an exchange of it is under way.      *)
ReplaceSession ==
    /\ pc["gui"] = "replace"
    /\ MayReplace
    /\ session' = session + 1
    /\ LET old == {r \in Requests : of[r] = session}
       IN  live' \in {live, live \ old}
    /\ Goto("gui", "idle")
    /\ UNCHANGED <<shared, large_data_mtx, is_mcast, of, lists, job, signals>>

-------------------------------------------------------------------------------
(* doIO(), on the client's strand.                                           *)

StartIO ==
    /\ pc["io"] = "idle"
    /\ shared' = shared \cup {"io"}
    /\ Goto("io", "process")
    /\ UNCHANGED <<large_data_mtx, lists, libcoap, job, signals>>

EndIO ==
    /\ pc["io"] = "process"
    /\ shared' = shared \ {"io"}
    /\ Goto("io", "idle")
    /\ UNCHANGED <<large_data_mtx, lists, libcoap, job, signals>>

(* coap_io_process() gives up a message. *)
GiveUp(r) ==
    /\ pc["io"] = "process"
    /\ r \in live
    /\ live' = live \ {r}
    /\ UNCHANGED <<shared, large_data_mtx, session, is_mcast, of, lists, pc, job,
                   signals>>

(* A response arrives, late or for the second time perhaps. *)
Receive(r, response) ==
    /\ pc["io"] = "process"
    /\ r \in live
    /\ job' = [job EXCEPT !["io"] = [NoJob EXCEPT !.req = r, !.what = response]]
    /\ Goto("io", "check")
    /\ UNCHANGED <<shared, large_data_mtx, lists, libcoap, signals>>

(* The callback returns to coap_io_process(). *)
Return == Goto("io", "process") /\ job' = [job EXCEPT !["io"] = NoJob]

(* Mutant of CheckToken: a token that is not tracked yet is waited for. *)
CheckTokenWaits ==
    /\ pc["io"] = "check"
    /\ IF job["io"].req \in Tracked
       THEN Goto("io", "deliver") /\ UNCHANGED job
       ELSE UNCHANGED <<pc, job>>
    /\ UNCHANGED <<shared, large_data_mtx, lists, libcoap, signals>>

(* messageCallback(): the token is looked up.  A reset goes no further. *)
CheckToken ==
    /\ pc["io"] = "check"
    /\ IF job["io"].req \in Tracked /\ job["io"].what # "rst"
       THEN Goto("io", "deliver") /\ UNCHANGED job
       ELSE Return
    /\ UNCHANGED <<shared, large_data_mtx, lists, libcoap, signals>>

(* Of the blocks only the last one ends the request, and that one always; a  *)
(* group may answer again.                                                   *)
Deliver ==
    /\ pc["io"] = "deliver"
    /\ \/ /\ job["io"].what = "more"
          /\ Return
          /\ UNCHANGED signals
       \/ /\ job["io"].what # "more"
          /\ answered' = [answered EXCEPT
                             ![job["io"].req] = IF @ < 2 THEN @ + 1 ELSE @]
          /\ IF job["io"].what = "single" /\ is_mcast
             THEN Return /\ kept' = kept \cup {job["io"].req}
             ELSE Goto("io", "flush") /\ UNCHANGED <<job, kept>>
    /\ UNCHANGED <<shared, large_data_mtx, lists, libcoap, untracked>>

(* track_flush_token(): the slots after the token's move down by one ...     *)
Moved(from) ==
    [i \in 1 .. Len(tracked_tokens) |->
        IF i \in from .. count - 1 THEN Slot(i + 1) ELSE Slot(i)]

FirstSlot(i) ==
    /\ Slot(i) = job["io"].req
    /\ \A k \in 1 .. i - 1 : Slot(k) # job["io"].req

(* Mutant of Flush: nothing is moved. *)
FlushUnmoved ==
    /\ pc["io"] = "flush"
    /\ Goto("io", IF job["io"].req \in Tracked THEN "uncount" ELSE "process")
    /\ UNCHANGED <<shared, large_data_mtx, lists, libcoap, job, signals>>

Flush ==
    /\ pc["io"] = "flush"
    /\ \/ \E i \in 1 .. count :
             /\ FirstSlot(i)
             /\ tracked_tokens' = Moved(i)
             /\ Goto("io", "uncount")
             /\ UNCHANGED job
       \/ /\ job["io"].req \notin Tracked
          /\ Return
          /\ UNCHANGED tracked_tokens
    /\ UNCHANGED <<shared, large_data_mtx, count, libcoap, signals>>

(* ... and the count follows. *)
FlushCount ==
    /\ pc["io"] = "uncount"
    /\ count' = count - 1
    /\ Return
    /\ UNCHANGED <<shared, large_data_mtx, tracked_tokens, libcoap, signals>>

-------------------------------------------------------------------------------
(* The threads whose next step reads or writes the list.                     *)
InList ==
    {t \in Threads : pc[t] \in {"track", "count", "check", "flush", "uncount"}}
Writing == {t \in InList : pc[t] # "check"}

Request(s) ==
    \/ NewPdu(s)
    \/ TrackStore(s) \/ TrackFails(s) \/ TrackCount(s)
    \/ StoreBody(s) \/ AddData(s)
    \/ Send(s)

Callback == CheckToken \/ Deliver \/ Flush \/ FlushCount

Libcoap(r) ==
    GiveUp(r) \/ \E response \in Response : Receive(r, response)

Step ==
    \/ \E s \in Senders : LockRequest(s) \/ Request(s)
    \/ SetOptions
    \/ ReplaceSession
    \/ StartIO
    \/ EndIO
    \/ \E r \in Requests : Libcoap(r)
    \/ Callback

Next ==
    /\ Step
    /\ raced' = (raced \/ (Cardinality(InList') > 1 /\ Writing' # {}))

Spec == Init /\ [][Next]_vars

(* A request that has begun runs to its end, the callback does, and doIO()   *)
(* is run whenever it is posted; coap_io_process() returns after 250 ms.     *)
Fairness ==
    /\ \A s \in Senders : WF_code(Request(s))
    /\ WF_code(StartIO)
    /\ SF_code(EndIO)
    /\ WF_code(Callback)

FairSpec == Spec /\ Fairness

-------------------------------------------------------------------------------
TypeOK ==
    /\ shared \subseteq Threads
    /\ large_data_mtx \in Senders \cup {"none"}
    /\ session \in Sessions
    /\ is_mcast \in BOOLEAN
    /\ tracked_tokens \in Seq(Requests \cup {Junk})
    /\ count \in 0 .. MaxRequests
    /\ of \in [Requests -> {0} \cup Sessions]
    /\ live \subseteq Requests
    /\ pc \in [Threads ->
                  {"idle", "pdu", "track", "count", "body", "data", "send",
                   "replace", "process", "check", "deliver", "flush", "uncount"}]
    /\ job \in [Threads -> Job]
    /\ answered \in [Requests -> 0 .. 2]
    /\ kept \cup untracked \subseteq Requests
    /\ raced \in BOOLEAN
    /\ ~raced => count <= Len(tracked_tokens)

(* A request is made, tracked and sent for one session: Apply does not       *)
(* replace and free it half way (sendRequest reads session_ four times).     *)
SessionInUse ==
    \A s \in Senders :
        pc[s] \in {"track", "count", "body", "data", "send"} =>
            job[s].session = session

(* A response to an open request is found in the list, whatever was added,   *)
(* flushed and kept before: unless two threads have used the list at a time, *)
(* or there was no memory for its token.                                     *)
Open(r) ==
    /\ answered[r] = 0
    /\ \/ of[r] # 0
       \/ \E s \in Senders : job[s].req = r /\ pc[s] \in {"body", "data", "send"}

ResponsesFound ==
    ~raced => \A r \in Requests \ untracked : Open(r) => r \in Tracked

(* A request is answered once: a duplicate of a final response is dropped,   *)
(* unless the first came from a group, or two threads used the list.         *)
AnsweredOnce == ~raced => \A r \in Requests \ kept : answered[r] <= 1

(* The list of tokens leads every response to its request, and no second one *)
(* (track_new_token, track_check_token, track_flush_token).                      *)
TokensMatch == ResponsesFound /\ AnsweredOnce

(* Every call of sendRequest returns: no lock of the client is taken by a    *)
(* thread that holds it, not even when libcoap calls back under one.         *)
RequestReturns == \A s \in Senders : pc[s] = "pdu" ~> pc[s] = "idle"

(* The client never stops listening: doIO() is posted again for ever, past   *)
(* any callback, request and change of the session.                          *)
PollsForEver == []<>(pc["io"] = "process")
===============================================================================
