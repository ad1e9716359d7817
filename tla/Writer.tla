-------------------------------- MODULE Writer --------------------------------
(***************************************************************************)
(* The sending side of the stream and datagram connections: Writer         *)
(* (writer.cpp) and the startWrite and completion handler that TcpClient,  *)
(* UdpConnection, TcpServerClient and Serial each have a copy of.          *)
(*                                                                         *)
(* Two threads run it: the GUI thread, the only caller of send(), and the  *)
(* strand of the connection, which runs the completion handlers one at a   *)
(* time.  startWrite is entered by both (by the strand only for Serial,    *)
(* which posts it), and only startWrite takes write_lock_: the completion  *)
(* handler edits tx_current_ without it.  The queue is used through        *)
(* push_front and pop_back only, one step each (module RingBuffer).        *)
(*                                                                         *)
(* A buffer is the interval [lo, hi) of the positions its bytes have in    *)
(* the stream of bytes accepted so far; it is empty if lo = hi.            *)
(***************************************************************************)
EXTENDS Naturals, Sequences

CONSTANTS
    Transports,   \* whose copies of the code: "client" (TcpClient, UdpConnection),
                  \* "server" (TcpServerClient) and "serial"
    Capacity,     \* capacity of tx_queue_ (100 in the code)
    MaxBytes,     \* bound: bytes sent in one behaviour
    MaxLen,       \* bound: length of a message
    WholeWrites,  \* the operating system never takes a part of a buffer
    MayFail,      \* a send may complete with an error
    MayStop       \* should_run_ may be cleared by a disconnect

ASSUME TransportsAssumption == Transports \subseteq {"client", "server", "serial"}
ASSUME CapacityAssumption == Capacity \in Nat \ {0}
ASSUME BoundsAssumption == MaxBytes \in Nat /\ MaxLen \in Nat
ASSUME SwitchesAssumption == {WholeWrites, MayFail, MayStop} \subseteq BOOLEAN

VARIABLES
    transport,          \* the copy that runs
    accepted,           \* bytes pushed into the queue so far
    len,                \* length of the message the GUI thread is sending
    tx_queue,           \* the queued messages, oldest first
    tx_current,         \* the buffer handed to the operating system
    moved,              \* the completion handler's popped message
    write_in_progress,
    write_lock,         \* holder of write_lock_, or "none"
    should_run,
    inflight,           \* buffers of the outstanding async sends
    posted,             \* posted startWrite calls (Serial)
    written,            \* the completion handler's argument
    wire,               \* the bytes the operating system took, in order
    pc,                 \* where the two threads are
    torn                \* history: startWrite has met an assignment half done

vars == <<transport, accepted, len, tx_queue, tx_current, moved, write_in_progress,
          write_lock, should_run, inflight, posted, written, wire, pc, torn>>

Threads == {"gui", "strand"}

Buffer == [lo : Nat, hi : Nat]
Nothing == [lo |-> 0, hi |-> 0]
IsEmpty(b) == b.lo = b.hi
Size(b) == b.hi - b.lo

Goto(t, where) == pc' = [pc EXCEPT ![t] = where]

Init ==
    /\ transport \in Transports
    /\ accepted = 0
    /\ len = 0
    /\ tx_queue = <<>>
    /\ tx_current = Nothing
    /\ moved = Nothing
    /\ write_in_progress = FALSE
    /\ write_lock = "none"
    /\ should_run = (transport # "serial")
    /\ inflight = {}
    /\ posted = 0
    /\ written = 0
    /\ wire = <<>>
    /\ pc = [t \in Threads |-> "idle"]
    /\ torn = FALSE

-------------------------------------------------------------------------------
(* send(), on the GUI thread: push_front, then the transport's doWrite.      *)

CallSend(n) ==
    /\ pc["gui"] = "idle"
    /\ accepted + n <= MaxBytes
    /\ len' = n
    /\ Goto("gui", "push")
    /\ UNCHANGED <<torn, transport, accepted, tx_queue, tx_current, moved,
                   write_in_progress, write_lock, should_run, inflight, posted,
                   written, wire>>

Push ==
    /\ pc["gui"] = "push"
    /\ Len(tx_queue) < Capacity
    /\ tx_queue' = Append(tx_queue, [lo |-> accepted, hi |-> accepted + len])
    /\ accepted' = accepted + len
    /\ len' = 0
    /\ Goto("gui", "dowrite")
    /\ UNCHANGED <<torn, transport, tx_current, moved, write_in_progress, write_lock,
                   should_run, inflight, posted, written, wire>>

(* doWrite returns at once: the server's client looks at the transmission,   *)
(* the others at should_run_.                                                *)
Declines == IF transport = "server" THEN write_in_progress ELSE ~should_run

DoWrite ==
    /\ pc["gui"] = "dowrite"
    /\ \/ /\ Declines
          /\ Goto("gui", "idle")
          /\ UNCHANGED posted
       \/ /\ ~Declines
          /\ transport = "serial"
          /\ Goto("gui", "idle")
          /\ posted' = posted + 1
       \/ /\ ~Declines
          /\ transport # "serial"
          /\ Goto("gui", "check")
          /\ UNCHANGED posted
    /\ UNCHANGED <<torn, transport, accepted, len, tx_queue, tx_current, moved,
                   write_in_progress, write_lock, should_run, inflight, written,
                   wire>>

(* Serial: the strand runs a posted startWrite. *)
RunPosted ==
    /\ pc["strand"] = "idle"
    /\ posted > 0
    /\ posted' = posted - 1
    /\ Goto("strand", "check")
    /\ UNCHANGED <<torn, transport, accepted, len, tx_queue, tx_current, moved,
                   write_in_progress, write_lock, should_run, inflight, written,
                   wire>>

-------------------------------------------------------------------------------
(* startWrite, on either thread.                                             *)

Check(t) ==
    /\ pc[t] = "check"
    /\ Goto(t, IF write_in_progress THEN "idle" ELSE "lock")
    /\ UNCHANGED <<torn, transport, accepted, len, tx_queue, tx_current, moved,
                   write_in_progress, write_lock, should_run, inflight, posted,
                   written, wire>>

(* Mutant of Acquire: no mutual exclusion. *)
AcquireAnyway(t) ==
    /\ pc[t] = "lock"
    /\ write_lock' = t
    /\ Goto(t, "locked")
    /\ UNCHANGED <<torn, transport, accepted, len, tx_queue, tx_current, moved,
                   write_in_progress, should_run, inflight, posted, written,
                   wire>>

Acquire(t) ==
    /\ pc[t] = "lock"
    /\ write_lock = "none"
    /\ write_lock' = t
    /\ Goto(t, "locked")
    /\ UNCHANGED <<torn, transport, accepted, len, tx_queue, tx_current, moved,
                   write_in_progress, should_run, inflight, posted, written,
                   wire>>

(* Mutant of MayTake: the size of tx_current_ is not looked at. *)
MayTakeAnyway == tx_queue # <<>>

MayTake == IsEmpty(tx_current) /\ tx_queue # <<>>

(* It is FALSE of a tx_current_ that the handler's move assignment has only  *)
(* emptied so far: then the message that is moved in will be overwritten, or *)
(* will overwrite the one that is sent.                                      *)
Inspect(t) ==
    /\ pc[t] = "locked"
    /\ torn' = (torn \/ (MayTake /\ pc["strand"] = "assign"))
    /\ \/ /\ MayTake
          /\ Goto(t, "pop")
          /\ UNCHANGED write_lock
       \/ /\ ~MayTake
          /\ Goto(t, "idle")
          /\ write_lock' = "none"
    /\ UNCHANGED <<transport, accepted, len, tx_queue, tx_current, moved,
                   write_in_progress, should_run, inflight, posted, written,
                   wire>>

(* pop_back: blocks, with write_lock_ held, while the queue is empty. *)
Pop(t) ==
    /\ pc[t] = "pop"
    /\ tx_queue # <<>>
    /\ tx_current' = Head(tx_queue)
    /\ tx_queue' = Tail(tx_queue)
    /\ Goto(t, "mark")
    /\ UNCHANGED <<torn, transport, accepted, len, moved, write_in_progress, write_lock,
                   should_run, inflight, posted, written, wire>>

Mark(t) ==
    /\ pc[t] = "mark"
    /\ write_in_progress' = TRUE
    /\ Goto(t, "launch")
    /\ UNCHANGED <<torn, transport, accepted, len, tx_queue, tx_current, moved,
                   write_lock, should_run, inflight, posted, written, wire>>

(* async_send only starts the transmission of the buffer. *)
Launch(t) ==
    /\ pc[t] = "launch"
    /\ inflight' = inflight \cup {tx_current}
    /\ Goto(t, "unlock")
    /\ UNCHANGED <<torn, transport, accepted, len, tx_queue, tx_current, moved,
                   write_in_progress, write_lock, should_run, posted, written,
                   wire>>

Unlock(t) ==
    /\ pc[t] = "unlock"
    /\ write_lock' = "none"
    /\ Goto(t, "idle")
    /\ UNCHANGED <<torn, transport, accepted, len, tx_queue, tx_current, moved,
                   write_in_progress, should_run, inflight, posted, written,
                   wire>>

-------------------------------------------------------------------------------
(* The operating system and the completion handler, on the strand.           *)

(* The operating system took the first k bytes; the strand starts the        *)
(* handler with written = k.                                                 *)
Complete(b, k) ==
    /\ pc["strand"] = "idle"
    /\ b \in inflight
    /\ k \in 1 .. Size(b)
    /\ WholeWrites => k = Size(b)
    /\ wire' = wire \o [i \in 1 .. k |-> b.lo + i - 1]
    /\ inflight' = inflight \ {b}
    /\ written' = k
    /\ Goto("strand", "advance")
    /\ UNCHANGED <<torn, transport, accepted, len, tx_queue, tx_current, moved,
                   write_in_progress, write_lock, should_run, posted>>

(* A failed send: the handler does nothing at all. *)
Fail(b) ==
    /\ MayFail
    /\ pc["strand"] = "idle"
    /\ b \in inflight
    /\ inflight' = inflight \ {b}
    /\ UNCHANGED <<torn, transport, accepted, len, tx_queue, tx_current, moved,
                   write_in_progress, write_lock, should_run, posted, written,
                   wire, pc>>

(* What is left of tx_current_ stays in it; otherwise the handler turns to   *)
(* the queue.                                                                *)
Advance ==
    /\ pc["strand"] = "advance"
    /\ \/ /\ Size(tx_current) > written
          /\ tx_current' = [tx_current EXCEPT !.lo = @ + written]
          /\ Goto("strand", "release")
       \/ /\ Size(tx_current) <= written
          /\ Goto("strand", IF tx_queue # <<>> THEN "hpop" ELSE "hclear")
          /\ UNCHANGED tx_current
    /\ written' = 0
    /\ UNCHANGED <<torn, transport, accepted, len, tx_queue, moved, write_in_progress,
                   write_lock, should_run, inflight, posted, wire>>

Emptied(b) == [b EXCEPT !.lo = b.hi]

HandlerPop ==
    /\ pc["strand"] = "hpop"
    /\ tx_queue # <<>>
    /\ moved' = Head(tx_queue)
    /\ tx_queue' = Tail(tx_queue)
    /\ tx_current' \in {tx_current, Emptied(tx_current)}
    /\ Goto("strand", "assign")
    /\ UNCHANGED <<torn, transport, accepted, len, write_in_progress, write_lock,
                   should_run, inflight, posted, written, wire>>

HandlerAssign ==
    /\ pc["strand"] = "assign"
    /\ tx_current' = moved
    /\ moved' = Nothing
    /\ Goto("strand", "release")
    /\ UNCHANGED <<torn, transport, accepted, len, tx_queue, write_in_progress,
                   write_lock, should_run, inflight, posted, written, wire>>

HandlerClear ==
    /\ pc["strand"] = "hclear"
    /\ tx_current' = Emptied(tx_current)
    /\ Goto("strand", "release")
    /\ UNCHANGED <<torn, transport, accepted, len, tx_queue, moved, write_in_progress,
                   write_lock, should_run, inflight, posted, written, wire>>

(* Mutant of Release: startWrite is not called again. *)
ReleaseOnly ==
    /\ pc["strand"] = "release"
    /\ write_in_progress' = FALSE
    /\ Goto("strand", "idle")
    /\ UNCHANGED <<torn, transport, accepted, len, tx_queue, tx_current, moved,
                   write_lock, should_run, inflight, posted, written, wire>>

(* write_in_progress_ = false, then startWrite, which Serial posts. *)
Release ==
    /\ pc["strand"] = "release"
    /\ write_in_progress' = FALSE
    /\ IF transport = "serial"
       THEN Goto("strand", "idle") /\ posted' = posted + 1
       ELSE Goto("strand", "check") /\ UNCHANGED posted
    /\ UNCHANGED <<torn, transport, accepted, len, tx_queue, tx_current, moved,
                   write_lock, should_run, inflight, written, wire>>

(* A disconnect clears should_run_, at any time; only Serial's doOpen sets   *)
(* it, and only Serial starts without it.                                    *)
Stop ==
    /\ MayStop
    /\ should_run
    /\ should_run' = FALSE
    /\ UNCHANGED <<torn, transport, accepted, len, tx_queue, tx_current, moved,
                   write_in_progress, write_lock, inflight, posted, written, wire,
                   pc>>

Open ==
    /\ transport = "serial"
    /\ ~should_run
    /\ should_run' = TRUE
    /\ UNCHANGED <<torn, transport, accepted, len, tx_queue, tx_current, moved,
                   write_in_progress, write_lock, inflight, posted, written, wire,
                   pc>>

StartWrite(t) ==
    \/ Check(t) \/ Acquire(t) \/ Inspect(t) \/ Pop(t) \/ Mark(t) \/ Launch(t)
    \/ Unlock(t)

Handler ==
    Advance \/ HandlerPop \/ HandlerAssign \/ HandlerClear \/ Release

GuiStep == Push \/ DoWrite \/ StartWrite("gui")
StrandStep == RunPosted \/ StartWrite("strand") \/ Handler
Completion == \E b \in inflight, k \in 1 .. MaxLen : Complete(b, k)

Next ==
    \/ \E n \in 1 .. MaxLen : CallSend(n)
    \/ GuiStep
    \/ StrandStep
    \/ Completion
    \/ \E b \in inflight : Fail(b)
    \/ Stop
    \/ Open

Spec == Init /\ [][Next]_vars

(* A thread inside send(), startWrite or a handler keeps running, and the    *)
(* operating system completes what it was given.  Nobody is obliged to send. *)
Fairness == WF_vars(GuiStep) /\ WF_vars(StrandStep) /\ WF_vars(Completion)
FairSpec == Spec /\ Fairness

-------------------------------------------------------------------------------
(* The types of the variables, with the capacity of the queue and the        *)
(* mutual exclusion the lock is there for: whoever is between the lock and   *)
(* its release holds it.                                                     *)
Exclusive == {"locked", "pop", "mark", "launch", "unlock"}
InStartWrite == {"check", "lock"} \cup Exclusive
InHandler == {"advance", "hpop", "assign", "hclear", "release"}

TypeOK ==
    /\ transport \in Transports
    /\ accepted \in Nat /\ len \in Nat /\ posted \in Nat /\ written \in Nat
    /\ tx_queue \in Seq(Buffer) /\ Len(tx_queue) <= Capacity
    /\ tx_current \in Buffer /\ moved \in Buffer
    /\ write_in_progress \in BOOLEAN /\ should_run \in BOOLEAN
    /\ write_lock \in Threads \cup {"none"}
    /\ inflight \in SUBSET Buffer
    /\ wire \in Seq(Nat)
    /\ pc \in [Threads -> {"idle", "push", "dowrite"} \cup InStartWrite \cup InHandler]
    /\ pc["gui"] \notin InHandler
    /\ pc["strand"] \notin {"push", "dowrite"}
    /\ torn \in BOOLEAN
    /\ \A t \in Threads : pc[t] \in Exclusive <=> write_lock = t

(* The buffer the operating system is reading is not touched: it is the one  *)
(* in tx_current_, so the handler's edit, which takes no lock, does not meet *)
(* a transmission that the GUI thread started.  There is one way in which it *)
(* does: startWrite finds tx_current_ empty in the middle of its assignment. *)
InFlightIsCurrent == torn \/ inflight \subseteq {tx_current}

(* A thread that calls pop_back finds a message, although the handler looks  *)
(* at the queue without the lock and pop_back would otherwise wait for the   *)
(* next send() with write_lock_ held or with the strand blocked.             *)
PopNeverBlocks ==
    pc["gui"] = "pop" \/ pc["strand"] \in {"pop", "hpop"} => tx_queue # <<>>

(* No message is forgotten at the moment a transmission ends: while one is   *)
(* queued and nothing is being sent, a thread is on its way to take it.      *)
(* (Serial is left out: what is queued while the port is closed stays there  *)
(* until the next send after it is opened.)                                  *)
OnItsWay == {"dowrite", "check", "lock", "locked", "pop", "assign", "release"}

NoLostKick ==
    (/\ transport # "serial" /\ should_run
     /\ tx_queue # <<>> /\ IsEmpty(tx_current)) =>
        \E t \in Threads : pc[t] \in OnItsWay

(* The path is stalled: a message sits in tx_current_ and no thread and no   *)
(* completion is going to take it further.  A failed send, a partial write   *)
(* and a message the handler took from the queue all end here.               *)
Stalled ==
    /\ ~IsEmpty(tx_current)
    /\ inflight = {}
    /\ \A t \in Threads :
           pc[t] \notin {"pop", "mark", "launch", "advance", "hpop", "assign", "hclear"}

(* A stalled path never transmits again: not after the next send(), not      *)
(* after a disconnect and not after the connection is opened again.          *)
StallIsFinal == [][Stalled => Stalled']_vars

(* What the sending side promises (module OutStream): every byte once, in    *)
(* the order of the calls to send(), unless an assignment is met half done.  *)
Stream == INSTANCE OutStream
StreamSpec == Stream!Spec

(* A message that is pushed while nothing is queued or being sent goes out,  *)
(* whatever the GUI thread and the strand do meanwhile, unless the path      *)
(* stalls or is stopped, or an assignment is met half done.  (Serial is left *)
(* out, as above.)                                                           *)
SentFromIdle ==
    \A n \in 1 .. MaxBytes :
        (/\ transport # "serial" /\ IsEmpty(tx_current) /\ Len(tx_queue) = 1
         /\ accepted = n /\ should_run)
            ~> Len(wire) >= n \/ Stalled \/ ~should_run \/ torn

(* What the button "send" of a console says (raw_data_win.cpp): whatever is  *)
(* handed to send() goes out.                                                *)
EverythingSent ==
    \A n \in 1 .. MaxBytes : (accepted >= n) ~> (Len(wire) >= n)

-------------------------------------------------------------------------------
(* The inductive invariant behind the safety properties above: first what    *)
(* holds whatever the library does.                                          *)
Busy == {"advance", "hpop", "hclear"}    \* the handler, up to its edit
Taking == {"pop", "mark", "launch"}

(* The operating system has one buffer at most, and meanwhile nobody takes a *)
(* message.                                                                  *)
FlightInv ==
    /\ \A b, c \in inflight : b = c
    /\ inflight # {} =>
           ~IsEmpty(tx_current) /\ \A t \in Threads : pc[t] \notin Busy \cup Taking

(* Up to its edit of tx_current_, the handler is alone with it.              *)
HandlerInv ==
    /\ pc["strand"] \in Busy => ~IsEmpty(tx_current) /\ pc["gui"] \notin Taking
    /\ pc["strand"] = "hpop" => tx_queue # <<>>

TakeInv ==
    \A t \in Threads :
        /\ pc[t] = "pop" => tx_queue # <<>>
        /\ pc[t] \in {"mark", "launch"} => ~IsEmpty(tx_current)

MarkInv ==
    write_in_progress => ~IsEmpty(tx_current) \/ pc["strand"] \in {"assign", "release"}

(* No message is empty. *)
MessagesInv ==
    /\ pc["gui"] = "push" => len > 0
    /\ tx_current.lo <= tx_current.hi
    /\ pc["strand"] = "assign" => moved.lo < moved.hi
    /\ \A i \in 1 .. Len(tx_queue) : tx_queue[i].lo < tx_queue[i].hi

Always == TypeOK /\ FlightInv /\ HandlerInv /\ TakeInv /\ MarkInv /\ MessagesInv

(* And what holds until a race is lost.  The handler runs under the mark,    *)
(* which keeps the GUI thread from entering startWrite; if the GUI thread is *)
(* in it already, it finds tx_current_ occupied, or emptied with nothing     *)
(* queued.                                                                   *)
MarkedInv ==
    /\ inflight \subseteq {tx_current}
    /\ inflight # {} => write_in_progress /\ pc["strand"] \notin InHandler
    /\ pc["strand"] \in InHandler => write_in_progress /\ pc["gui"] \notin Taking
    /\ pc["gui"] \in {"lock", "locked"} =>
           /\ pc["strand"] = "hclear" => tx_queue = <<>>
           /\ pc["strand"] = "release" => ~IsEmpty(tx_current) \/ tx_queue = <<>>
    /\ \A t \in Threads :
           /\ pc[t] = "pop" => IsEmpty(tx_current)
           /\ pc[t] = "launch" => write_in_progress

(* The buffers are adjacent intervals of the accepted bytes: first the one   *)
(* in tx_current_ (or the one about to be moved into it), then the queue.    *)
Front == IF pc["strand"] = "assign" THEN moved.hi ELSE tx_current.hi

Contiguous(q, front, end) ==
    /\ front <= end
    /\ q = <<>> => front = end
    /\ q # <<>> => q[Len(q)].hi = end
    /\ \A i \in 1 .. Len(q) :
           /\ q[i].lo < q[i].hi
           /\ q[i].hi <= end
           /\ q[i].lo = IF i = 1 THEN front ELSE q[i - 1].hi

QueueInv ==
    /\ pc["strand"] = "assign" => moved.lo = tx_current.hi
    /\ Contiguous(tx_queue, Front, accepted)

(* How far the wire is, seen from tx_current_. *)
WireInv ==
    /\ pc["strand"] = "advance" => written \in 1 .. Size(tx_current)
    /\ Len(wire) =
           IF pc["strand"] = "advance" THEN tx_current.lo + written
           ELSE IF pc["strand"] \in {"hpop", "assign", "hclear"} THEN tx_current.hi
           ELSE tx_current.lo

Untorn == MarkedInv /\ QueueInv /\ WireInv

Inductive == Always /\ (torn \/ Untorn)
===============================================================================
