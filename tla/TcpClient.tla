------------------------------- MODULE TcpClient -------------------------------
(***************************************************************************)
(* The life of a TcpClient (tcp_client.cpp) under the buttons of its       *)
(* window (tcp_client_win.cpp): resolve, connect, receive, disconnect,     *)
(* and Apply, which reconnects.  Sending is module Writer.                 *)
(*                                                                         *)
(* The GUI thread runs the button handlers and calls close() on the socket *)
(* itself; the completion handlers run on the strand, one at a time.       *)
(* Every connect() starts a chain of asynchronous operations (resolve,     *)
(* dial an endpoint after another, receive for ever) with one operation    *)
(* outstanding: an attempt.  Nothing ends an attempt when a new one is     *)
(* started, so several may share the socket.                               *)
(***************************************************************************)
EXTENDS Naturals, Sequences

CONSTANTS
    MaxAttempts,    \* bound: calls of connect() in one behaviour
    MaxEndpoints    \* bound: endpoints a name resolves to

ASSUME BoundsAssumption ==
    MaxAttempts \in Nat \ {0} /\ MaxEndpoints \in Nat \ {0}

VARIABLES
    should_run,
    socket,         \* "closed", "open" or "connected"
    attempt,        \* the chain every connect() has started
    calls,          \* calls of connect() so far
    todo,           \* what the button pressed last has yet to do
    reading,        \* the attempt the strand is about to call startRead for, or 0
    disconnected    \* the user's last button was Disconnect

vars == <<should_run, socket, attempt, calls, todo, reading, disconnected>>

Attempts == 1 .. MaxAttempts
Steps == {"setOptions", "isConnected", "disconnect", "close", "connect"}

(* An attempt: the operation it has outstanding, its result once that is     *)
(* complete and its handler queued, and the endpoints left to dial.          *)
Attempt == [at : {"unused", "resolve", "connect", "read", "done"},
            res : {"pending", "ok", "error"},
            left : 0 .. MaxEndpoints]

Waiting(stage, left) == [at |-> stage, res |-> "pending", left |-> left]
Done == [at |-> "done", res |-> "ok", left |-> 0]

Ready(a, stage, res) == attempt[a].at = stage /\ attempt[a].res = res

Init ==
    /\ should_run = TRUE
    /\ socket = "closed"
    /\ attempt = [a \in Attempts |-> Waiting("unused", 0)]
    /\ calls = 0
    /\ todo = <<>>
    /\ reading = 0
    /\ disconnected = FALSE

-------------------------------------------------------------------------------
(* socket_: what closing it and dialling do to the outstanding operations.   *)

(* close() aborts what waits on the socket; it does not reach a resolve, nor *)
(* an operation that is complete and only waits for its handler to run.      *)
Aborted(att) ==
    [a \in Attempts |->
        IF att[a].at \in {"connect", "read"} /\ att[a].res = "pending"
        THEN [att[a] EXCEPT !.res = "error"] ELSE att[a]]

(* async_connect closes the socket, opens it again and dials; n endpoints    *)
(* are left for later.                                                       *)
Dial(a, n) ==
    /\ socket' = "open"
    /\ attempt' = [Aborted(attempt) EXCEPT ![a] = Waiting("connect", n)]

(* disconnect(), called by a handler of attempt a. *)
StrandDisconnect(a) ==
    /\ should_run' = FALSE
    /\ socket' = "closed"
    /\ attempt' = [Aborted(attempt) EXCEPT ![a] = Done]

-------------------------------------------------------------------------------
(* The window: a button puts its calls into todo; the thread then makes them *)
(* one after the other while the strand runs.  A button is not pressed when  *)
(* the attempts left are fewer than it may start.                            *)

PressConnect ==
    /\ todo = <<>>
    /\ socket = "closed"
    /\ calls + 2 <= MaxAttempts
    /\ todo' = <<"setOptions", "isConnected", "connect">>
    /\ disconnected' = FALSE
    /\ UNCHANGED <<should_run, socket, attempt, calls, reading>>

PressApply ==
    /\ todo = <<>>
    /\ calls < MaxAttempts
    /\ todo' = <<"setOptions", "isConnected">>
    /\ disconnected' = FALSE
    /\ UNCHANGED <<should_run, socket, attempt, calls, reading>>

PressDisconnect ==
    /\ todo = <<>>
    /\ socket # "closed"
    /\ todo' = <<"disconnect", "close">>
    /\ disconnected' = TRUE
    /\ UNCHANGED <<should_run, socket, attempt, calls, reading>>

Doing(step) == todo # <<>> /\ Head(todo) = step

(* Impl::setOptions only stores them; isConnected() is the test after it. *)
SetOptions ==
    /\ Doing("setOptions")
    /\ todo' = Tail(todo)
    /\ UNCHANGED <<should_run, socket, attempt, calls, reading, disconnected>>

(* TcpClient::setOptions reconnects an open socket.  Connect asks it too: it *)
(* starts two attempts if an earlier one opens the socket in between.        *)
IsConnected ==
    /\ Doing("isConnected")
    /\ IF socket = "closed"
       THEN todo' = Tail(todo)
       ELSE todo' = <<"disconnect", "close", "connect">> \o Tail(todo)
    /\ UNCHANGED <<should_run, socket, attempt, calls, reading, disconnected>>

Disconnect ==
    /\ Doing("disconnect")
    /\ should_run' = FALSE
    /\ todo' = Tail(todo)
    /\ UNCHANGED <<socket, attempt, calls, reading, disconnected>>

Close ==
    /\ Doing("close")
    /\ socket' = "closed"
    /\ attempt' = Aborted(attempt)
    /\ todo' = Tail(todo)
    /\ UNCHANGED <<should_run, calls, reading, disconnected>>

Connect ==
    /\ Doing("connect")
    /\ calls' = calls + 1
    /\ attempt' = [attempt EXCEPT ![calls + 1] = Waiting("resolve", 0)]
    /\ todo' = Tail(todo)
    /\ UNCHANGED <<should_run, socket, reading, disconnected>>

-------------------------------------------------------------------------------
(* The network: an outstanding operation completes.                          *)

Complete(a, res) == attempt' = [attempt EXCEPT ![a].res = res]

Resolved(a, n) ==
    /\ Ready(a, "resolve", "pending")
    /\ attempt' = [attempt EXCEPT ![a].res = "ok", ![a].left = n]
    /\ UNCHANGED <<should_run, socket, calls, todo, reading, disconnected>>

Connected(a) ==
    /\ Ready(a, "connect", "pending")
    /\ Complete(a, "ok")
    /\ socket' = "connected"
    /\ UNCHANGED <<should_run, calls, todo, reading, disconnected>>

Data(a) ==
    /\ Ready(a, "read", "pending")
    /\ socket = "connected"
    /\ Complete(a, "ok")
    /\ UNCHANGED <<should_run, socket, calls, todo, reading, disconnected>>

(* The name is unknown, the peer refuses, or it has closed the connection. *)
Fails(a) ==
    /\ attempt[a].at \in {"resolve", "connect", "read"}
    /\ attempt[a].res = "pending"
    /\ Complete(a, "error")
    /\ UNCHANGED <<should_run, socket, calls, todo, reading, disconnected>>

-------------------------------------------------------------------------------
(* The strand: the handler of a completed operation, if no other one runs.   *)

OnResolve(a) ==
    /\ reading = 0
    /\ \/ Ready(a, "resolve", "ok") /\ Dial(a, attempt[a].left - 1) /\ UNCHANGED should_run
       \/ Ready(a, "resolve", "error") /\ StrandDisconnect(a)
    /\ UNCHANGED <<calls, todo, reading, disconnected>>

(* A dial is over.  A socket that is closed by now counts as an abort; an    *)
(* error leads to the next endpoint; success is not asked whose socket it is.*)
DialRetried(a) ==    \* mutant of DialAborted: the attempt starts again
    /\ socket = "closed"
    /\ attempt' = [attempt EXCEPT ![a] = Waiting("resolve", 0)]
    /\ UNCHANGED <<should_run, socket, reading>>

DialAborted(a) ==
    /\ socket = "closed"
    /\ StrandDisconnect(a)
    /\ UNCHANGED reading

DialSucceeded(a) ==
    /\ socket # "closed"
    /\ attempt[a].res = "ok"
    /\ reading' = a
    /\ UNCHANGED <<should_run, socket, attempt>>

DialAlways(a) ==    \* mutant of DialFailed: there is always another endpoint
    /\ socket # "closed"
    /\ attempt[a].res = "error"
    /\ Dial(a, attempt[a].left - 1)
    /\ UNCHANGED <<should_run, reading>>

DialFailed(a) ==
    /\ socket # "closed"
    /\ attempt[a].res = "error"
    /\ IF attempt[a].left > 0
       THEN Dial(a, attempt[a].left - 1) /\ UNCHANGED should_run
       ELSE StrandDisconnect(a)
    /\ UNCHANGED reading

OnConnect(a) ==
    /\ reading = 0
    /\ attempt[a].at = "connect"
    /\ attempt[a].res # "pending"
    /\ DialAborted(a) \/ DialSucceeded(a) \/ DialFailed(a)
    /\ UNCHANGED <<calls, todo, disconnected>>

(* async_receive fails at once on a closed socket and, as a stale success    *)
(* may call it on one that is still dialling, may fail on an open one.       *)
StartRead(a) ==
    /\ reading = a
    /\ reading' = 0
    /\ \E res \in {"pending", "error"} :
          /\ socket = "closed" => res = "error"
          /\ socket = "connected" => res = "pending"
          /\ attempt' = [attempt EXCEPT ![a] = [at |-> "read", res |-> res, left |-> 0]]
    /\ UNCHANGED <<should_run, socket, calls, todo, disconnected>>

ReadOnce(a) ==    \* mutant of ReadAgain: the receive is not started again
    attempt' = [attempt EXCEPT ![a] = Done] /\ UNCHANGED reading

ReadAgain(a) ==
    IF should_run
    THEN reading' = a /\ UNCHANGED attempt
    ELSE attempt' = [attempt EXCEPT ![a] = Done] /\ UNCHANGED reading

OnRead(a) ==
    /\ reading = 0
    /\ \/ Ready(a, "read", "ok") /\ ReadAgain(a) /\ UNCHANGED <<should_run, socket>>
       \/ Ready(a, "read", "error") /\ StrandDisconnect(a) /\ UNCHANGED reading
    /\ UNCHANGED <<calls, todo, disconnected>>

-------------------------------------------------------------------------------
Gui ==
    \/ PressConnect
    \/ PressApply
    \/ PressDisconnect
    \/ SetOptions
    \/ IsConnected
    \/ Disconnect
    \/ Close
    \/ Connect

Network(a) ==
    \/ \E n \in 1 .. MaxEndpoints : Resolved(a, n)
    \/ Connected(a)
    \/ Data(a)
    \/ Fails(a)

Strand(a) ==
    \/ OnResolve(a)
    \/ OnConnect(a)
    \/ StartRead(a)
    \/ OnRead(a)

Next == Gui \/ \E a \in Attempts : Network(a) \/ Strand(a)

Spec == Init /\ [][Next]_vars

(* A handler that is queued is run, for the manager's threads never leave    *)
(* the io_context; a started button handler runs to its end; and a resolve   *)
(* or a dial ends, if only by the time-out of the operating system.          *)
Answer(a) ==
    /\ attempt[a].at \in {"resolve", "connect"}
    /\ Network(a)

Fairness ==
    /\ WF_vars(todo # <<>> /\ Gui)
    /\ \A a \in Attempts : WF_vars(Answer(a)) /\ SF_vars(Strand(a))

FairSpec == Spec /\ Fairness

-------------------------------------------------------------------------------
TypeOK ==
    /\ should_run \in BOOLEAN
    /\ socket \in {"closed", "open", "connected"}
    /\ attempt \in [Attempts -> Attempt]
    /\ calls \in 0 .. MaxAttempts
    /\ todo \in Seq(Steps)
    /\ reading \in 0 .. MaxAttempts
    /\ disconnected \in BOOLEAN

(* A client that is connected and has never disconnected hears its peer: a   *)
(* receive is outstanding, or the strand has a handler to run that starts    *)
(* one or disconnects.  No order of the handlers of overlapping connects and *)
(* of the buttons leaves it connected and deaf (startRead, handleRead).      *)
NeverDeafWhileRunning ==
    socket = "connected" /\ should_run =>
        \/ reading # 0
        \/ \E a \in Attempts : \/ attempt[a].at = "read"
                               \/ attempt[a].at = "connect" /\ attempt[a].res # "pending"

(* The attempts whose name is being resolved, which no disconnect reaches.   *)
Resolving == {a \in Attempts : attempt[a].at = "resolve"}

(* A closed socket is opened again only by the answer to a resolve, late or  *)
(* not, and that uses the resolve up; and only connect() starts one.  So the *)
(* handlers of aborted dials and of queued successes never bring a closed    *)
(* connection back to life, and a disconnect() that meets a resolve is       *)
(* undone once by every resolve it meets, and by nothing else (connect,      *)
(* handleConnect).                                                           *)
ClosedStaysClosed ==
    [][/\ socket = "closed" /\ socket' # "closed" => Resolving \ Resolving' # {}
       /\ calls' = calls => Resolving' \subseteq Resolving]_vars

(* Every connect() comes to an end or to a receive: through any number of    *)
(* refused endpoints and of other attempts and disconnects in between.       *)
AttemptSettles ==
    \A a \in Attempts :
        attempt[a].at = "resolve" ~> attempt[a].at \in {"read", "done"}

(* A connected client works: unless a disconnect is under way or asked for,  *)
(* should_run_ lets doWrite send and handleRead receive again.               *)
WorksWhenConnected ==
    socket = "connected" /\ todo = <<>> /\ ~disconnected => should_run
===============================================================================
