------------------------------- MODULE TcpServer -------------------------------
(***************************************************************************)
(* The TCP server (tcp_server.cpp): the acceptor, the manager's set of     *)
(* connections and the receive loop of every client, under the buttons of  *)
(* the server's window (tcp_server_win.cpp).                               *)
(*                                                                         *)
(* The GUI thread runs start() and stop(), stopAll's loop over the set     *)
(* included; the accept handlers and the receive handlers of all clients   *)
(* run on the server's one strand.  Nothing locks the set: a loop of the   *)
(* GUI thread meets insertions and removals of the strand half way.  The   *)
(* model takes an insertion, a removal and a step of the loop as atomic.   *)
(***************************************************************************)
EXTENDS Naturals, Sequences

CONSTANTS
    MaxStarts,    \* bound: calls of start() in one behaviour
    MaxClients    \* bound: connections the system accepts

ASSUME BoundsAssumption == MaxStarts \in Nat \ {0} /\ MaxClients \in Nat \ {0}

VARIABLES
    acceptor,       \* "closed", "unbound" (open, but bind failed) or "listening"
    loop,           \* the accept loop every start() has begun
    starts,         \* accept loops so far
    client,         \* the accepted connections
    accepted,       \* their number
    connections,    \* the manager's set
    lost,           \* an accept has failed since the acceptor listens
    strand,         \* what the handler that runs has still to do
    todo,           \* what the GUI thread has still to do
    sweep,          \* stopAll: clients its loop has not reached
    closing,        \* stopAll: the client whose flag it has cleared, or 0
    overtaken,      \* history: a stop has met a running accept handler
    consoles,       \* client_wins_: the clients that have a console
    orphans         \* history: consoles whose client has left the set unseen

wins == <<consoles, orphans>>
vars == <<acceptor, loop, starts, client, accepted, connections, lost, strand,
          todo, sweep, closing, overtaken, wins>>

serverVars == <<acceptor, loop, starts, client, accepted, connections, lost>>
guiVars == <<todo, sweep, closing, overtaken, wins>>

Clients == 1 .. MaxClients
Loops == 1 .. MaxStarts

Client == [socket : {"none", "open", "closed"},
           do_run : BOOLEAN,
           read : {"none", "pending", "data", "failed", "aborted"}]

(* An accept loop has one async_accept outstanding, or its handler queued    *)
(* with the accepted client, or it is over.                                  *)
Loop == [accept : {"over", "pending", "ok", "failed", "aborted"},
         client : 0 .. MaxClients]

Idle == [at |-> "idle", client |-> 0, loop |-> 0]
Goto(where) == strand' = [strand EXCEPT !.at = where]
StrandIdle == strand.at = "idle"

Init ==
    /\ acceptor = "closed"
    /\ loop = [i \in Loops |-> [accept |-> "over", client |-> 0]]
    /\ starts = 0
    /\ client = [c \in Clients |-> [socket |-> "none", do_run |-> TRUE, read |-> "none"]]
    /\ accepted = 0
    /\ connections = {}
    /\ lost = FALSE
    /\ strand = Idle
    /\ todo = <<>>
    /\ sweep = {}
    /\ closing = 0
    /\ overtaken = FALSE
    /\ consoles = {}
    /\ orphans = {}

-------------------------------------------------------------------------------
(* The window's buttons.  setOptions restarts a server that runs, so that    *)
(* Apply on one and Start on a closed one come to the same calls.            *)

StopCalls == <<"close", "stopAll", "sweep", "clear">>
StartCalls == StopCalls \o <<"open", "startAccept">>

PressStart ==
    /\ todo = <<>>
    /\ starts < MaxStarts
    /\ todo' = StartCalls
    /\ UNCHANGED <<serverVars, strand, sweep, closing, overtaken, wins>>

PressStop ==
    /\ todo = <<>>
    /\ acceptor # "closed"
    /\ todo' = StopCalls
    /\ UNCHANGED <<serverVars, strand, sweep, closing, overtaken, wins>>

Doing(step) == todo # <<>> /\ Head(todo) = step

(* Impl::stop(): closing aborts the accept that is outstanding. *)
CloseAcceptor ==
    /\ Doing("close")
    /\ acceptor' = "closed"
    /\ loop' = [i \in Loops |-> IF loop[i].accept = "pending"
                                THEN [loop[i] EXCEPT !.accept = "aborted"] ELSE loop[i]]
    /\ todo' = Tail(todo)
    /\ overtaken' = (overtaken \/ strand.loop # 0)
    /\ UNCHANGED <<starts, client, accepted, connections, lost, strand, sweep,
                   closing, wins>>

(* TcpServerManager::stopAll(). *)
StopAll ==
    /\ Doing("stopAll")
    /\ sweep' = connections
    /\ todo' = Tail(todo)
    /\ UNCHANGED <<serverVars, strand, closing, overtaken, wins>>

SweepFlag(c) ==
    /\ Doing("sweep")
    /\ closing = 0
    /\ c \in sweep
    /\ client' = [client EXCEPT ![c].do_run = FALSE]
    /\ closing' = c
    /\ sweep' = sweep \ {c}
    /\ UNCHANGED <<acceptor, loop, starts, accepted, connections, lost, strand,
                   todo, overtaken, wins>>

ClosedClient(cl) ==
    [cl EXCEPT !.socket = "closed", !.read = IF @ = "pending" THEN "aborted" ELSE @]

SweepClose ==
    /\ closing # 0
    /\ client' = [client EXCEPT ![closing] = ClosedClient(@)]
    /\ closing' = 0
    /\ UNCHANGED <<acceptor, loop, starts, accepted, connections, lost, strand,
                   todo, sweep, overtaken, wins>>

SweepEnd ==
    /\ Doing("sweep")
    /\ closing = 0
    /\ sweep = {}
    /\ todo' = Tail(todo)
    /\ UNCHANGED <<serverVars, strand, sweep, closing, overtaken, wins>>

Clear ==
    /\ Doing("clear")
    /\ connections' = {}
    /\ orphans' = orphans \cup (consoles \cap connections)
    /\ todo' = Tail(todo)
    /\ UNCHANGED <<acceptor, loop, starts, client, accepted, lost, strand, sweep,
                   closing, overtaken, consoles>>

(* start(), once stop() has returned: no protocol is chosen, the address is  *)
(* taken, or the acceptor listens.                                           *)
Open ==
    /\ Doing("open")
    /\ \/ /\ acceptor' \in {"closed", "unbound"}
          /\ todo' = Tail(Tail(todo))
          /\ UNCHANGED lost
       \/ /\ acceptor' = "listening"
          /\ todo' = Tail(todo)
          /\ lost' = FALSE
    /\ UNCHANGED <<loop, starts, client, accepted, connections, strand, sweep,
                   closing, overtaken, wins>>

StartAccept ==
    /\ Doing("startAccept")
    /\ starts' = starts + 1
    /\ loop' = [loop EXCEPT ![starts + 1].accept = "pending"]
    /\ todo' = Tail(todo)
    /\ UNCHANGED <<acceptor, client, accepted, connections, lost, strand, sweep,
                   closing, overtaken, wins>>

(* The box "Console" of a client that eachClient() finds in the set.  A box  *)
(* that is checked while the client is removed comes too late for the        *)
(* handler of the signal.                                                    *)
ToggleConsole(c) ==
    /\ todo = <<>>
    /\ c \in connections
    /\ \/ /\ c \notin consoles
          /\ consoles' = consoles \cup {c}
          /\ orphans' = IF strand.at = "erase" /\ strand.client = c
                        THEN orphans \cup {c} ELSE orphans
       \/ /\ c \in consoles
          /\ consoles' = consoles \ {c}
          /\ orphans' = orphans \ {c}
    /\ UNCHANGED <<serverVars, strand, todo, sweep, closing, overtaken>>

-------------------------------------------------------------------------------
(* The network.                                                              *)

Accepted(i) ==
    /\ loop[i].accept = "pending"
    /\ accepted < MaxClients
    /\ accepted' = accepted + 1
    /\ loop' = [loop EXCEPT ![i] = [accept |-> "ok", client |-> accepted + 1]]
    /\ client' = [client EXCEPT ![accepted + 1].socket = "open"]
    /\ UNCHANGED <<acceptor, starts, connections, lost, strand, todo, sweep,
                   closing, overtaken, wins>>

AcceptFails(i) ==
    /\ loop[i].accept = "pending"
    /\ loop' = [loop EXCEPT ![i].accept = "failed"]
    /\ UNCHANGED <<acceptor, starts, client, accepted, connections, lost, strand,
                   todo, sweep, closing, overtaken, wins>>

(* A receive is answered with data, or ends because the peer has gone. *)
ReadEnds(c) ==
    /\ client[c].read = "pending"
    /\ \E res \in {"data", "failed"} : client' = [client EXCEPT ![c].read = res]
    /\ UNCHANGED <<acceptor, loop, starts, accepted, connections, lost, strand,
                   todo, sweep, closing, overtaken, wins>>

-------------------------------------------------------------------------------
(* The accept handler: it does nothing if the acceptor is closed (the        *)
(* accepted socket is destroyed), starts the client, and accepts again.      *)

AcceptDropped(i) ==
    /\ acceptor = "closed"
    /\ loop' = [loop EXCEPT ![i] = [accept |-> "over", client |-> 0]]
    /\ client' = IF loop[i].accept = "ok"
                 THEN [client EXCEPT ![loop[i].client].socket = "closed"] ELSE client
    /\ UNCHANGED <<lost, strand>>

AcceptAnyway(i) ==    \* mutant of AcceptRefused: the error is not looked at
    /\ acceptor # "closed"
    /\ loop' = [loop EXCEPT ![i] = [accept |-> "over", client |-> 0]]
    /\ strand' = [at |-> "insert", client |-> loop[i].client, loop |-> i]
    /\ UNCHANGED <<client, lost>>

AcceptRefused(i) ==
    /\ acceptor # "closed"
    /\ loop[i].accept # "ok"
    /\ loop' = [loop EXCEPT ![i].accept = "over"]
    /\ lost' = (lost \/ loop[i].accept = "failed")
    /\ UNCHANGED <<client, strand>>

AcceptTakenAlways(i) ==    \* mutant of AcceptTaken: is_open() is not asked
    /\ loop[i].accept = "ok"
    /\ loop' = [loop EXCEPT ![i] = [accept |-> "over", client |-> 0]]
    /\ strand' = [at |-> "insert", client |-> loop[i].client, loop |-> i]
    /\ UNCHANGED <<client, lost>>

AcceptTaken(i) ==
    /\ acceptor # "closed"
    /\ loop[i].accept = "ok"
    /\ loop' = [loop EXCEPT ![i] = [accept |-> "over", client |-> 0]]
    /\ strand' = [at |-> "insert", client |-> loop[i].client, loop |-> i]
    /\ UNCHANGED <<client, lost>>

OnAccept(i) ==
    /\ StrandIdle
    /\ loop[i].accept \in {"ok", "failed", "aborted"}
    /\ AcceptDropped(i) \/ AcceptRefused(i) \/ AcceptTaken(i)
    /\ UNCHANGED <<acceptor, starts, accepted, connections, guiVars>>

(* TcpServerManager::start(): an insertion while stopAll loops over the set  *)
(* is met by the loop or not.                                                *)
Insert ==
    /\ strand.at = "insert"
    /\ connections' = connections \cup {strand.client}
    /\ \/ UNCHANGED sweep
       \/ Doing("sweep") /\ sweep' = sweep \cup {strand.client}
    /\ Goto("start")
    /\ UNCHANGED <<acceptor, loop, starts, client, accepted, lost, todo, closing,
                   overtaken, wins>>

StartClient ==
    /\ strand.at = "start"
    /\ client' = [client EXCEPT ![strand.client].do_run = TRUE]
    /\ Goto("read")
    /\ UNCHANGED <<acceptor, loop, starts, accepted, connections, lost,
                   guiVars>>

(* TcpServerClient::startRead(): async_receive on a closed socket fails with *)
(* an error that is not operation_aborted.                                   *)
StartRead ==
    /\ strand.at = "read"
    /\ client' = [client EXCEPT ![strand.client].read =
                     IF client[strand.client].socket = "open" THEN "pending" ELSE "failed"]
    /\ strand' = IF strand.loop = 0 THEN Idle ELSE [strand EXCEPT !.at = "rearm"]
    /\ UNCHANGED <<acceptor, loop, starts, accepted, connections, lost,
                   guiVars>>

(* Mutant of Rearm: the server accepts a single client. *)
RearmNot ==
    /\ strand.at = "rearm"
    /\ strand' = Idle
    /\ UNCHANGED <<serverVars, guiVars>>

(* startAccept() of the handler: it fails if the acceptor does not listen,   *)
(* and joins the new acceptor if the server was restarted meanwhile.         *)
Rearm ==
    /\ strand.at = "rearm"
    /\ loop' = [loop EXCEPT ![strand.loop].accept =
                   IF acceptor = "listening" THEN "pending" ELSE "failed"]
    /\ strand' = Idle
    /\ UNCHANGED <<acceptor, starts, client, accepted, connections, lost,
                   guiVars>>

-------------------------------------------------------------------------------
(* The receive handler of a client.                                          *)

ReadOnce(c) ==    \* mutant of ReadAgain: the receive is not started again
    client[c].read = "data" /\ UNCHANGED strand

ReadAgain(c) ==
    /\ client[c].read = "data"
    /\ client[c].do_run
    /\ strand' = [at |-> "read", client |-> c, loop |-> 0]

ReadOver(c) ==
    /\ \/ client[c].read \in {"data", "failed"} /\ ~client[c].do_run
       \/ client[c].read = "aborted"
    /\ UNCHANGED strand

PeerForgotten(c) ==    \* mutant of PeerGone: the end is taken for an abort
    client[c].read = "failed" /\ UNCHANGED strand

PeerGone(c) ==
    /\ client[c].read = "failed"
    /\ client[c].do_run
    /\ strand' = [at |-> "stop", client |-> c, loop |-> 0]

OnRead(c) ==
    /\ StrandIdle
    /\ ReadAgain(c) \/ ReadOver(c) \/ PeerGone(c)
    /\ client' = [client EXCEPT ![c].read = "none"]
    /\ UNCHANGED <<acceptor, loop, starts, accepted, connections, lost,
                   guiVars>>

(* TcpServerManager::stop(): the client is stopped, the signal sent, on      *)
(* which the window gives up the console of the client, and the client       *)
(* removed from the set, and from what a loop over the set has left.         *)
StopClient ==
    /\ strand.at = "stop"
    /\ client' = [client EXCEPT ![strand.client] = [ClosedClient(@) EXCEPT !.do_run = FALSE]]
    /\ Goto("tell")
    /\ UNCHANGED <<acceptor, loop, starts, accepted, connections, lost,
                   guiVars>>

(* Mutant of TellWindow: the signal is not sent. *)
TellNobody ==
    /\ strand.at = "tell"
    /\ Goto("erase")
    /\ UNCHANGED <<serverVars, guiVars>>

TellWindow ==
    /\ strand.at = "tell"
    /\ consoles' = consoles \ {strand.client}
    /\ orphans' = orphans \ {strand.client}
    /\ Goto("erase")
    /\ UNCHANGED <<serverVars, todo, sweep, closing, overtaken>>

Erase ==
    /\ strand.at = "erase"
    /\ connections' = connections \ {strand.client}
    /\ sweep' = sweep \ {strand.client}
    /\ strand' = Idle
    /\ UNCHANGED <<acceptor, loop, starts, client, accepted, lost, todo, closing,
                   overtaken, wins>>

-------------------------------------------------------------------------------
Gui ==
    \/ PressStart
    \/ PressStop
    \/ CloseAcceptor
    \/ StopAll
    \/ \E c \in Clients : SweepFlag(c)
    \/ SweepClose
    \/ SweepEnd
    \/ Clear
    \/ Open
    \/ StartAccept

User == \E c \in Clients : ToggleConsole(c)

Network ==
    \/ \E i \in Loops : Accepted(i) \/ AcceptFails(i)
    \/ \E c \in Clients : ReadEnds(c)

HandlerStep ==
    \/ Insert
    \/ StartClient
    \/ StartRead
    \/ Rearm
    \/ StopClient
    \/ TellWindow
    \/ Erase

Strand ==
    \/ \E i \in Loops : OnAccept(i)
    \/ \E c \in Clients : OnRead(c)
    \/ HandlerStep

Next == Gui \/ User \/ Network \/ Strand

Spec == Init /\ [][Next]_vars

(* The GUI thread finishes what a button began, a handler that has begun     *)
(* runs to its end, and every queued handler is run some time.               *)
Fairness ==
    /\ WF_vars(todo # <<>> /\ Gui)
    /\ WF_vars(HandlerStep)
    /\ \A c \in Clients : SF_vars(OnRead(c))
    /\ \A i \in Loops : SF_vars(OnAccept(i))

FairSpec == Spec /\ Fairness

-------------------------------------------------------------------------------
TypeOK ==
    /\ acceptor \in {"closed", "unbound", "listening"}
    /\ loop \in [Loops -> Loop]
    /\ starts \in 0 .. MaxStarts
    /\ client \in [Clients -> Client]
    /\ accepted \in 0 .. MaxClients
    /\ connections \subseteq 1 .. accepted
    /\ lost \in BOOLEAN
    /\ strand \in [at : {"idle", "insert", "start", "read", "rearm", "stop", "tell",
                          "erase"},
                   client : 0 .. MaxClients, loop : 0 .. MaxStarts]
    /\ todo \in Seq({"close", "stopAll", "sweep", "clear", "open", "startAccept"})
    /\ sweep \subseteq 1 .. accepted
    /\ closing \in 0 .. MaxClients
    /\ overtaken \in BOOLEAN
    /\ consoles \cup orphans \subseteq Clients

Handled(c) == strand.at # "idle" /\ strand.client = c

(* No client is deaf: one that is started, told to run and has its socket    *)
(* open has a receive outstanding or a handler on the way that starts one or *)
(* stops it, whatever stop and restart do meanwhile.                         *)
NoDeafClient ==
    \A c \in Clients :
        client[c].socket = "open" /\ client[c].do_run =>
            \/ client[c].read # "none"
            \/ Handled(c)
            \/ \E i \in Loops : loop[i].accept = "ok" /\ loop[i].client = c

(* A server that listens accepts: unless an accept has failed since, one is  *)
(* outstanding, or the GUI thread or a handler is about to start one.        *)
(* Handlers of the accepts of an earlier start() do not end the new loop.    *)
ListeningAccepts ==
    acceptor = "listening" /\ ~lost =>
        \/ \E i \in Loops : loop[i].accept \in {"pending", "ok", "failed"}
        \/ Doing("startAccept")
        \/ strand.loop # 0

(* A console belongs to a client in the set, since its "send" and its key    *)
(* are bare pointers: unless stopAll(), which sends no signal, has emptied   *)
(* the set under it, or it was opened between the signal and the removal     *)
(* (TcpServerWin, TcpServerManager::stop).                                   *)
ConsolesHaveClients == consoles \ orphans \subseteq connections

(* A client whose peer has gone leaves the set, through its own handler or   *)
(* through the stop that overtakes it.                                       *)
LostClientRemoved ==
    \A c \in Clients :
        c \in connections /\ client[c].read = "failed" ~> c \notin connections

(* Nothing is under way: no button, no handler, no accept. *)
Quiet ==
    /\ todo = <<>>
    /\ StrandIdle
    /\ \A i \in Loops : loop[i].accept = "over"

(* A stop is thorough: unless one has met an accept handler between its test *)
(* of is_open() and its end, a server at rest has every open connection in   *)
(* the set, where the window counts it and sendToAll() finds it, and none at *)
(* all once the acceptor is closed.  Accepts that complete while stop runs,  *)
(* restarts, and removals that race the loop of stopAll do not break this.   *)
StopIsThorough ==
    Quiet /\ ~overtaken =>
        /\ \A c \in Clients : client[c].socket = "open" => c \in connections
        /\ acceptor = "closed" => connections = {}
===============================================================================
