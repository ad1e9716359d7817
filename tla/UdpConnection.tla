----------------------------- MODULE UdpConnection -----------------------------
(***************************************************************************)
(* A UdpConnection (udp_connection.cpp) under the buttons of its window    *)
(* (udp_con_win.cpp): receiving is started and stopped, options are        *)
(* applied, datagrams are sent.  The buttons run on the GUI thread, the    *)
(* receive handler on the strand.  Of the sending side only what the       *)
(* socket does to it is here: whether the path is free, busy, or stuck     *)
(* because its handler was called with an error (module Writer).           *)
(***************************************************************************)
EXTENDS Naturals, Sequences

VARIABLES
    listens,          \* opts_.listen_protocol is not none
    should_receive,
    socket,           \* "closed", "open" (bind has failed) or "bound"
    read,             \* the receive: "none", "pending", or the result of a
                      \* completed one, "data" or "failed"
    strand,           \* "idle", or what the handler that runs does next
    todo,             \* what the button pressed last has yet to do
    write             \* "free", "busy" or "stuck"

vars == <<listens, should_receive, socket, read, strand, todo, write>>

Init ==
    /\ listens \in BOOLEAN      \* opts_ is not initialised
    /\ should_receive = FALSE
    /\ socket = "closed"
    /\ read = "none"
    /\ strand = "idle"
    /\ todo = <<>>
    /\ write = "free"

-------------------------------------------------------------------------------
(* The GUI thread.                                                           *)

DisconnectCalls == <<"unflag", "cancel">>

(* startReceive() returns at once if the protocol is none. *)
StartCalls(protocol) == IF protocol THEN <<"flag", "open">> ELSE <<>>

(* setReceiving(!isReceiving()). *)
PressReceiving ==
    /\ todo = <<>>
    /\ todo' = IF should_receive THEN DisconnectCalls ELSE StartCalls(listens)
    /\ UNCHANGED <<listens, should_receive, socket, read, strand, write>>

(* setOptions(): a connection that receives is stopped and started. *)
PressApply(protocol) ==
    /\ todo = <<>>
    /\ listens' = protocol
    /\ todo' = IF should_receive THEN DisconnectCalls \o StartCalls(protocol) ELSE <<>>
    /\ UNCHANGED <<should_receive, socket, read, strand, write>>

Doing(step) == todo # <<>> /\ Head(todo) = step

SetFlag ==
    /\ \/ Doing("flag") /\ should_receive' = TRUE
       \/ Doing("unflag") /\ should_receive' = FALSE
    /\ todo' = Tail(todo)
    /\ UNCHANGED <<listens, socket, read, strand, write>>

(* cancel() aborts the receive and the send that are outstanding; a send     *)
(* that completes with an error leaves write_in_progress_ set for ever.      *)
Cancelled ==
    /\ read' = IF read = "pending" THEN "failed" ELSE read
    /\ write' = IF write = "busy" THEN "stuck" ELSE write

Cancel ==
    /\ Doing("cancel")
    /\ Cancelled
    /\ todo' = Tail(todo)
    /\ UNCHANGED <<listens, should_receive, socket, strand>>

(* open() throws on a socket that is open already, bind() on an address that *)
(* is taken; the socket stays as it is.                                      *)
Open ==
    /\ Doing("open")
    /\ \/ /\ socket = "closed"
          /\ socket' = "bound"
          /\ todo' = <<"read">>
          /\ UNCHANGED should_receive
       \/ /\ IF socket = "closed" THEN socket' \in {"closed", "open"} ELSE UNCHANGED socket
          /\ should_receive' = FALSE
          /\ todo' = <<>>
    /\ UNCHANGED <<listens, read, strand, write>>

StartRead ==
    /\ Doing("read")
    /\ read' = "pending"
    /\ todo' = Tail(todo)
    /\ UNCHANGED <<listens, should_receive, socket, strand, write>>

(* The console sends a datagram: a socket that was never opened refuses it.  *)
Send ==
    /\ todo = <<>>
    /\ write = "free"
    /\ write' = IF socket = "closed" THEN "stuck" ELSE "busy"
    /\ UNCHANGED <<listens, should_receive, socket, read, strand, todo>>

-------------------------------------------------------------------------------
(* The network, and the strand.                                              *)

Sent ==
    /\ write = "busy"
    /\ write' \in {"free", "stuck"}
    /\ UNCHANGED <<listens, should_receive, socket, read, strand, todo>>

ReadEnds ==
    /\ read = "pending"
    /\ read' \in {"data", "failed"}
    /\ UNCHANGED <<listens, should_receive, socket, strand, todo, write>>

(* Mutant of HandleRead: the receive is not started again. *)
HandleReadOnce ==
    /\ strand = "idle"
    /\ \/ read = "data" /\ UNCHANGED <<strand, should_receive>>
       \/ read = "failed" /\ strand' = "cancel" /\ should_receive' = FALSE
    /\ read' = "none"
    /\ UNCHANGED <<listens, socket, todo, write>>

(* Mutant of HandleRead: should_receive_ is not looked at. *)
HandleReadAlways ==
    /\ strand = "idle"
    /\ \/ read = "data" /\ strand' = "read" /\ UNCHANGED should_receive
       \/ read = "failed" /\ strand' = "cancel" /\ should_receive' = FALSE
    /\ read' = "none"
    /\ UNCHANGED <<listens, socket, todo, write>>

HandleRead ==
    /\ strand = "idle"
    /\ \/ /\ read = "data"
          /\ strand' = IF should_receive THEN "read" ELSE "idle"
          /\ UNCHANGED should_receive
       \/ /\ read = "failed"
          /\ strand' = "cancel"
          /\ should_receive' = FALSE
    /\ read' = "none"
    /\ UNCHANGED <<listens, socket, todo, write>>

ReadAgain ==
    /\ strand = "read"
    /\ read' = "pending"
    /\ strand' = "idle"
    /\ UNCHANGED <<listens, should_receive, socket, todo, write>>

StrandCancel ==
    /\ strand = "cancel"
    /\ Cancelled
    /\ strand' = "idle"
    /\ UNCHANGED <<listens, should_receive, socket, todo>>

-------------------------------------------------------------------------------
Gui ==
    \/ PressReceiving
    \/ \E protocol \in BOOLEAN : PressApply(protocol)
    \/ SetFlag
    \/ Cancel
    \/ Open
    \/ StartRead
    \/ Send

Strand == HandleRead \/ ReadAgain \/ StrandCancel

Next == Gui \/ Sent \/ ReadEnds \/ Strand

Spec == Init /\ [][Next]_vars

-------------------------------------------------------------------------------
TypeOK ==
    /\ {listens, should_receive} \subseteq BOOLEAN
    /\ socket \in {"closed", "open", "bound"}
    /\ read \in {"none", "pending", "data", "failed"}
    /\ strand \in {"idle", "read", "cancel"}
    /\ todo \in Seq({"flag", "unflag", "cancel", "open", "read"})
    /\ write \in {"free", "busy", "stuck"}
    /\ read # "none" => socket = "bound"

(* What the window shows is true: between buttons, a connection that says it *)
(* receives is bound, and has a receive outstanding or a handler to run that *)
(* starts one or clears the flag.  No late handler of a stopped receive and  *)
(* no exception of open() or bind() leaves it deaf (startReceive,            *)
(* handleRead).                                                              *)
ReceivingIsArmed ==
    should_receive /\ todo = <<>> => socket = "bound" /\ (read # "none" \/ strand = "read")

(* A connection that is stopped starts no receive by itself, except for the  *)
(* handler that was already behind its test of should_receive_ when the flag *)
(* was cleared: it starts one, after the cancel of the stop if it is late,   *)
(* and no handler follows it there.  So a stop is followed by one receive at *)
(* most until a button is pressed (handleRead, disconnect).                  *)
Stopped == ~should_receive /\ todo = <<>>

SilentStaysSilent ==
    [][Stopped /\ todo' = todo =>
         /\ ~should_receive'
         /\ strand' = "read" => strand = "read"
         /\ read' = "pending" /\ read # "pending" => strand = "read" /\ strand' # "read"]_vars
===============================================================================
