------------------------------- MODULE LuaPlugin -------------------------------
(***************************************************************************)
(* A plugin written in Lua (lua_plugin.cpp): the GUI thread loads it and   *)
(* draws it, its connections call it back.  One Lua state serves both, so  *)
(* callbacks are posted to a strand (guard_.strand), and drawing and       *)
(* callbacks take a mutex (guard_.state_mtx_); loading does not.  The      *)
(* script is free to send requests and to fill the buffer of a plot        *)
(* (ScrollingBuffer, lua_gui_bindings.cpp) wherever it runs.               *)
(***************************************************************************)
EXTENDS Naturals, Sequences

CONSTANTS
    MaxSize,         \* the points the buffer of the plot holds
    Points,          \* the values of the points
    MaxPosted,       \* bound: the handlers in the queue of the strand
    MaxRequests      \* bound: the unanswered requests that are counted

ASSUME MaxSizeAssumption == MaxSize \in Nat \ {0}
ASSUME BoundsAssumption == MaxPosted \in Nat /\ MaxRequests \in Nat

Threads == {"gui", "strand"}

VARIABLES
    pc,              \* the GUI thread: "none", "script", "connections", "setup",
                     \* "frame", "draw"; or "ended", when the program is
    hasAction, hasReceive,   \* the plugin has an action, has an onReceive
    selected,        \* current_ is the plugin
    serialOpen,      \* the user has opened its serial port
    mutex,           \* guard_.state_mtx_: "free", or the thread that holds it
    posted,          \* the handlers queued on guard_.strand
    strand,          \* "idle", "put", "lock" or "lua"
    requests,        \* the requests the CoAP client has not been answered
    Data, Offset,    \* the ScrollingBuffer
    half,            \* the threads between the two assignments of AddPoint
    latest,          \* history: the points to be shown, the oldest first
    early            \* history: setup() has sent a request

buffer == <<Data, Offset, half, latest>>
plugin == <<hasAction, hasReceive, selected, serialOpen>>
vars == <<pc, plugin, mutex, posted, strand, requests, buffer, early>>

Init ==
    /\ pc = "none"
    /\ hasAction \in BOOLEAN /\ hasReceive \in BOOLEAN
    /\ selected = FALSE
    /\ serialOpen = FALSE
    /\ mutex = "free"
    /\ posted = <<>>
    /\ strand = "idle"
    /\ requests = 0
    /\ Data = <<>>
    /\ Offset = 0
    /\ half = {}
    /\ latest = <<>>
    /\ early = FALSE

InLua ==
    (IF pc \in {"script", "setup", "draw"} THEN {"gui"} ELSE {})
        \cup (IF strand = "lua" THEN {"strand"} ELSE {})

(* A thread that may call the next function, or return from Lua. *)
AtCall(thread) == thread \in InLua \ half

-------------------------------------------------------------------------------
(* What the script does, on the thread it is run by.                         *)

(* Mutant of AddPoint: the offset runs past the end of the data. *)
AddPointPastTheEnd(thread, p) ==
    /\ \/ /\ AtCall(thread)
          /\ IF Len(Data) < MaxSize
             THEN /\ Data' = Append(Data, p)
                  /\ latest' = Append(latest, p)
                  /\ UNCHANGED half
             ELSE /\ Data' = [Data EXCEPT ![Offset + 1] = p]
                  /\ latest' = Append(Tail(latest), p)
                  /\ half' = half \cup {thread}
          /\ UNCHANGED Offset
       \/ /\ thread \in half
          /\ Offset' = Offset + 1
          /\ half' = half \ {thread}
          /\ UNCHANGED <<Data, latest>>
    /\ UNCHANGED <<pc, plugin, mutex, posted, strand, requests, early>>

(* ScrollingBuffer::AddPoint: a full buffer is overwritten at Offset, which  *)
(* moves on afterwards.                                                      *)
AddPoint(thread, p) ==
    /\ \/ /\ AtCall(thread)
          /\ IF Len(Data) < MaxSize
             THEN /\ Data' = Append(Data, p)
                  /\ latest' = Append(latest, p)
                  /\ UNCHANGED half
             ELSE /\ Data' = [Data EXCEPT ![Offset + 1] = p]
                  /\ latest' = Append(Tail(latest), p)
                  /\ half' = half \cup {thread}
          /\ UNCHANGED Offset
       \/ /\ thread \in half
          /\ Offset' = (Offset + 1) % MaxSize
          /\ half' = half \ {thread}
          /\ UNCHANGED <<Data, latest>>
    /\ UNCHANGED <<pc, plugin, mutex, posted, strand, requests, early>>

(* Mutant of Erase: the offset stays. *)
EraseData(thread) ==
    /\ AtCall(thread)
    /\ Data # <<>>
    /\ Data' = <<>>
    /\ latest' = <<>>
    /\ UNCHANGED <<Offset, half>>
    /\ UNCHANGED <<pc, plugin, mutex, posted, strand, requests, early>>

Erase(thread) ==
    /\ AtCall(thread)
    /\ Data # <<>>
    /\ Data' = <<>>
    /\ Offset' = 0
    /\ latest' = <<>>
    /\ UNCHANGED half
    /\ UNCHANGED <<pc, plugin, mutex, posted, strand, requests, early>>

(* put() of a client, which the script has once its connections are set up.  *)
Put(thread) ==
    /\ AtCall(thread)
    /\ pc # "script"
    /\ Len(posted) < MaxPosted
    /\ posted' = Append(posted, "put")
    /\ early' = (early \/ (thread = "gui" /\ pc = "setup"))
    /\ UNCHANGED <<pc, plugin, mutex, strand, requests, buffer>>

(* An error in the script is an exception that nobody catches.               *)
ScriptError(thread) ==
    /\ AtCall(thread)
    /\ pc' = "ended"
    /\ UNCHANGED <<plugin, mutex, posted, strand, requests, buffer, early>>

-------------------------------------------------------------------------------
(* The GUI thread: loading, and the frames.                                  *)

(* "Load lua" (plugin_manager_win.cpp), the constructor of LuaPlugin, and    *)
(* the windows that are made for the connections.                            *)
LoadSteps == [none |-> "script", script |-> "connections",
              connections |-> "setup", setup |-> "frame"]

Load ==
    /\ pc \in DOMAIN LoadSteps
    /\ "gui" \notin half
    /\ pc' = LoadSteps[pc]
    /\ UNCHANGED <<plugin, mutex, posted, strand, requests, buffer, early>>

Select ==
    /\ pc = "frame"
    /\ selected' = TRUE
    /\ UNCHANGED <<pc, hasAction, hasReceive, serialOpen>>
    /\ UNCHANGED <<mutex, posted, strand, requests, buffer, early>>

(* The settings of the serial window.                                        *)
OpenClosePort ==
    /\ pc = "frame"
    /\ serialOpen' = ~serialOpen
    /\ UNCHANGED <<pc, hasAction, hasReceive, selected>>
    /\ UNCHANGED <<mutex, posted, strand, requests, buffer, early>>

(* The buttons of the CoAP window, whose client is the plugin's: a response  *)
(* to them calls the plugin too.                                             *)
PressRequest ==
    /\ pc = "frame"
    /\ requests' = IF requests < MaxRequests THEN requests + 1 ELSE requests
    /\ UNCHANGED <<pc, plugin, mutex, posted, strand, buffer, early>>

(* Mutant of DrawGui: the mutex is not taken. *)
DrawGuiUnlocked ==
    /\ pc = "frame" /\ selected
    /\ pc' = IF hasAction THEN "draw" ELSE "ended"
    /\ UNCHANGED <<plugin, mutex, posted, strand, requests, buffer, early>>

(* The first action of the selected plugin is drawn; there may be none.      *)
DrawGui ==
    /\ pc = "frame" /\ selected
    /\ \/ /\ hasAction /\ mutex = "free"
          /\ pc' = "draw"
          /\ mutex' = "gui"
       \/ /\ ~hasAction
          /\ pc' = "ended"
          /\ UNCHANGED mutex
    /\ UNCHANGED <<plugin, posted, strand, requests, buffer, early>>

Drawn ==
    /\ pc = "draw"
    /\ AtCall("gui")
    /\ pc' = "frame"
    /\ mutex' = "free"
    /\ UNCHANGED <<plugin, posted, strand, requests, buffer, early>>

-------------------------------------------------------------------------------
(* The connections: a response to a request, or what the port receives.  The *)
(* data is copied; a plugin without onReceive is not called.                 *)
OnReceive ==
    /\ Len(posted) < MaxPosted
    /\ \/ requests > 0 /\ requests' = requests - 1
       \/ serialOpen /\ UNCHANGED requests
    /\ posted' = IF hasReceive THEN Append(posted, "callback") ELSE posted
    /\ UNCHANGED <<pc, plugin, mutex, strand, buffer, early>>

(* The strand.                                                               *)
TakeHandler ==
    /\ strand = "idle" /\ posted # <<>>
    /\ strand' = IF Head(posted) = "put" THEN "put" ELSE "lock"
    /\ posted' = Tail(posted)
    /\ UNCHANGED <<pc, plugin, mutex, requests, buffer, early>>

MakeRequest ==
    /\ strand = "put"
    /\ requests' = IF requests < MaxRequests THEN requests + 1 ELSE requests
    /\ strand' = "idle"
    /\ UNCHANGED <<pc, plugin, mutex, posted, buffer, early>>

Lock ==
    /\ strand = "lock"
    /\ mutex = "free"
    /\ mutex' = "strand"
    /\ strand' = "lua"
    /\ UNCHANGED <<pc, plugin, posted, requests, buffer, early>>

(* Mutant of CallbackReturns: the mutex is not given back. *)
CallbackReturnsLocked ==
    /\ AtCall("strand")
    /\ strand' = "idle"
    /\ UNCHANGED <<pc, plugin, mutex, posted, requests, buffer, early>>

CallbackReturns ==
    /\ AtCall("strand")
    /\ strand' = "idle"
    /\ mutex' = "free"
    /\ UNCHANGED <<pc, plugin, posted, requests, buffer, early>>

-------------------------------------------------------------------------------
Script(thread) ==
    \/ \E p \in Points : AddPoint(thread, p)
    \/ Erase(thread)
    \/ Put(thread)
    \/ ScriptError(thread)

Next ==
    /\ pc # "ended"
    /\ \/ \E thread \in Threads : Script(thread)
       \/ Load \/ Select \/ OpenClosePort \/ PressRequest \/ DrawGui \/ Drawn
       \/ OnReceive
       \/ TakeHandler \/ MakeRequest \/ Lock \/ CallbackReturns

(* The functions of the script return, so both threads get on.  The mutex is *)
(* not a fair one; but the GUI thread leaves it free while it waits for the  *)
(* display, in every frame, so the strand gets it some time.                 *)
Finish(thread) == thread \in half /\ \E p \in Points : AddPoint(thread, p)

Fairness ==
    /\ WF_vars(Finish("gui")) /\ WF_vars(Finish("strand"))
    /\ SF_vars(Drawn) /\ SF_vars(CallbackReturns)
    /\ WF_vars(TakeHandler) /\ WF_vars(MakeRequest) /\ SF_vars(Lock)

Spec == Init /\ [][Next]_vars /\ Fairness

-------------------------------------------------------------------------------
TypeOK ==
    /\ pc \in {"none", "script", "connections", "setup", "frame", "draw", "ended"}
    /\ {hasAction, hasReceive, selected, serialOpen, early} \subseteq BOOLEAN
    /\ mutex \in {"free"} \cup Threads
    /\ posted \in Seq({"put", "callback"})
    /\ strand \in {"idle", "put", "lock", "lua"}
    /\ requests \in 0 .. MaxRequests
    /\ Data \in Seq(Points) /\ latest \in Seq(Points)
    /\ Len(Data) <= MaxSize
    /\ Offset \in 0 .. MaxSize - 1
    /\ half \subseteq Threads

(* The Lua state is used by one thread at a time, though the script is       *)
(* loaded without the mutex: the one exception is a setup() that sends a     *)
(* request, whose response may call the script while setup() still runs      *)
(* (LuaPlugin::LuaPlugin, drawGui, onReceive).                               *)
LuaOfOneThread == Threads \subseteq InLua => early

(* What plotLine() shows, the data rotated by Offset, is the last MaxSize    *)
(* points that the script has added since it erased, in their order,         *)
(* whichever of the two threads has added them (ScrollingBuffer).            *)
Shown == [i \in DOMAIN Data |-> Data[((i - 1 + Offset) % Len(Data)) + 1]]

PlotShowsLatest == pc = "draw" /\ AtCall("gui") /\ ~early => Shown = latest

(* What is posted to the strand is run: no callback waits for the mutex for  *)
(* ever, and no request stays in the queue behind one (drawGui, onReceive,   *)
(* put).                                                                     *)
HandlersRun ==
    /\ posted # <<>> ~> strand # "idle" \/ pc = "ended"
    /\ strand # "idle" ~> strand = "idle" \/ pc = "ended"
===============================================================================
