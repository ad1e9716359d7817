-------------------------------- MODULE Windows --------------------------------
(***************************************************************************)
(* Who owns whom in the program, and how long: the window of a connection  *)
(* (connection_manager_win.cpp and the *_win.cpp with a console), its       *)
(* consoles (raw_data_win.cpp), the WindowManager that draws them, the      *)
(* plugin that may share the connection, and the I/O manager whose threads *)
(* deliver what is received (receiver.cpp, manager_impl.cpp).              *)
(*                                                                         *)
(* A receive slot of a console holds the window by a bare pointer and      *)
(* tracks the console; the console's "send" holds the connection by a bare *)
(* pointer, a handler of the connection holds it so, and so does the slot  *)
(* of a plugin its wrapper.  "harm" is a use of what is gone.              *)
(*                                                                         *)
(* "pending" is a dial or a receive, which end when the socket is closed;  *)
(* their handlers are queued then.  A resolve goes on.  A connection that  *)
(* is started while the handler of a datum is queued goes on with that     *)
(* handler; that it may receive twice then is left to the modules of the   *)
(* connections.                                                            *)
(***************************************************************************)
EXTENDS Naturals, Sequences

CONSTANTS
    MaxConsoles,     \* bound: the consoles made
    MaxData,         \* bound: the data received
    MaxAborted       \* bound: the handlers of failed operations that are queued

ASSUME BoundsAssumption == {MaxConsoles, MaxData, MaxAborted} \subseteq Nat

Consoles == 1 .. MaxConsoles
None == 0            \* no console; as a slot, the one of the plugin
Plugin == 0

VARIABLES
    gui,             \* the GUI thread: "run", or the member of Application that
                     \* is destroyed next, or "gone"
    window,          \* "none", "shown" or "destroyed"
    plugin,          \* a plugin shares the connection
    sleeps,          \* it is a TCP client, whose destructor closes the socket
                     \* and sleeps before its members are destroyed
    connection,      \* "none", "alive", "closing" (in that sleep) or "destroyed"
    opened,          \* it is to receive
    op,              \* its operation: "none", "resolving", "pending", "done" or
                     \* "running" (its handler is)
    aborted,         \* the failed or aborted operations whose handler is queued
    raw_win_,        \* the console of the window
    registered,      \* WindowManager::windows_
    slots,           \* what is connected to the signal of the connection
    calls,           \* the slots an emission has yet to call
    locked,          \* the console it has locked to call its slot
    target,          \* the console the slot has found in its window
    made, datum,     \* the consoles made, the data received so far
    shown,           \* data_ of every console
    watching,        \* history: checked since the emission began
    harm,            \* the use of something that is gone: "none", "send" (by a
                     \* console), "slot", "wrapper" or "handler"
    hasty            \* history: what has provoked it

user == <<window, plugin, raw_win_, registered, slots, made>>
line == <<sleeps, connection, opened, op, aborted>>
emission == <<calls, locked, target, datum, shown>>
vars == <<gui, user, line, emission, watching, harm, hasty>>

Init ==
    /\ gui = "run"
    /\ window = "none" /\ connection = "none"
    /\ plugin = FALSE /\ sleeps = FALSE /\ opened = FALSE
    /\ op = "none" /\ aborted = 0
    /\ harm = "none" /\ hasty = {}
    /\ raw_win_ = None /\ locked = None /\ target = None
    /\ registered = {} /\ watching = {}
    /\ slots = <<>> /\ calls = <<>>
    /\ made = 0 /\ datum = 0
    /\ shown = [k \in Consoles |-> <<>>]

(* A console lives as long as somebody holds it.                             *)
Alive(k) == k \in registered \cup {raw_win_, locked}

-------------------------------------------------------------------------------
(* The user.                                                                 *)

(* A window from the menu, or for a connection of a plugin                   *)
(* (registerConnection), whose wrapper has connected a slot.                 *)
OpenWindow ==
    /\ gui = "run" /\ window = "none"
    /\ window' = "shown"
    /\ connection' = "alive"
    /\ plugin' \in BOOLEAN
    /\ sleeps' \in IF plugin' THEN {FALSE} ELSE BOOLEAN
    /\ slots' = IF plugin' THEN <<Plugin>> ELSE <<>>
    /\ UNCHANGED <<gui, raw_win_, registered, made, opened, op, aborted>>
    /\ UNCHANGED <<emission, watching, harm, hasty>>

(* The buttons "Connect" and "Disconnect", or "Receive".  A TCP client begins*)
(* with a resolve; the handlers of earlier operations may still be queued.   *)
Connect ==
    /\ gui = "run" /\ window = "shown" /\ ~opened
    /\ aborted < MaxAborted
    /\ \/ op = "none" /\ sleeps /\ op' = "resolving" /\ UNCHANGED opened
       \/ op = "none" /\ ~sleeps /\ op' = "pending" /\ opened' = TRUE
       \/ op \in {"done", "running"} /\ opened' = TRUE /\ UNCHANGED op
    /\ UNCHANGED <<gui, user, sleeps, connection, aborted>>
    /\ UNCHANGED <<emission, watching, harm, hasty>>

(* disconnect() and doClose() close the socket, with n handlers queued.      *)
Close(n) ==
    /\ opened' = FALSE
    /\ \/ op = "pending" /\ op' = "none" /\ aborted' = n + 1
       \/ op # "pending" /\ UNCHANGED op /\ aborted' = n

Disconnect ==
    /\ gui = "run" /\ window = "shown" /\ opened
    /\ Close(aborted)
    /\ UNCHANGED <<gui, user, sleeps, connection, emission, watching, harm, hasty>>

(* Mutant of CheckConsole: the slot of an earlier console stays connected. *)
CheckConsoleUntracked ==
    /\ gui = "run" /\ window = "shown" /\ raw_win_ = None
    /\ made < MaxConsoles
    /\ made' = made + 1
    /\ raw_win_' = made'
    /\ slots' = Append([i \in DOMAIN slots |->
                           IF slots[i] = Plugin THEN Plugin ELSE made'], made')
    /\ registered' = registered \cup {made'}
    /\ UNCHANGED <<gui, window, plugin, line, emission, watching, harm, hasty>>

(* The box "Console" is checked.                                             *)
CheckConsole ==
    /\ gui = "run" /\ window = "shown" /\ raw_win_ = None
    /\ made < MaxConsoles
    /\ made' = made + 1
    /\ raw_win_' = made'
    /\ slots' = Append(slots, made')
    /\ registered' = registered \cup {made'}
    /\ UNCHANGED <<gui, window, plugin, line, emission, watching, harm, hasty>>

(* What is hasty: to take a console from its window while its slot is called. *)
SlotCause == IF locked # None THEN {"slot"} ELSE {}

(* Mutant of UncheckConsole: the console stays with the WindowManager. *)
UncheckRegistered ==
    /\ gui = "run" /\ window = "shown" /\ raw_win_ # None
    /\ watching' = watching \ {raw_win_}
    /\ raw_win_' = None
    /\ hasty' = hasty \cup SlotCause
    /\ UNCHANGED <<gui, window, plugin, registered, slots, made>>
    /\ UNCHANGED <<line, emission, harm>>

(* Mutant of UncheckConsole: the window keeps its console. *)
UncheckKept ==
    /\ gui = "run" /\ window = "shown" /\ raw_win_ # None
    /\ registered' = registered \ {raw_win_}
    /\ watching' = watching \ {raw_win_}
    /\ hasty' = hasty \cup SlotCause
    /\ UNCHANGED <<gui, window, plugin, raw_win_, slots, made>>
    /\ UNCHANGED <<line, emission, harm>>

(* The box is unchecked.                                                     *)
UncheckConsole ==
    /\ gui = "run" /\ window = "shown" /\ raw_win_ # None
    /\ registered' = registered \ {raw_win_}
    /\ watching' = watching \ {raw_win_}
    /\ raw_win_' = None
    /\ hasty' = hasty \cup SlotCause
    /\ UNCHANGED <<gui, window, plugin, slots, made>>
    /\ UNCHANGED <<line, emission, harm>>

(* Or to destroy a connection with an operation outstanding, or one that is  *)
(* aborted and whose handler is still queued.                                *)
OutstandingCause == IF op # "none" \/ aborted > 0 THEN {"outstanding"} ELSE {}

(* The members of a connection are destroyed, which aborts what is           *)
(* outstanding.                                                              *)
DestroyMembers ==
    /\ connection' = "destroyed"
    /\ opened' = FALSE
    /\ IF op \in {"resolving", "pending"}
       THEN op' = "none" /\ aborted' = aborted + 1
       ELSE UNCHANGED <<op, aborted>>

(* The last owner lets a connection go: the destructor of a TCP client first *)
(* closes the socket and falls asleep, and the thread with it.               *)
Release ==
    IF sleeps
    THEN connection' = "closing" /\ Close(aborted)
    ELSE DestroyMembers

ReleaseCause == IF sleeps THEN {} ELSE OutstandingCause

(* The sleep in the destructor is over, whatever the strand has done in it.  *)
Wake ==
    /\ connection = "closing"
    /\ DestroyMembers
    /\ hasty' = hasty \cup OutstandingCause
    /\ UNCHANGED <<gui, user, sleeps, emission, watching, harm>>

(* Or to destroy a window whose console is open.                             *)
ConsoleCause == IF raw_win_ # None THEN {"console"} ELSE {}

(* The destructor of the window lets the console and the connection go.      *)
DestroyWindow ==
    /\ window' = "destroyed"
    /\ raw_win_' = None
    /\ watching' = {}
    /\ UNCHANGED sleeps
    /\ IF plugin
       THEN /\ UNCHANGED <<connection, opened, op, aborted>>
            /\ hasty' = hasty \cup SlotCause \cup ConsoleCause
       ELSE /\ Release
            /\ hasty' = hasty \cup SlotCause \cup ConsoleCause \cup ReleaseCause

(* The trash can.                                                            *)
Trash ==
    /\ gui = "run" /\ window = "shown"
    /\ DestroyWindow
    /\ UNCHANGED <<gui, plugin, registered, slots, made, emission, harm>>

(* The button "send" of a console that is drawn; the GUI thread is not       *)
(* asleep in a destructor.                                                   *)
Send ==
    /\ gui = "run" /\ registered # {} /\ connection # "closing"
    /\ harm' = IF connection = "destroyed" THEN "send" ELSE harm
    /\ UNCHANGED <<gui, user, line, emission, watching, hasty>>

-------------------------------------------------------------------------------
(* A datum is received, and its handler calls the slots in turn.             *)

(* The resolve of a TCP client ends: the dial begins, unless it has failed.  *)
(* A client in its destructor is dialled too, but is not to receive.         *)
Resolved ==
    /\ op = "resolving"
    /\ \/ op' = "pending" /\ opened' = (connection = "alive")
       \/ op' = "none" /\ opened' = FALSE
    /\ UNCHANGED <<gui, user, sleeps, connection, aborted>>
    /\ UNCHANGED <<emission, watching, harm, hasty>>

Receive ==
    /\ op = "pending" /\ datum < MaxData
    /\ op' = "done"
    /\ datum' = datum + 1
    /\ UNCHANGED <<gui, user, sleeps, connection, opened, aborted>>
    /\ UNCHANGED <<calls, locked, target, shown, watching, harm, hasty>>

(* The dial or the receive fails.                                            *)
Break ==
    /\ op = "pending"
    /\ op' = "none"
    /\ aborted' = aborted + 1
    /\ UNCHANGED <<gui, user, sleeps, connection, opened>>
    /\ UNCHANGED <<emission, watching, harm, hasty>>

(* A handler uses its connection.                                            *)
UseConnection == harm' = IF connection = "destroyed" THEN "handler" ELSE harm

(* resv_sig_(data), on the slots connected now.                              *)
HandleRead ==
    /\ op = "done"
    /\ UseConnection
    /\ op' = "running"
    /\ calls' = slots
    /\ watching' = {raw_win_} \ {None}
    /\ UNCHANGED <<gui, user, sleeps, connection, opened, aborted>>
    /\ UNCHANGED <<locked, target, datum, shown, hasty>>

(* The handler of an operation that has failed or was aborted closes the     *)
(* socket, whatever has been opened since.                                   *)
HandleAborted ==
    /\ aborted > 0 /\ op # "running"
    /\ UseConnection
    /\ Close(aborted - 1)
    /\ UNCHANGED <<gui, user, sleeps, connection, emission, watching, hasty>>

(* The slot of a console that is gone is skipped; the one of the plugin      *)
(* calls its wrapper, gone or not.                                           *)
NextSlot ==
    /\ op = "running" /\ locked = None /\ calls # <<>>
    /\ calls' = Tail(calls)
    /\ harm' = IF Head(calls) = Plugin /\ ~plugin THEN "wrapper" ELSE harm
    /\ locked' = IF Alive(Head(calls)) THEN Head(calls) ELSE None
    /\ UNCHANGED <<gui, user, line, target, datum, shown, watching, hasty>>

(* The slot looks into its window for the console.                           *)
CallSlot ==
    /\ locked # None /\ target = None
    /\ harm' = IF window = "destroyed" \/ raw_win_ = None THEN "slot" ELSE harm
    /\ target' = raw_win_
    /\ UNCHANGED <<gui, user, line, calls, locked, datum, shown, watching, hasty>>

AddData ==
    /\ target # None
    /\ harm' = IF Alive(target) THEN harm ELSE "slot"
    /\ shown' = [shown EXCEPT ![target] = Append(@, datum)]
    /\ target' = None
    /\ locked' = None
    /\ UNCHANGED <<gui, user, line, calls, datum, watching, hasty>>

EmissionDone == op = "running" /\ calls = <<>> /\ locked = None

(* A TCP client that has been disconnected once does not read on.            *)
ReadAgain ==
    /\ EmissionDone
    /\ UseConnection
    /\ \/ opened /\ op' = "pending"
       \/ (~opened \/ sleeps) /\ op' = "none"
    /\ UNCHANGED <<gui, user, sleeps, connection, opened, aborted>>
    /\ UNCHANGED <<emission, watching, hasty>>

-------------------------------------------------------------------------------
(* The end: the members of Application are destroyed, the last one first.    *)

(* Mutant of After: the manager is declared behind the windows. *)
AfterSwapped ==
    [plugin_manager_win_ |-> "connection_manager_",
     connection_manager_ |-> "connection_manager_win_",
     connection_manager_win_ |-> "win_manager_", win_manager_ |-> "gone"]

(* The member that is destroyed after another one.                           *)
After ==
    [plugin_manager_win_ |-> "connection_manager_win_",
     connection_manager_win_ |-> "connection_manager_",
     connection_manager_ |-> "win_manager_", win_manager_ |-> "gone"]

Leave ==
    /\ gui = "run" /\ connection # "closing"
    /\ gui' = "plugin_manager_win_"
    /\ UNCHANGED <<user, line, emission, watching, harm, hasty>>

(* The wrapper of a connection goes with its plugin, which is hasty while    *)
(* its slot may be called; so does a connection whose window is in the trash.*)
DestroyPlugins ==
    /\ gui = "plugin_manager_win_"
    /\ gui' = After[gui]
    /\ plugin' = FALSE
    /\ LET WrapperCause == IF plugin /\ op # "none" THEN {"wrapper"} ELSE {}
       IN  IF window = "destroyed" /\ connection = "alive"
           THEN Release /\ hasty' = hasty \cup WrapperCause \cup ReleaseCause
           ELSE UNCHANGED <<connection, opened, op, aborted>> /\ hasty' = hasty \cup WrapperCause
    /\ UNCHANGED <<window, raw_win_, registered, slots, made>>
    /\ UNCHANGED <<sleeps, emission, watching, harm>>

DestroyWindows ==
    /\ gui = "connection_manager_win_"
    /\ gui' = After[gui]
    /\ IF window = "shown"
       THEN DestroyWindow
       ELSE UNCHANGED <<window, raw_win_, watching, line, hasty>>
    /\ UNCHANGED <<plugin, registered, slots, made, emission, harm>>

(* ~ManagerImpl joins the threads, which run while an operation is           *)
(* outstanding or a handler is queued; it comes after the sleep of the       *)
(* destructors.                                                              *)
JoinThreads ==
    /\ gui = "connection_manager_" /\ connection # "closing"
    /\ op = "none" /\ aborted = 0
    /\ gui' = After[gui]
    /\ UNCHANGED <<user, line, emission, watching, harm, hasty>>

DestroyConsoles ==
    /\ gui = "win_manager_"
    /\ gui' = After[gui]
    /\ registered' = {}
    /\ UNCHANGED <<window, plugin, raw_win_, slots, made>>
    /\ UNCHANGED <<line, emission, watching, harm, hasty>>

-------------------------------------------------------------------------------
User ==
    \/ OpenWindow \/ Connect \/ Disconnect \/ CheckConsole \/ UncheckConsole
    \/ Trash \/ Send \/ Leave

Network == Resolved \/ Receive \/ Break

Handler ==
    HandleRead \/ HandleAborted \/ NextSlot \/ CallSlot \/ AddData \/ ReadAgain

Exit == Wake \/ DestroyPlugins \/ DestroyWindows \/ JoinThreads \/ DestroyConsoles

(* What follows a use of what is gone is not defined: nothing is modelled.   *)
Next == harm = "none" /\ (User \/ Network \/ Handler \/ Exit)

(* Neither the threads of the manager nor the end of main() wait for the     *)
(* user; only the user and the network may do nothing.                       *)
Fairness == WF_vars(harm = "none" /\ Handler) /\ WF_vars(harm = "none" /\ Exit)

Spec == Init /\ [][Next]_vars /\ Fairness

-------------------------------------------------------------------------------
TypeOK ==
    /\ gui \in {"run", "plugin_manager_win_", "connection_manager_win_",
                "connection_manager_", "win_manager_", "gone"}
    /\ window \in {"none", "shown", "destroyed"}
    /\ connection \in {"none", "alive", "closing", "destroyed"}
    /\ {plugin, sleeps, opened} \subseteq BOOLEAN
    /\ op \in {"none", "resolving", "pending", "done", "running"}
    /\ aborted \in 0 .. MaxAborted
    /\ harm \in {"none", "send", "slot", "wrapper", "handler"}
    /\ hasty \subseteq {"slot", "console", "outstanding", "wrapper"}
    /\ {raw_win_, locked, target, made} \subseteq Consoles \cup {None}
    /\ registered \cup watching \subseteq Consoles
    /\ slots \in Seq(Consoles \cup {Plugin}) /\ calls \in Seq(Consoles \cup {Plugin})
    /\ datum \in 0 .. MaxData
    /\ shown \in [Consoles -> Seq(1 .. MaxData)]
    /\ raw_win_ = None \/ raw_win_ \in registered

(* A console shows what is received in order and never twice, although       *)
(* every box that is checked connects one more slot, and a slot writes to    *)
(* the console its window has now; and the one that was open from the        *)
(* beginning of the emission to its end has been given the datum (the box    *)
(* "Console", Receiver::onReceive).                                          *)
ShownOnce ==
    /\ \A k \in Consoles : \A i, j \in DOMAIN shown[k] :
           i < j => shown[k][i] < shown[k][j]
    /\ EmissionDone => \A k \in watching : \E i \in DOMAIN shown[k] : shown[k][i] = datum

(* The bare pointers are used after what they point to is gone in four ways  *)
(* only, and each has its own cause: a console sends on a connection that    *)
(* was destroyed with its window, which was thrown away with the console     *)
(* open; a slot misses its window or its console only if that window was     *)
(* destroyed with its console open, or the box unchecked while a slot was    *)
(* being called; a plugin's slot misses its wrapper only if the program was  *)
(* left with an operation outstanding; and a handler misses its connection   *)
(* only if an operation was outstanding, or aborted with its handler queued, *)
(* when the members of the connection were destroyed - which is not when a   *)
(* TCP client is let go, but after the sleep in its destructor.              *)
HarmHasItsCause ==
    /\ harm = "send" => "console" \in hasty
    /\ harm = "slot" => hasty \cap {"console", "slot"} # {}
    /\ harm = "wrapper" => "wrapper" \in hasty
    /\ harm = "handler" => "outstanding" \in hasty

(* The program that is left ends: the threads that are joined run out of     *)
(* work (~ManagerImpl), whatever is outstanding, for the connections go      *)
(* before the manager and the handlers of what they abort start nothing new. *)
(* An exit that uses what is gone ends nowhere in the model, so it is left   *)
(* out; HarmHasItsCause says which these are.  A TCP client that is          *)
(* receiving is not among them if its handler runs in the sleep.             *)
ExitEnds == gui # "run" ~> gui = "gone" \/ harm # "none"
===============================================================================
