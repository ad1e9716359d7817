--------------------------------- MODULE Serial ---------------------------------
(***************************************************************************)
(* A Serial connection (serial.cpp) and the settings and buttons of its    *)
(* window (serial_win.cpp).                                                *)
(*                                                                         *)
(* The GUI thread posts doOpen and doClose to the strand and does nothing  *)
(* else but clear should_run_; the strand runs what was posted in order,   *)
(* and between them the handlers of completed reads, which come through    *)
(* the threads of the manager and so at any time.  An exception of doOpen  *)
(* leaves the strand's handler and ends the program.  Sending is module    *)
(* Writer.                                                                 *)
(***************************************************************************)
EXTENDS Naturals, Sequences

CONSTANTS
    MaxWork    \* bound: what the strand may have in hand when a button is
               \* pressed, calls posted to it and reads

ASSUME BoundsAssumption == MaxWork \in Nat \ {0}

VARIABLES
    shown,         \* the parity the window shows: its opts_
    opts,          \* the connection's opts_
    applied,       \* the parity the port was set to
    port,          \* "closed" or "open"
    should_run,
    posted,        \* the strand's posted calls
    pending,       \* outstanding reads
    got,           \* completed reads with data, their handlers queued
    failed,        \* completed reads with an error, their handlers queued
    opening,       \* doOpen has opened the port and is setting its options
    closing,       \* close() has cleared should_run_ and is about to post
    alive          \* no exception has ended the program

vars == <<shown, opts, applied, port, should_run, posted, pending,
          got, failed, opening, closing, alive>>

settings == <<shown, opts, applied>>

Parity == {"none", "odd", "even"}

Init ==
    /\ shown \in Parity      \* opts_.parity is not initialised, or was set by
                            \* the owner before the window copied it
    /\ opts = shown
    /\ applied = shown
    /\ port = "closed"
    /\ should_run = FALSE
    /\ posted = <<>>
    /\ pending = 0
    /\ got = 0
    /\ failed = 0
    /\ opening = FALSE
    /\ closing = FALSE
    /\ alive = TRUE

-------------------------------------------------------------------------------
(* The GUI thread.                                                           *)

(* The settings of the window; nothing in it calls setOptions. *)
Choose(p) ==
    /\ alive
    /\ shown' = p
    /\ UNCHANGED <<opts, applied, port, should_run, posted, pending, got,
                   failed, opening, closing, alive>>

Room == Len(posted) + pending + got + failed < MaxWork

PressConnect ==
    /\ alive
    /\ ~closing
    /\ port = "closed"
    /\ Room
    /\ posted' = Append(posted, "doOpen")
    /\ UNCHANGED <<shown, opts, applied, port, should_run, pending, got, failed,
                   opening, closing, alive>>

PressDisconnect ==
    /\ alive
    /\ ~closing
    /\ port = "open"
    /\ Room
    /\ should_run' = FALSE
    /\ closing' = TRUE
    /\ UNCHANGED <<port, posted, pending, got, failed, opening, alive>>
    /\ UNCHANGED settings

PostClose ==
    /\ alive
    /\ closing
    /\ posted' = Append(posted, "doClose")
    /\ closing' = FALSE
    /\ UNCHANGED <<port, should_run, pending, got, failed, opening, alive>>
    /\ UNCHANGED settings

-------------------------------------------------------------------------------
(* The device: a read completes.                                             *)

ReadEnds ==
    /\ alive
    /\ pending > 0
    /\ pending' = pending - 1
    /\ \/ got' = got + 1 /\ UNCHANGED failed
       \/ failed' = failed + 1 /\ UNCHANGED got
    /\ UNCHANGED <<port, should_run, posted, opening, closing, alive>>
    /\ UNCHANGED settings

-------------------------------------------------------------------------------
(* The strand.                                                               *)

Running(call) ==
    /\ alive
    /\ ~opening
    /\ posted # <<>>
    /\ Head(posted) = call

(* The strand is free for the handler of a completed read. *)
Free == alive /\ ~opening

(* doClose(): closing the port aborts its reads. *)
Closed(aborted) ==
    /\ port' = "closed"
    /\ failed' = failed + aborted
    /\ pending' = pending - aborted

(* Mutant of DoClose: it closes only a port that still runs. *)
DoCloseIfRunning ==
    /\ Running("doClose")
    /\ IF should_run THEN Closed(pending) ELSE UNCHANGED <<port, failed, pending>>
    /\ should_run' = FALSE
    /\ posted' = Tail(posted)
    /\ UNCHANGED <<got, opening, closing, alive>>
    /\ UNCHANGED settings

DoClose ==
    /\ Running("doClose")
    /\ Closed(pending)
    /\ should_run' = FALSE
    /\ posted' = Tail(posted)
    /\ UNCHANGED <<got, opening, closing, alive>>
    /\ UNCHANGED settings

(* doOpen(), up to serial_.open(): it throws if there is no such device. *)
DoOpen ==
    /\ Running("doOpen")
    /\ should_run' = FALSE
    /\ failed' = failed + pending
    /\ pending' = 0
    /\ \/ port' = "open" /\ opening' = TRUE /\ UNCHANGED alive
       \/ port' = "closed" /\ alive' = FALSE /\ UNCHANGED opening
    /\ posted' = Tail(posted)
    /\ UNCHANGED <<shown, opts, applied, got, closing>>

(* What the switch in doOpen makes of a parity. *)
PortParity(p) == IF p = "odd" THEN "even" ELSE p

(* doOpen(), from there on: set_option() may throw as well. *)
Configure ==
    /\ alive
    /\ opening
    /\ opening' = FALSE
    /\ \/ /\ applied' = PortParity(opts)
          /\ should_run' = TRUE
          /\ posted' = Append(posted, "doRead")
          /\ UNCHANGED alive
       \/ /\ alive' = FALSE
          /\ UNCHANGED <<applied, should_run, posted>>
    /\ UNCHANGED <<shown, opts, port, pending, got, failed, closing>>

(* async_read_some() fails on a port that is closed by now. *)
DoRead ==
    /\ Running("doRead")
    /\ IF port = "open"
       THEN pending' = pending + 1 /\ UNCHANGED failed
       ELSE failed' = failed + 1 /\ UNCHANGED pending
    /\ posted' = Tail(posted)
    /\ UNCHANGED <<port, should_run, got, opening, closing, alive>>
    /\ UNCHANGED settings

(* Mutant of HandleData: the read is not started again. *)
HandleDataOnce ==
    /\ Free
    /\ got > 0
    /\ got' = got - 1
    /\ UNCHANGED <<port, should_run, posted, pending, failed, opening, closing,
                   alive>>
    /\ UNCHANGED settings

HandleData ==
    /\ Free
    /\ got > 0
    /\ got' = got - 1
    /\ posted' = IF should_run THEN Append(posted, "doRead") ELSE posted
    /\ UNCHANGED <<port, should_run, pending, failed, opening, closing, alive>>
    /\ UNCHANGED settings

(* Mutant of HandleError: the port is closed and its reads are not. *)
HandleErrorKeepsReads ==
    /\ Free
    /\ failed > 0
    /\ port' = "closed"
    /\ failed' = failed - 1
    /\ should_run' = FALSE
    /\ UNCHANGED <<posted, pending, got, opening, closing, alive>>
    /\ UNCHANGED settings

(* Any error closes the port: the abort of an earlier port's read, too. *)
HandleError ==
    /\ Free
    /\ failed > 0
    /\ port' = "closed"
    /\ failed' = failed - 1 + pending
    /\ pending' = 0
    /\ should_run' = FALSE
    /\ UNCHANGED <<posted, got, opening, closing, alive>>
    /\ UNCHANGED settings

-------------------------------------------------------------------------------
Gui ==
    \/ \E p \in Parity : Choose(p)
    \/ PressConnect
    \/ PressDisconnect
    \/ PostClose

Posted == DoClose \/ DoOpen \/ Configure \/ DoRead

Strand == Posted \/ HandleData \/ HandleError

Next == Gui \/ ReadEnds \/ Strand

Spec == Init /\ [][Next]_vars

(* close() returns; posted calls and queued handlers are run. *)
Fairness ==
    /\ WF_vars(PostClose)
    /\ WF_vars(Posted)
    /\ SF_vars(HandleData)
    /\ SF_vars(HandleError)

FairSpec == Spec /\ Fairness

-------------------------------------------------------------------------------
TypeOK ==
    /\ {shown, opts, applied} \subseteq Parity
    /\ port \in {"closed", "open"}
    /\ {should_run, opening, closing, alive} \subseteq BOOLEAN
    /\ posted \in Seq({"doOpen", "doClose", "doRead"})
    /\ {pending, got, failed} \subseteq Nat
    /\ pending > 0 => port = "open"

IsPosted(call) == \E k \in DOMAIN posted : posted[k] = call

(* An open port is heard: unless it is being closed, a read of it is         *)
(* outstanding or posted, or a handler that posts one or closes the port is  *)
(* queued; and should_run_ is set, so that doWrite sends.  No order of       *)
(* reopens, of late handlers and of the buttons leaves it open and deaf.     *)
OpenIsServed ==
    port = "open" /\ ~opening /\ ~closing /\ ~IsPosted("doClose") /\ alive =>
        /\ should_run
        /\ IsPosted("doRead") \/ pending + got + failed > 0

(* Disconnect closes the port. *)
DisconnectCloses == closing ~> port = "closed" \/ ~alive
===============================================================================
