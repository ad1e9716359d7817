------------------------------ MODULE OutStream ------------------------------
(***************************************************************************)
(* What the sending side of a connection promises: the bytes handed to     *)
(* send() leave in the order of the calls, each at most once and none made *)
(* up.  Bytes are named by their position in the stream of accepted bytes. *)
(* The promise ends where a data race is lost: what follows is undefined.  *)
(* Module Writer implements this.                                          *)
(***************************************************************************)
EXTENDS Naturals, Sequences

VARIABLES
    accepted,  \* number of bytes that send() has taken over
    wire,      \* the bytes the operating system has accepted, in order
    torn       \* a race was lost, and the promise is off

vars == <<accepted, wire, torn>>

Init == accepted = 0 /\ wire = <<>> /\ torn = FALSE

Accept ==
    /\ accepted' \in Nat
    /\ accepted' > accepted
    /\ UNCHANGED <<wire, torn>>

(* Some of the accepted bytes that have not left yet leave, next ones first. *)
Transmit ==
    /\ wire' \in Seq(Nat)
    /\ Len(wire) < Len(wire')
    /\ Len(wire') <= accepted
    /\ \A i \in 1 .. Len(wire') : wire'[i] = IF i <= Len(wire) THEN wire[i] ELSE i - 1
    /\ UNCHANGED <<accepted, torn>>

Undefined == torn' = TRUE

Next == Accept \/ Transmit \/ Undefined

Spec == Init /\ [][Next]_vars
==============================================================================
