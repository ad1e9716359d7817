----------------------------- MODULE MCRingBuffer -----------------------------
(* Instances of RingBuffer for TLC: threads and items are model values. *)
EXTENDS RingBuffer
===============================================================================
