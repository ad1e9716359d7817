----------------------------- MODULE MCCoapClient -----------------------------
(* Instances of CoapClient for TLC. *)
EXTENDS CoapClient
===============================================================================
