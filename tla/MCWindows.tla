------------------------------ MODULE MCWindows ------------------------------
(* The instance of Windows for TLC: the cfg gives the bounds. *)
EXTENDS Windows
===============================================================================
