------------------------------- MODULE MCWriter -------------------------------
(* Instances of Writer for TLC; the configurations choose the transport and  *)
(* what the network and the user may do.                                     *)
EXTENDS Writer
===============================================================================
