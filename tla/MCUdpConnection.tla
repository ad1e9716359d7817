--------------------------- MODULE MCUdpConnection ---------------------------
(* The instance of UdpConnection for TLC: it has no parameters. *)
EXTENDS UdpConnection
===============================================================================
