------------------------------- MODULE MCFrames -------------------------------
(* The instance of Frames for TLC: the cfg gives the number of images. *)
EXTENDS Frames
===============================================================================
