----------------------------- MODULE MCFrames ----------------------------
(* Frames on a small instance: the configuration gives the bounds.          *)
EXTENDS Frames
==========================================================================
