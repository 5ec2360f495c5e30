----------------------------- MODULE MCStream ----------------------------
(* Stream on small instances: the configurations give the bounds.           *)
EXTENDS Stream
==========================================================================
