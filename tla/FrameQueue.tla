---------------------------- MODULE FrameQueue ---------------------------
(***************************************************************************)
(* One direction of a framed connection as its users see it: frames arrive *)
(* whole and in the order in which their writes took effect, though not    *)
(* all of them have to.                                                    *)
(***************************************************************************)
EXTENDS Naturals, Sequences

CONSTANT Frames
VARIABLES sent, received

queueVars == <<sent, received>>

QueueInit == sent = <<>> /\ received = <<>>

Send(f) == sent' = Append(sent, f) /\ UNCHANGED received

Receive ==
    /\ Len(received) < Len(sent)
    /\ received' = Append(received, sent[Len(received) + 1])
    /\ UNCHANGED sent

QueueNext == (\E f \in Frames : Send(f)) \/ Receive

QueueSpec == QueueInit /\ [][QueueNext]_queueVars
==========================================================================
