---------------------------- MODULE Approver -----------------------------
(***************************************************************************)
(* What internal/server/approval.go's Approver promises whoever calls it:  *)
(* a call waits its turn, at most one is put to the operator at a time,    *)
(* and a call is approved only out of being put to the operator.  Approval *)
(* implements this with a terminal; Server's sessions follow it too.       *)
(***************************************************************************)
CONSTANT Calls

VARIABLES
    call,             \* call[c]: "out" of Approve, "queued" or "asking"
    yes               \* calls that were approved

approverVars == <<call, yes>>

ApproverInit ==
    /\ call = [c \in Calls |-> "out"]
    /\ yes = {}

Enter(c) ==
    /\ call[c] = "out"
    /\ call' = [call EXCEPT ![c] = "queued"]
    /\ UNCHANGED yes

Ask(c) ==
    /\ call[c] = "queued"
    /\ \A o \in Calls : call[o] # "asking"
    /\ call' = [call EXCEPT ![c] = "asking"]
    /\ UNCHANGED yes

SayYes(c) ==
    /\ call[c] = "asking"
    /\ call' = [call EXCEPT ![c] = "out"]
    /\ yes' = yes \cup {c}

Refuse(c) ==
    /\ call[c] \in {"queued", "asking"}
    /\ call' = [call EXCEPT ![c] = "out"]
    /\ UNCHANGED yes

ApproverNext == \E c \in Calls : Enter(c) \/ Ask(c) \/ SayYes(c) \/ Refuse(c)

ApproverSpec == ApproverInit /\ [][ApproverNext]_approverVars
==========================================================================
