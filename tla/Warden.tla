----------------------------- MODULE Warden ------------------------------
(***************************************************************************)
(* What the warden promises of its sessions, without connections, clocks,  *)
(* goroutines or a watcher: who is let in and on what, what a session may  *)
(* run and when, and what ends it.  Server implements this.                *)
(***************************************************************************)
EXTENDS Naturals

CONSTANTS
    Vouchers,         \* what a handshake can hand out, each once
    Sessions,
    Sandboxes,
    Callers,          \* records [sandbox, generation]
    None

VARIABLES
    bar,              \* lowest generation accepted, per sandbox
    voucher,          \* the caller that each voucher admits, if it does
    void,             \* vouchers that never will again
    stage,            \* "out", "in", "cleared", "launched", "running", "over"
    admitted,         \* the caller each session acts as
    command,          \* the kind of its command
    approved,         \* sessions an operator said yes to
    doomed            \* sessions under way that have been told to end

wardenVars == <<bar, voucher, void, stage, admitted, command, approved, doomed>>
sessionVars == <<stage, admitted, approved, doomed>>

Accepted(id) == id.generation >= bar[id.sandbox]

WardenInit ==
    /\ bar = [b \in Sandboxes |-> 1]
    /\ voucher = [v \in Vouchers |-> None]
    /\ void = {}
    /\ stage = [s \in Sessions |-> "out"]
    /\ admitted = [s \in Sessions |-> None]
    /\ approved = {} /\ doomed = {}

RaiseBar(b) ==
    /\ bar' = [bar EXCEPT ![b] = @ + 1]
    /\ UNCHANGED <<voucher, void, command, sessionVars>>

\* Only a caller whose token is accepted now is vouched for.
Vouch(v, id) ==
    /\ v \notin void /\ voucher[v] = None /\ Accepted(id)
    /\ voucher' = [voucher EXCEPT ![v] = id]
    /\ UNCHANGED <<bar, void, command, sessionVars>>

Withdraw(v) ==
    /\ v \notin void
    /\ voucher' = [voucher EXCEPT ![v] = None]
    /\ void' = void \cup {v}
    /\ UNCHANGED <<bar, command, sessionVars>>

\* A voucher admits one session, as the caller it was made out to.
Admit(s, v) ==
    /\ stage[s] = "out" /\ voucher[v] # None
    /\ stage' = [stage EXCEPT ![s] = "in"]
    /\ admitted' = [admitted EXCEPT ![s] = voucher[v]]
    /\ voucher' = [voucher EXCEPT ![v] = None]
    /\ void' = void \cup {v}
    /\ UNCHANGED <<bar, command, approved, doomed>>

Moves(s, from, to) ==
    /\ stage[s] = from
    /\ stage' = [stage EXCEPT ![s] = to]
    /\ UNCHANGED <<bar, voucher, void, admitted, command, doomed>>

Clear(s) == command[s] = "allowed" /\ Moves(s, "in", "cleared") /\ UNCHANGED approved

ClearByOperator(s) ==
    /\ command[s] = "withheld"
    /\ Moves(s, "in", "cleared")
    /\ approved' = approved \cup {s}

\* The last look at whether the session has been told to end.
Launch(s) == s \notin doomed /\ Moves(s, "cleared", "launched") /\ UNCHANGED approved

Run(s) == Moves(s, "launched", "running") /\ UNCHANGED approved

\* Anything may fail, and a command may exit or be killed.
Finish(s) ==
    /\ stage[s] # "over"
    /\ stage' = [stage EXCEPT ![s] = "over"]
    /\ doomed' = doomed \ {s}
    /\ UNCHANGED <<bar, voucher, void, admitted, command, approved>>

\* One session is told to end because its token is retired, or because its command
\* runs and its client or its stdin is gone.
Doom(s) ==
    /\ \/ stage[s] \in {"in", "cleared", "launched", "running"} /\ ~Accepted(admitted[s])
       \/ stage[s] = "running"
    /\ doomed' = doomed \cup {s}
    /\ UNCHANGED <<bar, voucher, void, stage, admitted, command, approved>>

Shutdown ==
    /\ doomed' = {s \in Sessions : stage[s] # "over"}
    /\ UNCHANGED <<bar, voucher, void, stage, admitted, command, approved>>

WardenNext ==
    \/ \E b \in Sandboxes : RaiseBar(b)
    \/ \E v \in Vouchers : Withdraw(v) \/ \E id \in Callers : Vouch(v, id)
    \/ \E s \in Sessions :
          \/ \E v \in Vouchers : Admit(s, v)
          \/ Clear(s) \/ ClearByOperator(s) \/ Launch(s) \/ Run(s) \/ Finish(s) \/ Doom(s)
    \/ Shutdown

WardenSpec == WardenInit /\ [][WardenNext]_wardenVars
==========================================================================
