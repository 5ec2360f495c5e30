------------------------------ MODULE Judge ------------------------------
(***************************************************************************)
(* What the server promises of a policy map, without documents being read, *)
(* ids, merging or caches: it answers only if the whole map and every      *)
(* document in it could be used, and each answer is the verdict of all the *)
(* rules of all the bindings that match the caller.  Policy implements it. *)
(***************************************************************************)
EXTENDS Cedar, Sequences, Functions

CONSTANTS
    Calls,            \* concurrent sessions asking
    Requests,         \* what Context describes
    Malformed,        \* a pattern that path.Match refuses
    NoRequest

VARIABLES
    map,              \* the map: bindings, and what each document in it says
    open,             \* the server answers
    asked,            \* each call's request
    verdict           \* and the answer to it

judgeVars == <<map, open, asked, verdict>>

Verdicts == {"none", "unassigned", "error", "denied", "withheld", "allowed"}

\* Bindings are records [sandboxes, policies, groups]: patterns, each the set of
\* names it matches, documents by their references, and groups.
Matching(caller) ==
    {b \in Range(map.bindings) : \E pattern \in b.sandboxes :
        pattern # Malformed /\ caller \in pattern}

GroupsGiven(sandbox) == UNION {b.groups : b \in Matching(sandbox)}

\* A host has no groups.
GroupsIn(request) ==
    [caller |-> GroupsGiven(request.caller),
     resource |-> IF request.resource = HostResource THEN {} ELSE GroupsGiven(request.resource)]

\* A document is a sequence of policies.
Rules(caller) ==
    UNION {UNION {Range(map.documents[ref]) : ref \in Range(b.policies)} : b \in Matching(caller)}

Answering(request, effect) ==
    {p \in Rules(request.caller) : p.effect = effect /\ Satisfied(p, request, GroupsIn(request))}

\* Every binding that matches applies, a forbid beats every permit, a rule that
\* cannot be evaluated denies, and one permit that asks for approval withholds
\* (bindings.go:28-31, authz.go:6-9, 224-238).
Verdict(request) ==
    IF Rules(request.caller) = {} THEN "unassigned"
    ELSE IF \E p \in Rules(request.caller) : Errs(p, request) THEN "error"
    ELSE IF Answering(request, "forbid") # {} \/ Answering(request, "permit") = {} THEN "denied"
    ELSE IF \E p \in Answering(request, "permit") : p.approval THEN "withheld"
    ELSE "allowed"

\* Every binding names sandboxes by patterns that are patterns, and gives something.
Usable ==
    /\ map.bindings # <<>>
    /\ \A b \in Range(map.bindings) :
          /\ b.sandboxes # {} /\ Malformed \notin b.sandboxes
          /\ b.policies # <<>> \/ b.groups # {}

JudgeInit ==
    /\ open = FALSE
    /\ asked = [c \in Calls |-> NoRequest]
    /\ verdict = [c \in Calls |-> "none"]

OpenServer ==
    /\ ~open /\ Usable
    /\ open' = TRUE
    /\ UNCHANGED <<map, asked, verdict>>

Ask(c, request) ==
    /\ open /\ (asked[c] # NoRequest => verdict[c] # "none")
    /\ asked' = [asked EXCEPT ![c] = request]
    /\ verdict' = [verdict EXCEPT ![c] = "none"]
    /\ UNCHANGED <<map, open>>

Answer(c) ==
    /\ asked[c] # NoRequest /\ verdict[c] = "none"
    /\ verdict' = [verdict EXCEPT ![c] = Verdict(asked[c])]
    /\ UNCHANGED <<map, open, asked>>

JudgeNext ==
    \/ OpenServer
    \/ \E c \in Calls : Answer(c) \/ \E request \in Requests : Ask(c, request)

JudgeSpec == JudgeInit /\ [][JudgeNext]_judgeVars
==========================================================================
