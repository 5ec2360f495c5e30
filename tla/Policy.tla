------------------------------ MODULE Policy -----------------------------
(***************************************************************************)
(* internal/authz: a policy map is loaded and compiled while the server    *)
(* starts, and sessions then ask an Authorizer at the same time.  It keeps *)
(* the merged policies of each caller it has seen.                         *)
(*                                                                         *)
(* A step ends where another call can see or be seen: at each lock of the  *)
(* cache, and at each document that is read.                               *)
(***************************************************************************)
EXTENDS Cedar, Sequences, Functions

CONSTANTS
    Calls,            \* concurrent sessions asking
    Requests,         \* what buildContext and its callers describe
    Maps,             \* policy maps with the documents they name
    RefName,          \* refName: reference -> base name of its document
    Malformed,        \* a pattern that path.Match refuses
    NoRequest

\* A map lists bindings and each of them documents; no request is none.
ASSUME PolicyAssumption ==
    /\ NoRequest \notin Requests
    /\ \A m \in Maps :
          /\ m.bindings \in Seq(Range(m.bindings))
          /\ \A b \in Range(m.bindings) : b.policies \in Seq(DOMAIN m.documents)

VARIABLES
    map,              \* the map the server was told to enforce
    phase,            \* start-up: "reading", "compiling", "serving" or "failed"
    bindings,         \* Authorizer.bindings: [binding, policies]
    resolved,         \* Authorizer.resolved: caller -> policies
    call,             \* where each call of Authorize is
    request,          \* its request
    answer            \* its decision

callVars   == <<call, request, answer>>
policyVars == <<map, phase, bindings, resolved, callVars>>

PolicyInit ==
    /\ map \in Maps
    /\ phase = "reading"
    /\ bindings = <<>>
    /\ resolved = [caller \in {} |-> <<>>]
    /\ call = [c \in Calls |-> "idle"]
    /\ request = [c \in Calls |-> NoRequest]
    /\ answer = [c \in Calls |-> "none"]

\* PolicySet.Add of each policy of some sets, in their order: a policy replaces the
\* one with the same id.
Added(sets) ==
    LET having(id) == {k \in DOMAIN sets : id \in DOMAIN sets[k]}
        last(id)   == CHOOSE k \in having(id) : \A l \in having(id) : l <= k
    IN  [id \in UNION {DOMAIN sets[k] : k \in DOMAIN sets} |-> sets[last(id)][id]]

--------------------------------------------------------------------------
(* Start-up: LoadPolicyMap and New *)

ValidBinding(b) ==
    /\ b.sandboxes # {} /\ Malformed \notin b.sandboxes
    /\ b.policies # <<>> \/ b.groups # {}

ReadMap ==
    /\ phase = "reading"
    /\ phase' = IF map.bindings # <<>> /\ \A b \in Range(map.bindings) : ValidBinding(b)
                THEN "compiling" ELSE "failed"
    /\ UNCHANGED <<map, bindings, resolved, callVars>>

\* A document's policies are numbered, and known by the document's base name too.
Qualified(ref) ==
    [id \in {<<RefName[ref], k>> : k \in DOMAIN map.documents[ref]} |->
        map.documents[ref][id[2]]]

Compiled(b) ==
    [binding |-> b,
     policies |-> Added([k \in DOMAIN b.policies |-> Qualified(b.policies[k])])]

\* compileBinding of the next binding.
Compile ==
    /\ phase = "compiling" /\ Len(bindings) < Len(map.bindings)
    /\ bindings' = Append(bindings, Compiled(map.bindings[Len(bindings) + 1]))
    /\ UNCHANGED <<map, phase, resolved, callVars>>

\* Mutant of ReadFails: a document that cannot be read is left out.
SkipUnreadable ==
    /\ phase = "compiling"
    /\ phase' = "serving"
    /\ UNCHANGED <<map, bindings, resolved, callVars>>

\* The map or a document cannot be read or parsed, or is too long: no server.
ReadFails ==
    /\ phase \in {"reading", "compiling"}
    /\ phase' = "failed"
    /\ UNCHANGED <<map, bindings, resolved, callVars>>

Serve ==
    /\ phase = "compiling" /\ Len(bindings) = Len(map.bindings)
    /\ phase' = "serving"
    /\ UNCHANGED <<map, bindings, resolved, callVars>>

--------------------------------------------------------------------------
(* Authorize *)

Matches(b, sandbox) == \E pattern \in b.sandboxes : sandbox \in pattern

\* groupsFor.
GroupsFor(sandbox) ==
    UNION {b.binding.groups : b \in {o \in Range(bindings) : Matches(o.binding, sandbox)}}

\* policiesFor, past the cache.
Merged(caller) ==
    Added([k \in {k \in DOMAIN bindings : Matches(bindings[k].binding, caller)} |->
              bindings[k].policies])

AskFor(c, r) ==
    /\ phase = "serving" /\ call[c] = "idle"
    /\ call' = [call EXCEPT ![c] = "looking"]
    /\ request' = [request EXCEPT ![c] = r]
    /\ answer' = [answer EXCEPT ![c] = "none"]
    /\ UNCHANGED <<map, phase, bindings, resolved>>

\* The cache, under its read lock.
LookUp(c) ==
    /\ call[c] = "looking"
    /\ call' = [call EXCEPT ![c] =
                   IF request[c].caller \in DOMAIN resolved THEN "found" ELSE "missed"]
    /\ UNCHANGED <<map, phase, bindings, resolved, request, answer>>

\* Merged without a lock, and stored under the write lock whoever was first.
Store(c) ==
    /\ call[c] = "missed"
    /\ call' = [call EXCEPT ![c] = "found"]
    /\ resolved' = [caller \in DOMAIN resolved \cup {request[c].caller} |->
                       IF caller = request[c].caller THEN Merged(caller) ELSE resolved[caller]]
    /\ UNCHANGED <<map, phase, bindings, request, answer>>

\* entities: the parents of the caller and of the resource; a host has none.
Entities(r) ==
    [caller |-> GroupsFor(r.caller),
     resource |-> IF r.resource = HostResource THEN {} ELSE GroupsFor(r.resource)]

\* What IsAuthorized reports: the policies that fail and those that decide.
Diagnose(policies, r, effect) ==
    {id \in DOMAIN policies :
        policies[id].effect = effect /\ Satisfied(policies[id], r, Entities(r))}

\* Mutant of RequiresApproval: every permit has to ask for it.
AllRequireApproval(policies, reasons) == \A id \in reasons : policies[id].approval

\* anyRequiresApproval.
RequiresApproval(policies, reasons) == \E id \in reasons : policies[id].approval

\* The rest of Authorize, with the policies the cache holds by now.
Decision(policies, r) ==
    LET permits == Diagnose(policies, r, "permit")
        allowed == permits # {} /\ Diagnose(policies, r, "forbid") = {}
    IN  IF DOMAIN policies = {} THEN "unassigned"
        ELSE IF \E id \in DOMAIN policies : Errs(policies[id], r) THEN "error"
        ELSE IF ~allowed THEN "denied"
        ELSE IF RequiresApproval(policies, permits) THEN "withheld" ELSE "allowed"

Decide(c) ==
    /\ call[c] = "found"
    /\ call' = [call EXCEPT ![c] = "idle"]
    /\ answer' = [answer EXCEPT ![c] = Decision(resolved[request[c].caller], request[c])]
    /\ UNCHANGED <<map, phase, bindings, resolved, request>>

CallNext(c) ==
    \/ \E r \in Requests : AskFor(c, r)
    \/ LookUp(c) \/ Store(c) \/ Decide(c)

PolicyNext ==
    \/ ReadMap \/ Compile \/ ReadFails \/ Serve
    \/ \E c \in Calls : CallNext(c)

PolicySpec == PolicyInit /\ [][PolicyNext]_policyVars

--------------------------------------------------------------------------

Steps == {"idle", "looking", "missed", "found"}

\* The cache holds, for the callers that asked, what a fresh look would find.
PolicyTypeOK ==
    /\ phase \in {"reading", "compiling", "serving", "failed"}
    /\ \A k \in DOMAIN bindings : bindings[k] = Compiled(map.bindings[k])
    /\ phase = "serving" => Len(bindings) = Len(map.bindings)
    /\ \A caller \in DOMAIN resolved : resolved[caller] = Merged(caller)
    /\ call \in [Calls -> Steps]
    /\ \A c \in Calls : call[c] # "idle" => request[c] # NoRequest
    /\ answer \in [Calls -> {"none", "unassigned", "error", "denied", "withheld", "allowed"}]
    /\ \A c \in Calls : call[c] = "found" => request[c].caller \in DOMAIN resolved

J == INSTANCE Judge WITH open <- phase = "serving", asked <- request, verdict <- answer

\* Whatever is read in whatever order and whoever fills the cache, a server that
\* answers has the whole map, and answers what every rule of every matching binding
\* together says (main.go:363-368, bindings.go:28-31).
ImplementsJudge == J!JudgeSpec

\* No command is let through against a forbid in a document that is bound to its
\* caller (bindings.go:29-31, authz.go:147-150).
ForbidsHold ==
    \A c \in Calls : answer[c] \in {"allowed", "withheld"} =>
        J!Answering(request[c], "forbid") = {}
==========================================================================
