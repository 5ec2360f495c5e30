------------------------------ MODULE Cedar ------------------------------
(***************************************************************************)
(* The part of the Cedar language that the policies of this system use,    *)
(* and the groups that internal/authz/actions.go gives to commands.  The   *)
(* engine, cedar-go, is a library.                                         *)
(*                                                                         *)
(* A policy is [effect, approval, scope, when]: its scope is a group of    *)
(* actions or AnyAction, and its condition [kind, of] reads the request    *)
(* that Context describes.                                                 *)
(***************************************************************************)
EXTENDS Naturals

CONSTANTS
    ActionGroups,     \* actionGroups: command -> set of groups
    AnyAction,
    HostResource      \* the resource that is no sandbox and has no name

\* Groups: a command that is not classified belongs to none.
Groups(action) ==
    IF action \in DOMAIN ActionGroups THEN ActionGroups[action] ELSE {}

InScope(policy, request) ==
    policy.scope = AnyAction \/ policy.scope \in Groups(request.action)

\* A host has no attribute to read.
Fails(condition, request) ==
    condition.kind = "resourceNamed" /\ request.resource = HostResource

\* groups are those of the caller and those of the resource.
Holds(condition, request, groups) ==
    CASE condition.kind = "always"         -> TRUE
      [] condition.kind = "targetsSelf"    -> request.targetsSelf
      [] condition.kind = "outsideWorkdir" -> ~request.hostPathsUnderWorkdir
      [] condition.kind = "principalIn"    -> condition.of \in groups.caller
      [] condition.kind = "resourceIn"     -> condition.of \in groups.resource
      [] condition.kind = "resourceNamed"  -> request.resource = condition.of

Errs(policy, request) == InScope(policy, request) /\ Fails(policy.when, request)

Satisfied(policy, request, groups) ==
    /\ InScope(policy, request) /\ ~Fails(policy.when, request)
    /\ Holds(policy.when, request, groups)
==========================================================================
