------------------------------ MODULE Lists ------------------------------
(***************************************************************************)
(* Argument lists of every kind, typed token by token, and what resolving  *)
(* and describing each of them must amount to.                             *)
(***************************************************************************)
EXTENDS Context

CONSTANTS
    Alphabets,        \* sets of tokens that lists are made of
    MaxTokens,
    Caller,           \* the sandbox that asks
    Workdirs,
    Directories       \* directories that rules ask about

VARIABLES argv, alphabet

listVars == <<argv, alphabet>>

\* What stands between the separators of a path is not empty.
IsElements(elements) == elements \in Seq(STRING) /\ "" \notin Range(elements)

\* As paths, too, tokens are well formed; a working directory is absolute.
ASSUME ListsAssumption ==
    /\ \A tokens \in Alphabets : \A t \in tokens : IsToken(t) /\ IsElements(Spelling[t].elements)
    /\ \A workdir \in Workdirs : workdir.absolute = TRUE /\ IsElements(workdir.elements)
    /\ \A elements \in Directories : IsElements(elements)

ListsInit == argv = <<>> /\ alphabet \in Alphabets

Type ==
    /\ Len(argv) < MaxTokens
    /\ \E token \in alphabet : argv' = Append(argv, token)
    /\ UNCHANGED alphabet

ListsSpec == ListsInit /\ [][Type]_listVars

\* What is authorized is what the argument list says of the command found: the walk
\* steps over flags with one command's arity and the parse reads them with
\* another's (resolve.go:114-118, 136-144, 191-240).
ResolvesAsRead == ResolvedAsRead(argv)

\* Nothing is refused that has a reading (resolve.go:7-9).
RefusesTheUnread == RefusedIfUnread(argv)

\* What a policy is told of a list holds of every sandbox and every host file that
\* the command will touch, in whatever directory sbx runs (context.go:39-75, 108-134).
DescribedAsRead ==
    \A workdir \in Workdirs : DescribedAsTouched(argv, Caller, workdir, Directories)
==========================================================================
