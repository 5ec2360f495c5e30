----------------------------- MODULE Context -----------------------------
(***************************************************************************)
(* internal/authz/context.go, and the accessors of an Invocation in        *)
(* internal/resolve: what a policy is told about a resolved argument list. *)
(*                                                                         *)
(* Spelling says what a token is as a path: the "sandbox:/path" form, or a *)
(* host path as its elements.  Names of sandboxes are tokens.              *)
(***************************************************************************)
EXTENDS Resolve

CONSTANTS
    Spelling,         \* token -> [box, absolute, elements]
    NoBox,            \* the box of a token that is not "sandbox:/path"
    Host              \* the resource of a command that names no sandbox

Path(absolute, elements) == [absolute |-> absolute, elements |-> elements]

Kinds == {"sandbox", "path", "command", "reference", "network", "other"}

--------------------------------------------------------------------------
(* Invocation's accessors *)

\* The text that a flag's value stands for, as a token.
TextOf(argv, value) ==
    CASE value.from = "token"    -> argv[value.at]
      [] value.from = "true"     -> Word(<<"true">>)
      [] value.from = "attached" -> Word(Tail(argv[value.at].text))

FlagNames(inv) == {g[1] : g \in UNION Range(inv.flags)}

\* Flag: the last value given.  A flag without a shorthand is given once per token.
GivenFor(inv, name) == SelectSeq(inv.flags, LAMBDA given : \E g \in given : g[1] = name)

LastValue(argv, inv, name) ==
    TextOf(argv, (CHOOSE g \in Last(GivenFor(inv, name)) : g[1] = name)[2])

ValuesOfKind(argv, inv, kind) ==
    LET filled == InOrder({i \in DOMAIN inv.arguments :
                              \E s \in SlotAt(Catalog[inv.path].slots, i) : s.kind = kind})
    IN  [k \in DOMAIN filled |-> argv[inv.arguments[filled[k]]]]

\* The paths that a command is given: of a sandbox, or of the host.
Paths(argv, inv, ofHost) ==
    LET given == ValuesOfKind(argv, inv, "path")
        these == InOrder({k \in DOMAIN given : (Spelling[given[k]].box = NoBox) = ofHost})
    IN  [k \in DOMAIN these |-> Spelling[given[these[k]]]]

--------------------------------------------------------------------------
(* Sandboxes *)

NamedByFlag(argv, inv) ==
    IF "sandbox" \notin FlagNames(inv) \/ LastValue(argv, inv, "sandbox") = Word(<<>>) THEN <<>>
    ELSE <<LastValue(argv, inv, "sandbox")>>

NamedByPath(argv, inv) ==
    LET paths == Paths(argv, inv, FALSE) IN [k \in DOMAIN paths |-> paths[k].box]

\* namedSandboxes; what the duplicates would add, nothing here can tell.
NamedSandboxes(argv, inv) ==
    NamedByFlag(argv, inv) \o ValuesOfKind(argv, inv, "sandbox") \o NamedByPath(argv, inv)

TargetsOnly(names, caller) == names # <<>> /\ \A name \in Range(names) : name = caller

TargetOf(argv, inv) ==
    IF NamedSandboxes(argv, inv) = <<>> THEN Host ELSE NamedSandboxes(argv, inv)[1]

--------------------------------------------------------------------------
(* Paths *)

\* filepath.Clean, by the number of elements it has seen.  Above "/" is "/"; a
\* relative path keeps the ".." it begins with.
CleanOn(path, at, element) ==
    IF element = "." THEN at
    ELSE IF element # ".." THEN Append(at, element)
    ELSE IF at # <<>> /\ Last(at) # ".." THEN Front(at)
    ELSE IF path.absolute THEN at ELSE Append(at, element)

Cleaned(path) ==
    LET cleaned[n \in 0 .. Len(path.elements)] ==
            IF n = 0 THEN <<>> ELSE CleanOn(path, cleaned[n - 1], path.elements[n])
    IN  cleaned

Clean(path) == Path(path.absolute, Cleaned(path)[Len(path.elements)])

\* Mutant of CanonicalPath: a path that is absolute is taken as it is.
CanonicalUncleaned(spelled, workdir) ==
    IF spelled.absolute THEN Path(TRUE, spelled.elements)
    ELSE Clean(Path(workdir.absolute, workdir.elements \o spelled.elements))

CanonicalPath(spelled, workdir) ==
    IF spelled.absolute THEN Clean(Path(TRUE, spelled.elements))
    ELSE Clean(Path(workdir.absolute, workdir.elements \o spelled.elements))

\* splitPaths.
HostPaths(argv, inv, workdir) ==
    LET paths == Paths(argv, inv, TRUE) IN [k \in DOMAIN paths |-> CanonicalPath(paths[k], workdir)]

\* strings.HasPrefix(p, root + "/"): "//" and "./" begin no canonical path.
HasPrefix(path, root) ==
    /\ path.absolute = root.absolute
    /\ root.elements # <<>>
    /\ IsStrictPrefix(root.elements, path.elements)

AllUnder(paths, workdir) ==
    \A path \in Range(paths) : path = Clean(workdir) \/ HasPrefix(path, Clean(workdir))

\* strings.Split by "/": what is before the first one of an absolute path is empty.
Parts(path) ==
    IF path.elements = <<>> THEN IF path.absolute THEN <<"", "">> ELSE <<".">>
    ELSE IF path.absolute THEN <<"">> \o path.elements ELSE path.elements

\* strings.Join, where what comes out empty is "/".
Joined(parts) ==
    IF parts \in {<<>>, <<"">>, <<"", "">>} THEN Path(TRUE, <<>>)
    ELSE IF parts[1] = "" THEN Path(TRUE, Tail(parts))
    ELSE IF parts = <<".">> THEN Path(FALSE, <<>>)
    ELSE Path(FALSE, parts)

CommonAncestor(paths) == Joined(LongestCommonPrefix({Parts(p) : p \in Range(paths)}))

--------------------------------------------------------------------------

\* buildContext, with the action and the resource.  hostPathsRoot is left out when
\* there are no host paths, where it is the empty text.
Describe(argv, inv, caller, workdir) ==
    LET hostPaths == HostPaths(argv, inv, workdir)
    IN  [caller |-> caller, action |-> inv.path, resource |-> TargetOf(argv, inv),
         flags |-> FlagNames(inv),
         values |-> [kind \in Kinds |-> Range(ValuesOfKind(argv, inv, kind))],
         hostPaths |-> Range(hostPaths),
         hostPathsRoot |-> IF hostPaths = <<>> THEN {} ELSE {CommonAncestor(hostPaths)},
         hostPathsUnderWorkdir |-> AllUnder(hostPaths, workdir),
         targetsSelf |-> TargetsOnly(NamedSandboxes(argv, inv), caller),
         forwardsArguments |-> inv.opaque # <<>>]

--------------------------------------------------------------------------
(* What the list says, and where its paths lead *)

FilledBy(argv, inv, kind) ==
    {argv[inv.arguments[i]] : i \in {j \in DOMAIN inv.arguments :
        \E s \in SlotAt(Catalog[inv.path].slots, j) : s.kind = kind}}

\* Every sandbox that the command touches.
Touched(argv, inv) ==
    FilledBy(argv, inv, "sandbox")
      \cup ({Spelling[t].box : t \in FilledBy(argv, inv, "path")} \ {NoBox})
      \cup Range(NamedByFlag(argv, inv))

\* Where a walk along some of the elements is that starts in the directory at.
Step(at, element) ==
    CASE element = "."  -> at
      [] element = ".." -> IF at = <<>> THEN at ELSE Front(at)
      [] OTHER          -> Append(at, element)

Along(at, elements) ==
    LET along[n \in 0 .. Len(elements)] ==
            IF n = 0 THEN at ELSE Step(along[n - 1], elements[n])
    IN  along

Walked(at, elements) == Along(at, elements)[Len(elements)]

\* Where sbx, running in workdir, finds the host files that the list names.
Reached(argv, inv, workdir) ==
    {Walked(IF path.absolute THEN <<>> ELSE Walked(<<>>, workdir.elements), path.elements) :
        path \in {Spelling[t] : t \in {u \in FilledBy(argv, inv, "path") : Spelling[u].box = NoBox}}}

\* What a policy is told holds of every sandbox and every host file that the command
\* will touch: it acts on the caller alone, its files are all under the working
\* directory, they are all under a directory D exactly when their common ancestor
\* is.  Of an absolute working directory; for "/" nothing but itself counts as
\* under it (context.go:39-54, 68-75, 108-134).
DescribedAsTouched(argv, caller, workdir, directories) ==
    \A inv \in {Argv(argv)} : inv.ok =>
        \A told \in {Describe(argv, inv, caller, workdir)} :
            LET touched == Touched(argv, inv)
                reached == Reached(argv, inv, workdir)
                dir     == Walked(<<>>, workdir.elements)
            IN  /\ told.targetsSelf <=> touched = {caller}
                /\ IF touched = {} THEN told.resource = Host ELSE told.resource \in touched
                /\ told.hostPathsUnderWorkdir => \A at \in reached : IsPrefix(dir, at)
                /\ dir # <<>> /\ (\A at \in reached : IsPrefix(dir, at)) => told.hostPathsUnderWorkdir
                /\ \A root \in told.hostPathsRoot, d \in directories :
                      IsPrefix(d, root.elements) <=> \A at \in reached : IsPrefix(d, at)
==========================================================================
