---------------------------- MODULE MCPolicy -----------------------------
(* A catalog of each kind of command that catalog.json has, the tokens that *)
(* argument lists are made of, and the policy maps and requests of Policy:  *)
(* what its calls ask is what Context says of a few lists.                  *)
EXTENDS Context, Policy

Flag(name, letter, takesValue) ==
    [name |-> name, letter |-> letter, takesValue |-> takesValue]
Slot(name, kind, optional, variadic, choices) ==
    [name |-> name, kind |-> kind, optional |-> optional, variadic |-> variadic,
     choices |-> choices]

DebugFlag == Flag("debug", "D", FALSE)
ScopeFlag == Flag("scope", "", TRUE)
SandboxFlag == Flag("sandbox", "", TRUE)

Root == [flags |-> {DebugFlag}, slots |-> <<>>, passThrough |-> FALSE, stops |-> FALSE]

\* exec stops at its first argument, run passes through, auth is also a group and
\* its rm chooses; cp names two paths, rm any number of sandboxes, ls --sandbox one.
Commands ==
    (<<>> :> Root) @@
    (<<"exec">> :> [Root EXCEPT
        !.flags = {DebugFlag, Flag("tty", "t", FALSE), Flag("user", "u", TRUE)},
        !.slots = <<Slot("SANDBOX", "sandbox", FALSE, FALSE, {}),
                    Slot("ARG", "command", TRUE, TRUE, {})>>,
        !.stops = TRUE]) @@
    (<<"run">> :> [Root EXCEPT
        !.slots = <<Slot("AGENT", "other", TRUE, FALSE, {}), Slot("PATH", "path", TRUE, TRUE, {})>>,
        !.passThrough = TRUE]) @@
    (<<"auth">> :> [Root EXCEPT !.flags = {DebugFlag, ScopeFlag},
        !.slots = <<Slot("SERVER", "other", TRUE, FALSE, {})>>]) @@
    (<<"auth", "rm">> :> [Root EXCEPT !.flags = {DebugFlag, ScopeFlag},
        !.slots = <<Slot("SERVER", "other", FALSE, FALSE, {Word(<<"rm">>), Word(<<"run">>)})>>]) @@
    (<<"cp">> :> [Root EXCEPT
        !.slots = <<Slot("SRC", "path", FALSE, FALSE, {}), Slot("DST", "path", FALSE, FALSE, {})>>]) @@
    (<<"rm">> :> [Root EXCEPT !.slots = <<Slot("SANDBOX", "sandbox", TRUE, TRUE, {})>>]) @@
    (<<"ls">> :> [Root EXCEPT !.flags = {DebugFlag, SandboxFlag}])

Grammar ==
    {Word(<<w>>) : w \in {"exec", "run", "auth", "rm"}} \cup
    {DashDash, Long("scope"), LongWith("scope", <<"x">>)} \cup
    {Short(<<"D">>), Short(<<"t", "u">>), Short(<<"u", "=", "D">>), Short(<<"D", "=", "t">>)}

Self  == Word(<<"self">>)
Other == Word(<<"other">>)

Names ==
    {Word(<<w>>) : w \in {"cp", "rm", "ls", "run"}} \cup
    {Self, Other, Word(<<"self:/p">>), Word(<<"/w/a/../..">>), Word(<<"/w/a">>), Word(<<"..">>)}
        \cup {Long("sandbox"), LongWith("sandbox", <<"self">>)}

\* What the tokens are as paths.
Relative(token) == [box |-> NoBox, absolute |-> FALSE, elements |-> token.text]

Spellings ==
    (Word(<<"self:/p">>)    :> [box |-> Self, absolute |-> TRUE, elements |-> <<"p">>]) @@
    (Word(<<"/w/a/../..">>) :> [box |-> NoBox, absolute |-> TRUE, elements |-> <<"w", "a", "..", "..">>]) @@
    (Word(<<"/w/a">>)       :> [box |-> NoBox, absolute |-> TRUE, elements |-> <<"w", "a">>]) @@
    [token \in Grammar \cup Names |-> Relative(token)]

Workdir == Path(TRUE, <<"w">>)

Lists == {<<Word(<<"rm">>), Self>>, <<Word(<<"rm">>), Self, Other>>, <<Word(<<"ls">>)>>,
          <<Word(<<"cp">>), Word(<<"/w/a">>), Word(<<"..">>)>>}

Described ==
    {Describe(list, Argv(list), caller, Workdir) : list \in Lists, caller \in {Self, Other}}

MCActionGroups ==
    (<<"rm">> :> {"destroySandbox"}) @@ (<<"cp">> :> {"touchHostFiles", "changeSandbox"})

Rule(effect, approval, scope, kind, of) ==
    [effect |-> effect, approval |-> approval, scope |-> scope,
     when |-> [kind |-> kind, of |-> of]]

\* One document lets a sandbox act on itself and forbids files elsewhere, one permits
\* everything to workers, one asks before anything is destroyed, one reads a name
\* that a host does not have, and one is empty.
Documents ==
    [self    |-> <<Rule("permit", FALSE, AnyAction, "targetsSelf", ""),
                   Rule("forbid", FALSE, "touchHostFiles", "outsideWorkdir", "")>>,
     workers |-> <<Rule("permit", FALSE, AnyAction, "principalIn", "workers")>>,
     ask     |-> <<Rule("permit", TRUE, "destroySandbox", "always", ""),
                   Rule("permit", FALSE, "changeSandbox", "resourceIn", "workers")>>,
     named   |-> <<Rule("forbid", FALSE, AnyAction, "resourceNamed", Other)>>,
     empty   |-> <<>>]

Everyone == {Self, Other}
Bind(sandboxes, policies, groups) ==
    [sandboxes |-> sandboxes, policies |-> policies, groups |-> groups]
Map(bound) == [bindings |-> bound, documents |-> Documents]

PolicyMaps ==
    {Map(<<Bind({Everyone}, <<"self", "ask">>, {}), Bind({{Self}}, <<"workers">>, {"workers"})>>),
     Map(<<Bind({Everyone}, <<"self">>, {"workers"}), Bind({{Self}, Everyone}, <<"self", "workers">>, {})>>),
     Map(<<Bind({{Other}}, <<"empty">>, {"workers"}), Bind({{Self}}, <<"named", "workers">>, {})>>),
     Map(<<Bind({Everyone}, <<"self">>, {}), Bind({Malformed}, <<"workers">>, {})>>),
     Map(<<Bind({Everyone}, <<>>, {})>>), Map(<<>>)}

\* Documents of different names, or all of one name in directories of their own.
MCNames   == [ref \in DOMAIN Documents |-> ref]
MCOneName == [ref \in DOMAIN Documents |-> "policy.cedar"]

\* TLC evaluates what a constant is replaced by at each use, and what that names once.
MCCatalog  == Commands
MCSpelling == Spellings
MCRequests == Described
MCMaps     == PolicyMaps
==========================================================================
