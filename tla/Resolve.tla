----------------------------- MODULE Resolve -----------------------------
(***************************************************************************)
(* internal/resolve: from an argument list to the command, the flags and   *)
(* the positional arguments that sbx will see.  Positions of the list      *)
(* stand for the tokens there, so a token that is dropped, doubled or read *)
(* in another's place shows.                                               *)
(*                                                                         *)
(* Catalog maps a command's path to its entry.  A path is the text that    *)
(* catalog.key makes of it, so a word with spaces in it counts as several. *)
(***************************************************************************)
EXTENDS Naturals, SequencesExt

CONSTANT Catalog

\* A command reads the flags of its ancestors as they do, every command has those of
\* sbx itself, and a command's groups are in the catalog.  catalog.json is so.
ASSUME CatalogAssumption ==
    /\ <<>> \in DOMAIN Catalog
    /\ DOMAIN Catalog \subseteq Seq(STRING)
    /\ \A p \in DOMAIN Catalog :
        /\ Catalog[<<>>].flags \subseteq Catalog[p].flags
        /\ p # <<>> => Front(p) \in DOMAIN Catalog
    /\ \A p, q \in DOMAIN Catalog : IsPrefix(p, q) =>
           \A f \in Catalog[p].flags, g \in Catalog[q].flags :
               f.name = g.name \/ (f.letter = g.letter /\ f.letter # "") => f = g

\* Tokens: a word (also "-"), "--", a long flag, a cluster of shorthands.
Token(kind, text, attached) == [kind |-> kind, text |-> text, attached |-> attached]
Word(parts)          == Token("word", parts, FALSE)
DashDash             == Token("dashdash", <<>>, FALSE)
Long(name)           == Token("long", <<name>>, FALSE)
LongWith(name, parts) == Token("long", <<name>> \o parts, TRUE)
Short(letters)       == Token("short", letters, FALSE)

IsFlag(token) == token.kind \in {"long", "short"}

\* A token whose text, if it is a word, has no spaces in it.
IsToken(t) ==
    /\ t.kind = "word"     => Len(t.text) = 1 /\ t.text[1] \in STRING /\ t = Word(<<t.text[1]>>)
    /\ t.kind = "dashdash" => t = DashDash
    /\ t.kind = "long"     => t.text \in Seq(STRING) /\ t.text # <<>>
    /\ t.kind = "short"    => t.text \in Seq(STRING) /\ \A k \in DOMAIN t.text : t.text[k] # ""
    /\ t.kind \in {"word", "dashdash", "long", "short"}

\* A value of a flag: what it is taken from, and where.
Value(from, at) == [from |-> from, at |-> at]

LongFlag(cmd, name)     == {f \in cmd.flags : f.name = name}
ShortFlag(cmd, letter)  == {f \in cmd.flags : f.letter = letter}
TakesValue(cmd, letter) == \E f \in ShortFlag(cmd, letter) : f.takesValue

Upto(m, n) == [k \in 1 .. n + 1 - m |-> m + k - 1]

--------------------------------------------------------------------------
(* parseShorthands and parseLong *)

\* "-u=root", of any flag, with something after the sign.
Attached(letters, k) == k + 1 < Len(letters) /\ letters[k + 1] = "="

\* The letter that ends the cluster: it has or takes a value.
Ending(cmd, letters) ==
    {k \in 1 .. Len(letters) :
        /\ Attached(letters, k) \/ TakesValue(cmd, letters[k])
        /\ \A j \in 1 .. k - 1 : ~Attached(letters, j) /\ ~TakesValue(cmd, letters[j])}

\* The letters that are read as flags.
FlagLetters(cmd, letters) ==
    1 .. (IF Ending(cmd, letters) = {} THEN Len(letters)
          ELSE CHOOSE k \in Ending(cmd, letters) : TRUE)

NeedsNextShort(cmd, letters) ==
    \E k \in Ending(cmd, letters) : k = Len(letters)

NeedsNextLong(cmd, token) ==
    ~token.attached /\ \E f \in LongFlag(cmd, token.text[1]) : f.takesValue

NeedsNext(cmd, token) ==
    \/ token.kind = "long" /\ NeedsNextLong(cmd, token)
    \/ token.kind = "short" /\ NeedsNextShort(cmd, token.text)

Known(cmd, token) ==
    IF token.kind = "long" THEN LongFlag(cmd, token.text[1]) # {}
    ELSE \A k \in FlagLetters(cmd, token.text) : ShortFlag(cmd, token.text[k]) # {}

\* What a flag token at position i gives, and to which flags, if the value that it
\* needs and does not carry is the token at next.
Given(cmd, token, i, next) ==
    IF token.kind = "long"
    THEN {<<token.text[1], IF token.attached THEN Value("attached", i)
                           ELSE IF NeedsNextLong(cmd, token) THEN Value("token", next)
                           ELSE Value("true", i)>>}
    ELSE {<<fk[1].name, IF Attached(token.text, fk[2]) \/ (fk[1].takesValue /\ fk[2] < Len(token.text))
                        THEN Value("attached", i)
                        ELSE IF fk[1].takesValue THEN Value("token", next) ELSE Value("true", i)>> :
              fk \in {gl \in cmd.flags \X FlagLetters(cmd, token.text) :
                          gl[1].letter = token.text[gl[2]]}}

--------------------------------------------------------------------------
(* findCommand *)

Refused == [ok |-> FALSE]

\* Mutant of Occupies: a flag before the subcommand never takes the next token.
OccupiesOne(cmd, argv, i) == IF Known(cmd, argv[i]) THEN 1 ELSE 0

\* skipFlag: the tokens a flag occupies, or none if it cannot be resolved.
Occupies(cmd, argv, i) ==
    IF ~Known(cmd, argv[i]) \/ (NeedsNext(cmd, argv[i]) /\ i = Len(argv)) THEN 0
    ELSE IF NeedsNext(cmd, argv[i]) THEN 2 ELSE 1

\* What findCommand has after some of the tokens: the words of the command, the
\* tokens left to parse, and whether the next one is still looked at.
Found(at, path, rest) == [at |-> at, path |-> path, rest |-> rest]

WalkOn(argv, found, i) ==
    LET cmd    == Catalog[found.path]
        longer == found.path \o argv[i].text
        kept   == Append(found.rest, i)
    IN  CASE found.at = "value" -> Found("command", found.path, kept)
          [] found.at = "command" /\ IsFlag(argv[i]) ->
               Found(IF Occupies(cmd, argv, i) = 0 THEN "refused"
                     ELSE IF Occupies(cmd, argv, i) = 2 THEN "value" ELSE "command",
                     found.path, kept)
          [] found.at = "command" /\ argv[i].kind = "word" /\ longer \in DOMAIN Catalog ->
               Found("command", longer, found.rest)
          [] OTHER -> Found(IF found.at = "refused" THEN "refused" ELSE "rest", found.path, kept)

\* findCommand, by the number of tokens it has seen.
Walk(argv) ==
    LET walk[n \in 0 .. Len(argv)] ==
            IF n = 0 THEN Found("command", <<>>, <<>>) ELSE WalkOn(argv, walk[n - 1], n)
    IN  walk

FindCommand(argv) == Walk(argv)[Len(argv)]

--------------------------------------------------------------------------
(* Invocation.parse and fillSlots *)

\* Mutant of AfterDashes: what a command passes through is read as arguments.
AfterDashesRead(cmd) == "arguments"

\* What follows a bare "--" is.
AfterDashes(cmd) == IF cmd.passThrough THEN "opaque" ELSE "arguments"

\* What follows an argument is.
AfterArgument(cmd, at) ==
    IF at = "tokens" /\ ~cmd.stops THEN "tokens"
    ELSE IF at = "tokens" THEN "first of arguments" ELSE "arguments"

Parsed(at, flags, arguments, opaque) ==
    [at |-> at, flags |-> flags, arguments |-> arguments, opaque |-> opaque]

\* The k-th token of what is left.  A flag has taken what stands at "value"; of the
\* arguments that a command stops at, a leading "--" is dropped.
ParseOn(cmd, argv, rest, inv, k) ==
    LET i     == rest[k]
        token == argv[i]
        next  == NeedsNext(cmd, token)
    IN  CASE inv.at = "value" -> [inv EXCEPT !.at = "tokens"]
          [] inv.at = "tokens" /\ token = DashDash -> [inv EXCEPT !.at = AfterDashes(cmd)]
          [] inv.at = "tokens" /\ IsFlag(token) ->
               IF ~Known(cmd, token) \/ (next /\ k = Len(rest)) THEN [inv EXCEPT !.at = "refused"]
               ELSE [inv EXCEPT !.at = IF next THEN "value" ELSE "tokens",
                                !.flags = Append(@, Given(cmd, token, i, IF next THEN rest[k + 1] ELSE 0))]
          [] inv.at = "first of arguments" /\ token = DashDash -> [inv EXCEPT !.at = "arguments"]
          [] inv.at = "opaque" -> [inv EXCEPT !.opaque = Append(@, i)]
          [] inv.at = "refused" -> inv
          [] OTHER -> [inv EXCEPT !.at = AfterArgument(cmd, inv.at), !.arguments = Append(@, i)]

\* Invocation.parse, by the number of tokens it has seen.
Parse(cmd, argv, rest) ==
    LET parse[k \in 0 .. Len(rest)] ==
            IF k = 0 THEN Parsed("tokens", <<>>, <<>>, <<>>)
            ELSE ParseOn(cmd, argv, rest, parse[k - 1], k)
    IN  parse

\* The slot that an argument fills, if there is one.
SlotAt(slots, i) ==
    IF i <= Len(slots) THEN {slots[i]}
    ELSE {s \in Range(slots) : s = Last(slots) /\ s.variadic}

Fits(cmd, argv, arguments) ==
    /\ \A i \in DOMAIN arguments : \E s \in SlotAt(cmd.slots, i) :
           s.choices # {} => argv[arguments[i]] \in s.choices
    /\ \A i \in Len(arguments) + 1 .. Len(cmd.slots) :
           cmd.slots[i].optional \/ cmd.slots[i].variadic

\* resolve.Argv; a pure group that is given a word has no slot for it.
Argv(argv) ==
    LET found == FindCommand(argv)
        cmd   == Catalog[found.path]
        inv   == Parse(cmd, argv, found.rest)[Len(found.rest)]
    IN  IF found.at = "refused" \/ inv.at = "refused" \/ ~Fits(cmd, argv, inv.arguments)
        THEN Refused
        ELSE [ok |-> TRUE, path |-> found.path, flags |-> inv.flags,
              arguments |-> inv.arguments, opaque |-> inv.opaque]

--------------------------------------------------------------------------
(* A reading of an argument list, all at once *)

\* Where the values of flags are, and the last token that is read for flags.
Readings(argv) ==
    [values : SUBSET {i \in 2 .. Len(argv) : IsFlag(argv[i - 1])}, last : 0 .. Len(argv)]

InOrder(S) ==
    [k \in 1 .. Cardinality(S) |-> CHOOSE i \in S : Cardinality({j \in S : j <= i}) = k]

FlagsIn(argv, r) == InOrder({i \in (1 .. r.last) \ r.values : IsFlag(argv[i])})
WordsIn(argv, r) == InOrder({i \in (1 .. r.last) \ r.values : ~IsFlag(argv[i])})

\* The words that are not the command's own.
Plain(argv, path, r) == SubSeq(WordsIn(argv, r), Len(path) + 1, Len(WordsIn(argv, r)))

\* A command that stops reading flags at an argument has been given one.
Stopped(argv, path, r) == Catalog[path].stops /\ Plain(argv, path, r) # <<>>

\* What is left, without a leading "--".
AfterLast(argv, r) ==
    Upto(IF r.last < Len(argv) /\ argv[r.last + 1] = DashDash THEN r.last + 2 ELSE r.last + 1,
         Len(argv))

IsReading(argv, path, r) ==
    LET cmd == Catalog[path]  words == WordsIn(argv, r)  plain == Plain(argv, path, r)
    IN  /\ \A i \in Range(FlagsIn(argv, r)) :
               Known(cmd, argv[i]) /\ (NeedsNext(cmd, argv[i]) => i + 1 \in r.values)
        /\ \A i \in r.values : i <= r.last /\ \E j \in Range(FlagsIn(argv, r)) :
               j + 1 = i /\ NeedsNext(cmd, argv[j])
        /\ \A i \in Range(words) : argv[i] # DashDash
        /\ IF Stopped(argv, path, r) THEN plain = <<r.last>>
           ELSE r.last < Len(argv) => argv[r.last + 1] = DashDash
        /\ Len(words) >= Len(path)
        /\ \A i \in 1 .. Len(path) : argv[words[i]] = Word(<<path[i]>>)
        /\ plain # <<>> => path \o argv[plain[1]].text \notin DOMAIN Catalog

FlagsRead(argv, path, r) ==
    [k \in DOMAIN FlagsIn(argv, r) |->
        LET i == FlagsIn(argv, r)[k] IN Given(Catalog[path], argv[i], i, i + 1)]

\* What a command forwards is not its own to read, but for arguments it stops at.
Forwards(argv, path, r) == Catalog[path].passThrough /\ ~Stopped(argv, path, r)

ArgumentsRead(argv, path, r) ==
    Plain(argv, path, r) \o
        (IF Forwards(argv, path, r) THEN <<>> ELSE AfterLast(argv, r))

OpaqueRead(argv, path, r) ==
    IF Forwards(argv, path, r) THEN AfterLast(argv, r) ELSE <<>>

\* What stands before the command's last word is what every command takes.
StartsPlainly(argv, path, r) ==
    \A i \in Range(FlagsIn(argv, r)) :
        path # <<>> /\ i < WordsIn(argv, r)[Len(path)] => Known(Catalog[<<>>], argv[i])

\* What is authorized is what the argument list says of the command found: the walk
\* steps over flags with one command's arity and the parse reads them with
\* another's (resolve.go:114-118, 136-144, 191-240).
ResolvedAsRead(argv) ==
    LET inv == Argv(argv)
    IN  inv.ok => \E r \in Readings(argv) :
            /\ IsReading(argv, inv.path, r)
            /\ inv.flags = FlagsRead(argv, inv.path, r)
            /\ inv.arguments = ArgumentsRead(argv, inv.path, r)
            /\ inv.opaque = OpaqueRead(argv, inv.path, r)
            /\ Fits(Catalog[inv.path], argv, inv.arguments)

\* Nothing else is refused: a list that has a reading resolves to its command, if
\* what precedes the command is what every command takes (resolve.go:7-9).
RefusedIfUnread(argv) ==
    \A path \in DOMAIN Catalog : \A r \in Readings(argv) :
        (/\ IsReading(argv, path, r)
         /\ Fits(Catalog[path], argv, ArgumentsRead(argv, path, r))
         /\ StartsPlainly(argv, path, r))
        => Argv(argv).ok /\ Argv(argv).path = path
==========================================================================
