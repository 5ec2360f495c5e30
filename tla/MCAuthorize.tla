--------------------------- MODULE MCAuthorize ---------------------------
(* Every argument list of at most MaxTokens tokens of one of two alphabets: *)
(* flags and words of each kind of command, or commands that name sandboxes *)
(* and paths.  Or no list at all, and Policy's calls.                       *)
EXTENDS Lists, MCPolicy

MCAlphabets == {Grammar, Names, {}}
MCSelf      == Self
MCWorkdirs  == {Path(TRUE, <<>>), Path(TRUE, <<"w">>), Path(TRUE, <<"w", "a">>)}

MCDirectories == {<<>>, <<"w">>, <<"w", "a">>, <<"w", "a", "other">>, <<"p">>}

Init == ListsInit /\ PolicyInit /\ (alphabet # {} => map = Map(<<>>))

Types   == Type /\ UNCHANGED policyVars
Decides == alphabet = {} /\ PolicyNext /\ UNCHANGED listVars

Spec == Init /\ [][Types \/ Decides]_<<listVars, policyVars>>
==========================================================================
