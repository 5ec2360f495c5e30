----------------------------- MODULE KeyFile -----------------------------
(***************************************************************************)
(* The identity key and its tokens, internal/identity/identity.go.  A      *)
(* server and every grant call LoadOrCreateKey on one file: nothing locks  *)
(* it, and it is created by opening, truncating and writing in place.      *)
(*                                                                         *)
(* A key is known by the process that generated it.  A field of a token is *)
(* a tuple: <<text>> for a piece of text without a dot, a triple for a MAC *)
(* (an HMAC is taken to be equal only for equal key, name and generation). *)
(***************************************************************************)
EXTENDS Naturals, Sequences

CONSTANTS
    Processes,        \* servers and grants, each run once
    NoKey

ASSUME KeyFileAssumption ==
    /\ NoKey \notin Processes
    /\ {"absent", "partial"} \intersect Processes = {}

VARIABLES
    keyFile,          \* "absent", "partial" (short of a key), or the key in it
    keyPc,            \* where each process is in LoadOrCreateKey
    key,              \* the key each process holds
    loaded,           \* history: processes that read the file since it was last removed
    raced             \* history: two processes were creating the file at once

keyVars == <<keyFile, keyPc, key, loaded, raced>>

Creating == {p \in Processes : keyPc[p] \in {"creating", "truncated"}}

KeyGoto(p, pc) == keyPc' = [keyPc EXCEPT ![p] = pc]

KeyInit ==
    /\ keyFile = "absent"
    /\ keyPc = [p \in Processes |-> "idle"]
    /\ key = [p \in Processes |-> NoKey]
    /\ loaded = {}
    /\ raced = FALSE

--------------------------------------------------------------------------
(* LoadOrCreateKey *)

\* The file is not there: the process goes on to create it.
MissKey(p) ==
    /\ keyPc[p] = "idle" /\ keyFile = "absent"
    /\ KeyGoto(p, "creating")
    /\ raced' = (raced \/ Creating # {})
    /\ UNCHANGED <<keyFile, key, loaded>>

\* Mutant of ReadKey: the length of what was read is not checked.
ReadShortKey(p) ==
    /\ keyPc[p] = "idle" /\ keyFile # "absent"
    /\ KeyGoto(p, "ready")
    /\ key' = [key EXCEPT ![p] = keyFile]
    /\ loaded' = loaded \cup {p}
    /\ UNCHANGED <<keyFile, raced>>

\* A key of the right size is used, anything else is an error.
ReadKey(p) ==
    /\ keyPc[p] = "idle" /\ keyFile # "absent"
    /\ IF keyFile = "partial"
         THEN KeyGoto(p, "over") /\ UNCHANGED <<key, loaded>>
         ELSE /\ KeyGoto(p, "ready")
              /\ key' = [key EXCEPT ![p] = keyFile]
              /\ loaded' = loaded \cup {p}
    /\ UNCHANGED <<keyFile, raced>>

\* Mutant of ReadFails: a file that cannot be read is replaced.
ReplaceUnreadable(p) ==
    /\ keyPc[p] = "idle" /\ keyFile # "absent"
    /\ KeyGoto(p, "creating")
    /\ raced' = (raced \/ Creating # {})
    /\ UNCHANGED <<keyFile, key, loaded>>

\* A file that is there and cannot be read is an error, never a reason to create one.
ReadFails(p) ==
    /\ keyPc[p] = "idle" /\ keyFile # "absent"
    /\ KeyGoto(p, "over")
    /\ UNCHANGED <<keyFile, key, loaded, raced>>

\* os.WriteFile opens with O_CREATE and O_TRUNC: whatever is there is gone.
Truncate(p) ==
    /\ keyPc[p] = "creating"
    /\ KeyGoto(p, "truncated")
    /\ keyFile' = "partial"
    /\ UNCHANGED <<key, loaded, raced>>

\* Both keys of a race are of one length, so the later one replaces the earlier.
WriteKey(p) ==
    /\ keyPc[p] = "truncated"
    /\ KeyGoto(p, "ready")
    /\ keyFile' = p
    /\ key' = [key EXCEPT ![p] = p]
    /\ loaded' = loaded \cup {p}
    /\ UNCHANGED raced

\* The directory, the open or the write fails; what is in the file stays there.
CreateFails(p) ==
    /\ keyPc[p] \in {"creating", "truncated"}
    /\ KeyGoto(p, "over")
    /\ UNCHANGED <<keyFile, key, loaded, raced>>

\* A process ends or is killed.
KeyDies(p) ==
    /\ keyPc[p] \notin {"idle", "over"}
    /\ KeyGoto(p, "over")
    /\ key' = [key EXCEPT ![p] = NoKey]
    /\ loaded' = loaded \ {p}
    /\ UNCHANGED <<keyFile, raced>>

\* The operator rotates the key by removing the file, while nothing is creating it
\* (README.md:327-328).
RemoveKeyFile ==
    /\ keyFile # "absent" /\ Creating = {}
    /\ keyFile' = "absent"
    /\ loaded' = {}
    /\ UNCHANGED <<keyPc, key, raced>>

LoadKey(p) ==
    \/ MissKey(p) \/ ReadKey(p) \/ ReadFails(p)
    \/ Truncate(p) \/ WriteKey(p) \/ CreateFails(p)

KeyNext == (\E p \in Processes : LoadKey(p) \/ KeyDies(p)) \/ RemoveKeyFile

KeySpec == KeyInit /\ [][KeyNext]_keyVars

--------------------------------------------------------------------------
(* Tokens *)

TokenVersion == <<"v1">>

\* Key.mac.
Mac(k, sandbox, generation) == <<k, sandbox, generation>>

\* Key.Mint.  A caller's sandbox is the sequence of its name's dotted parts.
Mint(k, caller) ==
    <<TokenVersion>> \o caller.sandbox
        \o << <<caller.generation>>, Mac(k, caller.sandbox, caller.generation) >>

\* Mutant of SplitToken: the fields are cut off from the left.
SplitFromLeft(token) ==
    [version |-> token[1], sandbox |-> <<token[2]>>,
     generation |-> token[3], mac |-> token[4]]

\* splitToken: from the right, since a name may have dots.
SplitToken(token) ==
    LET n == Len(token)
    IN  [version |-> token[1], sandbox |-> SubSeq(token, 2, n - 2),
         generation |-> token[n - 1], mac |-> token[n]]

\* Key.Verify: whether the token names this caller under this key.
Verifies(k, token, caller) ==
    /\ Len(token) >= 4
    /\ LET s == SplitToken(token)
       IN  /\ s.version = TokenVersion
           /\ s.sandbox = caller.sandbox
           /\ s.generation = <<caller.generation>>
           /\ s.mac = Mac(k, caller.sandbox, caller.generation)

--------------------------------------------------------------------------

KeyTypeOK ==
    /\ keyFile \in {"absent", "partial"} \cup Processes
    /\ keyPc \in [Processes -> {"idle", "creating", "truncated", "ready", "over"}]
    /\ key \in [Processes -> Processes \cup {NoKey}]
    /\ loaded \subseteq Processes
    /\ raced \in BOOLEAN

\* A server and the grants made for it share one key, in whichever order they
\* start, whatever fails and whenever one of them dies, as long as no two of them
\* create the file at the same time (main.go:339-340).
KeysAgree == ~raced => \A p \in loaded : key[p] = keyFile
==========================================================================
