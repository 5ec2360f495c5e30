----------------------------- MODULE Registry ----------------------------
(***************************************************************************)
(* The generation registry, internal/identity/registry.go, and the         *)
(* commands that write it: "sbx-warden grant" (internal/grant) and         *)
(* "sbx-warden revoke".  Each command is a process of its own; Registry's  *)
(* mutex is private to a process, so what the processes share is the file. *)
(*                                                                         *)
(* A step of a command ends where another process can see it or be seen:   *)
(* each read of the file, the delivery of a token to sbx, the rename that  *)
(* replaces the file, and the line that tells the operator.  A server only *)
(* reads the file, in one read.                                            *)
(*                                                                         *)
(* Bounds: each command runs once; Overrides are the --generation values.  *)
(***************************************************************************)
EXTENDS Integers

CONSTANTS
    Commands,         \* grant and revoke commands that operators run
    Sandboxes,
    Overrides,        \* values of --generation; 0 takes the next one
    Overlaps,         \* which commands may run at the same time
    Failures          \* what may go wrong

\* "other": commands for different sandboxes, "same": commands for one sandbox,
\* "writes": even while one is between reading the file and replacing it.
OverlapKinds == {"other", "same", "writes"}

\* "delivery": sbx refuses the token, or reports an error having taken it.
\* "write": the disk refuses the new file.  "crash": a command is killed.
\* "power": the host goes down.
FailureKinds == {"delivery", "write", "crash", "power"}

ASSUME RegistryAssumption ==
    /\ Overrides \subseteq Nat
    /\ Overlaps \subseteq OverlapKinds
    /\ Failures \subseteq FailureKinds
    /\ "nobody" \notin Commands

VARIABLES
    job,              \* what each command was asked to do
    pc,               \* where each command is
    generation,       \* the generation it mints or requires
    view,             \* its Registry.min
    flushed,          \* commands whose temporary file has reached the disk
    file,             \* the registry file; an absent entry or file is zero
    torn,             \* the file holds neither an old content nor a new one
    durable,          \* what a power loss would leave in the file's place
    safe,             \* the data of the file has reached the disk
    held,             \* the generation of the token each sandbox holds, or 0
    granted,          \* history: generations a grant reported, per sandbox
    retired,          \* history: generations reported retired, per sandbox
    known,            \* history: generations reported granted as a command started
    writer,           \* history: the last command to change a sandbox's entry
    disorder          \* history: what has happened that nothing here is locked against

commandVars == <<pc, generation, view, flushed>>
fileVars    == <<file, torn, durable, safe, writer>>
reports     == <<granted, retired, known, disorder>>
vars        == <<job, commandVars, fileVars, held, reports>>

Jobs == [op : {"revoke"}, box : Sandboxes, override : {0}, proxy : {FALSE}]
          \cup [op : {"grant"}, box : Sandboxes, override : Overrides, proxy : BOOLEAN]

Box(c) == job[c].box

Over == {"idle", "done", "failed", "dead"}

\* Between reading the file to change it and replacing it.
Window == {"loaded", "written", "synced"}

Running == {c \in Commands : pc[c] \notin Over}

Nothing == [b \in Sandboxes |-> 0]

Goto(c, p) == pc' = [pc EXCEPT ![c] = p]

\* The processes in C end, and their memory with them.
End(C, p) ==
    LET Without(f, nothing) == [c \in Commands |-> IF c \in C THEN nothing ELSE f[c]]
    IN  /\ pc' = [c \in Commands |-> IF c \in C THEN p ELSE pc[c]]
        /\ generation' = Without(generation, 0)
        /\ view' = Without(view, Nothing)
        /\ flushed' = flushed \ C
        /\ known' = Without(known, {})

Init ==
    /\ job \in [Commands -> Jobs]
    /\ pc = [c \in Commands |-> "idle"]
    /\ generation = [c \in Commands |-> 0]
    /\ view = [c \in Commands |-> Nothing]
    /\ flushed = {}
    /\ file = Nothing /\ durable = Nothing
    /\ torn = FALSE /\ safe = TRUE
    /\ held = Nothing
    /\ granted = [b \in Sandboxes |-> {}]
    /\ retired = [b \in Sandboxes |-> {}]
    /\ known = [c \in Commands |-> {}]
    /\ writer = [b \in Sandboxes |-> "nobody"]
    /\ disorder = {}

--------------------------------------------------------------------------
(* Both commands *)

Writing == {c \in Commands : pc[c] \in Window}

\* The kind of overlap in which c starts beside o.
OverlapOf(c, o) == IF Box(o) = Box(c) THEN "same" ELSE "other"

MayStart(c) == \A o \in Running : OverlapOf(c, o) \in Overlaps

MayMerge == "writes" \in Overlaps \/ Writing = {}

\* Commands for different sandboxes may overlap, outside of the window.
Started(c) ==
    disorder' = disorder \cup ({OverlapOf(c, o) : o \in Running} \ {"other"})

Merged ==
    disorder' = IF Writing = {} THEN disorder ELSE disorder \cup {"writes"}

\* Registry.reload.  A file that does not parse is an error, never "nothing
\* has been revoked".
Reload(c, from, to, changed) ==
    /\ pc[c] = from
    /\ IF torn THEN Goto(c, "failed") /\ UNCHANGED view
               ELSE Goto(c, to) /\ view' = [view EXCEPT ![c] = changed]
    /\ UNCHANGED <<flushed, job, fileVars, held, granted, retired>>

\* OpenRegistry.
Open(c) ==
    /\ MayStart(c)
    /\ Reload(c, "idle", "opened", file)
    /\ known' = [known EXCEPT ![c] = granted[Box(c)]]
    /\ Started(c)
    /\ UNCHANGED generation

\* Mutant of Merge: the entry goes into the map as the command last read it.
MergeStale(c) ==
    /\ MayMerge /\ Merged
    /\ Reload(c, "setting", "loaded", [view[c] EXCEPT ![Box(c)] = generation[c]])
    /\ UNCHANGED <<generation, known>>

\* Registry.set reads the file again and merges its one entry.
Merge(c) ==
    /\ MayMerge /\ Merged
    /\ Reload(c, "setting", "loaded", [file EXCEPT ![Box(c)] = generation[c]])
    /\ UNCHANGED <<generation, known>>

\* Registry.write: a temporary file, flushed, then renamed over the registry.
WriteTemp(c) ==
    /\ pc[c] = "loaded"
    /\ Goto(c, "written")
    /\ UNCHANGED <<generation, view, flushed, job, fileVars, held, reports>>

Sync(c) ==
    /\ pc[c] = "written"
    /\ Goto(c, "synced")
    /\ flushed' = flushed \cup {c}
    /\ UNCHANGED <<generation, view, job, fileVars, held, reports>>

\* Mutant of Rename: the temporary file is not flushed first.
RenameUnflushed(c) ==
    /\ pc[c] \in {"written", "synced"}
    /\ Goto(c, "renamed")
    /\ file' = view[c] /\ torn' = FALSE
    /\ safe' = (c \in flushed)
    /\ writer' = [b \in Sandboxes |-> IF view[c][b] = file[b] THEN writer[b] ELSE c]
    /\ UNCHANGED <<generation, view, flushed, durable, job, held, reports>>

Rename(c) ==
    /\ pc[c] = "synced"
    /\ Goto(c, "renamed")
    /\ file' = view[c] /\ torn' = FALSE
    /\ safe' = (c \in flushed)
    /\ writer' = [b \in Sandboxes |-> IF view[c][b] = file[b] THEN writer[b] ELSE c]
    /\ UNCHANGED <<generation, view, flushed, durable, job, held, reports>>

WriteFails(c) ==
    /\ "write" \in Failures /\ pc[c] \in Window
    /\ End({c}, "failed")
    /\ UNCHANGED <<job, fileVars, held, granted, retired, disorder>>

Crash(c) ==
    /\ "crash" \in Failures /\ pc[c] \notin Over
    /\ End({c}, "dead")
    /\ UNCHANGED <<job, fileVars, held, granted, retired, disorder>>

--------------------------------------------------------------------------
(* revoke *)

\* Mutants of ChooseBar: the bar stays where it is, or is lowered.
KeepBar(c) ==
    /\ job[c].op = "revoke"
    /\ Reload(c, "opened", "setting", file)
    /\ generation' = [generation EXCEPT ![c] = file[Box(c)]]
    /\ UNCHANGED <<known, disorder>>

LowerBar(c) ==
    /\ job[c].op = "revoke"
    /\ Reload(c, "opened", "setting", file)
    /\ generation' = [generation EXCEPT ![c] = file[Box(c)] - 1]
    /\ UNCHANGED <<known, disorder>>

\* Registry.Revoke raises the bar by one; set follows.
ChooseBar(c) ==
    /\ job[c].op = "revoke"
    /\ Reload(c, "opened", "setting", file)
    /\ generation' = [generation EXCEPT ![c] = file[Box(c)] + 1]
    /\ UNCHANGED <<known, disorder>>

\* The operator is told that every token granted so far is retired.
ReportRevoke(c) ==
    /\ job[c].op = "revoke" /\ pc[c] = "renamed"
    /\ End({c}, "done")
    /\ retired' = [retired EXCEPT ![Box(c)] = @ \cup known[c]]
    /\ UNCHANGED <<job, fileVars, held, granted, disorder>>

--------------------------------------------------------------------------
(* grant *)

\* Registry.Next, and Mint.
MintNext(c) ==
    /\ job[c].op = "grant" /\ job[c].override = 0
    /\ Reload(c, "opened", "minted", file)
    /\ generation' = [generation EXCEPT ![c] = file[Box(c)] + 1]
    /\ UNCHANGED <<known, disorder>>

MintOverride(c) ==
    /\ job[c].op = "grant" /\ job[c].override # 0
    /\ pc[c] = "opened"
    /\ Goto(c, "minted")
    /\ generation' = [generation EXCEPT ![c] = job[c].override]
    /\ UNCHANGED <<view, flushed, job, fileVars, held, reports>>

\* registerSecret, unless the token is to be printed.
Deliver(c) ==
    /\ pc[c] = "minted"
    /\ Goto(c, "setting")
    /\ held' = IF job[c].proxy THEN [held EXCEPT ![Box(c)] = generation[c]] ELSE held
    /\ UNCHANGED <<generation, view, flushed, job, fileVars, reports>>

\* Mutant of DeliveryFails: the generation is recorded all the same.
FailureIgnored(c) ==
    /\ "delivery" \in Failures /\ job[c].proxy /\ pc[c] = "minted"
    /\ Goto(c, "setting")
    /\ UNCHANGED <<held, generation, view, flushed, job, fileVars, reports>>

\* sbx failed, before or after it stored the token.
DeliveryFails(c) ==
    /\ "delivery" \in Failures /\ job[c].proxy /\ pc[c] = "minted"
    /\ End({c}, "failed")
    /\ held' \in {held, [held EXCEPT ![Box(c)] = generation[c]]}
    /\ UNCHANGED <<job, fileVars, granted, retired, disorder>>

\* report: a printed token reaches its sandbox from here, and the operator is told
\* that the sandbox's earlier tokens no longer authenticate.
ReportGrant(c) ==
    /\ job[c].op = "grant" /\ pc[c] = "renamed"
    /\ End({c}, "done")
    /\ held' = IF job[c].proxy THEN held ELSE [held EXCEPT ![Box(c)] = generation[c]]
    /\ retired' = [retired EXCEPT ![Box(c)] = @ \cup (known[c] \ {generation[c]})]
    /\ granted' = [granted EXCEPT ![Box(c)] = @ \cup {generation[c]}]
    /\ UNCHANGED <<job, fileVars, disorder>>

--------------------------------------------------------------------------
(* The host *)

\* The directory entry the rename made reaches the disk some time later: write
\* syncs the file and not its directory.
Settle ==
    /\ durable # file
    /\ durable' = file
    /\ UNCHANGED <<job, commandVars, file, torn, safe, writer, held, reports>>

\* Every command dies, and the file is what had reached the disk: the new file
\* (torn if its data had not) or, before its rename has settled, the old one.
PowerLoss ==
    /\ "power" \in Failures
    /\ End(Running, "dead")
    /\ \/ file' = file /\ torn' = (torn \/ ~safe)
       \/ file' = durable /\ UNCHANGED torn
    /\ durable' = file' /\ safe' = TRUE
    /\ disorder' = disorder \cup {"power"}
    /\ UNCHANGED <<job, writer, held, granted, retired>>

--------------------------------------------------------------------------

CommandNext(c) ==
    \/ Open(c) \/ ChooseBar(c) \/ MintNext(c) \/ MintOverride(c)
    \/ Deliver(c) \/ DeliveryFails(c)
    \/ Merge(c) \/ WriteTemp(c) \/ Sync(c) \/ Rename(c) \/ WriteFails(c)
    \/ ReportRevoke(c) \/ ReportGrant(c) \/ Crash(c)

Next == (\E c \in Commands : CommandNext(c)) \/ Settle \/ PowerLoss

Spec == Init /\ [][Next]_vars

--------------------------------------------------------------------------

TypeOK ==
    /\ job \in [Commands -> Jobs]
    /\ pc \in [Commands -> Over \cup Window \cup {"opened", "minted", "setting", "renamed"}]
    /\ generation \in [Commands -> Nat]
    /\ view \in [Commands -> [Sandboxes -> Nat]]
    /\ flushed \subseteq Commands
    /\ file \in [Sandboxes -> Nat] /\ durable \in [Sandboxes -> Nat]
    /\ torn \in BOOLEAN /\ safe \in BOOLEAN
    /\ held \in [Sandboxes -> Nat]
    /\ granted \in [Sandboxes -> SUBSET Nat]
    /\ retired \in [Sandboxes -> SUBSET Nat]
    /\ known \in [Commands -> SUBSET Nat]
    /\ writer \in [Sandboxes -> Commands \cup {"nobody"}]
    /\ disorder \subseteq {"same", "writes", "power"}

\* The registry file always holds one writer's complete content, whoever writes at
\* the same time and whenever a command or the host stops (registry.go:156-161).
NeverTorn == ~torn

\* Nobody has lowered a bar on purpose.
NoOverride == \A c \in Commands : job[c].override = 0

\* Until commands for one sandbox overlap, or two are inside set at once, or the
\* host goes down, an entry only ever rises, by one, and no command changes another
\* sandbox's: it is what Server's RaiseMinimum assumes of the registry, and what
\* the merge in set is for (registry.go:136-142).
BarsRiseByOne ==
    [][disorder' = {} /\ NoOverride =>
         \E b \in Sandboxes : file' = [file EXCEPT ![b] = @ + 1]]_file

\* A token reported retired, by a grant that replaced it or by a revoke, never
\* authenticates again (registry.go:17-28, grant.go:97).
RetiredStayRetired ==
    \A b \in Sandboxes : \A g \in retired[b] : g < file[b]

\* What can be relied on of it: a retired token comes back only after commands
\* overlapped where nothing locks them against each other, after a power loss, or
\* by way of a --generation below the bar.
RetirementHolds == disorder = {} /\ NoOverride => RetiredStayRetired

\* A token that no longer authenticates was cut off by a revoke or by a grant whose
\* token is printed rather than delivered: a grant that failed on the way leaves
\* the sandbox the token it is using (grant.go:83-84).
FailedGrantsCutNobodyOff ==
    disorder = {} /\ NoOverride =>
      \A b \in Sandboxes : held[b] # 0 /\ held[b] < file[b] =>
        /\ writer[b] \in Commands
        /\ job[writer[b]].op = "revoke" \/ ~job[writer[b]].proxy
==========================================================================
