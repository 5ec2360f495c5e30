# Verification of sbx-warden

sbx-warden lets a sandbox run a chosen set of commands on its host: a client
inside the sandbox (`sbx`) connects to a server on the host (`sbx-warden
serve`), proves which sandbox it is with a token, and asks for one command,
which the server checks and runs for it. This directory holds TLA+ models of
the server's core, TLC runs that check them on small instances, and TLAPS
proofs about them for every value of their constants. Paths below are relative
to `src/` unless a module is named.

## 1. Inventory

| component | state | operations | talks to |
|---|---|---|---|
| session tickets, `internal/server/ticket.go` | map ticket → (caller, expiry), under a mutex | `issue`, `redeem`, the purge of expired entries | called by handshakes and sessions |
| handshake, `handshake.go` | none of its own | one HTTP request: verify the token, check the registry, issue a ticket | tickets, registry |
| connections and sessions, `server.go`, `process_unix.go` | one goroutine per connection; context, deadlines; process group; pump; output copies | accept, Start frame, track, authorize, Ready, run, Exit, shutdown | everything below |
| authentication and authorization, `authorize.go` | none | `authenticate`, `authenticateSession`, `authorize`, `seekApproval` | key, registry, tickets, policy, approver |
| revocation watcher, `revocation.go` | the set of open sessions; a ticker | `track`, the round of checks, the notice, the stop | registry, sessions, their clients |
| terminal approver, `approval.go` | a mutex, a reader goroutine, a channel of one line | `Approve` | sessions, the operator's terminal |
| generation registry, `internal/identity/registry.go` | a JSON file shared by processes; a map per process | `Minimum`, `Next`, `Accepts`, `Record`, `Revoke`, `write` | server, grant, revoke |
| grant and revoke, `internal/grant`, `cmd/sbx-warden` | none | mint, deliver, record, report | registry, the key, the sbx CLI |
| key and tokens, `internal/identity/identity.go` | a key file | `LoadOrCreateKey`, `Mint`, `Verify` | server, grant |
| frames, `internal/protocol` | a writer's mutex, a reader's buffer | read and write frames, split streams | server, client |
| client, `cmd/sbx`, `internal/client` | two connections, a terminal, three goroutines | handshake, session, stdin and signal forwarding | server |
| command resolution, `internal/resolve`, `internal/catalog` | static catalog | argv → command, flags, arguments | authorization |
| policy, `internal/authz` | Cedar policies and bindings | decide, with or without approval | authorization |
| environment filter, `env.go` | none | filter a list | sessions |

The behaviours that are hard, and where they bite, are listed one by one as the
hazards of `PROJECT.json`. They come in nine families.

* *One session's path against everything else.* A session is a goroutine that
  can be cancelled at any point by the watcher, by shutdown or by its own pump,
  while it may sit in an approval for two minutes with nothing reading its
  connection.
* *Two connections for one caller.* The token is verified and the registry read
  on the handshake; the session presents only a ticket. What was checked then
  must still bind what runs now.
* *One watcher for all sessions.* It works from a snapshot, writes to clients it
  does not control, and must survive a registry it cannot read.
* *One terminal for all approvals.* A typed line carries no mark of the question
  it answers.
* *One connection for several streams.* Both outputs, notices and the exit
  report share a writer in one direction, stdin, its end and interrupts in the
  other, and every one of them can block or break half-way.
* *One argument list, two parses.* The command is found by stepping over flags
  with what is known so far; the flags are then read as the command found.
* *Several processes on one file.* Grants, revokes and the server share the
  registry with no lock between them; commands fail half-way, crash, and the
  host loses power. The key file is created in place by whoever finds it absent.
* *A secret that outlives what it signed.* Keys are rotated, tokens copied and
  cut, names contain the separator of a token's fields, tickets are lost with
  their server.
* *A policy in pieces.* Rules come from several documents, merged per caller in a
  cache that concurrent sessions fill, about a description of the command that
  must hold of everything the command touches.

What makes each component correct, in a sentence:

* tickets: a ticket admits one session, as the caller it was issued to, while it
  has not expired; the table stays bounded without expired entries ever locking
  anybody out;
* server: only a permitted command of a caller with a current token runs, each
  of them within the watcher's reach; a cancelled one does not start; a lost
  client, a retired token and shutdown each end what they should, and nothing
  else is ended;
* approver: one question at a time, one typed line per answer, no answer from
  before the question, and every call returns;
* frames and session data: frames arrive whole and in order; the exit code
  follows all output; stdin arrives without a gap and its end last; the client
  of a finished command returns;
* resolution: the command, flags and arguments that are authorized are those the
  whole list spells;
* key and tokens: everybody who uses the key file has the key in it; a token is
  accepted exactly as what it was minted for, under that key;
* policy: a server answers only with its whole map, and answers what all matching
  rules together say; what a rule is told of a command holds of every sandbox and
  every file it touches;
* registry: entries only rise, by one; a token reported retired stays retired; a
  failed command cuts nobody off; the file is always whole.

## 2. Modules

| module | what it is |
|---|---|
| `TicketStore` | the abstract life of a ticket: unissued, outstanding, spent or expired |
| `Tickets` | the table with its map, clock, lifetime, purge and cap; implements `TicketStore` |
| `Warden` | what the warden promises of its sessions: who is let in, what runs and when, what ends it |
| `Server` | connections, sessions, commands, the watcher, shutdown; built on `TicketStore` by `INSTANCE`; implements `Approver` and `Warden` |
| `ServerProofs` | an inductive invariant of `Server` and ten theorems from it, three of them refinements |
| `Approver` | what a caller of `Approve` may rely on |
| `Approval` | the terminal approver with its mutex, reader goroutine and channel; implements `Approver` |
| `ApprovalProofs` | its invariants and the refinement, proved |
| `Registry` | grant and revoke processes on the registry file, with failures |
| `RegistryProofs` | its five properties, proved from one inductive invariant |
| `Stream` | what one session carries: the client's goroutines, the connection, pump, copies and command |
| `StreamProofs` | its types and its two safety properties, proved |
| `FrameQueue` | one direction of a framed connection as its users see it |
| `Frames` | the frame writer and reader, byte by byte, on a connection that breaks; implements `FrameQueue` |
| `FramesProofs` | that refinement and the order of each stream, proved |
| `KeyFile` | processes that load or create the identity key, and the tokens made with it |
| `Admission` | composes `Tickets` and `KeyFile`: from a grant to a session, across restarts and rotations |
| `AdmissionProofs` | the invariants of `Tickets` and its refinement, `KeysAgree`, that the composition is a behaviour of both parts, and whom a server admits, proved |
| `Resolve` | an argument list to its command, flags and arguments, and a reading of the whole list to compare |
| `Context` | what a policy is told of a resolved list, and what the list touches to compare; extends `Resolve` |
| `Lists` | argument lists as they are typed, and the three properties of each; extends `Context` |
| `ResolveProofs` | all three of these, for every catalog and every list, proved |
| `Cedar` | the few forms of Cedar policy that the models use, with the groups of commands |
| `Judge` | what a server promises of a policy map |
| `Policy` | loading and compiling the map, the cache and `Authorize`, between sessions; implements `Judge` |
| `PolicyProofs` | that the cache is fresh, and the refinement where documents have names of their own, proved |
| `MCAdmission`, `MCServer`, `MCApproval`, `MCRegistry`, `MCStream`, `MCFrames`, `MCPolicy`, `MCAuthorize` | what TLC adds: symmetry sets, a catalog, the tokens of the lists, policy maps |

`Server` does not contain the detail of `Tickets`, `Approval` or `Registry`. It
uses what those promise: `Store!IssueTicket`, `Store!RedeemTicket` and
`Store!ExpireTickets` for the table; the queue and the single prompt of
`Approver` for the operator (`Prompt`, `ApproveYes` and `ApproveNo` are its
`Ask`, `SayYes` and `Refuse`, and `SessionsTakeTurns` says that the sessions are
its calls); and a bar that rises by one at a time for the registry
(`RaiseMinimum`), which is `Registry`'s `BarsOnlyRise`. `Policy`'s
requests are what `Context` says of a few argument lists that `Resolve` resolves,
and its answers are the kinds of command that `Server` takes for an input.

### Tickets

`issued` is the Go map, `now` the injected clock. Each method runs under the
table's mutex, so each is one action; `Issue` and `IssueFull` purge first, as
the code does. `Expired` is strict because `time.Time.After` is. `drawn` and
`honoured` are history: they are what the refinement to `TicketStore` reads,
since a redeemed name and one that lapsed both leave the map, and a name that
admitted two callers maps to no state of the abstract ticket. Ticket names come
from 32 random bytes; the model takes them to be distinct. `Restart` is a server
that stops: its table goes with it, and to the abstract ticket all that was
outstanding has expired.

### KeyFile and Admission

A step of `LoadOrCreateKey` ends where another process can act: the read of the
file, the open that truncates it (`Truncate`) and the write (`WriteKey`).
`os.WriteFile` creates and writes in place, so a reader can find the file short,
and a process that dies there leaves it so. A key is known by the process that
generated it. A name is a sequence of its dotted parts and a token the sequence
of its fields, the name's parts among them: `SplitToken` has to find where the
name ends, as `splitToken` does, and `Presented` offers it tokens cut short.

In `Admission` a process is a grant or a server. A grant mints one token with
its key and ends; a server listens, which one at a time can (the port), verifies
and issues, and loses its table when it stops. The operator may remove the key
file to rotate it while nothing is creating it. The registry's part of a
handshake is in `Server` and `Registry`.

### Server

One control state per goroutine: `hello[h]` for a handshake connection,
`phase[s]` for a session, `pump[s]` for the goroutine that copies client frames
to a command, `watcher` for `watchRevocations`, `serve` for `Serve`. The phases
of a session follow `runFramedSession` and `runSession` in order:

| phase | the goroutine is |
|---|---|
| opening | reading the Start frame; the opening deadline applies |
| admitted | past `authenticateSession`, not yet tracked |
| tracked, authorizing | in `checkAllowed`, in `authorize` |
| queued, asking | in `Approve`: waiting for the terminal, put to the operator |
| readying, starting, forking | sending Ready; before `exec` looks at the context; after |
| running | the command was started and `Wait` has not returned |
| ending | sending Exit and running the deferred calls |

The watcher's round is split where other goroutines can act: the tick takes the
snapshot (`WatcherTick`), each check reads the registry (`WatcherChecks`), the
notice is written (`notifying`) and only then is the session stopped
(`WatcherStops`). `os/exec` is modelled by what the code relies on: `Start`
looks at the context once (`CheckContext`), then forks (`Fork`) without looking
again, and a goroutine of its own kills the process group of a cancelled
command (`KillCommand`). `Wait` returns only when the output copies have
(`Drain`), so a client that does not read keeps it from returning.

A command is reduced to what is decided about it: not on the allowlist, not
resolvable, denied, allowed, or withheld for an operator. A verified token is a
sandbox and a generation. `Events` says what can go wrong in an instance, so a
run can be about one of those things; the proofs hold for every choice.

`Warden` has none of the goroutines: vouchers that a handshake makes out to a
caller accepted at that moment and that admit one session each, and sessions that
are in, cleared, launched, running and over, launched only if nobody has told them
to end. `Server` maps to it by `Stages` (from the phases), `Vouched` (whom a
handshake has checked and not answered, or the holder of the ticket it issued while
that is outstanding), `Void` (handshakes that are closed with no ticket
outstanding) and `Doomed` (sessions under way that are cancelled, or whose server
has returned). Vouching is the moment at which the registry is read: a bar that
rises between there and the session does not take it back. The watcher, the tracking
of sessions, deadlines, the terminal's queue and the copies are stutters there.

The data a session carries is not here but in `Stream`, which has one session
from its Start frame on and leaves out what is above: callers, tickets, the
watcher, cancellation.

### Approval

`pc[c]` follows `Approve`: queued on the mutex, discarding what is in the
channel, prompting, asking (the `select`), and its answer. `reader` follows
`readLines`: scanning, holding a line it has not sent, parked in the send,
closed. Lines are numbered as typed, so "which line settled which question" is
a matter of arithmetic. The reader is started by the first call and lives on.

### Registry

A command is a process; a step ends where another process can see it. Opening
reads the file, choosing a generation reads it again, `set` reads it a third
time and merges its one entry, and `write` writes a temporary file, flushes it
and renames it. `durable` and `safe` are what a power loss would leave: the
directory is not flushed, so a rename may be undone until it settles, and a
renamed file whose data was not flushed would be torn. `held` is the token each
sandbox has, `granted` and `retired` what operators were told. `Overlaps` says
which commands may run at once and `Failures` what may go wrong; `disorder`
records which of the things have happened that nothing in the code is locked
against: two commands for one sandbox at once (`same`), two inside `set` at once
(`writes`), a power loss. The properties say what holds until one of them has.

### Stream

One control state per goroutine again: `client` for `run` and `relayOutput`,
`forward` for `forwardStdin`, `interrupt` for `forwardSignals`, `session` for
`runFramedSession`, `pump` for `session.pump`, `copier[s]` for each `io.Copy`,
`child` for the command's process group. `up` and `down` are the two directions
of the connection, a frame to an element, which is what `Frames` says they are;
a full one blocks its writer. Chunks are numbered per stream. `ReadStart` takes
its frame and any number of the frames behind it, because `readStart` has a
buffered reader of its own; that nothing is lost is a property of the client,
which sends no stdin before Ready. A close with frames unread, or a frame sent
after it, resets the connection, so that the client may lose what was on its
way. On a terminal there is one output and no end of input.

### Frames

`rest[w]` is what is left of the header or payload that a `conn.Write` is
putting on the wire, a byte to a step; `mu` is the writer's mutex; `got` is what
the reader's `ReadFull` has so far. `Break` ends the connection anywhere and
loses any suffix of what is on it. Header bytes carry their header and payload
bytes their place in their writer's stream, so the reader really parses, and
would parse nonsense if frames mixed. `sent` is history: a frame is in it once
its last byte is written, which is where the refinement's `Send` is.
`StreamsInOrder` looks at each frame received: the bytes of its writer's stream
before it are the first so many (`Places`), and its payload is those that follow
(`GoesOn`). Said of every frame, that is that the payloads of one writer, one
behind the other, are a beginning of its stream.

### Resolve

A pure function, in the shape of the code: `Walk` is `findCommand`, with
`skipFlag` (`Occupies`) for what it steps over, and `Parse` is
`Invocation.parse`. Each of the two loops is a recursive function of the number of
tokens it has seen, a turn of it an operator (`WalkOn`, `ParseOn`); where the code
steps over a value, or drops a `--`, the function remembers it (`at`) for its next
token. A cluster of shorthands is a sequence of letters, a long
flag its name and whether a value is attached. `Reading` is the reference: it
looks at the whole list at once, for positions of values and a last token read
for flags that explain every token by one command's flags. What a single flag
token means (`Known`, `NeedsNext`, `Given`) is common to both; the order in which
tokens are taken, and whose flags they are taken for, is not. Catalogs are
assumed to have the group of each command, to give every command the flags of sbx
itself, and to give a flag that a command shares with an ancestor the same name,
letter and arity (`CatalogAssumption`); `catalog.json` does. An empty word is not
modelled. `Lists` types a list token by token, so that a property of every list is
an invariant.

### Context

`Describe` is `buildContext` together with the action and the resource of the
request. `Spelling` gives each token as a path: the `sandbox:/path` form, or the
elements between its separators; `Clean` is `filepath.Clean`, which is a library
function, on elements. `DescribedAsTouched` compares it with what the command
does with its arguments: every slot that names a sandbox or a file, the
`--sandbox` flag, and where a walk from the working directory along each path
ends. Duplicates are dropped by `namedSandboxes` and `stringSet` and cannot be
told apart here; `flagValues` is left out of the request, as no modelled
condition reads a flag's value.

### Policy

`ReadMap` is `LoadPolicyMap`, `Compile` one turn of the loop in `New`, and
`ReadFails` the map or a document that cannot be read, fetched or parsed. After
`Serve`, a call of `Authorize` takes three steps: `LookUp` under the read lock,
`Store` of what it merged without a lock, and `Decide` with what the cache holds
by then. Policies keep their ids, `<<base name, number>>`, because that is what
merging goes by. Bindings match by patterns, each the set of names it matches.
`Judge` has the same map and calls, and no ids, order, cache or start-up: one step
from a request to the verdict of all the rules of all matching bindings.
`Authorize`'s answers to a caller without a name or a request without a command
cannot be reached through the server, which authenticates and resolves first, and
are left out.

## 3. Runs

A module's `Spec` is the safety specification, `FairSpec` adds fairness.
Deadlock checking is off throughout: every instance ends, with each connection,
call or command used once.

| run | bounds | shows |
|---|---|---|
| `tickets` | 3 names, 2 callers, one with a dotted name, cap 2, lifetime 1, clock to 2, 2 grants, 2 servers, one life each | keys agree, a server admits exactly whom a grant under its key named, the table implements the ticket life, a full table is full of redeemable tickets |
| `sessions` | 2 handshakes, 2 sessions, cap 1, generation 1 and its retirement, withheld commands, every event | single use of tickets, no command on an old token, every command tracked, no ending without a cause; sessions take turns at the terminal and keep what `Warden` promises |
| `command` | 1 handshake, 1 session, generations 1 and 2, all five kinds of command; all events but stall and flood; fair | only permitted commands start, none after cancellation; a lost client kills its command; shutdown returns |
| `retired` | 2 handshakes, 2 sessions, withheld commands, retirement and an unreadable registry; fair | a retired session ends |
| `approval` | 2 calls, 3 lines, hang-up and cancellation; fair | the approver's promises, and that every call returns |
| `registry` | 3 commands, 2 sandboxes, at most one `--generation`; every overlap and failure | the file is never torn; until something happens that nothing is locked against, bars rise by one, retired stays retired and failed grants cut nobody off |
| `stream` | 2 chunks of stdin, 1 on each output, 2 frames in each direction, 1 chunk in a pipe, an interrupt; every event, with and without a terminal; fair | output before exit, stdin whole and its end last, the end arrives, the client returns |
| `frames` | 3 writers of one write of up to 3 bytes, 2-byte headers, 2-byte payloads, 2 bytes on the wire; fair | frames arrive whole and in order, streams without a gap, writes return |
| `authorize` | every list of up to 4 tokens of two alphabets (11 of flags and words, 13 of commands, sandboxes and paths), 8 commands, 3 working directories; or 2 concurrent calls, 8 requests, 6 policy maps of 5 documents | what is resolved is what the list reads as, what a policy is told holds of what is touched, and a server answers what its whole map says |
| `stalled`, `lost_update`, `same_name` | as small as the trace allows | three places where the program does not do what its documents say (section 5) |

Why these bounds are enough to be interesting. Two sessions are what a ticket
used twice, a prompt that is taken, a snapshot that is stale and a watcher busy
with somebody else need; the proofs of section 4 cover any number. A cap of one
makes two handshakes collide at the limit; three names with a cap of two and a
lifetime of one let the table fill, lapse and fill again before the clock ends,
and the clock moves only while the table holds something (`Wait`), since a time
at which nothing is live is like the start. Two grants and two servers are what a
race for the key file, a rotation between two servers, and a token of the old key
at the new server take. The name of one caller is the name
and generation of the other, so that a token cut or split elsewhere names the
other.
Two calls and three lines are one line before the question, one in the channel
and one in the reader's hand. Three registry commands are what it takes for a
grant, a revoke and a third command that undoes one of them. Two frames in a
direction are a Start frame with stdin behind it, and two chunks with a pipe of
one are a pump that blocks; three writers of three bytes are an output split in
two frames, another and a notice, with payloads shorter, equal to and longer than
a frame's, and empty. Four tokens are a group, a flag that takes the name of its
subcommand for a value, and an argument; and they are a command that names the
caller, a sibling, and a path that climbs out of the root and one that does not.
The six maps have between them a binding that matches twice, a document bound
twice, groups of the caller and of the resource, a forbid beside a permit, a permit
that asks beside one that does not, a rule that fails, no rule at all, a malformed
pattern, a binding that gives nothing, and no binding. The documents have
different base names in `authorize` and one base name in `same_name`.
In `registry`, `--generation` is one command's at most, because two choose bars
as they like and no property speaks of them then.

Fairness. A goroutine that is not blocked runs: weak fairness of what a session,
the watcher, `Serve` and the reader do on their own. Deadlines and timers fire:
weak fairness of `RefuseOpening`, of the end of a handshake, and of `ApproveNo`
(the approval timeout). The kernel delivers a kill (`KillCommand`) and a closed
connection (`PumpSeesEnd`). `WatcherStops` has strong fairness: its notice waits
for the frame writer's mutex, which is free again and again while a client stops
and resumes reading, and Go's mutex hands itself to a waiter that has starved.
Likewise a call queued in `Approve` gets the mutex in time; a call's fairness is
on all its steps together, which is enough because the mutex is released by
each of a bounded number of calls. Nothing is assumed of clients, operators,
commands, the users of the registry, the listener, or of a registry that cannot
be read; `RetiredSessionsEnd` is conditional on it being readable in the end.
In `Stream` and `Frames` every goroutine's work is finite, so one weak fairness
of all the steps a program takes by itself is enough: it rests only where none
of them can be taken. In `Stream` those include the reads of a command that
keeps its stdin open, and not the caller's stdin, the operator, or a command's
writes and exit.

`DisconnectKillsCommand` and `ShutdownCompletes` are checked without `stall` and
`flood`, that is, for clients that read what they are sent and commands that
read their stdin. With `flood` the first is false (section 5). With `stall` the
second is false too: killing a command does not unblock the copy of its output
to a client that does not read, and `Wait` waits for the copy.

## 4. Proofs

`AdmissionProofs`, of `Tickets`. The inductive invariant is `TypeOK`, the cap and `HistoryOK`,
which says that an entry of the table belongs to the caller its name was drawn
for and that a redeemed name is gone. It is what makes the refinement mapping
move as it should: without it a redeem could be of a name already honoured, and
the ticket would be spent twice, a state `TicketStore` does not have. From it follow
`TicketsTypeCorrect`, `TicketsBounded` (`DropExpired` is a restriction, so its
domain is a finite set no larger than before, and one name is added only below
the cap) and `TicketsImplementStore`: each action is a step of `TicketStore` or
a stutter, and `Tick` is an `ExpireTickets` of exactly the names that lapse.
`NobodyIsLockedOut` is about a step: the refusal for want of room comes from a
table that was purged first, so the cap's worth of what was in it is unexpired.
Assumed: the names are a finite set, the absent caller is no caller.

`ServerProofs`. The safety properties are not inductive: that a running command
is tracked says nothing of a session about to fork. The invariant is

* `LifeInv`: what the phase says of the live set, the child and the pump;
* `TicketInv`: from admission on a session has a ticket, spent, its alone, whose
  holder is its caller;
* `TokenInv`: what a handshake verified, and then checked, reaches the ticket it
  issues, and the registry's bar only rises;
* `PermitInv`: a session past authorization has permission, and one in the
  operator's queue asked for a withheld command;
* `StopInv`: the snapshot holds admitted sessions, the one the watcher is ending
  is retired (and, bars only rising, still is when it is stopped), and
  `EndedForCause`;
* `QuietInv`: `Serve` has returned only when every session has, so what is
  cancelled by the return is nobody's command.

Most actions change few variables, so a lemma per group of actions
(`HandshakeFrame`, `PhaseFrame`, `ChildFrame`, ...) says what it leaves alone;
`Edge` is the graph of the phases. Each part of the invariant is then preserved
by its own lemma. The theorems are `ServerTypeCorrect`, `TicketsAreSingleUse`,
`OnlyCurrentTokens`, `WatcherMissesNothing`, `PermissionFirst`,
`NoSpuriousEndings` and `CancelledForGood`. The last is temporal: a cancelled
session that has not launched keeps both until it is closed, because a context
never becomes uncancelled.

Three theorems join `Server` to the other modules. `ServerRunsTheStore`: its tickets
go through the very life that `Tickets` implements (`TicketsImplementStore`), so
the server may be read with the table in place of the store. `ServerAsksInTurn`: its
sessions are calls of `Approver`, which `Approval` implements. `ServerImplementsWarden`:
each action is a step of `Warden` or a stutter, one lemma per group of actions. The
steps that need the invariant are those of a handshake (nobody else has a ticket of
its name), the clearing of a session (`PermitInv`), the watcher's stop (`StopInv`)
and the return of `Serve` (`QuietInv`). Assumed: `ServerAssumption` only, so any number of
connections, sandboxes and generations, any cap, any commands and any events.

`ApprovalProofs`. The invariant relates the reader's state to the channel (a
parked reader holds the line after the one in the channel, a line in the channel
or in the reader's hand has settled nothing) and says that at most one call holds
the mutex. It gives type correctness, `OneLineOneQuestion`, `StaleByAtMostOne`
and the refinement to `Approver`.

`AdmissionProofs`, of `KeyFile` and the composition. `KeysAgree` is not inductive. Its strengthening says that, as
long as no two processes have been creating the file at once, whoever creates it
does so alone and finds it absent or left short by its own truncation, so that
nobody has loaded a key from it yet; `KeyHoldersAgree` follows for any number of
processes, failures, deaths and rotations. `AdmissionComposes` shows that every
behaviour of the composition is one of `Tickets` and one of `KeyFile`, so the
theorems about either hold in it. From there `AdmissionTypeCorrect` and
`OnlyTheGrantedAreAdmitted`: what a server has issued or honoured, it verified
under the key it has, and that key does not change while it listens
(`AdmissionIInv`). A whole token verifies for its caller because splitting
from the right gives back the name that was joined, whatever dots it has; for no
other caller and under no other key because of the MAC; and one cut short never
does, since its last field is then a piece of text (`VerifiesOnlyAsMinted`).
Assumed: a name has at least one part and a part is one piece of text
(`CallersAssumption`).

`RegistryProofs`. Two facts hold unconditionally: nothing is renamed over the
registry that has not been flushed (`FlushedInv`), and the types. The rest holds
while the model is `Calm`, that is until commands for one sandbox overlap, two are
inside `set` at once, the host goes down, or somebody gives `--generation`:

* `Apart`: commands that run together are for different sandboxes, and one at a
  time is inside `set`;
* `Fine`: from its choice until its rename a command's generation is one above its
  sandbox's entry, and inside `set` its map is the file with that entry changed.
  This is what ties a private map to the shared file, and what none of the
  properties says;
* `Sound`: what was granted is at most the bar, what was retired is below it, and a
  held token below it was cut off by a command that may.

Calm is stable backwards (`CalmBefore`), so a step into a calm state starts in one
where `Apart`, `Fine` and `Sound` hold. A step of one command concerns the others
through the file alone (`EachIsLocal`, `FileStep`), so each part is preserved by a
lemma for the command that moves and one for those that do not. The theorems are
`RegistryTypeCorrect`, `RegistryNeverTorn`, `RetiredTokensStayRetired`,
`FailedGrantsAreHarmless` and `BarsOnlyRise`, for any number of commands and
sandboxes and any failures; the last is what `Server` assumes of its registry.
Assumed: `RegistryAssumption` only.

`StreamProofs`. Chunks are numbered, and the invariant says where each of them is.
On the way in, what the command has read, what is in its pipe, what the pump has in
its hand, the frames on the wire and what the client has forwarded are consecutive
stretches of one stream (`PipeInv`, `UpInv`), with the announcement of its end
behind the last of them (`EndInv`); on the way out likewise for each of the two
outputs (`CopyInv`, `DownInv`), with Exit behind both (`ExitInv`). `Carries` says
of a queue of frames that those of one kind carry a stretch, each chunk once and in
order, whatever is between them; a handful of lemmas say what an append and a read
do to it. `EarlyInv` is why the frames that `readStart` drops hold no stdin, and
`PhaseInv` ties the goroutines to the command they serve. From these follow
`StreamTypeCorrect`, `ExitComesAfterOutput` and `StdinArrivesIntact`, for any
amount of input and output, any room and any events. Assumed: `StreamAssumption`.

`FramesProofs`. Neither property is inductive, because neither says anything of the
bytes. Every frame written has a place in one line of bytes, in the order in which
its writer had `mu`; the frame k starts behind the first `at[k - 1]` of them. The
invariant `StreamInv` says that what the reader has of a frame and what is on the
wire are, together, the stretch of that line that starts with the first frame not
yet returned (`Framed`) and, while the connection is up, reaches to the last byte
written (`Tight`), and that the writer in the mutex has in hand what is missing of
the one frame that is not whole (`AtWork`). The mutex is what makes this inductive: nobody
else can add a byte. One lemma each says that it survives a byte put, a frame
completed, one begun, a byte taken, a frame returned and a wire cut anywhere;
`WholeFrame` says that the length the reader finds in what it takes for a header
makes it stop at the end of that very frame, and never before. `ReadInv` then has
what was received as a beginning of what was sent, and `OrderInv` what was sent of
each writer as a beginning of its stream. The theorems are `FramesTypeCorrect`,
`StreamsGoOn` and `FramesImplementQueue`, for any number of writers, any sizes of
header, payload, write and wire. Assumed: `FramesAssumption`, which has at least one
writer. `StreamInv` quantifies over all functions `at`, so that part of the
invariant is not one that TLC can evaluate; the properties that follow from it are.

`PolicyProofs`. `CacheIsFresh` is inductive almost as it stands: the bindings do not
change once the server answers, so what one call merged is what any later call
would, whoever stores it. `AnswersAsJudged` is the refinement of `Judge`: a
merge holds the rules of every document of every binding that matches, and nothing
else (`MergedAreTheRules`), because of all sets with an id the last one decides,
and because of the hypothesis `DistinctNames` those sets have the same policy there;
and errors, forbids and permits are then found in the one exactly when in the other
(`SameVerdict`). `ForbidsAreObeyed` follows, since an answer stays the verdict of its
request. `DistinctNames`, that no two documents of a map have one base name, is not
something the code sees to: it is what the `same_name` run violates, and the two
theorems say that this is the only way in which the answers go wrong. Merging
is written as the last set with an id deciding (`Added`), which is what adding one
after the other leaves. Assumed: `PolicyAssumption`, that a map's bindings name
documents it has.

`ResolveProofs`. The three theorems are about pure functions of a list of any length,
so the invariants are of their loops, over the number of tokens or of path elements
seen, and `UpTo` is the one induction.
`TypedListsResolveAsRead` runs the two loops side by side: the parse sees the tokens
that the walk kept, in their order, `Kept` of them behind the walk. `ReadSoFar`
relates where the two are to the reading of the beginning of the list, that is, to the
words, flags, values and arguments among the first n tokens by the flags of the
command *found in the end*; its heart is that a flag which the walk stepped over with
a group's flags occupies as many tokens by the flags of any command below the group,
because of `CatalogAssumption`. When both loops are through, what `ReadSoFar` says is
a reading of the list (`EveryListResolvesAsRead`).
`TypedListsAreNotRefusedUnread` goes the other way. Given a reading, `Says` puts
what it says in terms of positions: the command's words, the flags, their values,
the arguments, and where the flags end. By induction the walk is, after n tokens,
where the reading says (`Onward`) and the parse is too (`Taking`, then `Took`
behind the last flag), so that neither refuses. A word of the command cannot be
taken for another command's, since the words of a reading are a path of the catalog
at each of their beginnings; and a flag before the last word is sbx's own
(`StartsPlainly`), so each group on the way knows it. Without that hypothesis the
statement is false, of the program too: a flag of a subcommand written before the
subcommand's name is refused, although a reading by the subcommand's flags exists.
`TypedListsAreDescribedAsRead` has two halves. What a policy is told of sandboxes is
the names by flag, by argument and by path put one after the other, and `NamesAre`
shows that these are the sandboxes `Touched`, no more and no fewer, from
`ArgumentsAre`: the arguments of a list that resolves are tokens of it. Of paths it
is told canonical ones. `CleanIs` shows, element by element, that `filepath.Clean` of
an absolute path is where a walk along it ends: the walk's directory never ends in
`..` (`AlongPlace`), so the case in which `Clean` keeps one does not arise; and
`WalkedFurther` that joining the working directory in front is starting the walk in
it. So the host paths are where the list's paths lead (`HostPathsAre`). Being under
a directory is then having it for a prefix (`UnderIs`), and the common ancestor,
which the code takes over the *parts* of paths, the empty one before the first
separator included, and of which `/` has two, is under a directory exactly when every
path is (`LongestIs`, `PartsAre`, `JoinedIs`, `CommonAncestorIs`).
Assumed: `CatalogAssumption`, and `ListsAssumption`, that tokens are well formed, that
no element of a path is empty and that working directories are absolute.

Left to TLC: every liveness property (`RetiredSessionsEnd`,
`DisconnectKillsCommand`, `ShutdownCompletes`, `EveryCallReturns`,
`ClientReturns`, `EndOfInputArrives`, `CallsReturn`), which this prover cannot
do. Every invariant and every action property of the passing runs, and every
refinement, is a theorem.

## 5. Where the program and its documents differ

Each of these three is a run that TLC ends with a counterexample.

* `stalled`. The watcher writes its notice before it stops the session, on the
  one goroutine that checks every session and to a connection without a
  deadline. A client that stops reading holds it there, and no other retired
  session is ended, against revocation.go:64.
* `lost_update`. `set` reads, merges and renames with nothing that excludes
  another process. Two that overlap undo each other, which registry.go:139 says
  re-reading prevents.
* `same_name`. Ids are qualified with the base name of their document, so
  `a/policy.cedar` and `b/policy.cedar` hold the same ids, and of each pair
  merging keeps the later: a forbid that is bound to its caller is gone, against
  authz.go:153 and README.md:459.

The others were seen while modelling and have no run.

* A ticket taken before a revocation opens a session after it: the registry is
  read on the handshake only (authorize.go:33-43), while README.md:314 says a
  revoked token is refused at the next command. The watcher ends the session at
  its next round, so the ticket lifetime and its interval bound the gap.
* One typed line can be older than the question it settles: the line `Scan` has
  returned and the reader has not sent yet is not in the channel when
  `discardTyped` finds it empty. `StaleByAtMostOne` is what does hold.
* A server and a grant that start together and both find no key each generate
  one, and the token of the one whose key was overwritten verifies nowhere, while
  main.go:339 says that they work in either order. `KeysAgree` is what holds.
* A process that dies while it creates the key file leaves it short, and no later
  start repairs it: each fails until the operator removes the file
  (identity.go:83, 99).
* A working directory given relative to the server's own (`--workdir .`,
  server.go:115) is compared as it is: nothing but itself counts as under it, and
  under `..` does whatever begins with `../`, `../..` included (context.go:119).
  With `/` nothing but `/` counts. `DescribedAsRead` is about absolute ones.
* Overlapping commands for *one* sandbox can lower its bar: a grant records the
  generation it read before its delivery (registry.go:129, grant.go:85), while
  main.go:146 says a race costs "not a missed revocation". The properties of
  `registry` therefore speak of behaviours in which no two have overlapped so.
* `--generation` records what it is given, so a smaller value lowers the bar,
  and the grant still prints that earlier tokens no longer authenticate.
* `write` flushes the file and not the directory, so a power loss just after the
  operator was told can bring the old file back (registry.go:183-192).
* README.md:574 says an approval prompt refuses "a caller that
  gives up first". Nothing reads the connection of a session that is waiting for
  its operator, so a caller that leaves is not noticed, and a later yes starts
  its command. The command is killed once the pump has started.
* A pump blocked in a command's stdin does not see its client leave,
  and a command that neither reads nor writes runs on unattended, against
  README.md:632.
* A grant that delivers its token and fails to record it leaves a
  token that the next revoke, one above the recorded minimum, does not retire,
  against main.go:128.
* Exit is not always "the final frame of every session" (protocol.go:135): the
  watcher may write its notice after it, before the session is untracked
  (revocation.go:97-102, server.go:322). The client has returned by then.
* `ReadFrame` is said to return `io.EOF` at a clean end of stream
  (protocol.go:253). A connection cut between a header and its payload gives an
  error that wraps `io.EOF` too, and both callers test with `errors.Is`
  (`ReadEnds` in `Frames`).
* An interrupt is a frame behind the stdin already sent: a pump blocked in a
  command that does not read does not deliver it.
* A stdin that fails is not reported: the server never learns that it has ended
  (client.go:222).
* `catalog.key` joins words with spaces, so the one token `"policy allow"`
  resolves to the command of two words; sbx sees one word it does not know
  (catalog.go:160). `Resolve` has this; the run's alphabet has no such token.

## 6. Limits

* `Server` takes bars that only rise. That is `BarsRiseByOne`, under the
  conditions the `registry` run states; the lowering described in section 5 is outside
  `Server`.
* Ticket names are distinct, and a MAC cannot be forged: both are cryptography.
* The policy's verdict and the argument list it judges are inputs of `Server`;
  how they come about is in `Resolve`, `Context` and `Policy`.
* Cedar itself is a library: `Cedar` has the scopes, effects, conditions and
  errors that its policies here use, not the language. Its schema, YAML and the
  fetching of remote documents are reduced to "usable" or not, and a document
  is taken to say the same at each of its reads while the map is compiled.
* Paths are compared by their text, as the code does: a symbolic link on the way
  is seen by neither. `DescribedAsTouched` walks directories without links.
* HTTP and JSON are reduced to "well formed" or "refused"; frames above the
  size limit, which this writer never sends, are not modelled.
* Windows process control is not modelled; the Unix build is.
* Generated data (`catalog`), its generators, the installers, logging and window
  resizing hold no state worth a model.

## 7. Plan

Done: `TicketStore`, `Tickets`, `KeyFile`, `Admission`, `Warden`, `Server`,
`Approver`, `Approval`, `Registry`, `Stream`, `FrameQueue`, `Frames`, `Judge` and
`Policy`, with proofs, and the theorems that join `Server` to `TicketStore`,
`Approver` and `Warden`; `Resolve` and `Context`, checked.

Left:

1. The client's handshake and its retries, and the environment filter.
2. An atomic registry, which `Registry` implements without overlapping writes. What
   `Server` takes of its registry is proved without it (`BarsOnlyRise`).
