------------------------------ MODULE Server -----------------------------
(***************************************************************************)
(* The warden server: connections, session tickets, authorization, the     *)
(* command each session runs, and the watcher that ends the sessions of a  *)
(* retired token.  internal/server, composed with TicketStore.             *)
(*                                                                         *)
(* One goroutine serves each connection, one watches the registry, one     *)
(* pumps a running command's client frames, and os/exec watches the        *)
(* context of each command; a step here is what one of them does between   *)
(* two points where another can be seen to act.  A handshake connection    *)
(* issues at most one ticket, drawn at random, so a ticket is named by the *)
(* connection that issued it.                                              *)
(*                                                                         *)
(* A command is abstracted to what is decided about it: "unlisted" (not on *)
(* the allowlist), "unresolvable" (no exact reading in the catalog),       *)
(* "denied", "allowed" or "withheld" (pending an operator's yes).          *)
(*                                                                         *)
(* Bounds: each connection is used once; MaxGeneration bounds tokens and   *)
(* how far the registry's bar is raised.                                   *)
(***************************************************************************)
EXTENDS Naturals, FiniteSets

CONSTANTS
    Handshakes,       \* connections that speak HTTP
    Sessions,         \* connections that speak the framed protocol
    Sandboxes,
    MaxGeneration,
    MaxLiveTickets,
    Commands,         \* the kinds of command sessions ask for
    Events,           \* what may go wrong around the server in an instance
    None              \* no caller, no ticket, no session

CommandKinds == {"unlisted", "unresolvable", "denied", "allowed", "withheld"}

\* "retire": tokens are revoked or replaced.  "disconnect": clients leave.  "stall":
\* clients stop reading.  "flood": clients send stdin the command does not take.
\* "unreadable": the registry cannot be read for a while.  "signal": the server
\* is told to stop.  "acceptfails": the listener fails.
EventKinds == {"retire", "disconnect", "stall", "flood", "unreadable",
               "signal", "acceptfails"}

Callers == [sandbox : Sandboxes, generation : 1 .. MaxGeneration]

ASSUME ServerAssumption ==
    /\ MaxGeneration \in Nat
    /\ Commands \subseteq CommandKinds
    /\ Events \subseteq EventKinds
    /\ None \notin Callers \cup Handshakes \cup Sessions

VARIABLES
    serve,            \* Serve: "up", "stopping", "closed", "failed", "returned"
    minimum,          \* the registry file: lowest generation accepted, per sandbox
    readable,         \* whether the registry file can be read
    status, holder,   \* the ticket store
    hello,            \* where each handshake connection is
    who,              \* the identity a handshake's token verified to
    phase,            \* where each session's goroutine is
    ticket,           \* history: the ticket a session redeemed
    caller,           \* the caller a session was admitted as
    command,          \* the command its Start frame asked for
    client,           \* "here", "stalled" (its socket takes no more), "gone"
    child,            \* the command's process group: "none", "alive", "dead"
    pump,             \* session.pump: "off", "reading", "blocked", "done"
    stopped,          \* sessions whose context has been cancelled on its own
    live,             \* liveSessions.open
    watcher,          \* watchRevocations: "waiting", "checking", "notifying", "off"
    todo,             \* the rest of the watcher's snapshot
    target,           \* the session the watcher is ending
    seen,             \* history: the registry as a handshake was accepted
    approved          \* history: sessions an operator said yes to

registryVars == <<minimum, readable>>
ticketVars   == <<status, holder>>
helloVars    == <<hello, who>>
grantVars    == <<ticket, caller, command>>
childVars    == <<child, pump>>
watcherVars  == <<watcher, todo, target>>

vars == <<serve, registryVars, ticketVars, helloVars, phase, grantVars, client,
          childVars, stopped, live, watcherVars, seen, approved>>

Store == INSTANCE TicketStore WITH Tickets <- Handshakes, NoCaller <- None

\* Registry.Accepts, of the file as it is.
Current(id) == id.generation >= minimum[id.sandbox]

\* Mutant of Cancelled: sessions do not inherit Serve's context.
CancelledAlone(s) == s \in stopped

\* The session's context or its parent's has been cancelled.
Cancelled(s) == s \in stopped \/ serve \in {"stopping", "closed"}

Goto(s, p) == phase' = [phase EXCEPT ![s] = p]

\* Every sandbox has been granted its first token.
Init ==
    /\ serve = "up"
    /\ minimum = [b \in Sandboxes |-> 1]
    /\ readable = TRUE
    /\ Store!StoreInit
    /\ hello = [h \in Handshakes |-> "absent"]
    /\ who = [h \in Handshakes |-> None]
    /\ phase = [s \in Sessions |-> "absent"]
    /\ ticket = [s \in Sessions |-> None]
    /\ caller = [s \in Sessions |-> None]
    /\ command \in [Sessions -> Commands]
    /\ client = [s \in Sessions |-> "here"]
    /\ child = [s \in Sessions |-> "none"]
    /\ pump = [s \in Sessions |-> "off"]
    /\ stopped = {}
    /\ live = {}
    /\ watcher = "waiting"
    /\ todo = {}
    /\ target = None
    /\ seen = [h \in Handshakes |-> minimum]
    /\ approved = {}

--------------------------------------------------------------------------
(* Serve *)

\* The listener stays open a moment after the signal, so a connection can
\* still be accepted then.
Accepting == serve \in {"up", "stopping"}

AcceptHandshake(h) ==
    /\ Accepting /\ hello[h] = "absent"
    /\ hello' = [hello EXCEPT ![h] = "reading"]
    /\ seen' = [seen EXCEPT ![h] = minimum]
    /\ UNCHANGED <<serve, registryVars, ticketVars, who, phase, grantVars, client,
                   childVars, stopped, live, watcherVars, approved>>

AcceptSession(s) ==
    /\ Accepting /\ phase[s] = "absent"
    /\ Goto(s, "opening")
    /\ UNCHANGED <<serve, registryVars, ticketVars, helloVars, grantVars, client,
                   childVars, stopped, live, watcherVars, seen, approved>>

\* SIGINT or SIGTERM cancels the context every session and the watcher share.
Signal ==
    /\ "signal" \in Events /\ serve \in {"up", "failed"}
    /\ serve' = IF serve = "up" THEN "stopping" ELSE "closed"
    /\ UNCHANGED <<registryVars, ticketVars, helloVars, phase, grantVars, client,
                   childVars, stopped, live, watcherVars, seen, approved>>

CloseListener ==
    /\ serve = "stopping"
    /\ serve' = "closed"
    /\ UNCHANGED <<registryVars, ticketVars, helloVars, phase, grantVars, client,
                   childVars, stopped, live, watcherVars, seen, approved>>

\* Accept fails on an open listener: no more connections, but nothing is
\* cancelled, so the sessions under way run on.
AcceptFails ==
    /\ "acceptfails" \in Events /\ serve = "up"
    /\ serve' = "failed"
    /\ UNCHANGED <<registryVars, ticketVars, helloVars, phase, grantVars, client,
                   childVars, stopped, live, watcherVars, seen, approved>>

\* Serve returns once every connection's goroutine has.
ServeReturns ==
    /\ serve \in {"closed", "failed"}
    /\ \A h \in Handshakes : hello[h] \in {"absent", "closed"}
    /\ \A s \in Sessions : phase[s] \in {"absent", "closed"}
    /\ serve' = "returned"
    /\ UNCHANGED <<registryVars, ticketVars, helloVars, phase, grantVars, client,
                   childVars, stopped, live, watcherVars, seen, approved>>

--------------------------------------------------------------------------
(* serveHandshake *)

HelloTo(h, p) == hello' = [hello EXCEPT ![h] = p]

helloUnchanged ==
    UNCHANGED <<serve, registryVars, phase, grantVars, client, childVars, stopped,
                live, watcherVars, seen, approved>>

\* Not a POST to the session path, a token that does not verify, or nothing at
\* all before the deadline.
RejectHello(h) ==
    /\ hello[h] = "reading"
    /\ HelloTo(h, "closed")
    /\ UNCHANGED <<who, ticketVars>> /\ helloUnchanged

\* Key.Verify accepts any token this host ever minted.
PresentToken(h, id) ==
    /\ hello[h] = "reading"
    /\ HelloTo(h, "checking")
    /\ who' = [who EXCEPT ![h] = id]
    /\ UNCHANGED ticketVars /\ helloUnchanged

\* Mutant of CheckGeneration: an unreadable registry refuses nobody.
CheckFailsOpen(h) ==
    /\ hello[h] = "checking"
    /\ HelloTo(h, IF ~readable \/ Current(who[h]) THEN "issuing" ELSE "closed")
    /\ UNCHANGED <<who, ticketVars>> /\ helloUnchanged

\* Mutant of CheckGeneration: the registry is read as the connection is accepted.
CheckAtAccept(h) ==
    /\ hello[h] = "checking"
    /\ HelloTo(h, IF readable /\ who[h].generation >= seen[h][who[h].sandbox]
                  THEN "issuing" ELSE "closed")
    /\ UNCHANGED <<who, ticketVars>> /\ helloUnchanged

\* authenticate reads the registry; one it cannot read refuses.
CheckGeneration(h) ==
    /\ hello[h] = "checking"
    /\ HelloTo(h, IF readable /\ Current(who[h]) THEN "issuing" ELSE "closed")
    /\ UNCHANGED <<who, ticketVars>> /\ helloUnchanged

Issue(h) ==
    /\ hello[h] = "issuing"
    /\ Store!IssueTicket(h, who[h])
    /\ HelloTo(h, "closed")
    /\ UNCHANGED who /\ helloUnchanged

RefuseFull(h) ==
    /\ hello[h] = "issuing"
    /\ Cardinality(Store!Outstanding) >= MaxLiveTickets
    /\ HelloTo(h, "closed")
    /\ UNCHANGED <<who, ticketVars>> /\ helloUnchanged

TicketLapses(h) ==
    /\ Store!ExpireTickets({h})
    /\ UNCHANGED helloVars /\ helloUnchanged

--------------------------------------------------------------------------
(* runFramedSession, up to the command *)

\* No Start frame before the deadline, a malformed one, or a credential that is
\* not an outstanding ticket.
RefuseOpening(s) ==
    /\ phase[s] = "opening"
    /\ Goto(s, "closed")
    /\ UNCHANGED <<serve, registryVars, ticketVars, helloVars, grantVars, client,
                   childVars, stopped, live, watcherVars, seen, approved>>

\* Mutant of Redeem: the ticket is looked up and not consumed.
RedeemWithoutDelete(s, h) ==
    /\ phase[s] = "opening" /\ status[h] = "outstanding"
    /\ Goto(s, "admitted")
    /\ ticket' = [ticket EXCEPT ![s] = h]
    /\ caller' = [caller EXCEPT ![s] = holder[h]]
    /\ UNCHANGED <<serve, registryVars, ticketVars, helloVars, command, client,
                   childVars, stopped, live, watcherVars, seen, approved>>

\* authenticateSession consumes the ticket.
Redeem(s, h) ==
    /\ phase[s] = "opening"
    /\ Store!RedeemTicket(h)
    /\ Goto(s, "admitted")
    /\ ticket' = [ticket EXCEPT ![s] = h]
    /\ caller' = [caller EXCEPT ![s] = holder[h]]
    /\ UNCHANGED <<serve, registryVars, helloVars, command, client, childVars,
                   stopped, live, watcherVars, seen, approved>>

\* The watcher can see the session from here on.
Track(s) ==
    /\ phase[s] = "admitted"
    /\ Goto(s, "tracked")
    /\ live' = live \cup {s}
    /\ UNCHANGED <<serve, registryVars, ticketVars, helloVars, grantVars, client,
                   childVars, stopped, watcherVars, seen, approved>>

\* What runFramedSession does with nothing else changing.
Advance(s, from, to) ==
    /\ phase[s] = from
    /\ Goto(s, to)
    /\ UNCHANGED <<serve, registryVars, ticketVars, helloVars, grantVars, client,
                   childVars, stopped, live, watcherVars, seen, approved>>

CheckAllowed(s) ==
    Advance(s, "tracked", IF command[s] = "unlisted" THEN "ending" ELSE "authorizing")

\* Mutant of Authorize: a policy that withholds is taken for one that allows.
AuthorizeWithheld(s) ==
    Advance(s, "authorizing",
            IF command[s] \in {"allowed", "withheld"} THEN "readying" ELSE "ending")

\* authorize: resolve the argv, then ask the policy; a withheld command goes to
\* the operator, whose terminal takes one question at a time.
Authorize(s) ==
    Advance(s, "authorizing", CASE command[s] = "allowed"  -> "readying"
                                [] command[s] = "withheld" -> "queued"
                                [] OTHER                   -> "ending")

\* Mutant of Prompt: the terminal's mutex is not taken.
PromptAtOnce(s) == Advance(s, "queued", "asking")

Prompt(s) ==
    /\ \A o \in Sessions : phase[o] # "asking"
    /\ Advance(s, "queued", "asking")

\* The operator says yes.  Nothing has read the client's connection meanwhile,
\* and a cancelled context and a typed line are picked between at random.
ApproveYes(s) ==
    /\ phase[s] = "asking"
    /\ Goto(s, "readying")
    /\ approved' = approved \cup {s}
    /\ UNCHANGED <<serve, registryVars, ticketVars, helloVars, grantVars, client,
                   childVars, stopped, live, watcherVars, seen>>

\* A no, no answer in time, nobody to ask, or the context was cancelled.
ApproveNo(s) == Advance(s, "asking", "ending")

SendReady(s) == Advance(s, "readying", "starting")

\* Only a client that has left makes the write fail, and not always at once.
ReadyFails(s) == client[s] = "gone" /\ Advance(s, "readying", "ending")

--------------------------------------------------------------------------
(* runSession *)

\* Mutant of CheckContext: the command is not built with the session's context.
IgnoreContext(s) == Advance(s, "starting", "forking")

\* exec's Start refuses a context that is already cancelled; the fork that
\* follows does not look again.
CheckContext(s) == ~Cancelled(s) /\ Advance(s, "starting", "forking")

Fork(s) ==
    /\ phase[s] = "forking"
    /\ Goto(s, "running")
    /\ child' = [child EXCEPT ![s] = "alive"]
    /\ pump' = [pump EXCEPT ![s] = "reading"]
    /\ UNCHANGED <<serve, registryVars, ticketVars, helloVars, grantVars, client,
                   stopped, live, watcherVars, seen, approved>>

\* Cancelled, or the binary, a pipe or the fork failed.
StartFails(s) == \E p \in {"starting", "forking"} : Advance(s, p, "ending")

childUnchanged ==
    UNCHANGED <<serve, registryVars, ticketVars, helloVars, phase, grantVars, client,
                live, watcherVars, seen, approved>>

CommandExits(s) ==
    /\ child[s] = "alive"
    /\ child' = [child EXCEPT ![s] = "dead"]
    /\ UNCHANGED <<pump, stopped>> /\ childUnchanged

\* exec's watchCtx runs cmd.Cancel, which kills the process group.
KillCommand(s) ==
    /\ child[s] = "alive" /\ Cancelled(s)
    /\ child' = [child EXCEPT ![s] = "dead"]
    /\ UNCHANGED <<pump, stopped>> /\ childUnchanged

\* Mutant of PumpSeesEnd: the pump returns without cancelling the command.
PumpJustEnds(s) ==
    /\ phase[s] = "running" /\ pump[s] = "reading" /\ client[s] = "gone"
    /\ pump' = [pump EXCEPT ![s] = "done"]
    /\ UNCHANGED <<child, stopped>> /\ childUnchanged

\* The pump finds the client gone and cancels the command.
PumpSeesEnd(s) ==
    /\ phase[s] = "running" /\ pump[s] = "reading" /\ client[s] = "gone"
    /\ pump' = [pump EXCEPT ![s] = "done"]
    /\ stopped' = stopped \cup {s}
    /\ UNCHANGED child /\ childUnchanged

\* The pump is inside stdin.Write: the pipe is full and the command not reading.
PumpBlocks(s) ==
    /\ "flood" \in Events
    /\ phase[s] = "running" /\ pump[s] = "reading" /\ child[s] = "alive"
    /\ pump' = [pump EXCEPT ![s] = "blocked"]
    /\ UNCHANGED <<child, stopped>> /\ childUnchanged

PumpUnblocks(s) ==
    /\ phase[s] = "running" /\ pump[s] = "blocked"
    /\ pump' = [pump EXCEPT ![s] = "reading"]
    /\ UNCHANGED <<child, stopped>> /\ childUnchanged

\* The command has closed its stdin: the write fails and the pump gives up.
StdinFails(s) ==
    /\ "flood" \in Events
    /\ phase[s] = "running" /\ pump[s] \in {"reading", "blocked"}
    /\ pump' = [pump EXCEPT ![s] = "done"]
    /\ stopped' = stopped \cup {s}
    /\ UNCHANGED child /\ childUnchanged

\* The copies of the command's output must finish before Wait, and one that is
\* writing to a client that takes no more does not.
Drain(s) ==
    /\ child[s] = "dead" /\ client[s] # "stalled"
    /\ Advance(s, "running", "ending")

\* The Exit frame, then the deferred calls: untrack, cancel, close.
EndSession(s) ==
    /\ phase[s] = "ending"
    /\ Goto(s, "closed")
    /\ live' = live \ {s}
    /\ stopped' = stopped \cup {s}
    /\ pump' = [pump EXCEPT ![s] = "off"]
    /\ UNCHANGED <<serve, registryVars, ticketVars, helloVars, grantVars, client,
                   child, watcherVars, seen, approved>>

--------------------------------------------------------------------------
(* watchRevocations *)

watcherUnchanged ==
    UNCHANGED <<serve, registryVars, ticketVars, helloVars, phase, grantVars, client,
                childVars, live, seen, approved>>

WatcherTick ==
    /\ watcher = "waiting"
    /\ watcher' = "checking"
    /\ todo' = live
    /\ UNCHANGED <<target, stopped>> /\ watcherUnchanged

\* Mutant of WatcherChecks: a registry that cannot be read retires every token.
WatcherFailsClosed(s) ==
    /\ watcher = "checking" /\ s \in todo
    /\ \/ /\ readable /\ Current(caller[s])
          /\ todo' = todo \ {s}
          /\ UNCHANGED <<watcher, target>>
       \/ /\ ~readable \/ ~Current(caller[s])
          /\ watcher' = "notifying" /\ target' = s
          /\ UNCHANGED todo
    /\ UNCHANGED stopped /\ watcherUnchanged

\* Mutant of WatcherChecks: the watcher returns when the registry cannot be read.
WatcherGivesUp(s) ==
    /\ watcher = "checking" /\ s \in todo
    /\ \/ /\ ~readable
          /\ watcher' = "off" /\ todo' = {}
          /\ UNCHANGED target
       \/ /\ readable /\ Current(caller[s])
          /\ todo' = todo \ {s}
          /\ UNCHANGED <<watcher, target>>
       \/ /\ readable /\ ~Current(caller[s])
          /\ watcher' = "notifying" /\ target' = s
          /\ UNCHANGED todo
    /\ UNCHANGED stopped /\ watcherUnchanged

\* One session of the snapshot, in any order.  An unreadable registry ends the
\* round and no session.
WatcherChecks(s) ==
    /\ watcher = "checking" /\ s \in todo
    /\ \/ /\ ~readable
          /\ watcher' = "waiting" /\ todo' = {}
          /\ UNCHANGED target
       \/ /\ readable /\ Current(caller[s])
          /\ todo' = todo \ {s}
          /\ UNCHANGED <<watcher, target>>
       \/ /\ readable /\ ~Current(caller[s])
          /\ watcher' = "notifying" /\ target' = s
          /\ UNCHANGED todo
    /\ UNCHANGED stopped /\ watcherUnchanged

\* Mutant of WatcherStops: a session is forgotten once it has been told to stop.
WatcherForgets ==
    /\ watcher = "notifying"
    /\ client[target] # "stalled"
    /\ watcher' = "checking" /\ todo' = todo \ {target} /\ target' = None
    /\ stopped' = stopped \cup {target}
    /\ live' = live \ {target}
    /\ UNCHANGED <<serve, registryVars, ticketVars, helloVars, phase, grantVars,
                   client, childVars, seen, approved>>

\* The line to the caller is written before stop is called, through the frame
\* writer a stalled copy of the command's output may be holding.
WatcherStops ==
    /\ watcher = "notifying"
    /\ client[target] # "stalled"
    /\ watcher' = "checking" /\ todo' = todo \ {target} /\ target' = None
    /\ stopped' = stopped \cup {target}
    /\ watcherUnchanged

WatcherRests ==
    /\ watcher = "checking" /\ todo = {}
    /\ watcher' = "waiting"
    /\ UNCHANGED <<todo, target, stopped>> /\ watcherUnchanged

WatcherQuits ==
    /\ watcher = "waiting" /\ serve \in {"stopping", "closed"}
    /\ watcher' = "off"
    /\ UNCHANGED <<todo, target, stopped>> /\ watcherUnchanged

--------------------------------------------------------------------------
(* Around the server *)

outsideUnchanged ==
    UNCHANGED <<serve, ticketVars, helloVars, phase, grantVars, childVars, stopped,
                live, watcherVars, seen, approved>>

\* Mutant of RaiseMinimum: the bar is raised past the generation Next would mint.
RaiseTwice(b) ==
    /\ "retire" \in Events
    /\ minimum[b] <= MaxGeneration
    /\ minimum' = [minimum EXCEPT ![b] = @ + 2]
    /\ UNCHANGED <<readable, client>> /\ outsideUnchanged

\* sbx-warden revoke, or a grant's Record: each raises the bar by one.
RaiseMinimum(b) ==
    /\ "retire" \in Events
    /\ minimum[b] <= MaxGeneration
    /\ minimum' = [minimum EXCEPT ![b] = @ + 1]
    /\ UNCHANGED <<readable, client>> /\ outsideUnchanged

RegistryBreaks ==
    /\ "unreadable" \in Events /\ readable
    /\ readable' = FALSE
    /\ UNCHANGED <<minimum, client>> /\ outsideUnchanged

RegistryMends ==
    /\ ~readable
    /\ readable' = TRUE
    /\ UNCHANGED <<minimum, client>> /\ outsideUnchanged

Disconnect(s) ==
    /\ "disconnect" \in Events
    /\ phase[s] \notin {"absent", "closed"} /\ client[s] # "gone"
    /\ client' = [client EXCEPT ![s] = "gone"]
    /\ UNCHANGED registryVars /\ outsideUnchanged

\* The client stops reading and the socket fills with the command's output.
Stall(s) ==
    /\ "stall" \in Events
    /\ phase[s] = "running" /\ client[s] = "here"
    /\ client' = [client EXCEPT ![s] = "stalled"]
    /\ UNCHANGED registryVars /\ outsideUnchanged

Resume(s) ==
    /\ client[s] = "stalled"
    /\ client' = [client EXCEPT ![s] = "here"]
    /\ UNCHANGED registryVars /\ outsideUnchanged

--------------------------------------------------------------------------

HandshakeNext(h) ==
    \/ AcceptHandshake(h) \/ RejectHello(h)
    \/ \E id \in Callers : PresentToken(h, id)
    \/ CheckGeneration(h) \/ Issue(h) \/ RefuseFull(h) \/ TicketLapses(h)

\* The steps of a session that only move its goroutine on.
PhaseNext(s) ==
    \/ CheckAllowed(s) \/ Authorize(s) \/ Prompt(s) \/ ApproveNo(s)
    \/ SendReady(s) \/ ReadyFails(s) \/ CheckContext(s) \/ StartFails(s) \/ Drain(s)

ChildNext(s) ==
    \/ CommandExits(s) \/ KillCommand(s)
    \/ PumpSeesEnd(s) \/ PumpBlocks(s) \/ PumpUnblocks(s) \/ StdinFails(s)

SessionNext(s) ==
    \/ AcceptSession(s) \/ RefuseOpening(s)
    \/ \E h \in Handshakes : Redeem(s, h)
    \/ Track(s) \/ PhaseNext(s) \/ ApproveYes(s) \/ Fork(s) \/ EndSession(s)
    \/ ChildNext(s)

ClientNext(s) == Disconnect(s) \/ Stall(s) \/ Resume(s)

ServeNext == Signal \/ CloseListener \/ AcceptFails \/ ServeReturns

WatcherNext ==
    \/ WatcherTick \/ WatcherStops \/ WatcherRests \/ WatcherQuits
    \/ \E s \in Sessions : WatcherChecks(s)

RegistryNext ==
    RegistryBreaks \/ RegistryMends \/ \E b \in Sandboxes : RaiseMinimum(b)

Next ==
    \/ \E h \in Handshakes : HandshakeNext(h)
    \/ \E s \in Sessions : SessionNext(s)
    \/ \E s \in Sessions : ClientNext(s)
    \/ ServeNext \/ WatcherNext \/ RegistryNext

Spec == Init /\ [][Next]_vars

\* What the goroutine of session s does on its own.
SessionStep(s) ==
    \/ Track(s) \/ CheckAllowed(s) \/ Authorize(s) \/ Prompt(s)
    \/ SendReady(s) \/ CheckContext(s) \/ Fork(s) \/ StartFails(s)
    \/ Drain(s) \/ EndSession(s)

\* Goroutines that are not blocked run; deadlines and the approval timeout fire;
\* the kernel delivers kills.  The frame writer's mutex lets every waiter in in
\* the end, hence the strong fairness of WatcherStops.  Clients, operators, commands, the registry's
\* users and the listener owe nothing.
Fairness ==
    /\ \A h \in Handshakes :
         WF_vars(RejectHello(h) \/ CheckGeneration(h) \/ Issue(h) \/ RefuseFull(h))
    /\ \A s \in Sessions :
         /\ WF_vars(RefuseOpening(s))
         /\ WF_vars(SessionStep(s))
         /\ WF_vars(ApproveNo(s))
         /\ WF_vars(KillCommand(s))
         /\ WF_vars(PumpSeesEnd(s))
    /\ WF_vars(WatcherTick)
    /\ WF_vars(\E s \in Sessions : WatcherChecks(s))
    /\ SF_vars(WatcherStops)
    /\ WF_vars(WatcherRests)
    /\ WF_vars(CloseListener)
    /\ WF_vars(ServeReturns)

FairSpec == Spec /\ Fairness

--------------------------------------------------------------------------

HelloPhases == {"absent", "reading", "checking", "issuing", "closed"}

\* The phases in which the session is the watcher's to end.
TrackedPhases == {"tracked", "authorizing", "queued", "asking", "readying",
                  "starting", "forking", "running", "ending"}

\* The phases past authentication.
AdmittedPhases == TrackedPhases \cup {"admitted"}

TypeOK ==
    /\ serve \in {"up", "stopping", "closed", "failed", "returned"}
    /\ minimum \in [Sandboxes -> 1 .. MaxGeneration + 1]
    /\ readable \in BOOLEAN
    /\ status \in [Handshakes -> {"unissued", "outstanding", "spent", "expired"}]
    /\ holder \in [Handshakes -> Callers \cup {None}]
    /\ hello \in [Handshakes -> HelloPhases]
    /\ who \in [Handshakes -> Callers \cup {None}]
    /\ phase \in [Sessions -> AdmittedPhases \cup {"absent", "opening", "closed"}]
    /\ ticket \in [Sessions -> Handshakes \cup {None}]
    /\ caller \in [Sessions -> Callers \cup {None}]
    /\ command \in [Sessions -> CommandKinds]
    /\ client \in [Sessions -> {"here", "stalled", "gone"}]
    /\ child \in [Sessions -> {"none", "alive", "dead"}]
    /\ pump \in [Sessions -> {"off", "reading", "blocked", "done"}]
    /\ stopped \subseteq Sessions
    /\ live \subseteq Sessions
    /\ watcher \in {"waiting", "checking", "notifying", "off"}
    /\ todo \subseteq Sessions
    /\ target \in Sessions \cup {None}
    /\ seen \in [Handshakes -> [Sandboxes -> 1 .. MaxGeneration + 1]]
    /\ approved \subseteq Sessions

\* A ticket opens one session, and that session acts as the caller the
\* handshake verified: no two admitted sessions share a ticket (ticket.go:30-33).
OneTicketOneSession ==
    \A s \in Sessions : ticket[s] # None =>
        /\ caller[s] = holder[ticket[s]]
        /\ caller[s] \in Callers
        /\ \A o \in Sessions \ {s} : ticket[o] # ticket[s]

\* A running command belongs to a caller whose token the registry still accepted
\* when the handshake for its ticket was accepted: retiring a token before the
\* handshake, or losing the registry, leaves no way to a command
\* (authorize.go:56-67).
CommandsHadCurrentTokens ==
    \A s \in Sessions : child[s] = "alive" =>
        /\ ticket[s] \in Handshakes
        /\ caller[s].generation >= seen[ticket[s]][caller[s].sandbox]

\* Every running command is one the watcher's next snapshot will contain
\* (revocation.go:27, server.go:314-322).
CommandsAreTracked ==
    \A s \in Sessions : child[s] = "alive" => s \in live

\* Only a command the policy allowed, or withheld and an operator then said yes
\* to, was ever started (authorize.go:78-133).
OnlyPermittedCommands ==
    \A s \in Sessions : child[s] # "none" =>
        \/ command[s] = "allowed"
        \/ command[s] = "withheld" /\ s \in approved

\* A session still open has been cancelled on its own only because its token is
\* retired or its pump gave up: a registry that cannot be read, another
\* session's revocation or a stale snapshot ends nothing (revocation.go:86-95).
EndedForCause ==
    \A s \in stopped : phase[s] # "closed" =>
        \/ ~Current(caller[s])
        \/ pump[s] = "done"

\* A session whose context is cancelled before exec looks at it, by the watcher,
\* while it waits for an operator, or by shutdown, never runs its command, even
\* on a yes (server.go:313-322, approval.go:106-117).
BeforeLaunch == {"absent", "opening", "admitted", "tracked", "authorizing",
                 "queued", "asking", "readying", "starting"}

CancelledNeverRuns ==
    \A s \in Sessions :
        [](Cancelled(s) /\ phase[s] \in BeforeLaunch => [](child[s] = "none"))

\* Sessions take their turns at the operator's terminal: one question at a time,
\* and a yes only to the question that was asked (authorize.go:106-133).
Approvals == INSTANCE Approver WITH
    Calls <- Sessions,
    call <- [s \in Sessions |-> IF phase[s] \in {"queued", "asking"} THEN phase[s] ELSE "out"],
    yes <- approved

SessionsTakeTurns == Approvals!ApproverSpec

\* Where a session is, seen from outside.
Stage(s) ==
    CASE phase[s] \in {"absent", "opening"} -> "out"
      [] phase[s] \in {"admitted", "tracked", "authorizing", "queued", "asking"} -> "in"
      [] phase[s] \in {"readying", "starting"} -> "cleared"
      [] phase[s] = "forking" -> "launched"
      [] phase[s] = "running" /\ child[s] = "alive" -> "running"
      [] OTHER -> "over"

Stages == [s \in Sessions |-> Stage(s)]

\* Whom a handshake connection can still admit, and those that no longer can.
Vouched ==
    [h \in Handshakes |-> CASE hello[h] = "issuing"      -> who[h]
                            [] status[h] = "outstanding" -> holder[h]
                            [] OTHER                     -> None]

Void == {h \in Handshakes : hello[h] = "closed" /\ status[h] # "outstanding"}

Doomed ==
    {s \in Sessions : Stage(s) # "over" /\ (Cancelled(s) \/ serve = "returned")}

Promise == INSTANCE Warden WITH
    Vouchers <- Handshakes, bar <- minimum, voucher <- Vouched, void <- Void,
    stage <- Stages, admitted <- caller, doomed <- Doomed

\* A caller is vouched for on a token the registry accepts at that moment, once; a
\* session acts as whom it was vouched for; its command is cleared, then launched
\* unless it has been told to end; and it is told to only for a retired token, a
\* client or stdin that is gone, or shutdown (authorize.go:33-133, server.go:303-353).
ImplementsWarden == Promise!WardenSpec

\* A session whose token is retired ends, once the registry can be read
\* (server.go:72-75, revocation.go:64-68).
RetiredSessionsEnd ==
    <>[]readable =>
        \A s \in Sessions :
            (s \in live /\ ~Current(caller[s])) ~> (phase[s] = "closed")

\* A command does not outlive the client it runs for (README.md:632).
DisconnectKillsCommand ==
    \A s \in Sessions :
        (child[s] = "alive" /\ client[s] = "gone") ~> (child[s] = "dead")

\* Cancelling Serve's context makes Serve return (server.go:222-242).
ShutdownCompletes == (serve = "closed") ~> (serve = "returned")

\* revocation.go:64: the watcher ends every session whose token stops being
\* current, here for a session whose own client keeps reading.
RevocationReachesReaders ==
    \A s \in Sessions :
        (s \in live /\ ~Current(caller[s])) ~>
            (Cancelled(s) \/ phase[s] = "closed" \/ client[s] # "here")
==========================================================================
