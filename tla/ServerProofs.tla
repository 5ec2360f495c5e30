--------------------------- MODULE ServerProofs --------------------------
(***************************************************************************)
(* Safety of Server for every set of connections, sandboxes and commands,  *)
(* every bound and every combination of events.                            *)
(*                                                                         *)
(* The inductive invariant is a conjunction of parts, one per concern, each*)
(* proved stable from itself and the parts before it.                      *)
(***************************************************************************)
EXTENDS Server, TLAPS

\* Where a session is says whether it is tracked and whether its command runs.
LifeInv ==
    \A s \in Sessions :
        /\ s \in live <=> phase[s] \in TrackedPhases
        /\ child[s] = "alive" => phase[s] = "running"
        /\ child[s] # "none" => phase[s] \in {"running", "ending", "closed"}
        /\ pump[s] # "off" => phase[s] \in {"running", "ending"}

\* A session has a ticket from Redeem on; the ticket is spent and its alone.
TicketInv ==
    \A s \in Sessions :
        /\ phase[s] \in {"absent", "opening"} => ticket[s] = None
        /\ phase[s] \in AdmittedPhases => ticket[s] # None
        /\ ticket[s] # None =>
             /\ status[ticket[s]] = "spent"
             /\ caller[s] = holder[ticket[s]]
             /\ \A o \in Sessions \ {s} : ticket[o] # ticket[s]

\* id was no older than the bar found when connection c was accepted.
WasCurrent(c, id) == id.generation >= seen[c][id.sandbox]

\* What a handshake verified and checked reaches the ticket it issues.
TokenInv ==
    /\ \A c \in Handshakes, b \in Sandboxes : seen[c][b] <= minimum[b]
    /\ \A h \in Handshakes :
        /\ hello[h] \in {"checking", "issuing"} => who[h] \in Callers
        /\ hello[h] = "issuing" => WasCurrent(h, who[h])
        /\ status[h] # "unissued" =>
             hello[h] = "closed" /\ holder[h] \in Callers /\ WasCurrent(h, holder[h])

Permitted(s) ==
    \/ command[s] = "allowed"
    \/ command[s] = "withheld" /\ s \in approved

\* A session past authorization, or with a command, has permission.
PermitInv ==
    \A s \in Sessions :
        /\ phase[s] \in {"queued", "asking"} => command[s] = "withheld"
        /\ phase[s] \in {"readying", "starting", "forking", "running"} => Permitted(s)
        /\ child[s] # "none" => Permitted(s)

\* The watcher's snapshot holds admitted sessions only, and the one it is ending
\* is retired; a session cancelled on its own is retired or has lost its pump.
StopInv ==
    /\ \A s \in todo \cup stopped : ticket[s] # None
    /\ watcher = "notifying" => target # None
    /\ target # None => ticket[target] # None /\ ~Current(caller[target])
    /\ EndedForCause

\* Serve has returned only when every session has.
QuietInv == serve = "returned" => \A s \in Sessions : phase[s] \in {"absent", "closed"}

IInv == TypeOK /\ LifeInv /\ TicketInv /\ TokenInv /\ PermitInv /\ StopInv /\ QuietInv

--------------------------------------------------------------------------

\* What each group of actions leaves alone.
LEMMA HandshakeFrame ==
    ASSUME NEW h \in Handshakes, HandshakeNext(h)
    PROVE  UNCHANGED <<serve, minimum, readable, phase, ticket, caller, command,
                       client, child, pump, stopped, live, watcher, todo, target,
                       approved>>
BY DEF HandshakeNext, AcceptHandshake, RejectHello, PresentToken, CheckGeneration,
       Issue, RefuseFull, TicketLapses, helloUnchanged, registryVars, grantVars,
       childVars, watcherVars

LEMMA AdvanceFrame ==
    ASSUME NEW s \in Sessions, NEW from, NEW to, Advance(s, from, to)
    PROVE  UNCHANGED <<serve, minimum, readable, status, holder, hello, who, ticket,
                       caller, command, client, child, pump, stopped, live, watcher,
                       todo, target, seen, approved>>
BY DEF Advance, registryVars, ticketVars, helloVars, grantVars, childVars, watcherVars

\* Where PhaseNext may take a session, and on what condition.
Edge(s, from, to) ==
    /\ from \in TrackedPhases \ {"ending"} /\ to \in TrackedPhases \ {"tracked", "running"}
    /\ from = "running" => child[s] = "dead" /\ to = "ending"
    /\ to = "authorizing" => from = "tracked"
    /\ to = "queued" => from = "authorizing" /\ command[s] = "withheld"
    /\ to = "asking" => from = "queued" /\ \A o \in Sessions : phase[o] # "asking"
    /\ to = "readying" => from = "authorizing" /\ command[s] = "allowed"
    /\ to = "starting" => from = "readying"
    /\ to = "forking" => from = "starting" /\ ~Cancelled(s)

LEMMA PhaseFrame ==
    ASSUME NEW s \in Sessions, PhaseNext(s)
    PROVE  \E from, to : Advance(s, from, to) /\ Edge(s, from, to)
<1>. USE DEF Edge, TrackedPhases
<1>1. CASE CheckAllowed(s)
  BY <1>1 DEF CheckAllowed
<1>2. CASE Authorize(s)
  <2>1. CASE command[s] = "allowed"
    BY <1>2, <2>1 DEF Authorize
  <2>2. CASE command[s] = "withheld"
    BY <1>2, <2>2 DEF Authorize
  <2>3. CASE command[s] \notin {"allowed", "withheld"}
    BY <1>2, <2>3 DEF Authorize
  <2>. QED
    BY <2>1, <2>2, <2>3
<1>3. CASE Prompt(s)
  BY <1>3 DEF Prompt
<1>4. CASE ApproveNo(s)
  BY <1>4 DEF ApproveNo
<1>5. CASE SendReady(s)
  BY <1>5 DEF SendReady
<1>6. CASE ReadyFails(s)
  BY <1>6 DEF ReadyFails
<1>7. CASE CheckContext(s)
  BY <1>7 DEF CheckContext
<1>8. CASE StartFails(s)
  BY <1>8 DEF StartFails
<1>9. CASE Drain(s)
  BY <1>9 DEF Drain
<1>. QED
  BY <1>1, <1>2, <1>3, <1>4, <1>5, <1>6, <1>7, <1>8, <1>9 DEF PhaseNext

LEMMA ChildFrame ==
    ASSUME NEW s \in Sessions, ChildNext(s)
    PROVE  UNCHANGED <<serve, minimum, readable, status, holder, hello, who, phase,
                       ticket, caller, command, client, live, watcher, todo, target,
                       seen, approved>>
BY DEF ChildNext, CommandExits, KillCommand, PumpSeesEnd, PumpBlocks, PumpUnblocks,
       StdinFails, childUnchanged, registryVars, ticketVars, helloVars, grantVars,
       watcherVars

LEMMA ClientFrame ==
    ASSUME NEW s \in Sessions, ClientNext(s)
    PROVE  UNCHANGED <<serve, minimum, readable, status, holder, hello, who, phase,
                       ticket, caller, command, child, pump, stopped, live, watcher,
                       todo, target, seen, approved>>
BY DEF ClientNext, Disconnect, Stall, Resume, outsideUnchanged, registryVars,
       ticketVars, helloVars, grantVars, childVars, watcherVars

LEMMA ServeFrame ==
    ASSUME ServeNext
    PROVE  UNCHANGED <<minimum, readable, status, holder, hello, who, phase, ticket,
                       caller, command, client, child, pump, stopped, live, watcher,
                       todo, target, seen, approved>>
BY DEF ServeNext, Signal, CloseListener, AcceptFails, ServeReturns, registryVars,
       ticketVars, helloVars, grantVars, childVars, watcherVars

LEMMA WatcherFrame ==
    ASSUME WatcherNext
    PROVE  UNCHANGED <<serve, minimum, readable, status, holder, hello, who, phase,
                       ticket, caller, command, client, child, pump, live, seen,
                       approved>>
BY DEF WatcherNext, WatcherTick, WatcherStops, WatcherRests, WatcherQuits,
       WatcherChecks, watcherUnchanged, registryVars, ticketVars, helloVars,
       grantVars, childVars

LEMMA RegistryFrame ==
    ASSUME RegistryNext
    PROVE  UNCHANGED <<serve, status, holder, hello, who, phase, ticket, caller,
                       command, client, child, pump, stopped, live, watcher, todo,
                       target, seen, approved>>
BY DEF RegistryNext, RegistryBreaks, RegistryMends, RaiseMinimum, outsideUnchanged,
       ticketVars, helloVars, grantVars, childVars, watcherVars

--------------------------------------------------------------------------

\* The server starts with nothing open, so every part holds vacuously.
LEMMA InitIInv == Init => IInv
<1>. SUFFICES ASSUME Init PROVE IInv
  OBVIOUS
<1>. USE ServerAssumption DEF ServerAssumption, Init, Store!StoreInit
<1>1. TypeOK
  BY DEF TypeOK, HelloPhases, AdmittedPhases, TrackedPhases
<1>2. LifeInv
  BY DEF LifeInv, TrackedPhases
<1>3. TicketInv
  BY DEF TicketInv, AdmittedPhases, TrackedPhases
<1>4. TokenInv
  BY DEF TokenInv
<1>5. PermitInv
  BY DEF PermitInv
<1>6. StopInv
  BY DEF StopInv, EndedForCause
<1>7. QuietInv
  BY DEF QuietInv
<1>. QED
  BY <1>1, <1>2, <1>3, <1>4, <1>5, <1>6, <1>7 DEF IInv

LEMMA TypeStep == IInv /\ [Next]_vars => TypeOK'
<1>. SUFFICES ASSUME TypeOK, StopInv, [Next]_vars PROVE TypeOK'
  BY DEF IInv
<1>. USE DEF TypeOK
<1>1. ASSUME NEW h \in Handshakes, HandshakeNext(h) PROVE TypeOK'
  <2>0. UNCHANGED <<serve, minimum, readable, phase, ticket, caller, command, client,
                    child, pump, stopped, live, watcher, todo, target, approved>>
    BY <1>1, HandshakeFrame
  <2>. USE DEF HelloPhases, HelloTo, helloUnchanged, ticketVars
  <2>1. CASE AcceptHandshake(h)
    BY <2>0, <2>1 DEF AcceptHandshake
  <2>2. CASE RejectHello(h)
    BY <2>0, <2>2 DEF RejectHello
  <2>3. ASSUME NEW id \in Callers, PresentToken(h, id) PROVE TypeOK'
    BY <2>0, <2>3 DEF PresentToken
  <2>4. CASE CheckGeneration(h)
    BY <2>0, <2>4 DEF CheckGeneration
  <2>5. CASE Issue(h)
    BY <2>0, <2>5 DEF Issue, Store!IssueTicket
  <2>6. CASE RefuseFull(h)
    BY <2>0, <2>6 DEF RefuseFull
  <2>7. CASE TicketLapses(h)
    BY <2>0, <2>7 DEF TicketLapses, Store!ExpireTickets, helloVars
  <2>. QED
    BY <1>1, <2>1, <2>2, <2>3, <2>4, <2>5, <2>6, <2>7 DEF HandshakeNext
<1>2. ASSUME NEW s \in Sessions, SessionNext(s) PROVE TypeOK'
  <2>. USE DEF registryVars, ticketVars, helloVars, grantVars, childVars, watcherVars,
               Goto, AdmittedPhases, TrackedPhases
  <2>1. CASE AcceptSession(s)
    BY <2>1 DEF AcceptSession
  <2>2. CASE RefuseOpening(s)
    BY <2>2 DEF RefuseOpening
  <2>3. ASSUME NEW h \in Handshakes, Redeem(s, h) PROVE TypeOK'
    BY <2>3 DEF Redeem, Store!RedeemTicket
  <2>4. CASE Track(s)
    BY <2>4 DEF Track
  <2>5. CASE PhaseNext(s)
    <3>1. PICK from, to : Advance(s, from, to) /\ Edge(s, from, to)
      BY <2>5, PhaseFrame
    <3>. QED
      BY <3>1 DEF Advance, Edge
  <2>6. CASE ApproveYes(s)
    BY <2>6 DEF ApproveYes
  <2>7. CASE Fork(s)
    BY <2>7 DEF Fork
  <2>8. CASE EndSession(s)
    BY <2>8 DEF EndSession
  <2>9. CASE ChildNext(s)
    <3>. USE <2>9, ChildFrame
    <3>1. CASE CommandExits(s)
      BY <3>1 DEF CommandExits
    <3>2. CASE KillCommand(s)
      BY <3>2 DEF KillCommand
    <3>3. CASE PumpSeesEnd(s)
      BY <3>3 DEF PumpSeesEnd
    <3>4. CASE PumpBlocks(s) \/ PumpUnblocks(s)
      BY <3>4 DEF PumpBlocks, PumpUnblocks
    <3>5. CASE StdinFails(s)
      BY <3>5 DEF StdinFails
    <3>. QED
      BY <2>9, <3>1, <3>2, <3>3, <3>4, <3>5 DEF ChildNext
  <2>. QED
    BY <1>2, <2>1, <2>2, <2>3, <2>4, <2>5, <2>6, <2>7, <2>8, <2>9 DEF SessionNext
<1>3. ASSUME NEW s \in Sessions, ClientNext(s) PROVE TypeOK'
  BY <1>3, ClientFrame DEF ClientNext, Disconnect, Stall, Resume
<1>4. CASE ServeNext
  BY <1>4, ServeFrame DEF ServeNext, Signal, CloseListener, AcceptFails, ServeReturns
<1>5. CASE WatcherNext
  BY <1>5, WatcherFrame DEF StopInv, WatcherNext, WatcherTick, WatcherStops,
     WatcherRests, WatcherQuits, WatcherChecks
<1>6. CASE RegistryNext
  <2>1. ASSUME NEW b \in Sandboxes, RaiseMinimum(b)
        PROVE  minimum' \in [Sandboxes -> 1 .. MaxGeneration + 1]
    <3>1. minimum[b] + 1 \in 1 .. MaxGeneration + 1
      BY <2>1, ServerAssumption DEF ServerAssumption, RaiseMinimum
    <3>. QED
      BY <2>1, <3>1 DEF RaiseMinimum
  <2>2. minimum' \in [Sandboxes -> 1 .. MaxGeneration + 1] /\ readable' \in BOOLEAN
    BY <1>6, <2>1 DEF RegistryNext, RegistryBreaks, RegistryMends, RaiseMinimum
  <2>. QED
    BY <1>6, <2>2, RegistryFrame
<1>7. CASE UNCHANGED vars
  BY <1>7 DEF vars, registryVars, ticketVars, helloVars, grantVars, childVars, watcherVars
<1>. QED
  BY <1>1, <1>2, <1>3, <1>4, <1>5, <1>6, <1>7 DEF Next

--------------------------------------------------------------------------

\* Tracking and the command's life follow the session's goroutine.
LEMMA LifeStep == IInv /\ [Next]_vars => LifeInv'
<1>. SUFFICES ASSUME TypeOK, LifeInv, [Next]_vars PROVE LifeInv'
  BY DEF IInv
<1>. USE DEF LifeInv
<1>1. ASSUME NEW s \in Sessions, SessionNext(s) PROVE LifeInv'
  <2>. USE DEF TypeOK, Goto, childVars, TrackedPhases
  <2>1. CASE AcceptSession(s)
    BY <2>1 DEF AcceptSession
  <2>2. CASE RefuseOpening(s)
    BY <2>2 DEF RefuseOpening
  <2>3. ASSUME NEW h \in Handshakes, Redeem(s, h) PROVE LifeInv'
    BY <2>3 DEF Redeem
  <2>4. CASE Track(s)
    BY <2>4 DEF Track
  <2>5. CASE PhaseNext(s)
    <3>1. PICK from, to : Advance(s, from, to) /\ Edge(s, from, to)
      BY <2>5, PhaseFrame
    <3>2. UNCHANGED <<live, child, pump>>
      BY <3>1, AdvanceFrame
    <3>3. phase[s] = from /\ phase' = [phase EXCEPT ![s] = to]
      BY <3>1 DEF Advance
    <3>. QED
      BY <3>1, <3>2, <3>3 DEF Edge
  <2>6. CASE ApproveYes(s)
    BY <2>6 DEF ApproveYes
  <2>7. CASE Fork(s)
    BY <2>7 DEF Fork
  <2>8. CASE EndSession(s)
    BY <2>8 DEF EndSession
  <2>9. CASE ChildNext(s)
    <3>1. phase' = phase /\ live' = live
      BY <2>9, ChildFrame
    <3>2. \A o \in Sessions : /\ child'[o] = "alive" => child[o] = "alive"
                              /\ child'[o] # "none" => child[o] # "none"
      BY <2>9 DEF ChildNext, CommandExits, KillCommand, PumpSeesEnd, PumpBlocks,
         PumpUnblocks, StdinFails
    <3>3. \A o \in Sessions : pump'[o] # "off" => pump[o] # "off"
      BY <2>9 DEF ChildNext, CommandExits, KillCommand, PumpSeesEnd, PumpBlocks,
         PumpUnblocks, StdinFails
    <3>. QED
      BY <3>1, <3>2, <3>3
  <2>. QED
    BY <1>1, <2>1, <2>2, <2>3, <2>4, <2>5, <2>6, <2>7, <2>8, <2>9 DEF SessionNext
<1>2. CASE UNCHANGED <<phase, live, child, pump>>
  BY <1>2
<1>3. ASSUME ~(\E s \in Sessions : SessionNext(s))
      PROVE  UNCHANGED <<phase, live, child, pump>>
  BY <1>3, HandshakeFrame, ClientFrame, ServeFrame, WatcherFrame, RegistryFrame
  DEF Next, vars, childVars
<1>. QED
  BY <1>1, <1>2, <1>3

\* A redeemed ticket stays spent, and only one session can have spent it.
LEMMA TicketStep == IInv /\ [Next]_vars => TicketInv'
<1>. SUFFICES ASSUME TypeOK, TicketInv, [Next]_vars PROVE TicketInv'
  BY DEF IInv
<1>. USE ServerAssumption DEF ServerAssumption, TicketInv, TypeOK
<1>1. ASSUME NEW h \in Handshakes, HandshakeNext(h) PROVE TicketInv'
  <2>1. UNCHANGED <<phase, ticket, caller>>
    BY <1>1, HandshakeFrame
  <2>2. \A k \in Handshakes : status[k] = "spent" => status'[k] = "spent" /\ holder'[k] = holder[k]
    BY <1>1 DEF HandshakeNext, AcceptHandshake, RejectHello, PresentToken,
       CheckGeneration, Issue, RefuseFull, TicketLapses, ticketVars,
       Store!IssueTicket, Store!ExpireTickets, Store!Outstanding
  <2>. QED
    BY <2>1, <2>2
<1>2. ASSUME NEW s \in Sessions, SessionNext(s) PROVE TicketInv'
  <2>. USE DEF Goto, ticketVars, grantVars, AdmittedPhases, TrackedPhases
  <2>1. CASE AcceptSession(s)
    BY <2>1 DEF AcceptSession
  <2>2. CASE RefuseOpening(s)
    BY <2>2 DEF RefuseOpening
  <2>3. ASSUME NEW h \in Handshakes, Redeem(s, h) PROVE TicketInv'
    <3>1. /\ status[h] = "outstanding" /\ holder' = holder
          /\ status' = [status EXCEPT ![h] = "spent"]
          /\ ticket' = [ticket EXCEPT ![s] = h]
          /\ caller' = [caller EXCEPT ![s] = holder[h]]
          /\ phase' = [phase EXCEPT ![s] = "admitted"]
      BY <2>3 DEF Redeem, Store!RedeemTicket
    <3>2. \A o \in Sessions : ticket[o] # h
      BY <3>1
    <3>. QED
      BY <3>1, <3>2
  <2>4. CASE Track(s)
    BY <2>4 DEF Track
  <2>5. CASE PhaseNext(s)
    <3>1. PICK from, to : Advance(s, from, to) /\ Edge(s, from, to)
      BY <2>5, PhaseFrame
    <3>. QED
      BY <3>1 DEF Edge, Advance
  <2>6. CASE ApproveYes(s)
    BY <2>6 DEF ApproveYes
  <2>7. CASE Fork(s)
    BY <2>7 DEF Fork
  <2>8. CASE EndSession(s)
    BY <2>8 DEF EndSession
  <2>9. CASE ChildNext(s)
    BY <2>9, ChildFrame
  <2>. QED
    BY <1>2, <2>1, <2>2, <2>3, <2>4, <2>5, <2>6, <2>7, <2>8, <2>9 DEF SessionNext
<1>3. CASE UNCHANGED <<phase, ticket, caller, status, holder>>
  BY <1>3
<1>4. ASSUME ~(\E h \in Handshakes : HandshakeNext(h)),
             ~(\E s \in Sessions : SessionNext(s))
      PROVE  UNCHANGED <<phase, ticket, caller, status, holder>>
  BY <1>4, ClientFrame, ServeFrame, WatcherFrame, RegistryFrame
  DEF Next, vars, grantVars, ticketVars
<1>. QED
  BY <1>1, <1>2, <1>3, <1>4

\* The bar only rises, so a token current at the registry read was current when
\* its connection was accepted, and what was checked reaches the ticket.
LEMMA TokenStep == IInv /\ [Next]_vars => TokenInv'
<1>. SUFFICES ASSUME TypeOK, TokenInv, [Next]_vars PROVE TokenInv'
  BY DEF IInv
<1>. USE DEF TokenInv, WasCurrent
<1>0. /\ minimum \in [Sandboxes -> Nat]
      /\ seen \in [Handshakes -> [Sandboxes -> Nat]]
      /\ \A id \in Callers : id.generation \in Nat /\ id.sandbox \in Sandboxes
  BY ServerAssumption DEF TypeOK, Callers, ServerAssumption
<1>1. ASSUME NEW h \in Handshakes, HandshakeNext(h) PROVE TokenInv'
  <2>0. minimum' = minimum
    BY <1>1, HandshakeFrame
  <2>. USE DEF TypeOK, HelloTo, helloUnchanged, ticketVars, helloVars
  <2>1. CASE AcceptHandshake(h)
    <3>1. /\ hello[h] = "absent" /\ hello' = [hello EXCEPT ![h] = "reading"]
          /\ seen' = [seen EXCEPT ![h] = minimum]
          /\ UNCHANGED <<who, status, holder>>
      BY <2>1 DEF AcceptHandshake
    <3>2. \A c \in Handshakes, b \in Sandboxes : seen'[c][b] <= minimum[b]
      BY <1>0, <3>1
    <3>3. \A k \in Handshakes \ {h} : hello'[k] = hello[k] /\ seen'[k] = seen[k]
      BY <3>1
    <3>4. hello'[h] = "reading" /\ status'[h] = "unissued"
      BY <3>1
    <3>. QED
      BY <2>0, <3>1, <3>2, <3>3, <3>4
  <2>2. CASE RejectHello(h)
    BY <2>0, <2>2 DEF RejectHello
  <2>3. ASSUME NEW id \in Callers, PresentToken(h, id) PROVE TokenInv'
    BY <2>0, <2>3 DEF PresentToken
  <2>4. CASE CheckGeneration(h)
    <3>1. /\ hello[h] = "checking" /\ UNCHANGED <<who, status, holder, seen>>
          /\ hello' = [hello EXCEPT ![h] =
                         IF readable /\ Current(who[h]) THEN "issuing" ELSE "closed"]
      BY <2>4 DEF CheckGeneration
    <3>2. Current(who[h]) => WasCurrent(h, who[h])
      BY <1>0, <3>1 DEF Current
    <3>. QED
      BY <2>0, <3>1, <3>2
  <2>5. CASE Issue(h)
    BY <2>0, <2>5 DEF Issue, Store!IssueTicket
  <2>6. CASE RefuseFull(h)
    BY <2>0, <2>6 DEF RefuseFull
  <2>7. CASE TicketLapses(h)
    BY <2>0, <2>7 DEF TicketLapses, Store!ExpireTickets, Store!Outstanding
  <2>. QED
    BY <1>1, <2>1, <2>2, <2>3, <2>4, <2>5, <2>6, <2>7 DEF HandshakeNext
<1>2. ASSUME NEW s \in Sessions, SessionNext(s) PROVE TokenInv'
  <2>. USE DEF TypeOK
  <2>1. ASSUME NEW h \in Handshakes, Redeem(s, h) PROVE TokenInv'
    <3>1. /\ UNCHANGED <<minimum, hello, who, holder, seen>>
          /\ status[h] = "outstanding" /\ status' = [status EXCEPT ![h] = "spent"]
      BY <2>1 DEF Redeem, Store!RedeemTicket, registryVars, helloVars
    <3>. QED
      BY <3>1
  <2>2. CASE ~(\E h \in Handshakes : Redeem(s, h))
    <3>1. UNCHANGED <<minimum, hello, who, status, holder, seen>>
      BY <1>2, <2>2, PhaseFrame, AdvanceFrame, ChildFrame
      DEF SessionNext, AcceptSession, RefuseOpening, Track, ApproveYes, Fork, EndSession,
          registryVars, helloVars, ticketVars
    <3>. QED
      BY <3>1
  <2>. QED
    BY <2>1, <2>2
<1>3. CASE RegistryNext
  <2>1. UNCHANGED <<hello, who, status, holder, seen>>
    BY <1>3, RegistryFrame
  <2>2. \A b \in Sandboxes : minimum[b] <= minimum'[b]
    BY <1>0, <1>3 DEF RegistryNext, RegistryBreaks, RegistryMends, RaiseMinimum
  <2>3. minimum' \in [Sandboxes -> Nat]
    BY <1>0, <1>3 DEF RegistryNext, RegistryBreaks, RegistryMends, RaiseMinimum
  <2>4. \A c \in Handshakes, b \in Sandboxes : seen[c][b] <= minimum'[b]
    BY <1>0, <2>2, <2>3
  <2>. QED
    BY <2>1, <2>4
<1>4. CASE UNCHANGED <<minimum, hello, who, status, holder, seen>>
  BY <1>4
<1>5. ASSUME ~(\E h \in Handshakes : HandshakeNext(h)),
             ~(\E s \in Sessions : SessionNext(s)), ~RegistryNext
      PROVE  UNCHANGED <<minimum, hello, who, status, holder, seen>>
  BY <1>5, ClientFrame, ServeFrame, WatcherFrame
  DEF Next, vars, registryVars, helloVars, ticketVars
<1>. QED
  BY <1>1, <1>2, <1>3, <1>4, <1>5

\* Permission is given before a command starts and never taken back.
LEMMA PermitStep == IInv /\ [Next]_vars => PermitInv'
<1>. SUFFICES ASSUME TypeOK, PermitInv, [Next]_vars PROVE PermitInv'
  BY DEF IInv
<1>. USE DEF TypeOK, PermitInv, Permitted
<1>1. ASSUME NEW s \in Sessions, SessionNext(s) PROVE PermitInv'
  <2>. USE DEF Goto, grantVars, childVars
  <2>1. CASE AcceptSession(s)
    BY <2>1 DEF AcceptSession
  <2>2. CASE RefuseOpening(s)
    BY <2>2 DEF RefuseOpening
  <2>3. ASSUME NEW h \in Handshakes, Redeem(s, h) PROVE PermitInv'
    BY <2>3 DEF Redeem
  <2>4. CASE Track(s)
    BY <2>4 DEF Track
  <2>5. CASE PhaseNext(s)
    <3>1. PICK from, to : Advance(s, from, to) /\ Edge(s, from, to)
      BY <2>5, PhaseFrame
    <3>2. UNCHANGED <<command, child, approved>>
      BY <3>1, AdvanceFrame
    <3>3. phase[s] = from /\ phase' = [phase EXCEPT ![s] = to]
      BY <3>1 DEF Advance
    <3>4. /\ to \in {"queued", "asking"} => command[s] = "withheld"
          /\ to \in {"readying", "starting", "forking", "running"} => Permitted(s)
      BY <3>1, <3>3 DEF Edge
    <3>. QED
      BY <3>2, <3>3, <3>4
  <2>6. CASE ApproveYes(s)
    BY <2>6 DEF ApproveYes
  <2>7. CASE Fork(s)
    BY <2>7 DEF Fork
  <2>8. CASE EndSession(s)
    BY <2>8 DEF EndSession
  <2>9. CASE ChildNext(s)
    <3>1. UNCHANGED <<phase, command, approved>>
      BY <2>9, ChildFrame
    <3>2. \A o \in Sessions : child'[o] # "none" => child[o] # "none"
      BY <2>9 DEF ChildNext, CommandExits, KillCommand, PumpSeesEnd, PumpBlocks,
         PumpUnblocks, StdinFails
    <3>. QED
      BY <3>1, <3>2
  <2>. QED
    BY <1>1, <2>1, <2>2, <2>3, <2>4, <2>5, <2>6, <2>7, <2>8, <2>9 DEF SessionNext
<1>2. CASE UNCHANGED <<phase, command, child, approved>>
  BY <1>2
<1>3. ASSUME ~(\E s \in Sessions : SessionNext(s))
      PROVE  UNCHANGED <<phase, command, child, approved>>
  BY <1>3, HandshakeFrame, ClientFrame, ServeFrame, WatcherFrame, RegistryFrame
  DEF Next, vars, grantVars, childVars
<1>. QED
  BY <1>1, <1>2, <1>3

\* A raised bar never makes a retired token current again.
LEMMA RetiredStaysRetired ==
    ASSUME TypeOK, NEW id \in Callers, RegistryNext, ~Current(id)
    PROVE  ~Current(id)'
<1>1. id.generation \in Nat /\ id.sandbox \in Sandboxes
  BY ServerAssumption DEF Callers, ServerAssumption
<1>2. minimum \in [Sandboxes -> Nat]
  BY ServerAssumption DEF TypeOK, ServerAssumption
<1>3. /\ \A b \in Sandboxes : minimum[b] <= minimum'[b]
      /\ minimum' \in [Sandboxes -> Nat]
  BY <1>2 DEF RegistryNext, RegistryBreaks, RegistryMends, RaiseMinimum
<1>. QED
  BY <1>1, <1>2, <1>3 DEF Current

\* Contexts are cancelled only by the watcher for a retired token, by a pump
\* that has ended, or by the session's own return.
LEMMA StopStep == IInv /\ [Next]_vars => StopInv'
<1>. SUFFICES ASSUME TypeOK, LifeInv, TicketInv, TokenInv, StopInv, [Next]_vars
              PROVE  StopInv'
  BY DEF IInv
<1>. USE DEF TypeOK, StopInv, EndedForCause
<1>0. \A s \in Sessions : ticket[s] # None => caller[s] \in Callers
  BY DEF TicketInv, TokenInv
<1>1. ASSUME NEW s \in Sessions, SessionNext(s) PROVE StopInv'
  <2>0. minimum' = minimum /\ UNCHANGED <<watcher, todo, target>>
    BY <1>1, PhaseFrame, AdvanceFrame, ChildFrame
    DEF SessionNext, AcceptSession, RefuseOpening, Redeem, Track, ApproveYes, Fork,
        EndSession, registryVars, watcherVars
  <2>. USE DEF Goto, grantVars, childVars, Current
  <2>1. CASE AcceptSession(s)
    BY <2>0, <2>1 DEF AcceptSession, TicketInv
  <2>2. CASE RefuseOpening(s)
    BY <2>0, <2>2 DEF RefuseOpening
  <2>3. ASSUME NEW h \in Handshakes, Redeem(s, h) PROVE StopInv'
    <3>1. /\ ticket[s] = None /\ s \notin todo \cup stopped /\ target # s
      BY <2>3, ServerAssumption DEF Redeem, TicketInv, ServerAssumption
    <3>2. /\ ticket' = [ticket EXCEPT ![s] = h]
          /\ caller' = [caller EXCEPT ![s] = holder[h]]
          /\ phase' = [phase EXCEPT ![s] = "admitted"]
          /\ UNCHANGED <<stopped, pump>>
      BY <2>3 DEF Redeem
    <3>. QED
      BY <2>0, <3>1, <3>2, ServerAssumption DEF ServerAssumption
  <2>4. CASE Track(s)
    BY <2>0, <2>4 DEF Track
  <2>5. CASE PhaseNext(s)
    <3>1. PICK from, to : Advance(s, from, to) /\ Edge(s, from, to)
      BY <2>5, PhaseFrame
    <3>2. UNCHANGED <<ticket, caller, stopped, pump>>
      BY <3>1, AdvanceFrame
    <3>3. phase[s] = from /\ phase' = [phase EXCEPT ![s] = to] /\ from # "closed"
      BY <3>1 DEF Advance, Edge, TrackedPhases
    <3>. QED
      BY <2>0, <3>2, <3>3
  <2>6. CASE ApproveYes(s)
    BY <2>0, <2>6 DEF ApproveYes
  <2>7. CASE Fork(s)
    <3>1. pump[s] = "off"
      BY <2>7 DEF Fork, LifeInv
    <3>. QED
      BY <2>0, <2>7, <3>1 DEF Fork
  <2>8. CASE EndSession(s)
    <3>1. ticket[s] # None
      BY <2>8 DEF EndSession, TicketInv, AdmittedPhases, TrackedPhases
    <3>. QED
      BY <2>0, <2>8, <3>1 DEF EndSession
  <2>9. CASE ChildNext(s)
    <3>1. UNCHANGED <<phase, ticket, caller>>
      BY <2>9, ChildFrame
    <3>2. \A o \in Sessions : pump[o] = "done" => pump'[o] = "done"
      BY <2>9 DEF ChildNext, CommandExits, KillCommand, PumpSeesEnd, PumpBlocks,
         PumpUnblocks, StdinFails
    <3>3. \/ stopped' = stopped
          \/ stopped' = stopped \cup {s} /\ pump'[s] = "done" /\ phase[s] = "running"
      BY <2>9 DEF ChildNext, CommandExits, KillCommand, PumpSeesEnd, PumpBlocks,
         PumpUnblocks, StdinFails
    <3>4. phase[s] = "running" => ticket[s] # None
      BY DEF TicketInv, AdmittedPhases, TrackedPhases
    <3>. QED
      BY <2>0, <3>1, <3>2, <3>3, <3>4
  <2>. QED
    BY <1>1, <2>1, <2>2, <2>3, <2>4, <2>5, <2>6, <2>7, <2>8, <2>9 DEF SessionNext
<1>2. CASE WatcherNext
  <2>0. UNCHANGED <<minimum, phase, ticket, caller, pump>>
    BY <1>2, WatcherFrame
  <2>. USE DEF Current
  <2>1. CASE WatcherTick
    <3>1. \A s \in live : ticket[s] # None
      BY DEF LifeInv, TicketInv, AdmittedPhases
    <3>. QED
      BY <2>0, <2>1, <3>1 DEF WatcherTick
  <2>2. CASE WatcherStops
    BY <2>0, <2>2 DEF WatcherStops
  <2>3. CASE WatcherRests
    BY <2>0, <2>3 DEF WatcherRests
  <2>4. CASE WatcherQuits
    BY <2>0, <2>4 DEF WatcherQuits
  <2>5. ASSUME NEW s \in Sessions, WatcherChecks(s) PROVE StopInv'
    <3>1. s # None
      BY ServerAssumption DEF ServerAssumption
    <3>. QED
      BY <2>0, <2>5, <3>1 DEF WatcherChecks
  <2>. QED
    BY <1>2, <2>1, <2>2, <2>3, <2>4, <2>5 DEF WatcherNext
<1>3. CASE RegistryNext
  <2>1. UNCHANGED <<phase, ticket, caller, pump, stopped, watcher, todo, target>>
    BY <1>3, RegistryFrame
  <2>2. \A s \in Sessions : ticket[s] # None /\ ~Current(caller[s]) => ~Current(caller[s])'
    <3>1. TAKE s \in Sessions
    <3>2. HAVE ticket[s] # None /\ ~Current(caller[s])
    <3>3. caller[s] \in Callers /\ caller'[s] = caller[s]
      BY <1>0, <2>1, <3>2
    <3>. QED
      BY <1>3, <2>1, <3>2, <3>3, RetiredStaysRetired DEF Current
  <2>. QED
    BY <2>1, <2>2
<1>4. CASE UNCHANGED <<minimum, phase, ticket, caller, pump, stopped, watcher, todo, target>>
  BY <1>4 DEF Current
<1>5. ASSUME ~(\E s \in Sessions : SessionNext(s)), ~WatcherNext, ~RegistryNext
      PROVE  UNCHANGED <<minimum, phase, ticket, caller, pump, stopped, watcher, todo,
                         target>>
  BY <1>5, HandshakeFrame, ClientFrame, ServeFrame
  DEF Next, vars, registryVars, grantVars, childVars, watcherVars
<1>. QED
  BY <1>1, <1>2, <1>3, <1>4, <1>5

\* No connection is accepted any more once Serve has returned.
LEMMA QuietStep == IInv /\ [Next]_vars => QuietInv'
<1>. SUFFICES ASSUME TypeOK, QuietInv, [Next]_vars PROVE QuietInv'
  BY DEF IInv
<1>. USE DEF QuietInv
<1>1. ASSUME NEW s \in Sessions, SessionNext(s) PROVE QuietInv'
  <2>1. CASE PhaseNext(s)
    <3>1. PICK from, to : Advance(s, from, to) /\ Edge(s, from, to)
      BY <2>1, PhaseFrame
    <3>. QED
      BY <3>1 DEF Advance, Edge, TrackedPhases
  <2>2. CASE ChildNext(s)
    BY <2>2, ChildFrame
  <2>3. CASE ~PhaseNext(s) /\ ~ChildNext(s)
    BY <1>1, <2>3
    DEF SessionNext, TypeOK, Goto, Accepting, AcceptSession, RefuseOpening, Redeem, Track,
        ApproveYes, Fork, EndSession
  <2>. QED
    BY <2>1, <2>2, <2>3
<1>2. CASE ServeNext
  BY <1>2, ServeFrame DEF ServeNext, Signal, CloseListener, AcceptFails, ServeReturns
<1>3. CASE UNCHANGED <<serve, phase>>
  BY <1>3
<1>4. ASSUME ~(\E s \in Sessions : SessionNext(s)), ~ServeNext
      PROVE  UNCHANGED <<serve, phase>>
  BY <1>4, HandshakeFrame, ClientFrame, WatcherFrame, RegistryFrame DEF Next, vars
<1>. QED
  BY <1>1, <1>2, <1>3, <1>4

LEMMA Invariance == Spec => []IInv
<1>1. IInv /\ [Next]_vars => IInv'
  BY TypeStep, LifeStep, TicketStep, TokenStep, PermitStep, StopStep, QuietStep DEF IInv
<1>. QED
  BY InitIInv, <1>1, PTL DEF Spec

--------------------------------------------------------------------------

\* Every variable of the server keeps its type.
THEOREM ServerTypeCorrect == Spec => []TypeOK
<1>1. IInv => TypeOK
  BY DEF IInv
<1>. QED
  BY <1>1, Invariance, PTL

\* No ticket opens two sessions, and each session acts as the caller the
\* handshake verified.
THEOREM TicketsAreSingleUse == Spec => []OneTicketOneSession
<1>1. IInv => OneTicketOneSession
  BY DEF IInv, TypeOK, TicketInv, TokenInv, OneTicketOneSession
<1>. QED
  BY <1>1, Invariance, PTL

\* A command only ever runs for a token that was current when the handshake's
\* connection was accepted.
THEOREM OnlyCurrentTokens == Spec => []CommandsHadCurrentTokens
<1>1. IInv => CommandsHadCurrentTokens
  <2>. SUFFICES ASSUME IInv, NEW s \in Sessions, child[s] = "alive"
                PROVE  /\ ticket[s] \in Handshakes
                       /\ caller[s].generation >= seen[ticket[s]][caller[s].sandbox]
    BY DEF CommandsHadCurrentTokens
  <2>1. ticket[s] \in Handshakes
    BY DEF IInv, TypeOK, LifeInv, TicketInv, AdmittedPhases, TrackedPhases
  <2>2. status[ticket[s]] = "spent" /\ caller[s] = holder[ticket[s]]
    BY <2>1, ServerAssumption DEF IInv, TicketInv, ServerAssumption
  <2>. QED
    BY <2>1, <2>2 DEF IInv, TokenInv, WasCurrent
<1>. QED
  BY <1>1, Invariance, PTL

\* The watcher's next snapshot contains every running command.
THEOREM WatcherMissesNothing == Spec => []CommandsAreTracked
<1>1. IInv => CommandsAreTracked
  BY DEF IInv, LifeInv, CommandsAreTracked, TrackedPhases
<1>. QED
  BY <1>1, Invariance, PTL

\* Nothing runs without the policy's or an operator's yes.
THEOREM PermissionFirst == Spec => []OnlyPermittedCommands
<1>1. IInv => OnlyPermittedCommands
  BY DEF IInv, PermitInv, Permitted, OnlyPermittedCommands
<1>. QED
  BY <1>1, Invariance, PTL

\* No session is cancelled without a retired token or a pump that gave up.
THEOREM NoSpuriousEndings == Spec => []EndedForCause
<1>1. IInv => EndedForCause
  BY DEF IInv, StopInv
<1>. QED
  BY <1>1, Invariance, PTL

--------------------------------------------------------------------------

\* The command of s has not started and never will.
Barred(s) ==
    /\ child[s] = "none"
    /\ \/ Cancelled(s) /\ phase[s] \in BeforeLaunch
       \/ phase[s] \in {"ending", "closed"}
       \/ serve \in {"closed", "returned"} /\ phase[s] = "absent"

\* Being barred is for good: a cancelled context stays cancelled, and the only
\* way to the fork looks at it.
LEMMA BarredStep ==
    ASSUME NEW s \in Sessions
    PROVE  IInv /\ Barred(s) /\ [Next]_vars => Barred(s)'
<1>. SUFFICES ASSUME IInv, Barred(s), [Next]_vars PROVE Barred(s)'
  OBVIOUS
<1>. USE DEF Barred, BeforeLaunch, Cancelled
<1>0. TypeOK /\ LifeInv
  BY DEF IInv
<1>1. ASSUME NEW o \in Sessions, SessionNext(o) PROVE Barred(s)'
  <2>. USE <1>0 DEF TypeOK, Goto, childVars, Accepting
  <2>1. CASE AcceptSession(o)
    BY <2>1 DEF AcceptSession
  <2>2. CASE RefuseOpening(o)
    BY <2>2 DEF RefuseOpening
  <2>3. ASSUME NEW h \in Handshakes, Redeem(o, h) PROVE Barred(s)'
    BY <2>3 DEF Redeem
  <2>4. CASE Track(o)
    BY <2>4 DEF Track
  <2>5. CASE PhaseNext(o)
    <3>1. PICK from, to : Advance(o, from, to) /\ Edge(o, from, to)
      BY <2>5, PhaseFrame
    <3>2. UNCHANGED <<serve, child, stopped>>
      BY <3>1, AdvanceFrame
    <3>3. phase[o] = from /\ phase' = [phase EXCEPT ![o] = to]
      BY <3>1 DEF Advance
    <3>. QED
      BY <3>1, <3>2, <3>3 DEF Edge, TrackedPhases
  <2>6. CASE ApproveYes(o)
    BY <2>6 DEF ApproveYes
  <2>7. CASE Fork(o)
    BY <2>7 DEF Fork
  <2>8. CASE EndSession(o)
    BY <2>8 DEF EndSession
  <2>9. CASE ChildNext(o)
    <3>1. UNCHANGED <<serve, phase>>
      BY <2>9, ChildFrame
    <3>2. stopped \subseteq stopped' /\ (child[s] = "none" => child'[s] = "none")
      BY <2>9 DEF ChildNext, CommandExits, KillCommand, PumpSeesEnd, PumpBlocks,
         PumpUnblocks, StdinFails
    <3>. QED
      BY <3>1, <3>2
  <2>. QED
    BY <1>1, <2>1, <2>2, <2>3, <2>4, <2>5, <2>6, <2>7, <2>8, <2>9 DEF SessionNext
<1>2. CASE ServeNext
  BY <1>2, ServeFrame DEF ServeNext, Signal, CloseListener, AcceptFails, ServeReturns
<1>3. CASE WatcherNext
  <2>1. UNCHANGED <<serve, phase, child>>
    BY <1>3, WatcherFrame
  <2>2. stopped \subseteq stopped'
    BY <1>3 DEF WatcherNext, WatcherTick, WatcherStops, WatcherRests, WatcherQuits,
       WatcherChecks
  <2>. QED
    BY <2>1, <2>2
<1>4. CASE UNCHANGED <<serve, phase, child, stopped>>
  BY <1>4
<1>5. ASSUME ~(\E o \in Sessions : SessionNext(o)), ~ServeNext, ~WatcherNext
      PROVE  UNCHANGED <<serve, phase, child, stopped>>
  BY <1>5, HandshakeFrame, ClientFrame, RegistryFrame DEF Next, vars, childVars
<1>. QED
  BY <1>1, <1>2, <1>3, <1>4, <1>5

\* A session cancelled before its launch never runs its command, whatever the
\* operator answers.
THEOREM CancelledForGood == Spec => CancelledNeverRuns
<1>. SUFFICES ASSUME NEW s \in Sessions
              PROVE  Spec => [](Cancelled(s) /\ phase[s] \in BeforeLaunch
                                  => [](child[s] = "none"))
  BY DEF CancelledNeverRuns
<1>1. IInv /\ Cancelled(s) /\ phase[s] \in BeforeLaunch => Barred(s)
  BY DEF IInv, TypeOK, LifeInv, Barred, BeforeLaunch
<1>2. IInv /\ Barred(s) /\ [Next]_vars => Barred(s)'
  BY BarredStep
<1>3. Barred(s) => child[s] = "none"
  BY DEF Barred
<1>. QED
  BY <1>1, <1>2, <1>3, Invariance, PTL DEF Spec

--------------------------------------------------------------------------
(* What Server implements *)

\* The server runs the ticket life of TicketStore, which Tickets implements: nothing
\* but a handshake, a session's opening and the purge touches a ticket.
THEOREM ServerRunsTheStore == Spec => Store!StoreSpec
<1>1. Init => Store!StoreInit
  BY DEF Init
<1>2. IInv /\ [Next]_vars => [Store!StoreNext]_Store!storeVars
  <2>. SUFFICES ASSUME TypeOK, TokenInv, [Next]_vars
                PROVE  Store!StoreNext \/ UNCHANGED <<status, holder>>
    BY DEF IInv, Store!storeVars
  <2>1. ASSUME NEW h \in Handshakes, HandshakeNext(h)
        PROVE  Store!StoreNext \/ UNCHANGED <<status, holder>>
    <3>1. CASE Issue(h)
      <4>1. who[h] \in Callers /\ Store!IssueTicket(h, who[h])
        BY <3>1 DEF Issue, TokenInv
      <4>. QED
        BY <4>1 DEF Store!StoreNext
    <3>2. CASE TicketLapses(h)
      <4>1. Store!ExpireTickets({h}) /\ {h} \in SUBSET Handshakes
        BY <3>2 DEF TicketLapses
      <4>. QED
        BY <4>1 DEF Store!StoreNext
    <3>3. CASE ~Issue(h) /\ ~TicketLapses(h)
      BY <2>1, <3>3
      DEF HandshakeNext, AcceptHandshake, RejectHello, PresentToken, CheckGeneration,
          RefuseFull, ticketVars
    <3>. QED
      BY <3>1, <3>2, <3>3
  <2>2. ASSUME NEW s \in Sessions, SessionNext(s)
        PROVE  Store!StoreNext \/ UNCHANGED <<status, holder>>
    <3>1. ASSUME NEW h \in Handshakes, Redeem(s, h) PROVE Store!StoreNext
      BY <3>1 DEF Redeem, Store!StoreNext
    <3>2. CASE ~(\E h \in Handshakes : Redeem(s, h))
      BY <2>2, <3>2, PhaseFrame, AdvanceFrame, ChildFrame
      DEF SessionNext, AcceptSession, RefuseOpening, Track, ApproveYes, Fork, EndSession,
          ticketVars
    <3>. QED
      BY <3>1, <3>2
  <2>3. ASSUME ~(\E h \in Handshakes : HandshakeNext(h)),
               ~(\E s \in Sessions : SessionNext(s))
        PROVE  UNCHANGED <<status, holder>>
    BY <2>3, ClientFrame, ServeFrame, WatcherFrame, RegistryFrame DEF Next, vars, ticketVars
  <2>. QED
    BY <2>1, <2>2, <2>3
<1>. QED
  BY <1>1, <1>2, Invariance, PTL DEF Spec, Store!StoreSpec

\* However many sessions there are, their questions to the operator are put one at a
\* time and each yes is to the question that was asked: what Approval implements is
\* what the server relies on.
THEOREM ServerAsksInTurn == Spec => SessionsTakeTurns
<1>. DEFINE turn == [s \in Sessions |->
                       IF phase[s] \in {"queued", "asking"} THEN phase[s] ELSE "out"]
<1>1. Init => Approvals!ApproverInit
  BY DEF Init, Approvals!ApproverInit
<1>2. IInv /\ [Next]_vars => [Approvals!ApproverNext]_Approvals!approverVars
  <2>. SUFFICES ASSUME TypeOK, [Next]_vars
                PROVE  Approvals!ApproverNext \/ UNCHANGED <<turn, approved>>
    BY DEF IInv, Approvals!approverVars
  <2>1. ASSUME NEW s \in Sessions, SessionNext(s)
        PROVE  Approvals!ApproverNext \/ UNCHANGED <<turn, approved>>
    <3>. USE DEF TypeOK, Goto
    <3>1. CASE PhaseNext(s)
      <4>1. PICK from, to : Advance(s, from, to) /\ Edge(s, from, to)
        BY <3>1, PhaseFrame
      <4>2. /\ phase[s] = from /\ phase' = [phase EXCEPT ![s] = to]
            /\ approved' = approved
        BY <4>1 DEF Advance
      <4>3. turn' = [turn EXCEPT ![s] = IF to \in {"queued", "asking"} THEN to ELSE "out"]
        BY <4>2
      <4>4. CASE to = "queued"
        <5>1. Approvals!Enter(s)
          BY <4>1, <4>2, <4>3, <4>4 DEF Edge, Approvals!Enter
        <5>. QED
          BY <5>1 DEF Approvals!ApproverNext
      <4>5. CASE to = "asking"
        <5>1. Approvals!Ask(s)
          BY <4>1, <4>2, <4>3, <4>5 DEF Edge, Approvals!Ask
        <5>. QED
          BY <5>1 DEF Approvals!ApproverNext
      <4>6. CASE to \notin {"queued", "asking"} /\ from \in {"queued", "asking"}
        <5>1. Approvals!Refuse(s)
          BY <4>2, <4>3, <4>6 DEF Approvals!Refuse
        <5>. QED
          BY <5>1 DEF Approvals!ApproverNext
      <4>7. CASE to \notin {"queued", "asking"} /\ from \notin {"queued", "asking"}
        BY <4>2, <4>3, <4>7
      <4>. QED
        BY <4>4, <4>5, <4>6, <4>7
    <3>2. CASE ApproveYes(s)
      <4>1. Approvals!SayYes(s)
        BY <3>2 DEF ApproveYes, Approvals!SayYes
      <4>. QED
        BY <4>1 DEF Approvals!ApproverNext
    <3>3. CASE ChildNext(s)
      BY <3>3, ChildFrame
    <3>4. CASE ~PhaseNext(s) /\ ~ApproveYes(s) /\ ~ChildNext(s)
      BY <2>1, <3>4
      DEF SessionNext, AcceptSession, RefuseOpening, Redeem, Track, Fork, EndSession
    <3>. QED
      BY <3>1, <3>2, <3>3, <3>4
  <2>2. ASSUME ~(\E s \in Sessions : SessionNext(s)) PROVE UNCHANGED <<turn, approved>>
    BY <2>2, HandshakeFrame, ClientFrame, ServeFrame, WatcherFrame, RegistryFrame
    DEF Next, vars
  <2>. QED
    BY <2>1, <2>2
<1>. QED
  BY <1>1, <1>2, Invariance, PTL DEF Spec, SessionsTakeTurns, Approvals!ApproverSpec

--------------------------------------------------------------------------
(* Server implements Warden *)

SameVouchers == Vouched' = Vouched /\ Void' = Void
SameSessions == UNCHANGED <<Stages, caller, command, approved, Doomed>>

\* A step of one handshake leaves what the others can admit as it was.
LEMMA HandshakeIsLocal ==
    ASSUME TypeOK, NEW h \in Handshakes, HandshakeNext(h)
    PROVE  \A k \in Handshakes \ {h} : Vouched'[k] = Vouched[k] /\ (k \in Void' <=> k \in Void)
<1>1. \A k \in Handshakes \ {h} :
        hello'[k] = hello[k] /\ who'[k] = who[k] /\ status'[k] = status[k] /\ holder'[k] = holder[k]
  BY DEF TypeOK, HandshakeNext, AcceptHandshake, RejectHello, PresentToken, CheckGeneration,
     Issue, RefuseFull, TicketLapses, HelloTo, helloUnchanged, ticketVars, helloVars,
     Store!IssueTicket, Store!ExpireTickets
<1>. QED
  BY <1>1 DEF Vouched, Void

\* What becomes of the caller a handshake verified: it is vouched for on a token that
\* is current then, and loses that when it is refused or lapses.
LEMMA HandshakeKeeps ==
    ASSUME TypeOK, TokenInv, NEW h \in Handshakes, HandshakeNext(h)
    PROVE  \/ Vouched'[h] = Vouched[h] /\ (h \in Void' <=> h \in Void)
           \/ h \notin Void /\ h \in Void' /\ Vouched'[h] = None
           \/ /\ h \notin Void /\ h \notin Void' /\ Vouched[h] = None
              /\ who[h] \in Callers /\ Current(who[h]) /\ Vouched'[h] = who[h]
<1>. USE DEF TypeOK, HelloPhases, HelloTo, helloUnchanged, ticketVars, Vouched, Void, TokenInv
<1>1. CASE AcceptHandshake(h)
  BY <1>1 DEF AcceptHandshake
<1>2. CASE RejectHello(h)
  BY <1>2 DEF RejectHello
<1>3. ASSUME NEW id \in Callers, PresentToken(h, id)
      PROVE  Vouched'[h] = Vouched[h] /\ (h \in Void' <=> h \in Void)
  BY <1>3 DEF PresentToken
<1>4. CASE CheckGeneration(h)
  BY <1>4 DEF CheckGeneration
<1>5. CASE Issue(h)
  BY <1>5 DEF Issue, Store!IssueTicket
<1>6. CASE RefuseFull(h)
  BY <1>6 DEF RefuseFull
<1>7. CASE TicketLapses(h)
  BY <1>7 DEF TicketLapses, helloVars, Store!ExpireTickets, Store!Outstanding
<1>. QED
  BY <1>1, <1>2, <1>3, <1>4, <1>5, <1>6, <1>7 DEF HandshakeNext

LEMMA HandshakeMaps ==
    ASSUME TypeOK, TokenInv, NEW h \in Handshakes, HandshakeNext(h)
    PROVE  [Promise!WardenNext]_Promise!wardenVars
<1>1. UNCHANGED <<serve, minimum, phase, caller, command, child, stopped, approved>>
  BY HandshakeFrame
<1>2. SameSessions
  BY <1>1 DEF SameSessions, Stages, Stage, Doomed, Cancelled
<1>3. /\ Vouched = [k \in Handshakes |-> Vouched[k]]
      /\ Vouched' = [k \in Handshakes |-> Vouched'[k]]
      /\ Void \subseteq Handshakes /\ Void' \subseteq Handshakes
  BY DEF Vouched, Void
<1>4. Vouched' = [Vouched EXCEPT ![h] = Vouched'[h]]
  BY <1>3, HandshakeIsLocal
<1>5. CASE Vouched'[h] = Vouched[h] /\ (h \in Void' <=> h \in Void)
  <2>1. SameVouchers
    BY <1>3, <1>4, <1>5, HandshakeIsLocal DEF SameVouchers
  <2>. QED
    BY <1>1, <1>2, <2>1 DEF Promise!wardenVars, SameVouchers, SameSessions
<1>6. CASE h \notin Void /\ h \in Void' /\ Vouched'[h] = None
  <2>1. Void' = Void \cup {h}
    BY <1>3, <1>6, HandshakeIsLocal
  <2>2. Promise!Withdraw(h)
    BY <1>1, <1>2, <1>4, <1>6, <2>1
    DEF Promise!Withdraw, Promise!sessionVars, SameSessions
  <2>. QED
    BY <2>2 DEF Promise!WardenNext
<1>7. CASE /\ h \notin Void /\ h \notin Void' /\ Vouched[h] = None
           /\ who[h] \in Callers /\ Current(who[h]) /\ Vouched'[h] = who[h]
  <2>1. Void' = Void
    BY <1>3, <1>7, HandshakeIsLocal
  <2>2. Promise!Vouch(h, who[h])
    BY <1>1, <1>2, <1>4, <1>7, <2>1
    DEF Promise!Vouch, Promise!Accepted, Promise!sessionVars, SameSessions, Current
  <2>. QED
    BY <1>7, <2>2 DEF Promise!WardenNext
<1>. QED
  BY <1>5, <1>6, <1>7, HandshakeKeeps

\* Only session s moves, and only it may be told to end.
OnlyTouches(s) ==
    /\ UNCHANGED <<serve, minimum, command>>
    /\ \A o \in Sessions \ {s} :
         phase'[o] = phase[o] /\ child'[o] = child[o] /\ (o \in stopped' <=> o \in stopped)

LEMMA SessionIsLocal ==
    ASSUME TypeOK, NEW s \in Sessions, OnlyTouches(s)
    PROVE  /\ Stages' = [Stages EXCEPT ![s] = Stage(s)']
           /\ Stages[s] = Stage(s)
           /\ Doomed \subseteq Sessions /\ Doomed' \subseteq Sessions
           /\ \A o \in Sessions \ {s} : o \in Doomed' <=> o \in Doomed
<1>1. \A o \in Sessions \ {s} : Stage(o)' = Stage(o)
  BY DEF Stage, OnlyTouches
<1>2. \A o \in Sessions \ {s} : Cancelled(o)' <=> Cancelled(o)
  BY DEF Cancelled, OnlyTouches
<1>. QED
  BY <1>1, <1>2 DEF Stages, Doomed, OnlyTouches

\* Each session's goroutine, told by where it is: a step inside one stage, or one to
\* the next.
LEMMA PhaseMaps ==
    ASSUME IInv, NEW s \in Sessions, PhaseNext(s)
    PROVE  [Promise!WardenNext]_Promise!wardenVars
<1>1. PICK from, to : Advance(s, from, to) /\ Edge(s, from, to)
  BY PhaseFrame
<1>2. UNCHANGED <<serve, minimum, status, holder, hello, who, caller, command, child,
                  stopped, approved>>
  BY <1>1, AdvanceFrame
<1>3. phase[s] = from /\ phase' = [phase EXCEPT ![s] = to]
  BY <1>1 DEF Advance, Goto
<1>. USE DEF IInv
<1>4. OnlyTouches(s) /\ phase'[s] = to
  BY <1>2, <1>3 DEF OnlyTouches, TypeOK
<1>5. Vouched' = Vouched /\ Void' = Void
  BY <1>2 DEF Vouched, Void
<1>6. /\ Stages' = [Stages EXCEPT ![s] = Stage(s)'] /\ Stages[s] = Stage(s)
      /\ Doomed \subseteq Sessions /\ Doomed' \subseteq Sessions
      /\ \A o \in Sessions \ {s} : o \in Doomed' <=> o \in Doomed
  BY <1>4, SessionIsLocal
<1>7. Cancelled(s)' <=> Cancelled(s)
  BY <1>2 DEF Cancelled
<1>8. Stages = [Stages EXCEPT ![s] = Stage(s)]
  BY DEF Stages
<1>9. ASSUME Stage(s)' = Stage(s) PROVE UNCHANGED Promise!wardenVars
  <2>1. s \in Doomed' <=> s \in Doomed
    BY <1>2, <1>7, <1>9 DEF Doomed
  <2>. QED
    BY <1>2, <1>5, <1>6, <1>8, <1>9, <2>1 DEF Promise!wardenVars
<1>10. ASSUME Stage(s) # "over", Stage(s)' # "over" PROVE Doomed' = Doomed
  <2>1. s \in Doomed' <=> s \in Doomed
    BY <1>2, <1>7, <1>10 DEF Doomed
  <2>. QED
    BY <1>6, <2>1
<1>11. CASE to \in {"authorizing", "queued", "asking"}
  BY <1>1, <1>3, <1>4, <1>9, <1>11 DEF Edge, Stage
<1>12. CASE to = "readying"
  <2>1. Stage(s) = "in" /\ Stage(s)' = "cleared" /\ command[s] = "allowed"
    BY <1>1, <1>3, <1>4, <1>12 DEF Edge, Stage
  <2>2. Promise!Clear(s)
    BY <1>2, <1>5, <1>6, <1>10, <2>1 DEF Promise!Clear, Promise!Moves
  <2>. QED
    BY <2>2 DEF Promise!WardenNext
<1>13. CASE to = "starting"
  BY <1>1, <1>3, <1>4, <1>9, <1>13 DEF Edge, Stage
<1>14. CASE to = "forking"
  <2>1. Stage(s) = "cleared" /\ Stage(s)' = "launched" /\ ~Cancelled(s)
    BY <1>1, <1>3, <1>4, <1>14 DEF Edge, Stage
  <2>2. serve # "returned"
    BY <1>1, <1>3 DEF Edge, QuietInv, TrackedPhases
  <2>3. Promise!Launch(s)
    BY <1>2, <1>5, <1>6, <1>10, <2>1, <2>2 DEF Promise!Launch, Promise!Moves, Doomed
  <2>. QED
    BY <2>3 DEF Promise!WardenNext
<1>15. CASE to = "ending"
  <2>1. Stage(s)' = "over"
    BY <1>4, <1>15 DEF Stage
  <2>2. CASE Stage(s) # "over"
    <3>1. Doomed' = Doomed \ {s}
      BY <1>6, <2>1 DEF Doomed
    <3>2. Promise!Finish(s)
      BY <1>2, <1>5, <1>6, <2>1, <2>2, <3>1 DEF Promise!Finish
    <3>. QED
      BY <3>2 DEF Promise!WardenNext
  <2>. QED
    BY <1>9, <2>1, <2>2
<1>. QED
  BY <1>1, <1>11, <1>12, <1>13, <1>14, <1>15 DEF Edge, TrackedPhases

\* The other steps of a session.
LEMMA SessionMaps ==
    ASSUME IInv, NEW s \in Sessions, SessionNext(s)
    PROVE  [Promise!WardenNext]_Promise!wardenVars
<1>. USE DEF IInv
<1>1. CASE PhaseNext(s)
  BY <1>1, PhaseMaps
<1>2. ASSUME NEW h \in Handshakes, Redeem(s, h) PROVE Promise!WardenNext
  <2>1. /\ UNCHANGED <<serve, minimum, hello, holder, command, child, stopped, approved>>
        /\ phase[s] = "opening" /\ phase' = [phase EXCEPT ![s] = "admitted"]
        /\ status[h] = "outstanding" /\ status' = [status EXCEPT ![h] = "spent"]
        /\ caller' = [caller EXCEPT ![s] = holder[h]] /\ who' = who
    BY <1>2 DEF Redeem, Goto, Store!RedeemTicket, registryVars, helloVars, childVars
  <2>2. hello[h] = "closed" /\ holder[h] \in Callers
    BY <2>1 DEF TokenInv
  <2>3. Vouched[h] = holder[h] /\ holder[h] # None
    BY <2>1, <2>2, ServerAssumption DEF Vouched, ServerAssumption
  <2>4. Vouched' = [Vouched EXCEPT ![h] = None] /\ Void' = Void \cup {h}
    <3>1. status = [k \in Handshakes |-> status[k]]
      BY DEF TypeOK
    <3>2. status'[h] = "spent" /\ \A k \in Handshakes \ {h} : status'[k] = status[k]
      BY <2>1, <3>1
    <3>3. Vouched'[h] = None /\ \A k \in Handshakes \ {h} : Vouched'[k] = Vouched[k]
      BY <2>1, <2>2, <3>2 DEF Vouched
    <3>4. Vouched = [k \in Handshakes |-> Vouched[k]]
      BY DEF Vouched
    <3>5. Vouched' = [k \in Handshakes |-> Vouched'[k]]
      BY DEF Vouched
    <3>6. Vouched' = [Vouched EXCEPT ![h] = None]
      BY <3>3, <3>4, <3>5
    <3>7. Void' = Void \cup {h}
      BY <2>1, <2>2, <3>2 DEF Void
    <3>. QED
      BY <3>6, <3>7
  <2>5. OnlyTouches(s)
    BY <2>1 DEF OnlyTouches, TypeOK
  <2>6. Stage(s) = "out" /\ Stage(s)' = "in"
    BY <2>1 DEF Stage, TypeOK
  <2>7. Doomed' = Doomed
    BY <2>1, <2>5, <2>6, SessionIsLocal DEF Doomed, Cancelled
  <2>8. Promise!Admit(s, h)
    BY <2>1, <2>3, <2>4, <2>5, <2>6, <2>7, SessionIsLocal DEF Promise!Admit
  <2>. QED
    BY <2>8 DEF Promise!WardenNext
<1>. DEFINE Rest == UNCHANGED <<serve, minimum, status, holder, hello, who, caller, command>>
<1>3. ASSUME Rest, OnlyTouches(s), approved' = approved, Stage(s)' = Stage(s),
             s \in Doomed' <=> s \in Doomed
      PROVE  UNCHANGED Promise!wardenVars
  <2>1. Vouched' = Vouched /\ Void' = Void
    BY <1>3 DEF Vouched, Void
  <2>2. Stages = [Stages EXCEPT ![s] = Stage(s)]
    BY DEF Stages
  <2>3. /\ Stages' = [Stages EXCEPT ![s] = Stage(s)']
        /\ Doomed \subseteq Sessions /\ Doomed' \subseteq Sessions
        /\ \A o \in Sessions \ {s} : o \in Doomed' <=> o \in Doomed
    BY <1>3, SessionIsLocal
  <2>4. Stages' = Stages
    BY <1>3, <2>2, <2>3
  <2>5. Doomed' = Doomed
    BY <1>3, <2>3
  <2>. QED
    BY <1>3, <2>1, <2>4, <2>5 DEF Promise!wardenVars
<1>4. ASSUME Rest, OnlyTouches(s), approved' = approved,
             Stage(s) # "over", Stage(s)' = "over"
      PROVE  Promise!WardenNext
  <2>1. Vouched' = Vouched /\ Void' = Void
    BY <1>4 DEF Vouched, Void
  <2>2. Doomed' = Doomed \ {s}
    BY <1>4, SessionIsLocal DEF Doomed
  <2>3. Promise!Finish(s)
    BY <1>4, <2>1, <2>2, SessionIsLocal DEF Promise!Finish
  <2>. QED
    BY <2>3 DEF Promise!WardenNext
<1>5. CASE AcceptSession(s)
  <2>1. Rest /\ OnlyTouches(s) /\ approved' = approved /\ UNCHANGED <<stopped, child>>
    BY <1>5 DEF AcceptSession, Goto, OnlyTouches, TypeOK, registryVars, ticketVars,
       helloVars, grantVars, childVars
  <2>2. Stage(s)' = Stage(s)
    BY <1>5 DEF AcceptSession, Goto, Stage, TypeOK
  <2>3. s \in Doomed' <=> s \in Doomed
    BY <2>1, <2>2 DEF Doomed, Cancelled
  <2>. QED
    BY <1>3, <2>1, <2>2, <2>3
<1>6. CASE RefuseOpening(s)
  <2>1. Rest /\ OnlyTouches(s) /\ approved' = approved
    BY <1>6 DEF RefuseOpening, Goto, OnlyTouches, TypeOK, registryVars, ticketVars,
       helloVars, grantVars, childVars
  <2>2. Stage(s) # "over" /\ Stage(s)' = "over"
    BY <1>6 DEF RefuseOpening, Goto, Stage, TypeOK
  <2>. QED
    BY <1>4, <2>1, <2>2
<1>7. CASE Track(s)
  <2>1. Rest /\ OnlyTouches(s) /\ approved' = approved /\ UNCHANGED <<stopped, child>>
    BY <1>7 DEF Track, Goto, OnlyTouches, TypeOK, registryVars, ticketVars,
       helloVars, grantVars, childVars
  <2>2. Stage(s)' = Stage(s)
    BY <1>7 DEF Track, Goto, Stage, TypeOK
  <2>3. s \in Doomed' <=> s \in Doomed
    BY <2>1, <2>2 DEF Doomed, Cancelled
  <2>. QED
    BY <1>3, <2>1, <2>2, <2>3
<1>8. CASE ApproveYes(s)
  <2>1. Rest /\ OnlyTouches(s) /\ approved' = approved \cup {s} /\ UNCHANGED <<stopped, child>>
    BY <1>8 DEF ApproveYes, Goto, OnlyTouches, TypeOK, registryVars, ticketVars,
       helloVars, grantVars, childVars
  <2>2. Stage(s) = "in" /\ Stage(s)' = "cleared" /\ command[s] = "withheld"
    BY <1>8 DEF ApproveYes, Goto, Stage, TypeOK, PermitInv
  <2>3. Vouched' = Vouched /\ Void' = Void
    BY <2>1 DEF Vouched, Void
  <2>4. Doomed' = Doomed
    BY <2>1, <2>2, SessionIsLocal DEF Doomed, Cancelled
  <2>5. Promise!ClearByOperator(s)
    BY <2>1, <2>2, <2>3, <2>4, SessionIsLocal DEF Promise!ClearByOperator, Promise!Moves
  <2>. QED
    BY <2>5 DEF Promise!WardenNext
<1>9. CASE Fork(s)
  <2>1. Rest /\ OnlyTouches(s) /\ UNCHANGED <<stopped, approved>>
    BY <1>9 DEF Fork, Goto, OnlyTouches, TypeOK, registryVars, ticketVars, helloVars, grantVars
  <2>2. Stage(s) = "launched" /\ Stage(s)' = "running"
    BY <1>9 DEF Fork, Goto, Stage, TypeOK
  <2>3. Vouched' = Vouched /\ Void' = Void
    BY <2>1 DEF Vouched, Void
  <2>4. Doomed' = Doomed
    BY <2>1, <2>2, SessionIsLocal DEF Doomed, Cancelled
  <2>5. Promise!Run(s)
    BY <2>1, <2>2, <2>3, <2>4, SessionIsLocal DEF Promise!Run, Promise!Moves
  <2>. QED
    BY <2>5 DEF Promise!WardenNext
<1>10. CASE EndSession(s)
  <2>1. Rest /\ OnlyTouches(s) /\ approved' = approved
    BY <1>10 DEF EndSession, Goto, OnlyTouches, TypeOK, registryVars, ticketVars,
       helloVars, grantVars
  <2>2. Stage(s) = "over" /\ Stage(s)' = "over"
    BY <1>10 DEF EndSession, Goto, Stage, TypeOK
  <2>. QED
    BY <1>3, <2>1, <2>2 DEF Doomed
<1>11. CASE ChildNext(s)
  <2>1. Rest /\ UNCHANGED <<phase, approved>>
    BY <1>11, ChildFrame
  <2>2. OnlyTouches(s)
    BY <1>11, <2>1 DEF OnlyTouches, TypeOK, ChildNext, CommandExits, KillCommand,
       PumpSeesEnd, PumpBlocks, PumpUnblocks, StdinFails
  <2>3. CASE CommandExits(s) \/ KillCommand(s)
    <3>1. child[s] = "alive" /\ child'[s] = "dead" /\ phase[s] = "running"
      BY <2>3 DEF CommandExits, KillCommand, TypeOK, LifeInv
    <3>. QED
      BY <1>4, <2>1, <2>2, <3>1 DEF Stage
  <2>4. CASE PumpBlocks(s) \/ PumpUnblocks(s)
    <3>1. UNCHANGED <<child, stopped>>
      BY <2>4 DEF PumpBlocks, PumpUnblocks
    <3>. QED
      BY <1>3, <2>1, <2>2, <3>1 DEF Stage, Doomed, Cancelled
  <2>5. CASE PumpSeesEnd(s) \/ StdinFails(s)
    <3>1. child' = child /\ stopped' = stopped \cup {s} /\ phase[s] = "running"
      BY <2>5 DEF PumpSeesEnd, StdinFails
    <3>2. Stage(s)' = Stage(s) /\ Stage(s) \in {"running", "over"}
      BY <2>1, <3>1 DEF Stage
    <3>3. CASE Stage(s) = "over"
      BY <1>3, <2>1, <2>2, <3>2, <3>3 DEF Doomed
    <3>4. CASE Stage(s) = "running"
      <4>1. Vouched' = Vouched /\ Void' = Void
        BY <2>1 DEF Vouched, Void
      <4>2. Stages' = Stages
        BY <2>2, <3>2, SessionIsLocal DEF Stages
      <4>3. Doomed' = Doomed \cup {s}
        BY <2>2, <3>1, <3>2, <3>4, SessionIsLocal DEF Doomed, Cancelled
      <4>4. Promise!Doom(s)
        BY <2>1, <2>2, <3>4, <4>1, <4>2, <4>3, SessionIsLocal DEF Promise!Doom
      <4>. QED
        BY <4>4 DEF Promise!WardenNext
    <3>. QED
      BY <3>2, <3>3, <3>4
  <2>. QED
    BY <1>11, <2>3, <2>4, <2>5 DEF ChildNext
<1>. QED
  BY <1>1, <1>2, <1>5, <1>6, <1>7, <1>8, <1>9, <1>10, <1>11 DEF SessionNext

\* A step that moves no session and no ticket: only who is told to end may change.
LEMMA OutsideMaps ==
    ASSUME UNCHANGED <<minimum, status, holder, hello, who, phase, caller, command, child,
                       approved>>
    PROVE  /\ Vouched' = Vouched /\ Void' = Void /\ Stages' = Stages
           /\ \A s \in Sessions : Stage(s)' = Stage(s)
BY DEF Vouched, Void, Stages, Stage

\* Shutdown tells every session under way; accepting, failing and closing tell none.
LEMMA ServeMaps ==
    ASSUME IInv, ServeNext
    PROVE  [Promise!WardenNext]_Promise!wardenVars
<1>1. UNCHANGED <<minimum, status, holder, hello, who, phase, caller, command, child,
                  stopped, approved>>
  BY ServeFrame
<1>2. /\ Vouched' = Vouched /\ Void' = Void /\ Stages' = Stages
      /\ \A s \in Sessions : Stage(s)' = Stage(s)
  BY <1>1, OutsideMaps
<1>3. CASE Signal \/ serve' = "returned"
  <2>1. serve' \in {"stopping", "closed", "returned"}
    BY <1>3 DEF Signal
  <2>2. Doomed' = {s \in Sessions : Stages[s] # "over"}
    BY <1>2, <2>1 DEF Doomed, Cancelled, Stages
  <2>3. Promise!Shutdown
    BY <1>1, <1>2, <2>2 DEF Promise!Shutdown
  <2>. QED
    BY <2>3 DEF Promise!WardenNext
<1>4. CASE ~Signal /\ serve' # "returned"
  <2>1. \A s \in Sessions : (Cancelled(s) \/ serve = "returned")'
                            <=> (Cancelled(s) \/ serve = "returned")
    BY <1>1, <1>4 DEF ServeNext, CloseListener, AcceptFails, ServeReturns, Cancelled
  <2>2. Doomed' = Doomed
    BY <1>2, <2>1 DEF Doomed
  <2>. QED
    BY <1>1, <1>2, <2>2 DEF Promise!wardenVars
<1>. QED
  BY <1>3, <1>4

\* The watcher tells the session it is ending, whose token is retired.
LEMMA WatcherMaps ==
    ASSUME IInv, WatcherNext
    PROVE  [Promise!WardenNext]_Promise!wardenVars
<1>. USE DEF IInv
<1>1. UNCHANGED <<serve, minimum, status, holder, hello, who, phase, caller, command,
                  child, approved>>
  BY WatcherFrame
<1>2. /\ Vouched' = Vouched /\ Void' = Void /\ Stages' = Stages
      /\ \A s \in Sessions : Stage(s)' = Stage(s)
  BY <1>1, OutsideMaps
<1>3. CASE stopped' = stopped
  <2>1. Doomed' = Doomed
    BY <1>1, <1>2, <1>3 DEF Doomed, Cancelled
  <2>. QED
    BY <1>1, <1>2, <2>1 DEF Promise!wardenVars
<1>4. CASE stopped' # stopped
  <2>1. watcher = "notifying" /\ stopped' = stopped \cup {target}
    BY <1>4 DEF WatcherNext, WatcherTick, WatcherStops, WatcherRests, WatcherQuits,
       WatcherChecks
  <2>2. target \in Sessions /\ ticket[target] # None /\ ~Current(caller[target])
    BY <2>1 DEF StopInv, TypeOK
  <2>3. phase[target] \notin {"absent", "opening"}
    BY <2>2 DEF TicketInv
  <2>4. Stage(target) \in {"in", "cleared", "launched", "running", "over"}
    BY <2>3 DEF Stage
  <2>5. CASE Stage(target) = "over"
    <3>1. Doomed' = Doomed
      BY <1>1, <1>2, <2>1, <2>2, <2>5 DEF Doomed, Cancelled
    <3>. QED
      BY <1>1, <1>2, <3>1 DEF Promise!wardenVars
  <2>6. CASE Stage(target) # "over"
    <3>1. Doomed' = Doomed \cup {target}
      BY <1>1, <1>2, <2>1, <2>2, <2>6 DEF Doomed, Cancelled
    <3>2. Stages[target] = Stage(target)
      BY <2>2 DEF Stages
    <3>3. Promise!Doom(target)
      BY <1>1, <1>2, <2>2, <2>4, <2>6, <3>1, <3>2
      DEF Promise!Doom, Promise!Accepted, Current
    <3>. QED
      BY <2>2, <3>3 DEF Promise!WardenNext
  <2>. QED
    BY <2>5, <2>6
<1>. QED
  BY <1>3, <1>4

LEMMA RegistryMaps ==
    ASSUME RegistryNext
    PROVE  [Promise!WardenNext]_Promise!wardenVars
<1>1. UNCHANGED <<serve, status, holder, hello, who, phase, caller, command, child,
                  stopped, approved>>
  BY RegistryFrame
<1>2. UNCHANGED <<Vouched, Void, Stages, Doomed>>
  BY <1>1 DEF Vouched, Void, Stages, Stage, Doomed, Cancelled
<1>3. ASSUME NEW b \in Sandboxes, RaiseMinimum(b) PROVE Promise!WardenNext
  <2>1. Promise!RaiseBar(b)
    BY <1>1, <1>2, <1>3 DEF RaiseMinimum, Promise!RaiseBar, Promise!sessionVars
  <2>. QED
    BY <2>1 DEF Promise!WardenNext
<1>4. CASE RegistryBreaks \/ RegistryMends
  BY <1>1, <1>2, <1>4 DEF RegistryBreaks, RegistryMends, Promise!wardenVars
<1>. QED
  BY <1>3, <1>4 DEF RegistryNext

\* Whatever connections, watcher, operator, registry and clients do at once, the
\* server keeps what the warden promises of each session.
THEOREM ServerImplementsWarden == Spec => ImplementsWarden
<1>1. Init => Promise!WardenInit
  <2>. SUFFICES ASSUME Init PROVE Promise!WardenInit
    OBVIOUS
  <2>1. Vouched = [h \in Handshakes |-> None] /\ Void = {}
    BY DEF Init, Store!StoreInit, Vouched, Void
  <2>2. Stages = [s \in Sessions |-> "out"] /\ Doomed = {}
    BY DEF Init, Stages, Stage, Doomed, Cancelled
  <2>. QED
    BY <2>1, <2>2 DEF Init, Promise!WardenInit
<1>2. IInv /\ [Next]_vars => [Promise!WardenNext]_Promise!wardenVars
  <2>. SUFFICES ASSUME IInv, [Next]_vars PROVE [Promise!WardenNext]_Promise!wardenVars
    OBVIOUS
  <2>1. ASSUME NEW h \in Handshakes, HandshakeNext(h)
        PROVE  [Promise!WardenNext]_Promise!wardenVars
    BY <2>1, HandshakeMaps DEF IInv
  <2>2. ASSUME NEW s \in Sessions, ClientNext(s)
        PROVE  UNCHANGED Promise!wardenVars
    BY <2>2, ClientFrame
    DEF Promise!wardenVars, Vouched, Void, Stages, Stage, Doomed, Cancelled
  <2>3. CASE UNCHANGED vars
    BY <2>3
    DEF vars, registryVars, ticketVars, helloVars, grantVars, childVars,
        Promise!wardenVars, Vouched, Void, Stages, Stage, Doomed, Cancelled
  <2>. QED
    BY <2>1, <2>2, <2>3, SessionMaps, ServeMaps, WatcherMaps, RegistryMaps DEF Next
<1>. QED
  BY <1>1, <1>2, Invariance, PTL DEF Spec, ImplementsWarden, Promise!WardenSpec
==========================================================================
