------------------------------ MODULE Stream -----------------------------
(***************************************************************************)
(* The data path of one session: the client (internal/client), the framed  *)
(* connection, and the server's goroutines between the connection and the  *)
(* command (runFramedSession, runPipes, runTTY, session.pump).             *)
(*                                                                         *)
(* The client has sent its Start frame.  A frame is one message of a FIFO: *)
(* Frames shows that the frame writer and reader make the connection one.  *)
(* Chunks of a stream are numbered, so a lost, repeated or misplaced one   *)
(* shows.  A command stands for its process group, which holds the pipes.  *)
(* What cancels a session is in Server: here its command exits.            *)
(*                                                                         *)
(* Bounds: the client's stdin holds at most MaxIn chunks, a command writes *)
(* at most MaxOut on each stream, each direction of the connection holds   *)
(* Wire frames and each pipe Room chunks; the user interrupts once.        *)
(***************************************************************************)
EXTENDS Naturals, Sequences

CONSTANTS MaxIn, MaxOut, Wire, Room, Events

\* "shut": the command may close its stdin and go on.  "quit": the client may be
\* killed, or fail to write its own output.  "unreadable": its stdin may fail.
EventKinds == {"shut", "quit", "unreadable"}

ASSUME StreamAssumption ==
    /\ MaxIn \in Nat /\ MaxOut \in Nat
    /\ Wire \in Nat \ {0} /\ Room \in Nat \ {0}
    /\ Events \subseteq EventKinds

VARIABLES
    tty,              \* Start.TTY
    supply,           \* chunks on the client's stdin before its end
    client,           \* "waiting", "relaying", "exited" or "failed"
    forward,          \* forwardStdin: "off", "reading", "sending", "closing", "done"
    taken,            \* chunks it has read
    interrupt,        \* forwardSignals: "none", "noted", "sent"
    up, down,         \* frames on their way to the server, to the client
    reset,            \* a frame reached the server's end unread or too late
    shown,            \* chunks the client has written to its own stdout and stderr
    session,          \* runFramedSession
    answered,         \* history: the Exit frame reports a command
    pump,             \* session.pump: "off", "reading", "writing", "done"
    pumped,           \* the chunk it is writing
    pipe,             \* the command's stdin pipe
    input,            \* that pipe's ends: "open", "ended" by the pump, "shut" by the command
    copier, carried,  \* each output copy and the chunk it is sending
    output,           \* the command's output pipes; the PTY is "stdout"
    child,            \* "none", "alive", "dead"
    wrote,            \* chunks the command has written to each
    consumed,         \* chunks it has read
    sawEnd            \* it has read its end of input

Streams == {"stdout", "stderr"}

Frame(k, n) == [kind |-> k, chunk |-> n]

clientVars  == <<client, forward, taken, interrupt, shown>>
serverVars  == <<session, answered>>
pumpVars    == <<pump, pumped>>
copyVars    == <<copier, carried>>
childVars   == <<child, wrote, consumed, sawEnd>>
pipeVars    == <<pipe, input, output>>
fixed       == <<tty, supply>>

vars == <<fixed, clientVars, up, down, reset, serverVars, pumpVars, copyVars,
          childVars, pipeVars>>

Gone   == client \in {"exited", "failed"}
Closed == session = "closed"

Init ==
    /\ tty \in BOOLEAN
    /\ supply \in 0 .. MaxIn
    /\ client = "waiting" /\ forward = "off" /\ taken = 0 /\ interrupt = "none"
    /\ up = <<Frame("start", 0)>> /\ down = <<>> /\ reset = FALSE
    /\ shown = [s \in Streams |-> <<>>]
    /\ session = "opening" /\ answered = FALSE
    /\ pump = "off" /\ pumped = 0
    /\ copier = [s \in Streams |-> "off"] /\ carried = [s \in Streams |-> 0]
    /\ pipe = <<>> /\ input = "open" /\ output = [s \in Streams |-> <<>>]
    /\ child = "none" /\ wrote = [s \in Streams |-> 0]
    /\ consumed = <<>> /\ sawEnd = FALSE

\* A frame goes into a connection with room; one that the peer has closed fails.
SendUp(f)   == ~Closed /\ Len(up) < Wire /\ up' = Append(up, f)
SendDown(f) == ~Closed /\ Len(down) < Wire /\ down' = Append(down, f)

--------------------------------------------------------------------------
(* The client *)

clientOnly ==
    UNCHANGED <<fixed, reset, serverVars, pumpVars, copyVars, childVars, pipeVars>>

\* The Ready loop of run, then relayOutput.
Receives(kinds) ==
    /\ ~Gone /\ down # <<>> /\ Head(down).kind \in kinds
    /\ down' = Tail(down)

StartForwarding ==
    /\ client = "waiting" /\ Receives({"ready"})
    /\ client' = "relaying" /\ forward' = "reading"
    /\ UNCHANGED <<taken, interrupt, shown, up>> /\ clientOnly

\* Mutant of RelayOutput: output is relayed once stdin has been forwarded.
RelayAfterInput(s) ==
    /\ client = "relaying" /\ forward = "done" /\ Receives({s})
    /\ shown' = [shown EXCEPT ![s] = Append(@, Head(down).chunk)]
    /\ UNCHANGED <<client, forward, taken, interrupt, up>> /\ clientOnly

RelayOutput(s) ==
    /\ client = "relaying" /\ Receives({s})
    /\ shown' = [shown EXCEPT ![s] = Append(@, Head(down).chunk)]
    /\ UNCHANGED <<client, forward, taken, interrupt, up>> /\ clientOnly

\* A line from the server itself, which travels as stderr.
RelayNotice ==
    /\ Receives({"notice"})
    /\ UNCHANGED <<clientVars, up>> /\ clientOnly

RelayExit ==
    /\ Receives({"exit"})
    /\ client' = "exited"
    /\ UNCHANGED <<forward, taken, interrupt, shown, up>> /\ clientOnly

\* The server has closed the connection, or the network has dropped what was on it.
ReadFails ==
    /\ ~Gone /\ Closed /\ (down = <<>> \/ reset)
    /\ client' = "failed"
    /\ UNCHANGED <<forward, taken, interrupt, shown, up, down>> /\ clientOnly

\* Killed, interrupted before it forwards signals, or its own output is closed.
Quit ==
    /\ "quit" \in Events /\ ~Gone
    /\ client' = "failed"
    /\ UNCHANGED <<forward, taken, interrupt, shown, up, down>> /\ clientOnly

\* Mutant of ForwardRead: stdin is forwarded from the start.
ForwardEarly ==
    /\ ~Gone /\ forward \in {"off", "reading"} /\ taken < supply
    /\ taken' = taken + 1 /\ forward' = "sending"
    /\ UNCHANGED <<client, interrupt, shown, up, down>> /\ clientOnly

\* Mutant of ForwardRead: the read that reports the end is sent as a chunk.
ForwardPastEnd ==
    /\ ~Gone /\ forward = "reading" /\ taken <= supply
    /\ taken' = taken + 1 /\ forward' = "sending"
    /\ UNCHANGED <<client, interrupt, shown, up, down>> /\ clientOnly

ForwardRead ==
    /\ ~Gone /\ forward = "reading" /\ taken < supply
    /\ taken' = taken + 1 /\ forward' = "sending"
    /\ UNCHANGED <<client, interrupt, shown, up, down>> /\ clientOnly

ForwardSend ==
    /\ ~Gone /\ forward = "sending"
    /\ SendUp(Frame("stdin", taken))
    /\ forward' = "reading"
    /\ UNCHANGED <<client, taken, interrupt, shown, down>> /\ clientOnly

\* The end of the client's stdin.
ForwardEnd ==
    /\ ~Gone /\ forward = "reading" /\ taken = supply
    /\ forward' = "closing"
    /\ UNCHANGED <<client, taken, interrupt, shown, up, down>> /\ clientOnly

ForwardClose ==
    /\ ~Gone /\ forward = "closing"
    /\ SendUp(Frame("stdin-close", 0))
    /\ forward' = "done"
    /\ UNCHANGED <<client, taken, interrupt, shown, down>> /\ clientOnly

\* What is sent too late makes the server's end reset the connection.
ForwardTooLate ==
    /\ ~Gone /\ forward \in {"sending", "closing"} /\ Closed
    /\ forward' = "done" /\ reset' = TRUE
    /\ UNCHANGED <<fixed, client, taken, interrupt, shown, up, down, serverVars, pumpVars,
                   copyVars, childVars, pipeVars>>

\* A failed read: nothing tells the server that stdin has ended.
ForwardFails ==
    /\ "unreadable" \in Events /\ ~Gone /\ forward = "reading"
    /\ forward' = "done"
    /\ UNCHANGED <<client, taken, interrupt, shown, up, down>> /\ clientOnly

\* On a terminal an interrupt is a byte of stdin instead.
Interrupt ==
    /\ client = "relaying" /\ ~tty /\ interrupt = "none"
    /\ interrupt' = "noted"
    /\ UNCHANGED <<client, forward, taken, shown, up, down>> /\ clientOnly

ForwardSignal ==
    /\ client = "relaying" /\ interrupt = "noted"
    /\ SendUp(Frame("signal", 0))
    /\ interrupt' = "sent"
    /\ UNCHANGED <<client, forward, taken, shown, down>> /\ clientOnly

--------------------------------------------------------------------------
(* runFramedSession *)

sessionOnly ==
    UNCHANGED <<fixed, clientVars, reset, pumpVars, copyVars, childVars,
                pipeVars>>

\* readStart takes its frame through a buffered reader of its own: what that has
\* read beyond the frame is lost with it.
ReadStart ==
    /\ session = "opening" /\ up # <<>> /\ Head(up).kind = "start"
    /\ \E n \in 1 .. Len(up) : up' = SubSeq(up, n + 1, Len(up))
    /\ session' = "authorizing"
    /\ UNCHANGED <<answered, down>> /\ sessionOnly

Decide(to) ==
    /\ session \in {"authorizing", "asking"}
    /\ session' = to
    /\ UNCHANGED <<answered, up, down>> /\ sessionOnly

\* seekApproval tells the caller that it is waiting.
AskOperator ==
    /\ session = "authorizing"
    /\ SendDown(Frame("notice", 0)) \/ (Gone /\ UNCHANGED down)
    /\ session' = "asking"
    /\ UNCHANGED <<answered, up>> /\ sessionOnly

SendReady ==
    /\ session = "readying"
    /\ SendDown(Frame("ready", 0))
    /\ session' = "starting"
    /\ UNCHANGED <<answered, up>> /\ sessionOnly

ReadyFails ==
    /\ session = "readying" /\ Gone
    /\ session' = "closing"
    /\ UNCHANGED <<answered, up, down>> /\ sessionOnly

\* runPipes and runTTY: the command, the pump and the output copies.
StartCommand ==
    /\ session = "starting"
    /\ session' = "running" /\ answered' = TRUE
    /\ child' = "alive" /\ pump' = "reading"
    /\ copier' = [s \in Streams |-> IF tty /\ s = "stderr" THEN "done" ELSE "copying"]
    /\ UNCHANGED <<fixed, clientVars, up, down, reset, pumped, carried, wrote,
                   consumed, sawEnd, pipeVars>>

\* execFailure.
StartFails ==
    /\ session = "starting"
    /\ session' = "exiting"
    /\ UNCHANGED <<answered, up, down>> /\ sessionOnly

\* Mutant of Reap: Wait is called without waiting for the copies.
ReapEarly ==
    /\ session = "running" /\ child = "dead"
    /\ session' = "exiting"
    /\ UNCHANGED <<answered, up, down>> /\ sessionOnly

\* Both copies are done, and then Wait returns.
Reap ==
    /\ session = "running" /\ child = "dead"
    /\ \A s \in Streams : copier[s] = "done"
    /\ session' = "exiting"
    /\ UNCHANGED <<answered, up, down>> /\ sessionOnly

SendExit ==
    /\ session = "exiting"
    /\ SendDown(Frame("exit", 0))
    /\ session' = "closing"
    /\ UNCHANGED <<answered, up>> /\ sessionOnly

ExitFails ==
    /\ session = "exiting" /\ Gone
    /\ session' = "closing"
    /\ UNCHANGED <<answered, up, down>> /\ sessionOnly

\* The deferred calls.  A close with frames unread resets the connection.
Close ==
    /\ session = "closing"
    /\ session' = "closed"
    /\ pump' = IF pump = "off" THEN "off" ELSE "done"
    /\ up' = <<>> /\ reset' = (up # <<>>)
    /\ UNCHANGED <<fixed, clientVars, down, answered, pumped, copyVars, childVars,
                   pipeVars>>

--------------------------------------------------------------------------
(* The output copies *)

copyOnly ==
    UNCHANGED <<fixed, clientVars, up, reset, serverVars, pumpVars, childVars, pipe,
                input>>

CopyTakes(s) ==
    /\ copier[s] = "copying" /\ output[s] # <<>>
    /\ carried' = [carried EXCEPT ![s] = Head(output[s])]
    /\ output' = [output EXCEPT ![s] = Tail(@)]
    /\ copier' = [copier EXCEPT ![s] = "sending"]
    /\ UNCHANGED down /\ copyOnly

CopySends(s) ==
    /\ copier[s] = "sending"
    /\ SendDown(Frame(s, carried[s]))
    /\ copier' = [copier EXCEPT ![s] = "copying"]
    /\ UNCHANGED <<carried, output>> /\ copyOnly

\* The end of the pipe, or of the connection.
CopyEnds(s) ==
    /\ \/ copier[s] = "copying" /\ output[s] = <<>> /\ child = "dead"
       \/ copier[s] = "sending" /\ Gone
    /\ copier' = [copier EXCEPT ![s] = "done"]
    /\ UNCHANGED <<carried, output, down>> /\ copyOnly

--------------------------------------------------------------------------
(* session.pump *)

pumpOnly ==
    UNCHANGED <<fixed, clientVars, down, reset, session, answered, copyVars, child, wrote,
                consumed, sawEnd, output>>

PumpReads(kind) ==
    /\ pump = "reading" /\ up # <<>> /\ Head(up).kind = kind
    /\ up' = Tail(up)

PumpTakes ==
    /\ PumpReads("stdin")
    /\ pump' = "writing" /\ pumped' = Head(up).chunk
    /\ UNCHANGED <<pipe, input>> /\ pumpOnly

PumpWrites ==
    /\ pump = "writing" /\ child = "alive" /\ input # "shut" /\ Len(pipe) < Room
    /\ pipe' = Append(pipe, pumped)
    /\ pump' = "reading"
    /\ UNCHANGED <<pumped, up, input>> /\ pumpOnly

\* Mutant of PumpCloses: the frame is taken for one it does not know.
PumpIgnoresClose ==
    /\ PumpReads("stdin-close")
    /\ UNCHANGED <<pump, pumped, pipe, input>> /\ pumpOnly

\* A terminal has no end to close.
PumpCloses ==
    /\ PumpReads("stdin-close")
    /\ input' = IF tty \/ input = "shut" THEN input ELSE "ended"
    /\ UNCHANGED <<pump, pumped, pipe>> /\ pumpOnly

\* What the command does with a signal is its own affair.
PumpSignals ==
    /\ PumpReads("signal")
    /\ UNCHANGED <<pump, pumped, pipe, input>> /\ pumpOnly

\* The client is gone, or the command no longer takes its stdin: either way the
\* command is cancelled.
PumpEnds ==
    /\ \/ pump = "reading" /\ up = <<>> /\ Gone
       \/ pump = "writing" /\ (child = "dead" \/ input = "shut")
    /\ pump' = "done"
    /\ UNCHANGED <<pumped, up, pipe, input>> /\ pumpOnly

--------------------------------------------------------------------------
(* The command *)

childOnly ==
    UNCHANGED <<fixed, clientVars, up, down, reset, serverVars, pumpVars, copyVars>>

CommandWrites(s) ==
    /\ child = "alive" /\ wrote[s] < MaxOut /\ Len(output[s]) < Room
    /\ tty => s = "stdout"
    /\ wrote' = [wrote EXCEPT ![s] = @ + 1]
    /\ output' = [output EXCEPT ![s] = Append(@, wrote'[s])]
    /\ UNCHANGED <<child, consumed, sawEnd, pipe, input>> /\ childOnly

CommandReads ==
    /\ child = "alive" /\ input # "shut"
    /\ \/ /\ pipe # <<>>
          /\ consumed' = Append(consumed, Head(pipe)) /\ pipe' = Tail(pipe)
          /\ UNCHANGED sawEnd
       \/ /\ pipe = <<>> /\ input = "ended" /\ ~sawEnd
          /\ sawEnd' = TRUE
          /\ UNCHANGED <<consumed, pipe>>
    /\ UNCHANGED <<child, wrote, input, output>> /\ childOnly

CommandShutsInput ==
    /\ "shut" \in Events /\ child = "alive" /\ ~tty /\ input # "shut"
    /\ input' = "shut"
    /\ UNCHANGED <<child, wrote, consumed, sawEnd, pipe, output>> /\ childOnly

\* On its own, on a signal, or killed because it was cancelled.
CommandExits ==
    /\ child = "alive"
    /\ child' = "dead"
    /\ UNCHANGED <<wrote, consumed, sawEnd, pipeVars>> /\ childOnly

--------------------------------------------------------------------------

ClientStep ==
    \/ StartForwarding \/ RelayNotice \/ RelayExit \/ ReadFails
    \/ \E s \in Streams : RelayOutput(s)

ForwarderStep ==
    ForwardRead \/ ForwardSend \/ ForwardEnd \/ ForwardClose

SessionStep ==
    \/ ReadStart \/ SendReady \/ ReadyFails \/ StartCommand \/ StartFails
    \/ Reap \/ SendExit \/ ExitFails \/ Close

AuthorizeStep ==
    AskOperator \/ \E to \in {"readying", "exiting"} : Decide(to)

CopyStep(s) == CopyTakes(s) \/ CopySends(s) \/ CopyEnds(s)

PumpStep == PumpTakes \/ PumpWrites \/ PumpCloses \/ PumpSignals \/ PumpEnds

Next ==
    \/ ClientStep \/ ForwarderStep \/ ForwardTooLate \/ ForwardFails \/ Quit
    \/ Interrupt \/ ForwardSignal
    \/ SessionStep \/ AuthorizeStep
    \/ \E s \in Streams : CopyStep(s) \/ CommandWrites(s)
    \/ PumpStep
    \/ CommandReads \/ CommandShutsInput \/ CommandExits

Spec == Init /\ [][Next]_vars

\* What happens of itself: goroutines that are not blocked run, and a command that
\* keeps its stdin open reads it.  Nothing is assumed of the caller's stdin, of the
\* operator or of the watcher, and a command need neither write nor exit.
Progress ==
    \/ ClientStep \/ ForwardClose
    \/ SessionStep \/ (\E s \in Streams : CopyStep(s)) \/ PumpStep
    \/ CommandReads

\* A session's steps are finite here, so with fairness of them together it rests
\* only where none of them can be taken.
Fairness == WF_vars(Progress)

FairSpec == Spec /\ Fairness

--------------------------------------------------------------------------

FrameKinds == {"start", "stdin", "stdin-close", "signal", "ready", "notice", "exit"}
                \cup Streams

\* Types, and the room of the connection and the pipes.
TypeOK ==
    /\ tty \in BOOLEAN /\ supply \in 0 .. MaxIn
    /\ client \in {"waiting", "relaying", "exited", "failed"}
    /\ forward \in {"off", "reading", "sending", "closing", "done"}
    /\ taken \in 0 .. supply
    /\ interrupt \in {"none", "noted", "sent"}
    /\ up \in Seq([kind : FrameKinds, chunk : 0 .. MaxIn]) /\ Len(up) <= Wire
    /\ down \in Seq([kind : FrameKinds, chunk : 0 .. MaxOut]) /\ Len(down) <= Wire
    /\ reset \in BOOLEAN
    /\ shown \in [Streams -> Seq(1 .. MaxOut)]
    /\ session \in {"opening", "authorizing", "asking", "readying", "starting",
                    "running", "exiting", "closing", "closed"}
    /\ answered \in BOOLEAN
    /\ pump \in {"off", "reading", "writing", "done"} /\ pumped \in 0 .. MaxIn
    /\ pipe \in Seq(1 .. MaxIn) /\ Len(pipe) <= Room
    /\ input \in {"open", "ended", "shut"}
    /\ copier \in [Streams -> {"off", "copying", "sending", "done"}]
    /\ carried \in [Streams -> 0 .. MaxOut]
    /\ output \in [Streams -> Seq(1 .. MaxOut)]
    /\ child \in {"none", "alive", "dead"}
    /\ wrote \in [Streams -> 0 .. MaxOut]
    /\ consumed \in Seq(1 .. MaxIn)
    /\ sawEnd \in BOOLEAN

Upto(n) == [i \in 1 .. n |-> i]

\* A client that reports a command's exit code has first written all that the
\* command wrote, in order (the copies drain before Wait, server.go:502-515).
ExitAfterOutput ==
    client = "exited" /\ answered => \A s \in Streams : shown[s] = Upto(wrote[s])

\* A command reads its caller's stdin from the first chunk on, without a gap, and
\* an end of input only after all of it, though the bytes after a Start frame
\* would be lost (server.go:379-386, client.go:108-162).
StdinIntact ==
    /\ consumed = Upto(Len(consumed))
    /\ sawEnd => Len(consumed) = supply

\* The client of a command that is over returns, however much of its stdin was
\* never read (client.go:162, 180-213).
ClientReturns == (child = "dead") ~> Gone

\* Once a caller's stdin is over, its command learns it, unless one of them ends
\* first or the command no longer listens (client.go:225, server.go:549-556).
EndOfInputArrives ==
    (forward = "closing" /\ ~tty) ~> (sawEnd \/ child = "dead" \/ Gone \/ input = "shut")
==========================================================================
