----------------------------- MODULE Approval ----------------------------
(***************************************************************************)
(* terminalApprover of internal/server/approval.go: goroutines in Approve, *)
(* the one goroutine that reads the terminal, the channel of capacity one  *)
(* between them, and the operator.                                         *)
(*                                                                         *)
(* Typed lines are numbered, and answers[n] is what line n says: isYes is  *)
(* all the code asks of it.  The reader holds line nread from Scan until   *)
(* its send on the channel is taken or buffered, so a line is in one of    *)
(* four places: in the terminal (n > nread), in the reader's hand, in the  *)
(* channel, or claimed.                                                    *)
(*                                                                         *)
(* Bounds: each call happens once; the operator types MaxLines lines.      *)
(***************************************************************************)
EXTENDS Naturals, Sequences

CONSTANTS
    Calls,            \* sessions with a withheld command
    MaxLines

ASSUME ApprovalAssumption == MaxLines \in Nat

VARIABLES
    pc,               \* where each call is; "yes" and "no" once it returned
    cancelled,        \* calls whose context is done
    answers,          \* the lines typed so far: "yes" or "no"
    hungUp,           \* the terminal has reached end of file
    nread,            \* lines Scan has returned
    reader,           \* readLines: "off", "scanning", "holding", "parked", "closed"
    buffer,           \* the line in the channel, 0 when there is none
    cleared,          \* history: nread as the call's discardTyped returned
    settledBy         \* history: the line that settled the call

vars == <<pc, cancelled, answers, hungUp, nread, reader, buffer, cleared, settledBy>>

callVars   == <<pc, cleared, settledBy>>
readerVars == <<nread, reader, buffer>>
operator   == <<cancelled, answers, hungUp>>

\* Holding terminalApprover.mu.
Locked == {"discarding", "prompting", "asking"}

Goto(c, p) == pc' = [pc EXCEPT ![c] = p]

Init ==
    /\ pc = [c \in Calls |-> "out"]
    /\ cancelled = {}
    /\ answers = <<>>
    /\ hungUp = FALSE
    /\ nread = 0
    /\ reader = "off"
    /\ buffer = 0
    /\ cleared = [c \in Calls |-> 0]
    /\ settledBy = [c \in Calls |-> 0]

\* A receive from the channel, which holds a line: a parked sender's line takes
\* its place at once.
Receive ==
    /\ buffer # 0
    /\ buffer' = IF reader = "parked" THEN nread ELSE 0
    /\ reader' = IF reader = "parked" THEN "scanning" ELSE reader
    /\ UNCHANGED nread

ChannelClosed == reader = "closed" /\ buffer = 0

--------------------------------------------------------------------------
(* Approve *)

\* The descriptor is a terminal, if only one at its end of file: the call queues
\* on the mutex and does not look again.
Enter(c) ==
    /\ pc[c] = "out"
    /\ Goto(c, "queued")
    /\ UNCHANGED <<cleared, settledBy, readerVars, operator>>

\* Mutant of Lock: no mutex.
LockNothing(c) ==
    /\ pc[c] = "queued"
    /\ Goto(c, "discarding")
    /\ reader' = IF reader = "off" THEN "scanning" ELSE reader
    /\ UNCHANGED <<nread, buffer, cleared, settledBy, operator>>

\* The first call to get the mutex starts the reader.
Lock(c) ==
    /\ pc[c] = "queued"
    /\ \A o \in Calls : pc[o] \notin Locked
    /\ Goto(c, "discarding")
    /\ reader' = IF reader = "off" THEN "scanning" ELSE reader
    /\ UNCHANGED <<nread, buffer, cleared, settledBy, operator>>

\* discardTyped drops what is in the channel, over and over.
Discard(c) ==
    /\ pc[c] = "discarding"
    /\ Receive
    /\ UNCHANGED <<callVars, operator>>

\* Mutant of DiscardDone: lines typed before the prompt are left in the channel.
DiscardNothing(c) ==
    /\ pc[c] = "discarding"
    /\ Goto(c, "prompting")
    /\ cleared' = [cleared EXCEPT ![c] = nread]
    /\ UNCHANGED <<settledBy, readerVars, operator>>

DiscardDone(c) ==
    /\ pc[c] = "discarding"
    /\ buffer = 0 /\ reader # "closed"
    /\ Goto(c, "prompting")
    /\ cleared' = [cleared EXCEPT ![c] = nread]
    /\ UNCHANGED <<settledBy, readerVars, operator>>

\* The prompt is written and the timer started.
Show(c) ==
    /\ pc[c] = "prompting"
    /\ Goto(c, "asking")
    /\ UNCHANGED <<cleared, settledBy, readerVars, operator>>

Settle(c) ==
    /\ pc[c] = "asking"
    /\ Receive
    /\ Goto(c, answers[buffer])
    /\ settledBy' = [settledBy EXCEPT ![c] = buffer]
    /\ UNCHANGED <<cleared, operator>>

\* Returns that no line settles.
GiveUp(c) ==
    /\ Goto(c, "no")
    /\ UNCHANGED <<cleared, settledBy, readerVars, operator>>

NotATerminal(c) == pc[c] = "out" /\ hungUp /\ GiveUp(c)
NobodyThere(c)  == pc[c] \in {"discarding", "asking"} /\ ChannelClosed /\ GiveUp(c)
PromptFails(c)  == pc[c] = "prompting" /\ hungUp /\ GiveUp(c)

\* Mutant of TimeOut: only a cancelled context ends the wait.
WaitForContext(c) == pc[c] = "asking" /\ c \in cancelled /\ GiveUp(c)

TimeOut(c)      == pc[c] = "asking" /\ GiveUp(c)
ContextDone(c)  == pc[c] = "asking" /\ c \in cancelled /\ GiveUp(c)

--------------------------------------------------------------------------
(* readLines *)

Scan ==
    /\ reader = "scanning" /\ nread < Len(answers)
    /\ nread' = nread + 1
    /\ reader' = "holding"
    /\ UNCHANGED <<buffer, callVars, operator>>

ScanEnds ==
    /\ reader = "scanning" /\ hungUp /\ nread = Len(answers)
    /\ reader' = "closed"
    /\ UNCHANGED <<nread, buffer, callVars, operator>>

\* Mutant of Send: the reader sends the line again instead of scanning the next.
SendAgain ==
    /\ reader = "holding"
    /\ reader' = IF buffer = 0 THEN "holding" ELSE "parked"
    /\ buffer' = IF buffer = 0 THEN nread ELSE buffer
    /\ UNCHANGED <<nread, callVars, operator>>

\* The send completes if the channel has room and parks the reader otherwise.
Send ==
    /\ reader = "holding"
    /\ reader' = IF buffer = 0 THEN "scanning" ELSE "parked"
    /\ buffer' = IF buffer = 0 THEN nread ELSE buffer
    /\ UNCHANGED <<nread, callVars, operator>>

--------------------------------------------------------------------------
(* The operator, and the contexts of the calls *)

Type(a) ==
    /\ Len(answers) < MaxLines /\ ~hungUp
    /\ answers' = Append(answers, a)
    /\ UNCHANGED <<callVars, readerVars, cancelled, hungUp>>

HangUp ==
    /\ ~hungUp
    /\ hungUp' = TRUE
    /\ UNCHANGED <<callVars, readerVars, cancelled, answers>>

\* The session's token is retired, or the server is stopping.
Cancel(c) ==
    /\ c \notin cancelled
    /\ cancelled' = cancelled \cup {c}
    /\ UNCHANGED <<callVars, readerVars, answers, hungUp>>

--------------------------------------------------------------------------

CallStep(c) ==
    \/ Lock(c) \/ Discard(c) \/ DiscardDone(c) \/ Show(c) \/ Settle(c)
    \/ NobodyThere(c) \/ PromptFails(c) \/ TimeOut(c) \/ ContextDone(c)

ReaderStep == Scan \/ ScanEnds \/ Send

OperatorStep ==
    \/ \E a \in {"yes", "no"} : Type(a)
    \/ HangUp
    \/ \E c \in Calls : Cancel(c)

Next ==
    \/ \E c \in Calls : Enter(c) \/ NotATerminal(c) \/ CallStep(c)
    \/ ReaderStep
    \/ OperatorStep

Spec == Init /\ [][Next]_vars

\* A call that can go on does, its timer fires, and the reader runs; sync.Mutex
\* does not starve a waiter.  The operator owes nothing.
FairSpec == Spec /\ WF_vars(ReaderStep) /\ \A c \in Calls : WF_vars(CallStep(c))

--------------------------------------------------------------------------

TypeOK ==
    /\ pc \in [Calls -> Locked \cup {"out", "queued", "yes", "no"}]
    /\ cancelled \subseteq Calls
    /\ answers \in Seq({"yes", "no"})
    /\ hungUp \in BOOLEAN
    /\ nread \in 0 .. Len(answers)
    /\ reader \in {"off", "scanning", "holding", "parked", "closed"}
    /\ buffer \in 0 .. nread
    /\ cleared \in [Calls -> Nat]
    /\ settledBy \in [Calls -> Nat]

\* One typed line settles at most one question, and only a line that says yes
\* approves: an answer is never taken for two (approval.go:55-57, 137-145).
OneLineOneQuestion ==
    \A c \in Calls :
        /\ pc[c] = "yes" => settledBy[c] # 0 /\ answers[settledBy[c]] = "yes"
        /\ settledBy[c] # 0 =>
             \A o \in Calls \ {c} : settledBy[o] # settledBy[c]

\* Of the lines read before a question was cleared for asking, at most the very
\* last, the one still in the reader's hand, can settle it (approval.go:120-135).
StaleByAtMostOne ==
    \A c \in Calls : settledBy[c] # 0 => settledBy[c] >= cleared[c]

\* Every call to Approve returns, answered or not: the timeout, the context and a
\* terminal that closes all release the question (approval.go:18-21, 106-117).
EveryCallReturns ==
    \A c \in Calls : (pc[c] = "queued") ~> (pc[c] \in {"yes", "no"})

CallOf(p) == IF p = "queued" THEN "queued" ELSE IF p \in Locked THEN "asking" ELSE "out"

Abstract == INSTANCE Approver
              WITH call <- [c \in Calls |-> CallOf(pc[c])],
                   yes  <- {c \in Calls : pc[c] = "yes"}

\* The terminal approver keeps the Approver's promise to its callers: one
\* question at a time, and no yes that was not asked for (approval.go:42-57).
ImplementsApprover == Abstract!ApproverSpec
==========================================================================
