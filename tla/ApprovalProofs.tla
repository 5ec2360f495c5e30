-------------------------- MODULE ApprovalProofs -------------------------
(***************************************************************************)
(* Invariants of Approval, and that it implements Approver.                *)
(***************************************************************************)
EXTENDS Approval, TLAPS

\* One call holds the mutex.
OneHolder ==
    \A c, o \in Calls : pc[c] \in Locked /\ pc[o] \in Locked => c = o

\* The reader is at most one line ahead of the channel.
ReaderInv ==
    /\ reader = "off" => nread = 0
    /\ reader \in {"scanning", "closed"} => buffer \in {0, nread}
    /\ reader = "holding" => nread # 0 /\ buffer \in {0, nread - 1}
    /\ reader = "parked"  => buffer # 0 /\ buffer = nread - 1

\* A line that settled a call lies behind those in the channel and in the
\* reader's hand, and the call is over.
SettledInv ==
    \A c \in Calls : settledBy[c] # 0 =>
        /\ settledBy[c] <= nread
        /\ buffer # 0 => settledBy[c] < buffer
        /\ reader \in {"holding", "parked"} => settledBy[c] < nread
        /\ pc[c] \in {"yes", "no"}

\* While a call asks, the channel holds nothing older than what was cleared.
ClearedInv ==
    \A c \in Calls : pc[c] \in {"prompting", "asking"} =>
        /\ cleared[c] <= nread
        /\ buffer # 0 => cleared[c] <= buffer

IInv ==
    /\ TypeOK /\ OneHolder /\ ReaderInv /\ SettledInv /\ ClearedInv
    /\ OneLineOneQuestion /\ StaleByAtMostOne

LEMMA InitIInv == Init => IInv
<1>. SUFFICES ASSUME Init PROVE IInv
  OBVIOUS
<1>1. TypeOK
  <2>1. answers \in Seq({"yes", "no"}) /\ nread \in 0 .. Len(answers)
    BY DEF Init
  <2>2. pc \in [Calls -> Locked \cup {"out", "queued", "yes", "no"}]
    BY DEF Init
  <2>. QED
    BY <2>1, <2>2 DEF Init, TypeOK
<1>. QED
  BY <1>1 DEF Init, IInv, Locked, OneHolder, ReaderInv, SettledInv, ClearedInv,
     OneLineOneQuestion, StaleByAtMostOne

--------------------------------------------------------------------------

\* What a receive does to the channel and the reader.
LEMMA ReceiveTakes ==
    ASSUME TypeOK, ReaderInv, Receive
    PROVE  /\ buffer \in 1 .. nread /\ buffer \in DOMAIN answers
           /\ nread' = nread
           /\ reader' \in {"off", "scanning", "holding", "closed"}
           /\ reader' = "off" => nread = 0
           /\ reader' = "holding" => nread # 0 /\ buffer < nread
           /\ buffer' \in {0, nread}
           /\ buffer' # 0 => reader' = "scanning" /\ buffer < buffer'
           /\ reader' \in {"holding"} => buffer' = 0
BY DEF TypeOK, ReaderInv, Receive

\* A step of one call preserves the invariant.
LEMMA CallPreserves ==
    ASSUME IInv, NEW c \in Calls, Enter(c) \/ NotATerminal(c) \/ CallStep(c)
    PROVE  IInv'
<1>. USE DEF IInv, Goto, Locked
<1>1. CASE Enter(c)
  BY <1>1 DEF Enter, TypeOK, OneHolder, ReaderInv, SettledInv, ClearedInv,
     OneLineOneQuestion, StaleByAtMostOne, readerVars, operator
<1>2. CASE Lock(c)
  BY <1>2 DEF Lock, TypeOK, OneHolder, ReaderInv, SettledInv, ClearedInv,
     OneLineOneQuestion, StaleByAtMostOne, operator
<1>3. CASE Discard(c)
  <2>1. Receive /\ UNCHANGED <<pc, cleared, settledBy, cancelled, answers, hungUp>>
    BY <1>3 DEF Discard, callVars, operator
  <2>. QED
    BY <2>1, ReceiveTakes DEF TypeOK, OneHolder, ReaderInv, SettledInv, ClearedInv,
       OneLineOneQuestion, StaleByAtMostOne
<1>4. CASE DiscardDone(c)
  BY <1>4, SMTT(30) DEF DiscardDone, TypeOK, OneHolder, ReaderInv, SettledInv, ClearedInv,
     OneLineOneQuestion, StaleByAtMostOne, readerVars, operator
<1>5. CASE Show(c)
  BY <1>5 DEF Show, TypeOK, OneHolder, ReaderInv, SettledInv, ClearedInv,
     OneLineOneQuestion, StaleByAtMostOne, readerVars, operator
<1>6. CASE Settle(c)
  <2>1. /\ Receive /\ pc[c] = "asking"
        /\ pc' = [pc EXCEPT ![c] = answers[buffer]]
        /\ settledBy' = [settledBy EXCEPT ![c] = buffer]
        /\ UNCHANGED <<cleared, cancelled, answers, hungUp>>
    BY <1>6 DEF Settle, operator
  <2>2. answers[buffer] \in {"yes", "no"}
    BY <2>1, ReceiveTakes DEF TypeOK
  <2>3. TypeOK'
    BY <2>1, <2>2, ReceiveTakes DEF TypeOK
  <2>4. OneHolder' /\ ReaderInv'
    BY <2>1, <2>2, ReceiveTakes DEF TypeOK, OneHolder, ReaderInv
  <2>5. SettledInv'
    BY <2>1, <2>2, ReceiveTakes DEF TypeOK, SettledInv
  <2>6. ClearedInv'
    BY <2>1, <2>2, ReceiveTakes DEF TypeOK, ClearedInv
  <2>7. OneLineOneQuestion'
    BY <2>1, <2>2, ReceiveTakes DEF TypeOK, SettledInv, OneLineOneQuestion
  <2>8. StaleByAtMostOne'
    BY <2>1, <2>2, ReceiveTakes DEF TypeOK, ClearedInv, StaleByAtMostOne
  <2>. QED
    BY <2>3, <2>4, <2>5, <2>6, <2>7, <2>8
<1>7. CASE GiveUp(c) /\ pc[c] \in Locked \cup {"out"}
  BY <1>7 DEF GiveUp, TypeOK, OneHolder, ReaderInv, SettledInv, ClearedInv,
     OneLineOneQuestion, StaleByAtMostOne, readerVars, operator
<1>. QED
  BY <1>1, <1>2, <1>3, <1>4, <1>5, <1>6, <1>7 DEF CallStep, NotATerminal, NobodyThere,
     PromptFails, TimeOut, ContextDone

\* So does one of the reader.
LEMMA ReaderPreserves == IInv /\ ReaderStep => IInv'
<1>. SUFFICES ASSUME IInv, ReaderStep PROVE IInv'
  OBVIOUS
<1>. USE DEF IInv, callVars, operator
<1>1. CASE Scan
  BY <1>1 DEF Scan, TypeOK, OneHolder, ReaderInv, SettledInv, ClearedInv,
     OneLineOneQuestion, StaleByAtMostOne
<1>2. CASE ScanEnds
  BY <1>2 DEF ScanEnds, TypeOK, OneHolder, ReaderInv, SettledInv, ClearedInv,
     OneLineOneQuestion, StaleByAtMostOne
<1>3. CASE Send
  BY <1>3 DEF Send, TypeOK, OneHolder, ReaderInv, SettledInv, ClearedInv,
     OneLineOneQuestion, StaleByAtMostOne
<1>. QED
  BY <1>1, <1>2, <1>3 DEF ReaderStep

\* And so do the operator's: a new line leaves the earlier ones as they are.
LEMMA OperatorPreserves == IInv /\ OperatorStep => IInv'
<1>. SUFFICES ASSUME IInv, OperatorStep PROVE IInv'
  OBVIOUS
<1>1. UNCHANGED <<pc, cleared, settledBy, nread, reader, buffer>>
  BY DEF OperatorStep, Type, HangUp, Cancel, callVars, readerVars
<1>2. /\ answers' \in Seq({"yes", "no"}) /\ Len(answers) <= Len(answers')
      /\ \A n \in 1 .. Len(answers) : answers'[n] = answers[n]
  <2>1. CASE UNCHANGED answers
    BY <2>1 DEF IInv, TypeOK
  <2>2. ASSUME NEW a \in {"yes", "no"}, answers' = Append(answers, a)
        PROVE  <1>2!1
    BY <2>2 DEF IInv, TypeOK
  <2>. QED
    BY <2>1, <2>2 DEF OperatorStep, Type, HangUp, Cancel
<1>3. cancelled' \subseteq Calls /\ hungUp' \in BOOLEAN
  BY DEF OperatorStep, Type, HangUp, Cancel, IInv, TypeOK
<1>4. TypeOK'
  BY <1>1, <1>2, <1>3 DEF IInv, TypeOK
<1>5. OneLineOneQuestion'
  BY <1>1, <1>2 DEF IInv, TypeOK, OneLineOneQuestion, SettledInv
<1>. QED
  BY <1>1, <1>4, <1>5 DEF IInv, OneHolder, ReaderInv, SettledInv, ClearedInv,
     StaleByAtMostOne

LEMMA NextIInv == IInv /\ [Next]_vars => IInv'
<1>1. IInv /\ UNCHANGED vars => IInv'
  BY DEF IInv, vars, TypeOK, OneHolder, ReaderInv, SettledInv, ClearedInv,
     OneLineOneQuestion, StaleByAtMostOne
<1>. QED
  BY <1>1, CallPreserves, ReaderPreserves, OperatorPreserves DEF Next

LEMMA Invariance == Spec => []IInv
  BY InitIInv, NextIInv, PTL DEF Spec

\* The approver's state is always well typed: in particular the reader never
\* holds a line that was not typed.
THEOREM ApprovalTypeCorrect == Spec => []TypeOK
<1>1. IInv => TypeOK
  BY DEF IInv
<1>. QED
  BY <1>1, Invariance, PTL

\* However many calls queue, a typed line settles one of them, and only a line
\* that says yes approves.
THEOREM OneAnswerEach == Spec => []OneLineOneQuestion
<1>1. IInv => OneLineOneQuestion
  BY DEF IInv
<1>. QED
  BY <1>1, Invariance, PTL

\* Whatever is typed ahead, at most the last line read before a question was
\* cleared can settle it.
THEOREM AtMostOneStaleLine == Spec => []StaleByAtMostOne
<1>1. IInv => StaleByAtMostOne
  BY DEF IInv
<1>. QED
  BY <1>1, Invariance, PTL

--------------------------------------------------------------------------

CallMap(p) == [c \in Calls |-> CallOf(p[c])]
YesMap(p)  == {c \in Calls : p[c] = "yes"}

LEMMA InitImplemented == Init => Abstract!ApproverInit
BY DEF Init, Abstract!ApproverInit, CallOf, Locked

\* Moving one call on changes one entry of the abstract state.
LEMMA GotoMapped ==
    ASSUME TypeOK, NEW c \in Calls, NEW p, pc' = [pc EXCEPT ![c] = p]
    PROVE  /\ CallMap(pc') = [CallMap(pc) EXCEPT ![c] = CallOf(p)]
           /\ p = "yes" => YesMap(pc') = YesMap(pc) \cup {c}
           /\ p # "yes" /\ pc[c] # "yes" => YesMap(pc') = YesMap(pc)
BY DEF TypeOK, CallMap, YesMap

\* A call that returns without a line is a refusal, or was never in Approve.
LEMMA GiveUpRefuses ==
    ASSUME TypeOK, NEW c \in Calls, GiveUp(c), pc[c] \in Locked
    PROVE  Abstract!Refuse(c)
<1>1. pc' = [pc EXCEPT ![c] = "no"]
  BY DEF GiveUp, Goto
<1>2. CallOf("no") = "out" /\ pc[c] # "yes"
  BY DEF CallOf, Locked
<1>3. CallMap(pc') = [CallMap(pc) EXCEPT ![c] = "out"] /\ YesMap(pc') = YesMap(pc)
  BY <1>1, <1>2, GotoMapped
<1>. QED
  BY <1>3 DEF Abstract!Refuse, CallMap, YesMap, CallOf, Locked

\* Every step of the terminal approver is one of the Approver, or none.
LEMMA StepImplemented ==
    IInv /\ [Next]_vars => [Abstract!ApproverNext]_(Abstract!approverVars)
<1>. SUFFICES ASSUME IInv, [Next]_vars
              PROVE  \/ \E c \in Calls : \/ Abstract!Enter(c) \/ Abstract!Ask(c)
                                         \/ Abstract!SayYes(c) \/ Abstract!Refuse(c)
                     \/ CallMap(pc') = CallMap(pc) /\ YesMap(pc') = YesMap(pc)
  BY DEF Abstract!ApproverNext, Abstract!approverVars, CallMap, YesMap
<1>. USE DEF Goto
<1>0. TypeOK /\ ReaderInv
  BY DEF IInv
<1>1. ASSUME NEW c \in Calls, Enter(c) PROVE Abstract!Enter(c)
  <2>1. CallMap(pc') = [CallMap(pc) EXCEPT ![c] = "queued"] /\ YesMap(pc') = YesMap(pc)
    BY <1>0, <1>1, GotoMapped DEF Enter, CallOf
  <2>. QED
    BY <1>1, <2>1 DEF Abstract!Enter, Enter, CallMap, YesMap, CallOf, Locked
<1>2. ASSUME NEW c \in Calls, Lock(c) PROVE Abstract!Ask(c)
  <2>1. CallMap(pc') = [CallMap(pc) EXCEPT ![c] = "asking"] /\ YesMap(pc') = YesMap(pc)
    BY <1>0, <1>2, GotoMapped DEF Lock, CallOf, Locked
  <2>. QED
    BY <1>2, <2>1 DEF Abstract!Ask, Lock, CallMap, YesMap, CallOf
<1>3. ASSUME NEW c \in Calls, Settle(c) PROVE Abstract!SayYes(c) \/ Abstract!Refuse(c)
  <2>1. pc[c] = "asking" /\ pc' = [pc EXCEPT ![c] = answers[buffer]]
    BY <1>3 DEF Settle
  <2>2. CASE answers[buffer] = "yes"
    <3>1. CallMap(pc') = [CallMap(pc) EXCEPT ![c] = "out"]
          /\ YesMap(pc') = YesMap(pc) \cup {c}
      BY <1>0, <2>1, <2>2, GotoMapped DEF CallOf, Locked
    <3>. QED
      BY <2>1, <3>1 DEF Abstract!SayYes, CallMap, YesMap, CallOf, Locked
  <2>3. CASE answers[buffer] = "no"
    <3>1. CallMap(pc') = [CallMap(pc) EXCEPT ![c] = "out"] /\ YesMap(pc') = YesMap(pc)
      BY <1>0, <2>1, <2>3, GotoMapped DEF CallOf, Locked
    <3>. QED
      BY <2>1, <3>1 DEF Abstract!Refuse, CallMap, YesMap, CallOf, Locked
  <2>. QED
    BY <1>0, <1>3, <2>2, <2>3, ReceiveTakes DEF Settle, TypeOK
<1>4. ASSUME NEW c \in Calls,
             NobodyThere(c) \/ PromptFails(c) \/ TimeOut(c) \/ ContextDone(c)
      PROVE  Abstract!Refuse(c)
  BY <1>0, <1>4, GiveUpRefuses DEF NobodyThere, PromptFails, TimeOut, ContextDone, Locked
<1>5. ASSUME NEW c \in Calls,
             Discard(c) \/ DiscardDone(c) \/ Show(c) \/ NotATerminal(c)
      PROVE  CallMap(pc') = CallMap(pc) /\ YesMap(pc') = YesMap(pc)
  BY <1>0, <1>5 DEF Discard, DiscardDone, Show, NotATerminal, GiveUp, callVars, TypeOK,
     CallMap, YesMap, CallOf, Locked
<1>6. ASSUME ReaderStep \/ OperatorStep \/ UNCHANGED vars
      PROVE  UNCHANGED pc
  BY <1>6 DEF ReaderStep, Scan, ScanEnds, Send, OperatorStep, Type, HangUp, Cancel,
     callVars, vars
<1>. QED
  BY <1>1, <1>2, <1>3, <1>4, <1>5, <1>6 DEF Next, CallStep

\* The terminal approver keeps the Approver's promise, however many calls there
\* are and whatever is typed.
THEOREM ApprovalImplementsApprover == Spec => ImplementsApprover
  BY InitImplemented, StepImplemented, Invariance, PTL
     DEF Spec, ImplementsApprover, Abstract!ApproverSpec
==========================================================================
