--------------------------- MODULE StreamProofs --------------------------
(***************************************************************************)
(* Stream's safety properties, for any amount of input and output, any     *)
(* room on the way and any events.                                         *)
(*                                                                         *)
(* The argument follows the chunks.  On the way in, what the command has   *)
(* read, its pipe, the pump's hand, the frames on the wire and what the    *)
(* client has read are consecutive pieces of one numbered stream (PipeInv, *)
(* UpInv), with its end behind it (EndInv); on the way out likewise        *)
(* (CopyInv, DownInv), with Exit behind it (ExitInv).  EarlyInv is why the *)
(* bytes that readStart loses are none: nothing is forwarded before Ready. *)
(***************************************************************************)
EXTENDS Stream, SequenceTheorems, TLAPS

--------------------------------------------------------------------------
(* Numbered chunks on their way *)

\* The frames of kind k in q carry the chunks lo .. hi, each once and in order.
Carries(q, k, lo, hi) ==
    /\ \A i \in 1 .. Len(q) : q[i].kind = k => q[i].chunk \in lo .. hi
    /\ \A n \in lo .. hi : \E i \in 1 .. Len(q) : q[i].kind = k /\ q[i].chunk = n
    /\ \A i, j \in 1 .. Len(q) :
          i < j /\ q[i].kind = k /\ q[j].kind = k => q[i].chunk < q[j].chunk

Has(q, k) == \E i \in 1 .. Len(q) : q[i].kind = k

\* No frame of kind l comes after one of kind k.
After(q, k, l) ==
    \A i, j \in 1 .. Len(q) : i < j /\ q[i].kind = k => q[j].kind # l

\* The chunks in q are those that follow the first n.
Follow(q, n) == \A i \in 1 .. Len(q) : q[i] = n + i

LEMMA CarriesNothing ==
    ASSUME NEW k, NEW n \in Nat
    PROVE  Carries(<<>>, k, n + 1, n)
BY DEF Carries

\* A frame of another kind changes nothing, wherever it is added or taken away.
LEMMA AppendOther ==
    ASSUME NEW F, NEW q \in Seq(F), NEW f \in F, NEW k, NEW lo, NEW hi,
           f.kind # k, Carries(q, k, lo, hi)
    PROVE  Carries(Append(q, f), k, lo, hi)
<1>1. /\ Len(Append(q, f)) = Len(q) + 1
      /\ \A i \in 1 .. Len(q) : Append(q, f)[i] = q[i]
      /\ Append(q, f)[Len(q) + 1] = f
  BY AppendProperties
<1>. QED
  BY <1>1 DEF Carries

LEMMA TailOther ==
    ASSUME NEW F, NEW q \in Seq(F), q # <<>>, NEW k, NEW lo, NEW hi,
           Head(q).kind # k, Carries(q, k, lo, hi)
    PROVE  Carries(Tail(q), k, lo, hi)
<1>1. /\ Len(q) \in Nat /\ Len(Tail(q)) = Len(q) - 1 /\ Len(q) > 0
      /\ Head(q) = q[1] /\ \A i \in 1 .. Len(Tail(q)) : Tail(q)[i] = q[i + 1]
  BY HeadTailProperties
<1>2. \A n \in lo .. hi : \E i \in 1 .. Len(Tail(q)) :
         Tail(q)[i].kind = k /\ Tail(q)[i].chunk = n
  <2> TAKE n \in lo .. hi
  <2>1. PICK i \in 1 .. Len(q) : q[i].kind = k /\ q[i].chunk = n
    BY DEF Carries
  <2>2. i - 1 \in 1 .. Len(Tail(q)) /\ Tail(q)[i - 1] = q[i]
    BY <1>1, <2>1
  <2> QED
    BY <2>1, <2>2
<1>. QED
  BY <1>1, <1>2 DEF Carries

\* The next chunk is added behind, and the first is taken in front.
LEMMA AppendNext ==
    ASSUME NEW F, NEW q \in Seq(F), NEW f \in F, NEW k, NEW lo \in Nat, NEW hi \in Nat,
           f.kind = k, f.chunk = hi + 1, lo <= hi + 1, Carries(q, k, lo, hi)
    PROVE  Carries(Append(q, f), k, lo, hi + 1)
<1>1. /\ Len(Append(q, f)) = Len(q) + 1 /\ Len(q) \in Nat
      /\ \A i \in 1 .. Len(q) : Append(q, f)[i] = q[i]
      /\ Append(q, f)[Len(q) + 1] = f
  BY AppendProperties
<1>2. \A n \in lo .. hi + 1 : \E i \in 1 .. Len(q) + 1 :
         Append(q, f)[i].kind = k /\ Append(q, f)[i].chunk = n
  <2> TAKE n \in lo .. hi + 1
  <2>1. CASE n = hi + 1
    BY <1>1, <2>1
  <2>2. CASE n # hi + 1
    <3>1. n \in lo .. hi
      BY <2>2
    <3>2. PICK i \in 1 .. Len(q) : q[i].kind = k /\ q[i].chunk = n
      BY <3>1 DEF Carries
    <3> QED
      BY <1>1, <3>2
  <2> QED
    BY <2>1, <2>2
<1>3. \A i \in 1 .. Len(q) : q[i].kind = k => q[i].chunk \in lo .. hi
  BY DEF Carries
<1>4. \A i, j \in 1 .. Len(q) + 1 :
         i < j /\ Append(q, f)[i].kind = k /\ Append(q, f)[j].kind = k
           => Append(q, f)[i].chunk < Append(q, f)[j].chunk
  <2> TAKE i, j \in 1 .. Len(q) + 1
  <2>1. CASE j \in 1 .. Len(q)
    BY <1>1, <2>1 DEF Carries
  <2>2. CASE j = Len(q) + 1 /\ i \in 1 .. Len(q)
    BY <1>1, <1>3, <2>2
  <2>3. CASE j = Len(q) + 1 /\ i = Len(q) + 1
    BY <1>1, <2>3
  <2> QED
    BY <1>1, <2>1, <2>2, <2>3
<1>5. \A i \in 1 .. Len(q) + 1 :
         Append(q, f)[i].kind = k => Append(q, f)[i].chunk \in lo .. hi + 1
  <2> TAKE i \in 1 .. Len(q) + 1
  <2>1. CASE i \in 1 .. Len(q)
    BY <1>1, <1>3, <2>1
  <2>2. CASE i = Len(q) + 1
    BY <1>1, <2>2
  <2> QED
    BY <1>1, <2>1, <2>2
<1>. QED
  BY <1>1, <1>2, <1>4, <1>5 DEF Carries

LEMMA TailFirst ==
    ASSUME NEW F, NEW q \in Seq(F), q # <<>>, NEW k, NEW lo \in Nat, NEW hi \in Nat,
           Head(q).kind = k, Carries(q, k, lo, hi)
    PROVE  Head(q).chunk = lo /\ lo <= hi /\ Carries(Tail(q), k, lo + 1, hi)
<1>1. /\ Len(q) \in Nat /\ Len(Tail(q)) = Len(q) - 1 /\ Len(q) > 0
      /\ Head(q) = q[1] /\ \A i \in 1 .. Len(Tail(q)) : Tail(q)[i] = q[i + 1]
  BY HeadTailProperties
<1>2. q[1].chunk \in lo .. hi
  BY <1>1 DEF Carries
<1>3. \A i \in 2 .. Len(q) : q[i].kind = k => q[i].chunk \in lo .. hi /\ q[1].chunk < q[i].chunk
  BY <1>1 DEF Carries
<1>4. PICK m \in 1 .. Len(q) : q[m].kind = k /\ q[m].chunk = lo
  BY <1>2 DEF Carries
<1>5. q[1].chunk = lo
  BY <1>2, <1>3, <1>4
<1>6. \A n \in lo + 1 .. hi : \E i \in 1 .. Len(Tail(q)) :
         Tail(q)[i].kind = k /\ Tail(q)[i].chunk = n
  <2> TAKE n \in lo + 1 .. hi
  <2>1. PICK i \in 1 .. Len(q) : q[i].kind = k /\ q[i].chunk = n
    BY DEF Carries
  <2>2. i - 1 \in 1 .. Len(Tail(q)) /\ Tail(q)[i - 1] = q[i]
    BY <1>1, <1>5, <2>1
  <2> QED
    BY <2>1, <2>2
<1>7. \A i, j \in 1 .. Len(Tail(q)) :
        i < j /\ Tail(q)[i].kind = k /\ Tail(q)[j].kind = k => Tail(q)[i].chunk < Tail(q)[j].chunk
  <2> TAKE i, j \in 1 .. Len(Tail(q))
  <2>1. /\ i + 1 \in 1 .. Len(q) /\ j + 1 \in 1 .. Len(q) /\ i < j => i + 1 < j + 1
        /\ Tail(q)[i] = q[i + 1] /\ Tail(q)[j] = q[j + 1]
    BY <1>1
  <2> QED
    BY <2>1 DEF Carries
<1>. QED
  BY <1>1, <1>2, <1>3, <1>5, <1>6, <1>7 DEF Carries

LEMMA HasAppend ==
    ASSUME NEW F, NEW q \in Seq(F), NEW f \in F, NEW k
    PROVE  Has(Append(q, f), k) <=> Has(q, k) \/ f.kind = k
<1>1. /\ Len(Append(q, f)) = Len(q) + 1 /\ Len(q) \in Nat
      /\ \A i \in 1 .. Len(q) : Append(q, f)[i] = q[i]
      /\ Append(q, f)[Len(q) + 1] = f
  BY AppendProperties
<1>2. ASSUME Has(q, k) PROVE Has(Append(q, f), k)
  <2>1. PICK i \in 1 .. Len(q) : q[i].kind = k
    BY <1>2 DEF Has
  <2>2. i \in 1 .. Len(Append(q, f)) /\ Append(q, f)[i].kind = k
    BY <1>1, <2>1
  <2> QED
    BY <2>2 DEF Has
<1>3. ASSUME f.kind = k PROVE Has(Append(q, f), k)
  <2>1. Len(q) + 1 \in 1 .. Len(Append(q, f)) /\ Append(q, f)[Len(q) + 1].kind = k
    BY <1>1, <1>3
  <2> QED
    BY <2>1 DEF Has
<1>4. ASSUME Has(Append(q, f), k), f.kind # k PROVE Has(q, k)
  <2>1. PICK i \in 1 .. Len(q) + 1 : Append(q, f)[i].kind = k
    BY <1>1, <1>4 DEF Has
  <2>2. i \in 1 .. Len(q) /\ q[i].kind = k
    BY <1>1, <1>4, <2>1
  <2> QED
    BY <2>2 DEF Has
<1>. QED
  BY <1>2, <1>3, <1>4

LEMMA HasTail ==
    ASSUME NEW F, NEW q \in Seq(F), q # <<>>, NEW k, Has(Tail(q), k)
    PROVE  Has(q, k)
<1>1. Len(q) \in Nat /\ \A i \in 1 .. Len(Tail(q)) : i + 1 \in 1 .. Len(q) /\ Tail(q)[i] = q[i + 1]
  BY HeadTailProperties
<1>. QED
  BY <1>1 DEF Has

LEMMA AfterAppend ==
    ASSUME NEW F, NEW q \in Seq(F), NEW f \in F, NEW k, NEW l,
           After(q, k, l), f.kind = l => ~Has(q, k)
    PROVE  After(Append(q, f), k, l)
<1>1. /\ Len(Append(q, f)) = Len(q) + 1 /\ Len(q) \in Nat
      /\ \A i \in 1 .. Len(q) : Append(q, f)[i] = q[i]
      /\ Append(q, f)[Len(q) + 1] = f
  BY AppendProperties
<1>2. ASSUME NEW i \in 1 .. Len(q) + 1, NEW j \in 1 .. Len(q) + 1,
             i < j, Append(q, f)[i].kind = k
      PROVE  Append(q, f)[j].kind # l
  <2>1. i \in 1 .. Len(q) /\ q[i].kind = k
    BY <1>1, <1>2
  <2>2. CASE j = Len(q) + 1
    BY <1>1, <2>1, <2>2 DEF Has
  <2>3. CASE j \in 1 .. Len(q)
    BY <1>1, <1>2, <2>1, <2>3 DEF After
  <2> QED
    BY <1>1, <2>2, <2>3
<1>. QED
  BY <1>1, <1>2 DEF After

LEMMA AfterTail ==
    ASSUME NEW F, NEW q \in Seq(F), q # <<>>, NEW k, NEW l, After(q, k, l)
    PROVE  /\ After(Tail(q), k, l)
           /\ Head(q).kind = k => ~Has(Tail(q), l)
<1>1. /\ Len(q) \in Nat /\ 1 \in 1 .. Len(q) /\ Head(q) = q[1]
      /\ \A i \in 1 .. Len(Tail(q)) : i + 1 \in 1 .. Len(q) /\ 1 < i + 1 /\ Tail(q)[i] = q[i + 1]
  BY HeadTailProperties
<1>2. ASSUME NEW i \in 1 .. Len(Tail(q)), NEW j \in 1 .. Len(Tail(q)), i < j, Tail(q)[i].kind = k
      PROVE  Tail(q)[j].kind # l
  <2>1. i + 1 < j + 1 /\ q[i + 1].kind = k /\ q[j + 1] = Tail(q)[j]
    BY <1>1, <1>2
  <2> QED
    BY <1>1, <2>1 DEF After
<1>3. Head(q).kind = k => ~Has(Tail(q), l)
  BY <1>1 DEF After, Has
<1>. QED
  BY <1>2, <1>3 DEF After

\* What carries nothing has no frame of the kind, and the other way round.
LEMMA CarriesNone ==
    ASSUME NEW F, NEW q \in Seq(F), NEW k, NEW lo \in Nat, NEW hi \in Nat,
           Carries(q, k, lo, hi), ~Has(q, k)
    PROVE  hi < lo
BY DEF Carries, Has

LEMMA FollowAppend ==
    ASSUME NEW q \in Seq(Nat), NEW n \in Nat, Follow(q, n)
    PROVE  Follow(Append(q, n + Len(q) + 1), n)
BY DEF Follow

LEMMA FollowTail ==
    ASSUME NEW q \in Seq(Nat), NEW n \in Nat, q # <<>>, Follow(q, n)
    PROVE  Head(q) = n + 1 /\ Follow(Tail(q), n + 1)
BY DEF Follow

LEMMA UptoGrows ==
    ASSUME NEW n \in Nat
    PROVE  /\ Upto(n) \in Seq(Nat) /\ Len(Upto(n)) = n
           /\ Append(Upto(n), n + 1) = Upto(n + 1)
<1>1. Upto(n) \in Seq(Nat) /\ Len(Upto(n)) = n
  BY DEF Upto
<1>2. Upto(n + 1) \in Seq(Nat) /\ Len(Upto(n + 1)) = n + 1
  BY DEF Upto
<1>3. Append(Upto(n), n + 1) \in Seq(Nat) /\ Len(Append(Upto(n), n + 1)) = n + 1
  BY <1>1
<1>4. \A i \in 1 .. n + 1 : Append(Upto(n), n + 1)[i] = Upto(n + 1)[i]
  BY <1>1 DEF Upto
<1>. QED
  BY <1>1, <1>2, <1>3, <1>4, SeqEqual

--------------------------------------------------------------------------
(* The invariant *)

UpFrames   == [kind : FrameKinds, chunk : 0 .. MaxIn]
DownFrames == [kind : FrameKinds, chunk : 0 .. MaxOut]

\* Before the server has said that it is ready.
Early == {"opening", "authorizing", "asking", "readying"}

\* Until then the client forwards nothing and has been sent notices only.
EarlyInv ==
    /\ session = "opening" => up = <<Frame("start", 0)>>
    /\ session \in Early =>
          /\ forward = "off" /\ client \notin {"relaying", "exited"}
          /\ \A i \in 1 .. Len(down) : down[i].kind = "notice"

\* How far the session, its command, its goroutines and its client have come.
PhaseInv ==
    /\ answered <=> child # "none"
    /\ answered => session \in {"running", "exiting", "closing", "closed"}
    /\ session = "running" => answered
    /\ ~answered =>
          /\ pump = "off"
          /\ \A s \in Streams : copier[s] = "off" /\ wrote[s] = 0 /\ output[s] = <<>>
    /\ answered /\ session # "running" =>
          child = "dead" /\ \A s \in Streams : copier[s] = "done"
    /\ session = "closed" => pump \in {"off", "done"}
    /\ client = "waiting" => forward = "off"
    /\ forward = "off" => taken = 0
    /\ forward = "sending" => taken > 0
    /\ forward = "closing" => taken = supply

\* What has reached the command's pipe, what the pump holds, what has been sent.
Piped     == Len(consumed) + Len(pipe)
InHand    == IF pump = "writing" THEN 1 ELSE 0
Forwarded == IF forward = "sending" THEN taken - 1 ELSE taken

\* What has come as far as the command's pipe is a beginning of the client's stdin,
\* and all of it once its end is known.
PipeInv ==
    /\ consumed = Upto(Len(consumed))
    /\ Follow(pipe, Len(consumed))
    /\ Piped <= taken
    /\ pump = "writing" => pumped = Piped + 1
    /\ input = "ended" => Piped = supply
    /\ sawEnd => Len(consumed) = supply

\* The frames on their way carry what follows, as long as someone reads them.
UpInv ==
    ~Closed /\ pump # "done" =>
        /\ Piped + InHand <= Forwarded
        /\ Carries(up, "stdin", Piped + InHand + 1, Forwarded)

\* The end of the client's stdin is announced behind all of it.
EndInv ==
    /\ Has(up, "stdin-close") => forward = "done" /\ (~Closed => taken = supply)
    /\ After(up, "stdin-close", "stdin")

\* What has left the command's pipe, and what of it has been sent.
Moved(s) == wrote[s] - Len(output[s])
Sent(s)  == IF copier[s] = "sending" THEN Moved(s) - 1 ELSE Moved(s)

\* A copy takes what the command writes from the pipe, in order and all of it,
\* unless its client has gone.
CopyInv(s) ==
    /\ tty /\ s = "stderr" => wrote[s] = 0
    /\ Len(output[s]) <= wrote[s] /\ Follow(output[s], Moved(s))
    /\ copier[s] = "sending" => carried[s] = Moved(s) /\ Moved(s) > 0
    /\ copier[s] = "done" => Gone \/ (output[s] = <<>> /\ (child = "dead" \/ (tty /\ s = "stderr")))

\* The frames on their way carry what a client has not shown yet.
DownInv(s) ==
    /\ shown[s] = Upto(Len(shown[s])) /\ Len(shown[s]) <= wrote[s]
    /\ ~Gone => Len(shown[s]) <= Sent(s) /\ Carries(down, s, Len(shown[s]) + 1, Sent(s))
    /\ client = "exited" /\ answered => Len(shown[s]) = wrote[s]

\* The Exit frame is sent when all is over, behind every chunk of output.
ExitInv ==
    /\ Has(down, "exit") \/ client = "exited" => session \in {"closing", "closed"}
    /\ \A s \in Streams : After(down, "exit", s)

IInv ==
    /\ TypeOK /\ EarlyInv /\ PhaseInv
    /\ PipeInv /\ UpInv /\ EndInv
    /\ ExitInv /\ \A s \in Streams : CopyInv(s) /\ DownInv(s)

LEMMA SentIsANumber ==
    ASSUME IInv, NEW s \in Streams
    PROVE  /\ Len(shown[s]) \in Nat /\ wrote[s] \in Nat
           /\ Sent(s) \in Nat /\ Sent(s) <= wrote[s]
<1>1. shown[s] \in Seq(1 .. MaxOut) /\ output[s] \in Seq(1 .. MaxOut) /\ wrote[s] \in Nat
  BY DEF IInv, TypeOK
<1>2. Len(output[s]) <= wrote[s] /\ (copier[s] = "sending" => Moved(s) > 0)
  BY DEF IInv, CopyInv
<1>. QED
  BY <1>1, <1>2 DEF Sent, Moved

\* A frame of another kind is sent to the client, or received by it.
LEMMA OtherSent ==
    ASSUME IInv, NEW s \in Streams, NEW f \in DownFrames, f.kind # s,
           down' = down \/ down' = Append(down, f),
           Sent(s)' = Sent(s), UNCHANGED <<client, answered, shown, wrote>>
    PROVE  DownInv(s)'
<1>1. down \in Seq(DownFrames) /\ DownInv(s)
  BY DEF IInv, TypeOK, DownFrames
<1>2. ASSUME ~Gone PROVE Carries(down', s, Len(shown[s]) + 1, Sent(s))
  BY <1>1, <1>2, AppendOther DEF DownInv
<1>. QED
  BY <1>1, <1>2 DEF DownInv, Gone

LEMMA OtherReceived ==
    ASSUME IInv, NEW s \in Streams, down # <<>>, Head(down).kind # s, down' = Tail(down),
           ~Gone, client' # "exited", shown'[s] = shown[s],
           Sent(s)' = Sent(s), UNCHANGED wrote
    PROVE  DownInv(s)'
<1>1. down \in Seq(DownFrames) /\ DownInv(s)
  BY DEF IInv, TypeOK, DownFrames
<1>2. Carries(down', s, Len(shown[s]) + 1, Sent(s))
  BY <1>1, TailOther DEF DownInv
<1>. QED
  BY <1>1, <1>2 DEF DownInv

LEMMA ExitNotSent ==
    ASSUME IInv, NEW f \in DownFrames, f.kind # "exit",
           down' = down \/ down' = Append(down, f),
           session \notin {"closing", "closed"}, UNCHANGED client
    PROVE  ExitInv'
<1>1. down \in Seq(DownFrames) /\ ~Has(down, "exit") /\ client # "exited"
  BY DEF IInv, TypeOK, DownFrames, ExitInv
<1>2. ~Has(down', "exit")
  BY <1>1, HasAppend
<1>3. \A s \in Streams : After(down', "exit", s)
  BY <1>2 DEF Has, After
<1>. QED
  BY <1>1, <1>2, <1>3 DEF ExitInv

LEMMA ExitAfterTail ==
    ASSUME IInv, down # <<>>, down' = Tail(down), UNCHANGED session,
           client' = "exited" => Has(down, "exit") \/ client = "exited"
    PROVE  ExitInv'
<1>1. down \in Seq(DownFrames)
  BY DEF IInv, TypeOK, DownFrames
<1>2. Has(down', "exit") => Has(down, "exit")
  BY <1>1, HasTail
<1>3. \A s \in Streams : After(down', "exit", s)
  BY <1>1, AfterTail DEF IInv, ExitInv
<1>. QED
  BY <1>2, <1>3 DEF IInv, ExitInv

--------------------------------------------------------------------------
\* Every step keeps the types: what moves between queues is moved with its type.
LEMMA TypeOKStep == ASSUME IInv, Next PROVE TypeOK'
<1> USE StreamAssumption
<1>0. TypeOK
  BY DEF IInv
<1> USE <1>0
<1>1. ASSUME ReadStart PROVE TypeOK'
  <2>1. up = <<Frame("start", 0)>>
    BY <1>1 DEF ReadStart, IInv, EarlyInv
  <2>2. PICK k \in 1 .. Len(up) : up' = SubSeq(up, k + 1, Len(up))
    BY <1>1 DEF ReadStart
  <2>3. up' = <<>>
    BY <2>1, <2>2
  <2>4. up' \in Seq(UpFrames) /\ Len(up') <= Wire
    BY <2>3, EmptySeq
  <2>5. session' = "authorizing" /\ UNCHANGED <<answered, down>> /\ sessionOnly
    BY <1>1 DEF ReadStart
  <2> QED
    BY <2>4, <2>5 DEF UpFrames, sessionOnly, TypeOK, fixed, clientVars, pumpVars,
       copyVars, childVars, pipeVars
<1>2. ASSUME AskOperator PROVE TypeOK'
  <2>1. down \in Seq(DownFrames) /\ Len(down) <= Wire /\ Frame("notice", 0) \in DownFrames
    BY DEF IInv, TypeOK, DownFrames, Frame, FrameKinds
  <2>2. down' = down \/ (down' = Append(down, Frame("notice", 0)) /\ Len(down) < Wire)
    BY <1>2 DEF AskOperator, SendDown
  <2>3. down' \in Seq(DownFrames) /\ Len(down') <= Wire
    BY <2>1, <2>2
  <2> QED
    BY <1>2, <2>3 DEF AskOperator, sessionOnly, TypeOK, DownFrames, fixed, clientVars,
       pumpVars, copyVars, childVars, pipeVars
<1>3. ASSUME PumpTakes PROVE TypeOK'
  <2>1. /\ up \in Seq(UpFrames) /\ Len(up) <= Wire /\ up # <<>>
        /\ up' = Tail(up) /\ pumped' = Head(up).chunk
    BY <1>3 DEF PumpTakes, PumpReads, IInv, TypeOK, UpFrames
  <2>2. up' \in Seq(UpFrames) /\ Len(up') <= Wire /\ Head(up) \in UpFrames
    BY <2>1, HeadTailProperties
  <2>3. pumped' \in 0 .. MaxIn
    BY <2>1, <2>2 DEF UpFrames
  <2> QED
    BY <1>3, <2>2, <2>3 DEF PumpTakes, pumpOnly, TypeOK, UpFrames, fixed, clientVars, copyVars
<1>4. ASSUME PumpWrites PROVE TypeOK'
  <2>1. pumped = Len(consumed) + Len(pipe) + 1 /\ pumped \in 0 .. MaxIn /\ Len(consumed) \in Nat
    BY <1>4 DEF PumpWrites, IInv, TypeOK, PipeInv, Piped
  <2>2. pipe \in Seq(1 .. MaxIn) /\ Len(pipe) < Room
    BY <1>4 DEF PumpWrites, IInv, TypeOK
  <2>3. pumped \in 1 .. MaxIn
    BY <2>1, <2>2
  <2>4. pipe' \in Seq(1 .. MaxIn) /\ Len(pipe') <= Room
    <3>1. pipe' = Append(pipe, pumped)
      BY <1>4 DEF PumpWrites
    <3>2. Len(pipe) \in Nat /\ Room \in Nat
      BY <2>2
    <3> QED
      BY <2>2, <2>3, <3>1, <3>2, AppendProperties
  <2>5. pump' = "reading" /\ UNCHANGED <<pumped, up, input>>
    BY <1>4 DEF PumpWrites
  <2> QED
    BY <1>4, <2>4, <2>5 DEF PumpWrites, pumpOnly, TypeOK, fixed, clientVars, copyVars
<1>5. ASSUME PumpCloses PROVE TypeOK'
  <2>1. up \in Seq(UpFrames) /\ Len(up) <= Wire /\ up # <<>> /\ up' = Tail(up)
    BY <1>5 DEF PumpCloses, PumpReads, TypeOK, UpFrames
  <2>2. up' \in Seq(UpFrames) /\ Len(up') <= Wire
    BY <2>1, HeadTailProperties
  <2>3. input' \in {"open", "ended", "shut"} /\ UNCHANGED <<pump, pumped, pipe>> /\ pumpOnly
    BY <1>5 DEF PumpCloses, TypeOK
  <2> QED
    BY <2>2, <2>3 DEF pumpOnly, TypeOK, UpFrames, fixed, clientVars, copyVars
<1>6. ASSUME CommandReads PROVE TypeOK'
  <2>1. pipe \in Seq(1 .. MaxIn) /\ Len(pipe) <= Room /\ consumed \in Seq(1 .. MaxIn)
    BY DEF IInv, TypeOK
  <2>2. /\ UNCHANGED <<child, wrote, input, output>> /\ childOnly /\ sawEnd' \in BOOLEAN
        /\ \/ pipe # <<>> /\ consumed' = Append(consumed, Head(pipe)) /\ pipe' = Tail(pipe)
           \/ consumed' = consumed /\ pipe' = pipe
    BY <1>6 DEF CommandReads, IInv, TypeOK
  <2>3. CASE pipe # <<>> /\ consumed' = Append(consumed, Head(pipe)) /\ pipe' = Tail(pipe)
    <3>1. /\ Head(pipe) \in 1 .. MaxIn /\ Tail(pipe) \in Seq(1 .. MaxIn)
          /\ Len(Tail(pipe)) = Len(pipe) - 1 /\ Len(pipe) \in Nat
      BY <2>1, <2>3, HeadTailProperties, LenProperties
    <3>2. pipe' \in Seq(1 .. MaxIn) /\ Len(pipe') <= Room /\ consumed' \in Seq(1 .. MaxIn)
      BY <2>1, <2>3, <3>1
    <3> QED
      BY SMTT(30), <2>2, <3>2 DEF childOnly, IInv, TypeOK, fixed, clientVars, serverVars,
         pumpVars, copyVars
  <2>4. CASE consumed' = consumed /\ pipe' = pipe
    BY <2>2, <2>4 DEF childOnly, IInv, TypeOK, fixed, clientVars, serverVars, pumpVars,
       copyVars
  <2> QED
    BY <2>2, <2>3, <2>4
<1>7. ASSUME NEW s \in Streams, RelayOutput(s) PROVE TypeOK'
  <2>1. down \in Seq(DownFrames) /\ Len(down) <= Wire /\ down # <<>> /\ down' = Tail(down) /\ Head(down).kind = s
    BY <1>7 DEF RelayOutput, Receives, IInv, TypeOK, DownFrames
  <2>2. down' \in Seq(DownFrames) /\ Len(down') <= Wire /\ Head(down) \in DownFrames
    BY <2>1, HeadTailProperties
  <2>3. Carries(down, s, Len(shown[s]) + 1, Sent(s))
    BY <1>7 DEF RelayOutput, Receives, IInv, DownInv
  <2>4. Len(shown[s]) \in Nat /\ Sent(s) \in Nat
    BY SentIsANumber
  <2>5. Head(down).chunk = Len(shown[s]) + 1
    BY <2>1, <2>3, <2>4, TailFirst
  <2>6. Head(down).chunk \in 1 .. MaxOut
    BY <2>2, <2>4, <2>5 DEF DownFrames
  <2>7. shown' \in [Streams -> Seq(1 .. MaxOut)]
    BY <1>7, <2>6 DEF RelayOutput, IInv, TypeOK
  <2>8. UNCHANGED <<client, forward, taken, interrupt, up>> /\ clientOnly
    BY <1>7 DEF RelayOutput
  <2> QED
    BY SMTT(30), <2>2, <2>7, <2>8 DEF clientOnly, TypeOK, DownFrames, fixed, serverVars, pumpVars,
       copyVars, childVars, pipeVars
<1>8. ASSUME NEW s \in Streams, CopyTakes(s) PROVE TypeOK'
  <2>1. output[s] \in Seq(1 .. MaxOut) /\ output[s] # <<>>
    BY <1>8 DEF CopyTakes, IInv, TypeOK
  <2>2. Head(output[s]) \in 1 .. MaxOut /\ Tail(output[s]) \in Seq(1 .. MaxOut)
    BY <2>1, HeadTailProperties
  <2>3. output' \in [Streams -> Seq(1 .. MaxOut)]
    BY <1>8, <2>2 DEF CopyTakes, IInv, TypeOK
  <2>4. carried' \in [Streams -> 0 .. MaxOut]
    BY <1>8, <2>2, SMTT(30) DEF CopyTakes, IInv, TypeOK
  <2>5. copier' \in [Streams -> {"off", "copying", "sending", "done"}]
    BY <1>8 DEF CopyTakes, IInv, TypeOK
  <2>6. UNCHANGED down /\ copyOnly
    BY <1>8 DEF CopyTakes
  <2> QED
    BY SMTT(30), <2>3, <2>4, <2>5, <2>6 DEF copyOnly, TypeOK, fixed, clientVars, serverVars,
       pumpVars, childVars
<1>9. ASSUME NEW s \in Streams, CommandWrites(s) PROVE TypeOK'
  <2>1. wrote' \in [Streams -> 0 .. MaxOut] /\ wrote'[s] \in 1 .. MaxOut
    BY <1>9 DEF CommandWrites, IInv, TypeOK
  <2>2. Append(output[s], wrote'[s]) \in Seq(1 .. MaxOut)
    BY <1>9, <2>1 DEF IInv, TypeOK
  <2>3. output' \in [Streams -> Seq(1 .. MaxOut)]
    BY <1>9, <2>2 DEF CommandWrites, IInv, TypeOK
  <2> QED
    BY SMTT(30), <1>9, <2>1, <2>3 DEF CommandWrites, childOnly, TypeOK, fixed, clientVars,
       serverVars, pumpVars, copyVars
<1> USE DEF TypeOK, vars, fixed, clientVars, serverVars, pumpVars, copyVars, childVars,
    pipeVars, clientOnly, sessionOnly, copyOnly, pumpOnly, childOnly, SendUp, SendDown,
    Receives, PumpReads, Closed, Gone, Frame, FrameKinds, Streams
<1>10. ASSUME StartForwarding PROVE TypeOK'
  BY <1>10 DEF StartForwarding
<1>11. ASSUME RelayNotice PROVE TypeOK'
  BY <1>11 DEF RelayNotice
<1>12. ASSUME RelayExit PROVE TypeOK'
  BY <1>12 DEF RelayExit
<1>13. ASSUME ReadFails PROVE TypeOK'
  BY <1>13 DEF ReadFails
<1>14. ASSUME Quit PROVE TypeOK'
  BY <1>14 DEF Quit
<1>15. ASSUME ForwardRead PROVE TypeOK'
  BY <1>15 DEF ForwardRead
<1>16. ASSUME ForwardSend PROVE TypeOK'
  BY SMTT(30), <1>16 DEF ForwardSend
<1>17. ASSUME ForwardEnd PROVE TypeOK'
  BY <1>17 DEF ForwardEnd
<1>18. ASSUME ForwardClose PROVE TypeOK'
  BY <1>18 DEF ForwardClose
<1>19. ASSUME ForwardTooLate PROVE TypeOK'
  BY <1>19 DEF ForwardTooLate
<1>20. ASSUME ForwardFails PROVE TypeOK'
  BY <1>20 DEF ForwardFails
<1>21. ASSUME Interrupt PROVE TypeOK'
  BY <1>21 DEF Interrupt
<1>22. ASSUME ForwardSignal PROVE TypeOK'
  BY <1>22 DEF ForwardSignal
<1>23. ASSUME SendReady PROVE TypeOK'
  BY <1>23 DEF SendReady
<1>24. ASSUME ReadyFails PROVE TypeOK'
  BY <1>24 DEF ReadyFails
<1>25. ASSUME StartCommand PROVE TypeOK'
  BY <1>25 DEF StartCommand
<1>26. ASSUME StartFails PROVE TypeOK'
  BY <1>26 DEF StartFails
<1>27. ASSUME Reap PROVE TypeOK'
  BY <1>27 DEF Reap
<1>28. ASSUME SendExit PROVE TypeOK'
  BY <1>28 DEF SendExit
<1>29. ASSUME ExitFails PROVE TypeOK'
  BY <1>29 DEF ExitFails
<1>30. ASSUME Close PROVE TypeOK'
  BY <1>30 DEF Close
<1>31. ASSUME PumpSignals PROVE TypeOK'
  BY <1>31 DEF PumpSignals
<1>32. ASSUME PumpEnds PROVE TypeOK'
  BY <1>32 DEF PumpEnds
<1>33. ASSUME CommandShutsInput PROVE TypeOK'
  BY <1>33 DEF CommandShutsInput
<1>34. ASSUME CommandExits PROVE TypeOK'
  BY <1>34 DEF CommandExits
<1>35. ASSUME NEW s \in Streams, CopySends(s) PROVE TypeOK'
  BY SMTT(30), <1>35 DEF CopySends
<1>36. ASSUME NEW s \in Streams, CopyEnds(s) PROVE TypeOK'
  BY SMTT(30), <1>36 DEF CopyEnds
<1>37. ASSUME NEW to \in {"readying", "exiting"}, Decide(to) PROVE TypeOK'
  BY <1>37 DEF Decide
<1> QED
  BY <1>1, <1>2, <1>3, <1>4, <1>5, <1>6, <1>7, <1>8, <1>9, <1>10, <1>11, <1>12, <1>13,
     <1>14, <1>15, <1>16, <1>17, <1>18, <1>19, <1>20, <1>21, <1>22, <1>23, <1>24, <1>25,
     <1>26, <1>27, <1>28, <1>29, <1>30, <1>31, <1>32, <1>33, <1>34, <1>35, <1>36, <1>37
     DEF Next, ClientStep, ForwarderStep, SessionStep, AuthorizeStep, CopyStep, PumpStep

\* Nothing but notices goes out before Ready, and nothing is forwarded.
LEMMA EarlyInvStep == ASSUME IInv, Next PROVE EarlyInv'
<1> USE StreamAssumption
<1>1. ASSUME StartForwarding PROVE EarlyInv'
  <2>1. down \in Seq(DownFrames) /\ down # <<>> /\ Head(down).kind # "notice"
    BY <1>1 DEF StartForwarding, Receives, IInv, TypeOK, DownFrames
  <2>2. down[1] = Head(down) /\ 1 \in 1 .. Len(down)
    BY <2>1
  <2>3. session \notin Early /\ session' = session
    BY <1>1, <2>1, <2>2 DEF StartForwarding, clientOnly, serverVars, IInv, EarlyInv
  <2> QED
    BY <2>3 DEF EarlyInv, Early
<1>2. ASSUME RelayExit PROVE EarlyInv'
  <2>1. down \in Seq(DownFrames) /\ down # <<>> /\ Head(down).kind # "notice"
    BY <1>2 DEF RelayExit, Receives, IInv, TypeOK, DownFrames
  <2>2. down[1] = Head(down) /\ 1 \in 1 .. Len(down)
    BY <2>1
  <2>3. session \notin Early /\ session' = session
    BY <1>2, <2>1, <2>2 DEF RelayExit, clientOnly, serverVars, IInv, EarlyInv
  <2> QED
    BY <2>3 DEF EarlyInv, Early
<1>3. ASSUME AskOperator PROVE EarlyInv'
  <2>1. /\ forward = "off" /\ client \notin {"relaying", "exited"}
        /\ \A i \in 1 .. Len(down) : down[i].kind = "notice"
    BY <1>3 DEF AskOperator, IInv, EarlyInv, Early
  <2>2. down \in Seq(DownFrames) /\ Frame("notice", 0) \in DownFrames
    BY DEF IInv, TypeOK, DownFrames, Frame, FrameKinds
  <2>3. CASE down' = Append(down, Frame("notice", 0))
    <3>1. \A i \in 1 .. Len(down') : down'[i].kind = "notice"
      BY <2>1, <2>2, <2>3, AppendProperties DEF Frame
    <3> QED
      BY <1>3, <2>1, <3>1 DEF AskOperator, sessionOnly, clientVars, EarlyInv, Early
  <2>4. CASE down' = down
    BY <1>3, <2>1, <2>4 DEF AskOperator, sessionOnly, clientVars, EarlyInv, Early
  <2> QED
    BY <1>3, <2>3, <2>4 DEF AskOperator, SendDown
<1>4. ASSUME SendReady PROVE EarlyInv'
  <2>1. session' = "starting" /\ session # "opening"
    BY <1>4 DEF SendReady
  <2> QED
    BY <2>1 DEF EarlyInv, Early
<1>5. ASSUME PumpTakes PROVE EarlyInv'
  <2>1. session \notin Early /\ session' = session
    BY <1>5 DEF PumpTakes, PumpReads, pumpOnly, IInv, PhaseInv, Early
  <2> QED
    BY <2>1 DEF EarlyInv, Early
<1>6. ASSUME NEW s \in Streams, CopySends(s) PROVE EarlyInv'
  <2>1. session \notin Early /\ session' = session
    BY <1>6 DEF CopySends, copyOnly, serverVars, IInv, PhaseInv, Early
  <2> QED
    BY <2>1 DEF EarlyInv, Early
<1> USE DEF IInv, TypeOK, vars, fixed, clientVars, serverVars, pumpVars, copyVars,
    childVars, pipeVars, clientOnly, sessionOnly, copyOnly, pumpOnly, childOnly, SendUp,
    SendDown, Receives, PumpReads, Closed, Gone, Frame, FrameKinds, Streams, EarlyInv, Early
<1>7. ASSUME RelayNotice PROVE EarlyInv'
  BY <1>7 DEF RelayNotice
<1>8. ASSUME ReadFails PROVE EarlyInv'
  BY <1>8 DEF ReadFails
<1>9. ASSUME Quit PROVE EarlyInv'
  BY <1>9 DEF Quit
<1>10. ASSUME ForwardRead PROVE EarlyInv'
  BY <1>10 DEF ForwardRead
<1>11. ASSUME ForwardSend PROVE EarlyInv'
  BY <1>11 DEF ForwardSend
<1>12. ASSUME ForwardEnd PROVE EarlyInv'
  BY <1>12 DEF ForwardEnd
<1>13. ASSUME ForwardClose PROVE EarlyInv'
  BY <1>13 DEF ForwardClose
<1>14. ASSUME ForwardTooLate PROVE EarlyInv'
  BY <1>14 DEF ForwardTooLate
<1>15. ASSUME ForwardFails PROVE EarlyInv'
  BY <1>15 DEF ForwardFails
<1>16. ASSUME Interrupt PROVE EarlyInv'
  BY <1>16 DEF Interrupt
<1>17. ASSUME ForwardSignal PROVE EarlyInv'
  BY <1>17 DEF ForwardSignal
<1>18. ASSUME ReadStart PROVE EarlyInv'
  BY <1>18 DEF ReadStart
<1>19. ASSUME ReadyFails PROVE EarlyInv'
  BY <1>19 DEF ReadyFails
<1>20. ASSUME StartCommand PROVE EarlyInv'
  BY <1>20 DEF StartCommand
<1>21. ASSUME StartFails PROVE EarlyInv'
  BY <1>21 DEF StartFails
<1>22. ASSUME Reap PROVE EarlyInv'
  BY <1>22 DEF Reap
<1>23. ASSUME SendExit PROVE EarlyInv'
  BY <1>23 DEF SendExit
<1>24. ASSUME ExitFails PROVE EarlyInv'
  BY <1>24 DEF ExitFails
<1>25. ASSUME Close PROVE EarlyInv'
  BY <1>25 DEF Close
<1>26. ASSUME PumpWrites PROVE EarlyInv'
  BY <1>26 DEF PumpWrites
<1>27. ASSUME PumpCloses PROVE EarlyInv'
  BY SMTT(30), <1>27 DEF PumpCloses
<1>28. ASSUME PumpSignals PROVE EarlyInv'
  BY SMTT(30), <1>28 DEF PumpSignals
<1>29. ASSUME PumpEnds PROVE EarlyInv'
  BY <1>29 DEF PumpEnds
<1>30. ASSUME CommandReads PROVE EarlyInv'
  BY <1>30 DEF CommandReads
<1>31. ASSUME CommandShutsInput PROVE EarlyInv'
  BY <1>31 DEF CommandShutsInput
<1>32. ASSUME CommandExits PROVE EarlyInv'
  BY <1>32 DEF CommandExits
<1>33. ASSUME NEW s \in Streams, RelayOutput(s) PROVE EarlyInv'
  BY <1>33 DEF RelayOutput
<1>34. ASSUME NEW s \in Streams, CopyTakes(s) PROVE EarlyInv'
  BY <1>34 DEF CopyTakes
<1>35. ASSUME NEW s \in Streams, CopyEnds(s) PROVE EarlyInv'
  BY <1>35 DEF CopyEnds
<1>36. ASSUME NEW s \in Streams, CommandWrites(s) PROVE EarlyInv'
  BY <1>36 DEF CommandWrites
<1>37. ASSUME NEW to \in {"readying", "exiting"}, Decide(to) PROVE EarlyInv'
  BY <1>37 DEF Decide
<1> QED
  BY <1>1, <1>2, <1>3, <1>4, <1>5, <1>6, <1>7, <1>8, <1>9, <1>10, <1>11, <1>12, <1>13,
     <1>14, <1>15, <1>16, <1>17, <1>18, <1>19, <1>20, <1>21, <1>22, <1>23, <1>24, <1>25,
     <1>26, <1>27, <1>28, <1>29, <1>30, <1>31, <1>32, <1>33, <1>34, <1>35, <1>36, <1>37
     DEF Next, ClientStep, ForwarderStep, SessionStep, AuthorizeStep, CopyStep, PumpStep

\* The session, its command, the goroutines and the client keep step.
LEMMA PhaseInvStep == ASSUME IInv, Next PROVE PhaseInv'
<1> USE StreamAssumption
<1> USE DEF IInv, TypeOK, vars, fixed, clientVars, serverVars, pumpVars, copyVars,
    childVars, pipeVars, clientOnly, sessionOnly, copyOnly, pumpOnly, childOnly, SendUp,
    SendDown, Receives, PumpReads, Closed, Gone, Frame, FrameKinds, Streams, PhaseInv
<1>1. ASSUME StartForwarding PROVE PhaseInv'
  BY <1>1 DEF StartForwarding
<1>2. ASSUME RelayNotice PROVE PhaseInv'
  BY <1>2 DEF RelayNotice
<1>3. ASSUME RelayExit PROVE PhaseInv'
  BY <1>3 DEF RelayExit
<1>4. ASSUME ReadFails PROVE PhaseInv'
  BY <1>4 DEF ReadFails
<1>5. ASSUME Quit PROVE PhaseInv'
  BY <1>5 DEF Quit
<1>6. ASSUME ForwardRead PROVE PhaseInv'
  BY <1>6 DEF ForwardRead
<1>7. ASSUME ForwardSend PROVE PhaseInv'
  BY <1>7 DEF ForwardSend
<1>8. ASSUME ForwardEnd PROVE PhaseInv'
  BY <1>8 DEF ForwardEnd
<1>9. ASSUME ForwardClose PROVE PhaseInv'
  BY <1>9 DEF ForwardClose
<1>10. ASSUME ForwardTooLate PROVE PhaseInv'
  BY <1>10 DEF ForwardTooLate
<1>11. ASSUME ForwardFails PROVE PhaseInv'
  BY <1>11 DEF ForwardFails
<1>12. ASSUME Interrupt PROVE PhaseInv'
  BY <1>12 DEF Interrupt
<1>13. ASSUME ForwardSignal PROVE PhaseInv'
  BY <1>13 DEF ForwardSignal
<1>14. ASSUME ReadStart PROVE PhaseInv'
  BY <1>14 DEF ReadStart
<1>15. ASSUME AskOperator PROVE PhaseInv'
  BY <1>15 DEF AskOperator
<1>16. ASSUME SendReady PROVE PhaseInv'
  BY <1>16 DEF SendReady
<1>17. ASSUME ReadyFails PROVE PhaseInv'
  BY <1>17 DEF ReadyFails
<1>18. ASSUME StartCommand PROVE PhaseInv'
  BY <1>18 DEF StartCommand
<1>19. ASSUME StartFails PROVE PhaseInv'
  BY <1>19 DEF StartFails
<1>20. ASSUME Reap PROVE PhaseInv'
  BY <1>20 DEF Reap
<1>21. ASSUME SendExit PROVE PhaseInv'
  BY <1>21 DEF SendExit
<1>22. ASSUME ExitFails PROVE PhaseInv'
  BY <1>22 DEF ExitFails
<1>23. ASSUME Close PROVE PhaseInv'
  BY <1>23 DEF Close
<1>24. ASSUME PumpTakes PROVE PhaseInv'
  BY <1>24 DEF PumpTakes
<1>25. ASSUME PumpWrites PROVE PhaseInv'
  BY <1>25 DEF PumpWrites
<1>26. ASSUME PumpCloses PROVE PhaseInv'
  BY <1>26 DEF PumpCloses
<1>27. ASSUME PumpSignals PROVE PhaseInv'
  BY <1>27 DEF PumpSignals
<1>28. ASSUME PumpEnds PROVE PhaseInv'
  BY <1>28 DEF PumpEnds
<1>29. ASSUME CommandReads PROVE PhaseInv'
  BY <1>29 DEF CommandReads
<1>30. ASSUME CommandShutsInput PROVE PhaseInv'
  BY <1>30 DEF CommandShutsInput
<1>31. ASSUME CommandExits PROVE PhaseInv'
  BY <1>31 DEF CommandExits
<1>32. ASSUME NEW s \in Streams, RelayOutput(s) PROVE PhaseInv'
  BY <1>32 DEF RelayOutput
<1>33. ASSUME NEW s \in Streams, CopyTakes(s) PROVE PhaseInv'
  BY <1>33 DEF CopyTakes
<1>34. ASSUME NEW s \in Streams, CopySends(s) PROVE PhaseInv'
  BY <1>34 DEF CopySends
<1>35. ASSUME NEW s \in Streams, CopyEnds(s) PROVE PhaseInv'
  BY <1>35 DEF CopyEnds
<1>36. ASSUME NEW s \in Streams, CommandWrites(s) PROVE PhaseInv'
  BY <1>36 DEF CommandWrites
<1>37. ASSUME NEW to \in {"readying", "exiting"}, Decide(to) PROVE PhaseInv'
  BY <1>37 DEF Decide
<1> QED
  BY <1>1, <1>2, <1>3, <1>4, <1>5, <1>6, <1>7, <1>8, <1>9, <1>10, <1>11, <1>12, <1>13,
     <1>14, <1>15, <1>16, <1>17, <1>18, <1>19, <1>20, <1>21, <1>22, <1>23, <1>24, <1>25,
     <1>26, <1>27, <1>28, <1>29, <1>30, <1>31, <1>32, <1>33, <1>34, <1>35, <1>36, <1>37
     DEF Next, ClientStep, ForwarderStep, SessionStep, AuthorizeStep, CopyStep, PumpStep

\* The command's stdin stays a beginning of its caller's.
LEMMA PipeInvStep == ASSUME IInv, Next PROVE PipeInv'
<1> USE StreamAssumption
<1>1. ASSUME PumpTakes PROVE PipeInv'
  <2>1. /\ up \in Seq(UpFrames) /\ up # <<>> /\ pumped' = Head(up).chunk /\ Head(up).kind = "stdin"
        /\ UNCHANGED <<consumed, pipe, taken, input, sawEnd, supply>>
    BY <1>1 DEF PumpTakes, PumpReads, pumpOnly, clientVars, fixed, IInv, TypeOK, UpFrames
  <2>2. Carries(up, "stdin", Piped + 1, Forwarded) /\ Piped \in Nat /\ Forwarded \in Nat
    BY <1>1 DEF PumpTakes, PumpReads, IInv, TypeOK, PhaseInv, UpInv, InHand, Piped,
       Forwarded, Closed
  <2>3. pumped' = Piped + 1
    BY <2>1, <2>2, TailFirst
  <2> QED
    BY <2>1, <2>3 DEF IInv, PipeInv, Piped
<1>2. ASSUME PumpWrites PROVE PipeInv'
  <2>1. /\ pipe \in Seq(Nat) /\ Len(consumed) \in Nat /\ pump = "writing" /\ pump' = "reading"
        /\ UNCHANGED <<consumed, taken, input, sawEnd, supply, pumped>> /\ input # "shut"
        /\ taken \in 0 .. supply /\ supply \in Nat
    BY <1>2 DEF PumpWrites, pumpOnly, clientVars, fixed, IInv, TypeOK
  <2>2. pipe' = Append(pipe, Len(consumed) + Len(pipe) + 1)
    BY <1>2 DEF PumpWrites, IInv, PipeInv, Piped
  <2>3. Follow(pipe', Len(consumed)) /\ Piped' = Piped + 1
    BY <2>1, <2>2, FollowAppend DEF IInv, PipeInv, Piped
  <2>4. Piped + 1 <= Forwarded /\ Forwarded <= taken
    BY <2>1 DEF IInv, TypeOK, PhaseInv, UpInv, InHand, Forwarded, Closed
  <2>5. Len(pipe) \in Nat /\ Len(consumed) <= Piped /\ Piped \in Nat /\ Forwarded \in Int
    BY <2>1 DEF Piped, Forwarded
  <2>6. Piped # supply /\ Len(consumed) # supply /\ Piped + 1 <= taken
    BY <2>1, <2>4, <2>5
  <2>7. input # "ended" /\ ~sawEnd
    BY <2>6 DEF IInv, PipeInv
  <2> QED
    BY <2>1, <2>3, <2>6, <2>7 DEF IInv, PipeInv
<1>3. ASSUME PumpCloses PROVE PipeInv'
  <2>1. /\ up \in Seq(UpFrames) /\ up # <<>> /\ Head(up).kind = "stdin-close" /\ pump = "reading"
        /\ UNCHANGED <<consumed, pipe, taken, sawEnd, supply, pump, pumped>>
    BY <1>3 DEF PumpCloses, PumpReads, pumpOnly, clientVars, fixed, IInv, TypeOK, UpFrames
  <2>2. Has(up, "stdin-close") /\ ~Has(up, "stdin")
    BY <2>1 DEF Has, IInv, EndInv, After
  <2>3. forward = "done" /\ taken = supply /\ ~Closed
    BY <2>1, <2>2 DEF IInv, PhaseInv, EndInv, Closed
  <2>4. Carries(up, "stdin", Piped + 1, supply) /\ Piped <= supply /\ Piped \in Nat /\ supply \in Nat
    BY <2>1, <2>3 DEF IInv, TypeOK, UpInv, InHand, Forwarded, Piped
  <2>5. Piped = supply
    BY <2>1, <2>2, <2>4, CarriesNone
  <2> QED
    BY <2>1, <2>5 DEF IInv, PipeInv, Piped
<1>4. ASSUME CommandReads PROVE PipeInv'
  <2>1. /\ pipe \in Seq(Nat) /\ consumed \in Seq(Nat) /\ Len(consumed) \in Nat
        /\ UNCHANGED <<taken, input, supply, pump, pumped>>
    BY <1>4 DEF CommandReads, childOnly, clientVars, fixed, pumpVars, IInv, TypeOK
  <2>2. CASE pipe # <<>> /\ consumed' = Append(consumed, Head(pipe)) /\ pipe' = Tail(pipe) /\ sawEnd' = sawEnd
    <3>1. Head(pipe) = Len(consumed) + 1 /\ Follow(pipe', Len(consumed) + 1)
      BY <2>1, <2>2, FollowTail DEF IInv, PipeInv
    <3>2. Len(consumed') = Len(consumed) + 1 /\ Len(pipe') = Len(pipe) - 1 /\ Len(pipe) \in Nat
      BY <2>1, <2>2, HeadTailProperties, AppendProperties
    <3>3. consumed' = Upto(Len(consumed'))
      BY <2>1, <2>2, <3>1, <3>2, UptoGrows DEF IInv, PipeInv
    <3>4. Piped' = Piped /\ ~sawEnd
      <4>1. Len(consumed) + Len(pipe) <= supply /\ Len(pipe) > 0
        BY <2>1, <2>2, <3>2 DEF IInv, TypeOK, PipeInv, Piped
      <4> QED
        BY <2>1, <3>2, <4>1 DEF IInv, PipeInv, Piped
    <3> QED
      BY <2>1, <2>2, <3>1, <3>2, <3>3, <3>4 DEF IInv, PipeInv
  <2>3. CASE consumed' = consumed /\ pipe' = pipe /\ pipe = <<>> /\ input = "ended"
    BY <2>1, <2>3 DEF IInv, PipeInv, Piped
  <2> QED
    BY <1>4, <2>2, <2>3 DEF CommandReads
<1> USE DEF IInv, TypeOK, vars, fixed, clientVars, serverVars, pumpVars, copyVars,
    childVars, pipeVars, clientOnly, sessionOnly, copyOnly, pumpOnly, childOnly, SendUp,
    SendDown, Receives, PumpReads, Closed, Gone, Frame, FrameKinds, Streams, PipeInv, Piped,
    InHand, Forwarded
<1>5. ASSUME StartForwarding PROVE PipeInv'
  BY <1>5 DEF StartForwarding
<1>6. ASSUME RelayNotice PROVE PipeInv'
  BY <1>6 DEF RelayNotice
<1>7. ASSUME RelayExit PROVE PipeInv'
  BY <1>7 DEF RelayExit
<1>8. ASSUME ReadFails PROVE PipeInv'
  BY <1>8 DEF ReadFails
<1>9. ASSUME Quit PROVE PipeInv'
  BY <1>9 DEF Quit
<1>10. ASSUME ForwardRead PROVE PipeInv'
  BY <1>10 DEF ForwardRead
<1>11. ASSUME ForwardSend PROVE PipeInv'
  BY <1>11 DEF ForwardSend
<1>12. ASSUME ForwardEnd PROVE PipeInv'
  BY <1>12 DEF ForwardEnd
<1>13. ASSUME ForwardClose PROVE PipeInv'
  BY <1>13 DEF ForwardClose
<1>14. ASSUME ForwardTooLate PROVE PipeInv'
  BY <1>14 DEF ForwardTooLate
<1>15. ASSUME ForwardFails PROVE PipeInv'
  BY <1>15 DEF ForwardFails
<1>16. ASSUME Interrupt PROVE PipeInv'
  BY <1>16 DEF Interrupt
<1>17. ASSUME ForwardSignal PROVE PipeInv'
  BY <1>17 DEF ForwardSignal
<1>18. ASSUME ReadStart PROVE PipeInv'
  BY <1>18 DEF ReadStart
<1>19. ASSUME AskOperator PROVE PipeInv'
  BY <1>19 DEF AskOperator
<1>20. ASSUME SendReady PROVE PipeInv'
  BY <1>20 DEF SendReady
<1>21. ASSUME ReadyFails PROVE PipeInv'
  BY <1>21 DEF ReadyFails
<1>22. ASSUME StartCommand PROVE PipeInv'
  BY <1>22 DEF StartCommand
<1>23. ASSUME StartFails PROVE PipeInv'
  BY <1>23 DEF StartFails
<1>24. ASSUME Reap PROVE PipeInv'
  BY <1>24 DEF Reap
<1>25. ASSUME SendExit PROVE PipeInv'
  BY <1>25 DEF SendExit
<1>26. ASSUME ExitFails PROVE PipeInv'
  BY <1>26 DEF ExitFails
<1>27. ASSUME Close PROVE PipeInv'
  BY <1>27 DEF Close
<1>28. ASSUME PumpSignals PROVE PipeInv'
  BY <1>28 DEF PumpSignals
<1>29. ASSUME PumpEnds PROVE PipeInv'
  BY <1>29 DEF PumpEnds
<1>30. ASSUME CommandShutsInput PROVE PipeInv'
  BY <1>30 DEF CommandShutsInput
<1>31. ASSUME CommandExits PROVE PipeInv'
  BY <1>31 DEF CommandExits
<1>32. ASSUME NEW s \in Streams, RelayOutput(s) PROVE PipeInv'
  BY <1>32 DEF RelayOutput
<1>33. ASSUME NEW s \in Streams, CopyTakes(s) PROVE PipeInv'
  BY <1>33 DEF CopyTakes
<1>34. ASSUME NEW s \in Streams, CopySends(s) PROVE PipeInv'
  BY <1>34 DEF CopySends
<1>35. ASSUME NEW s \in Streams, CopyEnds(s) PROVE PipeInv'
  BY <1>35 DEF CopyEnds
<1>36. ASSUME NEW s \in Streams, CommandWrites(s) PROVE PipeInv'
  BY <1>36 DEF CommandWrites
<1>37. ASSUME NEW to \in {"readying", "exiting"}, Decide(to) PROVE PipeInv'
  BY <1>37 DEF Decide
<1> QED
  BY <1>1, <1>2, <1>3, <1>4, <1>5, <1>6, <1>7, <1>8, <1>9, <1>10, <1>11, <1>12, <1>13,
     <1>14, <1>15, <1>16, <1>17, <1>18, <1>19, <1>20, <1>21, <1>22, <1>23, <1>24, <1>25,
     <1>26, <1>27, <1>28, <1>29, <1>30, <1>31, <1>32, <1>33, <1>34, <1>35, <1>36, <1>37
     DEF Next, ClientStep, ForwarderStep, SessionStep, AuthorizeStep, CopyStep, PumpStep

\* What is on its way to the command stays what follows.
LEMMA UpInvStep == ASSUME IInv, Next PROVE UpInv'
<1> USE StreamAssumption
<1>1. ASSUME StartForwarding PROVE UpInv'
  <2>1. forward = "off" /\ forward' = "reading" /\ UNCHANGED <<taken, up, consumed, pipe, pump, session>>
    BY <1>1 DEF StartForwarding, clientOnly, childVars, pipeVars, pumpVars, serverVars,
       IInv, PhaseInv
  <2> QED
    BY <2>1 DEF IInv, UpInv, Piped, InHand, Forwarded, Closed
<1>2. ASSUME ForwardSend PROVE UpInv'
  <2>1. /\ forward = "sending" /\ forward' = "reading" /\ up' = Append(up, Frame("stdin", taken))
        /\ UNCHANGED <<taken, consumed, pipe, pump, session>>
    BY <1>2 DEF ForwardSend, SendUp, clientOnly, childVars, pipeVars, pumpVars, serverVars
  <2>2. /\ up \in Seq(UpFrames) /\ Frame("stdin", taken) \in UpFrames
        /\ Piped \in Nat /\ InHand \in Nat /\ Piped + InHand + 1 \in Nat /\ taken - 1 \in Nat
    BY <2>1 DEF IInv, TypeOK, PhaseInv, UpFrames, Frame, FrameKinds, Piped, InHand
  <2>3. ASSUME ~Closed, pump # "done"
        PROVE  Carries(up', "stdin", Piped + InHand + 1, taken) /\ Piped + InHand <= taken
    <3>1. Carries(up, "stdin", Piped + InHand + 1, taken - 1) /\ Piped + InHand <= taken - 1
      BY <2>1, <2>3 DEF IInv, UpInv, Forwarded
    <3>2. Frame("stdin", taken).kind = "stdin" /\ Frame("stdin", taken).chunk = (taken - 1) + 1
      BY <2>2 DEF Frame, IInv, TypeOK
    <3>3. Piped + InHand + 1 <= (taken - 1) + 1
      BY <2>2, <3>1
    <3>4. Carries(up', "stdin", Piped + InHand + 1, (taken - 1) + 1)
      BY <2>1, <2>2, <3>1, <3>2, <3>3, AppendNext
    <3> QED
      BY <2>2, <3>1, <3>4 DEF IInv, TypeOK
  <2> QED
    BY <2>1, <2>3 DEF UpInv, Piped, InHand, Forwarded, Closed
<1>3. ASSUME ForwardClose PROVE UpInv'
  <2>1. /\ up' = Append(up, Frame("stdin-close", 0)) /\ forward = "closing" /\ forward' = "done"
        /\ UNCHANGED <<taken, consumed, pipe, pump, session>>
    BY <1>3 DEF ForwardClose, SendUp, clientOnly, childVars, pipeVars, pumpVars, serverVars
  <2>2. up \in Seq(UpFrames) /\ Frame("stdin-close", 0) \in UpFrames /\ Frame("stdin-close", 0).kind # "stdin"
    BY DEF IInv, TypeOK, UpFrames, Frame, FrameKinds
  <2>3. ASSUME ~Closed, pump # "done"
        PROVE  Carries(up', "stdin", Piped + InHand + 1, Forwarded)
    BY <2>1, <2>2, <2>3, AppendOther DEF IInv, UpInv
  <2> QED
    BY <2>1, <2>3 DEF IInv, UpInv, Piped, InHand, Forwarded, Closed
<1>4. ASSUME ForwardSignal PROVE UpInv'
  <2>1. /\ up' = Append(up, Frame("signal", 0)) /\ forward' = forward
        /\ UNCHANGED <<taken, consumed, pipe, pump, session>>
    BY <1>4 DEF ForwardSignal, SendUp, clientOnly, childVars, pipeVars, pumpVars, serverVars
  <2>2. up \in Seq(UpFrames) /\ Frame("signal", 0) \in UpFrames /\ Frame("signal", 0).kind # "stdin"
    BY DEF IInv, TypeOK, UpFrames, Frame, FrameKinds
  <2>3. ASSUME ~Closed, pump # "done"
        PROVE  Carries(up', "stdin", Piped + InHand + 1, Forwarded)
    BY <2>1, <2>2, <2>3, AppendOther DEF IInv, UpInv
  <2> QED
    BY <2>1, <2>3 DEF IInv, UpInv, Piped, InHand, Forwarded, Closed
<1>5. ASSUME ReadStart PROVE UpInv'
  <2>1. up = <<Frame("start", 0)>> /\ forward = "off"
    BY <1>5 DEF ReadStart, IInv, EarlyInv, Early
  <2>2. PICK k \in 1 .. Len(up) : up' = SubSeq(up, k + 1, Len(up))
    BY <1>5 DEF ReadStart
  <2>3. up' = <<>>
    BY <2>1, <2>2
  <2>4. Forwarded = 0 /\ Piped = 0 /\ InHand = 0
    BY <1>5, <2>1 DEF ReadStart, IInv, TypeOK, PhaseInv, PipeInv, Forwarded, Piped, InHand
  <2>5. sessionOnly
    BY <1>5 DEF ReadStart
  <2>6. Forwarded' = 0 /\ Piped' = 0 /\ InHand' = 0
    BY <2>4, <2>5 DEF sessionOnly, clientVars, pumpVars, childVars, pipeVars, Forwarded,
       Piped, InHand
  <2>7. Carries(<<>>, "stdin", 0 + 1, 0)
    BY CarriesNothing
  <2>8. Piped' + InHand' + 1 = 0 + 1 /\ Piped' + InHand' <= Forwarded'
    BY <2>6
  <2> QED
    BY <2>3, <2>6, <2>7, <2>8 DEF UpInv
<1>6. ASSUME StartCommand PROVE UpInv'
  <2>1. /\ pump = "off" /\ pump' = "reading" /\ session # "closed"
        /\ UNCHANGED <<forward, taken, up, consumed, pipe>>
    BY <1>6 DEF StartCommand, clientVars, pipeVars, IInv, PhaseInv
  <2> QED
    BY <2>1 DEF IInv, UpInv, Piped, InHand, Forwarded, Closed
<1>7. ASSUME PumpTakes PROVE UpInv'
  <2>1. /\ up \in Seq(UpFrames) /\ up # <<>> /\ up' = Tail(up) /\ Head(up).kind = "stdin"
        /\ pump = "reading" /\ pump' = "writing"
        /\ UNCHANGED <<consumed, pipe, taken, forward, session>>
    BY <1>7 DEF PumpTakes, PumpReads, pumpOnly, clientVars, IInv, TypeOK, UpFrames
  <2>2. Carries(up, "stdin", Piped + 1, Forwarded) /\ Piped + 1 \in Nat /\ Forwarded \in Nat
    BY <2>1 DEF IInv, TypeOK, PhaseInv, UpInv, InHand, Piped, Forwarded, Closed
  <2>3. Piped + 1 <= Forwarded /\ Carries(up', "stdin", (Piped + 1) + 1, Forwarded)
    BY <2>1, <2>2, TailFirst
  <2>4. Piped' = Piped /\ InHand' = 1 /\ Forwarded' = Forwarded
    BY <2>1 DEF Piped, InHand, Forwarded
  <2> QED
    BY <2>3, <2>4 DEF UpInv
<1>8. ASSUME PumpWrites PROVE UpInv'
  <2>1. /\ pipe \in Seq(1 .. MaxIn) /\ pumped \in 0 .. MaxIn /\ pipe' = Append(pipe, pumped)
        /\ pump = "writing" /\ pump' = "reading" /\ Len(consumed) \in Nat
        /\ UNCHANGED <<consumed, taken, forward, up, session>>
    BY <1>8 DEF PumpWrites, pumpOnly, clientVars, IInv, TypeOK
  <2>2. Piped' = Piped + 1 /\ InHand = 1 /\ InHand' = 0 /\ Forwarded' = Forwarded
    BY <2>1 DEF Piped, InHand, Forwarded
  <2>3. Piped' + InHand' = Piped + InHand
    BY <2>1, <2>2 DEF Piped
  <2> QED
    BY <2>1, <2>2, <2>3 DEF IInv, UpInv, Closed
<1>9. ASSUME PumpCloses PROVE UpInv'
  <2>1. /\ up \in Seq(UpFrames) /\ up # <<>> /\ up' = Tail(up) /\ Head(up).kind # "stdin"
        /\ UNCHANGED <<consumed, pipe, taken, forward, session, pump>>
    BY <1>9 DEF PumpCloses, PumpReads, pumpOnly, clientVars, IInv, TypeOK, UpFrames
  <2>2. ASSUME ~Closed, pump # "done"
        PROVE  Carries(up', "stdin", Piped + InHand + 1, Forwarded)
    BY <2>1, <2>2, TailOther DEF IInv, UpInv
  <2> QED
    BY <2>1, <2>2 DEF IInv, UpInv, Piped, InHand, Forwarded, Closed
<1>10. ASSUME PumpSignals PROVE UpInv'
  <2>1. /\ up \in Seq(UpFrames) /\ up # <<>> /\ up' = Tail(up) /\ Head(up).kind # "stdin"
        /\ UNCHANGED <<consumed, pipe, taken, forward, session, pump>>
    BY <1>10 DEF PumpSignals, PumpReads, pumpOnly, clientVars, IInv, TypeOK, UpFrames
  <2>2. ASSUME ~Closed, pump # "done"
        PROVE  Carries(up', "stdin", Piped + InHand + 1, Forwarded)
    BY <2>1, <2>2, TailOther DEF IInv, UpInv
  <2> QED
    BY <2>1, <2>2 DEF IInv, UpInv, Piped, InHand, Forwarded, Closed
<1>11. ASSUME CommandReads PROVE UpInv'
  <2>1. /\ pipe \in Seq(1 .. MaxIn) /\ consumed \in Seq(1 .. MaxIn)
        /\ UNCHANGED <<taken, forward, up, session, pump>>
    BY <1>11 DEF CommandReads, childOnly, clientVars, serverVars, pumpVars, IInv, TypeOK
  <2>2. CASE pipe # <<>> /\ consumed' = Append(consumed, Head(pipe)) /\ pipe' = Tail(pipe)
    <3>1. Len(consumed') = Len(consumed) + 1 /\ Len(pipe') = Len(pipe) - 1
      BY <2>1, <2>2, HeadTailProperties, AppendProperties
    <3>2. Piped' = Piped
      BY <2>1, <3>1, LenProperties DEF Piped
    <3> QED
      BY <2>1, <3>2 DEF IInv, UpInv, InHand, Forwarded, Closed
  <2>3. CASE consumed' = consumed /\ pipe' = pipe
    BY <2>1, <2>3 DEF IInv, UpInv, Piped, InHand, Forwarded, Closed
  <2> QED
    BY <1>11, <2>2, <2>3 DEF CommandReads
<1> USE DEF IInv, TypeOK, vars, fixed, clientVars, serverVars, pumpVars, copyVars,
    childVars, pipeVars, clientOnly, sessionOnly, copyOnly, pumpOnly, childOnly, SendUp,
    SendDown, Receives, PumpReads, Closed, Gone, Frame, FrameKinds, Streams, UpInv, Piped,
    InHand, Forwarded
<1>12. ASSUME RelayNotice PROVE UpInv'
  BY <1>12 DEF RelayNotice
<1>13. ASSUME RelayExit PROVE UpInv'
  BY <1>13 DEF RelayExit
<1>14. ASSUME ReadFails PROVE UpInv'
  BY <1>14 DEF ReadFails
<1>15. ASSUME Quit PROVE UpInv'
  BY <1>15 DEF Quit
<1>16. ASSUME ForwardRead PROVE UpInv'
  BY <1>16 DEF ForwardRead
<1>17. ASSUME ForwardEnd PROVE UpInv'
  BY <1>17 DEF ForwardEnd
<1>18. ASSUME ForwardTooLate PROVE UpInv'
  BY <1>18 DEF ForwardTooLate
<1>19. ASSUME ForwardFails PROVE UpInv'
  BY <1>19 DEF ForwardFails
<1>20. ASSUME Interrupt PROVE UpInv'
  BY <1>20 DEF Interrupt
<1>21. ASSUME AskOperator PROVE UpInv'
  BY <1>21 DEF AskOperator
<1>22. ASSUME SendReady PROVE UpInv'
  BY <1>22 DEF SendReady
<1>23. ASSUME ReadyFails PROVE UpInv'
  BY <1>23 DEF ReadyFails
<1>24. ASSUME StartFails PROVE UpInv'
  BY <1>24 DEF StartFails
<1>25. ASSUME Reap PROVE UpInv'
  BY <1>25 DEF Reap
<1>26. ASSUME SendExit PROVE UpInv'
  BY <1>26 DEF SendExit
<1>27. ASSUME ExitFails PROVE UpInv'
  BY <1>27 DEF ExitFails
<1>28. ASSUME Close PROVE UpInv'
  BY <1>28 DEF Close
<1>29. ASSUME PumpEnds PROVE UpInv'
  BY <1>29 DEF PumpEnds
<1>30. ASSUME CommandShutsInput PROVE UpInv'
  BY <1>30 DEF CommandShutsInput
<1>31. ASSUME CommandExits PROVE UpInv'
  BY <1>31 DEF CommandExits
<1>32. ASSUME NEW s \in Streams, RelayOutput(s) PROVE UpInv'
  BY <1>32 DEF RelayOutput
<1>33. ASSUME NEW s \in Streams, CopyTakes(s) PROVE UpInv'
  BY <1>33 DEF CopyTakes
<1>34. ASSUME NEW s \in Streams, CopySends(s) PROVE UpInv'
  BY <1>34 DEF CopySends
<1>35. ASSUME NEW s \in Streams, CopyEnds(s) PROVE UpInv'
  BY <1>35 DEF CopyEnds
<1>36. ASSUME NEW s \in Streams, CommandWrites(s) PROVE UpInv'
  BY <1>36 DEF CommandWrites
<1>37. ASSUME NEW to \in {"readying", "exiting"}, Decide(to) PROVE UpInv'
  BY <1>37 DEF Decide
<1> QED
  BY <1>1, <1>2, <1>3, <1>4, <1>5, <1>6, <1>7, <1>8, <1>9, <1>10, <1>11, <1>12, <1>13,
     <1>14, <1>15, <1>16, <1>17, <1>18, <1>19, <1>20, <1>21, <1>22, <1>23, <1>24, <1>25,
     <1>26, <1>27, <1>28, <1>29, <1>30, <1>31, <1>32, <1>33, <1>34, <1>35, <1>36, <1>37
     DEF Next, ClientStep, ForwarderStep, SessionStep, AuthorizeStep, CopyStep, PumpStep

\* The end of stdin stays behind all of it.
LEMMA EndInvStep == ASSUME IInv, Next PROVE EndInv'
<1> USE StreamAssumption
<1>1. ASSUME StartForwarding PROVE EndInv'
  <2>1. forward # "done" /\ up' = up
    BY <1>1 DEF StartForwarding, IInv, PhaseInv
  <2> QED
    BY <2>1 DEF IInv, EndInv
<1>2. ASSUME ForwardSend PROVE EndInv'
  <2>1. /\ up' = Append(up, Frame("stdin", taken)) /\ UNCHANGED <<taken, supply, session>>
        /\ up \in Seq(UpFrames) /\ Frame("stdin", taken) \in UpFrames
        /\ Frame("stdin", taken).kind = "stdin"
    BY <1>2 DEF ForwardSend, SendUp, clientOnly, fixed, serverVars, IInv, TypeOK,
       UpFrames, Frame, FrameKinds
  <2>2. ~Has(up, "stdin-close")
    BY <1>2 DEF ForwardSend, IInv, EndInv
  <2>3. ~Has(up', "stdin-close") /\ After(up', "stdin-close", "stdin")
    BY <2>1, <2>2, HasAppend, AfterAppend DEF IInv, EndInv
  <2> QED
    BY <2>3 DEF EndInv
<1>3. ASSUME ForwardClose PROVE EndInv'
  <2>1. /\ up' = Append(up, Frame("stdin-close", 0)) /\ UNCHANGED <<taken, supply, session>>
        /\ up \in Seq(UpFrames) /\ Frame("stdin-close", 0) \in UpFrames
        /\ Frame("stdin-close", 0).kind = "stdin-close"
    BY <1>3 DEF ForwardClose, SendUp, clientOnly, fixed, serverVars, IInv, TypeOK,
       UpFrames, Frame, FrameKinds
  <2>2. forward' = "done" /\ taken' = supply'
    BY <1>3, <2>1 DEF ForwardClose, IInv, PhaseInv
  <2>3. After(up', "stdin-close", "stdin")
    BY <2>1, AfterAppend DEF IInv, EndInv
  <2> QED
    BY <2>2, <2>3 DEF EndInv
<1>4. ASSUME ForwardSignal PROVE EndInv'
  <2>1. /\ up' = Append(up, Frame("signal", 0)) /\ UNCHANGED <<taken, supply, session>>
        /\ up \in Seq(UpFrames) /\ Frame("signal", 0) \in UpFrames
        /\ Frame("signal", 0).kind = "signal"
    BY <1>4 DEF ForwardSignal, SendUp, clientOnly, fixed, serverVars, IInv, TypeOK,
       UpFrames, Frame, FrameKinds
  <2>2. forward' = forward
    BY <1>4 DEF ForwardSignal
  <2>3. After(up', "stdin-close", "stdin") /\ (Has(up', "stdin-close") => Has(up, "stdin-close"))
    BY <2>1, AfterAppend, HasAppend DEF IInv, EndInv
  <2> QED
    BY <2>1, <2>2, <2>3 DEF IInv, EndInv, Closed
<1>5. ASSUME ReadStart PROVE EndInv'
  <2>1. up = <<Frame("start", 0)>>
    BY <1>5 DEF ReadStart, IInv, EarlyInv
  <2>2. PICK k \in 1 .. Len(up) : up' = SubSeq(up, k + 1, Len(up))
    BY <1>5 DEF ReadStart
  <2>3. up' = <<>>
    BY <2>1, <2>2
  <2>4. ~Has(up', "stdin-close") /\ After(up', "stdin-close", "stdin")
    BY <2>3 DEF Has, After
  <2> QED
    BY <2>4 DEF EndInv
<1>6. ASSUME Close PROVE EndInv'
  <2>1. up' = <<>>
    BY <1>6 DEF Close
  <2>2. ~Has(up', "stdin-close") /\ After(up', "stdin-close", "stdin")
    BY <2>1 DEF Has, After
  <2> QED
    BY <2>2 DEF EndInv
<1>7. ASSUME PumpTakes PROVE EndInv'
  <2>1. up \in Seq(UpFrames) /\ up # <<>> /\ up' = Tail(up) /\ UNCHANGED <<forward, taken, supply, session>>
    BY <1>7 DEF PumpTakes, PumpReads, pumpOnly, clientVars, fixed, IInv, TypeOK, UpFrames
  <2>2. (Has(up', "stdin-close") => Has(up, "stdin-close")) /\ After(up', "stdin-close", "stdin")
    BY <2>1, HasTail, AfterTail DEF IInv, EndInv
  <2> QED
    BY <2>1, <2>2 DEF IInv, EndInv, Closed
<1>8. ASSUME PumpCloses PROVE EndInv'
  <2>1. up \in Seq(UpFrames) /\ up # <<>> /\ up' = Tail(up) /\ UNCHANGED <<forward, taken, supply, session>>
    BY <1>8 DEF PumpCloses, PumpReads, pumpOnly, clientVars, fixed, IInv, TypeOK, UpFrames
  <2>2. (Has(up', "stdin-close") => Has(up, "stdin-close")) /\ After(up', "stdin-close", "stdin")
    BY <2>1, HasTail, AfterTail DEF IInv, EndInv
  <2> QED
    BY <2>1, <2>2 DEF IInv, EndInv, Closed
<1>9. ASSUME PumpSignals PROVE EndInv'
  <2>1. up \in Seq(UpFrames) /\ up # <<>> /\ up' = Tail(up) /\ UNCHANGED <<forward, taken, supply, session>>
    BY <1>9 DEF PumpSignals, PumpReads, pumpOnly, clientVars, fixed, IInv, TypeOK, UpFrames
  <2>2. (Has(up', "stdin-close") => Has(up, "stdin-close")) /\ After(up', "stdin-close", "stdin")
    BY <2>1, HasTail, AfterTail DEF IInv, EndInv
  <2> QED
    BY <2>1, <2>2 DEF IInv, EndInv, Closed
<1> USE DEF IInv, TypeOK, vars, fixed, clientVars, serverVars, pumpVars, copyVars,
    childVars, pipeVars, clientOnly, sessionOnly, copyOnly, pumpOnly, childOnly, SendUp,
    SendDown, Receives, PumpReads, Closed, Gone, Frame, FrameKinds, Streams, EndInv
<1>10. ASSUME RelayNotice PROVE EndInv'
  BY <1>10 DEF RelayNotice
<1>11. ASSUME RelayExit PROVE EndInv'
  BY <1>11 DEF RelayExit
<1>12. ASSUME ReadFails PROVE EndInv'
  BY <1>12 DEF ReadFails
<1>13. ASSUME Quit PROVE EndInv'
  BY <1>13 DEF Quit
<1>14. ASSUME ForwardRead PROVE EndInv'
  BY <1>14 DEF ForwardRead
<1>15. ASSUME ForwardEnd PROVE EndInv'
  BY <1>15 DEF ForwardEnd
<1>16. ASSUME ForwardTooLate PROVE EndInv'
  BY <1>16 DEF ForwardTooLate
<1>17. ASSUME ForwardFails PROVE EndInv'
  BY <1>17 DEF ForwardFails
<1>18. ASSUME Interrupt PROVE EndInv'
  BY <1>18 DEF Interrupt
<1>19. ASSUME AskOperator PROVE EndInv'
  BY <1>19 DEF AskOperator
<1>20. ASSUME SendReady PROVE EndInv'
  BY <1>20 DEF SendReady
<1>21. ASSUME ReadyFails PROVE EndInv'
  BY <1>21 DEF ReadyFails
<1>22. ASSUME StartCommand PROVE EndInv'
  BY <1>22 DEF StartCommand
<1>23. ASSUME StartFails PROVE EndInv'
  BY <1>23 DEF StartFails
<1>24. ASSUME Reap PROVE EndInv'
  BY <1>24 DEF Reap
<1>25. ASSUME SendExit PROVE EndInv'
  BY <1>25 DEF SendExit
<1>26. ASSUME ExitFails PROVE EndInv'
  BY <1>26 DEF ExitFails
<1>27. ASSUME PumpWrites PROVE EndInv'
  BY <1>27 DEF PumpWrites
<1>28. ASSUME PumpEnds PROVE EndInv'
  BY <1>28 DEF PumpEnds
<1>29. ASSUME CommandReads PROVE EndInv'
  BY <1>29 DEF CommandReads
<1>30. ASSUME CommandShutsInput PROVE EndInv'
  BY <1>30 DEF CommandShutsInput
<1>31. ASSUME CommandExits PROVE EndInv'
  BY <1>31 DEF CommandExits
<1>32. ASSUME NEW s \in Streams, RelayOutput(s) PROVE EndInv'
  BY <1>32 DEF RelayOutput
<1>33. ASSUME NEW s \in Streams, CopyTakes(s) PROVE EndInv'
  BY <1>33 DEF CopyTakes
<1>34. ASSUME NEW s \in Streams, CopySends(s) PROVE EndInv'
  BY <1>34 DEF CopySends
<1>35. ASSUME NEW s \in Streams, CopyEnds(s) PROVE EndInv'
  BY <1>35 DEF CopyEnds
<1>36. ASSUME NEW s \in Streams, CommandWrites(s) PROVE EndInv'
  BY <1>36 DEF CommandWrites
<1>37. ASSUME NEW to \in {"readying", "exiting"}, Decide(to) PROVE EndInv'
  BY <1>37 DEF Decide
<1> QED
  BY <1>1, <1>2, <1>3, <1>4, <1>5, <1>6, <1>7, <1>8, <1>9, <1>10, <1>11, <1>12, <1>13,
     <1>14, <1>15, <1>16, <1>17, <1>18, <1>19, <1>20, <1>21, <1>22, <1>23, <1>24, <1>25,
     <1>26, <1>27, <1>28, <1>29, <1>30, <1>31, <1>32, <1>33, <1>34, <1>35, <1>36, <1>37
     DEF Next, ClientStep, ForwarderStep, SessionStep, AuthorizeStep, CopyStep, PumpStep

\* Exit stays behind all output, and is sent only when the command is over.
LEMMA ExitInvStep == ASSUME IInv, Next PROVE ExitInv'
<1> USE StreamAssumption
<1>1. ASSUME StartForwarding PROVE ExitInv'
  <2>1. /\ down # <<>> /\ down' = Tail(down) /\ UNCHANGED session
        /\ client' # "exited"
    BY <1>1 DEF StartForwarding, Receives, clientVars, clientOnly, serverVars
  <2> QED
    BY <2>1, ExitAfterTail
<1>2. ASSUME RelayNotice PROVE ExitInv'
  <2>1. /\ down # <<>> /\ down' = Tail(down) /\ UNCHANGED session
        /\ UNCHANGED client
    BY <1>2 DEF RelayNotice, Receives, clientVars, clientOnly, serverVars
  <2> QED
    BY <2>1, ExitAfterTail
<1>3. ASSUME RelayExit PROVE ExitInv'
  <2>1. down # <<>> /\ Head(down).kind = "exit" /\ down' = Tail(down) /\ UNCHANGED session
    BY <1>3 DEF RelayExit, Receives, clientOnly, serverVars
  <2>2. Has(down, "exit")
    BY <2>1 DEF Has, IInv, TypeOK
  <2> QED
    BY <2>1, <2>2, ExitAfterTail
<1>4. ASSUME AskOperator PROVE ExitInv'
  <2>1. /\ down' = down \/ down' = Append(down, Frame("notice", 0))
        /\ session \notin {"closing", "closed"} /\ UNCHANGED client
    BY <1>4 DEF AskOperator, SendDown, sessionOnly, clientVars
  <2>2. Frame("notice", 0) \in DownFrames /\ Frame("notice", 0).kind # "exit"
    BY DEF DownFrames, Frame, FrameKinds
  <2> QED
    BY <2>1, <2>2, ExitNotSent
<1>5. ASSUME SendReady PROVE ExitInv'
  <2>1. /\ down' = down \/ down' = Append(down, Frame("ready", 0))
        /\ session \notin {"closing", "closed"} /\ UNCHANGED client
    BY <1>5 DEF SendReady, SendDown, sessionOnly, clientVars
  <2>2. Frame("ready", 0) \in DownFrames /\ Frame("ready", 0).kind # "exit"
    BY DEF DownFrames, Frame, FrameKinds
  <2> QED
    BY <2>1, <2>2, ExitNotSent
<1>6. ASSUME SendExit PROVE ExitInv'
  <2>1. session' = "closing" /\ down' = Append(down, Frame("exit", 0))
    BY <1>6 DEF SendExit, SendDown
  <2>2. /\ down \in Seq(DownFrames) /\ Frame("exit", 0) \in DownFrames
        /\ \A s \in Streams : Frame("exit", 0).kind # s
    BY DEF IInv, TypeOK, DownFrames, Frame, FrameKinds, Streams
  <2>3. \A s \in Streams : After(down', "exit", s)
    BY <2>1, <2>2, AfterAppend DEF IInv, ExitInv
  <2> QED
    BY <2>1, <2>3 DEF ExitInv
<1>7. ASSUME NEW s \in Streams, RelayOutput(s) PROVE ExitInv'
  <2>1. /\ down # <<>> /\ down' = Tail(down) /\ UNCHANGED session
        /\ UNCHANGED client
    BY <1>7 DEF RelayOutput, Receives, clientVars, clientOnly, serverVars
  <2> QED
    BY <2>1, ExitAfterTail
<1>8. ASSUME NEW s \in Streams, CopySends(s) PROVE ExitInv'
  <2>1. down' = Append(down, Frame(s, carried[s])) /\ UNCHANGED client /\ copier[s] = "sending"
    BY <1>8 DEF CopySends, SendDown, copyOnly, clientVars
  <2>2. session \notin {"closing", "closed"}
    BY <2>1 DEF IInv, PhaseInv
  <2>3. Frame(s, carried[s]) \in DownFrames /\ Frame(s, carried[s]).kind # "exit"
    BY DEF IInv, TypeOK, DownFrames, Frame, FrameKinds, Streams
  <2> QED
    BY <2>1, <2>2, <2>3, ExitNotSent
<1> USE DEF IInv, TypeOK, vars, fixed, clientVars, serverVars, pumpVars, copyVars,
    childVars, pipeVars, clientOnly, sessionOnly, copyOnly, pumpOnly, childOnly, SendUp,
    SendDown, Receives, PumpReads, Closed, Gone, Frame, FrameKinds, Streams, ExitInv
<1>9. ASSUME ReadFails PROVE ExitInv'
  BY <1>9 DEF ReadFails
<1>10. ASSUME Quit PROVE ExitInv'
  BY <1>10 DEF Quit
<1>11. ASSUME ForwardRead PROVE ExitInv'
  BY <1>11 DEF ForwardRead
<1>12. ASSUME ForwardSend PROVE ExitInv'
  BY <1>12 DEF ForwardSend
<1>13. ASSUME ForwardEnd PROVE ExitInv'
  BY <1>13 DEF ForwardEnd
<1>14. ASSUME ForwardClose PROVE ExitInv'
  BY <1>14 DEF ForwardClose
<1>15. ASSUME ForwardTooLate PROVE ExitInv'
  BY <1>15 DEF ForwardTooLate
<1>16. ASSUME ForwardFails PROVE ExitInv'
  BY <1>16 DEF ForwardFails
<1>17. ASSUME Interrupt PROVE ExitInv'
  BY <1>17 DEF Interrupt
<1>18. ASSUME ForwardSignal PROVE ExitInv'
  BY <1>18 DEF ForwardSignal
<1>19. ASSUME ReadStart PROVE ExitInv'
  BY <1>19 DEF ReadStart
<1>20. ASSUME ReadyFails PROVE ExitInv'
  BY <1>20 DEF ReadyFails
<1>21. ASSUME StartCommand PROVE ExitInv'
  BY <1>21 DEF StartCommand
<1>22. ASSUME StartFails PROVE ExitInv'
  BY <1>22 DEF StartFails
<1>23. ASSUME Reap PROVE ExitInv'
  BY <1>23 DEF Reap
<1>24. ASSUME ExitFails PROVE ExitInv'
  BY <1>24 DEF ExitFails
<1>25. ASSUME Close PROVE ExitInv'
  BY <1>25 DEF Close
<1>26. ASSUME PumpTakes PROVE ExitInv'
  BY <1>26 DEF PumpTakes
<1>27. ASSUME PumpWrites PROVE ExitInv'
  BY <1>27 DEF PumpWrites
<1>28. ASSUME PumpCloses PROVE ExitInv'
  BY <1>28 DEF PumpCloses
<1>29. ASSUME PumpSignals PROVE ExitInv'
  BY <1>29 DEF PumpSignals
<1>30. ASSUME PumpEnds PROVE ExitInv'
  BY <1>30 DEF PumpEnds
<1>31. ASSUME CommandReads PROVE ExitInv'
  BY <1>31 DEF CommandReads
<1>32. ASSUME CommandShutsInput PROVE ExitInv'
  BY <1>32 DEF CommandShutsInput
<1>33. ASSUME CommandExits PROVE ExitInv'
  BY <1>33 DEF CommandExits
<1>34. ASSUME NEW s \in Streams, CopyTakes(s) PROVE ExitInv'
  BY <1>34 DEF CopyTakes
<1>35. ASSUME NEW s \in Streams, CopyEnds(s) PROVE ExitInv'
  BY <1>35 DEF CopyEnds
<1>36. ASSUME NEW s \in Streams, CommandWrites(s) PROVE ExitInv'
  BY <1>36 DEF CommandWrites
<1>37. ASSUME NEW to \in {"readying", "exiting"}, Decide(to) PROVE ExitInv'
  BY <1>37 DEF Decide
<1> QED
  BY <1>1, <1>2, <1>3, <1>4, <1>5, <1>6, <1>7, <1>8, <1>9, <1>10, <1>11, <1>12, <1>13,
     <1>14, <1>15, <1>16, <1>17, <1>18, <1>19, <1>20, <1>21, <1>22, <1>23, <1>24, <1>25,
     <1>26, <1>27, <1>28, <1>29, <1>30, <1>31, <1>32, <1>33, <1>34, <1>35, <1>36, <1>37
     DEF Next, ClientStep, ForwarderStep, SessionStep, AuthorizeStep, CopyStep, PumpStep

\* The copies take the command's output in order.
LEMMA CopyInvStep == ASSUME IInv, Next, NEW s \in Streams PROVE CopyInv(s)'
<1> USE StreamAssumption
<1>1. ASSUME StartCommand PROVE CopyInv(s)'
  <2>1. /\ output[s] = <<>> /\ wrote[s] = 0 /\ child' = "alive"
        /\ UNCHANGED <<tty, client, output, wrote>>
        /\ copier'[s] = IF tty /\ s = "stderr" THEN "done" ELSE "copying"
    BY <1>1 DEF StartCommand, fixed, clientVars, pipeVars, IInv, PhaseInv
  <2> QED
    BY <2>1 DEF IInv, CopyInv, Moved
<1>2. ASSUME NEW r \in Streams, CopyTakes(r) PROVE CopyInv(s)'
  <2>1. /\ output[r] # <<>> /\ copier[r] = "copying" /\ UNCHANGED <<tty, client, child, wrote>>
        /\ carried' = [carried EXCEPT ![r] = Head(output[r])]
        /\ output' = [output EXCEPT ![r] = Tail(output[r])]
        /\ copier' = [copier EXCEPT ![r] = "sending"]
    BY <1>2 DEF CopyTakes, copyOnly, fixed, clientVars, childVars
  <2>2. /\ output[s] \in Seq(Nat) /\ wrote[s] \in Nat /\ CopyInv(s)
        /\ s \in DOMAIN output /\ s \in DOMAIN carried /\ s \in DOMAIN copier
    BY SMTT(30) DEF IInv, TypeOK
  <2>3. CASE r # s
    BY <2>1, <2>2, <2>3 DEF CopyInv, Moved, Gone
  <2>4. CASE r = s
    <3>1. output'[s] = Tail(output[s]) /\ carried'[s] = Head(output[s]) /\ copier'[s] = "sending"
      BY <2>1, <2>2, <2>4
    <3>2. Len(output'[s]) = Len(output[s]) - 1 /\ Len(output[s]) \in Nat
      BY <2>1, <2>2, <2>4, <3>1, HeadTailProperties
    <3>3. Moved(s) \in Nat /\ Moved(s)' = Moved(s) + 1
      BY <2>1, <2>2, <3>2, SMTT(30) DEF CopyInv, Moved
    <3>4. carried'[s] = Moved(s) + 1 /\ Follow(output'[s], Moved(s) + 1)
      BY <2>1, <2>2, <2>4, <3>1, <3>3, FollowTail DEF CopyInv
    <3>5. Len(output'[s]) <= wrote'[s]
      BY <2>1, <2>2, <3>2 DEF CopyInv
    <3> QED
      BY <2>1, <2>2, <3>1, <3>3, <3>4, <3>5 DEF CopyInv
  <2> QED
    BY <2>3, <2>4
<1>3. ASSUME NEW r \in Streams, CommandWrites(r) PROVE CopyInv(s)'
  <2>1. /\ tty => r = "stdout"
        /\ wrote' = [wrote EXCEPT ![r] = wrote[r] + 1] /\ child = "alive"
        /\ output' = [output EXCEPT ![r] = Append(output[r], wrote'[r])]
        /\ UNCHANGED <<tty, client, child, copier, carried>>
    BY <1>3 DEF CommandWrites, childOnly, fixed, clientVars, copyVars
  <2>2. /\ output[s] \in Seq(Nat) /\ wrote[s] \in Nat /\ CopyInv(s)
        /\ s \in DOMAIN output /\ s \in DOMAIN wrote
    BY SMTT(30) DEF IInv, TypeOK
  <2>3. CASE r # s
    BY <2>1, <2>2, <2>3 DEF CopyInv, Moved, Gone
  <2>4. CASE r = s
    <3>1. wrote'[s] = wrote[s] + 1 /\ output'[s] = Append(output[s], wrote[s] + 1)
      BY <2>1, <2>2, <2>4
    <3>2. Len(output'[s]) = Len(output[s]) + 1 /\ Len(output[s]) \in Nat
      BY <2>2, <3>1
    <3>0. Len(output[s]) <= wrote[s] /\ Len(output'[s]) = Len(output[s]) + 1 /\ wrote'[s] = wrote[s] + 1
      BY <2>2, <3>1, <3>2 DEF CopyInv
    <3>3. Moved(s) \in Nat /\ Moved(s)' = Moved(s) /\ wrote[s] + 1 = Moved(s) + Len(output[s]) + 1
      BY <2>2, <3>2, <3>0 DEF Moved
    <3>4. Follow(output'[s], Moved(s))
      BY <2>2, <3>1, <3>3, FollowAppend DEF CopyInv
    <3>5. Len(output'[s]) <= wrote'[s] /\ ~(tty /\ s = "stderr")
      BY <2>1, <2>2, <2>4, <3>1, <3>2 DEF CopyInv
    <3>6. copier[s] = "done" => Gone
      BY <2>1, <2>2, <3>5 DEF CopyInv
    <3> QED
      BY <2>1, <2>2, <3>3, <3>4, <3>5, <3>6 DEF CopyInv, Gone
  <2> QED
    BY <2>3, <2>4
<1> USE DEF IInv, TypeOK, vars, fixed, clientVars, serverVars, pumpVars, copyVars,
    childVars, pipeVars, clientOnly, sessionOnly, copyOnly, pumpOnly, childOnly, SendUp,
    SendDown, Receives, PumpReads, Closed, Gone, Frame, FrameKinds, Streams, CopyInv, Moved
<1>4. ASSUME StartForwarding PROVE CopyInv(s)'
  BY <1>4 DEF StartForwarding
<1>5. ASSUME RelayNotice PROVE CopyInv(s)'
  BY <1>5 DEF RelayNotice
<1>6. ASSUME RelayExit PROVE CopyInv(s)'
  BY <1>6 DEF RelayExit
<1>7. ASSUME ReadFails PROVE CopyInv(s)'
  BY <1>7 DEF ReadFails
<1>8. ASSUME Quit PROVE CopyInv(s)'
  BY <1>8 DEF Quit
<1>9. ASSUME ForwardRead PROVE CopyInv(s)'
  BY <1>9 DEF ForwardRead
<1>10. ASSUME ForwardSend PROVE CopyInv(s)'
  BY <1>10 DEF ForwardSend
<1>11. ASSUME ForwardEnd PROVE CopyInv(s)'
  BY <1>11 DEF ForwardEnd
<1>12. ASSUME ForwardClose PROVE CopyInv(s)'
  BY <1>12 DEF ForwardClose
<1>13. ASSUME ForwardTooLate PROVE CopyInv(s)'
  BY <1>13 DEF ForwardTooLate
<1>14. ASSUME ForwardFails PROVE CopyInv(s)'
  BY <1>14 DEF ForwardFails
<1>15. ASSUME Interrupt PROVE CopyInv(s)'
  BY <1>15 DEF Interrupt
<1>16. ASSUME ForwardSignal PROVE CopyInv(s)'
  BY <1>16 DEF ForwardSignal
<1>17. ASSUME ReadStart PROVE CopyInv(s)'
  BY <1>17 DEF ReadStart
<1>18. ASSUME AskOperator PROVE CopyInv(s)'
  BY <1>18 DEF AskOperator
<1>19. ASSUME SendReady PROVE CopyInv(s)'
  BY <1>19 DEF SendReady
<1>20. ASSUME ReadyFails PROVE CopyInv(s)'
  BY <1>20 DEF ReadyFails
<1>21. ASSUME StartFails PROVE CopyInv(s)'
  BY <1>21 DEF StartFails
<1>22. ASSUME Reap PROVE CopyInv(s)'
  BY <1>22 DEF Reap
<1>23. ASSUME SendExit PROVE CopyInv(s)'
  BY <1>23 DEF SendExit
<1>24. ASSUME ExitFails PROVE CopyInv(s)'
  BY <1>24 DEF ExitFails
<1>25. ASSUME Close PROVE CopyInv(s)'
  BY <1>25 DEF Close
<1>26. ASSUME PumpTakes PROVE CopyInv(s)'
  BY <1>26 DEF PumpTakes
<1>27. ASSUME PumpWrites PROVE CopyInv(s)'
  BY <1>27 DEF PumpWrites
<1>28. ASSUME PumpCloses PROVE CopyInv(s)'
  BY <1>28 DEF PumpCloses
<1>29. ASSUME PumpSignals PROVE CopyInv(s)'
  BY <1>29 DEF PumpSignals
<1>30. ASSUME PumpEnds PROVE CopyInv(s)'
  BY <1>30 DEF PumpEnds
<1>31. ASSUME CommandReads PROVE CopyInv(s)'
  BY <1>31 DEF CommandReads
<1>32. ASSUME CommandShutsInput PROVE CopyInv(s)'
  BY <1>32 DEF CommandShutsInput
<1>33. ASSUME CommandExits PROVE CopyInv(s)'
  BY <1>33 DEF CommandExits
<1>34. ASSUME NEW r \in Streams, RelayOutput(r) PROVE CopyInv(s)'
  BY <1>34 DEF RelayOutput
<1>35. ASSUME NEW r \in Streams, CopySends(r) PROVE CopyInv(s)'
  BY <1>35 DEF CopySends
<1>36. ASSUME NEW r \in Streams, CopyEnds(r) PROVE CopyInv(s)'
  BY <1>36 DEF CopyEnds
<1>37. ASSUME NEW to \in {"readying", "exiting"}, Decide(to) PROVE CopyInv(s)'
  BY <1>37 DEF Decide
<1> QED
  BY <1>1, <1>2, <1>3, <1>4, <1>5, <1>6, <1>7, <1>8, <1>9, <1>10, <1>11, <1>12, <1>13,
     <1>14, <1>15, <1>16, <1>17, <1>18, <1>19, <1>20, <1>21, <1>22, <1>23, <1>24, <1>25,
     <1>26, <1>27, <1>28, <1>29, <1>30, <1>31, <1>32, <1>33, <1>34, <1>35, <1>36, <1>37
     DEF Next, ClientStep, ForwarderStep, SessionStep, AuthorizeStep, CopyStep, PumpStep

\* What is on its way to the client stays what it has not shown.
LEMMA DownInvStep == ASSUME IInv, Next, NEW s \in Streams PROVE DownInv(s)'
<1> USE StreamAssumption
<1>1. ASSUME StartForwarding PROVE DownInv(s)'
  <2>1. /\ down # <<>> /\ Head(down).kind = "ready" /\ down' = Tail(down) /\ ~Gone
        /\ client' # "exited" /\ UNCHANGED <<shown, wrote, output, copier>>
    BY <1>1 DEF StartForwarding, Receives, clientVars, clientOnly, copyVars, childVars,
       pipeVars, Gone
  <2> QED
    BY <2>1, OtherReceived DEF Streams, Sent, Moved
<1>2. ASSUME RelayNotice PROVE DownInv(s)'
  <2>1. /\ down # <<>> /\ Head(down).kind = "notice" /\ down' = Tail(down) /\ ~Gone
        /\ client' # "exited" /\ UNCHANGED <<shown, wrote, output, copier>>
    BY <1>2 DEF RelayNotice, Receives, clientVars, clientOnly, copyVars, childVars,
       pipeVars, Gone
  <2> QED
    BY <2>1, OtherReceived DEF Streams, Sent, Moved
<1>3. ASSUME RelayExit PROVE DownInv(s)'
  <2>1. /\ down \in Seq(DownFrames) /\ down # <<>> /\ Head(down).kind = "exit" /\ down' = Tail(down)
        /\ ~Gone /\ client' = "exited"
        /\ UNCHANGED <<shown, wrote, answered>>
    BY <1>3 DEF RelayExit, Receives, clientOnly, childVars, serverVars, IInv, TypeOK,
       DownFrames
  <2>2. Has(down, "exit") /\ ~Has(down, s)
    BY <2>1 DEF Has, IInv, ExitInv, After, Streams
  <2>3. ASSUME answered PROVE Len(shown[s]) = wrote[s]
    <3>1. copier[s] = "done" /\ output[s] = <<>>
      BY <2>1, <2>2, <2>3 DEF IInv, ExitInv, PhaseInv, CopyInv, Gone
    <3>2. Sent(s) = wrote[s] /\ wrote[s] \in Nat /\ Len(shown[s]) \in Nat
      BY <3>1 DEF Sent, Moved, IInv, TypeOK
    <3>3. Carries(down, s, Len(shown[s]) + 1, Sent(s)) /\ Len(shown[s]) <= Sent(s)
      BY <2>1 DEF IInv, DownInv
    <3>4. Sent(s) < Len(shown[s]) + 1
      BY <2>1, <2>2, <3>2, <3>3, CarriesNone
    <3> QED
      BY <3>2, <3>3, <3>4
  <2> QED
    BY <2>1, <2>3 DEF IInv, DownInv, Gone
<1>4. ASSUME AskOperator PROVE DownInv(s)'
  <2>1. /\ down' = down \/ down' = Append(down, Frame("notice", 0))
        /\ UNCHANGED <<client, answered, shown, wrote, output, copier>>
    BY <1>4 DEF AskOperator, SendDown, sessionOnly, clientVars, copyVars, childVars, pipeVars
  <2>2. Frame("notice", 0) \in DownFrames /\ Frame("notice", 0).kind # s
    BY DEF DownFrames, Frame, FrameKinds, Streams
  <2> QED
    BY <2>1, <2>2, OtherSent DEF Sent, Moved
<1>5. ASSUME SendReady PROVE DownInv(s)'
  <2>1. /\ down' = down \/ down' = Append(down, Frame("ready", 0))
        /\ UNCHANGED <<client, answered, shown, wrote, output, copier>>
    BY <1>5 DEF SendReady, SendDown, sessionOnly, clientVars, copyVars, childVars, pipeVars
  <2>2. Frame("ready", 0) \in DownFrames /\ Frame("ready", 0).kind # s
    BY DEF DownFrames, Frame, FrameKinds, Streams
  <2> QED
    BY <2>1, <2>2, OtherSent DEF Sent, Moved
<1>6. ASSUME SendExit PROVE DownInv(s)'
  <2>1. /\ down' = down \/ down' = Append(down, Frame("exit", 0))
        /\ UNCHANGED <<client, answered, shown, wrote, output, copier>>
    BY <1>6 DEF SendExit, SendDown, sessionOnly, clientVars, copyVars, childVars, pipeVars
  <2>2. Frame("exit", 0) \in DownFrames /\ Frame("exit", 0).kind # s
    BY DEF DownFrames, Frame, FrameKinds, Streams
  <2> QED
    BY <2>1, <2>2, OtherSent DEF Sent, Moved
<1>7. ASSUME NEW r \in Streams, RelayOutput(r) PROVE DownInv(s)'
  <2>1. /\ down \in Seq(DownFrames) /\ down # <<>> /\ Head(down).kind = r /\ down' = Tail(down)
        /\ ~Gone /\ client' = client /\ client = "relaying"
        /\ shown' = [shown EXCEPT ![r] = Append(shown[r], Head(down).chunk)]
        /\ UNCHANGED <<wrote, output, copier, answered>>
    BY <1>7 DEF RelayOutput, Receives, clientOnly, childVars, copyVars, pipeVars,
       serverVars, IInv, TypeOK, DownFrames
  <2>2. Sent(s)' = Sent(s) /\ shown[s] \in Seq(1 .. MaxOut) /\ s \in DOMAIN shown
    BY <2>1 DEF Sent, Moved, IInv, TypeOK
  <2>3. CASE r # s
    BY <2>1, <2>2, <2>3, OtherReceived
  <2>4. CASE r = s
    <3>1. Len(shown[s]) \in Nat /\ Sent(s) \in Nat /\ Sent(s) <= wrote[s] /\ wrote[s] \in Nat
      BY SentIsANumber
    <3>2. Carries(down, s, Len(shown[s]) + 1, Sent(s)) /\ shown[s] = Upto(Len(shown[s]))
      BY <2>1 DEF IInv, DownInv
    <3>3. /\ Head(down).chunk = Len(shown[s]) + 1 /\ Len(shown[s]) + 1 <= Sent(s)
          /\ Carries(down', s, (Len(shown[s]) + 1) + 1, Sent(s))
      BY <2>1, <2>4, <3>1, <3>2, TailFirst
    <3>4. shown'[s] = Append(shown[s], Len(shown[s]) + 1)
      BY <2>1, <2>2, <2>4, <3>3
    <3>5. shown'[s] = Upto(Len(shown[s]) + 1) /\ Len(shown'[s]) = Len(shown[s]) + 1
      <4>1. Append(Upto(Len(shown[s])), Len(shown[s]) + 1) = Upto(Len(shown[s]) + 1)
        BY <3>1, UptoGrows
      <4>2. Len(shown'[s]) = Len(shown[s]) + 1
        BY <2>2, <3>1, <3>4, AppendProperties
      <4> QED
        BY <3>2, <3>4, <4>1, <4>2
    <3>6. Len(shown'[s]) <= wrote'[s]
      BY <2>1, <3>1, <3>3, <3>5
    <3> QED
      BY <2>1, <2>2, <3>3, <3>5, <3>6 DEF DownInv
  <2> QED
    BY <2>3, <2>4
<1>8. ASSUME NEW r \in Streams, CopyTakes(r) PROVE DownInv(s)'
  <2>1. /\ output[r] # <<>> /\ copier[r] = "copying" /\ UNCHANGED <<client, shown, down, answered, wrote>>
        /\ output' = [output EXCEPT ![r] = Tail(output[r])]
        /\ copier' = [copier EXCEPT ![r] = "sending"]
    BY <1>8 DEF CopyTakes, copyOnly, clientVars, childVars, serverVars
  <2>2. /\ output[s] \in Seq(Nat) /\ wrote[s] \in Nat /\ s \in DOMAIN output /\ s \in DOMAIN copier
    BY SMTT(30) DEF IInv, TypeOK
  <2>3. Sent(s)' = Sent(s)
    <3>1. CASE r # s
      BY <2>1, <2>2, <3>1 DEF Sent, Moved
    <3>2. CASE r = s
      <4>1. Len(output'[s]) = Len(output[s]) - 1 /\ Len(output[s]) \in Nat /\ copier'[s] = "sending"
        BY <2>1, <2>2, <3>2, HeadTailProperties, LenProperties
      <4>2. Moved(s) \in Int /\ Moved(s)' = Moved(s) + 1
        <5>1. wrote' = wrote /\ wrote[s] \in Nat
          BY <2>1, <2>2
        <5> QED
          BY <4>1, <5>1 DEF Moved
      <4>3. Sent(s) = Moved(s) /\ Sent(s)' = Moved(s)' - 1
        BY <2>1, <3>2, <4>1 DEF Sent
      <4> QED
        BY <4>2, <4>3
    <3> QED
      BY <3>1, <3>2
  <2> QED
    BY <2>1, <2>3 DEF IInv, DownInv, Gone
<1>9. ASSUME NEW r \in Streams, CopySends(r) PROVE DownInv(s)'
  <2>1. /\ copier[r] = "sending" /\ down' = Append(down, Frame(r, carried[r]))
        /\ copier' = [copier EXCEPT ![r] = "copying"]
        /\ UNCHANGED <<client, shown, answered, wrote, output>>
    BY <1>9 DEF CopySends, SendDown, copyOnly, clientVars, childVars, serverVars
  <2>2. /\ down \in Seq(DownFrames) /\ Frame(r, carried[r]) \in DownFrames
        /\ Frame(r, carried[r]).kind = r /\ Frame(r, carried[r]).chunk = carried[r]
        /\ r \in DOMAIN copier /\ s \in DOMAIN copier
    BY DEF IInv, TypeOK, DownFrames, Frame, FrameKinds, Streams
  <2>3. CASE r # s
    <3>1. Sent(s)' = Sent(s)
      BY <2>1, <2>2, <2>3 DEF Sent, Moved
    <3> QED
      BY <2>1, <2>2, <2>3, <3>1, OtherSent
  <2>4. CASE r = s
    <3>1. Len(shown[s]) \in Nat /\ Sent(s) \in Nat /\ Sent(s) <= wrote[s] /\ wrote[s] \in Nat
      BY SentIsANumber
    <3>2. carried[s] = Sent(s) + 1 /\ Sent(s)' = Sent(s) + 1
      <4>1. carried[s] = Moved(s) /\ Moved(s)' = Moved(s) /\ Sent(s) = Moved(s) - 1
        BY <2>1, <2>4 DEF IInv, CopyInv, Sent, Moved
      <4>2. Sent(s)' = Moved(s)'
        BY <2>1, <2>2, <2>4 DEF Sent
      <4>3. Moved(s) \in Int
        BY SMTT(30) DEF IInv, TypeOK, Moved
      <4> QED
        BY <4>1, <4>2, <4>3
    <3>3. ASSUME ~Gone
          PROVE  Len(shown[s]) <= Sent(s) + 1 /\ Carries(down', s, Len(shown[s]) + 1, Sent(s) + 1)
      <4>1. Len(shown[s]) <= Sent(s) /\ Carries(down, s, Len(shown[s]) + 1, Sent(s))
        BY <3>3 DEF IInv, DownInv
      <4>2. Len(shown[s]) + 1 <= Sent(s) + 1
        BY <3>1, <4>1
      <4> QED
        BY <2>1, <2>2, <2>4, <3>1, <3>2, <4>1, <4>2, AppendNext
    <3> QED
      BY <2>1, <3>2, <3>3 DEF IInv, DownInv, Gone
  <2> QED
    BY <2>3, <2>4
<1>10. ASSUME NEW r \in Streams, CommandWrites(r) PROVE DownInv(s)'
  <2>1. /\ wrote' = [wrote EXCEPT ![r] = wrote[r] + 1]
        /\ output' = [output EXCEPT ![r] = Append(output[r], wrote'[r])]
        /\ child = "alive"
        /\ UNCHANGED <<client, shown, down, answered, copier, session>>
    BY <1>10 DEF CommandWrites, childOnly, clientVars, copyVars, serverVars
  <2>2. /\ output[s] \in Seq(Nat) /\ wrote[s] \in Nat /\ s \in DOMAIN output /\ s \in DOMAIN wrote
        /\ Len(shown[s]) \in Nat
    BY SMTT(30) DEF IInv, TypeOK
  <2>3. Sent(s)' = Sent(s) /\ wrote[s] <= wrote'[s]
    <3>1. CASE r # s
      BY <2>1, <2>2, <3>1 DEF Sent, Moved
    <3>2. CASE r = s
      <4>1. wrote'[s] = wrote[s] + 1 /\ output'[s] = Append(output[s], wrote[s] + 1)
        BY <2>1, <2>2, <3>2
      <4>2. Len(output'[s]) = Len(output[s]) + 1 /\ Len(output[s]) \in Nat
        BY <2>2, <4>1
      <4> QED
        BY SMTT(30), <2>1, <2>2, <4>1, <4>2 DEF Sent, Moved
    <3> QED
      BY <3>1, <3>2
  <2>4. ~(client = "exited" /\ answered)
    BY <2>1 DEF IInv, PhaseInv, ExitInv
  <2>5. Len(shown[s]) <= wrote'[s]
    BY <2>1, <2>2, <2>3 DEF IInv, DownInv
  <2> QED
    BY <2>1, <2>3, <2>4, <2>5 DEF IInv, DownInv, Gone
<1> USE DEF IInv, TypeOK, vars, fixed, clientVars, serverVars, pumpVars, copyVars,
    childVars, pipeVars, clientOnly, sessionOnly, copyOnly, pumpOnly, childOnly, SendUp,
    SendDown, Receives, PumpReads, Closed, Gone, Frame, FrameKinds, Streams, DownInv, Moved,
    Sent, EarlyInv, PhaseInv, CopyInv
<1>11. ASSUME ReadFails PROVE DownInv(s)'
  BY <1>11 DEF ReadFails
<1>12. ASSUME Quit PROVE DownInv(s)'
  BY <1>12 DEF Quit
<1>13. ASSUME ForwardRead PROVE DownInv(s)'
  BY <1>13 DEF ForwardRead
<1>14. ASSUME ForwardSend PROVE DownInv(s)'
  BY <1>14 DEF ForwardSend
<1>15. ASSUME ForwardEnd PROVE DownInv(s)'
  BY <1>15 DEF ForwardEnd
<1>16. ASSUME ForwardClose PROVE DownInv(s)'
  BY <1>16 DEF ForwardClose
<1>17. ASSUME ForwardTooLate PROVE DownInv(s)'
  BY <1>17 DEF ForwardTooLate
<1>18. ASSUME ForwardFails PROVE DownInv(s)'
  BY <1>18 DEF ForwardFails
<1>19. ASSUME Interrupt PROVE DownInv(s)'
  BY <1>19 DEF Interrupt
<1>20. ASSUME ForwardSignal PROVE DownInv(s)'
  BY <1>20 DEF ForwardSignal
<1>21. ASSUME ReadStart PROVE DownInv(s)'
  BY <1>21 DEF ReadStart
<1>22. ASSUME ReadyFails PROVE DownInv(s)'
  BY <1>22 DEF ReadyFails
<1>23. ASSUME StartCommand PROVE DownInv(s)'
  BY <1>23 DEF StartCommand
<1>24. ASSUME StartFails PROVE DownInv(s)'
  BY <1>24 DEF StartFails
<1>25. ASSUME Reap PROVE DownInv(s)'
  BY <1>25 DEF Reap
<1>26. ASSUME ExitFails PROVE DownInv(s)'
  BY <1>26 DEF ExitFails
<1>27. ASSUME Close PROVE DownInv(s)'
  BY <1>27 DEF Close
<1>28. ASSUME PumpTakes PROVE DownInv(s)'
  BY <1>28 DEF PumpTakes
<1>29. ASSUME PumpWrites PROVE DownInv(s)'
  BY <1>29 DEF PumpWrites
<1>30. ASSUME PumpCloses PROVE DownInv(s)'
  BY <1>30 DEF PumpCloses
<1>31. ASSUME PumpSignals PROVE DownInv(s)'
  BY <1>31 DEF PumpSignals
<1>32. ASSUME PumpEnds PROVE DownInv(s)'
  BY <1>32 DEF PumpEnds
<1>33. ASSUME CommandReads PROVE DownInv(s)'
  BY <1>33 DEF CommandReads
<1>34. ASSUME CommandShutsInput PROVE DownInv(s)'
  BY <1>34 DEF CommandShutsInput
<1>35. ASSUME CommandExits PROVE DownInv(s)'
  BY <1>35 DEF CommandExits
<1>36. ASSUME NEW r \in Streams, CopyEnds(r) PROVE DownInv(s)'
  BY <1>36 DEF CopyEnds
<1>37. ASSUME NEW to \in {"readying", "exiting"}, Decide(to) PROVE DownInv(s)'
  BY <1>37 DEF Decide
<1> QED
  BY <1>1, <1>2, <1>3, <1>4, <1>5, <1>6, <1>7, <1>8, <1>9, <1>10, <1>11, <1>12, <1>13,
     <1>14, <1>15, <1>16, <1>17, <1>18, <1>19, <1>20, <1>21, <1>22, <1>23, <1>24, <1>25,
     <1>26, <1>27, <1>28, <1>29, <1>30, <1>31, <1>32, <1>33, <1>34, <1>35, <1>36, <1>37
     DEF Next, ClientStep, ForwarderStep, SessionStep, AuthorizeStep, CopyStep, PumpStep

--------------------------------------------------------------------------
(* The theorems *)

LEMMA InitIInv == Init => IInv
<1> SUFFICES ASSUME Init PROVE IInv
  OBVIOUS
<1> USE StreamAssumption DEF Init, Frame, FrameKinds, Streams
<1>1. Frame("start", 0) \in UpFrames
  BY DEF UpFrames
<1>2. /\ up = <<Frame("start", 0)>> /\ up \in Seq(UpFrames) /\ Len(up) = 1
      /\ down = <<>> /\ pipe = <<>> /\ consumed = <<>>
  BY <1>1
<1>3. TypeOK
  <2>1. <<>> \in Seq(1 .. MaxOut) /\ <<>> \in Seq(1 .. MaxIn) /\ <<>> \in Seq(DownFrames)
        /\ 0 \in 0 .. MaxIn /\ 0 \in 0 .. MaxOut /\ 0 \in 0 .. supply
    BY EmptySeq
  <2>2. /\ shown \in [Streams -> Seq(1 .. MaxOut)] /\ output \in [Streams -> Seq(1 .. MaxOut)]
        /\ carried \in [Streams -> 0 .. MaxOut] /\ wrote \in [Streams -> 0 .. MaxOut]
        /\ copier \in [Streams -> {"off", "copying", "sending", "done"}]
    BY <2>1
  <2>3. /\ tty \in BOOLEAN /\ supply \in 0 .. MaxIn
        /\ client = "waiting" /\ forward = "off" /\ taken = 0 /\ interrupt = "none"
        /\ reset = FALSE /\ session = "opening" /\ answered = FALSE
        /\ pump = "off" /\ pumped = 0 /\ input = "open" /\ child = "none" /\ sawEnd = FALSE
    OBVIOUS
  <2> HIDE DEF Init, Frame, FrameKinds, Streams
  <2>4. up \in Seq(UpFrames) /\ Len(up) <= Wire
    BY <1>2
  <2>5. /\ down \in Seq(DownFrames) /\ Len(down) <= Wire
        /\ pipe \in Seq(1 .. MaxIn) /\ Len(pipe) <= Room /\ consumed \in Seq(1 .. MaxIn)
    BY <1>2, <2>1
  <2>6. taken \in 0 .. supply /\ pumped \in 0 .. MaxIn
    BY <2>1, <2>3
  <2> QED
    BY <2>2, <2>3, <2>4, <2>5, <2>6 DEF TypeOK, UpFrames, DownFrames
<1>4. EarlyInv /\ PhaseInv
  BY <1>2 DEF EarlyInv, PhaseInv, Early
<1>5. Carries(up, "stdin", 0 + 1, 0) /\ ~Has(up, "stdin-close")
  BY <1>2 DEF Carries, Has
<1>6. Upto(0) = <<>> /\ Follow(<<>>, 0)
  BY DEF Upto, Follow
<1>7. PipeInv /\ UpInv /\ EndInv
  BY <1>2, <1>5, <1>6 DEF PipeInv, UpInv, EndInv, After, Has, Piped, InHand, Forwarded, Closed
<1>8. ExitInv
  BY <1>2 DEF ExitInv, Has, After
<1>9. ASSUME NEW s \in Streams PROVE CopyInv(s) /\ DownInv(s)
  <2>1. Carries(<<>>, s, 0 + 1, 0)
    BY CarriesNothing
  <2> QED
    BY <1>2, <1>6, <2>1 DEF CopyInv, DownInv, Moved, Sent
<1>. QED
  BY <1>3, <1>4, <1>7, <1>8, <1>9 DEF IInv

LEMMA StepIInv == IInv /\ [Next]_vars => IInv'
<1> SUFFICES ASSUME IInv, [Next]_vars PROVE IInv'
  OBVIOUS
<1>1. CASE Next
  BY <1>1, TypeOKStep, EarlyInvStep, PhaseInvStep, PipeInvStep, UpInvStep, EndInvStep,
     ExitInvStep, CopyInvStep, DownInvStep DEF IInv
<1>2. CASE UNCHANGED vars
  <2> USE <1>2 DEF vars, fixed, clientVars, serverVars, pumpVars, copyVars, childVars,
      pipeVars
  <2>1. TypeOK' /\ EarlyInv' /\ PhaseInv'
    BY DEF IInv, TypeOK, EarlyInv, PhaseInv
  <2>2. PipeInv' /\ UpInv' /\ EndInv'
    BY DEF IInv, PipeInv, UpInv, EndInv, Piped, InHand, Forwarded, Closed
  <2>3. ExitInv' /\ \A s \in Streams : CopyInv(s)' /\ DownInv(s)'
    BY DEF IInv, ExitInv, CopyInv, DownInv, Moved, Sent, Gone
  <2> QED
    BY <2>1, <2>2, <2>3 DEF IInv
<1>. QED
  BY <1>1, <1>2

\* TypeOK: whatever the sizes, the connection and the pipes keep to their room.
THEOREM StreamTypeCorrect == Spec => []TypeOK
<1>1. IInv => TypeOK
  BY DEF IInv
<1>. QED
  BY <1>1, InitIInv, StepIInv, PTL DEF Spec

\* A client that reports a command's exit code has written all of its output first,
\* and in order (server.go:502-515, client.go:180-213).
THEOREM ExitComesAfterOutput == Spec => []ExitAfterOutput
<1>1. IInv => ExitAfterOutput
  <2> SUFFICES ASSUME IInv, client = "exited", answered, NEW s \in Streams
               PROVE  shown[s] = Upto(wrote[s])
    BY DEF ExitAfterOutput
  <2> QED
    BY DEF IInv, DownInv
<1>. QED
  BY <1>1, InitIInv, StepIInv, PTL DEF Spec

\* A command reads its caller's stdin without a gap from its first chunk on, and the
\* end of it only after all of it (server.go:379-386, 530-558, client.go:108-162).
THEOREM StdinArrivesIntact == Spec => []StdinIntact
<1>1. IInv => StdinIntact
  BY DEF IInv, PipeInv, StdinIntact
<1>. QED
  BY <1>1, InitIInv, StepIInv, PTL DEF Spec
==========================================================================
