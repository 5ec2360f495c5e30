------------------------------ MODULE Frames -----------------------------
(***************************************************************************)
(* One direction of a framed connection (internal/protocol): goroutines    *)
(* that share a protocol.Writer, the bytes on the wire, and the one        *)
(* goroutine with the protocol.Reader.                                     *)
(*                                                                         *)
(* A writer's payload bytes are numbered, and each header byte carries the *)
(* header it is part of, so a reader that is led astray shows.  A frame of *)
(* another kind has another writer.                                        *)
(*                                                                         *)
(* Bounds: HeaderLen and MaxPayload stand for the code's 5 and 2^20; each  *)
(* writer makes MaxCalls writes of at most MaxWrite bytes; the wire holds  *)
(* Room bytes.                                                             *)
(***************************************************************************)
EXTENDS Naturals, Sequences

CONSTANTS Writers, NoWriter, HeaderLen, MaxPayload, MaxCalls, MaxWrite, Room

ASSUME FramesAssumption ==
    /\ Writers # {} /\ NoWriter \notin Writers
    /\ HeaderLen \in Nat \ {0} /\ MaxPayload \in Nat \ {0}
    /\ MaxCalls \in Nat /\ MaxWrite \in Nat /\ Room \in Nat \ {0}

VARIABLES
    mu,        \* who holds Writer.mu
    pc,        \* each writer: "idle", "locking", "header" or "payload"
    calls,     \* writes it has made
    taken,     \* bytes of its stream that are in frames so far
    left,      \* bytes of its current write that are not
    rest,      \* bytes of its current header or payload not yet written
    wire,      \* bytes on their way
    broken,    \* the connection has ended
    got,       \* bytes of the frame being read
    ended,     \* what ReadFrame last returned: "no", "eof" or "truncated"
    sent,      \* history: the frames written, each at its last byte
    received   \* the frames ReadFrame has returned

writerVars == <<mu, pc, calls, taken, left, rest, sent>>
readerVars == <<got, ended, received>>
vars       == <<writerVars, wire, broken, readerVars>>

Header(w, n) ==
    [i \in 1 .. HeaderLen |-> [part |-> "header", writer |-> w, length |-> n, index |-> i]]

\* The n bytes of w's stream that follow its first k.
Payload(w, k, n) ==
    [i \in 1 .. n |-> [part |-> "payload", writer |-> w, length |-> 0, index |-> k + i]]

Frame(w, payload) == [kind |-> w, payload |-> payload]

Chunk(w) == IF left[w] < MaxPayload THEN left[w] ELSE MaxPayload

Init ==
    /\ mu = NoWriter
    /\ pc = [w \in Writers |-> "idle"]
    /\ calls = [w \in Writers |-> 0]
    /\ taken = [w \in Writers |-> 0] /\ left = [w \in Writers |-> 0]
    /\ rest = [w \in Writers |-> <<>>]
    /\ wire = <<>> /\ broken = FALSE
    /\ got = <<>> /\ ended = "no"
    /\ sent = <<>> /\ received = <<>>

--------------------------------------------------------------------------
(* Writer and streamWriter *)

\* A write to a stream, or a single frame; one without payload is n = 0.
Begin(w, n) ==
    /\ pc[w] = "idle" /\ calls[w] < MaxCalls
    /\ calls' = [calls EXCEPT ![w] = @ + 1]
    /\ left' = [left EXCEPT ![w] = n]
    /\ pc' = [pc EXCEPT ![w] = "locking"]
    /\ UNCHANGED <<mu, taken, rest, sent, wire, broken, readerVars>>

StartHeader(w, n) ==
    /\ pc[w] = "locking"
    /\ mu' = w
    /\ pc' = [pc EXCEPT ![w] = "header"]
    /\ rest' = [rest EXCEPT ![w] = Header(w, n)]
    /\ UNCHANGED <<calls, taken, left, sent, wire, broken, readerVars>>

\* Mutant of Lock: nobody waits for the mutex.
LockAnyway(w) == StartHeader(w, Chunk(w))

\* Mutant of Lock: the whole of a long write goes into one frame.
LockUnsplit(w) == mu = NoWriter /\ StartHeader(w, left[w])

Lock(w) == mu = NoWriter /\ StartHeader(w, Chunk(w))

\* The length in the header being written.
Length(w) == rest[w][1].length

LastOfHeader(w) == pc[w] = "header" /\ Len(rest[w]) = 1

\* One byte of a conn.Write, which blocks while the wire is full.
PutByte(w) ==
    /\ pc[w] \in {"header", "payload"} /\ ~broken /\ Len(wire) < Room
    /\ wire' = Append(wire, Head(rest[w]))

WriteByte(w) ==
    /\ PutByte(w) /\ Len(rest[w]) > 1
    /\ rest' = [rest EXCEPT ![w] = Tail(@)]
    /\ UNCHANGED <<mu, pc, calls, taken, left, sent, broken, readerVars>>

\* The header is written, and the payload is next.
FinishHeader(w) ==
    /\ PutByte(w) /\ LastOfHeader(w) /\ Length(w) > 0
    /\ pc' = [pc EXCEPT ![w] = "payload"]
    /\ rest' = [rest EXCEPT ![w] = Payload(w, taken[w], Length(w))]
    /\ UNCHANGED <<mu, calls, taken, left, sent, broken, readerVars>>

\* WriteFrame returns; a stream goes on with what is left of its write.
FrameDone(w, size) ==
    /\ sent' = Append(sent, Frame(w, Payload(w, taken[w], size)))
    /\ taken' = [taken EXCEPT ![w] = @ + size]
    /\ left' = [left EXCEPT ![w] = @ - size]
    /\ rest' = [rest EXCEPT ![w] = <<>>]
    /\ pc' = [pc EXCEPT ![w] = IF left[w] > size THEN "locking" ELSE "idle"]
    /\ UNCHANGED <<calls, broken, readerVars>>

\* Mutant of FinishEmpty: the early return keeps the mutex.
FinishEmptyLocked(w) ==
    /\ PutByte(w) /\ LastOfHeader(w) /\ Length(w) = 0
    /\ FrameDone(w, 0) /\ UNCHANGED mu

FinishEmpty(w) ==
    /\ PutByte(w) /\ LastOfHeader(w) /\ Length(w) = 0
    /\ FrameDone(w, 0) /\ mu' = NoWriter

\* Mutant of FinishPayload: the stream does not move on to its next bytes.
FinishAgain(w) ==
    /\ PutByte(w) /\ pc[w] = "payload" /\ Len(rest[w]) = 1
    /\ sent' = Append(sent, Frame(w, Payload(w, taken[w], Chunk(w))))
    /\ left' = [left EXCEPT ![w] = @ - Chunk(w)]
    /\ rest' = [rest EXCEPT ![w] = <<>>]
    /\ pc' = [pc EXCEPT ![w] = IF left'[w] > 0 THEN "locking" ELSE "idle"]
    /\ mu' = NoWriter
    /\ UNCHANGED <<calls, taken, broken, readerVars>>

FinishPayload(w) ==
    /\ PutByte(w) /\ pc[w] = "payload" /\ Len(rest[w]) = 1
    /\ FrameDone(w, Chunk(w)) /\ mu' = NoWriter

\* A failed conn.Write ends the call, whatever part of the frame is written.
WriteFails(w) ==
    /\ pc[w] \in {"header", "payload"} /\ broken
    /\ pc' = [pc EXCEPT ![w] = "idle"]
    /\ left' = [left EXCEPT ![w] = 0] /\ rest' = [rest EXCEPT ![w] = <<>>]
    /\ mu' = NoWriter
    /\ UNCHANGED <<calls, taken, sent, wire, broken, readerVars>>

--------------------------------------------------------------------------
(* The connection and the Reader *)

\* The connection is closed or reset, with a part of what was on it.
Break ==
    /\ ~broken
    /\ broken' = TRUE
    /\ \E k \in 0 .. Len(wire) : wire' = SubSeq(wire, 1, k)
    /\ UNCHANGED <<writerVars, readerVars>>

\* ReadFull of a header and of the payload it declares.
Complete(bytes) ==
    Len(bytes) >= HeaderLen /\ Len(bytes) = HeaderLen + bytes[1].length

ReadByte ==
    /\ ended = "no" /\ wire # <<>>
    /\ wire' = Tail(wire)
    /\ LET bytes == Append(got, Head(wire))
       IN  IF Complete(bytes)
           THEN /\ received' = Append(received,
                       Frame(bytes[1].writer, SubSeq(bytes, HeaderLen + 1, Len(bytes))))
                /\ got' = <<>>
           ELSE got' = bytes /\ UNCHANGED received
    /\ UNCHANGED <<writerVars, broken, ended>>

\* The end of the stream.  An error that wraps io.EOF counts as one to the callers,
\* and ReadFull returns that for a payload of which nothing has come.
ReadEnds ==
    /\ ended = "no" /\ wire = <<>> /\ broken
    /\ ended' = IF Len(got) \in {0, HeaderLen} THEN "eof" ELSE "truncated"
    /\ UNCHANGED <<writerVars, wire, broken, got, received>>

--------------------------------------------------------------------------

WriterStep(w) ==
    \/ Lock(w) \/ WriteByte(w) \/ FinishHeader(w) \/ FinishEmpty(w)
    \/ FinishPayload(w) \/ WriteFails(w)

ReaderStep == ReadByte \/ ReadEnds

Next ==
    \/ \E w \in Writers : WriterStep(w) \/ \E n \in 0 .. MaxWrite : Begin(w, n)
    \/ ReaderStep
    \/ Break

Spec == Init /\ [][Next]_vars

\* The goroutines of the writers and of the reader run while one of them can.  Their
\* calls are finite here, so every one of them gets the mutex in its turn.
Fairness == WF_vars((\E w \in Writers : WriterStep(w)) \/ ReaderStep)

FairSpec == Spec /\ Fairness
--------------------------------------------------------------------------

Bytes == [part : {"header", "payload"}, writer : Writers, length : 0 .. MaxPayload,
          index : Nat]

\* Types; the bound on a frame is protocol.go:21.
TypeOK ==
    /\ mu \in Writers \cup {NoWriter}
    /\ pc \in [Writers -> {"idle", "locking", "header", "payload"}]
    /\ calls \in [Writers -> 0 .. MaxCalls]
    /\ taken \in [Writers -> Nat] /\ left \in [Writers -> 0 .. MaxWrite]
    /\ rest \in [Writers -> Seq(Bytes)]
    /\ wire \in Seq(Bytes) /\ Len(wire) <= Room
    /\ broken \in BOOLEAN
    /\ got \in Seq(Bytes) /\ Len(got) < HeaderLen + MaxPayload
    /\ ended \in {"no", "eof", "truncated"}
    /\ {sent, received} \subseteq Seq([kind : Writers, payload : Seq(Bytes)])

\* However the writers interleave and wherever the connection breaks, the reader
\* returns the frames that were written, whole, in order, and nothing made of parts
\* of several (protocol.go:193-205, 254-275).
Queue == INSTANCE FrameQueue WITH
    Frames <- {Frame(w, Payload(w, k, n)) :
                   w \in Writers, k \in 0 .. MaxCalls * MaxWrite, n \in 0 .. MaxPayload}

ImplementsQueue == Queue!QueueSpec

\* Where in w's stream the payload bytes of the first k frames come from.
Places(frames, w, k) ==
    UNION {{frames[i].payload[j].index : j \in 1 .. Len(frames[i].payload)} :
               i \in {m \in 1 .. k : frames[m].kind = w}}

\* The frame k goes on in its stream where the frames before it stopped.
GoesOn(frames, k) ==
    \E n \in 0 .. MaxCalls * MaxWrite :
        LET f == frames[k]
        IN  /\ Places(frames, f.kind, k - 1) = 1 .. n
            /\ f.payload = Payload(f.kind, n, Len(f.payload))

\* A stream cut into frames is put together again without a gap or a repetition:
\* what has been read of it is its beginning, and the next frame goes on from there
\* (protocol.go:227-241).
StreamsInOrder == \A k \in 1 .. Len(received) : GoesOn(received, k)

\* Every write returns: none keeps the mutex, and one that waits for the wire gets
\* it, or an error, while the peer reads (protocol.go:193-204).
CallsReturn == \A w \in Writers : (pc[w] # "idle") ~> (pc[w] = "idle")
==========================================================================
