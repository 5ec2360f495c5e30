--------------------------- MODULE FramesProofs --------------------------
(***************************************************************************)
(* Proofs about Frames.                                                    *)
(*                                                                         *)
(* Every written byte has a place in the line of all frames: the frame k   *)
(* starts behind the first at[k - 1] bytes.  The invariant StreamInv says  *)
(* that what the reader has and what is on the wire, taken together, is    *)
(* the stretch of that line which starts with the first frame not yet      *)
(* returned; Writer.mu makes this inductive, because only its holder adds  *)
(* bytes and they are those of one frame.  The first part proves what the  *)
(* appending, taking and cutting of bytes does to such a stretch (PutOne,  *)
(* Commit, Renew, TakeOne, TakeLast, Cut) and that a reader which trusts   *)
(* the length in the header finds the end of the frame (WholeFrame).       *)
(* The second part has one lemma per action, and the third the frames:     *)
(* those received are the first of those sent (ReadInv), and those sent    *)
(* cut each writer's stream into consecutive pieces (OrderInv).            *)
(***************************************************************************)
EXTENDS Frames, SequenceTheorems, TLAPS

\* What ReadFrame may return: MaxPayload bounds its payload.

FrameSet == {f \in [kind : Writers, payload : Seq(Bytes)] : Len(f.payload) <= MaxPayload}

\* The bytes of a frame on the wire.
Size(f) == HeaderLen + Len(f.payload)

\* The bytes that stand for a frame.
ByteOf(f, i) ==
    IF i <= HeaderLen
    THEN [part |-> "header", writer |-> f.kind, length |-> Len(f.payload), index |-> i]
    ELSE f.payload[i - HeaderLen]

\* The frames written, and then the one that is being written.
Nth(fs, cur, k) == IF k <= Len(fs) THEN fs[k] ELSE cur

\* What the reader has and what is on its way, as one sequence.
Carried(g, b, i) == IF i <= Len(g) THEN g[i] ELSE b[i - Len(g)]

\* The byte i of the frame k is among them: r frames have been read, and the frame k
\* starts behind the first at[k - 1] bytes of all.
Due(fs, r, g, b, at, cur, k, i) ==
    /\ r + 1 <= k /\ k <= Len(fs) + 1
    /\ 1 <= i /\ i <= Size(Nth(fs, cur, k))
    /\ at[k - 1] + i <= at[r] + Len(g) + Len(b)

\* g and b are a stretch of the line of the frames fs and of the first j bytes of cur,
\* from the start of the frame r + 1 on, and g is less than that frame.
Framed(fs, r, g, b, at, cur, j) ==
    /\ fs \in Seq(FrameSet) /\ r \in 0 .. Len(fs)
    /\ g \in Seq(Bytes) /\ b \in Seq(Bytes)
    /\ at \in [Nat -> Nat]
    /\ cur \in FrameSet /\ j \in Nat /\ j <= Size(cur)
    /\ \A k \in 1 .. Len(fs) : at[k] = at[k - 1] + Size(fs[k])
    /\ \A k, m \in 0 .. Len(fs) : k <= m => at[k] <= at[m]
    /\ at[r] + Len(g) + Len(b) <= at[Len(fs)] + j
    /\ Len(g) < Size(Nth(fs, cur, r + 1))
    /\ \A k, i \in Nat : Due(fs, r, g, b, at, cur, k, i) =>
          Carried(g, b, (at[k - 1] + i) - at[r]) = ByteOf(Nth(fs, cur, k), i)

\* The stretch reaches to the last byte written.
Tight(fs, r, g, b, at, j) == at[r] + Len(g) + Len(b) = at[Len(fs)] + j

\* c is b with x behind it; a byte moves from the head of b to the end of g.
Extends(b, x, c) ==
    /\ c \in Seq(Bytes) /\ Len(c) = Len(b) + 1
    /\ \A i \in 1 .. Len(b) : c[i] = b[i]
    /\ c[Len(b) + 1] = x

Moves(g, b, h, c) ==
    /\ Len(b) >= 1 /\ Extends(g, b[1], h)
    /\ c \in Seq(Bytes) /\ Len(c) = Len(b) - 1
    /\ \A i \in 1 .. Len(c) : c[i] = b[i + 1]

\* gs is the frames fs and then f.
Follows(fs, f, gs) ==
    /\ gs \in Seq(FrameSet) /\ Len(gs) = Len(fs) + 1
    /\ \A k \in 1 .. Len(fs) : gs[k] = fs[k]
    /\ gs[Len(fs) + 1] = f

\* The types of what the line is made of.
LEMMA SizeType ==
    \A f \in FrameSet :
        Size(f) \in Nat /\ Size(f) >= HeaderLen /\ Size(f) <= HeaderLen + MaxPayload
BY FramesAssumption, LenProperties DEF Size, FrameSet, FramesAssumption

LEMMA NthType ==
    ASSUME NEW fs \in Seq(FrameSet), NEW cur \in FrameSet, NEW k \in 1 .. Len(fs) + 1
    PROVE  Nth(fs, cur, k) \in FrameSet
BY LenProperties, ElementOfSeq DEF Nth

LEMMA ByteType ==
    ASSUME NEW f \in FrameSet, NEW i \in 1 .. Size(f)
    PROVE  ByteOf(f, i) \in Bytes
<1>. USE FramesAssumption DEF FramesAssumption
<1>1. f.kind \in Writers /\ f.payload \in Seq(Bytes) /\ Len(f.payload) \in 0 .. MaxPayload
  BY LenProperties DEF FrameSet
<1>2. CASE i <= HeaderLen
  BY <1>1, <1>2 DEF ByteOf, Bytes
<1>3. CASE i > HeaderLen
  <2>1. i - HeaderLen \in 1 .. Len(f.payload)
    BY <1>1, <1>3 DEF Size
  <2>2. f.payload[i - HeaderLen] \in Bytes
    BY <1>1, <2>1, ElementOfSeq
  <2>. QED
    BY <1>3, <2>2 DEF ByteOf
<1>. QED
  BY <1>2, <1>3, SizeType

\* What the prover needs to know of the parts of Framed.
LEMMA FramedTypes ==
    ASSUME NEW fs, NEW r, NEW g, NEW b, NEW at, NEW cur, NEW j,
           Framed(fs, r, g, b, at, cur, j)
    PROVE  /\ fs \in Seq(FrameSet) /\ r \in Nat /\ Len(fs) \in Nat /\ r <= Len(fs)
           /\ g \in Seq(Bytes) /\ b \in Seq(Bytes) /\ Len(g) \in Nat /\ Len(b) \in Nat
           /\ at \in [Nat -> Nat] /\ at[r] \in Nat /\ at[Len(fs)] \in Nat
           /\ cur \in FrameSet /\ j \in Nat /\ Size(cur) \in Nat /\ j <= Size(cur)
<1>1. /\ fs \in Seq(FrameSet) /\ r \in 0 .. Len(fs)
      /\ g \in Seq(Bytes) /\ b \in Seq(Bytes)
      /\ at \in [Nat -> Nat] /\ cur \in FrameSet /\ j \in Nat /\ j <= Size(cur)
  BY DEF Framed
<1>2. Len(fs) \in Nat /\ Len(g) \in Nat /\ Len(b) \in Nat
  BY <1>1, LenProperties
<1>3. r \in Nat /\ r <= Len(fs)
  BY <1>1, <1>2
<1>4. Size(cur) \in Nat
  BY <1>1, SizeType
<1>. QED
  BY <1>1, <1>2, <1>3, <1>4

\* Where the byte i of the frame k is, in numbers: the r frames that have been read
\* end at R, the ones written at E, and the frame k starts behind P bytes.
Lies(fs, cur, at, k, i, R, E, P) ==
    /\ P = at[k - 1] /\ R <= P
    /\ k <= Len(fs) => P + i <= E
    /\ k = Len(fs) + 1 => P = E /\ Nth(fs, cur, k) = cur

\* The frame k lies behind all that have been read, and ends before E if it is written.
LEMMA Position ==
    ASSUME NEW fs, NEW r, NEW g, NEW b, NEW at, NEW cur, NEW j,
           Framed(fs, r, g, b, at, cur, j),
           NEW k \in Nat, NEW i \in Nat, r + 1 <= k, k <= Len(fs) + 1,
           1 <= i, i <= Size(Nth(fs, cur, k)),
           NEW R \in Nat, R = at[r], NEW E \in Nat, E = at[Len(fs)]
    PROVE  \E P \in Nat : Lies(fs, cur, at, k, i, R, E, P)
<1>1. /\ fs \in Seq(FrameSet) /\ r \in Nat /\ Len(fs) \in Nat /\ r <= Len(fs)
      /\ at \in [Nat -> Nat] /\ cur \in FrameSet
  BY FramedTypes
<1>2. PICK F \in Nat : F = Len(fs)
  BY <1>1
<1>3. k - 1 \in Nat /\ r <= k - 1 /\ k - 1 <= F /\ k \in 1 .. F + 1 /\ r \in 0 .. F /\ k - 1 \in 0 .. F
  BY <1>1, <1>2
<1>4. Size(Nth(fs, cur, k)) \in Nat
  BY <1>1, <1>2, <1>3, SizeType, NthType
<1>5. PICK P \in Nat : P = at[k - 1]
  BY <1>1, <1>3
<1>6. R <= P
  <2>1. at[r] <= at[k - 1]
    BY <1>2, <1>3 DEF Framed
  <2>. QED
    BY <1>5, <2>1
<1>7. ASSUME k <= Len(fs) PROVE P + i <= E
  <2>1. k \in 1 .. F /\ k \in 0 .. F /\ F \in 0 .. F /\ k <= F
    BY <1>1, <1>2, <1>3, <1>7
  <2>2. at[k] = at[k - 1] + Size(fs[k]) /\ at[k] <= at[F]
    BY <1>2, <2>1 DEF Framed
  <2>3. Nth(fs, cur, k) = fs[k]
    BY <1>7 DEF Nth
  <2>4. PICK Q \in Nat : Q = at[k]
    BY <1>1
  <2>5. PICK z \in Nat : z = Size(Nth(fs, cur, k))
    BY <1>4
  <2>6. Q = P + z /\ Q <= E /\ i <= z
    BY <1>2, <1>5, <2>2, <2>3, <2>4, <2>5
  <2>. QED
    BY <2>6
<1>8. ASSUME k = Len(fs) + 1 PROVE P = E /\ Nth(fs, cur, k) = cur
  <2>1. k = F + 1 /\ ~(k <= F) /\ k - 1 = F
    BY <1>2, <1>8
  <2>. QED
    BY <1>2, <1>5, <2>1 DEF Nth
<1>. QED
  BY <1>5, <1>6, <1>7, <1>8 DEF Lies

\* Framed says of each byte where it is.
LEMMA ByteAt ==
    ASSUME NEW fs, NEW r, NEW g, NEW b, NEW at, NEW cur, NEW j,
           Framed(fs, r, g, b, at, cur, j),
           NEW k \in Nat, NEW i \in Nat, Due(fs, r, g, b, at, cur, k, i)
    PROVE  Carried(g, b, (at[k - 1] + i) - at[r]) = ByteOf(Nth(fs, cur, k), i)
BY DEF Framed

\* One more byte of the current frame.
LEMMA PutOne ==
    ASSUME NEW fs, NEW r, NEW g, NEW b, NEW at, NEW cur, NEW j,
           Framed(fs, r, g, b, at, cur, j), Tight(fs, r, g, b, at, j), j + 1 <= Size(cur),
           NEW c, Extends(b, ByteOf(cur, j + 1), c)
    PROVE  /\ Framed(fs, r, g, c, at, cur, j + 1)
           /\ Tight(fs, r, g, c, at, j + 1)
<1>1. /\ fs \in Seq(FrameSet) /\ r \in Nat /\ Len(fs) \in Nat /\ r <= Len(fs)
      /\ g \in Seq(Bytes) /\ b \in Seq(Bytes) /\ Len(g) \in Nat /\ Len(b) \in Nat
      /\ at \in [Nat -> Nat] /\ at[r] \in Nat /\ at[Len(fs)] \in Nat
      /\ cur \in FrameSet /\ j \in Nat /\ Size(cur) \in Nat
  BY FramedTypes
<1>2. j \in Nat /\ r \in Nat
  BY <1>1
<1>3. PICK R \in Nat : R = at[r]
  BY <1>1
<1>4. PICK E \in Nat : E = at[Len(fs)]
  BY <1>1
<1>5. PICK G \in Nat : G = Len(g)
  BY <1>1
<1>6. PICK B \in Nat : B = Len(b)
  BY <1>1
<1>7. PICK F \in Nat : F = Len(fs)
  BY <1>1
<1>8. R + G + B = E + j
  BY <1>3, <1>4, <1>5, <1>6 DEF Tight
<1>9. /\ Len(c) = B + 1
      /\ \A i \in 1 .. B : c[i] = b[i]
      /\ c[B + 1] = ByteOf(cur, j + 1)
  BY <1>6 DEF Extends
<1>10. R + G + (B + 1) = E + (j + 1)
  BY <1>2, <1>8
<1>11. at[r] + Len(g) + Len(c) = at[Len(fs)] + (j + 1)
  BY <1>3, <1>4, <1>5, <1>9, <1>10
<1>12. ASSUME NEW k \in Nat, NEW i \in Nat, Due(fs, r, g, c, at, cur, k, i)
      PROVE  Carried(g, c, (at[k - 1] + i) - at[r]) = ByteOf(Nth(fs, cur, k), i)
  <2>1. /\ r + 1 <= k /\ k <= F + 1 /\ k <= Len(fs) + 1
        /\ 1 <= i /\ i <= Size(Nth(fs, cur, k))
        /\ at[k - 1] + i <= R + G + (B + 1)
    BY <1>3, <1>5, <1>7, <1>9, <1>12 DEF Due
  <2>2a. PICK P \in Nat : Lies(fs, cur, at, k, i, R, E, P)
    BY <1>3, <1>4, <2>1, Position
  <2>2. /\ P = at[k - 1] /\ R <= P
        /\ k <= Len(fs) => P + i <= E
        /\ k = Len(fs) + 1 => P = E /\ Nth(fs, cur, k) = cur
    BY <2>2a DEF Lies
  <2>3. P + i <= R + G + (B + 1) /\ R <= P /\ (k <= F => P + i <= E) /\ 1 <= i
    BY <1>7, <2>1, <2>2
  <2>4. PICK p \in Nat : p = (P + i) - R
    BY <2>3
  <2>5. p >= 1
    BY <2>3, <2>4
  <2>6. CASE P + i <= R + G + B
    <3>1. Due(fs, r, g, b, at, cur, k, i)
      BY <1>3, <1>5, <1>6, <2>1, <2>2, <2>6 DEF Due
    <3>2. Carried(g, b, p) = ByteOf(Nth(fs, cur, k), i)
      BY <1>3, <2>2, <2>4, <3>1, ByteAt
    <3>3. ~(p <= G) => p - G \in 1 .. B
      BY <2>4, <2>5, <2>6
    <3>4. Carried(g, c, p) = Carried(g, b, p)
      BY <1>5, <1>9, <3>3 DEF Carried
    <3>. QED
      BY <1>3, <2>2, <2>4, <3>2, <3>4
  <2>7. CASE P + i = R + G + B + 1
    <3>1. P + i = E + j + 1
      BY <1>2, <1>8, <2>7
    <3>2. k = F + 1
      <4>1. ~(k <= F)
        BY <1>2, <2>3, <3>1
      <4>2. k <= F + 1
        BY <2>1
      <4>. QED
        BY <4>1, <4>2
    <3>3. P = E /\ Nth(fs, cur, k) = cur
      BY <1>7, <2>2, <3>2
    <3>4. i = j + 1
      BY <1>2, <3>1, <3>3
    <3>5. ~(p <= G) /\ p - G = B + 1
      BY <2>4, <2>7
    <3>6. Carried(g, c, p) = ByteOf(cur, j + 1)
      BY <1>5, <1>9, <3>5 DEF Carried
    <3>. QED
      BY <1>3, <2>2, <2>4, <3>3, <3>4, <3>6
  <2>. QED
    BY <2>3, <2>6, <2>7
<1>13. Framed(fs, r, g, c, at, cur, j + 1)
  <2>1. r \in 0 .. Len(fs) /\ j + 1 \in Nat
    BY <1>1
  <2>2. at[r] + Len(g) + Len(c) <= at[Len(fs)] + (j + 1)
    BY <1>3, <1>4, <1>5, <1>9, <1>10
  <2>3. Len(g) < Size(Nth(fs, cur, r + 1)) /\ c \in Seq(Bytes)
    BY DEF Framed, Extends
  <2>. QED
    BY <1>1, <1>12, <2>1, <2>2, <2>3 DEF Framed
<1>. QED
  BY <1>11, <1>13 DEF Tight

\* Where the frame behind f starts.
Placed(at, fs, f) == [at EXCEPT ![Len(fs) + 1] = at[Len(fs)] + Size(f)]

\* The current frame is whole, and counts as written.
LEMMA Commit ==
    ASSUME NEW fs, NEW r, NEW g, NEW b, NEW at, NEW cur, NEW j,
           Framed(fs, r, g, b, at, cur, j), j = Size(cur),
           NEW gs, Follows(fs, cur, gs),
           NEW an, an = Placed(at, fs, cur)
    PROVE  /\ Framed(gs, r, g, b, an, cur, 0)
           /\ Tight(fs, r, g, b, at, j) => Tight(gs, r, g, b, an, 0)
<1>1. /\ fs \in Seq(FrameSet) /\ r \in Nat /\ Len(fs) \in Nat /\ r <= Len(fs)
      /\ g \in Seq(Bytes) /\ b \in Seq(Bytes) /\ Len(g) \in Nat /\ Len(b) \in Nat
      /\ at \in [Nat -> Nat] /\ at[r] \in Nat /\ at[Len(fs)] \in Nat
      /\ cur \in FrameSet /\ j \in Nat /\ Size(cur) \in Nat
  BY FramedTypes
<1>2. j \in Nat /\ r \in Nat
  BY <1>1
<1>3. PICK R \in Nat : R = at[r]
  BY <1>1
<1>4. PICK E \in Nat : E = at[Len(fs)]
  BY <1>1
<1>5. PICK G \in Nat : G = Len(g)
  BY <1>1
<1>6. PICK B \in Nat : B = Len(b)
  BY <1>1
<1>7. PICK F \in Nat : F = Len(fs)
  BY <1>1
<1>8. R + G + B <= E + j /\ r <= F
  BY <1>1, <1>3, <1>4, <1>5, <1>6, <1>7 DEF Framed
<1>9. /\ gs \in Seq(FrameSet) /\ Len(gs) = F + 1 /\ gs[F + 1] = cur
      /\ \A k \in 1 .. F : gs[k] = fs[k]
  BY <1>7 DEF Follows
<1>10. /\ an \in [Nat -> Nat] /\ an[F + 1] = E + j
       /\ \A k \in Nat : k <= F => an[k] = at[k]
  <2>1. E + j \in Nat
    BY <1>2
  <2>2. an = [at EXCEPT ![F + 1] = E + j]
    BY <1>4, <1>7 DEF Placed
  <2>3. \A k \in Nat : k <= F => k # F + 1
    OBVIOUS
  <2>4. F + 1 \in Nat
    OBVIOUS
  <2>5. at \in [Nat -> Nat]
    BY <1>1
  <2>6. PICK x \in Nat : x = E + j
    BY <2>1
  <2>7. PICK n \in Nat : n = F + 1
    BY <2>4
  <2>8. an = [at EXCEPT ![n] = x]
    BY <2>2, <2>6, <2>7
  <2>9. an \in [Nat -> Nat] /\ an[n] = x /\ \A k \in Nat : k # n => an[k] = at[k]
    BY <2>5, <2>8
  <2>. QED
    BY <2>3, <2>6, <2>7, <2>9
<1>11. an[r] = R /\ an[F] = E
  BY <1>2, <1>3, <1>4, <1>7, <1>8, <1>10
<1>12. \A k \in Nat : 1 <= k /\ k <= F + 1 => Nth(gs, cur, k) = Nth(fs, cur, k)
  <2>1. SUFFICES ASSUME NEW k \in Nat, 1 <= k, k <= F + 1
                 PROVE  Nth(gs, cur, k) = Nth(fs, cur, k)
    OBVIOUS
  <2>2. CASE k <= F
    BY <1>7, <1>9, <2>1, <2>2 DEF Nth
  <2>3. CASE k = F + 1
    BY <1>7, <1>9, <2>3 DEF Nth
  <2>. QED
    BY <2>1, <2>2, <2>3
<1>13. ASSUME NEW k \in Nat, NEW i \in Nat, Due(gs, r, g, b, an, cur, k, i)
       PROVE  Carried(g, b, (an[k - 1] + i) - an[r]) = ByteOf(Nth(gs, cur, k), i)
  <2>1. /\ r + 1 <= k /\ k <= (F + 1) + 1
        /\ 1 <= i /\ i <= Size(Nth(gs, cur, k))
        /\ an[k - 1] + i <= R + G + B
    BY <1>5, <1>6, <1>9, <1>11, <1>13 DEF Due
  <2>2. k # F + 2
    <3>1. SUFFICES ASSUME k = F + 2 PROVE FALSE
      OBVIOUS
    <3>2. k - 1 = F + 1
      BY <3>1
    <3>3. (E + j) + i <= R + G + B
      BY <1>10, <2>1, <3>2
    <3>. QED
      BY <1>2, <1>8, <2>1, <3>3
  <2>3. k <= F + 1 /\ 1 <= k /\ k - 1 \in Nat /\ k - 1 <= F
    BY <1>2, <2>1, <2>2
  <2>4. an[k - 1] = at[k - 1] /\ Nth(gs, cur, k) = Nth(fs, cur, k)
    BY <1>10, <1>12, <2>3
  <2>5. Due(fs, r, g, b, at, cur, k, i)
    BY <1>3, <1>5, <1>6, <1>7, <2>1, <2>3, <2>4 DEF Due
  <2>. QED
    BY <1>3, <1>11, <2>4, <2>5, ByteAt
<1>14. ASSUME NEW k \in 1 .. F + 1 PROVE an[k] = an[k - 1] + Size(gs[k])
  <2>1. k \in Nat /\ k - 1 \in Nat /\ k - 1 <= F
    OBVIOUS
  <2>2. CASE k <= F
    <3>0. k \in 1 .. F /\ gs[k] = fs[k]
      BY <1>9, <2>1, <2>2
    <3>1. k \in 1 .. F /\ an[k] = at[k] /\ an[k - 1] = at[k - 1] /\ gs[k] = fs[k]
      BY <1>10, <2>1, <2>2, <3>0
    <3>2. at[k] = at[k - 1] + Size(fs[k])
      BY <1>7, <3>1 DEF Framed
    <3>. QED
      BY <3>1, <3>2
  <2>3. CASE k = F + 1
    <3>1. k - 1 = F
      BY <2>3
    <3>. QED
      BY <1>9, <1>10, <1>11, <2>3, <3>1
  <2>. QED
    BY <2>1, <2>2, <2>3
<1>15. ASSUME NEW k \in 0 .. F + 1, NEW m \in 0 .. F + 1, k <= m
       PROVE  an[k] <= an[m]
  <2>1. k \in Nat /\ m \in Nat /\ F \in 0 .. F
    OBVIOUS
  <2>2. CASE m <= F
    <3>1. k \in 0 .. F /\ m \in 0 .. F /\ k <= F
      BY <1>15, <2>1, <2>2
    <3>2. at[k] <= at[m]
      BY <1>7, <1>15, <3>1 DEF Framed
    <3>. QED
      BY <1>10, <2>1, <2>2, <3>1, <3>2
  <2>3. CASE k <= F /\ m = F + 1
    <3>1. k \in 0 .. F
      BY <2>1, <2>3
    <3>2. at[k] <= at[F]
      BY <1>7, <2>1, <2>3, <3>1 DEF Framed
    <3>3. PICK x \in Nat : x = at[k]
      BY <1>1, <2>1
    <3>4. x <= E + j
      BY <1>2, <1>4, <1>7, <3>2, <3>3
    <3>5. an[k] = x /\ an[m] = E + j
      BY <1>10, <2>1, <2>3, <3>3
    <3>. QED
      BY <3>4, <3>5
  <2>4. CASE k = F + 1
    <3>1. m = k
      BY <1>15, <2>1, <2>4
    <3>2. an[k] \in Nat
      BY <1>10, <2>1
    <3>. QED
      BY <3>1, <3>2
  <2>. QED
    BY <1>15, <2>1, <2>2, <2>3, <2>4
<1>16. Framed(gs, r, g, b, an, cur, 0)
  <2>1. r \in 0 .. Len(gs) /\ 0 \in Nat /\ 0 <= Size(cur)
    BY <1>1, <1>2, <1>7, <1>8, <1>9
  <2>2. an[r] + Len(g) + Len(b) <= an[Len(gs)] + 0
    <3>1. R + G + B <= (E + j) + 0
      BY <1>2, <1>8
    <3>. QED
      BY <1>5, <1>6, <1>9, <1>10, <1>11, <3>1
  <2>3. Len(g) < Size(Nth(gs, cur, r + 1))
    <3>1. r + 1 \in Nat /\ 1 <= r + 1 /\ r + 1 <= F + 1
      BY <1>2, <1>8
    <3>2. Nth(gs, cur, r + 1) = Nth(fs, cur, r + 1)
      BY <1>12, <3>1
    <3>. QED
      BY <3>2 DEF Framed
  <2>4. \A k \in 1 .. Len(gs) : an[k] = an[k - 1] + Size(gs[k])
    BY <1>9, <1>14
  <2>5. \A k, m \in 0 .. Len(gs) : k <= m => an[k] <= an[m]
    BY <1>9, <1>15
  <2>. QED
    BY <1>1, <1>9, <1>10, <1>13, <2>1, <2>2, <2>3, <2>4, <2>5 DEF Framed
<1>17. Tight(fs, r, g, b, at, j) => Tight(gs, r, g, b, an, 0)
  <2>1. SUFFICES ASSUME Tight(fs, r, g, b, at, j) PROVE Tight(gs, r, g, b, an, 0)
    OBVIOUS
  <2>2. R + G + B = E + j
    BY <1>3, <1>4, <1>5, <1>6, <2>1 DEF Tight
  <2>3. R + G + B = (E + j) + 0
    BY <1>2, <2>2
  <2>. QED
    BY <1>5, <1>6, <1>9, <1>10, <1>11, <2>3 DEF Tight
<1>. QED
  BY <1>16, <1>17

\* As long as none of its bytes is written the current frame may be any.
LEMMA Renew ==
    ASSUME NEW fs, NEW r, NEW g, NEW b, NEW at, NEW cur, NEW f \in FrameSet,
           Framed(fs, r, g, b, at, cur, 0)
    PROVE  Framed(fs, r, g, b, at, f, 0)
<1>1. /\ fs \in Seq(FrameSet) /\ r \in Nat /\ Len(fs) \in Nat /\ r <= Len(fs)
      /\ g \in Seq(Bytes) /\ b \in Seq(Bytes) /\ Len(g) \in Nat /\ Len(b) \in Nat
      /\ at \in [Nat -> Nat] /\ at[r] \in Nat /\ at[Len(fs)] \in Nat
      /\ cur \in FrameSet /\ Size(cur) \in Nat
  BY FramedTypes
<1>2. r \in Nat
  BY <1>1
<1>3. PICK R \in Nat : R = at[r]
  BY <1>1
<1>4. PICK E \in Nat : E = at[Len(fs)]
  BY <1>1
<1>5. PICK G \in Nat : G = Len(g)
  BY <1>1
<1>6. PICK B \in Nat : B = Len(b)
  BY <1>1
<1>7. PICK F \in Nat : F = Len(fs)
  BY <1>1
<1>8. R + G + B <= E + 0 /\ r <= F
  BY <1>1, <1>3, <1>4, <1>5, <1>6, <1>7 DEF Framed
<1>9. \A k \in Nat : k <= F => Nth(fs, f, k) = Nth(fs, cur, k)
  BY <1>7 DEF Nth
<1>10. Size(f) \in Nat /\ Size(f) >= 1
  BY SizeType, FramesAssumption DEF FramesAssumption
<1>11. ASSUME NEW k \in Nat, NEW i \in Nat, Due(fs, r, g, b, at, f, k, i)
       PROVE  Carried(g, b, (at[k - 1] + i) - at[r]) = ByteOf(Nth(fs, f, k), i)
  <2>1. /\ r + 1 <= k /\ k <= F + 1
        /\ 1 <= i /\ i <= Size(Nth(fs, f, k))
        /\ at[k - 1] + i <= R + G + B
    BY <1>3, <1>5, <1>6, <1>7, <1>11 DEF Due
  <2>2. k <= F
    <3>1. SUFFICES ASSUME k = F + 1 PROVE FALSE
      BY <2>1
    <3>2. at[k - 1] = E
      BY <1>4, <1>7, <3>1
    <3>. QED
      BY <1>8, <2>1, <3>2
  <2>3. Nth(fs, f, k) = Nth(fs, cur, k)
    BY <1>9, <2>2
  <2>4. Due(fs, r, g, b, at, cur, k, i)
    BY <1>3, <1>5, <1>6, <1>7, <2>1, <2>3 DEF Due
  <2>. QED
    BY <2>3, <2>4, ByteAt
<1>12. Len(g) < Size(Nth(fs, f, r + 1))
  <2>1. CASE r < F
    <3>1. r + 1 \in Nat /\ r + 1 <= F
      BY <1>2, <2>1
    <3>. QED
      BY <1>9, <3>1 DEF Framed
  <2>2. CASE r = F
    <3>1. R = E /\ ~(r + 1 <= F)
      BY <1>3, <1>4, <1>7, <2>2
    <3>2. G = 0
      BY <1>8, <3>1
    <3>3. Nth(fs, f, r + 1) = f
      BY <1>7, <3>1 DEF Nth
    <3>. QED
      BY <1>5, <1>10, <3>2, <3>3
  <2>. QED
    BY <1>2, <1>8, <2>1, <2>2
<1>. QED
  <2>1. 0 \in Nat /\ 0 <= Size(f) /\ f \in FrameSet
    BY <1>10
  <2>. QED
    BY <1>11, <1>12, <2>1 DEF Framed

\* No byte changes its place when one moves from b, of B, to g, of G.
Passed(g, b, h, c, G, B) ==
    /\ B >= 1 /\ Len(h) = G + 1 /\ Len(c) = B - 1
    /\ h \in Seq(Bytes) /\ c \in Seq(Bytes)
    /\ \A p \in Nat : 1 <= p /\ p <= G + B => Carried(h, c, p) = Carried(g, b, p)
    /\ \A p \in Nat : 1 <= p /\ p <= G + 1 => h[p] = Carried(g, b, p)
    /\ \A p \in Nat : 1 <= p /\ p < B => c[p] = Carried(g, b, p + (G + 1))

\* A byte that moves from b to g keeps its place.
LEMMA Moved ==
    ASSUME NEW g, NEW b, NEW h, NEW c, Moves(g, b, h, c),
           NEW G \in Nat, G = Len(g), NEW B \in Nat, B = Len(b)
    PROVE  Passed(g, b, h, c, G, B)
<1>1. /\ B >= 1 /\ Len(h) = G + 1 /\ Len(c) = B - 1
      /\ h \in Seq(Bytes) /\ c \in Seq(Bytes)
      /\ \A i \in 1 .. G : h[i] = g[i]
      /\ h[G + 1] = b[1]
      /\ \A i \in 1 .. B - 1 : c[i] = b[i + 1]
  BY DEF Moves, Extends
<1>2. B >= 1
  BY <1>1
<1>3. ASSUME NEW p \in Nat, 1 <= p, p <= G + 1 PROVE h[p] = Carried(g, b, p)
  <2>1. CASE p <= G
    <3>1. p \in 1 .. G
      BY <1>3, <2>1
    <3>. QED
      BY <1>1, <2>1, <3>1 DEF Carried
  <2>2. CASE p = G + 1
    <3>1. ~(p <= G) /\ p - G = 1
      BY <2>2
    <3>. QED
      BY <1>1, <2>2, <3>1 DEF Carried
  <2>. QED
    BY <1>3, <2>1, <2>2
<1>4. ASSUME NEW p \in Nat, 1 <= p, p < B PROVE c[p] = Carried(g, b, p + (G + 1))
  <2>1. p \in 1 .. B - 1 /\ ~(p + (G + 1) <= G) /\ (p + (G + 1)) - G = p + 1
    BY <1>2, <1>4
  <2>. QED
    BY <1>1, <2>1 DEF Carried
<1>5. ASSUME NEW p \in Nat, 1 <= p, p <= G + B PROVE Carried(h, c, p) = Carried(g, b, p)
  <2>1. CASE p <= G + 1
    BY <1>1, <1>3, <1>5, <2>1 DEF Carried
  <2>2. CASE p > G + 1
    <3>0. p - (G + 1) \in Nat
      BY <2>2
    <3>1. PICK q \in Nat : q = p - (G + 1)
      BY <3>0
    <3>2. 1 <= q /\ q < B /\ p = q + (G + 1) /\ ~(p <= G + 1)
      BY <1>5, <2>2, <3>1
    <3>3. c[q] = Carried(g, b, p)
      BY <1>4, <3>2
    <3>. QED
      BY <1>1, <3>1, <3>2, <3>3 DEF Carried
  <2>. QED
    BY <1>5, <2>1, <2>2
<1>. QED
  BY <1>1, <1>3, <1>4, <1>5 DEF Passed

\* A reader that takes a byte and does not have its frame yet.
LEMMA TakeOne ==
    ASSUME NEW fs, NEW r, NEW g, NEW b, NEW at, NEW cur, NEW j,
           Framed(fs, r, g, b, at, cur, j),
           NEW h, NEW c, Moves(g, b, h, c),
           Len(h) # Size(Nth(fs, cur, r + 1))
    PROVE  /\ Framed(fs, r, h, c, at, cur, j)
           /\ Tight(fs, r, g, b, at, j) => Tight(fs, r, h, c, at, j)
<1>1. /\ fs \in Seq(FrameSet) /\ r \in Nat /\ Len(fs) \in Nat /\ r <= Len(fs)
      /\ g \in Seq(Bytes) /\ b \in Seq(Bytes) /\ Len(g) \in Nat /\ Len(b) \in Nat
      /\ at \in [Nat -> Nat] /\ at[r] \in Nat /\ at[Len(fs)] \in Nat
      /\ cur \in FrameSet /\ j \in Nat /\ Size(cur) \in Nat
  BY FramedTypes
<1>2. j \in Nat /\ r \in Nat
  BY <1>1
<1>3. PICK R \in Nat : R = at[r]
  BY <1>1
<1>4. PICK E \in Nat : E = at[Len(fs)]
  BY <1>1
<1>5. PICK G \in Nat : G = Len(g)
  BY <1>1
<1>6. PICK B \in Nat : B = Len(b)
  BY <1>1
<1>7. /\ B >= 1 /\ Len(h) = G + 1 /\ Len(c) = B - 1
      /\ h \in Seq(Bytes) /\ c \in Seq(Bytes)
      /\ \A p \in Nat : 1 <= p /\ p <= G + B => Carried(h, c, p) = Carried(g, b, p)
  <2>1. Passed(g, b, h, c, G, B)
    BY <1>5, <1>6, Moved
  <2>. QED
    BY <2>1 DEF Passed
<1>8. B >= 1
  BY <1>7
<1>9. R + (G + 1) + (B - 1) = R + G + B
  BY <1>8
<1>10. ASSUME NEW k \in Nat, NEW i \in Nat, Due(fs, r, h, c, at, cur, k, i)
      PROVE  Carried(h, c, (at[k - 1] + i) - at[r]) = ByteOf(Nth(fs, cur, k), i)
  <2>1. /\ r + 1 <= k /\ k <= Len(fs) + 1
        /\ 1 <= i /\ i <= Size(Nth(fs, cur, k))
        /\ at[k - 1] + i <= R + (G + 1) + (B - 1)
    BY <1>3, <1>7, <1>10 DEF Due
  <2>2. PICK P \in Nat : Lies(fs, cur, at, k, i, R, E, P)
    BY <1>3, <1>4, <2>1, Position
  <2>3. P = at[k - 1] /\ R <= P
    BY <2>2 DEF Lies
  <2>4. P + i <= R + G + B /\ 1 <= i /\ R <= P
    BY <1>9, <2>1, <2>3
  <2>5. PICK p \in Nat : p = (P + i) - R
    BY <2>4
  <2>6. 1 <= p /\ p <= G + B
    BY <2>4, <2>5
  <2>7. Due(fs, r, g, b, at, cur, k, i)
    BY <1>3, <1>5, <1>6, <2>1, <2>3, <2>4 DEF Due
  <2>8. Carried(g, b, p) = ByteOf(Nth(fs, cur, k), i)
    BY <1>3, <2>3, <2>5, <2>7, ByteAt
  <2>. QED
    BY <1>3, <1>7, <2>3, <2>5, <2>6, <2>8
<1>11. Len(h) < Size(Nth(fs, cur, r + 1))
  <2>1. Size(Nth(fs, cur, r + 1)) \in Nat
    <3>1. r + 1 \in 1 .. Len(fs) + 1
      BY <1>1
    <3>. QED
      BY <1>1, <3>1, SizeType, NthType
  <2>2. PICK z \in Nat : z = Size(Nth(fs, cur, r + 1))
    BY <2>1
  <2>3. G < z /\ G + 1 # z
    BY <1>5, <1>7, <2>2 DEF Framed
  <2>4. G + 1 < z
    BY <2>3
  <2>. QED
    BY <1>7, <2>2, <2>4
<1>12. Framed(fs, r, h, c, at, cur, j)
  <2>1. at[r] + Len(h) + Len(c) <= at[Len(fs)] + j
    <3>1. R + G + B <= E + j
      BY <1>3, <1>4, <1>5, <1>6 DEF Framed
    <3>. QED
      BY <1>3, <1>4, <1>7, <1>9, <3>1
  <2>. QED
    BY <1>7, <1>10, <1>11, <2>1 DEF Framed
<1>13. Tight(fs, r, g, b, at, j) => Tight(fs, r, h, c, at, j)
  BY <1>3, <1>5, <1>6, <1>7, <1>9 DEF Tight
<1>. QED
  BY <1>12, <1>13

\* A reader that has all of its frame goes on with the next.
LEMMA TakeLast ==
    ASSUME NEW fs, NEW r, NEW g, NEW b, NEW at, NEW cur, NEW j,
           Framed(fs, r, g, b, at, cur, j), r < Len(fs),
           NEW h, NEW c, Moves(g, b, h, c),
           Len(h) = Size(Nth(fs, cur, r + 1))
    PROVE  /\ Framed(fs, r + 1, <<>>, c, at, cur, j)
           /\ Tight(fs, r, g, b, at, j) => Tight(fs, r + 1, <<>>, c, at, j)
<1>1. /\ fs \in Seq(FrameSet) /\ r \in Nat /\ Len(fs) \in Nat /\ r <= Len(fs)
      /\ g \in Seq(Bytes) /\ b \in Seq(Bytes) /\ Len(g) \in Nat /\ Len(b) \in Nat
      /\ at \in [Nat -> Nat] /\ at[r] \in Nat /\ at[Len(fs)] \in Nat
      /\ cur \in FrameSet /\ j \in Nat /\ Size(cur) \in Nat
  BY FramedTypes
<1>2. j \in Nat /\ r \in Nat
  BY <1>1
<1>3. PICK R \in Nat : R = at[r]
  BY <1>1
<1>4. PICK E \in Nat : E = at[Len(fs)]
  BY <1>1
<1>5. PICK G \in Nat : G = Len(g)
  BY <1>1
<1>6. PICK B \in Nat : B = Len(b)
  BY <1>1
<1>7. PICK F \in Nat : F = Len(fs)
  BY <1>1
<1>8. PICK s \in Nat : s = r + 1
  BY <1>2
<1>9. /\ B >= 1 /\ Len(h) = G + 1 /\ Len(c) = B - 1
      /\ h \in Seq(Bytes) /\ c \in Seq(Bytes)
      /\ \A p \in Nat : 1 <= p /\ p < B => c[p] = Carried(g, b, p + (G + 1))
  <2>1. Passed(g, b, h, c, G, B)
    BY <1>5, <1>6, Moved
  <2>. QED
    BY <2>1 DEF Passed
<1>10. B >= 1
  BY <1>9
<1>11. s <= F /\ r < F
  BY <1>2, <1>7, <1>8
<1>12. at[s] = R + (G + 1)
  <2>1. s \in 1 .. Len(fs) /\ s - 1 = r
    BY <1>2, <1>7, <1>8, <1>11
  <2>2. at[s] = at[s - 1] + Size(fs[s])
    BY <2>1 DEF Framed
  <2>3. Nth(fs, cur, s) = fs[s]
    BY <1>7, <1>11 DEF Nth
  <2>4. Size(fs[s]) = G + 1
    BY <1>8, <1>9, <2>3
  <2>. QED
    BY <1>3, <2>1, <2>2, <2>4
<1>13. (R + (G + 1)) + 0 + (B - 1) = R + G + B
  BY <1>10
<1>14. <<>> \in Seq(Bytes) /\ Len(<<>>) = 0
  BY EmptySeq
<1>15. ASSUME NEW k \in Nat, NEW i \in Nat, Due(fs, s, <<>>, c, at, cur, k, i)
       PROVE  Carried(<<>>, c, (at[k - 1] + i) - at[s]) = ByteOf(Nth(fs, cur, k), i)
  <2>1. /\ s + 1 <= k /\ k <= F + 1 /\ k <= Len(fs) + 1
        /\ 1 <= i /\ i <= Size(Nth(fs, cur, k))
        /\ at[k - 1] + i <= (R + (G + 1)) + 0 + (B - 1)
    BY <1>7, <1>9, <1>12, <1>14, <1>15 DEF Due
  <2>2. PICK P \in Nat : P = at[k - 1]
    <3>1. k - 1 \in Nat
      BY <2>1
    <3>. QED
      BY <1>1, <3>1
  <2>3. R + (G + 1) <= P
    <3>1. s \in 0 .. F /\ k - 1 \in 0 .. F /\ s <= k - 1
      BY <1>11, <2>1
    <3>2. at[s] <= at[k - 1]
      BY <1>7, <3>1 DEF Framed
    <3>. QED
      BY <1>12, <2>2, <3>2
  <2>4. P + i <= R + G + B /\ 1 <= i
    BY <1>13, <2>1, <2>2
  <2>5. PICK p \in Nat : p = (P + i) - (R + (G + 1))
    BY <2>3
  <2>6. 1 <= p /\ p < B /\ p + (G + 1) = (P + i) - R /\ ~(p <= 0) /\ p - 0 = p
    BY <2>3, <2>4, <2>5
  <2>7. r + 1 <= k
    BY <1>2, <1>8, <2>1
  <2>8. Due(fs, r, g, b, at, cur, k, i)
    BY <1>3, <1>5, <1>6, <2>1, <2>2, <2>4, <2>7 DEF Due
  <2>9. Carried(g, b, p + (G + 1)) = ByteOf(Nth(fs, cur, k), i)
    BY <1>3, <2>2, <2>6, <2>8, ByteAt
  <2>10. c[p] = Carried(g, b, p + (G + 1))
    BY <1>9, <2>6
  <2>11. Carried(<<>>, c, p) = c[p]
    BY <1>14, <2>6 DEF Carried
  <2>. QED
    BY <1>12, <2>2, <2>5, <2>9, <2>10, <2>11
<1>16. Framed(fs, s, <<>>, c, at, cur, j)
  <2>1. s \in 0 .. Len(fs)
    BY <1>7, <1>11
  <2>2. at[s] + Len(<<>>) + Len(c) <= at[Len(fs)] + j
    <3>1. R + G + B <= E + j
      BY <1>3, <1>4, <1>5, <1>6 DEF Framed
    <3>. QED
      BY <1>4, <1>9, <1>12, <1>13, <1>14, <3>1
  <2>3. Len(<<>>) < Size(Nth(fs, cur, s + 1))
    <3>1. s + 1 \in 1 .. Len(fs) + 1
      BY <1>7, <1>11
    <3>2. PICK f \in FrameSet : f = Nth(fs, cur, s + 1)
      BY <1>1, <3>1, NthType
    <3>3. Size(f) \in Nat /\ Size(f) >= 1
      BY SizeType, FramesAssumption DEF FramesAssumption
    <3>. QED
      BY <1>14, <3>2, <3>3
  <2>. QED
    BY <1>9, <1>14, <1>15, <2>1, <2>2, <2>3 DEF Framed
<1>17. Tight(fs, r, g, b, at, j) => Tight(fs, s, <<>>, c, at, j)
  BY <1>3, <1>5, <1>6, <1>9, <1>12, <1>13, <1>14 DEF Tight
<1>. QED
  BY <1>8, <1>16, <1>17

\* The connection loses the end of what is on its way.
LEMMA Cut ==
    ASSUME NEW fs, NEW r, NEW g, NEW b, NEW at, NEW cur, NEW j,
           Framed(fs, r, g, b, at, cur, j),
           NEW c \in Seq(Bytes), Len(c) <= Len(b), \A i \in 1 .. Len(c) : c[i] = b[i]
    PROVE  Framed(fs, r, g, c, at, cur, j)
<1>1. /\ fs \in Seq(FrameSet) /\ r \in Nat /\ Len(fs) \in Nat /\ r <= Len(fs)
      /\ g \in Seq(Bytes) /\ b \in Seq(Bytes) /\ Len(g) \in Nat /\ Len(b) \in Nat
      /\ at \in [Nat -> Nat] /\ at[r] \in Nat /\ at[Len(fs)] \in Nat
      /\ cur \in FrameSet /\ j \in Nat /\ Size(cur) \in Nat
  BY FramedTypes
<1>2. j \in Nat /\ r \in Nat
  BY <1>1
<1>3. PICK R \in Nat : R = at[r]
  BY <1>1
<1>4. PICK E \in Nat : E = at[Len(fs)]
  BY <1>1
<1>5. PICK G \in Nat : G = Len(g)
  BY <1>1
<1>6. PICK B \in Nat : B = Len(b)
  BY <1>1
<1>7. PICK C \in Nat : C = Len(c)
  BY LenProperties
<1>8. C <= B
  BY <1>6, <1>7
<1>9. ASSUME NEW k \in Nat, NEW i \in Nat, Due(fs, r, g, c, at, cur, k, i)
      PROVE  Carried(g, c, (at[k - 1] + i) - at[r]) = ByteOf(Nth(fs, cur, k), i)
  <2>1. /\ r + 1 <= k /\ k <= Len(fs) + 1
        /\ 1 <= i /\ i <= Size(Nth(fs, cur, k))
        /\ at[k - 1] + i <= R + G + C
    BY <1>3, <1>5, <1>7, <1>9 DEF Due
  <2>2. PICK P \in Nat : Lies(fs, cur, at, k, i, R, E, P)
    BY <1>3, <1>4, <2>1, Position
  <2>3. P = at[k - 1] /\ R <= P
    BY <2>2 DEF Lies
  <2>4. P + i <= R + G + B /\ P + i <= R + G + C /\ 1 <= i /\ R <= P
    BY <1>8, <2>1, <2>3, SMTT(30)
  <2>5. PICK p \in Nat : p = (P + i) - R
    BY <2>4
  <2>6. ~(p <= G) => p - G \in 1 .. C
    BY <2>4, <2>5
  <2>7. Due(fs, r, g, b, at, cur, k, i)
    BY <1>3, <1>5, <1>6, <2>1, <2>3, <2>4 DEF Due
  <2>8. Carried(g, b, p) = ByteOf(Nth(fs, cur, k), i)
    BY <1>3, <2>3, <2>5, <2>7, ByteAt
  <2>9. Carried(g, c, p) = Carried(g, b, p)
    BY <1>5, <1>7, <2>6 DEF Carried
  <2>. QED
    BY <1>3, <2>3, <2>5, <2>8, <2>9
<1>. QED
  <2>1. R + G + B <= E + j
    BY <1>3, <1>4, <1>5, <1>6 DEF Framed
  <2>2. R + G + C <= E + j
    BY <1>2, <1>8, <2>1
  <2>3. at[r] + Len(g) + Len(c) <= at[Len(fs)] + j
    BY <1>3, <1>4, <1>5, <1>7, <2>2
  <2>. QED
    BY <1>9, <2>3 DEF Framed

\* A reader knows from what it has when it has its frame, and then has that frame.
Tells(h, f) ==
    /\ Complete(h) <=> Len(h) = Size(f)
    /\ Len(h) = Size(f) => Frame(h[1].writer, SubSeq(h, HeaderLen + 1, Len(h))) = f

\* Behind its last byte a frame is complete, not before, and it reads as it was written.
LEMMA WholeFrame ==
    ASSUME NEW fs, NEW r, NEW g, NEW b, NEW at, NEW cur, NEW j,
           Framed(fs, r, g, b, at, cur, j),
           NEW h, NEW c, Moves(g, b, h, c),
           NEW f, f = Nth(fs, cur, r + 1)
    PROVE  Tells(h, f)
<1>1. /\ fs \in Seq(FrameSet) /\ r \in Nat /\ Len(fs) \in Nat /\ r <= Len(fs)
      /\ g \in Seq(Bytes) /\ b \in Seq(Bytes) /\ Len(g) \in Nat /\ Len(b) \in Nat
      /\ at \in [Nat -> Nat] /\ at[r] \in Nat /\ at[Len(fs)] \in Nat
      /\ cur \in FrameSet /\ j \in Nat /\ Size(cur) \in Nat
  BY FramedTypes
<1>2. r \in Nat
  BY <1>1
<1>3. PICK R \in Nat : R = at[r]
  BY <1>1
<1>4. PICK G \in Nat : G = Len(g)
  BY <1>1
<1>5. PICK B \in Nat : B = Len(b)
  BY <1>1
<1>6. f \in FrameSet
  <2>1. r + 1 \in 1 .. Len(fs) + 1
    BY <1>1
  <2>. QED
    BY <1>1, <2>1, NthType
<1>7. /\ f.kind \in Writers /\ f.payload \in Seq(Bytes) /\ Len(f.payload) \in Nat
      /\ f = [kind |-> f.kind, payload |-> f.payload]
  BY <1>6, LenProperties DEF FrameSet
<1>8. PICK H \in Nat : H = HeaderLen
  BY FramesAssumption DEF FramesAssumption
<1>9. PICK L \in Nat : L = Len(f.payload)
  BY <1>7
<1>10. Size(f) = H + L /\ H >= 1
  BY <1>8, <1>9, FramesAssumption DEF Size, FramesAssumption
<1>11. Passed(g, b, h, c, G, B)
  BY <1>4, <1>5, Moved
<1>12. Len(h) = G + 1 /\ G + 1 <= G + B /\ h \in Seq(Bytes)
  <2>1. B >= 1 /\ Len(h) = G + 1 /\ h \in Seq(Bytes)
    BY <1>11 DEF Passed
  <2>. QED
    BY <2>1
<1>13. ASSUME NEW i \in Nat, 1 <= i, i <= G + 1, i <= H + L
       PROVE  h[i] = ByteOf(f, i)
  <2>1. h[i] = Carried(g, b, i)
    BY <1>11, <1>13 DEF Passed
  <2>2. PICK k \in Nat : k = r + 1
    BY <1>2
  <2>3. k - 1 = r /\ r + 1 <= k
    BY <1>2, <2>2
  <2>4. k <= Len(fs) + 1
    BY <1>1, <2>2
  <2>5. R + i <= R + G + B /\ (R + i) - R = i
    BY <1>12, <1>13
  <2>6. Due(fs, r, g, b, at, cur, k, i)
    BY <1>3, <1>4, <1>5, <1>10, <1>13, <2>2, <2>3, <2>4, <2>5 DEF Due
  <2>7. Carried(g, b, (at[k - 1] + i) - at[r]) = ByteOf(Nth(fs, cur, k), i)
    BY <2>6, ByteAt
  <2>. QED
    BY <1>3, <2>1, <2>2, <2>3, <2>5, <2>7
<1>14. h[1].length = L /\ h[1].writer = f.kind
  <2>1. 1 \in Nat /\ 1 <= G + 1 /\ 1 <= H + L /\ 1 <= H
    BY <1>10
  <2>2. h[1] = ByteOf(f, 1)
    BY <1>13, <2>1
  <2>. QED
    BY <1>8, <1>9, <2>1, <2>2 DEF ByteOf
<1>15. Complete(h) <=> Len(h) = Size(f)
  <2>1. Complete(h) <=> (G + 1 >= H /\ G + 1 = H + L)
    BY <1>8, <1>12, <1>14 DEF Complete
  <2>2. G + 1 = H + L => G + 1 >= H
    OBVIOUS
  <2>. QED
    BY <1>10, <1>12, <2>1, <2>2
<1>16. ASSUME Len(h) = Size(f)
       PROVE  Frame(h[1].writer, SubSeq(h, HeaderLen + 1, Len(h))) = f
  <2>1. G + 1 = H + L
    BY <1>10, <1>12, <1>16
  <2>. DEFINE s == SubSeq(h, H + 1, H + L)
  <2>2. \A i \in H + 1 .. H + L : h[i] \in Bytes
    <3>1. SUFFICES ASSUME NEW i \in H + 1 .. H + L PROVE h[i] \in Bytes
      OBVIOUS
    <3>2. i \in 1 .. Len(h)
      BY <1>12, <2>1
    <3>. QED
      BY <1>12, <3>2, ElementOfSeq
  <2>3. H + 1 \in Int /\ H + L \in Int
    OBVIOUS
  <2>4. /\ s \in Seq(Bytes)
        /\ Len(s) = IF H + 1 <= H + L THEN (H + L) - (H + 1) + 1 ELSE 0
        /\ \A i \in 1 .. (H + L) - (H + 1) + 1 : s[i] = h[(H + 1) + i - 1]
    BY <2>2, <2>3, SubSeqProperties
  <2>. HIDE DEF s
  <2>5. Len(s) = L
    BY <2>4
  <2>6. ASSUME NEW i \in 1 .. L PROVE s[i] = f.payload[i]
    <3>1. PICK n \in Nat : n = H + i
      OBVIOUS
    <3>2. (H + 1) + i - 1 = n /\ i \in 1 .. (H + L) - (H + 1) + 1
      BY <3>1
    <3>3. 1 <= n /\ n <= G + 1 /\ n <= H + L /\ ~(n <= H) /\ n - H = i
      BY <2>1, <3>1
    <3>4. s[i] = h[n]
      BY <2>4, <3>2
    <3>5. h[n] = ByteOf(f, n)
      BY <1>13, <3>3
    <3>6. ByteOf(f, n) = f.payload[i]
      BY <1>8, <3>3 DEF ByteOf
    <3>. QED
      BY <3>4, <3>5, <3>6
  <2>7. s = f.payload
    BY <1>7, <1>9, <2>4, <2>5, <2>6, SeqEqual
  <2>8. SubSeq(h, HeaderLen + 1, Len(h)) = s
    BY <1>8, <1>12, <2>1 DEF s
  <2>. QED
    BY <1>7, <1>14, <2>7, <2>8 DEF Frame
<1>. QED
  BY <1>15, <1>16 DEF Tells

\* The sequences of the model are what these lemmas speak of.
LEMMA AppendExtends ==
    ASSUME NEW b \in Seq(Bytes), NEW x \in Bytes
    PROVE  Extends(b, x, Append(b, x))
BY AppendProperties DEF Extends

LEMMA AppendFollows ==
    ASSUME NEW fs \in Seq(FrameSet), NEW f \in FrameSet
    PROVE  Follows(fs, f, Append(fs, f))
BY AppendProperties DEF Follows

LEMMA TakeMoves ==
    ASSUME NEW g \in Seq(Bytes), NEW b \in Seq(Bytes), b # <<>>
    PROVE  Moves(g, b, Append(g, Head(b)), Tail(b))
<1>1. Head(b) \in Bytes /\ Head(b) = b[1]
  BY HeadTailProperties
<1>2. Extends(g, b[1], Append(g, Head(b)))
  BY <1>1, AppendExtends
<1>3. Len(b) >= 1
  <2>1. Len(b) \in Nat \ {0}
    BY EmptySeq
  <2>. QED
    BY <2>1
<1>. QED
  BY <1>2, <1>3, HeadTailProperties DEF Moves

\* What a writer may have put into frames when it has made this many calls.
LEMMA Quota ==
    /\ \A n \in Nat : (n + 1) * MaxWrite = n * MaxWrite + MaxWrite
    /\ \A n \in Nat : n <= MaxCalls => n * MaxWrite <= MaxCalls * MaxWrite
    /\ MaxCalls * MaxWrite \in Nat
    /\ \A n \in Nat : n * MaxWrite \in Nat
<1>1. MaxCalls \in Nat /\ MaxWrite \in Nat
  BY FramesAssumption DEF FramesAssumption
<1>2. \A n \in Nat : (n + 1) * MaxWrite = n * MaxWrite + MaxWrite
  BY <1>1
<1>3. \A n \in Nat : n <= MaxCalls => n * MaxWrite <= MaxCalls * MaxWrite
  BY <1>1
<1>4. MaxCalls * MaxWrite \in Nat /\ \A n \in Nat : n * MaxWrite \in Nat
  BY <1>1
<1>. QED
  BY <1>2, <1>3, <1>4

--------------------------------------------------------------------------
(* The writers *)

\* What Header and Payload return.
LEMMA HeaderType ==
    ASSUME NEW w \in Writers, NEW n \in 0 .. MaxPayload
    PROVE  /\ Header(w, n) \in Seq(Bytes) /\ Len(Header(w, n)) = HeaderLen
           /\ Header(w, n) # <<>>
           /\ \A i \in 1 .. HeaderLen : Header(w, n)[i] =
                 [part |-> "header", writer |-> w, length |-> n, index |-> i]
<1>1. HeaderLen \in Nat /\ HeaderLen >= 1 /\ MaxPayload \in Nat
  BY FramesAssumption DEF FramesAssumption
<1>2. \A i \in 1 .. HeaderLen :
          [part |-> "header", writer |-> w, length |-> n, index |-> i] \in Bytes
  BY <1>1 DEF Bytes
<1>3. Header(w, n) \in Seq(Bytes) /\ Len(Header(w, n)) = HeaderLen
  BY <1>1, <1>2 DEF Header
<1>4. Header(w, n) # <<>>
  BY <1>1, <1>3, EmptySeq
<1>. QED
  BY <1>3, <1>4 DEF Header

LEMMA PayloadType ==
    ASSUME NEW w \in Writers, NEW k \in Nat, NEW n \in Nat
    PROVE  /\ Payload(w, k, n) \in Seq(Bytes) /\ Len(Payload(w, k, n)) = n
           /\ \A i \in 1 .. n : Payload(w, k, n)[i] =
                 [part |-> "payload", writer |-> w, length |-> 0, index |-> k + i]
<1>1. MaxPayload \in Nat
  BY FramesAssumption DEF FramesAssumption
<1>2. \A i \in 1 .. n :
          [part |-> "payload", writer |-> w, length |-> 0, index |-> k + i] \in Bytes
  BY <1>1 DEF Bytes
<1>3. Payload(w, k, n) \in Seq(Bytes) /\ Len(Payload(w, k, n)) = n
  BY <1>2 DEF Payload
<1>. QED
  BY <1>3 DEF Payload

WriterType ==
    /\ mu \in Writers \cup {NoWriter}
    /\ pc \in [Writers -> {"idle", "locking", "header", "payload"}]
    /\ calls \in [Writers -> 0 .. MaxCalls]
    /\ taken \in [Writers -> Nat] /\ left \in [Writers -> 0 .. MaxWrite]
    /\ rest \in [Writers -> Seq(Bytes)]

\* Whoever has the mutex, and nobody else, is putting something on the wire.
LockInv ==
    \A w \in Writers : /\ pc[w] \in {"header", "payload"} <=> mu = w
                       /\ mu = w => rest[w] # <<>>

\* What is in frames and what is left of a write is within what the calls have brought.
QuotaInv == \A w \in Writers : taken[w] + left[w] <= calls[w] * MaxWrite

WriterInv == WriterType /\ LockInv /\ QuotaInv

LEMMA ChunkType ==
    ASSUME WriterType, NEW w \in Writers
    PROVE  Chunk(w) \in 0 .. MaxPayload /\ Chunk(w) <= left[w]
<1>1. left[w] \in Nat /\ MaxPayload \in Nat
  BY FramesAssumption DEF FramesAssumption, WriterType
<1>. QED
  BY <1>1 DEF Chunk

\* No stream is longer than its writer's calls allow.
LEMMA TakenBound ==
    ASSUME WriterInv, NEW w \in Writers
    PROVE  taken[w] \in 0 .. MaxCalls * MaxWrite
<1>1. WriterType /\ QuotaInv
  BY DEF WriterInv
<1>2. calls[w] \in Nat /\ calls[w] <= MaxCalls
  <2>1. calls[w] \in 0 .. MaxCalls
    BY <1>1 DEF WriterType
  <2>. QED
    BY <2>1, FramesAssumption DEF FramesAssumption
<1>3. PICK q \in Nat : q = calls[w] * MaxWrite
  BY <1>2, Quota
<1>4. PICK m \in Nat : m = MaxCalls * MaxWrite
  BY Quota
<1>5. q <= m
  BY <1>2, <1>3, <1>4, Quota
<1>6. taken[w] + left[w] <= q /\ left[w] \in Nat /\ taken[w] \in Nat
  BY <1>1, <1>3, FramesAssumption DEF WriterType, QuotaInv, FramesAssumption
<1>7. taken[w] <= m
  BY <1>5, <1>6
<1>. QED
  BY <1>4, <1>6, <1>7

LEMMA InitWriterInv == Init => WriterInv
<1>. SUFFICES ASSUME Init PROVE WriterInv
  OBVIOUS
<1>. USE FramesAssumption DEF FramesAssumption
<1>1. <<>> \in Seq(Bytes)
  BY EmptySeq
<1>2. WriterType
  BY <1>1 DEF Init, WriterType
<1>3. LockInv
  BY DEF Init, LockInv
<1>4. QuotaInv
  <2>1. SUFFICES ASSUME NEW w \in Writers PROVE taken[w] + left[w] <= calls[w] * MaxWrite
    BY DEF QuotaInv
  <2>2. taken[w] = 0 /\ left[w] = 0 /\ calls[w] = 0
    BY DEF Init
  <2>3. 0 + 0 <= 0 * MaxWrite
    OBVIOUS
  <2>. QED
    BY <2>2, <2>3
<1>. QED
  BY <1>2, <1>3, <1>4 DEF WriterInv

\* A frame is done: what was left of the write and what has been taken add up as before.
LEMMA DoneWriterInv ==
    ASSUME WriterInv, NEW w \in Writers, NEW size \in {0, Chunk(w)}, FrameDone(w, size),
           mu' = NoWriter, mu = w
    PROVE  WriterInv'
<1>. USE FramesAssumption DEF FramesAssumption
<1>1. WriterType /\ LockInv /\ QuotaInv
  BY DEF WriterInv
<1>2. size \in Nat /\ size <= left[w] /\ left[w] \in Nat /\ taken[w] \in Nat
  <2>1. Chunk(w) \in Nat /\ Chunk(w) <= left[w] /\ left[w] \in Nat /\ taken[w] \in Nat
    BY <1>1, ChunkType DEF WriterType
  <2>. QED
    BY <2>1
<1>3. /\ taken' = [taken EXCEPT ![w] = taken[w] + size]
      /\ left' = [left EXCEPT ![w] = left[w] - size]
      /\ calls' = calls
  BY DEF FrameDone
<1>4. WriterType'
  <2>1. taken[w] + size \in Nat /\ left[w] - size \in 0 .. MaxWrite
    BY <1>1, <1>2 DEF WriterType
  <2>2. taken' \in [Writers -> Nat] /\ left' \in [Writers -> 0 .. MaxWrite]
    BY <1>1, <1>3, <2>1 DEF WriterType
  <2>3. rest' \in [Writers -> Seq(Bytes)]
    BY <1>1, EmptySeq DEF WriterType, FrameDone
  <2>4. pc' \in [Writers -> {"idle", "locking", "header", "payload"}]
    BY <1>1 DEF WriterType, FrameDone
  <2>. QED
    BY <1>1, <1>3, <2>2, <2>3, <2>4 DEF WriterType
<1>5. LockInv'
  <2>1. pc' = [pc EXCEPT ![w] = IF left[w] > size THEN "locking" ELSE "idle"]
    BY DEF FrameDone
  <2>. QED
    BY <1>1, <2>1 DEF LockInv, WriterType
<1>6. QuotaInv'
  <2>1. SUFFICES ASSUME NEW v \in Writers PROVE taken'[v] + left'[v] <= calls'[v] * MaxWrite
    BY DEF QuotaInv
  <2>2. taken[v] + left[v] <= calls[v] * MaxWrite
    BY <1>1 DEF QuotaInv
  <2>3. CASE v = w
    <3>1. taken'[v] = taken[v] + size /\ left'[v] = left[v] - size
      BY <1>1, <1>3, <2>3 DEF WriterType
    <3>2. (taken[v] + size) + (left[v] - size) = taken[v] + left[v]
      BY <1>2, <2>3
    <3>. QED
      BY <1>3, <2>2, <3>1, <3>2
  <2>4. CASE v # w
    BY <1>1, <1>3, <2>2, <2>4 DEF WriterType
  <2>. QED
    BY <2>3, <2>4
<1>. QED
  BY <1>4, <1>5, <1>6 DEF WriterInv

LEMMA NextWriterInv == WriterInv /\ [Next]_vars => WriterInv'
<1>. SUFFICES ASSUME WriterInv, [Next]_vars PROVE WriterInv'
  OBVIOUS
<1>. USE FramesAssumption DEF FramesAssumption
<1>a. WriterType /\ LockInv /\ QuotaInv
  BY DEF WriterInv
<1>1. ASSUME NEW w \in Writers, Lock(w) PROVE WriterInv'
  <2>1. Header(w, Chunk(w)) \in Seq(Bytes) /\ Header(w, Chunk(w)) # <<>>
    BY <1>a, ChunkType, HeaderType
  <2>2. WriterType'
    BY <1>1, <1>a, <2>1 DEF Lock, StartHeader, WriterType
  <2>3. LockInv'
    BY <1>1, <1>a, <2>1 DEF Lock, StartHeader, LockInv, WriterType
  <2>4. QuotaInv'
    BY <1>1, <1>a DEF Lock, StartHeader, QuotaInv
  <2>. QED
    BY <2>2, <2>3, <2>4 DEF WriterInv
<1>2. ASSUME NEW w \in Writers, WriteByte(w) PROVE WriterInv'
  <2>1. mu = w /\ rest[w] \in Seq(Bytes) /\ rest[w] # <<>>
    BY <1>2, <1>a DEF WriteByte, PutByte, LockInv, WriterType
  <2>2. Tail(rest[w]) \in Seq(Bytes) /\ Len(Tail(rest[w])) = Len(rest[w]) - 1
    BY <2>1, HeadTailProperties
  <2>3. Tail(rest[w]) # <<>>
    <3>1. Len(rest[w]) > 1 /\ Len(rest[w]) \in Nat
      BY <1>2, <2>1, LenProperties DEF WriteByte
    <3>2. PICK n \in Nat : n = Len(rest[w])
      BY <3>1
    <3>3. n > 1
      BY <3>1, <3>2
    <3>3a. n - 1 # 0
      BY <3>3
    <3>4. Len(Tail(rest[w])) # 0
      BY <2>2, <3>2, <3>3a
    <3>. QED
      BY <3>4, EmptySeq
  <2>4. WriterType'
    BY <1>2, <1>a, <2>2 DEF WriteByte, WriterType
  <2>5. LockInv'
    BY <1>2, <1>a, <2>3 DEF WriteByte, LockInv, WriterType
  <2>6. QuotaInv'
    BY <1>2, <1>a DEF WriteByte, QuotaInv
  <2>. QED
    BY <2>4, <2>5, <2>6 DEF WriterInv
<1>3. ASSUME NEW w \in Writers, FinishHeader(w) PROVE WriterInv'
  <2>1. mu = w /\ rest[w] \in Seq(Bytes) /\ rest[w] # <<>> /\ taken[w] \in Nat
    BY <1>3, <1>a DEF FinishHeader, PutByte, LockInv, WriterType
  <2>2. Length(w) \in Nat /\ Length(w) > 0
    <3>1. 1 \in 1 .. Len(rest[w])
      BY <1>3, <2>1, EmptySeq DEF FinishHeader, LastOfHeader
    <3>2. rest[w][1] \in Bytes
      BY <2>1, <3>1, ElementOfSeq
    <3>. QED
      BY <1>3, <3>2 DEF Length, Bytes, FinishHeader
  <2>. DEFINE s == Payload(w, taken[w], Length(w))
  <2>3. s \in Seq(Bytes) /\ Len(s) = Length(w)
    BY <2>1, <2>2, PayloadType
  <2>. HIDE DEF s
  <2>4. s # <<>>
    <3>1. Len(s) # 0
      BY <2>2, <2>3
    <3>. QED
      BY <3>1, EmptySeq
  <2>5. /\ rest' = [rest EXCEPT ![w] = s] /\ pc' = [pc EXCEPT ![w] = "payload"]
        /\ UNCHANGED <<mu, calls, taken, left>>
    BY <1>3 DEF FinishHeader, s
  <2>6. WriterType'
    BY <1>a, <2>3, <2>5 DEF WriterType
  <2>7. LockInv'
    BY <1>a, <2>1, <2>4, <2>5 DEF LockInv, WriterType
  <2>8. QuotaInv'
    BY <1>a, <2>5 DEF QuotaInv
  <2>. QED
    BY <2>6, <2>7, <2>8 DEF WriterInv
<1>4. ASSUME NEW w \in Writers, FinishEmpty(w) PROVE WriterInv'
  <2>1. mu = w
    BY <1>4, <1>a DEF FinishEmpty, PutByte, LockInv
  <2>. QED
    BY <1>4, <2>1, DoneWriterInv DEF FinishEmpty
<1>5. ASSUME NEW w \in Writers, FinishPayload(w) PROVE WriterInv'
  <2>1. mu = w
    BY <1>5, <1>a DEF FinishPayload, PutByte, LockInv
  <2>. QED
    BY <1>5, <2>1, DoneWriterInv DEF FinishPayload
<1>6. ASSUME NEW w \in Writers, WriteFails(w) PROVE WriterInv'
  <2>1. mu = w
    BY <1>6, <1>a DEF WriteFails, LockInv
  <2>2. WriterType'
    BY <1>6, <1>a, EmptySeq, SMTT(30) DEF WriteFails, WriterType
  <2>3. LockInv'
    BY <1>6, <1>a, <2>1 DEF WriteFails, LockInv, WriterType
  <2>4. QuotaInv'
    <3>1. SUFFICES ASSUME NEW v \in Writers PROVE taken'[v] + left'[v] <= calls'[v] * MaxWrite
      BY DEF QuotaInv
    <3>2. PICK q \in Nat : q = calls[v] * MaxWrite
      BY <1>a, Quota DEF WriterType
    <3>3. taken[v] + left[v] <= q /\ taken[v] \in Nat /\ left[v] \in Nat
      BY <1>a, <3>2 DEF QuotaInv, WriterType
    <3>4. taken[v] + 0 <= q
      BY <3>3
    <3>5. left'[v] = 0 \/ left'[v] = left[v]
      BY <1>6, <1>a DEF WriteFails, WriterType
    <3>6. taken' = taken /\ calls' = calls
      BY <1>6 DEF WriteFails
    <3>. QED
      BY <3>2, <3>3, <3>4, <3>5, <3>6
  <2>. QED
    BY <2>2, <2>3, <2>4 DEF WriterInv
<1>7. ASSUME NEW w \in Writers, NEW n \in 0 .. MaxWrite, Begin(w, n) PROVE WriterInv'
  <2>1. calls[w] \in Nat /\ calls[w] < MaxCalls /\ calls[w] + 1 \in 0 .. MaxCalls
    BY <1>7, <1>a, SMTT(30) DEF Begin, WriterType
  <2>2. WriterType'
    BY <1>7, <1>a, <2>1 DEF Begin, WriterType
  <2>3. LockInv'
    BY <1>7, <1>a DEF Begin, LockInv, WriterType
  <2>4. QuotaInv'
    <3>1. SUFFICES ASSUME NEW v \in Writers PROVE taken'[v] + left'[v] <= calls'[v] * MaxWrite
      BY DEF QuotaInv
    <3>2. PICK q \in Nat : q = calls[v] * MaxWrite
      BY <1>a, Quota DEF WriterType
    <3>3. taken[v] + left[v] <= q /\ taken[v] \in Nat /\ left[v] \in Nat
      BY <1>a, <3>2 DEF QuotaInv, WriterType
    <3>4. CASE v = w
      <4>1. left'[v] = n /\ calls'[v] = calls[v] + 1 /\ taken'[v] = taken[v]
        BY <1>7, <1>a, <3>4 DEF Begin, WriterType
      <4>2. calls'[v] * MaxWrite = q + MaxWrite
        BY <2>1, <3>2, <3>4, <4>1, Quota
      <4>3. taken[v] + n <= q + MaxWrite
        BY <3>3
      <4>. QED
        BY <4>1, <4>2, <4>3
    <3>5. CASE v # w
      BY <1>7, <1>a, <3>2, <3>3, <3>5 DEF Begin, WriterType
    <3>. QED
      BY <3>4, <3>5
  <2>. QED
    BY <2>2, <2>3, <2>4 DEF WriterInv
<1>8. ASSUME UNCHANGED writerVars PROVE WriterInv'
  BY <1>8, <1>a DEF writerVars, WriterInv, WriterType, LockInv, QuotaInv
<1>9. CASE ReaderStep \/ Break \/ UNCHANGED vars
  BY <1>8, <1>9 DEF ReaderStep, ReadByte, ReadEnds, Break, vars
<1>. QED
  BY <1>1, <1>2, <1>3, <1>4, <1>5, <1>6, <1>7, <1>9 DEF Next, WriterStep

--------------------------------------------------------------------------
(* The bytes *)

\* What the writer that holds the mutex is writing, of which j bytes are written.
AtWork(cur, j) ==
    /\ mu = NoWriter => j = 0
    /\ \A w \in Writers : mu = w =>
          /\ cur = Frame(w, Payload(w, taken[w], Chunk(w)))
          /\ j + Len(rest[w]) = IF pc[w] = "header" THEN HeaderLen ELSE Size(cur)
          /\ \A i \in 1 .. Len(rest[w]) : rest[w][i] = ByteOf(cur, j + i)

Ordered(at, cur, j) ==
    /\ Framed(sent, Len(received), got, wire, at, cur, j) /\ j < Size(cur)
    /\ broken \/ (Tight(sent, Len(received), got, wire, at, j) /\ AtWork(cur, j))

\* What the reader has and what is on its way is a beginning of the frames it has not
\* returned, each in one piece, and of a part of one more; while the connection is up,
\* all of it, and that part is what its writer has written so far.
StreamInv == \E at \in [Nat -> Nat], cur \in FrameSet, j \in Nat : Ordered(at, cur, j)

LEMMA StreamInvIntro ==
    ASSUME NEW at, NEW cur, NEW j, Ordered(at, cur, j)
    PROVE  StreamInv
BY DEF Ordered, Framed, StreamInv

LEMMA InitStreamInv == Init => StreamInv
<1>. SUFFICES ASSUME Init PROVE StreamInv
  OBVIOUS
<1>1. PICK w \in Writers : TRUE
  BY FramesAssumption DEF FramesAssumption
<1>. DEFINE at == [n \in Nat |-> 0]
            cur == Frame(w, <<>>)
<1>2. <<>> \in Seq(Bytes) /\ Len(<<>>) = 0 /\ <<>> \in Seq(FrameSet)
  BY EmptySeq
<1>3. cur \in FrameSet /\ cur.payload = <<>>
  BY <1>2, FramesAssumption DEF FramesAssumption, FrameSet, Frame
<1>4. at \in [Nat -> Nat] /\ at[0] = 0
  OBVIOUS
<1>. HIDE DEF at, cur
<1>5. Size(cur) \in Nat /\ Size(cur) >= 1
  BY <1>3, SizeType, FramesAssumption DEF FramesAssumption
<1>6. ASSUME NEW k \in Nat, NEW i \in Nat, Due(<<>>, 0, <<>>, <<>>, at, cur, k, i)
      PROVE  FALSE
  <2>1. 1 <= k /\ k <= 1 /\ 1 <= i /\ at[k - 1] + i <= 0
    BY <1>2, <1>4, <1>6 DEF Due
  <2>2. k - 1 = 0
    BY <2>1
  <2>. QED
    BY <1>4, <2>1, <2>2
<1>7. Framed(<<>>, 0, <<>>, <<>>, at, cur, 0)
  <2>1. 0 \in 0 .. Len(<<>>) /\ at[0] + Len(<<>>) + Len(<<>>) <= at[Len(<<>>)] + 0
    BY <1>2, <1>4
  <2>2. Nth(<<>>, cur, 1) = cur
    BY <1>2 DEF Nth
  <2>3. Len(<<>>) < Size(Nth(<<>>, cur, 0 + 1)) /\ 0 <= Size(cur)
    BY <1>2, <1>5, <2>2
  <2>4. \A k, m \in 0 .. Len(<<>>) : k <= m => at[k] <= at[m]
    BY <1>2, <1>4
  <2>5. \A k \in 1 .. Len(<<>>) : at[k] = at[k - 1] + Size(<<>>[k])
    BY <1>2
  <2>. QED
    BY <1>2, <1>3, <1>4, <1>6, <2>1, <2>3, <2>4, <2>5 DEF Framed
<1>8. Tight(<<>>, 0, <<>>, <<>>, at, 0)
  BY <1>2, <1>4 DEF Tight
<1>9. AtWork(cur, 0)
  BY FramesAssumption DEF Init, AtWork, FramesAssumption
<1>10. Ordered(at, cur, 0)
  BY <1>2, <1>5, <1>7, <1>8, <1>9 DEF Init, Ordered
<1>. QED
  BY <1>10, StreamInvIntro

\* A byte goes from its writer to the wire.
LEMMA ByteIsPut ==
    ASSUME WriterInv, NEW w \in Writers, PutByte(w), NEW at, NEW cur, NEW j,
           Ordered(at, cur, j)
    PROVE  /\ mu = w /\ ~broken /\ AtWork(cur, j)
           /\ rest[w] \in Seq(Bytes) /\ rest[w] # <<>>
           /\ rest[w][1] = ByteOf(cur, j + 1) /\ j \in Nat /\ j + 1 <= Size(cur)
           /\ Framed(sent, Len(received), got, wire', at, cur, j + 1)
           /\ Tight(sent, Len(received), got, wire', at, j + 1)
<1>1. /\ mu = w /\ ~broken /\ rest[w] \in Seq(Bytes) /\ rest[w] # <<>>
      /\ wire' = Append(wire, Head(rest[w]))
  BY DEF WriterInv, LockInv, WriterType, PutByte
<1>2. /\ Framed(sent, Len(received), got, wire, at, cur, j) /\ j < Size(cur)
      /\ Tight(sent, Len(received), got, wire, at, j) /\ AtWork(cur, j)
  BY <1>1 DEF Ordered
<1>3. j \in Nat /\ wire \in Seq(Bytes) /\ cur \in FrameSet
  BY <1>2 DEF Framed
<1>4. Size(cur) \in Nat
  BY <1>3, SizeType
<1>5. j + 1 <= Size(cur) /\ j + 1 \in 1 .. Size(cur)
  BY <1>2, <1>3, <1>4
<1>6. rest[w][1] = ByteOf(cur, j + 1)
  <2>1. 1 \in 1 .. Len(rest[w])
    BY <1>1, EmptySeq
  <2>. QED
    BY <1>1, <1>2, <2>1 DEF AtWork
<1>7. ByteOf(cur, j + 1) \in Bytes
  BY <1>3, <1>5, ByteType
<1>8. Head(rest[w]) = ByteOf(cur, j + 1)
  BY <1>1, <1>6
<1>9. Extends(wire, ByteOf(cur, j + 1), wire')
  BY <1>1, <1>3, <1>7, <1>8, AppendExtends
<1>10. /\ Framed(sent, Len(received), got, wire', at, cur, j + 1)
       /\ Tight(sent, Len(received), got, wire', at, j + 1)
  BY <1>2, <1>5, <1>9, PutOne
<1>. QED
  BY <1>1, <1>2, <1>3, <1>5, <1>6, <1>10

\* A byte in the middle of a header or of a payload.
LEMMA WriteByteStream ==
    ASSUME WriterInv, NEW w \in Writers, WriteByte(w), StreamInv
    PROVE  StreamInv'
<1>1. PICK at \in [Nat -> Nat], cur \in FrameSet, j \in Nat : Ordered(at, cur, j)
  BY DEF StreamInv
<1>2. /\ mu = w /\ ~broken /\ AtWork(cur, j)
      /\ rest[w] \in Seq(Bytes) /\ rest[w] # <<>>
      /\ rest[w][1] = ByteOf(cur, j + 1) /\ j \in Nat /\ j + 1 <= Size(cur)
      /\ Framed(sent, Len(received), got, wire', at, cur, j + 1)
      /\ Tight(sent, Len(received), got, wire', at, j + 1)
  BY <1>1, ByteIsPut DEF WriteByte
<1>3. /\ rest' = [rest EXCEPT ![w] = Tail(rest[w])] /\ Len(rest[w]) > 1
      /\ UNCHANGED <<mu, pc, taken, left, sent, broken, got, received>>
  BY DEF WriteByte, readerVars
<1>4. /\ rest'[w] = Tail(rest[w]) /\ Len(Tail(rest[w])) = Len(rest[w]) - 1
      /\ \A i \in 1 .. Len(Tail(rest[w])) : Tail(rest[w])[i] = rest[w][i + 1]
  <2>1. rest'[w] = Tail(rest[w])
    BY <1>3 DEF WriterInv, WriterType
  <2>. QED
    BY <1>2, <2>1, HeadTailProperties
<1>5. PICK N \in Nat : N = Len(rest[w])
  BY <1>2, LenProperties
<1>6. /\ cur = Frame(w, Payload(w, taken[w], Chunk(w)))
      /\ j + N = IF pc[w] = "header" THEN HeaderLen ELSE Size(cur)
      /\ \A i \in 1 .. N : rest[w][i] = ByteOf(cur, j + i)
  BY <1>2, <1>5 DEF AtWork
<1>7. N > 1 /\ Len(rest'[w]) = N - 1
  BY <1>3, <1>4, <1>5
<1>8. (j + 1) + (N - 1) = j + N
  OBVIOUS
<1>9. \A i \in 1 .. N - 1 : rest'[w][i] = ByteOf(cur, (j + 1) + i)
  <2>1. SUFFICES ASSUME NEW i \in 1 .. N - 1 PROVE rest'[w][i] = ByteOf(cur, (j + 1) + i)
    OBVIOUS
  <2>2. i + 1 \in 1 .. N /\ j + (i + 1) = (j + 1) + i
    BY <1>7
  <2>3. rest[w][i + 1] = ByteOf(cur, (j + 1) + i)
    BY <1>6, <2>2
  <2>. QED
    BY <1>4, <1>5, <1>7, <2>3
<1>10. AtWork(cur, j + 1)'
  <2>1. Chunk(w)' = Chunk(w)
    BY <1>3 DEF Chunk
  <2>2. \A v \in Writers : mu' = v => v = w
    BY <1>2, <1>3
  <2>3. mu' # NoWriter
    BY <1>2, <1>3, FramesAssumption DEF FramesAssumption
  <2>4. cur = Frame(w, Payload(w, taken'[w], Chunk(w)'))
    BY <1>3, <1>6, <2>1
  <2>5. (j + 1) + Len(rest'[w]) = IF pc'[w] = "header" THEN HeaderLen ELSE Size(cur)
    BY <1>3, <1>6, <1>7, <1>8
  <2>6. \A i \in 1 .. Len(rest'[w]) : rest'[w][i] = ByteOf(cur, (j + 1) + i)
    BY <1>7, <1>9
  <2>. QED
    BY <2>2, <2>3, <2>4, <2>5, <2>6 DEF AtWork
<1>11. j + 1 < Size(cur)
  <2>1. PICK z \in Nat : z = Size(cur)
    BY SizeType
  <2>2. PICK H \in Nat : H = HeaderLen
    BY FramesAssumption DEF FramesAssumption
  <2>3. H <= z
    BY <2>1, <2>2, SizeType
  <2>4. j + N = H \/ j + N = z
    BY <1>6, <2>1, <2>2
  <2>5. j + N <= z
    BY <2>3, <2>4
  <2>6. j + 1 < z
    BY <1>7, <2>5
  <2>. QED
    BY <2>1, <2>6
<1>. QED
  <2>1. Ordered(at, cur, j + 1)'
    BY <1>2, <1>3, <1>10, <1>11 DEF Ordered
  <2>. QED
    BY <2>1 DEF StreamInv

\* The last byte of a header: the payload it declares comes next.
LEMMA FinishHeaderStream ==
    ASSUME WriterInv, NEW w \in Writers, FinishHeader(w), StreamInv
    PROVE  StreamInv'
<1>1. PICK at \in [Nat -> Nat], cur \in FrameSet, j \in Nat : Ordered(at, cur, j)
  BY DEF StreamInv
<1>2. /\ mu = w /\ ~broken /\ AtWork(cur, j)
      /\ rest[w] \in Seq(Bytes) /\ rest[w] # <<>>
      /\ rest[w][1] = ByteOf(cur, j + 1) /\ j \in Nat /\ j + 1 <= Size(cur)
      /\ Framed(sent, Len(received), got, wire', at, cur, j + 1)
      /\ Tight(sent, Len(received), got, wire', at, j + 1)
  BY <1>1, ByteIsPut DEF FinishHeader
<1>3. /\ rest' = [rest EXCEPT ![w] = Payload(w, taken[w], Length(w))]
      /\ pc' = [pc EXCEPT ![w] = "payload"]
      /\ pc[w] = "header" /\ Len(rest[w]) = 1 /\ Length(w) > 0
      /\ UNCHANGED <<mu, taken, left, sent, broken, got, received>>
  BY DEF FinishHeader, LastOfHeader, readerVars
<1>4. PICK H \in Nat : H = HeaderLen
  BY FramesAssumption DEF FramesAssumption
<1>5. cur = Frame(w, Payload(w, taken[w], Chunk(w))) /\ j + 1 = H
  BY <1>2, <1>3, <1>4 DEF AtWork
<1>6. PICK n \in Nat : n = Chunk(w)
  BY ChunkType, FramesAssumption DEF WriterInv, FramesAssumption
<1>7. taken[w] \in Nat
  BY DEF WriterInv, WriterType
<1>8. /\ cur.payload = Payload(w, taken[w], n) /\ Len(cur.payload) = n
      /\ Size(cur) = H + n
  BY <1>4, <1>5, <1>6, <1>7, PayloadType DEF Frame, Size
<1>9. Length(w) = n
  <2>1. j + 1 <= HeaderLen
    BY <1>4, <1>5
  <2>. QED
    BY <1>2, <1>8, <2>1 DEF Length, ByteOf
<1>10. rest'[w] = cur.payload /\ pc'[w] = "payload"
  BY <1>3, <1>8, <1>9 DEF WriterInv, WriterType
<1>11. \A i \in 1 .. n : cur.payload[i] = ByteOf(cur, (j + 1) + i)
  <2>1. SUFFICES ASSUME NEW i \in 1 .. n PROVE cur.payload[i] = ByteOf(cur, H + i)
    BY <1>5
  <2>2. ~(H + i <= H) /\ (H + i) - H = i
    OBVIOUS
  <2>. QED
    BY <1>4, <2>2 DEF ByteOf
<1>12. AtWork(cur, j + 1)'
  <2>1. Chunk(w)' = Chunk(w)
    BY <1>3 DEF Chunk
  <2>2. \A v \in Writers : mu' = v => v = w
    BY <1>2, <1>3
  <2>3. mu' # NoWriter
    BY <1>2, <1>3, FramesAssumption DEF FramesAssumption
  <2>4. cur = Frame(w, Payload(w, taken'[w], Chunk(w)'))
    BY <1>3, <1>5, <2>1
  <2>5. (j + 1) + Len(rest'[w]) = Size(cur)
    BY <1>5, <1>8, <1>10
  <2>6. \A i \in 1 .. Len(rest'[w]) : rest'[w][i] = ByteOf(cur, (j + 1) + i)
    BY <1>8, <1>10, <1>11
  <2>. QED
    BY <1>10, <2>2, <2>3, <2>4, <2>5, <2>6 DEF AtWork
<1>13. j + 1 < Size(cur)
  <2>1. n > 0
    BY <1>3, <1>9
  <2>2. H < H + n
    BY <2>1
  <2>. QED
    BY <1>5, <1>8, <2>2
<1>14. Ordered(at, cur, j + 1)'
  BY <1>2, <1>3, <1>12, <1>13 DEF Ordered
<1>. QED
  BY <1>14 DEF StreamInv

\* The last byte of a frame: the frame counts as written.
LEMMA FrameDoneStream ==
    ASSUME WriterInv, NEW w \in Writers, PutByte(w), FrameDone(w, Chunk(w)), mu' = NoWriter,
           NEW at, NEW cur, NEW j, Ordered(at, cur, j), j + 1 = Size(cur)
    PROVE  StreamInv' /\ cur \in FrameSet /\ sent' = Append(sent, cur)
<1>1. /\ mu = w /\ ~broken /\ AtWork(cur, j) /\ j \in Nat
      /\ Framed(sent, Len(received), got, wire', at, cur, j + 1)
      /\ Tight(sent, Len(received), got, wire', at, j + 1)
  BY ByteIsPut
<1>2. /\ sent' = Append(sent, Frame(w, Payload(w, taken[w], Chunk(w))))
      /\ UNCHANGED <<broken, got, received>>
  BY DEF FrameDone, readerVars
<1>3. cur = Frame(w, Payload(w, taken[w], Chunk(w)))
  BY <1>1 DEF AtWork
<1>4. sent' = Append(sent, cur)
  BY <1>2, <1>3
<1>5. sent \in Seq(FrameSet) /\ cur \in FrameSet
  BY <1>1 DEF Framed
<1>6. Follows(sent, cur, sent')
  BY <1>4, <1>5, AppendFollows
<1>6a. PICK an : an = Placed(at, sent, cur)
  OBVIOUS
<1>7. /\ Framed(sent', Len(received), got, wire', an, cur, 0)
      /\ Tight(sent', Len(received), got, wire', an, 0)
  <2>. DEFINE n == j + 1
  <2>1. n = Size(cur) /\ Framed(sent, Len(received), got, wire', at, cur, n)
        /\ Tight(sent, Len(received), got, wire', at, n)
    BY <1>1
  <2>. HIDE DEF n
  <2>. QED
    BY <1>6, <1>6a, <2>1, Commit
<1>8. AtWork(cur, 0)'
  BY FramesAssumption DEF AtWork, FramesAssumption
<1>9. 0 < Size(cur)
  BY <1>5, SizeType, FramesAssumption DEF FramesAssumption
<1>10. Ordered(an, cur, 0)'
  BY <1>2, <1>7, <1>8, <1>9 DEF Ordered
<1>11. StreamInv'
  <2>1. an \in [Nat -> Nat] /\ 0 \in Nat
    BY <1>7 DEF Framed
  <2>. QED
    BY <1>5, <1>10, <2>1 DEF StreamInv
<1>. QED
  BY <1>4, <1>5, <1>11

\* A frame without payload ends with its header.
LEMMA FinishEmptyDone ==
    ASSUME WriterInv, NEW w \in Writers, FinishEmpty(w), NEW at, NEW cur, NEW j,
           Ordered(at, cur, j)
    PROVE  FrameDone(w, Chunk(w)) /\ Chunk(w) = 0 /\ j + 1 = Size(cur)
<1>2. /\ mu = w /\ AtWork(cur, j)
      /\ rest[w][1] = ByteOf(cur, j + 1) /\ j \in Nat
  BY ByteIsPut DEF FinishEmpty
<1>3. pc[w] = "header" /\ Len(rest[w]) = 1 /\ Length(w) = 0 /\ FrameDone(w, 0)
  BY DEF FinishEmpty, LastOfHeader
<1>4. PICK H \in Nat : H = HeaderLen
  BY FramesAssumption DEF FramesAssumption
<1>5. cur = Frame(w, Payload(w, taken[w], Chunk(w))) /\ j + 1 = H
  BY <1>2, <1>3, <1>4 DEF AtWork
<1>6. PICK n \in Nat : n = Chunk(w)
  BY ChunkType, FramesAssumption DEF WriterInv, FramesAssumption
<1>7. taken[w] \in Nat
  BY DEF WriterInv, WriterType
<1>8. Len(cur.payload) = n /\ Size(cur) = H + n
  BY <1>4, <1>5, <1>6, <1>7, PayloadType DEF Frame, Size
<1>9. Length(w) = n
  <2>1. j + 1 <= HeaderLen
    BY <1>4, <1>5
  <2>. QED
    BY <1>2, <1>8, <2>1 DEF Length, ByteOf
<1>10. n = 0 /\ H + 0 = H
  BY <1>3, <1>9
<1>. QED
  BY <1>3, <1>5, <1>6, <1>8, <1>10

\* A frame with payload ends with its last byte.
LEMMA FinishPayloadDone ==
    ASSUME WriterInv, NEW w \in Writers, FinishPayload(w), NEW at, NEW cur, NEW j,
           Ordered(at, cur, j)
    PROVE  j + 1 = Size(cur)
<1>1. mu = w /\ AtWork(cur, j)
  BY ByteIsPut DEF FinishPayload
<1>2. pc[w] = "payload" /\ Len(rest[w]) = 1
  BY DEF FinishPayload
<1>. QED
  BY <1>1, <1>2 DEF AtWork

\* The writer that takes the mutex starts a frame of which nothing is written yet.
LEMMA LockStream ==
    ASSUME WriterInv, NEW w \in Writers, Lock(w), StreamInv
    PROVE  StreamInv'
<1>1. PICK at \in [Nat -> Nat], cur \in FrameSet, j \in Nat : Ordered(at, cur, j)
  BY DEF StreamInv
<1>2. /\ mu = NoWriter /\ mu' = w
      /\ pc' = [pc EXCEPT ![w] = "header"]
      /\ rest' = [rest EXCEPT ![w] = Header(w, Chunk(w))]
      /\ UNCHANGED <<taken, left, sent, wire, broken, got, received>>
  BY DEF Lock, StartHeader, readerVars
<1>3. CASE broken
  <2>1. Ordered(at, cur, j)'
    BY <1>1, <1>2, <1>3 DEF Ordered
  <2>. QED
    BY <2>1 DEF StreamInv
<1>4. CASE ~broken
  <2>1. PICK n \in Nat : n = Chunk(w)
    BY ChunkType, FramesAssumption DEF WriterInv, FramesAssumption
  <2>2. n \in 0 .. MaxPayload
    BY <2>1, ChunkType DEF WriterInv
  <2>3. taken[w] \in Nat
    BY DEF WriterInv, WriterType
  <2>4. PICK f : f = Frame(w, Payload(w, taken[w], n))
    OBVIOUS
  <2>5. /\ f.kind = w /\ f.payload = Payload(w, taken[w], n) /\ Len(f.payload) = n
        /\ f.payload \in Seq(Bytes)
    BY <2>3, <2>4, PayloadType DEF Frame
  <2>6. f \in FrameSet
    <3>1. n <= MaxPayload
      BY <2>2, FramesAssumption DEF FramesAssumption
    <3>. QED
      BY <2>4, <2>5, <3>1 DEF FrameSet, Frame
  <2>7. j = 0 /\ Framed(sent, Len(received), got, wire, at, cur, 0)
        /\ Tight(sent, Len(received), got, wire, at, 0)
    BY <1>1, <1>2, <1>4 DEF Ordered, AtWork
  <2>8. Framed(sent, Len(received), got, wire, at, f, 0)
    BY <2>6, <2>7, Renew
  <2>9. AtWork(f, 0)'
    <3>1. Chunk(w)' = n
      BY <1>2, <2>1 DEF Chunk
    <3>2. rest'[w] = Header(w, n) /\ pc'[w] = "header"
      BY <1>2, <2>1 DEF WriterInv, WriterType
    <3>3. Len(rest'[w]) = HeaderLen
          /\ \A i \in 1 .. HeaderLen : rest'[w][i] =
                 [part |-> "header", writer |-> w, length |-> n, index |-> i]
      BY <2>2, <3>2, HeaderType, SMTT(30)
    <3>4. \A i \in 1 .. HeaderLen : rest'[w][i] = ByteOf(f, 0 + i)
      <4>1. SUFFICES ASSUME NEW i \in 1 .. HeaderLen PROVE rest'[w][i] = ByteOf(f, 0 + i)
        OBVIOUS
      <4>2. 0 + i = i /\ i <= HeaderLen
        BY FramesAssumption DEF FramesAssumption
      <4>. QED
        BY <2>5, <3>3, <4>2 DEF ByteOf
    <3>5. 0 + HeaderLen = HeaderLen
      BY FramesAssumption DEF FramesAssumption
    <3>6. mu' # NoWriter /\ \A v \in Writers : mu' = v => v = w
      BY <1>2, FramesAssumption DEF FramesAssumption
    <3>7. f = Frame(w, Payload(w, taken'[w], Chunk(w)'))
      BY <1>2, <2>4, <3>1
    <3>. QED
      BY <3>2, <3>3, <3>4, <3>5, <3>6, <3>7 DEF AtWork
  <2>10. 0 < Size(f)
    BY <2>6, SizeType, FramesAssumption DEF FramesAssumption
  <2>11. Ordered(at, f, 0)'
    BY <1>2, <2>7, <2>8, <2>9, <2>10 DEF Ordered
  <2>. QED
    BY <2>6, <2>11 DEF StreamInv
<1>. QED
  BY <1>3, <1>4

\* What a writer that does not have the mutex does changes nothing of this, nor what
\* is done once the connection has ended.
LEMMA ElsewhereStream ==
    ASSUME StreamInv, UNCHANGED <<sent, wire, broken, got, received>>,
           broken \/ \A at, cur, j : AtWork(cur, j) => AtWork(cur, j)'
    PROVE  StreamInv'
<1>1. PICK at \in [Nat -> Nat], cur \in FrameSet, j \in Nat : Ordered(at, cur, j)
  BY DEF StreamInv
<1>2. Ordered(at, cur, j)'
  BY <1>1 DEF Ordered
<1>. QED
  BY <1>2 DEF StreamInv

\* A new call does not touch the frame of another.
LEMMA BeginStream ==
    ASSUME WriterInv, NEW w \in Writers, NEW n \in 0 .. MaxWrite, Begin(w, n), StreamInv
    PROVE  StreamInv'
<1>1. /\ pc[w] = "idle" /\ left' = [left EXCEPT ![w] = n]
      /\ pc' = [pc EXCEPT ![w] = "locking"]
      /\ UNCHANGED <<mu, taken, rest, sent, wire, broken, got, received>>
  BY DEF Begin, readerVars
<1>2. mu # w
  BY <1>1 DEF WriterInv, LockInv
<1>3. ASSUME NEW cur, NEW j, AtWork(cur, j) PROVE AtWork(cur, j)'
  <2>1. SUFFICES ASSUME NEW v \in Writers, mu = v
                 PROVE  /\ cur = Frame(v, Payload(v, taken'[v], Chunk(v)'))
                        /\ j + Len(rest'[v]) = IF pc'[v] = "header" THEN HeaderLen ELSE Size(cur)
                        /\ \A i \in 1 .. Len(rest'[v]) : rest'[v][i] = ByteOf(cur, j + i)
    BY <1>1, <1>3 DEF AtWork
  <2>2. left'[v] = left[v] /\ pc'[v] = pc[v]
    BY <1>1, <1>2, <2>1 DEF WriterInv, WriterType
  <2>3. Chunk(v)' = Chunk(v)
    BY <2>2 DEF Chunk
  <2>. QED
    BY <1>1, <1>3, <2>1, <2>2, <2>3 DEF AtWork
<1>. QED
  BY <1>1, <1>3, ElsewhereStream

\* Once the connection has ended only the beginning of the stretch matters.
LEMMA WriteFailsStream ==
    ASSUME NEW w \in Writers, WriteFails(w), StreamInv
    PROVE  StreamInv'
BY ElsewhereStream DEF WriteFails, readerVars

\* A connection that ends keeps a beginning of what was on it.
LEMMA BreakStream ==
    ASSUME Break, StreamInv
    PROVE  StreamInv'
<1>1. PICK at \in [Nat -> Nat], cur \in FrameSet, j \in Nat : Ordered(at, cur, j)
  BY DEF StreamInv
<1>2. PICK k \in 0 .. Len(wire) : wire' = SubSeq(wire, 1, k)
  BY DEF Break
<1>3. broken' /\ UNCHANGED <<sent, got, received>>
  BY DEF Break, writerVars, readerVars
<1>4. Framed(sent, Len(received), got, wire, at, cur, j) /\ j < Size(cur)
  BY <1>1 DEF Ordered
<1>5. wire \in Seq(Bytes) /\ Len(wire) \in Nat
  BY <1>4, LenProperties DEF Framed
<1>6. k \in Nat /\ k <= Len(wire)
  BY <1>5
<1>7. \A i \in 1 .. k : wire[i] \in Bytes
  <2>1. SUFFICES ASSUME NEW i \in 1 .. k PROVE wire[i] \in Bytes
    OBVIOUS
  <2>2. i \in 1 .. Len(wire)
    BY <1>5, <1>6
  <2>. QED
    BY <1>5, <2>2, ElementOfSeq
<1>8. /\ SubSeq(wire, 1, k) \in Seq(Bytes)
      /\ Len(SubSeq(wire, 1, k)) = IF 1 <= k THEN k - 1 + 1 ELSE 0
      /\ \A i \in 1 .. k - 1 + 1 : SubSeq(wire, 1, k)[i] = wire[1 + i - 1]
  BY <1>6, <1>7, SubSeqProperties
<1>9. wire' \in Seq(Bytes) /\ Len(wire') = k /\ \A i \in 1 .. k : wire'[i] = wire[i]
  <2>1. (IF 1 <= k THEN k - 1 + 1 ELSE 0) = k
    BY <1>6
  <2>2. \A i \in 1 .. k : i \in 1 .. k - 1 + 1 /\ 1 + i - 1 = i
    BY <1>6
  <2>. QED
    BY <1>2, <1>8, <2>1, <2>2
<1>10. Framed(sent, Len(received), got, wire', at, cur, j)
  BY <1>4, <1>6, <1>9, Cut
<1>11. Ordered(at, cur, j)'
  BY <1>3, <1>4, <1>10 DEF Ordered
<1>. QED
  BY <1>11 DEF StreamInv

\* The reader takes a byte, and returns the next frame when it has all of it.
LEMMA ReadByteStream ==
    ASSUME ReadByte, StreamInv
    PROVE  /\ StreamInv'
           /\ \/ received' = received
              \/ /\ Len(received) < Len(sent)
                 /\ received' = Append(received, sent[Len(received) + 1])
<1>1. PICK at \in [Nat -> Nat], cur \in FrameSet, j \in Nat : Ordered(at, cur, j)
  BY DEF StreamInv
<1>2. Framed(sent, Len(received), got, wire, at, cur, j) /\ j < Size(cur)
  BY <1>1 DEF Ordered
<1>3. PICK r : r = Len(received)
  OBVIOUS
<1>4. /\ sent \in Seq(FrameSet) /\ r \in Nat /\ Len(sent) \in Nat /\ r <= Len(sent)
      /\ got \in Seq(Bytes) /\ wire \in Seq(Bytes) /\ Len(got) \in Nat /\ Len(wire) \in Nat
      /\ at \in [Nat -> Nat] /\ at[r] \in Nat /\ at[Len(sent)] \in Nat
      /\ cur \in FrameSet /\ j \in Nat /\ Size(cur) \in Nat
  BY <1>2, <1>3, FramedTypes
<1>5. /\ wire # <<>> /\ wire' = Tail(wire)
      /\ IF Complete(Append(got, Head(wire)))
         THEN /\ received' = Append(received,
                      Frame(Append(got, Head(wire))[1].writer,
                            SubSeq(Append(got, Head(wire)), HeaderLen + 1,
                                   Len(Append(got, Head(wire))))))
              /\ got' = <<>>
         ELSE got' = Append(got, Head(wire)) /\ received' = received
      /\ UNCHANGED <<mu, pc, taken, left, rest, sent, broken>>
  BY DEF ReadByte, writerVars
<1>6. Moves(got, wire, Append(got, Head(wire)), wire')
  BY <1>4, <1>5, TakeMoves
<1>7. PICK h : h = Append(got, Head(wire))
  OBVIOUS
<1>8. PICK f : f = Nth(sent, cur, r + 1)
  OBVIOUS
<1>9. /\ Complete(h) <=> Len(h) = Size(f)
      /\ Len(h) = Size(f) => Frame(h[1].writer, SubSeq(h, HeaderLen + 1, Len(h))) = f
  <2>1. Framed(sent, r, got, wire, at, cur, j)
    BY <1>2, <1>3
  <2>2. Moves(got, wire, h, wire')
    BY <1>6, <1>7
  <2>3. Tells(h, f)
    BY <1>8, <2>1, <2>2, WholeFrame
  <2>. QED
    BY <2>3 DEF Tells
<1>10. \A c, i : AtWork(c, i) => AtWork(c, i)'
  <2>1. \A w \in Writers : Chunk(w)' = Chunk(w)
    BY <1>5 DEF Chunk
  <2>. QED
    BY <1>5, <2>1 DEF AtWork
<1>11. CASE ~Complete(h)
  <2>1. got' = h /\ received' = received
    BY <1>5, <1>7, <1>11
  <2>2. Len(h) # Size(f)
    BY <1>9, <1>11
  <2>3. /\ Framed(sent, r, h, wire', at, cur, j)
        /\ Tight(sent, r, got, wire, at, j) => Tight(sent, r, h, wire', at, j)
    BY <1>2, <1>3, <1>6, <1>7, <1>8, <2>2, TakeOne
  <2>4. Ordered(at, cur, j)'
    BY <1>1, <1>2, <1>3, <1>5, <1>10, <2>1, <2>3 DEF Ordered
  <2>. QED
    BY <2>1, <2>4 DEF StreamInv
<1>12. CASE Complete(h)
  <2>1. Len(h) = Size(f) /\ got' = <<>> /\ received' = Append(received, f)
    BY <1>5, <1>7, <1>9, <1>12
  <2>2. r < Len(sent)
    <3>1. SUFFICES ASSUME r = Len(sent) PROVE FALSE
      BY <1>4
    <3>2. PICK R \in Nat : R = at[r]
      BY <1>4
    <3>3. PICK G \in Nat : G = Len(got)
      BY <1>4
    <3>4. PICK B \in Nat : B = Len(wire)
      BY <1>4
    <3>5. PICK z \in Nat : z = Size(cur)
      BY <1>4
    <3>6. R + G + B <= R + j /\ j < z /\ j \in Nat
      BY <1>2, <1>3, <1>4, <3>1, <3>2, <3>3, <3>4, <3>5 DEF Framed
    <3>7. f = cur
      <4>1. PICK F \in Nat : F = Len(sent)
        BY <1>4
      <4>2. ~(F + 1 <= F)
        OBVIOUS
      <4>. QED
        BY <1>8, <3>1, <4>1, <4>2 DEF Nth
    <3>8. Len(h) = G + 1 /\ B >= 1
      BY <1>6, <1>7, <3>3, <3>4 DEF Moves, Extends
    <3>9. G + 1 = z
      BY <2>1, <3>5, <3>7, <3>8
    <3>10. B >= 1
      BY <3>8
    <3>. QED
      BY <3>6, <3>9, <3>10
  <2>3. /\ Framed(sent, r + 1, <<>>, wire', at, cur, j)
        /\ Tight(sent, r, got, wire, at, j) => Tight(sent, r + 1, <<>>, wire', at, j)
    BY <1>2, <1>3, <1>6, <1>7, <1>8, <2>1, <2>2, TakeLast
  <2>4. f = sent[r + 1] /\ f \in FrameSet
    <3>1. r + 1 <= Len(sent) /\ r + 1 \in 1 .. Len(sent)
      BY <1>4, <2>2
    <3>. QED
      BY <1>4, <1>8, <3>1, ElementOfSeq DEF Nth
  <2>5. received' = Append(received, sent[Len(received) + 1])
    BY <1>3, <2>1, <2>4
  <2>6. Len(received') = r + 1
    BY <1>3, <2>1
  <2>7. Ordered(at, cur, j)'
    BY <1>1, <1>2, <1>3, <1>5, <1>10, <2>1, <2>3, <2>6 DEF Ordered
  <2>. QED
    BY <1>3, <2>2, <2>5, <2>6, <2>7 DEF StreamInv
<1>. QED
  BY <1>11, <1>12

--------------------------------------------------------------------------
(* The frames *)

\* The reader has returned the first of the frames that were written.
ReadInv ==
    /\ received \in Seq(FrameSet)
    /\ \A k \in 1 .. Len(received) : received[k] = sent[k]

\* What has been written of a stream is its beginning.
OrderInv ==
    /\ \A w \in Writers : Places(sent, w, Len(sent)) = 1 .. taken[w]
    /\ \A k \in 1 .. Len(sent) : GoesOn(sent, k)

\* The wire, and the values of the flags.
RoomInv == Len(wire) <= Room /\ broken \in BOOLEAN /\ ended \in {"no", "eof", "truncated"}

\* The inductive invariant.
IInv == WriterInv /\ StreamInv /\ ReadInv /\ OrderInv /\ RoomInv

\* Places looks at the first k frames only.
LEMMA PlacesAgree ==
    ASSUME NEW fs, NEW gs, NEW k \in Nat, \A i \in 1 .. k : fs[i] = gs[i]
    PROVE  \A w : Places(fs, w, k) = Places(gs, w, k)
<1>. SUFFICES ASSUME NEW w PROVE Places(fs, w, k) = Places(gs, w, k)
  OBVIOUS
<1>1. {m \in 1 .. k : fs[m].kind = w} = {m \in 1 .. k : gs[m].kind = w}
  OBVIOUS
<1>. DEFINE A(i) == {fs[i].payload[j].index : j \in 1 .. Len(fs[i].payload)}
            C(i) == {gs[i].payload[j].index : j \in 1 .. Len(gs[i].payload)}
            K == {m \in 1 .. k : fs[m].kind = w}
<1>2. \A i \in K : A(i) = C(i)
  OBVIOUS
<1>. HIDE DEF A, C
<1>3. {A(i) : i \in K} = {C(i) : i \in K}
  BY <1>2
<1>. QED
  BY <1>1, <1>3 DEF Places, A, C

\* One frame more.
LEMMA PlacesNext ==
    ASSUME NEW fs, NEW k \in Nat, NEW w
    PROVE  Places(fs, w, k + 1) =
              IF fs[k + 1].kind = w
              THEN Places(fs, w, k) \cup
                      {fs[k + 1].payload[j].index : j \in 1 .. Len(fs[k + 1].payload)}
              ELSE Places(fs, w, k)
<1>. DEFINE A(i) == {fs[i].payload[j].index : j \in 1 .. Len(fs[i].payload)}
            K(n) == {m \in 1 .. n : fs[m].kind = w}
<1>1. \A n : Places(fs, w, n) = UNION {A(i) : i \in K(n)}
  BY DEF Places
<1>2. 1 .. k + 1 = (1 .. k) \cup {k + 1}
  OBVIOUS
<1>3. CASE fs[k + 1].kind = w
  <2>1. K(k + 1) = K(k) \cup {k + 1}
    BY <1>2, <1>3
  <2>. HIDE DEF A, K
  <2>2. UNION {A(i) : i \in K(k) \cup {k + 1}} = (UNION {A(i) : i \in K(k)}) \cup A(k + 1)
    OBVIOUS
  <2>3. Places(fs, w, k + 1) = Places(fs, w, k) \cup A(k + 1)
    BY <1>1, <2>1, <2>2
  <2>. QED
    BY <1>3, <2>3 DEF A
<1>4. CASE fs[k + 1].kind # w
  <2>1. K(k + 1) = K(k)
    BY <1>2, <1>4
  <2>. HIDE DEF A, K
  <2>2. Places(fs, w, k + 1) = Places(fs, w, k)
    BY <1>1, <2>1
  <2>. QED
    BY <1>4, <2>2
<1>. QED
  BY <1>3, <1>4

\* GoesOn looks at the first k frames only.
LEMMA GoesOnAgree ==
    ASSUME NEW fs, NEW gs, NEW k \in Nat, k >= 1, \A i \in 1 .. k : fs[i] = gs[i],
           GoesOn(fs, k)
    PROVE  GoesOn(gs, k)
<1>1. k - 1 \in Nat /\ fs[k] = gs[k] /\ \A i \in 1 .. k - 1 : fs[i] = gs[i]
  OBVIOUS
<1>2. \A w : Places(fs, w, k - 1) = Places(gs, w, k - 1)
  BY <1>1, PlacesAgree
<1>. QED
  BY <1>1, <1>2 DEF GoesOn

\* A frame of w that is written takes its stream's next bytes.
LEMMA DoneOrder ==
    ASSUME WriterInv, OrderInv, NEW w \in Writers, sent \in Seq(FrameSet),
           NEW f \in FrameSet, NEW size \in Nat, f = Frame(w, Payload(w, taken[w], size)),
           sent' = Append(sent, f), taken' = [taken EXCEPT ![w] = taken[w] + size]
    PROVE  OrderInv'
<1>1. PICK F \in Nat : F = Len(sent)
  BY LenProperties
<1>2. /\ Len(sent') = F + 1 /\ sent'[F + 1] = f
      /\ \A k \in 1 .. F : sent'[k] = sent[k]
  BY <1>1, AppendProperties
<1>3. PICK t \in Nat : t = taken[w]
  BY DEF WriterInv, WriterType
<1>4. /\ f.kind = w /\ f.payload = Payload(w, t, size) /\ Len(f.payload) = size
      /\ \A i \in 1 .. size : f.payload[i].index = t + i
  <2>1. /\ Len(Payload(w, t, size)) = size
        /\ \A i \in 1 .. size : Payload(w, t, size)[i] =
              [part |-> "payload", writer |-> w, length |-> 0, index |-> t + i]
    BY PayloadType
  <2>2. f.kind = w /\ f.payload = Payload(w, taken[w], size)
    BY DEF Frame
  <2>3. f.payload = Payload(w, t, size)
    BY <1>3, <2>2
  <2>. QED
    BY <2>1, <2>2, <2>3
<1>5. \A v : Places(sent', v, F) = Places(sent, v, F)
  <2>1. PICK gs : gs = sent'
    OBVIOUS
  <2>2. \A i \in 1 .. F : gs[i] = sent[i]
    BY <1>2, <2>1
  <2>3. \A v : Places(gs, v, F) = Places(sent, v, F)
    BY <2>2, PlacesAgree
  <2>. QED
    BY <2>1, <2>3
<1>6. \A v \in Writers : Places(sent, v, F) = 1 .. taken[v]
  BY <1>1 DEF OrderInv
<1>7. ASSUME NEW v \in Writers PROVE Places(sent', v, F + 1) = 1 .. taken'[v]
  <2>1. Places(sent', v, F + 1) =
            IF f.kind = v
            THEN Places(sent', v, F) \cup {f.payload[j].index : j \in 1 .. Len(f.payload)}
            ELSE Places(sent', v, F)
    <3>1. PICK gs : gs = sent'
      OBVIOUS
    <3>2. Places(gs, v, F + 1) =
              IF gs[F + 1].kind = v
              THEN Places(gs, v, F) \cup
                      {gs[F + 1].payload[j].index : j \in 1 .. Len(gs[F + 1].payload)}
              ELSE Places(gs, v, F)
      BY PlacesNext
    <3>3. gs[F + 1] = f
      BY <1>2, <3>1
    <3>. QED
      BY <3>1, <3>2, <3>3
  <2>2. CASE v = w
    <3>1. {f.payload[j].index : j \in 1 .. Len(f.payload)} = {t + j : j \in 1 .. size}
      BY <1>4
    <3>2. (1 .. t) \cup {t + j : j \in 1 .. size} = 1 .. t + size
      <4>1. ASSUME NEW x \in 1 .. t + size
            PROVE  x \in (1 .. t) \cup {t + j : j \in 1 .. size}
        <5>1. CASE x <= t
          BY <5>1
        <5>2. CASE x > t
          <6>1. x - t \in 1 .. size /\ x = t + (x - t)
            BY <5>2
          <6>. QED
            BY <6>1
        <5>. QED
          BY <5>1, <5>2
      <4>2. ASSUME NEW x \in (1 .. t) \cup {t + j : j \in 1 .. size}
            PROVE  x \in 1 .. t + size
        BY <4>2
      <4>. QED
        BY <4>1, <4>2
    <3>3. taken'[v] = t + size /\ taken[v] = t
      BY <1>3, <2>2 DEF WriterInv, WriterType
    <3>4. Places(sent', v, F + 1) = (1 .. t) \cup {t + j : j \in 1 .. size}
      BY <1>4, <1>5, <1>6, <2>1, <2>2, <3>1, <3>3
    <3>. QED
      BY <3>2, <3>3, <3>4
  <2>3. CASE v # w
    <3>1. taken'[v] = taken[v]
      BY <2>3 DEF WriterInv, WriterType
    <3>. QED
      BY <1>4, <1>5, <1>6, <2>1, <2>3, <3>1
  <2>. QED
    BY <2>2, <2>3
<1>8. ASSUME NEW k \in 1 .. F + 1 PROVE GoesOn(sent', k)
  <2>1. CASE k <= F
    <3>1. k \in 1 .. F /\ k \in Nat /\ k >= 1 /\ \A i \in 1 .. k : sent[i] = sent'[i]
      BY <1>2, <2>1
    <3>2. GoesOn(sent, k)
      BY <1>1, <3>1 DEF OrderInv
    <3>. QED
      BY <3>1, <3>2, GoesOnAgree
  <2>2. CASE k = F + 1
    <3>1. k - 1 = F
      BY <2>2
    <3>2. t \in 0 .. MaxCalls * MaxWrite
      BY <1>3, TakenBound
    <3>3. Places(sent', w, F) = 1 .. t
      BY <1>3, <1>5, <1>6
    <3>4. sent'[k] = f
      BY <1>2, <2>2
    <3>5. Places(sent', f.kind, k - 1) = 1 .. t /\ f.payload = Payload(f.kind, t, Len(f.payload))
      BY <1>4, <3>1, <3>3
    <3>. QED
      BY <3>2, <3>4, <3>5 DEF GoesOn
  <2>. QED
    BY <2>1, <2>2
<1>. QED
  BY <1>2, <1>7, <1>8 DEF OrderInv

--------------------------------------------------------------------------
(* The steps *)

\* A step that ends a frame, and one that returns one.
Sends(w) ==
    /\ Frame(w, Payload(w, taken[w], Chunk(w))) \in FrameSet
    /\ sent' = Append(sent, Frame(w, Payload(w, taken[w], Chunk(w))))
    /\ taken' = [taken EXCEPT ![w] = taken[w] + Chunk(w)]
    /\ UNCHANGED received

Returns ==
    /\ Len(received) < Len(sent)
    /\ received' = Append(received, sent[Len(received) + 1])
    /\ UNCHANGED <<sent, taken>>

\* The last byte of a frame makes it one of those sent.
LEMMA FrameEnds ==
    ASSUME WriterInv, NEW w \in Writers, FinishEmpty(w) \/ FinishPayload(w), StreamInv
    PROVE  StreamInv' /\ Sends(w)
<1>1. PICK at \in [Nat -> Nat], cur \in FrameSet, j \in Nat : Ordered(at, cur, j)
  BY DEF StreamInv
<1>2. PutByte(w) /\ mu' = NoWriter
  BY DEF FinishEmpty, FinishPayload
<1>3. FrameDone(w, Chunk(w)) /\ j + 1 = Size(cur)
  <2>1. CASE FinishEmpty(w)
    BY <1>1, <2>1, FinishEmptyDone
  <2>2. CASE FinishPayload(w)
    BY <1>1, <2>2, FinishPayloadDone DEF FinishPayload
  <2>. QED
    BY <2>1, <2>2
<1>4. StreamInv' /\ cur \in FrameSet
  BY <1>1, <1>2, <1>3, FrameDoneStream
<1>5. cur = Frame(w, Payload(w, taken[w], Chunk(w)))
  <2>1. AtWork(cur, j) /\ mu = w
    BY <1>1, <1>2, ByteIsPut
  <2>. QED
    BY <2>1 DEF AtWork
<1>. QED
  BY <1>3, <1>4, <1>5 DEF Sends, FrameDone, readerVars

\* What every step does to the frames.
LEMMA NextStreamInv ==
    ASSUME WriterInv, StreamInv, [Next]_vars
    PROVE  /\ StreamInv'
           /\ \/ UNCHANGED <<sent, taken, received>>
              \/ \E w \in Writers : Sends(w)
              \/ Returns
<1>. DEFINE Goal == /\ StreamInv'
                   /\ \/ UNCHANGED <<sent, taken, received>>
                      \/ \E w \in Writers : Sends(w)
                      \/ Returns
<1>1. ASSUME NEW w \in Writers, WriterStep(w) PROVE Goal
  <2>1. CASE Lock(w)
    BY <2>1, LockStream DEF Lock, StartHeader, readerVars
  <2>2. CASE WriteByte(w)
    BY <2>2, WriteByteStream DEF WriteByte, readerVars
  <2>3. CASE FinishHeader(w)
    BY <2>3, FinishHeaderStream DEF FinishHeader, readerVars
  <2>4. CASE FinishEmpty(w) \/ FinishPayload(w)
    BY <2>4, FrameEnds
  <2>5. CASE WriteFails(w)
    BY <2>5, WriteFailsStream DEF WriteFails, readerVars
  <2>. QED
    BY <1>1, <2>1, <2>2, <2>3, <2>4, <2>5 DEF WriterStep
<1>2. ASSUME NEW w \in Writers, NEW n \in 0 .. MaxWrite, Begin(w, n) PROVE Goal
  BY <1>2, BeginStream DEF Begin, readerVars
<1>3. CASE ReadByte
  <2>1. UNCHANGED <<sent, taken>>
    BY <1>3 DEF ReadByte, writerVars
  <2>. QED
    BY <1>3, <2>1, ReadByteStream DEF Returns
<1>4. CASE ReadEnds \/ UNCHANGED vars
  <2>1. UNCHANGED <<writerVars, wire, broken, got, received>>
    BY <1>4 DEF ReadEnds, vars, readerVars
  <2>2. \A at, cur, j : AtWork(cur, j) => AtWork(cur, j)'
    <3>1. \A w \in Writers : Chunk(w)' = Chunk(w)
      BY <2>1 DEF Chunk, writerVars
    <3>. QED
      BY <2>1, <3>1 DEF AtWork, writerVars
  <2>. QED
    BY <2>1, <2>2, ElsewhereStream DEF writerVars
<1>5. CASE Break
  BY <1>5, BreakStream DEF Break, writerVars, readerVars
<1>. QED
  BY <1>1, <1>2, <1>3, <1>4, <1>5 DEF Next, ReaderStep

LEMMA SentType == StreamInv => sent \in Seq(FrameSet)
BY DEF StreamInv, Ordered, Framed

\* A frame that is sent goes behind those received; one that is returned is the next.
LEMMA NextReadInv ==
    ASSUME WriterInv, StreamInv, ReadInv, [Next]_vars
    PROVE  ReadInv'
<1>1. PICK S \in Nat : S = Len(sent)
  BY SentType, LenProperties
<1>2. PICK R \in Nat : R = Len(received)
  BY LenProperties DEF ReadInv
<1>3. R <= S
  BY <1>1, <1>2 DEF StreamInv, Ordered, Framed
<1>4. ASSUME NEW w \in Writers, Sends(w) PROVE ReadInv'
  <2>1. \A k \in 1 .. S : sent'[k] = sent[k]
    BY <1>1, <1>4, SentType, AppendProperties DEF Sends
  <2>2. \A k \in 1 .. R : k \in 1 .. S
    BY <1>3
  <2>. QED
    BY <1>2, <1>4, <2>1, <2>2 DEF ReadInv, Sends
<1>5. CASE Returns
  <2>1. R + 1 \in 1 .. S /\ R < S
    BY <1>1, <1>2, <1>5 DEF Returns
  <2>2. sent[R + 1] \in FrameSet
    BY <1>1, <2>1, SentType, ElementOfSeq
  <2>3. received' = Append(received, sent[R + 1]) /\ sent' = sent
    BY <1>2, <1>5 DEF Returns
  <2>4. /\ received' \in Seq(FrameSet) /\ Len(received') = R + 1
        /\ received'[R + 1] = sent[R + 1]
        /\ \A k \in 1 .. R : received'[k] = received[k]
    BY <1>2, <2>2, <2>3, AppendProperties DEF ReadInv
  <2>5. \A k \in 1 .. R + 1 : k \in 1 .. R \/ k = R + 1
    OBVIOUS
  <2>. QED
    BY <1>2, <2>3, <2>4, <2>5 DEF ReadInv
<1>6. CASE UNCHANGED <<sent, taken, received>>
  BY <1>6 DEF ReadInv
<1>. QED
  BY <1>4, <1>5, <1>6, NextStreamInv

\* A frame that is sent goes on in its stream.
LEMMA NextOrderInv ==
    ASSUME WriterInv, StreamInv, OrderInv, [Next]_vars
    PROVE  OrderInv'
<1>1. ASSUME NEW w \in Writers, Sends(w) PROVE OrderInv'
  <2>1. PICK size \in Nat : size = Chunk(w)
    BY ChunkType, FramesAssumption DEF WriterInv, FramesAssumption
  <2>2. PICK f \in FrameSet : f = Frame(w, Payload(w, taken[w], size))
    BY <1>1, <2>1 DEF Sends
  <2>3. sent' = Append(sent, f) /\ taken' = [taken EXCEPT ![w] = taken[w] + size]
    BY <1>1, <2>1, <2>2 DEF Sends
  <2>. QED
    BY <2>2, <2>3, SentType, DoneOrder
<1>2. ASSUME UNCHANGED <<sent, taken>> PROVE OrderInv'
  <2>1. \A k : GoesOn(sent, k) => GoesOn(sent', k)
    BY <1>2
  <2>. QED
    BY <1>2, <2>1 DEF OrderInv
<1>. QED
  BY <1>1, <1>2, NextStreamInv DEF Returns

LEMMA WireType == StreamInv => wire \in Seq(Bytes)
BY DEF StreamInv, Ordered, Framed

\* A writer waits while the wire is full.
LEMMA NextRoomInv ==
    ASSUME StreamInv, RoomInv, [Next]_vars
    PROVE  RoomInv'
<1>. USE FramesAssumption DEF FramesAssumption
<1>1. PICK B \in Nat : B = Len(wire)
  BY WireType, LenProperties
<1>2. ASSUME NEW w \in Writers, PutByte(w), UNCHANGED <<broken, ended>> PROVE RoomInv'
  <2>1. B < Room /\ wire' = Append(wire, Head(rest[w]))
    BY <1>1, <1>2 DEF PutByte
  <2>2. Len(wire') = B + 1
    BY <1>1, <2>1, WireType
  <2>3. B + 1 <= Room
    BY <2>1
  <2>. QED
    BY <1>2, <2>2, <2>3 DEF RoomInv
<1>3. ASSUME UNCHANGED wire, broken' \in BOOLEAN, ended' \in {"no", "eof", "truncated"}
      PROVE  RoomInv'
  BY <1>3 DEF RoomInv
<1>4. ASSUME NEW w \in Writers, WriterStep(w) PROVE RoomInv'
  <2>1. CASE Lock(w) \/ WriteFails(w)
    BY <1>3, <2>1 DEF Lock, StartHeader, WriteFails, readerVars, RoomInv
  <2>2. CASE WriteByte(w) \/ FinishHeader(w)
    BY <1>2, <2>2 DEF WriteByte, FinishHeader, readerVars
  <2>3. CASE FinishEmpty(w) \/ FinishPayload(w)
    BY <1>2, <2>3 DEF FinishEmpty, FinishPayload, FrameDone, readerVars
  <2>. QED
    BY <1>4, <2>1, <2>2, <2>3 DEF WriterStep
<1>5. ASSUME NEW w \in Writers, NEW n \in 0 .. MaxWrite, Begin(w, n) PROVE RoomInv'
  BY <1>3, <1>5 DEF Begin, readerVars, RoomInv
<1>6. CASE ReadByte
  <2>1. wire # <<>> /\ wire' = Tail(wire) /\ UNCHANGED <<broken, ended>>
    BY <1>6 DEF ReadByte
  <2>2. Len(wire') = B - 1
    BY <1>1, <2>1, WireType, HeadTailProperties
  <2>3. B - 1 <= Room
    BY <1>1 DEF RoomInv
  <2>. QED
    BY <2>1, <2>2, <2>3 DEF RoomInv
<1>7. CASE ReadEnds \/ UNCHANGED vars
  BY <1>3, <1>7 DEF ReadEnds, vars, readerVars, RoomInv
<1>8. CASE Break
  <2>1. PICK k \in 0 .. B : wire' = SubSeq(wire, 1, k)
    BY <1>1, <1>8 DEF Break
  <2>2. \A i \in 1 .. k : wire[i] \in Bytes
    <3>1. SUFFICES ASSUME NEW i \in 1 .. k PROVE wire[i] \in Bytes
      OBVIOUS
    <3>2. i \in 1 .. Len(wire)
      BY <1>1
    <3>. QED
      BY <3>2, WireType, ElementOfSeq
  <2>3. Len(wire') = IF 1 <= k THEN k - 1 + 1 ELSE 0
    BY <2>1, <2>2, SubSeqProperties
  <2>4. Len(wire') = k /\ k <= Room
    BY <1>1, <2>3 DEF RoomInv
  <2>. QED
    BY <1>8, <2>4 DEF Break, readerVars, RoomInv
<1>. QED
  BY <1>4, <1>5, <1>6, <1>7, <1>8 DEF Next, ReaderStep

LEMMA InitIInv == Init => IInv
<1>. SUFFICES ASSUME Init PROVE IInv
  OBVIOUS
<1>1. ReadInv
  BY EmptySeq DEF Init, ReadInv
<1>2. OrderInv
  <2>1. ASSUME NEW w \in Writers PROVE Places(sent, w, Len(sent)) = 1 .. taken[w]
    <3>1. Len(sent) = 0 /\ taken[w] = 0
      BY EmptySeq DEF Init
    <3>2. {m \in 1 .. 0 : sent[m].kind = w} = {} /\ 1 .. 0 = {}
      OBVIOUS
    <3>. QED
      BY <3>1, <3>2 DEF Places
  <2>2. ASSUME NEW k \in 1 .. Len(sent) PROVE FALSE
    BY <2>2, EmptySeq DEF Init
  <2>. QED
    BY <2>1, <2>2 DEF OrderInv
<1>3. RoomInv
  <2>1. Len(wire) = 0 /\ broken = FALSE /\ ended = "no"
    BY EmptySeq DEF Init
  <2>2. 0 <= Room
    BY FramesAssumption DEF FramesAssumption
  <2>. QED
    BY <2>1, <2>2 DEF RoomInv
<1>. QED
  BY <1>1, <1>2, <1>3, InitWriterInv, InitStreamInv DEF IInv

\* The invariant is inductive.
LEMMA NextIInv == IInv /\ [Next]_vars => IInv'
BY NextWriterInv, NextStreamInv, NextReadInv, NextOrderInv, NextRoomInv DEF IInv

\* In every reachable state the bytes between the writers and the reader are those of
\* whole frames in the order of Writer.mu (protocol.go:193-205), and the frames received
\* are the first of them.
THEOREM FramesInvariant == Spec => []IInv
BY InitIInv, NextIInv, PTL DEF Spec

\* A frame being read is never longer than the longest there is.
LEMMA TypeFromIInv == IInv => TypeOK
<1>. SUFFICES ASSUME IInv PROVE TypeOK
  OBVIOUS
<1>. USE FramesAssumption DEF FramesAssumption
<1>1. PICK at \in [Nat -> Nat], cur \in FrameSet, j \in Nat : Ordered(at, cur, j)
  BY DEF IInv, StreamInv
<1>2. PICK f \in FrameSet : Len(got) < Size(f) /\ got \in Seq(Bytes)
  <2>1. Framed(sent, Len(received), got, wire, at, cur, j)
    BY <1>1 DEF Ordered
  <2>2. Len(received) \in Nat
    BY LenProperties DEF IInv, ReadInv
  <2>3. PICK r \in Nat : r = Len(received)
    BY <2>2
  <2>4. Framed(sent, r, got, wire, at, cur, j)
    BY <2>1, <2>3
  <2>5. Nth(sent, cur, r + 1) \in FrameSet
    BY <2>4, NthType, SMTT(30) DEF Framed
  <2>. QED
    BY <2>4, <2>5 DEF Framed
<1>3. Len(got) < HeaderLen + MaxPayload
  <2>1. PICK z \in Nat : z = Size(f)
    BY SizeType
  <2>2. PICK G \in Nat : G = Len(got)
    BY <1>2, LenProperties
  <2>3. z <= HeaderLen + MaxPayload
    BY <2>1, SizeType
  <2>4. G < z
    BY <1>2, <2>1, <2>2
  <2>. QED
    BY <2>2, <2>3, <2>4
<1>4. FrameSet \subseteq [kind : Writers, payload : Seq(Bytes)]
  BY DEF FrameSet
<1>5. {sent, received} \subseteq Seq([kind : Writers, payload : Seq(Bytes)])
  <2>1. sent \in Seq(FrameSet) /\ received \in Seq(FrameSet)
    BY SentType DEF IInv, ReadInv
  <2>2. PICK T : T = [kind : Writers, payload : Seq(Bytes)]
    OBVIOUS
  <2>3. FrameSet \subseteq T
    BY <1>4, <2>2
  <2>4. sent \in Seq(T) /\ received \in Seq(T)
    BY <2>1, <2>3, SeqMonotonic
  <2>. QED
    BY <2>2, <2>4
<1>6. wire \in Seq(Bytes)
  BY WireType DEF IInv
<1>. QED
  BY <1>2, <1>3, <1>5, <1>6 DEF IInv, WriterInv, WriterType, RoomInv, TypeOK

\* The frames received are the first of those sent, and so they go on like them.
LEMMA OrderFromIInv == IInv => StreamsInOrder
<1>. SUFFICES ASSUME IInv, NEW k \in 1 .. Len(received) PROVE GoesOn(received, k)
  BY DEF StreamsInOrder
<1>1. PICK S \in Nat : S = Len(sent)
  BY SentType, LenProperties DEF IInv
<1>2. PICK R \in Nat : R = Len(received)
  BY LenProperties DEF IInv, ReadInv
<1>3. R <= S
  BY <1>1, <1>2 DEF IInv, StreamInv, Ordered, Framed
<1>4. k \in 1 .. R /\ k \in Nat /\ k >= 1 /\ k \in 1 .. S
  BY <1>2, <1>3
<1>5. GoesOn(sent, k)
  BY <1>1, <1>4 DEF IInv, OrderInv
<1>6. \A i \in 1 .. k : sent[i] = received[i]
  <2>1. \A i \in 1 .. k : i \in 1 .. R
    BY <1>4
  <2>. QED
    BY <1>2, <2>1 DEF IInv, ReadInv
<1>. QED
  BY <1>4, <1>5, <1>6, GoesOnAgree

\* Every step is one of the queue, or changes neither end of it.
LEMMA QueueStep ==
    ASSUME IInv, [Next]_vars
    PROVE  [Queue!QueueNext]_(Queue!queueVars)
<1>1. ASSUME NEW w \in Writers, Sends(w) PROVE Queue!QueueNext
  <2>1. taken[w] \in 0 .. MaxCalls * MaxWrite
    BY TakenBound DEF IInv
  <2>2. Chunk(w) \in 0 .. MaxPayload
    BY ChunkType DEF IInv, WriterInv
  <2>3. Queue!Send(Frame(w, Payload(w, taken[w], Chunk(w))))
    BY <1>1 DEF Sends, Queue!Send
  <2>. QED
    BY <2>1, <2>2, <2>3 DEF Queue!QueueNext
<1>2. CASE Returns
  BY <1>2 DEF Returns, Queue!QueueNext, Queue!Receive
<1>3. CASE UNCHANGED <<sent, taken, received>>
  BY <1>3 DEF Queue!queueVars
<1>. QED
  BY <1>1, <1>2, <1>3, NextStreamInv DEF IInv

--------------------------------------------------------------------------

\* However many writers there are and however long their frames: the wire never holds
\* more than Room bytes, and the reader never has more of a frame than the largest one
\* has (protocol.go:21, 254-275).
THEOREM FramesTypeCorrect == Spec => []TypeOK
BY FramesInvariant, TypeFromIInv, PTL

\* What the reader gets of a writer's stream goes on, frame by frame, where it stopped:
\* the pieces that streamWriter cuts from a write lose and repeat nothing, whatever is
\* written in between and wherever the connection breaks (protocol.go:227-241).
THEOREM StreamsGoOn == Spec => []StreamsInOrder
BY FramesInvariant, OrderFromIInv, PTL

\* A framed connection is a queue of frames: each write appends one frame, each
\* ReadFrame returns the next of them, and a broken connection only ends this
\* (protocol.go:193-205, 254-275).
THEOREM FramesImplementQueue == Spec => ImplementsQueue
<1>1. Init => Queue!QueueInit
  BY DEF Init, Queue!QueueInit
<1>2. IInv /\ [Next]_vars => [Queue!QueueNext]_(Queue!queueVars)
  BY QueueStep
<1>. QED
  BY <1>1, <1>2, FramesInvariant, PTL DEF Spec, ImplementsQueue, Queue!QueueSpec
==========================================================================
