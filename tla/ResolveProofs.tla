-------------------------- MODULE ResolveProofs --------------------------
(***************************************************************************)
(* For every catalog and every list of tokens: what is authorized is what  *)
(* a reading of the whole list says, what has a reading is resolved, and   *)
(* what a policy is told of it holds of everything that the list names.    *)
(***************************************************************************)
EXTENDS Lists, FiniteSetTheorems, SequenceTheorems, WellFoundedInduction, TLAPS

--------------------------------------------------------------------------
(* Numbers *)

\* Numbers have a least one.
LEMMA HasFirst ==
    ASSUME NEW T, T \subseteq Nat, T # {}
    PROVE  \E m \in T : \A k \in T : m <= k
<1> DEFINE R == OpToRel(<, Nat)
<1>1. IsWellFoundedOn(R, Nat)
  BY NatLessThanWellFounded
<1>2. PICK x \in T : \A y \in T : <<y, x>> \notin R
  <2> HIDE DEF R
  <2> QED
    BY <1>1, WFMin
<1>3. \A y \in T : ~(y < x)
  BY <1>2 DEF OpToRel
<1>. QED
  BY <1>3

\* The first of some positions, with none of them before it.
LEMMA FirstOf ==
    ASSUME NEW n \in Nat, NEW T, T \subseteq 1 .. n, T # {}
    PROVE  \E m \in T : m \in 1 .. n /\ \A k \in 1 .. m - 1 : k \in 1 .. n /\ k \notin T
<1>1. T \subseteq Nat
  OBVIOUS
<1>2. PICK m \in T : \A k \in T : m <= k
  BY <1>1, HasFirst
<1>. QED
  BY <1>2

\* Induction up to N, on a set.
LEMMA UpTo ==
    ASSUME NEW N \in Nat, NEW S, 0 \in S, \A n \in 0 .. N - 1 : n \in S => n + 1 \in S
    PROVE  \A n \in 0 .. N : n \in S
<1>. SUFFICES ASSUME {n \in 0 .. N : n \notin S} # {} PROVE FALSE
  OBVIOUS
<1>. DEFINE T == {n \in 0 .. N : n \notin S}
<1>1. PICK m \in T : \A k \in T : m <= k
  <2>1. T \subseteq Nat /\ T # {}
    OBVIOUS
  <2>. QED
    BY <2>1, HasFirst
<1>2. m \in 1 .. N /\ m - 1 \in 0 .. N - 1
  OBVIOUS
<1>3. m - 1 \notin T
  BY <1>1, <1>2
<1>. QED
  BY <1>2, <1>3

--------------------------------------------------------------------------
(* Lists of positions *)

Ascends(q) == q \in Seq(Nat) /\ \A i, j \in 1 .. Len(q) : i < j => q[i] < q[j]

Elements(q) == {q[k] : k \in 1 .. Len(q)}

\* So many of them are the first elements of an ascending sequence.
LEMMA FirstElements ==
    ASSUME NEW q, Ascends(q), NEW k \in 1 .. Len(q)
    PROVE  Cardinality({q[j] : j \in 1 .. k}) = k
<1>. DEFINE f == [j \in 1 .. k |-> q[j]]
            T == {q[j] : j \in 1 .. k}
<1>1. k \in Nat /\ 1 .. k \subseteq 1 .. Len(q) /\ \A j \in 1 .. k : q[j] \in Nat
  BY DEF Ascends
<1>2. \A i, j \in 1 .. k : f[i] = f[j] => i = j
  <2>. TAKE i, j \in 1 .. k
  <2>1. i < j => q[i] < q[j]
    BY <1>1 DEF Ascends
  <2>2. j < i => q[j] < q[i]
    BY <1>1 DEF Ascends
  <2>. QED
    BY <1>1, <2>1, <2>2
<1>3. f \in Bijection(1 .. k, T)
  BY <1>2 DEF Bijection, Injection, Surjection, IsInjective
<1>4. ExistsBijection(1 .. k, T)
  BY <1>3 DEF ExistsBijection
<1>5. Cardinality(T) = k
  <2>. HIDE DEF T
  <2>. QED
    BY <1>1, <1>4, FS_CountingElements
<1>. QED
  BY <1>5

\* InOrder lists a set of positions as anybody would who meets them in turn.
LEMMA InOrderIs ==
    ASSUME NEW q, Ascends(q)
    PROVE  InOrder(Elements(q)) = q
<1>. DEFINE S == Elements(q)
            Below(i) == {j \in S : j <= i}
<1>1. Len(q) \in Nat /\ q \in [1 .. Len(q) -> Nat]
  BY DEF Ascends
<1>2. Cardinality(S) = Len(q)
  <2>1. CASE Len(q) = 0
    BY <2>1, FS_EmptySet DEF Elements
  <2>2. CASE Len(q) # 0
    BY <1>1, <2>2, FirstElements DEF Elements
  <2>. QED
    BY <2>1, <2>2
<1>3. ASSUME NEW k \in 1 .. Len(q) PROVE Cardinality(Below(q[k])) = k
  <2>1. \A j \in 1 .. Len(q) : q[j] <= q[k] <=> j <= k
    <3>. TAKE j \in 1 .. Len(q)
    <3>1. q[j] \in Nat /\ q[k] \in Nat /\ j \in Nat /\ k \in Nat
      BY <1>1
    <3>2. (j < k => q[j] < q[k]) /\ (k < j => q[k] < q[j])
      BY DEF Ascends
    <3>. QED
      BY <3>1, <3>2
  <2>2. Below(q[k]) = {q[j] : j \in 1 .. k}
    BY <1>1, <2>1 DEF Elements
  <2>. QED
    BY <2>2, FirstElements
<1>4. ASSUME NEW k \in 1 .. Len(q) PROVE (CHOOSE i \in S : Cardinality(Below(i)) = k) = q[k]
  <2>1. q[k] \in S /\ Cardinality(Below(q[k])) = k
    BY <1>3 DEF Elements
  <2>2. \A i \in S : Cardinality(Below(i)) = k => i = q[k]
    BY <1>3 DEF Elements
  <2>. QED
    BY <2>1, <2>2
<1>5. InOrder(S) = [k \in 1 .. Len(q) |-> q[k]]
  BY <1>2, <1>4 DEF InOrder
<1>. QED
  BY <1>1, <1>5

Below(S, T) == \A i \in S, j \in T : i < j

\* Ascending sequences are of numbers, each there once, ordered as their places are.
LEMMA AscendsType ==
    ASSUME NEW q, Ascends(q)
    PROVE  /\ Len(q) \in Nat /\ q \in Seq(Nat) /\ DOMAIN q = 1 .. Len(q)
           /\ \A k \in 1 .. Len(q) : q[k] \in Nat /\ q[k] \in Elements(q)
           /\ Elements(q) \subseteq Nat
           /\ \A j, k \in 1 .. Len(q) : (q[j] < q[k] <=> j < k) /\ (q[j] = q[k] <=> j = k)
<1>1. Len(q) \in Nat /\ q \in Seq(Nat) /\ DOMAIN q = 1 .. Len(q)
  BY DEF Ascends
<1>2. \A k \in 1 .. Len(q) : q[k] \in Nat
  BY <1>1
<1>3. \A j, k \in 1 .. Len(q) : (q[j] < q[k] <=> j < k) /\ (q[j] = q[k] <=> j = k)
  <2>. TAKE j, k \in 1 .. Len(q)
  <2>1. (j < k => q[j] < q[k]) /\ (k < j => q[k] < q[j])
    BY DEF Ascends
  <2>. QED
    BY <1>1, <1>2, <2>1
<1>. QED
  BY <1>1, <1>2, <1>3 DEF Elements

\* Nothing ascends.
LEMMA AscendsEmpty == Ascends(<<>>) /\ Elements(<<>>) = {}
BY DEF Ascends, Elements

\* A number above all others may follow them.
LEMMA AscendsAppend ==
    ASSUME NEW q, Ascends(q), NEW i \in Nat, \A j \in Elements(q) : j < i
    PROVE  /\ Ascends(Append(q, i))
           /\ Elements(Append(q, i)) = Elements(q) \cup {i}
           /\ Len(Append(q, i)) = Len(q) + 1
           /\ Append(q, i)[Len(q) + 1] = i
           /\ \A k \in 1 .. Len(q) : Append(q, i)[k] = q[k]
<1>. DEFINE r == Append(q, i)
<1>1. /\ r \in Seq(Nat) /\ Len(q) \in Nat /\ Len(r) = Len(q) + 1 /\ r[Len(q) + 1] = i
      /\ \A k \in 1 .. Len(q) : r[k] = q[k] /\ q[k] \in Nat
  BY DEF Ascends
<1>. HIDE DEF r
<1>2. \A k \in 1 .. Len(q) : q[k] < i
  BY DEF Elements
<1>3. ASSUME NEW j \in 1 .. Len(r), NEW k \in 1 .. Len(r), j < k PROVE r[j] < r[k]
  <2>1. j \in 1 .. Len(q)
    BY <1>1, <1>3
  <2>2. CASE k = Len(q) + 1
    BY <1>1, <1>2, <2>1, <2>2
  <2>3. CASE k # Len(q) + 1
    <3>1. k \in 1 .. Len(q)
      BY <1>1, <2>3
    <3>. QED
      BY <1>1, <1>3, <2>1, <3>1 DEF Ascends
  <2>. QED
    BY <2>2, <2>3
<1>4. Elements(r) = Elements(q) \cup {i}
  <2>1. 1 .. Len(r) = (1 .. Len(q)) \cup {Len(q) + 1}
    BY <1>1
  <2>. QED
    BY <1>1, <2>1, SMTT(30) DEF Elements
<1>. QED
  BY <1>1, <1>3, <1>4 DEF Ascends, r

\* So may a sequence that is above them.
LEMMA AscendsConcat ==
    ASSUME NEW q, Ascends(q), NEW r, Ascends(r), Below(Elements(q), Elements(r))
    PROVE  /\ Ascends(q \o r)
           /\ Elements(q \o r) = Elements(q) \cup Elements(r)
           /\ Len(q \o r) = Len(q) + Len(r)
           /\ \A k \in 1 .. Len(q) : (q \o r)[k] = q[k]
           /\ \A k \in 1 .. Len(r) : (q \o r)[Len(q) + k] = r[k]
<1>. DEFINE s == q \o r
<1>0. q \in Seq(Nat) /\ r \in Seq(Nat) /\ Len(q) \in Nat /\ Len(r) \in Nat
  BY DEF Ascends
<1>1. /\ s \in Seq(Nat) /\ Len(s) = Len(q) + Len(r)
      /\ \A k \in 1 .. Len(q) : s[k] = q[k] /\ q[k] \in Nat
      /\ \A k \in 1 .. Len(s) : k > Len(q) => s[k] = r[k - Len(q)]
      /\ \A k \in 1 .. Len(r) : r[k] \in Nat
  BY <1>0
<1>. HIDE DEF s
<1>2. ASSUME NEW j \in 1 .. Len(s), NEW k \in 1 .. Len(s), j < k PROVE s[j] < s[k]
  <2>1. CASE k \in 1 .. Len(q)
    <3>1. j \in 1 .. Len(q)
      BY <1>0, <1>1, <1>2, <2>1
    <3>2. q[j] < q[k]
      BY <1>2, <2>1, <3>1 DEF Ascends
    <3>. QED
      BY <1>1, <2>1, <3>1, <3>2
  <2>2. CASE j > Len(q)
    <3>1. j - Len(q) \in 1 .. Len(r) /\ k - Len(q) \in 1 .. Len(r) /\ k > Len(q)
          /\ j - Len(q) < k - Len(q)
      BY <1>0, <1>1, <1>2, <2>2, SMTT(30)
    <3>2. j \in 1 .. Len(s) /\ k \in 1 .. Len(s)
      OBVIOUS
    <3>3. s[j] = r[j - Len(q)] /\ s[k] = r[k - Len(q)]
      BY <1>1, <2>2, <3>1, <3>2
    <3>4. r[j - Len(q)] < r[k - Len(q)]
      BY <3>1 DEF Ascends
    <3>. QED
      BY <3>3, <3>4
  <2>3. CASE j \in 1 .. Len(q) /\ k > Len(q)
    <3>1. k - Len(q) \in 1 .. Len(r)
      BY <1>0, <1>1, <2>3
    <3>2. q[j] \in Elements(q) /\ r[k - Len(q)] \in Elements(r)
      BY <2>3, <3>1 DEF Elements
    <3>. QED
      BY <1>1, <2>3, <3>1, <3>2 DEF Below
  <2>. QED
    BY <1>0, <1>1, <2>1, <2>2, <2>3, SMTT(30)
<1>3. \A k \in 1 .. Len(r) : s[Len(q) + k] = r[k]
  <2>. TAKE k \in 1 .. Len(r)
  <2>1. Len(q) + k \in 1 .. Len(s) /\ Len(q) + k > Len(q) /\ Len(q) + k - Len(q) = k
    BY <1>0, <1>1
  <2>. QED
    BY <1>1, <2>1
<1>4. Elements(s) = Elements(q) \cup Elements(r)
  <2>1. Elements(s) \subseteq Elements(q) \cup Elements(r)
    <3>. SUFFICES ASSUME NEW k \in 1 .. Len(s) PROVE s[k] \in Elements(q) \cup Elements(r)
      BY DEF Elements
    <3>1. CASE k \in 1 .. Len(q)
      BY <1>1, <3>1 DEF Elements
    <3>2. CASE k > Len(q)
      <4>1. k - Len(q) \in 1 .. Len(r)
        BY <1>0, <1>1, <3>2
      <4>. QED
        BY <1>1, <3>2, <4>1 DEF Elements
    <3>. QED
      BY <1>0, <1>1, <3>1, <3>2
  <2>2. \A k \in 1 .. Len(q) : k \in 1 .. Len(s)
    BY <1>0, <1>1
  <2>3. \A k \in 1 .. Len(r) : Len(q) + k \in 1 .. Len(s)
    BY <1>0, <1>1
  <2>4. Elements(q) \subseteq Elements(s)
    BY <1>1, <2>2 DEF Elements
  <2>5. Elements(r) \subseteq Elements(s)
    BY <1>3, <2>3 DEF Elements
  <2>. QED
    BY <2>1, <2>4, <2>5
<1>. QED
  BY <1>1, <1>2, <1>3, <1>4 DEF Ascends, s

--------------------------------------------------------------------------
(* The two loops *)

\* The walk of findCommand satisfies its recursion.
LEMMA WalkIs ==
    ASSUME NEW list, Len(list) \in Nat
    PROVE  Walk(list) = [n \in 0 .. Len(list) |->
               IF n = 0 THEN Found("command", <<>>, <<>>) ELSE WalkOn(list, Walk(list)[n - 1], n)]
<1>. DEFINE N == Len(list)
            Runs(m, g) == g = [n \in 0 .. m |-> IF n = 0 THEN Found("command", <<>>, <<>>)
                                                ELSE WalkOn(list, g[n - 1], n)]
            S == {m \in 0 .. N : \E g : Runs(m, g)}
<1>1. 0 \in S
  <2>1. Runs(0, [n \in 0 .. 0 |-> Found("command", <<>>, <<>>)])
    OBVIOUS
  <2>. HIDE DEF Runs
  <2>. QED
    BY <2>1
<1>2. ASSUME NEW m \in 0 .. N - 1, m \in S PROVE m + 1 \in S
  <2>1. PICK g : Runs(m, g)
    BY <1>2
  <2>. DEFINE h == [n \in 0 .. m + 1 |-> IF n = m + 1 THEN WalkOn(list, g[m], m + 1) ELSE g[n]]
  <2>2. \A n \in 0 .. m : h[n] = g[n]
    OBVIOUS
  <2>3. \A n \in 0 .. m + 1 : h[n] = IF n = 0 THEN Found("command", <<>>, <<>>)
                                     ELSE WalkOn(list, h[n - 1], n)
    <3>. TAKE n \in 0 .. m + 1
    <3>1. CASE n = m + 1
      <4>1. n # 0 /\ n - 1 = m /\ h[m] = g[m] /\ h[n] = WalkOn(list, g[m], m + 1)
        BY <2>2, <3>1
      <4>. QED
        BY <3>1, <4>1
    <3>2. CASE n # m + 1
      <4>1. n \in 0 .. m /\ h[n] = g[n]
        BY <3>2
      <4>2. n # 0 => n - 1 \in 0 .. m /\ h[n - 1] = g[n - 1]
        BY <4>1
      <4>3. g[n] = IF n = 0 THEN Found("command", <<>>, <<>>) ELSE WalkOn(list, g[n - 1], n)
        BY <2>1, <4>1
      <4>. HIDE DEF h
      <4>. QED
        BY <4>1, <4>2, <4>3
    <3>. QED
      BY <3>1, <3>2
  <2>4. h = [n \in 0 .. m + 1 |-> h[n]]
    OBVIOUS
  <2>5. Runs(m + 1, h)
    <3>. HIDE DEF h
    <3>. QED
      BY <2>3, <2>4
  <2>. HIDE DEF Runs
  <2>. QED
    BY <2>5
<1>3. \E g : Runs(N, g)
  <2>1. N \in S
    <3>1. N \in Nat /\ N \in 0 .. N
      OBVIOUS
    <3>. HIDE DEF N, S
    <3>2. \A n \in 0 .. N : n \in S
      BY <1>1, <1>2, <3>1, UpTo
    <3>. QED
      BY <3>1, <3>2
  <2>. HIDE DEF Runs
  <2>. QED
    BY <2>1
<1>4. Walk(list) = CHOOSE g : Runs(N, g)
  BY DEF Walk
<1>5. Runs(N, Walk(list))
  <2>. HIDE DEF Runs
  <2>. QED
    BY <1>3, <1>4
<1>. QED
  BY <1>5

\* So does the parse.
LEMMA ParseIs ==
    ASSUME NEW cmd, NEW list, NEW rest, Len(rest) \in Nat
    PROVE  Parse(cmd, list, rest) = [n \in 0 .. Len(rest) |->
               IF n = 0 THEN Parsed("tokens", <<>>, <<>>, <<>>) ELSE ParseOn(cmd, list, rest, Parse(cmd, list, rest)[n - 1], n)]
<1>. DEFINE N == Len(rest)
            Runs(m, g) == g = [n \in 0 .. m |-> IF n = 0 THEN Parsed("tokens", <<>>, <<>>, <<>>)
                                                ELSE ParseOn(cmd, list, rest, g[n - 1], n)]
            S == {m \in 0 .. N : \E g : Runs(m, g)}
<1>1. 0 \in S
  <2>1. Runs(0, [n \in 0 .. 0 |-> Parsed("tokens", <<>>, <<>>, <<>>)])
    OBVIOUS
  <2>. HIDE DEF Runs
  <2>. QED
    BY <2>1
<1>2. ASSUME NEW m \in 0 .. N - 1, m \in S PROVE m + 1 \in S
  <2>1. PICK g : Runs(m, g)
    BY <1>2
  <2>. DEFINE h == [n \in 0 .. m + 1 |-> IF n = m + 1 THEN ParseOn(cmd, list, rest, g[m], m + 1) ELSE g[n]]
  <2>2. \A n \in 0 .. m : h[n] = g[n]
    OBVIOUS
  <2>3. \A n \in 0 .. m + 1 : h[n] = IF n = 0 THEN Parsed("tokens", <<>>, <<>>, <<>>)
                                     ELSE ParseOn(cmd, list, rest, h[n - 1], n)
    <3>. TAKE n \in 0 .. m + 1
    <3>1. CASE n = m + 1
      <4>1. n # 0 /\ n - 1 = m /\ h[m] = g[m] /\ h[n] = ParseOn(cmd, list, rest, g[m], m + 1)
        BY <2>2, <3>1
      <4>. QED
        BY <3>1, <4>1
    <3>2. CASE n # m + 1
      <4>1. n \in 0 .. m /\ h[n] = g[n]
        BY <3>2
      <4>2. n # 0 => n - 1 \in 0 .. m /\ h[n - 1] = g[n - 1]
        BY <4>1
      <4>3. g[n] = IF n = 0 THEN Parsed("tokens", <<>>, <<>>, <<>>) ELSE ParseOn(cmd, list, rest, g[n - 1], n)
        BY <2>1, <4>1
      <4>. HIDE DEF h
      <4>. QED
        BY <4>1, <4>2, <4>3
    <3>. QED
      BY <3>1, <3>2
  <2>4. h = [n \in 0 .. m + 1 |-> h[n]]
    OBVIOUS
  <2>5. Runs(m + 1, h)
    <3>. HIDE DEF h
    <3>. QED
      BY <2>3, <2>4
  <2>. HIDE DEF Runs
  <2>. QED
    BY <2>5
<1>3. \E g : Runs(N, g)
  <2>1. N \in S
    <3>1. N \in Nat /\ N \in 0 .. N
      OBVIOUS
    <3>. HIDE DEF N, S
    <3>2. \A n \in 0 .. N : n \in S
      BY <1>1, <1>2, <3>1, UpTo
    <3>. QED
      BY <3>1, <3>2
  <2>. HIDE DEF Runs
  <2>. QED
    BY <2>1
<1>4. Parse(cmd, list, rest) = CHOOSE g : Runs(N, g)
  BY DEF Parse
<1>5. Runs(N, Parse(cmd, list, rest))
  <2>. HIDE DEF Runs
  <2>. QED
    BY <1>3, <1>4
<1>. QED
  BY <1>5

IsList(list) ==
    /\ Len(list) \in Nat
    /\ \A i \in 1 .. Len(list) : IsToken(list[i])

Extends(list, path, i) == list[i].kind = "word" /\ path \o list[i].text \in DOMAIN Catalog

\* One token of the walk.
LEMMA WalkStep ==
    ASSUME NEW list, Len(list) \in Nat, NEW n \in 1 .. Len(list), NEW v, v = Walk(list)[n - 1],
           NEW w, w = Walk(list)[n]
    PROVE  /\ v.at = "value" => w = Found("command", v.path, Append(v.rest, n))
           /\ v.at = "command" /\ IsFlag(list[n]) =>
                /\ w = Found(w.at, v.path, Append(v.rest, n))
                /\ Occupies(Catalog[v.path], list, n) \in {0, 1, 2}
                /\ Occupies(Catalog[v.path], list, n) = 0 => w.at = "refused"
                /\ Occupies(Catalog[v.path], list, n) = 1 => w.at = "command"
                /\ Occupies(Catalog[v.path], list, n) = 2 => w.at = "value"
           /\ v.at = "command" /\ Extends(list, v.path, n) =>
                w = Found("command", v.path \o list[n].text, v.rest)
           /\ v.at = "command" /\ ~IsFlag(list[n]) /\ ~Extends(list, v.path, n) =>
                w = Found("rest", v.path, Append(v.rest, n))
           /\ v.at = "rest" => w = Found("rest", v.path, Append(v.rest, n))
           /\ v.at = "refused" => w = Found("refused", v.path, Append(v.rest, n))
<1>1. w = WalkOn(list, v, n)
  BY WalkIs
<1>2. v.at = "value" => w = Found("command", v.path, Append(v.rest, n))
  BY <1>1 DEF WalkOn
<1>3. ASSUME v.at = "command", IsFlag(list[n])
      PROVE  w = Found(IF Occupies(Catalog[v.path], list, n) = 0 THEN "refused"
                       ELSE IF Occupies(Catalog[v.path], list, n) = 2 THEN "value" ELSE "command",
                       v.path, Append(v.rest, n))
  <2>. DEFINE flagged == Found(IF Occupies(Catalog[v.path], list, n) = 0 THEN "refused"
                               ELSE IF Occupies(Catalog[v.path], list, n) = 2 THEN "value" ELSE "command",
                               v.path, Append(v.rest, n))
  <2>1. WalkOn(list, v, n) =
          CASE v.at = "value" -> Found("command", v.path, Append(v.rest, n))
            [] v.at = "command" /\ IsFlag(list[n]) -> flagged
            [] v.at = "command" /\ list[n].kind = "word" /\ v.path \o list[n].text \in DOMAIN Catalog ->
                 Found("command", v.path \o list[n].text, v.rest)
            [] OTHER -> Found(IF v.at = "refused" THEN "refused" ELSE "rest", v.path, Append(v.rest, n))
    BY Zenon DEF WalkOn
  <2>. HIDE DEF flagged
  <2>2. ~(list[n].kind = "word")
    BY <1>3 DEF IsFlag
  <2>3. w = flagged
    BY <1>1, <1>3, <2>1, <2>2
  <2>. QED
    BY <2>3 DEF flagged
<1>4. Extends(list, v.path, n) => ~IsFlag(list[n])
  BY DEF Extends, IsFlag
<1>5. v.at = "command" /\ Extends(list, v.path, n) =>
        w = Found("command", v.path \o list[n].text, v.rest)
  BY <1>1, <1>4 DEF WalkOn, Extends
<1>6. v.at = "command" /\ ~IsFlag(list[n]) /\ ~Extends(list, v.path, n) =>
        w = Found("rest", v.path, Append(v.rest, n))
  BY <1>1 DEF WalkOn, Extends
<1>7. v.at = "rest" => w = Found("rest", v.path, Append(v.rest, n))
  BY <1>1 DEF WalkOn
<1>8. v.at = "refused" => w = Found("refused", v.path, Append(v.rest, n))
  BY <1>1 DEF WalkOn
<1>9. v.at = "command" /\ IsFlag(list[n]) =>
        /\ w = Found(w.at, v.path, Append(v.rest, n))
        /\ Occupies(Catalog[v.path], list, n) \in {0, 1, 2}
        /\ Occupies(Catalog[v.path], list, n) = 0 => w.at = "refused"
        /\ Occupies(Catalog[v.path], list, n) = 1 => w.at = "command"
        /\ Occupies(Catalog[v.path], list, n) = 2 => w.at = "value"
  BY <1>3, SMTT(30) DEF Found, Occupies
<1>. QED
  BY <1>2, <1>5, <1>6, <1>7, <1>8, <1>9

\* One token of the parse: the token at i, the last or with one at j behind it.
ParseMoves(cmd, token, i, last, j, v, w) ==
    /\ v.at = "value" => w = Parsed("tokens", v.flags, v.arguments, v.opaque)
    /\ v.at = "tokens" /\ token = DashDash =>
         w = Parsed(AfterDashes(cmd), v.flags, v.arguments, v.opaque)
    /\ v.at = "tokens" /\ IsFlag(token) /\ (~Known(cmd, token) \/ (NeedsNext(cmd, token) /\ last)) =>
         w = Parsed("refused", v.flags, v.arguments, v.opaque)
    /\ v.at = "tokens" /\ IsFlag(token) /\ Known(cmd, token) /\ NeedsNext(cmd, token) /\ ~last =>
         w = Parsed("value", Append(v.flags, Given(cmd, token, i, j)), v.arguments, v.opaque)
    /\ v.at = "tokens" /\ IsFlag(token) /\ Known(cmd, token) /\ ~NeedsNext(cmd, token) =>
         w = Parsed("tokens", Append(v.flags, Given(cmd, token, i, 0)), v.arguments, v.opaque)
    /\ v.at = "tokens" /\ token # DashDash /\ ~IsFlag(token) =>
         w = Parsed(IF cmd.stops THEN "first of arguments" ELSE "tokens",
                    v.flags, Append(v.arguments, i), v.opaque)
    /\ v.at = "first of arguments" /\ token = DashDash =>
         w = Parsed("arguments", v.flags, v.arguments, v.opaque)
    /\ v.at = "first of arguments" /\ token # DashDash =>
         w = Parsed("arguments", v.flags, Append(v.arguments, i), v.opaque)
    /\ v.at = "arguments" => w = Parsed("arguments", v.flags, Append(v.arguments, i), v.opaque)
    /\ v.at = "opaque" => w = Parsed("opaque", v.flags, v.arguments, Append(v.opaque, i))
    /\ v.at = "refused" => w = v

\* Each turn of the parse is one of these moves.
LEMMA ParseStep ==
    ASSUME NEW cmd, NEW list, NEW rest, Len(rest) \in Nat, NEW k \in 1 .. Len(rest),
           NEW v, v = Parse(cmd, list, rest)[k - 1], NEW w, w = Parse(cmd, list, rest)[k],
           v = Parsed(v.at, v.flags, v.arguments, v.opaque)
    PROVE  ParseMoves(cmd, list[rest[k]], rest[k], k = Len(rest), rest[k + 1], v, w)
<1>1. w = ParseOn(cmd, list, rest, v, k)
  BY ParseIs
<1>2. DashDash.kind = "dashdash" /\ ~IsFlag(DashDash)
  BY DEF DashDash, Token, IsFlag
<1>. DEFINE token == list[rest[k]]
            next  == NeedsNext(cmd, token)
            done  == Append(v.arguments, rest[k])
<1>. HIDE DEF token, next
<1>3. w = CASE v.at = "value" -> [v EXCEPT !.at = "tokens"]
          [] v.at = "tokens" /\ token = DashDash -> [v EXCEPT !.at = AfterDashes(cmd)]
          [] v.at = "tokens" /\ IsFlag(token) ->
               IF ~Known(cmd, token) \/ (next /\ k = Len(rest)) THEN [v EXCEPT !.at = "refused"]
               ELSE [v EXCEPT !.at = IF next THEN "value" ELSE "tokens",
                              !.flags = Append(@, Given(cmd, token, rest[k], IF next THEN rest[k + 1] ELSE 0))]
          [] v.at = "first of arguments" /\ token = DashDash -> [v EXCEPT !.at = "arguments"]
          [] v.at = "opaque" -> [v EXCEPT !.opaque = Append(@, rest[k])]
          [] v.at = "refused" -> v
          [] OTHER -> [v EXCEPT !.at = AfterArgument(cmd, v.at), !.arguments = Append(@, rest[k])]
  BY <1>1 DEF ParseOn, token, next
<1>4. \A at : [v EXCEPT !.at = at] = Parsed(at, v.flags, v.arguments, v.opaque)
  BY DEF Parsed
<1>5. v.at = "value" => w = Parsed("tokens", v.flags, v.arguments, v.opaque)
  BY <1>3, <1>4
<1>6. v.at = "tokens" /\ token = DashDash =>
        w = Parsed(AfterDashes(cmd), v.flags, v.arguments, v.opaque)
  BY <1>2, <1>3, <1>4
<1>7. v.at = "tokens" /\ IsFlag(token) /\ (~Known(cmd, token) \/ (next /\ k = Len(rest))) =>
        w = Parsed("refused", v.flags, v.arguments, v.opaque)
  BY <1>2, <1>3, <1>4
<1>8. v.at = "tokens" /\ IsFlag(token) /\ Known(cmd, token) /\ next /\ k # Len(rest) =>
        w = Parsed("value", Append(v.flags, Given(cmd, token, rest[k], rest[k + 1])),
                   v.arguments, v.opaque)
  BY <1>2, <1>3 DEF Parsed
<1>9. v.at = "tokens" /\ IsFlag(token) /\ Known(cmd, token) /\ ~next =>
        w = Parsed("tokens", Append(v.flags, Given(cmd, token, rest[k], 0)),
                   v.arguments, v.opaque)
  BY <1>2, <1>3 DEF Parsed
<1>10. v.at = "tokens" /\ token # DashDash /\ ~IsFlag(token) =>
         w = Parsed(IF cmd.stops THEN "first of arguments" ELSE "tokens",
                    v.flags, done, v.opaque)
  BY <1>3 DEF Parsed, AfterArgument
<1>11. v.at = "first of arguments" /\ token = DashDash =>
         w = Parsed("arguments", v.flags, v.arguments, v.opaque)
  BY <1>2, <1>3, <1>4
<1>12. v.at = "first of arguments" /\ token # DashDash =>
         w = Parsed("arguments", v.flags, done, v.opaque)
  BY <1>3 DEF Parsed, AfterArgument
<1>13. v.at = "arguments" => w = Parsed("arguments", v.flags, done, v.opaque)
  BY <1>3 DEF Parsed, AfterArgument
<1>14. v.at = "opaque" =>
         w = Parsed("opaque", v.flags, v.arguments, Append(v.opaque, rest[k]))
  BY <1>3 DEF Parsed
<1>15. v.at = "refused" => w = v
  BY <1>3
<1>. QED
  BY <1>5, <1>6, <1>7, <1>8, <1>9, <1>10, <1>11, <1>12, <1>13, <1>14, <1>15
  DEF ParseMoves, token, next

--------------------------------------------------------------------------
(* The walk over a list *)

\* A list only grows, and keeps what it begins with.
Begins(p, q) == Len(p) <= Len(q) /\ \A k \in 1 .. Len(p) : q[k] = p[k]

WalkTyped(list, n) ==
    LET v == Walk(list)[n]
    IN  /\ v = Found(v.at, v.path, v.rest)
        /\ v.at \in {"command", "value", "rest", "refused"}
        /\ v.path \in DOMAIN Catalog /\ v.path \in Seq(STRING)
        /\ Ascends(v.rest) /\ Elements(v.rest) \subseteq 1 .. n

\* A word that extends the command's path has one part, which it adds.
LEMMA ExtendsBy ==
    ASSUME NEW list, IsList(list), NEW n \in 1 .. Len(list), NEW path \in Seq(STRING),
           Extends(list, path, n)
    PROVE  /\ path \o list[n].text = Append(path, list[n].text[1])
           /\ list[n].text[1] \in STRING /\ list[n] = Word(<<list[n].text[1]>>)
           /\ path \o list[n].text \in DOMAIN Catalog
<1>1. IsToken(list[n]) /\ list[n].kind = "word"
  BY DEF IsList, Extends
<1>2. list[n].text[1] \in STRING /\ list[n] = Word(<<list[n].text[1]>>)
  BY <1>1 DEF IsToken
<1>3. list[n].text = <<list[n].text[1]>>
  BY <1>2 DEF Word, Token
<1>4. path \o <<list[n].text[1]>> = Append(path, list[n].text[1])
  BY <1>2
<1>. QED
  BY <1>2, <1>3, <1>4 DEF Extends

\* Wherever findCommand is, it has a path of the catalog and has kept positions in order.
LEMMA WalkTypes ==
    ASSUME NEW list, IsList(list)
    PROVE  \A n \in 0 .. Len(list) : WalkTyped(list, n)
<1>. DEFINE S == {n \in 0 .. Len(list) : WalkTyped(list, n)}
<1>0. Len(list) \in Nat
  BY DEF IsList
<1>1. 0 \in S
  <2>1. Walk(list)[0] = Found("command", <<>>, <<>>)
    BY <1>0, WalkIs
  <2>2. <<>> \in DOMAIN Catalog /\ <<>> \in Seq(STRING)
    BY CatalogAssumption
  <2>3. LET v == Found("command", <<>>, <<>>)
        IN  v = Found(v.at, v.path, v.rest) /\ v.at = "command" /\ v.path = <<>> /\ v.rest = <<>>
    BY DEF Found
  <2>4. WalkTyped(list, 0)
    BY <2>1, <2>2, <2>3, AscendsEmpty DEF WalkTyped
  <2>. QED
    BY <1>0, <2>4
<1>2. ASSUME NEW m \in 0 .. Len(list) - 1, m \in S PROVE m + 1 \in S
  <2>. DEFINE v == Walk(list)[m]
              w == Walk(list)[m + 1]
              n == m + 1
  <2>1. n \in 1 .. Len(list) /\ n \in Nat /\ n - 1 = m /\ m \in Nat
    BY <1>0
  <2>2. WalkTyped(list, m)
    BY <1>2
  <2>3. v.at \in {"command", "value", "rest", "refused"} /\ v.path \in DOMAIN Catalog
        /\ v.path \in Seq(STRING) /\ Ascends(v.rest) /\ Elements(v.rest) \subseteq 1 .. m
    BY <2>2 DEF WalkTyped
  <2>4. Ascends(Append(v.rest, n)) /\ Elements(Append(v.rest, n)) \subseteq 1 .. n
    <3>1. \A j \in Elements(v.rest) : j < n
      BY <2>1, <2>3
    <3>2. Ascends(Append(v.rest, n)) /\ Elements(Append(v.rest, n)) = Elements(v.rest) \cup {n}
      BY <2>1, <2>3, <3>1, AscendsAppend
    <3>. QED
      BY <2>1, <2>3, <3>2
  <2>5. Extends(list, v.path, n) =>
          v.path \o list[n].text \in DOMAIN Catalog /\ v.path \o list[n].text \in Seq(STRING)
    BY CatalogAssumption DEF Extends
  <2>6. Elements(v.rest) \subseteq 1 .. n
    BY <2>1, <2>3
  <2>. DEFINE Ok(u) == /\ u = Found(u.at, u.path, u.rest)
                       /\ u.at \in {"command", "value", "rest", "refused"}
                       /\ u.path \in DOMAIN Catalog /\ u.path \in Seq(STRING)
                       /\ Ascends(u.rest) /\ Elements(u.rest) \subseteq 1 .. n
  <2>7. \A at \in {"command", "value", "rest", "refused"} :
           /\ Ok(Found(at, v.path, Append(v.rest, n)))
           /\ Extends(list, v.path, n) => Ok(Found(at, v.path \o list[n].text, v.rest))
    BY <2>3, <2>4, <2>5, <2>6 DEF Found
  <2>8. \/ v.at = "command" /\ Extends(list, v.path, n) /\ w = Found("command", v.path \o list[n].text, v.rest)
        \/ \E at \in {"command", "value", "rest", "refused"} : w = Found(at, v.path, Append(v.rest, n))
    <3>. HIDE DEF v, w, n
    <3>1. v = Walk(list)[n - 1] /\ w = Walk(list)[n]
      BY <2>1 DEF v, w, n
    <3>2. v.at = "command" /\ IsFlag(list[n]) => w = Found(w.at, v.path, Append(v.rest, n)) /\ w.at \in {"command", "value", "refused"}
      BY <1>0, <2>1, <3>1, WalkStep
    <3>3. /\ v.at = "value" => w = Found("command", v.path, Append(v.rest, n))
          /\ v.at = "command" /\ Extends(list, v.path, n) => w = Found("command", v.path \o list[n].text, v.rest)
          /\ v.at = "command" /\ ~IsFlag(list[n]) /\ ~Extends(list, v.path, n) =>
                w = Found("rest", v.path, Append(v.rest, n))
          /\ v.at = "rest" => w = Found("rest", v.path, Append(v.rest, n))
          /\ v.at = "refused" => w = Found("refused", v.path, Append(v.rest, n))
      BY <1>0, <2>1, <3>1, WalkStep
    <3>. QED
      BY <2>3, <3>2, <3>3
  <2>9. Ok(w)
    <3>. HIDE DEF Ok, w
    <3>. QED
      BY <2>3, <2>7, <2>8
  <2>. QED
    BY <2>1, <2>9 DEF WalkTyped
<1>. QED
  <2>. HIDE DEF S
  <2>1. \A n \in 0 .. Len(list) : n \in S
    BY <1>0, <1>1, <1>2, UpTo
  <2>. QED
    BY <2>1 DEF S

\* A token is a word of the command or is kept; what was refused or ended stays so.
LEMMA WalkMoves ==
    ASSUME NEW list, IsList(list), NEW n \in 1 .. Len(list), NEW v, v = Walk(list)[n - 1],
           NEW w, w = Walk(list)[n]
    PROVE  \/ /\ v.at = "command" /\ Extends(list, v.path, n)
              /\ w = Found("command", Append(v.path, list[n].text[1]), v.rest)
           \/ /\ ~(v.at = "command" /\ Extends(list, v.path, n))
              /\ w = Found(w.at, v.path, Append(v.rest, n))
              /\ v.at = "rest" => w.at = "rest"
              /\ v.at = "refused" => w.at = "refused"
<1>1. Len(list) \in Nat /\ n - 1 \in 0 .. Len(list)
  BY DEF IsList
<1>2. v.at \in {"command", "value", "rest", "refused"} /\ v.path \in Seq(STRING)
  BY <1>1, WalkTypes DEF WalkTyped
<1>3. Extends(list, v.path, n) => v.path \o list[n].text = Append(v.path, list[n].text[1])
  BY <1>2, ExtendsBy
<1>4. v.at = "command" /\ IsFlag(list[n]) => w = Found(w.at, v.path, Append(v.rest, n))
  BY <1>1, WalkStep
<1>5. /\ v.at = "value" => w = Found("command", v.path, Append(v.rest, n))
      /\ v.at = "command" /\ Extends(list, v.path, n) => w = Found("command", v.path \o list[n].text, v.rest)
      /\ v.at = "command" /\ ~IsFlag(list[n]) /\ ~Extends(list, v.path, n) =>
           w = Found("rest", v.path, Append(v.rest, n))
      /\ v.at = "rest" => w = Found("rest", v.path, Append(v.rest, n))
      /\ v.at = "refused" => w = Found("refused", v.path, Append(v.rest, n))
  BY <1>1, WalkStep
<1>6. CASE v.at = "command"
  <2>1. CASE Extends(list, v.path, n)
    BY <1>3, <1>5, <1>6, <2>1
  <2>2. CASE ~Extends(list, v.path, n)
    <3>1. w = Found("rest", v.path, Append(v.rest, n)) => w.at = "rest"
      BY DEF Found
    <3>2. w = Found(w.at, v.path, Append(v.rest, n))
      BY <1>4, <1>5, <1>6, <2>2, <3>1
    <3>. QED
      BY <1>6, <2>2, <3>2
  <2>. QED
    BY <2>1, <2>2
<1>7. \A at : w = Found(at, v.path, Append(v.rest, n)) => w.at = at
  BY DEF Found
<1>8. CASE v.at = "value"
  BY <1>5, <1>7, <1>8
<1>9. CASE v.at = "rest"
  BY <1>5, <1>7, <1>9
<1>10. CASE v.at = "refused"
  BY <1>5, <1>7, <1>10
<1>. QED
  BY <1>2, <1>6, <1>8, <1>9, <1>10

\* A sequence begins what grows from it.
LEMMA BeginsAppend ==
    ASSUME NEW T, NEW p \in Seq(T), NEW q \in Seq(T), Begins(p, q), NEW x \in T
    PROVE  Begins(p, Append(q, x))
BY DEF Begins

\* What is found after n tokens is the beginning of what is found later.
LEMMA WalkGrows ==
    ASSUME NEW list, IsList(list), NEW n \in 0 .. Len(list), NEW m \in n .. Len(list)
    PROVE  LET v == Walk(list)[n]
               w == Walk(list)[m]
           IN  /\ Begins(v.path, w.path) /\ Begins(v.rest, w.rest)
               /\ v.at = "rest" => w.at = "rest" /\ w.path = v.path
               /\ v.at = "refused" => w.at = "refused"
<1>. DEFINE v == Walk(list)[n]
            Later(w) == /\ Begins(v.path, w.path) /\ Begins(v.rest, w.rest)
                        /\ v.at = "rest" => w.at = "rest" /\ w.path = v.path
                        /\ v.at = "refused" => w.at = "refused"
            S == {k \in 0 .. Len(list) : k >= n => Later(Walk(list)[k])}
<1>0. Len(list) \in Nat /\ n \in Nat
  BY DEF IsList
<1>1. \A k \in 0 .. Len(list) :
         /\ Walk(list)[k].path \in Seq(STRING) /\ Walk(list)[k].rest \in Seq(Nat)
         /\ Walk(list)[k].path \in DOMAIN Catalog
  BY WalkTypes DEF WalkTyped, Ascends
<1>2. Later(v)
  <2>1. v.path \in Seq(STRING) /\ v.rest \in Seq(Nat)
    BY <1>1
  <2>. HIDE DEF v
  <2>. QED
    BY <2>1 DEF Begins
<1>3. 0 \in S
  BY <1>0, <1>2
<1>4. ASSUME NEW k \in 0 .. Len(list) - 1, k \in S PROVE k + 1 \in S
  <2>0. k \in Nat /\ k + 1 \in 1 .. Len(list) /\ (k + 1) - 1 = k /\ k \in 0 .. Len(list)
    BY <1>0
  <2>1. CASE k + 1 <= n
    <3>1. k + 1 >= n => k + 1 = n
      BY <1>0, <2>0, <2>1
    <3>. HIDE DEF Later
    <3>. QED
      BY <1>0, <1>2, <2>0, <3>1
  <2>2. CASE k + 1 > n
    <3>. DEFINE u == Walk(list)[k]
                w == Walk(list)[k + 1]
    <3>1. Later(u)
      BY <1>0, <1>4, <2>0, <2>2
    <3>2. u.path \in Seq(STRING) /\ u.rest \in Seq(Nat)
      BY <1>1, <2>0
    <3>3. \/ /\ u.at = "command" /\ Extends(list, u.path, k + 1)
             /\ w = Found("command", Append(u.path, list[k + 1].text[1]), u.rest)
          \/ /\ w = Found(w.at, u.path, Append(u.rest, k + 1))
             /\ u.at = "rest" => w.at = "rest"
             /\ u.at = "refused" => w.at = "refused"
      <4>. HIDE DEF u, w
      <4>1. u = Walk(list)[(k + 1) - 1] /\ w = Walk(list)[k + 1]
        BY <2>0 DEF u, w
      <4>. QED
        BY <2>0, <4>1, WalkMoves
    <3>4. Extends(list, u.path, k + 1) => list[k + 1].text[1] \in STRING
      BY <2>0, <3>2, ExtendsBy
    <3>5. v.path \in Seq(STRING) /\ v.rest \in Seq(Nat)
      BY <1>1
    <3>. HIDE DEF v, u, w
    <3>6. Begins(v.path, u.path) /\ Begins(v.rest, u.rest)
      BY <3>1
    <3>7. Begins(v.rest, Append(u.rest, k + 1))
      BY <2>0, <3>2, <3>5, <3>6, BeginsAppend
    <3>8. Extends(list, u.path, k + 1) => Begins(v.path, Append(u.path, list[k + 1].text[1]))
      BY <3>2, <3>4, <3>5, <3>6, BeginsAppend
    <3>9. /\ v.at = "rest" => u.at = "rest" /\ u.path = v.path
          /\ v.at = "refused" => u.at = "refused"
      BY <3>1
    <3>10. Later(w)
      <4>1. CASE u.at = "command" /\ Extends(list, u.path, k + 1)
                 /\ w = Found("command", Append(u.path, list[k + 1].text[1]), u.rest)
        <5>1. w.path = Append(u.path, list[k + 1].text[1]) /\ w.rest = u.rest
          BY <4>1 DEF Found
        <5>. QED
          BY <3>6, <3>8, <3>9, <4>1, <5>1
      <4>2. CASE /\ w = Found(w.at, u.path, Append(u.rest, k + 1))
                 /\ u.at = "rest" => w.at = "rest"
                 /\ u.at = "refused" => w.at = "refused"
        <5>1. w.path = u.path /\ w.rest = Append(u.rest, k + 1)
          BY <4>2 DEF Found
        <5>. QED
          BY <3>6, <3>7, <3>9, <4>2, <5>1
      <4>. QED
        BY <3>3, <4>1, <4>2
    <3>. QED
      BY <2>0, <3>10 DEF w
  <2>. QED
    BY <1>0, <2>0, <2>1, <2>2
<1>5. m \in S
  <2>. HIDE DEF S
  <2>1. \A k \in 0 .. Len(list) : k \in S
    BY <1>0, <1>3, <1>4, UpTo
  <2>. QED
    BY <1>0, <2>1
<1>. QED
  BY <1>0, <1>5

--------------------------------------------------------------------------
(* The parse of what is left *)

Modes == {"tokens", "value", "first of arguments", "arguments", "opaque", "refused"}

\* The parse is always in one of its modes.
LEMMA ParseTypes ==
    ASSUME NEW cmd, NEW list, NEW rest, Len(rest) \in Nat
    PROVE  \A k \in 0 .. Len(rest) :
             LET p == Parse(cmd, list, rest)[k]
             IN  p = Parsed(p.at, p.flags, p.arguments, p.opaque) /\ p.at \in Modes
<1>. DEFINE P(k) == Parse(cmd, list, rest)[k]
            Ok(p) == p = Parsed(p.at, p.flags, p.arguments, p.opaque) /\ p.at \in Modes
            S == {k \in 0 .. Len(rest) : Ok(P(k))}
<1>1. 0 \in S
  <2>1. P(0) = Parsed("tokens", <<>>, <<>>, <<>>)
    BY ParseIs
  <2>2. Ok(Parsed("tokens", <<>>, <<>>, <<>>))
    BY DEF Parsed, Modes
  <2>. QED
    BY <2>1, <2>2
<1>2. ASSUME NEW m \in 0 .. Len(rest) - 1, m \in S PROVE m + 1 \in S
  <2>1. m + 1 \in 1 .. Len(rest) /\ (m + 1) - 1 = m
    OBVIOUS
  <2>. DEFINE v == P(m)
              w == P(m + 1)
              k == m + 1
  <2>2. Ok(v)
    BY <1>2
  <2>3. \A at \in Modes : \A flags, arguments, opaque : Ok(Parsed(at, flags, arguments, opaque))
    BY DEF Parsed
  <2>4. v = P(k - 1) /\ w = P(k) /\ k \in 1 .. Len(rest)
    BY <2>1
  <2>5. AfterDashes(cmd) \in Modes
    BY DEF AfterDashes, Modes
  <2>6. (IF cmd.stops THEN "first of arguments" ELSE "tokens") \in Modes
    BY DEF Modes
  <2>7. "tokens" \in Modes /\ "value" \in Modes /\ "refused" \in Modes /\ "arguments" \in Modes /\ "opaque" \in Modes
    BY DEF Modes
  <2>8. w = v \/ \E at \in Modes : \E flags, arguments, opaque : w = Parsed(at, flags, arguments, opaque)
    <3>. HIDE DEF v, w, k, Ok
    <3>1. v = Parsed(v.at, v.flags, v.arguments, v.opaque) /\ v.at \in Modes
      BY <2>2 DEF Ok
    <3>2. ParseMoves(cmd, list[rest[k]], rest[k], k = Len(rest), rest[k + 1], v, w)
      BY <2>4, <3>1, ParseStep
    <3>. DEFINE token == list[rest[k]]
    <3>3. CASE v.at = "tokens"
      <4>. HIDE DEF token
      <4>1. CASE token = DashDash
        BY <2>5, <3>2, <3>3, <4>1 DEF ParseMoves, token
      <4>2. CASE token # DashDash /\ ~IsFlag(token)
        BY <2>6, <3>2, <3>3, <4>2 DEF ParseMoves, token
      <4>3. CASE IsFlag(token)
        BY <2>7, <3>2, <3>3, <4>3 DEF ParseMoves, token
      <4>. QED
        BY <4>1, <4>2, <4>3
    <3>4. CASE v.at # "tokens"
      <4>1. v.at \in {"value", "first of arguments", "arguments", "opaque", "refused"}
        BY <3>1, <3>4 DEF Modes
      <4>. QED
        BY <2>7, <3>2, <4>1, ZenonT(30) DEF ParseMoves
    <3>. QED
      BY <3>3, <3>4
  <2>9. Ok(w)
    <3>. HIDE DEF v, w, k, Ok
    <3>. QED
      BY <2>2, <2>3, <2>8
  <2>. QED
    BY <2>1, <2>9
<1>. QED
  <2>. HIDE DEF S
  <2>1. \A k \in 0 .. Len(rest) : k \in S
    BY <1>1, <1>2, UpTo
  <2>. QED
    BY <2>1 DEF S

\* What the parse has refused stays refused.
LEMMA RefusedStays ==
    ASSUME NEW cmd, NEW list, NEW rest, Len(rest) \in Nat, NEW k \in 0 .. Len(rest),
           Parse(cmd, list, rest)[k].at = "refused"
    PROVE  Parse(cmd, list, rest)[Len(rest)].at = "refused"
<1>. DEFINE P(j) == Parse(cmd, list, rest)[j]
            S == {j \in 0 .. Len(rest) : j >= k => P(j).at = "refused"}
<1>1. 0 \in S
  <2>1. 0 \in 0 .. Len(rest) /\ (0 >= k => k = 0)
    OBVIOUS
  <2>. QED
    BY <2>1
<1>2. ASSUME NEW m \in 0 .. Len(rest) - 1, m \in S PROVE m + 1 \in S
  <2>1. m + 1 \in 1 .. Len(rest) /\ (m + 1) - 1 = m /\ m \in 0 .. Len(rest)
    OBVIOUS
  <2>2. CASE m >= k
    <3>1. P(m).at = "refused"
      BY <1>2, <2>2
    <3>2. P(m) = Parsed(P(m).at, P(m).flags, P(m).arguments, P(m).opaque)
      BY <2>1, ParseTypes
    <3>3. P(m + 1) = P(m)
      <4>. DEFINE v == P(m)
                  w == P(m + 1)
                  k1 == m + 1
      <4>1. k1 \in 1 .. Len(rest) /\ v = P(k1 - 1) /\ w = P(k1)
        BY <2>1
      <4>2. v.at = "refused" /\ v = Parsed(v.at, v.flags, v.arguments, v.opaque)
        BY <3>1, <3>2
      <4>. HIDE DEF v, w, k1
      <4>3. ParseMoves(cmd, list[rest[k1]], rest[k1], k1 = Len(rest), rest[k1 + 1], v, w)
        BY <4>1, <4>2, ParseStep
      <4>4. w = v
        BY <4>2, <4>3 DEF ParseMoves
      <4>. QED
        BY <4>4 DEF v, w
    <3>. QED
      BY <2>1, <3>1, <3>3
  <2>3. CASE m + 1 = k
    BY <2>1, <2>3
  <2>. QED
    BY <2>1, <2>2, <2>3
<1>. QED
  <2>. HIDE DEF S
  <2>1. \A j \in 0 .. Len(rest) : j \in S
    BY <1>1, <1>2, UpTo
  <2>. QED
    BY <2>1 DEF S

--------------------------------------------------------------------------
(* What two commands make of one flag *)

Agree(c, d) ==
    \A f \in c.flags, g \in d.flags :
        f.name = g.name \/ (f.letter = g.letter /\ f.letter # "") => f = g

\* The letters up to this one neither have nor take a value.
Quiet(cmd, letters, k) == \A j \in 1 .. k - 1 : ~Attached(letters, j) /\ ~TakesValue(cmd, letters[j])

\* A cluster of shorthands has one letter that ends it, up to which it is read.
LEMMA OneEnding ==
    ASSUME NEW cmd, NEW letters, Len(letters) \in Nat
    PROVE  /\ \A k \in Ending(cmd, letters) : FlagLetters(cmd, letters) = 1 .. k
           /\ Ending(cmd, letters) = {} => FlagLetters(cmd, letters) = 1 .. Len(letters)
           /\ \A k \in 1 .. Len(letters) : k \in FlagLetters(cmd, letters) <=> Quiet(cmd, letters, k)
<1>1. \A j, k \in Ending(cmd, letters) : j = k
  <2>. TAKE j, k \in Ending(cmd, letters)
  <2>1. j \in 1 .. Len(letters) /\ k \in 1 .. Len(letters)
    BY DEF Ending
  <2>2. ~(j < k)
    <3>. SUFFICES ASSUME j < k PROVE FALSE
      OBVIOUS
    <3>1. j \in 1 .. k - 1
      BY <2>1
    <3>. QED
      BY <3>1 DEF Ending
  <2>3. ~(k < j)
    <3>. SUFFICES ASSUME k < j PROVE FALSE
      OBVIOUS
    <3>1. k \in 1 .. j - 1
      BY <2>1
    <3>. QED
      BY <3>1 DEF Ending
  <2>. QED
    BY <2>1, <2>2, <2>3
<1>2. ASSUME NEW k \in Ending(cmd, letters) PROVE FlagLetters(cmd, letters) = 1 .. k
  <2>1. (CHOOSE j \in Ending(cmd, letters) : TRUE) = k
    BY <1>1
  <2>. QED
    BY <2>1 DEF FlagLetters
<1>3. Ending(cmd, letters) = {} => FlagLetters(cmd, letters) = 1 .. Len(letters)
  BY DEF FlagLetters
<1>4. ASSUME NEW k \in 1 .. Len(letters), Quiet(cmd, letters, k) PROVE k \in FlagLetters(cmd, letters)
  <2>1. CASE Ending(cmd, letters) = {}
    BY <1>3, <2>1
  <2>2. ASSUME NEW e \in Ending(cmd, letters) PROVE k \in FlagLetters(cmd, letters)
    <3>1. e \in 1 .. Len(letters) /\ (Attached(letters, e) \/ TakesValue(cmd, letters[e]))
      BY DEF Ending
    <3>2. k <= e
      BY <1>4, <3>1 DEF Quiet
    <3>. QED
      BY <1>2, <3>1, <3>2
  <2>. QED
    BY <2>1, <2>2
<1>5. ASSUME NEW k \in 1 .. Len(letters), k \in FlagLetters(cmd, letters) PROVE Quiet(cmd, letters, k)
  <2>. DEFINE T == {j \in 1 .. Len(letters) : Attached(letters, j) \/ TakesValue(cmd, letters[j])}
  <2>1. CASE T = {}
    BY <2>1 DEF Quiet
  <2>2. CASE T # {}
    <3>1. PICK e \in T : \A j \in T : e <= j
      <4>1. T \subseteq Nat
        OBVIOUS
      <4>. HIDE DEF T
      <4>. QED
        BY <2>2, <4>1, HasFirst
    <3>2. \A j \in 1 .. e - 1 : j \in 1 .. Len(letters) /\ j \notin T
      BY <3>1
    <3>3. e \in Ending(cmd, letters)
      BY <3>1, <3>2 DEF Ending
    <3>4. k <= e
      BY <1>2, <1>5, <3>3
    <3>5. \A j \in 1 .. k - 1 : j \in 1 .. e - 1
      BY <3>1, <3>4
    <3>. QED
      BY <3>2, <3>5 DEF Quiet
  <2>. QED
    BY <2>1, <2>2
<1>. QED
  BY <1>2, <1>3, <1>4, <1>5

NoneEmpty(letters) == \A k \in 1 .. Len(letters) : letters[k] # ""

\* What one command takes for quiet, the other does, if it knows the letters.
LEMMA QuietBoth ==
    ASSUME NEW c, NEW d, Agree(c, d), NEW letters, Len(letters) \in Nat,
           NoneEmpty(letters),
           \A j \in FlagLetters(c, letters) : ShortFlag(c, letters[j]) # {},
           \A j \in FlagLetters(d, letters) : ShortFlag(d, letters[j]) # {},
           NEW k \in 1 .. Len(letters), Quiet(c, letters, k)
    PROVE  /\ Quiet(d, letters, k)
           /\ TakesValue(c, letters[k]) <=> TakesValue(d, letters[k])
<1>1. ASSUME NEW j \in 1 .. Len(letters), Quiet(c, letters, j), Quiet(d, letters, j)
      PROVE  TakesValue(c, letters[j]) <=> TakesValue(d, letters[j])
  <2>1. ShortFlag(c, letters[j]) # {} /\ ShortFlag(d, letters[j]) # {}
    BY <1>1, OneEnding
  <2>2. \A f \in ShortFlag(c, letters[j]), g \in ShortFlag(d, letters[j]) : f = g
    BY DEF ShortFlag, Agree, NoneEmpty
  <2>. QED
    BY <2>1, <2>2 DEF TakesValue
<1>2. Quiet(d, letters, k)
  <2>. SUFFICES ASSUME ~Quiet(d, letters, k) PROVE FALSE
    OBVIOUS
  <2>. DEFINE T == {i \in 1 .. k - 1 : Attached(letters, i) \/ TakesValue(d, letters[i])}
  <2>1. T \subseteq 1 .. k - 1 /\ T # {}
    BY DEF Quiet
  <2>2. PICK j \in T : j \in 1 .. k - 1 /\ \A i \in 1 .. j - 1 : i \in 1 .. k - 1 /\ i \notin T
    <3>1. k - 1 \in Nat
      OBVIOUS
    <3>. HIDE DEF T
    <3>. QED
      BY <2>1, <3>1, FirstOf
  <2>3. j \in 1 .. Len(letters)
    BY <2>2
  <2>4. \A i \in 1 .. j - 1 : i \in 1 .. k - 1 /\ ~(Attached(letters, i) \/ TakesValue(d, letters[i]))
    BY <2>2
  <2>5. Quiet(d, letters, j) /\ Quiet(c, letters, j)
    BY <2>4 DEF Quiet
  <2>6. TakesValue(c, letters[j]) <=> TakesValue(d, letters[j])
    BY <1>1, <2>3, <2>5
  <2>. QED
    BY <2>2, <2>3, <2>6 DEF Quiet
<1>. QED
  BY <1>1, <1>2

\* Two commands that know a flag agree on whether it needs the next token.
LEMMA SameNeeds ==
    ASSUME NEW c, NEW d, Agree(c, d), NEW token, IsToken(token), IsFlag(token),
           Known(c, token), Known(d, token)
    PROVE  NeedsNext(c, token) <=> NeedsNext(d, token)
<1>. DEFINE letters == token.text
<1>1. CASE token.kind = "long"
  <2>1. \A f \in LongFlag(c, letters[1]), g \in LongFlag(d, letters[1]) : f = g
    BY DEF LongFlag, Agree
  <2>2. LongFlag(c, letters[1]) # {} /\ LongFlag(d, letters[1]) # {}
    BY <1>1 DEF Known
  <2>. QED
    BY <1>1, <2>1, <2>2 DEF NeedsNext, NeedsNextLong
<1>2. CASE token.kind = "short"
  <2>1. Len(letters) \in Nat /\ NoneEmpty(letters)
    <3>1. letters \in Seq(STRING)
      BY <1>2 DEF IsToken
    <3>2. \A k \in DOMAIN letters : letters[k] # ""
      BY <1>2 DEF IsToken
    <3>. HIDE DEF letters
    <3>3. Len(letters) \in Nat /\ DOMAIN letters = 1 .. Len(letters)
      BY <3>1
    <3>. QED
      BY <3>2, <3>3 DEF NoneEmpty
  <2>2. /\ \A j \in FlagLetters(c, letters) : ShortFlag(c, letters[j]) # {}
        /\ \A j \in FlagLetters(d, letters) : ShortFlag(d, letters[j]) # {}
    BY <1>2 DEF Known
  <2>3. Agree(d, c)
    BY DEF Agree
  <2>. HIDE DEF letters
  <2>4. \A k \in 1 .. Len(letters) : k \in Ending(c, letters) => k \in Ending(d, letters)
    <3>. TAKE k \in 1 .. Len(letters)
    <3>. HAVE k \in Ending(c, letters)
    <3>1. Quiet(c, letters, k) /\ (Attached(letters, k) \/ TakesValue(c, letters[k]))
      BY DEF Ending, Quiet
    <3>2. Quiet(d, letters, k) /\ (TakesValue(c, letters[k]) <=> TakesValue(d, letters[k]))
      BY <2>1, <2>2, <3>1, QuietBoth
    <3>. QED
      BY <3>1, <3>2 DEF Ending, Quiet
  <2>5. \A k \in 1 .. Len(letters) : k \in Ending(d, letters) => k \in Ending(c, letters)
    <3>. TAKE k \in 1 .. Len(letters)
    <3>. HAVE k \in Ending(d, letters)
    <3>1. Quiet(d, letters, k) /\ (Attached(letters, k) \/ TakesValue(d, letters[k]))
      BY DEF Ending, Quiet
    <3>2. Quiet(c, letters, k) /\ (TakesValue(d, letters[k]) <=> TakesValue(c, letters[k]))
      BY <2>1, <2>2, <2>3, <3>1, QuietBoth
    <3>. QED
      BY <3>1, <3>2 DEF Ending, Quiet
  <2>6. Ending(c, letters) \subseteq 1 .. Len(letters) /\ Ending(d, letters) \subseteq 1 .. Len(letters)
    BY DEF Ending
  <2>7. Ending(c, letters) = Ending(d, letters)
    BY <2>4, <2>5, <2>6
  <2>. QED
    BY <1>2, <2>7 DEF NeedsNext, NeedsNextShort, letters
<1>. QED
  BY <1>1, <1>2 DEF IsFlag

\* A flag that does not need the next token is not given any of it.
LEMMA GivenAlone ==
    ASSUME NEW cmd, NEW token, IsToken(token), IsFlag(token), ~NeedsNext(cmd, token),
           NEW i, NEW next, NEW other
    PROVE  Given(cmd, token, i, next) = Given(cmd, token, i, other)
<1>. DEFINE letters == token.text
<1>1. CASE token.kind = "long"
  BY <1>1 DEF Given, NeedsNext
<1>2. CASE token.kind = "short"
  <2>1. Len(letters) \in Nat /\ token.kind # "long"
    <3>1. letters \in Seq(STRING)
      BY <1>2 DEF IsToken
    <3>. HIDE DEF letters
    <3>. QED
      BY <1>2, <3>1
  <2>. DEFINE Pair(fk, m) == <<fk[1].name, IF Attached(letters, fk[2]) \/ (fk[1].takesValue /\ fk[2] < Len(letters))
                                           THEN Value("attached", i)
                                           ELSE IF fk[1].takesValue THEN Value("token", m) ELSE Value("true", i)>>
              Fs == {fk \in cmd.flags \X FlagLetters(cmd, letters) : fk[1].letter = letters[fk[2]]}
  <2>2. \A m : Given(cmd, token, i, m) = {Pair(fk, m) : fk \in Fs}
    BY <2>1 DEF Given
  <2>3. ASSUME NEW fk \in Fs PROVE Pair(fk, next) = Pair(fk, other)
    <3>1. fk[1] \in cmd.flags /\ fk[2] \in FlagLetters(cmd, letters) /\ fk[1].letter = letters[fk[2]]
      OBVIOUS
    <3>2. FlagLetters(cmd, letters) \subseteq 1 .. Len(letters)
      <4>1. CASE Ending(cmd, letters) = {}
        BY <2>1, <4>1, OneEnding
      <4>2. ASSUME NEW e \in Ending(cmd, letters) PROVE FlagLetters(cmd, letters) \subseteq 1 .. Len(letters)
        <5>1. e \in 1 .. Len(letters)
          BY DEF Ending
        <5>. QED
          BY <2>1, <5>1, OneEnding
      <4>. QED
        BY <4>1, <4>2
    <3>. DEFINE k == fk[2]
    <3>3. k \in 1 .. Len(letters) /\ Quiet(cmd, letters, k)
      BY <2>1, <3>1, <3>2, OneEnding
    <3>4. CASE fk[1].takesValue /\ ~(k < Len(letters)) /\ ~Attached(letters, k)
      <4>1. k = Len(letters)
        BY <2>1, <3>3, <3>4
      <4>2. TakesValue(cmd, letters[k])
        BY <3>1, <3>4 DEF TakesValue, ShortFlag
      <4>3. k \in Ending(cmd, letters)
        BY <3>3, <4>2 DEF Ending, Quiet
      <4>. QED
        BY <1>2, <4>1, <4>3 DEF NeedsNext, NeedsNextShort
    <3>5. CASE ~(fk[1].takesValue /\ ~(k < Len(letters)) /\ ~Attached(letters, k))
      BY <3>5
    <3>. QED
      BY <3>4, <3>5
  <2>4. {Pair(fk, next) : fk \in Fs} = {Pair(fk, other) : fk \in Fs}
    <3>. HIDE DEF Pair, Fs
    <3>. QED
      BY <2>3
  <2>. QED
    BY <2>2, <2>4
<1>. QED
  BY <1>1, <1>2 DEF IsFlag

--------------------------------------------------------------------------
(* Both loops at once *)

\* What findCommand and parse come to in the end.
Meant(list)  == FindCommand(list).path
Left(list)   == FindCommand(list).rest
Reader(list) == Parse(Catalog[Meant(list)], list, Left(list))
Kept(list, n) == Len(Walk(list)[n].rest)

Survives(list) ==
    /\ FindCommand(list).at # "refused"
    /\ Reader(list)[Len(Left(list))].at # "refused"

\* What is left to parse is positions of the list in order.
LEMMA LeftTypes ==
    ASSUME NEW list, IsList(list)
    PROVE  /\ Len(list) \in Nat
           /\ Ascends(Left(list)) /\ Len(Left(list)) \in Nat
           /\ Elements(Left(list)) \subseteq 1 .. Len(list)
           /\ Meant(list) \in DOMAIN Catalog /\ Meant(list) \in Seq(STRING)
           /\ Kept(list, 0) = 0 /\ Kept(list, Len(list)) = Len(Left(list))
           /\ Reader(list)[0] = Parsed("tokens", <<>>, <<>>, <<>>)
           /\ Walk(list)[0] = Found("command", <<>>, <<>>)
<1>1. Len(list) \in Nat /\ Len(list) \in 0 .. Len(list) /\ 0 \in 0 .. Len(list)
  BY DEF IsList
<1>2. WalkTyped(list, Len(list))
  BY <1>1, WalkTypes
<1>3. Ascends(Left(list)) /\ Len(Left(list)) \in Nat /\ Elements(Left(list)) \subseteq 1 .. Len(list)
  BY <1>2 DEF WalkTyped, Left, FindCommand, Ascends
<1>4. Meant(list) \in DOMAIN Catalog /\ Meant(list) \in Seq(STRING)
  BY <1>2 DEF WalkTyped, Meant, FindCommand
<1>5. Walk(list)[0] = Found("command", <<>>, <<>>)
  BY <1>1, WalkIs
<1>6. Kept(list, 0) = 0
  BY <1>5 DEF Kept, Found
<1>7. Reader(list)[0] = Parsed("tokens", <<>>, <<>>, <<>>)
  BY <1>3, ParseIs DEF Reader
<1>. QED
  BY <1>1, <1>3, <1>4, <1>5, <1>6, <1>7 DEF Kept, Left, FindCommand

\* Each token is kept in its place or not at all.
LEMMA KeptMoves ==
    ASSUME NEW list, IsList(list), NEW n \in 1 .. Len(list), NEW v, v = Walk(list)[n - 1],
           NEW w, w = Walk(list)[n]
    PROVE  /\ Kept(list, n - 1) \in 0 .. Len(Left(list)) /\ Kept(list, n) \in 0 .. Len(Left(list))
           /\ w.rest = v.rest => Kept(list, n) = Kept(list, n - 1)
           /\ w.rest = Append(v.rest, n) =>
                /\ Kept(list, n) = Kept(list, n - 1) + 1
                /\ Kept(list, n) \in 1 .. Len(Left(list))
                /\ Left(list)[Kept(list, n)] = n
<1>1. Len(list) \in Nat /\ n - 1 \in 0 .. Len(list) /\ n \in 0 .. Len(list) /\ Len(list) \in n .. Len(list)
      /\ Len(list) \in n - 1 .. Len(list)
  BY DEF IsList
<1>2. Ascends(v.rest) /\ Ascends(w.rest) /\ Elements(v.rest) \subseteq 1 .. n - 1
  BY <1>1, WalkTypes DEF WalkTyped
<1>3. Begins(v.rest, Left(list))
  BY <1>1, WalkGrows DEF Left, FindCommand
<1>4. Begins(w.rest, Left(list))
  BY <1>1, WalkGrows DEF Left, FindCommand
<1>5. Len(Left(list)) \in Nat /\ Len(v.rest) \in Nat /\ Len(w.rest) \in Nat
  BY <1>2, LeftTypes DEF Ascends
<1>6. Kept(list, n - 1) = Len(v.rest) /\ Kept(list, n) = Len(w.rest)
  BY DEF Kept
<1>7. Kept(list, n - 1) \in 0 .. Len(Left(list)) /\ Kept(list, n) \in 0 .. Len(Left(list))
  BY <1>3, <1>4, <1>5, <1>6 DEF Begins
<1>8. ASSUME w.rest = Append(v.rest, n)
      PROVE  Len(w.rest) = Len(v.rest) + 1 /\ w.rest[Len(w.rest)] = n
  <2>1. n \in Nat /\ \A j \in Elements(v.rest) : j < n
    BY <1>1, <1>2
  <2>. QED
    BY <1>2, <1>8, <2>1, AscendsAppend
<1>9. ASSUME w.rest = Append(v.rest, n)
      PROVE  Len(w.rest) \in 1 .. Len(Left(list)) /\ Left(list)[Len(w.rest)] = n
  <2>1. Len(w.rest) \in 1 .. Len(w.rest) /\ Len(w.rest) <= Len(Left(list))
    BY <1>4, <1>5, <1>8, <1>9 DEF Begins
  <2>. QED
    BY <1>4, <1>5, <1>8, <1>9, <2>1 DEF Begins
<1>. QED
  BY <1>6, <1>7, <1>8, <1>9

\* A token that is kept is the next one that the parse will see.
LEMMA KeptOneMore ==
    ASSUME NEW list, IsList(list), NEW n \in 1 .. Len(list),
           Walk(list)[n].rest = Append(Walk(list)[n - 1].rest, n)
    PROVE  Kept(list, n) = Kept(list, n - 1) + 1 /\ Left(list)[Kept(list, n)] = n
BY ZenonT(40), KeptMoves

\* Beginnings, in the library's words.
LEMMA BeginsIsPrefix ==
    ASSUME NEW T, NEW p \in Seq(T), NEW q \in Seq(T), Begins(p, q)
    PROVE  IsPrefix(p, q)
<1>1. Len(p) \in Nat /\ Len(q) \in Nat /\ Len(p) <= Len(q) /\ \A k \in 1 .. Len(p) : q[k] = p[k]
  BY DEF Begins
<1>2. SubSeq(q, 1, Len(p)) = p
  <2>1. SubSeq(q, 1, Len(p)) \in Seq(T) /\ Len(SubSeq(q, 1, Len(p))) = Len(p)
    BY <1>1
  <2>2. \A k \in 1 .. Len(p) : SubSeq(q, 1, Len(p))[k] = q[k]
    BY <1>1
  <2>. QED
    BY <1>1, <2>1, <2>2
<1>3. SubSeq(p, 1, Len(p)) = p
  BY <1>1
<1>. QED
  BY <1>1, <1>2, <1>3 DEF IsPrefix

\* Nothing is refused on the way to something that is not.
LEMMA OnTheWay ==
    ASSUME NEW list, IsList(list), Survives(list), NEW n \in 0 .. Len(list), NEW w, w = Walk(list)[n]
    PROVE  /\ w.at # "refused" /\ Reader(list)[Kept(list, n)].at # "refused"
           /\ w.path \in DOMAIN Catalog /\ Begins(w.path, Meant(list))
           /\ Agree(Catalog[w.path], Catalog[Meant(list)])
           /\ w.at = "rest" => w.path = Meant(list)
           /\ Kept(list, n) \in 0 .. Len(Left(list))
<1>1. Len(list) \in Nat /\ Len(list) \in n .. Len(list)
  BY DEF IsList
<1>2. Begins(w.path, Meant(list)) /\ Begins(w.rest, Left(list)) /\ (w.at = "rest" => Meant(list) = w.path)
      /\ (w.at = "refused" => FindCommand(list).at = "refused")
  BY <1>1, WalkGrows DEF Meant, Left, FindCommand
<1>3. w.path \in DOMAIN Catalog /\ w.path \in Seq(STRING) /\ Ascends(w.rest)
  BY WalkTypes DEF WalkTyped
<1>4. Kept(list, n) \in 0 .. Len(Left(list))
  BY <1>2, <1>3, LeftTypes DEF Kept, Begins, Ascends
<1>5. Agree(Catalog[w.path], Catalog[Meant(list)])
  <2>1. Meant(list) \in DOMAIN Catalog /\ Meant(list) \in Seq(STRING)
    BY LeftTypes
  <2>2. IsPrefix(w.path, Meant(list))
    BY <1>2, <1>3, <2>1, BeginsIsPrefix
  <2>. DEFINE p == w.path
              q == Meant(list)
  <2>3. p \in DOMAIN Catalog /\ q \in DOMAIN Catalog /\ IsPrefix(p, q)
    BY <1>3, <2>1, <2>2
  <2>. HIDE DEF p, q
  <2>4. Agree(Catalog[p], Catalog[q])
    BY ZenonT(40), <2>3, CatalogAssumption DEF Agree
  <2>. QED
    BY <2>4 DEF p, q
<1>6. Reader(list)[Kept(list, n)].at # "refused"
  BY <1>4, LeftTypes, RefusedStays DEF Survives, Reader
<1>. QED
  BY <1>2, <1>3, <1>4, <1>5, <1>6 DEF Survives

\* What one token does to both: it is a word of the command, or it is left to parse.
LEMMA NextToken ==
    ASSUME NEW list, IsList(list), Survives(list), NEW i \in 1 .. Len(list),
           NEW v, v = Walk(list)[i - 1], NEW w, w = Walk(list)[i],
           NEW p, p = Reader(list)[Kept(list, i - 1)], NEW r, r = Reader(list)[Kept(list, i)],
           NEW cmd, cmd = Catalog[Meant(list)]
    PROVE  \/ /\ v.at = "command" /\ Extends(list, v.path, i)
              /\ w = Found("command", Append(v.path, list[i].text[1]), v.rest)
              /\ r = p /\ Kept(list, i) = Kept(list, i - 1)
           \/ \E last, j :
                /\ ~(v.at = "command" /\ Extends(list, v.path, i))
                /\ w = Found(w.at, v.path, Append(v.rest, i))
                /\ v.at = "rest" => w.at = "rest"
                /\ v.at = "value" => w.at = "command"
                /\ v.at = "command" /\ ~IsFlag(list[i]) => w.at = "rest"
                /\ v.at = "command" /\ IsFlag(list[i]) /\ Known(cmd, list[i]) =>
                     w.at = IF NeedsNext(cmd, list[i]) THEN "value" ELSE "command"
                /\ ParseMoves(cmd, list[i], i, last, j, p, r)
                /\ Kept(list, i) \in 1 .. Len(Left(list))
                /\ last <=> Kept(list, i) = Len(Left(list))
                /\ w.at \in {"value", "rest"} /\ ~last => j = i + 1
<1>0. /\ Len(list) \in Nat /\ Len(Left(list)) \in Nat /\ Kept(list, Len(list)) = Len(Left(list))
      /\ i - 1 \in 0 .. Len(list) /\ i \in 0 .. Len(list)
  BY LeftTypes
<1>1. CASE v.at = "command" /\ Extends(list, v.path, i)
  <2>1. w = Found("command", Append(v.path, list[i].text[1]), v.rest)
    BY <1>1, WalkMoves
  <2>2. w.rest = v.rest
    BY <2>1 DEF Found
  <2>3. Kept(list, i) = Kept(list, i - 1)
    BY <2>2, KeptMoves
  <2>. QED
    BY <1>1, <2>1, <2>3
<1>2. CASE ~(v.at = "command" /\ Extends(list, v.path, i))
  <2>1. w = Found(w.at, v.path, Append(v.rest, i)) /\ (v.at = "rest" => w.at = "rest")
    BY <1>2, WalkMoves
  <2>2. w.rest = Append(v.rest, i)
    BY <2>1 DEF Found
  <2>. DEFINE k == Kept(list, i)
              left == Left(list)
  <2>3. k = Kept(list, i - 1) + 1 /\ k \in 1 .. Len(left) /\ left[k] = i /\ Kept(list, i - 1) \in 0 .. Len(left)
    BY <2>2, KeptMoves, ZenonT(30)
  <2>4. ParseMoves(cmd, list[i], i, k = Len(left), left[k + 1], p, r)
    <3>1. p = Parsed(p.at, p.flags, p.arguments, p.opaque)
      BY <1>0, <2>3, ParseTypes DEF Reader
    <3>. HIDE DEF k, left
    <3>2. k - 1 = Kept(list, i - 1)
      BY <1>0, <2>3
    <3>3. p = Parse(cmd, list, left)[k - 1] /\ r = Parse(cmd, list, left)[k]
      BY <3>2 DEF Reader, left, k
    <3>4. Len(left) \in Nat
      BY <1>0 DEF left
    <3>5. k \in 1 .. Len(left) /\ left[k] = i
      BY <2>3
    <3>6. ParseMoves(cmd, list[left[k]], left[k], k = Len(left), left[k + 1], p, r)
      BY <3>1, <3>3, <3>4, <3>5, ParseStep
    <3>. QED
      BY <3>5, <3>6
  <2>5. v.at = "value" => w.at = "command"
    <3>1. v.at = "value" => w = Found("command", v.path, Append(v.rest, i))
      BY <1>0, WalkStep
    <3>. QED
      BY <3>1 DEF Found
  <2>6. v.at = "command" /\ ~IsFlag(list[i]) => w.at = "rest"
    <3>1. v.at = "command" /\ ~IsFlag(list[i]) => w = Found("rest", v.path, Append(v.rest, i))
      BY <1>0, <1>2, WalkStep
    <3>. QED
      BY <3>1 DEF Found
  <2>7. ASSUME v.at = "command", IsFlag(list[i]), Known(cmd, list[i])
        PROVE  w.at = IF NeedsNext(cmd, list[i]) THEN "value" ELSE "command"
    <3>. DEFINE c == Catalog[v.path]
    <3>1. /\ Occupies(c, list, i) \in {0, 1, 2}
          /\ Occupies(c, list, i) = 0 => w.at = "refused"
          /\ Occupies(c, list, i) = 1 => w.at = "command"
          /\ Occupies(c, list, i) = 2 => w.at = "value"
      BY <1>0, <2>7, WalkStep
    <3>2. w.at # "refused"
      BY <1>0, OnTheWay
    <3>3. Agree(c, cmd)
      BY <1>0, OnTheWay
    <3>. HIDE DEF c
    <3>4. Known(c, list[i]) /\ (Occupies(c, list, i) = 2 <=> NeedsNext(c, list[i]))
      BY <3>1, <3>2 DEF Occupies
    <3>5. IsToken(list[i])
      BY DEF IsList
    <3>6. NeedsNext(c, list[i]) <=> NeedsNext(cmd, list[i])
      BY <2>7, <3>3, <3>4, <3>5, SameNeeds
    <3>. QED
      BY <3>1, <3>2, <3>4, <3>6
  <2>8. ASSUME w.at \in {"value", "rest"}, k # Len(left) PROVE left[k + 1] = i + 1
    <3>1. i # Len(list)
      BY <1>0, <2>8
    <3>2. i + 1 \in 1 .. Len(list) /\ (i + 1) - 1 = i
      BY <1>0, <3>1
    <3>. DEFINE u == Walk(list)[i + 1]
                n == i + 1
    <3>3. n \in 1 .. Len(list) /\ w = Walk(list)[n - 1] /\ u = Walk(list)[n]
      BY <3>2
    <3>. HIDE DEF u, n
    <3>4. u = Found(u.at, w.path, Append(w.rest, n))
      BY <2>8, <3>3, WalkMoves
    <3>5. u.rest = Append(w.rest, n)
      BY <3>4 DEF Found
    <3>6. Kept(list, n) = Kept(list, n - 1) + 1 /\ Left(list)[Kept(list, n)] = n
      <4>. HIDE DEF k, left
      <4>1. Walk(list)[n].rest = Append(Walk(list)[n - 1].rest, n)
        BY <3>3, <3>5
      <4>. QED
        BY <3>3, <4>1, KeptOneMore
    <3>. QED
      BY <3>2, <3>6 DEF n
  <2>. QED
    BY <1>2, <2>1, <2>3, <2>4, <2>5, <2>6, <2>7, <2>8
<1>. QED
  BY <1>1, <1>2

--------------------------------------------------------------------------
(* The reading of the tokens so far *)

\* Of the first n tokens: the words of the command at h, its flags at q, what it is
\* given at a, and the values of its flags at V.
Sorted(list, cmd, path, n, h, q, a, V) ==
    /\ Ascends(h) /\ Ascends(q) /\ Ascends(a) /\ Below(Elements(h), Elements(a))
    /\ 1 .. n = Elements(h) \cup Elements(q) \cup Elements(a) \cup V
    /\ V \cap (Elements(h) \cup Elements(q) \cup Elements(a)) = {}
    /\ \A i \in V : i - 1 \in Elements(q) /\ NeedsNext(cmd, list[i - 1])
    /\ \A i \in Elements(q) : IsFlag(list[i]) /\ Known(cmd, list[i])
    /\ \A i \in Elements(h) \cup Elements(a) : ~IsFlag(list[i]) /\ list[i] # DashDash
    /\ Len(h) = Len(path) /\ \A j \in 1 .. Len(h) : list[h[j]] = Word(<<path[j]>>)

\* Of nothing, nothing has been sorted.
LEMMA SortedNone ==
    ASSUME NEW list, NEW cmd
    PROVE  Sorted(list, cmd, <<>>, 0, <<>>, <<>>, <<>>, {})
BY AscendsEmpty DEF Sorted, Below

\* The next position may follow those up to here.
LEMMA OneMore ==
    ASSUME NEW n \in Nat, NEW q, Ascends(q), Elements(q) \subseteq 1 .. n
    PROVE  /\ Ascends(Append(q, n + 1))
           /\ Elements(Append(q, n + 1)) = Elements(q) \cup {n + 1}
           /\ Len(Append(q, n + 1)) = Len(q) + 1
           /\ Append(q, n + 1)[Len(q) + 1] = n + 1
           /\ \A k \in 1 .. Len(q) : Append(q, n + 1)[k] = q[k]
<1>1. \A j \in Elements(q) : j < n + 1
  OBVIOUS
<1>. QED
  BY <1>1, AscendsAppend

\* The next token sorted as a word of the command.
LEMMA SortedHead ==
    ASSUME NEW list, NEW cmd, NEW path \in Seq(STRING), NEW n \in Nat, NEW h, NEW q, NEW V,
           Sorted(list, cmd, path, n, h, q, <<>>, V),
           NEW x \in STRING, list[n + 1] = Word(<<x>>)
    PROVE  Sorted(list, cmd, Append(path, x), n + 1, Append(h, n + 1), q, <<>>, V)
<1>. DEFINE g == Append(h, n + 1)
            longer == Append(path, x)
<1>1. Ascends(h) /\ Elements(h) \subseteq 1 .. n /\ Len(h) \in Nat /\ Len(h) = Len(path)
  BY DEF Sorted, Ascends
<1>2. /\ Ascends(g) /\ Elements(g) = Elements(h) \cup {n + 1} /\ Len(g) = Len(h) + 1
      /\ g[Len(h) + 1] = n + 1 /\ \A k \in 1 .. Len(h) : g[k] = h[k]
  BY <1>1, OneMore
<1>3. Len(longer) = Len(path) + 1 /\ longer[Len(path) + 1] = x /\ \A k \in 1 .. Len(path) : longer[k] = path[k]
  BY AppendProperties, ZenonT(30)
<1>4. ~IsFlag(list[n + 1]) /\ list[n + 1] # DashDash
  BY DEF IsFlag, Word, Token, DashDash
<1>. HIDE DEF g, longer
<1>5. \A j \in 1 .. Len(g) : list[g[j]] = Word(<<longer[j]>>)
  <2>. TAKE j \in 1 .. Len(g)
  <2>1. CASE j = Len(h) + 1
    BY <1>1, <1>2, <1>3, <2>1
  <2>2. CASE j \in 1 .. Len(h)
    BY <1>1, <1>2, <1>3, <2>2 DEF Sorted
  <2>. QED
    BY <1>1, <1>2, <2>1, <2>2
<1>6. n + 1 \notin V \cup Elements(q)
  BY DEF Sorted
<1>7. 1 .. n + 1 = (1 .. n) \cup {n + 1}
  OBVIOUS
<1>8. 1 .. n + 1 = Elements(g) \cup Elements(q) \cup Elements(<<>>) \cup V
  BY <1>2, <1>7 DEF Sorted
<1>9. V \cap (Elements(g) \cup Elements(q) \cup Elements(<<>>)) = {}
  BY <1>2, <1>6 DEF Sorted
<1>10. \A i \in Elements(g) \cup Elements(<<>>) : ~IsFlag(list[i]) /\ list[i] # DashDash
  BY <1>2, <1>4 DEF Sorted
<1>11. Below(Elements(g), Elements(<<>>))
  BY AscendsEmpty DEF Below
<1>12. Len(g) = Len(longer)
  BY <1>1, <1>2, <1>3
<1>. QED
  BY <1>2, <1>5, <1>8, <1>9, <1>10, <1>11, <1>12 DEF Sorted, g, longer

\* The next token sorted as a flag.
LEMMA SortedFlag ==
    ASSUME NEW list, NEW cmd, NEW path, NEW n \in Nat, NEW h, NEW q, NEW a, NEW V,
           Sorted(list, cmd, path, n, h, q, a, V),
           IsFlag(list[n + 1]), Known(cmd, list[n + 1])
    PROVE  Sorted(list, cmd, path, n + 1, h, Append(q, n + 1), a, V)
<1>. DEFINE g == Append(q, n + 1)
<1>1. Ascends(q) /\ Elements(q) \subseteq 1 .. n
  BY DEF Sorted
<1>2. Ascends(g) /\ Elements(g) = Elements(q) \cup {n + 1}
  BY <1>1, OneMore
<1>. HIDE DEF g
<1>3. n + 1 \notin V
  BY DEF Sorted
<1>4. 1 .. n + 1 = (1 .. n) \cup {n + 1}
  OBVIOUS
<1>5. 1 .. n + 1 = Elements(h) \cup Elements(g) \cup Elements(a) \cup V
  BY <1>2, <1>4 DEF Sorted
<1>6. V \cap (Elements(h) \cup Elements(g) \cup Elements(a)) = {}
  BY <1>2, <1>3 DEF Sorted
<1>7. \A i \in Elements(g) : IsFlag(list[i]) /\ Known(cmd, list[i])
  BY <1>2 DEF Sorted
<1>8. \A i \in V : i - 1 \in Elements(g) /\ NeedsNext(cmd, list[i - 1])
  BY <1>2 DEF Sorted
<1>. QED
  BY <1>2, <1>5, <1>6, <1>7, <1>8 DEF Sorted, g

\* The next token sorted as the value of the flag before it.
LEMMA SortedValue ==
    ASSUME NEW list, NEW cmd, NEW path, NEW n \in Nat, NEW h, NEW q, NEW a, NEW V,
           Sorted(list, cmd, path, n, h, q, a, V),
           n \in Elements(q), NeedsNext(cmd, list[n])
    PROVE  Sorted(list, cmd, path, n + 1, h, q, a, V \cup {n + 1})
<1>1. n + 1 \notin Elements(h) \cup Elements(q) \cup Elements(a)
  BY DEF Sorted
<1>2. 1 .. n + 1 = (1 .. n) \cup {n + 1} /\ (n + 1) - 1 = n
  OBVIOUS
<1>3. 1 .. n + 1 = Elements(h) \cup Elements(q) \cup Elements(a) \cup (V \cup {n + 1})
  BY <1>2 DEF Sorted
<1>4. (V \cup {n + 1}) \cap (Elements(h) \cup Elements(q) \cup Elements(a)) = {}
  BY <1>1 DEF Sorted
<1>5. \A i \in V \cup {n + 1} : i - 1 \in Elements(q) /\ NeedsNext(cmd, list[i - 1])
  BY <1>2 DEF Sorted
<1>. QED
  BY <1>3, <1>4, <1>5 DEF Sorted

\* The next token sorted as an argument.
LEMMA SortedArgument ==
    ASSUME NEW list, NEW cmd, NEW path, NEW n \in Nat, NEW h, NEW q, NEW a, NEW V,
           Sorted(list, cmd, path, n, h, q, a, V),
           ~IsFlag(list[n + 1]), list[n + 1] # DashDash
    PROVE  Sorted(list, cmd, path, n + 1, h, q, Append(a, n + 1), V)
<1>. DEFINE g == Append(a, n + 1)
<1>1. Ascends(a) /\ Elements(a) \subseteq 1 .. n /\ Elements(h) \subseteq 1 .. n
  BY DEF Sorted
<1>2. Ascends(g) /\ Elements(g) = Elements(a) \cup {n + 1}
  BY <1>1, OneMore
<1>. HIDE DEF g
<1>3. n + 1 \notin V
  BY DEF Sorted
<1>4. 1 .. n + 1 = (1 .. n) \cup {n + 1}
  OBVIOUS
<1>5. 1 .. n + 1 = Elements(h) \cup Elements(q) \cup Elements(g) \cup V
  BY <1>2, <1>4 DEF Sorted
<1>6. V \cap (Elements(h) \cup Elements(q) \cup Elements(g)) = {}
  BY <1>2, <1>3 DEF Sorted
<1>7. \A i \in Elements(h) \cup Elements(g) : ~IsFlag(list[i]) /\ list[i] # DashDash
  BY <1>2 DEF Sorted
<1>8. Below(Elements(h), Elements(g))
  <2>. SUFFICES ASSUME NEW i \in Elements(h), NEW j \in Elements(g) PROVE i < j
    BY DEF Below
  <2>1. CASE j \in Elements(a)
    BY <2>1 DEF Sorted, Below
  <2>2. CASE j = n + 1
    BY <1>1, <2>2
  <2>. QED
    BY <1>2, <2>1, <2>2
<1>. QED
  BY <1>2, <1>5, <1>6, <1>7, <1>8 DEF Sorted, g

\* The tokens behind the last that is read for flags, as far as n.
After(list, last, n) ==
    Upto(IF last < n /\ list[last + 1] = DashDash THEN last + 2 ELSE last + 1, n)

\* What of those is the command's own to read.
Passes(cmd, a) == cmd.passThrough /\ ~(cmd.stops /\ a # <<>>)
Own(cmd, list, last, n, a)    == a \o (IF Passes(cmd, a) THEN <<>> ELSE After(list, last, n))
Passed(cmd, list, last, n, a) == IF Passes(cmd, a) THEN After(list, last, n) ELSE <<>>

\* Tokens are still read for flags; one may need the next.
Open(list, cmd, n, v, p, q, a) ==
    /\ p.at \in {"tokens", "value"}
    /\ p.at = "value" => /\ n \in Elements(q) /\ NeedsNext(cmd, list[n])
                         /\ Kept(list, n) # Len(Left(list))
    /\ v.at = "command" => p.at = "tokens"
    /\ v.at = "value" => p.at = "value"
    /\ a = <<>> <=> v.at # "rest"
    /\ cmd.stops => a = <<>>

\* A "--" behind the last ended that.
Shut(list, cmd, last, n, v, p, a) ==
    /\ last < n /\ list[last + 1] = DashDash
    /\ v.at = "rest" /\ (cmd.stops => a = <<>>)
    /\ p.at = AfterDashes(cmd)

\* An argument did.
Ended(cmd, last, n, v, p, a) ==
    /\ cmd.stops /\ a = <<last>> /\ v.at = "rest"
    /\ p.at = IF n = last THEN "first of arguments" ELSE "arguments"

ReadSoFar(list, n, last, h, q, a, V) ==
    LET v   == Walk(list)[n]
        p   == Reader(list)[Kept(list, n)]
        cmd == Catalog[Meant(list)]
    IN  /\ last \in 0 .. n
        /\ Sorted(list, cmd, v.path, last, h, q, a, V)
        /\ \A i \in Elements(q) : NeedsNext(cmd, list[i]) => i + 1 \in V \/ (i = n /\ p.at = "value")
        /\ p = Parsed(p.at, [k \in 1 .. Len(q) |-> Given(cmd, list[q[k]], q[k], q[k] + 1)],
                      Own(cmd, list, last, n, a), Passed(cmd, list, last, n, a))
        /\ a # <<>> => v.path = Meant(list) /\ ~Extends(list, v.path, a[1])
        /\ \/ last = n /\ Open(list, cmd, n, v, p, q, a)
           \/ Shut(list, cmd, last, n, v, p, a)
           \/ Ended(cmd, last, n, v, p, a)

\* Positions up to the next.
LEMMA UptoOneMore ==
    ASSUME NEW m \in Nat, NEW n \in Nat, m <= n + 1
    PROVE  Upto(m, n + 1) = Append(Upto(m, n), n + 1)
<1>. DEFINE s == Upto(m, n)
            t == Upto(m, n + 1)
<1>1. s \in Seq(Nat) /\ Len(s) = n + 1 - m /\ \A k \in 1 .. Len(s) : s[k] = m + k - 1
  BY DEF Upto
<1>2. t \in Seq(Nat) /\ Len(t) = n + 2 - m /\ \A k \in 1 .. Len(t) : t[k] = m + k - 1
  BY DEF Upto
<1>. HIDE DEF s, t
<1>3. /\ Append(s, n + 1) \in Seq(Nat) /\ Len(Append(s, n + 1)) = n + 2 - m
      /\ \A k \in 1 .. Len(s) : Append(s, n + 1)[k] = s[k]
      /\ Append(s, n + 1)[Len(s) + 1] = n + 1
  BY <1>1
<1>4. \A k \in 1 .. Len(t) : Append(s, n + 1)[k] = t[k]
  <2>. TAKE k \in 1 .. Len(t)
  <2>1. CASE k \in 1 .. Len(s)
    BY <1>1, <1>2, <1>3, <2>1
  <2>2. CASE k = Len(s) + 1
    BY <1>1, <1>2, <1>3, <2>2
  <2>. QED
    BY <1>1, <1>2, <2>1, <2>2
<1>5. Len(Append(s, n + 1)) = Len(t)
  BY <1>2, <1>3
<1>6. t = Append(s, n + 1)
  BY <1>2, <1>3, <1>4, <1>5, SeqEqual
<1>. QED
  BY <1>6 DEF s, t

\* Positions up to one before the first.
LEMMA UptoNone ==
    ASSUME NEW m \in Nat, NEW n \in Nat, n < m
    PROVE  Upto(m, n) = <<>>
<1>1. 1 .. n + 1 - m = {}
  OBVIOUS
<1>. QED
  BY <1>1 DEF Upto

\* One more token behind the last: it is kept, unless it is the "--" that comes first.
LEMMA AfterOneMore ==
    ASSUME NEW list, NEW last \in Nat, NEW n \in Nat, last <= n
    PROVE  /\ After(list, last, last) = <<>>
           /\ After(list, last, n) \in Seq(Nat)
           /\ last = n /\ list[n + 1] = DashDash => After(list, last, n + 1) = <<>>
           /\ last < n \/ list[n + 1] # DashDash =>
                After(list, last, n + 1) = Append(After(list, last, n), n + 1)
<1>1. After(list, last, last) = <<>>
  BY UptoNone DEF After
<1>2. After(list, last, n) \in Seq(Nat)
  BY DEF After, Upto
<1>3. ASSUME last = n, list[n + 1] = DashDash PROVE After(list, last, n + 1) = <<>>
  <2>1. After(list, last, n + 1) = Upto(n + 2, n + 1)
    BY <1>3 DEF After
  <2>. QED
    BY <2>1, UptoNone
<1>4. ASSUME last < n PROVE After(list, last, n + 1) = Append(After(list, last, n), n + 1)
  <2>. DEFINE m == IF list[last + 1] = DashDash THEN last + 2 ELSE last + 1
  <2>1. After(list, last, n + 1) = Upto(m, n + 1) /\ After(list, last, n) = Upto(m, n)
    BY <1>4 DEF After
  <2>2. m \in Nat /\ m <= n + 1
    BY <1>4
  <2>. QED
    BY <2>1, <2>2, UptoOneMore
<1>5. ASSUME last = n, list[n + 1] # DashDash PROVE After(list, last, n + 1) = Append(After(list, last, n), n + 1)
  <2>1. After(list, last, n + 1) = Upto(n + 1, n + 1) /\ After(list, last, n) = Upto(n + 1, n)
    BY <1>5 DEF After
  <2>. QED
    BY <2>1, UptoOneMore
<1>. QED
  BY <1>1, <1>2, <1>3, <1>4, <1>5

\* A "--" that comes first after the flags is not among what is left.
LEMMA AfterDashFirst ==
    ASSUME NEW list, NEW n \in Nat, list[n + 1] = DashDash
    PROVE  After(list, n, n + 1) = <<>>
<1>1. n <= n
  OBVIOUS
<1>. QED
  BY <1>1, AfterOneMore

\* Anything else is.
LEMMA AfterAnother ==
    ASSUME NEW list, NEW last \in Nat, NEW n \in Nat, last <= n,
           ~(last = n /\ list[n + 1] = DashDash)
    PROVE  After(list, last, n) \in Seq(Nat) /\ After(list, last, n + 1) = Append(After(list, last, n), n + 1)
<1>1. last < n \/ list[n + 1] # DashDash
  OBVIOUS
<1>. QED
  BY <1>1, AfterOneMore

\* Appending to the second of two sequences.
LEMMA ConcatAppend ==
    ASSUME NEW a \in Seq(Nat), NEW s \in Seq(Nat), NEW x \in Nat
    PROVE  Append(a \o s, x) = a \o Append(s, x)
<1>1. a \o s \in Seq(Nat) /\ <<x>> \in Seq(Nat)
  OBVIOUS
<1>2. Append(a \o s, x) = (a \o s) \o <<x>> /\ Append(s, x) = s \o <<x>>
  BY <1>1, AppendIsConcat
<1>3. (a \o s) \o <<x>> = a \o (s \o <<x>>)
  BY <1>1, ConcatAssociative
<1>. QED
  BY <1>2, <1>3

\* Up to the last token read for flags, a command has its plain arguments and forwards nothing.
LEMMA OwnAtLast ==
    ASSUME NEW cmd, NEW list, NEW last \in Nat, NEW a, Ascends(a)
    PROVE  Own(cmd, list, last, last, a) = a /\ Passed(cmd, list, last, last, a) = <<>>
<1>1. After(list, last, last) = <<>>
  BY AfterOneMore
<1>2. a \o <<>> = a
  BY DEF Ascends
<1>. QED
  BY <1>1, <1>2 DEF Own, Passed

\* One more flag gives one more value.
LEMMA GivenAppend ==
    ASSUME NEW list, NEW cmd, NEW q, Ascends(q), NEW g, Ascends(g), NEW i,
           Len(g) = Len(q) + 1, g[Len(q) + 1] = i, \A k \in 1 .. Len(q) : g[k] = q[k]
    PROVE  [k \in 1 .. Len(g) |-> Given(cmd, list[g[k]], g[k], g[k] + 1)] =
             Append([k \in 1 .. Len(q) |-> Given(cmd, list[q[k]], q[k], q[k] + 1)],
                    Given(cmd, list[i], i, i + 1))
<1>. DEFINE G(j) == Given(cmd, list[j], j, j + 1)
            T == {G(g[k]) : k \in 1 .. Len(g)}
            s == [k \in 1 .. Len(q) |-> G(q[k])]
            t == [k \in 1 .. Len(g) |-> G(g[k])]
<1>. HIDE DEF G
<1>1. Len(q) \in Nat /\ Len(g) \in Nat
  BY DEF Ascends
<1>2. t \in Seq(T) /\ Len(t) = Len(q) + 1 /\ \A k \in 1 .. Len(g) : t[k] = G(g[k])
  BY <1>1
<1>3. s \in Seq(T) /\ Len(s) = Len(q) /\ \A k \in 1 .. Len(q) : s[k] = G(q[k])
  <2>1. \A k \in 1 .. Len(q) : k \in 1 .. Len(g) /\ G(q[k]) = G(g[k])
    BY <1>1
  <2>2. \A k \in 1 .. Len(q) : G(q[k]) \in T
    BY <2>1
  <2>. HIDE DEF T
  <2>. QED
    BY <1>1, <2>2
<1>4. G(i) \in T
  BY <1>1
<1>. HIDE DEF s, t, T
<1>5. /\ Append(s, G(i)) \in Seq(T) /\ Len(Append(s, G(i))) = Len(s) + 1
      /\ \A k \in 1 .. Len(s) : Append(s, G(i))[k] = s[k]
      /\ Append(s, G(i))[Len(s) + 1] = G(i)
  BY <1>3, <1>4, AppendProperties
<1>6. \A k \in 1 .. Len(t) : Append(s, G(i))[k] = t[k]
  <2>. TAKE k \in 1 .. Len(t)
  <2>1. CASE k \in 1 .. Len(q)
    BY <1>1, <1>2, <1>3, <1>5, <2>1
  <2>2. CASE k = Len(q) + 1
    <3>1. g[k] = i
      BY <2>2
    <3>2. t[k] = G(g[k])
      BY <1>1, <1>2, <2>2
    <3>3. Append(s, G(i))[k] = G(i)
      BY <1>3, <1>5, <2>2
    <3>. QED
      BY <3>1, <3>2, <3>3
  <2>3. k \in 1 .. Len(q) \/ k = Len(q) + 1
    <3>1. Len(t) = Len(q) + 1
      BY <1>2
    <3>. QED
      BY <1>1, <3>1
  <2>. QED
    BY <2>1, <2>2, <2>3
<1>7. t = Append(s, G(i))
  BY <1>2, <1>3, <1>5, <1>6, SeqEqual
<1>. QED
  BY <1>7 DEF s, t, G

\* A reading of the first tokens goes on to one of the first tokens and one more.
LEMMA ReadOn ==
    ASSUME NEW list, IsList(list), Survives(list), NEW n \in 0 .. Len(list) - 1,
           NEW last, NEW h, NEW q, NEW a, NEW V, ReadSoFar(list, n, last, h, q, a, V)
    PROVE  \E l, g, c, b, U : ReadSoFar(list, n + 1, l, g, c, b, U)
<1>. DEFINE i == n + 1
            v == Walk(list)[n]
            w == Walk(list)[i]
            p == Reader(list)[Kept(list, n)]
            r == Reader(list)[Kept(list, i)]
            cmd == Catalog[Meant(list)]
            flags == [k \in 1 .. Len(q) |-> Given(cmd, list[q[k]], q[k], q[k] + 1)]
<1>0. /\ Len(list) \in Nat /\ n \in Nat /\ i \in 1 .. Len(list) /\ i - 1 = n /\ i = n + 1
      /\ n \in 0 .. Len(list) /\ i \in 0 .. Len(list) /\ i \in Nat
  BY LeftTypes
<1>1. /\ last \in 0 .. n
      /\ Sorted(list, cmd, v.path, last, h, q, a, V)
      /\ \A j \in Elements(q) : NeedsNext(cmd, list[j]) => j + 1 \in V \/ (j = n /\ p.at = "value")
      /\ p = Parsed(p.at, flags, Own(cmd, list, last, n, a), Passed(cmd, list, last, n, a))
      /\ a # <<>> => v.path = Meant(list) /\ ~Extends(list, v.path, a[1])
      /\ \/ last = n /\ Open(list, cmd, n, v, p, q, a)
         \/ Shut(list, cmd, last, n, v, p, a)
         \/ Ended(cmd, last, n, v, p, a)
  BY DEF ReadSoFar
<1>2. /\ v.at \in {"command", "value", "rest"} /\ v.path \in Seq(STRING)
      /\ w.at \in {"command", "value", "rest"}
      /\ w.at = "rest" => w.path = Meant(list)
      /\ r.at # "refused"
  <2>1. v.at \in {"command", "value", "rest", "refused"} /\ v.path \in Seq(STRING)
    BY <1>0, WalkTypes DEF WalkTyped
  <2>2. w.at \in {"command", "value", "rest", "refused"}
    BY <1>0, WalkTypes DEF WalkTyped
  <2>. HIDE DEF i
  <2>3. v.at # "refused"
    BY <1>0, OnTheWay
  <2>4. w.at # "refused" /\ r.at # "refused" /\ (w.at = "rest" => w.path = Meant(list))
    BY <1>0, OnTheWay
  <2>. HIDE DEF v, w, r
  <2>. QED
    BY <2>1, <2>2, <2>3, <2>4
<1>3. \/ /\ v.at = "command" /\ Extends(list, v.path, i)
         /\ w = Found("command", Append(v.path, list[i].text[1]), v.rest)
         /\ r = p /\ Kept(list, i) = Kept(list, i - 1)
      \/ \E final, j :
           /\ ~(v.at = "command" /\ Extends(list, v.path, i))
           /\ w = Found(w.at, v.path, Append(v.rest, i))
           /\ v.at = "rest" => w.at = "rest"
           /\ v.at = "value" => w.at = "command"
           /\ v.at = "command" /\ ~IsFlag(list[i]) => w.at = "rest"
           /\ v.at = "command" /\ IsFlag(list[i]) /\ Known(cmd, list[i]) =>
                w.at = IF NeedsNext(cmd, list[i]) THEN "value" ELSE "command"
           /\ ParseMoves(cmd, list[i], i, final, j, p, r)
           /\ Kept(list, i) \in 1 .. Len(Left(list))
           /\ final <=> Kept(list, i) = Len(Left(list))
           /\ w.at \in {"value", "rest"} /\ ~final => j = i + 1
  <2>1. v = Walk(list)[i - 1] /\ w = Walk(list)[i] /\ p = Reader(list)[Kept(list, i - 1)]
        /\ r = Reader(list)[Kept(list, i)] /\ cmd = Catalog[Meant(list)]
    BY <1>0
  <2>. HIDE DEF i, v, w, p, r, cmd
  <2>. QED
    BY SMTT(40), <1>0, <2>1, NextToken
<1>4. Ascends(a) /\ Ascends(q) /\ Len(q) \in Nat /\ Elements(q) \subseteq 1 .. last /\ Elements(a) \subseteq 1 .. last
  <2>. HIDE DEF v, cmd
  <2>1. Ascends(a) /\ Ascends(q) /\ 1 .. last = Elements(h) \cup Elements(q) \cup Elements(a) \cup V
    BY <1>1 DEF Sorted
  <2>. QED
    BY <2>1 DEF Ascends
<1>. HIDE DEF i, v, w, p, r, cmd, flags
<1>. DEFINE Goal(l, g, c, b, U) ==
              /\ l \in 0 .. i
              /\ Sorted(list, cmd, w.path, l, g, c, b, U)
              /\ \A j \in Elements(c) : NeedsNext(cmd, list[j]) => j + 1 \in U \/ (j = i /\ r.at = "value")
              /\ r = Parsed(r.at, [k \in 1 .. Len(c) |-> Given(cmd, list[c[k]], c[k], c[k] + 1)],
                            Own(cmd, list, l, i, b), Passed(cmd, list, l, i, b))
              /\ b # <<>> => w.path = Meant(list) /\ ~Extends(list, w.path, b[1])
              /\ \/ l = i /\ Open(list, cmd, i, w, r, c, b)
                 \/ Shut(list, cmd, l, i, w, r, b)
                 \/ Ended(cmd, l, i, w, r, b)
<1>5. SUFFICES \E l, g, c, b, U : Goal(l, g, c, b, U)
  BY <1>0 DEF ReadSoFar, i, w, r, cmd
<1>6. /\ Own(cmd, list, i, i, a) = a /\ Passed(cmd, list, i, i, a) = <<>>
      /\ last = n => Own(cmd, list, last, n, a) = a /\ Passed(cmd, list, last, n, a) = <<>>
  BY <1>0, <1>4, OwnAtLast
<1>7. CASE last = n /\ Open(list, cmd, n, v, p, q, a) /\ p.at = "value"
  <2>1. v.at \in {"value", "rest"} /\ n \in Elements(q) /\ NeedsNext(cmd, list[n]) /\ (cmd.stops => a = <<>>)
        /\ (a = <<>> <=> v.at # "rest")
    BY <1>2, <1>7 DEF Open
  <2>2. PICK final, j : /\ w = Found(w.at, v.path, Append(v.rest, i))
                        /\ v.at = "rest" => w.at = "rest"
                        /\ v.at = "value" => w.at = "command"
                        /\ ParseMoves(cmd, list[i], i, final, j, p, r)
    BY <1>3, <2>1
  <2>3. w.path = v.path
    BY <2>2 DEF Found
  <2>4. r = Parsed("tokens", flags, a, <<>>)
    <3>1. r = Parsed("tokens", p.flags, p.arguments, p.opaque)
      BY <1>7, <2>2 DEF ParseMoves
    <3>2. p.flags = flags /\ p.arguments = a /\ p.opaque = <<>>
      BY <1>1, <1>6, <1>7 DEF Parsed
    <3>. QED
      BY <3>1, <3>2
  <2>5. r.at = "tokens"
    BY <2>4 DEF Parsed
  <2>6. Sorted(list, cmd, w.path, i, h, q, a, V \cup {i})
    BY <1>0, <1>1, <1>7, <2>1, <2>3, SortedValue
  <2>7. \A k \in Elements(q) : NeedsNext(cmd, list[k]) => k + 1 \in V \cup {i}
    BY <1>0, <1>1
  <2>8. Open(list, cmd, i, w, r, q, a)
    BY <2>1, <2>2, <2>5 DEF Open
  <2>9. a # <<>> => w.path = Meant(list) /\ ~Extends(list, w.path, a[1])
    BY <1>1, <2>3
  <2>10. Goal(i, h, q, a, V \cup {i})
    BY <1>0, <1>6, <2>4, <2>5, <2>6, <2>7, <2>8, <2>9 DEF flags
  <2>. QED
    BY <2>10
<1>8. CASE last = n /\ Open(list, cmd, n, v, p, q, a) /\ p.at = "tokens" /\ v.at = "command" /\ Extends(list, v.path, i)
  <2>1. a = <<>> /\ v.at # "rest"
    BY <1>8 DEF Open
  <2>. DEFINE x == list[i].text[1]
  <2>2. w = Found("command", Append(v.path, x), v.rest) /\ r = p
    BY <1>3, <1>8
  <2>3. w.path = Append(v.path, x) /\ w.at = "command"
    BY <2>2 DEF Found
  <2>4. x \in STRING /\ list[i] = Word(<<x>>)
    BY <1>0, <1>2, <1>8, ExtendsBy
  <2>. HIDE DEF x
  <2>5. Sorted(list, cmd, w.path, i, Append(h, i), q, a, V)
    BY <1>0, <1>1, <1>2, <1>8, <2>1, <2>3, <2>4, SortedHead
  <2>6. r.at = "tokens" /\ r = Parsed(r.at, flags, a, <<>>)
    BY <1>1, <1>6, <1>8, <2>2
  <2>7. Open(list, cmd, i, w, r, q, a)
    BY <2>1, <2>3, <2>6 DEF Open
  <2>8. \A k \in Elements(q) : NeedsNext(cmd, list[k]) => k + 1 \in V
    BY <1>1, <1>8
  <2>9. Goal(i, Append(h, i), q, a, V)
    BY <1>0, <1>6, <2>1, <2>5, <2>6, <2>7, <2>8 DEF flags
  <2>. QED
    BY <2>9
<1>9. CASE last = n /\ Open(list, cmd, n, v, p, q, a) /\ p.at = "tokens"
           /\ ~(v.at = "command" /\ Extends(list, v.path, i))
  <2>1. v.at \in {"command", "rest"} /\ (a = <<>> <=> v.at # "rest") /\ (cmd.stops => a = <<>>)
    BY <1>2, <1>9 DEF Open
  <2>2. PICK final, j : /\ w = Found(w.at, v.path, Append(v.rest, i))
                        /\ v.at = "rest" => w.at = "rest"
                        /\ v.at = "command" /\ ~IsFlag(list[i]) => w.at = "rest"
                        /\ v.at = "command" /\ IsFlag(list[i]) /\ Known(cmd, list[i]) =>
                             w.at = IF NeedsNext(cmd, list[i]) THEN "value" ELSE "command"
                        /\ ParseMoves(cmd, list[i], i, final, j, p, r)
                        /\ final <=> Kept(list, i) = Len(Left(list))
                        /\ w.at \in {"value", "rest"} /\ ~final => j = i + 1
    BY <1>3, <1>9
  <2>3. w.path = v.path
    BY <2>2 DEF Found
  <2>4. p.flags = flags /\ p.arguments = a /\ p.opaque = <<>>
    BY <1>1, <1>6, <1>9 DEF Parsed
  <2>5. \A k \in Elements(q) : NeedsNext(cmd, list[k]) => k + 1 \in V
    BY <1>1, <1>9
  <2>6. Sorted(list, cmd, w.path, n, h, q, a, V)
    BY <1>1, <1>9, <2>3
  <2>7. a # <<>> => w.path = Meant(list) /\ ~Extends(list, w.path, a[1])
    BY <1>1, <2>3
  <2>8. CASE IsFlag(list[i])
    <3>1. Known(cmd, list[i]) /\ ~(NeedsNext(cmd, list[i]) /\ final)
      <4>1. ~Known(cmd, list[i]) \/ (NeedsNext(cmd, list[i]) /\ final) =>
              r = Parsed("refused", p.flags, p.arguments, p.opaque)
        BY <1>9, <2>2, <2>8 DEF ParseMoves
      <4>. QED
        BY <1>2, <4>1 DEF Parsed
    <3>2. w.at = "rest" <=> v.at = "rest"
      BY <2>1, <2>2, <2>8, <3>1
    <3>. DEFINE g == Append(q, i)
                more == [k \in 1 .. Len(g) |-> Given(cmd, list[g[k]], g[k], g[k] + 1)]
    <3>3. /\ Ascends(g) /\ Elements(g) = Elements(q) \cup {i} /\ Len(g) = Len(q) + 1
          /\ g[Len(q) + 1] = i /\ \A k \in 1 .. Len(q) : g[k] = q[k]
      BY <1>0, <1>4, <1>9, OneMore
    <3>4. more = Append(flags, Given(cmd, list[i], i, i + 1))
      <4>. HIDE DEF g
      <4>. QED
        BY <1>4, <3>3, GivenAppend DEF flags
    <3>5. Sorted(list, cmd, w.path, i, h, g, a, V)
      BY <1>0, <2>6, <2>8, <3>1, SortedFlag
    <3>. HIDE DEF g, more
    <3>6. CASE NeedsNext(cmd, list[i])
      <4>1. w.at \in {"value", "rest"} /\ j = i + 1 /\ ~final
        BY <2>1, <2>2, <2>8, <3>1, <3>6
      <4>2. r = Parsed("value", Append(p.flags, Given(cmd, list[i], i, j)), p.arguments, p.opaque)
        BY <1>9, <2>2, <2>8, <3>1, <3>6, <4>1 DEF ParseMoves
      <4>3. r = Parsed("value", more, a, <<>>)
        BY <2>4, <3>4, <4>1, <4>2
      <4>4. r.at = "value"
        BY <4>3 DEF Parsed
      <4>5. Open(list, cmd, i, w, r, g, a)
        BY <2>1, <2>2, <3>2, <3>3, <3>6, <4>1, <4>4 DEF Open
      <4>6. \A k \in Elements(g) : NeedsNext(cmd, list[k]) => k + 1 \in V \/ (k = i /\ r.at = "value")
        BY <2>5, <3>3, <4>4
      <4>7. Goal(i, h, g, a, V)
        BY <1>0, <1>6, <2>7, <3>5, <4>3, <4>4, <4>5, <4>6 DEF more
      <4>. QED
        BY <4>7
    <3>7. CASE ~NeedsNext(cmd, list[i])
      <4>1. r = Parsed("tokens", Append(p.flags, Given(cmd, list[i], i, 0)), p.arguments, p.opaque)
        BY <1>9, <2>2, <2>8, <3>1, <3>7 DEF ParseMoves
      <4>2. Given(cmd, list[i], i, 0) = Given(cmd, list[i], i, i + 1)
        <5>1. IsToken(list[i])
          BY <1>0 DEF IsList
        <5>. QED
          BY <2>8, <3>7, <5>1, GivenAlone
      <4>3. r = Parsed("tokens", more, a, <<>>)
        BY <2>4, <3>4, <4>1, <4>2
      <4>4. r.at = "tokens"
        BY <4>3 DEF Parsed
      <4>5. w.at # "value"
        BY <2>1, <2>2, <2>8, <3>1, <3>7
      <4>6. Open(list, cmd, i, w, r, g, a)
        BY <2>1, <3>2, <4>4, <4>5 DEF Open
      <4>7. \A k \in Elements(g) : NeedsNext(cmd, list[k]) => k + 1 \in V \/ (k = i /\ r.at = "value")
        BY <2>5, <3>3, <3>7
      <4>8. Goal(i, h, g, a, V)
        BY <1>0, <1>6, <2>7, <3>5, <4>3, <4>4, <4>6, <4>7 DEF more
      <4>. QED
        BY <4>8
    <3>. QED
      BY <3>6, <3>7
  <2>9. CASE list[i] = DashDash
    <3>1. ~IsFlag(list[i])
      BY <2>9 DEF IsFlag, DashDash, Token
    <3>2. w.at = "rest"
      BY <2>1, <2>2, <3>1
    <3>3. r = Parsed(AfterDashes(cmd), flags, a, <<>>)
      BY <1>9, <2>2, <2>4, <2>9 DEF ParseMoves
    <3>4. r.at = AfterDashes(cmd)
      BY <3>3 DEF Parsed
    <3>5. After(list, n, i) = <<>>
      <4>1. list[n + 1] = DashDash
        BY <1>0, <2>9
      <4>2. After(list, n, n + 1) = <<>>
        BY <1>0, <4>1, AfterDashFirst
      <4>. QED
        BY <1>0, <4>2
    <3>6. Own(cmd, list, n, i, a) = a /\ Passed(cmd, list, n, i, a) = <<>>
      <4>1. a \o <<>> = a
        BY <1>4 DEF Ascends
      <4>. QED
        BY <3>5, <4>1 DEF Own, Passed
    <3>7. Shut(list, cmd, n, i, w, r, a)
      BY <1>0, <2>1, <2>9, <3>2, <3>4 DEF Shut
    <3>8. Goal(n, h, q, a, V)
      BY <1>0, <2>5, <2>6, <2>7, <3>3, <3>4, <3>6, <3>7 DEF flags
    <3>. QED
      BY <3>8
  <2>10. CASE ~IsFlag(list[i]) /\ list[i] # DashDash
    <3>1. w.at = "rest" /\ w.path = Meant(list)
      BY <1>2, <2>1, <2>2, <2>10
    <3>. DEFINE b == Append(a, i)
    <3>2. r = Parsed(IF cmd.stops THEN "first of arguments" ELSE "tokens", flags, b, <<>>)
      BY <1>9, <2>2, <2>4, <2>10 DEF ParseMoves
    <3>3. r.at = IF cmd.stops THEN "first of arguments" ELSE "tokens"
      BY <3>2 DEF Parsed
    <3>4. Ascends(b) /\ b # <<>> /\ (a = <<>> => b = <<i>> /\ b[1] = i) /\ (a # <<>> => b[1] = a[1])
      <4>1. Ascends(b)
        BY <1>0, <1>4, <1>9, OneMore
      <4>2. a \in Seq(Nat)
        BY <1>4 DEF Ascends
      <4>3. b \in Seq(Nat) /\ Len(b) = Len(a) + 1 /\ b[Len(a) + 1] = i /\ \A k \in 1 .. Len(a) : b[k] = a[k]
        BY <1>0, <4>2
      <4>4. b # <<>>
        BY <1>0, <4>2
      <4>5. a = <<>> => b = <<i>> /\ b[1] = i
        BY <1>0, <4>2
      <4>6. a # <<>> => 1 \in 1 .. Len(a)
        BY <4>2
      <4>. HIDE DEF b
      <4>. QED
        BY <4>1, <4>3, <4>4, <4>5, <4>6
    <3>5. Sorted(list, cmd, w.path, i, h, q, b, V)
      BY <1>0, <2>6, <2>10, SortedArgument
    <3>. HIDE DEF b
    <3>6. Own(cmd, list, i, i, b) = b /\ Passed(cmd, list, i, i, b) = <<>>
      BY <1>0, <3>4, OwnAtLast
    <3>7. ~Extends(list, w.path, b[1])
      BY <1>9, <2>1, <2>3, <2>7, <3>4
    <3>8. CASE cmd.stops
      <4>1. Ended(cmd, i, i, w, r, b)
        BY <2>1, <3>1, <3>3, <3>4, <3>8 DEF Ended
      <4>2. r = Parsed(r.at, flags, b, <<>>)
        BY <3>2, <3>3
      <4>3. \A k \in Elements(q) : NeedsNext(cmd, list[k]) => k + 1 \in V \/ (k = i /\ r.at = "value")
        BY <2>5
      <4>4. i \in 0 .. i
        BY <1>0
      <4>5. Goal(i, h, q, b, V)
        BY <3>1, <3>5, <3>6, <3>7, <4>1, <4>2, <4>3, <4>4 DEF flags
      <4>. QED
        BY <4>5
    <3>9. CASE ~cmd.stops
      <4>1. Open(list, cmd, i, w, r, q, b)
        BY <3>1, <3>3, <3>4, <3>9 DEF Open
      <4>2. r = Parsed(r.at, flags, b, <<>>)
        BY <3>2, <3>3
      <4>3. \A k \in Elements(q) : NeedsNext(cmd, list[k]) => k + 1 \in V \/ (k = i /\ r.at = "value")
        BY <2>5
      <4>4. i \in 0 .. i
        BY <1>0
      <4>5. Goal(i, h, q, b, V)
        BY <3>1, <3>5, <3>6, <3>7, <4>1, <4>2, <4>3, <4>4 DEF flags
      <4>. QED
        BY <4>5
    <3>. QED
      BY <3>8, <3>9
  <2>. QED
    BY <2>8, <2>9, <2>10
<1>10. CASE Shut(list, cmd, last, n, v, p, a)
  <2>1. /\ last < n /\ list[last + 1] = DashDash
        /\ v.at = "rest" /\ (cmd.stops => a = <<>>)
        /\ p.at = AfterDashes(cmd)
    BY <1>10 DEF Shut
  <2>2. PICK final, j : /\ w = Found(w.at, v.path, Append(v.rest, i))
                        /\ v.at = "rest" => w.at = "rest"
                        /\ ParseMoves(cmd, list[i], i, final, j, p, r)
    BY <1>3, <2>1
  <2>3. w.path = v.path
    BY <2>2 DEF Found
  <2>. DEFINE s == After(list, last, n)
              t == After(list, last, i)
  <2>4. s \in Seq(Nat) /\ t = Append(s, i)
    <3>1. last \in Nat /\ last <= n /\ last # n
      BY <1>0, <1>1, <2>1
    <3>2. s \in Seq(Nat) /\ After(list, last, n + 1) = Append(s, n + 1)
      BY <1>0, <3>1, AfterAnother
    <3>. QED
      BY <1>0, <3>2
  <2>. HIDE DEF s, t
  <2>5. Passes(cmd, a) <=> cmd.passThrough
    BY <2>1 DEF Passes
  <2>6. /\ Own(cmd, list, last, n, a) = a \o (IF Passes(cmd, a) THEN <<>> ELSE s)
        /\ Own(cmd, list, last, i, a) = a \o (IF Passes(cmd, a) THEN <<>> ELSE t)
        /\ Passed(cmd, list, last, n, a) = IF Passes(cmd, a) THEN s ELSE <<>>
        /\ Passed(cmd, list, last, i, a) = IF Passes(cmd, a) THEN t ELSE <<>>
    BY DEF Own, Passed, s, t
  <2>7. p.flags = flags /\ p.arguments = Own(cmd, list, last, n, a) /\ p.opaque = Passed(cmd, list, last, n, a)
    BY <1>1 DEF Parsed
  <2>8. r = Parsed(AfterDashes(cmd), flags, Own(cmd, list, last, i, a), Passed(cmd, list, last, i, a))
    <3>1. CASE cmd.passThrough
      <4>1. p.at = "opaque" /\ AfterDashes(cmd) = "opaque"
        BY <2>1, <3>1 DEF AfterDashes
      <4>2. r = Parsed("opaque", p.flags, p.arguments, Append(p.opaque, i))
        BY <2>2, <4>1 DEF ParseMoves
      <4>. QED
        BY <2>4, <2>5, <2>6, <2>7, <3>1, <4>1, <4>2
    <3>2. CASE ~cmd.passThrough
      <4>1. p.at = "arguments" /\ AfterDashes(cmd) = "arguments"
        BY <2>1, <3>2 DEF AfterDashes
      <4>2. r = Parsed("arguments", p.flags, Append(p.arguments, i), p.opaque)
        BY <2>2, <4>1 DEF ParseMoves
      <4>3. Append(a \o s, i) = a \o Append(s, i)
        <5>1. a \in Seq(Nat) /\ s \in Seq(Nat)
          BY <1>4, <2>4 DEF Ascends
        <5>2. i \in Nat
          BY <1>0
        <5>. QED
          BY <5>1, <5>2, ConcatAppend
      <4>4. Append(p.arguments, i) = Own(cmd, list, last, i, a) /\ p.opaque = Passed(cmd, list, last, i, a)
        BY <2>4, <2>5, <2>6, <2>7, <3>2, <4>3
      <4>. QED
        BY <2>7, <4>1, <4>2, <4>4
    <3>. QED
      BY <3>1, <3>2
  <2>9. r.at = AfterDashes(cmd)
    BY <2>8 DEF Parsed
  <2>10. Shut(list, cmd, last, i, w, r, a)
    BY <1>0, <1>1, <2>1, <2>2, <2>9 DEF Shut
  <2>11. p.at # "value"
    BY <2>1 DEF AfterDashes
  <2>12. last \in 0 .. i
    BY <1>0, <1>1
  <2>13. r = Parsed(r.at, flags, Own(cmd, list, last, i, a), Passed(cmd, list, last, i, a))
    BY <2>8, <2>9
  <2>14. Goal(last, h, q, a, V)
    BY <1>1, <2>3, <2>10, <2>11, <2>12, <2>13 DEF flags
  <2>. QED
    BY <2>14
<1>11. CASE Ended(cmd, last, n, v, p, a)
  <2>1. /\ cmd.stops /\ a = <<last>> /\ v.at = "rest"
        /\ p.at = IF n = last THEN "first of arguments" ELSE "arguments"
    BY <1>11 DEF Ended
  <2>2. PICK final, j : /\ w = Found(w.at, v.path, Append(v.rest, i))
                        /\ v.at = "rest" => w.at = "rest"
                        /\ ParseMoves(cmd, list[i], i, final, j, p, r)
    BY <1>3, <2>1
  <2>3. w.path = v.path
    BY <2>2 DEF Found
  <2>. DEFINE s == After(list, last, n)
              t == After(list, last, i)
  <2>4. /\ s \in Seq(Nat)
        /\ n = last => s = <<>>
        /\ n = last /\ list[i] = DashDash => t = <<>>
        /\ ~(n = last /\ list[i] = DashDash) => t = Append(s, i)
    <3>1. last \in Nat /\ last <= n
      BY <1>0, <1>1
    <3>2. s \in Seq(Nat) /\ After(list, last, last) = <<>>
      BY <1>0, <3>1, AfterOneMore
    <3>3. ASSUME n = last, list[i] = DashDash PROVE t = <<>>
      <4>1. list[n + 1] = DashDash
        BY <1>0, <3>3
      <4>2. After(list, n, n + 1) = <<>>
        BY <1>0, <4>1, AfterDashFirst
      <4>. QED
        BY <1>0, <3>3, <4>2
    <3>4. ASSUME ~(n = last /\ list[i] = DashDash) PROVE t = Append(s, i)
      <4>1. ~(last = n /\ list[n + 1] = DashDash)
        BY <1>0, <3>4
      <4>2. After(list, last, n + 1) = Append(s, n + 1)
        BY <1>0, <3>1, <4>1, AfterAnother
      <4>. QED
        BY <1>0, <4>2
    <3>. QED
      BY <3>2, <3>3, <3>4
  <2>. HIDE DEF s, t
  <2>5. a # <<>>
    BY <2>1
  <2>6. ~Passes(cmd, a)
    BY <2>1, <2>5 DEF Passes
  <2>7. /\ Own(cmd, list, last, n, a) = a \o s /\ Passed(cmd, list, last, n, a) = <<>>
        /\ Own(cmd, list, last, i, a) = a \o t /\ Passed(cmd, list, last, i, a) = <<>>
    BY <2>6 DEF Own, Passed, s, t
  <2>8. p.flags = flags /\ p.arguments = a \o s /\ p.opaque = <<>>
    BY <1>1, <2>7 DEF Parsed
  <2>9. r = Parsed("arguments", flags, a \o t, <<>>)
    <3>1. CASE n = last /\ list[i] = DashDash
      <4>1. r = Parsed("arguments", p.flags, p.arguments, p.opaque)
        BY <2>1, <2>2, <3>1 DEF ParseMoves
      <4>. QED
        BY <2>4, <2>8, <3>1, <4>1
    <3>2. CASE ~(n = last /\ list[i] = DashDash)
      <4>1. r = Parsed("arguments", p.flags, Append(p.arguments, i), p.opaque)
        BY <2>1, <2>2, <3>2 DEF ParseMoves
      <4>2. Append(a \o s, i) = a \o Append(s, i)
        <5>1. a \in Seq(Nat) /\ s \in Seq(Nat)
          BY <1>4, <2>4 DEF Ascends
        <5>2. i \in Nat
          BY <1>0
        <5>. QED
          BY <5>1, <5>2, ConcatAppend
      <4>. QED
        BY <2>4, <2>8, <3>2, <4>1, <4>2
    <3>. QED
      BY <3>1, <3>2
  <2>10. r.at = "arguments"
    BY <2>9 DEF Parsed
  <2>11. last \in 0 .. i /\ i # last
    BY <1>0, <1>1
  <2>12. Ended(cmd, last, i, w, r, a)
    BY <2>1, <2>2, <2>10, <2>11 DEF Ended
  <2>13. p.at # "value"
    BY <2>1
  <2>14. r = Parsed(r.at, flags, Own(cmd, list, last, i, a), Passed(cmd, list, last, i, a))
    BY <2>7, <2>9, <2>10
  <2>15. Goal(last, h, q, a, V)
    BY <1>1, <2>3, <2>11, <2>12, <2>13, <2>14 DEF flags
  <2>. QED
    BY <2>15
<1>12. Open(list, cmd, n, v, p, q, a) => p.at \in {"tokens", "value"}
  BY DEF Open
<1>. QED
  BY <1>1, <1>7, <1>8, <1>9, <1>10, <1>11, <1>12

\* A list that neither loop refuses has been read to its end.
LEMMA ReadAll ==
    ASSUME NEW list, IsList(list), Survives(list)
    PROVE  \E last, h, q, a, V : ReadSoFar(list, Len(list), last, h, q, a, V)
<1>. DEFINE Reads(n) == \E last, h, q, a, V : ReadSoFar(list, n, last, h, q, a, V)
            S == {n \in 0 .. Len(list) : Reads(n)}
<1>0. Len(list) \in Nat
  BY DEF IsList
<1>1. 0 \in S
  <2>. DEFINE cmd == Catalog[Meant(list)]
              v == Walk(list)[0]
              p == Reader(list)[Kept(list, 0)]
  <2>1. v = Found("command", <<>>, <<>>) /\ p = Parsed("tokens", <<>>, <<>>, <<>>)
    BY LeftTypes
  <2>2. v.path = <<>> /\ v.at = "command" /\ p.at = "tokens"
    BY <2>1 DEF Found, Parsed
  <2>. HIDE DEF cmd, v, p
  <2>3. Sorted(list, cmd, v.path, 0, <<>>, <<>>, <<>>, {})
    BY <2>2, SortedNone
  <2>4. Own(cmd, list, 0, 0, <<>>) = <<>> /\ Passed(cmd, list, 0, 0, <<>>) = <<>>
    BY AscendsEmpty, OwnAtLast
  <2>5. Elements(<<>>) = {}
    BY AscendsEmpty
  <2>6. [k \in 1 .. Len(<<>>) |-> Given(cmd, list[<<>>[k]], <<>>[k], <<>>[k] + 1)] = <<>>
    <3>1. 1 .. Len(<<>>) = {}
      OBVIOUS
    <3>. QED
      BY <3>1
  <2>7. Open(list, cmd, 0, v, p, <<>>, <<>>)
    BY <2>2 DEF Open
  <2>8. p = Parsed(p.at, <<>>, <<>>, <<>>)
    BY <2>1, <2>2
  <2>9. ReadSoFar(list, 0, 0, <<>>, <<>>, <<>>, {})
    BY <2>3, <2>4, <2>5, <2>6, <2>7, <2>8 DEF ReadSoFar, cmd, v, p
  <2>. QED
    BY <1>0, <2>9
<1>2. ASSUME NEW n \in 0 .. Len(list) - 1, n \in S PROVE n + 1 \in S
  <2>1. PICK last, h, q, a, V : ReadSoFar(list, n, last, h, q, a, V)
    BY <1>2
  <2>2. \E l, g, c, b, U : ReadSoFar(list, n + 1, l, g, c, b, U)
    BY <2>1, ReadOn
  <2>3. n + 1 \in 0 .. Len(list)
    BY <1>0
  <2>. QED
    BY <2>2, <2>3
<1>. HIDE DEF S
<1>3. \A n \in 0 .. Len(list) : n \in S
  BY <1>0, <1>1, <1>2, UpTo
<1>. QED
  BY <1>0, <1>3 DEF S

\* A reading of all tokens is a reading, and what the parse has is what it says.
LEMMA AllRead ==
    ASSUME NEW list, IsList(list), Survives(list), NEW last, NEW h, NEW q, NEW a, NEW V,
           ReadSoFar(list, Len(list), last, h, q, a, V)
    PROVE  \E r \in Readings(list) :
             LET p == Reader(list)[Len(Left(list))]
             IN  /\ IsReading(list, Meant(list), r)
                 /\ p.flags = FlagsRead(list, Meant(list), r)
                 /\ p.arguments = ArgumentsRead(list, Meant(list), r)
                 /\ p.opaque = OpaqueRead(list, Meant(list), r)
<1>. DEFINE N == Len(list)
            path == Meant(list)
            cmd == Catalog[path]
            v == Walk(list)[N]
            p == Reader(list)[Kept(list, N)]
            r == [values |-> V, last |-> last]
            flags == [k \in 1 .. Len(q) |-> Given(cmd, list[q[k]], q[k], q[k] + 1)]
<1>0. N \in Nat /\ Kept(list, N) = Len(Left(list)) /\ path \in Seq(STRING)
  BY LeftTypes
<1>1. v.path = path
  BY DEF Meant, FindCommand
<1>2. /\ last \in 0 .. N
      /\ Sorted(list, cmd, v.path, last, h, q, a, V)
      /\ \A i \in Elements(q) : NeedsNext(cmd, list[i]) => i + 1 \in V \/ (i = N /\ p.at = "value")
      /\ p = Parsed(p.at, flags, Own(cmd, list, last, N, a), Passed(cmd, list, last, N, a))
      /\ a # <<>> => v.path = path /\ ~Extends(list, v.path, a[1])
      /\ \/ last = N /\ Open(list, cmd, N, v, p, q, a)
         \/ Shut(list, cmd, last, N, v, p, a)
         \/ Ended(cmd, last, N, v, p, a)
  BY DEF ReadSoFar
<1>. HIDE DEF v, p, flags, cmd, path
<1>3. p.at # "value"
  <2>1. Open(list, cmd, N, v, p, q, a) => p.at # "value"
    BY <1>0 DEF Open
  <2>2. Shut(list, cmd, last, N, v, p, a) => p.at # "value"
    BY DEF Shut, AfterDashes
  <2>3. Ended(cmd, last, N, v, p, a) => p.at # "value"
    BY DEF Ended
  <2>. QED
    BY <1>2, <2>1, <2>2, <2>3
<1>4. Sorted(list, cmd, path, last, h, q, a, V)
  BY <1>1, <1>2
<1>5. /\ Ascends(h) /\ Ascends(q) /\ Ascends(a) /\ Below(Elements(h), Elements(a))
      /\ 1 .. last = Elements(h) \cup Elements(q) \cup Elements(a) \cup V
      /\ V \cap (Elements(h) \cup Elements(q) \cup Elements(a)) = {}
      /\ \A i \in V : i - 1 \in Elements(q) /\ NeedsNext(cmd, list[i - 1])
      /\ \A i \in Elements(q) : IsFlag(list[i]) /\ Known(cmd, list[i])
      /\ \A i \in Elements(h) \cup Elements(a) : ~IsFlag(list[i]) /\ list[i] # DashDash
      /\ Len(h) = Len(path) /\ \A j \in 1 .. Len(h) : list[h[j]] = Word(<<path[j]>>)
  BY <1>4 DEF Sorted
<1>6. r \in Readings(list)
  <2>1. ASSUME NEW i \in V PROVE i \in 2 .. N /\ IsFlag(list[i - 1])
    <3>1. i \in 1 .. last /\ i - 1 \in 1 .. last
      BY <1>5
    <3>. QED
      BY <1>0, <1>2, <1>5, <3>1
  <2>2. V \in SUBSET {i \in 2 .. N : IsFlag(list[i - 1])}
    BY <2>1
  <2>. QED
    BY <1>2, <2>2 DEF Readings
<1>7. r.values = V /\ r.last = last
  OBVIOUS
<1>. HIDE DEF r
<1>8. FlagsIn(list, r) = q
  <2>. DEFINE F == {i \in (1 .. last) \ V : IsFlag(list[i])}
  <2>1. F \subseteq Elements(q)
    BY <1>5
  <2>2. Elements(q) \subseteq F
    BY <1>5
  <2>3. F = Elements(q)
    BY <2>1, <2>2
  <2>4. FlagsIn(list, r) = InOrder(F)
    BY <1>7 DEF FlagsIn
  <2>. QED
    BY <1>5, <2>3, <2>4, InOrderIs
<1>9. /\ Ascends(h \o a) /\ Elements(h \o a) = Elements(h) \cup Elements(a)
      /\ Len(h \o a) = Len(h) + Len(a)
      /\ \A k \in 1 .. Len(h) : (h \o a)[k] = h[k]
  BY <1>5, AscendsConcat
<1>10. WordsIn(list, r) = h \o a
  <2>. DEFINE W == {i \in (1 .. last) \ V : ~IsFlag(list[i])}
  <2>1. W \subseteq Elements(h) \cup Elements(a)
    BY <1>5
  <2>2. Elements(h) \cup Elements(a) \subseteq W
    BY <1>5
  <2>3. W = Elements(h \o a)
    BY <1>9, <2>1, <2>2
  <2>4. WordsIn(list, r) = InOrder(W)
    BY <1>7 DEF WordsIn
  <2>. QED
    BY <1>9, <2>3, <2>4, InOrderIs
<1>11. Plain(list, path, r) = a
  <2>1. h \in Seq(Nat) /\ a \in Seq(Nat) /\ Len(h) \in Nat /\ Len(a) \in Nat
    BY <1>5 DEF Ascends
  <2>2. SubSeq(h \o a, Len(h) + 1, Len(h \o a)) = a
    <3>1. SubSeq(h \o a, Len(h) + 1, Len(h) + Len(a)) \in Seq(Nat)
          /\ Len(SubSeq(h \o a, Len(h) + 1, Len(h) + Len(a))) = Len(a)
      BY SMTT(40), <2>1, <1>9
    <3>2. \A k \in 1 .. Len(a) : SubSeq(h \o a, Len(h) + 1, Len(h) + Len(a))[k] = a[k]
      BY <2>1
    <3>. QED
      BY <1>9, <2>1, <3>1, <3>2, SeqEqual
  <2>. QED
    BY <1>5, <1>10, <2>2 DEF Plain
<1>12. AfterLast(list, r) = After(list, last, N)
  BY <1>7 DEF AfterLast, After
<1>13. Stopped(list, path, r) <=> cmd.stops /\ a # <<>>
  BY <1>11 DEF Stopped, cmd
<1>14. Forwards(list, path, r) <=> Passes(cmd, a)
  BY <1>13 DEF Forwards, Passes, cmd
<1>15. Range(FlagsIn(list, r)) = Elements(q) /\ Range(WordsIn(list, r)) = Elements(h \o a)
       /\ DOMAIN q = 1 .. Len(q)
  <2>1. DOMAIN q = 1 .. Len(q) /\ DOMAIN (h \o a) = 1 .. Len(h \o a)
    BY <1>5, <1>9, AscendsType
  <2>. QED
    BY <1>8, <1>10, <2>1 DEF Range, Elements
<1>16. IsReading(list, path, r)
  <2>1. \A i \in Elements(q) : Known(cmd, list[i]) /\ (NeedsNext(cmd, list[i]) => i + 1 \in V)
    BY <1>2, <1>3, <1>5
  <2>2. ASSUME NEW i \in V PROVE i <= last /\ \E j \in Elements(q) : j + 1 = i /\ NeedsNext(cmd, list[j])
    <3>1. i \in 1 .. last /\ i - 1 \in Elements(q) /\ NeedsNext(cmd, list[i - 1])
      BY <1>5
    <3>2. (i - 1) + 1 = i /\ i <= last
      BY <1>2, <3>1
    <3>. QED
      BY <3>1, <3>2
  <2>3. IF cmd.stops /\ a # <<>> THEN a = <<last>> ELSE last < N => list[last + 1] = DashDash
    <3>1. CASE last = N /\ Open(list, cmd, N, v, p, q, a)
      <4>1. cmd.stops => a = <<>>
        BY <3>1 DEF Open
      <4>. QED
        BY <1>0, <3>1, <4>1
    <3>2. CASE Shut(list, cmd, last, N, v, p, a)
      BY <3>2 DEF Shut
    <3>3. CASE Ended(cmd, last, N, v, p, a)
      <4>1. cmd.stops /\ a = <<last>>
        BY <3>3 DEF Ended
      <4>. QED
        BY <4>1
    <3>. QED
      BY <1>2, <3>1, <3>2, <3>3
  <2>4. ASSUME a # <<>> PROVE path \o list[a[1]].text \notin DOMAIN Catalog
    <3>1. 1 \in 1 .. Len(a)
      <4>1. a \in Seq(Nat)
        BY <1>5 DEF Ascends
      <4>. QED
        BY <2>4, <4>1
    <3>2. a[1] \in Elements(a)
      BY <3>1 DEF Elements
    <3>3. a[1] \in 1 .. N /\ ~IsFlag(list[a[1]]) /\ list[a[1]] # DashDash
      BY <1>0, <1>2, <1>5, <3>2
    <3>4. IsToken(list[a[1]])
      BY <3>3 DEF IsList
    <3>5. list[a[1]].kind = "word"
      BY <3>3, <3>4 DEF IsToken, IsFlag
    <3>6. ~Extends(list, path, a[1])
      BY <1>1, <1>2, <2>4
    <3>. QED
      BY <3>5, <3>6 DEF Extends
  <2>5. Len(h \o a) >= Len(path) /\ \A i \in 1 .. Len(path) : list[(h \o a)[i]] = Word(<<path[i]>>)
    <3>1. Len(h) \in Nat /\ Len(a) \in Nat
      BY <1>5 DEF Ascends
    <3>. QED
      BY <1>5, <1>9, <3>1
  <2>6. \A i \in Elements(h \o a) : list[i] # DashDash
    BY <1>5, <1>9
  <2>7. /\ \A i \in Range(FlagsIn(list, r)) :
               Known(cmd, list[i]) /\ (NeedsNext(cmd, list[i]) => i + 1 \in r.values)
        /\ \A i \in r.values : i <= r.last /\ \E j \in Range(FlagsIn(list, r)) :
               j + 1 = i /\ NeedsNext(cmd, list[j])
        /\ \A i \in Range(WordsIn(list, r)) : list[i] # DashDash
    BY <1>7, <1>15, <2>1, <2>2, <2>6
  <2>8. /\ IF Stopped(list, path, r) THEN a = <<r.last>>
           ELSE r.last < N => list[r.last + 1] = DashDash
        /\ Len(WordsIn(list, r)) >= Len(path)
        /\ \A i \in 1 .. Len(path) : list[WordsIn(list, r)[i]] = Word(<<path[i]>>)
    BY <1>7, <1>10, <1>13, <2>3, <2>5
  <2>. QED
    BY <1>11, <2>4, <2>7, <2>8 DEF IsReading, cmd
<1>17. p.flags = flags /\ p.arguments = Own(cmd, list, last, N, a) /\ p.opaque = Passed(cmd, list, last, N, a)
  BY <1>2 DEF Parsed
<1>18. flags = FlagsRead(list, path, r)
  BY <1>8, <1>15 DEF FlagsRead, flags, cmd
<1>19. Own(cmd, list, last, N, a) = ArgumentsRead(list, path, r)
  BY <1>11, <1>12, <1>14 DEF Own, ArgumentsRead
<1>20. Passed(cmd, list, last, N, a) = OpaqueRead(list, path, r)
  BY <1>12, <1>14 DEF Passed, OpaqueRead
<1>21. Reader(list)[Len(Left(list))] = p
  BY <1>0 DEF p
<1>. QED
  BY <1>6, <1>16, <1>17, <1>18, <1>19, <1>20, <1>21 DEF path

\* What Argv is, of a list that it does not refuse and of one that it does.
LEMMA ArgvIs ==
    ASSUME NEW list
    PROVE  LET p == Reader(list)[Len(Left(list))]
           IN  /\ Argv(list).ok <=> Survives(list) /\ Fits(Catalog[Meant(list)], list, p.arguments)
               /\ Argv(list).ok => Argv(list) = [ok |-> TRUE, path |-> Meant(list), flags |-> p.flags,
                                                 arguments |-> p.arguments, opaque |-> p.opaque]
<1>. DEFINE p == Reader(list)[Len(Left(list))]
            fits == Fits(Catalog[Meant(list)], list, p.arguments)
<1>1. Argv(list) = IF FindCommand(list).at = "refused" \/ p.at = "refused" \/ ~fits THEN Refused
                   ELSE [ok |-> TRUE, path |-> Meant(list), flags |-> p.flags,
                         arguments |-> p.arguments, opaque |-> p.opaque]
  BY DEF Argv, Reader, Left, Meant
<1>2. Survives(list) <=> ~(FindCommand(list).at = "refused" \/ p.at = "refused")
  BY DEF Survives
<1>. HIDE DEF p, fits
<1>3. Refused.ok = FALSE
  BY DEF Refused
<1>4. CASE Survives(list) /\ fits
  BY <1>1, <1>2, <1>4 DEF p, fits
<1>5. CASE ~(Survives(list) /\ fits)
  <2>1. Argv(list) = Refused
    BY <1>1, <1>2, <1>5
  <2>. QED
    BY <1>3, <1>5, <2>1 DEF p, fits
<1>. QED
  BY <1>4, <1>5

\* What a list resolves to is what it says, whatever the list and the catalog: every
\* flag has the arity that the command found gives it, also where findCommand steps
\* over it before that command is known (resolve.go:114-118, 136-144, 191-240).
THEOREM EveryListResolvesAsRead ==
    ASSUME NEW list, IsList(list)
    PROVE  ResolvedAsRead(list)
<1>. DEFINE p == Reader(list)[Len(Left(list))]
            inv == Argv(list)
<1>1. SUFFICES ASSUME inv.ok
               PROVE  \E r \in Readings(list) :
                        /\ IsReading(list, inv.path, r)
                        /\ inv.flags = FlagsRead(list, inv.path, r)
                        /\ inv.arguments = ArgumentsRead(list, inv.path, r)
                        /\ inv.opaque = OpaqueRead(list, inv.path, r)
                        /\ Fits(Catalog[inv.path], list, inv.arguments)
  BY DEF ResolvedAsRead
<1>2. /\ Survives(list) /\ Fits(Catalog[Meant(list)], list, p.arguments)
      /\ inv = [ok |-> TRUE, path |-> Meant(list), flags |-> p.flags,
                arguments |-> p.arguments, opaque |-> p.opaque]
  BY <1>1, ArgvIs
<1>3. inv.path = Meant(list) /\ inv.flags = p.flags /\ inv.arguments = p.arguments /\ inv.opaque = p.opaque
  <2>. HIDE DEF inv, p
  <2>. QED
    BY <1>2
<1>4. PICK last, h, q, a, V : ReadSoFar(list, Len(list), last, h, q, a, V)
  BY <1>2, ReadAll
<1>5. \E r \in Readings(list) :
        /\ IsReading(list, Meant(list), r)
        /\ p.flags = FlagsRead(list, Meant(list), r)
        /\ p.arguments = ArgumentsRead(list, Meant(list), r)
        /\ p.opaque = OpaqueRead(list, Meant(list), r)
  BY <1>2, <1>4, AllRead
<1>. HIDE DEF inv, p
<1>. QED
  BY <1>2, <1>3, <1>5

--------------------------------------------------------------------------
(* Every list that can be typed *)

\* A sequence of tokens is a list.
LEMMA TypedIsList ==
    ASSUME NEW T, \A t \in T : IsToken(t), NEW list \in Seq(T)
    PROVE  IsList(list)
BY DEF IsList

\* What is typed stays a list of tokens of one alphabet.
Typed == alphabet \in Alphabets /\ argv \in Seq(alphabet)

\* What is typed is a list, however long.
LEMMA StaysTyped == ListsSpec => [](Typed /\ IsList(argv))
<1>1. ListsInit => Typed
  BY DEF ListsInit, Typed
<1>2. Typed /\ [Type]_listVars => Typed'
  <2>. SUFFICES ASSUME Typed, [Type]_listVars PROVE Typed'
    OBVIOUS
  <2>1. CASE Type
    <3>1. PICK token \in alphabet : argv' = Append(argv, token)
      BY <2>1 DEF Type
    <3>2. alphabet' = alphabet
      BY <2>1 DEF Type
    <3>. QED
      BY <3>1, <3>2 DEF Typed
  <2>2. CASE UNCHANGED listVars
    BY <2>2 DEF Typed, listVars
  <2>. QED
    BY <2>1, <2>2
<1>3. Typed => IsList(argv)
  <2>. SUFFICES ASSUME Typed PROVE IsList(argv)
    OBVIOUS
  <2>1. \A t \in alphabet : IsToken(t)
    BY ListsAssumption DEF Typed
  <2>. QED
    BY <2>1, TypedIsList DEF Typed
<1>. QED
  BY <1>1, <1>2, <1>3, PTL DEF ListsSpec

\* So no list that is typed, however long and of whatever tokens, resolves to anything
\* but what it says (resolve.go:114-118, 136-144, 191-240).
THEOREM TypedListsResolveAsRead == ListsSpec => []ResolvesAsRead
<1>1. IsList(argv) => ResolvesAsRead
  BY EveryListResolvesAsRead DEF ResolvesAsRead
<1>. QED
  BY <1>1, StaysTyped, PTL

--------------------------------------------------------------------------
(* A list that has a reading *)

\* Positions up to any can be put in order.
LEMMA HasOrder ==
    ASSUME NEW N \in Nat, NEW T
    PROVE  \A n \in 0 .. N : \E q : Ascends(q) /\ Elements(q) = T \cap (1 .. n)
<1>. DEFINE Ordered(n) == \E q : Ascends(q) /\ Elements(q) = T \cap (1 .. n)
            S == {n \in 0 .. N : Ordered(n)}
<1>1. 0 \in S
  <2>1. T \cap (1 .. 0) = {}
    OBVIOUS
  <2>. QED
    BY <2>1, AscendsEmpty
<1>2. ASSUME NEW n \in 0 .. N - 1, n \in S PROVE n + 1 \in S
  <2>1. PICK q : Ascends(q) /\ Elements(q) = T \cap (1 .. n)
    BY <1>2
  <2>2. n \in Nat /\ n + 1 \in 0 .. N /\ 1 .. n + 1 = (1 .. n) \cup {n + 1}
    OBVIOUS
  <2>3. CASE n + 1 \in T
    <3>1. Elements(q) \subseteq 1 .. n
      BY <2>1
    <3>2. Ascends(Append(q, n + 1)) /\ Elements(Append(q, n + 1)) = Elements(q) \cup {n + 1}
      BY <2>1, <2>2, <3>1, OneMore
    <3>3. Elements(Append(q, n + 1)) = T \cap (1 .. n + 1)
      BY <2>1, <2>2, <2>3, <3>2
    <3>. QED
      BY <2>2, <3>2, <3>3
  <2>4. CASE n + 1 \notin T
    <3>1. Elements(q) = T \cap (1 .. n + 1)
      BY <2>1, <2>2, <2>4
    <3>. QED
      BY <2>1, <2>2, <3>1
  <2>. QED
    BY <2>3, <2>4
<1>. HIDE DEF S
<1>3. \A n \in 0 .. N : n \in S
  BY <1>1, <1>2, UpTo
<1>. QED
  BY <1>3 DEF S

\* InOrder puts them so.
LEMMA InOrderAscends ==
    ASSUME NEW N \in Nat, NEW T, T \subseteq 1 .. N
    PROVE  Ascends(InOrder(T)) /\ Elements(InOrder(T)) = T
<1>1. PICK q : Ascends(q) /\ Elements(q) = T \cap (1 .. N)
  BY HasOrder
<1>2. Elements(q) = T
  BY <1>1
<1>3. InOrder(T) = q
  BY <1>1, <1>2, InOrderIs
<1>. QED
  BY <1>1, <1>2, <1>3

\* An ascending sequence cut in two.
LEMMA AscendsSubSeq ==
    ASSUME NEW q, Ascends(q), NEW m \in 0 .. Len(q)
    PROVE  LET h == SubSeq(q, 1, m)
               a == SubSeq(q, m + 1, Len(q))
           IN  /\ Ascends(h) /\ Ascends(a) /\ Below(Elements(h), Elements(a))
               /\ Elements(q) = Elements(h) \cup Elements(a)
               /\ Len(h) = m /\ Len(a) = Len(q) - m
               /\ \A k \in 1 .. m : h[k] = q[k]
               /\ \A k \in 1 .. Len(q) - m : a[k] = q[m + k]
<1>. DEFINE h == SubSeq(q, 1, m)
            a == SubSeq(q, m + 1, Len(q))
<1>1. q \in Seq(Nat) /\ Len(q) \in Nat /\ m \in Nat /\ \A i, j \in 1 .. Len(q) : i < j => q[i] < q[j]
  BY DEF Ascends
<1>2. h \in Seq(Nat) /\ Len(h) = m /\ \A k \in 1 .. m : h[k] = q[k] /\ k \in 1 .. Len(q)
  BY <1>1
<1>3. a \in Seq(Nat) /\ Len(a) = Len(q) - m
      /\ \A k \in 1 .. Len(q) - m : a[k] = q[m + k] /\ m + k \in 1 .. Len(q)
  BY <1>1
<1>. HIDE DEF h, a
<1>4. Ascends(h)
  BY <1>1, <1>2 DEF Ascends
<1>5. Ascends(a)
  <2>. SUFFICES ASSUME NEW i \in 1 .. Len(a), NEW j \in 1 .. Len(a), i < j PROVE a[i] < a[j]
    BY <1>3 DEF Ascends
  <2>1. /\ a[i] = q[m + i] /\ a[j] = q[m + j] /\ m + i < m + j
        /\ m + i \in 1 .. Len(q) /\ m + j \in 1 .. Len(q)
    BY <1>1, <1>3
  <2>. QED
    BY <1>1, <2>1
<1>6. Below(Elements(h), Elements(a))
  <2>. SUFFICES ASSUME NEW i \in 1 .. Len(h), NEW j \in 1 .. Len(a) PROVE h[i] < a[j]
    BY DEF Below, Elements
  <2>1. h[i] = q[i] /\ i \in 1 .. Len(q) /\ a[j] = q[m + j] /\ m + j \in 1 .. Len(q) /\ i < m + j
    BY <1>1, <1>2, <1>3, SMTT(30)
  <2>. QED
    BY <1>1, <2>1
<1>7. Elements(q) \subseteq Elements(h) \cup Elements(a)
  <2>. SUFFICES ASSUME NEW k \in 1 .. Len(q) PROVE q[k] \in Elements(h) \cup Elements(a)
    BY DEF Elements
  <2>1. CASE k <= m
    <3>1. k \in 1 .. Len(h)
      BY <1>1, <1>2, <2>1
    <3>. QED
      BY <1>2, <3>1 DEF Elements
  <2>2. CASE m < k
    <3>1. k - m \in 1 .. Len(a) /\ m + (k - m) = k
      BY <1>1, <1>3, <2>2
    <3>2. a[k - m] = q[k]
      BY <1>3, <3>1
    <3>. QED
      BY <3>1, <3>2 DEF Elements
  <2>. QED
    BY <1>1, <2>1, <2>2
<1>8. Elements(h) \cup Elements(a) \subseteq Elements(q)
  <2>1. ASSUME NEW k \in 1 .. Len(h) PROVE h[k] \in Elements(q)
    <3>1. h[k] = q[k] /\ k \in 1 .. Len(q)
      BY <1>2
    <3>. QED
      BY <3>1 DEF Elements
  <2>2. ASSUME NEW k \in 1 .. Len(a) PROVE a[k] \in Elements(q)
    <3>1. a[k] = q[m + k] /\ m + k \in 1 .. Len(q)
      BY <1>3
    <3>. QED
      BY <3>1 DEF Elements
  <2>. QED
    BY <2>1, <2>2 DEF Elements
<1>. QED
  BY <1>2, <1>3, <1>4, <1>5, <1>6, <1>7, <1>8 DEF h, a

\* What a list says of a command, told by positions: the words of the command at h,
\* its flags at q, what it is given at a, the values at V.
Says(list, path, L, h, q, a, V) ==
    LET cmd == Catalog[path]
    IN  /\ L \in 0 .. Len(list)
        /\ Sorted(list, cmd, path, L, h, q, a, V)
        /\ \A i \in Elements(q) : NeedsNext(cmd, list[i]) => i + 1 \in V
        /\ \A i \in Elements(q) : path # <<>> /\ i < h[Len(path)] => Known(Catalog[<<>>], list[i])
        /\ a # <<>> => ~Extends(list, path, a[1])
        /\ IF cmd.stops /\ a # <<>> THEN a = <<L>> ELSE L < Len(list) => list[L + 1] = DashDash

\* A reading of a list says what it says in terms of positions.
LEMMA ReadingSays ==
    ASSUME NEW list, IsList(list), NEW path \in DOMAIN Catalog, NEW r \in Readings(list),
           IsReading(list, path, r), StartsPlainly(list, path, r)
    PROVE  Says(list, path, r.last, SubSeq(WordsIn(list, r), 1, Len(path)), FlagsIn(list, r),
                Plain(list, path, r), r.values)
<1>. DEFINE N == Len(list)
            cmd == Catalog[path]
            L == r.last
            V == r.values
            words == WordsIn(list, r)
            h == SubSeq(words, 1, Len(path))
            q == FlagsIn(list, r)
            a == Plain(list, path, r)
            F == {i \in (1 .. L) \ V : IsFlag(list[i])}
            W == {i \in (1 .. L) \ V : ~IsFlag(list[i])}
<1>1. N \in Nat /\ L \in 0 .. N /\ V \subseteq 2 .. N /\ path \in Seq(STRING) /\ Len(path) \in Nat
  <2>1. path \in Seq(STRING)
    BY CatalogAssumption
  <2>2. N \in Nat
    BY DEF IsList
  <2>3. L \in 0 .. N /\ V \in SUBSET {i \in 2 .. N : IsFlag(list[i - 1])}
    BY DEF Readings
  <2>. QED
    BY <2>1, <2>2, <2>3
<1>2. Ascends(q) /\ Elements(q) = F
  <2>1. q = InOrder(F)
    BY DEF FlagsIn
  <2>2. F \subseteq 1 .. N
    BY <1>1
  <2>. HIDE DEF F, q
  <2>. QED
    BY <1>1, <2>1, <2>2, InOrderAscends
<1>3. Ascends(words) /\ Elements(words) = W
  <2>1. words = InOrder(W)
    BY DEF WordsIn
  <2>2. W \subseteq 1 .. N
    BY <1>1
  <2>. HIDE DEF W, words
  <2>. QED
    BY <1>1, <2>1, <2>2, InOrderAscends
<1>4. Range(q) = F /\ Range(words) = W
  BY <1>2, <1>3, AscendsType DEF Range, Elements
<1>. HIDE DEF L, V, words, q, F, W
<1>5. /\ \A i \in F : Known(cmd, list[i]) /\ (NeedsNext(cmd, list[i]) => i + 1 \in V)
      /\ \A i \in V : i <= L /\ \E j \in F : j + 1 = i /\ NeedsNext(cmd, list[j])
      /\ \A i \in W : list[i] # DashDash
      /\ IF Stopped(list, path, r) THEN a = <<L>> ELSE L < N => list[L + 1] = DashDash
      /\ Len(words) >= Len(path)
      /\ \A i \in 1 .. Len(path) : list[words[i]] = Word(<<path[i]>>)
      /\ a # <<>> => path \o list[a[1]].text \notin DOMAIN Catalog
  BY <1>4 DEF IsReading, L, V, words, q
<1>6. a = SubSeq(words, Len(path) + 1, Len(words))
  BY DEF Plain, words
<1>7. Len(path) \in 0 .. Len(words) /\ Len(words) \in Nat
  BY <1>1, <1>3, <1>5 DEF Ascends
<1>. HIDE DEF a, h
<1>8. /\ Ascends(h) /\ Ascends(a) /\ Below(Elements(h), Elements(a))
      /\ W = Elements(h) \cup Elements(a)
      /\ Len(h) = Len(path)
      /\ \A k \in 1 .. Len(path) : h[k] = words[k]
  BY <1>3, <1>6, <1>7, AscendsSubSeq DEF h
<1>9. V \subseteq 1 .. L
  BY <1>1, <1>5
<1>10. Sorted(list, cmd, path, L, h, q, a, V)
  <2>1. 1 .. L = Elements(h) \cup Elements(q) \cup Elements(a) \cup V
    <3>1. F \cup W = (1 .. L) \ V
      BY DEF F, W
    <3>. QED
      BY <1>2, <1>8, <1>9, <3>1
  <2>2. V \cap (Elements(h) \cup Elements(q) \cup Elements(a)) = {}
    <3>1. V \cap F = {} /\ V \cap W = {}
      BY DEF F, W
    <3>. QED
      BY <1>2, <1>8, <3>1
  <2>3. ASSUME NEW i \in V PROVE i - 1 \in Elements(q) /\ NeedsNext(cmd, list[i - 1])
    <3>1. PICK j \in F : j + 1 = i /\ NeedsNext(cmd, list[j])
      BY <1>5
    <3>2. j = i - 1
      BY <1>1, <3>1 DEF F
    <3>. QED
      BY <1>2, <3>1, <3>2
  <2>4. \A i \in Elements(q) : IsFlag(list[i]) /\ Known(cmd, list[i])
    BY <1>2, <1>5 DEF F
  <2>5. \A i \in Elements(h) \cup Elements(a) : ~IsFlag(list[i]) /\ list[i] # DashDash
    BY <1>5, <1>8 DEF W
  <2>6. \A j \in 1 .. Len(h) : list[h[j]] = Word(<<path[j]>>)
    BY <1>5, <1>8
  <2>. QED
    BY <1>2, <1>8, <2>1, <2>2, <2>3, <2>4, <2>5, <2>6 DEF Sorted
<1>11. \A i \in Elements(q) : path # <<>> /\ i < h[Len(path)] => Known(Catalog[<<>>], list[i])
  <2>1. ASSUME path # <<>> PROVE h[Len(path)] = words[Len(path)]
    <3>1. Len(path) \in 1 .. Len(path)
      BY <1>1, <2>1
    <3>. QED
      BY <1>8, <3>1
  <2>. QED
    BY <1>2, <1>4, <2>1 DEF StartsPlainly, words, q
<1>12. cmd.stops /\ a # <<>> <=> Stopped(list, path, r)
  BY DEF Stopped, a
<1>13. a # <<>> => ~Extends(list, path, a[1])
  BY <1>5 DEF Extends
<1>14. /\ \A i \in Elements(q) : NeedsNext(cmd, list[i]) => i + 1 \in V
       /\ IF cmd.stops /\ a # <<>> THEN a = <<L>> ELSE L < N => list[L + 1] = DashDash
  BY <1>2, <1>5, <1>12
<1>15. Says(list, path, L, h, q, a, V)
  BY <1>1, <1>10, <1>11, <1>13, <1>14 DEF Says
<1>. QED
  BY <1>15 DEF L, h, q, a, V, words

\* The words of a command up to one of them.
LEMMA BeginningOf ==
    ASSUME NEW path \in Seq(STRING), NEW k \in 0 .. Len(path)
    PROVE  /\ SubSeq(path, 1, k) \in Seq(STRING) /\ Len(SubSeq(path, 1, k)) = k
           /\ \A j \in 1 .. k : SubSeq(path, 1, k)[j] = path[j]
           /\ k < Len(path) => Append(SubSeq(path, 1, k), path[k + 1]) = SubSeq(path, 1, k + 1)
<1>1. Len(path) \in Nat /\ \A j \in 1 .. k : path[j] \in STRING
  OBVIOUS
<1>2. SubSeq(path, 1, k) \in Seq(STRING) /\ Len(SubSeq(path, 1, k)) = k
      /\ \A j \in 1 .. k : SubSeq(path, 1, k)[j] = path[j]
  BY <1>1
<1>3. ASSUME k < Len(path) PROVE Append(SubSeq(path, 1, k), path[k + 1]) = SubSeq(path, 1, k + 1)
  <2>1. 1 \in 1 .. Len(path) /\ k + 1 \in 1 .. Len(path) /\ k = (k + 1) - 1 /\ path[k + 1] \in STRING
    BY <1>1, <1>3
  <2>2. SubSeq(path, 1, k + 1) = SubSeq(path, 1, (k + 1) - 1) \o <<path[k + 1]>>
    BY <1>1, <2>1, SubSeqRecursiveSecond
  <2>3. Append(SubSeq(path, 1, k), path[k + 1]) = SubSeq(path, 1, k) \o <<path[k + 1]>>
    BY <1>2, <2>1, AppendIsConcat
  <2>. QED
    BY <2>1, <2>2, <2>3
<1>. QED
  BY <1>2, <1>3

\* What a command's path begins with is a command.
LEMMA BeginningIn ==
    ASSUME NEW path \in DOMAIN Catalog
    PROVE  \A k \in 0 .. Len(path) : SubSeq(path, 1, k) \in DOMAIN Catalog
<1>. DEFINE m == Len(path)
            S == {d \in 0 .. m : SubSeq(path, 1, m - d) \in DOMAIN Catalog}
<1>0. path \in Seq(STRING) /\ m \in Nat
  <2>1. path \in Seq(STRING)
    BY CatalogAssumption
  <2>. QED
    BY <2>1
<1>1. 0 \in S
  <2>1. SubSeq(path, 1, Len(path)) = path
    BY <1>0, SubSeqFull
  <2>2. m - 0 = Len(path) /\ 0 \in 0 .. m
    BY <1>0
  <2>. HIDE DEF m
  <2>3. SubSeq(path, 1, m - 0) \in DOMAIN Catalog
    BY <2>1, <2>2
  <2>. QED
    BY <2>2, <2>3
<1>2. ASSUME NEW d \in 0 .. m - 1, d \in S PROVE d + 1 \in S
  <2>. DEFINE k == m - d
              p == SubSeq(path, 1, k)
  <2>0. k \in 1 .. m /\ d + 1 \in 0 .. m /\ m - (d + 1) = k - 1 /\ k \in 0 .. m /\ k - 1 \in 0 .. m
    BY <1>0
  <2>1. p \in DOMAIN Catalog
    BY <1>2
  <2>2. Len(p) = k /\ p \in Seq(STRING)
    BY <1>0, <2>0, BeginningOf
  <2>3. p # <<>>
    <3>. HIDE DEF p, k
    <3>. QED
      BY <2>0, <2>2
  <2>4. Front(p) \in DOMAIN Catalog
    BY <2>1, <2>3, CatalogAssumption
  <2>5. Front(p) = SubSeq(path, 1, k - 1)
    <3>1. Front(p) = SubSeq(p, 1, k - 1)
      BY <2>2 DEF Front
    <3>2. \A j \in 1 .. k : p[j] = path[j]
      BY <1>0, <2>0, BeginningOf
    <3>. HIDE DEF p, k, m
    <3>3. /\ SubSeq(p, 1, k - 1) \in Seq(STRING) /\ Len(SubSeq(p, 1, k - 1)) = k - 1
          /\ \A j \in 1 .. k - 1 : SubSeq(p, 1, k - 1)[j] = p[j]
      BY <2>0, <2>2
    <3>4. /\ SubSeq(path, 1, k - 1) \in Seq(STRING) /\ Len(SubSeq(path, 1, k - 1)) = k - 1
          /\ \A j \in 1 .. k - 1 : SubSeq(path, 1, k - 1)[j] = path[j]
      BY <1>0, <2>0, BeginningOf DEF m
    <3>5. \A j \in 1 .. k - 1 : SubSeq(p, 1, k - 1)[j] = SubSeq(path, 1, k - 1)[j]
      BY <2>0, <3>2, <3>3, <3>4
    <3>6. SubSeq(p, 1, k - 1) = SubSeq(path, 1, k - 1)
      BY <3>3, <3>4, <3>5, SeqEqual
    <3>. QED
      BY <3>1, <3>6
  <2>. QED
    BY <2>0, <2>4, <2>5
<1>. HIDE DEF S
<1>3. \A d \in 0 .. m : d \in S
  BY <1>0, <1>1, <1>2, UpTo
<1>4. ASSUME NEW k \in 0 .. m PROVE SubSeq(path, 1, k) \in DOMAIN Catalog
  <2>1. m - k \in 0 .. m /\ m - (m - k) = k
    BY <1>0
  <2>2. m - k \in S
    BY <1>3, <2>1
  <2>. QED
    BY <2>1, <2>2 DEF S
<1>. QED
  BY <1>4

\* What every command takes, each does, and takes it alike.
LEMMA KnownBelow ==
    ASSUME NEW c, NEW d, c.flags \subseteq d.flags, NEW token, IsToken(token), IsFlag(token), Known(c, token)
    PROVE  Known(d, token)
<1>1. CASE token.kind = "long"
  BY <1>1 DEF Known, LongFlag
<1>2. CASE token.kind = "short"
  <2>. DEFINE letters == token.text
  <2>1. Len(letters) \in Nat /\ token.kind # "long"
    <3>1. letters \in Seq(STRING)
      BY <1>2 DEF IsToken
    <3>. QED
      BY <1>2, <3>1
  <2>2. \A j \in FlagLetters(c, letters) : ShortFlag(c, letters[j]) # {}
    BY <2>1 DEF Known
  <2>. HIDE DEF letters
  <2>3. \A j : TakesValue(c, letters[j]) => TakesValue(d, letters[j])
    BY DEF TakesValue, ShortFlag
  <2>4. \A k \in 1 .. Len(letters) : k \in FlagLetters(d, letters) => k \in FlagLetters(c, letters)
    <3>1. \A k \in 1 .. Len(letters) : Quiet(d, letters, k) => Quiet(c, letters, k)
      BY <2>3 DEF Quiet
    <3>2. \A k \in 1 .. Len(letters) : k \in FlagLetters(c, letters) <=> Quiet(c, letters, k)
      BY <2>1, OneEnding
    <3>3. \A k \in 1 .. Len(letters) : k \in FlagLetters(d, letters) <=> Quiet(d, letters, k)
      BY <2>1, OneEnding
    <3>. QED
      BY <3>1, <3>2, <3>3
  <2>5. FlagLetters(d, letters) \subseteq 1 .. Len(letters)
    <3>1. CASE Ending(d, letters) = {}
      BY <3>1 DEF FlagLetters
    <3>2. CASE Ending(d, letters) # {}
      <4>1. PICK k \in Ending(d, letters) : FlagLetters(d, letters) = 1 .. k
        BY <2>1, <3>2, OneEnding
      <4>2. k \in 1 .. Len(letters)
        BY DEF Ending
      <4>. QED
        BY <2>1, <4>1, <4>2
    <3>. QED
      BY <3>1, <3>2
  <2>6. \A j : ShortFlag(c, letters[j]) \subseteq ShortFlag(d, letters[j])
    BY DEF ShortFlag
  <2>7. \A j \in FlagLetters(d, letters) : ShortFlag(d, letters[j]) # {}
    BY <2>2, <2>4, <2>5, <2>6
  <2>. QED
    BY <2>1, <2>7 DEF Known, letters
<1>. QED
  BY <1>1, <1>2 DEF IsFlag

\* How far findCommand is with the words of the command it is to find.
Onward(list, path, L, h, a, V, n, k) ==
    LET v == Walk(list)[n]
    IN  /\ k \in 0 .. Len(path)
        /\ v.path = SubSeq(path, 1, k)
        /\ \A j \in 1 .. Len(path) : h[j] <= n <=> j <= k
        /\ v.at = IF n > L \/ (a # <<>> /\ a[1] <= n) THEN "rest"
                  ELSE IF n + 1 \in V THEN "value" ELSE "command"

\* Each position up to the last that is read for flags has one part.
LEMMA PartOf ==
    ASSUME NEW list, IsList(list), NEW path \in DOMAIN Catalog, NEW L, NEW h, NEW q, NEW a, NEW V,
           Says(list, path, L, h, q, a, V)
    PROVE  /\ L \in 0 .. Len(list) /\ Len(h) = Len(path) /\ path \in Seq(STRING) /\ Len(path) \in Nat
           /\ Ascends(h) /\ Ascends(q) /\ Ascends(a)
           /\ \A i \in 1 .. L : i \in Elements(q) \/ i \in V \/ i \in Elements(h) \/ i \in Elements(a)
           /\ \A i \in V : i \in 1 .. L /\ ~(i \in Elements(q) \/ i \in Elements(h) \/ i \in Elements(a)) /\ i - 1 \in Elements(q)
                           /\ NeedsNext(Catalog[path], list[i - 1])
           /\ \A i \in Elements(q) : i \in 1 .. L /\ IsFlag(list[i]) /\ Known(Catalog[path], list[i])
           /\ \A i \in Elements(h) \cup Elements(a) : i \in 1 .. L /\ ~IsFlag(list[i]) /\ list[i] # DashDash
           /\ \A i \in Elements(q) : NeedsNext(Catalog[path], list[i]) <=> i + 1 \in V
           /\ \A i \in Elements(h), j \in Elements(a) : i < j
           /\ \A j \in 1 .. Len(path) : list[h[j]] = Word(<<path[j]>>) /\ h[j] \in Elements(h)
           /\ a # <<>> => a[1] \in Elements(a) /\ 1 \in 1 .. Len(a) /\ \A j \in Elements(a) : a[1] <= j
<1>. DEFINE cmd == Catalog[path]
<1>1. path \in Seq(STRING) /\ Len(path) \in Nat
  <2>1. path \in Seq(STRING)
    BY CatalogAssumption
  <2>. QED
    BY <2>1
<1>2. /\ L \in 0 .. Len(list)
      /\ Sorted(list, cmd, path, L, h, q, a, V)
      /\ \A i \in Elements(q) : NeedsNext(cmd, list[i]) => i + 1 \in V
  BY DEF Says
<1>. HIDE DEF cmd
<1>3. /\ Ascends(h) /\ Ascends(q) /\ Ascends(a) /\ Below(Elements(h), Elements(a))
      /\ 1 .. L = Elements(h) \cup Elements(q) \cup Elements(a) \cup V
      /\ V \cap (Elements(h) \cup Elements(q) \cup Elements(a)) = {}
      /\ \A i \in V : i - 1 \in Elements(q) /\ NeedsNext(cmd, list[i - 1])
      /\ \A i \in Elements(q) : IsFlag(list[i]) /\ Known(cmd, list[i])
      /\ \A i \in Elements(h) \cup Elements(a) : ~IsFlag(list[i]) /\ list[i] # DashDash
      /\ Len(h) = Len(path) /\ \A j \in 1 .. Len(h) : list[h[j]] = Word(<<path[j]>>)
  BY <1>2 DEF Sorted
<1>4. \A j \in 1 .. Len(path) : h[j] \in Elements(h)
  BY <1>3 DEF Elements
<1>5. ASSUME a # <<>> PROVE a[1] \in Elements(a) /\ 1 \in 1 .. Len(a) /\ \A j \in Elements(a) : a[1] <= j
  <2>1. a \in Seq(Nat) /\ Len(a) \in Nat
    BY <1>3 DEF Ascends
  <2>2. 1 \in 1 .. Len(a)
    BY <1>5, <2>1
  <2>3. \A k \in 1 .. Len(a) : a[1] <= a[k]
    BY <1>3, <2>1, <2>2 DEF Ascends
  <2>. QED
    BY <2>2, <2>3 DEF Elements
<1>6. ASSUME NEW i \in Elements(q) PROVE NeedsNext(cmd, list[i]) <=> i + 1 \in V
  <2>1. i + 1 \in V => NeedsNext(cmd, list[(i + 1) - 1])
    BY <1>3
  <2>2. i \in 1 .. L
    BY <1>3
  <2>3. (i + 1) - 1 = i
    BY <1>2, <2>2
  <2>. QED
    BY <1>2, <2>1, <2>3
<1>7. \A i \in Elements(h), j \in Elements(a) : i < j
  BY <1>3 DEF Below
<1>. QED
  BY <1>1, <1>2, <1>3, <1>4, <1>5, <1>6, <1>7 DEF cmd

\* The next token takes findCommand to where the reading has it.
LEMMA WalkOnward ==
    ASSUME NEW list, IsList(list), NEW path \in DOMAIN Catalog, NEW L, NEW h, NEW q, NEW a, NEW V,
           Says(list, path, L, h, q, a, V), NEW n \in 0 .. Len(list) - 1,
           NEW k, Onward(list, path, L, h, a, V, n, k)
    PROVE  \E m : Onward(list, path, L, h, a, V, n + 1, m)
<1>. DEFINE i == n + 1
            v == Walk(list)[n]
            w == Walk(list)[i]
            cmd == Catalog[path]
            c == Catalog[v.path]
            late(x) == x > L \/ (a # <<>> /\ a[1] <= x)
<1>0. /\ Len(list) \in Nat /\ n \in Nat /\ i \in 1 .. Len(list) /\ i - 1 = n /\ i = n + 1
      /\ n \in 0 .. Len(list)
  BY DEF IsList
<1>1. /\ L \in 0 .. Len(list) /\ Len(h) = Len(path) /\ path \in Seq(STRING) /\ Len(path) \in Nat
      /\ Ascends(h) /\ Ascends(q) /\ Ascends(a)
      /\ \A x \in 1 .. L : x \in Elements(q) \/ x \in V \/ x \in Elements(h) \/ x \in Elements(a)
      /\ \A x \in V : x \in 1 .. L /\ ~(x \in Elements(q) \/ x \in Elements(h) \/ x \in Elements(a)) /\ x - 1 \in Elements(q)
      /\ \A x \in Elements(q) : x \in 1 .. L /\ IsFlag(list[x]) /\ Known(cmd, list[x])
      /\ \A x \in Elements(h) \cup Elements(a) : x \in 1 .. L /\ ~IsFlag(list[x]) /\ list[x] # DashDash
      /\ \A x \in Elements(q) : NeedsNext(cmd, list[x]) <=> x + 1 \in V
      /\ \A x \in Elements(h), y \in Elements(a) : x < y
      /\ \A j \in 1 .. Len(path) : list[h[j]] = Word(<<path[j]>>) /\ h[j] \in Elements(h)
      /\ a # <<>> => a[1] \in Elements(a) /\ \A y \in Elements(a) : a[1] <= y
  BY PartOf
<1>2. /\ k \in 0 .. Len(path)
      /\ v.path = SubSeq(path, 1, k)
      /\ \A j \in 1 .. Len(path) : h[j] <= n <=> j <= k
      /\ v.at = IF late(n) THEN "rest" ELSE IF i \in V THEN "value" ELSE "command"
  BY DEF Onward
<1>3. /\ v.at = "value" => w = Found("command", v.path, Append(v.rest, i))
      /\ v.at = "rest" => w = Found("rest", v.path, Append(v.rest, i))
      /\ v.at = "command" /\ ~IsFlag(list[i]) /\ ~Extends(list, v.path, i) =>
           w = Found("rest", v.path, Append(v.rest, i))
      /\ v.at = "command" /\ Extends(list, v.path, i) => w = Found("command", v.path \o list[i].text, v.rest)
      /\ v.at = "command" /\ IsFlag(list[i]) =>
           /\ w = Found(w.at, v.path, Append(v.rest, i))
           /\ Occupies(c, list, i) = 1 => w.at = "command"
           /\ Occupies(c, list, i) = 2 => w.at = "value"
  BY <1>0, WalkStep
<1>4. IsToken(list[i])
  BY <1>0 DEF IsList
<1>5. \A x \in Elements(h) \cup Elements(a) \cup Elements(q) \cup V : x \in Nat
  BY <1>0, <1>1
<1>. HIDE DEF i, v, w, cmd, c
<1>. DEFINE Goal(m) == /\ m \in 0 .. Len(path)
                       /\ w.path = SubSeq(path, 1, m)
                       /\ \A j \in 1 .. Len(path) : h[j] <= i <=> j <= m
                       /\ w.at = IF late(i) THEN "rest" ELSE IF i + 1 \in V THEN "value" ELSE "command"
<1>6. SUFFICES \E m : Goal(m)
  BY DEF Onward, i, w
<1>7. i \notin Elements(h) => \A j \in 1 .. Len(path) : h[j] <= i <=> j <= k
  <2>. SUFFICES ASSUME i \notin Elements(h), NEW j \in 1 .. Len(path) PROVE h[j] <= i <=> j <= k
    OBVIOUS
  <2>1. h[j] \in Nat /\ h[j] # i
    BY <1>1, <1>5
  <2>2. h[j] <= i <=> h[j] <= n
    BY <1>0, <2>1
  <2>. QED
    BY <1>2, <2>2
<1>8. CASE late(n)
  <2>1. w.at = "rest" /\ w.path = v.path
    BY <1>2, <1>3, <1>8 DEF Found
  <2>2. late(i)
    <3>1. a # <<>> => a[1] \in Nat
      BY <1>1, <1>5
    <3>. QED
      BY <1>0, <1>1, <1>8, <3>1
  <2>3. i \notin Elements(h)
    <3>1. CASE n > L
      BY <1>0, <1>1, <3>1
    <3>2. CASE a # <<>> /\ a[1] <= n
      <4>1. a[1] \in Nat /\ \A x \in Elements(h) : x < a[1]
        BY <1>1, <1>5, <3>2
      <4>. QED
        BY <1>0, <3>2, <4>1
    <3>. QED
      BY <1>8, <3>1, <3>2
  <2>4. Goal(k)
    BY <1>2, <1>7, <2>1, <2>2, <2>3
  <2>. QED
    BY <2>4
<1>9. CASE ~late(n) /\ i \in V
  <2>1. w.at = "command" /\ w.path = v.path
    BY <1>2, <1>3, <1>9 DEF Found
  <2>2. i \in 1 .. L /\ i \notin Elements(h) /\ i \notin Elements(a) /\ i \notin Elements(q)
    BY <1>1, <1>9
  <2>3. i + 1 \notin V
    <3>1. i + 1 \in V => (i + 1) - 1 \in Elements(q)
      BY <1>1
    <3>2. (i + 1) - 1 = i
      BY <1>0
    <3>. QED
      BY <2>2, <3>1, <3>2
  <2>4. ~late(i)
    <3>1. a # <<>> => a[1] \in Nat /\ a[1] # i
      BY <1>1, <1>5, <2>2
    <3>. QED
      BY <1>0, <1>1, <1>9, <2>2, <3>1
  <2>5. Goal(k)
    BY <1>2, <1>7, <2>1, <2>2, <2>3, <2>4
  <2>. QED
    BY <2>5
<1>10. CASE ~late(n) /\ i \notin V /\ i \in Elements(q)
  <2>1. v.at = "command" /\ i \in 1 .. L /\ IsFlag(list[i]) /\ Known(cmd, list[i])
    BY <1>1, <1>2, <1>10
  <2>2. i \notin Elements(h) /\ i \notin Elements(a)
    BY <1>1, <2>1
  <2>3. v.path \in DOMAIN Catalog
    BY <1>2, BeginningIn
  <2>4. Agree(c, cmd)
    <3>1. Begins(v.path, path) /\ v.path \in Seq(STRING)
      BY <1>1, <1>2, BeginningOf DEF Begins
    <3>2. IsPrefix(v.path, path)
      BY <1>1, <3>1, BeginsIsPrefix
    <3>. QED
      BY <2>3, <3>2, CatalogAssumption DEF Agree, c, cmd
  <2>5. Known(c, list[i])
    <3>1. CASE k = Len(path)
      <4>1. v.path = path
        BY <1>1, <1>2, <3>1, SubSeqFull
      <4>. QED
        BY <2>1, <4>1 DEF c, cmd
    <3>2. CASE k # Len(path)
      <4>1. Len(path) \in 1 .. Len(path) /\ ~(Len(path) <= k) /\ path # <<>>
        BY <1>1, <1>2, <3>2
      <4>2. h[Len(path)] \in Nat /\ ~(h[Len(path)] <= n) /\ h[Len(path)] # i
        BY <1>1, <1>2, <1>5, <2>2, <4>1
      <4>3. i < h[Len(path)]
        BY <1>0, <4>2
      <4>4. Known(Catalog[<<>>], list[i])
        BY <1>10, <4>1, <4>3 DEF Says
      <4>5. Catalog[<<>>].flags \subseteq c.flags
        BY <2>3, CatalogAssumption DEF c
      <4>. QED
        BY <1>4, <2>1, <4>4, <4>5, KnownBelow
    <3>. QED
      BY <3>1, <3>2
  <2>6. NeedsNext(c, list[i]) <=> i + 1 \in V
    <3>1. NeedsNext(c, list[i]) <=> NeedsNext(cmd, list[i])
      BY <1>4, <2>1, <2>4, <2>5, SameNeeds
    <3>. QED
      BY <1>1, <1>10, <3>1
  <2>7. i + 1 \in V => i # Len(list)
    <3>1. i + 1 \in V => i + 1 \in 1 .. L
      BY <1>1
    <3>. QED
      BY <1>0, <1>1, <3>1
  <2>8. Occupies(c, list, i) = IF i + 1 \in V THEN 2 ELSE 1
    BY <2>5, <2>6, <2>7 DEF Occupies
  <2>9. w.at = (IF i + 1 \in V THEN "value" ELSE "command") /\ w.path = v.path
    <3>1. w.path = v.path
      BY <1>3, <2>1 DEF Found
    <3>. QED
      BY <1>3, <2>1, <2>8, <3>1
  <2>10. ~late(i)
    <3>1. a # <<>> => a[1] \in Nat /\ a[1] # i
      BY <1>1, <1>5, <2>2
    <3>. QED
      BY <1>0, <1>1, <1>10, <2>1, <3>1
  <2>11. Goal(k)
    BY <1>2, <1>7, <2>2, <2>9, <2>10
  <2>. QED
    BY <2>11
<1>11. CASE ~late(n) /\ i \notin V /\ i \in Elements(h)
  <2>1. v.at = "command" /\ i \in 1 .. L /\ i \notin Elements(q)
    BY <1>1, <1>2, <1>11
  <2>2. PICK j \in 1 .. Len(path) : h[j] = i
    BY <1>1, <1>11 DEF Elements
  <2>3. j = k + 1
    <3>1. ~(j <= k)
      BY <1>0, <1>2, <2>2
    <3>2. k + 1 \in 1 .. Len(path) /\ ~(k + 1 <= k)
      BY <1>1, <1>2, <3>1
    <3>3. ~(h[k + 1] <= n)
      BY <1>2, <3>2
    <3>4. h[k + 1] \in Nat
      BY <1>1, <1>5, <3>2
    <3>5. ~(k + 1 < j)
      <4>1. k + 1 < j => h[k + 1] < h[j]
        BY <1>1, <3>2 DEF Ascends
      <4>. QED
        BY <1>0, <2>2, <3>3, <3>4, <4>1
    <3>. QED
      BY <1>2, <3>1, <3>5
  <2>4. list[i] = Word(<<path[k + 1]>>)
    BY <1>1, <2>2, <2>3
  <2>5. list[i].kind = "word" /\ list[i].text = <<path[k + 1]>>
    BY <2>4 DEF Word, Token
  <2>6. k < Len(path) /\ k + 1 \in 0 .. Len(path)
    BY <1>1, <1>2, <2>3
  <2>7. v.path \o list[i].text = SubSeq(path, 1, k + 1)
    <3>1. v.path \in Seq(STRING) /\ Append(v.path, path[k + 1]) = SubSeq(path, 1, k + 1)
      BY <1>1, <1>2, <2>6, BeginningOf
    <3>2. path[k + 1] \in STRING
      BY <1>1, <2>3
    <3>3. Append(v.path, path[k + 1]) = v.path \o <<path[k + 1]>>
      BY <3>1, <3>2, AppendIsConcat
    <3>. QED
      BY <2>5, <3>1, <3>3
  <2>8. Extends(list, v.path, i)
    BY <2>5, <2>6, <2>7, BeginningIn DEF Extends
  <2>9. w.at = "command" /\ w.path = SubSeq(path, 1, k + 1)
    BY <1>3, <2>1, <2>7, <2>8 DEF Found
  <2>10. i + 1 \notin V
    <3>1. i + 1 \in V => (i + 1) - 1 \in Elements(q)
      BY <1>1
    <3>2. (i + 1) - 1 = i
      BY <1>0
    <3>. QED
      BY <2>1, <3>1, <3>2
  <2>11. ~late(i)
    <3>1. a # <<>> => i < a[1] /\ a[1] \in Nat
      BY <1>1, <1>5, <1>11
    <3>. QED
      BY <1>0, <1>1, <2>1, <3>1
  <2>12. ASSUME NEW x \in 1 .. Len(path) PROVE h[x] <= i <=> x <= k + 1
    <3>1. (h[x] < h[j] <=> x < j) /\ (h[x] = h[j] <=> x = j) /\ h[x] \in Nat
      <4>1. x \in 1 .. Len(h) /\ j \in 1 .. Len(h)
        BY <1>1
      <4>2. (h[x] < h[j] <=> x < j) /\ (h[x] = h[j] <=> x = j)
        BY <1>1, <4>1, AscendsType
      <4>3. h[x] \in Nat
        BY <1>1, <1>5
      <4>. QED
        BY <4>2, <4>3
    <3>. QED
      BY <1>0, <1>2, <2>2, <2>3, <3>1
  <2>13. Goal(k + 1)
    BY <2>6, <2>9, <2>10, <2>11, <2>12
  <2>. QED
    BY <2>13
<1>12. CASE ~late(n) /\ i \notin V /\ i \in Elements(a)
  <2>1. v.at = "command" /\ i \in 1 .. L /\ ~IsFlag(list[i]) /\ list[i] # DashDash
    BY <1>1, <1>2, <1>12
  <2>2. i \notin Elements(h)
    <3>1. i \in Elements(h) => i < i
      BY <1>1, <1>12
    <3>. QED
      BY <1>0, <3>1
  <2>3. a # <<>> /\ a[1] = i
    <3>1. a # <<>>
      BY <1>12, AscendsEmpty
    <3>2. a[1] \in Nat /\ a[1] <= i /\ ~(a[1] <= n)
      BY <1>1, <1>5, <1>12, <3>1
    <3>. QED
      BY <1>0, <3>1, <3>2
  <2>4. k = Len(path)
    <3>. SUFFICES ASSUME k # Len(path) PROVE FALSE
      OBVIOUS
    <3>1. Len(path) \in 1 .. Len(path) /\ ~(Len(path) <= k)
      BY <1>1, <1>2
    <3>2. ~(h[Len(path)] <= n) /\ h[Len(path)] \in Nat /\ h[Len(path)] < i
      BY <1>1, <1>2, <1>5, <1>12, <3>1
    <3>. QED
      BY <1>0, <3>2
  <2>5. v.path = path
    BY <1>1, <1>2, <2>4, SubSeqFull
  <2>6. ~Extends(list, v.path, i)
    BY <2>3, <2>5 DEF Says
  <2>7. w.at = "rest" /\ w.path = v.path
    BY <1>3, <2>1, <2>6 DEF Found
  <2>8. late(i)
    BY <1>0, <2>3
  <2>9. Goal(k)
    BY <1>2, <1>7, <2>2, <2>7, <2>8
  <2>. QED
    BY <2>9
<1>13. CASE ~late(n) /\ i \notin 1 .. L
  <2>1. n = L
    BY <1>0, <1>1, <1>13
  <2>2. a = <<>>
    <3>1. a # <<>> => a[1] \in 1 .. L
      BY <1>1
    <3>. QED
      BY <1>1, <1>13, <2>1, <3>1
  <2>3. list[i] = DashDash
    BY <1>0, <2>1, <2>2 DEF Says, i
  <2>4. ~IsFlag(list[i]) /\ ~Extends(list, v.path, i)
    BY <2>3 DEF IsFlag, Extends, DashDash, Token
  <2>5. i \notin V /\ i \notin Elements(h)
    BY <1>1, <1>13
  <2>6. w.at = "rest" /\ w.path = v.path
    BY <1>2, <1>3, <1>13, <2>4, <2>5 DEF Found
  <2>7. late(i)
    BY <1>0, <1>1, <2>1
  <2>8. Goal(k)
    BY <1>2, <1>7, <2>5, <2>6, <2>7
  <2>. QED
    BY <2>8
<1>. QED
  BY <1>1, <1>8, <1>9, <1>10, <1>11, <1>12, <1>13

\* findCommand finds the command that a list says, and is never at a loss on the way.
LEMMA WalkFinds ==
    ASSUME NEW list, IsList(list), NEW path \in DOMAIN Catalog, NEW L, NEW h, NEW q, NEW a, NEW V,
           Says(list, path, L, h, q, a, V)
    PROVE  /\ \A n \in 0 .. Len(list) : \E k : Onward(list, path, L, h, a, V, n, k)
           /\ Meant(list) = path /\ FindCommand(list).at # "refused"
<1>. DEFINE S == {n \in 0 .. Len(list) : \E k : Onward(list, path, L, h, a, V, n, k)}
<1>0. Len(list) \in Nat
  BY DEF IsList
<1>1. /\ L \in 0 .. Len(list) /\ Len(h) = Len(path) /\ path \in Seq(STRING) /\ Len(path) \in Nat
      /\ \A x \in V : x \in 1 .. L /\ x - 1 \in Elements(q)
      /\ \A x \in Elements(q) : x \in 1 .. L
      /\ \A x \in Elements(h) \cup Elements(a) : x \in 1 .. L
      /\ \A j \in 1 .. Len(path) : h[j] \in Elements(h)
      /\ a # <<>> => a[1] \in Elements(a)
  <2>1. L \in 0 .. Len(list) /\ Len(h) = Len(path) /\ path \in Seq(STRING) /\ Len(path) \in Nat
    BY PartOf
  <2>2. \A x \in V : x \in 1 .. L /\ x - 1 \in Elements(q)
    BY PartOf
  <2>3. \A x \in Elements(q) : x \in 1 .. L
    BY PartOf
  <2>4. \A x \in Elements(h) \cup Elements(a) : x \in 1 .. L
    BY PartOf
  <2>5. \A j \in 1 .. Len(path) : h[j] \in Elements(h)
    BY PartOf, ZenonT(30)
  <2>6. a # <<>> => a[1] \in Elements(a)
    BY PartOf
  <2>. QED
    BY <2>1, <2>2, <2>3, <2>4, <2>5, <2>6
<1>2. 0 \in S
  <2>. DEFINE v == Walk(list)[0]
  <2>1. v.path = <<>> /\ v.at = "command"
    BY LeftTypes DEF Found
  <2>. HIDE DEF v
  <2>2. SubSeq(path, 1, 0) = <<>>
    BY <1>1
  <2>3. \A j \in 1 .. Len(path) : h[j] \in 1 .. L
    BY <1>1
  <2>4. \A j \in 1 .. Len(path) : h[j] <= 0 <=> j <= 0
    BY <1>0, <1>1, <2>3
  <2>5. ~(0 > L \/ (a # <<>> /\ a[1] <= 0))
    <3>1. a # <<>> => a[1] \in 1 .. L
      BY <1>1
    <3>. QED
      BY <1>0, <1>1, <3>1
  <2>6. 0 + 1 \notin V
    <3>1. 0 + 1 \in V => (0 + 1) - 1 \in 1 .. L
      BY <1>1
    <3>. QED
      BY <1>0, <1>1, <3>1
  <2>7. 0 \in 0 .. Len(path)
    BY <1>1
  <2>8. Onward(list, path, L, h, a, V, 0, 0)
    BY <2>1, <2>2, <2>4, <2>5, <2>6, <2>7 DEF Onward, v
  <2>. QED
    BY <1>0, <2>8
<1>3. ASSUME NEW n \in 0 .. Len(list) - 1, n \in S PROVE n + 1 \in S
  <2>1. PICK k : Onward(list, path, L, h, a, V, n, k)
    BY <1>3
  <2>2. \E m : Onward(list, path, L, h, a, V, n + 1, m)
    BY <2>1, WalkOnward
  <2>3. n + 1 \in 0 .. Len(list)
    BY <1>0
  <2>. QED
    BY <2>2, <2>3
<1>. HIDE DEF S
<1>4. \A n \in 0 .. Len(list) : n \in S
  BY <1>0, <1>2, <1>3, UpTo
<1>5. PICK k : Onward(list, path, L, h, a, V, Len(list), k)
  BY <1>0, <1>4 DEF S
<1>. DEFINE v == Walk(list)[Len(list)]
<1>6. /\ k \in 0 .. Len(path) /\ v.path = SubSeq(path, 1, k)
      /\ \A j \in 1 .. Len(path) : h[j] <= Len(list) <=> j <= k
      /\ v.at \in {"rest", "value", "command"}
  BY <1>5 DEF Onward
<1>. HIDE DEF v
<1>7. k = Len(path)
  <2>. SUFFICES ASSUME k # Len(path) PROVE FALSE
    OBVIOUS
  <2>1. Len(path) \in 1 .. Len(path) /\ ~(Len(path) <= k)
    BY <1>1, <1>6
  <2>2. h[Len(path)] \in 1 .. L
    BY <1>1, <2>1
  <2>. QED
    BY <1>0, <1>1, <1>6, <2>1, <2>2
<1>8. v.path = path
  BY <1>1, <1>6, <1>7, SubSeqFull
<1>9. Meant(list) = path /\ FindCommand(list).at # "refused"
  BY <1>6, <1>8 DEF Meant, FindCommand, v
<1>. QED
  BY <1>4, <1>9 DEF S

\* One token that findCommand leaves to parse.
LEMMA ParseOnward ==
    ASSUME NEW list, IsList(list), NEW i \in 1 .. Len(list),
           NEW v, v = Walk(list)[i - 1], NEW w, w = Walk(list)[i],
           NEW p, p = Reader(list)[Kept(list, i - 1)], NEW r, r = Reader(list)[Kept(list, i)],
           NEW cmd, cmd = Catalog[Meant(list)],
           ~(v.at = "command" /\ Extends(list, v.path, i))
    PROVE  \E final, j :
             /\ ParseMoves(cmd, list[i], i, final, j, p, r)
             /\ final /\ i # Len(list) => w.at \notin {"value", "rest"}
<1>0. /\ Len(list) \in Nat /\ Len(Left(list)) \in Nat
      /\ i - 1 \in 0 .. Len(list) /\ i \in 0 .. Len(list)
  BY LeftTypes
<1>1. w = Found(w.at, v.path, Append(v.rest, i))
  BY WalkMoves
<1>2. w.rest = Append(v.rest, i)
  BY <1>1 DEF Found
<1>. DEFINE k == Kept(list, i)
            left == Left(list)
<1>3. k = Kept(list, i - 1) + 1 /\ k \in 1 .. Len(left) /\ left[k] = i /\ Kept(list, i - 1) \in 0 .. Len(left)
  BY <1>2, KeptMoves, ZenonT(30)
<1>4. ParseMoves(cmd, list[i], i, k = Len(left), left[k + 1], p, r)
  <2>1. p = Parsed(p.at, p.flags, p.arguments, p.opaque)
    BY <1>0, <1>3, ParseTypes DEF Reader
  <2>. HIDE DEF k, left
  <2>2. k - 1 = Kept(list, i - 1)
    BY <1>0, <1>3
  <2>3. p = Parse(cmd, list, left)[k - 1] /\ r = Parse(cmd, list, left)[k]
    BY <2>2 DEF Reader, left, k
  <2>4. Len(left) \in Nat
    BY <1>0 DEF left
  <2>5. ParseMoves(cmd, list[left[k]], left[k], k = Len(left), left[k + 1], p, r)
    BY <1>3, <2>1, <2>3, <2>4, ParseStep
  <2>. QED
    BY <1>3, <2>5
<1>5. ASSUME w.at \in {"value", "rest"}, i # Len(list) PROVE k # Len(left)
  <2>. DEFINE n == i + 1
              u == Walk(list)[n]
  <2>1. n \in 1 .. Len(list) /\ w = Walk(list)[n - 1] /\ u = Walk(list)[n] /\ n - 1 = i
    BY <1>0, <1>5
  <2>. HIDE DEF u, n
  <2>2. u = Found(u.at, w.path, Append(w.rest, n))
    BY <1>5, <2>1, WalkMoves
  <2>3. u.rest = Append(w.rest, n)
    BY <2>2 DEF Found
  <2>4. u.rest = Walk(list)[n].rest /\ Walk(list)[n].rest = Append(Walk(list)[n - 1].rest, n)
    BY <2>1, <2>3
  <2>5. Kept(list, n) = Kept(list, n - 1) + 1
    BY <2>1, <2>4, KeptOneMore
  <2>6. Kept(list, n) \in 0 .. Len(Left(list))
    BY <2>1, KeptMoves
  <2>. QED
    BY <1>0, <1>3, <2>1, <2>5, <2>6
<1>. HIDE DEF k, left
<1>. QED
  BY <1>4, <1>5

\* Of what a list says, the words of the command are not left to parse, the rest is.
LEMMA ParseNext ==
    ASSUME NEW list, IsList(list), NEW path \in DOMAIN Catalog, NEW L, NEW h, NEW q, NEW a, NEW V,
           Says(list, path, L, h, q, a, V), NEW i \in 1 .. Len(list),
           NEW p, p = Reader(list)[Kept(list, i - 1)], NEW r, r = Reader(list)[Kept(list, i)]
    PROVE  \/ i \in Elements(h) /\ r = p
           \/ /\ i \notin Elements(h)
              /\ \E final, j : ParseMoves(Catalog[path], list[i], i, final, j, p, r) /\ (final => i + 1 \notin V)
<1>. DEFINE v == Walk(list)[i - 1]
            w == Walk(list)[i]
<1>0. Len(list) \in Nat /\ i - 1 \in 0 .. Len(list) /\ i \in 0 .. Len(list) /\ i \in Nat
  BY DEF IsList
<1>1. Meant(list) = path
  BY WalkFinds
<1>2. PICK k : Onward(list, path, L, h, a, V, i - 1, k)
  BY <1>0, WalkFinds
<1>3. PICK m : Onward(list, path, L, h, a, V, i, m)
  BY <1>0, WalkFinds
<1>4. /\ k \in 0 .. Len(path) /\ v.path = SubSeq(path, 1, k)
      /\ \A j \in 1 .. Len(path) : h[j] <= i - 1 <=> j <= k
  BY <1>2 DEF Onward
<1>5. /\ m \in 0 .. Len(path) /\ w.path = SubSeq(path, 1, m)
      /\ \A j \in 1 .. Len(path) : h[j] <= i <=> j <= m
      /\ w.at = IF i > L \/ (a # <<>> /\ a[1] <= i) THEN "rest" ELSE IF i + 1 \in V THEN "value" ELSE "command"
  BY <1>3 DEF Onward
<1>6. \/ /\ v.at = "command" /\ Extends(list, v.path, i)
         /\ w = Found("command", Append(v.path, list[i].text[1]), v.rest)
      \/ /\ ~(v.at = "command" /\ Extends(list, v.path, i))
         /\ w = Found(w.at, v.path, Append(v.rest, i))
  BY WalkMoves
<1>7. path \in Seq(STRING) /\ Len(path) \in Nat /\ Len(h) = Len(path)
  BY PartOf
<1>8. \A j \in 1 .. Len(path) : h[j] \in 1 .. L /\ h[j] \in Elements(h)
  <2>1. \A j \in 1 .. Len(path) : h[j] \in Elements(h)
    BY PartOf, ZenonT(30)
  <2>2. \A x \in Elements(h) \cup Elements(a) : x \in 1 .. L
    BY PartOf
  <2>. QED
    BY <2>1, <2>2
<1>9. L \in 0 .. Len(list)
  BY PartOf
<1>10. Len(v.path) = k /\ Len(w.path) = m
  BY <1>4, <1>5, <1>7, BeginningOf
<1>11. v.path \in Seq(STRING)
  BY <1>4, <1>7, BeginningOf
<1>. HIDE DEF v, w
<1>12. CASE i \in Elements(h)
  <2>1. v.at = "command" /\ Extends(list, v.path, i)
    <3>. SUFFICES ASSUME ~(v.at = "command" /\ Extends(list, v.path, i)) PROVE FALSE
      OBVIOUS
    <3>1. w = Found(w.at, v.path, Append(v.rest, i))
      BY <1>6
    <3>2. w.path = v.path
      BY <3>1 DEF Found
    <3>3. k = m
      BY <1>10, <3>2
    <3>4. PICK j \in 1 .. Len(path) : h[j] = i
      BY <1>7, <1>12 DEF Elements
    <3>5. j <= m /\ ~(j <= k)
      BY <1>0, <1>4, <1>5, <3>4
    <3>. QED
      BY <3>3, <3>5
  <2>2. w = Found("command", Append(v.path, list[i].text[1]), v.rest)
    BY <1>6, <2>1
  <2>3. w.rest = v.rest
    BY <2>2 DEF Found
  <2>4. Kept(list, i) = Kept(list, i - 1)
    BY <2>3, KeptMoves DEF v, w
  <2>. QED
    BY <1>12, <2>4
<1>13. CASE i \notin Elements(h)
  <2>1. ~(v.at = "command" /\ Extends(list, v.path, i))
    <3>. SUFFICES ASSUME v.at = "command" /\ Extends(list, v.path, i) PROVE FALSE
      OBVIOUS
    <3>1. w = Found("command", Append(v.path, list[i].text[1]), v.rest)
      BY <1>6
    <3>2. w.path = Append(v.path, list[i].text[1])
      BY <3>1 DEF Found
    <3>3. list[i].text[1] \in STRING
      BY <1>11, ExtendsBy
    <3>4. m = k + 1
      BY <1>10, <1>11, <3>2, <3>3, AppendProperties
    <3>5. m \in 1 .. Len(path) /\ ~(m <= k)
      BY <1>4, <1>5, <1>7, <3>4
    <3>6. h[m] <= i /\ ~(h[m] <= i - 1)
      BY <1>4, <1>5, <3>5
    <3>7. h[m] = i
      BY <1>0, <1>8, <1>9, <3>5, <3>6
    <3>. QED
      BY <1>8, <1>13, <3>5, <3>7
  <2>2. PICK final, j : /\ ParseMoves(Catalog[path], list[i], i, final, j, p, r)
                        /\ final /\ i # Len(list) => w.at \notin {"value", "rest"}
    BY <1>1, <2>1, ParseOnward DEF v, w
  <2>3. i + 1 \in V => i # Len(list) /\ w.at \in {"value", "rest"}
    <3>1. i + 1 \in V => i + 1 \in 1 .. L
      <4>1. \A x \in V : x \in 1 .. L
        BY PartOf
      <4>. QED
        BY <4>1
    <3>2. i + 1 \in V => w.at \in {"value", "rest"}
      BY <1>5
    <3>. QED
      BY <1>0, <1>9, <3>1, <3>2
  <2>4. final => i + 1 \notin V
    BY <2>2, <2>3
  <2>. QED
    BY <1>13, <2>2, <2>4
<1>. QED
  BY <1>12, <1>13

\* What the parse has taken up to the last token that is read for flags.
Taking(list, path, L, a, V, n, k) ==
    LET p == Reader(list)[Kept(list, n)]
    IN  /\ k \in 0 .. Len(a)
        /\ \A j \in 1 .. Len(a) : a[j] <= n <=> j <= k
        /\ p.arguments = SubSeq(a, 1, k)
        /\ p.at = IF Catalog[path].stops /\ a # <<>> /\ n = L THEN "first of arguments"
                  ELSE IF n + 1 \in V THEN "value" ELSE "tokens"

\* One more of the arguments.
LEMMA TakenOneMore ==
    ASSUME NEW a, Ascends(a), NEW k \in 0 .. Len(a), k < Len(a)
    PROVE  Append(SubSeq(a, 1, k), a[k + 1]) = SubSeq(a, 1, k + 1)
<1>1. a \in Seq(Nat) /\ Len(a) \in Nat
  BY DEF Ascends
<1>2. 1 \in 1 .. Len(a) /\ k + 1 \in 1 .. Len(a) /\ k = (k + 1) - 1 /\ a[k + 1] \in Nat
  BY <1>1
<1>3. SubSeq(a, 1, k + 1) = SubSeq(a, 1, (k + 1) - 1) \o <<a[k + 1]>>
  BY <1>1, <1>2, SubSeqRecursiveSecond
<1>4. SubSeq(a, 1, k) \in Seq(Nat)
  BY <1>1
<1>5. Append(SubSeq(a, 1, k), a[k + 1]) = SubSeq(a, 1, k) \o <<a[k + 1]>>
  BY <1>2, <1>4, AppendIsConcat
<1>. QED
  BY <1>2, <1>3, <1>5

\* Up to the last token read for flags, the next one takes the parse to where the reading has it.
LEMMA TakeOn ==
    ASSUME NEW list, IsList(list), NEW path \in DOMAIN Catalog, NEW L, NEW h, NEW q, NEW a, NEW V,
           Says(list, path, L, h, q, a, V), NEW n \in 0 .. L - 1,
           NEW k, Taking(list, path, L, a, V, n, k)
    PROVE  \E m : Taking(list, path, L, a, V, n + 1, m)
<1>. DEFINE i == n + 1
            cmd == Catalog[path]
            p == Reader(list)[Kept(list, n)]
            r == Reader(list)[Kept(list, i)]
            stopped(x) == cmd.stops /\ a # <<>> /\ x = L
<1>1. /\ L \in 0 .. Len(list) /\ Len(h) = Len(path) /\ path \in Seq(STRING) /\ Len(path) \in Nat
      /\ Ascends(h) /\ Ascends(q) /\ Ascends(a)
      /\ \A x \in 1 .. L : x \in Elements(q) \/ x \in V \/ x \in Elements(h) \/ x \in Elements(a)
      /\ \A x \in V : x \in 1 .. L /\ ~(x \in Elements(q) \/ x \in Elements(h) \/ x \in Elements(a)) /\ x - 1 \in Elements(q)
      /\ \A x \in Elements(q) : x \in 1 .. L /\ IsFlag(list[x]) /\ Known(cmd, list[x])
      /\ \A x \in Elements(h) \cup Elements(a) : x \in 1 .. L /\ ~IsFlag(list[x]) /\ list[x] # DashDash
      /\ \A x \in Elements(q) : NeedsNext(cmd, list[x]) <=> x + 1 \in V
      /\ \A x \in Elements(h), y \in Elements(a) : x < y
      /\ \A j \in 1 .. Len(path) : list[h[j]] = Word(<<path[j]>>) /\ h[j] \in Elements(h)
      /\ a # <<>> => a[1] \in Elements(a) /\ \A y \in Elements(a) : a[1] <= y
  BY PartOf
<1>0. /\ Len(list) \in Nat /\ n \in Nat /\ L \in Nat /\ i \in 1 .. Len(list) /\ i - 1 = n /\ i = n + 1
      /\ i \in 1 .. L /\ n # L
  BY <1>1 DEF IsList
<1>2. /\ k \in 0 .. Len(a)
      /\ \A j \in 1 .. Len(a) : a[j] <= n <=> j <= k
      /\ p.arguments = SubSeq(a, 1, k)
      /\ p.at = IF i \in V THEN "value" ELSE "tokens"
  BY <1>0 DEF Taking
<1>3. p = Reader(list)[Kept(list, i - 1)] /\ r = Reader(list)[Kept(list, i)]
  BY <1>0
<1>. HIDE DEF i, cmd, p, r
<1>4. \/ i \in Elements(h) /\ r = p
      \/ /\ i \notin Elements(h)
         /\ \E final, j : ParseMoves(cmd, list[i], i, final, j, p, r) /\ (final => i + 1 \notin V)
  BY <1>0, <1>3, ParseNext DEF cmd
<1>. DEFINE Goal(m) == /\ m \in 0 .. Len(a)
                       /\ \A j \in 1 .. Len(a) : a[j] <= i <=> j <= m
                       /\ r.arguments = SubSeq(a, 1, m)
                       /\ r.at = IF stopped(i) THEN "first of arguments"
                                 ELSE IF i + 1 \in V THEN "value" ELSE "tokens"
<1>5. SUFFICES \E m : Goal(m)
  BY DEF Taking, i, r, cmd
<1>6. \A j \in 1 .. Len(a) : a[j] \in Nat /\ a[j] \in Elements(a)
  BY <1>1, AscendsType
<1>7. i \notin Elements(a) => \A j \in 1 .. Len(a) : a[j] <= i <=> j <= k
  BY <1>0, <1>2, <1>6
<1>8. i \notin Elements(a) => ~stopped(i)
  <2>1. cmd.stops /\ a # <<>> => a = <<L>> /\ a[1] \in Elements(a)
    BY <1>1 DEF Says, cmd
  <2>. QED
    BY <2>1
<1>9. i \notin Elements(q) => i + 1 \notin V
  <2>1. i + 1 \in V => (i + 1) - 1 \in Elements(q)
    BY <1>1
  <2>2. (i + 1) - 1 = i
    BY <1>0
  <2>. QED
    BY <2>1, <2>2
<1>10. CASE i \in Elements(h)
  <2>1. i \notin Elements(q) /\ i \notin V
    BY <1>1, <1>10
  <2>2. i \notin Elements(a)
    <3>1. i \in Elements(a) => i < i
      BY <1>1, <1>10
    <3>. QED
      BY <1>0, <3>1
  <2>3. r = p
    BY <1>4, <1>10
  <2>4. Goal(k)
    BY <1>2, <1>7, <1>8, <1>9, <2>1, <2>2, <2>3
  <2>. QED
    BY <2>4
<1>11. CASE i \notin Elements(h)
  <2>1. PICK final, j : ParseMoves(cmd, list[i], i, final, j, p, r) /\ (final => i + 1 \notin V)
    BY <1>4, <1>11
  <2>2. CASE i \in V
    <3>1. i \notin Elements(q) /\ i \notin Elements(a)
      BY <1>1, <2>2
    <3>2. r = Parsed("tokens", p.flags, p.arguments, p.opaque)
      BY <1>2, <2>1, <2>2 DEF ParseMoves
    <3>3. r.at = "tokens" /\ r.arguments = p.arguments
      BY <3>2 DEF Parsed
    <3>4. Goal(k)
      BY <1>2, <1>7, <1>8, <1>9, <3>1, <3>3
    <3>. QED
      BY <3>4
  <2>3. CASE i \notin V /\ i \in Elements(q)
    <3>1. p.at = "tokens" /\ IsFlag(list[i]) /\ Known(cmd, list[i]) /\ i \notin Elements(a)
      BY <1>1, <1>2, <2>3
    <3>2. NeedsNext(cmd, list[i]) <=> i + 1 \in V
      BY <1>1, <2>3
    <3>3. CASE i + 1 \in V
      <4>1. r = Parsed("value", Append(p.flags, Given(cmd, list[i], i, j)), p.arguments, p.opaque)
        BY <2>1, <3>1, <3>2, <3>3 DEF ParseMoves
      <4>2. r.at = "value" /\ r.arguments = p.arguments
        BY <4>1 DEF Parsed
      <4>3. Goal(k)
        BY <1>2, <1>7, <1>8, <3>1, <3>3, <4>2
      <4>. QED
        BY <4>3
    <3>4. CASE i + 1 \notin V
      <4>1. r = Parsed("tokens", Append(p.flags, Given(cmd, list[i], i, 0)), p.arguments, p.opaque)
        BY <2>1, <3>1, <3>2, <3>4 DEF ParseMoves
      <4>2. r.at = "tokens" /\ r.arguments = p.arguments
        BY <4>1 DEF Parsed
      <4>3. Goal(k)
        BY <1>2, <1>7, <1>8, <3>1, <3>4, <4>2
      <4>. QED
        BY <4>3
    <3>. QED
      BY <3>3, <3>4
  <2>4. CASE i \in Elements(a)
    <3>1. ~IsFlag(list[i]) /\ list[i] # DashDash /\ i \notin V /\ i \notin Elements(q)
      BY <1>1, <2>4
    <3>2. p.at = "tokens"
      BY <1>2, <3>1
    <3>3. r = Parsed(IF cmd.stops THEN "first of arguments" ELSE "tokens",
                     p.flags, Append(p.arguments, i), p.opaque)
      BY <2>1, <3>1, <3>2 DEF ParseMoves
    <3>4. r.at = (IF cmd.stops THEN "first of arguments" ELSE "tokens") /\ r.arguments = Append(p.arguments, i)
      BY <3>3 DEF Parsed
    <3>5. PICK x \in 1 .. Len(a) : a[x] = i
      BY <2>4 DEF Elements
    <3>6. Len(a) \in Nat
      BY <1>1 DEF Ascends
    <3>7. x = k + 1
      <4>1. ~(x <= k)
        BY <1>0, <1>2, <3>5
      <4>2. k + 1 \in 1 .. Len(a) /\ ~(k + 1 <= k)
        BY <1>2, <3>6, <4>1
      <4>3. ~(a[k + 1] <= n) /\ a[k + 1] \in Nat
        BY <1>2, <1>6, <4>2
      <4>4. ~(k + 1 < x)
        <5>1. k + 1 < x => a[k + 1] < a[x]
          BY <1>1, <4>2 DEF Ascends
        <5>. QED
          BY <1>0, <3>5, <4>3, <5>1
      <4>. QED
        BY <1>2, <4>1, <4>4
    <3>8. k < Len(a) /\ k + 1 \in 0 .. Len(a) /\ a[k + 1] = i
      BY <1>2, <3>5, <3>6, <3>7
    <3>9. Append(p.arguments, i) = SubSeq(a, 1, k + 1)
      BY <1>1, <1>2, <3>8, TakenOneMore
    <3>10. \A y \in 1 .. Len(a) : a[y] <= i <=> y <= k + 1
      <4>. TAKE y \in 1 .. Len(a)
      <4>1. (a[y] < a[x] <=> y < x) /\ (a[y] = a[x] <=> y = x)
        BY <1>1, AscendsType
      <4>2. a[y] \in Nat
        BY <1>6
      <4>. QED
        BY <1>0, <1>2, <3>5, <3>7, <4>1, <4>2
    <3>11. stopped(i) <=> cmd.stops
      <4>1. a # <<>>
        BY <2>4, AscendsEmpty
      <4>2. cmd.stops => a = <<L>>
        BY <4>1 DEF Says, cmd
      <4>3. cmd.stops => i = L
        <5>1. a = <<L>> => Len(a) = 1 /\ a[1] = L
          OBVIOUS
        <5>2. Len(a) = 1 => x = 1
          BY <3>5
        <5>3. x = 1 => a[1] = i
          BY <3>5
        <5>. QED
          BY <4>2, <5>1, <5>2, <5>3
      <4>. QED
        BY <4>1, <4>3
    <3>12. Goal(k + 1)
      BY <1>9, <3>1, <3>4, <3>8, <3>9, <3>10, <3>11
    <3>. QED
      BY <3>12
  <2>. QED
    BY <1>0, <1>1, <1>11, <2>2, <2>3, <2>4
<1>. QED
  BY <1>10, <1>11

\* What it has taken behind that token.
Took(list, path, L, a, n) ==
    LET p       == Reader(list)[Kept(list, n)]
        cmd     == Catalog[path]
        stopped == cmd.stops /\ a # <<>>
    IN  /\ p.arguments = Own(cmd, list, L, n, a)
        /\ p.at = IF n = L THEN (IF stopped THEN "first of arguments" ELSE "tokens")
                  ELSE (IF stopped THEN "arguments" ELSE AfterDashes(cmd))

\* So does one behind that.
LEMMA TakeAfter ==
    ASSUME NEW list, IsList(list), NEW path \in DOMAIN Catalog, NEW L, NEW h, NEW q, NEW a, NEW V,
           Says(list, path, L, h, q, a, V), NEW n \in L .. Len(list) - 1,
           Took(list, path, L, a, n)
    PROVE  Took(list, path, L, a, n + 1)
<1>. DEFINE i == n + 1
            cmd == Catalog[path]
            p == Reader(list)[Kept(list, n)]
            r == Reader(list)[Kept(list, i)]
            stopped == cmd.stops /\ a # <<>>
            s == After(list, L, n)
            t == After(list, L, i)
<1>1. L \in 0 .. Len(list) /\ Ascends(a)
  BY PartOf
<1>0. /\ Len(list) \in Nat /\ n \in Nat /\ L \in Nat /\ i \in 1 .. Len(list) /\ i - 1 = n /\ i = n + 1
      /\ L <= n /\ L < i
  BY <1>1 DEF IsList
<1>2. i \notin Elements(h)
  <2>1. \A x \in Elements(h) \cup Elements(a) : x \in 1 .. L
    BY PartOf
  <2>. QED
    BY <1>0, <2>1
<1>3. p.arguments = Own(cmd, list, L, n, a)
      /\ p.at = IF n = L THEN (IF stopped THEN "first of arguments" ELSE "tokens")
                ELSE (IF stopped THEN "arguments" ELSE AfterDashes(cmd))
  BY DEF Took
<1>4. p = Reader(list)[Kept(list, i - 1)] /\ r = Reader(list)[Kept(list, i)]
  BY <1>0
<1>5. s \in Seq(Nat) /\ a \in Seq(Nat) /\ After(list, L, L) = <<>>
  BY <1>0, <1>1, AfterOneMore DEF Ascends
<1>6. n = L /\ list[i] = DashDash => t = <<>>
  <2>1. n = L /\ list[n + 1] = DashDash => After(list, n, n + 1) = <<>>
    BY <1>0, AfterDashFirst
  <2>. QED
    BY <1>0, <2>1
<1>7. ~(n = L /\ list[i] = DashDash) => t = Append(s, i)
  <2>1. ~(L = n /\ list[n + 1] = DashDash) => After(list, L, n + 1) = Append(s, n + 1)
    BY <1>0, AfterAnother
  <2>. QED
    BY <1>0, <2>1
<1>8. ~stopped /\ n = L => list[i] = DashDash
  BY <1>0 DEF Says
<1>9. /\ Own(cmd, list, L, n, a) = a \o (IF Passes(cmd, a) THEN <<>> ELSE s)
      /\ Own(cmd, list, L, i, a) = a \o (IF Passes(cmd, a) THEN <<>> ELSE t)
      /\ Passes(cmd, a) <=> cmd.passThrough /\ ~stopped
  BY DEF Own, Passes
<1>10. Append(a \o s, i) = a \o Append(s, i)
  <2>1. i \in Nat
    BY <1>0
  <2>. QED
    BY <1>5, <2>1, ConcatAppend
<1>. HIDE DEF i, cmd, p, r, stopped, s, t
<1>11. PICK final, j : ParseMoves(cmd, list[i], i, final, j, p, r)
  <2>1. \/ i \in Elements(h) /\ r = p
        \/ /\ i \notin Elements(h)
           /\ \E final, j : ParseMoves(cmd, list[i], i, final, j, p, r) /\ (final => i + 1 \notin V)
    <3>1. i \in 1 .. Len(list)
      BY <1>0
    <3>. QED
      BY <1>4, <3>1, ParseNext DEF cmd
  <2>. QED
    BY <1>2, <2>1
<1>12. r.arguments = Own(cmd, list, L, i, a) /\ r.at = IF stopped THEN "arguments" ELSE AfterDashes(cmd)
  <2>1. CASE stopped
    <3>1. p.arguments = a \o s /\ Own(cmd, list, L, i, a) = a \o t
      BY <1>3, <1>9, <2>1
    <3>2. CASE n = L /\ list[i] = DashDash
      <4>1. r = Parsed("arguments", p.flags, p.arguments, p.opaque)
        BY <1>3, <1>11, <2>1, <3>2 DEF ParseMoves
      <4>2. s = <<>> /\ t = <<>>
        BY <1>5, <1>6, <3>2 DEF s
      <4>3. r.arguments = p.arguments /\ r.at = "arguments"
        BY <4>1 DEF Parsed
      <4>. QED
        BY <2>1, <3>1, <4>2, <4>3
    <3>3. CASE ~(n = L /\ list[i] = DashDash)
      <4>1. r = Parsed("arguments", p.flags, Append(p.arguments, i), p.opaque)
        BY <1>3, <1>11, <2>1, <3>3 DEF ParseMoves
      <4>2. r.arguments = Append(p.arguments, i) /\ r.at = "arguments"
        BY <4>1 DEF Parsed
      <4>. QED
        BY <1>7, <1>10, <2>1, <3>1, <3>3, <4>2
    <3>. QED
      BY <3>2, <3>3
  <2>2. CASE ~stopped /\ n = L
    <3>1. list[i] = DashDash /\ s = <<>> /\ t = <<>> /\ p.at = "tokens"
      BY <1>3, <1>5, <1>6, <1>8, <2>2 DEF s
    <3>2. r = Parsed(AfterDashes(cmd), p.flags, p.arguments, p.opaque)
      BY <1>11, <3>1 DEF ParseMoves
    <3>3. r.arguments = p.arguments /\ r.at = AfterDashes(cmd)
      BY <3>2 DEF Parsed
    <3>. QED
      BY <1>3, <1>9, <2>2, <3>1, <3>3
  <2>3. CASE ~stopped /\ n # L
    <3>1. p.at = AfterDashes(cmd) /\ t = Append(s, i)
      BY <1>3, <1>7, <2>3
    <3>2. CASE cmd.passThrough
      <4>1. p.at = "opaque" /\ AfterDashes(cmd) = "opaque"
        BY <3>1, <3>2 DEF AfterDashes
      <4>2. r = Parsed("opaque", p.flags, p.arguments, Append(p.opaque, i))
        BY <1>11, <4>1 DEF ParseMoves
      <4>3. r.arguments = p.arguments /\ r.at = "opaque"
        BY <4>2 DEF Parsed
      <4>. QED
        BY <1>3, <1>9, <2>3, <3>2, <4>1, <4>3
    <3>3. CASE ~cmd.passThrough
      <4>1. p.at = "arguments" /\ AfterDashes(cmd) = "arguments"
        BY <3>1, <3>3 DEF AfterDashes
      <4>2. r = Parsed("arguments", p.flags, Append(p.arguments, i), p.opaque)
        BY <1>11, <4>1 DEF ParseMoves
      <4>3. r.arguments = Append(p.arguments, i) /\ r.at = "arguments"
        BY <4>2 DEF Parsed
      <4>. QED
        BY <1>3, <1>9, <1>10, <2>3, <3>1, <3>3, <4>1, <4>3
    <3>. QED
      BY <3>2, <3>3
  <2>. QED
    BY <2>1, <2>2, <2>3
<1>13. i # L
  BY <1>0
<1>. QED
  BY <1>12, <1>13 DEF Took, i, r, cmd, stopped

\* Nor is the parse at a loss, and what it has taken is what the list says.
LEMMA ParseTakes ==
    ASSUME NEW list, IsList(list), NEW path \in DOMAIN Catalog, NEW L, NEW h, NEW q, NEW a, NEW V,
           Says(list, path, L, h, q, a, V)
    PROVE  LET p == Reader(list)[Len(Left(list))]
           IN  p.at # "refused" /\ p.arguments = Own(Catalog[path], list, L, Len(list), a)
<1>. DEFINE cmd == Catalog[path]
            S == {n \in 0 .. L : \E k : Taking(list, path, L, a, V, n, k)}
            T == {d \in 0 .. Len(list) - L : Took(list, path, L, a, L + d)}
<1>1. L \in 0 .. Len(list) /\ Ascends(a) /\ Ascends(q)
  BY PartOf
<1>0. Len(list) \in Nat /\ L \in Nat /\ Len(a) \in Nat /\ a \in Seq(Nat) /\ Len(list) - L \in Nat
  <2>1. Len(list) \in Nat
    BY DEF IsList
  <2>2. a \in Seq(Nat)
    BY <1>1 DEF Ascends
  <2>. QED
    BY <1>1, <2>1, <2>2
<1>2. \A x \in Elements(a) \cup Elements(h) : x \in 1 .. L
  BY PartOf
<1>3. \A x \in V : x - 1 \in Elements(q) /\ x \in 1 .. L
  BY PartOf
<1>4. \A x \in Elements(q) : x \in 1 .. L
  BY PartOf
<1>5. \A j \in 1 .. Len(a) : a[j] \in 1 .. L
  BY <1>2 DEF Elements
<1>6. cmd.stops /\ a # <<>> => a = <<L>>
  BY DEF Says
<1>7. 0 \in S
  <2>. DEFINE p == Reader(list)[Kept(list, 0)]
  <2>1. p.at = "tokens" /\ p.arguments = <<>>
    BY LeftTypes DEF Parsed
  <2>. HIDE DEF p
  <2>2. SubSeq(a, 1, 0) = <<>>
    BY <1>0
  <2>3. \A j \in 1 .. Len(a) : a[j] <= 0 <=> j <= 0
    BY <1>0, <1>5
  <2>4. 0 + 1 \notin V
    <3>1. 0 + 1 \in V => (0 + 1) - 1 \in 1 .. L
      BY <1>3, <1>4
    <3>. QED
      BY <1>0, <3>1
  <2>5. ~(cmd.stops /\ a # <<>> /\ 0 = L)
    <3>1. a # <<>> => 1 \in 1 .. Len(a)
      BY <1>0
    <3>2. a # <<>> => a[1] \in 1 .. L
      BY <1>5, <3>1
    <3>. QED
      BY <1>0, <3>2
  <2>6. 0 \in 0 .. Len(a)
    BY <1>0
  <2>7. Taking(list, path, L, a, V, 0, 0)
    BY <2>1, <2>2, <2>3, <2>4, <2>5, <2>6 DEF Taking, p
  <2>. QED
    BY <1>0, <2>7
<1>8. ASSUME NEW n \in 0 .. L - 1, n \in S PROVE n + 1 \in S
  <2>1. PICK k : Taking(list, path, L, a, V, n, k)
    BY <1>8
  <2>2. \E m : Taking(list, path, L, a, V, n + 1, m)
    BY <2>1, TakeOn
  <2>3. n + 1 \in 0 .. L
    BY <1>0
  <2>. QED
    BY <2>2, <2>3
<1>9. PICK k : Taking(list, path, L, a, V, L, k)
  <2>. HIDE DEF S
  <2>1. \A n \in 0 .. L : n \in S
    BY <1>0, <1>7, <1>8, UpTo
  <2>2. L \in 0 .. L
    BY <1>0
  <2>. QED
    BY <2>1, <2>2 DEF S
<1>10. Took(list, path, L, a, L)
  <2>. DEFINE p == Reader(list)[Kept(list, L)]
  <2>1. /\ k \in 0 .. Len(a)
        /\ \A j \in 1 .. Len(a) : a[j] <= L <=> j <= k
        /\ p.arguments = SubSeq(a, 1, k)
        /\ p.at = IF cmd.stops /\ a # <<>> THEN "first of arguments"
                  ELSE IF L + 1 \in V THEN "value" ELSE "tokens"
    BY <1>9 DEF Taking
  <2>. HIDE DEF p
  <2>2. k = Len(a)
    <3>. SUFFICES ASSUME k # Len(a) PROVE FALSE
      OBVIOUS
    <3>1. k \in 0 .. Len(a) /\ \A j \in 1 .. Len(a) : a[j] <= L <=> j <= k
      BY <2>1
    <3>2. Len(a) \in 1 .. Len(a) /\ ~(Len(a) <= k)
      BY <1>0, <3>1
    <3>3. a[Len(a)] \in 1 .. L /\ ~(a[Len(a)] <= L)
      BY <1>5, <3>1, <3>2
    <3>. QED
      BY <1>0, <3>3
  <2>3. p.arguments = a
    BY <1>0, <2>1, <2>2, SubSeqFull
  <2>4. L + 1 \notin V
    BY <1>0, <1>3
  <2>5. Own(cmd, list, L, L, a) = a
    BY <1>0, <1>1, OwnAtLast
  <2>. QED
    BY <2>1, <2>3, <2>4, <2>5 DEF Took, p
<1>11. 0 \in T
  BY <1>0, <1>10
<1>12. ASSUME NEW d \in 0 .. (Len(list) - L) - 1, d \in T PROVE d + 1 \in T
  <2>. DEFINE n == L + d
  <2>1. n \in L .. Len(list) - 1 /\ Took(list, path, L, a, n) /\ n + 1 = L + (d + 1) /\ d + 1 \in 0 .. Len(list) - L
    BY <1>0, <1>12
  <2>. HIDE DEF n
  <2>2. Took(list, path, L, a, n + 1)
    BY <2>1, TakeAfter
  <2>. QED
    BY <2>1, <2>2
<1>13. Took(list, path, L, a, Len(list))
  <2>. HIDE DEF T
  <2>1. \A d \in 0 .. Len(list) - L : d \in T
    BY <1>0, <1>11, <1>12, UpTo
  <2>2. Len(list) - L \in 0 .. Len(list) - L /\ L + (Len(list) - L) = Len(list)
    BY <1>0
  <2>3. Len(list) - L \in T
    BY <2>1, <2>2
  <2>. QED
    BY <2>2, <2>3 DEF T
<1>14. Kept(list, Len(list)) = Len(Left(list))
  BY LeftTypes
<1>. DEFINE p == Reader(list)[Len(Left(list))]
<1>15. p.arguments = Own(cmd, list, L, Len(list), a)
       /\ p.at \in {"first of arguments", "tokens", "arguments", AfterDashes(cmd)}
  BY <1>13, <1>14 DEF Took
<1>. QED
  BY <1>15 DEF AfterDashes

\* A list that has a reading is resolved to the command that it says, whatever the
\* list and the catalog (resolve.go:7-9).
THEOREM NoListIsRefusedUnread ==
    ASSUME NEW list, IsList(list)
    PROVE  RefusedIfUnread(list)
<1>. SUFFICES ASSUME NEW path \in DOMAIN Catalog, NEW r \in Readings(list),
                     IsReading(list, path, r), StartsPlainly(list, path, r),
                     Fits(Catalog[path], list, ArgumentsRead(list, path, r))
              PROVE  Argv(list).ok /\ Argv(list).path = path
  BY DEF RefusedIfUnread
<1>. DEFINE L == r.last
            h == SubSeq(WordsIn(list, r), 1, Len(path))
            q == FlagsIn(list, r)
            a == Plain(list, path, r)
            V == r.values
            p == Reader(list)[Len(Left(list))]
<1>1. Says(list, path, L, h, q, a, V)
  BY ReadingSays
<1>2. AfterLast(list, r) = After(list, L, Len(list))
  BY DEF AfterLast, After
<1>3. ArgumentsRead(list, path, r) = Own(Catalog[path], list, L, Len(list), a)
  BY <1>2 DEF ArgumentsRead, Own, Forwards, Passes, Stopped
<1>. HIDE DEF L, h, q, a, V
<1>4. Meant(list) = path /\ FindCommand(list).at # "refused"
  BY <1>1, WalkFinds
<1>5. p.at # "refused" /\ p.arguments = Own(Catalog[path], list, L, Len(list), a)
  BY <1>1, ParseTakes
<1>6. Survives(list)
  BY <1>4, <1>5 DEF Survives
<1>. HIDE DEF p
<1>7. Fits(Catalog[Meant(list)], list, p.arguments)
  BY <1>3, <1>4, <1>5
<1>8. Argv(list).ok
  BY <1>6, <1>7, ArgvIs DEF p
<1>9. Argv(list) = [ok |-> TRUE, path |-> Meant(list), flags |-> p.flags,
                    arguments |-> p.arguments, opaque |-> p.opaque]
  BY <1>8, ArgvIs DEF p
<1>. QED
  BY <1>4, <1>8, <1>9

\* So no list that is typed and that says something to a command is refused for how it
\* says it: only for what its command does not take (resolve.go:7-9).
THEOREM TypedListsAreNotRefusedUnread == ListsSpec => []RefusesTheUnread
<1>1. IsList(argv) => RefusesTheUnread
  BY NoListIsRefusedUnread DEF RefusesTheUnread
<1>. QED
  BY <1>1, StaysTyped, PTL

--------------------------------------------------------------------------
(* Walks along paths *)

\* A walk along some elements, step by step.
LEMMA AlongIs ==
    ASSUME NEW at, NEW elements, Len(elements) \in Nat
    PROVE  Along(at, elements) = [n \in 0 .. Len(elements) |->
               IF n = 0 THEN at ELSE Step(Along(at, elements)[n - 1], elements[n])]
<1>. DEFINE N == Len(elements)
            Runs(m, g) == g = [n \in 0 .. m |-> IF n = 0 THEN at
                                                ELSE Step(g[n - 1], elements[n])]
            S == {m \in 0 .. N : \E g : Runs(m, g)}
<1>1. 0 \in S
  <2>1. Runs(0, [n \in 0 .. 0 |-> at])
    OBVIOUS
  <2>. HIDE DEF Runs
  <2>. QED
    BY <2>1
<1>2. ASSUME NEW m \in 0 .. N - 1, m \in S PROVE m + 1 \in S
  <2>1. PICK g : Runs(m, g)
    BY <1>2
  <2>. DEFINE h == [n \in 0 .. m + 1 |-> IF n = m + 1 THEN Step(g[m], elements[m + 1]) ELSE g[n]]
  <2>2. \A n \in 0 .. m : h[n] = g[n]
    OBVIOUS
  <2>3. \A n \in 0 .. m + 1 : h[n] = IF n = 0 THEN at
                                     ELSE Step(h[n - 1], elements[n])
    <3>. TAKE n \in 0 .. m + 1
    <3>1. CASE n = m + 1
      <4>1. n # 0 /\ n - 1 = m /\ h[m] = g[m] /\ h[n] = Step(g[m], elements[m + 1])
        BY <2>2, <3>1
      <4>. QED
        BY <3>1, <4>1
    <3>2. CASE n # m + 1
      <4>1. n \in 0 .. m /\ h[n] = g[n]
        BY <3>2
      <4>2. n # 0 => n - 1 \in 0 .. m /\ h[n - 1] = g[n - 1]
        BY <4>1
      <4>3. g[n] = IF n = 0 THEN at ELSE Step(g[n - 1], elements[n])
        BY <2>1, <4>1
      <4>. HIDE DEF h
      <4>. QED
        BY <4>1, <4>2, <4>3
    <3>. QED
      BY <3>1, <3>2
  <2>4. h = [n \in 0 .. m + 1 |-> h[n]]
    OBVIOUS
  <2>5. Runs(m + 1, h)
    <3>. HIDE DEF h
    <3>. QED
      BY <2>3, <2>4
  <2>. HIDE DEF Runs
  <2>. QED
    BY <2>5
<1>3. \E g : Runs(N, g)
  <2>1. N \in S
    <3>1. N \in Nat /\ N \in 0 .. N
      OBVIOUS
    <3>. HIDE DEF N, S
    <3>2. \A n \in 0 .. N : n \in S
      BY <1>1, <1>2, <3>1, UpTo
    <3>. QED
      BY <3>1, <3>2
  <2>. HIDE DEF Runs
  <2>. QED
    BY <2>1
<1>4. Along(at, elements) = CHOOSE g : Runs(N, g)
  BY DEF Along
<1>5. Runs(N, Along(at, elements))
  <2>. HIDE DEF Runs
  <2>. QED
    BY <1>3, <1>4
<1>. QED
  BY <1>5

\* filepath.Clean, element by element.
LEMMA CleanedIs ==
    ASSUME NEW path, Len(path.elements) \in Nat
    PROVE  Cleaned(path) = [n \in 0 .. Len(path.elements) |->
               IF n = 0 THEN <<>> ELSE CleanOn(path, Cleaned(path)[n - 1], path.elements[n])]
<1>. DEFINE N == Len(path.elements)
            Runs(m, g) == g = [n \in 0 .. m |-> IF n = 0 THEN <<>>
                                                ELSE CleanOn(path, g[n - 1], path.elements[n])]
            S == {m \in 0 .. N : \E g : Runs(m, g)}
<1>1. 0 \in S
  <2>1. Runs(0, [n \in 0 .. 0 |-> <<>>])
    OBVIOUS
  <2>. HIDE DEF Runs
  <2>. QED
    BY <2>1
<1>2. ASSUME NEW m \in 0 .. N - 1, m \in S PROVE m + 1 \in S
  <2>1. PICK g : Runs(m, g)
    BY <1>2
  <2>. DEFINE h == [n \in 0 .. m + 1 |-> IF n = m + 1 THEN CleanOn(path, g[m], path.elements[m + 1]) ELSE g[n]]
  <2>2. \A n \in 0 .. m : h[n] = g[n]
    OBVIOUS
  <2>3. \A n \in 0 .. m + 1 : h[n] = IF n = 0 THEN <<>>
                                     ELSE CleanOn(path, h[n - 1], path.elements[n])
    <3>. TAKE n \in 0 .. m + 1
    <3>1. CASE n = m + 1
      <4>1. n # 0 /\ n - 1 = m /\ h[m] = g[m] /\ h[n] = CleanOn(path, g[m], path.elements[m + 1])
        BY <2>2, <3>1
      <4>. QED
        BY <3>1, <4>1
    <3>2. CASE n # m + 1
      <4>1. n \in 0 .. m /\ h[n] = g[n]
        BY <3>2
      <4>2. n # 0 => n - 1 \in 0 .. m /\ h[n - 1] = g[n - 1]
        BY <4>1
      <4>3. g[n] = IF n = 0 THEN <<>> ELSE CleanOn(path, g[n - 1], path.elements[n])
        BY <2>1, <4>1
      <4>. HIDE DEF h
      <4>. QED
        BY <4>1, <4>2, <4>3
    <3>. QED
      BY <3>1, <3>2
  <2>4. h = [n \in 0 .. m + 1 |-> h[n]]
    OBVIOUS
  <2>5. Runs(m + 1, h)
    <3>. HIDE DEF h
    <3>. QED
      BY <2>3, <2>4
  <2>. HIDE DEF Runs
  <2>. QED
    BY <2>5
<1>3. \E g : Runs(N, g)
  <2>1. N \in S
    <3>1. N \in Nat /\ N \in 0 .. N
      OBVIOUS
    <3>. HIDE DEF N, S
    <3>2. \A n \in 0 .. N : n \in S
      BY <1>1, <1>2, <3>1, UpTo
    <3>. QED
      BY <3>1, <3>2
  <2>. HIDE DEF Runs
  <2>. QED
    BY <2>1
<1>4. Cleaned(path) = CHOOSE g : Runs(N, g)
  BY DEF Cleaned
<1>5. Runs(N, Cleaned(path))
  <2>. HIDE DEF Runs
  <2>. QED
    BY <1>3, <1>4
<1>. QED
  BY <1>5

\* The empty text, by a name that every prover reads.
Blank == ""

\* Where a walk is: in a directory that is named without "." and "..".
IsPlace(at) == at \in Seq(STRING) /\ \A k \in 1 .. Len(at) : at[k] \notin {Blank, ".", ".."}

\* What stands between the separators of a path is a text that is not empty.
LEMMA ElementsAre ==
    ASSUME NEW elements, IsElements(elements)
    PROVE  /\ elements \in Seq(STRING) /\ Len(elements) \in Nat
           /\ \A k \in 1 .. Len(elements) : elements[k] \in STRING /\ elements[k] # Blank
<1>1. elements \in Seq(STRING)
  BY DEF IsElements
<1>2. Len(elements) \in Nat /\ DOMAIN elements = 1 .. Len(elements)
  BY <1>1
<1>3. \A k \in 1 .. Len(elements) : elements[k] \in STRING
  BY <1>1
<1>4. \A k \in 1 .. Len(elements) : elements[k] # Blank
  <2>1. Blank \notin Range(elements)
    BY DEF IsElements, Blank
  <2>. QED
    BY <1>2, <2>1 DEF Range
<1>. QED
  BY <1>1, <1>2, <1>3, <1>4

\* The three kinds of step.
LEMMA StepIs ==
    ASSUME NEW at, NEW element
    PROVE  /\ element = "." => Step(at, element) = at
           /\ element = ".." => Step(at, element) = IF at = <<>> THEN at ELSE Front(at)
           /\ element # "." /\ element # ".." => Step(at, element) = Append(at, element)
<1>1. "." # ".."
  OBVIOUS
<1>2. Step(at, element) = CASE element = "."  -> at
                            [] element = ".." -> IF at = <<>> THEN at ELSE Front(at)
                            [] OTHER          -> Append(at, element)
  BY Zenon DEF Step
<1>. QED
  BY <1>1, <1>2

\* A step from a place leads to a place,
LEMMA StepPlace ==
    ASSUME NEW at, IsPlace(at), NEW element \in STRING, element # Blank
    PROVE  IsPlace(Step(at, element))
<1>1. at \in Seq(STRING) /\ Len(at) \in Nat /\ \A k \in 1 .. Len(at) : at[k] \notin {Blank, ".", ".."}
  BY DEF IsPlace
<1>2. CASE element = "."
  BY <1>2, StepIs
<1>3. CASE element = ".."
  <2>1. CASE at = <<>>
    BY <1>3, <2>1, StepIs
  <2>2. CASE at # <<>>
    <3>1. Step(at, element) = SubSeq(at, 1, Len(at) - 1)
      BY <1>3, <2>2, StepIs DEF Front
    <3>2. Len(at) - 1 \in 0 .. Len(at)
      BY <1>1, <2>2
    <3>. DEFINE s == SubSeq(at, 1, Len(at) - 1)
            m == Len(at) - 1
    <3>3. m \in 0 .. Len(at)
      BY <3>2
    <3>4. s = SubSeq(at, 1, m)
      OBVIOUS
    <3>. HIDE DEF s, m
    <3>5. s \in Seq(STRING) /\ Len(s) = m /\ \A k \in 1 .. m : s[k] = at[k]
      BY <1>1, <3>3, <3>4, BeginningOf
    <3>6. \A k \in 1 .. m : k \in 1 .. Len(at)
      BY <1>1, <3>3
    <3>7. IsPlace(s)
      BY <1>1, <3>5, <3>6 DEF IsPlace
    <3>. QED
      BY <3>1, <3>7 DEF s
  <2>. QED
    BY <2>1, <2>2
<1>4. CASE element # "." /\ element # ".."
  <2>1. Step(at, element) = Append(at, element)
    BY <1>4, StepIs
  <2>. DEFINE s == Append(at, element)
  <2>2. /\ s \in Seq(STRING) /\ Len(s) = Len(at) + 1 /\ s[Len(at) + 1] = element
        /\ \A k \in 1 .. Len(at) : s[k] = at[k]
    BY <1>1, AppendProperties
  <2>. HIDE DEF s
  <2>3. \A k \in 1 .. Len(s) : s[k] \notin {Blank, ".", ".."}
    <3>. TAKE k \in 1 .. Len(s)
    <3>1. CASE k \in 1 .. Len(at)
      BY <1>1, <2>2, <3>1
    <3>2. CASE k = Len(at) + 1
      BY <1>4, <2>2, <3>2
    <3>. QED
      BY <1>1, <2>2, <3>1, <3>2
  <2>4. IsPlace(s)
    BY <2>2, <2>3 DEF IsPlace
  <2>. QED
    BY <2>1, <2>4 DEF s
<1>. QED
  BY <1>2, <1>3, <1>4

\* and so does a walk.
LEMMA AlongPlace ==
    ASSUME NEW at, IsPlace(at), NEW elements, IsElements(elements)
    PROVE  \A n \in 0 .. Len(elements) : IsPlace(Along(at, elements)[n])
<1>. DEFINE S == {n \in 0 .. Len(elements) : IsPlace(Along(at, elements)[n])}
<1>0. Len(elements) \in Nat /\ \A k \in 1 .. Len(elements) : elements[k] \in STRING /\ elements[k] # Blank
  BY ElementsAre
<1>1. 0 \in S
  <2>1. Along(at, elements)[0] = at
    BY <1>0, AlongIs
  <2>. QED
    BY <1>0, <2>1
<1>2. ASSUME NEW n \in 0 .. Len(elements) - 1, n \in S PROVE n + 1 \in S
  <2>. DEFINE before == Along(at, elements)[n]
              i == n + 1
  <2>1. i \in 1 .. Len(elements) /\ i - 1 = n /\ i \in 0 .. Len(elements) /\ i # 0
    BY <1>0
  <2>. HIDE DEF i
  <2>2. Along(at, elements)[i] = Step(Along(at, elements)[i - 1], elements[i])
    BY <1>0, <2>1, AlongIs
  <2>3. Along(at, elements)[i] = Step(before, elements[i])
    BY <2>1, <2>2
  <2>4. IsPlace(before)
    BY <1>2
  <2>. HIDE DEF before
  <2>5. elements[i] \in STRING /\ elements[i] # Blank
    BY <1>0, <2>1
  <2>6. IsPlace(Step(before, elements[i]))
    BY <2>4, <2>5, StepPlace
  <2>. QED
    BY <2>1, <2>3, <2>6 DEF i
<1>. HIDE DEF S
<1>3. \A n \in 0 .. Len(elements) : n \in S
  BY <1>0, <1>1, <1>2, UpTo
<1>. QED
  BY <1>3 DEF S

\* filepath.Clean of an absolute path is where a walk along it ends.
LEMMA CleanIs ==
    ASSUME NEW path, path.absolute = TRUE, IsElements(path.elements)
    PROVE  Clean(path) = Path(TRUE, Walked(<<>>, path.elements)) /\ IsPlace(Walked(<<>>, path.elements))
<1>. DEFINE elements == path.elements
            c(n) == Cleaned(path)[n]
            w(n) == Along(<<>>, elements)[n]
            S == {n \in 0 .. Len(elements) : c(n) = w(n)}
<1>0. Len(elements) \in Nat /\ \A k \in 1 .. Len(elements) : elements[k] \in STRING /\ elements[k] # Blank
  BY ElementsAre
<1>1. path.elements = elements /\ path.absolute = TRUE /\ IsElements(elements)
  OBVIOUS
<1>. HIDE DEF elements
<1>2. \A n \in 0 .. Len(elements) : IsPlace(w(n))
  <2>1. IsPlace(<<>>)
    BY DEF IsPlace
  <2>. QED
    BY <1>1, <2>1, AlongPlace
<1>3. 0 \in S
  <2>1. w(0) = <<>>
    BY <1>0, AlongIs
  <2>2. c(0) = <<>>
    BY <1>0, <1>1, CleanedIs
  <2>. QED
    BY <1>0, <2>1, <2>2
<1>4. ASSUME NEW n \in 0 .. Len(elements) - 1, n \in S PROVE n + 1 \in S
  <2>. DEFINE i == n + 1
              x == elements[i]
              at == w(n)
  <2>1. i \in 1 .. Len(elements) /\ i - 1 = n /\ i \in 0 .. Len(elements) /\ i # 0 /\ n \in 0 .. Len(elements)
    BY <1>0
  <2>. HIDE DEF i
  <2>2. w(i) = Step(w(i - 1), elements[i])
    BY <1>0, <2>1, AlongIs
  <2>3. c(i) = CleanOn(path, c(i - 1), path.elements[i])
    BY <1>0, <1>1, <2>1, CleanedIs
  <2>4. w(i) = Step(at, x) /\ c(i) = CleanOn(path, at, x)
    BY <1>1, <1>4, <2>1, <2>2, <2>3
  <2>5. IsPlace(at)
    BY <1>2, <2>1
  <2>. HIDE DEF x, at
  <2>6. at # <<>> => Last(at) # ".."
    <3>1. at \in Seq(STRING) /\ \A k \in 1 .. Len(at) : at[k] # ".."
      BY <2>5 DEF IsPlace
    <3>2. at # <<>> => Len(at) \in 1 .. Len(at)
      BY <3>1
    <3>. QED
      BY <3>1, <3>2 DEF Last
  <2>7. CleanOn(path, at, x) = Step(at, x)
    <3>1. CASE x = "."
      BY <3>1, StepIs DEF CleanOn
    <3>2. CASE x = ".."
      <4>1. Step(at, x) = IF at = <<>> THEN at ELSE Front(at)
        BY <3>2, StepIs
      <4>2. CleanOn(path, at, x) = IF at # <<>> /\ Last(at) # ".." THEN Front(at) ELSE at
        BY <1>1, <3>2 DEF CleanOn
      <4>. QED
        BY <2>6, <4>1, <4>2
    <3>3. CASE x # "." /\ x # ".."
      BY <3>3, StepIs DEF CleanOn
    <3>. QED
      BY <3>1, <3>2, <3>3
  <2>8. c(i) = w(i)
    BY <2>4, <2>7
  <2>. QED
    BY <2>1, <2>8 DEF i
<1>5. \A n \in 0 .. Len(elements) : n \in S
  <2>. HIDE DEF S
  <2>. QED
    BY <1>0, <1>3, <1>4, UpTo
<1>6. Len(elements) \in 0 .. Len(elements)
  BY <1>0
<1>7. c(Len(elements)) = w(Len(elements)) /\ IsPlace(w(Len(elements)))
  BY <1>2, <1>5, <1>6
<1>8. Clean(path) = Path(TRUE, c(Len(elements)))
  BY <1>1 DEF Clean
<1>9. Walked(<<>>, elements) = w(Len(elements))
  BY DEF Walked
<1>. QED
  BY <1>7, <1>8, <1>9 DEF elements

\* The same of a path given by its elements.
LEMMA CleanedWalks ==
    ASSUME NEW elements, IsElements(elements)
    PROVE  Clean(Path(TRUE, elements)) = Path(TRUE, Walked(<<>>, elements)) /\ IsPlace(Walked(<<>>, elements))
<1>. DEFINE path == Path(TRUE, elements)
<1>1. path.elements = elements /\ path.absolute = TRUE
  BY DEF Path
<1>. HIDE DEF path
<1>2. Clean(path) = Path(TRUE, Walked(<<>>, path.elements)) /\ IsPlace(Walked(<<>>, path.elements))
  BY <1>1, CleanIs
<1>. QED
  BY <1>1, <1>2 DEF path

\* A walk along two paths is a walk along the one, and from where it ends the other.
LEMMA WalkedFurther ==
    ASSUME NEW u, IsElements(u), NEW e, IsElements(e)
    PROVE  IsElements(u \o e) /\ Walked(<<>>, u \o e) = Walked(Walked(<<>>, u), e)
<1>. DEFINE b == u \o e
            s(n) == Along(<<>>, b)[n]
            f(n) == Along(<<>>, u)[n]
            at == Walked(<<>>, u)
            g(n) == Along(at, e)[n]
            S == {n \in 0 .. Len(u) : s(n) = f(n)}
            T == {n \in 0 .. Len(e) : s(Len(u) + n) = g(n)}
<1>1. /\ u \in Seq(STRING) /\ Len(u) \in Nat /\ \A k \in 1 .. Len(u) : u[k] \in STRING /\ u[k] # Blank
      /\ e \in Seq(STRING) /\ Len(e) \in Nat /\ \A k \in 1 .. Len(e) : e[k] \in STRING /\ e[k] # Blank
  BY ElementsAre
<1>2. /\ b \in Seq(STRING) /\ Len(b) = Len(u) + Len(e) /\ Len(b) \in Nat
      /\ \A k \in 1 .. Len(u) : b[k] = u[k]
      /\ \A k \in 1 .. Len(e) : b[Len(u) + k] = e[k]
  <2>1. b \in Seq(STRING) /\ Len(b) = Len(u) + Len(e)
    BY <1>1, ConcatProperties
  <2>2. \A i \in 1 .. Len(u) + Len(e) : b[i] = IF i <= Len(u) THEN u[i] ELSE e[i - Len(u)]
    BY <1>1, ConcatProperties
  <2>3. \A k \in 1 .. Len(u) : k \in 1 .. Len(u) + Len(e) /\ k <= Len(u)
    BY <1>1
  <2>4. \A k \in 1 .. Len(e) : Len(u) + k \in 1 .. Len(u) + Len(e) /\ ~(Len(u) + k <= Len(u)) /\ (Len(u) + k) - Len(u) = k
    BY <1>1
  <2>. HIDE DEF b
  <2>5. \A k \in 1 .. Len(u) : b[k] = u[k]
    BY <2>2, <2>3
  <2>6. \A k \in 1 .. Len(e) : b[Len(u) + k] = e[k]
    BY <2>2, <2>4
  <2>. QED
    BY <1>1, <2>1, <2>5, <2>6
<1>. HIDE DEF b
<1>3. IsElements(b)
  <2>1. ASSUME NEW k \in 1 .. Len(b) PROVE b[k] # Blank
    <3>1. CASE k \in 1 .. Len(u)
      BY <1>1, <1>2, <3>1
    <3>2. CASE k \notin 1 .. Len(u)
      <4>1. k - Len(u) \in 1 .. Len(e) /\ Len(u) + (k - Len(u)) = k
        BY <1>1, <1>2, <3>2
      <4>. QED
        BY <1>1, <1>2, <4>1
    <3>. QED
      BY <3>1, <3>2
  <2>2. DOMAIN b = 1 .. Len(b) /\ b \in Seq(STRING)
    BY <1>2
  <2>3. Blank \notin Range(b)
    BY <2>1, <2>2 DEF Range
  <2>. QED
    BY <2>2, <2>3 DEF IsElements, Blank
<1>4. 0 \in S
  <2>1. s(0) = <<>> /\ f(0) = <<>>
    BY <1>1, <1>2, AlongIs
  <2>. QED
    BY <1>1, <2>1
<1>5. ASSUME NEW n \in 0 .. Len(u) - 1, n \in S PROVE n + 1 \in S
  <2>. DEFINE i == n + 1
  <2>1. i \in 1 .. Len(u) /\ i - 1 = n /\ i \in 0 .. Len(u) /\ i \in 0 .. Len(b) /\ i # 0
    BY <1>1, <1>2
  <2>. HIDE DEF i
  <2>2. s(i) = Step(s(i - 1), b[i])
    <3>1. Len(b) \in Nat /\ i \in 0 .. Len(b) /\ i # 0
      BY <1>2, <2>1
    <3>. QED
      BY <3>1, AlongIs
  <2>3. f(i) = Step(f(i - 1), u[i])
    BY <1>1, <2>1, AlongIs
  <2>4. s(i) = f(i)
    BY <1>2, <1>5, <2>1, <2>2, <2>3
  <2>. QED
    BY <2>1, <2>4 DEF i
<1>6. s(Len(u)) = at
  <2>. HIDE DEF S
  <2>1. \A n \in 0 .. Len(u) : n \in S
    BY <1>1, <1>4, <1>5, UpTo
  <2>2. Len(u) \in 0 .. Len(u)
    BY <1>1
  <2>. QED
    BY <2>1, <2>2 DEF S, Walked
<1>. HIDE DEF at
<1>7. 0 \in T
  <2>1. g(0) = at
    BY <1>1, AlongIs
  <2>2. Len(u) + 0 = Len(u) /\ 0 \in 0 .. Len(e)
    BY <1>1
  <2>. QED
    BY <1>6, <2>1, <2>2
<1>8. ASSUME NEW n \in 0 .. Len(e) - 1, n \in T PROVE n + 1 \in T
  <2>. DEFINE i == n + 1
              m == Len(u) + i
  <2>1. i \in 1 .. Len(e) /\ i - 1 = n /\ i \in 0 .. Len(e) /\ i # 0
    BY <1>1
  <2>2. m \in 0 .. Len(b) /\ m # 0 /\ m - 1 = Len(u) + n /\ m = Len(u) + i
    BY <1>1, <1>2
  <2>. HIDE DEF i, m
  <2>3. s(m) = Step(s(m - 1), b[m])
    <3>1. Len(b) \in Nat /\ m \in 0 .. Len(b) /\ m # 0
      BY <1>2, <2>2
    <3>. QED
      BY <3>1, AlongIs
  <2>4. g(i) = Step(g(i - 1), e[i])
    BY <1>1, <2>1, AlongIs
  <2>5. b[m] = e[i]
    BY <1>2, <2>1, <2>2
  <2>6. s(m - 1) = g(i - 1)
    BY <1>8, <2>1, <2>2
  <2>7. s(Len(u) + i) = g(i)
    BY <2>2, <2>3, <2>4, <2>5, <2>6
  <2>. QED
    BY <2>1, <2>7 DEF i
<1>9. s(Len(b)) = g(Len(e))
  <2>. HIDE DEF T
  <2>1. \A n \in 0 .. Len(e) : n \in T
    BY <1>1, <1>7, <1>8, UpTo
  <2>2. Len(e) \in 0 .. Len(e)
    BY <1>1
  <2>3. s(Len(u) + Len(e)) = g(Len(e))
    BY <2>1, <2>2 DEF T
  <2>. QED
    BY <1>2, <2>3
<1>10. Walked(<<>>, b) = Walked(at, e)
  BY <1>9 DEF Walked
<1>. QED
  BY <1>3, <1>10 DEF b, at

--------------------------------------------------------------------------
(* What a policy is told of *)

\* A function on 1 .. n with values in S is a sequence over S.
LEMMA SeqIn ==
    ASSUME NEW n \in Nat, NEW a, a = [k \in 1 .. n |-> a[k]], NEW S, \A k \in 1 .. n : a[k] \in S
    PROVE  a \in Seq(S) /\ Len(a) = n
<1>1. a \in [1 .. n -> S]
  OBVIOUS
<1>2. a \in Seq(S)
  BY <1>1, SeqDef
<1>3. DOMAIN a = 1 .. n /\ DOMAIN a = 1 .. Len(a) /\ Len(a) \in Nat
  BY <1>1, <1>2
<1>. QED
  BY <1>2, <1>3

\* The arguments of a command are tokens of the list.
Reads(list, inv) == Len(list) \in Nat /\ inv.arguments \in Seq(1 .. Len(list))

\* So it is with every list that resolves.
LEMMA ArgumentsAre ==
    ASSUME NEW list, IsList(list), Argv(list).ok
    PROVE  Reads(list, Argv(list))
<1>. DEFINE N == Len(list)
            p == Reader(list)[Len(Left(list))]
            cmd == Catalog[Meant(list)]
<1>1. Survives(list) /\ Argv(list).arguments = p.arguments
  <2>1. /\ Survives(list)
        /\ Argv(list) = [ok |-> TRUE, path |-> Meant(list), flags |-> p.flags,
                         arguments |-> p.arguments, opaque |-> p.opaque]
    BY ArgvIs
  <2>. HIDE DEF p
  <2>. QED
    BY <2>1
<1>2. N \in Nat
  BY DEF IsList
<1>3. PICK last, h, q, a, V : ReadSoFar(list, N, last, h, q, a, V)
  BY <1>1, ReadAll
<1>4. Kept(list, N) = Len(Left(list))
  BY LeftTypes
<1>5. last \in 0 .. N /\ Sorted(list, cmd, Walk(list)[N].path, last, h, q, a, V)
  BY <1>3 DEF ReadSoFar
<1>6. p.arguments = Own(cmd, list, last, N, a)
  <2>1. p = Parsed(p.at, [k \in 1 .. Len(q) |-> Given(cmd, list[q[k]], q[k], q[k] + 1)],
                   Own(cmd, list, last, N, a), Passed(cmd, list, last, N, a))
    BY <1>3, <1>4 DEF ReadSoFar
  <2>. HIDE DEF p
  <2>. QED
    BY <2>1 DEF Parsed
<1>. HIDE DEF p, cmd, N
<1>7. a \in Seq(1 .. N)
  <2>1. Ascends(a) /\ Elements(a) \subseteq 1 .. last
    BY <1>5 DEF Sorted
  <2>2. a \in Seq(Nat) /\ Len(a) \in Nat
    BY <2>1 DEF Ascends
  <2>3. \A k \in 1 .. Len(a) : a[k] \in 1 .. last
    BY <2>1 DEF Elements
  <2>4. \A k \in 1 .. Len(a) : a[k] \in 1 .. N
    BY <1>2, <1>5, <2>3
  <2>5. a = [k \in 1 .. Len(a) |-> a[k]]
    BY <2>2
  <2>. QED
    BY <2>2, <2>4, <2>5, SeqIn
<1>8. After(list, last, N) \in Seq(1 .. N)
  <2>. DEFINE m == IF last < N /\ list[last + 1] = DashDash THEN last + 2 ELSE last + 1
  <2>1. After(list, last, N) = Upto(m, N)
    BY DEF After
  <2>2. m \in Nat /\ 1 <= m /\ m <= N + 1
    BY <1>2, <1>5
  <2>. HIDE DEF m
  <2>. DEFINE n == N + 1 - m
              u == Upto(m, N)
  <2>3. n \in Nat /\ \A k \in 1 .. n : m + k - 1 \in 1 .. N
    BY <1>2, <2>2
  <2>4. u = [k \in 1 .. n |-> m + k - 1]
    BY DEF Upto
  <2>. HIDE DEF n, u
  <2>5. u = [k \in 1 .. n |-> u[k]] /\ \A k \in 1 .. n : u[k] \in 1 .. N
    BY <2>3, <2>4
  <2>6. u \in Seq(1 .. N)
    BY <2>3, <2>5, SeqIn
  <2>. QED
    BY <2>1, <2>6 DEF u
<1>9. <<>> \in Seq(1 .. N)
  OBVIOUS
<1>10. Own(cmd, list, last, N, a) \in Seq(1 .. N)
  <2>1. a \o <<>> \in Seq(1 .. N) /\ a \o After(list, last, N) \in Seq(1 .. N)
    BY <1>7, <1>8, <1>9, ConcatProperties
  <2>. QED
    BY <2>1 DEF Own
<1>. QED
  BY <1>1, <1>2, <1>6, <1>10 DEF Reads, N

\* The values of f on T, as a set and in the order of T.
AllOf(f, T) == {f[i] : i \in T}

Pick(f, T) == [k \in DOMAIN InOrder(T) |-> f[InOrder(T)[k]]]

\* Picking some elements in their order gives those, and no others.
LEMMA Picked ==
    ASSUME NEW n \in Nat, NEW T, T \subseteq 1 .. n, NEW f
    PROVE  /\ \A k \in DOMAIN InOrder(T) : InOrder(T)[k] \in T
           /\ Pick(f, T) \in Seq(AllOf(f, T))
           /\ Range(Pick(f, T)) = AllOf(f, T)
<1>. DEFINE q == InOrder(T)
            S == {f[i] : i \in T}
            g == Pick(f, T)
<1>1. Ascends(q) /\ Elements(q) = T
  BY InOrderAscends
<1>2. Len(q) \in Nat /\ DOMAIN q = 1 .. Len(q)
  BY <1>1, AscendsType
<1>3. T = {q[k] : k \in 1 .. Len(q)}
  BY <1>1 DEF Elements
<1>. HIDE DEF q
<1>4. g = [k \in 1 .. Len(q) |-> f[q[k]]]
  BY <1>2 DEF q, Pick
<1>. HIDE DEF g
<1>5. \A k \in 1 .. Len(q) : q[k] \in T /\ f[q[k]] \in S
  BY <1>3
<1>6. g \in Seq(S)
  <2>. HIDE DEF S
  <2>. QED
    BY <1>2, <1>4, <1>5
<1>7. Range(g) = S
  <2>1. DOMAIN g = 1 .. Len(q) /\ \A k \in 1 .. Len(q) : g[k] = f[q[k]]
    BY <1>4
  <2>2. ASSUME NEW x \in Range(g) PROVE x \in S
    BY <1>5, <2>1, <2>2 DEF Range
  <2>3. ASSUME NEW i \in T PROVE f[i] \in Range(g)
    <3>1. PICK k \in 1 .. Len(q) : q[k] = i
      BY <1>3
    <3>. QED
      BY <2>1, <3>1 DEF Range
  <2>. QED
    BY <2>2, <2>3
<1>8. \A k \in DOMAIN q : q[k] \in T
  BY <1>2, <1>5
<1>. QED
  BY <1>6, <1>7, <1>8 DEF q, g, AllOf

\* The values of a kind are what fills the slots of that kind.
LEMMA ValuesAre ==
    ASSUME NEW list, NEW inv, Reads(list, inv), NEW kind
    PROVE  /\ ValuesOfKind(list, inv, kind) \in Seq(FilledBy(list, inv, kind))
           /\ Range(ValuesOfKind(list, inv, kind)) = FilledBy(list, inv, kind)
           /\ FilledBy(list, inv, kind) \subseteq Elements(list)
<1>. DEFINE args == inv.arguments
            T == {i \in DOMAIN args : \E s \in SlotAt(Catalog[inv.path].slots, i) : s.kind = kind}
            f == [i \in DOMAIN args |-> list[args[i]]]
            g == ValuesOfKind(list, inv, kind)
<1>1. args \in Seq(1 .. Len(list)) /\ Len(args) \in Nat /\ DOMAIN args = 1 .. Len(args)
  BY DEF Reads
<1>2. T \subseteq 1 .. Len(args)
  BY <1>1
<1>3. g = [k \in DOMAIN InOrder(T) |-> list[args[InOrder(T)[k]]]]
  BY DEF ValuesOfKind
<1>4. FilledBy(list, inv, kind) = {list[args[i]] : i \in T}
  BY DEF FilledBy
<1>5. \A i \in T : f[i] = list[args[i]]
  OBVIOUS
<1>6. T \subseteq DOMAIN args
  OBVIOUS
<1>. HIDE DEF T, f, g, args
<1>. DEFINE o == Pick(f, T)
<1>7. /\ \A k \in DOMAIN InOrder(T) : InOrder(T)[k] \in T
      /\ o \in Seq(AllOf(f, T))
      /\ Range(o) = AllOf(f, T)
  BY <1>1, <1>2, Picked
<1>8. g = o
  BY <1>3, <1>5, <1>7 DEF Pick
<1>9. AllOf(f, T) = FilledBy(list, inv, kind)
  BY <1>4, <1>5 DEF AllOf
<1>10. FilledBy(list, inv, kind) \subseteq Elements(list)
  BY <1>1, <1>4, <1>6 DEF Elements
<1>. HIDE DEF o
<1>. QED
  BY <1>7, <1>8, <1>9, <1>10 DEF g

\* The paths of the host, or of sandboxes, that a list names.
Named(list, inv, ofHost) ==
    {Spelling[t] : t \in {u \in FilledBy(list, inv, "path") : (Spelling[u].box = NoBox) = ofHost}}

\* They are what the policy is given, and nothing else is.
LEMMA PathsAre ==
    ASSUME NEW list, NEW inv, Reads(list, inv), NEW ofHost
    PROVE  /\ Paths(list, inv, ofHost) \in Seq(Named(list, inv, ofHost))
           /\ Range(Paths(list, inv, ofHost)) = Named(list, inv, ofHost)
<1>. DEFINE given == ValuesOfKind(list, inv, "path")
            F == FilledBy(list, inv, "path")
            T == {k \in DOMAIN given : (Spelling[given[k]].box = NoBox) = ofHost}
            f == [k \in DOMAIN given |-> Spelling[given[k]]]
            g == Paths(list, inv, ofHost)
<1>1. given \in Seq(F) /\ Range(given) = F
  BY ValuesAre
<1>2. g = [k \in DOMAIN InOrder(T) |-> Spelling[given[InOrder(T)[k]]]]
  BY DEF Paths
<1>3. Named(list, inv, ofHost) = {Spelling[t] : t \in {u \in F : (Spelling[u].box = NoBox) = ofHost}}
  BY DEF Named
<1>. HIDE DEF given, F, g
<1>4. Len(given) \in Nat /\ DOMAIN given = 1 .. Len(given)
  BY <1>1
<1>5. T \subseteq 1 .. Len(given)
  BY <1>4
<1>6. \A k \in T : f[k] = Spelling[given[k]]
  OBVIOUS
<1>7. {Spelling[given[k]] : k \in T} = Named(list, inv, ofHost)
  <2>1. F = {given[k] : k \in DOMAIN given}
    BY <1>1 DEF Range
  <2>. QED
    BY <1>3, <2>1
<1>. HIDE DEF T, f
<1>. DEFINE o == Pick(f, T)
<1>8. /\ \A k \in DOMAIN InOrder(T) : InOrder(T)[k] \in T
      /\ o \in Seq(AllOf(f, T))
      /\ Range(o) = AllOf(f, T)
  BY <1>4, <1>5, Picked
<1>9. g = o
  BY <1>2, <1>6, <1>8 DEF Pick
<1>10. AllOf(f, T) = Named(list, inv, ofHost)
  BY <1>6, <1>7 DEF AllOf
<1>. HIDE DEF o
<1>. QED
  BY <1>8, <1>9, <1>10 DEF g

\* Every sandbox that the command touches is named to the policy, and no other.
LEMMA NamesAre ==
    ASSUME NEW list, NEW inv, Reads(list, inv)
    PROVE  /\ NamedSandboxes(list, inv) \in Seq(Touched(list, inv))
           /\ Range(NamedSandboxes(list, inv)) = Touched(list, inv)
<1>. DEFINE F == NamedByFlag(list, inv)
            B == ValuesOfKind(list, inv, "sandbox")
            P == NamedByPath(list, inv)
            boxes == {Spelling[t].box : t \in FilledBy(list, inv, "path")} \ {NoBox}
            U == Touched(list, inv)
<1>1. U = FilledBy(list, inv, "sandbox") \cup boxes \cup Range(F)
  BY DEF Touched
<1>2. F \in Seq(Range(F))
  <2>. DEFINE x == LastValue(list, inv, "sandbox")
  <2>1. F = <<>> \/ F = <<x>>
    BY DEF NamedByFlag
  <2>. HIDE DEF F, x
  <2>2. CASE F = <<>>
    BY <2>2
  <2>3. CASE F = <<x>>
    BY <2>3 DEF Range
  <2>. QED
    BY <2>1, <2>2, <2>3
<1>3. B \in Seq(FilledBy(list, inv, "sandbox")) /\ Range(B) = FilledBy(list, inv, "sandbox")
  BY ValuesAre
<1>4. P \in Seq(boxes) /\ Range(P) = boxes
  <2>. DEFINE S == Named(list, inv, FALSE)
              paths == Paths(list, inv, FALSE)
  <2>1. paths \in Seq(S) /\ Range(paths) = S
    BY PathsAre
  <2>2. P = [k \in DOMAIN paths |-> paths[k].box]
    BY DEF NamedByPath
  <2>3. boxes = {x.box : x \in S}
    BY DEF Named
  <2>. HIDE DEF S, paths, P, boxes
  <2>4. Len(paths) \in Nat /\ DOMAIN paths = 1 .. Len(paths)
    BY <2>1
  <2>5. S = {paths[k] : k \in 1 .. Len(paths)}
    BY <2>1, <2>4 DEF Range
  <2>6. P = [k \in 1 .. Len(paths) |-> P[k]] /\ \A k \in 1 .. Len(paths) : P[k] = paths[k].box
    BY <2>2, <2>4
  <2>7. \A k \in 1 .. Len(paths) : P[k] \in boxes
    BY <2>3, <2>5, <2>6
  <2>8. P \in Seq(boxes)
    BY <2>4, <2>6, <2>7, SeqIn
  <2>9. Range(P) = boxes
    BY <2>3, <2>5, <2>6 DEF Range
  <2>. QED
    BY <2>8, <2>9
<1>5. NamedSandboxes(list, inv) = (F \o B) \o P
  BY DEF NamedSandboxes
<1>. HIDE DEF F, B, P, U, boxes
<1>6. F \in Seq(U) /\ B \in Seq(U) /\ P \in Seq(U)
  <2>1. Range(F) \subseteq U /\ FilledBy(list, inv, "sandbox") \subseteq U /\ boxes \subseteq U
    BY <1>1
  <2>. QED
    BY <1>2, <1>3, <1>4, <2>1, SeqMonotonic
<1>7. F \o B \in Seq(U) /\ Range(F \o B) = Range(F) \cup Range(B)
  BY <1>6, ConcatProperties, RangeConcatenation
<1>8. (F \o B) \o P \in Seq(U) /\ Range((F \o B) \o P) = Range(F \o B) \cup Range(P)
  <2>. DEFINE G == F \o B
  <2>1. G \in Seq(U)
    BY <1>7
  <2>. HIDE DEF G
  <2>2. G \o P \in Seq(U) /\ Range(G \o P) = Range(G) \cup Range(P)
    BY <1>6, <2>1, ConcatProperties, RangeConcatenation
  <2>. QED
    BY <2>2 DEF G
<1>9. Range(F) \cup Range(B) \cup Range(P) = U
  BY <1>1, <1>3, <1>4
<1>. QED
  BY <1>5, <1>7, <1>8, <1>9 DEF U

\* A policy that permits what acts on the caller alone permits that.
LEMMA TargetsSelf ==
    ASSUME NEW list, NEW inv, Reads(list, inv), NEW caller
    PROVE  /\ TargetsOnly(NamedSandboxes(list, inv), caller) <=> Touched(list, inv) = {caller}
           /\ IF Touched(list, inv) = {} THEN TargetOf(list, inv) = Host
              ELSE TargetOf(list, inv) \in Touched(list, inv)
<1>. DEFINE names == NamedSandboxes(list, inv)
            U == Touched(list, inv)
<1>1. names \in Seq(U) /\ Range(names) = U
  BY NamesAre
<1>2. /\ TargetsOnly(names, caller) <=> names # <<>> /\ \A name \in Range(names) : name = caller
      /\ TargetOf(list, inv) = IF names = <<>> THEN Host ELSE names[1]
  BY DEF TargetsOnly, TargetOf
<1>. HIDE DEF names, U
<1>3. names # <<>> => 1 \in DOMAIN names
  BY <1>1
<1>4. names # <<>> => names[1] \in U
  BY <1>1, <1>3 DEF Range
<1>5. names = <<>> => U = {}
  BY <1>1 DEF Range
<1>. QED
  BY <1>1, <1>2, <1>4, <1>5 DEF names, U

\* Where sbx, running in workdir, finds a file of the host.
Ends(path, workdir) ==
    Walked(IF path.absolute THEN <<>> ELSE Walked(<<>>, workdir.elements), path.elements)

\* That is the canonical path of the file.
LEMMA CanonicalIs ==
    ASSUME NEW spelled, IsElements(spelled.elements),
           NEW workdir, workdir.absolute = TRUE, IsElements(workdir.elements)
    PROVE  CanonicalPath(spelled, workdir) = Path(TRUE, Ends(spelled, workdir)) /\ IsPlace(Ends(spelled, workdir))
<1>1. CASE spelled.absolute
  <2>1. CanonicalPath(spelled, workdir) = Clean(Path(TRUE, spelled.elements))
    BY <1>1 DEF CanonicalPath
  <2>2. Ends(spelled, workdir) = Walked(<<>>, spelled.elements)
    BY <1>1 DEF Ends
  <2>. QED
    BY <2>1, <2>2, CleanedWalks
<1>2. CASE ~spelled.absolute
  <2>. DEFINE b == workdir.elements \o spelled.elements
  <2>1. CanonicalPath(spelled, workdir) = Clean(Path(TRUE, b))
    BY <1>2 DEF CanonicalPath
  <2>2. Ends(spelled, workdir) = Walked(Walked(<<>>, workdir.elements), spelled.elements)
    BY <1>2 DEF Ends
  <2>3. IsElements(b) /\ Walked(<<>>, b) = Walked(Walked(<<>>, workdir.elements), spelled.elements)
    BY WalkedFurther
  <2>. HIDE DEF b
  <2>4. Clean(Path(TRUE, b)) = Path(TRUE, Walked(<<>>, b)) /\ IsPlace(Walked(<<>>, b))
    BY <2>3, CleanedWalks
  <2>. QED
    BY <2>1, <2>2, <2>3, <2>4
<1>. QED
  BY <1>1, <1>2

\* A list whose tokens are paths without empty elements.
Spells(list) == \A i \in 1 .. Len(list) : IsElements(Spelling[list[i]].elements)

\* The host paths that a policy is told of are where the list's paths lead.
LEMMA HostPathsAre ==
    ASSUME NEW list, NEW inv, Reads(list, inv), Spells(list),
           NEW workdir, workdir.absolute = TRUE, IsElements(workdir.elements)
    PROVE  /\ HostPaths(list, inv, workdir) = <<>> <=> Reached(list, inv, workdir) = {}
           /\ \A path \in Range(HostPaths(list, inv, workdir)) :
                \E at \in Reached(list, inv, workdir) : path = Path(TRUE, at)
           /\ \A at \in Reached(list, inv, workdir) :
                IsPlace(at) /\ Path(TRUE, at) \in Range(HostPaths(list, inv, workdir))
<1>. DEFINE S == Named(list, inv, TRUE)
            paths == Paths(list, inv, TRUE)
            hosts == HostPaths(list, inv, workdir)
            reached == Reached(list, inv, workdir)
<1>1. paths \in Seq(S) /\ Range(paths) = S
  BY PathsAre
<1>2. hosts = [k \in DOMAIN paths |-> CanonicalPath(paths[k], workdir)]
  BY DEF HostPaths
<1>3. reached = {Ends(path, workdir) : path \in S}
  BY DEF Reached, Named, Ends
<1>4. \A path \in S : IsElements(path.elements)
  <2>1. FilledBy(list, inv, "path") \subseteq Elements(list)
    BY ValuesAre
  <2>. QED
    BY <2>1 DEF Named, Elements, Spells
<1>. HIDE DEF S, paths, hosts, reached
<1>5. Len(paths) \in Nat /\ DOMAIN paths = 1 .. Len(paths)
  BY <1>1
<1>6. S = {paths[k] : k \in 1 .. Len(paths)}
  BY <1>1, <1>5 DEF Range
<1>7. \A path \in S : CanonicalPath(path, workdir) = Path(TRUE, Ends(path, workdir)) /\ IsPlace(Ends(path, workdir))
  BY <1>4, CanonicalIs
<1>8. DOMAIN hosts = 1 .. Len(paths) /\ \A k \in 1 .. Len(paths) : hosts[k] = Path(TRUE, Ends(paths[k], workdir))
  BY <1>2, <1>5, <1>6, <1>7
<1>9. hosts = <<>> <=> reached = {}
  <2>1. CASE Len(paths) = 0
    <3>1. S = {}
      BY <1>6, <2>1
    <3>2. hosts = <<>>
      BY <1>2, <1>5, <2>1
    <3>. QED
      BY <1>3, <3>1, <3>2
  <2>2. CASE Len(paths) # 0
    <3>1. 1 \in 1 .. Len(paths)
      BY <1>5, <2>2
    <3>2. hosts # <<>>
      BY <1>8, <3>1
    <3>. QED
      BY <1>3, <1>6, <3>1, <3>2
  <2>. QED
    BY <2>1, <2>2
<1>10. \A path \in Range(hosts) : \E at \in reached : path = Path(TRUE, at)
  BY <1>3, <1>6, <1>8 DEF Range
<1>11. \A at \in reached : IsPlace(at) /\ Path(TRUE, at) \in Range(hosts)
  <2>. SUFFICES ASSUME NEW path \in S
                PROVE  IsPlace(Ends(path, workdir)) /\ Path(TRUE, Ends(path, workdir)) \in Range(hosts)
    BY <1>3
  <2>1. PICK k \in 1 .. Len(paths) : paths[k] = path
    BY <1>6
  <2>2. hosts[k] = Path(TRUE, Ends(path, workdir)) /\ k \in DOMAIN hosts
    BY <1>8, <2>1
  <2>. QED
    BY <1>7, <2>2 DEF Range
<1>. QED
  BY <1>9, <1>10, <1>11 DEF hosts, reached

--------------------------------------------------------------------------
(* Directories *)

\* Prefixes, element by element.
LEMMA PrefixIs ==
    ASSUME NEW T, NEW p \in Seq(T), NEW q \in Seq(T)
    PROVE  IsPrefix(p, q) <=> Begins(p, q)
<1>1. CASE Begins(p, q)
  BY <1>1, BeginsIsPrefix
<1>2. ASSUME IsPrefix(p, q) PROVE Begins(p, q)
  <2>1. Len(p) \in Nat /\ Len(q) \in Nat /\ Len(p) <= Len(q) /\ SubSeq(p, 1, Len(p)) = SubSeq(q, 1, Len(p))
    BY <1>2 DEF IsPrefix
  <2>2. /\ \A k \in 1 .. Len(p) : SubSeq(p, 1, Len(p))[k] = p[k]
        /\ \A k \in 1 .. Len(p) : SubSeq(q, 1, Len(p))[k] = q[k]
    BY <2>1
  <2>3. \A k \in 1 .. Len(p) : q[k] = p[k]
    BY <2>1, <2>2
  <2>. QED
    BY <2>1, <2>3 DEF Begins
<1>. QED
  BY <1>1, <1>2

\* Of all beginnings of some sequences the longest common one exists, and the others
\* begin it.
LEMMA LongestIs ==
    ASSUME NEW T, NEW P, P \subseteq Seq(T), NEW t \in P
    PROVE  /\ LongestCommonPrefix(P) \in Seq(T)
           /\ \A s \in P : Begins(LongestCommonPrefix(P), s)
           /\ \A c \in Seq(T) : (\A s \in P : Begins(c, s)) => Begins(c, LongestCommonPrefix(P))
<1>. DEFINE C == CommonPrefixes(P)
            longest == LongestCommonPrefix(P)
<1>1. \A c : c \in C <=> (\E s \in P : c \in Prefixes(s)) /\ \A s \in P : IsPrefix(c, s)
  BY DEF CommonPrefixes
<1>2. \A s \in P : s \in Seq(T) /\ Len(s) \in Nat
  OBVIOUS
<1>3. \A s \in P : \A c \in Prefixes(s) : c \in Seq(T) /\ Len(c) \in Nat
  <2>. TAKE s \in P
  <2>. TAKE c \in Prefixes(s)
  <2>1. PICK n \in 0 .. Len(s) : c = SubSeq(s, 1, n)
    BY DEF Prefixes
  <2>2. s \in Seq(T)
    OBVIOUS
  <2>3. c \in Seq(T)
    BY <2>1, <2>2
  <2>. QED
    BY <2>3
<1>. HIDE DEF C
<1>4. \A c \in C : c \in Seq(T) /\ Len(c) \in Nat /\ \A s \in P : Begins(c, s)
  BY <1>1, <1>2, <1>3, PrefixIs
<1>5. ASSUME NEW c \in Seq(T), \A s \in P : Begins(c, s) PROVE c \in C
  <2>1. \A s \in P : IsPrefix(c, s)
    BY <1>2, <1>5, PrefixIs
  <2>2. Len(c) \in 0 .. Len(t) /\ SubSeq(t, 1, Len(c)) = SubSeq(c, 1, Len(c)) /\ SubSeq(c, 1, Len(c)) = c
    <3>1. IsPrefix(c, t) /\ Len(c) \in Nat /\ Len(t) \in Nat
      BY <1>2, <2>1
    <3>2. SubSeq(c, 1, Len(c)) = c
      BY SubSeqFull
    <3>. QED
      BY <3>1, <3>2 DEF IsPrefix
  <2>3. c \in Prefixes(t)
    BY <2>2 DEF Prefixes
  <2>. QED
    BY <1>1, <2>1, <2>3
<1>6. <<>> \in C
  <2>1. <<>> \in Seq(T) /\ \A s \in P : Begins(<<>>, s)
    BY <1>2 DEF Begins
  <2>. QED
    BY <1>5, <2>1
<1>7. \E c \in C : \A d \in C : Len(d) <= Len(c)
  <2>. DEFINE M == {Len(t) - Len(c) : c \in C}
  <2>1. \A c \in C : Len(c) <= Len(t) /\ Len(c) \in Nat /\ Len(t) \in Nat
    BY <1>2, <1>4 DEF Begins
  <2>2. M \subseteq Nat /\ M # {}
    BY <1>6, <2>1
  <2>3. PICK m \in M : \A k \in M : m <= k
    <3>. HIDE DEF M
    <3>. QED
      BY <2>2, HasFirst
  <2>4. PICK c \in C : m = Len(t) - Len(c)
    OBVIOUS
  <2>5. \A d \in C : Len(t) - Len(c) <= Len(t) - Len(d)
    BY <2>3, <2>4
  <2>. QED
    BY <2>1, <2>5
<1>8. longest = CHOOSE c \in C : \A d \in C : Len(d) <= Len(c)
  BY DEF LongestCommonPrefix, C
<1>9. longest \in C /\ \A d \in C : Len(d) <= Len(longest)
  BY <1>7, <1>8
<1>. HIDE DEF longest
<1>10. longest \in Seq(T) /\ Len(longest) \in Nat /\ \A s \in P : Begins(longest, s)
  BY <1>4, <1>9
<1>11. ASSUME NEW c \in Seq(T), \A s \in P : Begins(c, s) PROVE Begins(c, longest)
  <2>1. Len(c) \in Nat /\ Len(c) <= Len(longest)
    BY <1>5, <1>9, <1>11
  <2>2. Begins(c, t) /\ Begins(longest, t)
    BY <1>10, <1>11
  <2>. QED
    BY <1>10, <2>1, <2>2 DEF Begins
<1>. QED
  BY <1>10, <1>11 DEF longest

\* What the first separator of an absolute path divides off is blank.
Texts == STRING \cup {Blank}

PartsOf(at) == Parts(Path(TRUE, at))

\* The parts of the place at: the blank one, and then the elements of at.
LEMMA PartsAre ==
    ASSUME NEW at, IsPlace(at)
    PROVE  /\ PartsOf(at) \in Seq(Texts)
           /\ Len(PartsOf(at)) = IF at = <<>> THEN 2 ELSE Len(at) + 1
           /\ PartsOf(at)[1] = Blank
           /\ at = <<>> => PartsOf(at)[2] = Blank
           /\ \A k \in 1 .. Len(at) : PartsOf(at)[k + 1] = at[k]
<1>. DEFINE s == PartsOf(at)
            T == Texts
<1>1. Blank \in T /\ STRING \subseteq T
  BY DEF Texts
<1>2. at \in Seq(STRING) /\ Len(at) \in Nat
  BY DEF IsPlace
<1>3. s = IF at = <<>> THEN <<Blank, Blank>> ELSE <<Blank>> \o at
  <2>. DEFINE path == Path(TRUE, at)
  <2>1. path.elements = at /\ path.absolute = TRUE
    BY DEF Path
  <2>. HIDE DEF path
  <2>2. Parts(path) = IF at = <<>> THEN <<Blank, Blank>> ELSE <<Blank>> \o at
    BY <2>1, Zenon DEF Parts, Blank
  <2>. QED
    BY <2>2 DEF path, PartsOf
<1>. HIDE DEF s, T
<1>4. CASE at = <<>>
  <2>1. s = <<Blank, Blank>>
    BY <1>3, <1>4
  <2>2. s \in Seq(T) /\ Len(s) = 2 /\ s[1] = Blank /\ s[2] = Blank
    BY <1>1, <2>1
  <2>3. \A k \in 1 .. Len(at) : FALSE
    BY <1>4
  <2>. QED
    BY <1>4, <2>2, <2>3 DEF s, T
<1>5. CASE at # <<>>
  <2>. DEFINE b == <<Blank>>
  <2>1. b \in Seq(T)
    BY <1>1
  <2>2. Len(b) = 1 /\ b[1] = Blank
    OBVIOUS
  <2>3. s = b \o at
    BY <1>3, <1>5
  <2>4. at \in Seq(T)
    BY <1>1, <1>2, SeqMonotonic
  <2>. HIDE DEF b
  <2>5. s \in Seq(T) /\ Len(s) = Len(b) + Len(at)
    BY <2>1, <2>3, <2>4, ConcatProperties
  <2>6. \A i \in 1 .. Len(b) + Len(at) : s[i] = IF i <= Len(b) THEN b[i] ELSE at[i - Len(b)]
    BY <2>1, <2>3, <2>4, ConcatProperties
  <2>7. s[1] = Blank /\ Len(s) = Len(at) + 1
    BY <1>2, <2>2, <2>5, <2>6
  <2>8. ASSUME NEW k \in 1 .. Len(at) PROVE s[k + 1] = at[k]
    <3>1. k + 1 \in 1 .. Len(b) + Len(at) /\ ~(k + 1 <= Len(b)) /\ (k + 1) - Len(b) = k
      BY <1>2, <2>2
    <3>. QED
      BY <2>6, <3>1
  <2>. QED
    BY <1>5, <2>5, <2>7, <2>8 DEF s, T
<1>. QED
  BY <1>4, <1>5

\* Parts that are the root's.
Roots(parts) == Len(parts) = 1 \/ (Len(parts) = 2 /\ parts[2] = Blank)

JoinOf(parts) == Joined(parts).elements

\* Joining parts that begin with the blank one: the root, or what is behind it.
LEMMA JoinedIs ==
    ASSUME NEW parts \in Seq(Texts), parts # <<>>, parts[1] = Blank
    PROVE  /\ JoinOf(parts) \in Seq(Texts) /\ Len(JoinOf(parts)) \in Nat
           /\ Roots(parts) => JoinOf(parts) = <<>>
           /\ ~Roots(parts) => /\ Len(JoinOf(parts)) = Len(parts) - 1
                               /\ \A k \in 1 .. Len(JoinOf(parts)) : JoinOf(parts)[k] = parts[k + 1]
<1>. DEFINE joined == JoinOf(parts)
            T == Texts
<1>1. parts \in Seq(T) /\ Len(parts) \in Nat /\ Len(parts) # 0
  OBVIOUS
<1>. HIDE DEF T
<1>2. Roots(parts) <=> parts \in {<<Blank>>, <<Blank, Blank>>}
  <2>1. CASE Len(parts) = 1
    <3>1. parts = <<parts[1]>>
      BY <1>1, <2>1
    <3>. QED
      BY <2>1, <3>1 DEF Roots
  <2>2. CASE Len(parts) = 2
    <3>1. parts = <<parts[1], parts[2]>>
      BY <1>1, <2>2
    <3>2. parts[2] = Blank => parts = <<Blank, Blank>>
      BY <3>1
    <3>3. parts = <<Blank, Blank>> => parts[2] = Blank
      OBVIOUS
    <3>4. parts # <<Blank>>
      BY <2>2
    <3>. QED
      BY <2>2, <3>2, <3>3, <3>4 DEF Roots
  <2>3. CASE Len(parts) \notin {1, 2}
    BY <2>3 DEF Roots
  <2>. QED
    BY <2>1, <2>2, <2>3
<1>3. Joined(parts) = IF parts \in {<<Blank>>, <<Blank, Blank>>} THEN Path(TRUE, <<>>) ELSE Path(TRUE, Tail(parts))
  BY Zenon DEF Joined, Blank
<1>4. joined = IF Roots(parts) THEN <<>> ELSE Tail(parts)
  <2>1. \A e : Path(TRUE, e).elements = e
    BY DEF Path
  <2>2. CASE Roots(parts)
    BY <1>2, <1>3, <2>1, <2>2 DEF JoinOf
  <2>3. CASE ~Roots(parts)
    BY <1>2, <1>3, <2>1, <2>3 DEF JoinOf
  <2>. QED
    BY <2>2, <2>3
<1>. HIDE DEF joined
<1>5. CASE Roots(parts)
  <2>1. joined = <<>>
    BY <1>4, <1>5
  <2>2. joined \in Seq(T) /\ Len(joined) \in Nat
    BY <2>1
  <2>. QED
    BY <1>5, <2>1, <2>2 DEF joined, T
<1>6. CASE ~Roots(parts)
  <2>1. joined = Tail(parts)
    BY <1>4, <1>6
  <2>2. joined \in Seq(T) /\ Len(joined) = Len(parts) - 1
    BY <1>1, <2>1, HeadTailProperties
  <2>3. \A k \in 1 .. Len(joined) : joined[k] = parts[k + 1]
    BY <1>1, <2>1, HeadTailProperties
  <2>4. Len(joined) \in Nat
    BY <2>2
  <2>. QED
    BY <1>6, <2>2, <2>3, <2>4 DEF joined, T
<1>. QED
  BY <1>5, <1>6

\* The common ancestor of some files is under a directory exactly when all of them are.
LEMMA CommonAncestorIs ==
    ASSUME NEW reached, NEW some \in reached, \A at \in reached : IsPlace(at),
           NEW paths, \A path \in Range(paths) : \E at \in reached : path = Path(TRUE, at),
           \A at \in reached : Path(TRUE, at) \in Range(paths),
           NEW d, IsElements(d)
    PROVE  IsPrefix(d, CommonAncestor(paths).elements) <=> \A at \in reached : IsPrefix(d, at)
<1>. DEFINE P == {Parts(path) : path \in Range(paths)}
            longest == LongestCommonPrefix(P)
            root == JoinOf(longest)
            T == Texts
<1>1. CommonAncestor(paths).elements = root
  BY DEF CommonAncestor, JoinOf
<1>0. Blank \in T /\ STRING \subseteq T
  BY DEF Texts
<1>2. \A at \in reached :
        /\ PartsOf(at) \in Seq(T) /\ Len(PartsOf(at)) = IF at = <<>> THEN 2 ELSE Len(at) + 1
        /\ PartsOf(at)[1] = Blank /\ (at = <<>> => PartsOf(at)[2] = Blank)
        /\ \A k \in 1 .. Len(at) : PartsOf(at)[k + 1] = at[k]
  BY PartsAre
<1>3. \A at \in reached : at \in Seq(T) /\ Len(at) \in Nat
  <2>1. \A at \in reached : at \in Seq(STRING) /\ Len(at) \in Nat
    BY DEF IsPlace
  <2>. HIDE DEF T
  <2>. QED
    BY <1>0, <2>1, SeqMonotonic
<1>4. /\ \A x \in P : \E at \in reached : x = PartsOf(at)
      /\ \A at \in reached : PartsOf(at) \in P
  BY DEF PartsOf
<1>. HIDE DEF P, T
<1>5. P \subseteq Seq(T)
  BY <1>2, <1>4
<1>6. /\ longest \in Seq(T)
      /\ \A x \in P : Begins(longest, x)
      /\ \A c \in Seq(T) : (\A x \in P : Begins(c, x)) => Begins(c, longest)
  <2>1. PartsOf(some) \in P
    BY <1>4
  <2>. QED
    BY <1>5, <2>1, LongestIs
<1>. HIDE DEF longest
<1>8. longest # <<>> /\ longest[1] = Blank /\ Len(longest) \in Nat
  <2>. DEFINE c == <<Blank>>
  <2>0. c \in Seq(T)
    BY <1>0
  <2>1. Len(c) = 1 /\ c[1] = Blank
    OBVIOUS
  <2>. HIDE DEF c
  <2>2. ASSUME NEW x \in P PROVE Begins(c, x)
    <3>1. PICK at \in reached : x = PartsOf(at)
      BY <1>4
    <3>2. x[1] = Blank /\ Len(x) \in Nat /\ 1 <= Len(x)
      BY <1>2, <1>3, <3>1
    <3>. QED
      BY <2>1, <3>2 DEF Begins
  <2>3. Begins(c, longest)
    BY <1>6, <2>0, <2>2
  <2>4. 1 <= Len(longest) /\ longest[1] = Blank
    BY <2>1, <2>3 DEF Begins
  <2>5. Len(longest) \in Nat
    BY <1>6
  <2>. QED
    BY <2>4, <2>5
<1>9. /\ root \in Seq(T) /\ Len(root) \in Nat
      /\ Roots(longest) => root = <<>>
      /\ ~Roots(longest) => Len(root) = Len(longest) - 1 /\ \A k \in 1 .. Len(root) : root[k] = longest[k + 1]
  <2>1. longest \in Seq(Texts)
    BY <1>6 DEF T
  <2>. QED
    BY <1>8, <2>1, JoinedIs DEF T
<1>. HIDE DEF root
<1>10. d \in Seq(T) /\ Len(d) \in Nat /\ \A k \in 1 .. Len(d) : d[k] # Blank
  <2>1. d \in Seq(STRING) /\ Len(d) \in Nat /\ \A k \in 1 .. Len(d) : d[k] # Blank
    BY ElementsAre
  <2>. QED
    BY <1>0, <2>1, SeqMonotonic
<1>11. ASSUME Begins(d, root), NEW at \in reached PROVE Begins(d, at)
  <2>1. CASE Len(d) = 0
    BY <1>3, <2>1 DEF Begins
  <2>2. CASE Len(d) # 0
    <3>1. Len(d) <= Len(root) /\ \A k \in 1 .. Len(d) : root[k] = d[k]
      BY <1>11 DEF Begins
    <3>2. Len(root) # 0 /\ root # <<>>
      BY <1>9, <1>10, <2>2, <3>1
    <3>3. ~Roots(longest)
      BY <1>9, <3>2
    <3>4. Begins(longest, PartsOf(at))
      BY <1>4, <1>6
    <3>5. Len(longest) <= Len(PartsOf(at)) /\ \A k \in 1 .. Len(longest) : PartsOf(at)[k] = longest[k]
      BY <3>4 DEF Begins
    <3>6. at # <<>>
      <4>1. SUFFICES ASSUME at = <<>> PROVE FALSE
        OBVIOUS
      <4>2. Len(PartsOf(at)) = 2 /\ PartsOf(at)[2] = Blank
        BY <1>2, <4>1
      <4>3. Len(longest) \in Nat /\ Len(longest) # 0
        BY <1>6, <1>8
      <4>4. Len(longest) # 1
        BY <3>3 DEF Roots
      <4>5. Len(longest) = 2
        <5>. DEFINE n == Len(longest)
        <5>1. n <= 2
          BY <3>5, <4>2
        <5>2. n \in Nat /\ n # 0 /\ n # 1
          BY <4>3, <4>4
        <5>. HIDE DEF n
        <5>3. n = 2
          BY <5>1, <5>2
        <5>. QED
          BY <5>3 DEF n
      <4>6. longest[2] = Blank
        BY <3>5, <4>2, <4>5
      <4>. QED
        BY <3>3, <4>5, <4>6 DEF Roots
    <3>7. Len(PartsOf(at)) = Len(at) + 1 /\ \A k \in 1 .. Len(at) : PartsOf(at)[k + 1] = at[k]
      BY <1>2, <3>6
    <3>8. Len(root) = Len(longest) - 1 /\ \A k \in 1 .. Len(root) : root[k] = longest[k + 1]
      BY <1>9, <3>3
    <3>9. Len(d) <= Len(at)
      BY <1>3, <1>8, <1>9, <1>10, <3>1, <3>5, <3>7, <3>8
    <3>10. ASSUME NEW k \in 1 .. Len(d) PROVE at[k] = d[k]
      <4>1. k \in 1 .. Len(root) /\ k + 1 \in 1 .. Len(longest) /\ k \in 1 .. Len(at)
        BY <1>3, <1>8, <1>9, <1>10, <3>1, <3>8, <3>9
      <4>. QED
        BY <3>1, <3>5, <3>7, <3>8, <4>1
    <3>. QED
      BY <3>9, <3>10 DEF Begins
  <2>. QED
    BY <2>1, <2>2
<1>12. ASSUME \A at \in reached : Begins(d, at) PROVE Begins(d, root)
  <2>1. CASE Len(d) = 0
    BY <1>9, <2>1 DEF Begins
  <2>2. CASE Len(d) # 0
    <3>. DEFINE b == <<Blank>>
                c == b \o d
    <3>0. b \in Seq(T)
      BY <1>0
    <3>1. Len(b) = 1 /\ b[1] = Blank
      OBVIOUS
    <3>. HIDE DEF b
    <3>2. c \in Seq(T) /\ Len(c) = Len(b) + Len(d)
      BY <1>10, <3>0, ConcatProperties
    <3>3. \A i \in 1 .. Len(b) + Len(d) : c[i] = IF i <= Len(b) THEN b[i] ELSE d[i - Len(b)]
      BY <1>10, <3>0, ConcatProperties
    <3>. HIDE DEF c
    <3>4. c \in Seq(T) /\ Len(c) = Len(d) + 1 /\ c[1] = Blank
      BY <1>10, <3>1, <3>2, <3>3
    <3>5. ASSUME NEW k \in 1 .. Len(d) PROVE c[k + 1] = d[k]
      <4>1. k + 1 \in 1 .. Len(b) + Len(d) /\ ~(k + 1 <= Len(b)) /\ (k + 1) - Len(b) = k
        BY <1>10, <3>1
      <4>. QED
        BY <3>3, <4>1
    <3>6. ASSUME NEW x \in P PROVE Begins(c, x)
      <4>1. PICK at \in reached : x = PartsOf(at)
        BY <1>4
      <4>2. Len(d) <= Len(at) /\ \A k \in 1 .. Len(d) : at[k] = d[k]
        BY <1>12 DEF Begins
      <4>3. Len(at) \in Nat /\ at # <<>>
        BY <1>3, <1>10, <2>2, <4>2
      <4>4. Len(x) = Len(at) + 1 /\ x[1] = Blank /\ \A k \in 1 .. Len(at) : x[k + 1] = at[k]
        BY <1>2, <4>1, <4>3
      <4>5. ASSUME NEW i \in 1 .. Len(c) PROVE x[i] = c[i]
        <5>1. CASE i = 1
          BY <3>4, <4>4, <5>1
        <5>2. CASE i # 1
          <6>1. i - 1 \in 1 .. Len(d) /\ i - 1 \in 1 .. Len(at) /\ (i - 1) + 1 = i
            BY <1>10, <3>4, <4>2, <4>3, <5>2
          <6>2. c[(i - 1) + 1] = d[i - 1] /\ x[(i - 1) + 1] = at[i - 1] /\ at[i - 1] = d[i - 1]
            BY <3>5, <4>2, <4>4, <6>1
          <6>. QED
            BY <6>1, <6>2
        <5>. QED
          BY <5>1, <5>2
      <4>6. Len(c) <= Len(x)
        BY <1>10, <3>4, <4>2, <4>3, <4>4
      <4>. QED
        BY <4>5, <4>6 DEF Begins
    <3>7. Begins(c, longest)
      BY <1>6, <3>4, <3>6
    <3>8. Len(d) + 1 <= Len(longest) /\ Len(c) <= Len(longest) /\ \A k \in 1 .. Len(c) : longest[k] = c[k]
      BY <3>4, <3>7 DEF Begins
    <3>9. ASSUME NEW k \in 1 .. Len(d) PROVE longest[k + 1] = d[k]
      <4>1. k + 1 \in 1 .. Len(c)
        BY <1>10, <3>4
      <4>. QED
        BY <3>5, <3>8, <4>1
    <3>10. ~Roots(longest)
      <4>1. 1 \in 1 .. Len(d) /\ 1 + 1 = 2
        BY <1>10, <2>2
      <4>2. longest[2] = d[1] /\ d[1] # Blank
        BY <1>10, <3>9, <4>1
      <4>3. Len(longest) # 1
        BY <1>8, <1>10, <2>2, <3>8
      <4>. QED
        BY <4>2, <4>3 DEF Roots
    <3>11. Len(root) = Len(longest) - 1 /\ \A k \in 1 .. Len(root) : root[k] = longest[k + 1]
      BY <1>9, <3>10
    <3>12. Len(d) <= Len(root) /\ \A k \in 1 .. Len(d) : k \in 1 .. Len(root)
      BY <1>8, <1>9, <1>10, <3>8, <3>11
    <3>13. \A k \in 1 .. Len(d) : root[k] = d[k]
      BY <3>9, <3>11, <3>12
    <3>. QED
      BY <3>12, <3>13 DEF Begins
  <2>. QED
    BY <2>1, <2>2
<1>13. /\ IsPrefix(d, root) <=> Begins(d, root)
       /\ \A at \in reached : IsPrefix(d, at) <=> Begins(d, at)
  BY <1>3, <1>9, <1>10, PrefixIs
<1>. QED
  BY <1>1, <1>11, <1>12, <1>13

\* A policy is told that all files are under the working directory only if they are,
\* and if they are, unless the working directory is the root.
LEMMA UnderIs ==
    ASSUME NEW reached, \A at \in reached : IsPlace(at),
           NEW paths, \A path \in Range(paths) : \E at \in reached : path = Path(TRUE, at),
           \A at \in reached : Path(TRUE, at) \in Range(paths),
           NEW workdir, workdir.absolute = TRUE, IsElements(workdir.elements)
    PROVE  /\ AllUnder(paths, workdir) => \A at \in reached : IsPrefix(Walked(<<>>, workdir.elements), at)
           /\ Walked(<<>>, workdir.elements) # <<>>
                /\ (\A at \in reached : IsPrefix(Walked(<<>>, workdir.elements), at)) => AllUnder(paths, workdir)
<1>. DEFINE dir == Walked(<<>>, workdir.elements)
            root == Clean(workdir)
<1>1. root = Path(TRUE, dir) /\ IsPlace(dir)
  BY CleanIs
<1>. HIDE DEF dir, root
<1>2. root.absolute = TRUE /\ root.elements = dir
  BY <1>1 DEF Path
<1>3. IsPrefix(dir, dir)
  <2>1. dir \in Seq(STRING)
    BY <1>1 DEF IsPlace
  <2>2. Begins(dir, dir)
    BY DEF Begins
  <2>. QED
    BY <2>1, <2>2, PrefixIs
<1>4. ASSUME NEW at
      PROVE  /\ Path(TRUE, at) = root <=> at = dir
             /\ HasPrefix(Path(TRUE, at), root) <=> dir # <<>> /\ IsPrefix(dir, at) /\ at # dir
  <2>. DEFINE path == Path(TRUE, at)
  <2>1. path.absolute = TRUE /\ path.elements = at
    BY DEF Path
  <2>2. path = root => at = dir
    BY <1>2, <2>1
  <2>3. at = dir => path = root
    BY <1>1
  <2>. HIDE DEF path
  <2>4. HasPrefix(path, root) <=> dir # <<>> /\ IsPrefix(dir, at) /\ at # dir
    BY <1>2, <2>1 DEF HasPrefix, IsStrictPrefix
  <2>. QED
    BY <2>2, <2>3, <2>4 DEF path
<1>5. AllUnder(paths, workdir) <=> \A path \in Range(paths) : path = root \/ HasPrefix(path, root)
  BY DEF AllUnder, root
<1>6. AllUnder(paths, workdir) <=> \A at \in reached : Path(TRUE, at) = root \/ HasPrefix(Path(TRUE, at), root)
  BY <1>5
<1>7. AllUnder(paths, workdir) <=> \A at \in reached : at = dir \/ (dir # <<>> /\ IsPrefix(dir, at) /\ at # dir)
  BY <1>4, <1>6
<1>. QED
  BY <1>3, <1>7 DEF dir

--------------------------------------------------------------------------
(* Descriptions *)

\* What a policy is told of a list holds of everything that the list names, whatever
\* the catalog, the spelling, the caller and the directories (context.go:39-75).
THEOREM EveryListIsDescribedAsTouched ==
    ASSUME NEW list, IsList(list), Spells(list), NEW caller,
           NEW workdir, workdir.absolute = TRUE, IsElements(workdir.elements),
           NEW directories, \A elements \in directories : IsElements(elements)
    PROVE  DescribedAsTouched(list, caller, workdir, directories)
<1>. SUFFICES ASSUME Argv(list).ok
              PROVE  LET inv     == Argv(list)
                         told    == Describe(list, inv, caller, workdir)
                         touched == Touched(list, inv)
                         reached == Reached(list, inv, workdir)
                         dir     == Walked(<<>>, workdir.elements)
                     IN  /\ told.targetsSelf <=> touched = {caller}
                         /\ IF touched = {} THEN told.resource = Host ELSE told.resource \in touched
                         /\ told.hostPathsUnderWorkdir => \A at \in reached : IsPrefix(dir, at)
                         /\ dir # <<>> /\ (\A at \in reached : IsPrefix(dir, at)) => told.hostPathsUnderWorkdir
                         /\ \A root \in told.hostPathsRoot, d \in directories :
                               IsPrefix(d, root.elements) <=> \A at \in reached : IsPrefix(d, at)
  BY DEF DescribedAsTouched
<1>. DEFINE inv     == Argv(list)
            told    == Describe(list, inv, caller, workdir)
            touched == Touched(list, inv)
            reached == Reached(list, inv, workdir)
            dir     == Walked(<<>>, workdir.elements)
            hosts   == HostPaths(list, inv, workdir)
<1>1. Reads(list, inv)
  BY ArgumentsAre
<1>. HIDE DEF inv
<1>2. /\ told.targetsSelf = TargetsOnly(NamedSandboxes(list, inv), caller)
      /\ told.resource = TargetOf(list, inv)
      /\ told.hostPathsUnderWorkdir = AllUnder(hosts, workdir)
      /\ told.hostPathsRoot = IF hosts = <<>> THEN {} ELSE {CommonAncestor(hosts)}
  BY DEF Describe
<1>3. /\ TargetsOnly(NamedSandboxes(list, inv), caller) <=> touched = {caller}
      /\ IF touched = {} THEN TargetOf(list, inv) = Host ELSE TargetOf(list, inv) \in touched
  BY <1>1, TargetsSelf
<1>4. /\ hosts = <<>> <=> reached = {}
      /\ \A path \in Range(hosts) : \E at \in reached : path = Path(TRUE, at)
      /\ \A at \in reached : IsPlace(at) /\ Path(TRUE, at) \in Range(hosts)
  BY <1>1, HostPathsAre
<1>. HIDE DEF told, touched, reached, hosts
<1>5. /\ AllUnder(hosts, workdir) => \A at \in reached : IsPrefix(dir, at)
      /\ dir # <<>> /\ (\A at \in reached : IsPrefix(dir, at)) => AllUnder(hosts, workdir)
  BY <1>4, UnderIs
<1>6. ASSUME NEW root \in told.hostPathsRoot, NEW d \in directories
      PROVE  IsPrefix(d, root.elements) <=> \A at \in reached : IsPrefix(d, at)
  <2>1. hosts # <<>> /\ root = CommonAncestor(hosts)
    BY <1>2, <1>6
  <2>2. PICK some \in reached : TRUE
    BY <1>4, <2>1
  <2>3. IsElements(d)
    OBVIOUS
  <2>4. IsPrefix(d, CommonAncestor(hosts).elements) <=> \A at \in reached : IsPrefix(d, at)
    BY <1>4, <2>2, <2>3, CommonAncestorIs
  <2>. QED
    BY <2>1, <2>4
<1>. HIDE DEF dir
<1>. QED
  BY <1>2, <1>3, <1>5, <1>6 DEF inv, told, touched, reached, dir

\* So it is with every list that is typed, in every working directory
\* (context.go:39-75, 108-134).
THEOREM TypedListsAreDescribedAsRead == ListsSpec => []DescribedAsRead
<1>1. Typed /\ IsList(argv) => DescribedAsRead
  <2>. SUFFICES ASSUME Typed, IsList(argv), NEW workdir \in Workdirs
                PROVE  DescribedAsTouched(argv, Caller, workdir, Directories)
    BY DEF DescribedAsRead
  <2>1. Spells(argv)
    BY ListsAssumption DEF Typed, Spells
  <2>2. workdir.absolute = TRUE /\ IsElements(workdir.elements)
    BY ListsAssumption
  <2>3. \A elements \in Directories : IsElements(elements)
    BY ListsAssumption
  <2>. QED
    BY <2>1, <2>2, <2>3, EveryListIsDescribedAsTouched
<1>. QED
  BY <1>1, StaysTyped, PTL
==========================================================================
