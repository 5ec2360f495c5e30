--------------------------- MODULE PolicyProofs --------------------------
(***************************************************************************)
(* Policy's cache is sound for every map, and where no two documents have  *)
(* one base name, every answer is the one that Judge gives.                *)
(*                                                                         *)
(* The argument: once the server answers, its bindings are the map's, each *)
(* with the policies of its documents (IInv), so what a caller's merge     *)
(* holds are the rules of the bindings that match it, provided that none   *)
(* of them was replaced by one with the same id (MergedAreTheRules); the   *)
(* rest of Authorize asks the same of the two (SameVerdict).               *)
(***************************************************************************)
EXTENDS Policy, SequenceTheorems, WellFoundedInduction, TLAPS

--------------------------------------------------------------------------
(* Merging *)

LEMMA BoundedHasLast ==
    ASSUME NEW T, T \subseteq Nat, T # {}, NEW n \in Nat, \A k \in T : k <= n
    PROVE  \E m \in T : \A k \in T : k <= m
<1> DEFINE R == OpToRel(<, Nat)
           U == {n - k : k \in T}
<1>1. U \subseteq Nat /\ U # {}
  <2>1. \A k \in T : k \in Nat /\ n - k \in Nat
    OBVIOUS
  <2>2. PICK k \in T : TRUE
    OBVIOUS
  <2>3. n - k \in U
    BY <2>2
  <2> QED
    BY <2>1, <2>3
<1>2. IsWellFoundedOn(R, Nat)
  BY NatLessThanWellFounded
<1>3. PICK x \in U : \A y \in U : <<y, x>> \notin R
  <2> HIDE DEF R, U
  <2> QED
    BY <1>1, <1>2, WFMin
<1>4. \A y \in U : ~(y < x)
  BY <1>1, <1>3 DEF OpToRel
<1>5. PICK m \in T : x = n - m
  BY <1>3
<1>6. \A k \in T : ~(n - k < n - m)
  BY <1>4, <1>5
<1>. QED
  BY <1>5, <1>6

\* What is merged comes from one of the sets.
LEMMA AddedComesFrom ==
    ASSUME NEW sets, DOMAIN sets \subseteq Nat, NEW n \in Nat, \A k \in DOMAIN sets : k <= n,
           NEW id \in DOMAIN Added(sets)
    PROVE  \E k \in DOMAIN sets : id \in DOMAIN sets[k] /\ Added(sets)[id] = sets[k][id]
<1> DEFINE having == {k \in DOMAIN sets : id \in DOMAIN sets[k]}
           last == CHOOSE k \in having : \A l \in having : l <= k
<1>1. id \in UNION {DOMAIN sets[k] : k \in DOMAIN sets} /\ Added(sets)[id] = sets[last][id]
  BY DEF Added
<1>2. having # {} /\ having \subseteq Nat /\ \A k \in having : k <= n
  BY <1>1
<1>3. \E m \in having : \A l \in having : l <= m
  <2> HIDE DEF having
  <2> QED
    BY <1>2, BoundedHasLast
<1>4. last \in having
  <2> HIDE DEF having
  <2> QED
    BY <1>3
<1>. QED
  BY <1>1, <1>4

\* And what no later set replaces is there.
LEMMA AddedHas ==
    ASSUME NEW sets, NEW k \in DOMAIN sets, NEW id \in DOMAIN sets[k]
    PROVE  id \in DOMAIN Added(sets)
BY DEF Added

--------------------------------------------------------------------------
(* The invariant *)

CompiledOnes == {Compiled(b) : b \in Range(map.bindings)}

\* What has been compiled is a beginning of a map that was accepted.
LoadInv ==
    /\ map \in Maps
    /\ phase \in {"reading", "compiling", "serving", "failed"}
    /\ bindings \in Seq(CompiledOnes)
    /\ Len(bindings) <= Len(map.bindings)
    /\ \A k \in DOMAIN bindings : bindings[k] = Compiled(map.bindings[k])
    /\ phase \in {"compiling", "serving"} => J!Usable
    /\ phase = "serving" => Len(bindings) = Len(map.bindings)
    /\ phase # "serving" => DOMAIN resolved = {}

CacheInv == \A caller \in DOMAIN resolved : resolved[caller] = Merged(caller)

\* Where the calls are, and that an answer is to the request that was asked last.
CallInv ==
    /\ call \in [Calls -> Steps]
    /\ request \in [Calls -> Requests \cup {NoRequest}]
    /\ answer \in [Calls -> {"none", "unassigned", "error", "denied", "withheld", "allowed"}]
    /\ \A c \in Calls :
          /\ call[c] # "idle" => phase = "serving" /\ request[c] # NoRequest /\ answer[c] = "none"
          /\ call[c] = "idle" /\ request[c] # NoRequest => answer[c] # "none"
          /\ call[c] = "found" => request[c].caller \in DOMAIN resolved
          /\ answer[c] # "none" => request[c] # NoRequest /\ phase = "serving"

IInv == LoadInv /\ CacheInv /\ CallInv

LEMMA InitIInv == PolicyInit => IInv
<1> SUFFICES ASSUME PolicyInit PROVE IInv
  OBVIOUS
<1>1. map \in Maps /\ map.bindings \in Seq(Range(map.bindings))
  BY PolicyAssumption DEF PolicyInit
<1>2. bindings = <<>> /\ Len(bindings) = 0 /\ Len(map.bindings) \in Nat /\ DOMAIN bindings = {}
  BY <1>1 DEF PolicyInit
<1>3. LoadInv
  BY <1>1, <1>2 DEF PolicyInit, LoadInv
<1>4. CacheInv /\ CallInv
  BY DEF PolicyInit, CacheInv, CallInv, Steps
<1>. QED
  BY <1>3, <1>4 DEF IInv

\* The cache is not looked at while bindings are still added.
LEMMA LoadStep ==
    ASSUME IInv, ReadMap \/ Compile \/ ReadFails \/ Serve
    PROVE  IInv'
<1>1. map' = map /\ phase # "serving" /\ UNCHANGED <<resolved, callVars>>
  BY DEF ReadMap, Compile, ReadFails, Serve
<1>2. \A c \in Calls : call[c] = "idle" /\ answer[c] = "none"
  BY <1>1 DEF IInv, CallInv
<1>3. DOMAIN resolved = {}
  BY <1>1 DEF IInv, LoadInv
<1>4. CacheInv' /\ CallInv'
  BY <1>1, <1>2, <1>3 DEF IInv, CacheInv, CallInv, callVars
<1>5. (\A b : Compiled(b)' = Compiled(b)) /\ CompiledOnes' = CompiledOnes
  BY <1>1 DEF Compiled, Qualified, CompiledOnes
<1>6. J!Usable' <=> J!Usable
  BY <1>1 DEF J!Usable
<1>7. LoadInv'
  <2>1. CASE ReadMap
    <3>1. phase' \in {"compiling", "failed"} /\ UNCHANGED <<bindings, resolved>>
      BY <2>1 DEF ReadMap
    <3>2. phase' = "compiling" => J!Usable
      BY <2>1 DEF ReadMap, ValidBinding, J!Usable, Range, J!Range
    <3> QED
      BY <1>1, <1>3, <1>5, <1>6, <3>1, <3>2 DEF IInv, LoadInv
  <2>2. CASE Compile
    <3> DEFINE next == Len(bindings) + 1
    <3>1. /\ bindings \in Seq(CompiledOnes) /\ map.bindings \in Seq(Range(map.bindings))
          /\ Len(bindings) \in Nat /\ Len(map.bindings) \in Nat
      BY PolicyAssumption DEF IInv, LoadInv
    <3>2. /\ next \in 1 .. Len(map.bindings)
          /\ bindings' = Append(bindings, Compiled(map.bindings[next]))
          /\ UNCHANGED <<map, phase, resolved>>
      BY <2>2, <3>1 DEF Compile
    <3>3. Compiled(map.bindings[next]) \in CompiledOnes
      BY <3>1, <3>2 DEF Range, CompiledOnes
    <3>4. /\ bindings' \in Seq(CompiledOnes) /\ Len(bindings') = next
          /\ DOMAIN bindings' = 1 .. next /\ DOMAIN bindings = 1 .. Len(bindings)
          /\ \A k \in 1 .. Len(bindings) : bindings'[k] = bindings[k]
          /\ bindings'[next] = Compiled(map.bindings[next])
      BY <3>1, <3>2, <3>3, AppendProperties, LenProperties
    <3>5. \A k \in DOMAIN bindings' : bindings'[k] = Compiled(map.bindings[k])
      BY <3>1, <3>4 DEF IInv, LoadInv
    <3>6. Len(bindings') <= Len(map.bindings)
      BY <3>2, <3>4
    <3> QED
      BY <1>1, <1>3, <1>5, <1>6, <3>2, <3>4, <3>5, <3>6 DEF IInv, LoadInv
  <2>3. CASE ReadFails
    BY <1>1, <1>3, <1>5, <1>6, <2>3 DEF ReadFails, IInv, LoadInv
  <2>4. CASE Serve
    BY <1>1, <1>3, <1>5, <1>6, <2>4 DEF Serve, IInv, LoadInv
  <2> QED
    BY <2>1, <2>2, <2>3, <2>4
<1>. QED
  BY <1>4, <1>7 DEF IInv

\* The calls leave the map and its bindings alone, and so what a look would find.
LEMMA CallStep ==
    ASSUME IInv, NEW c \in Calls, CallNext(c)
    PROVE  IInv'
<1>1. UNCHANGED <<map, phase, bindings>>
  BY DEF CallNext, AskFor, LookUp, Store, Decide
<1>2. /\ \A b : Compiled(b)' = Compiled(b)
      /\ CompiledOnes' = CompiledOnes
      /\ \A caller : Merged(caller)' = Merged(caller)
      /\ J!Usable' <=> J!Usable
  BY <1>1 DEF Compiled, Qualified, CompiledOnes, Merged, J!Usable
<1>3. phase = "serving"
  BY DEF CallNext, AskFor, LookUp, Store, Decide, IInv, CallInv
<1>4. LoadInv'
  BY <1>1, <1>2, <1>3 DEF IInv, LoadInv
<1>5. CASE \E r \in Requests : AskFor(c, r)
  <2>1. CacheInv'
    BY <1>2, <1>5 DEF AskFor, IInv, CacheInv
  <2>2. CallInv'
    BY <1>5, PolicyAssumption DEF AskFor, IInv, CallInv, Steps
  <2> QED
    BY <1>4, <2>1, <2>2 DEF IInv
<1>6. CASE LookUp(c)
  <2>1. CacheInv'
    BY <1>2, <1>6 DEF LookUp, IInv, CacheInv
  <2>2. CallInv'
    BY <1>6 DEF LookUp, IInv, CallInv, Steps
  <2> QED
    BY <1>4, <2>1, <2>2 DEF IInv
<1>7. CASE Store(c)
  <2>1. CacheInv'
    BY <1>2, <1>7 DEF Store, IInv, CacheInv
  <2>2. CallInv'
    BY <1>7 DEF Store, IInv, CallInv, Steps
  <2> QED
    BY <1>4, <2>1, <2>2 DEF IInv
<1>8. CASE Decide(c)
  <2>1. CacheInv'
    BY <1>2, <1>8 DEF Decide, IInv, CacheInv
  <2>2. Decision(resolved[request[c].caller], request[c])
          \in {"unassigned", "error", "denied", "withheld", "allowed"}
    BY DEF Decision
  <2>3. CallInv'
    BY <1>8, <2>2 DEF Decide, IInv, CallInv, Steps
  <2> QED
    BY <1>4, <2>1, <2>3 DEF IInv
<1>. QED
  BY <1>5, <1>6, <1>7, <1>8 DEF CallNext

LEMMA StepIInv == IInv /\ [PolicyNext]_policyVars => IInv'
<1> SUFFICES ASSUME IInv, [PolicyNext]_policyVars PROVE IInv'
  OBVIOUS
<1>1. CASE PolicyNext
  BY <1>1, LoadStep, CallStep DEF PolicyNext
<1>2. CASE UNCHANGED policyVars
  <2>1. UNCHANGED <<map, phase, bindings, resolved, call, request, answer>>
    BY <1>2 DEF policyVars, callVars
  <2>2. /\ \A b : Compiled(b)' = Compiled(b)
        /\ CompiledOnes' = CompiledOnes
        /\ \A caller : Merged(caller)' = Merged(caller)
        /\ J!Usable' <=> J!Usable
    BY <2>1 DEF Compiled, Qualified, CompiledOnes, Merged, J!Usable
  <2> QED
    BY <2>1, <2>2 DEF IInv, LoadInv, CacheInv, CallInv
<1>. QED
  BY <1>1, <1>2

LEMMA Invariance == PolicySpec => []IInv
BY InitIInv, StepIInv, PTL DEF PolicySpec

\* PolicyTypeOK: a document is never left out, and whoever filled the cache, what it
\* holds for a caller is what a fresh look would find (authz.go:174-198).
THEOREM CacheIsFresh == PolicySpec => []PolicyTypeOK
<1>1. IInv => PolicyTypeOK
  BY DEF IInv, LoadInv, CacheInv, CallInv, PolicyTypeOK
<1>. QED
  BY <1>1, Invariance, PTL

--------------------------------------------------------------------------
(* The rules of a caller *)

\* The documents of a map have base names of their own.
DistinctNames ==
    \A m \in Maps : \A one, other \in DOMAIN m.documents :
        RefName[one] = RefName[other] => one = other

\* What the map says of an id: some document of a binding has its policy.
IsRule(b, id, p) ==
    \E ref \in Range(b.policies) : \E k \in DOMAIN map.documents[ref] :
        id = <<RefName[ref], k>> /\ p = map.documents[ref][k]

LEMMA CompiledFromDocuments ==
    ASSUME IInv, NEW b \in Range(map.bindings)
    PROVE  /\ \A id \in DOMAIN Compiled(b).policies : IsRule(b, id, Compiled(b).policies[id])
           /\ \A ref \in Range(b.policies) : \A k \in DOMAIN map.documents[ref] :
                 <<RefName[ref], k>> \in DOMAIN Compiled(b).policies
<1> DEFINE sets == [k \in DOMAIN b.policies |-> Qualified(b.policies[k])]
<1>1. /\ b.policies \in Seq(DOMAIN map.documents) /\ Len(b.policies) \in Nat
      /\ DOMAIN b.policies = 1 .. Len(b.policies)
  BY PolicyAssumption DEF IInv, LoadInv
<1>2. DOMAIN sets \subseteq Nat /\ \A k \in DOMAIN sets : k <= Len(b.policies)
  BY <1>1
<1>3. Compiled(b).policies = Added(sets)
  BY DEF Compiled
<1>4. ASSUME NEW id \in DOMAIN Added(sets) PROVE IsRule(b, id, Added(sets)[id])
  <2>1. PICK j \in DOMAIN sets : id \in DOMAIN sets[j] /\ Added(sets)[id] = sets[j][id]
    <3> HIDE DEF sets
    <3> QED
      BY <1>1, <1>2, <1>4, AddedComesFrom
  <2>2. b.policies[j] \in Range(b.policies) /\ sets[j] = Qualified(b.policies[j])
    BY <2>1 DEF Range
  <2>3. PICK k \in DOMAIN map.documents[b.policies[j]] : id = <<RefName[b.policies[j]], k>>
    BY <2>1, <2>2 DEF Qualified
  <2>4. Added(sets)[id] = map.documents[b.policies[j]][k]
    BY <2>1, <2>2, <2>3 DEF Qualified
  <2> QED
    BY <2>2, <2>3, <2>4 DEF IsRule
<1>5. ASSUME NEW ref \in Range(b.policies), NEW k \in DOMAIN map.documents[ref]
      PROVE  <<RefName[ref], k>> \in DOMAIN Added(sets)
  <2>1. PICK j \in DOMAIN b.policies : b.policies[j] = ref
    BY DEF Range
  <2>2. j \in DOMAIN sets /\ <<RefName[ref], k>> \in DOMAIN sets[j]
    BY <2>1 DEF Qualified
  <2> HIDE DEF sets
  <2> QED
    BY <2>2, AddedHas
<1>. QED
  BY <1>3, <1>4, <1>5

\* A server that answers has every binding of the map, and no more.
LEMMA BindingsAreTheMaps ==
    ASSUME IInv, phase = "serving"
    PROVE  /\ Len(bindings) \in Nat /\ DOMAIN bindings = 1 .. Len(bindings)
           /\ DOMAIN map.bindings = DOMAIN bindings
           /\ \A k \in DOMAIN bindings :
                 /\ map.bindings[k] \in Range(map.bindings)
                 /\ bindings[k].policies = Compiled(map.bindings[k]).policies
                 /\ bindings[k].binding = map.bindings[k]
                 /\ \A sandbox : Matches(bindings[k].binding, sandbox)
                                   <=> map.bindings[k] \in J!Matching(sandbox)
<1>1. /\ bindings \in Seq(CompiledOnes) /\ map.bindings \in Seq(Range(map.bindings))
      /\ Len(bindings) = Len(map.bindings)
  BY PolicyAssumption DEF IInv, LoadInv
<1>2. /\ Len(bindings) \in Nat /\ DOMAIN bindings = 1 .. Len(bindings)
      /\ DOMAIN map.bindings = DOMAIN bindings
  BY <1>1, LenProperties
<1>3. ASSUME NEW k \in DOMAIN bindings
      PROVE  /\ map.bindings[k] \in Range(map.bindings)
             /\ bindings[k] = Compiled(map.bindings[k])
             /\ bindings[k].binding = map.bindings[k]
  BY <1>2 DEF IInv, LoadInv, Compiled, Range
<1>4. ASSUME NEW k \in DOMAIN bindings, NEW sandbox
      PROVE  Matches(bindings[k].binding, sandbox) <=> map.bindings[k] \in J!Matching(sandbox)
  <2>1. Malformed \notin map.bindings[k].sandboxes
    BY <1>3 DEF IInv, LoadInv, J!Usable, Range, J!Range
  <2> QED
    BY <1>3, <2>1 DEF Matches, J!Matching, Range, J!Range
<1>. QED
  BY <1>2, <1>3, <1>4

LEMMA MergedFromBindings ==
    ASSUME IInv, phase = "serving", NEW caller
    PROVE  /\ \A id \in DOMAIN Merged(caller) :
                 \E b \in J!Matching(caller) : IsRule(b, id, Merged(caller)[id])
           /\ \A b \in J!Matching(caller) : \A ref \in Range(b.policies) :
                 \A k \in DOMAIN map.documents[ref] :
                    <<RefName[ref], k>> \in DOMAIN Merged(caller)
<1> DEFINE sets == [k \in {k \in DOMAIN bindings : Matches(bindings[k].binding, caller)} |->
                       bindings[k].policies]
<1>1. /\ Len(bindings) \in Nat /\ DOMAIN bindings = 1 .. Len(bindings)
      /\ DOMAIN map.bindings = DOMAIN bindings
  BY BindingsAreTheMaps
<1>2. \A k \in DOMAIN bindings :
         /\ map.bindings[k] \in Range(map.bindings)
         /\ bindings[k].policies = Compiled(map.bindings[k]).policies
         /\ Matches(bindings[k].binding, caller) <=> map.bindings[k] \in J!Matching(caller)
  BY BindingsAreTheMaps
<1>3. Merged(caller) = Added(sets)
  BY DEF Merged
<1>4. DOMAIN sets \subseteq Nat /\ \A k \in DOMAIN sets : k <= Len(bindings)
  BY <1>1
<1>5. ASSUME NEW id \in DOMAIN Added(sets)
      PROVE  \E b \in J!Matching(caller) : IsRule(b, id, Added(sets)[id])
  <2>1. PICK j \in DOMAIN sets : id \in DOMAIN sets[j] /\ Added(sets)[id] = sets[j][id]
    <3> HIDE DEF sets
    <3> QED
      BY <1>1, <1>4, <1>5, AddedComesFrom
  <2>2. /\ map.bindings[j] \in J!Matching(caller) /\ map.bindings[j] \in Range(map.bindings)
        /\ sets[j] = Compiled(map.bindings[j]).policies
    BY <1>1, <1>2, <2>1
  <2> QED
    BY <2>1, <2>2, CompiledFromDocuments
<1>6. ASSUME NEW b \in J!Matching(caller), NEW ref \in Range(b.policies),
             NEW k \in DOMAIN map.documents[ref]
      PROVE  <<RefName[ref], k>> \in DOMAIN Added(sets)
  <2>1. PICK j \in DOMAIN bindings : map.bindings[j] = b /\ b \in Range(map.bindings)
    BY <1>1, <1>2 DEF J!Matching, Range, J!Range
  <2>2. j \in DOMAIN sets /\ sets[j] = Compiled(b).policies
    BY <1>1, <1>2, <2>1
  <2>3. <<RefName[ref], k>> \in DOMAIN sets[j]
    BY <2>1, <2>2, CompiledFromDocuments
  <2> HIDE DEF sets
  <2> QED
    BY <2>2, <2>3, AddedHas
<1>. QED
  BY <1>3, <1>5, <1>6

\* A merge holds every rule of every binding that matches, and no other, unless two
\* documents have one name.
LEMMA MergedAreTheRules ==
    ASSUME IInv, phase = "serving", DistinctNames, NEW caller
    PROVE  /\ \A id \in DOMAIN Merged(caller) : Merged(caller)[id] \in J!Rules(caller)
           /\ \A p \in J!Rules(caller) : \E id \in DOMAIN Merged(caller) : Merged(caller)[id] = p
<1>1. ASSUME NEW b \in J!Matching(caller), NEW ref \in Range(b.policies)
      PROVE  ref \in DOMAIN map.documents
  <2>1. b \in Range(map.bindings)
    BY DEF J!Matching, Range, J!Range
  <2>2. b.policies \in Seq(DOMAIN map.documents)
    BY <2>1, PolicyAssumption DEF IInv, LoadInv
  <2> QED
    BY <2>2, LenProperties DEF Range
<1>2. ASSUME NEW id \in DOMAIN Merged(caller) PROVE Merged(caller)[id] \in J!Rules(caller)
  <2>1. PICK b \in J!Matching(caller) : IsRule(b, id, Merged(caller)[id])
    BY MergedFromBindings
  <2> QED
    BY <2>1 DEF IsRule, J!Rules, Range, J!Range
<1>3. ASSUME NEW p \in J!Rules(caller)
      PROVE  \E id \in DOMAIN Merged(caller) : Merged(caller)[id] = p
  <2>1. PICK b \in J!Matching(caller), ref \in UNION {Range(o.policies) : o \in J!Matching(caller)} :
           ref \in Range(b.policies) /\ p \in Range(map.documents[ref])
    BY DEF J!Rules, Range, J!Range
  <2>2. PICK k \in DOMAIN map.documents[ref] : p = map.documents[ref][k]
    BY <2>1 DEF Range
  <2>3. <<RefName[ref], k>> \in DOMAIN Merged(caller)
    BY <2>1, MergedFromBindings
  <2>4. PICK o \in J!Matching(caller) : IsRule(o, <<RefName[ref], k>>, Merged(caller)[<<RefName[ref], k>>])
    BY <2>3, MergedFromBindings
  <2>5. PICK other \in Range(o.policies) : \E l \in DOMAIN map.documents[other] :
           /\ <<RefName[ref], k>> = <<RefName[other], l>>
           /\ Merged(caller)[<<RefName[ref], k>>] = map.documents[other][l]
    BY <2>4 DEF IsRule
  <2>6. other = ref
    BY <1>1, <2>1, <2>5 DEF DistinctNames, IInv, LoadInv
  <2> QED
    BY <2>2, <2>3, <2>5, <2>6
<1>. QED
  BY <1>2, <1>3

--------------------------------------------------------------------------
(* Answers *)

LEMMA SameGroups ==
    ASSUME IInv, phase = "serving", NEW r
    PROVE  Entities(r) = J!GroupsIn(r)
<1>1. /\ DOMAIN map.bindings = DOMAIN bindings
      /\ \A k \in DOMAIN bindings : bindings[k].binding = map.bindings[k]
  BY BindingsAreTheMaps
<1>2. ASSUME NEW sandbox PROVE GroupsFor(sandbox) = J!GroupsGiven(sandbox)
  <2>1. \A k \in DOMAIN bindings :
           Matches(bindings[k].binding, sandbox) <=> map.bindings[k] \in J!Matching(sandbox)
    BY BindingsAreTheMaps
  <2>2. ASSUME NEW g PROVE g \in GroupsFor(sandbox) <=> g \in J!GroupsGiven(sandbox)
    <3>1. ASSUME g \in GroupsFor(sandbox) PROVE g \in J!GroupsGiven(sandbox)
      <4>1. PICK o \in Range(bindings) : Matches(o.binding, sandbox) /\ g \in o.binding.groups
        BY <3>1 DEF GroupsFor
      <4>2. PICK k \in DOMAIN bindings : o = bindings[k]
        BY DEF Range
      <4> QED
        BY <1>1, <2>1, <4>1, <4>2 DEF J!GroupsGiven
    <3>2. ASSUME g \in J!GroupsGiven(sandbox) PROVE g \in GroupsFor(sandbox)
      <4>1. PICK b \in J!Matching(sandbox) : g \in b.groups
        BY <3>2 DEF J!GroupsGiven
      <4>2. PICK k \in DOMAIN bindings : b = map.bindings[k]
        BY <1>1 DEF J!Matching, J!Range
      <4>3. bindings[k] \in Range(bindings)
        BY DEF Range
      <4> QED
        BY <1>1, <2>1, <4>1, <4>2, <4>3 DEF GroupsFor
    <3> QED
      BY <3>1, <3>2
  <2> QED
    BY <2>2
<1>. QED
  BY <1>2 DEF Entities, J!GroupsIn

LEMMA SameCedar ==
    /\ \A p, r : J!Errs(p, r) <=> Errs(p, r)
    /\ \A p, r, g : J!Satisfied(p, r, g) <=> Satisfied(p, r, g)
BY DEF Errs, Satisfied, InScope, Fails, Holds, Groups,
   J!Errs, J!Satisfied, J!InScope, J!Fails, J!Holds, J!Groups

\* What the merge of a caller says of a request is the verdict of the rules.
LEMMA SameVerdict ==
    ASSUME IInv, phase = "serving", DistinctNames, NEW r
    PROVE  Decision(Merged(r.caller), r) = J!Verdict(r)
<1> DEFINE merged == Merged(r.caller)
           rules  == J!Rules(r.caller)
<1>1. /\ \A id \in DOMAIN merged : merged[id] \in rules
      /\ \A p \in rules : \E id \in DOMAIN merged : merged[id] = p
  BY MergedAreTheRules
<1>2. Entities(r) = J!GroupsIn(r)
  BY SameGroups
<1>3. DOMAIN merged = {} <=> rules = {}
  BY <1>1
<1>4. (\E id \in DOMAIN merged : Errs(merged[id], r)) <=> (\E p \in rules : J!Errs(p, r))
  BY <1>1, SameCedar
<1>5. ASSUME NEW effect
      PROVE  /\ Diagnose(merged, r, effect) = {} <=> J!Answering(r, effect) = {}
             /\ RequiresApproval(merged, Diagnose(merged, r, effect))
                  <=> \E p \in J!Answering(r, effect) : p.approval
  <2>1. \A id \in DOMAIN merged :
           id \in Diagnose(merged, r, effect) <=> merged[id] \in J!Answering(r, effect)
    BY <1>1, <1>2, SameCedar DEF Diagnose, J!Answering
  <2>2. Diagnose(merged, r, effect) \subseteq DOMAIN merged /\ J!Answering(r, effect) \subseteq rules
    BY DEF Diagnose, J!Answering
  <2> HIDE DEF merged, rules
  <2> QED
    BY <1>1, <2>1, <2>2 DEF RequiresApproval
<1>. QED
  BY <1>3, <1>4, <1>5 DEF Decision, J!Verdict

\* Each step is one of Judge's, or none.
LEMMA InitRefines == PolicyInit => J!JudgeInit
BY DEF PolicyInit, J!JudgeInit

LEMMA StepRefines ==
    ASSUME DistinctNames, IInv, [PolicyNext]_policyVars
    PROVE  [J!JudgeNext]_J!judgeVars
<1> USE DEF J!judgeVars
<1>1. CASE ReadMap \/ Compile \/ ReadFails
  <2>1. UNCHANGED <<map, request, answer>> /\ phase # "serving" /\ phase' # "serving"
    BY <1>1 DEF ReadMap, Compile, ReadFails, callVars
  <2> QED
    BY <2>1
<1>2. CASE Serve
  <2>1. J!OpenServer
    BY <1>2 DEF Serve, callVars, IInv, LoadInv, J!OpenServer
  <2> QED
    BY <2>1 DEF J!JudgeNext
<1>3. ASSUME NEW c \in Calls, NEW r \in Requests, AskFor(c, r) PROVE J!Ask(c, r)
  BY <1>3 DEF AskFor, IInv, CallInv, J!Ask
<1>4. ASSUME NEW c \in Calls, LookUp(c) \/ Store(c) PROVE UNCHANGED J!judgeVars
  BY <1>4 DEF LookUp, Store
<1>5. ASSUME NEW c \in Calls, Decide(c) PROVE J!Answer(c)
  <2>1. /\ phase = "serving" /\ request[c] # NoRequest /\ answer[c] = "none"
        /\ resolved[request[c].caller] = Merged(request[c].caller)
    BY <1>5 DEF Decide, IInv, CacheInv, CallInv
  <2>2. Decision(resolved[request[c].caller], request[c]) = J!Verdict(request[c])
    BY <2>1, SameVerdict
  <2> QED
    BY <1>5, <2>1, <2>2 DEF Decide, J!Answer
<1>6. CASE UNCHANGED policyVars
  BY <1>6 DEF policyVars, callVars
<1>. QED
  BY <1>1, <1>2, <1>3, <1>4, <1>5, <1>6 DEF PolicyNext, CallNext, J!JudgeNext

\* Where the documents of a map have names of their own, the server opens only with
\* the whole map, and answers what all the rules of all the bindings that match a
\* caller say together, whatever is cached when (bindings.go:28-31, authz.go:240-301).
THEOREM AnswersAsJudged ==
    ASSUME DistinctNames
    PROVE  PolicySpec => ImplementsJudge
<1>1. IInv /\ [PolicyNext]_policyVars => [J!JudgeNext]_J!judgeVars
  BY StepRefines
<1>. QED
  BY <1>1, InitRefines, Invariance, PTL DEF PolicySpec, ImplementsJudge, J!JudgeSpec

\* An answer stays the verdict of what was asked: nothing is asked or answered over it.
Judged == \A c \in Calls : answer[c] # "none" => answer[c] = J!Verdict(request[c])

\* And then no command passes a forbid that is bound to its caller, which fails where
\* two documents have one name (bindings.go:29-31, authz.go:147-150).
THEOREM ForbidsAreObeyed ==
    ASSUME DistinctNames
    PROVE  PolicySpec => []ForbidsHold
<1>1. PolicyInit => Judged
  BY DEF PolicyInit, Judged
<1>2. ASSUME IInv, Judged, [PolicyNext]_policyVars PROVE Judged'
  <2>1. UNCHANGED map /\ \A r : J!Verdict(r)' = J!Verdict(r)
    <3>1. UNCHANGED map
      BY <1>2 DEF PolicyNext, ReadMap, Compile, ReadFails, Serve, CallNext, AskFor, LookUp,
         Store, Decide, policyVars
    <3> QED
      BY <3>1 DEF J!Verdict, J!Rules, J!Answering, J!GroupsIn, J!GroupsGiven, J!Matching
  <2>2. CASE UNCHANGED <<request, answer>>
    BY <1>2, <2>1, <2>2 DEF Judged
  <2>3. ASSUME NEW c \in Calls, NEW r \in Requests, AskFor(c, r) PROVE Judged'
    BY <1>2, <2>1, <2>3 DEF AskFor, Judged, IInv, CallInv
  <2>4. ASSUME NEW c \in Calls, Decide(c) PROVE Judged'
    <3>1. /\ phase = "serving" /\ resolved[request[c].caller] = Merged(request[c].caller)
      BY <1>2, <2>4 DEF Decide, IInv, CacheInv, CallInv
    <3>2. Decision(resolved[request[c].caller], request[c]) = J!Verdict(request[c])
      BY <1>2, <3>1, SameVerdict
    <3> QED
      BY <1>2, <2>1, <2>4, <3>2 DEF Decide, Judged, IInv, CallInv
  <2> QED
    BY <1>2, <2>2, <2>3, <2>4 DEF PolicyNext, ReadMap, Compile, ReadFails, Serve, CallNext,
       LookUp, Store, policyVars, callVars
<1>3. IInv /\ Judged => ForbidsHold
  BY DEF Judged, ForbidsHold, J!Verdict
<1>. QED
  BY <1>1, <1>2, <1>3, Invariance, PTL DEF PolicySpec
==========================================================================
