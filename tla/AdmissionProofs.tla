------------------------- MODULE AdmissionProofs -------------------------
(***************************************************************************)
(* For every set of names, callers, cap and TTL: the table of tickets is   *)
(* well typed and bounded, and with its clock implements TicketStore.      *)
(*                                                                         *)
(* For every set of processes: the composition runs the ticket table and   *)
(* the key file as their own modules specify them, so what is proved of    *)
(* them holds of it, and servers and grants agree on the key.  A server    *)
(* admits the callers that a grant with its key minted a token for, and    *)
(* nobody else, because a token is split where it was joined, whatever     *)
(* dots a name has.                                                        *)
(***************************************************************************)
EXTENDS Admission, SequenceTheorems, FiniteSetTheorems, TLAPS

(* Tickets *)

\* The inductive invariant: types, the cap, and the history that says a
\* redeemed name has left the table.
IInv == TypeOK /\ TableIsBounded /\ HistoryOK

\* Storing one more entry grows the table by at most one.
LEMMA OneMore ==
    ASSUME NEW S, NEW x, IsFiniteSet(S)
    PROVE  /\ Cardinality(S) \in Nat
           /\ Cardinality(S \cup {x}) \in Nat
           /\ Cardinality(S \cup {x}) <= Cardinality(S) + 1
<1>1. Cardinality(S) \in Nat
  BY FS_CardinalityType
<1>2. Cardinality(S \cup {x}) = IF x \in S THEN Cardinality(S) ELSE Cardinality(S) + 1
  BY FS_AddElement
<1>. QED
  BY <1>1, <1>2

\* Dropping the expired entries leaves a sub-table.
LEMMA DropExpiredShape ==
    ASSUME TypeOK
    PROVE  /\ DOMAIN DropExpired = {t \in DOMAIN issued : ~Expired(issued[t])}
           /\ \A t \in DOMAIN DropExpired : DropExpired[t] = issued[t]
           /\ IsFiniteSet(DOMAIN issued)
           /\ IsFiniteSet(DOMAIN DropExpired)
           /\ Cardinality(DOMAIN DropExpired) \in Nat
           /\ Cardinality(DOMAIN DropExpired) <= Cardinality(DOMAIN issued)
<1>1. /\ DOMAIN DropExpired = {t \in DOMAIN issued : ~Expired(issued[t])}
      /\ \A t \in DOMAIN DropExpired : DropExpired[t] = issued[t]
  BY DEF DropExpired, Restrict
<1>2. IsFiniteSet(DOMAIN issued)
  BY TicketsAssumption, FS_Subset DEF TypeOK, TicketsAssumption
<1>3. DOMAIN DropExpired \subseteq DOMAIN issued
  BY <1>1
<1>. QED
  BY <1>1, <1>2, <1>3, FS_Subset, FS_CardinalityType

\* Types hold at the start: the table is empty.
LEMMA InitIInv == Init => IInv
<1>. SUFFICES ASSUME Init PROVE IInv
  OBVIOUS
<1>1. TypeOK
  BY TicketsAssumption DEF Init, TypeOK, Replies, TicketsAssumption
<1>2. TableIsBounded
  <2>1. DOMAIN issued = {}
    BY DEF Init
  <2>. QED
    BY <2>1, FS_EmptySet, TicketsAssumption DEF TableIsBounded, TicketsAssumption
<1>3. HistoryOK
  BY DEF Init, HistoryOK
<1>. QED
  BY <1>1, <1>2, <1>3 DEF IInv

\* Every operation and every tick keeps the invariant.
LEMMA NextIInv == IInv /\ [Next]_vars => IInv'
<1>. SUFFICES ASSUME IInv, [Next]_vars PROVE IInv'
  OBVIOUS
<1>. USE DEF IInv
<1>1. ASSUME NEW t \in TicketNames, NEW c \in Callers, Issue(t, c) PROVE IInv'
  <2>. DEFINE kept == DOMAIN DropExpired
  <2>1. DOMAIN issued' = kept \cup {t}
    BY <1>1 DEF Issue
  <2>2. TypeOK'
    <3>1. now + TTL \in Nat
      BY TicketsAssumption DEF TicketsAssumption, TypeOK
    <3>2. \A u \in kept : issued[u] \in Entry /\ u \in TicketNames
      BY DropExpiredShape DEF TypeOK
    <3>3. issued' \in [DOMAIN issued' -> Entry]
      BY <1>1, <2>1, <3>1, <3>2, DropExpiredShape DEF Issue, Entry
    <3>. QED
      BY <1>1, <2>1, <3>2, <3>3 DEF Issue, TypeOK, Replies
  <2>3. TableIsBounded'
    <3>1. IsFiniteSet(kept)
      BY DropExpiredShape
    <3>2. /\ Cardinality(kept) \in Nat
          /\ Cardinality(kept \cup {t}) \in Nat
          /\ Cardinality(kept \cup {t}) <= Cardinality(kept) + 1
      BY <3>1, OneMore
    <3>3. Cardinality(kept) < MaxLiveTickets
      BY <1>1 DEF Issue
    <3>. QED
      BY <2>1, <3>2, <3>3, TicketsAssumption
      DEF TableIsBounded, TicketsAssumption
  <2>4. HistoryOK'
    <3>1. honoured[t] = 0 /\ c # NoCaller
      BY <1>1, TicketsAssumption DEF Issue, HistoryOK, TicketsAssumption
    <3>2. issued'[t].caller = c /\ drawn'[t] = c
      BY <1>1, <2>1 DEF Issue, TypeOK
    <3>3. \A u \in kept \ {t} : issued'[u] = issued[u] /\ drawn'[u] = drawn[u]
      BY <1>1, <2>1, DropExpiredShape DEF Issue, TypeOK
    <3>4. \A u \in kept : u \in DOMAIN issued
      BY DropExpiredShape
    <3>5. honoured' = honoured /\ \A u \in TicketNames : honoured[u] # 0 => drawn'[u] # NoCaller
      BY <1>1, <3>1 DEF Issue, HistoryOK, TypeOK
    <3>. QED
      BY <2>1, <3>1, <3>2, <3>3, <3>4, <3>5 DEF HistoryOK
  <2>. QED
    BY <2>2, <2>3, <2>4
<1>2. CASE IssueFull
  <2>1. TypeOK'
    BY <1>2, DropExpiredShape DEF IssueFull, TypeOK, Replies, DropExpired, Restrict
  <2>2. TableIsBounded'
    BY <1>2, DropExpiredShape, FS_CardinalityType, TicketsAssumption
    DEF IssueFull, TableIsBounded, TicketsAssumption
  <2>3. HistoryOK'
    BY <1>2, DropExpiredShape DEF IssueFull, HistoryOK
  <2>. QED
    BY <2>1, <2>2, <2>3
<1>3. ASSUME NEW t \in TicketNames, RedeemUnknown(t) PROVE IInv'
  BY <1>3 DEF RedeemUnknown, TypeOK, Replies, TableIsBounded, HistoryOK
<1>4. ASSUME NEW t \in TicketNames, Redeem(t) PROVE IInv'
  <2>1. /\ DOMAIN issued' = DOMAIN issued \ {t}
        /\ \A u \in DOMAIN issued' : issued'[u] = issued[u]
        /\ issued' = [u \in DOMAIN issued' |-> issued[u]]
    BY <1>4 DEF Redeem, Restrict
  <2>2. TypeOK'
    <3>1. issued' \in [DOMAIN issued' -> Entry]
      BY <2>1 DEF TypeOK
    <3>2. reply' \in Replies
      BY <1>4 DEF Redeem, TypeOK, Replies, Entry
    <3>3. honoured' \in [TicketNames -> Nat]
      BY <1>4 DEF Redeem, TypeOK
    <3>. QED
      BY <1>4, <2>1, <3>1, <3>2, <3>3 DEF Redeem, TypeOK
  <2>3. TableIsBounded'
    BY <2>1, DropExpiredShape, FS_Subset, FS_CardinalityType, TicketsAssumption
    DEF TableIsBounded, TicketsAssumption
  <2>4. HistoryOK'
    <3>1. /\ honoured' \in {honoured, [honoured EXCEPT ![t] = @ + 1]}
          /\ drawn' = drawn
      BY <1>4 DEF Redeem
    <3>2. drawn[t] # NoCaller /\ honoured[t] = 0
      BY <1>4 DEF Redeem, HistoryOK
    <3>. QED
      BY <2>1, <3>1, <3>2 DEF TypeOK, HistoryOK
  <2>. QED
    BY <2>2, <2>3, <2>4
<1>5. CASE Tick
  BY <1>5 DEF Tick, TypeOK, TableIsBounded, HistoryOK
<1>6. CASE UNCHANGED vars
  BY <1>6 DEF vars, TypeOK, TableIsBounded, HistoryOK
<1>7. CASE Restart
  <2>1. DOMAIN issued' = {}
    BY <1>7 DEF Restart
  <2>2. TypeOK'
    BY <1>7, <2>1 DEF Restart, TypeOK, Replies
  <2>3. TableIsBounded'
    BY <2>1, FS_EmptySet, TicketsAssumption DEF TableIsBounded, TicketsAssumption
  <2>4. HistoryOK'
    BY <1>7, <2>1 DEF Restart, HistoryOK
  <2>. QED
    BY <2>2, <2>3, <2>4
<1>. QED
  BY <1>1, <1>2, <1>3, <1>4, <1>5, <1>6, <1>7 DEF Next

LEMMA Invariance == Spec => []IInv
  BY InitIInv, NextIInv, PTL DEF Spec

\* The table is always well typed: a session is only ever admitted as a
\* verified caller.
THEOREM TicketsTypeCorrect == Spec => []TypeOK
<1>1. IInv => TypeOK
  BY DEF IInv
<1>. QED
  BY <1>1, Invariance, PTL

\* The table never holds more than the cap, whatever callers do.
THEOREM TicketsBounded == Spec => []TableIsBounded
<1>1. IInv => TableIsBounded
  BY DEF IInv
<1>. QED
  BY <1>1, Invariance, PTL

\* A handshake is turned away only while the cap's worth of tickets can all still
\* be redeemed: issue drops what has expired before it looks at the cap.
THEOREM NobodyIsLockedOut == Spec => FullMeansRedeemable
<1>. DEFINE good == {t \in DOMAIN issued : ~Expired(issued[t])}
            Only == now' = now /\ reply'.kind = "full" => Cardinality(good) >= MaxLiveTickets
<1>1. ASSUME IInv, [Next]_vars PROVE [Only]_vars
  <2>. SUFFICES ASSUME Next, now' = now, reply'.kind = "full"
                PROVE  Cardinality(good) >= MaxLiveTickets
    BY <1>1
  <2>1. CASE IssueFull
    BY <2>1 DEF IssueFull, DropExpired, Restrict
  <2>2. ~Tick /\ ~Restart
    <3>1. ~Tick
      BY <1>1 DEF Tick, IInv, TypeOK
    <3>. QED
      BY <3>1 DEF Restart
  <2>3. \A t \in TicketNames, c \in Callers : ~Issue(t, c)
    BY DEF Issue
  <2>4. \A t \in TicketNames : ~RedeemUnknown(t) /\ ~Redeem(t)
    BY DEF RedeemUnknown, Redeem
  <2>. QED
    BY <2>1, <2>2, <2>3, <2>4 DEF Next
<1>. QED
  BY <1>1, Invariance, PTL DEF Spec, FullMeansRedeemable

--------------------------------------------------------------------------

StatusMap == [t \in TicketNames |-> StatusOf(t)]

\* What the abstract store calls outstanding is what a purge would leave.
LEMMA OutstandingIsKept ==
    ASSUME IInv
    PROVE  Store!Outstanding = DOMAIN DropExpired
<1>1. DOMAIN DropExpired = {t \in DOMAIN issued : ~Expired(issued[t])}
  BY DropExpiredShape DEF IInv
<1>2. \A t \in TicketNames : StatusOf(t) = "outstanding" <=> t \in DOMAIN DropExpired
  BY <1>1 DEF StatusOf, IInv, HistoryOK
<1>3. DOMAIN DropExpired \subseteq TicketNames
  BY <1>1 DEF IInv, TypeOK
<1>. QED
  BY <1>2, <1>3 DEF Store!Outstanding

\* The instance's own copy of the operator is the operator.
LEMMA SameCardinality == \A S : Store!Cardinality(S) = Cardinality(S)
BY DEF Cardinality, Store!Cardinality

LEMMA StoreInitImplemented == Init => Store!StoreInit
BY TicketsAssumption DEF Init, StatusOf, Store!StoreInit, TicketsAssumption

\* Every step of the table is a step of the store or leaves it alone.
LEMMA StoreStepImplemented ==
    IInv /\ [Next]_vars => [Store!StoreNext]_(Store!storeVars)
<1>. SUFFICES ASSUME IInv, [Next]_vars
              PROVE  Store!StoreNext \/ (StatusMap' = StatusMap /\ drawn' = drawn)
  BY DEF Store!storeVars, StatusMap
<1>0. TypeOK /\ HistoryOK
  BY DEF IInv
<1>d. /\ DOMAIN DropExpired = {t \in DOMAIN issued : ~Expired(issued[t])}
      /\ \A t \in DOMAIN DropExpired : DropExpired[t] = issued[t]
  BY <1>0, DropExpiredShape
<1>1. ASSUME NEW t \in TicketNames, NEW c \in Callers, Issue(t, c)
      PROVE  Store!IssueTicket(t, c)
  <2>1. StatusOf(t) = "unissued"
    BY <1>1 DEF Issue, StatusOf
  <2>2. Cardinality(Store!Outstanding) < MaxLiveTickets
    BY <1>1, OutstandingIsKept DEF Issue
  <2>3. StatusOf(t)' = "outstanding"
    <3>1. drawn'[t] = c /\ c # NoCaller
      BY <1>0, <1>1, TicketsAssumption DEF Issue, TypeOK, TicketsAssumption
    <3>2. honoured'[t] = 0
      BY <1>0, <1>1 DEF Issue, HistoryOK
    <3>3. t \in DOMAIN issued' /\ issued'[t].expires = now + TTL /\ now' = now
      BY <1>1 DEF Issue
    <3>4. ~(now > now + TTL)
      BY <1>0, TicketsAssumption DEF TypeOK, TicketsAssumption
    <3>. QED
      BY <3>1, <3>2, <3>3, <3>4 DEF StatusOf, Expired
  <2>4. ASSUME NEW u \in TicketNames, u # t PROVE StatusOf(u)' = StatusOf(u)
    <3>1. drawn'[u] = drawn[u] /\ honoured' = honoured /\ now' = now
      BY <1>0, <1>1, <2>4 DEF Issue, TypeOK
    <3>2. u \in DOMAIN issued' <=> u \in DOMAIN DropExpired
      BY <1>1, <2>4 DEF Issue
    <3>3. u \in DOMAIN DropExpired => issued'[u] = issued[u]
      BY <1>1, <1>d, <2>4 DEF Issue
    <3>. QED
      BY <1>d, <3>1, <3>2, <3>3 DEF StatusOf, Expired
  <2>5. StatusMap' = [StatusMap EXCEPT ![t] = "outstanding"]
    BY <2>3, <2>4 DEF StatusMap
  <2>. QED
    BY <1>1, <2>1, <2>2, <2>5, SameCardinality DEF Store!IssueTicket, StatusMap, Issue
<1>2. ASSUME NEW t \in TicketNames, Redeem(t), ~Expired(issued[t])
      PROVE  Store!RedeemTicket(t)
  <2>1. StatusOf(t) = "outstanding" /\ StatusOf(t)' = "spent"
    <3>1. honoured[t] = 0 /\ honoured'[t] = 1 /\ drawn[t] # NoCaller /\ drawn' = drawn
      BY <1>0, <1>2 DEF Redeem, HistoryOK, TypeOK
    <3>. QED
      BY <1>2, <3>1 DEF Redeem, StatusOf
  <2>2. ASSUME NEW u \in TicketNames, u # t PROVE StatusOf(u)' = StatusOf(u)
    <3>1. honoured'[u] = honoured[u]
      BY <1>0, <1>2, <2>2 DEF Redeem, TypeOK
    <3>. QED
      BY <1>2, <2>2, <3>1 DEF Redeem, Restrict, StatusOf, Expired
  <2>3. StatusMap' = [StatusMap EXCEPT ![t] = "spent"]
    BY <2>1, <2>2 DEF StatusMap
  <2>. QED
    BY <1>2, <2>1, <2>3 DEF Store!RedeemTicket, StatusMap, Redeem
<1>3. ASSUME NEW t \in TicketNames, Redeem(t), Expired(issued[t])
      PROVE  StatusMap' = StatusMap /\ drawn' = drawn
  <2>1. ASSUME NEW u \in TicketNames PROVE StatusOf(u)' = StatusOf(u)
    BY <1>3 DEF Redeem, Restrict, StatusOf, Expired
  <2>. QED
    BY <1>3, <2>1 DEF Redeem, StatusMap
<1>4. CASE IssueFull
  <2>1. ASSUME NEW u \in TicketNames PROVE StatusOf(u)' = StatusOf(u)
    BY <1>4, <1>d DEF IssueFull, StatusOf, Expired
  <2>. QED
    BY <1>4, <2>1 DEF IssueFull, StatusMap
<1>5. CASE Tick
  <2>. DEFINE late == {t \in Store!Outstanding : Expired(issued[t])'}
  <2>0. /\ Store!Outstanding \subseteq TicketNames
        /\ \A u \in TicketNames : u \in Store!Outstanding <=> StatusOf(u) = "outstanding"
    BY DEF Store!Outstanding
  <2>1. ASSUME NEW u \in TicketNames
        PROVE  StatusOf(u)' = IF u \in late THEN "expired" ELSE StatusOf(u)
    <3>1. u \in DOMAIN issued => issued[u].expires \in Nat
      BY <1>0 DEF TypeOK, Entry
    <3>2. u \in DOMAIN issued /\ Expired(issued[u]) => Expired(issued[u])'
      BY <1>0, <1>5, <3>1 DEF Tick, Expired, TypeOK
    <3>. QED
      BY <1>5, <2>0, <3>2 DEF Tick, StatusOf, Expired
  <2>2. StatusMap' = [t \in TicketNames |-> IF t \in late THEN "expired" ELSE StatusMap[t]]
    BY <2>1 DEF StatusMap
  <2>3. CASE late = {}
    BY <1>5, <2>2, <2>3 DEF Tick, StatusMap
  <2>4. CASE late # {}
    <3>1. Store!ExpireTickets(late)
      BY <1>5, <2>2, <2>4 DEF Store!ExpireTickets, StatusMap, Tick
    <3>. QED
      BY <2>0, <3>1 DEF Store!StoreNext
  <2>. QED
    BY <2>3, <2>4
<1>6. ASSUME NEW t \in TicketNames, RedeemUnknown(t)
      PROVE  StatusMap' = StatusMap /\ drawn' = drawn
  BY <1>6 DEF RedeemUnknown, StatusMap, StatusOf, Expired
<1>7. CASE UNCHANGED vars
  BY <1>7 DEF vars, StatusMap, StatusOf, Expired
<1>8. CASE Restart
  <2>. DEFINE lost == Store!Outstanding
  <2>0. /\ lost \subseteq TicketNames
        /\ \A u \in TicketNames : u \in lost <=> StatusOf(u) = "outstanding"
    BY DEF Store!Outstanding
  <2>1. ASSUME NEW u \in TicketNames
        PROVE  StatusOf(u)' = IF u \in lost THEN "expired" ELSE StatusOf(u)
    <3>1. DOMAIN issued' = {} /\ drawn' = drawn /\ honoured' = honoured
      BY <1>8 DEF Restart
    <3>. QED
      BY <2>0, <3>1 DEF StatusOf
  <2>2. StatusMap' = [t \in TicketNames |-> IF t \in lost THEN "expired" ELSE StatusMap[t]]
    BY <2>1 DEF StatusMap
  <2>3. CASE lost = {}
    BY <1>8, <2>2, <2>3 DEF Restart, StatusMap
  <2>4. CASE lost # {}
    <3>1. Store!ExpireTickets(lost)
      BY <1>8, <2>2, <2>4 DEF Store!ExpireTickets, StatusMap, Restart
    <3>. QED
      BY <2>0, <3>1 DEF Store!StoreNext
  <2>. QED
    BY <2>3, <2>4
<1>. QED
  BY <1>1, <1>2, <1>3, <1>4, <1>5, <1>6, <1>7, <1>8 DEF Next, Store!StoreNext

\* A ticket admits at most one session, as the caller it was issued to, only
\* before it expires, and never again: the table with its clock implements the
\* abstract store.
THEOREM TicketsImplementStore == Spec => ImplementsStore
<1>1. Init => Store!StoreInit
  BY StoreInitImplemented
<1>2. IInv /\ [Next]_vars => [Store!StoreNext]_(Store!storeVars)
  BY StoreStepImplemented
<1>. QED
  BY <1>1, <1>2, Invariance, PTL DEF Spec, ImplementsStore, Store!StoreSpec

--------------------------------------------------------------------------
(* KeyFile and Admission *)

\* The inductive invariant behind KeysAgree: whoever creates the file does it
\* alone, and nobody has read it yet.
KeyIInv ==
    /\ KeyTypeOK
    /\ ~raced =>
         /\ \A p, q \in Creating : p = q
         /\ Creating # {} => loaded = {} /\ keyFile \in {"absent", "partial"}
         /\ \A p \in loaded : key[p] \in Processes /\ key[p] = keyFile

LEMMA KeyInitIInv == KeyInit => KeyIInv
BY DEF KeyInit, KeyIInv, KeyTypeOK, Creating

\* Every step of a process, and the removal of the file, keeps it.
LEMMA KeyNextIInv == KeyIInv /\ [KeyNext]_keyVars => KeyIInv'
<1>. SUFFICES ASSUME KeyIInv, [KeyNext]_keyVars PROVE KeyIInv'
  OBVIOUS
<1>. USE KeyFileAssumption DEF KeyIInv, KeyTypeOK, Creating, KeyGoto, KeyFileAssumption
<1>1. ASSUME NEW p \in Processes, MissKey(p) PROVE KeyIInv'
  BY <1>1 DEF MissKey
<1>2. ASSUME NEW p \in Processes, ReadKey(p) PROVE KeyIInv'
  BY <1>2 DEF ReadKey
<1>3. ASSUME NEW p \in Processes, ReadFails(p) PROVE KeyIInv'
  BY <1>3 DEF ReadFails
<1>4. ASSUME NEW p \in Processes, Truncate(p) PROVE KeyIInv'
  BY <1>4 DEF Truncate
<1>5. ASSUME NEW p \in Processes, WriteKey(p) PROVE KeyIInv'
  BY <1>5 DEF WriteKey
<1>6. ASSUME NEW p \in Processes, CreateFails(p) PROVE KeyIInv'
  BY <1>6 DEF CreateFails
<1>7. ASSUME NEW p \in Processes, KeyDies(p) PROVE KeyIInv'
  BY <1>7 DEF KeyDies
<1>8. CASE RemoveKeyFile
  BY <1>8 DEF RemoveKeyFile
<1>9. CASE UNCHANGED keyVars
  BY <1>9 DEF keyVars
<1>. QED
  BY <1>1, <1>2, <1>3, <1>4, <1>5, <1>6, <1>7, <1>8, <1>9 DEF KeyNext, LoadKey

\* Processes that load the key file agree on the key unless two of them created
\* it at once.
THEOREM KeyHoldersAgree == KeySpec => []KeysAgree
<1>1. KeyIInv => KeysAgree
  BY DEF KeyIInv, KeysAgree
<1>. QED
  BY <1>1, KeyInitIInv, KeyNextIInv, PTL DEF KeySpec

--------------------------------------------------------------------------

\* The composition takes the ticket table only through the table's own steps.
LEMMA AdmissionRunsTickets == AdmissionNext => [Next]_vars
<1>. SUFFICES ASSUME AdmissionNext PROVE [Next]_vars
  OBVIOUS
<1>1. ASSUME NEW p \in Processes, Load(p) \/ Listen(p) PROVE [Next]_vars
  BY <1>1 DEF Load, Listen
<1>2. ASSUME NEW p \in Processes, Stop(p) PROVE [Next]_vars
  BY <1>2 DEF Stop, Next
<1>3. ASSUME NEW p \in Processes, NEW c \in Callers, MintToken(p, c) PROVE [Next]_vars
  BY <1>3 DEF MintToken
<1>4. ASSUME NEW c \in Callers, Handshake(c) PROVE [Next]_vars
  BY <1>4 DEF Handshake, Next
<1>5. ASSUME NEW t \in TicketNames, Session(t) PROVE [Next]_vars
  BY <1>5 DEF Session, Next
<1>6. CASE Rotate
  BY <1>6 DEF Rotate
<1>7. CASE Wait
  BY <1>7 DEF Wait, Next
<1>. QED
  BY <1>1, <1>2, <1>3, <1>4, <1>5, <1>6, <1>7 DEF AdmissionNext

\* And the key file only through the steps of the processes that load it.
LEMMA AdmissionRunsKeyFile == AdmissionNext => [KeyNext]_keyVars
<1>. SUFFICES ASSUME AdmissionNext PROVE [KeyNext]_keyVars
  OBVIOUS
<1>1. ASSUME NEW p \in Processes, Load(p) PROVE [KeyNext]_keyVars
  BY <1>1 DEF Load, KeyNext
<1>2. ASSUME NEW p \in Processes, Listen(p) PROVE [KeyNext]_keyVars
  BY <1>2 DEF Listen
<1>3. ASSUME NEW p \in Processes, Stop(p) PROVE [KeyNext]_keyVars
  BY <1>3 DEF Stop, KeyNext
<1>4. ASSUME NEW p \in Processes, NEW c \in Callers, MintToken(p, c)
      PROVE  [KeyNext]_keyVars
  BY <1>4 DEF MintToken, KeyNext
<1>5. ASSUME NEW c \in Callers, Handshake(c) PROVE [KeyNext]_keyVars
  BY <1>5 DEF Handshake
<1>6. ASSUME NEW t \in TicketNames, Session(t) PROVE [KeyNext]_keyVars
  BY <1>6 DEF Session
<1>7. CASE Rotate
  BY <1>7 DEF Rotate, KeyNext
<1>8. CASE Wait
  BY <1>8 DEF Wait
<1>. QED
  BY <1>1, <1>2, <1>3, <1>4, <1>5, <1>6, <1>7, <1>8 DEF AdmissionNext

\* Grants, servers that come and go, and the sessions they admit are a run of the
\* ticket table beside a run of the key file: what is proved of either alone holds
\* of the two together, restarts included.
THEOREM AdmissionComposes == AdmissionSpec => Spec /\ KeySpec
<1>1. AdmissionInit => Init /\ KeyInit
  BY DEF AdmissionInit
<1>2. [AdmissionNext]_admissionVars => [Next]_vars
  BY AdmissionRunsTickets DEF admissionVars
<1>3. [AdmissionNext]_admissionVars => [KeyNext]_keyVars
  BY AdmissionRunsKeyFile DEF admissionVars
<1>. QED
  BY <1>1, <1>2, <1>3, PTL DEF AdmissionSpec, Spec, KeySpec

--------------------------------------------------------------------------
(* Tokens *)

Fields(k, c) == {TokenVersion} \cup Seq(STRING) \cup {Mac(k, c.sandbox, c.generation)}

\* What is where in a sequence of two parts.
LEMMA Joined ==
    ASSUME NEW F, NEW s \in Seq(F), NEW t \in Seq(F), NEW n \in Nat,
           Len(s) = n + 1, Len(t) = 2
    PROVE  /\ s \o t \in Seq(F) /\ Len(s \o t) = n + 3
           /\ \A i \in 1 .. n + 1 : (s \o t)[i] = s[i]
           /\ (s \o t)[n + 2] = t[1] /\ (s \o t)[n + 3] = t[2]
<1>1. /\ s \o t \in Seq(F) /\ Len(s \o t) = Len(s) + Len(t)
      /\ \A i \in 1 .. Len(s) + Len(t) :
            (s \o t)[i] = IF i <= Len(s) THEN s[i] ELSE t[i - Len(s)]
  BY ConcatProperties
<1>2. \A i \in 1 .. n + 1 : (s \o t)[i] = s[i]
  BY <1>1
<1>3. (s \o t)[n + 2] = t[1]
  <2>1. n + 2 \in 1 .. Len(s) + Len(t) /\ ~(n + 2 <= Len(s)) /\ (n + 2) - Len(s) = 1
    OBVIOUS
  <2>. QED
    BY <1>1, <2>1
<1>4. (s \o t)[n + 3] = t[2]
  <2>1. n + 3 \in 1 .. Len(s) + Len(t) /\ ~(n + 3 <= Len(s)) /\ (n + 3) - Len(s) = 2
    OBVIOUS
  <2>. QED
    BY <1>1, <2>1
<1>. QED
  BY <1>1, <1>2, <1>3, <1>4

\* What Mint puts where.
LEMMA MintShape ==
    ASSUME NEW k, NEW c \in Callers
    PROVE  LET token == Mint(k, c)
               n     == Len(c.sandbox)
           IN  /\ token \in Seq(Fields(k, c))
               /\ n \in Nat \ {0} /\ Len(token) = n + 3
               /\ token[1] = TokenVersion
               /\ \A i \in 1 .. n : token[i + 1] = c.sandbox[i]
               /\ token[n + 2] = <<c.generation>>
               /\ token[n + 3] = Mac(k, c.sandbox, c.generation)
<1>. DEFINE F == Fields(k, c)
            n == Len(c.sandbox)
            first == <<TokenVersion>>
            last == << <<c.generation>>, Mac(k, c.sandbox, c.generation) >>
<1>1. /\ c.sandbox \in Seq(Seq(STRING)) /\ c.sandbox # <<>> /\ c.generation \in STRING
  BY CallersAssumption
<1>2. n \in Nat \ {0}
  BY <1>1
<1>3. c.sandbox \in Seq(F)
  BY <1>1, SeqMonotonic DEF Fields
<1>4. first \in Seq(F) /\ Len(first) = 1 /\ first[1] = TokenVersion
  <2>1. TokenVersion \in F
    BY DEF Fields
  <2>. QED
    BY <2>1
<1>5. /\ last \in Seq(F) /\ Len(last) = 2
      /\ last[1] = <<c.generation>> /\ last[2] = Mac(k, c.sandbox, c.generation)
  BY <1>1 DEF Fields
<1>6. /\ first \o c.sandbox \in Seq(F) /\ Len(first \o c.sandbox) = n + 1
      /\ (first \o c.sandbox)[1] = TokenVersion
      /\ \A i \in 1 .. n : (first \o c.sandbox)[i + 1] = c.sandbox[i]
  BY <1>2, <1>3, <1>4, ConcatProperties
<1>. DEFINE front == first \o c.sandbox
<1>7. Mint(k, c) = front \o last
  BY DEF Mint
<1>8. front \in Seq(F) /\ last \in Seq(F) /\ Len(front) = n + 1 /\ Len(last) = 2
  BY <1>5, <1>6
<1>. HIDE DEF front, last, n, F
<1>9. /\ front \o last \in Seq(F) /\ Len(front \o last) = n + 3
      /\ \A i \in 1 .. n + 1 : (front \o last)[i] = front[i]
      /\ (front \o last)[n + 2] = last[1] /\ (front \o last)[n + 3] = last[2]
  BY <1>2, <1>8, Joined, SMTT(30)
<1>10. /\ front[1] = TokenVersion /\ \A i \in 1 .. n : front[i + 1] = c.sandbox[i]
       /\ last[1] = <<c.generation>> /\ last[2] = Mac(k, c.sandbox, c.generation)
  BY <1>5, <1>6 DEF front, last, n
<1>11. \A i \in 1 .. n : (front \o last)[i + 1] = c.sandbox[i]
  BY <1>2, <1>9, <1>10
<1>12. /\ Mint(k, c) \in Seq(F) /\ Len(Mint(k, c)) = n + 3
       /\ Mint(k, c)[1] = TokenVersion
       /\ \A i \in 1 .. n : Mint(k, c)[i + 1] = c.sandbox[i]
       /\ Mint(k, c)[n + 2] = <<c.generation>>
       /\ Mint(k, c)[n + 3] = Mac(k, c.sandbox, c.generation)
  BY <1>2, <1>7, <1>9, <1>10, <1>11
<1>. QED
  BY <1>2, <1>12, Zenon DEF n, F

\* A part of a name and a generation are never taken for a MAC.
LEMMA MacIsNoText ==
    ASSUME NEW k, NEW s, NEW g, NEW text \in Seq(STRING), Len(text) = 1
    PROVE  text # Mac(k, s, g)
BY DEF Mac

\* A token, whole or cut short, verifies under one key and for one caller: those it
\* was minted for, and only while it is whole.
LEMMA VerifiesOnlyAsMinted ==
    ASSUME NEW k, NEW k2, NEW c \in Callers, NEW c2 \in Callers,
           NEW n \in 1 .. Len(Mint(k, c))
    PROVE  Verifies(k2, SubSeq(Mint(k, c), 1, n), c2)
             <=> n = Len(Mint(k, c)) /\ k2 = k /\ c2 = c
<1>. DEFINE token == Mint(k, c)
            cut == SubSeq(token, 1, n)
            len == Len(c.sandbox)
<1>1. /\ token \in Seq(Fields(k, c))
      /\ len \in Nat \ {0} /\ Len(token) = len + 3
      /\ token[1] = TokenVersion
      /\ \A i \in 1 .. len : token[i + 1] = c.sandbox[i]
      /\ token[len + 2] = <<c.generation>>
      /\ token[len + 3] = Mac(k, c.sandbox, c.generation)
  BY MintShape
<1>2. /\ cut \in Seq(Fields(k, c)) /\ Len(cut) = n /\ n \in 1 .. len + 3
      /\ \A i \in 1 .. n : cut[i] = token[i]
  BY <1>1
<1>3. /\ c \in [sandbox : Seq(Seq(STRING)), generation : STRING]
      /\ c2 \in [sandbox : Seq(Seq(STRING)), generation : STRING]
  BY CallersAssumption
<1>4. ASSUME n = len + 3, k2 = k, c2 = c PROVE Verifies(k2, cut, c2)
  <2>1. cut = token
    BY <1>1, <1>4, SubSeqFull
  <2>2. SubSeq(token, 2, len + 1) = c.sandbox
    <3>1. SubSeq(token, 2, len + 1) \in Seq(Fields(k, c)) /\ Len(SubSeq(token, 2, len + 1)) = len
      BY <1>1
    <3>2. \A i \in 1 .. len : SubSeq(token, 2, len + 1)[i] = c.sandbox[i]
      BY <1>1
    <3>3. c.sandbox \in Seq(Fields(k, c))
      BY <1>3, SeqMonotonic DEF Fields
    <3>. QED
      BY <3>1, <3>2, <3>3, SeqEqual
  <2>. QED
    BY <1>1, <1>4, <2>1, <2>2 DEF Verifies, SplitToken
<1>5. ASSUME Verifies(k2, cut, c2) PROVE n = len + 3 /\ k2 = k /\ c2 = c
  <2>1. n >= 4 /\ token[n] = Mac(k2, c2.sandbox, c2.generation)
    BY <1>2, <1>5 DEF Verifies, SplitToken
  <2>2. CASE n < len + 2
    <3>1. n - 1 \in 1 .. len /\ token[n] = c.sandbox[n - 1]
      BY <1>1, <2>1, <2>2, SMTT(30)
    <3>2. c.sandbox \in Seq(Seq(STRING)) /\ n - 1 \in 1 .. Len(c.sandbox)
      BY <1>3, <3>1
    <3>3. PICK m \in 1 .. Len(c.sandbox) : m = n - 1
      BY <3>2
    <3>4. c.sandbox[m] \in Seq(STRING) /\ Len(c.sandbox[m]) = 1
      <4>1. c.sandbox[m] \in Seq(STRING)
        BY <3>2, ElementOfSeq
      <4>2. DOMAIN c.sandbox = 1 .. Len(c.sandbox)
        BY <3>2, LenProperties
      <4>. QED
        BY <4>1, <4>2, CallersAssumption
    <3>. QED
      BY <2>1, <3>1, <3>3, <3>4, MacIsNoText
  <2>3. CASE n = len + 2
    <3>1. <<c.generation>> \in Seq(STRING) /\ Len(<<c.generation>>) = 1
      BY <1>3
    <3>. QED
      BY <1>1, <2>1, <2>3, <3>1, MacIsNoText
  <2>4. CASE n = len + 3
    <3>1. Mac(k, c.sandbox, c.generation) = Mac(k2, c2.sandbox, c2.generation)
      BY <1>1, <2>1, <2>4
    <3>2. k = k2 /\ c.sandbox = c2.sandbox /\ c.generation = c2.generation
      BY <3>1 DEF Mac
    <3>. QED
      BY <1>3, <2>4, <3>2
  <2>. QED
    BY <1>2, <2>2, <2>3, <2>4
<1>. QED
  BY <1>1, <1>4, <1>5

--------------------------------------------------------------------------
(* Who is admitted *)

\* The tokens are as Mint made them, the server holds its key, no ticket outlives
\* its server, and each was issued to a caller that a grant with that key named.
AdmissionIInv ==
    /\ KeyTypeOK
    /\ \A m \in minted : /\ m.caller \in Callers /\ m.key \in Processes
                         /\ m.token = Mint(m.key, m.caller)
    /\ server \in (Processes \ Grants) \cup {NoServer}
    /\ server # NoServer => keyPc[server] = "ready"
    /\ \A p \in Processes : keyPc[p] = "ready" => key[p] \in Processes
    /\ server = NoServer => DOMAIN issued = {}
    /\ \A t \in DOMAIN issued : \E m \in minted :
          m.key = key[server] /\ m.caller = issued[t].caller

LEMMA AdmissionInitIInv == AdmissionInit => AdmissionIInv
<1>1. KeyInit => KeyTypeOK
  BY KeyInitIInv DEF KeyIInv
<1>. QED
  BY <1>1 DEF AdmissionInit, Init, KeyInit, AdmissionIInv

\* Steps that leave the tickets and the server alone, and no server without its key.
LEMMA KeyStepKeeps ==
    ASSUME AdmissionIInv, KeyTypeOK',
           UNCHANGED <<issued, server>>,
           minted \subseteq minted',
           \A m \in minted' : /\ m.caller \in Callers /\ m.key \in Processes
                             /\ m.token = Mint(m.key, m.caller),
           server # NoServer => keyPc'[server] = keyPc[server] /\ key'[server] = key[server],
           \A p \in Processes : keyPc'[p] = "ready" => key'[p] \in Processes
    PROVE  AdmissionIInv'
BY DEF AdmissionIInv

\* Steps of the table alone, in which no entry but one for c comes or changes.
LEMMA TableStepKeeps ==
    ASSUME AdmissionIInv, UNCHANGED <<keyVars, server, minted>>, server # NoServer,
           \A t \in DOMAIN issued' :
              \/ t \in DOMAIN issued /\ issued'[t] = issued[t]
              \/ \E m \in minted : m.key = key[server] /\ m.caller = issued'[t].caller
    PROVE  AdmissionIInv'
<1>1. KeyTypeOK'
  BY DEF AdmissionIInv, KeyTypeOK, keyVars
<1>. QED
  BY <1>1 DEF AdmissionIInv, keyVars

LEMMA AdmissionNextIInv == AdmissionIInv /\ KeyTypeOK' /\ [AdmissionNext]_admissionVars => AdmissionIInv'
<1>. SUFFICES ASSUME AdmissionIInv, KeyTypeOK', [AdmissionNext]_admissionVars PROVE AdmissionIInv'
  OBVIOUS
<1>1. ASSUME NEW p \in Processes, Load(p) PROVE AdmissionIInv'
  <2>1. UNCHANGED <<issued, server, minted>>
    BY <1>1 DEF Load, vars
  <2>2. /\ keyPc[p] # "ready" /\ \A q \in Processes \ {p} : keyPc'[q] = keyPc[q] /\ key'[q] = key[q]
        /\ keyPc'[p] = "ready" => key'[p] \in Processes
    BY <1>1 DEF Load, LoadKey, MissKey, ReadKey, ReadFails, Truncate, WriteKey, CreateFails, KeyGoto,
          AdmissionIInv, KeyTypeOK
  <2>. QED
    BY <2>1, <2>2, KeyStepKeeps, AdmissionAssumption DEF AdmissionIInv
<1>2. ASSUME NEW p \in Processes, Listen(p) PROVE AdmissionIInv'
  BY <1>2 DEF Listen, AdmissionIInv, vars, keyVars
<1>3. ASSUME NEW p \in Processes, Stop(p) PROVE AdmissionIInv'
  <2>1. /\ keyPc' = [keyPc EXCEPT ![p] = "over"] /\ key' = [key EXCEPT ![p] = NoKey] /\ minted' = minted
    BY <1>3 DEF Stop, KeyDies, KeyGoto
  <2>2. CASE server = p
    BY <1>3, <2>1, <2>2 DEF Stop, Restart, AdmissionIInv, KeyTypeOK
  <2>3. CASE server # p
    <3>1. UNCHANGED <<issued, server>>
      BY <1>3, <2>3 DEF Stop, vars
    <3>. QED
      BY <2>1, <2>3, <3>1, KeyStepKeeps DEF AdmissionIInv, KeyTypeOK
  <2>. QED
    BY <2>2, <2>3
<1>4. ASSUME NEW p \in Processes, NEW c \in Callers, MintToken(p, c) PROVE AdmissionIInv'
  <2>1. /\ keyPc' = [keyPc EXCEPT ![p] = "over"] /\ key' = [key EXCEPT ![p] = NoKey]
        /\ UNCHANGED <<issued, server>> /\ p \in Grants /\ key[p] \in Processes
    BY <1>4 DEF MintToken, KeyDies, KeyGoto, vars, AdmissionIInv
  <2>2. minted' = minted \cup {[token |-> Mint(key[p], c), caller |-> c, key |-> key[p]]}
    BY <1>4 DEF MintToken
  <2>3. server # NoServer => server # p
    BY <2>1 DEF AdmissionIInv
  <2>. QED
    BY <2>1, <2>2, <2>3, KeyStepKeeps DEF AdmissionIInv, KeyTypeOK
<1>5. ASSUME NEW c \in Callers, Handshake(c) PROVE AdmissionIInv'
  <2>1. /\ server # NoServer /\ UNCHANGED <<keyVars, server, minted>>
        /\ \E token \in Presented : Verifies(key[server], token, c)
    BY <1>5 DEF Handshake
  <2>2. PICK m \in minted : \E n \in 1 .. Len(m.token) :
                               Verifies(key[server], SubSeq(m.token, 1, n), c)
    BY <2>1 DEF Presented
  <2>3. m.key = key[server] /\ m.caller = c
    BY <2>2, VerifiesOnlyAsMinted DEF AdmissionIInv
  <2>4. DOMAIN DropExpired \subseteq DOMAIN issued /\ \A t \in DOMAIN DropExpired : DropExpired[t] = issued[t]
    BY DEF DropExpired, Restrict
  <2>5. CASE IssueFull
    BY <2>1, <2>4, <2>5, TableStepKeeps DEF IssueFull
  <2>6. ASSUME NEW t \in TicketNames, Issue(t, c) PROVE AdmissionIInv'
    <3>1. /\ DOMAIN issued' = DOMAIN DropExpired \cup {t} /\ issued'[t].caller = c
          /\ \A u \in DOMAIN DropExpired \ {t} : issued'[u] = DropExpired[u]
      BY <2>6 DEF Issue
    <3>. QED
      BY <2>1, <2>3, <2>4, <3>1, TableStepKeeps
  <2>. QED
    BY <1>5, <2>5, <2>6 DEF Handshake
<1>6. ASSUME NEW t \in TicketNames, Session(t) PROVE AdmissionIInv'
  <2>1. server # NoServer /\ UNCHANGED <<keyVars, server, minted>>
    BY <1>6 DEF Session
  <2>2. DOMAIN issued' \subseteq DOMAIN issued /\ \A u \in DOMAIN issued' : issued'[u] = issued[u]
    BY <1>6 DEF Session, Redeem, RedeemUnknown, Restrict
  <2>. QED
    BY <2>1, <2>2, TableStepKeeps
<1>7. CASE Rotate
  BY <1>7, KeyStepKeeps DEF Rotate, RemoveKeyFile, vars, AdmissionIInv
<1>8. CASE Wait
  BY <1>8, TableStepKeeps DEF Wait, Tick, AdmissionIInv
<1>9. CASE UNCHANGED admissionVars
  BY <1>9 DEF admissionVars, vars, keyVars, AdmissionIInv
<1>. QED
  BY <1>1, <1>2, <1>3, <1>4, <1>5, <1>6, <1>7, <1>8, <1>9 DEF AdmissionNext

LEMMA AdmissionInvariance == AdmissionSpec => []AdmissionIInv
<1>1. KeyIInv => KeyTypeOK
  BY DEF KeyIInv
<1>2. AdmissionSpec => []KeyIInv
  BY AdmissionComposes, KeyInitIInv, KeyNextIInv, PTL DEF KeySpec
<1>. QED
  BY <1>1, <1>2, AdmissionInitIInv, AdmissionNextIInv, PTL DEF AdmissionSpec

\* The composition is well typed: only a server that holds a key listens, and a call
\* that admits a session names a verified caller.
THEOREM AdmissionTypeCorrect == AdmissionSpec => []AdmissionTypeOK
<1>1. TypeOK /\ AdmissionIInv => AdmissionTypeOK
  BY DEF AdmissionIInv, AdmissionTypeOK
<1>2. AdmissionSpec => []TypeOK
  BY AdmissionComposes, TicketsTypeCorrect, PTL
<1>. QED
  BY <1>1, <1>2, AdmissionInvariance, PTL

\* Whatever tokens are presented, whole or cut short, whichever processes die and
\* however often the key is rotated, the server admits the callers that a grant with
\* its own key minted a token for, as the callers they are, and nobody else.
THEOREM OnlyTheGrantedAreAdmitted == AdmissionSpec => []AdmittedAsGranted
<1>1. ASSUME AdmissionIInv, NEW m \in minted, NEW c \in Callers
      PROVE  Verifies(key[server], m.token, c) <=> m.key = key[server] /\ m.caller = c
  <2>1. m.caller \in Callers /\ m.token = Mint(m.key, m.caller)
    BY <1>1 DEF AdmissionIInv
  <2>2. Len(m.token) \in 1 .. Len(m.token) /\ SubSeq(m.token, 1, Len(m.token)) = m.token
    BY <2>1, MintShape, SubSeqFull
  <2>3. Verifies(key[server], SubSeq(m.token, 1, Len(m.token)), c)
          <=> Len(m.token) = Len(m.token) /\ key[server] = m.key /\ c = m.caller
    BY <2>1, <2>2, VerifiesOnlyAsMinted
  <2>. QED
    BY <2>2, <2>3
<1>2. AdmissionIInv => AdmittedAsGranted
  BY <1>1 DEF AdmissionIInv, AdmittedAsGranted
<1>. QED
  BY <1>2, AdmissionInvariance, PTL
==========================================================================
