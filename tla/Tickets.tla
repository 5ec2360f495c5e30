----------------------------- MODULE Tickets -----------------------------
(***************************************************************************)
(* The ticket table of internal/server/ticket.go.  Every operation runs    *)
(* under the table's mutex, so each is one step; the clock moves between   *)
(* them.  The table is a function whose domain is the set of tickets the   *)
(* Go map holds, expired ones included until something drops them.         *)
(*                                                                         *)
(* Bound: MaxTime ends the clock.                                          *)
(***************************************************************************)
EXTENDS Naturals, FiniteSets, Functions

CONSTANTS
    TicketNames,      \* values rand.Read can produce: each drawn at most once
    Callers,          \* verified callers
    NoCaller,
    MaxLiveTickets,   \* maxLiveTickets (1024)
    TTL,              \* tickets.ttl
    MaxTime

ASSUME TicketsAssumption ==
    /\ IsFiniteSet(TicketNames)
    /\ MaxLiveTickets \in Nat
    /\ TTL \in Nat
    /\ MaxTime \in Nat
    /\ NoCaller \notin Callers

VARIABLES
    issued,           \* tickets.issued: name -> [caller, expires]
    now,              \* tickets.now()
    reply,            \* what the last call returned
    drawn,            \* history: caller each drawn name was issued to
    honoured          \* history: how often each name has admitted a caller

vars == <<issued, now, reply, drawn, honoured>>

Entry == [caller : Callers, expires : Nat]

\* Only a call that succeeds carries a caller.
Replies == [kind : {"none", "full", "refused"}, caller : {NoCaller}]
             \cup [kind : {"ticket", "admitted"}, caller : Callers]


\* time.Time.After is strict: a ticket is still good at its expiry instant.
Expired(entry) == now > entry.expires

\* dropExpiredLocked.
DropExpired == Restrict(issued, {t \in DOMAIN issued : ~Expired(issued[t])})

Init ==
    /\ issued = [t \in {} |-> [caller |-> NoCaller, expires |-> 0]]
    /\ now = 0
    /\ reply = [kind |-> "none", caller |-> NoCaller]
    /\ drawn = [t \in TicketNames |-> NoCaller]
    /\ honoured = [t \in TicketNames |-> 0]

\* issue: drop what has expired, then store the new ticket.
Issue(t, c) ==
    /\ drawn[t] = NoCaller
    /\ Cardinality(DOMAIN DropExpired) < MaxLiveTickets
    /\ issued' = [u \in DOMAIN DropExpired \cup {t} |->
                    IF u = t THEN [caller |-> c, expires |-> now + TTL]
                             ELSE DropExpired[u]]
    /\ reply' = [kind |-> "ticket", caller |-> c]
    /\ drawn' = [drawn EXCEPT ![t] = c]
    /\ UNCHANGED <<now, honoured>>

\* Mutant of IssueFull: the cap is tested before the purge.
IssueFullOfExpired ==
    /\ Cardinality(DOMAIN issued) >= MaxLiveTickets
    /\ issued' = DropExpired
    /\ reply' = [kind |-> "full", caller |-> NoCaller]
    /\ UNCHANGED <<now, drawn, honoured>>

\* issue when the table is full even without its expired entries.
IssueFull ==
    /\ Cardinality(DOMAIN DropExpired) >= MaxLiveTickets
    /\ issued' = DropExpired
    /\ reply' = [kind |-> "full", caller |-> NoCaller]
    /\ UNCHANGED <<now, drawn, honoured>>

\* redeem of a name the table does not hold.
RedeemUnknown(t) ==
    /\ t \notin DOMAIN issued
    /\ reply' = [kind |-> "refused", caller |-> NoCaller]
    /\ UNCHANGED <<issued, now, drawn, honoured>>

\* Mutant of Redeem: the entry is not deleted.
RedeemKeeping(t) ==
    /\ t \in DOMAIN issued
    /\ ~Expired(issued[t])
    /\ reply' = [kind |-> "admitted", caller |-> issued[t].caller]
    /\ honoured' = [honoured EXCEPT ![t] = @ + 1]
    /\ UNCHANGED <<issued, now, drawn>>

\* redeem of a name the table holds: it is consumed whether or not it is late.
Redeem(t) ==
    /\ t \in DOMAIN issued
    /\ issued' = Restrict(issued, DOMAIN issued \ {t})
    /\ IF Expired(issued[t])
         THEN /\ reply' = [kind |-> "refused", caller |-> NoCaller]
              /\ UNCHANGED honoured
         ELSE /\ reply' = [kind |-> "admitted", caller |-> issued[t].caller]
              /\ honoured' = [honoured EXCEPT ![t] = @ + 1]
    /\ UNCHANGED <<now, drawn>>

Tick ==
    /\ now < MaxTime
    /\ now' = now + 1
    /\ UNCHANGED <<issued, reply, drawn, honoured>>

\* The server stops, and the next one starts with an empty table (newTickets).
Restart ==
    /\ issued' = [t \in {} |-> [caller |-> NoCaller, expires |-> 0]]
    /\ reply' = [kind |-> "none", caller |-> NoCaller]
    /\ UNCHANGED <<now, drawn, honoured>>

Next ==
    \/ \E t \in TicketNames, c \in Callers : Issue(t, c)
    \/ IssueFull
    \/ \E t \in TicketNames : RedeemUnknown(t)
    \/ \E t \in TicketNames : Redeem(t)
    \/ Tick
    \/ Restart

Spec == Init /\ [][Next]_vars

--------------------------------------------------------------------------

\* Types: in particular a call that admits a session names a verified caller.
TypeOK ==
    /\ DOMAIN issued \subseteq TicketNames
    /\ issued \in [DOMAIN issued -> Entry]
    /\ now \in Nat
    /\ reply \in Replies
    /\ drawn \in [TicketNames -> Callers \cup {NoCaller}]
    /\ honoured \in [TicketNames -> Nat]

\* The table never holds more than maxLiveTickets entries, however many of
\* them are never redeemed (ticket.go:21-23).
TableIsBounded == Cardinality(DOMAIN issued) <= MaxLiveTickets

\* A handshake is turned away only while maxLiveTickets tickets are all still
\* redeemable: tickets that lapsed unredeemed cannot lock sandboxes out
\* (the purge before the cap test, ticket.go:67-70).
FullMeansRedeemable ==
    [][(now' = now /\ reply'.kind = "full") =>
          Cardinality({t \in DOMAIN issued : ~Expired(issued[t])}) >= MaxLiveTickets]_vars

\* The history that relates the table to the tickets' lives: an entry belongs to
\* the caller its name was drawn for, and a redeemed name is no longer held.
HistoryOK ==
    /\ \A t \in DOMAIN issued : /\ drawn[t] = issued[t].caller
                                /\ drawn[t] # NoCaller
                                /\ honoured[t] = 0
    /\ \A t \in TicketNames : honoured[t] # 0 => honoured[t] = 1 /\ drawn[t] # NoCaller

\* Where a ticket is in its life, read off the table and the history.  TicketStore
\* has no state for a ticket that was good twice.
StatusOf(t) ==
    IF drawn[t] = NoCaller THEN "unissued"
    ELSE IF honoured[t] > 1 THEN "spent twice"
    ELSE IF honoured[t] = 1 THEN "spent"
    ELSE IF t \in DOMAIN issued /\ ~Expired(issued[t]) THEN "outstanding"
    ELSE "expired"

Store == INSTANCE TicketStore
           WITH Tickets <- TicketNames,
                status <- [t \in TicketNames |-> StatusOf(t)],
                holder <- drawn

\* The clocked table implements the abstract ticket life: a ticket admits one
\* session, as the caller it was issued to, only while it has not expired, and
\* nothing brings a spent or lapsed ticket back (ticket.go:30-33).
ImplementsStore == Store!StoreSpec
==========================================================================
