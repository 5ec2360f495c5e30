--------------------------- MODULE TicketStore ---------------------------
(***************************************************************************)
(* What the server promises about session tickets, without clocks or maps: *)
(* a ticket is issued to one verified caller, is good for one redemption,  *)
(* and once redeemed or too old never becomes good again.  At most         *)
(* MaxLiveTickets are good at a time.  Tickets implements this; Server is  *)
(* built on it.                                                            *)
(***************************************************************************)
EXTENDS Naturals, FiniteSets

CONSTANTS
    Tickets,          \* the random ticket names: no two issues draw the same
    Callers,          \* verified callers a ticket can carry
    NoCaller,         \* what an unissued ticket carries
    MaxLiveTickets    \* cap on outstanding tickets

VARIABLES
    status,           \* status[t]: where ticket t is in its life
    holder            \* holder[t]: the caller t was issued to

storeVars == <<status, holder>>

Outstanding == {t \in Tickets : status[t] = "outstanding"}

StoreInit ==
    /\ status = [t \in Tickets |-> "unissued"]
    /\ holder = [t \in Tickets |-> NoCaller]

\* The handshake hands caller c a fresh ticket.
IssueTicket(t, c) ==
    /\ status[t] = "unissued"
    /\ Cardinality(Outstanding) < MaxLiveTickets
    /\ status' = [status EXCEPT ![t] = "outstanding"]
    /\ holder' = [holder EXCEPT ![t] = c]

\* A session presents t and is admitted as holder[t].
RedeemTicket(t) ==
    /\ status[t] = "outstanding"
    /\ status' = [status EXCEPT ![t] = "spent"]
    /\ UNCHANGED holder

\* Time passes the tickets in T by.
ExpireTickets(T) ==
    /\ T # {} /\ T \subseteq Outstanding
    /\ status' = [t \in Tickets |-> IF t \in T THEN "expired" ELSE status[t]]
    /\ UNCHANGED holder

StoreNext ==
    \/ \E t \in Tickets, c \in Callers : IssueTicket(t, c)
    \/ \E t \in Tickets : RedeemTicket(t)
    \/ \E T \in SUBSET Tickets : ExpireTickets(T)

StoreSpec == StoreInit /\ [][StoreNext]_storeVars
==========================================================================
