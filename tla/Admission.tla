---------------------------- MODULE Admission ----------------------------
(***************************************************************************)
(* From a grant to a session: the grant mints a token under the key it     *)
(* loaded, the sandbox presents it to whichever server is running then,    *)
(* the server verifies it under its own key and issues a ticket, and the   *)
(* ticket admits a session.  Composes KeyFile and Tickets: a server that   *)
(* stops takes its table with it, and the next one loads the key again.    *)
(* The registry's part of the handshake is in Server and Registry.         *)
(***************************************************************************)
EXTENDS Tickets, KeyFile

CONSTANTS
    Grants,           \* the processes that are grants; the others are servers
    NoServer

ASSUME AdmissionAssumption ==
    /\ Grants \subseteq Processes
    /\ NoServer \notin Processes

\* A name has at least one part, and a part is one piece of text.
ASSUME CallersAssumption ==
    \A c \in Callers :
      /\ c \in [sandbox : Seq(Seq(STRING)) \ {<<>>}, generation : STRING]
      /\ \A i \in DOMAIN c.sandbox : Len(c.sandbox[i]) = 1

VARIABLES
    server,           \* the server that listens
    minted            \* history: tokens minted, for whom and under which key

admissionVars == <<vars, keyVars, server, minted>>

AdmissionInit ==
    /\ Init /\ KeyInit
    /\ server = NoServer
    /\ minted = {}

\* configureIdentity loads the key before the server listens.
Load(p) ==
    /\ LoadKey(p)
    /\ UNCHANGED <<vars, server, minted>>

\* The port admits one server at a time.
Listen(p) ==
    /\ p \notin Grants /\ keyPc[p] = "ready" /\ server = NoServer
    /\ server' = p
    /\ UNCHANGED <<vars, keyVars, minted>>

\* A process ends; the server's table ends with it.
Stop(p) ==
    /\ KeyDies(p)
    /\ IF server = p THEN server' = NoServer /\ Restart
                     ELSE UNCHANGED <<vars, server>>
    /\ UNCHANGED minted

\* grant.Run mints one token, which reaches its sandbox.
MintToken(p, c) ==
    /\ p \in Grants /\ keyPc[p] = "ready"
    /\ minted' = minted \cup {[token |-> Mint(key[p], c), caller |-> c, key |-> key[p]]}
    /\ KeyDies(p)
    /\ UNCHANGED <<vars, server>>

\* What a handshake may carry: a token, or a copy that lost its tail.
Presented == UNION {{SubSeq(m.token, 1, n) : n \in 1..Len(m.token)} : m \in minted}

\* A handshake whose token verifies is issued a ticket, or turned away by the cap.
Handshake(c) ==
    /\ server # NoServer
    /\ \E token \in Presented : Verifies(key[server], token, c)
    /\ (\E t \in TicketNames : Issue(t, c)) \/ IssueFull
    /\ UNCHANGED <<keyVars, server, minted>>

\* A session presents a ticket.
Session(t) ==
    /\ server # NoServer
    /\ Redeem(t) \/ RedeemUnknown(t)
    /\ UNCHANGED <<keyVars, server, minted>>

Rotate == RemoveKeyFile /\ UNCHANGED <<vars, server, minted>>

\* Time passes unseen while the table is empty.
Wait == DOMAIN issued # {} /\ Tick /\ UNCHANGED <<keyVars, server, minted>>

AdmissionNext ==
    \/ \E p \in Processes : Load(p) \/ Listen(p) \/ Stop(p)
    \/ \E p \in Processes, c \in Callers : MintToken(p, c)
    \/ \E c \in Callers : Handshake(c)
    \/ \E t \in TicketNames : Session(t)
    \/ Rotate \/ Wait

AdmissionSpec == AdmissionInit /\ [][AdmissionNext]_admissionVars

--------------------------------------------------------------------------

AdmissionTypeOK ==
    /\ TypeOK /\ KeyTypeOK
    /\ server \in (Processes \ Grants) \cup {NoServer}
    /\ server # NoServer => key[server] \in Processes
    /\ \A m \in minted : m.caller \in Callers /\ m.key \in Processes

\* The listening server takes a token exactly for what a grant minted it, and only
\* if the grant had the server's key; and what it will admit is a caller some grant
\* minted a token for under that key.  So names with dots stay apart from names
\* and generations, and a rotated key ends every identity, tickets included, with
\* the restart that loads it (identity.go:33-35, README.md:327-328).
AdmittedAsGranted ==
    server # NoServer =>
      /\ \A m \in minted, c \in Callers :
            Verifies(key[server], m.token, c) <=> m.key = key[server] /\ m.caller = c
      /\ \A t \in DOMAIN issued : \E m \in minted :
            m.key = key[server] /\ m.caller = issued[t].caller
==========================================================================
