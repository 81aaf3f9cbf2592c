----------------------------- MODULE CardApproval -----------------------------
(***************************************************************************)
(* What myserver promises to the clients that send it bank messages, with  *)
(* the database, the bank and the threads left out: a request is put to    *)
(* the bank at most once, under an audit number that serves no other, and  *)
(* is answered at most once, with the verdict on its own card.  A client   *)
(* may be disconnected at any time.                                        *)
(***************************************************************************)
CONSTANTS
    Clients,
    Audits,   \* audit numbers
    None,     \* no audit number
    Nobody    \* no card

VARIABLES
    state,    \* of each client: "idle", "asked", "put" (to the bank), "told", "gone"
    auditOf,  \* the audit number under which its request was put to the bank
    verdict   \* the verdict it was told: the card that was judged, or Nobody

vars == <<state, auditOf, verdict>>

Init ==
    /\ state = [c \in Clients |-> "idle"]
    /\ auditOf = [c \in Clients |-> None]
    /\ verdict = [c \in Clients |-> Nobody]

Ask(c) ==
    /\ state[c] = "idle"
    /\ state' = [state EXCEPT ![c] = "asked"]
    /\ UNCHANGED <<auditOf, verdict>>

\* Too many users.
Refuse(c) ==
    /\ state[c] = "asked"
    /\ state' = [state EXCEPT ![c] = "idle"]
    /\ UNCHANGED <<auditOf, verdict>>

Put(c) ==
    /\ state[c] = "asked"
    /\ state' = [state EXCEPT ![c] = "put"]
    /\ auditOf'[c] \in Audits \ {auditOf[d] : d \in Clients}
    /\ auditOf' = [auditOf EXCEPT ![c] = auditOf'[c]]
    /\ UNCHANGED verdict

Tell(c) ==
    /\ state[c] = "put"
    /\ state' = [state EXCEPT ![c] = "told"]
    /\ verdict' = [verdict EXCEPT ![c] = c]
    /\ UNCHANGED auditOf

Disconnect(c) ==
    /\ state[c] # "gone"
    /\ state' = [state EXCEPT ![c] = "gone"]
    /\ UNCHANGED <<auditOf, verdict>>

Next == \E c \in Clients : Ask(c) \/ Refuse(c) \/ Put(c) \/ Tell(c) \/ Disconnect(c)

Spec == Init /\ [][Next]_vars
=============================================================================
