---------------------------- MODULE PeerService ----------------------------
(***************************************************************************)
(* What the database server and the bank server promise to clients that    *)
(* wait for their answers, the payment server among them: a request is     *)
(* answered at most once, to the client that sent it, and no two answers   *)
(* have the same number; a bad request is not answered.                    *)
(***************************************************************************)
EXTENDS Naturals

CONSTANTS Conns, NoConn, Msgs

VARIABLES
    asker,     \* who sent each message; NoConn if it was not sent
    request,   \* "good", "ctrl", "bad"; "none" if it was not sent
    told,      \* the answers each client has: <<message, number>>
    waits      \* do the clients wait for their answers?

vars == <<asker, request, told, waits>>

Init ==
    /\ asker = [m \in Msgs |-> NoConn] /\ request = [m \in Msgs |-> "none"]
    /\ told = [c \in Conns |-> {}]
    /\ waits \in BOOLEAN

Ask(c, m, r) ==
    /\ asker[m] = NoConn
    /\ asker' = [asker EXCEPT ![m] = c] /\ request' = [request EXCEPT ![m] = r]
    /\ UNCHANGED told

Used == {a[2] : a \in UNION {told[c] : c \in Conns}}

Tell(c, m, n) ==
    /\ asker[m] = c /\ \A a \in told[c] : a[1] # m
    /\ \/ request[m] = "good" /\ n # 0 /\ n \notin Used
       \/ request[m] = "ctrl" /\ n = 0
    /\ told' = [told EXCEPT ![c] = @ \cup {<<m, n>>}]
    /\ UNCHANGED <<asker, request>>

\* To clients that do not wait nothing is promised.
Next ==
    /\ UNCHANGED waits
    /\ waits => \/ \E c \in Conns, m \in Msgs, r \in {"good", "ctrl", "bad"} : Ask(c, m, r)
                \/ \E c \in Conns, m \in Msgs, a \in UNION {told'[d] : d \in Conns} :
                       a[1] = m /\ Tell(c, m, a[2])

Spec == Init /\ [][Next]_vars
=============================================================================
