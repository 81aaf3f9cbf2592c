-------------------------- MODULE MCMyServerLimits --------------------------
(***************************************************************************)
(* An instance in which the full product of clients, requests, hang-ups    *)
(* and outages is too large: a step is taken in a crowd or in an outage,   *)
(* in each of which the environment does only some of what it may do.      *)
(***************************************************************************)
EXTENDS MCMyServer

NoBank     == nextAudit = 0 /\ \A c \in Conns : inbox[c] # "Bank"
OneClient  == Cardinality({c \in Conns : phase[c] # "new"}) <= 1
NoTimeOuts == \A i \in Slots : ClientInfo[i].activityTime # "old"
NoHangups  == \A c \in Conns : phase[c] = "gone" => got[c].kind # "none"
EndsInTime == \A c \in Conns : phase'[c] = "gone" => phase[c] \in {"answered", "gone"}

\* Several clients: nothing fails, and no bank request is made.
Crowd == NoBank /\ NoHangups /\ NoTimeOuts /\ downs = 0 /\ exited = "no"
\* One client, that sends no control command, and times out once the bank has its card.
Outage ==
    /\ OneClient /\ \A c \in Conns : inbox[c] # "Ctrl"
    /\ NoTimeOuts \/ charged # {}

Limits == (Crowd /\ Crowd' /\ EndsInTime) \/ Outage'
=============================================================================
