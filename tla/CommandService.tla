---------------------------- MODULE CommandService ----------------------------
(***************************************************************************)
(* What the command server promises to whoever writes its command file:    *)
(* commands are run one at a time; a command is shown once, and only after *)
(* it has come to its end; when the server stops in order, it has run and  *)
(* shown every command that it took.  It may fail at any time, and shows   *)
(* nothing after that.                                                     *)
(***************************************************************************)
CONSTANT Commands

VARIABLES
    state,   \* of each command: "unread", "new", "running", "finished", "shown"
    server   \* "open", "closed" (takes no more commands), "stopped", "failed"

vars == <<state, server>>

Init == state = [c \in Commands |-> "unread"] /\ server = "open"

Moves(c, from, to) == state[c] = from /\ state' = [state EXCEPT ![c] = to]

Take(c)   == server = "open" /\ Moves(c, "unread", "new") /\ UNCHANGED server
Run(c)    == /\ server = "open" /\ \A d \in Commands : state[d] # "running"
             /\ Moves(c, "new", "running") /\ UNCHANGED server
Finish(c) == server = "open" /\ Moves(c, "running", "finished") /\ UNCHANGED server
Show(c)   == server = "open" /\ Moves(c, "finished", "shown") /\ UNCHANGED server

Close == /\ server = "open" /\ \A c \in Commands : state[c] \in {"unread", "shown"}
         /\ server' = "closed" /\ UNCHANGED state
Stop  == server = "closed" /\ server' = "stopped" /\ UNCHANGED state
Fail  == server \in {"open", "closed"} /\ server' = "failed" /\ UNCHANGED state

Next == \/ \E c \in Commands : Take(c) \/ Run(c) \/ Finish(c) \/ Show(c)
        \/ Close \/ Stop \/ Fail

Spec == Init /\ [][Next]_vars
=============================================================================
