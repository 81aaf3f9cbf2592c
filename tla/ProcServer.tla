----------------------------- MODULE ProcServer -----------------------------
(***************************************************************************)
(* clientserver/dbserver.c and clientserver/bankserver.c: the two servers  *)
(* behind the payment server.  Main polls the clients; for each complete   *)
(* message it starts a detached thread, which answers it on the client's   *)
(* descriptor, or marks the client's slot to be disconnected and wakes     *)
(* Main.  SIGTERM is accepted when there are no clients.                   *)
(*                                                                         *)
(* A thread remembers the descriptor and the slot of its client            *)
(* (procthrlst_t); nothing stops Main from closing and reusing both before *)
(* the thread uses them.                                                   *)
(*                                                                         *)
(* ThrInfoMutex and ProcThrLstMutex are held for one step of the model.    *)
(***************************************************************************)
EXTENDS Integers, Sequences, FiniteSets

CONSTANTS
    Kind,       \* "db" for dbserver.c, "bank" for bankserver.c
    Conns,      \* the clients; each connects once
    NoConn,     \* no client
    MaxUsers,
    MaxMsgs,    \* bound: messages that all clients send
    AuditLimit, \* the first number of more than SZ_BANK_AUDIT_NO = 6 digits, which the
                \* answer would cut off
    MaxHasty,   \* bound: those of them that clients send who do not wait
    Requests,   \* what clients send who wait for their answers, Requests[TRUE], or do not
    Signals     \* signals that may arrive: a subset of {"TERM", "INT"}

ASSUME ProcAssumption ==
    /\ Kind \in {"db", "bank"}
    /\ NoConn \notin Conns
    /\ MaxUsers \in Nat \ {0} /\ MaxMsgs \in Nat /\ MaxHasty \in Nat
    /\ AuditLimit \in Nat /\ MaxMsgs < AuditLimit
    /\ DOMAIN Requests \subseteq BOOLEAN
    /\ \A p \in DOMAIN Requests : Requests[p] \subseteq {"good", "ctrl", "bad"}
    /\ Signals \subseteq {"TERM", "INT"}

\* MainPoll and ClientInfo without the listening socket and the eventfd:
\* StartInfo.maxPoll is StartInfo.maxUsers + 10.
Slots == 1..(MaxUsers + 8)
Fds   == 1..(MaxUsers + 1)   \* descriptors of clients; 0 stands for -1
Msgs  == 1..MaxMsgs          \* messages, numbered as they are sent

VARIABLES
    fd,               \* MainPoll[i].fd
    disconnect,       \* ClientInfo[i].disconnect
    owner,            \* the client at the other end of each descriptor
    server,           \* how far the server is with each client
    event,            \* is the eventfd readable?
    OrderlyShutdown,
    NextAuditNumber,
    exited,           \* how the process ended, "no" while it runs
    main,             \* where Main is
    next,             \* the slot that disconnectClients has looked at; 0 for none
    handler,          \* where the signal handler is
    thread,           \* where the thread of each message is
    elem,             \* procthrlst_t, with the client that sent the message
    answer,           \* the answer to each message; 0 for none yet
    client,           \* what each client does
    stream,           \* what each client received: numbers of messages, each half an answer
    patient           \* do the clients wait for their answers?

slotVars   == <<fd, disconnect, owner, server>>
threadVars == <<thread, elem, answer, NextAuditNumber>>
clientVars == <<client, patient>>
mainVars   == <<main, next>>
flagVars   == <<event, OrderlyShutdown, exited>>
vars == <<slotVars, threadVars, clientVars, stream, mainVars, handler, flagVars>>

NoElem == [conn |-> NoConn, request |-> "none", fd |-> 0, mpx |-> 0]

Init ==
    /\ fd = [i \in Slots |-> 0] /\ disconnect = [i \in Slots |-> FALSE]
    /\ owner = [f \in Fds |-> NoConn] /\ server = [c \in Conns |-> "none"]
    /\ event = FALSE /\ OrderlyShutdown = FALSE /\ exited = "no"
    /\ NextAuditNumber = 0
    /\ main = "poll" /\ next = 0 /\ handler = "sigwait"
    /\ thread = [m \in Msgs |-> "none"] /\ elem = [m \in Msgs |-> NoElem]
    /\ answer = [m \in Msgs |-> 0]
    /\ client = [c \in Conns |-> "new"] /\ stream = [c \in Conns |-> <<>>]
    /\ patient \in DOMAIN Requests

Alive == exited = "no"

\* SysExit(), exit(), a crash, or the end of main(): no thread goes on.
Exit(how) == /\ exited' = how
             /\ main' = "exited" /\ handler' = "exited" /\ thread' = [m \in Msgs |-> "ended"]

Least(i, S) == i \in S /\ \A j \in S : i <= j
FreeSlots == {i \in Slots : fd[i] = 0}
FreeFds   == {f \in Fds : owner[f] = NoConn}
Users     == Cardinality(Slots \ FreeSlots)
Conn(i)   == owner[fd[i]]   \* the client in slot i
-----------------------------------------------------------------------------
(* Clients: the payment server, dbclient.c, bankclient.c.  Patient ones, as    *)
(* the last two are, hang up when they have all their answers or were          *)
(* disconnected; a bad message is sent then only, and is the last.             *)

Answered(m) == Cardinality({k \in DOMAIN stream[elem[m].conn] :
                                stream[elem[m].conn][k] = m}) = 2
From(c)     == {m \in Msgs : elem[m].conn = c}
Awaits(c)   == \E m \in From(c) : elem[m].request # "bad" /\ ~Answered(m)
SentBad(c)  == \E m \in From(c) : elem[m].request = "bad"

ClientConnect(c) ==
    /\ Alive /\ client[c] = "new"
    /\ client' = [client EXCEPT ![c] = "connected"]
    /\ server' = [server EXCEPT ![c] = "backlog"]
    /\ UNCHANGED <<fd, disconnect, owner, threadVars, patient, stream, mainVars, handler, flagVars>>

ClientSend(c, m, request) ==
    /\ Alive /\ client[c] = "connected" /\ server[c] # "closed"
    /\ Least(m, From(NoConn))
    /\ IF patient THEN ~SentBad(c) /\ (request = "bad" => ~Awaits(c)) ELSE m <= MaxHasty
    /\ thread' = [thread EXCEPT ![m] = "sent"]
    /\ elem' = [elem EXCEPT ![m] = [NoElem EXCEPT !.conn = c, !.request = request]]
    /\ UNCHANGED <<slotVars, answer, NextAuditNumber, clientVars, stream, mainVars, handler, flagVars>>

ClientHangup(c) ==
    /\ Alive /\ client[c] = "connected"
    /\ patient => server[c] = "closed" \/ ~(Awaits(c) \/ SentBad(c))
    /\ client' = [client EXCEPT ![c] = "gone"]
    /\ UNCHANGED <<slotVars, threadVars, patient, stream, mainVars, handler, flagVars>>

ClientStep(c) == \/ ClientConnect(c) \/ ClientHangup(c)
                 \/ \E m \in Msgs, request \in Requests[patient] : ClientSend(c, m, request)
-----------------------------------------------------------------------------
(* Main *)

\* initClientAtIdx: bankserver.c does not reset the mark.
MarkAfterClose(i) == IF Kind = "db" THEN FALSE ELSE disconnect[i]

\* closeClientAtIdx
CloseClient(i) ==
    /\ fd' = [fd EXCEPT ![i] = 0]
    /\ owner' = [owner EXCEPT ![fd[i]] = NoConn]
    /\ server' = [server EXCEPT ![Conn(i)] = "closed"]
    /\ disconnect' = [disconnect EXCEPT ![i] = MarkAfterClose(i)]

Backlog     == {c \in Conns : server[c] = "backlog"}
Sent(c)     == {m \in From(c) : thread[m] = "sent"}
Readable(i) == fd[i] # 0 /\ (Sent(Conn(i)) # {} \/ client[Conn(i)] = "gone")

\* poll() returns; the loop after it goes over MainPoll.
Poll ==
    /\ main = "poll"
    /\ event \/ Backlog # {} \/ \E i \in Slots : Readable(i)
    /\ main' = "loop"
    /\ UNCHANGED <<slotVars, threadVars, clientVars, stream, next, handler, flagVars>>

TooManyUsers(n) == n > MaxUsers

\* procNewClient: the descriptor is the lowest that is free, and so is the slot.
AcceptClient(c, f, j) ==
    /\ main = "loop" /\ c \in Backlog
    /\ Least(f, FreeFds) /\ Least(j, FreeSlots)
    /\ IF TooManyUsers(Users + 1)
       THEN /\ server' = [server EXCEPT ![c] = "closed"]
            /\ disconnect' = [disconnect EXCEPT ![j] = MarkAfterClose(j)]
            /\ UNCHANGED <<fd, owner>>
       ELSE /\ fd' = [fd EXCEPT ![j] = f]
            /\ owner' = [owner EXCEPT ![f] = c]
            /\ server' = [server EXCEPT ![c] = "open"]
            /\ UNCHANGED disconnect
    /\ UNCHANGED <<threadVars, clientVars, stream, mainVars, handler, flagVars>>

ReadEvent ==
    /\ main = "loop" /\ event
    /\ event' = FALSE
    /\ main' = (IF OrderlyShutdown THEN "close" ELSE "disconnect")
    /\ UNCHANGED <<slotVars, threadVars, clientVars, stream, next, handler, OrderlyShutdown, exited>>

\* disconnectClients: the next slot with a client, and the end of its loop.
Ahead == {i \in Slots \ FreeSlots : i > next}

DisconnectClient(i) ==
    /\ main = "disconnect" /\ Least(i, Ahead)
    /\ IF disconnect[i] THEN CloseClient(i) ELSE UNCHANGED slotVars
    /\ next' = i
    /\ UNCHANGED <<threadVars, clientVars, stream, main, handler, flagVars>>

EndDisconnect ==
    /\ main = "disconnect" /\ Ahead = {}
    /\ main' = "loop" /\ next' = 0
    /\ UNCHANGED <<slotVars, threadVars, clientVars, stream, handler, flagVars>>

\* SocketRecvByServer and MsgGetComplete: the first message that is on its way.
RecvMsg(i, m) ==
    /\ main = "loop" /\ fd[i] # 0
    /\ Least(m, Sent(Conn(i)))
    /\ thread' = [thread EXCEPT ![m] = "start"]
    /\ elem' = [elem EXCEPT ![m] = [@ EXCEPT !.fd = fd[i], !.mpx = i]]
    /\ UNCHANGED <<slotVars, answer, NextAuditNumber, clientVars, stream, mainVars, handler, flagVars>>

\* recv() returns 0, or ECONNRESET with messages still on their way.
RecvHangup(i) ==
    /\ main = "loop" /\ fd[i] # 0 /\ client[Conn(i)] = "gone"
    /\ CloseClient(i)
    /\ UNCHANGED <<threadVars, clientVars, stream, mainVars, handler, flagVars>>

Serve(c) == \E i \in Slots : /\ fd[i] # 0 /\ Conn(i) = c
                             /\ RecvHangup(i) \/ \E m \in Msgs : RecvMsg(i, m)

\* The end of the loop over MainPoll.
EndLoop ==
    /\ main = "loop"
    /\ main' = IF OrderlyShutdown THEN "close" ELSE "poll"
    /\ UNCHANGED <<slotVars, threadVars, clientVars, stream, next, handler, flagVars>>

\* main() closes the clients that are left; endServer().
CloseRemaining(i) ==
    /\ main = "close" /\ Least(i, Slots \ FreeSlots)
    /\ CloseClient(i)
    /\ UNCHANGED <<threadVars, clientVars, stream, mainVars, handler, flagVars>>

JoinHandler ==
    /\ main = "close" /\ Slots = FreeSlots
    /\ main' = "join"
    /\ UNCHANGED <<slotVars, threadVars, clientVars, stream, next, handler, flagVars>>

DestroyMutexes ==
    /\ main = "join" /\ handler = "ended"
    /\ main' = "destroyed"
    /\ UNCHANGED <<slotVars, threadVars, clientVars, stream, next, handler, flagVars>>

\* MainPoll and ClientInfo are freed, the lock file is deleted, and main() returns.
FreeLists ==
    /\ main = "destroyed"
    /\ main' = "freed"
    /\ UNCHANGED <<slotVars, threadVars, clientVars, stream, next, handler, flagVars>>

EndServer ==
    /\ main = "freed"
    /\ Exit("ended")
    /\ UNCHANGED <<slotVars, elem, answer, NextAuditNumber, clientVars, stream, next, event, OrderlyShutdown>>

MainStep ==
    \/ Poll \/ ReadEvent \/ EndDisconnect \/ EndLoop \/ JoinHandler \/ DestroyMutexes \/ FreeLists \/ EndServer
    \/ \E c \in Conns, f \in Fds, j \in Slots : AcceptClient(c, f, j)
    \/ \E c \in Conns : Serve(c)
    \/ \E i \in Slots : DisconnectClient(i) \/ CloseRemaining(i)
-----------------------------------------------------------------------------
(* ProcessorThread *)

ThreadGoto(m, label) == thread' = [thread EXCEPT ![m] = label]
MutexesDestroyed == main \in {"destroyed", "freed"}

\* Mutant: SendMutex is not taken.
SendMutexIgnored == TRUE
SendMutexFree == \A m \in Msgs : thread[m] \notin {"sendFirst", "sendRest"}

\* The answer of dbserver is an audit number, that of bankserver a verdict on the message.
Answer(m) == IF Kind = "db" THEN NextAuditNumber + 1 ELSE m

\* Mutant: the counter is read but not incremented.
CountAuditLost == NextAuditNumber
\* Mutant: the counter goes down.
CountAuditDown == NextAuditNumber - 1
CountAudit == IF Kind = "db" THEN NextAuditNumber + 1 ELSE NextAuditNumber

ProcessMsg(m) ==
    /\ thread[m] = "start" /\ ~MutexesDestroyed
    /\ \/ /\ elem[m].request = "bad"
          /\ ThreadGoto(m, "remove")
          /\ UNCHANGED <<answer, NextAuditNumber>>
       \/ /\ elem[m].request = "ctrl"
          /\ ThreadGoto(m, "lock")
          /\ UNCHANGED <<answer, NextAuditNumber>>
       \/ /\ elem[m].request = "good"
          /\ NextAuditNumber' = CountAudit
          /\ answer' = [answer EXCEPT ![m] = Answer(m)]
          /\ ThreadGoto(m, "lock")
    /\ UNCHANGED <<slotVars, elem, clientVars, stream, mainVars, handler, flagVars>>

LockSend(m) ==
    /\ thread[m] = "lock" /\ SendMutexFree
    /\ ThreadGoto(m, "sendFirst")
    /\ UNCHANGED <<slotVars, elem, answer, NextAuditNumber, clientVars, stream, mainVars, handler, flagVars>>

PeerGone(f)  == owner[f] # NoConn /\ client[owner[f]] = "gone"
AfterSend(m) == IF thread[m] = "sendFirst" THEN "sendRest" ELSE "remove"

\* send() takes a part of the answer and hands it to whoever is connected to the
\* descriptor; it is lost if the client has gone.
Send(m) ==
    /\ thread[m] \in {"sendFirst", "sendRest"} /\ owner[elem[m].fd] # NoConn
    /\ LET c == owner[elem[m].fd]
       IN  stream' = IF client[c] = "gone" THEN stream
                     ELSE [stream EXCEPT ![c] = Append(@, m)]
    /\ ThreadGoto(m, AfterSend(m))
    /\ UNCHANGED <<slotVars, elem, answer, NextAuditNumber, clientVars, mainVars, handler, flagVars>>

\* ECONNRESET: the rest of the answer is dropped, without a trace.
SendReset(m) ==
    /\ thread[m] \in {"sendFirst", "sendRest"}
    /\ PeerGone(elem[m].fd)
    /\ ThreadGoto(m, "remove")
    /\ UNCHANGED <<slotVars, elem, answer, NextAuditNumber, clientVars, stream, mainVars, handler, flagVars>>

\* EPIPE, or EBADF when the descriptor is closed: SysExit().
SendFails(m) ==
    /\ thread[m] \in {"sendFirst", "sendRest"}
    /\ owner[elem[m].fd] = NoConn \/ PeerGone(elem[m].fd)
    /\ Exit("SysExit")
    /\ UNCHANGED <<slotVars, elem, answer, NextAuditNumber, clientVars, stream, next, event, OrderlyShutdown>>

\* Mutant: closeClient is set for every request.
CloseAlways(m) == "mark"
\* Mutant: closeClient is set for no request.
CloseNever(m) == "ended"
AfterRemove(m) == IF elem[m].request = "bad" THEN "mark" ELSE "ended"

\* endProcessorThread: the element is removed from the list and freed, and the
\* thread from the list of threads.
RemoveElem(m) ==
    /\ thread[m] = "remove" /\ ~MutexesDestroyed
    /\ ThreadGoto(m, AfterRemove(m))
    /\ UNCHANGED <<slotVars, elem, answer, NextAuditNumber, clientVars, stream, mainVars, handler, flagVars>>

MarkClient(m) ==
    /\ thread[m] = "mark"
    /\ disconnect' = [disconnect EXCEPT ![elem[m].mpx] = TRUE]
    /\ ThreadGoto(m, "notify")
    /\ UNCHANGED <<fd, owner, server, elem, answer, NextAuditNumber, clientVars, stream, mainVars, handler,
                   flagVars>>

NotifyMain(m) ==
    /\ thread[m] = "notify"
    /\ event' = TRUE
    /\ ThreadGoto(m, "ended")
    /\ UNCHANGED <<slotVars, elem, answer, NextAuditNumber, clientVars, stream, mainVars, handler,
                   OrderlyShutdown, exited>>

\* A mutex that endServer has destroyed, or memory that it has freed.
TooLate(m) ==
    /\ \/ thread[m] \in {"start", "lock", "remove"} /\ MutexesDestroyed /\ Exit("SysExit")
       \/ thread[m] \in {"mark", "notify"} /\ main = "freed" /\ (Exit("SysExit") \/ Exit("crash"))
    /\ UNCHANGED <<slotVars, elem, answer, NextAuditNumber, clientVars, stream, next, event, OrderlyShutdown>>

ThreadStep(m) ==
    \/ ProcessMsg(m) \/ LockSend(m) \/ Send(m) \/ SendReset(m) \/ SendFails(m) \/ RemoveElem(m)
    \/ MarkClient(m) \/ NotifyMain(m) \/ TooLate(m)
-----------------------------------------------------------------------------
(* SignalHandlerThread *)

HandlerGoto(label) == handler' = label

\* ignoreSignal finds no client.  Bound: one SIGTERM is accepted; another would
\* write the same again.
TermArrives ==
    /\ "TERM" \in Signals /\ ~OrderlyShutdown
    /\ handler = "sigwait" /\ Slots = FreeSlots
    /\ HandlerGoto("accepted")
    /\ UNCHANGED <<slotVars, threadVars, clientVars, stream, mainVars, flagVars>>

TermAccepted ==
    /\ handler = "accepted"
    /\ OrderlyShutdown' = TRUE
    /\ HandlerGoto("write")
    /\ UNCHANGED <<slotVars, threadVars, clientVars, stream, mainVars, event, exited>>

\* Mutant: Main is not woken.
TermNotifiesNobody ==
    /\ handler = "write"
    /\ HandlerGoto("sigwait")
    /\ UNCHANGED <<slotVars, threadVars, clientVars, stream, mainVars, flagVars>>
TermNotifies ==
    /\ handler = "write"
    /\ event' = TRUE
    /\ HandlerGoto("sigwait")
    /\ UNCHANGED <<slotVars, threadVars, clientVars, stream, mainVars, OrderlyShutdown, exited>>

QuitArrives ==
    /\ handler = "sigwait" /\ main = "join"
    /\ HandlerGoto("ended")
    /\ UNCHANGED <<slotVars, threadVars, clientVars, stream, mainVars, flagVars>>

InterruptArrives ==
    /\ "INT" \in Signals /\ handler = "sigwait"
    /\ Exit("INT")
    /\ UNCHANGED <<slotVars, elem, answer, NextAuditNumber, clientVars, stream, next, event, OrderlyShutdown>>

HandlerStep == TermAccepted \/ TermNotifies \/ QuitArrives
Interrupts  == TermArrives \/ InterruptArrives
-----------------------------------------------------------------------------
Next == \/ MainStep \/ HandlerStep \/ Interrupts
        \/ \E m \in Msgs : ThreadStep(m)
        \/ \E c \in Conns : ClientStep(c)

Spec == Init /\ [][Next]_vars

\* Every thread that can go on does; the loop after poll() serves every descriptor
\* that is ready, and accepts.  Clients connect, send and hang up when they please.
Fairness ==
    /\ WF_vars(MainStep) /\ WF_vars(HandlerStep) /\ \A m \in Msgs : WF_vars(ThreadStep(m))
    /\ SF_vars(QuitArrives) /\ SF_vars(ReadEvent) /\ \A c \in Conns : SF_vars(Serve(c))
FairSpec == Spec /\ Fairness
=============================================================================
