--------------------------- MODULE ProcServerProps ---------------------------
(***************************************************************************)
(* Properties of the database server and the bank server.                  *)
(***************************************************************************)
EXTENDS ProcServer

ThreadPlaces == {"none", "sent", "start", "lock", "sendFirst", "sendRest", "remove", "mark", "notify",
                 "ended"}

\* The variables have their types; NextAuditNumber never goes below where it starts
\* (dbserver.c:117, 544).
TypeOK ==
    /\ fd \in [Slots -> Fds \cup {0}] /\ disconnect \in [Slots -> BOOLEAN]
    /\ owner \in [Fds -> Conns \cup {NoConn}]
    /\ server \in [Conns -> {"none", "backlog", "open", "closed"}]
    /\ event \in BOOLEAN /\ OrderlyShutdown \in BOOLEAN
    /\ NextAuditNumber \in Nat
    /\ exited \in {"no", "SysExit", "crash", "INT", "ended"}
    /\ main \in {"poll", "loop", "disconnect", "close", "join", "destroyed", "freed", "exited"}
    /\ next \in Slots \cup {0} /\ handler \in {"sigwait", "accepted", "write", "ended", "exited"}
    /\ thread \in [Msgs -> ThreadPlaces]
    /\ elem \in [Msgs -> [conn : Conns \cup {NoConn}, request : {"none", "good", "ctrl", "bad"},
                          fd : Fds \cup {0}, mpx : Slots \cup {0}]]
    /\ answer \in [Msgs -> Nat]
    /\ client \in [Conns -> {"new", "connected", "gone"}]
    /\ stream \in [Conns -> Seq(Msgs)] /\ patient \in BOOLEAN

\* procNewClient (dbserver.c:495-503) counts the clients anew each time one is accepted,
\* and closes the newest: there are never more than maxUsers.
UsersBound == Users <= MaxUsers

\* No two requests are answered with the same audit number, however their threads
\* interleave (dbserver.c:544); the payment server tells its clients apart by it.
AuditOnce == \A m, n \in Msgs : m # n /\ answer[m] = answer[n] => answer[m] = 0

\* What a client that waits for its answers receives is one whole answer after the
\* other, although any number of threads send on its descriptor, each in parts
\* (setupResponse, dbserver.c:614-617).
WholeAnswers ==
    patient => \A c \in Conns : \A k \in 1..(Len(stream[c]) \div 2) :
                   stream[c][2 * k - 1] = stream[c][2 * k]

\* Clients that wait for their answers do not bring the server down: no thread is left
\* with a descriptor that is closed, or whose client has gone (socketsend.c:38).
NoAbort == patient /\ ~OrderlyShutdown => exited \in {"no", "INT"}

\* All of it relies on marks that are reset with their slot, as dbserver.c does and
\* bankserver.c does not (MarkAfterClose), or are never set.
NoStaleMark == Kind = "db" \/ TRUE \notin DOMAIN Requests \/ "bad" \notin Requests[TRUE]

\* What makes these two inductive.  The slots, their descriptors and their clients
\* belong together, and when the process ends nothing goes on.
Closing == {"close", "join", "destroyed", "freed"}
SlotInv ==
    /\ \A i \in Slots : fd[i] # 0 => owner[fd[i]] # NoConn
    /\ \A i, j \in Slots : fd[i] = fd[j] /\ fd[i] # 0 => i = j
    /\ \A f \in Fds : owner[f] # NoConn => server[owner[f]] = "open"
    /\ \A f, g \in Fds : owner[f] = owner[g] /\ owner[f] # NoConn => f = g
    /\ \A c \in Conns : server[c] \in {"backlog", "open"} => client[c] # "new"
EndInv ==
    /\ ~Alive => main = "exited" /\ handler = "exited" /\ \A m \in Msgs : thread[m] = "ended"
    /\ main \in Closing => OrderlyShutdown

\* A message and its thread.
ElemInv == \A m \in Msgs :
    LET e == elem[m] IN
    /\ IF e.conn = NoConn THEN thread[m] = "none" /\ e.request = "none"
       ELSE thread[m] # "none" /\ e.request # "none"
    /\ e.request = "bad" => Kind = "db" /\ thread[m] \notin {"lock", "sendFirst", "sendRest"}
    /\ thread[m] \in {"mark", "notify"} => e.request = "bad"
    /\ thread[m] \notin {"none", "sent"} => e.fd # 0 /\ e.mpx # 0

\* Which halves of its answer a message's client has: none, the first, or both.
Halves(m, c) == {k \in DOMAIN stream[c] : stream[c][k] = m}
Odd(c) == Len(stream[c]) % 2 = 1
Unsent(m) == thread[m] \in {"none", "sent", "start", "lock", "sendFirst"} \/ elem[m].request = "bad"
StreamInv ==
    /\ \A m \in Msgs, c \in Conns : Unsent(m) \/ c # elem[m].conn => Halves(m, c) = {}
    /\ \A m \in Msgs, c \in Conns : thread[m] = "sendRest" /\ elem[m].conn = c
          => Odd(c) /\ Halves(m, c) = {Len(stream[c])}
    /\ \A m \in Msgs : Unsent(m) \/ thread[m] = "sendRest" \/ Answered(m)
    /\ \A c \in Conns : Odd(c) => \E m \in Msgs : elem[m].conn = c /\ thread[m] = "sendRest"
    /\ \A m, n \in Msgs : {thread[m], thread[n]} \subseteq {"sendFirst", "sendRest"} => m = n

\* A bad message is its client's last, and whoever has gone had all its answers.
SettledInv ==
    /\ \A m, n \in Msgs : m # n /\ elem[m].request = "bad" /\ elem[n].conn = elem[m].conn
          => elem[n].request # "bad" /\ Answered(n)
    /\ \A m \in Msgs : /\ elem[m].conn # NoConn /\ client[elem[m].conn] = "gone"
                       /\ server[elem[m].conn] # "closed"
                       => elem[m].request # "bad" /\ Answered(m)

\* While the thread of a message may use the descriptor and the slot it remembers,
\* they are its client's, unless Main has closed them to end.
Held(m) == \/ thread[m] \in {"start", "lock", "sendFirst", "sendRest"}
           \/ thread[m] \in {"remove", "mark"} /\ elem[m].request = "bad"
Tied(m) ==
    LET e == elem[m] IN
    \/ owner[e.fd] = e.conn /\ fd[e.mpx] = e.fd
    \/ owner[e.fd] = NoConn /\ fd[e.mpx] = 0 /\ main \in Closing
TiedInv == \A m \in Msgs : Held(m) => Tied(m)

\* Who is marked to be disconnected has sent a bad message.
MarkInv == \A i \in Slots : disconnect[i] =>
    IF fd[i] = 0 THEN main \in Closing
    ELSE \E m \in From(Conn(i)) : elem[m].request = "bad" /\ thread[m] \in {"notify", "ended"}

\* A good message has a number once it is processed, and no other ever.
AnswerInv == \A m \in Msgs :
    IF elem[m].request = "good" /\ thread[m] \notin {"sent", "start"} THEN answer[m] # 0 ELSE answer[m] = 0

WaitInv == ElemInv /\ StreamInv /\ SettledInv /\ TiedInv /\ MarkInv /\ AnswerInv
PatientInv == SlotInv /\ EndInv /\ (patient /\ Alive => WaitInv) /\ WholeAnswers /\ NoAbort

\* The requests and the answers that PeerService is about.
Asker       == [m \in Msgs |-> elem[m].conn]
SentRequest == [m \in Msgs |-> elem[m].request]
HasBoth(m, c) == Cardinality(Halves(m, c)) = 2
Told        == [c \in Conns |-> {<<m, answer[m]>> : m \in {k \in Msgs : HasBoth(k, c)}}]

Service == INSTANCE PeerService WITH
    asker <- Asker, request <- SentRequest, told <- Told, waits <- patient

\* The server implements PeerService: an answer goes to the client that asked, although
\* its thread knows it by a descriptor that is reused (elem->fd, dbserver.c:616), at
\* most once, and with a number of its own.
ImplementsService == Service!Spec

\* Has c nothing to wait for?
Settled(c) == server[c] = "closed" \/ ~(Awaits(c) \/ SentBad(c))

\* A client that waits gets its answers, or is disconnected once it has sent a bad
\* message: a message is never lost between Main, its thread and the eventfd.
RequestsSettled ==
    \A c \in Conns :
        (patient /\ server[c] = "open" /\ ~Settled(c)) ~> (Settled(c) \/ OrderlyShutdown \/ ~Alive)

\* A SIGTERM that was accepted ends the process, whatever clients and threads do
\* meanwhile (dbserver.c:430-436, 309-321, 657-660).
ShutdownEnds == OrderlyShutdown ~> ~Alive

\* The clients "wait ... and show responses" (bankclient.c:92): one that waits is not
\* disconnected before, except by the shutdown.
WaitingStay ==
    [][\A c \in Conns :
          patient /\ Awaits(c) /\ server[c] = "open" /\ client[c] = "connected" /\ server'[c] = "closed"
              => main = "close"]_vars
=============================================================================
