-------------------------- MODULE ProcServiceProofs --------------------------
(***************************************************************************)
(* Proofs about what the database server and the bank server do for        *)
(* clients that wait for their answers.                                    *)
(***************************************************************************)
EXTENDS ProcServerProofs

LEMMA ElemTypes ==
    ASSUME TypeOK, NEW m \in Msgs
    PROVE  /\ elem[m].conn \in Conns \cup {NoConn} /\ elem[m].request \in {"none", "good", "ctrl", "bad"}
           /\ elem[m].fd \in Fds \cup {0} /\ elem[m].mpx \in Slots \cup {0} /\ thread[m] \in ThreadPlaces
  BY DEF TypeOK

\* Who is dead does nothing.
LEMMA DeadRests == ASSUME EndInv, ~Alive, [Next]_vars PROVE UNCHANGED vars
  <1>1. main = "exited" /\ handler = "exited" /\ \A m \in Msgs : thread[m] = "ended"
    BY DEF EndInv
  <1>2. ~MainStep
    BY <1>1 DEF MainStep, Poll, ReadEvent, EndDisconnect, EndLoop, JoinHandler, DestroyMutexes, FreeLists,
                EndServer, AcceptClient, Serve, RecvMsg, RecvHangup, DisconnectClient, CloseRemaining
  <1>3. ~HandlerStep /\ ~Interrupts
    BY <1>1 DEF HandlerStep, Interrupts, TermArrives, InterruptArrives, TermAccepted, TermNotifies, QuitArrives
  <1>4. \A m \in Msgs : ~ThreadStep(m)
    BY <1>1 DEF ThreadStep, ProcessMsg, LockSend, Send, SendReset, SendFails, RemoveElem, MarkClient,
                NotifyMain, TooLate
  <1>5. \A c \in Conns : ~ClientStep(c)
    BY DEF ClientStep, ClientConnect, ClientHangup, ClientSend
  <1> QED
    BY <1>2, <1>3, <1>4, <1>5 DEF Next

\* A message whose thread has not sent both halves is not answered.
LEMMA NotAnswered ==
    ASSUME TypeOK, StreamInv, NEW m \in Msgs, elem[m].conn \in Conns, Unsent(m) \/ thread[m] = "sendRest"
    PROVE  ~Answered(m)
  <1>0. PICK c \in Conns : c = elem[m].conn
    OBVIOUS
  <1> DEFINE H == Halves(m, c)
  <1>1. H = {} \/ H = {Len(stream[c])}
    BY <1>0 DEF StreamInv
  <1>2. Cardinality(H) # 2
    <2>1. CASE H = {}
      BY <2>1, FS_EmptySet
    <2>2. CASE H = {Len(stream[c])}
      <3>1. Cardinality({Len(stream[c])}) = 1
        BY FS_Singleton
      <3> QED
        BY <2>2, <3>1
    <2> QED
      BY <1>1, <2>1, <2>2
  <1> QED
    BY <1>0, <1>2 DEF Answered, Halves

LEMMA HeldWaits ==
    ASSUME TypeOK, ElemInv, StreamInv, NEW m \in Msgs, Held(m)
    PROVE  /\ elem[m].conn \in Conns /\ elem[m].fd \in Fds /\ elem[m].mpx \in Slots
           /\ elem[m].request = "bad" \/ ~Answered(m)
  <1>1. thread[m] \notin {"none", "sent"}
    BY DEF Held
  <1>2. elem[m].conn \in Conns /\ elem[m].fd \in Fds /\ elem[m].mpx \in Slots
    BY <1>1, ElemTypes DEF ElemInv
  <1>3. elem[m].request # "bad" => Unsent(m) \/ thread[m] = "sendRest"
    BY DEF Held, Unsent
  <1> QED
    BY <1>2, <1>3, NotAnswered

\* The client of a thread that holds on is there: neither gone nor marked.
LEMMA HeldStays ==
    ASSUME TypeOK, SlotInv, WaitInv, NEW m \in Msgs, Held(m)
    PROVE  /\ client[elem[m].conn] = "gone" => server[elem[m].conn] = "closed"
           /\ \A n \in From(elem[m].conn) : ~(elem[n].request = "bad" /\ thread[n] \in {"notify", "ended"})
  <1>1. elem[m].conn \in Conns /\ (elem[m].request = "bad" \/ ~Answered(m))
    BY HeldWaits DEF WaitInv
  <1>2. elem[m].conn # NoConn
    BY <1>1, ProcAssumption DEF ProcAssumption
  <1>3. ASSUME NEW n \in Msgs, elem[n].conn = elem[m].conn, elem[n].request = "bad",
               thread[n] \in {"notify", "ended"}
        PROVE FALSE
    <2>1. n # m
      BY <1>3 DEF Held
    <2> QED
      BY <1>1, <1>3, <2>1 DEF WaitInv, SettledInv
  <1>4. ASSUME client[elem[m].conn] = "gone", server[elem[m].conn] # "closed" PROVE FALSE
    BY <1>1, <1>2, <1>4 DEF WaitInv, SettledInv
  <1> QED
    BY <1>3, <1>4 DEF From

\* Who leaves the messages and the streams alone leaves what is told of them.
LEMMA StreamFrame ==
    ASSUME UNCHANGED <<stream, elem>>
    PROVE  /\ \A m \in Msgs, c \in Conns : Halves(m, c)' = Halves(m, c)
           /\ \A m \in Msgs : Answered(m)' = Answered(m)
           /\ \A c \in Conns : Odd(c)' = Odd(c)
           /\ StreamInv /\ UNCHANGED thread => StreamInv'
  <1>1. /\ \A m, c : Halves(m, c)' = Halves(m, c)
        /\ \A m : Answered(m)' = Answered(m)
        /\ \A c : Odd(c)' = Odd(c)
    BY DEF Halves, Answered, Odd
  <1>2. UNCHANGED thread /\ StreamInv => StreamInv'
    BY <1>1 DEF StreamInv, Unsent
  <1> QED
    BY <1>1, <1>2

\* Main, the signal handler and the flags go on; nobody looks at them but Tied and
\* MarkInv, at whether Main closes the clients that are left.
LEMMA RestParts ==
    ASSUME WaitInv, UNCHANGED <<slotVars, threadVars, client, stream>>, main \in Closing => main' \in Closing
    PROVE  WaitInv'
  <1>1. ElemInv' /\ AnswerInv'
    BY DEF WaitInv, ElemInv, AnswerInv, threadVars
  <1>2. StreamInv'
    BY StreamFrame DEF WaitInv, threadVars
  <1>3. SettledInv'
    BY StreamFrame DEF WaitInv, SettledInv, threadVars, slotVars
  <1>4. TiedInv' /\ MarkInv'
    BY DEF WaitInv, TiedInv, Held, Tied, MarkInv, From, Conn, threadVars, slotVars
  <1> QED
    BY <1>1, <1>2, <1>3, <1>4 DEF WaitInv

-----------------------------------------------------------------------------
(* The slots. *)

LEMMA AcceptParts ==
    ASSUME TypeOK, SlotInv, NEW c \in Conns, NEW f \in Fds, NEW j \in Slots, AcceptClient(c, f, j)
    PROVE  SlotInv' /\ (WaitInv => WaitInv')
  <1>0. /\ fd[j] = 0 /\ owner[f] = NoConn /\ server[c] = "backlog" /\ main = "loop"
        /\ UNCHANGED <<threadVars, client, stream, main>>
        /\ f # 0 /\ c # NoConn
    BY ProcAssumption DEF AcceptClient, Least, FreeSlots, FreeFds, Backlog, clientVars, mainVars, Fds,
                          ProcAssumption
  <1>1. \A i \in Slots : fd[i] # f
    BY <1>0 DEF SlotInv
  <1>2. \A g \in Fds : owner[g] # c
    BY <1>0 DEF SlotInv
  <1>3. \/ /\ server' = [server EXCEPT ![c] = "closed"] /\ UNCHANGED <<fd, owner>>
           /\ \E b \in {FALSE, disconnect[j]} : disconnect' = [disconnect EXCEPT ![j] = b]
        \/ /\ fd' = [fd EXCEPT ![j] = f] /\ owner' = [owner EXCEPT ![f] = c]
           /\ server' = [server EXCEPT ![c] = "open"] /\ UNCHANGED disconnect
    BY DEF AcceptClient, MarkAfterClose
  <1>4. SlotInv'
    <2>1. \A i \in Slots : fd'[i] # 0 => owner'[fd'[i]] # NoConn
      BY <1>0, <1>1, <1>3 DEF TypeOK, SlotInv
    <2>2. \A i, k \in Slots : fd'[i] = fd'[k] /\ fd'[i] # 0 => i = k
      BY <1>0, <1>1, <1>3 DEF TypeOK, SlotInv
    <2>a. \A g \in Fds : \/ owner'[g] = owner[g] /\ owner'[g] # c /\ (owner[g] # NoConn => owner[g] \in Conns)
                         \/ g = f /\ owner'[g] = c /\ server'[c] = "open"
      BY <1>0, <1>2, <1>3 DEF TypeOK
    <2>3. \A g \in Fds : owner'[g] # NoConn => server'[owner'[g]] = "open"
      BY <1>3, <2>a DEF TypeOK, SlotInv
    <2>4. \A g, h \in Fds : owner'[g] = owner'[h] /\ owner'[g] # NoConn => g = h
      BY <2>a DEF SlotInv
    <2>5. \A d \in Conns : server'[d] \in {"backlog", "open"} => client'[d] # "new"
      BY <1>0, <1>3 DEF TypeOK, SlotInv
    <2> QED
      BY <2>1, <2>2, <2>3, <2>4, <2>5 DEF SlotInv
  <1>5. ASSUME WaitInv PROVE WaitInv'
    <2>1. ElemInv' /\ AnswerInv'
      BY <1>0, <1>5 DEF WaitInv, ElemInv, AnswerInv, threadVars
    <2>2. StreamInv'
      BY <1>0, <1>5, StreamFrame DEF WaitInv, threadVars
    <2>3. \A d \in Conns : server'[d] # "closed" => server[d] # "closed"
      BY <1>0, <1>3 DEF TypeOK
    <2>4. SettledInv'
      BY <1>0, <1>5, <2>3, StreamFrame, ElemTypes DEF WaitInv, SettledInv, threadVars
    <2>5. ASSUME NEW m \in Msgs, Held(m)' PROVE Tied(m)'
      <3>1. Held(m)
        BY <1>0, <2>5 DEF Held, threadVars
      <3>2. elem[m].fd \in Fds /\ elem[m].mpx \in Slots /\ elem[m].conn \in Conns
        BY <1>5, <3>1, HeldWaits DEF WaitInv
      <3>3. owner[elem[m].fd] = elem[m].conn /\ fd[elem[m].mpx] = elem[m].fd
        BY <1>0, <1>5, <3>1 DEF WaitInv, TiedInv, Tied, Closing
      <3>4. elem[m].fd # f /\ elem[m].mpx # j
        BY <1>0, <1>1, <3>2, <3>3, ProcAssumption DEF ProcAssumption, Fds
      <3>5. owner'[elem[m].fd] = elem[m].conn /\ fd'[elem[m].mpx] = elem[m].fd
        BY <1>3, <3>2, <3>3, <3>4 DEF TypeOK
      <3> QED
        BY <1>0, <3>5 DEF Tied, threadVars
    <2>6. ASSUME NEW i \in Slots, disconnect'[i]
          PROVE  /\ fd'[i] # 0
                 /\ \E m \in From(Conn(i)) : elem[m].request = "bad" /\ thread[m] \in {"notify", "ended"}
                 /\ Conn(i)' = Conn(i)
      <3>1. ~disconnect[j]
        BY <1>0, <1>5 DEF WaitInv, MarkInv, Closing
      <3>2. i # j /\ disconnect[i]
        BY <1>3, <2>6, <3>1 DEF TypeOK
      <3>3. fd[i] # 0 /\ fd'[i] = fd[i] /\ fd[i] # f /\ fd[i] \in Fds
        BY <1>0, <1>1, <1>3, <1>5, <3>2 DEF TypeOK, WaitInv, MarkInv, Closing
      <3>4. owner'[fd[i]] = owner[fd[i]]
        BY <1>3, <3>3 DEF TypeOK
      <3> QED
        BY <1>5, <3>2, <3>3, <3>4 DEF WaitInv, MarkInv, Conn
    <2>7. MarkInv'
      BY <1>0, <2>6 DEF MarkInv, From, threadVars
    <2> QED
      BY <2>1, <2>2, <2>4, <2>5, <2>7 DEF WaitInv, TiedInv
  <1> QED
    BY <1>4, <1>5

LEMMA CloseParts ==
    ASSUME TypeOK, SlotInv, NEW i \in Slots, fd[i] # 0, CloseClient(i),
           UNCHANGED <<threadVars, client, stream, main>>,
           WaitInv => main \in Closing \/ \A m \in Msgs : Held(m) => elem[m].conn # Conn(i)
    PROVE  SlotInv' /\ (WaitInv => WaitInv')
  <1>0. /\ fd' = [fd EXCEPT ![i] = 0] /\ owner' = [owner EXCEPT ![fd[i]] = NoConn]
        /\ server' = [server EXCEPT ![Conn(i)] = "closed"]
        /\ disconnect' = [disconnect EXCEPT ![i] = MarkAfterClose(i)]
        /\ fd[i] \in Fds /\ owner[fd[i]] # NoConn /\ owner[fd[i]] \in Conns
    BY DEF CloseClient, TypeOK, SlotInv
  <1>1. \A k \in Slots : k # i => fd[k] # fd[i]
    BY DEF SlotInv
  <1>4. SlotInv'
    <2>1. \A k \in Slots : fd'[k] # 0 => owner'[fd'[k]] # NoConn
      BY <1>0, <1>1 DEF TypeOK, SlotInv
    <2>2. \A j, k \in Slots : fd'[j] = fd'[k] /\ fd'[j] # 0 => j = k
      BY <1>0, <1>1 DEF TypeOK, SlotInv
    <2>3. \A g \in Fds : owner'[g] # NoConn => server'[owner'[g]] = "open"
      BY <1>0 DEF TypeOK, SlotInv, Conn
    <2>4. \A g, h \in Fds : owner'[g] = owner'[h] /\ owner'[g] # NoConn => g = h
      BY <1>0 DEF TypeOK, SlotInv
    <2>5. \A d \in Conns : server'[d] \in {"backlog", "open"} => client'[d] # "new"
      BY <1>0 DEF TypeOK, SlotInv
    <2> QED
      BY <2>1, <2>2, <2>3, <2>4, <2>5 DEF SlotInv
  <1>5. ASSUME WaitInv PROVE WaitInv'
    <2>1. ElemInv' /\ AnswerInv'
      BY <1>5 DEF WaitInv, ElemInv, AnswerInv, threadVars
    <2>2. StreamInv'
      BY <1>5, StreamFrame DEF WaitInv, threadVars
    <2>3. \A d \in Conns : server'[d] # "closed" => server[d] # "closed"
      BY <1>0 DEF TypeOK
    <2>4. SettledInv'
      BY <1>5, <2>3, StreamFrame, ElemTypes DEF WaitInv, SettledInv, threadVars
    <2>5. ASSUME NEW m \in Msgs, Held(m)' PROVE Tied(m)'
      <3>1. Held(m)
        BY <2>5 DEF Held, threadVars
      <3>2. elem[m].fd \in Fds /\ elem[m].mpx \in Slots /\ elem[m].conn \in Conns
        BY <1>5, <3>1, HeldWaits DEF WaitInv
      <3>3. Tied(m)
        BY <1>5, <3>1 DEF WaitInv, TiedInv
      <3>4. CASE elem[m].fd = fd[i]
        <4>1. elem[m].conn = Conn(i) /\ fd[elem[m].mpx] = fd[i]
          BY <1>0, <3>3, <3>4 DEF Tied, Conn
        <4>2. elem[m].mpx = i /\ main \in Closing
          BY <1>1, <1>5, <3>1, <3>2, <4>1
        <4>3. owner'[elem[m].fd] = NoConn /\ fd'[elem[m].mpx] = 0
          BY <1>0, <3>4, <4>2 DEF TypeOK
        <4> QED
          BY <4>2, <4>3 DEF Tied, threadVars
      <3>5. CASE elem[m].fd # fd[i]
        <4>1. owner'[elem[m].fd] = owner[elem[m].fd]
          BY <1>0, <3>2, <3>5 DEF TypeOK
        <4>2. fd'[elem[m].mpx] = fd[elem[m].mpx]
          BY <1>0, <3>2, <3>3, <3>5 DEF TypeOK, Tied
        <4> QED
          BY <3>3, <4>1, <4>2 DEF Tied, threadVars
      <3> QED
        BY <3>4, <3>5
    <2>6. ~disconnect'[i]
      <3>1. Kind = "db" \/ ~disconnect[i]
        BY <1>5 DEF WaitInv, MarkInv, ElemInv, From
      <3>2. disconnect'[i] = MarkAfterClose(i)
        BY <1>0 DEF TypeOK
      <3> QED
        BY <3>1, <3>2 DEF MarkAfterClose
    <2>7. ASSUME NEW k \in Slots, disconnect'[k]
          PROVE  disconnect[k] /\ fd'[k] = fd[k] /\ (fd[k] # 0 => Conn(k)' = Conn(k))
      <3>1. k # i
        BY <2>6, <2>7
      <3>2. disconnect[k] /\ fd'[k] = fd[k]
        BY <1>0, <2>7, <3>1 DEF TypeOK
      <3>3. fd[k] # 0 => owner'[fd[k]] = owner[fd[k]]
        BY <1>0, <1>1, <3>1 DEF TypeOK
      <3> QED
        BY <3>2, <3>3 DEF Conn
    <2>8. MarkInv'
      BY <1>5, <2>7 DEF WaitInv, MarkInv, From, threadVars
    <2> QED
      BY <2>1, <2>2, <2>4, <2>5, <2>8 DEF WaitInv, TiedInv
  <1> QED
    BY <1>4, <1>5

\* Main disconnects the marked client of slot i, receives the end of file of one
\* that has gone, or closes one that is left: no thread holds on to it.
LEMMA MainClosesParts ==
    ASSUME TypeOK, SlotInv, NEW i \in Slots,
           \/ main = "disconnect" /\ fd[i] # 0 /\ disconnect[i] /\ CloseClient(i) /\ UNCHANGED main
           \/ RecvHangup(i) \/ CloseRemaining(i),
           UNCHANGED <<threadVars, client, stream>>
    PROVE  SlotInv' /\ (WaitInv => WaitInv')
  <1>1. fd[i] # 0 /\ CloseClient(i) /\ UNCHANGED main
    BY DEF RecvHangup, CloseRemaining, Least, FreeSlots, mainVars
  <1>2. ASSUME WaitInv, main \notin Closing, NEW m \in Msgs, Held(m), elem[m].conn = Conn(i) PROVE FALSE
    <2>1. owner[fd[i]] # NoConn /\ server[Conn(i)] = "open" /\ fd[i] \in Fds
      BY <1>1 DEF SlotInv, Conn, TypeOK
    <2>2. CASE RecvHangup(i)
      BY <1>2, <2>1, <2>2, HeldStays DEF RecvHangup
    <2>3. CASE disconnect[i]
      <3>1. \E n \in From(Conn(i)) : elem[n].request = "bad" /\ thread[n] \in {"notify", "ended"}
        BY <1>1, <1>2, <2>3 DEF WaitInv, MarkInv
      <3> QED
        BY <1>2, <3>1, HeldStays
    <2> QED
      BY <1>2, <2>2, <2>3 DEF CloseRemaining, Closing
  <1> QED
    BY <1>1, <1>2, CloseParts

-----------------------------------------------------------------------------
(* The clients. *)

LEMMA ConnectParts ==
    ASSUME TypeOK, SlotInv, NEW c \in Conns, ClientConnect(c)
    PROVE  SlotInv' /\ (WaitInv => WaitInv')
  <1>0. /\ client[c] = "new" /\ client' = [client EXCEPT ![c] = "connected"]
        /\ server' = [server EXCEPT ![c] = "backlog"]
        /\ UNCHANGED <<fd, disconnect, owner, threadVars, stream, main>>
    BY DEF ClientConnect, mainVars
  <1>1. server[c] \notin {"backlog", "open"}
    BY <1>0 DEF SlotInv
  <1>2. SlotInv'
    BY <1>0, <1>1 DEF SlotInv, TypeOK
  <1>3. ASSUME WaitInv PROVE WaitInv'
    <2>1. ElemInv' /\ AnswerInv'
      BY <1>0, <1>3 DEF WaitInv, ElemInv, AnswerInv, threadVars
    <2>2. StreamInv'
      BY <1>0, <1>3, StreamFrame DEF WaitInv, threadVars
    <2>3. \A d \in Conns : client'[d] = "gone" => client[d] = "gone" /\ server'[d] = server[d]
      BY <1>0 DEF TypeOK
    <2>4. SettledInv'
      BY <1>0, <1>3, <2>3, StreamFrame, ElemTypes DEF WaitInv, SettledInv, threadVars
    <2>5. TiedInv' /\ MarkInv'
      BY <1>0, <1>3 DEF WaitInv, TiedInv, Held, Tied, MarkInv, From, Conn, threadVars
    <2> QED
      BY <2>1, <2>2, <2>4, <2>5 DEF WaitInv
  <1> QED
    BY <1>2, <1>3

LEMMA HangupParts ==
    ASSUME TypeOK, SlotInv, NEW c \in Conns, ClientHangup(c)
    PROVE  SlotInv' /\ (patient /\ WaitInv => WaitInv')
  <1>0. /\ client[c] = "connected" /\ client' = [client EXCEPT ![c] = "gone"]
        /\ patient => server[c] = "closed" \/ ~(Awaits(c) \/ SentBad(c))
        /\ UNCHANGED <<fd, disconnect, owner, server, threadVars, stream, main>>
    BY DEF ClientHangup, mainVars, slotVars
  <1>2. SlotInv'
    BY <1>0 DEF SlotInv, TypeOK
  <1>3. ASSUME WaitInv, patient PROVE WaitInv'
    <2>1. ElemInv' /\ AnswerInv'
      BY <1>0, <1>3 DEF WaitInv, ElemInv, AnswerInv, threadVars
    <2>2. StreamInv'
      BY <1>0, <1>3, StreamFrame DEF WaitInv, threadVars
    <2>3. \A d \in Conns : client'[d] = "gone" => client[d] = "gone" \/ d = c
      BY <1>0 DEF TypeOK
    <2>4. server[c] = "closed" \/ \A m \in Msgs : elem[m].conn = c => elem[m].request # "bad" /\ Answered(m)
      BY <1>0, <1>3 DEF Awaits, SentBad, From
    <2>5. SettledInv'
      BY <1>0, <1>3, <2>3, <2>4, StreamFrame, ElemTypes DEF WaitInv, SettledInv, threadVars
    <2>6. TiedInv' /\ MarkInv'
      BY <1>0, <1>3 DEF WaitInv, TiedInv, Held, Tied, MarkInv, From, Conn, threadVars
    <2> QED
      BY <2>1, <2>2, <2>5, <2>6 DEF WaitInv
  <1> QED
    BY <1>2, <1>3

LEMMA SendParts ==
    ASSUME TypeOK, RequestsKnown, NoStaleMark, SlotInv, WaitInv, patient, NEW c \in Conns, NEW m \in Msgs,
           NEW request \in Requests[patient], ClientSend(c, m, request)
    PROVE  WaitInv'
  <1> DEFINE e == [NoElem EXCEPT !.conn = c, !.request = request]
  <1>0. /\ e.conn = c /\ e.request = request /\ e.fd = 0 /\ e.mpx = 0
        /\ elem' = [elem EXCEPT ![m] = e] /\ thread' = [thread EXCEPT ![m] = "sent"]
        /\ UNCHANGED <<slotVars, answer, client, stream, main>>
    BY DEF ClientSend, NoElem, clientVars, mainVars
  <1> HIDE DEF e
  <1>1. /\ client[c] = "connected" /\ elem[m].conn = NoConn /\ c # NoConn
        /\ ~SentBad(c) /\ (request = "bad" => ~Awaits(c))
    BY ProcAssumption DEF ClientSend, Least, From, ProcAssumption
  <1>2. thread[m] = "none" /\ elem[m].request = "none"
    BY <1>1 DEF WaitInv, ElemInv
  <1>3. request \in {"good", "ctrl", "bad"} /\ (request = "bad" => Kind = "db")
    BY ProcAssumption DEF ProcAssumption, RequestsKnown, NoStaleMark
  <1>4. /\ elem'[m] = e /\ thread'[m] = "sent"
        /\ \A n \in Msgs : n # m => elem'[n] = elem[n] /\ thread'[n] = thread[n]
    BY <1>0 DEF TypeOK
  <1>5. ElemInv' /\ AnswerInv'
    BY <1>0, <1>1, <1>2, <1>3, <1>4 DEF WaitInv, ElemInv, AnswerInv
  <1>6. /\ \A n \in Msgs, d \in Conns : Halves(n, d)' = Halves(n, d) /\ Odd(d)' = Odd(d)
        /\ \A n \in Msgs : n # m => Answered(n)' = Answered(n) /\ Unsent(n)' = Unsent(n)
    BY <1>0, <1>4 DEF Halves, Answered, Unsent, Odd
  <1>7. Unsent(m) /\ Unsent(m)' /\ \A d \in Conns : Halves(m, d) = {}
    BY <1>2, <1>4 DEF WaitInv, StreamInv, Unsent
  <1>8. StreamInv'
    <2>1. \A n \in Msgs, d \in Conns : Unsent(n)' \/ d # elem'[n].conn => Halves(n, d)' = {}
      BY <1>4, <1>6, <1>7 DEF WaitInv, StreamInv
    <2>2. \A n \in Msgs, d \in Conns : thread'[n] = "sendRest" /\ elem'[n].conn = d
             => Odd(d)' /\ Halves(n, d)' = {Len(stream'[d])}
      BY <1>0, <1>4, <1>6 DEF WaitInv, StreamInv
    <2>3. \A n \in Msgs : Unsent(n)' \/ thread'[n] = "sendRest" \/ Answered(n)'
      BY <1>4, <1>6, <1>7 DEF WaitInv, StreamInv
    <2>4. \A d \in Conns : Odd(d)' => \E n \in Msgs : elem'[n].conn = d /\ thread'[n] = "sendRest"
      BY <1>2, <1>4, <1>6 DEF WaitInv, StreamInv
    <2>5. \A n, k \in Msgs : {thread'[n], thread'[k]} \subseteq {"sendFirst", "sendRest"} => n = k
      BY <1>4 DEF WaitInv, StreamInv
    <2> QED
      BY <2>1, <2>2, <2>3, <2>4, <2>5 DEF StreamInv
  <1>9. SettledInv'
    <2>1. \A n \in Msgs : n # m /\ elem[n].conn = c => elem[n].request # "bad" /\ (request = "bad" => Answered(n))
      BY <1>1 DEF SentBad, Awaits, From
    <2>2. \A n, k \in Msgs : n # k /\ elem'[n].request = "bad" /\ elem'[k].conn = elem'[n].conn
                             => elem'[k].request # "bad" /\ Answered(k)'
      BY <1>0, <1>4, <1>6, <2>1 DEF WaitInv, SettledInv
    <2>3. \A n \in Msgs : /\ elem'[n].conn # NoConn /\ client'[elem'[n].conn] = "gone"
                          /\ server'[elem'[n].conn] # "closed"
                          => elem'[n].request # "bad" /\ Answered(n)'
      BY <1>0, <1>1, <1>4, <1>6 DEF WaitInv, SettledInv, slotVars
    <2> QED
      BY <2>2, <2>3 DEF SettledInv
  <1>10. TiedInv'
    <2>1. ASSUME NEW n \in Msgs, Held(n)' PROVE Tied(n)'
      <3>1. n # m /\ Held(n)
        BY <1>4, <2>1 DEF Held
      <3> QED
        BY <1>0, <1>4, <3>1 DEF WaitInv, TiedInv, Tied, slotVars
    <2> QED
      BY <2>1 DEF TiedInv
  <1>11. MarkInv'
    BY <1>0, <1>2, <1>4 DEF WaitInv, MarkInv, From, Conn, slotVars
  <1> QED
    BY <1>5, <1>8, <1>9, <1>10, <1>11 DEF WaitInv

-----------------------------------------------------------------------------
(* The threads. *)

\* Thread m goes on to another place without sending.
LEMMA GotoParts ==
    ASSUME TypeOK, WaitInv, NEW m \in Msgs, NEW l, ThreadGoto(m, l), thread[m] # "none",
           UNCHANGED <<fd, owner, server, elem, client, stream, main>>,
           l \notin {"none", "sent", "sendRest"}, thread[m] \notin {"sent", "sendRest"},
           elem[m].request = "bad" => l \notin {"lock", "sendFirst"},
           l \in {"mark", "notify"} => elem[m].request = "bad",
           Unsent(m)' = Unsent(m), l = "sendFirst" => SendMutexFree, Held(m)' => Held(m)
    PROVE  /\ ElemInv' /\ StreamInv' /\ SettledInv' /\ TiedInv'
           /\ \A n \in Msgs : n # m => thread'[n] = thread[n]
           /\ thread'[m] = l
  <1>1. thread'[m] = l /\ \A n \in Msgs : n # m => thread'[n] = thread[n]
    BY DEF ThreadGoto, TypeOK
  <1>2. ElemInv'
    BY <1>1 DEF WaitInv, ElemInv
  <1>3. /\ \A n \in Msgs, d \in Conns : Halves(n, d)' = Halves(n, d)
        /\ \A d \in Conns : Odd(d)' = Odd(d)
        /\ \A n \in Msgs : Answered(n)' = Answered(n) /\ Unsent(n)' = Unsent(n)
    BY <1>1, StreamFrame DEF Unsent
  <1>4. StreamInv'
    <2>1. \A n \in Msgs, d \in Conns : Unsent(n)' \/ d # elem'[n].conn => Halves(n, d)' = {}
      BY <1>3 DEF WaitInv, StreamInv
    <2>2. \A n \in Msgs, d \in Conns : thread'[n] = "sendRest" /\ elem'[n].conn = d
             => Odd(d)' /\ Halves(n, d)' = {Len(stream'[d])}
      BY <1>1, <1>3 DEF WaitInv, StreamInv
    <2>3. \A n \in Msgs : Unsent(n)' \/ thread'[n] = "sendRest" \/ Answered(n)'
      BY <1>1, <1>3 DEF WaitInv, StreamInv
    <2>4. \A d \in Conns : Odd(d)' => \E n \in Msgs : elem'[n].conn = d /\ thread'[n] = "sendRest"
      BY <1>1, <1>3 DEF WaitInv, StreamInv
    <2>5. \A n, k \in Msgs : {thread'[n], thread'[k]} \subseteq {"sendFirst", "sendRest"} => n = k
      BY <1>1 DEF WaitInv, StreamInv, SendMutexFree
    <2> QED
      BY <2>1, <2>2, <2>3, <2>4, <2>5 DEF StreamInv
  <1>5. SettledInv'
    BY <1>3 DEF WaitInv, SettledInv
  <1>6. TiedInv'
    <2>1. \A n \in Msgs : Held(n)' => Held(n)
      BY <1>1 DEF Held
    <2> QED
      BY <2>1 DEF WaitInv, TiedInv, Tied
  <1> QED
    BY <1>1, <1>2, <1>4, <1>5, <1>6

\* A thread is in the list of its client's marks only after it has set one.
LEMMA MarkFrame ==
    ASSUME TypeOK, MarkInv, UNCHANGED <<fd, owner, disconnect, elem, main>>,
           \A n \in Msgs : thread[n] \in {"notify", "ended"} => thread'[n] \in {"notify", "ended"}
    PROVE  MarkInv'
  BY DEF MarkInv, From, Conn

LEMMA ProcessParts ==
    ASSUME TypeOK, SlotInv, WaitInv, NEW m \in Msgs, ProcessMsg(m) PROVE WaitInv'
  <1>0. /\ thread[m] = "start"
        /\ UNCHANGED <<fd, owner, server, disconnect, elem, client, stream, main>>
    BY DEF ProcessMsg, slotVars, clientVars, mainVars
  <1>1. PICK l \in {"remove", "lock"} :
           ThreadGoto(m, l) /\ l = IF elem[m].request = "bad" THEN "remove" ELSE "lock"
    BY DEF ProcessMsg
  <1>2. thread'[m] = l
    BY <1>1 DEF ThreadGoto, TypeOK
  <1>3. Unsent(m)' = Unsent(m) /\ (Held(m)' => Held(m))
    BY <1>0, <1>1, <1>2 DEF Unsent, Held
  <1>4. /\ ElemInv' /\ StreamInv' /\ SettledInv' /\ TiedInv'
        /\ \A n \in Msgs : n # m => thread'[n] = thread[n]
    BY <1>0, <1>1, <1>3, GotoParts
  <1>5. MarkInv'
    BY <1>0, <1>2, <1>4, MarkFrame DEF WaitInv
  <1>6. AnswerInv'
    <2>1. elem[m].request \in {"good", "ctrl", "bad"} /\ answer[m] = 0
      BY <1>0 DEF ProcessMsg, WaitInv, AnswerInv
    <2>2. CASE elem[m].request = "good"
      <3>1. answer' = [answer EXCEPT ![m] = Answer(m)] /\ Answer(m) # 0
        BY <2>2 DEF ProcessMsg, Answer, TypeOK, Msgs
      <3> QED
        BY <1>0, <1>2, <1>4, <2>2, <3>1 DEF WaitInv, AnswerInv, TypeOK
    <2>3. CASE elem[m].request # "good"
      BY <1>0, <1>2, <1>4, <2>1, <2>3 DEF ProcessMsg, WaitInv, AnswerInv
    <2> QED
      BY <2>2, <2>3
  <1> QED
    BY <1>4, <1>5, <1>6 DEF WaitInv

LEMMA LockParts == ASSUME TypeOK, SlotInv, WaitInv, NEW m \in Msgs, LockSend(m) PROVE WaitInv'
  <1>0. /\ thread[m] = "lock" /\ SendMutexFree /\ ThreadGoto(m, "sendFirst")
        /\ UNCHANGED <<fd, owner, server, disconnect, elem, answer, client, stream, main>>
    BY DEF LockSend, slotVars, clientVars, mainVars
  <1>1. thread'[m] = "sendFirst" /\ elem[m].request # "bad"
    BY <1>0 DEF ThreadGoto, TypeOK, WaitInv, ElemInv
  <1>2. Unsent(m)' = Unsent(m) /\ Held(m)
    BY <1>0, <1>1 DEF Unsent, Held
  <1>3. /\ ElemInv' /\ StreamInv' /\ SettledInv' /\ TiedInv'
        /\ \A n \in Msgs : n # m => thread'[n] = thread[n]
    BY <1>0, <1>1, <1>2, GotoParts
  <1>4. MarkInv' /\ AnswerInv'
    BY <1>0, <1>1, <1>3, MarkFrame DEF WaitInv, AnswerInv
  <1> QED
    BY <1>3, <1>4 DEF WaitInv

LEMMA RemoveParts == ASSUME TypeOK, SlotInv, WaitInv, NEW m \in Msgs, RemoveElem(m) PROVE WaitInv'
  <1>0. /\ thread[m] = "remove" /\ ThreadGoto(m, AfterRemove(m))
        /\ AfterRemove(m) = IF elem[m].request = "bad" THEN "mark" ELSE "ended"
        /\ UNCHANGED <<fd, owner, server, disconnect, elem, answer, client, stream, main>>
    BY DEF RemoveElem, AfterRemove, slotVars, clientVars, mainVars
  <1>1. thread'[m] = AfterRemove(m)
    BY <1>0 DEF ThreadGoto, TypeOK
  <1>2. Unsent(m)' = Unsent(m) /\ (Held(m)' => Held(m))
    BY <1>0, <1>1 DEF Unsent, Held
  <1>3. /\ ElemInv' /\ StreamInv' /\ SettledInv' /\ TiedInv'
        /\ \A n \in Msgs : n # m => thread'[n] = thread[n]
    BY <1>0, <1>1, <1>2, GotoParts
  <1>4. MarkInv' /\ AnswerInv'
    BY <1>0, <1>1, <1>3, MarkFrame DEF WaitInv, AnswerInv
  <1> QED
    BY <1>3, <1>4 DEF WaitInv

LEMMA MarkParts == ASSUME TypeOK, SlotInv, WaitInv, NEW m \in Msgs, MarkClient(m) PROVE SlotInv' /\ WaitInv'
  <1>0. /\ thread[m] = "mark" /\ ThreadGoto(m, "notify") /\ elem[m].request = "bad"
        /\ disconnect' = [disconnect EXCEPT ![elem[m].mpx] = TRUE]
        /\ UNCHANGED <<fd, owner, server, elem, answer, client, stream, main>>
    BY DEF MarkClient, clientVars, mainVars, WaitInv, ElemInv
  <1>1. thread'[m] = "notify"
    BY <1>0 DEF ThreadGoto, TypeOK
  <1>2. Unsent(m)' = Unsent(m) /\ Held(m)
    BY <1>0, <1>1 DEF Unsent, Held
  <1>3. /\ ElemInv' /\ StreamInv' /\ SettledInv' /\ TiedInv'
        /\ \A n \in Msgs : n # m => thread'[n] = thread[n]
    BY <1>0, <1>1, <1>2, GotoParts
  <1>4. elem[m].mpx \in Slots /\ elem[m].conn \in Conns /\ Tied(m)
    BY <1>2, HeldWaits DEF WaitInv, TiedInv
  <1>5. MarkInv'
    <2>1. ASSUME NEW i \in Slots, disconnect'[i], fd[i] = 0 PROVE main \in Closing
      <3>1. CASE i = elem[m].mpx
        <4>1. elem[m].fd # 0
          BY <1>0 DEF WaitInv, ElemInv
        <4> QED
          BY <1>4, <2>1, <3>1, <4>1 DEF Tied
      <3>2. CASE i # elem[m].mpx
        BY <1>0, <2>1, <3>2 DEF WaitInv, MarkInv, TypeOK
      <3> QED
        BY <3>1, <3>2
    <2>2. ASSUME NEW i \in Slots, disconnect'[i], fd[i] # 0
          PROVE  \E n \in From(Conn(i)) : elem[n].request = "bad" /\ thread'[n] \in {"notify", "ended"}
      <3>1. CASE i = elem[m].mpx
        <4>1. Conn(i) = elem[m].conn
          BY <1>4, <2>2, <3>1 DEF Tied, Conn
        <4> QED
          BY <1>0, <1>1, <4>1 DEF From
      <3>2. CASE i # elem[m].mpx
        <4>1. disconnect[i]
          BY <1>0, <2>2, <3>2 DEF TypeOK
        <4>2. PICK n \in From(Conn(i)) : elem[n].request = "bad" /\ thread[n] \in {"notify", "ended"}
          BY <2>2, <4>1 DEF WaitInv, MarkInv
        <4>3. n \in Msgs /\ n # m
          BY <1>0, <4>2 DEF From
        <4> QED
          BY <1>3, <4>2, <4>3
      <3> QED
        BY <3>1, <3>2
    <2> QED
      BY <1>0, <2>1, <2>2 DEF MarkInv, From, Conn
  <1>6. AnswerInv' /\ SlotInv'
    BY <1>0, <1>1, <1>3 DEF WaitInv, AnswerInv, SlotInv
  <1> QED
    BY <1>3, <1>5, <1>6 DEF WaitInv

LEMMA NotifyParts == ASSUME TypeOK, SlotInv, WaitInv, NEW m \in Msgs, NotifyMain(m) PROVE WaitInv'
  <1>0. /\ thread[m] = "notify" /\ ThreadGoto(m, "ended") /\ elem[m].request = "bad"
        /\ UNCHANGED <<fd, owner, server, disconnect, elem, answer, client, stream, main>>
    BY DEF NotifyMain, slotVars, clientVars, mainVars, WaitInv, ElemInv
  <1>1. thread'[m] = "ended"
    BY <1>0 DEF ThreadGoto, TypeOK
  <1>2. Unsent(m)' = Unsent(m) /\ ~Held(m)'
    BY <1>0, <1>1 DEF Unsent, Held
  <1>3. /\ ElemInv' /\ StreamInv' /\ SettledInv' /\ TiedInv'
        /\ \A n \in Msgs : n # m => thread'[n] = thread[n]
    BY <1>0, <1>1, <1>2, GotoParts
  <1>4. MarkInv' /\ AnswerInv'
    BY <1>0, <1>1, <1>3, MarkFrame DEF WaitInv, AnswerInv
  <1> QED
    BY <1>3, <1>4 DEF WaitInv

-----------------------------------------------------------------------------
(* Sending. *)

LEMMA TwoElements == ASSUME NEW a, NEW b, a # b PROVE Cardinality({a} \cup {b}) = 2
  <1>1. IsFiniteSet({a}) /\ Cardinality({a}) = 1
    BY FS_Singleton
  <1>2. b \notin {a}
    OBVIOUS
  <1> DEFINE A == {a}
  <1> HIDE DEF A
  <1>3. IsFiniteSet(A) /\ Cardinality(A) = 1 /\ b \notin A
    BY <1>1, <1>2 DEF A
  <1>4. Cardinality(A \cup {b}) = Cardinality(A) + 1
    BY <1>3, FS_AddElement
  <1>5. Cardinality(A \cup {b}) = 2
    BY <1>3, <1>4
  <1> QED
    BY <1>5 DEF A

\* One more half for m in what client c has.
LEMMA AppendHalves ==
    ASSUME TypeOK, NEW c \in Conns, NEW m \in Msgs, stream' = [stream EXCEPT ![c] = Append(@, m)]
    PROVE  /\ stream[c] \in Seq(Msgs) /\ Len(stream[c]) \in Nat
           /\ Len(stream'[c]) = Len(stream[c]) + 1
           /\ \A k \in 1..Len(stream[c]) : stream'[c][k] = stream[c][k]
           /\ stream'[c][Len(stream[c]) + 1] = m
           /\ Odd(c)' = ~Odd(c)
           /\ Halves(m, c)' = Halves(m, c) \cup {Len(stream[c]) + 1}
           /\ \A n \in Msgs, d \in Conns : n # m \/ d # c => Halves(n, d)' = Halves(n, d)
           /\ \A d \in Conns : d # c => Odd(d)' = Odd(d) /\ stream'[d] = stream[d]
  <1> DEFINE s == stream[c]
             t == stream'[c]
             N == Len(stream[c])
  <1>1. s \in Seq(Msgs) /\ N \in Nat /\ t = Append(s, m)
    BY DEF TypeOK
  <1>2. Len(t) = N + 1 /\ t[N + 1] = m /\ \A k \in 1..N : t[k] = s[k]
    BY <1>1
  <1>3. DOMAIN s = 1..N /\ DOMAIN t = 1..(N + 1) /\ N + 1 \notin 1..N
    BY <1>1
  <1>4. DOMAIN t = DOMAIN s \cup {N + 1}
    BY <1>1, <1>3
  <1>5. \A d \in Conns : d # c => stream'[d] = stream[d]
    BY DEF TypeOK
  <1>6. \A d \in Conns : d # c => Odd(d)' = Odd(d) /\ \A n \in Msgs : Halves(n, d)' = Halves(n, d)
    BY <1>5 DEF Odd, Halves
  <1>7. Odd(c)' = ~Odd(c)
    <2>1. \A n \in Nat : (n + 1) % 2 = 1 <=> n % 2 # 1
      OBVIOUS
    <2>2. (N + 1) % 2 = 1 <=> N % 2 # 1
      BY <1>1, <2>1
    <2>3. Odd(c)' <=> (N + 1) % 2 = 1
      BY <1>2 DEF Odd
    <2>4. Odd(c) <=> N % 2 = 1
      BY DEF Odd
    <2>5. Odd(c) \in BOOLEAN /\ Odd(c)' \in BOOLEAN
      BY DEF Odd
    <2> QED
      BY <2>2, <2>3, <2>4, <2>5
  <1>8. \A n \in Msgs : Halves(n, c)' = Halves(n, c) \cup (IF n = m THEN {N + 1} ELSE {})
    <2> SUFFICES ASSUME NEW n \in Msgs
                 PROVE  {k \in DOMAIN t : t[k] = n}
                        = {k \in DOMAIN s : s[k] = n} \cup (IF n = m THEN {N + 1} ELSE {})
      BY DEF Halves
    <2> QED
      BY <1>2, <1>3, <1>4
  <1>9. /\ Halves(m, c)' = Halves(m, c) \cup {N + 1}
        /\ \A n \in Msgs, d \in Conns : n # m \/ d # c => Halves(n, d)' = Halves(n, d)
    BY <1>6, <1>8
  <1>10. s \in Seq(Msgs) /\ N \in Nat /\ Len(t) = N + 1 /\ (\A k \in 1..N : t[k] = s[k]) /\ t[N + 1] = m
    BY <1>1, <1>2
  <1> QED
    BY <1>5, <1>6, <1>7, <1>9, <1>10

LEMMA SendsToOwner ==
    ASSUME TypeOK, SlotInv, WaitInv, NEW m \in Msgs, thread[m] \in {"sendFirst", "sendRest"}
    PROVE  /\ elem[m].conn \in Conns /\ elem[m].request # "bad"
           /\ owner[elem[m].fd] = elem[m].conn \/ (owner[elem[m].fd] = NoConn /\ main \in Closing)
           /\ ~PeerGone(elem[m].fd)
  <1>1. Held(m) /\ elem[m].request # "bad"
    BY DEF Held, WaitInv, ElemInv
  <1>2. elem[m].conn \in Conns /\ elem[m].fd \in Fds /\ elem[m].mpx \in Slots
    BY <1>1, HeldWaits DEF WaitInv
  <1>3. owner[elem[m].fd] = elem[m].conn \/ (owner[elem[m].fd] = NoConn /\ main \in Closing)
    BY <1>1 DEF WaitInv, TiedInv, Tied
  <1>4. owner[elem[m].fd] # NoConn => server[owner[elem[m].fd]] = "open"
    BY <1>2 DEF SlotInv
  <1>5. client[elem[m].conn] = "gone" => server[elem[m].conn] = "closed"
    BY <1>1, HeldStays
  <1> QED
    BY <1>1, <1>2, <1>3, <1>4, <1>5 DEF PeerGone

\* What a step of sending does, once it is known who receives it.
LEMMA SendEffect ==
    ASSUME TypeOK, SlotInv, WaitInv, NEW m \in Msgs, Send(m)
    PROVE  /\ elem[m].conn \in Conns /\ elem[m].request # "bad"
           /\ stream' = [stream EXCEPT ![elem[m].conn] = Append(@, m)]
           /\ thread'[m] = AfterSend(m) /\ \A n \in Msgs : n # m => thread'[n] = thread[n]
           /\ UNCHANGED <<fd, disconnect, owner, server, elem, answer, client, patient, main>>
           /\ thread[m] = "sendFirst" =>
                 ~Odd(elem[m].conn) /\ Halves(m, elem[m].conn) = {}
           /\ thread[m] = "sendRest" =>
                 Odd(elem[m].conn) /\ Halves(m, elem[m].conn) = {Len(stream[elem[m].conn])}
  <1>1. /\ thread[m] \in {"sendFirst", "sendRest"} /\ owner[elem[m].fd] # NoConn
        /\ ThreadGoto(m, AfterSend(m))
        /\ UNCHANGED <<fd, disconnect, owner, server, elem, answer, client, patient, main>>
    BY DEF Send, slotVars, clientVars, mainVars
  <1>2. elem[m].conn \in Conns /\ elem[m].request # "bad" /\ owner[elem[m].fd] = elem[m].conn
    BY <1>1, SendsToOwner
  <1>3. client[elem[m].conn] # "gone"
    BY <1>1, <1>2, SendsToOwner DEF PeerGone
  <1>4. stream' = [stream EXCEPT ![elem[m].conn] = Append(@, m)]
    BY <1>2, <1>3 DEF Send
  <1>5. thread'[m] = AfterSend(m) /\ \A n \in Msgs : n # m => thread'[n] = thread[n]
    BY <1>1 DEF ThreadGoto, TypeOK
  <1>6. ASSUME thread[m] = "sendFirst" PROVE ~Odd(elem[m].conn) /\ Halves(m, elem[m].conn) = {}
    <2>1. \A n \in Msgs : thread[n] # "sendRest"
      BY <1>6 DEF WaitInv, StreamInv
    <2>2. Unsent(m)
      BY <1>6 DEF Unsent
    <2> QED
      BY <1>2, <2>1, <2>2 DEF WaitInv, StreamInv
  <1>7. ASSUME thread[m] = "sendRest"
        PROVE  Odd(elem[m].conn) /\ Halves(m, elem[m].conn) = {Len(stream[elem[m].conn])}
    BY <1>2, <1>7 DEF WaitInv, StreamInv
  <1> QED
    BY <1>1, <1>2, <1>4, <1>5, <1>6, <1>7

LEMMA TellParts ==
    ASSUME TypeOK, SlotInv, WaitInv, NEW m \in Msgs, Send(m)
    PROVE  WaitInv' /\ (thread[m] = "sendRest" => Answered(m)')
  <1>0. /\ elem[m].conn \in Conns /\ elem[m].request # "bad"
        /\ thread[m] \in {"sendFirst", "sendRest"}
        /\ thread'[m] = AfterSend(m) /\ \A n \in Msgs : n # m => thread'[n] = thread[n]
        /\ UNCHANGED <<fd, disconnect, owner, server, elem, answer, client, main>>
    BY SendEffect DEF Send
  <1>1. PICK c \in Conns : c = elem[m].conn
    BY <1>0
  <1>2. AfterSend(m) = IF thread[m] = "sendFirst" THEN "sendRest" ELSE "remove"
    BY DEF AfterSend
  <1>3. /\ thread[m] = "sendFirst" => ~Odd(c) /\ Halves(m, c) = {}
        /\ thread[m] = "sendRest" => Odd(c) /\ Halves(m, c) = {Len(stream[c])}
        /\ stream' = [stream EXCEPT ![c] = Append(@, m)]
    BY <1>1, SendEffect
  <1>4. /\ Len(stream[c]) \in Nat /\ Len(stream'[c]) = Len(stream[c]) + 1
        /\ Odd(c)' = ~Odd(c)
        /\ Halves(m, c)' = Halves(m, c) \cup {Len(stream[c]) + 1}
        /\ \A n \in Msgs, d \in Conns : n # m \/ d # c => Halves(n, d)' = Halves(n, d)
        /\ \A d \in Conns : d # c => Odd(d)' = Odd(d) /\ stream'[d] = stream[d]
    BY <1>3, AppendHalves
  <1>5. /\ \A n \in Msgs : n # m => Unsent(n)' = Unsent(n)
        /\ ~Unsent(m)'
    BY <1>0, <1>2 DEF Unsent
  <1>6. \A n \in Msgs : thread[n] \in {"sendFirst", "sendRest"} => n = m
    BY <1>0 DEF WaitInv, StreamInv
  <1>7. ~Answered(m)
    BY <1>0, NotAnswered DEF WaitInv, Unsent
  <1>8. ASSUME NEW n \in Msgs, Answered(n), elem[n].conn \in Conns PROVE Answered(n)'
    <2>1. PICK d \in Conns : d = elem[n].conn
      BY <1>8
    <2>2. n # m
      BY <1>7, <1>8
    <2>3. Halves(n, d)' = Halves(n, d)
      BY <1>4, <2>2
    <2>4. Cardinality(Halves(n, d)) = 2
      BY <1>8, <2>1 DEF Answered, Halves
    <2>5. Cardinality(Halves(n, d)') = 2
      BY <2>3, <2>4
    <2> QED
      BY <1>0, <2>1, <2>5 DEF Answered, Halves
  <1>9. ASSUME thread[m] = "sendRest" PROVE Answered(m)'
    <2> DEFINE N == Len(stream[c])
    <2>1. Halves(m, c)' = {N} \cup {N + 1} /\ N \in Nat
      BY <1>3, <1>4, <1>9
    <2>2. N # N + 1
      BY <2>1
    <2>4. Cardinality({N} \cup {N + 1}) = 2
      BY <2>2, TwoElements
    <2> HIDE DEF N
    <2> QED
      BY <1>0, <1>1, <2>1, <2>4 DEF Answered, Halves
  <1>10. StreamInv'
    <2>1. \A n \in Msgs, d \in Conns : Unsent(n)' \/ d # elem'[n].conn => Halves(n, d)' = {}
      BY <1>0, <1>1, <1>4, <1>5 DEF WaitInv, StreamInv
    <2>2. \A n \in Msgs, d \in Conns : thread'[n] = "sendRest" /\ elem'[n].conn = d
             => Odd(d)' /\ Halves(n, d)' = {Len(stream'[d])}
      <3> SUFFICES ASSUME NEW n \in Msgs, NEW d \in Conns, thread'[n] = "sendRest", elem'[n].conn = d
                   PROVE  Odd(d)' /\ Halves(n, d)' = {Len(stream'[d])}
        OBVIOUS
      <3>1. n = m /\ d = c
        BY <1>0, <1>1, <1>6
      <3>2. thread[m] = "sendFirst"
        BY <1>0, <1>2, <3>1
      <3> QED
        BY <1>3, <1>4, <3>1, <3>2
    <2>3. \A n \in Msgs : Unsent(n)' \/ thread'[n] = "sendRest" \/ Answered(n)'
      <3> SUFFICES ASSUME NEW n \in Msgs, ~Unsent(n)', thread'[n] # "sendRest" PROVE Answered(n)'
        OBVIOUS
      <3>1. CASE n = m
        BY <1>0, <1>2, <1>9, <3>1
      <3>2. CASE n # m
        <4>1. ~Unsent(n) /\ thread[n] # "sendRest"
          BY <1>0, <1>5, <3>2
        <4>2. Answered(n)
          BY <4>1 DEF WaitInv, StreamInv
        <4>3. elem[n].conn \in Conns
          BY <4>1, ElemTypes DEF WaitInv, ElemInv, Unsent
        <4> QED
          BY <1>8, <4>2, <4>3
      <3> QED
        BY <3>1, <3>2
    <2>4. \A d \in Conns : Odd(d)' => \E n \in Msgs : elem'[n].conn = d /\ thread'[n] = "sendRest"
      <3> SUFFICES ASSUME NEW d \in Conns, Odd(d)'
                   PROVE  \E n \in Msgs : elem'[n].conn = d /\ thread'[n] = "sendRest"
        OBVIOUS
      <3>1. d = c
        <4>1. ASSUME d # c PROVE FALSE
          <5>1. PICK n \in Msgs : elem[n].conn = d /\ thread[n] = "sendRest"
            BY <1>4, <4>1 DEF WaitInv, StreamInv
          <5> QED
            BY <1>1, <1>6, <4>1, <5>1
        <4> QED
          BY <4>1
      <3>2. thread[m] = "sendFirst"
        BY <1>0, <1>3, <1>4, <3>1
      <3> QED
        BY <1>0, <1>1, <1>2, <3>1, <3>2
    <2>5. \A n, k \in Msgs : {thread'[n], thread'[k]} \subseteq {"sendFirst", "sendRest"} => n = k
      BY <1>0, <1>6
    <2> QED
      BY <2>1, <2>2, <2>3, <2>4, <2>5 DEF StreamInv
  <1>11. SettledInv'
    <2>1. \A n, k \in Msgs : n # k /\ elem'[n].request = "bad" /\ elem'[k].conn = elem'[n].conn
                             => elem'[k].request # "bad" /\ Answered(k)'
      <3> SUFFICES ASSUME NEW n \in Msgs, NEW k \in Msgs, n # k, elem[n].request = "bad",
                          elem[k].conn = elem[n].conn
                   PROVE  elem[k].request # "bad" /\ Answered(k)'
        BY <1>0
      <3>1. elem[k].request # "bad" /\ Answered(k)
        BY DEF WaitInv, SettledInv
      <3>2. elem[k].conn \in Conns
        BY ElemTypes DEF WaitInv, ElemInv
      <3> QED
        BY <1>8, <3>1, <3>2
    <2>2. \A n \in Msgs : /\ elem'[n].conn # NoConn /\ client'[elem'[n].conn] = "gone"
                          /\ server'[elem'[n].conn] # "closed"
                          => elem'[n].request # "bad" /\ Answered(n)'
      BY <1>0, <1>8, ElemTypes DEF WaitInv, SettledInv
    <2> QED
      BY <2>1, <2>2 DEF SettledInv
  <1>12. ElemInv' /\ AnswerInv'
    BY <1>0, <1>2 DEF WaitInv, ElemInv, AnswerInv
  <1>13. TiedInv'
    <2>1. \A n \in Msgs : Held(n)' => Held(n)
      BY <1>0 DEF Held
    <2> QED
      BY <1>0, <2>1 DEF WaitInv, TiedInv, Tied
  <1>14. MarkInv'
    BY <1>0, MarkFrame DEF WaitInv
  <1> QED
    BY <1>9, <1>10, <1>11, <1>12, <1>13, <1>14 DEF WaitInv

\* The second half follows the first: nobody else is sending.
LEMMA WholeSend ==
    ASSUME TypeOK, SlotInv, WaitInv, WholeAnswers, patient, NEW m \in Msgs, Send(m)
    PROVE  WholeAnswers'
  <1>1. PICK c \in Conns : c = elem[m].conn
    BY SendEffect
  <1> DEFINE s == stream[c]
             t == stream'[c]
             N == Len(stream[c])
  <1>2. stream' = [stream EXCEPT ![c] = Append(@, m)] /\ thread[m] \in {"sendFirst", "sendRest"}
    BY <1>1, SendEffect DEF Send
  <1>3. /\ N \in Nat /\ Len(t) = N + 1 /\ t[N + 1] = m /\ \A k \in 1..N : t[k] = s[k]
        /\ \A d \in Conns : d # c => stream'[d] = stream[d]
    BY <1>2, AppendHalves
  <1>4. N % 2 = 1 => s[N] = m
    <2> SUFFICES ASSUME N % 2 = 1 PROVE s[N] = m
      OBVIOUS
    <2>1. Odd(c)
      BY DEF Odd
    <2>2. Halves(m, c) = {N}
      BY <1>1, <1>2, <2>1, SendEffect
    <2>3. N \in {k \in DOMAIN s : s[k] = m}
      BY <2>2 DEF Halves
    <2> QED
      BY <2>3
  <1>5. \A k \in 1..(N \div 2) : s[2 * k - 1] = s[2 * k]
    BY DEF WholeAnswers
  <1>6. \A n, k \in Nat : k <= (n + 1) \div 2 => k <= n \div 2 \/ (n % 2 = 1 /\ 2 * k = n + 1)
    OBVIOUS
  <1>7. \A n, k \in Nat : k <= n \div 2 => 2 * k <= n
    OBVIOUS
  <1> HIDE DEF s, t, N
  <1>8. ASSUME NEW k \in 1..((N + 1) \div 2) PROVE t[2 * k - 1] = t[2 * k]
    <2>0. k \in Nat /\ k >= 1 /\ k <= (N + 1) \div 2
      BY <1>3
    <2>1. CASE k <= N \div 2
      <3>1. 2 * k - 1 \in 1..N /\ 2 * k \in 1..N /\ k \in 1..(N \div 2)
        BY <1>3, <1>7, <2>0, <2>1
      <3> QED
        BY <1>3, <1>5, <3>1
    <2>2. CASE N % 2 = 1 /\ 2 * k = N + 1
      <3>1. 2 * k - 1 = N /\ N \in 1..N
        BY <1>3, <2>0, <2>2
      <3> QED
        BY <1>3, <1>4, <2>2, <3>1
    <2> QED
      BY <1>3, <1>6, <2>0, <2>1, <2>2
  <1> USE DEF s, t, N
  <1>9. ASSUME NEW d \in Conns, NEW k \in 1..(Len(stream'[d]) \div 2)
        PROVE  stream'[d][2 * k - 1] = stream'[d][2 * k]
    <2>1. CASE d = c
      BY <1>3, <1>8, <2>1
    <2>2. CASE d # c
      BY <1>3, <2>2 DEF WholeAnswers
    <2> QED
      BY <2>1, <2>2
  <1> QED
    BY <1>9 DEF WholeAnswers

-----------------------------------------------------------------------------
(* The invariant. *)

LEMMA RecvParts ==
    ASSUME TypeOK, SlotInv, WaitInv, NEW i \in Slots, NEW m \in Msgs, RecvMsg(i, m) PROVE WaitInv'
  <1> DEFINE e == [elem[m] EXCEPT !.fd = fd[i], !.mpx = i]
  <1>0. /\ fd[i] # 0 /\ thread[m] = "sent" /\ elem[m].conn = Conn(i)
        /\ thread' = [thread EXCEPT ![m] = "start"] /\ elem' = [elem EXCEPT ![m] = e]
        /\ UNCHANGED <<fd, disconnect, owner, server, answer, client, stream, main>>
    BY DEF RecvMsg, Least, Sent, From, slotVars, clientVars, mainVars, TypeOK
  <1>1. e.conn = elem[m].conn /\ e.request = elem[m].request /\ e.fd = fd[i] /\ e.mpx = i
    BY DEF TypeOK
  <1> HIDE DEF e
  <1>2. /\ elem'[m] = e /\ thread'[m] = "start"
        /\ \A n \in Msgs : n # m => elem'[n] = elem[n] /\ thread'[n] = thread[n]
    BY <1>0 DEF TypeOK
  <1>3. \A n \in Msgs : elem'[n].conn = elem[n].conn /\ elem'[n].request = elem[n].request
    BY <1>1, <1>2
  <1>4. /\ \A n \in Msgs, d \in Conns : Halves(n, d)' = Halves(n, d)
        /\ \A d \in Conns : Odd(d)' = Odd(d)
    BY <1>0 DEF Halves, Odd
  <1>5. \A n \in Msgs : Answered(n)' = Answered(n)
    BY <1>0, <1>3 DEF Answered
  <1>6. \A n \in Msgs : Unsent(n)' = Unsent(n)
    BY <1>0, <1>2, <1>3 DEF Unsent
  <1>7. ElemInv'
    <2>1. i # 0
      BY ProcAssumption DEF Slots, ProcAssumption
    <2> QED
      BY <1>0, <1>1, <1>2, <2>1 DEF WaitInv, ElemInv
  <1>8. StreamInv'
    <2>1. \A n \in Msgs, d \in Conns : Unsent(n)' \/ d # elem'[n].conn => Halves(n, d)' = {}
      BY <1>3, <1>4, <1>6 DEF WaitInv, StreamInv
    <2>2. \A n \in Msgs, d \in Conns : thread'[n] = "sendRest" /\ elem'[n].conn = d
             => Odd(d)' /\ Halves(n, d)' = {Len(stream'[d])}
      BY <1>0, <1>2, <1>4 DEF WaitInv, StreamInv
    <2>3. \A n \in Msgs : Unsent(n)' \/ thread'[n] = "sendRest" \/ Answered(n)'
      BY <1>0, <1>2, <1>5, <1>6 DEF WaitInv, StreamInv
    <2>4. \A d \in Conns : Odd(d)' => \E n \in Msgs : elem'[n].conn = d /\ thread'[n] = "sendRest"
      BY <1>0, <1>2, <1>4 DEF WaitInv, StreamInv
    <2>5. \A n, k \in Msgs : {thread'[n], thread'[k]} \subseteq {"sendFirst", "sendRest"} => n = k
      BY <1>2 DEF WaitInv, StreamInv
    <2> QED
      BY <2>1, <2>2, <2>3, <2>4, <2>5 DEF StreamInv
  <1>9. SettledInv'
    BY <1>0, <1>3, <1>5 DEF WaitInv, SettledInv
  <1>10. TiedInv'
    <2>1. ASSUME NEW n \in Msgs, Held(n)' PROVE Tied(n)'
      <3>1. CASE n = m
        BY <1>0, <1>1, <1>2, <3>1 DEF Tied, Conn
      <3>2. CASE n # m
        <4>1. Held(n)
          BY <1>2, <2>1, <3>2 DEF Held
        <4> QED
          BY <1>0, <1>2, <3>2, <4>1 DEF WaitInv, TiedInv, Tied
      <3> QED
        BY <3>1, <3>2
    <2> QED
      BY <2>1 DEF TiedInv
  <1>11. MarkInv'
    BY <1>0, <1>2, <1>3 DEF WaitInv, MarkInv, From, Conn
  <1>12. AnswerInv'
    BY <1>0, <1>2, <1>3 DEF WaitInv, AnswerInv
  <1> QED
    BY <1>7, <1>8, <1>9, <1>10, <1>11, <1>12 DEF WaitInv

\* The process ends.
LEMMA ExitParts ==
    ASSUME TypeOK, PatientInv, Alive,
           EndServer \/ InterruptArrives \/ \E m \in Msgs : SendFails(m) \/ TooLate(m)
    PROVE  PatientInv'
  <1>1. /\ UNCHANGED <<fd, owner, server, client, patient, stream, OrderlyShutdown>>
        /\ main' = "exited" /\ handler' = "exited" /\ thread' = [m \in Msgs |-> "ended"]
        /\ exited' # "no"
    BY DEF EndServer, InterruptArrives, SendFails, TooLate, Exit, slotVars, clientVars
  <1>2. SlotInv' /\ WholeAnswers' /\ EndInv'
    BY <1>1 DEF PatientInv, SlotInv, WholeAnswers, EndInv, Closing
  <1>3. patient /\ ~OrderlyShutdown => exited' = "INT"
    <2> SUFFICES ASSUME patient, ~OrderlyShutdown PROVE exited' = "INT"
      OBVIOUS
    <2>1. main \notin Closing
      BY DEF PatientInv, EndInv
    <2>2. ASSUME NEW m \in Msgs, SendFails(m) PROVE FALSE
      BY <2>1, <2>2, SendsToOwner, ProcAssumption DEF SendFails, PatientInv, ProcAssumption
    <2>3. InterruptArrives
      BY <2>1, <2>2 DEF EndServer, TooLate, MutexesDestroyed, Closing
    <2> QED
      BY <2>3 DEF InterruptArrives, Exit
  <1> QED
    BY <1>1, <1>2, <1>3 DEF PatientInv, NoAbort, Alive

LEMMA PatientKept == ASSUME [Next]_vars PROVE UNCHANGED patient
  BY DEF Next, MainStep, Serve, HandlerStep, Interrupts, ThreadStep, ClientStep,
         Poll, ReadEvent, EndDisconnect, EndLoop, JoinHandler, DestroyMutexes, FreeLists, EndServer,
         AcceptClient, RecvMsg, RecvHangup, DisconnectClient, CloseRemaining, ProcessMsg, LockSend, Send,
         SendReset, SendFails, RemoveElem, MarkClient, NotifyMain, TooLate, TermArrives, TermAccepted,
         TermNotifies, QuitArrives, InterruptArrives, ClientConnect, ClientHangup, ClientSend, clientVars, vars

\* What does not end it: Main closes the clients that are left in an orderly shutdown.
LEMMA LiveFrame ==
    ASSUME PatientInv, Alive, Next, UNCHANGED exited
    PROVE  /\ UNCHANGED patient /\ EndInv' /\ NoAbort' /\ Alive'
           /\ UNCHANGED stream => WholeAnswers'
           /\ main \in Closing => main' \in Closing
  <1>1. UNCHANGED patient
    BY PatientKept
  <1>2. /\ OrderlyShutdown => OrderlyShutdown'
        /\ main' \in Closing => main \in Closing \/ OrderlyShutdown
        /\ main \in Closing => main' \in Closing
    <2>0. ~(EndServer \/ InterruptArrives \/ \E m \in Msgs : SendFails(m) \/ TooLate(m))
      BY DEF EndServer, InterruptArrives, SendFails, TooLate, Exit, Alive
    <2>1. CASE MainStep
      <3>1. CASE Poll \/ ReadEvent \/ EndDisconnect \/ EndLoop \/ JoinHandler \/ DestroyMutexes \/ FreeLists
        BY <3>1 DEF Poll, ReadEvent, EndDisconnect, EndLoop, JoinHandler, DestroyMutexes, FreeLists,
                    Closing, flagVars
      <3>2. CASE UNCHANGED <<main, OrderlyShutdown>>
        BY <3>2
      <3> QED
        BY <2>0, <2>1, <3>1, <3>2 DEF MainStep, Serve, AcceptClient, RecvMsg, RecvHangup, DisconnectClient,
             CloseRemaining, mainVars, flagVars
    <2>2. CASE HandlerStep \/ Interrupts
      BY <2>0, <2>2 DEF HandlerStep, Interrupts, TermArrives, TermAccepted, TermNotifies, QuitArrives,
           mainVars, flagVars
    <2>3. ASSUME NEW m \in Msgs, ThreadStep(m) PROVE UNCHANGED <<main, OrderlyShutdown>>
      BY <2>0, <2>3 DEF ThreadStep, ProcessMsg, LockSend, Send, SendReset, RemoveElem, MarkClient,
           NotifyMain, mainVars, flagVars
    <2>4. ASSUME NEW c \in Conns, ClientStep(c) PROVE UNCHANGED <<main, OrderlyShutdown>>
      BY <2>4 DEF ClientStep, ClientConnect, ClientHangup, ClientSend, mainVars, flagVars
    <2> QED
      BY <2>1, <2>2, <2>3, <2>4 DEF Next
  <1>3. Alive'
    BY DEF Alive
  <1>4. EndInv'
    BY <1>2, <1>3 DEF PatientInv, EndInv
  <1>5. NoAbort'
    BY <1>1, <1>2 DEF PatientInv, NoAbort, Alive
  <1>6. UNCHANGED stream => WholeAnswers'
    BY <1>1 DEF PatientInv, WholeAnswers
  <1> QED
    BY <1>1, <1>2, <1>3, <1>4, <1>5, <1>6

\* One lemma for each of the actors, on the parts that are left.
LEMMA MainParts ==
    ASSUME TypeOK, PatientInv, Alive, Next, MainStep, UNCHANGED exited
    PROVE  UNCHANGED stream /\ SlotInv' /\ (patient => WaitInv')
  <1>0. SlotInv /\ (patient => WaitInv) /\ (main \in Closing => main' \in Closing)
    BY LiveFrame DEF PatientInv
  <1>1. ASSUME NEW c \in Conns, NEW f \in Fds, NEW j \in Slots, AcceptClient(c, f, j)
        PROVE  UNCHANGED stream /\ SlotInv' /\ (patient => WaitInv')
    BY <1>0, <1>1, AcceptParts DEF AcceptClient
  <1>2. ASSUME NEW c \in Conns, Serve(c)
        PROVE  UNCHANGED stream /\ SlotInv' /\ (patient => WaitInv')
    <2>1. PICK i \in Slots : RecvHangup(i) \/ \E m \in Msgs : RecvMsg(i, m)
      BY <1>2 DEF Serve
    <2>2. CASE RecvHangup(i)
      <3>1. UNCHANGED <<threadVars, client, stream>>
        BY <2>2 DEF RecvHangup, clientVars
      <3> QED
        BY <1>0, <2>2, <3>1, MainClosesParts
    <2>3. ASSUME NEW m \in Msgs, RecvMsg(i, m)
          PROVE  UNCHANGED stream /\ SlotInv' /\ (patient => WaitInv')
      <3>1. UNCHANGED <<fd, owner, server, client, stream>>
        BY <2>3 DEF RecvMsg, slotVars, clientVars
      <3>2. SlotInv'
        BY <1>0, <3>1 DEF SlotInv
      <3> QED
        BY <1>0, <2>3, <3>1, <3>2, RecvParts
    <2> QED
      BY <2>1, <2>2, <2>3
  <1>3. ASSUME NEW i \in Slots, DisconnectClient(i) \/ CloseRemaining(i)
        PROVE  UNCHANGED stream /\ SlotInv' /\ (patient => WaitInv')
    <2>1. UNCHANGED <<threadVars, client, stream, main>>
      BY <1>3 DEF DisconnectClient, CloseRemaining, clientVars, mainVars
    <2>2. CASE UNCHANGED slotVars
      <3>1. SlotInv'
        BY <1>0, <2>1, <2>2 DEF SlotInv, slotVars
      <3> QED
        BY <1>0, <2>1, <2>2, <3>1, RestParts
    <2>3. CASE ~UNCHANGED slotVars
      <3>1. \/ main = "disconnect" /\ fd[i] # 0 /\ disconnect[i] /\ CloseClient(i) /\ UNCHANGED main
            \/ CloseRemaining(i)
        BY <1>3, <2>1, <2>3 DEF DisconnectClient, Least, Ahead, FreeSlots
      <3> QED
        BY <1>0, <2>1, <3>1, MainClosesParts
    <2> QED
      BY <2>2, <2>3
  <1>4. CASE Poll \/ ReadEvent \/ EndDisconnect \/ EndLoop \/ JoinHandler \/ DestroyMutexes \/ FreeLists
    <2>1. UNCHANGED <<slotVars, threadVars, client, stream>>
      BY <1>4 DEF Poll, ReadEvent, EndDisconnect, EndLoop, JoinHandler, DestroyMutexes, FreeLists, clientVars
    <2>2. SlotInv'
      BY <1>0, <2>1 DEF SlotInv, slotVars
    <2> QED
      BY <1>0, <2>1, <2>2, RestParts
  <1>5. ~EndServer
    BY DEF EndServer, Exit, Alive
  <1> QED
    BY <1>1, <1>2, <1>3, <1>4, <1>5 DEF MainStep

LEMMA ThreadParts ==
    ASSUME TypeOK, PatientInv, Alive, NEW m \in Msgs, ThreadStep(m), UNCHANGED exited, UNCHANGED patient
    PROVE  SlotInv' /\ (patient => WaitInv') /\ WholeAnswers'
  <1>0. SlotInv /\ (patient => WaitInv) /\ WholeAnswers
    BY DEF PatientInv
  <1>1. ~SendFails(m) /\ ~TooLate(m)
    BY DEF SendFails, TooLate, Exit, Alive
  <1>2. SlotInv'
    <2>1. UNCHANGED <<fd, owner, server, client>>
      BY <1>1 DEF ThreadStep, ProcessMsg, LockSend, Send, SendReset, RemoveElem, MarkClient, NotifyMain,
                  slotVars, clientVars
    <2> QED
      BY <1>0, <2>1 DEF SlotInv
  <1>3. CASE Send(m)
    BY <1>0, <1>2, <1>3, TellParts, WholeSend DEF WholeAnswers
  <1>4. patient => ~SendReset(m)
    BY <1>0, SendsToOwner DEF SendReset
  <1>5. CASE ~Send(m)
    <2>1. patient => WaitInv'
      BY <1>0, <1>1, <1>4, <1>5, ProcessParts, LockParts, RemoveParts, MarkParts, NotifyParts DEF ThreadStep
    <2>2. UNCHANGED stream
      BY <1>1, <1>5 DEF ThreadStep, ProcessMsg, LockSend, SendReset, RemoveElem, MarkClient, NotifyMain
    <2> QED
      BY <1>0, <1>2, <2>1, <2>2 DEF WholeAnswers
  <1> QED
    BY <1>3, <1>5

LEMMA PatientStep ==
    ASSUME NoStaleMark, TypeOK, RequestsKnown, PatientInv, [Next]_vars
    PROVE  PatientInv'
  <1>1. CASE UNCHANGED vars
    <2>1. UNCHANGED <<slotVars, threadVars, client, stream, main>>
      BY <1>1 DEF vars, clientVars, mainVars
    <2>2. SlotInv' /\ WholeAnswers' /\ EndInv' /\ NoAbort'
      BY <1>1 DEF vars, slotVars, threadVars, clientVars, mainVars, flagVars, PatientInv, SlotInv,
                  WholeAnswers, EndInv, NoAbort, Alive
    <2>3. (patient /\ Alive)' => WaitInv'
      BY <1>1, <2>1, RestParts DEF PatientInv, Alive, vars, clientVars, flagVars
    <2> QED
      BY <2>2, <2>3 DEF PatientInv
  <1>2. CASE Next /\ Alive
    <2>0. SlotInv /\ (patient => WaitInv) /\ WholeAnswers
      BY <1>2 DEF PatientInv
    <2>1. CASE EndServer \/ InterruptArrives \/ \E m \in Msgs : SendFails(m) \/ TooLate(m)
      BY <1>2, <2>1, ExitParts
    <2>2. CASE ~(EndServer \/ InterruptArrives \/ \E m \in Msgs : SendFails(m) \/ TooLate(m))
      <3>1. UNCHANGED exited
        BY <1>2, <2>2 DEF Next, MainStep, Serve, HandlerStep, Interrupts, ThreadStep, ClientStep,
           Poll, ReadEvent, EndDisconnect, EndLoop, JoinHandler, DestroyMutexes, FreeLists,
           AcceptClient, RecvMsg, RecvHangup, DisconnectClient, CloseRemaining, ProcessMsg, LockSend, Send,
           SendReset, RemoveElem, MarkClient, NotifyMain, TermArrives, TermAccepted,
           TermNotifies, QuitArrives, ClientConnect, ClientHangup, ClientSend, flagVars
      <3>2. /\ UNCHANGED patient /\ EndInv' /\ NoAbort' /\ Alive'
            /\ UNCHANGED stream => WholeAnswers'
            /\ main \in Closing => main' \in Closing
        BY <1>2, <3>1, LiveFrame
      <3>3. CASE MainStep
        BY <1>2, <3>1, <3>2, <3>3, MainParts DEF PatientInv
      <3>4. CASE HandlerStep \/ Interrupts
        <4>1. UNCHANGED <<slotVars, threadVars, client, stream>>
          BY <2>2, <3>4 DEF HandlerStep, Interrupts, TermArrives, TermAccepted, TermNotifies, QuitArrives,
                            clientVars
        <4>2. SlotInv'
          BY <2>0, <4>1 DEF SlotInv, slotVars
        <4>3. patient => WaitInv'
          BY <2>0, <3>2, <4>1, RestParts
        <4> QED
          BY <3>2, <4>1, <4>2, <4>3 DEF PatientInv
      <3>5. ASSUME NEW m \in Msgs, ThreadStep(m) PROVE PatientInv'
        BY <1>2, <3>1, <3>2, <3>5, ThreadParts DEF PatientInv
      <3>6. ASSUME NEW c \in Conns, ClientStep(c) PROVE PatientInv'
        <4>1. UNCHANGED stream
          BY <3>6 DEF ClientStep, ClientConnect, ClientHangup, ClientSend
        <4>2. CASE ClientConnect(c)
          BY <2>0, <3>2, <4>1, <4>2, ConnectParts DEF PatientInv
        <4>3. CASE ClientHangup(c)
          BY <2>0, <3>2, <4>1, <4>3, HangupParts DEF PatientInv
        <4>4. ASSUME NEW m \in Msgs, NEW request \in Requests[patient], ClientSend(c, m, request)
              PROVE  PatientInv'
          <5>1. UNCHANGED <<fd, owner, server, client>>
            BY <4>4 DEF ClientSend, slotVars, clientVars
          <5>2. SlotInv'
            BY <2>0, <5>1 DEF SlotInv
          <5>3. patient => WaitInv'
            BY <2>0, <4>4, SendParts
          <5> QED
            BY <3>2, <4>1, <5>2, <5>3 DEF PatientInv
        <4> QED
          BY <3>6, <4>2, <4>3, <4>4 DEF ClientStep
      <3> QED
        BY <1>2, <3>3, <3>4, <3>5, <3>6 DEF Next
    <2> QED
      BY <2>1, <2>2
  <1> QED
    BY <1>1, <1>2, DeadRests DEF PatientInv

LEMMA PatientInit == ASSUME Init PROVE PatientInv
  <1>0. Alive /\ main = "poll" /\ \A m \in Msgs : elem[m].conn = NoConn /\ elem[m].request = "none"
    BY DEF Init, Alive, NoElem
  <1>1. SlotInv /\ EndInv /\ NoAbort
    BY <1>0 DEF Init, SlotInv, EndInv, NoAbort, Closing, Alive
  <1>2. \A c \in Conns : stream[c] = <<>> /\ Len(stream[c]) = 0 /\ ~Odd(c) /\ \A m \in Msgs : Halves(m, c) = {}
    BY DEF Init, Odd, Halves
  <1>3. WholeAnswers
    <2>1. \A k : k \notin 1..(0 \div 2)
      OBVIOUS
    <2>2. \A c \in Conns : Len(stream[c]) = 0
      BY <1>2
    <2>3. \A c \in Conns : \A k \in 1..(Len(stream[c]) \div 2) : FALSE
      BY <2>1, <2>2
    <2> QED
      BY <2>3 DEF WholeAnswers
  <1>4. ElemInv /\ AnswerInv /\ TiedInv /\ MarkInv
    BY <1>0 DEF Init, ElemInv, AnswerInv, TiedInv, Held, MarkInv
  <1>5. StreamInv
    BY <1>2 DEF Init, StreamInv, Unsent
  <1>6. SettledInv
    BY <1>0 DEF SettledInv
  <1> QED
    BY <1>1, <1>3, <1>4, <1>5, <1>6 DEF PatientInv, WaitInv

\* The invariant of clients that wait holds in every state, where marks are reset with their
\* slots (MarkAfterClose) or never set.
THEOREM PatientInvariance == ASSUME NoStaleMark PROVE Spec => []PatientInv
  <1>1. Init => PatientInv
    BY PatientInit
  <1>2. ProcInv /\ PatientInv /\ [Next]_vars => PatientInv'
    BY PatientStep DEF ProcInv
  <1> QED
    BY <1>1, <1>2, Invariance, PTL DEF Spec

\* While no stale mark is possible, clients that wait receive whole answers, however many
\* threads send on their descriptors and however often these are reused (setupResponse,
\* dbserver.c:614-617): SendMutex is held from the first part of an answer to the last.
THEOREM AnswersAreWhole == ASSUME NoStaleMark PROVE Spec => []WholeAnswers
  <1>1. PatientInv => WholeAnswers
    BY DEF PatientInv
  <1> QED
    BY <1>1, PatientInvariance, PTL

\* Nor do such clients bring the server down: a thread's descriptor is its client's until
\* it has sent the answer (socketsend.c:38).
THEOREM NobodyAborts == ASSUME NoStaleMark PROVE Spec => []NoAbort
  <1>1. PatientInv => NoAbort
    BY DEF PatientInv
  <1> QED
    BY <1>1, PatientInvariance, PTL

\* A client that waits for an answer is disconnected by nobody but the shutdown: the mark
\* of its slot can only be its own (bankclient.c:92).
THEOREM WaitersStay == ASSUME NoStaleMark PROVE Spec => WaitingStay
  <1> DEFINE Stay(c) == patient /\ Awaits(c) /\ server[c] = "open" /\ client[c] = "connected"
                        /\ server'[c] = "closed" => main = "close"
  <1>1. ASSUME TypeOK, PatientInv, [Next]_vars PROVE [\A c \in Conns : Stay(c)]_vars
    <2> SUFFICES ASSUME NEW c \in Conns, patient, Awaits(c), server[c] = "open", client[c] = "connected",
                        server'[c] = "closed"
                 PROVE  main = "close"
      OBVIOUS
    <2>1. ~UNCHANGED vars
      BY DEF vars, slotVars
    <2>2. Next /\ Alive
      BY <1>1, <2>1, DeadRests DEF PatientInv
    <2>3. WaitInv /\ SlotInv
      BY <1>1, <2>2 DEF PatientInv
    <2>4. \E i \in Slots : fd[i] # 0 /\ Conn(i) = c /\ (RecvHangup(i) \/ CloseRemaining(i) \/ disconnect[i])
      <3>1. MainStep
        BY <1>1, <2>1, <2>2 DEF Next, HandlerStep, Interrupts, ThreadStep, ClientStep, ProcessMsg, LockSend,
           Send, SendReset, SendFails, RemoveElem, MarkClient, NotifyMain, TooLate, TermArrives, TermAccepted,
           TermNotifies, QuitArrives, InterruptArrives, ClientConnect, ClientHangup, ClientSend, slotVars, TypeOK
      <3>2. ~UNCHANGED server
        OBVIOUS
      <3>3. ASSUME NEW d \in Conns, NEW f \in Fds, NEW j \in Slots, AcceptClient(d, f, j) PROVE FALSE
        BY <1>1, <3>3 DEF AcceptClient, Backlog, TypeOK
      <3>4. ASSUME NEW i \in Slots, fd[i] # 0, CloseClient(i) PROVE Conn(i) = c
        BY <1>1, <3>4 DEF CloseClient, TypeOK
      <3>5. ASSUME NEW d \in Conns, Serve(d) PROVE \E i \in Slots : fd[i] # 0 /\ Conn(i) = c /\ RecvHangup(i)
        BY <3>2, <3>4, <3>5 DEF Serve, RecvMsg, RecvHangup, slotVars
      <3>6. ASSUME NEW i \in Slots, DisconnectClient(i) \/ CloseRemaining(i)
            PROVE  fd[i] # 0 /\ Conn(i) = c /\ (CloseRemaining(i) \/ disconnect[i])
        BY <3>2, <3>4, <3>6 DEF DisconnectClient, CloseRemaining, Least, Ahead, FreeSlots, slotVars
      <3> QED
        BY <3>1, <3>2, <3>3, <3>5, <3>6 DEF MainStep, Poll, ReadEvent, EndDisconnect, EndLoop, JoinHandler,
           DestroyMutexes, FreeLists, EndServer, slotVars
    <2>5. PICK i \in Slots : fd[i] # 0 /\ Conn(i) = c /\ (RecvHangup(i) \/ CloseRemaining(i) \/ disconnect[i])
      BY <2>4
    <2>6. ~RecvHangup(i)
      BY <2>5 DEF RecvHangup
    <2>7. ~disconnect[i]
      <3>1. ASSUME disconnect[i] PROVE FALSE
        <4>1. PICK m \in From(c) : elem[m].request = "bad" /\ thread[m] \in {"notify", "ended"}
          BY <2>3, <2>5, <3>1 DEF MarkInv, WaitInv
        <4>2. PICK n \in From(c) : elem[n].request # "bad" /\ ~Answered(n)
          BY DEF Awaits
        <4> QED
          BY <2>3, <4>1, <4>2 DEF WaitInv, SettledInv, From
      <3> QED
        BY <3>1
    <2> QED
      BY <2>5, <2>6, <2>7 DEF CloseRemaining
  <1>2. TypeOK /\ PatientInv /\ [Next]_vars => [\A c \in Conns : Stay(c)]_vars
    BY <1>1
  <1>3. [][\A c \in Conns : Stay(c)]_vars => WaitingStay
    BY DEF WaitingStay
  <1> QED
    BY <1>2, <1>3, PatientInvariance, TypeCorrect, PTL DEF Spec

-----------------------------------------------------------------------------
(* The servers implement PeerService. *)

ServiceVars == <<Asker, SentRequest, Told, patient>>

LEMMA InitService == ASSUME Init PROVE Service!Init
  <1>1. Asker = [m \in Msgs |-> NoConn] /\ SentRequest = [m \in Msgs |-> "none"]
    BY DEF Init, NoElem, Asker, SentRequest
  <1>2. \A m \in Msgs, c \in Conns : ~HasBoth(m, c)
    <2>1. \A m \in Msgs, c \in Conns : Halves(m, c) = {}
      BY DEF Init, Halves
    <2> QED
      BY <2>1, FS_EmptySet DEF HasBoth
  <1>3. Told = [c \in Conns |-> {}]
    BY <1>2 DEF Told
  <1>4. patient \in BOOLEAN
    BY ProcAssumption DEF Init, ProcAssumption
  <1> QED
    BY <1>1, <1>3, <1>4 DEF Service!Init

\* What a client has been told does not change by itself.
LEMMA ToldStays ==
    ASSUME UNCHANGED stream, \A m \in Msgs : answer'[m] = answer[m] \/ \A c \in Conns : ~HasBoth(m, c)
    PROVE  Told' = Told
  <1>1. \A m \in Msgs, c \in Conns : HasBoth(m, c)' = HasBoth(m, c)
    BY DEF HasBoth, Halves
  <1> QED
    BY <1>1 DEF Told

LEMMA SendAsks ==
    ASSUME TypeOK, RequestsKnown, patient, NEW c \in Conns, NEW m \in Msgs, NEW r \in Requests[patient],
           ClientSend(c, m, r)
    PROVE  Service!Next
  <1> DEFINE e == [NoElem EXCEPT !.conn = c, !.request = r]
  <1>0. /\ e.conn = c /\ e.request = r /\ elem' = [elem EXCEPT ![m] = e] /\ elem[m].conn = NoConn
        /\ UNCHANGED <<answer, stream, patient>>
    BY DEF ClientSend, NoElem, clientVars, Least, From
  <1> HIDE DEF e
  <1>1. \A n \in Msgs : elem'[n] = IF n = m THEN e ELSE elem[n]
    BY <1>0 DEF TypeOK
  <1>2. Asker' = [Asker EXCEPT ![m] = c] /\ SentRequest' = [SentRequest EXCEPT ![m] = r] /\ Asker[m] = NoConn
    <2>1. \A n \in Msgs : elem'[n].conn = (IF n = m THEN c ELSE elem[n].conn)
      BY <1>0, <1>1
    <2>2. \A n \in Msgs : elem'[n].request = (IF n = m THEN r ELSE elem[n].request)
      BY <1>0, <1>1
    <2>3. Asker' = [Asker EXCEPT ![m] = c]
      BY <2>1 DEF Asker
    <2>4. SentRequest' = [SentRequest EXCEPT ![m] = r]
      BY <2>2 DEF SentRequest
    <2>5. Asker[m] = NoConn
      BY <1>0 DEF Asker
    <2> QED
      BY <2>3, <2>4, <2>5
  <1>3. Told' = Told
    BY <1>0, ToldStays
  <1>4. r \in {"good", "ctrl", "bad"}
    BY ProcAssumption DEF ProcAssumption, RequestsKnown
  <1>5. Service!Ask(c, m, r)
    BY <1>2, <1>3 DEF Service!Ask
  <1> QED
    BY <1>0, <1>4, <1>5 DEF Service!Next

\* The second half of an answer completes it.
LEMMA SendTells ==
    ASSUME TypeOK, SlotInv, WaitInv, AuditOnce, patient, NEW m \in Msgs, Send(m)
    PROVE  Service!Next \/ UNCHANGED ServiceVars
  <1>0. PICK c \in Conns : c = elem[m].conn
    BY SendEffect
  <1>1. /\ stream' = [stream EXCEPT ![c] = Append(@, m)] /\ UNCHANGED <<elem, answer, patient>>
        /\ thread[m] = "sendFirst" => Halves(m, c) = {}
        /\ thread[m] = "sendRest" => Halves(m, c) = {Len(stream[c])}
        /\ elem[m].request # "bad" /\ thread[m] \in {"sendFirst", "sendRest"}
    BY <1>0, SendEffect DEF Send
  <1>2. /\ Len(stream[c]) \in Nat /\ Halves(m, c)' = Halves(m, c) \cup {Len(stream[c]) + 1}
        /\ \A n \in Msgs, d \in Conns : n # m \/ d # c => Halves(n, d)' = Halves(n, d)
    BY <1>1, AppendHalves
  <1>3. \A n \in Msgs, d \in Conns : n # m \/ d # c => HasBoth(n, d)' = HasBoth(n, d)
    BY <1>2 DEF HasBoth
  <1>4. \A d \in Conns : ~HasBoth(m, d)
    <2>1. \A d \in Conns : d # c => Halves(m, d) = {}
      BY <1>0 DEF WaitInv, StreamInv
    <2>2. ~Answered(m)
      BY <1>0, <1>1, NotAnswered DEF WaitInv, Unsent
    <2>3. ~HasBoth(m, c)
      BY <1>0, <2>2 DEF Answered, HasBoth, Halves
    <2>4. \A d \in Conns : d # c => ~HasBoth(m, d)
      BY <2>1, FS_EmptySet DEF HasBoth
    <2> QED
      BY <2>3, <2>4
  <1>5. Asker' = Asker /\ SentRequest' = SentRequest /\ Asker[m] = c /\ SentRequest[m] = elem[m].request
    BY <1>0, <1>1 DEF Asker, SentRequest
  <1>6. CASE thread[m] = "sendFirst"
    <2>1. Halves(m, c)' = {Len(stream[c]) + 1}
      BY <1>1, <1>2, <1>6
    <2>2. Cardinality({Len(stream[c]) + 1}) = 1
      BY FS_Singleton
    <2>3. ~HasBoth(m, c)'
      BY <2>1, <2>2 DEF HasBoth
    <2>4. \A n \in Msgs, d \in Conns : HasBoth(n, d)' <=> HasBoth(n, d)
      BY <1>3, <1>4, <2>3
    <2>5. Told' = Told
      BY <1>1, <2>4 DEF Told
    <2> QED
      BY <1>1, <1>5, <2>5 DEF ServiceVars
  <1>7. CASE thread[m] = "sendRest"
    <2>1. HasBoth(m, c)'
      <3>1. Answered(m)'
        BY <1>7, TellParts
      <3> QED
        BY <1>0, <1>1, <3>1 DEF Answered, HasBoth, Halves
    <2>2. \A n \in Msgs, d \in Conns : HasBoth(n, d)' <=> HasBoth(n, d) \/ (n = m /\ d = c)
      BY <1>3, <2>1
    <2> DEFINE a == <<m, answer[m]>>
    <2>3. Told' = [Told EXCEPT ![c] = @ \cup {a}]
      BY <1>1, <2>2 DEF Told
    <2>4. \A b \in Told[c] : b[1] # m
      BY <1>4 DEF Told
    <2>5. answer[m] \in Service!Used => answer[m] = 0
      <3> SUFFICES ASSUME answer[m] \in Service!Used PROVE answer[m] = 0
        OBVIOUS
      <3>1. PICK d \in Conns : \E b \in Told[d] : b[2] = answer[m]
        BY DEF Service!Used
      <3>2. PICK n \in Msgs : HasBoth(n, d) /\ answer[n] = answer[m]
        BY <3>1 DEF Told
      <3>3. n # m
        BY <1>4, <3>2
      <3> QED
        BY <3>2, <3>3 DEF AuditOnce
    <2>6. \/ elem[m].request = "good" /\ answer[m] # 0
          \/ elem[m].request = "ctrl" /\ answer[m] = 0
      BY <1>0, <1>1, <1>7, ElemTypes DEF WaitInv, ElemInv, AnswerInv
    <2>7. Service!Tell(c, m, answer[m])
      BY <1>5, <2>3, <2>4, <2>5, <2>6 DEF Service!Tell
    <2>8. a \in Told'[c]
      BY <2>3 DEF Told
    <2>9. a[1] = m /\ a[2] = answer[m] /\ a \in UNION {Told'[d] : d \in Conns}
      BY <2>8
    <2> HIDE DEF a
    <2> QED
      BY <1>1, <2>7, <2>9 DEF Service!Next
  <1> QED
    BY <1>1, <1>6, <1>7

\* Every other step changes nothing that the clients can see.
LEMMA OthersStutter ==
    ASSUME TypeOK, WaitInv, Next,
           \A c \in Conns, m \in Msgs, r \in Requests[patient] : ~ClientSend(c, m, r),
           \A m \in Msgs : ~Send(m)
    PROVE  UNCHANGED ServiceVars
  <1>1. UNCHANGED stream
    BY DEF Next, MainStep, Serve, HandlerStep, Interrupts, ThreadStep, ClientStep,
         Poll, ReadEvent, EndDisconnect, EndLoop, JoinHandler, DestroyMutexes, FreeLists, EndServer,
         AcceptClient, RecvMsg, RecvHangup, DisconnectClient, CloseRemaining, ProcessMsg, LockSend,
         SendReset, SendFails, RemoveElem, MarkClient, NotifyMain, TooLate, TermArrives, TermAccepted,
         TermNotifies, QuitArrives, InterruptArrives, ClientConnect, ClientHangup
  <1>2. UNCHANGED answer \/ \E m \in Msgs : ProcessMsg(m)
    BY DEF Next, MainStep, Serve, HandlerStep, Interrupts, ThreadStep, ClientStep,
         Poll, ReadEvent, EndDisconnect, EndLoop, JoinHandler, DestroyMutexes, FreeLists, EndServer,
         AcceptClient, RecvMsg, RecvHangup, DisconnectClient, CloseRemaining, LockSend,
         SendReset, SendFails, RemoveElem, MarkClient, NotifyMain, TooLate, TermArrives, TermAccepted,
         TermNotifies, QuitArrives, InterruptArrives, ClientConnect, ClientHangup, threadVars
  <1>3. UNCHANGED elem \/ \E i \in Slots, m \in Msgs : RecvMsg(i, m)
    BY DEF Next, MainStep, Serve, HandlerStep, Interrupts, ThreadStep, ClientStep,
         Poll, ReadEvent, EndDisconnect, EndLoop, JoinHandler, DestroyMutexes, FreeLists, EndServer,
         AcceptClient, RecvHangup, DisconnectClient, CloseRemaining, ProcessMsg, LockSend,
         SendReset, SendFails, RemoveElem, MarkClient, NotifyMain, TooLate, TermArrives, TermAccepted,
         TermNotifies, QuitArrives, InterruptArrives, ClientConnect, ClientHangup, threadVars
  <1>4. Told' = Told
    <2>1. \A m \in Msgs : answer'[m] = answer[m] \/ \A c \in Conns : ~HasBoth(m, c)
      <3>1. CASE UNCHANGED answer
        BY <3>1
      <3>2. ASSUME NEW m \in Msgs, ProcessMsg(m)
            PROVE  /\ \A n \in Msgs : n # m => answer'[n] = answer[n]
                   /\ \A c \in Conns : ~HasBoth(m, c)
        <4>1. Unsent(m)
          BY <3>2 DEF ProcessMsg, Unsent
        <4>2. \A c \in Conns : Halves(m, c) = {}
          BY <4>1 DEF WaitInv, StreamInv
        <4>3. \A n \in Msgs : n # m => answer'[n] = answer[n]
          BY <3>2 DEF ProcessMsg, TypeOK
        <4> QED
          BY <4>2, <4>3, FS_EmptySet DEF HasBoth
      <3> QED
        BY <1>2, <3>1, <3>2
    <2> QED
      BY <1>1, <2>1, ToldStays
  <1>5. Asker' = Asker /\ SentRequest' = SentRequest
    <2>1. CASE UNCHANGED elem
      BY <2>1 DEF Asker, SentRequest
    <2>2. ASSUME NEW i \in Slots, NEW m \in Msgs, RecvMsg(i, m) PROVE Asker' = Asker /\ SentRequest' = SentRequest
      <3> DEFINE e == [elem[m] EXCEPT !.fd = fd[i], !.mpx = i]
      <3>1. e.conn = elem[m].conn /\ e.request = elem[m].request /\ elem' = [elem EXCEPT ![m] = e]
        BY <2>2 DEF RecvMsg, TypeOK
      <3> HIDE DEF e
      <3>2. \A n \in Msgs : elem'[n].conn = elem[n].conn /\ elem'[n].request = elem[n].request
        BY <3>1 DEF TypeOK
      <3> QED
        BY <3>2 DEF Asker, SentRequest
    <2> QED
      BY <1>3, <2>1, <2>2
  <1> QED
    BY <1>4, <1>5, PatientKept DEF ServiceVars

LEMMA NextService ==
    ASSUME ProcInv, PatientInv, [Next]_vars
    PROVE  Service!Next \/ UNCHANGED ServiceVars
  <1>0. TypeOK /\ RequestsKnown /\ AuditOnce /\ patient' = patient
    BY PatientKept DEF ProcInv
  <1>1. CASE UNCHANGED vars
    <2>1. UNCHANGED <<elem, answer, stream, patient>>
      BY <1>1 DEF vars, threadVars, clientVars
    <2>2. Told' = Told
      BY <2>1, ToldStays
    <2> QED
      BY <2>1, <2>2 DEF ServiceVars, Asker, SentRequest
  <1>2. CASE ~patient
    BY <1>0, <1>2 DEF Service!Next
  <1>3. CASE patient /\ Alive /\ Next
    <2>1. WaitInv /\ SlotInv
      BY <1>3 DEF PatientInv
    <2>2. CASE \E c \in Conns, m \in Msgs, r \in Requests[patient] : ClientSend(c, m, r)
      BY <1>0, <1>3, <2>2, SendAsks
    <2>3. CASE \E m \in Msgs : Send(m)
      BY <1>0, <1>3, <2>1, <2>3, SendTells
    <2> QED
      BY <1>0, <1>3, <2>1, <2>2, <2>3, OthersStutter
  <1> QED
    BY <1>1, <1>2, <1>3, DeadRests DEF PatientInv

\* Both servers keep the promises of PeerService to clients that wait: an answer goes to
\* the client that asked, although its thread knows it by a descriptor that is reused
\* (elem->fd, dbserver.c:616), at most once, and with a number of its own.
THEOREM PeerServiceImplemented == ASSUME NoStaleMark PROVE Spec => ImplementsService
  <1>1. Init => Service!Init
    BY InitService
  <1>2. ProcInv /\ PatientInv /\ [Next]_vars => [Service!Next]_(Service!vars)
    BY NextService DEF ServiceVars, Service!vars
  <1> QED
    BY <1>1, <1>2, Invariance, PatientInvariance, PTL DEF Spec, ImplementsService, Service!Spec
=============================================================================
