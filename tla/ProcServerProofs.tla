--------------------------- MODULE ProcServerProofs ---------------------------
(***************************************************************************)
(* Proofs about the database server and the bank server, for any number of *)
(* clients, slots and messages: the variables have their types, and no two *)
(* requests have the same answer.                                          *)
(***************************************************************************)
EXTENDS ProcServerProps, FiniteSetTheorems, TLAPS

\* What the numbers that were given out have to do with the counter: the database
\* server has given out none above it, and the bank server's answers are its own.
NumbersBound ==
    /\ Kind = "db" => \A m \in Msgs : answer[m] <= NextAuditNumber
    /\ Kind = "bank" => \A m \in Msgs : answer[m] \in {0, m}

RequestsKnown == patient \in DOMAIN Requests

ProcInv == TypeOK /\ RequestsKnown /\ NumbersBound /\ AuditOnce

\* The steps of the inductive argument below are proved part by part: what most
\* actions leave alone, and where the threads may be.
NumbersKept == UNCHANGED <<answer, NextAuditNumber, patient>>

LEMMA NumbersFrame ==
    ASSUME RequestsKnown, NumbersBound, AuditOnce, NumbersKept
    PROVE  RequestsKnown' /\ NumbersBound' /\ AuditOnce'
  BY DEF RequestsKnown, NumbersBound, AuditOnce, NumbersKept

LEMMA ExitTypes ==
    ASSUME TypeOK, NEW how \in {"SysExit", "crash", "INT", "ended"}, Exit(how)
    PROVE  /\ exited' \in {"no", "SysExit", "crash", "INT", "ended"}
           /\ main' = "exited" /\ handler' = "exited" /\ thread' \in [Msgs -> ThreadPlaces]
  BY DEF Exit, ThreadPlaces

LEMMA GotoTypes ==
    ASSUME TypeOK, NEW m \in Msgs, \E label \in ThreadPlaces : ThreadGoto(m, label)
    PROVE  thread' \in [Msgs -> ThreadPlaces]
  BY DEF TypeOK, ThreadGoto

LEMMA CloseTypes ==
    ASSUME TypeOK, NEW i \in Slots, CloseClient(i)
    PROVE  /\ fd' \in [Slots -> Fds \cup {0}] /\ disconnect' \in [Slots -> BOOLEAN]
           /\ owner' \in [Fds -> Conns \cup {NoConn}]
           /\ server' \in [Conns -> {"none", "backlog", "open", "closed"}]
  BY DEF TypeOK, CloseClient, MarkAfterClose

LEMMA InitInv == Init => ProcInv
  <1> SUFFICES ASSUME Init PROVE ProcInv
    OBVIOUS
  <1>1. TypeOK
    <2>1. stream \in [Conns -> Seq(Msgs)]
      BY DEF Init
    <2>2. elem \in [Msgs -> [conn : Conns \cup {NoConn}, request : {"none", "good", "ctrl", "bad"},
                             fd : Fds \cup {0}, mpx : Slots \cup {0}]]
      BY DEF Init, NoElem
    <2> QED
      BY <2>1, <2>2, ProcAssumption DEF ProcAssumption, Init, TypeOK, ThreadPlaces
  <1>2. RequestsKnown /\ NumbersBound /\ AuditOnce
    BY DEF Init, RequestsKnown, NumbersBound, AuditOnce
  <1> QED
    BY <1>1, <1>2 DEF ProcInv


\* What clients do.
LEMMA ClientInv ==
    ASSUME ProcInv, NEW c \in Conns, ClientStep(c)
    PROVE  ProcInv'
  <1> USE DEF ProcInv
  <1>1. NumbersKept
    BY DEF ClientStep, ClientConnect, ClientHangup, ClientSend, NumbersKept, clientVars, threadVars
  <1>2. TypeOK'
    <2>1. CASE ClientConnect(c)
      BY <2>1 DEF ClientConnect, TypeOK, threadVars, mainVars, flagVars
    <2>2. CASE ClientHangup(c)
      BY <2>2 DEF ClientHangup, TypeOK, slotVars, threadVars, mainVars, flagVars
    <2>3. ASSUME NEW m \in Msgs, NEW request \in Requests[patient], ClientSend(c, m, request)
          PROVE  TypeOK'
      <3>1. request \in {"none", "good", "ctrl", "bad"}
        BY ProcAssumption DEF ProcAssumption, RequestsKnown
      <3>2. thread' \in [Msgs -> ThreadPlaces]
        BY <2>3 DEF ClientSend, TypeOK, ThreadPlaces
      <3>3. elem' \in [Msgs -> [conn : Conns \cup {NoConn}, request : {"none", "good", "ctrl", "bad"},
                                fd : Fds \cup {0}, mpx : Slots \cup {0}]]
        <4> DEFINE e == [NoElem EXCEPT !.conn = c, !.request = request]
        <4>1. e \in [conn : Conns \cup {NoConn}, request : {"none", "good", "ctrl", "bad"},
                     fd : Fds \cup {0}, mpx : Slots \cup {0}]
          BY <3>1 DEF NoElem
        <4>2. elem' = [elem EXCEPT ![m] = e]
          BY <2>3 DEF ClientSend
        <4> HIDE DEF e
        <4> QED
          BY <4>1, <4>2 DEF TypeOK
      <3> QED
        BY <2>3, <3>2, <3>3 DEF ClientSend, TypeOK, slotVars, clientVars, mainVars, flagVars
    <2> QED
      BY <2>1, <2>2, <2>3 DEF ClientStep
  <1> QED
    BY <1>1, <1>2, NumbersFrame

\* What Main does.
LEMMA MainInv ==
    ASSUME ProcInv, MainStep
    PROVE  ProcInv'
  <1> USE DEF ProcInv
  <1>a. ASSUME NEW c \in Conns, NEW f \in Fds, NEW j \in Slots, AcceptClient(c, f, j)
        PROVE  ProcInv'
    <2>1. NumbersKept
      BY <1>a DEF AcceptClient, NumbersKept, threadVars, clientVars
    <2>2. /\ fd' \in [Slots -> Fds \cup {0}] /\ disconnect' \in [Slots -> BOOLEAN]
          /\ owner' \in [Fds -> Conns \cup {NoConn}]
          /\ server' \in [Conns -> {"none", "backlog", "open", "closed"}]
      <3>1. CASE TooManyUsers(Users + 1)
        BY <1>a, <3>1 DEF AcceptClient, TypeOK, MarkAfterClose
      <3>2. CASE ~TooManyUsers(Users + 1)
        BY <1>a, <3>2 DEF AcceptClient, TypeOK
      <3> QED
        BY <3>1, <3>2
    <2>3. TypeOK'
      BY <1>a, <2>2 DEF AcceptClient, TypeOK, threadVars, clientVars, mainVars, flagVars
    <2> QED
      BY <2>1, <2>3, NumbersFrame
  <1>b. ASSUME NEW c \in Conns, Serve(c)
        PROVE  ProcInv'
    <2>1. PICK i \in Slots : fd[i] # 0 /\ (RecvHangup(i) \/ \E m \in Msgs : RecvMsg(i, m))
      BY <1>b DEF Serve
    <2>2. NumbersKept
      BY <2>1 DEF RecvHangup, RecvMsg, NumbersKept, threadVars, clientVars
    <2>3. CASE RecvHangup(i)
      <3>1. TypeOK'
        BY <2>3, CloseTypes DEF RecvHangup, TypeOK, threadVars, clientVars, mainVars, flagVars
      <3> QED
        BY <2>2, <3>1, NumbersFrame
    <2>4. ASSUME NEW m \in Msgs, RecvMsg(i, m)
          PROVE  ProcInv'
      <3>1. thread' \in [Msgs -> ThreadPlaces]
        BY <2>4 DEF RecvMsg, TypeOK, ThreadPlaces
      <3>2. elem' \in [Msgs -> [conn : Conns \cup {NoConn}, request : {"none", "good", "ctrl", "bad"},
                                fd : Fds \cup {0}, mpx : Slots \cup {0}]]
        <4>1. fd[i] \in Fds \cup {0} /\ elem[m] \in [conn : Conns \cup {NoConn},
                   request : {"none", "good", "ctrl", "bad"}, fd : Fds \cup {0}, mpx : Slots \cup {0}]
          BY DEF TypeOK
        <4> DEFINE e == [elem[m] EXCEPT !.fd = fd[i], !.mpx = i]
        <4>2. e \in [conn : Conns \cup {NoConn}, request : {"none", "good", "ctrl", "bad"},
                     fd : Fds \cup {0}, mpx : Slots \cup {0}]
          BY <4>1
        <4>3. elem' = [elem EXCEPT ![m] = e]
          BY <2>4 DEF RecvMsg, TypeOK
        <4> HIDE DEF e
        <4> QED
          BY <4>2, <4>3 DEF TypeOK
      <3>3. TypeOK'
        BY <2>4, <3>1, <3>2 DEF RecvMsg, TypeOK, slotVars, clientVars, mainVars, flagVars
      <3> QED
        BY <2>2, <3>3, NumbersFrame
    <2> QED
      BY <2>1, <2>3, <2>4
  <1>c. ASSUME NEW i \in Slots, DisconnectClient(i) \/ CloseRemaining(i)
        PROVE  ProcInv'
    <2>1. NumbersKept
      BY <1>c DEF DisconnectClient, CloseRemaining, NumbersKept, threadVars, clientVars
    <2>2. CASE CloseClient(i)
      BY <1>c, <2>1, <2>2, CloseTypes, NumbersFrame
         DEF DisconnectClient, CloseRemaining, TypeOK, threadVars, clientVars, mainVars, flagVars
    <2>3. CASE UNCHANGED slotVars
      BY <1>c, <2>1, <2>3, NumbersFrame
         DEF DisconnectClient, CloseRemaining, TypeOK, slotVars, threadVars, clientVars, mainVars, flagVars
    <2> QED
      BY <1>c, <2>2, <2>3 DEF DisconnectClient, CloseRemaining
  <1>d. CASE Poll \/ EndDisconnect \/ EndLoop \/ JoinHandler \/ DestroyMutexes \/ FreeLists
    <2>1. NumbersKept
      BY <1>d DEF Poll, EndDisconnect, EndLoop, JoinHandler, DestroyMutexes, FreeLists,
                  NumbersKept, threadVars, clientVars
    <2>2. TypeOK'
      BY <1>d DEF Poll, EndDisconnect, EndLoop, JoinHandler, DestroyMutexes, FreeLists, TypeOK,
                  slotVars, threadVars, clientVars, mainVars, flagVars
    <2> QED
      BY <2>1, <2>2, NumbersFrame
  <1>e. CASE ReadEvent
    <2>1. NumbersKept
      BY <1>e DEF ReadEvent, NumbersKept, threadVars, clientVars
    <2>2. TypeOK'
      BY <1>e DEF ReadEvent, TypeOK, slotVars, threadVars, clientVars
    <2> QED
      BY <2>1, <2>2, NumbersFrame
  <1>f. CASE EndServer
    <2>1. NumbersKept
      BY <1>f DEF EndServer, NumbersKept, clientVars
    <2>2. TypeOK'
      BY <1>f, ExitTypes DEF EndServer, TypeOK, slotVars, clientVars
    <2> QED
      BY <2>1, <2>2, NumbersFrame
  <1> QED
    BY <1>a, <1>b, <1>c, <1>d, <1>e, <1>f DEF MainStep

\* What the thread of a message does: only ProcessMsg gives out a number.
LEMMA ThreadInv ==
    ASSUME ProcInv, NEW m \in Msgs, ThreadStep(m)
    PROVE  ProcInv'
  <1> USE DEF ProcInv
  <1>a. CASE ProcessMsg(m)
    <2>1. thread' \in [Msgs -> ThreadPlaces]
      <3>1. "remove" \in ThreadPlaces /\ "lock" \in ThreadPlaces
        BY DEF ThreadPlaces
      <3> QED
        BY <1>a, <3>1, GotoTypes DEF ProcessMsg
    <2>2. CASE UNCHANGED <<answer, NextAuditNumber>>
      <3>1. NumbersKept
        BY <1>a, <2>2 DEF ProcessMsg, NumbersKept, clientVars
      <3>2. TypeOK'
        BY <1>a, <2>1, <2>2 DEF ProcessMsg, TypeOK, slotVars, clientVars, mainVars, flagVars
      <3> QED
        BY <3>1, <3>2, NumbersFrame
    <2>3. CASE /\ NextAuditNumber' = CountAudit
               /\ answer' = [answer EXCEPT ![m] = Answer(m)]
      <3>1. Answer(m) \in Nat /\ CountAudit \in Nat
        BY DEF Answer, CountAudit, TypeOK, Msgs
      <3>2. TypeOK'
        BY <1>a, <2>1, <2>3, <3>1 DEF ProcessMsg, TypeOK, slotVars, clientVars, mainVars, flagVars
      <3>3. RequestsKnown'
        BY <1>a DEF ProcessMsg, RequestsKnown, clientVars
      <3>4. CASE Kind = "db"
        <4>1. NextAuditNumber' = NextAuditNumber + 1 /\ answer' = [answer EXCEPT ![m] = NextAuditNumber + 1]
          BY <2>3, <3>4 DEF CountAudit, Answer
        <4>2. \A n \in Msgs : answer[n] \in Nat /\ answer[n] <= NextAuditNumber /\ NextAuditNumber \in Nat
          BY <3>4 DEF NumbersBound, TypeOK
        <4>3. \A n \in Msgs : answer'[n] = IF n = m THEN NextAuditNumber + 1 ELSE answer[n]
          BY <4>1 DEF TypeOK
        <4>4. NumbersBound'
          BY <3>4, <4>1, <4>2, <4>3 DEF NumbersBound
        <4>5. AuditOnce'
          BY <4>2, <4>3 DEF AuditOnce
        <4> QED
          BY <3>2, <3>3, <4>4, <4>5
      <3>5. CASE Kind = "bank"
        <4>1. \A n \in Msgs : answer'[n] = IF n = m THEN m ELSE answer[n]
          BY <2>3, <3>5 DEF Answer, TypeOK
        <4>2. NumbersBound'
          BY <3>5, <4>1 DEF NumbersBound
        <4>3. AuditOnce'
          BY <3>5, <4>2 DEF AuditOnce, NumbersBound
        <4> QED
          BY <3>2, <3>3, <4>2, <4>3
      <3> QED
        BY <3>4, <3>5, ProcAssumption DEF ProcAssumption
    <2> QED
      BY <1>a, <2>2, <2>3 DEF ProcessMsg
  <1>b. CASE LockSend(m) \/ SendReset(m) \/ RemoveElem(m)
    <2>1. NumbersKept
      BY <1>b DEF LockSend, SendReset, RemoveElem, NumbersKept, clientVars
    <2>2. thread' \in [Msgs -> ThreadPlaces]
      BY <1>b DEF LockSend, SendReset, RemoveElem, AfterRemove, ThreadGoto, TypeOK, ThreadPlaces
    <2>3. TypeOK'
      BY <1>b, <2>2 DEF LockSend, SendReset, RemoveElem, TypeOK, slotVars, clientVars, mainVars, flagVars
    <2> QED
      BY <2>1, <2>3, NumbersFrame
  <1>c. CASE Send(m)
    <2>1. NumbersKept
      BY <1>c DEF Send, NumbersKept, clientVars
    <2>2. thread' \in [Msgs -> ThreadPlaces]
      BY <1>c DEF Send, AfterSend, ThreadGoto, TypeOK, ThreadPlaces
    <2>3. stream' \in [Conns -> Seq(Msgs)]
      <3> DEFINE c == owner[elem[m].fd]
      <3>1. CASE stream' = stream
        BY <3>1 DEF TypeOK
      <3>2. CASE stream' = [stream EXCEPT ![c] = Append(@, m)]
        <4>1. \A d \in Conns : stream[d] \in Seq(Msgs) /\ Append(stream[d], m) \in Seq(Msgs)
          BY DEF TypeOK
        <4> QED
          BY <3>2, <4>1 DEF TypeOK
      <3> QED
        BY <1>c, <3>1, <3>2 DEF Send
    <2>4. TypeOK'
      BY <1>c, <2>2, <2>3 DEF Send, TypeOK, slotVars, clientVars, mainVars, flagVars
    <2> QED
      BY <2>1, <2>4, NumbersFrame
  <1>d. CASE SendFails(m) \/ TooLate(m)
    <2>1. NumbersKept
      BY <1>d DEF SendFails, TooLate, NumbersKept, clientVars
    <2>2. TypeOK'
      BY <1>d, ExitTypes DEF SendFails, TooLate, TypeOK, slotVars, clientVars
    <2> QED
      BY <2>1, <2>2, NumbersFrame
  <1>e. CASE MarkClient(m) \/ NotifyMain(m)
    <2>1. NumbersKept
      BY <1>e DEF MarkClient, NotifyMain, NumbersKept, clientVars
    <2>2. thread' \in [Msgs -> ThreadPlaces]
      <3>1. "notify" \in ThreadPlaces /\ "ended" \in ThreadPlaces
        BY DEF ThreadPlaces
      <3> QED
        BY <1>e, <3>1, GotoTypes DEF MarkClient, NotifyMain
    <2>3. disconnect' \in [Slots -> BOOLEAN] /\ event' \in BOOLEAN
      BY <1>e DEF MarkClient, NotifyMain, TypeOK, slotVars, flagVars
    <2>4. TypeOK'
      BY <1>e, <2>2, <2>3 DEF MarkClient, NotifyMain, TypeOK, slotVars, clientVars, mainVars, flagVars
    <2> QED
      BY <2>1, <2>4, NumbersFrame
  <1> QED
    BY <1>a, <1>b, <1>c, <1>d, <1>e DEF ThreadStep

\* What the signal handler does.
LEMMA HandlerInv ==
    ASSUME ProcInv, HandlerStep \/ Interrupts
    PROVE  ProcInv'
  <1> USE DEF ProcInv
  <1>1. NumbersKept
    BY DEF HandlerStep, Interrupts, TermArrives, TermAccepted, TermNotifies, QuitArrives, InterruptArrives,
           NumbersKept, threadVars, clientVars
  <1>2. CASE InterruptArrives
    <2>1. TypeOK'
      BY <1>2, ExitTypes DEF InterruptArrives, TypeOK, slotVars, clientVars
    <2> QED
      BY <1>1, <2>1, NumbersFrame
  <1>3. CASE TermArrives \/ TermAccepted \/ TermNotifies \/ QuitArrives
    <2>1. TypeOK'
      BY <1>3 DEF TermArrives, TermAccepted, TermNotifies, QuitArrives, HandlerGoto, TypeOK,
                  slotVars, threadVars, clientVars, mainVars, flagVars
    <2> QED
      BY <1>1, <2>1, NumbersFrame
  <1> QED
    BY <1>2, <1>3 DEF HandlerStep, Interrupts

\* The inductive invariant holds in every state.
THEOREM Invariance == Spec => []ProcInv
  <1>1. ProcInv /\ [Next]_vars => ProcInv'
    <2> SUFFICES ASSUME ProcInv, [Next]_vars PROVE ProcInv'
      OBVIOUS
    <2>1. CASE UNCHANGED vars
      BY <2>1 DEF vars, slotVars, threadVars, clientVars, mainVars, flagVars, ProcInv, TypeOK,
                  RequestsKnown, NumbersBound, AuditOnce
    <2> QED
      BY <2>1, ClientInv, MainInv, ThreadInv, HandlerInv DEF Next
  <1> QED
    BY <1>1, InitInv, PTL DEF Spec

\* The variables have their types, and the counter never goes below zero.
THEOREM TypeCorrect == Spec => []TypeOK
  <1>1. ProcInv => TypeOK
    BY DEF ProcInv
  <1> QED
    BY <1>1, Invariance, PTL

\* No two requests ever get the same audit number (while they fit in the answer, ProcAssumption),
\* and no two messages to the bank server the same answer.
THEOREM AuditUnique == Spec => []AuditOnce
  <1>1. ProcInv => AuditOnce
    BY DEF ProcInv
  <1> QED
    BY <1>1, Invariance, PTL

-----------------------------------------------------------------------------
(* The number of users.  Only procNewClient takes a slot, and it counts all of *)
(* them when it has taken it.                                                  *)

Taken == Slots \ FreeSlots

LEMMA TakenFinite == IsFiniteSet(Taken)
  <1>1. IsFiniteSet(Slots)
    BY FS_Interval, ProcAssumption DEF ProcAssumption, Slots
  <1> QED
    BY <1>1, FS_Subset DEF Taken

LEMMA UsersFrame ==
    ASSUME UsersBound, UNCHANGED fd
    PROVE  UsersBound'
  BY DEF UsersBound, Users, FreeSlots

LEMMA UsersClose ==
    ASSUME TypeOK, UsersBound, NEW i \in Slots, CloseClient(i)
    PROVE  UsersBound'
  <1>1. Taken' = Taken \ {i}
    BY DEF CloseClient, Taken, FreeSlots, TypeOK
  <1>2. Cardinality(Taken') <= Cardinality(Taken)
    BY <1>1, TakenFinite, FS_Subset
  <1>3. Cardinality(Taken) \in Nat /\ Cardinality(Taken') \in Nat
    BY <1>1, TakenFinite, FS_Subset, FS_CardinalityType
  <1> QED
    BY <1>2, <1>3, ProcAssumption DEF UsersBound, Users, Taken, ProcAssumption

LEMMA UsersAccept ==
    ASSUME TypeOK, UsersBound, NEW c \in Conns, NEW f \in Fds, NEW j \in Slots, AcceptClient(c, f, j)
    PROVE  UsersBound'
  <1>1. CASE TooManyUsers(Users + 1)
    BY <1>1, UsersFrame DEF AcceptClient
  <1>2. CASE ~TooManyUsers(Users + 1)
    <2>1. fd' = [fd EXCEPT ![j] = f] /\ f # 0 /\ j \notin Taken
      BY <1>2 DEF AcceptClient, Least, FreeSlots, Taken, Fds
    <2>2. Taken' = Taken \cup {j}
      BY <2>1 DEF Taken, FreeSlots, TypeOK
    <2>3. Cardinality(Taken') = Cardinality(Taken) + 1
      BY <2>1, <2>2, TakenFinite, FS_AddElement
    <2>4. Cardinality(Taken) \in Nat
      BY TakenFinite, FS_CardinalityType
    <2>5. Cardinality(Taken) + 1 <= MaxUsers
      BY <1>2, <2>4, ProcAssumption DEF TooManyUsers, Users, Taken, ProcAssumption
    <2> QED
      BY <2>3, <2>5 DEF UsersBound, Users, Taken
  <1> QED
    BY <1>1, <1>2

LEMMA UsersStep == TypeOK /\ UsersBound /\ [Next]_vars => UsersBound'
  <1> SUFFICES ASSUME TypeOK, UsersBound, [Next]_vars PROVE UsersBound'
    OBVIOUS
  <1>1. CASE MainStep
    <2>1. ASSUME NEW c \in Conns, Serve(c) PROVE UsersBound'
      <3>1. PICK i \in Slots : RecvHangup(i) \/ \E m \in Msgs : RecvMsg(i, m)
        BY <2>1 DEF Serve
      <3> QED
        BY <3>1, UsersClose, UsersFrame DEF RecvHangup, RecvMsg, slotVars
    <2>2. ASSUME NEW i \in Slots, DisconnectClient(i) \/ CloseRemaining(i) PROVE UsersBound'
      BY <2>2, UsersClose, UsersFrame DEF DisconnectClient, CloseRemaining, slotVars
    <2>3. CASE Poll \/ ReadEvent \/ EndDisconnect \/ EndLoop \/ JoinHandler \/ DestroyMutexes
               \/ FreeLists \/ EndServer
      BY <2>3, UsersFrame DEF Poll, ReadEvent, EndDisconnect, EndLoop, JoinHandler, DestroyMutexes,
           FreeLists, EndServer, slotVars
    <2> QED
      BY <1>1, <2>1, <2>2, <2>3, UsersAccept DEF MainStep
  <1>2. CASE HandlerStep \/ Interrupts
    BY <1>2, UsersFrame DEF HandlerStep, Interrupts, TermArrives, TermAccepted, TermNotifies, QuitArrives,
         InterruptArrives, slotVars
  <1>3. ASSUME NEW m \in Msgs, ThreadStep(m) PROVE UsersBound'
    BY <1>3, UsersFrame DEF ThreadStep, ProcessMsg, LockSend, Send, SendReset, SendFails, RemoveElem,
         MarkClient, NotifyMain, TooLate, slotVars
  <1>4. ASSUME NEW c \in Conns, ClientStep(c) PROVE UsersBound'
    BY <1>4, UsersFrame DEF ClientStep, ClientConnect, ClientHangup, ClientSend, slotVars
  <1>5. CASE UNCHANGED vars
    BY <1>5, UsersFrame DEF vars, slotVars
  <1> QED
    BY <1>1, <1>2, <1>3, <1>4, <1>5 DEF Next

\* There are never more clients than maxUsers, whatever their number and order.
THEOREM UsersLimited == Spec => []UsersBound
  <1>1. Init => UsersBound
    <2>1. ASSUME Init PROVE Cardinality(Taken) = 0
      <3>1. Taken = {}
        BY <2>1 DEF Init, Taken, FreeSlots
      <3> QED
        BY <3>1, FS_EmptySet
    <2> QED
      BY <2>1, ProcAssumption DEF UsersBound, Users, Taken, ProcAssumption
  <1> QED
    BY <1>1, UsersStep, TypeCorrect, PTL DEF Spec
=============================================================================
