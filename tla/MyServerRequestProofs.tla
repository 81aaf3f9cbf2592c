----------------------- MODULE MyServerRequestProofs -----------------------
(***************************************************************************)
(* More proofs about the payment server: the orderly shutdown leaves no    *)
(* thread behind, no wake-up is lost, at most maxUsers clients are served, *)
(* and a client whose card has gone to the bank is never reported as one   *)
(* to retry.  All of them hold for every value of the constants, whatever  *)
(* the clients, the peers, the clock and the signals do.                   *)
(*                                                                         *)
(* Each part is inductive relative to IInv of MyServerProofs: EndInv is    *)
(* about the threads only; CardInv about the slots, their owners and the   *)
(* messages at the bank; UsersBound stands by itself; WakeInv, about the   *)
(* flags, needs EndInv and CardInv besides.                                *)
(***************************************************************************)
EXTENDS MyServerProofs, FiniteSetTheorems

ThreadTypes == pc \in [Threads -> Labels] /\ at \in [Threads -> Places]

LEMMA Types ==
    IInv => /\ ThreadTypes /\ SlotsOK
            /\ \A i \in Slots : ClientInfo[i] \in InfoType /\ MainPoll[i] \in PollType
BY SlotParts DEF IInv, TypeOK, ThreadsOK, ThreadTypes

\* The threads by name.
LEMMA ThreadNames ==
    /\ {"Main", "Timer", "SignalHandler", "DbSend", "DbRecv", "BankSend", "BankRecv"} = Threads
    /\ Sender("db") = "DbSend" /\ Sender("bank") = "BankSend"
    /\ Receiver("db") = "DbRecv" /\ Receiver("bank") = "BankRecv"
    /\ Waiter("timer") = "Timer" /\ Waiter("db") = "DbSend" /\ Waiter("bank") = "BankSend"
    /\ Peers = {"db", "bank"}
BY DEF Threads, Sender, Receiver, Waiter, Peers
-----------------------------------------------------------------------------
(***************************************************************************)
(* The end of the threads.                                                 *)
(***************************************************************************)

LEMMA EndInit == Init => EndInv
<1> SUFFICES ASSUME Init PROVE EndInv
  OBVIOUS
<1>1. \A t \in Threads : pc[t] # "ended" /\ pc[t] # "wake" /\ pc[t] # "join"
  BY DEF Init, Threads
<1> QED
  BY <1>1, ThreadNames DEF EndInv, JoinedInOrder, SenderLast

\* Whom endServer joins.
LEMMA EndingNames ==
    \A k \in 1..4 : /\ Ending(k) \in Threads /\ Ending(k) # "Main"
                   /\ \A p \in Peers : Ending(k) # Receiver(p)
<1>1. \A k \in 1..4 : Ending(k) \in {"DbSend", "BankSend", "Timer", "SignalHandler"}
  BY ThreadNames DEF Ending, EndOrder
<1> QED
  BY <1>1 DEF Threads, Receiver

\* A step that lets who has ended rest, and in which Main does not come to endServer.
LEMMA EndKept ==
    ASSUME EndInv, ThreadTypes,
           \A t \in Threads : pc[t] = "ended" => pc'[t] = "ended",
           \A p \in Peers : pc'[Sender(p)] = "ended" => pc'[Receiver(p)] \in {"none", "ended"},
           pc'["Main"] \in {"wake", "join"}
              => pc["Main"] \in {"wake", "join"} /\ at'["Main"] = at["Main"]
    PROVE  EndInv'
<1>1. \A k \in 1..4 : Ending(k) \in Threads
  BY EndingNames
<1>2. JoinedInOrder'
  BY <1>1 DEF EndInv, JoinedInOrder
<1> QED
  BY <1>2 DEF EndInv, SenderLast

\* Thread t, which is not Main, goes to a label; only the Timer and the SignalHandler
\* end like that.
LEMMA EndGoto ==
    ASSUME EndInv, ThreadTypes, NEW t \in Threads \ {"Main"}, NEW l, Goto(t, l),
           pc[t] \notin {"ended", "none"}, l # "ended" \/ t \in {"Timer", "SignalHandler"}, at'["Main"] = at["Main"]
    PROVE  EndInv'
<1>1. \A u \in Threads : u # t => pc'[u] = pc[u]
  BY DEF Goto, ThreadTypes
<1>2. pc'[t] = l
  BY DEF Goto, ThreadTypes
<1>3. \A u \in Threads : pc[u] = "ended" => pc'[u] = "ended"
  BY <1>1
<1>4. \A p \in Peers : pc'[Sender(p)] = "ended" => pc'[Receiver(p)] \in {"none", "ended"}
  BY <1>1, <1>2, ThreadNames DEF EndInv, SenderLast
<1> QED
  BY <1>1, <1>3, <1>4, EndKept, ThreadNames

\* Main goes on, short of endServer.
LEMMA EndMain ==
    ASSUME EndInv, ThreadTypes, NEW l \in Labels \ {"wake", "join"}, Goto("Main", l)
    PROVE  EndInv'
<1>1. \A u \in Threads : u # "Main" => pc'[u] = pc[u]
  BY DEF Goto, ThreadTypes
<1>2. pc'["Main"] = l
  BY ThreadNames DEF Goto, ThreadTypes
<1>3. \A u \in Threads : pc[u] = "ended" /\ u # "Main" => pc'[u] = "ended"
  BY <1>1
<1>4. JoinedInOrder'
  BY <1>2 DEF JoinedInOrder
<1>5. SenderLast'
  BY <1>1, ThreadNames DEF EndInv, SenderLast
<1> QED
  BY <1>4, <1>5 DEF EndInv

LEMMA EndExit == ASSUME NEW how, Exit(how) PROVE EndInv'
<1>1. \A t \in Threads : pc'[t] = "exited"
  BY DEF Exit
<1> QED
  BY <1>1, ThreadNames DEF EndInv, JoinedInOrder, SenderLast

LEMMA EndUnchanged ==
    ASSUME EndInv, UNCHANGED pc, at'["Main"] = at["Main"] PROVE EndInv'
BY DEF EndInv, JoinedInOrder, SenderLast

\* set...WorkPending moves its caller on and may wake the thread that waits.
LEMMA WorkPendingMoves ==
    ASSUME ThreadTypes, NEW t \in Threads, NEW m \in {"timer", "db", "bank"}, NEW s, NEW l,
           SetWorkPending(t, m, s, l)
    PROVE  /\ at' = at
           /\ \A u \in Threads : u # t /\ u # Waiter(m) => pc'[u] = pc[u]
           /\ pc'[t] \in {pc[t], l} \/ (t = Waiter(m) /\ pc'[t] = "condwait")
           /\ t # Waiter(m) => \/ pc'[Waiter(m)] = pc[Waiter(m)]
                               \/ pc[Waiter(m)] = "condwait" /\ pc'[Waiter(m)] = "wait"
<1>1. at' = at /\ Waiter(m) \in Threads
  BY ThreadNames DEF SetWorkPending
<1>2. CASE t = Waiter(m)
  <2>1. pc' = pc \/ \E x \in {"condwait", l} : pc' = [pc EXCEPT ![t] = x]
    BY <1>2 DEF SetWorkPending
  <2> QED
    BY <1>1, <1>2, <2>1 DEF ThreadTypes
<1>3. CASE t # Waiter(m)
  <2>1. \/ pc' = pc
        \/ pc' = [pc EXCEPT ![t] = l, ![Waiter(m)] = pc[Waiter(m)]]
        \/ pc[Waiter(m)] = "condwait" /\ pc' = [pc EXCEPT ![t] = l, ![Waiter(m)] = "wait"]
    BY <1>1, <1>3 DEF SetWorkPending, ThreadTypes
  <2> QED
    BY <1>1, <1>3, <2>1 DEF ThreadTypes
<1> QED
  BY <1>2, <1>3

\* set...WorkPending by a thread that has not ended.
LEMMA EndWorkPending ==
    ASSUME EndInv, ThreadTypes, NEW t \in Threads, NEW m \in {"timer", "db", "bank"}, NEW s,
           NEW l \in Labels \ {"wake", "join", "ended"}, pc[t] \in {"swp", "swpTimer", "swpDb"},
           SetWorkPending(t, m, s, l)
    PROVE  EndInv'
<1>1. at' = at /\ Waiter(m) \in {"Timer", "DbSend", "BankSend"}
  BY WorkPendingMoves, Names
<1>2. \A u \in Threads : pc'[u] = pc[u] \/ (pc[u] # "ended" /\ pc'[u] \in {l, "wait", "condwait"})
  BY <1>1, WorkPendingMoves
<1>3. \A p \in Peers : pc[Receiver(p)] = "none" => pc'[Receiver(p)] = "none"
  <2>1. \A p \in Peers : Receiver(p) \in Threads /\ Receiver(p) # Waiter(m)
    BY <1>1, ThreadNames
  <2> QED
    BY <2>1, WorkPendingMoves
<1>4. \A p \in Peers : pc'[Sender(p)] = "ended" => pc'[Receiver(p)] \in {"none", "ended"}
  BY <1>2, <1>3, ThreadNames DEF EndInv, SenderLast
<1>5. pc'["Main"] \in {"wake", "join"} => pc["Main"] \in {"wake", "join"}
  BY <1>2, ThreadNames
<1>6. \A u \in Threads : pc[u] = "ended" => pc'[u] = "ended"
  BY <1>2
<1> QED
  BY <1>1, <1>4, <1>5, <1>6, EndKept

LEMMA EndMainStep ==
    ASSUME EndInv, ThreadTypes, back \in {"poll", "discon", "closeAll"},
           MainStep \/ \E c \in Conns : AcceptClient(c)
    PROVE  EndInv'
<1>0. "Main" \in Threads /\ {"poll", "discon", "closeAll"} \subseteq Labels \ {"wake", "join", "ended"}
  BY DEF Threads, Labels
<1>1. CASE \E c \in Conns : AcceptClient(c)
  BY <1>1, EndMain DEF AcceptClient, Labels
<1>2. CASE CountUsers \/ DisconnectClients \/ ReadEvent \/ CloseClient
  BY <1>2, EndMain DEF CountUsers, DisconnectClients, ReadEvent, DisconnectNext, CloseClient, Labels
<1>3. CASE MainSetsWorkPending
  BY <1>0, <1>3, EndWorkPending DEF MainSetsWorkPending
<1>4. CASE LeaveLoop
  BY <1>4, EndMain, EndExit DEF LeaveLoop, Labels
<1>5. CASE CloseAll
  <2>1. ASSUME NEW j \in Slots, Goto("Main", "close") PROVE EndInv'
    BY <2>1, EndMain DEF Labels
  <2>2. ASSUME Goto("Main", "wake"), AtSlot("Main", 1) PROVE EndInv'
    <3>1. \A u \in Threads : u # "Main" => pc'[u] = pc[u]
      BY <2>2 DEF Goto, ThreadTypes
    <3>2. pc'["Main"] = "wake" /\ at'["Main"] = 1
      BY <1>0, <2>2 DEF Goto, AtSlot, ThreadTypes
    <3> QED
      BY <3>1, <3>2, ThreadNames DEF EndInv, JoinedInOrder, SenderLast
  <2> QED
    BY <1>5, <2>1, <2>2 DEF CloseAll
<1>6. CASE WakeThread
  <2> DEFINE u == Waiter(EndOrder[at["Main"]])
  <2>1. u \in {"Timer", "DbSend", "BankSend"}
    BY DEF Waiter, Sender
  <2>2. pc' = [pc EXCEPT !["Main"] = "join", ![u] = IF pc[u] = "condwait" THEN "wait" ELSE pc[u]]
    BY <1>0, <1>6, <2>1, ThreadNames DEF WakeThread, ThreadTypes
  <2> HIDE DEF u
  <2>3. \A t \in Threads : t # "Main" => pc'[t] = pc[t] \/ (pc[t] = "condwait" /\ pc'[t] = "wait")
    BY <2>1, <2>2 DEF ThreadTypes
  <2>4. \A t \in Threads : pc[t] = "ended" => pc'[t] = "ended"
    BY <1>6, <2>3 DEF WakeThread
  <2>5. \A p \in Peers : pc'[Sender(p)] = "ended" => pc'[Receiver(p)] \in {"none", "ended"}
    BY <2>3, ThreadNames DEF EndInv, SenderLast
  <2> QED
    BY <1>6, <2>4, <2>5, EndKept DEF WakeThread
<1>9. CASE KillHandler
  <2>1. \A t \in Threads : t # "Main" => pc'[t] = pc[t]
    BY <1>9 DEF KillHandler, Goto, ThreadTypes
  <2>2. \A p \in Peers : pc'[Sender(p)] = "ended" => pc'[Receiver(p)] \in {"none", "ended"}
    BY <2>1, ThreadNames DEF EndInv, SenderLast
  <2>3. \A t \in Threads : pc[t] = "ended" => pc'[t] = "ended"
    BY <1>9, <2>1 DEF KillHandler
  <2> QED
    BY <1>9, <2>2, <2>3, EndKept DEF KillHandler
<1>7. CASE JoinThread
  <2>1. CASE at["Main"] < 4
    <3>1. PICK k \in 1..3 : k = at["Main"]
      BY <1>7, <2>1 DEF JoinThread, EndInv, JoinedInOrder
    <3>2. \A t \in Threads : t # "Main" => pc'[t] = pc[t]
      BY <1>7, <2>1 DEF JoinThread, Goto, ThreadTypes
    <3>3. at'["Main"] = k + 1
      BY <1>0, <1>7, <2>1, <3>1 DEF JoinThread, AtSlot, ThreadTypes
    <3>4. \A j \in 1..4 : Ending(j) \in Threads /\ Ending(j) # "Main"
      BY EndingNames
    <3>5. \A j \in 1..k : pc'[Ending(j)] = "ended"
      BY <1>7, <3>1, <3>2, <3>4 DEF JoinThread, EndInv, JoinedInOrder
    <3>6. JoinedInOrder'
      BY <3>3, <3>5 DEF JoinedInOrder
    <3>7. SenderLast'
      BY <3>2, ThreadNames DEF EndInv, SenderLast
    <3> QED
      BY <3>6, <3>7 DEF EndInv
  <2>2. CASE ~(at["Main"] < 4)
    BY <1>7, <2>2, EndExit DEF JoinThread
  <2> QED
    BY <2>1, <2>2
<1>8. CASE \E i \in Slots : BlockOnClient(i) \/ RecvStep(i) \/ SendResponse(i)
  <2>1. \E l \in {"poll", "close", "swpDb", "blockedRecv", "blockedSend"} : Goto("Main", l)
    BY <1>8 DEF BlockOnClient, SendResponse, RecvStep, RecvHangup, RecvOverLimit, RecvControl,
                RecvInvalid, RecvCompletion, RecvBankRequest
  <2> QED
    BY <2>1, EndMain DEF Labels
<1> QED
  BY <1>1, <1>2, <1>3, <1>4, <1>5, <1>6, <1>7, <1>8, <1>9 DEF MainStep, MainGoesOn

LEMMA EndSenderStep ==
    ASSUME EndInv, ThreadTypes, NEW p \in Peers, SenderStep(p) PROVE EndInv'
<1> DEFINE t == Sender(p)
<1>0. t \in Threads \ {"Main"} /\ t # "Timer" /\ p \in {"timer", "db", "bank"} /\ "Main" \in Threads
  BY ThreadNames
<1>1. CASE Connect(p)
  <2>1. CASE OrderlyShutdown
    BY <1>0, <1>1, <2>1, EndGoto DEF Connect, Goto
  <2>2. CASE ~OrderlyShutdown
    <3>1. \A u \in Threads : u # t /\ u # Receiver(p) => pc'[u] = pc[u]
      BY <1>0, <1>1, <2>2 DEF Connect, ThreadTypes
    <3>2. pc'[t] = "swp"
      BY <1>0, <1>1, <2>2, ThreadNames DEF Connect, ThreadTypes
    <3>3. SenderLast'
      BY <3>1, <3>2, ThreadNames DEF EndInv, SenderLast
    <3>4. pc["Main"] = pc'["Main"] /\ at' = at
      BY <1>0, <1>1, <3>1, ThreadNames DEF Connect
    <3>5. \A k \in 1..4 : Ending(k) \in Threads /\ \A q \in Peers : Ending(k) # Receiver(q)
      BY EndingNames
    <3>6. \A k \in 1..4 : pc[Ending(k)] = "ended" => pc'[Ending(k)] = "ended"
      BY <1>1, <3>1, <3>5 DEF Connect
    <3>7. JoinedInOrder'
      BY <3>4, <3>6 DEF EndInv, JoinedInOrder
    <3> QED
      BY <3>3, <3>7 DEF EndInv
  <2> QED
    BY <2>1, <2>2
<1>2. CASE SenderSetsWorkPending(p)
  BY <1>0, <1>2, EndWorkPending DEF SenderSetsWorkPending, Labels
<1>3. CASE SendFails(p)
  BY <1>3, EndExit DEF SendFails
<1>4. CASE SenderShutdown(p)
  BY <1>0, <1>4, EndExit, EndGoto DEF SenderShutdown
<1>5. CASE SenderJoin(p)
  <2>1. \A u \in Threads : u # t => pc'[u] = pc[u]
    BY <1>5 DEF SenderJoin, Goto, ThreadTypes
  <2>2. pc[t] = "joining" /\ pc'[t] = "ended" /\ pc[Receiver(p)] \in {"none", "ended"} /\ at' = at
    BY <1>0, <1>5 DEF SenderJoin, Goto, ThreadTypes
  <2>3. \A q \in Peers : Receiver(q) \in Threads /\ Receiver(q) # t
    BY ThreadNames
  <2>4. \A q \in Peers : pc'[Sender(q)] = "ended" => pc'[Receiver(q)] \in {"none", "ended"}
    BY <2>1, <2>2, <2>3, ThreadNames DEF EndInv, SenderLast
  <2> QED
    BY <1>0, <2>1, <2>2, <2>4, EndKept
<1>6. CASE SenderWait(p) \/ SenderScan(p) \/ SenderLock(p) \/ SendMsg(p) \/ SendReset(p) \/ Sent(p) \/ SenderDown(p)
  <2>1. \E l : Goto(t, l) /\ l \in {"join", "down", "scan", "condwait", "swp", "send", "lock", "sent", "connect"}
    BY <1>6 DEF SenderWait, SenderScan, SenderLock, LockAndCheck, SendMsg, SendReset, Sent, SenderDown, AfterSend
  <2>2. pc[t] \notin {"ended", "none"}
    BY <1>6 DEF SenderWait, SenderScan, SenderLock, LockAndCheck, SendMsg, SendReset, Sent, SenderDown
  <2>3. at' = at \/ \E n : AtSlot(t, n)
    BY <1>6 DEF SenderWait, SenderScan, SenderLock, LockAndCheck, SendMsg, SendReset, Sent, SenderDown
  <2>4. at'["Main"] = at["Main"]
    BY <1>0, <2>3 DEF AtSlot, ThreadTypes
  <2> QED
    BY <1>0, <2>1, <2>2, <2>4, EndGoto
<1> QED
  BY <1>1, <1>2, <1>3, <1>4, <1>5, <1>6 DEF SenderStep

LEMMA EndReceiverStep ==
    ASSUME EndInv, ThreadTypes, NEW p \in Peers, ReceiverStep(p) PROVE EndInv'
<1> DEFINE t == Receiver(p)
<1>0. /\ t \in Threads \ {"Main"} /\ t # "Timer" /\ "Main" \in Threads
      /\ {"DbRecv", "BankRecv"} \subseteq Threads \ {"Main", "Timer"}
  BY ThreadNames
<1>1. CASE DbReceiverSetsWorkPending
  BY <1>0, <1>1, EndWorkPending DEF DbReceiverSetsWorkPending, Labels
<1>2. CASE ReceiverEnds(p)
  <2>1. \A u \in Threads : u # t => pc'[u] = pc[u] \/ (pc[u] = "condwait" /\ pc'[u] = "wait")
    BY <1>0, <1>2 DEF ReceiverEnds, ThreadTypes
  <2>2. t # Sender(p) /\ Sender(p) \in Threads
    BY ThreadNames
  <2>3. pc'[t] = "ended" /\ at' = at
    BY <1>0, <1>2, <2>2 DEF ReceiverEnds, ThreadTypes
  <2>4. \A u \in Threads : pc[u] = "ended" => pc'[u] = "ended"
    BY <2>1, <2>3
  <2>5. \A q \in Peers : pc'[Sender(q)] = "ended" => pc'[Receiver(q)] \in {"none", "ended"}
    BY <2>1, <2>3, ThreadNames DEF EndInv, SenderLast
  <2>6. pc'["Main"] \in {"wake", "join"} => pc["Main"] \in {"wake", "join"}
    BY <1>0, <2>1
  <2> QED
    BY <2>3, <2>4, <2>5, <2>6, EndKept
<1>3. ASSUME NEW u \in {"DbRecv", "BankRecv"}, NEW l \in {"lock", "store", "swp", "recv", "closing"},
             Goto(u, l), pc[u] \notin {"ended", "none"}, at' = at \/ \E n : AtSlot(u, n)
      PROVE  EndInv'
  <2>1. at'["Main"] = at["Main"]
    BY <1>0, <1>3 DEF AtSlot, ThreadTypes
  <2> QED
    BY <1>0, <1>3, <2>1, EndGoto
<1>4. CASE StoreAudit \/ StoreVerdict
  BY <1>3, <1>4 DEF StoreAudit, StoreVerdict
<1>5. CASE Receive(p) \/ ReceiverLock(p) \/ ReceiverHangup(p)
  <2>1. t \in {"DbRecv", "BankRecv"} /\ AfterRecv(p) \in {"swp", "recv"}
    BY Names DEF AfterRecv
  <2> QED
    BY <1>3, <1>5, <2>1 DEF Receive, ReceiverLock, LockAndCheck, ReceiverHangup
<1> QED
  BY <1>1, <1>2, <1>4, <1>5 DEF ReceiverStep

LEMMA EndTimerStep == ASSUME EndInv, ThreadTypes, TimerStep PROVE EndInv'
<1>0. "Timer" \in Threads \ {"Main"} /\ "Main" \in Threads
  BY ThreadNames
<1>1. CASE TimerSetsWorkPending
  BY <1>0, <1>1, EndWorkPending DEF TimerSetsWorkPending, Labels
<1>2. CASE TimerWait \/ TimerPass \/ TimerScan \/ TimerLock \/ TimerMark
  <2>1. \E l : Goto("Timer", l)
    BY <1>2 DEF TimerWait, TimerPass, TimerScan, TimerScanFrom, TimerLock, LockAndCheck, TimerMark
  <2>2. pc["Timer"] \notin {"ended", "none"}
    BY <1>2 DEF TimerWait, TimerPass, TimerScan, TimerLock, LockAndCheck, TimerMark
  <2>3. at' = at \/ \E n : AtSlot("Timer", n)
    BY <1>2 DEF TimerWait, TimerPass, TimerScan, TimerScanFrom, TimerLock, LockAndCheck, TimerMark
  <2>4. at'["Main"] = at["Main"]
    BY <1>0, <2>3 DEF AtSlot, ThreadTypes
  <2> QED
    BY <1>0, <2>1, <2>2, <2>4, EndGoto
<1> QED
  BY <1>1, <1>2 DEF TimerStep

LEMMA EndStep == IInv /\ EndInv /\ [Next]_vars => EndInv'
<1> SUFFICES ASSUME IInv, EndInv, [Next]_vars PROVE EndInv'
  OBVIOUS
<1>0. ThreadTypes /\ back \in {"poll", "discon", "closeAll"}
  BY Types DEF IInv, TypeOK, ThreadsOK
<1>1. CASE ServerStep
  <2>1. CASE TermAccepted
    BY <1>0, <2>1, EndGoto, ThreadNames DEF TermAccepted
  <2>2. ASSUME NEW t \in Threads, LockDestroyed(t) PROVE EndInv'
    BY <2>2, EndExit DEF LockDestroyed
  <2>3. CASE QuitArrives
    BY <1>0, <2>3, EndGoto, ThreadNames DEF QuitArrives
  <2> QED
    BY <1>0, <1>1, <2>1, <2>2, <2>3, EndMainStep, EndTimerStep, EndSenderStep, EndReceiverStep DEF ServerStep
<1>2. CASE Environment
  <2>1. CASE TermArrives \/ IntArrives
    BY <1>0, <2>1, EndGoto, EndExit, ThreadNames DEF TermArrives, IntArrives
  <2>2. CASE \/ \E i \in Slots : TimePasses(i)
             \/ \E p \in Peers : PeerDown(p) \/ PeerUp(p)
             \/ \E c \in Conns, k \in {"Bank", "Ctrl", "Bad"} :
                  ClientContinues(c) \/ ClientHangup(c) \/ ClientRequest(c, k)
    BY <2>2, EndUnchanged DEF TimePasses, PeerDown, PeerUp, ClientContinues, ClientHangup,
                              ClientRequest, serverVars, threadVars
  <2> QED
    BY <1>0, <1>2, <2>1, <2>2, EndMainStep DEF Environment
<1>3. CASE AtRest \/ UNCHANGED vars
  BY <1>3, EndUnchanged DEF AtRest, vars, threadVars
<1> QED
  BY <1>1, <1>2, <1>3 DEF Next

\* Only endServer ends the process in order.
LEMMA OrderlyEnd == ASSUME [Next]_vars, exited = "no", exited' = "orderly" PROVE JoinThread
<1>1. ASSUME NEW how, Exit(how), how # "orderly" PROVE FALSE
  BY <1>1 DEF Exit
<1>2. ASSUME UNCHANGED exited PROVE FALSE
  BY <1>2
<1>3. ASSUME NEW p \in Peers, SenderStep(p) \/ ReceiverStep(p) PROVE FALSE
  <2>1. UNCHANGED exited \/ Exit("SysExit") \/ Exit("crash")
    <3>1. CASE SenderStep(p)
      BY <3>1 DEF SenderStep, Connect, SenderSetsWorkPending, SetWorkPending, SenderWait, SenderScan,
                  SenderLock, LockAndCheck, SendMsg, SendReset, SendFails, Sent, SenderDown,
                  SenderShutdown, SenderJoin, flagVars
    <3>2. CASE ReceiverStep(p)
      BY <3>2 DEF ReceiverStep, Receive, ReceiverLock, LockAndCheck, ReceiverHangup, ReceiverEnds, StoreAudit,
                  DbReceiverSetsWorkPending, SetWorkPending, StoreVerdict, flagVars
    <3> QED
      BY <1>3, <3>1, <3>2
  <2> QED
    BY <1>1, <1>2, <2>1
<1>4. CASE TimerStep
  BY <1>2, <1>4 DEF TimerStep, TimerWait, TimerPass, TimerScan, TimerScanFrom, TimerLock, LockAndCheck,
                    TimerMark, TimerSetsWorkPending, SetWorkPending, flagVars
<1>5. CASE \E i \in Slots : BlockOnClient(i) \/ RecvStep(i) \/ SendResponse(i)
  BY <1>2, <1>5 DEF BlockOnClient, SendResponse, RecvStep, RecvHangup, RecvOverLimit, RecvControl,
                    RecvInvalid, RecvCompletion, RecvBankRequest, Receives, flagVars
<1>6. CASE ReadEvent \/ (MainGoesOn /\ ~JoinThread) \/ \E c \in Conns : AcceptClient(c)
  BY <1>1, <1>2, <1>6 DEF ReadEvent, DisconnectNext, MainGoesOn, CountUsers, DisconnectClients, CloseClient,
                          MainSetsWorkPending, SetWorkPending, LeaveLoop, CloseAll, WakeThread,
                          KillHandler, AcceptClient, flagVars
<1>7. CASE \/ TermAccepted \/ QuitArrives \/ TermArrives \/ IntArrives \/ \E t \in Threads : LockDestroyed(t)
  BY <1>1, <1>2, <1>7 DEF TermAccepted, QuitArrives, TermArrives, IntArrives, LockDestroyed, flagVars
<1>8. CASE \/ \E i \in Slots : TimePasses(i)
           \/ \E p \in Peers : PeerDown(p) \/ PeerUp(p)
           \/ \E c \in Conns, k \in {"Bank", "Ctrl", "Bad"} :
                ClientContinues(c) \/ ClientHangup(c) \/ ClientRequest(c, k)
  BY <1>2, <1>8 DEF TimePasses, PeerDown, PeerUp, ClientContinues, ClientHangup, ClientRequest,
                    serverVars, flagVars
<1>9. CASE AtRest \/ UNCHANGED vars
  BY <1>2, <1>9 DEF AtRest, vars, flagVars
<1> QED
  BY <1>3, <1>4, <1>5, <1>6, <1>7, <1>8, <1>9 DEF Next, ServerStep, Environment, MainStep

\* When the server deletes its lock file at the end of an orderly shutdown, the
\* Timer, every sending and receiving thread and the SignalHandler have ended:
\* endServer joins the Timer, the senders and the SignalHandler, and the senders have
\* joined the receivers.
THEOREM NobodyLeft == Spec => NoThreadLeft
<1>1. IInv /\ EndInv /\ [Next]_vars =>
        (exited' = "orderly" /\ exited = "no"
           => /\ \A t \in {"Timer", "DbSend", "BankSend", "SignalHandler"} : pc[t] = "ended"
              /\ \A p \in Peers : pc[Receiver(p)] \in {"none", "ended"})
  <2> SUFFICES ASSUME IInv, EndInv, [Next]_vars, exited' = "orderly", exited = "no"
               PROVE  /\ \A t \in {"Timer", "DbSend", "BankSend", "SignalHandler"} : pc[t] = "ended"
                      /\ \A p \in Peers : pc[Receiver(p)] \in {"none", "ended"}
    OBVIOUS
  <2>1. JoinThread
    BY OrderlyEnd
  <2>2. at["Main"] = 4
    BY <2>1 DEF JoinThread, EndInv, JoinedInOrder
  <2>3. \A k \in 1..4 : pc[Ending(k)] = "ended"
    BY <2>1, <2>2 DEF JoinThread, EndInv, JoinedInOrder
  <2>4. /\ pc["Timer"] = "ended" /\ pc["DbSend"] = "ended" /\ pc["BankSend"] = "ended"
        /\ pc["SignalHandler"] = "ended"
    BY <2>3, ThreadNames DEF Ending, EndOrder
  <2> QED
    BY <2>4, ThreadNames DEF EndInv, SenderLast
<1> QED
  BY <1>1, Invariance, EndInit, EndStep, PTL DEF Spec, NoThreadLeft
-----------------------------------------------------------------------------
(***************************************************************************)
(* What a step does to a slot.                                             *)
(***************************************************************************)

\* Thread t neither enters a critical section nor changes its slot in one.
LEMMA HandsKept ==
    ASSUME NEW t \in Threads,
           pc'[t] \notin Critical \/ (pc[t] \in Critical /\ at'[t] = at[t])
    PROVE  InHand(t)' \subseteq InHand(t)
BY DEF InHand

\* Who is in a critical section of slot i holds its mutex.
LEMMA HandHolds ==
    ASSUME LockInv, NEW t \in Threads, NEW i \in InHand(t) PROVE i \in Slots /\ mutex[i] = t
BY DEF LockInv, MutexHeld, HoldsMutex, InHand

\* The stage a slot is in when a sending or receiving thread takes it in hand.
EntersAt(t) == CASE t = "DbSend" -> "DB_SEND" [] t = "BankSend" -> "BANK_SEND"
                 [] t = "DbRecv" -> "DB_RECV" [] t = "BankRecv" -> "BANK_RECV"
PeerThreads == {"DbSend", "DbRecv", "BankSend", "BankRecv"}
Enters(t) == /\ UNCHANGED <<slotVars, clientVars, charged>>
             /\ \A i \in InHand(t)' : ClientInfo[i].procStat = EntersAt(t)

LEMMA HandStep ==
    ASSUME IInv, [Next]_vars
    PROVE  \A t \in PeerThreads : InHand(t)' \subseteq InHand(t) \/ Enters(t)
<1>0. ThreadTypes /\ PeerThreads \subseteq Threads \ {"Main", "Timer", "SignalHandler"}
      /\ {"Main", "Timer", "SignalHandler"} \subseteq Threads
  BY Types, ThreadNames DEF PeerThreads
<1>1. ASSUME \A t \in PeerThreads : pc'[t] \notin Critical \/ (pc[t] = pc'[t] /\ at'[t] = at[t])
      PROVE  \A t \in PeerThreads : InHand(t)' \subseteq InHand(t)
  BY <1>0, <1>1, HandsKept
<1>2. ASSUME NEW u \in Threads \ PeerThreads, NEW l, Goto(u, l), at' = at \/ \E n : AtSlot(u, n)
      PROVE  \A t \in PeerThreads : InHand(t)' \subseteq InHand(t)
  <2>1. \A t \in PeerThreads : pc[t] = pc'[t] /\ at'[t] = at[t]
    BY <1>0, <1>2 DEF Goto, AtSlot, ThreadTypes
  <2> QED
    BY <1>1, <2>1
<1>3. ASSUME NEW how, Exit(how) PROVE \A t \in PeerThreads : InHand(t)' \subseteq InHand(t)
  BY <1>0, <1>1, <1>3 DEF Exit, Critical
<1>4. ASSUME NEW t \in Threads, NEW m \in {"timer", "db", "bank"}, NEW s,
             NEW l \in {"poll", "discon", "closeAll", "wait", "recv"}, SetWorkPending(t, m, s, l)
      PROVE  \A u \in PeerThreads : InHand(u)' \subseteq InHand(u)
  <2>1. at' = at /\ \A u \in Threads : pc'[u] = pc[u] \/ pc'[u] \in {l, "wait", "condwait"}
    BY <1>0, <1>4, WorkPendingMoves
  <2>2. l \notin Critical /\ "wait" \notin Critical /\ "condwait" \notin Critical
    BY DEF Critical
  <2> QED
    BY <1>0, <1>1, <2>1, <2>2
<1>5. CASE MainStep \/ \E c \in Conns : AcceptClient(c)
  <2>1. "Main" \in Threads \ PeerThreads
    BY <1>0
  <2>2. CASE MainSetsWorkPending
    BY <1>0, <1>4, <2>2 DEF MainSetsWorkPending, IInv, TypeOK, ThreadsOK
  <2>3. CASE WakeThread
    <3>1. Waiter(EndOrder[at["Main"]]) \in {"Timer", "DbSend", "BankSend"}
      BY DEF Waiter, Sender
    <3>2. \A t \in Threads : pc'[t] = pc[t] \/ pc'[t] \in {"join", "wait"}
      BY <2>3, <3>1, <1>0 DEF WakeThread, ThreadTypes
    <3> QED
      BY <1>0, <1>1, <2>3, <3>2 DEF WakeThread, Critical
  <2>4. CASE LeaveLoop \/ KillHandler \/ JoinThread
    BY <1>2, <1>3, <2>1, <2>4 DEF LeaveLoop, KillHandler, JoinThread
  <2>5. CASE \/ CountUsers \/ DisconnectClients \/ CloseClient \/ CloseAll \/ ReadEvent
             \/ \E c \in Conns : AcceptClient(c)
    BY <1>2, <2>1, <2>5 DEF CountUsers, DisconnectClients, DisconnectNext, CloseClient, CloseAll, ReadEvent,
                            AcceptClient
  <2>6. CASE \E i \in Slots : BlockOnClient(i) \/ RecvStep(i) \/ SendResponse(i)
    <3>1. (\E l : Goto("Main", l)) /\ \E n : AtSlot("Main", n)
      BY <2>6 DEF BlockOnClient, SendResponse, RecvStep, RecvHangup, RecvOverLimit, RecvControl,
                  RecvInvalid, RecvCompletion, RecvBankRequest
    <3> QED
      BY <1>2, <2>1, <3>1
  <2> QED
    BY <1>5, <2>2, <2>3, <2>4, <2>5, <2>6 DEF MainStep, MainGoesOn
<1>6. CASE TimerStep
  <2>1. "Timer" \in Threads \ PeerThreads
    BY <1>0
  <2>2. CASE TimerSetsWorkPending
    BY <1>0, <1>4, <2>2 DEF TimerSetsWorkPending
  <2>3. CASE TimerWait \/ TimerPass \/ TimerScan \/ TimerLock \/ TimerMark
    BY <1>2, <2>1, <2>3 DEF TimerWait, TimerPass, TimerScan, TimerScanFrom, TimerLock, LockAndCheck, TimerMark
  <2> QED
    BY <1>6, <2>2, <2>3 DEF TimerStep
\* A thread of the peers goes on to l, and is not in a critical section there.
<1>7. ASSUME NEW u \in PeerThreads, NEW l, Goto(u, l), at' = at \/ \E n : AtSlot(u, n),
             l \notin Critical \/ (pc[u] \in Critical /\ at' = at)
      PROVE  \A t \in PeerThreads : InHand(t)' \subseteq InHand(t)
  <2>1. \A t \in PeerThreads : t # u => pc[t] = pc'[t] /\ at'[t] = at[t]
    BY <1>0, <1>7 DEF Goto, AtSlot, ThreadTypes
  <2>2. \A t \in PeerThreads : t # u => InHand(t)' \subseteq InHand(t)
    BY <2>1 DEF InHand
  <2>3. pc'[u] = l
    BY <1>0, <1>7 DEF Goto, ThreadTypes
  <2>4. InHand(u)' \subseteq InHand(u)
    BY <1>0, <1>7, <2>3, HandsKept
  <2> QED
    BY <2>2, <2>4
\* It takes slot i, in the stage it waits for.
<1>8. ASSUME NEW u \in PeerThreads, NEW l, Goto(u, l), at' = at \/ \E n : AtSlot(u, n),
             UNCHANGED <<slotVars, clientVars, charged>>,
             ClientInfo[at'[u]].procStat = EntersAt(u)
      PROVE  \A t \in PeerThreads : InHand(t)' \subseteq InHand(t) \/ Enters(t)
  <2>1. \A t \in PeerThreads : t # u => pc[t] = pc'[t] /\ at'[t] = at[t]
    BY <1>0, <1>8 DEF Goto, AtSlot, ThreadTypes
  <2>2. \A t \in PeerThreads : t # u => InHand(t)' \subseteq InHand(t)
    BY <2>1 DEF InHand
  <2>3. Enters(u)
    BY <1>8 DEF Enters, InHand
  <2> QED
    BY <2>2, <2>3
<1>9. ASSUME NEW p \in Peers, SenderStep(p)
      PROVE  \A t \in PeerThreads : InHand(t)' \subseteq InHand(t) \/ Enters(t)
  <2>1. Sender(p) \in PeerThreads /\ Receiver(p) \in PeerThreads /\ Sender(p) # Receiver(p)
        /\ EntersAt(Sender(p)) = SendStage(p) /\ AfterSend(p) \in {"down", "swp"}
    BY ThreadNames DEF PeerThreads, EntersAt, SendStage, AfterSend
  <2>2. CASE Connect(p)
    <3>1. at' = at /\ \A t \in Threads : pc'[t] = pc[t] \/ pc'[t] \in {"join", "swp", "recv"}
      BY <1>0, <2>1, <2>2 DEF Connect, ThreadTypes
    <3> QED
      BY <1>0, <1>1, <3>1 DEF Critical
  <2>3. CASE SenderSetsWorkPending(p)
    BY <1>0, <1>4, <2>1, <2>3 DEF SenderSetsWorkPending, Peers
  <2>4. CASE SenderWait(p) \/ SenderDown(p) \/ SenderJoin(p) \/ SendMsg(p)
    BY <1>7, <2>1, <2>4 DEF SenderWait, SenderDown, SenderJoin, SendMsg, Critical
  <2>5. CASE SendReset(p) \/ Sent(p)
    BY <1>7, <2>1, <2>5 DEF SendReset, Sent, Critical
  <2>6. CASE SendFails(p) \/ SenderShutdown(p)
    BY <1>3, <1>7, <2>1, <2>6 DEF SendFails, SenderShutdown, Critical
  <2>7. CASE SenderScan(p)
    <3>1. CASE Goto(Sender(p), AfterSend(p)) /\ AtSlot(Sender(p), 0)
      BY <1>7, <2>1, <3>1 DEF Critical
    <3>2. ASSUME NEW i \in Slots, Pending(p, i), AtSlot(Sender(p), i), \E l : Goto(Sender(p), l),
                 UNCHANGED <<slotVars, clientVars, charged>>
          PROVE  \A t \in PeerThreads : InHand(t)' \subseteq InHand(t) \/ Enters(t)
      <4>1. at'[Sender(p)] = i
        BY <1>0, <2>1, <3>2 DEF AtSlot, ThreadTypes
      <4>2. ClientInfo[i].procStat = SendStage(p)
        BY <3>2 DEF Pending, Peers
      <4> QED
        BY <1>8, <2>1, <3>2, <4>1, <4>2
    <3> QED
      BY <2>7, <3>1, <3>2 DEF SenderScan, IsFirst, peerVars
  <2>8. CASE SenderLock(p)
    <3>1. CASE Pending(p, at[Sender(p)])
      <4>1. ClientInfo[at[Sender(p)]].procStat = SendStage(p) /\ at'[Sender(p)] = at[Sender(p)]
        BY <1>0, <2>1, <2>8, <3>1 DEF SenderLock, LockAndCheck, AtSlot, Pending, Peers, ThreadTypes
      <4> QED
        BY <1>8, <2>1, <2>8, <4>1 DEF SenderLock, LockAndCheck, peerVars
    <3>2. CASE ~Pending(p, at[Sender(p)])
      BY <1>7, <2>1, <2>8, <3>2 DEF SenderLock, LockAndCheck, Critical
    <3> QED
      BY <3>1, <3>2
  <2> QED
    BY <1>9, <2>2, <2>3, <2>4, <2>5, <2>6, <2>7, <2>8 DEF SenderStep
<1>10. ASSUME NEW p \in Peers, ReceiverStep(p)
       PROVE  \A t \in PeerThreads : InHand(t)' \subseteq InHand(t) \/ Enters(t)
  <2>1. Receiver(p) \in PeerThreads /\ Sender(p) \in PeerThreads /\ Sender(p) # Receiver(p)
        /\ EntersAt(Receiver(p)) = RecvStage(p) /\ AfterRecv(p) \in {"recv", "swp"}
    BY ThreadNames DEF PeerThreads, EntersAt, RecvStage, AfterRecv
  <2>2. CASE DbReceiverSetsWorkPending
    BY <1>0, <1>4, <2>2 DEF DbReceiverSetsWorkPending, PeerThreads
  <2>3. CASE Receive(p) \/ ReceiverHangup(p)
    BY <1>7, <2>1, <2>3 DEF Receive, ReceiverHangup, Critical
  <2>4. CASE StoreAudit \/ StoreVerdict
    BY <1>7, <2>4 DEF StoreAudit, StoreVerdict, Critical, PeerThreads
  <2>5. CASE ReceiverEnds(p)
    <3>1. at' = at /\ \A t \in Threads : pc'[t] = pc[t] \/ pc'[t] \in {"ended", "wait"}
      BY <1>0, <2>1, <2>5 DEF ReceiverEnds, ThreadTypes
    <3> QED
      BY <1>0, <1>1, <3>1 DEF Critical
  <2>6. CASE ReceiverLock(p)
    <3> DEFINE ok == Live(at[Receiver(p)]) /\ ClientInfo[at[Receiver(p)]].procStat = RecvStage(p)
    <3>1. CASE ok
      <4>1. at'[Receiver(p)] = at[Receiver(p)]
        BY <1>0, <2>1, <2>6, <3>1 DEF ReceiverLock, LockAndCheck, AtSlot, ThreadTypes
      <4> QED
        BY <1>8, <2>1, <2>6, <3>1, <4>1 DEF ReceiverLock, LockAndCheck, peerVars
    <3>2. CASE ~ok
      BY <1>7, <2>1, <2>6, <3>2 DEF ReceiverLock, LockAndCheck, Critical
    <3> QED
      BY <3>1, <3>2
  <2> QED
    BY <1>10, <2>2, <2>3, <2>4, <2>5, <2>6 DEF ReceiverStep
<1>11. CASE TermAccepted \/ QuitArrives \/ TermArrives \/ IntArrives \/ \E t \in Threads : LockDestroyed(t)
  <2>1. "SignalHandler" \in Threads \ PeerThreads
    BY <1>0
  <2> QED
    BY <1>2, <1>3, <1>11, <2>1 DEF TermAccepted, QuitArrives, TermArrives, IntArrives, LockDestroyed
<1>12. CASE \/ \E i \in Slots : TimePasses(i)
            \/ \E p \in Peers : PeerDown(p) \/ PeerUp(p)
            \/ \E c \in Conns, k \in {"Bank", "Ctrl", "Bad"} :
                 ClientContinues(c) \/ ClientHangup(c) \/ ClientRequest(c, k)
            \/ AtRest \/ UNCHANGED vars
  BY <1>1, <1>12 DEF TimePasses, PeerDown, PeerUp, ClientContinues, ClientHangup, ClientRequest,
                     serverVars, threadVars, AtRest, vars
<1> QED
  BY <1>5, <1>6, <1>9, <1>10, <1>11, <1>12 DEF Next, ServerStep, Environment

\* What a step does to slot i, unless a client is accepted, closed, or asks for
\* its approval: nothing to the message and the stage; a new stage by Main while
\* nobody has the slot in hand; or what the thread does that has it in hand.
SlotMoves(i) ==
    LET x == ClientInfo[i]
        y == ClientInfo'[i]
    IN /\ y.servermsg.cc = x.servermsg.cc
       /\ \/ y.servermsg = x.servermsg /\ y.procStat = x.procStat
          \/ mutex[i] = "none" /\ y.servermsg = x.servermsg /\ y.procStat \in {"CT_REQ_RECV", "CT_RESP_SEND"}
          \/ /\ i \in InHand("DbSend") \cup InHand("DbRecv")
             /\ y.procStat \in {x.procStat, "DB_RECV"} \/ (y.procStat = "BANK_SEND" /\ StoreAudit)
          \/ i \in InHand("BankSend") /\ y.servermsg.status = "BS" /\ y.procStat = x.procStat
          \/ /\ i \in InHand("BankSend") /\ InHand("BankSend")' = {}
             /\ y.servermsg = x.servermsg /\ y.procStat = "BANK_RECV"
          \/ i \in InHand("BankRecv") /\ y.servermsg.status = "BR" /\ y.procStat = "CT_RESP_SEND"

SlotsMove == /\ UNCHANGED owner /\ \A i \in Slots : MainPoll'[i].fd = MainPoll[i].fd
             /\ \A i \in Slots : SlotMoves(i)

LEMMA SlotsRest == ASSUME UNCHANGED slotVars PROVE SlotsMove
BY DEF slotVars, SlotsMove, SlotMoves

LEMMA MainSlotsMove ==
    ASSUME IInv, MainStep, ~CloseClient, \A i \in Slots : ~RecvBankRequest(i) PROVE SlotsMove
<1>0. SlotsOK /\ \A i \in Slots : ClientInfo[i] \in InfoType /\ MainPoll[i] \in PollType
  BY Types
<1>1. CASE CountUsers
  <2> DEFINE k == at["Main"]
  <2>1. UNCHANGED <<MainPoll, owner>>
        /\ \/ ClientInfo' = [ClientInfo EXCEPT ![k] = [ClientInfo[k] EXCEPT !.disconStat = "AFTER_MSG"]]
           \/ ClientInfo' = [ClientInfo EXCEPT ![k] = [ClientInfo[k] EXCEPT !.activityTime = "recent"]]
    BY <1>1 DEF CountUsers
  <2> QED
    BY <1>0, <2>1 DEF SlotsMove, SlotMoves, SlotsOK, InfoType
<1>2. CASE ReadEvent
  BY <1>0, <1>2 DEF ReadEvent, DisconnectNext, Polled, PollType, SlotsMove, SlotMoves
<1>3. CASE DisconnectClients \/ MainSetsWorkPending \/ LeaveLoop \/ CloseAll \/ WakeThread \/ KillHandler \/ JoinThread
  <2>1. UNCHANGED slotVars
    BY <1>3 DEF DisconnectClients, DisconnectNext, MainSetsWorkPending, SetWorkPending, LeaveLoop, CloseAll,
                WakeThread, KillHandler, JoinThread, slotVars
  <2> QED
    BY <2>1, SlotsRest
<1>4. ASSUME NEW k \in Slots, BlockOnClient(k) PROVE SlotsMove
  BY <1>4, SlotsRest DEF BlockOnClient
<1>5. ASSUME NEW k \in Slots, SendResponse(k) PROVE SlotsMove
  <2>1. ClientInfo' = [ClientInfo EXCEPT ![k] = [ClientInfo[k] EXCEPT !.response = NoResponse]]
    BY <1>5 DEF SendResponse
  <2>2. \A i \in Slots : MainPoll'[i].fd = MainPoll[i].fd
    BY <1>0, <1>5 DEF SendResponse, SlotsOK, PollType
  <2> QED
    BY <1>0, <1>5, <2>1, <2>2 DEF SendResponse, SlotsMove, SlotMoves, SlotsOK, InfoType
<1>6. ASSUME NEW k \in Slots, RecvStep(k) PROVE SlotsMove
  <2>1. mutex[k] = "none" /\ UNCHANGED owner
    BY <1>6 DEF RecvStep, RecvHangup, RecvOverLimit, RecvControl, RecvInvalid, RecvCompletion,
                RecvBankRequest, Receives, Unlocked
  <2>2. \A i \in Slots : MainPoll'[i].fd = MainPoll[i].fd
    <3>1. MainPoll' = MainPoll \/ MainPoll' = [MainPoll EXCEPT ![k] = [MainPoll[k] EXCEPT !.events = "toPOLLOUT"]]
      BY <1>6 DEF RecvStep, RecvHangup, RecvOverLimit, RecvControl, RecvInvalid,
                  RecvCompletion, RecvBankRequest, Respond
    <3> QED
      BY <1>0, <3>1 DEF SlotsOK, PollType
  <2>3. \A i \in Slots : i # k => ClientInfo'[i] = ClientInfo[i]
    BY <1>0, <1>6 DEF RecvStep, RecvHangup, RecvOverLimit, RecvControl, RecvInvalid,
                       RecvCompletion, RecvBankRequest, Respond, SetClientDisconnect, SlotsOK
  <2>4. ReceivedInfo(k) \in InfoType /\ ReceivedInfo(k).servermsg = ClientInfo[k].servermsg
        /\ ReceivedInfo(k).procStat = "CT_REQ_RECV"
    <3>1. "CT_REQ_RECV" \in Stages
      BY DEF Stages
    <3> QED
      BY <1>0, <3>1 DEF ReceivedInfo, InfoType
  <2> DEFINE y == ClientInfo'[k]
             x == ClientInfo[k]
  <2>5. y.servermsg = x.servermsg /\ y.procStat \in {x.procStat, "CT_REQ_RECV", "CT_RESP_SEND"}
    <3>1. CASE RecvHangup(k)
      BY <3>1 DEF RecvHangup
    <3>2. CASE RecvOverLimit(k)
      BY <1>0, <2>4, <3>2 DEF RecvOverLimit, Respond, WithResponse, SlotsOK, InfoType
    <3>3. CASE RecvInvalid(k)
      BY <1>0, <2>4, <3>3 DEF RecvInvalid, Respond, WithResponse, SlotsOK, InfoType
    <3>4. CASE RecvCompletion(k)
      BY <1>0, <2>4, <3>4 DEF RecvCompletion, SlotsOK, InfoType
    <3>5. CASE RecvControl(k)
      <4>1. \/ ClientInfo' = [ClientInfo EXCEPT ![k] = [ReceivedInfo(k) EXCEPT !.disconStat = "NOW"]]
            \/ ClientInfo' = [ClientInfo EXCEPT ![k] =
                   WithResponse([ReceivedInfo(k) EXCEPT !.procType = "IACTIVE"],
                                [NoResponse EXCEPT !.kind = "Cmd"])]
        BY <3>5 DEF RecvControl, SetClientDisconnect, Respond
      <4> DEFINE r == ReceivedInfo(k)
                 no == [r EXCEPT !.disconStat = "NOW"]
                 yes == WithResponse([r EXCEPT !.procType = "IACTIVE"], [NoResponse EXCEPT !.kind = "Cmd"])
      <4>2. /\ no.servermsg = x.servermsg /\ no.procStat = "CT_REQ_RECV"
            /\ yes.servermsg = x.servermsg /\ yes.procStat = "CT_RESP_SEND"
        BY <2>4 DEF WithResponse, InfoType
      <4>3. ClientInfo' = [ClientInfo EXCEPT ![k] = no] \/ ClientInfo' = [ClientInfo EXCEPT ![k] = yes]
        BY <4>1
      <4> HIDE DEF no, yes, r
      <4> QED
        BY <1>0, <4>2, <4>3 DEF SlotsOK
    <3> QED
      BY <1>6, <3>1, <3>2, <3>3, <3>4, <3>5 DEF RecvStep
  <2>6. \A i \in Slots : SlotMoves(i)
    BY <2>1, <2>3, <2>5 DEF SlotMoves
  <2> QED
    BY <2>1, <2>2, <2>6 DEF SlotsMove
<1> QED
  BY <1>1, <1>2, <1>3, <1>4, <1>5, <1>6 DEF MainStep, MainGoesOn

\* The steps that change a slot which their thread has in hand.
LEMMA HandMoves ==
    ASSUME IInv, NEW t \in Threads, NEW k, pc[t] \in Critical, k = at[t], NEW info \in InfoType,
           ClientInfo' = [ClientInfo EXCEPT ![k] = info], UNCHANGED owner,
           \A i \in Slots : MainPoll'[i].fd = MainPoll[i].fd
    PROVE  /\ k \in Slots /\ k \in InHand(t) /\ ClientInfo'[k] = info
           /\ SlotMoves(k) => SlotsMove
<1>1. InHand(t) = {k}
  BY DEF InHand
<1>2. k \in Slots
  BY <1>1, HandHolds DEF IInv
<1>3. ClientInfo \in [Slots -> InfoType]
  BY Types DEF SlotsOK
<1>4. ClientInfo'[k] = info /\ \A i \in Slots : i # k => ClientInfo'[i] = ClientInfo[i]
  BY <1>2, <1>3
<1> QED
  BY <1>1, <1>2, <1>4 DEF SlotsMove, SlotMoves

LEMMA SenderSlotsMove == ASSUME IInv, NEW p \in Peers, SenderStep(p) PROVE SlotsMove
<1> DEFINE t == Sender(p)
           k == at[t]
<1>0. SlotsOK /\ \A i \in Slots : ClientInfo[i] \in InfoType
  BY Types
<1>1. t \in Threads /\ (p = "db" => t = "DbSend") /\ (p = "bank" => t = "BankSend") /\ p \in {"db", "bank"}
      /\ ThreadTypes
  BY ThreadNames, Types
<1>2. CASE SendMsg(p) \/ SendReset(p)
  <2> DEFINE m == [ClientInfo[k].servermsg EXCEPT !.status = SentStatus(p)]
             info == [ClientInfo[k] EXCEPT !.servermsg = m]
  <2>1. pc[t] \in Critical /\ UNCHANGED <<MainPoll, owner>>
        /\ ClientInfo' = [ClientInfo EXCEPT ![k].servermsg.status = SentStatus(p)]
    BY <1>2 DEF SendMsg, SendReset, Critical, WithSentStatus
  <2>2. k \in Slots
    BY <1>1, <2>1, HandHolds DEF InHand, IInv
  <2>3. ClientInfo[k].servermsg \in MsgType /\ SentStatus(p) \in Statuses
    BY <1>0, <2>2, InfoUpdates DEF SentStatus, Statuses
  <2>4. m \in MsgType /\ m.cc = ClientInfo[k].servermsg.cc /\ m.status = SentStatus(p)
    BY <2>3 DEF MsgType
  <2>5. info \in InfoType /\ info.servermsg = m /\ info.procStat = ClientInfo[k].procStat
    BY <1>0, <2>2, <2>4 DEF InfoType
  <2>6. ClientInfo' = [ClientInfo EXCEPT ![k] = info]
    BY <2>1
  <2> HIDE DEF m, info
  <2>7. k \in InHand(t) /\ ClientInfo'[k] = info /\ (SlotMoves(k) => SlotsMove)
    BY <1>1, <2>1, <2>5, <2>6, HandMoves
  <2>8. SlotMoves(k)
    BY <1>1, <2>4, <2>5, <2>7 DEF SlotMoves, SentStatus
  <2> QED
    BY <2>7, <2>8
<1>3. CASE Sent(p)
  <2> DEFINE info == [ClientInfo[k] EXCEPT !.procStat = RecvStage(p), !.activityTime = "recent"]
  <2>1. pc[t] \in Critical /\ UNCHANGED <<MainPoll, owner>> /\ ClientInfo' = [ClientInfo EXCEPT ![k] = info]
    BY <1>3 DEF Sent, Critical
  <2>2. k \in Slots
    BY <1>1, <2>1, HandHolds DEF InHand, IInv
  <2>3. RecvStage(p) \in Stages
    BY DEF RecvStage, Stages
  <2>4. info \in InfoType /\ info.servermsg = ClientInfo[k].servermsg /\ info.procStat = RecvStage(p)
    BY <1>0, <2>2, <2>3 DEF InfoType
  <2> HIDE DEF info
  <2>5. k \in InHand(t) /\ ClientInfo'[k] = info /\ (SlotMoves(k) => SlotsMove)
    BY <1>1, <2>1, <2>4, HandMoves
  <2>6. InHand(t)' = {}
    BY <1>1, <1>3 DEF Sent, Goto, InHand, Critical, AfterSend, ThreadTypes
  <2>7. SlotMoves(k)
    BY <1>1, <2>4, <2>5, <2>6 DEF SlotMoves, RecvStage
  <2> QED
    BY <2>5, <2>7
<1>4. CASE \/ Connect(p) \/ SenderSetsWorkPending(p) \/ SenderWait(p) \/ SenderScan(p)
           \/ SenderLock(p) \/ SendFails(p) \/ SenderDown(p) \/ SenderShutdown(p) \/ SenderJoin(p)
  <2>1. UNCHANGED slotVars
    BY <1>4 DEF Connect, SenderSetsWorkPending, SetWorkPending, SenderWait, SenderScan, SenderLock,
                LockAndCheck, SendFails, SenderDown, SenderShutdown, SenderJoin
  <2> QED
    BY <2>1, SlotsRest
<1> QED
  BY <1>2, <1>3, <1>4 DEF SenderStep

LEMMA ReceiverSlotsMove == ASSUME IInv, NEW p \in Peers, ReceiverStep(p) PROVE SlotsMove
<1>0. SlotsOK /\ \A i \in Slots : ClientInfo[i] \in InfoType
  BY Types
<1>1. ThreadTypes /\ "DbRecv" \in Threads /\ "BankRecv" \in Threads
      /\ reply["db"] \in Nat /\ reply["bank"] \in Cards
  BY ThreadNames, Types DEF IInv, TypeOK, PeersOK
<1>2. CASE StoreAudit
  <2> DEFINE k == at["DbRecv"]
             m == [ClientInfo[k].servermsg EXCEPT !.audit = reply["db"], !.status = "DR"]
             info == [ClientInfo[k] EXCEPT !.servermsg = m, !.procStat = "BANK_SEND", !.activityTime = "recent"]
  <2>1. pc["DbRecv"] \in Critical /\ UNCHANGED <<MainPoll, owner>> /\ ClientInfo' = [ClientInfo EXCEPT ![k] = info]
    BY <1>2 DEF StoreAudit, Critical
  <2>2. k \in Slots
    BY SMTT(30), <1>1, <2>1, HandHolds DEF InHand, IInv
  <2>3. ClientInfo[k].servermsg \in MsgType /\ "DR" \in Statuses /\ "BANK_SEND" \in Stages
    BY <1>0, <2>2, InfoUpdates DEF Statuses, Stages
  <2>4. m \in MsgType /\ m.cc = ClientInfo[k].servermsg.cc
    BY <1>1, <2>3 DEF MsgType
  <2>5. info \in InfoType /\ info.servermsg = m /\ info.procStat = "BANK_SEND"
    BY <1>0, <2>2, <2>3, <2>4 DEF InfoType
  <2> HIDE DEF info, m
  <2>6. k \in InHand("DbRecv") /\ ClientInfo'[k] = info /\ (SlotMoves(k) => SlotsMove)
    BY <1>1, <2>1, <2>5, HandMoves
  <2> QED
    BY <1>2, <2>4, <2>5, <2>6 DEF SlotMoves
<1>3. CASE StoreVerdict
  <2> DEFINE k == at["BankRecv"]
             m == [ClientInfo[k].servermsg EXCEPT !.verdict = reply["bank"], !.status = "BR"]
             resp == [kind |-> "Bank", cc |-> m.cc, verdict |-> m.verdict]
             info == WithResponse([ClientInfo[k] EXCEPT !.servermsg = m], resp)
  <2>1. pc["BankRecv"] \in Critical /\ UNCHANGED owner /\ ClientInfo' = [ClientInfo EXCEPT ![k] = info]
    BY <1>3 DEF StoreVerdict, Respond, Critical
  <2>2. k \in Slots
    BY <1>1, <2>1, HandHolds DEF InHand, IInv
  <2>3. ClientInfo[k].servermsg \in MsgType /\ "BR" \in Statuses
    BY <1>0, <2>2, InfoUpdates DEF Statuses
  <2>4. m \in MsgType /\ m.cc = ClientInfo[k].servermsg.cc /\ m.status = "BR"
    BY <1>1, <2>3 DEF MsgType
  <2>5. resp \in ResponseType
    <3>1. m.cc \in Cards /\ m.verdict \in Cards
      BY <2>4 DEF MsgType
    <3> HIDE DEF m
    <3> QED
      BY <3>1, Responses
  <2> HIDE DEF m, resp
  <2>6. [ClientInfo[k] EXCEPT !.servermsg = m] \in InfoType
    BY <1>0, <2>2, <2>4, InfoUpdates
  <2>7. info \in InfoType
    BY <2>5, <2>6, InfoUpdates
  <2>8. info.servermsg = m /\ info.procStat = "CT_RESP_SEND"
    BY <1>0, <2>2 DEF WithResponse, InfoType
  <2>9. \A i \in Slots : MainPoll'[i].fd = MainPoll[i].fd
    BY <1>0, <1>3, Types DEF StoreVerdict, Respond, SlotsOK, PollType
  <2> HIDE DEF info
  <2>10. k \in InHand("BankRecv") /\ ClientInfo'[k] = info /\ (SlotMoves(k) => SlotsMove)
    BY <1>1, <2>1, <2>7, <2>9, HandMoves
  <2> QED
    BY <2>4, <2>8, <2>10 DEF SlotMoves
<1>4. CASE \/ Receive(p) \/ ReceiverLock(p) \/ ReceiverHangup(p) \/ ReceiverEnds(p)
           \/ DbReceiverSetsWorkPending
  <2>1. UNCHANGED slotVars
    BY <1>4 DEF Receive, ReceiverLock, LockAndCheck, ReceiverHangup, ReceiverEnds,
                DbReceiverSetsWorkPending, SetWorkPending
  <2> QED
    BY <2>1, SlotsRest
<1> QED
  BY <1>2, <1>3, <1>4 DEF ReceiverStep

LEMMA SlotsMoveStep ==
    ASSUME IInv, [Next]_vars, ~CloseClient, \A i \in Slots : ~RecvBankRequest(i),
           \A c \in Conns : ~AcceptClient(c)
    PROVE  SlotsMove
<1>0. SlotsOK /\ \A i \in Slots : ClientInfo[i] \in InfoType
  BY Types
<1>1. CASE TimerMark
  <2>1. ClientInfo' = [ClientInfo EXCEPT ![at["Timer"]] =
                          [ClientInfo[at["Timer"]] EXCEPT !.disconStat = "NOW"]]
        /\ UNCHANGED <<MainPoll, owner>>
    BY <1>1 DEF TimerMark, SetClientDisconnect
  <2> QED
    BY <1>0, <2>1 DEF SlotsMove, SlotMoves, SlotsOK, InfoType
<1>2. CASE TimerStep /\ ~TimerMark
  BY <1>2, SlotsRest DEF TimerStep, TimerWait, TimerPass, TimerScan, TimerScanFrom, TimerLock, LockAndCheck,
                         TimerSetsWorkPending, SetWorkPending
<1>3. ASSUME NEW k \in Slots, TimePasses(k) PROVE SlotsMove
  <2>1. ClientInfo' = [ClientInfo EXCEPT ![k] = [ClientInfo[k] EXCEPT !.activityTime = "old"]]
        /\ UNCHANGED <<MainPoll, owner>>
    BY <1>3 DEF TimePasses
  <2> QED
    BY <1>0, <2>1 DEF SlotsMove, SlotMoves, SlotsOK, InfoType
<1>4. CASE TermAccepted \/ QuitArrives \/ TermArrives \/ IntArrives \/ \E t \in Threads : LockDestroyed(t)
  BY <1>4, SlotsRest DEF TermAccepted, QuitArrives, TermArrives, IntArrives, LockDestroyed
<1>5. CASE \/ \E p \in Peers : PeerDown(p) \/ PeerUp(p)
           \/ \E c \in Conns, k \in {"Bank", "Ctrl", "Bad"} :
                ClientContinues(c) \/ ClientHangup(c) \/ ClientRequest(c, k)
           \/ AtRest \/ UNCHANGED vars
  BY <1>5, SlotsRest DEF PeerDown, PeerUp, ClientContinues, ClientHangup, ClientRequest, serverVars,
                         AtRest, vars
<1> QED
  BY <1>1, <1>2, <1>3, <1>4, <1>5, MainSlotsMove, SenderSlotsMove, ReceiverSlotsMove
     DEF Next, ServerStep, Environment
-----------------------------------------------------------------------------
(***************************************************************************)
(* Owners, requests and the messages at the bank.                          *)
(***************************************************************************)

LEMMA CardInit == Init => CardInv
<1> SUFFICES ASSUME Init PROVE CardInv
  OBVIOUS
<1>1. OwnersKept
  BY DEF Init, OwnersKept, Open, FreePoll, FreeInfo, BlankMsg
<1>2. RequestOnce
  BY ConstAssumption DEF Init, RequestOnce, PutToBank, ConstAssumption, NoConn
<1>3. "BankSend" \in Threads /\ pc["BankSend"] \notin Critical
  BY DEF Init, Threads, Critical
<1>4. ChargedInv
  BY <1>3 DEF Init, ChargedInv, AtTheBank, PutToBank, InHand
<1> QED
  BY <1>1, <1>2, <1>4 DEF CardInv

\* A client that was accepted stays so, and one that has made its request is past it.
ClientsOn ==
    /\ \A c \in Conns : phase[c] # "new" => phase'[c] # "new"
    /\ \A c \in Conns : phase'[c] \in {"new", "ready"} => inbox'[c] = "none"
    /\ \A c \in Conns : RequestSpent(c) => RequestSpent(c)'

LEMMA ClientsOnStep ==
    ASSUME IInv, CardInv, [Next]_vars PROVE ClientsOn
<1>0. /\ phase \in [Conns -> {"new", "ready", "waiting", "answered", "done", "cut", "gone"}]
      /\ inbox \in [Conns -> {"none", "Bank", "Ctrl", "Bad", "Done"}]
      /\ \A c \in Conns : phase[c] \in {"new", "ready"} => inbox[c] = "none"
  BY DEF IInv, TypeOK, ClientsOK, CardInv, RequestOnce
<1> USE DEF ClientsOn, RequestSpent
<1>1. ASSUME UNCHANGED <<phase, inbox>> PROVE ClientsOn
  BY <1>0, <1>1
<1>2. CASE MainStep \/ \E c \in Conns : AcceptClient(c)
  <2>1. ASSUME NEW c \in Conns, AcceptClient(c) PROVE ClientsOn
    BY <1>0, <2>1 DEF AcceptClient
  <2>2. CASE CloseClient
    BY <1>0, <2>2 DEF CloseClient
  <2>3. ASSUME NEW i \in Slots, RecvStep(i) PROVE ClientsOn
    <3>1. inbox' = [inbox EXCEPT ![owner[i]] = "none"] /\ UNCHANGED phase
      BY <2>3 DEF RecvStep, RecvHangup, RecvOverLimit, RecvControl, RecvInvalid, RecvCompletion,
                  RecvBankRequest, Receives
    <3> QED
      BY <1>0, <3>1
  <2>4. ASSUME NEW i \in Slots, SendResponse(i) PROVE ClientsOn
    <3>1. phase' = [phase EXCEPT ![owner[i]] = IF phase[owner[i]] = "waiting" THEN "answered" ELSE phase[owner[i]]]
          /\ UNCHANGED inbox
      BY <2>4 DEF SendResponse
    <3> QED
      BY <1>0, <3>1
  <2>5. CASE \/ MainGoesOn /\ ~CloseClient
             \/ ReadEvent \/ \E i \in Slots : BlockOnClient(i)
    <3>1. UNCHANGED <<phase, inbox>>
      BY <2>5 DEF MainGoesOn, CountUsers, DisconnectClients, ReadEvent, DisconnectNext, MainSetsWorkPending,
                  SetWorkPending, LeaveLoop, CloseAll, WakeThread, KillHandler, JoinThread, BlockOnClient, clientVars
    <3> QED
      BY <1>1, <3>1
  <2> QED
    BY <1>2, <2>1, <2>2, <2>3, <2>4, <2>5 DEF MainStep
<1>3. CASE TimerStep \/ \E i \in Slots : TimePasses(i)
  <2>1. UNCHANGED <<phase, inbox>>
    BY <1>3 DEF TimerStep, TimerWait, TimerPass, TimerScan, TimerScanFrom, TimerLock, LockAndCheck, TimerMark,
                TimerSetsWorkPending, SetWorkPending, TimePasses, clientVars
  <2> QED
    BY <1>1, <2>1
<1>4. ASSUME NEW p \in Peers, SenderStep(p) \/ ReceiverStep(p) PROVE ClientsOn
  <2>1. CASE SenderStep(p)
    <3>1. UNCHANGED <<phase, inbox>>
      BY <2>1 DEF SenderStep, Connect, SenderSetsWorkPending, SetWorkPending, SenderWait, SenderScan,
                  SenderLock, LockAndCheck, SendMsg, SendReset, SendFails, Sent, SenderDown,
                  SenderShutdown, SenderJoin, clientVars
    <3> QED
      BY <1>1, <3>1
  <2>2. CASE ReceiverStep(p)
    <3>1. UNCHANGED <<phase, inbox>>
      BY <2>2 DEF ReceiverStep, Receive, ReceiverLock, LockAndCheck, ReceiverHangup, ReceiverEnds, StoreAudit,
                  DbReceiverSetsWorkPending, SetWorkPending, StoreVerdict, clientVars
    <3> QED
      BY <1>1, <3>1
  <2> QED
    BY <1>4, <2>1, <2>2
<1>5. ASSUME NEW c \in Conns, NEW k \in {"Bank", "Ctrl", "Bad"},
             ClientContinues(c) \/ ClientHangup(c) \/ ClientRequest(c, k)
      PROVE  ClientsOn
  <2>1. CASE ClientContinues(c)
    BY <1>0, <2>1 DEF ClientContinues
  <2>2. CASE ClientHangup(c)
    BY <1>0, <2>2 DEF ClientHangup
  <2>3. CASE ClientRequest(c, k)
    BY <1>0, <2>3 DEF ClientRequest
  <2> QED
    BY <1>5, <2>1, <2>2, <2>3
<1>6. CASE \/ TermAccepted \/ QuitArrives \/ TermArrives \/ IntArrives \/ \E t \in Threads : LockDestroyed(t)
           \/ \E p \in Peers : PeerDown(p) \/ PeerUp(p)
           \/ AtRest \/ UNCHANGED vars
  <2>1. UNCHANGED <<phase, inbox>>
    BY <1>6 DEF TermAccepted, QuitArrives, TermArrives, IntArrives, LockDestroyed, PeerDown, PeerUp, AtRest, vars, clientVars
  <2> QED
    BY <1>1, <2>1
<1> QED
  BY <1>2, <1>3, <1>4, <1>5, <1>6 DEF Next, ServerStep, Environment

\* Only BankSendThread puts a card to the bank, the one in its hands.
LEMMA ChargeStep ==
    ASSUME IInv, [Next]_vars
    PROVE  \/ UNCHANGED charged
           \/ /\ SendMsg("bank") /\ at["BankSend"] \in InHand("BankSend") /\ at["BankSend"] \in Slots
              /\ \A c \in Conns : PutToBank(c)' # {} =>
                    PutToBank(c) # {} \/ c = ClientInfo[at["BankSend"]].servermsg.cc
<1>1. CASE MainStep \/ TimerStep \/ \E c \in Conns : AcceptClient(c)
  <2>1. CASE MainGoesOn \/ \E c \in Conns : AcceptClient(c)
    BY <2>1 DEF MainGoesOn, AcceptClient, CountUsers, DisconnectClients, DisconnectNext, CloseClient,
                MainSetsWorkPending, SetWorkPending, LeaveLoop, CloseAll, WakeThread, KillHandler, JoinThread, peerVars
  <2>2. CASE ReadEvent \/ \E i \in Slots : BlockOnClient(i) \/ SendResponse(i)
    BY <2>2 DEF ReadEvent, DisconnectNext, BlockOnClient, SendResponse, peerVars
  <2>3. CASE \E i \in Slots : RecvStep(i)
    BY <2>3 DEF RecvStep, RecvHangup, RecvOverLimit, RecvControl, RecvInvalid, RecvCompletion,
                RecvBankRequest, Receives, peerVars
  <2>4. CASE TimerStep
    BY <2>4 DEF TimerStep, TimerWait, TimerPass, TimerScan, TimerScanFrom, TimerLock, LockAndCheck,
                TimerMark, TimerSetsWorkPending, SetWorkPending, peerVars
  <2> QED
    BY <1>1, <2>1, <2>2, <2>3, <2>4 DEF MainStep
<1>2. ASSUME NEW p \in Peers, SenderStep(p), ~SendMsg(p) PROVE UNCHANGED charged
  BY <1>2 DEF SenderStep, Connect, SenderSetsWorkPending, SetWorkPending, SenderWait, SenderScan,
              SenderLock, LockAndCheck, SendReset, SendFails, Sent, SenderDown, SenderShutdown, SenderJoin,
              peerVars
<1>3. CASE SendMsg("db")
  BY <1>3 DEF SendMsg
<1>4. CASE SendMsg("bank")
  <2>1. at["BankSend"] \in InHand("BankSend") /\ at["BankSend"] \in Slots
    BY <1>4, ThreadNames, HandHolds DEF SendMsg, InHand, Critical, IInv
  <2>2. \/ UNCHANGED charged
        \/ charged' = charged \cup {[key |-> Key("bank", at["BankSend"]),
                                     cc |-> ClientInfo[at["BankSend"]].servermsg.cc]}
    BY <1>4, ThreadNames DEF SendMsg
  <2> QED
    BY <1>4, <2>1, <2>2 DEF PutToBank
<1>5. ASSUME NEW p \in Peers, ReceiverStep(p) PROVE UNCHANGED charged
  BY <1>5 DEF ReceiverStep, Receive, ReceiverLock, LockAndCheck, ReceiverHangup, ReceiverEnds, StoreAudit,
              DbReceiverSetsWorkPending, SetWorkPending, StoreVerdict, peerVars
<1>6. CASE \/ TermAccepted \/ QuitArrives \/ TermArrives \/ IntArrives \/ \E t \in Threads : LockDestroyed(t)
           \/ \E i \in Slots : TimePasses(i)
           \/ \E p \in Peers : PeerDown(p) \/ PeerUp(p)
           \/ \E c \in Conns, k \in {"Bank", "Ctrl", "Bad"} :
                ClientContinues(c) \/ ClientHangup(c) \/ ClientRequest(c, k)
           \/ AtRest \/ UNCHANGED vars
  BY <1>6 DEF TermAccepted, QuitArrives, TermArrives, IntArrives, LockDestroyed, TimePasses, PeerDown, PeerUp,
              ClientContinues, ClientHangup, ClientRequest, AtRest, vars, peerVars
<1> QED
  BY <1>1, <1>2, <1>3, <1>4, <1>5, <1>6 DEF Next, ServerStep, Environment, Peers

\* A thread takes a slot in hand: it finds it in the stage it waits for.
LEMMA EnterCard ==
    ASSUME IInv, CardInv, [Next]_vars, NEW t \in PeerThreads, Enters(t) PROVE CardInv'
<1>1. UNCHANGED <<MainPoll, ClientInfo, owner, phase, inbox, charged>>
  BY DEF Enters, slotVars, clientVars
<1>2. OwnersKept' /\ RequestOnce'
  BY <1>1 DEF CardInv, OwnersKept, RequestOnce, RequestSpent, PutToBank, Open
<1>3. \A u \in PeerThreads : \A i \in InHand(u)' : i \in InHand(u) \/ ClientInfo[i].procStat = EntersAt(u)
  BY HandStep DEF Enters
<1>4. ChargedInv'
  <2>1. {"DbSend", "DbRecv", "BankSend"} \subseteq PeerThreads
    BY DEF PeerThreads
  <2>2. ASSUME NEW i \in Slots, AtTheBank(i)'
        PROVE  /\ ClientInfo'[i].servermsg.status \in {"BS", "BR"}
               /\ ClientInfo'[i].procStat \notin {"DB_SEND", "DB_RECV"}
               /\ i \notin InHand("DbSend")' \cup InHand("DbRecv")'
    <3>1. AtTheBank(i)
      BY <1>1, <2>2 DEF AtTheBank, PutToBank
    <3>2. ClientInfo[i].procStat \notin {"DB_SEND", "DB_RECV"} /\ i \notin InHand("DbSend") \cup InHand("DbRecv")
          /\ ClientInfo[i].servermsg.status \in {"BS", "BR"}
      BY <3>1 DEF CardInv, ChargedInv
    <3> QED
      BY <1>1, <1>3, <2>1, <3>2 DEF EntersAt
  <2>3. \A i \in InHand("BankSend")' : ClientInfo'[i].servermsg.cc # NoConn
                                        => ClientInfo'[i].procStat = "BANK_SEND"
    BY <1>1, <1>3, <2>1 DEF EntersAt, CardInv, ChargedInv
  <2> QED
    BY <2>2, <2>3 DEF ChargedInv
<1> QED
  BY <1>2, <1>4 DEF CardInv

HandsStay == \A t \in PeerThreads : InHand(t)' \subseteq InHand(t)

LEMMA AcceptCard ==
    ASSUME IInv, CardInv, [Next]_vars, NEW c \in Conns, AcceptClient(c), HandsStay PROVE CardInv'
<1>1. PICK i \in Slots, f \in Fds :
         /\ MainPoll[i].fd = NoFd
         /\ MainPoll' = [MainPoll EXCEPT ![i] = [fd |-> f, events |-> "POLLIN"]]
         /\ owner' = [owner EXCEPT ![i] = c]
  BY DEF AcceptClient, IsFirst
<1>2. UNCHANGED <<ClientInfo, charged, inbox>> /\ phase[c] = "new" /\ phase' = [phase EXCEPT ![c] = "ready"]
  BY DEF AcceptClient, peerVars
<1>3. /\ MainPoll \in [Slots -> PollType] /\ owner \in [Slots -> Cards] /\ c # NoConn /\ f # NoFd
      /\ phase \in [Conns -> {"new", "ready", "waiting", "answered", "done", "cut", "gone"}]
  BY ConstAssumption DEF IInv, TypeOK, SlotsOK, ClientsOK, ConstAssumption, NoFd, NoConn
<1>4. /\ owner'[i] = c /\ MainPoll'[i].fd # NoFd
      /\ \A j \in Slots : j # i => owner'[j] = owner[j] /\ MainPoll'[j] = MainPoll[j]
  BY <1>1, <1>3
<1>5. owner[i] = NoConn /\ ClientInfo[i].servermsg.cc = NoConn /\ \A j \in Slots : owner[j] # c
  BY <1>1, <1>2, <1>3 DEF CardInv, OwnersKept, Open
<1>6. OwnersKept'
  <2>1. \A j \in Slots : Open(j)' <=> owner'[j] # NoConn
    BY <1>3, <1>4 DEF CardInv, OwnersKept, Open
  <2>2. \A j, k \in Slots : owner'[j] = owner'[k] /\ owner'[j] # NoConn => j = k
    BY <1>4, <1>5 DEF CardInv, OwnersKept
  <2>3. \A j \in Slots : owner'[j] # NoConn => phase'[owner'[j]] # "new"
    BY <1>2, <1>3, <1>4 DEF CardInv, OwnersKept, Cards
  <2>4. \A j \in Slots : ClientInfo'[j].servermsg.cc \in {NoConn, owner'[j]}
    BY <1>2, <1>4, <1>5 DEF CardInv, OwnersKept
  <2> QED
    BY <2>1, <2>2, <2>3, <2>4 DEF OwnersKept
<1>7. ClientsOn
  BY ClientsOnStep
<1>8. \A d \in Conns : PutToBank(d)' = PutToBank(d)
  BY <1>2 DEF PutToBank
<1>9. PutToBank(c) = {}
  BY <1>2 DEF CardInv, RequestOnce, RequestSpent
<1>10. RequestOnce'
  <2>1. ASSUME NEW d \in Conns, NEW j \in Slots, owner'[j] = d, ClientInfo'[j].servermsg.cc = d
        PROVE  RequestSpent(d)'
    <3>1. j # i
      BY <1>2, <1>3, <1>4, <1>5, <2>1
    <3>2. RequestSpent(d)
      BY <1>2, <1>4, <2>1, <3>1 DEF CardInv, RequestOnce
    <3> QED
      BY <1>7, <3>2 DEF ClientsOn
  <2>2. \A d \in Conns : PutToBank(d)' # {} => RequestSpent(d)'
    BY <1>7, <1>8 DEF CardInv, RequestOnce, ClientsOn
  <2>3. \A d \in Conns : phase'[d] \in {"new", "ready"} => inbox'[d] = "none"
    BY <1>7 DEF ClientsOn
  <2> QED
    BY <2>1, <2>2, <2>3 DEF RequestOnce
<1>11. ChargedInv'
  <2>1. \A j \in Slots : AtTheBank(j)' => AtTheBank(j)
    BY <1>3, <1>4, <1>8, <1>9 DEF AtTheBank, Cards
  <2> QED
    BY <1>2, <2>1 DEF HandsStay, PeerThreads, CardInv, ChargedInv
<1> QED
  BY <1>6, <1>10, <1>11 DEF CardInv

LEMMA CloseCard ==
    ASSUME IInv, CardInv, [Next]_vars, CloseClient, HandsStay PROVE CardInv'
<1> DEFINE i == at["Main"]
<1>1. i \in Slots
  BY DEF CloseClient, IInv, SessionInv, MainAtSlot
<1>2. MainPoll \in [Slots -> PollType] /\ owner \in [Slots -> Cards] /\ ClientInfo \in [Slots -> InfoType]
  BY DEF IInv, TypeOK, SlotsOK
<1>3. /\ MainPoll'[i] = FreePoll /\ ClientInfo'[i] = FreeInfo /\ owner'[i] = NoConn
      /\ \A j \in Slots : j # i => /\ MainPoll'[j] = MainPoll[j] /\ ClientInfo'[j] = ClientInfo[j]
                                   /\ owner'[j] = owner[j]
      /\ UNCHANGED charged
  BY <1>1, <1>2 DEF CloseClient, peerVars
<1>4. FreePoll.fd = NoFd /\ FreeInfo.servermsg.cc = NoConn
  BY DEF FreePoll, FreeInfo, BlankMsg
<1>5. ClientsOn
  BY ClientsOnStep
<1>6. OwnersKept'
  <2>1. \A j \in Slots : Open(j)' <=> owner'[j] # NoConn
    BY <1>3, <1>4 DEF CardInv, OwnersKept, Open
  <2>2. \A j, k \in Slots : owner'[j] = owner'[k] /\ owner'[j] # NoConn => j = k
    BY <1>3 DEF CardInv, OwnersKept
  <2>3. \A j \in Slots : owner'[j] # NoConn => phase'[owner'[j]] # "new"
    BY <1>2, <1>3, <1>5 DEF CardInv, OwnersKept, ClientsOn, Cards
  <2>4. \A j \in Slots : ClientInfo'[j].servermsg.cc \in {NoConn, owner'[j]}
    BY <1>3, <1>4 DEF CardInv, OwnersKept
  <2> QED
    BY <2>1, <2>2, <2>3, <2>4 DEF OwnersKept
<1>7. \A d \in Conns : PutToBank(d)' = PutToBank(d)
  BY <1>3 DEF PutToBank
<1>8. RequestOnce'
  <2>1. ASSUME NEW d \in Conns, NEW j \in Slots, owner'[j] = d, ClientInfo'[j].servermsg.cc = d
        PROVE  RequestSpent(d)'
    <3>1. j # i
      BY <1>3, <2>1, ConstAssumption DEF ConstAssumption, NoConn
    <3>2. RequestSpent(d)
      BY <1>3, <2>1, <3>1 DEF CardInv, RequestOnce
    <3> QED
      BY <1>5, <3>2 DEF ClientsOn
  <2>2. \A d \in Conns : PutToBank(d)' # {} => RequestSpent(d)'
    BY <1>5, <1>7 DEF CardInv, RequestOnce, ClientsOn
  <2>3. \A d \in Conns : phase'[d] \in {"new", "ready"} => inbox'[d] = "none"
    BY <1>5 DEF ClientsOn
  <2> QED
    BY <2>1, <2>2, <2>3 DEF RequestOnce
<1>9. ChargedInv'
  <2>1. \A j \in Slots : AtTheBank(j)' => AtTheBank(j) /\ j # i
    BY <1>2, <1>3, <1>7 DEF AtTheBank, Cards
  <2> QED
    BY <1>3, <1>4, <2>1, HandHolds DEF HandsStay, PeerThreads, CardInv, ChargedInv, IInv, Threads
<1> QED
  BY <1>6, <1>8, <1>9 DEF CardInv

LEMMA RequestCard ==
    ASSUME IInv, CardInv, [Next]_vars, NEW i \in Slots, RecvBankRequest(i), HandsStay PROVE CardInv'
<1>1. /\ \A j \in Slots : ClientInfo[j] \in InfoType
      /\ owner \in [Slots -> Cards] /\ ClientInfo \in [Slots -> InfoType]
      /\ inbox \in [Conns -> {"none", "Bank", "Ctrl", "Bad", "Done"}]
  BY Types DEF IInv, TypeOK, SlotsOK, ClientsOK
<1>2. /\ UNCHANGED <<MainPoll, owner, charged, phase>> /\ inbox[owner[i]] = "Bank" /\ mutex[i] = "none"
      /\ inbox' = [inbox EXCEPT ![owner[i]] = "none"] /\ Open(i)
  BY DEF RecvBankRequest, Receives, Unlocked, peerVars, Serves, Readable, Open, IInv, SessionInv, MainAtSlot
<1>3. /\ ClientInfo'[i].servermsg.cc = owner[i]
      /\ \A j \in Slots : j # i => ClientInfo'[j] = ClientInfo[j]
  <2> DEFINE info == [ReceivedInfo(i) EXCEPT !.procType = "BANK", !.procStat = "DB_SEND",
                                             !.servermsg = [BlankMsg EXCEPT !.cc = owner[i]]]
  <2>1. ClientInfo' = [ClientInfo EXCEPT ![i] = info]
    BY SMTT(30) DEF RecvBankRequest
  <2>2. ReceivedInfo(i) \in InfoType
    BY <1>1, InfoUpdates DEF ReceivedInfo, Stages
  <2>3. info.servermsg.cc = owner[i]
    BY <2>2 DEF InfoType, BlankMsg
  <2> HIDE DEF info
  <2> QED
    BY <1>1, <2>1, <2>3
<1>4. owner[i] \in Conns /\ owner[i] # NoConn
  BY <1>1, <1>2 DEF CardInv, OwnersKept, Cards
<1>5. phase[owner[i]] \notin {"new", "ready"}
  BY <1>2, <1>4 DEF CardInv, RequestOnce
<1>6. PutToBank(owner[i]) = {} /\ \A d \in Conns : PutToBank(d)' = PutToBank(d)
  BY <1>2, <1>4 DEF CardInv, RequestOnce, RequestSpent, PutToBank
<1>7. OwnersKept'
  BY <1>2, <1>3 DEF CardInv, OwnersKept, Open
<1>8. RequestOnce'
  <2>1. ClientsOn
    BY ClientsOnStep
  <2>2. \A d \in Conns : d = owner[i] => RequestSpent(d)'
    BY <1>1, <1>2, <1>5 DEF RequestSpent
  <2>3. ASSUME NEW d \in Conns, NEW j \in Slots, owner'[j] = d, ClientInfo'[j].servermsg.cc = d
        PROVE  RequestSpent(d)'
    <3>1. CASE j = i
      BY <1>2, <2>2, <2>3, <3>1
    <3>2. CASE j # i
      BY <1>2, <1>3, <2>1, <2>3, <3>2 DEF CardInv, RequestOnce, ClientsOn
    <3> QED
      BY <3>1, <3>2
  <2> QED
    BY <1>6, <2>1, <2>3 DEF CardInv, RequestOnce, ClientsOn
<1>9. ChargedInv'
  <2>1. \A j \in Slots : AtTheBank(j)' => AtTheBank(j) /\ j # i
    BY <1>1, <1>2, <1>6 DEF AtTheBank, Cards
  <2>2. i \notin InHand("BankSend")
    BY <1>2, HandHolds DEF IInv, Threads
  <2>3. \A j \in InHand("BankSend") : j \in Slots
    BY HandHolds DEF IInv, Threads
  <2> QED
    BY <1>3, <2>1, <2>2, <2>3 DEF HandsStay, PeerThreads, CardInv, ChargedInv
<1> QED
  BY <1>7, <1>8, <1>9 DEF CardInv

LEMMA MoveCard ==
    ASSUME IInv, CardInv, [Next]_vars, SlotsMove, HandsStay PROVE CardInv'
<1>1. UNCHANGED owner /\ owner \in [Slots -> Cards] /\ \A i \in Slots : MainPoll'[i].fd = MainPoll[i].fd
  BY DEF SlotsMove, IInv, TypeOK, SlotsOK
<1>2. \A i \in Slots : ClientInfo'[i].servermsg.cc = ClientInfo[i].servermsg.cc
  BY DEF SlotsMove, SlotMoves
<1>3. ClientsOn
  BY ClientsOnStep
<1>4. OwnersKept'
  BY <1>1, <1>2, <1>3 DEF CardInv, OwnersKept, Open, ClientsOn, Cards
<1> DEFINE k == at["BankSend"]
\* A card that is new at the bank belongs to the slot BankSend has in hand.
<1>5. ASSUME NEW c \in Conns, PutToBank(c)' # {}, PutToBank(c) = {}
      PROVE  /\ SendMsg("bank") /\ k \in InHand("BankSend") /\ k \in Slots
             /\ owner[k] = c /\ ClientInfo[k].servermsg.cc = c /\ c # NoConn
  <2>1. SendMsg("bank") /\ k \in InHand("BankSend") /\ k \in Slots /\ c = ClientInfo[k].servermsg.cc
    <3>1. ~ UNCHANGED charged
      BY <1>5 DEF PutToBank
    <3> QED
      BY <1>5, <3>1, ChargeStep
  <2>2. c # NoConn
    BY ConstAssumption DEF ConstAssumption, NoConn
  <2> QED
    BY <2>1, <2>2 DEF CardInv, OwnersKept
<1>6. RequestOnce'
  <2>1. \A c \in Conns : PutToBank(c)' # {} => RequestSpent(c)
    BY <1>5 DEF CardInv, RequestOnce
  <2>2. \A c \in Conns, i \in Slots : owner'[i] = c /\ ClientInfo'[i].servermsg.cc = c => RequestSpent(c)'
    BY <1>1, <1>2, <1>3 DEF CardInv, RequestOnce, ClientsOn
  <2> QED
    BY <1>3, <2>1, <2>2 DEF RequestOnce, ClientsOn
<1>7. /\ \A i \in InHand("BankSend") \cup InHand("BankRecv") : i \notin InHand("DbSend") \cup InHand("DbRecv")
      /\ \A i \in InHand("BankSend") : i \notin InHand("BankRecv") /\ mutex[i] # "none"
      /\ \A i \in InHand("BankSend") : i \in Slots
  BY HandHolds DEF IInv, Threads
<1>8. ASSUME NEW i \in Slots, AtTheBank(i)'
      PROVE  /\ ClientInfo'[i].servermsg.status \in {"BS", "BR"}
             /\ ClientInfo'[i].procStat \notin {"DB_SEND", "DB_RECV"}
             /\ i \notin InHand("DbSend")' \cup InHand("DbRecv")'
  <2>1. owner[i] \in Conns /\ owner[i] # NoConn /\ PutToBank(owner[i])' # {}
    BY <1>1, <1>8 DEF AtTheBank, Cards
  <2>2. CASE PutToBank(owner[i]) # {}
    <3>1. /\ ClientInfo[i].servermsg.status \in {"BS", "BR"}
          /\ ClientInfo[i].procStat \notin {"DB_SEND", "DB_RECV"}
          /\ i \notin InHand("DbSend") \cup InHand("DbRecv")
      BY <2>1, <2>2 DEF AtTheBank, CardInv, ChargedInv
    <3>2. SlotMoves(i)
      BY DEF SlotsMove
    <3> QED
      BY <3>1, <3>2 DEF SlotMoves, HandsStay, PeerThreads
  <2>3. CASE PutToBank(owner[i]) = {}
    <3>1. SendMsg("bank") /\ k \in InHand("BankSend") /\ k \in Slots /\ owner[k] = owner[i]
          /\ ClientInfo[k].servermsg.cc # NoConn
      <4>1. PICK c \in Conns : c = owner[i]
        BY <2>1
      <4>2. PutToBank(c)' # {} /\ PutToBank(c) = {}
        BY <1>1, <2>1, <2>3, <4>1 DEF PutToBank
      <4> QED
        BY <1>5, <4>1, <4>2
    <3>2. k = i
      BY <2>1, <3>1 DEF CardInv, OwnersKept
    <3>3. ClientInfo[i].procStat = "BANK_SEND" /\ i \in InHand("BankSend")
      BY <3>1, <3>2 DEF CardInv, ChargedInv
    <3>4. ClientInfo'[i].servermsg.status = "BS" /\ ClientInfo'[i].procStat = ClientInfo[i].procStat
      <4>1. ClientInfo' = [ClientInfo EXCEPT ![i].servermsg.status = "BS"]
        BY <3>1, <3>2, ThreadNames DEF SendMsg, WithSentStatus, SentStatus
      <4>2. ClientInfo \in [Slots -> InfoType] /\ ClientInfo[i].servermsg \in MsgType /\ ClientInfo[i] \in InfoType
        BY Types, InfoUpdates DEF SlotsOK
      <4> QED
        BY <4>1, <4>2 DEF InfoType, MsgType
    <3> QED
      BY <1>7, <3>3, <3>4 DEF HandsStay, PeerThreads
  <2> QED
    BY <2>2, <2>3
<1>9. ASSUME NEW i \in InHand("BankSend")', ClientInfo'[i].servermsg.cc # NoConn
      PROVE  ClientInfo'[i].procStat = "BANK_SEND"
  <2>1. i \in InHand("BankSend") /\ i \in Slots
    BY <1>7, <1>9 DEF HandsStay, PeerThreads
  <2>2. ClientInfo[i].procStat = "BANK_SEND"
    BY <1>2, <1>9, <2>1 DEF CardInv, ChargedInv
  <2>3. SlotMoves(i)
    BY <2>1 DEF SlotsMove
  <2> QED
    BY <1>7, <1>9, <2>1, <2>2, <2>3 DEF SlotMoves
<1> QED
  BY <1>4, <1>6, <1>8, <1>9 DEF CardInv, ChargedInv

LEMMA CardStep == IInv /\ CardInv /\ [Next]_vars => CardInv'
<1> SUFFICES ASSUME IInv, CardInv, [Next]_vars PROVE CardInv'
  OBVIOUS
<1>1. HandsStay \/ \E t \in PeerThreads : Enters(t)
  BY HandStep DEF HandsStay
<1> QED
  BY <1>1, SlotsMoveStep, EnterCard, AcceptCard, CloseCard, RequestCard, MoveCard

\* When the Timer gives up on a client whose card has gone to the bank, the
\* status of its message tells the operator to look at the bank's books, whatever
\* happened to the slot, the connections and the answers before.
THEOREM ChargesAreFlagged == Spec => ChargedIsFlagged
<1>1. IInv /\ CardInv =>
        \A i \in Slots : owner[i] # NoConn /\ PutToBank(owner[i]) # {}
                         => ClientInfo[i].servermsg.status \in {"BS", "BR"}
  BY DEF CardInv, ChargedInv, AtTheBank
<1>2. IInv /\ CardInv /\ [Next]_vars =>
        \A i \in Slots : /\ pc["Timer"] = "mark" /\ pc'["Timer"] # "mark" /\ at["Timer"] = i
                         /\ owner[i] # NoConn /\ PutToBank(owner[i]) # {}
                         => ClientInfo[i].servermsg.status \in {"BS", "BR"}
  BY <1>1
<1> QED
  BY <1>2, Invariance, CardInit, CardStep, PTL DEF Spec, ChargedIsFlagged
-----------------------------------------------------------------------------
(***************************************************************************)
(* The users that are served.                                              *)
(***************************************************************************)

Conditions == {"timer", "db", "bank"}

\* The mark of a slot goes only when the slot is closed.
LEMMA LiveStep ==
    ASSUME IInv, [Next]_vars, \A c \in Conns : ~AcceptClient(c), NEW i \in Slots, Live(i)'
    PROVE  Live(i)
<1>0. SlotsOK /\ \A j \in Slots : ClientInfo[j] \in InfoType
  BY Types
<1>1. ASSUME ClientInfo'[i].disconStat = "INIT" => ClientInfo[i].disconStat = "INIT",
             MainPoll'[i].fd # NoFd => MainPoll[i].fd # NoFd
      PROVE  Live(i)
  BY <1>1 DEF Live
<1>2. ASSUME SlotsMove, ClientInfo'[i].disconStat = "INIT" => ClientInfo[i].disconStat = "INIT"
      PROVE  Live(i)
  BY <1>1, <1>2 DEF SlotsMove
\* An update of one slot's information that leaves the mark or sets one.
<1>3. ASSUME NEW k, NEW info \in InfoType, ClientInfo' = [ClientInfo EXCEPT ![k] = info],
             info.disconStat \in {ClientInfo[k].disconStat, "AFTER_MSG", "NOW"}
      PROVE  ClientInfo'[i].disconStat = "INIT" => ClientInfo[i].disconStat = "INIT"
  BY <1>0, <1>3 DEF SlotsOK
<1>4. CASE CloseClient
  <2>1. at["Main"] \in Slots
    BY <1>4 DEF CloseClient, IInv, SessionInv, MainAtSlot
  <2>2. i # at["Main"]
    BY <1>0, <1>4, <2>1 DEF CloseClient, SlotsOK, Live, FreePoll
  <2>3. ClientInfo'[i] = ClientInfo[i] /\ MainPoll'[i] = MainPoll[i]
    BY <1>0, <1>4, <2>2 DEF CloseClient, SlotsOK
  <2> QED
    BY <1>1, <2>3
<1>5. ASSUME NEW k \in Slots, RecvStep(k) PROVE Live(i)
  <2>1. ReceivedInfo(k) \in InfoType /\ ReceivedInfo(k).disconStat = ClientInfo[k].disconStat
    <3>1. "CT_REQ_RECV" \in Stages
      BY DEF Stages
    <3> QED
      BY <1>0, <3>1 DEF ReceivedInfo, InfoType
  <2>2. MainPoll'[i].fd # NoFd => MainPoll[i].fd # NoFd
    <3>1. MainPoll' = MainPoll \/ MainPoll' = [MainPoll EXCEPT ![k] = [MainPoll[k] EXCEPT !.events = "toPOLLOUT"]]
      BY <1>5 DEF RecvStep, RecvHangup, RecvOverLimit, RecvControl, RecvInvalid,
                  RecvCompletion, RecvBankRequest, Respond
    <3> QED
      BY <1>0, <3>1, Types DEF SlotsOK, PollType
  <2> DEFINE r == ReceivedInfo(k)
             mx == WithResponse(r, [NoResponse EXCEPT !.kind = "MaxUsers"])
             iv == [WithResponse(r, [NoResponse EXCEPT !.kind = "Invalid"]) EXCEPT !.disconStat = "AFTER_MSG"]
             no == [r EXCEPT !.disconStat = "NOW"]
             ok == WithResponse([r EXCEPT !.procType = "IACTIVE"], [NoResponse EXCEPT !.kind = "Cmd"])
             dn == [r EXCEPT !.procType = "BANK"]
             bk == [r EXCEPT !.procType = "BANK", !.procStat = "DB_SEND",
                             !.servermsg = [BlankMsg EXCEPT !.cc = owner[k]]]
  <2>3. \/ ClientInfo' = ClientInfo
        \/ ClientInfo' = [ClientInfo EXCEPT ![k] = mx]
        \/ ClientInfo' = [ClientInfo EXCEPT ![k] = iv]
        \/ ClientInfo' = [ClientInfo EXCEPT ![k] = no]
        \/ ClientInfo' = [ClientInfo EXCEPT ![k] = ok]
        \/ ClientInfo' = [ClientInfo EXCEPT ![k] = dn]
        \/ ClientInfo' = [ClientInfo EXCEPT ![k] = bk]
    BY <1>5 DEF RecvStep, RecvHangup, RecvOverLimit, RecvControl, RecvInvalid, RecvCompletion,
                RecvBankRequest, Respond, SetClientDisconnect
  <2>4. /\ mx.disconStat = ClientInfo[k].disconStat /\ iv.disconStat = "AFTER_MSG" /\ no.disconStat = "NOW"
        /\ ok.disconStat = ClientInfo[k].disconStat /\ dn.disconStat = ClientInfo[k].disconStat
        /\ bk.disconStat = ClientInfo[k].disconStat
    BY <2>1 DEF WithResponse, InfoType
  <2> HIDE DEF mx, iv, no, ok, dn, bk
  <2>5. ClientInfo'[i].disconStat = "INIT" => ClientInfo[i].disconStat = "INIT"
    BY <1>0, <2>3, <2>4 DEF SlotsOK
  <2> QED
    BY <1>1, <2>2, <2>5
<1>6. CASE CountUsers
  <2> DEFINE k == at["Main"]
  <2>1. UNCHANGED MainPoll
        /\ \/ ClientInfo' = [ClientInfo EXCEPT ![k] = [ClientInfo[k] EXCEPT !.disconStat = "AFTER_MSG"]]
           \/ ClientInfo' = [ClientInfo EXCEPT ![k] = [ClientInfo[k] EXCEPT !.activityTime = "recent"]]
    BY <1>6 DEF CountUsers
  <2> QED
    BY <1>0, <1>1, <2>1 DEF SlotsOK, InfoType
<1>7. ASSUME NEW k \in Slots, SendResponse(k) PROVE Live(i)
  <2>1. ClientInfo' = [ClientInfo EXCEPT ![k] = [ClientInfo[k] EXCEPT !.response = NoResponse]]
    BY <1>7 DEF SendResponse
  <2>2. MainPoll' = MainPoll \/ MainPoll' = [MainPoll EXCEPT ![k] = [MainPoll[k] EXCEPT !.events = "POLLIN"]]
    BY <1>7 DEF SendResponse
  <2> QED
    BY <1>0, <1>1, <2>1, <2>2, Types DEF SlotsOK, InfoType, PollType
<1>8. ASSUME NEW p \in Peers, SenderStep(p) PROVE Live(i)
  <2>1. CASE SendMsg(p) \/ SendReset(p)
    <3> DEFINE k == at[Sender(p)]
    <3>1. ClientInfo' = [ClientInfo EXCEPT ![k] = [ClientInfo[k] EXCEPT !.servermsg =
                            [ClientInfo[k].servermsg EXCEPT !.status = SentStatus(p)]]]
          /\ UNCHANGED MainPoll
      BY <2>1 DEF SendMsg, SendReset, WithSentStatus
    <3> QED
      BY <1>0, <1>1, <3>1 DEF SlotsOK, InfoType
  <2>2. CASE Sent(p)
    BY <1>0, <1>1, <2>2 DEF Sent, SlotsOK, InfoType
  <2>3. CASE \/ Connect(p) \/ SenderSetsWorkPending(p) \/ SenderWait(p) \/ SenderScan(p)
             \/ SenderLock(p) \/ SendFails(p) \/ SenderDown(p) \/ SenderShutdown(p) \/ SenderJoin(p)
    <3>1. UNCHANGED slotVars
      BY <2>3 DEF Connect, SenderSetsWorkPending, SetWorkPending, SenderWait, SenderScan, SenderLock,
                  LockAndCheck, SendFails, SenderDown, SenderShutdown, SenderJoin
    <3> QED
      BY <1>1, <3>1 DEF slotVars
  <2> QED
    BY <1>8, <2>1, <2>2, <2>3 DEF SenderStep
<1>9. ASSUME NEW p \in Peers, ReceiverStep(p) PROVE Live(i)
  <2>1. CASE StoreAudit
    <3> DEFINE k == at["DbRecv"]
               m == [ClientInfo[k].servermsg EXCEPT !.audit = reply["db"], !.status = "DR"]
               info == [ClientInfo[k] EXCEPT !.servermsg = m, !.procStat = "BANK_SEND", !.activityTime = "recent"]
    <3>1. ClientInfo' = [ClientInfo EXCEPT ![k] = info] /\ UNCHANGED MainPoll
      BY <2>1 DEF StoreAudit
    <3>2. k \in Slots
      BY <2>1, AtSlots DEF StoreAudit, Critical, IInv
    <3>3. info.disconStat = ClientInfo[k].disconStat
      BY <1>0, <3>2 DEF InfoType
    <3> HIDE DEF info
    <3> QED
      BY <1>0, <1>1, <3>1, <3>2, <3>3 DEF SlotsOK
  <2>2. CASE StoreVerdict
    <3> DEFINE k == at["BankRecv"]
               m == [ClientInfo[k].servermsg EXCEPT !.verdict = reply["bank"], !.status = "BR"]
               info == WithResponse([ClientInfo[k] EXCEPT !.servermsg = m],
                                    [kind |-> "Bank", cc |-> m.cc, verdict |-> m.verdict])
    <3>1. ClientInfo' = [ClientInfo EXCEPT ![k] = info]
          /\ MainPoll' = [MainPoll EXCEPT ![k] = [MainPoll[k] EXCEPT !.events = "toPOLLOUT"]]
      BY <2>2 DEF StoreVerdict, Respond
    <3>2. k \in Slots
      BY <2>2, AtSlots DEF StoreVerdict, Critical, IInv
    <3>3. info.disconStat = ClientInfo[k].disconStat
      BY <1>0, <3>2 DEF WithResponse, InfoType
    <3> HIDE DEF info
    <3> QED
      BY <1>0, <1>1, <3>1, <3>2, <3>3, Types DEF SlotsOK, PollType
  <2>3. CASE \/ Receive(p) \/ ReceiverLock(p) \/ ReceiverHangup(p) \/ ReceiverEnds(p)
             \/ DbReceiverSetsWorkPending
    <3>1. UNCHANGED slotVars
      BY <2>3 DEF Receive, ReceiverLock, LockAndCheck, ReceiverHangup, ReceiverEnds,
                  DbReceiverSetsWorkPending, SetWorkPending
    <3> QED
      BY <1>1, <3>1 DEF slotVars
  <2> QED
    BY <1>9, <2>1, <2>2, <2>3 DEF ReceiverStep
<1>10. CASE TimerMark
  <2>1. ClientInfo' = [ClientInfo EXCEPT ![at["Timer"]] =
                          [ClientInfo[at["Timer"]] EXCEPT !.disconStat = "NOW"]]
        /\ UNCHANGED MainPoll
    BY <1>10 DEF TimerMark, SetClientDisconnect
  <2> QED
    BY <1>0, <1>1, <2>1 DEF SlotsOK, InfoType
<1>11. ASSUME NEW k \in Slots, TimePasses(k) PROVE Live(i)
  <2>1. ClientInfo' = [ClientInfo EXCEPT ![k] = [ClientInfo[k] EXCEPT !.activityTime = "old"]]
        /\ UNCHANGED MainPoll
    BY <1>11 DEF TimePasses
  <2> QED
    BY <1>0, <1>1, <2>1 DEF SlotsOK, InfoType
<1>12. CASE ReadEvent
  BY <1>0, <1>1, <1>12, Types DEF ReadEvent, DisconnectNext, Polled, PollType
<1>13. ASSUME UNCHANGED slotVars PROVE Live(i)
  BY <1>1, <1>13 DEF slotVars
<1>14. CASE \/ DisconnectClients \/ MainSetsWorkPending \/ LeaveLoop \/ CloseAll \/ WakeThread \/ KillHandler \/ JoinThread
            \/ \E k \in Slots : BlockOnClient(k)
            \/ TimerStep /\ ~TimerMark
  <2>1. UNCHANGED slotVars
    BY <1>14 DEF DisconnectClients, DisconnectNext, MainSetsWorkPending, SetWorkPending, LeaveLoop, CloseAll,
                 WakeThread, KillHandler, JoinThread, BlockOnClient, TimerStep, TimerWait, TimerPass, TimerScan,
                 TimerScanFrom, TimerLock, LockAndCheck, TimerSetsWorkPending, slotVars
  <2> QED
    BY <1>13, <2>1
<1>15. CASE \/ TermAccepted \/ QuitArrives \/ TermArrives \/ IntArrives \/ \E t \in Threads : LockDestroyed(t)
            \/ \E p \in Peers : PeerDown(p) \/ PeerUp(p)
            \/ \E c \in Conns, k \in {"Bank", "Ctrl", "Bad"} :
                 ClientContinues(c) \/ ClientHangup(c) \/ ClientRequest(c, k)
            \/ AtRest \/ UNCHANGED vars
  BY <1>13, <1>15 DEF TermAccepted, QuitArrives, TermArrives, IntArrives, LockDestroyed, PeerDown, PeerUp, ClientContinues,
                      ClientHangup, ClientRequest, serverVars, AtRest, vars
<1> QED
  BY <1>4, <1>5, <1>6, <1>7, <1>8, <1>9, <1>10, <1>11, <1>12, <1>14, <1>15
     DEF Next, ServerStep, Environment, MainStep, MainGoesOn, TimerStep

Ends == \E how \in {"SysExit", "crash", "INT", "orderly"} : Exit(how)
MainRests == pc'["Main"] = pc["Main"] /\ at'["Main"] = at["Main"] /\ UNCHANGED exited

\* Who is not Main leaves Main alone or ends the process.
LEMMA OthersStep ==
    ASSUME IInv, [Next]_vars, ~MainStep, \A c \in Conns : ~AcceptClient(c)
    PROVE  Ends \/ MainRests
<1>0. ThreadTypes /\ "Main" \in Threads
  BY Types, ThreadNames
<1>1. ASSUME NEW t \in Threads \ {"Main"}, NEW l, Goto(t, l), at' = at \/ \E n : AtSlot(t, n), UNCHANGED exited
      PROVE  MainRests
  BY <1>0, <1>1 DEF Goto, AtSlot, ThreadTypes, MainRests
<1>2. ASSUME NEW t \in Threads \ {"Main"}, NEW m \in Conditions, NEW s, NEW l, SetWorkPending(t, m, s, l)
      PROVE  MainRests
  <2>1. Waiter(m) # "Main" /\ UNCHANGED exited
    BY <1>2, Names DEF SetWorkPending, flagVars, Conditions
  <2> QED
    BY <1>0, <1>2, <2>1, WorkPendingMoves DEF MainRests, Conditions
<1>3. CASE TimerStep
  <2>1. "Timer" \in Threads \ {"Main"}
    BY ThreadNames
  <2>2. CASE TimerSetsWorkPending
    BY <1>2, <2>1, <2>2 DEF TimerSetsWorkPending, Conditions
  <2>3. CASE TimerWait \/ TimerPass \/ TimerScan \/ TimerLock \/ TimerMark
    BY <1>1, <2>1, <2>3 DEF TimerWait, TimerPass, TimerScan, TimerScanFrom, TimerLock, LockAndCheck, TimerMark,
                            flagVars
  <2> QED
    BY <1>3, <2>2, <2>3 DEF TimerStep
<1>4. ASSUME NEW p \in Peers, SenderStep(p) PROVE Ends \/ MainRests
  <2>1. Sender(p) \in Threads \ {"Main"} /\ Receiver(p) \in Threads \ {"Main"}
    BY ThreadNames
  <2>2. CASE SenderSetsWorkPending(p)
    BY <1>2, <2>1, <2>2 DEF SenderSetsWorkPending, Peers, Conditions
  <2>3. CASE Connect(p)
    <3>1. at' = at /\ UNCHANGED exited
      BY <2>3 DEF Connect, flagVars
    <3>2. pc' = [pc EXCEPT ![Sender(p)] = "join"] \/ pc' = [pc EXCEPT ![Sender(p)] = "swp", ![Receiver(p)] = "recv"]
      BY <2>3 DEF Connect
    <3>3. pc'["Main"] = pc["Main"]
      BY <1>0, <2>1, <3>2 DEF ThreadTypes
    <3> QED
      BY <3>1, <3>3 DEF MainRests
  <2>4. CASE SendFails(p) \/ SenderShutdown(p)
    BY <1>1, <2>1, <2>4 DEF SendFails, SenderShutdown, Ends
  <2>5. CASE \/ SenderWait(p) \/ SenderScan(p) \/ SenderLock(p) \/ SendMsg(p) \/ SendReset(p) \/ Sent(p)
             \/ SenderDown(p) \/ SenderJoin(p)
    BY <1>1, <2>1, <2>5 DEF SenderWait, SenderScan, SenderLock, LockAndCheck, SendMsg, SendReset, Sent,
                            SenderDown, SenderJoin, flagVars
  <2> QED
    BY <1>4, <2>2, <2>3, <2>4, <2>5 DEF SenderStep
<1>5. ASSUME NEW p \in Peers, ReceiverStep(p) PROVE MainRests
  <2>1. /\ Receiver(p) \in Threads \ {"Main"} /\ Sender(p) \in Threads \ {"Main"}
        /\ {"DbRecv", "BankRecv"} \subseteq Threads \ {"Main"}
    BY ThreadNames
  <2>2. CASE DbReceiverSetsWorkPending
    BY <1>2, <2>1, <2>2 DEF DbReceiverSetsWorkPending, Conditions
  <2>3. CASE ReceiverEnds(p)
    <3>1. at' = at /\ UNCHANGED exited
      BY <2>3 DEF ReceiverEnds, flagVars
    <3>2. \E x : pc' = [pc EXCEPT ![Receiver(p)] = "ended", ![Sender(p)] = x]
      BY <2>3 DEF ReceiverEnds
    <3>3. pc'["Main"] = pc["Main"]
      BY <1>0, <2>1, <3>2 DEF ThreadTypes
    <3> QED
      BY <3>1, <3>3 DEF MainRests
  <2>4. CASE StoreAudit \/ StoreVerdict
    BY <1>1, <2>1, <2>4 DEF StoreAudit, StoreVerdict, flagVars
  <2>5. CASE Receive(p) \/ ReceiverLock(p) \/ ReceiverHangup(p)
    BY <1>1, <2>1, <2>5 DEF Receive, ReceiverLock, LockAndCheck, ReceiverHangup, flagVars
  <2> QED
    BY <1>5, <2>2, <2>3, <2>4, <2>5 DEF ReceiverStep
<1>6. CASE TermAccepted \/ QuitArrives \/ TermArrives \/ IntArrives \/ \E t \in Threads : LockDestroyed(t)
  <2>1. "SignalHandler" \in Threads \ {"Main"}
    BY ThreadNames
  <2> QED
    BY <1>1, <1>6, <2>1 DEF TermAccepted, QuitArrives, TermArrives, IntArrives, LockDestroyed, Ends, flagVars
<1>7. CASE \/ \E i \in Slots : TimePasses(i)
           \/ \E p \in Peers : PeerDown(p) \/ PeerUp(p)
           \/ \E c \in Conns, k \in {"Bank", "Ctrl", "Bad"} :
                ClientContinues(c) \/ ClientHangup(c) \/ ClientRequest(c, k)
           \/ AtRest \/ UNCHANGED vars
  BY <1>7 DEF TimePasses, PeerDown, PeerUp, ClientContinues, ClientHangup, ClientRequest, serverVars,
              AtRest, vars, threadVars, flagVars, MainRests
<1> QED
  BY <1>3, <1>4, <1>5, <1>6, <1>7 DEF Next, ServerStep, Environment

\* A process that has ended stays so.
LEMMA EndedStays == ASSUME [Next]_vars, IInv PROVE exited' = exited \/ (Ends /\ exited' # "no")
<1>1. CASE MainStep \/ \E c \in Conns : AcceptClient(c)
  <2>1. CASE \E i \in Slots : BlockOnClient(i) \/ RecvStep(i) \/ SendResponse(i)
    BY <2>1 DEF BlockOnClient, SendResponse, RecvStep, RecvHangup, RecvOverLimit, RecvControl,
                RecvInvalid, RecvCompletion, RecvBankRequest, Receives, flagVars
  <2>2. CASE LeaveLoop \/ JoinThread
    BY <2>2 DEF LeaveLoop, JoinThread, Ends, Exit
  <2>3. CASE ReadEvent \/ (MainGoesOn /\ ~JoinThread /\ ~LeaveLoop) \/ \E c \in Conns : AcceptClient(c)
    BY <2>3 DEF ReadEvent, DisconnectNext, MainGoesOn, CountUsers, DisconnectClients, CloseClient,
                MainSetsWorkPending, SetWorkPending, CloseAll, WakeThread, KillHandler, AcceptClient, flagVars
  <2> QED
    BY <1>1, <2>1, <2>2, <2>3 DEF MainStep, MainGoesOn
<1>2. CASE ~MainStep /\ \A c \in Conns : ~AcceptClient(c)
  BY <1>2, OthersStep DEF Ends, Exit, MainRests
<1> QED
  BY <1>1, <1>2

LEMMA FiniteSlots == IsFiniteSet(Slots) /\ \A S \in SUBSET Slots : IsFiniteSet(S) /\ Cardinality(S) \in Nat
<1>1. IsFiniteSet(Slots)
  BY ConstAssumption, FS_Interval DEF ConstAssumption, Slots
<1> QED
  BY <1>1, FS_Subset, FS_CardinalityType

LEMMA FewerUsers ==
    ASSUME NEW S \in SUBSET Slots, NEW T \in SUBSET S, Cardinality(S) <= MaxUsers
    PROVE  Cardinality(T) <= MaxUsers
<1>1. Cardinality(T) <= Cardinality(S) /\ Cardinality(S) \in Nat /\ Cardinality(T) \in Nat
  BY FiniteSlots, FS_Subset
<1> QED
  BY <1>1, ConstAssumption DEF ConstAssumption

Users == {i \in Slots : Live(i)} \ BeingCounted

LEMMA UsersInit == Init => UsersBound
<1> SUFFICES ASSUME Init PROVE UsersBound
  OBVIOUS
<1>1. \A i \in Slots : ~Live(i)
  BY DEF Init, Live, FreePoll
<1>2. Users = {}
  BY <1>1 DEF Users
<1> QED
  BY <1>2, FS_EmptySet, ConstAssumption DEF Users, UsersBound, ConstAssumption

LEMMA UsersStep == IInv /\ UsersBound /\ [Next]_vars => UsersBound'
<1> SUFFICES ASSUME IInv, UsersBound, [Next]_vars, exited' = "no" PROVE Cardinality(Users') <= MaxUsers
  BY DEF UsersBound, Users
<1>0. exited = "no" /\ UNCHANGED exited
  BY EndedStays
<1>1. Cardinality(Users) <= MaxUsers /\ Users \in SUBSET Slots
  BY <1>0 DEF UsersBound, Users
<1>2. SUFFICES ASSUME ~CountUsers PROVE Users' \in SUBSET Users
  <2>1. CASE CountUsers
    <3> DEFINE O == {j \in Slots : MainPoll[j].fd # NoFd}
    <3>0. pc["Main"] = "accept" /\ MainPoll' = MainPoll
      BY <2>1 DEF CountUsers
    <3>1. PICK i \in Slots : i = at["Main"]
      BY <3>0 DEF IInv, SessionInv, MainAtSlot
    <3>2. BeingCounted = {i} /\ MainPoll' = MainPoll
      BY <3>0, <3>1 DEF BeingCounted
    <3>3. \A j \in Slots : Live(j)' => Live(j)
      BY <2>1, LiveStep DEF CountUsers, AcceptClient
    <3>4. CASE TooManyUsers(Cardinality(O))
      <4>1. ~Live(i)'
        <5>1. ClientInfo' = [ClientInfo EXCEPT ![i] = [ClientInfo[i] EXCEPT !.disconStat = "AFTER_MSG"]]
          BY <2>1, <3>1, <3>4 DEF CountUsers
        <5>2. ClientInfo'[i].disconStat = "AFTER_MSG"
          BY <3>1, <5>1, Types DEF SlotsOK, InfoType
        <5> QED
          BY <5>2 DEF Live
      <4>2. Users' \in SUBSET Users
        BY <3>2, <3>3, <4>1 DEF Users
      <4> QED
        BY <1>1, <4>2, FewerUsers
    <3>5. CASE ~TooManyUsers(Cardinality(O))
      <4>1. Cardinality(O) <= MaxUsers
        BY <3>5, FiniteSlots, ConstAssumption DEF TooManyUsers, ConstAssumption
      <4>2. Users' \in SUBSET O
        BY <3>3 DEF Users, Live
      <4> QED
        BY <4>1, <4>2, FewerUsers
    <3> QED
      BY <3>4, <3>5
  <2>2. CASE ~CountUsers
    BY <1>1, <1>2, <2>2, FewerUsers
  <2> QED
    BY <2>1, <2>2
<1>3. ASSUME NEW c \in Conns, AcceptClient(c) PROVE Users' \in SUBSET Users
  <2>1. PICK i \in Slots, f \in Fds : MainPoll' = [MainPoll EXCEPT ![i] = [fd |-> f, events |-> "POLLIN"]]
                              /\ AtSlot("Main", i)
    BY <1>3 DEF AcceptClient
  <2>2. pc'["Main"] = "accept" /\ at'["Main"] = i /\ pc["Main"] = "poll" /\ UNCHANGED ClientInfo
    BY <1>3, <2>1, Types, ThreadNames DEF AcceptClient, Goto, AtSlot, ThreadTypes
  <2>3. \A j \in Slots : j # i /\ Live(j)' => Live(j)
    BY <2>1, <2>2, Types DEF Live, SlotsOK
  <2> QED
    BY <2>2, <2>3 DEF Users, BeingCounted
<1>4. ASSUME \A c \in Conns : ~AcceptClient(c) PROVE Users' \in SUBSET Users
  <2>1. \A j \in Slots : Live(j)' => Live(j)
    BY <1>4, LiveStep
  <2>2. pc["Main"] = "accept" => pc'["Main"] = "accept" /\ at'["Main"] = at["Main"]
    <3>1. CASE MainStep
      BY <1>2, <3>1 DEF MainStep, MainGoesOn, DisconnectClients, CloseClient, MainSetsWorkPending,
                        LeaveLoop, CloseAll, WakeThread, KillHandler, JoinThread, ReadEvent, BlockOnClient, SendResponse,
                        Serves, RecvStep, RecvHangup, RecvOverLimit, RecvControl, RecvInvalid,
                        RecvCompletion, RecvBankRequest, Receives
    <3>2. CASE ~MainStep
      <4>1. ~Ends
        BY <1>0 DEF Ends, Exit
      <4> QED
        BY <1>4, <3>2, <4>1, OthersStep DEF MainRests
    <3> QED
      BY <3>1, <3>2
  <2> QED
    BY <2>1, <2>2 DEF Users, BeingCounted
<1> QED
  BY <1>3, <1>4

\* The server never serves more than maxUsers clients at a time.
THEOREM UsersAreLimited == Spec => []UsersBound
BY Invariance, UsersInit, UsersStep, PTL DEF Spec
-----------------------------------------------------------------------------
(***************************************************************************)
(* The wake-ups.                                                           *)
(***************************************************************************)

HasWork(m) == \E i \in Slots : Work(m, i)
WakeAt(m) ==
    /\ pc[Waiter(m)] \in {"wait", "condwait"} /\ HasWork(m)
          => Waker(m) \/ workPending[m] \/ exited # "no"
    /\ pc[Waiter(m)] = "condwait" => ~workPending[m]

\* New work comes with somebody who is about to tell.
LEMMA NewWork ==
    ASSUME IInv, CardInv, [Next]_vars, NEW m \in Conditions, HasWork(m)' PROVE HasWork(m) \/ Waker(m)'
<1>0. ThreadTypes /\ SlotsOK /\ \A j \in Slots : ClientInfo[j] \in InfoType
  BY Types
<1>1. PICK i \in Slots : Work(m, i)'
  BY DEF HasWork
<1>2. /\ Live(i)'
      /\ m # "timer" => ClientInfo'[i].procStat = SendStage(m) /\ ClientInfo'[i].servermsg.cc # NoConn
  BY <1>1 DEF Work, Pending
<1>3. ASSUME Live(i), m # "timer" => ClientInfo'[i].procStat = ClientInfo[i].procStat
                                     /\ ClientInfo'[i].servermsg.cc = ClientInfo[i].servermsg.cc
      PROVE  HasWork(m)
  BY <1>2, <1>3 DEF HasWork, Work, Pending
<1>4. ASSUME NEW c \in Conns, AcceptClient(c) PROVE HasWork(m) \/ Waker(m)'
  <2>1. CASE m = "timer"
    BY <1>0, <1>4, <2>1, ThreadNames DEF AcceptClient, Goto, ThreadTypes, Waker
  <2>2. CASE m # "timer"
    <3>1. PICK k \in Slots, f \in Fds : /\ MainPoll[k].fd = NoFd
                                        /\ MainPoll' = [MainPoll EXCEPT ![k] = [fd |-> f, events |-> "POLLIN"]]
      BY <1>4 DEF AcceptClient, IsFirst
    <3>2. UNCHANGED ClientInfo
      BY <1>4 DEF AcceptClient
    <3>3. ClientInfo[k].servermsg.cc = NoConn
      BY <3>1 DEF CardInv, OwnersKept, Open
    <3>4. i # k
      BY <1>2, <2>2, <3>2, <3>3
    <3>5. Live(i)
      BY <1>0, <1>2, <3>1, <3>2, <3>4 DEF Live, SlotsOK
    <3> QED
      BY <1>3, <3>2, <3>5
  <2> QED
    BY <2>1, <2>2
<1>5. ASSUME \A c \in Conns : ~AcceptClient(c) PROVE Live(i)
  BY <1>2, <1>5, LiveStep
<1>6. CASE CloseClient
  <2>1. PICK k \in Slots : k = at["Main"]
    BY <1>6 DEF CloseClient, IInv, SessionInv, MainAtSlot
  <2>2. /\ MainPoll' = [MainPoll EXCEPT ![k] = FreePoll]
        /\ ClientInfo' = [ClientInfo EXCEPT ![k] = FreeInfo]
    BY <1>6, <2>1 DEF CloseClient
  <2>3. i # k
    BY <1>0, <1>2, <2>2 DEF Live, FreePoll, SlotsOK
  <2>4. ClientInfo'[i] = ClientInfo[i] /\ Live(i)
    BY <1>0, <1>2, <2>2, <2>3 DEF Live, SlotsOK
  <2> QED
    BY <1>3, <2>4
<1>7. ASSUME NEW k \in Slots, RecvBankRequest(k), \A c \in Conns : ~AcceptClient(c)
      PROVE  HasWork(m) \/ Waker(m)'
  <2>1. pc'["Main"] = "swpDb"
    BY <1>0, <1>7, ThreadNames DEF RecvBankRequest, Goto, ThreadTypes
  <2>2. CASE m = "db"
    BY <2>1, <2>2 DEF Waker
  <2>3. CASE m = "timer"
    BY <1>3, <1>5, <1>7, <2>3
  <2>4. CASE m = "bank"
    <3> DEFINE info == [ReceivedInfo(k) EXCEPT !.procType = "BANK", !.procStat = "DB_SEND",
                                               !.servermsg = [BlankMsg EXCEPT !.cc = owner[k]]]
    <3>1. ClientInfo' = [ClientInfo EXCEPT ![k] = info]
      BY <1>7 DEF RecvBankRequest
    <3>2. info.procStat = "DB_SEND"
      BY <1>0 DEF ReceivedInfo, InfoType
    <3> HIDE DEF info
    <3>3. i # k
      BY <1>0, <1>2, <2>4, <3>1, <3>2 DEF SendStage, SlotsOK
    <3>4. ClientInfo'[i] = ClientInfo[i]
      BY <1>0, <3>1, <3>3 DEF SlotsOK
    <3> QED
      BY <1>3, <1>5, <1>7, <3>4
  <2> QED
    BY <2>2, <2>3, <2>4 DEF Conditions
<1>8. CASE SlotsMove /\ \A c \in Conns : ~AcceptClient(c)
  <2>1. SlotMoves(i) /\ Live(i)
    BY <1>5, <1>8 DEF SlotsMove
  <2>2. CASE m = "timer"
    BY <1>3, <2>1, <2>2
  <2>3. CASE m = "db" \/ (m = "bank" /\ ~StoreAudit)
    <3>1. ClientInfo'[i].procStat = ClientInfo[i].procStat
      BY <1>2, <2>1, <2>3 DEF SlotMoves, SendStage
    <3> QED
      BY <1>3, <2>1, <3>1 DEF SlotMoves
  <2>4. CASE m = "bank" /\ StoreAudit
    BY <1>0, <2>4, ThreadNames DEF StoreAudit, Goto, ThreadTypes, Waker
  <2> QED
    BY <2>2, <2>3, <2>4 DEF Conditions
<1> QED
  BY <1>4, <1>6, <1>7, <1>8, SlotsMoveStep

\* A step that leaves the flags and whoever is on the way to set one, and after
\* which only those wait that waited before, or that found their flag reset.
LEMMA WakeKept ==
    ASSUME IInv, CardInv, WakeInv, [Next]_vars, NEW m \in Conditions, workPending'[m] = workPending[m],
           pc'[Waiter(m)] \in {"wait", "condwait"} => pc[Waiter(m)] \in {"wait", "condwait"},
           pc'[Waiter(m)] = "condwait" => pc[Waiter(m)] = "condwait" \/ ~workPending[m],
           Waker(m) => Waker(m)'
    PROVE  WakeAt(m)'
<1>1. exited # "no" => exited' # "no"
  BY EndedStays
<1>2. HasWork(m)' => HasWork(m) \/ Waker(m)'
  BY NewWork
<1> QED
  BY <1>1, <1>2 DEF WakeInv, FlagTold, WaitsUnflagged, WakeAt, HasWork, Conditions

LEMMA WakeParts ==
    /\ (\A m \in Conditions : WakeAt(m)) => WakeInv
    /\ (\A m \in Conditions : WakeAt(m)') => WakeInv'
BY DEF WakeInv, FlagTold, WaitsUnflagged, WakeAt, HasWork, Conditions

LEMMA WakeInit == Init => WakeInv
<1> SUFFICES ASSUME Init PROVE WakeInv
  OBVIOUS
<1>1. \A i \in Slots : ~Live(i)
  BY DEF Init, Live, FreePoll
<1>2. \A m \in Conditions : ~HasWork(m)
  BY <1>1 DEF HasWork, Work, Pending
<1>3. \A m \in Conditions : workPending[m] = FALSE
  BY DEF Init, Conditions
<1> QED
  BY <1>2, <1>3, WakeParts DEF WakeAt

LEMMA WakeExit == ASSUME NEW how, Exit(how) PROVE WakeInv'
<1>1. \A t \in Threads : pc'[t] = "exited"
  BY DEF Exit
<1>2. pc'["Timer"] = "exited" /\ pc'["DbSend"] = "exited" /\ pc'["BankSend"] = "exited"
  BY <1>1, ThreadNames
<1> QED
  BY <1>2, Names DEF WakeInv, FlagTold, WaitsUnflagged

\* set...WorkPending makes good for its own condition, if whoever runs it waits on
\* the condition itself or signals it.
LEMMA WakeTold ==
    ASSUME IInv, CardInv, WakeInv, [Next]_vars, NEW t \in Threads, NEW m \in Conditions, NEW s, NEW l,
           SetWorkPending(t, m, s, l), IF t = Waiter(m) THEN l # "condwait" ELSE s = TRUE
    PROVE  WakeAt(m)'
<1>0. /\ ThreadTypes /\ workPending \in [Conditions -> BOOLEAN] /\ Waiter(m) \in Threads
      /\ UNCHANGED slotVars
  BY Types, ThreadNames DEF IInv, TypeOK, LocksOK, Conditions, SetWorkPending
<1> DEFINE pending == \E i \in Slots : Pending(m, i)
<1>1. HasWork(m)' => pending
  BY <1>0 DEF HasWork, Work, Pending, Live, slotVars
<1>2. CASE \A i \in ScanLocks(m) : mutex[i] = "none"
  <2>1. workPending'[m] = pending
    BY <1>0, <1>2 DEF SetWorkPending, Conditions
  <2>2. CASE t = Waiter(m)
    <3>1. pc'[t] = IF Waits(m, pending) THEN "condwait" ELSE l
      BY <1>0, <1>2, <2>2 DEF SetWorkPending, ThreadTypes
    <3>2. pc'[Waiter(m)] = "condwait" => ~pending
      BY <2>2, <3>1 DEF Waits
    <3> QED
      BY <1>1, <2>1, <3>2 DEF WakeAt
  <2>3. CASE t # Waiter(m)
    <3>1. pc'[Waiter(m)] = IF pending /\ pc[Waiter(m)] = "condwait" THEN "wait" ELSE pc[Waiter(m)]
      BY <1>0, <1>2, <2>3 DEF SetWorkPending, ThreadTypes
    <3> QED
      BY <1>1, <2>1, <3>1 DEF WakeAt
  <2> QED
    BY <2>2, <2>3
<1>3. CASE ~(\A i \in ScanLocks(m) : mutex[i] = "none")
  <2>1. UNCHANGED <<workPending, pc>>
    BY <1>3 DEF SetWorkPending
  <2> QED
    BY <2>1, WakeKept DEF Waker
<1> QED
  BY <1>2, <1>3

\* ... and does not disturb the other conditions.
LEMMA WakeOthers ==
    ASSUME IInv, CardInv, WakeInv, [Next]_vars, NEW t \in Threads, NEW m \in Conditions, NEW s, NEW l,
           SetWorkPending(t, m, s, l), NEW n \in Conditions \ {m}, t # Waiter(n), Waker(n) => Waker(n)'
    PROVE  WakeAt(n)'
<1>0. /\ ThreadTypes /\ workPending \in [Conditions -> BOOLEAN] /\ Waiter(n) \in Threads /\ Waiter(n) # Waiter(m)
  BY Types, ThreadNames DEF IInv, TypeOK, LocksOK, Conditions
<1>1. workPending'[n] = workPending[n]
  <2>1. \/ UNCHANGED workPending
        \/ \E x : workPending' = [workPending EXCEPT ![m] = x]
    BY DEF SetWorkPending
  <2> QED
    BY <1>0, <2>1
<1>2. pc'[Waiter(n)] = pc[Waiter(n)]
  BY <1>0, WorkPendingMoves DEF Conditions
<1> QED
  BY <1>1, <1>2, WakeKept DEF WakeInv, WaitsUnflagged, Conditions

LEMMA WakeSets ==
    ASSUME IInv, CardInv, WakeInv, [Next]_vars,
           \/ MainSetsWorkPending \/ TimerSetsWorkPending \/ DbReceiverSetsWorkPending
           \/ \E p \in Peers : SenderSetsWorkPending(p)
    PROVE  WakeInv'
<1>0. ThreadTypes
  BY Types
<1>1. CASE MainSetsWorkPending
  <2>1. ASSUME pc["Main"] = "swpTimer", SetWorkPending("Main", "timer", TRUE, back) PROVE WakeInv'
    <3>1. WakeAt("timer")'
      BY <2>1, WakeTold, ThreadNames DEF Conditions
    <3>2. pc'["DbRecv"] = pc["DbRecv"]
      BY <1>0, <2>1, WorkPendingMoves, ThreadNames
    <3>3. \A n \in Conditions \ {"timer"} : Waker(n) => Waker(n)'
      BY <2>1, <3>2 DEF Waker, Conditions
    <3>4. \A n \in Conditions \ {"timer"} : WakeAt(n)'
      BY <2>1, <3>3, WakeOthers, Names, ThreadNames DEF Conditions
    <3> QED
      BY <3>1, <3>4, WakeParts
  <2>2. ASSUME pc["Main"] = "swpDb", SetWorkPending("Main", "db", TRUE, "poll") PROVE WakeInv'
    <3>1. WakeAt("db")'
      BY <2>2, WakeTold, ThreadNames DEF Conditions
    <3>2. pc'["DbRecv"] = pc["DbRecv"]
      BY <1>0, <2>2, WorkPendingMoves, ThreadNames
    <3>3. \A n \in Conditions \ {"db"} : Waker(n) => Waker(n)'
      BY <2>2, <3>2 DEF Waker, Conditions
    <3>4. \A n \in Conditions \ {"db"} : WakeAt(n)'
      BY <2>2, <3>3, WakeOthers, Names, ThreadNames DEF Conditions
    <3> QED
      BY <3>1, <3>4, WakeParts
  <2> QED
    BY <1>1, <2>1, <2>2 DEF MainSetsWorkPending
<1>2. ASSUME NEW m \in Conditions, SetWorkPending(Waiter(m), m, FALSE, "wait") PROVE WakeInv'
  <2>0. Waiter(m) \in Threads \ {"Main", "DbRecv"} /\ \A n \in Conditions \ {m} : Waiter(n) # Waiter(m)
    BY ThreadNames DEF Conditions
  <2>1. WakeAt(m)'
    BY <1>2, <2>0, WakeTold
  <2>2. pc'["Main"] = pc["Main"] /\ pc'["DbRecv"] = pc["DbRecv"]
    BY ZenonT(60), <1>0, <1>2, <2>0, WorkPendingMoves, ThreadNames DEF Conditions
  <2>3. \A n \in Conditions : Waker(n) => Waker(n)'
    BY <2>2 DEF Waker
  <2>4. \A n \in Conditions \ {m} : WakeAt(n)'
    BY <1>2, <2>0, <2>3, WakeOthers
  <2> QED
    BY <2>1, <2>4, WakeParts
<1>3. CASE DbReceiverSetsWorkPending
  <2>0. pc["DbRecv"] = "swp" /\ SetWorkPending("DbRecv", "bank", TRUE, "recv")
    BY <1>3 DEF DbReceiverSetsWorkPending
  <2>1. WakeAt("bank")'
    BY <2>0, WakeTold, ThreadNames DEF Conditions
  <2>2. pc'["Main"] = pc["Main"]
    BY <1>0, <2>0, WorkPendingMoves, ThreadNames
  <2>3. \A n \in Conditions \ {"bank"} : Waker(n) => Waker(n)'
    BY <2>2 DEF Waker, Conditions
  <2>4. \A n \in Conditions \ {"bank"} : WakeAt(n)'
    BY <2>0, <2>3, WakeOthers, Names, ThreadNames DEF Conditions
  <2> QED
    BY <2>1, <2>4, WakeParts
<1>4. CASE TimerSetsWorkPending
  BY <1>2, <1>4, ThreadNames DEF TimerSetsWorkPending, Conditions
<1>5. ASSUME NEW p \in Peers, SenderSetsWorkPending(p) PROVE WakeInv'
  <2>1. p \in Conditions /\ Waiter(p) = Sender(p)
    BY ThreadNames DEF Conditions
  <2> QED
    BY <1>2, <1>5, <2>1 DEF SenderSetsWorkPending
<1> QED
  BY <1>1, <1>3, <1>4, <1>5

\* A step in which one thread goes on, does not begin to wait, unless it found its
\* flag reset, and is not on its way to set a flag.
LEMMA WakeGoto ==
    ASSUME IInv, CardInv, WakeInv, [Next]_vars, UNCHANGED workPending, NEW t \in Threads, NEW l, Goto(t, l),
           t = "Main" => pc[t] \notin {"accept", "swpTimer", "swpDb"} \/ (pc[t] = "accept" /\ l = "swpTimer"),
           t = "DbRecv" => pc[t] # "swp",
           \A m \in Conditions : t = Waiter(m) =>
                 \/ l \notin {"wait", "condwait"}
                 \/ l = "condwait" /\ pc[t] = "wait" /\ ~workPending[m]
    PROVE  WakeInv'
<1>0. ThreadTypes
  BY Types
<1>1. pc'[t] = l /\ \A u \in Threads : u # t => pc'[u] = pc[u]
  BY <1>0 DEF Goto, ThreadTypes
<1>2. \A m \in Conditions : Waker(m) => Waker(m)'
  BY <1>1, ThreadNames DEF Waker, Conditions
<1>3. ASSUME NEW m \in Conditions PROVE WakeAt(m)'
  <2>1. Waiter(m) \in Threads
    BY ThreadNames DEF Conditions
  <2> QED
    BY <1>1, <1>2, <2>1, WakeKept
<1> QED
  BY <1>3, WakeParts

\* A step that leaves the threads.
LEMMA WakeStill ==
    ASSUME IInv, CardInv, WakeInv, [Next]_vars, UNCHANGED <<workPending, pc>> PROVE WakeInv'
BY WakeKept, WakeParts DEF Waker

\* A step in which a thread ends its waiting.
LEMMA WakeRoused ==
    ASSUME IInv, CardInv, WakeInv, [Next]_vars, UNCHANGED workPending,
           NEW m \in Conditions, NEW t \in Threads \ {Waiter(m)}, NEW l \in Labels \ {"wait", "condwait"},
           pc[t] \in {"wake", "closing"},
           pc' = [pc EXCEPT ![t] = l, ![Waiter(m)] = IF @ = "condwait" THEN "wait" ELSE @]
    PROVE  WakeInv'
<1>0. ThreadTypes /\ \A n \in Conditions : Waiter(n) \in Threads
  BY Types, ThreadNames DEF Conditions
<1>1. /\ pc'[t] = l /\ \A u \in Threads : u # t /\ u # Waiter(m) => pc'[u] = pc[u]
      /\ pc'[Waiter(m)] = IF pc[Waiter(m)] = "condwait" THEN "wait" ELSE pc[Waiter(m)]
  BY <1>0 DEF ThreadTypes
<1>2. \A n \in Conditions : Waker(n) => Waker(n)'
  BY <1>1, ThreadNames, Names DEF Waker, Conditions
<1>3. ASSUME NEW n \in Conditions PROVE WakeAt(n)'
  <2>1. CASE Waiter(n) = t \/ Waiter(n) = Waiter(m)
    BY <1>1, <1>2, <2>1, WakeKept
  <2>2. CASE Waiter(n) # t /\ Waiter(n) # Waiter(m)
    BY <1>0, <1>1, <1>2, <2>2, WakeKept
  <2> QED
    BY <2>1, <2>2
<1> QED
  BY <1>3, WakeParts

LEMMA WakeMainStep ==
    ASSUME IInv, CardInv, EndInv, WakeInv, [Next]_vars, MainStep \/ \E c \in Conns : AcceptClient(c)
    PROVE  WakeInv'
<1>0. /\ "Main" \in Threads /\ "Main" # "DbRecv" /\ \A m \in Conditions : "Main" # Waiter(m)
      /\ pc["Main"] \in Labels
  BY Types, ThreadNames DEF Conditions, ThreadTypes
<1>1. ASSUME UNCHANGED workPending, NEW l, Goto("Main", l),
             pc["Main"] \notin {"accept", "swpTimer", "swpDb"} \/ (pc["Main"] = "accept" /\ l = "swpTimer")
      PROVE  WakeInv'
  BY <1>0, <1>1, WakeGoto
<1>2. CASE MainSetsWorkPending
  BY <1>2, WakeSets
<1>3. CASE CountUsers
  BY <1>1, <1>3 DEF CountUsers, lockVars
<1>4. CASE WakeThread
  <2>1. PICK m \in Conditions : m = EndOrder[at["Main"]]
    BY <1>4, Types DEF WakeThread, Conditions, EndOrder, EndInv, JoinedInOrder
  <2>2. /\ pc["Main"] = "wake" /\ UNCHANGED workPending
        /\ pc' = [pc EXCEPT !["Main"] = "join", ![Waiter(m)] = IF @ = "condwait" THEN "wait" ELSE @]
    BY <1>4, <2>1 DEF WakeThread, lockVars
  <2> QED
    BY <1>0, <2>2, WakeRoused DEF Labels
<1>5. CASE ReadEvent \/ DisconnectClients \/ CloseClient \/ CloseAll
  BY <1>1, <1>5 DEF ReadEvent, DisconnectClients, DisconnectNext, CloseClient, CloseAll, lockVars
<1>6. CASE LeaveLoop \/ KillHandler \/ JoinThread
  BY <1>1, <1>6, WakeExit DEF LeaveLoop, KillHandler, JoinThread, lockVars
<1>7. ASSUME NEW i \in Slots, RecvStep(i) PROVE WakeInv'
  BY <1>1, <1>7 DEF RecvStep, RecvHangup, RecvOverLimit, RecvControl, RecvInvalid,
                    RecvCompletion, RecvBankRequest, Receives, Serves, lockVars
<1>8. ASSUME NEW i \in Slots, BlockOnClient(i) \/ SendResponse(i) PROVE WakeInv'
  BY <1>1, <1>8 DEF BlockOnClient, SendResponse, Serves, lockVars
<1>9. ASSUME NEW c \in Conns, AcceptClient(c) PROVE WakeInv'
  BY <1>1, <1>9 DEF AcceptClient, lockVars
<1> QED
  BY <1>2, <1>3, <1>4, <1>5, <1>6, <1>7, <1>8, <1>9 DEF MainStep, MainGoesOn

LEMMA WakeTimerStep == ASSUME IInv, CardInv, WakeInv, [Next]_vars, TimerStep PROVE WakeInv'
<1>0. /\ "Timer" \in Threads \ {"Main", "DbRecv"} /\ "timer" \in Conditions
      /\ \A m \in Conditions : "Timer" = Waiter(m) => m = "timer"
  BY ThreadNames DEF Conditions
<1>1. ASSUME UNCHANGED workPending, NEW l, Goto("Timer", l),
             \/ l \notin {"wait", "condwait"}
             \/ l = "condwait" /\ pc["Timer"] = "wait" /\ ~workPending["timer"]
      PROVE  WakeInv'
  BY <1>0, <1>1, WakeGoto
<1>2. CASE TimerSetsWorkPending
  BY <1>2, WakeSets
<1>3. CASE TimerWait
  BY <1>1, <1>3 DEF TimerWait, Waits, lockVars
<1>4. CASE TimerPass \/ TimerScan \/ TimerLock \/ TimerMark
  BY <1>1, <1>4 DEF TimerPass, TimerScan, TimerScanFrom, TimerLock, LockAndCheck, TimerMark, lockVars
<1> QED
  BY <1>2, <1>3, <1>4 DEF TimerStep

LEMMA WakeSenderStep ==
    ASSUME IInv, CardInv, WakeInv, [Next]_vars, NEW p \in Peers, SenderStep(p) PROVE WakeInv'
<1> DEFINE t == Sender(p)
<1>0. /\ t \in Threads \ {"Main", "DbRecv"} /\ p \in Conditions
      /\ \A m \in Conditions : t = Waiter(m) => m = p
  BY ThreadNames DEF Conditions
<1>1. ASSUME UNCHANGED workPending, NEW l, Goto(t, l),
             \/ l \notin {"wait", "condwait"}
             \/ l = "condwait" /\ pc[t] = "wait" /\ ~workPending[p]
      PROVE  WakeInv'
  BY <1>0, <1>1, WakeGoto
<1>2. CASE SenderSetsWorkPending(p)
  BY <1>2, WakeSets
<1>3. CASE SenderWait(p)
  BY <1>1, <1>3 DEF SenderWait, lockVars
<1>4. CASE Connect(p)
  <2>1. UNCHANGED workPending
    BY <1>4 DEF Connect, lockVars
  <2>2. CASE OrderlyShutdown
    BY <1>1, <1>4, <2>1, <2>2 DEF Connect, Goto
  <2>3. CASE ~OrderlyShutdown
    <3>1. pc' = [pc EXCEPT ![t] = "swp", ![Receiver(p)] = "recv"] /\ pc[Receiver(p)] # "swp"
      BY <1>4, <2>3 DEF Connect
    <3>2. ThreadTypes /\ Receiver(p) \in Threads /\ \A m \in Conditions : Waiter(m) \in Threads \ {Receiver(p)}
      BY Types, ThreadNames DEF Conditions
    <3>3. \A m \in Conditions : pc'[Waiter(m)] = pc[Waiter(m)] \/ pc'[Waiter(m)] = "swp"
      BY <3>1, <3>2 DEF ThreadTypes
    <3>4. pc'["Main"] = pc["Main"] /\ (pc["DbRecv"] = "swp" => pc'["DbRecv"] = "swp")
      BY <1>0, <3>1, <3>2, ThreadNames DEF ThreadTypes
    <3>5. \A m \in Conditions : Waker(m) => Waker(m)'
      BY <3>4 DEF Waker, Conditions
    <3>6. \A m \in Conditions : WakeAt(m)'
      BY <2>1, <3>3, <3>5, WakeKept
    <3> QED
      BY <3>6, WakeParts
  <2> QED
    BY <2>2, <2>3
<1>5. CASE \/ SenderScan(p) \/ SenderLock(p) \/ SendMsg(p) \/ SendReset(p) \/ Sent(p)
           \/ SenderDown(p) \/ SenderJoin(p)
  BY <1>1, <1>5 DEF SenderScan, SenderLock, LockAndCheck, SendMsg, SendReset, Sent, AfterSend,
                    SenderDown, SenderJoin, lockVars
<1>6. CASE SendFails(p) \/ SenderShutdown(p)
  BY <1>1, <1>6, WakeExit DEF SendFails, SenderShutdown, lockVars
<1> QED
  BY <1>2, <1>3, <1>4, <1>5, <1>6 DEF SenderStep

LEMMA WakeReceiverStep ==
    ASSUME IInv, CardInv, WakeInv, [Next]_vars, NEW p \in Peers, ReceiverStep(p) PROVE WakeInv'
<1>0. /\ {Receiver(p), "DbRecv", "BankRecv"} \subseteq Threads \ {"Main"} /\ p \in Conditions
      /\ Waiter(p) = Sender(p) /\ Receiver(p) \in {"DbRecv", "BankRecv"}
      /\ \A m \in Conditions : Waiter(m) \notin {"DbRecv", "BankRecv"}
  BY ThreadNames DEF Conditions
<1>1. ASSUME UNCHANGED workPending, NEW t \in {"DbRecv", "BankRecv"}, NEW l, Goto(t, l), pc[t] # "swp"
      PROVE  WakeInv'
  BY <1>0, <1>1, WakeGoto
<1>2. CASE DbReceiverSetsWorkPending
  BY <1>2, WakeSets
<1>3. CASE ReceiverEnds(p)
  <2>1. /\ pc[Receiver(p)] = "closing" /\ UNCHANGED workPending
        /\ pc' = [pc EXCEPT ![Receiver(p)] = "ended", ![Waiter(p)] = IF @ = "condwait" THEN "wait" ELSE @]
    BY <1>0, <1>3 DEF ReceiverEnds, lockVars
  <2> QED
    BY <1>0, <2>1, WakeRoused DEF Labels
<1>4. CASE StoreAudit \/ StoreVerdict
  BY <1>1, <1>4 DEF StoreAudit, StoreVerdict, lockVars
<1>5. CASE Receive(p) \/ ReceiverLock(p) \/ ReceiverHangup(p)
  BY <1>0, <1>1, <1>5 DEF Receive, ReceiverLock, LockAndCheck, ReceiverHangup, lockVars
<1> QED
  BY <1>2, <1>3, <1>4, <1>5 DEF ReceiverStep

LEMMA WakeStep == IInv /\ CardInv /\ EndInv /\ WakeInv /\ [Next]_vars => WakeInv'
<1> SUFFICES ASSUME IInv, CardInv, EndInv, WakeInv, [Next]_vars PROVE WakeInv'
  OBVIOUS
<1>1. CASE MainStep \/ \E c \in Conns : AcceptClient(c)
  BY <1>1, WakeMainStep
<1>2. CASE TimerStep \/ \E p \in Peers : SenderStep(p) \/ ReceiverStep(p)
  BY <1>2, WakeTimerStep, WakeSenderStep, WakeReceiverStep
<1>3. CASE TermAccepted \/ QuitArrives \/ TermArrives
  <2>1. /\ "SignalHandler" \in Threads \ {"Main", "DbRecv"} /\ UNCHANGED workPending
        /\ \A m \in Conditions : "SignalHandler" # Waiter(m)
    BY <1>3, ThreadNames DEF TermAccepted, QuitArrives, TermArrives, lockVars, Conditions
  <2> QED
    BY <1>3, <2>1, WakeGoto DEF TermAccepted, QuitArrives, TermArrives
<1>4. CASE IntArrives \/ \E t \in Threads : LockDestroyed(t)
  BY <1>4, WakeExit DEF IntArrives, LockDestroyed
<1>5. CASE \/ \E i \in Slots : TimePasses(i)
           \/ \E p \in Peers : PeerDown(p) \/ PeerUp(p)
           \/ \E c \in Conns, k \in {"Bank", "Ctrl", "Bad"} :
                ClientContinues(c) \/ ClientHangup(c) \/ ClientRequest(c, k)
           \/ AtRest \/ UNCHANGED vars
  BY <1>5, WakeStill DEF TimePasses, PeerDown, PeerUp, ClientContinues, ClientHangup, ClientRequest,
                         serverVars, AtRest, vars, threadVars, lockVars
<1> QED
  BY <1>1, <1>2, <1>3, <1>4, <1>5 DEF Next, ServerStep, Environment

\* Nobody stays blocked on a condition while a client has work for it, without
\* another thread being on its way to set the flag and to signal.
THEOREM WakeupsArrive == Spec => []NoLostWakeup
<1>1. WakeInv => NoLostWakeup
  BY DEF WakeInv, FlagTold, WaitsUnflagged, NoLostWakeup
<1> QED
  BY <1>1, Invariance, EndInit, EndStep, CardInit, CardStep, WakeInit, WakeStep, PTL DEF Spec
=============================================================================
