------------------------- MODULE MyServerCardProofs -------------------------
(***************************************************************************)
(* Proofs about the payment server: a client is told the verdict on its    *)
(* own card, and what happens to its request is what CardApproval says.    *)
(*                                                                         *)
(* The code keeps this up only as long as Main closes no slot on which     *)
(* another thread is at work (ClosedIdle), and dbserver does not begin to  *)
(* count again (AuditsGoOn); these two are hypotheses of the theorems.     *)
(* HonestInv is inductive then, relative to IInv and CardInv: it says of   *)
(* every slot, every client and every message at a peer whose request it   *)
(* belongs to.  One lemma per action shows that the action keeps it; what  *)
(* an action leaves alone is handled by frame lemmas.                      *)
(***************************************************************************)
EXTENDS MyServerRequestProofs

-----------------------------------------------------------------------------
(***************************************************************************)
(* What each part of HonestInv depends on.                                 *)
(***************************************************************************)

\* A step leaves of slot i, of client c and of the books what HonestInv looks at.
SlotKept(i) == LET x == ClientInfo[i] y == ClientInfo'[i] IN
    /\ owner'[i] = owner[i] /\ y.servermsg.cc = x.servermsg.cc /\ y.servermsg.audit = x.servermsg.audit
    /\ y.procStat = x.procStat /\ y.response = x.response
    /\ y.disconStat = "AFTER_MSG" => x.disconStat = "AFTER_MSG"
ClientKept(c) == phase'[c] = phase[c] /\ inbox'[c] = inbox[c] /\ got'[c] = got[c]
BooksKept == UNCHANGED charged /\ issued \subseteq issued'

\* Slot i, when at most its own message is new at the bank.
LEMMA SlotGrows ==
    ASSUME NEW i \in Slots, SlotHonest(i), SlotKept(i), charged \subseteq charged', issued \subseteq issued',
           \A m \in charged' \ charged : owner[i] = m.cc => ClientInfo[i].servermsg.audit = m.key,
           owner[i] # NoConn => ClientKept(owner[i])
    PROVE  SlotHonest(i)'
<1>1. RequestOf(i)'
  BY DEF SlotHonest, RequestOf, SlotKept, ClientKept, HasResponse
<1>2. AtTheBank(i) => AtTheBank(i)'
  BY DEF AtTheBank, PutToBank, SlotKept
<1>3. ResponseOf(i)'
  BY <1>2 DEF SlotHonest, ResponseOf, SlotKept, ClientKept, HasResponse
<1>4. GotOf(i)'
  BY DEF SlotHonest, GotOf, SlotKept, ClientKept
<1>5. AuditOf(i)'
  BY DEF SlotHonest, AuditOf, SlotKept
<1> QED
  BY <1>1, <1>3, <1>4, <1>5 DEF SlotHonest

LEMMA SlotFrame ==
    ASSUME NEW i \in Slots, SlotHonest(i), SlotKept(i), BooksKept, owner[i] # NoConn => ClientKept(owner[i])
    PROVE  SlotHonest(i)'
BY SlotGrows DEF BooksKept

LEMMA ClientFrame ==
    ASSUME NEW c \in Conns, ClientHonest(c), ClientKept(c), charged \subseteq charged'
    PROVE  ClientHonest(c)'
BY DEF ClientHonest, ClientKept, PutToBank

\* The books, as long as nothing is written into them.
BooksRest ==
    /\ UNCHANGED <<owner, charged, issued>> /\ nextAudit' = nextAudit
    /\ \A i \in Slots : MainPoll'[i].fd = MainPoll[i].fd
    /\ msgs'["db"] \subseteq msgs["db"] /\ msgs'["bank"] \subseteq msgs["bank"]

LEMMA BooksFrame == ASSUME BooksHonest, BooksRest PROVE BooksHonest'
<1>1. AuditForCard'
  BY DEF BooksHonest, BooksRest, AuditForCard
<1>2. /\ \A a \in issued' : a[1] \in 1..nextAudit' /\ a[2] \in Conns
      /\ \A a, b \in issued' : a[1] = b[1] => a = b
      /\ \A m, n \in charged' : m.cc = n.cc => m = n
      /\ msgs'["bank"] \subseteq charged'
      /\ \A r \in msgs'["db"] : \E i \in Slots : MainPoll'[i].fd = r.key /\ owner'[i] = r.cc /\ r.cc # NoConn
  BY DEF BooksHonest, BooksRest
<1> QED
  BY <1>1, <1>2 DEF BooksHonest

\* Who has a slot in hand finds it in its stage, unless the stage of a slot that
\* stays in hand is changed.
LEMMA HandsFrame ==
    ASSUME IInv, [Next]_vars, HandsHonest,
           \A t \in PeerThreads : \A i \in InHand(t) \cap InHand(t)' :
               ClientInfo'[i].procStat = ClientInfo[i].procStat
    PROVE  HandsHonest'
<1>1. \A t \in PeerThreads : EntersAt(t) = StageOf(t)
  BY DEF PeerThreads, EntersAt, StageOf
<1>2. ASSUME NEW t \in PeerThreads, NEW i \in InHand(t)'
      PROVE  ClientInfo'[i].procStat = StageOf(t)
  <2>1. CASE InHand(t)' \subseteq InHand(t)
    BY <1>2, <2>1 DEF HandsHonest, PeerThreads
  <2>2. CASE Enters(t)
    BY <1>1, <1>2, <2>2 DEF Enters, slotVars
  <2> QED
    BY <2>1, <2>2, HandStep
<1> QED
  BY <1>2 DEF HandsHonest, PeerThreads, StageOf

\* What a receiving thread is about to store, as long as it gets nothing new.
Storing(p) == pc[Receiver(p)] \in {"lock", "store"}
LEMMA RepliesFrame ==
    ASSUME RepliesHonest, UNCHANGED owner, charged \subseteq charged', issued \subseteq issued',
           \A p \in Peers : Storing(p)' => Storing(p) /\ at'[Receiver(p)] = at[Receiver(p)]
                                           /\ reply'[p] = reply[p]
    PROVE  RepliesHonest'
<1>1. pc'["DbRecv"] \in {"lock", "store"} => /\ pc["DbRecv"] \in {"lock", "store"}
                                             /\ at'["DbRecv"] = at["DbRecv"] /\ reply'["db"] = reply["db"]
  BY ThreadNames DEF Storing
<1>2. pc'["BankRecv"] \in {"lock", "store"} => /\ pc["BankRecv"] \in {"lock", "store"}
                                             /\ at'["BankRecv"] = at["BankRecv"] /\ reply'["bank"] = reply["bank"]
  BY ThreadNames DEF Storing
<1>3. AtTheBank(at["BankRecv"]) /\ at'["BankRecv"] = at["BankRecv"] => AtTheBank(at["BankRecv"])'
  BY DEF AtTheBank, PutToBank
<1> QED
  BY <1>1, <1>2, <1>3 DEF RepliesHonest

\* A receiving thread comes to store an answer only by Receive, and its slot and
\* answer stay until it has.
StoringStays == \A p \in Peers : Storing(p)' => /\ Storing(p) /\ at'[Receiver(p)] = at[Receiver(p)]
                                                /\ reply'[p] = reply[p]
LEMMA StoringStep ==
    ASSUME IInv, [Next]_vars, \A p \in Peers : ~Receive(p) PROVE StoringStays
<1>0. /\ ThreadTypes /\ DOMAIN reply = Peers /\ back \in {"poll", "discon", "closeAll"}
      /\ \A p \in Peers : Receiver(p) \in {"DbRecv", "BankRecv"}
      /\ "DbRecv" \in Threads /\ "BankRecv" \in Threads /\ "Main" \in Threads \ {"DbRecv", "BankRecv"}
      /\ "Timer" \in Threads \ {"DbRecv", "BankRecv"} /\ "SignalHandler" \in Threads \ {"DbRecv", "BankRecv"}
  BY Types, ThreadNames DEF IInv, TypeOK, PeersOK, ThreadsOK
<1>1. ASSUME NEW u \in Threads \ {"DbRecv", "BankRecv"}, NEW l, Goto(u, l), at' = at \/ \E n : AtSlot(u, n),
             UNCHANGED reply
      PROVE  StoringStays
  BY <1>0, <1>1 DEF Goto, AtSlot, ThreadTypes, StoringStays, Storing
<1>2. ASSUME \A u \in {"DbRecv", "BankRecv"} : pc'[u] = pc[u] \/ pc'[u] \notin {"lock", "store"},
             at' = at, UNCHANGED reply
      PROVE  StoringStays
  BY <1>0, <1>2 DEF StoringStays, Storing
<1>3. ASSUME NEW how, Exit(how) PROVE StoringStays
  BY <1>0, <1>3 DEF Exit, StoringStays, Storing
<1>4. ASSUME NEW t \in Threads, NEW m \in {"timer", "db", "bank"}, NEW s,
             NEW l \in {"poll", "discon", "closeAll", "wait", "recv"}, SetWorkPending(t, m, s, l)
      PROVE  StoringStays
  <2>1. at' = at /\ \A u \in Threads : pc'[u] = pc[u] \/ pc'[u] \in {l, "wait", "condwait"}
    BY <1>0, <1>4, WorkPendingMoves
  <2>2. UNCHANGED reply
    BY <1>4 DEF SetWorkPending, linkVars
  <2>3. "lock" \notin {l, "wait", "condwait"} /\ "store" \notin {l, "wait", "condwait"}
    OBVIOUS
  <2>4. \A u \in {"DbRecv", "BankRecv"} : pc'[u] = pc[u] \/ pc'[u] \notin {"lock", "store"}
    BY <1>0, <2>1, <2>3
  <2> QED
    BY <1>2, <2>1, <2>2, <2>4
<1>5. CASE MainStep \/ \E c \in Conns : AcceptClient(c)
  <2>1. "Main" \in Threads \ {"DbRecv", "BankRecv"}
    BY <1>0
  <2>2. CASE MainSetsWorkPending
    BY <1>0, <1>4, <2>2 DEF MainSetsWorkPending, IInv, TypeOK, ThreadsOK
  <2>3. CASE WakeThread
    <3>1. Waiter(EndOrder[at["Main"]]) \in {"Timer", "DbSend", "BankSend"}
      BY DEF Waiter, Sender
    <3>2. \A t \in Threads : pc'[t] = pc[t] \/ pc'[t] = "join" \/ pc'[t] = "wait"
      BY <2>3, <3>1, <1>0 DEF WakeThread, ThreadTypes
    <3>3. at' = at /\ UNCHANGED reply
      BY <2>3 DEF WakeThread, linkVars
    <3> QED
      BY <1>0, <1>2, <3>2, <3>3
  <2>4. CASE LeaveLoop \/ KillHandler \/ JoinThread
    BY <1>1, <1>3, <2>1, <2>4 DEF LeaveLoop, KillHandler, JoinThread, linkVars
  <2>5. CASE \/ CountUsers \/ DisconnectClients \/ CloseClient \/ CloseAll \/ ReadEvent
             \/ \E c \in Conns : AcceptClient(c)
    BY <1>1, <2>1, <2>5 DEF CountUsers, DisconnectClients, DisconnectNext, CloseClient, CloseAll, ReadEvent,
                            AcceptClient, linkVars
  <2>6. CASE \E i \in Slots : BlockOnClient(i) \/ RecvStep(i) \/ SendResponse(i)
    <3>1. (\E l : Goto("Main", l)) /\ (\E n : AtSlot("Main", n)) /\ UNCHANGED reply
      BY <2>6 DEF BlockOnClient, SendResponse, RecvStep, RecvHangup, RecvOverLimit, RecvControl,
                  RecvInvalid, RecvCompletion, RecvBankRequest, Receives, linkVars
    <3> QED
      BY <1>1, <2>1, <3>1
  <2> QED
    BY <1>5, <2>2, <2>3, <2>4, <2>5, <2>6 DEF MainStep, MainGoesOn
<1>6. CASE TimerStep
  <2>1. "Timer" \in Threads \ {"DbRecv", "BankRecv"}
    BY <1>0
  <2>2. CASE TimerSetsWorkPending
    BY <1>0, <1>4, <2>2 DEF TimerSetsWorkPending
  <2>3. CASE TimerWait \/ TimerPass \/ TimerScan \/ TimerLock \/ TimerMark
    BY <1>1, <2>1, <2>3 DEF TimerWait, TimerPass, TimerScan, TimerScanFrom, TimerLock, LockAndCheck, TimerMark,
                            linkVars
  <2> QED
    BY <1>6, <2>2, <2>3 DEF TimerStep
<1>7. ASSUME NEW p \in Peers, SenderStep(p) PROVE StoringStays
  <2>1. Sender(p) \in Threads \ {"DbRecv", "BankRecv"}
    BY ThreadNames
  <2>2. CASE Connect(p)
    <3>1. at' = at /\ UNCHANGED reply /\ \A t \in Threads : pc'[t] = pc[t] \/ pc'[t] \in {"join", "swp", "recv"}
      BY <1>0, <2>1, <2>2 DEF Connect, ThreadTypes
    <3> QED
      BY <1>0, <1>2, <3>1
  <2>3. CASE SenderSetsWorkPending(p)
    BY <1>0, <1>4, <2>1, <2>3 DEF SenderSetsWorkPending, Peers
  <2>4. CASE SendFails(p) \/ SenderShutdown(p)
    BY <1>1, <1>3, <2>1, <2>4 DEF SendFails, SenderShutdown
  <2>5. CASE \/ SenderWait(p) \/ SenderScan(p) \/ SenderLock(p) \/ SendMsg(p) \/ SendReset(p) \/ Sent(p)
             \/ SenderDown(p) \/ SenderJoin(p)
    BY <1>1, <2>1, <2>5 DEF SenderWait, SenderScan, SenderLock, LockAndCheck, SendMsg, SendReset, Sent,
                            SenderDown, SenderJoin, linkVars
  <2> QED
    BY <1>7, <2>2, <2>3, <2>4, <2>5 DEF SenderStep
<1>8. ASSUME NEW p \in Peers, ReceiverStep(p) PROVE StoringStays
  <2>1. CASE DbReceiverSetsWorkPending
    BY <1>0, <1>4, <2>1 DEF DbReceiverSetsWorkPending
  <2>2. CASE ReceiverHangup(p)
    <3>1. at' = at /\ UNCHANGED reply /\ \A t \in Threads : pc'[t] = pc[t] \/ pc'[t] = "closing"
      BY <1>0, <2>2 DEF ReceiverHangup, Goto, ThreadTypes
    <3> QED
      BY <1>0, <1>2, <3>1
  <2>3. CASE ReceiverEnds(p)
    <3>1. at' = at /\ UNCHANGED reply /\ \A t \in Threads : pc'[t] = pc[t] \/ pc'[t] \in {"ended", "wait"}
      BY <1>0, <2>3, ThreadNames DEF ReceiverEnds, ThreadTypes, linkVars
    <3> QED
      BY <1>0, <1>2, <3>1
  <2>4. CASE StoreAudit \/ StoreVerdict
    BY <1>0, <2>4, ThreadNames DEF StoreAudit, StoreVerdict, Goto, AtSlot, ThreadTypes, StoringStays, Storing
  <2>5. CASE ReceiverLock(p)
    <3>1. /\ pc[Receiver(p)] = "lock" /\ UNCHANGED reply /\ AfterRecv(p) \in {"swp", "recv"}
          /\ \E l : Goto(Receiver(p), l) /\ (l = AfterRecv(p) \/ AtSlot(Receiver(p), at[Receiver(p)]))
          /\ \E n : AtSlot(Receiver(p), n)
      BY <2>5 DEF ReceiverLock, LockAndCheck, linkVars, AfterRecv
    <3>2. \A q \in Peers : q # p => Receiver(q) # Receiver(p)
      BY ThreadNames
    <3> QED
      BY <1>0, <3>1, <3>2 DEF Goto, AtSlot, ThreadTypes, StoringStays, Storing
  <2> QED
    BY <1>8, <2>1, <2>2, <2>3, <2>4, <2>5 DEF ReceiverStep
<1>9. CASE TermAccepted \/ QuitArrives \/ TermArrives \/ IntArrives \/ \E t \in Threads : LockDestroyed(t)
  <2>1. "SignalHandler" \in Threads \ {"DbRecv", "BankRecv"}
    BY <1>0
  <2> QED
    BY <1>1, <1>3, <1>9, <2>1 DEF TermAccepted, QuitArrives, TermArrives, IntArrives, LockDestroyed, linkVars
<1>10. CASE \/ \E i \in Slots : TimePasses(i)
            \/ \E p \in Peers : PeerDown(p) \/ PeerUp(p)
            \/ \E c \in Conns, k \in {"Bank", "Ctrl", "Bad"} :
                 ClientContinues(c) \/ ClientHangup(c) \/ ClientRequest(c, k)
            \/ AtRest \/ UNCHANGED vars
  BY <1>2, <1>10 DEF TimePasses, PeerDown, PeerUp, ClientContinues, ClientHangup, ClientRequest,
                     serverVars, threadVars, linkVars, AtRest, vars
<1> QED
  BY <1>5, <1>6, <1>7, <1>8, <1>9, <1>10 DEF Next, ServerStep, Environment

\* What Main does, unless it accepts or closes a client.
MainMoves ==
    /\ pc["Main"] = "close" => (pc'["Main"] = "close" /\ at'["Main"] = at["Main"]) \/ pc'["Main"] = "exited"
    /\ pc["Main"] = "exited" => pc'["Main"] = "exited"
    /\ pc'["Main"] = "accept" => pc["Main"] = "accept" /\ at'["Main"] = at["Main"]
    /\ pc'["Main"] = "blockedSend" =>
          \/ pc["Main"] = "blockedSend" /\ at'["Main"] = at["Main"]
          \/ pc["Main"] = "poll" /\ \E i \in Slots : at'["Main"] = i /\ Writable(i)
LEMMA MainMovesStep ==
    ASSUME IInv, [Next]_vars, ~CloseClient, \A c \in Conns : ~AcceptClient(c) PROVE MainMoves
<1>0. ThreadTypes /\ "Main" \in Threads /\ back \in {"poll", "discon", "closeAll"}
  BY Types, ThreadNames DEF IInv, TypeOK, ThreadsOK
<1>1. ASSUME NEW how, Exit(how) PROVE MainMoves
  BY <1>0, <1>1 DEF Exit, MainMoves
<1>2. ASSUME NEW l, Goto("Main", l), pc["Main"] \notin {"close", "exited"}, l \notin {"accept", "blockedSend"}
      PROVE  MainMoves
  BY <1>0, <1>2 DEF Goto, ThreadTypes, MainMoves
<1>3. CASE MainStep
  <2>1. CASE CountUsers \/ DisconnectClients \/ ReadEvent \/ CloseAll
    BY <1>2, <2>1 DEF CountUsers, DisconnectClients, DisconnectNext, ReadEvent, CloseAll
  <2>2. CASE LeaveLoop \/ KillHandler \/ JoinThread
    BY <1>1, <1>2, <2>2 DEF LeaveLoop, KillHandler, JoinThread
  <2>3. CASE WakeThread
    <3>1. pc["Main"] = "wake" /\ pc'["Main"] = "join"
      BY <1>0, <2>3, ThreadNames DEF WakeThread, ThreadTypes, Waiter, Sender
    <3> QED
      BY <3>1 DEF MainMoves
  <2>4. CASE MainSetsWorkPending
    <3>a. \A m \in {"timer", "db", "bank"} : Waiter(m) # "Main"
      BY ThreadNames
    <3>b. ASSUME NEW m \in {"timer", "db", "bank"}, NEW s, NEW l, SetWorkPending("Main", m, s, l)
          PROVE  pc'["Main"] \in {pc["Main"], l}
      BY <1>0, <3>a, <3>b, WorkPendingMoves
    <3>1. pc["Main"] \in {"swpTimer", "swpDb"} /\ pc'["Main"] \in {pc["Main"], "poll", back}
      BY <2>4, <3>b DEF MainSetsWorkPending
    <3> QED
      BY <1>0, <3>1 DEF MainMoves
  <2>5. ASSUME NEW i \in Slots, BlockOnClient(i) PROVE MainMoves
    <3>1. pc["Main"] = "poll" /\ at'["Main"] = i
          /\ (pc'["Main"] = "blockedRecv" \/ (Writable(i) /\ pc'["Main"] = "blockedSend"))
      BY <1>0, <2>5 DEF BlockOnClient, Goto, AtSlot, ThreadTypes
    <3> QED
      BY <3>1 DEF MainMoves
  <2>6. ASSUME NEW i \in Slots, RecvStep(i) \/ SendResponse(i) PROVE MainMoves
    <3>1. pc["Main"] \in {"poll", "blockedRecv", "blockedSend"} /\ \E l \in {"close", "poll", "swpDb"} : Goto("Main", l)
      BY <2>6 DEF RecvStep, RecvHangup, RecvOverLimit, RecvControl, RecvInvalid, RecvCompletion,
                  RecvBankRequest, Receives, Serves, SendResponse
    <3> QED
      BY <1>2, <3>1
  <2> QED
    BY <1>3, <2>1, <2>2, <2>3, <2>4, <2>5, <2>6 DEF MainStep, MainGoesOn
<1>4. CASE ~MainStep
  BY <1>1, <1>4, OthersStep DEF Ends, MainRests, MainMoves
<1> QED
  BY <1>3, <1>4

\* The first part of MainHonest, and the others, when no slot with a response loses it.
LEMMA MainFrame ==
    ASSUME IInv, MainHonest, MainMoves,
           \A i \in Slots : Sends(i)' => Sends(i) \/ HasResponse(i)',
           \A i \in Slots : HasResponse(i) => HasResponse(i)',
           pc'["Main"] = "accept" =>
               /\ ClientInfo'[at["Main"]].response.kind = "none"
               /\ ClientInfo'[at["Main"]].procStat \notin UnderWay /\ got'[owner'[at["Main"]]].kind = "none"
    PROVE  MainHonest'
<1>1. \A i \in Slots : Writable(i) /\ pc["Main"] = "poll" => HasResponse(i)
  BY DEF MainHonest, Writable, Sends
<1>2. pc'["Main"] = "blockedSend" => ClientInfo'[at'["Main"]].response.kind # "none"
  <2>1. pc["Main"] = "blockedSend" => at["Main"] \in Slots
    BY DEF IInv, SessionInv, MainAtSlot
  <2>2. \A i \in Slots : HasResponse(i) => ClientInfo'[i].response.kind # "none"
    BY DEF HasResponse
  <2> QED
    BY <1>1, <2>1, <2>2 DEF MainMoves, MainHonest
<1>3. \A i \in Slots : Sends(i)' =>
          HasResponse(i)' \/ (pc'["Main"] = "close" /\ at'["Main"] = i) \/ pc'["Main"] = "exited"
  BY DEF MainHonest, MainMoves
<1>4. pc'["Main"] = "accept" => at'["Main"] = at["Main"]
  BY DEF MainMoves
<1> QED
  BY <1>2, <1>3, <1>4 DEF MainHonest, HasResponse

-----------------------------------------------------------------------------
(***************************************************************************)
(* The steps that change nothing HonestInv looks at.                       *)
(***************************************************************************)

\* The steps that change what HonestInv looks at; the others leave it.
Noisy ==
    \/ CountUsers \/ CloseClient \/ StoreAudit \/ StoreVerdict
    \/ \E i \in Slots : RecvStep(i) \/ SendResponse(i)
    \/ \E c \in Conns : AcceptClient(c) \/ ClientContinues(c) \/ ClientHangup(c)
    \/ \E c \in Conns, k \in {"Bank", "Ctrl", "Bad"} : ClientRequest(c, k)
    \/ \E p \in Peers : SendMsg(p) \/ Sent(p) \/ Receive(p)
SlotsKept == \A i \in Slots : SlotKept(i) /\ (Sends(i)' => Sends(i))
Still == SlotsKept /\ BooksRest /\ UNCHANGED clientVars

LEMMA StillStep == ASSUME IInv, [Next]_vars, CountsOn, ~Noisy PROVE Still
<1>0. /\ \A i \in Slots : ClientInfo[i] \in InfoType /\ MainPoll[i] \in PollType
      /\ SlotsOK /\ PeersOK /\ LockInv
  BY Types DEF IInv, TypeOK
<1>1. ASSUME UNCHANGED slotVars PROVE SlotsKept
  BY <1>1 DEF slotVars, SlotsKept, SlotKept, Sends
<1>2. ASSUME UNCHANGED <<slotVars, peerVars, clientVars>> PROVE Still
  BY <1>1, <1>2 DEF Still, peerVars, slotVars, BooksRest
<1>3. ASSUME UNCHANGED <<slotVars, clientVars, issued, charged, nextAudit>>, NEW p \in Peers,
             msgs' = [msgs EXCEPT ![p] = {}]
      PROVE  Still
  <2>1. msgs'["db"] \subseteq msgs["db"] /\ msgs'["bank"] \subseteq msgs["bank"]
    BY <1>0, <1>3, ThreadNames DEF PeersOK
  <2> QED
    BY <1>1, <1>3, <2>1 DEF Still, slotVars, BooksRest
<1>4. ASSUME UNCHANGED <<MainPoll, owner, peerVars, clientVars>>, NEW k \in Slots, NEW info,
             ClientInfo' = [ClientInfo EXCEPT ![k] = info],
             info.servermsg.cc = ClientInfo[k].servermsg.cc, info.servermsg.audit = ClientInfo[k].servermsg.audit,
             info.procStat = ClientInfo[k].procStat, info.response = ClientInfo[k].response,
             info.disconStat = "AFTER_MSG" => ClientInfo[k].disconStat = "AFTER_MSG"
      PROVE  Still
  <2>1. ClientInfo'[k] = info /\ \A i \in Slots \ {k} : ClientInfo'[i] = ClientInfo[i]
    BY <1>0, <1>4 DEF SlotsOK
  <2>2. SlotsKept
    BY <1>4, <2>1 DEF SlotsKept, SlotKept, Sends
  <2> QED
    BY <1>4, <2>2 DEF Still, BooksRest, peerVars
<1>5. ASSUME NEW t, NEW m, NEW s, NEW l, SetWorkPending(t, m, s, l) PROVE Still
  BY <1>2, <1>5 DEF SetWorkPending
<1>6. CASE MainStep
  <2>1. CASE MainSetsWorkPending
    BY <1>5, <2>1 DEF MainSetsWorkPending
  <2>2. CASE ReadEvent
    <3>1. UNCHANGED <<ClientInfo, owner, peerVars, clientVars>> /\ MainPoll' = Polled(MainPoll)
      BY <2>2 DEF ReadEvent, DisconnectNext
    <3>2. \A i \in Slots : MainPoll'[i].fd = MainPoll[i].fd /\ (Sends(i)' => Sends(i))
      BY <1>0, <3>1 DEF Polled, Sends, PollType
    <3> QED
      BY <3>1, <3>2 DEF Still, SlotsKept, SlotKept, BooksRest, peerVars
  <2>3. CASE \/ DisconnectClients \/ LeaveLoop \/ CloseAll \/ WakeThread \/ KillHandler \/ JoinThread
             \/ \E i \in Slots : BlockOnClient(i)
    BY <1>2, <2>3 DEF DisconnectClients, DisconnectNext, LeaveLoop, CloseAll, WakeThread, KillHandler, JoinThread,
                      BlockOnClient, slotVars
  <2> QED
    BY <1>6, <2>1, <2>2, <2>3 DEF MainStep, MainGoesOn, Noisy
<1>7. CASE TimerStep
  <2>1. CASE TimerMark
    <3>1. at["Timer"] \in Slots
      BY <1>0, <2>1, AtSlots DEF TimerMark, Critical
    <3>2. [ClientInfo[at["Timer"]] EXCEPT !.disconStat = "NOW"].disconStat = "NOW"
      BY <1>0, <3>1 DEF InfoType
    <3> QED
      BY <1>0, <1>4, <2>1, <3>1, <3>2 DEF TimerMark, SetClientDisconnect, InfoType
  <2>2. CASE TimerSetsWorkPending
    BY <1>5, <2>2 DEF TimerSetsWorkPending
  <2>3. CASE TimerWait \/ TimerPass \/ TimerScan \/ TimerLock
    BY <1>2, <2>3 DEF TimerWait, TimerPass, TimerScan, TimerScanFrom, TimerLock, LockAndCheck
  <2> QED
    BY <1>7, <2>1, <2>2, <2>3 DEF TimerStep
<1>8. ASSUME NEW p \in Peers, SenderStep(p) PROVE Still
  <2>1. CASE SendReset(p)
    <3> DEFINE k == at[Sender(p)] x == ClientInfo[k]
    <3>1. k \in Slots /\ ClientInfo' = [ClientInfo EXCEPT ![k].servermsg.status = SentStatus(p)]
      BY <1>0, <2>1, AtSlots DEF SendReset, WithSentStatus, Critical
    <3>2. x \in InfoType /\ x.servermsg \in MsgType
      BY <1>0, <3>1, InfoUpdates
    <3> DEFINE info == [x EXCEPT !.servermsg.status = SentStatus(p)]
    <3>3. ClientInfo' = [ClientInfo EXCEPT ![k] = info]
      BY <3>1
    <3>4. /\ info.servermsg.cc = x.servermsg.cc /\ info.servermsg.audit = x.servermsg.audit
          /\ info.procStat = x.procStat /\ info.response = x.response /\ info.disconStat = x.disconStat
      BY <3>2 DEF InfoType, MsgType
    <3>5. UNCHANGED <<MainPoll, owner, peerVars, clientVars>>
      BY <2>1 DEF SendReset
    <3> HIDE DEF info, k, x
    <3> QED
      BY <1>4, <3>1, <3>3, <3>4, <3>5 DEF x
  <2>2. CASE SenderShutdown(p)
    BY <1>2, <2>2 DEF SenderShutdown
  <2>3. CASE SenderSetsWorkPending(p)
    BY <1>5, <2>3 DEF SenderSetsWorkPending
  <2>4. CASE Connect(p) \/ SenderWait(p) \/ SenderScan(p) \/ SenderLock(p) \/ SendFails(p) \/ SenderDown(p) \/ SenderJoin(p)
    BY <1>2, <2>4 DEF Connect, SenderWait, SenderScan, SenderLock, LockAndCheck, SendFails, SenderDown, SenderJoin
  <2> QED
    BY <1>8, <2>1, <2>2, <2>3, <2>4 DEF SenderStep, Noisy
<1>9. ASSUME NEW p \in Peers, ReceiverStep(p) PROVE Still
  <2>1. CASE DbReceiverSetsWorkPending
    BY <1>5, <2>1 DEF DbReceiverSetsWorkPending
  <2>2. CASE ReceiverLock(p) \/ ReceiverHangup(p) \/ ReceiverEnds(p)
    BY <1>2, <2>2 DEF ReceiverLock, LockAndCheck, ReceiverHangup, ReceiverEnds
  <2> QED
    BY <1>9, <2>1, <2>2 DEF ReceiverStep, Noisy
<1>10. ASSUME NEW p \in Peers, PeerDown(p) PROVE Still
  <2>1. nextAudit' = nextAudit
    BY <1>0, <1>10 DEF PeerDown, CountsOn, PeersOK, NoAudit
  <2> QED
    BY <1>3, <1>10, <2>1 DEF PeerDown
<1>11. ASSUME NEW k \in Slots, TimePasses(k) PROVE Still
  <2> DEFINE info == [ClientInfo[k] EXCEPT !.activityTime = "old"]
  <2>1. /\ ClientInfo' = [ClientInfo EXCEPT ![k] = info]
        /\ UNCHANGED <<MainPoll, owner, peerVars, clientVars>>
    BY <1>11 DEF TimePasses
  <2>2. /\ info.servermsg = ClientInfo[k].servermsg /\ info.procStat = ClientInfo[k].procStat
        /\ info.response = ClientInfo[k].response /\ info.disconStat = ClientInfo[k].disconStat
    BY <1>0 DEF InfoType
  <2> HIDE DEF info
  <2> QED
    BY <1>4, <2>1, <2>2
<1>12. CASE \/ TermAccepted \/ QuitArrives \/ TermArrives \/ IntArrives \/ AtRest \/ UNCHANGED vars
            \/ (\E t \in Threads : LockDestroyed(t)) \/ (\E p \in Peers : PeerUp(p))
  <2>1. CASE \E p \in Peers : PeerUp(p)
    BY <1>1, <2>1 DEF PeerUp, serverVars, Still, BooksRest, slotVars
  <2> QED
    BY <1>2, <1>12, <2>1 DEF TermAccepted, QuitArrives, TermArrives, IntArrives, AtRest, vars, LockDestroyed
<1> QED
  BY <1>6, <1>7, <1>8, <1>9, <1>10, <1>11, <1>12 DEF Next, ServerStep, Environment, Noisy

LEMMA StillKeeps ==
    ASSUME IInv, HonestInv, [Next]_vars, Still, StoringStays, MainMoves PROVE HonestInv'
<1>1. BooksKept /\ \A c \in Conns : ClientKept(c)
  BY DEF Still, BooksRest, BooksKept, clientVars, ClientKept
<1>2. \A i \in Slots : SlotHonest(i)'
  <2> TAKE i \in Slots
  <2>1. SlotHonest(i) /\ SlotKept(i) /\ ClientKept(owner[i])
    BY DEF HonestInv, Still, SlotsKept, clientVars, ClientKept
  <2> QED
    BY <1>1, <2>1, SlotFrame
<1>3. \A c \in Conns : ClientHonest(c)'
  <2> TAKE c \in Conns
  <2>1. ClientHonest(c) /\ ClientKept(c) /\ charged \subseteq charged'
    BY <1>1 DEF HonestInv, BooksKept
  <2> QED
    BY <2>1, ClientFrame
<1>4. MainHonest'
  <2>1. \A i \in Slots : Sends(i)' => Sends(i)
    BY DEF Still, SlotsKept
  <2>2. \A i \in Slots : HasResponse(i) => HasResponse(i)'
    BY DEF Still, SlotsKept, SlotKept, HasResponse
  <2>3. ASSUME pc'["Main"] = "accept"
        PROVE  /\ ClientInfo'[at["Main"]].response.kind = "none"
               /\ ClientInfo'[at["Main"]].procStat \notin UnderWay /\ got'[owner'[at["Main"]]].kind = "none"
    <3>1. pc["Main"] = "accept" /\ at["Main"] \in Slots
      BY <2>3 DEF MainMoves, IInv, SessionInv, MainAtSlot
    <3>2. SlotKept(at["Main"]) /\ got' = got
      BY <3>1 DEF Still, SlotsKept, clientVars
    <3> QED
      BY <3>1, <3>2 DEF HonestInv, MainHonest, HasResponse, SlotKept
  <2> QED
    BY <2>1, <2>2, <2>3, MainFrame DEF HonestInv
<1>5. HandsHonest'
  <2>1. \A t \in PeerThreads : \A i \in InHand(t) : i \in Slots
    BY HandHolds, ThreadNames DEF PeerThreads, IInv
  <2>2. \A i \in Slots : ClientInfo'[i].procStat = ClientInfo[i].procStat
    BY DEF Still, SlotsKept, SlotKept
  <2> QED
    BY <2>1, <2>2, HandsFrame DEF HonestInv
<1>6. RepliesHonest'
  BY RepliesFrame DEF HonestInv, Still, BooksRest, StoringStays
<1>7. BooksHonest'
  BY BooksFrame DEF HonestInv, Still
<1> QED
  BY <1>2, <1>3, <1>4, <1>5, <1>6, <1>7 DEF HonestInv

-----------------------------------------------------------------------------
(***************************************************************************)
(* Slots and their clients; a client is counted.                           *)
(***************************************************************************)

LEMMA Owned ==
    ASSUME IInv, CardInv
    PROVE  /\ \A i \in Slots : owner[i] \in Conns \/ owner[i] = NoConn
           /\ \A i, j \in Slots : owner[i] = owner[j] /\ owner[i] # NoConn => i = j
           /\ \A i \in Slots : Open(i) <=> owner[i] # NoConn
           /\ NoConn \notin Conns
BY ConstAssumption DEF IInv, TypeOK, SlotsOK, Cards, CardInv, OwnersKept, NoConn

\* A step that changes slot k and its client only.
LEMMA OneSlot ==
    ASSUME IInv, CardInv, HonestInv, [Next]_vars, StoringStays, BooksRest, NEW k \in Slots,
           \A i \in Slots \ {k} : SlotKept(i), \A c \in Conns \ {owner[k]} : ClientKept(c),
           SlotHonest(k)', \A c \in Conns : c = owner[k] => ClientHonest(c)', MainHonest',
           \A t \in PeerThreads : k \in InHand(t) /\ k \in InHand(t)'
               => ClientInfo'[k].procStat = ClientInfo[k].procStat
    PROVE  HonestInv'
<1>0. BooksKept
  BY DEF BooksRest, BooksKept
<1>1. \A i \in Slots : SlotHonest(i)'
  <2> SUFFICES ASSUME NEW i \in Slots \ {k} PROVE SlotHonest(i)'
    OBVIOUS
  <2>1. SlotHonest(i) /\ SlotKept(i) /\ (owner[i] # NoConn => ClientKept(owner[i]))
    BY Owned DEF HonestInv
  <2> QED
    BY <1>0, <2>1, SlotFrame
<1>2. \A c \in Conns : ClientHonest(c)'
  <2> SUFFICES ASSUME NEW c \in Conns, c # owner[k] PROVE ClientHonest(c)'
    OBVIOUS
  <2>1. ClientHonest(c) /\ ClientKept(c) /\ charged \subseteq charged'
    BY <1>0 DEF HonestInv, BooksKept
  <2> QED
    BY <2>1, ClientFrame
<1>3. HandsHonest'
  <2>1. \A t \in PeerThreads : \A i \in InHand(t) : i \in Slots
    BY HandHolds, ThreadNames DEF PeerThreads, IInv
  <2> QED
    BY <2>1, HandsFrame DEF HonestInv, SlotKept
<1>4. RepliesHonest'
  BY RepliesFrame DEF HonestInv, BooksRest, StoringStays
<1>5. BooksHonest'
  BY BooksFrame DEF HonestInv
<1> QED
  BY <1>1, <1>2, <1>3, <1>4, <1>5 DEF HonestInv

\* A step that changes the information of slot k only.
LEMMA SlotUpdate ==
    ASSUME SlotsOK, NEW k \in Slots, NEW info, ClientInfo' = [ClientInfo EXCEPT ![k] = info], UNCHANGED owner
    PROVE  ClientInfo'[k] = info /\ \A i \in Slots \ {k} : SlotKept(i)
BY DEF SlotsOK, SlotKept

-----------------------------------------------------------------------------
LEMMA CountHonest ==
    ASSUME IInv, CardInv, HonestInv, [Next]_vars, StoringStays, CountUsers PROVE HonestInv'
<1> PICK k \in Slots : k = at["Main"]
  BY DEF CountUsers, IInv, SessionInv, MainAtSlot
<1> DEFINE x == ClientInfo[k]
<1>0. /\ pc["Main"] = "accept" /\ ClientInfo[k] \in InfoType /\ SlotsOK /\ ThreadTypes
      /\ "Main" \in Threads
  BY Types, ThreadNames DEF CountUsers, IInv, SessionInv, MainAtSlot
<1>1. /\ ~HasResponse(k) /\ x.procStat \notin UnderWay /\ got[owner[k]].kind = "none" /\ SlotHonest(k)
      /\ \A i \in Slots : Sends(i) => HasResponse(i)
  BY <1>0 DEF HonestInv, MainHonest
<1>2. /\ UNCHANGED <<MainPoll, owner, charged, issued, nextAudit, msgs, phase, inbox, got>>
      /\ pc'["Main"] = "swpTimer"
  BY <1>0 DEF CountUsers, peerVars, clientVars, Goto, ThreadTypes
<1>3. \E info : /\ ClientInfo' = [ClientInfo EXCEPT ![k] = info]
                /\ info.servermsg = x.servermsg /\ info.procStat = x.procStat /\ info.response = x.response
  <2>1. /\ [x EXCEPT !.disconStat = "AFTER_MSG"].servermsg = x.servermsg
        /\ [x EXCEPT !.disconStat = "AFTER_MSG"].procStat = x.procStat
        /\ [x EXCEPT !.disconStat = "AFTER_MSG"].response = x.response
        /\ [x EXCEPT !.activityTime = "recent"].servermsg = x.servermsg
        /\ [x EXCEPT !.activityTime = "recent"].procStat = x.procStat
        /\ [x EXCEPT !.activityTime = "recent"].response = x.response
    BY <1>0 DEF InfoType
  <2>2. \/ ClientInfo' = [ClientInfo EXCEPT ![k] = [x EXCEPT !.disconStat = "AFTER_MSG"]]
        \/ ClientInfo' = [ClientInfo EXCEPT ![k] = [x EXCEPT !.activityTime = "recent"]]
    BY DEF CountUsers
  <2> QED
    BY <2>1, <2>2
<1>4. /\ ClientInfo'[k].servermsg = x.servermsg /\ ClientInfo'[k].procStat = x.procStat
      /\ ClientInfo'[k].response = x.response /\ \A i \in Slots \ {k} : SlotKept(i)
  BY <1>0, <1>2, <1>3, SlotUpdate
<1>5. SlotHonest(k)'
  <2>1. RequestOf(k)' /\ ResponseOf(k)'
    BY <1>0, <1>1, <1>2, <1>4 DEF RequestOf, ResponseOf, HasResponse
  <2>2. GotOf(k)'
    BY <1>0, <1>1, <1>2, <1>4 DEF SlotHonest, GotOf
  <2>3. AuditOf(k)'
    BY <1>0, <1>1, <1>2, <1>4 DEF SlotHonest, AuditOf
  <2> QED
    BY <2>1, <2>2, <2>3 DEF SlotHonest
<1>6. \A c \in Conns : ClientHonest(c)' /\ ClientKept(c)
  BY <1>2, ClientFrame DEF HonestInv, ClientKept
<1>7. MainHonest'
  <2>1. \A i \in Slots : HasResponse(i) => HasResponse(i)'
    BY <1>4 DEF SlotKept, HasResponse
  <2> QED
    BY <1>1, <1>2, <2>1 DEF MainHonest, Sends
<1> QED
  BY <1>0, <1>2, <1>4, <1>5, <1>6, <1>7, OneSlot DEF BooksRest

-----------------------------------------------------------------------------
(***************************************************************************)
(* Main receives a message.                                                *)
(***************************************************************************)

\* A client that Main receives a message from has no request under way and no
\* response to come.
LEMMA HeardFacts ==
    ASSUME IInv, CardInv, HonestInv, NEW i \in Slots, NEW k \in {"Bank", "Ctrl", "Bad", "Done"}, Receives(i, k)
    PROVE  LET c == owner[i] x == ClientInfo[i] IN
           /\ c \in Conns /\ mutex[i] = "none" /\ inbox[c] = k /\ pc["Main"] \in {"poll", "blockedRecv"}
           /\ inbox'[c] = "none" /\ \A d \in Conns \ {c} : inbox'[d] = inbox[d]
           /\ ~HasResponse(i) /\ x.procStat \notin UnderWay
           /\ got[c].kind = "Bank" => k = "Done" /\ x.disconStat # "AFTER_MSG"
           /\ k # "Done" => phase[c] \in {"waiting", "gone"} /\ got[c].kind # "Bank"
           /\ k = "Bank" => got[c].kind = "none" /\ PutToBank(c) = {}
           /\ x.disconStat = "AFTER_MSG" => k # "Done"
<1> DEFINE c == owner[i] x == ClientInfo[i]
<1>1. Open(i) /\ mutex[i] = "none" /\ inbox[c] = k /\ pc["Main"] \in {"poll", "blockedRecv"}
  BY DEF Receives, Serves, Readable, Unlocked, Open, NoFd, IInv, SessionInv, MainAtSlot
<1>2. c \in Conns /\ c # NoConn
  BY <1>1, Owned
<1>3. /\ inbox'[c] = "none" /\ \A d \in Conns \ {c} : inbox'[d] = inbox[d]
  BY <1>2 DEF Receives, IInv, TypeOK, ClientsOK
<1>4. SlotHonest(i) /\ ClientHonest(c)
  BY <1>2 DEF HonestInv
<1>5. ~HasResponse(i) /\ x.procStat \notin UnderWay
  BY <1>1, <1>4 DEF SlotHonest, RequestOf, ResponseOf
<1>6. /\ got[c].kind = "Bank" => k = "Done" /\ x.disconStat # "AFTER_MSG"
      /\ k # "Done" => phase[c] \in {"waiting", "gone"}
      /\ k = "Bank" => got[c].kind = "none"
      /\ k = "Done" => got[c].kind = "Bank"
  BY <1>1, <1>2, <1>4 DEF SlotHonest, GotOf, ClientHonest
<1>7. k = "Bank" => PutToBank(c) = {}
  BY <1>1, <1>2 DEF CardInv, RequestOnce, RequestSpent
<1> QED
  BY <1>1, <1>2, <1>3, <1>5, <1>6, <1>7

LEMMA HeardHonest ==
    ASSUME IInv, CardInv, HonestInv, [Next]_vars, StoringStays, MainMoves,
           NEW i \in Slots, NEW k \in {"Bank", "Ctrl", "Bad", "Done"}, Receives(i, k),
           NEW info, ClientInfo' = [ClientInfo EXCEPT ![i] = info],
           \A j \in Slots : MainPoll'[j].fd = MainPoll[j].fd,
           \A j \in Slots : Sends(j)' => Sends(j) \/ (j = i /\ info.response.kind # "none"),
           SlotHonest(i)'
    PROVE  HonestInv'
<1> DEFINE c == owner[i]
<1>0. SlotsOK /\ UNCHANGED <<owner, phase, got, charged, issued, nextAudit, msgs>>
  BY DEF Receives, peerVars, IInv, TypeOK
<1>1. ClientInfo'[i] = info /\ \A j \in Slots \ {i} : SlotKept(j)
  BY <1>0, SlotUpdate
<1>2. \A d \in Conns : d = c => ClientHonest(d)'
  BY <1>0, HeardFacts DEF HonestInv, ClientHonest, PutToBank
<1>3. \A d \in Conns \ {c} : ClientKept(d)
  BY <1>0, HeardFacts DEF ClientKept
<1>4. MainHonest'
  <2>1. \A j \in Slots : Sends(j)' => Sends(j) \/ HasResponse(j)'
    BY <1>1 DEF HasResponse
  <2>2. \A j \in Slots : HasResponse(j) => HasResponse(j)'
    BY <1>1, HeardFacts DEF HasResponse, SlotKept
  <2>3. pc["Main"] # "accept"
    BY HeardFacts
  <2> QED
    BY <2>1, <2>2, <2>3, MainFrame DEF HonestInv, MainMoves
<1>5. \A t \in PeerThreads : i \notin InHand(t)
  BY HeardFacts, HandHolds, ThreadNames DEF PeerThreads, IInv
<1> QED
  BY <1>0, <1>1, <1>2, <1>3, <1>4, <1>5, OneSlot DEF BooksRest

\* What a slot has to be after Main has received a message that is no bank request.
LEMMA HeardSlot ==
    ASSUME IInv, CardInv, HonestInv, NEW i \in Slots, NEW k \in {"Bank", "Ctrl", "Bad", "Done"}, Receives(i, k),
           NEW info, ClientInfo'[i] = info, info.servermsg = ClientInfo[i].servermsg,
           info.procStat \notin UnderWay, info.response.kind # "Bank",
           info.response.kind # "none" => k # "Done",
           info.disconStat = "AFTER_MSG" => k # "Done"
    PROVE  SlotHonest(i)'
<1>0. /\ UNCHANGED <<owner, phase, got, charged, issued>> /\ SlotHonest(i) /\ "none" # "Bank"
  BY DEF Receives, peerVars, HonestInv
<1>1. owner[i] # NoConn /\ owner[i] \in Conns
  BY Owned, HeardFacts
<1>2. RequestOf(i)'
  BY DEF RequestOf
<1>3. ResponseOf(i)'
  BY <1>0, <1>1, HeardFacts DEF ResponseOf, HasResponse
<1>4. GotOf(i)'
  BY <1>0, <1>1, HeardFacts DEF SlotHonest, GotOf
<1>5. AuditOf(i)'
  BY <1>0 DEF SlotHonest, AuditOf, UnderWay
<1> QED
  BY <1>2, <1>3, <1>4, <1>5 DEF SlotHonest

\* recvRequest sets up a response, or marks the slot.
LEMMA RespondHonest ==
    ASSUME IInv, CardInv, HonestInv, [Next]_vars, StoringStays, MainMoves,
           NEW i \in Slots, RecvOverLimit(i) \/ RecvControl(i) \/ RecvInvalid(i)
    PROVE  HonestInv'
<1> DEFINE x == ClientInfo[i]
<1>0. x \in InfoType /\ SlotsOK /\ \A j \in Slots : MainPoll[j] \in PollType
  BY Types
<1>1. ASSUME NEW k \in {"Bank", "Ctrl", "Bad", "Done"}, Receives(i, k), NEW info,
             info.servermsg = x.servermsg, info.procStat \notin UnderWay,
             info.response.kind \in {"MaxUsers", "Cmd", "Invalid"},
             info.response.kind # "none" => k # "Done", info.disconStat = "AFTER_MSG" => k # "Done",
             Respond(i, info)
      PROVE  HonestInv'
  <2>1. ClientInfo'[i] = info /\ ClientInfo' = [ClientInfo EXCEPT ![i] = info]
    BY <1>0, <1>1 DEF Respond, SlotsOK
  <2>2. /\ \A j \in Slots : MainPoll'[j].fd = MainPoll[j].fd
        /\ \A j \in Slots : Sends(j)' => Sends(j) \/ j = i
    BY <1>0, <1>1 DEF Respond, SlotsOK, PollType, Sends
  <2>3. SlotHonest(i)'
    BY <1>1, <2>1, HeardSlot
  <2> QED
    BY <1>1, <2>1, <2>2, <2>3, HeardHonest
<1>2. ASSUME NEW f \in {"MaxUsers", "Cmd", "Invalid"}
      PROVE  LET resp == [NoResponse EXCEPT !.kind = f]
                 info == WithResponse(ReceivedInfo(i), resp)
                 jnfo == WithResponse([ReceivedInfo(i) EXCEPT !.procType = "IACTIVE"], resp)
             IN /\ resp.kind = f /\ info.response = resp /\ info.procStat = "CT_RESP_SEND"
                /\ info.servermsg = x.servermsg /\ info.disconStat = x.disconStat
                /\ jnfo.response = resp /\ jnfo.procStat = "CT_RESP_SEND"
                /\ jnfo.servermsg = x.servermsg /\ jnfo.disconStat = x.disconStat
                /\ [info EXCEPT !.disconStat = "AFTER_MSG"].response = resp
                /\ [info EXCEPT !.disconStat = "AFTER_MSG"].procStat = "CT_RESP_SEND"
                /\ [info EXCEPT !.disconStat = "AFTER_MSG"].servermsg = x.servermsg
  BY <1>0 DEF WithResponse, ReceivedInfo, NoResponse, InfoType
<1>3. "CT_RESP_SEND" \notin UnderWay /\ "CT_REQ_RECV" \notin UnderWay
  BY DEF UnderWay
<1>4. CASE RecvOverLimit(i)
  <2>1. PICK k \in {"Bank", "Ctrl", "Bad", "Done"} : Receives(i, k)
    BY <1>4 DEF RecvOverLimit
  <2>2. k # "Done"
    BY <1>4, <2>1, HeardFacts DEF RecvOverLimit, OverLimit
  <2> DEFINE info == WithResponse(ReceivedInfo(i), [NoResponse EXCEPT !.kind = "MaxUsers"])
  <2>3. Respond(i, info)
    BY <1>4 DEF RecvOverLimit
  <2>4. /\ info.servermsg = x.servermsg /\ info.procStat \notin UnderWay
        /\ info.response.kind = "MaxUsers"
    BY <1>2, <1>3
  <2> HIDE DEF info
  <2> QED
    BY <1>1, <2>1, <2>2, <2>3, <2>4
<1>5. CASE RecvInvalid(i)
  <2> DEFINE info == [WithResponse(ReceivedInfo(i), [NoResponse EXCEPT !.kind = "Invalid"])
                        EXCEPT !.disconStat = "AFTER_MSG"]
  <2>1. Receives(i, "Bad") /\ Respond(i, info)
    BY <1>5 DEF RecvInvalid
  <2>2. /\ info.servermsg = x.servermsg /\ info.procStat \notin UnderWay
        /\ info.response.kind = "Invalid"
    BY <1>2, <1>3
  <2> HIDE DEF info
  <2> QED
    BY <1>1, <2>1, <2>2
<1>6. CASE RecvControl(i)
  <2>1. Receives(i, "Ctrl")
    BY <1>6 DEF RecvControl
  <2> DEFINE answer == WithResponse([ReceivedInfo(i) EXCEPT !.procType = "IACTIVE"], [NoResponse EXCEPT !.kind = "Cmd"])
  <2>2. CASE Respond(i, answer)
    <3>1. /\ answer.servermsg = x.servermsg /\ answer.procStat \notin UnderWay
          /\ answer.response.kind = "Cmd"
      BY <1>2, <1>3
    <3> HIDE DEF answer
    <3> QED
      BY <1>1, <2>1, <2>2, <3>1
  <2>3. CASE SetClientDisconnect(i, ReceivedInfo(i)) /\ UNCHANGED MainPoll
    <3> DEFINE info == [ReceivedInfo(i) EXCEPT !.disconStat = "NOW"]
    <3>1. ClientInfo'[i] = info /\ ClientInfo' = [ClientInfo EXCEPT ![i] = info]
      BY <1>0, <2>3 DEF SetClientDisconnect, SlotsOK
    <3>2. /\ info.servermsg = x.servermsg /\ info.procStat = "CT_REQ_RECV" /\ info.response = x.response
          /\ info.disconStat = "NOW"
      BY <1>0 DEF ReceivedInfo, InfoType
    <3>3. x.response.kind = "none"
      BY <2>1, HeardFacts DEF HasResponse
    <3> HIDE DEF info
    <3>4. SlotHonest(i)'
      BY <1>3, <2>1, <3>1, <3>2, <3>3, HeardSlot
    <3> QED
      BY <2>1, <2>3, <3>1, <3>4, HeardHonest DEF Sends
  <2> QED
    BY <1>6, <2>2, <2>3 DEF RecvControl
<1> QED
  BY <1>4, <1>5, <1>6

LEMMA CompletionHonest ==
    ASSUME IInv, CardInv, HonestInv, [Next]_vars, StoringStays, MainMoves, NEW i \in Slots, RecvCompletion(i)
    PROVE  HonestInv'
<1> DEFINE x == ClientInfo[i] info == [ReceivedInfo(i) EXCEPT !.procType = "BANK"]
<1>0. x \in InfoType /\ SlotsOK
  BY Types
<1>1. Receives(i, "Done") /\ UNCHANGED MainPoll /\ ~OverLimit(i)
  BY DEF RecvCompletion
<1>2. ClientInfo'[i] = info /\ ClientInfo' = [ClientInfo EXCEPT ![i] = info]
  BY <1>0 DEF RecvCompletion, SlotsOK
<1>3. /\ info.servermsg = x.servermsg /\ info.procStat = "CT_REQ_RECV" /\ info.response = x.response
      /\ info.disconStat = x.disconStat
  BY <1>0 DEF ReceivedInfo, InfoType
<1>4. x.response.kind = "none" /\ x.disconStat # "AFTER_MSG"
  BY <1>1, HeardFacts DEF HasResponse, OverLimit
<1> HIDE DEF info
<1>5. SlotHonest(i)'
  BY <1>1, <1>2, <1>3, <1>4, HeardSlot DEF UnderWay
<1> QED
  BY <1>1, <1>2, <1>5, HeardHonest DEF Sends

LEMMA BankRequestHonest ==
    ASSUME IInv, CardInv, HonestInv, [Next]_vars, StoringStays, MainMoves, NEW i \in Slots, RecvBankRequest(i)
    PROVE  HonestInv'
<1> DEFINE x == ClientInfo[i] c == owner[i]
           info == [ReceivedInfo(i) EXCEPT !.procType = "BANK", !.procStat = "DB_SEND",
                                           !.servermsg = [BlankMsg EXCEPT !.cc = c]]
<1>0. x \in InfoType /\ SlotsOK
  BY Types
<1>1. Receives(i, "Bank") /\ UNCHANGED MainPoll /\ ~OverLimit(i)
  BY DEF RecvBankRequest
<1>2. ClientInfo'[i] = info /\ ClientInfo' = [ClientInfo EXCEPT ![i] = info]
  BY <1>0 DEF RecvBankRequest, SlotsOK
<1>3. /\ info.servermsg = [BlankMsg EXCEPT !.cc = c] /\ info.procStat = "DB_SEND" /\ info.response = x.response
      /\ info.disconStat = x.disconStat
  BY <1>0 DEF ReceivedInfo, InfoType
<1>4. info.servermsg.cc = c /\ info.servermsg.audit = NoAudit
  BY <1>3 DEF BlankMsg
<1>5. /\ UNCHANGED <<owner, phase, got, charged, issued>> /\ SlotHonest(i) /\ c # NoConn /\ inbox'[c] = "none"
      /\ x.response.kind = "none" /\ x.disconStat # "AFTER_MSG"
      /\ got[c].kind = "none" /\ phase[c] \in {"waiting", "gone"} /\ PutToBank(c) = {}
  BY <1>1, HeardFacts, Owned DEF Receives, peerVars, HonestInv, HasResponse, OverLimit
<1> HIDE DEF info
<1>6. SlotHonest(i)'
  <2>1. RequestOf(i)' /\ ResponseOf(i)' /\ GotOf(i)'
    BY <1>2, <1>3, <1>4, <1>5 DEF RequestOf, ResponseOf, GotOf, HasResponse
  <2>2. \A m \in charged : m.cc # c
    BY <1>5 DEF PutToBank
  <2>3. AuditOf(i)'
    BY <1>2, <1>3, <1>4, <1>5, <2>2 DEF AuditOf
  <2> QED
    BY <2>1, <2>3 DEF SlotHonest
<1> QED
  BY <1>1, <1>2, <1>6, HeardHonest DEF Sends

\* A client that hung up: its inbox was empty, and stays so.
LEMMA HangupHonest ==
    ASSUME IInv, HonestInv, [Next]_vars, StoringStays, MainMoves, NEW i \in Slots, RecvHangup(i)
    PROVE  HonestInv'
<1>1. inbox' = inbox
  BY DEF RecvHangup, Receives, IInv, TypeOK, ClientsOK
<1>2. Still
  BY <1>1 DEF RecvHangup, Receives, Still, SlotsKept, SlotKept, Sends, BooksRest, peerVars, clientVars
<1> QED
  BY <1>2, StillKeeps

-----------------------------------------------------------------------------
\* Main sends a response to the client it is for.
LEMMA ResponseHonest ==
    ASSUME IInv, CardInv, HonestInv, [Next]_vars, StoringStays, NEW i \in Slots, SendResponse(i)
    PROVE  HonestInv'
<1> DEFINE c == owner[i] x == ClientInfo[i] info == [x EXCEPT !.response = NoResponse]
<1>0. x \in InfoType /\ SlotsOK /\ ThreadTypes /\ "Main" \in Threads /\ ClientsOK
      /\ \A j \in Slots : MainPoll[j] \in PollType
  BY Types, ThreadNames DEF IInv, TypeOK
<1>1. pc["Main"] \in {"poll", "blockedSend"} /\ HasResponse(i) /\ mutex[i] = "none"
  BY DEF SendResponse, Serves, Writable, Unlocked, HonestInv, MainHonest, Sends
<1>2. SlotHonest(i)
  BY DEF HonestInv
<1>3. /\ c # NoConn /\ c \in Conns /\ phase[c] \in {"waiting", "gone"} /\ inbox[c] = "none"
      /\ got[c].kind # "Bank" /\ x.procStat \notin UnderWay
  BY <1>1, <1>2, Owned DEF SlotHonest, ResponseOf, RequestOf
<1>4. ClientHonest(c)
  BY <1>3 DEF HonestInv
<1>5. /\ UNCHANGED <<owner, charged, issued, nextAudit, msgs, inbox>> /\ ClientInfo' = [ClientInfo EXCEPT ![i] = info]
  BY DEF SendResponse, peerVars
<1>6. ClientInfo'[i] = info /\ \A j \in Slots \ {i} : SlotKept(j)
  BY <1>0, <1>5, SlotUpdate
<1>7. /\ info.servermsg = x.servermsg /\ info.procStat = x.procStat /\ info.response.kind = "none"
      /\ info.disconStat = x.disconStat
  BY <1>0 DEF InfoType, NoResponse
<1>8. /\ got'[c] = IF phase[c] = "gone" THEN got[c] ELSE x.response
      /\ phase'[c] = IF phase[c] = "waiting" THEN "answered" ELSE phase[c]
      /\ \A d \in Conns \ {c} : ClientKept(d)
  BY <1>0, <1>3, <1>5 DEF SendResponse, ClientsOK, ClientKept
<1>9. x.response.kind = "Bank" => /\ x.response.cc = c /\ x.response.verdict = c /\ x.servermsg.cc = c
                                  /\ PutToBank(c) # {} /\ x.disconStat # "AFTER_MSG"
  BY <1>2 DEF SlotHonest, ResponseOf, AtTheBank
<1>10. SlotHonest(i)'
  <2>1. RequestOf(i)' /\ ResponseOf(i)'
    BY <1>3, <1>6, <1>7 DEF RequestOf, ResponseOf, HasResponse
  <2>2. GotOf(i)'
    BY <1>3, <1>5, <1>6, <1>7, <1>8, <1>9 DEF GotOf
  <2>3. AuditOf(i)'
    BY <1>2, <1>5, <1>6, <1>7 DEF SlotHonest, AuditOf
  <2> QED
    BY <2>1, <2>2, <2>3 DEF SlotHonest
<1>11. \A d \in Conns : d = c => ClientHonest(d)'
  BY <1>3, <1>4, <1>5, <1>8, <1>9 DEF ClientHonest, PutToBank
<1>12. /\ pc'["Main"] \in {"poll", "close"}
       /\ \A j \in Slots \ {i} : MainPoll'[j].events = MainPoll[j].events
       /\ \A j \in Slots : MainPoll'[j].fd = MainPoll[j].fd
       /\ MainPoll'[i].events = "POLLIN" \/ (pc'["Main"] = "close" /\ at'["Main"] = i)
  BY <1>0 DEF SendResponse, Goto, AtSlot, ThreadTypes, SlotsOK, PollType
<1>13. MainHonest'
  <2>1. \A j \in Slots \ {i} : Sends(j)' => HasResponse(j)'
    BY <1>1, <1>6, <1>12 DEF Sends, HonestInv, MainHonest, HasResponse, SlotKept
  <2>2. Sends(i)' => pc'["Main"] = "close" /\ at'["Main"] = i
    BY <1>12 DEF Sends
  <2> QED
    BY <1>12, <2>1, <2>2 DEF MainHonest
<1>14. \A t \in PeerThreads : i \notin InHand(t)
  BY <1>1, HandHolds, ThreadNames DEF PeerThreads, IInv
<1> HIDE DEF info
<1> QED
  BY <1>5, <1>6, <1>8, <1>10, <1>11, <1>12, <1>13, <1>14, OneSlot DEF BooksRest

-----------------------------------------------------------------------------
(***************************************************************************)
(* What the clients do.                                                    *)
(***************************************************************************)

\* A step of client c alone.
LEMMA OneClient ==
    ASSUME IInv, CardInv, HonestInv, [Next]_vars, StoringStays, MainMoves,
           UNCHANGED <<slotVars, peerVars, got, pc, at>>, NEW c \in Conns,
           \A d \in Conns \ {c} : phase'[d] = phase[d] /\ inbox'[d] = inbox[d],
           ClientHonest(c)', \A i \in Slots : owner[i] = c => SlotHonest(i)'
    PROVE  HonestInv'
<1>0. BooksKept /\ BooksRest /\ \A d \in Conns \ {c} : ClientKept(d)
  BY DEF BooksKept, BooksRest, slotVars, peerVars, ClientKept
<1>1. \A i \in Slots : SlotHonest(i)'
  <2> SUFFICES ASSUME NEW i \in Slots, owner[i] # c PROVE SlotHonest(i)'
    OBVIOUS
  <2>1. SlotHonest(i) /\ SlotKept(i) /\ (owner[i] # NoConn => ClientKept(owner[i]))
    BY <1>0, Owned DEF HonestInv, SlotKept, slotVars
  <2> QED
    BY <1>0, <2>1, SlotFrame
<1>2. \A d \in Conns : ClientHonest(d)'
  <2> SUFFICES ASSUME NEW d \in Conns, d # c PROVE ClientHonest(d)'
    OBVIOUS
  <2>1. ClientHonest(d) /\ ClientKept(d) /\ charged \subseteq charged'
    BY <1>0 DEF HonestInv, BooksKept
  <2> QED
    BY <2>1, ClientFrame
<1>3. MainHonest'
  BY DEF HonestInv, MainHonest, HasResponse, Sends, slotVars
<1>4. HandsHonest'
  BY HandsFrame DEF HonestInv, slotVars
<1>5. RepliesHonest'
  BY RepliesFrame DEF HonestInv, slotVars, peerVars, StoringStays
<1>6. BooksHonest'
  BY <1>0, BooksFrame DEF HonestInv
<1> QED
  BY <1>1, <1>2, <1>3, <1>4, <1>5, <1>6 DEF HonestInv

LEMMA ClientHonestStep ==
    ASSUME IInv, CardInv, HonestInv, [Next]_vars, StoringStays, MainMoves, NEW c \in Conns,
           \/ ClientContinues(c) \/ ClientHangup(c)
           \/ \E k \in {"Bank", "Ctrl", "Bad"} : ClientRequest(c, k)
    PROVE  HonestInv'
<1>0. /\ UNCHANGED <<slotVars, peerVars, got, pc, at>> /\ ClientsOK
      /\ \A d \in Conns \ {c} : phase'[d] = phase[d] /\ inbox'[d] = inbox[d]
      /\ ClientHonest(c) /\ \A i \in Slots : SlotHonest(i)
  BY DEF ClientContinues, ClientHangup, ClientRequest, serverVars, threadVars, HonestInv, IInv, TypeOK, ClientsOK
<1>1. \/ phase[c] = "answered" /\ got[c].kind = "Bank" /\ phase'[c] = "done" /\ inbox'[c] = "Done"
      \/ phase[c] = "answered" /\ got[c].kind = "Cmd" /\ phase'[c] = "waiting" /\ inbox'[c] = "Ctrl"
      \/ phase[c] \in {"ready", "waiting", "answered", "done"} /\ phase'[c] = "gone" /\ inbox'[c] = inbox[c]
      \/ phase[c] = "ready" /\ phase'[c] = "waiting" /\ inbox'[c] \in {"Bank", "Ctrl", "Bad"}
  BY <1>0 DEF ClientContinues, ClientHangup, ClientRequest, ClientsOK
<1>2. ClientHonest(c)'
  BY <1>0, <1>1 DEF ClientHonest, PutToBank, peerVars
<1>3. ASSUME NEW i \in Slots, owner[i] = c PROVE SlotHonest(i)'
  <2>1. RequestOf(i)'
    BY <1>0, <1>1, <1>3 DEF SlotHonest, RequestOf, HasResponse, slotVars
  <2>2. ResponseOf(i)'
    BY <1>0, <1>1, <1>3 DEF SlotHonest, ResponseOf, HasResponse, AtTheBank, PutToBank, slotVars, peerVars
  <2>3. GotOf(i)'
    BY <1>0, <1>1, <1>3 DEF SlotHonest, GotOf, slotVars
  <2>4. AuditOf(i)'
    BY <1>0, <1>3 DEF SlotHonest, AuditOf, slotVars, peerVars
  <2> QED
    BY <2>1, <2>2, <2>3, <2>4 DEF SlotHonest
<1> QED
  BY <1>0, <1>2, <1>3, OneClient

-----------------------------------------------------------------------------
(***************************************************************************)
(* Clients are accepted and disconnected.                                  *)
(***************************************************************************)

\* A step other than Receive after which the slots of storing threads have their owners.
LEMMA RepliesStay ==
    ASSUME RepliesHonest, StoringStays, UNCHANGED <<charged, issued>>,
           \A p \in Peers : Storing(p) => owner'[at[Receiver(p)]] = owner[at[Receiver(p)]]
    PROVE  RepliesHonest'
<1>1. pc'["DbRecv"] \in {"lock", "store"} => /\ pc["DbRecv"] \in {"lock", "store"}
          /\ at'["DbRecv"] = at["DbRecv"] /\ reply'["db"] = reply["db"]
          /\ owner'[at["DbRecv"]] = owner[at["DbRecv"]]
  BY ThreadNames DEF Storing, StoringStays
<1>2. pc'["BankRecv"] \in {"lock", "store"} => /\ pc["BankRecv"] \in {"lock", "store"}
          /\ at'["BankRecv"] = at["BankRecv"] /\ reply'["bank"] = reply["bank"]
          /\ owner'[at["BankRecv"]] = owner[at["BankRecv"]]
  BY ThreadNames DEF Storing, StoringStays
<1> QED
  BY <1>1, <1>2 DEF RepliesHonest, AtTheBank, PutToBank

\* The slot of a thread that is about to store an answer has an owner.
LEMMA StoringOwned ==
    ASSUME IInv, HonestInv, NEW p \in Peers, Storing(p)
    PROVE  at[Receiver(p)] \in Slots /\ owner[at[Receiver(p)]] # NoConn
<1>1. at[Receiver(p)] \in Slots
  <2>1. Receiver(p) \in Threads
    BY ThreadNames
  <2> QED
    BY <2>1 DEF Storing, IInv, LockInv, LockAtSlot, MutexHeld, HoldsMutex, Critical
<1>2. CASE p = "db"
  BY <1>1, <1>2, ThreadNames, ConstAssumption DEF Storing, HonestInv, RepliesHonest, BooksHonest, NoConn
<1>3. CASE p = "bank"
  BY <1>1, <1>3, ThreadNames DEF Storing, HonestInv, RepliesHonest, AtTheBank
<1> QED
  BY <1>1, <1>2, <1>3 DEF Peers

-----------------------------------------------------------------------------
LEMMA AcceptHonest ==
    ASSUME IInv, CardInv, HonestInv, [Next]_vars, StoringStays, NEW c \in Conns, AcceptClient(c)
    PROVE  HonestInv'
<1>0. PICK k \in Slots, f \in Fds :
          /\ MainPoll[k].fd = NoFd
          /\ MainPoll' = [MainPoll EXCEPT ![k] = [fd |-> f, events |-> "POLLIN"]]
          /\ owner' = [owner EXCEPT ![k] = c]
          /\ AtSlot("Main", k)
  BY DEF AcceptClient, IsFirst
<1>1. /\ SlotsOK /\ ThreadTypes /\ "Main" \in Threads /\ ClientsOK /\ PeersOK /\ NoConn \notin Conns
      /\ pc["Main"] = "poll" /\ phase[c] = "new" /\ phase' = [phase EXCEPT ![c] = "ready"]
      /\ Goto("Main", "accept")
      /\ UNCHANGED <<ClientInfo, charged, issued, nextAudit, msgs, inbox, got>>
  BY Types, ThreadNames, Owned DEF AcceptClient, IInv, TypeOK, peerVars
<1>2. /\ pc'["Main"] = "accept" /\ at'["Main"] = k
      /\ \A t \in Threads \ {"Main"} : pc'[t] = pc[t] /\ at'[t] = at[t]
      /\ owner'[k] = c /\ \A i \in Slots \ {k} : owner'[i] = owner[i] /\ MainPoll'[i] = MainPoll[i]
      /\ MainPoll'[k] = [fd |-> f, events |-> "POLLIN"]
      /\ phase'[c] = "ready" /\ \A d \in Conns \ {c} : phase'[d] = phase[d]
  BY <1>0, <1>1 DEF Goto, AtSlot, ThreadTypes, SlotsOK, ClientsOK
<1>3. /\ owner[k] = NoConn /\ \A i \in Slots : owner[i] # c
      /\ ClientHonest(c) /\ inbox[c] = "none" /\ PutToBank(c) = {}
  BY <1>0, <1>1, Owned DEF Open, CardInv, OwnersKept, HonestInv, RequestOnce, RequestSpent
<1>4. /\ ~HasResponse(k) /\ ClientInfo[k].procStat \notin UnderWay /\ got[c].kind = "none"
      /\ SlotHonest(k) /\ BooksHonest
  BY <1>1, <1>3 DEF HonestInv, SlotHonest, RequestOf, ResponseOf, ClientHonest
<1>5. SlotHonest(k)'
  <2>1. RequestOf(k)' /\ ResponseOf(k)' /\ GotOf(k)'
    BY <1>1, <1>2, <1>4 DEF RequestOf, ResponseOf, GotOf, HasResponse
  <2>2. \A m \in charged : m.cc # c
    BY <1>3 DEF PutToBank
  <2>3. ClientInfo[k].servermsg.audit = NoAudit
    BY <1>1, <1>3, <1>4 DEF SlotHonest, AuditOf, BooksHonest
  <2>4. AuditOf(k)'
    BY <1>1, <1>2, <1>4, <2>2, <2>3 DEF AuditOf, UnderWay
  <2> QED
    BY <2>1, <2>4 DEF SlotHonest
<1>6. \A i \in Slots : SlotHonest(i)'
  <2> SUFFICES ASSUME NEW i \in Slots \ {k} PROVE SlotHonest(i)'
    BY <1>5
  <2>1. SlotHonest(i) /\ SlotKept(i) /\ (owner[i] # NoConn => ClientKept(owner[i])) /\ BooksKept
    BY <1>1, <1>2, <1>3, Owned DEF HonestInv, SlotKept, ClientKept, BooksKept
  <2> QED
    BY <2>1, SlotFrame
<1>7. \A d \in Conns : ClientHonest(d)'
  <2>1. ClientHonest(c)'
    BY <1>1, <1>2, <1>3, <1>4 DEF ClientHonest, PutToBank
  <2>2. ASSUME NEW d \in Conns, d # c PROVE ClientHonest(d)'
    BY <1>1, <1>2, <2>2, ClientFrame DEF HonestInv, ClientKept
  <2> QED
    BY <2>1, <2>2
<1>8. MainHonest'
  <2>1. \A i \in Slots : Sends(i)' => HasResponse(i)'
    BY <1>1, <1>2 DEF Sends, HasResponse, HonestInv, MainHonest
  <2> QED
    BY <1>1, <1>2, <1>4, <2>1 DEF MainHonest, HasResponse
<1>9. HandsHonest'
  BY <1>1, HandsFrame DEF HonestInv
<1>10. RepliesHonest'
  BY <1>1, <1>2, <1>3, StoringOwned, RepliesStay DEF HonestInv
<1>11. BooksHonest'
  <2>1. \A r \in msgs'["db"] : \E i \in Slots : MainPoll'[i].fd = r.key /\ owner'[i] = r.cc /\ r.cc # NoConn
    BY <1>1, <1>2, <1>3, <1>4 DEF BooksHonest
  <2> QED
    BY <1>1, <1>4, <2>1 DEF BooksHonest, AuditForCard
<1> QED
  BY <1>6, <1>7, <1>8, <1>9, <1>10, <1>11 DEF HonestInv

\* Main closes slot k; nobody is at work on it.
LEMMA CloseHonest ==
    ASSUME IInv, CardInv, HonestInv, [Next]_vars, ClosesIdle, StoringStays, CloseClient PROVE HonestInv'
<1> PICK k \in Slots : k = at["Main"]
  BY DEF CloseClient, IInv, SessionInv, MainAtSlot
<1> DEFINE c == owner[k]
<1>1. /\ SlotsOK /\ ThreadTypes /\ "Main" \in Threads /\ NoConn \notin Conns
      /\ pc["Main"] = "close" /\ Goto("Main", "swpTimer")
      /\ UNCHANGED <<charged, issued, nextAudit, msgs, inbox, got>>
  BY Types, ThreadNames, Owned DEF CloseClient, peerVars
<1>2. /\ MainPoll'[k] = FreePoll /\ ClientInfo'[k] = FreeInfo /\ owner'[k] = NoConn
      /\ \A i \in Slots \ {k} : owner'[i] = owner[i] /\ MainPoll'[i] = MainPoll[i] /\ ClientInfo'[i] = ClientInfo[i]
      /\ \A d \in Conns : phase'[d] = IF d = c /\ phase[c] # "gone" THEN "cut" ELSE phase[d]
      /\ pc'["Main"] = "swpTimer"
  BY <1>1 DEF CloseClient, Goto, ThreadTypes, SlotsOK
<1>3. Open(k) => ~InUse(k)
  BY <1>2 DEF ClosesIdle, FreePoll
<1>4. ASSUME NEW p \in Peers, Storing(p) PROVE at[Receiver(p)] # k
  <2>1. at[Receiver(p)] = k => Open(k)
    BY <1>4, StoringOwned, Owned
  <2>2. pc[Receiver(p)] = "store" => at[Receiver(p)] \in InHand(Receiver(p))
    BY DEF InHand, Critical
  <2> QED
    BY <1>3, <1>4, <2>1, <2>2 DEF InUse, Storing
<1>5. ASSUME NEW t \in PeerThreads PROVE k \notin InHand(t)
  <2>1. \E p \in Peers : t = Sender(p) \/ t = Receiver(p)
    BY ThreadNames DEF PeerThreads
  <2>2. StageOf(t) \in UnderWay
    BY DEF PeerThreads, StageOf, UnderWay
  <2>3. k \in InHand(t) => ClientInfo[k].procStat \in UnderWay
    BY <2>2 DEF HonestInv, HandsHonest, PeerThreads
  <2>4. k \in InHand(t) => Open(k)
    BY <2>3, Owned DEF HonestInv, SlotHonest, RequestOf
  <2> QED
    BY <1>3, <2>1, <2>4 DEF InUse
<1>6. SlotHonest(k)'
  <2>1. RequestOf(k)' /\ ResponseOf(k)' /\ GotOf(k)'
    BY <1>2 DEF RequestOf, ResponseOf, GotOf, HasResponse, FreeInfo, NoResponse, UnderWay
  <2>2. \A m \in charged : m.cc # NoConn
    BY <1>1 DEF HonestInv, BooksHonest, AuditForCard
  <2>3. AuditOf(k)'
    BY <1>1, <1>2, <2>2 DEF AuditOf, FreeInfo, BlankMsg
  <2> QED
    BY <2>1, <2>3 DEF SlotHonest
<1>7. \A i \in Slots : SlotHonest(i)'
  <2> SUFFICES ASSUME NEW i \in Slots \ {k} PROVE SlotHonest(i)'
    BY <1>6
  <2>1. SlotHonest(i) /\ SlotKept(i) /\ (owner[i] # NoConn => ClientKept(owner[i])) /\ BooksKept
    BY <1>1, <1>2, Owned DEF HonestInv, SlotKept, ClientKept, BooksKept
  <2> QED
    BY <2>1, SlotFrame
<1>8. \A d \in Conns : ClientHonest(d)'
  <2> TAKE d \in Conns
  <2>1. CASE phase'[d] = "cut"
    BY <1>1, <2>1 DEF HonestInv, ClientHonest, PutToBank
  <2>2. CASE phase'[d] = phase[d]
    BY <1>1, <2>2, ClientFrame DEF HonestInv, ClientKept
  <2> QED
    BY <1>2, <2>1, <2>2
<1>9. MainHonest'
  <2>1. ~Sends(k)'
    BY <1>2 DEF Sends, FreePoll
  <2>2. \A i \in Slots \ {k} : Sends(i)' => HasResponse(i)'
    BY <1>1, <1>2 DEF Sends, HasResponse, HonestInv, MainHonest
  <2> QED
    BY <1>2, <2>1, <2>2 DEF MainHonest
<1>10. HandsHonest'
  <2>1. \A t \in PeerThreads : \A i \in InHand(t) : i \in Slots \ {k}
    BY <1>5, HandHolds, ThreadNames DEF PeerThreads, IInv
  <2> QED
    BY <1>2, <2>1, HandsFrame DEF HonestInv
<1>11. RepliesHonest'
  BY <1>1, <1>2, <1>4, StoringOwned, RepliesStay DEF HonestInv
<1>12. BooksHonest'
  <2>1. ASSUME NEW r \in msgs["db"]
        PROVE  \E i \in Slots : MainPoll'[i].fd = r.key /\ owner'[i] = r.cc /\ r.cc # NoConn
    <3>1. PICK i \in Slots : MainPoll[i].fd = r.key /\ owner[i] = r.cc /\ r.cc # NoConn
      BY DEF HonestInv, BooksHonest
    <3>2. i # k
      BY <1>3, <3>1, Owned DEF InUse
    <3> QED
      BY <1>2, <3>1, <3>2
  <2> QED
    BY <1>1, <2>1 DEF HonestInv, BooksHonest, AuditForCard
<1> QED
  BY <1>7, <1>8, <1>9, <1>10, <1>11, <1>12 DEF HonestInv

-----------------------------------------------------------------------------
(***************************************************************************)
(* Messages are sent to the peers.                                         *)
(***************************************************************************)

\* A step of a thread that has slot k in hand: nobody else has it.
LEMMA HandsOff ==
    ASSUME IInv, NEW t \in PeerThreads, NEW k \in InHand(t)
    PROVE  k \in Slots /\ \A u \in PeerThreads \ {t} : k \notin InHand(u)
<1>1. t \in Threads /\ \A u \in PeerThreads : u \in Threads
  BY ThreadNames DEF PeerThreads
<1>2. k \in Slots /\ mutex[k] = t
  BY <1>1, HandHolds DEF IInv
<1>3. \A u \in PeerThreads : k \in InHand(u) => mutex[k] = u
  BY <1>1, HandHolds DEF IInv
<1> QED
  BY <1>2, <1>3

\* Main finds what it has to send, when a thread changes slot k.
LEMMA MainHands ==
    ASSUME IInv, HonestInv, MainMoves, NEW k \in Slots, ClientInfo[k].procStat \in UnderWay,
           \A i \in Slots \ {k} : SlotKept(i), UNCHANGED <<owner, got>>,
           \A i \in Slots : Sends(i)' => Sends(i) \/ (i = k /\ ClientInfo'[k].response.kind # "none")
    PROVE  MainHonest'
<1>1. ~HasResponse(k)
  BY DEF HonestInv, SlotHonest, RequestOf
<1>2. \A i \in Slots : HasResponse(i) => HasResponse(i)'
  BY <1>1 DEF SlotKept, HasResponse
<1>3. \A i \in Slots : Sends(i)' => Sends(i) \/ HasResponse(i)'
  BY DEF HasResponse
<1>4. ASSUME pc'["Main"] = "accept"
      PROVE  /\ ClientInfo'[at["Main"]].response.kind = "none"
             /\ ClientInfo'[at["Main"]].procStat \notin UnderWay /\ got'[owner'[at["Main"]]].kind = "none"
  <2>1. pc["Main"] = "accept" /\ at["Main"] \in Slots
    BY <1>4 DEF MainMoves, IInv, SessionInv, MainAtSlot
  <2>2. at["Main"] # k
    BY <2>1 DEF HonestInv, MainHonest
  <2> QED
    BY <2>1, <2>2 DEF HonestInv, MainHonest, HasResponse, SlotKept
<1> QED
  BY <1>2, <1>3, <1>4, MainFrame DEF HonestInv

-----------------------------------------------------------------------------
\* The slot a sending thread is at is in its stage, and its client's request is under way.
LEMMA SenderSlot ==
    ASSUME IInv, CardInv, HonestInv, NEW p \in Peers, pc[Sender(p)] \in Critical
    PROVE  LET k == at[Sender(p)] x == ClientInfo[k] IN
           /\ k \in Slots /\ k \in InHand(Sender(p)) /\ Sender(p) \in PeerThreads
           /\ x \in InfoType /\ x.servermsg \in MsgType /\ x.procStat = SendStage(p)
           /\ owner[k] \in Conns /\ x.servermsg.cc = owner[k] /\ SlotHonest(k)
           /\ p = "bank" => x.servermsg.audit # NoAudit /\ <<x.servermsg.audit, owner[k]>> \in issued
<1> DEFINE k == at[Sender(p)] x == ClientInfo[k]
<1>1. k \in Slots /\ k \in InHand(Sender(p)) /\ Sender(p) \in {"DbSend", "BankSend"}
  BY AtSlots, ThreadNames DEF IInv, InHand
<1>2. x \in InfoType /\ x.servermsg \in MsgType /\ SlotHonest(k)
  BY <1>1, Types, InfoUpdates DEF HonestInv
<1>3. StageOf(Sender(p)) = SendStage(p) /\ SendStage(p) \in UnderWay
  BY ThreadNames DEF StageOf, SendStage, UnderWay
<1>4. x.procStat = SendStage(p)
  BY <1>1, <1>3 DEF HonestInv, HandsHonest
<1>5. owner[k] \in Conns /\ x.servermsg.cc = owner[k]
  BY <1>1, <1>2, <1>3, <1>4, Owned DEF SlotHonest, RequestOf
<1>6. p = "bank" => x.servermsg.audit # NoAudit /\ <<x.servermsg.audit, owner[k]>> \in issued
  BY <1>1, <1>2, <1>4 DEF SlotHonest, AuditOf, SendStage
<1> QED
  BY <1>1, <1>2, <1>4, <1>5, <1>6 DEF PeerThreads

LEMMA SendHonest ==
    ASSUME IInv, CardInv, HonestInv, [Next]_vars, StoringStays, MainMoves, NEW p \in Peers, SendMsg(p)
    PROVE  HonestInv'
<1>0. PICK k \in Slots : k = at[Sender(p)]
  BY SenderSlot DEF SendMsg, Critical
<1> DEFINE x == ClientInfo[k] c == owner[k] m == [key |-> Key(p, k), cc |-> x.servermsg.cc]
           info == [x EXCEPT !.servermsg.status = SentStatus(p)]
<1>1. /\ x \in InfoType /\ x.servermsg \in MsgType /\ x.procStat = SendStage(p)
      /\ c \in Conns /\ x.servermsg.cc = c /\ SlotHonest(k)
      /\ p = "bank" => x.servermsg.audit # NoAudit /\ <<x.servermsg.audit, c>> \in issued
  BY <1>0, SenderSlot DEF SendMsg, Critical
<1>2. /\ UNCHANGED <<MainPoll, owner, issued, nextAudit, phase, inbox, got, at>> /\ SlotsOK /\ PeersOK
      /\ NoConn \notin Conns /\ BooksHonest
  BY Owned DEF SendMsg, clientVars, IInv, TypeOK, HonestInv
<1>3. ClientInfo' = [ClientInfo EXCEPT ![k] = info]
  BY <1>0 DEF SendMsg, WithSentStatus
<1>4. /\ info.servermsg.cc = x.servermsg.cc /\ info.servermsg.audit = x.servermsg.audit
      /\ info.procStat = x.procStat /\ info.response = x.response /\ info.disconStat = x.disconStat
  BY <1>1 DEF InfoType, MsgType
<1> HIDE DEF info
<1>5. \A i \in Slots : SlotKept(i)
  <2>1. ClientInfo'[k] = info /\ \A i \in Slots \ {k} : SlotKept(i)
    BY <1>2, <1>3, SlotUpdate
  <2> QED
    BY <1>2, <1>4, <2>1 DEF SlotKept
<1>6. /\ charged \subseteq charged' /\ charged' \subseteq charged \cup {m} /\ msgs'["bank"] \subseteq charged'
      /\ p = "db" => charged' = charged
      /\ \A r \in msgs'["db"] : r \in msgs["db"] \/ (r.key = MainPoll[k].fd /\ r.cc = c)
  <2>1. CASE p = "db"
    BY <1>0, <1>1, <1>2, <2>1 DEF SendMsg, PeersOK, Peers, Key, BooksHonest
  <2>2. CASE p = "bank"
    BY <1>0, <1>1, <1>2, <2>2 DEF SendMsg, PeersOK, Peers, BooksHonest
  <2> QED
    BY <2>1, <2>2 DEF Peers
<1>7. ASSUME p = "bank"
      PROVE  m.key = x.servermsg.audit /\ m.cc = c /\ \A n \in charged : n.cc = c => n = m
  <2>1. m.key = x.servermsg.audit /\ m.cc = c
    BY <1>1, <1>7 DEF Key
  <2>2. ASSUME NEW n \in charged, n.cc = c PROVE n = m
    <3>1. n.key = m.key
      BY <1>1, <2>1, <2>2 DEF SlotHonest, AuditOf
    <3>2. n \in PeerMsgs("bank")
      BY <1>2 DEF PeersOK
    <3> QED
      BY <2>1, <2>2, <3>1, <3>2 DEF PeerMsgs
  <2> QED
    BY <2>1, <2>2
<1> HIDE DEF m
<1>8. BooksHonest'
  <2>1. \A r \in msgs'["db"] : \E i \in Slots : MainPoll'[i].fd = r.key /\ owner'[i] = r.cc /\ r.cc # NoConn
    BY <1>1, <1>2, <1>6 DEF BooksHonest
  <2>2. AuditForCard'
    BY <1>1, <1>2, <1>6, <1>7, ThreadNames DEF BooksHonest, AuditForCard
  <2>3. \A n, o \in charged' : n.cc = o.cc => n = o
    BY <1>1, <1>2, <1>6, <1>7, ThreadNames DEF BooksHonest
  <2> QED
    BY <1>2, <1>6, <2>1, <2>2, <2>3 DEF BooksHonest
<1>9. \A i \in Slots : SlotHonest(i)'
  <2> TAKE i \in Slots
  <2>1. ClientKept(owner[i]) /\ SlotHonest(i) /\ SlotKept(i)
    BY <1>2, <1>5 DEF HonestInv, ClientKept
  <2>2. ASSUME NEW n \in charged' \ charged, owner[i] = n.cc PROVE ClientInfo[i].servermsg.audit = n.key
    BY <1>1, <1>2, <1>6, <1>7, <2>2, Owned, ThreadNames
  <2> QED
    BY <1>2, <1>6, <2>1, <2>2, SlotGrows
<1>10. \A d \in Conns : ClientHonest(d)'
  BY <1>2, <1>6, ClientFrame DEF HonestInv, ClientKept
<1>11. MainHonest'
  BY <1>1, <1>2, <1>5, MainHands DEF Sends, SendStage, UnderWay
<1>12. HandsHonest'
  <2>1. \A t \in PeerThreads : \A i \in InHand(t) : i \in Slots
    BY HandHolds, ThreadNames DEF PeerThreads, IInv
  <2> QED
    BY <1>5, <2>1, HandsFrame DEF HonestInv, SlotKept
<1>13. RepliesHonest'
  BY <1>2, <1>6, RepliesFrame DEF HonestInv, StoringStays
<1> QED
  BY <1>8, <1>9, <1>10, <1>11, <1>12, <1>13 DEF HonestInv

LEMMA SentHonest ==
    ASSUME IInv, CardInv, HonestInv, [Next]_vars, StoringStays, MainMoves, NEW p \in Peers, Sent(p)
    PROVE  HonestInv'
<1>0. PICK k \in Slots : k = at[Sender(p)]
  BY SenderSlot DEF Sent, Critical
<1> DEFINE x == ClientInfo[k] info == [x EXCEPT !.procStat = RecvStage(p), !.activityTime = "recent"]
<1>1. /\ x \in InfoType /\ x.procStat = SendStage(p) /\ SlotHonest(k) /\ k \in InHand(Sender(p))
      /\ p = "bank" => x.servermsg.audit # NoAudit
      /\ Sender(p) \in PeerThreads /\ Sender(p) \in Threads
  BY <1>0, SenderSlot, ThreadNames DEF Sent, Critical
<1>2. /\ UNCHANGED <<MainPoll, owner, issued, charged, nextAudit, msgs, phase, inbox, got>> /\ SlotsOK
      /\ ThreadTypes /\ pc'[Sender(p)] \in {"down", "swp"}
  BY <1>1, Types DEF Sent, clientVars, peerVars, Goto, AfterSend, ThreadTypes
<1>3. ClientInfo' = [ClientInfo EXCEPT ![k] = info]
  BY <1>0 DEF Sent
<1>4. /\ info.servermsg = x.servermsg /\ info.procStat = RecvStage(p) /\ info.response = x.response
      /\ info.disconStat = x.disconStat
  BY <1>1 DEF InfoType
<1> HIDE DEF info
<1>5. ClientInfo'[k] = info /\ \A i \in Slots \ {k} : SlotKept(i)
  BY <1>2, <1>3, SlotUpdate
<1>6. SendStage(p) \in UnderWay /\ RecvStage(p) = (IF p = "bank" THEN "BANK_RECV" ELSE "DB_RECV")
  BY DEF SendStage, RecvStage, UnderWay, Peers
<1>7. SlotHonest(k)'
  <2>1. RequestOf(k)' /\ ResponseOf(k)'
    BY <1>1, <1>2, <1>4, <1>5, <1>6 DEF SlotHonest, RequestOf, ResponseOf, HasResponse, AtTheBank, PutToBank
  <2>2. GotOf(k)'
    BY <1>1, <1>2, <1>4, <1>5 DEF SlotHonest, GotOf
  <2>3. AuditOf(k)'
    BY <1>1, <1>2, <1>4, <1>5, <1>6 DEF SlotHonest, AuditOf
  <2> QED
    BY <2>1, <2>2, <2>3 DEF SlotHonest
<1>8. \A d \in Conns : ClientKept(d) /\ ClientHonest(d)'
  BY <1>2, ClientFrame DEF HonestInv, ClientKept
<1>9. MainHonest'
  BY <1>1, <1>2, <1>5, <1>6, MainHands DEF Sends
<1>10. \A t \in PeerThreads : ~(k \in InHand(t) /\ k \in InHand(t)')
  <2>1. InHand(Sender(p))' = {}
    BY <1>2 DEF InHand, Critical
  <2> QED
    BY <1>1, <2>1, HandsOff
<1> QED
  BY <1>2, <1>5, <1>7, <1>8, <1>9, <1>10, OneSlot DEF BooksRest

-----------------------------------------------------------------------------
(***************************************************************************)
(* Answers are received and stored.                                        *)
(***************************************************************************)

\* What a receiving thread leaves, when it gets an answer.
LEMMA ReceiveFrame ==
    ASSUME IInv, CardInv, HonestInv, [Next]_vars, MainMoves, NEW p \in Peers, Receive(p), RepliesHonest', BooksHonest'
    PROVE  HonestInv'
<1>1. /\ UNCHANGED <<slotVars, charged, clientVars>> /\ issued \subseteq issued'
      /\ pc'["Main"] = pc["Main"] /\ at'["Main"] = at["Main"]
  <2>1. Receiver(p) \in {"DbRecv", "BankRecv"} /\ ThreadTypes /\ "Main" \in Threads
    BY ThreadNames, Types
  <2>2. UNCHANGED <<slotVars, charged, clientVars>> /\ issued \subseteq issued'
    BY DEF Receive
  <2>3. \E l : Goto(Receiver(p), l) /\ (at' = at \/ \E i : AtSlot(Receiver(p), i))
    BY DEF Receive
  <2> QED
    BY <2>1, <2>2, <2>3 DEF Goto, AtSlot, ThreadTypes
<1>2. BooksKept /\ \A i \in Slots : SlotKept(i) /\ SlotHonest(i) /\ ClientKept(owner[i])
  BY <1>1 DEF BooksKept, SlotKept, ClientKept, slotVars, clientVars, HonestInv
<1>3. \A i \in Slots : SlotHonest(i)'
  BY <1>2, SlotFrame
<1>4. \A c \in Conns : ClientHonest(c)'
  BY <1>1, ClientFrame DEF HonestInv, ClientKept, clientVars
<1>5. MainHonest'
  BY <1>1 DEF HonestInv, MainHonest, HasResponse, Sends, slotVars, clientVars
<1>6. HandsHonest'
  BY <1>1, HandsFrame DEF HonestInv, slotVars
<1> QED
  BY <1>3, <1>4, <1>5, <1>6 DEF HonestInv

LEMMA ReceiveDbHonest ==
    ASSUME IInv, CardInv, HonestInv, [Next]_vars, MainMoves, Receive("db")
    PROVE  HonestInv'
<1>0. /\ "DbRecv" \in Threads /\ "BankRecv" \in Threads /\ Receiver("db") = "DbRecv"
      /\ "db" \in Peers /\ "bank" \in Peers /\ ThreadTypes /\ PeersOK /\ RepliesHonest /\ BooksHonest
  BY ThreadNames, Types DEF IInv, TypeOK, HonestInv
<1>1. PICK r \in msgs["db"] :
          /\ msgs' = [msgs EXCEPT !["db"] = @ \ {r}]
          /\ nextAudit' = nextAudit + 1 /\ issued' = issued \cup {<<nextAudit', r.cc>>}
          /\ \/ Goto("DbRecv", "swp") /\ UNCHANGED <<at, reply>>
             \/ \E i \in Slots : /\ Expects("db", i, r.key) /\ Goto("DbRecv", "lock") /\ AtSlot("DbRecv", i)
                                 /\ reply' = [reply EXCEPT !["db"] = nextAudit']
  BY <1>0 DEF Receive, AfterRecv, IsFirst
<1>2. PICK j \in Slots : MainPoll[j].fd = r.key /\ owner[j] = r.cc /\ owner[j] \in Conns
  BY <1>0, Owned DEF BooksHonest
<1>3. /\ UNCHANGED <<slotVars, charged>> /\ \A i \in Slots : owner'[i] = owner[i] /\ MainPoll'[i] = MainPoll[i]
      /\ msgs'["db"] \subseteq msgs["db"] /\ msgs'["bank"] = msgs["bank"]
  BY <1>0, <1>1, ThreadNames DEF Receive, slotVars, PeersOK
<1>4. nextAudit \in Nat /\ nextAudit' = nextAudit + 1 /\ nextAudit' # NoAudit
  BY <1>0, <1>1 DEF PeersOK, NoAudit
<1>5. BooksHonest'
  <2>1. \A a \in issued : a[1] # nextAudit'
    BY <1>0, <1>4 DEF BooksHonest
  <2>2. \A a \in issued' : a \in issued \/ (a[1] = nextAudit' /\ a[2] = r.cc)
    BY <1>1
  <2>3. \A a \in issued' : a[1] \in 1..nextAudit' /\ a[2] \in Conns
    BY <1>0, <1>2, <1>4, <2>2 DEF BooksHonest
  <2>4. \A a, b \in issued' : a[1] = b[1] => a = b
    BY <1>0, <1>1, <2>1 DEF BooksHonest
  <2>5. AuditForCard'
    BY <1>0, <1>1, <1>3 DEF BooksHonest, AuditForCard
  <2> QED
    BY <1>0, <1>3, <2>3, <2>4, <2>5 DEF BooksHonest
<1>6. RepliesHonest'
  <2>1. pc'["BankRecv"] = pc["BankRecv"] /\ at'["BankRecv"] = at["BankRecv"] /\ reply'["bank"] = reply["bank"]
    <3>1. /\ \E l : Goto("DbRecv", l)
          /\ at' = at \/ \E i : AtSlot("DbRecv", i)
          /\ reply' = reply \/ \E n : reply' = [reply EXCEPT !["db"] = n]
      BY <1>1
    <3> QED
      BY <1>0, <3>1 DEF Goto, AtSlot, ThreadTypes, PeersOK
  <2>2. ASSUME pc'["DbRecv"] \in {"lock", "store"}
        PROVE  reply'["db"] # NoAudit /\ <<reply'["db"], owner'[at'["DbRecv"]]>> \in issued'
    <3>1. PICK i \in Slots : /\ Expects("db", i, r.key) /\ at'["DbRecv"] = i /\ reply'["db"] = nextAudit'
      BY <1>0, <1>1, <2>2 DEF Goto, AtSlot, ThreadTypes, PeersOK
    <3>2. i = j
      BY <1>2, <3>1 DEF Expects, Live, Key, IInv, SessionInv, FdsDiffer, Open
    <3> QED
      BY <1>1, <1>2, <1>3, <1>4, <3>1, <3>2
  <2>3. AtTheBank(at["BankRecv"]) => AtTheBank(at["BankRecv"])' \/ at'["BankRecv"] # at["BankRecv"]
    BY <1>3 DEF AtTheBank, PutToBank, slotVars
  <2> QED
    BY <1>0, <1>3, <2>1, <2>2 DEF RepliesHonest, AtTheBank, PutToBank, slotVars
<1> QED
  BY <1>0, <1>5, <1>6, ReceiveFrame

LEMMA ReceiveBankHonest ==
    ASSUME IInv, CardInv, HonestInv, [Next]_vars, MainMoves, Receive("bank")
    PROVE  HonestInv'
<1>0. /\ "DbRecv" \in Threads /\ "BankRecv" \in Threads /\ Receiver("bank") = "BankRecv"
      /\ "db" \in Peers /\ "bank" \in Peers /\ ThreadTypes /\ PeersOK /\ RepliesHonest /\ BooksHonest
  BY ThreadNames, Types DEF IInv, TypeOK, HonestInv
<1>1. PICK r \in msgs["bank"] :
          /\ msgs' = [msgs EXCEPT !["bank"] = @ \ {r}]
          /\ UNCHANGED <<nextAudit, issued>>
          /\ \/ Goto("BankRecv", "recv") /\ UNCHANGED <<at, reply>>
             \/ \E i \in Slots : /\ Expects("bank", i, r.key) /\ Goto("BankRecv", "lock") /\ AtSlot("BankRecv", i)
                                 /\ reply' = [reply EXCEPT !["bank"] = r.cc]
  <2>0. Receiver("bank") = "BankRecv" /\ "bank" # "db"
    BY <1>0
  <2>1. \E r \in msgs["bank"] :
          LET expected == {j \in Slots : Expects("bank", j, r.key)}
          IN /\ msgs' = [msgs EXCEPT !["bank"] = @ \ {r}] /\ UNCHANGED <<nextAudit, issued>>
             /\ \/ Goto("BankRecv", AfterRecv("bank")) /\ UNCHANGED <<at, reply>>
                \/ \E i \in Slots : /\ IsFirst(i, expected) /\ Goto("BankRecv", "lock") /\ AtSlot("BankRecv", i)
                                    /\ reply' = [reply EXCEPT !["bank"] = r.cc]
    BY <2>0, ZenonT(60) DEF Receive
  <2>2. AfterRecv("bank") = "recv"
    BY DEF AfterRecv
  <2> QED
    BY <2>1, <2>2 DEF IsFirst
<1>2. r \in charged /\ <<r.key, r.cc>> \in issued /\ r.cc \in Conns
  BY <1>0 DEF BooksHonest, AuditForCard
<1>3. /\ UNCHANGED <<slotVars, charged>> /\ \A i \in Slots : owner'[i] = owner[i] /\ MainPoll'[i] = MainPoll[i]
      /\ msgs'["bank"] \subseteq msgs["bank"] /\ msgs'["db"] = msgs["db"]
  BY <1>0, <1>1, ThreadNames DEF Receive, slotVars, PeersOK
<1>4. BooksHonest'
  BY <1>0, <1>1, <1>3, BooksFrame DEF BooksRest, slotVars
<1>5. RepliesHonest'
  <2>1. pc'["DbRecv"] = pc["DbRecv"] /\ at'["DbRecv"] = at["DbRecv"] /\ reply'["db"] = reply["db"]
    <3>1. /\ \E l : Goto("BankRecv", l)
          /\ at' = at \/ \E i : AtSlot("BankRecv", i)
          /\ reply' = reply \/ \E n : reply' = [reply EXCEPT !["bank"] = n]
      BY <1>1
    <3> QED
      BY <1>0, <3>1 DEF Goto, AtSlot, ThreadTypes, PeersOK
  <2>2. ASSUME pc'["BankRecv"] \in {"lock", "store"}
        PROVE  reply'["bank"] = owner'[at'["BankRecv"]] /\ AtTheBank(at["BankRecv"])'
    <3>1. PICK i \in Slots : /\ Expects("bank", i, r.key) /\ at'["BankRecv"] = i /\ reply'["bank"] = r.cc
      BY <1>0, <1>1, <2>2 DEF Goto, AtSlot, ThreadTypes, PeersOK
    <3>2. owner[i] = r.cc
      <4>1. ClientInfo[i].servermsg.audit = r.key /\ ClientInfo[i].procStat = "BANK_RECV" /\ AuditOf(i)
        BY <3>1 DEF Expects, Key, RecvStage, HonestInv, SlotHonest
      <4>2. <<r.key, owner[i]>> \in issued
        BY <4>1 DEF AuditOf
      <4>3. <<r.key, owner[i]>> = <<r.key, r.cc>>
        BY <1>0, <1>2, <4>2 DEF BooksHonest
      <4> QED
        BY <4>3
    <3>3. PutToBank(r.cc)' # {} /\ r.cc # NoConn
      BY <1>2, <1>3, Owned DEF PutToBank
    <3>4. owner'[at'["BankRecv"]] = r.cc
      BY <1>3, <3>1, <3>2
    <3> QED
      BY <3>1, <3>3, <3>4 DEF AtTheBank, PutToBank
  <2> QED
    BY <1>0, <1>1, <1>3, <2>1, <2>2 DEF RepliesHonest, slotVars
<1> QED
  BY <1>0, <1>4, <1>5, ReceiveFrame

-----------------------------------------------------------------------------
\* The slot a receiving thread is about to store into.
LEMMA ReceiverSlot ==
    ASSUME IInv, CardInv, HonestInv, NEW t \in {"DbRecv", "BankRecv"}, pc[t] = "store"
    PROVE  LET k == at[t] x == ClientInfo[k] IN
           /\ k \in Slots /\ k \in InHand(t) /\ t \in PeerThreads /\ t \in Threads
           /\ x \in InfoType /\ x.servermsg \in MsgType /\ x.procStat = StageOf(t) /\ x.procStat \in UnderWay
           /\ owner[k] \in Conns /\ owner[k] # NoConn /\ x.servermsg.cc = owner[k] /\ SlotHonest(k)
<1> DEFINE k == at[t] x == ClientInfo[k]
<1>1. k \in Slots /\ k \in InHand(t)
  BY AtSlots, ThreadNames DEF IInv, InHand, Critical
<1>2. x \in InfoType /\ x.servermsg \in MsgType /\ SlotHonest(k)
  BY <1>1, Types, InfoUpdates DEF HonestInv
<1>3. x.procStat = StageOf(t) /\ x.procStat \in UnderWay
  BY <1>1 DEF HonestInv, HandsHonest, StageOf, UnderWay
<1>4. owner[k] \in Conns /\ owner[k] # NoConn /\ x.servermsg.cc = owner[k]
  BY <1>1, <1>2, <1>3, Owned DEF SlotHonest, RequestOf
<1> QED
  BY <1>1, <1>2, <1>3, <1>4, ThreadNames DEF PeerThreads

LEMMA AuditHonest ==
    ASSUME IInv, CardInv, HonestInv, [Next]_vars, StoringStays, MainMoves, StoreAudit
    PROVE  HonestInv'
<1>0. PICK k \in Slots : k = at["DbRecv"]
  BY ReceiverSlot DEF StoreAudit
<1> DEFINE x == ClientInfo[k] m == [x.servermsg EXCEPT !.audit = reply["db"], !.status = "DR"]
           info == [x EXCEPT !.servermsg = m, !.procStat = "BANK_SEND", !.activityTime = "recent"]
<1>1. /\ x \in InfoType /\ x.servermsg \in MsgType /\ x.procStat \in UnderWay /\ SlotHonest(k)
      /\ k \in InHand("DbRecv") /\ "DbRecv" \in PeerThreads /\ "DbRecv" \in Threads
  BY <1>0, ReceiverSlot DEF StoreAudit
<1>2. /\ UNCHANGED <<MainPoll, owner, issued, charged, nextAudit, msgs, phase, inbox, got>> /\ SlotsOK
      /\ ThreadTypes /\ pc'["DbRecv"] = "swp"
  BY <1>1, Types DEF StoreAudit, clientVars, peerVars, Goto, ThreadTypes
<1>3. ClientInfo' = [ClientInfo EXCEPT ![k] = info]
  BY <1>0 DEF StoreAudit
<1>4. /\ info.servermsg.cc = x.servermsg.cc /\ info.servermsg.audit = reply["db"]
      /\ info.procStat = "BANK_SEND" /\ info.response = x.response
      /\ info.disconStat = x.disconStat
  BY <1>1 DEF InfoType, MsgType
<1> HIDE DEF info
<1>5. ClientInfo'[k] = info /\ \A i \in Slots \ {k} : SlotKept(i)
  BY <1>2, <1>3, SlotUpdate
<1>6. reply["db"] # NoAudit /\ <<reply["db"], owner[k]>> \in issued
  BY <1>0 DEF StoreAudit, HonestInv, RepliesHonest
<1>7. \A n \in charged : n.cc # owner[k]
  <2>1. ~AtTheBank(k)
    BY <1>1 DEF CardInv, ChargedInv
  <2>2. owner[k] # NoConn
    BY <1>1 DEF SlotHonest, RequestOf
  <2> QED
    BY <2>1, <2>2 DEF AtTheBank, PutToBank
<1>8. SlotHonest(k)'
  <2>1. RequestOf(k)' /\ ResponseOf(k)'
    BY <1>1, <1>2, <1>4, <1>5 DEF SlotHonest, RequestOf, ResponseOf, HasResponse, AtTheBank, PutToBank
  <2>2. GotOf(k)'
    BY <1>1, <1>2, <1>4, <1>5 DEF SlotHonest, GotOf
  <2>3. AuditOf(k)'
    BY <1>2, <1>4, <1>5, <1>6, <1>7 DEF AuditOf
  <2> QED
    BY <2>1, <2>2, <2>3 DEF SlotHonest
<1>9. \A d \in Conns : ClientKept(d) /\ ClientHonest(d)'
  BY <1>2, ClientFrame DEF HonestInv, ClientKept
<1>10. MainHonest'
  BY <1>1, <1>2, <1>5, MainHands DEF Sends
<1>11. \A t \in PeerThreads : ~(k \in InHand(t) /\ k \in InHand(t)')
  <2>1. InHand("DbRecv")' = {}
    BY <1>2 DEF InHand, Critical
  <2> QED
    BY <1>1, <2>1, HandsOff
<1> QED
  BY <1>2, <1>5, <1>8, <1>9, <1>10, <1>11, OneSlot DEF BooksRest

LEMMA VerdictHonest ==
    ASSUME IInv, CardInv, HonestInv, [Next]_vars, StoringStays, MainMoves, StoreVerdict
    PROVE  HonestInv'
<1>0. PICK k \in Slots : k = at["BankRecv"]
  BY ReceiverSlot DEF StoreVerdict
<1> DEFINE x == ClientInfo[k] m == [x.servermsg EXCEPT !.verdict = reply["bank"], !.status = "BR"]
           resp == [kind |-> "Bank", cc |-> m.cc, verdict |-> m.verdict]
           info == WithResponse([x EXCEPT !.servermsg = m], resp)
<1>1. /\ x \in InfoType /\ x.servermsg \in MsgType /\ x.procStat \in UnderWay /\ SlotHonest(k)
      /\ k \in InHand("BankRecv") /\ "BankRecv" \in PeerThreads /\ "BankRecv" \in Threads
      /\ owner[k] # NoConn /\ x.servermsg.cc = owner[k]
  BY <1>0, ReceiverSlot DEF StoreVerdict
<1>2. /\ UNCHANGED <<owner, issued, charged, nextAudit, msgs, phase, inbox, got>> /\ SlotsOK
      /\ ThreadTypes /\ pc'["BankRecv"] = "recv" /\ \A i \in Slots : MainPoll[i] \in PollType
  BY <1>1, Types DEF StoreVerdict, clientVars, peerVars, Goto, ThreadTypes
<1>3. ClientInfo' = [ClientInfo EXCEPT ![k] = info] /\ MainPoll' = [MainPoll EXCEPT ![k].events = "toPOLLOUT"]
  BY <1>0 DEF StoreVerdict, Respond
<1>4. /\ info.servermsg = m /\ info.procStat = "CT_RESP_SEND" /\ info.response = resp
      /\ info.disconStat = x.disconStat /\ m.cc = x.servermsg.cc /\ m.audit = x.servermsg.audit
      /\ m.verdict = reply["bank"]
  BY <1>1 DEF InfoType, MsgType, WithResponse
<1>5. resp.kind = "Bank" /\ resp.cc = owner[k] /\ resp.verdict = reply["bank"]
  BY <1>1, <1>4
<1> HIDE DEF info, m, resp
<1>6. ClientInfo'[k] = info /\ \A i \in Slots \ {k} : SlotKept(i)
  BY <1>2, <1>3, SlotUpdate
<1>7. reply["bank"] = owner[k] /\ AtTheBank(k)
  BY <1>0 DEF StoreVerdict, HonestInv, RepliesHonest
<1>8. SlotHonest(k)'
  <2>1. RequestOf(k)'
    BY <1>4, <1>6 DEF RequestOf, UnderWay
  <2>2. ResponseOf(k)'
    <3>1. /\ phase[owner[k]] \in {"waiting", "gone"} /\ inbox[owner[k]] = "none" /\ got[owner[k]].kind = "none"
          /\ x.disconStat # "AFTER_MSG"
      BY <1>1 DEF SlotHonest, RequestOf
    <3>2. AtTheBank(k)'
      BY <1>2, <1>7 DEF AtTheBank, PutToBank
    <3> QED
      BY <1>1, <1>2, <1>4, <1>5, <1>6, <1>7, <3>1, <3>2 DEF ResponseOf, HasResponse
  <2>3. GotOf(k)'
    BY <1>1, <1>2, <1>4, <1>6 DEF SlotHonest, GotOf
  <2>4. AuditOf(k)'
    BY <1>1, <1>2, <1>4, <1>6 DEF SlotHonest, AuditOf
  <2> QED
    BY <2>1, <2>2, <2>3, <2>4 DEF SlotHonest
<1>9. \A d \in Conns : ClientKept(d) /\ ClientHonest(d)'
  BY <1>2, ClientFrame DEF HonestInv, ClientKept
<1>10. /\ \A i \in Slots : MainPoll'[i].fd = MainPoll[i].fd
       /\ \A i \in Slots \ {k} : MainPoll'[i].events = MainPoll[i].events
  BY <1>2, <1>3 DEF SlotsOK, PollType
<1>11. MainHonest'
  BY <1>1, <1>2, <1>4, <1>5, <1>6, <1>10, MainHands DEF Sends
<1>12. \A t \in PeerThreads : ~(k \in InHand(t) /\ k \in InHand(t)')
  <2>1. InHand("BankRecv")' = {}
    BY <1>2 DEF InHand, Critical
  <2> QED
    BY <1>1, <2>1, HandsOff
<1> QED
  BY <1>2, <1>6, <1>8, <1>9, <1>10, <1>11, <1>12, OneSlot DEF BooksRest

-----------------------------------------------------------------------------
(***************************************************************************)
(* The invariant.                                                          *)
(***************************************************************************)

LEMMA HonestInit == Init => HonestInv
<1> SUFFICES ASSUME Init PROVE HonestInv
  OBVIOUS
<1>0. /\ \A i \in Slots : /\ ClientInfo[i] = FreeInfo /\ MainPoll[i] = FreePoll /\ owner[i] = NoConn
      /\ \A c \in Conns : phase[c] = "new" /\ inbox[c] = "none" /\ got[c] = NoResponse
      /\ charged = {} /\ issued = {} /\ msgs["db"] = {} /\ msgs["bank"] = {}
  BY DEF Init, Peers
<1>1. \A t \in Threads : pc[t] \in {"poll", "wait", "condwait", "connect", "recv", "none"}
  BY DEF Init
<1>2. \A t \in PeerThreads : InHand(t) = {}
  BY <1>1, ThreadNames DEF PeerThreads, InHand, Critical
<1>3. /\ FreeInfo.procStat = "INIT" /\ FreeInfo.response.kind = "none" /\ FreeInfo.servermsg.audit = NoAudit
      /\ NoResponse.kind = "none" /\ FreePoll.events = "none"
  BY DEF FreeInfo, NoResponse, BlankMsg, FreePoll
<1>4. \A i \in Slots : SlotHonest(i)
  BY <1>0, <1>3 DEF SlotHonest, RequestOf, ResponseOf, GotOf, AuditOf, HasResponse, UnderWay
<1>5. \A c \in Conns : ClientHonest(c)
  BY <1>0, <1>3 DEF ClientHonest
<1>6. MainHonest
  BY <1>0, <1>1, <1>3, ThreadNames DEF MainHonest, Sends
<1>7. HandsHonest
  BY <1>2 DEF HandsHonest, PeerThreads
<1>8. RepliesHonest
  BY <1>1, ThreadNames DEF RepliesHonest
<1>9. BooksHonest
  BY <1>0 DEF BooksHonest, AuditForCard
<1> QED
  BY <1>4, <1>5, <1>6, <1>7, <1>8, <1>9 DEF HonestInv

LEMMA HonestStep ==
    ASSUME IInv, CardInv, HonestInv, [Next]_vars, [ClosesIdle]_vars, [CountsOn]_vars PROVE HonestInv'
<1>1. CASE UNCHANGED vars
  <2>1. Still
    BY <1>1 DEF vars, slotVars, peerVars, clientVars, Still, SlotsKept, SlotKept, Sends, BooksRest
  <2>2. StoringStays /\ MainMoves
    BY <1>1 DEF vars, threadVars, linkVars, StoringStays, Storing, MainMoves
  <2> QED
    BY <2>1, <2>2, StillKeeps
<1>2. ASSUME ClosesIdle, CountsOn, \A p \in Peers : ~Receive(p) PROVE HonestInv'
  <2>1. StoringStays
    BY <1>2, StoringStep
  <2>2. CASE CloseClient
    BY <1>2, <2>1, <2>2, CloseHonest
  <2>3. ASSUME NEW c \in Conns, AcceptClient(c) PROVE HonestInv'
    BY <2>1, <2>3, AcceptHonest
  <2>4. CASE CountUsers
    BY <2>1, <2>4, CountHonest
  <2>5. ASSUME ~CloseClient, \A c \in Conns : ~AcceptClient(c), ~CountUsers PROVE HonestInv'
    <3>1. MainMoves
      BY <2>5, MainMovesStep
    <3>2. CASE ~Noisy
      BY <1>2, <2>1, <3>1, <3>2, StillStep, StillKeeps
    <3>3. ASSUME NEW i \in Slots, RecvStep(i) PROVE HonestInv'
      BY <2>1, <3>1, <3>3, HangupHonest, RespondHonest, CompletionHonest, BankRequestHonest DEF RecvStep
    <3>4. ASSUME NEW i \in Slots, SendResponse(i) PROVE HonestInv'
      BY <2>1, <3>4, ResponseHonest
    <3>5. ASSUME NEW c \in Conns, \/ ClientContinues(c) \/ ClientHangup(c)
                                  \/ \E k \in {"Bank", "Ctrl", "Bad"} : ClientRequest(c, k)
          PROVE  HonestInv'
      BY <2>1, <3>1, <3>5, ClientHonestStep
    <3>6. ASSUME NEW p \in Peers, SendMsg(p) PROVE HonestInv'
      BY <2>1, <3>1, <3>6, SendHonest
    <3>7. ASSUME NEW p \in Peers, Sent(p) PROVE HonestInv'
      BY <2>1, <3>1, <3>7, SentHonest
    <3>8. CASE StoreAudit
      BY <2>1, <3>1, <3>8, AuditHonest
    <3>9. CASE StoreVerdict
      BY <2>1, <3>1, <3>9, VerdictHonest
    <3> QED
      BY <1>2, <2>5, <3>2, <3>3, <3>4, <3>5, <3>6, <3>7, <3>8, <3>9 DEF Noisy
  <2> QED
    BY <2>2, <2>3, <2>4, <2>5
<1>3. ASSUME NEW p \in Peers, Receive(p) PROVE HonestInv'
  <2>1. ThreadTypes /\ Receiver(p) # "Main" /\ "Main" \in Threads
    BY ThreadNames, Types
  <2>2. pc'["Main"] = pc["Main"] /\ at'["Main"] = at["Main"]
    <3>1. \E l : Goto(Receiver(p), l) /\ (at' = at \/ \E i : AtSlot(Receiver(p), i))
      BY <1>3 DEF Receive
    <3> QED
      BY <2>1, <3>1 DEF Goto, AtSlot, ThreadTypes
  <2>3. MainMoves
    BY <2>2 DEF MainMoves
  <2> QED
    BY <1>3, <2>3, ReceiveDbHonest, ReceiveBankHonest DEF Peers
<1> QED
  BY <1>1, <1>2, <1>3

LEMMA HonestInvariance == Spec /\ ClosedIdle /\ AuditsGoOn => [](IInv /\ CardInv /\ HonestInv)
<1>1. Init => CardInv /\ HonestInv
  BY CardInit, HonestInit
<1>2. IInv /\ CardInv /\ HonestInv /\ [Next]_vars /\ [ClosesIdle]_vars /\ [CountsOn]_vars => HonestInv'
  BY HonestStep
<1> QED
  BY <1>1, <1>2, Invariance, CardStep, PTL DEF Spec, ClosedIdle, AuditsGoOn

\* A client that is told a verdict is told the one on the card it sent, for every number
\* of clients and slots and whatever the order in which the database, the bank and the
\* threads answer, as long as Main closes no slot in use: DbRecvThread knows a client by
\* a descriptor number and BankRecvThread by an audit number, and nothing else is compared.
THEOREM VerdictsAreOwn == Spec /\ ClosedIdle /\ AuditsGoOn => []OwnVerdict
<1>1. HonestInv => OwnVerdict
  BY DEF HonestInv, ClientHonest, OwnVerdict
<1> QED
  BY <1>1, HonestInvariance, PTL

\* A card goes to the bank only under an audit number that the database gave out for it
\* (DbRecvThread stores the number, BankSendThread sends it on).
THEOREM AuditsAreForCards == Spec /\ ClosedIdle /\ AuditsGoOn => []AuditForCard
<1>1. HonestInv => AuditForCard
  BY DEF HonestInv, BooksHonest
<1> QED
  BY <1>1, HonestInvariance, PTL

-----------------------------------------------------------------------------
(***************************************************************************)
(* The refinement of CardApproval.                                         *)
(***************************************************************************)

\* What the abstract card approval sees of client c stays.
Unmoved(c) ==
    /\ got'[c].kind = "Bank" <=> got[c].kind = "Bank"
    /\ got[c].kind = "Bank" => got'[c].verdict = got[c].verdict
    /\ PutToBank(c)' = PutToBank(c) /\ (HasAsked(c)' <=> HasAsked(c))
    /\ PutToBank(c) # {} => (IsServed(c)' <=> IsServed(c))
    /\ phase'[c] = "new" \/ IsServed(c)' <=> phase[c] = "new" \/ IsServed(c)
ApprovalVars == <<ApprovalState, ApprovalAudit, ApprovalVerdict>>

LEMMA UnmovedState ==
    ASSUME NEW c \in Conns, Unmoved(c)
    PROVE  /\ ApprovalState'[c] = ApprovalState[c] /\ ApprovalAudit'[c] = ApprovalAudit[c]
           /\ ApprovalVerdict'[c] = ApprovalVerdict[c]
<1>1. ApprovalState'[c] = ApprovalState[c]
  BY DEF ApprovalState, Unmoved
<1>2. ApprovalAudit'[c] = ApprovalAudit[c]
  BY DEF ApprovalAudit, Unmoved
<1>3. ApprovalVerdict'[c] = ApprovalVerdict[c]
  BY DEF ApprovalVerdict, Unmoved
<1> QED
  BY <1>1, <1>2, <1>3

LEMMA ApprovalDomains ==
    /\ ApprovalState = [c \in Conns |-> ApprovalState[c]]
    /\ ApprovalAudit = [c \in Conns |-> ApprovalAudit[c]]
    /\ ApprovalVerdict = [c \in Conns |-> ApprovalVerdict[c]]
BY DEF ApprovalState, ApprovalAudit, ApprovalVerdict

LEMMA ApprovalDomainsNext ==
    /\ ApprovalState' = [c \in Conns |-> ApprovalState'[c]]
    /\ ApprovalAudit' = [c \in Conns |-> ApprovalAudit'[c]]
    /\ ApprovalVerdict' = [c \in Conns |-> ApprovalVerdict'[c]]
BY DEF ApprovalState, ApprovalAudit, ApprovalVerdict

LEMMA AllUnmoved == ASSUME \A c \in Conns : Unmoved(c) PROVE UNCHANGED ApprovalVars
<1>1. \A c \in Conns : /\ ApprovalState'[c] = ApprovalState[c] /\ ApprovalAudit'[c] = ApprovalAudit[c]
                       /\ ApprovalVerdict'[c] = ApprovalVerdict[c]
  BY UnmovedState
<1> QED
  BY <1>1, ApprovalDomains, ApprovalDomainsNext DEF ApprovalVars

\* One client moves.
LEMMA OneMoves ==
    ASSUME NEW c \in Conns, \A d \in Conns \ {c} : Unmoved(d)
    PROVE  /\ ApprovalState' = [ApprovalState EXCEPT ![c] = ApprovalState'[c]]
           /\ ApprovalAudit' = [ApprovalAudit EXCEPT ![c] = ApprovalAudit'[c]]
           /\ ApprovalVerdict' = [ApprovalVerdict EXCEPT ![c] = ApprovalVerdict'[c]]
           /\ ApprovalState'[c] = ApprovalState[c] => UNCHANGED ApprovalState
           /\ ApprovalAudit'[c] = ApprovalAudit[c] => UNCHANGED ApprovalAudit
           /\ ApprovalVerdict'[c] = ApprovalVerdict[c] => UNCHANGED ApprovalVerdict
<1>1. \A d \in Conns \ {c} : /\ ApprovalState'[d] = ApprovalState[d] /\ ApprovalAudit'[d] = ApprovalAudit[d]
                             /\ ApprovalVerdict'[d] = ApprovalVerdict[d]
  BY UnmovedState
<1>2. /\ ApprovalState' = [ApprovalState EXCEPT ![c] = ApprovalState'[c]]
      /\ ApprovalState'[c] = ApprovalState[c] => UNCHANGED ApprovalState
  BY <1>1, ApprovalDomains, ApprovalDomainsNext
<1>3. /\ ApprovalAudit' = [ApprovalAudit EXCEPT ![c] = ApprovalAudit'[c]]
      /\ ApprovalAudit'[c] = ApprovalAudit[c] => UNCHANGED ApprovalAudit
  BY <1>1, ApprovalDomains, ApprovalDomainsNext
<1>4. /\ ApprovalVerdict' = [ApprovalVerdict EXCEPT ![c] = ApprovalVerdict'[c]]
      /\ ApprovalVerdict'[c] = ApprovalVerdict[c] => UNCHANGED ApprovalVerdict
  BY <1>1, ApprovalDomains, ApprovalDomainsNext
<1> QED
  BY <1>2, <1>3, <1>4

\* The slots keep their owners and their cards.
LEMMA ServedKept ==
    ASSUME UNCHANGED owner, \A i \in Slots : ClientInfo'[i].servermsg.cc = ClientInfo[i].servermsg.cc,
           NEW c \in Conns
    PROVE  /\ IsServed(c)' <=> IsServed(c)
           /\ (inbox'[c] = "Bank" <=> inbox[c] = "Bank") => (HasAsked(c)' <=> HasAsked(c))
BY DEF IsServed, HasAsked

\* A step that no client sees: nobody asks, is served, put to the bank or told.
LEMMA QuietApproval ==
    ASSUME UNCHANGED <<owner, charged>>, \A i \in Slots : ClientInfo'[i].servermsg.cc = ClientInfo[i].servermsg.cc,
           \A c \in Conns : /\ inbox'[c] = "Bank" <=> inbox[c] = "Bank"
                            /\ phase'[c] = "new" <=> phase[c] = "new"
                            /\ got'[c] = got[c] \/ (got'[c].kind # "Bank" /\ got[c].kind # "Bank")
    PROVE  UNCHANGED ApprovalVars
<1>1. \A c \in Conns : Unmoved(c)
  BY ServedKept DEF Unmoved, PutToBank
<1> QED
  BY <1>1, AllUnmoved

LEMMA AcceptApproval ==
    ASSUME IInv, CardInv, HonestInv, [Next]_vars, NEW c \in Conns, AcceptClient(c) PROVE UNCHANGED ApprovalVars
<1>1. PICK k \in Slots, f \in Fds : MainPoll[k].fd = NoFd /\ owner' = [owner EXCEPT ![k] = c]
  BY DEF AcceptClient, IsFirst
<1>2. /\ SlotsOK /\ ClientsOK /\ phase[c] = "new" /\ phase' = [phase EXCEPT ![c] = "ready"]
      /\ UNCHANGED <<ClientInfo, charged, inbox, got>>
  BY DEF AcceptClient, IInv, TypeOK, peerVars
<1>3. /\ owner[k] = NoConn /\ c # NoConn /\ ClientInfo[k].servermsg.cc = NoConn /\ inbox[c] = "none"
      /\ PutToBank(c) = {}
      /\ \A i \in Slots : owner[i] # c /\ NoConn \notin Conns
  BY <1>1, <1>2, Owned DEF Open, CardInv, OwnersKept, RequestOnce, RequestSpent
<1>4. owner'[k] = c /\ \A i \in Slots \ {k} : owner'[i] = owner[i]
  BY <1>1, <1>2 DEF SlotsOK
<1>5. ASSUME NEW d \in Conns PROVE Unmoved(d)
  <2>1. CASE d = c
    <3>1. IsServed(c)' /\ ~HasAsked(c) /\ ~HasAsked(c)'
      BY <1>2, <1>3, <1>4 DEF IsServed, HasAsked
    <3> QED
      BY <1>2, <1>3, <2>1, <3>1 DEF Unmoved, PutToBank
  <2>2. CASE d # c
    <3>1. (IsServed(d)' <=> IsServed(d)) /\ (HasAsked(d)' <=> HasAsked(d))
      BY <1>2, <1>3, <1>4, <2>2 DEF IsServed, HasAsked
    <3> QED
      BY <1>2, <2>2, <3>1 DEF Unmoved, PutToBank, ClientsOK
  <2> QED
    BY <2>1, <2>2
<1> QED
  BY <1>5, AllUnmoved

\* A client is disconnected, and was not told a verdict before.
LEMMA CloseApproval ==
    ASSUME IInv, CardInv, HonestInv, [Next]_vars, CloseClient PROVE Approval!Next \/ UNCHANGED ApprovalVars
<1> PICK k \in Slots : k = at["Main"]
  BY DEF CloseClient, IInv, SessionInv, MainAtSlot
<1> DEFINE c == owner[k]
<1>1. SlotsOK /\ UNCHANGED <<charged, inbox, got>> /\ NoConn \notin Conns
  BY Types, Owned DEF CloseClient, peerVars
<1>2. /\ owner'[k] = NoConn /\ ClientInfo'[k] = FreeInfo
      /\ \A i \in Slots \ {k} : owner'[i] = owner[i] /\ ClientInfo'[i] = ClientInfo[i]
      /\ \A d \in Conns : phase'[d] = IF d = c /\ phase[c] # "gone" THEN "cut" ELSE phase[d]
  BY <1>1 DEF CloseClient, SlotsOK
<1>3. ASSUME NEW d \in Conns, d # c PROVE Unmoved(d)
  <2>1. (IsServed(d)' <=> IsServed(d)) /\ (HasAsked(d)' <=> HasAsked(d))
    BY <1>1, <1>2, <1>3 DEF IsServed, HasAsked
  <2> QED
    BY <1>1, <1>2, <1>3, <2>1 DEF Unmoved, PutToBank
<1>4. CASE c \notin Conns
  BY <1>3, <1>4, AllUnmoved
<1>5. CASE c \in Conns
  <2> PICK d \in Conns : d = c
    BY <1>5
  <2>1. IsServed(d) /\ phase[d] # "new" /\ ~IsServed(d)' /\ ~HasAsked(d)' /\ phase'[d] # "new"
    BY <1>1, <1>2, <1>5, Owned DEF IsServed, HasAsked, CardInv, OwnersKept
  <2>2. CASE got[d].kind = "Bank"
    <3>1. /\ ApprovalState'[d] = ApprovalState[d] /\ ApprovalAudit'[d] = ApprovalAudit[d]
          /\ ApprovalVerdict'[d] = ApprovalVerdict[d]
      BY <1>1, <2>2 DEF ApprovalState, ApprovalAudit, ApprovalVerdict, PutToBank
    <3>2. \A e \in Conns : /\ ApprovalState'[e] = ApprovalState[e] /\ ApprovalAudit'[e] = ApprovalAudit[e]
                           /\ ApprovalVerdict'[e] = ApprovalVerdict[e]
      BY <1>3, <3>1, UnmovedState
    <3> QED
      BY <3>2, ApprovalDomains, ApprovalDomainsNext DEF ApprovalVars
  <2>3. CASE got[d].kind # "Bank"
    <3>1. ApprovalState'[d] = "gone" /\ ApprovalState[d] # "gone"
      BY <1>1, <2>1, <2>3 DEF ApprovalState
    <3>2. ApprovalAudit'[d] = ApprovalAudit[d] /\ ApprovalVerdict'[d] = ApprovalVerdict[d]
      BY <1>1 DEF ApprovalAudit, ApprovalVerdict, PutToBank
    <3>3. /\ ApprovalState' = [ApprovalState EXCEPT ![d] = "gone"]
          /\ UNCHANGED <<ApprovalAudit, ApprovalVerdict>>
      BY <1>3, <3>1, <3>2, OneMoves
    <3>4. Approval!Disconnect(d)
      BY <3>1, <3>3 DEF Approval!Disconnect
    <3> QED
      BY <3>4 DEF Approval!Next
  <2> QED
    BY <2>2, <2>3
<1> QED
  BY <1>4, <1>5

\* Main hears a client: a request is refused, if there are too many users.
LEMMA HeardApproval ==
    ASSUME IInv, CardInv, HonestInv, SlotsMove, NEW i \in Slots, RecvStep(i), ~RecvBankRequest(i)
    PROVE  Approval!Next \/ UNCHANGED ApprovalVars
<1> DEFINE c == owner[i]
<1>0. /\ UNCHANGED <<owner, charged, phase, got>> /\ \A j \in Slots : ClientInfo'[j].servermsg.cc = ClientInfo[j].servermsg.cc
  BY DEF RecvStep, RecvHangup, RecvOverLimit, RecvControl, RecvInvalid, RecvCompletion,
         Receives, peerVars, SlotsMove, SlotMoves
<1>1. CASE RecvHangup(i)
  <2>1. inbox' = inbox
    BY <1>1 DEF RecvHangup, Receives, IInv, TypeOK, ClientsOK
  <2> QED
    BY <1>0, <2>1, QuietApproval
<1>2. ASSUME NEW k \in {"Bank", "Ctrl", "Bad", "Done"}, Receives(i, k) PROVE Approval!Next \/ UNCHANGED ApprovalVars
  <2>1. /\ c \in Conns /\ inbox[c] = k /\ inbox'[c] = "none" /\ \A d \in Conns \ {c} : inbox'[d] = inbox[d]
        /\ k = "Bank" => got[c].kind = "none" /\ PutToBank(c) = {}
    BY <1>2, HeardFacts
  <2>2. CASE k # "Bank"
    BY <1>0, <2>1, <2>2, QuietApproval
  <2>3. CASE k = "Bank"
    <3> PICK d \in Conns : d = c
      BY <2>1
    <3>1. \A e \in Conns \ {d} : Unmoved(e)
      BY <1>0, <2>1, ServedKept DEF Unmoved, PutToBank
    <3>2. \A j \in Slots : owner[j] = d => ClientInfo[j].servermsg.cc # d
      BY <2>1, <2>3 DEF CardInv, RequestOnce, RequestSpent
    <3>3. /\ HasAsked(d) /\ ~HasAsked(d)' /\ IsServed(d)' /\ got[d].kind # "Bank" /\ PutToBank(d) = {}
          /\ UNCHANGED <<got, charged>>
      BY <1>0, <2>1, <2>3, <3>2 DEF HasAsked, IsServed
    <3>4. ApprovalState[d] = "asked" /\ ApprovalState'[d] = "idle"
      BY <3>3 DEF ApprovalState, PutToBank
    <3>5. ApprovalAudit'[d] = ApprovalAudit[d] /\ ApprovalVerdict'[d] = ApprovalVerdict[d]
      BY <3>3 DEF ApprovalAudit, ApprovalVerdict, PutToBank
    <3>6. Approval!Refuse(d)
      BY <3>1, <3>4, <3>5, OneMoves DEF Approval!Refuse
    <3> QED
      BY <3>6 DEF Approval!Next
  <2> QED
    BY <2>2, <2>3
<1>3. ASSUME ~RecvHangup(i) PROVE \E k \in {"Bank", "Ctrl", "Bad", "Done"} : Receives(i, k)
  BY <1>3 DEF RecvStep, RecvOverLimit, RecvControl, RecvInvalid, RecvCompletion
<1> QED
  BY <1>1, <1>2, <1>3

\* The request of the client a message was heard of stays asked.
LEMMA RequestApproval ==
    ASSUME IInv, CardInv, HonestInv, NEW i \in Slots, RecvBankRequest(i) PROVE UNCHANGED ApprovalVars
<1> DEFINE c == owner[i]
<1>1. Receives(i, "Bank") /\ UNCHANGED <<owner, charged, phase, got>> /\ SlotsOK
  BY DEF RecvBankRequest, Receives, peerVars, IInv, TypeOK
<1>2. /\ c \in Conns /\ inbox[c] = "Bank" /\ \A d \in Conns \ {c} : inbox'[d] = inbox[d]
      /\ PutToBank(c) = {}
  BY <1>1, HeardFacts
<1>3. ClientInfo'[i].servermsg.cc = c /\ \A j \in Slots \ {i} : ClientInfo'[j] = ClientInfo[j]
  <2>1. /\ ClientInfo'[i] = [ReceivedInfo(i) EXCEPT !.procType = "BANK", !.procStat = "DB_SEND",
                                                     !.servermsg = [BlankMsg EXCEPT !.cc = c]]
        /\ \A j \in Slots \ {i} : ClientInfo'[j] = ClientInfo[j]
    BY <1>1 DEF RecvBankRequest, SlotsOK
  <2>2. ClientInfo[i] \in InfoType
    BY Types
  <2>3. ClientInfo'[i].servermsg = [BlankMsg EXCEPT !.cc = c]
    BY <2>1, <2>2 DEF ReceivedInfo, InfoType
  <2> QED
    BY <2>1, <2>3 DEF BlankMsg
<1>4. ASSUME NEW d \in Conns PROVE Unmoved(d)
  <2>1. CASE d = c
    <3>1. HasAsked(d) /\ HasAsked(d)' /\ (IsServed(d)' <=> IsServed(d))
      BY <1>1, <1>2, <1>3, <2>1 DEF HasAsked, IsServed
    <3> QED
      BY <1>1, <3>1 DEF Unmoved, PutToBank
  <2>2. CASE d # c
    <3>1. (HasAsked(d)' <=> HasAsked(d)) /\ (IsServed(d)' <=> IsServed(d))
      BY <1>1, <1>2, <1>3, <2>2, Owned DEF HasAsked, IsServed
    <3> QED
      BY <1>1, <3>1 DEF Unmoved, PutToBank
  <2> QED
    BY <2>1, <2>2
<1> QED
  BY <1>4, AllUnmoved

\* A response is sent: a client is told the verdict on its own card, or nothing
\* that counts.
LEMMA ResponseApproval ==
    ASSUME IInv, CardInv, HonestInv, SlotsMove, NEW i \in Slots, SendResponse(i)
    PROVE  Approval!Next \/ UNCHANGED ApprovalVars
<1> DEFINE c == owner[i] x == ClientInfo[i]
<1>0. /\ UNCHANGED <<owner, charged, inbox>> /\ ClientsOK /\ SlotHonest(i)
      /\ \A j \in Slots : ClientInfo'[j].servermsg.cc = ClientInfo[j].servermsg.cc
  BY DEF SendResponse, peerVars, SlotsMove, SlotMoves, HonestInv, IInv, TypeOK
<1>1. HasResponse(i)
  BY DEF SendResponse, Serves, Writable, HonestInv, MainHonest, Sends
<1>2. /\ c \in Conns /\ phase[c] \in {"waiting", "gone"} /\ inbox[c] = "none" /\ got[c].kind # "Bank"
  BY <1>0, <1>1, Owned DEF SlotHonest, ResponseOf
<1>3. /\ got'[c] = IF phase[c] = "gone" THEN got[c] ELSE x.response
      /\ phase'[c] # "new" /\ \A d \in Conns \ {c} : phase'[d] = phase[d] /\ got'[d] = got[d]
  BY <1>0, <1>2 DEF SendResponse, ClientsOK
<1>4. CASE phase[c] = "gone" \/ x.response.kind # "Bank"
  BY <1>0, <1>2, <1>3, <1>4, QuietApproval
<1>5. CASE phase[c] # "gone" /\ x.response.kind = "Bank"
  <2> PICK d \in Conns : d = c
    BY <1>2
  <2>1. /\ x.response.verdict = d /\ PutToBank(d) # {} /\ IsServed(d)
    BY <1>0, <1>5 DEF SlotHonest, ResponseOf, AtTheBank, IsServed
  <2>2. got'[d] = x.response /\ got[d].kind # "Bank" /\ got'[d].kind = "Bank" /\ got'[d].verdict = d
    BY <1>2, <1>3, <1>5, <2>1
  <2>3. \A e \in Conns \ {d} : Unmoved(e)
    BY <1>0, <1>3, ServedKept DEF Unmoved, PutToBank
  <2>4. ApprovalState[d] = "put" /\ ApprovalState'[d] = "told"
    BY <2>1, <2>2 DEF ApprovalState
  <2>5. ApprovalAudit'[d] = ApprovalAudit[d] /\ ApprovalVerdict'[d] = d
    BY <1>0, <2>2 DEF ApprovalAudit, ApprovalVerdict, PutToBank
  <2>6. Approval!Tell(d)
    BY <2>3, <2>4, <2>5, OneMoves DEF Approval!Tell
  <2> QED
    BY <2>6 DEF Approval!Next
<1> QED
  BY <1>4, <1>5

\* A client makes a request, or anything else.
LEMMA ClientApproval ==
    ASSUME IInv, CardInv, HonestInv, NEW c \in Conns,
           \/ ClientContinues(c) \/ ClientHangup(c)
           \/ \E k \in {"Bank", "Ctrl", "Bad"} : ClientRequest(c, k)
    PROVE  Approval!Next \/ UNCHANGED ApprovalVars
<1>0. /\ UNCHANGED <<ClientInfo, owner, charged, got>> /\ ClientsOK
      /\ \A d \in Conns \ {c} : phase'[d] = phase[d] /\ inbox'[d] = inbox[d]
      /\ ClientHonest(c) /\ RequestOnce
  BY DEF ClientContinues, ClientHangup, ClientRequest, serverVars, slotVars, peerVars, HonestInv, IInv, TypeOK,
         ClientsOK, CardInv
<1>1. \/ phase[c] = "answered" /\ phase'[c] # "new" /\ inbox'[c] \in {"Done", "Ctrl"}
      \/ phase[c] # "new" /\ phase'[c] = "gone" /\ inbox'[c] = inbox[c]
      \/ phase[c] = "ready" /\ phase'[c] = "waiting" /\ inbox'[c] \in {"Bank", "Ctrl", "Bad"}
  BY <1>0 DEF ClientContinues, ClientHangup, ClientRequest, ClientsOK
<1>2. phase[c] # "new" /\ phase'[c] # "new" /\ (phase[c] \in {"ready", "answered"} => inbox[c] = "none")
  BY <1>0, <1>1 DEF ClientHonest, RequestOnce
<1>3. CASE inbox'[c] = "Bank" <=> inbox[c] = "Bank"
  BY <1>0, <1>2, <1>3, QuietApproval
<1>4. CASE ~(inbox'[c] = "Bank" <=> inbox[c] = "Bank")
  <2>1. phase[c] = "ready" /\ inbox[c] = "none" /\ inbox'[c] = "Bank" /\ got[c].kind = "none"
    BY <1>0, <1>1, <1>2, <1>4 DEF ClientHonest
  <2>2. /\ PutToBank(c) = {} /\ ~HasAsked(c) /\ (HasAsked(c)' <=> IsServed(c)) /\ (IsServed(c)' <=> IsServed(c))
    BY <1>0, <2>1 DEF RequestOnce, RequestSpent, HasAsked, IsServed
  <2>3. \A e \in Conns \ {c} : Unmoved(e)
    BY <1>0, ServedKept DEF Unmoved, PutToBank
  <2>4. PutToBank(c)' = {} /\ got'[c].kind = "none"
    BY <1>0, <2>1, <2>2 DEF PutToBank
  <2>5. ApprovalAudit'[c] = ApprovalAudit[c] /\ ApprovalVerdict'[c] = ApprovalVerdict[c]
    BY <1>0, <2>2, <2>4 DEF ApprovalAudit, ApprovalVerdict
  <2>6. CASE IsServed(c)
    <3>1. ApprovalState[c] = "idle" /\ ApprovalState'[c] = "asked"
      BY <2>1, <2>2, <2>4, <2>6 DEF ApprovalState
    <3>2. Approval!Ask(c)
      BY <2>3, <2>5, <3>1, OneMoves DEF Approval!Ask
    <3> QED
      BY <3>2 DEF Approval!Next
  <2>7. CASE ~IsServed(c)
    <3>1. Unmoved(c)
      BY <1>0, <1>2, <2>1, <2>2, <2>4, <2>7 DEF Unmoved
    <3> QED
      BY <2>3, <3>1, AllUnmoved
  <2> QED
    BY <2>6, <2>7
<1> QED
  BY <1>3, <1>4

\* A card goes to the bank, once, under a number of its own.
LEMMA BankApproval ==
    ASSUME IInv, CardInv, HonestInv, HonestInv', SlotsMove, SendMsg("bank")
    PROVE  Approval!Next \/ UNCHANGED ApprovalVars
<1>0. /\ "bank" \in Peers /\ Sender("bank") = "BankSend" /\ UNCHANGED <<owner, phase, inbox, got>>
      /\ \A j \in Slots : ClientInfo'[j].servermsg.cc = ClientInfo[j].servermsg.cc
  BY DEF SendMsg, clientVars, SlotsMove, SlotMoves, Peers, Sender
<1>1. PICK k \in Slots : k = at["BankSend"]
  BY <1>0, SenderSlot DEF SendMsg, Critical
<1>2. PICK c \in Conns : c = owner[k]
  BY <1>0, <1>1, SenderSlot DEF SendMsg, Critical
<1>3. PICK n \in Nat : n = ClientInfo[k].servermsg.audit
  BY <1>0, <1>1, SenderSlot DEF SendMsg, Critical, MsgType
<1> DEFINE m == [key |-> n, cc |-> c]
<1>4. /\ ClientInfo[k].servermsg.cc = c /\ n # NoAudit /\ SlotHonest(k) /\ ClientInfo[k].procStat = "BANK_SEND"
  BY <1>0, <1>1, <1>2, <1>3, SenderSlot DEF SendMsg, Critical, SendStage
<1>5. charged' = charged \/ charged' = charged \cup {m}
  BY <1>0, <1>1, <1>3, <1>4 DEF SendMsg, Key
<1>6. CASE charged' = charged
  BY <1>0, <1>6, QuietApproval
<1>7. CASE charged' # charged
  <2>1. charged' = charged \cup {m} /\ m \in charged' /\ m.key = n /\ m.cc = c
    BY <1>5, <1>7
  <2> HIDE DEF m
  <2>2. /\ \A a, b \in charged' : a.cc = b.cc => a = b
        /\ \A a \in charged' : <<a.key, a.cc>> \in issued'
        /\ \A a, b \in issued' : a[1] = b[1] => a = b
    BY DEF HonestInv, BooksHonest, AuditForCard
  <2>3. PutToBank(c) = {} /\ PutToBank(c)' = {m}
    BY <1>7, <2>1, <2>2 DEF PutToBank
  <2>4. \A e \in Conns \ {c} : PutToBank(e)' = PutToBank(e)
    BY <2>1 DEF PutToBank
  <2>5. \A e \in Conns \ {c} : Unmoved(e)
    BY <1>0, <2>4, ServedKept DEF Unmoved
  <2>6. IsServed(c)' /\ HasAsked(c) /\ got[c].kind = "none"
    BY <1>0, <1>2, <1>4 DEF IsServed, HasAsked, SlotHonest, RequestOf, UnderWay
  <2>7. ApprovalState[c] = "asked" /\ ApprovalState'[c] = "put"
    BY <1>0, <2>3, <2>6 DEF ApprovalState
  <2>8. ApprovalAudit'[c] = n /\ ApprovalVerdict'[c] = ApprovalVerdict[c]
    BY <1>0, <2>1, <2>3 DEF ApprovalAudit, ApprovalVerdict
  <2>9. ASSUME NEW e \in Conns PROVE ApprovalAudit[e] # n
    <3>1. CASE PutToBank(e) = {}
      BY <1>4, <3>1 DEF ApprovalAudit
    <3>2. CASE PutToBank(e) # {}
      <4>1. PICK a \in PutToBank(e) : ApprovalAudit[e] = a.key
        BY <3>2 DEF ApprovalAudit
      <4>2. a \in charged' /\ a.cc = e /\ e # c
        BY <2>1, <2>3, <4>1 DEF PutToBank
      <4>3. <<a.key, e>> \in issued' /\ <<n, c>> \in issued'
        BY <2>1, <2>2, <4>2
      <4> QED
        BY <2>2, <4>1, <4>2, <4>3
    <3> QED
      BY <3>1, <3>2
  <2>10. ApprovalAudit'[c] \in (Nat \ {NoAudit}) \ {ApprovalAudit[e] : e \in Conns}
    BY <1>4, <2>8, <2>9
  <2>11. Approval!Put(c)
    BY <2>5, <2>7, <2>8, <2>10, OneMoves DEF Approval!Put
  <2> QED
    BY <2>11 DEF Approval!Next
<1> QED
  BY <1>6, <1>7

\* The other steps of the sending and receiving threads, and all that is not Noisy.
LEMMA OtherApproval ==
    ASSUME IInv, CardInv, HonestInv, [Next]_vars, CountsOn, SlotsMove, ~SendMsg("bank"),
           \/ ~Noisy \/ CountUsers \/ StoreAudit \/ StoreVerdict
           \/ \E p \in Peers : SendMsg(p) \/ Sent(p) \/ Receive(p)
    PROVE  UNCHANGED ApprovalVars
<1>1. /\ UNCHANGED <<owner, charged>> /\ \A j \in Slots : ClientInfo'[j].servermsg.cc = ClientInfo[j].servermsg.cc
  BY ChargeStep DEF SlotsMove, SlotMoves
<1>2. UNCHANGED <<phase, inbox, got>>
  <2>1. CASE ~Noisy
    BY <2>1, StillStep DEF Still, clientVars
  <2>2. CASE CountUsers \/ StoreAudit \/ StoreVerdict
    BY SMTT(30), <2>2 DEF CountUsers, StoreAudit, StoreVerdict, clientVars
  <2>3. CASE \E p \in Peers : SendMsg(p) \/ Sent(p) \/ Receive(p)
    BY <2>3 DEF SendMsg, Sent, Receive, clientVars
  <2> QED
    BY <2>1, <2>2, <2>3
<1> QED
  BY <1>1, <1>2, QuietApproval

LEMMA ApprovalInit == Init => Approval!Init
<1> SUFFICES ASSUME Init PROVE Approval!Init
  OBVIOUS
<1>1. /\ \A c \in Conns : phase[c] = "new" /\ inbox[c] = "none" /\ got[c] = NoResponse /\ c # NoConn
      /\ \A i \in Slots : owner[i] = NoConn
      /\ charged = {}
  BY ConstAssumption DEF Init, ConstAssumption, NoConn
<1>2. \A c \in Conns : /\ got[c].kind = "none" /\ PutToBank(c) = {} /\ ~IsServed(c) /\ ~HasAsked(c)
  BY <1>1 DEF NoResponse, PutToBank, IsServed, HasAsked
<1>3. \A c \in Conns : ApprovalState[c] = "idle" /\ ApprovalAudit[c] = NoAudit /\ ApprovalVerdict[c] = NoConn
  BY <1>1, <1>2 DEF ApprovalState, ApprovalAudit, ApprovalVerdict
<1> QED
  BY <1>3, ApprovalDomains DEF Approval!Init

LEMMA ApprovalNext ==
    ASSUME IInv, CardInv, HonestInv, HonestInv', [Next]_vars, [CountsOn]_vars
    PROVE  Approval!Next \/ UNCHANGED ApprovalVars
<1>1. CASE UNCHANGED vars
  <2>1. /\ UNCHANGED <<owner, charged, ClientInfo, phase, inbox, got>>
    BY <1>1 DEF vars, slotVars, peerVars, clientVars
  <2> QED
    BY <2>1, QuietApproval
<1>2. CASE CountsOn
  <2>1. CASE CloseClient
    BY <2>1, CloseApproval
  <2>2. CASE \E c \in Conns : AcceptClient(c)
    BY <2>2, AcceptApproval
  <2>3. CASE \E i \in Slots : RecvBankRequest(i)
    BY <2>3, RequestApproval
  <2>4. CASE ~CloseClient /\ (\A c \in Conns : ~AcceptClient(c)) /\ (\A i \in Slots : ~RecvBankRequest(i))
    <3>1. SlotsMove
      BY <2>4, SlotsMoveStep
    <3>2. CASE \E i \in Slots : RecvStep(i)
      BY <2>4, <3>1, <3>2, HeardApproval
    <3>3. CASE \E i \in Slots : SendResponse(i)
      BY <3>1, <3>3, ResponseApproval
    <3>4. ASSUME NEW c \in Conns, \/ ClientContinues(c) \/ ClientHangup(c)
                                  \/ \E k \in {"Bank", "Ctrl", "Bad"} : ClientRequest(c, k)
          PROVE  Approval!Next \/ UNCHANGED ApprovalVars
      BY <3>4, ClientApproval
    <3>5. CASE SendMsg("bank")
      BY <3>1, <3>5, BankApproval
    <3>6. CASE /\ ~SendMsg("bank")
               /\ \/ ~Noisy \/ CountUsers \/ StoreAudit \/ StoreVerdict
                  \/ \E p \in Peers : SendMsg(p) \/ Sent(p) \/ Receive(p)
      BY <1>2, <3>1, <3>6, OtherApproval
    <3> QED
      BY <2>4, <3>2, <3>3, <3>4, <3>5, <3>6 DEF Noisy
  <2> QED
    BY <2>1, <2>2, <2>3, <2>4
<1> QED
  BY <1>1, <1>2

\* Under the same hypotheses the server, with its threads, slots and both peers, does to
\* each client what CardApproval says: its request goes to the bank at most once, under a
\* number that serves no other client, and at most one verdict is told, on its own card.
THEOREM CardApprovalImplemented == Spec /\ ClosedIdle /\ AuditsGoOn => ImplementsApproval
<1>1. Init => Approval!Init
  BY ApprovalInit
<1>2. IInv /\ CardInv /\ HonestInv /\ HonestInv' /\ [Next]_vars /\ [CountsOn]_vars => [Approval!Next]_(Approval!vars)
  BY ApprovalNext DEF ApprovalVars, Approval!vars
<1> QED
  BY <1>1, <1>2, HonestInvariance, PTL DEF Spec, AuditsGoOn, ImplementsApproval, Approval!Spec
=============================================================================
