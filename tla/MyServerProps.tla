---------------------------- MODULE MyServerProps ----------------------------
(***************************************************************************)
(* What myserver.c is meant to guarantee, stated over module MyServer.     *)
(***************************************************************************)
EXTENDS MyServer

Cards == Conns \cup {NoConn}
Statuses == {"blank", "DS", "DR", "BS", "BR"}
MsgType == [cc : Cards, audit : Nat, verdict : Cards, status : Statuses]
ResponseType == [kind : {"none", "MaxUsers", "Invalid", "Cmd", "Bank"}, cc : Cards, verdict : Cards]
Stages == {"INIT", "CT_REQ_RECV", "DB_SEND", "DB_RECV", "BANK_SEND", "BANK_RECV", "CT_RESP_SEND"}
InfoType ==
    [activityTime : {"zero", "recent", "old"}, disconStat : {"INIT", "AFTER_MSG", "NOW"},
     procType : {"INIT", "IACTIVE", "BANK"},
     procStat : Stages, servermsg : MsgType, response : ResponseType]
PollType == [fd : Fds \cup {NoFd}, events : {"none", "POLLIN", "toPOLLOUT", "POLLOUT"}]
PeerMsgs(p) == [key : IF p = "db" THEN Fds \cup {NoFd} ELSE Nat, cc : Cards]
Labels == {"poll", "accept", "discon", "close", "swpTimer", "swpDb", "blockedRecv", "blockedSend",
           "closeAll", "wake", "join", "wait", "condwait", "scan", "lock", "mark", "swp", "connect",
           "send", "sent", "down", "joining", "ended", "none", "recv", "store", "closing", "term",
           "exited"}
Places == 0..(NSlots + 3)     \* a slot, or the index of endServer's thread

SlotsOK ==
    /\ MainPoll \in [Slots -> PollType] /\ ClientInfo \in [Slots -> InfoType]
    /\ owner \in [Slots -> Cards]
LocksOK ==
    /\ mutex \in [Slots -> Threads \cup {"none", "destroyed"}]
    /\ condMutex \in [{"timer", "db", "bank"} -> Threads \cup {"none"}]
    /\ workPending \in [{"timer", "db", "bank"} -> BOOLEAN]
ThreadsOK ==
    /\ eventfd \in BOOLEAN /\ OrderlyShutdown \in BOOLEAN
    /\ exited \in {"no", "SysExit", "crash", "INT", "orderly"}
    /\ pc \in [Threads -> Labels] /\ at \in [Threads -> Places]
    /\ back \in {"poll", "discon", "closeAll"}
PeersOK ==
    /\ status \in [Peers -> {"CONNECTED", "DISCONNECTED"}]
    /\ link \in [Peers -> {"closed", "up", "broken"}]
    /\ DOMAIN reply = Peers /\ reply["db"] \in Nat /\ reply["bank"] \in Cards
    /\ up \in [Peers -> BOOLEAN] /\ downs \in Nat /\ nextAudit \in Nat
    /\ DOMAIN msgs = Peers /\ \A p \in Peers : msgs[p] \subseteq PeerMsgs(p)
    /\ issued \subseteq Nat \X Cards /\ charged \subseteq PeerMsgs("bank")
ClientsOK ==
    /\ phase \in [Conns -> {"new", "ready", "waiting", "answered", "done", "cut", "gone"}]
    /\ inbox \in [Conns -> {"none", "Bank", "Ctrl", "Bad", "Done"}]
    /\ got \in [Conns -> ResponseType]

\* The type invariant of the server, its peers and its clients.
TypeOK == SlotsOK /\ LocksOK /\ ThreadsOK /\ PeersOK /\ ClientsOK

-----------------------------------------------------------------------------
(***************************************************************************)
(* Safety of the bank messages.                                            *)
(***************************************************************************)

\* A client that receives a bank response receives the verdict on the card it
\* sent, whichever order the database and the bank answer in (the matching by
\* descriptor number in DbRecvThread, by audit number in BankRecvThread).
OwnVerdict ==
    \A c \in Conns : got[c].kind = "Bank" => got[c].cc = c /\ got[c].verdict = c

\* The bank is asked about a card only under an audit number that the database
\* gave out for that card's request.
AuditForCard == \A m \in charged : <<m.key, m.cc>> \in issued

\* The server implements the abstract card approval: what has happened to a client's
\* request can be read off the client, its slot and the messages at the bank.
PutToBank(c) == {m \in charged : m.cc = c}
IsServed(c) == \E i \in Slots : owner[i] = c
HasAsked(c) == \E i \in Slots : owner[i] = c /\ (inbox[c] = "Bank" \/ ClientInfo[i].servermsg.cc = c)
ApprovalState ==
    [c \in Conns |-> CASE got[c].kind = "Bank" -> "told"
                       [] got[c].kind # "Bank" /\ PutToBank(c) # {} /\ IsServed(c) -> "put"
                       [] got[c].kind # "Bank" /\ PutToBank(c) = {} /\ HasAsked(c) -> "asked"
                       [] OTHER -> IF IsServed(c) \/ phase[c] = "new" THEN "idle" ELSE "gone"]
ApprovalAudit ==
    [c \in Conns |-> IF PutToBank(c) = {} THEN NoAudit ELSE (CHOOSE m \in PutToBank(c) : TRUE).key]
ApprovalVerdict == [c \in Conns |-> IF got[c].kind = "Bank" THEN got[c].verdict ELSE NoConn]
Approval == INSTANCE CardApproval WITH
                Clients <- Conns, Audits <- Nat \ {NoAudit}, None <- NoAudit, Nobody <- NoConn,
                state <- ApprovalState, auditOf <- ApprovalAudit, verdict <- ApprovalVerdict
ImplementsApproval == Approval!Spec

\* When the Timer gives up on a client whose card has gone to the bank, the log
\* says so: the status is BS (check with bank) or BR (check unprocessed), never a
\* status that tells the operator to retry (TimerThread, the choice of actionReqd).
ChargedIsFlagged ==
    [][\A i \in Slots : /\ pc["Timer"] = "mark" /\ pc'["Timer"] # "mark" /\ at["Timer"] = i
                        /\ owner[i] # NoConn /\ PutToBank(owner[i]) # {}
                        => ClientInfo[i].servermsg.status \in {"BS", "BR"}]_vars

\* DbRecvThread and BankRecvThread throw an answer away only if the client it is
\* for is not waiting for it any more.
NoAnswerDropped ==
    [][\A p \in Peers : \A r \in msgs[p] \ msgs'[p] :
          pc[Receiver(p)] = "recv" /\ pc'[Receiver(p)] # "lock" /\ UNCHANGED link
             => \A i \in Slots : owner[i] = r.cc => ~Live(i)]_vars
-----------------------------------------------------------------------------
(***************************************************************************)
(* Safety of the slots.                                                    *)
(***************************************************************************)

\* A thread that is in a critical section of a slot holds the slot's mutex.
Critical == {"mark", "send", "sent", "store"}
HoldsMutex(t) == at[t] \in Slots /\ mutex[at[t]] = t
MutexHeld == \A t \in Threads : pc[t] \in Critical => HoldsMutex(t)

\* What makes it inductive: a thread that is about to lock is at a slot.
LockAtSlot == \A t \in Threads : pc[t] = "lock" => at[t] \in Slots
LockInv == LocksOK /\ ThreadsOK /\ MutexHeld /\ LockAtSlot

\* So no two threads are ever in critical sections of the same slot.
MutualExclusion ==
    \A t, u \in Threads : pc[t] \in Critical /\ pc[u] \in Critical /\ t # u => at[t] # at[u]

\* At most one client at a time holds a control session, although each request is
\* checked against slots that are closed and given away in between (recvRequest).
OneInteractive ==
    \A i, j \in Slots :
        ClientInfo[i].procType = "IACTIVE" /\ ClientInfo[j].procType = "IACTIVE" => i = j

\* What makes it inductive: the descriptors in use differ, a control session has
\* one, and Main stays at the slot it blocked on.
Open(i) == MainPoll[i].fd # NoFd
FdsDiffer == \A i, j \in Slots : Open(i) /\ MainPoll[i].fd = MainPoll[j].fd => i = j
SessionOpen == \A i \in Slots : ClientInfo[i].procType = "IACTIVE" => Open(i)
MainAtSlot ==
    /\ pc["Main"] \in {"accept", "close"} => at["Main"] \in Slots
    /\ pc["Main"] \in {"blockedRecv", "blockedSend"} => at["Main"] \in Slots /\ Open(at["Main"])
SessionInv == FdsDiffer /\ SessionOpen /\ MainAtSlot /\ OneInteractive

\* At most maxUsers clients are ever served at a time; one more is connected
\* without a mark only while Main is counting (procNewClient).
BeingCounted == IF pc["Main"] = "accept" THEN {at["Main"]} ELSE {}
UsersBound ==
    exited = "no" => Cardinality({i \in Slots : Live(i)} \ BeingCounted) <= MaxUsers

\* What the later steps rely on: a slot is open while it has an owner, two slots
\* never have the same one, and a message belongs to its slot's client or, left
\* behind in a slot that was closed in use, to nobody.
OwnersKept ==
    /\ \A i \in Slots : Open(i) <=> owner[i] # NoConn
    /\ \A i, j \in Slots : owner[i] = owner[j] /\ owner[i] # NoConn => i = j
    /\ \A i \in Slots : owner[i] # NoConn => phase[owner[i]] # "new"
    /\ \A i \in Slots : ClientInfo[i].servermsg.cc \in {NoConn, owner[i]}

\* A client makes at most one bank request; after it there is none to come.
RequestSpent(c) == phase[c] \notin {"new", "ready"} /\ inbox[c] # "Bank"
RequestOnce ==
    /\ \A c \in Conns : phase[c] \in {"new", "ready"} => inbox[c] = "none"
    /\ \A c \in Conns : PutToBank(c) # {} => RequestSpent(c)
    /\ \A c \in Conns, i \in Slots : owner[i] = c /\ ClientInfo[i].servermsg.cc = c => RequestSpent(c)

\* Once a card is at the bank, its slot is past the stages of the database.
InHand(t) == IF pc[t] \in Critical THEN {at[t]} ELSE {}
AtTheBank(i) == owner[i] # NoConn /\ PutToBank(owner[i]) # {}
ChargedInv ==
    /\ \A i \in Slots : AtTheBank(i) =>
          /\ ClientInfo[i].servermsg.status \in {"BS", "BR"}
          /\ ClientInfo[i].procStat \notin {"DB_SEND", "DB_RECV"}
          /\ i \notin InHand("DbSend") \cup InHand("DbRecv")
    /\ \A i \in InHand("BankSend") : ClientInfo[i].servermsg.cc # NoConn
                                     => ClientInfo[i].procStat = "BANK_SEND"
CardInv == OwnersKept /\ RequestOnce /\ ChargedInv

-----------------------------------------------------------------------------
(***************************************************************************)
(* What the bank messages rely on, and the invariant that follows.         *)
(***************************************************************************)

\* Main closes no slot on which a sending or receiving thread is at work, or
\* whose request the database has.  Nothing in the code keeps it from doing so.
InUse(i) ==
    \/ \E p \in Peers : \/ i \in InHand(Sender(p)) \cup InHand(Receiver(p))
                        \/ at[Receiver(p)] = i /\ pc[Receiver(p)] = "lock"
    \/ \E r \in msgs["db"] : r.key = MainPoll[i].fd
ClosesIdle == \A i \in Slots : Open(i) /\ MainPoll'[i].fd = NoFd => ~InUse(i)
ClosedIdle == [][ClosesIdle]_vars

\* dbserver does not begin to count anew once it has given out a number.
CountsOn == nextAudit' >= nextAudit
AuditsGoOn == [][CountsOn]_vars

\* What goes with the request, the response and the audit number of a slot, while a
\* request is under way (UnderWay) and after.
UnderWay == {"DB_SEND", "DB_RECV", "BANK_SEND", "BANK_RECV"}
HasResponse(i) == ClientInfo[i].response.kind # "none"
RequestOf(i) == LET x == ClientInfo[i] c == owner[i] IN
    x.procStat \in UnderWay =>
        /\ c # NoConn /\ x.servermsg.cc = c /\ x.disconStat # "AFTER_MSG" /\ ~HasResponse(i)
        /\ phase[c] \in {"waiting", "gone"} /\ inbox[c] = "none" /\ got[c].kind = "none"
ResponseOf(i) == LET x == ClientInfo[i] c == owner[i] IN
    /\ HasResponse(i) => /\ c # NoConn /\ phase[c] \in {"waiting", "gone"} /\ inbox[c] = "none"
                         /\ got[c].kind # "Bank"
    /\ x.response.kind = "Bank" =>
          /\ x.response.cc = c /\ x.response.verdict = c /\ x.servermsg.cc = c
          /\ AtTheBank(i) /\ x.disconStat # "AFTER_MSG"
GotOf(i) == LET x == ClientInfo[i] c == owner[i] IN
    c # NoConn => /\ phase[c] # "cut"
                  /\ got[c].kind = "Bank" => x.servermsg.cc = c /\ x.disconStat # "AFTER_MSG"
AuditOf(i) == LET x == ClientInfo[i] n == x.servermsg.audit IN
    /\ \A m \in charged : owner[i] = m.cc => n = m.key
    /\ IF n = NoAudit THEN x.procStat \notin {"BANK_SEND", "BANK_RECV"} ELSE <<n, owner[i]>> \in issued
SlotHonest(i) == RequestOf(i) /\ ResponseOf(i) /\ GotOf(i) /\ AuditOf(i)

\* What a client has got goes with what it has asked for.
ClientHonest(c) ==
    /\ phase[c] \in {"new", "ready"} => got[c].kind = "none"
    /\ inbox[c] = "Bank" => got[c].kind = "none"
    /\ inbox[c] = "Done" => got[c].kind = "Bank"
    /\ inbox[c] \in {"Bank", "Ctrl", "Bad"} => phase[c] \in {"waiting", "gone", "cut"}
    /\ phase[c] = "answered" => inbox[c] = "none"
    /\ got[c].kind = "Bank" =>
          /\ got[c].cc = c /\ got[c].verdict = c /\ PutToBank(c) # {}
          /\ inbox[c] \in {"none", "Done"} /\ phase[c] \in {"answered", "done", "gone", "cut"}

\* Main, when it has just accepted a client, and when it has a slot to send.
Sends(i) == MainPoll[i].events \in {"toPOLLOUT", "POLLOUT"}
MainHonest ==
    /\ \A i \in Slots : Sends(i) =>
          HasResponse(i) \/ (pc["Main"] = "close" /\ at["Main"] = i) \/ pc["Main"] = "exited"
    /\ pc["Main"] = "blockedSend" => HasResponse(at["Main"])
    /\ pc["Main"] = "accept" =>
          /\ ~HasResponse(at["Main"]) /\ ClientInfo[at["Main"]].procStat \notin UnderWay
          /\ got[owner[at["Main"]]].kind = "none"

\* A thread that has a slot in hand finds it in its stage, and what a receiving thread
\* is about to store is for that slot's client.
StageOf(t) == CASE t = "DbSend" -> "DB_SEND" [] t = "BankSend" -> "BANK_SEND"
                [] t = "DbRecv" -> "DB_RECV" [] t = "BankRecv" -> "BANK_RECV"
HandsHonest == \A t \in {"DbSend", "BankSend", "DbRecv", "BankRecv"} :
                 \A i \in InHand(t) : ClientInfo[i].procStat = StageOf(t)
RepliesHonest ==
    /\ pc["DbRecv"] \in {"lock", "store"} =>
          reply["db"] # NoAudit /\ <<reply["db"], owner[at["DbRecv"]]>> \in issued
    /\ pc["BankRecv"] \in {"lock", "store"} =>
          reply["bank"] = owner[at["BankRecv"]] /\ AtTheBank(at["BankRecv"])

\* An audit number belongs to one card and a card to one number, in the books, at the
\* bank and on the way.
BooksHonest ==
    /\ \A a \in issued : a[1] \in 1..nextAudit /\ a[2] \in Conns
    /\ \A a, b \in issued : a[1] = b[1] => a = b
    /\ AuditForCard
    /\ \A m, n \in charged : m.cc = n.cc => m = n
    /\ msgs["bank"] \subseteq charged
    /\ \A r \in msgs["db"] : \E i \in Slots : MainPoll[i].fd = r.key /\ owner[i] = r.cc /\ r.cc # NoConn

HonestInv ==
    /\ \A i \in Slots : SlotHonest(i)
    /\ \A c \in Conns : ClientHonest(c)
    /\ MainHonest /\ HandsHonest /\ RepliesHonest /\ BooksHonest

-----------------------------------------------------------------------------
(***************************************************************************)
(* Liveness.                                                               *)
(***************************************************************************)

\* A client that sent a request is answered or disconnected, or at least marked to
\* be disconnected, whatever it does itself.
Marked(c) == \E i \in Slots : owner[i] = c /\ ClientInfo[i].disconStat = "NOW"
AnsweredOrMarked ==
    \A c \in Conns : phase[c] = "waiting" ~> phase[c] # "waiting" \/ Marked(c) \/ exited # "no"

\* No wake-up is lost: while a thread is blocked on its condition and a client has
\* work for it, another thread is on its way to set...WorkPending(1) for it.  (A
\* stage stored into a slot that was closed meanwhile is no client's work.)
Work(m, i) == Pending(m, i) /\ (m # "timer" => ClientInfo[i].servermsg.cc # NoConn)
Waker(m) == CASE m = "timer" -> pc["Main"] \in {"accept", "swpTimer"}
              [] m = "db"    -> pc["Main"] = "swpDb"
              [] m = "bank"  -> pc["DbRecv"] = "swp"
NoLostWakeup ==
    \A m \in {"timer", "db", "bank"} :
        pc[Waiter(m)] = "condwait" /\ (\E i \in Slots : Work(m, i)) => Waker(m) \/ exited # "no"

\* What makes it inductive: whoever is about to wait finds the flag set, and who
\* waits has found it reset.
FlagTold ==
    \A m \in {"timer", "db", "bank"} :
        pc[Waiter(m)] \in {"wait", "condwait"} /\ (\E i \in Slots : Work(m, i))
           => Waker(m) \/ workPending[m] \/ exited # "no"
WaitsUnflagged == \A m \in {"timer", "db", "bank"} : pc[Waiter(m)] = "condwait" => ~workPending[m]
WakeInv == FlagTold /\ WaitsUnflagged

\* A live slot whose time has run out does not stay like that.
SilenceEnds == \A i \in Slots : LET silent == Live(i) /\ ClientInfo[i].activityTime = "old"
                                IN silent ~> ~silent \/ exited # "no"
-----------------------------------------------------------------------------
(***************************************************************************)
(* Shutdown and outages.                                                   *)
(***************************************************************************)

\* Once TERM has been accepted the process ends.
ShutdownEnds == OrderlyShutdown ~> exited # "no"

\* endServer joins one thread after the other, the SignalHandler last, and each
\* sending thread has joined its receiving thread before.
JoinedInOrder ==
    pc["Main"] \in {"wake", "join"} =>
        /\ at["Main"] \in 1..4
        /\ \A k \in 1..(at["Main"] - 1) : pc[Ending(k)] = "ended"
SenderLast == \A p \in Peers : pc[Sender(p)] = "ended" => pc[Receiver(p)] \in {"none", "ended"}
EndInv == JoinedInOrder /\ SenderLast

\* The lock file is deleted when no other thread is left: none that could touch the
\* slots, and not the SignalHandler.
NoThreadLeft ==
    [][exited' = "orderly" /\ exited = "no"
          => /\ \A t \in {"Timer", "DbSend", "BankSend", "SignalHandler"} : pc[t] = "ended"
             /\ \A p \in Peers : pc[Receiver(p)] \in {"none", "ended"}]_vars

=============================================================================
