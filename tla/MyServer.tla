------------------------------ MODULE MyServer ------------------------------
(***************************************************************************)
(* clientserver/myserver.c: the payment server.  A Main thread multiplexes *)
(* the clients with poll(); a Timer thread marks clients that were silent  *)
(* for too long; for each of the two peers, the database server ("db") and *)
(* the bank server ("bank"), one thread sends and one receives; a          *)
(* SignalHandler thread starts the orderly shutdown.                       *)
(*                                                                         *)
(* A slot i is the pair MainPoll[i], ClientInfo[i].  The slot mutex guards *)
(* ClientInfo[i] against the sending, receiving and timing threads; Main   *)
(* takes it to receive and to send, but neither to close a slot nor to     *)
(* give it to a new client.  A critical section is therefore two steps or  *)
(* more, lock-and-check first, so that Main can run in between.            *)
(***************************************************************************)
EXTENDS Naturals, FiniteSets

CONSTANTS
    Conns,      \* client connections; each is made at most once
    Fds,        \* descriptor numbers accept() may return, reused after close()
    NSlots,     \* maxPoll - ClientFdMpx: slots for clients
    MaxUsers,   \* StartInfo.maxUsers
    Requests,   \* what clients may ask: a subset of {"Bank", "Ctrl", "Bad"}
    MayDrop,    \* may a client hang up when it is owed an answer?
    Timed,      \* may the time-out of a connected client run out?
    Connected,  \* does the model begin when both peers have been connected?
    MaxDown,    \* bound: how often a peer may go down
    Signals     \* signals that may arrive: a subset of {"TERM", "INT"}

ASSUME ConstAssumption ==
    /\ IsFiniteSet(Conns) /\ IsFiniteSet(Fds) /\ "noconn" \notin Conns /\ "-1" \notin Fds
    /\ NSlots \in Nat \ {0} /\ MaxUsers \in Nat \ {0} /\ MaxDown \in Nat
    /\ Requests \subseteq {"Bank", "Ctrl", "Bad"}
    /\ MayDrop \in BOOLEAN /\ Timed \in BOOLEAN /\ Connected \in BOOLEAN
    /\ Signals \subseteq {"TERM", "INT"}

VARIABLES
    MainPoll,        \* [fd, events] of every slot
    ClientInfo,      \* the clientinfo_t of every slot, without its mutex
    mutex,           \* ClientInfo[i].mutex: its holder, or "none", or "destroyed"
    condMutex,       \* TimerThreadMutex, DbSendMutex, BankSendMutex: the holder
    workPending,     \* ServerWorkPending, DbSendWorkPending, BankSendWorkPending
    eventfd,         \* is the counter of the eventfd positive?
    OrderlyShutdown,
    exited,          \* how the process ended, "no" while it runs
    pc,              \* where each thread is
    at,              \* the slot (index of a for loop) each thread is at, or 0
    back,            \* where Main continues after closing a client
    status,          \* DbStatus, BankStatus
    link,            \* the connections behind DbFd and BankFd
    reply,           \* the answer a receiving thread is about to store: an audit
                     \* number, a verdict
    up,              \* is the peer's process running?
    downs,           \* how often a peer went down
    msgs,            \* requests the peers have received but not answered
    nextAudit,       \* dbserver's NextAuditNumber
    phase,           \* what each client is doing
    inbox,           \* the client's message that Main has not yet received
    got,             \* the client's last response
    owner,           \* history: the connection a slot is used for
    issued,          \* history: <<audit number, card>> the database gave out
    charged          \* history: the messages sent to the bank

slotVars   == <<MainPoll, ClientInfo, owner>>
lockVars   == <<mutex, condMutex, workPending>>
flagVars   == <<eventfd, OrderlyShutdown, exited>>
threadVars == <<pc, at, back>>
linkVars   == <<status, link, reply>>
peerVars   == <<up, downs, msgs, nextAudit, issued, charged>>
clientVars == <<phase, inbox, got>>
vars == <<slotVars, lockVars, flagVars, threadVars, linkVars, peerVars, clientVars>>
-----------------------------------------------------------------------------
Slots   == 1..NSlots
Peers   == {"db", "bank"}
Threads == {"Main", "Timer", "SignalHandler", "DbSend", "DbRecv", "BankSend", "BankRecv"}

Sender(p)   == IF p = "db" THEN "DbSend" ELSE "BankSend"
Receiver(p) == IF p = "db" THEN "DbRecv" ELSE "BankRecv"
Waiter(m)   == IF m = "timer" THEN "Timer" ELSE Sender(m)  \* who waits on m's condition

NoConn == "noconn"    \* a field that belongs to no client: blanks
NoFd   == "-1"
NoAudit == 0
NoReply(p) == IF p = "db" THEN NoAudit ELSE NoConn

\* The stages of a request (procstat_t) and the status of its servermsg_t.
SendStage(p)  == IF p = "db" THEN "DB_SEND" ELSE "BANK_SEND"

RecvStage(p)  == IF p = "db" THEN "DB_RECV" ELSE "BANK_RECV"

\* Mutants: the status of a database message for both; the stage for the status.
SentStatusOfDb(p) == "DS"
SentStatusIsStage(p) == SendStage(p)
SentStatus(p) == IF p = "db" THEN "DS" ELSE "BS"

\* servermsg_t.  The card number stands for the connection that supplied it,
\* and the bank's verdict for the card number it was given on.
BlankMsg == [cc |-> NoConn, audit |-> NoAudit, verdict |-> NoConn, status |-> "blank"]

\* What initClientAtIdx leaves in a slot.  activityTime is "zero", "recent" or
\* "old": old when BANKMSG_WAIT_TIME or IACTIVEMSG_WAIT_TIME has passed since.
NoResponse == [kind |-> "none", cc |-> NoConn, verdict |-> NoConn]
FreePoll == [fd |-> NoFd, events |-> "none"]
FreeInfo == [activityTime |-> "zero", disconStat |-> "INIT", procType |-> "INIT",
             procStat |-> "INIT", servermsg |-> BlankMsg, response |-> NoResponse]

Live(i) == MainPoll[i].fd # NoFd /\ ClientInfo[i].disconStat = "INIT"
Goto(t, label) == pc' = [pc EXCEPT ![t] = label]
AtSlot(t, i) == at' = [at EXCEPT ![t] = i]     \* 0: at no slot
Exit(how) == exited' = how /\ pc' = [t \in Threads |-> "exited"]

\* Mutant: a thread that does not wait for the lock.
UnlockedRacy(i) == mutex[i] # "destroyed"
Unlocked(i) == mutex[i] = "none"
IsFirst(i, S) == i \in S /\ \A j \in S : i <= j    \* where a for loop over S breaks

Init ==
    /\ MainPoll = [i \in Slots |-> FreePoll]
    /\ ClientInfo = [i \in Slots |-> FreeInfo]
    /\ owner = [i \in Slots |-> NoConn]
    /\ mutex = [i \in Slots |-> "none"]
    /\ condMutex = [m \in {"timer", "db", "bank"} |-> "none"]
    /\ workPending = [m \in {"timer", "db", "bank"} |-> FALSE]
    /\ eventfd = FALSE /\ OrderlyShutdown = FALSE /\ exited = "no"
    /\ pc = [t \in Threads |-> CASE t = "Main" -> "poll"
                                 [] t \in {"Timer", "SignalHandler"} -> "wait"
                                 [] t \in {"DbSend", "BankSend"} ->
                                        IF Connected THEN "condwait" ELSE "connect"
                                 [] OTHER -> IF Connected THEN "recv" ELSE "none"]
    /\ at = [t \in Threads |-> 0]
    /\ back = "poll"
    /\ status = [p \in Peers |-> IF Connected THEN "CONNECTED" ELSE "DISCONNECTED"]
    /\ link = [p \in Peers |-> IF Connected THEN "up" ELSE "closed"]
    /\ reply = [p \in Peers |-> NoReply(p)]
    /\ up \in [Peers -> IF Connected \/ MaxDown = 0 THEN {TRUE} ELSE BOOLEAN]
    /\ downs = 0
    /\ msgs = [p \in Peers |-> {}]
    /\ nextAudit = NoAudit
    /\ phase = [c \in Conns |-> "new"]
    /\ inbox = [c \in Conns |-> "none"]
    /\ got = [c \in Conns |-> NoResponse]
    /\ issued = {} /\ charged = {}
-----------------------------------------------------------------------------
(***************************************************************************)
(* Shared routines.                                                        *)
(***************************************************************************)

\* Is there work for the thread that waits on m, as far as slot i goes?
Pending(m, i) == Live(i) /\ (m = "timer" \/ ClientInfo[i].procStat = SendStage(m))

\* The slots whose mutex setServerWorkPending, setDbSendWorkPending and
\* setBankSendWorkPending take: up to the first one with work; the first two
\* look before they lock, the last one locks every live slot it passes.
ScanLocks(m) ==
    {i \in Slots : /\ IF m = "bank" THEN Live(i) ELSE Pending(m, i)
                   /\ \A j \in 1..(i - 1) : ~Pending(m, j)}

\* Mutants: the flag, or the shutdown, is not looked at before pthread_cond_wait.
WaitsUnchecked(m, pending) == ~OrderlyShutdown /\ (m # "timer" => status[m] = "CONNECTED")
WaitsThroughShutdown(m, pending) == ~pending /\ (m # "timer" => status[m] = "CONNECTED")

\* Does the thread that waits on m go on waiting, given the pending flag?
Waits(m, pending) ==
    ~OrderlyShutdown /\ ~pending /\ (m # "timer" => status[m] = "CONNECTED")

\* set...WorkPending(sendSignal), run by thread t, which continues at next; for
\* the thread that waits on m this is its loop on the condition.  While a slot
\* mutex it needs is taken, t is stuck with m's mutex in its hands.
SetWorkPending(t, m, sendSignal, next) ==
    /\ condMutex[m] \in {"none", t}
    /\ \A i \in ScanLocks(m) : mutex[i] # "destroyed"
    /\ IF \A i \in ScanLocks(m) : mutex[i] = "none"
       THEN LET pending == \E i \in Slots : Pending(m, i)
                wake == pending /\ sendSignal /\ pc[Waiter(m)] = "condwait"
            IN /\ workPending' = [workPending EXCEPT ![m] = pending]
               /\ condMutex' = [condMutex EXCEPT ![m] = "none"]
               /\ pc' = IF t = Waiter(m)
                        THEN [pc EXCEPT ![t] = IF Waits(m, pending) THEN "condwait" ELSE next]
                        ELSE [pc EXCEPT ![t] = next, ![Waiter(m)] = IF wake THEN "wait" ELSE @]
       ELSE /\ condMutex[m] = "none"
            /\ condMutex' = [condMutex EXCEPT ![m] = t]
            /\ UNCHANGED <<workPending, pc>>
    /\ UNCHANGED <<slotVars, mutex, flagVars, at, back, linkVars, peerVars, clientVars>>

\* The slot after setupClientResponse; the caller also sets the eventfd.
WithResponse(info, resp) == [info EXCEPT !.response = resp, !.procStat = "CT_RESP_SEND",
                                         !.activityTime = "recent"]

\* setClientDisconnect: mark the slot and wake Main, which closes it.
SetClientDisconnect(i, info) ==
    /\ ClientInfo' = [ClientInfo EXCEPT ![i] = [info EXCEPT !.disconStat = "NOW"]]
    /\ eventfd' = TRUE

\* Thread t takes the mutex of slot at[t] and looks again: ok is what it checks.
\* If ok, it goes on to label then, otherwise it unlocks and goes to label else.
LockAndCheck(t, ok, then, else) ==
    LET i == at[t] IN
    /\ pc[t] = "lock" /\ Unlocked(i)
    /\ mutex' = IF ok THEN [mutex EXCEPT ![i] = t] ELSE mutex
    /\ Goto(t, IF ok THEN then ELSE else)
    /\ AtSlot(t, IF ok \/ else = "scan" THEN i ELSE 0)
    /\ UNCHANGED <<slotVars, condMutex, workPending, flagVars, back, linkVars, peerVars,
                   clientVars>>
-----------------------------------------------------------------------------
(***************************************************************************)
(* Main thread: the poll loop.                                             *)
(***************************************************************************)

\* procNewClient, first part: accept() and the first free slot.
AcceptClient(c) ==
    /\ pc["Main"] = "poll" /\ ~OrderlyShutdown /\ phase[c] = "new"
    /\ \E i \in Slots, f \in Fds \ {MainPoll[j].fd : j \in Slots} :
          /\ IsFirst(i, {j \in Slots : MainPoll[j].fd = NoFd})
          /\ MainPoll' = [MainPoll EXCEPT ![i] = [fd |-> f, events |-> "POLLIN"]]
          /\ owner' = [owner EXCEPT ![i] = c]
          /\ AtSlot("Main", i)
    /\ phase' = [phase EXCEPT ![c] = "ready"]
    /\ Goto("Main", "accept")
    /\ UNCHANGED <<ClientInfo, lockVars, flagVars, back, linkVars, peerVars, inbox, got>>

\* Mutant: off by one.
TooManyUsersLate(users) == users > MaxUsers + 1
TooManyUsers(users) == users > MaxUsers

\* procNewClient, second part: count the users, mark the client or start its time.
CountUsers ==
    LET i == at["Main"]
    IN /\ pc["Main"] = "accept"
       /\ ClientInfo' = IF TooManyUsers(Cardinality({j \in Slots : MainPoll[j].fd # NoFd}))
                        THEN [ClientInfo EXCEPT ![i].disconStat = "AFTER_MSG"]
                        ELSE [ClientInfo EXCEPT ![i].activityTime = "recent"]
       /\ Goto("Main", "swpTimer") /\ AtSlot("Main", 0)
       /\ UNCHANGED <<MainPoll, owner, lockVars, flagVars, back, linkVars, peerVars, clientVars>>

\* Events set while poll() runs are known to the next call only: "toPOLLOUT" until
\* then.  Every change comes with an event, which is read before any other slot.
Polled(slots) == [i \in Slots |-> IF slots[i].events = "toPOLLOUT"
                                  THEN [slots[i] EXCEPT !.events = "POLLOUT"] ELSE slots[i]]

\* disconnectClients, from the slot after slot i on: close the next marked client.
DisconnectNext(i) ==
    LET marked == {j \in Slots : /\ j > i /\ MainPoll[j].fd # NoFd
                                 /\ ClientInfo[j].disconStat = "NOW"}
    IN /\ \/ /\ marked = {}
             /\ Goto("Main", "poll") /\ AtSlot("Main", 0) /\ back' = "poll"
          \/ \E j \in Slots : /\ IsFirst(j, marked)
                             /\ Goto("Main", "close") /\ AtSlot("Main", j) /\ back' = "discon"
       /\ UNCHANGED <<ClientInfo, owner, lockVars, OrderlyShutdown, exited, linkVars, peerVars,
                      clientVars>>

\* The event descriptor is readable.
ReadEvent ==
    /\ pc["Main"] = "poll" /\ eventfd /\ ~OrderlyShutdown
    /\ eventfd' = FALSE /\ MainPoll' = Polled(MainPoll)
    /\ DisconnectNext(0)

DisconnectClients ==
    /\ pc["Main"] = "discon" /\ UNCHANGED <<eventfd, MainPoll>>
    /\ DisconnectNext(at["Main"])

\* closeClientAtIdx and initClientAtIdx, without the slot's mutex.
CloseClient ==
    LET i == at["Main"] c == owner[i] IN
    /\ pc["Main"] = "close"
    /\ MainPoll' = [MainPoll EXCEPT ![i] = FreePoll]
    /\ ClientInfo' = [ClientInfo EXCEPT ![i] = FreeInfo]
    /\ owner' = [owner EXCEPT ![i] = NoConn]
    /\ phase' = [d \in Conns |-> IF d = c /\ phase[c] # "gone" THEN "cut" ELSE phase[d]]
    /\ Goto("Main", "swpTimer") /\ AtSlot("Main", IF back = "poll" THEN 0 ELSE i)
    /\ UNCHANGED <<lockVars, flagVars, back, linkVars, peerVars, inbox, got>>

\* Main has slot i to serve: poll() just said so, or it was blocked on the mutex.
Serves(i, ready, blocked) ==
    \/ pc["Main"] = "poll" /\ ~OrderlyShutdown /\ ready
    \/ pc["Main"] = blocked /\ at["Main"] = i

Readable(i) == /\ MainPoll[i].fd # NoFd /\ MainPoll[i].events = "POLLIN"
               /\ inbox[owner[i]] # "none" \/ phase[owner[i]] = "gone"
Writable(i) == MainPoll[i].fd # NoFd /\ MainPoll[i].events = "POLLOUT"

\* PTHREAD_MUTEX_LOCK in the poll loop when another thread holds the slot.
BlockOnClient(i) ==
    /\ pc["Main"] = "poll" /\ ~OrderlyShutdown /\ mutex[i] # "none"
    /\ \/ Readable(i) /\ Goto("Main", "blockedRecv")
       \/ Writable(i) /\ Goto("Main", "blockedSend")
    /\ AtSlot("Main", i)
    /\ UNCHANGED <<slotVars, lockVars, flagVars, back, linkVars, peerVars, clientVars>>

\* recvRequest up to a complete message k of slot i's client ("none": it hung up).
Receives(i, k) ==
    /\ Serves(i, Readable(i), "blockedRecv") /\ Unlocked(i)
    /\ inbox[owner[i]] = k
    /\ inbox' = [inbox EXCEPT ![owner[i]] = "none"]
    /\ UNCHANGED <<owner, lockVars, OrderlyShutdown, exited, back, linkVars, peerVars, phase, got>>

ReceivedInfo(i) == [ClientInfo[i] EXCEPT !.procStat = "CT_REQ_RECV", !.activityTime = "recent"]
OverLimit(i)    == ClientInfo[i].disconStat = "AFTER_MSG"

\* setupClientResponse with the whole new ClientInfo[i].
Respond(i, info) ==
    /\ ClientInfo' = [ClientInfo EXCEPT ![i] = info]
    /\ MainPoll' = [MainPoll EXCEPT ![i].events = "toPOLLOUT"]
    /\ eventfd' = TRUE

RecvHangup(i) ==
    /\ Receives(i, "none") /\ phase[owner[i]] = "gone"
    /\ Goto("Main", "close") /\ AtSlot("Main", i)
    /\ UNCHANGED <<MainPoll, ClientInfo, eventfd>>

\* A client beyond maxUsers hears so when it sends its first message.
RecvOverLimit(i) ==
    /\ OverLimit(i)
    /\ \E k \in {"Bank", "Ctrl", "Bad", "Done"} : Receives(i, k)
    /\ Respond(i, WithResponse(ReceivedInfo(i), [NoResponse EXCEPT !.kind = "MaxUsers"]))
    /\ Goto("Main", "poll") /\ AtSlot("Main", 0)

\* Mutant: the loop ends at the client's own slot.
AnotherInteractiveBefore(i) == \E j \in 1..(i - 1) : ClientInfo[j].procType = "IACTIVE"
AnotherInteractive(i) ==
    \E j \in Slots : MainPoll[j].fd # MainPoll[i].fd /\ ClientInfo[j].procType = "IACTIVE"

\* A control command: only one interactive client at a time.
RecvControl(i) ==
    /\ ~OverLimit(i) /\ Receives(i, "Ctrl")
    /\ IF AnotherInteractive(i)
       THEN SetClientDisconnect(i, ReceivedInfo(i)) /\ UNCHANGED MainPoll
       ELSE Respond(i, WithResponse([ReceivedInfo(i) EXCEPT !.procType = "IACTIVE"],
                                    [NoResponse EXCEPT !.kind = "Cmd"]))
    /\ Goto("Main", "poll") /\ AtSlot("Main", 0)

RecvInvalid(i) ==
    /\ ~OverLimit(i) /\ Receives(i, "Bad")
    /\ Respond(i, [WithResponse(ReceivedInfo(i), [NoResponse EXCEPT !.kind = "Invalid"])
                     EXCEPT !.disconStat = "AFTER_MSG"])
    /\ Goto("Main", "poll") /\ AtSlot("Main", 0)

RecvCompletion(i) ==
    /\ ~OverLimit(i) /\ Receives(i, "Done")
    /\ ClientInfo' = [ClientInfo EXCEPT ![i] = [ReceivedInfo(i) EXCEPT !.procType = "BANK"]]
    /\ Goto("Main", "close") /\ AtSlot("Main", i)
    /\ UNCHANGED <<MainPoll, eventfd>>

RecvBankRequest(i) ==
    /\ ~OverLimit(i) /\ Receives(i, "Bank")
    /\ ClientInfo' = [ClientInfo EXCEPT ![i] =
                        [ReceivedInfo(i) EXCEPT !.procType = "BANK", !.procStat = "DB_SEND",
                                                !.servermsg = [BlankMsg EXCEPT !.cc = owner[i]]]]
    /\ Goto("Main", "swpDb") /\ AtSlot("Main", 0)
    /\ UNCHANGED <<MainPoll, eventfd>>

SendResponse(i) ==
    LET c == owner[i] IN
    /\ Serves(i, Writable(i), "blockedSend") /\ Unlocked(i)
    /\ got' = [got EXCEPT ![c] = IF phase[c] = "gone" THEN @ ELSE ClientInfo[i].response]
    /\ phase' = [phase EXCEPT ![c] = IF @ = "waiting" THEN "answered" ELSE @]
    /\ ClientInfo' = [ClientInfo EXCEPT ![i].response = NoResponse]
    /\ IF ClientInfo[i].disconStat = "AFTER_MSG"
       THEN Goto("Main", "close") /\ AtSlot("Main", i) /\ UNCHANGED MainPoll
       ELSE Goto("Main", "poll") /\ AtSlot("Main", 0)
            /\ MainPoll' = [MainPoll EXCEPT ![i].events = "POLLIN"]
    /\ UNCHANGED <<owner, lockVars, flagVars, back, linkVars, peerVars, inbox>>

MainSetsWorkPending ==
    \/ pc["Main"] = "swpTimer" /\ SetWorkPending("Main", "timer", TRUE, back)
    \/ pc["Main"] = "swpDb" /\ SetWorkPending("Main", "db", TRUE, "poll")
-----------------------------------------------------------------------------
(***************************************************************************)
(* Timer thread.                                                           *)
(***************************************************************************)

\* The next slot after slot i that seems to have been silent for too long, read
\* without a lock; at the end of the scan the flag is computed anew.
TimerScanFrom(i) ==
    LET expired == {j \in Slots : /\ j > i /\ Live(j)
                                  /\ ClientInfo[j].activityTime # "recent"}
    IN /\ \/ expired = {} /\ Goto("Timer", "swp") /\ AtSlot("Timer", 0)
          \/ \E j \in Slots : IsFirst(j, expired) /\ Goto("Timer", "lock") /\ AtSlot("Timer", j)
       /\ UNCHANGED <<slotVars, lockVars, flagVars, back, linkVars, peerVars, clientVars>>

\* One pass.  A pass that would find nobody silent and work pending changes
\* nothing: it is a stuttering step.
TimerPass ==
    /\ pc["Timer"] = "wait" /\ condMutex["timer"] = "none"
    /\ ~OrderlyShutdown /\ workPending["timer"]
    /\ \/ \A j \in Slots : ~Live(j)
       \/ \E j \in Slots : Live(j) /\ ClientInfo[j].activityTime # "recent"
    /\ TimerScanFrom(0)

TimerScan == pc["Timer"] = "scan" /\ TimerScanFrom(at["Timer"])

TimerWait ==
    /\ pc["Timer"] = "wait" /\ condMutex["timer"] = "none"
    /\ \/ OrderlyShutdown /\ Goto("Timer", "ended")
       \/ Waits("timer", workPending["timer"]) /\ Goto("Timer", "condwait")
    /\ UNCHANGED <<slotVars, lockVars, flagVars, at, back, linkVars, peerVars, clientVars>>

\* Under the lock the descriptor and the mark are checked again, the time is not.
TimerLock == LockAndCheck("Timer", Live(at["Timer"]), "mark", "scan")

TimerMark ==
    LET i == at["Timer"] IN
    /\ pc["Timer"] = "mark"
    /\ SetClientDisconnect(i, ClientInfo[i])
    /\ mutex' = [mutex EXCEPT ![i] = "none"]
    /\ Goto("Timer", "scan")
    /\ UNCHANGED <<MainPoll, owner, condMutex, workPending, OrderlyShutdown, exited, at, back,
                   linkVars, peerVars, clientVars>>

TimerSetsWorkPending ==
    pc["Timer"] = "swp" /\ SetWorkPending("Timer", "timer", FALSE, "wait")

TimerStep ==
    TimerWait \/ TimerPass \/ TimerScan \/ TimerLock \/ TimerMark \/ TimerSetsWorkPending
-----------------------------------------------------------------------------
(***************************************************************************)
(* DbSendThread and BankSendThread, p being the peer.                      *)
(***************************************************************************)

\* The key by which a peer's answer is matched with a slot: the number of the
\* client's descriptor at the database, the audit number at the bank.
Key(p, i) == IF p = "db" THEN MainPoll[i].fd ELSE ClientInfo[i].servermsg.audit

\* TcpSetConnectSocketNoBlock and PTHREAD_CREATE of the receiving thread.  The
\* 30 s pauses are taken to outlast the end of the receiving thread before.
Connect(p) ==
    /\ pc[Sender(p)] = "connect" /\ pc[Receiver(p)] \in {"none", "ended"}
    /\ up[p] \/ OrderlyShutdown
    /\ link' = [link EXCEPT ![p] = IF up[p] THEN "up" ELSE "closed"]
    /\ status' = [status EXCEPT ![p] = IF up[p] THEN "CONNECTED" ELSE @]
    /\ pc' = IF OrderlyShutdown THEN [pc EXCEPT ![Sender(p)] = "join"]
             ELSE [pc EXCEPT ![Sender(p)] = "swp", ![Receiver(p)] = "recv"]
    /\ UNCHANGED <<slotVars, lockVars, flagVars, at, back, reply, peerVars, clientVars>>

SenderSetsWorkPending(p) ==
    pc[Sender(p)] = "swp" /\ SetWorkPending(Sender(p), p, FALSE, "wait")

\* The loop on the condition, and what follows when it ends.
SenderWait(p) ==
    LET t == Sender(p) IN
    /\ pc[t] = "wait" /\ condMutex[p] = "none"
    /\ Goto(t, IF OrderlyShutdown THEN "join"
               ELSE IF status[p] = "DISCONNECTED" THEN "down"
               ELSE IF workPending[p] THEN "scan" ELSE "condwait")
    /\ UNCHANGED <<slotVars, lockVars, flagVars, at, back, linkVars, peerVars, clientVars>>

\* After one slot: has the connection gone in the meantime?
AfterSend(p) == IF status[p] = "DISCONNECTED" THEN "down" ELSE "swp"

\* The first slot with something to send.  It is looked at without the mutex and,
\* if that is taken, once more when it is free; what is checked is the same.
SenderScan(p) ==
    LET t == Sender(p)
        todo == {j \in Slots : Pending(p, j)}
    IN /\ pc[t] = "scan"
       /\ \/ todo = {} /\ Goto(t, AfterSend(p)) /\ AtSlot(t, 0) /\ UNCHANGED mutex
          \/ \E i \in Slots :
                /\ IsFirst(i, todo) /\ AtSlot(t, i)
                /\ IF Unlocked(i) THEN Goto(t, "send") /\ mutex' = [mutex EXCEPT ![i] = t]
                   ELSE Goto(t, "lock") /\ UNCHANGED mutex
       /\ UNCHANGED <<slotVars, condMutex, workPending, flagVars, back, linkVars, peerVars,
                      clientVars>>

SenderLock(p) == LockAndCheck(Sender(p), Pending(p, at[Sender(p)]), "send", AfterSend(p))

\* The status goes into the message before it is sent.
WithSentStatus(p, i) == [ClientInfo EXCEPT ![i].servermsg.status = SentStatus(p)]

\* SocketSendNoYield succeeds; a peer that is down never sees the message.
SendMsg(p) ==
    LET t == Sender(p)
        i == at[t]
        m == [key |-> Key(p, i), cc |-> ClientInfo[i].servermsg.cc]
    IN /\ pc[t] = "send" /\ link[p] \in {"up", "broken"}
       /\ ClientInfo' = WithSentStatus(p, i)
       /\ msgs' = IF link[p] = "up" THEN [msgs EXCEPT ![p] = @ \cup {m}] ELSE msgs
       /\ charged' = IF p = "bank" /\ link[p] = "up" THEN charged \cup {m} ELSE charged
       /\ Goto(t, "sent")
       /\ UNCHANGED <<MainPoll, owner, lockVars, flagVars, at, back, linkVars, up, downs,
                      nextAudit, issued, clientVars>>

\* It returns 1, connection reset: break, with the slot's mutex still locked.
SendReset(p) ==
    LET t == Sender(p) IN
    /\ pc[t] = "send" /\ link[p] = "broken"
    /\ ClientInfo' = WithSentStatus(p, at[t])
    /\ status' = [status EXCEPT ![p] = "DISCONNECTED"]
    /\ Goto(t, "down") /\ AtSlot(t, 0)
    /\ UNCHANGED <<MainPoll, owner, lockVars, flagVars, back, link, reply, peerVars, clientVars>>

\* Broken pipe, or descriptor -1: SysExit.
SendFails(p) ==
    /\ pc[Sender(p)] = "send" /\ link[p] \in {"broken", "closed"}
    /\ Exit("SysExit")
    /\ UNCHANGED <<slotVars, lockVars, eventfd, OrderlyShutdown, at, back, linkVars,
                   peerVars, clientVars>>

\* Only now the slot's stage says that an answer is expected.
Sent(p) ==
    LET t == Sender(p) i == at[t] IN
    /\ pc[t] = "sent"
    /\ ClientInfo' = [ClientInfo EXCEPT ![i] = [@ EXCEPT !.procStat = RecvStage(p),
                                                         !.activityTime = "recent"]]
    /\ mutex' = [mutex EXCEPT ![i] = "none"]
    /\ Goto(t, AfterSend(p)) /\ AtSlot(t, 0)
    /\ UNCHANGED <<MainPoll, owner, condMutex, workPending, flagVars, back, linkVars, peerVars,
                   clientVars>>

\* The connection is gone: sleep and connect again.
SenderDown(p) ==
    /\ pc[Sender(p)] = "down"
    /\ Goto(Sender(p), IF OrderlyShutdown THEN "join" ELSE "connect")
    /\ UNCHANGED <<slotVars, lockVars, flagVars, at, back, linkVars, peerVars, clientVars>>

\* Shut the connection down for writing, upon which the peer closes it, having
\* answered some more of its requests perhaps, and join the receiver.  Joining a
\* thread that was never created is undefined: it may crash.
SenderShutdown(p) ==
    /\ pc[Sender(p)] = "join"
    /\ link' = [link EXCEPT ![p] = IF @ = "up" THEN "broken" ELSE @]
    /\ \/ Goto(Sender(p), "joining") /\ UNCHANGED exited
       \/ /\ pc[Receiver(p)] = "none"
          /\ Exit("crash")
    /\ UNCHANGED <<slotVars, lockVars, eventfd, OrderlyShutdown, at, back, status, reply,
                   peerVars, clientVars>>

SenderJoin(p) ==
    /\ pc[Sender(p)] = "joining" /\ pc[Receiver(p)] \in {"none", "ended"}
    /\ Goto(Sender(p), "ended")
    /\ UNCHANGED <<slotVars, lockVars, flagVars, at, back, linkVars, peerVars, clientVars>>

SenderStep(p) ==
    \/ Connect(p) \/ SenderSetsWorkPending(p) \/ SenderWait(p) \/ SenderScan(p) \/ SenderLock(p) \/ SendMsg(p)
    \/ SendReset(p) \/ SendFails(p) \/ Sent(p) \/ SenderDown(p) \/ SenderShutdown(p) \/ SenderJoin(p)
-----------------------------------------------------------------------------
(***************************************************************************)
(* DbRecvThread and BankRecvThread.                                        *)
(***************************************************************************)

\* Mutant: the key of the answer is not compared.
ExpectsAnyKey(p, j, key) == Live(j) /\ ClientInfo[j].procStat = RecvStage(p)
Expects(p, j, key) ==
    Live(j) /\ ClientInfo[j].procStat = RecvStage(p) /\ Key(p, j) = key

AfterRecv(p) == IF p = "db" THEN "swp" ELSE "recv"

\* The peer answers one of its requests, in any order; the answer is matched with
\* the slots, which are read without a lock.  An answer nobody expects is dropped.
Receive(p) ==
    LET t == Receiver(p) IN
    /\ pc[t] = "recv" /\ link[p] # "closed"
    /\ \E r \in msgs[p] :
          LET expected == {j \in Slots : Expects(p, j, r.key)}
          IN /\ msgs' = [msgs EXCEPT ![p] = @ \ {r}]
             /\ IF p = "db"
                THEN /\ nextAudit' = nextAudit + 1
                     /\ issued' = issued \cup {<<nextAudit', r.cc>>}
                ELSE UNCHANGED <<nextAudit, issued>>
             /\ \/ expected = {} /\ Goto(t, AfterRecv(p)) /\ UNCHANGED <<at, reply>>
                \/ \E i \in Slots :
                      /\ IsFirst(i, expected) /\ Goto(t, "lock") /\ AtSlot(t, i)
                      /\ reply' = [reply EXCEPT ![p] = IF p = "db" THEN nextAudit' ELSE r.cc]
    /\ UNCHANGED <<slotVars, lockVars, flagVars, back, status, link, up, downs, charged, clientVars>>

\* Under the lock the key is not compared again.
ReceiverLock(p) ==
    LET i == at[Receiver(p)]
    IN LockAndCheck(Receiver(p), Live(i) /\ ClientInfo[i].procStat = RecvStage(p),
                    "store", AfterRecv(p))

\* The audit number is stored, and the bank is next.
StoreAudit ==
    LET i == at["DbRecv"]
        m == [ClientInfo[i].servermsg EXCEPT !.audit = reply["db"], !.status = "DR"]
    IN /\ pc["DbRecv"] = "store"
       /\ ClientInfo' = [ClientInfo EXCEPT ![i] = [@ EXCEPT !.servermsg = m, !.procStat = "BANK_SEND",
                                                            !.activityTime = "recent"]]
       /\ mutex' = [mutex EXCEPT ![i] = "none"]
       /\ Goto("DbRecv", "swp") /\ AtSlot("DbRecv", 0) /\ reply' = [reply EXCEPT !["db"] = NoAudit]
       /\ UNCHANGED <<MainPoll, owner, condMutex, workPending, flagVars, back, status, link,
                      peerVars, clientVars>>

DbReceiverSetsWorkPending ==
    pc["DbRecv"] = "swp" /\ SetWorkPending("DbRecv", "bank", TRUE, "recv")

\* The bank's verdict is stored, and the message becomes the response.
StoreVerdict ==
    LET i == at["BankRecv"]
        m == [ClientInfo[i].servermsg EXCEPT !.verdict = reply["bank"], !.status = "BR"]
    IN /\ pc["BankRecv"] = "store"
       /\ Respond(i, WithResponse([ClientInfo[i] EXCEPT !.servermsg = m],
                                  [kind |-> "Bank", cc |-> m.cc, verdict |-> m.verdict]))
       /\ mutex' = [mutex EXCEPT ![i] = "none"]
       /\ Goto("BankRecv", "recv") /\ AtSlot("BankRecv", 0)
       /\ reply' = [reply EXCEPT !["bank"] = NoConn]
       /\ UNCHANGED <<owner, condMutex, workPending, OrderlyShutdown, exited, back, status, link,
                      peerVars, clientVars>>

\* End of file on the connection: close it and wake the sending thread.
ReceiverHangup(p) ==
    /\ pc[Receiver(p)] = "recv" /\ link[p] = "broken"
    /\ link' = [link EXCEPT ![p] = "closed"]
    /\ status' = [status EXCEPT ![p] = "DISCONNECTED"]
    /\ Goto(Receiver(p), "closing")
    /\ UNCHANGED <<slotVars, lockVars, flagVars, at, back, reply, peerVars, clientVars>>

ReceiverEnds(p) ==
    /\ pc[Receiver(p)] = "closing" /\ condMutex[p] = "none"
    /\ pc' = [pc EXCEPT ![Receiver(p)] = "ended",
                        ![Sender(p)] = IF @ = "condwait" THEN "wait" ELSE @]
    /\ UNCHANGED <<slotVars, lockVars, flagVars, at, back, linkVars, peerVars, clientVars>>

ReceiverStep(p) ==
    \/ Receive(p) \/ ReceiverLock(p) \/ ReceiverHangup(p) \/ ReceiverEnds(p)
    \/ p = "db" /\ (StoreAudit \/ DbReceiverSetsWorkPending)
    \/ p = "bank" /\ StoreVerdict
-----------------------------------------------------------------------------
(***************************************************************************)
(* SignalHandler thread and the orderly shutdown.                          *)
(***************************************************************************)

\* TERM is ignored while a client is connected (ignoreSignal, without a lock).
TermArrives ==
    /\ "TERM" \in Signals /\ pc["SignalHandler"] = "wait" /\ ~OrderlyShutdown
    /\ \A i \in Slots : MainPoll[i].fd = NoFd
    /\ Goto("SignalHandler", "term")
    /\ UNCHANGED <<slotVars, lockVars, flagVars, at, back, linkVars, peerVars, clientVars>>

TermAccepted ==
    /\ pc["SignalHandler"] = "term"
    /\ OrderlyShutdown' = TRUE /\ eventfd' = TRUE
    /\ Goto("SignalHandler", "wait")
    /\ UNCHANGED <<slotVars, lockVars, exited, at, back, linkVars, peerVars, clientVars>>

\* INT: exit(1) at once.
IntArrives ==
    /\ "INT" \in Signals /\ pc["SignalHandler"] = "wait" /\ exited = "no" /\ Exit("INT")
    /\ UNCHANGED <<slotVars, lockVars, eventfd, OrderlyShutdown, at, back, linkVars,
                   peerVars, clientVars>>

\* Main leaves the poll loop and destroys the slots' mutexes; a locked one is EBUSY.
LeaveLoop ==
    /\ pc["Main"] = "poll" /\ OrderlyShutdown
    /\ IF \A i \in Slots : mutex[i] = "none"
       THEN /\ mutex' = [i \in Slots |-> "destroyed"]
            /\ Goto("Main", "closeAll") /\ AtSlot("Main", 0)
            /\ UNCHANGED exited
       ELSE Exit("SysExit") /\ UNCHANGED <<mutex, at>>
    /\ back' = "closeAll"
    /\ UNCHANGED <<slotVars, condMutex, workPending, eventfd, OrderlyShutdown, linkVars,
                   peerVars, clientVars>>

\* Whoever is still connected is closed, then endServer begins.
CloseAll ==
    LET left == {j \in Slots : j > at["Main"] /\ MainPoll[j].fd # NoFd}
    IN /\ pc["Main"] = "closeAll"
       /\ \/ left = {} /\ Goto("Main", "wake") /\ AtSlot("Main", 1)
          \/ \E j \in Slots : IsFirst(j, left) /\ Goto("Main", "close") /\ AtSlot("Main", j)
       /\ UNCHANGED <<slotVars, lockVars, flagVars, back, linkVars, peerVars, clientVars>>

\* endServer wakes and joins DbSend, BankSend and Timer, one after the other, and
\* then sends QUIT to the SignalHandler and joins it.
\* Mutant: a slip of copying.
EndOrderSlip == <<"db", "timer", "timer">>
EndOrder == <<"db", "bank", "timer">>
Ending(k) == IF k = 4 THEN "SignalHandler" ELSE Waiter(EndOrder[k])

WakeThread ==
    LET m == EndOrder[at["Main"]] IN
    /\ pc["Main"] = "wake" /\ at["Main"] < 4 /\ condMutex[m] = "none"
    /\ pc' = [pc EXCEPT !["Main"] = "join", ![Waiter(m)] = IF @ = "condwait" THEN "wait" ELSE @]
    /\ UNCHANGED <<slotVars, lockVars, flagVars, at, back, linkVars, peerVars, clientVars>>

KillHandler ==
    /\ pc["Main"] = "wake" /\ at["Main"] = 4 /\ Goto("Main", "join")
    /\ UNCHANGED <<slotVars, lockVars, flagVars, at, back, linkVars, peerVars, clientVars>>

QuitArrives ==
    /\ pc["SignalHandler"] = "wait" /\ pc["Main"] = "join" /\ at["Main"] = 4
    /\ Goto("SignalHandler", "ended")
    /\ UNCHANGED <<slotVars, lockVars, flagVars, at, back, linkVars, peerVars, clientVars>>

JoinThread ==
    /\ pc["Main"] = "join" /\ pc[Ending(at["Main"])] = "ended"
    /\ IF at["Main"] < 4
       THEN Goto("Main", "wake") /\ AtSlot("Main", at["Main"] + 1) /\ UNCHANGED exited
       ELSE Exit("orderly") /\ UNCHANGED at
    /\ UNCHANGED <<slotVars, lockVars, eventfd, OrderlyShutdown, back, linkVars, peerVars,
                   clientVars>>

\* PTHREAD_MUTEX_LOCK of a destroyed mutex: EINVAL, SysExit.
LocksDestroyed(t) ==
    \/ pc[t] = "lock" /\ mutex[at[t]] = "destroyed"
    \/ \E m \in {"timer", "db", "bank"} :
          /\ \/ pc[t] = "swp" /\ (t = Waiter(m) \/ (t = "DbRecv" /\ m = "bank"))
             \/ t = "Main" /\ m = "timer" /\ pc[t] = "swpTimer"
          /\ condMutex[m] \in {"none", t}
          /\ \E i \in ScanLocks(m) : mutex[i] = "destroyed"

LockDestroyed(t) ==
    /\ LocksDestroyed(t)
    /\ Exit("SysExit")
    /\ UNCHANGED <<slotVars, lockVars, eventfd, OrderlyShutdown, at, back, linkVars,
                   peerVars, clientVars>>
-----------------------------------------------------------------------------
(***************************************************************************)
(* The world around: clients (myclient.c), time, the two peers.            *)
(***************************************************************************)

serverVars == <<slotVars, lockVars, flagVars, threadVars, linkVars>>

ClientRequest(c, k) ==
    /\ exited = "no"
    /\ phase[c] = "ready" /\ k \in Requests
    /\ phase' = [phase EXCEPT ![c] = "waiting"] /\ inbox' = [inbox EXCEPT ![c] = k]
    /\ UNCHANGED <<serverVars, peerVars, got>>

\* After a response: the completion message, or another control command.
ClientContinues(c) ==
    /\ exited = "no"
    /\ phase[c] = "answered"
    /\ \/ /\ got[c].kind = "Bank"
          /\ phase' = [phase EXCEPT ![c] = "done"] /\ inbox' = [inbox EXCEPT ![c] = "Done"]
       \/ /\ got[c].kind = "Cmd"
          /\ phase' = [phase EXCEPT ![c] = "waiting"] /\ inbox' = [inbox EXCEPT ![c] = "Ctrl"]
    /\ UNCHANGED <<serverVars, peerVars, got>>

\* A client hangs up on an error, at the end of a control session, or any time.
ClientHangup(c) ==
    /\ exited = "no"
    /\ \/ phase[c] = "answered" /\ got[c].kind # "Bank"
       \/ phase[c] \in {"ready", "waiting", "answered", "done"} /\ MayDrop
    /\ phase' = [phase EXCEPT ![c] = "gone"]
    /\ UNCHANGED <<serverVars, peerVars, inbox, got>>

TimePasses(i) ==
    /\ exited = "no"
    /\ Timed /\ Live(i) /\ ClientInfo[i].activityTime = "recent"
    /\ ClientInfo' = [ClientInfo EXCEPT ![i].activityTime = "old"]
    /\ UNCHANGED <<MainPoll, owner, lockVars, flagVars, threadVars, linkVars, peerVars, clientVars>>

\* A peer's process ends, its connection breaks; dbserver counts from zero again.
PeerDown(p) ==
    /\ exited = "no"
    /\ up[p] /\ downs < MaxDown
    /\ up' = [up EXCEPT ![p] = FALSE] /\ downs' = downs + 1
    /\ link' = [link EXCEPT ![p] = IF @ = "up" THEN "broken" ELSE @]
    /\ msgs' = [msgs EXCEPT ![p] = {}]
    /\ nextAudit' = IF p = "db" THEN NoAudit ELSE nextAudit
    /\ UNCHANGED <<slotVars, lockVars, flagVars, threadVars, status, reply, issued, charged,
                   clientVars>>

PeerUp(p) ==
    /\ exited = "no"
    /\ ~up[p] /\ up' = [up EXCEPT ![p] = TRUE]
    /\ UNCHANGED <<serverVars, downs, msgs, nextAudit, issued, charged, clientVars>>

\* The process ended, or every thread waits where it may: Main in poll(), the
\* Timer for a client or, between two passes, for time to pass.
AtRest ==
    /\ \/ exited # "no"
       \/ /\ pc["Main"] = "poll" /\ ~eventfd /\ \A i \in Slots : ~Readable(i) /\ ~Writable(i)
          /\ pc["Timer"] \in {"condwait", "wait"} /\ pc["SignalHandler"] = "wait"
          /\ \A p \in Peers : /\ pc[Sender(p)] \in {"condwait", "connect"}
                              /\ pc[Receiver(p)] \in {"recv", "none", "ended"}
    /\ UNCHANGED vars
-----------------------------------------------------------------------------
RecvStep(i) ==
    \/ RecvHangup(i) \/ RecvOverLimit(i) \/ RecvControl(i) \/ RecvInvalid(i)
    \/ RecvCompletion(i) \/ RecvBankRequest(i)

\* What Main does once it has something to do, up to the next poll().
MainGoesOn ==
    \/ CountUsers \/ DisconnectClients \/ CloseClient \/ MainSetsWorkPending
    \/ LeaveLoop \/ CloseAll \/ WakeThread \/ KillHandler \/ JoinThread

MainStep ==
    \/ MainGoesOn \/ ReadEvent
    \/ \E i \in Slots : BlockOnClient(i) \/ RecvStep(i) \/ SendResponse(i)

ServerStep ==
    \/ MainStep \/ TimerStep \/ TermAccepted \/ QuitArrives
    \/ \E p \in Peers : SenderStep(p) \/ ReceiverStep(p)
    \/ \E t \in Threads : LockDestroyed(t)

Environment ==
    \/ \E c \in Conns : \/ AcceptClient(c) \/ ClientContinues(c) \/ ClientHangup(c)
                        \/ \E k \in {"Bank", "Ctrl", "Bad"} : ClientRequest(c, k)
    \/ \E i \in Slots : TimePasses(i)
    \/ \E p \in Peers : PeerDown(p) \/ PeerUp(p)
    \/ TermArrives \/ IntArrives

Next == ServerStep \/ Environment \/ AtRest

Spec == Init /\ [][Next]_vars

\* Every thread that can go on does; poll() reports every ready descriptor and the
\* loop after it serves them all, so no slot is passed over for ever; time passes.
Fairness ==
    /\ WF_vars(MainGoesOn \/ LockDestroyed("Main")) /\ SF_vars(ReadEvent)
    /\ \A i \in 1..NSlots : SF_vars((RecvStep(i) \/ SendResponse(i)))
    /\ WF_vars(TimerStep \/ LockDestroyed("Timer")) /\ WF_vars(TermAccepted \/ QuitArrives)
    /\ \A p \in Peers : /\ WF_vars(SenderStep(p) \/ LockDestroyed(Sender(p)))
                        /\ WF_vars(ReceiverStep(p) \/ LockDestroyed(Receiver(p)))
    /\ \A i \in 1..NSlots : WF_vars(TimePasses(i))

FairSpec == Spec /\ Fairness
=============================================================================
