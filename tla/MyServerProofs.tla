--------------------------- MODULE MyServerProofs ---------------------------
(***************************************************************************)
(* Proofs about the payment server for every number of slots, clients and  *)
(* descriptors and every choice of the other constants: type correctness,  *)
(* mutual exclusion on the slots' mutexes, at most one control session.    *)
(*                                                                         *)
(* The inductive invariant IInv has three parts.  LockInv speaks of the    *)
(* threads and the mutexes only and is inductive alone.  TypeOK needs it:  *)
(* a thread in a critical section is at a slot.  SessionInv needs TypeOK.  *)
(***************************************************************************)
EXTENDS MyServerProps, TLAPS

\* The places a thread may be at, so that the range Places stays folded below.
LEMMA PlacesFacts ==
    /\ 0 \in Places /\ 1 \in Places /\ Slots \subseteq Places
    /\ \A n \in Places : n < 4 => n + 1 \in Places
BY ConstAssumption DEF ConstAssumption, Places, Slots

\* The threads of a peer and of a condition, so that the names stay folded below.
LEMMA Names ==
    /\ \A p \in Peers : Sender(p) \in {"DbSend", "BankSend"} /\ Receiver(p) \in {"DbRecv", "BankRecv"}
    /\ \A m \in {"timer", "db", "bank"} : Waiter(m) \in {"Timer", "DbSend", "BankSend"}
BY DEF Peers, Sender, Receiver, Waiter
-----------------------------------------------------------------------------
(***************************************************************************)
(* Locks.                                                                  *)
(***************************************************************************)

LEMMA LockInit == Init => LockInv
<1> SUFFICES ASSUME Init PROVE LockInv
  OBVIOUS
<1>1. LocksOK
  BY DEF Init, LocksOK
<1>2. \A t \in Threads : pc[t] \in {"poll", "wait", "condwait", "connect", "recv", "none"}
  BY DEF Init, Threads
<1>3. pc \in [Threads -> Labels]
  <2>1. DOMAIN pc = Threads /\ pc = [t \in Threads |-> pc[t]]
    BY DEF Init
  <2> QED
    BY <1>2, <2>1 DEF Labels
<1>4. ThreadsOK
  BY <1>3, PlacesFacts DEF Init, ThreadsOK
<1> QED
  BY <1>1, <1>2, <1>4 DEF LockInv, MutexHeld, LockAtSlot, Critical

\* What set...WorkPending does to the threads: its caller t goes on or waits, and
\* the thread that waits on m may wake.
PcAfterWorkPending(t, m, next) ==
    \/ pc' = pc
    \/ pc' = [pc EXCEPT ![t] = next]
    \/ pc' = [pc EXCEPT ![t] = "condwait"]
    \/ pc' = [pc EXCEPT ![t] = next, ![Waiter(m)] = "wait"]
    \/ pc' = [pc EXCEPT ![t] = next, ![Waiter(m)] = @]

LEMMA SetWorkPendingMoves ==
    ASSUME NEW t, NEW m, NEW s, NEW next, SetWorkPending(t, m, s, next)
    PROVE  PcAfterWorkPending(t, m, next)
<1>1. CASE t = Waiter(m)
  BY <1>1 DEF SetWorkPending, PcAfterWorkPending
<1>2. CASE t # Waiter(m)
  BY <1>2 DEF SetWorkPending, PcAfterWorkPending
<1> QED
  BY <1>1, <1>2

\* set...WorkPending, whoever calls it.
LEMMA SetWorkPendingKeeps ==
    ASSUME LockInv, NEW t \in Threads, NEW m \in {"timer", "db", "bank"}, NEW s,
           NEW next \in Labels \ (Critical \cup {"lock"}), SetWorkPending(t, m, s, next)
    PROVE  LockInv'
<1>1. LocksOK'
  <2> DEFINE pending == \E i \in Slots : Pending(m, i)
  <2>1. \/ workPending' = workPending
        \/ workPending' = [workPending EXCEPT ![m] = pending]
    BY DEF SetWorkPending
  <2>2. pending \in BOOLEAN
    OBVIOUS
  <2> HIDE DEF pending
  <2>3. workPending' \in [{"timer", "db", "bank"} -> BOOLEAN]
    BY <2>1, <2>2 DEF LockInv, LocksOK
  <2>4. /\ mutex' = mutex
        /\ \/ condMutex' = [condMutex EXCEPT ![m] = "none"]
           \/ condMutex' = [condMutex EXCEPT ![m] = t]
    BY DEF SetWorkPending
  <2>5. condMutex' \in [{"timer", "db", "bank"} -> Threads \cup {"none"}]
    BY <2>4 DEF LockInv, LocksOK
  <2> QED
    BY <2>3, <2>4, <2>5 DEF LockInv, LocksOK
<1>2. PcAfterWorkPending(t, m, next)
  BY SetWorkPendingMoves
<1>3. pc' \in [Threads -> Labels]
  BY <1>2, Names DEF PcAfterWorkPending, LockInv, ThreadsOK, Labels, Threads
<1>4. ThreadsOK'
  BY <1>3 DEF LockInv, ThreadsOK, SetWorkPending, flagVars
<1>5. \A u \in Threads : pc'[u] \in Critical \cup {"lock"} => pc[u] = pc'[u]
  <2>1. "wait" \notin Critical \cup {"lock"} /\ "condwait" \notin Critical \cup {"lock"}
    BY DEF Critical
  <2>2. Waiter(m) \in Threads /\ pc \in [Threads -> Labels]
    BY Names DEF LockInv, ThreadsOK, Threads
  <2> QED
    BY <1>2, <2>1, <2>2 DEF PcAfterWorkPending
<1>6. UNCHANGED <<mutex, at>>
  BY DEF SetWorkPending
<1>7. MutexHeld' /\ LockAtSlot'
  BY <1>5, <1>6 DEF LockInv, MutexHeld, LockAtSlot, HoldsMutex
<1> QED
  BY <1>1, <1>4, <1>7 DEF LockInv

\* The lock-and-check of the Timer, the sending and the receiving threads.
LEMMA LockAndCheckKeeps ==
    ASSUME LockInv, NEW t \in Threads, NEW ok \in BOOLEAN, NEW then \in Critical,
           NEW else \in Labels \ (Critical \cup {"lock"}), LockAndCheck(t, ok, then, else)
    PROVE  LockInv'
<1>1. LocksOK'
  BY DEF LockInv, LocksOK, LockAndCheck
<1>2. ThreadsOK'
  BY PlacesFacts DEF LockInv, ThreadsOK, LockAndCheck, flagVars, Goto, AtSlot, Labels, Critical
<1> DEFINE i == at[t]
<1>3. i \in Slots /\ mutex[i] = "none"
  BY DEF LockInv, LockAtSlot, LockAndCheck, Unlocked
<1>4. /\ pc \in [Threads -> Labels] /\ at \in [Threads -> Places]
      /\ mutex \in [Slots -> Threads \cup {"none", "destroyed"}]
      /\ "none" \notin Threads
  BY DEF LockInv, LocksOK, ThreadsOK, Threads
<1>5. CASE ok
  <2>1. /\ pc' = [pc EXCEPT ![t] = then] /\ at' = at
        /\ mutex' = [mutex EXCEPT ![i] = t]
    BY <1>4, <1>5 DEF LockAndCheck, Goto, AtSlot
  <2>2. LockAtSlot'
    BY <1>4, <2>1, "lock" \notin Critical DEF LockInv, LockAtSlot, Critical
  <2>3. MutexHeld'
    BY <1>3, <1>4, <2>1 DEF LockInv, MutexHeld, HoldsMutex
  <2> QED
    BY <1>1, <1>2, <2>2, <2>3 DEF LockInv
<1>6. CASE ~ok
  <2>1. /\ pc' = [pc EXCEPT ![t] = else] /\ \E n : at' = [at EXCEPT ![t] = n]
        /\ mutex' = mutex
    BY <1>6 DEF LockAndCheck, Goto, AtSlot
  <2>2. LockAtSlot' /\ MutexHeld'
    BY <1>4, <2>1 DEF LockInv, LockAtSlot, MutexHeld, HoldsMutex
  <2> QED
    BY <1>1, <1>2, <2>2 DEF LockInv
<1> QED
  BY <1>5, <1>6

\* The process ends.
LEMMA ExitKeeps ==
    ASSUME LockInv, NEW how \in {"SysExit", "crash", "INT", "orderly"}, Exit(how),
           UNCHANGED <<lockVars, eventfd, OrderlyShutdown, at>>,
           back' \in {"poll", "discon", "closeAll"}
    PROVE  LockInv'
BY DEF LockInv, LocksOK, ThreadsOK, MutexHeld, LockAtSlot, Exit, lockVars, Labels, Critical

\* Thread t moves to a label outside the critical sections.
LEMMA GotoKeeps ==
    ASSUME LockInv, NEW t \in Threads, NEW l \in Labels \ (Critical \cup {"lock"}), Goto(t, l),
           UNCHANGED <<lockVars, exited>>, eventfd' \in BOOLEAN, OrderlyShutdown' \in BOOLEAN,
           back' \in {"poll", "discon", "closeAll"},
           UNCHANGED at \/ \E i \in Places : AtSlot(t, i)
    PROVE  LockInv'
<1>1. LocksOK'
  BY DEF LockInv, LocksOK, lockVars
<1>2. ThreadsOK'
  BY DEF LockInv, ThreadsOK, Goto, AtSlot
<1>3. MutexHeld' /\ LockAtSlot'
  BY DEF LockInv, LocksOK, ThreadsOK, MutexHeld, LockAtSlot, HoldsMutex, Goto, AtSlot, lockVars
<1> QED
  BY <1>1, <1>2, <1>3 DEF LockInv

\* Thread t has found slot i and goes on to lock it.
LEMMA EnterLockKeeps ==
    ASSUME LockInv, NEW t \in Threads, NEW i \in Slots, Goto(t, "lock"), AtSlot(t, i),
           UNCHANGED <<lockVars, flagVars, back>>
    PROVE  LockInv'
<1>1. LocksOK'
  BY DEF LockInv, LocksOK, lockVars
<1>2. ThreadsOK'
  BY PlacesFacts DEF LockInv, ThreadsOK, Goto, AtSlot, flagVars, Labels
<1>3. MutexHeld' /\ LockAtSlot'
  BY DEF LockInv, ThreadsOK, MutexHeld, LockAtSlot, HoldsMutex, Goto, AtSlot, lockVars, Critical
<1> QED
  BY <1>1, <1>2, <1>3 DEF LockInv

\* Thread t unlocks its slot.
LEMMA LeaveKeeps ==
    ASSUME LockInv, NEW t \in Threads, pc[t] \in Critical,
           NEW l \in Labels \ (Critical \cup {"lock"}), Goto(t, l),
           mutex' = [mutex EXCEPT ![at[t]] = "none"],
           UNCHANGED <<condMutex, workPending, OrderlyShutdown, exited, back>>, eventfd' \in BOOLEAN,
           UNCHANGED at \/ \E i \in Places : AtSlot(t, i)
    PROVE  LockInv'
<1>1. LocksOK'
  BY DEF LockInv, LocksOK
<1>2. ThreadsOK'
  BY DEF LockInv, ThreadsOK, Goto, AtSlot
<1>3. \A u \in Threads : u # t /\ pc[u] \in Critical => at[u] # at[t]
  BY DEF LockInv, MutexHeld, HoldsMutex
<1>4. MutexHeld' /\ LockAtSlot'
  BY <1>3 DEF LockInv, LocksOK, ThreadsOK, MutexHeld, LockAtSlot, HoldsMutex, Goto, AtSlot
<1> QED
  BY <1>1, <1>2, <1>4 DEF LockInv

\* Thread t moves and wakes, or starts, thread u.
LEMMA TwoMoveKeeps ==
    ASSUME LockInv, NEW t \in Threads, NEW u \in Threads,
           NEW l \in Labels \ (Critical \cup {"lock"}), NEW k \in Labels \ (Critical \cup {"lock"}),
           \/ pc' = [pc EXCEPT ![t] = l, ![u] = k]
           \/ pc' = [pc EXCEPT ![t] = l, ![u] = @],
           UNCHANGED <<lockVars, flagVars, at, back>>
    PROVE  LockInv'
<1>1. LocksOK'
  BY DEF LockInv, LocksOK, lockVars
<1>2. ThreadsOK'
  BY DEF LockInv, ThreadsOK, flagVars
<1>3. MutexHeld' /\ LockAtSlot'
  BY DEF LockInv, ThreadsOK, MutexHeld, LockAtSlot, HoldsMutex, lockVars
<1> QED
  BY <1>1, <1>2, <1>3 DEF LockInv

\* A step of the world around.
LEMMA ElsewhereKeeps == LockInv /\ UNCHANGED <<lockVars, flagVars, threadVars>> => LockInv'
BY DEF LockInv, LocksOK, ThreadsOK, MutexHeld, LockAtSlot, HoldsMutex, lockVars, flagVars, threadVars

LEMMA Typing ==
    LockInv => /\ pc \in [Threads -> Labels] /\ at \in [Threads -> Places]
               /\ back \in {"poll", "discon", "closeAll"}
               /\ eventfd \in BOOLEAN /\ OrderlyShutdown \in BOOLEAN
BY DEF LockInv, ThreadsOK

LEMMA MainLockStep ==
    ASSUME LockInv, MainStep \/ \E c \in Conns : AcceptClient(c)
    PROVE  LockInv'
<1> USE DEF Goto, AtSlot
<1>0. "Main" \in Threads
  BY DEF Threads
<1>1. ASSUME NEW c \in Conns, AcceptClient(c) PROVE LockInv'
  <2>1. \E i \in Places : AtSlot("Main", i)
    BY <1>1, PlacesFacts DEF AcceptClient
  <2> QED
    BY <1>0, <1>1, <2>1, Typing, GotoKeeps DEF AcceptClient, flagVars, Labels, Critical
<1>2. CASE CountUsers
  BY <1>0, <1>2, Typing, GotoKeeps, PlacesFacts DEF CountUsers, flagVars, Labels, Critical
<1>3. CASE DisconnectClients
  BY <1>0, <1>3, Typing, GotoKeeps, PlacesFacts DEF DisconnectClients, DisconnectNext, IsFirst, Labels, Critical
<1>4. CASE ReadEvent
  <2>1. eventfd' \in BOOLEAN
    BY <1>4 DEF ReadEvent
  <2> QED
    BY <1>0, <1>4, <2>1, Typing, GotoKeeps, PlacesFacts
       DEF ReadEvent, DisconnectNext, IsFirst, Labels, Critical
<1>5. CASE CloseClient
  BY <1>0, <1>5, Typing, GotoKeeps, PlacesFacts DEF CloseClient, flagVars, Labels, Critical
<1>6. CASE MainSetsWorkPending
  <2>1. {"poll", "discon", "closeAll"} \subseteq Labels \ (Critical \cup {"lock"})
    BY DEF Labels, Critical
  <2> QED
    BY <1>0, <1>6, <2>1, Typing, SetWorkPendingKeeps DEF MainSetsWorkPending
<1>7. CASE LeaveLoop
  <2>1. CASE \A i \in Slots : mutex[i] = "none"
    <3>1. LocksOK'
      BY <1>7, <2>1 DEF LeaveLoop, LockInv, LocksOK
    <3>2. ThreadsOK'
      BY <1>7, <2>1, PlacesFacts DEF LeaveLoop, LockInv, ThreadsOK, Labels
    <3>3. \A t \in Threads : pc[t] \notin Critical
      BY <1>0, <2>1 DEF LockInv, MutexHeld, HoldsMutex, Threads
    <3>4. MutexHeld' /\ LockAtSlot'
      BY <1>0, <1>7, <2>1, <3>3, Typing DEF LeaveLoop, LockInv, MutexHeld, LockAtSlot, Critical, HoldsMutex
    <3> QED
      BY <3>1, <3>2, <3>4 DEF LockInv
  <2>2. CASE ~ \A i \in Slots : mutex[i] = "none"
    <3>1. Exit("SysExit") /\ back' = "closeAll"
          /\ UNCHANGED <<lockVars, eventfd, OrderlyShutdown, at>>
      BY <1>7, <2>2 DEF LeaveLoop, lockVars
    <3> QED
      BY <3>1, ExitKeeps
  <2> QED
    BY <2>1, <2>2
<1>8. CASE CloseAll
  BY <1>0, <1>8, Typing, GotoKeeps, PlacesFacts DEF CloseAll, IsFirst, flagVars, Labels, Critical
<1>9. CASE WakeThread
  <2> DEFINE u == Waiter(EndOrder[at["Main"]])
  <2>1. \/ pc' = [pc EXCEPT !["Main"] = "join", ![u] = "wait"]
        \/ pc' = [pc EXCEPT !["Main"] = "join", ![u] = @]
    BY <1>9 DEF WakeThread
  <2>2. u \in {"Timer", "DbSend", "BankSend"}
    BY DEF Waiter, Sender
  <2>3. u \in Threads /\ {"join", "wait"} \subseteq Labels \ (Critical \cup {"lock"})
    BY <2>2 DEF Threads, Labels, Critical
  <2> HIDE DEF u
  <2> QED
    BY <1>0, <1>9, <2>1, <2>3, TwoMoveKeeps DEF WakeThread
<1>10. CASE JoinThread
  <2>1. CASE at["Main"] < 4
    <3>1. at["Main"] + 1 \in Places
      BY <1>0, <2>1, Typing, PlacesFacts
    <3> QED
      BY <1>0, <1>10, <2>1, <3>1, Typing, GotoKeeps DEF JoinThread, Labels, Critical
  <2>2. CASE ~(at["Main"] < 4)
    BY <1>10, <2>2, Typing, ExitKeeps DEF JoinThread
  <2> QED
    BY <2>1, <2>2
<1>11. ASSUME NEW i \in Slots, BlockOnClient(i) PROVE LockInv'
  BY <1>0, <1>11, Typing, GotoKeeps, PlacesFacts DEF BlockOnClient, flagVars, Labels, Critical
<1>12. ASSUME NEW i \in Slots, RecvStep(i) PROVE LockInv'
  <2>1. /\ UNCHANGED <<lockVars, OrderlyShutdown, exited, back>> /\ eventfd' \in BOOLEAN
        /\ \E l \in {"poll", "close", "swpDb"}, j \in {0, i} : Goto("Main", l) /\ AtSlot("Main", j)
    BY <1>12, Typing DEF RecvStep, RecvHangup, RecvOverLimit, RecvControl, RecvInvalid, RecvCompletion,
                         RecvBankRequest, Receives, Respond, SetClientDisconnect
  <2> QED
    BY <1>0, <2>1, Typing, GotoKeeps, PlacesFacts DEF Labels, Critical
<1>13. ASSUME NEW i \in Slots, SendResponse(i) PROVE LockInv'
  BY <1>0, <1>13, Typing, GotoKeeps, PlacesFacts DEF SendResponse, flagVars, Labels, Critical
<1>14. CASE KillHandler
  BY <1>0, <1>14, Typing, GotoKeeps DEF KillHandler, flagVars, Labels, Critical
<1> QED
  BY <1>1, <1>2, <1>3, <1>4, <1>5, <1>6, <1>7, <1>8, <1>9, <1>10, <1>11, <1>12, <1>13, <1>14
     DEF MainStep, MainGoesOn

LEMMA TimerLockStep == ASSUME LockInv, TimerStep PROVE LockInv'
<1> USE DEF Goto, AtSlot
<1>0. "Timer" \in Threads
  BY DEF Threads
<1>1. CASE TimerWait
  BY <1>0, <1>1, Typing, GotoKeeps DEF TimerWait, flagVars, Labels, Critical
<1>2. ASSUME NEW n, TimerScanFrom(n) PROVE LockInv'
  <2>1. CASE Goto("Timer", "swp") /\ AtSlot("Timer", 0)
    BY <1>0, <1>2, <2>1, Typing, GotoKeeps, PlacesFacts DEF TimerScanFrom, flagVars, Labels, Critical
  <2>2. ASSUME NEW j \in Slots, Goto("Timer", "lock") /\ AtSlot("Timer", j) PROVE LockInv'
    BY <1>0, <1>2, <2>2, EnterLockKeeps DEF TimerScanFrom
  <2> QED
    BY <1>2, <2>1, <2>2 DEF TimerScanFrom
<1>3. CASE TimerPass \/ TimerScan
  BY <1>2, <1>3 DEF TimerPass, TimerScan
<1>4. CASE TimerLock
  BY <1>0, <1>4, LockAndCheckKeeps DEF TimerLock, Live, Labels, Critical
<1>5. CASE TimerMark
  <2>1. eventfd' \in BOOLEAN
    BY <1>5 DEF TimerMark, SetClientDisconnect
  <2> QED
    BY <1>0, <1>5, <2>1, LeaveKeeps DEF TimerMark, Labels, Critical
<1>6. CASE TimerSetsWorkPending
  BY <1>0, <1>6, SetWorkPendingKeeps DEF TimerSetsWorkPending, Labels, Critical
<1> QED
  BY <1>1, <1>3, <1>4, <1>5, <1>6 DEF TimerStep

LEMMA SenderLockStep == ASSUME LockInv, NEW p \in Peers, SenderStep(p) PROVE LockInv'
<1> USE DEF Goto, AtSlot
<1> DEFINE t == Sender(p) r == Receiver(p)
<1>0. t \in Threads /\ r \in Threads /\ p \in {"timer", "db", "bank"}
  BY Names DEF Threads, Peers
<1>a. AfterSend(p) \in Labels \ (Critical \cup {"lock"})
  BY DEF AfterSend, Labels, Critical
<1> HIDE DEF t, r
<1>1. CASE Connect(p)
  <2>1. CASE OrderlyShutdown
    <3>1. Goto(t, "join")
      BY <1>1, <2>1 DEF Connect, t
    <3> QED
      BY <1>0, <1>1, <3>1, Typing, GotoKeeps DEF Connect, flagVars, Labels, Critical
  <2>2. CASE ~OrderlyShutdown
    <3>1. pc' = [pc EXCEPT ![t] = "swp", ![r] = "recv"]
      BY <1>1, <2>2 DEF Connect, t, r
    <3>2. {"swp", "recv"} \subseteq Labels \ (Critical \cup {"lock"})
      BY DEF Labels, Critical
    <3>3. UNCHANGED <<lockVars, flagVars, at, back>>
      BY <1>1 DEF Connect
    <3> QED
      BY <1>0, <3>1, <3>2, <3>3, TwoMoveKeeps
  <2> QED
    BY <2>1, <2>2
<1>2. CASE SenderSetsWorkPending(p)
  BY <1>0, <1>2, SetWorkPendingKeeps DEF SenderSetsWorkPending, Labels, Critical, t
<1>3. CASE SenderWait(p)
  <2>1. /\ \E l \in {"join", "down", "scan", "condwait"} : Goto(t, l)
        /\ UNCHANGED <<lockVars, flagVars, at, back>>
    BY <1>3 DEF SenderWait, t
  <2> QED
    BY <1>0, <2>1, Typing, GotoKeeps DEF flagVars, Labels, Critical
<1>4. CASE SenderScan(p)
  <2>1. CASE Goto(t, AfterSend(p)) /\ AtSlot(t, 0) /\ UNCHANGED mutex
    BY <1>0, <1>4, <1>a, <2>1, Typing, GotoKeeps, PlacesFacts DEF SenderScan, lockVars, flagVars
  <2>2. ASSUME NEW i \in Slots, Goto(t, "lock") /\ AtSlot(t, i) /\ UNCHANGED mutex PROVE LockInv'
    BY <1>0, <1>4, <2>2, EnterLockKeeps DEF SenderScan, lockVars
  <2>3. ASSUME NEW i \in Slots, Unlocked(i), AtSlot(t, i), Goto(t, "send"),
               mutex' = [mutex EXCEPT ![i] = t]
        PROVE  LockInv'
    <3>1. LocksOK'
      BY <1>0, <1>4, <2>3 DEF SenderScan, LockInv, LocksOK
    <3>2. ThreadsOK'
      BY <1>0, <1>4, <2>3, PlacesFacts DEF SenderScan, LockInv, ThreadsOK, flagVars, Labels
    <3>3. "none" \notin Threads /\ mutex \in [Slots -> Threads \cup {"none", "destroyed"}]
      BY DEF Threads, LockInv, LocksOK
    <3>4. MutexHeld'
      <4>1. \A u \in Threads : u # t /\ pc[u] \in Critical => at[u] # i /\ HoldsMutex(u)
        BY <2>3, <3>3 DEF LockInv, MutexHeld, HoldsMutex, Unlocked
      <4> QED
        BY <1>0, <2>3, <3>3, <4>1, Typing DEF MutexHeld, HoldsMutex
    <3>5. LockAtSlot'
      BY <1>0, <2>3, Typing DEF LockInv, LockAtSlot
    <3> QED
      BY <3>1, <3>2, <3>4, <3>5 DEF LockInv
  <2> QED
    BY <1>4, <2>1, <2>2, <2>3 DEF SenderScan, t
<1>5. CASE SenderLock(p)
  <2>1. Pending(p, at[t]) \in BOOLEAN /\ "send" \in Critical
    BY DEF Pending, Critical
  <2> QED
    BY <1>0, <1>5, <1>a, <2>1, LockAndCheckKeeps DEF SenderLock, t
<1>6. CASE SendMsg(p)
  <2>1. pc[t] = "send" /\ Goto(t, "sent") /\ UNCHANGED <<lockVars, flagVars, at, back>>
    BY <1>6 DEF SendMsg, t
  <2>2. LocksOK' /\ ThreadsOK'
    BY <2>1 DEF LockInv, LocksOK, ThreadsOK, lockVars, flagVars, Labels
  <2>3. MutexHeld' /\ LockAtSlot'
    BY <1>0, <2>1, Typing DEF LockInv, MutexHeld, LockAtSlot, HoldsMutex, lockVars, Critical
  <2> QED
    BY <2>2, <2>3 DEF LockInv
<1>7. CASE SendReset(p)
  BY <1>0, <1>7, Typing, GotoKeeps, PlacesFacts DEF SendReset, flagVars, Labels, Critical, t
<1>8. CASE SendFails(p)
  BY <1>8, Typing, ExitKeeps DEF SendFails
<1>9. CASE Sent(p)
  BY <1>0, <1>9, <1>a, Typing, LeaveKeeps, PlacesFacts DEF Sent, flagVars, Critical, t
<1>10. CASE SenderDown(p)
  BY <1>0, <1>10, Typing, GotoKeeps DEF SenderDown, flagVars, Labels, Critical, t
<1>11. CASE SenderShutdown(p)
  <2>1. CASE Goto(t, "joining") /\ UNCHANGED exited
    BY <1>0, <1>11, <2>1, Typing, GotoKeeps DEF SenderShutdown, Labels, Critical
  <2>2. CASE Exit("crash")
    BY <1>11, <2>2, Typing, ExitKeeps DEF SenderShutdown
  <2> QED
    BY <1>11, <2>1, <2>2 DEF SenderShutdown, t
<1>12. CASE SenderJoin(p)
  BY <1>0, <1>12, Typing, GotoKeeps DEF SenderJoin, flagVars, Labels, Critical, t
<1> QED
  BY <1>1, <1>2, <1>3, <1>4, <1>5, <1>6, <1>7, <1>8, <1>9, <1>10, <1>11, <1>12 DEF SenderStep

LEMMA ReceiverLockStep == ASSUME LockInv, NEW p \in Peers, ReceiverStep(p) PROVE LockInv'
<1> USE DEF Goto, AtSlot
<1> DEFINE t == Receiver(p)
<1>0. t \in Threads /\ "DbRecv" \in Threads /\ "BankRecv" \in Threads
  BY Names DEF Threads
<1>a. AfterRecv(p) \in Labels \ (Critical \cup {"lock"})
  BY DEF AfterRecv, Labels, Critical
<1> HIDE DEF t
<1>1. CASE Receive(p)
  <2>1. CASE Goto(t, AfterRecv(p)) /\ UNCHANGED at
    BY <1>0, <1>1, <1>a, <2>1, Typing, GotoKeeps DEF Receive, flagVars
  <2>2. ASSUME NEW i \in Slots, Goto(t, "lock"), AtSlot(t, i) PROVE LockInv'
    BY <1>0, <1>1, <2>2, EnterLockKeeps DEF Receive
  <2> QED
    BY <1>1, <2>1, <2>2 DEF Receive, t
<1>2. CASE ReceiverLock(p)
  BY <1>0, <1>2, <1>a, LockAndCheckKeeps DEF ReceiverLock, Live, Critical, t
<1>3. CASE StoreAudit
  BY <1>0, <1>3, Typing, LeaveKeeps, PlacesFacts DEF StoreAudit, flagVars, Labels, Critical
<1>4. CASE StoreVerdict
  <2>1. eventfd' \in BOOLEAN
    BY <1>4 DEF StoreVerdict, Respond
  <2> QED
    BY <1>0, <1>4, <2>1, LeaveKeeps, PlacesFacts DEF StoreVerdict, Labels, Critical
<1>5. CASE DbReceiverSetsWorkPending
  BY <1>0, <1>5, SetWorkPendingKeeps DEF DbReceiverSetsWorkPending, Labels, Critical
<1>6. CASE ReceiverHangup(p)
  BY <1>0, <1>6, Typing, GotoKeeps DEF ReceiverHangup, flagVars, Labels, Critical, t
<1>7. CASE ReceiverEnds(p)
  <2>1. Sender(p) \in Threads /\ {"ended", "wait"} \subseteq Labels \ (Critical \cup {"lock"})
    BY Names DEF Threads, Labels, Critical
  <2>2. \/ pc' = [pc EXCEPT ![t] = "ended", ![Sender(p)] = "wait"]
        \/ pc' = [pc EXCEPT ![t] = "ended", ![Sender(p)] = @]
    BY <1>7 DEF ReceiverEnds, t
  <2> QED
    BY <1>0, <1>7, <2>1, <2>2, TwoMoveKeeps DEF ReceiverEnds
<1> QED
  BY <1>1, <1>2, <1>3, <1>4, <1>5, <1>6, <1>7 DEF ReceiverStep

LEMMA LockStep == LockInv /\ [Next]_vars => LockInv'
<1> SUFFICES ASSUME LockInv, [Next]_vars PROVE LockInv'
  OBVIOUS
<1>1. CASE ServerStep
  <2>1. CASE TermAccepted
    <3>1. "SignalHandler" \in Threads /\ eventfd' \in BOOLEAN /\ OrderlyShutdown' \in BOOLEAN
      BY <2>1 DEF TermAccepted, Threads
    <3> QED
      BY <2>1, <3>1, Typing, GotoKeeps DEF TermAccepted, Labels, Critical
  <2>2. ASSUME NEW t \in Threads, LockDestroyed(t) PROVE LockInv'
    BY <2>2, Typing, ExitKeeps DEF LockDestroyed
  <2>3. CASE QuitArrives
    <3>1. "SignalHandler" \in Threads
      BY DEF Threads
    <3> QED
      BY <2>3, <3>1, Typing, GotoKeeps DEF QuitArrives, flagVars, Labels, Critical
  <2> QED
    BY <1>1, <2>1, <2>2, <2>3, MainLockStep, TimerLockStep, SenderLockStep, ReceiverLockStep DEF ServerStep
<1>2. CASE Environment
  <2>1. CASE TermArrives
    <3>1. "SignalHandler" \in Threads
      BY DEF Threads
    <3> QED
      BY <2>1, <3>1, Typing, GotoKeeps DEF TermArrives, flagVars, Labels, Critical
  <2>2. CASE IntArrives
    BY <2>2, Typing, ExitKeeps DEF IntArrives
  <2>3. ASSUME NEW c \in Conns, NEW k,
               ClientContinues(c) \/ ClientHangup(c) \/ ClientRequest(c, k)
        PROVE  LockInv'
    BY <2>3, ElsewhereKeeps DEF ClientContinues, ClientHangup, ClientRequest, serverVars
  <2>4. ASSUME NEW i \in Slots, TimePasses(i) PROVE LockInv'
    BY <2>4, ElsewhereKeeps DEF TimePasses
  <2>5. ASSUME NEW p \in Peers, PeerDown(p) \/ PeerUp(p) PROVE LockInv'
    BY <2>5, ElsewhereKeeps DEF PeerDown, PeerUp, serverVars
  <2> QED
    BY <1>2, <2>1, <2>2, <2>3, <2>4, <2>5, MainLockStep DEF Environment
<1>3. CASE AtRest \/ UNCHANGED vars
  BY <1>3, ElsewhereKeeps DEF AtRest, vars
<1> QED
  BY <1>1, <1>2, <1>3 DEF Next

\* No two threads are ever in critical sections of the same slot.
THEOREM MutexSafe == Spec => []MutualExclusion
<1>1. LockInv => MutualExclusion
  BY DEF LockInv, MutexHeld, HoldsMutex, MutualExclusion
<1> QED
  BY <1>1, LockInit, LockStep, PTL DEF Spec
-----------------------------------------------------------------------------
(***************************************************************************)
(* Types.                                                                  *)
(***************************************************************************)

\* The records of the slots stay of their types when the fields the code assigns change.
LEMMA MsgUpdates ==
    /\ BlankMsg \in MsgType
    /\ \A c \in Cards : [BlankMsg EXCEPT !.cc = c] \in MsgType
    /\ \A m \in MsgType :
        /\ \A a \in Nat, s \in Statuses : [m EXCEPT !.audit = a, !.status = s] \in MsgType
        /\ \A v \in Cards, s \in Statuses : [m EXCEPT !.verdict = v, !.status = s] \in MsgType
        /\ \A s \in Statuses : [m EXCEPT !.status = s] \in MsgType
<1>1. BlankMsg \in MsgType
  BY DEF MsgType, BlankMsg, Statuses, Cards, NoAudit
<1> QED
  BY <1>1 DEF MsgType

LEMMA InfoUpdates ==
    \A info \in InfoType :
        /\ info.servermsg \in MsgType /\ info.response \in ResponseType
        /\ \A x \in {"INIT", "AFTER_MSG", "NOW"} : [info EXCEPT !.disconStat = x] \in InfoType
        /\ \A x \in {"zero", "recent", "old"} : [info EXCEPT !.activityTime = x] \in InfoType
        /\ \A x \in {"INIT", "IACTIVE", "BANK"} : [info EXCEPT !.procType = x] \in InfoType
        /\ \A x \in Stages : [info EXCEPT !.procStat = x, !.activityTime = "recent"] \in InfoType
        /\ \A m \in MsgType, x \in Stages :
              [info EXCEPT !.servermsg = m, !.procStat = x, !.activityTime = "recent"] \in InfoType
        /\ \A m \in MsgType :
              [info EXCEPT !.procType = "BANK", !.procStat = "DB_SEND", !.servermsg = m] \in InfoType
        /\ \A m \in MsgType : [info EXCEPT !.servermsg = m] \in InfoType
        /\ \A r \in ResponseType : [info EXCEPT !.response = r] \in InfoType
        /\ \A r \in ResponseType : WithResponse(info, r) \in InfoType
<1>1. "DB_SEND" \in Stages /\ "CT_RESP_SEND" \in Stages
  BY DEF Stages
<1>2. \A info \in InfoType, r \in ResponseType : WithResponse(info, r) \in InfoType
  BY <1>1 DEF InfoType, WithResponse
<1>3. \A info \in InfoType, m \in MsgType :
         [info EXCEPT !.procType = "BANK", !.procStat = "DB_SEND", !.servermsg = m] \in InfoType
  BY <1>1 DEF InfoType
<1> QED
  BY ZenonT(60), <1>1, <1>2, <1>3 DEF InfoType

LEMMA Blanks == FreeInfo \in InfoType /\ NoResponse \in ResponseType /\ FreePoll \in PollType
<1>1. NoResponse \in ResponseType
  BY DEF NoResponse, ResponseType, Cards
<1>2. FreeInfo \in InfoType
  BY <1>1, MsgUpdates DEF FreeInfo, InfoType, Stages
<1> QED
  BY <1>1, <1>2 DEF FreePoll, PollType

LEMMA PollUpdates ==
    \A s \in PollType, x \in {"none", "POLLIN", "toPOLLOUT", "POLLOUT"} :
        [s EXCEPT !.events = x] \in PollType
BY DEF PollType

LEMMA Responses ==
    /\ \A k \in {"MaxUsers", "Invalid", "Cmd"} : [NoResponse EXCEPT !.kind = k] \in ResponseType
    /\ \A c, v \in Cards : [kind |-> "Bank", cc |-> c, verdict |-> v] \in ResponseType
BY DEF NoResponse, ResponseType, Cards

LEMMA SlotParts ==
    ASSUME SlotsOK
    PROVE  /\ \A i \in Slots : ClientInfo[i] \in InfoType /\ MainPoll[i] \in PollType /\ owner[i] \in Cards
           /\ \A i \in Slots, info \in InfoType :
                 [ClientInfo EXCEPT ![i] = info] \in [Slots -> InfoType]
           /\ \A i \in Slots, s \in PollType : [MainPoll EXCEPT ![i] = s] \in [Slots -> PollType]
BY DEF SlotsOK

LEMMA MainSlotStep ==
    ASSUME TypeOK, MainAtSlot, MainStep \/ \E c \in Conns : AcceptClient(c)
    PROVE  SlotsOK'
<1>0. SlotsOK
  BY DEF TypeOK
<1>1. ASSUME NEW c \in Conns, AcceptClient(c) PROVE SlotsOK'
  <2>1. PICK i \in Slots, f \in Fds :
           /\ MainPoll' = [MainPoll EXCEPT ![i] = [fd |-> f, events |-> "POLLIN"]]
           /\ owner' = [owner EXCEPT ![i] = c]
    BY <1>1 DEF AcceptClient
  <2>2. [fd |-> f, events |-> "POLLIN"] \in PollType /\ c \in Cards
    BY DEF PollType, Cards
  <2> QED
    BY <1>0, <1>1, <2>1, <2>2 DEF AcceptClient, SlotsOK
<1>2. CASE CountUsers
  <2> DEFINE i == at["Main"]
  <2>1. i \in Slots
    BY <1>2 DEF CountUsers, MainAtSlot
  <2>2. \E info \in InfoType : ClientInfo' = [ClientInfo EXCEPT ![i] = info]
    <3>1. [ClientInfo[i] EXCEPT !.disconStat = "AFTER_MSG"] \in InfoType
          /\ [ClientInfo[i] EXCEPT !.activityTime = "recent"] \in InfoType
      BY <1>0, <2>1, SlotParts, InfoUpdates
    <3> QED
      BY <1>2, <3>1 DEF CountUsers
  <2> QED
    BY <1>0, <1>2, <2>1, <2>2, SlotParts DEF CountUsers, SlotsOK
<1>3. CASE DisconnectClients
  BY <1>0, <1>3 DEF DisconnectClients, DisconnectNext, SlotsOK
<1>4. CASE ReadEvent
  <2>1. MainPoll' = Polled(MainPoll) /\ UNCHANGED <<ClientInfo, owner>>
    BY <1>4 DEF ReadEvent, DisconnectNext
  <2>2. \A i \in Slots : MainPoll[i] \in PollType /\ [MainPoll[i] EXCEPT !.events = "POLLOUT"] \in PollType
    BY <1>0, SlotParts, PollUpdates
  <2>3. Polled(MainPoll) \in [Slots -> PollType]
    BY <2>2 DEF Polled
  <2> QED
    BY <1>0, <2>1, <2>3 DEF SlotsOK
<1>5. CASE CloseClient
  BY <1>0, <1>5, Blanks DEF CloseClient, SlotsOK, Cards
<1>6. ASSUME NEW i \in Slots, RecvStep(i) PROVE SlotsOK'
  <2>1. ReceivedInfo(i) \in InfoType /\ owner[i] \in Cards
    BY <1>0, SlotParts, InfoUpdates DEF ReceivedInfo, Stages
  <2>2. [MainPoll[i] EXCEPT !.events = "toPOLLOUT"] \in PollType
    BY <1>0, SlotParts, PollUpdates
  <2>3. ASSUME NEW info \in InfoType, Respond(i, info), UNCHANGED owner PROVE SlotsOK'
    BY <1>0, <2>2, <2>3, SlotParts DEF Respond, SlotsOK
  <2>4. ASSUME NEW info \in InfoType, ClientInfo' = [ClientInfo EXCEPT ![i] = info],
               UNCHANGED <<MainPoll, owner>>
        PROVE SlotsOK'
    BY <1>0, <2>4, SlotParts DEF SlotsOK
  <2>5. UNCHANGED owner
    BY <1>6 DEF RecvStep, RecvHangup, RecvOverLimit, RecvControl, RecvInvalid, RecvCompletion,
                RecvBankRequest, Receives
  <2>6. CASE RecvHangup(i)
    BY <1>0, <2>5, <2>6 DEF RecvHangup, SlotsOK
  <2>7. CASE RecvOverLimit(i)
    <3>1. WithResponse(ReceivedInfo(i), [NoResponse EXCEPT !.kind = "MaxUsers"]) \in InfoType
      BY <2>1, InfoUpdates, Responses
    <3> QED
      BY <2>3, <2>5, <2>7, <3>1 DEF RecvOverLimit
  <2>8. CASE RecvControl(i)
    <3>1. WithResponse([ReceivedInfo(i) EXCEPT !.procType = "IACTIVE"],
                       [NoResponse EXCEPT !.kind = "Cmd"]) \in InfoType
      BY <2>1, InfoUpdates, Responses
    <3>2. [ReceivedInfo(i) EXCEPT !.disconStat = "NOW"] \in InfoType
      BY <2>1, InfoUpdates
    <3> QED
      BY <2>3, <2>4, <2>5, <2>8, <3>1, <3>2 DEF RecvControl, SetClientDisconnect
  <2>9. CASE RecvInvalid(i)
    <3>1. WithResponse(ReceivedInfo(i), [NoResponse EXCEPT !.kind = "Invalid"]) \in InfoType
      BY <2>1, InfoUpdates, Responses
    <3>2. [WithResponse(ReceivedInfo(i), [NoResponse EXCEPT !.kind = "Invalid"])
             EXCEPT !.disconStat = "AFTER_MSG"] \in InfoType
      BY <3>1, InfoUpdates
    <3> QED
      BY <2>3, <2>5, <2>9, <3>2 DEF RecvInvalid
  <2>10. CASE RecvCompletion(i)
    <3>1. [ReceivedInfo(i) EXCEPT !.procType = "BANK"] \in InfoType
      BY <2>1, InfoUpdates
    <3> QED
      BY <2>4, <2>5, <2>10, <3>1 DEF RecvCompletion
  <2>11. CASE RecvBankRequest(i)
    <3>1. [BlankMsg EXCEPT !.cc = owner[i]] \in MsgType
      BY <2>1, MsgUpdates
    <3>2. [ReceivedInfo(i) EXCEPT !.procType = "BANK", !.procStat = "DB_SEND",
                                  !.servermsg = [BlankMsg EXCEPT !.cc = owner[i]]] \in InfoType
      BY <2>1, <3>1, InfoUpdates
    <3> QED
      BY <2>4, <2>5, <2>11, <3>2 DEF RecvBankRequest
  <2> QED
    BY <1>6, <2>6, <2>7, <2>8, <2>9, <2>10, <2>11 DEF RecvStep
<1>7. ASSUME NEW i \in Slots, SendResponse(i) PROVE SlotsOK'
  <2>1. [ClientInfo[i] EXCEPT !.response = NoResponse] \in InfoType
    BY <1>0, SlotParts, InfoUpdates, Blanks
  <2>2. [MainPoll[i] EXCEPT !.events = "POLLIN"] \in PollType
    BY <1>0, SlotParts, PollUpdates
  <2> QED
    BY <1>0, <1>7, <2>1, <2>2, SlotParts DEF SendResponse, SlotsOK
<1>8. CASE \/ MainSetsWorkPending \/ LeaveLoop \/ CloseAll \/ WakeThread \/ KillHandler \/ JoinThread
           \/ \E i \in Slots : BlockOnClient(i)
  BY <1>0, <1>8 DEF MainSetsWorkPending, SetWorkPending, LeaveLoop, CloseAll, WakeThread, KillHandler, JoinThread,
                    BlockOnClient, slotVars, SlotsOK
<1> QED
  BY <1>1, <1>2, <1>3, <1>4, <1>5, <1>6, <1>7, <1>8 DEF MainStep, MainGoesOn

\* Who is in a critical section is at a slot.
LEMMA AtSlots ==
    ASSUME LockInv
    PROVE  /\ \A p \in Peers : pc[Sender(p)] \in Critical => at[Sender(p)] \in Slots
           /\ pc["DbRecv"] \in Critical => at["DbRecv"] \in Slots
           /\ pc["BankRecv"] \in Critical => at["BankRecv"] \in Slots
           /\ pc["Timer"] \in Critical => at["Timer"] \in Slots
BY Names DEF LockInv, MutexHeld, HoldsMutex, Threads

LEMMA TimerSlotStep == ASSUME TypeOK, LockInv, TimerStep PROVE SlotsOK'
<1>0. SlotsOK
  BY DEF TypeOK
<1>1. CASE TimerMark
  <2>1. at["Timer"] \in Slots
    BY <1>1, AtSlots DEF TimerMark, Critical
  <2>2. [ClientInfo[at["Timer"]] EXCEPT !.disconStat = "NOW"] \in InfoType
    BY <1>0, <2>1, SlotParts, InfoUpdates
  <2> QED
    BY <1>0, <1>1, <2>1, <2>2, SlotParts DEF TimerMark, SetClientDisconnect, SlotsOK
<1>2. CASE TimerWait \/ TimerPass \/ TimerScan \/ TimerLock \/ TimerSetsWorkPending
  BY <1>0, <1>2 DEF TimerWait, TimerPass, TimerScan, TimerScanFrom, TimerLock, LockAndCheck,
                    TimerSetsWorkPending, SetWorkPending, slotVars, SlotsOK
<1> QED
  BY <1>1, <1>2 DEF TimerStep

LEMMA SenderSlotStep == ASSUME TypeOK, LockInv, NEW p \in Peers, SenderStep(p) PROVE SlotsOK'
<1>0. SlotsOK
  BY DEF TypeOK
<1> DEFINE i == at[Sender(p)]
<1>1. ASSUME pc[Sender(p)] \in Critical, ClientInfo' = WithSentStatus(p, i), UNCHANGED <<MainPoll, owner>>
      PROVE  SlotsOK'
  <2>1. i \in Slots /\ SentStatus(p) \in Statuses
    BY <1>1, AtSlots DEF SentStatus, Statuses
  <2>2. [ClientInfo[i].servermsg EXCEPT !.status = SentStatus(p)] \in MsgType
    BY <1>0, <2>1, SlotParts, InfoUpdates, MsgUpdates
  <2>3. [ClientInfo[i] EXCEPT !.servermsg = [@ EXCEPT !.status = SentStatus(p)]] \in InfoType
    BY <1>0, <2>1, <2>2, SlotParts, InfoUpdates
  <2> QED
    BY <1>0, <1>1, <2>1, <2>3, SlotParts DEF WithSentStatus, SlotsOK
<1>2. CASE SendMsg(p) \/ SendReset(p)
  BY <1>1, <1>2 DEF SendMsg, SendReset, Critical
<1>3. CASE Sent(p)
  <2>1. i \in Slots /\ RecvStage(p) \in Stages
    BY <1>3, AtSlots DEF Sent, Critical, RecvStage, Stages
  <2>2. [ClientInfo[i] EXCEPT !.procStat = RecvStage(p), !.activityTime = "recent"] \in InfoType
    BY <1>0, <2>1, SlotParts, InfoUpdates
  <2> QED
    BY <1>0, <1>3, <2>1, <2>2, SlotParts DEF Sent, SlotsOK
<1>4. CASE \/ Connect(p) \/ SenderSetsWorkPending(p) \/ SenderWait(p) \/ SenderScan(p)
           \/ SenderLock(p) \/ SendFails(p) \/ SenderDown(p) \/ SenderShutdown(p) \/ SenderJoin(p)
  <2>1. UNCHANGED slotVars
    BY <1>4 DEF Connect, SenderSetsWorkPending, SetWorkPending, SenderWait, SenderScan, SenderLock,
                LockAndCheck, SendFails, SenderDown, SenderShutdown, SenderJoin
  <2> QED
    BY <1>0, <2>1 DEF slotVars, SlotsOK
<1> QED
  BY <1>2, <1>3, <1>4 DEF SenderStep

LEMMA ReceiverSlotStep == ASSUME TypeOK, LockInv, NEW p \in Peers, ReceiverStep(p) PROVE SlotsOK'
<1>0. SlotsOK /\ reply["db"] \in Nat /\ reply["bank"] \in Cards
  BY DEF TypeOK, PeersOK
<1>1. CASE StoreAudit
  <2> DEFINE i == at["DbRecv"]
             m == [ClientInfo[i].servermsg EXCEPT !.audit = reply["db"], !.status = "DR"]
  <2>1. i \in Slots /\ "DR" \in Statuses /\ "BANK_SEND" \in Stages
    BY <1>1, AtSlots DEF StoreAudit, Critical, Statuses, Stages
  <2>2. m \in MsgType
    BY <1>0, <2>1, SlotParts, InfoUpdates, MsgUpdates
  <2>3. [ClientInfo[i] EXCEPT !.servermsg = m, !.procStat = "BANK_SEND", !.activityTime = "recent"]
           \in InfoType
    BY <1>0, <2>1, <2>2, SlotParts, InfoUpdates
  <2> QED
    <3> DEFINE info == [ClientInfo[i] EXCEPT !.servermsg = m, !.procStat = "BANK_SEND",
                                             !.activityTime = "recent"]
    <3>1. ClientInfo' = [ClientInfo EXCEPT ![i] = info] /\ UNCHANGED <<MainPoll, owner>>
      BY <1>1 DEF StoreAudit
    <3>2. info \in InfoType
      BY <2>3
    <3> HIDE DEF info
    <3> QED
      BY <1>0, <2>1, <3>1, <3>2, SlotParts DEF SlotsOK
<1>2. CASE StoreVerdict
  <2> DEFINE i == at["BankRecv"]
             m == [ClientInfo[i].servermsg EXCEPT !.verdict = reply["bank"], !.status = "BR"]
             resp == [kind |-> "Bank", cc |-> m.cc, verdict |-> m.verdict]
             info == WithResponse([ClientInfo[i] EXCEPT !.servermsg = m], resp)
  <2>1. i \in Slots /\ "BR" \in Statuses
    BY <1>2, AtSlots DEF StoreVerdict, Critical, Statuses
  <2>2. m \in MsgType
    BY <1>0, <2>1, SlotParts, InfoUpdates, MsgUpdates
  <2>3. resp \in ResponseType
    <3>1. m.cc \in Cards /\ m.verdict \in Cards
      BY <2>2 DEF MsgType
    <3> HIDE DEF m
    <3> QED
      BY <3>1, Responses
  <2>4. info \in InfoType
    BY <1>0, <2>1, <2>2, <2>3, SlotParts, InfoUpdates
  <2>5. [MainPoll[i] EXCEPT !.events = "toPOLLOUT"] \in PollType
    BY <1>0, <2>1, SlotParts, PollUpdates
  <2>6. ClientInfo' = [ClientInfo EXCEPT ![i] = info] /\ UNCHANGED owner
        /\ MainPoll' = [MainPoll EXCEPT ![i].events = "toPOLLOUT"]
    BY <1>2 DEF StoreVerdict, Respond
  <2> QED
    BY <1>0, <2>1, <2>4, <2>5, <2>6, SlotParts DEF SlotsOK
<1>3. CASE \/ Receive(p) \/ ReceiverLock(p) \/ ReceiverHangup(p) \/ ReceiverEnds(p)
           \/ DbReceiverSetsWorkPending
  <2>1. UNCHANGED slotVars
    BY <1>3 DEF Receive, ReceiverLock, LockAndCheck, ReceiverHangup, ReceiverEnds,
                DbReceiverSetsWorkPending, SetWorkPending
  <2> QED
    BY <1>0, <2>1 DEF slotVars, SlotsOK
<1> QED
  BY <1>1, <1>2, <1>3 DEF ReceiverStep

LEMMA SlotStep == TypeOK /\ LockInv /\ MainAtSlot /\ [Next]_vars => SlotsOK'
<1> SUFFICES ASSUME TypeOK, LockInv, MainAtSlot, [Next]_vars PROVE SlotsOK'
  OBVIOUS
<1>0. SlotsOK
  BY DEF TypeOK
<1>1. CASE MainStep \/ \E c \in Conns : AcceptClient(c)
  BY <1>1, MainSlotStep
<1>2. CASE TimerStep \/ \E p \in Peers : SenderStep(p) \/ ReceiverStep(p)
  BY <1>2, TimerSlotStep, SenderSlotStep, ReceiverSlotStep
<1>3. ASSUME NEW i \in Slots, TimePasses(i) PROVE SlotsOK'
  <2>1. [ClientInfo[i] EXCEPT !.activityTime = "old"] \in InfoType
    BY <1>0, SlotParts, InfoUpdates
  <2> QED
    BY <1>0, <1>3, <2>1, SlotParts DEF TimePasses, SlotsOK
<1>4. ASSUME UNCHANGED slotVars PROVE SlotsOK'
  BY <1>0, <1>4 DEF slotVars, SlotsOK
<1>5. CASE TermAccepted \/ QuitArrives \/ \E t \in Threads : LockDestroyed(t)
  BY <1>4, <1>5 DEF TermAccepted, QuitArrives, LockDestroyed
<1>6. CASE \/ TermArrives \/ IntArrives \/ \E p \in Peers : PeerDown(p) \/ PeerUp(p)
           \/ \E c \in Conns, k \in {"Bank", "Ctrl", "Bad"} :
                 ClientContinues(c) \/ ClientHangup(c) \/ ClientRequest(c, k)
  BY <1>4, <1>6 DEF TermArrives, IntArrives, PeerDown, PeerUp, ClientContinues, ClientHangup,
                    ClientRequest, serverVars
<1>7. CASE AtRest \/ UNCHANGED vars
  BY <1>4, <1>7 DEF AtRest, vars
<1> QED
  BY <1>1, <1>2, <1>3, <1>5, <1>6, <1>7 DEF Next, ServerStep, Environment

LEMMA PeerParts ==
    ASSUME PeersOK, NEW p \in Peers
    PROVE  /\ \A x \in {"closed", "up", "broken"} :
                 [link EXCEPT ![p] = x] \in [Peers -> {"closed", "up", "broken"}]
           /\ \A x \in {"CONNECTED", "DISCONNECTED"} :
                 [status EXCEPT ![p] = x] \in [Peers -> {"CONNECTED", "DISCONNECTED"}]
           /\ \A S \in SUBSET PeerMsgs(p) :
                 LET f == [msgs EXCEPT ![p] = S]
                 IN DOMAIN f = Peers /\ \A q \in Peers : f[q] \subseteq PeerMsgs(q)
BY DEF PeersOK

LEMMA PeerStep == TypeOK /\ LockInv /\ [Next]_vars => PeersOK'
<1> SUFFICES ASSUME TypeOK, LockInv, [Next]_vars PROVE PeersOK'
  OBVIOUS
<1>0. PeersOK /\ SlotsOK
  BY DEF TypeOK
<1>1. ASSUME NEW p \in Peers, Connect(p) PROVE PeersOK'
  <2>1. /\ \E x \in {"closed", "up"} : link' = [link EXCEPT ![p] = x]
        /\ status' = status \/ status' = [status EXCEPT ![p] = "CONNECTED"]
        /\ UNCHANGED <<reply, peerVars>>
    BY <1>0, <1>1 DEF Connect, PeersOK
  <2> QED
    BY <1>0, <2>1, PeerParts DEF PeersOK, peerVars
<1>2. ASSUME NEW p \in Peers, SendMsg(p) PROVE PeersOK'
  <2> DEFINE i == at[Sender(p)]
             m == [key |-> Key(p, i), cc |-> ClientInfo[i].servermsg.cc]
  <2>1. i \in Slots
    BY <1>2, AtSlots DEF SendMsg, Critical
  <2>2. MainPoll[i].fd \in Fds \cup {NoFd} /\ ClientInfo[i].servermsg \in MsgType
    BY <1>0, <2>1, SlotParts, InfoUpdates DEF PollType
  <2>3. ClientInfo[i].servermsg.audit \in Nat /\ ClientInfo[i].servermsg.cc \in Cards
    BY <2>2 DEF MsgType
  <2>4. m \in PeerMsgs(p)
    BY <2>2, <2>3 DEF PeerMsgs, Key, Peers
  <2>5. /\ msgs' = msgs \/ msgs' = [msgs EXCEPT ![p] = msgs[p] \cup {m}]
        /\ charged' = charged \/ (p = "bank" /\ charged' = charged \cup {m})
        /\ UNCHANGED <<linkVars, up, downs, nextAudit, issued>>
    BY <1>2 DEF SendMsg
  <2> HIDE DEF m
  <2>6. msgs[p] \cup {m} \in SUBSET PeerMsgs(p) /\ charged' \subseteq PeerMsgs("bank")
    BY <1>0, <2>4, <2>5 DEF PeersOK
  <2> QED
    BY <1>0, <2>5, <2>6, PeerParts DEF PeersOK, linkVars
<1>3. ASSUME NEW p \in Peers, SendReset(p) \/ ReceiverHangup(p) PROVE PeersOK'
  <2>1. /\ link' = link \/ link' = [link EXCEPT ![p] = "closed"]
        /\ status' = [status EXCEPT ![p] = "DISCONNECTED"]
        /\ UNCHANGED <<reply, peerVars>>
    BY <1>3 DEF SendReset, ReceiverHangup
  <2> QED
    BY <1>0, <2>1, PeerParts DEF PeersOK, peerVars
<1>4. ASSUME NEW p \in Peers, SenderShutdown(p) \/ PeerDown(p) PROVE PeersOK'
  <2>1. /\ link' = link \/ link' = [link EXCEPT ![p] = "broken"]
        /\ msgs' = msgs \/ msgs' = [msgs EXCEPT ![p] = {}]
    BY <1>0, <1>4 DEF SenderShutdown, PeerDown, PeersOK, peerVars
  <2>2. /\ up' = up \/ up' = [up EXCEPT ![p] = FALSE]
        /\ downs' = downs \/ downs' = downs + 1
        /\ nextAudit' = nextAudit \/ nextAudit' = NoAudit
        /\ UNCHANGED <<status, reply, issued, charged>>
    BY <1>4 DEF SenderShutdown, PeerDown, peerVars
  <2>3. up' \in [Peers -> BOOLEAN]
    BY <1>0, <2>2 DEF PeersOK
  <2>4. downs' \in Nat /\ nextAudit' \in Nat
    BY <1>0, <2>2 DEF PeersOK, NoAudit
  <2> QED
    BY <1>0, <2>1, <2>2, <2>3, <2>4, PeerParts DEF PeersOK
<1>5. ASSUME NEW p \in Peers, PeerUp(p) PROVE PeersOK'
  BY <1>0, <1>5 DEF PeerUp, PeersOK, serverVars, linkVars
<1>6. ASSUME NEW p \in Peers, Receive(p) PROVE PeersOK'
  <2>1. PICK r \in msgs[p] :
           /\ msgs' = [msgs EXCEPT ![p] = @ \ {r}]
           /\ IF p = "db"
              THEN /\ nextAudit' = nextAudit + 1
                   /\ issued' = issued \cup {<<nextAudit', r.cc>>}
              ELSE UNCHANGED <<nextAudit, issued>>
           /\ \/ UNCHANGED reply
              \/ reply' = [reply EXCEPT ![p] = IF p = "db" THEN nextAudit' ELSE r.cc]
    BY <1>6 DEF Receive
  <2>2. r \in PeerMsgs(p)
    BY <1>0 DEF PeersOK
  <2>3. r.cc \in Cards
    BY <2>2 DEF PeerMsgs
  <2>4. nextAudit' \in Nat /\ issued' \subseteq Nat \X Cards
    BY <1>0, <2>1, <2>3 DEF PeersOK
  <2>5. DOMAIN reply' = Peers /\ reply'["db"] \in Nat /\ reply'["bank"] \in Cards
    BY <1>0, <2>1, <2>3, <2>4 DEF PeersOK, Peers
  <2>6. UNCHANGED <<status, link, up, downs, charged>>
    BY <1>6 DEF Receive
  <2>7. msgs[p] \ {r} \in SUBSET PeerMsgs(p)
    BY <1>0 DEF PeersOK
  <2> QED
    BY <1>0, <2>1, <2>4, <2>5, <2>6, <2>7, PeerParts DEF PeersOK
<1>7. CASE StoreAudit \/ StoreVerdict
  <2>1. /\ \/ reply' = [reply EXCEPT !["db"] = NoAudit]
           \/ reply' = [reply EXCEPT !["bank"] = NoConn]
        /\ UNCHANGED <<status, link, peerVars>>
    BY <1>7 DEF StoreAudit, StoreVerdict
  <2> QED
    BY <1>0, <2>1 DEF PeersOK, peerVars, Cards, NoAudit, Peers
<1>8. ASSUME UNCHANGED <<linkVars, peerVars>> PROVE PeersOK'
  BY <1>0, <1>8 DEF PeersOK, linkVars, peerVars
<1>9. CASE MainStep \/ \E c \in Conns : AcceptClient(c)
  <2>1. CASE MainGoesOn \/ \E c \in Conns : AcceptClient(c)
    BY <1>8, <2>1 DEF MainGoesOn, AcceptClient, CountUsers, DisconnectClients, DisconnectNext,
                      CloseClient, MainSetsWorkPending, SetWorkPending, LeaveLoop, CloseAll,
                      WakeThread, KillHandler, JoinThread
  <2>2. CASE ReadEvent \/ \E i \in Slots : BlockOnClient(i) \/ SendResponse(i)
    BY <1>8, <2>2 DEF ReadEvent, DisconnectNext, BlockOnClient, SendResponse
  <2>3. CASE \E i \in Slots : RecvStep(i)
    BY <1>8, <2>3 DEF RecvStep, RecvHangup, RecvOverLimit, RecvControl, RecvInvalid, RecvCompletion,
                      RecvBankRequest, Receives
  <2> QED
    BY <1>9, <2>1, <2>2, <2>3 DEF MainStep
<1>10. CASE TimerStep
  BY <1>8, <1>10 DEF TimerStep, TimerWait, TimerPass, TimerScan, TimerScanFrom, TimerLock, LockAndCheck,
                     TimerMark, TimerSetsWorkPending, SetWorkPending
<1>11. ASSUME NEW p \in Peers,
              \/ SenderSetsWorkPending(p) \/ SenderWait(p) \/ SenderScan(p) \/ SenderLock(p)
              \/ SendFails(p) \/ Sent(p) \/ SenderDown(p) \/ SenderJoin(p)
       PROVE  PeersOK'
  BY <1>8, <1>11 DEF SenderSetsWorkPending, SetWorkPending, SenderWait, SenderScan, SenderLock,
                     LockAndCheck, SendFails, Sent, SenderDown, SenderJoin
<1>12. ASSUME NEW p \in Peers, ReceiverLock(p) \/ ReceiverEnds(p) \/ DbReceiverSetsWorkPending
       PROVE  PeersOK'
  BY <1>8, <1>12 DEF ReceiverLock, LockAndCheck, ReceiverEnds, DbReceiverSetsWorkPending,
                     SetWorkPending
<1>13. CASE \/ TermAccepted \/ QuitArrives \/ TermArrives \/ IntArrives
            \/ \E t \in Threads : LockDestroyed(t)
            \/ \E i \in Slots : TimePasses(i)
            \/ \E c \in Conns, k \in {"Bank", "Ctrl", "Bad"} :
                 ClientContinues(c) \/ ClientHangup(c) \/ ClientRequest(c, k)
  BY <1>8, <1>13 DEF TermAccepted, QuitArrives, TermArrives, IntArrives, LockDestroyed, TimePasses,
                     ClientContinues, ClientHangup, ClientRequest, serverVars
<1>14. CASE AtRest \/ UNCHANGED vars
  BY <1>8, <1>14 DEF AtRest, vars
<1> QED
  BY <1>1, <1>2, <1>3, <1>4, <1>5, <1>6, <1>7, <1>9, <1>10, <1>11, <1>12, <1>13, <1>14
     DEF Next, ServerStep, Environment, SenderStep, ReceiverStep

LEMMA ClientStep == TypeOK /\ MainAtSlot /\ [Next]_vars => ClientsOK'
<1> SUFFICES ASSUME TypeOK, MainAtSlot, [Next]_vars PROVE ClientsOK'
  OBVIOUS
<1>0. ClientsOK /\ SlotsOK
  BY DEF TypeOK
<1>1. ASSUME NEW c \in Conns, AcceptClient(c) PROVE ClientsOK'
  BY <1>0, <1>1 DEF AcceptClient, ClientsOK
<1>2. CASE CloseClient
  <2>1. \A d \in Conns : phase'[d] \in {"cut", phase[d]}
    BY <1>0, <1>2 DEF CloseClient
  <2>2. phase' \in [Conns -> {"new", "ready", "waiting", "answered", "done", "cut", "gone"}]
    BY <1>0, <1>2, <2>1 DEF CloseClient, ClientsOK
  <2> QED
    BY <1>0, <1>2, <2>2 DEF CloseClient, ClientsOK
<1>3. ASSUME NEW i \in Slots, RecvStep(i) PROVE ClientsOK'
  <2>1. /\ inbox' = [inbox EXCEPT ![owner[i]] = "none"]
        /\ UNCHANGED <<phase, got>>
    BY <1>3 DEF RecvStep, RecvHangup, RecvOverLimit, RecvControl, RecvInvalid, RecvCompletion,
                RecvBankRequest, Receives
  <2> QED
    BY <1>0, <2>1 DEF ClientsOK
<1>4. ASSUME NEW i \in Slots, SendResponse(i) PROVE ClientsOK'
  <2> DEFINE c == owner[i]
  <2>1. ClientInfo[i].response \in ResponseType
    BY <1>0, SlotParts, InfoUpdates
  <2>2. /\ got' = got \/ got' = [got EXCEPT ![c] = ClientInfo[i].response] \/ got' = [got EXCEPT ![c] = @]
        /\ phase' = [phase EXCEPT ![c] = "answered"] \/ phase' = [phase EXCEPT ![c] = @]
        /\ inbox' = inbox
    BY <1>4 DEF SendResponse
  <2>3. got' \in [Conns -> ResponseType]
    BY <1>0, <2>1, <2>2 DEF ClientsOK
  <2> QED
    BY <1>0, <2>2, <2>3 DEF ClientsOK
<1>5. ASSUME NEW c \in Conns, NEW k \in {"Bank", "Ctrl", "Bad"},
             ClientContinues(c) \/ ClientHangup(c) \/ ClientRequest(c, k)
      PROVE  ClientsOK'
  BY <1>0, <1>5 DEF ClientContinues, ClientHangup, ClientRequest, ClientsOK
<1>6. ASSUME UNCHANGED clientVars PROVE ClientsOK'
  BY <1>0, <1>6 DEF ClientsOK, clientVars
<1>7. CASE \/ MainGoesOn /\ ~CloseClient
           \/ ReadEvent \/ \E i \in Slots : BlockOnClient(i)
  BY <1>6, <1>7 DEF MainGoesOn, ReadEvent, CountUsers, DisconnectClients, DisconnectNext,
                    MainSetsWorkPending, SetWorkPending, LeaveLoop, CloseAll,
                    WakeThread, KillHandler, JoinThread, BlockOnClient
<1>8. CASE TimerStep
  BY <1>6, <1>8 DEF TimerStep, TimerWait, TimerPass, TimerScan, TimerScanFrom, TimerLock, LockAndCheck,
                    TimerMark, TimerSetsWorkPending, SetWorkPending
<1>9. ASSUME NEW p \in Peers, SenderStep(p) PROVE ClientsOK'
  BY <1>6, <1>9 DEF SenderStep, Connect, SenderSetsWorkPending, SetWorkPending, SenderWait, SenderScan,
                    SenderLock, LockAndCheck, SendMsg, SendReset, SendFails, Sent, SenderDown,
                    SenderShutdown, SenderJoin
<1>10. ASSUME NEW p \in Peers, ReceiverStep(p) PROVE ClientsOK'
  BY <1>6, <1>10 DEF ReceiverStep, Receive, ReceiverLock, LockAndCheck, StoreAudit, StoreVerdict,
                     DbReceiverSetsWorkPending, SetWorkPending, ReceiverHangup, ReceiverEnds
<1>11. CASE \/ TermAccepted \/ QuitArrives \/ TermArrives \/ IntArrives
            \/ \E t \in Threads : LockDestroyed(t)
            \/ \E i \in Slots : TimePasses(i)
            \/ \E p \in Peers : PeerDown(p) \/ PeerUp(p)
  BY <1>6, <1>11 DEF TermAccepted, QuitArrives, TermArrives, IntArrives, LockDestroyed, TimePasses, PeerDown, PeerUp
<1>12. CASE AtRest \/ UNCHANGED vars
  BY <1>6, <1>12 DEF AtRest, vars
<1> QED
  BY <1>1, <1>2, <1>3, <1>4, <1>5, <1>7, <1>8, <1>9, <1>10, <1>11, <1>12
     DEF Next, ServerStep, MainStep, MainGoesOn, Environment

LEMMA TypeInit == Init => TypeOK
<1> SUFFICES ASSUME Init PROVE TypeOK
  OBVIOUS
<1>1. LocksOK /\ ThreadsOK
  BY LockInit DEF LockInv
<1>2. SlotsOK
  BY Blanks DEF Init, SlotsOK, Cards
<1>3. PeersOK
  <2>1. up \in [Peers -> BOOLEAN]
    BY DEF Init
  <2>2. /\ status \in [Peers -> {"CONNECTED", "DISCONNECTED"}]
        /\ link \in [Peers -> {"closed", "up", "broken"}]
    BY DEF Init
  <2>3. DOMAIN reply = Peers /\ reply["db"] \in Nat /\ reply["bank"] \in Cards
    BY DEF Init, NoReply, NoAudit, Peers, Cards
  <2> QED
    BY <2>1, <2>2, <2>3 DEF Init, PeersOK, NoAudit
<1>4. ClientsOK
  BY Blanks DEF Init, ClientsOK
<1> QED
  BY <1>1, <1>2, <1>3, <1>4 DEF TypeOK
-----------------------------------------------------------------------------
(***************************************************************************)
(* Sessions.                                                               *)
(***************************************************************************)

LEMMA SessionInit == Init => SessionInv
BY DEF Init, SessionInv, FdsDiffer, SessionOpen, MainAtSlot, OneInteractive, Open, FreePoll, FreeInfo, Threads

\* A step that changes the stages, the times or the messages of the slots only.
LEMMA SessionKept ==
    ASSUME SessionInv, TypeOK,
           \A i \in Slots : MainPoll'[i].fd = MainPoll[i].fd
                            /\ (ClientInfo'[i].procType = "IACTIVE" => ClientInfo[i].procType = "IACTIVE"),
           \/ pc'["Main"] \notin {"accept", "close", "blockedRecv", "blockedSend"}
           \/ pc'["Main"] = "close" /\ at'["Main"] \in Slots
           \/ pc'["Main"] = pc["Main"] /\ at'["Main"] = at["Main"]
    PROVE  SessionInv'
BY DEF SessionInv, FdsDiffer, SessionOpen, MainAtSlot, OneInteractive, Open

\* set...WorkPending leaves the sessions alone.
LEMMA SetWorkPendingSession ==
    ASSUME SessionInv, TypeOK, NEW t \in Threads, NEW m \in {"timer", "db", "bank"}, NEW s,
           NEW next \in {"poll", "discon", "closeAll", "wait", "recv"}, SetWorkPending(t, m, s, next)
    PROVE  SessionInv'
<1>1. pc'["Main"] \in {pc["Main"], next, "wait", "condwait"} /\ UNCHANGED <<slotVars, at>>
  <2>1. "Main" # Waiter(m) /\ pc \in [Threads -> Labels]
    BY Names DEF TypeOK, ThreadsOK
  <2>2. PcAfterWorkPending(t, m, next)
    BY SetWorkPendingMoves
  <2>3. pc'["Main"] \in {pc["Main"], next, "wait", "condwait"}
    BY <2>1, <2>2 DEF PcAfterWorkPending, Threads
  <2>4. UNCHANGED <<slotVars, at>>
    BY DEF SetWorkPending
  <2> QED
    BY <2>3, <2>4
<1> QED
  BY <1>1, SessionKept DEF slotVars

\* Main's steps.  RecvControl is the one that starts a session.
LEMMA MainSessionStep ==
    ASSUME SessionInv, TypeOK, TypeOK', MainStep \/ \E c \in Conns : AcceptClient(c)
    PROVE  SessionInv'
<1> USE DEF Goto, AtSlot
<1>0. /\ SlotsOK /\ \A i \in Slots : ClientInfo[i] \in InfoType /\ MainPoll[i] \in PollType
      /\ pc \in [Threads -> Labels] /\ at \in [Threads -> Places] /\ "Main" \in Threads
  BY SlotParts DEF TypeOK, ThreadsOK, Threads
<1>1. ASSUME NEW c \in Conns, AcceptClient(c) PROVE SessionInv'
  <2>1. PICK i \in Slots, f \in Fds \ {MainPoll[j].fd : j \in Slots} :
           /\ MainPoll' = [MainPoll EXCEPT ![i] = [fd |-> f, events |-> "POLLIN"]]
           /\ AtSlot("Main", i)
    BY <1>1 DEF AcceptClient
  <2>2. MainPoll'[i].fd = f /\ f # NoFd /\ \A j \in Slots : j # i => MainPoll'[j] = MainPoll[j]
    BY <1>0, <2>1, ConstAssumption DEF SlotsOK, ConstAssumption, NoFd
  <2>3. FdsDiffer'
    BY <2>1, <2>2 DEF SessionInv, FdsDiffer, Open
  <2>4. SessionOpen' /\ OneInteractive'
    BY <1>1, <2>2 DEF AcceptClient, SessionInv, SessionOpen, OneInteractive, Open
  <2>5. MainAtSlot'
    BY <1>0, <1>1, <2>1 DEF AcceptClient, MainAtSlot
  <2> QED
    BY <2>3, <2>4, <2>5 DEF SessionInv
<1>2. CASE CountUsers
  <2>1. /\ MainPoll' = MainPoll /\ pc'["Main"] = "swpTimer"
        /\ \A j \in Slots : ClientInfo'[j].procType = ClientInfo[j].procType
    BY <1>0, <1>2 DEF CountUsers, InfoType, SlotsOK
  <2> QED
    BY <2>1, SessionKept
<1>3. ASSUME NEW n, DisconnectNext(n), \A j \in Slots : MainPoll'[j].fd = MainPoll[j].fd
      PROVE  SessionInv'
  <2>1. /\ ClientInfo' = ClientInfo
        /\ pc'["Main"] = "poll" \/ (pc'["Main"] = "close" /\ at'["Main"] \in Slots)
    BY <1>0, <1>3 DEF DisconnectNext
  <2> QED
    BY <1>3, <2>1, SessionKept
<1>4. CASE DisconnectClients
  BY <1>3, <1>4 DEF DisconnectClients
<1>5. CASE ReadEvent
  <2>1. \A j \in Slots : MainPoll'[j].fd = MainPoll[j].fd
    BY <1>0, <1>5 DEF ReadEvent, Polled, PollType
  <2> QED
    BY <1>3, <1>5, <2>1 DEF ReadEvent
<1>6. CASE CloseClient
  <2> DEFINE i == at["Main"]
  <2>1. i \in Slots /\ pc'["Main"] = "swpTimer"
    BY <1>0, <1>6 DEF CloseClient, SessionInv, MainAtSlot
  <2>2. /\ MainPoll'[i].fd = NoFd /\ ClientInfo'[i].procType = "INIT"
        /\ \A j \in Slots : j # i => MainPoll'[j] = MainPoll[j] /\ ClientInfo'[j] = ClientInfo[j]
    BY <1>0, <1>6, <2>1 DEF CloseClient, SlotsOK, FreePoll, FreeInfo
  <2> QED
    BY <2>1, <2>2 DEF SessionInv, FdsDiffer, SessionOpen, MainAtSlot, OneInteractive, Open
<1>7. CASE MainSetsWorkPending
  BY <1>0, <1>7, SetWorkPendingSession DEF MainSetsWorkPending, TypeOK, ThreadsOK
<1>8. CASE LeaveLoop \/ CloseAll \/ WakeThread \/ KillHandler \/ JoinThread
  <2>1. UNCHANGED slotVars
    BY <1>8 DEF LeaveLoop, CloseAll, WakeThread, KillHandler, JoinThread
  <2>2. \/ pc'["Main"] \in {"closeAll", "exited", "wake", "join"}
        \/ pc'["Main"] = "close" /\ at'["Main"] \in Slots
    <3>1. CASE LeaveLoop \/ CloseAll \/ KillHandler \/ JoinThread
      BY <1>0, <3>1 DEF LeaveLoop, CloseAll, KillHandler, JoinThread, Exit
    <3>2. CASE WakeThread
      <4>1. Waiter(EndOrder[at["Main"]]) # "Main"
        BY DEF Waiter, Sender
      <4> QED
        BY <1>0, <3>2, <4>1 DEF WakeThread
    <3> QED
      BY <1>8, <3>1, <3>2
  <2> QED
    BY <2>1, <2>2, SessionKept DEF slotVars
<1>9. ASSUME NEW i \in Slots, BlockOnClient(i) PROVE SessionInv'
  <2>1. Open(i) /\ UNCHANGED slotVars /\ at'["Main"] = i
    BY <1>0, <1>9 DEF BlockOnClient, Readable, Writable, Open
  <2> QED
    BY <2>1 DEF slotVars, SessionInv, FdsDiffer, SessionOpen, MainAtSlot, OneInteractive, Open
<1>10. ASSUME NEW i \in Slots, RecvStep(i) PROVE SessionInv'
  <2>1. Open(i)
    BY <1>10 DEF RecvStep, RecvHangup, RecvOverLimit, RecvControl, RecvInvalid, RecvCompletion,
                 RecvBankRequest, Receives, Serves, Readable, Open, SessionInv, MainAtSlot
  <2>2. /\ \/ pc'["Main"] \in {"poll", "swpDb"}
           \/ pc'["Main"] = "close" /\ at'["Main"] \in Slots
    BY <1>0, <1>10 DEF RecvStep, RecvHangup, RecvOverLimit, RecvControl, RecvInvalid,
                       RecvCompletion, RecvBankRequest
  <2>3. \A j \in Slots : MainPoll'[j].fd = MainPoll[j].fd
    BY <1>0, <1>10 DEF RecvStep, RecvHangup, RecvOverLimit, RecvControl, RecvInvalid,
                       RecvCompletion, RecvBankRequest, Respond, SlotsOK, PollType
  <2>4. \A j \in Slots : j # i => ClientInfo'[j] = ClientInfo[j]
    BY <1>0, <1>10 DEF RecvStep, RecvHangup, RecvOverLimit, RecvControl, RecvInvalid,
                       RecvCompletion, RecvBankRequest, Respond, SetClientDisconnect, SlotsOK
  <2>5. ReceivedInfo(i).procType = ClientInfo[i].procType /\ ReceivedInfo(i) \in InfoType
    <3>1. "CT_REQ_RECV" \in Stages
      BY DEF Stages
    <3> QED
      BY <1>0, <3>1 DEF ReceivedInfo, InfoType
  <2>6. CASE ~RecvControl(i) \/ AnotherInteractive(i)
    <3>1. ClientInfo'[i].procType = "IACTIVE" => ClientInfo[i].procType = "IACTIVE"
      <4>1. CASE RecvHangup(i)
        BY <4>1 DEF RecvHangup
      <4>2. CASE RecvOverLimit(i)
        BY <1>0, <2>5, <4>2 DEF RecvOverLimit, Respond, WithResponse, SlotsOK, InfoType
      <4>3. CASE RecvInvalid(i)
        BY <1>0, <2>5, <4>3 DEF RecvInvalid, Respond, WithResponse, SlotsOK, InfoType
      <4>4. CASE RecvCompletion(i)
        BY <1>0, <2>5, <4>4 DEF RecvCompletion, SlotsOK, InfoType
      <4>5. CASE RecvBankRequest(i)
        BY <1>0, <2>5, <4>5 DEF RecvBankRequest, SlotsOK, InfoType
      <4>6. CASE RecvControl(i) /\ AnotherInteractive(i)
        BY <1>0, <2>5, <4>6 DEF RecvControl, SetClientDisconnect, SlotsOK, InfoType
      <4> QED
        BY <1>10, <2>6, <4>1, <4>2, <4>3, <4>4, <4>5, <4>6 DEF RecvStep
    <3> QED
      BY <2>2, <2>3, <2>4, <3>1, SessionKept
  <2>7. CASE RecvControl(i) /\ ~AnotherInteractive(i)
    <3>1. \A j \in Slots : ClientInfo[j].procType = "IACTIVE" => j = i
      BY <2>1, <2>7 DEF AnotherInteractive, SessionInv, SessionOpen, FdsDiffer, Open
    <3>2. FdsDiffer' /\ SessionOpen'
      BY <2>1, <2>3, <2>4 DEF SessionInv, FdsDiffer, SessionOpen, Open
    <3>3. OneInteractive' /\ MainAtSlot'
      BY <2>2, <2>4, <3>1 DEF OneInteractive, MainAtSlot
    <3> QED
      BY <3>2, <3>3 DEF SessionInv
  <2> QED
    BY <2>6, <2>7
<1>11. ASSUME NEW i \in Slots, SendResponse(i) PROVE SessionInv'
  <2>1. \A j \in Slots : /\ MainPoll'[j].fd = MainPoll[j].fd
                         /\ ClientInfo'[j].procType = ClientInfo[j].procType
    BY <1>0, <1>11 DEF SendResponse, SlotsOK, PollType, InfoType
  <2>2. pc'["Main"] = "poll" \/ (pc'["Main"] = "close" /\ at'["Main"] \in Slots)
    BY <1>0, <1>11 DEF SendResponse
  <2> QED
    BY <2>1, <2>2, SessionKept
<1> QED
  BY <1>1, <1>2, <1>4, <1>5, <1>6, <1>7, <1>8, <1>9, <1>10, <1>11 DEF MainStep, MainGoesOn

LEMMA SessionStep ==
    ASSUME SessionInv, TypeOK, LockInv, TypeOK', [Next]_vars PROVE SessionInv'
<1> USE DEF Goto, AtSlot
<1>0. /\ SlotsOK /\ \A i \in Slots : ClientInfo[i] \in InfoType /\ MainPoll[i] \in PollType
      /\ pc \in [Threads -> Labels] /\ at \in [Threads -> Places] /\ "Main" \in Threads
  BY SlotParts DEF TypeOK, ThreadsOK, Threads
<1>1. CASE MainStep \/ \E c \in Conns : AcceptClient(c)
  BY <1>1, MainSessionStep
\* A thread other than Main.
<1>2. ASSUME \/ pc'["Main"] = "exited"
             \/ pc'["Main"] = pc["Main"] /\ at'["Main"] = at["Main"],
             \A j \in Slots : /\ MainPoll'[j].fd = MainPoll[j].fd
                              /\ ClientInfo'[j].procType = ClientInfo[j].procType
      PROVE  SessionInv'
  BY <1>2, SessionKept
<1>3. ASSUME \/ Exit("SysExit") \/ Exit("crash") \/ Exit("INT")
             \/ \E t \in Threads \ {"Main"} : \E l : Goto(t, l) /\ (at' = at \/ \E n : AtSlot(t, n))
      PROVE  \/ pc'["Main"] = "exited"
             \/ pc'["Main"] = pc["Main"] /\ at'["Main"] = at["Main"]
  BY <1>0, <1>3 DEF Exit
<1>4. ASSUME UNCHANGED slotVars
      PROVE  \A j \in Slots : /\ MainPoll'[j].fd = MainPoll[j].fd
                              /\ ClientInfo'[j].procType = ClientInfo[j].procType
  BY <1>4 DEF slotVars
<1>5. CASE TimerStep
  <2>1. "Timer" \in Threads \ {"Main"}
    BY DEF Threads
  <2>2. CASE TimerMark
    <3>1. \A j \in Slots : /\ MainPoll'[j].fd = MainPoll[j].fd
                           /\ ClientInfo'[j].procType = ClientInfo[j].procType
      BY <1>0, <2>2 DEF TimerMark, SetClientDisconnect, SlotsOK, InfoType
    <3> QED
      BY <1>2, <1>3, <2>1, <2>2, <3>1 DEF TimerMark
  <2>3. CASE TimerSetsWorkPending
    BY <2>1, <2>3, SetWorkPendingSession DEF TimerSetsWorkPending
  <2>4. CASE TimerWait \/ TimerPass \/ TimerScan \/ TimerLock
    <3>1. UNCHANGED slotVars /\ \E l : Goto("Timer", l) /\ (at' = at \/ \E n : AtSlot("Timer", n))
      BY <2>4 DEF TimerWait, TimerPass, TimerScan, TimerScanFrom, TimerLock, LockAndCheck
    <3> QED
      BY <1>2, <1>3, <1>4, <2>1, <3>1
  <2> QED
    BY <1>5, <2>2, <2>3, <2>4 DEF TimerStep
<1>6. ASSUME NEW p \in Peers, SenderStep(p) PROVE SessionInv'
  <2>1. Sender(p) \in Threads \ {"Main"} /\ Receiver(p) \in Threads \ {"Main"}
    BY Names DEF Threads
  <2>2. CASE SenderSetsWorkPending(p)
    BY <2>1, <2>2, SetWorkPendingSession DEF SenderSetsWorkPending, Peers
  <2>3. CASE SendMsg(p) \/ SendReset(p) \/ Sent(p)
    <3>1. \A j \in Slots : /\ MainPoll'[j].fd = MainPoll[j].fd
                           /\ ClientInfo'[j].procType = ClientInfo[j].procType
      <4>1. CASE SendMsg(p) \/ SendReset(p)
        BY <1>0, <4>1 DEF SendMsg, SendReset, WithSentStatus, SlotsOK, InfoType
      <4>2. CASE Sent(p)
        BY <1>0, <4>2 DEF Sent, SlotsOK, InfoType
      <4> QED
        BY <2>3, <4>1, <4>2
    <3>2. \E l : Goto(Sender(p), l) /\ (at' = at \/ \E n : AtSlot(Sender(p), n))
      BY <2>3 DEF SendMsg, SendReset, Sent
    <3> QED
      BY <1>2, <1>3, <2>1, <3>1, <3>2
  <2>4. CASE Connect(p)
    <3>1. UNCHANGED slotVars /\ pc'["Main"] = pc["Main"] /\ at' = at
      BY <1>0, <2>1, <2>4 DEF Connect
    <3> QED
      BY <1>2, <1>4, <3>1
  <2>5. CASE \/ SenderWait(p) \/ SenderScan(p) \/ SenderLock(p) \/ SendFails(p) \/ SenderDown(p)
             \/ SenderShutdown(p) \/ SenderJoin(p)
    <3>1. UNCHANGED slotVars
      BY <2>5 DEF SenderWait, SenderScan, SenderLock, LockAndCheck, SendFails, SenderDown,
                  SenderShutdown, SenderJoin
    <3>2. \/ Exit("SysExit") \/ Exit("crash")
          \/ \E l : Goto(Sender(p), l) /\ (at' = at \/ \E n : AtSlot(Sender(p), n))
      BY <2>5 DEF SenderWait, SenderScan, SenderLock, LockAndCheck, SendFails, SenderDown,
                  SenderShutdown, SenderJoin
    <3> QED
      BY <1>2, <1>3, <1>4, <2>1, <3>1, <3>2
  <2> QED
    BY <1>6, <2>2, <2>3, <2>4, <2>5 DEF SenderStep
<1>7. ASSUME NEW p \in Peers, ReceiverStep(p) PROVE SessionInv'
  <2>1. /\ Receiver(p) \in Threads \ {"Main"} /\ Sender(p) # "Main"
        /\ "DbRecv" \in Threads \ {"Main"} /\ "BankRecv" \in Threads \ {"Main"}
    BY Names DEF Threads
  <2>2. CASE DbReceiverSetsWorkPending
    BY <2>1, <2>2, SetWorkPendingSession DEF DbReceiverSetsWorkPending
  <2>3. CASE StoreAudit \/ StoreVerdict
    <3>1. \A j \in Slots : /\ MainPoll'[j].fd = MainPoll[j].fd
                           /\ ClientInfo'[j].procType = ClientInfo[j].procType
      <4>1. CASE StoreAudit
        BY <1>0, <4>1 DEF StoreAudit, SlotsOK, InfoType
      <4>2. CASE StoreVerdict
        BY <1>0, <4>2 DEF StoreVerdict, Respond, WithResponse, SlotsOK, InfoType, PollType
      <4> QED
        BY <2>3, <4>1, <4>2
    <3>2. \E t \in {"DbRecv", "BankRecv"} : \E l : Goto(t, l) /\ (at' = at \/ \E n : AtSlot(t, n))
      BY <2>3 DEF StoreAudit, StoreVerdict
    <3> QED
      BY <1>2, <1>3, <2>1, <3>1, <3>2
  <2>4. CASE ReceiverEnds(p)
    <3>1. UNCHANGED slotVars /\ pc'["Main"] = pc["Main"] /\ at' = at
      BY <1>0, <2>1, <2>4 DEF ReceiverEnds
    <3> QED
      BY <1>2, <1>4, <3>1
  <2>5. CASE Receive(p) \/ ReceiverLock(p) \/ ReceiverHangup(p)
    <3>1. UNCHANGED slotVars
      BY <2>5 DEF Receive, ReceiverLock, LockAndCheck, ReceiverHangup
    <3>2. \E l : Goto(Receiver(p), l) /\ (at' = at \/ \E n : AtSlot(Receiver(p), n))
      BY <2>5 DEF Receive, ReceiverLock, LockAndCheck, ReceiverHangup
    <3> QED
      BY <1>2, <1>3, <1>4, <2>1, <3>1, <3>2
  <2> QED
    BY <1>7, <2>2, <2>3, <2>4, <2>5 DEF ReceiverStep
<1>8. CASE \/ TermAccepted \/ QuitArrives \/ TermArrives \/ IntArrives
           \/ \E t \in Threads : LockDestroyed(t)
  <2>1. "SignalHandler" \in Threads \ {"Main"}
    BY DEF Threads
  <2> QED
    BY <1>2, <1>3, <1>4, <1>8, <2>1 DEF TermAccepted, QuitArrives, TermArrives, IntArrives, LockDestroyed
<1>9. ASSUME NEW i \in Slots, TimePasses(i) PROVE SessionInv'
  <2>1. \A j \in Slots : /\ MainPoll'[j].fd = MainPoll[j].fd
                         /\ ClientInfo'[j].procType = ClientInfo[j].procType
    BY <1>0, <1>9 DEF TimePasses, SlotsOK, InfoType
  <2> QED
    BY <1>2, <1>9, <2>1 DEF TimePasses, threadVars
<1>10. CASE \/ \E p \in Peers : PeerDown(p) \/ PeerUp(p)
            \/ \E c \in Conns, k \in {"Bank", "Ctrl", "Bad"} :
                 ClientContinues(c) \/ ClientHangup(c) \/ ClientRequest(c, k)
  <2>1. UNCHANGED <<slotVars, threadVars>>
    BY <1>10 DEF PeerDown, PeerUp, ClientContinues, ClientHangup, ClientRequest, serverVars
  <2> QED
    BY <1>2, <1>4, <2>1 DEF threadVars
<1>11. CASE AtRest \/ UNCHANGED vars
  BY <1>2, <1>4, <1>11 DEF AtRest, vars, threadVars
<1> QED
  BY <1>1, <1>5, <1>6, <1>7, <1>8, <1>9, <1>10, <1>11 DEF Next, ServerStep, Environment

-----------------------------------------------------------------------------
\* The inductive invariant of the server.
IInv == TypeOK /\ LockInv /\ SessionInv

LEMMA Invariance == Spec => []IInv
<1>1. Init => IInv
  BY TypeInit, LockInit, SessionInit DEF IInv
<1>2. IInv /\ [Next]_vars => IInv'
  <2> SUFFICES ASSUME IInv, [Next]_vars PROVE IInv'
    OBVIOUS
  <2>1. LockInv' /\ MainAtSlot
    BY LockStep DEF IInv, SessionInv
  <2>2. TypeOK'
    BY <2>1, SlotStep, PeerStep, ClientStep DEF IInv, LockInv, TypeOK
  <2>3. SessionInv'
    BY <2>2, SessionStep DEF IInv
  <2> QED
    BY <2>1, <2>2, <2>3 DEF IInv
<1> QED
  BY <1>1, <1>2, PTL DEF Spec

\* Type correctness of the server, its peers and its clients.
THEOREM TypeCorrect == Spec => []TypeOK
BY Invariance, PTL DEF IInv

\* Never two control sessions at a time, for any number of slots and clients and
\* whatever the clients, the peers, the clock and the signals do.
THEOREM OneSession == Spec => []OneInteractive
BY Invariance, PTL DEF IInv, SessionInv
=============================================================================
