------------------------------ MODULE CmdServer ------------------------------
(***************************************************************************)
(* master/src/app/main.c: the command server.  SIGHUP makes the Input      *)
(* thread read commands from a file into the command queue; the Process    *)
(* thread runs them one by one; the Output thread logs what came of them   *)
(* and removes them.  SIGUSR1 starts a thread that rotates the log file,   *)
(* for which it meets the other three at two barriers.  SIGTERM makes Main *)
(* end the server.                                                         *)
(*                                                                         *)
(* CmdInputMutex, CmdProcessMutex and CmdOutputMutex are held for one step *)
(* of the model, or while Process walks the queue (CondMutexFree).  Only   *)
(* Input (to append) and Output (to remove) take CmdQueueMutex: Process    *)
(* and the signal handler walk the queue while Output may free what they   *)
(* stand on.                                                               *)
(***************************************************************************)
EXTENDS Naturals, FiniteSets

CONSTANTS
    Rotators,   \* bound: the log rotation threads there may be at a time
    MaxCmds,    \* bound: commands that are ever read
    MaxBatch,   \* bound: commands on one line of the file ("?sys:a,b,...")
    Signals     \* signals that may arrive: a subset of {"INT", "TERM", "USR1", "HUP"}

ASSUME CmdAssumption ==
    /\ IsFiniteSet(Rotators)
    /\ Rotators \cap {"Main", "Handler", "Input", "Process", "Output"} = {}
    /\ MaxCmds \in Nat /\ MaxBatch \in Nat
    /\ Signals \subseteq {"INT", "TERM", "USR1", "HUP"}

VARIABLES
    PendingOrderlyShutdown,
    Shutdown,
    LogfileRotate,
    exited,        \* how the process ended, "no" while it runs
    workPending,   \* CmdInputWorkPending, CmdProcessWorkPending, CmdOutputWorkPending
    queue,         \* the elements of the list at CmdQueueHead; commands are
                   \* numbered in the order in which they are appended
    count,         \* the number of commands appended so far
    status,        \* elem->status: 0 new, 1 running, 2 failed, 3 succeeded
    pc,            \* where each thread is
    batch,         \* commands of its line that Input has yet to append
    current,       \* the element that Process runs; 0 for none
    cursor,        \* the last element Output has looked at; 0 for none
    torn           \* was an element freed while Process walks the queue?

flagVars  == <<PendingOrderlyShutdown, Shutdown, LogfileRotate>>
queueVars == <<queue, count, status>>
placeVars == <<batch, current, cursor>>
vars == <<flagVars, exited, workPending, queueVars, pc, placeVars, torn>>
-----------------------------------------------------------------------------
Workers  == {"Input", "Process", "Output"}
Threads  == {"Main", "Handler"} \cup Workers \cup Rotators
Commands == 1..MaxCmds

New(e)      == e \in queue /\ status[e] = 0

\* Mutant: a new command is taken for a finished one.
FinishedOrNew(e) == e \in queue /\ status[e] # 1
Finished(e) == e \in queue /\ status[e] \in {2, 3}
Least(e, S) == e \in S /\ \A f \in S : e <= f

Goto(t, label) == pc' = [pc EXCEPT ![t] = label]

\* pthread_cond_signal() on worker w's condition, by thread t that goes on at label.
SignalAndGoto(w, t, label) ==
    pc' = [pc EXCEPT ![w] = IF @ = "condwait" THEN "check" ELSE @, ![t] = label]

Exit(how) == exited' = how /\ pc' = [t \in Threads |-> "exited"]

\* Process holds CmdProcessMutex in setCmdProcessWorkPending, CmdOutputMutex in
\* setCmdOutputWorkPending.
CondMutexFree(w) ==
    /\ w = "Process" => pc["Process"] # "setProcessWork"
    /\ w = "Output"  => pc["Process"] # "setOutputWork"
CmdQueueMutexFree == pc["Input"] \notin {"append", "announce"} /\ pc["Output"] # "showing"
LogRotateMutexFree ==
    \A r \in Rotators : pc[r] \in {"none", "start", "leave", "exited"}
MutexesDestroyed == pc["Main"] = "delete"

\* A walk that an element was freed under either reads a pointer malloc() left there
\* and crashes, or finds that the memory became a new element, whose next is NULL.
Walking == pc["Process"] \in {"search", "setOutputWork", "setProcessWork"}
FlagAfterWalk(now) ==
    {now} \cup (IF torn THEN {TRUE} ELSE {})
          \cup (IF torn /\ pc["Input"] \in {"append", "announce"} THEN {FALSE} ELSE {})

Init ==
    /\ PendingOrderlyShutdown = FALSE /\ Shutdown = FALSE /\ LogfileRotate = FALSE
    /\ exited = "no"
    /\ workPending = [w \in Workers |-> FALSE]
    /\ queue = {} /\ count = 0
    /\ status = [e \in Commands |-> 0]
    /\ pc = [t \in Threads |-> IF t \in Workers THEN "check"
                               ELSE IF t \in Rotators THEN "none" ELSE "sigwait"]
    /\ batch = 0 /\ current = 0 /\ cursor = 0
    /\ torn = FALSE
-----------------------------------------------------------------------------
(* SignalHandlerThread *)

\* ignoreSignal() but for LnkLstCount(), which Accepts and CountCrash stand for.

\* Mutant: the test of CmdInputWorkPending is missing.
IgnoredUnlessReading == LogfileRotate \/ PendingOrderlyShutdown
Ignored == workPending["Input"] \/ LogfileRotate \/ PendingOrderlyShutdown

InterruptArrives ==
    /\ "INT" \in Signals /\ pc["Handler"] = "sigwait"
    /\ Exit("INT")
    /\ UNCHANGED <<flagVars, workPending, queueVars, placeVars, torn>>

\* Output frees an element that the handler stands on while it counts the queue.
CountCrash ==
    /\ pc["Handler"] = "sigwait" /\ Signals \ {"INT"} # {} /\ ~workPending["Input"]
    /\ pc["Output"] = "showing" /\ \E e \in queue : Finished(e) /\ e # current
    /\ Exit("crash")
    /\ UNCHANGED <<flagVars, workPending, queueVars, placeVars, torn>>

Accepts(sig) ==
    /\ sig \in Signals /\ pc["Handler"] = "sigwait"
    /\ queue = {} /\ ~Ignored

TermAccepted ==
    /\ Accepts("TERM")
    /\ PendingOrderlyShutdown' = TRUE
    /\ UNCHANGED <<Shutdown, LogfileRotate, exited, workPending, queueVars, pc, placeVars, torn>>

HupAccepted ==
    /\ Accepts("HUP")
    /\ workPending' = [workPending EXCEPT !["Input"] = TRUE]
    /\ SignalAndGoto("Input", "Handler", "sigwait")
    /\ UNCHANGED <<flagVars, exited, queueVars, placeVars, torn>>

Usr1Accepted(r) ==
    /\ Accepts("USR1")
    /\ pc[r] = "none" /\ Goto(r, "start")
    /\ UNCHANGED <<flagVars, exited, workPending, queueVars, placeVars, torn>>

\* SIGQUIT from endServer(); one from another process is ignored.
QuitArrives ==
    /\ pc["Handler"] = "sigwait" /\ pc["Main"] = "joinHandler"
    /\ Goto("Handler", "ended")
    /\ UNCHANGED <<flagVars, exited, workPending, queueVars, placeVars, torn>>

Environment == \/ InterruptArrives \/ CountCrash \/ TermAccepted \/ HupAccepted
               \/ \E r \in Rotators : Usr1Accepted(r)
-----------------------------------------------------------------------------
(* What the three workers have in common: the top of their loops. *)

WorkLabel(w) == CASE w = "Input" -> "readWork" [] w = "Process" -> "search" [] w = "Output" -> "show"

\* Mutant: the loop does not test LogfileRotate.
WaitIgnoresRotate(w) ==
    /\ pc[w] = "check" /\ CondMutexFree(w)
    /\ \/ Shutdown /\ Goto(w, "ended")
       \/ ~Shutdown /\ workPending[w] /\ Goto(w, "readRotate")
       \/ ~(workPending[w] \/ Shutdown) /\ Goto(w, "condwait")
    /\ UNCHANGED <<flagVars, exited, workPending, queueVars, placeVars, torn>>

\* The while loop around PTHREAD_COND_WAIT, and the look at Shutdown after it.
Wait(w) ==
    /\ pc[w] = "check" /\ CondMutexFree(w)
    /\ \/ Shutdown /\ Goto(w, "ended")
       \/ ~Shutdown /\ (workPending[w] \/ LogfileRotate) /\ Goto(w, "readRotate")
       \/ ~(workPending[w] \/ Shutdown \/ LogfileRotate) /\ Goto(w, "condwait")
    /\ UNCHANGED <<flagVars, exited, workPending, queueVars, placeVars, torn>>

ReadRotate(w) ==
    /\ pc[w] = "readRotate"
    /\ Goto(w, IF LogfileRotate THEN "barrierStart" ELSE WorkLabel(w))
    /\ UNCHANGED <<flagVars, exited, workPending, queueVars, placeVars, torn>>
-----------------------------------------------------------------------------
(* CmdInputThread *)

ReadWork ==
    /\ pc["Input"] = "readWork"
    /\ Goto("Input", IF workPending["Input"] THEN "read" ELSE "check")
    /\ UNCHANGED <<flagVars, exited, workPending, queueVars, placeVars, torn>>

\* getCmd reads a line with n commands; addCmdQueue locks CmdQueueMutex.
ReadLine(n) ==
    /\ pc["Input"] = "read" /\ count + n <= MaxCmds
    /\ CmdQueueMutexFree
    /\ batch' = n
    /\ Goto("Input", "append")
    /\ UNCHANGED <<flagVars, exited, workPending, queueVars, current, cursor, torn>>

AppendCmd ==
    /\ pc["Input"] = "append"
    /\ count' = count + 1
    /\ queue' = queue \cup {count + 1}
    /\ status' = [status EXCEPT ![count + 1] = 0]
    /\ Goto("Input", "announce")
    /\ UNCHANGED <<flagVars, exited, workPending, placeVars, torn>>

\* Mutant: one command too many.
LastOfLineLate == batch = 0
LastOfLine == batch = 1

\* setCmdProcessWorkPending(1)
AnnounceCmd ==
    /\ pc["Input"] = "announce" /\ CondMutexFree("Process")
    /\ workPending' = [workPending EXCEPT !["Process"] = \E e \in queue : New(e)]
    /\ batch' = batch - 1
    /\ SignalAndGoto("Process", "Input", IF LastOfLine THEN "read" ELSE "append")
    /\ UNCHANGED <<flagVars, exited, queueVars, current, cursor, torn>>

\* The end of the file, a read error, or a file that could not be opened.
EndInput ==
    /\ pc["Input"] = "read"
    /\ workPending' = [workPending EXCEPT !["Input"] = FALSE]
    /\ Goto("Input", "check")
    /\ UNCHANGED <<flagVars, exited, queueVars, placeVars, torn>>

InputStep == \/ Wait("Input") \/ ReadRotate("Input") \/ ReadWork
             \/ \E n \in 1..MaxBatch : ReadLine(n)
             \/ AppendCmd \/ AnnounceCmd \/ EndInput
-----------------------------------------------------------------------------
(* CmdProcessThread *)

\* The for loop finds an element that is new and processCmdQueue locks it.
StartCmd(e) ==
    /\ pc["Process"] = "search"
    /\ New(e)
    /\ torn \/ Least(e, {f \in queue : New(f)})
    /\ status' = [status EXCEPT ![e] = 1]
    /\ current' = e
    /\ torn' = FALSE
    /\ Goto("Process", "run")
    /\ UNCHANGED <<flagVars, exited, workPending, queue, count, batch, cursor>>

NothingNew ==
    /\ pc["Process"] = "search"
    /\ torn \/ \A e \in queue : ~New(e)
    /\ torn' = FALSE
    /\ Goto("Process", "setProcessWork")
    /\ UNCHANGED <<flagVars, exited, workPending, queueVars, placeVars>>

\* SysCmdStrLst returns: 2 for an error, 3 for a response.
EndCmd(result) ==
    /\ pc["Process"] = "run"
    /\ status' = [status EXCEPT ![current] = result]
    /\ Goto("Process", "unlock")
    /\ UNCHANGED <<flagVars, exited, workPending, queue, count, placeVars, torn>>

UnlockCmd ==
    /\ pc["Process"] = "unlock"
    /\ current' = 0
    /\ Goto("Process", "setOutputWork")
    /\ UNCHANGED <<flagVars, exited, workPending, queueVars, batch, cursor, torn>>

\* The end of setCmdOutputWorkPending(1).
SetOutputWork ==
    /\ pc["Process"] = "setOutputWork"
    /\ \E flag \in FlagAfterWalk(\E e \in queue : Finished(e)) :
           workPending' = [workPending EXCEPT !["Output"] = flag]
    /\ torn' = FALSE
    /\ SignalAndGoto("Output", "Process", "setProcessWork")
    /\ UNCHANGED <<flagVars, exited, queueVars, placeVars>>

\* Mutant: the flag is cleared without a look at the queue.
SetProcessWorkClears ==
    /\ pc["Process"] = "setProcessWork"
    /\ workPending' = [workPending EXCEPT !["Process"] = FALSE]
    /\ torn' = FALSE
    /\ Goto("Process", "check")
    /\ UNCHANGED <<flagVars, exited, queueVars, placeVars>>

\* The end of setCmdProcessWorkPending(0).
SetProcessWork ==
    /\ pc["Process"] = "setProcessWork"
    /\ \E flag \in FlagAfterWalk(\E e \in queue : New(e)) :
           workPending' = [workPending EXCEPT !["Process"] = flag]
    /\ torn' = FALSE
    /\ Goto("Process", "check")
    /\ UNCHANGED <<flagVars, exited, queueVars, placeVars>>

ProcessCrash ==
    /\ pc["Process"] \in {"search", "setOutputWork", "setProcessWork"} /\ torn
    /\ Exit("crash")
    /\ UNCHANGED <<flagVars, workPending, queueVars, placeVars, torn>>

ProcessStep == \/ Wait("Process") \/ ReadRotate("Process")
               \/ \E e \in Commands : StartCmd(e)
               \/ NothingNew
               \/ \E result \in {2, 3} : EndCmd(result)
               \/ UnlockCmd \/ SetOutputWork \/ SetProcessWork \/ ProcessCrash
-----------------------------------------------------------------------------
(* CmdOutputThread *)

LockQueue ==
    /\ pc["Output"] = "show" /\ CmdQueueMutexFree
    /\ cursor' = 0
    /\ Goto("Output", "showing")
    /\ UNCHANGED <<flagVars, exited, workPending, queueVars, batch, current, torn>>

Ahead == {e \in queue : e > cursor}

PassCmd(e) ==
    /\ pc["Output"] = "showing"
    /\ Least(e, Ahead) /\ ~Finished(e)
    /\ cursor' = e
    /\ UNCHANGED <<flagVars, exited, workPending, queueVars, pc, batch, current, torn>>

\* The response is logged and the element freed.  Its mutex cannot be destroyed
\* while Process holds it: PTHREAD_MUTEX_DESTROY ends the process.
ShowCmd(e) ==
    /\ pc["Output"] = "showing"
    /\ Least(e, Ahead) /\ Finished(e)
    /\ \/ /\ e # current
          /\ queue' = queue \ {e} /\ cursor' = e
          /\ torn' = (torn \/ Walking)
          /\ UNCHANGED <<pc, exited>>
       \/ e = current /\ Exit("SysExit") /\ UNCHANGED <<queue, cursor, torn>>
    /\ UNCHANGED <<flagVars, workPending, count, status, batch, current>>

UnlockQueue ==
    /\ pc["Output"] = "showing" /\ Ahead = {}
    /\ cursor' = 0
    /\ Goto("Output", "clearOutputWork")
    /\ UNCHANGED <<flagVars, exited, workPending, queueVars, batch, current, torn>>

\* setCmdOutputWorkPending(0)
ClearOutputWork ==
    /\ pc["Output"] = "clearOutputWork" /\ CondMutexFree("Output")
    /\ workPending' = [workPending EXCEPT !["Output"] = \E e \in queue : Finished(e)]
    /\ Goto("Output", "check")
    /\ UNCHANGED <<flagVars, exited, queueVars, placeVars, torn>>

OutputStep == \/ Wait("Output") \/ ReadRotate("Output") \/ LockQueue
              \/ \E e \in Commands : PassCmd(e) \/ ShowCmd(e)
              \/ UnlockQueue \/ ClearOutputWork
-----------------------------------------------------------------------------
(* LogRotateThread and the barriers *)

\* The thread that is after w in the order of signals, and where a thread signals it.
SignalLabel(w) == CASE w = "Input" -> "signalInput" [] w = "Process" -> "signalProcess"
                    [] w = "Output" -> "signalOutput"

\* Mutant: the Process thread is not signalled.
AfterSignalSkips(w) == IF w = "Input" THEN "signalOutput" ELSE "barrierStart"
AfterSignal(w) == CASE w = "Input" -> "signalProcess" [] w = "Process" -> "signalOutput"
                    [] w = "Output" -> "barrierStart"

\* Once endServer has destroyed the mutexes, to lock one of them ends the process.
RotateFails(r) ==
    /\ pc[r] \in {"start", "leave"} /\ MutexesDestroyed
    /\ Exit("SysExit")
    /\ UNCHANGED <<flagVars, workPending, queueVars, placeVars, torn>>

RotateBegin(r) ==
    /\ pc[r] = "start" /\ ~MutexesDestroyed /\ LogRotateMutexFree
    /\ LogfileRotate' = TRUE
    /\ Goto(r, SignalLabel("Input"))
    /\ UNCHANGED <<PendingOrderlyShutdown, Shutdown, exited, workPending, queueVars, placeVars, torn>>

RotateSignals(r, w) ==
    /\ pc[r] = SignalLabel(w) /\ CondMutexFree(w)
    /\ SignalAndGoto(w, r, AfterSignal(w))
    /\ UNCHANGED <<flagVars, exited, workPending, queueVars, placeVars, torn>>

\* The four threads that meet at the barriers when r rotates.
Party(r) == Workers \cup {r}

\* Mutant: there is no second barrier.
OpenOnlyBarrier(r, s) ==
    /\ \A t \in Party(r) : pc[t] = "barrierStart"
    /\ pc' = [t \in Threads |-> IF t = s THEN "openLogfile" ELSE IF t = r THEN "unlock"
                                ELSE IF t \in Workers THEN WorkLabel(t) ELSE pc[t]]
    /\ UNCHANGED <<flagVars, exited, workPending, queueVars, placeVars, torn>>

\* The barrier opens; it calls one of the threads, s, the serial thread.
OpenBarrierStart(r, s) ==
    /\ \A t \in Party(r) : pc[t] = "barrierStart"
    /\ pc' = [t \in Threads |-> IF t = s THEN "openLogfile"
                                ELSE IF t \in Party(r) THEN "barrierEnd" ELSE pc[t]]
    /\ UNCHANGED <<flagVars, exited, workPending, queueVars, placeVars, torn>>

OpenLogfile(s) ==
    /\ pc[s] = "openLogfile"
    /\ LogfileRotate' = FALSE
    /\ Goto(s, "barrierEnd")
    /\ UNCHANGED <<PendingOrderlyShutdown, Shutdown, exited, workPending, queueVars, placeVars, torn>>

OpenBarrierEnd(r) ==
    /\ \A t \in Party(r) : pc[t] = "barrierEnd"
    /\ pc' = [t \in Threads |-> IF t \in Workers THEN WorkLabel(t)
                                ELSE IF t = r THEN "unlock" ELSE pc[t]]
    /\ UNCHANGED <<flagVars, exited, workPending, queueVars, placeVars, torn>>

RotateUnlock(r) ==
    /\ pc[r] = "unlock"
    /\ Goto(r, "leave")
    /\ UNCHANGED <<flagVars, exited, workPending, queueVars, placeVars, torn>>

\* The thread takes itself off the list of threads.
RotateEnd(r) ==
    /\ pc[r] = "leave" /\ ~MutexesDestroyed
    /\ Goto(r, "none")
    /\ UNCHANGED <<flagVars, exited, workPending, queueVars, placeVars, torn>>

RotateStep(r) ==
    \/ RotateFails(r) \/ RotateBegin(r) \/ RotateUnlock(r) \/ RotateEnd(r)
    \/ \E w \in Workers : RotateSignals(r, w)
    \/ \E s \in Party(r) : OpenBarrierStart(r, s) \/ OpenLogfile(s)
    \/ OpenBarrierEnd(r)
-----------------------------------------------------------------------------
(* Main: the end of main() and endServer() *)

JoinLabel(w) == CASE w = "Input" -> "joinInput" [] w = "Output" -> "joinOutput"
                  [] w = "Process" -> "joinProcess"
AfterJoin(w) == CASE w = "Input" -> "signalOutput" [] w = "Output" -> "signalProcess"
                  [] w = "Process" -> "lockRotate"

\* sigwait() returns SIGPOLL, which the handler sends with PendingOrderlyShutdown.
StartShutdown ==
    /\ pc["Main"] = "sigwait" /\ PendingOrderlyShutdown
    /\ Shutdown' = TRUE
    /\ Goto("Main", "signalInput")
    /\ UNCHANGED <<PendingOrderlyShutdown, LogfileRotate, exited, workPending, queueVars, placeVars, torn>>

\* Mutant: the thread is joined without a signal.
EndSignalsNot(w) ==
    /\ pc["Main"] = SignalLabel(w)
    /\ Goto("Main", JoinLabel(w))
    /\ UNCHANGED <<flagVars, exited, workPending, queueVars, placeVars, torn>>

EndSignals(w) ==
    /\ pc["Main"] = SignalLabel(w) /\ CondMutexFree(w)
    /\ SignalAndGoto(w, "Main", JoinLabel(w))
    /\ UNCHANGED <<flagVars, exited, workPending, queueVars, placeVars, torn>>

EndJoins(w) ==
    /\ pc["Main"] = JoinLabel(w) /\ pc[w] = "ended"
    /\ Goto("Main", AfterJoin(w))
    /\ UNCHANGED <<flagVars, exited, workPending, queueVars, placeVars, torn>>

\* LogRotateMutex is locked and unlocked; SIGQUIT is sent.
AwaitRotation ==
    /\ pc["Main"] = "lockRotate" /\ LogRotateMutexFree
    /\ Goto("Main", "joinHandler")
    /\ UNCHANGED <<flagVars, exited, workPending, queueVars, placeVars, torn>>

DestroyMutexes ==
    /\ pc["Main"] = "joinHandler" /\ pc["Handler"] = "ended"
    /\ Goto("Main", "delete")
    /\ UNCHANGED <<flagVars, exited, workPending, queueVars, placeVars, torn>>

\* The lock file is deleted and main() returns.
EndServer ==
    /\ pc["Main"] = "delete"
    /\ Exit("ended")
    /\ UNCHANGED <<flagVars, workPending, queueVars, placeVars, torn>>

MainStep == \/ StartShutdown \/ AwaitRotation \/ DestroyMutexes \/ EndServer
            \/ \E w \in Workers : EndSignals(w) \/ EndJoins(w)
-----------------------------------------------------------------------------
Next == \/ Environment \/ QuitArrives \/ InputStep \/ ProcessStep \/ OutputStep \/ MainStep
        \/ \E r \in Rotators : RotateStep(r)

Spec == Init /\ [][Next]_vars

\* Every thread that can go on does, and a command comes to an end.  Nothing is
\* asked of the signals.
Fairness == /\ WF_vars(QuitArrives) /\ WF_vars(InputStep) /\ WF_vars(ProcessStep)
            /\ WF_vars(OutputStep) /\ WF_vars(MainStep)
            /\ \A r \in Rotators : WF_vars(RotateStep(r))
FairSpec == Spec /\ Fairness
=============================================================================
