--------------------------- MODULE CmdServerProps ---------------------------
(***************************************************************************)
(* Properties of the command server.                                       *)
(***************************************************************************)
EXTENDS CmdServer

WorkerPlaces  == {"check", "condwait", "readRotate", "barrierStart", "openLogfile", "barrierEnd", "ended",
                  "exited"}
InputPlaces   == WorkerPlaces \cup {"readWork", "read", "append", "announce"}
ProcessPlaces == WorkerPlaces \cup {"search", "run", "unlock", "setOutputWork", "setProcessWork"}
OutputPlaces  == WorkerPlaces \cup {"show", "showing", "clearOutputWork"}
RotatorPlaces == {"none", "start", "signalInput", "signalProcess", "signalOutput", "barrierStart",
                  "openLogfile", "barrierEnd", "unlock", "leave", "exited"}
HandlerPlaces == {"sigwait", "ended", "exited"}
MainPlaces    == {"sigwait", "signalInput", "joinInput", "signalOutput", "joinOutput", "signalProcess",
                  "joinProcess", "lockRotate", "joinHandler", "delete", "exited"}

PlacesOf(t) ==
    CASE t = "Main" -> MainPlaces [] t = "Handler" -> HandlerPlaces [] t = "Input" -> InputPlaces
      [] t = "Process" -> ProcessPlaces [] t = "Output" -> OutputPlaces
      [] t \in Rotators -> RotatorPlaces

PlacesOK ==
    /\ pc = [t \in Threads |-> pc[t]]
    /\ \A t \in Threads : pc[t] \in PlacesOf(t)

DataOK ==
    /\ PendingOrderlyShutdown \in BOOLEAN /\ Shutdown \in BOOLEAN /\ LogfileRotate \in BOOLEAN
    /\ exited \in {"no", "INT", "crash", "SysExit", "ended"}
    /\ workPending \in [Workers -> BOOLEAN]
    /\ count \in 0..MaxCmds /\ queue \subseteq 1..count
    /\ status \in [Commands -> 0..3]
    /\ batch \in 0..MaxBatch /\ current \in 0..MaxCmds /\ cursor \in 0..MaxCmds
    /\ torn \in BOOLEAN

\* Types, and: only commands that were appended are in the queue.
TypeOK == DataOK /\ PlacesOK

\* SIGTERM is accepted only when no command is left to be read, run or shown, and
\* none comes after it: no command is dropped by the orderly shutdown, whatever
\* the threads are doing when the signal arrives (ignoreSignal, main.c:360).
NothingDropped ==
    PendingOrderlyShutdown => ~workPending["Input"] /\ queue = {} /\ batch = 0

\* The three parts of NoLostSignal, by who has to signal: Input and Process, the log
\* rotation threads, Main.
CommandsSignalled ==
    /\ pc["Process"] = "condwait" /\ (\E e \in queue : New(e)) =>
           pc["Input"] \in {"append", "announce"}
    /\ pc["Output"] = "condwait" /\ (\E e \in queue : Finished(e)) =>
           pc["Process"] \in {"unlock", "setOutputWork"}
    /\ pc["Input"] = "condwait" => ~workPending["Input"]

RotatorAt(labels) == \E r \in Rotators : pc[r] \in labels
RotationSignalled ==
    LogfileRotate =>
        /\ pc["Input"] = "condwait" => RotatorAt({"signalInput"})
        /\ pc["Process"] = "condwait" => RotatorAt({"signalInput", "signalProcess"})
        /\ pc["Output"] = "condwait" => RotatorAt({"signalInput", "signalProcess", "signalOutput"})

MainAt(labels) == pc["Main"] \in labels
ShutdownSignalled ==
    Shutdown =>
        /\ pc["Input"] = "condwait" => MainAt({"signalInput"})
        /\ pc["Output"] = "condwait" => MainAt({"signalInput", "joinInput", "signalOutput"})
        /\ pc["Process"] = "condwait" =>
               MainAt({"signalInput", "joinInput", "signalOutput", "joinOutput", "signalProcess"})

\* A worker that is blocked on its condition has nothing to do, or another thread
\* is about to signal it: commands (setCmd...WorkPending), a rotation
\* (LogRotateThread), the shutdown (endServer).
NoLostSignal == CommandsSignalled /\ RotationSignalled /\ ShutdownSignalled

\* What makes NothingDropped inductive: Input is in getCmd only while CmdInputWorkPending
\* is set, and there is room for the commands of its line.
InputInv ==
    /\ pc["Input"] \in {"read", "append", "announce"} => workPending["Input"]
    /\ batch # 0 => pc["Input"] \in {"append", "announce", "exited"} /\ workPending["Input"]
    /\ pc["Input"] = "append" => batch > 0 /\ count + batch <= MaxCmds
    /\ pc["Input"] = "announce" => batch > 0 /\ count + batch <= MaxCmds + 1

\* What makes QuietRotation inductive: LogRotateMutex has one holder, and while a
\* thread replaces the log file the workers have not passed the second barrier.
HoldsRotateMutex(r) == pc[r] \notin {"none", "start", "leave", "exited"}
RotateInv ==
    /\ \A q, r \in Rotators : HoldsRotateMutex(q) /\ HoldsRotateMutex(r) => q = r
    /\ \A t \in Threads : pc[t] = "openLogfile" =>
           \A w \in Workers : pc[w] \in {"openLogfile", "barrierEnd"}

\* While Process runs a command it stands on one that is there.
ProcessInv == pc["Process"] \in {"run", "unlock"} => current \in Commands

CmdInv == TypeOK /\ InputInv /\ NothingDropped /\ RotateInv /\ ProcessInv

\* The process ends as a whole, and Main ends it in order only after SIGTERM.
LifeInv ==
    /\ \A t \in Threads : pc[t] = "exited" <=> exited # "no"
    /\ pc["Main"] \notin {"sigwait", "exited"} => PendingOrderlyShutdown

\* The command that runs is in the queue, and it is the only one that runs.
RunInv ==
    /\ pc["Process"] = "run" => current \in queue /\ status[current] = 1
    /\ \A e \in queue : status[e] = 1 => e = current /\ pc["Process"] \in {"run", "exited"}

\* What makes ImplementsService inductive.
ServiceInv == LifeInv /\ RunInv

\* What makes NoLostSignal inductive: a CmdXxxWorkPending flag is behind the queue only
\* while a thread is on its way to set it, and none is set for a worker that is blocked.
\* A walk that was torn may set CmdOutputWorkPending wrongly, but then Output is up.
WorkInv ==
    /\ (\E e \in queue : New(e)) =>
           workPending["Process"] \/ pc["Input"] \in {"append", "announce", "exited"}
    /\ (\E e \in queue : Finished(e)) =>
           \/ workPending["Output"] \/ pc["Process"] \in {"unlock", "setOutputWork", "exited"}
           \/ pc["Output"] \in {"showing", "clearOutputWork"}
    /\ torn => Walking \/ pc["Process"] = "exited"
    /\ torn /\ pc["Process"] = "setOutputWork" => pc["Output"] \in {"showing", "clearOutputWork"}
    /\ \A w \in Workers : pc[w] = "condwait" => ~workPending[w]

\* The log file is replaced only while the three workers stand at the end barrier:
\* none of them reads, runs or shows a command at that moment (waitLogfileBarrierStart).
QuietRotation ==
    [][LogfileRotate /\ ~LogfileRotate' =>
           \A w \in Workers : pc[w] \in {"openLogfile", "barrierEnd"}]_vars

Alive == exited = "no"

\* What SIGHUP asked for is done in the end: the file is read and all its commands
\* have been run and shown, with rotations and SIGTERM at any time.  (The process
\* may end instead: SIGINT, a walk on freed memory, a mutex destroyed in use.)
QueueDrains ==
    (workPending["Input"] \/ queue # {}) ~> ((~workPending["Input"] /\ queue = {}) \/ ~Alive)

\* A rotation that has begun before SIGTERM was accepted comes to an end: its thread
\* meets the workers at both barriers and releases LogRotateMutex.
RotationEnds ==
    \A r \in Rotators :
        (pc[r] = "signalInput" /\ ~PendingOrderlyShutdown) ~> (pc[r] = "none" \/ ~Alive)

\* After SIGTERM the server ends, if no log rotation thread is there at that moment.
QuietShutdownEnds ==
    (PendingOrderlyShutdown /\ \A r \in Rotators : pc[r] = "none") ~> ~Alive

\* "Wait for log rotation (if any) to complete" (main.c:790): after SIGTERM the
\* server ends, log rotation or not.
ShutdownEnds == PendingOrderlyShutdown ~> ~Alive

\* The server as CommandService: an element that is not in the queue any more has
\* been shown; PendingOrderlyShutdown closes the server.
StateOf(c) ==
    IF c > count THEN "unread" ELSE IF c \notin queue THEN "shown"
    ELSE CASE status[c] = 0 -> "new" [] status[c] = 1 -> "running" [] OTHER -> "finished"
ServiceState == [c \in Commands |-> StateOf(c)]
ServiceServer ==
    CASE exited = "ended" -> "stopped"
      [] exited = "no" -> IF PendingOrderlyShutdown THEN "closed" ELSE "open"
      [] OTHER -> "failed"
Service == INSTANCE CommandService WITH state <- ServiceState, server <- ServiceServer

\* Every behaviour of the server is one of CommandService.
ImplementsService == Service!Spec
=============================================================================
