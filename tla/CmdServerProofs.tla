--------------------------- MODULE CmdServerProofs ---------------------------
(***************************************************************************)
(* Proofs about the command server, for any number of commands and of log  *)
(* rotation threads: nothing is dropped at shutdown, a rotation is quiet,  *)
(* no signal is lost, and it keeps the promises of CommandService.         *)
(***************************************************************************)
EXTENDS CmdServerProps, TLAPS

\* Where each thread may be.
LEMMA PlacesLemma ==
    /\ PlacesOf("Main") = MainPlaces /\ PlacesOf("Handler") = HandlerPlaces
    /\ PlacesOf("Input") = InputPlaces /\ PlacesOf("Process") = ProcessPlaces
    /\ PlacesOf("Output") = OutputPlaces
    /\ \A r \in Rotators : PlacesOf(r) = RotatorPlaces
  <1>1. \A r \in Rotators : r \notin {"Main", "Handler", "Input", "Process", "Output"}
    BY CmdAssumption DEF CmdAssumption
  <1> QED
    BY <1>1 DEF PlacesOf

\* Every thread may be "exited".
LEMMA ExitedPlace == \A t \in Threads : "exited" \in PlacesOf(t)
  BY PlacesLemma DEF Threads, Workers, MainPlaces, HandlerPlaces, InputPlaces,
       ProcessPlaces, OutputPlaces, WorkerPlaces, RotatorPlaces

LEMMA ThreadsLemma ==
    /\ "Main" \in Threads /\ "Handler" \in Threads /\ "Input" \in Threads /\ "Process" \in Threads
    /\ "Output" \in Threads
    /\ \A r \in Rotators : r \in Threads
    /\ \A w \in Workers : w \in Threads
    /\ \A r \in Rotators : r \notin {"Main", "Handler", "Input", "Process", "Output"}
  BY CmdAssumption DEF CmdAssumption, Threads, Workers

LEMMA GotoPlaces ==
    ASSUME PlacesOK, NEW t \in Threads, NEW label, label \in PlacesOf(t), Goto(t, label)
    PROVE  PlacesOK'
  BY DEF PlacesOK, Goto

LEMMA SignalPlaces ==
    ASSUME PlacesOK, NEW t \in Threads, NEW label, label \in PlacesOf(t),
           NEW w \in Workers, SignalAndGoto(w, t, label)
    PROVE  PlacesOK'
  <1>1. w \in Threads /\ "check" \in PlacesOf(w)
    BY PlacesLemma DEF Threads, Workers, InputPlaces, ProcessPlaces, OutputPlaces, WorkerPlaces
  <1> QED
    BY <1>1 DEF PlacesOK, SignalAndGoto

LEMMA ExitPlaces ==
    ASSUME PlacesOK, NEW how, Exit(how)
    PROVE  PlacesOK'
  BY ExitedPlace DEF PlacesOK, Exit

\* The program starts with everything in its place.
LEMMA InitInv == Init => CmdInv
  <1> SUFFICES ASSUME Init PROVE CmdInv
    OBVIOUS
  <1>1. PlacesOK
    <2>1. ASSUME NEW t \in Threads PROVE pc[t] \in PlacesOf(t)
      BY PlacesLemma, ThreadsLemma DEF Init, Threads, Workers, MainPlaces, HandlerPlaces, InputPlaces,
           ProcessPlaces, OutputPlaces, WorkerPlaces, RotatorPlaces
    <2> QED
      BY <2>1 DEF Init, PlacesOK
  <1>2. DataOK
    <2>1. workPending \in [Workers -> BOOLEAN] /\ status \in [Commands -> 0..3]
      BY DEF Init
    <2>2. count \in 0..MaxCmds /\ queue \subseteq 1..count
      BY CmdAssumption DEF CmdAssumption, Init
    <2>3. batch \in 0..MaxBatch /\ current \in 0..MaxCmds /\ cursor \in 0..MaxCmds
      BY CmdAssumption DEF CmdAssumption, Init
    <2> QED
      BY <2>1, <2>2, <2>3 DEF Init, DataOK
  <1>3. InputInv /\ NothingDropped /\ ProcessInv
    BY ThreadsLemma DEF Init, InputInv, NothingDropped, ProcessInv, Workers
  <1>4. RotateInv
    BY ThreadsLemma DEF Init, RotateInv, HoldsRotateMutex, Workers, Threads
  <1> QED
    BY <1>1, <1>2, <1>3, <1>4 DEF CmdInv, TypeOK
-----------------------------------------------------------------------------
(* Steps that leave an invariant alone. *)

\* Thread t is where it was, or was signalled.
Rests(t) == pc'[t] = pc[t] \/ (pc[t] = "condwait" /\ pc'[t] = "check")

LEMMA GotoRests ==
    ASSUME PlacesOK, NEW t \in Threads, NEW label, Goto(t, label)
    PROVE  pc'[t] = label /\ \A u \in Threads : u # t => pc'[u] = pc[u]
  BY DEF PlacesOK, Goto

LEMMA SignalRests ==
    ASSUME PlacesOK, NEW t \in Threads, NEW label, NEW w \in Workers, SignalAndGoto(w, t, label)
    PROVE  pc'[t] = label /\ \A u \in Threads : u # t => Rests(u)
  BY ThreadsLemma DEF PlacesOK, SignalAndGoto, Rests

\* What holds of Input, Process and the queue: a step of another thread.
AwayFromQueue ==
    /\ UNCHANGED <<PendingOrderlyShutdown, count, batch, current>>
    /\ queue' \subseteq queue
    /\ workPending'["Input"] = workPending["Input"]
    /\ Rests("Input") /\ Rests("Process")

QueueInv == InputInv /\ NothingDropped /\ ProcessInv

LEMMA AwayInv ==
    ASSUME QueueInv, AwayFromQueue
    PROVE  QueueInv'
  <1>1. InputInv'
    BY DEF QueueInv, AwayFromQueue, InputInv, Rests
  <1>2. NothingDropped'
    BY DEF QueueInv, AwayFromQueue, NothingDropped
  <1>3. ProcessInv'
    BY DEF QueueInv, AwayFromQueue, ProcessInv, Rests
  <1> QED
    BY <1>1, <1>2, <1>3 DEF QueueInv

\* What holds of the rotation: thread t stays away from the barriers.
LEMMA RotateFrame ==
    ASSUME RotateInv, 
           \A r \in Rotators : HoldsRotateMutex(r)' => HoldsRotateMutex(r),
           \A t \in Threads : pc'[t] = "openLogfile" => pc[t] = "openLogfile",
           \A w \in Workers : pc[w] \in {"openLogfile", "barrierEnd"} =>
                                  pc'[w] \in {"openLogfile", "barrierEnd"}
    PROVE  RotateInv'
  BY DEF RotateInv

LEMMA RotateRests ==
    ASSUME PlacesOK, RotateInv, NEW t \in Threads, \A u \in Threads : u # t => Rests(u),
           pc'[t] # "openLogfile",
           pc[t] \in {"openLogfile", "barrierEnd"} => pc'[t] = "barrierEnd",
           t \in Rotators => HoldsRotateMutex(t) \/ pc'[t] \in {"none", "start", "leave", "exited"}
    PROVE  RotateInv'
  <1>1. \A u \in Threads : pc'[u] = "openLogfile" => pc[u] = "openLogfile"
    BY DEF Rests
  <1>2. \A w \in Workers : pc[w] \in {"openLogfile", "barrierEnd"} =>
                               pc'[w] \in {"openLogfile", "barrierEnd"}
    BY ThreadsLemma DEF Rests
  <1>3. \A r \in Rotators : HoldsRotateMutex(r)' => HoldsRotateMutex(r)
    BY ThreadsLemma DEF Rests, HoldsRotateMutex
  <1> QED
    BY <1>1, <1>2, <1>3, RotateFrame

LEMMA RotateExit == ASSUME NEW how, Exit(how) PROVE RotateInv'
  BY ThreadsLemma DEF Exit, RotateInv, HoldsRotateMutex

\* A thread goes on to a place that is not of the barriers.
LEMMA MoveInv ==
    ASSUME CmdInv, NEW t \in Threads, NEW label, Goto(t, label), label \in PlacesOf(t),
           label # "openLogfile", pc[t] \in {"openLogfile", "barrierEnd"} => label = "barrierEnd",
           t \in Rotators => HoldsRotateMutex(t) \/ label \in {"none", "start", "leave", "exited"},
           DataOK', QueueInv'
    PROVE  CmdInv'
  <1>1. PlacesOK'
    BY GotoPlaces DEF CmdInv, TypeOK
  <1>2. RotateInv'
    BY GotoRests, RotateRests DEF CmdInv, TypeOK, Rests
  <1> QED
    BY <1>1, <1>2 DEF CmdInv, TypeOK, QueueInv

\* The same for a thread that signals a worker.
LEMMA SignalMoveInv ==
    ASSUME CmdInv, NEW t \in Threads, NEW label, NEW w \in Workers, SignalAndGoto(w, t, label),
           label \in PlacesOf(t), label # "openLogfile", pc[t] \notin {"openLogfile", "barrierEnd"},
           t \in Rotators => HoldsRotateMutex(t) \/ label \in {"none", "start", "leave", "exited"},
           DataOK', QueueInv'
    PROVE  CmdInv'
  <1>1. PlacesOK'
    BY SignalPlaces DEF CmdInv, TypeOK
  <1>2. pc'[t] = label /\ \A u \in Threads : u # t => Rests(u)
    BY SignalRests DEF CmdInv, TypeOK
  <1>3. RotateInv'
    BY <1>2, RotateRests DEF CmdInv, TypeOK
  <1> QED
    BY <1>1, <1>3 DEF CmdInv, TypeOK, QueueInv

\* The process ends.
LEMMA ExitInv ==
    ASSUME CmdInv, NEW how \in {"INT", "crash", "SysExit", "ended"}, Exit(how),
           UNCHANGED <<flagVars, workPending, queueVars, placeVars, torn>>
    PROVE  CmdInv'
  <1>1. PlacesOK' /\ RotateInv'
    BY ExitPlaces, RotateExit DEF CmdInv, TypeOK
  <1>2. DataOK'
    BY DEF CmdInv, TypeOK, DataOK, Exit, flagVars, queueVars, placeVars
  <1>3. InputInv' /\ NothingDropped' /\ ProcessInv'
    BY ThreadsLemma DEF CmdInv, InputInv, NothingDropped, ProcessInv, Exit, flagVars, queueVars, placeVars
  <1> QED
    BY <1>1, <1>2, <1>3 DEF CmdInv, TypeOK

LEMMA DataUnchanged ==
    ASSUME DataOK, UNCHANGED <<flagVars, exited, workPending, queueVars, placeVars, torn>>
    PROVE  DataOK'
  BY DEF DataOK, flagVars, queueVars, placeVars

\* A step of a thread other than Input and Process that changes only pc.
LEMMA OnlyMoves ==
    ASSUME CmdInv, NEW t \in Threads \ {"Input", "Process"}, NEW label, Goto(t, label),
           UNCHANGED <<flagVars, exited, workPending, queueVars, placeVars, torn>>
    PROVE  DataOK' /\ QueueInv'
  <1>1. DataOK'
    BY DataUnchanged DEF CmdInv, TypeOK
  <1>2. AwayFromQueue
    BY GotoRests, ThreadsLemma DEF CmdInv, TypeOK, AwayFromQueue, Rests, flagVars, queueVars, placeVars
  <1> QED
    BY <1>1, <1>2, AwayInv DEF CmdInv, QueueInv

LEMMA OnlySignals ==
    ASSUME CmdInv, NEW t \in Threads \ {"Input", "Process"}, NEW label, NEW w \in Workers,
           SignalAndGoto(w, t, label),
           UNCHANGED <<flagVars, exited, workPending, queueVars, placeVars, torn>>
    PROVE  DataOK' /\ QueueInv'
  <1>1. DataOK'
    BY DataUnchanged DEF CmdInv, TypeOK
  <1>2. AwayFromQueue
    BY SignalRests, ThreadsLemma DEF CmdInv, TypeOK, AwayFromQueue, flagVars, queueVars, placeVars
  <1> QED
    BY <1>1, <1>2, AwayInv DEF CmdInv, QueueInv
-----------------------------------------------------------------------------
LEMMA EnvironmentInv == ASSUME CmdInv, Environment \/ QuitArrives PROVE CmdInv'
  <1>1. CASE InterruptArrives
    BY <1>1, ExitInv DEF InterruptArrives
  <1>2. CASE CountCrash
    BY <1>2, ExitInv DEF CountCrash
  <1>3. CASE TermAccepted
    <2>1. PlacesOK' /\ RotateInv'
      BY <1>3 DEF CmdInv, TypeOK, TermAccepted, PlacesOK, RotateInv, HoldsRotateMutex
    <2>2. DataOK'
      BY <1>3 DEF CmdInv, TypeOK, DataOK, TermAccepted, queueVars, placeVars
    <2>3. InputInv' /\ ProcessInv'
      BY <1>3 DEF CmdInv, InputInv, ProcessInv, TermAccepted, queueVars, placeVars
    <2>4. NothingDropped'
      BY <1>3 DEF CmdInv, InputInv, NothingDropped, TermAccepted, Accepts, Ignored, queueVars, placeVars
    <2> QED
      BY <2>1, <2>2, <2>3, <2>4 DEF CmdInv, TypeOK
  <1>4. CASE HupAccepted
    <2>1. "Handler" \in Threads /\ "Input" \in Workers /\ "sigwait" \in PlacesOf("Handler")
          /\ "Handler" \notin Rotators /\ "Input" \in Threads
      BY ThreadsLemma, PlacesLemma DEF Workers, HandlerPlaces
    <2>2. Rests("Input") /\ Rests("Process") /\ pc["Handler"] = "sigwait"
      BY <1>4, <2>1, SignalRests, ThreadsLemma DEF HupAccepted, Accepts, CmdInv, TypeOK
    <2>3. DataOK'
      BY <1>4, <2>1 DEF CmdInv, TypeOK, DataOK, HupAccepted, flagVars, queueVars, placeVars
    <2>4. workPending'["Input"] = TRUE
      BY <1>4, <2>1 DEF HupAccepted, CmdInv, TypeOK, DataOK
    <2>5. InputInv' /\ ProcessInv'
      BY <1>4, <2>2, <2>4 DEF HupAccepted, CmdInv, InputInv, ProcessInv, Rests, queueVars, placeVars
    <2>6. NothingDropped'
      BY <1>4 DEF HupAccepted, Accepts, Ignored, NothingDropped, flagVars
    <2> QED
      BY <1>4, <2>1, <2>2, <2>3, <2>5, <2>6, SignalMoveInv DEF HupAccepted, QueueInv
  <1>5. ASSUME NEW r \in Rotators, Usr1Accepted(r) PROVE CmdInv'
    <2>1. r \in Threads \ {"Input", "Process"} /\ "start" \in PlacesOf(r)
      BY ThreadsLemma, PlacesLemma DEF RotatorPlaces
    <2>2. Goto(r, "start") /\ pc[r] = "none"
      BY <1>5 DEF Usr1Accepted
    <2>3. DataOK' /\ QueueInv'
      BY <1>5, <2>1, <2>2, OnlyMoves DEF Usr1Accepted
    <2> QED
      BY <2>1, <2>2, <2>3, MoveInv
  <1>6. CASE QuitArrives
    <2>1. "Handler" \in Threads \ {"Input", "Process"} /\ "ended" \in PlacesOf("Handler")
          /\ "Handler" \notin Rotators
      BY ThreadsLemma, PlacesLemma DEF HandlerPlaces
    <2>2. Goto("Handler", "ended") /\ pc["Handler"] = "sigwait"
      BY <1>6 DEF QuitArrives
    <2>3. DataOK' /\ QueueInv'
      BY <1>6, <2>1, <2>2, OnlyMoves DEF QuitArrives
    <2> QED
      BY <2>1, <2>2, <2>3, MoveInv
  <1> QED
    BY <1>1, <1>2, <1>3, <1>4, <1>5, <1>6 DEF Environment

\* Main and the log rotation threads only move, but for two flags.
LEMMA OthersMove ==
    ASSUME CmdInv, NEW t \in Threads \ Workers, NEW label, Goto(t, label),
           label \in PlacesOf(t), label # "openLogfile", pc[t] # "openLogfile",
           pc[t] = "barrierEnd" => label = "barrierEnd",
           t \in Rotators => HoldsRotateMutex(t) \/ label \in {"none", "start", "leave", "exited"},
           UNCHANGED <<PendingOrderlyShutdown, exited, workPending, queueVars, placeVars, torn>>,
           Shutdown' \in BOOLEAN, LogfileRotate' \in BOOLEAN
    PROVE  CmdInv'
  <1>1. DataOK'
    BY DEF CmdInv, TypeOK, DataOK, queueVars, placeVars
  <1>2. AwayFromQueue
    BY GotoRests, ThreadsLemma DEF CmdInv, TypeOK, AwayFromQueue, Rests, Workers, queueVars, placeVars
  <1>3. QueueInv'
    BY <1>2, AwayInv DEF CmdInv, QueueInv
  <1> QED
    BY <1>1, <1>3, MoveInv

LEMMA OthersSignal ==
    ASSUME CmdInv, NEW t \in Threads \ Workers, NEW label, NEW w \in Workers,
           SignalAndGoto(w, t, label), label \in PlacesOf(t), label # "openLogfile",
           pc[t] \notin {"openLogfile", "barrierEnd"},
           t \in Rotators => HoldsRotateMutex(t),
           UNCHANGED <<flagVars, exited, workPending, queueVars, placeVars, torn>>
    PROVE  CmdInv'
  <1>1. DataOK' /\ QueueInv'
    BY OnlySignals DEF Workers
  <1> QED
    BY <1>1, SignalMoveInv

LEMMA MainInv == ASSUME CmdInv, MainStep PROVE CmdInv'
  <1>0. "Main" \in Threads \ Workers /\ "Main" \notin Rotators /\ PlacesOf("Main") = MainPlaces
    BY ThreadsLemma, PlacesLemma DEF Workers
  <1>1. CASE StartShutdown
    <2>1. "signalInput" \in MainPlaces
      BY DEF MainPlaces
    <2> QED
      BY <1>0, <1>1, <2>1, OthersMove DEF StartShutdown, CmdInv, TypeOK, DataOK
  <1>2. CASE AwaitRotation
    <2>1. "joinHandler" \in MainPlaces
      BY DEF MainPlaces
    <2> QED
      BY <1>0, <1>2, <2>1, OthersMove DEF AwaitRotation, flagVars, CmdInv, TypeOK, DataOK
  <1>3. CASE DestroyMutexes
    <2>1. "delete" \in MainPlaces
      BY DEF MainPlaces
    <2> QED
      BY <1>0, <1>3, <2>1, OthersMove DEF DestroyMutexes, flagVars, CmdInv, TypeOK, DataOK
  <1>4. CASE EndServer
    BY <1>4, ExitInv DEF EndServer
  <1>5. ASSUME NEW w \in Workers, EndSignals(w) PROVE CmdInv'
    <2>1. JoinLabel(w) \in MainPlaces /\ JoinLabel(w) # "openLogfile"
          /\ SignalLabel(w) \notin {"openLogfile", "barrierEnd"}
      BY DEF MainPlaces, JoinLabel, SignalLabel, Workers
    <2> QED
      BY <1>0, <1>5, <2>1, OthersSignal DEF EndSignals
  <1>6. ASSUME NEW w \in Workers, EndJoins(w) PROVE CmdInv'
    <2>1. AfterJoin(w) \in MainPlaces /\ AfterJoin(w) # "openLogfile"
          /\ JoinLabel(w) \notin {"openLogfile", "barrierEnd"}
      BY DEF MainPlaces, JoinLabel, AfterJoin, Workers
    <2> QED
      BY <1>0, <1>6, <2>1, OthersMove DEF EndJoins, flagVars, CmdInv, TypeOK, DataOK
  <1> QED
    BY <1>1, <1>2, <1>3, <1>4, <1>5, <1>6 DEF MainStep

LEMMA OpenLogfileInv ==
    ASSUME CmdInv, NEW s \in Threads, OpenLogfile(s)
    PROVE  CmdInv'
  <1>1. pc[s] = "openLogfile" /\ Goto(s, "barrierEnd")
    BY DEF OpenLogfile
  <1>2. "barrierEnd" \in PlacesOf(s)
    BY <1>1, PlacesLemma DEF CmdInv, TypeOK, PlacesOK, Threads, Workers, MainPlaces, HandlerPlaces,
         InputPlaces, ProcessPlaces, OutputPlaces, WorkerPlaces, RotatorPlaces
  <1>3. DataOK'
    BY DEF OpenLogfile, CmdInv, TypeOK, DataOK, queueVars, placeVars
  <1>4. QueueInv'
    <2>0. pc'[s] = "barrierEnd" /\ \A u \in Threads : u # s => pc'[u] = pc[u]
      BY <1>1, GotoRests DEF CmdInv, TypeOK
    <2>1. pc'["Input"] = pc["Input"] \/ (pc'["Input"] = "barrierEnd" /\ pc["Input"] = "openLogfile")
      BY <1>1, <2>0, ThreadsLemma
    <2>2. pc'["Process"] = pc["Process"] \/ pc'["Process"] = "barrierEnd"
      BY <2>0, ThreadsLemma
    <2>3. InputInv'
      BY <2>1 DEF OpenLogfile, CmdInv, InputInv, queueVars, placeVars
    <2>4. NothingDropped' /\ ProcessInv'
      BY <2>2 DEF OpenLogfile, CmdInv, NothingDropped, ProcessInv, queueVars, placeVars
    <2> QED
      BY <2>3, <2>4 DEF QueueInv
  <1>5. s \in Rotators => HoldsRotateMutex(s)
    BY <1>1 DEF HoldsRotateMutex
  <1> QED
    BY <1>1, <1>2, <1>3, <1>4, <1>5, MoveInv

\* The barriers: every party moves at once.
LEMMA OpenBarrierStartInv ==
    ASSUME CmdInv, NEW r \in Rotators, NEW s \in Party(r), OpenBarrierStart(r, s)
    PROVE  CmdInv'
  <1>1. /\ \A t \in Party(r) : pc[t] = "barrierStart"
        /\ pc' = [t \in Threads |-> IF t = s THEN "openLogfile"
                                    ELSE IF t \in Party(r) THEN "barrierEnd" ELSE pc[t]]
        /\ UNCHANGED <<flagVars, exited, workPending, queueVars, placeVars, torn>>
    BY DEF OpenBarrierStart
  <1>2. PlacesOK'
    <2>1. \A t \in Party(r) : "openLogfile" \in PlacesOf(t) /\ "barrierEnd" \in PlacesOf(t)
      BY PlacesLemma DEF Party, Workers, InputPlaces, ProcessPlaces, OutputPlaces, WorkerPlaces,
           RotatorPlaces
    <2>2. \A t \in Threads : pc'[t] \in PlacesOf(t)
      BY <1>1, <2>1 DEF CmdInv, TypeOK, PlacesOK
    <2>3. pc' = [t \in Threads |-> pc'[t]]
      BY <1>1
    <2> QED
      BY <2>2, <2>3 DEF PlacesOK
  <1>3. DataOK'
    BY <1>1, DataUnchanged DEF CmdInv, TypeOK
  <1>4. pc'["Input"] \in {"openLogfile", "barrierEnd"} /\ pc'["Process"] \in {"openLogfile", "barrierEnd"}
    BY <1>1, ThreadsLemma DEF Party, Workers
  <1>5. pc["Input"] = "barrierStart"
    BY <1>1 DEF Party, Workers
  <1>6. InputInv' /\ NothingDropped' /\ ProcessInv'
    BY <1>1, <1>4, <1>5 DEF CmdInv, InputInv, NothingDropped, ProcessInv, flagVars, queueVars, placeVars
  <1>7. RotateInv'
    <2>1. \A q \in Rotators : HoldsRotateMutex(q)' => HoldsRotateMutex(q)
      BY <1>1, ThreadsLemma DEF HoldsRotateMutex, Party
    <2>2. \A w \in Workers : pc'[w] \in {"openLogfile", "barrierEnd"}
      BY <1>1, ThreadsLemma DEF Party
    <2> QED
      BY <2>1, <2>2 DEF CmdInv, RotateInv
  <1> QED
    BY <1>2, <1>3, <1>6, <1>7 DEF CmdInv, TypeOK

LEMMA OpenBarrierEndInv ==
    ASSUME CmdInv, NEW r \in Rotators, OpenBarrierEnd(r)
    PROVE  CmdInv'
  <1>1. /\ \A t \in Party(r) : pc[t] = "barrierEnd"
        /\ pc' = [t \in Threads |-> IF t \in Workers THEN WorkLabel(t)
                                    ELSE IF t = r THEN "unlock" ELSE pc[t]]
        /\ UNCHANGED <<flagVars, exited, workPending, queueVars, placeVars, torn>>
    BY DEF OpenBarrierEnd
  <1>2. \A w \in Workers : WorkLabel(w) \in PlacesOf(w) /\ WorkLabel(w) # "openLogfile"
    BY PlacesLemma DEF Workers, WorkLabel, InputPlaces, ProcessPlaces, OutputPlaces
  <1>3. PlacesOK'
    <2>1. "unlock" \in PlacesOf(r)
      BY PlacesLemma DEF RotatorPlaces
    <2>2. \A t \in Threads : pc'[t] \in PlacesOf(t)
      BY <1>1, <1>2, <2>1 DEF CmdInv, TypeOK, PlacesOK
    <2>3. pc' = [t \in Threads |-> pc'[t]]
      BY <1>1
    <2> QED
      BY <2>2, <2>3 DEF PlacesOK
  <1>4. DataOK'
    BY <1>1, DataUnchanged DEF CmdInv, TypeOK
  <1>5. pc'["Input"] = "readWork" /\ pc'["Process"] = "search" /\ pc["Input"] = "barrierEnd"
    BY <1>1, ThreadsLemma DEF Party, Workers, WorkLabel
  <1>6. InputInv' /\ NothingDropped' /\ ProcessInv'
    BY <1>1, <1>5 DEF CmdInv, InputInv, NothingDropped, ProcessInv, flagVars, queueVars, placeVars
  <1>7. RotateInv'
    <2>1. pc[r] = "barrierEnd" /\ \A w \in Workers : pc[w] = "barrierEnd"
      BY <1>1 DEF Party
    <2>2. \A q \in Rotators : HoldsRotateMutex(q)' => HoldsRotateMutex(q)
      BY <1>1, <2>1, ThreadsLemma DEF HoldsRotateMutex, Workers
    <2>3. \A q \in Rotators : pc[q] # "openLogfile"
      BY <2>1 DEF CmdInv, RotateInv, HoldsRotateMutex
    <2>4. pc["Main"] # "openLogfile" /\ pc["Handler"] # "openLogfile"
      BY PlacesLemma, ThreadsLemma DEF CmdInv, TypeOK, PlacesOK, MainPlaces, HandlerPlaces
    <2>5. \A t \in Threads : pc'[t] # "openLogfile"
      BY <1>1, <1>2, <2>3, <2>4 DEF Threads
    <2> QED
      BY <2>2, <2>5 DEF CmdInv, RotateInv
  <1> QED
    BY <1>3, <1>4, <1>6, <1>7 DEF CmdInv, TypeOK

LEMMA RotateStepInv ==
    ASSUME CmdInv, NEW r \in Rotators, RotateStep(r)
    PROVE  CmdInv'
  <1>0. r \in Threads \ Workers /\ PlacesOf(r) = RotatorPlaces
    BY ThreadsLemma, PlacesLemma DEF Workers
  <1>1. CASE RotateFails(r)
    BY <1>1, ExitInv DEF RotateFails
  <1>2. CASE RotateBegin(r)
    <2>1. pc[r] = "start" /\ Goto(r, "signalInput") /\ LogRotateMutexFree
      BY <1>2 DEF RotateBegin, SignalLabel
    <2>2. DataOK'
      BY <1>2 DEF RotateBegin, CmdInv, TypeOK, DataOK, queueVars, placeVars
    <2>3. pc'[r] = "signalInput" /\ \A u \in Threads : u # r => pc'[u] = pc[u]
      BY <1>0, <2>1, GotoRests DEF CmdInv, TypeOK
    <2>4. QueueInv'
      <3>1. AwayFromQueue
        BY <1>0, <1>2, <2>3, ThreadsLemma DEF RotateBegin, AwayFromQueue, Rests, Workers, queueVars, placeVars
      <3> QED
        BY <3>1, AwayInv DEF CmdInv, QueueInv
    <2>5. PlacesOK'
      <3>1. "signalInput" \in RotatorPlaces
        BY DEF RotatorPlaces
      <3> QED
        BY <1>0, <2>1, <3>1, GotoPlaces DEF CmdInv, TypeOK
    <2>6. RotateInv'
      <3>1. \A q \in Rotators : ~HoldsRotateMutex(q)
        BY <2>1 DEF LogRotateMutexFree, HoldsRotateMutex
      <3>2. \A q \in Rotators : HoldsRotateMutex(q)' => q = r
        BY <2>3, <3>1, ThreadsLemma DEF HoldsRotateMutex
      <3>3. \A t \in Threads : pc'[t] = "openLogfile" => pc[t] = "openLogfile"
        BY <2>3
      <3>4. \A w \in Workers : pc'[w] = pc[w]
        BY <1>0, <2>3, ThreadsLemma
      <3> QED
        BY <3>2, <3>3, <3>4 DEF CmdInv, RotateInv
    <2> QED
      BY <2>2, <2>4, <2>5, <2>6 DEF CmdInv, TypeOK, QueueInv
  <1>3. CASE RotateUnlock(r)
    <2>1. "leave" \in RotatorPlaces
      BY DEF RotatorPlaces
    <2> QED
      BY <1>0, <1>3, <2>1, OthersMove DEF RotateUnlock, flagVars, CmdInv, TypeOK, DataOK
  <1>4. CASE RotateEnd(r)
    <2>1. "none" \in RotatorPlaces
      BY DEF RotatorPlaces
    <2> QED
      BY <1>0, <1>4, <2>1, OthersMove DEF RotateEnd, flagVars, CmdInv, TypeOK, DataOK
  <1>5. ASSUME NEW w \in Workers, RotateSignals(r, w) PROVE CmdInv'
    <2>1. /\ AfterSignal(w) \in RotatorPlaces /\ AfterSignal(w) # "openLogfile"
          /\ SignalLabel(w) \notin {"openLogfile", "barrierEnd", "none", "start", "leave", "exited"}
      BY DEF RotatorPlaces, AfterSignal, SignalLabel, Workers
    <2>2. pc[r] = SignalLabel(w) /\ SignalAndGoto(w, r, AfterSignal(w))
      BY <1>5 DEF RotateSignals
    <2>3. HoldsRotateMutex(r)
      BY <2>1, <2>2 DEF HoldsRotateMutex
    <2> QED
      BY <1>0, <1>5, <2>1, <2>2, <2>3, OthersSignal DEF RotateSignals
  <1>6. ASSUME NEW s \in Party(r), OpenBarrierStart(r, s) PROVE CmdInv'
    BY <1>6, OpenBarrierStartInv
  <1>7. ASSUME NEW s \in Party(r), OpenLogfile(s) PROVE CmdInv'
    <2>1. s \in Threads
      BY ThreadsLemma DEF Party
    <2> QED
      BY <1>7, <2>1, OpenLogfileInv
  <1>8. CASE OpenBarrierEnd(r)
    BY <1>8, OpenBarrierEndInv
  <1> QED
    BY <1>1, <1>2, <1>3, <1>4, <1>5, <1>6, <1>7, <1>8 DEF RotateStep
-----------------------------------------------------------------------------
(* The workers *)

\* The top of a worker's loop.
LEMMA LoopInv ==
    ASSUME CmdInv, NEW w \in Workers, Wait(w) \/ ReadRotate(w)
    PROVE  CmdInv'
  <1>0. w \in Threads /\ w \notin Rotators
    BY ThreadsLemma DEF Workers
  <1>1. UNCHANGED <<flagVars, exited, workPending, queueVars, placeVars, torn>>
    BY DEF Wait, ReadRotate
  <1>2. pc[w] \in {"check", "readRotate"}
    BY DEF Wait, ReadRotate
  <1>3. PICK label \in {"ended", "readRotate", "condwait", "barrierStart", WorkLabel(w)} : Goto(w, label)
    BY DEF Wait, ReadRotate
  <1>4. label \in PlacesOf(w) /\ label # "openLogfile"
    BY PlacesLemma DEF Workers, WorkLabel, WorkerPlaces, InputPlaces, ProcessPlaces, OutputPlaces
  <1>5. DataOK'
    BY <1>1, DataUnchanged DEF CmdInv, TypeOK
  <1>6. pc'[w] = label /\ \A u \in Threads : u # w => pc'[u] = pc[u]
    BY <1>0, <1>3, GotoRests DEF CmdInv, TypeOK
  <1>7. label \notin {"read", "append", "announce", "run", "unlock"}
    BY DEF WorkLabel, Workers
  <1>8. InputInv'
    <2>1. CASE w = "Input"
      BY <1>1, <1>2, <1>6, <1>7, <2>1 DEF CmdInv, InputInv, queueVars, placeVars
    <2>2. CASE w # "Input"
      BY <1>1, <1>6, <2>2, ThreadsLemma DEF CmdInv, InputInv, queueVars, placeVars
    <2> QED
      BY <2>1, <2>2
  <1>9. NothingDropped'
    BY <1>1 DEF CmdInv, NothingDropped, flagVars, queueVars, placeVars
  <1>10. ProcessInv'
    <2>1. pc'["Process"] = pc["Process"] \/ pc'["Process"] \notin {"run", "unlock"}
      BY <1>6, <1>7, ThreadsLemma
    <2> QED
      BY <1>1, <2>1 DEF CmdInv, ProcessInv, placeVars
  <1> QED
    BY <1>0, <1>2, <1>3, <1>4, <1>5, <1>8, <1>9, <1>10, MoveInv DEF QueueInv

\* Input goes on within getCmd: what the other conjuncts need.
LEMMA InputMoves ==
    ASSUME CmdInv, NEW label, Goto("Input", label), label \in PlacesOf("Input"),
           label \notin {"openLogfile", "barrierEnd"}, pc["Input"] \notin {"openLogfile", "barrierEnd"},
           current' = current, DataOK', InputInv', NothingDropped'
    PROVE  CmdInv'
  <1>1. "Input" \in Threads /\ "Input" \notin Rotators
    BY ThreadsLemma
  <1>2. ProcessInv'
    BY <1>1, GotoRests, ThreadsLemma DEF CmdInv, TypeOK, ProcessInv
  <1> QED
    BY <1>1, <1>2, MoveInv DEF QueueInv

LEMMA InputStepInv == ASSUME CmdInv, InputStep PROVE CmdInv'
  <1>0. /\ "Input" \in Threads /\ "Input" \in Workers /\ "Input" \notin Rotators
        /\ PlacesOf("Input") = InputPlaces
    BY ThreadsLemma, PlacesLemma DEF Workers
  <1>1. CASE Wait("Input") \/ ReadRotate("Input")
    BY <1>0, <1>1, LoopInv
  <1>2. CASE ReadWork
    <2>1. PICK label \in {"read", "check"} :
               Goto("Input", label) /\ (label = "read" => workPending["Input"])
      BY <1>2 DEF ReadWork
    <2>2. UNCHANGED <<flagVars, exited, workPending, queueVars, placeVars, torn>> /\ pc["Input"] = "readWork"
      BY <1>2 DEF ReadWork
    <2>3. label \in InputPlaces
      BY DEF InputPlaces, WorkerPlaces
    <2>4. pc'["Input"] = label
      BY <1>0, <2>1, GotoRests DEF CmdInv, TypeOK
    <2>5. DataOK'
      BY <2>2, DataUnchanged DEF CmdInv, TypeOK
    <2>6. InputInv' /\ NothingDropped'
      BY <2>1, <2>2, <2>4 DEF CmdInv, InputInv, NothingDropped, flagVars, queueVars, placeVars
    <2> QED
      BY <1>0, <2>1, <2>2, <2>3, <2>5, <2>6, InputMoves DEF placeVars
  <1>3. ASSUME NEW n \in 1..MaxBatch, ReadLine(n) PROVE CmdInv'
    <2>1. /\ pc["Input"] = "read" /\ count + n <= MaxCmds /\ batch' = n /\ Goto("Input", "append")
          /\ UNCHANGED <<flagVars, exited, workPending, queueVars, current, cursor, torn>>
      BY <1>3 DEF ReadLine
    <2>2. "append" \in InputPlaces
      BY DEF InputPlaces
    <2>3. pc'["Input"] = "append"
      BY <1>0, <2>1, GotoRests DEF CmdInv, TypeOK
    <2>4. DataOK'
      BY <2>1, CmdAssumption DEF CmdAssumption, CmdInv, TypeOK, DataOK, flagVars, queueVars
    <2>5. InputInv' /\ NothingDropped'
      BY <2>1, <2>3 DEF CmdInv, InputInv, NothingDropped, flagVars, queueVars
    <2> QED
      BY <1>0, <2>1, <2>2, <2>4, <2>5, InputMoves
  <1>4. CASE AppendCmd
    <2>1. /\ pc["Input"] = "append" /\ count' = count + 1 /\ queue' = queue \cup {count + 1}
          /\ status' = [status EXCEPT ![count + 1] = 0] /\ Goto("Input", "announce")
          /\ UNCHANGED <<flagVars, exited, workPending, placeVars, torn>>
      BY <1>4 DEF AppendCmd
    <2>2. "announce" \in InputPlaces
      BY DEF InputPlaces
    <2>3. pc'["Input"] = "announce"
      BY <1>0, <2>1, GotoRests DEF CmdInv, TypeOK
    <2>4. /\ batch > 0 /\ count + batch <= MaxCmds /\ workPending["Input"] = TRUE
          /\ batch \in Nat /\ count \in Nat /\ MaxCmds \in Nat
      BY <2>1, CmdAssumption DEF CmdAssumption, CmdInv, TypeOK, DataOK, InputInv, Workers
    <2>5. DataOK'
      <3>1. count' \in 0..MaxCmds /\ queue' \subseteq 1..count'
        BY <2>1, <2>4 DEF CmdInv, TypeOK, DataOK
      <3>2. status' \in [Commands -> 0..3]
        <4>1. status \in [Commands -> 0..3] /\ 0 \in 0..3
          BY DEF CmdInv, TypeOK, DataOK
        <4> QED
          BY <2>1, <4>1
      <3> QED
        BY <2>1, <3>1, <3>2 DEF CmdInv, TypeOK, DataOK, flagVars, placeVars
    <2>6. InputInv'
      BY <2>1, <2>3, <2>4 DEF InputInv, placeVars
    <2>7. NothingDropped'
      BY <2>1, <2>4 DEF CmdInv, NothingDropped, flagVars
    <2> QED
      BY <1>0, <2>1, <2>2, <2>5, <2>6, <2>7, InputMoves DEF placeVars
  <1>5. CASE AnnounceCmd
    <2>1. PICK label \in {"read", "append"} :
               /\ SignalAndGoto("Process", "Input", label)
               /\ label = "append" => batch # 1
               /\ label = "read" => batch = 1
      BY <1>5 DEF AnnounceCmd, LastOfLine
    <2>2. /\ pc["Input"] = "announce" /\ batch' = batch - 1
          /\ workPending' = [workPending EXCEPT !["Process"] = \E e \in queue : New(e)]
          /\ UNCHANGED <<flagVars, exited, queueVars, current, cursor, torn>>
      BY <1>5 DEF AnnounceCmd
    <2>3. label \in InputPlaces
      BY DEF InputPlaces
    <2>4. "Process" \in Workers
      BY DEF Workers
    <2>5. pc'["Input"] = label /\ \A u \in Threads : u # "Input" => Rests(u)
      BY <1>0, <2>1, <2>4, SignalRests DEF CmdInv, TypeOK
    <2>6. /\ batch > 0 /\ count + batch <= MaxCmds + 1 /\ workPending["Input"] = TRUE
          /\ batch \in 0..MaxBatch /\ count \in Nat /\ MaxCmds \in Nat /\ MaxBatch \in Nat
      BY <2>2, CmdAssumption DEF CmdAssumption, CmdInv, TypeOK, DataOK, InputInv, Workers
    <2>7. workPending' \in [Workers -> BOOLEAN] /\ workPending'["Input"] = TRUE
      <3>1. (\E e \in queue : New(e)) \in BOOLEAN
        OBVIOUS
      <3> QED
        BY <1>0, <2>2, <2>4, <2>6, <3>1 DEF CmdInv, TypeOK, DataOK
    <2>8. DataOK'
      BY <2>2, <2>6, <2>7 DEF CmdInv, TypeOK, DataOK, flagVars, queueVars
    <2>9. InputInv'
      BY <2>1, <2>2, <2>5, <2>6, <2>7 DEF InputInv, queueVars
    <2>10. NothingDropped'
      BY <2>2, <2>6 DEF CmdInv, NothingDropped, flagVars
    <2>11. ProcessInv'
      BY <2>2, <2>5, ThreadsLemma DEF CmdInv, ProcessInv, Rests
    <2> QED
      BY <1>0, <2>1, <2>2, <2>3, <2>4, <2>8, <2>9, <2>10, <2>11, SignalMoveInv DEF QueueInv
  <1>6. CASE EndInput
    <2>1. /\ pc["Input"] = "read" /\ Goto("Input", "check")
          /\ workPending' = [workPending EXCEPT !["Input"] = FALSE]
          /\ UNCHANGED <<flagVars, exited, queueVars, placeVars, torn>>
      BY <1>6 DEF EndInput
    <2>2. "check" \in InputPlaces
      BY DEF InputPlaces, WorkerPlaces
    <2>3. pc'["Input"] = "check"
      BY <1>0, <2>1, GotoRests DEF CmdInv, TypeOK
    <2>4. DataOK'
      BY <2>1 DEF CmdInv, TypeOK, DataOK, flagVars, queueVars, placeVars
    <2>5. batch = 0 /\ workPending["Input"]
      BY <2>1 DEF CmdInv, InputInv
    <2>6. InputInv' /\ NothingDropped'
      BY <2>1, <2>3, <2>5 DEF CmdInv, InputInv, NothingDropped, flagVars, queueVars, placeVars
    <2> QED
      BY <1>0, <2>1, <2>2, <2>4, <2>6, InputMoves DEF placeVars
  <1> QED
    BY <1>1, <1>2, <1>3, <1>4, <1>5, <1>6 DEF InputStep

\* Process goes on: what the other conjuncts need.
LEMMA ProcessMoves ==
    ASSUME CmdInv, NEW label, Goto("Process", label), label \in PlacesOf("Process"),
           label \notin {"openLogfile", "barrierEnd"},
           pc["Process"] \notin {"openLogfile", "barrierEnd"},
           UNCHANGED <<PendingOrderlyShutdown, count, batch, queue>>,
           workPending'["Input"] = workPending["Input"], DataOK', ProcessInv'
    PROVE  CmdInv'
  <1>1. "Process" \in Threads /\ "Process" \notin Rotators
    BY ThreadsLemma
  <1>2. pc'["Input"] = pc["Input"]
    BY <1>1, GotoRests, ThreadsLemma DEF CmdInv, TypeOK
  <1>3. InputInv' /\ NothingDropped'
    BY <1>2 DEF CmdInv, InputInv, NothingDropped
  <1> QED
    BY <1>1, <1>3, MoveInv DEF QueueInv

LEMMA FlagBoolean == ASSUME NEW now \in BOOLEAN PROVE FlagAfterWalk(now) \subseteq BOOLEAN
  BY DEF FlagAfterWalk

LEMMA ProcessStepInv == ASSUME CmdInv, ProcessStep PROVE CmdInv'
  <1>0. /\ "Process" \in Threads /\ "Process" \in Workers /\ "Process" \notin Rotators
        /\ PlacesOf("Process") = ProcessPlaces /\ "Input" \in Workers /\ "Output" \in Workers
    BY ThreadsLemma, PlacesLemma DEF Workers
  <1>1. CASE Wait("Process") \/ ReadRotate("Process")
    BY <1>0, <1>1, LoopInv
  <1>2. ASSUME NEW e \in Commands, StartCmd(e) PROVE CmdInv'
    <2>1. /\ pc["Process"] = "search" /\ Goto("Process", "run") /\ current' = e /\ torn' = FALSE
          /\ status' = [status EXCEPT ![e] = 1]
          /\ UNCHANGED <<flagVars, exited, workPending, queue, count, batch, cursor>>
      BY <1>2 DEF StartCmd
    <2>2. "run" \in ProcessPlaces
      BY DEF ProcessPlaces
    <2>3. status' \in [Commands -> 0..3] /\ current' \in 0..MaxCmds
      BY <2>1, CmdAssumption DEF CmdAssumption, CmdInv, TypeOK, DataOK, Commands
    <2>4. DataOK'
      BY <2>1, <2>3 DEF CmdInv, TypeOK, DataOK, flagVars
    <2>5. ProcessInv'
      BY <2>1 DEF ProcessInv
    <2> QED
      BY <1>0, <2>1, <2>2, <2>4, <2>5, ProcessMoves DEF flagVars
  <1>3. CASE NothingNew
    <2>1. /\ pc["Process"] = "search" /\ Goto("Process", "setProcessWork") /\ torn' = FALSE
          /\ UNCHANGED <<flagVars, exited, workPending, queueVars, placeVars>>
      BY <1>3 DEF NothingNew
    <2>2. "setProcessWork" \in ProcessPlaces
      BY DEF ProcessPlaces
    <2>3. DataOK'
      BY <2>1 DEF CmdInv, TypeOK, DataOK, flagVars, queueVars, placeVars
    <2>4. ProcessInv'
      BY <1>0, <2>1, GotoRests DEF CmdInv, TypeOK, ProcessInv
    <2> QED
      BY <1>0, <2>1, <2>2, <2>3, <2>4, ProcessMoves DEF flagVars, queueVars, placeVars
  <1>4. ASSUME NEW result \in {2, 3}, EndCmd(result) PROVE CmdInv'
    <2>1. /\ pc["Process"] = "run" /\ Goto("Process", "unlock")
          /\ status' = [status EXCEPT ![current] = result]
          /\ UNCHANGED <<flagVars, exited, workPending, queue, count, placeVars, torn>>
      BY <1>4 DEF EndCmd
    <2>2. "unlock" \in ProcessPlaces
      BY DEF ProcessPlaces
    <2>3. status' \in [Commands -> 0..3]
      <3>1. status \in [Commands -> 0..3] /\ result \in 0..3
        BY DEF CmdInv, TypeOK, DataOK
      <3> QED
        BY <2>1, <3>1
    <2>4. DataOK'
      BY <2>1, <2>3 DEF CmdInv, TypeOK, DataOK, flagVars, placeVars
    <2>5. ProcessInv'
      BY <2>1 DEF CmdInv, ProcessInv, placeVars
    <2> QED
      BY <1>0, <2>1, <2>2, <2>4, <2>5, ProcessMoves DEF flagVars, placeVars
  <1>5. CASE UnlockCmd
    <2>1. /\ pc["Process"] = "unlock" /\ Goto("Process", "setOutputWork") /\ current' = 0
          /\ UNCHANGED <<flagVars, exited, workPending, queueVars, batch, cursor, torn>>
      BY <1>5 DEF UnlockCmd
    <2>2. "setOutputWork" \in ProcessPlaces
      BY DEF ProcessPlaces
    <2>3. DataOK'
      BY <2>1, CmdAssumption DEF CmdAssumption, CmdInv, TypeOK, DataOK, flagVars, queueVars
    <2>4. ProcessInv'
      BY <1>0, <2>1, GotoRests DEF CmdInv, TypeOK, ProcessInv
    <2> QED
      BY <1>0, <2>1, <2>2, <2>3, <2>4, ProcessMoves DEF flagVars, queueVars
  <1>6. CASE SetOutputWork
    <2>1. PICK flag \in FlagAfterWalk(\E e \in queue : Finished(e)) :
               workPending' = [workPending EXCEPT !["Output"] = flag]
      BY <1>6 DEF SetOutputWork
    <2>2. /\ pc["Process"] = "setOutputWork" /\ SignalAndGoto("Output", "Process", "setProcessWork")
          /\ torn' = FALSE /\ UNCHANGED <<flagVars, exited, queueVars, placeVars>>
      BY <1>6 DEF SetOutputWork
    <2>3. "setProcessWork" \in ProcessPlaces
      BY DEF ProcessPlaces
    <2>4. flag \in BOOLEAN
      BY <2>1, FlagBoolean
    <2>5. workPending' \in [Workers -> BOOLEAN] /\ workPending'["Input"] = workPending["Input"]
      BY <1>0, <2>1, <2>4 DEF CmdInv, TypeOK, DataOK
    <2>6. DataOK'
      BY <2>2, <2>5 DEF CmdInv, TypeOK, DataOK, flagVars, queueVars, placeVars
    <2>7. pc'["Process"] = "setProcessWork" /\ Rests("Input")
      BY <1>0, <2>2, SignalRests, ThreadsLemma DEF CmdInv, TypeOK
    <2>8. InputInv' /\ NothingDropped' /\ ProcessInv'
      BY <2>2, <2>5, <2>7 DEF CmdInv, InputInv, NothingDropped, ProcessInv, Rests, flagVars, queueVars, placeVars
    <2> QED
      BY <1>0, <2>2, <2>3, <2>6, <2>8, SignalMoveInv DEF QueueInv
  <1>7. CASE SetProcessWork
    <2>1. PICK flag \in FlagAfterWalk(\E e \in queue : New(e)) :
               workPending' = [workPending EXCEPT !["Process"] = flag]
      BY <1>7 DEF SetProcessWork
    <2>2. /\ pc["Process"] = "setProcessWork" /\ Goto("Process", "check")
          /\ torn' = FALSE /\ UNCHANGED <<flagVars, exited, queueVars, placeVars>>
      BY <1>7 DEF SetProcessWork
    <2>3. "check" \in ProcessPlaces
      BY DEF ProcessPlaces, WorkerPlaces
    <2>4. flag \in BOOLEAN
      BY <2>1, FlagBoolean
    <2>5. workPending' \in [Workers -> BOOLEAN] /\ workPending'["Input"] = workPending["Input"]
      BY <1>0, <2>1, <2>4 DEF CmdInv, TypeOK, DataOK
    <2>6. DataOK'
      BY <2>2, <2>5 DEF CmdInv, TypeOK, DataOK, flagVars, queueVars, placeVars
    <2>7. ProcessInv'
      BY <1>0, <2>2, GotoRests DEF CmdInv, TypeOK, ProcessInv
    <2> QED
      BY <1>0, <2>2, <2>3, <2>5, <2>6, <2>7, ProcessMoves DEF flagVars, queueVars, placeVars
  <1>8. CASE ProcessCrash
    BY <1>8, ExitInv DEF ProcessCrash
  <1> QED
    BY <1>1, <1>2, <1>3, <1>4, <1>5, <1>6, <1>7, <1>8 DEF ProcessStep

\* Output goes on: what the other conjuncts need.
LEMMA OutputMoves ==
    ASSUME CmdInv, NEW label, Goto("Output", label), label \in PlacesOf("Output"),
           label \notin {"openLogfile", "barrierEnd"},
           pc["Output"] \notin {"openLogfile", "barrierEnd"},
           UNCHANGED <<PendingOrderlyShutdown, count, batch, current>>, queue' \subseteq queue,
           workPending'["Input"] = workPending["Input"], DataOK'
    PROVE  CmdInv'
  <1>1. "Output" \in Threads /\ "Output" \notin Rotators
    BY ThreadsLemma
  <1>2. AwayFromQueue
    BY <1>1, GotoRests, ThreadsLemma DEF CmdInv, TypeOK, AwayFromQueue, Rests
  <1>3. QueueInv'
    BY <1>2, AwayInv DEF CmdInv, QueueInv
  <1> QED
    BY <1>1, <1>3, MoveInv

\* Output stays where it is and looks at the next element.
LEMMA OutputStays ==
    ASSUME CmdInv, UNCHANGED <<pc, PendingOrderlyShutdown, count, batch, current, workPending>>,
           queue' \subseteq queue, DataOK'
    PROVE  CmdInv'
  <1>1. QueueInv'
    BY AwayInv DEF CmdInv, QueueInv, AwayFromQueue, Rests
  <1>2. PlacesOK' /\ RotateInv'
    BY DEF CmdInv, TypeOK, PlacesOK, RotateInv, HoldsRotateMutex
  <1> QED
    BY <1>1, <1>2 DEF CmdInv, TypeOK, QueueInv

LEMMA OutputStepInv == ASSUME CmdInv, OutputStep PROVE CmdInv'
  <1>0. "Output" \in Workers /\ PlacesOf("Output") = OutputPlaces /\ "Input" \in Workers
    BY PlacesLemma DEF Workers
  <1>1. CASE Wait("Output") \/ ReadRotate("Output")
    BY <1>0, <1>1, LoopInv
  <1>2. CASE LockQueue
    <2>1. "showing" \in OutputPlaces
      BY DEF OutputPlaces
    <2>2. DataOK'
      BY <1>2, CmdAssumption DEF CmdAssumption, LockQueue, CmdInv, TypeOK, DataOK, flagVars, queueVars
    <2> QED
      BY <1>0, <1>2, <2>1, <2>2, OutputMoves DEF LockQueue, flagVars, queueVars
  <1>3. ASSUME NEW e \in Commands, PassCmd(e) PROVE CmdInv'
    <2>1. cursor' \in 0..MaxCmds
      BY <1>3, CmdAssumption DEF CmdAssumption, PassCmd, Commands
    <2>2. DataOK'
      BY <1>3, <2>1 DEF PassCmd, CmdInv, TypeOK, DataOK, flagVars, queueVars
    <2> QED
      BY <1>3, <2>2, OutputStays DEF PassCmd, flagVars, queueVars
  <1>4. ASSUME NEW e \in Commands, ShowCmd(e) PROVE CmdInv'
    <2>1. CASE UNCHANGED <<pc, exited>> /\ queue' = queue \ {e} /\ cursor' = e
               /\ torn' = (torn \/ Walking)
      <3>1. cursor' \in 0..MaxCmds
        BY <2>1, CmdAssumption DEF CmdAssumption, Commands
      <3>2. torn' \in BOOLEAN
        BY <2>1
      <3>3. DataOK'
        BY <1>4, <2>1, <3>1, <3>2 DEF ShowCmd, CmdInv, TypeOK, DataOK, flagVars
      <3> QED
        BY <1>4, <2>1, <3>3, OutputStays DEF ShowCmd, flagVars
    <2>2. CASE Exit("SysExit") /\ UNCHANGED <<queue, cursor, torn>>
      BY <1>4, <2>2, ExitInv DEF ShowCmd, queueVars, placeVars
    <2> QED
      BY <1>4, <2>1, <2>2 DEF ShowCmd
  <1>5. CASE UnlockQueue
    <2>1. "clearOutputWork" \in OutputPlaces
      BY DEF OutputPlaces
    <2>2. DataOK'
      BY <1>5, CmdAssumption DEF CmdAssumption, UnlockQueue, CmdInv, TypeOK, DataOK, flagVars, queueVars
    <2> QED
      BY <1>0, <1>5, <2>1, <2>2, OutputMoves DEF UnlockQueue, flagVars, queueVars
  <1>6. CASE ClearOutputWork
    <2>1. "check" \in OutputPlaces
      BY DEF OutputPlaces, WorkerPlaces
    <2>2. (\E e \in queue : Finished(e)) \in BOOLEAN
      OBVIOUS
    <2>3. workPending' \in [Workers -> BOOLEAN] /\ workPending'["Input"] = workPending["Input"]
      BY <1>0, <1>6, <2>2 DEF ClearOutputWork, CmdInv, TypeOK, DataOK
    <2>4. DataOK'
      BY <1>6, <2>3 DEF ClearOutputWork, CmdInv, TypeOK, DataOK, flagVars, queueVars, placeVars
    <2> QED
      BY <1>0, <1>6, <2>1, <2>3, <2>4, OutputMoves DEF ClearOutputWork, flagVars, queueVars, placeVars
  <1> QED
    BY <1>1, <1>2, <1>3, <1>4, <1>5, <1>6 DEF OutputStep
-----------------------------------------------------------------------------
LEMMA NextInv == ASSUME CmdInv, [Next]_vars PROVE CmdInv'
  <1>1. CASE Next
    BY <1>1, EnvironmentInv, InputStepInv, ProcessStepInv, OutputStepInv, MainInv, RotateStepInv DEF Next
  <1>2. CASE UNCHANGED vars
    BY <1>2 DEF vars, flagVars, queueVars, placeVars, CmdInv, TypeOK, DataOK, PlacesOK, InputInv,
         NothingDropped, RotateInv, HoldsRotateMutex, ProcessInv
  <1> QED
    BY <1>1, <1>2

\* The inductive invariant.
THEOREM CmdInvariant == Spec => []CmdInv
  <1>1. Init => CmdInv
    BY InitInv
  <1>2. CmdInv /\ [Next]_vars => CmdInv'
    BY NextInv
  <1> QED
    BY <1>1, <1>2, PTL DEF Spec

\* Every variable keeps its type, and every command in the queue was appended.
THEOREM CmdTypeCorrect == Spec => []TypeOK
  <1>1. CmdInv => TypeOK
    BY DEF CmdInv
  <1> QED
    BY <1>1, CmdInvariant, PTL

\* No command is dropped by the orderly shutdown (ignoreSignal, endServer).
THEOREM ShutdownDropsNothing == Spec => []NothingDropped
  <1>1. CmdInv => NothingDropped
    BY DEF CmdInv
  <1> QED
    BY <1>1, CmdInvariant, PTL

\* Only the thread that replaces the log file resets LogfileRotate.
LEMMA OnlyOpenLogfileResets ==
    ASSUME Next, LogfileRotate, ~LogfileRotate'
    PROVE  \E s \in Threads : OpenLogfile(s)
  <1>1. \E r \in Rotators : \E s \in Party(r) : OpenLogfile(s)
    BY DEF Next, Environment, InterruptArrives, CountCrash, TermAccepted, HupAccepted, Usr1Accepted,
         QuitArrives, InputStep, Wait, ReadRotate, ReadWork, ReadLine, AppendCmd, AnnounceCmd, EndInput,
         ProcessStep, StartCmd, NothingNew, EndCmd, UnlockCmd, SetOutputWork, SetProcessWork,
         ProcessCrash, OutputStep, LockQueue, PassCmd, ShowCmd, UnlockQueue, ClearOutputWork, MainStep,
         StartShutdown, EndSignals, EndJoins, AwaitRotation, DestroyMutexes, EndServer, RotateStep,
         RotateFails, RotateBegin, RotateSignals, OpenBarrierStart, OpenBarrierEnd, RotateUnlock,
         RotateEnd, flagVars
  <1> QED
    BY <1>1, ThreadsLemma DEF Party

\* The log file is replaced only while the workers stand at the second barrier,
\* however many rotations are asked for (LogRotateThread, waitLogfileBarrierStart).
THEOREM RotationIsQuiet == Spec => QuietRotation
  <1>1. CmdInv /\ [Next]_vars =>
            [LogfileRotate /\ ~LogfileRotate' =>
                 \A w \in Workers : pc[w] \in {"openLogfile", "barrierEnd"}]_vars
    <2> SUFFICES ASSUME CmdInv, Next, LogfileRotate, ~LogfileRotate'
                 PROVE  \A w \in Workers : pc[w] \in {"openLogfile", "barrierEnd"}
      OBVIOUS
    <2>1. PICK s \in Threads : OpenLogfile(s)
      BY OnlyOpenLogfileResets
    <2> QED
      BY <2>1 DEF OpenLogfile, CmdInv, RotateInv
  <1> QED
    BY <1>1, CmdInvariant, PTL DEF Spec, QuietRotation
-----------------------------------------------------------------------------
(***************************************************************************)
(* The command server loses no signal, and it keeps the promises of        *)
(* CommandService.                                                         *)
(***************************************************************************)
\* What the proofs of this module add to CmdInv.
MoreInv == ServiceInv /\ WorkInv /\ RotationSignalled /\ ShutdownSignalled
FullInv == CmdInv /\ MoreInv

\* The signals that commands need follow from the flags.
LEMMA CommandsLemma ==
    ASSUME LifeInv, WorkInv
    PROVE  CommandsSignalled
  <1>1. \A t, u \in {"Input", "Process", "Output"} : pc[t] = "exited" => pc[u] = "exited"
    BY ThreadsLemma DEF LifeInv
  <1>2. pc["Process"] = "condwait" /\ (\E e \in queue : New(e)) => pc["Input"] \in {"append", "announce"}
    BY <1>1 DEF WorkInv, Workers
  <1>3. pc["Output"] = "condwait" /\ (\E e \in queue : Finished(e)) =>
            pc["Process"] \in {"unlock", "setOutputWork"}
    BY <1>1 DEF WorkInv, Workers
  <1>4. pc["Input"] = "condwait" => ~workPending["Input"]
    BY DEF WorkInv, Workers
  <1> QED
    BY <1>2, <1>3, <1>4 DEF CommandsSignalled

\* The program starts with the flags down and the workers up.
LEMMA InitMore == Init => MoreInv
  <1> SUFFICES ASSUME Init PROVE MoreInv
    OBVIOUS
  <1>1. LifeInv
    BY ThreadsLemma DEF Init, LifeInv, Workers
  <1>2. RunInv
    BY ThreadsLemma DEF Init, RunInv, Workers
  <1>3. WorkInv
    BY ThreadsLemma DEF Init, WorkInv, Workers
  <1>4. RotationSignalled /\ ShutdownSignalled
    BY DEF Init, RotationSignalled, ShutdownSignalled
  <1> QED
    BY <1>1, <1>2, <1>3, <1>4 DEF MoreInv, ServiceInv
-----------------------------------------------------------------------------
(* The end of the process, whoever brings it about. *)

LEMMA ExitMore ==
    ASSUME MoreInv, NEW how, how # "no", Exit(how), UNCHANGED <<queueVars, placeVars>>
    PROVE  MoreInv'
  <1>1. \A t \in Threads : pc'[t] = "exited"
    BY DEF Exit
  <1>2. /\ pc'["Main"] = "exited" /\ pc'["Input"] = "exited"
        /\ pc'["Process"] = "exited" /\ pc'["Output"] = "exited"
    BY <1>1, ThreadsLemma
  <1>3. LifeInv'
    BY <1>1, <1>2 DEF Exit, LifeInv
  <1>4. WorkInv'
    BY <1>2 DEF WorkInv, Workers
  <1>5. RotationSignalled' /\ ShutdownSignalled'
    BY <1>2 DEF RotationSignalled, ShutdownSignalled
  <1>6. RunInv'
    BY <1>2 DEF MoreInv, ServiceInv, RunInv, queueVars, placeVars
  <1> QED
    BY <1>3, <1>4, <1>5, <1>6 DEF MoreInv, ServiceInv
-----------------------------------------------------------------------------
(* Steps that change no flag, and what they leave alone. *)

\* The places from which a worker goes on without having told anybody anything.
QuietPlaces == {"check", "readRotate", "readWork", "read", "show", "barrierStart", "openLogfile", "barrierEnd"}
Quiet(w) == Rests(w) \/ (pc[w] \in QuietPlaces /\ pc'[w] \notin {"condwait", "exited", "run"})
Same(t) == pc'[t] = pc[t]

\* The workers are quiet; the thread of another kind that moves is not Main.
QuietStep ==
    /\ \A w \in Workers : Quiet(w)
    /\ Same("Main")
    /\ \A t \in Threads \ Workers : pc[t] = "exited" <=> pc'[t] = "exited"
    /\ UNCHANGED <<PendingOrderlyShutdown, Shutdown, exited, workPending, queue, status, current, torn>>

LEMMA QuietLife ==
    ASSUME LifeInv, UNCHANGED <<PendingOrderlyShutdown, exited>>, Same("Main"),
           \A t \in Threads : pc[t] = "exited" <=> pc'[t] = "exited"
    PROVE  LifeInv'
  BY DEF LifeInv, Same

LEMMA QuietExited ==
    ASSUME QuietStep
    PROVE  \A t \in Threads : pc[t] = "exited" <=> pc'[t] = "exited"
  <1>1. \A w \in Workers : pc[w] = "exited" <=> pc'[w] = "exited"
    BY DEF QuietStep, Quiet, Rests, QuietPlaces
  <1> QED
    BY <1>1 DEF QuietStep

LEMMA QuietWork ==
    ASSUME WorkInv, \A w \in Workers : Quiet(w), UNCHANGED <<workPending, queue, status, torn>>
    PROVE  WorkInv'
  <1>1. Quiet("Input") /\ Quiet("Process") /\ Quiet("Output")
    BY DEF Workers
  <1>2. \A e \in queue' : (New(e)' <=> New(e)) /\ (Finished(e)' <=> Finished(e))
    BY DEF New, Finished
  <1>3. (\E e \in queue : New(e))' =>
            (workPending["Process"] \/ pc["Input"] \in {"append", "announce", "exited"})'
    BY <1>1, <1>2 DEF WorkInv, Quiet, Rests, QuietPlaces
  <1>4. (\E e \in queue : Finished(e))' =>
            (\/ workPending["Output"] \/ pc["Process"] \in {"unlock", "setOutputWork", "exited"}
             \/ pc["Output"] \in {"showing", "clearOutputWork"})'
    BY <1>1, <1>2 DEF WorkInv, Quiet, Rests, QuietPlaces
  <1>5. torn' => Walking' \/ pc'["Process"] = "exited"
    BY <1>1 DEF WorkInv, Quiet, Rests, QuietPlaces, Walking
  <1>6. torn' /\ pc'["Process"] = "setOutputWork" => pc'["Output"] \in {"showing", "clearOutputWork"}
    BY <1>1 DEF WorkInv, Quiet, Rests, QuietPlaces, Walking
  <1>7. \A w \in Workers : pc'[w] = "condwait" => ~workPending'[w]
    BY DEF WorkInv, Quiet, Rests
  <1> QED
    BY <1>3, <1>4, <1>5, <1>6, <1>7 DEF WorkInv

LEMMA QuietRun ==
    ASSUME RunInv, Quiet("Process"), UNCHANGED <<queue, status, current>>
    PROVE  RunInv'
  BY DEF RunInv, Quiet, Rests, QuietPlaces

\* No worker blocks, and no thread that signals goes on: the signals are still to come.
NobodyBlocks == \A w \in Workers : pc'[w] = "condwait" => pc[w] = "condwait"

LEMMA RotationFrame ==
    ASSUME RotationSignalled, NobodyBlocks, LogfileRotate' => LogfileRotate,
           \A r \in Rotators : pc[r] \in {"signalInput", "signalProcess", "signalOutput"} => Same(r)
    PROVE  RotationSignalled'
  <1>1. ASSUME NEW labels \in SUBSET {"signalInput", "signalProcess", "signalOutput"}, RotatorAt(labels)
        PROVE  RotatorAt(labels)'
    BY <1>1 DEF RotatorAt, Same
  <1> QED
    BY <1>1 DEF RotationSignalled, NobodyBlocks, Workers

LEMMA ShutdownFrame ==
    ASSUME ShutdownSignalled, NobodyBlocks, Shutdown' => Shutdown, Same("Main")
    PROVE  ShutdownSignalled'
  BY DEF ShutdownSignalled, NobodyBlocks, Workers, MainAt, Same

LEMMA QuietMore ==
    ASSUME MoreInv, QuietStep, LogfileRotate' => LogfileRotate,
           \A r \in Rotators : pc[r] \in {"signalInput", "signalProcess", "signalOutput"} => Same(r)
    PROVE  MoreInv'
  <1>1. Quiet("Process") /\ NobodyBlocks
    BY DEF QuietStep, Quiet, Rests, Workers, NobodyBlocks
  <1>2. LifeInv' /\ RunInv' /\ WorkInv'
    BY <1>1, QuietExited, QuietLife, QuietRun, QuietWork DEF QuietStep, MoreInv, ServiceInv
  <1>3. RotationSignalled' /\ ShutdownSignalled'
    BY <1>1, RotationFrame, ShutdownFrame DEF QuietStep, MoreInv
  <1> QED
    BY <1>2, <1>3 DEF MoreInv, ServiceInv

\* A thread other than Main goes on, and changes nothing that these invariants name.
LEMMA MoveMore ==
    ASSUME CmdInv, MoreInv, NEW t \in Threads \ {"Main"}, NEW label, Goto(t, label),
           pc[t] # "exited", label \notin {"condwait", "exited", "run"},
           t \in Workers => pc[t] \in QuietPlaces,
           t \in Rotators => pc[t] \notin {"signalInput", "signalProcess", "signalOutput"},
           LogfileRotate' => LogfileRotate,
           UNCHANGED <<PendingOrderlyShutdown, Shutdown, exited, workPending, queue, status, current, torn>>
    PROVE  MoreInv'
  <1>1. pc'[t] = label /\ \A u \in Threads : u # t => Same(u)
    BY GotoRests DEF CmdInv, TypeOK, Same
  <1>2. QuietStep
    BY <1>1, ThreadsLemma DEF QuietStep, Quiet, Rests, Same
  <1>3. \A r \in Rotators : pc[r] \in {"signalInput", "signalProcess", "signalOutput"} => Same(r)
    BY <1>1, ThreadsLemma
  <1> QED
    BY <1>2, <1>3, QuietMore

\* The same for a thread that signals a worker.
LEMMA SignalMore ==
    ASSUME CmdInv, MoreInv, NEW t \in Threads \ (Workers \cup {"Main"}), NEW label, NEW w \in Workers,
           SignalAndGoto(w, t, label), pc[t] # "exited", label # "exited",
           UNCHANGED <<PendingOrderlyShutdown, Shutdown, LogfileRotate, exited, workPending, queue, status,
                       current, torn>>
    PROVE  LifeInv' /\ RunInv' /\ WorkInv' /\ ShutdownSignalled'
  <1>1. pc'[t] = label /\ \A u \in Threads : u # t => Rests(u)
    BY SignalRests DEF CmdInv, TypeOK
  <1>2. \A u \in Threads \ Workers : u # t => Same(u)
    <2>1. /\ pc = [v \in Threads |-> pc[v]]
          /\ pc' = [pc EXCEPT ![w] = IF @ = "condwait" THEN "check" ELSE @, ![t] = label]
      BY DEF SignalAndGoto, CmdInv, TypeOK, PlacesOK
    <2> QED
      BY <2>1 DEF Same
  <1>3. QuietStep
    BY <1>1, <1>2, ThreadsLemma DEF QuietStep, Quiet, Same, Workers
  <1>4. Quiet("Process") /\ NobodyBlocks
    BY <1>3 DEF QuietStep, Quiet, Rests, Workers, NobodyBlocks
  <1>5. LifeInv' /\ RunInv' /\ WorkInv'
    BY <1>3, <1>4, QuietExited, QuietLife, QuietRun, QuietWork DEF QuietStep, MoreInv, ServiceInv
  <1>6. ShutdownSignalled'
    BY <1>3, <1>4, ShutdownFrame DEF QuietStep, MoreInv
  <1> QED
    BY <1>5, <1>6
-----------------------------------------------------------------------------
LEMMA EnvironmentMore ==
    ASSUME CmdInv, MoreInv, Environment \/ QuitArrives
    PROVE  MoreInv'
  <1>0. /\ "Handler" \in Threads \ (Workers \cup {"Main"}) /\ "Handler" \notin Rotators
        /\ "Input" \in Workers /\ "Input" \in Threads
    BY ThreadsLemma DEF Workers
  <1>1. CASE InterruptArrives
    BY <1>1, ExitMore DEF InterruptArrives
  <1>2. CASE CountCrash
    BY <1>2, ExitMore DEF CountCrash
  <1>3. CASE TermAccepted
    <2>1. UNCHANGED <<Shutdown, LogfileRotate, exited, workPending, queueVars, pc, placeVars, torn>>
          /\ PendingOrderlyShutdown' = TRUE
      BY <1>3 DEF TermAccepted
    <2>2. LifeInv' /\ RunInv'
      BY <2>1 DEF MoreInv, ServiceInv, LifeInv, RunInv, queueVars, placeVars
    <2>3. \A w \in Workers : Quiet(w)
      BY <2>1 DEF Quiet, Rests
    <2>4. WorkInv'
      BY <2>1, <2>3, QuietWork DEF MoreInv, queueVars
    <2>5. RotationSignalled' /\ ShutdownSignalled'
      BY <2>1 DEF MoreInv, RotationSignalled, ShutdownSignalled, RotatorAt, MainAt
    <2> QED
      BY <2>2, <2>4, <2>5 DEF MoreInv, ServiceInv
  <1>4. CASE HupAccepted
    <2>1. /\ SignalAndGoto("Input", "Handler", "sigwait") /\ pc["Handler"] = "sigwait"
          /\ workPending' = [workPending EXCEPT !["Input"] = TRUE]
          /\ UNCHANGED <<flagVars, exited, queueVars, placeVars, torn>>
      BY <1>4 DEF HupAccepted, Accepts
    <2>2. pc' = [pc EXCEPT !["Input"] = IF pc["Input"] = "condwait" THEN "check" ELSE pc["Input"]]
      BY <1>0, <2>1 DEF SignalAndGoto, CmdInv, TypeOK, PlacesOK
    <2>3. pc'["Input"] # "condwait" /\ \A t \in Threads : Rests(t) /\ (t # "Input" => Same(t))
      BY <1>0, <2>2 DEF CmdInv, TypeOK, PlacesOK, Rests, Same
    <2>4. NobodyBlocks /\ Same("Main") /\ \A r \in Rotators : Same(r)
      BY <2>3, ThreadsLemma DEF NobodyBlocks, Rests
    <2>5. RotationSignalled' /\ ShutdownSignalled'
      BY <2>1, <2>4, RotationFrame, ShutdownFrame DEF MoreInv, flagVars
    <2>6. LifeInv'
      BY <2>1, <2>3, <2>4, QuietLife DEF Rests, MoreInv, ServiceInv, flagVars
    <2>7. RunInv'
      BY <2>1, <2>3, ThreadsLemma, QuietRun DEF Quiet, MoreInv, ServiceInv, queueVars, placeVars
    <2>8. WorkInv'
      <3>1. /\ workPending'["Process"] = workPending["Process"]
            /\ workPending'["Output"] = workPending["Output"]
            /\ \A w \in Workers : w # "Input" => workPending'[w] = workPending[w]
        BY <2>1 DEF CmdInv, TypeOK, DataOK, Workers
      <3>2. Rests("Input") /\ Same("Process") /\ Same("Output")
        BY <2>3, ThreadsLemma
      <3>3. \A w \in Workers : pc'[w] = "condwait" => ~workPending'[w]
        BY <2>3, <3>1, ThreadsLemma DEF MoreInv, WorkInv, Rests
      <3> QED
        BY <2>1, <3>1, <3>2, <3>3
        DEF MoreInv, WorkInv, Rests, Same, New, Finished, Walking, queueVars
    <2> QED
      BY <2>5, <2>6, <2>7, <2>8 DEF MoreInv, ServiceInv
  <1>5. ASSUME NEW r \in Rotators, Usr1Accepted(r) PROVE MoreInv'
    BY <1>5, ThreadsLemma, MoveMore DEF Usr1Accepted, Workers, flagVars, queueVars, placeVars
  <1>6. CASE QuitArrives
    BY <1>0, <1>6, MoveMore DEF QuitArrives, flagVars, queueVars, placeVars
  <1> QED
    BY <1>1, <1>2, <1>3, <1>4, <1>5, <1>6 DEF Environment

\* The top of the loop: a worker blocks only when none of the three flags is set.
LEMMA WaitMore ==
    ASSUME CmdInv, MoreInv, NEW w \in Workers, Wait(w)
    PROVE  MoreInv'
  <1>0. w \in Threads \ {"Main"} /\ w \notin Rotators
    BY ThreadsLemma DEF Workers
  <1>1. pc[w] = "check" /\ UNCHANGED <<flagVars, exited, workPending, queueVars, placeVars, torn>>
    BY DEF Wait
  <1>2. CASE \E label \in {"ended", "readRotate"} : Goto(w, label)
    BY <1>0, <1>1, <1>2, MoveMore DEF QuietPlaces, flagVars, queueVars, placeVars
  <1>3. CASE ~(workPending[w] \/ Shutdown \/ LogfileRotate) /\ Goto(w, "condwait")
    <2>1. pc'[w] = "condwait" /\ \A u \in Threads : u # w => Same(u)
      BY <1>0, <1>3, GotoRests DEF CmdInv, TypeOK, Same
    <2>2. Same("Main") /\ \A t \in Threads : pc[t] = "exited" <=> pc'[t] = "exited"
      BY <1>0, <1>1, <2>1, ThreadsLemma DEF Same
    <2>3. LifeInv'
      BY <1>1, <2>2, QuietLife DEF MoreInv, ServiceInv, flagVars
    <2>4. RunInv'
      BY <1>1, <2>1, ThreadsLemma DEF MoreInv, ServiceInv, RunInv, Same, queueVars, placeVars
    <2>5. WorkInv'
      BY <1>1, <1>3, <2>1, ThreadsLemma
      DEF MoreInv, WorkInv, Same, New, Finished, Walking, queueVars, Workers
    <2>6. RotationSignalled' /\ ShutdownSignalled'
      BY <1>1, <1>3 DEF RotationSignalled, ShutdownSignalled, flagVars
    <2> QED
      BY <2>3, <2>4, <2>5, <2>6 DEF MoreInv, ServiceInv
  <1> QED
    BY <1>2, <1>3 DEF Wait

LEMMA ReadRotateMore ==
    ASSUME CmdInv, MoreInv, NEW w \in Workers, ReadRotate(w)
    PROVE  MoreInv'
  <1>1. w \in Threads \ {"Main"} /\ w \notin Rotators
        /\ WorkLabel(w) \in {"readWork", "search", "show"}
    BY ThreadsLemma DEF Workers, WorkLabel
  <1> QED
    BY <1>1, MoveMore DEF ReadRotate, QuietPlaces, flagVars, queueVars, placeVars
-----------------------------------------------------------------------------
(* Steps of a worker that change the queue or a flag. *)

\* What such a step leaves alone.
LEMMA WorkerMoves ==
    ASSUME CmdInv, MoreInv, NEW t \in Workers, NEW label, label \notin {"condwait", "exited"}, pc[t] # "exited",
           \/ Goto(t, label)
           \/ \E w \in Workers : w # t /\ SignalAndGoto(w, t, label) /\ pc'[w] # "condwait",
           UNCHANGED <<flagVars, exited>>
    PROVE  /\ pc'[t] = label /\ \A u \in Threads : u # t => Rests(u)
           /\ LifeInv' /\ RotationSignalled' /\ ShutdownSignalled'
  <1>1. t \in Threads /\ \A w \in Workers : w \in Threads
    BY ThreadsLemma
  <1>2. pc'[t] = label /\ \A u \in Threads : u # t => Rests(u)
    BY <1>1, GotoRests, SignalRests DEF CmdInv, TypeOK, Rests
  <1>3. \A u \in Threads \ Workers : Same(u)
    BY <1>1 DEF CmdInv, TypeOK, PlacesOK, Goto, SignalAndGoto, Same
  <1>4. NobodyBlocks
    BY <1>1, <1>2 DEF NobodyBlocks, Rests
  <1>5. \A u \in Threads : pc[u] = "exited" <=> pc'[u] = "exited"
    BY <1>2 DEF Rests
  <1>6. Same("Main") /\ \A r \in Rotators : Same(r)
    BY <1>3, ThreadsLemma DEF Workers
  <1>7. LifeInv'
    BY <1>5, <1>6, QuietLife DEF MoreInv, ServiceInv, flagVars
  <1>8. RotationSignalled' /\ ShutdownSignalled'
    BY <1>4, <1>6, RotationFrame, ShutdownFrame DEF MoreInv, flagVars
  <1> QED
    BY <1>2, <1>7, <1>8

LEMMA InputMore ==
    ASSUME CmdInv, MoreInv, InputStep
    PROVE  MoreInv'
  <1>0. "Input" \in Threads \ {"Main"} /\ "Input" \notin Rotators
        /\ "Input" \in Workers /\ "Process" \in Workers /\ "Output" \in Workers
        /\ "Process" \in Threads /\ "Output" \in Threads
    BY ThreadsLemma DEF Workers
  <1>1. CASE Wait("Input") \/ ReadRotate("Input")
    BY <1>0, <1>1, WaitMore, ReadRotateMore
  <1>2. CASE ReadWork
    <2>1. PICK label \in {"read", "check"} : Goto("Input", label)
      BY <1>2 DEF ReadWork
    <2> QED
      BY <1>0, <1>2, <2>1, MoveMore DEF ReadWork, QuietPlaces, flagVars, queueVars, placeVars
  <1>3. ASSUME NEW n \in 1..MaxBatch, ReadLine(n) PROVE MoreInv'
    BY <1>0, <1>3, MoveMore DEF ReadLine, QuietPlaces, flagVars, queueVars
  <1>4. CASE AppendCmd
    <2>1. /\ pc["Input"] = "append" /\ count' = count + 1 /\ queue' = queue \cup {count + 1}
          /\ status' = [status EXCEPT ![count + 1] = 0] /\ Goto("Input", "announce")
          /\ UNCHANGED <<flagVars, exited, workPending, placeVars, torn>>
      BY <1>4 DEF AppendCmd
    <2>2. /\ pc'["Input"] = "announce" /\ \A u \in Threads : u # "Input" => Rests(u)
          /\ LifeInv' /\ RotationSignalled' /\ ShutdownSignalled'
      BY <1>0, <2>1, WorkerMoves
    <2>3. Same("Process") /\ Same("Output")
      BY <1>0, <2>1, GotoRests DEF CmdInv, TypeOK, Same
    <2>4. /\ count + 1 \in Commands /\ count + 1 \notin queue
          /\ queue \subseteq Commands /\ status \in [Commands -> 0..3]
      BY <2>1, CmdAssumption DEF CmdAssumption, CmdInv, TypeOK, DataOK, InputInv, Commands
    <2>5. status'[count + 1] = 0 /\ \A e \in queue : status'[e] = status[e]
      BY <2>1, <2>4
    <2>6. RunInv'
      BY <2>1, <2>3, <2>4, <2>5 DEF MoreInv, ServiceInv, RunInv, Same, placeVars
    <2>7. (\E e \in queue : Finished(e))' => \E e \in queue : Finished(e)
      BY <2>1, <2>5 DEF Finished
    <2>8. WorkInv'
      BY <2>1, <2>2, <2>3, <2>7 DEF MoreInv, WorkInv, Same, Walking, Workers
    <2> QED
      BY <2>2, <2>6, <2>8 DEF MoreInv, ServiceInv
  <1>5. CASE AnnounceCmd
    <2> DEFINE label == IF LastOfLine THEN "read" ELSE "append"
    <2>1. /\ pc["Input"] = "announce" /\ SignalAndGoto("Process", "Input", label)
          /\ workPending' = [workPending EXCEPT !["Process"] = \E e \in queue : New(e)]
          /\ UNCHANGED <<flagVars, exited, queueVars, current, cursor, torn>>
      BY <1>5 DEF AnnounceCmd
    <2>2. pc'["Process"] = IF pc["Process"] = "condwait" THEN "check" ELSE pc["Process"]
      BY <1>0, <2>1 DEF SignalAndGoto, CmdInv, TypeOK, PlacesOK
    <2>3. /\ pc'["Input"] = label /\ \A u \in Threads : u # "Input" => Rests(u)
          /\ LifeInv' /\ RotationSignalled' /\ ShutdownSignalled'
      BY <1>0, <2>1, <2>2, WorkerMoves
    <2>4. Quiet("Process") /\ Rests("Output")
      BY <1>0, <2>3, ThreadsLemma DEF Quiet
    <2>5. RunInv'
      BY <2>1, <2>4, QuietRun DEF MoreInv, ServiceInv, queueVars
    <2>6. /\ workPending'["Process"] = \E e \in queue : New(e)
          /\ workPending'["Output"] = workPending["Output"]
      BY <1>0, <2>1 DEF CmdInv, TypeOK, DataOK
    <2>7. /\ (\E e \in queue : New(e))' <=> \E e \in queue : New(e)
          /\ (\E e \in queue : Finished(e))' <=> \E e \in queue : Finished(e)
      BY <2>1 DEF New, Finished, queueVars
    <2>8. WorkInv'
      BY <2>1, <2>2, <2>3, <2>4, <2>6, <2>7 DEF MoreInv, WorkInv, Rests, Walking, Workers
    <2> QED
      BY <2>3, <2>5, <2>8 DEF MoreInv, ServiceInv
  <1>6. CASE EndInput
    <2>1. /\ pc["Input"] = "read" /\ Goto("Input", "check")
          /\ workPending' = [workPending EXCEPT !["Input"] = FALSE]
          /\ UNCHANGED <<flagVars, exited, queueVars, placeVars, torn>>
      BY <1>6 DEF EndInput
    <2>2. /\ pc'["Input"] = "check"
          /\ LifeInv' /\ RotationSignalled' /\ ShutdownSignalled'
      BY <1>0, <2>1, WorkerMoves
    <2>3. Same("Process") /\ Same("Output")
      BY <1>0, <2>1, GotoRests DEF CmdInv, TypeOK, Same
    <2>4. RunInv'
      BY <2>1, <2>3 DEF MoreInv, ServiceInv, RunInv, Same, queueVars, placeVars
    <2>5. /\ workPending'["Process"] = workPending["Process"]
          /\ workPending'["Output"] = workPending["Output"]
      BY <1>0, <2>1 DEF CmdInv, TypeOK, DataOK
    <2>6. /\ (\E e \in queue : New(e))' <=> \E e \in queue : New(e)
          /\ (\E e \in queue : Finished(e))' <=> \E e \in queue : Finished(e)
      BY <2>1 DEF New, Finished, queueVars
    <2>7. WorkInv'
      BY <2>1, <2>2, <2>3, <2>5, <2>6 DEF MoreInv, WorkInv, Same, Walking, Workers
    <2> QED
      BY <2>2, <2>4, <2>7 DEF MoreInv, ServiceInv
  <1> QED
    BY <1>1, <1>2, <1>3, <1>4, <1>5, <1>6 DEF InputStep

\* A walk that was torn while it looked for finished commands leaves Output up to see them.
LEMMA ProcessMore ==
    ASSUME CmdInv, MoreInv, ProcessStep
    PROVE  MoreInv'
  <1>0. "Process" \in Threads \ {"Main"} /\ "Process" \notin Rotators
        /\ "Input" \in Workers /\ "Process" \in Workers /\ "Output" \in Workers
        /\ "Input" \in Threads /\ "Output" \in Threads
    BY ThreadsLemma DEF Workers
  <1>1. CASE Wait("Process") \/ ReadRotate("Process")
    BY <1>0, <1>1, WaitMore, ReadRotateMore
  <1>2. ASSUME NEW e \in Commands, StartCmd(e) PROVE MoreInv'
    <2>1. /\ pc["Process"] = "search" /\ New(e) /\ Goto("Process", "run")
          /\ status' = [status EXCEPT ![e] = 1] /\ current' = e /\ torn' = FALSE
          /\ UNCHANGED <<flagVars, exited, workPending, queue, count, batch, cursor>>
      BY <1>2 DEF StartCmd
    <2>2. /\ pc'["Process"] = "run" /\ LifeInv' /\ RotationSignalled' /\ ShutdownSignalled'
      BY <1>0, <2>1, WorkerMoves
    <2>3. Same("Input") /\ Same("Output")
      BY <1>0, <2>1, GotoRests DEF CmdInv, TypeOK, Same
    <2>4. status'[e] = 1 /\ e \in queue /\ \A f \in Commands : f # e => status'[f] = status[f]
      BY <2>1 DEF CmdInv, TypeOK, DataOK, New
    <2>5. queue \subseteq Commands
      BY CmdAssumption DEF CmdAssumption, CmdInv, TypeOK, DataOK, Commands
    <2>6. RunInv'
      BY <2>1, <2>2, <2>4, <2>5 DEF MoreInv, ServiceInv, RunInv
    <2>7. /\ (\E f \in queue : New(f))' => \E f \in queue : New(f)
          /\ (\E f \in queue : Finished(f))' => \E f \in queue : Finished(f)
      BY <2>1, <2>4, <2>5 DEF New, Finished
    <2>8. WorkInv'
      BY <2>1, <2>2, <2>3, <2>7 DEF MoreInv, WorkInv, Same, Walking, Workers
    <2> QED
      BY <2>2, <2>6, <2>8 DEF MoreInv, ServiceInv
  <1>3. CASE NothingNew \/ UnlockCmd
    <2>1. PICK label \in {"setProcessWork", "setOutputWork"} :
               /\ Goto("Process", label)
               /\ pc["Process"] = IF label = "setProcessWork" THEN "search" ELSE "unlock"
      BY <1>3 DEF NothingNew, UnlockCmd
    <2>2. /\ torn' = (IF label = "setProcessWork" THEN FALSE ELSE torn)
          /\ UNCHANGED <<flagVars, exited, workPending, queueVars>>
      BY <1>3, <2>1 DEF NothingNew, UnlockCmd
    <2>3. /\ pc'["Process"] = label /\ LifeInv' /\ RotationSignalled' /\ ShutdownSignalled'
      BY <1>0, <2>1, <2>2, WorkerMoves
    <2>4. Same("Input") /\ Same("Output")
      BY <1>0, <2>1, GotoRests DEF CmdInv, TypeOK, Same
    <2>5. RunInv'
      BY <2>1, <2>2, <2>3 DEF MoreInv, ServiceInv, RunInv, queueVars
    <2>6. ~torn'
      BY <2>1, <2>2 DEF MoreInv, WorkInv, Walking
    <2>7. /\ (\E f \in queue : New(f))' <=> \E f \in queue : New(f)
          /\ (\E f \in queue : Finished(f))' <=> \E f \in queue : Finished(f)
      BY <2>2 DEF New, Finished, queueVars
    <2>8. pc["Process"] \in {"unlock", "setOutputWork", "exited"} =>
          pc'["Process"] \in {"unlock", "setOutputWork", "exited"}
      BY <2>1, <2>3
    <2>9. WorkInv'
      BY <2>2, <2>3, <2>4, <2>6, <2>7, <2>8 DEF MoreInv, WorkInv, Same, Workers
    <2> QED
      BY <2>3, <2>5, <2>9 DEF MoreInv, ServiceInv
  <1>4. ASSUME NEW result \in {2, 3}, EndCmd(result) PROVE MoreInv'
    <2>1. /\ pc["Process"] = "run" /\ Goto("Process", "unlock")
          /\ status' = [status EXCEPT ![current] = result]
          /\ UNCHANGED <<flagVars, exited, workPending, queue, count, placeVars, torn>>
      BY <1>4 DEF EndCmd
    <2>2. /\ pc'["Process"] = "unlock" /\ LifeInv' /\ RotationSignalled' /\ ShutdownSignalled'
      BY <1>0, <2>1, WorkerMoves
    <2>3. Same("Input") /\ Same("Output")
      BY <1>0, <2>1, GotoRests DEF CmdInv, TypeOK, Same
    <2>4. /\ queue \subseteq Commands /\ status \in [Commands -> 0..3]
          /\ current \in queue
      BY <2>1, CmdAssumption
      DEF CmdAssumption, CmdInv, TypeOK, DataOK, Commands, MoreInv, ServiceInv, RunInv
    <2>5. status'[current] = result /\ \A f \in queue : f # current => status'[f] = status[f]
      BY <2>1, <2>4
    <2>6. RunInv'
      BY <2>1, <2>2, <2>5 DEF MoreInv, ServiceInv, RunInv, placeVars
    <2>7. (\E f \in queue : New(f))' => \E f \in queue : New(f)
      BY <2>1, <2>5 DEF New
    <2>8. ~torn'
      BY <2>1 DEF MoreInv, WorkInv, Walking
    <2>9. WorkInv'
      BY <2>1, <2>2, <2>3, <2>7, <2>8 DEF MoreInv, WorkInv, Same, Workers
    <2> QED
      BY <2>2, <2>6, <2>9 DEF MoreInv, ServiceInv
  <1>5. CASE SetOutputWork
    <2>1. PICK flag \in FlagAfterWalk(\E e \in queue : Finished(e)) :
               workPending' = [workPending EXCEPT !["Output"] = flag]
      BY <1>5 DEF SetOutputWork
    <2>2. /\ pc["Process"] = "setOutputWork" /\ SignalAndGoto("Output", "Process", "setProcessWork")
          /\ torn' = FALSE /\ UNCHANGED <<flagVars, exited, queueVars, placeVars>>
      BY <1>5 DEF SetOutputWork
    <2>3. pc'["Output"] = IF pc["Output"] = "condwait" THEN "check" ELSE pc["Output"]
      BY <1>0, <2>2 DEF SignalAndGoto, CmdInv, TypeOK, PlacesOK
    <2>4. /\ pc'["Process"] = "setProcessWork" /\ \A u \in Threads : u # "Process" => Rests(u)
          /\ LifeInv' /\ RotationSignalled' /\ ShutdownSignalled'
      BY <1>0, <2>2, <2>3, WorkerMoves
    <2>5. RunInv'
      BY <2>2, <2>4 DEF MoreInv, ServiceInv, RunInv, queueVars, placeVars
    <2>6. /\ workPending'["Output"] = flag
          /\ workPending'["Process"] = workPending["Process"]
          /\ workPending'["Input"] = workPending["Input"]
      BY <1>0, <2>1 DEF CmdInv, TypeOK, DataOK
    <2>7. /\ (\E f \in queue : New(f))' <=> \E f \in queue : New(f)
          /\ (\E f \in queue : Finished(f))' <=> \E f \in queue : Finished(f)
      BY <2>2 DEF New, Finished, queueVars
    <2>8. (\E f \in queue : Finished(f)) => flag \/ pc["Output"] \in {"showing", "clearOutputWork"}
      BY <2>1, <2>2 DEF FlagAfterWalk, MoreInv, WorkInv
    <2>9. Rests("Input")
      BY <1>0, <2>4
    <2>10. WorkInv'
      BY <2>2, <2>3, <2>4, <2>6, <2>7, <2>8, <2>9 DEF MoreInv, WorkInv, Rests, Workers
    <2> QED
      BY <2>4, <2>5, <2>10 DEF MoreInv, ServiceInv
  <1>6. CASE SetProcessWork
    <2>1. PICK flag \in FlagAfterWalk(\E e \in queue : New(e)) :
               workPending' = [workPending EXCEPT !["Process"] = flag]
      BY <1>6 DEF SetProcessWork
    <2>2. /\ pc["Process"] = "setProcessWork" /\ Goto("Process", "check")
          /\ torn' = FALSE /\ UNCHANGED <<flagVars, exited, queueVars, placeVars>>
      BY <1>6 DEF SetProcessWork
    <2>3. /\ pc'["Process"] = "check" /\ LifeInv' /\ RotationSignalled' /\ ShutdownSignalled'
      BY <1>0, <2>2, WorkerMoves
    <2>4. Same("Input") /\ Same("Output")
      BY <1>0, <2>2, GotoRests DEF CmdInv, TypeOK, Same
    <2>5. RunInv'
      BY <2>2, <2>3 DEF MoreInv, ServiceInv, RunInv, queueVars, placeVars
    <2>6. /\ workPending'["Process"] = flag
          /\ workPending'["Output"] = workPending["Output"]
          /\ workPending'["Input"] = workPending["Input"]
      BY <1>0, <2>1 DEF CmdInv, TypeOK, DataOK
    <2>7. /\ (\E f \in queue : New(f))' <=> \E f \in queue : New(f)
          /\ (\E f \in queue : Finished(f))' <=> \E f \in queue : Finished(f)
      BY <2>2 DEF New, Finished, queueVars
    <2>8. (\E f \in queue : New(f)) => flag \/ pc["Input"] \in {"append", "announce"}
      BY <2>1, <2>2 DEF FlagAfterWalk
    <2>9. WorkInv'
      BY <2>2, <2>3, <2>4, <2>6, <2>7, <2>8 DEF MoreInv, WorkInv, Same, Workers
    <2> QED
      BY <2>3, <2>5, <2>9 DEF MoreInv, ServiceInv
  <1>7. CASE ProcessCrash
    BY <1>7, ExitMore DEF ProcessCrash
  <1> QED
    BY <1>1, <1>2, <1>3, <1>4, <1>5, <1>6, <1>7 DEF ProcessStep

LEMMA OutputMore ==
    ASSUME CmdInv, MoreInv, OutputStep
    PROVE  MoreInv'
  <1>0. "Output" \in Threads \ {"Main"} /\ "Output" \notin Rotators
        /\ "Input" \in Workers /\ "Process" \in Workers /\ "Output" \in Workers
        /\ "Input" \in Threads /\ "Process" \in Threads
    BY ThreadsLemma DEF Workers
  <1>1. CASE Wait("Output") \/ ReadRotate("Output")
    BY <1>0, <1>1, WaitMore, ReadRotateMore
  <1>2. CASE LockQueue
    BY <1>0, <1>2, MoveMore DEF LockQueue, QuietPlaces, flagVars, queueVars
  <1>3. ASSUME NEW e \in Commands, PassCmd(e) PROVE MoreInv'
    <2>1. QuietStep /\ \A t \in Threads : Same(t)
      BY <1>3 DEF PassCmd, QuietStep, Quiet, Rests, Same, flagVars, queueVars
    <2> QED
      BY <1>3, <2>1, ThreadsLemma, QuietMore DEF PassCmd, flagVars
  <1>4. ASSUME NEW e \in Commands, ShowCmd(e) PROVE MoreInv'
    <2>1. /\ pc["Output"] = "showing" /\ Finished(e)
          /\ UNCHANGED <<flagVars, workPending, count, status, batch, current>>
      BY <1>4 DEF ShowCmd
    <2>2. CASE queue' = queue \ {e} /\ torn' = (torn \/ Walking) /\ UNCHANGED <<pc, exited>>
      <3>1. LifeInv' /\ RotationSignalled' /\ ShutdownSignalled'
        BY <2>1, <2>2
        DEF MoreInv, ServiceInv, LifeInv, RotationSignalled, RotatorAt, ShutdownSignalled, MainAt, flagVars
      <3>2. RunInv'
        BY <2>1, <2>2 DEF MoreInv, ServiceInv, RunInv, Finished
      <3>3. /\ (\E f \in queue : New(f))' => \E f \in queue : New(f)
            /\ (\E f \in queue : Finished(f))' => \E f \in queue : Finished(f)
        BY <2>1, <2>2 DEF New, Finished
      <3>4. WorkInv'
        BY <2>1, <2>2, <3>3 DEF MoreInv, WorkInv, Walking
      <3> QED
        BY <3>1, <3>2, <3>4 DEF MoreInv, ServiceInv
    <2>3. CASE Exit("SysExit") /\ UNCHANGED <<queue, cursor, torn>>
      BY <2>1, <2>3, ExitMore DEF queueVars, placeVars
    <2> QED
      BY <1>4, <2>2, <2>3 DEF ShowCmd
  <1>5. CASE UnlockQueue
    <2>1. /\ pc["Output"] = "showing" /\ Goto("Output", "clearOutputWork")
          /\ UNCHANGED <<flagVars, exited, workPending, queueVars, current, torn>>
      BY <1>5 DEF UnlockQueue
    <2>2. /\ pc'["Output"] = "clearOutputWork" /\ LifeInv' /\ RotationSignalled' /\ ShutdownSignalled'
      BY <1>0, <2>1, WorkerMoves
    <2>3. Same("Input") /\ Same("Process")
      BY <1>0, <2>1, GotoRests DEF CmdInv, TypeOK, Same
    <2>4. RunInv'
      BY <2>1, <2>3 DEF MoreInv, ServiceInv, RunInv, Same, queueVars
    <2>5. /\ (\E f \in queue : New(f))' <=> \E f \in queue : New(f)
          /\ (\E f \in queue : Finished(f))' <=> \E f \in queue : Finished(f)
      BY <2>1 DEF New, Finished, queueVars
    <2>6. WorkInv'
      BY <2>1, <2>2, <2>3, <2>5 DEF MoreInv, WorkInv, Same, Walking, Workers
    <2> QED
      BY <2>2, <2>4, <2>6 DEF MoreInv, ServiceInv
  <1>6. CASE ClearOutputWork
    <2>1. /\ pc["Output"] = "clearOutputWork" /\ CondMutexFree("Output") /\ Goto("Output", "check")
          /\ workPending' = [workPending EXCEPT !["Output"] = \E e \in queue : Finished(e)]
          /\ UNCHANGED <<flagVars, exited, queueVars, placeVars, torn>>
      BY <1>6 DEF ClearOutputWork
    <2>2. /\ pc'["Output"] = "check" /\ LifeInv' /\ RotationSignalled' /\ ShutdownSignalled'
      BY <1>0, <2>1, WorkerMoves
    <2>3. Same("Input") /\ Same("Process")
      BY <1>0, <2>1, GotoRests DEF CmdInv, TypeOK, Same
    <2>4. RunInv'
      BY <2>1, <2>3 DEF MoreInv, ServiceInv, RunInv, Same, queueVars, placeVars
    <2>5. /\ workPending'["Output"] = (\E e \in queue : Finished(e))
          /\ workPending'["Process"] = workPending["Process"]
          /\ workPending'["Input"] = workPending["Input"]
      BY <1>0, <2>1 DEF CmdInv, TypeOK, DataOK
    <2>6. /\ (\E f \in queue : New(f))' <=> \E f \in queue : New(f)
          /\ (\E f \in queue : Finished(f))' <=> \E f \in queue : Finished(f)
      BY <2>1 DEF New, Finished, queueVars
    <2>7. WorkInv'
      BY <2>1, <2>2, <2>3, <2>5, <2>6 DEF MoreInv, WorkInv, Same, Walking, Workers, CondMutexFree
    <2> QED
      BY <2>2, <2>4, <2>7 DEF MoreInv, ServiceInv
  <1> QED
    BY <1>1, <1>2, <1>3, <1>4, <1>5, <1>6 DEF OutputStep
-----------------------------------------------------------------------------
(* Main and the log rotation threads *)

LEMMA MainMoves ==
    ASSUME CmdInv, MoreInv, NEW label, label \notin {"sigwait", "exited"}, pc["Main"] # "exited",
           PendingOrderlyShutdown,
           Goto("Main", label) \/ \E w \in Workers : SignalAndGoto(w, "Main", label),
           UNCHANGED <<PendingOrderlyShutdown, LogfileRotate, exited, workPending, queueVars, placeVars, torn>>
    PROVE  /\ pc'["Main"] = label /\ \A w \in Workers : Rests(w)
           /\ LifeInv' /\ RunInv' /\ WorkInv' /\ RotationSignalled'
  <1>1. "Main" \in Threads /\ "Main" \notin Workers \cup Rotators /\ Workers \subseteq Threads
        /\ Rotators \subseteq Threads /\ Rotators \cap Workers = {}
    BY ThreadsLemma DEF Workers
  <1>2. pc'["Main"] = label /\ \A u \in Threads : u # "Main" => Rests(u)
    BY <1>1, GotoRests, SignalRests DEF CmdInv, TypeOK, Rests
  <1>3. \A r \in Rotators : Same(r)
    BY <1>1 DEF CmdInv, TypeOK, PlacesOK, Goto, SignalAndGoto, Same
  <1>4. NobodyBlocks /\ \A w \in Workers : Quiet(w)
    BY <1>1, <1>2 DEF NobodyBlocks, Rests, Quiet
  <1>5. \A u \in Threads : pc[u] = "exited" <=> pc'[u] = "exited"
    BY <1>2 DEF Rests
  <1>6. LifeInv'
    BY <1>2, <1>5 DEF MoreInv, ServiceInv, LifeInv
  <1>7. RunInv' /\ WorkInv'
    BY <1>4, QuietRun, QuietWork DEF MoreInv, ServiceInv, Workers, queueVars, placeVars
  <1>8. RotationSignalled'
    BY <1>3, <1>4, RotationFrame DEF MoreInv
  <1> QED
    BY <1>1, <1>2, <1>6, <1>7, <1>8

LEMMA MainMore ==
    ASSUME CmdInv, MoreInv, MainStep
    PROVE  MoreInv'
  <1>0. /\ pc["Main"] \notin {"sigwait", "exited"} => PendingOrderlyShutdown
        /\ "Input" \in Workers /\ "Process" \in Workers /\ "Output" \in Workers
    BY DEF MoreInv, ServiceInv, LifeInv, Workers
  <1>1. CASE StartShutdown
    <2>1. /\ pc'["Main"] = "signalInput"
          /\ LifeInv' /\ RunInv' /\ WorkInv' /\ RotationSignalled'
      BY <1>1, MainMoves DEF StartShutdown
    <2>2. ShutdownSignalled'
      BY <2>1 DEF ShutdownSignalled, MainAt
    <2> QED
      BY <2>1, <2>2 DEF MoreInv, ServiceInv
  <1>2. CASE AwaitRotation \/ DestroyMutexes
    <2>1. PICK label \in {"joinHandler", "delete"} :
               Goto("Main", label) /\ pc["Main"] \in {"lockRotate", "joinHandler"}
      BY <1>2 DEF AwaitRotation, DestroyMutexes
    <2>2. UNCHANGED <<flagVars, exited, workPending, queueVars, placeVars, torn>>
      BY <1>2 DEF AwaitRotation, DestroyMutexes
    <2>3. /\ \A w \in Workers : Rests(w)
          /\ LifeInv' /\ RunInv' /\ WorkInv' /\ RotationSignalled'
      BY <1>0, <2>1, <2>2, MainMoves DEF flagVars
    <2>4. ShutdownSignalled'
      BY <1>0, <2>1, <2>2, <2>3 DEF MoreInv, ShutdownSignalled, MainAt, Rests, flagVars
    <2> QED
      BY <2>3, <2>4 DEF MoreInv, ServiceInv
  <1>3. CASE EndServer
    BY <1>3, ExitMore DEF EndServer
  <1>4. ASSUME NEW w \in Workers, EndSignals(w) PROVE MoreInv'
    <2>1. /\ pc["Main"] = SignalLabel(w) /\ SignalAndGoto(w, "Main", JoinLabel(w))
          /\ UNCHANGED <<flagVars, exited, workPending, queueVars, placeVars, torn>>
      BY <1>4 DEF EndSignals
    <2>2. /\ SignalLabel(w) \notin {"sigwait", "exited"}
          /\ JoinLabel(w) \notin {"sigwait", "exited"}
      BY DEF SignalLabel, JoinLabel, Workers
    <2>3. /\ pc'["Main"] = JoinLabel(w) /\ \A v \in Workers : Rests(v)
          /\ LifeInv' /\ RunInv' /\ WorkInv' /\ RotationSignalled'
      BY <1>0, <2>1, <2>2, MainMoves DEF flagVars
    <2>4. pc'[w] # "condwait"
      BY <2>1, ThreadsLemma DEF SignalAndGoto, CmdInv, TypeOK, PlacesOK, Workers
    <2>5. ShutdownSignalled'
      BY <1>0, <2>1, <2>3, <2>4
      DEF MoreInv, ShutdownSignalled, MainAt, Rests, flagVars, SignalLabel, JoinLabel, Workers
    <2> QED
      BY <2>3, <2>5 DEF MoreInv, ServiceInv
  <1>5. ASSUME NEW w \in Workers, EndJoins(w) PROVE MoreInv'
    <2>1. /\ pc["Main"] = JoinLabel(w) /\ Goto("Main", AfterJoin(w))
          /\ UNCHANGED <<flagVars, exited, workPending, queueVars, placeVars, torn>>
      BY <1>5 DEF EndJoins
    <2>2. /\ JoinLabel(w) \notin {"sigwait", "exited"}
          /\ AfterJoin(w) \notin {"sigwait", "exited"}
      BY DEF AfterJoin, JoinLabel, Workers
    <2>3. /\ pc'["Main"] = AfterJoin(w) /\ \A v \in Workers : Rests(v)
          /\ LifeInv' /\ RunInv' /\ WorkInv' /\ RotationSignalled'
      BY <1>0, <2>1, <2>2, MainMoves DEF flagVars
    <2>4. ShutdownSignalled'
      BY <1>0, <2>1, <2>3
      DEF MoreInv, ShutdownSignalled, MainAt, Rests, flagVars, AfterJoin, JoinLabel, Workers
    <2> QED
      BY <2>3, <2>4 DEF MoreInv, ServiceInv
  <1> QED
    BY <1>1, <1>2, <1>3, <1>4, <1>5 DEF MainStep

\* A barrier opens: the workers go on from it, and nobody waits for a signal there.
LEMMA BarrierMore ==
    ASSUME CmdInv, MoreInv, NEW r \in Rotators,
           \A t \in Party(r) : pc[t] \in {"barrierStart", "barrierEnd"}
                                /\ pc'[t] \notin {"condwait", "exited", "run"},
           \A t \in Threads \ Party(r) : Same(t),
           UNCHANGED <<flagVars, exited, workPending, queueVars, placeVars, torn>>
    PROVE  MoreInv'
  <1>1. QuietStep
    BY ThreadsLemma DEF QuietStep, Quiet, QuietPlaces, Party, Same, Workers, flagVars, queueVars, placeVars
  <1>2. \A q \in Rotators : pc[q] \in {"signalInput", "signalProcess", "signalOutput"} => Same(q)
    BY ThreadsLemma DEF Party
  <1> QED
    BY <1>1, <1>2, QuietMore DEF flagVars

LEMMA RotateMore ==
    ASSUME CmdInv, MoreInv, NEW r \in Rotators, RotateStep(r)
    PROVE  MoreInv'
  <1>0. /\ r \in Threads \ (Workers \cup {"Main"}) /\ Rotators \subseteq Threads
        /\ Workers \subseteq Threads /\ "Main" \in Threads /\ "Main" \notin Workers
        /\ Rotators \cap Workers = {} /\ "Main" \notin Rotators
    BY ThreadsLemma DEF Workers
  <1>1. CASE RotateFails(r)
    BY <1>1, ExitMore DEF RotateFails
  <1>2. CASE RotateBegin(r)
    <2>1. /\ pc[r] = "start" /\ Goto(r, "signalInput")
          /\ UNCHANGED <<PendingOrderlyShutdown, Shutdown, exited, workPending, queueVars, placeVars, torn>>
      BY <1>2 DEF RotateBegin, SignalLabel
    <2>2. pc'[r] = "signalInput" /\ \A u \in Threads : u # r => Same(u)
      BY <1>0, <2>1, GotoRests DEF CmdInv, TypeOK, Same
    <2>3. /\ \A w \in Workers : Quiet(w)
          /\ Same("Main") /\ NobodyBlocks
      BY <1>0, <2>2 DEF Quiet, Rests, Same, NobodyBlocks
    <2>4. \A t \in Threads : pc[t] = "exited" <=> pc'[t] = "exited"
      BY <2>1, <2>2 DEF Same
    <2>5. LifeInv' /\ RunInv' /\ WorkInv' /\ ShutdownSignalled'
      BY <2>1, <2>3, <2>4, QuietLife, QuietRun, QuietWork, ShutdownFrame
      DEF MoreInv, ServiceInv, Workers, queueVars, placeVars
    <2>6. RotationSignalled'
      BY <2>2 DEF RotationSignalled, RotatorAt
    <2> QED
      BY <2>5, <2>6 DEF MoreInv, ServiceInv
  <1>3. CASE RotateUnlock(r) \/ RotateEnd(r)
    BY <1>0, <1>3, MoveMore DEF RotateUnlock, RotateEnd, flagVars, queueVars, placeVars
  <1>4. ASSUME NEW w \in Workers, RotateSignals(r, w) PROVE MoreInv'
    <2>1. /\ pc[r] = SignalLabel(w) /\ SignalAndGoto(w, r, AfterSignal(w))
          /\ UNCHANGED <<flagVars, exited, workPending, queueVars, placeVars, torn>>
      BY <1>4 DEF RotateSignals
    <2>2. SignalLabel(w) # "exited" /\ AfterSignal(w) # "exited"
      BY DEF SignalLabel, AfterSignal, Workers
    <2>3. LifeInv' /\ RunInv' /\ WorkInv' /\ ShutdownSignalled'
      BY <1>0, <2>1, <2>2, SignalMore DEF flagVars, queueVars, placeVars
    <2>4. /\ pc'[r] = AfterSignal(w) /\ pc'[w] # "condwait"
          /\ \A v \in Workers : Rests(v)
          /\ \A q \in Rotators : q # r => Same(q)
      BY <1>0, <2>1 DEF SignalAndGoto, CmdInv, TypeOK, PlacesOK, Rests, Same
    <2>5. RotationSignalled'
      <3>1. ASSUME NEW labels, RotatorAt(labels), SignalLabel(w) \in labels => AfterSignal(w) \in labels
            PROVE  RotatorAt(labels)'
        BY <2>1, <2>4, <3>1 DEF RotatorAt, Same
      <3>2. \A v \in Workers : pc'[v] = "condwait" => pc[v] = "condwait" /\ v # w
        BY <2>4 DEF Rests
      <3>3. w # "Input" /\ RotatorAt({"signalInput"}) => RotatorAt({"signalInput"})'
        BY <3>1 DEF SignalLabel, Workers
      <3>4. w # "Process" /\ RotatorAt({"signalInput", "signalProcess"}) =>
                RotatorAt({"signalInput", "signalProcess"})'
        BY <3>1 DEF SignalLabel, AfterSignal, Workers
      <3>5. w # "Output" /\ RotatorAt({"signalInput", "signalProcess", "signalOutput"}) =>
                RotatorAt({"signalInput", "signalProcess", "signalOutput"})'
        BY <3>1 DEF SignalLabel, AfterSignal, Workers
      <3> QED
        BY <2>1, <3>2, <3>3, <3>4, <3>5 DEF MoreInv, RotationSignalled, Workers, flagVars
    <2> QED
      BY <2>3, <2>5 DEF MoreInv, ServiceInv
  <1>5. ASSUME NEW s \in Party(r), OpenBarrierStart(r, s) PROVE MoreInv'
    <2>1. /\ \A t \in Party(r) : pc[t] = "barrierStart" /\ pc'[t] \in {"openLogfile", "barrierEnd"}
          /\ \A t \in Threads \ Party(r) : Same(t)
          /\ UNCHANGED <<flagVars, exited, workPending, queueVars, placeVars, torn>>
      BY <1>0, <1>5 DEF OpenBarrierStart, Party, Same
    <2> QED
      BY <2>1, BarrierMore
  <1>6. CASE OpenBarrierEnd(r)
    <2>1. /\ \A t \in Party(r) : pc[t] = "barrierEnd"
          /\ \A t \in Workers : pc'[t] = WorkLabel(t)
          /\ pc'[r] = "unlock"
          /\ \A t \in Threads \ Party(r) : Same(t)
          /\ UNCHANGED <<flagVars, exited, workPending, queueVars, placeVars, torn>>
      BY <1>0, <1>6 DEF OpenBarrierEnd, Party, Same
    <2>2. \A w \in Workers : WorkLabel(w) \notin {"condwait", "exited", "run"}
      BY DEF WorkLabel, Workers
    <2> QED
      BY <2>1, <2>2, BarrierMore DEF Party
  <1>7. ASSUME NEW s \in Party(r), OpenLogfile(s) PROVE MoreInv'
    <2>1. s \in Threads \ {"Main"}
      BY <1>0 DEF Party
    <2> QED
      BY <1>7, <2>1, MoveMore DEF OpenLogfile, QuietPlaces, flagVars, queueVars, placeVars
  <1> QED
    BY <1>1, <1>2, <1>3, <1>4, <1>5, <1>6, <1>7 DEF RotateStep
-----------------------------------------------------------------------------
LEMMA NextMore ==
    ASSUME CmdInv, MoreInv, [Next]_vars
    PROVE  MoreInv'
  <1>1. CASE Next
    BY <1>1, EnvironmentMore, InputMore, ProcessMore, OutputMore, MainMore, RotateMore DEF Next
  <1>2. CASE UNCHANGED vars
    <2>1. QuietStep /\ \A t \in Threads : Same(t)
      BY <1>2 DEF QuietStep, Quiet, Rests, Same, vars, flagVars, queueVars, placeVars
    <2> QED
      BY <1>2, <2>1, ThreadsLemma, QuietMore DEF vars, flagVars
  <1> QED
    BY <1>1, <1>2

\* The inductive invariant of this module.
THEOREM FullInvariant == Spec => []FullInv
  <1>1. Init => FullInv
    BY InitInv, InitMore DEF FullInv
  <1>2. FullInv /\ [Next]_vars => FullInv'
    BY NextInv, NextMore DEF FullInv
  <1> QED
    BY <1>1, <1>2, PTL DEF Spec

\* No worker stays blocked on its condition while there is work for it, a rotation to
\* meet or a shutdown to obey, unless another thread is on its way to signal it
\* (setCmdInputWorkPending and its two likes, LogRotateThread, endServer).
THEOREM SignalsAreNotLost == Spec => []NoLostSignal
  <1>1. FullInv => NoLostSignal
    BY CommandsLemma DEF FullInv, MoreInv, ServiceInv, NoLostSignal
  <1> QED
    BY <1>1, FullInvariant, PTL
-----------------------------------------------------------------------------
(* The server implements CommandService. *)

\* A command that the step is not about keeps its state.
LEMMA StateMoves ==
    ASSUME NEW c \in Commands, NEW to, StateOf(c)' = to,
           \A d \in Commands : d # c => StateOf(d)' = StateOf(d)
    PROVE  ServiceState' = [ServiceState EXCEPT ![c] = to]
  BY DEF ServiceState, Commands

LEMMA StateKept ==
    ASSUME \A c \in Commands : StateOf(c)' = StateOf(c)
    PROVE  ServiceState' = ServiceState
  BY DEF ServiceState, Commands

LEMMA InitService == Init => Service!Init
  <1> SUFFICES ASSUME Init PROVE Service!Init
    OBVIOUS
  <1>1. \A c \in Commands : c > count
    BY CmdAssumption DEF CmdAssumption, Init, Commands
  <1>2. ServiceState = [c \in Commands |-> "unread"]
    BY <1>1 DEF ServiceState, StateOf
  <1>3. ServiceServer = "open"
    BY DEF Init, ServiceServer
  <1> QED
    BY <1>2, <1>3 DEF Service!Init

ServiceVars == <<ServiceState, ServiceServer>>

\* A step that changes neither the queue nor how the server ends is a stuttering step.
LEMMA Stutters ==
    ASSUME UNCHANGED <<PendingOrderlyShutdown, exited, queueVars>>
    PROVE  UNCHANGED ServiceVars
  <1>1. \A c \in Commands : StateOf(c)' = StateOf(c)
    BY DEF StateOf, queueVars
  <1>2. ServiceState' = ServiceState
    BY <1>1, StateKept
  <1>3. ServiceServer' = ServiceServer
    BY DEF ServiceServer
  <1> QED
    BY <1>2, <1>3 DEF ServiceVars

\* While a thread is up the service is open, or closed by SIGTERM; while a command is in
\* the queue it is open.
LEMMA ServerUp ==
    ASSUME CmdInv, LifeInv, NEW t \in Threads, pc[t] # "exited"
    PROVE  /\ exited = "no"
           /\ ServiceServer = IF PendingOrderlyShutdown THEN "closed" ELSE "open"
           /\ queue # {} => ServiceServer = "open"
  <1>1. exited = "no"
    BY DEF LifeInv
  <1> QED
    BY <1>1 DEF ServiceServer, CmdInv, NothingDropped

LEMMA ExitFails ==
    ASSUME CmdInv, LifeInv, NEW how \in {"INT", "crash", "SysExit"}, Exit(how),
           NEW t \in Threads, pc[t] # "exited", UNCHANGED <<PendingOrderlyShutdown, queueVars>>
    PROVE  Service!Next
  <1>1. ServiceServer \in {"open", "closed"}
    BY ServerUp
  <1>2. ServiceServer' = "failed"
    BY DEF Exit, ServiceServer
  <1>3. \A c \in Commands : StateOf(c)' = StateOf(c)
    BY DEF StateOf, queueVars
  <1>4. ServiceState' = ServiceState
    BY <1>3, StateKept
  <1> QED
    BY <1>1, <1>2, <1>4 DEF Service!Next, Service!Fail

LEMMA TermCloses ==
    ASSUME CmdInv, LifeInv, TermAccepted
    PROVE  Service!Next
  <1>1. /\ pc["Handler"] = "sigwait" /\ queue = {} /\ ~PendingOrderlyShutdown
        /\ PendingOrderlyShutdown' = TRUE /\ UNCHANGED <<exited, queueVars>>
    BY DEF TermAccepted, Accepts, Ignored
  <1>2. exited = "no" /\ ServiceServer = "open"
    BY <1>1, ThreadsLemma, ServerUp
  <1>3. ServiceServer' = "closed"
    BY <1>1, <1>2 DEF ServiceServer
  <1>4. \A c \in Commands : StateOf(c) \in {"unread", "shown"} /\ StateOf(c)' = StateOf(c)
    BY <1>1 DEF StateOf, queueVars
  <1>5. ServiceState' = ServiceState /\ \A c \in Commands : ServiceState[c] \in {"unread", "shown"}
    BY <1>4, StateKept DEF ServiceState
  <1> QED
    BY <1>2, <1>3, <1>5 DEF Service!Next, Service!Close

LEMMA EndStops ==
    ASSUME CmdInv, LifeInv, EndServer
    PROVE  Service!Next
  <1>1. pc["Main"] = "delete" /\ exited' = "ended" /\ UNCHANGED <<PendingOrderlyShutdown, queueVars>>
    BY DEF EndServer, Exit, flagVars
  <1>2. ServiceServer = "closed"
    BY <1>1, ThreadsLemma, ServerUp DEF LifeInv
  <1>3. ServiceServer' = "stopped"
    BY <1>1 DEF ServiceServer
  <1>4. \A c \in Commands : StateOf(c)' = StateOf(c)
    BY <1>1 DEF StateOf, queueVars
  <1>5. ServiceState' = ServiceState
    BY <1>4, StateKept
  <1> QED
    BY <1>2, <1>3, <1>5 DEF Service!Next, Service!Stop

\* A command goes on from one state to the next while the service is open.
LEMMA CommandMoves ==
    ASSUME NEW c \in Commands, NEW from, NEW to, StateOf(c) = from, StateOf(c)' = to,
           \A d \in Commands : d # c => StateOf(d)' = StateOf(d)
    PROVE  Service!Moves(c, from, to)
  <1>1. ServiceState[c] = from
    BY DEF ServiceState
  <1>2. ServiceState' = [ServiceState EXCEPT ![c] = to]
    BY StateMoves
  <1> QED
    BY <1>1, <1>2 DEF Service!Moves

LEMMA AppendTakes ==
    ASSUME CmdInv, LifeInv, AppendCmd
    PROVE  Service!Next
  <1>0. PICK c : c = count + 1
    OBVIOUS
  <1>1. /\ pc["Input"] = "append" /\ count' = c /\ queue' = queue \cup {c}
        /\ status' = [status EXCEPT ![c] = 0] /\ UNCHANGED <<flagVars, exited>>
    BY <1>0 DEF AppendCmd
  <1>2. /\ c \in Commands /\ count \in Nat /\ queue \subseteq 1..count
        /\ status \in [Commands -> 0..3] /\ Commands \subseteq Nat /\ ~PendingOrderlyShutdown
    BY <1>0, <1>1, CmdAssumption
    DEF CmdAssumption, CmdInv, TypeOK, DataOK, InputInv, NothingDropped, Commands
  <1>3. ServiceServer = "open" /\ exited = "no"
    BY <1>1, <1>2, ThreadsLemma, ServerUp
  <1>4. ServiceServer' = ServiceServer
    BY <1>1 DEF ServiceServer, flagVars
  <1>5. StateOf(c) = "unread"
    BY <1>0, <1>2 DEF StateOf
  <1>6. StateOf(c)' = "new"
    BY <1>1, <1>2 DEF StateOf
  <1>7. ASSUME NEW d \in Commands, d # c PROVE StateOf(d)' = StateOf(d)
    BY <1>0, <1>1, <1>2, <1>7 DEF StateOf
  <1>8. Service!Moves(c, "unread", "new")
    BY <1>2, <1>5, <1>6, <1>7, CommandMoves
  <1>9. Service!Take(c)
    BY <1>3, <1>4, <1>8 DEF Service!Take
  <1> QED
    BY <1>2, <1>9 DEF Service!Next

LEMMA StartRuns ==
    ASSUME CmdInv, LifeInv, RunInv, NEW e \in Commands, StartCmd(e)
    PROVE  Service!Next
  <1>1. /\ pc["Process"] = "search" /\ e \in queue /\ status[e] = 0
        /\ status' = [status EXCEPT ![e] = 1] /\ UNCHANGED <<flagVars, exited, queue, count>>
    BY DEF StartCmd, New
  <1>2. /\ status \in [Commands -> 0..3] /\ count \in Nat /\ e \in 1..count /\ queue \subseteq 1..count
    BY <1>1 DEF CmdInv, TypeOK, DataOK
  <1>3. ServiceServer = "open" /\ ServiceServer' = ServiceServer
    BY <1>1, ThreadsLemma, ServerUp DEF ServiceServer, flagVars
  <1>4. StateOf(e) = "new"
    BY <1>1, <1>2 DEF StateOf
  <1>5. StateOf(e)' = "running"
    BY <1>1, <1>2 DEF StateOf
  <1>6. ASSUME NEW d \in Commands, d # e PROVE StateOf(d)' = StateOf(d)
    BY <1>1, <1>2, <1>6 DEF StateOf
  <1>7. \A d \in Commands : ServiceState[d] # "running"
    BY <1>1 DEF RunInv, ServiceState, StateOf
  <1>8. Service!Moves(e, "new", "running")
    BY <1>4, <1>5, <1>6, CommandMoves
  <1>9. Service!Run(e)
    BY <1>3, <1>7, <1>8 DEF Service!Run
  <1> QED
    BY <1>9 DEF Service!Next

LEMMA EndFinishes ==
    ASSUME CmdInv, LifeInv, RunInv, NEW result \in {2, 3}, EndCmd(result)
    PROVE  Service!Next
  <1>0. PICK c : c = current
    OBVIOUS
  <1>1. /\ pc["Process"] = "run" /\ c \in queue /\ status[c] = 1
        /\ status' = [status EXCEPT ![c] = result] /\ UNCHANGED <<flagVars, exited, queue, count>>
    BY <1>0 DEF EndCmd, RunInv
  <1>2. /\ status \in [Commands -> 0..3] /\ count \in Nat /\ c \in 1..count
        /\ queue \subseteq 1..count /\ c \in Commands
    BY <1>0, <1>1 DEF CmdInv, TypeOK, DataOK, ProcessInv
  <1>3. ServiceServer = "open" /\ ServiceServer' = ServiceServer
    BY <1>1, ThreadsLemma, ServerUp DEF ServiceServer, flagVars
  <1>4. StateOf(c) = "running"
    BY <1>1, <1>2 DEF StateOf
  <1>5. StateOf(c)' = "finished"
    BY <1>1, <1>2 DEF StateOf
  <1>6. ASSUME NEW d \in Commands, d # c PROVE StateOf(d)' = StateOf(d)
    BY <1>1, <1>2, <1>6 DEF StateOf
  <1>7. Service!Moves(c, "running", "finished")
    BY <1>2, <1>4, <1>5, <1>6, CommandMoves
  <1>8. Service!Finish(c)
    BY <1>3, <1>7 DEF Service!Finish
  <1> QED
    BY <1>2, <1>8 DEF Service!Next

LEMMA ShowShows ==
    ASSUME CmdInv, LifeInv, NEW e \in Commands, ShowCmd(e)
    PROVE  Service!Next
  <1>1. /\ pc["Output"] = "showing" /\ e \in queue /\ status[e] \in {2, 3}
        /\ UNCHANGED <<flagVars, count, status>>
    BY DEF ShowCmd, Finished
  <1>2. CASE queue' = queue \ {e} /\ UNCHANGED exited
    <2>1. count \in Nat /\ e \in 1..count
      BY <1>1 DEF CmdInv, TypeOK, DataOK
    <2>2. ServiceServer = "open" /\ ServiceServer' = ServiceServer
      BY <1>1, <1>2, ThreadsLemma, ServerUp DEF ServiceServer, flagVars
    <2>3. StateOf(e) = "finished"
      BY <1>1, <2>1 DEF StateOf
    <2>4. StateOf(e)' = "shown"
      BY <1>1, <1>2, <2>1 DEF StateOf
    <2>5. ASSUME NEW d \in Commands, d # e PROVE StateOf(d)' = StateOf(d)
      BY <1>1, <1>2, <2>5 DEF StateOf
    <2>6. Service!Moves(e, "finished", "shown")
      BY <2>3, <2>4, <2>5, CommandMoves
    <2>7. Service!Show(e)
      BY <2>2, <2>6 DEF Service!Show
    <2> QED
      BY <2>7 DEF Service!Next
  <1>3. CASE Exit("SysExit") /\ UNCHANGED queue
    BY <1>1, <1>3, ThreadsLemma, ExitFails DEF flagVars, queueVars
  <1> QED
    BY <1>2, <1>3 DEF ShowCmd

\* Every step of the server is one of CommandService, or changes nothing there.
LEMMA NextService ==
    ASSUME CmdInv, LifeInv, RunInv, [Next]_vars
    PROVE  Service!Next \/ UNCHANGED ServiceVars
  <1>1. CASE Environment \/ QuitArrives
    <2>1. CASE InterruptArrives \/ CountCrash
      BY <2>1, ThreadsLemma, ExitFails DEF InterruptArrives, CountCrash, flagVars
    <2>2. CASE TermAccepted
      BY <2>2, TermCloses
    <2>3. CASE HupAccepted \/ QuitArrives \/ \E r \in Rotators : Usr1Accepted(r)
      BY <2>3, Stutters DEF HupAccepted, QuitArrives, Usr1Accepted, flagVars
    <2> QED
      BY <1>1, <2>1, <2>2, <2>3 DEF Environment
  <1>2. CASE InputStep
    <2>1. CASE AppendCmd
      BY <2>1, AppendTakes
    <2>2. CASE ~AppendCmd
      BY <1>2, <2>2, Stutters
      DEF InputStep, Wait, ReadRotate, ReadWork, ReadLine, AnnounceCmd, EndInput, flagVars
    <2> QED
      BY <2>1, <2>2
  <1>3. CASE ProcessStep
    <2>1. CASE \E e \in Commands : StartCmd(e)
      BY <2>1, StartRuns
    <2>2. CASE \E result \in {2, 3} : EndCmd(result)
      BY <2>2, EndFinishes
    <2>3. CASE ProcessCrash
      BY <2>3, ThreadsLemma, ExitFails DEF ProcessCrash, flagVars
    <2>4. CASE Wait("Process") \/ ReadRotate("Process") \/ NothingNew \/ UnlockCmd
               \/ SetOutputWork \/ SetProcessWork
      BY <2>4, Stutters DEF Wait, ReadRotate, NothingNew, UnlockCmd, SetOutputWork, SetProcessWork, flagVars
    <2> QED
      BY <1>3, <2>1, <2>2, <2>3, <2>4 DEF ProcessStep
  <1>4. CASE OutputStep
    <2>1. CASE \E e \in Commands : ShowCmd(e)
      BY <2>1, ShowShows
    <2>2. CASE ~\E e \in Commands : ShowCmd(e)
      BY <1>4, <2>2, Stutters
      DEF OutputStep, Wait, ReadRotate, LockQueue, PassCmd, UnlockQueue, ClearOutputWork, flagVars
    <2> QED
      BY <2>1, <2>2
  <1>5. CASE MainStep
    <2>1. CASE EndServer
      BY <2>1, EndStops
    <2>2. CASE ~EndServer
      BY <1>5, <2>2, Stutters
      DEF MainStep, StartShutdown, AwaitRotation, DestroyMutexes, EndSignals, EndJoins, flagVars
    <2> QED
      BY <2>1, <2>2
  <1>6. ASSUME NEW r \in Rotators, RotateStep(r) PROVE Service!Next \/ UNCHANGED ServiceVars
    <2>1. CASE RotateFails(r)
      BY <2>1, ThreadsLemma, ExitFails DEF RotateFails, flagVars
    <2>2. CASE ~RotateFails(r)
      BY <1>6, <2>2, Stutters
      DEF RotateStep, RotateBegin, RotateUnlock, RotateEnd, RotateSignals, OpenBarrierStart, OpenLogfile,
          OpenBarrierEnd, flagVars
    <2> QED
      BY <2>1, <2>2
  <1>7. CASE UNCHANGED vars
    BY <1>7, Stutters DEF vars, flagVars
  <1> QED
    BY <1>1, <1>2, <1>3, <1>4, <1>5, <1>6, <1>7 DEF Next

\* Commands are run one at a time, shown once each and only when they have come to their
\* end, and an orderly shutdown leaves none of them behind: the server is CommandService
\* (CmdInputThread, CmdProcessThread, CmdOutputThread, endServer).
THEOREM CommandServiceImplemented == Spec => ImplementsService
  <1>1. Init => Service!Init
    BY InitService
  <1>2. FullInv /\ [Next]_vars => [Service!Next]_(Service!vars)
    BY NextService DEF FullInv, MoreInv, ServiceInv, ServiceVars, Service!vars
  <1> QED
    BY <1>1, <1>2, FullInvariant, PTL DEF Spec, ImplementsService, Service!Spec
=============================================================================
