----------------------------- MODULE ServerLife -----------------------------
(***************************************************************************)
(* How a server comes up and goes down (the start of main and endServer in *)
(* myserver.c, dbserver.c, bankserver.c and app/main.c; lockfilertns.c,    *)
(* daemonrtns.c, logfilertns.c, sysexit.c), and how a program connects to  *)
(* one (tcprtns.c).  One server program is started again and again; a start *)
(* may fail at any step, by SysExit or a signal, and leaves the lock file. *)
(***************************************************************************)
EXTENDS Sequences

CONSTANTS Instances, NoInstance     \* the processes of one server program

ASSUME ServerLifeAssumption == NoInstance \notin Instances

VARIABLES
    serverName,     \* the server program
    todo,           \* the steps that each instance has to go
    life,           \* "starting", "serving", "closing", "ended" or "failed"
    lockfile,       \* who created the lock file
    lockPid,        \* whose process id it holds
    listening,      \* who has the port
    connectPc,      \* where the connecting program is
    socketFd,       \* its descriptor: "none", "nonblock" or "block"
    connectedTo     \* the instance that its connection was established with

lifeVars == <<serverName, todo, life, lockfile, lockPid, listening, connectPc, socketFd, connectedTo>>
lifeRest == <<serverName, lockfile, lockPid, listening, connectPc, socketFd, connectedTo>>
connectVars == <<connectPc, socketFd, connectedTo>>

\* The arguments, in the order that validateInput checks them in.
MyServerArgs   == <<"argc", "maxUsers", "svcName", "msglenInd">>
DbServerArgs   == <<"argc", "maxUsers">>
BankServerArgs == <<"argc", "maxUsers", "msglenInd">>
CmdServerArgs  == <<"argc", "maxUsers", "svcName">>

\* The order of main behind it; the command server has no port of its own.
MyServerMain   == <<"lock", "dir", "limit", "daemon", "pid", "logfile", "listen", "eventfd",
                    "clientinfo", "signals", "threads">>
DbServerMain   == <<"lock", "dir", "limit", "daemon", "pid", "logfile", "listen", "eventfd",
                    "clientinfo", "signals", "threads">>
BankServerMain == <<"lock", "dir", "limit", "daemon", "pid", "logfile", "listen", "eventfd",
                    "clientinfo", "signals", "threads">>
CmdServerMain  == <<"lock", "dir", "limit", "daemon", "pid", "logfile", "signals", "threads">>

\* The threads that initThreads starts.
MyServerThreads   == {"SignalHandler", "Timer", "DbSend", "BankSend"}
DbServerThreads   == {"SignalHandler"}
BankServerThreads == {"SignalHandler"}
CmdServerThreads  == {"SignalHandler", "CmdInput", "CmdOutput", "CmdProcess"}

\* The order of endServer: the threads it joins, and what it closes and frees.
MyServerEnd   == <<"DbSend", "BankSend", "Timer", "SignalHandler", "port", "lists", "lockfile", "log">>
DbServerEnd   == <<"SignalHandler", "port", "lists", "lockfile", "log">>
BankServerEnd == <<"SignalHandler", "port", "lists", "lockfile", "log">>
CmdServerEnd  == <<"CmdInput", "CmdOutput", "CmdProcess", "SignalHandler", "lists", "lockfile", "log">>

Server(args, main, threads, end) == [args |-> args, main |-> main, threads |-> threads, end |-> end]
Servers == [myserver |-> Server(MyServerArgs, MyServerMain, MyServerThreads, MyServerEnd),
            dbserver |-> Server(DbServerArgs, DbServerMain, DbServerThreads, DbServerEnd),
            bankserver |-> Server(BankServerArgs, BankServerMain, BankServerThreads, BankServerEnd),
            cmdserver |-> Server(CmdServerArgs, CmdServerMain, CmdServerThreads, CmdServerEnd)]
Arguments == {"argc", "maxUsers", "svcName", "msglenInd"}

LifeInit ==
    /\ serverName \in DOMAIN Servers /\ todo = [p \in Instances |-> <<>>]
    /\ life = [p \in Instances |-> "ended"]
    /\ lockfile = NoInstance /\ lockPid = NoInstance /\ listening = NoInstance
    /\ connectPc = "idle" /\ socketFd = "none" /\ connectedTo = NoInstance

Becomes(p, state) == life' = [life EXCEPT ![p] = state]
Ends(p, state) == Becomes(p, state) /\ todo' = [todo EXCEPT ![p] = <<>>]
Advance(p) == todo' = [todo EXCEPT ![p] = Tail(@)]
Alive(p) == life[p] \in {"starting", "serving", "closing"}
At(p, state, step) == life[p] = state /\ todo[p] # <<>> /\ Head(todo[p]) = step
AtStep(p, step) == At(p, "starting", step)
Unlocked(p) == \E step \in Arguments \cup {"lock"} : AtStep(p, step)

Start(p) ==
    /\ ~Alive(p) /\ Becomes(p, "starting")
    /\ LET server == Servers[serverName] IN todo' = [todo EXCEPT ![p] = server.args \o server.main]
    /\ UNCHANGED lifeRest

\* validateInput: the first argument that is wrong ends it by exit(1), before there
\* is a lock file.
ValidateServerInput(p) ==
    /\ \E arg \in Arguments : AtStep(p, arg)
    /\ UNCHANGED lifeRest
    /\ \/ Advance(p) /\ UNCHANGED life
       \/ Ends(p, "ended")

\* Mutant: the file is opened whether it is there or not.
LockfileOpen(p) ==
    /\ AtStep(p, "lock") /\ Advance(p) /\ lockfile' = p /\ lockPid' = NoInstance
    /\ UNCHANGED <<serverName, life, listening, connectVars>>

\* open() with O_EXCL, or "Server is already running".
LockfileCheck(p) ==
    /\ AtStep(p, "lock") /\ UNCHANGED <<serverName, lockPid, listening, connectVars>>
    /\ IF lockfile = NoInstance
       THEN lockfile' = p /\ Advance(p) /\ UNCHANGED life
       ELSE Ends(p, "ended") /\ UNCHANGED lockfile

\* Steps that change nothing that is modelled here, and may fail (SysExit).
Passes(p, step) == AtStep(p, step) /\ Advance(p) /\ UNCHANGED <<life, lifeRest>>
SetCurrentDir(p) == Passes(p, "dir")
SetFileLimit(p) == Passes(p, "limit")
LogfileOpen(p) == Passes(p, "logfile")
\* eventfd(), the two calloc() and, with the signals blocked, the mask of the threads.
SetUpMain(p) == \E step \in {"eventfd", "clientinfo", "signals"} : Passes(p, step)
\* The process that was started and its child exit(0), the grandchild is the server.
DaemonizeServer(p) == Passes(p, "daemon")

\* The file is opened by its name, and created if it is not there any more.
LockfileWritePid(p) ==
    /\ AtStep(p, "pid") /\ Advance(p) /\ lockPid' = p
    /\ lockfile' = IF lockfile = NoInstance THEN p ELSE lockfile
    /\ UNCHANGED <<serverName, life, listening, connectVars>>

\* bind() fails while another process has the port.
TcpSetListenSocket(p) ==
    /\ AtStep(p, "listen") /\ UNCHANGED <<serverName, lockfile, lockPid, connectVars>>
    /\ IF listening = NoInstance THEN listening' = p /\ Advance(p) /\ UNCHANGED life
                                 ELSE Ends(p, "failed") /\ UNCHANGED listening
InitThreads(p) == AtStep(p, "threads") /\ Advance(p) /\ Becomes(p, "serving") /\ UNCHANGED lifeRest

\* SysExit, at any step, or a signal that is not blocked yet: no file is removed.
Closes(p) == listening' = IF listening = p THEN NoInstance ELSE listening
SysExit(p) ==
    /\ Alive(p) /\ ~Unlocked(p) /\ Ends(p, "failed") /\ Closes(p)
    /\ UNCHANGED <<serverName, lockfile, lockPid, connectVars>>

\* endServer, step by step.  A thread is joined when it has ended.
EndServer(p) ==
    /\ life[p] = "serving" /\ Becomes(p, "closing")
    /\ todo' = [todo EXCEPT ![p] = Servers[serverName].end] /\ UNCHANGED lifeRest
JoinThread(p) ==
    /\ \E t \in Servers[serverName].threads : At(p, "closing", t)
    /\ Advance(p) /\ UNCHANGED <<life, lifeRest>>
CloseListen(p) ==
    /\ At(p, "closing", "port") /\ Advance(p) /\ Closes(p)
    /\ UNCHANGED <<serverName, life, lockfile, lockPid, connectVars>>
FreeLists(p) == At(p, "closing", "lists") /\ Advance(p) /\ UNCHANGED <<life, lifeRest>>
LockfileDelete(p) ==
    /\ At(p, "closing", "lockfile") /\ Advance(p) /\ lockfile' = NoInstance /\ lockPid' = NoInstance
    /\ UNCHANGED <<serverName, life, listening, connectVars>>
LogfileClose(p) ==
    At(p, "closing", "log") /\ Ends(p, "ended") /\ UNCHANGED lifeRest

\* Somebody who sees that no server runs removes the file, by hand.
RemoveStaleLock ==
    /\ lockfile # NoInstance /\ \A p \in Instances : ~Alive(p) \/ Unlocked(p)
    /\ lockfile' = NoInstance /\ lockPid' = NoInstance
    /\ UNCHANGED <<serverName, todo, life, listening, connectVars>>
-----------------------------------------------------------------------------
(***************************************************************************)
(* TcpSetConnectSocket (the clients) and TcpSetConnectSocketNoBlock (the   *)
(* payment server).                                                        *)
(***************************************************************************)
Connecting(label, fd, peer) == connectPc' = label /\ socketFd' = fd /\ connectedTo' = peer
NotLife == UNCHANGED <<serverName, todo, life, lockfile, lockPid, listening>>
\* No address (TcpSetSockAddr), no socket, or an error that is not expected.
ConnectExits == Connecting("exited", "none", NoInstance)

\* socket() and connect(): established, refused with the descriptor closed, or any
\* other error, which ends the program.
TcpSetConnectSocket ==
    /\ connectPc = "idle" /\ NotLife
    /\ \/ listening # NoInstance /\ Connecting("0", "block", listening)
       \/ Connecting("1", "none", NoInstance)
       \/ ConnectExits

\* Without blocking: connect() returns at once, established or in progress.
TcpSetConnectSocketNoBlock ==
    /\ connectPc = "idle" /\ NotLife
    /\ \/ listening # NoInstance /\ Connecting("socketBlock", "nonblock", listening)
       \/ Connecting("poll", "nonblock", NoInstance)
       \/ ConnectExits

\* poll() for two seconds, its revents, and so_error; when poll() or getsockopt()
\* fails the program ends.
PollConnect ==
    /\ connectPc = "poll" /\ NotLife
    /\ \/ listening # NoInstance /\ Connecting("socketBlock", "nonblock", listening)
       \/ Connecting("retryLater", "nonblock", NoInstance)
       \/ ConnectExits
RetryLater ==
    connectPc = "retryLater" /\ NotLife /\ Connecting("1", "none", NoInstance)
SocketBlock ==
    /\ connectPc = "socketBlock" /\ NotLife
    /\ \/ Connecting("0", "block", connectedTo)
       \/ ConnectExits

\* The caller uses the connection and closes it, or tries again.
ConnectAgain ==
    connectPc \in {"0", "1"} /\ NotLife /\ Connecting("idle", "none", NoInstance)

InstanceStep(p) ==
    \/ Start(p) \/ ValidateServerInput(p) \/ LockfileCheck(p) \/ SetCurrentDir(p) \/ SetFileLimit(p)
    \/ DaemonizeServer(p) \/ LockfileWritePid(p) \/ LogfileOpen(p) \/ TcpSetListenSocket(p)
    \/ SetUpMain(p) \/ InitThreads(p) \/ SysExit(p) \/ EndServer(p) \/ JoinThread(p)
    \/ CloseListen(p) \/ FreeLists(p) \/ LockfileDelete(p) \/ LogfileClose(p)
ConnectStep ==
    \/ TcpSetConnectSocket \/ TcpSetConnectSocketNoBlock \/ PollConnect \/ RetryLater
    \/ SocketBlock \/ ConnectAgain
LifeNext == (\E p \in Instances : InstanceStep(p)) \/ RemoveStaleLock \/ ConnectStep
LifeSpec == LifeInit /\ [][LifeNext]_lifeVars
-----------------------------------------------------------------------------
\* An instance is past its lock until it removes it.
Locked(p) == Alive(p) /\ ~Unlocked(p) /\ ~At(p, "closing", "log")
BeforePid(p) == \E step \in {"dir", "limit", "daemon", "pid"} : AtStep(p, step)

\* However often it is started, fails and is cleaned up after, a server has one
\* instance past its lock at a time, which created the lock file, whose process id
\* the file has and which alone has the port; so none fails to bind it because of
\* another (connections of an earlier one in TIME_WAIT are not modelled).
OneServer ==
    /\ \A p, q \in Instances : Locked(p) /\ Locked(q) => p = q
    /\ \A p \in Instances : Locked(p) => lockfile = p /\ (lockPid = p \/ BeforePid(p))
    /\ listening # NoInstance => Locked(listening)
    /\ \A p \in Instances : life[p] = "serving" /\ serverName # "cmdserver" => listening = p

\* A caller that is told 0 has a blocking connection that a server took; one that
\* is told 1 has no descriptor left.
ConnectSettles ==
    /\ connectPc = "0" => socketFd = "block" /\ connectedTo # NoInstance
    /\ connectPc \in {"1", "idle"} => socketFd = "none" /\ connectedTo = NoInstance

OneServerReached == OneServer /\ ConnectSettles
=============================================================================
