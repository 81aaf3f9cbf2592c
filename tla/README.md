# Verification of the payment servers

The repository holds a small payment system in C with its tests: a **payment server** (`clientserver/myserver.c`)
takes card payments from clients, has each one recorded by a **database server** (`dbserver.c`) and decided by a
**bank server** (`bankserver.c`); a **command server** (`master/src/app/main.c`) runs commands and logs; receipt
programs and libraries of helpers go with them. This directory models that code in TLA+, model-checks it with TLC and
proves theorems about it with TLAPS.

## 1. Inventory

| component | state | operations | hard behaviour | what makes it correct |
|---|---|---|---|---|
| Payment server `myserver.c` | `MainPoll[]`, `ClientInfo[]` with a mutex each, three work flags with a condition each, `DbFd`/`BankFd` and their status, eventfd, `OrderlyShutdown` | poll loop (accept, receive, respond, close), time-outs, send to and receive from two peers, signals, shutdown | 7 threads on the same slots; Main closes slots without their mutex; answers out of order; peers that go away; TERM at any time | a client gets the verdict on its own card, no card goes to the bank twice under a number, one control session, the user limit, every client is answered or timed out, shutdown ends |
| Payment client `myclient.c`, test clients `dbclient.c`, `bankclient.c` | sockets, `MainPoll[]`, a buffer per connection, `servermsgInd[]` | connect, request on each connection, wait for all, complete, close; then commands and reconnects | responses, errors, disconnects and resets on several connections in any order and in pieces | it completes what it has an answer to, polls open descriptors only, gets to its prompt |
| Database server `dbserver.c`, bank server `bankserver.c` | slots, list of worker threads, `NextAuditNumber` | poll loop, one detached thread per message, send under `SendMutex` | slot and descriptor reuse while a worker runs, restart of the counter, TERM | audit numbers unique, every message answered once, to its sender |
| Command server `main.c` | command queue, work flags, log-rotation barriers | add, run, show a command; rotate logs; shutdown | queue walked without its mutex, barrier against shutdown | each command runs once and is shown once, the server can always stop |
| Receipts `receipt*.c`, `payment.c` | files in two folders | validate, look in the folders, create the e-mail file, archive, clean up | several programs on one receipt, check and use of files, crash in between | a receipt that is reported is archived, and whole; nothing is left behind |
| Framing `msglenrtns.c`, `socketsend.c`, `socketrecv.c` | what was received of the next messages | send and receive by length indicator (N, T, M) | partial sends and receives, several messages in one, 16-bit lengths, a close or reset in the middle | messages whole, in order, once |
| Lists, ring buffer `lnklstrtns.c`, `thrinfo.c`, `cyclicstr.c` | chain of pointers, ring of a thread | append, remove, find, free; add a string | a search without the lock while elements are freed; the ring starts over | a thread finds its name; a log line is whole when it is printed |
| Start and end of a server: lock file, daemon, port, `tcprtns.c`, `sysexit.c` | lock file, process id, listening socket | check, start, fail at any step, stop; connect with and without blocking | two starts at once, a stale lock file removed by hand, refusals and time-outs | one server at a time, which has lock and port; a caller gets a connection or no descriptor |
| Control commands, logging `cmdrtns.c`, `logcmds.c`, `logrtns.c` | switches | set one by one, show | several threads without a lock | a response shows what its command said |
| Formatting, dates, check sum | none | pure functions | boundaries | agree with what they are for |
| Coverage merge `mergegcov.c` | two files side by side | read, compare, add | files that lack lines, skipped lines, one file that ends first | sums of the common lines, in order; it ends |

How they interact: the clients, the payment server and its two peers exchange messages over TCP; a message to a peer
is `servermsg_t`, which comes back with the audit number (database) or the verdict (bank). Inside the payment server
threads share `ClientInfo`; they wake each other with three conditions and wake Main with an eventfd.

## 2. Modules

| module | what it is |
|---|---|
| `MyServer` | the payment server, one action per step of a thread between two points where another can interfere, with its clients, peers, the clock and signals as environment |
| `MyServerProps` | its type invariant, safety, action and liveness properties, and the inductive parts used by the proofs |
| `CardApproval` | what the server promises to a client, without threads, slots or messages |
| `MCMyServer` | symmetry for TLC; the constants are in the `MyServer_*.cfg` files |
| `MyServerProofs`, `MyServerRequestProofs`, `MyServerCardProofs` | its theorems: types, mutexes, sessions; requests, the user limit, wake-ups, the end; verdicts, audit numbers and the refinement of `CardApproval` |
| `CmdServer` | the command server: five threads, the command queue, log rotation, shutdown |
| `CmdServerProps` | its properties, and the inductive invariant used by the proofs |
| `CommandService` | what the command server promises to whoever writes its command file, without threads and flags |
| `MCCmdServer` | the module TLC runs on; the constants are in the `CmdServer_*.cfg` files |
| `CmdServerProofs` | its theorems: types, shutdown, rotation; signals and the refinement of `CommandService` |
| `ProcServer` | the database server and the bank server (constant `Kind`): poll loop, a thread per message, shutdown, with their clients |
| `ProcServerProps` | its properties, and the inductive invariants used by the proofs |
| `PeerService` | what the two servers promise to clients that wait for their answers, the payment server among them |
| `MCProcServer` | what the clients may send, and symmetry; the other constants are in the `ProcServer_*.cfg` files |
| `ProcServerProofs`, `ProcServiceProofs` | its theorems: types, audit numbers, the user limit; answers and the refinement of `PeerService` |
| `MCMyServerLimits` | two scenarios of `MyServer` that are too large in one: a crowd of clients without failures, and a client with outages |
| `Clients` | the three client programs, with a server that answers or disconnects |
| `Receipt` | programs that create the receipt of one payment |
| `Framing` | a connection: the length routines, two routines that send and three that receive |
| `ServerLife` | start, failure and end of the four servers with lock file and port, and a program that connects |
| `ThreadNames` | the list of thread names, pointer by pointer |
| `Ring` | the ring of strings of a thread |
| `Logging` | control commands and the switches of the log |
| `MergeGcov` | the coverage merge tool |
| `Helpers` | the helpers that check, pad, hide and format, one call per behaviour |
| `MCLibrary` | the last nine side by side: a behaviour is one of one part |
| `LibraryProofs` | theorems of `Receipt`, `Ring`, `ServerLife`, `Clients`, `Logging` and `Helpers` |
| `DataProofs` | theorems of `ThreadNames`, `Framing`, `MergeGcov` and `MCLibrary` |

### MyServer and the code

A *slot* `i` is `MainPoll[i]` with `ClientInfo[i]`. `pc[t]` says where thread `t` is, `at[t]` which slot its `for` loop is
at. The threads and where they are written:

* **Main** (`main`, 338-437): `AcceptClient` and `CountUsers` are the two halves of `procNewClient`; `ReadEvent`,
  `DisconnectClients`, `CloseClient` are the event branch with `disconnectClients` and `closeClientAtIdx`; the `Recv...` actions are the ends
  of `recvRequest`, `SendResponse` is `sendResponse`. `BlockOnClient` is the lock in the loop when another thread has the
  slot. Main takes the slot's mutex to receive and to send only; closing a slot and giving it away happen
  without it, as in the code.
* **Timer**: `TimerWait` (the condition), `TimerPass`/`TimerScan` (elapsed times, read without a lock), `TimerLock`
  (lock, look again at descriptor and mark), `TimerMark`, `TimerSetsWorkPending`.
* **Senders** `SenderStep(p)`: connect, wait, scan, lock and look again, send, record, and what follows when the connection
  is gone. `SendReset` leaves the loop with the mutex locked, as the `break` does.
* **Receivers** `ReceiverStep(p)`: match an answer with a slot (no lock), lock and look again, store.
* **SignalHandler** and the end: `TermArrives`/`TermAccepted` are `ignoreSignal` and the assignment after it; `LeaveLoop`, `CloseAll`,
  `WakeThread`, `JoinThread` are the end of `main` and `endServer`, which joins DbSend, BankSend and Timer (`EndOrder`) and then sends QUIT to the
  SignalHandler (`KillHandler`, `QuitArrives`) and joins it too; `LockDestroyed` is a mutex macro that fails.

What is abstracted, and how:

* A card number is the connection that supplied it, a verdict is the card it was given on, so that a verdict that reaches
  the wrong client shows. Amounts, names, layouts and log texts are left out.
* A partial read or write is a stutter: slots and messages change only when a message is complete.
* A scan of the slots without locks picks the first match at one instant. The three
  `set...WorkPending` routines compute their flag at one instant, but hold their own mutex while a slot mutex they need is taken.
* Closing a slot is one step (`fd = -1` and the reset of the slot).
* `activityTime` is zero, recent, or old: old may happen any time (`TimePasses`), so every time-out length is covered.
* An event flag that Main's poll() call does not know yet is `toPOLLOUT` until the event is read.
* `connect()` and the start of the receiving thread are one step; the pause of 30 s before it is taken to outlast the end
  of the previous receiving thread.
* A send to a peer that closed its end succeeds (the message is lost), is reset (returns 1), or fails with a broken pipe,
  which `SocketSendNoYield` turns into the end of the process.
* The shutdown of a connection by a sending thread is for writing only: answers under way, and those the peer still gives, are received (`SenderShutdown`).
* Joining a thread that was never created is undefined behaviour: the process may go on or crash.
* Peers answer in any order. When the database server restarts, audit numbers begin again.
* There are as many slots as a run needs: `maxUsers + 10` in the code leaves slots for clients over the limit. The index
  one past the end when all slots are taken is not modelled (a hazard in PROJECT.json), nor is the reuse of a peer's
  descriptor number by a client, nor a send error to a client.

### Properties of MyServer

* `OwnVerdict`, `AuditForCard` follow a card through two peers that answer in any order. `ImplementsApproval` says the same
  as a refinement: reading each client's state off the server gives a behaviour of `CardApproval`, where a card
  is put to the bank once, under its own audit number, and its client is told the verdict on it. A client counts as gone once no slot serves
  it (what it does itself is not the server's doing), and as asked from its message on; the server refuses it if there are too many users.
* `ChargedIsFlagged`: a time-out after the card has gone to the bank is logged with a status that sends the operator to the bank.
* `MutualExclusion`, `OneInteractive`, `UsersBound`: the slots' mutexes, the control session and the user limit (a client that Main
  has accepted and is about to count, `BeingCounted`, is not served yet).
* `NoLostWakeup`: a thread blocked on its condition while a client has work for it is about to be signalled. A stage that a thread
  stores into a slot that was closed under it (`closed_in_use`) is work for nobody, and nobody is signalled for it.
* `AnsweredOrMarked`, `SilenceEnds`, `ShutdownEnds`: liveness; `NoThreadLeft`: the lock file goes when no other thread is left,
  the SignalHandler included.

### Fairness of MyServer

`FairSpec` asks for weak fairness of each thread (a thread that can go on does), strong fairness of Main per slot and for its event
descriptor (`poll()` reports every ready descriptor and the loop after it visits them all, and a mutex that is free again and again is got
in the end), and weak fairness of the clock. Nothing is asked of the clients, of the signals or of a peer that is down;
an answer of a peer that is up does come.

### CmdServer and the code

`pc[t]` says where thread `t` is. The log-rotation threads are the members of `Rotators`; the others are Main, Handler, Input,
Process and Output. `queue` is the set of elements of the list at `CmdQueueHead`: elements are numbered as they are appended, so that
the order of the list is the order of the numbers, and `count` is also the history of what was read.

* **Handler** (`SignalHandlerThread`, 299-377): one action per accepted signal. `Accepts` is `ignoreSignal`, which reads
  `CmdInputWorkPending`, the queue and `LogfileRotate` without a lock. `CountCrash` is its `LnkLstCount` on an element
  that Output frees.
* **Workers**: `Wait` is the `while` around `PTHREAD_COND_WAIT` and the test of `Shutdown`; `ReadRotate` and `ReadWork` are the reads of
  the flags that follow without the mutex. `ReadLine`, `AppendCmd`, `AnnounceCmd`, `EndInput` are
  `getCmd` with `addCmdQueue`; `StartCmd`, `EndCmd`, `UnlockCmd`, `SetOutputWork`, `SetProcessWork` are the body of the Process loop;
  `LockQueue`, `PassCmd`, `ShowCmd`, `UnlockQueue`, `ClearOutputWork` the body of the Output loop.
* **LogRotateThread**: `RotateBegin`, `RotateSignals`, then the barriers. A barrier opens in one step for all four
  parties; any of them may be the serial thread that opens the new file (`OpenLogfile`). `RotateFails` is a mutex macro on a mutex that
  `endServer` has destroyed.
* **Main**: `StartShutdown` is `Shutdown = 1`, the rest is `endServer` line by line.

What is abstracted, and how:

* `CmdInputMutex`, `CmdProcessMutex` and `CmdOutputMutex` protect a few assignments and are held for one step, except where Process walks the
  queue under one of them (`CondMutexFree`). `CmdQueueMutex` is taken by Input and Output only, and `LogRotateMutex` from the
  first to the last step of a rotation.
* Process walks the queue without `CmdQueueMutex`. Its walk is one step at its end; `torn` remembers that Output freed an element
  since it began. What a torn walk finds is undefined: a crash, or the memory in its next use, which may be a new
  element at the end of the list (`FlagAfterWalk`, the first disjunct in `StartCmd` and `NothingNew`).
* An element's mutex is destroyed by Output while Process may still hold it: `PTHREAD_MUTEX_DESTROY` ends the process (`ShowCmd`).
* A command ends as failed or succeeded; its text, its response and the log-level lines of the file are left out.
* Left out: spurious wake-ups (they only repeat the test), SIGQUIT and SIGPOLL from other processes, the failure to open a
  new log file (an end of the process), and `LogRotateId`, which two rotation threads share and only names a thread in the log.

### Properties of CmdServer

* `NothingDropped`: SIGTERM is accepted only at a moment when nothing is left to read, run or show, although the handler decides it with three unlocked
  reads; and nothing comes after it. `ImplementsService` says the same as a refinement: each command is run once and shown once, one at a time,
  and the server stops in order only with all of them shown.
* `NoLostSignal`: a worker that waits has nothing to do, or is about to be signalled by a thread that stands at a certain point.
* `QuietRotation`: the log file is replaced only while no worker is at work.
* `QueueDrains`, `RotationEnds`, `QuietShutdownEnds`: liveness. `ShutdownEnds` is what line 790 says, and does not hold: see the
  run `rotation_stuck`.

Fairness of `CmdServer`: weak fairness of each thread (a thread that can go on does, `SysCmdStrLst` returns). No more is needed because every
lock is released in a bounded number of steps of its holder and no two threads compete for one for ever. Nothing is asked of the signals.

### ProcServer and the code

`dbserver.c` and `bankserver.c` are the same program but for three things, which the model takes from `Kind`: what the answer is
(`Answer`), whether a counter goes with it (`CountAudit`), and whether the mark to disconnect is reset with its slot (`MarkAfterClose`). A *slot* `i` is
`MainPoll[i]` with `ClientInfo[i]`; a message `m` has one thread, `thread[m]`, and one list element, `elem[m]`, which remembers slot and
descriptor of the client that sent it.

* **Main**: `Poll` is the call; the loop over `MainPoll` after it takes one of `AcceptClient` (`procNewClient`), `ReadEvent`,
  `RecvMsg` and `RecvHangup` at a time until `EndLoop`. `DisconnectClient` is one turn of `disconnectClients`, slot by slot, because threads
  set marks meanwhile. `CloseRemaining` to `EndServer` is the end of `main` and `endServer`.
* **ProcessorThread**: `ProcessMsg` decides what the message is and counts, `LockSend` and `Send` are `setupResponse`, `RemoveElem`,
  `MarkClient`, `NotifyMain` are `endProcessorThread`. `SendReset` and `SendFails` are the errors of `SocketSendNoYield`; `TooLate` is
  what a thread meets that `endServer` did not wait for.
* **SignalHandlerThread**: `TermArrives` is `ignoreSignal`, the rest the body of the loop.
* **Clients**: patient ones are `dbclient.c` and `bankclient.c`, which send all their requests, wait for all answers, and hang up; the others hang
  up when they please. A run may have either kind. `dbclient.c` and `bankclient.c` send a request with another length only from
  their prompts, after the answers: a bad message is the last that a patient client sends.

What is abstracted, and how:

* A descriptor is the lowest that is free; what is sent on it reaches whoever is connected to it at that moment.
* An answer goes out in two parts, so that parts can be mixed; longer answers in more parts add nothing that two do not show.
* Partial receives are stutters, and messages of one connection are taken in the order in which they were sent.
* The loop over `MainPoll` serves the descriptors in any order, and may serve one that became ready after the call: the next call would
  return at once for it.
* `ThrInfoMutex` and `ProcThrLstMutex` are held for one step. Bounds: `MaxMsgs` messages, `MaxHasty` of them from clients that do not
  wait, and one SIGTERM that is accepted.
* Left out: failures of `poll`, `accept`, `calloc` and of thread creation (they end the process), a signal that gdb interrupts, and SIGQUIT
  from another process, which is ignored.

### Properties of ProcServer

* `ImplementsService`: an answer reaches the client that asked, once and under its own number, although its thread knows the client only by a descriptor number
  that `accept()` may have given to another. It holds for clients that wait, because a descriptor is closed only when nothing is
  on its way to it. `NoAbort` is the other side of it: no thread meets a closed descriptor, which would end the server.
* `WholeAnswers`: what `SendMutex` is for. `AuditOnce`: what the atomic counter is for.
* `RequestsSettled`, `ShutdownEnds`: liveness. `WaitingStay` is what the clients' comment says; it does not hold of
  `bankserver.c` (the run `stale_mark`).

Fairness of `ProcServer`: weak fairness of each thread; strong fairness of the eventfd and of each client's descriptor in the loop after `poll()`, which
visits every descriptor that is ready; strong fairness of SIGQUIT, because a pending signal is taken by the next `sigwaitinfo`. Nothing is
asked of the clients or of the other signals.

### The parts beside the servers and the code

* **Clients.** `clientPc` is the place in `main` and `index` its `for` loop. `ConnectAll`, `SendInitial`, `RecvResponse` with `EndWait`,
  `SendCompletion` and `WaitClose` are the loops of `myclient.c` at 79, 95, 116, 192 and 211; `Reconnect`, `Command`, `RecvAnswer` its
  interactive loop (257-349); the `Peer...` actions are the same in `dbclient.c` and `bankclient.c`. `inbound[i]` is what the server has
  sent, in two parts of which the second completes the message. A send after the server's end is lost, or reset, or kills the program (EPIPE).
  `WaitClose` waits two seconds for the server's end, but if anything else has arrived it receives without a limit until then.
* **Receipt.** `receiptPc` is the call in `ReceiptMain` that comes next; each call of a system routine is a step, so that programs interleave
  between the two checks, the open, the write, the close, the archive command and the delete. A file is named after the program that created it;
  `whole` are the files whose text is complete. `archiveCmd` is taken to be `mv` inside a file system, which is atomic; across file systems
  it copies, and a crash could leave part of a copy. `ProgramEnds` cuts a program off at any point.
* **Framing.** A byte is a number, a message a sequence of equal bytes, so that a byte in the wrong message shows. `Xmit` and `LenInMsg` compute
  the length bytes as the code does, with a signed 16-bit number. A send or a receive takes any number of bytes. `SocketRecvByClient`
  and `SocketRecvByServer` leave the cutting to `MsgGetComplete`; `SocketRecv` takes the buffer for one message.
* **ServerLife.** `todo[p]` are the steps that process `p` still has to go, in the order of `main` and then of `endServer`; the tables
  `MyServerMain`, `DbServerEnd` and so on are those orders. Every step behind the lock may end the process (`SysExit`, a signal) and leaves
  the lock file; `RemoveStaleLock` is somebody who removes it when no server is past its lock. The `Tcp...` actions are one call each up to the point
  where it waits.
* **ThreadNames.** `next[Head0]` is `thrinfoHead`; a step visits one element. Under `ThrInfoMutex` run `LockForAdd` to `AppendLink` (`ThrInfoAdd` with `LnkLstAppend`)
  and `LockForRemove` to `LnkLstTail` (`ThrInfoRemove` with `LnkLstRemove`: find, find the one before, unlink, free, find the tail, go on to the end), with the pointers
  `thrinfoElem` and `prevPtr`. `ThrInfoFind` walks without it, for every line that is logged, those of `MemAlloc` and `MemFree` among them. `JoinHandler` to `ClearHead`
  are `endServer` and `LnkLstFree`, without it too: `freePtr` and `freeNext` are its locals, kept over each free. In `dbserver.c` and `bankserver.c` the threads are
  detached and may be anywhere meanwhile (`myserver.c` joins all of its threads first, `main.c` all but those that rotate the log). `endServer` destroys the mutex, which in glibc fails (EBUSY) while a thread
  has it, and whoever locks a destroyed one ends the server (`LockDestroyed`). A step on a freed element or a null pointer sets `undefined`, and nothing follows.
* **Ring.** A string is its offset and its size with the null character; the last three are kept.
* **Logging.** An entry is a sign and a name; one step sets or reads one switch. `since[t]` are the switches that others have set since `t`.
* **MergeGcov.** A line is its number, mark (`"plain"` where the file has none) and count. `MergeTurn` is one turn of the loop, `Readline` and `Compare` what it calls. The files are all
  that have the source line and any lines up to `MaxLine`, with some that are empty, have another name or a line that is skipped.
* **Helpers.** A string is a sequence of characters from two or three, with the space, the at sign and the end of a line by name; the results that the code
  leaves undefined (outside of an array, a null pointer) are `Undefined`, and no property speaks of them. The check sum is the loop of the
  code, from the last digit to the first.

### Their properties

* `ClientSafe`: a client waits only for connections that are open, closes all but the first before its prompt, starts with an empty buffer, and
  completes a request exactly if the last whole message on it was a response. `PromptReached`: it gets out of its waits.
* `ReceiptSafe`: when nobody is at work and nobody was cut off, there is no e-mail file, and a receipt that any call has reported is archived whole. A broken one
  in the archive was moved there by a program other than its writer, who has it open: two passed the checks together.
* `MessagesInOrder`: what was taken is a prefix of what was sent, and all of it once nothing is under way. For `SocketRecv` the sender must
  wait for its answer, as all programs here do; `myserver.c` uses it, so a client that does not wait loses messages (a hazard that the property excludes).
* `OneServerReached`: one process past its lock, and it has lock file, process id and port; a connection that was reported is one. A stale file is taken to be removed
  while no process is past its lock; connections in TIME_WAIT, for which `bind` may fail, are not modelled.
* `NamesFound`: unless the list is freed while a thread is in a routine that changes it (`raced`), the chain is the list of the registered names, a search in which
  nothing was freed finds the right one, and only a search in which another thread's element was freed, because it takes no lock, uses freed memory. And `raced` takes an
  `endServer` that could not destroy the mutex because a thread had it. When it happens, main and the thread may free the same element or follow a pointer into one
  that is freed, with no search under way: nothing is claimed of the list from then on (hazard at `dbserver.c:670`).
* `LogLineIntact`: how long three strings may be so that the newest does not lie over the oldest, which `logmsg` prints after it has added two.
* `CommandTakesEffect`: the response shows what the command's last entry on a switch said, unless another command set it meanwhile.
* `MergeIsUnion`: numbers, order, counts, stars and total of the merged file, computed from the two files. `MergeEnds`: with equal last line numbers
  the loop ends. With different ones it does not: after the end of the shorter file the loop always wants to read from that file, so that
  the message about different line counts (`mergegcov.c:240`) is never reached for them.
* `HelpersAgree`: a valid card number is not valid with a digit changed or two neighbours swapped, and a zero in front changes nothing; a padded field reads back; a hidden address
  or number shows no more than it should; an amount has its digits, sign and point.
  `IsValidCreditCardCheckSum` doubles every other digit from the last but one; the steps by hand in its comment (`ccchecksum.c:31`) begin with the first digit, which is the same
  for even lengths only, as that of the 16 digits there.

Fairness of `Clients`: weak fairness of the program where it does not wait for its user, and of the server while a request is open (it answers or ends the
connection, which `AnsweredOrMarked` shows of the payment server). Of `MergeGcov`: its loop goes on. Nothing is asked of the other parts, which
have safety properties only.

## 3. Runs

The runs from `card_requests` to `mutex_leaked` are of `MCMyServer` (`limits` of `MCMyServerLimits`), the next two of `MCCmdServer`, then two of `MCProcServer` and one of
`MCLibrary`. The bounds are in the .cfg files.

| run | bounds | shows |
|---|---|---|
| `card_requests` | 2 clients, 2 slots, bank messages | types, own verdicts, audit numbers, no lost wake-up, refinement of `CardApproval`, all threads interleaved |
| `limits` | the action constraint `Limits` admits a crowd: 3 clients, limit 2, control commands; and an outage: 1 client with a bank request that may hang up, or time out once the bank has its card, and one outage of one peer | user limit, one control session, mutual exclusion, status of timed-out clients. No deadlock check: the leaked mutex below stops the server |
| `answered` | 1 client, everything a client can do, time-outs | answered, disconnected or marked; time-outs are noticed |
| `shutdown` | 1 client, peers not yet connected, TERM and INT | the shutdown ends, with no thread left |
| `answer_dropped` (violation) | 1 client | an answer that is faster than the sender's note that it waits for one is thrown away |
| `closed_in_use` (violation) | 2 clients, 1 slot, hang-ups | a slot is closed and reused under a sender's critical section; the next client is told another's verdict |
| `mutex_leaked` (violation) | 1 client, one outage | a connection reset leaves a slot's mutex locked for ever |
| `commands` | 2 commands on one line or on two, one rotation thread at a time, all signals | all properties of the command server. No deadlock check: the rotation of the next run, and the end of the process, stop the system |
| `rotation_stuck` (violation) | 1 command, TERM and USR1 | a rotation that has begun when SIGTERM is accepted waits at the barrier for workers that have ended, and `endServer` waits for its mutex, for ever |
| `peer_clients` | database server, 2 clients for 1 place, 2 messages, TERM and INT | all properties of the peer servers. No deadlock check: the process ends |
| `stale_mark` (violation) | bank server, 3 clients for 2 places, 3 messages | a client in a slot whose last client was disconnected is disconnected too, with its answer on the way |
| `library` | 3 programs on a receipt; 3 connections; files of 2 lines; 2 messages of 2 bytes; a ring of 8; 2 threads with 2 entries; 3 threads and main, one search at a time (`MaxSearches`); 2 processes; card numbers up to 5 digits, amounts to 40, fields of 3 | the properties of the parts beside the servers. No deadlock check: programs end |

Two clients are enough for messages to cross and one slot for two clients is enough for reuse; a third client matters to the limits
only. One outage is enough because nothing counts outages. Liveness is checked with one client: with two, TLC
needs longer than is practical, and the stale mark (hazard at `myserver.c:780`) concerns the second client.

Two commands are the least that make the queue a list: one is appended while the other runs or is shown and freed. One rotation thread at a
time is enough for liveness; a second one only waits for `LogRotateMutex` (the safety properties are proved for any number).

Two clients for one place are the least for a slot, a descriptor and the user limit to be used again; two messages are the least for two
threads of one client, or of two. A client that does not wait may send one message (`MaxHasty`): for such clients only the properties that do
not mention `patient` are claimed. The bank server needs a third client, whose bad message makes Main look at the marks.

For the parts: three programs are the least for one to create the file, one to archive it and one to find it; a second connection ends before
or after the first, and the third lets the first loop pass over one; a message of two bytes is longer than one receive, and two messages may share one; with files of two
lines one may lack the first line or the last, or both lack different ones; a ring of eight has room for three short strings or for one long one; two entries are the least for the
second to override the first; one thread of three stays until the end, so
that two others may add and remove themselves, in turn, while the list is freed; one search at a time is enough because a search changes nothing that another one reads (`ThreadNamesFound` is
proved for any number); two processes are the least for a race between starts; four
digits are one more than the shortest card number, so that both parities of the length occur. An amount has up to two digits and two places, so that zeros are added and not.

What the other races found on the way do is listed under "hazards" in PROJECT.json.

## 4. Proofs

`MyServerProofs` proves, for every number of slots, clients and descriptors and every choice of the other constants:

* `TypeCorrect`: `Spec => []TypeOK`
* `MutexSafe`: `Spec => []MutualExclusion`
* `OneSession`: `Spec => []OneInteractive`

from `ConstAssumption` alone. The inductive invariant is `IInv == TypeOK /\ LockInv /\ SessionInv`.

* `LockInv`: threads and mutexes have their types, a thread in a critical section holds the mutex of the slot it is at, and a thread about to
  lock is at a slot. It is inductive alone; mutual exclusion follows because a mutex has one holder. There is a lemma per kind of
  step (go on, enter, leave, wake another, exit, set...WorkPending), and the step lemma has one case per action.
* `TypeOK` needs `LockInv`: the sending and receiving threads write to slot `at[t]`.
* `SessionInv`: open descriptors differ, a control session has an open descriptor, Main is at an open slot while it blocks. It is
  needed because `recvRequest` compares descriptor numbers, not slots: with a closed slot still marked interactive, or two
  equal numbers, the comparison would miss a session.

`MyServerRequestProofs` proves under the same assumption what happens to a request and around it:

* `ChargesAreFlagged`: `Spec => ChargedIsFlagged`, by `CardInv`. What the Timer logs is the status it finds in the slot, so the invariant says
  where a request can be: `OwnersKept` (a slot has an owner exactly while it is open, and the message in it is its owner's or, left
  behind by a thread that held the slot when it was closed, nobody's), `RequestOnce` (a client whose card is at the bank has no other
  request to come, in its slot, in its inbox or in its program), and `ChargedInv` (once a card is at the bank, its slot is past the stages of
  the database, also in the hands of the threads that are in a critical section of it).
* `UsersAreLimited`: `Spec => []UsersBound`, an induction on the cardinality of the live slots: only `AcceptClient` adds one, and Main does nothing
  else before it has counted it.
* `WakeupsArrive`: `Spec => []NoLostWakeup`, by `WakeInv`: whoever stands at the test before its wait with work to do finds the flag set or a waker on the
  way (`FlagTold`), and whoever waits has found it reset. There is a lemma for each kind of step that touches the flags: work appears, work
  disappears, a flag is computed, a thread begins to wait.
* `NobodyLeft`: `Spec => NoThreadLeft`, by `EndInv`: `endServer` joins the threads one by one, the SignalHandler last, and a sending thread joins its receiving thread before it ends.

`MyServerCardProofs` proves what the server is for, for every number of clients, slots and descriptors, with time-outs, hang-ups, outages and signals in any order:

* `VerdictsAreOwn`: `Spec /\ ClosedIdle /\ AuditsGoOn => []OwnVerdict`
* `AuditsAreForCards`: `Spec /\ ClosedIdle /\ AuditsGoOn => []AuditForCard`
* `CardApprovalImplemented`: `Spec /\ ClosedIdle /\ AuditsGoOn => ImplementsApproval`

The two hypotheses are properties of a behaviour, because no choice of the constants stands for them, and they are what the code does not ensure:

* `ClosedIdle`: Main closes no slot that a sending or receiving thread has in hand, or whose request the database has. `closeClientAtIdx` does not ask; the run
  `closed_in_use` breaks it, and the property with it. Where no client hangs up and no time runs out it is broken still: a client that is accepted
  but not yet counted has `activityTime` zero (857-883), so the Timer may take it for silent (751) and mark it later, at work.
* `AuditsGoOn`: the database server does not begin to count anew. After a restart (`dbserver.c:117`) a number may be given out while the bank has a card under it:
  with two clients, two slots and one outage of the database server, TLC finds a client that is told the other's verdict.

So the theorems say that these two are all that stands between the code and its promise: the matching by descriptor number and by audit number, the slots
that are looked at without their mutexes, the order in which the peers answer and the reuse of slots and descriptors do no harm by themselves.
A behaviour may satisfy both and still have everything else: clients that time out or hang up before their request goes to the database, while the bank has
it, or after the answer; outages of the bank; TERM and INT. The second hypothesis is needed for `OwnVerdict` and the refinement even where no slot is closed in use; `AuditForCard`
is proved with it because one invariant serves all three theorems.

The inductive invariant is `HonestInv`, relative to `IInv` and `CardInv`. It says of a slot what its stage means for its client (`RequestOf`, `ResponseOf`, `GotOf`) and
for its audit number (`AuditOf`), of a client that it has a verdict only on its own card (`ClientHonest`), of the threads that what they have in hand is in their stage and
what they are about to store is its client's (`HandsHonest`, `RepliesHonest`), and of the peers that a number belongs to one card and a card to one number (`BooksHonest`).
`OwnVerdict` alone says nothing of the way a verdict comes. Each part has a frame lemma, so that an action has to be looked at only where it changes something (`Noisy`). For the refinement
each action that a client could notice is shown to be its abstract action, and the others to leave the abstract state alone (`QuietApproval`).

`CmdServerProofs` proves, for every set of rotation threads, every number of commands and every set of signals, from `CmdAssumption` alone:

* `CmdTypeCorrect`: `Spec => []TypeOK`
* `ShutdownDropsNothing`: `Spec => []NothingDropped`
* `RotationIsQuiet`: `Spec => QuietRotation`

The inductive invariant is `CmdInv == TypeOK /\ InputInv /\ NothingDropped /\ RotateInv /\ ProcessInv` (theorem `CmdInvariant`).

* `NothingDropped` needs `InputInv`: what keeps the queue empty after SIGTERM is that Input appends only while `CmdInputWorkPending` is
  set, the flag that the handler has seen at zero, and that only the handler sets it.
* `RotateInv` is two facts: `LogRotateMutex` has one holder, and while a thread is opening the log file the workers are at the second barrier.
  The second needs the first: with two rotations at once another thread could open the second barrier. `QuietRotation` follows
  because only `OpenLogfile` resets `LogfileRotate`.
* `ProcessInv` is for types: Process writes the status of the element it runs.

The proof has a lemma per kind of step (go on, signal and go on, exit) for each conjunct, so that an action that only moves a thread is
one line; `NextInv` collects a lemma per thread.

It also proves, under the same assumption:

* `SignalsAreNotLost`: `Spec => []NoLostSignal`
* `CommandServiceImplemented`: `Spec => ImplementsService`, initial states to initial states and every step of `CmdServer` to a step of `CommandService` or a stutter

from `FullInv == CmdInv /\ ServiceInv /\ WorkInv /\ RotationSignalled /\ ShutdownSignalled` (theorem `FullInvariant`).

* `WorkInv` ties the two flags `CmdProcessWorkPending` and `CmdOutputWorkPending` to the queue: a flag is behind the queue only while a thread is on its way to set
  it. The hard case is a walk of Process that Output has torn: it may set Output's flag without need, or miss a command, and the
  invariant has to say that Output is then up and computes the flag again.
* `RotationSignalled` and `ShutdownSignalled` are inductive with it: they name the places between which `LogRotateThread` and `endServer` still have a signal to send.
* `ServiceInv` says which command runs. The refinement needs it for `RunCmd` (no other command is running), and `NothingDropped` for the orderly end.

`ProcServerProofs` proves, for every number of clients, slots and messages and both kinds of server, from `ProcAssumption` alone:

* `TypeCorrect`: `Spec => []TypeOK`
* `AuditUnique`: `Spec => []AuditOnce`
* `UsersLimited`: `Spec => []UsersBound` (the run `limits` checks the same limit of the payment server)

`ProcInv` (theorem `Invariance`) adds to types and `AuditOnce` that no number above the counter has been given out: without it the
next number could be in use. `ProcAssumption` keeps the number of messages below the first number that six digits cannot show (`AuditLimit`); beyond it
the code cuts the number off, and `AuditOnce` would be false. `UsersLimited` is an induction on the cardinality of the taken slots: only
`AcceptClient` adds one.

`ProcServiceProofs` proves, for every number of clients, slots and messages:

* `AnswersAreWhole`: `Spec => []WholeAnswers`
* `NobodyAborts`: `Spec => []NoAbort`
* `WaitersStay`: `Spec => WaitingStay`
* `PeerServiceImplemented`: `Spec => ImplementsService`

from `ProcAssumption` and, named in each theorem, `NoStaleMark`: the server is `dbserver.c`, or no bad message is ever sent. For the database server this is no
hypothesis at all. For `bankserver.c` with bad messages `WaitingStay` is false, as the run `stale_mark` shows, because `initClientAtIdx` leaves the mark of
the slot's last client; the theorems say that nothing but that mark is in the way.

The inductive invariant is `PatientInv` (theorem `PatientInvariance`), and its heart is `TiedInv`: while the thread of a message may use the descriptor and the slot that it
remembers, they are still its client's. Nothing in the code keeps them so directly (a thread has no reference to its client, and Main closes slots without asking
the threads); they stay because a client that waits does not hang up (`SettledInv`: who has gone has had all answers, and a bad message is its sender's last), and
because only the sender of a bad message is marked (`MarkInv`). `StreamInv` says which halves of which answers a client has: an odd number of halves belongs to a thread that holds `SendMutex`. `SlotInv` keeps slots, descriptors and
clients together, `EndInv` lets nothing go on after the end, and `AnswerInv` is for the refinement: a number, once told, is its message's for good.

`LibraryProofs` and `DataProofs` prove of the parts beside the servers, each from the assumption of its module alone:

* `ReceiptsSafe`: `ReceiptSpec => []ReceiptSafe`, for every set of programs
* `RingIntact`: `RingSpec => []LogLineIntact`, for every size of the ring
* `OneServerRuns`: `LifeSpec => []OneServerReached`, for every set of processes
* `ClientsSafe`: `ClientsSpec => []ClientSafe`, for every number of connections
* `CommandsTakeEffect`: `LoggingSpec => []CommandTakesEffect`, for every set of threads and commands of every length
* `HelpersReturnWhatTheyPromise`: `HelpersSpec => []HelpersAgree`, for numbers, fields and amounts of every length
* `ThreadNamesFound`: `ThreadsSpec => []NamesFound`, for every finite set of threads
* `FramingKeepsOrder`: `FramingSpec => []MessagesInOrder`, for up to 255 messages of up to 255 bytes each (`FramingAssumption`: a byte names its message)
* `MergesTheUnion`: `MergeSpec => []MergeIsUnion`, for files of every length, with lines of the kinds in `Body`
* `LibraryTypesKept`: `LibrarySpec => []LibraryTypeOK`
* `PartsBehave` and `LibrarySafe`: the specification that the run checks, where the parts stand side by side, implements that of each part (but for the
  two with fairness of their own, whose invariants it keeps), and has all the safety invariants of the run

For receipts the inductive invariant `ReceiptInv` adds to the types which files are open (`FilesOpen`: a file that is not whole is open in some program, and whoever archived has returned), that
an e-mail file has a program at work or cut off (`EmailOwned`), and that a call that reported a receipt left one in the archive
(`ReturnsArchived`). It is needed because "nobody is at work" says nothing about files by itself: each step of a program must keep the file accounted for.

For the ring the invariant describes the last three
strings: each begins where the one before ends, or at the start of the ring when it would not have fitted; the rest is arithmetic, in a lemma of its own.

For the life of a server the argument is the order of the steps. `Rank` numbers the steps of all four programs, and `Plan` says of what a process has still to do
that the ranks go up, that it ends with the last step and that none of the steps that matter is passed over; the programs are shown to be such plans, and no step changes
that. With it "past its lock" is a comparison of ranks, and `LifeInv` says who holds what between which ranks: the lock file from `LockfileCheck` to
`LockfileDelete` (`HoldsLock`), the port from `TcpSetListenSocket` to `CloseListen` (`HoldsPort`). The lock goes last at the end and comes first at the start, so two
processes never have the port at stake.

For the clients `ClientInv` follows one connection at a time (`ConnectionAt`): what its descriptor, buffer and place in the loop tell of what the server has sent.

For the control commands `LogInv` says of a switch and a command: what the entries that are already applied said last (`SetSoFar`), or who set it since, and
what the part of the response that is already written shows (`ReadSoFar`). The last entry is carried as a witness.

The properties of `DataProofs` and of the helpers speak of what is computed over a list, a stream, a file or a number. The induction theorems of the library take an operator,
which the provers cannot instantiate; here induction is done with sets instead: a set of numbers that is not empty has a least member (`LeastNumber`,
`SetInduction`), a recursive function is shown to exist as the union of its finite stretches, and two functions that go on alike are the same (`SameRecursion`). What
the code's loops compute then is what the definitions say, for every length.

* Threads: `ThreadsInv` is `RaceInv`, which says that the list is only freed under a routine when the mutex could not be destroyed, and, while that has not happened, `ListSafe`:
  the pointers are those of the list and nothing in it is freed (`ListInv`), one routine at a time works on it, and none while it is freed (`MutexInv`), the pointers that a removal
  (`WorkerInv`) and `LnkLstFree` (`MainInv`) keep between their steps are where they think they are, and a search in which nothing was freed is not past the element it looks
  for (`SearchInv`), also when it stands at an element that is unlinked already (`Ahead`). `NamesFound` speaks of finished searches only and would not survive a removal under a search that
  is on its way. That `Chain`, which follows the pointers, is the list is the induction.
* Framing: `StreamInv` says that the bytes in the receiver's buffer, under way and still to be sent are, in this order, the rest of the messages behind those that
  were taken; what is cut off by a close or dropped by a reset is a tail of them (`lost`). Taking a message then is a lemma about the first length bytes
  (`Streamed`), whatever the pieces, with messages that may be empty and lengths that `BufToShort` puts together from two bytes. The bound of 255 keeps
  bytes apart and lengths below the sign; the length above 32767 is a hazard in PROJECT.json.
* Merge: `MergeInv` follows the loop: the two files were not read yet (`Fresh`), or can never be merged (`Blank`), or are read up to two places such that what is
  merged is the union of the lines up to the lower of the two numbers (`InStep`), and the file that is behind is the one to read. The total is a sum over the line numbers,
  which is where both files need the same lines with code.
* Helpers: a change of one digit changes the check sum by the difference of what the digits count, which is not a multiple of ten; two swapped neighbours are
  two such changes; doubling with nine cast out is one to one. A number and its digits, an amount and its padded digits are inverse to each other by induction on the number of digits.
* Types: those of the clients need `ClientInv`, because the place of the loop is only in range when the connection it is at is one of its own.

Model-checked only, because fairness and ENABLED are out of reach of the prover: liveness, that is `AnsweredOrMarked`, `SilenceEnds`, `ShutdownEnds` of `MyServer` and of `ProcServer`,
`QueueDrains`, `RotationEnds`, `QuietShutdownEnds`, `RequestsSettled`, `PromptReached` and `MergeEnds`. Every other property that a passing run checks is stated by a theorem.

## 5. Plan

1. (done) `MyServer`, `CardApproval`, first proofs.
2. (done) `CmdServer`, `CommandService`: command queue, log rotation, shutdown of `main.c`, with proofs.
3. (done) `ProcServer`, `PeerService`: dbserver and bankserver, threads, reuse of slots and descriptors, with proofs.
4. (done) `Clients`, `Receipt`, `Framing`, `ServerLife`, `ThreadNames`, `Ring`, `Logging`, `MergeGcov`, `Helpers` in one run, with proofs of
   `Receipt` and `Ring`.
5. (done) Proofs of the user limit, the wake-ups, the flagged charges and the end of the payment server; of the signals and the refinement of the command
   server; of the answers and the refinement of the peer servers.
6. (done) Proofs: `OneServerReached` of `ServerLife` for any number of processes, `ClientSafe` of `Clients`, `CommandTakesEffect` of `Logging`.
7. (done) Proofs: the verdicts and audit numbers of the payment server, and its refinement of `CardApproval`.
8. (done) Proofs: `NamesFound`, `MessagesInOrder`, `MergeIsUnion`, `HelpersAgree`, the types of the parts, and the parts side by side.
9. (open) `AuditForCard` without `AuditsGoOn`, for which the part of `HonestInv` about numbers has to stand without the one about verdicts.

## 6. Not modelled

The text and layout of log lines, receipts and messages; the `ll...` wrappers, which are the system calls; `hashpwd.c`, `errmsgrtns.c` and the other routines
that only copy or format; `payment.c`, a stub; what `SysExit` prints, and its second caller, which returns while the first prints the stack. A failing command with no
output makes `syscmd.c` look at the character before an empty string (`strutils.c:104`); it is outside of the properties, as are a date without its separators
(`datmutils.c:100`) and a month that is not one (`fmtdate.c:61`). The tests, mocks, build files and scripts were read for what the code is expected to do. Components without a module, and
hazards without a property, are listed in PROJECT.json with the reason.
