------------------------------- MODULE Clients -------------------------------
(***************************************************************************)
(* The clients: clientserver/myclient.c, which opens several connections,  *)
(* gets a response on each, completes the requests and then takes commands *)
(* on one connection; dbclient.c and bankclient.c, which take commands     *)
(* after the requests that module ProcServer has.  The server at the other *)
(* end is what module MyServer promises: it answers a request or           *)
(* disconnects, and it disconnects after a final message.                  *)
(***************************************************************************)
EXTENDS Integers, Sequences

CONSTANT MaxClients             \* StartInfo.maxClients of myclient

ASSUME ClientsAssumption == MaxClients \in Nat \ {0}

VARIABLES
    program,        \* "myclient", "dbclient" or "bankclient"
    clientPc,       \* where the program is
    index,          \* the index of its for loop
    sockFd, pollFd, \* sockFd[i] and MainPoll[i].fd
    servermsgInd,   \* has connection i a message to be completed?
    buffered,       \* what ClientInfo[i].response holds
    inbound,        \* what the server has sent and i has not received
    server,         \* what the server is to do on connection i
    answer          \* history: the last whole message received on connection i

serverVars == <<inbound, server>>
netVars    == <<buffered, serverVars, answer>>
fdVars     == <<sockFd, pollFd, servermsgInd>>
clientVars == <<program, clientPc, index, fdVars, netVars>>

Connections == 1..MaxClients
Stdin   == 0            \* what calloc leaves in MainPoll[0].fd
Closed  == -1
Fd(i)   == i + 2        \* the lowest free number when i connects

\* doCalloc: MainPoll is zeroed.
Allocated == [i \in Connections |-> Stdin]

ClientsInit ==
    /\ program \in {"myclient", "dbclient", "bankclient"}
    /\ clientPc = "validate" /\ index = 1
    /\ sockFd = [i \in Connections |-> Closed] /\ pollFd = Allocated
    /\ servermsgInd = [i \in Connections |-> FALSE]
    /\ buffered = [i \in Connections |-> "nothing"]
    /\ inbound = [i \in Connections |-> <<>>]
    /\ server = [i \in Connections |-> "ended"]
    /\ answer = [i \in Connections |-> "nothing"]

\* Mutant: one turn too many.
TurnPastEnd(next) ==
    IF index > MaxClients
    THEN clientPc' = next /\ index' = 1
    ELSE index' = index + 1 /\ UNCHANGED clientPc

\* One turn of a for loop over the connections; label next follows the loop.
Turn(next) ==
    IF index = MaxClients
    THEN clientPc' = next /\ index' = 1
    ELSE index' = index + 1 /\ UNCHANGED clientPc
Stays == UNCHANGED <<program, index>>

\* The arguments: the number of connections and the service of myclient, none of
\* dbclient, the indicator of bankclient.  A wrong one ends the program.
Validated(ok) == clientPc' = (IF ok THEN "connect" ELSE "exited") /\ Stays /\ UNCHANGED <<fdVars, netVars>>
ValidateInput ==
    clientPc = "validate" /\ program = "myclient" /\ \E ok \in BOOLEAN : Validated(ok)
ValidatePeerInput ==
    clientPc = "validate" /\ program # "myclient" /\ \E ok \in BOOLEAN : Validated(ok)

\* doConnect
Connects(i) ==
    /\ sockFd' = [sockFd EXCEPT ![i] = Fd(i)] /\ pollFd' = [pollFd EXCEPT ![i] = Fd(i)]
    /\ inbound' = [inbound EXCEPT ![i] = <<>>] /\ server' = [server EXCEPT ![i] = "idle"]
    /\ answer' = [answer EXCEPT ![i] = "nothing"]
    /\ UNCHANGED <<servermsgInd, buffered>>

\* Mutant: MainPoll keeps the descriptor.
DisconnectsPolled(i) ==
    /\ sockFd' = [sockFd EXCEPT ![i] = Closed] /\ UNCHANGED pollFd
    /\ servermsgInd' = [servermsgInd EXCEPT ![i] = FALSE]

\* closeFd with the -1 in MainPoll that goes with it; a connect() that is refused
\* leaves the same.
Disconnects(i) ==
    /\ sockFd' = [sockFd EXCEPT ![i] = Closed] /\ pollFd' = [pollFd EXCEPT ![i] = Closed]
    /\ servermsgInd' = [servermsgInd EXCEPT ![i] = FALSE]

ConnectAll ==
    /\ clientPc = "connect" /\ program = "myclient" /\ UNCHANGED program /\ Turn("send")
    /\ Connects(index) \/ (Disconnects(index) /\ UNCHANGED netVars)

\* dbclient and bankclient end when they cannot connect.
PeerConnect ==
    /\ clientPc = "connect" /\ program # "myclient" /\ Stays
    /\ \/ Connects(1) /\ clientPc' = "prompt"
       \/ clientPc' = "exited" /\ UNCHANGED <<fdVars, netVars>>

\* xmitMsg gets through, or is lost after the server's end; or, after the end, it
\* is reset (1) or kills the program (EPIPE in SocketSendNoYield).
Delivers(i, due) ==
    /\ server' = [server EXCEPT ![i] = IF @ = "ended" THEN @ ELSE due]
    /\ UNCHANGED <<buffered, inbound, answer>>
ConnectionReset(i) == server[i] = "ended" /\ UNCHANGED netVars
SendKills(i) ==
    /\ server[i] = "ended" /\ clientPc' = "exited"
    /\ UNCHANGED <<index, fdVars, netVars>>

SendInitial ==
    LET i == index IN
    /\ clientPc = "send" /\ UNCHANGED program
    /\ \/ pollFd[i] = Closed /\ Turn("wait") /\ UNCHANGED <<fdVars, netVars>>
       \/ /\ pollFd[i] # Closed
          /\ \/ /\ Delivers(i, "owes") /\ Turn("wait")
                /\ servermsgInd' = [servermsgInd EXCEPT ![i] = TRUE] /\ UNCHANGED <<sockFd, pollFd>>
             \/ ConnectionReset(i) /\ Disconnects(i) /\ Turn("wait")
             \/ SendKills(i)

\* SocketRecv adds what has arrived to the buffer: a part of a message, or all of
\* it, after which the caller frees the buffer.
TakesPart(i) ==
    /\ inbound[i] # <<>> /\ Head(inbound[i]) = "part"
    /\ inbound' = [inbound EXCEPT ![i] = Tail(@)]
    /\ buffered' = [buffered EXCEPT ![i] = "part"]
    /\ UNCHANGED <<server, answer>>
TakesMessage(i, m) ==
    /\ inbound[i] # <<>> /\ inbound[i][Len(inbound[i])] = m
    /\ inbound' = [inbound EXCEPT ![i] = <<>>]
    /\ buffered' = [buffered EXCEPT ![i] = "nothing"]
    /\ answer' = [answer EXCEPT ![i] = m]
    /\ UNCHANGED server

\* Mutant: what was received before the disconnect stays in the buffer.
TakesEndOnly(i) == inbound[i] = <<>> /\ server[i] = "ended" /\ UNCHANGED netVars

\* The disconnect, or a reset, comes after all that was sent.
TakesEnd(i) ==
    /\ inbound[i] = <<>> /\ server[i] = "ended"
    /\ buffered' = [buffered EXCEPT ![i] = "nothing"]
    /\ UNCHANGED <<serverVars, answer>>

\* The loop that waits for all responses; poll() reports the connections in any
\* order.  A connection with its response is not polled any more.
RecvResponse(i) ==
    /\ clientPc = "wait" /\ pollFd[i] # Closed /\ Stays /\ UNCHANGED clientPc
    /\ \/ TakesPart(i) /\ UNCHANGED fdVars
       \/ /\ TakesMessage(i, "response")
          /\ pollFd' = [pollFd EXCEPT ![i] = Closed] /\ UNCHANGED <<sockFd, servermsgInd>>
       \/ TakesMessage(i, "ERROR") /\ Disconnects(i)
       \/ TakesEnd(i) /\ Disconnects(i)

Outstanding == \E i \in Connections : pollFd[i] # Closed
EndWait ==
    /\ clientPc = "wait" /\ ~Outstanding /\ clientPc' = "complete"
    /\ Stays /\ UNCHANGED <<fdVars, netVars>>

\* The completion message makes the server clean up and disconnect.
ToComplete(i) == sockFd[i] # Closed /\ servermsgInd[i]
SendCompletion ==
    LET i == index IN
    /\ clientPc = "complete" /\ UNCHANGED program
    /\ \/ ~ToComplete(i) /\ Turn("close") /\ UNCHANGED <<fdVars, netVars>>
       \/ /\ ToComplete(i)
          /\ \/ Delivers(i, "final") /\ Turn("close") /\ UNCHANGED fdVars
             \/ ConnectionReset(i) /\ Disconnects(i) /\ Turn("close")
             \/ SendKills(i)

\* Wait for the server's disconnect, or for two seconds while nothing arrives, and
\* close.  If something arrives it is received, and with no limit all up to the
\* disconnect.  After the last connection MainPoll and ClientInfo are freed and
\* allocated, zeroed.
WaitClose ==
    LET i == index IN
    /\ clientPc = "close" /\ (ToComplete(i) => inbound[i] = <<>> \/ server[i] = "ended")
    /\ Turn("prompt") /\ UNCHANGED <<program, serverVars, answer>>
    /\ IF ToComplete(i)
       THEN /\ sockFd' = [sockFd EXCEPT ![i] = Closed]
            /\ servermsgInd' = [servermsgInd EXCEPT ![i] = FALSE]
       ELSE UNCHANGED <<sockFd, servermsgInd>>
    /\ IF clientPc' = "prompt"
       THEN /\ pollFd' = Allocated
            /\ buffered' = [j \in Connections |-> "nothing"]
       ELSE UNCHANGED <<pollFd, buffered>>
-----------------------------------------------------------------------------
(***************************************************************************)
(* Interactive mode, on the first connection.                              *)
(***************************************************************************)

\* myclient connects when it has no connection, and gives up when it cannot.
Reconnect ==
    /\ clientPc = "prompt" /\ program = "myclient" /\ sockFd[1] = Closed /\ Stays
    /\ \/ Connects(1) /\ UNCHANGED clientPc
       \/ Disconnects(1) /\ clientPc' = "end" /\ UNCHANGED netVars

\* What is typed in: "quit", an empty line or the end of the input; or a message,
\* which is sent to the server, and which may be a final one.
Quits == clientPc' = "end" /\ Stays /\ UNCHANGED <<fdVars, netVars>>
SendsCommand ==
    /\ UNCHANGED program
    /\ \/ /\ \E due \in {"owes", "final"} : Delivers(1, due)
          /\ clientPc' = "answer" /\ UNCHANGED <<index, fdVars>>
       \/ ConnectionReset(1) /\ clientPc' = "end" /\ UNCHANGED <<index, fdVars>>
       \/ SendKills(1)
Command ==
    /\ clientPc = "prompt" /\ program = "myclient" /\ sockFd[1] # Closed
    /\ Quits \/ SendsCommand
PeerCommand ==
    clientPc = "prompt" /\ program # "myclient" /\ (Quits \/ SendsCommand)

\* After an error message or a disconnect myclient goes on without a connection.
RecvAnswer ==
    /\ clientPc = "answer" /\ program = "myclient" /\ Stays /\ UNCHANGED <<pollFd, servermsgInd>>
    /\ \/ TakesPart(1) /\ UNCHANGED <<clientPc, sockFd>>
       \/ TakesMessage(1, "response") /\ clientPc' = "prompt" /\ UNCHANGED sockFd
       \/ /\ TakesMessage(1, "ERROR") \/ TakesEnd(1)
          /\ clientPc' = "prompt" /\ sockFd' = [sockFd EXCEPT ![1] = Closed]

\* For dbclient and bankclient every message is an answer, a disconnect the end.
PeerAnswer ==
    /\ clientPc = "answer" /\ program # "myclient" /\ Stays /\ UNCHANGED fdVars
    /\ \/ TakesPart(1) /\ UNCHANGED clientPc
       \/ (TakesMessage(1, "response") \/ TakesMessage(1, "ERROR")) /\ clientPc' = "prompt"
       \/ TakesEnd(1) /\ clientPc' = "end"

\* The end of main in myclient, and endClient.
EndMain ==
    /\ clientPc = "end" /\ program = "myclient" /\ clientPc' = "done"
    /\ sockFd' = [sockFd EXCEPT ![1] = Closed]
    /\ Stays /\ UNCHANGED <<pollFd, servermsgInd, netVars>>
EndClient ==
    /\ clientPc = "end" /\ program # "myclient" /\ clientPc' = "done"
    /\ sockFd' = [sockFd EXCEPT ![1] = Closed]
    /\ Stays /\ UNCHANGED <<pollFd, servermsgInd, netVars>>
-----------------------------------------------------------------------------
(***************************************************************************)
(* The server's side of connection i.                                      *)
(***************************************************************************)
AnswerClient(i) ==
    /\ server[i] = "owes" /\ server' = [server EXCEPT ![i] = "idle"]
    /\ \E m \in {"response", "ERROR"} : inbound' = [inbound EXCEPT ![i] = <<"part", m>>]
    /\ UNCHANGED <<program, clientPc, index, fdVars, buffered, answer>>

\* Because of a final message, a time-out, a shutdown or the client's own end; a reset
\* drops what is under way.
EndConnection(i) ==
    /\ server[i] # "ended" /\ server' = [server EXCEPT ![i] = "ended"]
    /\ \/ UNCHANGED inbound
       \/ inbound[i] # <<>> /\ inbound' = [inbound EXCEPT ![i] = <<>>]
    /\ UNCHANGED <<program, clientPc, index, fdVars, buffered, answer>>

Automatic ==
    \/ ConnectAll \/ PeerConnect \/ SendInitial \/ EndWait \/ SendCompletion \/ WaitClose
    \/ RecvAnswer \/ PeerAnswer \/ \E i \in Connections : RecvResponse(i)
Interactive == \/ ValidateInput \/ ValidatePeerInput \/ Reconnect \/ Command \/ PeerCommand
               \/ EndMain \/ EndClient
ServerStep(i) == AnswerClient(i) \/ EndConnection(i)
ClientsNext == Automatic \/ Interactive \/ \E i \in Connections : ServerStep(i)

\* The client goes on when it can; a request is answered or the connection ended
\* in the end (MyServerProps!AnsweredOrMarked).  Nothing is asked of its user.
ClientsFairness ==
    /\ WF_clientVars(Automatic)
    /\ \A i \in Connections : WF_clientVars(server[i] \in {"owes", "final"} /\ ServerStep(i))
ClientsSpec == ClientsInit /\ [][ClientsNext]_clientVars /\ ClientsFairness
-----------------------------------------------------------------------------
ClientsTypeOK ==
    /\ program \in {"myclient", "dbclient", "bankclient"} /\ index \in Connections
    /\ clientPc \in {"validate", "connect", "send", "wait", "complete", "close", "prompt", "answer", "end",
                     "done", "exited"}
    /\ sockFd \in [Connections -> {Closed} \cup {Fd(i) : i \in Connections}]
    /\ pollFd \in [Connections -> {Closed, Stdin} \cup {Fd(i) : i \in Connections}]
    /\ servermsgInd \in [Connections -> BOOLEAN]
    /\ buffered \in [Connections -> {"nothing", "part"}]
    /\ server \in [Connections -> {"idle", "owes", "final", "ended"}]
    /\ answer \in [Connections -> {"nothing", "response", "ERROR"}]
    /\ \A i \in Connections : inbound[i] \in Seq({"part", "response", "ERROR"})

\* What a client receives on is an open connection, never another descriptor of
\* the process, although MainPoll starts with standard input in it; no connection
\* is left open when the prompt begins; a new request finds the buffer empty.
PolledIsOpen ==
    /\ \A i \in Connections : clientPc = "wait" /\ pollFd[i] # Closed => pollFd[i] = sockFd[i]
    /\ clientPc = "answer" => pollFd[1] = sockFd[1] /\ sockFd[1] # Closed
    /\ \A i \in Connections \ {1} : clientPc \in {"prompt", "answer"} => sockFd[i] = Closed
    /\ \A i \in Connections : clientPc = "prompt" => buffered[i] = "nothing"

\* myclient completes exactly the requests that it has a whole response to that is
\* not an error, whatever arrived in pieces and whichever connections ended.
CompletesAnswered ==
    /\ \A i \in Connections : clientPc \in {"complete", "close"} /\ ToComplete(i)
                              => answer[i] = "response"
    /\ \A i \in Connections : clientPc \in {"complete", "close"} /\ server[i] = "final"
                              => answer[i] = "response"

ClientSafe == PolledIsOpen /\ CompletesAnswered

\* myclient gets from its requests to its prompt, and from a command to the next
\* prompt or the end, if the server answers or disconnects.
PromptReached ==
    /\ clientPc = "wait" ~> clientPc \in {"prompt", "exited"}
    /\ clientPc = "answer" ~> clientPc # "answer"
=============================================================================
