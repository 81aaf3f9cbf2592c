------------------------------- MODULE Logging -------------------------------
(***************************************************************************)
(* Control commands and log switches (utils/cmdrtns.c, logcmds.c,          *)
(* logpkgcmds.c, csvrtns.c, logrtns.c, logpkgrtns.c).  The threads of the  *)
(* database and of the bank server process control commands side by side,  *)
(* without a lock: each sets and reads the switches one by one.            *)
(***************************************************************************)
EXTENDS Sequences, FiniteSets, SequencesExt

CONSTANTS Commanders,   \* the threads that process a control command
          Settings,     \* the entries, [on |-> BOOLEAN, name |-> a switch or not], that come in
          MaxEntries    \* bound: entries of a command

ASSUME LoggingAssumption ==
    /\ IsFiniteSet(Commanders)
    /\ MaxEntries \in Nat
    /\ \A e \in Settings : e.on \in BOOLEAN

VARIABLES
    enabled,        \* the entries of LogWrite and PkgWrite that are enabled
    cmdPc,          \* where each thread is
    cmdKind,        \* the table that its command is about, "LOG" or "PKG"
    toSet, toRead,  \* the entries, and the switches for the response, still to go
    response,       \* the switches that the response shows as enabled
    command, since, \* history: the entries of the command; the switches that others
                    \* have set since the thread set them
    cmdServerUp

loggingVars == <<enabled, cmdPc, cmdKind, toSet, toRead, response, command, since, cmdServerUp>>
cmdRest == <<cmdKind, command, cmdServerUp>>

Table(kind) == IF kind = "LOG" THEN <<"ERROR", "WARN", "INFO", "TRACE">> ELSE <<"MEMORY", "WIRE">>
Default == {"ERROR", "WARN"}

LoggingInit ==
    /\ enabled = Default /\ cmdServerUp = TRUE
    /\ cmdPc = [t \in Commanders |-> "idle"] /\ cmdKind = [t \in Commanders |-> "LOG"]
    /\ toSet = [t \in Commanders |-> <<>>] /\ toRead = [t \in Commanders |-> <<>>]
    /\ response = [t \in Commanders |-> {}] /\ command = [t \in Commanders |-> <<>>]
    /\ since = [t \in Commanders |-> {}]

\* CmdProc: "?LOG:" or "?PKG:" with entries, "?LOG" or "?PKG" without; CsvStrLst
\* breaks the entries up.
CmdProc(t) ==
    /\ cmdServerUp /\ cmdPc[t] = "idle" /\ cmdPc' = [cmdPc EXCEPT ![t] = "set"]
    /\ \E kind \in {"LOG", "PKG"}, n \in 0..MaxEntries : \E es \in [1..n -> Settings] :
          /\ cmdKind' = [cmdKind EXCEPT ![t] = kind]
          /\ command' = [command EXCEPT ![t] = es] /\ toSet' = [toSet EXCEPT ![t] = es]
    /\ since' = [since EXCEPT ![t] = {}] /\ response' = [response EXCEPT ![t] = {}]
    /\ UNCHANGED <<enabled, toRead, cmdServerUp>>

\* Anything else gets an error response; a quote in the entries ends the server.
RejectCmd(t) ==
    /\ cmdServerUp /\ cmdPc[t] = "idle" /\ cmdPc' = [cmdPc EXCEPT ![t] = "error"]
    /\ cmdServerUp' \in BOOLEAN
    /\ UNCHANGED <<enabled, cmdKind, toSet, toRead, response, command, since>>

\* Is it the name of a switch?
LoglvlFromChar(name) == name \in ToSet(Table("LOG"))
LogPkgFromStr(name) == name \in ToSet(Table("PKG"))
Known(name, kind) == IF kind = "LOG" THEN LoglvlFromChar(name) ELSE LogPkgFromStr(name)

\* Mutant: one switch too many is set to what the entry says.
SetAll(on, name, kind) ==
    IF ~Known(name, kind) THEN enabled
    ELSE IF on THEN enabled \cup {name} ELSE enabled \ ToSet(Table(kind))

\* LogLvlEnable and LogLvlDisable, LogPkgEnable and LogPkgDisable.  An entry that is
\* not of the table is ignored.
SetSwitch(on, name, kind) ==
    IF ~Known(name, kind) THEN enabled
    ELSE IF on THEN enabled \cup {name} ELSE enabled \ {name}

\* LogCmdsProc and LogPkgCmdsProc: one turn of the loop of procLogCmds, procPkgCmds.
ProcEntry(t, kind) ==
    /\ cmdServerUp /\ cmdPc[t] = "set" /\ cmdKind[t] = kind /\ toSet[t] # <<>>
    /\ toSet' = [toSet EXCEPT ![t] = Tail(@)]
    /\ LET e == Head(toSet[t]) IN
          /\ enabled' = SetSwitch(e.on, e.name, kind)
          /\ since' = IF ~Known(e.name, kind) THEN since
                      ELSE [u \in Commanders |-> IF u = t THEN since[t] \ {e.name}
                                                 ELSE since[u] \cup {e.name}]
    /\ UNCHANGED <<cmdPc, toRead, response, cmdRest>>
LogCmdsProc(t) == ProcEntry(t, "LOG")
LogPkgCmdsProc(t) == ProcEntry(t, "PKG")

\* LogLvlsInfo and LogPkgInfo: the loop starts, reads a switch, and ends.
StartInfo(t) ==
    /\ cmdServerUp /\ cmdPc[t] = "set" /\ toSet[t] = <<>>
    /\ cmdPc' = [cmdPc EXCEPT ![t] = "read"] /\ toRead' = [toRead EXCEPT ![t] = Table(cmdKind[t])]
    /\ UNCHANGED <<enabled, toSet, response, since, cmdRest>>
ReadSwitch(t, kind) ==
    /\ cmdServerUp /\ cmdPc[t] = "read" /\ cmdKind[t] = kind /\ toRead[t] # <<>>
    /\ response' = [response EXCEPT ![t] = @ \cup ({Head(toRead[t])} \cap enabled)]
    /\ toRead' = [toRead EXCEPT ![t] = Tail(@)]
    /\ UNCHANGED <<enabled, cmdPc, toSet, since, cmdRest>>
LogLvlsInfo(t) == ReadSwitch(t, "LOG")
LogPkgInfo(t) == ReadSwitch(t, "PKG")
FmtResponse(t) ==
    /\ cmdServerUp /\ cmdPc[t] = "read" /\ toRead[t] = <<>>
    /\ cmdPc' = [cmdPc EXCEPT ![t] = "answered"]
    /\ UNCHANGED <<enabled, toSet, toRead, response, since, cmdRest>>

CommandStep(t) == \/ CmdProc(t) \/ RejectCmd(t) \/ LogCmdsProc(t) \/ LogPkgCmdsProc(t)
                  \/ StartInfo(t) \/ LogLvlsInfo(t) \/ LogPkgInfo(t) \/ FmtResponse(t)
LoggingNext == \E t \in Commanders : CommandStep(t)
LoggingSpec == LoggingInit /\ [][LoggingNext]_loggingVars
-----------------------------------------------------------------------------
\* The last entry of a thread's command about a switch.
Mentions(t, name) == {i \in DOMAIN command[t] : command[t][i].name = name}
LastSays(t, name) == LET last == CHOOSE i \in Mentions(t, name) :
                                    \A j \in Mentions(t, name) : j <= i
                     IN  command[t][last].on

\* A response says of a switch what the last entry of its command about it says,
\* if no other command has set that switch in the meantime; a switch that no
\* command of its table mentions is as it was at the start, whatever else came in.
CommandTakesEffect ==
    \A name \in ToSet(Table("LOG")) \cup ToSet(Table("PKG")) :
        /\ \A t \in Commanders :
              /\ cmdPc[t] = "answered" /\ name \in ToSet(Table(cmdKind[t])) \ since[t]
              /\ Mentions(t, name) # {}
              => (name \in response[t]) = LastSays(t, name)
        /\ (\A t \in Commanders : Mentions(t, name) = {} \/ name \notin ToSet(Table(cmdKind[t])))
              => (name \in enabled) = (name \in Default)
=============================================================================
