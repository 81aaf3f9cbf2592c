------------------------------ MODULE MCLibrary ------------------------------
(***************************************************************************)
(* The parts beside the servers, checked side by side: a behaviour is one  *)
(* of one part, chosen at the start, and leaves the other parts alone.     *)
(***************************************************************************)
EXTENDS Receipt, Clients, MergeGcov, Framing, Ring, Logging, ThreadNames, ServerLife, Helpers

VARIABLE part

Parts == {"receipt", "clients", "merge", "framing", "ring", "logging", "threads", "life",
          "helpers"}

\* Only part p takes a step.
Still(p) ==
    /\ UNCHANGED part
    /\ IF p = "receipt" THEN TRUE ELSE UNCHANGED receiptVars
    /\ IF p = "clients" THEN TRUE ELSE UNCHANGED clientVars
    /\ IF p = "merge" THEN TRUE ELSE UNCHANGED mergeVars
    /\ IF p = "framing" THEN TRUE ELSE UNCHANGED framingVars
    /\ IF p = "ring" THEN TRUE ELSE UNCHANGED ringVars
    /\ IF p = "logging" THEN TRUE ELSE UNCHANGED loggingVars
    /\ IF p = "threads" THEN TRUE ELSE UNCHANGED threadVars
    /\ IF p = "life" THEN TRUE ELSE UNCHANGED lifeVars
    /\ IF p = "helpers" THEN TRUE ELSE UNCHANGED helperVars

LibraryInit ==
    /\ part \in Parts
    /\ ReceiptInit
    /\ ClientsInit
    /\ MergeInit
    /\ FramingInit
    /\ RingInit
    /\ LoggingInit
    /\ ThreadsInit
    /\ LifeInit
    /\ HelpersInit
    /\ part # "clients" => program = "myclient"
    /\ part # "life" => serverName = "myserver"

LibraryNext ==
    \/ part = "receipt" /\ ReceiptNext /\ Still("receipt")
    \/ part = "clients" /\ ClientsNext /\ Still("clients")
    \/ part = "merge" /\ MergeNext /\ Still("merge")
    \/ part = "framing" /\ FramingNext /\ Still("framing")
    \/ part = "ring" /\ RingNext /\ Still("ring")
    \/ part = "logging" /\ LoggingNext /\ Still("logging")
    \/ part = "threads" /\ ThreadsNext /\ Still("threads")
    \/ part = "life" /\ LifeNext /\ Still("life")
    \/ part = "helpers" /\ HelpersNext /\ Still("helpers")

libraryVars == <<part, receiptVars, clientVars, mergeVars, framingVars, ringVars, loggingVars, threadVars, lifeVars, helperVars>>

\* ClientsFairness and that of MergeSpec: the state of the other parts does not change in it.
LibrarySpec ==
    /\ LibraryInit /\ [][LibraryNext]_libraryVars
    /\ WF_libraryVars(part = "clients" /\ Automatic /\ Still("clients"))
    /\ \A i \in Connections :
          WF_libraryVars(part = "clients" /\ server[i] \in {"owes", "final"} /\ ServerStep(i)
                         /\ Still("clients"))
    /\ WF_libraryVars(part = "merge" /\ MergeGoesOn /\ Still("merge"))

LibraryTypeOK == ReceiptTypeOK /\ ClientsTypeOK

\* Values for the configuration.
TwoLevels == {[on |-> TRUE, name |-> "INFO"], [on |-> FALSE, name |-> "INFO"],
              [on |-> TRUE, name |-> "WIRE"]}
=============================================================================
