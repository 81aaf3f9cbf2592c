----------------------------- MODULE ThreadNames -----------------------------
(***************************************************************************)
(* The list of the threads' names (utils/thrinfo.c and lnklstrtns.c).  A   *)
(* thread adds itself and removes itself under the servers' ThrInfoMutex;  *)
(* every line that is logged looks the thread up without it (logmsg in     *)
(* utils/logrtns.c), and endServer frees the list without it.  A list is   *)
(* a chain of next pointers that starts in the head variable; a step is a  *)
(* visit to one of its elements.                                           *)
(***************************************************************************)
EXTENDS Sequences, FiniteSets, SequencesExt

CONSTANTS Workers,      \* the threads; each has one element
          Handler,      \* the one that takes the signals: it stays until the server ends
          MaxSearches,  \* bound: how many threads may be looking up their names at a time
          Main, Head0, Nil

ASSUME ThreadNamesAssumption == /\ IsFiniteSet(Workers) /\ Handler \in Workers /\ Main \notin Workers
                                /\ Head0 \notin Workers /\ Nil \notin Workers \cup {Head0, Main}
                                /\ "none" \notin Workers \cup {Main, Nil}

VARIABLES
    next, tail,     \* the pointers: next[Head0] is thrinfoHead, tail is thrinfoTail
    freed,          \* the elements that were freed
    threadPc,
    holder,         \* who has ThrInfoMutex
    destroyed,      \* did endServer destroy it?
    thrinfoElem, prevPtr,   \* the pointers of the routine that runs under it
    freePtr, freeNext,      \* p and next of LnkLstFree
    walk,           \* the element that a thread's search has reached, or "none"
    lastLine,       \* the line logged last, if no element was freed meanwhile: its thread
                    \* and the name found
    undefined,      \* has a thread used a freed element, or a null pointer?
    registered,     \* history: the names in the list, in order
    disturbed,      \* history: the searches under way that an element was freed in
    raced           \* history: was the list freed while a routine ran under the mutex?

elemVars   == <<next, tail, freed, registered>>
mutexVars  == <<holder, destroyed, raced>>
ptrVars    == <<thrinfoElem, prevPtr, freePtr, freeNext>>
searchVars == <<walk, lastLine, undefined, disturbed>>
threadVars == <<elemVars, threadPc, mutexVars, ptrVars, searchVars>>

Threads == Workers \cup {Main}
NothingLogged == [thread |-> Nil, name |-> Nil]

ThreadsInit ==
    /\ next = [e \in Workers \cup {Head0} |-> Nil] /\ tail = Nil /\ freed = {}
    /\ threadPc = [t \in Threads |-> IF t = Main THEN "running" ELSE "started"]
    /\ holder = Nil /\ destroyed = FALSE
    /\ thrinfoElem = Nil /\ prevPtr = Nil /\ freePtr = Nil /\ freeNext = Nil
    /\ walk = [t \in Threads |-> "none"] /\ lastLine = NothingLogged
    /\ undefined = FALSE /\ registered = <<>> /\ disturbed = {} /\ raced = FALSE

Goes(t, label) == threadPc' = [threadPc EXCEPT ![t] = label]
Searching(t) == walk[t] # "none"
Ready(t, label) == threadPc[t] = label /\ ~Searching(t)

\* The next step of thread t uses an element that was freed, or a null pointer.
Dangling(t) ==
    LET bad == freed \cup {Nil} IN
    \/ Searching(t) /\ walk[t] \in freed
    \/ Ready(t, "link") /\ tail \in bad
    \/ Ready(t, "find") /\ thrinfoElem \in freed
    \/ Ready(t, "prev") /\ prevPtr \in bad
    \/ Ready(t, "unlink") /\ (prevPtr \in bad \/ t \in freed)
    \/ Ready(t, "free") /\ (IF t = Main THEN freePtr ELSE t) \in freed
    \/ Ready(t, "tail") /\ thrinfoElem \in bad
    \/ Ready(t, "next") /\ freePtr \in bad

\* ThrInfoMutex.  Main frees the list from "next" to "clear".
Freeing == threadPc[Main] \in {"next", "head", "free", "clear"}
Lock(t) == holder = Nil /\ ~destroyed /\ holder' = t /\ raced' = (raced \/ Freeing)
           /\ UNCHANGED destroyed
Unlock  == holder' = Nil /\ UNCHANGED <<destroyed, raced>>
\* PTHREAD_MUTEX_LOCK of a mutex that was destroyed: SysExit ends the server.
LockDestroyed(t) ==
    /\ Ready(t, "started") \/ (Ready(t, "running") /\ t # Handler)
    /\ destroyed /\ Goes(Main, "exited")
    /\ UNCHANGED <<elemVars, mutexVars, ptrVars, searchVars>>

\* A thread that starts adds itself: ThrInfoAdd, with LnkLstAppend.
LockForAdd(t) ==
    /\ Ready(t, "started") /\ Lock(t) /\ Goes(t, "alloc")
    /\ UNCHANGED <<elemVars, ptrVars, searchVars>>
\* The element is the last, behind the element or the head variable end.
Appended(t, end) ==
    /\ next' = [next EXCEPT ![end] = t] /\ tail' = t /\ Goes(t, "running") /\ Unlock
    /\ registered' = Append(registered, t) /\ lastLine' = NothingLogged
    /\ UNCHANGED <<freed, ptrVars, walk, undefined, disturbed>>
AppendHead(t) ==
    /\ Ready(t, "alloc")
    /\ \/ next[Head0] = Nil /\ Appended(t, Head0)
       \/ /\ next[Head0] # Nil /\ Goes(t, "link")
          /\ UNCHANGED <<elemVars, mutexVars, ptrVars, searchVars>>
AppendLink(t) == Ready(t, "link") /\ Appended(t, tail)

\* A thread that ends removes itself: ThrInfoRemove, with LnkLstRemove.  The handler does not.
LockForRemove(t) ==
    /\ Ready(t, "running") /\ t # Handler /\ Lock(t) /\ Goes(t, "find") /\ thrinfoElem' = Head0
    /\ UNCHANGED <<elemVars, prevPtr, freePtr, freeNext, searchVars>>
FindElem(t) ==
    /\ Ready(t, "find")
    /\ \/ thrinfoElem = Nil /\ Goes(t, "gone") /\ Unlock /\ UNCHANGED <<thrinfoElem, prevPtr>>
       \/ thrinfoElem = t /\ Goes(t, "prev") /\ prevPtr' = Head0 /\ UNCHANGED <<thrinfoElem, mutexVars>>
       \/ /\ thrinfoElem \notin {Nil, t} /\ thrinfoElem' = next[thrinfoElem]
          /\ UNCHANGED <<prevPtr, threadPc, mutexVars>>
    /\ UNCHANGED <<elemVars, freePtr, freeNext, searchVars>>
\* LnkLstPrev; a thread that is not in the list has no such element.
LnkLstPrev(t) ==
    /\ Ready(t, "prev")
    /\ IF next[prevPtr] \in {t, Nil} THEN Goes(t, "unlink") ELSE UNCHANGED threadPc
    /\ prevPtr' = IF next[prevPtr] = t THEN prevPtr ELSE next[prevPtr]
    /\ UNCHANGED <<elemVars, mutexVars, thrinfoElem, freePtr, freeNext, searchVars>>
\* Mutant: the element behind the one that is removed goes with it.
Truncate(t) ==
    /\ Ready(t, "unlink") /\ next' = [next EXCEPT ![prevPtr] = Nil] /\ Goes(t, "free")
    /\ registered' = RemoveFirst(registered, t)
    /\ UNCHANGED <<tail, freed, mutexVars, ptrVars, searchVars>>
RemoveUnlink(t) ==
    /\ Ready(t, "unlink") /\ next' = [next EXCEPT ![prevPtr] = next[t]] /\ Goes(t, "free")
    /\ registered' = RemoveFirst(registered, t)
    /\ UNCHANGED <<tail, freed, mutexVars, ptrVars, searchVars>>
MemFree(e) ==
    /\ freed' = freed \cup {e}
    /\ disturbed' = disturbed \cup {t \in Threads : Searching(t)}
RemoveFree(t) ==
    /\ Ready(t, "free") /\ MemFree(t) /\ Goes(t, "tail") /\ thrinfoElem' = Head0
    /\ UNCHANGED <<next, tail, registered, mutexVars, prevPtr, freePtr, freeNext, walk, lastLine, undefined>>
\* LnkLstTail, unless the list is empty; ThrInfoRemove goes on from the element before.
LnkLstTail(t) ==
    /\ Ready(t, "tail")
    /\ LET last == next[thrinfoElem] = Nil IN
       /\ IF last THEN Goes(t, "find") ELSE UNCHANGED threadPc
       /\ thrinfoElem' = IF last THEN prevPtr ELSE next[thrinfoElem]
       /\ tail' = IF ~last THEN tail
                  ELSE IF thrinfoElem = Head0 /\ prevPtr = Head0 THEN Nil ELSE thrinfoElem
    /\ UNCHANGED <<next, freed, registered, mutexVars, prevPtr, freePtr, freeNext, searchVars>>

\* A line is logged: logmsg calls ThrInfoFind, which walks the list.  MemAlloc and
\* MemFree log a line too, before the memory is set or freed.
LogLine(t) ==
    /\ ~Searching(t) /\ threadPc[t] \in {"running", "alloc", "free", "ended"}
    /\ Cardinality({u \in Threads : Searching(u)}) < MaxSearches
    /\ walk' = [walk EXCEPT ![t] = next[Head0]] /\ lastLine' = NothingLogged
    /\ UNCHANGED <<elemVars, threadPc, mutexVars, ptrVars, undefined, disturbed>>
Found(t, n) ==
    /\ lastLine' = IF t \in disturbed THEN NothingLogged ELSE [thread |-> t, name |-> n]
    /\ walk' = [walk EXCEPT ![t] = "none"] /\ disturbed' = disturbed \ {t}
ThrInfoFind(t) ==
    /\ Searching(t)
    /\ \/ walk[t] = Nil /\ Found(t, Main)
       \/ walk[t] = t /\ Found(t, t)
       \/ /\ walk[t] \notin {t, Nil}
          /\ walk' = [walk EXCEPT ![t] = next[walk[t]]] /\ UNCHANGED <<lastLine, disturbed>>
    /\ UNCHANGED <<elemVars, threadPc, mutexVars, ptrVars, undefined>>

\* endServer: the handler is joined, its element stays in the list, and the mutex is
\* destroyed, which fails while a thread has it.  In dbserver and bankserver the
\* threads are detached: they may be running, as TERM is only ignored while there
\* are clients.
JoinHandler ==
    /\ Ready(Main, "running") /\ Ready(Handler, "running")
    /\ threadPc' = [threadPc EXCEPT ![Main] = "start", ![Handler] = "joined"]
    /\ destroyed' = (holder = Nil)
    /\ UNCHANGED <<elemVars, holder, raced, ptrVars, searchVars>>
\* ThrInfoFree, with LnkLstFree: the elements are taken off one by one.
ThrInfoFree ==
    /\ Ready(Main, "start") /\ freePtr' = next[Head0]
    /\ Goes(Main, IF next[Head0] = Nil THEN "ended" ELSE "next")
    /\ raced' = (raced \/ (next[Head0] # Nil /\ holder # Nil))
    /\ UNCHANGED <<elemVars, holder, destroyed, thrinfoElem, prevPtr, freeNext, searchVars>>
FreeNext ==
    /\ Ready(Main, "next") /\ Goes(Main, "head") /\ freeNext' = next[freePtr]
    /\ UNCHANGED <<elemVars, mutexVars, thrinfoElem, prevPtr, freePtr, searchVars>>
FreeHead ==
    /\ Ready(Main, "head") /\ Goes(Main, "free") /\ next' = [next EXCEPT ![Head0] = freeNext]
    /\ registered' = RemoveFirst(registered, freePtr)
    /\ UNCHANGED <<tail, freed, mutexVars, ptrVars, searchVars>>
FreeElem ==
    /\ Ready(Main, "free") /\ MemFree(freePtr) /\ freePtr' = freeNext
    /\ Goes(Main, IF freeNext = Nil THEN "clear" ELSE "next")
    /\ UNCHANGED <<next, tail, registered, mutexVars, thrinfoElem, prevPtr, freeNext, walk, lastLine, undefined>>
ClearHead ==
    /\ Ready(Main, "clear") /\ Goes(Main, "ended") /\ next' = [next EXCEPT ![Head0] = Nil]
    /\ UNCHANGED <<tail, freed, registered, mutexVars, ptrVars, searchVars>>

ThreadStep(t) ==
    LockForAdd(t) \/ AppendHead(t) \/ AppendLink(t) \/ LockForRemove(t) \/ LockDestroyed(t)
    \/ FindElem(t) \/ LnkLstPrev(t) \/ RemoveUnlink(t) \/ RemoveFree(t) \/ LnkLstTail(t)
MainStep == JoinHandler \/ ThrInfoFree \/ FreeNext \/ FreeHead \/ FreeElem \/ ClearHead
\* What follows such a use is undefined.
UseDangling(t) ==
    /\ Dangling(t) /\ undefined' = TRUE
    /\ UNCHANGED <<elemVars, threadPc, mutexVars, ptrVars, walk, lastLine, disturbed>>
ThreadsNext ==
    /\ ~undefined /\ threadPc[Main] # "exited"
    /\ \E t \in Threads :
          \/ UseDangling(t) \/ LogLine(t)
          \/ ~Dangling(t) /\ (ThrInfoFind(t) \/ (t \in Workers /\ ThreadStep(t)) \/ (t = Main /\ MainStep))
ThreadsSpec == ThreadsInit /\ [][ThreadsNext]_threadVars
-----------------------------------------------------------------------------
\* The chain that starts in the head variable, as LnkLstCount walks it.
Chain(nxt) ==
    LET chain[n \in 0..Cardinality(Workers)] ==
            IF n = 0 THEN <<Head0>>
            ELSE LET c == chain[n - 1] IN
                 IF nxt[Last(c)] = Nil THEN c ELSE Append(c, nxt[Last(c)])
    IN  chain[Cardinality(Workers)]

\* The list is only freed while a routine runs under ThrInfoMutex when endServer
\* could not destroy the mutex because a thread had it.  Otherwise the chain has the
\* names in the order they were added, and outside the mutex the tail is its end; a
\* thread that removed itself is not in it; a search in which no element was freed
\* finds the name of a thread that is in the list, and "Main" for another; and only
\* such a disturbed search uses a freed element, never a routine that changes the list.
NamesFound ==
    /\ raced => ~destroyed
    /\ ~raced =>
        /\ Chain(next) = <<Head0>> \o registered
        /\ holder = Nil /\ registered # <<>> => tail = Last(registered)
        /\ \A t \in Workers : threadPc[t] = "gone" => t \notin ToSet(registered)
        /\ lastLine.name = lastLine.thread \/ (lastLine.name = Main /\ lastLine.thread \notin ToSet(registered))
        /\ undefined => \E t \in disturbed : Searching(t) /\ walk[t] \in freed
=============================================================================
