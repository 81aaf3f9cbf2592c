--------------------------- MODULE LibraryProofs ---------------------------
(***************************************************************************)
(* The parts beside the servers, for every value of their constants:       *)
(* receipts settle, the strings of a log line stay apart, one instance of  *)
(* a server runs, clients complete what was answered, control commands     *)
(* take effect, the helpers return what they promise.                      *)
(***************************************************************************)
EXTENDS Receipt, Ring, ServerLife, Clients, Logging, Helpers, SequenceTheorems,
        WellFoundedInduction, TLAPS

-----------------------------------------------------------------------------
(***************************************************************************)
(* Receipts settle, for any number of programs.                            *)
(***************************************************************************)
\* ReceiptInv holds at the start (receipt.c:77-90).
LEMMA ReceiptInitInv == ReceiptInit => ReceiptInv
BY ReceiptAssumption
DEF ReceiptAssumption, ReceiptInit, ReceiptInv, ReceiptTypeOK, FilesOpen, EmailOwned, ReturnsArchived,
    Running, Working

\* Every step keeps it: a program that has returned, or is on its way to opening the
\* file, has no file open (receipt.c:119-168).
LEMMA ReceiptStepInv == ReceiptInv /\ [ReceiptNext]_receiptVars => ReceiptInv'
<1> SUFFICES ASSUME ReceiptInv, [ReceiptNext]_receiptVars PROVE ReceiptInv'
  OBVIOUS
<1> USE ReceiptAssumption DEF ReceiptAssumption, ReceiptInv, ReceiptTypeOK, FilesOpen, EmailOwned,
        ReturnsArchived, Running, Working, ReceiptGoto, ReceiptReturn
<1>1. ASSUME NEW p \in Programs, ReceiptValidateDb(p) PROVE ReceiptInv'
  <2>1. \E label \in {"folders", "returned"}, ret \in {"none", "invalid", "major"} :
          /\ receiptPc' = [receiptPc EXCEPT ![p] = label]
          /\ receiptRet' = receiptRet \/ (ret # "none" /\ receiptRet' = [receiptRet EXCEPT ![p] = ret])
    <3>1. PICK person \in DbPersonReadKey, toEmail \in DbPersonShowEmail, pmttxn \in DbPmttxnReadKey,
               recprm \in DbRecprmReadKey :
             LET rets == <<person, toEmail, pmttxn, recprm>> IN
             \/ (\A i \in 1..4 : rets[i] = "valid") /\ ReceiptGoto(p, "folders") /\ UNCHANGED receiptRet
             \/ \E i \in 1..4 : /\ rets[i] # "valid" /\ \A j \in 1..(i - 1) : rets[j] = "valid"
                                /\ ReceiptReturn(p, rets[i])
      BY <1>1 DEF ReceiptValidateDb
    <3>2. {person, toEmail, pmttxn, recprm} \subseteq {"valid", "invalid", "major"}
      BY DEF DbPersonReadKey, DbPersonShowEmail, DbPmttxnReadKey, DbRecprmReadKey
    <3> QED BY <3>1, <3>2
  <2>2. receiptPc[p] = "validate" /\ UNCHANGED <<email, archive, fPtr, whole, archiver>>
    BY <1>1 DEF ReceiptValidateDb
  <2> QED BY <2>1, <2>2
<1>2. ASSUME NEW p \in Programs, ReceiptValidateFolders(p) PROVE ReceiptInv'
  BY <1>2 DEF ReceiptValidateFolders, FolderExists
<1>3. ASSUME NEW p \in Programs, CheckArchive(p) PROVE ReceiptInv'
  BY <1>3 DEF CheckArchive, FileExists
<1>4. ASSUME NEW p \in Programs, CheckEmail(p) PROVE ReceiptInv'
  BY <1>4 DEF CheckEmail, FileExists
<1>5. ASSUME NEW p \in Programs, FileOpen(p) PROVE ReceiptInv'
  <2>1. ReceiptTypeOK' /\ ReturnsArchived'
    BY <1>5 DEF FileOpen, FileExists
  <2>2. fPtr[p] = NoFile /\ fPtr'[p] = email' /\ receiptPc'[p] = "write" /\ email' # NoFile
    BY <1>5 DEF FileOpen, FileExists
  <2>3. \A q \in Programs \ {p} : fPtr'[q] = fPtr[q] /\ receiptPc'[q] = receiptPc[q]
    BY <1>5 DEF FileOpen
  <2>4. archive' = archive /\ archiver' = archiver /\ whole' = whole \ {email'}
    BY <1>5 DEF FileOpen
  <2>5. archive' # NoFile /\ archive' \notin whole' => \E q \in Programs : fPtr'[q] = archive'
    BY <2>2, <2>3, <2>4
  <2>6. archive # NoFile => archiver # p
    BY <1>5 DEF FileOpen
  <2>7. FilesOpen'
    BY <2>2, <2>3, <2>4, <2>5, <2>6
  <2> QED BY <2>1, <2>2, <2>7
<1>6. ASSUME NEW p \in Programs, ReceiptFileWrite(p) PROVE ReceiptInv'
  BY <1>6 DEF ReceiptFileWrite
<1>7. ASSUME NEW p \in Programs, FileClose(p) PROVE ReceiptInv'
  <2>1. fPtr[p] \in Programs /\ whole' = whole \cup {fPtr[p]} /\ receiptPc'[p] = "archive"
    BY <1>7 DEF FileClose
  <2>2. \A q \in Programs \ {p} : fPtr'[q] = fPtr[q] /\ receiptPc'[q] = receiptPc[q]
    BY <1>7 DEF FileClose
  <2>3. fPtr'[p] = NoFile /\ UNCHANGED <<receiptRet, email, archive, archiver>>
    BY <1>7 DEF FileClose
  <2>4. ReceiptTypeOK'
    BY <1>7, <2>1 DEF FileClose
  <2>5. FilesOpen'
    BY <1>7, <2>1, <2>2, <2>3 DEF FileClose
  <2> QED BY <2>1, <2>3, <2>4, <2>5
<1>8. ASSUME NEW p \in Programs, ArchiveReceipt(p) PROVE ReceiptInv'
  BY <1>8 DEF ArchiveReceipt, SysCmd, FileExists
<1>9. ASSUME NEW p \in Programs, ReceiptEmailErr(p) PROVE ReceiptInv'
  BY <1>9 DEF ReceiptEmailErr, FileDelete
<1>10. ASSUME NEW p \in Programs, ProgramEnds(p) PROVE ReceiptInv'
  BY <1>10 DEF ProgramEnds
<1>11. CASE UNCHANGED receiptVars
  BY <1>11 DEF receiptVars
<1> QED
  BY <1>1, <1>2, <1>3, <1>4, <1>5, <1>6, <1>7, <1>8, <1>9, <1>10, <1>11 DEF ReceiptNext

\* A file that is not whole is open, and what is open belongs to a program that is
\* at work or was cut off: so nothing of it is left when nobody is.
LEMMA ReceiptInvSafe == ReceiptInv => ReceiptSafe
<1> SUFFICES ASSUME ReceiptInv PROVE ReceiptsSettle /\ ArchivedWhole
  BY DEF ReceiptSafe
<1> USE DEF ReceiptInv, FilesOpen, EmailOwned, ReturnsArchived, Working
<1>1. ReceiptsSettle
  BY DEF ReceiptsSettle
<1>2. ArchivedWhole
  BY DEF ArchivedWhole
<1> QED BY <1>1, <1>2

\* Whatever the interleaving, once nobody is at work no e-mail file is left and the
\* receipt of whoever was told 0 is archived, and a partial one was archived by
\* another program than its writer (receipt.c:119-168, receiptval.c:157-177).
THEOREM ReceiptsSafe == ReceiptSpec => []ReceiptSafe
<1>1. ReceiptSpec => []ReceiptInv
  BY ReceiptInitInv, ReceiptStepInv, PTL DEF ReceiptSpec
<1> QED BY <1>1, ReceiptInvSafe, PTL
-----------------------------------------------------------------------------
(***************************************************************************)
(* The strings of a log line stay apart, for every size of the ring.       *)
(***************************************************************************)
\* String t was added behind string s, or at the start of the ring.
RingStrings == [at : Nat, size : Nat]
Follows(s, t) ==
    /\ t.size <= SZ_CYCLIC_STR
    /\ \/ t.at = s.at + s.size /\ t.at + t.size <= SZ_CYCLIC_STR
       \/ t.at = 0 /\ s.at + s.size + t.size > SZ_CYCLIC_STR

\* The inductive invariant: each string follows the one before it, and the pointer
\* is behind the last one.
RingInv ==
    /\ first \in RingStrings /\ mid \in RingStrings /\ last \in RingStrings
    /\ Follows(first, mid) /\ Follows(mid, last)
    /\ \/ cyclicPtr = NULL /\ last = NoString
       \/ cyclicPtr \in Nat /\ cyclicPtr = last.at + last.size

\* An empty ring (cyclicstr.c:34-40).
LEMMA RingInitInv == RingInit => RingInv
BY RingAssumption DEF RingAssumption, RingInit, RingInv, Follows, RingStrings, NoString, String, NULL

\* CyclicStrAdd puts a string behind the last one or at the start (cyclicstr.c:34-54).
LEMMA RingStepInv == RingInv /\ [RingNext]_ringVars => RingInv'
<1> SUFFICES ASSUME RingInv, [RingNext]_ringVars PROVE RingInv'
  OBVIOUS
<1>1. ASSUME NEW size \in 1..(SZ_CYCLIC_STR + 1), CyclicStrAdd(size) PROVE RingInv'
  <2>1. CASE size > SZ_CYCLIC_STR
    BY <1>1, <2>1 DEF CyclicStrAdd, RingInv, Follows
  <2>2. CASE ~(size > SZ_CYCLIC_STR)
    <3> DEFINE at == StartOf(cyclicPtr, size)
    <3>1. /\ cyclicPtr' = at + size /\ first' = mid /\ mid' = last
          /\ last' = [at |-> at, size |-> size]
      BY <1>1, <2>2 DEF CyclicStrAdd, String
    <3>2. size \in Nat /\ SZ_CYCLIC_STR \in Nat /\ size <= SZ_CYCLIC_STR
      BY <2>2, RingAssumption DEF RingAssumption
    <3>3. at \in Nat /\ Follows(last, [at |-> at, size |-> size])
      BY <3>2 DEF StartOf, RingInv, Follows, RingStrings, NULL, NoString, String
    <3>4. last' \in RingStrings /\ cyclicPtr' \in Nat /\ cyclicPtr' = last'.at + last'.size
      BY <3>1, <3>2, <3>3 DEF RingStrings
    <3> QED BY <3>1, <3>3, <3>4 DEF RingInv, Follows
  <2> QED BY <2>1, <2>2
<1>2. CASE UNCHANGED ringVars
  BY <1>2 DEF ringVars, RingInv, Follows
<1> QED BY <1>1, <1>2 DEF RingNext

\* The positions of three strings that follow each other (cyclicstr.c:34-54).
LEMMA RingPositions ==
    ASSUME NEW sz \in Nat, NEW fa \in Nat, NEW fs \in Nat, NEW ma \in Nat, NEW ms \in Nat,
           NEW la \in Nat, NEW ls \in Nat, ms <= sz, ls <= sz,
           (ma = fa + fs /\ ma + ms <= sz) \/ (ma = 0 /\ fa + fs + ms > sz),
           (la = ma + ms /\ la + ls <= sz) \/ (la = 0 /\ ma + ms + ls > sz)
    PROVE  /\ la + ls <= sz
           /\ ms + ls + ls <= sz + 1 => ma + ms <= la \/ la + ls <= ma
           /\ fs + 2 * ms + ls <= sz + 1 /\ fs + ms + 2 * ls <= sz + 1
              => /\ fa + fs <= ma \/ ma + ms <= fa
                 /\ ma + ms <= la \/ la + ls <= ma
                 /\ fa + fs <= la \/ la + ls <= fa
OBVIOUS

\* Two of the three start over only when their sizes leave no room for it.
LEMMA RingInvIntact == RingInv => LogLineIntact
<1> SUFFICES ASSUME RingInv PROVE LogLineIntact
  OBVIOUS
<1>1. SZ_CYCLIC_STR \in Nat
  BY RingAssumption DEF RingAssumption
<1>2. /\ first.at \in Nat /\ first.size \in Nat /\ mid.at \in Nat /\ mid.size \in Nat
      /\ last.at \in Nat /\ last.size \in Nat
  BY DEF RingInv, RingStrings
<1>3. Follows(first, mid) /\ Follows(mid, last)
  BY DEF RingInv
<1> HIDE DEF RingInv
<1> QED BY <1>1, <1>2, <1>3, RingPositions DEF Follows, LogLineIntact, Apart

\* A string that is printed as a log line is not lain over by the time and the name
\* of the thread, when the three fit, for every size of the ring (cyclicstr.c:34-54,
\* logrtns.c:325-328).
THEOREM RingIntact == RingSpec => []LogLineIntact
<1>1. RingSpec => []RingInv
  BY RingInitInv, RingStepInv, PTL DEF RingSpec
<1> QED BY <1>1, RingInvIntact, PTL
-----------------------------------------------------------------------------
(***************************************************************************)
(* A server has one instance past its lock, for any number of processes.   *)
(***************************************************************************)
\* The order that all programs keep to, in main and in endServer.
Rank(step) ==
    CASE step = "argc" -> 1 [] step = "maxUsers" -> 2 [] step = "svcName" -> 3 [] step = "msglenInd" -> 4
      [] step = "lock" -> 5 [] step = "dir" -> 6 [] step = "limit" -> 7 [] step = "daemon" -> 8
      [] step = "pid" -> 9 [] step = "logfile" -> 10 [] step = "listen" -> 11 [] step = "eventfd" -> 12
      [] step = "clientinfo" -> 13 [] step = "signals" -> 14 [] step = "threads" -> 15
      [] step = "DbSend" -> 21 [] step = "BankSend" -> 22 [] step = "Timer" -> 23 [] step = "CmdInput" -> 24
      [] step = "CmdOutput" -> 25 [] step = "CmdProcess" -> 26 [] step = "SignalHandler" -> 27
      [] step = "port" -> 28 [] step = "lists" -> 29 [] step = "lockfile" -> 30 [] step = "log" -> 31
      [] OTHER -> 0
StartSteps == {"argc", "maxUsers", "svcName", "msglenInd", "lock", "dir", "limit", "daemon", "pid", "logfile",
               "listen", "eventfd", "clientinfo", "signals", "threads"}
EndSteps == {"DbSend", "BankSend", "Timer", "CmdInput", "CmdOutput", "CmdProcess", "SignalHandler", "port",
             "lists", "lockfile", "log"}

\* A plan: steps in that order up to end; a step of must that is not behind it is in it.
Plan(s, steps, end, must) ==
    /\ s \in Seq(steps) /\ s # <<>> /\ s[Len(s)] = end
    /\ \A i, j \in 1..Len(s) : i < j => Rank(s[i]) < Rank(s[j])
    /\ \A x \in must : Rank(s[1]) <= Rank(x) => \E i \in 1..Len(s) : s[i] = x

StartPlan(s, name) ==
    IF name = "cmdserver" THEN Plan(s, StartSteps \ {"listen"}, "threads", {"lock", "pid"})
                          ELSE Plan(s, StartSteps, "threads", {"lock", "pid", "listen"})
EndPlan(s, name) ==
    Plan(s, EndSteps, "log", IF name = "cmdserver" THEN {"lockfile"} ELSE {"port", "lockfile"})

\* A rank is a number (main and endServer of the four servers; myserver.c:295-363).
LEMMA RankNat == \A step : Rank(step) \in Nat
BY DEF Rank

\* One step after the other: Tail(s) is a plan again, and no step of must is passed over.
LEMMA PlanTail ==
    ASSUME NEW s, NEW steps, NEW end, NEW must, Plan(s, steps, end, must), Head(s) # end
    PROVE  /\ Plan(Tail(s), steps, end, must) /\ Rank(Head(s)) < Rank(Head(Tail(s)))
           /\ \A x \in must : Rank(Head(s)) < Rank(x) => Rank(Head(Tail(s))) <= Rank(x)
<1> DEFINE t == Tail(s)
<1>1. s \in Seq(steps) /\ Len(s) \in Nat /\ Len(s) > 1 /\ Head(s) = s[1]
  <2>1. s \in Seq(steps) /\ s # <<>> /\ s[Len(s)] = end
    BY DEF Plan
  <2> QED BY <2>1
<1>2. t \in Seq(steps) /\ Len(t) = Len(s) - 1 /\ \A i \in 1..Len(t) : t[i] = s[i + 1]
  BY <1>1, HeadTailProperties
<1>3. t # <<>> /\ Head(t) = t[1]
  <2>1. t # <<>>
    <3> SUFFICES ASSUME t = <<>> PROVE FALSE
      OBVIOUS
    <3>1. Len(<<>>) = 0
      BY EmptySeq
    <3>2. Len(t) > 0
      BY <1>1, <1>2
    <3> HIDE DEF t
    <3> QED BY <3>1, <3>2
  <2> QED BY <1>2, <2>1
<1> HIDE DEF t
<1>4. t[Len(t)] = end
  BY <1>1, <1>2 DEF Plan
<1>5. ASSUME NEW i \in 1..Len(t), NEW j \in 1..Len(t), i < j PROVE Rank(t[i]) < Rank(t[j])
  <2>1. i + 1 \in 1..Len(s) /\ j + 1 \in 1..Len(s) /\ i + 1 < j + 1
    BY <1>1, <1>2, <1>5
  <2> QED BY <1>2, <2>1 DEF Plan
<1>6. Rank(s[1]) < Rank(t[1])
  <2>1. 1 \in 1..Len(s) /\ 2 \in 1..Len(s) /\ t[1] = s[2]
    BY <1>1, <1>2
  <2> QED BY <2>1 DEF Plan
<1>7. ASSUME NEW x \in must, Rank(s[1]) < Rank(x) PROVE \E i \in 1..Len(t) : t[i] = x
  <2>1. PICK i \in 1..Len(s) : s[i] = x
    BY <1>7, RankNat DEF Plan
  <2>2. i # 1
    BY <1>7, <2>1, RankNat
  <2>3. i - 1 \in 1..Len(t) /\ t[i - 1] = x
    BY <1>1, <1>2, <2>1, <2>2
  <2> QED BY <2>3
<1>8. ASSUME NEW x \in must, Rank(s[1]) < Rank(x) PROVE Rank(t[1]) <= Rank(x)
  <2>1. PICK i \in 1..Len(t) : t[i] = x
    BY <1>7, <1>8
  <2>2. i = 1 \/ (1 \in 1..Len(t) /\ 1 < i)
    BY <1>1, <1>2
  <2> QED BY <1>5, <2>1, <2>2, RankNat
<1>9. Plan(t, steps, end, must)
  BY <1>2, <1>3, <1>4, <1>5, <1>6, <1>7, RankNat DEF Plan
<1> QED BY <1>1, <1>3, <1>6, <1>8, <1>9 DEF t

\* Arguments are checked before everything else.
Arguing(a) ==
    /\ a \in Seq(Arguments) /\ a # <<>> /\ a[1] = "argc"
    /\ \A i, j \in 1..Len(a) : i < j => Rank(a[i]) < Rank(a[j])

\* The ranks of the steps (myserver.c:295-363, 1408-1451).
LEMMA RankOfSteps ==
    /\ \A x \in Arguments : Rank(x) \in 1..4
    /\ \A x \in StartSteps : Rank(x) \in 1..15 /\ Rank("argc") <= Rank(x)
    /\ \A x \in EndSteps : Rank(x) \in 21..31
    /\ Rank("lock") = 5 /\ Rank("dir") = 6 /\ Rank("limit") = 7 /\ Rank("daemon") = 8 /\ Rank("pid") = 9
    /\ Rank("logfile") = 10 /\ Rank("listen") = 11 /\ Rank("eventfd") = 12 /\ Rank("clientinfo") = 13
    /\ Rank("signals") = 14 /\ Rank("threads") = 15 
    /\ Rank("port") = 28 /\ Rank("lists") = 29 /\ Rank("lockfile") = 30 /\ Rank("log") = 31
BY DEF Rank, Arguments, StartSteps, EndSteps

\* Tuples of the module as sequences.
LEMMA TupleInSeq ==
    ASSUME NEW S, NEW s, NEW n \in Nat \ {0}, s = [i \in 1..n |-> s[i]], Len(s) = n, \A i \in 1..n : s[i] \in S
    PROVE  s \in Seq(S) /\ s # <<>>
<1>1. s \in Seq(S)
  <2>1. s \in [1..n -> S]
    OBVIOUS
  <2> QED BY <2>1, IsASeq
<1>2. Len(<<>>) = 0
  BY EmptySeq
<1> QED BY <1>1, <1>2

\* The arguments, and then a plan that starts with the lock, are a plan (myserver.c:295-363).
LEMMA PlanOfArguments ==
    ASSUME NEW a, NEW s, NEW steps, NEW must, Arguing(a), Arguments \subseteq steps,
           \A x \in must : Rank(x) >= 5,
           Plan(s, steps, "threads", must), s[1] = "lock"
    PROVE  Plan(a \o s, steps, "threads", must) /\ Head(a \o s) = "argc"
<1> DEFINE b == a \o s
<1>1. a \in Seq(steps) /\ s \in Seq(steps) /\ Len(a) \in Nat /\ Len(s) \in Nat /\ Len(s) > 0 /\ Len(a) > 0
  BY DEF Arguing, Plan
<1>2. /\ b \in Seq(steps) /\ Len(b) = Len(a) + Len(s)
      /\ \A i \in 1..Len(b) : b[i] = IF i <= Len(a) THEN a[i] ELSE s[i - Len(a)]
  BY <1>1, ConcatProperties
<1>3. b # <<>> /\ b[1] = "argc" /\ Head(b) = "argc"
  <2>1. b # <<>>
    BY <1>1, <1>2
  <2>2. b[1] = "argc"
    BY <1>1, <1>2 DEF Arguing
  <2> QED BY <1>2, <2>1, <2>2
<1> HIDE DEF b
<1>4. b[Len(b)] = "threads"
  BY <1>1, <1>2 DEF Plan
<1>5. ASSUME NEW i \in 1..Len(s) PROVE Rank(s[i]) >= 5
  <2>1. CASE i = 1
    BY <2>1, RankOfSteps
  <2>2. CASE i # 1
    <3>1. Rank(s[1]) < Rank(s[i])
      BY <1>1, <2>2 DEF Plan
    <3>2. Rank(s[1]) = 5
      BY RankOfSteps
    <3> QED BY <3>1, <3>2, RankNat
  <2> QED BY <2>1, <2>2
<1>6. ASSUME NEW i \in 1..Len(b), NEW j \in 1..Len(b), i < j PROVE Rank(b[i]) < Rank(b[j])
  <2>1. CASE j <= Len(a)
    <3>1. i \in 1..Len(a) /\ j \in 1..Len(a) /\ b[i] = a[i] /\ b[j] = a[j]
      BY <1>1, <1>2, <1>6, <2>1
    <3> QED BY <1>6, <3>1 DEF Arguing
  <2>2. CASE i <= Len(a) /\ j > Len(a)
    <3>1. /\ i \in 1..Len(a) /\ j - Len(a) \in 1..Len(s) /\ b[i] = a[i] /\ b[j] = s[j - Len(a)]
      BY <1>1, <1>2, <1>6, <2>2
    <3>2. a[i] \in Arguments
      BY <3>1 DEF Arguing
    <3>3. Rank(a[i]) <= 4
      <4>1. \A x \in Arguments : Rank(x) \in 1..4
        BY RankOfSteps
      <4> QED BY <3>2, <4>1
    <3>4. Rank(s[j - Len(a)]) >= 5
      BY <1>5, <3>1
    <3> QED BY <3>1, <3>3, <3>4, RankNat
  <2>3. CASE i > Len(a)
    <3>1. /\ i - Len(a) \in 1..Len(s) /\ j - Len(a) \in 1..Len(s) /\ i - Len(a) < j - Len(a)
          /\ b[i] = s[i - Len(a)] /\ b[j] = s[j - Len(a)]
      BY <1>1, <1>2, <1>6, <2>3
    <3> QED BY <3>1 DEF Plan
  <2> QED BY <1>1, <2>1, <2>2, <2>3
<1>7. ASSUME NEW x \in must PROVE \E k \in 1..Len(b) : b[k] = x
  <2>0. PICK i \in 1..Len(s) : s[i] = x
    <3>1. Rank(s[1]) = 5
      BY RankOfSteps
    <3>2. Rank(s[1]) <= Rank(x)
      BY <1>7, <3>1, RankNat
    <3> QED BY <1>7, <3>2 DEF Plan
  <2>1. i + Len(a) \in 1..Len(b) /\ ~(i + Len(a) <= Len(a)) /\ (i + Len(a)) - Len(a) = i
    BY <1>1, <1>2
  <2>2. b[i + Len(a)] = s[i]
    BY <1>2, <2>1
  <2> QED BY <2>0, <2>1, <2>2
<1>9. Plan(b, steps, "threads", must)
  BY <1>2, <1>3, <1>4, <1>6, <1>7 DEF Plan
<1> QED BY <1>3, <1>9 DEF b

\* The plans of the four programs.
LEMMA StartOfMyServer ==
    Plan(MyServerMain, StartSteps, "threads", {"lock", "pid", "listen"}) /\ MyServerMain[1] = "lock"
<1> DEFINE s == MyServerMain
<1>1. /\ s[1] = "lock" /\ s[2] = "dir" /\ s[3] = "limit" /\ s[4] = "daemon" /\ s[5] = "pid" /\ s[6] = "logfile"
      /\ s[7] = "listen" /\ s[8] = "eventfd" /\ s[9] = "clientinfo" /\ s[10] = "signals" /\ s[11] = "threads"
  BY DEF MyServerMain
<1>2. Len(s) = 11 /\ s = [i \in 1..11 |-> s[i]]
  BY DEF MyServerMain
<1> HIDE DEF s
<1>3. \A i \in 1..11 : \/ i = 1 \/ i = 2 \/ i = 3 \/ i = 4 \/ i = 5 \/ i = 6 \/ i = 7 \/ i = 8 \/ i = 9
                      \/ i = 10 \/ i = 11
  OBVIOUS
<1>4. \A i \in 1..11 : s[i] \in StartSteps
  BY <1>1, <1>3 DEF StartSteps
<1>5. \A i \in 1..11 : Rank(s[i]) = i + 4
  BY <1>1, <1>3, RankOfSteps
<1>6. s \in Seq(StartSteps) /\ s # <<>>
  BY <1>2, <1>4, TupleInSeq
<1>7. \A i, j \in 1..11 : i < j => Rank(s[i]) < Rank(s[j])
  BY <1>5
<1>8. \A x \in {"lock", "pid", "listen"} : \E i \in 1..11 : s[i] = x
  BY <1>1
<1> QED BY <1>1, <1>2, <1>6, <1>7, <1>8 DEF Plan, s

\* main of the command server is a plan without a port (app/main.c:146-190).
LEMMA StartOfCmdServer ==
    Plan(CmdServerMain, StartSteps \ {"listen"}, "threads", {"lock", "pid"}) /\ CmdServerMain[1] = "lock"
<1> DEFINE s == CmdServerMain
<1>1. /\ s[1] = "lock" /\ s[2] = "dir" /\ s[3] = "limit" /\ s[4] = "daemon" /\ s[5] = "pid" /\ s[6] = "logfile"
      /\ s[7] = "signals" /\ s[8] = "threads"
  BY DEF CmdServerMain
<1>2. Len(s) = 8 /\ s = [i \in 1..8 |-> s[i]]
  BY DEF CmdServerMain
<1> HIDE DEF s
<1>3. \A i \in 1..8 : i = 1 \/ i = 2 \/ i = 3 \/ i = 4 \/ i = 5 \/ i = 6 \/ i = 7 \/ i = 8
  OBVIOUS
<1>4. \A i \in 1..8 : s[i] \in StartSteps \ {"listen"}
  BY <1>1, <1>3 DEF StartSteps
<1>5. \A i \in 1..8 : Rank(s[i]) = IF i <= 6 THEN i + 4 ELSE i + 7
  BY <1>1, <1>3, RankOfSteps
<1>6. s \in Seq(StartSteps \ {"listen"}) /\ s # <<>>
  BY <1>2, <1>4, TupleInSeq
<1>7. \A i, j \in 1..8 : i < j => Rank(s[i]) < Rank(s[j])
  BY <1>5
<1>8. \A x \in {"lock", "pid"} : \E i \in 1..8 : s[i] = x
  BY <1>1
<1> QED BY <1>1, <1>2, <1>6, <1>7, <1>8 DEF Plan, s

\* Each server checks its arguments in the order of Rank (myserver.c:561-607).
LEMMA ServerArguments ==
    Arguing(MyServerArgs) /\ Arguing(DbServerArgs) /\ Arguing(BankServerArgs) /\ Arguing(CmdServerArgs)
<1>1. Rank("argc") = 1 /\ Rank("maxUsers") = 2 /\ Rank("svcName") = 3 /\ Rank("msglenInd") = 4
  BY DEF Rank
<1>2. ASSUME NEW a, NEW n \in 1..4, a = [i \in 1..n |-> a[i]], Len(a) = n, \A i \in 1..n : a[i] \in Arguments,
             a[1] = "argc", \A i, j \in 1..n : i < j => Rank(a[i]) < Rank(a[j])
      PROVE  Arguing(a)
  BY <1>2, TupleInSeq DEF Arguing
<1>3. /\ \A i \in 1..4 : i = 1 \/ i = 2 \/ i = 3 \/ i = 4
      /\ \A i \in 1..3 : i = 1 \/ i = 2 \/ i = 3
      /\ \A i \in 1..2 : i = 1 \/ i = 2
  OBVIOUS
<1>4. Arguing(MyServerArgs)
  <2> DEFINE a == MyServerArgs
  <2>1. /\ a[1] = "argc" /\ a[2] = "maxUsers" /\ a[3] = "svcName" /\ a[4] = "msglenInd"
        /\ Len(a) = 4 /\ a = [i \in 1..4 |-> a[i]]
    BY DEF MyServerArgs
  <2> HIDE DEF a
  <2>2. \A i \in 1..4 : a[i] \in Arguments
    BY <1>3, <2>1 DEF Arguments
  <2>3. \A i \in 1..4 : Rank(a[i]) = i
    BY <1>1, <1>3, <2>1
  <2>4. Arguing(a)
    BY <1>2, <2>1, <2>2, <2>3
  <2> QED BY <2>4 DEF a
<1>5. Arguing(DbServerArgs)
  <2> DEFINE a == DbServerArgs
  <2>1. a[1] = "argc" /\ a[2] = "maxUsers" /\ Len(a) = 2 /\ a = [i \in 1..2 |-> a[i]]
    BY DEF DbServerArgs
  <2> HIDE DEF a
  <2>2. \A i \in 1..2 : a[i] \in Arguments
    BY <1>3, <2>1 DEF Arguments
  <2>3. \A i \in 1..2 : Rank(a[i]) = i
    BY <1>1, <1>3, <2>1
  <2>4. Arguing(a)
    BY <1>2, <2>1, <2>2, <2>3
  <2> QED BY <2>4 DEF a
<1>6. Arguing(BankServerArgs)
  <2> DEFINE a == BankServerArgs
  <2>1. /\ a[1] = "argc" /\ a[2] = "maxUsers" /\ a[3] = "msglenInd"
        /\ Len(a) = 3 /\ a = [i \in 1..3 |-> a[i]]
    BY DEF BankServerArgs
  <2> HIDE DEF a
  <2>2. \A i \in 1..3 : a[i] \in Arguments
    BY <1>3, <2>1 DEF Arguments
  <2>3. \A i \in 1..3 : Rank(a[i]) = IF i = 3 THEN 4 ELSE i
    BY <1>1, <1>3, <2>1
  <2>4. Arguing(a)
    BY <1>2, <2>1, <2>2, <2>3
  <2> QED BY <2>4 DEF a
<1>7. Arguing(CmdServerArgs)
  <2> DEFINE a == CmdServerArgs
  <2>1. /\ a[1] = "argc" /\ a[2] = "maxUsers" /\ a[3] = "svcName"
        /\ Len(a) = 3 /\ a = [i \in 1..3 |-> a[i]]
    BY DEF CmdServerArgs
  <2> HIDE DEF a
  <2>2. \A i \in 1..3 : a[i] \in Arguments
    BY <1>3, <2>1 DEF Arguments
  <2>3. \A i \in 1..3 : Rank(a[i]) = i
    BY <1>1, <1>3, <2>1
  <2>4. Arguing(a)
    BY <1>2, <2>1, <2>2, <2>3
  <2> QED BY <2>4 DEF a
<1> QED BY <1>4, <1>5, <1>6, <1>7

\* endServer of the payment server is a plan (myserver.c:1408-1451).
LEMMA EndOfMyServer == Plan(MyServerEnd, EndSteps, "log", {"port", "lockfile"}) /\ Rank(Head(MyServerEnd)) < 28
<1> DEFINE s == MyServerEnd
<1>1. s[1] = "DbSend" /\ s[2] = "BankSend" /\ s[3] = "Timer" /\ s[4] = "SignalHandler"
        /\ s[5] = "port" /\ s[6] = "lists" /\ s[7] = "lockfile" /\ s[8] = "log"
  BY DEF MyServerEnd
<1>2. Len(s) = 8 /\ s = [i \in 1..8 |-> s[i]]
  BY DEF MyServerEnd
<1>3. Rank(Head(s)) < 28
  BY DEF MyServerEnd, Rank
<1> HIDE DEF s
<1>4. \A i \in 1..8 : i = 1 \/ i = 2 \/ i = 3 \/ i = 4 \/ i = 5 \/ i = 6 \/ i = 7 \/ i = 8
  OBVIOUS
<1>5. \A i \in 1..8 : s[i] \in EndSteps
  BY <1>1, <1>4 DEF EndSteps
<1>6. \A i \in 1..8 : Rank(s[i]) = IF i <= 3 THEN i + 20 ELSE i + 23
  BY <1>1, <1>4 DEF Rank
<1>7. s \in Seq(EndSteps) /\ s # <<>>
  BY <1>2, <1>5, TupleInSeq
<1>8. \A i, j \in 1..8 : i < j => Rank(s[i]) < Rank(s[j])
  BY <1>6
<1>9. \A x \in {"port", "lockfile"} : \E i \in 1..8 : s[i] = x
  BY <1>1
<1> QED BY <1>1, <1>2, <1>3, <1>7, <1>8, <1>9 DEF Plan, s

\* endServer of the peer servers is a plan (dbserver.c:657-680).
LEMMA EndOfDbServer == Plan(DbServerEnd, EndSteps, "log", {"port", "lockfile"}) /\ Rank(Head(DbServerEnd)) < 28
<1> DEFINE s == DbServerEnd
<1>1. s[1] = "SignalHandler" /\ s[2] = "port" /\ s[3] = "lists" /\ s[4] = "lockfile" /\ s[5] = "log"
  BY DEF DbServerEnd
<1>2. Len(s) = 5 /\ s = [i \in 1..5 |-> s[i]]
  BY DEF DbServerEnd
<1>3. Rank(Head(s)) < 28
  BY DEF DbServerEnd, Rank
<1> HIDE DEF s
<1>4. \A i \in 1..5 : i = 1 \/ i = 2 \/ i = 3 \/ i = 4 \/ i = 5
  OBVIOUS
<1>5. \A i \in 1..5 : s[i] \in EndSteps
  BY <1>1, <1>4 DEF EndSteps
<1>6. \A i \in 1..5 : Rank(s[i]) = i + 26
  BY <1>1, <1>4 DEF Rank
<1>7. s \in Seq(EndSteps) /\ s # <<>>
  BY <1>2, <1>5, TupleInSeq
<1>8. \A i, j \in 1..5 : i < j => Rank(s[i]) < Rank(s[j])
  BY <1>6
<1>9. \A x \in {"port", "lockfile"} : \E i \in 1..5 : s[i] = x
  BY <1>1
<1> QED BY <1>1, <1>2, <1>3, <1>7, <1>8, <1>9 DEF Plan, s

\* endServer of the command server is a plan (app/main.c:772-823).
LEMMA EndOfCmdServer == Plan(CmdServerEnd, EndSteps, "log", {"lockfile"}) /\ Rank(Head(CmdServerEnd)) < 28
<1> DEFINE s == CmdServerEnd
<1>1. s[1] = "CmdInput" /\ s[2] = "CmdOutput" /\ s[3] = "CmdProcess" /\ s[4] = "SignalHandler"
        /\ s[5] = "lists" /\ s[6] = "lockfile" /\ s[7] = "log"
  BY DEF CmdServerEnd
<1>2. Len(s) = 7 /\ s = [i \in 1..7 |-> s[i]]
  BY DEF CmdServerEnd
<1>3. Rank(Head(s)) < 28
  BY DEF CmdServerEnd, Rank
<1> HIDE DEF s
<1>4. \A i \in 1..7 : i = 1 \/ i = 2 \/ i = 3 \/ i = 4 \/ i = 5 \/ i = 6 \/ i = 7
  OBVIOUS
<1>5. \A i \in 1..7 : s[i] \in EndSteps
  BY <1>1, <1>4 DEF EndSteps
<1>6. \A i \in 1..7 : Rank(s[i]) = IF i <= 4 THEN i + 23 ELSE i + 24
  BY <1>1, <1>4 DEF Rank
<1>7. s \in Seq(EndSteps) /\ s # <<>>
  BY <1>2, <1>5, TupleInSeq
<1>8. \A i, j \in 1..7 : i < j => Rank(s[i]) < Rank(s[j])
  BY <1>6
<1>9. \A x \in {"lockfile"} : \E i \in 1..7 : s[i] = x
  BY <1>1
<1> QED BY <1>1, <1>2, <1>3, <1>7, <1>8, <1>9 DEF Plan, s

\* So each of the four programs keeps to plans.
LEMMA ServersPlanned ==
    ASSUME NEW name \in DOMAIN Servers
    PROVE  /\ StartPlan(Servers[name].args \o Servers[name].main, name)
           /\ Head(Servers[name].args \o Servers[name].main) = "argc"
           /\ EndPlan(Servers[name].end, name) /\ Rank(Head(Servers[name].end)) < 28
<1>1. name \in {"myserver", "dbserver", "bankserver", "cmdserver"}
  BY DEF Servers
<1>2. /\ DbServerMain = MyServerMain /\ BankServerMain = MyServerMain /\ BankServerEnd = DbServerEnd
  BY DEF DbServerMain, BankServerMain, MyServerMain, BankServerEnd, DbServerEnd
<1>3. Arguments \subseteq StartSteps /\ Arguments \subseteq StartSteps \ {"listen"}
  BY DEF Arguments, StartSteps
<1>4. \A x \in {"lock", "pid", "listen"} : Rank(x) >= 5
  BY RankOfSteps
<1>5. ASSUME NEW a, Arguing(a)
      PROVE  /\ Plan(a \o MyServerMain, StartSteps, "threads", {"lock", "pid", "listen"})
             /\ Head(a \o MyServerMain) = "argc"
  BY <1>3, <1>4, <1>5, PlanOfArguments, StartOfMyServer
<1>6. CASE name = "cmdserver"
  <2>1. Servers[name].args = CmdServerArgs /\ Servers[name].main = CmdServerMain
          /\ Servers[name].end = CmdServerEnd
    BY <1>6 DEF Servers, Server
  <2>2. /\ Plan(CmdServerArgs \o CmdServerMain, StartSteps \ {"listen"}, "threads", {"lock", "pid"})
        /\ Head(CmdServerArgs \o CmdServerMain) = "argc"
    BY <1>3, <1>4, PlanOfArguments, StartOfCmdServer, ServerArguments
  <2> QED BY <1>6, <2>1, <2>2, EndOfCmdServer DEF StartPlan, EndPlan
<1>7. CASE name = "myserver"
  <2>1. Servers[name].args = MyServerArgs /\ Servers[name].main = MyServerMain
          /\ Servers[name].end = MyServerEnd
    BY <1>7 DEF Servers, Server
  <2> QED BY <1>5, <1>7, <2>1, ServerArguments, EndOfMyServer DEF StartPlan, EndPlan
<1>8. CASE name = "dbserver"
  <2>1. Servers[name].args = DbServerArgs /\ Servers[name].main = MyServerMain
          /\ Servers[name].end = DbServerEnd
    BY <1>2, <1>8 DEF Servers, Server
  <2> QED BY <1>5, <1>8, <2>1, ServerArguments, EndOfDbServer DEF StartPlan, EndPlan
<1>9. CASE name = "bankserver"
  <2>1. Servers[name].args = BankServerArgs /\ Servers[name].main = MyServerMain
          /\ Servers[name].end = DbServerEnd
    BY <1>2, <1>9 DEF Servers, Server
  <2> QED BY <1>5, <1>9, <2>1, ServerArguments, EndOfDbServer DEF StartPlan, EndPlan
<1> QED BY <1>1, <1>6, <1>7, <1>8, <1>9

\* Where a plan stands.
LifeTypes ==
    /\ serverName \in DOMAIN Servers /\ DOMAIN todo = Instances
    /\ life \in [Instances -> {"starting", "serving", "closing", "ended", "failed"}]
    /\ \A p \in Instances : life[p] = "starting" => StartPlan(todo[p], serverName)
    /\ \A p \in Instances : life[p] = "closing" => EndPlan(todo[p], serverName)
HoldsLock(p) ==
    /\ Locked(p) => lockfile = p /\ (lockPid = p \/ BeforePid(p))
HoldsPort(p) ==
    /\ listening = p => Locked(p) /\ serverName # "cmdserver"
    /\ life[p] = "starting" /\ Rank("listen") < Rank(Head(todo[p])) /\ serverName # "cmdserver" => listening = p
    /\ life[p] = "starting" /\ Rank(Head(todo[p])) <= Rank("listen") => listening # p
    /\ life[p] = "serving" /\ serverName # "cmdserver" => listening = p
    /\ life[p] = "closing" /\ Rank("port") < Rank(Head(todo[p])) => listening # p
LifeInv ==
    /\ LifeTypes
    /\ listening \in Instances \cup {NoInstance}
    /\ \A p \in Instances : HoldsLock(p) /\ HoldsPort(p)
    /\ ConnectSettles
    /\ connectPc = "socketBlock" => connectedTo # NoInstance

\* LifeInv holds before a server has been started.
LEMMA LifeInitInv == LifeInit => LifeInv
BY ServerLifeAssumption DEF LifeInit, LifeInv, LifeTypes, HoldsLock, HoldsPort, ConnectSettles,
   Locked, Alive, ServerLifeAssumption

\* Where a starting instance is, by rank.
LEMMA StartRanks ==
    ASSUME LifeTypes, NEW p \in Instances, life[p] = "starting"
    PROVE  /\ todo[p] # <<>> /\ Head(todo[p]) \in StartSteps /\ Rank(Head(todo[p])) \in 1..15
           /\ Unlocked(p) <=> Rank(Head(todo[p])) <= 5
           /\ BeforePid(p) <=> Rank(Head(todo[p])) \in 6..9
           /\ Locked(p) <=> Rank(Head(todo[p])) > 5
<1>1. todo[p] # <<>> /\ Head(todo[p]) \in StartSteps
  <2>1. todo[p] \in Seq(StartSteps) /\ todo[p] # <<>>
    <3>1. \/ Plan(todo[p], StartSteps, "threads", {"lock", "pid", "listen"})
          \/ Plan(todo[p], StartSteps \ {"listen"}, "threads", {"lock", "pid"})
      BY DEF LifeTypes, StartPlan
    <3>2. Seq(StartSteps \ {"listen"}) \subseteq Seq(StartSteps)
      OBVIOUS
    <3> QED BY <3>1, <3>2 DEF Plan
  <2> QED BY <2>1
<1> DEFINE h == Head(todo[p])
<1>2. h \in StartSteps => /\ Rank(h) \in 1..15 /\ (Rank(h) <= 5 <=> h \in Arguments \cup {"lock"})
                         /\ (Rank(h) \in 6..9 <=> h \in {"dir", "limit", "daemon", "pid"})
  <2> HIDE DEF h
  <2>1. h \in StartSteps => Rank(h) \in 1..15
    BY RankOfSteps
  <2>2. h \in StartSteps /\ h \in Arguments \cup {"lock"} => Rank(h) <= 5
    BY RankOfSteps
  <2>3. h \in StartSteps /\ h \notin Arguments \cup {"lock"} => Rank(h) > 5
    BY RankOfSteps DEF StartSteps, Arguments
  <2>4. h \in {"dir", "limit", "daemon", "pid"} => Rank(h) \in 6..9
    BY RankOfSteps
  <2>5. h \in StartSteps \ (Arguments \cup {"lock", "dir", "limit", "daemon", "pid"}) => Rank(h) > 9
    BY RankOfSteps DEF StartSteps, Arguments
  <2> QED BY <2>1, <2>2, <2>3, <2>4, <2>5
<1> HIDE DEF h
<1>3. Unlocked(p) <=> h \in Arguments \cup {"lock"}
  BY <1>1 DEF Unlocked, AtStep, At, h
<1>4. BeforePid(p) <=> h \in {"dir", "limit", "daemon", "pid"}
  BY <1>1 DEF BeforePid, AtStep, At, h
<1>5. Locked(p) <=> ~Unlocked(p)
  BY DEF Locked, Alive, At
<1> QED BY <1>1, <1>2, <1>3, <1>4, <1>5 DEF h

\* Which steps the ranks that matter stand for (myserver.c:295-363).
LEMMA RankTells ==
    /\ \A h \in StartSteps : /\ Rank(h) = 5 => h = "lock"
                             /\ Rank(h) = 9 => h = "pid"
                             /\ Rank(h) = 11 => h = "listen"
                             /\ Rank(h) = 15 => h = "threads"
    /\ \A h \in EndSteps : /\ Rank(h) = 28 => h = "port"
                           /\ Rank(h) = 30 => h = "lockfile"
                           /\ Rank(h) = 31 => h = "log"
<1>1. \A h \in StartSteps : Rank(h) = 5 => h = "lock"
  BY DEF Rank, StartSteps
<1>2. \A h \in StartSteps : Rank(h) = 9 => h = "pid"
  BY DEF Rank, StartSteps
<1>3. \A h \in StartSteps : Rank(h) = 11 => h = "listen"
  BY DEF Rank, StartSteps
<1>4. \A h \in StartSteps : Rank(h) = 15 => h = "threads"
  BY DEF Rank, StartSteps
<1>5. \A h \in EndSteps : Rank(h) = 28 => h = "port"
  BY DEF Rank, EndSteps
<1>6. \A h \in EndSteps : Rank(h) = 30 => h = "lockfile"
  BY DEF Rank, EndSteps
<1>7. \A h \in EndSteps : Rank(h) = 31 => h = "log"
  BY DEF Rank, EndSteps
<1> QED BY <1>1, <1>2, <1>3, <1>4, <1>5, <1>6, <1>7

\* Where a closing instance is, by rank.
LEMMA EndRanks ==
    ASSUME LifeTypes, NEW p \in Instances, life[p] = "closing"
    PROVE  /\ todo[p] # <<>> /\ Head(todo[p]) \in EndSteps
            /\ Rank(Head(todo[p])) \in 21..31 /\ (Rank(Head(todo[p])) = 31 <=> Head(todo[p]) = "log")
           /\ ~Unlocked(p) /\ ~BeforePid(p)
           /\ Locked(p) <=> Rank(Head(todo[p])) < 31
<1>1. todo[p] # <<>> /\ Head(todo[p]) \in EndSteps
  BY DEF LifeTypes, EndPlan, Plan
<1> DEFINE h == Head(todo[p])
<1>2. h \in EndSteps => Rank(h) \in 21..31 /\ (Rank(h) = 31 <=> h = "log")
  <2> HIDE DEF h
  <2>1. h \in EndSteps => Rank(h) \in 21..31
    BY RankOfSteps
  <2>2. h \in EndSteps \ {"log"} => Rank(h) # 31
    BY DEF EndSteps, Rank
  <2> QED BY <2>1, <2>2, RankOfSteps
<1> HIDE DEF h
<1>3. ~Unlocked(p) /\ ~BeforePid(p)
  BY DEF Unlocked, BeforePid, AtStep, At
<1>4. Locked(p) <=> h # "log"
  BY <1>1, <1>3 DEF Locked, Alive, At, h
<1> QED BY <1>1, <1>2, <1>3, <1>4 DEF h


\* The same for the states before and after a step.
Placed(p) ==
    /\ life[p] = "starting" =>
          /\ todo[p] # <<>> /\ Head(todo[p]) \in StartSteps /\ Rank(Head(todo[p])) \in 1..15
          /\ BeforePid(p) <=> Rank(Head(todo[p])) \in 6..9
          /\ Locked(p) <=> Rank(Head(todo[p])) > 5
    /\ life[p] = "closing" =>
          /\ todo[p] # <<>> /\ Head(todo[p]) \in EndSteps /\ Rank(Head(todo[p])) \in 21..31
          /\ ~BeforePid(p)
          /\ Locked(p) <=> Rank(Head(todo[p])) < 31

AllPlaced == \A p \in Instances : Placed(p)

\* A starting or closing instance is at a step of its plan.
LEMMA Placement == LifeTypes => AllPlaced
BY StartRanks, EndRanks DEF Placed, AllPlaced

\* The same behind a step.
LEMMA PlacementNext == (LifeTypes => AllPlaced)'
BY Placement, PTL

\* The next step of an instance.
LEMMA Advances ==
    ASSUME LifeTypes, NEW p \in Instances, Advance(p), UNCHANGED <<life, serverName>>,
           \/ life[p] = "starting" /\ Head(todo[p]) # "threads"
           \/ life[p] = "closing" /\ Head(todo[p]) # "log"
    PROVE  /\ LifeTypes' /\ Rank(Head(todo[p])) < Rank(Head(todo'[p]))
           /\ life[p] = "starting" => \A x \in {"lock", "pid"} :
                    Rank(Head(todo[p])) < Rank(x) => Rank(Head(todo'[p])) <= Rank(x)
           /\ life[p] = "starting" /\ serverName # "cmdserver" =>
                 (Rank(Head(todo[p])) < Rank("listen") => Rank(Head(todo'[p])) <= Rank("listen"))
           /\ life[p] = "closing" =>
                    (Rank(Head(todo[p])) < Rank("lockfile") => Rank(Head(todo'[p])) <= Rank("lockfile"))
           /\ life[p] = "closing" /\ serverName # "cmdserver" =>
                 (Rank(Head(todo[p])) < Rank("port") => Rank(Head(todo'[p])) <= Rank("port"))
<1>1. todo'[p] = Tail(todo[p]) /\ DOMAIN todo' = Instances /\ \A q \in Instances \ {p} : todo'[q] = todo[q]
  BY DEF Advance, LifeTypes
<1>2. CASE life[p] = "starting"
  <2>1. CASE serverName = "cmdserver"
    <3>1. Plan(todo[p], StartSteps \ {"listen"}, "threads", {"lock", "pid"}) /\ Head(todo[p]) # "threads"
      BY <1>2, <2>1 DEF LifeTypes, StartPlan
    <3>2. /\ Plan(todo'[p], StartSteps \ {"listen"}, "threads", {"lock", "pid"})
          /\ Rank(Head(todo[p])) < Rank(Head(todo'[p]))
          /\ \A x \in {"lock", "pid"} : Rank(Head(todo[p])) < Rank(x) => Rank(Head(todo'[p])) <= Rank(x)
      BY <1>1, <3>1, PlanTail
    <3>3. LifeTypes'
      BY <1>1, <1>2, <2>1, <3>2 DEF LifeTypes, StartPlan
    <3> QED BY <1>2, <2>1, <3>2, <3>3
  <2>2. CASE serverName # "cmdserver"
    <3>1. Plan(todo[p], StartSteps, "threads", {"lock", "pid", "listen"}) /\ Head(todo[p]) # "threads"
      BY <1>2, <2>2 DEF LifeTypes, StartPlan
    <3>2. /\ Plan(todo'[p], StartSteps, "threads", {"lock", "pid", "listen"})
          /\ Rank(Head(todo[p])) < Rank(Head(todo'[p]))
          /\ \A x \in {"lock", "pid", "listen"} :
                  Rank(Head(todo[p])) < Rank(x) => Rank(Head(todo'[p])) <= Rank(x)
      BY <1>1, <3>1, PlanTail
    <3>3. LifeTypes'
      BY <1>1, <1>2, <2>2, <3>2 DEF LifeTypes, StartPlan
    <3> QED BY <1>2, <2>2, <3>2, <3>3
  <2> QED BY <2>1, <2>2
<1>3. CASE life[p] = "closing"
  <2> DEFINE must == IF serverName = "cmdserver" THEN {"lockfile"} ELSE {"port", "lockfile"}
  <2>1. Plan(todo[p], EndSteps, "log", must) /\ Head(todo[p]) # "log"
    BY <1>3 DEF LifeTypes, EndPlan
  <2>2. /\ Plan(todo'[p], EndSteps, "log", must) /\ Rank(Head(todo[p])) < Rank(Head(todo'[p]))
        /\ \A x \in must : Rank(Head(todo[p])) < Rank(x) => Rank(Head(todo'[p])) <= Rank(x)
    <3> HIDE DEF must
    <3> QED BY <1>1, <2>1, PlanTail
  <2>3. LifeTypes'
    BY <1>1, <1>3, <2>2 DEF LifeTypes, EndPlan
  <2>4. "lockfile" \in must /\ (serverName # "cmdserver" => "port" \in must)
    OBVIOUS
  <2> HIDE DEF must
  <2> QED BY <1>3, <2>2, <2>3, <2>4
<1> QED BY <1>2, <1>3

\* An instance whose process and plan do not change.
LEMMA OtherInstance ==
    ASSUME NEW q, life'[q] = life[q], todo'[q] = todo[q]
    PROVE  (Locked(q)' <=> Locked(q)) /\ (BeforePid(q)' <=> BeforePid(q)) /\ (Unlocked(q)' <=> Unlocked(q))
BY DEF Locked, Alive, Unlocked, BeforePid, AtStep, At

\* The instances that do not take the step, when only those without the lock lose it.
LEMMA OthersHold ==
    ASSUME LifeInv, NEW p \in Instances, serverName' = serverName,
           \A q \in Instances \ {p} : life'[q] = life[q] /\ todo'[q] = todo[q],
           \/ UNCHANGED <<lockfile, lockPid>>
           \/ \A q \in Instances \ {p} : ~Locked(q),
           \/ listening' = listening
           \/ listening' = NoInstance /\ listening = p
           \/ listening' = p /\ listening = NoInstance
    PROVE  \A q \in Instances \ {p} : HoldsLock(q)' /\ HoldsPort(q)'
<1> SUFFICES ASSUME NEW q \in Instances \ {p} PROVE HoldsLock(q)' /\ HoldsPort(q)'
  OBVIOUS
<1>1. HoldsLock(q) /\ HoldsPort(q) /\ life'[q] = life[q] /\ todo'[q] = todo[q]
  BY DEF LifeInv
<1>2. (Locked(q)' <=> Locked(q)) /\ (BeforePid(q)' <=> BeforePid(q))
  BY <1>1, OtherInstance
<1>3. HoldsLock(q)'
  BY <1>1, <1>2 DEF HoldsLock
<1>4. q # NoInstance /\ p # NoInstance
  BY ServerLifeAssumption DEF ServerLifeAssumption
<1>5. HoldsPort(q)'
  BY <1>1, <1>2, <1>4 DEF HoldsPort
<1> QED BY <1>3, <1>5

\* Who has the lock, has it alone.
LEMMA OneLocked ==
    ASSUME LifeInv
    PROVE  \A p, q \in Instances : Locked(p) /\ Locked(q) => p = q
BY DEF LifeInv, HoldsLock

ConnectRests == UNCHANGED connectVars
\* A step of a server leaves the connecting program alone.
LEMMA ConnectKept ==
    LifeInv /\ ConnectRests => ConnectSettles' /\ (connectPc = "socketBlock" => connectedTo # NoInstance)'
BY DEF LifeInv, ConnectRests, connectVars, ConnectSettles

\* Steps of main and endServer that concern neither the lock file nor the port.
LEMMA PlainStep ==
    ASSUME LifeInv, NEW p \in Instances, Advance(p), UNCHANGED <<life, lifeRest>>,
           \/ life[p] = "starting" /\ Head(todo[p]) \notin {"lock", "pid", "listen", "threads"}
           \/ life[p] = "closing" /\ Head(todo[p]) \notin {"port", "lockfile", "log"}
    PROVE  LifeInv'
<1> DEFINE r == Rank(Head(todo[p]))
           s == Rank(Head(todo'[p]))
<1>1. LifeTypes /\ UNCHANGED <<serverName, life, lockfile, lockPid, listening>> /\ ConnectRests
  BY DEF LifeInv, lifeRest, connectVars, ConnectRests
<1>2. \A q \in Instances \ {p} : life'[q] = life[q] /\ todo'[q] = todo[q]
  BY <1>1 DEF Advance, LifeTypes
<1>3. \A q \in Instances \ {p} : HoldsLock(q)' /\ HoldsPort(q)'
  BY <1>1, <1>2, OthersHold
<1>4. LifeTypes' /\ r < s
  BY <1>1, Advances
<1>5. HoldsLock(p) /\ HoldsPort(p)
  BY DEF LifeInv
<1>6. Rank("lock") = 5 /\ Rank("pid") = 9 /\ Rank("listen") = 11 /\ Rank("port") = 28 /\ Rank("lockfile") = 30
  BY RankOfSteps
<1>7. CASE life[p] = "starting"
  <2>1. r \in Nat /\ s \in Nat /\ (r < 5 => s <= 5) /\ (r < 9 => s <= 9)
          /\ (serverName # "cmdserver" /\ r < 11 => s <= 11)
    BY <1>1, <1>6, <1>7, Advances, RankNat
  <2>2. r # 5 /\ r # 9 /\ r # 11
    BY <1>1, <1>7, Placement, RankTells DEF Placed, AllPlaced
  <2>3. /\ Locked(p) <=> r > 5
        /\ BeforePid(p) <=> r \in 6..9
    BY <1>1, <1>7, Placement DEF Placed, AllPlaced
  <2>4. /\ Locked(p)' <=> s > 5
        /\ BeforePid(p)' <=> s \in 6..9
    BY <1>1, <1>4, <1>7, PlacementNext DEF Placed, AllPlaced
  <2>5. HoldsLock(p)'
    BY <1>1, <1>5, <2>1, <2>2, <2>3, <2>4 DEF HoldsLock
  <2>6. HoldsPort(p)'
    BY <1>1, <1>4, <1>5, <1>6, <1>7, <2>1, <2>2, <2>3, <2>4 DEF HoldsPort
  <2> QED BY <1>1, <1>3, <1>4, <2>5, <2>6, ConnectKept DEF LifeInv
<1>8. CASE life[p] = "closing"
  <2>1. r \in Nat /\ s \in Nat /\ (r < 30 => s <= 30) /\ (serverName # "cmdserver" /\ r < 28 => s <= 28)
    BY <1>1, <1>6, <1>8, Advances, RankNat
  <2>2. r # 28 /\ r # 30 /\ r # 31
    BY <1>1, <1>8, EndRanks, RankTells
  <2>3. (Locked(p) <=> r < 31) /\ ~BeforePid(p) /\ r <= 31
    BY <1>1, <1>8, EndRanks
  <2>4. (Locked(p)' <=> s < 31) /\ s <= 31
    BY <1>1, <1>4, <1>8, PlacementNext DEF Placed, AllPlaced
  <2>5. HoldsLock(p)'
    BY <1>1, <1>5, <2>1, <2>2, <2>3, <2>4 DEF HoldsLock
  <2>6. HoldsPort(p)'
    BY <1>1, <1>4, <1>5, <1>6, <1>8, <2>1, <2>2, <2>3, <2>4 DEF HoldsPort
  <2> QED BY <1>1, <1>3, <1>4, <2>5, <2>6, ConnectKept DEF LifeInv
<1> QED BY <1>7, <1>8

\* An instance that ends at a step where it does not have the lock, or by SysExit.
LEMMA EndsStep ==
    ASSUME LifeInv, NEW p \in Instances, NEW state \in {"ended", "failed"}, Ends(p, state),
           UNCHANGED <<serverName, lockfile, lockPid, connectVars>>,
           (listening' = listening /\ listening # p) \/ Closes(p)
    PROVE  LifeInv'
<1>1. /\ \A q \in Instances \ {p} : life'[q] = life[q] /\ todo'[q] = todo[q]
      /\ life'[p] = state /\ ConnectRests
  BY DEF Ends, Becomes, LifeInv, LifeTypes, connectVars, ConnectRests
<1>2. \A q \in Instances \ {p} : HoldsLock(q)' /\ HoldsPort(q)'
  BY <1>1, OthersHold DEF Closes
<1>3. HoldsLock(p)' /\ HoldsPort(p)'
  BY <1>1, ServerLifeAssumption DEF HoldsLock, HoldsPort, Locked, Alive, Closes, ServerLifeAssumption
<1>4. LifeTypes'
  BY <1>1 DEF LifeInv, LifeTypes, Ends, Becomes
<1> QED BY <1>1, <1>2, <1>3, <1>4, ConnectKept DEF LifeInv, Closes

\* Start keeps LifeInv: the new instance has no lock yet.
LEMMA StartStep ==
    ASSUME LifeInv, NEW p \in Instances, Start(p)
    PROVE  LifeInv'
<1>1. /\ \A q \in Instances \ {p} : life'[q] = life[q] /\ todo'[q] = todo[q]
      /\ life'[p] = "starting" /\ ConnectRests /\ UNCHANGED <<serverName, lockfile, lockPid, listening>>
      /\ todo'[p] = Servers[serverName].args \o Servers[serverName].main
  BY DEF Start, Becomes, LifeInv, LifeTypes, lifeRest, connectVars, ConnectRests
<1>0. life'[p] = "starting" /\ UNCHANGED <<serverName, lockfile, lockPid, listening>>
  BY <1>1
<1>2. StartPlan(todo'[p], serverName) /\ Head(todo'[p]) = "argc"
  BY <1>1, ServersPlanned DEF LifeInv, LifeTypes
<1>3. LifeTypes'
  BY <1>1, <1>2 DEF LifeInv, LifeTypes, Start, Becomes
<1>4. \A q \in Instances \ {p} : HoldsLock(q)' /\ HoldsPort(q)'
  BY <1>1, OthersHold
<1>5. Rank(Head(todo'[p])) = 1 /\ Rank("listen") = 11
  <2>1. Rank("argc") = 1
    BY DEF Rank
  <2> QED BY <1>2, <2>1, RankOfSteps
<1>6. ~Locked(p)'
  BY <1>0, <1>3, <1>5, PlacementNext DEF Placed, AllPlaced
<1>7. listening # p
  BY DEF Start, LifeInv, HoldsPort, Locked
<1>8. HoldsLock(p)' /\ HoldsPort(p)'
  BY <1>0, <1>5, <1>6, <1>7 DEF HoldsLock, HoldsPort
<1> QED BY <1>1, <1>3, <1>4, <1>8, ConnectKept DEF LifeInv

\* LockfileCheck keeps it: open() with O_EXCL gives the lock to one (lockfilertns.c:15-26).
LEMMA LockStep ==
    ASSUME LifeInv, NEW p \in Instances, LockfileCheck(p)
    PROVE  LifeInv'
<1>1. LifeTypes /\ AtStep(p, "lock") /\ life[p] = "starting" /\ Head(todo[p]) = "lock" /\ Rank("lock") = 5
  BY RankOfSteps DEF LifeInv, LockfileCheck, AtStep, At
<1>2. ~Locked(p) /\ listening # p
  BY <1>1, StartRanks, RankNat DEF LifeInv, HoldsPort
<1>3. CASE lockfile = NoInstance
  <2>1. /\ lockfile' = p /\ Advance(p) /\ UNCHANGED <<life, serverName, lockPid, listening>> /\ ConnectRests
    BY <1>3 DEF LockfileCheck, connectVars, ConnectRests
  <2>2. \A q \in Instances : ~Locked(q)
    BY <1>3, ServerLifeAssumption DEF LifeInv, HoldsLock, ServerLifeAssumption
  <2>3. \A q \in Instances \ {p} : life'[q] = life[q] /\ todo'[q] = todo[q]
    BY <1>1, <2>1 DEF Advance, LifeTypes
  <2>4. \A q \in Instances \ {p} : HoldsLock(q)' /\ HoldsPort(q)'
    BY <2>1, <2>2, <2>3, OthersHold
  <2>5. LifeTypes' /\ 5 < Rank(Head(todo'[p])) /\ Rank(Head(todo'[p])) <= 9
    <3>1. Rank("pid") = 9
      BY RankOfSteps
    <3>2. Head(todo[p]) # "threads" /\ 5 < Rank("pid")
      BY <1>1, <3>1
    <3> QED BY <1>1, <2>1, <3>1, <3>2, Advances
  <2>6. BeforePid(p)'
    BY <1>1, <2>1, <2>5, PlacementNext, RankNat DEF Placed, AllPlaced
  <2>7. HoldsLock(p)'
    BY <2>1, <2>6 DEF HoldsLock
  <2>8. HoldsPort(p)'
    <3>1. Rank("listen") = 11
      BY RankOfSteps
    <3> QED BY <1>1, <1>2, <2>1, <2>5, <3>1, RankNat DEF HoldsPort
  <2> QED BY <2>1, <2>4, <2>5, <2>7, <2>8, ConnectKept DEF LifeInv
<1>4. CASE lockfile # NoInstance
  <2>1. Ends(p, "ended") /\ UNCHANGED <<serverName, lockfile, lockPid, connectVars>> /\ listening' = listening
    BY <1>4 DEF LockfileCheck
  <2> QED BY <1>2, <2>1, EndsStep
<1> QED BY <1>3, <1>4

\* LockfileWritePid keeps it: who writes its process id has the lock (lockfilertns.c:28-34).
LEMMA PidStep ==
    ASSUME LifeInv, NEW p \in Instances, LockfileWritePid(p)
    PROVE  LifeInv'
<1>1. LifeTypes /\ life[p] = "starting" /\ Head(todo[p]) = "pid" /\ Rank("pid") = 9
        /\ Rank("listen") = 11 /\ Advance(p)
  BY RankOfSteps DEF LifeInv, LockfileWritePid, AtStep, At
<1>2. Locked(p) /\ lockfile = p
  BY <1>1, StartRanks, RankNat DEF LifeInv, HoldsLock
<1>3. lockfile' = p /\ lockPid' = p /\ UNCHANGED <<life, serverName, listening>> /\ ConnectRests
  BY <1>2, ServerLifeAssumption DEF LockfileWritePid, connectVars, ConnectRests, ServerLifeAssumption
<1>4. \A q \in Instances \ {p} : life'[q] = life[q] /\ todo'[q] = todo[q] /\ ~Locked(q)
  BY <1>1, <1>2, <1>3, OneLocked DEF Advance, LifeTypes
<1>5. \A q \in Instances \ {p} : HoldsLock(q)' /\ HoldsPort(q)'
  BY <1>3, <1>4, OthersHold
<1>6. LifeTypes' /\ 9 < Rank(Head(todo'[p])) /\ (serverName # "cmdserver" => Rank(Head(todo'[p])) <= 11)
  <2>1. Head(todo[p]) # "threads"
    BY <1>1
  <2>2. LifeTypes' /\ Rank(Head(todo[p])) < Rank(Head(todo'[p]))
        /\ (serverName # "cmdserver" =>
                (Rank(Head(todo[p])) < Rank("listen") => Rank(Head(todo'[p])) <= Rank("listen")))
    BY <1>1, <1>3, <2>1, Advances
  <2> QED BY <1>1, <2>2
<1>7. Locked(p)'
  BY <1>1, <1>3, <1>6, PlacementNext, RankNat DEF Placed, AllPlaced
<1>8. HoldsLock(p)' /\ HoldsPort(p)'
  BY <1>1, <1>2, <1>3, <1>6, <1>7, RankNat DEF HoldsLock, HoldsPort, LifeInv
<1> QED BY <1>3, <1>5, <1>6, <1>8, ConnectKept DEF LifeInv

\* TcpSetListenSocket keeps it: who has the lock finds the port free (tcprtns.c:29-48).
LEMMA ListenStep ==
    ASSUME LifeInv, NEW p \in Instances, TcpSetListenSocket(p)
    PROVE  LifeInv'
<1>1. LifeTypes /\ life[p] = "starting" /\ Head(todo[p]) = "listen" /\ Rank("listen") = 11 /\ todo[p] # <<>>
  BY RankOfSteps DEF LifeInv, TcpSetListenSocket, AtStep, At
<1>2. Locked(p) /\ ~BeforePid(p) /\ HoldsLock(p)
  BY <1>1, StartRanks, RankNat DEF LifeInv
<1>3. serverName # "cmdserver"
  <2>1. SUFFICES ASSUME serverName = "cmdserver" PROVE FALSE
    OBVIOUS
  <2>2. todo[p] \in Seq(StartSteps \ {"listen"}) /\ todo[p] # <<>>
    BY <1>1, <2>1 DEF LifeTypes, StartPlan, Plan
  <2>3. Head(todo[p]) \in StartSteps \ {"listen"}
    BY <2>2
  <2> QED BY <1>1, <2>3
<1>4. CASE listening = NoInstance
  <2>1. listening' = p /\ Advance(p) /\ UNCHANGED <<life, serverName, lockfile, lockPid>> /\ ConnectRests
    BY <1>4 DEF TcpSetListenSocket, connectVars, ConnectRests
  <2>2. \A q \in Instances \ {p} : life'[q] = life[q] /\ todo'[q] = todo[q]
    BY <1>1, <2>1 DEF Advance, LifeTypes
  <2>3. \A q \in Instances \ {p} : HoldsLock(q)' /\ HoldsPort(q)'
    BY <1>4, <2>1, <2>2, OthersHold
  <2>4. LifeTypes' /\ 11 < Rank(Head(todo'[p]))
    BY <1>1, <2>1, Advances
  <2>5. Locked(p)' /\ ~BeforePid(p)'
    BY <1>1, <2>1, <2>4, PlacementNext, RankNat DEF Placed, AllPlaced
  <2>6. HoldsLock(p)' /\ HoldsPort(p)'
    BY <1>1, <1>2, <1>3, <2>1, <2>4, <2>5, RankNat DEF HoldsLock, HoldsPort
  <2> QED BY <2>1, <2>3, <2>4, <2>6, ConnectKept DEF LifeInv
<1>5. CASE listening # NoInstance
  <2>1. Ends(p, "failed") /\ UNCHANGED <<serverName, lockfile, lockPid, connectVars>>
          /\ listening' = listening
    BY <1>5 DEF TcpSetListenSocket
  <2>3. listening # p
    BY <1>1 DEF LifeInv, HoldsPort
  <2> QED BY <2>1, <2>3, EndsStep
<1> QED BY <1>4, <1>5

\* InitThreads keeps it: who serves has lock and port (myserver.c:655-670).
LEMMA ThreadsStep ==
    ASSUME LifeInv, NEW p \in Instances, InitThreads(p)
    PROVE  LifeInv'
<1>1. LifeTypes /\ life[p] = "starting" /\ Head(todo[p]) = "threads" /\ Rank("threads") = 15
        /\ Rank("listen") = 11
  BY RankOfSteps DEF LifeInv, InitThreads, AtStep, At
<1>2. Locked(p) /\ ~BeforePid(p) /\ HoldsLock(p) /\ HoldsPort(p)
  BY <1>1, Placement DEF LifeInv, Placed, AllPlaced
<1>3. /\ \A q \in Instances \ {p} : life'[q] = life[q] /\ todo'[q] = todo[q]
      /\ life'[p] = "serving" /\ ConnectRests /\ UNCHANGED <<serverName, lockfile, lockPid, listening>>
  BY <1>1 DEF InitThreads, Advance, Becomes, LifeTypes, lifeRest, connectVars, ConnectRests
<1>4. LifeTypes'
  BY <1>1, <1>3 DEF LifeTypes, InitThreads, Advance, Becomes
<1>5. \A q \in Instances \ {p} : HoldsLock(q)' /\ HoldsPort(q)'
  BY <1>3, OthersHold
<1>6. Locked(p)'
  BY <1>3 DEF Locked, Alive, Unlocked, AtStep, At
<1>7. HoldsLock(p)' /\ HoldsPort(p)'
  BY <1>1, <1>2, <1>3, <1>6 DEF HoldsLock, HoldsPort
<1> QED BY <1>3, <1>4, <1>5, <1>7, ConnectKept DEF LifeInv

\* EndServer keeps it: who closes still has the lock (myserver.c:1408-1412).
LEMMA EndServerStep ==
    ASSUME LifeInv, NEW p \in Instances, EndServer(p)
    PROVE  LifeInv'
<1>1. LifeTypes /\ life[p] = "serving" /\ HoldsLock(p) /\ HoldsPort(p)
  BY DEF LifeInv, EndServer
<1>2. Locked(p) /\ ~BeforePid(p)
  BY <1>1 DEF Locked, Alive, Unlocked, BeforePid, AtStep, At
<1>3. /\ \A q \in Instances \ {p} : life'[q] = life[q] /\ todo'[q] = todo[q]
      /\ life'[p] = "closing" /\ todo'[p] = Servers[serverName].end
      /\ ConnectRests /\ UNCHANGED <<serverName, lockfile, lockPid, listening>>
  BY <1>1 DEF EndServer, Becomes, LifeTypes, lifeRest, connectVars, ConnectRests
<1>4. EndPlan(todo'[p], serverName) /\ Rank(Head(todo'[p])) <= 28
  <2>1. serverName \in DOMAIN Servers /\ todo'[p] = Servers[serverName].end
    BY <1>1, <1>3 DEF LifeTypes
  <2>2. EndPlan(Servers[serverName].end, serverName) /\ Rank(Head(Servers[serverName].end)) < 28
    BY <2>1, ServersPlanned
  <2> QED BY <2>1, <2>2, RankNat
<1>5. LifeTypes'
  BY <1>1, <1>3, <1>4 DEF LifeTypes, EndServer, Becomes
<1>6. \A q \in Instances \ {p} : HoldsLock(q)' /\ HoldsPort(q)'
  BY <1>3, OthersHold
<1>7. Locked(p)' /\ ~BeforePid(p)'
  BY <1>3, <1>4, <1>5, PlacementNext, RankNat DEF Placed, AllPlaced
<1>8. HoldsLock(p)' /\ HoldsPort(p)'
  BY <1>1, <1>2, <1>3, <1>4, <1>7, RankOfSteps, RankNat DEF HoldsLock, HoldsPort
<1> QED BY <1>3, <1>5, <1>6, <1>8, ConnectKept DEF LifeInv

\* CloseListen keeps it: the port goes before the lock (myserver.c:1437-1438).
LEMMA PortStep ==
    ASSUME LifeInv, NEW p \in Instances, CloseListen(p)
    PROVE  LifeInv'
<1>1. LifeTypes /\ life[p] = "closing" /\ Head(todo[p]) = "port" /\ Rank("port") = 28
        /\ Rank("lockfile") = 30 /\ Advance(p)
  BY RankOfSteps DEF LifeInv, CloseListen, At
<1>2. Locked(p) /\ ~BeforePid(p) /\ HoldsLock(p)
  BY <1>1, Placement DEF LifeInv, Placed, AllPlaced
<1>3. /\ Closes(p) /\ UNCHANGED <<life, serverName, lockfile, lockPid>> /\ ConnectRests
      /\ \A q \in Instances \ {p} : life'[q] = life[q] /\ todo'[q] = todo[q]
  BY <1>1 DEF CloseListen, Advance, LifeTypes, connectVars, ConnectRests
<1>4. \A q \in Instances \ {p} : HoldsLock(q)' /\ HoldsPort(q)'
  BY <1>3, OthersHold DEF Closes
<1>5. LifeTypes' /\ Rank(Head(todo'[p])) <= 30
  <2>1. Head(todo[p]) # "log"
    BY <1>1
  <2> QED BY <1>1, <1>3, <2>1, Advances
<1>6. Locked(p)' /\ ~BeforePid(p)'
  BY <1>1, <1>3, <1>5, PlacementNext, RankNat DEF Placed, AllPlaced
<1>7. listening' # p
  BY <1>3, ServerLifeAssumption DEF Closes, ServerLifeAssumption
<1>8. HoldsLock(p)' /\ HoldsPort(p)'
  BY <1>1, <1>2, <1>3, <1>6, <1>7 DEF HoldsLock, HoldsPort
<1> QED BY <1>3, <1>4, <1>5, <1>8, ConnectKept DEF LifeInv, Closes

\* LockfileDelete keeps it: only who has the lock removes it (lockfilertns.c:36-39).
LEMMA UnlockStep ==
    ASSUME LifeInv, NEW p \in Instances, LockfileDelete(p)
    PROVE  LifeInv'
<1>1. LifeTypes /\ life[p] = "closing" /\ Head(todo[p]) = "lockfile" /\ Rank("port") = 28
        /\ Rank("lockfile") = 30 /\ Advance(p)
  BY RankOfSteps DEF LifeInv, LockfileDelete, At
<1>2. Locked(p) /\ HoldsPort(p)
  BY <1>1, Placement DEF LifeInv, Placed, AllPlaced
<1>3. /\ UNCHANGED <<life, serverName, listening>> /\ ConnectRests
      /\ \A q \in Instances \ {p} : life'[q] = life[q] /\ todo'[q] = todo[q] /\ ~Locked(q)
  BY <1>1, <1>2, OneLocked DEF LockfileDelete, Advance, LifeTypes, connectVars, ConnectRests
<1>4. \A q \in Instances \ {p} : HoldsLock(q)' /\ HoldsPort(q)'
  BY <1>3, OthersHold
<1>5. LifeTypes' /\ Rank(Head(todo'[p])) > 30
  <2>1. Head(todo[p]) # "log"
    BY <1>1
  <2> QED BY <1>1, <1>3, <2>1, Advances
<1>6. ~Locked(p)'
  BY <1>1, <1>3, <1>5, PlacementNext, RankNat DEF Placed, AllPlaced
<1>7. HoldsLock(p)' /\ HoldsPort(p)'
  BY <1>1, <1>2, <1>3, <1>6 DEF HoldsLock, HoldsPort
<1> QED BY <1>3, <1>4, <1>5, <1>7, ConnectKept DEF LifeInv

\* Every step of an instance keeps LifeInv.
LEMMA InstanceStepInv ==
    ASSUME LifeInv, NEW p \in Instances, InstanceStep(p)
    PROVE  LifeInv'
<1>1. \A x \in Arguments : x \notin {"lock", "pid", "listen", "threads"}
  BY DEF Arguments
<1>2. ASSUME ValidateServerInput(p) PROVE LifeInv'
  <2>1. Unlocked(p) /\ life[p] = "starting" /\ Head(todo[p]) \in Arguments /\ UNCHANGED lifeRest
    BY <1>2 DEF ValidateServerInput, Unlocked, AtStep, At
  <2>2. CASE Advance(p) /\ UNCHANGED life
    BY <1>1, <2>1, <2>2, PlainStep
  <2>3. CASE Ends(p, "ended")
    <3>1. listening # p
      BY <2>1 DEF LifeInv, HoldsPort, Locked
    <3> QED BY <2>1, <2>3, <3>1, EndsStep DEF lifeRest, connectVars
  <2> QED BY <1>2, <2>2, <2>3 DEF ValidateServerInput
<1>3. ASSUME NEW step \in {"dir", "limit", "logfile", "daemon", "eventfd", "clientinfo", "signals"},
                    Passes(p, step)
      PROVE  LifeInv'
  <2>1. life[p] = "starting" /\ Head(todo[p]) \notin {"lock", "pid", "listen", "threads"}
    BY <1>3 DEF Passes, AtStep, At
  <2> QED BY <1>3, <2>1, PlainStep DEF Passes
<1>4. ASSUME SysExit(p) PROVE LifeInv'
  BY <1>4, EndsStep DEF SysExit
<1>5. ASSUME JoinThread(p) \/ FreeLists(p) PROVE LifeInv'
  <2>1. Servers[serverName].threads \cap {"port", "lockfile", "log"} = {}
    BY DEF LifeInv, LifeTypes, Servers, Server, MyServerThreads, DbServerThreads,
       BankServerThreads, CmdServerThreads
  <2>2. life[p] = "closing" /\ Head(todo[p]) \notin {"port", "lockfile", "log"} /\ Advance(p)
          /\ UNCHANGED <<life, lifeRest>>
    BY <1>5, <2>1 DEF JoinThread, FreeLists, At
  <2> QED BY <2>2, PlainStep
<1>6. ASSUME LogfileClose(p) PROVE LifeInv'
  <2>1. life[p] = "closing" /\ Head(todo[p]) = "log" /\ Rank("log") = 31 /\ LifeTypes
    BY <1>6, RankOfSteps DEF LogfileClose, At, LifeInv
  <2>2. ~Locked(p)
    BY <2>1, Placement DEF Placed, AllPlaced
  <2>3. listening # p
    BY <2>2 DEF LifeInv, HoldsPort
  <2> QED BY <1>6, <2>3, EndsStep DEF LogfileClose, lifeRest, connectVars
<1> QED
  BY <1>2, <1>3, <1>4, <1>5, <1>6, StartStep, LockStep, PidStep, ListenStep, ThreadsStep,
     EndServerStep, PortStep, UnlockStep
     DEF InstanceStep, SetCurrentDir, SetFileLimit, DaemonizeServer, LogfileOpen, SetUpMain

\* Every step keeps LifeInv, also those of the connecting program and of who removes a stale file.
LEMMA LifeNextInv == LifeInv /\ [LifeNext]_lifeVars => LifeInv'
<1> SUFFICES ASSUME LifeInv, [LifeNext]_lifeVars PROVE LifeInv'
  OBVIOUS
<1>1. ASSUME UNCHANGED <<serverName, todo, life, listening>>,
             UNCHANGED <<lockfile, lockPid>> \/ \A p \in Instances : ~Locked(p),
             ConnectSettles', (connectPc = "socketBlock" => connectedTo # NoInstance)'
      PROVE  LifeInv'
  <2>1. \A q \in Instances : (Locked(q)' <=> Locked(q)) /\ (BeforePid(q)' <=> BeforePid(q))
    BY <1>1, OtherInstance
  <2> QED BY <1>1, <2>1 DEF LifeInv, LifeTypes, HoldsLock, HoldsPort
<1>2. ASSUME RemoveStaleLock PROVE LifeInv'
  <2>1. UNCHANGED <<serverName, todo, life, listening>> /\ ConnectRests /\ \A p \in Instances : ~Locked(p)
    BY <1>2 DEF RemoveStaleLock, Locked, connectVars, ConnectRests
  <2> QED BY <1>1, <2>1, ConnectKept
<1>3. ASSUME ConnectStep PROVE LifeInv'
  <2>1. ConnectSettles /\ (connectPc = "socketBlock" => connectedTo # NoInstance)
    BY DEF LifeInv
  <2>2. UNCHANGED <<serverName, todo, life, lockfile, lockPid, listening>>
    BY <1>3 DEF ConnectStep, TcpSetConnectSocket, TcpSetConnectSocketNoBlock, PollConnect,
       RetryLater, SocketBlock, ConnectAgain, NotLife
  <2>3. ConnectSettles' /\ (connectPc = "socketBlock" => connectedTo # NoInstance)'
    BY <1>3, <2>1 DEF ConnectSettles, ConnectStep, TcpSetConnectSocket,
       TcpSetConnectSocketNoBlock, PollConnect, RetryLater, SocketBlock, ConnectAgain,
       Connecting, ConnectExits
  <2> QED BY <1>1, <2>2, <2>3
<1>4. ASSUME UNCHANGED lifeVars PROVE LifeInv'
  <2>1. UNCHANGED <<serverName, todo, life, lockfile, lockPid, listening>> /\ ConnectRests
    BY <1>4 DEF lifeVars, ConnectRests, connectVars
  <2> QED BY <1>1, <2>1, ConnectKept
<1> QED BY <1>2, <1>3, <1>4, InstanceStepInv DEF LifeNext

\* However often a server is started and fails, one instance has the lock, the lock
\* file and the port, and a program that connects is told the truth (lockfilertns.c:15-39,
\* tcprtns.c:29-139).
THEOREM OneServerRuns == LifeSpec => []OneServerReached
<1>1. LifeInv => OneServerReached
  BY ServerLifeAssumption DEF LifeInv, OneServerReached, OneServer, HoldsLock, HoldsPort, ServerLifeAssumption
<1>2. LifeSpec => []LifeInv
  BY LifeInitInv, LifeNextInv, PTL DEF LifeSpec
<1> QED BY <1>1, <1>2, PTL
-----------------------------------------------------------------------------
(***************************************************************************)
(* Clients complete what was answered, for any number of connections.      *)
(***************************************************************************)
\* What a connection is like while the program is at a place.
ConnectionAt(i) ==
    /\ clientPc = "validate" =>
          index = 1 /\ sockFd[i] = Closed /\ server[i] # "final" /\ buffered[i] = "nothing"
    /\ clientPc = "connect" /\ program = "myclient" =>
          /\ server[i] # "final"
          /\ IF i < index THEN pollFd[i] = sockFd[i] ELSE sockFd[i] = Closed
    /\ clientPc = "connect" /\ program # "myclient" => sockFd[i] = Closed /\ buffered[i] = "nothing"
    /\ clientPc = "send" =>
          /\ server[i] # "final" /\ pollFd[i] = sockFd[i]
          /\ i < index /\ sockFd[i] # Closed => servermsgInd[i]
    /\ clientPc = "wait" =>
          /\ server[i] # "final" /\ (sockFd[i] # Closed => servermsgInd[i])
          /\ pollFd[i] # Closed => pollFd[i] = sockFd[i]
          /\ pollFd[i] = Closed /\ sockFd[i] # Closed => answer[i] = "response"
    /\ clientPc \in {"complete", "close"} =>
          /\ sockFd[i] # Closed => servermsgInd[i] /\ answer[i] = "response"
          /\ server[i] = "final" => answer[i] = "response"
    /\ clientPc = "close" /\ i < index => sockFd[i] = Closed
    /\ clientPc \in {"prompt", "answer"} =>
          IF i = 1 THEN sockFd[1] # Closed => pollFd[1] = sockFd[1] ELSE sockFd[i] = Closed
    /\ clientPc = "prompt" => buffered[i] = "nothing"
    /\ clientPc = "prompt" /\ program # "myclient" => sockFd[1] # Closed
    /\ clientPc = "answer" => sockFd[1] # Closed /\ (i # 1 => buffered[i] = "nothing")

Arrays ==
    /\ DOMAIN sockFd = Connections /\ DOMAIN pollFd = Connections /\ DOMAIN servermsgInd = Connections
    /\ DOMAIN buffered = Connections /\ DOMAIN server = Connections /\ DOMAIN answer = Connections
    /\ DOMAIN inbound = Connections
LoopAt ==
    /\ index \in Connections
    /\ clientPc \in {"send", "wait", "complete", "close"} => program = "myclient"
ClientInv == Arrays /\ LoopAt /\ \A i \in Connections : ConnectionAt(i)

\* ClientInv holds at the start (myclient.c:66-91).
LEMMA ClientsInitInv == ClientsInit => ClientInv
BY ClientsAssumption DEF ClientsAssumption, ClientsInit, ClientInv, Arrays, LoopAt, ConnectionAt,
   Connections, Allocated

\* What a receive leaves alone.
LEMMA ReceiveEffects ==
    ASSUME Arrays, NEW i \in Connections
    PROVE  /\ TakesPart(i) => /\ DOMAIN inbound' = Connections /\ buffered' = [buffered EXCEPT ![i] = "part"]
                              /\ UNCHANGED <<server, answer>>
           /\ \A m : TakesMessage(i, m) =>
                 /\ DOMAIN inbound' = Connections /\ buffered' = [buffered EXCEPT ![i] = "nothing"]
                 /\ answer' = [answer EXCEPT ![i] = m] /\ UNCHANGED server
           /\ TakesEnd(i) => /\ buffered' = [buffered EXCEPT ![i] = "nothing"]
                             /\ UNCHANGED <<inbound, server, answer>>
BY DEF Arrays, TakesPart, TakesMessage, TakesEnd, fdVars, serverVars

\* Every step of a client or of the server at the other end keeps ClientInv.
LEMMA ClientsStepInv == ClientInv /\ [ClientsNext]_clientVars => ClientInv'
<1> SUFFICES ASSUME ClientInv, [ClientsNext]_clientVars PROVE ClientInv'
  OBVIOUS
<1> USE ClientsAssumption DEF ClientsAssumption, ClientInv, Arrays, LoopAt
<1>0. Connections = 1..MaxClients /\ 1 \in Connections /\ \A i \in Connections : Fd(i) # Closed
  BY DEF Connections, Fd, Closed
<1>1. CASE ConnectAll
  BY <1>0, <1>1 DEF ConnectAll, ConnectionAt, Connects, Disconnects, Turn, netVars, serverVars
<1>2. CASE PeerConnect
  BY <1>0, <1>2 DEF PeerConnect, ConnectionAt, Connects, Stays, netVars, serverVars, fdVars
<1>3. CASE SendInitial
  BY <1>0, <1>3 DEF SendInitial, ConnectionAt, Disconnects, Delivers, ConnectionReset, SendKills,
     Turn, netVars, serverVars, fdVars
<1>4. CASE EndWait
  BY <1>0, <1>4 DEF EndWait, ConnectionAt, Outstanding, Stays, netVars, serverVars, fdVars
<1>5. CASE SendCompletion
  BY <1>0, <1>5 DEF SendCompletion, ConnectionAt, ToComplete, Disconnects, Delivers,
     ConnectionReset, SendKills, Turn, netVars, serverVars, fdVars
<1>6. CASE WaitClose
  BY <1>0, <1>6 DEF WaitClose, ConnectionAt, ToComplete, Turn, serverVars, Allocated
<1>7. CASE RecvAnswer
  BY <1>0, <1>7, ReceiveEffects DEF RecvAnswer, ConnectionAt, Stays
<1>8. CASE PeerAnswer
  BY <1>0, <1>8, ReceiveEffects DEF PeerAnswer, ConnectionAt, Stays, fdVars
<1>9. ASSUME NEW i \in Connections, RecvResponse(i) PROVE ClientInv'
  BY <1>0, <1>9, ReceiveEffects DEF RecvResponse, ConnectionAt, Disconnects, Stays, fdVars
<1>10. CASE ValidateInput \/ ValidatePeerInput
  BY <1>0, <1>10 DEF ValidateInput, ValidatePeerInput, Validated, ConnectionAt, Stays, netVars,
     serverVars, fdVars
<1>11. CASE Reconnect
  BY <1>0, <1>11 DEF Reconnect, ConnectionAt, Connects, Disconnects, Stays, netVars, serverVars
<1>12. CASE Command \/ PeerCommand
  BY <1>0, <1>12 DEF Command, PeerCommand, Quits, SendsCommand, ConnectionAt, Delivers,
     ConnectionReset, SendKills, Stays, netVars, serverVars, fdVars
<1>13. CASE EndMain \/ EndClient
  BY <1>0, <1>13 DEF EndMain, EndClient, ConnectionAt, Stays, netVars, serverVars
<1>14. ASSUME NEW i \in Connections, ServerStep(i) PROVE ClientInv'
  BY <1>0, <1>14 DEF ServerStep, AnswerClient, EndConnection, ConnectionAt, fdVars
<1>15. CASE UNCHANGED clientVars
  BY <1>0, <1>15 DEF clientVars, fdVars, netVars, serverVars, ConnectionAt
<1> QED
  BY <1>1, <1>2, <1>3, <1>4, <1>5, <1>6, <1>7, <1>8, <1>9, <1>10, <1>11, <1>12, <1>13, <1>14, <1>15
     DEF ClientsNext, Automatic, Interactive

LEMMA ClientInvSafe == ClientInv => ClientSafe
<1> SUFFICES ASSUME ClientInv PROVE ClientSafe
  OBVIOUS
<1>1. 1 \in Connections
  BY ClientsAssumption DEF ClientsAssumption, Connections
<1>2. PolledIsOpen
  BY <1>1 DEF ClientInv, ConnectionAt, PolledIsOpen
<1>3. CompletesAnswered
  BY DEF ClientInv, ConnectionAt, CompletesAnswered, ToComplete
<1> QED BY <1>2, <1>3 DEF ClientSafe

\* A client receives on an open connection of its own, and completes exactly what has been
\* answered (myclient.c:94-253).
THEOREM ClientsSafe == ClientsSpec => []ClientSafe
<1>1. ClientsSpec => []ClientInv
  BY ClientsInitInv, ClientsStepInv, PTL DEF ClientsSpec
<1> QED BY <1>1, ClientInvSafe, PTL
-----------------------------------------------------------------------------
(***************************************************************************)
(* Control commands take effect, for any number of threads.                *)
(***************************************************************************)
Names == {"ERROR", "WARN", "INFO", "TRACE", "MEMORY", "WIRE"}
InTable(name, kind) == \E i \in 1..Len(Table(kind)) : Table(kind)[i] = name

\* The types of a thread's command; es is the rest of its entries, the switches of
\* names are still to be read.
CommandOK(pc, kind, cmd, es, names, shown) ==
    /\ pc \in {"idle", "error", "set", "read", "answered"} /\ kind \in {"LOG", "PKG"}
    /\ cmd \in Seq(Settings) /\ es \in Seq(Settings) /\ names \in Seq(Names)
    /\ pc = "idle" => cmd = <<>>
    /\ pc \in {"read", "answered"} => es = <<>>
    /\ pc = "set" => shown = {}
    /\ pc = "answered" => names = <<>>
    /\ Len(es) <= Len(cmd)
    /\ \A i \in 1..Len(es) : es[i] = cmd[Len(cmd) - Len(es) + i]
    /\ \A i, j \in 1..Len(names) : names[i] = names[j] => i = j
CommandTypes(t) == CommandOK(cmdPc[t], cmdKind[t], command[t], toSet[t], toRead[t], response[t])

\* The last of the first n entries of cmd about a switch, if there is one, is what it
\* is set to, unless others have set it since.
LastEntry(cmd, n, name, i) ==
    /\ i \in 1..n /\ cmd[i].name = name
    /\ \A j \in 1..n : cmd[j].name = name => j <= i
SetOK(cmd, n, name, others, isOn) ==
    \/ \A i \in 1..n : cmd[i].name # name
    \/ \E i \in 1..n : LastEntry(cmd, n, name, i) /\ (others \/ (isOn <=> cmd[i].on = TRUE))
SetSoFar(t, name) ==
    SetOK(command[t], Len(command[t]) - Len(toSet[t]), name, name \in since[t], name \in enabled)

\* What the response says of the switches that have been read.
ReadOK(pc, names, name, others, isOn, isShown) ==
    LET unread == \E i \in 1..Len(names) : names[i] = name
    IN  /\ pc \in {"read", "answered"} /\ ~unread => others \/ (isShown <=> isOn)
        /\ unread => ~isShown
ReadSoFar(t, name) ==
    ReadOK(cmdPc[t], toRead[t], name, name \in since[t], name \in enabled, name \in response[t])

\* A switch that is not as it was at the start is in the command of a thread.
Mentioned(cmd, name) == \E i \in 1..Len(cmd) : cmd[i].name = name
Untouched(name) ==
    \/ name \in enabled <=> name \in Default
    \/ \E t \in Commanders : InTable(name, cmdKind[t]) /\ Mentioned(command[t], name)

LogArrays ==
    /\ DOMAIN cmdPc = Commanders /\ DOMAIN cmdKind = Commanders /\ DOMAIN command = Commanders
    /\ DOMAIN toSet = Commanders /\ DOMAIN toRead = Commanders /\ DOMAIN response = Commanders
    /\ DOMAIN since = Commanders
CommandInv(t) ==
    /\ CommandTypes(t)
    /\ \A name \in Names : InTable(name, cmdKind[t]) => SetSoFar(t, name) /\ ReadSoFar(t, name)
LogInv ==
    /\ LogArrays
    /\ \A t \in Commanders : CommandInv(t)
    /\ \A name \in Names : Untouched(name)

\* LogInv holds at the start (logrtns.c:21-37).
LEMMA LoggingInitInv == LoggingInit => LogInv
<1> SUFFICES ASSUME LoggingInit PROVE LogInv
  OBVIOUS
<1>1. LogArrays
  BY DEF LoggingInit, LogArrays
<1>2. \A t \in Commanders : CommandTypes(t)
  BY DEF LoggingInit, CommandTypes, CommandOK
<1>3. \A t \in Commanders, name \in Names : SetSoFar(t, name) /\ ReadSoFar(t, name)
  BY DEF LoggingInit, SetSoFar, SetOK, ReadSoFar, ReadOK
<1>4. \A name \in Names : Untouched(name)
  BY DEF LoggingInit, Untouched
<1> QED BY <1>1, <1>2, <1>3, <1>4 DEF LogInv, CommandInv

\* A table lists its switches once (logrtns.c:21-37, logpkgrtns.c:28-33).
LEMMA TablesRead ==
    ASSUME NEW kind \in {"LOG", "PKG"}
    PROVE  /\ Table(kind) \in Seq(Names)
           /\ \A i, j \in 1..Len(Table(kind)) : Table(kind)[i] = Table(kind)[j] => i = j
           /\ \A name : InTable(name, kind) <=> name \in ToSet(Table(kind))
<1>1. Table(kind) \in Seq(Names)
  <2>1. CASE kind = "LOG"
    <3> DEFINE s == <<"ERROR", "WARN", "INFO", "TRACE">>
    <3>1. s[1] = "ERROR" /\ s[2] = "WARN" /\ s[3] = "INFO" /\ s[4] = "TRACE" /\ Len(s) = 4
            /\ s = [i \in 1..4 |-> s[i]]
      OBVIOUS
    <3> HIDE DEF s
    <3>2. \A i \in 1..4 : i = 1 \/ i = 2 \/ i = 3 \/ i = 4
      OBVIOUS
    <3>3. \A i \in 1..4 : s[i] \in Names
      BY <3>1, <3>2 DEF Names
    <3>4. s \in Seq(Names)
      BY <3>1, <3>3, TupleInSeq
    <3> QED BY <2>1, <3>4 DEF Table, s
  <2>2. CASE kind = "PKG"
    <3> DEFINE s == <<"MEMORY", "WIRE">>
    <3>1. s[1] = "MEMORY" /\ s[2] = "WIRE" /\ Len(s) = 2 /\ s = [i \in 1..2 |-> s[i]]
      OBVIOUS
    <3> HIDE DEF s
    <3>2. \A i \in 1..2 : s[i] \in Names
      BY <3>1 DEF Names
    <3>4. s \in Seq(Names)
      BY <3>1, <3>2, TupleInSeq
    <3> QED BY <2>2, <3>4 DEF Table, s
  <2> QED BY <2>1, <2>2
<1>2. \A i, j \in 1..Len(Table(kind)) : Table(kind)[i] = Table(kind)[j] => i = j
  BY DEF Table
<1>3. DOMAIN Table(kind) = 1..Len(Table(kind))
  BY <1>1
<1> QED BY <1>1, <1>2, <1>3 DEF InTable, ToSet

\* A thread whose command does not change.
SameCommand(t) ==
    /\ cmdPc'[t] = cmdPc[t] /\ cmdKind'[t] = cmdKind[t] /\ command'[t] = command[t]
    /\ toSet'[t] = toSet[t] /\ toRead'[t] = toRead[t] /\ response'[t] = response[t]

\* A step of another thread keeps what is known of a command: a switch that it sets is in since.
LEMMA OthersCommand ==
    ASSUME LogInv, NEW u \in Commanders, SameCommand(u),
           \/ UNCHANGED enabled /\ since'[u] = since[u]
           \/ \E e : /\ since'[u] = since[u] \cup {e}
                     /\ \A name \in Names \ {e} : name \in enabled' <=> name \in enabled
    PROVE  CommandInv(u)'
<1>1. CommandTypes(u)'
  BY DEF LogInv, CommandInv, SameCommand, CommandTypes
<1>2. ASSUME NEW name \in Names, InTable(name, cmdKind'[u]) PROVE SetSoFar(u, name)' /\ ReadSoFar(u, name)'
  <2>1. SetSoFar(u, name) /\ ReadSoFar(u, name)
    BY <1>2 DEF LogInv, CommandInv, SameCommand
  <2>2. (name \in since[u] => name \in since'[u])
          /\ (name \in since'[u] \/ (name \in enabled' <=> name \in enabled))
    OBVIOUS
  <2>3. ASSUME NEW cmd, NEW n, SetOK(cmd, n, name, name \in since[u], name \in enabled)
        PROVE  SetOK(cmd, n, name, name \in since'[u], name \in enabled')
    BY <2>2, <2>3 DEF SetOK
  <2>4. SetSoFar(u, name)'
    BY <2>1, <2>3 DEF SetSoFar, SameCommand
  <2>5. ReadSoFar(u, name)'
    BY <2>1, <2>2 DEF ReadSoFar, ReadOK, SameCommand
  <2> QED BY <2>4, <2>5
<1> QED BY <1>1, <1>2 DEF CommandInv

\* Steps of t that set no switch.
LEMMA OtherStep ==
    ASSUME LogInv, NEW t \in Commanders, UNCHANGED enabled, LogArrays',
           \A u \in Commanders \ {t} : SameCommand(u) /\ since'[u] = since[u],
           (cmdKind'[t] = cmdKind[t] /\ command'[t] = command[t]) \/ command[t] = <<>>,
           CommandInv(t)'
    PROVE  LogInv'
<1>1. \A u \in Commanders \ {t} : CommandInv(u)'
  BY OthersCommand
<1>2. ASSUME NEW name \in Names PROVE Untouched(name)'
  <2>1. Untouched(name)
    BY DEF LogInv
  <2>2. Len(<<>>) = 0
    BY EmptySeq
  <2>3. \A u \in Commanders : Mentioned(command[u], name) =>
           Mentioned(command'[u], name) /\ cmdKind'[u] = cmdKind[u]
    BY <2>2 DEF SameCommand, Mentioned
  <2> QED BY <2>1, <2>3 DEF Untouched
<1> QED BY <1>1, <1>2 DEF LogInv

\* A command comes in, or is rejected (cmdrtns.c).
LEMMA CmdProcInv == ASSUME LogInv, NEW t \in Commanders, CmdProc(t) \/ RejectCmd(t) PROVE LogInv'
<1>1. LogArrays /\ CommandInv(t) /\ cmdPc[t] = "idle" /\ command[t] = <<>>
  BY DEF LogInv, CommandInv, CommandTypes, CommandOK, CmdProc, RejectCmd
<1>2. CASE CmdProc(t)
  <2>1. PICK kind \in {"LOG", "PKG"}, n \in 0..MaxEntries : \E es \in [1..n -> Settings] :
            /\ cmdKind' = [cmdKind EXCEPT ![t] = kind]
            /\ command' = [command EXCEPT ![t] = es] /\ toSet' = [toSet EXCEPT ![t] = es]
    BY <1>2 DEF CmdProc
  <2>2. PICK es \in [1..n -> Settings] :
            /\ cmdKind' = [cmdKind EXCEPT ![t] = kind]
            /\ command' = [command EXCEPT ![t] = es] /\ toSet' = [toSet EXCEPT ![t] = es]
    BY <2>1
  <2>3. n \in Nat /\ es \in Seq(Settings) /\ Len(es) = n
    <3>1. n \in Nat
      BY LoggingAssumption DEF LoggingAssumption
    <3> QED BY <3>1
  <2>4. /\ cmdPc'[t] = "set" /\ cmdKind'[t] = kind /\ command'[t] = es /\ toSet'[t] = es
        /\ toRead'[t] = toRead[t] /\ response'[t] = {} /\ UNCHANGED enabled
        /\ LogArrays' /\ \A u \in Commanders \ {t} : SameCommand(u) /\ since'[u] = since[u]
    BY <1>1, <1>2, <2>2 DEF CmdProc, LogArrays, SameCommand
  <2>5. CommandTypes(t)'
    <3>1. CommandOK("idle", cmdKind[t], <<>>, toSet[t], toRead[t], response[t])
      BY <1>1 DEF CommandTypes, CommandInv
    <3>2. CommandOK("set", kind, es, es, toRead[t], {})
      BY <2>3, <3>1 DEF CommandOK
    <3> QED BY <2>4, <3>2 DEF CommandTypes
  <2>6. \A name \in Names : SetSoFar(t, name)' /\ ReadSoFar(t, name)'
    BY <2>3, <2>4 DEF SetSoFar, SetOK, ReadSoFar, ReadOK
  <2> QED BY <1>1, <2>4, <2>5, <2>6, OtherStep DEF CommandInv
<1>3. CASE RejectCmd(t)
  <2>1. /\ cmdPc'[t] = "error" /\ UNCHANGED <<enabled, cmdKind, toSet, toRead, response, command, since>>
        /\ LogArrays' /\ \A u \in Commanders \ {t} : SameCommand(u) /\ since'[u] = since[u]
    BY <1>1, <1>3 DEF RejectCmd, LogArrays, SameCommand
  <2>2. CommandTypes(t)'
    BY <1>1, <2>1 DEF CommandTypes, CommandOK, CommandInv
  <2>3. ASSUME NEW name \in Names, InTable(name, cmdKind[t]) PROVE SetSoFar(t, name)' /\ ReadSoFar(t, name)'
    BY <1>1, <2>1, <2>3 DEF CommandInv, SetSoFar, ReadSoFar, ReadOK
  <2> QED BY <1>1, <2>1, <2>2, <2>3, OtherStep DEF CommandInv
<1> QED BY <1>2, <1>3

\* The loop that reads the switches starts, and ends (logcmds.c, logpkgcmds.c).
LEMMA InfoInv == ASSUME LogInv, NEW t \in Commanders, StartInfo(t) \/ FmtResponse(t) PROVE LogInv'
<1>1. LogArrays /\ CommandInv(t)
  BY DEF LogInv
<1>2. CASE StartInfo(t)
  <2>1. /\ cmdPc[t] = "set" /\ toSet[t] = <<>> /\ cmdPc'[t] = "read" /\ toRead'[t] = Table(cmdKind[t])
        /\ UNCHANGED <<enabled, cmdKind, toSet, response, command, since>>
        /\ LogArrays' /\ \A u \in Commanders \ {t} : SameCommand(u) /\ since'[u] = since[u]
    BY <1>1, <1>2 DEF StartInfo, LogArrays, SameCommand, cmdRest
  <2>2. cmdKind[t] \in {"LOG", "PKG"} /\ response[t] = {}
    BY <1>1, <2>1 DEF CommandInv, CommandTypes, CommandOK
  <2>3. CommandTypes(t)'
    <3>1. CommandOK("set", cmdKind[t], command[t], <<>>, toRead[t], response[t])
      BY <1>1, <2>1 DEF CommandTypes, CommandInv
    <3>2. CommandOK("read", cmdKind[t], command[t], <<>>, Table(cmdKind[t]), response[t])
      BY <2>2, <3>1, TablesRead DEF CommandOK
    <3> QED BY <2>1, <3>2 DEF CommandTypes
  <2>4. ASSUME NEW name \in Names, InTable(name, cmdKind[t]) PROVE SetSoFar(t, name)' /\ ReadSoFar(t, name)'
    BY <1>1, <2>1, <2>2, <2>4 DEF CommandInv, SetSoFar, ReadSoFar, ReadOK, InTable
  <2> QED BY <1>1, <2>1, <2>3, <2>4, OtherStep DEF CommandInv
<1>3. CASE FmtResponse(t)
  <2>1. /\ cmdPc[t] = "read" /\ toRead[t] = <<>> /\ cmdPc'[t] = "answered"
        /\ UNCHANGED <<enabled, cmdKind, toSet, toRead, response, command, since>>
        /\ LogArrays' /\ \A u \in Commanders \ {t} : SameCommand(u) /\ since'[u] = since[u]
    BY <1>1, <1>3 DEF FmtResponse, LogArrays, SameCommand, cmdRest
  <2>2. CommandTypes(t)'
    BY <1>1, <2>1 DEF CommandTypes, CommandOK, CommandInv
  <2>3. ASSUME NEW name \in Names, InTable(name, cmdKind[t]) PROVE SetSoFar(t, name)' /\ ReadSoFar(t, name)'
    BY <1>1, <2>1, <2>3 DEF CommandInv, SetSoFar, ReadSoFar, ReadOK
  <2> QED BY <1>1, <2>1, <2>2, <2>3, OtherStep DEF CommandInv
<1> QED BY <1>2, <1>3

\* One switch is read (logrtns.c, logpkgrtns.c).
LEMMA ReadInv == ASSUME LogInv, NEW t \in Commanders, NEW kind, ReadSwitch(t, kind) PROVE LogInv'
<1>1. LogArrays /\ CommandInv(t)
  BY DEF LogInv
<1> DEFINE names == toRead[t]
<1>2. /\ cmdPc[t] = "read" /\ cmdPc'[t] = "read" /\ names # <<>> /\ toRead'[t] = Tail(names)
      /\ response'[t] = response[t] \cup ({Head(names)} \cap enabled)
      /\ UNCHANGED <<enabled, cmdKind, toSet, command, since>>
      /\ LogArrays' /\ \A u \in Commanders \ {t} : SameCommand(u) /\ since'[u] = since[u]
  BY <1>1 DEF ReadSwitch, LogArrays, SameCommand, cmdRest
<1>3. names \in Seq(Names) /\ \A i, j \in 1..Len(names) : names[i] = names[j] => i = j
  BY <1>1 DEF CommandInv, CommandTypes, CommandOK
<1> HIDE DEF names
<1>4. /\ Len(names) \in Nat \ {0} /\ Head(names) = names[1]
      /\ Tail(names) \in Seq(Names) /\ Len(Tail(names)) = Len(names) - 1
      /\ \A i \in 1..Len(Tail(names)) : Tail(names)[i] = names[i + 1]
  BY <1>2, <1>3, HeadTailProperties
<1>5. \A i, j \in 1..Len(Tail(names)) : Tail(names)[i] = Tail(names)[j] => i = j
  BY <1>3, <1>4
<1>6. CommandTypes(t)'
  <2>1. CommandOK("read", cmdKind[t], command[t], toSet[t], names, response[t])
    BY <1>1, <1>2 DEF CommandTypes, CommandInv, names
  <2>2. CommandOK("read", cmdKind[t], command[t], toSet[t], Tail(names), response'[t])
    BY <1>4, <1>5, <2>1 DEF CommandOK
  <2> QED BY <1>2, <2>2 DEF CommandTypes
<1>7. ASSUME NEW name \in Names, InTable(name, cmdKind[t]) PROVE SetSoFar(t, name)' /\ ReadSoFar(t, name)'
  <2>1. SetSoFar(t, name)' 
    BY <1>1, <1>2, <1>7 DEF CommandInv, SetSoFar
  <2>2. ReadOK("read", names, name, name \in since[t], name \in enabled, name \in response[t])
    BY <1>1, <1>2, <1>7 DEF CommandInv, ReadSoFar, names
  <2>3. (\E i \in 1..Len(names) : names[i] = name) <=>
          (name = names[1] \/ \E i \in 1..Len(Tail(names)) : Tail(names)[i] = name)
    <3>1. ASSUME NEW i \in 1..Len(names), names[i] = name
          PROVE name = names[1] \/ \E j \in 1..Len(Tail(names)) : Tail(names)[j] = name
      <4>1. CASE i = 1
        BY <3>1, <4>1
      <4>2. CASE i # 1
        <5>1. i - 1 \in 1..Len(Tail(names)) /\ Tail(names)[i - 1] = name
          BY <1>4, <3>1, <4>2
        <5> QED BY <5>1
      <4> QED BY <4>1, <4>2
    <3>2. ASSUME NEW j \in 1..Len(Tail(names)), Tail(names)[j] = name
          PROVE \E i \in 1..Len(names) : names[i] = name
      <4>1. j + 1 \in 1..Len(names) /\ names[j + 1] = name
        BY <1>4, <3>2
      <4> QED BY <4>1
    <3>3. 1 \in 1..Len(names)
      BY <1>4
    <3> QED BY <3>1, <3>2, <3>3
  <2>4. \A i \in 1..Len(Tail(names)) : Tail(names)[i] # names[1]
    BY <1>3, <1>4
  <2>5. ReadOK("read", Tail(names), name, name \in since[t], name \in enabled, name \in response'[t])
    BY <1>2, <1>4, <2>2, <2>3, <2>4 DEF ReadOK
  <2>6. ReadSoFar(t, name)'
    BY <1>2, <2>5 DEF ReadSoFar
  <2> QED BY <2>1, <2>6
<1> QED BY <1>1, <1>2, <1>6, <1>7, OtherStep DEF CommandInv

\* One entry is processed (logcmds.c, logpkgcmds.c, csvrtns.c).
LEMMA EntryInv == ASSUME LogInv, NEW t \in Commanders, NEW kind, ProcEntry(t, kind) PROVE LogInv'
<1> DEFINE cmd == command[t]
           es == toSet[t]
           n == Len(cmd) - Len(es)
           e == Head(es)
<1>1. LogArrays /\ CommandInv(t)
  BY DEF LogInv
<1>2. /\ cmdPc[t] = "set" /\ cmdKind[t] = kind /\ es # <<>> /\ toSet'[t] = Tail(es)
      /\ UNCHANGED <<cmdPc, cmdKind, command, toRead, response>>
      /\ enabled' = SetSwitch(e.on, e.name, kind)
      /\ since' = IF ~Known(e.name, kind) THEN since
                  ELSE [u \in Commanders |-> IF u = t THEN since[t] \ {e.name} ELSE since[u] \cup {e.name}]
      /\ LogArrays' /\ \A u \in Commanders \ {t} : SameCommand(u)
  BY <1>1 DEF ProcEntry, LogArrays, SameCommand, cmdRest
<1>3. /\ kind \in {"LOG", "PKG"} /\ cmd \in Seq(Settings) /\ es \in Seq(Settings) /\ Len(es) <= Len(cmd)
      /\ \A i \in 1..Len(es) : es[i] = cmd[n + i]
  BY <1>1, <1>2 DEF CommandInv, CommandTypes, CommandOK
<1>4. \A name : Known(name, kind) <=> InTable(name, kind)
  BY <1>3, TablesRead DEF Known, LoglvlFromChar, LogPkgFromStr
<1> HIDE DEF cmd, es
<1>5. /\ Len(es) \in Nat \ {0} /\ e = es[1] /\ Tail(es) \in Seq(Settings) /\ Len(Tail(es)) = Len(es) - 1
      /\ \A i \in 1..Len(Tail(es)) : Tail(es)[i] = es[i + 1]
  BY <1>2, <1>3, HeadTailProperties
<1>6. /\ n \in Nat /\ n + 1 \in 1..Len(cmd) /\ e = cmd[n + 1]
      /\ Len(cmd) - Len(Tail(es)) = n + 1 /\ Len(cmd) \in Nat
      /\ cmd[n + 1] \in Settings
  BY <1>3, <1>5
<1>7. e.on \in BOOLEAN
  BY <1>6, LoggingAssumption DEF LoggingAssumption
<1> HIDE DEF e
<1>8. /\ InTable(e.name, kind) => (e.name \in enabled' <=> e.on = TRUE)
      /\ \A name : name # e.name => (name \in enabled' <=> name \in enabled)
      /\ ~InTable(e.name, kind) => enabled' = enabled /\ since' = since
  BY <1>2, <1>4, <1>7 DEF SetSwitch
<1>9. \A u \in Commanders \ {t} : CommandInv(u)'
  <2> SUFFICES ASSUME NEW u \in Commanders \ {t} PROVE CommandInv(u)'
    OBVIOUS
  <2>1. \/ UNCHANGED enabled /\ since'[u] = since[u]
        \/ since'[u] = since[u] \cup {e.name}
           /\ \A name \in Names \ {e.name} : name \in enabled' <=> name \in enabled
    BY <1>2, <1>4, <1>8
  <2> QED BY <1>2, <2>1, OthersCommand
<1>10. CommandTypes(t)'
  <2>1. CommandOK("set", kind, cmd, es, toRead[t], response[t])
    BY <1>1, <1>2 DEF CommandTypes, CommandInv, cmd, es
  <2>2. \A i \in 1..Len(Tail(es)) : Tail(es)[i] = cmd[Len(cmd) - Len(Tail(es)) + i]
    <3> SUFFICES ASSUME NEW i \in 1..Len(Tail(es)) PROVE Tail(es)[i] = cmd[Len(cmd) - Len(Tail(es)) + i]
      OBVIOUS
    <3>1. i + 1 \in 1..Len(es) /\ n + (i + 1) = Len(cmd) - Len(Tail(es)) + i
      BY <1>5, <1>6
    <3> QED BY <1>3, <1>5, <3>1
  <2>3. CommandOK("set", kind, cmd, Tail(es), toRead[t], response[t])
    BY <1>3, <1>5, <2>1, <2>2 DEF CommandOK
  <2> QED BY <1>2, <2>3 DEF CommandTypes, cmd
<1>11. ASSUME NEW name \in Names, InTable(name, cmdKind[t]) PROVE SetSoFar(t, name)' /\ ReadSoFar(t, name)'
  <2>1. SetOK(cmd, n, name, name \in since[t], name \in enabled)
          /\ ReadOK("set", toRead[t], name, name \in since[t], name \in enabled, name \in response[t])
    BY <1>1, <1>2, <1>11 DEF CommandInv, SetSoFar, ReadSoFar, cmd, es
  <2>2. ReadSoFar(t, name)'
    BY <1>2, <2>1 DEF ReadSoFar, ReadOK
  <2>3. SetOK(cmd, n + 1, name, name \in since'[t], name \in enabled')
    <3>1. CASE e.name = name
      <4>1. LastEntry(cmd, n + 1, name, n + 1)
        BY <1>6, <3>1 DEF LastEntry
      <4>2. name \in enabled' <=> cmd[n + 1].on = TRUE
        BY <1>2, <1>6, <1>8, <1>11, <3>1
      <4> QED BY <1>6, <4>1, <4>2 DEF SetOK
    <3>2. CASE e.name # name
      <4>1. (name \in since'[t] <=> name \in since[t]) /\ (name \in enabled' <=> name \in enabled)
        BY <1>2, <1>8, <3>2
      <4>2. CASE \A i \in 1..n : cmd[i].name # name
        BY <1>6, <3>2, <4>2 DEF SetOK
      <4>3. ASSUME NEW i \in 1..n, LastEntry(cmd, n, name, i),
                    name \in since[t] \/ (name \in enabled <=> cmd[i].on = TRUE)
            PROVE  SetOK(cmd, n + 1, name, name \in since'[t], name \in enabled')
        <5>1. i \in 1..(n + 1) /\ LastEntry(cmd, n + 1, name, i)
          BY <1>6, <3>2, <4>3 DEF LastEntry
        <5> QED BY <4>1, <4>3, <5>1 DEF SetOK
      <4> QED BY <2>1, <4>2, <4>3 DEF SetOK
    <3> QED BY <3>1, <3>2
  <2>4. SetSoFar(t, name)'
    BY <1>2, <1>6, <2>3 DEF SetSoFar, cmd
  <2> QED BY <2>2, <2>4
<1>12. ASSUME NEW name \in Names PROVE Untouched(name)'
  <2>1. CASE name = e.name /\ InTable(name, kind)
    <3>1. Mentioned(cmd, name)
      BY <1>6, <2>1 DEF Mentioned
    <3> QED BY <1>2, <2>1, <3>1 DEF Untouched, cmd
  <2>2. CASE ~(name = e.name /\ InTable(name, kind))
    <3>1. name \in enabled' <=> name \in enabled
      BY <1>8, <2>2
    <3> QED BY <1>2, <3>1 DEF LogInv, Untouched
  <2> QED BY <2>1, <2>2
<1> QED BY <1>2, <1>9, <1>10, <1>11, <1>12 DEF LogInv, CommandInv

\* Every step of a thread keeps LogInv.
LEMMA LoggingNextInv == LogInv /\ [LoggingNext]_loggingVars => LogInv'
<1> SUFFICES ASSUME LogInv, [LoggingNext]_loggingVars PROVE LogInv'
  OBVIOUS
<1>1. ASSUME NEW t \in Commanders, CommandStep(t) PROVE LogInv'
  BY <1>1, CmdProcInv, InfoInv, ReadInv, EntryInv DEF CommandStep, LogCmdsProc, LogPkgCmdsProc,
     LogLvlsInfo, LogPkgInfo
<1>2. CASE UNCHANGED loggingVars
  <2>1. UNCHANGED <<enabled, cmdPc, cmdKind, toSet, toRead, response, command, since>>
    BY <1>2 DEF loggingVars
  <2>2. \A u \in Commanders : CommandInv(u)'
    BY <2>1 DEF LogInv, CommandInv, CommandTypes, SetSoFar, ReadSoFar
  <2> QED BY <2>1, <2>2 DEF LogInv, LogArrays, Untouched
<1> QED BY <1>1, <1>2 DEF LoggingNext

\* What CommandOK says of the entries.
LEMMA CommandFacts ==
    ASSUME NEW pc, NEW kind, NEW cmd, NEW es, NEW names, NEW shown, CommandOK(pc, kind, cmd, es, names, shown)
    PROVE  /\ kind \in {"LOG", "PKG"} /\ cmd \in Seq(Settings) /\ DOMAIN cmd = 1..Len(cmd) /\ Len(cmd) \in Nat
           /\ pc = "answered" => es = <<>> /\ names = <<>>
BY DEF CommandOK

\* A response shows what its command has set.
LEMMA ResponseShows == LogInv => CommandTakesEffect
<1> SUFFICES ASSUME LogInv, NEW name \in ToSet(Table("LOG")) \cup ToSet(Table("PKG"))
             PROVE  /\ \A t \in Commanders :
                           /\ cmdPc[t] = "answered" /\ name \in ToSet(Table(cmdKind[t])) \ since[t]
                           /\ Mentions(t, name) # {}
                           => (name \in response[t]) = LastSays(t, name)
                    /\ (\A t \in Commanders : Mentions(t, name) = {} \/ name \notin ToSet(Table(cmdKind[t])))
                           => (name \in enabled) = (name \in Default)
  BY DEF CommandTakesEffect
<1>1. name \in Names
  BY TablesRead DEF InTable
<1>2. \A t \in Commanders : /\ CommandInv(t) /\ cmdKind[t] \in {"LOG", "PKG"}
                            /\ command[t] \in Seq(Settings) /\ DOMAIN command[t] = 1..Len(command[t])
                            /\ Len(command[t]) \in Nat
                            /\ cmdPc[t] = "answered" => toSet[t] = <<>> /\ toRead[t] = <<>>
  BY CommandFacts DEF LogInv, CommandInv, CommandTypes
<1>3. ASSUME NEW t \in Commanders, cmdPc[t] = "answered", name \in ToSet(Table(cmdKind[t])) \ since[t],
             Mentions(t, name) # {}
      PROVE  (name \in response[t]) = LastSays(t, name)
  <2> DEFINE n == Len(command[t])
  <2>1. toSet[t] = <<>> /\ toRead[t] = <<>> /\ n \in Nat
    BY <1>2, <1>3
  <2>2. InTable(name, cmdKind[t])
    BY <1>2, <1>3, TablesRead
  <2>3. SetOK(command[t], n, name, FALSE, name \in enabled)
          /\ ReadOK("answered", <<>>, name, FALSE, name \in enabled, name \in response[t])
    <3>1. n - Len(<<>>) = n /\ name \notin since[t]
      BY <1>3, <2>1
    <3>2. SetSoFar(t, name) /\ ReadSoFar(t, name)
      BY <1>1, <1>2, <2>2 DEF CommandInv
    <3>3. ReadOK("answered", <<>>, name, name \in since[t], name \in enabled, name \in response[t])
      BY <1>3, <2>1, <3>2 DEF ReadSoFar
    <3>4. SetOK(command[t], n, name, name \in since[t], name \in enabled)
      BY <2>1, <3>1, <3>2 DEF SetSoFar
    <3> QED BY <3>1, <3>3, <3>4 DEF SetOK, ReadOK
  <2>4. name \in response[t] <=> name \in enabled
    BY <2>3 DEF ReadOK
  <2>5. PICK i \in 1..n : LastEntry(command[t], n, name, i) /\ (name \in enabled <=> command[t][i].on = TRUE)
    BY <1>2, <1>3, <2>3 DEF SetOK, Mentions
  <2>6. i \in Mentions(t, name) /\ \A j \in Mentions(t, name) : j <= i
    BY <1>2, <2>5 DEF Mentions, LastEntry
  <2>7. (CHOOSE k \in Mentions(t, name) : \A j \in Mentions(t, name) : j <= k) = i
    <3>1. \A k \in Mentions(t, name) : (\A j \in Mentions(t, name) : j <= k) => k = i
      BY <1>2, <2>6 DEF Mentions
    <3> QED BY <2>6, <3>1
  <2>8. command[t][i].on \in BOOLEAN
    BY <1>2, <2>5, LoggingAssumption DEF LoggingAssumption
  <2>9. LastSays(t, name) = command[t][i].on
    BY <2>7 DEF LastSays
  <2> QED BY <2>4, <2>5, <2>8, <2>9
<1>4. ASSUME \A t \in Commanders : Mentions(t, name) = {} \/ name \notin ToSet(Table(cmdKind[t]))
      PROVE  (name \in enabled) = (name \in Default)
  <2>1. \A t \in Commanders : ~(InTable(name, cmdKind[t]) /\ Mentioned(command[t], name))
    BY <1>2, <1>4, TablesRead DEF Mentions, Mentioned
  <2> QED BY <1>1, <2>1 DEF LogInv, Untouched
<1> QED BY <1>3, <1>4

\* A response shows what its command has set, for any number of threads that process
\* commands side by side without a lock (logcmds.c:29-71, logpkgcmds.c:30-66).
THEOREM CommandsTakeEffect == LoggingSpec => []CommandTakesEffect
<1>1. LoggingSpec => []LogInv
  BY LoggingInitInv, LoggingNextInv, PTL DEF LoggingSpec
<1> QED BY <1>1, ResponseShows, PTL

-----------------------------------------------------------------------------
(***************************************************************************)
(* Induction over the natural numbers, for a set.                          *)
(***************************************************************************)
Less == {ss \in Nat \X Nat : ss[1] < ss[2]}

LEMMA LessWellFounded == IsWellFoundedOn(Less, Nat)
BY NatLessThanWellFounded DEF OpToRel, Less

\* A set of numbers that is not empty has a least element.
LEMMA LeastNumber ==
    ASSUME NEW S \in SUBSET Nat, S # {}
    PROVE  \E n \in S : \A m \in S : n <= m
<1>1. PICK n \in S : \A m \in S : <<m, n>> \notin Less
  BY LessWellFounded, WFMin
<1>2. ASSUME NEW m \in S, ~(n <= m) PROVE FALSE
  <2>1. <<m, n>> \in Less
    BY <1>2 DEF Less
  <2> QED BY <2>1, <1>1
<1> QED BY <1>2

\* A set that has 0, and with a number the next one, has all of them.
LEMMA SetInduction ==
    ASSUME NEW S, 0 \in S, \A n \in Nat : n \in S => n + 1 \in S
    PROVE  \A n \in Nat : n \in S
<1> SUFFICES ASSUME NEW k \in Nat, k \notin S PROVE FALSE
  OBVIOUS
<1>1. PICK n \in Nat \ S : \A m \in Nat \ S : n <= m
  <2>1. Nat \ S \in SUBSET Nat /\ Nat \ S # {}
    OBVIOUS
  <2> QED BY <2>1, LeastNumber
<1>2. n # 0 /\ n - 1 \in Nat /\ n - 1 \in S
  BY <1>1
<1> QED BY <1>1, <1>2

\* The same up to a number.
LEMMA SetInductionUpTo ==
    ASSUME NEW N \in Nat, NEW S, 0 \in S, \A n \in 0..(N - 1) : n \in S => n + 1 \in S
    PROVE  \A n \in 0..N : n \in S
<1> DEFINE T == {n \in Nat : n <= N => n \in S}
<1>1. 0 \in T
  OBVIOUS
<1>2. \A n \in Nat : n \in T => n + 1 \in T
  OBVIOUS
<1>3. \A n \in Nat : n \in T
  <2> HIDE DEF T
  <2> QED BY <1>1, <1>2, SetInduction
<1> QED BY <1>3

\* Two functions that begin alike and go on alike are alike.
GoAlike(f, g, N) == f[0] = g[0] /\ \A n \in 0..(N - 1) : f[n] = g[n] => f[n + 1] = g[n + 1]
Alike(f, g, N) == \A n \in 0..N : f[n] = g[n]

LEMMA SameRecursion ==
    ASSUME NEW N \in Nat, NEW f, NEW g, GoAlike(f, g, N)
    PROVE  Alike(f, g, N)
<1> DEFINE S == {n \in Nat : f[n] = g[n]}
<1>1. 0 \in S /\ \A n \in 0..(N - 1) : n \in S => n + 1 \in S
  BY DEF GoAlike
<1>2. \A n \in 0..N : n \in S
  <2> HIDE DEF S
  <2> QED BY <1>1, SetInductionUpTo
<1> QED BY <1>2 DEF Alike

-----------------------------------------------------------------------------
(***************************************************************************)
(* The check sum of a card number (ccchecksum.c).                          *)
(***************************************************************************)
\* A function that is given by its value at 0 and by the step from n - 1 to n exists.
Steps(f, a, step, N) == f = [n \in 0..N |-> IF n = 0 THEN a ELSE step[n][f[n - 1]]]

LEMMA StepsExist ==
    ASSUME NEW V, NEW a \in V, NEW M \in Nat, NEW step,
           \A n \in 1..M : \A v \in V : step[n][v] \in V
    PROVE  \E f \in [0..M -> V] : Steps(f, a, step, M)
<1> DEFINE S == {N \in Nat : N <= M => \E f \in [0..N -> V] : Steps(f, a, step, N)}
<1>1. 0 \in S
  <2> DEFINE f == [n \in 0..0 |-> a]
  <2>1. f \in [0..0 -> V] /\ Steps(f, a, step, 0)
    BY DEF Steps
  <2> QED BY <2>1
<1>2. ASSUME NEW N \in Nat, N \in S, N + 1 <= M PROVE \E f \in [0..(N + 1) -> V] : Steps(f, a, step, N + 1)
  <2>1. PICK f \in [0..N -> V] : Steps(f, a, step, N)
    BY <1>2
  <2> DEFINE g == [n \in 0..(N + 1) |-> IF n <= N THEN f[n] ELSE step[N + 1][f[N]]]
  <2>2. N + 1 \in 1..M /\ f[N] \in V /\ step[N + 1][f[N]] \in V
    BY <1>2
  <2>3. g \in [0..(N + 1) -> V]
    BY <2>2
  <2>4. ASSUME NEW n \in 0..(N + 1) PROVE g[n] = IF n = 0 THEN a ELSE step[n][g[n - 1]]
    <3>1. CASE n = 0
      BY <2>1, <3>1 DEF Steps
    <3>2. CASE n \in 1..N
      <4>1. n # 0 /\ n \in 0..N /\ n - 1 \in 0..N /\ g[n] = f[n] /\ g[n - 1] = f[n - 1]
        BY <3>2
      <4>2. f[n] = step[n][f[n - 1]]
        BY <2>1, <4>1 DEF Steps
      <4> QED BY <4>1, <4>2
    <3>3. CASE n = N + 1
      <4>1. n # 0 /\ n - 1 = N /\ g[n - 1] = f[N] /\ g[n] = step[N + 1][f[N]]
        BY <3>3
      <4> QED BY <3>3, <4>1
    <3> QED BY <3>1, <3>2, <3>3
  <2>5. Steps(g, a, step, N + 1)
    BY <2>4 DEF Steps
  <2> QED BY <2>3, <2>5
<1>3. \A N \in Nat : N \in S => N + 1 \in S
  BY <1>2
<1>4. M \in S
  <2> HIDE DEF S
  <2> QED BY <1>1, <1>3, SetInduction
<1> QED BY <1>4

\* Two functions with the same steps over a stretch keep their difference.
LEMMA SameStretch ==
    ASSUME NEW N \in Nat, NEW m \in 0..N, NEW k \in 0..m,
           NEW f \in [0..N -> Int], NEW g \in [0..N -> Int],
           \A n \in (k + 1)..m : f[n] - f[n - 1] = g[n] - g[n - 1]
    PROVE  f[m] - g[m] = f[k] - g[k]
<1> DEFINE h == [n \in 0..N |-> f[n] - g[n]]
           S == {i \in Nat : \A n \in k..m : n = k + i => h[n] = h[k]}
<1>1. 0 \in S
  OBVIOUS
<1>2. ASSUME NEW n \in (k + 1)..m PROVE h[n] = h[n - 1]
  <2>1. n \in 0..N /\ n - 1 \in 0..N
    OBVIOUS
  <2>2. PICK a, b, c, d \in Int : a = f[n] /\ b = f[n - 1] /\ c = g[n] /\ d = g[n - 1]
    BY <2>1
  <2>3. a - b = c - d
    BY <2>2
  <2>4. a - c = b - d
    BY <2>3
  <2> QED BY <2>1, <2>2, <2>4
<1> HIDE DEF h
<1>3. ASSUME NEW i \in Nat, i \in S, NEW n \in k..m, n = k + (i + 1)
      PROVE  h[n] = h[k]
  <2>1. n \in (k + 1)..m /\ n - 1 \in k..m /\ n - 1 = k + i
    BY <1>3
  <2>2. h[n - 1] = h[k]
    BY <1>3, <2>1
  <2> HIDE DEF S
  <2> QED BY <1>2, <2>1, <2>2
<1>4. \A i \in Nat : i \in S => i + 1 \in S
  BY <1>3
<1>5. \A i \in Nat : i \in S
  <2> HIDE DEF S
  <2> QED BY <1>1, <1>4, SetInduction
<1>6. m \in k..m /\ \E i \in Nat : m = k + i
  <2>1. m - k \in Nat /\ m = k + (m - k)
    OBVIOUS
  <2> QED BY <2>1
<1>7. h[m] = h[k]
  BY <1>5, <1>6
<1>8. m \in 0..N /\ k \in 0..N
  OBVIOUS
<1> QED BY <1>7, <1>8 DEF h

IsCardSum(f, ccNo) ==
    f = [n \in 0..Len(ccNo) |-> IF n = 0 THEN 0 ELSE f[n - 1] + ValueFromEnd(ccNo, n)]

LEMMA ValueBound ==
    ASSUME NEW ccNo \in Seq(0..9), NEW n \in 1..Len(ccNo)
    PROVE  FromEnd(ccNo, n) \in 0..9 /\ ValueFromEnd(ccNo, n) \in 0..9
<1>1. Len(ccNo) + 1 - n \in 1..Len(ccNo)
  OBVIOUS
<1>2. FromEnd(ccNo, n) \in 0..9
  BY <1>1 DEF FromEnd
<1> QED BY <1>2 DEF ValueFromEnd, Doubled

LEMMA CardSums ==
    ASSUME NEW ccNo \in Seq(0..9)
    PROVE  \E f \in [0..Len(ccNo) -> Int] :
              /\ f[0] = 0
              /\ \A n \in 1..Len(ccNo) : f[n] = f[n - 1] + ValueFromEnd(ccNo, n)
              /\ CardSum(ccNo) = f[Len(ccNo)]
<1> DEFINE N == Len(ccNo)
           step == [n \in 1..N |-> [v \in Int |-> v + ValueFromEnd(ccNo, n)]]
<1>1. N \in Nat /\ \A n \in 1..N : \A v \in Int : step[n][v] \in Int
  BY ValueBound
<1>2. PICK f \in [0..N -> Int] : Steps(f, 0, step, N)
  <2> HIDE DEF step, N
  <2>1. 0 \in Int
    OBVIOUS
  <2>2. \A n \in 1..N : \A v \in Int : step[n][v] \in Int
    BY <1>1
  <2> QED BY <1>1, <2>1, <2>2, StepsExist
<1>3. f[0] = 0 /\ \A n \in 1..N : f[n] = f[n - 1] + ValueFromEnd(ccNo, n)
  <2>1. f[0] = 0
    BY <1>1, <1>2 DEF Steps
  <2>2. ASSUME NEW n \in 1..N PROVE f[n] = f[n - 1] + ValueFromEnd(ccNo, n)
    <3>1. n \in 0..N /\ n # 0 /\ n - 1 \in 0..N
      BY <1>1
    <3>3. f[n - 1] \in Int
      BY <1>2, <3>1
    <3>2. f[n] = step[n][f[n - 1]]
      BY <1>2, <3>1 DEF Steps
    <3> QED BY <3>1, <3>2, <3>3
  <2> QED BY <2>1, <2>2
<1>4. IsCardSum(f, ccNo)
  <2>1. \A n \in 0..N : f[n] = IF n = 0 THEN 0 ELSE f[n - 1] + ValueFromEnd(ccNo, n)
    BY <1>3
  <2> QED BY <2>1 DEF IsCardSum
<1> DEFINE g == CHOOSE h : IsCardSum(h, ccNo)
<1>5. IsCardSum(g, ccNo)
  BY <1>4
<1>6. CardSum(ccNo) = g[N]
  BY DEF CardSum, IsCardSum
<1> HIDE DEF g
<1>7. f[0] = g[0] /\ \A n \in 0..(N - 1) : f[n] = g[n] => f[n + 1] = g[n + 1]
  <2>1. f[0] = g[0]
    BY <1>1, <1>3, <1>5 DEF IsCardSum
  <2>2. ASSUME NEW n \in 0..(N - 1), f[n] = g[n] PROVE f[n + 1] = g[n + 1]
    <3>1. n + 1 \in 0..N /\ n + 1 \in 1..N /\ n + 1 # 0 /\ (n + 1) - 1 = n
      BY <1>1
    <3>2. f[n + 1] = f[n] + ValueFromEnd(ccNo, n + 1)
      BY <1>3, <3>1
    <3>3. g[n + 1] = g[n] + ValueFromEnd(ccNo, n + 1)
      BY <1>5, <3>1 DEF IsCardSum
    <3> QED BY <2>2, <3>2, <3>3
  <2> QED BY <2>1, <2>2
<1>8. f[N] = g[N]
  <2>1. GoAlike(f, g, N)
    BY <1>7 DEF GoAlike
  <2>2. Alike(f, g, N)
    BY <1>1, <2>1, SameRecursion
  <2> QED BY <1>1, <2>2 DEF Alike
<1> QED BY <1>2, <1>3, <1>6, <1>8

\* A zero in front of the number is a digit more at the end of the sum, that adds nothing.
LEMMA LeadingZero ==
    ASSUME NEW ccNo \in Seq(0..9)
    PROVE  CardSum(<<0>> \o ccNo) = CardSum(ccNo)
<1> DEFINE N == Len(ccNo)
           long == <<0>> \o ccNo
<1>1. N \in Nat /\ long \in Seq(0..9) /\ Len(long) = N + 1
  OBVIOUS
<1>2. \A i \in 1..(N + 1) : long[i] = IF i = 1 THEN 0 ELSE ccNo[i - 1]
  OBVIOUS
<1>3. PICK f \in [0..N -> Int] :
          /\ f[0] = 0
          /\ \A n \in 1..N : f[n] = f[n - 1] + ValueFromEnd(ccNo, n)
          /\ CardSum(ccNo) = f[N]
  BY CardSums
<1>4. PICK g \in [0..(N + 1) -> Int] :
          /\ g[0] = 0
          /\ \A n \in 1..(N + 1) : g[n] = g[n - 1] + ValueFromEnd(long, n)
          /\ CardSum(long) = g[N + 1]
  <2> HIDE DEF long
  <2> QED BY <1>1, CardSums
<1> HIDE DEF long
<1>5. ASSUME NEW n \in 1..N PROVE ValueFromEnd(long, n) = ValueFromEnd(ccNo, n)
  <2>1. N + 2 - n \in 2..(N + 1) /\ (N + 2 - n) - 1 = N + 1 - n
    BY <1>1
  <2>2. Len(long) + 1 - n = N + 2 - n
    BY <1>1
  <2>3. long[N + 2 - n] = ccNo[N + 1 - n]
    BY <1>2, <2>1
  <2> QED BY <2>2, <2>3 DEF ValueFromEnd, FromEnd
<1>6. ValueFromEnd(long, N + 1) = 0
  <2>1. Len(long) + 1 - (N + 1) = 1 /\ 1 \in 1..(N + 1)
    BY <1>1
  <2>2. FromEnd(long, N + 1) = 0
    BY <1>2, <2>1 DEF FromEnd
  <2> QED BY <2>2 DEF ValueFromEnd, Doubled
<1>7. f[0] = g[0] /\ \A n \in 0..(N - 1) : f[n] = g[n] => f[n + 1] = g[n + 1]
  <2>1. ASSUME NEW n \in 0..(N - 1), f[n] = g[n] PROVE f[n + 1] = g[n + 1]
    <3>1. n + 1 \in 1..N /\ n + 1 \in 1..(N + 1) /\ (n + 1) - 1 = n
      BY <1>1
    <3>2. f[n + 1] = f[n] + ValueFromEnd(ccNo, n + 1)
      BY <1>3, <3>1
    <3>3. g[n + 1] = g[n] + ValueFromEnd(long, n + 1)
      BY <1>4, <3>1
    <3> QED BY <1>5, <2>1, <3>1, <3>2, <3>3
  <2> QED BY <1>3, <1>4, <2>1
<1>8. f[N] = g[N]
  <2>1. GoAlike(f, g, N)
    BY <1>7 DEF GoAlike
  <2>2. Alike(f, g, N)
    BY <1>1, <2>1, SameRecursion
  <2> QED BY <1>1, <2>2 DEF Alike
<1>9. g[N + 1] = g[N] + 0
  <2>1. N + 1 \in 1..(N + 1) /\ (N + 1) - 1 = N
    BY <1>1
  <2> QED BY <1>4, <1>6, <2>1
<1>10. g[N] \in Int
  BY <1>1
<1>11. CardSum(long) = CardSum(ccNo)
  BY <1>3, <1>4, <1>8, <1>9, <1>10
<1> QED BY <1>11 DEF long

\* Two numbers that are both valid differ in their sums by a multiple of 10.
LEMMA BothValid ==
    ASSUME NEW a \in Int, NEW b \in Int, a % 10 = 0, b % 10 = 0, a - b < 10, b - a < 10
    PROVE  a = b
OBVIOUS

\* What a digit counts at a place from the end.
Counts(n, digit) == IF n % 2 = 0 THEN Doubled(digit) ELSE digit

\* When one digit changes, the sum changes by what that digit counts.
LEMMA OneDigit ==
    ASSUME NEW ccNo \in Seq(0..9), NEW i \in 1..Len(ccNo), NEW d \in 0..9
    PROVE  LET p == Len(ccNo) + 1 - i  other == [ccNo EXCEPT ![i] = d] IN
           /\ other \in Seq(0..9) /\ Len(other) = Len(ccNo)
           /\ CardSum(ccNo) \in Int /\ CardSum(other) \in Int
           /\ CardSum(ccNo) - CardSum(other) = Counts(p, ccNo[i]) - Counts(p, d)
<1> DEFINE N == Len(ccNo)
           other == [ccNo EXCEPT ![i] = d]
           p == N + 1 - i
<1>1. N \in Nat /\ other \in Seq(0..9) /\ Len(other) = N /\ p \in 1..N /\ N + 1 - p = i
  OBVIOUS
<1>2. \A j \in 1..N : other[j] = IF j = i THEN d ELSE ccNo[j]
  OBVIOUS
<1>3. PICK f \in [0..N -> Int] :
          /\ f[0] = 0
          /\ \A n \in 1..N : f[n] = f[n - 1] + ValueFromEnd(ccNo, n)
          /\ CardSum(ccNo) = f[N]
  BY CardSums
<1>4. PICK g \in [0..N -> Int] :
          /\ g[0] = 0
          /\ \A n \in 1..N : g[n] = g[n - 1] + ValueFromEnd(other, n)
          /\ CardSum(other) = g[N]
  <2>1. \E g \in [0..Len(other) -> Int] :
          /\ g[0] = 0
          /\ \A n \in 1..Len(other) : g[n] = g[n - 1] + ValueFromEnd(other, n)
          /\ CardSum(other) = g[Len(other)]
    <3> HIDE DEF other
    <3> QED BY <1>1, CardSums
  <2> HIDE DEF other
  <2> QED BY <1>1, <2>1
<1>5. ccNo[i] \in 0..9
  OBVIOUS
<1> HIDE DEF other, p
<1>6. ASSUME NEW n \in 1..N, n # p PROVE ValueFromEnd(other, n) = ValueFromEnd(ccNo, n)
  <2>1. N + 1 - n \in 1..N /\ N + 1 - n # i
    BY <1>1, <1>6
  <2>2. other[N + 1 - n] = ccNo[N + 1 - n]
    BY <1>2, <2>1
  <2> QED BY <1>1, <2>2 DEF ValueFromEnd, FromEnd
<1>7. ValueFromEnd(other, p) = Counts(p, d) /\ ValueFromEnd(ccNo, p) = Counts(p, ccNo[i])
  <2>1. FromEnd(other, p) = d /\ FromEnd(ccNo, p) = ccNo[i]
    BY <1>1, <1>2 DEF FromEnd
  <2> QED BY <2>1 DEF ValueFromEnd, Counts
<1>8. \A n \in 1..N : f[n] \in Int /\ f[n - 1] \in Int /\ g[n] \in Int /\ g[n - 1] \in Int
  <2>1. \A n \in 1..N : n - 1 \in 0..N /\ n \in 0..N
    BY <1>1
  <2> QED BY <2>1
<1>9. ASSUME NEW n \in 1..N, n # p PROVE f[n] - f[n - 1] = g[n] - g[n - 1]
  <2>1. ValueFromEnd(ccNo, n) \in 0..9
    BY ValueBound
  <2>2. f[n] = f[n - 1] + ValueFromEnd(ccNo, n) /\ g[n] = g[n - 1] + ValueFromEnd(ccNo, n)
    BY <1>3, <1>4, <1>6, <1>9
  <2>3. \A a, b, c, e, v \in Int : a = b + v /\ c = e + v => a - b = c - e
    OBVIOUS
  <2>4. ValueFromEnd(ccNo, n) \in Int
    BY <2>1
  <2> QED BY <1>8, <2>2, <2>3, <2>4
<1>10. f[N] - g[N] = f[p] - g[p]
  <2>1. N \in 0..N /\ p \in 0..N /\ \A n \in (p + 1)..N : f[n] - f[n - 1] = g[n] - g[n - 1]
    BY <1>1, <1>9
  <2> HIDE DEF N
  <2> QED BY ZenonT(60), <1>1, <2>1, SameStretch
<1>11. f[p - 1] = g[p - 1]
  <2>1. p - 1 \in 0..N /\ 0 \in 0..(p - 1) /\ \A n \in (0 + 1)..(p - 1) : n \in 1..N /\ n # p
    BY <1>1
  <2>2. \A n \in (0 + 1)..(p - 1) : f[n] - f[n - 1] = g[n] - g[n - 1]
    BY <1>9, <2>1
  <2> HIDE DEF N
  <2>3. f[p - 1] - g[p - 1] = f[0] - g[0]
    <3> DEFINE m == p - 1
    <3>1. m \in 0..N /\ 0 \in 0..m /\ \A n \in (0 + 1)..m : f[n] - f[n - 1] = g[n] - g[n - 1]
      BY <2>1, <2>2
    <3> HIDE DEF m
    <3>2. f[m] - g[m] = f[0] - g[0]
      BY <1>1, <3>1, SameStretch
    <3> QED BY <3>2 DEF m
  <2>4. PICK a, b \in Int : a = f[p - 1] /\ b = g[p - 1]
    BY <2>1
  <2>5. a - b = 0
    BY <1>3, <1>4, <2>3, <2>4
  <2> QED BY <2>4, <2>5
<1>12. f[p] = f[p - 1] + ValueFromEnd(ccNo, p) /\ g[p] = g[p - 1] + ValueFromEnd(other, p)
  BY <1>1, <1>3, <1>4
<1>13. ValueFromEnd(ccNo, p) \in 0..9 /\ ValueFromEnd(other, p) \in 0..9
  BY <1>1, ValueBound
<1> DEFINE v == ValueFromEnd(ccNo, p)
           w == ValueFromEnd(other, p)
<1>14. f[N] - g[N] = v - w
  <2>1. f[p] \in Int /\ g[p] \in Int /\ f[p - 1] \in Int /\ v \in Int /\ w \in Int
    <3>1. v \in Int /\ w \in Int
      BY <1>13
    <3> QED BY <1>1, <1>8, <3>1
  <2> HIDE DEF v, w
  <2>2. f[p] = f[p - 1] + v /\ g[p] = f[p - 1] + w
    BY <1>11, <1>12 DEF v, w
  <2> QED BY <1>10, <2>1, <2>2
<1>15. f[N] \in Int /\ g[N] \in Int
  BY <1>1
<1>16. /\ other \in Seq(0..9) /\ Len(other) = Len(ccNo)
       /\ CardSum(ccNo) \in Int /\ CardSum(other) \in Int
       /\ CardSum(ccNo) - CardSum(other) = Counts(p, ccNo[i]) - Counts(p, d)
  <2> HIDE DEF N
  <2>1. CardSum(ccNo) - CardSum(other) = Counts(p, ccNo[i]) - Counts(p, d)
    BY <1>3, <1>4, <1>7, <1>14
  <2> QED BY <1>1, <1>3, <1>4, <1>15, <2>1 DEF N
<1> QED BY <1>16 DEF other, p, N

\* Doubling a digit tells the digits apart, and what it adds to a digit tells them
\* apart as well, 0 and 9 excepted (ccchecksum.c).
LEMMA CountsDiffer ==
    ASSUME NEW n \in Nat, NEW a \in 0..9, NEW b \in 0..9, a # b
    PROVE  /\ Counts(n, a) \in 0..9 /\ Counts(n, b) \in 0..9 /\ Counts(n, a) # Counts(n, b)
           /\ (a = 0 => b # 9) /\ (a = 9 => b # 0) =>
                (Counts(n, a) - Counts(n, b)) + (Counts(n + 1, b) - Counts(n + 1, a)) \in (-9..9) \ {0}
<1>1. Doubled(a) \in 0..9 /\ Doubled(b) \in 0..9 /\ Doubled(a) # Doubled(b)
  BY DEF Doubled
<1>2. Counts(n, a) \in 0..9 /\ Counts(n, b) \in 0..9 /\ Counts(n, a) # Counts(n, b)
  BY <1>1 DEF Counts
<1>3. (n + 1) % 2 = 0 <=> n % 2 # 0
  OBVIOUS
<1>4. ASSUME a = 0 => b # 9, a = 9 => b # 0
      PROVE  (Counts(n, a) - Counts(n, b)) + (Counts(n + 1, b) - Counts(n + 1, a)) \in (-9..9) \ {0}
  <2> DEFINE more == (Doubled(a) - a) - (Doubled(b) - b)
  <2>1. more \in (-9..9) \ {0}
    BY <1>4 DEF Doubled
  <2>2. CASE n % 2 = 0
    <3>1. Counts(n, a) = Doubled(a) /\ Counts(n, b) = Doubled(b) /\ Counts(n + 1, a) = a /\ Counts(n + 1, b) = b
      BY <1>3, <2>2 DEF Counts
    <3>2. (Doubled(a) - Doubled(b)) + (b - a) = more
      BY <1>1
    <3> QED BY <2>1, <3>1, <3>2
  <2>3. CASE n % 2 # 0
    <3>1. Counts(n, a) = a /\ Counts(n, b) = b /\ Counts(n + 1, a) = Doubled(a) /\ Counts(n + 1, b) = Doubled(b)
      BY <1>3, <2>3 DEF Counts
    <3>2. (a - b) + (Doubled(b) - Doubled(a)) = -more
      BY <1>1
    <3>3. -more \in (-9..9) \ {0}
      <4> HIDE DEF more
      <4> QED BY <2>1
    <3> QED BY <3>1, <3>2, <3>3
  <2> QED BY <2>2, <2>3
<1> QED BY <1>2, <1>4

\* One digit that is mistyped is found (ccchecksum.c).
LEMMA MistypedFound ==
    ASSUME NEW ccNo \in Seq(0..9), NEW i \in 1..Len(ccNo), NEW d \in 0..9, d # ccNo[i],
           IsValidCreditCardCheckSum(ccNo)
    PROVE  ~IsValidCreditCardCheckSum([ccNo EXCEPT ![i] = d])
<1> DEFINE p == Len(ccNo) + 1 - i
           other == [ccNo EXCEPT ![i] = d]
           c == ccNo[i]
<1>1. /\ CardSum(ccNo) \in Int /\ CardSum(other) \in Int
      /\ CardSum(ccNo) - CardSum(other) = Counts(p, c) - Counts(p, d)
  BY OneDigit
<1>2. p \in Nat /\ c \in 0..9
  OBVIOUS
<1> HIDE DEF p, other
<1>3. Counts(p, c) \in 0..9 /\ Counts(p, d) \in 0..9 /\ Counts(p, c) # Counts(p, d)
  BY <1>2, CountsDiffer
<1>4. ASSUME CardSum(other) % 10 = 0 PROVE FALSE
  <2>1. CardSum(ccNo) % 10 = 0
    BY DEF IsValidCreditCardCheckSum
  <2>2. PICK x, y, u, v \in Int : x = CardSum(ccNo) /\ y = CardSum(other) /\ u = Counts(p, c) /\ v = Counts(p, d)
    <3>1. Counts(p, c) \in Int /\ Counts(p, d) \in Int
      BY <1>3
    <3>2. CardSum(ccNo) \in Int /\ CardSum(other) \in Int
      BY <1>1
    <3> QED BY <3>1, <3>2
  <2>3. u \in 0..9 /\ v \in 0..9 /\ u # v /\ x - y = u - v
    BY <1>1, <1>3, <2>2
  <2>4. x - y < 10 /\ y - x < 10 /\ x # y
    BY <2>3
  <2>5. x % 10 = 0 /\ y % 10 = 0
    BY <1>4, <2>1, <2>2
  <2> QED BY <2>4, <2>5, BothValid
<1> QED BY <1>4 DEF IsValidCreditCardCheckSum, other

\* Two neighbours that are swapped are found, 0 and 9 excepted (ccchecksum.c).
LEMMA SwappedFound ==
    ASSUME NEW ccNo \in Seq(0..9), NEW i \in 1..(Len(ccNo) - 1), {ccNo[i], ccNo[i + 1]} # {0, 9},
           ccNo[i] # ccNo[i + 1], IsValidCreditCardCheckSum(ccNo)
    PROVE  ~IsValidCreditCardCheckSum([ccNo EXCEPT ![i] = ccNo[i + 1], ![i + 1] = ccNo[i]])
<1> DEFINE N == Len(ccNo)
           a == ccNo[i]
           b == ccNo[i + 1]
           half == [ccNo EXCEPT ![i] = b]
           other == [half EXCEPT ![i + 1] = a]
           p == N - i
<1>1. /\ N \in Nat /\ i \in 1..N /\ i + 1 \in 1..N /\ i # i + 1 /\ p \in Nat
      /\ N + 1 - i = p + 1 /\ N + 1 - (i + 1) = p
  OBVIOUS
<1>2. a \in 0..9 /\ b \in 0..9
  BY <1>1
<1>3. other = [ccNo EXCEPT ![i] = ccNo[i + 1], ![i + 1] = ccNo[i]] /\ half[i + 1] = b
  BY <1>1
<1>4. (a = 0 => b # 9) /\ (a = 9 => b # 0)
  OBVIOUS
<1>5. /\ half \in Seq(0..9) /\ Len(half) = N
      /\ CardSum(ccNo) \in Int /\ CardSum(half) \in Int
      /\ CardSum(ccNo) - CardSum(half) = Counts(p + 1, a) - Counts(p + 1, b)
  <2>1. /\ half \in Seq(0..9) /\ Len(half) = N
        /\ CardSum(ccNo) \in Int /\ CardSum(half) \in Int
        /\ CardSum(ccNo) - CardSum(half) = Counts(N + 1 - i, a) - Counts(N + 1 - i, b)
    BY <1>1, <1>2, OneDigit
  <2> HIDE DEF N, a, b, half, p
  <2> QED BY <1>1, <2>1
<1>6. CardSum(other) \in Int /\ CardSum(half) - CardSum(other) = Counts(p, b) - Counts(p, a)
  <2> HIDE DEF N, half, a, b, p
  <2>1. i + 1 \in 1..Len(half)
    BY <1>1, <1>5
  <2>2. /\ CardSum(other) \in Int
        /\ CardSum(half) - CardSum(other) = Counts(Len(half) + 1 - (i + 1), half[i + 1]) - Counts(Len(half) + 1 - (i + 1), a)
    BY <1>2, <1>5, <2>1, OneDigit
  <2> QED BY <1>1, <1>3, <1>5, <2>2
<1> HIDE DEF N, half, a, b, p, other
<1>7. (Counts(p, b) - Counts(p, a)) + (Counts(p + 1, a) - Counts(p + 1, b)) \in (-9..9) \ {0}
  <2>1. b # a /\ (b = 0 => a # 9) /\ (b = 9 => a # 0)
    BY <1>4 DEF a, b
  <2> QED BY <1>1, <1>2, <2>1, CountsDiffer
<1>8. /\ Counts(p, a) \in Int /\ Counts(p, b) \in Int
      /\ Counts(p + 1, a) \in Int /\ Counts(p + 1, b) \in Int
  BY <1>2 DEF Counts, Doubled
<1>9. ASSUME CardSum(other) % 10 = 0 PROVE FALSE
  <2>1. CardSum(ccNo) % 10 = 0
    BY DEF IsValidCreditCardCheckSum
  <2>2. PICK x, y, z, u, v \in Int : /\ x = CardSum(ccNo) /\ y = CardSum(other) /\ z = CardSum(half)
                                     /\ u = Counts(p, b) - Counts(p, a)
                                     /\ v = Counts(p + 1, a) - Counts(p + 1, b)
    <3>1. Counts(p, b) - Counts(p, a) \in Int /\ Counts(p + 1, a) - Counts(p + 1, b) \in Int
      BY <1>8
    <3> QED BY <1>5, <1>6, <3>1
  <2>3. u + v \in (-9..9) \ {0} /\ x - z = v /\ z - y = u
    BY <1>5, <1>6, <1>7, <2>2
  <2>4. x - y < 10 /\ y - x < 10 /\ x # y
    BY <2>3
  <2>5. x % 10 = 0 /\ y % 10 = 0
    BY <1>9, <2>1, <2>2
  <2> QED BY <2>4, <2>5, BothValid
<1> QED BY <1>3, <1>9 DEF IsValidCreditCardCheckSum

\* What a call is given is a sequence of the characters.
LEMMA StringsAreSeqs ==
    ASSUME NEW chars, NEW n \in Nat, NEW str \in Strings(chars, n)
    PROVE  str \in Seq(chars) /\ Len(str) \in Nat /\ Len(str) <= n
<1>1. PICK k \in 0..n : str \in [1..k -> chars]
  BY DEF Strings
<1>2. str \in Seq(chars) /\ Len(str) = k
  BY <1>1
<1> QED BY <1>2

LEMMA CheckCardSafe == ASSUME CheckCard PROVE CardSafe'
<1>1. PICK ccNo \in Strings(CardDigits, SZ_CC_NO_MAX_LEN + 1) :
          Call("IsValidCreditCardNo", [ccNo |-> ccNo], [valid |-> IsValidCreditCardNo(ccNo)])
  BY DEF CheckCard
<1>2. ccNo \in Seq(CardDigits) /\ ccNo \in Seq(0..9)
  <2>1. SZ_CC_NO_MAX_LEN + 1 \in Nat /\ CardDigits \subseteq 0..9
    BY HelpersAssumption DEF HelpersAssumption
  <2>2. ccNo \in Seq(CardDigits)
    BY <2>1, StringsAreSeqs
  <2>3. Len(ccNo) \in Nat /\ DOMAIN ccNo = 1..Len(ccNo) /\ \A i \in 1..Len(ccNo) : ccNo[i] \in CardDigits
    BY <2>2, LenProperties
  <2>4. \A i \in 1..Len(ccNo) : ccNo[i] \in 0..9
    BY <2>1, <2>3
  <2>5. ccNo = [i \in 1..Len(ccNo) |-> ccNo[i]]
    BY <2>2, LenProperties
  <2>6. ccNo \in Seq(0..9)
    BY <2>3, <2>4, <2>5, SeqDef
  <2> QED BY <2>2, <2>6
<1>3. helperIn'.ccNo = ccNo /\ helperOut'.valid = IsValidCreditCardNo(ccNo)
  BY <1>1 DEF Call
<1>4. ASSUME IsValidCreditCardNo(ccNo)
      PROVE  /\ IsValidCreditCardCheckSum(<<0>> \o ccNo)
             /\ \A i \in DOMAIN ccNo : \A d \in CardDigits \ {ccNo[i]} :
                   ~IsValidCreditCardNo([ccNo EXCEPT ![i] = d])
             /\ \A i \in 1..(Len(ccNo) - 1) :
                   {ccNo[i], ccNo[i + 1]} # {0, 9} /\ ccNo[i] # ccNo[i + 1]
                   => ~IsValidCreditCardNo([ccNo EXCEPT ![i] = ccNo[i + 1], ![i + 1] = ccNo[i]])
  <2>1. IsValidCreditCardCheckSum(ccNo)
    BY <1>4 DEF IsValidCreditCardNo
  <2>2. IsValidCreditCardCheckSum(<<0>> \o ccNo)
    BY <1>2, <2>1, LeadingZero DEF IsValidCreditCardCheckSum
  <2>3. ASSUME NEW i \in DOMAIN ccNo, NEW d \in CardDigits \ {ccNo[i]}
        PROVE  ~IsValidCreditCardNo([ccNo EXCEPT ![i] = d])
    <3>1. i \in 1..Len(ccNo) /\ d \in 0..9 /\ d # ccNo[i]
      BY <1>2, HelpersAssumption DEF HelpersAssumption
    <3>2. ~IsValidCreditCardCheckSum([ccNo EXCEPT ![i] = d])
      BY <1>2, <2>1, <3>1, MistypedFound
    <3> QED BY <3>2 DEF IsValidCreditCardNo
  <2>4. ASSUME NEW i \in 1..(Len(ccNo) - 1), {ccNo[i], ccNo[i + 1]} # {0, 9}, ccNo[i] # ccNo[i + 1]
        PROVE  ~IsValidCreditCardNo([ccNo EXCEPT ![i] = ccNo[i + 1], ![i + 1] = ccNo[i]])
    <3>1. ~IsValidCreditCardCheckSum([ccNo EXCEPT ![i] = ccNo[i + 1], ![i + 1] = ccNo[i]])
      BY <1>2, <2>1, <2>4, SwappedFound
    <3> QED BY <3>1 DEF IsValidCreditCardNo
  <2> QED BY <2>2, <2>3, <2>4
<1> QED BY <1>3, <1>4 DEF CardSafe

(***************************************************************************)
(* The fields (strutils.c).                                                *)
(***************************************************************************)
LEMMA MaxIs ==
    ASSUME NEW N \in Nat, NEW S \in SUBSET (0..N), S # {}
    PROVE  Max(S) \in S /\ \A m \in S : m <= Max(S)
<1> DEFINE T == {n \in Nat : \E m \in S : n = N - m}
<1>1. T \in SUBSET Nat /\ T # {}
  <2>1. PICK m \in S : m \in 0..N
    OBVIOUS
  <2>2. N - m \in T
    BY <2>1
  <2> QED BY <2>2
<1>2. PICK n \in T : \A m \in T : n <= m
  BY <1>1, LeastNumber
<1>3. PICK s \in S : n = N - s
  BY <1>2
<1>4. \A m \in S : s >= m
  <2> SUFFICES ASSUME NEW m \in S PROVE s >= m
    OBVIOUS
  <2>1. N - s <= N - m
    BY <1>2, <1>3
  <2> QED BY <2>1
<1>5. \E x \in S : \A y \in S : x >= y
  BY <1>4
<1>6. Max(S) \in S /\ \A y \in S : Max(S) >= y
  BY <1>5 DEF Max
<1> QED BY <1>6

LEMMA MinIs ==
    ASSUME NEW S \in SUBSET Nat, S # {}
    PROVE  Min(S) \in S /\ \A m \in S : Min(S) <= m
<1>1. \E x \in S : \A y \in S : x =< y
  BY LeastNumber
<1> QED BY <1>1 DEF Min

LEMMA BufLenIs ==
    ASSUME NEW chars, NEW buf \in Seq(chars)
    PROVE  /\ BufLen(buf) \in 0..Len(buf)
           /\ BufLen(buf) # 0 => buf[BufLen(buf)] # "space"
           /\ \A i \in 1..Len(buf) : i > BufLen(buf) => buf[i] = "space"
<1> DEFINE I == {i \in 1..Len(buf) : buf[i] # "space"}
<1>1. BufLen(buf) = IF I # {} THEN Max(I) ELSE 0
  BY DEF BufLen, SelectLastInSeq
<1>2. Len(buf) \in Nat /\ I \in SUBSET (0..Len(buf))
  OBVIOUS
<1>3. CASE I = {}
  BY <1>1, <1>2, <1>3
<1>4. CASE I # {}
  <2>1. Max(I) \in I /\ \A m \in I : m <= Max(I)
    <3> HIDE DEF I
    <3> QED BY <1>2, <1>4, MaxIs
  <2>2. BufLen(buf) = Max(I)
    BY <1>1, <1>4
  <2>3. BufLen(buf) \in 1..Len(buf) /\ buf[BufLen(buf)] # "space"
    BY <2>1, <2>2
  <2>4. ASSUME NEW i \in 1..Len(buf), i > BufLen(buf), buf[i] # "space" PROVE FALSE
    <3>1. i <= BufLen(buf)
      BY <2>1, <2>2, <2>4
    <3> QED BY <1>2, <2>3, <2>4, <3>1
  <2> QED BY <1>2, <2>3, <2>4
<1> QED BY <1>3, <1>4

\* What was padded reads back up to its last character that is not a space (strutils.c).
LEMMA PaddedReadsBack ==
    ASSUME NEW str \in Seq({"a", "space"}), NEW M \in Nat, Len(str) <= M
    PROVE  LET buf == StrToBuf(str, M)  back == BufToStr(buf) IN
           /\ Len(buf) = M /\ IsPrefix(back, str)
           /\ str = <<>> \/ Last(str) # "space" => back = str
<1> DEFINE L == Len(str)
           pad == [i \in 1..(M - L) |-> "space"]
           buf == str \o pad
           n == BufLen(buf)
           back == SubSeq(buf, 1, n)
<1>1. L \in Nat /\ pad \in Seq({"a", "space"}) /\ Len(pad) = M - L
  <2>1. L \in Nat /\ M - L \in Nat
    BY LenProperties
  <2>2. pad \in [1..(M - L) -> {"a", "space"}]
    OBVIOUS
  <2> HIDE DEF L
  <2> QED BY <2>1, <2>2, SeqDef, LenProperties
<1>2. StrToBuf(str, M) = buf
  BY <1>1 DEF StrToBuf
<1>3. buf \in Seq({"a", "space"}) /\ Len(buf) = M /\ \A i \in 1..M : buf[i] = IF i <= L THEN str[i] ELSE "space"
  <2>1. buf \in Seq({"a", "space"}) /\ Len(buf) = L + (M - L)
    <3> HIDE DEF pad
    <3> QED BY <1>1, ConcatProperties
  <2>2. ASSUME NEW i \in 1..M PROVE buf[i] = IF i <= L THEN str[i] ELSE "space"
    <3>1. buf[i] = IF i <= L THEN str[i] ELSE pad[i - L]
      <4> HIDE DEF pad
      <4>1. i \in 1..(L + Len(pad))
        BY <1>1
      <4> QED BY <1>1, <4>1, ConcatProperties
    <3>2. i > L => i - L \in 1..(M - L)
      BY <1>1
    <3> QED BY <1>1, <3>1, <3>2
  <2> QED BY <1>1, <2>1, <2>2
<1> HIDE DEF buf, pad
<1>4. /\ n \in 0..M /\ (n # 0 => buf[n] # "space") /\ \A i \in 1..M : i > n => buf[i] = "space"
  <2> HIDE DEF n
  <2>1. /\ BufLen(buf) \in 0..Len(buf) /\ (BufLen(buf) # 0 => buf[BufLen(buf)] # "space")
        /\ \A i \in 1..Len(buf) : i > BufLen(buf) => buf[i] = "space"
    BY <1>3, BufLenIs
  <2> QED BY <1>3, <2>1 DEF n
<1>5. BufToStr(buf) = back
  <2>1. {i \in 1..Len(buf) : buf[i] = "null"} = {}
    BY <1>3
  <2>2. SelectInSeq(buf, LAMBDA c : c = "null") = 0
    BY <2>1 DEF SelectInSeq
  <2> DEFINE null == SelectInSeq(buf, LAMBDA c : c = "null")
  <2>3. BufToStr(buf) = SubSeq(buf, 1, IF null > 0 /\ null <= BufLen(buf) THEN null - 1 ELSE BufLen(buf))
    BY DEF BufToStr
  <2>4. null = 0
    BY <2>2
  <2> HIDE DEF null
  <2> QED BY <2>3, <2>4
<1> HIDE DEF n
<1>6. n <= L
  BY <1>1, <1>3, <1>4
<1>7. n \in Nat /\ Len(back) = n /\ DOMAIN back = 1..n /\ \A i \in 1..n : back[i] = str[i]
  <2>1. \A i \in 1..n : buf[i] = str[i] /\ 1 + i - 1 = i
    BY <1>1, <1>3, <1>4, <1>6
  <2>2. Len(back) = n /\ DOMAIN back = 1..n /\ \A i \in 1..n : back[i] = buf[1 + i - 1]
    BY <1>3, <1>4, SubSeqProperties
  <2> QED BY <1>4, <2>1, <2>2
<1> HIDE DEF back
<1>8. back \in Seq({"a", "space"}) /\ back = [i \in 1..n |-> str[i]]
  <2>1. back = [i \in 1..n |-> back[i]]
    BY <1>3, <1>4, SubSeqProperties DEF back
  <2>2. \A i \in 1..n : str[i] \in {"a", "space"}
    BY <1>1, <1>6, <1>7
  <2> QED BY SMTT(30), <1>7, <2>1, <2>2, SeqDef
<1>9. IsPrefix(back, str)
  <2>1. SubSeq(back, 1, n) = [i \in 1..n |-> back[i]] /\ SubSeq(str, 1, n) = [i \in 1..n |-> str[i]]
    BY <1>6, <1>7
  <2>2. SubSeq(back, 1, n) = SubSeq(str, 1, n)
    BY <1>7, <2>1
  <2> QED BY <1>6, <1>7, <2>2 DEF IsPrefix
<1>10. ASSUME str = <<>> \/ Last(str) # "space" PROVE back = str
  <2>1. n = L
    <3>1. CASE L = 0
      BY <1>6, <1>7, <3>1
    <3>2. CASE L # 0
      <4>1. L \in 1..M /\ buf[L] = str[L] /\ str # <<>>
        BY <1>1, <1>3, <3>2
      <4>2. buf[L] # "space"
        BY <1>10, <4>1 DEF Last
      <4> QED BY <1>4, <1>6, <1>7, <4>1, <4>2
    <3> QED BY <3>1, <3>2
  <2>2. str = [i \in 1..L |-> str[i]]
    BY LenProperties
  <2> QED BY <1>8, <2>1, <2>2
<1> QED BY <1>2, <1>3, <1>5, <1>9, <1>10

LEMMA PadFieldSafe == ASSUME PadField PROVE FieldsSafe'
<1>1. PICK str \in Strings({"a", "space"}, MaxField + 1) :
          Call("StrToBuf", [str |-> str], [buf |-> StrToBuf(str, MaxField)])
  BY DEF PadField
<1>2. MaxField \in Nat
  BY HelpersAssumption DEF HelpersAssumption
<1>3. str \in Seq({"a", "space"}) /\ Len(str) \in Nat
  <2>1. MaxField + 1 \in Nat
    BY <1>2
  <2> QED BY <2>1, StringsAreSeqs
<1>4. helper' = "StrToBuf" /\ helperIn'.str = str /\ helperOut'.buf = StrToBuf(str, MaxField)
  BY <1>1 DEF Call
<1>5. ASSUME StrToBuf(str, MaxField) # Undefined
      PROVE  LET buf == StrToBuf(str, MaxField)  back == BufToStr(buf) IN
             /\ Len(buf) = MaxField /\ IsPrefix(back, str)
             /\ str = <<>> \/ Last(str) # "space" => back = str
  <2>1. Len(str) <= MaxField
    BY <1>2, <1>3, <1>5 DEF StrToBuf
  <2> QED BY <1>2, <1>3, <2>1, PaddedReadsBack
<1> QED BY <1>4, <1>5 DEF FieldsSafe

\* What is hidden of an address (strutils.c).
LEMMA EmailHidden ==
    ASSUME NEW str \in Seq({"a", "at"}), EmailAddressUserHide(str) # Undefined
    PROVE  LET hidden == EmailAddressUserHide(str)
               shown == {i \in DOMAIN str : hidden[i] = str[i]}
               domain == {i \in DOMAIN str : \E j \in 1..i : str[j] = "at"} IN
           Len(hidden) = Len(str) /\ shown = {1} \cup domain
<1> DEFINE L == Len(str)
           I == {i \in 1..L : str[i] = "at"}
           at == SelectInSeq(str, LAMBDA c : c = "at")
           hidden == [i \in DOMAIN str |-> IF i > 1 /\ i < at THEN "*" ELSE str[i]]
           shown == {i \in DOMAIN str : hidden[i] = str[i]}
           domain == {i \in DOMAIN str : \E j \in 1..i : str[j] = "at"}
<1>1. L \in Nat /\ DOMAIN str = 1..L /\ \A i \in 1..L : str[i] \in {"a", "at"}
  BY LenProperties
<1>2. at = IF I # {} THEN Min(I) ELSE 0
  BY DEF SelectInSeq
<1> HIDE DEF at
<1>3. ~(at <= 1) /\ EmailAddressUserHide(str) = hidden
  <2>1. EmailAddressUserHide(str) = IF at <= 1 THEN Undefined ELSE hidden
    BY DEF EmailAddressUserHide, at
  <2> QED BY <2>1
<1>4. at \in I /\ \A m \in I : at <= m
  <2>1. I # {} /\ at = Min(I)
    BY <1>2, <1>3
  <2>2. I \in SUBSET Nat
    OBVIOUS
  <2> HIDE DEF I
  <2> QED BY <2>1, <2>2, MinIs
<1>5. at \in 2..L /\ str[at] = "at" /\ \A m \in 1..L : str[m] = "at" => at <= m
  BY <1>1, <1>3, <1>4
<1>6. Len(hidden) = L
  <2>2. DOMAIN hidden = 1..L
    BY <1>1
  <2> QED BY <1>1, <2>2
<1>7. ASSUME NEW i \in 1..L PROVE hidden[i] = str[i] <=> i = 1 \/ i >= at
  BY <1>1, <1>5
<1>8. ASSUME NEW i \in 1..L PROVE (\E j \in 1..i : str[j] = "at") <=> i >= at
  BY <1>1, <1>5
<1> HIDE DEF hidden
<1>9. shown = {1} \cup domain
  <2>1. \A i : i \in shown <=> i \in 1..L /\ (i = 1 \/ i >= at)
    BY <1>1, <1>7
  <2>2. \A i : i \in domain <=> i \in 1..L /\ i >= at
    BY <1>1, <1>8
  <2>3. 1 \in 1..L
    BY <1>1, <1>5
  <2> HIDE DEF shown, domain
  <2> QED BY <2>1, <2>2, <2>3
<1> QED BY <1>3, <1>6, <1>9

LEMMA HideEmailSafe == ASSUME HideEmail PROVE FieldsSafe'
<1>1. PICK str \in Strings({"a", "at"}, MaxField + 1) :
          Call("EmailAddressUserHide", [str |-> str], [hidden |-> EmailAddressUserHide(str)])
  BY DEF HideEmail
<1>2. str \in Seq({"a", "at"})
  <2>1. MaxField + 1 \in Nat
    BY HelpersAssumption DEF HelpersAssumption
  <2> QED BY <2>1, StringsAreSeqs
<1>3. /\ helper' = "EmailAddressUserHide" /\ helperIn'.str = str
      /\ helperOut'.hidden = EmailAddressUserHide(str)
  BY <1>1 DEF Call
<1>4. ASSUME EmailAddressUserHide(str) # Undefined
      PROVE  LET hidden == EmailAddressUserHide(str)
                 shown == {i \in DOMAIN str : hidden[i] = str[i]}
                 domain == {i \in DOMAIN str : \E j \in 1..i : str[j] = "at"} IN
             Len(hidden) = Len(str) /\ shown = {1} \cup domain
  BY <1>2, <1>4, EmailHidden
<1> QED BY <1>3, <1>4 DEF FieldsSafe

LEMMA HideDocNoSafe == ASSUME HideDocNo PROVE FieldsSafe'
<1>1. PICK str \in Strings({"1"}, MaxField) :
          Call("PmtDocNoHide", [str |-> str], [hidden |-> PmtDocNoHide(str)])
  BY DEF HideDocNo
<1>2. str \in Seq({"1"})
  <2>1. MaxField \in Nat
    BY HelpersAssumption DEF HelpersAssumption
  <2> QED BY <2>1, StringsAreSeqs
<1> DEFINE L == Len(str)
           hidden == [i \in DOMAIN str |-> IF i <= L - 2 THEN "*" ELSE str[i]]
           shown == {i \in DOMAIN str : hidden[i] = str[i]}
<1>3. helper' = "PmtDocNoHide" /\ helperIn'.str = str /\ helperOut'.hidden = PmtDocNoHide(str)
  BY <1>1 DEF Call
<1>4. L \in Nat /\ DOMAIN str = 1..L /\ \A i \in 1..L : str[i] = "1"
  BY <1>2, LenProperties
<1>5. ASSUME PmtDocNoHide(str) # Undefined
      PROVE  PmtDocNoHide(str) = hidden /\ Len(hidden) = L /\ shown = {L - 1, L}
  <2>1. ~(L < 2) /\ PmtDocNoHide(str) = hidden
    BY <1>5 DEF PmtDocNoHide
  <2>2. DOMAIN hidden = 1..L
    BY <1>4
  <2>3. Len(hidden) = L
    BY SMTT(30), <1>4, <2>2
  <2>4. ASSUME NEW i \in 1..L PROVE hidden[i] = str[i] <=> i \in {L - 1, L}
    <3>1. hidden[i] = IF i <= L - 2 THEN "*" ELSE "1"
      BY <1>4
    <3>2. i <= L - 2 <=> i \notin {L - 1, L}
      <4>1. L \in Nat /\ i \in Nat /\ i <= L
        BY <1>4
      <4> HIDE DEF L
      <4> QED BY <4>1
    <3> HIDE DEF hidden
    <3> QED BY <1>4, <3>1, <3>2
  <2>5. L - 1 \in 1..L /\ L \in 1..L
    BY SMTT(30), <1>4, <2>1
  <2> HIDE DEF hidden
  <2>6. shown = {L - 1, L}
    BY <1>4, <2>4, <2>5
  <2> QED BY <2>1, <2>3, <2>6
<1> HIDE DEF hidden
<1> QED BY <1>3, <1>5 DEF FieldsSafe

(***************************************************************************)
(* The amounts (fmtamt.c).                                                 *)
(***************************************************************************)
Chars == ToSet(Digit) \cup {"-", "."}

\* A digit has the value it is printed for.
LEMMA DigitValue ==
    /\ \A v \in 0..9 : Digit[v + 1] \in ToSet(Digit) /\ ValueOf(Digit[v + 1]) = v
    /\ "-" \notin ToSet(Digit) /\ "." \notin ToSet(Digit)
<1>1. \A v \in 0..9 : v + 1 \in DOMAIN Digit
  BY DEF Digit
<1>2. ASSUME NEW v \in 0..9, NEW w \in 0..9, Digit[v + 1] = Digit[w + 1] PROVE v = w
  BY <1>2 DEF Digit
<1>3. ASSUME NEW v \in 0..9 PROVE ValueOf(Digit[v + 1]) = v
  <2>1. \E w \in 0..9 : Digit[w + 1] = Digit[v + 1]
    OBVIOUS
  <2>2. ValueOf(Digit[v + 1]) \in 0..9 /\ Digit[ValueOf(Digit[v + 1]) + 1] = Digit[v + 1]
    BY <2>1 DEF ValueOf
  <2> QED BY <1>2, <2>2
<1>4. "-" \notin ToSet(Digit) /\ "." \notin ToSet(Digit)
  BY DEF ToSet, Digit
<1> QED BY <1>1, <1>3, <1>4 DEF ToSet

LEMMA ValueInNat == \A c \in ToSet(Digit) : ValueOf(c) \in 0..9
<1>1. \A i \in DOMAIN Digit : i \in 1..10
  BY DEF Digit
<1> SUFFICES ASSUME NEW c \in ToSet(Digit) PROVE ValueOf(c) \in 0..9
  OBVIOUS
<1>2. PICK i \in 1..10 : c = Digit[i]
  BY <1>1 DEF ToSet
<1>3. i - 1 \in 0..9 /\ (i - 1) + 1 = i
  OBVIOUS
<1>4. \E v \in 0..9 : Digit[v + 1] = c
  BY <1>2, <1>3
<1> QED BY <1>4 DEF ValueOf

\* The reading of one more character.
ReadOn(v, c) == IF c \in ToSet(Digit) THEN 10 * v + ValueOf(c) ELSE v
IsReading(f, chars) == f = [n \in 0..Len(chars) |-> IF n = 0 THEN 0 ELSE ReadOn(f[n - 1], chars[n])]

LEMMA ReadingExists ==
    ASSUME NEW chars \in Seq(Chars)
    PROVE  \E f \in [0..Len(chars) -> Nat] :
              /\ f[0] = 0
              /\ \A n \in 1..Len(chars) : f[n] = ReadOn(f[n - 1], chars[n])
              /\ NumberOf(chars) = f[Len(chars)]
<1> DEFINE N == Len(chars)
           step == [n \in 1..N |-> [v \in Nat |-> ReadOn(v, chars[n])]]
<1>1. N \in Nat /\ \A n \in 1..N : \A v \in Nat : step[n][v] \in Nat
  <2>1. ASSUME NEW v \in Nat, NEW c PROVE ReadOn(v, c) \in Nat
    BY ValueInNat DEF ReadOn
  <2> QED BY <2>1
<1>2. PICK f \in [0..N -> Nat] : Steps(f, 0, step, N)
  <2> HIDE DEF step, N
  <2>1. 0 \in Nat
    OBVIOUS
  <2>2. \A n \in 1..N : \A v \in Nat : step[n][v] \in Nat
    BY <1>1
  <2> QED BY <1>1, <2>1, <2>2, StepsExist
<1>3. f[0] = 0 /\ \A n \in 1..N : f[n] = ReadOn(f[n - 1], chars[n])
  <2>1. f[0] = 0
    BY <1>1, <1>2 DEF Steps
  <2>2. ASSUME NEW n \in 1..N PROVE f[n] = ReadOn(f[n - 1], chars[n])
    <3>1. n \in 0..N /\ n # 0 /\ n - 1 \in 0..N
      BY <1>1
    <3>2. f[n - 1] \in Nat
      BY <3>1
    <3>3. f[n] = step[n][f[n - 1]]
      BY <1>2, <3>1 DEF Steps
    <3> QED BY <3>2, <3>3
  <2> QED BY <2>1, <2>2
<1>4. IsReading(f, chars)
  <2>1. \A n \in 0..N : f[n] = IF n = 0 THEN 0 ELSE ReadOn(f[n - 1], chars[n])
    BY <1>3
  <2> QED BY <2>1 DEF IsReading
<1> DEFINE g == CHOOSE h : IsReading(h, chars)
<1>5. IsReading(g, chars)
  BY <1>4
<1>6. NumberOf(chars) = g[N]
  BY DEF NumberOf, IsReading, ReadOn
<1> HIDE DEF g
<1>7. f[0] = g[0] /\ \A n \in 0..(N - 1) : f[n] = g[n] => f[n + 1] = g[n + 1]
  <2>1. f[0] = g[0]
    BY <1>1, <1>3, <1>5 DEF IsReading
  <2>2. ASSUME NEW n \in 0..(N - 1), f[n] = g[n] PROVE f[n + 1] = g[n + 1]
    <3>1. n + 1 \in 0..N /\ n + 1 \in 1..N /\ n + 1 # 0 /\ (n + 1) - 1 = n
      BY <1>1
    <3>2. f[n + 1] = ReadOn(f[n], chars[n + 1])
      BY <1>3, <3>1
    <3>3. g[n + 1] = ReadOn(g[n], chars[n + 1])
      BY <1>5, <3>1 DEF IsReading
    <3> QED BY <2>2, <3>2, <3>3
  <2> QED BY <2>1, <2>2
<1>8. f[N] = g[N]
  <2>1. GoAlike(f, g, N)
    BY <1>7 DEF GoAlike
  <2>2. Alike(f, g, N)
    BY <1>1, <2>1, SameRecursion
  <2> QED BY <1>1, <2>2 DEF Alike
<1> QED BY <1>2, <1>3, <1>6, <1>8

\* Nothing reads as 0, and one more character is read after the ones before it.
LEMMA ReadAppend ==
    /\ NumberOf(<<>>) = 0
    /\ \A s \in Seq(Chars) : \A c \in Chars :
          NumberOf(s) \in Nat /\ NumberOf(Append(s, c)) = ReadOn(NumberOf(s), c)
<1>1. NumberOf(<<>>) = 0
  <2>1. <<>> \in Seq(Chars) /\ Len(<<>>) = 0
    BY EmptySeq
  <2>2. PICK f : f[0] = 0 /\ NumberOf(<<>>) = f[Len(<<>>)]
    BY <2>1, ReadingExists
  <2> QED BY <2>1, <2>2
<1>2. ASSUME NEW s \in Seq(Chars), NEW c \in Chars
      PROVE  NumberOf(s) \in Nat /\ NumberOf(Append(s, c)) = ReadOn(NumberOf(s), c)
  <2> DEFINE N == Len(s)
             t == Append(s, c)
  <2>1. N \in Nat /\ t \in Seq(Chars) /\ Len(t) = N + 1 /\ t[N + 1] = c /\ \A i \in 1..N : t[i] = s[i]
    BY LenProperties, AppendProperties
  <2> HIDE DEF t
  <2>2. PICK f \in [0..N -> Nat] :
            f[0] = 0 /\ (\A n \in 1..N : f[n] = ReadOn(f[n - 1], s[n])) /\ NumberOf(s) = f[N]
    BY ReadingExists
  <2>3. PICK g \in [0..Len(t) -> Nat] :
            g[0] = 0 /\ (\A n \in 1..Len(t) : g[n] = ReadOn(g[n - 1], t[n])) /\ NumberOf(t) = g[Len(t)]
    BY <2>1, ReadingExists
  <2> HIDE DEF N
  <2>4. GoAlike(f, g, N)
    <3>1. ASSUME NEW n \in 0..(N - 1), f[n] = g[n] PROVE f[n + 1] = g[n + 1]
      <4>1. n + 1 \in 1..N /\ n + 1 \in 1..(N + 1) /\ (n + 1) - 1 = n
        BY <2>1
      <4>2. f[n + 1] = ReadOn(f[n], s[n + 1])
        BY <2>2, <4>1
      <4>3. g[n + 1] = ReadOn(g[n], t[n + 1])
        BY <2>1, <2>3, <4>1
      <4> QED BY <2>1, <3>1, <4>1, <4>2, <4>3
    <3> QED BY <2>2, <2>3, <3>1 DEF GoAlike
  <2>5. f[N] = g[N]
    <3>1. Alike(f, g, N)
      BY <2>1, <2>4, SameRecursion
    <3> QED BY <2>1, <3>1 DEF Alike
  <2>6. g[N + 1] = ReadOn(g[N], c)
    <3>1. N + 1 \in 1..(N + 1) /\ (N + 1) - 1 = N
      BY <2>1
    <3> QED BY <2>1, <2>3, <3>1
  <2>7. f[N] \in Nat
    BY <2>1
  <2> QED BY <2>1, <2>2, <2>3, <2>5, <2>6, <2>7 DEF t
<1> QED BY <1>1, <1>2

LEMMA AppendToConcat ==
    ASSUME NEW s \in Seq(Chars), NEW t \in Seq(Chars), NEW c \in Chars
    PROVE  /\ s \o t \in Seq(Chars) /\ Append(t, c) \in Seq(Chars)
           /\ s \o Append(t, c) = Append(s \o t, c)
<1>1. s \o t \in Seq(Chars) /\ Append(t, c) \in Seq(Chars) /\ <<c>> \in Seq(Chars)
  <2>1. s \o t \in Seq(Chars)
    BY ConcatProperties
  <2>2. Append(t, c) \in Seq(Chars)
    BY AppendProperties
  <2>3. <<c>> \in Seq(Chars)
    OBVIOUS
  <2> QED BY <2>1, <2>2, <2>3
<1>2. Append(t, c) = t \o <<c>>
  BY AppendIsConcat
<1>3. Append(s \o t, c) = (s \o t) \o <<c>>
  BY <1>1, AppendIsConcat
<1>4. (s \o t) \o <<c>> = s \o (t \o <<c>>)
  BY <1>1, ConcatAssociative
<1> QED BY <1>1, <1>2, <1>3, <1>4

\* What comes after does not depend on how the number before it was written.
LEMMA ReadConcat ==
    ASSUME NEW s \in Seq(Chars), NEW r \in Seq(Chars), NEW t \in Seq(Chars), NumberOf(s) = NumberOf(r)
    PROVE  NumberOf(s \o t) = NumberOf(r \o t)
<1> DEFINE S == {n \in Nat : n <= Len(t) => NumberOf(s \o SubSeq(t, 1, n)) = NumberOf(r \o SubSeq(t, 1, n))}
<1>1. 0 \in S
  <2>1. SubSeq(t, 1, 0) = <<>>
    BY SubSeqEmpty
  <2>2. s \o <<>> = s /\ r \o <<>> = r
    BY ConcatEmptySeq
  <2> QED BY <2>1, <2>2
<1>2. ASSUME NEW n \in Nat, n \in S, n + 1 <= Len(t)
      PROVE  NumberOf(s \o SubSeq(t, 1, n + 1)) = NumberOf(r \o SubSeq(t, 1, n + 1))
  <2> DEFINE u == SubSeq(t, 1, n)
             c == t[n + 1]
  <2>1. n + 1 \in 1..Len(t) /\ 1 \in 1..Len(t) /\ (n + 1) - 1 = n
    BY <1>2, LenProperties
  <2>2. c \in Chars /\ \A i \in 1..n : t[i] \in Chars
    BY <2>1, ElementOfSeq
  <2>3. u \in Seq(Chars)
    BY <2>2, SubSeqProperties
  <2>4. SubSeq(t, 1, n + 1) = u \o <<c>>
    <3>1. n + 1 \in 1..Len(t) /\ n + 1 \in 1..Len(t)
      BY <2>1
    <3>2. SubSeq(t, 1, n + 1) = SubSeq(t, 1, (n + 1) - 1) \o <<t[n + 1]>>
      BY <2>1, <3>1, SubSeqRecursiveSecond
    <3> QED BY <2>1, <3>2
  <2>5. NumberOf(s \o u) = NumberOf(r \o u)
    BY <1>2
  <2> HIDE DEF u, c
  <2>6. SubSeq(t, 1, n + 1) = Append(u, c)
    BY <2>2, <2>3, <2>4, AppendIsConcat
  <2>7. /\ s \o u \in Seq(Chars) /\ s \o Append(u, c) = Append(s \o u, c)
        /\ r \o u \in Seq(Chars) /\ r \o Append(u, c) = Append(r \o u, c)
    BY <2>2, <2>3, AppendToConcat
  <2>8. /\ NumberOf(Append(s \o u, c)) = ReadOn(NumberOf(s \o u), c)
        /\ NumberOf(Append(r \o u, c)) = ReadOn(NumberOf(r \o u), c)
    BY <2>2, <2>7, ReadAppend
  <2> QED BY <2>5, <2>6, <2>7, <2>8
<1>3. \A n \in Nat : n \in S => n + 1 \in S
  BY <1>2
<1>4. \A n \in Nat : n \in S
  <2> HIDE DEF S
  <2> QED BY <1>1, <1>3, SetInduction
<1>5. SubSeq(t, 1, Len(t)) = t /\ Len(t) \in Nat
  BY SubSeqFull, LenProperties
<1>6. NumberOf(s \o SubSeq(t, 1, Len(t))) = NumberOf(r \o SubSeq(t, 1, Len(t)))
  <2>1. Len(t) \in S /\ Len(t) <= Len(t)
    BY <1>4, <1>5
  <2> QED BY <2>1
<1> QED BY <1>5, <1>6

\* Zeros in front of a number do not change it.
Zeros(n) == [i \in 1..n |-> "0"]
LEMMA ReadZeros ==
    ASSUME NEW N \in Nat
    PROVE  /\ Zeros(N) \in Seq(ToSet(Digit)) /\ Zeros(N) \in Seq(Chars)
           /\ Len(Zeros(N)) = N /\ NumberOf(Zeros(N)) = 0
<1>1. Digit[1] = "0" /\ "0" \in ToSet(Digit) /\ ValueOf("0") = 0
  <2>1. Digit[1] = "0" /\ 0 + 1 = 1 /\ 0 \in 0..9
    BY DEF Digit
  <2>2. Digit[0 + 1] \in ToSet(Digit) /\ ValueOf(Digit[0 + 1]) = 0
    BY <2>1, DigitValue
  <2> QED BY <2>1, <2>2
<1>2. ASSUME NEW n \in Nat
      PROVE  Zeros(n) \in Seq(ToSet(Digit)) /\ Zeros(n) \in Seq(Chars) /\ Len(Zeros(n)) = n
  <2>1. Zeros(n) \in [1..n -> ToSet(Digit)] /\ DOMAIN Zeros(n) = 1..n
    BY <1>1 DEF Zeros
  <2>2. Zeros(n) \in Seq(ToSet(Digit))
    BY <2>1, SeqDef
  <2>3. ToSet(Digit) \subseteq Chars
    BY DEF Chars
  <2>4. Zeros(n) \in Seq(Chars)
    BY <2>2, <2>3, SeqMonotonic
  <2> QED BY <2>1, <2>2, <2>4, LenProperties
<1> DEFINE S == {n \in Nat : NumberOf(Zeros(n)) = 0}
<1>3. 0 \in S
  <2>1. Zeros(0) \in Seq(Chars) /\ Len(Zeros(0)) = 0
    BY <1>2
  <2>2. Zeros(0) = <<>>
    BY <2>1, EmptySeq
  <2> QED BY <2>2, ReadAppend
<1>4. ASSUME NEW n \in Nat, n \in S PROVE n + 1 \in S
  <2> DEFINE a == Append(Zeros(n), "0")
  <2>1. "0" \in Chars
    BY <1>1 DEF Chars
  <2>2. a \in Seq(Chars) /\ Len(a) = n + 1 /\ a[n + 1] = "0" /\ \A i \in 1..n : a[i] = Zeros(n)[i]
    BY <1>2, <2>1, AppendProperties
  <2>3. NumberOf(a) = ReadOn(0, "0")
    BY <1>2, <1>4, <2>1, ReadAppend
  <2> HIDE DEF a
  <2>4. Zeros(n + 1) = a
    <3>1. \A i \in 1..(n + 1) : Zeros(n + 1)[i] = a[i]
      BY <2>2 DEF Zeros
    <3>2. Zeros(n + 1) \in Seq(Chars) /\ Len(Zeros(n + 1)) = n + 1
      BY <1>2
    <3> QED BY <2>2, <3>1, <3>2, SeqEqual
  <2> QED BY <1>1, <2>3, <2>4 DEF ReadOn
<1>5. \A n \in Nat : n \in S
  <2> HIDE DEF S
  <2> QED BY <1>3, <1>4, SetInduction
<1> QED BY <1>2, <1>5

\* The digits of a number: the ones of its tenth, and its last one (fmtamt.c, "%lld").
Printed(f, n) == IF n < 10 THEN <<Digit[n + 1]>> ELSE Append(f[n \div 10], Digit[(n % 10) + 1])
IsPrint(f, N) == f = [n \in 0..N |-> Printed(f, n)]

LEMMA TenthIsLess ==
    ASSUME NEW n \in Nat
    PROVE  /\ n \div 10 \in Nat /\ n % 10 \in 0..9 /\ n = 10 * (n \div 10) + (n % 10)
           /\ n >= 10 => n \div 10 < n
OBVIOUS

LEMMA PrintExists == \A N \in Nat : \E f : IsPrint(f, N)
<1> DEFINE S == {N \in Nat : \E f : IsPrint(f, N)}
<1>1. 0 \in S
  <2> DEFINE f == [n \in 0..0 |-> <<Digit[1]>>]
  <2>1. \A n \in 0..0 : Printed(f, n) = <<Digit[1]>>
    BY DEF Printed
  <2>2. IsPrint(f, 0)
    BY <2>1 DEF IsPrint
  <2> QED BY <2>2
<1>2. ASSUME NEW N \in Nat, NEW f, IsPrint(f, N) PROVE \E g : IsPrint(g, N + 1)
  <2> DEFINE g == [n \in 0..(N + 1) |-> IF n <= N THEN f[n] ELSE Printed(f, n)]
  <2>1. ASSUME NEW n \in 0..(N + 1) PROVE Printed(g, n) = Printed(f, n)
    <3>1. n >= 10 => n \div 10 \in 0..N
      BY TenthIsLess
    <3>2. n >= 10 => g[n \div 10] = f[n \div 10]
      BY <3>1
    <3> HIDE DEF g
    <3> QED BY <3>2 DEF Printed
  <2>2. ASSUME NEW n \in 0..(N + 1) PROVE g[n] = Printed(f, n)
    <3>1. n <= N => n \in 0..N
      OBVIOUS
    <3>2. n \in 0..N => f[n] = Printed(f, n)
      BY <1>2 DEF IsPrint
    <3> QED BY <3>1, <3>2
  <2>3. g = [n \in 0..(N + 1) |-> Printed(g, n)]
    <3>1. \A n \in 0..(N + 1) : g[n] = Printed(g, n)
      BY <2>1, <2>2
    <3>2. DOMAIN g = 0..(N + 1) /\ g = [n \in 0..(N + 1) |-> g[n]]
      OBVIOUS
    <3> HIDE DEF g
    <3> QED BY <3>1, <3>2
  <2> QED BY <2>3 DEF IsPrint
<1>3. \A N \in Nat : N \in S => N + 1 \in S
  BY <1>2
<1>4. \A N \in Nat : N \in S
  <2> HIDE DEF S
  <2> QED BY <1>1, <1>3, SetInduction
<1> QED BY <1>4

\* The digits of a number read as the number.
DigitsOf(n, s) == s \in Seq(ToSet(Digit)) /\ Len(s) >= 1 /\ NumberOf(s) = n

LEMMA DigitsRead == \A number \in Nat : DigitsOf(number, Digits(number))
<1> SUFFICES ASSUME NEW N \in Nat PROVE DigitsOf(N, Digits(N))
  OBVIOUS
<1> DEFINE f == CHOOSE g : IsPrint(g, N)
<1>1. IsPrint(f, N)
  BY PrintExists
<1>2. Digits(N) = f[N]
  BY DEF Digits, IsPrint, Printed
<1> HIDE DEF f
<1>3. \A n \in 0..N : f[n] = Printed(f, n)
  BY <1>1 DEF IsPrint
<1>4. ASSUME NEW n \in 0..N, \A m \in 0..N : m < n => DigitsOf(m, f[m])
      PROVE  DigitsOf(n, f[n])
  <2>1. \A v \in 0..9 : Digit[v + 1] \in ToSet(Digit) /\ ValueOf(Digit[v + 1]) = v
    BY DigitValue
  <2>2. ToSet(Digit) \subseteq Chars
    BY DEF Chars
  <2>3. CASE n < 10
    <3> DEFINE c == Digit[n + 1]
    <3>1. f[n] = <<c>> /\ n \in 0..9
      <4>1. f[n] = Printed(f, n)
        BY <1>3
      <4>2. Printed(f, n) = <<c>>
        BY <2>3 DEF Printed
      <4> QED BY <2>3, <4>1, <4>2
    <3>2. c \in ToSet(Digit) /\ ValueOf(c) = n /\ c \in Chars
      BY <2>1, <2>2, <3>1
    <3> HIDE DEF c
    <3>3. <<c>> \in Seq(ToSet(Digit)) /\ Len(<<c>>) = 1 /\ <<c>> = Append(<<>>, c)
      BY <3>2
    <3>4. NumberOf(Append(<<>>, c)) = ReadOn(NumberOf(<<>>), c)
      <4>1. <<>> \in Seq(Chars)
        BY EmptySeq
      <4> QED BY <3>2, <4>1, ReadAppend
    <3>5. NumberOf(<<c>>) = n
      <4>1. ReadOn(0, c) = 10 * 0 + n
        BY <3>2 DEF ReadOn
      <4>2. 10 * 0 + n = n
        OBVIOUS
      <4>3. NumberOf(<<>>) = 0
        BY ReadAppend
      <4> QED BY <3>3, <3>4, <4>1, <4>2, <4>3
    <3> QED BY <3>1, <3>3, <3>5 DEF DigitsOf
  <2>4. CASE n >= 10
    <3>1. PICK q \in Nat, r \in 0..9 : q = n \div 10 /\ r = n % 10 /\ n = 10 * q + r /\ q < n
      BY <2>4, TenthIsLess
    <3> DEFINE s == f[q]
               c == Digit[r + 1]
    <3>2. f[n] = Append(s, c)
      <4>1. f[n] = Printed(f, n)
        BY <1>3
      <4>2. ~(n < 10)
        BY <2>4
      <4>3. Printed(f, n) = Append(f[n \div 10], Digit[(n % 10) + 1])
        BY <4>2 DEF Printed
      <4> QED BY <3>1, <4>1, <4>3
    <3>3. q \in 0..N
      BY <3>1
    <3>4. s \in Seq(ToSet(Digit)) /\ Len(s) >= 1 /\ NumberOf(s) = q
      BY <1>4, <3>1, <3>3 DEF DigitsOf
    <3>5. c \in ToSet(Digit) /\ ValueOf(c) = r /\ c \in Chars
      BY <2>1, <2>2
    <3> HIDE DEF s, c
    <3>6. s \in Seq(Chars)
      BY <2>2, <3>4, SeqMonotonic
    <3>7. NumberOf(Append(s, c)) = 10 * q + r
      <4>1. NumberOf(Append(s, c)) = ReadOn(NumberOf(s), c)
        BY <3>5, <3>6, ReadAppend
      <4> QED BY <3>4, <3>5, <4>1 DEF ReadOn
    <3>8. Append(s, c) \in Seq(ToSet(Digit)) /\ Len(Append(s, c)) >= 1
      <4>1. Append(s, c) \in Seq(ToSet(Digit)) /\ Len(Append(s, c)) = Len(s) + 1
        BY <3>4, <3>5, AppendProperties
      <4>2. Len(s) \in Nat
        BY <3>4, LenProperties
      <4> QED BY <4>1, <4>2
    <3> QED BY <3>1, <3>2, <3>7, <3>8 DEF DigitsOf
  <2> QED BY <2>3, <2>4
<1> DEFINE Bad == {n \in 0..N : ~DigitsOf(n, f[n])}
<1>5. Bad = {}
  <2>1. ASSUME Bad # {} PROVE FALSE
    <3>1. Bad \in SUBSET Nat
      OBVIOUS
    <3>2. PICK n \in Bad : \A m \in Bad : n <= m
      <4> HIDE DEF Bad
      <4> QED BY <2>1, <3>1, LeastNumber
    <3>3. n \in 0..N /\ ~DigitsOf(n, f[n])
      BY <3>2
    <3>4. \A m \in 0..N : m < n => DigitsOf(m, f[m])
      <4> SUFFICES ASSUME NEW m \in 0..N, m < n, ~DigitsOf(m, f[m]) PROVE FALSE
        OBVIOUS
      <4>1. n <= m
        BY <3>2
      <4> QED BY <3>3, <4>1
    <3> QED BY <1>4, <3>3, <3>4
  <2> QED BY <2>1
<1>6. N \in 0..N /\ N \notin Bad
  BY <1>5
<1> QED BY <1>2, <1>6

\* The sign of an amount, which reads as nothing.
SignOf(amt) == IF amt < 0 THEN <<"-">> ELSE <<>>
LEMMA ReadSigned ==
    ASSUME NEW amt \in Int, NEW t \in Seq(Chars)
    PROVE  /\ SignOf(amt) \in Seq(Chars) /\ Len(SignOf(amt)) = IF amt < 0 THEN 1 ELSE 0
           /\ amt < 0 => SignOf(amt)[1] = "-"
           /\ NumberOf(SignOf(amt) \o t) = NumberOf(t)
<1> DEFINE sign == SignOf(amt)
<1>1. "-" \in Chars /\ "-" \notin ToSet(Digit)
  BY DigitValue DEF Chars
<1>2. /\ sign \in Seq(Chars) /\ Len(sign) = IF amt < 0 THEN 1 ELSE 0
      /\ amt < 0 => sign[1] = "-"
  BY <1>1, EmptySeq DEF SignOf
<1>3. NumberOf(sign) = NumberOf(<<>>)
  <2>1. CASE amt < 0
    <3>1. sign = Append(<<>>, "-") /\ <<>> \in Seq(Chars)
      BY <2>1 DEF SignOf
    <3>2. NumberOf(sign) = ReadOn(NumberOf(<<>>), "-")
      BY <1>1, <3>1, ReadAppend
    <3> QED BY <1>1, <3>2 DEF ReadOn
  <2>2. CASE ~(amt < 0)
    BY <2>2 DEF SignOf
  <2> QED BY <2>1, <2>2
<1>4. <<>> \in Seq(Chars) /\ <<>> \o t = t
  BY EmptySeq, ConcatEmptySeq
<1> HIDE DEF sign
<1>5. NumberOf(sign \o t) = NumberOf(<<>> \o t)
  BY <1>2, <1>3, <1>4, ReadConcat
<1> QED BY <1>2, <1>4, <1>5 DEF sign

\* The digits with the zeros in front that make one before the decimal point.
Padded(amt, places) ==
    LET number == Digits(amt) IN [i \in 1..(places + 1 - Len(number)) |-> "0"] \o number

LEMMA PaddedRead ==
    ASSUME NEW amt \in Nat, NEW places \in Nat
    PROVE  /\ Padded(amt, places) \in Seq(ToSet(Digit)) /\ Padded(amt, places) \in Seq(Chars)
           /\ Len(Padded(amt, places)) >= places + 1 /\ NumberOf(Padded(amt, places)) = amt
<1> DEFINE number == Digits(amt)
<1>1. number \in Seq(ToSet(Digit)) /\ NumberOf(number) = amt
  BY DigitsRead DEF DigitsOf
<1>2. PICK L \in Nat : L = Len(number) /\ L >= 1
  BY DigitsRead, LenProperties DEF DigitsOf
<1>3. PICK k \in Nat : 1..(places + 1 - L) = 1..k /\ k + L >= places + 1
  <2>1. CASE places + 1 - L >= 0
    <3>1. places + 1 - L \in Nat /\ (places + 1 - L) + L >= places + 1
      BY <2>1
    <3> QED BY <3>1
  <2>2. CASE places + 1 - L < 0
    <3>1. 1..(places + 1 - L) = 1..0 /\ 0 + L >= places + 1
      BY <2>2
    <3> QED BY <3>1
  <2> QED BY <2>1, <2>2
<1>4. [i \in 1..(places + 1 - Len(number)) |-> "0"] = Zeros(k)
  BY <1>2, <1>3 DEF Zeros
<1>5. ToSet(Digit) \subseteq Chars
  BY DEF Chars
<1> HIDE DEF number
<1>6. Padded(amt, places) = Zeros(k) \o number
  BY <1>4 DEF Padded, number
<1>7. number \in Seq(Chars)
  BY <1>1, <1>5, SeqMonotonic
<1>8. Zeros(k) \in Seq(ToSet(Digit)) /\ Zeros(k) \in Seq(Chars) /\ Len(Zeros(k)) = k /\ NumberOf(Zeros(k)) = 0
  BY ReadZeros
<1>9. Zeros(k) \o number \in Seq(ToSet(Digit)) /\ Len(Zeros(k) \o number) = k + L
  BY <1>1, <1>2, <1>8, ConcatProperties
<1>10. Zeros(k) \o number \in Seq(Chars)
  BY <1>7, <1>8, ConcatProperties
<1>11. NumberOf(Zeros(k) \o number) = amt
  <2>1. <<>> \in Seq(Chars) /\ NumberOf(<<>>) = 0 /\ <<>> \o number = number
    BY <1>7, EmptySeq, ReadAppend, ConcatEmptySeq
  <2>3. NumberOf(Zeros(k)) = NumberOf(<<>>)
    BY <1>8, <2>1
  <2>4. <<>> \in Seq(Chars)
    BY <2>1
  <2>2. NumberOf(Zeros(k) \o number) = NumberOf(<<>> \o number)
    BY <1>7, <1>8, <2>3, <2>4, ReadConcat
  <2> QED BY <1>1, <2>1, <2>2
<1> QED BY <1>3, <1>6, <1>9, <1>10, <1>11

\* An amount reads back, has its sign, and a digit on both sides of its point (fmtamt.c).
AmountRead(amt, places, str) ==
    /\ NumberOf(str) = IF amt < 0 THEN -amt ELSE amt
    /\ (str[1] = "-") = (amt < 0)
    /\ places > 0 => /\ str[Len(str) - places] = "."
                     /\ {str[Len(str)], str[Len(str) - places - 1]} \subseteq ToSet(Digit)

LEMMA WithoutPoint ==
    ASSUME NEW amt \in Int, NEW number \in Seq(ToSet(Digit)), Len(number) >= 1,
           NumberOf(number) = IF amt < 0 THEN -amt ELSE amt
    PROVE  AmountRead(amt, 0, SignOf(amt) \o number)
<1> DEFINE sign == SignOf(amt)
           str == sign \o number
<1>1. number \in Seq(Chars) /\ "-" \notin ToSet(Digit)
  <2>1. ToSet(Digit) \subseteq Chars
    BY DEF Chars
  <2> QED BY <2>1, SeqMonotonic, DigitValue
<1>2. PICK L \in Nat, z \in Nat : L = Len(number) /\ z = Len(sign) /\ L >= 1
  BY <1>1, LenProperties, ReadSigned
<1>3. sign \in Seq(Chars) /\ (z = IF amt < 0 THEN 1 ELSE 0) /\ (amt < 0 => sign[1] = "-")
  BY <1>1, <1>2, ReadSigned
<1>4. NumberOf(str) = IF amt < 0 THEN -amt ELSE amt
  BY <1>1, ReadSigned
<1>5. str[1] = IF 1 <= z THEN sign[1] ELSE number[1 - z]
  <2>1. 1 \in 1..(z + L)
    BY <1>2
  <2> HIDE DEF sign
  <2>2. \A i \in 1..(Len(sign) + Len(number)) :
           str[i] = IF i <= Len(sign) THEN sign[i] ELSE number[i - Len(sign)]
    BY <1>1, <1>3, ConcatProperties
  <2> QED BY <1>2, <2>1, <2>2
<1>6. str[1] = "-" <=> amt < 0
  <2>1. CASE amt < 0
    BY <1>3, <1>5, <2>1
  <2>2. CASE ~(amt < 0)
    <3>1. str[1] = number[1] /\ number[1] \in ToSet(Digit)
      BY <1>2, <1>3, <1>5, <2>2, ElementOfSeq
    <3> QED BY <1>1, <2>2, <3>1
  <2> QED BY <2>1, <2>2
<1> HIDE DEF str
<1>7. (str[1] = "-") = (amt < 0)
  BY <1>6
<1> QED BY <1>4, <1>7 DEF AmountRead, str

LEMMA WithPoint ==
    ASSUME NEW amt \in Int, NEW places \in Nat, places > 0, NEW digits \in Seq(ToSet(Digit)),
           Len(digits) >= places + 1, NumberOf(digits) = IF amt < 0 THEN -amt ELSE amt
    PROVE  LET point == Len(digits) - places IN
           AmountRead(amt, places,
             SignOf(amt) \o SubSeq(digits, 1, point) \o <<".">> \o SubSeq(digits, point + 1, Len(digits)))
<1> DEFINE sign == SignOf(amt)
           point == Len(digits) - places
           pre == SubSeq(digits, 1, point)
           post == SubSeq(digits, point + 1, Len(digits))
           signed == sign \o pre
           pointed == signed \o <<".">>
           str == pointed \o post
<1>1. ToSet(Digit) \subseteq Chars /\ digits \in Seq(Chars) /\ "." \in Chars /\ "." \notin ToSet(Digit) /\ "-" \notin ToSet(Digit)
  <2>1. ToSet(Digit) \subseteq Chars /\ "." \in Chars
    BY DEF Chars
  <2> QED BY <2>1, SeqMonotonic, DigitValue
<1>2. PICK M \in Nat, p \in Nat : M = Len(digits) /\ p = M - places /\ p >= 1 /\ p <= M /\ p = point
  <2>1. Len(digits) \in Nat
    BY <1>1, LenProperties
  <2> QED BY <2>1
<1>3. \A i \in 1..M : digits[i] \in ToSet(Digit)
  BY <1>2, ElementOfSeq
<1>4. pre \in Seq(ToSet(Digit)) /\ Len(pre) = p /\ \A i \in 1..p : pre[i] = digits[i]
  <2>1. pre = SubSeq(digits, 1, p)
    BY <1>2
  <2> HIDE DEF pre, point
  <2>2. \A i \in 1..p : digits[i] \in ToSet(Digit) /\ 1 + i - 1 = i
    BY <1>2, <1>3
  <2>3. pre \in Seq(ToSet(Digit)) /\ Len(pre) = p - 1 + 1 /\ \A i \in 1..(p - 1 + 1) : pre[i] = digits[1 + i - 1]
    BY <1>2, <2>1, <2>2, SubSeqProperties
  <2>4. p - 1 + 1 = p
    OBVIOUS
  <2> QED BY <2>2, <2>3, <2>4
<1>5. post \in Seq(ToSet(Digit)) /\ Len(post) = places /\ post[places] = digits[M]
  <2>1. post = SubSeq(digits, p + 1, M)
    BY <1>2
  <2> HIDE DEF post, point
  <2>2. \A i \in (p + 1)..M : digits[i] \in ToSet(Digit)
    BY <1>2, <1>3
  <2>3. p + 1 \in Int /\ M \in Int /\ p + 1 <= M /\ M - (p + 1) + 1 = places /\ (p + 1) + places - 1 = M
    BY <1>2
  <2>4. post \in Seq(ToSet(Digit)) /\ Len(post) = M - (p + 1) + 1
        /\ \A i \in 1..(M - (p + 1) + 1) : post[i] = digits[(p + 1) + i - 1]
    BY <2>1, <2>2, <2>3, SubSeqProperties
  <2>5. places \in 1..(M - (p + 1) + 1)
    BY <2>3
  <2> QED BY <2>3, <2>4, <2>5
<1>6. pre \o post = digits
  <2>1. pre = SubSeq(digits, 1, p) /\ post = SubSeq(digits, p + 1, M)
    BY <1>2
  <2> HIDE DEF pre, post, point
  <2>2. 1 \in 1..(Len(digits) + 1) /\ p \in (1 - 1)..Len(digits) /\ M \in p..Len(digits)
    BY <1>2
  <2>3. SubSeq(digits, 1, p) \o SubSeq(digits, p + 1, M) = SubSeq(digits, 1, M)
    BY <2>2, ConcatAdjacentSubSeq
  <2> QED BY <1>2, <2>1, <2>3, SubSeqFull
<1> HIDE DEF pre, post, point
<1>7. pre \in Seq(Chars) /\ post \in Seq(Chars)
  BY <1>1, <1>4, <1>5, SeqMonotonic
<1>8. PICK z \in Nat : /\ z = Len(sign) /\ (z = IF amt < 0 THEN 1 ELSE 0)
                       /\ sign \in Seq(Chars) /\ (amt < 0 => sign[1] = "-")
  <2>1. /\ sign \in Seq(Chars) /\ Len(sign) = IF amt < 0 THEN 1 ELSE 0
        /\ amt < 0 => sign[1] = "-"
    BY <1>1, ReadSigned
  <2>2. Len(sign) \in Nat
    BY <2>1, LenProperties
  <2> HIDE DEF sign
  <2> QED BY <2>1, <2>2
<1> HIDE DEF sign
<1>9. /\ signed \in Seq(Chars) /\ Len(signed) = z + p
      /\ \A i \in 1..(z + p) : signed[i] = IF i <= z THEN sign[i] ELSE pre[i - z]
  <2>3. sign \in Seq(Chars) /\ pre \in Seq(Chars)
    BY <1>7, <1>8
  <2>1. signed \in Seq(Chars) /\ Len(signed) = Len(sign) + Len(pre)
    BY <2>3, ConcatProperties
  <2>2. \A i \in 1..(Len(sign) + Len(pre)) : signed[i] = IF i <= Len(sign) THEN sign[i] ELSE pre[i - Len(sign)]
    BY <2>3, ConcatProperties
  <2> HIDE DEF signed
  <2> QED BY <1>4, <1>8, <2>1, <2>2
<1> HIDE DEF signed
<1>10. pointed = Append(signed, ".")
  BY <1>1, <1>9, AppendIsConcat
<1>11. /\ pointed \in Seq(Chars) /\ Len(pointed) = z + p + 1 /\ pointed[z + p + 1] = "."
       /\ \A i \in 1..(z + p) : pointed[i] = signed[i]
  <2> HIDE DEF pointed
  <2>1. /\ pointed \in Seq(Chars) /\ Len(pointed) = Len(signed) + 1 /\ pointed[Len(signed) + 1] = "."
        /\ \A i \in 1..Len(signed) : pointed[i] = signed[i]
    BY <1>1, <1>9, <1>10, AppendProperties
  <2> QED BY <1>9, <2>1
<1>12. NumberOf(pointed) = NumberOf(signed)
  <2>1. NumberOf(Append(signed, ".")) = ReadOn(NumberOf(signed), ".")
    BY <1>1, <1>9, ReadAppend
  <2> QED BY <1>1, <1>10, <2>1 DEF ReadOn
<1> HIDE DEF pointed
<1>13. /\ str \in Seq(Chars) /\ Len(str) = z + p + 1 + places
       /\ \A i \in 1..(z + p + 1 + places) : str[i] = IF i <= z + p + 1 THEN pointed[i] ELSE post[i - (z + p + 1)]
  <2>1. /\ str \in Seq(Chars) /\ Len(str) = Len(pointed) + Len(post)
        /\ \A i \in 1..(Len(pointed) + Len(post)) : str[i] = IF i <= Len(pointed) THEN pointed[i] ELSE post[i - Len(pointed)]
    BY <1>7, <1>11, ConcatProperties
  <2> HIDE DEF str
  <2> QED BY <1>5, <1>11, <2>1
<1>14. NumberOf(str) = IF amt < 0 THEN -amt ELSE amt
  <2>1. NumberOf(str) = NumberOf(signed \o post)
    BY <1>7, <1>9, <1>11, <1>12, ReadConcat
  <2>2. signed \o post = sign \o (pre \o post)
    BY SMTT(30), <1>7, <1>8, ConcatAssociative DEF signed
  <2>3. NumberOf(sign \o digits) = NumberOf(digits)
    BY <1>1, ReadSigned DEF sign
  <2> QED BY <1>6, <2>1, <2>2, <2>3
<1> HIDE DEF str
<1>15. (str[1] = "-") = (amt < 0)
  <2>1. 1 \in 1..(z + p) /\ 1 \in 1..(z + p + 1 + places) /\ 1 <= z + p + 1
    BY <1>2
  <2>2. str[1] = IF 1 <= z THEN sign[1] ELSE pre[1 - z]
    BY <1>9, <1>11, <1>13, <2>1
  <2>3. CASE amt < 0
    <3>1. str[1] = "-"
      BY <1>8, <2>2, <2>3
    <3> QED BY <2>3, <3>1
  <2>4. CASE ~(amt < 0)
    <3>1. z = 0 /\ 1 - z = 1 /\ 1 \in 1..p /\ 1 \in 1..M
      BY <1>2, <1>8, <2>4
    <3>2. str[1] = digits[1]
      BY <1>4, <2>2, <3>1
    <3>3. digits[1] \in ToSet(Digit)
      BY <1>3, <3>1
    <3>4. str[1] # "-"
      BY <1>1, <3>2, <3>3
    <3> QED BY <2>4, <3>4
  <2> QED BY <2>3, <2>4
<1>16. str[Len(str) - places] = "."
  <2>1. Len(str) - places = z + p + 1 /\ z + p + 1 \in 1..(z + p + 1 + places)
    BY <1>13
  <2> QED BY <1>11, <1>13, <2>1
<1>17. str[Len(str)] \in ToSet(Digit)
  <2>1. PICK K \in Nat : K = z + p + 1 + places /\ K = Len(str)
    BY <1>13
  <2>2. K \in 1..K /\ ~(K <= z + p + 1) /\ K - (z + p + 1) = places /\ M \in 1..M
    BY <1>2, <2>1
  <2>3. str[K] = post[places]
    BY <1>13, <2>1, <2>2
  <2> QED BY <1>3, <1>5, <2>1, <2>2, <2>3
<1>18. str[Len(str) - places - 1] \in ToSet(Digit)
  <2>1. PICK K \in Nat, q \in Nat : K = z + p + 1 + places /\ K = Len(str) /\ q = z + p
    BY <1>13
  <2>2. K - places - 1 = q
    BY <2>1
  <2>3. q \in 1..K /\ q \in 1..(z + p) /\ q <= z + p + 1 /\ ~(q <= z) /\ q - z = p /\ p \in 1..p /\ p \in 1..M
    BY <1>2, <2>1
  <2>4. str[q] = pointed[q]
    BY <1>13, <2>1, <2>3
  <2>5. pointed[q] = signed[q]
    BY <1>11, <2>3
  <2>6. signed[q] = pre[p]
    BY <1>9, <2>3
  <2> QED BY <1>3, <1>4, <2>1, <2>2, <2>3, <2>4, <2>5, <2>6
<1>19. AmountRead(amt, places, str)
  BY <1>14, <1>15, <1>16, <1>17, <1>18 DEF AmountRead
<1> QED BY <1>19 DEF str, pointed, signed, sign, pre, post, point

LEMMA FormatAmountSafe == ASSUME FormatAmount PROVE AmountsRead'
<1>1. PICK amt \in -MaxAmount..MaxAmount, places \in 0..MaxPlaces :
          Call("FmtAmt", [amt |-> amt, places |-> places], [str |-> FmtAmt(amt, places)])
  BY DEF FormatAmount
<1>2. amt \in Int /\ places \in Nat
  BY HelpersAssumption DEF HelpersAssumption
<1> DEFINE abs == IF amt < 0 THEN -amt ELSE amt
           digits == Padded(abs, places)
<1>3. abs \in Nat
  BY <1>2
<1>4. AmountRead(amt, places, FmtAmt(amt, places))
  <2>1. CASE places = 0
    <3>1. FmtAmt(amt, places) = SignOf(amt) \o Digits(abs)
      BY <2>1 DEF FmtAmt, SignOf
    <3>2. Digits(abs) \in Seq(ToSet(Digit)) /\ Len(Digits(abs)) >= 1 /\ NumberOf(Digits(abs)) = abs
      <4> HIDE DEF abs
      <4> QED BY <1>3, DigitsRead DEF DigitsOf
    <3>3. AmountRead(amt, 0, SignOf(amt) \o Digits(abs))
      BY <1>2, <3>2, WithoutPoint
    <3> QED BY <2>1, <3>1, <3>3
  <2>2. CASE places # 0
    <3>1. FmtAmt(amt, places) = SignOf(amt) \o SubSeq(digits, 1, Len(digits) - places) \o <<".">>
                                \o SubSeq(digits, Len(digits) - places + 1, Len(digits))
      BY <2>2 DEF FmtAmt, SignOf, Padded
    <3>2. digits \in Seq(ToSet(Digit)) /\ Len(digits) >= places + 1 /\ NumberOf(digits) = abs
      <4> HIDE DEF abs
      <4> QED BY <1>2, <1>3, PaddedRead
    <3>3. places > 0 /\ NumberOf(digits) = IF amt < 0 THEN -amt ELSE amt
      BY <1>2, <2>2, <3>2
    <3> HIDE DEF digits
    <3> QED BY SMTT(30), <1>2, <3>1, <3>2, <3>3, WithPoint
  <2> QED BY <2>1, <2>2
<1>5. helperIn'.amt = amt /\ helperIn'.places = places /\ helperOut'.str = FmtAmt(amt, places)
  BY <1>1 DEF Call
<1> QED BY <1>4, <1>5 DEF AmountsRead, AmountRead

(***************************************************************************)
(* A call sets its own name, which the other parts of the property do not  *)
(* speak of.                                                               *)
(***************************************************************************)
LEMMA HelpersInitAgree == HelpersInit => HelpersAgree
BY DEF HelpersInit, HelpersAgree, CardSafe, FieldsSafe, AmountsRead

LEMMA OtherCalls ==
    /\ helper' # "IsValidCreditCardNo" => CardSafe'
    /\ helper' \notin {"StrToBuf", "EmailAddressUserHide", "PmtDocNoHide"} => FieldsSafe'
    /\ helper' # "FmtAmt" => AmountsRead'
BY DEF CardSafe, FieldsSafe, AmountsRead

LEMMA HelpersStep == HelpersAgree /\ [HelpersNext]_helperVars => HelpersAgree'
<1> SUFFICES ASSUME HelpersAgree, [HelpersNext]_helperVars PROVE HelpersAgree'
  OBVIOUS
<1>1. CASE CheckCard
  <2>1. helper' = "IsValidCreditCardNo"
    BY <1>1 DEF CheckCard, Call
  <2> QED BY <1>1, <2>1, CheckCardSafe, OtherCalls DEF HelpersAgree
<1>2. CASE PadField
  <2>1. helper' = "StrToBuf"
    BY <1>2 DEF PadField, Call
  <2> QED BY <1>2, <2>1, PadFieldSafe, OtherCalls DEF HelpersAgree
<1>3. CASE HideEmail
  <2>1. helper' = "EmailAddressUserHide"
    BY <1>3 DEF HideEmail, Call
  <2> QED BY <1>3, <2>1, HideEmailSafe, OtherCalls DEF HelpersAgree
<1>4. CASE HideDocNo
  <2>1. helper' = "PmtDocNoHide"
    BY <1>4 DEF HideDocNo, Call
  <2> QED BY <1>4, <2>1, HideDocNoSafe, OtherCalls DEF HelpersAgree
<1>5. CASE FormatAmount
  <2>1. helper' = "FmtAmt"
    BY <1>5 DEF FormatAmount, Call
  <2> QED BY <1>5, <2>1, FormatAmountSafe, OtherCalls DEF HelpersAgree
<1>6. CASE FormatDate
  <2>1. helper' = "FmtDateDDMonYYYY"
    BY <1>6 DEF FormatDate, Call
  <2> QED BY <2>1, OtherCalls DEF HelpersAgree
<1>7. CASE RemoveNewLine
  <2>1. helper' = "StrRmTrailNewLine"
    BY <1>7 DEF RemoveNewLine, Call
  <2> QED BY <2>1, OtherCalls DEF HelpersAgree
<1>8. CASE UNCHANGED helperVars
  BY ZenonT(60), <1>8 DEF helperVars, HelpersAgree, CardSafe, FieldsSafe, AmountsRead
<1> QED BY <1>1, <1>2, <1>3, <1>4, <1>5, <1>6, <1>7, <1>8 DEF HelpersNext

\* What the helpers return is what they are for: a check sum that finds a mistyped
\* digit and swapped neighbours, fields that read back, amounts that read as the
\* number (ccchecksum.c, strutils.c, fmtamt.c).
THEOREM HelpersReturnWhatTheyPromise == HelpersSpec => []HelpersAgree
<1>1. HelpersInit => HelpersAgree
  BY HelpersInitAgree
<1>2. HelpersAgree /\ [HelpersNext]_helperVars => HelpersAgree'
  BY HelpersStep
<1> QED BY <1>1, <1>2, PTL DEF HelpersSpec
=============================================================================
