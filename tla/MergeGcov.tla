------------------------------ MODULE MergeGcov ------------------------------
(***************************************************************************)
(* The coverage merge tool (mergegcov/mergegcov.c): two gcov files of the  *)
(* same source are read line by line, side by side, and the counts of the  *)
(* lines that have the same number are added.  A line is its number, the   *)
(* mark in front of the first colon ("plain" if there is none) and the     *)
(* count; the text of a line with a number above 0 is the same in both     *)
(* files and is left out.                                                  *)
(***************************************************************************)
EXTENDS Integers, Sequences, SequencesExt

CONSTANT MaxLine                \* the highest line number of a gcov file

ASSUME MergeAssumption == MaxLine \in Nat

VARIABLES
    mergePc,        \* "start", "loop", "totals", "done", or "crashed"
    mergeIn,        \* history: what the two files hold
    file,           \* filen_t of the two files
    merged,         \* the lines written to the outfile
    execlinecnt, srcfilename, exitcode

mergeVars == <<mergePc, mergeIn, file, merged, execlinecnt, srcfilename, exitcode>>

Line(no, mark, cnt, text) == [lineno |-> no, mark |-> mark, hitcnt |-> cnt, outbuf |-> text]
NoLine == Line(0, "", 0, "")            \* memset
SkipLine == Line(0, "skip", 0, "")      \* fewer than two colons: the rest of a long line
Source(name) == Line(0, "-", 0, name)
Body(no) == {Line(no, "-", 0, "text"), Line(no, "#", 0, "text"), Line(no, "*", 1, "text"),
             Line(no, "plain", 1, "text"), Line(no, "plain", 2, "text")}

\* The files: the name of the source or not, then some of its lines, in order.
Bodies[n \in 0..MaxLine] ==
    IF n = 0 THEN {<<>>}
    ELSE Bodies[n - 1] \cup {Append(b, l) : b \in Bodies[n - 1], l \in Body(n)}
Files == {<<Source("Source:a")>> \o b : b \in Bodies[MaxLine]}
         \cup {<<>>, <<Source("Source:b")>>, <<Line(0, "-", 0, "Runs:1")>>}
         \cup {<<Source("Source:a"), SkipLine, Line(1, "plain", 1, "text")>>,
               <<Source("Source:a"), Line(1, "plain", 1, "text"), SkipLine>>}

Opened(lines) == [rest |-> lines, line |-> NoLine, read |-> TRUE, eof |-> FALSE,
                  skipline |-> FALSE, totallinecnt |-> 0]

MergeInit ==
    /\ mergePc = "start" /\ mergeIn = <<>> /\ file = <<Opened(<<>>), Opened(<<>>)>>
    /\ merged = <<>> /\ execlinecnt = 0 /\ srcfilename = "" /\ exitcode = 0

\* The checks of the arguments, memset, and the three fopen().
MergeOpen ==
    /\ mergePc = "start" /\ UNCHANGED <<merged, execlinecnt, srcfilename>>
    /\ \/ /\ \E f1, f2 \in Files : mergeIn' = <<f1, f2>> /\ file' = <<Opened(f1), Opened(f2)>>
          /\ mergePc' = "loop" /\ UNCHANGED exitcode
       \/ mergePc' = "done" /\ exitcode' = 1 /\ UNCHANGED <<mergeIn, file>>

\* readline: a line that is skipped, and the end of the file, leave the fields of
\* the last line as they are.
Readline(f) ==
    IF f.eof \/ ~f.read THEN f
    ELSE IF f.rest = <<>> THEN [f EXCEPT !.eof = TRUE, !.skipline = FALSE]
    ELSE LET l == Head(f.rest) IN
         IF l.mark = "skip" THEN [f EXCEPT !.rest = Tail(@), !.skipline = TRUE]
         ELSE [f EXCEPT !.rest = Tail(@), !.skipline = FALSE, !.line = l,
                        !.totallinecnt = IF l.mark = "-" THEN @ ELSE @ + 1]
Reads(f) == ~f.eof /\ f.read

\* Mutant: the file that is behind waits.
SetReadSwapped(f1, f2, r1, r2) == file' = <<[f1 EXCEPT !.read = r2], [f2 EXCEPT !.read = r1]>>

\* Which files are to be read next.
SetRead(f1, f2, r1, r2) == file' = <<[f1 EXCEPT !.read = r1], [f2 EXCEPT !.read = r2]>>

\* Mutant: a line keeps the star of either file.
SumOrStar(l1, l2) ==
    IF l1 = l2 /\ l1.hitcnt = 0 THEN l1
    ELSE Line(l1.lineno, IF l1.mark = "*" \/ l2.mark = "*" THEN "*" ELSE "plain",
              l1.hitcnt + l2.hitcnt, l1.outbuf)

\* The line that is written for a line of both files, and its weight.
SumOf(l1, l2) ==
    IF l1 = l2 /\ l1.hitcnt = 0 THEN l1
    ELSE Line(l1.lineno, IF l1.mark = "*" /\ l2.mark = "*" THEN "*" ELSE "plain",
              l1.hitcnt + l2.hitcnt, l1.outbuf)
Weight(l1, l2) == CASE l1 = l2 /\ l1.hitcnt = 0 -> 0
                    [] SumOf(l1, l2).mark = "*" -> 5
                    [] OTHER -> 10

\* The line with number 0: the names must be the same.
SourceLine(l1, l2) ==
    IF l1.outbuf \notin {"Source:a", "Source:b"}
    THEN UNCHANGED <<mergePc, merged, srcfilename, exitcode>>
    ELSE IF l1.outbuf # l2.outbuf
    THEN mergePc' = "done" /\ exitcode' = 1 /\ UNCHANGED <<merged, srcfilename>>
    ELSE /\ merged' = Append(merged, l1) /\ srcfilename' = l1.outbuf
         /\ UNCHANGED <<mergePc, exitcode>>

\* One turn of the loop in which nothing, or both lines, are taken.  As the code
\* has it, a line that is skipped in the second file drops the one that was just
\* read from the first.
Compare(f1, f2) ==
    /\ UNCHANGED mergeIn
    /\ CASE f1.eof /\ f2.eof ->
                /\ file' = <<f1, f2>> /\ mergePc' = "totals"
                /\ UNCHANGED <<merged, execlinecnt, srcfilename, exitcode>>
         [] ~(f1.eof /\ f2.eof) /\ f1.line.lineno # f2.line.lineno ->
                /\ SetRead(f1, f2, f1.line.lineno < f2.line.lineno, f1.line.lineno > f2.line.lineno)
                /\ UNCHANGED <<mergePc, merged, execlinecnt, srcfilename, exitcode>>
         [] OTHER ->
                /\ SetRead(f1, f2, TRUE, TRUE)
                /\ IF f1.line.lineno = 0 THEN SourceLine(f1.line, f2.line) /\ UNCHANGED execlinecnt
                   ELSE /\ merged' = Append(merged, SumOf(f1.line, f2.line))
                        /\ execlinecnt' = execlinecnt + Weight(f1.line, f2.line)
                        /\ UNCHANGED <<mergePc, srcfilename, exitcode>>
MergeTurn ==
    LET f1 == Readline(file[1])  f2 == Readline(file[2]) IN
    /\ mergePc = "loop"
    /\ CASE Reads(file[1]) /\ f1.skipline ->
                /\ file' = <<f1, file[2]>>
                /\ UNCHANGED <<mergePc, mergeIn, merged, execlinecnt, srcfilename, exitcode>>
         [] ~(Reads(file[1]) /\ f1.skipline) /\ Reads(file[2]) /\ f2.skipline ->
                /\ file' = <<f1, f2>>
                /\ UNCHANGED <<mergePc, mergeIn, merged, execlinecnt, srcfilename, exitcode>>
         [] OTHER -> Compare(f1, f2)

\* ferror() on either file.
ReadError ==
    /\ mergePc = "loop" /\ (Reads(file[1]) \/ Reads(file[2]))
    /\ mergePc' = "done" /\ exitcode' = 1
    /\ UNCHANGED <<mergeIn, file, merged, execlinecnt, srcfilename>>

\* The checks behind the loop, and the percentage, a division by the number of
\* lines that have code.
MergeTotals ==
    /\ mergePc = "totals" /\ UNCHANGED <<mergeIn, file, merged, execlinecnt, srcfilename>>
    /\ IF srcfilename = "" \/ file[1].totallinecnt # file[2].totallinecnt
       THEN mergePc' = "done" /\ exitcode' = 1
       ELSE /\ mergePc' = IF file[1].totallinecnt = 0 THEN "crashed" ELSE "done"
            /\ UNCHANGED exitcode

MergeNext == MergeOpen \/ MergeTurn \/ ReadError \/ MergeTotals
MergeGoesOn == MergeTurn \/ MergeTotals
MergeSpec == MergeInit /\ [][MergeNext]_mergeVars /\ WF_mergeVars(MergeGoesOn)
-----------------------------------------------------------------------------
\* The lines of a file by number, when nothing of it was skipped.
NumbersOf(lines) == {l.lineno : l \in ToSet(lines)} \ {0}
LineOf(lines, n) == CHOOSE l \in ToSet(lines) : l.lineno = n
LastOf(lines) == CHOOSE n \in NumbersOf(lines) \cup {0} : \A m \in NumbersOf(lines) : m <= n
Skips == \E f \in {1, 2} : SkipLine \in ToSet(mergeIn[f])

\* The lines that both have, their counts, and what those up to n weigh together.
Common(s, t) == NumbersOf(s) \cap NumbersOf(t)
HitsOf(s, t, n) == LineOf(s, n).hitcnt + LineOf(t, n).hitcnt
BothStar(s, t, n) == LineOf(s, n).mark = "*" /\ LineOf(t, n).mark = "*"
WeightAt(s, t, n) == IF n \notin Common(s, t) \/ HitsOf(s, t, n) = 0 THEN 0
                     ELSE IF BothStar(s, t, n) THEN 5 ELSE 10
Weighed(s, t) ==
    LET weigh[n \in 0..MaxLine] == IF n = 0 THEN 0 ELSE weigh[n - 1] + WeightAt(s, t, n) IN weigh
SameCode(s, t) == \A n \in Common(s, t) : (LineOf(s, n).mark = "-") = (LineOf(t, n).mark = "-")

\* The lines of s and t up to k, merged, and their total when the same lines have code.
IsMerged(lines, total, s, t, k) ==
    /\ {lines[i].lineno : i \in DOMAIN lines} \ {0} = {n \in Common(s, t) : n <= k}
    /\ \A i, j \in DOMAIN lines : i < j => lines[i].lineno < lines[j].lineno
    /\ \A i \in DOMAIN lines : LET n == lines[i].lineno IN
          n # 0 => lines[i].hitcnt = HitsOf(s, t, n) /\ (lines[i].mark = "*") = BothStar(s, t, n)
    /\ SameCode(s, t) => total = Weighed(s, t)[k]

\* The merged file has each line of both files once, in order, with its count the
\* sum of theirs, whatever other lines either file has, and an executed line of
\* both is executed in it; the total is right when they have the same code.
MergeIsUnion ==
    mergePc \in {"done", "crashed"} /\ exitcode = 0 /\ ~Skips =>
        IsMerged(merged, execlinecnt, mergeIn[1], mergeIn[2], MaxLine)

\* mergegcov ends when the last lines of the files have the same number, whatever
\* else they lack or skip.  With different ones it turns in its loop for ever: the
\* file that has ended is the one that it wants to read (138-181).
MergeEnds ==
    mergePc = "loop" /\ LastOf(mergeIn[1]) = LastOf(mergeIn[2])
        ~> mergePc \in {"done", "crashed"}
=============================================================================
