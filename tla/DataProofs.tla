----------------------------- MODULE DataProofs -----------------------------
(***************************************************************************)
(* The parts of the library whose properties speak of what is computed     *)
(* over a list, for every value of their constants: the names of the       *)
(* threads, the messages in a stream, the merged coverage file; then the   *)
(* parts side by side.                                                     *)
(***************************************************************************)
EXTENDS LibraryProofs, MCLibrary, FiniteSetTheorems

-----------------------------------------------------------------------------
(***************************************************************************)
(* The list of the threads' names.                                         *)
(***************************************************************************)
\* An element that is in a sequence once: what is left without it.
LEMMA RemoveOne ==
    ASSUME NEW S, NEW s \in Seq(S), IsInjective(s), NEW k \in 1..Len(s)
    PROVE  LET r == RemoveFirst(s, s[k]) IN
           /\ r \in Seq(S) /\ Len(r) = Len(s) - 1
           /\ \A i \in 1..(Len(s) - 1) : r[i] = IF i < k THEN s[i] ELSE s[i + 1]
           /\ IsInjective(r) /\ ToSet(r) = ToSet(s) \ {s[k]}
<1> DEFINE r == RemoveFirst(s, s[k])
<1>0. DOMAIN s = 1..Len(s) /\ Len(s) \in Nat /\ \A i \in 1..Len(s) : s[i] \in S
  BY LenProperties
<1>1. SelectInSeq(s, LAMBDA v : v = s[k]) = k
  <2>1. {i \in 1..Len(s) : s[i] = s[k]} = {k}
    BY <1>0 DEF IsInjective
  <2> QED BY <2>1, <1>0 DEF SelectInSeq, Min
<1>2. r = SubSeq(s, 1, k - 1) \o SubSeq(s, k + 1, Len(s))
  BY <1>1 DEF RemoveFirst, RemoveAt
<1> DEFINE a == SubSeq(s, 1, k - 1)
           b == SubSeq(s, k + 1, Len(s))
<1>3. a \in Seq(S) /\ Len(a) = k - 1 /\ \A i \in 1..(k - 1) : a[i] = s[i]
  <2>1. \A i \in 1..(k - 1) : s[i] \in S
    BY <1>0
  <2> QED BY <1>0, <2>1, SubSeqProperties
<1>4. b \in Seq(S) /\ Len(b) = Len(s) - k /\ \A i \in 1..(Len(s) - k) : b[i] = s[k + i]
  <2>1. \A i \in (k + 1)..Len(s) : s[i] \in S
    BY <1>0
  <2>2. /\ SubSeq(s, k + 1, Len(s)) \in Seq(S)
        /\ Len(SubSeq(s, k + 1, Len(s))) = IF k + 1 <= Len(s) THEN Len(s) - (k + 1) + 1 ELSE 0
        /\ \A i \in 1..(Len(s) - (k + 1) + 1) : SubSeq(s, k + 1, Len(s))[i] = s[(k + 1) + i - 1]
    <3>1. k + 1 \in Int /\ Len(s) \in Int
      BY <1>0
    <3> QED BY <2>1, <3>1, SubSeqProperties
  <2>3. /\ b \in Seq(S) /\ Len(b) = IF k + 1 <= Len(s) THEN Len(s) - (k + 1) + 1 ELSE 0
        /\ \A i \in 1..(Len(s) - (k + 1) + 1) : b[i] = s[(k + 1) + i - 1]
    BY <2>2, Zenon
  <2> HIDE DEF b
  <2>4. ASSUME NEW i \in 1..(Len(s) - k) PROVE b[i] = s[k + i]
    <3>1. i \in 1..(Len(s) - (k + 1) + 1) /\ (k + 1) + i - 1 = k + i
      BY <1>0
    <3> QED BY <3>1, <2>3
  <2> QED BY <2>3, <2>4
<1> HIDE DEF a, b
<1>5. r \in Seq(S) /\ Len(r) = Len(s) - 1
  <2>1. r = a \o b
    BY <1>2 DEF a, b
  <2> HIDE DEF r
  <2>2. r \in Seq(S) /\ Len(r) = Len(a) + Len(b)
    BY <2>1, <1>3, <1>4, ConcatProperties
  <2> QED BY <2>2, <1>0, <1>3, <1>4
<1>6. ASSUME NEW i \in 1..(Len(s) - 1) PROVE r[i] = IF i < k THEN s[i] ELSE s[i + 1]
  <2>0. r = a \o b
    BY <1>2 DEF a, b
  <2>1. r[i] = IF i <= k - 1 THEN a[i] ELSE b[i - (k - 1)]
    <3> HIDE DEF r
    <3> QED BY SMTT(30), <1>0, <2>0, <1>3, <1>4, ConcatProperties
  <2> HIDE DEF r
  <2> QED BY <2>1, <1>0, <1>3, <1>4
<1>7. DOMAIN r = 1..(Len(s) - 1)
  BY <1>0, <1>5, LenProperties
<1> HIDE DEF r
<1>8. IsInjective(r)
  <2> SUFFICES ASSUME NEW i \in DOMAIN r, NEW j \in DOMAIN r, r[i] = r[j] PROVE i = j
    BY DEF IsInjective
  <2>1. \A m, n \in 1..Len(s) : s[m] = s[n] => m = n
    BY <1>0 DEF IsInjective
  <2> QED BY <1>0, <1>6, <1>7, <2>1
<1>9. ToSet(r) = ToSet(s) \ {s[k]}
  <2>1. \A i \in 1..(Len(s) - 1) : r[i] \in ToSet(s) \ {s[k]}
    BY <1>0, <1>6 DEF ToSet, IsInjective
  <2>2. ASSUME NEW i \in 1..Len(s), i # k PROVE s[i] \in ToSet(r)
    <3>1. CASE i < k
      BY <3>1, <1>0, <1>6, <1>7 DEF ToSet
    <3>2. CASE i > k
      <4>1. i - 1 \in 1..(Len(s) - 1) /\ r[i - 1] = s[i]
        BY <3>2, <1>0, <1>6
      <4> QED BY <4>1, <1>7 DEF ToSet
    <3> QED BY <3>1, <3>2, <2>2, <1>0
  <2> QED BY <2>1, <2>2, <1>0, <1>7 DEF ToSet
<1> QED BY <1>5, <1>6, <1>8, <1>9 DEF r

\* The next pointers lead from the head variable through these names to the end.
Linked(nxt, names) ==
    /\ nxt[Head0] = IF names = <<>> THEN Nil ELSE names[1]
    /\ \A i \in 1..Len(names) : nxt[names[i]] = IF i = Len(names) THEN Nil ELSE names[i + 1]

\* No name is twice in a list, so it has at most as many as there are threads.
LEMMA ListIsShort ==
    ASSUME NEW names \in Seq(Workers), IsInjective(names)
    PROVE  Len(names) <= Cardinality(Workers) /\ Cardinality(Workers) \in Nat
<1>1. names \in Injection(1..Len(names), Workers) /\ Len(names) \in Nat
  BY LenProperties DEF Injection
<1>2. IsFiniteSet(Workers)
  BY ThreadNamesAssumption DEF ThreadNamesAssumption
<1>3. Cardinality(1..Len(names)) <= Cardinality(Workers)
  BY <1>1, <1>2, FS_Injection
<1>4. Cardinality(1..Len(names)) = Len(names)
  <2>1. ASSUME NEW n \in Nat PROVE Cardinality(1..n) = n
    <3>1. Cardinality(1..n) = IF 1 > n THEN 0 ELSE n - 1 + 1
      BY FS_Interval
    <3> QED BY <3>1
  <2> QED BY <2>1, <1>1
<1> QED BY <1>2, <1>3, <1>4, FS_CardinalityType

\* LnkLst... walks such a list from its head to its end (lnklstrtns.c).
LEMMA ChainOfLinked ==
    ASSUME NEW nxt, NEW names \in Seq(Workers), IsInjective(names), Linked(nxt, names)
    PROVE  Chain(nxt) = <<Head0>> \o names
<1> DEFINE N == Cardinality(Workers)
           L == Len(names)
           More(c) == IF nxt[Last(c)] = Nil THEN c ELSE Append(c, nxt[Last(c)])
           Is(c) == c = [n \in 0..N |-> IF n = 0 THEN <<Head0>> ELSE More(c[n - 1])]
           Row(n) == [i \in 1..(n + 1) |-> IF i = 1 THEN Head0 ELSE names[i - 1]]
           rows == [n \in 0..N |-> IF n <= L THEN Row(n) ELSE Row(L)]
<1>1. L \in Nat /\ N \in Nat /\ L <= N /\ \A i \in 1..L : names[i] \in Workers
  BY ListIsShort, LenProperties
<1>2. Head0 \notin Workers /\ Nil \notin Workers
  BY ThreadNamesAssumption DEF ThreadNamesAssumption
<1>3. ASSUME NEW n \in 0..L
      PROVE  /\ Row(n) \in Seq(Workers \cup {Head0}) /\ Len(Row(n)) = n + 1
             /\ Last(Row(n)) = IF n = 0 THEN Head0 ELSE names[n]
  BY <1>1 DEF Last
<1>4. ASSUME NEW n \in 0..L PROVE More(Row(n)) = IF n = L THEN Row(n) ELSE Row(n + 1)
  <2>1. nxt[Last(Row(n))] = IF n = L THEN Nil ELSE names[n + 1]
    BY <1>1, <1>3 DEF Linked
  <2>2. CASE n = L
    BY <2>1, <2>2
  <2>3. CASE n # L
    <3>1. n + 1 \in 1..L /\ names[n + 1] # Nil
      BY <2>3, <1>1, <1>2
    <3>2. More(Row(n)) = Append(Row(n), names[n + 1])
      BY <2>1, <2>3, <3>1
    <3>3. Append(Row(n), names[n + 1]) = Row(n + 1)
      BY <3>1, <1>1, <1>3
    <3> QED BY <2>3, <3>2, <3>3
  <2> QED BY <2>2, <2>3
<1>5. /\ \A n \in 0..N : rows[n] = IF n <= L THEN Row(n) ELSE Row(L)
      /\ rows[0] = <<Head0>>
  BY <1>1
<1>6. Row(L) = <<Head0>> \o names
  BY <1>1, <1>3
<1>7. rows = [n \in 0..N |-> rows[n]]
  OBVIOUS
<1> HIDE DEF rows, Row, More
<1>8. \A n \in 0..(N - 1) : rows[n + 1] = More(rows[n])
  <2> SUFFICES ASSUME NEW n \in 0..(N - 1) PROVE rows[n + 1] = More(rows[n])
    OBVIOUS
  <2>1. CASE n < L
    BY <2>1, <1>1, <1>4, <1>5
  <2>2. CASE n >= L
    <3>1. rows[n] = Row(L) /\ rows[n + 1] = Row(L)
      BY <2>2, <1>1, <1>5
    <3> QED BY <3>1, <1>1, <1>4
  <2> QED BY <2>1, <2>2, <1>1
<1>9. Is(rows)
  <2>1. \A n \in 0..N : n # 0 => rows[n] = More(rows[n - 1])
    <3> SUFFICES ASSUME NEW n \in 0..N, n # 0 PROVE rows[n] = More(rows[n - 1])
      OBVIOUS
    <3>1. n - 1 \in 0..(N - 1) /\ (n - 1) + 1 = n
      BY <1>1
    <3> QED BY <3>1, <1>8
  <2> QED BY <2>1, <1>5, <1>7
<1> DEFINE chain == CHOOSE c : Is(c)
<1>10. Chain(nxt) = chain[N]
  BY DEF Chain, More
<1>11. Is(chain)
  <2> HIDE DEF Is
  <2> QED BY <1>9
<1> HIDE DEF chain
<1>12. chain[0] = rows[0] /\ \A n \in 0..(N - 1) : chain[n + 1] = More(chain[n])
  <2>1. chain[0] = <<Head0>>
    BY <1>1, <1>11
  <2>2. ASSUME NEW n \in 0..(N - 1) PROVE chain[n + 1] = More(chain[n])
    <3>1. n + 1 \in 0..N /\ n + 1 # 0 /\ (n + 1) - 1 = n
      BY <1>1
    <3> QED BY <3>1, <1>11
  <2> QED BY <2>1, <2>2, <1>5
<1>13. \A n \in 0..N : chain[n] = rows[n]
  <2>1. GoAlike(chain, rows, N)
    <3> HIDE DEF rows, More
    <3> QED BY <1>8, <1>12 DEF GoAlike
  <2>2. Alike(chain, rows, N)
    BY <1>1, <2>1, SameRecursion
  <2> QED BY <2>2 DEF Alike
<1>14. N \in 0..N /\ rows[N] = Row(L)
  BY <1>1, <1>5
<1> QED BY <1>6, <1>10, <1>13, <1>14

\* An element is added at the end (LnkLstAppend).
LEMMA AppendLinked ==
    ASSUME NEW names \in Seq(Workers), IsInjective(names), NEW e \in Workers \ ToSet(names),
           NEW nxt \in [Workers \cup {Head0} -> Workers \cup {Nil}], Linked(nxt, names), nxt[e] = Nil
    PROVE  LET end == IF names = <<>> THEN Head0 ELSE names[Len(names)]
           IN  Linked([nxt EXCEPT ![end] = e], Append(names, e))
<1>1. /\ Len(names) \in Nat /\ (names = <<>> <=> Len(names) = 0) /\ DOMAIN names = 1..Len(names)
      /\ \A i \in 1..Len(names) : names[i] \in Workers /\ names[i] # e
      /\ \A i, j \in 1..Len(names) : names[i] = names[j] => i = j
  BY LenProperties, EmptySeq DEF ToSet, IsInjective
<1>2. Head0 \notin Workers
  BY ThreadNamesAssumption DEF ThreadNamesAssumption
<1>3. /\ Append(names, e) # <<>> /\ Len(Append(names, e)) = Len(names) + 1
      /\ Append(names, e)[Len(names) + 1] = e
      /\ \A i \in 1..Len(names) : Append(names, e)[i] = names[i]
  BY AppendProperties
<1>4. CASE names = <<>>
  <2>1. Linked([nxt EXCEPT ![Head0] = e], Append(names, e))
    BY <1>1, <1>2, <1>3, <1>4 DEF Linked
  <2> QED BY <1>4, <2>1
<1>5. CASE names # <<>>
  <2>0. PICK L \in Nat : L = Len(names) /\ L # 0
    BY <1>1, <1>5
  <2> DEFINE new == [nxt EXCEPT ![names[L]] = e]
             all == Append(names, e)
  <2>1. L \in 1..L /\ L \in Nat \ {0} /\ names[L] \in Workers
    BY <1>1, <2>0
  <2>2. new[Head0] = names[1] /\ new[names[L]] = e /\ new[e] = Nil
    BY <1>1, <1>2, <1>5, <2>0, <2>1 DEF Linked
  <2>3. \A i \in 1..(L - 1) : new[names[i]] = names[i + 1]
    <3> SUFFICES ASSUME NEW i \in 1..(L - 1) PROVE new[names[i]] = names[i + 1]
      OBVIOUS
    <3>1. i \in 1..L /\ i # L
      BY <2>1
    <3>2. nxt[names[i]] = names[i + 1]
      BY SMTT(30), <1>5, <2>0, <3>1 DEF Linked
    <3>3. names[i] # names[L] /\ names[i] \in Workers
      BY <1>1, <2>0, <2>1, <3>1
    <3> QED BY <2>1, <3>2, <3>3
  <2> HIDE DEF new, all
  <2>4. Linked(new, all)
    <3>1. new[Head0] = all[1] /\ all # <<>> /\ Len(all) = L + 1
      BY <1>3, <2>0, <2>1, <2>2 DEF all
    <3>2. ASSUME NEW i \in 1..(L + 1) PROVE new[all[i]] = IF i = L + 1 THEN Nil ELSE all[i + 1]
      <4>1. CASE i = L + 1
        BY <1>3, <2>0, <2>2, <4>1 DEF all
      <4>2. CASE i = L
        BY <1>3, <2>0, <2>1, <2>2, <4>2 DEF all
      <4>3. CASE i \in 1..(L - 1)
        <5>1. all[i] = names[i] /\ all[i + 1] = names[i + 1] /\ i # L + 1
          BY <1>3, <2>0, <2>1, <4>3 DEF all
        <5> QED BY <2>3, <4>3, <5>1
      <4> QED BY <2>1, <4>1, <4>2, <4>3
    <3> QED BY <3>1, <3>2 DEF Linked
  <2> QED BY SMTT(30), <1>5, <2>0, <2>4 DEF new, all
<1> QED BY <1>4, <1>5

\* The element in front of the one at k, or the head variable (LnkLstPrev).
Before(names, k) == IF k = 1 THEN Head0 ELSE names[k - 1]

\* An element is taken out (LnkLstRemove, LnkLstFree).
LEMMA UnlinkLinked ==
    ASSUME NEW names \in Seq(Workers), IsInjective(names), NEW k \in 1..Len(names),
           NEW nxt \in [Workers \cup {Head0} -> Workers \cup {Nil}], Linked(nxt, names)
    PROVE  Linked([nxt EXCEPT ![Before(names, k)] = nxt[names[k]]], RemoveFirst(names, names[k]))
<1>1. PICK L \in Nat : L = Len(names) /\ k \in 1..L /\ DOMAIN names = 1..L
  BY LenProperties
<1>2. /\ \A i \in 1..L : names[i] \in Workers
      /\ \A i, j \in 1..L : names[i] = names[j] => i = j
  BY <1>1, LenProperties DEF IsInjective
<1>3. Head0 \notin Workers
  BY ThreadNamesAssumption DEF ThreadNamesAssumption
<1> DEFINE r == RemoveFirst(names, names[k])
           new == [nxt EXCEPT ![Before(names, k)] = nxt[names[k]]]
<1>4. /\ r \in Seq(Workers) /\ Len(r) = L - 1
      /\ \A i \in 1..(L - 1) : r[i] = IF i < k THEN names[i] ELSE names[i + 1]
  BY <1>1, RemoveOne
<1>5. /\ nxt[Head0] = names[1]
      /\ \A i \in 1..L : nxt[names[i]] = IF i = L THEN Nil ELSE names[i + 1]
  BY <1>1 DEF Linked
<1>6. /\ new[Head0] = IF k = 1 THEN nxt[names[1]] ELSE names[1]
      /\ \A i \in 1..L : new[names[i]] = IF i = k - 1 THEN nxt[names[k]] ELSE nxt[names[i]]
  <2>1. CASE k = 1
    BY <1>1, <1>2, <1>3, <1>5, <2>1 DEF Before
  <2>2. CASE k # 1
    <3>1. k - 1 \in 1..L
      BY <1>1, <2>2
    <3> QED BY <1>1, <1>2, <1>3, <1>5, <2>2, <3>1 DEF Before
  <2> QED BY <2>1, <2>2
<1>7. r = <<>> <=> L = 1
  BY <1>1, <1>4, EmptySeq
<1> HIDE DEF r, new
<1>8. new[Head0] = IF r = <<>> THEN Nil ELSE r[1]
  BY <1>1, <1>4, <1>5, <1>6, <1>7
<1>9. ASSUME NEW i \in 1..(L - 1) PROVE new[r[i]] = IF i = L - 1 THEN Nil ELSE r[i + 1]
  <2>1. CASE i >= k
    <3>1. r[i] = names[i + 1] /\ i + 1 \in 1..L /\ i + 1 # k - 1
      BY <1>1, <1>4, <2>1
    <3>2. new[r[i]] = IF i + 1 = L THEN Nil ELSE names[i + 2]
      BY <1>1, <1>5, <1>6, <3>1
    <3>3. i # L - 1 => r[i + 1] = names[i + 2]
      BY <1>1, <1>4, <2>1
    <3> QED BY <1>1, <3>2, <3>3
  <2>2. CASE i = k - 1
    <3>1. r[i] = names[i] /\ i \in 1..L
      BY <1>1, <1>4, <2>2
    <3>2. new[r[i]] = IF k = L THEN Nil ELSE names[k + 1]
      BY <1>1, <1>5, <1>6, <2>2, <3>1
    <3>3. i # L - 1 => r[i + 1] = names[k + 1]
      BY <1>1, <1>4, <2>2
    <3> QED BY <1>1, <2>2, <3>2, <3>3
  <2>3. CASE i < k - 1
    <3>1. r[i] = names[i] /\ i \in 1..L /\ i # L /\ i # L - 1
      BY <1>1, <1>4, <2>3
    <3>2. new[r[i]] = names[i + 1]
      BY <1>1, <1>5, <1>6, <2>3, <3>1
    <3>3. r[i + 1] = names[i + 1]
      BY SMTT(30), <1>1, <1>4, <2>3
    <3> QED BY <3>1, <3>2, <3>3
  <2> QED BY <1>1, <2>1, <2>2, <2>3
<1>10. Linked(new, r)
  BY <1>4, <1>8, <1>9 DEF Linked
<1> QED BY <1>10 DEF r, new

\* In the list, element e is not behind the one of thread t.
NotPast(names, e, t) ==
    t \in ToSet(names) => \E i, j \in 1..Len(names) : i <= j /\ names[i] = e /\ names[j] = t

\* A list has distinct names of threads.
LEMMA ListFacts ==
    ASSUME NEW names \in Seq(Workers), IsInjective(names)
    PROVE  \E L \in Nat : /\ L = Len(names) /\ (names = <<>> <=> L = 0)
                          /\ ToSet(names) = {names[i] : i \in 1..L}
                          /\ \A i \in 1..L : names[i] \in Workers
                          /\ \A i, j \in 1..L : names[i] = names[j] => i = j
<1>1. Len(names) \in Nat /\ DOMAIN names = 1..Len(names) /\ (names = <<>> <=> Len(names) = 0)
  BY LenProperties, EmptySeq
<1>2. \A i \in 1..Len(names) : names[i] \in Workers
  BY <1>1, LenProperties
<1>3. ToSet(names) = {names[i] : i \in 1..Len(names)}
  BY <1>1 DEF ToSet
<1>4. \A i, j \in 1..Len(names) : names[i] = names[j] => i = j
  BY <1>1 DEF IsInjective
<1> QED BY <1>1, <1>2, <1>3, <1>4

\* A walk along the list passes nobody: from the head.
LEMMA WalkStarts ==
    ASSUME NEW names \in Seq(Workers), IsInjective(names), NEW nxt, Linked(nxt, names), NEW t
    PROVE  nxt[Head0] \in ToSet(names) \cup {Nil} /\ NotPast(names, nxt[Head0], t)
<1>1. PICK L \in Nat : /\ L = Len(names) /\ (names = <<>> <=> L = 0)
                       /\ ToSet(names) = {names[i] : i \in 1..L}
  BY ListFacts
<1>2. L # 0 => 1 \in 1..L /\ nxt[Head0] = names[1]
  BY <1>1 DEF Linked
<1>3. L = 0 => nxt[Head0] = Nil /\ ToSet(names) = {}
  BY <1>1 DEF Linked
<1>4. ASSUME t \in ToSet(names) PROVE \E i, j \in 1..L : i <= j /\ names[i] = nxt[Head0] /\ names[j] = t
  BY <1>1, <1>2, <1>3, <1>4
<1> QED BY <1>1, <1>2, <1>3, <1>4 DEF NotPast

\* The same from one element to the next.
LEMMA WalkGoesOn ==
    ASSUME NEW names \in Seq(Workers), IsInjective(names), NEW nxt, Linked(nxt, names), NEW t,
           NEW e \in ToSet(names), e # t, NotPast(names, e, t)
    PROVE  nxt[e] \in ToSet(names) \cup {Nil} /\ NotPast(names, nxt[e], t)
<1>1. PICK L \in Nat : /\ L = Len(names) /\ ToSet(names) = {names[i] : i \in 1..L}
                       /\ \A i, j \in 1..L : names[i] = names[j] => i = j
  BY ListFacts
<1>2. PICK m \in 1..L : names[m] = e
  BY <1>1
<1>3. nxt[e] = IF m = L THEN Nil ELSE names[m + 1]
  BY <1>1, <1>2 DEF Linked
<1>4. m # L => m + 1 \in 1..L
  OBVIOUS
<1>5. ASSUME t \in ToSet(names) PROVE \E i, j \in 1..L : i <= j /\ names[i] = nxt[e] /\ names[j] = t
  <2>1. PICK i, j \in 1..L : i <= j /\ names[i] = e /\ names[j] = t
    BY <1>1, <1>5 DEF NotPast
  <2>2. i = m /\ j # m
    BY <1>1, <1>2, <2>1
  <2>3. m # L /\ m + 1 <= j
    BY <2>1, <2>2
  <2> QED BY <1>3, <1>4, <2>1, <2>3
<1> QED BY <1>1, <1>3, <1>4, <1>5 DEF NotPast

\* At the end of the list nobody in it is still to come.
LEMMA WalkEnds ==
    ASSUME NEW names \in Seq(Workers), IsInjective(names), NEW t, NotPast(names, Nil, t)
    PROVE  t \notin ToSet(names)
<1>1. \A i \in 1..Len(names) : names[i] \in Workers
  BY ListFacts
<1> QED BY <1>1, ThreadNamesAssumption DEF NotPast, ThreadNamesAssumption

\* The element whose next is that of t is the one before it.
LEMMA PrevFound ==
    ASSUME NEW names \in Seq(Workers), IsInjective(names), NEW nxt, Linked(nxt, names),
           NEW t \in ToSet(names), NEW e \in {Head0} \cup ToSet(names), nxt[e] = t
    PROVE  \E k \in 1..Len(names) : names[k] = t /\ e = Before(names, k)
<1>1. PICK L \in Nat : /\ L = Len(names) /\ (names = <<>> <=> L = 0)
                       /\ ToSet(names) = {names[i] : i \in 1..L}
                       /\ \A i \in 1..L : names[i] \in Workers
                       /\ \A i, j \in 1..L : names[i] = names[j] => i = j
  BY ListFacts
<1>2. t # Nil
  BY <1>1, ThreadNamesAssumption DEF ThreadNamesAssumption
<1>3. CASE e = Head0
  <2>1. 1 \in 1..L /\ names[1] = t /\ Before(names, 1) = Head0
    BY <1>1, <1>2, <1>3 DEF Linked, Before
  <2> QED BY <1>1, <1>3, <2>1
<1>4. CASE e \in ToSet(names)
  <2>1. PICK m \in 1..L : names[m] = e
    BY <1>1, <1>4
  <2>2. m # L /\ names[m + 1] = t
    BY <1>1, <1>2, <2>1 DEF Linked
  <2>3. m + 1 \in 1..L /\ m + 1 # 1 /\ (m + 1) - 1 = m
    BY <2>2
  <2>4. Before(names, m + 1) = e
    BY <2>1, <2>3 DEF Before
  <2> QED BY <1>1, <2>2, <2>3, <2>4
<1> QED BY <1>3, <1>4

\* The element without a next is the last, or the head variable of an empty list.
LEMMA LastFound ==
    ASSUME NEW names \in Seq(Workers), IsInjective(names), NEW nxt, Linked(nxt, names),
           NEW e \in {Head0} \cup ToSet(names), nxt[e] = Nil
    PROVE  names = <<>> \/ e = names[Len(names)]
<1>1. PICK L \in Nat : /\ L = Len(names) /\ (names = <<>> <=> L = 0)
                       /\ ToSet(names) = {names[i] : i \in 1..L}
                       /\ \A i \in 1..L : names[i] \in Workers
  BY ListFacts
<1>2. Nil \notin Workers
  BY ThreadNamesAssumption DEF ThreadNamesAssumption
<1>3. CASE e = Head0
  BY <1>1, <1>2, <1>3 DEF Linked
<1>4. CASE e \in ToSet(names)
  <2>1. PICK m \in 1..L : names[m] = e
    BY <1>1, <1>4
  <2>2. m # L => m + 1 \in 1..L
    BY <1>1
  <2>3. m = L
    BY <1>1, <1>2, <2>1, <2>2 DEF Linked
  <2> QED BY <1>1, <2>1, <2>3
<1> QED BY <1>3, <1>4

\* A thread that joins or leaves the list puts nobody else past the element of t.
LEMMA AppendNotPast ==
    ASSUME NEW names \in Seq(Workers), IsInjective(names), NEW u \in Workers, NEW t, t # u,
           NEW e, NotPast(names, e, t)
    PROVE  NotPast(Append(names, u), e, t)
<1>1. PICK L \in Nat : L = Len(names) /\ ToSet(names) = {names[i] : i \in 1..L}
  BY ListFacts
<1> DEFINE all == Append(names, u)
<1>2. Len(all) = L + 1 /\ DOMAIN all = 1..(L + 1) /\ all[L + 1] = u /\ \A i \in 1..L : all[i] = names[i]
  BY <1>1, AppendProperties, LenProperties
<1> HIDE DEF all
<1> SUFFICES ASSUME t \in ToSet(all)
             PROVE  \E i, j \in 1..(L + 1) : i <= j /\ all[i] = e /\ all[j] = t
  BY <1>2 DEF NotPast, all
<1>3. t \in ToSet(names)
  <2>1. PICK j \in 1..(L + 1) : all[j] = t
    BY <1>2 DEF ToSet
  <2>2. j \in 1..L
    BY <1>2, <2>1
  <2> QED BY <1>1, <1>2, <2>1, <2>2
<1>4. PICK i, j \in 1..L : i <= j /\ names[i] = e /\ names[j] = t
  BY <1>1, <1>3 DEF NotPast
<1>5. i \in 1..(L + 1) /\ j \in 1..(L + 1)
  OBVIOUS
<1> QED BY <1>2, <1>4, <1>5

\* Taking out another element leaves the order of the rest.
LEMMA RemoveNotPast ==
    ASSUME NEW names \in Seq(Workers), IsInjective(names), NEW u \in ToSet(names), NEW t,
           NEW e, e # u, NotPast(names, e, t)
    PROVE  NotPast(RemoveFirst(names, u), e, t)
<1>1. PICK L \in Nat : L = Len(names) /\ ToSet(names) = {names[i] : i \in 1..L}
  BY ListFacts
<1>2. PICK k \in 1..L : names[k] = u
  BY <1>1
<1> DEFINE r == RemoveFirst(names, u)
<1>3. /\ Len(r) = L - 1 /\ ToSet(r) = ToSet(names) \ {u}
      /\ \A i \in 1..(L - 1) : r[i] = IF i < k THEN names[i] ELSE names[i + 1]
  <2>1. k \in 1..Len(names) /\ r = RemoveFirst(names, names[k])
    BY <1>1, <1>2
  <2> HIDE DEF r
  <2>2. /\ Len(r) = Len(names) - 1 /\ ToSet(r) = ToSet(names) \ {names[k]}
        /\ \A i \in 1..(Len(names) - 1) : r[i] = IF i < k THEN names[i] ELSE names[i + 1]
    BY <2>1, RemoveOne, ZenonT(60)
  <2> QED BY <1>1, <1>2, <2>2
<1> HIDE DEF r
<1> SUFFICES ASSUME t \in ToSet(r)
             PROVE  \E i, j \in 1..(L - 1) : i <= j /\ r[i] = e /\ r[j] = t
  BY <1>3 DEF NotPast, r
<1>4. PICK i, j \in 1..L : i <= j /\ names[i] = e /\ names[j] = t
  BY <1>1, <1>3 DEF NotPast
<1>5. i # k /\ j # k
  BY <1>2, <1>3, <1>4
<1> DEFINE Place(n) == IF n < k THEN n ELSE n - 1
<1>6. \A n \in 1..L : n # k => Place(n) \in 1..(L - 1) /\ r[Place(n)] = names[n]
  <2> SUFFICES ASSUME NEW n \in 1..L, n # k PROVE Place(n) \in 1..(L - 1) /\ r[Place(n)] = names[n]
    OBVIOUS
  <2>1. CASE n < k
    BY <1>3, <2>1
  <2>2. CASE n > k
    <3>1. Place(n) = n - 1 /\ n - 1 \in 1..(L - 1) /\ ~(n - 1 < k) /\ (n - 1) + 1 = n
      BY <2>2
    <3> QED BY <1>3, <3>1
  <2> QED BY <2>1, <2>2
<1>7. Place(i) <= Place(j)
  BY <1>4, <1>5
<1> HIDE DEF Place
<1> QED BY <1>4, <1>5, <1>6, <1>7

\* The element behind the one that leaves is in the list that is left, or none is.
LEMMA NextStays ==
    ASSUME NEW names \in Seq(Workers), IsInjective(names), NEW nxt, Linked(nxt, names),
           NEW u \in ToSet(names)
    PROVE  nxt[u] # u /\ nxt[u] \in (ToSet(names) \ {u}) \cup {Nil}
<1>1. PICK L \in Nat : /\ L = Len(names) /\ ToSet(names) = {names[i] : i \in 1..L}
                       /\ \A i \in 1..L : names[i] \in Workers
                       /\ \A i, j \in 1..L : names[i] = names[j] => i = j
  BY ListFacts
<1>2. PICK m \in 1..L : names[m] = u
  BY <1>1
<1>3. m # L => m + 1 \in 1..L /\ m + 1 # m
  BY <1>1
<1>4. Nil \notin Workers
  BY ThreadNamesAssumption DEF ThreadNamesAssumption
<1> QED BY <1>1, <1>2, <1>3, <1>4 DEF Linked

Critical == {"alloc", "link", "find", "prev", "unlink", "free", "tail"}

PcOfThreads == threadPc = [t \in Threads |-> threadPc[t]]

\* The mutex that was destroyed was free, and no routine under it meets the freeing.
RaceInv ==
    /\ PcOfThreads
    /\ raced => ~destroyed /\ threadPc[Main] # "running"
    /\ destroyed => holder = Nil /\ threadPc[Main] # "running"

ThreadsTypeOK ==
    /\ PcOfThreads
    /\ next \in [Workers \cup {Head0} -> Workers \cup {Nil}] /\ tail \in Workers \cup {Head0, Nil}
    /\ freed \subseteq Workers /\ disturbed \subseteq Threads /\ holder \in Workers \cup {Nil}
    /\ thrinfoElem \in Workers \cup {Head0, Nil} /\ prevPtr \in Workers \cup {Head0, Nil}
    /\ walk \in [Threads -> Workers \cup {Nil, "none"}]
    /\ undefined \in BOOLEAN /\ registered \in Seq(Workers)

\* The pointers are those of the list, no name is twice in it, and nothing in it is freed.
ListInv ==
    /\ IsInjective(registered) /\ ToSet(registered) \cap freed = {} /\ Linked(next, registered)
    /\ (\A t \in Workers : threadPc[t] \notin {"free", "tail"}) /\ registered # <<>> =>
          tail = registered[Len(registered)]

MutexInv ==
    /\ \A t \in Workers : holder = t <=> threadPc[t] \in Critical
    /\ threadPc[Main] \notin Critical \ {"free"} /\ (Freeing => holder = Nil)
    /\ \A t \in Workers : threadPc[t] \notin {"next", "head", "clear"}
    /\ \A t \in Threads : Searching(t) =>
          threadPc[t] \in {"running", "alloc", "free", "ended", "exited"}

\* How far a thread has come with its element.
WorkerInv(t) ==
    /\ threadPc[t] \in {"started", "alloc", "link"} =>
          t \notin freed /\ t \notin ToSet(registered) /\ next[t] = Nil
    /\ threadPc[t] = "link" => registered # <<>>
    /\ threadPc[t] = "find" =>
          /\ thrinfoElem \in {Head0, Nil} \cup ToSet(registered)
          /\ thrinfoElem = Head0 \/ NotPast(registered, thrinfoElem, t)
    /\ threadPc[t] = "prev" =>
          /\ t \in ToSet(registered) /\ prevPtr \in {Head0} \cup ToSet(registered) /\ prevPtr # t
          /\ prevPtr = Head0 \/ NotPast(registered, prevPtr, t)
    /\ threadPc[t] = "unlink" =>
          \E k \in 1..Len(registered) : registered[k] = t /\ prevPtr = Before(registered, k)
    /\ threadPc[t] \in {"free", "tail"} => prevPtr \in {Head0} \cup ToSet(registered)
    /\ threadPc[t] = "free" => t \notin freed
    /\ threadPc[t] = "tail" => thrinfoElem \in {Head0} \cup ToSet(registered)
    /\ threadPc[t] \in {"free", "tail", "gone"} => t \notin ToSet(registered)

\* How far main has come with the list.
MainInv ==
    /\ threadPc[Main] \in {"next", "head"} => registered # <<>> /\ freePtr = registered[1]
    /\ threadPc[Main] = "head" => freeNext = next[freePtr]
    /\ threadPc[Main] = "free" =>
          /\ freePtr \in Workers /\ freePtr \notin freed \cup ToSet(registered)
          /\ threadPc[freePtr] # "started"
          /\ freeNext = next[Head0] /\ freeNext = next[freePtr]
    /\ threadPc[Main] = "clear" => next[Head0] = Nil

\* A search in which nothing was freed is not past the element that it looks for; one
\* that stands at an element that was unlinked goes on from there into the list.
Unlinked == {t \in Workers : threadPc[t] = "free" \/ (threadPc[Main] = "free" /\ t = freePtr)}
Ahead(e) == IF e \in Unlinked THEN next[e] ELSE e
OnTheWay(t) ==
    Ahead(walk[t]) \in ToSet(registered) \cup {Nil} /\ NotPast(registered, Ahead(walk[t]), t)
SearchInv ==
    /\ threadPc[Main] # "exited" => \A t \in Threads \ disturbed : Searching(t) => OnTheWay(t)
    /\ lastLine.name = lastLine.thread
       \/ (lastLine.name = Main /\ lastLine.thread \notin ToSet(registered))
    /\ undefined => \E t \in disturbed : Searching(t) /\ walk[t] \in freed

ListSafe == /\ ThreadsTypeOK /\ ListInv /\ MutexInv /\ (\A t \in Workers : WorkerInv(t))
            /\ MainInv /\ SearchInv
ThreadsInv == RaceInv /\ (~raced => ListSafe)

\* A step of one thread leaves the others where they are.
LEMMA PcGoes ==
    ASSUME PcOfThreads, NEW t \in Threads, NEW l, Goes(t, l)
    PROVE  /\ PcOfThreads'
           /\ \A u \in Threads : threadPc'[u] = IF u = t THEN l ELSE threadPc[u]
BY DEF Goes, PcOfThreads

\* At the start the list is empty and nobody has the mutex.
LEMMA ThreadsInitInv == ThreadsInit => ThreadsInv
<1> SUFFICES ASSUME ThreadsInit PROVE ThreadsInv
  OBVIOUS
<1> USE ThreadNamesAssumption DEF ThreadNamesAssumption, ThreadsInit, Threads
<1>1. /\ \A t \in Workers : threadPc[t] = "started"
      /\ threadPc[Main] = "running" /\ PcOfThreads
      /\ \A t \in Threads : walk[t] = "none"
  BY DEF PcOfThreads
<1>2. ThreadsTypeOK
  <2>1. walk \in [Threads -> Workers \cup {Nil, "none"}]
    BY DEF Threads
  <2>2. next \in [Workers \cup {Head0} -> Workers \cup {Nil}] /\ registered \in Seq(Workers)
    OBVIOUS
  <2> QED BY <1>1, <2>1, <2>2 DEF ThreadsTypeOK
<1>3. ListInv
  BY DEF ListInv, Linked, IsInjective, ToSet
<1>4. MutexInv
  BY <1>1 DEF MutexInv, Searching, Freeing, Critical
<1>5. \A t \in Workers : WorkerInv(t)
  BY <1>1 DEF WorkerInv, ToSet
<1>6. MainInv
  BY <1>1 DEF MainInv
<1>7. SearchInv
  BY <1>1 DEF SearchInv, Searching, NothingLogged
<1> QED BY <1>1, <1>2, <1>3, <1>4, <1>5, <1>6, <1>7 DEF ThreadsInv, ListSafe, RaceInv

\* No routine runs under a mutex that was destroyed, and it is only destroyed free.
LEMMA RaceStep == ASSUME RaceInv, [ThreadsNext]_threadVars PROVE RaceInv'
<1> USE ThreadNamesAssumption DEF ThreadNamesAssumption
<1>1. ASSUME NEW t \in Threads, NEW l, Goes(t, l), t = Main => l # "running"
      PROVE  /\ PcOfThreads'
             /\ threadPc[Main] # "running" => threadPc'[Main] # "running"
             /\ t # Main => threadPc'[Main] = threadPc[Main]
  BY <1>1, PcGoes DEF RaceInv, Threads
<1>2. CASE UNCHANGED <<threadPc, mutexVars>>
  BY <1>2 DEF RaceInv, mutexVars, PcOfThreads
<1>3. ASSUME NEW t \in Threads, NEW l, Goes(t, l), t = Main => l # "running",
             UNCHANGED mutexVars \/ Unlock
      PROVE  RaceInv'
  BY <1>1, <1>3 DEF RaceInv, mutexVars, Unlock
<1>4. ASSUME NEW t \in Workers, ThreadStep(t) PROVE RaceInv'
  <2>0. t \in Threads /\ Main \in Threads /\ t # Main
    BY DEF Threads
  <2>1. CASE LockForAdd(t) \/ LockForRemove(t)
    <3>1. PICK l \in {"alloc", "find"} : Goes(t, l) /\ Lock(t)
      BY <2>1 DEF LockForAdd, LockForRemove
    <3> QED BY <1>1, <2>0, <3>1 DEF RaceInv, Lock, Freeing
  <2>2. CASE LockDestroyed(t)
    BY <2>0, <2>2, <1>3 DEF LockDestroyed
  <2>3. CASE AppendHead(t) \/ AppendLink(t)
    BY <2>0, <2>3, <1>3 DEF AppendHead, AppendLink, Appended
  <2>4. CASE FindElem(t)
    BY <2>0, <2>4, <1>2, <1>3 DEF FindElem
  <2>5. CASE LnkLstPrev(t) \/ LnkLstTail(t)
    BY <2>0, <2>5, <1>2, <1>3 DEF LnkLstPrev, LnkLstTail
  <2>6. CASE RemoveUnlink(t) \/ RemoveFree(t)
    BY <2>0, <2>6, <1>3 DEF RemoveUnlink, RemoveFree
  <2> QED BY <1>4, <2>1, <2>2, <2>3, <2>4, <2>5, <2>6 DEF ThreadStep
<1>5. ASSUME MainStep PROVE RaceInv'
  <2>0. Main \in Threads
    BY DEF Threads
  <2>1. CASE JoinHandler
    <3>1. PcOfThreads' /\ threadPc'[Main] = "start"
      BY <2>1 DEF JoinHandler, RaceInv, Threads, PcOfThreads
    <3> QED BY <2>1, <3>1 DEF JoinHandler, RaceInv, Ready
  <2>2. CASE ThrInfoFree
    <3>1. PICK l \in {"ended", "next"} : Goes(Main, l)
      BY <2>2 DEF ThrInfoFree
    <3>2. PcOfThreads' /\ threadPc'[Main] # "running" /\ threadPc[Main] = "start"
      BY <2>0, <2>2, <3>1, PcGoes DEF ThrInfoFree, Ready, RaceInv
    <3> QED BY <2>2, <3>2 DEF ThrInfoFree, RaceInv
  <2>3. CASE FreeNext \/ FreeHead \/ ClearHead
    BY <2>0, <2>3, <1>3 DEF FreeNext, FreeHead, ClearHead
  <2>4. CASE FreeElem
    BY <2>0, <2>4, <1>3 DEF FreeElem
  <2> QED BY <1>5, <2>1, <2>2, <2>3, <2>4 DEF MainStep
<1>6. ASSUME NEW t \in Threads, LogLine(t) \/ ThrInfoFind(t) \/ UseDangling(t) PROVE RaceInv'
  BY <1>2, <1>6 DEF LogLine, ThrInfoFind, UseDangling
<1> QED BY <1>2, <1>4, <1>5, <1>6 DEF ThreadsNext, threadVars

\* What a step of the thread t leaves as it was for the others.
LEMMA OthersKeep ==
    ASSUME MutexInv, NEW u \in Workers, WorkerInv(u), threadPc'[u] = threadPc[u], holder # u,
           threadPc[u] = "started" => next'[u] = next[u] /\ (u \in freed' => u \in freed),
           threadPc[u] \in {"started", "gone"} => (u \in ToSet(registered') => u \in ToSet(registered))
    PROVE  WorkerInv(u)'
<1>1. threadPc[u] \notin Critical
  BY DEF MutexInv
<1> QED BY <1>1 DEF WorkerInv, Critical

\* The searches stay where they are when no element is moved.
LEMMA SearchesKeep ==
    ASSUME SearchInv, UNCHANGED <<next, freed, registered, searchVars>>,
           Unlinked' = Unlinked, threadPc[Main] # "exited"
    PROVE  SearchInv'
<1>1. \A t \in Threads : OnTheWay(t)' = OnTheWay(t) /\ Searching(t)' = Searching(t)
  BY DEF OnTheWay, Ahead, searchVars, Searching
<1> QED BY <1>1 DEF SearchInv, searchVars, Searching

\* ThrInfoMutex is taken (thrinfo.c's callers).
LEMMA LockSafe ==
    ASSUME ListSafe, ~raced', threadPc[Main] # "exited",
           NEW t \in Workers, LockForAdd(t) \/ LockForRemove(t)
    PROVE  ListSafe'
<1> USE ThreadNamesAssumption DEF ThreadNamesAssumption
<1>0. /\ ThreadsTypeOK /\ ListInv /\ MutexInv /\ MainInv /\ SearchInv
      /\ \A u \in Workers : WorkerInv(u)
  BY DEF ListSafe
<1>1. PICK l \in {"alloc", "find"} :
          /\ Goes(t, l) /\ Lock(t) /\ Ready(t, IF l = "alloc" THEN "started" ELSE "running")
          /\ UNCHANGED <<elemVars, prevPtr, freePtr, freeNext, searchVars>>
          /\ thrinfoElem' = IF l = "find" THEN Head0 ELSE thrinfoElem
  BY DEF LockForAdd, LockForRemove, ptrVars
<1>2. PcOfThreads' /\ \A u \in Threads : threadPc'[u] = IF u = t THEN l ELSE threadPc[u]
  BY <1>0, <1>1, PcGoes DEF ThreadsTypeOK, Threads
<1>3. t # Main /\ Main \in Threads /\ t \in Threads /\ ~Freeing /\ holder = Nil /\ holder' = t
      /\ threadPc'[Main] = threadPc[Main] /\ ~Searching(t)
  BY <1>1, <1>2 DEF Lock, Threads, Ready
<1>4. /\ UNCHANGED <<next, tail, freed, registered, prevPtr, freePtr, freeNext>>
      /\ UNCHANGED <<walk, lastLine, undefined, disturbed>>
  BY <1>1 DEF elemVars, searchVars
<1>5. ThreadsTypeOK'
  BY <1>0, <1>1, <1>2, <1>3, <1>4 DEF ThreadsTypeOK
<1>6. ListInv'
  BY <1>0, <1>2, <1>3, <1>4 DEF ListInv, Threads, MutexInv, Critical
<1>7. MutexInv'
  BY <1>0, <1>1, <1>2, <1>3, <1>4 DEF MutexInv, Threads, Critical, Freeing, Searching
<1>8. \A u \in Workers : WorkerInv(u)'
  <2>1. WorkerInv(t)'
    BY <1>0, <1>1, <1>2, <1>3, <1>4 DEF WorkerInv, Ready
  <2>2. ASSUME NEW u \in Workers, u # t PROVE WorkerInv(u)'
    BY <1>0, <1>2, <1>3, <1>4, <2>2, OthersKeep DEF Threads
  <2> QED BY <2>1, <2>2
<1>9. MainInv'
  BY <1>0, <1>3, <1>4 DEF MainInv, Freeing
<1>10. SearchInv'
  <2>1. Unlinked' = Unlinked
    BY <1>0, <1>1, <1>2, <1>3, <1>4 DEF Unlinked, Threads, MutexInv, Critical
  <2> QED BY <1>0, <1>1, <1>4, <2>1, SearchesKeep
<1> QED BY <1>5, <1>6, <1>7, <1>8, <1>9, <1>10 DEF ListSafe

\* A step of the thread that has the mutex, which leaves the pointers of the list.
LEMMA HolderMoves ==
    ASSUME ListSafe, threadPc[Main] # "exited", NEW t \in Workers, NEW l, Goes(t, l), ~Searching(t),
           threadPc[t] \in Critical \ {"free"}, l # "free",
           (l \in Critical /\ holder' = holder) \/ (l = "gone" /\ holder' = Nil),
           UNCHANGED <<next, freed, registered, freePtr, freeNext, searchVars>>,
           tail' \in Workers \cup {Head0, Nil},
           thrinfoElem' \in Workers \cup {Head0, Nil}, prevPtr' \in Workers \cup {Head0, Nil},
           l # "tail" /\ registered # <<>> => tail' = registered[Len(registered)],
           WorkerInv(t)'
    PROVE  ListSafe'
<1> USE ThreadNamesAssumption DEF ThreadNamesAssumption
<1>0. /\ ThreadsTypeOK /\ ListInv /\ MutexInv /\ MainInv /\ SearchInv
      /\ \A u \in Workers : WorkerInv(u)
  BY DEF ListSafe
<1>1. PcOfThreads' /\ \A u \in Threads : threadPc'[u] = IF u = t THEN l ELSE threadPc[u]
  BY <1>0, PcGoes DEF ThreadsTypeOK, Threads
<1>2. /\ holder = t /\ t # Nil /\ ~Freeing /\ t # Main /\ Main \in Threads
      /\ threadPc'[Main] = threadPc[Main] /\ UNCHANGED <<walk, lastLine, undefined, disturbed>>
  BY <1>0, <1>1 DEF MutexInv, Threads, searchVars
<1>3. ThreadsTypeOK'
  BY <1>0, <1>1, <1>2 DEF ThreadsTypeOK
<1>4. ListInv'
  <2>1. l = "tail" => threadPc'[t] = "tail"
    BY <1>1 DEF Threads
  <2> QED BY <1>0, <2>1 DEF ListInv
<1>5. MutexInv'
  BY <1>0, <1>1, <1>2 DEF MutexInv, Threads, Critical, Freeing, Searching
<1>6. \A u \in Workers : WorkerInv(u)'
  BY <1>0, <1>1, <1>2, OthersKeep DEF Threads
<1>7. MainInv'
  BY <1>0, <1>2 DEF MainInv, Freeing
<1>8. SearchInv'
  <2>1. Unlinked' = Unlinked
    BY <1>1, <1>2 DEF Unlinked, Threads
  <2> QED BY <1>0, <2>1, SearchesKeep
<1> QED BY <1>3, <1>4, <1>5, <1>6, <1>7, <1>8 DEF ListSafe

\* What the thread with the mutex finds in the list (lnklstrtns.c).
LEMMA CriticalStepSafe ==
    ASSUME ListSafe, threadPc[Main] # "exited", NEW t \in Workers,
           \/ AppendHead(t) /\ next[Head0] # Nil
           \/ FindElem(t) \/ LnkLstPrev(t) \/ LnkLstTail(t)
    PROVE  ListSafe'
<1> USE ThreadNamesAssumption DEF ThreadNamesAssumption
<1>0. /\ ThreadsTypeOK /\ ListInv /\ MutexInv /\ MainInv /\ WorkerInv(t) /\ t \in Threads
  BY DEF ListSafe, Threads
<1>1. /\ registered \in Seq(Workers) /\ IsInjective(registered) /\ Linked(next, registered)
      /\ next \in [Workers \cup {Head0} -> Workers \cup {Nil}]
  BY <1>0 DEF ThreadsTypeOK, ListInv
<1>2. ToSet(registered) \subseteq Workers
  BY <1>1, ListFacts
<1>3. threadPc[t] \in Critical \ {"free", "tail"} /\ registered # <<>> =>
         tail = registered[Len(registered)]
  BY <1>0 DEF ListInv, MutexInv, Critical
<1>4. ASSUME UNCHANGED threadPc PROVE Goes(t, threadPc[t])
  BY <1>0, <1>4 DEF Goes, ThreadsTypeOK, PcOfThreads
<1>5. \A l : Goes(t, l) => threadPc'[t] = l
  BY <1>0, PcGoes DEF ThreadsTypeOK
<1>6. CASE AppendHead(t) /\ next[Head0] # Nil
  <2>1. /\ threadPc[t] = "alloc" /\ ~Searching(t) /\ Goes(t, "link")
        /\ UNCHANGED <<elemVars, mutexVars, ptrVars, searchVars>>
    BY <1>6 DEF AppendHead, Ready
  <2>2. UNCHANGED <<next, tail, freed, registered, holder, thrinfoElem, prevPtr, freePtr, freeNext>>
    BY <2>1 DEF elemVars, mutexVars, ptrVars
  <2>3. registered # <<>>
    BY <1>1, <1>6 DEF Linked
  <2>4. WorkerInv(t)'
    BY <1>0, <1>5, <2>1, <2>2, <2>3 DEF WorkerInv
  <2> QED BY <1>0, <1>3, <2>1, <2>2, <2>4, HolderMoves DEF Critical, ThreadsTypeOK
<1>7. CASE FindElem(t)
  <2>0. /\ threadPc[t] = "find" /\ ~Searching(t) /\ UNCHANGED <<elemVars, freePtr, freeNext, searchVars>>
        /\ UNCHANGED <<next, tail, freed, registered>>
    BY <1>7 DEF FindElem, Ready, elemVars
  <2>1. CASE thrinfoElem = Nil
    <3>1. Goes(t, "gone") /\ holder' = Nil /\ UNCHANGED <<thrinfoElem, prevPtr>>
      BY <1>0, <1>7, <2>1 DEF FindElem, Unlock
    <3>2. t \notin ToSet(registered)
      BY <1>0, <1>1, <2>0, <2>1, WalkEnds DEF WorkerInv
    <3>3. WorkerInv(t)'
      BY <1>0, <1>5, <2>0, <3>1, <3>2 DEF WorkerInv
    <3> QED BY <1>0, <1>3, <2>0, <3>1, <3>3, HolderMoves DEF Critical, ThreadsTypeOK
  <2>2. CASE thrinfoElem = t
    <3>1. Goes(t, "prev") /\ prevPtr' = Head0 /\ UNCHANGED <<thrinfoElem, holder>>
      BY <1>0, <1>7, <2>2 DEF FindElem, mutexVars
    <3>2. t \in ToSet(registered)
      BY <1>0, <2>0, <2>2 DEF WorkerInv
    <3>3. WorkerInv(t)'
      BY <1>0, <1>5, <2>0, <3>1, <3>2 DEF WorkerInv
    <3> QED BY <1>0, <1>3, <2>0, <3>1, <3>3, HolderMoves DEF Critical, ThreadsTypeOK
  <2>3. CASE thrinfoElem \notin {Nil, t}
    <3>1. UNCHANGED <<threadPc, holder, prevPtr>> /\ thrinfoElem' = next[thrinfoElem]
      BY <1>7, <2>3 DEF FindElem, mutexVars
    <3>2. thrinfoElem' \in ToSet(registered) \cup {Nil} /\ NotPast(registered, thrinfoElem', t)
      BY <1>0, <1>1, <2>0, <2>3, <3>1, WalkStarts, WalkGoesOn DEF WorkerInv
    <3>3. WorkerInv(t)'
      BY <1>0, <2>0, <3>1, <3>2 DEF WorkerInv
    <3> QED BY <1>0, <1>2, <1>3, <1>4, <2>0, <3>1, <3>2, <3>3, HolderMoves DEF Critical, ThreadsTypeOK
  <2> QED BY <2>1, <2>2, <2>3
<1>8. CASE LnkLstPrev(t)
  <2>0. /\ threadPc[t] = "prev" /\ ~Searching(t)
        /\ UNCHANGED <<elemVars, mutexVars, thrinfoElem, freePtr, freeNext, searchVars>>
        /\ UNCHANGED <<next, tail, freed, registered, holder>>
    BY <1>8 DEF LnkLstPrev, Ready, elemVars, mutexVars
  <2>1. /\ t \in ToSet(registered) /\ prevPtr \in {Head0} \cup ToSet(registered) /\ prevPtr # t
        /\ prevPtr = Head0 \/ NotPast(registered, prevPtr, t)
    BY <1>0, <2>0 DEF WorkerInv
  <2>2. next[prevPtr] \in ToSet(registered) \cup {Nil} /\ NotPast(registered, next[prevPtr], t)
    BY <1>1, <2>1, WalkStarts, WalkGoesOn
  <2>3. next[prevPtr] # Nil
    BY <1>1, <2>1, <2>2, WalkEnds
  <2>4. CASE next[prevPtr] = t
    <3>1. Goes(t, "unlink") /\ UNCHANGED prevPtr
      BY <1>8, <2>4 DEF LnkLstPrev
    <3>2. \E k \in 1..Len(registered) : registered[k] = t /\ prevPtr = Before(registered, k)
      BY <1>1, <2>1, <2>4, PrevFound
    <3>3. WorkerInv(t)'
      BY <1>0, <1>5, <2>0, <3>1, <3>2 DEF WorkerInv, Before
    <3> QED BY <1>0, <1>3, <2>0, <3>1, <3>3, HolderMoves DEF Critical, ThreadsTypeOK
  <2>5. CASE next[prevPtr] # t
    <3>1. UNCHANGED threadPc /\ prevPtr' = next[prevPtr]
      BY <1>8, <2>3, <2>5 DEF LnkLstPrev
    <3>2. WorkerInv(t)'
      BY <1>0, <2>0, <2>1, <2>2, <2>3, <2>5, <3>1 DEF WorkerInv
    <3> QED BY <1>0, <1>2, <1>3, <1>4, <2>0, <2>2, <3>1, <3>2, HolderMoves DEF Critical, ThreadsTypeOK
  <2> QED BY <2>4, <2>5
<1>9. CASE LnkLstTail(t)
  <2>0. /\ threadPc[t] = "tail" /\ ~Searching(t)
        /\ UNCHANGED <<next, freed, registered, mutexVars, prevPtr, freePtr, freeNext, searchVars>>
        /\ UNCHANGED holder
    BY <1>9 DEF LnkLstTail, Ready, mutexVars
  <2>1. /\ thrinfoElem \in {Head0} \cup ToSet(registered) /\ prevPtr \in {Head0} \cup ToSet(registered)
        /\ t \notin ToSet(registered)
    BY <1>0, <2>0 DEF WorkerInv
  <2>2. CASE next[thrinfoElem] = Nil
    <3>1. /\ Goes(t, "find") /\ thrinfoElem' = prevPtr
          /\ tail' = IF thrinfoElem = Head0 /\ prevPtr = Head0 THEN Nil ELSE thrinfoElem
      BY <2>2, <1>9 DEF LnkLstTail
    <3>2. registered = <<>> \/ thrinfoElem = registered[Len(registered)]
      BY <1>1, <2>1, <2>2, LastFound
    <3>3. registered # <<>> => registered[Len(registered)] \in Workers
      BY <1>1, LenProperties, EmptySeq
    <3>4. WorkerInv(t)'
      BY <1>0, <1>5, <2>0, <2>1, <3>1 DEF WorkerInv, NotPast
    <3> QED BY <1>0, <1>2, <2>0, <2>1, <3>1, <3>2, <3>3, <3>4, HolderMoves DEF Critical, ThreadsTypeOK
  <2>3. CASE next[thrinfoElem] # Nil
    <3>1. UNCHANGED <<threadPc, tail>> /\ thrinfoElem' = next[thrinfoElem]
      BY <2>3, <1>9 DEF LnkLstTail
    <3>2. next[thrinfoElem] \in ToSet(registered)
      BY <1>1, <2>1, <2>3, WalkStarts, NextStays
    <3>3. WorkerInv(t)'
      BY <1>0, <2>0, <2>1, <3>1, <3>2 DEF WorkerInv
    <3> QED BY <1>0, <1>2, <1>4, <2>0, <3>1, <3>2, <3>3, HolderMoves DEF Critical, ThreadsTypeOK
  <2> QED BY <2>2, <2>3
<1> QED BY <1>6, <1>7, <1>8, <1>9

\* A thread is put at the end of the list (LnkLstAppend).
LEMMA AppendSafe ==
    ASSUME ListSafe, threadPc[Main] # "exited", NEW t \in Workers,
           (AppendHead(t) /\ next[Head0] = Nil) \/ AppendLink(t)
    PROVE  ListSafe'
<1> USE ThreadNamesAssumption DEF ThreadNamesAssumption
<1>0. /\ ThreadsTypeOK /\ ListInv /\ MutexInv /\ MainInv /\ SearchInv
      /\ \A u \in Workers : WorkerInv(u)
  BY DEF ListSafe
<1> DEFINE end == IF registered = <<>> THEN Head0 ELSE registered[Len(registered)]
<1>1. /\ registered \in Seq(Workers) /\ IsInjective(registered) /\ Linked(next, registered)
      /\ next \in [Workers \cup {Head0} -> Workers \cup {Nil}]
  BY <1>0 DEF ThreadsTypeOK, ListInv
<1>2. /\ ToSet(registered) \subseteq Workers
      /\ registered # <<>> => registered[Len(registered)] \in ToSet(registered) /\ registered[1] \in Workers
  <2>1. PICK L \in Nat : /\ L = Len(registered) /\ (registered = <<>> <=> L = 0)
                         /\ ToSet(registered) = {registered[i] : i \in 1..L}
                         /\ \A i \in 1..L : registered[i] \in Workers
    BY <1>1, ListFacts
  <2>2. L # 0 => L \in 1..L /\ 1 \in 1..L
    OBVIOUS
  <2> QED BY <2>1, <2>2
<1>3. /\ threadPc[t] \in {"alloc", "link"} /\ ~Searching(t) /\ Appended(t, end)
      /\ registered # <<>> => threadPc[t] = "link"
  <2>1. CASE AppendHead(t) /\ next[Head0] = Nil
    <3>1. threadPc[t] = "alloc" /\ ~Searching(t) /\ Appended(t, Head0)
      BY <2>1 DEF AppendHead, Ready
    <3>2. registered = <<>>
      BY <1>1, <1>2, <2>1 DEF Linked
    <3> QED BY <3>1, <3>2
  <2>2. CASE AppendLink(t)
    <3>1. threadPc[t] = "link" /\ ~Searching(t) /\ Appended(t, tail)
      BY <2>2 DEF AppendLink, Ready
    <3>2. registered # <<>> /\ tail = registered[Len(registered)]
      <4>1. registered # <<>>
        BY <1>0, <3>1 DEF WorkerInv
      <4>2. \A u \in Workers : threadPc[u] \notin {"free", "tail"}
        BY <1>0, <3>1 DEF MutexInv, Critical
      <4> QED BY <1>0, <4>1, <4>2 DEF ListInv
    <3> QED BY <3>1, <3>2
  <2> QED BY <2>1, <2>2
<1>4. /\ next' = [next EXCEPT ![end] = t] /\ tail' = t /\ Goes(t, "running") /\ holder' = Nil
      /\ registered' = Append(registered, t) /\ lastLine' = NothingLogged
      /\ UNCHANGED <<freed, thrinfoElem, prevPtr, freePtr, freeNext, walk, undefined, disturbed>>
  BY <1>3 DEF Appended, Unlock, ptrVars
<1>5. PcOfThreads' /\ \A u \in Threads : threadPc'[u] = IF u = t THEN "running" ELSE threadPc[u]
  BY <1>0, <1>4, PcGoes DEF ThreadsTypeOK, Threads
<1>6. /\ holder = t /\ t # Nil /\ ~Freeing /\ t # Main /\ Main \in Threads /\ threadPc'[Main] = threadPc[Main]
      /\ t \in Workers \ ToSet(registered) /\ t \notin freed /\ next[t] = Nil
  BY <1>0, <1>3, <1>5 DEF MutexInv, Threads, Critical, WorkerInv
<1>7. /\ registered' \in Seq(Workers) /\ IsInjective(registered') /\ Linked(next', registered')
      /\ ToSet(registered') = ToSet(registered) \cup {t}
      /\ registered' # <<>> /\ registered'[Len(registered')] = t
  <2>1. Linked(next', registered')
    BY <1>1, <1>4, <1>6, AppendLinked
  <2>2. PICK L \in Nat : /\ L = Len(registered) /\ ToSet(registered) = {registered[i] : i \in 1..L}
                         /\ \A i, j \in 1..L : registered[i] = registered[j] => i = j
    BY <1>1, ListFacts
  <2>3. /\ registered' \in Seq(Workers) /\ Len(registered') = L + 1 /\ DOMAIN registered' = 1..(L + 1)
        /\ \A i \in 1..(L + 1) : registered'[i] = IF i = L + 1 THEN t ELSE registered[i]
    <3>1. registered' \in Seq(Workers)
      BY <1>1, <1>4
    <3>2. /\ Len(registered') = L + 1 /\ registered'[L + 1] = t
          /\ \A i \in 1..L : registered'[i] = registered[i]
      BY <1>1, <1>4, <2>2, AppendProperties
    <3>3. \A i \in 1..(L + 1) : i # L + 1 => i \in 1..L
      OBVIOUS
    <3> QED BY <3>1, <3>2, <3>3, LenProperties
  <2>4. \A i \in 1..L : registered[i] # t
    BY <1>6, <2>2
  <2>5. IsInjective(registered')
    BY <2>2, <2>3, <2>4 DEF IsInjective
  <2>6. ToSet(registered') = ToSet(registered) \cup {t}
    <3>1. \A i \in 1..L : i \in 1..(L + 1) /\ registered'[i] = registered[i]
      BY <2>3
    <3>2. \A i \in 1..(L + 1) : registered'[i] = t \/ i \in 1..L
      BY <2>3
    <3>3. L + 1 \in 1..(L + 1) /\ registered'[L + 1] = t
      BY <2>3
    <3> QED BY <2>2, <2>3, <3>1, <3>2, <3>3 DEF ToSet
  <2>7. registered' # <<>> /\ registered'[Len(registered')] = t
    BY <2>3, EmptySeq
  <2> QED BY <2>1, <2>3, <2>5, <2>6, <2>7
<1>8. end \in {Head0} \cup ToSet(registered)
  BY <1>2
<1> HIDE DEF end
<1>9. ThreadsTypeOK'
  <2>1. next' \in [Workers \cup {Head0} -> Workers \cup {Nil}]
    BY <1>1, <1>4
  <2> QED BY <1>0, <1>4, <1>5, <1>7, <2>1 DEF ThreadsTypeOK
<1>10. ListInv'
  BY <1>0, <1>4, <1>6, <1>7 DEF ListInv
<1>11. MutexInv'
  BY <1>0, <1>4, <1>5, <1>6 DEF MutexInv, Threads, Critical, Freeing, Searching
<1>12. \A u \in Workers : WorkerInv(u)'
  <2>1. WorkerInv(t)'
    BY <1>5 DEF WorkerInv, Threads
  <2>2. ASSUME NEW u \in Workers, u # t PROVE WorkerInv(u)'
    <3>1. threadPc[u] = "started" => next'[u] = next[u]
      BY <1>0, <1>1, <1>4, <1>8, <2>2 DEF WorkerInv
    <3> QED BY <1>0, <1>4, <1>5, <1>6, <1>7, <2>2, <3>1, OthersKeep DEF Threads
  <2> QED BY <2>1, <2>2
<1>13. MainInv'
  BY <1>0, <1>6 DEF MainInv, Freeing
<1>14. SearchInv'
  <2>1. Unlinked = {} /\ Unlinked' = {}
    BY <1>0, <1>3, <1>5, <1>6 DEF Unlinked, MutexInv, Threads, Freeing, Critical
  <2>2. ASSUME NEW u \in Threads \ disturbed, Searching(u) PROVE OnTheWay(u)'
    <3>1. walk[u] \in ToSet(registered) \cup {Nil} /\ NotPast(registered, walk[u], u)
      BY <1>0, <2>1, <2>2 DEF SearchInv, OnTheWay, Ahead
    <3>2. u # t
      BY <1>3, <2>2
    <3>3. NotPast(registered', walk[u], u)
      BY <1>1, <1>4, <3>1, <3>2, AppendNotPast
    <3> QED BY <1>4, <1>7, <2>1, <3>1, <3>3 DEF OnTheWay, Ahead
  <2> QED BY <1>0, <1>4, <2>2 DEF SearchInv, Searching, NothingLogged
<1> QED BY <1>9, <1>10, <1>11, <1>12, <1>13, <1>14 DEF ListSafe

\* An element that is unlinked still points into the list.
LEMMA UnlinkSearches ==
    ASSUME ThreadsTypeOK, ListInv, SearchInv, NEW x \in ToSet(registered), threadPc[Main] # "exited",
           Unlinked = {}, Unlinked' = {x}, next'[x] = next[x],
           registered' = RemoveFirst(registered, x), ToSet(registered') = ToSet(registered) \ {x},
           UNCHANGED <<freed, searchVars>>
    PROVE  SearchInv'
<1>1. UNCHANGED <<walk, lastLine, undefined, disturbed>>
  BY DEF searchVars
<1>2. /\ registered \in Seq(Workers) /\ IsInjective(registered) /\ Linked(next, registered)
  BY DEF ThreadsTypeOK, ListInv
<1>3. ASSUME NEW u \in Threads \ disturbed, Searching(u) PROVE OnTheWay(u)'
  <2>1. walk[u] \in ToSet(registered) \cup {Nil} /\ NotPast(registered, walk[u], u)
    BY <1>3 DEF SearchInv, OnTheWay, Ahead
  <2>2. next[x] # x /\ next[x] \in ToSet(registered') \cup {Nil}
    BY <1>2, NextStays
  <2>3. Ahead(walk[u])' = IF walk[u] = x THEN next[x] ELSE walk[u]
    BY <1>1 DEF Ahead
  <2>4. Ahead(walk[u])' \in ToSet(registered') \cup {Nil} /\ Ahead(walk[u])' # x
    BY <2>1, <2>2, <2>3, <1>2, ListFacts, ThreadNamesAssumption DEF ThreadNamesAssumption
  <2>5. NotPast(registered', Ahead(walk[u])', u)
    <3>1. CASE u = x
      BY <3>1 DEF NotPast
    <3>2. CASE u # x
      <4>1. NotPast(registered, Ahead(walk[u])', u)
        BY <1>2, <2>1, <2>3, <3>2, WalkGoesOn
      <4> QED BY <1>2, <2>4, <4>1, RemoveNotPast
    <3> QED BY <3>1, <3>2
  <2> QED BY <1>1, <2>4, <2>5 DEF OnTheWay
<1> QED BY <1>1, <1>3 DEF SearchInv, Searching

\* A thread's element is unlinked (LnkLstRemove).
LEMMA RemoveUnlinkSafe ==
    ASSUME ListSafe, threadPc[Main] # "exited", NEW t \in Workers, RemoveUnlink(t)
    PROVE  ListSafe'
<1> USE ThreadNamesAssumption DEF ThreadNamesAssumption
<1>0. /\ ThreadsTypeOK /\ ListInv /\ MutexInv /\ MainInv /\ SearchInv
      /\ \A u \in Workers : WorkerInv(u)
  BY DEF ListSafe
<1>1. /\ threadPc[t] = "unlink" /\ Goes(t, "free") /\ next' = [next EXCEPT ![prevPtr] = next[t]]
      /\ registered' = RemoveFirst(registered, t) /\ UNCHANGED searchVars
      /\ UNCHANGED <<tail, freed, holder, thrinfoElem, prevPtr, freePtr, freeNext>>
      /\ UNCHANGED <<walk, lastLine, undefined, disturbed>> /\ ~Searching(t)
  BY DEF RemoveUnlink, Ready, mutexVars, ptrVars, searchVars
<1>2. PcOfThreads' /\ \A u \in Threads : threadPc'[u] = IF u = t THEN "free" ELSE threadPc[u]
  BY <1>0, <1>1, PcGoes DEF ThreadsTypeOK, Threads
<1>3. /\ holder = t /\ t # Nil /\ ~Freeing /\ t # Main /\ Main \in Threads
      /\ threadPc'[Main] = threadPc[Main]
  BY <1>0, <1>1, <1>2 DEF MutexInv, Threads, Critical
<1>4. /\ registered \in Seq(Workers) /\ IsInjective(registered) /\ Linked(next, registered)
      /\ next \in [Workers \cup {Head0} -> Workers \cup {Nil}] /\ ToSet(registered) \cap freed = {}
  BY <1>0 DEF ThreadsTypeOK, ListInv
<1>5. PICK L \in Nat : /\ L = Len(registered) /\ ToSet(registered) = {registered[i] : i \in 1..L}
                       /\ \A i, j \in 1..L : registered[i] = registered[j] => i = j
  BY <1>4, ListFacts
<1>6. PICK k \in 1..L : registered[k] = t /\ prevPtr = Before(registered, k)
  BY <1>0, <1>1, <1>5 DEF WorkerInv
<1>7. /\ registered' \in Seq(Workers) /\ IsInjective(registered')
      /\ t \in ToSet(registered) /\ ToSet(registered') = ToSet(registered) \ {t}
  <2>1. k \in 1..Len(registered) /\ registered' = RemoveFirst(registered, registered[k])
    BY <1>1, <1>5, <1>6
  <2>2. /\ registered' \in Seq(Workers) /\ IsInjective(registered')
        /\ ToSet(registered') = ToSet(registered) \ {registered[k]}
    BY <1>4, <2>1, RemoveOne
  <2> QED BY <1>5, <1>6, <2>2
<1>8. prevPtr \in {Head0} \cup ToSet(registered')
  <2>1. k # 1 => k - 1 \in 1..L /\ k - 1 # k
    OBVIOUS
  <2> QED BY <1>5, <1>6, <1>7, <2>1 DEF Before
<1>9. Linked(next', registered')
  BY <1>1, <1>4, <1>5, <1>6, UnlinkLinked
<1>10. ThreadsTypeOK'
  <2>1. next' \in [Workers \cup {Head0} -> Workers \cup {Nil}]
    BY <1>1, <1>4
  <2> QED BY <1>0, <1>1, <1>2, <1>7, <2>1 DEF ThreadsTypeOK
<1>11. ListInv'
  <2>1. threadPc'[t] = "free"
    BY <1>2 DEF Threads
  <2> QED BY <1>1, <1>4, <1>7, <1>9, <2>1 DEF ListInv
<1>12. MutexInv'
  BY <1>0, <1>1, <1>2, <1>3 DEF MutexInv, Threads, Critical, Freeing, Searching
<1>13. \A u \in Workers : WorkerInv(u)'
  <2>1. WorkerInv(t)'
    BY <1>1, <1>2, <1>4, <1>7, <1>8 DEF WorkerInv, Threads
  <2>2. ASSUME NEW u \in Workers, u # t PROVE WorkerInv(u)'
    <3>1. threadPc[u] = "started" => next'[u] = next[u]
      BY <1>0, <1>1, <1>4, <1>7, <1>8 DEF WorkerInv
    <3> QED BY <1>0, <1>1, <1>2, <1>3, <1>7, <2>2, <3>1, OthersKeep DEF Threads
  <2> QED BY <2>1, <2>2
<1>14. MainInv'
  BY <1>0, <1>3 DEF MainInv, Freeing
<1>15. SearchInv'
  <2>1. Unlinked = {} /\ Unlinked' = {t}
    BY <1>0, <1>1, <1>2, <1>3 DEF Unlinked, MutexInv, Threads, Freeing, Critical
  <2>2. next'[t] = next[t]
    BY <1>1, <1>4, <1>7, <1>8
  <2> QED BY <1>0, <1>1, <1>7, <2>1, <2>2, UnlinkSearches
<1> QED BY <1>10, <1>11, <1>12, <1>13, <1>14, <1>15 DEF ListSafe

\* Main takes the first element off the list (LnkLstFree).
LEMMA FreeHeadSafe ==
    ASSUME ListSafe, threadPc[Main] # "exited", FreeHead
    PROVE  ListSafe'
<1> USE ThreadNamesAssumption DEF ThreadNamesAssumption
<1>0. /\ ThreadsTypeOK /\ ListInv /\ MutexInv /\ MainInv /\ SearchInv
      /\ \A u \in Workers : WorkerInv(u)
  BY DEF ListSafe
<1> DEFINE x == freePtr
<1>1. /\ threadPc[Main] = "head" /\ Goes(Main, "free") /\ next' = [next EXCEPT ![Head0] = freeNext]
      /\ registered' = RemoveFirst(registered, x) /\ UNCHANGED searchVars
      /\ UNCHANGED <<tail, freed, holder, thrinfoElem, prevPtr, freePtr, freeNext>>
      /\ UNCHANGED <<walk, lastLine, undefined, disturbed>> /\ ~Searching(Main)
  BY DEF FreeHead, Ready, mutexVars, ptrVars, searchVars
<1>2. PcOfThreads' /\ \A u \in Threads : threadPc'[u] = IF u = Main THEN "free" ELSE threadPc[u]
  BY <1>0, <1>1, PcGoes DEF ThreadsTypeOK, Threads
<1>3. /\ holder = Nil /\ Freeing /\ (\A u \in Workers : threadPc'[u] = threadPc[u])
      /\ threadPc'[Main] = "free" /\ (\A u \in Workers : threadPc[u] \notin Critical)
  BY <1>0, <1>1, <1>2 DEF MutexInv, Threads, Freeing
<1>4. /\ registered \in Seq(Workers) /\ IsInjective(registered) /\ Linked(next, registered)
      /\ next \in [Workers \cup {Head0} -> Workers \cup {Nil}] /\ ToSet(registered) \cap freed = {}
      /\ registered # <<>> /\ x = registered[1] /\ freeNext = next[x]
  BY <1>0, <1>1 DEF ThreadsTypeOK, ListInv, MainInv
<1>5. PICK L \in Nat : /\ L = Len(registered) /\ L # 0 /\ ToSet(registered) = {registered[i] : i \in 1..L}
                       /\ \A i \in 1..L : registered[i] \in Workers
  BY <1>4, ListFacts
<1>6. 1 \in 1..L /\ x \in ToSet(registered) /\ x \in Workers
  BY <1>4, <1>5
<1>7. /\ registered' \in Seq(Workers) /\ IsInjective(registered') /\ Len(registered') = L - 1
      /\ ToSet(registered') = ToSet(registered) \ {x}
      /\ \A i \in 1..(L - 1) : registered'[i] = registered[i + 1]
  <2> DEFINE r == RemoveFirst(registered, registered[1])
  <2>1. registered' = r /\ 1 \in 1..Len(registered)
    BY <1>1, <1>4, <1>5, <1>6
  <2>2. /\ r \in Seq(Workers) /\ Len(r) = Len(registered) - 1
        /\ \A i \in 1..(Len(registered) - 1) : r[i] = IF i < 1 THEN registered[i] ELSE registered[i + 1]
        /\ IsInjective(r) /\ ToSet(r) = ToSet(registered) \ {registered[1]}
    <3>1. PICK k \in 1..Len(registered) : k = 1
      BY <2>1
    <3>2. registered \in Seq(Workers) /\ IsInjective(registered)
      BY <1>4
    <3> DEFINE q == RemoveFirst(registered, registered[k])
    <3>3. /\ q \in Seq(Workers) /\ Len(q) = Len(registered) - 1
          /\ \A i \in 1..(Len(registered) - 1) : q[i] = IF i < k THEN registered[i] ELSE registered[i + 1]
          /\ IsInjective(q) /\ ToSet(q) = ToSet(registered) \ {registered[k]}
      <4> HIDE DEF x, r
      <4> QED BY <3>2, RemoveOne
    <3> QED BY <3>1, <3>3
  <2> HIDE DEF r
  <2> QED BY <1>4, <1>5, <2>1, <2>2
<1>8. Linked(next', registered')
  <2>1. Before(registered, 1) = Head0
    BY DEF Before
  <2> QED BY <1>1, <1>4, <1>5, <1>6, <2>1, UnlinkLinked
<1> HIDE DEF x
<1>9. next'[x] = next[x] /\ next'[Head0] = next[x] /\ \A u \in Workers : next'[u] = next[u]
  BY <1>1, <1>4, <1>6
<1>10. ThreadsTypeOK'
  <2>1. next' \in [Workers \cup {Head0} -> Workers \cup {Nil}]
    BY <1>1, <1>4, <1>6
  <2> QED BY <1>0, <1>1, <1>2, <1>7, <2>1 DEF ThreadsTypeOK
<1>11. ListInv'
  <2>1. ASSUME registered' # <<>> PROVE tail' = registered'[Len(registered')]
    <3>1. L - 1 \in 1..(L - 1) /\ (L - 1) + 1 = L
      BY <1>5, <1>7, <2>1, EmptySeq
    <3>2. tail = registered[L]
      BY <1>0, <1>3, <1>4, <1>5 DEF ListInv, Critical
    <3> QED BY <1>1, <1>7, <3>1, <3>2
  <2> QED BY <1>1, <1>4, <1>7, <1>8, <2>1 DEF ListInv
<1>12. MutexInv'
  BY <1>0, <1>1, <1>2, <1>3 DEF MutexInv, Threads, Critical, Freeing, Searching
<1>13. \A u \in Workers : WorkerInv(u)'
  <2> SUFFICES ASSUME NEW u \in Workers PROVE WorkerInv(u)'
    OBVIOUS
  <2> QED BY <1>0, <1>1, <1>3, <1>7, <1>9, OthersKeep
<1>14. MainInv'
  <2>1. threadPc[x] # "started"
    BY <1>0, <1>6 DEF WorkerInv
  <2> QED BY <1>1, <1>3, <1>4, <1>6, <1>7, <1>9, <2>1 DEF MainInv, x
<1>15. SearchInv'
  <2>1. Unlinked = {} /\ Unlinked' = {x}
    BY <1>1, <1>3, <1>6 DEF Unlinked, Critical, x
  <2>2. registered' = RemoveFirst(registered, x)
    BY <1>1 DEF x
  <2> QED BY <1>0, <1>1, <1>6, <1>7, <1>9, <2>1, <2>2, UnlinkSearches
<1> QED BY <1>10, <1>11, <1>12, <1>13, <1>14, <1>15 DEF ListSafe

\* An element that is freed disturbs every search that is under way.
LEMMA FreeSearches ==
    ASSUME SearchInv, undefined = FALSE, NEW e, MemFree(e), UNCHANGED <<registered, walk, lastLine, undefined>>
    PROVE  SearchInv'
BY DEF SearchInv, MemFree, Searching

\* A thread frees the element that it took out (LnkLstRemove).
LEMMA RemoveFreeSafe ==
    ASSUME ListSafe, undefined = FALSE, NEW t \in Workers, RemoveFree(t)
    PROVE  ListSafe'
<1> USE ThreadNamesAssumption DEF ThreadNamesAssumption
<1>0. /\ ThreadsTypeOK /\ ListInv /\ MutexInv /\ MainInv /\ SearchInv
      /\ \A u \in Workers : WorkerInv(u)
  BY DEF ListSafe
<1>1. /\ threadPc[t] = "free" /\ Goes(t, "tail") /\ MemFree(t) /\ thrinfoElem' = Head0
      /\ freed' = freed \cup {t} /\ disturbed' \subseteq disturbed \cup Threads
      /\ UNCHANGED <<next, tail, registered, holder, prevPtr, freePtr, freeNext, walk, lastLine, undefined>>
      /\ ~Searching(t)
  BY DEF RemoveFree, Ready, mutexVars, MemFree
<1>2. PcOfThreads' /\ \A u \in Threads : threadPc'[u] = IF u = t THEN "tail" ELSE threadPc[u]
  BY <1>0, <1>1, PcGoes DEF ThreadsTypeOK, Threads
<1>3. /\ holder = t /\ t # Nil /\ ~Freeing /\ t # Main /\ Main \in Threads
      /\ threadPc'[Main] = threadPc[Main] /\ threadPc'[t] = "tail" /\ t \notin ToSet(registered)
  BY <1>0, <1>1, <1>2 DEF MutexInv, Threads, Critical, WorkerInv
<1>4. ThreadsTypeOK'
  BY <1>0, <1>1, <1>2 DEF ThreadsTypeOK
<1>5. ListInv'
  BY <1>0, <1>1, <1>3 DEF ListInv
<1>6. MutexInv'
  BY <1>0, <1>1, <1>2, <1>3 DEF MutexInv, Threads, Critical, Freeing, Searching
<1>7. \A u \in Workers : WorkerInv(u)'
  <2>1. WorkerInv(t)'
    BY <1>0, <1>1, <1>3 DEF WorkerInv
  <2>2. ASSUME NEW u \in Workers, u # t PROVE WorkerInv(u)'
    BY <1>0, <1>1, <1>2, <1>3, <2>2, OthersKeep DEF Threads
  <2> QED BY <2>1, <2>2
<1>8. MainInv'
  BY <1>0, <1>1, <1>3 DEF MainInv, Freeing
<1>9. SearchInv'
  BY <1>0, <1>1, FreeSearches
<1> QED BY <1>4, <1>5, <1>6, <1>7, <1>8, <1>9 DEF ListSafe

\* Main frees the element that it took out (LnkLstFree).
LEMMA FreeElemSafe ==
    ASSUME ListSafe, undefined = FALSE, FreeElem
    PROVE  ListSafe'
<1> USE ThreadNamesAssumption DEF ThreadNamesAssumption
<1>0. /\ ThreadsTypeOK /\ ListInv /\ MutexInv /\ MainInv /\ SearchInv
      /\ \A u \in Workers : WorkerInv(u)
  BY DEF ListSafe
<1>1. /\ threadPc[Main] = "free" /\ Goes(Main, IF freeNext = Nil THEN "clear" ELSE "next")
      /\ MemFree(freePtr) /\ freePtr' = freeNext
      /\ freed' = freed \cup {freePtr} /\ disturbed' \subseteq disturbed \cup Threads
      /\ UNCHANGED <<next, tail, registered, holder, thrinfoElem, prevPtr, freeNext, walk, lastLine, undefined>>
      /\ ~Searching(Main)
  BY DEF FreeElem, Ready, mutexVars, MemFree
<1>2. /\ PcOfThreads' /\ Main \in Threads
      /\ \A u \in Threads : threadPc'[u] = IF u # Main THEN threadPc[u] ELSE
                                           IF freeNext = Nil THEN "clear" ELSE "next"
  BY <1>0, <1>1, PcGoes DEF ThreadsTypeOK, Threads
<1>3. /\ holder = Nil /\ Freeing /\ (\A u \in Workers : threadPc'[u] = threadPc[u])
      /\ (\A u \in Workers : threadPc[u] \notin Critical)
      /\ freePtr \in Workers /\ freePtr \notin freed \cup ToSet(registered) /\ freeNext = next[Head0]
  BY <1>0, <1>1, <1>2 DEF MutexInv, Threads, Freeing, MainInv
<1>4. ThreadsTypeOK'
  BY <1>0, <1>1, <1>2, <1>3 DEF ThreadsTypeOK
<1>5. ListInv'
  BY <1>0, <1>1, <1>3 DEF ListInv
<1>6. MutexInv'
  BY <1>0, <1>1, <1>2, <1>3 DEF MutexInv, Threads, Critical, Freeing, Searching
<1>7. \A u \in Workers : WorkerInv(u)'
  <2> SUFFICES ASSUME NEW u \in Workers PROVE WorkerInv(u)'
    OBVIOUS
  <2>1. threadPc[u] = "started" => u # freePtr
    BY <1>0, <1>1 DEF MainInv
  <2> QED BY <1>0, <1>1, <1>3, <2>1, OthersKeep
<1>8. MainInv'
  BY <1>0, <1>1, <1>2, <1>3 DEF MainInv, ListInv, Linked
<1>9. SearchInv'
  BY <1>0, <1>1, FreeSearches
<1> QED BY <1>4, <1>5, <1>6, <1>7, <1>8, <1>9 DEF ListSafe

\* A line is logged: the search starts at the head (logrtns.c, logmsg).
LEMMA LogLineSafe ==
    ASSUME ListSafe, threadPc[Main] # "exited", undefined = FALSE, NEW t \in Threads, LogLine(t)
    PROVE  ListSafe'
<1> USE ThreadNamesAssumption DEF ThreadNamesAssumption
<1>0. /\ ThreadsTypeOK /\ ListInv /\ MutexInv /\ MainInv /\ SearchInv
      /\ \A u \in Workers : WorkerInv(u)
  BY DEF ListSafe
<1>1. /\ ~Searching(t) /\ threadPc[t] \in {"running", "alloc", "free", "ended"}
      /\ walk' = [walk EXCEPT ![t] = next[Head0]] /\ lastLine' = NothingLogged
      /\ UNCHANGED <<next, tail, freed, registered, threadPc, holder, thrinfoElem, prevPtr, freePtr, freeNext>>
      /\ UNCHANGED <<undefined, disturbed>>
  BY DEF LogLine, elemVars, mutexVars, ptrVars
<1>2. /\ registered \in Seq(Workers) /\ IsInjective(registered) /\ Linked(next, registered)
      /\ next[Head0] \in Workers \cup {Nil}
  BY <1>0 DEF ThreadsTypeOK, ListInv
<1>3. \A u \in Threads : walk'[u] = IF u = t THEN next[Head0] ELSE walk[u]
  BY <1>0, <1>1 DEF ThreadsTypeOK
<1>4. ThreadsTypeOK'
  BY <1>0, <1>1, <1>2 DEF ThreadsTypeOK, PcOfThreads
<1>5. ListInv'
  BY <1>0, <1>1 DEF ListInv
<1>6. MutexInv'
  BY <1>0, <1>1, <1>3 DEF MutexInv, Freeing, Searching
<1>7. MainInv' /\ \A u \in Workers : WorkerInv(u)'
  BY <1>0, <1>1 DEF MainInv, WorkerInv
<1>8. SearchInv'
  <2>1. next[Head0] \in ToSet(registered) \cup {Nil} /\ NotPast(registered, next[Head0], t)
    BY <1>2, WalkStarts
  <2>2. next[Head0] \notin Unlinked
    BY <1>0, <2>1 DEF Unlinked, WorkerInv, MainInv
  <2>3. Unlinked' = Unlinked /\ \A e : Ahead(e)' = Ahead(e)
    BY <1>1 DEF Unlinked, Ahead
  <2>4. OnTheWay(t)'
    BY <1>1, <1>3, <2>1, <2>2, <2>3 DEF OnTheWay, Ahead
  <2>5. \A u \in Threads : u # t => OnTheWay(u)' = OnTheWay(u) /\ Searching(u)' = Searching(u)
    BY <1>1, <1>3, <2>3 DEF OnTheWay, Searching
  <2> QED BY <1>0, <1>1, <2>4, <2>5 DEF SearchInv, NothingLogged
<1> QED BY <1>4, <1>5, <1>6, <1>7, <1>8 DEF ListSafe

\* One element of a search (ThrInfoFind).
LEMMA ThrInfoFindSafe ==
    ASSUME ListSafe, threadPc[Main] # "exited", undefined = FALSE, NEW t \in Threads, ThrInfoFind(t)
    PROVE  ListSafe'
<1> USE ThreadNamesAssumption DEF ThreadNamesAssumption
<1>0. /\ ThreadsTypeOK /\ ListInv /\ MutexInv /\ MainInv /\ SearchInv
      /\ \A u \in Workers : WorkerInv(u)
  BY DEF ListSafe
<1>1. /\ Searching(t) /\ UNCHANGED <<next, tail, freed, registered, threadPc, holder, undefined>>
      /\ UNCHANGED <<thrinfoElem, prevPtr, freePtr, freeNext>>
  BY DEF ThrInfoFind, elemVars, mutexVars, ptrVars
<1>2. walk[t] \in Workers \cup {Nil}
  BY <1>0, <1>1 DEF ThreadsTypeOK, Searching
<1>3. \/ \E n \in {t, Main} : Found(t, n) /\ (n = t \/ walk[t] = Nil)
      \/ /\ walk[t] \notin {t, Nil} /\ walk' = [walk EXCEPT ![t] = next[walk[t]]]
         /\ UNCHANGED <<lastLine, disturbed>>
  BY DEF ThrInfoFind
<1>4. /\ registered \in Seq(Workers) /\ IsInjective(registered) /\ Linked(next, registered)
      /\ next \in [Workers \cup {Head0} -> Workers \cup {Nil}]
  BY <1>0 DEF ThreadsTypeOK, ListInv
<1>5. walk' \in [Threads -> Workers \cup {Nil, "none"}] /\ disturbed' \subseteq disturbed
      /\ \A u \in Threads : u # t => walk'[u] = walk[u] /\ (u \in disturbed' <=> u \in disturbed)
  BY <1>0, <1>2, <1>3, <1>4 DEF Found, ThreadsTypeOK
<1>6. ThreadsTypeOK'
  BY <1>0, <1>1, <1>5 DEF ThreadsTypeOK, PcOfThreads
<1>7. ListInv'
  BY <1>0, <1>1 DEF ListInv
<1>8. MutexInv'
  BY <1>0, <1>1, <1>5 DEF MutexInv, Freeing, Searching
<1>9. MainInv' /\ \A u \in Workers : WorkerInv(u)'
  BY <1>0, <1>1 DEF MainInv, WorkerInv
<1>10. Unlinked' = Unlinked /\ \A e : Ahead(e)' = Ahead(e)
  BY <1>1 DEF Unlinked, Ahead
<1>11. Unlinked \subseteq Workers \ ToSet(registered)
  BY <1>0 DEF Unlinked, WorkerInv, MainInv
<1>12. t \in disturbed \/ OnTheWay(t)
  BY <1>0, <1>1 DEF SearchInv
<1>13. t \notin disturbed' /\ Searching(t)' => OnTheWay(t)'
  <2> SUFFICES ASSUME t \notin disturbed', Searching(t)' PROVE OnTheWay(t)'
    OBVIOUS
  <2>1. /\ walk[t] \notin {t, Nil} /\ walk' = [walk EXCEPT ![t] = next[walk[t]]]
        /\ UNCHANGED <<lastLine, disturbed>> /\ walk'[t] = next[walk[t]] /\ OnTheWay(t)
    BY <1>0, <1>3, <1>12 DEF Found, Searching, ThreadsTypeOK
  <2>2. next[walk[t]] \in ToSet(registered) \cup {Nil} /\ NotPast(registered, next[walk[t]], t)
    <3>1. CASE walk[t] \in Unlinked
      BY <2>1, <3>1 DEF OnTheWay, Ahead
    <3>2. CASE walk[t] \notin Unlinked
      BY <1>4, <2>1, <3>2, WalkGoesOn DEF OnTheWay, Ahead
    <3> QED BY <3>1, <3>2
  <2>3. next[walk[t]] \notin Unlinked
    BY <1>11, <2>2
  <2> QED BY <1>1, <1>10, <2>1, <2>2, <2>3 DEF OnTheWay, Ahead
<1>14. \/ lastLine'.name = lastLine'.thread
       \/ lastLine'.name = Main /\ lastLine'.thread \notin ToSet(registered')
  <2>1. CASE UNCHANGED lastLine
    BY <1>0, <1>1, <2>1 DEF SearchInv
  <2>2. ASSUME NEW n \in {t, Main}, Found(t, n), n = t \/ walk[t] = Nil
        PROVE  \/ lastLine'.name = lastLine'.thread
               \/ lastLine'.name = Main /\ lastLine'.thread \notin ToSet(registered')
    <3>1. CASE t \in disturbed
      BY <2>2, <3>1 DEF Found, NothingLogged
    <3>2. CASE n = t
      BY <2>2, <3>2 DEF Found, NothingLogged
    <3>3. CASE t \notin disturbed /\ walk[t] = Nil /\ n = Main
      <4>1. NotPast(registered, Nil, t)
        BY <1>11, <1>12, <3>3 DEF OnTheWay, Ahead
      <4>2. t \notin ToSet(registered)
        BY <1>4, <4>1, WalkEnds
      <4> QED BY <1>1, <2>2, <3>3, <4>2 DEF Found
    <3> QED BY <2>2, <3>1, <3>2, <3>3
  <2> QED BY <1>3, <2>1, <2>2
<1>15. SearchInv'
  <2>1. \A u \in Threads : u # t => OnTheWay(u)' = OnTheWay(u) /\ Searching(u)' = Searching(u)
    BY <1>1, <1>5, <1>10 DEF OnTheWay, Searching
  <2> QED BY <1>0, <1>1, <1>5, <1>13, <1>14, <2>1 DEF SearchInv
<1> QED BY <1>6, <1>7, <1>8, <1>9, <1>15 DEF ListSafe

\* Only a disturbed search uses an element that was freed.
LEMMA UseDanglingSafe ==
    ASSUME ListSafe, threadPc[Main] # "exited", NEW t \in Threads, UseDangling(t)
    PROVE  ListSafe'
<1> USE ThreadNamesAssumption DEF ThreadNamesAssumption
<1>0. /\ ThreadsTypeOK /\ ListInv /\ MutexInv /\ MainInv /\ SearchInv
      /\ \A u \in Workers : WorkerInv(u)
  BY DEF ListSafe
<1>1. /\ Dangling(t) /\ undefined' = TRUE
      /\ UNCHANGED <<next, tail, freed, registered, threadPc, holder, walk, lastLine, disturbed>>
      /\ UNCHANGED <<thrinfoElem, prevPtr, freePtr, freeNext>>
  BY DEF UseDangling, elemVars, mutexVars, ptrVars
<1>2. PICK L \in Nat : /\ L = Len(registered) /\ (registered = <<>> <=> L = 0)
                       /\ ToSet(registered) = {registered[i] : i \in 1..L}
                       /\ \A i \in 1..L : registered[i] \in Workers
  BY <1>0, ListFacts DEF ThreadsTypeOK, ListInv
<1>3. ToSet(registered) \cap freed = {} /\ freed \subseteq Workers /\ ToSet(registered) \subseteq Workers
  BY <1>0, <1>2 DEF ListInv, ThreadsTypeOK
<1>4. {Head0} \cup ToSet(registered) \subseteq (Workers \cup {Head0}) \ freed
      /\ ({Head0} \cup ToSet(registered)) \cap {Nil} = {}
  BY <1>3
<1>5. L # 0 => registered[1] \in ToSet(registered) /\ registered[L] \in ToSet(registered)
  BY <1>2
<1>6. Searching(t) /\ walk[t] \in freed
  <2>1. CASE t = Main
    <3>1. ~Ready(t, "link") /\ ~Ready(t, "find") /\ ~Ready(t, "prev") /\ ~Ready(t, "unlink") /\ ~Ready(t, "tail")
      BY <1>0, <2>1 DEF Ready, MutexInv, Critical
    <3> QED BY <1>0, <1>1, <1>2, <1>3, <1>4, <1>5, <2>1, <3>1 DEF Dangling, Ready, MainInv
  <2>2. CASE t \in Workers
    <3>1. WorkerInv(t) /\ t # Main /\ (threadPc[t] \in Critical => holder = t) /\ ~Ready(t, "next")
      BY <1>0, <2>2 DEF MutexInv, Ready
    <3>2. ~Ready(t, "link")  \/ tail \notin freed \cup {Nil}
      <4> SUFFICES ASSUME threadPc[t] = "link" PROVE tail \notin freed \cup {Nil}
        BY DEF Ready
      <4>1. tail = registered[L] /\ L # 0
        BY <1>0, <1>2, <2>2, <3>1 DEF ListInv, WorkerInv, MutexInv, Critical
      <4> QED BY <1>4, <1>5, <4>1
    <3>3. ~Ready(t, "unlink") \/ (prevPtr \notin freed \cup {Nil} /\ t \notin freed)
      <4> SUFFICES ASSUME threadPc[t] = "unlink" PROVE prevPtr \notin freed \cup {Nil} /\ t \notin freed
        BY DEF Ready
      <4>1. PICK k \in 1..L : registered[k] = t /\ prevPtr = Before(registered, k)
        BY <1>2, <3>1 DEF WorkerInv
      <4>2. k # 1 => k - 1 \in 1..L
        OBVIOUS
      <4> QED BY <1>2, <1>3, <1>4, <4>1, <4>2 DEF Before
    <3> QED BY <1>1, <1>3, <1>4, <2>2, <3>1, <3>2, <3>3 DEF Dangling, Ready, WorkerInv
  <2> QED BY <2>1, <2>2 DEF Threads
<1>7. t \in disturbed
  <2> SUFFICES ASSUME t \notin disturbed PROVE FALSE
    OBVIOUS
  <2>1. OnTheWay(t)
    BY <1>0, <1>6 DEF SearchInv
  <2>2. walk[t] \notin Unlinked
    BY <1>0, <1>6 DEF Unlinked, WorkerInv, MainInv
  <2> QED BY <1>3, <1>6, <2>1, <2>2 DEF OnTheWay, Ahead
<1>8. ThreadsTypeOK' /\ ListInv' /\ MutexInv' /\ MainInv'
  BY ZenonT(60), <1>0, <1>1 DEF ThreadsTypeOK, PcOfThreads, ListInv, MutexInv, MainInv, Freeing, Searching
<1>9. \A u \in Workers : WorkerInv(u)'
  BY <1>0, <1>1 DEF WorkerInv
<1>10. SearchInv'
  <2>1. \A u \in Threads : OnTheWay(u)' = OnTheWay(u) /\ Searching(u)' = Searching(u)
    BY <1>1 DEF OnTheWay, Ahead, Unlinked, Searching
  <2> QED BY <1>0, <1>1, <1>6, <1>7, <2>1 DEF SearchInv
<1> QED BY <1>8, <1>9, <1>10 DEF ListSafe

\* The handler is joined and the mutex destroyed (dbserver.c, endServer).
LEMMA JoinHandlerSafe ==
    ASSUME ListSafe, JoinHandler
    PROVE  ListSafe'
<1> USE ThreadNamesAssumption DEF ThreadNamesAssumption
<1>0. /\ ThreadsTypeOK /\ ListInv /\ MutexInv /\ MainInv /\ SearchInv
      /\ \A u \in Workers : WorkerInv(u)
  BY DEF ListSafe
<1>1. /\ threadPc[Main] = "running" /\ threadPc[Handler] = "running"
      /\ ~Searching(Main) /\ ~Searching(Handler) /\ UNCHANGED searchVars
      /\ UNCHANGED <<next, tail, freed, registered, holder, thrinfoElem, prevPtr, freePtr, freeNext>>
      /\ UNCHANGED <<walk, lastLine, undefined, disturbed>>
  BY DEF JoinHandler, Ready, elemVars, ptrVars, searchVars
<1>2. PcOfThreads' /\ \A u \in Threads : threadPc'[u] = IF u = Main THEN "start" ELSE
                                                       IF u = Handler THEN "joined" ELSE threadPc[u]
  BY <1>0 DEF JoinHandler, ThreadsTypeOK, PcOfThreads, Threads
<1>3. /\ Handler # Main /\ threadPc'[Main] = "start" /\ threadPc'[Handler] = "joined"
      /\ \A u \in Workers : u # Handler => threadPc'[u] = threadPc[u]
  BY <1>2 DEF Threads
<1>4. ThreadsTypeOK'
  BY <1>0, <1>1, <1>2 DEF ThreadsTypeOK
<1>5. ListInv'
  BY <1>0, <1>1, <1>3 DEF ListInv
<1>6. MutexInv'
  BY <1>0, <1>1, <1>2, <1>3 DEF MutexInv, Critical, Freeing, Searching
<1>7. \A u \in Workers : WorkerInv(u)'
  <2>1. WorkerInv(Handler)'
    BY <1>3 DEF WorkerInv
  <2>2. ASSUME NEW u \in Workers, u # Handler PROVE WorkerInv(u)'
    BY <1>0, <1>1, <1>3, <2>2 DEF WorkerInv
  <2> QED BY <2>1, <2>2
<1>8. MainInv'
  BY <1>0, <1>1, <1>3 DEF MainInv
<1>9. SearchInv'
  <2>1. Unlinked' = Unlinked
    BY <1>1, <1>3 DEF Unlinked
  <2> QED BY <1>0, <1>1, <2>1, SearchesKeep
<1> QED BY <1>4, <1>5, <1>6, <1>7, <1>8, <1>9 DEF ListSafe

\* A step of main that leaves the list as it is.
LEMMA MainMoves ==
    ASSUME ListSafe, ~Searching(Main), NEW l, Goes(Main, l), l \notin Critical,
           l = "exited" \/ threadPc[Main] \notin {"free", "exited"},
           l \in {"next", "head", "clear"} => holder = Nil,
           UNCHANGED <<next, tail, freed, registered, holder, thrinfoElem, prevPtr, searchVars>>,
           MainInv'
    PROVE  ListSafe'
<1> USE ThreadNamesAssumption DEF ThreadNamesAssumption
<1>0. /\ ThreadsTypeOK /\ ListInv /\ MutexInv /\ SearchInv /\ \A u \in Workers : WorkerInv(u)
  BY DEF ListSafe
<1>1. PcOfThreads' /\ \A u \in Threads : threadPc'[u] = IF u = Main THEN l ELSE threadPc[u]
  BY <1>0, PcGoes DEF ThreadsTypeOK, Threads
<1>2. /\ Main \in Threads /\ threadPc'[Main] = l /\ (\A u \in Workers : threadPc'[u] = threadPc[u])
      /\ UNCHANGED <<walk, lastLine, undefined, disturbed>>
  BY <1>1 DEF Threads, searchVars
<1>3. ThreadsTypeOK'
  BY <1>0, <1>1, <1>2 DEF ThreadsTypeOK
<1>4. ListInv'
  BY <1>0, <1>2 DEF ListInv
<1>5. MutexInv'
  BY <1>0, <1>1, <1>2 DEF MutexInv, Critical, Freeing, Searching
<1>6. \A u \in Workers : WorkerInv(u)'
  BY <1>0, <1>2 DEF WorkerInv
<1>7. SearchInv'
  <2>1. CASE l = "exited"
    BY <1>0, <1>2, <2>1 DEF SearchInv, Searching
  <2>2. CASE threadPc[Main] \notin {"free", "exited"}
    <3>1. Unlinked' = Unlinked
      BY <1>2, <2>2 DEF Unlinked, Critical
    <3> QED BY <1>0, <2>2, <3>1, SearchesKeep
  <2> QED BY <2>1, <2>2
<1> QED BY <1>3, <1>4, <1>5, <1>6, <1>7 DEF ListSafe

\* Main goes through the list, and the last of its steps (LnkLstFree).
LEMMA MainStepSafe ==
    ASSUME ListSafe, ~raced', undefined = FALSE, threadPc[Main] # "exited", MainStep
    PROVE  ListSafe'
<1> USE ThreadNamesAssumption DEF ThreadNamesAssumption
<1>0. ThreadsTypeOK /\ ListInv /\ MutexInv /\ MainInv
  BY DEF ListSafe
<1>1. /\ registered \in Seq(Workers) /\ IsInjective(registered) /\ Linked(next, registered)
      /\ next \in [Workers \cup {Head0} -> Workers \cup {Nil}]
  BY <1>0 DEF ThreadsTypeOK, ListInv
<1>2. \A l : Goes(Main, l) => threadPc'[Main] = l
  BY <1>0, PcGoes DEF ThreadsTypeOK, Threads
<1>3. CASE ThrInfoFree
  <2>1. PICK l \in {"ended", "next"} :
            /\ Goes(Main, l) /\ (l = "next" <=> next[Head0] # Nil) /\ freePtr' = next[Head0]
            /\ ~Searching(Main) /\ threadPc[Main] = "start" /\ (l = "next" => holder = Nil)
            /\ UNCHANGED <<next, tail, freed, registered, holder, thrinfoElem, prevPtr, searchVars>>
    BY <1>3 DEF ThrInfoFree, Ready, elemVars
  <2>2. l = "next" => registered # <<>> /\ freePtr' = registered[1]
    BY <1>1, <2>1 DEF Linked
  <2>3. MainInv'
    BY <1>2, <2>1, <2>2 DEF MainInv
  <2> QED BY <2>1, <2>3, MainMoves DEF Critical
<1>4. CASE FreeNext
  <2>1. /\ Goes(Main, "head") /\ freeNext' = next[freePtr] /\ UNCHANGED freePtr
        /\ ~Searching(Main) /\ threadPc[Main] = "next" /\ holder = Nil
        /\ UNCHANGED <<next, tail, freed, registered, holder, thrinfoElem, prevPtr, searchVars>>
    BY <1>0, <1>4 DEF FreeNext, Ready, elemVars, mutexVars, MutexInv, Freeing
  <2>2. MainInv'
    BY <1>0, <1>2, <2>1 DEF MainInv
  <2> QED BY <2>1, <2>2, MainMoves DEF Critical
<1>5. CASE ClearHead
  <2>1. /\ Goes(Main, "ended") /\ next' = [next EXCEPT ![Head0] = Nil]
        /\ ~Searching(Main) /\ threadPc[Main] = "clear"
        /\ UNCHANGED <<tail, freed, registered, holder, thrinfoElem, prevPtr, searchVars>>
    BY <1>5 DEF ClearHead, Ready, mutexVars, ptrVars
  <2>2. next' = next
    BY <1>0, <1>1, <2>1 DEF MainInv
  <2>3. MainInv'
    BY <1>2, <2>1 DEF MainInv
  <2> QED BY <2>1, <2>2, <2>3, MainMoves DEF Critical
<1> QED BY <1>3, <1>4, <1>5, JoinHandlerSafe, FreeHeadSafe, FreeElemSafe DEF MainStep

\* The lock of a mutex that was destroyed ends the server.
LEMMA LockDestroyedSafe ==
    ASSUME ListSafe, NEW t \in Workers, LockDestroyed(t)
    PROVE  ListSafe'
<1> USE ThreadNamesAssumption DEF ThreadNamesAssumption
<1>0. ThreadsTypeOK /\ ListInv /\ MutexInv /\ SearchInv /\ \A u \in Workers : WorkerInv(u)
  BY DEF ListSafe
<1>1. /\ Goes(Main, "exited") /\ UNCHANGED <<elemVars, mutexVars, ptrVars, searchVars>>
      /\ UNCHANGED <<next, tail, freed, registered, holder, thrinfoElem, prevPtr, freePtr, freeNext>>
      /\ UNCHANGED <<walk, lastLine, undefined, disturbed>>
  BY DEF LockDestroyed, elemVars, mutexVars, ptrVars, searchVars
<1>2. PcOfThreads' /\ \A u \in Threads : threadPc'[u] = IF u = Main THEN "exited" ELSE threadPc[u]
  BY <1>0, <1>1, PcGoes DEF ThreadsTypeOK, Threads
<1>3. Main \in Threads /\ threadPc'[Main] = "exited" /\ \A u \in Workers : threadPc'[u] = threadPc[u]
  BY <1>2 DEF Threads
<1>4. ThreadsTypeOK'
  BY <1>0, <1>1, <1>2 DEF ThreadsTypeOK
<1>5. ListInv' /\ MainInv' /\ \A u \in Workers : WorkerInv(u)'
  BY <1>0, <1>1, <1>3 DEF ListInv, MainInv, WorkerInv
<1>6. MutexInv'
  BY <1>0, <1>1, <1>2, <1>3 DEF MutexInv, Critical, Freeing, Searching
<1>7. SearchInv'
  BY <1>0, <1>1, <1>3 DEF SearchInv, Searching
<1> QED BY <1>4, <1>5, <1>6, <1>7 DEF ListSafe

\* Every step keeps the invariant.
LEMMA ThreadsStepInv == ASSUME ThreadsInv, [ThreadsNext]_threadVars PROVE ThreadsInv'
<1>1. RaceInv'
  BY RaceStep DEF ThreadsInv
<1>2. ASSUME ~raced' PROVE ListSafe'
  <2>1. CASE UNCHANGED threadVars
    <3>1. /\ UNCHANGED <<elemVars, threadPc, mutexVars, ptrVars, searchVars>> /\ ListSafe
          /\ UNCHANGED <<next, tail, freed, registered, holder, thrinfoElem, prevPtr, freePtr, freeNext>>
          /\ UNCHANGED <<walk, lastLine, undefined, disturbed>>
      BY <1>2, <2>1 DEF threadVars, elemVars, mutexVars, ptrVars, searchVars, ThreadsInv
    <3>2. Unlinked' = Unlinked
      BY <3>1 DEF Unlinked
    <3>3. \A u \in Threads : OnTheWay(u)' = OnTheWay(u) /\ Searching(u)' = Searching(u)
      BY <3>1, <3>2 DEF OnTheWay, Ahead, Searching
    <3>4. ThreadsTypeOK /\ ListInv /\ MutexInv /\ MainInv /\ SearchInv /\ \A u \in Workers : WorkerInv(u)
      BY <3>1 DEF ListSafe
    <3>5. ThreadsTypeOK'
      BY <3>1, <3>4 DEF ThreadsTypeOK, PcOfThreads
    <3>6. ListInv'
      BY <3>1, <3>4 DEF ListInv
    <3>7. MutexInv'
      BY <3>1, <3>3, <3>4 DEF MutexInv, Freeing
    <3>8. \A u \in Workers : WorkerInv(u)'
      BY <3>1, <3>4 DEF WorkerInv
    <3>9. MainInv'
      BY <3>1, <3>4 DEF MainInv
    <3>10. SearchInv'
      <4>1. threadPc'[Main] # "exited" => \A u \in Threads \ disturbed' : Searching(u)' => OnTheWay(u)'
        BY <3>1, <3>3, <3>4 DEF SearchInv
      <4>2. \/ lastLine'.name = lastLine'.thread
            \/ (lastLine'.name = Main /\ lastLine'.thread \notin ToSet(registered'))
        BY <3>1, <3>4 DEF SearchInv
      <4>3. undefined' => \E u \in disturbed' : Searching(u)' /\ walk'[u] \in freed'
        BY <3>1, <3>4 DEF SearchInv, Searching
      <4> QED BY <4>1, <4>2, <4>3 DEF SearchInv
    <3> QED BY <3>5, <3>6, <3>7, <3>8, <3>9, <3>10 DEF ListSafe
  <2>2. CASE ThreadsNext
    <3>2. PICK t \in Threads :
              \/ UseDangling(t) \/ LogLine(t) \/ ThrInfoFind(t)
              \/ (t \in Workers /\ ThreadStep(t)) \/ (t = Main /\ MainStep)
      BY <2>2 DEF ThreadsNext
    <3>3. ~raced
      BY <1>2, <3>2 DEF UseDangling, LogLine, ThrInfoFind, ThreadStep, MainStep, mutexVars, Lock, Unlock,
             LockForAdd, LockForRemove, LockDestroyed, AppendHead, AppendLink, Appended, FindElem, LnkLstPrev,
             RemoveUnlink, RemoveFree, LnkLstTail, JoinHandler, ThrInfoFree, FreeNext, FreeHead, FreeElem,
             ClearHead
    <3>4. ListSafe /\ undefined = FALSE /\ threadPc[Main] # "exited"
      BY <2>2, <3>3 DEF ThreadsInv, ThreadsNext, ListSafe, ThreadsTypeOK
    <3>5. CASE t \in Workers /\ ThreadStep(t)
      <4>1. CASE AppendHead(t)
        BY <3>4, <3>5, <4>1, AppendSafe, CriticalStepSafe
      <4> QED BY <1>2, <3>4, <3>5, <4>1, LockSafe, LockDestroyedSafe, AppendSafe, CriticalStepSafe,
                 RemoveUnlinkSafe, RemoveFreeSafe DEF ThreadStep
    <3>6. CASE UseDangling(t) \/ LogLine(t) \/ ThrInfoFind(t)
      BY <3>4, <3>6, UseDanglingSafe, LogLineSafe, ThrInfoFindSafe
    <3>7. CASE t = Main /\ MainStep
      BY <1>2, <3>4, <3>7, MainStepSafe
    <3> QED BY <3>2, <3>5, <3>6, <3>7
  <2> QED BY <2>1, <2>2
<1> QED BY <1>1, <1>2 DEF ThreadsInv

\* The list is only freed under a routine that has the mutex when endServer could not
\* destroy it; otherwise the list has the names in the order they were added, and a
\* search in which nothing was freed finds the right one (utils/thrinfo.c, lnklstrtns.c):
\* for every number of threads.
THEOREM ThreadNamesFound == ThreadsSpec => []NamesFound
<1>1. ThreadsInv => NamesFound
  <2> SUFFICES ASSUME ThreadsInv PROVE NamesFound
    OBVIOUS
  <2>1. raced => ~destroyed
    BY DEF ThreadsInv, RaceInv
  <2>2. CASE ~raced
    <3>1. ThreadsTypeOK /\ ListInv /\ MutexInv /\ SearchInv /\ \A t \in Workers : WorkerInv(t)
      BY <2>2 DEF ThreadsInv, ListSafe
    <3>2. Chain(next) = <<Head0>> \o registered
      BY <3>1, ChainOfLinked DEF ThreadsTypeOK, ListInv
    <3>3. holder = Nil /\ registered # <<>> => tail = Last(registered)
      BY <3>1, ThreadNamesAssumption DEF ListInv, MutexInv, Critical, Last, ThreadNamesAssumption
    <3>4. \A t \in Workers : threadPc[t] = "gone" => t \notin ToSet(registered)
      BY <3>1 DEF WorkerInv
    <3> QED BY <2>1, <3>1, <3>2, <3>3, <3>4 DEF SearchInv, NamesFound
  <2> QED BY <2>1, <2>2 DEF NamesFound
<1>2. ThreadsInit => ThreadsInv
  BY ThreadsInitInv
<1>3. ThreadsInv /\ [ThreadsNext]_threadVars => ThreadsInv'
  BY ThreadsStepInv
<1> QED BY <1>1, <1>2, <1>3, PTL DEF ThreadsSpec

-----------------------------------------------------------------------------
(***************************************************************************)
(* The messages on a connection.                                           *)
(***************************************************************************)
Byte == 0..255
Texts == {text \in Seq(1..255) : Len(text) \in 0..255}

\* Concatenation, as an operator that the provers do not look into.
Cat(s, t) == s \o t

LEMMA CatFacts ==
    ASSUME NEW S, NEW s \in Seq(S), NEW t \in Seq(S)
    PROVE  /\ Cat(s, t) \in Seq(S) /\ Len(Cat(s, t)) = Len(s) + Len(t)
           /\ \A i \in 1..(Len(s) + Len(t)) : Cat(s, t)[i] = IF i <= Len(s) THEN s[i] ELSE t[i - Len(s)]
           /\ Cat(s, <<>>) = s /\ Cat(<<>>, s) = s
BY ConcatProperties, ConcatEmptySeq DEF Cat

LEMMA CatAssociative ==
    ASSUME NEW S, NEW s \in Seq(S), NEW t \in Seq(S), NEW u \in Seq(S)
    PROVE  Cat(Cat(s, t), u) = Cat(s, Cat(t, u))
BY ConcatAssociative DEF Cat

LEMMA CatCancel ==
    ASSUME NEW S, NEW s \in Seq(S), NEW t \in Seq(S), NEW u \in Seq(S), Cat(s, t) = Cat(s, u)
    PROVE  t = u
BY ConcatSimplifications DEF Cat

LEMMA CatEmpty ==
    ASSUME NEW S, NEW s \in Seq(S), NEW t \in Seq(S), Cat(s, t) = <<>>
    PROVE  s = <<>> /\ t = <<>>
BY ConcatSimplifications DEF Cat

\* A sequence is cut and put together again.
LEMMA CutInTwo ==
    ASSUME NEW S, NEW s \in Seq(S), NEW n \in 0..Len(s)
    PROVE  /\ SubSeq(s, 1, n) \in Seq(S) /\ SubSeq(s, n + 1, Len(s)) \in Seq(S)
           /\ Cat(SubSeq(s, 1, n), SubSeq(s, n + 1, Len(s))) = s
           /\ Len(SubSeq(s, 1, n)) = n /\ \A i \in 1..n : SubSeq(s, 1, n)[i] = s[i]
<1>1. Len(s) \in Nat /\ \A i \in 1..Len(s) : s[i] \in S
  BY LenProperties
<1>2. /\ SubSeq(s, 1, n) \in Seq(S) /\ Len(SubSeq(s, 1, n)) = n
      /\ \A i \in 1..n : SubSeq(s, 1, n)[i] = s[i]
  <2>1. \A i \in 1..n : s[i] \in S
    BY <1>1
  <2> QED BY <1>1, <2>1, SubSeqProperties
<1>3. SubSeq(s, n + 1, Len(s)) \in Seq(S)
  <2>1. n + 1 \in Int /\ Len(s) \in Int /\ \A i \in (n + 1)..Len(s) : s[i] \in S
    BY <1>1
  <2> QED BY <2>1, SubSeqProperties
<1>4. Cat(SubSeq(s, 1, n), SubSeq(s, n + 1, Len(s))) = SubSeq(s, 1, Len(s))
  <2>1. 1 \in 1..(Len(s) + 1) /\ n \in (1 - 1)..Len(s) /\ Len(s) \in n..Len(s)
    BY <1>1
  <2> QED BY <2>1, ConcatAdjacentSubSeq DEF Cat
<1>5. SubSeq(s, 1, Len(s)) = s
  BY SubSeqFull
<1> QED BY <1>2, <1>3, <1>4, <1>5

\* What is in front of a sequence in two cuts of it.
LEMMA FrontOfBoth ==
    ASSUME NEW S, NEW p \in Seq(S), NEW q \in Seq(S), NEW x \in Seq(S), NEW r \in Seq(S),
           Cat(p, q) = Cat(x, r)
    PROVE  /\ \A i \in 1..Len(p) : i <= Len(x) => p[i] = x[i]
           /\ Len(p) + Len(q) = Len(x) + Len(r)
           /\ Len(p) >= Len(x) => /\ SubSeq(p, 1, Len(x)) = x
                                  /\ SubSeq(p, Len(x) + 1, Len(p)) \in Seq(S)
                                  /\ Cat(SubSeq(p, Len(x) + 1, Len(p)), q) = r
<1>1. /\ Len(p) \in Nat /\ Len(q) \in Nat /\ Len(x) \in Nat /\ Len(r) \in Nat
      /\ Len(p) + Len(q) = Len(x) + Len(r)
  <2>1. Len(p) \in Nat /\ Len(q) \in Nat /\ Len(x) \in Nat /\ Len(r) \in Nat
    BY LenProperties
  <2>2. Len(Cat(p, q)) = Len(p) + Len(q)
    BY CatFacts
  <2>3. Len(Cat(x, r)) = Len(x) + Len(r)
    BY CatFacts
  <2> QED BY <2>1, <2>2, <2>3
<1>2. ASSUME NEW i \in 1..Len(p), i <= Len(x) PROVE p[i] = x[i]
  <2>1. i \in 1..(Len(p) + Len(q)) /\ i \in 1..(Len(x) + Len(r)) /\ i <= Len(p)
    BY <1>1, <1>2
  <2>2. Cat(p, q)[i] = p[i]
    BY <2>1, CatFacts
  <2>3. Cat(x, r)[i] = x[i]
    BY <1>2, <2>1, CatFacts
  <2> QED BY <2>2, <2>3
<1>3. ASSUME Len(p) >= Len(x)
      PROVE  /\ SubSeq(p, 1, Len(x)) = x /\ SubSeq(p, Len(x) + 1, Len(p)) \in Seq(S)
             /\ Cat(SubSeq(p, Len(x) + 1, Len(p)), q) = r
  <2>1. Len(x) \in 0..Len(p)
    BY <1>1, <1>3
  <2>2. PICK a \in Seq(S), b \in Seq(S) :
            /\ a = SubSeq(p, 1, Len(x)) /\ b = SubSeq(p, Len(x) + 1, Len(p))
            /\ Cat(a, b) = p /\ Len(a) = Len(x) /\ \A i \in 1..Len(x) : a[i] = p[i]
    BY ZenonT(60), <2>1, CutInTwo
  <2>3. \A i \in 1..Len(x) : i \in 1..Len(p) /\ i <= Len(x)
    BY <1>1, <1>3
  <2>4. \A i \in 1..Len(a) : a[i] = x[i]
    BY <1>2, <2>2, <2>3
  <2>5. a = x
    BY <2>2, <2>4, SeqEqual
  <2>6. Cat(Cat(a, b), q) = Cat(a, Cat(b, q))
    BY CatAssociative
  <2>7. Cat(x, Cat(b, q)) = Cat(x, r)
    BY <2>2, <2>5, <2>6
  <2>8. Cat(b, q) \in Seq(S)
    BY CatFacts
  <2>9. Cat(b, q) = r
    BY <2>7, <2>8, CatCancel
  <2> QED BY <2>2, <2>5, <2>9
<1> QED BY <1>1, <1>2, <1>3

\* A length is two bytes, and two bytes are that length again (ShortToBuf, BufToShort).
LEMMA ShortInBuf ==
    ASSUME NEW v \in 0..257, NEW bytes, bytes[1] = ShortToBuf(v)[1], bytes[2] = ShortToBuf(v)[2]
    PROVE  ShortToBuf(v) \in Seq(Byte) /\ Len(ShortToBuf(v)) = 2 /\ BufToShort(bytes) = v
<1>1. /\ ((v % 65536) \div 256) % 256 = IF v < 256 THEN 0 ELSE 1
      /\ v % 256 = IF v < 256 THEN v ELSE v - 256
  OBVIOUS
<1>2. ShortToBuf(v) = <<IF v < 256 THEN 0 ELSE 1, IF v < 256 THEN v ELSE v - 256>>
  BY <1>1 DEF ShortToBuf
<1>3. ShortToBuf(v) \in Seq(Byte) /\ Len(ShortToBuf(v)) = 2
  BY <1>2 DEF Byte
<1>4. bytes[1] * 256 + bytes[2] = v
  BY <1>2
<1> QED BY <1>3, <1>4 DEF BufToShort

\* The bytes of a text: how many, and which.
LEMMA XmitBytes ==
    ASSUME NEW text \in Texts, NEW ind \in {"N", "T", "M"}
    PROVE  /\ Xmit(ind, text) \in Seq(Byte) /\ Len(Xmit(ind, text)) \in Nat \ {0}
           /\ Len(Xmit(ind, text)) = IF ind = "N" THEN Len(text) + 1 ELSE Len(text) + 2
           /\ \A i \in 1..Len(text) : Xmit(ind, text)[MsgStartPos(ind) + i] = text[i]
           /\ TextOf(ind, Xmit(ind, text)) = text
           /\ ind = "N" => Xmit(ind, text)[Len(text) + 1] = 0
           /\ ind # "N" => LET v == IF ind = "T" THEN Len(text) + 2 ELSE Len(text)
                           IN  /\ v \in 0..257 /\ Xmit(ind, text)[1] = ShortToBuf(v)[1]
                               /\ Xmit(ind, text)[2] = ShortToBuf(v)[2]
<1>0. text \in Seq(1..255) /\ Len(text) \in 0..255
  BY DEF Texts
<1>1. text \in Seq(Byte)
  <2>1. (1..255) \subseteq Byte
    BY DEF Byte
  <2> QED BY <1>0, <2>1, SeqMonotonic
<1> DEFINE x == Xmit(ind, text)
           from == MsgStartPos(ind)
           size == MsgLenFromXmitLen(ind, Len(x))
           v == IF ind = "T" THEN Len(text) + 2 ELSE Len(text)
<1>2. /\ x \in Seq(Byte) /\ Len(x) = IF ind = "N" THEN Len(text) + 1 ELSE Len(text) + 2
      /\ \A i \in 1..Len(text) : x[from + i] = text[i]
      /\ ind = "N" => x[Len(text) + 1] = 0
      /\ ind # "N" => v \in 0..257 /\ x[1] = ShortToBuf(v)[1] /\ x[2] = ShortToBuf(v)[2]
  <2>1. CASE ind = "N"
    <3>1. x = Append(text, 0) /\ from = 0 /\ 0 \in Byte
      BY <2>1 DEF Xmit, MSG_WITH_NULL, MsgStartPos, Byte
    <3> HIDE DEF x
    <3>2. /\ x \in Seq(Byte) /\ Len(x) = Len(text) + 1 /\ x[Len(text) + 1] = 0
          /\ \A i \in 1..Len(text) : x[i] = text[i]
      BY <1>1, <3>1, AppendProperties
    <3>3. \A i \in 1..Len(text) : 0 + i = i
      BY <1>0
    <3> QED BY <2>1, <3>1, <3>2, <3>3
  <2>2. CASE ind # "N"
    <3> DEFINE h == ShortToBuf(v)
    <3>1. x = h \o text /\ from = 2
      BY SMTT(30), <2>2 DEF Xmit, MSG_WITH_NULL, MsgLenToBuf, MSG_WITH_TOTLEN, SZ_MSGLEN_IN_MSG, MsgStartPos
    <3>2. v \in 0..257
      <4>1. PICK n \in 0..255 : n = Len(text)
        BY <1>0
      <4>2. n + 2 \in 0..257 /\ n \in 0..257
        OBVIOUS
      <4> QED BY <4>1, <4>2
    <3> HIDE DEF v
    <3>3. h \in Seq(Byte) /\ Len(h) = 2
      BY <3>2, ShortInBuf
    <3> HIDE DEF h, x
    <3>6. /\ h \o text \in Seq(Byte) /\ Len(h \o text) = Len(h) + Len(text)
          /\ \A i \in 1..(Len(h) + Len(text)) : (h \o text)[i] = IF i <= Len(h) THEN h[i] ELSE text[i - Len(h)]
      BY <1>1, <3>3, ConcatProperties
    <3>4. /\ x \in Seq(Byte) /\ Len(x) = 2 + Len(text)
          /\ \A i \in 1..(2 + Len(text)) : x[i] = IF i <= 2 THEN h[i] ELSE text[i - 2]
      BY <3>1, <3>3, <3>6
    <3>5. \A i \in 1..Len(text) : x[2 + i] = text[i]
      <4> SUFFICES ASSUME NEW i \in 1..Len(text) PROVE x[2 + i] = text[i]
        OBVIOUS
      <4>1. 2 + i \in 1..(2 + Len(text)) /\ ~(2 + i <= 2) /\ (2 + i) - 2 = i
        BY <1>0
      <4> QED BY <3>4, <4>1
    <3>7. x[1] = h[1] /\ x[2] = h[2]
      <4>1. 1 \in 1..(2 + Len(text)) /\ 2 \in 1..(2 + Len(text))
        BY <1>0
      <4> QED BY <3>4, <4>1
    <3>8. 2 + Len(text) = Len(text) + 2
      BY <1>0
    <3> QED BY <2>2, <3>1, <3>2, <3>4, <3>5, <3>7, <3>8 DEF h
  <2> QED BY <2>1, <2>2
<1>3. from \in Nat /\ size = Len(text) /\ from + size <= Len(x)
  BY <1>0, <1>2 DEF MsgStartPos, MsgLenFromXmitLen, MSG_WITH_NULL, SZ_MSGLEN_IN_MSG
<1>4. TextOf(ind, x) = text
  <2>1. TextOf(ind, x) = SubSeq(x, from + 1, from + Len(text))
    BY <1>3 DEF TextOf
  <2> HIDE DEF x, from
  <2> DEFINE t == SubSeq(x, from + 1, from + Len(text))
  <2>2. \A i \in (from + 1)..(from + Len(text)) : x[i] \in Byte
    <3>1. \A i \in (from + 1)..(from + Len(text)) : i \in 1..Len(x)
      <4>1. PICK n \in 0..255, m \in Nat, f \in Nat : n = Len(text) /\ m = Len(x) /\ f = from /\ f + n <= m
        BY <1>0, <1>2, <1>3, LenProperties
      <4>2. \A i \in (f + 1)..(f + n) : i \in 1..m
        BY <4>1
      <4> QED BY SMTT(30), <4>1, <4>2
    <3> QED BY <1>2, <3>1, LenProperties
  <2> DEFINE a == from + 1
             b == from + Len(text)
  <2>3. a \in Int /\ b \in Int /\ b - a + 1 = Len(text) /\ (a <= b <=> Len(text) # 0)
    BY <1>0, <1>3
  <2>4. t = SubSeq(x, a, b) /\ \A i \in a..b : x[i] \in Byte
    BY <2>2
  <2>5. \A i \in 1..Len(text) : a + i - 1 = from + i
    BY <1>0, <1>3
  <2> HIDE DEF t, a, b
  <2>6. /\ t \in Seq(Byte) /\ Len(t) = IF a <= b THEN b - a + 1 ELSE 0
        /\ \A i \in 1..(b - a + 1) : t[i] = x[a + i - 1]
    BY <2>3, <2>4, SubSeqProperties
  <2>7. t \in Seq(Byte) /\ Len(t) = Len(text) /\ \A i \in 1..Len(text) : t[i] = text[i]
    BY <1>2, <2>3, <2>5, <2>6
  <2>8. t = text
    BY <1>1, <2>7, SeqEqual
  <2> QED BY <2>1, <2>8 DEF t
<1> QED BY <1>0, <1>2, <1>4

\* The length of the first message in a buffer, which begins with all or some of the
\* bytes of one (LenInMsg).
Agree(p, x) == \A i \in 1..Len(p) : i <= Len(x) => p[i] = x[i]

LEMMA FirstComplete ==
    ASSUME NEW text \in Texts, NEW ind \in {"N", "T", "M"}, NEW p \in Seq(Byte),
           Agree(p, Xmit(ind, text))
    PROVE  LenInMsg(ind, p) = IF Len(p) >= Len(Xmit(ind, text)) THEN Len(Xmit(ind, text)) ELSE 0
<1> DEFINE x == Xmit(ind, text)
<1>1. PICK n \in 0..255 : n = Len(text) /\ \A i \in 1..n : text[i] # 0
  <2>1. text \in Seq(1..255) /\ Len(text) \in 0..255
    BY DEF Texts
  <2>2. \A i \in 1..Len(text) : text[i] \in 1..255
    BY ZenonT(60), <2>1, LenProperties
  <2>3. \A e \in 1..255 : e # 0
    OBVIOUS
  <2> QED BY <2>1, <2>2, <2>3
<1>2. PICK l \in Nat : l = Len(p)
  BY LenProperties
<1>3. Len(x) = IF ind = "N" THEN n + 1 ELSE n + 2
  BY <1>1, XmitBytes
<1>4. CASE ind = "N"
  <2> DEFINE I == {i \in 1..Len(p) : p[i] = 0}
  <2>1. LenInMsg(ind, p) = IF I # {} THEN Min(I) ELSE 0
    BY <1>4 DEF LenInMsg, MSG_WITH_NULL, SelectInSeq
  <2>2. x[n + 1] = 0 /\ \A i \in 1..n : x[i] = text[i]
    <3>1. /\ Xmit(ind, text)[Len(text) + 1] = 0 /\ MsgStartPos(ind) = 0
          /\ \A i \in 1..Len(text) : Xmit(ind, text)[MsgStartPos(ind) + i] = text[i]
      BY <1>4, XmitBytes DEF MsgStartPos, MSG_WITH_NULL
    <3>2. \A i \in 1..n : 0 + i = i
      OBVIOUS
    <3> QED BY <1>1, <3>1, <3>2
  <2> HIDE DEF x
  <2>3. \A i \in 1..l : i <= n + 1 => p[i] = x[i]
    BY <1>2, <1>3, <1>4 DEF x, Agree
  <2>4. \A i \in 1..l : i <= n => p[i] # 0
    <3> SUFFICES ASSUME NEW i \in 1..l, i <= n PROVE p[i] # 0
      OBVIOUS
    <3>1. i \in 1..n /\ i <= n + 1
      OBVIOUS
    <3> QED BY <1>1, <2>2, <2>3, <3>1
  <2>5. CASE l >= n + 1
    <3>1. n + 1 \in I
      BY <1>1, <1>2, <2>2, <2>3, <2>5
    <3>2. \A i \in I : i \in Nat /\ n + 1 <= i
      BY <1>1, <1>2, <2>4
    <3> HIDE DEF I
    <3>3. Min(I) = n + 1
      <4>1. \A i \in I : (\A j \in I : i <= j) => i = n + 1
        BY <1>1, <3>1, <3>2
      <4> QED BY <3>1, <3>2, <4>1 DEF Min
    <3>4. I # {}
      BY <3>1
    <3> QED BY <1>2, <1>3, <1>4, <2>1, <2>5, <3>3, <3>4 DEF x
  <2>6. CASE l < n + 1
    <3>1. I = {}
      BY <1>1, <1>2, <2>4, <2>6
    <3>2. ~(Len(p) >= Len(Xmit(ind, text)))
      BY <1>1, <1>2, <1>3, <1>4, <2>6 DEF x
    <3> QED BY <2>1, <3>1, <3>2
  <2> QED BY SMTT(30), <1>1, <2>5, <2>6
<1>5. CASE ind # "N"
  <2>1. PICK v \in 0..257 : /\ v = IF ind = "T" THEN n + 2 ELSE n
                            /\ x[1] = ShortToBuf(v)[1] /\ x[2] = ShortToBuf(v)[2]
    <3> DEFINE v == IF ind = "T" THEN Len(text) + 2 ELSE Len(text)
    <3>1. v \in 0..257 /\ x[1] = ShortToBuf(v)[1] /\ x[2] = ShortToBuf(v)[2]
      BY <1>5, XmitBytes
    <3>2. v = IF ind = "T" THEN n + 2 ELSE n
      BY <1>1
    <3> HIDE DEF v, x
    <3> QED BY <3>1, <3>2
  <2>2. ind \in {"T", "M"}
    BY <1>5
  <2>3. CASE l < 2
    <3>1. LenInMsg(ind, p) = 0
      BY <1>2, <1>5, <2>3 DEF LenInMsg, MSG_WITH_NULL, SZ_MSGLEN_IN_MSG
    <3>2. ~(Len(p) >= Len(x))
      BY <1>1, <1>2, <1>3, <1>5, <2>3
    <3> QED BY <3>1, <3>2
  <2>4. CASE l >= 2
    <3>1. 1 \in 1..Len(p) /\ 2 \in 1..Len(p) /\ 1 <= Len(x) /\ 2 <= Len(x)
      BY <1>1, <1>2, <1>3, <1>5, <2>4
    <3>2. p[1] = ShortToBuf(v)[1] /\ p[2] = ShortToBuf(v)[2]
      BY <2>1, <3>1 DEF Agree
    <3>3. BufToShort(p) = v
      BY <3>2, ShortInBuf
    <3>4. LenInMsg(ind, p) = LET len == v + (IF ind = "M" THEN 2 ELSE 0)
                             IN  IF Len(p) >= len THEN len ELSE 0
      BY <1>2, <1>5, <2>4, <3>3
         DEF LenInMsg, MSG_WITH_NULL, MSG_WITH_MSGLEN, SZ_MSGLEN_IN_MSG
    <3>5. v + (IF ind = "M" THEN 2 ELSE 0) = Len(x)
      <4>1. ind = "T" => v = n + 2 /\ Len(x) = n + 2 /\ ind # "M"
        BY <1>3, <1>5, <2>1
      <4>2. ind = "M" => v = n /\ Len(x) = n + 2
        BY <1>3, <1>5, <2>1
      <4> HIDE DEF x
      <4> QED BY <2>2, <4>1, <4>2
    <3> QED BY <3>4, <3>5
  <2> QED BY <1>2, <2>3, <2>4
<1> QED BY SMTT(30), <1>4, <1>5

\* What is still to be taken of these texts, from each on.
Rests(ind, texts, rest) ==
    /\ rest \in [0..Len(texts) -> Seq(Byte)] /\ rest[Len(texts)] = <<>>
    /\ \A n \in 1..Len(texts) : rest[n - 1] = Cat(Xmit(ind, texts[n]), rest[n])

\* A buffer p with q behind it is what is to be taken of the texts behind the first k:
\* it has a message when the first of them is in it, and that one is taken.
LEMMA FirstMessage ==
    ASSUME NEW ind \in {"N", "T", "M"}, NEW texts \in Seq(Texts), NEW rest, Rests(ind, texts, rest),
           NEW k \in 0..Len(texts), NEW p \in Seq(Byte), NEW q \in Seq(Byte), Cat(p, q) = rest[k]
    PROVE  IF k = Len(texts) THEN p = <<>> /\ q = <<>> /\ LenInMsg(ind, p) = 0
           ELSE LET x == Xmit(ind, texts[k + 1])  n == LenInMsg(ind, p) IN
                /\ x \in Seq(Byte) /\ Len(x) \in Nat \ {0} /\ texts[k + 1] \in Texts
                /\ n = IF Len(p) >= Len(x) THEN Len(x) ELSE 0
                /\ Len(q) \in Nat /\ Len(p) + Len(q) >= Len(x) /\ (q = <<>> => n # 0)
                /\ n # 0 => /\ SubSeq(p, 1, n) = x /\ SubSeq(p, n + 1, Len(p)) \in Seq(Byte)
                            /\ Cat(SubSeq(p, n + 1, Len(p)), q) = rest[k + 1]
<1>1. CASE k = Len(texts)
  <2>1. p = <<>> /\ q = <<>>
    BY <1>1, CatEmpty DEF Rests
  <2>2. LenInMsg(ind, <<>>) = 0
    <3>1. ind = "N" => LenInMsg(ind, <<>>) = 0
      BY DEF LenInMsg, MSG_WITH_NULL, SelectInSeq
    <3>2. ind # "N" => LenInMsg(ind, <<>>) = 0
      BY DEF LenInMsg, MSG_WITH_NULL, SZ_MSGLEN_IN_MSG
    <3> QED BY <3>1, <3>2
  <2> QED BY <1>1, <2>1, <2>2
<1>2. CASE k # Len(texts)
  <2>1. PICK m \in Nat : m = Len(texts) /\ k \in 0..m
    BY LenProperties
  <2>2. k + 1 \in 1..Len(texts) /\ (k + 1) - 1 = k
    BY <1>2, <2>1
  <2>3. texts[k + 1] \in Texts
    BY <2>2, LenProperties
  <2>4. PICK x \in Seq(Byte) : x = Xmit(ind, texts[k + 1]) /\ Len(x) \in Nat \ {0}
    BY <2>3, XmitBytes
  <2>5. PICK r \in Seq(Byte) : r = rest[k + 1] /\ Cat(p, q) = Cat(x, r)
    <3>1. k + 1 \in 0..Len(texts)
      BY <1>2, <2>1
    <3>2. rest[k + 1] \in Seq(Byte)
      BY <3>1 DEF Rests
    <3>3. rest[k] = Cat(x, rest[k + 1])
      BY <2>2, <2>4 DEF Rests
    <3> QED BY <3>2, <3>3
  <2>6. PICK lp \in Nat, lx \in Nat \ {0} :
            /\ lp = Len(p) /\ lx = Len(x)
            /\ Len(q) \in Nat /\ lp + Len(q) >= lx /\ (q = <<>> => lp >= lx)
    <3>1. Len(p) \in Nat /\ Len(q) \in Nat /\ Len(x) \in Nat /\ Len(r) \in Nat
      BY LenProperties
    <3>2. Len(p) + Len(q) = Len(x) + Len(r)
      BY <2>5, FrontOfBoth
    <3>3. q = <<>> => Len(q) = 0
      OBVIOUS
    <3>4. q = <<>> => Len(p) >= Len(x)
      BY <3>1, <3>2, <3>3
    <3>5. Len(p) + Len(q) >= Len(x)
      BY <3>1, <3>2
    <3> QED BY <2>4, <3>1, <3>4, <3>5
  <2>7. /\ Agree(p, x)
        /\ Len(p) >= Len(x) => /\ SubSeq(p, 1, Len(x)) = x
                               /\ SubSeq(p, Len(x) + 1, Len(p)) \in Seq(Byte)
                               /\ Cat(SubSeq(p, Len(x) + 1, Len(p)), q) = r
    BY <2>5, FrontOfBoth DEF Agree
  <2>8. LenInMsg(ind, p) = IF Len(p) >= Len(x) THEN Len(x) ELSE 0
    BY <2>3, <2>4, <2>7, FirstComplete
  <2>9. q = <<>> => LenInMsg(ind, p) # 0
    BY <2>4, <2>6, <2>8
  <2>10. LenInMsg(ind, p) # 0 => Len(p) >= Len(x) /\ LenInMsg(ind, p) = Len(x)
    BY <2>8
  <2>11. Len(q) \in Nat /\ Len(p) + Len(q) >= Len(x)
    BY <2>6
  <2> QED BY <1>2, <2>3, <2>4, <2>5, <2>7, <2>8, <2>9, <2>10, <2>11
<1> QED BY <1>1, <1>2

\* The receiver has p, the bytes w are under way and lost will not arrive, or not yet:
\* it is what is to be taken of the texts behind the first k.
Streamed(ind, texts, k, p, w, rest, lost) ==
    /\ Rests(ind, texts, rest) /\ lost \in Seq(Byte) /\ Cat(p, Cat(w, lost)) = rest[k]

\* The inductive invariant for a receiver that keeps up with its sender: the messages
\* taken are the first of those that were sent, and the bytes are the rest of them.
StreamInv ==
    /\ sent \in Seq(Texts) /\ taken \in Seq(Texts) /\ Len(taken) <= Len(sent)
    /\ \A i \in 1..Len(taken) : taken[i] = sent[i]
    /\ ~pipelines => Len(sent) <= Len(taken) + 1
    /\ unsent \in Seq(Byte) /\ wire \in Seq(Byte) /\ prevMsg \in Seq(Byte)
    /\ msglenInd \in {"none", "N", "T", "M"} /\ (msglenInd = "none" => sent = <<>>)
    /\ wireEnd \in {"open", "closed", "reset"} /\ (wireEnd = "reset" => wire = <<>>)
    /\ \E rest, lost : /\ Streamed(msglenInd, sent, Len(taken), prevMsg, wire, rest, lost)
                       /\ wireEnd = "open" => lost = unsent
Paced == receiver # "SocketRecv" \/ ~pipelines
FramingInv == (msglenInd = "none" => receiver = "none") /\ (Paced => StreamInv)

LEMMA FramingInitInv == FramingInit => FramingInv
<1> SUFFICES ASSUME FramingInit PROVE FramingInv
  OBVIOUS
<1> DEFINE rest == [n \in 0..0 |-> <<>>]
<1>1. sent = <<>> /\ taken = <<>> /\ unsent = <<>> /\ wire = <<>> /\ prevMsg = <<>>
  BY DEF FramingInit
<1>2. /\ <<>> \in Seq(Texts) /\ <<>> \in Seq(Byte) /\ Len(<<>>) = 0
  OBVIOUS
<1>3. Rests(msglenInd, <<>>, rest)
  BY <1>2 DEF Rests
<1>4. Cat(<<>>, Cat(<<>>, <<>>)) = <<>>
  BY <1>2, CatFacts
<1>5. Streamed(msglenInd, <<>>, 0, <<>>, <<>>, rest, <<>>)
  BY <1>2, <1>3, <1>4 DEF Streamed
<1> HIDE DEF rest
<1> QED BY <1>1, <1>2, <1>5 DEF FramingInit, FramingInv, StreamInv

\* The lengths, for the steps.
LEMMA StreamLengths ==
    ASSUME StreamInv
    PROVE  /\ Len(taken) \in 0..Len(sent) /\ Len(sent) \in Nat
           /\ msglenInd # "none" => msglenInd \in {"N", "T", "M"}
<1>1. Len(taken) \in Nat /\ Len(sent) \in Nat
  BY LenProperties DEF StreamInv
<1>2. Len(taken) <= Len(sent) /\ msglenInd \in {"none", "N", "T", "M"}
  BY DEF StreamInv
<1> QED BY <1>1, <1>2

\* The options of the two programs are set (main, start options).
LEMMA SetIndicatorInv == ASSUME FramingInv, SetIndicator PROVE FramingInv'
<1>1. /\ msglenInd = "none" /\ msglenInd' \in {"N", "T", "M"}
      /\ UNCHANGED <<wireEnd, unsent, wire, prevMsg, taken, sent>>
  BY DEF SetIndicator, MSG_WITH_NULL, MSG_WITH_TOTLEN, MSG_WITH_MSGLEN
<1>2. StreamInv
  BY <1>1 DEF FramingInv, Paced
<1>3. sent = <<>> /\ Len(sent) = 0
  BY <1>1, <1>2 DEF StreamInv
<1>4. PICK rest, lost : /\ Streamed(msglenInd, sent, Len(taken), prevMsg, wire, rest, lost)
                        /\ wireEnd = "open" => lost = unsent
  BY <1>2 DEF StreamInv
<1>5. Rests(msglenInd', sent, rest)
  BY <1>3, <1>4 DEF Streamed, Rests
<1>6. Streamed(msglenInd', sent, Len(taken), prevMsg, wire, rest, lost)
  BY <1>4, <1>5 DEF Streamed
<1>7. Len(sent) <= Len(taken) + 1
  BY <1>2, <1>3, StreamLengths
<1>8. StreamInv'
  BY <1>1, <1>2, <1>3, <1>4, <1>6, <1>7 DEF StreamInv
<1> QED BY <1>1, <1>8 DEF FramingInv

\* A message is added behind those that are still to be taken.
LEMMA RestsAppend ==
    ASSUME NEW ind \in {"N", "T", "M"}, NEW texts \in Seq(Texts), NEW rest, Rests(ind, texts, rest),
           NEW text \in Texts, NEW k \in 0..Len(texts)
    PROVE  \E more : Rests(ind, Append(texts, text), more) /\ more[k] = Cat(rest[k], Xmit(ind, text))
<1>1. PICK x \in Seq(Byte) : x = Xmit(ind, text)
  BY XmitBytes
<1>2. PICK L \in Nat : L = Len(texts) /\ k \in 0..L
  BY LenProperties
<1> DEFINE all == Append(texts, text)
           more == [n \in 0..(L + 1) |-> IF n = L + 1 THEN <<>> ELSE Cat(rest[n], x)]
<1>3. /\ Len(all) = L + 1 /\ all[L + 1] = text
      /\ \A n \in 1..L : all[n] = texts[n] /\ texts[n] \in Texts
  BY <1>2, AppendProperties, LenProperties
<1>4. /\ \A n \in 0..L : rest[n] \in Seq(Byte)
      /\ rest[L] = <<>> /\ \A n \in 1..L : rest[n - 1] = Cat(Xmit(ind, texts[n]), rest[n])
  BY <1>2 DEF Rests
<1>5. /\ \A n \in 0..L : more[n] = Cat(rest[n], x)
      /\ more[L + 1] = <<>>
  BY <1>2
<1>6. more \in [0..(L + 1) -> Seq(Byte)]
  <2>1. \A n \in 0..L : Cat(rest[n], x) \in Seq(Byte)
    BY <1>4, CatFacts
  <2>2. \A n \in 0..(L + 1) : n = L + 1 \/ n \in 0..L
    BY <1>2
  <2> QED BY <2>1, <2>2
<1> HIDE DEF all, more
<1>7. ASSUME NEW n \in 1..(L + 1) PROVE more[n - 1] = Cat(Xmit(ind, all[n]), more[n])
  <2>1. CASE n = L + 1
    <3>1. n - 1 = L /\ L \in 0..L
      BY <1>2, <2>1
    <3>2. Cat(<<>>, x) = Cat(x, <<>>)
      BY CatFacts
    <3> QED BY <1>1, <1>3, <1>4, <1>5, <2>1, <3>1, <3>2
  <2>2. CASE n \in 1..L
    <3>1. n - 1 \in 0..L /\ n \in 0..L
      BY <1>2, <2>2
    <3>2. PICK a \in Seq(Byte), b \in Seq(Byte) : a = Xmit(ind, texts[n]) /\ b = rest[n]
      BY <1>3, <1>4, <2>2, <3>1, XmitBytes
    <3>3. Cat(Cat(a, b), x) = Cat(a, Cat(b, x))
      BY CatAssociative
    <3> QED BY <1>3, <1>4, <1>5, <2>2, <3>1, <3>2, <3>3
  <2> QED BY <1>2, <2>1, <2>2
<1>8. Rests(ind, all, more)
  BY <1>3, <1>5, <1>6, <1>7 DEF Rests
<1> QED BY <1>1, <1>2, <1>5, <1>8 DEF all

\* A message is sent (a caller of SocketSend...).
LEMMA SendMsgInv == ASSUME FramingInv, SendMsg PROVE FramingInv'
<1>1. /\ msglenInd # "none" /\ wireEnd = "open" /\ unsent = <<>> /\ Len(sent) < MaxMsgs
      /\ (pipelines \/ Len(taken) = Len(sent))
      /\ UNCHANGED <<msglenInd, sender, receiver, pipelines, wireEnd, wire, prevMsg, taken>>
  BY DEF SendMsg, framingKind
<1>2. PICK text : /\ \E n \in 0..MaxText : text = [i \in 1..n |-> Len(sent) + 1]
                  /\ sent' = Append(sent, text) /\ unsent' = Xmit(msglenInd, text)
  BY DEF SendMsg
<1> SUFFICES ASSUME StreamInv PROVE StreamInv'
  BY <1>1 DEF FramingInv, Paced
<1>3. PICK L \in Nat, K \in Nat : /\ L = Len(sent) /\ K = Len(taken) /\ K <= L
                                 /\ msglenInd \in {"N", "T", "M"}
  BY <1>1, StreamLengths
<1>4. text \in Texts
  <2>1. MaxText \in 0..255 /\ L + 1 \in 1..255
    <3>1. MaxText \in 0..255 /\ MaxMsgs \in 0..255
      BY FramingAssumption DEF FramingAssumption
    <3>2. L < MaxMsgs
      BY <1>1, <1>3
    <3>3. L + 1 \in 1..255
      BY <3>1, <3>2
    <3> QED BY <3>1, <3>3
  <2>2. PICK n \in 0..MaxText : text = [i \in 1..n |-> L + 1]
    BY <1>2, <1>3
  <2>3. n \in Nat /\ n \in 0..255
    BY <2>1
  <2>4. text \in Seq(1..255) /\ Len(text) = n
    BY <2>1, <2>2, <2>3
  <2> QED BY <2>3, <2>4 DEF Texts
<1>5. PICK x \in Seq(Byte) : x = unsent' /\ x = Xmit(msglenInd, text)
  BY <1>2, <1>3, <1>4, XmitBytes
<1>6. PICK rest : Streamed(msglenInd, sent, K, prevMsg, wire, rest, <<>>)
  BY <1>1, <1>3 DEF StreamInv
<1>7. PICK more : Rests(msglenInd, Append(sent, text), more) /\ more[K] = Cat(rest[K], x)
  <2>1. K \in 0..Len(sent) /\ sent \in Seq(Texts) /\ Rests(msglenInd, sent, rest)
    BY <1>3, <1>6 DEF StreamInv, Streamed
  <2> QED BY <1>3, <1>4, <1>5, <2>1, RestsAppend
<1>8. Cat(prevMsg, Cat(wire, x)) = Cat(rest[K], x)
  <2>1. prevMsg \in Seq(Byte) /\ wire \in Seq(Byte) /\ Cat(prevMsg, wire) \in Seq(Byte)
    BY CatFacts DEF StreamInv
  <2>2. Cat(wire, <<>>) = wire /\ Cat(prevMsg, Cat(wire, <<>>)) = rest[K]
    BY <1>6, <2>1, CatFacts DEF Streamed
  <2>3. Cat(Cat(prevMsg, wire), x) = Cat(prevMsg, Cat(wire, x))
    BY <2>1, CatAssociative
  <2> QED BY <2>2, <2>3
<1>9. Streamed(msglenInd, Append(sent, text), K, prevMsg, wire, more, x)
  BY <1>7, <1>8 DEF Streamed
<1>10. /\ sent' \in Seq(Texts) /\ Len(sent') = L + 1
       /\ \A i \in 1..L : sent'[i] = sent[i]
  BY <1>2, <1>3, <1>4, AppendProperties DEF StreamInv
<1>11. /\ Len(taken') <= Len(sent') /\ \A i \in 1..Len(taken') : taken'[i] = sent'[i]
       /\ (~pipelines' => Len(sent') <= Len(taken') + 1)
  <2>1. \A i \in 1..K : i \in 1..L
    BY <1>3
  <2> QED BY <1>1, <1>3, <1>10, <2>1 DEF StreamInv
<1>12. \E r, lost : /\ Streamed(msglenInd', sent', Len(taken'), prevMsg', wire', r, lost)
                    /\ wireEnd' = "open" => lost = unsent'
  BY <1>1, <1>2, <1>3, <1>5, <1>9
<1> QED BY <1>1, <1>5, <1>10, <1>11, <1>12 DEF StreamInv

\* Bytes go from one place to the next, or are lost.
BytesNext ==
    /\ unsent' \in Seq(Byte) /\ wire' \in Seq(Byte) /\ prevMsg' \in Seq(Byte)
    /\ wireEnd' \in {"open", "closed", "reset"} /\ (wireEnd' = "reset" => wire' = <<>>)
    /\ \A lost \in Seq(Byte) : (wireEnd = "open" => lost = unsent) =>
          \E l \in Seq(Byte) : /\ Cat(prevMsg', Cat(wire', l)) = Cat(prevMsg, Cat(wire, lost))
                               /\ wireEnd' = "open" => l = unsent'

LEMMA BytesMoved ==
    ASSUME FramingInv, UNCHANGED <<framingKind, taken, sent>>, StreamInv => BytesNext
    PROVE  FramingInv'
<1> SUFFICES ASSUME StreamInv PROVE StreamInv'
  BY DEF FramingInv, Paced, framingKind
<1>1. PICK rest, lost : /\ Streamed(msglenInd, sent, Len(taken), prevMsg, wire, rest, lost)
                        /\ wireEnd = "open" => lost = unsent
  BY DEF StreamInv
<1>2. PICK l \in Seq(Byte) : /\ Cat(prevMsg', Cat(wire', l)) = Cat(prevMsg, Cat(wire, lost))
                             /\ wireEnd' = "open" => l = unsent'
  BY <1>1 DEF Streamed, BytesNext
<1>3. Streamed(msglenInd, sent, Len(taken), prevMsg', wire', rest, l)
  BY <1>1, <1>2 DEF Streamed
<1> QED BY <1>2, <1>3 DEF StreamInv, BytesNext, framingKind

\* One send() (socketsend.c).
LEMMA SendBytesNext == ASSUME StreamInv, SendBytes PROVE BytesNext
<1>1. wireEnd = "open" /\ UNCHANGED <<wireEnd, prevMsg>>
  BY DEF SendBytes
<1>2. PICK n \in 1..Len(unsent) : /\ wire' = wire \o SubSeq(unsent, 1, n)
                                 /\ unsent' = SubSeq(unsent, n + 1, Len(unsent))
  BY DEF SendBytes
<1>3. unsent \in Seq(Byte) /\ wire \in Seq(Byte) /\ prevMsg \in Seq(Byte)
  BY DEF StreamInv
<1>4. n \in 0..Len(unsent)
  BY <1>3, LenProperties
<1>5. PICK a \in Seq(Byte), b \in Seq(Byte) : wire' = Cat(wire, a) /\ unsent' = b /\ Cat(a, b) = unsent
  <2>1. PICK a \in Seq(Byte), b \in Seq(Byte) :
            a = SubSeq(unsent, 1, n) /\ b = SubSeq(unsent, n + 1, Len(unsent)) /\ Cat(a, b) = unsent
    <3>1. /\ SubSeq(unsent, 1, n) \in Seq(Byte) /\ SubSeq(unsent, n + 1, Len(unsent)) \in Seq(Byte)
          /\ Cat(SubSeq(unsent, 1, n), SubSeq(unsent, n + 1, Len(unsent))) = unsent
      BY <1>3, <1>4, CutInTwo
    <3> QED BY <3>1
  <2>2. wire' = Cat(wire, a) /\ unsent' = b
    BY <1>2, <2>1 DEF Cat
  <2> QED BY <2>1, <2>2
<1>6. wire' \in Seq(Byte)
  BY <1>3, <1>5, CatFacts
<1>7. Cat(Cat(wire, a), b) = Cat(wire, Cat(a, b))
  BY <1>3, CatAssociative
<1>8. Cat(prevMsg', Cat(wire', unsent')) = Cat(prevMsg, Cat(wire, unsent))
  BY <1>1, <1>5, <1>7
<1> QED BY <1>1, <1>3, <1>5, <1>6, <1>8 DEF BytesNext

LEMMA SendResetNext == ASSUME StreamInv, SendReset PROVE BytesNext
BY DEF StreamInv, SendReset, BytesNext

\* One recv() (socketrecv.c).
LEMMA RecvNext ==
    ASSUME StreamInv, NEW n \in 1..Len(wire), Recv(n), UNCHANGED <<wireEnd, unsent>>
    PROVE  /\ Buffer(n) \in Seq(Byte) /\ wire' \in Seq(Byte) /\ wireEnd # "reset"
           /\ \A l \in Seq(Byte) : Cat(Buffer(n), Cat(wire', l)) = Cat(prevMsg, Cat(wire, l))
<1>1. wire' = SubSeq(wire, n + 1, Len(wire)) /\ wireEnd # "reset"
  BY DEF Recv
<1>2. wire \in Seq(Byte) /\ prevMsg \in Seq(Byte)
  BY DEF StreamInv
<1>3. n \in 0..Len(wire)
  BY <1>2, LenProperties
<1>4. PICK a \in Seq(Byte), b \in Seq(Byte) : Buffer(n) = Cat(prevMsg, a) /\ wire' = b /\ Cat(a, b) = wire
  <2>1. PICK a \in Seq(Byte), b \in Seq(Byte) :
            a = SubSeq(wire, 1, n) /\ b = SubSeq(wire, n + 1, Len(wire)) /\ Cat(a, b) = wire
    <3>1. /\ SubSeq(wire, 1, n) \in Seq(Byte) /\ SubSeq(wire, n + 1, Len(wire)) \in Seq(Byte)
          /\ Cat(SubSeq(wire, 1, n), SubSeq(wire, n + 1, Len(wire))) = wire
      BY <1>2, <1>3, CutInTwo
    <3> QED BY <3>1
  <2>2. Buffer(n) = Cat(prevMsg, a) /\ wire' = b
    BY <1>1, <2>1 DEF Cat, Buffer
  <2> QED BY <2>1, <2>2
<1>5. ASSUME NEW l \in Seq(Byte) PROVE Cat(Cat(prevMsg, a), Cat(b, l)) = Cat(prevMsg, Cat(wire, l))
  <2>1. Cat(b, l) \in Seq(Byte)
    BY CatFacts
  <2>2. Cat(Cat(prevMsg, a), Cat(b, l)) = Cat(prevMsg, Cat(a, Cat(b, l)))
    BY <1>2, <2>1, CatAssociative
  <2>3. Cat(Cat(a, b), l) = Cat(a, Cat(b, l))
    BY CatAssociative
  <2> QED BY <1>4, <2>2, <2>3
<1>6. Cat(prevMsg, a) \in Seq(Byte)
  BY <1>2, CatFacts
<1> QED BY <1>1, <1>4, <1>5, <1>6

LEMMA RecvBytesNext ==
    ASSUME StreamInv, NEW n \in 1..Len(wire), Recv(n), prevMsg' = Buffer(n), UNCHANGED <<wireEnd, unsent>>
    PROVE  BytesNext
<1>1. /\ Buffer(n) \in Seq(Byte) /\ wire' \in Seq(Byte) /\ wireEnd # "reset"
      /\ \A l \in Seq(Byte) : Cat(Buffer(n), Cat(wire', l)) = Cat(prevMsg, Cat(wire, l))
  BY RecvNext
<1> QED BY <1>1 DEF StreamInv, BytesNext

LEMMA DisconnectedNext == ASSUME StreamInv, Disconnected, UNCHANGED <<wireEnd, unsent>> PROVE BytesNext
<1>1. /\ wireEnd # "open" /\ wire = <<>> /\ wire' = <<>> /\ prevMsg' = <<>>
      /\ wire \in Seq(Byte) /\ prevMsg \in Seq(Byte) /\ unsent \in Seq(Byte)
      /\ wireEnd \in {"open", "closed", "reset"}
  BY DEF Disconnected, StreamInv
<1>2. ASSUME NEW lost \in Seq(Byte)
      PROVE  \E l \in Seq(Byte) : Cat(prevMsg', Cat(wire', l)) = Cat(prevMsg, Cat(wire, lost))
  <2>1. PICK l \in Seq(Byte) : l = Cat(prevMsg, Cat(wire, lost))
    <3>1. Cat(wire, lost) \in Seq(Byte)
      BY <1>1, CatFacts
    <3> QED BY <1>1, <3>1, CatFacts
  <2>2. Cat(<<>>, l) = l
    BY CatFacts
  <2> QED BY <1>1, <2>1, <2>2
<1>3. <<>> \in Seq(Byte)
  OBVIOUS
<1> QED BY <1>1, <1>2, <1>3 DEF BytesNext

\* The connection ends: what is behind the cut is lost.
LEMMA CloseWireInv == ASSUME FramingInv, CloseWire PROVE FramingInv'
<1>1. UNCHANGED <<framingKind, prevMsg, taken, sent>>
  BY DEF CloseWire
<1> SUFFICES ASSUME StreamInv PROVE BytesNext
  BY <1>1, BytesMoved
<1>2. unsent \in Seq(Byte) /\ wire \in Seq(Byte) /\ prevMsg \in Seq(Byte) /\ <<>> \in Seq(Byte)
  BY DEF StreamInv
<1>3. CASE wireEnd' = "closed" /\ unsent' = <<>> /\ UNCHANGED wire
  BY <1>1, <1>2, <1>3 DEF BytesNext
<1>4. CASE wireEnd' = "reset" /\ wire' = <<>> /\ UNCHANGED unsent
  <2>1. ASSUME NEW lost \in Seq(Byte)
        PROVE  \E l \in Seq(Byte) : Cat(prevMsg', Cat(wire', l)) = Cat(prevMsg, Cat(wire, lost))
    <3>1. PICK l \in Seq(Byte) : l = Cat(wire, lost)
      BY <1>2, CatFacts
    <3>2. Cat(<<>>, l) = l
      BY CatFacts
    <3> QED BY <1>1, <1>4, <3>1, <3>2
  <2> QED BY <1>1, <1>2, <1>4, <2>1 DEF BytesNext
<1> QED BY <1>3, <1>4 DEF CloseWire

\* A complete message in a buffer p, with q behind it, is the next one.
LEMMA TakeNext ==
    ASSUME StreamInv, msglenInd # "none", NEW rest, Rests(msglenInd, sent, rest),
           NEW p \in Seq(Byte), NEW q \in Seq(Byte), Cat(p, q) = rest[Len(taken)],
           IsMsgComplete(msglenInd, p)
    PROVE  LET n == LenInMsg(msglenInd, p)
               all == Append(taken, TextOf(msglenInd, SubSeq(p, 1, n))) IN
           /\ all \in Seq(Texts) /\ Len(all) = Len(taken) + 1 /\ Len(all) <= Len(sent)
           /\ \A i \in 1..Len(all) : all[i] = sent[i]
           /\ SubSeq(p, n + 1, Len(p)) \in Seq(Byte) /\ Len(p) >= n /\ n \in Nat \ {0}
           /\ Cat(SubSeq(p, n + 1, Len(p)), q) = rest[Len(taken) + 1]
<1>1. PICK L \in Nat, K \in Nat : /\ L = Len(sent) /\ K = Len(taken) /\ K \in 0..L
                                 /\ msglenInd \in {"N", "T", "M"}
  BY StreamLengths
<1>2. /\ sent \in Seq(Texts) /\ taken \in Seq(Texts) /\ \A i \in 1..K : taken[i] = sent[i]
  BY <1>1 DEF StreamInv
<1> DEFINE n == LenInMsg(msglenInd, p)
           text == TextOf(msglenInd, SubSeq(p, 1, n))
           all == Append(taken, text)
           x == Xmit(msglenInd, sent[K + 1])
<1>3. n > 0
  BY DEF IsMsgComplete
<1>4. K # L
  <2>1. K = Len(sent) => n = 0
    BY <1>1, <1>2, FirstMessage
  <2> QED BY <1>1, <1>3, <2>1
<1>5. /\ x \in Seq(Byte) /\ Len(x) \in Nat \ {0} /\ sent[K + 1] \in Texts
      /\ n = IF Len(p) >= Len(x) THEN Len(x) ELSE 0
      /\ n # 0 => /\ SubSeq(p, 1, n) = x /\ SubSeq(p, n + 1, Len(p)) \in Seq(Byte)
                  /\ Cat(SubSeq(p, n + 1, Len(p)), q) = rest[K + 1]
  <2>1. K \in 0..Len(sent) /\ K # Len(sent) /\ Cat(p, q) = rest[K] /\ msglenInd \in {"N", "T", "M"}
    BY <1>1, <1>4
  <2> QED BY <1>2, <2>1, FirstMessage
<1>50. TextOf(msglenInd, x) = sent[K + 1]
  BY <1>1, <1>5, XmitBytes
<1> HIDE DEF x
<1>6. /\ n # 0 /\ n = Len(x) /\ Len(p) >= n
      /\ SubSeq(p, 1, n) = x /\ SubSeq(p, n + 1, Len(p)) \in Seq(Byte)
      /\ Cat(SubSeq(p, n + 1, Len(p)), q) = rest[K + 1]
  BY <1>3, <1>5
<1> HIDE DEF n
<1>7. text = sent[K + 1]
  BY <1>6, <1>50
<1> HIDE DEF text
<1>8. /\ all \in Seq(Texts) /\ Len(all) = K + 1 /\ all[K + 1] = sent[K + 1]
      /\ \A i \in 1..K : all[i] = taken[i]
  BY <1>1, <1>2, <1>5, <1>7, AppendProperties
<1> HIDE DEF all
<1>9. \A i \in 1..(K + 1) : all[i] = sent[i]
  <2>1. \A i \in 1..(K + 1) : i = K + 1 \/ i \in 1..K
    OBVIOUS
  <2> QED BY <1>2, <1>8, <2>1
<1>10. K + 1 <= L
  BY <1>1, <1>4
<1> QED BY <1>1, <1>5, <1>6, <1>8, <1>9, <1>10 DEF all, text, n

\* A message is taken out of the buffer (MsgGetComplete).
LEMMA MsgGetCompleteInv == ASSUME FramingInv, MsgGetComplete PROVE FramingInv'
<1> DEFINE n == LenInMsg(msglenInd, prevMsg)
           text == TextOf(msglenInd, SubSeq(prevMsg, 1, n))
<1>1. /\ Whole /\ IsMsgComplete(msglenInd, prevMsg) /\ UNCHANGED <<framingKind, wireEnd, unsent, wire, sent>>
      /\ taken' = Append(taken, text) /\ prevMsg' = SubSeq(prevMsg, n + 1, Len(prevMsg))
  BY DEF MsgGetComplete
<1>2. msglenInd # "none"
  BY <1>1 DEF FramingInv, Whole
<1> SUFFICES ASSUME StreamInv PROVE StreamInv'
  BY <1>1, <1>2 DEF FramingInv, Paced, framingKind
<1>3. PICK rest, lost : /\ Streamed(msglenInd, sent, Len(taken), prevMsg, wire, rest, lost)
                        /\ wireEnd = "open" => lost = unsent
  BY DEF StreamInv
<1>4. PICK q \in Seq(Byte) : q = Cat(wire, lost)
  BY <1>3, CatFacts DEF Streamed, StreamInv
<1>5. /\ prevMsg \in Seq(Byte) /\ Rests(msglenInd, sent, rest) /\ Cat(prevMsg, q) = rest[Len(taken)]
  BY <1>3, <1>4 DEF Streamed, StreamInv
<1>6. /\ taken' \in Seq(Texts) /\ Len(taken') = Len(taken) + 1 /\ Len(taken') <= Len(sent)
      /\ \A i \in 1..Len(taken') : taken'[i] = sent[i]
      /\ prevMsg' \in Seq(Byte) /\ Cat(prevMsg', q) = rest[Len(taken) + 1]
  BY <1>1, <1>2, <1>5, TakeNext
<1> HIDE DEF n, text
<1>7. Streamed(msglenInd, sent, Len(taken'), prevMsg', wire, rest, lost)
  BY <1>3, <1>4, <1>5, <1>6 DEF Streamed
<1>8. ~pipelines => Len(sent) <= Len(taken') + 1
  <2>1. Len(taken) \in Nat /\ Len(sent) \in Nat
    BY StreamLengths
  <2> QED BY <1>6, <2>1 DEF StreamInv
<1> QED BY <1>1, <1>3, <1>6, <1>7, <1>8 DEF StreamInv, framingKind

\* It receives once and takes all of the buffer for the message (SocketRecv), from a
\* sender that has sent no other.
LEMMA SocketRecvInv == ASSUME FramingInv, SocketRecv PROVE FramingInv'
<1>1. receiver = "SocketRecv" /\ UNCHANGED <<framingKind, wireEnd, unsent, sent>>
  BY DEF SocketRecv
<1>2. msglenInd # "none"
  BY <1>1 DEF FramingInv
<1>3. CASE Disconnected /\ UNCHANGED taken
  BY <1>1, <1>3, DisconnectedNext, BytesMoved
<1>4. CASE \E n \in 1..Len(wire) :
             Recv(n) /\ ~IsMsgComplete(msglenInd, Buffer(n)) /\ prevMsg' = Buffer(n) /\ UNCHANGED taken
  BY <1>1, <1>4, RecvBytesNext, BytesMoved
<1>5. ASSUME NEW n \in 1..Len(wire), Recv(n), IsMsgComplete(msglenInd, Buffer(n)),
             taken' = Append(taken, TextOf(msglenInd, Buffer(n))), prevMsg' = <<>>
      PROVE  FramingInv'
  <2> SUFFICES ASSUME StreamInv, ~pipelines PROVE StreamInv'
    BY <1>1, <1>2 DEF FramingInv, Paced, framingKind
  <2>1. PICK rest, lost : /\ Streamed(msglenInd, sent, Len(taken), prevMsg, wire, rest, lost)
                          /\ wireEnd = "open" => lost = unsent
    BY DEF StreamInv
  <2>2. lost \in Seq(Byte) /\ Rests(msglenInd, sent, rest) /\ Cat(prevMsg, Cat(wire, lost)) = rest[Len(taken)]
    BY <2>1 DEF Streamed
  <2>3. /\ Buffer(n) \in Seq(Byte) /\ wire' \in Seq(Byte) /\ wireEnd # "reset"
        /\ Cat(Buffer(n), Cat(wire', lost)) = Cat(prevMsg, Cat(wire, lost))
    BY <1>1, <1>5, <2>2, RecvNext
  <2>4. PICK p \in Seq(Byte), q \in Seq(Byte) :
            p = Buffer(n) /\ q = Cat(wire', lost) /\ Cat(p, q) = rest[Len(taken)]
    BY <2>2, <2>3, CatFacts
  <2> DEFINE l == LenInMsg(msglenInd, p)
             all == Append(taken, TextOf(msglenInd, SubSeq(p, 1, l)))
             left == SubSeq(p, l + 1, Len(p))
  <2>5. IsMsgComplete(msglenInd, p)
    BY <1>5, <2>4
  <2>6. /\ all \in Seq(Texts) /\ Len(all) = Len(taken) + 1 /\ Len(all) <= Len(sent)
        /\ \A i \in 1..Len(all) : all[i] = sent[i]
        /\ left \in Seq(Byte) /\ Len(p) >= l /\ l \in Nat \ {0}
        /\ Cat(left, q) = rest[Len(taken) + 1]
    BY <1>2, <2>2, <2>4, <2>5, TakeNext
  <2>7. Len(taken) + 1 = Len(sent) /\ rest[Len(taken) + 1] = <<>>
    <3>1. Len(taken) \in Nat /\ Len(sent) \in Nat
      BY StreamLengths
    <3>2. Len(sent) <= Len(taken) + 1
      BY DEF StreamInv
    <3> QED BY <2>2, <2>6, <3>1, <3>2 DEF Rests
  <2> HIDE DEF l, all, left
  <2>8. left = <<>> /\ q = <<>>
    BY <2>6, <2>7, CatEmpty
  <2>9. taken' = all
    <3>1. l \in 0..Len(p)
      <4>1. Len(p) \in Nat
        BY LenProperties
      <4> QED BY <2>6, <4>1
    <3>2. SubSeq(p, 1, l) \in Seq(Byte) /\ Cat(SubSeq(p, 1, l), left) = p
      BY <3>1, CutInTwo DEF left
    <3>3. SubSeq(p, 1, l) = p
      BY <2>8, <3>2, CatFacts
    <3> QED BY <1>5, <2>4, <3>3 DEF all
  <2>10. wire' = <<>> /\ lost = <<>>
    BY <2>2, <2>3, <2>4, <2>8, CatEmpty
  <2>11. Streamed(msglenInd, sent, Len(taken'), prevMsg', wire', rest, lost)
    <3>1. Cat(<<>>, Cat(<<>>, <<>>)) = <<>>
      BY <2>2, <2>10, CatFacts
    <3> QED BY <1>5, <2>2, <2>6, <2>7, <2>9, <2>10, <3>1 DEF Streamed
  <2>12. Len(sent) <= Len(taken') + 1
    <3>1. Len(taken) \in Nat /\ Len(sent) \in Nat
      BY StreamLengths
    <3> QED BY <2>6, <2>7, <2>9, <3>1
  <2> QED BY <1>1, <1>5, <2>1, <2>3, <2>6, <2>9, <2>11, <2>12 DEF StreamInv, framingKind
<1> QED BY <1>3, <1>4, <1>5 DEF SocketRecv

LEMMA FramingStepInv == FramingInv /\ [FramingNext]_framingVars => FramingInv'
<1> SUFFICES ASSUME FramingInv, [FramingNext]_framingVars PROVE FramingInv'
  OBVIOUS
<1>1. CASE UNCHANGED framingVars
  BY <1>1 DEF framingVars, FramingInv, Paced, StreamInv
<1>2. CASE SendBytes \/ SendReset
  BY <1>2, SendBytesNext, SendResetNext, BytesMoved DEF SendBytes, SendReset
<1>3. CASE SocketRecvByClient \/ SocketRecvByServer
  <2>1. /\ UNCHANGED <<framingKind, wireEnd, unsent, taken, sent>>
        /\ Disconnected \/ \E n \in 1..Len(wire) : Recv(n) /\ prevMsg' = Buffer(n)
    BY <1>3 DEF SocketRecvByClient, SocketRecvByServer
  <2> QED BY <2>1, DisconnectedNext, RecvBytesNext, BytesMoved
<1> QED BY <1>1, <1>2, <1>3, SetIndicatorInv, SendMsgInv, MsgGetCompleteInv, SocketRecvInv, CloseWireInv
        DEF FramingNext, SocketSendNoYield, SocketSendYield

\* A buffer that has all of the bytes, and no message, is empty: every text is taken.
Nothing(q) == q = <<>>

LEMMA NoneLeft ==
    ASSUME NEW ind \in {"N", "T", "M"}, NEW texts \in Seq(Texts), NEW rest, Rests(ind, texts, rest),
           NEW k \in 0..Len(texts), NEW p \in Seq(Byte), NEW q \in Seq(Byte),
           Cat(p, q) = rest[k], ~IsMsgComplete(ind, p)
    PROVE  Nothing(q) => k = Len(texts) /\ p = <<>>
<1>2. CASE k = Len(texts)
  <2>1. p = <<>>
    BY <1>2, FirstMessage
  <2> QED BY <1>2, <2>1
<1>3. CASE k # Len(texts)
  <2> DEFINE x == Xmit(ind, texts[k + 1])
  <2>1. /\ Len(x) \in Nat \ {0}
        /\ LenInMsg(ind, p) = IF Len(p) >= Len(x) THEN Len(x) ELSE 0
        /\ Len(q) \in Nat /\ Len(p) + Len(q) >= Len(x)
    BY <1>3, FirstMessage
  <2> HIDE DEF x
  <2>2. PICK m \in Nat, n \in Nat : n = LenInMsg(ind, p) /\ m = Len(q) /\ (m = 0 => n # 0)
    <3>1. Len(p) \in Nat
      BY LenProperties
    <3> QED BY <2>1, <3>1
  <2>3. Nothing(q) => m = 0
    BY <2>2 DEF Nothing
  <2> QED BY <2>2, <2>3 DEF IsMsgComplete
<1> QED BY <1>2, <1>3

\* What the invariant says of the messages taken: they are the first that were sent,
\* and all of them when nothing is under way.
LEMMA FramingInvOrder == FramingInv => MessagesInOrder
<1> SUFFICES ASSUME FramingInv, receiver # "SocketRecv" \/ ~pipelines
             PROVE  /\ IsPrefix(taken, sent)
                    /\ wireEnd = "open" /\ unsent = <<>> /\ wire = <<>>
                       /\ ~IsMsgComplete(msglenInd, prevMsg) => taken = sent /\ prevMsg = <<>>
  BY DEF MessagesInOrder
<1>0. StreamInv
  BY DEF FramingInv, Paced
<1>1. PICK L \in Nat, K \in Nat : L = Len(sent) /\ K = Len(taken) /\ K \in 0..L
  BY <1>0, StreamLengths
<1>2. /\ sent \in Seq(Texts) /\ taken \in Seq(Texts) /\ prevMsg \in Seq(Byte)
      /\ \A i \in 1..K : taken[i] = sent[i]
  BY <1>0, <1>1 DEF StreamInv
<1>3. SubSeq(taken, 1, K) = SubSeq(sent, 1, K)
  <2>1. PICK a \in Seq(Texts), b \in Seq(Texts) :
            /\ a = SubSeq(taken, 1, K) /\ b = SubSeq(sent, 1, K) /\ Len(a) = K /\ Len(b) = K
            /\ \A i \in 1..K : a[i] = taken[i] /\ b[i] = sent[i]
    <3>1. K \in 0..Len(taken) /\ K \in 0..Len(sent)
      BY <1>1
    <3>2. /\ SubSeq(taken, 1, K) \in Seq(Texts) /\ Len(SubSeq(taken, 1, K)) = K
          /\ \A i \in 1..K : SubSeq(taken, 1, K)[i] = taken[i]
      BY <1>2, <3>1, CutInTwo
    <3>3. /\ SubSeq(sent, 1, K) \in Seq(Texts) /\ Len(SubSeq(sent, 1, K)) = K
          /\ \A i \in 1..K : SubSeq(sent, 1, K)[i] = sent[i]
      BY <1>2, <3>1, CutInTwo
    <3> QED BY <3>2, <3>3
  <2>2. a = b
    BY <1>2, <2>1, SeqEqual
  <2> QED BY <2>1, <2>2
<1>4. IsPrefix(taken, sent)
  BY <1>1, <1>3 DEF IsPrefix
<1>5. ASSUME wireEnd = "open", unsent = <<>>, wire = <<>>, ~IsMsgComplete(msglenInd, prevMsg)
      PROVE  taken = sent /\ prevMsg = <<>>
  <2>1. PICK rest, lost : Streamed(msglenInd, sent, K, prevMsg, wire, rest, lost) /\ lost = unsent
    BY <1>0, <1>1, <1>5 DEF StreamInv
  <2>2. wire \in Seq(Byte) /\ Rests(msglenInd, sent, rest) /\ Cat(prevMsg, wire) = rest[K]
    <3>1. wire \in Seq(Byte) /\ lost = wire /\ Cat(wire, lost) = wire
      BY <1>0, <1>5, <2>1, CatFacts DEF StreamInv
    <3> QED BY <2>1, <3>1 DEF Streamed
  <2>3. CASE msglenInd = "none"
    <3>1. sent = <<>> /\ L = 0 /\ K = 0
      BY <1>0, <1>1, <2>3 DEF StreamInv
    <3>2. taken = <<>>
      BY <1>1, <1>2, <3>1, EmptySeq
    <3>3. rest[K] = <<>>
      BY <1>1, <2>2, <3>1 DEF Rests
    <3>4. prevMsg = <<>>
      BY <1>2, <2>2, <3>3, CatEmpty
    <3> QED BY <3>1, <3>2, <3>4
  <2>4. CASE msglenInd # "none"
    <3>1. msglenInd \in {"N", "T", "M"} /\ K \in 0..Len(sent)
      BY <1>0, <1>1, <2>4, StreamLengths
    <3>2. K = Len(sent) /\ prevMsg = <<>>
      <4>1. ~IsMsgComplete(msglenInd, prevMsg)
        BY <1>5
      <4>2. Nothing(wire) => K = Len(sent) /\ prevMsg = <<>>
        BY <1>2, <2>2, <3>1, <4>1, NoneLeft
      <4>3. Nothing(wire)
        BY <1>5 DEF Nothing
      <4> QED BY <4>2, <4>3
    <3>3. taken = sent
      BY <1>1, <1>2, <3>2, SeqEqual
    <3> QED BY <3>2, <3>3
  <2> QED BY <2>3, <2>4
<1> QED BY <1>4, <1>5

\* The receiver gets the messages whole, in order and once, whatever the pieces they
\* travel in (msglenrtns.c, socketsend.c, socketrecv.c): for every number of messages
\* of up to 255 bytes.
THEOREM FramingKeepsOrder == FramingSpec => []MessagesInOrder
<1>1. FramingSpec => []FramingInv
  BY FramingInitInv, FramingStepInv, PTL DEF FramingSpec
<1> QED BY <1>1, FramingInvOrder, PTL
-----------------------------------------------------------------------------
(***************************************************************************)
(* The merged coverage file.                                               *)
(***************************************************************************)
\* The lines of a file from which nothing was skipped, and such a file.
Heads == {Source("Source:a"), Source("Source:b"), Line(0, "-", 0, "Runs:1")}
Coded == {l \in [lineno : 1..MaxLine, mark : {"-", "#", "*", "plain"}, hitcnt : 0..2, outbuf : {"text"}] :
            (l.hitcnt = 0 <=> l.mark \in {"-", "#"})}
GcovLines == Heads \cup Coded
Ascending(s) == \A i, j \in 1..Len(s) : i < j => s[i].lineno < s[j].lineno
CleanFile(s) ==
    /\ s \in Seq(GcovLines) /\ Ascending(s)
    /\ Len(s) > 0 => s[1] \in Heads
    /\ Len(s) > 1 => s[1].outbuf = "Source:a"
\* The lines behind the first one, up to number n.
IsBody(b, n) == b \in Seq(Coded) /\ Ascending(b) /\ \A i \in 1..Len(b) : b[i].lineno <= n

LEMMA BodyCoded == \A n \in 1..MaxLine : \A l \in Body(n) : l \in Coded /\ l.lineno = n
<1> SUFFICES ASSUME NEW n \in 1..MaxLine, NEW l \in Body(n) PROVE l \in Coded /\ l.lineno = n
  OBVIOUS
<1> DEFINE Good(m) == m \in Coded /\ m.lineno = n
<1>1. Good(Line(n, "-", 0, "text")) /\ Good(Line(n, "#", 0, "text"))
  BY DEF Coded, Line
<1>2. Good(Line(n, "*", 1, "text"))
  BY DEF Coded, Line
<1>3. Good(Line(n, "plain", 1, "text"))
  BY DEF Coded, Line
<1>4. Good(Line(n, "plain", 2, "text"))
  BY DEF Coded, Line
<1> HIDE DEF Good
<1>5. Good(l)
  BY <1>1, <1>2, <1>3, <1>4 DEF Body
<1> QED BY <1>5 DEF Good

LEMMA LineNumbers == \A l \in GcovLines : l.lineno \in Nat
<1>1. \A l \in Coded : l.lineno \in 1..MaxLine
  BY DEF Coded
<1>2. \A l \in Heads : l.lineno = 0
  BY DEF Heads, Source, Line
<1> QED BY <1>1, <1>2, MergeAssumption DEF GcovLines, MergeAssumption

\* A file's body with one more line.
LEMMA AppendBody ==
    ASSUME NEW n \in 1..MaxLine, NEW b, IsBody(b, n - 1), NEW l \in Coded, l.lineno = n
    PROVE  IsBody(Append(b, l), n)
<1>1. PICK m \in Nat : m = Len(b)
  BY LenProperties DEF IsBody
<1>2. PICK c \in Seq(Coded) : /\ c = Append(b, l) /\ Len(c) = m + 1 /\ c[m + 1] = l
                              /\ \A i \in 1..m : c[i] = b[i]
  <2>1. b \in Seq(Coded)
    BY DEF IsBody
  <2>2. /\ Append(b, l) \in Seq(Coded) /\ Len(Append(b, l)) = Len(b) + 1
        /\ \A i \in 1..Len(b) : Append(b, l)[i] = b[i]
        /\ Append(b, l)[Len(b) + 1] = l
    BY <2>1, AppendProperties
  <2> QED BY <1>1, <2>2
<1>3. \A i \in 1..m : c[i].lineno <= n - 1 /\ b[i].lineno = c[i].lineno
  BY <1>1, <1>2 DEF IsBody
<1>4. \A i \in 1..Len(c) : c[i].lineno \in Nat
  <2>1. \A i \in 1..Len(c) : c[i] \in Coded
    BY <1>2, LenProperties
  <2> QED BY <2>1, LineNumbers DEF GcovLines
<1>5. \A i \in 1..Len(c) : i \in 1..m \/ i = m + 1
  BY <1>2
<1>6. \A i \in 1..Len(c) : c[i].lineno <= n
  BY <1>2, <1>3, <1>4, <1>5, MergeAssumption DEF MergeAssumption
<1>7. ASSUME NEW i \in 1..Len(c), NEW j \in 1..Len(c), i < j PROVE c[i].lineno < c[j].lineno
  <2>1. i \in 1..m
    BY <1>2, <1>7
  <2>2. CASE j \in 1..m
    BY <1>1, <1>3, <1>7, <2>1, <2>2 DEF IsBody, Ascending
  <2>3. CASE j = m + 1
    <3>1. c[i].lineno <= n - 1 /\ c[j].lineno = n /\ c[i].lineno \in Nat
      BY <1>2, <1>3, <1>4, <2>1, <2>3
    <3> QED BY <3>1, MergeAssumption DEF MergeAssumption
  <2> QED BY <1>5, <2>2, <2>3
<1> QED BY <1>2, <1>6, <1>7 DEF IsBody, Ascending

\* The recursive function that the files are made of exists.
Longer(B, n) == B \cup {Append(b, l) : b \in B, l \in Body(n)}
BodiesUpTo(f, N) == f = [n \in 0..N |-> IF n = 0 THEN {<<>>} ELSE Longer(f[n - 1], n)]

LEMMA BodiesExist == \A N \in Nat : \E f : BodiesUpTo(f, N)
<1> DEFINE S == {N \in Nat : \E f : BodiesUpTo(f, N)}
<1>1. 0 \in S
  <2> DEFINE f == [n \in 0..0 |-> {<<>>}]
  <2>1. BodiesUpTo(f, 0)
    BY DEF BodiesUpTo
  <2> QED BY <2>1
<1>2. ASSUME NEW N \in Nat, N \in S PROVE N + 1 \in S
  <2>1. PICK f : BodiesUpTo(f, N)
    BY <1>2
  <2> DEFINE g == [n \in 0..(N + 1) |-> IF n <= N THEN f[n] ELSE Longer(f[N], N + 1)]
  <2>2. ASSUME NEW n \in 0..(N + 1)
        PROVE  g[n] = IF n = 0 THEN {<<>>} ELSE Longer(g[n - 1], n)
    <3>1. CASE n = 0
      BY <2>1, <3>1 DEF BodiesUpTo
    <3>2. CASE n \in 1..N
      <4>1. n # 0 /\ n \in 0..N /\ n - 1 \in 0..N /\ g[n] = f[n] /\ g[n - 1] = f[n - 1]
        BY <3>2
      <4>2. f[n] = Longer(f[n - 1], n)
        BY <2>1, <4>1 DEF BodiesUpTo
      <4> QED BY <4>1, <4>2
    <3>3. CASE n = N + 1
      <4>1. n # 0 /\ n - 1 = N /\ g[n - 1] = f[N] /\ g[n] = Longer(f[N], N + 1)
        BY <3>3
      <4> QED BY <3>3, <4>1
    <3> QED BY <3>1, <3>2, <3>3
  <2>3. BodiesUpTo(g, N + 1)
    <3> DEFINE body(n) == IF n = 0 THEN {<<>>} ELSE Longer(g[n - 1], n)
    <3>1. g = [n \in 0..(N + 1) |-> g[n]]
      OBVIOUS
    <3>2. \A n \in 0..(N + 1) : g[n] = body(n)
      BY <2>2
    <3>3. [n \in 0..(N + 1) |-> g[n]] = [n \in 0..(N + 1) |-> body(n)]
      <4> HIDE DEF g
      <4> HIDE DEF body
      <4> QED BY <3>2
    <3> HIDE DEF g
    <3> QED BY <3>1, <3>3 DEF BodiesUpTo
  <2> HIDE DEF g
  <2> QED BY <2>3
<1>3. \A N \in Nat : N \in S
  <2> HIDE DEF S
  <2> QED BY <1>1, <1>2, SetInduction
<1> QED BY <1>3

LEMMA BodiesDefined == BodiesUpTo(Bodies, MaxLine)
<1>1. \E f : BodiesUpTo(f, MaxLine)
  BY BodiesExist, MergeAssumption DEF MergeAssumption
<1>2. Bodies = CHOOSE f : BodiesUpTo(f, MaxLine)
  BY DEF BodiesUpTo, Bodies, Longer
<1> QED BY <1>1, <1>2

LEMMA BodiesAscend == \A n \in 0..MaxLine : \A b \in Bodies[n] : IsBody(b, n)
<1> DEFINE S == {n \in 0..MaxLine : \A b \in Bodies[n] : IsBody(b, n)}
<1>1. 0 \in S
  <2>1. Bodies[0] = {<<>>} /\ 0 \in 0..MaxLine
    BY BodiesDefined, MergeAssumption DEF BodiesUpTo, MergeAssumption
  <2>2. IsBody(<<>>, 0)
    BY EmptySeq DEF IsBody, Ascending
  <2> QED BY <2>1, <2>2
<1>2. ASSUME NEW n \in 0..(MaxLine - 1), n \in S PROVE n + 1 \in S
  <2>1. n + 1 \in 1..MaxLine /\ n + 1 \in 0..MaxLine /\ n \in 0..MaxLine /\ (n + 1) - 1 = n /\ n + 1 # 0
    BY MergeAssumption DEF MergeAssumption
  <2>2. Bodies[n + 1] = Bodies[n] \cup {Append(b, l) : b \in Bodies[n], l \in Body(n + 1)}
    <3> HIDE DEF Longer
    <3>1. Bodies[n + 1] = Longer(Bodies[n], n + 1)
      BY <2>1, BodiesDefined DEF BodiesUpTo
    <3> QED BY <3>1 DEF Longer
  <2>3. ASSUME NEW b \in Bodies[n + 1] PROVE IsBody(b, n + 1)
    <3>1. CASE b \in Bodies[n]
      <4>1. IsBody(b, n)
        BY <1>2, <3>1
      <4>2. \A i \in 1..Len(b) : b[i].lineno \in Nat
        <5>1. b \in Seq(Coded)
          BY <4>1 DEF IsBody
        <5>2. \A i \in 1..Len(b) : b[i] \in Coded
          BY <5>1, LenProperties
        <5> QED BY <5>2, LineNumbers DEF GcovLines
      <4>3. \A i \in 1..Len(b) : b[i].lineno <= n + 1
        BY <4>1, <4>2 DEF IsBody
      <4> QED BY <4>1, <4>3 DEF IsBody
    <3>2. ASSUME NEW c \in Bodies[n], NEW l \in Body(n + 1), b = Append(c, l) PROVE IsBody(b, n + 1)
      <4>1. IsBody(c, (n + 1) - 1)
        BY <1>2, <2>1
      <4>2. l \in Coded /\ l.lineno = n + 1
        BY <2>1, BodyCoded
      <4> QED BY <2>1, <3>2, <4>1, <4>2, AppendBody
    <3> QED BY <2>2, <3>1, <3>2
  <2> QED BY <2>1, <2>3
<1>3. \A n \in 0..MaxLine : n \in S
  <2> HIDE DEF S
  <2> QED BY <1>1, <1>2, SetInductionUpTo, MergeAssumption DEF MergeAssumption
<1> QED BY <1>3

\* A file of which nothing is skipped is clean.
LEMMA FilesClean == \A s \in Files : SkipLine \notin ToSet(s) => CleanFile(s)
<1> SUFFICES ASSUME NEW s \in Files, SkipLine \notin ToSet(s) PROVE CleanFile(s)
  OBVIOUS
<1>1. ASSUME NEW h \in Heads, s = <<h>> PROVE CleanFile(s)
  BY <1>1 DEF CleanFile, Ascending, GcovLines
<1>2. CASE s = <<>>
  BY <1>2, EmptySeq DEF CleanFile, Ascending
<1>3. ASSUME NEW b \in Bodies[MaxLine], s = <<Source("Source:a")>> \o b PROVE CleanFile(s)
  <2>1. IsBody(b, MaxLine)
    BY BodiesAscend, MergeAssumption DEF MergeAssumption
  <2>2. PICK c \in Seq(GcovLines), m \in Nat :
            c = b /\ m = Len(c) /\ Ascending(c) /\ \A i \in 1..m : c[i] \in Coded
    <3>1. b \in Seq(Coded)
      BY <2>1 DEF IsBody
    <3>2. b \in Seq(GcovLines) /\ Len(b) \in Nat /\ \A i \in 1..Len(b) : b[i] \in Coded
      BY <3>1, LenProperties DEF GcovLines
    <3> QED BY <2>1, <3>2 DEF IsBody
  <2>3. PICK h \in Seq(GcovLines) : h = <<Source("Source:a")>> /\ Len(h) = 1 /\ h[1] = Source("Source:a")
    <3>1. Source("Source:a") \in GcovLines
      BY DEF GcovLines, Heads
    <3>2. <<Source("Source:a")>> \in Seq(GcovLines) /\ Len(<<Source("Source:a")>>) = 1
          /\ <<Source("Source:a")>>[1] = Source("Source:a")
      BY <3>1
    <3> QED BY <3>2
  <2>4. /\ s \in Seq(GcovLines) /\ Len(s) = 1 + m /\ s[1] = Source("Source:a")
        /\ \A i \in 1..m : s[i + 1] = c[i]
    <3>1. s = h \o c /\ s \in Seq(GcovLines) /\ Len(s) = Len(h) + Len(c)
          /\ \A i \in 1..(Len(h) + Len(c)) : s[i] = IF i <= Len(h) THEN h[i] ELSE c[i - Len(h)]
      BY <1>3, <2>2, <2>3, ConcatProperties
    <3>2. Len(s) = 1 + m /\ \A i \in 1..(1 + m) : s[i] = IF i <= 1 THEN h[i] ELSE c[i - 1]
      BY <2>2, <2>3, <3>1
    <3>3. 1 \in 1..(1 + m) /\ \A i \in 1..m : i + 1 \in 1..(1 + m) /\ ~(i + 1 <= 1) /\ (i + 1) - 1 = i
      OBVIOUS
    <3> QED BY <2>3, <3>1, <3>2, <3>3
  <2>5. \A i \in 2..(1 + m) : s[i] = c[i - 1] /\ s[i].lineno \in 1..MaxLine
    <3>1. \A i \in 2..(1 + m) : i - 1 \in 1..m /\ (i - 1) + 1 = i
      OBVIOUS
    <3>2. \A i \in 2..(1 + m) : s[i] = c[i - 1] /\ s[i] \in Coded
      BY <2>2, <2>4, <3>1
    <3> QED BY <3>2 DEF Coded
  <2>6. s[1].lineno = 0 /\ s[1].outbuf = "Source:a" /\ s[1] \in Heads
    BY <2>4 DEF Source, Line, Heads
  <2>7. Ascending(s)
    <3> SUFFICES ASSUME NEW i \in 1..(1 + m), NEW j \in 1..(1 + m), i < j
                 PROVE  s[i].lineno < s[j].lineno
      BY <2>4 DEF Ascending
    <3>1. CASE i = 1
      BY <2>5, <2>6, <3>1, MergeAssumption DEF MergeAssumption
    <3>2. CASE i # 1
      <4>1. i - 1 \in 1..m /\ j - 1 \in 1..m /\ i - 1 < j - 1 /\ i \in 2..(1 + m) /\ j \in 2..(1 + m)
        BY <3>2
      <4> QED BY <2>2, <2>5, <4>1 DEF Ascending
    <3> QED BY <3>1, <3>2
  <2> QED BY <2>4, <2>6, <2>7 DEF CleanFile
<1>4. ASSUME NEW a, NEW b, NEW c, s = <<a, b, c>>, b = SkipLine \/ c = SkipLine PROVE FALSE
  <2>1. s[2] = b /\ s[3] = c /\ 2 \in DOMAIN s /\ 3 \in DOMAIN s
    BY <1>4
  <2>2. s[2] \in ToSet(s) /\ s[3] \in ToSet(s)
    BY <2>1 DEF ToSet
  <2> QED BY <1>4, <2>1, <2>2
<1>5. CASE s \in {<<Source("Source:a"), SkipLine, Line(1, "plain", 1, "text")>>,
                  <<Source("Source:a"), Line(1, "plain", 1, "text"), SkipLine>>}
  BY <1>4, <1>5
<1> QED BY <1>1, <1>2, <1>3, <1>5 DEF Files, Heads

\* What the lines of a file are by number.
LEMMA LinesByNumber ==
    ASSUME NEW s, CleanFile(s)
    PROVE  /\ \A i \in 1..Len(s) : s[i].lineno \in Nat /\ s[i] \in GcovLines
           /\ \A n : n \in NumbersOf(s) <=> (n # 0 /\ \E i \in 1..Len(s) : s[i].lineno = n)
           /\ \A i \in 1..Len(s) : LineOf(s, s[i].lineno) = s[i]
           /\ \A i, j \in 1..Len(s) : s[i].lineno < s[j].lineno => i < j
<1>1. s \in Seq(GcovLines) /\ DOMAIN s = 1..Len(s) /\ Len(s) \in Nat
      /\ \A i \in 1..Len(s) : s[i] \in GcovLines
  BY LenProperties DEF CleanFile
<1>2. \A i \in 1..Len(s) : s[i].lineno \in Nat
  BY <1>1, LineNumbers
<1>3. \A l : l \in ToSet(s) <=> \E i \in 1..Len(s) : l = s[i]
  BY <1>1 DEF ToSet
<1>4. \A n : n \in NumbersOf(s) <=> (n # 0 /\ \E i \in 1..Len(s) : s[i].lineno = n)
  BY <1>3 DEF NumbersOf
<1>5. \A i, j \in 1..Len(s) : i < j => s[i].lineno < s[j].lineno
  BY DEF CleanFile, Ascending
<1>6. \A i, j \in 1..Len(s) : s[i].lineno < s[j].lineno => i < j
  <2> SUFFICES ASSUME NEW i \in 1..Len(s), NEW j \in 1..Len(s), s[i].lineno < s[j].lineno, ~(i < j)
               PROVE  FALSE
    OBVIOUS
  <2>1. i = j \/ j < i
    BY <1>1
  <2> QED BY <1>2, <1>5, <2>1
<1>7. \A i, j \in 1..Len(s) : s[i].lineno = s[j].lineno => i = j
  <2> SUFFICES ASSUME NEW i \in 1..Len(s), NEW j \in 1..Len(s), s[i].lineno = s[j].lineno, i # j
               PROVE  FALSE
    OBVIOUS
  <2>1. i < j \/ j < i
    BY <1>1
  <2> QED BY <1>2, <1>5, <2>1
<1>8. ASSUME NEW i \in 1..Len(s) PROVE LineOf(s, s[i].lineno) = s[i]
  <2>1. \A l : (l \in ToSet(s) /\ l.lineno = s[i].lineno) <=> l = s[i]
    BY <1>3, <1>7
  <2> QED BY <2>1 DEF LineOf
<1> QED BY <1>1, <1>2, <1>4, <1>6, <1>8

\* What two lines of the same number add up to.
LEMMA SumsOfLines ==
    ASSUME NEW l \in Coded, NEW m \in Coded, l.lineno = m.lineno
    PROVE  LET sum == SumOf(l, m)  hits == l.hitcnt + m.hitcnt
               both == l.mark = "*" /\ m.mark = "*" IN
           /\ sum.lineno = l.lineno /\ sum.hitcnt = hits /\ ((sum.mark = "*") = both)
           /\ (l.mark = "-") = (m.mark = "-") =>
                 Weight(l, m) = IF hits = 0 THEN 0 ELSE IF both THEN 5 ELSE 10
<1>1. /\ l.hitcnt \in 0..2 /\ m.hitcnt \in 0..2
      /\ (l.hitcnt = 0 <=> l.mark \in {"-", "#"}) /\ (m.hitcnt = 0 <=> m.mark \in {"-", "#"})
      /\ l = [lineno |-> l.lineno, mark |-> l.mark, hitcnt |-> l.hitcnt, outbuf |-> "text"]
      /\ m = [lineno |-> m.lineno, mark |-> m.mark, hitcnt |-> m.hitcnt, outbuf |-> "text"]
  BY DEF Coded
<1>2. l.hitcnt + m.hitcnt = 0 <=> l.hitcnt = 0 /\ m.hitcnt = 0
  BY <1>1
<1>3. CASE l = m /\ l.hitcnt = 0
  <2>1. SumOf(l, m) = l /\ Weight(l, m) = 0 /\ l.mark # "*" /\ m.mark # "*"
    BY <1>1, <1>3 DEF SumOf, Weight
  <2> QED BY <1>1, <1>3, <2>1
<1>4. CASE ~(l = m /\ l.hitcnt = 0)
  <2>1. PICK sum : /\ sum = SumOf(l, m)
                   /\ sum = [lineno |-> l.lineno,
                             mark |-> (IF l.mark = "*" /\ m.mark = "*" THEN "*" ELSE "plain"),
                             hitcnt |-> l.hitcnt + m.hitcnt, outbuf |-> l.outbuf]
    BY <1>4 DEF SumOf, Line
  <2>2. Weight(l, m) = IF SumOf(l, m).mark = "*" THEN 5 ELSE 10
    BY <1>4 DEF Weight
  <2>3. (l.mark = "-") = (m.mark = "-") => l.hitcnt + m.hitcnt # 0
    <3> SUFFICES ASSUME (l.mark = "-") = (m.mark = "-"), l.hitcnt + m.hitcnt = 0 PROVE FALSE
      OBVIOUS
    <3>1. l.hitcnt = 0 /\ m.hitcnt = 0 /\ l.mark = m.mark
      BY <1>1, <1>2
    <3> QED BY <1>1, <1>4, <3>1
  <2>4. sum.mark = "*" <=> l.mark = "*" /\ m.mark = "*"
    BY <2>1
  <2>5. sum.lineno = l.lineno /\ sum.hitcnt = l.hitcnt + m.hitcnt
    BY <2>1
  <2> QED BY <2>1, <2>2, <2>3, <2>4, <2>5
<1> QED BY <1>3, <1>4

\* The weights are defined by their recursion.
LEMMA WeighedDefined ==
    ASSUME NEW s, NEW t
    PROVE  /\ Weighed(s, t)[0] = 0
           /\ \A n \in 1..MaxLine : Weighed(s, t)[n] = Weighed(s, t)[n - 1] + WeightAt(s, t, n)
<1> DEFINE W(n) == WeightAt(s, t, n)
           Sums(f, N) == f = [n \in 0..N |-> IF n = 0 THEN 0 ELSE f[n - 1] + W(n)]
           S == {N \in Nat : \E f : Sums(f, N)}
<1> HIDE DEF W
<1>1. 0 \in S
  <2> DEFINE f == [n \in 0..0 |-> 0]
  <2>1. Sums(f, 0)
    OBVIOUS
  <2> QED BY <2>1
<1>2. ASSUME NEW N \in Nat, N \in S PROVE N + 1 \in S
  <2>1. PICK f : Sums(f, N)
    BY <1>2
  <2> DEFINE g == [n \in 0..(N + 1) |-> IF n <= N THEN f[n] ELSE f[N] + W(N + 1)]
             body(n) == IF n = 0 THEN 0 ELSE g[n - 1] + W(n)
  <2>2. ASSUME NEW n \in 0..(N + 1) PROVE g[n] = body(n)
    <3>1. CASE n = 0
      BY <2>1, <3>1
    <3>2. CASE n \in 1..N
      <4>1. n # 0 /\ n \in 0..N /\ n - 1 \in 0..N /\ g[n] = f[n] /\ g[n - 1] = f[n - 1]
        BY <3>2
      <4>2. f[n] = f[n - 1] + W(n)
        BY <2>1, <4>1
      <4> QED BY <4>1, <4>2
    <3>3. CASE n = N + 1
      <4>1. n # 0 /\ n - 1 = N /\ g[n - 1] = f[N] /\ g[n] = f[N] + W(N + 1)
        BY <3>3
      <4> QED BY <3>3, <4>1
    <3> QED BY <3>1, <3>2, <3>3
  <2>3. Sums(g, N + 1)
    <3>1. g = [n \in 0..(N + 1) |-> g[n]]
      OBVIOUS
    <3>2. [n \in 0..(N + 1) |-> g[n]] = [n \in 0..(N + 1) |-> body(n)]
      <4> HIDE DEF g, body
      <4> QED BY <2>2
    <3> HIDE DEF g
    <3> QED BY <3>1, <3>2
  <2> HIDE DEF g, Sums
  <2> QED BY <2>3
<1>3. MaxLine \in S
  <2> HIDE DEF S
  <2>1. \A N \in Nat : N \in S
    BY <1>1, <1>2, SetInduction
  <2> QED BY <2>1, MergeAssumption DEF MergeAssumption
<1>4. Weighed(s, t) = CHOOSE f : Sums(f, MaxLine)
  BY DEF Weighed, W
<1>5. Sums(Weighed(s, t), MaxLine)
  <2> HIDE DEF Sums
  <2> QED BY <1>3, <1>4 DEF S
<1>6. 0 \in 0..MaxLine /\ \A n \in 1..MaxLine : n \in 0..MaxLine /\ n # 0
  BY MergeAssumption DEF MergeAssumption
<1>7. Weighed(s, t)[0] = 0 /\ \A n \in 1..MaxLine : Weighed(s, t)[n] = Weighed(s, t)[n - 1] + W(n)
  <2> DEFINE f == Weighed(s, t)
  <2> HIDE DEF f
  <2>1. f = [n \in 0..MaxLine |-> IF n = 0 THEN 0 ELSE f[n - 1] + W(n)]
    BY <1>5 DEF f
  <2>2. f[0] = 0 /\ \A n \in 1..MaxLine : f[n] = f[n - 1] + W(n)
    BY <1>6, <2>1
  <2> QED BY <2>2 DEF f
<1> QED BY <1>7 DEF W

LEMMA WeighedNat == ASSUME NEW s, NEW t PROVE \A n \in 0..MaxLine : Weighed(s, t)[n] \in Nat
<1> DEFINE w == Weighed(s, t)  S == {n \in 0..MaxLine : w[n] \in Nat}
<1> HIDE DEF w
<1>1. 0 \in S
  BY WeighedDefined, MergeAssumption DEF w, MergeAssumption
<1>2. ASSUME NEW n \in 0..(MaxLine - 1), n \in S PROVE n + 1 \in S
  <2>1. n + 1 \in 1..MaxLine /\ n + 1 \in 0..MaxLine /\ (n + 1) - 1 = n /\ w[n] \in Nat
    BY <1>2, MergeAssumption DEF MergeAssumption
  <2>2. w[n + 1] = w[n] + WeightAt(s, t, n + 1)
    BY <2>1, WeighedDefined DEF w
  <2>3. WeightAt(s, t, n + 1) \in {0, 5, 10}
    BY DEF WeightAt
  <2> QED BY <2>1, <2>2, <2>3
<1>3. \A n \in 0..MaxLine : n \in S
  <2> HIDE DEF S
  <2> QED BY <1>1, <1>2, SetInductionUpTo, MergeAssumption DEF MergeAssumption
<1> QED BY <1>3 DEF w

LEMMA CommonNat == ASSUME NEW s, CleanFile(s), NEW t PROVE \A c \in Common(s, t) : c \in Nat
<1>1. \A c \in NumbersOf(s) : \E i \in 1..Len(s) : s[i].lineno = c
  BY LinesByNumber
<1>2. \A i \in 1..Len(s) : s[i].lineno \in Nat
  BY LinesByNumber
<1> QED BY <1>1, <1>2 DEF Common

\* Where the files have no line in common nothing is added.
NoneBetween(s, t, k, m) == \A n \in Common(s, t) : ~(k < n /\ n <= m)

LEMMA GapMerged ==
    ASSUME NEW s, NEW t, NEW k \in 0..MaxLine, NEW m \in 0..MaxLine, k <= m, NoneBetween(s, t, k, m),
           \A n \in Common(s, t) : n \in Nat, NEW lines, NEW total, IsMerged(lines, total, s, t, k)
    PROVE  IsMerged(lines, total, s, t, m)
<1> DEFINE w == Weighed(s, t)
           S == {n \in Nat : k <= n /\ n <= m => w[n] = w[k]}
<1> HIDE DEF w
<1>1. MaxLine \in Nat /\ m \in Nat /\ k \in Nat
  BY MergeAssumption DEF MergeAssumption
<1>2. 0 \in S
  BY <1>1
<1>3. ASSUME NEW n \in Nat, n \in S PROVE n + 1 \in S
  <2> SUFFICES ASSUME k <= n + 1, n + 1 <= m PROVE w[n + 1] = w[k]
    OBVIOUS
  <2>1. CASE k = n + 1
    BY <2>1
  <2>2. CASE k # n + 1
    <3>1. k <= n /\ n <= m /\ k < n + 1 /\ n + 1 \in 1..MaxLine /\ (n + 1) - 1 = n
      BY <1>1, <2>2
    <3>2. w[n] = w[k] /\ w[n + 1] = w[n] + WeightAt(s, t, n + 1)
      BY <1>3, <3>1, WeighedDefined DEF w
    <3>3. WeightAt(s, t, n + 1) = 0
      BY <3>1 DEF NoneBetween, WeightAt
    <3>4. w[n] \in Nat
      BY <1>1, <3>1, WeighedNat DEF w
    <3> QED BY <3>2, <3>3, <3>4
  <2> QED BY <2>1, <2>2
<1>4. w[m] = w[k]
  <2> HIDE DEF S
  <2>1. \A n \in Nat : n \in S
    BY <1>2, <1>3, SetInduction
  <2>2. m \in S
    BY <1>1, <2>1
  <2> USE DEF S
  <2> QED BY <2>2
<1>5. {n \in Common(s, t) : n <= k} = {n \in Common(s, t) : n <= m}
  BY <1>1 DEF NoneBetween
<1> QED BY <1>4, <1>5 DEF IsMerged, w

\* The lines of a merged file.
MergedLines == GcovLines \cup {SumOf(l, m) : l \in Coded, m \in Coded}

\* The next line in common is added.
LEMMA MatchMerged ==
    ASSUME NEW s, CleanFile(s), NEW t, CleanFile(t), NEW k \in 0..MaxLine, NEW i \in 1..Len(s),
           NEW j \in 1..Len(t), s[i].lineno = t[j].lineno, k < s[i].lineno,
           NoneBetween(s, t, k, s[i].lineno - 1),
           NEW lines \in Seq(MergedLines), NEW total,
           IsMerged(lines, total, s, t, k)
    PROVE  IsMerged(Append(lines, SumOf(s[i], t[j])), total + Weight(s[i], t[j]), s, t, s[i].lineno)
<1> DEFINE n == s[i].lineno
           new == SumOf(s[i], t[j])
<1>1. s[i] \in Coded /\ t[j] \in Coded /\ n \in 1..MaxLine /\ n # 0 /\ n - 1 \in 0..MaxLine /\ k <= n - 1
  <2>1. s[i] \in GcovLines /\ t[j] \in GcovLines /\ n # 0 /\ n \in Nat
    BY LinesByNumber
  <2>2. \A l \in Heads : l.lineno = 0
    BY DEF Heads, Source, Line
  <2>3. s[i] \in Coded /\ t[j] \in Coded
    BY <2>1, <2>2 DEF GcovLines
  <2>4. n \in 1..MaxLine
    BY <2>3 DEF Coded
  <2> QED BY <2>1, <2>3, <2>4, MergeAssumption DEF MergeAssumption
<1>2. n \in Common(s, t) /\ LineOf(s, n) = s[i] /\ LineOf(t, n) = t[j]
  BY <1>1, LinesByNumber DEF Common
<1>3. /\ new.lineno = n /\ new.hitcnt = HitsOf(s, t, n) /\ (new.mark = "*") = BothStar(s, t, n)
      /\ (s[i].mark = "-") = (t[j].mark = "-") => Weight(s[i], t[j]) = WeightAt(s, t, n)
  BY <1>1, <1>2, SumsOfLines DEF HitsOf, BothStar, WeightAt
<1>4. \A m \in Common(s, t) : m \in Nat
  BY CommonNat
<1>5. IsMerged(lines, total, s, t, n - 1)
  <2>1. PICK p \in 0..MaxLine : p = n - 1 /\ k <= p /\ NoneBetween(s, t, k, p)
    BY <1>1
  <2> HIDE DEF n
  <2>2. IsMerged(lines, total, s, t, p)
    BY <1>4, <2>1, GapMerged
  <2> QED BY <2>1, <2>2
<1> HIDE DEF n, new
<1>6. PICK z \in Nat : z = Len(lines) /\ DOMAIN lines = 1..z
  BY LenProperties
<1> DEFINE more == Append(lines, new)
<1>7. /\ DOMAIN more = 1..(z + 1) /\ more[z + 1] = new
      /\ \A a \in 1..z : more[a] = lines[a]
  <2> DEFINE U == MergedLines
  <2>1. lines \in Seq(U) /\ new \in U
    BY <1>1 DEF new, MergedLines
  <2> HIDE DEF U
  <2>2. /\ Append(lines, new) \in Seq(U) /\ Len(Append(lines, new)) = Len(lines) + 1
        /\ \A a \in 1..Len(lines) : Append(lines, new)[a] = lines[a]
        /\ Append(lines, new)[Len(lines) + 1] = new
    BY <2>1, AppendProperties
  <2>3. DOMAIN Append(lines, new) = 1..(z + 1)
    BY <1>6, <2>2, LenProperties
  <2>4. Append(lines, new)[z + 1] = new /\ \A a \in 1..z : Append(lines, new)[a] = lines[a]
    BY <1>6, <2>2
  <2> QED BY <2>3, <2>4
<1> HIDE DEF more
<1>8. \A a \in 1..z : lines[a].lineno = 0 \/ (lines[a].lineno \in Common(s, t) /\ lines[a].lineno <= n - 1)
  BY <1>5, <1>6 DEF IsMerged
<1>9. \A a \in 1..(z + 1) : a \in 1..z \/ a = z + 1
  OBVIOUS
<1>10. {more[a].lineno : a \in DOMAIN more} \ {0} = {m \in Common(s, t) : m <= n}
  <2>1. {more[a].lineno : a \in DOMAIN more} = {lines[a].lineno : a \in DOMAIN lines} \cup {n}
    BY <1>3, <1>6, <1>7, <1>9
  <2>2. {lines[a].lineno : a \in DOMAIN lines} \ {0} = {m \in Common(s, t) : m <= n - 1}
    BY <1>5 DEF IsMerged
  <2>3. \A m \in Common(s, t) : m <= n <=> (m <= n - 1 \/ m = n)
    BY <1>1, <1>4
  <2> DEFINE A == {more[a].lineno : a \in DOMAIN more}
             B == {lines[a].lineno : a \in DOMAIN lines}
  <2> HIDE DEF A, B
  <2>4. A = B \cup {n} /\ B \ {0} = {m \in Common(s, t) : m <= n - 1}
    BY <2>1, <2>2 DEF A, B
  <2>5. \A m : m \in A \ {0} <=> (m \in Common(s, t) /\ m <= n)
    <3> SUFFICES ASSUME NEW m PROVE m \in A \ {0} <=> (m \in Common(s, t) /\ m <= n)
      OBVIOUS
    <3>1. CASE m \in Common(s, t)
      <4>1. m \in B \ {0} <=> m <= n - 1
        BY <2>4, <3>1
      <4>2. m <= n <=> (m <= n - 1 \/ m = n)
        BY <2>3, <3>1
      <4> QED BY <1>1, <2>4, <3>1, <4>1, <4>2
    <3>2. CASE m \notin Common(s, t)
      <4>1. m \notin B \ {0} /\ m # n
        BY <1>2, <2>4, <3>2
      <4> QED BY <2>4, <3>2, <4>1
    <3> QED BY <3>1, <3>2
  <2>6. A \ {0} = {m \in Common(s, t) : m <= n}
    BY <2>5
  <2> QED BY <2>6 DEF A
<1>11. ASSUME NEW a \in 1..(z + 1), NEW b \in 1..(z + 1), a < b PROVE more[a].lineno < more[b].lineno
  <2>1. a \in 1..z
    BY <1>11
  <2>2. CASE b \in 1..z
    <3>1. lines[a].lineno < lines[b].lineno
      BY <1>5, <1>6, <1>11, <2>1, <2>2 DEF IsMerged
    <3> QED BY <1>7, <2>1, <2>2, <3>1
  <2>3. CASE b = z + 1
    <3>1. lines[a].lineno < n
      BY <1>1, <1>4, <1>8, <2>1
    <3> QED BY <1>3, <1>7, <2>1, <2>3, <3>1
  <2> QED BY <1>9, <2>2, <2>3
<1>12. ASSUME NEW a \in 1..(z + 1), more[a].lineno # 0
       PROVE  /\ more[a].hitcnt = HitsOf(s, t, more[a].lineno)
              /\ (more[a].mark = "*") = BothStar(s, t, more[a].lineno)
  <2>1. CASE a \in 1..z
    BY <1>5, <1>6, <1>7, <1>12, <2>1 DEF IsMerged
  <2>2. CASE a = z + 1
    BY <1>3, <1>7, <2>2
  <2> QED BY <1>9, <2>1, <2>2
<1>13. SameCode(s, t) => total + Weight(s[i], t[j]) = Weighed(s, t)[n]
  <2> SUFFICES ASSUME SameCode(s, t) PROVE total + Weight(s[i], t[j]) = Weighed(s, t)[n]
    OBVIOUS
  <2>1. total = Weighed(s, t)[n - 1]
    BY <1>5 DEF IsMerged
  <2>2. Weight(s[i], t[j]) = WeightAt(s, t, n)
    BY <1>2, <1>3 DEF SameCode
  <2> QED BY <1>1, <2>1, <2>2, WeighedDefined
<1> QED BY <1>7, <1>10, <1>11, <1>12, <1>13 DEF IsMerged, n, new, more

\* What is left of a file of which the first p lines were read, and the last of them.
GcovFile == [rest : Seq(GcovLines), line : GcovLines \cup {NoLine}, read : BOOLEAN, eof : BOOLEAN,
             skipline : BOOLEAN, totallinecnt : Nat]
LineAt(s, p) == IF p = 0 THEN NoLine ELSE s[p]
ReadTo(f, s, p) ==
    /\ f \in GcovFile /\ p \in 0..Len(s) /\ f.rest = SubSeq(s, p + 1, Len(s))
    /\ f.line = LineAt(s, p) /\ (f.eof => p = Len(s))

LEMMA ReadlineTo ==
    ASSUME NEW s, CleanFile(s), NEW f, NEW p, ReadTo(f, s, p)
    PROVE  \E q : /\ ReadTo(Readline(f), s, q) /\ Readline(f).read = f.read
                  /\ Reads(f) => ~Readline(f).skipline
                  /\ \/ ~Reads(f) /\ q = p /\ Readline(f) = f
                     \/ Reads(f) /\ q = p /\ p = Len(s) /\ Readline(f).eof
                     \/ Reads(f) /\ q = p + 1 /\ ~Readline(f).eof
<1> DEFINE g == Readline(f)
           Result(q) == /\ ReadTo(g, s, q) /\ g.read = f.read /\ (Reads(f) => ~g.skipline)
                        /\ \/ ~Reads(f) /\ q = p /\ g = f
                           \/ Reads(f) /\ q = p /\ p = Len(s) /\ g.eof
                           \/ Reads(f) /\ q = p + 1 /\ ~g.eof
<1>1. s \in Seq(GcovLines) /\ f \in GcovFile /\ p \in 0..Len(s) /\ Len(s) \in Nat
  BY LenProperties DEF CleanFile, ReadTo
<1>2. CASE ~Reads(f)
  <2>1. g = f
    BY <1>2 DEF Readline, Reads
  <2>2. Result(p)
    BY <1>2, <2>1
  <2> QED BY <2>2
<1>3. CASE Reads(f) /\ f.rest = <<>>
  <2>1. p = Len(s)
    <3>1. Len(SubSeq(s, p + 1, Len(s))) = IF p + 1 <= Len(s) THEN Len(s) - p ELSE 0
      BY <1>1, SubSeqProperties
    <3>2. Len(SubSeq(s, p + 1, Len(s))) = 0
      BY <1>3, EmptySeq DEF ReadTo
    <3> QED BY <1>1, <3>1, <3>2
  <2>2. g = [f EXCEPT !.eof = TRUE, !.skipline = FALSE]
    BY <1>3 DEF Readline, Reads
  <2>3. /\ g \in GcovFile /\ g.rest = f.rest /\ g.line = f.line /\ g.eof /\ ~g.skipline
        /\ g.read = f.read
    BY <1>1, <2>2 DEF GcovFile
  <2>4. Result(p)
    <3> HIDE DEF g
    <3> QED BY <1>3, <2>1, <2>3 DEF ReadTo
  <2> QED BY <2>4
<1>4. CASE Reads(f) /\ f.rest # <<>>
  <2>1. p + 1 \in 1..Len(s) /\ p \in 0..(Len(s) - 1)
    <3>1. p = Len(s) => SubSeq(s, p + 1, Len(s)) = <<>>
      BY <1>1, SubSeqProperties, EmptySeq
    <3>2. p # Len(s)
      BY <1>4, <3>1 DEF ReadTo
    <3> QED BY <1>1, <3>2
  <2>2. Head(f.rest) = s[p + 1] /\ Tail(f.rest) = SubSeq(s, (p + 1) + 1, Len(s)) /\ f.rest \in Seq(GcovLines)
        /\ Tail(f.rest) \in Seq(GcovLines)
    <3> DEFINE r == SubSeq(s, p + 1, Len(s))
    <3>1. /\ r \in Seq(GcovLines) /\ Len(r) = Len(s) - p
          /\ \A i \in 1..(Len(s) - p) : r[i] = s[p + i]
      BY <1>1, <2>1, SubSeqProperties
    <3>2. f.rest = r
      BY DEF ReadTo
    <3> HIDE DEF r
    <3>3. PICK n \in Nat : n = Len(s) - p /\ 1 \in 1..n /\ n = Len(r)
      <4>1. Len(s) - p \in Nat /\ 1 \in 1..(Len(s) - p) /\ Len(s) - p = Len(r)
        BY <1>1, <2>1, <3>1
      <4> QED BY <4>1
    <3>4. r # <<>> /\ Head(r) = r[1] /\ Tail(r) \in Seq(GcovLines) /\ Len(Tail(r)) = n - 1
          /\ \A i \in 1..(n - 1) : Tail(r)[i] = r[i + 1]
      BY <1>4, <3>1, <3>2, <3>3, HeadTailProperties
    <3>5. Head(r) = s[p + 1]
      BY <3>1, <3>3, <3>4
    <3>6. /\ SubSeq(s, (p + 1) + 1, Len(s)) \in Seq(GcovLines)
          /\ Len(SubSeq(s, (p + 1) + 1, Len(s))) = n - 1
          /\ \A i \in 1..(n - 1) : SubSeq(s, (p + 1) + 1, Len(s))[i] = s[(p + 1) + i]
      BY <1>1, <2>1, <3>3, SubSeqProperties
    <3>7. \A i \in 1..(n - 1) : i + 1 \in 1..(Len(s) - p) /\ (p + 1) + i = p + (i + 1)
      BY <1>1, <3>3
    <3>8. \A i \in 1..(n - 1) : Tail(r)[i] = SubSeq(s, (p + 1) + 1, Len(s))[i]
      BY <3>1, <3>4, <3>6, <3>7
    <3>9. Tail(r) = SubSeq(s, (p + 1) + 1, Len(s))
      BY <3>4, <3>6, <3>8, SeqEqual
    <3> QED BY <3>1, <3>2, <3>4, <3>5, <3>9
  <2> DEFINE l == s[p + 1]
  <2>3. l \in GcovLines /\ l.mark # "skip"
    <3>1. l \in GcovLines
      BY <1>1, <2>1, LenProperties
    <3>2. \A m \in Coded : m.mark \in {"-", "#", "*", "plain"}
      BY DEF Coded
    <3>3. \A m \in Heads : m.mark = "-"
      BY DEF Heads, Source, Line
    <3> QED BY <3>1, <3>2, <3>3 DEF GcovLines
  <2>4. g = [f EXCEPT !.rest = Tail(@), !.skipline = FALSE, !.line = l,
                      !.totallinecnt = IF l.mark = "-" THEN @ ELSE @ + 1]
    BY <1>4, <2>2, <2>3 DEF Readline, Reads
  <2> HIDE DEF l
  <2>5. /\ g \in GcovFile /\ g.rest = Tail(f.rest) /\ g.line = l /\ g.eof = f.eof /\ ~g.skipline
        /\ g.read = f.read
    <3>1. PICK c \in Nat : c = IF l.mark = "-" THEN f.totallinecnt ELSE f.totallinecnt + 1
      <4>1. f.totallinecnt \in Nat /\ f.totallinecnt + 1 \in Nat
        BY <1>1 DEF GcovFile
      <4> QED BY <4>1
    <3>2. PICK r \in Seq(GcovLines) : r = Tail(f.rest)
      BY <2>2
    <3> HIDE DEF g
    <3>3. g = [f EXCEPT !.rest = r, !.skipline = FALSE, !.line = l, !.totallinecnt = c]
      BY <2>4, <3>1, <3>2
    <3> QED BY <1>1, <2>3, <3>2, <3>3 DEF GcovFile
  <2>6. Result(p + 1)
    <3> HIDE DEF g
    <3>1. ~g.eof /\ Reads(f)
      BY <1>4, <2>5 DEF Reads
    <3>2. p + 1 \in 0..Len(s) /\ p + 1 # 0
      BY <2>1, <1>1
    <3> QED BY <2>2, <2>5, <3>1, <3>2 DEF ReadTo, LineAt, l
  <2> QED BY <2>6
<1> QED BY <1>2, <1>3, <1>4

\* Saying whether a file is to be read changes nothing else of it.
LEMMA SetReadTo ==
    ASSUME NEW s, NEW f, NEW p, ReadTo(f, s, p), NEW r \in BOOLEAN
    PROVE  LET g == [f EXCEPT !.read = r] IN
           ReadTo(g, s, p) /\ g.read = r /\ g.line = f.line /\ g.eof = f.eof /\ g.rest = f.rest
<1> DEFINE g == [f EXCEPT !.read = r]
<1>1. g \in GcovFile /\ g.read = r /\ g.line = f.line /\ g.eof = f.eof /\ g.rest = f.rest
  BY DEF ReadTo, GcovFile
<1> HIDE DEF g
<1>2. ReadTo(g, s, p)
  BY <1>1 DEF ReadTo
<1> QED BY <1>1, <1>2 DEF g

\* Lines p of s and q of t are the current ones: no line that was passed in one is
\* behind the current line of the other.
Abreast(s, t, p, q) ==
    /\ p \in 1..Len(s) /\ q \in 1..Len(t)
    /\ \A i \in 1..Len(s) : i < p => s[i].lineno <= t[q].lineno
    /\ \A j \in 1..Len(t) : j < q => t[j].lineno <= s[p].lineno
Lower(s, t, p, q) == IF s[p].lineno <= t[q].lineno THEN s[p].lineno ELSE t[q].lineno
\* The file that is behind, or either when none is, reads a line when it has one.
GoesOn(s, p, n, a, b) == n = p \/ (a <= b /\ n = p + 1 /\ n <= Len(s))

LEMMA CommonLines ==
    ASSUME NEW s, CleanFile(s), NEW t, CleanFile(t)
    PROVE  /\ \A c \in Common(s, t) : /\ c \in Nat \ {0}
                                      /\ \E i \in 1..Len(s) : s[i].lineno = c
                                      /\ \E j \in 1..Len(t) : t[j].lineno = c
           /\ Len(s) \in Nat /\ Len(t) \in Nat
           /\ \A i \in 1..Len(s) : s[i].lineno \in 0..MaxLine
           /\ \A i, j \in 1..Len(s) : i < j <=> s[i].lineno < s[j].lineno
<1>1. \A l \in GcovLines : l.lineno \in 0..MaxLine
  <2>1. \A l \in Coded : l.lineno \in 1..MaxLine
    BY DEF Coded
  <2>2. \A l \in Heads : l.lineno = 0
    BY DEF Heads, Source, Line
  <2> QED BY <2>1, <2>2, MergeAssumption DEF GcovLines, MergeAssumption
<1>2. Len(s) \in Nat /\ Len(t) \in Nat /\ \A i, j \in 1..Len(s) : i < j => s[i].lineno < s[j].lineno
  BY LenProperties DEF CleanFile, Ascending
<1>3. \A c \in Common(s, t) : /\ c \in Nat \ {0}
                              /\ \E i \in 1..Len(s) : s[i].lineno = c
                              /\ \E j \in 1..Len(t) : t[j].lineno = c
  BY LinesByNumber DEF Common
<1>4. \A i \in 1..Len(s) : s[i].lineno \in 0..MaxLine
  BY <1>1, LinesByNumber
<1>5. \A i, j \in 1..Len(s) : s[i].lineno < s[j].lineno => i < j
  BY LinesByNumber
<1> QED BY <1>2, <1>3, <1>4, <1>5

\* The next line of s, when s is behind.
LEMMA OneAdvances ==
    ASSUME NEW s, CleanFile(s), NEW t, CleanFile(t), NEW p, NEW q, Abreast(s, t, p, q),
           s[p].lineno < t[q].lineno, p + 1 <= Len(s)
    PROVE  /\ Abreast(s, t, p + 1, q) /\ Abreast(t, s, q, p + 1)
           /\ s[p].lineno < s[p + 1].lineno
           /\ \A c \in Common(s, t) : s[p].lineno < c /\ c <= s[p + 1].lineno /\ c <= t[q].lineno
                 => c = s[p + 1].lineno /\ c = t[q].lineno
<1>1. /\ p \in 1..Len(s) /\ q \in 1..Len(t) /\ p + 1 \in 1..Len(s) /\ Len(s) \in Nat /\ Len(t) \in Nat
      /\ \A i \in 1..Len(s) : i < p + 1 <=> (i < p \/ i = p)
  BY CommonLines DEF Abreast
<1>2. /\ \A i \in 1..Len(s) : s[i].lineno \in Nat
      /\ \A j \in 1..Len(t) : t[j].lineno \in Nat
  BY LinesByNumber
<1>3. s[p].lineno < s[p + 1].lineno
  BY <1>1, CommonLines
<1>4. Abreast(s, t, p + 1, q)
  <2>1. \A i \in 1..Len(s) : i < p + 1 => s[i].lineno <= t[q].lineno
    BY <1>1, <1>2 DEF Abreast
  <2>2. \A j \in 1..Len(t) : j < q => t[j].lineno <= s[p + 1].lineno
    BY <1>1, <1>2, <1>3 DEF Abreast
  <2> QED BY <1>1, <2>1, <2>2 DEF Abreast
<1>5. ASSUME NEW c \in Common(s, t), s[p].lineno < c, c <= s[p + 1].lineno, c <= t[q].lineno
      PROVE  c = s[p + 1].lineno /\ c = t[q].lineno
  <2>1. PICK i \in 1..Len(s), j \in 1..Len(t) : s[i].lineno = c /\ t[j].lineno = c
    BY CommonLines
  <2>2. p < i /\ ~(p + 1 < i)
    <3>1. p < i
      BY <1>1, <1>5, <2>1, CommonLines
    <3>2. ~(s[p + 1].lineno < s[i].lineno)
      BY <1>1, <1>2, <1>5, <2>1
    <3> QED BY <1>1, <3>1, <3>2, CommonLines
  <2>3. i = p + 1
    BY <1>1, <2>2
  <2>4. ~(j < q)
    <3> SUFFICES ASSUME j < q PROVE FALSE
      OBVIOUS
    <3>1. t[j].lineno <= s[p].lineno
      BY DEF Abreast
    <3> QED BY <1>1, <1>2, <1>5, <2>1, <3>1
  <2>5. ~(q < j)
    <3> SUFFICES ASSUME q < j PROVE FALSE
      OBVIOUS
    <3>1. t[q].lineno < t[j].lineno
      BY <1>1, CommonLines
    <3> QED BY <1>1, <1>2, <1>5, <2>1, <3>1
  <2>6. j = q
    BY <1>1, <2>4, <2>5
  <2> QED BY <2>1, <2>3, <2>6
<1> QED BY <1>3, <1>4, <1>5 DEF Abreast

LEMMA CommonBoth == \A s, t : Common(s, t) = Common(t, s)
BY DEF Common

\* The next lines of both, when they are at the same number.
LEMMA EqualAdvance ==
    ASSUME NEW s, CleanFile(s), NEW t, CleanFile(t), NEW p, NEW q, Abreast(s, t, p, q),
           s[p].lineno = t[q].lineno, NEW m, m = p \/ (m = p + 1 /\ m <= Len(s)),
           NEW n, n = q \/ (n = q + 1 /\ n <= Len(t)),
           m # p \/ p = Len(s), n # q \/ q = Len(t)
    PROVE  /\ Abreast(s, t, m, n) /\ s[p].lineno <= s[m].lineno /\ t[q].lineno <= t[n].lineno
           /\ m # p => s[p].lineno < s[m].lineno
           /\ n # q => t[q].lineno < t[n].lineno
           /\ \A c \in Common(s, t) : s[p].lineno < c /\ c <= s[m].lineno /\ c <= t[n].lineno
                 => c = s[m].lineno /\ c = t[n].lineno /\ m # p /\ n # q
<1>1. /\ p \in 1..Len(s) /\ q \in 1..Len(t) /\ m \in 1..Len(s) /\ n \in 1..Len(t)
      /\ Len(s) \in Nat /\ Len(t) \in Nat
      /\ (\A i \in 1..Len(s) : i < m => i < p \/ i = p) /\ \A j \in 1..Len(t) : j < n => j < q \/ j = q
  BY CommonLines DEF Abreast
<1>2. /\ \A i \in 1..Len(s) : s[i].lineno \in Nat
      /\ \A j \in 1..Len(t) : t[j].lineno \in Nat
  BY LinesByNumber
<1>3. (m # p => s[p].lineno < s[m].lineno) /\ (n # q => t[q].lineno < t[n].lineno)
  BY <1>1, CommonLines
<1>4. s[p].lineno <= s[m].lineno /\ t[q].lineno <= t[n].lineno
  BY <1>1, <1>2, <1>3
<1>5. Abreast(s, t, m, n)
  <2>1. ASSUME NEW i \in 1..Len(s), i < m PROVE s[i].lineno <= t[n].lineno
    <3>1. i < p \/ i = p
      BY <1>1, <2>1
    <3>2. s[i].lineno <= t[q].lineno
      BY <1>1, <1>2, <3>1 DEF Abreast
    <3> QED BY <1>1, <1>2, <1>4, <3>2
  <2>2. ASSUME NEW j \in 1..Len(t), j < n PROVE t[j].lineno <= s[m].lineno
    <3>1. j < q \/ j = q
      BY <1>1, <2>2
    <3>2. t[j].lineno <= s[p].lineno
      BY <1>1, <1>2, <3>1 DEF Abreast
    <3> QED BY <1>1, <1>2, <1>4, <3>2
  <2> QED BY <1>1, <2>1, <2>2 DEF Abreast
<1>6. ASSUME NEW c \in Common(s, t), s[p].lineno < c, c <= s[m].lineno, c <= t[n].lineno
      PROVE  c = s[m].lineno /\ c = t[n].lineno /\ m # p /\ n # q
  <2>1. PICK i \in 1..Len(s), j \in 1..Len(t) : s[i].lineno = c /\ t[j].lineno = c /\ c \in Nat
    BY CommonLines
  <2>2. p < i /\ q < j
    <3>1. s[p].lineno < s[i].lineno /\ t[q].lineno < t[j].lineno
      BY <1>6, <2>1
    <3>2. p < i
      BY <1>1, <3>1, CommonLines
    <3>3. q < j
      BY <1>1, <3>1, CommonLines
    <3> QED BY <3>2, <3>3
  <2>3. m = p + 1 /\ n = q + 1
    BY <1>1, <2>2
  <2>4. ~(m < i) /\ ~(n < j)
    <3>1. ~(s[m].lineno < s[i].lineno) /\ ~(t[n].lineno < t[j].lineno)
      BY <1>1, <1>2, <1>6, <2>1
    <3> QED BY <1>1, <3>1, CommonLines
  <2>5. i = m /\ j = n
    BY <1>1, <2>2, <2>3, <2>4
  <2> QED BY <1>1, <2>1, <2>3, <2>5
<1> QED BY <1>3, <1>4, <1>5, <1>6

\* How far the files are merged when either or both go on.
LEMMA BothAdvance ==
    ASSUME NEW s, CleanFile(s), NEW t, CleanFile(t), NEW p, NEW q, Abreast(s, t, p, q),
           NEW m, GoesOn(s, p, m, s[p].lineno, t[q].lineno),
           NEW n, GoesOn(t, q, n, t[q].lineno, s[p].lineno),
           s[p].lineno = t[q].lineno => (m # p \/ p = Len(s)) /\ (n # q \/ q = Len(t))
    PROVE  /\ Abreast(s, t, m, n)
           /\ Lower(s, t, p, q) \in 0..MaxLine /\ Lower(s, t, m, n) \in 0..MaxLine
           /\ Lower(s, t, p, q) <= Lower(s, t, m, n)
           /\ s[m].lineno # t[n].lineno \/ (m = p /\ n = q)
                 => NoneBetween(s, t, Lower(s, t, p, q), Lower(s, t, m, n))
           /\ s[m].lineno = t[n].lineno /\ ~(m = p /\ n = q)
                 => /\ Lower(s, t, p, q) < s[m].lineno
                    /\ NoneBetween(s, t, Lower(s, t, p, q), s[m].lineno - 1)
           /\ s[p].lineno <= s[m].lineno /\ t[q].lineno <= t[n].lineno
<1> DEFINE a == s[p].lineno  b == t[q].lineno  x == s[m].lineno  y == t[n].lineno
           low == Lower(s, t, p, q)
           Moved == ~(m = p /\ n = q)
<1>1. p \in 1..Len(s) /\ q \in 1..Len(t) /\ Len(s) \in Nat /\ Len(t) \in Nat
  BY CommonLines DEF Abreast
<1>2. /\ \A i \in 1..Len(s) : s[i].lineno \in 0..MaxLine
      /\ \A j \in 1..Len(t) : t[j].lineno \in 0..MaxLine
      /\ \A c \in Common(s, t) : c \in Nat
  BY CommonLines
<1>3. a \in 0..MaxLine /\ b \in 0..MaxLine /\ low \in 0..MaxLine
  BY <1>1, <1>2 DEF Lower
<1>4. /\ Abreast(s, t, m, n) /\ a <= x /\ b <= y
      /\ \A c \in Common(s, t) : low < c /\ c <= x /\ c <= y => c = x /\ c = y /\ Moved
      /\ x = y /\ Moved => low < x
  <2>1. CASE m = p /\ n = q
    BY <1>2, <1>3, <2>1 DEF Lower
  <2>2. CASE Moved /\ a < b
    <3>1. n = q /\ m = p + 1 /\ m <= Len(s)
      BY <1>3, <2>2 DEF GoesOn
    <3>2. low = a
      BY <1>3, <2>2 DEF Lower
    <3>3. /\ Abreast(s, t, p + 1, q) /\ s[p].lineno < s[p + 1].lineno
          /\ \A c \in Common(s, t) : s[p].lineno < c /\ c <= s[p + 1].lineno /\ c <= t[q].lineno
                => c = s[p + 1].lineno /\ c = t[q].lineno
      BY <2>2, <3>1, OneAdvances
    <3>4. x \in 0..MaxLine
      BY <1>1, <1>2, <3>1
    <3> QED BY <1>3, <2>2, <3>1, <3>2, <3>3, <3>4
  <2>3. CASE Moved /\ b < a
    <3>1. m = p /\ n = q + 1 /\ n <= Len(t)
      BY <1>3, <2>3 DEF GoesOn
    <3>2. low = b
      BY <1>3, <2>3 DEF Lower
    <3>3. Abreast(t, s, q, p)
      BY DEF Abreast
    <3>4. /\ Abreast(s, t, p, q + 1) /\ t[q].lineno < t[q + 1].lineno
          /\ \A c \in Common(t, s) : t[q].lineno < c /\ c <= t[q + 1].lineno /\ c <= s[p].lineno
                => c = t[q + 1].lineno /\ c = s[p].lineno
      BY <2>3, <3>1, <3>3, OneAdvances
    <3>5. y \in 0..MaxLine /\ Common(t, s) = Common(s, t)
      BY <1>1, <1>2, <3>1, CommonBoth
    <3> QED BY <1>3, <2>3, <3>1, <3>2, <3>4, <3>5
  <2>4. CASE Moved /\ a = b
    <3>1. (m = p \/ (m = p + 1 /\ m <= Len(s))) /\ (n = q \/ (n = q + 1 /\ n <= Len(t)))
      BY DEF GoesOn
    <3>2. low = a
      BY <1>3, <2>4 DEF Lower
    <3>3. /\ Abreast(s, t, m, n) /\ s[p].lineno <= s[m].lineno /\ t[q].lineno <= t[n].lineno
          /\ m # p => s[p].lineno < s[m].lineno
          /\ n # q => t[q].lineno < t[n].lineno
          /\ \A c \in Common(s, t) : s[p].lineno < c /\ c <= s[m].lineno /\ c <= t[n].lineno
                => c = s[m].lineno /\ c = t[n].lineno /\ m # p /\ n # q
      BY <2>4, <3>1, EqualAdvance
    <3> QED BY <2>4, <3>2, <3>3
  <2> QED BY <1>3, <2>1, <2>2, <2>3, <2>4
<1>5. x \in 0..MaxLine /\ y \in 0..MaxLine
  BY <1>2, <1>4 DEF Abreast
<1>6. PICK high \in 0..MaxLine : high = Lower(s, t, m, n) /\ high <= x /\ high <= y /\ (high = x \/ high = y)
  BY <1>5 DEF Lower
<1>7. low <= high
  BY <1>3, <1>4, <1>5, <1>6 DEF Lower
<1>8. x # y \/ ~Moved => NoneBetween(s, t, low, high)
  <2> HIDE DEF a, b, x, y, low, Moved
  <2> SUFFICES ASSUME x # y \/ ~Moved, NEW c \in Common(s, t), low < c, c <= high PROVE FALSE
    BY DEF NoneBetween
  <2>1. c <= x /\ c <= y
    BY <1>2, <1>5, <1>6
  <2> QED BY <1>4, <2>1
<1>9. x = y /\ Moved => low < x /\ NoneBetween(s, t, low, x - 1)
  <2> HIDE DEF a, b, x, y, low, Moved
  <2> SUFFICES ASSUME x = y, Moved, NEW c \in Common(s, t), low < c, c <= x - 1 PROVE FALSE
    BY <1>4 DEF NoneBetween
  <2>1. c <= x /\ c <= y /\ c # x
    BY <1>2, <1>5
  <2> QED BY <1>4, <2>1
<1> QED BY <1>3, <1>4, <1>6, <1>7, <1>8, <1>9

ReadOut(f) == f.rest = <<>>

\* Nothing was read yet.
Fresh(p, q) ==
    /\ p = 0 /\ q = 0 /\ file[1].read /\ file[2].read /\ ~file[1].eof /\ ~file[2].eof
    /\ merged = <<>> /\ execlinecnt = 0 /\ srcfilename = ""
\* The first file has no name of a source: nothing is ever merged.
Blank ==
    /\ srcfilename = "" /\ ReadOut(file[1]) /\ file[1].line.lineno = 0
    /\ file[1].line.outbuf \notin {"Source:a", "Source:b"}
\* The two files are abreast, and merged up to the lower of their current lines.
InStep(s, t, p, q) ==
    /\ Abreast(s, t, p, q) /\ srcfilename # ""
    /\ file[1].read <=> s[p].lineno <= t[q].lineno
    /\ file[2].read <=> t[q].lineno <= s[p].lineno
    /\ file[1].eof => s[p].lineno <= t[q].lineno
    /\ file[2].eof => t[q].lineno <= s[p].lineno
    /\ merged \in Seq(MergedLines) /\ IsMerged(merged, execlinecnt, s, t, Lower(s, t, p, q))
Along(s, t) ==
    \E p, q : /\ ReadTo(file[1], s, p) /\ ReadTo(file[2], t, q)
              /\ (Fresh(p, q) \/ Blank \/ InStep(s, t, p, q))
\* Files of which nothing is skipped, as the loop works on them.
InLoop == \E s, t : mergeIn[1] = s /\ mergeIn[2] = t /\ CleanFile(s) /\ CleanFile(t) /\ Along(s, t)
NothingMerged == merged = <<>> /\ execlinecnt = 0 /\ srcfilename = ""
MergeInv ==
    /\ mergePc \in {"start", "loop", "totals", "done", "crashed"}
    /\ mergePc = "start" => NothingMerged
    /\ mergePc = "loop" /\ ~Skips => InLoop
    /\ mergePc = "totals" /\ ~Skips =>
           srcfilename = "" \/ IsMerged(merged, execlinecnt, mergeIn[1], mergeIn[2], MaxLine)
    /\ MergeIsUnion

AsRead(f, r) == [f EXCEPT !.read = r]

LEMMA CompareCases ==
    ASSUME NEW f1, NEW f2, Compare(f1, f2)
    PROVE  /\ mergeIn' = mergeIn
           /\ f1.eof /\ f2.eof =>
                file' = <<f1, f2>> /\ mergePc' = "totals"
                /\ UNCHANGED <<merged, execlinecnt, srcfilename, exitcode>>
           /\ ~(f1.eof /\ f2.eof) /\ f1.line.lineno # f2.line.lineno =>
                file' = <<AsRead(f1, f1.line.lineno < f2.line.lineno), AsRead(f2, f1.line.lineno > f2.line.lineno)>>
                /\ UNCHANGED <<mergePc, merged, execlinecnt, srcfilename, exitcode>>
           /\ ~(f1.eof /\ f2.eof) /\ f1.line.lineno = f2.line.lineno /\ f1.line.lineno = 0 =>
                file' = <<AsRead(f1, TRUE), AsRead(f2, TRUE)>>
                /\ SourceLine(f1.line, f2.line) /\ UNCHANGED execlinecnt
           /\ ~(f1.eof /\ f2.eof) /\ f1.line.lineno = f2.line.lineno /\ f1.line.lineno # 0 =>
                file' = <<AsRead(f1, TRUE), AsRead(f2, TRUE)>>
                /\ merged' = Append(merged, SumOf(f1.line, f2.line))
                /\ execlinecnt' = execlinecnt + Weight(f1.line, f2.line)
                /\ UNCHANGED <<mergePc, srcfilename, exitcode>>
<1> HIDE DEF SourceLine, SumOf, Weight
<1> QED BY DEF Compare, SetRead, AsRead

LEMMA CompareDiffers ==
    ASSUME NEW f1, NEW f2, Compare(f1, f2), ~(f1.eof /\ f2.eof), f1.line.lineno \in Nat,
           f2.line.lineno \in Nat, f1.line.lineno # f2.line.lineno
    PROVE  /\ f1.line.lineno < f2.line.lineno => file' = <<AsRead(f1, TRUE), AsRead(f2, FALSE)>>
           /\ f2.line.lineno < f1.line.lineno => file' = <<AsRead(f1, FALSE), AsRead(f2, TRUE)>>
           /\ UNCHANGED <<mergeIn, mergePc, merged, execlinecnt, srcfilename, exitcode>>
           /\ f1.line.lineno < f2.line.lineno \/ f2.line.lineno < f1.line.lineno
<1> DEFINE a == f1.line.lineno  b == f2.line.lineno
<1>1. /\ file' = <<AsRead(f1, a < b), AsRead(f2, a > b)>>
      /\ UNCHANGED <<mergeIn, mergePc, merged, execlinecnt, srcfilename, exitcode>>
  BY CompareCases
<1>2. a \in Nat /\ b \in Nat /\ a # b
  OBVIOUS
<1> HIDE DEF a, b
<1>3. ASSUME a < b PROVE file' = <<AsRead(f1, TRUE), AsRead(f2, FALSE)>>
  <2>1. (a < b) = TRUE /\ (a > b) = FALSE
    BY <1>2, <1>3
  <2> QED BY <1>1, <2>1
<1>4. ASSUME b < a PROVE file' = <<AsRead(f1, FALSE), AsRead(f2, TRUE)>>
  <2>1. (a < b) = FALSE /\ (a > b) = TRUE
    BY <1>2, <1>4
  <2> QED BY <1>1, <2>1
<1>5. a < b \/ b < a
  BY <1>2
<1> QED BY <1>1, <1>3, <1>4, <1>5 DEF a, b

\* Nothing is skipped in a clean file: a turn compares the two lines.
LEMMA TurnCompares ==
    ASSUME MergeTurn, NEW s, CleanFile(s), NEW t, CleanFile(t), NEW p, ReadTo(file[1], s, p),
           NEW q, ReadTo(file[2], t, q)
    PROVE  mergePc = "loop" /\ Compare(Readline(file[1]), Readline(file[2]))
<1>1. (Reads(file[1]) => ~Readline(file[1]).skipline) /\ (Reads(file[2]) => ~Readline(file[2]).skipline)
  BY ReadlineTo
<1> HIDE DEF Reads, Readline, Compare
<1> QED BY <1>1 DEF MergeTurn

\* What a turn leads to.
TurnGood(s, t) ==
    \/ mergePc' = "loop" /\ Along(s, t)'
    \/ mergePc' = "totals" /\ (srcfilename' = "" \/ IsMerged(merged', execlinecnt', s, t, MaxLine))
    \/ mergePc' = "done" /\ exitcode' = 1

\* The two files after SetRead.
LEMMA SetReadBoth ==
    ASSUME NEW s, NEW t, NEW f1, NEW f2, NEW m, NEW n, ReadTo(f1, s, m), ReadTo(f2, t, n),
           NEW r1 \in BOOLEAN, NEW r2 \in BOOLEAN, file' = <<AsRead(f1, r1), AsRead(f2, r2)>>
    PROVE  /\ ReadTo(file'[1], s, m) /\ ReadTo(file'[2], t, n)
           /\ file'[1].read = r1 /\ file'[1].line = f1.line /\ file'[1].eof = f1.eof /\ file'[1].rest = f1.rest
           /\ file'[2].read = r2 /\ file'[2].line = f2.line /\ file'[2].eof = f2.eof /\ file'[2].rest = f2.rest
<1> DEFINE g1 == AsRead(f1, r1)  g2 == AsRead(f2, r2)
<1>1. file' = <<g1, g2>>
  OBVIOUS
<1>2. ReadTo(g1, s, m) /\ g1.read = r1 /\ g1.line = f1.line /\ g1.eof = f1.eof /\ g1.rest = f1.rest
  BY SetReadTo DEF AsRead
<1>3. ReadTo(g2, t, n) /\ g2.read = r2 /\ g2.line = f2.line /\ g2.eof = f2.eof /\ g2.rest = f2.rest
  BY SetReadTo DEF AsRead
<1> HIDE DEF g1, g2
<1>4. file'[1] = g1 /\ file'[2] = g2
  BY <1>1
<1> QED BY <1>2, <1>3, <1>4

LEMMA ReadNumber == ASSUME NEW s, CleanFile(s), NEW f, NEW p, ReadTo(f, s, p) PROVE f.line.lineno \in Nat
<1>1. NoLine.lineno = 0
  BY DEF NoLine, Line
<1>2. f.line = NoLine \/ f.line \in GcovLines
  BY DEF ReadTo, GcovFile
<1> QED BY <1>1, <1>2, LineNumbers

\* With a first file that names no source the loop goes on, or comes to its end with nothing.
LEMMA BlankTurn ==
    ASSUME MergeTurn, NEW s, CleanFile(s), NEW t, CleanFile(t), NEW p, ReadTo(file[1], s, p),
           NEW q, ReadTo(file[2], t, q), NEW f1, f1 = Readline(file[1]), srcfilename = "",
           ReadOut(f1), f1.line.lineno = 0, f1.line.outbuf \notin {"Source:a", "Source:b"}
    PROVE  TurnGood(s, t)
<1>1. PICK f2 : f2 = Readline(file[2])
  OBVIOUS
<1>2. PICK m, n : ReadTo(f1, s, m) /\ ReadTo(f2, t, n)
  BY <1>1, ReadlineTo
<1>3. mergePc = "loop" /\ Compare(f1, f2)
  BY <1>1, TurnCompares
<1>4. CASE f1.eof /\ f2.eof
  BY <1>3, <1>4, CompareCases DEF TurnGood
<1>5. ASSUME ReadTo(file'[1], s, m), ReadTo(file'[2], t, n), file'[1].line = f1.line,
             file'[1].rest = f1.rest, mergePc' = mergePc, srcfilename' = srcfilename
      PROVE  TurnGood(s, t)
  <2>1. Blank'
    BY <1>5 DEF Blank, ReadOut
  <2>2. Along(s, t)'
    BY <1>5, <2>1 DEF Along
  <2> QED BY <1>3, <1>5, <2>2 DEF TurnGood
<1>6. CASE ~(f1.eof /\ f2.eof) /\ f1.line.lineno # f2.line.lineno
  <2>1. f1.line.lineno \in Nat /\ f2.line.lineno \in Nat
    BY <1>2, ReadNumber
  <2>2. \/ file' = <<AsRead(f1, TRUE), AsRead(f2, FALSE)>>
        \/ file' = <<AsRead(f1, FALSE), AsRead(f2, TRUE)>>
    BY <1>3, <1>6, <2>1, CompareDiffers
  <2>3. UNCHANGED <<mergePc, srcfilename>>
    BY <1>3, <1>6, CompareCases
  <2>4. /\ ReadTo(file'[1], s, m) /\ ReadTo(file'[2], t, n)
        /\ file'[1].line = f1.line /\ file'[1].rest = f1.rest
    <3>1. CASE file' = <<AsRead(f1, TRUE), AsRead(f2, FALSE)>>
      BY <1>2, <3>1, SetReadBoth
    <3>2. CASE file' = <<AsRead(f1, FALSE), AsRead(f2, TRUE)>>
      <4>1. ReadTo(AsRead(f1, FALSE), s, m) /\ AsRead(f1, FALSE).line = f1.line
            /\ AsRead(f1, FALSE).rest = f1.rest
        BY <1>2, SetReadTo DEF AsRead
      <4>2. ReadTo(AsRead(f2, TRUE), t, n)
        BY <1>2, SetReadTo DEF AsRead
      <4>3. file'[1] = AsRead(f1, FALSE) /\ file'[2] = AsRead(f2, TRUE)
        BY <3>2
      <4> QED BY <4>1, <4>2, <4>3
    <3> QED BY <2>2, <3>1, <3>2
  <2> QED BY <1>5, <2>3, <2>4
<1>7. CASE ~(f1.eof /\ f2.eof) /\ f1.line.lineno = f2.line.lineno
  <2>1. file' = <<AsRead(f1, TRUE), AsRead(f2, TRUE)>> /\ SourceLine(f1.line, f2.line)
    BY <1>3, <1>7, CompareCases
  <2>2. UNCHANGED <<mergePc, srcfilename>>
    BY <2>1 DEF SourceLine
  <2>3. /\ ReadTo(file'[1], s, m) /\ ReadTo(file'[2], t, n)
        /\ file'[1].line = f1.line /\ file'[1].rest = f1.rest
    BY <1>2, <2>1, SetReadBoth
  <2> QED BY <1>5, <2>2, <2>3
<1> QED BY <1>4, <1>6, <1>7

\* The first turn: the lines with the names are compared, and one is written.
LEMMA FreshTurn ==
    ASSUME MergeTurn, NEW s, CleanFile(s), NEW t, CleanFile(t), NEW p, ReadTo(file[1], s, p),
           NEW q, ReadTo(file[2], t, q), Fresh(p, q)
    PROVE  TurnGood(s, t)
<1>1. PICK f1, f2 : f1 = Readline(file[1]) /\ f2 = Readline(file[2])
  OBVIOUS
<1>2. Reads(file[1]) /\ Reads(file[2]) /\ p = 0 /\ q = 0 /\ merged = <<>> /\ execlinecnt = 0 /\ srcfilename = ""
  BY DEF Fresh, Reads
<1>3. PICK m : ReadTo(f1, s, m) /\ ((m = 0 /\ Len(s) = 0 /\ f1.eof) \/ (m = 1 /\ ~f1.eof))
  <2>1. PICK m : /\ ReadTo(Readline(file[1]), s, m)
                 /\ \/ ~Reads(file[1]) /\ m = p /\ Readline(file[1]) = file[1]
                    \/ Reads(file[1]) /\ m = p /\ p = Len(s) /\ Readline(file[1]).eof
                    \/ Reads(file[1]) /\ m = p + 1 /\ ~Readline(file[1]).eof
    BY ReadlineTo
  <2>2. ReadTo(f1, s, m)
    BY <1>1, <2>1
  <2>3. (m = 0 /\ Len(s) = 0 /\ f1.eof) \/ (m = 1 /\ ~f1.eof)
    <3>1. p + 1 = 1 /\ p = 0
      <4>1. p = 0
        BY <1>2
      <4> QED BY <4>1
    <3>2. (m = p /\ p = Len(s) /\ f1.eof) \/ (m = p + 1 /\ ~f1.eof)
      BY <1>1, <1>2, <2>1
    <3> QED BY <3>1, <3>2
  <2> QED BY <2>2, <2>3
<1>4. PICK n : ReadTo(f2, t, n) /\ ((n = 0 /\ Len(t) = 0 /\ f2.eof) \/ (n = 1 /\ ~f2.eof))
  <2>1. PICK n : /\ ReadTo(Readline(file[2]), t, n)
                 /\ \/ ~Reads(file[2]) /\ n = q /\ Readline(file[2]) = file[2]
                    \/ Reads(file[2]) /\ n = q /\ q = Len(t) /\ Readline(file[2]).eof
                    \/ Reads(file[2]) /\ n = q + 1 /\ ~Readline(file[2]).eof
    BY ReadlineTo
  <2>2. ReadTo(f2, t, n)
    BY <1>1, <2>1
  <2>3. (n = 0 /\ Len(t) = 0 /\ f2.eof) \/ (n = 1 /\ ~f2.eof)
    <3>1. q + 1 = 1 /\ q = 0
      <4>1. q = 0
        BY <1>2
      <4> QED BY <4>1
    <3>2. (n = q /\ q = Len(t) /\ f2.eof) \/ (n = q + 1 /\ ~f2.eof)
      BY <1>1, <1>2, <2>1
    <3> QED BY <3>1, <3>2
  <2> QED BY <2>2, <2>3
<1>5. mergePc = "loop" /\ Compare(f1, f2)
  BY <1>1, TurnCompares
<1>6. s \in Seq(GcovLines) /\ t \in Seq(GcovLines) /\ Len(s) \in Nat /\ Len(t) \in Nat
  BY LenProperties DEF CleanFile
<1>7. \A l \in Heads : l.lineno = 0 /\ l.outbuf \in {"Source:a", "Source:b", "Runs:1"}
  BY DEF Heads, Source, Line
<1>8. NoLine.lineno = 0 /\ NoLine.outbuf = ""
  BY DEF NoLine, Line
<1>9. f1.line.lineno = 0 /\ f2.line.lineno = 0
  <2>1. f1.line = NoLine \/ (f1.line = s[1] /\ Len(s) > 0)
    BY <1>3, <1>6 DEF ReadTo, LineAt
  <2>2. f2.line = NoLine \/ (f2.line = t[1] /\ Len(t) > 0)
    BY <1>4, <1>6 DEF ReadTo, LineAt
  <2> QED BY <1>7, <1>8, <2>1, <2>2 DEF CleanFile
<1>10. CASE f1.line.outbuf \notin {"Source:a", "Source:b"}
  <2>1. m = Len(s)
    <3>1. CASE m = 1
      <4>1. 1 \in 0..Len(s) /\ f1.line = s[1]
        BY <1>3, <3>1 DEF ReadTo, LineAt
      <4>2. ~(Len(s) > 1)
        BY <1>10, <4>1 DEF CleanFile
      <4>3. PICK z \in Nat : z = Len(s)
        BY <1>6
      <4>4. z = 1
        BY <4>1, <4>2, <4>3
      <4> QED BY <3>1, <4>3, <4>4
    <3> QED BY <1>3, <3>1
  <2>2. f1.rest = <<>>
    <3>1. f1.rest = SubSeq(s, Len(s) + 1, Len(s))
      BY <1>3, <2>1 DEF ReadTo
    <3> QED BY <1>6, <3>1, SubSeqProperties, EmptySeq
  <2> QED BY <1>1, <1>2, <1>9, <1>10, <2>2, BlankTurn DEF ReadOut
<1>11. CASE f1.line.outbuf \in {"Source:a", "Source:b"}
  <2>1. m = 1 /\ ~f1.eof /\ f1.line = s[1] /\ 1 \in 1..Len(s)
    <3>1. m # 0
      BY <1>3, <1>8, <1>11 DEF ReadTo, LineAt
    <3> QED BY <1>3, <1>6, <3>1 DEF ReadTo, LineAt
  <2>2. file' = <<AsRead(f1, TRUE), AsRead(f2, TRUE)>> /\ SourceLine(f1.line, f2.line) /\ execlinecnt' = execlinecnt
    BY <1>5, <1>9, <2>1, CompareCases
  <2>3. CASE f1.line.outbuf # f2.line.outbuf
    BY <1>11, <2>2, <2>3 DEF SourceLine, TurnGood
  <2>4. CASE f1.line.outbuf = f2.line.outbuf
    <3>1. n = 1 /\ ~f2.eof /\ f2.line = t[1] /\ 1 \in 1..Len(t)
      <4>1. n # 0
        BY <1>4, <1>8, <1>11, <2>4 DEF ReadTo, LineAt
      <4> QED BY <1>4, <1>6, <4>1 DEF ReadTo, LineAt
    <3>2. merged' = Append(merged, f1.line) /\ srcfilename' = f1.line.outbuf /\ mergePc' = "loop"
      BY <1>5, <1>11, <2>2, <2>4 DEF SourceLine
    <3>3. /\ ReadTo(file'[1], s, 1) /\ ReadTo(file'[2], t, 1)
          /\ file'[1].read /\ ~file'[1].eof /\ file'[2].read /\ ~file'[2].eof
      <4>1. ReadTo(file'[1], s, m) /\ ReadTo(file'[2], t, n)
        BY <1>3, <1>4, <2>2, SetReadBoth
      <4>2. file'[1].read = TRUE /\ file'[2].read = TRUE
        BY <1>3, <1>4, <2>2, SetReadBoth
      <4>3. file'[1].eof = f1.eof /\ file'[2].eof = f2.eof
        <5>1. file'[1] = AsRead(f1, TRUE) /\ file'[2] = AsRead(f2, TRUE)
          BY <2>2
        <5>2. AsRead(f1, TRUE).eof = f1.eof
          BY <1>3, SetReadTo DEF AsRead
        <5>3. AsRead(f2, TRUE).eof = f2.eof
          BY <1>4, SetReadTo DEF AsRead
        <5> QED BY <5>1, <5>2, <5>3
      <4> QED BY <2>1, <3>1, <4>1, <4>2, <4>3
    <3>4. PICK h \in GcovLines : h = s[1] /\ h.lineno = 0 /\ t[1].lineno = 0 /\ h.outbuf # ""
      <4>1. s[1] \in GcovLines
        BY <1>6, <2>1, LenProperties
      <4>2. s[1].lineno = 0 /\ t[1].lineno = 0 /\ s[1].outbuf # ""
        BY <1>9, <1>11, <2>1, <3>1
      <4> QED BY <4>1, <4>2
    <3>5. merged' = <<h>> /\ execlinecnt' = 0 /\ srcfilename' # ""
      <4>1. Append(<<>>, h) = <<h>>
        OBVIOUS
      <4>2. execlinecnt' = 0
        BY <1>2, <2>2
      <4>3. f1.line = h
        BY <2>1, <3>4
      <4>4. merged' = <<h>>
        BY <1>2, <3>2, <4>1, <4>3
      <4>5. srcfilename' # ""
        BY <3>2, <3>4, <4>3
      <4> QED BY <4>2, <4>4, <4>5
    <3>6. Abreast(s, t, 1, 1)
      BY <2>1, <3>1 DEF Abreast
    <3>7. Lower(s, t, 1, 1) = 0
      BY <3>4 DEF Lower
    <3>8. IsMerged(<<h>>, 0, s, t, 0)
      <4>1. \A c \in Common(s, t) : c \in Nat \ {0}
        BY CommonLines
      <4>2. {n1 \in Common(s, t) : n1 <= 0} = {}
        BY <4>1
      <4> DEFINE z == <<h>>
      <4>3. DOMAIN z = {1} /\ z[1] = h
        OBVIOUS
      <4> HIDE DEF z
      <4>4. {z[i].lineno : i \in DOMAIN z} \ {0} = {}
        BY <3>4, <4>3
      <4>5. Weighed(s, t)[0] = 0
        BY WeighedDefined
      <4>6. \A i, j \in DOMAIN z : ~(i < j)
        BY <4>3
      <4>7. IsMerged(z, 0, s, t, 0)
        BY <3>4, <4>2, <4>3, <4>4, <4>5, <4>6 DEF IsMerged
      <4> QED BY <4>7 DEF z
    <3>9. <<h>> \in Seq(MergedLines)
      BY DEF MergedLines
    <3>10. InStep(s, t, 1, 1)'
      <4>1. s[1].lineno = 0 /\ t[1].lineno = 0
        BY <1>9, <2>1, <3>1
      <4>2. merged' \in Seq(MergedLines) /\ IsMerged(merged', execlinecnt', s, t, Lower(s, t, 1, 1))
        BY <3>5, <3>7, <3>8, <3>9
      <4>3. s[1].lineno <= t[1].lineno /\ t[1].lineno <= s[1].lineno
        BY <4>1
      <4>4. /\ file'[1].read <=> s[1].lineno <= t[1].lineno
            /\ file'[2].read <=> t[1].lineno <= s[1].lineno
        BY <3>3, <4>3
      <4>5. /\ file'[1].eof => s[1].lineno <= t[1].lineno
            /\ file'[2].eof => t[1].lineno <= s[1].lineno
        BY <3>3
      <4> QED BY <3>5, <3>6, <4>2, <4>4, <4>5 DEF InStep
    <3>11. Along(s, t)'
      BY <3>3, <3>10 DEF Along
    <3> QED BY <3>2, <3>11 DEF TurnGood
  <2> QED BY <2>3, <2>4
<1> QED BY <1>10, <1>11

\* A file at line number a is read when it is not in front of the other one, at b.
InTurn(f, a, b) == (f.read <=> a <= b) /\ (f.eof => a <= b)
\* What reading it leads to: it is g, and line m the last one read.
Reached(g, s, p, m, a, b) ==
    /\ ReadTo(g, s, m) /\ m \in 1..Len(s) /\ g.line = s[m] /\ GoesOn(s, p, m, a, b)
    /\ a = b => m # p \/ p = Len(s)
    /\ g.eof => m = p /\ p = Len(s) /\ a <= b
    /\ a = b /\ m = p => g.eof

LEMMA StepReads ==
    ASSUME NEW s, CleanFile(s), NEW f, NEW p \in 1..Len(s), ReadTo(f, s, p), NEW g, g = Readline(f),
           NEW a \in Nat, NEW b \in Nat, InTurn(f, a, b)
    PROVE  \E m : Reached(g, s, p, m, a, b)
<1>1. PICK m : /\ ReadTo(Readline(f), s, m)
               /\ \/ ~Reads(f) /\ m = p /\ Readline(f) = f
                  \/ Reads(f) /\ m = p /\ p = Len(s) /\ Readline(f).eof
                  \/ Reads(f) /\ m = p + 1 /\ ~Readline(f).eof
  BY ReadlineTo
<1>2. ReadTo(g, s, m)
  BY <1>1
<1>3. s \in Seq(GcovLines) /\ Len(s) \in Nat
  BY LenProperties DEF CleanFile
<1>4. m \in 0..Len(s) /\ g.line = LineAt(s, m) /\ (g.eof => m = Len(s)) /\ (f.eof => p = Len(s))
  BY <1>2 DEF ReadTo
<1>5. m = p \/ (m = p + 1 /\ Reads(f))
  BY <1>1
<1>6. m \in 1..Len(s) /\ g.line = s[m]
  BY <1>3, <1>4, <1>5 DEF LineAt
<1>7. Reads(f) => a <= b
  BY DEF Reads, InTurn
<1>8. GoesOn(s, p, m, a, b)
  BY <1>3, <1>5, <1>6, <1>7 DEF GoesOn
<1>9. ~Reads(f) /\ a = b => f.eof
  BY DEF Reads, InTurn
<1>10. a = b => m # p \/ p = Len(s)
  BY <1>1, <1>4, <1>9
<1>11. g.eof => m = p /\ p = Len(s) /\ a <= b
  <2>1. f.eof => a <= b
    BY DEF InTurn
  <2> QED BY <1>1, <1>4, <1>7, <2>1
<1>12. a = b /\ m = p => g.eof
  <2>1. p # p + 1
    BY <1>3
  <2> QED BY <1>1, <1>9, <2>1
<1> QED BY <1>2, <1>6, <1>8, <1>10, <1>11, <1>12 DEF Reached

\* A turn of the loop when the files are abreast.
LEMMA StepTurn ==
    ASSUME MergeTurn, NEW s, CleanFile(s), NEW t, CleanFile(t), NEW p, ReadTo(file[1], s, p),
           NEW q, ReadTo(file[2], t, q), InStep(s, t, p, q)
    PROVE  TurnGood(s, t)
<1>1. PICK f1, f2 : f1 = Readline(file[1]) /\ f2 = Readline(file[2])
  OBVIOUS
<1>2. PICK a, b : a = s[p].lineno /\ b = t[q].lineno /\ a \in Nat /\ b \in Nat
  <2>1. s[p].lineno \in Nat /\ t[q].lineno \in Nat
    BY LinesByNumber DEF InStep, Abreast
  <2> QED BY <2>1
<1>3. p \in 1..Len(s) /\ q \in 1..Len(t)
  BY DEF InStep, Abreast
<1>4. InTurn(file[1], a, b) /\ InTurn(file[2], b, a)
  BY <1>2 DEF InStep, InTurn
<1>5. PICK m : Reached(f1, s, p, m, a, b)
  BY <1>1, <1>2, <1>3, <1>4, StepReads
<1>6. PICK n : Reached(f2, t, q, n, b, a)
  BY <1>1, <1>2, <1>3, <1>4, StepReads
<1>7. mergePc = "loop" /\ Compare(f1, f2)
  BY <1>1, TurnCompares
<1>8. PICK low, x, y : /\ low = Lower(s, t, p, q) /\ x = s[m].lineno /\ y = t[n].lineno
                       /\ x \in Nat /\ y \in Nat /\ x <= MaxLine /\ low \in 0..MaxLine
  BY <1>2, <1>3, <1>5, <1>6, CommonLines DEF Lower, Reached
<1>9. /\ Abreast(s, t, m, n) /\ Lower(s, t, m, n) \in 0..MaxLine /\ low <= Lower(s, t, m, n)
      /\ x # y \/ (m = p /\ n = q) => NoneBetween(s, t, low, Lower(s, t, m, n))
      /\ x = y /\ ~(m = p /\ n = q) => low < x /\ NoneBetween(s, t, low, x - 1)
      /\ a <= x /\ b <= y
  <2>1. Abreast(s, t, p, q)
    BY DEF InStep
  <2>2. GoesOn(s, p, m, s[p].lineno, t[q].lineno)
    BY <1>2, <1>5 DEF Reached
  <2>3. GoesOn(t, q, n, t[q].lineno, s[p].lineno)
    BY <1>2, <1>6 DEF Reached
  <2>4. s[p].lineno = t[q].lineno => (m # p \/ p = Len(s)) /\ (n # q \/ q = Len(t))
    BY <1>2, <1>5, <1>6 DEF Reached
  <2>5. /\ Abreast(s, t, m, n)
        /\ Lower(s, t, p, q) \in 0..MaxLine /\ Lower(s, t, m, n) \in 0..MaxLine
        /\ Lower(s, t, p, q) <= Lower(s, t, m, n)
        /\ s[m].lineno # t[n].lineno \/ (m = p /\ n = q)
              => NoneBetween(s, t, Lower(s, t, p, q), Lower(s, t, m, n))
        /\ s[m].lineno = t[n].lineno /\ ~(m = p /\ n = q)
              => /\ Lower(s, t, p, q) < s[m].lineno
                 /\ NoneBetween(s, t, Lower(s, t, p, q), s[m].lineno - 1)
        /\ s[p].lineno <= s[m].lineno /\ t[q].lineno <= t[n].lineno
    BY <2>1, <2>2, <2>3, <2>4, BothAdvance
  <2> QED BY <1>2, <1>8, <2>5
<1>10. merged \in Seq(MergedLines) /\ IsMerged(merged, execlinecnt, s, t, low) /\ srcfilename # ""
  BY <1>8 DEF InStep
<1>11. \A c \in Common(s, t) : c \in Nat
  BY CommonLines
<1>12. CASE f1.eof /\ f2.eof
  <2>1. a = b /\ p = Len(s)
    BY <1>2, <1>5, <1>6, <1>12 DEF Reached
  <2>2. low = a
    BY <1>2, <1>8, <2>1 DEF Lower
  <2>3. NoneBetween(s, t, low, MaxLine)
    <3> SUFFICES ASSUME NEW c \in Common(s, t), low < c PROVE FALSE
      BY DEF NoneBetween
    <3>1. PICK i \in 1..Len(s) : s[i].lineno = c
      BY CommonLines
    <3>2. s[p].lineno < s[i].lineno
      BY <1>2, <2>2, <3>1
    <3>3. p < i
      BY <1>3, <3>1, <3>2, CommonLines
    <3>4. Len(s) \in Nat
      BY CommonLines
    <3> QED BY <2>1, <3>1, <3>3, <3>4
  <2>4. MaxLine \in 0..MaxLine /\ low <= MaxLine
    BY <1>8, MergeAssumption DEF MergeAssumption
  <2>5. IsMerged(merged, execlinecnt, s, t, MaxLine)
    BY <1>8, <1>10, <1>11, <2>3, <2>4, GapMerged
  <2>6. mergePc' = "totals" /\ merged' = merged /\ execlinecnt' = execlinecnt
    BY <1>7, <1>12, CompareCases
  <2> QED BY <2>5, <2>6 DEF TurnGood
<1>13. CASE ~(f1.eof /\ f2.eof) /\ x # y
  <2>1. IsMerged(merged, execlinecnt, s, t, Lower(s, t, m, n))
    <3>1. PICK high \in 0..MaxLine : high = Lower(s, t, m, n) /\ low <= high /\ NoneBetween(s, t, low, high)
      BY <1>9, <1>13
    <3> QED BY <1>8, <1>10, <1>11, <3>1, GapMerged
  <2>2. UNCHANGED <<mergePc, merged, execlinecnt, srcfilename>>
    BY <1>5, <1>6, <1>7, <1>8, <1>13, CompareDiffers DEF Reached
  <2>3. /\ f1.eof => x <= y
        /\ f2.eof => y <= x
    <3>1. ASSUME f1.eof PROVE x <= y
      <4>1. x = a /\ a <= b
        BY <1>2, <1>5, <1>8, <3>1 DEF Reached
      <4> QED BY <1>2, <1>8, <1>9, <4>1
    <3>2. ASSUME f2.eof PROVE y <= x
      <4>1. y = b /\ b <= a
        BY <1>2, <1>6, <1>8, <3>2 DEF Reached
      <4> QED BY <1>2, <1>8, <1>9, <4>1
    <3> QED BY <3>1, <3>2
  <2>4. ASSUME NEW r1 \in {TRUE, FALSE}, NEW r2 \in {TRUE, FALSE},
               file' = <<AsRead(f1, r1), AsRead(f2, r2)>>, r1 = TRUE <=> x <= y, r2 = TRUE <=> y <= x
        PROVE  TurnGood(s, t)
    <3>1. /\ ReadTo(AsRead(f1, r1), s, m) /\ AsRead(f1, r1).read = r1 /\ AsRead(f1, r1).eof = f1.eof
      BY <1>5, SetReadTo DEF AsRead, Reached
    <3>2. /\ ReadTo(AsRead(f2, r2), t, n) /\ AsRead(f2, r2).read = r2 /\ AsRead(f2, r2).eof = f2.eof
      BY <1>6, SetReadTo DEF AsRead, Reached
    <3>3. file'[1] = AsRead(f1, r1) /\ file'[2] = AsRead(f2, r2)
      BY <2>4
    <3>4. /\ ReadTo(file'[1], s, m) /\ ReadTo(file'[2], t, n)
          /\ file'[1].eof => x <= y
          /\ file'[2].eof => y <= x
          /\ file'[1].read <=> x <= y
          /\ file'[2].read <=> y <= x
      BY <2>3, <2>4, <3>1, <3>2, <3>3
    <3>5. InStep(s, t, m, n)'
      BY <1>8, <1>9, <1>10, <2>1, <2>2, <3>4 DEF InStep
    <3>6. Along(s, t)'
      BY <3>4, <3>5 DEF Along
    <3> QED BY <1>7, <2>2, <3>6 DEF TurnGood
  <2>5. \/ x < y /\ file' = <<AsRead(f1, TRUE), AsRead(f2, FALSE)>>
        \/ y < x /\ file' = <<AsRead(f1, FALSE), AsRead(f2, TRUE)>>
    BY <1>5, <1>6, <1>7, <1>8, <1>13, CompareDiffers DEF Reached
  <2>6. CASE x < y /\ file' = <<AsRead(f1, TRUE), AsRead(f2, FALSE)>>
    <3>1. x <= y /\ ~(y <= x)
      BY <1>8, <2>6
    <3> QED BY <2>4, <2>6, <3>1
  <2>7. CASE y < x /\ file' = <<AsRead(f1, FALSE), AsRead(f2, TRUE)>>
    <3>1. y <= x /\ ~(x <= y)
      BY <1>8, <2>7
    <3> QED BY <2>4, <2>7, <3>1
  <2> QED BY <2>5, <2>6, <2>7
<1>14. CASE ~(f1.eof /\ f2.eof) /\ x = y
  <2>1. ~(m = p /\ n = q)
    <3> SUFFICES ASSUME m = p, n = q PROVE FALSE
      OBVIOUS
    <3>1. a = b
      BY <1>2, <1>8, <1>14
    <3> QED BY <1>5, <1>6, <1>14, <3>1 DEF Reached
  <2>2. low < x /\ NoneBetween(s, t, low, x - 1) /\ x # 0 /\ Lower(s, t, m, n) = x
    BY <1>8, <1>9, <1>14, <2>1 DEF Lower
  <2>3. /\ file' = <<AsRead(f1, TRUE), AsRead(f2, TRUE)>>
        /\ merged' = Append(merged, SumOf(f1.line, f2.line))
        /\ execlinecnt' = execlinecnt + Weight(f1.line, f2.line)
        /\ UNCHANGED <<mergePc, srcfilename>>
    BY <1>5, <1>6, <1>7, <1>8, <1>14, <2>2, CompareCases DEF Reached
  <2>4. merged' = Append(merged, SumOf(s[m], t[n])) /\ execlinecnt' = execlinecnt + Weight(s[m], t[n])
    BY <1>5, <1>6, <2>3 DEF Reached
  <2>5. IsMerged(merged', execlinecnt', s, t, x)
    <3>1. s[m].lineno = t[n].lineno /\ low < s[m].lineno /\ NoneBetween(s, t, low, s[m].lineno - 1)
      BY <1>8, <1>14, <2>2
    <3>2. IsMerged(Append(merged, SumOf(s[m], t[n])), execlinecnt + Weight(s[m], t[n]), s, t, s[m].lineno)
      BY <1>5, <1>6, <1>8, <1>10, <3>1, MatchMerged DEF Reached
    <3> QED BY <1>8, <2>4, <3>2
  <2>6. merged' \in Seq(MergedLines)
    <3>1. \A l \in Heads : l.lineno = 0
      BY DEF Heads, Source, Line
    <3>2. s[m] \in Coded /\ t[n] \in Coded
      BY <1>5, <1>6, <1>8, <1>14, <2>2, <3>1, LinesByNumber DEF GcovLines, Reached
    <3>3. SumOf(s[m], t[n]) \in MergedLines
      BY <3>2 DEF MergedLines
    <3> HIDE DEF MergedLines
    <3> QED BY <1>10, <2>4, <3>3, AppendProperties
  <2>7. /\ ReadTo(file'[1], s, m) /\ ReadTo(file'[2], t, n) /\ file'[1].read = TRUE /\ file'[2].read = TRUE
    BY <1>5, <1>6, <2>3, SetReadBoth DEF Reached
  <2>8. InStep(s, t, m, n)'
    <3>1. x <= y /\ y <= x
      BY <1>8, <1>14
    <3>2. IsMerged(merged', execlinecnt', s, t, Lower(s, t, m, n))
      BY <2>2, <2>5
    <3>3. /\ file'[1].read <=> x <= y
          /\ file'[2].read <=> y <= x
      BY <2>7, <3>1
    <3> QED BY <1>8, <1>9, <1>10, <2>3, <2>6, <3>1, <3>2, <3>3 DEF InStep
  <2>9. Along(s, t)'
    BY <2>7, <2>8 DEF Along
  <2> QED BY <1>7, <2>3, <2>9 DEF TurnGood
<1> QED BY <1>12, <1>13, <1>14

LEMMA MergeInvInit == ASSUME MergeInit PROVE MergeInv
BY DEF MergeInit, MergeInv, MergeIsUnion, NothingMerged

LEMMA EndsInError == ASSUME mergePc' = "done", exitcode' = 1 PROVE MergeInv'
<1>1. MergeIsUnion'
  BY DEF MergeIsUnion
<1> QED BY <1>1 DEF MergeInv

\* Opening the files: a file of which nothing is skipped is clean, and nothing was read.
LEMMA OpenKeeps == ASSUME MergeInv, MergeOpen PROVE MergeInv'
<1>1. mergePc = "start" /\ merged' = merged /\ execlinecnt' = execlinecnt /\ srcfilename' = srcfilename
  BY DEF MergeOpen
<1>2. merged' = <<>> /\ execlinecnt' = 0 /\ srcfilename' = ""
  BY <1>1 DEF MergeInv, NothingMerged
<1>3. CASE mergePc' = "done" /\ exitcode' = 1
  BY <1>3, EndsInError
<1>4. ASSUME NEW s \in Files, NEW t \in Files, mergeIn' = <<s, t>>,
             file' = <<Opened(s), Opened(t)>>, mergePc' = "loop"
      PROVE  MergeInv'
  <2>1. mergeIn'[1] = s /\ mergeIn'[2] = t /\ file'[1] = Opened(s) /\ file'[2] = Opened(t)
    BY <1>4
  <2>2. ASSUME ~Skips' PROVE CleanFile(s) /\ CleanFile(t)
    <3>1. SkipLine \notin ToSet(s) /\ SkipLine \notin ToSet(t)
      BY <2>1, <2>2 DEF Skips
    <3> QED BY <3>1, FilesClean
  <2>3. ASSUME NEW u, CleanFile(u)
        PROVE  ReadTo(Opened(u), u, 0) /\ Opened(u).read = TRUE /\ Opened(u).eof = FALSE
    <3>1. u \in Seq(GcovLines) /\ Len(u) \in Nat
      BY <2>3, LenProperties DEF CleanFile
    <3>2. SubSeq(u, 1, Len(u)) = u
      <4>1. SubSeq(u, 1, Len(u)) \in Seq(GcovLines) /\ Len(SubSeq(u, 1, Len(u))) = Len(u)
            /\ \A i \in 1..Len(u) : SubSeq(u, 1, Len(u))[i] = u[i]
        BY <3>1
      <4> QED BY <3>1, <4>1, SeqEqual
    <3>3. Opened(u) \in GcovFile
      BY <3>1 DEF Opened, GcovFile
    <3>4. Opened(u).rest = u /\ Opened(u).line = NoLine /\ Opened(u).eof = FALSE /\ Opened(u).read = TRUE
      BY DEF Opened
    <3>5. 0 \in 0..Len(u) /\ 0 + 1 = 1
      BY <3>1
    <3> QED BY <3>2, <3>3, <3>4, <3>5 DEF ReadTo, LineAt
  <2>4. ASSUME ~Skips' PROVE Along(s, t)'
    <3>1. /\ ReadTo(file'[1], s, 0) /\ file'[1].read = TRUE /\ file'[1].eof = FALSE
          /\ ReadTo(file'[2], t, 0) /\ file'[2].read = TRUE /\ file'[2].eof = FALSE
      BY <2>1, <2>2, <2>3, <2>4
    <3>2. Fresh(0, 0)'
      BY <1>2, <3>1 DEF Fresh
    <3> QED BY <3>1, <3>2 DEF Along
  <2>5. ~Skips' => InLoop'
    BY <2>1, <2>2, <2>4 DEF InLoop
  <2> QED BY <1>4, <2>5 DEF MergeInv, MergeIsUnion
<1> QED BY <1>3, <1>4 DEF MergeOpen

\* Where a turn of the loop may lead, whatever is skipped.
LEMMA TurnLeads ==
    ASSUME MergeTurn
    PROVE  /\ mergePc = "loop" /\ mergeIn' = mergeIn
           /\ mergePc' \in {"loop", "totals"} \/ (mergePc' = "done" /\ exitcode' = 1)
<1>1. PICK f1, f2 : f1 = Readline(file[1]) /\ f2 = Readline(file[2])
  OBVIOUS
<1>2. mergePc = "loop"
  BY DEF MergeTurn
<1>3. ASSUME Compare(f1, f2)
      PROVE  mergeIn' = mergeIn /\ (mergePc' \in {"loop", "totals"} \/ (mergePc' = "done" /\ exitcode' = 1))
  <2>1. SourceLine(f1.line, f2.line) => mergePc' = mergePc \/ (mergePc' = "done" /\ exitcode' = 1)
    BY DEF SourceLine
  <2> QED BY <1>2, <1>3, <2>1, CompareCases
<1> HIDE DEF Compare, Readline, Reads
<1> QED BY <1>1, <1>2, <1>3 DEF MergeTurn

LEMMA TurnKeeps == ASSUME MergeInv, MergeTurn PROVE MergeInv'
<1>1. mergePc = "loop" /\ mergeIn' = mergeIn
  BY TurnLeads
<1>2. CASE Skips
  <2>1. Skips'
    BY <1>1, <1>2 DEF Skips
  <2> QED BY <2>1, TurnLeads DEF MergeInv, MergeIsUnion
<1>3. CASE ~Skips
  <2>1. InLoop
    BY <1>1, <1>3 DEF MergeInv
  <2>2. PICK s, t : mergeIn[1] = s /\ mergeIn[2] = t /\ CleanFile(s) /\ CleanFile(t) /\ Along(s, t)
    BY <2>1 DEF InLoop
  <2>3. PICK p, q : /\ ReadTo(file[1], s, p) /\ ReadTo(file[2], t, q)
                    /\ (Fresh(p, q) \/ Blank \/ InStep(s, t, p, q))
    BY <2>2 DEF Along
  <2>4. TurnGood(s, t)
    <3>1. CASE Fresh(p, q)
      BY <2>2, <2>3, <3>1, FreshTurn
    <3>2. CASE Blank
      <4>1. PICK f, f1 : f = file[1] /\ f1 = Readline(f)
        OBVIOUS
      <4>2. f1.line = f.line /\ f1.rest = f.rest
        <5>1. f.rest = <<>>
          BY <3>2, <4>1 DEF Blank, ReadOut
        <5>2. f1 = f \/ f1 = [f EXCEPT !.eof = TRUE, !.skipline = FALSE]
          BY <4>1, <5>1 DEF Readline
        <5>3. f \in GcovFile
          BY <2>3, <4>1 DEF ReadTo
        <5> QED BY <5>2, <5>3 DEF GcovFile
      <4>3. ReadOut(f1) /\ f1.line.lineno = 0 /\ f1.line.outbuf \notin {"Source:a", "Source:b"} /\ srcfilename = ""
        BY <3>2, <4>1, <4>2 DEF Blank, ReadOut
      <4>4. f1 = Readline(file[1])
        BY <4>1
      <4> QED BY <2>2, <2>3, <4>3, <4>4, BlankTurn
    <3>3. CASE InStep(s, t, p, q)
      BY <2>2, <2>3, <3>3, StepTurn
    <3> QED BY <2>3, <3>1, <3>2, <3>3
  <2>5. mergeIn'[1] = s /\ mergeIn'[2] = t
    BY <1>1, <2>2
  <2>6. CASE mergePc' = "done" /\ exitcode' = 1
    BY <2>6, EndsInError
  <2>7. CASE mergePc' = "totals" /\ (srcfilename' = "" \/ IsMerged(merged', execlinecnt', s, t, MaxLine))
    BY <2>5, <2>7 DEF MergeInv, MergeIsUnion
  <2>8. CASE mergePc' = "loop" /\ Along(s, t)'
    <3>1. InLoop'
      BY <2>2, <2>5, <2>8 DEF InLoop
    <3> QED BY <2>8, <3>1 DEF MergeInv, MergeIsUnion
  <2> QED BY <2>4, <2>6, <2>7, <2>8 DEF TurnGood
<1> QED BY <1>2, <1>3

LEMMA MergeInvStep == ASSUME MergeInv, [MergeNext]_mergeVars PROVE MergeInv'
<1>1. CASE MergeOpen
  BY <1>1, OpenKeeps
<1>2. CASE MergeTurn
  BY <1>2, TurnKeeps
<1>3. CASE ReadError
  BY <1>3, EndsInError DEF ReadError
<1>4. CASE MergeTotals
  <2>1. UNCHANGED <<mergeIn, file, merged, execlinecnt, srcfilename>> /\ mergePc = "totals"
    BY <1>4 DEF MergeTotals
  <2>2. Skips' = Skips
    BY <2>1 DEF Skips
  <2>3. CASE mergePc' = "done" /\ exitcode' = 1
    BY <2>3, EndsInError
  <2>4. CASE srcfilename # "" /\ mergePc' \in {"crashed", "done"}
    <3>1. ~Skips => IsMerged(merged, execlinecnt, mergeIn[1], mergeIn[2], MaxLine)
      BY <2>1, <2>4 DEF MergeInv
    <3>2. ~Skips' => IsMerged(merged', execlinecnt', mergeIn'[1], mergeIn'[2], MaxLine)
      BY <2>1, <2>2, <3>1
    <3> QED BY <2>4, <3>2 DEF MergeInv, MergeIsUnion
  <2> QED BY <1>4, <2>3, <2>4 DEF MergeTotals
<1>5. CASE UNCHANGED mergeVars
  <2>1. UNCHANGED <<mergePc, mergeIn, file, merged, execlinecnt, srcfilename, exitcode>>
    BY <1>5 DEF mergeVars
  <2>2. Skips' = Skips /\ NothingMerged' = NothingMerged
    BY <2>1 DEF Skips, NothingMerged
  <2>3. ASSUME NEW s, NEW t, Along(s, t) PROVE Along(s, t)'
    <3>1. PICK p, q : /\ ReadTo(file[1], s, p) /\ ReadTo(file[2], t, q)
                      /\ (Fresh(p, q) \/ Blank \/ InStep(s, t, p, q))
      BY <2>3 DEF Along
    <3>2. Fresh(p, q)' \/ Blank' \/ InStep(s, t, p, q)'
      BY <2>1, <3>1 DEF Fresh, Blank, InStep
    <3>3. ReadTo(file'[1], s, p) /\ ReadTo(file'[2], t, q)
      BY <2>1, <3>1
    <3> QED BY <3>2, <3>3 DEF Along
  <2>4. InLoop => InLoop'
    BY <2>1, <2>3 DEF InLoop
  <2>5. MergeIsUnion'
    BY <2>1, <2>2 DEF MergeInv, MergeIsUnion
  <2> QED BY <2>1, <2>2, <2>4, <2>5 DEF MergeInv
<1> QED BY <1>1, <1>2, <1>3, <1>4, <1>5 DEF MergeNext

\* The merged file is the union of the two (compare_lines and the loop of mergegcov):
\* each line of both once, in order, with the sum of the counts.
THEOREM MergesTheUnion == MergeSpec => []MergeIsUnion
<1>1. MergeInv => MergeIsUnion
  BY DEF MergeInv
<1> QED BY <1>1, MergeInvInit, MergeInvStep, PTL DEF MergeSpec
-----------------------------------------------------------------------------
(***************************************************************************)
(* The parts side by side: each behaves as by itself.                      *)
(***************************************************************************)
\* A step of the library is one of each part, or leaves it alone.
LEMMA PartsStep ==
    [LibraryNext]_libraryVars =>
        /\ [ReceiptNext]_receiptVars /\ [ClientsNext]_clientVars /\ [FramingNext]_framingVars
        /\ [RingNext]_ringVars /\ [LoggingNext]_loggingVars /\ [ThreadsNext]_threadVars
        /\ [LifeNext]_lifeVars /\ [HelpersNext]_helperVars /\ [MergeNext]_mergeVars
<1>1. CASE LibraryNext
  BY <1>1 DEF LibraryNext, Still
<1>2. CASE UNCHANGED libraryVars
  BY <1>2 DEF libraryVars
<1> QED BY <1>1, <1>2

LEMMA PartsInit ==
    LibraryInit => /\ ReceiptInit /\ ClientsInit /\ FramingInit /\ RingInit /\ LoggingInit
                   /\ ThreadsInit /\ LifeInit /\ HelpersInit /\ MergeInit
BY DEF LibraryInit

\* The variables of a client have their types; where a client is in its loop is that
\* of ClientInv.
ClientsTyped == ClientInv /\ ClientsTypeOK

\* What a receive and a send keep.
NetTyped ==
    /\ buffered \in [Connections -> {"nothing", "part"}]
    /\ server \in [Connections -> {"idle", "owes", "final", "ended"}]
    /\ answer \in [Connections -> {"nothing", "response", "ERROR"}]
    /\ DOMAIN inbound = Connections
    /\ \A i \in Connections : inbound[i] \in Seq({"part", "response", "ERROR"})
FdsTyped ==
    /\ sockFd \in [Connections -> {Closed} \cup {Fd(i) : i \in Connections}]
    /\ pollFd \in [Connections -> {Closed, Stdin} \cup {Fd(i) : i \in Connections}]
    /\ servermsgInd \in [Connections -> BOOLEAN]
PlaceTyped ==
    /\ program \in {"myclient", "dbclient", "bankclient"}
    /\ clientPc \in {"validate", "connect", "send", "wait", "complete", "close", "prompt", "answer", "end",
                     "done", "exited"}

LEMMA ServerTexts ==
    /\ <<>> \in Seq({"part", "response", "ERROR"})
    /\ \A m \in {"response", "ERROR"} : <<"part", m>> \in Seq({"part", "response", "ERROR"})
    /\ \A s \in Seq({"part", "response", "ERROR"}) :
          s # <<>> => Tail(s) \in Seq({"part", "response", "ERROR"}) /\ s[Len(s)] \in {"part", "response", "ERROR"}
<1>1. <<>> \in Seq({"part", "response", "ERROR"})
  BY EmptySeq
<1>2. ASSUME NEW m \in {"response", "ERROR"} PROVE <<"part", m>> \in Seq({"part", "response", "ERROR"})
  OBVIOUS
<1>3. ASSUME NEW s \in Seq({"part", "response", "ERROR"}), s # <<>>
      PROVE  Tail(s) \in Seq({"part", "response", "ERROR"}) /\ s[Len(s)] \in {"part", "response", "ERROR"}
  BY <1>3, HeadTailProperties, LenProperties, EmptySeq
<1> QED BY <1>1, <1>2, <1>3

LEMMA ClientsInitTyped == ClientsInit => ClientsTyped
<1> SUFFICES ASSUME ClientsInit PROVE ClientsTypeOK
  BY ClientsInitInv DEF ClientsTyped
<1>1. 1 \in Connections
  BY ClientsAssumption DEF ClientsAssumption, Connections
<1>2. \A i \in Connections : inbound[i] \in Seq({"part", "response", "ERROR"})
  BY ServerTexts DEF ClientsInit
<1> QED BY <1>1, <1>2 DEF ClientsInit, ClientsTypeOK, Allocated

LEMMA NetStep ==
    ASSUME NetTyped, NEW i \in Connections
    PROVE  /\ (TakesPart(i) => NetTyped')
           /\ (\A m \in {"response", "ERROR"} : TakesMessage(i, m) => NetTyped')
           /\ (TakesEnd(i) => NetTyped')
           /\ (\A due \in {"owes", "final"} : Delivers(i, due) => NetTyped')
           /\ (UNCHANGED netVars => NetTyped')
<1>1. TakesPart(i) => NetTyped'
  BY ServerTexts DEF NetTyped, TakesPart
<1>2. ASSUME NEW m \in {"response", "ERROR"}, TakesMessage(i, m) PROVE NetTyped'
  BY <1>2, ServerTexts DEF NetTyped, TakesMessage
<1>3. TakesEnd(i) => NetTyped'
  BY DEF NetTyped, TakesEnd, serverVars
<1>4. ASSUME NEW due \in {"owes", "final"}, Delivers(i, due) PROVE NetTyped'
  BY <1>4 DEF NetTyped, Delivers
<1>5. UNCHANGED netVars => NetTyped'
  BY DEF NetTyped, netVars, serverVars
<1> QED BY <1>1, <1>2, <1>3, <1>4, <1>5

LEMMA FdsStep ==
    ASSUME FdsTyped, NEW i \in Connections
    PROVE  /\ (Disconnects(i) => FdsTyped')
           /\ (NetTyped /\ Connects(i) => FdsTyped' /\ NetTyped')
           /\ (UNCHANGED fdVars => FdsTyped')
           /\ (sockFd' = [sockFd EXCEPT ![i] = Closed] /\ UNCHANGED <<pollFd, servermsgInd>> => FdsTyped')
           /\ (pollFd' = [pollFd EXCEPT ![i] = Closed] /\ UNCHANGED <<sockFd, servermsgInd>> => FdsTyped')
           /\ (servermsgInd' = [servermsgInd EXCEPT ![i] = TRUE] /\ UNCHANGED <<sockFd, pollFd>> => FdsTyped')
<1>1. Disconnects(i) => FdsTyped'
  BY DEF FdsTyped, Disconnects
<1>2. ASSUME NetTyped, Connects(i) PROVE FdsTyped' /\ NetTyped'
  BY <1>2, ServerTexts DEF FdsTyped, NetTyped, Connects
<1>3. UNCHANGED fdVars => FdsTyped'
  BY DEF FdsTyped, fdVars
<1>4. sockFd' = [sockFd EXCEPT ![i] = Closed] /\ UNCHANGED <<pollFd, servermsgInd>> => FdsTyped'
  BY DEF FdsTyped
<1>5. pollFd' = [pollFd EXCEPT ![i] = Closed] /\ UNCHANGED <<sockFd, servermsgInd>> => FdsTyped'
  BY DEF FdsTyped
<1>6. servermsgInd' = [servermsgInd EXCEPT ![i] = TRUE] /\ UNCHANGED <<sockFd, pollFd>> => FdsTyped'
  BY DEF FdsTyped
<1> QED BY <1>1, <1>2, <1>3, <1>4, <1>5, <1>6

\* Every step of a client or of the server at the other end.
LEMMA ClientsStepTyped ==
    ClientsTyped /\ [ClientsNext]_clientVars => ClientsTyped'
<1> SUFFICES ASSUME ClientsTyped, [ClientsNext]_clientVars PROVE ClientsTyped'
  OBVIOUS
<1>0. /\ NetTyped /\ FdsTyped /\ PlaceTyped /\ index \in Connections /\ 1 \in Connections
      /\ ClientInv /\ ClientInv'
  BY ClientsStepInv, ClientsAssumption
     DEF ClientsTyped, ClientsTypeOK, ClientInv, Arrays, NetTyped, FdsTyped, PlaceTyped, ClientsAssumption,
         Connections
<1>1. index' \in Connections /\ DOMAIN inbound' = Connections
  BY <1>0 DEF ClientInv, LoopAt, Arrays
<1>2. SUFFICES NetTyped' /\ FdsTyped' /\ PlaceTyped'
  BY <1>0, <1>1 DEF ClientsTyped, ClientsTypeOK, NetTyped, FdsTyped, PlaceTyped
<1> USE <1>0
<1>3. ASSUME ConnectAll \/ PeerConnect PROVE NetTyped' /\ FdsTyped' /\ PlaceTyped'
  <2>1. PlaceTyped'
    BY <1>3 DEF ConnectAll, PeerConnect, PlaceTyped, Turn, Stays
  <2>2. Connects(index) \/ Connects(1) \/ (Disconnects(index) /\ UNCHANGED netVars)
        \/ UNCHANGED <<fdVars, netVars>>
    BY <1>3 DEF ConnectAll, PeerConnect
  <2> QED BY <2>1, <2>2, FdsStep, NetStep
<1>4. ASSUME SendInitial PROVE NetTyped' /\ FdsTyped' /\ PlaceTyped'
  <2>1. PlaceTyped'
    BY <1>4 DEF SendInitial, PlaceTyped, Turn, SendKills
  <2>2. \/ UNCHANGED <<fdVars, netVars>>
        \/ /\ Delivers(index, "owes")
           /\ servermsgInd' = [servermsgInd EXCEPT ![index] = TRUE] /\ UNCHANGED <<sockFd, pollFd>>
        \/ UNCHANGED netVars /\ Disconnects(index)
    BY <1>4 DEF SendInitial, ConnectionReset, SendKills
  <2> QED BY <2>1, <2>2, FdsStep, NetStep
<1>5. ASSUME EndWait PROVE NetTyped' /\ FdsTyped' /\ PlaceTyped'
  <2>1. PlaceTyped' /\ UNCHANGED fdVars /\ UNCHANGED netVars
    BY <1>5 DEF EndWait, PlaceTyped, Stays
  <2> QED BY <2>1, FdsStep, NetStep
<1>6. ASSUME SendCompletion PROVE NetTyped' /\ FdsTyped' /\ PlaceTyped'
  <2>1. PlaceTyped'
    BY <1>6 DEF SendCompletion, PlaceTyped, Turn, SendKills
  <2>2. \/ UNCHANGED <<fdVars, netVars>>
        \/ Delivers(index, "final") /\ UNCHANGED fdVars
        \/ UNCHANGED netVars /\ Disconnects(index)
    BY <1>6 DEF SendCompletion, ConnectionReset, SendKills
  <2> QED BY <2>1, <2>2, FdsStep, NetStep
<1>7. ASSUME WaitClose PROVE NetTyped' /\ FdsTyped' /\ PlaceTyped'
  <2>1. PlaceTyped'
    BY <1>7 DEF WaitClose, PlaceTyped, Turn
  <2>2. NetTyped'
    BY <1>7 DEF WaitClose, NetTyped, serverVars
  <2>3. FdsTyped'
    BY <1>7 DEF WaitClose, FdsTyped, Allocated
  <2> QED BY <2>1, <2>2, <2>3
<1>8. ASSUME NEW i \in Connections, RecvResponse(i) PROVE NetTyped' /\ FdsTyped' /\ PlaceTyped'
  <2>1. PlaceTyped'
    BY <1>8 DEF RecvResponse, PlaceTyped, Stays
  <2>2. \/ TakesPart(i) /\ UNCHANGED fdVars
        \/ /\ TakesMessage(i, "response")
           /\ pollFd' = [pollFd EXCEPT ![i] = Closed] /\ UNCHANGED <<sockFd, servermsgInd>>
        \/ TakesMessage(i, "ERROR") /\ Disconnects(i)
        \/ TakesEnd(i) /\ Disconnects(i)
    BY <1>8 DEF RecvResponse
  <2> QED BY <2>1, <2>2, FdsStep, NetStep
<1>9. ASSUME ValidateInput \/ ValidatePeerInput PROVE NetTyped' /\ FdsTyped' /\ PlaceTyped'
  <2>1. PlaceTyped' /\ UNCHANGED fdVars /\ UNCHANGED netVars
    BY <1>9 DEF ValidateInput, ValidatePeerInput, Validated, PlaceTyped, Stays
  <2> QED BY <2>1, FdsStep, NetStep
<1>10. ASSUME Reconnect PROVE NetTyped' /\ FdsTyped' /\ PlaceTyped'
  <2>1. PlaceTyped' /\ (Connects(1) \/ (Disconnects(1) /\ UNCHANGED netVars))
    BY <1>10 DEF Reconnect, PlaceTyped, Stays
  <2> QED BY <2>1, FdsStep, NetStep
<1>11. ASSUME Command \/ PeerCommand PROVE NetTyped' /\ FdsTyped' /\ PlaceTyped'
  <2>1. PlaceTyped'
    BY <1>11 DEF Command, PeerCommand, Quits, SendsCommand, SendKills, PlaceTyped, Stays
  <2>2. /\ UNCHANGED fdVars
        /\ UNCHANGED netVars \/ \E due \in {"owes", "final"} : Delivers(1, due)
    BY <1>11 DEF Command, PeerCommand, Quits, SendsCommand, ConnectionReset, SendKills
  <2> QED BY <2>1, <2>2, FdsStep, NetStep
<1>12. ASSUME RecvAnswer \/ PeerAnswer PROVE NetTyped' /\ FdsTyped' /\ PlaceTyped'
  <2>1. PlaceTyped'
    BY <1>12 DEF RecvAnswer, PeerAnswer, PlaceTyped, Stays
  <2>2. /\ \/ UNCHANGED fdVars
           \/ sockFd' = [sockFd EXCEPT ![1] = Closed] /\ UNCHANGED <<pollFd, servermsgInd>>
        /\ TakesPart(1) \/ TakesMessage(1, "response") \/ TakesMessage(1, "ERROR") \/ TakesEnd(1)
    BY <1>12 DEF RecvAnswer, PeerAnswer, fdVars
  <2> QED BY <2>1, <2>2, FdsStep, NetStep
<1>13. ASSUME EndMain \/ EndClient PROVE NetTyped' /\ FdsTyped' /\ PlaceTyped'
  <2>1. /\ PlaceTyped' /\ UNCHANGED netVars
        /\ sockFd' = [sockFd EXCEPT ![1] = Closed] /\ UNCHANGED <<pollFd, servermsgInd>>
    BY <1>13 DEF EndMain, EndClient, PlaceTyped, Stays
  <2> QED BY <2>1, FdsStep, NetStep
<1>14. ASSUME NEW i \in Connections, ServerStep(i) PROVE NetTyped' /\ FdsTyped' /\ PlaceTyped'
  <2>1. PlaceTyped' /\ UNCHANGED fdVars
    BY <1>14 DEF ServerStep, AnswerClient, EndConnection, PlaceTyped
  <2>2. NetTyped'
    <3>1. CASE AnswerClient(i)
      <4>1. PICK m \in {"response", "ERROR"} : inbound' = [inbound EXCEPT ![i] = <<"part", m>>]
        BY <3>1 DEF AnswerClient
      <4>2. \A j \in Connections : inbound'[j] = inbound[j] \/ inbound'[j] = <<"part", m>>
        BY <4>1 DEF NetTyped
      <4>3. \A j \in Connections : inbound'[j] \in Seq({"part", "response", "ERROR"})
        BY ZenonT(60), <4>2, ServerTexts DEF NetTyped
      <4> QED BY <3>1, <4>1, <4>3 DEF AnswerClient, NetTyped
    <3>2. CASE EndConnection(i)
      BY <3>2, ServerTexts DEF EndConnection, NetTyped
    <3> QED BY <1>14, <3>1, <3>2 DEF ServerStep
  <2> QED BY <2>1, <2>2, FdsStep
<1>15. CASE UNCHANGED clientVars
  <2>1. PlaceTyped' /\ UNCHANGED fdVars /\ UNCHANGED netVars
    BY <1>15 DEF clientVars, PlaceTyped
  <2> QED BY <2>1, FdsStep, NetStep
<1> QED
  BY <1>3, <1>4, <1>5, <1>6, <1>7, <1>8, <1>9, <1>10, <1>11, <1>12, <1>13, <1>14, <1>15
     DEF ClientsNext, Automatic, Interactive

\* Every variable of the receipts and of the clients has its type, for any number of
\* programs and of connections (receipt.c:77-168, myclient.c:66-253).
THEOREM LibraryTypesKept == LibrarySpec => []LibraryTypeOK
<1>1. LibraryInit => ReceiptInv /\ ClientsTyped
  BY PartsInit, ReceiptInitInv, ClientsInitTyped
<1>2. (ReceiptInv /\ ClientsTyped) /\ [LibraryNext]_libraryVars => (ReceiptInv /\ ClientsTyped)'
  BY PartsStep, ReceiptStepInv, ClientsStepTyped
<1>3. ReceiptInv /\ ClientsTyped => LibraryTypeOK
  BY DEF ReceiptInv, ClientsTyped, LibraryTypeOK
<1> QED BY <1>1, <1>2, <1>3, PTL DEF LibrarySpec

\* Side by side, a part does what it does by itself (MCLibrary).
THEOREM PartsBehave ==
    LibrarySpec => /\ ReceiptSpec /\ FramingSpec /\ RingSpec /\ LoggingSpec /\ ThreadsSpec /\ LifeSpec
                   /\ HelpersSpec
<1>1. LibrarySpec => ReceiptSpec
  BY PartsInit, PartsStep, PTL DEF LibrarySpec, ReceiptSpec
<1>2. LibrarySpec => FramingSpec
  BY PartsInit, PartsStep, PTL DEF LibrarySpec, FramingSpec
<1>3. LibrarySpec => RingSpec
  BY PartsInit, PartsStep, PTL DEF LibrarySpec, RingSpec
<1>4. LibrarySpec => LoggingSpec
  BY PartsInit, PartsStep, PTL DEF LibrarySpec, LoggingSpec
<1>5. LibrarySpec => ThreadsSpec
  BY PartsInit, PartsStep, PTL DEF LibrarySpec, ThreadsSpec
<1>6. LibrarySpec => LifeSpec
  BY PartsInit, PartsStep, PTL DEF LibrarySpec, LifeSpec
<1>7. LibrarySpec => HelpersSpec
  BY PartsInit, PartsStep, PTL DEF LibrarySpec, HelpersSpec
<1> QED BY <1>1, <1>2, <1>3, <1>4, <1>5, <1>6, <1>7

\* What holds of each part holds of the parts side by side, which the run checks
\* (receipt.c, cyclicstr.c, logcmds.c, thrinfo.c, msglenrtns.c, lockfilertns.c,
\* ccchecksum.c, myclient.c, mergegcov.c).
THEOREM LibrarySafe ==
    LibrarySpec => [](/\ ReceiptSafe /\ MessagesInOrder /\ LogLineIntact /\ CommandTakesEffect
                      /\ NamesFound /\ OneServerReached /\ HelpersAgree /\ ClientSafe /\ MergeIsUnion)
<1>1. LibrarySpec => [](/\ ReceiptSafe /\ MessagesInOrder /\ LogLineIntact /\ CommandTakesEffect
                        /\ NamesFound /\ OneServerReached /\ HelpersAgree)
  BY PartsBehave, ReceiptsSafe, FramingKeepsOrder, RingIntact, CommandsTakeEffect, ThreadNamesFound,
     OneServerRuns, HelpersReturnWhatTheyPromise, PTL
<1>2. LibrarySpec => []ClientSafe
  <2>1. LibraryInit => ClientInv
    BY PartsInit, ClientsInitInv
  <2>2. ClientInv /\ [LibraryNext]_libraryVars => ClientInv'
    BY PartsStep, ClientsStepInv
  <2> QED BY <2>1, <2>2, ClientInvSafe, PTL DEF LibrarySpec
<1>3. LibrarySpec => []MergeIsUnion
  <2>1. LibraryInit => MergeInv
    BY PartsInit, MergeInvInit
  <2>2. MergeInv /\ [LibraryNext]_libraryVars => MergeInv'
    BY PartsStep, MergeInvStep
  <2>3. MergeInv => MergeIsUnion
    BY DEF MergeInv
  <2> QED BY <2>1, <2>2, <2>3, PTL DEF LibrarySpec
<1> QED BY <1>1, <1>2, <1>3, PTL
=============================================================================
