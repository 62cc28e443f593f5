----------------------------- MODULE TcpipProof -----------------------------
(***************************************************************************)
(* Proofs about the tcpip thread, its mailbox and its timeout list: the    *)
(* mailbox is a bounded queue whose wake-ups are not lost, and the list of *)
(* relative times says when each timeout is due.                           *)
(***************************************************************************)
EXTENDS Tcpip, FiniteSetTheorems, SequenceTheorems, WellFoundedInduction, TLAPS

-----------------------------------------------------------------------------
(***************************************************************************)
(* Induction, over sets of naturals.                                       *)
(***************************************************************************)
\* A set of naturals that is not empty has a least element.
LEMMA LeastNatural ==
  ASSUME NEW T \in SUBSET Nat, T # {}
  PROVE  \E x \in T : \A y \in T : x <= y
<1>1. IsWellFoundedOn(OpToRel(<, Nat), Nat)
  BY NatLessThanWellFounded, Zenon
<1>2. \E x \in T : \A y \in T : ~ (<<y, x>> \in OpToRel(<, Nat))
  BY <1>1, WFMin, Zenon
<1>3. PICK x \in T : \A y \in T : ~ (<<y, x>> \in OpToRel(<, Nat))
  BY <1>2
<1>4. \A y \in T : ~(y < x)
  BY <1>3 DEF OpToRel
<1> QED
  BY <1>4

\* A set that has 0 and the successor of each natural in it has them all.
LEMMA SetInduction ==
  ASSUME NEW S, 0 \in S, \A n \in Nat : n \in S => n + 1 \in S
  PROVE  Nat \subseteq S
<1> DEFINE T == Nat \ S
<1> SUFFICES ASSUME T # {} PROVE FALSE
  OBVIOUS
<1>1. PICK x \in T : \A y \in T : x <= y
  BY LeastNatural
<1>2. x # 0 /\ x \in Nat /\ x - 1 \in Nat
  OBVIOUS
<1>3. x - 1 \in S
  BY <1>1, <1>2
<1> QED
  BY <1>2, <1>3

-----------------------------------------------------------------------------
(***************************************************************************)
(* Sequences.                                                              *)
(***************************************************************************)
\* A function on 1 .. n is a sequence of length n.
LEMMA FunctionIsSeq ==
  ASSUME NEW S, NEW n \in Nat, NEW f \in [1 .. n -> S]
  PROVE  f \in Seq(S) /\ Len(f) = n
OBVIOUS

\* The parts of a sequence with one element put between two others.
LEMMA JoinFacts ==
  ASSUME NEW S, NEW a \in Seq(S), NEW e \in S, NEW b \in Seq(S)
  PROVE  /\ a \o <<e>> \o b \in Seq(S)
         /\ Len(a \o <<e>> \o b) = Len(a) + 1 + Len(b)
         /\ \A i \in 1 .. Len(a) : (a \o <<e>> \o b)[i] = a[i]
         /\ (a \o <<e>> \o b)[Len(a) + 1] = e
         /\ \A i \in 1 .. Len(b) : (a \o <<e>> \o b)[Len(a) + 1 + i] = b[i]
<1> DEFINE c == a \o <<e>>
<1>1. /\ c \in Seq(S) /\ Len(c) = Len(a) + 1
      /\ \A i \in 1 .. Len(a) : c[i] = a[i]
      /\ c[Len(a) + 1] = e
  OBVIOUS
<1> HIDE DEF c
<1>2. /\ c \o b \in Seq(S) /\ Len(c \o b) = Len(c) + Len(b)
      /\ \A i \in 1 .. Len(c) + Len(b) :
           (c \o b)[i] = IF i <= Len(c) THEN c[i] ELSE b[i - Len(c)]
  BY <1>1, ConcatProperties
<1> QED
  BY <1>1, <1>2 DEF c

-----------------------------------------------------------------------------
(***************************************************************************)
(* The timeout list: when an entry is due.                                 *)
(***************************************************************************)
Sums(f, q, k) ==
  f = [i \in 0 .. k |-> IF i = 0 THEN 0 ELSE f[i - 1] + q[i].time]

\* The sums of the times in front of each entry exist.
LEMMA SumsExist ==
  ASSUME NEW q
  PROVE  \A k \in Nat : \E f : Sums(f, q, k)
<1> DEFINE S == {k \in Nat : \E f : Sums(f, q, k)}
<1>1. 0 \in S
  <2>1. Sums([i \in 0 .. 0 |-> 0], q, 0)
    BY DEF Sums
  <2> QED BY <2>1
<1>2. ASSUME NEW n \in Nat, n \in S PROVE n + 1 \in S
  <2>1. PICK f : Sums(f, q, n)
    BY <1>2
  <2> DEFINE g == [i \in 0 .. n + 1 |->
                     IF i = n + 1 THEN f[n] + q[n + 1].time ELSE f[i]]
  <2>2. ASSUME NEW i \in 0 .. n + 1
        PROVE  g[i] = IF i = 0 THEN 0 ELSE g[i - 1] + q[i].time
    BY <2>1 DEF Sums
  <2>3. Sums(g, q, n + 1)
    BY <2>2 DEF Sums
  <2> QED BY <2>3
<1> HIDE DEF S
<1>3. Nat \subseteq S
  BY <1>1, <1>2, SetInduction
<1> QED
  BY <1>3 DEF S

\* Sums of the same times agree.
LEMMA SumsAgree ==
  ASSUME NEW q, NEW p, NEW k \in Nat, NEW m \in Nat, NEW f, NEW g,
         Sums(f, q, k), Sums(g, p, m), NEW n \in Nat, n <= k, n <= m,
         \A i \in 1 .. n : q[i].time = p[i].time
  PROVE  f[n] = g[n]
<1> DEFINE S == {i \in Nat : i <= n => f[i] = g[i]}
<1>1. 0 \in S
  BY DEF Sums
<1>2. ASSUME NEW i \in Nat, i \in S PROVE i + 1 \in S
  <2> SUFFICES ASSUME i + 1 <= n PROVE f[i + 1] = g[i + 1]
    OBVIOUS
  <2>1. f[i] = g[i] /\ q[i + 1].time = p[i + 1].time
    BY <1>2
  <2>2. f[i + 1] = f[i] + q[i + 1].time
    BY DEF Sums
  <2>3. g[i + 1] = g[i] + p[i + 1].time
    BY DEF Sums
  <2> QED BY <2>1, <2>2, <2>3
<1> HIDE DEF S
<1>3. Nat \subseteq S
  BY <1>1, <1>2, SetInduction
<1> QED
  BY <1>3 DEF S

\* Due is the last of the sums.
LEMMA DueIsSum ==
  ASSUME NEW q, NEW k \in Nat
  PROVE  \E f : Sums(f, q, k) /\ Due(q, k) = f[k]
<1> DEFINE f == CHOOSE g : g = [i \in 0 .. k |-> IF i = 0 THEN 0 ELSE g[i - 1] + q[i].time]
<1>1. \E g : g = [i \in 0 .. k |-> IF i = 0 THEN 0 ELSE g[i - 1] + q[i].time]
  BY SumsExist DEF Sums
<1>2. Sums(f, q, k)
  BY <1>1 DEF Sums
<1>3. Due(q, k) = f[k]
  BY DEF Due
<1> QED
  BY <1>2, <1>3

\* An entry is due its own time after the one before it.
LEMMA DueNext ==
  ASSUME NEW q
  PROVE  /\ Due(q, 0) = 0
         /\ \A k \in Nat \ {0} : Due(q, k) = Due(q, k - 1) + q[k].time
<1>1. Due(q, 0) = 0
  BY DueIsSum DEF Sums
<1>2. ASSUME NEW k \in Nat \ {0}
      PROVE  Due(q, k) = Due(q, k - 1) + q[k].time
  <2>1. PICK f : Sums(f, q, k) /\ Due(q, k) = f[k]
    BY DueIsSum
  <2>2. PICK g : Sums(g, q, k - 1) /\ Due(q, k - 1) = g[k - 1]
    BY DueIsSum
  <2>3. f[k] = f[k - 1] + q[k].time
    BY <2>1 DEF Sums
  <2>4. f[k - 1] = g[k - 1]
    BY <2>1, <2>2, SumsAgree
  <2> QED BY <2>1, <2>2, <2>3, <2>4
<1> QED
  BY <1>1, <1>2

\* The due time depends on the times up to the entry only.
LEMMA DueLocal ==
  ASSUME NEW q, NEW p, NEW n \in Nat, \A i \in 1 .. n : q[i].time = p[i].time
  PROVE  Due(q, n) = Due(p, n)
<1>1. PICK f : Sums(f, q, n) /\ Due(q, n) = f[n]
  BY DueIsSum
<1>2. PICK g : Sums(g, p, n) /\ Due(p, n) = g[n]
  BY DueIsSum
<1> QED
  BY <1>1, <1>2, SumsAgree

Timer == Handlers \cup {"tcp"}

Entry == [h : Timer, time : Nat]

\* What an entry of a list is.
LEMMA EntryType ==
  ASSUME NEW q \in Seq(Entry), NEW k \in 1 .. Len(q)
  PROVE  q[k] \in Entry /\ q[k].time \in Nat /\ q[k].h \in Timer
<1>1. q[k] \in Entry
  OBVIOUS
<1> QED
  BY <1>1 DEF Entry

\* Due times are naturals.
LEMMA DueNat ==
  ASSUME NEW q \in Seq(Entry)
  PROVE  \A k \in 0 .. Len(q) : Due(q, k) \in Nat
<1> DEFINE S == {k \in Nat : k <= Len(q) => Due(q, k) \in Nat}
<1>1. 0 \in S
  BY DueNext
<1>2. ASSUME NEW k \in Nat, k \in S PROVE k + 1 \in S
  <2> SUFFICES ASSUME k + 1 <= Len(q) PROVE Due(q, k + 1) \in Nat
    OBVIOUS
  <2>1. Due(q, k + 1) = Due(q, k) + q[k + 1].time
    BY DueNext
  <2>2. q[k + 1].time \in Nat
    BY EntryType
  <2> QED BY <1>2, <2>1, <2>2
<1> HIDE DEF S
<1>3. Nat \subseteq S
  BY <1>1, <1>2, SetInduction
<1> QED
  BY <1>3 DEF S

\* Two lists that differ by d in one due time differ by d in all later ones,
\* if their times agree from there on.
LEMMA DueShift ==
  ASSUME NEW q \in Seq(Entry), NEW p \in Seq(Entry), NEW a \in 0 .. Len(q),
         NEW b \in 0 .. Len(p), NEW d \in Int, Due(p, b) = Due(q, a) + d,
         NEW n \in Nat, a + n <= Len(q), b + n <= Len(p),
         \A i \in 1 .. n : q[a + i].time = p[b + i].time
  PROVE  Due(p, b + n) = Due(q, a + n) + d
<1> DEFINE S == {i \in Nat : i <= n => Due(p, b + i) = Due(q, a + i) + d}
<1>1. 0 \in S
  OBVIOUS
<1>2. ASSUME NEW i \in Nat, i \in S PROVE i + 1 \in S
  <2> SUFFICES ASSUME i + 1 <= n
               PROVE  Due(p, b + (i + 1)) = Due(q, a + (i + 1)) + d
    OBVIOUS
  <2>1. Due(p, b + i) = Due(q, a + i) + d
    BY <1>2
  <2>2. Due(p, b + (i + 1)) = Due(p, b + i) + p[b + (i + 1)].time
    BY DueNext
  <2>3. Due(q, a + (i + 1)) = Due(q, a + i) + q[a + (i + 1)].time
    BY DueNext
  <2>4. q[a + (i + 1)].time = p[b + (i + 1)].time
    <3>1. i + 1 \in 1 .. n
      OBVIOUS
    <3> QED BY <3>1
  <2>5. Due(q, a + i) \in Nat /\ q[a + (i + 1)].time \in Nat
    BY DueNat, EntryType
  <2> QED BY <2>1, <2>2, <2>3, <2>4, <2>5
<1> HIDE DEF S
<1>3. Nat \subseteq S
  BY <1>1, <1>2, SetInduction
<1> QED
  BY <1>3 DEF S

\* sys_timeout finds the place of a new entry.
LEMMA PlaceExists ==
  ASSUME NEW q \in Seq(Entry), NEW msecs \in Nat
  PROVE  \E k \in 0 .. Len(q) : GoesBehind(q, msecs, k)
<1> DEFINE T == {k \in 0 .. Len(q) : k < Len(q) => Due(q, k + 1) > msecs}
<1>1. Len(q) \in T /\ T \in SUBSET Nat
  OBVIOUS
<1>2. PICK k \in T : \A j \in T : k <= j
  BY <1>1, LeastNatural
<1>3. ASSUME NEW i \in 1 .. k PROVE Due(q, i) <= msecs
  <2>1. i - 1 \notin T
    <3>1. k \in Nat /\ i \in 1 .. k /\ ~(k <= i - 1)
      BY <1>1
    <3> QED BY <1>2, <3>1
  <2>2. i - 1 \in 0 .. Len(q) /\ i - 1 < Len(q) /\ ~(Due(q, (i - 1) + 1) > msecs)
    BY <2>1
  <2>3. Due(q, i) \in Nat
    BY DueNat
  <2> QED BY <2>2, <2>3
<1>4. GoesBehind(q, msecs, k)
  BY <1>2, <1>3 DEF GoesBehind
<1> QED
  BY <1>4

\* The list with entry e behind its first k entries: whatever is behind e keeps
\* its due time, because the entry next to e gives up e's time.
LEMMA InsertDue ==
  ASSUME NEW q \in Seq(Entry), NEW k \in 0 .. Len(q), NEW e \in Entry,
         k < Len(q) => e.time <= q[k + 1].time
  PROVE  LET p == InsertBehind(q, e, k) IN
         /\ p \in Seq(Entry) /\ Len(p) = Len(q) + 1
         /\ p[k + 1].h = e.h /\ Due(p, k + 1) = Due(q, k) + e.time
         /\ \A i \in 1 .. k : p[i].h = q[i].h /\ Due(p, i) = Due(q, i)
         /\ \A i \in k + 1 .. Len(q) :
              p[i + 1].h = q[i].h /\ Due(p, i + 1) = Due(q, i)
<1> DEFINE front == SubSeq(q, 1, k)
           back == [i \in 1 .. Len(q) - k |->
                      IF i = 1 THEN [q[k + 1] EXCEPT !.time = @ - e.time] ELSE q[k + i]]
           p == InsertBehind(q, e, k)
<1>1. front \in Seq(Entry) /\ Len(front) = k /\ \A i \in 1 .. k : front[i] = q[i]
  OBVIOUS
<1>2. back \in Seq(Entry) /\ Len(back) = Len(q) - k
  <2>1. ASSUME NEW i \in 1 .. Len(q) - k PROVE back[i] \in Entry
    <3>1. CASE i = 1
      <4>1. q[k + 1] \in Entry /\ k < Len(q)
        BY <3>1, EntryType
      <4>2. q[k + 1].time - e.time \in Nat
        BY <4>1 DEF Entry
      <4> QED BY <3>1, <4>1, <4>2 DEF Entry
    <3>2. CASE i # 1
      BY <3>2, EntryType
    <3> QED BY <3>1, <3>2
  <2>2. Len(q) - k \in Nat
    OBVIOUS
  <2>3. back \in [1 .. Len(q) - k -> Entry]
    BY <2>1
  <2> HIDE DEF back
  <2> QED BY <2>2, <2>3, FunctionIsSeq
<1>3. p = front \o <<e>> \o back
  BY DEF InsertBehind
<1> HIDE DEF front, back, p
<1>4. /\ p \in Seq(Entry) /\ Len(p) = Len(q) + 1
      /\ p[k + 1] = e
      /\ \A i \in 1 .. k : p[i] = q[i]
      /\ \A i \in k + 1 .. Len(q) : p[i + 1] = back[i - k]
  <2>1. \A i \in 1 .. Len(q) - k : p[k + 1 + i] = back[i]
    BY <1>1, <1>2, <1>3, JoinFacts
  <2>2. ASSUME NEW i \in k + 1 .. Len(q) PROVE p[i + 1] = back[i - k]
    <3>1. i - k \in 1 .. Len(q) - k /\ k + 1 + (i - k) = i + 1
      OBVIOUS
    <3> QED BY <2>1, <3>1
  <2>3. p \in Seq(Entry) /\ Len(p) = Len(front) + 1 + Len(back) /\ p[Len(front) + 1] = e
    <3>1. front \in Seq(Entry) /\ back \in Seq(Entry)
      BY <1>1, <1>2
    <3>2. p \in Seq(Entry)
      BY <1>3, <3>1, JoinFacts
    <3>3. Len(p) = Len(front) + 1 + Len(back)
      BY <1>3, <3>1, JoinFacts
    <3>4. p[Len(front) + 1] = e
      BY <1>3, <3>1, JoinFacts
    <3> QED BY <3>2, <3>3, <3>4
  <2>4. \A i \in 1 .. k : p[i] = q[i]
    BY <1>1, <1>2, <1>3, JoinFacts
  <2> QED BY <1>1, <1>2, <2>2, <2>3, <2>4
<1>5. k < Len(q) => /\ back[1].h = q[k + 1].h
                    /\ back[1].time = q[k + 1].time - e.time
  <2> SUFFICES ASSUME k < Len(q)
               PROVE  back[1].h = q[k + 1].h /\ back[1].time = q[k + 1].time - e.time
    OBVIOUS
  <2>1. q[k + 1] \in Entry
    BY EntryType
  <2>2. back[1] = [q[k + 1] EXCEPT !.time = @ - e.time]
    BY DEF back
  <2> QED BY <2>1, <2>2 DEF Entry
<1>6. \A i \in k + 2 .. Len(q) : back[i - k] = q[i]
  BY DEF back
<1>7. \A i \in 0 .. k : Due(p, i) = Due(q, i)
  <2>1. ASSUME NEW i \in 0 .. k PROVE Due(p, i) = Due(q, i)
    <3>1. \A j \in 1 .. i : p[j].time = q[j].time
      BY <1>4
    <3> QED BY <3>1, DueLocal
  <2> QED BY <2>1
<1>8. Due(p, k + 1) = Due(q, k) + e.time
  <2>1. Due(p, k + 1) = Due(p, (k + 1) - 1) + p[k + 1].time
    BY DueNext
  <2> QED BY <1>4, <1>7, <2>1
<1>9. ASSUME NEW i \in k + 1 .. Len(q)
      PROVE  p[i + 1].h = q[i].h /\ Due(p, i + 1) = Due(q, i)
  <2>1. k < Len(q) /\ k + 1 \in 1 .. Len(q) /\ k + 2 \in 1 .. Len(p)
    BY <1>4
  <2>2. p[k + 2].time = q[k + 1].time - e.time /\ p[k + 2].h = q[k + 1].h
    BY <1>4, <1>5, <2>1
  <2>3. q[k + 1].time \in Nat /\ e.time \in Nat /\ Due(q, k) \in Nat
    BY <2>1, EntryType, DueNat DEF Entry
  <2>4. Due(p, k + 2) = Due(p, k + 1) + p[k + 2].time
    BY DueNext
  <2>5. Due(q, k + 1) = Due(q, k) + q[k + 1].time
    BY DueNext
  <2>6. Due(p, k + 2) = Due(q, k + 1) + 0
    BY <1>8, <2>2, <2>3, <2>4, <2>5
  <2>7. PICK n \in Nat : n = i - (k + 1)
    OBVIOUS
  <2>8. ASSUME NEW j \in 1 .. n
        PROVE  q[(k + 1) + j].time = p[(k + 2) + j].time
    <3>1. (k + 1) + j \in k + 2 .. Len(q)
      BY <2>7
    <3>2. ((k + 1) + j) + 1 = (k + 2) + j
      OBVIOUS
    <3> QED BY <1>4, <1>6, <3>1, <3>2
  <2>9. Due(p, i + 1) = Due(q, i) + 0
    <3> DEFINE a == k + 1
               b == k + 2
    <3>1. /\ a \in 0 .. Len(q) /\ b \in 0 .. Len(p) /\ a + n = i /\ b + n = i + 1
          /\ a + n <= Len(q) /\ b + n <= Len(p)
      BY <1>4, <2>7
    <3>2. Due(p, b) = Due(q, a) + 0 /\ \A j \in 1 .. n : q[a + j].time = p[b + j].time
      BY <2>6, <2>8
    <3>3. p \in Seq(Entry) /\ 0 \in Int
      BY <1>4
    <3> HIDE DEF a, b
    <3>4. Due(p, b + n) = Due(q, a + n) + 0
      BY <3>1, <3>2, <3>3, DueShift
    <3> QED BY <3>1, <3>4
  <2>10. Due(q, i) \in Nat
    BY DueNat
  <2>11. p[i + 1].h = q[i].h
    BY <1>4, <1>6, <2>2
  <2> QED BY <2>7, <2>9, <2>10, <2>11
<1> QED
  BY <1>4, <1>7, <1>8, <1>9 DEF p

\* sys_timeout: the new entry is due after msecs, all others when they were.
LEMMA TimeoutDue ==
  ASSUME NEW q \in Seq(Entry), NEW h \in Timer, NEW msecs \in Nat
  PROVE  LET p == sys_timeout(q, h, msecs) IN
         /\ p \in Seq(Entry) /\ Len(p) = Len(q) + 1
         /\ \E k \in 0 .. Len(q) :
              /\ p[k + 1].h = h /\ Due(p, k + 1) = msecs
              /\ \A i \in 1 .. k : p[i].h = q[i].h /\ Due(p, i) = Due(q, i)
              /\ \A i \in k + 1 .. Len(q) :
                   p[i + 1].h = q[i].h /\ Due(p, i + 1) = Due(q, i)
<1> DEFINE k == CHOOSE j \in 0 .. Len(q) : GoesBehind(q, msecs, j)
           e == [h |-> h, time |-> msecs - Due(q, k)]
<1>1. k \in 0 .. Len(q) /\ GoesBehind(q, msecs, k)
  BY PlaceExists
<1>2. sys_timeout(q, h, msecs) = InsertBehind(q, e, k)
  BY DEF sys_timeout
<1> HIDE DEF k
<1>3. Due(q, k) \in Nat /\ Due(q, k) <= msecs
  <2>1. CASE k = 0
    BY <2>1, DueNext
  <2>2. CASE k # 0
    BY <1>1, <2>2, DueNat DEF GoesBehind
  <2> QED BY <2>1, <2>2
<1>4. e \in Entry /\ e.h = h /\ e.time = msecs - Due(q, k)
  BY <1>3 DEF Entry
<1>5. k < Len(q) => e.time <= q[k + 1].time
  <2> SUFFICES ASSUME k < Len(q) PROVE msecs - Due(q, k) <= q[k + 1].time
    BY <1>4
  <2>1. Due(q, k + 1) > msecs
    BY <1>1 DEF GoesBehind
  <2>2. k + 1 \in Nat \ {0} /\ (k + 1) - 1 = k /\ k + 1 \in 1 .. Len(q)
    BY <1>1
  <2>3. Due(q, k + 1) = Due(q, k) + q[k + 1].time
    BY <2>2, DueNext
  <2>4. q[k + 1].time \in Nat
    BY <2>2, EntryType
  <2> QED BY <1>3, <2>1, <2>3, <2>4
<1> HIDE DEF e
<1> DEFINE p == InsertBehind(q, e, k)
<1>6. /\ p \in Seq(Entry) /\ Len(p) = Len(q) + 1
      /\ p[k + 1].h = e.h /\ Due(p, k + 1) = Due(q, k) + e.time
      /\ \A i \in 1 .. k : p[i].h = q[i].h /\ Due(p, i) = Due(q, i)
      /\ \A i \in k + 1 .. Len(q) :
           p[i + 1].h = q[i].h /\ Due(p, i + 1) = Due(q, i)
  BY <1>1, <1>4, <1>5, InsertDue
<1> HIDE DEF p
<1>7. p[k + 1].h = h /\ Due(p, k + 1) = msecs
  BY <1>3, <1>4, <1>6
<1>8. sys_timeout(q, h, msecs) = p
  BY <1>2 DEF p
<1> QED
  BY <1>1, <1>6, <1>7, <1>8

\* An entry that goes leaves the due times of all others as they were.
LEMMA RemoveDue ==
  ASSUME NEW q \in Seq(Entry), NEW k \in 1 .. Len(q)
  PROVE  LET p == RemoveEntry(q, k) IN
         /\ p \in Seq(Entry) /\ Len(p) = Len(q) - 1
         /\ \A i \in 1 .. k - 1 : p[i].h = q[i].h /\ Due(p, i) = Due(q, i)
         /\ \A i \in k .. Len(q) - 1 :
              p[i].h = q[i + 1].h /\ Due(p, i) = Due(q, i + 1)
<1> DEFINE front == SubSeq(q, 1, k - 1)
           back == [i \in 1 .. Len(q) - k |->
                      IF i = 1 THEN [q[k + 1] EXCEPT !.time = @ + q[k].time] ELSE q[k + i]]
           p == RemoveEntry(q, k)
<1>1. /\ front \in Seq(Entry) /\ Len(front) = k - 1
      /\ \A i \in 1 .. k - 1 : front[i] = q[i]
  OBVIOUS
<1>2. back \in Seq(Entry) /\ Len(back) = Len(q) - k
  <2>1. ASSUME NEW i \in 1 .. Len(q) - k PROVE back[i] \in Entry
    <3>1. CASE i = 1
      <4>1. q[k + 1] \in Entry /\ q[k] \in Entry
        BY <3>1, EntryType
      <4>2. q[k + 1].time + q[k].time \in Nat
        BY <4>1 DEF Entry
      <4> QED BY <3>1, <4>1, <4>2 DEF Entry
    <3>2. CASE i # 1
      BY <3>2, EntryType
    <3> QED BY <3>1, <3>2
  <2>2. Len(q) - k \in Nat
    OBVIOUS
  <2>3. back \in [1 .. Len(q) - k -> Entry]
    BY <2>1
  <2> HIDE DEF back
  <2> QED BY <2>2, <2>3, FunctionIsSeq
<1>3. p = front \o back
  BY DEF RemoveEntry
<1>4. k < Len(q) => back[1].h = q[k + 1].h /\ back[1].time = q[k + 1].time + q[k].time
  <2> SUFFICES ASSUME k < Len(q)
               PROVE  back[1].h = q[k + 1].h /\ back[1].time = q[k + 1].time + q[k].time
    OBVIOUS
  <2>1. q[k + 1] \in Entry
    BY EntryType
  <2>2. back[1] = [q[k + 1] EXCEPT !.time = @ + q[k].time]
    OBVIOUS
  <2> QED BY <2>1, <2>2 DEF Entry
<1>5. \A i \in k + 1 .. Len(q) - 1 : back[(i - k) + 1] = q[i + 1]
  OBVIOUS
<1> HIDE DEF front, back, p
<1>6. /\ p \in Seq(Entry) /\ Len(p) = Len(front) + Len(back)
      /\ \A i \in 1 .. Len(front) + Len(back) :
           p[i] = IF i <= Len(front) THEN front[i] ELSE back[i - Len(front)]
  BY <1>1, <1>2, <1>3, ConcatProperties
<1>7. /\ Len(p) = Len(q) - 1
      /\ \A i \in 1 .. k - 1 : p[i] = q[i]
      /\ \A i \in k .. Len(q) - 1 : p[i] = back[(i - k) + 1]
  <2>1. Len(p) = Len(q) - 1
    BY <1>1, <1>2, <1>6
  <2>2. ASSUME NEW i \in 1 .. k - 1 PROVE p[i] = q[i]
    <3>1. i \in 1 .. Len(front) + Len(back) /\ i <= Len(front)
      BY <1>1, <1>2
    <3> QED BY <1>1, <1>6, <3>1
  <2>3. ASSUME NEW i \in k .. Len(q) - 1 PROVE p[i] = back[(i - k) + 1]
    <3>1. /\ i \in 1 .. Len(front) + Len(back) /\ ~(i <= Len(front))
          /\ i - Len(front) = (i - k) + 1
      BY <1>1, <1>2
    <3> QED BY <1>6, <3>1
  <2> QED BY <2>1, <2>2, <2>3
<1>8. \A i \in 0 .. k - 1 : Due(p, i) = Due(q, i)
  <2>1. ASSUME NEW i \in 0 .. k - 1 PROVE Due(p, i) = Due(q, i)
    <3>1. \A j \in 1 .. i : p[j].time = q[j].time
      BY <1>7
    <3> QED BY <3>1, DueLocal
  <2> QED BY <2>1
<1>9. ASSUME NEW i \in k .. Len(q) - 1
      PROVE  p[i].h = q[i + 1].h /\ Due(p, i) = Due(q, i + 1)
  <2>1. /\ k < Len(q) /\ k \in 1 .. Len(p) /\ k + 1 \in 1 .. Len(q)
        /\ k - 1 \in 0 .. Len(q) /\ k \in Nat \ {0} /\ k + 1 \in Nat \ {0}
        /\ (k + 1) - 1 = k
    BY <1>7
  <2>2. p[k].time = q[k + 1].time + q[k].time /\ p[k].h = q[k + 1].h
    BY <1>4, <1>7, <2>1
  <2>3. q[k].time \in Nat /\ q[k + 1].time \in Nat /\ Due(q, k - 1) \in Nat
    BY <2>1, EntryType, DueNat
  <2>4. Due(p, k) = Due(p, k - 1) + p[k].time
    BY <2>1, DueNext
  <2>5. Due(q, k) = Due(q, k - 1) + q[k].time
    BY <2>1, DueNext
  <2>6. Due(q, k + 1) = Due(q, k) + q[k + 1].time
    BY <2>1, DueNext
  <2>7. Due(p, k - 1) = Due(q, k - 1)
    BY <1>8, <2>1
  <2>8. Due(p, k) = Due(q, k + 1) + 0
    BY <2>2, <2>3, <2>4, <2>5, <2>6, <2>7
  <2>9. PICK n \in Nat : n = i - k
    OBVIOUS
  <2>10. ASSUME NEW j \in 1 .. n PROVE q[(k + 1) + j].time = p[k + j].time
    <3>1. k + j \in k + 1 .. Len(q) - 1 /\ (k + j) + 1 = (k + 1) + j
      BY <2>9
    <3>2. p[k + j] = q[(k + j) + 1]
      <4> DEFINE m == k + j
      <4>1. m \in k .. Len(q) - 1 /\ m \in k + 1 .. Len(q) - 1
        BY <3>1
      <4> HIDE DEF m
      <4>2. p[m] = q[m + 1]
        BY <1>5, <1>7, <4>1
      <4> QED BY <4>2 DEF m
    <3> QED BY <3>1, <3>2
  <2>11. Due(p, i) = Due(q, i + 1) + 0
    <3> DEFINE a == k + 1
               b == k
    <3>1. /\ a \in 0 .. Len(q) /\ b \in 0 .. Len(p) /\ a + n = i + 1 /\ b + n = i
          /\ a + n <= Len(q) /\ b + n <= Len(p)
      BY <1>7, <2>9
    <3>2. Due(p, b) = Due(q, a) + 0 /\ \A j \in 1 .. n : q[a + j].time = p[b + j].time
      BY <2>8, <2>10
    <3>3. p \in Seq(Entry) /\ 0 \in Int
      BY <1>6
    <3> HIDE DEF a, b
    <3>4. Due(p, b + n) = Due(q, a + n) + 0
      BY <3>1, <3>2, <3>3, DueShift
    <3> QED BY <3>1, <3>4
  <2>12. Due(q, i + 1) \in Nat
    BY DueNat
  <2>13. p[i].h = q[i + 1].h
    BY <1>5, <1>7, <2>2
  <2> QED BY <2>11, <2>12, <2>13
<1> QED
  BY <1>6, <1>7, <1>8, <1>9 DEF p

\* sys_untimeout of a handler that is in the list once takes its entry out and
\* leaves the due times of all others; otherwise the list stays.
LEMMA UntimeoutDue ==
  ASSUME NEW q \in Seq(Entry), NEW h
  PROVE  LET p == sys_untimeout(q, h) IN
         \/ p = q /\ \A k \in 1 .. Len(q) : q[k].h # h
         \/ \E k \in 1 .. Len(q) :
              /\ q[k].h = h
              /\ p \in Seq(Entry) /\ Len(p) = Len(q) - 1
              /\ \A i \in 1 .. k - 1 : p[i].h = q[i].h /\ Due(p, i) = Due(q, i)
              /\ \A i \in k .. Len(q) - 1 :
                   p[i].h = q[i + 1].h /\ Due(p, i) = Due(q, i + 1)
<1>1. CASE ~ \E k \in 1 .. Len(q) : q[k].h = h
  BY <1>1 DEF sys_untimeout
<1>2. CASE \E k \in 1 .. Len(q) : q[k].h = h
  <2> DEFINE T == {k \in 1 .. Len(q) : q[k].h = h}
             IsFirst(k) == q[k].h = h /\ \A j \in 1 .. k - 1 : q[j].h # h
             k == CHOOSE j \in 1 .. Len(q) : IsFirst(j)
  <2>1. T \in SUBSET Nat /\ T # {}
    BY <1>2
  <2>2. PICK m \in T : \A j \in T : m <= j
    BY <2>1, LeastNatural
  <2>3. m \in 1 .. Len(q) /\ q[m].h = h
    OBVIOUS
  <2>4. ASSUME NEW j \in 1 .. m - 1 PROVE q[j].h # h
    <3>1. j \in 1 .. Len(q) /\ ~(m <= j)
      BY <2>3
    <3> QED BY <2>2, <3>1
  <2>5. IsFirst(m)
    BY <2>3, <2>4
  <2>6. k \in 1 .. Len(q) /\ IsFirst(k)
    BY <2>3, <2>5
  <2>7. sys_untimeout(q, h) = RemoveEntry(q, k)
    BY <1>2 DEF sys_untimeout
  <2>8. q[k].h = h
    BY <2>6
  <2>9. k \in 1 .. Len(q)
    BY <2>6
  <2> HIDE DEF k
  <2> DEFINE p == RemoveEntry(q, k)
  <2>10. /\ p \in Seq(Entry) /\ Len(p) = Len(q) - 1
         /\ \A i \in 1 .. k - 1 : p[i].h = q[i].h /\ Due(p, i) = Due(q, i)
         /\ \A i \in k .. Len(q) - 1 :
              p[i].h = q[i + 1].h /\ Due(p, i) = Due(q, i + 1)
    BY <2>9, RemoveDue
  <2>11. sys_untimeout(q, h) = p
    BY <2>7
  <2> HIDE DEF p
  <2> QED BY <2>8, <2>9, <2>10, <2>11
<1> QED
  BY <1>1, <1>2

\* The first entry goes: all others are due its time earlier.
LEMMA TailDue ==
  ASSUME NEW q \in Seq(Entry), q # <<>>
  PROVE  /\ Tail(q) \in Seq(Entry) /\ Len(Tail(q)) = Len(q) - 1
         /\ \A i \in 1 .. Len(q) - 1 :
              /\ Tail(q)[i].h = q[i + 1].h
              /\ Due(Tail(q), i) = Due(q, i + 1) - q[1].time
<1> DEFINE p == Tail(q)
<1>1. /\ p \in Seq(Entry) /\ Len(p) = Len(q) - 1 /\ Len(q) \in Nat \ {0}
      /\ \A i \in 1 .. Len(q) - 1 : p[i] = q[i + 1]
  BY HeadTailProperties, EmptySeq
<1>2. q[1].time \in Nat
  BY <1>1, EntryType
<1> HIDE DEF p
<1>3. Due(p, 0) = Due(q, 1) - q[1].time
  <2>1. Due(q, 1) = Due(q, 1 - 1) + q[1].time
    BY DueNext
  <2>2. Due(q, 1 - 1) = 0 /\ Due(p, 0) = 0
    BY DueNext
  <2> QED BY <1>2, <2>1, <2>2
<1>4. ASSUME NEW i \in 1 .. Len(q) - 1
      PROVE  p[i].h = q[i + 1].h /\ Due(p, i) = Due(q, i + 1) - q[1].time
  <2> DEFINE a == 1
             b == 0
             d == 0 - q[1].time
  <2>1. /\ a \in 0 .. Len(q) /\ b \in 0 .. Len(p) /\ a + i <= Len(q)
        /\ b + i <= Len(p) /\ d \in Int /\ i \in Nat
    BY <1>1, <1>2
  <2>2. Due(q, 1) \in Nat /\ Due(q, i + 1) \in Nat
    BY <1>1, DueNat
  <2>3. Due(p, b) = Due(q, a) + d
    BY <1>2, <1>3, <2>2
  <2>4. ASSUME NEW j \in 1 .. i PROVE q[a + j].time = p[b + j].time
    <3>1. j \in 1 .. Len(q) - 1 /\ a + j = j + 1 /\ b + j = j
      BY <1>1
    <3> QED BY <1>1, <3>1
  <2>5. Due(p, b + i) = Due(q, a + i) + d
    <3>1. p \in Seq(Entry)
      BY <1>1
    <3> HIDE DEF a, b, d
    <3> QED BY <2>1, <2>3, <2>4, <3>1, DueShift
  <2>6. b + i = i /\ a + i = i + 1
    OBVIOUS
  <2> QED BY <1>1, <1>2, <2>2, <2>5, <2>6
<1> QED
  BY <1>1, <1>4 DEF p

\* The first entry's time is cut to r: all entries are due that much earlier.
LEMMA FirstDue ==
  ASSUME NEW q \in Seq(Entry), q # <<>>, NEW r \in Nat
  PROVE  LET p == [q EXCEPT ![1].time = r] IN
         /\ p \in Seq(Entry) /\ Len(p) = Len(q)
         /\ \A i \in 1 .. Len(q) :
              p[i].h = q[i].h /\ Due(p, i) = Due(q, i) - (q[1].time - r)
<1> DEFINE p == [q EXCEPT ![1].time = r]
           e == [q[1] EXCEPT !.time = r]
<1>1. Len(q) \in Nat \ {0} /\ 1 \in 1 .. Len(q)
  BY EmptySeq
<1>2. q[1] \in Entry /\ q[1].time \in Nat
  BY <1>1, EntryType
<1>3. e \in Entry /\ e.h = q[1].h /\ e.time = r
  BY <1>2 DEF Entry
<1>4. p = [q EXCEPT ![1] = e]
  OBVIOUS
<1> HIDE DEF p, e
<1>5. /\ p \in Seq(Entry) /\ Len(p) = Len(q)
      /\ \A j \in 1 .. Len(q) : p[j] = IF j = 1 THEN e ELSE q[j]
  BY <1>1, <1>3, <1>4, ExceptSeq
<1>6. Due(p, 1) = Due(q, 1) - (q[1].time - r)
  <2>1. Due(q, 1) = Due(q, 1 - 1) + q[1].time
    BY DueNext
  <2>2. Due(p, 1) = Due(p, 1 - 1) + p[1].time
    BY DueNext
  <2>3. Due(q, 1 - 1) = 0 /\ Due(p, 1 - 1) = 0
    BY DueNext
  <2>4. p[1].time = r
    BY <1>1, <1>3, <1>5
  <2> QED BY <1>2, <2>1, <2>2, <2>3, <2>4
<1>7. ASSUME NEW i \in 1 .. Len(q)
      PROVE  p[i].h = q[i].h /\ Due(p, i) = Due(q, i) - (q[1].time - r)
  <2> DEFINE a == 1
             b == 1
             d == 0 - (q[1].time - r)
  <2>1. PICK n \in Nat : n = i - 1
    BY <1>1
  <2>2. /\ a \in 0 .. Len(q) /\ b \in 0 .. Len(p) /\ a + n <= Len(q)
        /\ b + n <= Len(p) /\ d \in Int /\ a + n = i /\ b + n = i
    BY <1>1, <1>2, <1>5, <2>1
  <2>3. Due(q, 1) \in Nat /\ Due(q, i) \in Nat
    BY <1>1, DueNat
  <2>4. Due(p, b) = Due(q, a) + d
    BY <1>2, <1>6, <2>3
  <2>5. ASSUME NEW j \in 1 .. n PROVE q[a + j].time = p[b + j].time
    <3>1. a + j \in 1 .. Len(q) /\ a + j # 1 /\ b + j = a + j
      BY <1>1, <2>1
    <3> QED BY <1>5, <3>1
  <2>6. Due(p, b + n) = Due(q, a + n) + d
    <3>1. p \in Seq(Entry)
      BY <1>5
    <3> HIDE DEF a, b, d
    <3> QED BY <2>2, <2>4, <2>5, <3>1, DueShift
  <2>7. p[i].h = q[i].h
    BY <1>3, <1>5
  <2>8. Due(p, i) = Due(q, i) + d
    BY <2>2, <2>6
  <2> QED BY <1>2, <2>3, <2>7, <2>8
<1> QED
  BY <1>5, <1>7 DEF p

-----------------------------------------------------------------------------
(***************************************************************************)
(* The inductive invariant.                                                *)
(***************************************************************************)
PosterLabels ==
  {"idle", "lock", "locked", "wait_not_full", "relock", "signal_not_empty", "unlock"}

FetcherLabels ==
  {"idle", "lock", "locked", "wait_not_empty", "signal_not_full", "unlock",
   "fetched", "timeout", "tcp_tmr", "process"}

TypeOK ==
  /\ first \in Nat /\ last \in Nat /\ wait_send \in Nat
  /\ msgs \in [0 .. SYS_MBOX_SIZE - 1 -> Message \cup {NoMessage}]
  /\ sem \in [{"not_empty", "not_full", "mutex"} -> {0, 1}]
  /\ pc \in [Threads -> PosterLabels \cup FetcherLabels]
  /\ call \in [Threads -> {"none", "post", "trypost", "timed", "untimed"}]
  /\ posted \in [Posters -> Nat]
  /\ next_timeout \in Seq(Entry)
  /\ tcpip_tcp_timer_active \in BOOLEAN /\ pcbs \in BOOLEAN
  /\ left \in [Timer -> Nat] /\ owed \in [Timer -> Nat]

\* Where the threads can be.
Places ==
  /\ pc[Fetcher] \in FetcherLabels
  /\ \A t \in Posters : pc[t] \in PosterLabels

Holds(t) == pc[t] \in {"locked", "signal_not_empty", "signal_not_full", "unlock"}

\* One thread at most is between sys_arch_sem_wait and sys_sem_signal of the
\* mutex, and the mutex is taken exactly then.
MutexHeld ==
  /\ \A t, u \in Threads : Holds(t) /\ Holds(u) => t = u
  /\ sem["mutex"] = 0 <=> \E t \in Threads : Holds(t)

\* The counters never leave the ring, one slot of which stays free.
RingBounded == first <= last /\ last < first + SYS_MBOX_SIZE

\* A poster in a call has a message left.
PostsLeft ==
  \A t \in Posters :
    /\ posted[t] <= MaxPosts[t]
    /\ pc[t] \in {"lock", "locked", "wait_not_full", "relock"} => posted[t] < MaxPosts[t]

WaitingPosters == {t \in Posters : pc[t] \in {"wait_not_full", "relock"}}

\* wait_send counts the posters that wait.
WaitersCounted ==
  IsFiniteSet(WaitingPosters) /\ wait_send = Cardinality(WaitingPosters)

\* A fetcher asleep on a mailbox that is not empty has been signalled, or the
\* poster of the first message is about to signal.
FetcherWoken ==
  At(Fetcher, "wait_not_empty") /\ ~Empty =>
    sem["not_empty"] = 1 \/ \E t \in Posters : At(t, "signal_not_empty")

\* A poster asleep on an empty mailbox has been signalled, the fetcher is about
\* to signal, or another poster has been woken and will fill the mailbox.
PosterWoken ==
  (\E t \in Posters : At(t, "wait_not_full")) /\ Empty =>
    \/ sem["not_full"] = 1
    \/ At(Fetcher, "signal_not_full")
    \/ \E t \in Posters : pc[t] \in {"relock", "locked"}

\* No wake-up is lost: nobody sleeps on a condition that holds unless somebody
\* is on the way to wake him.
NoLostWakeUp == FetcherWoken /\ PosterWoken

\* A handler is in the list once at most.
Distinct(q) == \A i, j \in 1 .. Len(q) : q[i].h = q[j].h => i = j

\* The due times against the clocks.
DueRight(q, l, o) ==
  \A k \in 1 .. Len(q) : Due(q, k) = o[q[k].h] /\ l[q[k].h] <= o[q[k].h]

InList(q, h) == \E k \in 1 .. Len(q) : q[k].h = h

\* The TCP timer is in the list or its handler runs, not both, exactly while
\* tcpip_tcp_timer_active is set.
TimerKnown ==
  /\ tcpip_tcp_timer_active <=> InList(next_timeout, "tcp") \/ At(Fetcher, "tcp_tmr")
  /\ ~(InList(next_timeout, "tcp") /\ At(Fetcher, "tcp_tmr"))
  /\ pcbs => tcpip_tcp_timer_active

\* A wait that can time out was begun with a timeout in the list.
TimedWait ==
  /\ At(Fetcher, "timeout") => next_timeout # <<>>
  /\ /\ call[Fetcher] = "timed"
     /\ pc[Fetcher] \in {"lock", "locked", "wait_not_empty", "signal_not_full",
                         "unlock", "fetched"}
     => next_timeout # <<>>

MailboxInv ==
  /\ TypeOK /\ Places /\ MutexHeld /\ RingBounded /\ PostsLeft /\ WaitersCounted
  /\ FetcherWoken /\ PosterWoken

TimersInv ==
  /\ Distinct(next_timeout) /\ DueRight(next_timeout, left, owed)
  /\ TimerKnown /\ TimedWait

IInv == MailboxInv /\ TimersInv

-----------------------------------------------------------------------------
(***************************************************************************)
(* The mailbox.                                                            *)
(***************************************************************************)
\* What a step of thread t does to the program counters.
LEMMA Moved ==
  ASSUME TypeOK, NEW t \in Threads, NEW l \in PosterLabels \cup FetcherLabels, Go(t, l)
  PROVE  /\ pc' \in [Threads -> PosterLabels \cup FetcherLabels]
         /\ pc'[t] = l
         /\ \A u \in Threads : u # t => pc'[u] = pc[u]
BY DEF TypeOK, Go

\* What the semaphore operations do to the semaphores.
LEMMA SemStep ==
  ASSUME TypeOK, NEW s \in {"not_empty", "not_full", "mutex"}, NEW v \in {0, 1},
         sem' = [sem EXCEPT ![s] = v]
  PROVE  /\ sem' \in [{"not_empty", "not_full", "mutex"} -> {0, 1}]
         /\ sem'[s] = v
         /\ \A r \in {"not_empty", "not_full", "mutex"} : r # s => sem'[r] = sem[r]
BY DEF TypeOK

\* A step in which thread t takes the mutex, gives it back, or leaves it alone
\* and neither enters nor leaves the section it guards, keeps MutexHeld.
LEMMA MutexKept ==
  ASSUME MutexHeld, TypeOK, NEW t \in Threads,
         \A u \in Threads : u # t => pc'[u] = pc[u],
         \/ sem["mutex"] = 1 /\ sem'["mutex"] = 0 /\ Holds(t)'
         \/ sem'["mutex"] = 1 /\ Holds(t) /\ ~Holds(t)'
         \/ sem'["mutex"] = sem["mutex"] /\ (Holds(t)' <=> Holds(t))
  PROVE  MutexHeld'
<1>0. ASSUME NEW u \in Threads, u # t PROVE Holds(u)' <=> Holds(u)
  BY <1>0 DEF Holds
<1>1. CASE sem["mutex"] = 1 /\ sem'["mutex"] = 0 /\ Holds(t)'
  <2>1. \A u \in Threads : ~Holds(u)
    BY <1>1 DEF MutexHeld
  <2> QED BY <1>0, <1>1, <2>1 DEF MutexHeld
<1>2. CASE sem'["mutex"] = 1 /\ Holds(t) /\ ~Holds(t)'
  <2>1. \A u \in Threads : u # t => ~Holds(u)
    BY <1>2 DEF MutexHeld
  <2> QED BY <1>0, <1>2, <2>1 DEF MutexHeld
<1>3. CASE sem'["mutex"] = sem["mutex"] /\ (Holds(t)' <=> Holds(t))
  <2>1. \A u \in Threads : Holds(u)' <=> Holds(u)
    BY <1>0, <1>3
  <2> QED BY <1>3, <2>1 DEF MutexHeld
<1> QED
  BY <1>1, <1>2, <1>3

\* A step in which poster t begins to wait, is woken for good, or does neither.
LEMMA WaitersKept ==
  ASSUME WaitersCounted, NEW t \in Posters, wait_send \in Nat,
         \A u \in Posters : u # t => pc'[u] = pc[u],
         \/ t \notin WaitingPosters /\ t \in WaitingPosters' /\ wait_send' = wait_send + 1
         \/ t \in WaitingPosters /\ t \notin WaitingPosters' /\ wait_send' = wait_send - 1
         \/ wait_send' = wait_send /\ (t \in WaitingPosters <=> t \in WaitingPosters')
  PROVE  WaitersCounted' /\ wait_send' \in Nat
<1>0. ASSUME NEW u \in Posters, u # t PROVE u \in WaitingPosters' <=> u \in WaitingPosters
  BY <1>0 DEF WaitingPosters
<1>1. IsFiniteSet(WaitingPosters) /\ wait_send = Cardinality(WaitingPosters)
  BY DEF WaitersCounted
<1>2. WaitingPosters \subseteq Posters /\ WaitingPosters' \subseteq Posters
  BY DEF WaitingPosters
<1>3. CASE t \notin WaitingPosters /\ t \in WaitingPosters' /\ wait_send' = wait_send + 1
  <2>1. WaitingPosters' = WaitingPosters \cup {t}
    BY <1>0, <1>2, <1>3
  <2> QED BY <1>1, <1>3, <2>1, FS_AddElement DEF WaitersCounted
<1>4. CASE t \in WaitingPosters /\ t \notin WaitingPosters' /\ wait_send' = wait_send - 1
  <2>1. WaitingPosters' = WaitingPosters \ {t}
    BY <1>0, <1>2, <1>4
  <2>2. /\ IsFiniteSet(WaitingPosters \ {t})
        /\ Cardinality(WaitingPosters \ {t}) = Cardinality(WaitingPosters) - 1
    BY <1>1, <1>4, FS_RemoveElement
  <2>3. Cardinality(WaitingPosters \ {t}) \in Nat
    BY <2>2, FS_CardinalityType
  <2> QED BY <1>1, <1>4, <2>1, <2>2, <2>3 DEF WaitersCounted
<1>5. CASE wait_send' = wait_send /\ (t \in WaitingPosters <=> t \in WaitingPosters')
  <2>1. WaitingPosters' = WaitingPosters
    BY <1>0, <1>2, <1>5
  <2> QED BY <1>1, <1>5, <2>1 DEF WaitersCounted
<1> QED
  BY <1>3, <1>4, <1>5

\* A message of a poster that may still post.
LEMMA MessageType ==
  ASSUME NEW t \in Posters, posted \in [Posters -> Nat], posted[t] < MaxPosts[t]
  PROVE  <<t, posted[t] + 1>> \in Message
<1>1. MaxPosts[t] \in Nat /\ posted[t] \in Nat
  BY MailboxAssumption
<1>2. <<t, posted[t] + 1>> \in {t} \X (1 .. MaxPosts[t])
  BY <1>1
<1> QED
  BY <1>2 DEF Message

\* The steps of a poster in sys_mbox_post and sys_mbox_trypost.
LEMMA PostKeeps ==
  ASSUME MailboxInv, NEW t \in Posters, Post(t), UNCHANGED <<timeoutVars, clockVars>>
  PROVE  MailboxInv'
<1> USE DEF At
<1>0. /\ TypeOK /\ Places /\ MutexHeld /\ RingBounded /\ PostsLeft /\ WaitersCounted
      /\ FetcherWoken /\ PosterWoken /\ t \in Threads /\ Fetcher \in Threads
      /\ t # Fetcher /\ SYS_MBOX_SIZE \in Nat /\ SYS_MBOX_SIZE > 1
      /\ MaxPosts[t] \in Nat /\ posted[t] \in Nat
      /\ \A u \in Posters : u \in Threads /\ MaxPosts[u] \in Nat /\ posted[u] \in Nat
  BY MailboxAssumption DEF MailboxInv, Threads, TypeOK
<1>1. CASE PostLock(t)
  <2>1. pc[t] = "lock" /\ pc'[t] = "locked" /\ pc' \in [Threads -> PosterLabels \cup FetcherLabels]
        /\ \A u \in Threads : u # t => pc'[u] = pc[u]
    <3>1. "locked" \in PosterLabels \cup FetcherLabels /\ Go(t, "locked") /\ pc[t] = "lock"
      BY <1>1 DEF PostLock, PosterLabels
    <3> QED BY <1>0, <3>1, Moved
  <2>2. /\ sem["mutex"] = 1 /\ sem'["mutex"] = 0
        /\ sem' \in [{"not_empty", "not_full", "mutex"} -> {0, 1}]
        /\ \A r \in {"not_empty", "not_full", "mutex"} : r # "mutex" => sem'[r] = sem[r]
    <3>1. sem' = [sem EXCEPT !["mutex"] = 0] /\ sem["mutex"] = 1
      BY <1>1 DEF PostLock, sys_arch_sem_wait
    <3> QED BY <1>0, <3>1, SemStep
  <2>3. WaitersCounted' /\ wait_send' \in Nat
    BY <1>0, <1>1, <2>1, WaitersKept DEF PostLock, WaitingPosters, TypeOK
  <2>5. TypeOK'
    BY <1>0, <1>1, <2>1, <2>2, <2>3 DEF PostLock, TypeOK, timeoutVars, clockVars
  <2>6. Places'
    BY <1>0, <2>1 DEF Places, PosterLabels, Threads
  <2>7. MutexHeld'
    BY <1>0, <2>1, <2>2, MutexKept DEF Holds
  <2>8. RingBounded'
    BY <1>0, <1>1 DEF PostLock, RingBounded, TypeOK
  <2>9. PostsLeft'
    BY <1>0, <1>1, <2>1 DEF PostLock, PostsLeft, TypeOK
  <2>10. FetcherWoken'
    BY <1>0, <1>1, <2>1, <2>2 DEF PostLock, FetcherWoken, Empty, TypeOK
  <2>11. PosterWoken'
    BY <1>0, <1>1, <2>1, <2>2 DEF PostLock, PosterWoken, Empty, TypeOK, Full
  <2> QED BY <2>3, <2>5, <2>6, <2>7, <2>8, <2>9, <2>10, <2>11 DEF MailboxInv
<1>2. CASE PostWaits(t)
  <2>1. pc[t] = "locked" /\ pc'[t] = "wait_not_full" /\ pc' \in [Threads -> PosterLabels \cup FetcherLabels]
        /\ \A u \in Threads : u # t => pc'[u] = pc[u]
    <3>1. "wait_not_full" \in PosterLabels \cup FetcherLabels /\ Go(t, "wait_not_full") /\ pc[t] = "locked"
      BY <1>2 DEF PostWaits, PosterLabels
    <3> QED BY <1>0, <3>1, Moved
  <2>2. /\ sem'["mutex"] = 1
        /\ sem' \in [{"not_empty", "not_full", "mutex"} -> {0, 1}]
        /\ \A r \in {"not_empty", "not_full", "mutex"} : r # "mutex" => sem'[r] = sem[r]
    <3>1. sem' = [sem EXCEPT !["mutex"] = 1]
      BY <1>2 DEF PostWaits, sys_sem_signal
    <3> QED BY <1>0, <3>1, SemStep
  <2>3. WaitersCounted' /\ wait_send' \in Nat
    BY <1>0, <1>2, <2>1, WaitersKept DEF PostWaits, WaitingPosters, TypeOK
  <2>5. TypeOK'
    BY <1>0, <1>2, <2>1, <2>2, <2>3 DEF PostWaits, TypeOK, timeoutVars, clockVars
  <2>6. Places'
    BY <1>0, <2>1 DEF Places, PosterLabels, Threads
  <2>7. MutexHeld'
    BY <1>0, <2>1, <2>2, MutexKept DEF Holds
  <2>8. RingBounded'
    BY <1>0, <1>2 DEF PostWaits, RingBounded, TypeOK
  <2>9. PostsLeft'
    BY <1>0, <1>2, <2>1 DEF PostWaits, PostsLeft, TypeOK
  <2>10. FetcherWoken'
    BY <1>0, <1>2, <2>1, <2>2 DEF PostWaits, FetcherWoken, Empty, TypeOK
  <2>11. PosterWoken'
    BY <1>0, <1>2, <2>1, <2>2 DEF PostWaits, PosterWoken, Empty, TypeOK, Full
  <2> QED BY <2>3, <2>5, <2>6, <2>7, <2>8, <2>9, <2>10, <2>11 DEF MailboxInv
<1>3. CASE PostWoken(t)
  <2>1. pc[t] = "wait_not_full" /\ pc'[t] = "relock" /\ pc' \in [Threads -> PosterLabels \cup FetcherLabels]
        /\ \A u \in Threads : u # t => pc'[u] = pc[u]
    <3>1. "relock" \in PosterLabels \cup FetcherLabels /\ Go(t, "relock") /\ pc[t] = "wait_not_full"
      BY <1>3 DEF PostWoken, PosterLabels
    <3> QED BY <1>0, <3>1, Moved
  <2>2. /\ sem["not_full"] = 1 /\ sem'["not_full"] = 0
        /\ sem' \in [{"not_empty", "not_full", "mutex"} -> {0, 1}]
        /\ \A r \in {"not_empty", "not_full", "mutex"} : r # "not_full" => sem'[r] = sem[r]
    <3>1. sem' = [sem EXCEPT !["not_full"] = 0] /\ sem["not_full"] = 1
      BY <1>3 DEF PostWoken, sys_arch_sem_wait
    <3> QED BY <1>0, <3>1, SemStep
  <2>3. WaitersCounted' /\ wait_send' \in Nat
    BY <1>0, <1>3, <2>1, WaitersKept DEF PostWoken, WaitingPosters, TypeOK
  <2>5. TypeOK'
    BY <1>0, <1>3, <2>1, <2>2, <2>3 DEF PostWoken, TypeOK, timeoutVars, clockVars
  <2>6. Places'
    BY <1>0, <2>1 DEF Places, PosterLabels, Threads
  <2>7. MutexHeld'
    BY <1>0, <2>1, <2>2, MutexKept DEF Holds
  <2>8. RingBounded'
    BY <1>0, <1>3 DEF PostWoken, RingBounded, TypeOK
  <2>9. PostsLeft'
    BY <1>0, <1>3, <2>1 DEF PostWoken, PostsLeft, TypeOK
  <2>10. FetcherWoken'
    BY <1>0, <1>3, <2>1, <2>2 DEF PostWoken, FetcherWoken, Empty, TypeOK
  <2>11. PosterWoken'
    BY <1>0, <1>3, <2>1, <2>2 DEF PostWoken, PosterWoken, Empty, TypeOK, Full
  <2> QED BY <2>3, <2>5, <2>6, <2>7, <2>8, <2>9, <2>10, <2>11 DEF MailboxInv
<1>4. CASE PostRelock(t)
  <2>1. pc[t] = "relock" /\ pc'[t] = "locked" /\ pc' \in [Threads -> PosterLabels \cup FetcherLabels]
        /\ \A u \in Threads : u # t => pc'[u] = pc[u]
    <3>1. "locked" \in PosterLabels \cup FetcherLabels /\ Go(t, "locked") /\ pc[t] = "relock"
      BY <1>4 DEF PostRelock, PosterLabels
    <3> QED BY <1>0, <3>1, Moved
  <2>2. /\ sem["mutex"] = 1 /\ sem'["mutex"] = 0
        /\ sem' \in [{"not_empty", "not_full", "mutex"} -> {0, 1}]
        /\ \A r \in {"not_empty", "not_full", "mutex"} : r # "mutex" => sem'[r] = sem[r]
    <3>1. sem' = [sem EXCEPT !["mutex"] = 0] /\ sem["mutex"] = 1
      BY <1>4 DEF PostRelock, sys_arch_sem_wait
    <3> QED BY <1>0, <3>1, SemStep
  <2>3. WaitersCounted' /\ wait_send' \in Nat
    BY <1>0, <1>4, <2>1, WaitersKept DEF PostRelock, WaitingPosters, TypeOK
  <2>5. TypeOK'
    BY <1>0, <1>4, <2>1, <2>2, <2>3 DEF PostRelock, TypeOK, timeoutVars, clockVars
  <2>6. Places'
    BY <1>0, <2>1 DEF Places, PosterLabels, Threads
  <2>7. MutexHeld'
    BY <1>0, <2>1, <2>2, MutexKept DEF Holds
  <2>8. RingBounded'
    BY <1>0, <1>4 DEF PostRelock, RingBounded, TypeOK
  <2>9. PostsLeft'
    BY <1>0, <1>4, <2>1 DEF PostRelock, PostsLeft, TypeOK
  <2>10. FetcherWoken'
    BY <1>0, <1>4, <2>1, <2>2 DEF PostRelock, FetcherWoken, Empty, TypeOK
  <2>11. PosterWoken'
    BY <1>0, <1>4, <2>1, <2>2 DEF PostRelock, PosterWoken, Empty, TypeOK, Full
  <2> QED BY <2>3, <2>5, <2>6, <2>7, <2>8, <2>9, <2>10, <2>11 DEF MailboxInv
<1>5. CASE TryPostFails(t)
  <2>1. pc[t] = "locked" /\ pc'[t] = "idle" /\ pc' \in [Threads -> PosterLabels \cup FetcherLabels]
        /\ \A u \in Threads : u # t => pc'[u] = pc[u]
    <3>1. "idle" \in PosterLabels \cup FetcherLabels /\ Go(t, "idle") /\ pc[t] = "locked"
      BY <1>5 DEF TryPostFails, PosterLabels
    <3> QED BY <1>0, <3>1, Moved
  <2>2. /\ sem'["mutex"] = 1
        /\ sem' \in [{"not_empty", "not_full", "mutex"} -> {0, 1}]
        /\ \A r \in {"not_empty", "not_full", "mutex"} : r # "mutex" => sem'[r] = sem[r]
    <3>1. sem' = [sem EXCEPT !["mutex"] = 1]
      BY <1>5 DEF TryPostFails, sys_sem_signal
    <3> QED BY <1>0, <3>1, SemStep
  <2>3. WaitersCounted' /\ wait_send' \in Nat
    BY <1>0, <1>5, <2>1, WaitersKept DEF TryPostFails, WaitingPosters, TypeOK
  <2>5. TypeOK'
    BY <1>0, <1>5, <2>1, <2>2, <2>3 DEF TryPostFails, TypeOK, timeoutVars, clockVars
  <2>6. Places'
    BY <1>0, <2>1 DEF Places, PosterLabels, Threads
  <2>7. MutexHeld'
    BY <1>0, <2>1, <2>2, MutexKept DEF Holds
  <2>8. RingBounded'
    BY <1>0, <1>5 DEF TryPostFails, RingBounded, TypeOK
  <2>9. PostsLeft'
    BY <1>0, <1>5, <2>1 DEF TryPostFails, PostsLeft, TypeOK
  <2>10. FetcherWoken'
    BY <1>0, <1>5, <2>1, <2>2 DEF TryPostFails, FetcherWoken, Empty, TypeOK
  <2>11. PosterWoken'
    BY <1>0, <1>5, <2>1, <2>2 DEF TryPostFails, PosterWoken, Empty, TypeOK, Full
  <2> QED BY <2>3, <2>5, <2>6, <2>7, <2>8, <2>9, <2>10, <2>11 DEF MailboxInv
<1>6. CASE PostStore(t)
  <2> DEFINE l == IF Empty THEN "signal_not_empty" ELSE "unlock"
  <2>1. pc[t] = "locked" /\ pc'[t] = l /\ pc' \in [Threads -> PosterLabels \cup FetcherLabels]
        /\ \A u \in Threads : u # t => pc'[u] = pc[u]
    <3>1. l \in PosterLabels \cup FetcherLabels /\ Go(t, l) /\ pc[t] = "locked"
      BY <1>6 DEF PostStore, PosterLabels
    <3> HIDE DEF l
    <3> QED BY <1>0, <3>1, Moved
  <2>2. sem' = sem
    BY <1>6 DEF PostStore
  <2>3. WaitersCounted' /\ wait_send' \in Nat
    BY <1>0, <1>6, <2>1, WaitersKept DEF PostStore, WaitingPosters, TypeOK
  <2>4. msgs' \in [0 .. SYS_MBOX_SIZE - 1 -> Message \cup {NoMessage}]
    <3>1. <<t, posted[t] + 1>> \in Message
      BY <1>0, <2>1, MessageType DEF PostsLeft, TypeOK
    <3> QED BY <1>0, <1>6, <3>1 DEF PostStore, TypeOK
  <2>5. TypeOK'
    BY <1>0, <1>6, <2>1, <2>2, <2>3, <2>4 DEF PostStore, TypeOK, timeoutVars, clockVars
  <2>6. Places'
    BY <1>0, <2>1 DEF Places, PosterLabels, Threads
  <2>7. MutexHeld'
    BY <1>0, <2>1, <2>2, MutexKept DEF Holds
  <2>8. RingBounded'
    BY <1>0, <1>6 DEF PostStore, RingBounded, TypeOK, Full
  <2>9. PostsLeft'
    BY <1>0, <1>6, <2>1 DEF PostStore, PostsLeft, TypeOK
  <2>10. FetcherWoken'
    BY <1>0, <1>6, <2>1, <2>2 DEF PostStore, FetcherWoken, Empty, TypeOK
  <2>11. PosterWoken'
    BY <1>0, <1>6, <2>1, <2>2 DEF PostStore, PosterWoken, Empty, RingBounded, TypeOK
  <2> QED BY <2>3, <2>5, <2>6, <2>7, <2>8, <2>9, <2>10, <2>11 DEF MailboxInv
<1>7. CASE PostSignal(t)
  <2>1. pc[t] = "signal_not_empty" /\ pc'[t] = "unlock" /\ pc' \in [Threads -> PosterLabels \cup FetcherLabels]
        /\ \A u \in Threads : u # t => pc'[u] = pc[u]
    <3>1. "unlock" \in PosterLabels \cup FetcherLabels /\ Go(t, "unlock") /\ pc[t] = "signal_not_empty"
      BY <1>7 DEF PostSignal, PosterLabels
    <3> QED BY <1>0, <3>1, Moved
  <2>2. /\ sem'["not_empty"] = 1
        /\ sem' \in [{"not_empty", "not_full", "mutex"} -> {0, 1}]
        /\ \A r \in {"not_empty", "not_full", "mutex"} : r # "not_empty" => sem'[r] = sem[r]
    <3>1. sem' = [sem EXCEPT !["not_empty"] = 1]
      BY <1>7 DEF PostSignal, sys_sem_signal
    <3> QED BY <1>0, <3>1, SemStep
  <2>3. WaitersCounted' /\ wait_send' \in Nat
    BY <1>0, <1>7, <2>1, WaitersKept DEF PostSignal, WaitingPosters, TypeOK
  <2>5. TypeOK'
    BY <1>0, <1>7, <2>1, <2>2, <2>3 DEF PostSignal, TypeOK, timeoutVars, clockVars
  <2>6. Places'
    BY <1>0, <2>1 DEF Places, PosterLabels, Threads
  <2>7. MutexHeld'
    BY <1>0, <2>1, <2>2, MutexKept DEF Holds
  <2>8. RingBounded'
    BY <1>0, <1>7 DEF PostSignal, RingBounded, TypeOK
  <2>9. PostsLeft'
    BY <1>0, <1>7, <2>1 DEF PostSignal, PostsLeft, TypeOK
  <2>10. FetcherWoken'
    BY <1>0, <1>7, <2>1, <2>2 DEF PostSignal, FetcherWoken, Empty, TypeOK
  <2>11. PosterWoken'
    BY <1>0, <1>7, <2>1, <2>2 DEF PostSignal, PosterWoken, Empty, TypeOK, Full
  <2> QED BY <2>3, <2>5, <2>6, <2>7, <2>8, <2>9, <2>10, <2>11 DEF MailboxInv
<1>8. CASE PostUnlock(t)
  <2>1. pc[t] = "unlock" /\ pc'[t] = "idle" /\ pc' \in [Threads -> PosterLabels \cup FetcherLabels]
        /\ \A u \in Threads : u # t => pc'[u] = pc[u]
    <3>1. "idle" \in PosterLabels \cup FetcherLabels /\ Go(t, "idle") /\ pc[t] = "unlock"
      BY <1>8 DEF PostUnlock, PosterLabels
    <3> QED BY <1>0, <3>1, Moved
  <2>2. /\ sem'["mutex"] = 1
        /\ sem' \in [{"not_empty", "not_full", "mutex"} -> {0, 1}]
        /\ \A r \in {"not_empty", "not_full", "mutex"} : r # "mutex" => sem'[r] = sem[r]
    <3>1. sem' = [sem EXCEPT !["mutex"] = 1]
      BY <1>8 DEF PostUnlock, sys_sem_signal
    <3> QED BY <1>0, <3>1, SemStep
  <2>3. WaitersCounted' /\ wait_send' \in Nat
    BY <1>0, <1>8, <2>1, WaitersKept DEF PostUnlock, WaitingPosters, TypeOK
  <2>5. TypeOK'
    BY <1>0, <1>8, <2>1, <2>2, <2>3 DEF PostUnlock, TypeOK, timeoutVars, clockVars
  <2>6. Places'
    BY <1>0, <2>1 DEF Places, PosterLabels, Threads
  <2>7. MutexHeld'
    BY <1>0, <2>1, <2>2, MutexKept DEF Holds
  <2>8. RingBounded'
    BY <1>0, <1>8 DEF PostUnlock, RingBounded, TypeOK
  <2>9. PostsLeft'
    BY <1>0, <1>8, <2>1 DEF PostUnlock, PostsLeft, TypeOK
  <2>10. FetcherWoken'
    BY <1>0, <1>8, <2>1, <2>2 DEF PostUnlock, FetcherWoken, Empty, TypeOK
  <2>11. PosterWoken'
    BY <1>0, <1>8, <2>1, <2>2 DEF PostUnlock, PosterWoken, Empty, TypeOK, Full
  <2> QED BY <2>3, <2>5, <2>6, <2>7, <2>8, <2>9, <2>10, <2>11 DEF MailboxInv
<1> QED
  BY <1>1, <1>2, <1>3, <1>4, <1>5, <1>6, <1>7, <1>8 DEF Post

\* A poster begins a call.
LEMMA StartPostKeeps ==
  ASSUME MailboxInv, NEW t \in Posters, NEW blocking \in BOOLEAN, StartPost(t, blocking),
         UNCHANGED <<timeoutVars, clockVars>>
  PROVE  MailboxInv'
<1> USE DEF At
<1>0. /\ TypeOK /\ Places /\ MutexHeld /\ RingBounded /\ PostsLeft /\ WaitersCounted
      /\ FetcherWoken /\ PosterWoken /\ t \in Threads /\ Fetcher \in Threads /\ t # Fetcher
      /\ \A u \in Posters : u \in Threads
  BY MailboxAssumption DEF MailboxInv, Threads
<1>1. pc[t] = "idle" /\ pc'[t] = "lock" /\ pc' \in [Threads -> PosterLabels \cup FetcherLabels]
      /\ \A u \in Threads : u # t => pc'[u] = pc[u]
  <2>1. "lock" \in PosterLabels \cup FetcherLabels /\ Go(t, "lock") /\ pc[t] = "idle"
    BY DEF StartPost, PosterLabels
  <2> QED BY <1>0, <2>1, Moved
<1>2. UNCHANGED <<first, last, msgs, sem, wait_send, posted, got>>
  BY DEF StartPost, mboxVars
<1>3. WaitersCounted' /\ wait_send' \in Nat
  BY <1>0, <1>1, <1>2, WaitersKept DEF WaitingPosters, TypeOK
<1>4. TypeOK'
  <2>1. call' \in [Threads -> {"none", "post", "trypost", "timed", "untimed"}]
    BY <1>0 DEF StartPost, TypeOK
  <2> QED BY <1>0, <1>1, <1>2, <2>1 DEF TypeOK, timeoutVars, clockVars
<1>5. Places'
  BY <1>0, <1>1 DEF Places, PosterLabels
<1>6. MutexHeld'
  BY <1>0, <1>1, <1>2, MutexKept DEF Holds
<1>7. RingBounded'
  BY <1>0, <1>2 DEF RingBounded
<1>8. PostsLeft'
  BY <1>0, <1>1, <1>2 DEF StartPost, PostsLeft
<1>9. FetcherWoken' /\ PosterWoken'
  BY <1>0, <1>1, <1>2 DEF FetcherWoken, PosterWoken, Empty
<1> QED
  BY <1>3, <1>4, <1>5, <1>6, <1>7, <1>8, <1>9 DEF MailboxInv

\* A step of the fetcher leaves the posters where they are.
LEMMA PostersStay ==
  ASSUME TypeOK, WaitersCounted, PostsLeft, \A u \in Posters : pc'[u] = pc[u],
         posted' = posted, wait_send' = wait_send
  PROVE  WaitersCounted' /\ PostsLeft'
<1>1. WaitingPosters' = WaitingPosters
  BY DEF WaitingPosters
<1> QED
  BY <1>1 DEF WaitersCounted, PostsLeft

\* The steps of sys_arch_mbox_fetch.
LEMMA FetchKeeps ==
  ASSUME MailboxInv, Fetch, UNCHANGED <<timeoutVars, clockVars>>
  PROVE  MailboxInv'
<1> USE DEF At
<1>0. /\ TypeOK /\ Places /\ MutexHeld /\ RingBounded /\ PostsLeft /\ WaitersCounted
      /\ FetcherWoken /\ PosterWoken /\ Fetcher \in Threads
      /\ SYS_MBOX_SIZE \in Nat /\ SYS_MBOX_SIZE > 1
      /\ \A u \in Posters : u \in Threads /\ u # Fetcher
  BY MailboxAssumption DEF MailboxInv, Threads
<1>1. CASE FetchLock
  <2>1. pc[Fetcher] = "lock" /\ pc'[Fetcher] = "locked"
        /\ pc' \in [Threads -> PosterLabels \cup FetcherLabels]
        /\ \A u \in Threads : u # Fetcher => pc'[u] = pc[u]
    <3>1. "locked" \in PosterLabels \cup FetcherLabels /\ Go(Fetcher, "locked") /\ pc[Fetcher] = "lock"
      BY <1>1 DEF FetchLock, FetcherLabels
    <3> QED BY <1>0, <3>1, Moved
  <2>2. /\ sem["mutex"] = 1 /\ sem'["mutex"] = 0
        /\ sem' \in [{"not_empty", "not_full", "mutex"} -> {0, 1}]
        /\ \A r \in {"not_empty", "not_full", "mutex"} : r # "mutex" => sem'[r] = sem[r]
    <3>1. sem' = [sem EXCEPT !["mutex"] = 0] /\ sem["mutex"] = 1
      BY <1>1 DEF FetchLock, sys_arch_sem_wait
    <3> QED BY <1>0, <3>1, SemStep
  <2>3. WaitersCounted' /\ PostsLeft'
    BY <1>0, <1>1, <2>1, PostersStay DEF FetchLock
  <2>4. TypeOK'
    BY <1>0, <1>1, <2>1, <2>2 DEF FetchLock, TypeOK, timeoutVars, clockVars
  <2>5. Places'
    BY <1>0, <2>1 DEF Places, FetcherLabels
  <2>6. MutexHeld'
    BY <1>0, <2>1, <2>2, MutexKept DEF Holds
  <2>7. RingBounded'
    BY <1>0, <1>1 DEF FetchLock, RingBounded, TypeOK
  <2>8. FetcherWoken'
    BY <1>0, <1>1, <2>1, <2>2 DEF FetchLock, FetcherWoken, Empty
  <2>9. PosterWoken'
    BY <1>0, <1>1, <2>1, <2>2 DEF FetchLock, PosterWoken, Empty
  <2> QED BY <2>3, <2>4, <2>5, <2>6, <2>7, <2>8, <2>9 DEF MailboxInv
<1>2. CASE FetchWaits
  <2>1. pc[Fetcher] = "locked" /\ pc'[Fetcher] = "wait_not_empty"
        /\ pc' \in [Threads -> PosterLabels \cup FetcherLabels]
        /\ \A u \in Threads : u # Fetcher => pc'[u] = pc[u]
    <3>1. "wait_not_empty" \in PosterLabels \cup FetcherLabels /\ Go(Fetcher, "wait_not_empty") /\ pc[Fetcher] = "locked"
      BY <1>2 DEF FetchWaits, FetcherLabels
    <3> QED BY <1>0, <3>1, Moved
  <2>2. /\ sem'["mutex"] = 1
        /\ sem' \in [{"not_empty", "not_full", "mutex"} -> {0, 1}]
        /\ \A r \in {"not_empty", "not_full", "mutex"} : r # "mutex" => sem'[r] = sem[r]
    <3>1. sem' = [sem EXCEPT !["mutex"] = 1]
      BY <1>2 DEF FetchWaits, sys_sem_signal
    <3> QED BY <1>0, <3>1, SemStep
  <2>3. WaitersCounted' /\ PostsLeft'
    BY <1>0, <1>2, <2>1, PostersStay DEF FetchWaits
  <2>4. TypeOK'
    BY <1>0, <1>2, <2>1, <2>2 DEF FetchWaits, TypeOK, timeoutVars, clockVars
  <2>5. Places'
    BY <1>0, <2>1 DEF Places, FetcherLabels
  <2>6. MutexHeld'
    BY <1>0, <2>1, <2>2, MutexKept DEF Holds
  <2>7. RingBounded'
    BY <1>0, <1>2 DEF FetchWaits, RingBounded, TypeOK
  <2>8. FetcherWoken'
    BY <1>0, <1>2, <2>1, <2>2 DEF FetchWaits, FetcherWoken, Empty
  <2>9. PosterWoken'
    BY <1>0, <1>2, <2>1, <2>2 DEF FetchWaits, PosterWoken, Empty
  <2> QED BY <2>3, <2>4, <2>5, <2>6, <2>7, <2>8, <2>9 DEF MailboxInv
<1>3. CASE FetchWoken
  <2>1. pc[Fetcher] = "wait_not_empty" /\ pc'[Fetcher] = "lock"
        /\ pc' \in [Threads -> PosterLabels \cup FetcherLabels]
        /\ \A u \in Threads : u # Fetcher => pc'[u] = pc[u]
    <3>1. "lock" \in PosterLabels \cup FetcherLabels /\ Go(Fetcher, "lock") /\ pc[Fetcher] = "wait_not_empty"
      BY <1>3 DEF FetchWoken, FetcherLabels
    <3> QED BY <1>0, <3>1, Moved
  <2>2. /\ sem["not_empty"] = 1 /\ sem'["not_empty"] = 0
        /\ sem' \in [{"not_empty", "not_full", "mutex"} -> {0, 1}]
        /\ \A r \in {"not_empty", "not_full", "mutex"} : r # "not_empty" => sem'[r] = sem[r]
    <3>1. sem' = [sem EXCEPT !["not_empty"] = 0] /\ sem["not_empty"] = 1
      BY <1>3 DEF FetchWoken, sys_arch_sem_wait
    <3> QED BY <1>0, <3>1, SemStep
  <2>3. WaitersCounted' /\ PostsLeft'
    BY <1>0, <1>3, <2>1, PostersStay DEF FetchWoken
  <2>4. TypeOK'
    BY <1>0, <1>3, <2>1, <2>2 DEF FetchWoken, TypeOK, timeoutVars, clockVars
  <2>5. Places'
    BY <1>0, <2>1 DEF Places, FetcherLabels
  <2>6. MutexHeld'
    BY <1>0, <2>1, <2>2, MutexKept DEF Holds
  <2>7. RingBounded'
    BY <1>0, <1>3 DEF FetchWoken, RingBounded, TypeOK
  <2>8. FetcherWoken'
    BY <1>0, <1>3, <2>1, <2>2 DEF FetchWoken, FetcherWoken, Empty
  <2>9. PosterWoken'
    BY <1>0, <1>3, <2>1, <2>2 DEF FetchWoken, PosterWoken, Empty
  <2> QED BY <2>3, <2>4, <2>5, <2>6, <2>7, <2>8, <2>9 DEF MailboxInv
<1>4. CASE FetchTimeout
  <2>1. pc[Fetcher] = "wait_not_empty" /\ pc'[Fetcher] = "timeout"
        /\ pc' \in [Threads -> PosterLabels \cup FetcherLabels]
        /\ \A u \in Threads : u # Fetcher => pc'[u] = pc[u]
    <3>1. "timeout" \in PosterLabels \cup FetcherLabels /\ Go(Fetcher, "timeout") /\ pc[Fetcher] = "wait_not_empty"
      BY <1>4 DEF FetchTimeout, FetcherLabels
    <3> QED BY <1>0, <3>1, Moved
  <2>2. sem' = sem
    BY <1>4 DEF FetchTimeout, mboxVars
  <2>3. WaitersCounted' /\ PostsLeft'
    BY <1>0, <1>4, <2>1, PostersStay DEF FetchTimeout, mboxVars
  <2>4. TypeOK'
    BY <1>0, <1>4, <2>1, <2>2 DEF FetchTimeout, TypeOK, timeoutVars, clockVars, mboxVars
  <2>5. Places'
    BY <1>0, <2>1 DEF Places, FetcherLabels
  <2>6. MutexHeld'
    BY <1>0, <2>1, <2>2, MutexKept DEF Holds
  <2>7. RingBounded'
    BY <1>0, <1>4 DEF FetchTimeout, RingBounded, TypeOK, mboxVars
  <2>8. FetcherWoken'
    BY <1>0, <1>4, <2>1, <2>2 DEF FetchTimeout, FetcherWoken, Empty, mboxVars
  <2>9. PosterWoken'
    BY <1>0, <1>4, <2>1, <2>2 DEF FetchTimeout, PosterWoken, Empty, mboxVars
  <2> QED BY <2>3, <2>4, <2>5, <2>6, <2>7, <2>8, <2>9 DEF MailboxInv
<1>5. CASE FetchTake
  <2> DEFINE l == IF wait_send > 0 THEN "signal_not_full" ELSE "unlock"
  <2>1. pc[Fetcher] = "locked" /\ pc'[Fetcher] = l
        /\ pc' \in [Threads -> PosterLabels \cup FetcherLabels]
        /\ \A u \in Threads : u # Fetcher => pc'[u] = pc[u]
    <3>1. l \in PosterLabels \cup FetcherLabels /\ Go(Fetcher, l) /\ pc[Fetcher] = "locked"
      BY <1>5 DEF FetchTake, FetcherLabels
    <3> HIDE DEF l
    <3> QED BY <1>0, <3>1, Moved
  <2>2. sem' = sem
    BY <1>5 DEF FetchTake, mboxVars
  <2>3. WaitersCounted' /\ PostsLeft'
    BY <1>0, <1>5, <2>1, PostersStay DEF FetchTake
  <2>4. TypeOK'
    BY <1>0, <1>5, <2>1, <2>2 DEF FetchTake, TypeOK, timeoutVars, clockVars
  <2>5. Places'
    BY <1>0, <2>1 DEF Places, FetcherLabels
  <2>6. MutexHeld'
    BY <1>0, <2>1, <2>2, MutexKept DEF Holds
  <2>7. RingBounded'
    BY <1>0, <1>5 DEF FetchTake, RingBounded, TypeOK, Empty
  <2>8. FetcherWoken'
    BY <1>0, <1>5, <2>1, <2>2 DEF FetchTake, FetcherWoken, Empty
  <2>9. PosterWoken'
    <3>1. CASE \E t \in Posters : pc'[t] = "wait_not_full"
      <4>1. PICK t \in Posters : pc[t] = "wait_not_full"
        BY <1>0, <2>1, <3>1
      <4>2. t \in WaitingPosters /\ IsFiniteSet(WaitingPosters)
        BY <1>0, <4>1 DEF WaitingPosters, WaitersCounted
      <4>3. wait_send \in Nat /\ wait_send # 0
        BY <1>0, <4>2, FS_EmptySet DEF WaitersCounted, TypeOK
      <4>4. pc'[Fetcher] = "signal_not_full"
        BY <2>1, <4>3
      <4> QED BY <4>4 DEF PosterWoken
    <3>2. CASE ~ \E t \in Posters : pc'[t] = "wait_not_full"
      BY <3>2 DEF PosterWoken
    <3> QED BY <3>1, <3>2
  <2> QED BY <2>3, <2>4, <2>5, <2>6, <2>7, <2>8, <2>9 DEF MailboxInv
<1>6. CASE FetchSignal
  <2>1. pc[Fetcher] = "signal_not_full" /\ pc'[Fetcher] = "unlock"
        /\ pc' \in [Threads -> PosterLabels \cup FetcherLabels]
        /\ \A u \in Threads : u # Fetcher => pc'[u] = pc[u]
    <3>1. "unlock" \in PosterLabels \cup FetcherLabels /\ Go(Fetcher, "unlock") /\ pc[Fetcher] = "signal_not_full"
      BY <1>6 DEF FetchSignal, FetcherLabels
    <3> QED BY <1>0, <3>1, Moved
  <2>2. /\ sem'["not_full"] = 1
        /\ sem' \in [{"not_empty", "not_full", "mutex"} -> {0, 1}]
        /\ \A r \in {"not_empty", "not_full", "mutex"} : r # "not_full" => sem'[r] = sem[r]
    <3>1. sem' = [sem EXCEPT !["not_full"] = 1]
      BY <1>6 DEF FetchSignal, WakePoster, sys_sem_signal
    <3> QED BY <1>0, <3>1, SemStep
  <2>3. WaitersCounted' /\ PostsLeft'
    BY <1>0, <1>6, <2>1, PostersStay DEF FetchSignal
  <2>4. TypeOK'
    BY <1>0, <1>6, <2>1, <2>2 DEF FetchSignal, TypeOK, timeoutVars, clockVars
  <2>5. Places'
    BY <1>0, <2>1 DEF Places, FetcherLabels
  <2>6. MutexHeld'
    BY <1>0, <2>1, <2>2, MutexKept DEF Holds
  <2>7. RingBounded'
    BY <1>0, <1>6 DEF FetchSignal, RingBounded, TypeOK
  <2>8. FetcherWoken'
    BY <1>0, <1>6, <2>1, <2>2 DEF FetchSignal, FetcherWoken, Empty
  <2>9. PosterWoken'
    BY <1>0, <1>6, <2>1, <2>2 DEF FetchSignal, PosterWoken, Empty
  <2> QED BY <2>3, <2>4, <2>5, <2>6, <2>7, <2>8, <2>9 DEF MailboxInv
<1>7. CASE FetchUnlock
  <2>1. pc[Fetcher] = "unlock" /\ pc'[Fetcher] = "fetched"
        /\ pc' \in [Threads -> PosterLabels \cup FetcherLabels]
        /\ \A u \in Threads : u # Fetcher => pc'[u] = pc[u]
    <3>1. "fetched" \in PosterLabels \cup FetcherLabels /\ Go(Fetcher, "fetched") /\ pc[Fetcher] = "unlock"
      BY <1>7 DEF FetchUnlock, FetcherLabels
    <3> QED BY <1>0, <3>1, Moved
  <2>2. /\ sem'["mutex"] = 1
        /\ sem' \in [{"not_empty", "not_full", "mutex"} -> {0, 1}]
        /\ \A r \in {"not_empty", "not_full", "mutex"} : r # "mutex" => sem'[r] = sem[r]
    <3>1. sem' = [sem EXCEPT !["mutex"] = 1]
      BY <1>7 DEF FetchUnlock, sys_sem_signal
    <3> QED BY <1>0, <3>1, SemStep
  <2>3. WaitersCounted' /\ PostsLeft'
    BY <1>0, <1>7, <2>1, PostersStay DEF FetchUnlock
  <2>4. TypeOK'
    BY <1>0, <1>7, <2>1, <2>2 DEF FetchUnlock, TypeOK, timeoutVars, clockVars
  <2>5. Places'
    BY <1>0, <2>1 DEF Places, FetcherLabels
  <2>6. MutexHeld'
    BY <1>0, <2>1, <2>2, MutexKept DEF Holds
  <2>7. RingBounded'
    BY <1>0, <1>7 DEF FetchUnlock, RingBounded, TypeOK
  <2>8. FetcherWoken'
    BY <1>0, <1>7, <2>1, <2>2 DEF FetchUnlock, FetcherWoken, Empty
  <2>9. PosterWoken'
    BY <1>0, <1>7, <2>1, <2>2 DEF FetchUnlock, PosterWoken, Empty
  <2> QED BY <2>3, <2>4, <2>5, <2>6, <2>7, <2>8, <2>9 DEF MailboxInv
<1> QED
  BY <1>1, <1>2, <1>3, <1>4, <1>5, <1>6, <1>7 DEF Fetch

\* The thread is between two fetches.
Outside == {"idle", "fetched", "timeout", "tcp_tmr", "process"}

\* Steps outside sys_arch_mbox_fetch leave the mailbox alone.
LEMMA OutsideKeeps ==
  ASSUME MailboxInv, pc[Fetcher] \in Outside, NEW l \in Outside \cup {"lock"},
         Go(Fetcher, l), UNCHANGED <<mboxVars, posted, got>>, TypeOK'
  PROVE  MailboxInv'
<1> USE DEF At
<1>0. /\ TypeOK /\ Places /\ MutexHeld /\ RingBounded /\ PostsLeft /\ WaitersCounted
      /\ FetcherWoken /\ PosterWoken /\ Fetcher \in Threads
      /\ \A u \in Posters : u \in Threads /\ u # Fetcher
  BY MailboxAssumption DEF MailboxInv, Threads
<1>1. pc'[Fetcher] = l /\ \A u \in Threads : u # Fetcher => pc'[u] = pc[u]
  <2>1. l \in PosterLabels \cup FetcherLabels
    BY DEF Outside, FetcherLabels
  <2> QED BY <1>0, <2>1, Moved
<1>2. UNCHANGED <<first, last, msgs, sem, wait_send, posted, got>>
  BY DEF mboxVars
<1>3. WaitersCounted' /\ PostsLeft'
  BY <1>0, <1>1, <1>2, PostersStay
<1>4. Places'
  BY <1>0, <1>1 DEF Places, FetcherLabels, Outside
<1>5. MutexHeld'
  <2>1. ~Holds(Fetcher) /\ ~Holds(Fetcher)'
    BY <1>1 DEF Holds, Outside
  <2> QED BY <1>0, <1>1, <1>2, <2>1, MutexKept
<1>6. RingBounded'
  BY <1>0, <1>2 DEF RingBounded
<1>7. FetcherWoken' /\ PosterWoken'
  BY <1>0, <1>1, <1>2 DEF FetcherWoken, PosterWoken, Empty, Outside
<1> QED
  BY <1>3, <1>4, <1>5, <1>6, <1>7 DEF MailboxInv

-----------------------------------------------------------------------------
(***************************************************************************)
(* The timeout list and the clocks.                                        *)
(***************************************************************************)
\* sys_timeout for a handler that is not in the list.
LEMMA ListAfterTimeout ==
  ASSUME NEW q \in Seq(Entry), NEW h \in Timer, NEW msecs \in Nat, ~InList(q, h),
         NEW l \in [Timer -> Nat], NEW o \in [Timer -> Nat],
         Distinct(q), DueRight(q, l, o)
  PROVE  LET p == sys_timeout(q, h, msecs) IN
         /\ p \in Seq(Entry) /\ p # <<>> /\ Distinct(p)
         /\ DueRight(p, [l EXCEPT ![h] = msecs], [o EXCEPT ![h] = msecs])
         /\ \A g : InList(p, g) <=> g = h \/ InList(q, g)
<1> DEFINE p == sys_timeout(q, h, msecs)
           ll == [l EXCEPT ![h] = msecs]
           oo == [o EXCEPT ![h] = msecs]
<1>1. /\ p \in Seq(Entry) /\ Len(p) = Len(q) + 1
      /\ \E k \in 0 .. Len(q) :
           /\ p[k + 1].h = h /\ Due(p, k + 1) = msecs
           /\ \A i \in 1 .. k : p[i].h = q[i].h /\ Due(p, i) = Due(q, i)
           /\ \A i \in k + 1 .. Len(q) :
                p[i + 1].h = q[i].h /\ Due(p, i + 1) = Due(q, i)
  BY TimeoutDue
<1> HIDE DEF p
<1>2. PICK k \in 0 .. Len(q) :
           /\ p[k + 1].h = h /\ Due(p, k + 1) = msecs
           /\ \A i \in 1 .. k : p[i].h = q[i].h /\ Due(p, i) = Due(q, i)
           /\ \A i \in k + 1 .. Len(q) :
                p[i + 1].h = q[i].h /\ Due(p, i + 1) = Due(q, i)
  BY <1>1
<1> DEFINE from(i) == IF i <= k THEN i ELSE i - 1
<1>3. ASSUME NEW i \in 1 .. Len(p), i # k + 1
      PROVE  /\ from(i) \in 1 .. Len(q)
             /\ p[i].h = q[from(i)].h /\ Due(p, i) = Due(q, from(i))
  <2>1. CASE i <= k
    BY <1>2, <2>1
  <2>2. CASE i > k
    <3>1. i - 1 \in k + 1 .. Len(q) /\ (i - 1) + 1 = i
      BY <1>1, <1>3, <2>2
    <3> QED BY <1>2, <2>2, <3>1
  <2> QED BY <2>1, <2>2
<1>4. ASSUME NEW i \in 1 .. Len(p) PROVE p[i].h = h <=> i = k + 1
  BY <1>2, <1>3 DEF InList
<1>5. Distinct(p)
  <2> SUFFICES ASSUME NEW i \in 1 .. Len(p), NEW j \in 1 .. Len(p), p[i].h = p[j].h
               PROVE  i = j
    BY DEF Distinct
  <2>1. CASE i = k + 1 \/ j = k + 1
    BY <1>4, <2>1
  <2>2. CASE i # k + 1 /\ j # k + 1
    <3>1. from(i) = from(j)
      BY <1>3, <2>2 DEF Distinct
    <3> QED BY <2>2, <3>1
  <2> QED BY <2>1, <2>2
<1>6. DueRight(p, ll, oo)
  <2> SUFFICES ASSUME NEW i \in 1 .. Len(p)
               PROVE  Due(p, i) = oo[p[i].h] /\ ll[p[i].h] <= oo[p[i].h]
    BY DEF DueRight
  <2>1. p[i].h \in Timer
    BY <1>1, EntryType
  <2>2. CASE i = k + 1
    BY <1>2, <2>2
  <2>3. CASE i # k + 1
    <3>1. p[i].h # h /\ oo[p[i].h] = o[p[i].h] /\ ll[p[i].h] = l[p[i].h]
      BY <1>4, <2>1, <2>3
    <3> HIDE DEF ll, oo
    <3> QED BY <1>3, <2>3, <3>1 DEF DueRight
  <2> QED BY <2>2, <2>3
<1>7. ASSUME NEW g PROVE InList(p, g) <=> g = h \/ InList(q, g)
  <2>1. CASE InList(p, g)
    BY <1>2, <1>3, <2>1 DEF InList
  <2>2. CASE g = h
    <3>1. k + 1 \in 1 .. Len(p)
      BY <1>1
    <3> QED BY <1>2, <2>2, <3>1 DEF InList
  <2>3. CASE InList(q, g)
    <3>1. PICK j \in 1 .. Len(q) : q[j].h = g
      BY <2>3 DEF InList
    <3>2. j <= k => p[j].h = g /\ j \in 1 .. Len(p)
      BY <1>1, <1>2, <3>1
    <3>3. j > k => p[j + 1].h = g /\ j + 1 \in 1 .. Len(p)
      BY <1>1, <1>2, <3>1
    <3>4. InList(p, g)
      BY <3>2, <3>3 DEF InList
    <3> QED BY <2>3, <3>4
  <2> QED BY <2>1, <2>2, <2>3
<1>8. p # <<>>
  BY <1>1
<1> QED
  BY <1>1, <1>5, <1>6, <1>7, <1>8 DEF p

\* p is q without entry k, all others due d earlier.
Gone(q, p, k, d) ==
  /\ Len(p) = Len(q) - 1
  /\ \A i \in 1 .. k - 1 : p[i].h = q[i].h /\ Due(p, i) = Due(q, i) - d
  /\ \A i \in k .. Len(q) - 1 : p[i].h = q[i + 1].h /\ Due(p, i) = Due(q, i + 1) - d

\* The clocks l and o are right for the entries of q other than k, d later.
ClocksFit(q, k, d, l, o) ==
  \A i \in 1 .. Len(q) :
    i # k => o[q[i].h] = Due(q, i) - d /\ l[q[i].h] <= o[q[i].h]

\* An entry gone from the list.
LEMMA ListAfterGone ==
  ASSUME NEW q \in Seq(Entry), NEW p \in Seq(Entry), NEW k \in 1 .. Len(q),
         NEW d \in Int, NEW ll, NEW oo,
         Gone(q, p, k, d), ClocksFit(q, k, d, ll, oo), Distinct(q)
  PROVE  /\ Distinct(p) /\ DueRight(p, ll, oo)
         /\ \A g : InList(p, g) <=> g # q[k].h /\ InList(q, g)
<1> USE DEF Gone
<1> DEFINE from(i) == IF i < k THEN i ELSE i + 1
<1>1. ASSUME NEW i \in 1 .. Len(p)
      PROVE  /\ from(i) \in 1 .. Len(q) /\ from(i) # k
             /\ p[i].h = q[from(i)].h /\ Due(p, i) = Due(q, from(i)) - d
  <2>1. CASE i < k
    <3>1. i \in 1 .. k - 1
      BY <2>1
    <3> QED BY <2>1, <3>1
  <2>2. CASE i >= k
    <3>1. i \in k .. Len(q) - 1
      BY <2>2
    <3> QED BY <2>2, <3>1
  <2> QED BY <2>1, <2>2
<1>2. Distinct(p)
  <2> SUFFICES ASSUME NEW i \in 1 .. Len(p), NEW j \in 1 .. Len(p), p[i].h = p[j].h
               PROVE  i = j
    BY DEF Distinct
  <2>1. from(i) = from(j)
    BY <1>1 DEF Distinct
  <2> QED BY <2>1
<1>3. DueRight(p, ll, oo)
  <2> SUFFICES ASSUME NEW i \in 1 .. Len(p)
               PROVE  Due(p, i) = oo[p[i].h] /\ ll[p[i].h] <= oo[p[i].h]
    BY DEF DueRight
  <2> HIDE DEF from
  <2> QED BY <1>1 DEF ClocksFit
<1>4. ASSUME NEW g PROVE InList(p, g) <=> g # q[k].h /\ InList(q, g)
  <2>1. ASSUME InList(p, g) PROVE g # q[k].h /\ InList(q, g)
    <3>1. PICK i \in 1 .. Len(p) : p[i].h = g
      BY <2>1 DEF InList
    <3>2. from(i) \in 1 .. Len(q) /\ from(i) # k /\ q[from(i)].h = g
      BY <1>1, <3>1
    <3> HIDE DEF from
    <3> QED BY <3>2 DEF InList, Distinct
  <2>2. ASSUME g # q[k].h, InList(q, g) PROVE InList(p, g)
    <3>1. PICK j \in 1 .. Len(q) : q[j].h = g
      BY <2>2 DEF InList
    <3>2. j < k \/ j > k
      BY <2>2, <3>1
    <3>3. j < k => j \in 1 .. k - 1 /\ j \in 1 .. Len(p)
      OBVIOUS
    <3>4. j > k => j - 1 \in k .. Len(q) - 1 /\ j - 1 \in 1 .. Len(p) /\ (j - 1) + 1 = j
      OBVIOUS
    <3> QED BY <3>1, <3>2, <3>3, <3>4 DEF InList
  <2> QED BY <2>1, <2>2
<1> QED
  BY <1>2, <1>3, <1>4

\* sys_untimeout.
LEMMA ListAfterUntimeout ==
  ASSUME NEW q \in Seq(Entry), NEW h \in Timer, NEW msecs \in Nat,
         NEW l \in [Timer -> Nat], NEW o \in [Timer -> Nat],
         Distinct(q), DueRight(q, l, o)
  PROVE  LET p == sys_untimeout(q, h) IN
         /\ p \in Seq(Entry) /\ Distinct(p)
         /\ DueRight(p, [l EXCEPT ![h] = msecs], [o EXCEPT ![h] = msecs])
         /\ \A g : InList(p, g) <=> g # h /\ InList(q, g)
<1> DEFINE p == sys_untimeout(q, h)
           ll == [l EXCEPT ![h] = msecs]
           oo == [o EXCEPT ![h] = msecs]
<1>1. \/ p = q /\ \A k \in 1 .. Len(q) : q[k].h # h
      \/ \E k \in 1 .. Len(q) :
           /\ q[k].h = h
           /\ p \in Seq(Entry) /\ Len(p) = Len(q) - 1
           /\ \A i \in 1 .. k - 1 : p[i].h = q[i].h /\ Due(p, i) = Due(q, i)
           /\ \A i \in k .. Len(q) - 1 :
                p[i].h = q[i + 1].h /\ Due(p, i) = Due(q, i + 1)
  BY UntimeoutDue
<1> HIDE DEF p
<1>2. ASSUME NEW i \in 1 .. Len(q), q[i].h # h
      PROVE  oo[q[i].h] = Due(q, i) - 0 /\ ll[q[i].h] <= oo[q[i].h] /\ Due(q, i) \in Nat
  <2>1. q[i].h \in Timer
    BY EntryType
  <2>2. oo[q[i].h] = o[q[i].h] /\ ll[q[i].h] = l[q[i].h]
    BY <1>2, <2>1
  <2>3. Due(q, i) = o[q[i].h] /\ l[q[i].h] <= o[q[i].h]
    BY DEF DueRight
  <2>4. o[q[i].h] \in Nat
    BY <2>1
  <2> HIDE DEF ll, oo
  <2> QED BY <2>2, <2>3, <2>4
<1>3. CASE p = q /\ \A k \in 1 .. Len(q) : q[k].h # h
  <2>1. ASSUME NEW i \in 1 .. Len(q) PROVE Due(q, i) = oo[q[i].h] /\ ll[q[i].h] <= oo[q[i].h]
    <3> HIDE DEF ll, oo
    <3> QED BY <1>2, <1>3
  <2>2. DueRight(p, ll, oo)
    <3> HIDE DEF ll, oo
    <3> QED BY <1>3, <2>1 DEF DueRight
  <2>3. \A g : InList(p, g) <=> g # h /\ InList(q, g)
    BY <1>3 DEF InList
  <2> QED BY <1>3, <2>2, <2>3 DEF p
<1>4. CASE \E k \in 1 .. Len(q) :
           /\ q[k].h = h
           /\ p \in Seq(Entry) /\ Len(p) = Len(q) - 1
           /\ \A i \in 1 .. k - 1 : p[i].h = q[i].h /\ Due(p, i) = Due(q, i)
           /\ \A i \in k .. Len(q) - 1 :
                p[i].h = q[i + 1].h /\ Due(p, i) = Due(q, i + 1)
  <2>1. PICK k \in 1 .. Len(q) :
           /\ q[k].h = h
           /\ p \in Seq(Entry) /\ Len(p) = Len(q) - 1
           /\ \A i \in 1 .. k - 1 : p[i].h = q[i].h /\ Due(p, i) = Due(q, i)
           /\ \A i \in k .. Len(q) - 1 :
                p[i].h = q[i + 1].h /\ Due(p, i) = Due(q, i + 1)
    BY <1>4
  <2>2. \A i \in 1 .. Len(q) : Due(q, i) \in Nat
    BY DueNat
  <2>3. \A i \in 1 .. Len(q) : i # k => q[i].h # h
    BY <2>1 DEF Distinct
  <2>4. \A i \in 1 .. Len(q) : i # k =>
          oo[q[i].h] = Due(q, i) - 0 /\ ll[q[i].h] <= oo[q[i].h]
    <3> HIDE DEF ll, oo
    <3> QED BY <1>2, <2>3
  <2>5. ASSUME NEW i \in 1 .. k - 1 PROVE p[i].h = q[i].h /\ Due(p, i) = Due(q, i) - 0
    <3>1. i \in 1 .. Len(q)
      OBVIOUS
    <3> QED BY <2>1, <2>2, <3>1
  <2>6. ASSUME NEW i \in k .. Len(q) - 1
        PROVE  p[i].h = q[i + 1].h /\ Due(p, i) = Due(q, i + 1) - 0
    <3>1. i + 1 \in 1 .. Len(q)
      OBVIOUS
    <3> QED BY <2>1, <2>2, <3>1
  <2>7. p \in Seq(Entry) /\ 0 \in Int /\ Gone(q, p, k, 0)
    BY <2>1, <2>5, <2>6 DEF Gone
  <2> HIDE DEF ll, oo
  <2>8. ClocksFit(q, k, 0, ll, oo)
    BY <2>4 DEF ClocksFit
  <2>9. /\ Distinct(p) /\ DueRight(p, ll, oo)
        /\ \A g : InList(p, g) <=> g # q[k].h /\ InList(q, g)
    BY <2>7, <2>8, ListAfterGone
  <2> QED BY <2>1, <2>7, <2>9 DEF ll, oo, p
<1> QED
  BY <1>1, <1>3, <1>4

\* Time passes on a clock.
LEMMA PassType ==
  ASSUME NEW c \in [Timer -> Nat], NEW d \in Nat
  PROVE  /\ Pass(c, d) \in [Timer -> Nat]
         /\ \A h \in Timer : Pass(c, d)[h] = IF c[h] > d THEN c[h] - d ELSE 0
BY DEF Pass

\* The first timeout fires after its time.
LEMMA ListAfterFire ==
  ASSUME NEW q \in Seq(Entry), q # <<>>,
         NEW l \in [Timer -> Nat], NEW o \in [Timer -> Nat],
         Distinct(q), DueRight(q, l, o)
  PROVE  /\ Tail(q) \in Seq(Entry) /\ Distinct(Tail(q))
         /\ DueRight(Tail(q), Pass(l, q[1].time), Pass(o, q[1].time))
         /\ \A g : InList(Tail(q), g) <=> g # q[1].h /\ InList(q, g)
<1> DEFINE p == Tail(q)
           d == q[1].time
           ll == Pass(l, d)
           oo == Pass(o, d)
<1>1. /\ p \in Seq(Entry) /\ Len(p) = Len(q) - 1
      /\ \A i \in 1 .. Len(q) - 1 :
           p[i].h = q[i + 1].h /\ Due(p, i) = Due(q, i + 1) - q[1].time
  BY TailDue
<1>2. 1 \in 1 .. Len(q) /\ d \in Nat
  <2>1. 1 \in 1 .. Len(q)
    BY EmptySeq
  <2> QED BY <2>1, EntryType
<1>3. \A i \in 1 .. Len(q) - 1 : Due(p, i) \in Nat
  <2>1. \A i \in 0 .. Len(p) : Due(p, i) \in Nat
    BY <1>1, DueNat
  <2> QED BY <1>1, <2>1
<1>4. ASSUME NEW i \in 1 .. Len(q), i # 1
      PROVE  oo[q[i].h] = Due(q, i) - d /\ ll[q[i].h] <= oo[q[i].h]
  <2>1. q[i].h \in Timer
    BY EntryType
  <2>2. l[q[i].h] <= o[q[i].h] /\ Due(q, i) = o[q[i].h]
    BY DEF DueRight
  <2>3. Due(q, i) - d \in Nat
    <3>1. i - 1 \in 1 .. Len(q) - 1 /\ (i - 1) + 1 = i
      BY <1>4
    <3> QED BY <1>1, <1>3, <3>1
  <2>4. o[q[i].h] \in Nat /\ l[q[i].h] \in Nat
    BY <2>1
  <2>5. /\ oo[q[i].h] = IF o[q[i].h] > d THEN o[q[i].h] - d ELSE 0
        /\ ll[q[i].h] = IF l[q[i].h] > d THEN l[q[i].h] - d ELSE 0
    BY <1>2, <2>1, PassType
  <2> HIDE DEF oo, ll, d
  <2> QED BY <1>2, <2>2, <2>3, <2>4, <2>5
<1>5. \A i \in 1 .. 1 - 1 : p[i].h = q[i].h /\ Due(p, i) = Due(q, i) - d
  OBVIOUS
<1>6. \A i \in 1 .. Len(q) - 1 : p[i].h = q[i + 1].h /\ Due(p, i) = Due(q, i + 1) - d
  BY <1>1
<1> HIDE DEF ll, oo, p, d
<1>7. d \in Int /\ p \in Seq(Entry) /\ Gone(q, p, 1, d) /\ ClocksFit(q, 1, d, ll, oo)
  BY <1>1, <1>2, <1>4, <1>5, <1>6 DEF Gone, ClocksFit
<1>8. /\ Distinct(p) /\ DueRight(p, ll, oo)
      /\ \A g : InList(p, g) <=> g # q[1].h /\ InList(q, g)
  BY <1>2, <1>7, ListAfterGone
<1> QED
  BY <1>7, <1>8 DEF p, ll, oo, d

\* A message came after a wait: the wait is taken off the first entry.
LEMMA ListAfterWait ==
  ASSUME NEW q \in Seq(Entry), q # <<>>, NEW waited \in Nat, NEW more \in Nat,
         NEW l \in [Timer -> Nat], NEW o \in [Timer -> Nat],
         Distinct(q), DueRight(q, l, o)
  PROVE  LET p == [q EXCEPT ![1].time = Remaining(@, waited)] IN
         /\ p \in Seq(Entry) /\ Distinct(p) /\ p # <<>>
         /\ DueRight(p, Pass(l, waited + more),
                     Pass(o, IF waited < q[1].time THEN waited ELSE q[1].time))
         /\ \A g : InList(p, g) <=> InList(q, g)
<1> DEFINE r == Remaining(q[1].time, waited)
           p == [q EXCEPT ![1].time = r]
           d == IF waited < q[1].time THEN waited ELSE q[1].time
           ll == Pass(l, waited + more)
           oo == Pass(o, d)
<1>1. 1 \in 1 .. Len(q) /\ q[1].time \in Nat
  <2>1. 1 \in 1 .. Len(q)
    BY EmptySeq
  <2> QED BY <2>1, EntryType
<1>2. r \in Nat /\ d \in Nat /\ q[1].time - r = d /\ d <= waited /\ d <= q[1].time
  BY <1>1 DEF Remaining
<1>3. p = [q EXCEPT ![1].time = Remaining(@, waited)]
  OBVIOUS
<1>4. /\ p \in Seq(Entry) /\ Len(p) = Len(q)
      /\ \A i \in 1 .. Len(q) :
           p[i].h = q[i].h /\ Due(p, i) = Due(q, i) - (q[1].time - r)
  <2> HIDE DEF r
  <2> QED BY <1>2, FirstDue
<1> HIDE DEF p, r
<1>5. ASSUME NEW i \in 1 .. Len(p)
      PROVE  Due(p, i) = oo[p[i].h] /\ ll[p[i].h] <= oo[p[i].h]
  <2>1. q[i].h \in Timer /\ p[i].h = q[i].h /\ i \in 1 .. Len(q) /\ i \in 0 .. Len(p)
    BY <1>4, EntryType
  <2>2. l[q[i].h] <= o[q[i].h] /\ Due(q, i) = o[q[i].h]
    BY <2>1 DEF DueRight
  <2>3. Due(p, i) = Due(q, i) - d
    BY <1>2, <1>4, <2>1
  <2>4. Due(p, i) \in Nat
    BY <1>4, <2>1, DueNat
  <2>5. o[q[i].h] \in Nat /\ l[q[i].h] \in Nat
    BY <2>1
  <2>6. waited + more \in Nat
    OBVIOUS
  <2>7. oo[q[i].h] = IF o[q[i].h] > d THEN o[q[i].h] - d ELSE 0
    <3> HIDE DEF d
    <3> QED BY <1>2, <2>1, PassType
  <2>8. ll[q[i].h] = IF l[q[i].h] > waited + more THEN l[q[i].h] - (waited + more) ELSE 0
    BY <2>1, <2>6, PassType
  <2> HIDE DEF oo, ll, d
  <2> QED BY <1>2, <2>1, <2>2, <2>3, <2>4, <2>5, <2>7, <2>8
<1>6. DueRight(p, ll, oo)
  <2> HIDE DEF ll, oo
  <2> QED BY <1>5 DEF DueRight
<1>7. Distinct(p) /\ \A g : InList(p, g) <=> InList(q, g)
  BY <1>4 DEF Distinct, InList
<1>8. p # <<>>
  BY <1>1, <1>4
<1> QED
  BY <1>3, <1>4, <1>6, <1>7, <1>8

\* Poster steps leave the fetcher and the timers alone.
LEMMA PosterTimers ==
  ASSUME TimersInv, pc'[Fetcher] = pc[Fetcher], call'[Fetcher] = call[Fetcher],
         UNCHANGED <<timeoutVars, clockVars>>
  PROVE  TimersInv'
<1>1. /\ next_timeout' = next_timeout /\ left' = left /\ owed' = owed
      /\ pcbs' = pcbs /\ tcpip_tcp_timer_active' = tcpip_tcp_timer_active
  BY DEF timeoutVars, clockVars
<1> QED
  BY <1>1 DEF TimersInv, TimerKnown, TimedWait, At

\* So do the steps of sys_arch_mbox_fetch, with a timeout in the list as long
\* as the wait is a timed one.
LEMMA FetchTimers ==
  ASSUME MailboxInv, TimersInv, Fetch, UNCHANGED <<timeoutVars, clockVars>>
  PROVE  TimersInv'
<1>1. /\ next_timeout' = next_timeout /\ left' = left /\ owed' = owed
      /\ pcbs' = pcbs /\ tcpip_tcp_timer_active' = tcpip_tcp_timer_active
  BY DEF timeoutVars, clockVars
<1>2. call' = call
  BY DEF Fetch, FetchLock, FetchWaits, FetchWoken, FetchTimeout, FetchTake,
         FetchSignal, FetchUnlock
<1>3. /\ pc[Fetcher] \in {"lock", "locked", "wait_not_empty", "signal_not_full", "unlock"}
      /\ pc'[Fetcher] \in {"lock", "locked", "wait_not_empty", "signal_not_full",
                           "unlock", "fetched", "timeout"}
      /\ pc'[Fetcher] = "timeout" => call[Fetcher] = "timed"
  <2>1. Fetcher \in Threads /\ pc \in [Threads -> PosterLabels \cup FetcherLabels]
    BY DEF MailboxInv, TypeOK, Threads
  <2> USE <2>1 DEF At, Go
  <2>2. CASE FetchLock
    BY <2>2 DEF FetchLock
  <2>3. CASE FetchWaits
    BY <2>3 DEF FetchWaits
  <2>4. CASE FetchWoken
    BY <2>4 DEF FetchWoken
  <2>5. CASE FetchTimeout
    BY <2>5 DEF FetchTimeout
  <2>6. CASE FetchTake
    BY <2>6 DEF FetchTake
  <2>7. CASE FetchSignal
    BY <2>7 DEF FetchSignal
  <2>8. CASE FetchUnlock
    BY <2>8 DEF FetchUnlock
  <2> QED BY <2>2, <2>3, <2>4, <2>5, <2>6, <2>7, <2>8 DEF Fetch
<1>4. Distinct(next_timeout)' /\ DueRight(next_timeout, left, owed)'
  BY <1>1 DEF TimersInv
<1>5. TimerKnown'
  BY <1>1, <1>3 DEF TimersInv, TimerKnown, At
<1>6. TimedWait'
  BY <1>1, <1>2, <1>3 DEF TimersInv, TimedWait, At
<1> QED
  BY <1>4, <1>5, <1>6 DEF TimersInv

\* The time of the longest wait is a number.
LEMMA MaxMsNat == MaxMs \in Nat
<1>1. \E m \in Msecs \cup {TCP_TMR_INTERVAL} :
        \A n \in Msecs \cup {TCP_TMR_INTERVAL} : n <= m
  BY MsecsBounded
<1>2. MaxMs \in Msecs \cup {TCP_TMR_INTERVAL}
  BY <1>1 DEF MaxMs
<1> QED
  BY <1>2, TimeoutsAssumption

\* What a step of the thread outside the fetch leaves as it is.
ThreadOnly == UNCHANGED <<mboxVars, posted, got>>

\* sys_timeouts_mbox_fetch and the message or handler that follows it.
LEMMA OutsideStep ==
  ASSUME IInv, Again \/ FireTimeout \/ RunTcpTimer \/ MessageFetched \/ ProcessMessage
  PROVE  IInv'
<1> USE DEF At
<1>0. /\ MailboxInv /\ TypeOK /\ Fetcher \in Threads
      /\ Distinct(next_timeout) /\ DueRight(next_timeout, left, owed)
      /\ TimerKnown /\ TimedWait /\ next_timeout \in Seq(Entry)
      /\ left \in [Timer -> Nat] /\ owed \in [Timer -> Nat]
      /\ pcbs \in BOOLEAN /\ tcpip_tcp_timer_active \in BOOLEAN
  BY DEF IInv, MailboxInv, TimersInv, TypeOK, Threads
<1>1. ASSUME NEW l \in Outside \cup {"lock"}, Go(Fetcher, l), pc[Fetcher] \in Outside,
             ThreadOnly, call' = call \/ l = "lock",
             call' \in [Threads -> {"none", "post", "trypost", "timed", "untimed"}],
             next_timeout' \in Seq(Entry),
             tcpip_tcp_timer_active' \in BOOLEAN, pcbs' \in BOOLEAN,
             left' \in [Timer -> Nat], owed' \in [Timer -> Nat]
      PROVE  MailboxInv' /\ pc'[Fetcher] = l
  <2>1. /\ pc' \in [Threads -> PosterLabels \cup FetcherLabels] /\ pc'[Fetcher] = l
    <3>1. l \in PosterLabels \cup FetcherLabels
      BY DEF Outside, FetcherLabels
    <3> QED BY <1>0, <1>1, <3>1, Moved
  <2>2. TypeOK'
    BY <1>0, <1>1, <2>1 DEF TypeOK, ThreadOnly, mboxVars
  <2> QED BY <1>0, <1>1, <2>1, <2>2, OutsideKeeps DEF ThreadOnly
<1>2. CASE Again
  <2>1. CASE next_timeout # <<>> /\ next_timeout[1].time = 0
    <3>1. /\ Go(Fetcher, "timeout") /\ pc[Fetcher] = "idle" /\ ThreadOnly /\ call' = call
          /\ UNCHANGED <<next_timeout, tcpip_tcp_timer_active, pcbs, left, owed>>
      BY <1>2, <2>1 DEF Again, ThreadOnly, timeoutVars, clockVars
    <3>2. MailboxInv' /\ pc'[Fetcher] = "timeout"
      <4>1. call \in [Threads -> {"none", "post", "trypost", "timed", "untimed"}]
        BY <1>0 DEF TypeOK
      <4> QED BY <1>0, <1>1, <3>1, <4>1 DEF Outside
    <3>3. TimersInv'
      BY <1>0, <2>1, <3>1, <3>2 DEF TimersInv, TimerKnown, TimedWait
    <3> QED BY <3>2, <3>3 DEF IInv
  <2>2. CASE ~(next_timeout # <<>> /\ next_timeout[1].time = 0)
    <3>1. /\ Go(Fetcher, "lock") /\ pc[Fetcher] = "idle" /\ ThreadOnly
          /\ call' = [call EXCEPT ![Fetcher] =
                        IF next_timeout # <<>> THEN "timed" ELSE "untimed"]
          /\ UNCHANGED <<next_timeout, tcpip_tcp_timer_active, pcbs, left, owed>>
      BY <1>2, <2>2 DEF Again, StartFetch, ThreadOnly, timeoutVars, clockVars
    <3>2. /\ call' \in [Threads -> {"none", "post", "trypost", "timed", "untimed"}]
          /\ call'[Fetcher] = "timed" => next_timeout # <<>>
      BY <1>0, <3>1 DEF TypeOK
    <3>3. MailboxInv' /\ pc'[Fetcher] = "lock"
      BY <1>0, <1>1, <3>1, <3>2 DEF Outside
    <3>4. TimersInv'
      BY <1>0, <3>1, <3>2, <3>3 DEF TimersInv, TimerKnown, TimedWait
    <3> QED BY <3>3, <3>4 DEF IInv
  <2> QED BY <2>1, <2>2
<1>3. CASE FireTimeout
  <2> DEFINE l == IF next_timeout[1].h = "tcp" THEN "tcp_tmr" ELSE "process"
  <2>1. /\ Go(Fetcher, l) /\ pc[Fetcher] = "timeout" /\ ThreadOnly /\ call' = call
        /\ next_timeout' = Tail(next_timeout)
        /\ left' = Pass(left, next_timeout[1].time)
        /\ owed' = Pass(owed, next_timeout[1].time)
        /\ UNCHANGED <<tcpip_tcp_timer_active, pcbs>>
    BY <1>3 DEF FireTimeout, ThreadOnly
  <2>2. next_timeout # <<>>
    BY <1>0, <2>1 DEF TimedWait
  <2>3. 1 \in 1 .. Len(next_timeout) /\ next_timeout[1].time \in Nat
    <3>1. 1 \in 1 .. Len(next_timeout)
      BY <1>0, <2>2, EmptySeq
    <3> QED BY <1>0, <3>1, EntryType
  <2>4. left' \in [Timer -> Nat] /\ owed' \in [Timer -> Nat]
    BY <1>0, <2>1, <2>3, PassType
  <2>5. /\ next_timeout' \in Seq(Entry) /\ Distinct(next_timeout)'
        /\ DueRight(next_timeout, left, owed)'
        /\ \A g : InList(next_timeout', g) <=>
                    g # next_timeout[1].h /\ InList(next_timeout, g)
    BY <1>0, <2>1, <2>2, ListAfterFire
  <2>6. MailboxInv' /\ pc'[Fetcher] = l
    <3>1. call \in [Threads -> {"none", "post", "trypost", "timed", "untimed"}]
      BY <1>0 DEF TypeOK
    <3>2. l \in Outside
      BY DEF Outside
    <3> HIDE DEF l
    <3> QED BY <1>0, <1>1, <2>1, <2>4, <2>5, <3>1, <3>2 DEF Outside
  <2>7. InList(next_timeout, next_timeout[1].h)
    BY <2>3 DEF InList
  <2>8. TimerKnown'
    BY <1>0, <2>1, <2>5, <2>6, <2>7 DEF TimerKnown
  <2>9. TimedWait'
    BY <2>6 DEF TimedWait
  <2> QED BY <2>5, <2>6, <2>8, <2>9 DEF TimersInv, IInv
<1>4. CASE RunTcpTimer
  <2>1. PICK more \in BOOLEAN :
        /\ Go(Fetcher, "idle") /\ pc[Fetcher] = "tcp_tmr" /\ ThreadOnly /\ call' = call
        /\ tcpip_tcp_timer(more)
        /\ Set("tcp", IF pcbs' THEN TCP_TMR_INTERVAL ELSE NotSet)
    BY <1>4 DEF RunTcpTimer, ThreadOnly
  <2>2. /\ pcbs' \in BOOLEAN /\ tcpip_tcp_timer_active' = pcbs' /\ "tcp" \in Timer
        /\ TCP_TMR_INTERVAL \in Nat /\ NotSet \in Nat
    BY <1>0, <2>1, TimeoutsAssumption DEF tcpip_tcp_timer, Timer, NotSet
  <2>3. ~InList(next_timeout, "tcp")
    BY <1>0, <2>1 DEF TimerKnown
  <2>4. /\ left' \in [Timer -> Nat] /\ owed' \in [Timer -> Nat]
        /\ next_timeout' \in Seq(Entry) /\ Distinct(next_timeout)'
        /\ DueRight(next_timeout, left, owed)'
        /\ InList(next_timeout', "tcp") <=> pcbs'
    <3>1. CASE pcbs'
      <4>1. /\ next_timeout' = sys_timeout(next_timeout, "tcp", TCP_TMR_INTERVAL)
            /\ left' = [left EXCEPT !["tcp"] = TCP_TMR_INTERVAL]
            /\ owed' = [owed EXCEPT !["tcp"] = TCP_TMR_INTERVAL]
        BY <2>1, <3>1 DEF tcpip_tcp_timer, Set
      <4>2. left' \in [Timer -> Nat] /\ owed' \in [Timer -> Nat]
        BY <1>0, <2>2, <4>1
      <4>3. /\ next_timeout' \in Seq(Entry) /\ Distinct(next_timeout)'
            /\ DueRight(next_timeout, left, owed)' /\ InList(next_timeout', "tcp")
        BY <1>0, <2>2, <2>3, <4>1, ListAfterTimeout
      <4> QED BY <3>1, <4>2, <4>3
    <3>2. CASE ~pcbs'
      <4>1. /\ next_timeout' = next_timeout
            /\ left' = [left EXCEPT !["tcp"] = NotSet]
            /\ owed' = [owed EXCEPT !["tcp"] = NotSet]
        BY <2>1, <3>2 DEF tcpip_tcp_timer, Set
      <4>2. left' \in [Timer -> Nat] /\ owed' \in [Timer -> Nat]
        BY <1>0, <2>2, <4>1
      <4>3. DueRight(next_timeout, left, owed)'
        <5> SUFFICES ASSUME NEW k \in 1 .. Len(next_timeout)
                     PROVE  /\ Due(next_timeout, k) = owed'[next_timeout[k].h]
                            /\ left'[next_timeout[k].h] <= owed'[next_timeout[k].h]
          BY <4>1 DEF DueRight
        <5>1. next_timeout[k].h # "tcp" /\ next_timeout[k].h \in Timer
          BY <1>0, <2>3, EntryType DEF InList
        <5>2. /\ owed'[next_timeout[k].h] = owed[next_timeout[k].h]
              /\ left'[next_timeout[k].h] = left[next_timeout[k].h]
          BY <1>0, <4>1, <5>1
        <5> QED BY <1>0, <5>2 DEF DueRight
      <4> QED BY <1>0, <2>3, <3>2, <4>1, <4>2, <4>3
    <3> QED BY <3>1, <3>2
  <2>5. MailboxInv' /\ pc'[Fetcher] = "idle"
    <3>1. call \in [Threads -> {"none", "post", "trypost", "timed", "untimed"}]
      BY <1>0 DEF TypeOK
    <3> QED BY <1>0, <1>1, <2>1, <2>2, <2>4, <3>1 DEF Outside
  <2>6. TimerKnown' /\ TimedWait'
    BY <2>2, <2>4, <2>5 DEF TimerKnown, TimedWait
  <2> QED BY <2>4, <2>5, <2>6 DEF TimersInv, IInv
<1>5. CASE MessageFetched
  <2>1. /\ Go(Fetcher, "process") /\ pc[Fetcher] = "fetched" /\ ThreadOnly /\ call' = call
        /\ UNCHANGED <<tcpip_tcp_timer_active, pcbs>>
    BY <1>5 DEF MessageFetched, ThreadOnly
  <2>2. /\ left' \in [Timer -> Nat] /\ owed' \in [Timer -> Nat]
        /\ next_timeout' \in Seq(Entry) /\ Distinct(next_timeout)'
        /\ DueRight(next_timeout, left, owed)'
        /\ \A g : InList(next_timeout', g) <=> InList(next_timeout, g)
    <3>1. CASE call[Fetcher] = "timed"
      <4>1. PICK waited \in 0 .. MaxMs, more \in 0 .. 1 :
              /\ next_timeout' =
                   [next_timeout EXCEPT ![1].time = Remaining(@, waited)]
              /\ left' = Pass(left, waited + more)
              /\ owed' = Pass(owed, IF waited < next_timeout[1].time
                                      THEN waited ELSE next_timeout[1].time)
        BY <1>5, <3>1 DEF MessageFetched
      <4>2. waited \in Nat /\ more \in Nat
        BY MaxMsNat
      <4>3. next_timeout # <<>>
        BY <1>0, <2>1, <3>1 DEF TimedWait
      <4>4. next_timeout[1].time \in Nat
        <5>1. 1 \in 1 .. Len(next_timeout)
          BY <1>0, <4>3, EmptySeq
        <5> QED BY <1>0, <5>1, EntryType
      <4>5. left' \in [Timer -> Nat] /\ owed' \in [Timer -> Nat]
        <5>1. waited + more \in Nat
          BY <4>2
        <5>2. (IF waited < next_timeout[1].time
                 THEN waited ELSE next_timeout[1].time) \in Nat
          BY <4>2, <4>4
        <5>3. left' \in [Timer -> Nat]
          BY <1>0, <4>1, <5>1, PassType
        <5>4. owed' \in [Timer -> Nat]
          BY <1>0, <4>1, <5>2, PassType
        <5> QED BY <5>3, <5>4
      <4> QED BY <1>0, <4>1, <4>2, <4>3, <4>5, ListAfterWait
    <3>2. CASE call[Fetcher] # "timed"
      <4>1. UNCHANGED <<next_timeout, left, owed>>
        BY <1>5, <3>2 DEF MessageFetched, clockVars
      <4> QED BY <1>0, <4>1
    <3> QED BY <3>1, <3>2
  <2>3. MailboxInv' /\ pc'[Fetcher] = "process"
    <3>1. call \in [Threads -> {"none", "post", "trypost", "timed", "untimed"}]
      BY <1>0 DEF TypeOK
    <3> QED BY <1>0, <1>1, <2>1, <2>2, <3>1 DEF Outside
  <2>4. TimerKnown' /\ TimedWait'
    BY <1>0, <2>1, <2>2, <2>3 DEF TimerKnown, TimedWait
  <2> QED BY <2>2, <2>3, <2>4 DEF TimersInv, IInv
<1>6. CASE ProcessMessage
  <2>1. /\ Go(Fetcher, "idle") /\ pc[Fetcher] = "process" /\ ThreadOnly /\ call' = call
    BY <1>6 DEF ProcessMessage, Process, ThreadOnly
  <2>2. /\ left' \in [Timer -> Nat] /\ owed' \in [Timer -> Nat]
        /\ next_timeout' \in Seq(Entry) /\ Distinct(next_timeout)'
        /\ DueRight(next_timeout, left, owed)'
        /\ pcbs' \in BOOLEAN /\ tcpip_tcp_timer_active' \in BOOLEAN
        /\ tcpip_tcp_timer_active' <=> InList(next_timeout', "tcp")
        /\ pcbs' => tcpip_tcp_timer_active'
    <3>0. /\ tcpip_tcp_timer_active <=> InList(next_timeout, "tcp")
          /\ pcbs => tcpip_tcp_timer_active
      BY <1>0, <2>1 DEF TimerKnown
    <3>1. CASE \E h \in Handlers, msecs \in Msecs : SetTimeout(h, msecs)
      <4>1. PICK h \in Handlers, msecs \in Msecs : SetTimeout(h, msecs)
        BY <3>1
      <4>2. h \in Timer /\ h # "tcp" /\ msecs \in Nat /\ ~InList(next_timeout, h)
        BY <4>1, TimeoutsAssumption DEF Timer, SetTimeout, Armed, InList
      <4>3. /\ next_timeout' = sys_timeout(next_timeout, h, msecs)
            /\ left' = [left EXCEPT ![h] = msecs] /\ owed' = [owed EXCEPT ![h] = msecs]
            /\ UNCHANGED <<tcpip_tcp_timer_active, pcbs>>
        BY <4>1 DEF SetTimeout, Set
      <4>4. left' \in [Timer -> Nat] /\ owed' \in [Timer -> Nat]
        BY <1>0, <4>2, <4>3
      <4>5. /\ next_timeout' \in Seq(Entry) /\ Distinct(next_timeout)'
            /\ DueRight(next_timeout, left, owed)'
            /\ \A g : InList(next_timeout', g) <=> g = h \/ InList(next_timeout, g)
        BY <1>0, <4>2, <4>3, ListAfterTimeout
      <4> QED BY <1>0, <3>0, <4>2, <4>3, <4>4, <4>5
    <3>2. CASE \E h \in Handlers : ClearTimeout(h)
      <4>1. PICK h \in Handlers : ClearTimeout(h)
        BY <3>2
      <4>2. h \in Timer /\ h # "tcp" /\ NotSet \in Nat
        BY TimeoutsAssumption DEF Timer, NotSet
      <4>3. /\ next_timeout' = sys_untimeout(next_timeout, h)
            /\ left' = [left EXCEPT ![h] = NotSet] /\ owed' = [owed EXCEPT ![h] = NotSet]
            /\ UNCHANGED <<tcpip_tcp_timer_active, pcbs>>
        BY <4>1 DEF ClearTimeout, Set
      <4>4. left' \in [Timer -> Nat] /\ owed' \in [Timer -> Nat]
        BY <1>0, <4>2, <4>3
      <4>5. /\ next_timeout' \in Seq(Entry) /\ Distinct(next_timeout)'
            /\ DueRight(next_timeout, left, owed)'
            /\ \A g : InList(next_timeout', g) <=> g # h /\ InList(next_timeout, g)
        BY <1>0, <4>2, <4>3, ListAfterUntimeout
      <4> QED BY <1>0, <3>0, <4>2, <4>3, <4>4, <4>5
    <3>3. CASE RegisterPcb
      <4>1. pcbs' = TRUE /\ tcpip_tcp_timer_active' = TRUE
        BY <1>0, <3>3 DEF RegisterPcb, tcp_timer_needed, NeedsTimer
      <4>2. CASE tcpip_tcp_timer_active
        <5>1. next_timeout' = next_timeout /\ left' = left /\ owed' = owed
          BY <3>3, <4>2 DEF RegisterPcb, tcp_timer_needed, NeedsTimer, clockVars
        <5> QED BY <1>0, <3>0, <4>1, <4>2, <5>1
      <4>3. CASE ~tcpip_tcp_timer_active
        <5>1. /\ next_timeout' = sys_timeout(next_timeout, "tcp", TCP_TMR_INTERVAL)
              /\ left' = [left EXCEPT !["tcp"] = TCP_TMR_INTERVAL]
              /\ owed' = [owed EXCEPT !["tcp"] = TCP_TMR_INTERVAL]
          BY <3>3, <4>3 DEF RegisterPcb, tcp_timer_needed, NeedsTimer, Set
        <5>2. "tcp" \in Timer /\ TCP_TMR_INTERVAL \in Nat /\ ~InList(next_timeout, "tcp")
          BY <3>0, <4>3, TimeoutsAssumption DEF Timer
        <5>3. left' \in [Timer -> Nat] /\ owed' \in [Timer -> Nat]
          BY <1>0, <5>1, <5>2
        <5>4. /\ next_timeout' \in Seq(Entry) /\ Distinct(next_timeout)'
              /\ DueRight(next_timeout, left, owed)' /\ InList(next_timeout', "tcp")
          BY <1>0, <5>1, <5>2, ListAfterTimeout
        <5> QED BY <4>1, <5>3, <5>4
      <4> QED BY <4>2, <4>3
    <3>4. CASE RemovePcb
      BY <1>0, <3>0, <3>4 DEF RemovePcb, clockVars
    <3>5. CASE UNCHANGED <<timeoutVars, clockVars>>
      BY <1>0, <3>0, <3>5 DEF timeoutVars, clockVars
    <3> QED BY <1>6, <3>1, <3>2, <3>3, <3>4, <3>5 DEF ProcessMessage, Process
  <2>3. MailboxInv' /\ pc'[Fetcher] = "idle"
    <3>1. call \in [Threads -> {"none", "post", "trypost", "timed", "untimed"}]
      BY <1>0 DEF TypeOK
    <3> QED BY <1>0, <1>1, <2>1, <2>2, <3>1 DEF Outside
  <2>4. TimerKnown' /\ TimedWait'
    BY <2>2, <2>3 DEF TimerKnown, TimedWait
  <2> QED BY <2>2, <2>3, <2>4 DEF TimersInv, IInv
<1> QED
  BY <1>2, <1>3, <1>4, <1>5, <1>6

-----------------------------------------------------------------------------
(***************************************************************************)
(* Theorems.                                                               *)
(***************************************************************************)
\* Init establishes the invariant.
LEMMA InitIInv == Init => IInv
<1> SUFFICES ASSUME Init PROVE IInv
  OBVIOUS
<1> USE DEF At
<1>0. /\ Fetcher \in Threads /\ SYS_MBOX_SIZE \in Nat /\ SYS_MBOX_SIZE > 1
      /\ \A t \in Posters : t \in Threads /\ MaxPosts[t] \in Nat
  BY MailboxAssumption DEF Threads
<1>1. /\ first = 0 /\ last = 0 /\ wait_send = 0
      /\ msgs = [i \in 0 .. SYS_MBOX_SIZE - 1 |-> NoMessage]
      /\ sem = [not_empty |-> 0, not_full |-> 0, mutex |-> 1]
      /\ pc = [t \in Threads |-> "idle"] /\ call = [t \in Threads |-> "none"]
      /\ posted = [t \in Posters |-> 0]
      /\ next_timeout = <<>> /\ tcpip_tcp_timer_active = FALSE /\ pcbs = FALSE
      /\ left = [h \in Timer |-> 0] /\ owed = [h \in Timer |-> 0]
  BY DEF Init, MboxInit, sys_mbox_new, TimeoutsInit, Timer, NotSet
<1>2. TypeOK
  <2>1. sem \in [{"not_empty", "not_full", "mutex"} -> {0, 1}]
    BY <1>1
  <2>2. next_timeout \in Seq(Entry)
    BY <1>1
  <2> QED BY <1>1, <2>1, <2>2 DEF TypeOK, PosterLabels
<1>3. Places /\ RingBounded /\ PostsLeft /\ FetcherWoken /\ PosterWoken
  BY <1>0, <1>1 DEF Places, RingBounded, PostsLeft, FetcherWoken, PosterWoken,
                    PosterLabels, FetcherLabels, Empty
<1>4. MutexHeld
  <2>1. sem["mutex"] = 1
    BY <1>1
  <2> QED BY <1>1, <2>1 DEF MutexHeld, Holds
<1>5. WaitersCounted
  <2>1. WaitingPosters = {}
    BY <1>0, <1>1 DEF WaitingPosters
  <2> QED BY <1>1, <2>1, FS_EmptySet DEF WaitersCounted
<1>6. TimersInv
  BY <1>0, <1>1 DEF TimersInv, Distinct, DueRight, TimerKnown, TimedWait, InList
<1> QED
  BY <1>2, <1>3, <1>4, <1>5, <1>6 DEF IInv, MailboxInv

\* Every step keeps the invariant.
LEMMA NextIInv == IInv /\ [Next]_allVars => IInv'
<1> SUFFICES ASSUME IInv, [Next]_allVars PROVE IInv'
  OBVIOUS
<1>0. MailboxInv /\ TimersInv /\ Fetcher \notin Posters /\ Fetcher \in Threads /\ TypeOK
      /\ \A t \in Posters : t \in Threads
  BY MailboxAssumption DEF IInv, MailboxInv, Threads
<1>1. CASE Again \/ FireTimeout \/ RunTcpTimer \/ MessageFetched \/ ProcessMessage
  BY <1>1, OutsideStep
<1>2. CASE FetchStep
  BY <1>0, <1>2, FetchKeeps, FetchTimers DEF FetchStep, IInv
<1>3. CASE PosterStarts
  <2>1. PICK t \in Posters, blocking \in BOOLEAN : StartPost(t, blocking)
    BY <1>3 DEF PosterStarts
  <2>2. UNCHANGED <<timeoutVars, clockVars>>
    BY <1>3 DEF PosterStarts
  <2>3. pc'[Fetcher] = pc[Fetcher] /\ call'[Fetcher] = call[Fetcher]
    BY <1>0, <2>1 DEF StartPost, Go, TypeOK
  <2> QED BY <1>0, <2>1, <2>2, <2>3, StartPostKeeps, PosterTimers DEF IInv
<1>4. CASE \E t \in Posters : PosterStep(t)
  <2>1. PICK t \in Posters : Post(t) /\ UNCHANGED <<timeoutVars, clockVars>>
    BY <1>4 DEF PosterStep
  <2>2. call' = call /\ \E l : Go(t, l)
    BY <2>1 DEF Post, PostLock, PostWaits, PostWoken, PostRelock, TryPostFails,
                PostStore, PostSignal, PostUnlock
  <2>3. pc'[Fetcher] = pc[Fetcher] /\ call'[Fetcher] = call[Fetcher]
    BY <1>0, <2>2 DEF Go, TypeOK
  <2> QED BY <1>0, <2>1, <2>3, PostKeeps, PosterTimers DEF IInv
<1>5. CASE UNCHANGED allVars
  <2>1. /\ UNCHANGED <<first, last, msgs, sem, wait_send, pc, call, posted, got>>
        /\ UNCHANGED <<next_timeout, tcpip_tcp_timer_active, pcbs, left, owed>>
    BY <1>5 DEF allVars, vars, mboxVars, threadVars, timeoutVars, clockVars
  <2>2. TypeOK' /\ Places' /\ MutexHeld' /\ RingBounded' /\ PostsLeft'
    BY <1>0, <2>1 DEF MailboxInv, TypeOK, Places, MutexHeld, Holds, RingBounded, PostsLeft
  <2>3. WaitersCounted' /\ FetcherWoken' /\ PosterWoken'
    BY <1>0, <2>1 DEF MailboxInv, WaitersCounted, WaitingPosters, FetcherWoken,
                      PosterWoken, At, Empty
  <2>4. TimersInv'
    BY <1>0, <2>1 DEF TimersInv, Distinct, DueRight, TimerKnown, TimedWait, InList, At
  <2> QED BY <2>2, <2>3, <2>4 DEF IInv, MailboxInv
<1> QED
  BY <1>1, <1>2, <1>3, <1>4, <1>5 DEF Next, FetcherStep

\* The invariant holds throughout.
LEMMA SpecIInv == Spec => []IInv
BY InitIInv, NextIInv, PTL DEF Spec

\* What the mailbox code relies on: between sys_arch_sem_wait and
\* sys_sem_signal of the mutex there is one thread at most, and the counters
\* never leave the ring.
THEOREM MailboxExclusive == Spec => [](MutexHeld /\ RingBounded)
<1>1. IInv => MutexHeld /\ RingBounded
  BY DEF IInv, MailboxInv
<1> QED
  BY <1>1, SpecIInv, PTL

\* The wake-ups of sys_mbox_post and sys_arch_mbox_fetch, signalled for the first
\* message and for a waiting poster only and by semaphores that count to one,
\* are not lost.
THEOREM WakeUpsKept == Spec => []NoLostWakeUp
<1>1. IInv => NoLostWakeUp
  BY DEF IInv, MailboxInv, NoLostWakeUp
<1> QED
  BY <1>1, SpecIInv, PTL

\* The TCP timer is counted right.
LEMMA TimerCounted ==
  ASSUME IInv
  PROVE  TcpTimerArmed
<1>0. /\ next_timeout \in Seq(Entry) /\ Distinct(next_timeout) /\ TimerKnown
      /\ tcpip_tcp_timer_active \in BOOLEAN
  BY DEF IInv, MailboxInv, TimersInv, TypeOK
<1>1. CASE InList(next_timeout, "tcp")
  <2>1. PICK k \in 1 .. Len(next_timeout) : next_timeout[k].h = "tcp"
    BY <1>1 DEF InList
  <2>2. Entries("tcp") = {k}
    BY <1>0, <2>1 DEF Entries, Distinct
  <2>3. Cardinality(Entries("tcp")) = 1
    BY <2>2, FS_Singleton
  <2> QED BY <1>0, <1>1, <2>3 DEF TimerKnown, TcpTimerArmed
<1>2. CASE ~InList(next_timeout, "tcp")
  <2>1. Entries("tcp") = {}
    BY <1>2 DEF Entries, InList
  <2>2. Cardinality(Entries("tcp")) = 0
    BY <2>1, FS_EmptySet
  <2> QED BY <1>0, <1>2, <2>2 DEF TimerKnown, TcpTimerArmed
<1> QED
  BY <1>1, <1>2

\* The timeout list is exact for any handlers and times, whatever is set,
\* cleared and fetched in between: no entry is due early or late, and the TCP
\* timer is in the list exactly when timers.c thinks so.
THEOREM TimeoutListExact == Spec => []ListExact
<1>1. ASSUME IInv PROVE ListExact
  <2>1. next_timeout \in Seq(Entry) /\ DueRight(next_timeout, left, owed)
    BY <1>1 DEF IInv, MailboxInv, TimersInv, TypeOK
  <2>2. NeverEarly /\ DeltasExact
    <3>1. ASSUME NEW k \in 1 .. Len(next_timeout)
          PROVE  /\ Due(next_timeout, k) = owed[next_timeout[k].h]
                 /\ Due(next_timeout, k) >= left[next_timeout[k].h]
      <4>1. Due(next_timeout, k) \in Nat
        BY <2>1, DueNat
      <4>2. left \in [Timer -> Nat] /\ next_timeout[k].h \in Timer
        BY <1>1, <2>1, EntryType DEF IInv, MailboxInv, TypeOK
      <4> QED BY <2>1, <4>1, <4>2 DEF DueRight
    <3> QED BY <3>1 DEF NeverEarly, DeltasExact
  <2> QED BY <1>1, <2>2, TimerCounted DEF ListExact
<1> QED
  BY <1>1, SpecIInv, PTL

-----------------------------------------------------------------------------
(***************************************************************************)
(* The mailbox is a bounded queue.                                         *)
(***************************************************************************)
\* Numbers less than n apart lie in different slots of a ring of n.
LEMMA SlotsDiffer ==
  ASSUME NEW n \in Nat \ {0}, NEW a \in Nat, NEW b \in Nat, a < b, b < a + n
  PROVE  a % n # b % n
<1> DEFINE p == a \div n
           q == b \div n
           r == a % n
           s == b % n
<1>1. /\ p \in Int /\ q \in Int /\ r \in Int /\ s \in Int
      /\ a = n * p + r /\ b = n * q + s
  OBVIOUS
<1> HIDE DEF p, q, r, s
<1> SUFFICES ASSUME r = s PROVE FALSE
  BY DEF r, s
<1> DEFINE d == q - p
<1>2. d \in Int /\ b - a = n * d
  BY <1>1
<1> HIDE DEF d
<1>3. d <= 0 => n * d <= 0
  BY <1>2
<1>4. d >= 1 => n * d >= n
  BY <1>2
<1> QED
  BY <1>2, <1>3, <1>4

\* The slot of a counter.
LEMMA SlotInRing ==
  ASSUME NEW a \in Nat
  PROVE  a % SYS_MBOX_SIZE \in 0 .. SYS_MBOX_SIZE - 1
BY MailboxAssumption

Slot == Message \cup {NoMessage}

WaitingRead ==
  /\ Waiting \in Seq(Slot) /\ Len(Waiting) = last - first
  /\ \A i \in 1 .. last - first :
       Waiting[i] = msgs[(first + i - 1) % SYS_MBOX_SIZE]

\* The messages that wait, as a sequence.
LEMMA WaitingSeq == TypeOK /\ RingBounded => WaitingRead
<1> SUFFICES ASSUME TypeOK, RingBounded PROVE WaitingRead
  OBVIOUS
<1>1. last - first \in Nat /\ first \in Nat
  BY DEF TypeOK, RingBounded
<1>2. ASSUME NEW i \in 1 .. last - first
      PROVE  msgs[(first + i - 1) % SYS_MBOX_SIZE] \in Slot
  <2>1. first + i - 1 \in Nat
    BY <1>1
  <2>2. (first + i - 1) % SYS_MBOX_SIZE \in 0 .. SYS_MBOX_SIZE - 1
    BY <2>1, SlotInRing
  <2> QED BY <2>2 DEF TypeOK, Slot
<1>3. Waiting \in [1 .. last - first -> Slot]
  BY <1>2 DEF Waiting
<1>4. Waiting \in Seq(Slot) /\ Len(Waiting) = last - first
  BY <1>1, <1>3, FunctionIsSeq
<1> QED
  BY <1>4 DEF Waiting, WaitingRead

\* A post that stores its message puts it at the end of the queue.
LEMMA StorePuts ==
  ASSUME IInv, IInv', NEW t \in Posters, PostStore(t)
  PROVE  \E m \in Message : Fifo!Put(m)
<1>0. TypeOK /\ RingBounded /\ PostsLeft /\ TypeOK' /\ RingBounded' /\ t \in Threads
  BY DEF IInv, MailboxInv, Threads
<1>1. /\ first \in Nat /\ last \in Nat /\ first' = first /\ last' = last + 1
      /\ SYS_MBOX_SIZE \in Nat \ {0} /\ last - first \in Nat
      /\ last - first < SYS_MBOX_SIZE - 1
      /\ pc[t] = "locked" /\ got' = got
      /\ msgs' = [msgs EXCEPT ![last % SYS_MBOX_SIZE] = <<t, posted[t] + 1>>]
  BY <1>0, MailboxAssumption DEF PostStore, TypeOK, RingBounded, Full, At
<1> DEFINE m == <<t, posted[t] + 1>>
<1>2. m \in Message
  BY <1>0, <1>1, MessageType DEF PostsLeft, TypeOK
<1> HIDE DEF m
<1>3. /\ Waiting \in Seq(Slot) /\ Len(Waiting) = last - first
      /\ \A i \in 1 .. last - first :
           Waiting[i] = msgs[(first + i - 1) % SYS_MBOX_SIZE]
  BY <1>0, WaitingSeq DEF WaitingRead
<1>4. /\ Waiting' \in Seq(Slot) /\ Len(Waiting') = last - first + 1
      /\ \A i \in 1 .. last - first + 1 :
           Waiting'[i] = msgs'[(first + i - 1) % SYS_MBOX_SIZE]
  <2>1. TypeOK' /\ RingBounded' => WaitingRead'
    BY WaitingSeq, PTL
  <2>2. /\ Waiting' \in Seq(Slot) /\ Len(Waiting') = last' - first'
        /\ \A i \in 1 .. last' - first' :
             Waiting'[i] = msgs'[(first' + i - 1) % SYS_MBOX_SIZE]
    BY <1>0, <2>1 DEF WaitingRead
  <2>3. last' - first' = last - first + 1
    BY <1>1
  <2> QED BY <1>1, <2>2, <2>3
<1>5. last % SYS_MBOX_SIZE \in 0 .. SYS_MBOX_SIZE - 1
  BY <1>1, SlotInRing
<1>6. ASSUME NEW i \in 1 .. last - first PROVE Waiting'[i] = Waiting[i]
  <2>1. first + i - 1 \in Nat /\ first + i - 1 < last /\ last < first + i - 1 + SYS_MBOX_SIZE
    BY <1>1
  <2>2. (first + i - 1) % SYS_MBOX_SIZE # last % SYS_MBOX_SIZE
    BY <1>1, <2>1, SlotsDiffer
  <2>3. (first + i - 1) % SYS_MBOX_SIZE \in 0 .. SYS_MBOX_SIZE - 1
    BY <2>1, SlotInRing
  <2>4. msgs'[(first + i - 1) % SYS_MBOX_SIZE] = msgs[(first + i - 1) % SYS_MBOX_SIZE]
    BY <1>0, <1>1, <2>2, <2>3 DEF TypeOK
  <2>5. i \in 1 .. last - first + 1
    BY <1>1
  <2> QED BY <1>3, <1>4, <2>4, <2>5
<1>7. Waiting'[last - first + 1] = m
  <2>1. last - first + 1 \in 1 .. last - first + 1 /\ first + (last - first + 1) - 1 = last
    BY <1>1
  <2>2. msgs'[last % SYS_MBOX_SIZE] = m
    BY <1>0, <1>1, <1>5 DEF TypeOK, m
  <2> QED BY <1>4, <2>1, <2>2
<1>8. Waiting' = Append(Waiting, m)
  <2>1. m \in Slot
    BY <1>2 DEF Slot
  <2>2. /\ Append(Waiting, m) \in Seq(Slot)
        /\ Len(Append(Waiting, m)) = last - first + 1
        /\ \A i \in 1 .. last - first : Append(Waiting, m)[i] = Waiting[i]
        /\ Append(Waiting, m)[last - first + 1] = m
    BY <1>1, <1>3, <2>1
  <2>3. \A i \in 1 .. last - first + 1 : Waiting'[i] = Append(Waiting, m)[i]
    BY <1>1, <1>6, <1>7, <2>2
  <2> QED BY <1>4, <2>2, <2>3, SeqEqual
<1>9. Len(Waiting) < SYS_MBOX_SIZE - 1
  BY <1>1, <1>3
<1>10. Fifo!Put(m)
  BY <1>1, <1>8, <1>9 DEF Fifo!Put
<1> QED
  BY <1>2, <1>10

\* A fetch takes the first message.
LEMMA FetchTakes ==
  ASSUME IInv, IInv', FetchTake
  PROVE  Fifo!Take
<1>0. TypeOK /\ RingBounded /\ TypeOK' /\ RingBounded'
  BY DEF IInv, MailboxInv
<1>1. /\ first \in Nat /\ last \in Nat /\ first' = first + 1 /\ last' = last
      /\ last - first \in Nat \ {0} /\ msgs' = msgs
      /\ got' = Append(got, msgs[first % SYS_MBOX_SIZE])
  BY <1>0 DEF FetchTake, TypeOK, RingBounded, Empty
<1>2. /\ Waiting \in Seq(Slot) /\ Len(Waiting) = last - first
      /\ \A i \in 1 .. last - first :
           Waiting[i] = msgs[(first + i - 1) % SYS_MBOX_SIZE]
  BY <1>0, WaitingSeq DEF WaitingRead
<1>3. /\ Waiting' \in Seq(Slot) /\ Len(Waiting') = last - first - 1
      /\ \A i \in 1 .. last - first - 1 :
           Waiting'[i] = msgs[(first + 1 + i - 1) % SYS_MBOX_SIZE]
  <2>1. TypeOK' /\ RingBounded' => WaitingRead'
    BY WaitingSeq, PTL
  <2>2. /\ Waiting' \in Seq(Slot) /\ Len(Waiting') = last' - first'
        /\ \A i \in 1 .. last' - first' :
             Waiting'[i] = msgs'[(first' + i - 1) % SYS_MBOX_SIZE]
    BY <1>0, <2>1 DEF WaitingRead
  <2>3. last' - first' = last - first - 1
    BY <1>1
  <2> QED BY <1>1, <2>2, <2>3
<1>4. Waiting # <<>> /\ Head(Waiting) = msgs[first % SYS_MBOX_SIZE]
  <2>1. 1 \in 1 .. last - first /\ first + 1 - 1 = first
    BY <1>1
  <2>2. Waiting[1] = msgs[first % SYS_MBOX_SIZE]
    BY <1>2, <2>1
  <2>3. Waiting # <<>>
    BY <1>1, <1>2
  <2> QED BY <1>2, <2>2, <2>3
<1>5. Waiting' = Tail(Waiting)
  <2>1. /\ Tail(Waiting) \in Seq(Slot) /\ Len(Tail(Waiting)) = last - first - 1
        /\ \A i \in 1 .. last - first - 1 : Tail(Waiting)[i] = Waiting[i + 1]
    BY <1>1, <1>2, <1>4, HeadTailProperties
  <2>2. ASSUME NEW i \in 1 .. last - first - 1 PROVE Waiting'[i] = Tail(Waiting)[i]
    <3>1. i + 1 \in 1 .. last - first /\ first + (i + 1) - 1 = first + 1 + i - 1
      BY <1>1
    <3> QED BY <1>2, <1>3, <2>1, <3>1
  <2> QED BY <1>3, <2>1, <2>2, SeqEqual
<1> QED
  BY <1>1, <1>4, <1>5 DEF Fifo!Take

\* Whatever else happens leaves the queue and the messages taken as they are.
LEMMA OthersStutter ==
  ASSUME [Next]_allVars, ~FetchTake, \A t \in Posters : ~PostStore(t)
  PROVE  UNCHANGED <<Waiting, got>>
<1>1. UNCHANGED <<first, last, msgs, got>>
  <2>1. CASE Again
    BY <2>1 DEF Again, StartFetch, mboxVars
  <2>2. CASE FetchStep
    BY <2>2 DEF FetchStep, Fetch, FetchLock, FetchWaits, FetchWoken, FetchTimeout,
                FetchSignal, FetchUnlock, mboxVars
  <2>3. CASE FireTimeout
    BY <2>3 DEF FireTimeout, mboxVars
  <2>4. CASE RunTcpTimer
    BY <2>4 DEF RunTcpTimer, mboxVars
  <2>5. CASE MessageFetched
    BY <2>5 DEF MessageFetched, mboxVars
  <2>6. CASE ProcessMessage
    BY <2>6 DEF ProcessMessage, Process, mboxVars
  <2>7. CASE PosterStarts
    BY <2>7 DEF PosterStarts, StartPost, mboxVars
  <2>8. CASE \E t \in Posters : PosterStep(t)
    BY <2>8 DEF PosterStep, Post, PostLock, PostWaits, PostWoken, PostRelock,
                TryPostFails, PostSignal, PostUnlock
  <2>9. CASE UNCHANGED allVars
    BY <2>9 DEF allVars, vars, mboxVars, threadVars
  <2> QED BY <2>1, <2>2, <2>3, <2>4, <2>5, <2>6, <2>7, <2>8, <2>9 DEF Next, FetcherStep
<1> QED
  BY <1>1 DEF Waiting

\* The mailbox implements a bounded first-in first-out queue: messages come out
\* once, in the order they went in, and SYS_MBOX_SIZE - 1 at most wait, for any
\* number of posters and any size.  (That a message is taken in the end, the
\* fairness of BoundedFifo, is left to TLC.)
THEOREM MailboxIsFifo == Spec => Fifo!Init /\ [][Fifo!Next]_<<Waiting, got>>
<1>1. Init => Fifo!Init
  <2> SUFFICES ASSUME Init PROVE Waiting = <<>> /\ got = <<>>
    BY DEF Fifo!Init
  <2>1. first = 0 /\ last = 0 /\ got = <<>>
    BY DEF Init, MboxInit, sys_mbox_new
  <2>2. TypeOK /\ RingBounded
    BY InitIInv DEF IInv, MailboxInv
  <2>3. Waiting \in Seq(Slot) /\ Len(Waiting) = 0
    BY <2>1, <2>2, WaitingSeq DEF WaitingRead
  <2> QED BY <2>1, <2>3, EmptySeq
<1>2. IInv /\ IInv' /\ [Next]_allVars => [Fifo!Next]_<<Waiting, got>>
  <2> SUFFICES ASSUME IInv, IInv', [Next]_allVars
               PROVE  Fifo!Next \/ UNCHANGED <<Waiting, got>>
    OBVIOUS
  <2>1. CASE FetchTake
    BY <2>1, FetchTakes DEF Fifo!Next
  <2>2. CASE \E t \in Posters : PostStore(t)
    BY <2>2, StorePuts DEF Fifo!Next
  <2> QED BY <2>1, <2>2, OthersStutter
<1> QED
  BY <1>1, <1>2, SpecIInv, PTL DEF Spec
=============================================================================
