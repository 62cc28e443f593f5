----------------------------- MODULE PbufProof ------------------------------
(***************************************************************************)
(* What Pbuf promises, for pools of any size, any lengths and any number   *)
(* of holders.                                                             *)
(*                                                                         *)
(* The operators here take the memory m as a parameter: an operation makes *)
(* an intermediate memory and then frees a chain of it.  The heart of the  *)
(* proof is FreeKeeps: when a reference to the first pbuf of a chain has   *)
(* been dropped but is still counted there (x is that pbuf), pbuf_free     *)
(* makes the counts exact again.  The last part is about bytes: what an    *)
(* operation may change (Apart), and what the packets it builds hold.      *)
(***************************************************************************)
EXTENDS Pbuf, FiniteSetTheorems, SequenceTheorems, WellFoundedInduction, TLAPS

-----------------------------------------------------------------------------
(* Natural numbers and u16_t arithmetic. *)

\* A set of naturals that is not empty has a least element.
LEMMA LeastNatural ==
  ASSUME NEW T \in SUBSET Nat, T # {}
  PROVE  \E x \in T : \A y \in T : x <= y
<1>1. IsWellFoundedOn(OpToRel(<, Nat), Nat)
  BY NatLessThanWellFounded, Zenon
<1>2. PICK x \in T : \A y \in T : ~ (<<y, x>> \in OpToRel(<, Nat))
  BY <1>1, WFMin, Zenon
<1>3. \A y \in T : ~(y < x)
  BY <1>2 DEF OpToRel
<1>4. QED
  BY <1>3

\* A set that has 0 and the successor of each natural in it has them all.
LEMMA SetInduction ==
  ASSUME NEW S, 0 \in S, \A n \in Nat : n \in S => n + 1 \in S
  PROVE  \A n \in Nat : n \in S
<1>1. SUFFICES ASSUME Nat \ S # {} PROVE FALSE
  OBVIOUS
<1>2. PICK x \in Nat \ S : \A y \in Nat \ S : x <= y
  BY <1>1, LeastNatural
<1>3. x # 0 /\ x - 1 \in Nat
  BY <1>2
<1>4. x - 1 \in S
  BY <1>2, <1>3
<1>5. QED
  BY <1>2, <1>3, <1>4

\* A remainder is a u16_t.
LEMMA ModType ==
  ASSUME NEW a \in Int
  PROVE  a % U16 \in 0 .. U16 - 1
BY PbufAssumption

\* A number that fits is its own remainder.
LEMMA ModSmall ==
  ASSUME NEW a \in 0 .. U16 - 1
  PROVE  a % U16 = a
BY PbufAssumption

\* The remainder is the only one there is.
LEMMA ModUnique ==
  ASSUME NEW a \in Int, NEW q \in Int, NEW r \in 0 .. U16 - 1, a = U16 * q + r
  PROVE  a % U16 = r
BY PbufAssumption

\* A part of a sum may be cut to 16 bits first.
LEMMA ModAdd ==
  ASSUME NEW a \in Int, NEW b \in Int
  PROVE  (a + (b % U16)) % U16 = (a + b) % U16
<1>1. PICK q \in Int, r \in 0 .. U16 - 1 : r = b % U16 /\ b = U16 * q + r
  <2>1. b = U16 * (b \div U16) + (b % U16)
    BY PbufAssumption
  <2>2. b \div U16 \in Int
    BY PbufAssumption
  <2>3. QED
    BY <2>1, <2>2, ModType
<1>2. PICK p \in Int, s \in 0 .. U16 - 1 : s = (a + r) % U16 /\ a + r = U16 * p + s
  <2>1. a + r \in Int
    BY <1>1
  <2>2. a + r = U16 * ((a + r) \div U16) + ((a + r) % U16)
    BY <2>1, PbufAssumption
  <2>3. (a + r) \div U16 \in Int
    BY <2>1, PbufAssumption
  <2>4. QED
    BY <2>1, <2>2, <2>3, ModType
<1>3. a + b = U16 * (q + p) + s
  BY <1>1, <1>2, PbufAssumption
<1>4. (a + b) % U16 = s
  <2>1. a + b \in Int /\ q + p \in Int
    BY <1>1, <1>2
  <2>2. QED
    BY <2>1, <1>2, <1>3, ModUnique
<1>5. QED
  BY <1>1, <1>2, <1>4

\* The same for the first part, and for a difference.
LEMMA Add16Facts ==
  ASSUME NEW a \in Int, NEW b \in Int, NEW g \in Int
  PROVE  /\ Add16(a, b) \in 0 .. U16 - 1 /\ Sub16(a, b) \in 0 .. U16 - 1
         /\ Add16(a, Add16(b, g)) = Add16(a + b, g)
         /\ Add16(Add16(a, b), g) = Add16(a + b, g)
         /\ Sub16(Add16(a, b), g) = Add16(a, b - g)
         /\ Add16(a, Sub16(b, g)) = Add16(a, b - g)
<1>1. Add16(a, b) \in 0 .. U16 - 1 /\ Sub16(a, b) \in 0 .. U16 - 1
  <2>1. a + b \in Int /\ a - b \in Int
    OBVIOUS
  <2>2. QED
    BY <2>1, ModType DEF Add16, Sub16
<1>2. Add16(a, Add16(b, g)) = Add16(a + b, g)
  <2>1. (a + ((b + g) % U16)) % U16 = (a + (b + g)) % U16
    BY ModAdd
  <2>2. a + (b + g) = a + b + g
    OBVIOUS
  <2>3. QED
    BY <2>1, <2>2 DEF Add16
<1>3. Add16(Add16(a, b), g) = Add16(a + b, g)
  <2>1. (g + ((a + b) % U16)) % U16 = (g + (a + b)) % U16
    BY ModAdd
  <2>2. (a + b) % U16 \in Int
    BY ModType, a + b \in Int, PbufAssumption
  <2>3. g + (a + b) = a + b + g /\ g + ((a + b) % U16) = ((a + b) % U16) + g
    BY <2>2
  <2>4. QED
    BY <2>1, <2>3 DEF Add16
<1>4. Sub16(Add16(a, b), g) = Add16(a, b - g)
  <2>1. ((0 - g) + ((a + b) % U16)) % U16 = ((0 - g) + (a + b)) % U16
    BY ModAdd
  <2>2. (a + b) % U16 \in Int
    BY ModType, a + b \in Int, PbufAssumption
  <2>3. (0 - g) + (a + b) = a + (b - g) /\ (0 - g) + ((a + b) % U16) = ((a + b) % U16) - g
    BY <2>2
  <2>4. QED
    BY <2>1, <2>3 DEF Add16, Sub16
<1>5. Add16(a, Sub16(b, g)) = Add16(a, b - g)
  <2>1. (a + ((b - g) % U16)) % U16 = (a + (b - g)) % U16
    BY ModAdd
  <2>2. QED
    BY <2>1 DEF Add16, Sub16
<1>6. QED
  BY <1>1, <1>2, <1>3, <1>4, <1>5

\* Adding to a total that was cut to 16 bits.
LEMMA Add16Cat ==
  ASSUME NEW a \in Int, NEW g \in Int
  PROVE  Add16(Add16(a, 0), g) = Add16(a + 0, g)
<1> 0 \in Int
  OBVIOUS
<1> QED
  BY Add16Facts

\* The order of u16_t additions does not matter.
LEMMA Add16Assoc ==
  ASSUME NEW a \in Int, NEW b \in Int, NEW g \in Int
  PROVE  Add16(a, Add16(b, g)) = Add16(Add16(a, b), g)
BY Add16Facts

-----------------------------------------------------------------------------
(***************************************************************************)
(* The inductive invariant, of a memory m, the references h of callers and *)
(* the queues o.                                                           *)
(***************************************************************************)
Live(m) == {p \in Addr : m[p] # NULL}

\* Chains end, and no pbuf is in two of them: each set of pbufs has one whose
\* next is elsewhere.
Shape(m) ==
  /\ m \in [Addr -> PbufRecord \cup {NULL}]
  /\ \A p \in Live(m) : m[p].ref >= 1 /\ m[p].next \in Live(m) \cup {NULL}
  /\ \A p, q \in Live(m) : m[p].next = m[q].next /\ m[p].next # NULL => p = q
  /\ \A T \in SUBSET Live(m) : T # {} => \E p \in T : m[p].next \notin T

Totals(m) ==
  \A p \in Live(m) :
    m[p].tot_len = Add16(m[p].len, IF m[p].next = NULL THEN 0 ELSE m[m[p].next].tot_len)

HasParent(m, p) == \E q \in Live(m) : m[q].next = p
Parents(m, p) == IF HasParent(m, p) THEN 1 ELSE 0
Queued(o, p) == Cardinality({i \in 1 .. PCBS : o[i] = p})
Extra(x, p) == IF p = x THEN 1 ELSE 0

\* The counts are those of the pointers, and one more for x, the pbuf whose
\* reference was given up but not subtracted yet (NULL when there is none).
Counts(m, h, o, x) ==
  \A p \in Addr :
    IF p \in Live(m) THEN m[p].ref = h[p] + Parents(m, p) + Queued(o, p) + Extra(x, p)
    ELSE h[p] = 0 /\ Queued(o, p) = 0 /\ p # x

Holders(h, o) == h \in [Addr -> Nat] /\ o \in [1 .. PCBS -> Addr \cup {NULL}]

Good(m, h, o, x) ==
  /\ Shape(m)
  /\ Totals(m)
  /\ Holders(h, o)
  /\ Counts(m, h, o, x)

IInv == Good(mem, held, ooseq, NULL) /\ pending \in BOOLEAN

-----------------------------------------------------------------------------
(***************************************************************************)
(* Chains.                                                                 *)
(***************************************************************************)
IsPath(m, c) ==
  /\ c \in Seq(Live(m)) /\ Len(c) >= 1
  /\ \A i \in 1 .. Len(c) - 1 : m[c[i]].next = c[i + 1]

IsChain(m, c) == IsPath(m, c) /\ m[c[Len(c)]].next = NULL

\* NULL is no address, and there are finitely many of those.
LEMMA NullNotAddr == NULL \notin Addr /\ IsFiniteSet(Addr)
BY PbufAssumption, FS_Union DEF Addr

\* A pbuf in use is a record.
LEMMA LiveRecord ==
  ASSUME NEW m, Shape(m), NEW p \in Live(m)
  PROVE  /\ p \in Addr /\ m[p] \in PbufRecord /\ p # NULL
         /\ m[p].ref \in Nat /\ m[p].ref >= 1
         /\ m[p].len \in 0 .. U16 - 1 /\ m[p].tot_len \in 0 .. U16 - 1
         /\ m[p].room \in Nat /\ m[p].type \in {"RAM", "ROM", "REF", "POOL"}
         /\ m[p].next \in Live(m) \cup {NULL}
<1>1. p \in Addr /\ m[p] \in PbufRecord
  BY NullNotAddr DEF Shape, Live
<1>2. m[p].ref >= 1 /\ m[p].next \in Live(m) \cup {NULL}
  BY DEF Shape
<1> QED
  BY <1>1, <1>2, NullNotAddr DEF PbufRecord

\* No pbuf is twice on a path: the pbufs between would form a ring.
LEMMA PathInjective ==
  ASSUME NEW m, Shape(m), NEW c, IsPath(m, c), NEW i \in 1 .. Len(c), NEW j \in 1 .. Len(c),
         c[i] = c[j]
  PROVE  i = j
<1>1. ASSUME NEW a \in 1 .. Len(c), NEW b \in 1 .. Len(c), a < b, c[a] = c[b]
      PROVE  FALSE
  <2> DEFINE T == {c[k] : k \in a .. b - 1}
  <2>0. Len(c) \in Nat /\ \A k \in 1 .. Len(c) : c[k] \in Live(m)
    BY DEF IsPath
  <2>1. T \in SUBSET Live(m) /\ T # {}
    BY <1>1, <2>0
  <2>2. PICK p \in T : m[p].next \notin T
    BY <2>1 DEF Shape
  <2>3. PICK k \in a .. b - 1 : p = c[k]
    BY <2>2
  <2>4. m[p].next = c[k + 1]
    BY <1>1, <2>0, <2>3 DEF IsPath
  <2>5. CASE k + 1 = b
    BY <1>1, <2>0, <2>2, <2>4, <2>5
  <2>6. CASE k + 1 # b
    BY <1>1, <2>0, <2>2, <2>3, <2>4, <2>6
  <2> QED BY <2>5, <2>6
<1>2. Len(c) \in Nat
  BY DEF IsPath
<1> QED
  BY <1>1, <1>2

\* So a path is no longer than the memory.
LEMMA PathLength ==
  ASSUME NEW m, Shape(m), NEW c, IsPath(m, c)
  PROVE  Len(c) <= Cardinality(Addr)
<1>0. Len(c) \in Nat /\ c \in [1 .. Len(c) -> Live(m)] /\ Live(m) \subseteq Addr
  BY DEF IsPath, Live
<1>1. IsFiniteSet(1 .. Len(c)) /\ Cardinality(1 .. Len(c)) = Len(c)
  BY <1>0, FS_Interval
<1>2. IsFiniteSet(Addr) /\ Cardinality(Addr) \in Nat
  BY NullNotAddr, FS_CardinalityType
<1>3. c \in [1 .. Len(c) -> Addr]
  BY <1>0
<1>4. SUFFICES ASSUME Len(c) > Cardinality(Addr) PROVE FALSE
  BY <1>0, <1>2
<1>5. \E a, b \in 1 .. Len(c) : a # b /\ c[a] = c[b]
  BY <1>1, <1>2, <1>3, <1>4, FS_PigeonHole
<1> QED
  BY <1>5, PathInjective

\* The walk of Chain, for n steps.
Walks(f, p, n) ==
  f = [k \in 0 .. n |-> IF k = 0 THEN <<p>>
                        ELSE LET c == f[k - 1]
                                 s == mem[c[Len(c)]].next
                             IN  IF s = NULL THEN c ELSE Append(c, s)]

\* There is a walk of every length.
LEMMA WalksExist ==
  ASSUME NEW p
  PROVE  \A n \in Nat : \E f : Walks(f, p, n)
<1> DEFINE S == {n \in Nat : \E f : Walks(f, p, n)}
           Step(c) == LET s == mem[c[Len(c)]].next IN IF s = NULL THEN c ELSE Append(c, s)
<1>1. 0 \in S
  <2>1. Walks([k \in 0 .. 0 |-> <<p>>], p, 0)
    BY DEF Walks
  <2> QED BY <2>1
<1>2. ASSUME NEW n \in Nat, n \in S PROVE n + 1 \in S
  <2>1. PICK f : Walks(f, p, n)
    BY <1>2
  <2>2. f = [k \in 0 .. n |-> IF k = 0 THEN <<p>> ELSE Step(f[k - 1])]
    BY <2>1 DEF Walks
  <2> HIDE DEF Step
  <2> DEFINE g == [k \in 0 .. n + 1 |-> IF k = n + 1 THEN Step(f[n]) ELSE f[k]]
  <2>3. ASSUME NEW k \in 0 .. n + 1
        PROVE  g[k] = IF k = 0 THEN <<p>> ELSE Step(g[k - 1])
    BY <2>2
  <2>4. g = [k \in 0 .. n + 1 |-> IF k = 0 THEN <<p>> ELSE Step(g[k - 1])]
    BY <2>3
  <2>5. Walks(g, p, n + 1)
    BY <2>4 DEF Walks, Step
  <2> QED BY <2>5
<1> HIDE DEF S
<1>3. Nat \subseteq S
  BY <1>1, <1>2, SetInduction
<1> QED
  BY <1>3 DEF S

\* A path can be continued with the next of its last pbuf.
LEMMA PathAppend ==
  ASSUME NEW m, Shape(m), NEW c, IsPath(m, c), m[c[Len(c)]].next # NULL
  PROVE  LET d == Append(c, m[c[Len(c)]].next)
         IN  IsPath(m, d) /\ Len(d) = Len(c) + 1 /\ d[1] = c[1]
<1> DEFINE s == m[c[Len(c)]].next
           d == Append(c, s)
<1>0. c \in Seq(Live(m)) /\ Len(c) \in Nat /\ Len(c) >= 1
  BY DEF IsPath
<1>1. s \in Live(m)
  BY <1>0, LiveRecord
<1>2. d \in Seq(Live(m)) /\ Len(d) = Len(c) + 1
      /\ (\A i \in 1 .. Len(c) : d[i] = c[i]) /\ d[Len(c) + 1] = s
  BY <1>0, <1>1
<1>3. ASSUME NEW i \in 1 .. Len(d) - 1 PROVE m[d[i]].next = d[i + 1]
  <2>1. CASE i = Len(c)
    BY <1>0, <1>2, <2>1
  <2>2. CASE i # Len(c)
    <3>1. i \in 1 .. Len(c) - 1 /\ i + 1 \in 1 .. Len(c)
      BY <1>0, <1>2, <2>2
    <3> QED BY <3>1, <1>2 DEF IsPath
  <2> QED BY <2>1, <2>2
<1> HIDE DEF d
<1>4. IsPath(m, d) /\ Len(d) = Len(c) + 1 /\ d[1] = c[1]
  BY <1>0, <1>2, <1>3 DEF IsPath
<1> QED
  BY <1>4 DEF d

\* Chain(p) is the chain that starts at p.
LEMMA ChainFacts ==
  ASSUME Shape(mem), NEW p \in Live(mem)
  PROVE  IsChain(mem, Chain(p)) /\ Chain(p)[1] = p
<1> DEFINE N == Cardinality(Addr)
           f == CHOOSE g : Walks(g, p, N)
<1>0. N \in Nat
  BY NullNotAddr, FS_CardinalityType
<1>1. Walks(f, p, N)
  BY <1>0, WalksExist
<1>2. Chain(p) = f[N]
  BY DEF Chain, Walks
<1> HIDE DEF f
<1> DEFINE S == {k \in Nat : k <= N =>
                   /\ IsPath(mem, f[k]) /\ f[k][1] = p
                   /\ Len(f[k]) = k + 1 \/ mem[f[k][Len(f[k])]].next = NULL}
<1>3. 0 \in S
  <2>1. f[0] = <<p>>
    BY <1>0, <1>1 DEF Walks
  <2>2. IsPath(mem, <<p>>)
    BY DEF IsPath
  <2> QED BY <2>1, <2>2
<1>4. ASSUME NEW k \in Nat, k \in S PROVE k + 1 \in S
  <2> SUFFICES ASSUME k + 1 <= N
               PROVE  /\ IsPath(mem, f[k + 1]) /\ f[k + 1][1] = p
                      /\ Len(f[k + 1]) = k + 1 + 1
                           \/ mem[f[k + 1][Len(f[k + 1])]].next = NULL
    OBVIOUS
  <2>1. /\ IsPath(mem, f[k]) /\ f[k][1] = p
        /\ Len(f[k]) = k + 1 \/ mem[f[k][Len(f[k])]].next = NULL
    BY <1>0, <1>4
  <2>2. f[k + 1] = LET c == f[k]
                       s == mem[c[Len(c)]].next
                   IN  IF s = NULL THEN c ELSE Append(c, s)
    <3>1. k + 1 \in 0 .. N /\ k + 1 # 0 /\ (k + 1) - 1 = k
      BY <1>0
    <3> QED BY <1>1, <3>1, Zenon DEF Walks
  <2>3. CASE mem[f[k][Len(f[k])]].next = NULL
    BY <2>1, <2>2, <2>3
  <2>4. CASE mem[f[k][Len(f[k])]].next # NULL
    BY <2>1, <2>2, <2>4, PathAppend
  <2> QED BY <2>3, <2>4
<1> HIDE DEF S
<1>5. Nat \subseteq S
  BY <1>3, <1>4, SetInduction
<1>6. /\ IsPath(mem, f[N]) /\ f[N][1] = p
      /\ Len(f[N]) = N + 1 \/ mem[f[N][Len(f[N])]].next = NULL
  BY <1>0, <1>5 DEF S
<1>7. Len(f[N]) <= N
  BY <1>6, PathLength
<1> QED
  BY <1>0, <1>2, <1>6, <1>7 DEF IsChain

\* What a chain is made of.
LEMMA ChainParts ==
  ASSUME NEW m, Shape(m), NEW c, IsChain(m, c)
  PROVE  /\ c \in Seq(Live(m)) /\ Len(c) \in Nat /\ Len(c) >= 1
         /\ \A i \in 1 .. Len(c) : c[i] \in Live(m)
         /\ \A i \in 1 .. Len(c) - 1 : m[c[i]].next = c[i + 1]
         /\ m[c[Len(c)]].next = NULL
         /\ \A i, j \in 1 .. Len(c) : c[i] = c[j] => i = j
         /\ Range(c) = {c[i] : i \in 1 .. Len(c)} /\ Range(c) \subseteq Live(m)
<1>1. IsPath(m, c) /\ c \in Seq(Live(m)) /\ Len(c) \in Nat /\ Len(c) >= 1
      /\ m[c[Len(c)]].next = NULL
  BY DEF IsChain, IsPath
<1>2. \A i \in 1 .. Len(c) : c[i] \in Live(m)
  BY <1>1
<1>3. Range(c) = {c[i] : i \in 1 .. Len(c)}
  BY <1>1 DEF Range
<1> QED
  BY <1>1, <1>2, <1>3, PathInjective DEF IsPath

\* What is left of a chain behind its pbuf k is a chain.
LEMMA ChainTail ==
  ASSUME NEW m, Shape(m), NEW c, IsChain(m, c), NEW k \in 0 .. Len(c) - 1
  PROVE  LET d == SubSeq(c, k + 1, Len(c))
         IN  /\ d \in Seq(Live(m)) /\ Len(d) = Len(c) - k
             /\ \A i \in 1 .. Len(d) : d[i] = c[k + i]
             /\ IsChain(m, d)
<1> DEFINE d == SubSeq(c, k + 1, Len(c))
<1>0. c \in Seq(Live(m)) /\ Len(c) \in Nat /\ Len(c) >= 1 /\ m[c[Len(c)]].next = NULL
      /\ \A i \in 1 .. Len(c) - 1 : m[c[i]].next = c[i + 1]
  BY ChainParts
<1>1. d \in Seq(Live(m)) /\ Len(d) = Len(c) - k /\ \A i \in 1 .. Len(d) : d[i] = c[k + i]
  <2>1. \A i \in k + 1 .. Len(c) : c[i] \in Live(m)
    BY <1>0
  <2> QED BY <1>0, <2>1, SubSeqProperties
<1> HIDE DEF d
<1>2. \A i \in 1 .. Len(d) - 1 : m[d[i]].next = d[i + 1]
  BY <1>0, <1>1
<1>3. m[d[Len(d)]].next = NULL
  BY <1>0, <1>1
<1>4. IsChain(m, d)
  BY <1>0, <1>1, <1>2, <1>3 DEF IsChain, IsPath
<1> QED
  BY <1>1, <1>4 DEF d

-----------------------------------------------------------------------------
(***************************************************************************)
(* Counting.                                                               *)
(***************************************************************************)
LEMMA QueueFinite ==
  ASSUME NEW o, NEW p
  PROVE  IsFiniteSet({i \in 1 .. PCBS : o[i] = p})
<1>1. 1 \in Int /\ PCBS \in Int
  BY PbufAssumption
<1>2. IsFiniteSet(1 .. PCBS)
  BY <1>1, FS_Interval
<1>3. {i \in 1 .. PCBS : o[i] = p} \subseteq 1 .. PCBS
  OBVIOUS
<1> QED
  BY <1>2, <1>3, FS_Subset

\* No queue holds p exactly when the count says so.
LEMMA QueuedType ==
  ASSUME NEW o, NEW p
  PROVE  /\ Queued(o, p) \in Nat
         /\ Queued(o, p) = 0 <=> \A i \in 1 .. PCBS : o[i] # p
<1> DEFINE Q == {i \in 1 .. PCBS : o[i] = p}
<1>1. IsFiniteSet(Q)
  BY QueueFinite
<1>2. Cardinality(Q) \in Nat /\ (Cardinality(Q) = 0 <=> Q = {})
  BY <1>1, FS_CardinalityType, FS_EmptySet
<1> QED
  BY <1>2 DEF Queued

\* A PCB queues a packet.
LEMMA QueuedAdd ==
  ASSUME NEW o \in [1 .. PCBS -> Addr \cup {NULL}], NEW i \in 1 .. PCBS, NEW p \in Addr,
         o[i] = NULL
  PROVE  \A q \in Addr : Queued([o EXCEPT ![i] = p], q) = Queued(o, q) + Extra(p, q)
<1> SUFFICES ASSUME NEW q \in Addr
             PROVE  Queued([o EXCEPT ![i] = p], q) = Queued(o, q) + Extra(p, q)
  OBVIOUS
<1> DEFINE Q == {j \in 1 .. PCBS : o[j] = q}
           R == {j \in 1 .. PCBS : [o EXCEPT ![i] = p][j] = q}
<1>1. IsFiniteSet(Q) /\ i \notin Q
  BY QueueFinite, NullNotAddr
<1>4. Queued(o, q) = Cardinality(Q) /\ Queued([o EXCEPT ![i] = p], q) = Cardinality(R)
  BY DEF Queued
<1>2. CASE p = q
  <2>1. R = Q \cup {i}
    BY <1>2
  <2>2. Cardinality(R) = Cardinality(Q) + 1
    BY <1>1, <2>1, FS_AddElement
  <2> QED BY <1>2, <1>4, <2>2 DEF Extra
<1>3. CASE p # q
  <2>1. R = Q
    BY <1>1, <1>3
  <2>2. Cardinality(Q) \in Nat
    BY <1>1, FS_CardinalityType
  <2> HIDE DEF Q, R
  <2> QED BY <1>3, <1>4, <2>1, <2>2 DEF Extra
<1> QED BY <1>2, <1>3

\* A PCB gives its queue up.
LEMMA QueuedDrop ==
  ASSUME NEW o \in [1 .. PCBS -> Addr \cup {NULL}], NEW i \in 1 .. PCBS, o[i] # NULL
  PROVE  \A q \in Addr : Queued(o, q) = Queued([o EXCEPT ![i] = NULL], q) + Extra(o[i], q)
<1> DEFINE d == [o EXCEPT ![i] = NULL]
<1>1. d \in [1 .. PCBS -> Addr \cup {NULL}] /\ d[i] = NULL /\ o[i] \in Addr
      /\ [d EXCEPT ![i] = o[i]] = o
  OBVIOUS
<1> HIDE DEF d
<1>2. \A q \in Addr : Queued([d EXCEPT ![i] = o[i]], q) = Queued(d, q) + Extra(o[i], q)
  BY <1>1, QueuedAdd
<1> QED
  BY <1>1, <1>2 DEF d

\* What the counts say of one pbuf in use.
LEMMA CountOf ==
  ASSUME NEW m, NEW h, NEW o, NEW x, Holders(h, o), Counts(m, h, o, x), NEW p \in Live(m)
  PROVE  /\ h[p] \in Nat /\ Queued(o, p) \in Nat
         /\ Parents(m, p) \in {0, 1} /\ Extra(x, p) \in {0, 1}
         /\ m[p].ref = h[p] + Parents(m, p) + Queued(o, p) + Extra(x, p)
BY QueuedType DEF Holders, Counts, Parents, Extra, Live

\* ... and of one that is not.
LEMMA CountFree ==
  ASSUME NEW m, NEW h, NEW o, NEW x, Counts(m, h, o, x), NEW p \in Addr \ Live(m)
  PROVE  h[p] = 0 /\ Queued(o, p) = 0 /\ p # x
BY DEF Counts

\* A part of a memory, with some chains cut, has chains as well.
LEMMA ShapeCut ==
  ASSUME NEW m, NEW n, Shape(m),
         n \in [Addr -> PbufRecord \cup {NULL}], Live(n) \subseteq Live(m),
         \A p \in Live(n) :
           /\ n[p].ref >= 1
           /\ n[p].next \in {m[p].next, NULL} /\ n[p].next \in Live(n) \cup {NULL}
  PROVE  Shape(n)
<1>1. NULL \notin Live(m)
  BY NullNotAddr DEF Live
<1>2. ASSUME NEW T \in SUBSET Live(n), T # {} PROVE \E p \in T : n[p].next \notin T
  <2>1. T \in SUBSET Live(m)
    OBVIOUS
  <2>2. PICK p \in T : m[p].next \notin T
    BY <1>2, <2>1 DEF Shape
  <2> QED BY <1>1, <2>2
<1>3. \A p, q \in Live(n) : n[p].next = n[q].next /\ n[p].next # NULL => p = q
  <2>1. ASSUME NEW p \in Live(n), NEW q \in Live(n), n[p].next = n[q].next, n[p].next # NULL
        PROVE  p = q
    <3>1. m[p].next = m[q].next /\ m[p].next # NULL /\ p \in Live(m) /\ q \in Live(m)
      BY <2>1
    <3> QED BY <3>1 DEF Shape
  <2> QED BY <2>1
<1> QED
  BY <1>2, <1>3 DEF Shape

-----------------------------------------------------------------------------
(***************************************************************************)
(* pbuf_free.                                                              *)
(***************************************************************************)
\* The walk stops somewhere.
LEMMA FreeStops ==
  ASSUME NEW m, NEW c, Len(c) \in Nat
  PROVE  \E k \in 0 .. Len(c) : FreeCount(m, c, k)
<1> DEFINE T == {k \in 0 .. Len(c) : k < Len(c) => m[c[k + 1]].ref # 1}
<1>1. Len(c) \in T /\ T \in SUBSET Nat
  OBVIOUS
<1>2. PICK k \in T : \A j \in T : k <= j
  BY <1>1, LeastNatural
<1>3. ASSUME NEW i \in 1 .. k PROVE m[c[i]].ref = 1
  <2>1. k \in Nat /\ k <= Len(c) /\ i \in Nat /\ 1 <= i /\ i <= k
    BY <1>2
  <2>2. i - 1 \in 0 .. Len(c) /\ i - 1 < Len(c) /\ (i - 1) + 1 = i /\ ~(k <= i - 1)
    BY <2>1
  <2>3. i - 1 \notin T
    BY <1>2, <2>2
  <2> QED BY <2>2, <2>3
<1> QED
  BY <1>2, <1>3 DEF FreeCount

\* pbuf_free of a chain whose first pbuf is counted once too often.
LEMMA FreeKeeps ==
  ASSUME NEW m, NEW h, NEW o, NEW c, IsChain(m, c), Good(m, h, o, c[1])
  PROVE  Good(PbufFree(m, c), h, o, NULL)
<1>0. Shape(m) /\ Totals(m) /\ Holders(h, o) /\ Counts(m, h, o, c[1])
  BY DEF Good
<1>1. /\ c \in Seq(Live(m)) /\ Len(c) \in Nat /\ Len(c) >= 1
      /\ \A i \in 1 .. Len(c) : c[i] \in Live(m)
      /\ \A i \in 1 .. Len(c) - 1 : m[c[i]].next = c[i + 1]
      /\ m[c[Len(c)]].next = NULL
      /\ \A i, j \in 1 .. Len(c) : c[i] = c[j] => i = j
  BY <1>0, ChainParts
<1>2. PICK k \in 0 .. Len(c) : FreeCount(m, c, k) /\ PbufFree(m, c) = Freed(m, c, k)
  BY <1>1, FreeStops DEF PbufFree
<1> DEFINE R == {c[i] : i \in 1 .. k}
           n == Freed(m, c, k)
<1>3. Range(SubSeq(c, 1, k)) = R
  <2>1. Len(SubSeq(c, 1, k)) = k /\ \A i \in 1 .. k : SubSeq(c, 1, k)[i] = c[i]
    BY <1>1, SubSeqProperties
  <2>2. DOMAIN SubSeq(c, 1, k) = 1 .. k
    BY <1>1, <2>1
  <2> QED BY <2>1, <2>2 DEF Range
<1>4. n = [q \in Addr |-> IF q \in R THEN NULL
                          ELSE IF k < Len(c) /\ q = c[k + 1] THEN [m[q] EXCEPT !.ref = @ - 1]
                          ELSE m[q]]
  BY <1>3 DEF Freed
<1> HIDE DEF n
\* Every pbuf that goes had one reference: x, or the pbuf in front of it.
<1>5. ASSUME NEW p \in Live(m), NEW i \in 1 .. Len(c), p = c[i]
      PROVE  IF i = 1 THEN Parents(m, p) + h[p] + Queued(o, p) + 1 = m[p].ref
             ELSE Parents(m, p) = 1 /\ 1 + h[p] + Queued(o, p) = m[p].ref
                  /\ (\A q \in Live(m) : m[q].next = p => q = c[i - 1])
  <2>1. CASE i = 1
    BY <1>0, <1>5, <2>1, CountOf DEF Extra
  <2>2. CASE i # 1
    <3>1. i - 1 \in 1 .. Len(c) - 1 /\ i - 1 \in 1 .. Len(c) /\ (i - 1) + 1 = i
      BY <1>1, <2>2
    <3>2. m[c[i - 1]].next = p /\ c[i - 1] \in Live(m)
      BY <1>1, <1>5, <3>1
    <3>3. \A q \in Live(m) : m[q].next = p => q = c[i - 1]
      BY <1>0, <3>2, LiveRecord DEF Shape
    <3>4. p # c[1]
      BY <1>1, <1>5, <2>2
    <3> QED BY <1>0, <2>2, <3>2, <3>3, <3>4, CountOf DEF Extra, Parents, HasParent
  <2> QED BY <2>1, <2>2
<1>6. ASSUME NEW p \in R
      PROVE  p \in Live(m) /\ h[p] = 0 /\ Queued(o, p) = 0 /\ \A q \in Live(m) : m[q].next = p => q \in R
  <2>1. PICK i \in 1 .. k : p = c[i]
    OBVIOUS
  <2>2. i \in 1 .. Len(c) /\ p \in Live(m) /\ m[p].ref = 1
    BY <1>1, <1>2, <2>1 DEF FreeCount
  <2>3. h[p] \in Nat /\ Queued(o, p) \in Nat /\ Parents(m, p) \in {0, 1}
    BY <1>0, <2>2, CountOf
  <2>4. CASE i = 1
    <3>1. h[p] = 0 /\ Queued(o, p) = 0 /\ Parents(m, p) = 0
      BY <1>5, <2>1, <2>2, <2>3, <2>4
    <3> QED BY <2>2, <3>1 DEF Parents, HasParent
  <2>5. CASE i # 1
    <3>1. i - 1 \in 1 .. k
      BY <1>2, <2>5
    <3>2. c[i - 1] \in R
      BY <3>1
    <3>3. h[p] = 0 /\ Queued(o, p) = 0 /\ \A q \in Live(m) : m[q].next = p => q = c[i - 1]
      BY <1>5, <2>1, <2>2, <2>3, <2>5
    <3> QED BY <2>2, <3>2, <3>3
  <2> QED BY <2>4, <2>5
\* What is left.
<1>7. /\ Live(n) = Live(m) \ R
      /\ \A p \in Live(n) :
           /\ n[p].next = m[p].next /\ n[p].len = m[p].len /\ n[p].tot_len = m[p].tot_len
           /\ n[p].ref = IF k < Len(c) /\ p = c[k + 1] THEN m[p].ref - 1 ELSE m[p].ref
  <2>1. ASSUME NEW p \in Addr PROVE p \in Live(n) <=> p \in Live(m) /\ p \notin R
    <3>1. ASSUME p \in Live(m), k < Len(c), p = c[k + 1]
          PROVE  [m[p] EXCEPT !.ref = @ - 1] # NULL
      <4>1. m[p] \in PbufRecord /\ m[p].ref >= 1 /\ m[p].ref \in Nat
        BY <1>0, <3>1, LiveRecord
      <4>2. [m[p] EXCEPT !.ref = @ - 1] \in PbufRecord
        BY <4>1 DEF PbufRecord
      <4> QED BY <4>2, NullAssumption
    <3>2. k < Len(c) => c[k + 1] \in Live(m)
      BY <1>1
    <3> QED BY <1>4, <3>1, <3>2 DEF Live
  <2>2. ASSUME NEW p \in Live(n)
        PROVE  /\ n[p].next = m[p].next /\ n[p].len = m[p].len /\ n[p].tot_len = m[p].tot_len
               /\ n[p].ref = IF k < Len(c) /\ p = c[k + 1] THEN m[p].ref - 1 ELSE m[p].ref
    <3>1. p \in Live(m) /\ p \notin R /\ p \in Addr
      BY <2>1 DEF Live
    <3>2. m[p] \in PbufRecord
      BY <1>0, <3>1, LiveRecord
    <3> QED BY <1>4, <3>1, <3>2 DEF PbufRecord
  <2> QED BY <2>1, <2>2 DEF Live
<1>8. ASSUME NEW p \in Live(n)
      PROVE  n[p].next \in Live(n) \cup {NULL}
  <2>1. p \in Live(m) /\ p \notin R /\ n[p].next = m[p].next
    BY <1>7
  <2>2. m[p].next \in Live(m) \cup {NULL}
    BY <1>0, <2>1, LiveRecord
  <2>3. m[p].next \notin R
    BY <1>6, <2>1
  <2> QED BY <1>7, <2>1, <2>2, <2>3
<1>9. Shape(n)
  <2>1. ASSUME NEW p \in Addr PROVE n[p] \in PbufRecord \cup {NULL}
    <3>1. CASE p \notin R /\ k < Len(c) /\ p = c[k + 1]
      <4>1. m[p] \in PbufRecord /\ m[p].ref >= 1 /\ m[p].ref \in Nat
        BY <1>0, <1>1, <3>1, LiveRecord
      <4>2. [m[p] EXCEPT !.ref = @ - 1] \in PbufRecord
        BY <4>1 DEF PbufRecord
      <4> QED BY <1>4, <3>1, <4>2
    <3>2. CASE ~(p \notin R /\ k < Len(c) /\ p = c[k + 1])
      BY <1>0, <1>4, <3>2 DEF Shape
    <3> QED BY <3>1, <3>2
  <2>2. n \in [Addr -> PbufRecord \cup {NULL}]
    BY <1>4, <2>1
  <2>3. ASSUME NEW p \in Live(n) PROVE n[p].ref >= 1
    <3>1. m[p].ref \in Nat /\ m[p].ref >= 1
      BY <1>0, <1>7, LiveRecord
    <3>2. k < Len(c) /\ p = c[k + 1] => m[p].ref # 1
      BY <1>2 DEF FreeCount
    <3> QED BY <1>7, <3>1, <3>2
  <2> QED BY <1>0, <1>7, <1>8, <2>2, <2>3, ShapeCut
<1>10. Totals(n)
  BY <1>0, <1>7, <1>8 DEF Totals
<1>11. Counts(n, h, o, NULL)
  <2>1. ASSUME NEW p \in Live(n)
        PROVE  n[p].ref = h[p] + Parents(n, p) + Queued(o, p) + Extra(NULL, p)
    <3>0. p \in Live(m) /\ p \notin R /\ p # NULL /\ p \in Addr
      BY <1>0, <1>7, LiveRecord
    <3>1. h[p] \in Nat /\ Queued(o, p) \in Nat /\ m[p].ref \in Nat
      BY <1>0, <3>0, CountOf, LiveRecord
    <3>2. Extra(NULL, p) = 0
      BY <3>0 DEF Extra
    <3>3. CASE k < Len(c) /\ p = c[k + 1]
      <4>1. n[p].ref = m[p].ref - 1 /\ k + 1 \in 1 .. Len(c)
        BY <1>7, <3>3
      <4>2. CASE k = 0
        <5>1. R = {}
          BY <4>2
        <5>2. Parents(n, p) = Parents(m, p)
          BY <1>7, <5>1 DEF Parents, HasParent
        <5>3. Parents(m, p) + h[p] + Queued(o, p) + 1 = m[p].ref
          BY <1>5, <3>0, <3>3, <4>1, <4>2
        <5>4. Parents(m, p) \in {0, 1}
          BY DEF Parents
        <5> QED BY <3>1, <3>2, <4>1, <5>2, <5>3, <5>4
      <4>3. CASE k # 0
        <5>1. k + 1 # 1 /\ (k + 1) - 1 = k /\ k \in 1 .. k
          BY <4>3
        <5>2. 1 + h[p] + Queued(o, p) = m[p].ref /\ \A q \in Live(m) : m[q].next = p => q = c[k]
          BY <1>5, <3>0, <3>3, <4>1, <5>1
        <5>3. c[k] \in R
          BY <5>1
        <5>4. Parents(n, p) = 0
          BY <1>7, <5>2, <5>3 DEF Parents, HasParent
        <5> QED BY <3>1, <3>2, <4>1, <5>2, <5>4
      <4> QED BY <4>2, <4>3
    <3>4. CASE ~(k < Len(c) /\ p = c[k + 1])
      <4>1. n[p].ref = m[p].ref
        BY <1>7, <3>4
      <4>2. p # c[1]
        <5>1. CASE k = 0
          BY <1>1, <3>4, <5>1
        <5>2. CASE k # 0
          <6>1. 1 \in 1 .. k
            BY <5>2
          <6> QED BY <3>0, <6>1
        <5> QED BY <5>1, <5>2
      <4>3. ASSUME NEW q \in Live(m), m[q].next = p PROVE q \in Live(n)
        <5>1. SUFFICES ASSUME q \in R PROVE FALSE
          BY <1>7
        <5>2. PICK i \in 1 .. k : q = c[i]
          BY <5>1
        <5>3. CASE i = Len(c)
          BY <1>1, <3>0, <4>3, <5>2, <5>3
        <5>4. CASE i # Len(c)
          <6>1. i \in 1 .. Len(c) - 1
            BY <1>1, <1>2, <5>4
          <6>2. p = c[i + 1]
            BY <1>1, <4>3, <5>2, <6>1
          <6>3. i + 1 \in 1 .. k \/ (k < Len(c) /\ i + 1 = k + 1)
            BY <1>2, <6>1
          <6> QED BY <3>0, <3>4, <6>2, <6>3
        <5> QED BY <5>3, <5>4
      <4>4. Parents(n, p) = Parents(m, p)
        BY <1>7, <4>3 DEF Parents, HasParent
      <4>5. Extra(c[1], p) = 0
        BY <4>2 DEF Extra
      <4> QED BY <1>0, <3>0, <3>2, <4>1, <4>4, <4>5, CountOf
    <3> QED BY <3>3, <3>4
  <2>2. ASSUME NEW p \in Addr \ Live(n)
        PROVE  h[p] = 0 /\ Queued(o, p) = 0 /\ p # NULL
    <3>1. p # NULL
      BY NullNotAddr
    <3>2. CASE p \in R
      BY <1>6, <3>1, <3>2
    <3>3. CASE p \notin R
      BY <1>0, <1>7, <3>1, <3>3, CountFree
    <3> QED BY <3>2, <3>3
  <2> QED BY <2>1, <2>2 DEF Counts
<1> QED
  BY <1>0, <1>2, <1>9, <1>10, <1>11 DEF Good, n

-----------------------------------------------------------------------------
(***************************************************************************)
(* The steps every operation is made of.                                   *)
(***************************************************************************)
\* A caller gives a reference up.
LEMMA GiveUpHeld ==
  ASSUME NEW m, NEW h, NEW o, Good(m, h, o, NULL), NEW p \in Live(m), h[p] > 0
  PROVE  Good(m, [h EXCEPT ![p] = @ - 1], o, p)
<1> DEFINE g == [h EXCEPT ![p] = @ - 1]
<1>0. Shape(m) /\ Totals(m) /\ Holders(h, o) /\ Counts(m, h, o, NULL) /\ p \in Addr
  BY DEF Good, Live
<1>1. Holders(g, o)
  BY <1>0 DEF Holders
<1>2. ASSUME NEW q \in Live(m)
      PROVE  m[q].ref = g[q] + Parents(m, q) + Queued(o, q) + Extra(p, q)
  <2>1. /\ h[q] \in Nat /\ Queued(o, q) \in Nat /\ Parents(m, q) \in {0, 1}
        /\ m[q].ref = h[q] + Parents(m, q) + Queued(o, q) + Extra(NULL, q)
    BY <1>0, CountOf
  <2>2. Extra(NULL, q) = 0 /\ q \in Addr
    BY <1>0, LiveRecord DEF Extra
  <2>3. h \in [Addr -> Nat]
    BY <1>0 DEF Holders
  <2>4. g[q] = h[q] - Extra(p, q)
    BY <1>0, <2>2, <2>3 DEF Extra
  <2>5. Extra(p, q) \in {0, 1}
    BY DEF Extra
  <2> HIDE DEF g
  <2> QED BY <2>1, <2>2, <2>4, <2>5
<1>3. ASSUME NEW q \in Addr \ Live(m) PROVE g[q] = 0 /\ Queued(o, q) = 0 /\ q # p
  BY <1>0, CountFree DEF Holders
<1> QED
  BY <1>0, <1>1, <1>2, <1>3 DEF Good, Counts

\* A PCB gives its queue up.
LEMMA GiveUpQueue ==
  ASSUME NEW m, NEW h, NEW o, Good(m, h, o, NULL), NEW i \in 1 .. PCBS, o[i] # NULL
  PROVE  o[i] \in Live(m) /\ Good(m, h, [o EXCEPT ![i] = NULL], o[i])
<1> DEFINE d == [o EXCEPT ![i] = NULL]
<1>0. Shape(m) /\ Totals(m) /\ Holders(h, o) /\ Counts(m, h, o, NULL)
  BY DEF Good
<1>1. o \in [1 .. PCBS -> Addr \cup {NULL}] /\ o[i] \in Addr
  BY <1>0 DEF Holders
<1>2. Holders(h, d)
  BY <1>0 DEF Holders
<1>3. \A q \in Addr : Queued(o, q) = Queued(d, q) + Extra(o[i], q)
  BY <1>1, QueuedDrop
<1>4. o[i] \in Live(m)
  <2>1. Queued(o, o[i]) # 0
    BY QueuedType
  <2> QED BY <1>0, <1>1, <2>1, CountFree
<1> HIDE DEF d
<1>5. ASSUME NEW q \in Live(m)
      PROVE  m[q].ref = h[q] + Parents(m, q) + Queued(d, q) + Extra(o[i], q)
  <2>1. /\ h[q] \in Nat /\ Queued(o, q) \in Nat /\ Parents(m, q) \in {0, 1}
        /\ m[q].ref = h[q] + Parents(m, q) + Queued(o, q) + Extra(NULL, q)
    BY <1>0, CountOf
  <2>2. Extra(NULL, q) = 0 /\ q \in Addr
    BY <1>0, LiveRecord DEF Extra
  <2>3. Queued(d, q) \in Nat /\ Extra(o[i], q) \in {0, 1}
    BY QueuedType DEF Extra
  <2> QED BY <1>3, <2>1, <2>2, <2>3
<1>6. ASSUME NEW q \in Addr \ Live(m) PROVE h[q] = 0 /\ Queued(d, q) = 0 /\ q # o[i]
  <2>1. h[q] = 0 /\ Queued(o, q) = 0 /\ q # o[i]
    BY <1>0, <1>4, CountFree
  <2>2. Extra(o[i], q) = 0 /\ Queued(d, q) \in Nat
    BY <2>1, QueuedType DEF Extra
  <2> QED BY <1>3, <2>1, <2>2
<1> QED
  BY <1>0, <1>2, <1>4, <1>5, <1>6 DEF Good, Counts, d

\* A memory that differs in the counts only.
LEMMA RefMemory ==
  ASSUME NEW m, NEW p \in Live(m), Shape(m), Totals(m)
  PROVE  LET n == [m EXCEPT ![p].ref = @ + 1]
         IN  /\ Shape(n) /\ Totals(n) /\ Live(n) = Live(m)
             /\ \A q \in Live(m) : n[q].next = m[q].next
             /\ \A q \in Live(m) : n[q].ref = m[q].ref + Extra(p, q)
             /\ \A q \in Addr : Parents(n, q) = Parents(m, q)
<1> DEFINE n == [m EXCEPT ![p].ref = @ + 1]
<1>0. m \in [Addr -> PbufRecord \cup {NULL}] /\ p \in Addr /\ m[p] \in PbufRecord
      /\ m[p].ref \in Nat
  BY LiveRecord DEF Shape
<1>1. n = [q \in Addr |-> IF q = p THEN [m[p] EXCEPT !.ref = @ + 1] ELSE m[q]]
  BY <1>0
<1> HIDE DEF n
<1>2. [m[p] EXCEPT !.ref = @ + 1] \in PbufRecord
  BY <1>0 DEF PbufRecord
<1>3. n \in [Addr -> PbufRecord \cup {NULL}] /\ Live(n) = Live(m)
  BY <1>0, <1>1, <1>2, NullAssumption DEF Live
<1>4. ASSUME NEW q \in Live(m)
      PROVE  /\ n[q].next = m[q].next /\ n[q].len = m[q].len /\ n[q].tot_len = m[q].tot_len
             /\ n[q].ref = m[q].ref + Extra(p, q)
  <2>1. q \in Addr /\ m[q] \in PbufRecord /\ m[q].ref \in Nat
    BY LiveRecord
  <2>2. CASE q = p
    BY <1>1, <2>1, <2>2 DEF PbufRecord, Extra
  <2>3. CASE q # p
    BY <1>1, <2>1, <2>3 DEF Extra
  <2> QED BY <2>2, <2>3
<1>5. Shape(n)
  <2>1. \A q \in Live(n) : n[q].ref >= 1 /\ n[q].next = m[q].next
    BY <1>3, <1>4, LiveRecord DEF Extra
  <2>2. \A q \in Live(n) : n[q].next \in Live(n) \cup {NULL}
    BY <1>3, <2>1, LiveRecord
  <2> QED BY <1>3, <2>1, <2>2, ShapeCut
<1>6. Totals(n)
  <2>1. \A q \in Live(m) : m[q].next \in Live(m) \cup {NULL}
    BY LiveRecord
  <2> QED BY <1>3, <1>4, <2>1 DEF Totals
<1>7. \A q \in Addr : Parents(n, q) = Parents(m, q)
  BY <1>3, <1>4 DEF Parents, HasParent
<1> QED
  BY <1>3, <1>4, <1>5, <1>6, <1>7 DEF n

\* A new reference is counted.
LEMMA RefKeeps ==
  ASSUME NEW m, NEW h, NEW o, NEW g, NEW d, Good(m, h, o, NULL), NEW p \in Live(m),
         Holders(g, d),
         \A q \in Addr : g[q] + Queued(d, q) = h[q] + Queued(o, q) + Extra(p, q)
  PROVE  Good([m EXCEPT ![p].ref = @ + 1], g, d, NULL)
<1> DEFINE n == [m EXCEPT ![p].ref = @ + 1]
<1>0. Shape(m) /\ Totals(m) /\ Holders(h, o) /\ Counts(m, h, o, NULL)
  BY DEF Good
<1>1. /\ Shape(n) /\ Totals(n) /\ Live(n) = Live(m)
      /\ \A q \in Live(m) : n[q].ref = m[q].ref + Extra(p, q)
      /\ \A q \in Addr : Parents(n, q) = Parents(m, q)
  BY <1>0, RefMemory
<1> HIDE DEF n
<1>2. ASSUME NEW q \in Live(m)
      PROVE  n[q].ref = g[q] + Parents(n, q) + Queued(d, q) + Extra(NULL, q)
  <2>1. /\ h[q] \in Nat /\ Queued(o, q) \in Nat /\ Parents(m, q) \in {0, 1}
        /\ m[q].ref = h[q] + Parents(m, q) + Queued(o, q) + Extra(NULL, q)
    BY <1>0, CountOf
  <2>2. Extra(NULL, q) = 0 /\ q \in Addr
    BY <1>0, LiveRecord DEF Extra
  <2>3. Queued(d, q) \in Nat /\ Extra(p, q) \in {0, 1} /\ g[q] \in Nat
    BY <2>2, QueuedType DEF Extra, Holders
  <2>4. g[q] + Queued(d, q) = h[q] + Queued(o, q) + Extra(p, q)
    BY <2>2
  <2>5. n[q].ref = m[q].ref + Extra(p, q) /\ Parents(n, q) = Parents(m, q)
    BY <1>1, <2>2
  <2> QED BY <2>1, <2>2, <2>3, <2>4, <2>5
<1>3. ASSUME NEW q \in Addr \ Live(m) PROVE g[q] = 0 /\ Queued(d, q) = 0 /\ q # NULL
  <2>1. h[q] = 0 /\ Queued(o, q) = 0 /\ q # NULL /\ q # p
    BY <1>0, CountFree
  <2>2. g[q] \in Nat /\ Queued(d, q) \in Nat /\ Extra(p, q) = 0
    BY <2>1, QueuedType DEF Holders, Extra
  <2>3. g[q] + Queued(d, q) = h[q] + Queued(o, q) + Extra(p, q)
    OBVIOUS
  <2> QED BY <2>1, <2>2, <2>3
<1> QED
  BY <1>1, <1>2, <1>3 DEF Good, Counts, n

\* A new pbuf.
LEMMA NewKeeps ==
  ASSUME NEW m, NEW h, NEW o, NEW x, Good(m, h, o, x), NEW p \in Addr \ Live(m), NEW r,
         r \in PbufRecord, r.next = NULL, r.tot_len = r.len, r.ref = 1
  PROVE  /\ Good([m EXCEPT ![p] = r], [h EXCEPT ![p] = 1], o, x)
         /\ Live([m EXCEPT ![p] = r]) = Live(m) \cup {p}
<1> DEFINE n == [m EXCEPT ![p] = r]
           g == [h EXCEPT ![p] = 1]
<1>0. /\ Shape(m) /\ Totals(m) /\ Holders(h, o) /\ Counts(m, h, o, x)
      /\ m \in [Addr -> PbufRecord \cup {NULL}]
  BY DEF Good, Shape
<1>1. n = [q \in Addr |-> IF q = p THEN r ELSE m[q]]
  BY <1>0
<1>2. Holders(g, o) /\ (\A q \in Addr : g[q] = IF q = p THEN 1 ELSE h[q])
  BY <1>0 DEF Holders
<1> HIDE DEF n, g
<1>3. /\ n \in [Addr -> PbufRecord \cup {NULL}]
      /\ Live(n) = Live(m) \cup {p} /\ n[p] = r
      /\ \A q \in Live(m) : n[q] = m[q] /\ q # p
  BY <1>0, <1>1, NullAssumption DEF Live
<1>4. \A q \in Live(m) : m[q].next \in Live(m) \cup {NULL} /\ m[q].ref >= 1 /\ m[q].next # p
  BY <1>0, LiveRecord, NullNotAddr
<1>5. Shape(n)
  <2>1. \A q \in Live(n) : n[q].ref >= 1 /\ n[q].next \in Live(n) \cup {NULL}
    BY <1>3, <1>4
  <2>2. \A q, s \in Live(n) : n[q].next = n[s].next /\ n[q].next # NULL => q = s
    <3>1. ASSUME NEW q \in Live(n), NEW s \in Live(n), n[q].next = n[s].next, n[q].next # NULL
          PROVE  q = s
      <4>1. q \in Live(m) /\ s \in Live(m)
        BY <1>3, <3>1
      <4> QED BY <1>0, <1>3, <3>1, <4>1 DEF Shape
    <3> QED BY <3>1
  <2>3. ASSUME NEW T \in SUBSET Live(n), T # {} PROVE \E q \in T : n[q].next \notin T
    <3>1. CASE p \in T
      <4>1. NULL \notin T
        BY NullNotAddr DEF Live
      <4> QED BY <1>3, <3>1, <4>1
    <3>2. CASE p \notin T
      <4>1. T \in SUBSET Live(m)
        BY <1>3, <3>2
      <4>2. PICK q \in T : m[q].next \notin T
        BY <1>0, <2>3, <4>1 DEF Shape
      <4> QED BY <1>3, <4>1, <4>2
    <3> QED BY <3>1, <3>2
  <2> QED BY <1>3, <2>1, <2>2, <2>3 DEF Shape
<1>6. Totals(n)
  <2>1. r.tot_len = Add16(r.len, 0)
    BY ModSmall, PbufAssumption DEF PbufRecord, Add16
  <2> QED BY <1>0, <1>3, <1>4, <2>1 DEF Totals
<1>7. \A q \in Addr : Parents(n, q) = Parents(m, q)
  BY <1>3, NullNotAddr DEF Parents, HasParent
<1>8. Counts(n, g, o, x)
  <2>1. ASSUME NEW q \in Live(m)
        PROVE  n[q].ref = g[q] + Parents(n, q) + Queued(o, q) + Extra(x, q)
    <3>1. q \in Addr
      BY DEF Live
    <3> QED BY <1>0, <1>2, <1>3, <1>7, <3>1, CountOf
  <2>2. n[p].ref = g[p] + Parents(n, p) + Queued(o, p) + Extra(x, p)
    <3>1. Queued(o, p) = 0 /\ p # x
      BY <1>0, CountFree
    <3>2. Parents(m, p) = 0
      BY <1>4 DEF Parents, HasParent
    <3> QED BY <1>2, <1>3, <1>7, <3>1, <3>2 DEF Extra
  <2>3. ASSUME NEW q \in Addr \ Live(n) PROVE g[q] = 0 /\ Queued(o, q) = 0 /\ q # x
    BY <1>0, <1>2, <1>3, CountFree
  <2> QED BY <1>3, <2>1, <2>2, <2>3 DEF Counts
<1> QED
  BY <1>2, <1>3, <1>5, <1>6, <1>8 DEF Good, n, g

\* A reference that nobody counted is a caller's.
LEMMA TakeUp ==
  ASSUME NEW m, NEW h, NEW o, NEW p \in Live(m), Good(m, h, o, p)
  PROVE  Good(m, [h EXCEPT ![p] = @ + 1], o, NULL)
<1> DEFINE g == [h EXCEPT ![p] = @ + 1]
<1>0. Shape(m) /\ Totals(m) /\ Holders(h, o) /\ Counts(m, h, o, p) /\ p \in Addr
  BY DEF Good, Live
<1>1. Holders(g, o)
  BY <1>0 DEF Holders
<1>2. ASSUME NEW q \in Live(m)
      PROVE  m[q].ref = g[q] + Parents(m, q) + Queued(o, q) + Extra(NULL, q)
  <2>1. /\ h[q] \in Nat /\ Queued(o, q) \in Nat /\ Parents(m, q) \in {0, 1}
        /\ m[q].ref = h[q] + Parents(m, q) + Queued(o, q) + Extra(p, q)
    BY <1>0, CountOf
  <2>2. Extra(NULL, q) = 0 /\ q \in Addr
    BY <1>0, LiveRecord DEF Extra
  <2>3. g[q] = h[q] + Extra(p, q)
    BY <1>0, <2>2 DEF Extra, Holders
  <2>4. Extra(p, q) \in {0, 1}
    BY DEF Extra
  <2> HIDE DEF g
  <2> QED BY <2>1, <2>2, <2>3, <2>4
<1>3. ASSUME NEW q \in Addr \ Live(m) PROVE g[q] = 0 /\ Queued(o, q) = 0 /\ q # NULL
  BY <1>0, CountFree, NullNotAddr DEF Holders
<1> QED
  BY <1>0, <1>1, <1>2, <1>3 DEF Good, Counts

\* A chain is cut behind p: the pointer to q, if there is one, is gone, its
\* reference not yet.
LEMMA CutKeeps ==
  ASSUME NEW m, NEW h, NEW o, NEW n, NEW p \in Live(m), NEW q, Good(m, h, o, NULL),
         q = m[p].next,
         n \in [Addr -> PbufRecord \cup {NULL}], Live(n) = Live(m), Totals(n),
         \A s \in Live(m) :
           n[s].ref = m[s].ref /\ n[s].next = IF s = p THEN NULL ELSE m[s].next
  PROVE  q \in Live(n) \cup {NULL} /\ Good(n, h, o, q)
<1>0. Shape(m) /\ Holders(h, o) /\ Counts(m, h, o, NULL)
  BY DEF Good
<1>1. q \in Live(m) \cup {NULL} /\ \A s \in Live(m) : m[s].ref >= 1 /\ m[s].next \in Live(m) \cup {NULL}
  BY <1>0, LiveRecord
<1>2. Shape(n)
  BY <1>0, <1>1, ShapeCut
<1>3. q # NULL => \A s \in Live(m) : m[s].next = q => s = p
  BY <1>0 DEF Shape
<1>4. ASSUME NEW s \in Live(m) PROVE Parents(m, s) = Parents(n, s) + Extra(q, s)
  <2>1. NULL # s
    BY <1>0, LiveRecord
  <2>2. CASE s = q
    <3>1. Parents(m, s) = 1
      BY <2>2 DEF Parents, HasParent
    <3>2. Parents(n, s) = 0
      BY <1>3, <2>1, <2>2 DEF Parents, HasParent
    <3> QED BY <2>2, <3>1, <3>2 DEF Extra
  <2>3. CASE s # q
    <3>1. HasParent(m, s) <=> HasParent(n, s)
      BY <2>1, <2>3 DEF HasParent
    <3> QED BY <2>3, <3>1 DEF Extra, Parents
  <2> QED BY <2>2, <2>3
<1>5. ASSUME NEW s \in Live(n)
      PROVE  n[s].ref = h[s] + Parents(n, s) + Queued(o, s) + Extra(q, s)
  <2>1. /\ h[s] \in Nat /\ Queued(o, s) \in Nat
        /\ m[s].ref = h[s] + Parents(m, s) + Queued(o, s) + Extra(NULL, s)
    BY <1>0, CountOf
  <2>2. Extra(NULL, s) = 0
    BY <1>0, LiveRecord DEF Extra
  <2>3. Parents(n, s) \in {0, 1} /\ Extra(q, s) \in {0, 1}
    BY DEF Parents, Extra
  <2> QED BY <1>4, <2>1, <2>2, <2>3
<1>6. ASSUME NEW s \in Addr \ Live(n) PROVE h[s] = 0 /\ Queued(o, s) = 0 /\ s # q
  BY <1>0, <1>1, CountFree, NullNotAddr
<1> QED
  BY <1>0, <1>1, <1>2, <1>5, <1>6 DEF Good, Counts

\* What becomes of the chain c when t is appended.
CatOf(m, c, t) ==
  [q \in Addr |->
     IF q \notin Range(c) THEN m[q]
     ELSE [m[q] EXCEPT !.tot_len = Add16(@, m[t].tot_len),
                       !.next = IF q = c[Len(c)] THEN t ELSE @]]

\* The chain c ends at e, and nothing but the chain itself points into it.
LEMMA CatKeeps ==
  ASSUME NEW m, NEW h, NEW o, Good(m, h, o, NULL), NEW c, IsChain(m, c),
         ~HasParent(m, c[1]), NEW t \in Live(m), ~HasParent(m, t), t # c[1], h[t] > 0
  PROVE  Good(CatOf(m, c, t), [h EXCEPT ![t] = @ - 1], o, NULL)
<1> DEFINE e == c[Len(c)]
           n == CatOf(m, c, t)
           g == [h EXCEPT ![t] = @ - 1]
<1>0. /\ Shape(m) /\ Totals(m) /\ Holders(h, o) /\ Counts(m, h, o, NULL)
      /\ m \in [Addr -> PbufRecord \cup {NULL}]
  BY DEF Good, Shape
<1>1. /\ Len(c) \in Nat /\ Len(c) >= 1
      /\ \A i \in 1 .. Len(c) : c[i] \in Live(m)
      /\ \A i \in 1 .. Len(c) - 1 : m[c[i]].next = c[i + 1]
      /\ e \in Live(m) /\ m[e].next = NULL
      /\ Range(c) = {c[i] : i \in 1 .. Len(c)} /\ Range(c) \subseteq Live(m)
  BY <1>0, ChainParts
<1>2. t # NULL /\ t \in Addr /\ NULL \notin Live(m)
  BY <1>0, LiveRecord
<1>3. ASSUME NEW p \in Range(c) PROVE p = c[1] \/ \A q \in Live(m) : m[q].next = p => q \in Range(c)
  <2>1. PICK i \in 1 .. Len(c) : p = c[i]
    BY <1>1
  <2>2. CASE i # 1
    <3>1. i - 1 \in 1 .. Len(c) - 1 /\ i - 1 \in 1 .. Len(c) /\ (i - 1) + 1 = i
      BY <1>1, <2>2
    <3>2. m[c[i - 1]].next = p /\ c[i - 1] \in Range(c)
      BY <1>1, <2>1, <3>1
    <3>3. p # NULL /\ c[i - 1] \in Live(m)
      BY <1>1, <1>2, <3>2
    <3>4. \A q \in Live(m) : m[q].next = p => q = c[i - 1]
      BY <1>0, <3>2, <3>3 DEF Shape
    <3> QED BY <3>2, <3>4
  <2> QED BY <2>1, <2>2
<1>4. t \notin Range(c)
  <2>1. SUFFICES ASSUME t \in Range(c) PROVE FALSE
    OBVIOUS
  <2>2. PICK i \in 1 .. Len(c) : t = c[i]
    BY <1>1, <2>1
  <2>3. i # 1
    BY <2>2
  <2>4. i - 1 \in 1 .. Len(c) - 1 /\ i - 1 \in 1 .. Len(c) /\ (i - 1) + 1 = i
    BY <1>1, <2>3
  <2>5. m[c[i - 1]].next = t /\ c[i - 1] \in Live(m)
    BY <1>1, <2>2, <2>4
  <2> QED BY <2>5 DEF HasParent
\* The new memory.
<1>5. ASSUME NEW p \in Addr
      PROVE  n[p] = IF p \notin Range(c) THEN m[p]
                    ELSE [m[p] EXCEPT !.tot_len = Add16(@, m[t].tot_len),
                                      !.next = IF p = e THEN t ELSE @]
  BY DEF CatOf
<1>6. ASSUME NEW p \in Range(c)
      PROVE  /\ n[p] \in PbufRecord
             /\ n[p].ref = m[p].ref /\ n[p].len = m[p].len
             /\ n[p].tot_len = Add16(m[p].tot_len, m[t].tot_len)
             /\ n[p].next = IF p = e THEN t ELSE m[p].next
  <2>1. p \in Addr /\ m[p] \in PbufRecord /\ m[p].tot_len \in Int /\ m[t].tot_len \in Int
    BY <1>0, <1>1, LiveRecord, PbufAssumption
  <2>2. Add16(m[p].tot_len, m[t].tot_len) \in 0 .. U16 - 1
    BY <2>1, Add16Facts
  <2> DEFINE tot == Add16(m[p].tot_len, m[t].tot_len)
             next == IF p = e THEN t ELSE m[p].next
  <2>3. tot \in 0 .. U16 - 1 /\ next \in Addr \cup {NULL}
    BY <1>2, <2>1, <2>2 DEF PbufRecord
  <2>4. n[p] = [m[p] EXCEPT !.tot_len = tot, !.next = next]
    BY <1>5, <2>1
  <2> HIDE DEF tot, next
  <2>5. /\ n[p] \in PbufRecord /\ n[p].ref = m[p].ref /\ n[p].len = m[p].len
        /\ n[p].tot_len = tot /\ n[p].next = next
    BY <2>1, <2>3, <2>4 DEF PbufRecord
  <2> QED BY <2>5 DEF tot, next
<1> HIDE DEF n
<1>7. n \in [Addr -> PbufRecord \cup {NULL}] /\ Live(n) = Live(m)
  <2>1. n = [p \in Addr |-> n[p]]
    BY DEF n, CatOf
  <2>2. \A p \in Addr : n[p] \in PbufRecord \cup {NULL}
    BY <1>0, <1>5, <1>6
  <2>3. \A p \in Addr : n[p] # NULL <=> m[p] # NULL
    BY <1>1, <1>5, <1>6, NullAssumption DEF Live
  <2> QED BY <2>1, <2>2, <2>3 DEF Live
<1>8. ASSUME NEW p \in Live(m)
      PROVE  /\ n[p].ref = m[p].ref /\ n[p].len = m[p].len
             /\ n[p].next = IF p = e THEN t ELSE m[p].next
             /\ n[p].tot_len = IF p \in Range(c) THEN Add16(m[p].tot_len, m[t].tot_len)
                               ELSE m[p].tot_len
  <2>1. e \in Range(c) /\ p \in Addr
    BY <1>1 DEF Live
  <2> QED BY <1>5, <1>6, <2>1
<1>9. Shape(n)
  <2>1. \A p \in Live(n) : n[p].ref >= 1 /\ n[p].next \in Live(n) \cup {NULL}
    BY <1>0, <1>7, <1>8, LiveRecord
  <2>2. \A p \in Live(m) : m[p].next # t
    BY DEF HasParent
  <2>3. ASSUME NEW p \in Live(n), NEW q \in Live(n), n[p].next = n[q].next, n[p].next # NULL
        PROVE  p = q
    <3>1. p \in Live(m) /\ q \in Live(m)
      BY <1>7
    <3>2. CASE p = e \/ q = e
      BY <1>8, <2>2, <2>3, <3>1, <3>2
    <3>3. CASE p # e /\ q # e
      <4>1. m[p].next = m[q].next /\ m[p].next # NULL
        BY <1>8, <2>3, <3>1, <3>3
      <4> QED BY <1>0, <3>1, <4>1 DEF Shape
    <3> QED BY <3>2, <3>3
  <2>4. ASSUME NEW T \in SUBSET Live(n), T # {} PROVE \E p \in T : n[p].next \notin T
    <3>1. SUFFICES ASSUME \A p \in T : n[p].next \in T PROVE FALSE
      OBVIOUS
    <3>2. T \in SUBSET Live(m)
      BY <1>7
    <3>3. e \in T
      <4>1. PICK p \in T : m[p].next \notin T
        BY <1>0, <2>4, <3>2 DEF Shape
      <4> QED BY <1>8, <3>1, <3>2, <4>1
    <3>4. t \in T
      BY <1>8, <3>1, <3>2, <3>3
    <3> DEFINE U == T \ Range(c)
    <3>5. U \in SUBSET Live(m) /\ U # {}
      BY <1>4, <3>2, <3>4
    <3>6. PICK p \in U : m[p].next \notin U
      BY <1>0, <3>5 DEF Shape
    <3>7. p \in Live(m) /\ p \notin Range(c) /\ p # e
      BY <1>1, <3>2, <3>6
    <3>8. m[p].next \in T
      BY <1>8, <3>1, <3>6, <3>7
    <3>9. m[p].next \in Range(c)
      BY <3>6, <3>8
    <3> QED BY <1>3, <3>7, <3>9 DEF HasParent
  <2> QED BY <1>7, <2>1, <2>3, <2>4 DEF Shape
<1>10. Totals(n)
  <2>1. ASSUME NEW p \in Live(m)
        PROVE  n[p].tot_len
                 = Add16(n[p].len, IF n[p].next = NULL THEN 0 ELSE n[n[p].next].tot_len)
    <3>0. /\ m[p].tot_len = Add16(m[p].len, IF m[p].next = NULL THEN 0 ELSE m[m[p].next].tot_len)
          /\ m[p].len \in Int /\ m[p].tot_len \in Int
          /\ m[t].tot_len \in Int /\ m[p].next \in Live(m) \cup {NULL}
      BY <1>0, LiveRecord, PbufAssumption DEF Totals
    <3>1. CASE p = e
      <4>1. m[p].tot_len = Add16(m[p].len, 0)
        BY <1>1, <3>0, <3>1
      <4>2. Add16(Add16(m[p].len, 0), m[t].tot_len) = Add16(m[p].len, m[t].tot_len)
        <5>1. Add16(Add16(m[p].len, 0), m[t].tot_len) = Add16(m[p].len + 0, m[t].tot_len)
          BY <3>0, Add16Cat
        <5> QED BY <3>0, <5>1
      <4>3. n[t].tot_len = m[t].tot_len /\ n[p].next = t
        BY <1>4, <1>8, <3>1
      <4>4. p \in Range(c)
        BY <1>1, <3>1
      <4> QED BY <1>2, <1>8, <4>1, <4>2, <4>3, <4>4
    <3>2. CASE p # e /\ p \in Range(c)
      <4>1. m[p].next \in Range(c) /\ m[p].next # NULL
        <5>1. PICK i \in 1 .. Len(c) : p = c[i]
          BY <1>1, <3>2
        <5>2. i \in 1 .. Len(c) - 1 /\ i + 1 \in 1 .. Len(c)
          BY <1>1, <3>2, <5>1
        <5>3. m[p].next = c[i + 1] /\ c[i + 1] \in Range(c)
          BY <1>1, <5>1, <5>2
        <5> QED BY <1>1, <1>2, <5>3
      <4> DEFINE s == m[p].next
      <4>2. s \in Live(m) /\ m[s].tot_len \in Int
        BY <1>0, <3>0, <4>1, LiveRecord, PbufAssumption
      <4>3. n[s].tot_len = Add16(m[s].tot_len, m[t].tot_len) /\ n[p].next = s
        BY <1>8, <3>2, <4>1, <4>2
      <4>4. m[p].tot_len = Add16(m[p].len, m[s].tot_len)
        BY <3>0, <4>1
      <4>5. Add16(m[p].len, Add16(m[s].tot_len, m[t].tot_len))
              = Add16(Add16(m[p].len, m[s].tot_len), m[t].tot_len)
        BY <3>0, <4>2, Add16Assoc
      <4> QED BY <1>8, <3>2, <4>1, <4>3, <4>4, <4>5
    <3>3. CASE p \notin Range(c)
      <4>1. p # e
        BY <1>1, <3>3
      <4>2. m[p].next \notin Range(c)
        BY <1>3, <3>3 DEF HasParent
      <4> QED BY <1>8, <3>0, <3>3, <4>1, <4>2
    <3> QED BY <3>1, <3>2, <3>3
  <2> QED BY <1>7, <2>1 DEF Totals
<1>11. Holders(g, o) /\ h[t] \in Nat /\ \A q \in Addr : g[q] = h[q] - Extra(t, q)
  BY <1>0, <1>2 DEF Holders, Extra
<1> HIDE DEF g
<1>12. ASSUME NEW q \in Live(m) PROVE Parents(n, q) = Parents(m, q) + Extra(t, q)
  <2>1. CASE q = t
    <3>1. Parents(n, q) = 1
      BY <1>1, <1>7, <1>8, <2>1 DEF Parents, HasParent
    <3> QED BY <2>1, <3>1 DEF Parents, Extra
  <2>2. CASE q # t
    <3>1. q # NULL
      BY <1>2
    <3>2. HasParent(n, q) <=> HasParent(m, q)
      BY <1>1, <1>7, <1>8, <2>2, <3>1 DEF HasParent
    <3> QED BY <2>2, <3>2 DEF Parents, Extra
  <2> QED BY <2>1, <2>2
<1>13. Counts(n, g, o, NULL)
  <2>1. ASSUME NEW q \in Live(n)
        PROVE  n[q].ref = g[q] + Parents(n, q) + Queued(o, q) + Extra(NULL, q)
    <3>1. q \in Live(m) /\ q \in Addr
      BY <1>7 DEF Live
    <3>2. /\ h[q] \in Nat /\ Queued(o, q) \in Nat
          /\ Parents(m, q) \in {0, 1} /\ Extra(NULL, q) \in {0, 1}
          /\ m[q].ref = h[q] + Parents(m, q) + Queued(o, q) + Extra(NULL, q)
      BY <1>0, <3>1, CountOf
    <3>3. Extra(t, q) \in {0, 1}
      BY DEF Extra
    <3>4. g[q] = h[q] - Extra(t, q) /\ n[q].ref = m[q].ref
      BY <1>8, <1>11, <3>1
    <3> QED BY <1>12, <3>1, <3>2, <3>3, <3>4
  <2>2. ASSUME NEW q \in Addr \ Live(n) PROVE g[q] = 0 /\ Queued(o, q) = 0 /\ q # NULL
    <3>1. q \in Addr \ Live(m) /\ q # t
      BY <1>7
    <3>2. h[q] = 0 /\ Queued(o, q) = 0 /\ q # NULL
      BY <1>0, <3>1, CountFree
    <3> QED BY <1>11, <3>1, <3>2 DEF Extra
  <2> QED BY <2>1, <2>2 DEF Counts
<1> QED
  BY <1>9, <1>10, <1>11, <1>13 DEF Good, n, g

-----------------------------------------------------------------------------
(***************************************************************************)
(* One step of each operation.                                             *)
(***************************************************************************)
LEMMA Views ==
  ASSUME IInv
  PROVE  /\ Used = Live(mem) /\ Shape(mem) /\ Totals(mem)
         /\ Holders(held, ooseq) /\ Counts(mem, held, ooseq, NULL)
         /\ \A p : Predecessors(p) = {} <=> ~HasParent(mem, p)
BY DEF IInv, Good, Used, Live, Predecessors, HasParent

\* pbuf_free preserves the invariant.
LEMMA StepFree ==
  ASSUME IInv, NEW p \in Used, pbuf_free(p)
  PROVE  IInv'
<1>1. p \in Live(mem) /\ Shape(mem)
  BY Views
<1>2. IsChain(mem, Chain(p)) /\ Chain(p)[1] = p
  BY <1>1, ChainFacts
<1>3. Good(mem, [held EXCEPT ![p] = @ - 1], ooseq, p)
  BY <1>1, GiveUpHeld DEF IInv, pbuf_free
<1>4. Good(PbufFree(mem, Chain(p)), [held EXCEPT ![p] = @ - 1], ooseq, NULL)
  BY <1>2, <1>3, FreeKeeps
<1> QED
  BY <1>4 DEF IInv, pbuf_free

\* pbuf_ref preserves the invariant.
LEMMA StepRef ==
  ASSUME IInv, NEW p \in Used, pbuf_ref(p)
  PROVE  IInv'
<1>1. p \in Live(mem) /\ Holders(held, ooseq) /\ p \in Addr
  BY Views DEF Live
<1> DEFINE g == [held EXCEPT ![p] = @ + 1]
<1>2. Holders(g, ooseq)
  BY <1>1 DEF Holders
<1>3. \A q \in Addr : g[q] + Queued(ooseq, q) = held[q] + Queued(ooseq, q) + Extra(p, q)
  <2>1. \A q \in Addr : g[q] = held[q] + Extra(p, q) /\ held[q] \in Nat /\ Extra(p, q) \in {0, 1}
    BY <1>1 DEF Holders, Extra
  <2> HIDE DEF g
  <2> QED BY <2>1, QueuedType
<1>4. Good([mem EXCEPT ![p].ref = @ + 1], g, ooseq, NULL)
  <2> HIDE DEF g
  <2> QED BY <1>1, <1>2, <1>3, RefKeeps DEF IInv
<1> QED
  BY <1>4 DEF IInv, pbuf_ref

\* Queueing a packet out of sequence preserves the invariant.
LEMMA StepQueue ==
  ASSUME IInv, NEW i \in 1 .. PCBS, NEW p \in Used, QueueOoseq(i, p)
  PROVE  IInv'
<1>1. /\ p \in Live(mem) /\ Holders(held, ooseq) /\ p \in Addr /\ ooseq[i] = NULL
      /\ ooseq \in [1 .. PCBS -> Addr \cup {NULL}] /\ held \in [Addr -> Nat]
  BY Views DEF Live, QueueOoseq, Holders
<1> DEFINE d == [ooseq EXCEPT ![i] = p]
<1>2. Holders(held, d)
  BY <1>1 DEF Holders
<1>3. \A q \in Addr : Queued(d, q) = Queued(ooseq, q) + Extra(p, q)
  BY <1>1, QueuedAdd
<1> HIDE DEF d
<1>4. \A q \in Addr : held[q] + Queued(d, q) = held[q] + Queued(ooseq, q) + Extra(p, q)
  <2>1. \A q \in Addr : Queued(ooseq, q) \in Nat /\ held[q] \in Nat /\ Extra(p, q) \in {0, 1}
    BY <1>1, QueuedType DEF Extra
  <2> QED BY <1>3, <2>1
<1>5. Good([mem EXCEPT ![p].ref = @ + 1], held, d, NULL)
  BY <1>1, <1>2, <1>4, RefKeeps DEF IInv
<1> QED
  BY <1>5 DEF IInv, QueueOoseq, d

\* Freeing a queue preserves the invariant.
LEMMA StepDrop ==
  ASSUME IInv, NEW i \in 1 .. PCBS, DropOoseq(i), UNCHANGED held
  PROVE  Good(mem, held, ooseq, NULL)'
<1> DEFINE p == ooseq[i]
<1>1. p # NULL /\ Good(mem, held, ooseq, NULL) /\ Shape(mem)
  BY Views DEF IInv, DropOoseq
<1>2. p \in Live(mem) /\ Good(mem, held, [ooseq EXCEPT ![i] = NULL], p)
  BY <1>1, GiveUpQueue
<1>3. IsChain(mem, Chain(p)) /\ Chain(p)[1] = p
  BY <1>1, <1>2, ChainFacts
<1> HIDE DEF p
<1>4. Good(PbufFree(mem, Chain(p)), held, [ooseq EXCEPT ![i] = NULL], NULL)
  BY <1>2, <1>3, FreeKeeps
<1> QED
  BY <1>4 DEF DropOoseq, p

\* pbuf_free_ooseq preserves the invariant.
LEMMA StepFreeOoseq ==
  ASSUME IInv, \/ \E i \in 1 .. PCBS : FreeOoseq(i)
               \/ pbuf_free_ooseq
  PROVE  IInv'
<1>1. ASSUME NEW i \in 1 .. PCBS, FreeOoseq(i) PROVE IInv'
  BY <1>1, StepDrop DEF FreeOoseq, IInv
<1>2. CASE pbuf_free_ooseq
  <2>1. pending' = FALSE /\ UNCHANGED held
    BY <1>2 DEF pbuf_free_ooseq
  <2>2. CASE \E i \in 1 .. PCBS : ReclaimFrom(i)
    BY <2>1, <2>2, StepDrop DEF ReclaimFrom, IInv
  <2>3. CASE UNCHANGED <<mem, ooseq>>
    BY <2>1, <2>3 DEF IInv
  <2> QED BY <1>2, <2>2, <2>3 DEF pbuf_free_ooseq
<1> QED
  BY <1>1, <1>2

\* What pbuf_alloc writes into a new pbuf.
LEMMA AllocType ==
  ASSUME NEW type \in {"RAM", "ROM", "REF", "POOL"}, NEW next \in Addr \cup {NULL},
         NEW len \in 0 .. U16 - 1, NEW tot \in 0 .. U16 - 1, NEW room \in Nat
  PROVE  /\ Alloc(type, next, len, tot, room) \in PbufRecord
         /\ Alloc(type, next, len, tot, room).next = next
         /\ Alloc(type, next, len, tot, room).len = len
         /\ Alloc(type, next, len, tot, room).tot_len = tot
         /\ Alloc(type, next, len, tot, room).ref = 1
BY DEF Alloc, PbufRecord

\* The header room leaves room in a pool pbuf.
LEMMA RoomType ==
  ASSUME NEW layer
  PROVE  HeaderRoom(layer) \in Nat /\ HeaderRoom(layer) < PBUF_POOL_BUFSIZE
BY PbufAssumption DEF HeaderRoom

\* pbuf_alloc of RAM, ROM and REF pbufs preserves the invariant.
LEMMA StepAllocSingle ==
  ASSUME IInv, NEW type \in {"RAM", "REF"}, NEW layer, NEW length \in Lengths,
         AllocSingle(type, layer, length)
  PROVE  IInv'
<1> DEFINE r == Alloc(type, NULL, length, length, IF type = "RAM" THEN HeaderRoom(layer) ELSE 0)
<1>1. PICK p \in HEAP \ Used : /\ mem' = [mem EXCEPT ![p] = r] /\ Hold(p)
  BY DEF AllocSingle
<1>2. p \in Addr \ Live(mem)
  BY <1>1, Views DEF Addr
<1>3. r \in PbufRecord /\ r.next = NULL /\ r.tot_len = r.len /\ r.ref = 1
  <2>1. length \in 0 .. U16 - 1
    BY PbufAssumption
  <2> QED BY <2>1, AllocType, RoomType
<1> HIDE DEF r
<1>4. Good([mem EXCEPT ![p] = r], [held EXCEPT ![p] = 1], ooseq, NULL)
  BY <1>2, <1>3, NewKeeps DEF IInv
<1> QED
  BY <1>1, <1>4 DEF IInv, AllocSingle, Hold

\* pbuf_header preserves the invariant.
LEMMA StepHeader ==
  ASSUME IInv, NEW p \in Used, NEW inc \in Int, NEW force, pbuf_header(p, inc, force)
  PROVE  IInv'
<1>1. /\ p \in Live(mem) /\ Shape(mem) /\ Totals(mem) /\ p \in Addr /\ p # NULL
      /\ Holders(held, ooseq) /\ Counts(mem, held, ooseq, NULL)
      /\ mem \in [Addr -> PbufRecord \cup {NULL}] /\ mem[p] \in PbufRecord
      /\ ~HasParent(mem, p)
  BY Views, LiveRecord DEF Live, Shape, pbuf_header, Whole, Packet
<1>2. /\ mem[p].len \in 0 .. U16 - 1 /\ mem[p].tot_len \in 0 .. U16 - 1 /\ mem[p].room \in Nat
      /\ mem[p].len \in Int /\ mem[p].tot_len \in Int
  BY <1>1, LiveRecord, PbufAssumption
<1> DEFINE room == IF mem[p].type \in {"RAM", "POOL"} THEN mem[p].room - inc ELSE mem[p].room
           len == Add16(mem[p].len, inc)
           tot == Add16(mem[p].tot_len, inc)
           r == [mem[p] EXCEPT !.room = room, !.len = len, !.tot_len = tot]
<1>3. room \in Nat /\ len \in 0 .. U16 - 1 /\ tot \in 0 .. U16 - 1
  <2>1. len \in 0 .. U16 - 1 /\ tot \in 0 .. U16 - 1
    BY <1>2, Add16Facts
  <2>2. CASE mem[p].type \in {"RAM", "POOL"}
    <3>1. inc <= mem[p].room
      BY <1>2, <2>2 DEF pbuf_header, HeaderFails
    <3> QED BY <1>2, <2>1, <2>2, <3>1
  <2>3. CASE mem[p].type \notin {"RAM", "POOL"}
    BY <1>2, <2>1, <2>3
  <2> QED BY <2>2, <2>3
<1>4. mem' = [mem EXCEPT ![p] = r]
  BY <1>1 DEF pbuf_header
<1> HIDE DEF room, len, tot
<1>5. /\ r \in PbufRecord /\ r.next = mem[p].next /\ r.ref = mem[p].ref
      /\ r.len = len /\ r.tot_len = tot
  BY <1>1, <1>3 DEF PbufRecord
<1> HIDE DEF r
<1>6. /\ mem' \in [Addr -> PbufRecord \cup {NULL}] /\ Live(mem') = Live(mem)
      /\ mem'[p] = r /\ \A q \in Live(mem) : q # p => mem'[q] = mem[q]
  BY <1>1, <1>4, <1>5, NullAssumption DEF Live
<1>7. \A q \in Live(mem) : mem'[q].next = mem[q].next /\ mem'[q].ref = mem[q].ref
  BY <1>5, <1>6
<1>8. Shape(mem')
  <2>1. \A q \in Live(mem) : mem[q].ref >= 1 /\ mem[q].next \in Live(mem) \cup {NULL}
    BY <1>1, LiveRecord
  <2> QED BY <1>1, <1>6, <1>7, <2>1, ShapeCut
<1>9. Totals(mem')
  <2>1. ASSUME NEW q \in Live(mem)
        PROVE  mem'[q].tot_len = Add16(mem'[q].len, IF mem'[q].next = NULL THEN 0
                                                    ELSE mem'[mem'[q].next].tot_len)
    <3> DEFINE rest == IF mem[q].next = NULL THEN 0 ELSE mem[mem[q].next].tot_len
    <3>1. mem[q].tot_len = Add16(mem[q].len, rest)
      BY <1>1 DEF Totals
    <3>2. mem[q].next \in Live(mem) \cup {NULL} /\ mem[q].next # p
      BY <1>1, LiveRecord DEF HasParent
    <3>3. rest = IF mem'[q].next = NULL THEN 0 ELSE mem'[mem'[q].next].tot_len
      BY <1>6, <1>7, <3>2
    <3>4. rest \in Int
      BY <1>1, <3>2, LiveRecord, PbufAssumption
    <3> HIDE DEF rest
    <3>5. CASE q = p
      <4>1. tot = Add16(Add16(mem[p].len, rest), inc) /\ len = Add16(mem[p].len, inc)
        BY <3>1, <3>5 DEF tot, len
      <4>2. Add16(Add16(mem[p].len, rest), inc) = Add16(Add16(mem[p].len, inc), rest)
        <5>1. /\ Add16(Add16(mem[p].len, rest), inc) = Add16(mem[p].len + rest, inc)
              /\ Add16(Add16(mem[p].len, inc), rest) = Add16(mem[p].len + inc, rest)
          BY <1>2, <3>4, Add16Facts
        <5>2. (mem[p].len + rest) + inc = (mem[p].len + inc) + rest
          BY <1>2, <3>4
        <5> QED BY <5>1, <5>2 DEF Add16
      <4> QED BY <1>5, <1>6, <3>3, <3>5, <4>1, <4>2
    <3>6. CASE q # p
      BY <1>6, <3>1, <3>3, <3>6
    <3> QED BY <3>5, <3>6
  <2> QED BY <1>6, <2>1 DEF Totals
<1>10. Counts(mem', held, ooseq, NULL)
  <2>1. \A q \in Addr : Parents(mem', q) = Parents(mem, q)
    BY <1>6, <1>7 DEF Parents, HasParent
  <2> QED BY <1>1, <1>6, <1>7, <2>1 DEF Counts
<1> QED
  BY <1>1, <1>8, <1>9, <1>10 DEF IInv, Good, pbuf_header

\* pbuf_coalesce preserves the invariant.
LEMMA StepCoalesce ==
  ASSUME IInv, NEW p \in Used, NEW layer, pbuf_coalesce(p, layer)
  PROVE  IInv'
<1> DEFINE q == CHOOSE a \in HEAP : a \notin Used
           r == Alloc("RAM", NULL, mem[p].tot_len, mem[p].tot_len, HeaderRoom(layer))
           m == [mem EXCEPT ![q] = r]
           g == [held EXCEPT ![q] = 1]
<1>1. /\ p \in Live(mem) /\ Shape(mem) /\ Used = Live(mem) /\ p \in Addr
      /\ Holders(held, ooseq) /\ held[p] > 0
  BY Views DEF Live, pbuf_coalesce, Whole, Packet
<1>2. q \in HEAP /\ q \notin Used
  <2>1. \E a \in HEAP : a \notin Used
    <3>1. ~(HEAP \subseteq Used)
      BY DEF pbuf_coalesce
    <3> QED BY <3>1
  <2> QED BY <2>1, Zenon
<1> HIDE DEF q
<1>3. q \in Addr \ Live(mem) /\ p # q
  BY <1>1, <1>2 DEF Addr
<1>4. r \in PbufRecord /\ r.next = NULL /\ r.tot_len = r.len /\ r.ref = 1
  <2>1. mem[p].tot_len \in 0 .. U16 - 1 /\ HeaderRoom(layer) \in Nat /\ NULL \in Addr \cup {NULL}
    BY <1>1, LiveRecord, RoomType
  <2> QED BY <2>1, AllocType
<1> HIDE DEF r
<1>5. Good(m, g, ooseq, NULL) /\ Live(m) = Live(mem) \cup {q}
  BY <1>3, <1>4, NewKeeps DEF IInv
<1>6. p \in Live(m) /\ g[p] = held[p] /\ held \in [Addr -> Nat]
  BY <1>1, <1>3, <1>5 DEF Holders
<1>7. Good(m, [g EXCEPT ![p] = @ - 1], ooseq, p)
  <2> HIDE DEF m, g
  <2> QED BY <1>1, <1>5, <1>6, GiveUpHeld
<1>8. IsChain(m, Chain(p)) /\ Chain(p)[1] = p
  <2> DEFINE c == Chain(p)
  <2>1. /\ IsChain(mem, c) /\ c[1] = p
        /\ c \in Seq(Live(mem)) /\ Len(c) \in Nat /\ Len(c) >= 1
        /\ \A i \in 1 .. Len(c) : c[i] \in Live(mem)
    BY <1>1, ChainFacts, ChainParts
  <2>2. \A s \in Live(mem) : m[s] = mem[s]
    BY <1>1, <1>3 DEF Live
  <2> HIDE DEF m, c
  <2>3. c \in Seq(Live(m))
    BY <1>5, <2>1
  <2>4. \A i \in 1 .. Len(c) : m[c[i]] = mem[c[i]]
    BY <2>1, <2>2
  <2>5. m[c[Len(c)]].next = NULL /\ \A i \in 1 .. Len(c) - 1 : m[c[i]].next = c[i + 1]
    BY <2>1, <2>4 DEF IsChain, IsPath
  <2> QED BY <2>1, <2>3, <2>5 DEF IsChain, IsPath, c
<1>9. Good(PbufFree(m, Chain(p)), [g EXCEPT ![p] = @ - 1], ooseq, NULL)
  <2> HIDE DEF m, g
  <2> QED BY <1>7, <1>8, FreeKeeps
<1>10. [g EXCEPT ![p] = @ - 1] = [held EXCEPT ![p] = @ - 1, ![q] = 1]
  BY <1>3, <1>6
<1>11. /\ mem' = PbufFree(m, Chain(p)) /\ held' = [held EXCEPT ![p] = @ - 1, ![q] = 1]
       /\ UNCHANGED <<ooseq, pending>>
  BY DEF pbuf_coalesce, q, r
<1> HIDE DEF m, g
<1> QED
  BY <1>9, <1>10, <1>11 DEF IInv

\* A caller's packet, and what it tells of its chain.
LEMMA PacketFacts ==
  ASSUME IInv, NEW p, Packet(p)
  PROVE  /\ p \in Live(mem) /\ p \in Addr /\ held[p] \in Nat /\ held[p] > 0
         /\ ~HasParent(mem, p)
         /\ IsChain(mem, Chain(p)) /\ Chain(p)[1] = p
<1>1. p \in Live(mem) /\ Shape(mem) /\ Holders(held, ooseq) /\ held[p] > 0 /\ ~HasParent(mem, p)
  BY Views DEF Packet
<1> QED
  BY <1>1, ChainFacts DEF Live, Holders

\* pbuf_cat preserves the invariant.
LEMMA StepCat ==
  ASSUME IInv, NEW p \in Used, NEW t \in Used, pbuf_cat(p, t)
  PROVE  IInv'
<1>1. /\ IsChain(mem, Chain(p)) /\ Chain(p)[1] = p /\ ~HasParent(mem, p)
      /\ t \in Live(mem) /\ ~HasParent(mem, t) /\ held[t] > 0 /\ p # t
  BY PacketFacts DEF pbuf_cat, MayCat
<1>2. Good(CatOf(mem, Chain(p), t), [held EXCEPT ![t] = @ - 1], ooseq, NULL)
  BY <1>1, CatKeeps DEF IInv
<1>3. Cat(p, t) = CatOf(mem, Chain(p), t)
  BY DEF Cat, CatOf
<1> QED
  BY <1>2, <1>3 DEF IInv, pbuf_cat

\* pbuf_chain takes a reference to t and then does what pbuf_cat does.
LEMMA StepChain ==
  ASSUME IInv, NEW p \in Used, NEW t \in Used, pbuf_chain(p, t)
  PROVE  IInv'
<1> DEFINE c == Chain(p)
           n == [mem EXCEPT ![t].ref = @ + 1]
           g == [held EXCEPT ![t] = @ + 1]
<1>1. /\ IsChain(mem, c) /\ c[1] = p /\ ~HasParent(mem, p) /\ p # t
      /\ t \in Live(mem) /\ t \in Addr /\ ~HasParent(mem, t)
      /\ Shape(mem) /\ Totals(mem) /\ Holders(held, ooseq)
  BY PacketFacts, Views DEF pbuf_chain, MayCat
<1>2. /\ held \in [Addr -> Nat] /\ mem \in [Addr -> PbufRecord \cup {NULL}]
      /\ c \in Seq(Live(mem)) /\ Len(c) \in Nat /\ Len(c) >= 1
      /\ (\A i \in 1 .. Len(c) : c[i] \in Live(mem))
      /\ (\A i \in 1 .. Len(c) - 1 : mem[c[i]].next = c[i + 1])
      /\ mem[c[Len(c)]].next = NULL
      /\ Range(c) = {c[i] : i \in 1 .. Len(c)}
  BY <1>1, ChainParts DEF Holders, Shape
<1> HIDE DEF c
<1>3. Good(n, g, ooseq, NULL)
  <2>1. Holders(g, ooseq)
    BY <1>1, <1>2 DEF Holders
  <2>2. \A q \in Addr : g[q] = held[q] + Extra(t, q) /\ held[q] \in Nat /\ Extra(t, q) \in {0, 1}
    BY <1>2 DEF Extra
  <2> HIDE DEF g
  <2>3. \A q \in Addr : g[q] + Queued(ooseq, q) = held[q] + Queued(ooseq, q) + Extra(t, q)
    BY <2>2, QueuedType
  <2> QED BY <1>1, <2>1, <2>3, RefKeeps DEF IInv
<1>4. Live(n) = Live(mem) /\ \A q \in Live(mem) : n[q].next = mem[q].next
  BY <1>1, RefMemory
<1>5. g[t] > 0 /\ [g EXCEPT ![t] = @ - 1] = held
  <2>1. g \in [Addr -> Nat] /\ g[t] = held[t] + 1 /\ held[t] \in Nat
        /\ \A q \in Addr : q # t => g[q] = held[q]
    BY <1>1, <1>2
  <2>2. g[t] - 1 = held[t] /\ g[t] > 0
    BY <2>1
  <2> HIDE DEF g
  <2>3. [g EXCEPT ![t] = @ - 1] = [q \in Addr |-> IF q = t THEN g[t] - 1 ELSE g[q]]
    BY <1>1, <2>1
  <2>4. held = [q \in Addr |-> held[q]]
    BY <1>2
  <2> QED BY <2>1, <2>2, <2>3, <2>4
<1>6. t \notin Range(c)
  <2>1. SUFFICES ASSUME NEW i \in 1 .. Len(c), t = c[i] PROVE FALSE
    BY <1>2
  <2>2. i - 1 \in 1 .. Len(c) - 1 /\ i - 1 \in 1 .. Len(c) /\ (i - 1) + 1 = i
    BY <1>1, <1>2, <2>1
  <2>3. mem[c[i - 1]].next = t /\ c[i - 1] \in Live(mem)
    BY <1>2, <2>1, <2>2
  <2> QED BY <1>1, <2>3 DEF HasParent
<1>7. n = [q \in Addr |-> IF q = t THEN [mem[t] EXCEPT !.ref = @ + 1] ELSE mem[q]]
  BY <1>1, <1>2
<1>8. [mem[t] EXCEPT !.ref = @ + 1].tot_len = mem[t].tot_len
  BY <1>1, LiveRecord DEF PbufRecord
<1> HIDE DEF n, g
<1>9. Good(CatOf(n, c, t), held, ooseq, NULL)
  <2>1. IsChain(n, c)
    BY <1>2, <1>4 DEF IsChain, IsPath
  <2>2. ~HasParent(n, c[1]) /\ ~HasParent(n, t)
    BY <1>1, <1>4 DEF HasParent
  <2>3. Good(CatOf(n, c, t), [g EXCEPT ![t] = @ - 1], ooseq, NULL)
    BY <1>1, <1>3, <1>4, <1>5, <2>1, <2>2, CatKeeps
  <2> QED BY <1>5, <2>3
<1>10. mem' = CatOf(n, c, t)
  <2>1. mem' = [Cat(p, t) EXCEPT ![t].ref = @ + 1]
    BY DEF pbuf_chain
  <2>2. Cat(p, t) = CatOf(mem, c, t)
    BY DEF Cat, CatOf, c
  <2>3. mem' = [q \in Addr |-> IF q = t THEN [mem[t] EXCEPT !.ref = @ + 1]
                               ELSE CatOf(mem, c, t)[q]]
    BY <1>1, <1>6, <2>1, <2>2 DEF CatOf
  <2>4. n[t].tot_len = mem[t].tot_len /\ \A q \in Range(c) : n[q] = mem[q]
    <3>1. \A q \in Range(c) : q \in Addr /\ q # t
      BY <1>2, <1>6 DEF Live
    <3> QED BY <1>1, <1>7, <1>8, <3>1
  <2>5. ASSUME NEW q \in Addr
        PROVE  CatOf(n, c, t)[q] = IF q = t THEN [mem[t] EXCEPT !.ref = @ + 1]
                                   ELSE CatOf(mem, c, t)[q]
    <3>1. CASE q \in Range(c)
      BY <1>6, <2>4, <3>1 DEF CatOf
    <3>2. CASE q \notin Range(c)
      BY <1>7, <3>2 DEF CatOf
    <3> QED BY <3>1, <3>2
  <2> QED BY <2>3, <2>5 DEF CatOf
<1> QED
  BY <1>9, <1>10 DEF IInv, pbuf_chain

\* pbuf_dechain preserves the invariant.
LEMMA StepDechain ==
  ASSUME IInv, NEW p \in Used, pbuf_dechain(p)
  PROVE  IInv'
<1> DEFINE q == mem[p].next
           m == [mem EXCEPT ![q].tot_len = Sub16(mem[p].tot_len, mem[p].len),
                            ![p].next = NULL, ![p].tot_len = mem[p].len]
<1>1. /\ p \in Live(mem) /\ p \in Addr /\ ~HasParent(mem, p)
      /\ Shape(mem) /\ Totals(mem) /\ mem \in [Addr -> PbufRecord \cup {NULL}]
      /\ q # NULL
  BY PacketFacts, Views DEF pbuf_dechain, Whole, Shape
<1>2. /\ mem[p] \in PbufRecord /\ mem[p].len \in 0 .. U16 - 1
      /\ q \in Live(mem) /\ q \in Addr /\ mem[q] \in PbufRecord
      /\ mem[q].tot_len \in 0 .. U16 - 1 /\ mem[p].len \in Int /\ mem[q].tot_len \in Int
  BY <1>1, LiveRecord, PbufAssumption DEF Live
<1>3. p # q
  BY <1>1 DEF HasParent
<1>4. Sub16(mem[p].tot_len, mem[p].len) = mem[q].tot_len
  <2>1. mem[p].tot_len = Add16(mem[p].len, mem[q].tot_len)
    BY <1>1 DEF Totals
  <2>2. Sub16(Add16(mem[p].len, mem[q].tot_len), mem[p].len)
          = Add16(mem[p].len, mem[q].tot_len - mem[p].len)
    BY <1>2, Add16Facts
  <2>3. mem[p].len + (mem[q].tot_len - mem[p].len) = mem[q].tot_len
    BY <1>2
  <2> QED BY <1>2, <2>1, <2>2, <2>3, ModSmall DEF Add16
<1> DEFINE r == [mem[p] EXCEPT !.next = NULL, !.tot_len = mem[p].len]
<1> HIDE DEF q
<1>5. m = [s \in Addr |-> IF s = p THEN r ELSE mem[s]]
  <2>1. [mem[q] EXCEPT !.tot_len = mem[q].tot_len] = mem[q]
    BY <1>2 DEF PbufRecord
  <2>2. m = [s \in Addr |-> IF s = p THEN r
                            ELSE IF s = q THEN [mem[q] EXCEPT !.tot_len = mem[q].tot_len]
                            ELSE mem[s]]
    BY <1>1, <1>2, <1>3, <1>4
  <2> QED BY <2>1, <2>2
<1>6. /\ r \in PbufRecord /\ r.next = NULL /\ r.ref = mem[p].ref /\ r.len = mem[p].len
      /\ r.tot_len = mem[p].len
  BY <1>2 DEF PbufRecord
<1> HIDE DEF r
<1>7. mem' = PbufFree(m, Chain(q)) /\ UNCHANGED <<held, ooseq, pending>>
  BY DEF pbuf_dechain, q
<1> HIDE DEF m
<1>8. /\ m \in [Addr -> PbufRecord \cup {NULL}] /\ Live(m) = Live(mem)
      /\ m[p] = r /\ \A s \in Live(mem) : s # p => m[s] = mem[s]
  BY <1>1, <1>5, <1>6, NullAssumption DEF Live
<1>9. Totals(m)
  <2>1. ASSUME NEW s \in Live(m)
        PROVE  m[s].tot_len = Add16(m[s].len, IF m[s].next = NULL THEN 0
                                              ELSE m[m[s].next].tot_len)
    <3>1. CASE s = p
      <4>1. Add16(mem[p].len, 0) = mem[p].len
        BY <1>2, ModSmall DEF Add16
      <4> QED BY <1>6, <1>8, <3>1, <4>1
    <3>2. CASE s # p
      <4>1. s \in Live(mem) /\ m[s] = mem[s] /\ mem[s].next # p
        BY <1>1, <1>8, <3>2 DEF HasParent
      <4>2. mem[s].next \in Live(mem) \cup {NULL}
        BY <1>1, <4>1, LiveRecord
      <4>3. mem[s].next # NULL => m[mem[s].next] = mem[mem[s].next]
        BY <1>8, <4>1, <4>2
      <4> QED BY <1>1, <4>1, <4>3 DEF Totals
    <3> QED BY <3>1, <3>2
  <2> QED BY <2>1 DEF Totals
<1>10. Good(m, held, ooseq, q)
  <2>1. \A s \in Live(mem) : m[s].ref = mem[s].ref
                             /\ m[s].next = IF s = p THEN NULL ELSE mem[s].next
    BY <1>6, <1>8
  <2> QED BY <1>1, <1>8, <1>9, <2>1, CutKeeps DEF IInv, q
<1>11. IsChain(m, Chain(q)) /\ Chain(q)[1] = q
  <2> DEFINE c == Chain(q)
  <2>1. /\ IsChain(mem, c) /\ c[1] = q
        /\ c \in Seq(Live(mem)) /\ Len(c) \in Nat /\ Len(c) >= 1
        /\ (\A i \in 1 .. Len(c) : c[i] \in Live(mem))
        /\ (\A i \in 1 .. Len(c) - 1 : mem[c[i]].next = c[i + 1])
        /\ mem[c[Len(c)]].next = NULL
    <3>1. IsChain(mem, c) /\ c[1] = q
      BY <1>1, <1>2, ChainFacts
    <3> HIDE DEF c
    <3> QED BY <1>1, <3>1, ChainParts
  <2> HIDE DEF c
  <2>2. ASSUME NEW i \in 1 .. Len(c) PROVE c[i] # p
    <3>1. CASE i = 1
      BY <1>3, <2>1, <3>1
    <3>2. CASE i # 1
      <4>1. i - 1 \in 1 .. Len(c) - 1 /\ i - 1 \in 1 .. Len(c) /\ (i - 1) + 1 = i
        BY <2>1, <3>2
      <4>2. mem[c[i - 1]].next = c[i] /\ c[i - 1] \in Live(mem)
        BY <2>1, <4>1
      <4> QED BY <1>1, <4>2 DEF HasParent
    <3> QED BY <3>1, <3>2
  <2>3. \A i \in 1 .. Len(c) : m[c[i]] = mem[c[i]]
    BY <1>8, <2>1, <2>2
  <2>4. m[c[Len(c)]].next = NULL /\ \A i \in 1 .. Len(c) - 1 : m[c[i]].next = c[i + 1]
    BY <2>1, <2>3
  <2>5. c \in Seq(Live(m))
    BY <1>8, <2>1
  <2> QED BY <2>1, <2>4, <2>5 DEF IsChain, IsPath, c
<1>12. Good(PbufFree(m, Chain(q)), held, ooseq, NULL)
  BY <1>10, <1>11, FreeKeeps
<1> QED
  BY <1>7, <1>12 DEF IInv

-----------------------------------------------------------------------------
(***************************************************************************)
(* Operations that cut a packet in two.                                    *)
(***************************************************************************)
\* The first k pbufs of a packet are cut off and their totals change by g.
LEMMA CutFront ==
  ASSUME NEW m, NEW h, NEW o, Good(m, h, o, NULL), NEW c, IsChain(m, c), ~HasParent(m, c[1]),
         NEW k \in 1 .. Len(c), NEW g \in Int, NEW n,
         n \in [Addr -> PbufRecord \cup {NULL}], Live(n) = Live(m),
         \A s \in Live(m) :
           n[s].ref = m[s].ref /\ n[s].next = IF s = c[k] THEN NULL ELSE m[s].next,
         \A i \in 1 .. k - 1 : n[c[i]].len = m[c[i]].len,
         \A i \in 1 .. k : n[c[i]].tot_len = Add16(m[c[i]].tot_len, g),
         n[c[k]].tot_len = Add16(n[c[k]].len, 0),
         \A s \in Live(m) : s \notin {c[i] : i \in 1 .. k} => n[s] = m[s]
  PROVE  Good(n, h, o, m[c[k]].next)
<1>0. Shape(m) /\ Totals(m) /\ Holders(h, o) /\ Counts(m, h, o, NULL)
  BY DEF Good
<1>1. /\ Len(c) \in Nat /\ Len(c) >= 1
      /\ (\A i \in 1 .. Len(c) : c[i] \in Live(m))
      /\ (\A i \in 1 .. Len(c) - 1 : m[c[i]].next = c[i + 1])
      /\ m[c[Len(c)]].next = NULL
      /\ (\A i, j \in 1 .. Len(c) : c[i] = c[j] => i = j)
  BY <1>0, ChainParts
<1>2. NULL \notin Live(m)
  BY NullNotAddr DEF Live
<1>3. ASSUME NEW s \in Live(n)
      PROVE  n[s].tot_len = Add16(n[s].len, IF n[s].next = NULL THEN 0
                                            ELSE n[n[s].next].tot_len)
  <2>1. CASE \E i \in 1 .. k - 1 : s = c[i]
    <3>1. PICK i \in 1 .. k - 1 : s = c[i]
      BY <2>1
    <3>2. i \in 1 .. Len(c) /\ i \in 1 .. Len(c) - 1 /\ i + 1 \in 1 .. Len(c)
          /\ i \in 1 .. k /\ i + 1 \in 1 .. k /\ k \in 1 .. Len(c) /\ i # k
      BY <1>1, <3>1
    <3> DEFINE t == c[i + 1]
    <3>3. s \in Live(m) /\ t \in Live(m) /\ m[s].next = t /\ s # c[k] /\ t # NULL
      BY <1>1, <1>2, <3>1, <3>2
    <3>4. /\ m[s].tot_len = Add16(m[s].len, m[t].tot_len)
          /\ m[s].len \in Int /\ m[t].tot_len \in Int
      <4>1. m[s].len \in Int /\ m[t].tot_len \in Int
        <5> HIDE DEF t
        <5>1. m[s].len \in 0 .. U16 - 1 /\ m[t].tot_len \in 0 .. U16 - 1
          BY <1>0, <3>3, LiveRecord
        <5> QED BY <5>1, PbufAssumption
      <4>2. m[s].tot_len = Add16(m[s].len, m[t].tot_len)
        <5> HIDE DEF t
        <5> QED BY <1>0, <3>3 DEF Totals
      <4> QED BY <4>1, <4>2
    <3>5. n[s].next = t /\ n[s].len = m[s].len
      BY <3>1, <3>3
    <3>6. n[s].tot_len = Add16(m[s].tot_len, g) /\ n[t].tot_len = Add16(m[t].tot_len, g)
      BY <3>1, <3>2
    <3>7. Add16(m[s].len, Add16(m[t].tot_len, g)) = Add16(Add16(m[s].len, m[t].tot_len), g)
      BY <3>4, Add16Assoc
    <3> HIDE DEF t
    <3> QED BY <3>3, <3>4, <3>5, <3>6, <3>7
  <2>2. CASE s = c[k]
    BY <2>2
  <2>3. CASE s # c[k] /\ ~\E i \in 1 .. k - 1 : s = c[i]
    <3>1. s \in Live(m) /\ s \notin {c[i] : i \in 1 .. k}
      <4>1. ASSUME NEW i \in 1 .. k, s = c[i] PROVE FALSE
        <5>1. i = k \/ i \in 1 .. k - 1
          BY <1>1
        <5> QED BY <2>3, <4>1, <5>1
      <4> QED BY <4>1
    <3>2. n[s] = m[s]
      BY <3>1
    <3>3. m[s].next \notin {c[i] : i \in 1 .. k}
      <4>1. SUFFICES ASSUME NEW i \in 1 .. k, m[s].next = c[i] PROVE FALSE
        OBVIOUS
      <4>2. i # 1
        BY <3>1, <4>1 DEF HasParent
      <4>3. i - 1 \in 1 .. Len(c) - 1 /\ i - 1 \in 1 .. Len(c) /\ (i - 1) + 1 = i /\ i - 1 \in 1 .. k
            /\ i \in 1 .. Len(c)
        BY <1>1, <4>2
      <4>4. m[c[i - 1]].next = c[i] /\ c[i - 1] \in Live(m) /\ c[i] \in Live(m)
        BY <1>1, <4>3
      <4>5. s = c[i - 1]
        BY <1>0, <1>2, <3>1, <4>1, <4>4 DEF Shape
      <4> QED BY <3>1, <4>3, <4>5
    <3>4. m[s].next \in Live(m) \cup {NULL}
      BY <1>0, <3>1, LiveRecord
    <3>5. m[s].next # NULL => n[m[s].next] = m[m[s].next]
      BY <3>3, <3>4
    <3> QED BY <1>0, <3>1, <3>2, <3>5 DEF Totals
  <2> QED BY <2>1, <2>2, <2>3
<1>4. c[k] \in Live(m)
  BY <1>1
<1> QED
  BY <1>3, <1>4, CutKeeps DEF Totals

\* pbuf_split_64k preserves the invariant.
LEMMA StepSplit ==
  ASSUME IInv, NEW p \in Used, pbuf_split_64k(p)
  PROVE  IInv'
<1> DEFINE c == Chain(p)
<1>1. /\ IsChain(mem, c) /\ c[1] = p /\ ~HasParent(mem, p)
      /\ Shape(mem) /\ Totals(mem) /\ Holders(held, ooseq)
  BY PacketFacts, Views DEF pbuf_split_64k
<1> HIDE DEF c
<1>2. /\ Len(c) \in Nat /\ Len(c) >= 1 /\ c \in Seq(Live(mem))
      /\ (\A i \in 1 .. Len(c) : c[i] \in Live(mem))
      /\ (\A i \in 1 .. Len(c) - 1 : mem[c[i]].next = c[i + 1])
      /\ (\A i, j \in 1 .. Len(c) : c[i] = c[j] => i = j)
  BY <1>1, ChainParts
<1>3. PICK k \in 1 .. Len(c) - 1 :
        /\ mem' = [q \in Addr |->
             IF q \notin Range(SubSeq(c, 1, k)) THEN mem[q]
             ELSE [mem[q] EXCEPT !.tot_len = Sub16(@, mem[c[k + 1]].tot_len),
                                 !.next = IF q = c[k] THEN NULL ELSE @]]
        /\ held' = [held EXCEPT ![c[k + 1]] = @ + 1]
  BY DEF pbuf_split_64k, c
<1> DEFINE r == c[k + 1]
           A == {c[i] : i \in 1 .. k}
           g == 0 - mem[r].tot_len
<1>4. Range(SubSeq(c, 1, k)) = A
  <2>1. Len(SubSeq(c, 1, k)) = k /\ \A i \in 1 .. k : SubSeq(c, 1, k)[i] = c[i]
    BY <1>2, SubSeqProperties
  <2>2. DOMAIN SubSeq(c, 1, k) = 1 .. k
    BY <1>2, <2>1
  <2> QED BY <2>1, <2>2 DEF Range
<1>5. /\ k \in 1 .. Len(c) /\ k + 1 \in 1 .. Len(c) /\ c[k] \in A /\ A \subseteq Live(mem)
      /\ r \in Live(mem) /\ mem[c[k]].next = r /\ c[k] \in Live(mem) /\ r # NULL
  BY <1>2, NullNotAddr DEF Live
<1>6. mem[r].tot_len \in 0 .. U16 - 1 /\ mem[r].tot_len \in Int /\ g \in Int
  BY <1>1, <1>5, LiveRecord, PbufAssumption
<1>7. ASSUME NEW s \in A
      PROVE  /\ mem'[s] \in PbufRecord
             /\ mem'[s].ref = mem[s].ref /\ mem'[s].len = mem[s].len
             /\ mem'[s].next = IF s = c[k] THEN NULL ELSE mem[s].next
             /\ mem'[s].tot_len = Sub16(mem[s].tot_len, mem[r].tot_len)
             /\ mem'[s].tot_len = Add16(mem[s].tot_len, g)
  <2> DEFINE tot == Sub16(mem[s].tot_len, mem[r].tot_len)
             next == IF s = c[k] THEN NULL ELSE mem[s].next
  <2>1. s \in Addr /\ mem[s] \in PbufRecord /\ mem[s].tot_len \in Int
    BY <1>1, <1>5, LiveRecord, PbufAssumption
  <2>2. tot \in 0 .. U16 - 1 /\ next \in Addr \cup {NULL}
    BY <1>6, <2>1, Add16Facts DEF PbufRecord
  <2>3. tot = Add16(mem[s].tot_len, g)
    <3>1. mem[s].tot_len + (0 - mem[r].tot_len) = mem[s].tot_len - mem[r].tot_len
      BY <1>6, <2>1
    <3> QED BY <3>1 DEF Add16, Sub16
  <2>4. mem'[s] = [mem[s] EXCEPT !.tot_len = tot, !.next = next]
    BY <1>3, <1>4, <2>1
  <2> HIDE DEF tot, next
  <2>5. /\ mem'[s] \in PbufRecord /\ mem'[s].ref = mem[s].ref /\ mem'[s].len = mem[s].len
        /\ mem'[s].tot_len = tot /\ mem'[s].next = next
    BY <2>1, <2>2, <2>4 DEF PbufRecord
  <2> QED BY <2>3, <2>5 DEF tot, next
<1>8. \A s \in Addr \ A : mem'[s] = mem[s]
  BY <1>3, <1>4
<1>9. mem' \in [Addr -> PbufRecord \cup {NULL}] /\ Live(mem') = Live(mem)
  <2>1. mem' = [s \in Addr |-> mem'[s]]
    BY <1>3
  <2>2. mem \in [Addr -> PbufRecord \cup {NULL}]
    BY <1>1 DEF Shape
  <2>3. \A s \in Addr : mem'[s] \in PbufRecord \cup {NULL}
    BY <1>7, <1>8, <2>2
  <2>4. \A s \in Addr : mem'[s] # NULL <=> mem[s] # NULL
    BY <1>5, <1>7, <1>8, NullAssumption DEF Live
  <2> QED BY <2>1, <2>3, <2>4 DEF Live
<1>10. \A s \in Live(mem) : mem'[s].ref = mem[s].ref
                            /\ mem'[s].next = IF s = c[k] THEN NULL ELSE mem[s].next
  <2> SUFFICES ASSUME NEW s \in Live(mem)
               PROVE  /\ mem'[s].ref = mem[s].ref
                      /\ mem'[s].next = IF s = c[k] THEN NULL ELSE mem[s].next
    OBVIOUS
  <2>1. CASE s \in A
    BY <1>7, <2>1
  <2>2. CASE s \notin A
    <3>1. mem'[s] = mem[s] /\ s # c[k]
      BY <1>5, <1>8, <2>2 DEF Live
    <3> QED BY <3>1
  <2> QED BY <2>1, <2>2
<1>11. mem'[c[k]].tot_len = Add16(mem'[c[k]].len, 0)
  <2>1. mem[c[k]].tot_len = Add16(mem[c[k]].len, mem[r].tot_len) /\ mem[c[k]].len \in Int
    <3> HIDE DEF r, A, g
    <3>1. c[k] \in Live(mem) /\ mem[c[k]].next = r /\ r # NULL
      BY <1>5
    <3>2. mem[c[k]].tot_len = Add16(mem[c[k]].len, mem[r].tot_len)
      BY <1>1, <3>1 DEF Totals
    <3>3. mem[c[k]].len \in 0 .. U16 - 1
      BY <1>1, <3>1, LiveRecord
    <3> QED BY <3>2, <3>3, PbufAssumption
  <2>2. Sub16(Add16(mem[c[k]].len, mem[r].tot_len), mem[r].tot_len)
          = Add16(mem[c[k]].len, mem[r].tot_len - mem[r].tot_len)
    BY <1>6, <2>1, Add16Facts
  <2>3. mem[r].tot_len - mem[r].tot_len = 0
    BY <1>6
  <2> QED BY <1>5, <1>7, <2>1, <2>2, <2>3
<1>12. /\ \A i \in 1 .. k - 1 : mem'[c[i]].len = mem[c[i]].len
       /\ \A i \in 1 .. k : mem'[c[i]].tot_len = Add16(mem[c[i]].tot_len, g)
       /\ \A s \in Live(mem) : s \notin {c[i] : i \in 1 .. k} => mem'[s] = mem[s]
  BY <1>7, <1>8 DEF Live
<1> HIDE DEF g
<1>13. Good(mem', held, ooseq, r)
  <2>1. Good(mem, held, ooseq, NULL)
    BY DEF IInv
  <2>2. ~HasParent(mem, c[1]) /\ k \in 1 .. Len(c) /\ g \in Int
    BY <1>1, <1>5, <1>6
  <2>3. Good(mem', held, ooseq, mem[c[k]].next)
    BY <1>1, <1>9, <1>10, <1>11, <1>12, <2>1, <2>2, CutFront, Zenon
  <2> QED BY <1>5, <2>3
<1>14. Good(mem', [held EXCEPT ![r] = @ + 1], ooseq, NULL)
  BY <1>5, <1>9, <1>13, TakeUp
<1> QED
  BY <1>3, <1>14 DEF IInv, pbuf_split_64k

\* The sums of LenUpTo exist.
LenSums(f, c, k) ==
  f = [i \in 0 .. k |-> IF i = 0 THEN 0 ELSE f[i - 1] + mem[c[i]].len]

\* There are partial sums of every length.
LEMMA LenSumsExist ==
  ASSUME NEW c
  PROVE  \A k \in Nat : \E f : LenSums(f, c, k)
<1> DEFINE S == {k \in Nat : \E f : LenSums(f, c, k)}
<1>1. 0 \in S
  <2>1. LenSums([i \in 0 .. 0 |-> 0], c, 0)
    BY DEF LenSums
  <2> QED BY <2>1
<1>2. ASSUME NEW n \in Nat, n \in S PROVE n + 1 \in S
  <2>1. PICK f : LenSums(f, c, n)
    BY <1>2
  <2> DEFINE g == [i \in 0 .. n + 1 |->
                     IF i = n + 1 THEN f[n] + mem[c[n + 1]].len ELSE f[i]]
  <2>2. ASSUME NEW i \in 0 .. n + 1
        PROVE  g[i] = IF i = 0 THEN 0 ELSE g[i - 1] + mem[c[i]].len
    BY <2>1 DEF LenSums
  <2>3. LenSums(g, c, n + 1)
    BY <2>2 DEF LenSums
  <2> QED BY <2>3
<1> HIDE DEF S
<1>3. Nat \subseteq S
  BY <1>1, <1>2, SetInduction
<1> QED
  BY <1>3 DEF S

\* Partial sums of one chain agree.
LEMMA LenSumsAgree ==
  ASSUME NEW c, NEW k \in Nat, NEW j \in Nat, NEW f, NEW g,
         LenSums(f, c, k), LenSums(g, c, j), NEW n \in Nat, n <= k, n <= j
  PROVE  f[n] = g[n]
<1> DEFINE S == {i \in Nat : i <= n => f[i] = g[i]}
<1>1. 0 \in S
  BY DEF LenSums
<1>2. ASSUME NEW i \in Nat, i \in S PROVE i + 1 \in S
  <2> SUFFICES ASSUME i + 1 <= n PROVE f[i + 1] = g[i + 1]
    OBVIOUS
  <2>1. f[i] = g[i]
    BY <1>2
  <2>2. f[i + 1] = f[i] + mem[c[i + 1]].len
    BY DEF LenSums
  <2>3. g[i + 1] = g[i] + mem[c[i + 1]].len
    BY DEF LenSums
  <2> QED BY <2>1, <2>2, <2>3
<1> HIDE DEF S
<1>3. Nat \subseteq S
  BY <1>1, <1>2, SetInduction
<1> QED
  BY <1>3 DEF S

\* LenUpTo is such a partial sum.
LEMMA LenUpToSum ==
  ASSUME NEW c, NEW k \in Nat
  PROVE  \E f : LenSums(f, c, k) /\ LenUpTo(c, k) = f[k]
<1> DEFINE f == CHOOSE g : g = [i \in 0 .. k |-> IF i = 0 THEN 0 ELSE g[i - 1] + mem[c[i]].len]
<1>1. \E g : g = [i \in 0 .. k |-> IF i = 0 THEN 0 ELSE g[i - 1] + mem[c[i]].len]
  BY LenSumsExist DEF LenSums
<1>2. LenSums(f, c, k)
  BY <1>1 DEF LenSums
<1>3. LenUpTo(c, k) = f[k]
  BY DEF LenUpTo
<1> QED
  BY <1>2, <1>3

\* Each pbuf of a chain adds its length.
LEMMA LenUpToNext ==
  ASSUME NEW c
  PROVE  /\ LenUpTo(c, 0) = 0
         /\ \A k \in Nat \ {0} : LenUpTo(c, k) = LenUpTo(c, k - 1) + mem[c[k]].len
<1>1. LenUpTo(c, 0) = 0
  BY LenUpToSum DEF LenSums
<1>2. ASSUME NEW k \in Nat \ {0}
      PROVE  LenUpTo(c, k) = LenUpTo(c, k - 1) + mem[c[k]].len
  <2>1. PICK f : LenSums(f, c, k) /\ LenUpTo(c, k) = f[k]
    BY LenUpToSum
  <2>2. PICK g : LenSums(g, c, k - 1) /\ LenUpTo(c, k - 1) = g[k - 1]
    BY LenUpToSum
  <2>3. f[k] = f[k - 1] + mem[c[k]].len
    BY <2>1 DEF LenSums
  <2>4. k - 1 \in Nat /\ k \in Nat /\ k - 1 <= k /\ k - 1 <= k - 1
    OBVIOUS
  <2>5. f[k - 1] = g[k - 1]
    BY <2>1, <2>2, <2>4, LenSumsAgree
  <2> QED BY <2>1, <2>2, <2>3, <2>5
<1> QED
  BY <1>1, <1>2

\* tot_len is the length of the packet from there on, in u16_t arithmetic.
LEMMA TotLenSum ==
  ASSUME Shape(mem), Totals(mem), NEW c, IsChain(mem, c)
  PROVE  \A k \in 1 .. Len(c) :
           /\ LenUpTo(c, k - 1) \in Nat
           /\ mem[c[1]].tot_len = Add16(LenUpTo(c, k - 1), mem[c[k]].tot_len)
<1> DEFINE S == {k \in Nat : k + 1 <= Len(c) =>
                   /\ LenUpTo(c, k) \in Nat
                   /\ mem[c[1]].tot_len = Add16(LenUpTo(c, k), mem[c[k + 1]].tot_len)}
<1>0. /\ Len(c) \in Nat /\ Len(c) >= 1
      /\ (\A i \in 1 .. Len(c) : c[i] \in Live(mem))
      /\ (\A i \in 1 .. Len(c) - 1 : mem[c[i]].next = c[i + 1])
  BY ChainParts
<1>1. ASSUME NEW i \in 1 .. Len(c)
      PROVE  /\ mem[c[i]].len \in Nat /\ mem[c[i]].len \in 0 .. U16 - 1
             /\ mem[c[i]].tot_len \in Nat /\ mem[c[i]].tot_len \in 0 .. U16 - 1
  <2>1. mem[c[i]].len \in 0 .. U16 - 1 /\ mem[c[i]].tot_len \in 0 .. U16 - 1
    BY <1>0, LiveRecord
  <2> QED BY <2>1, PbufAssumption
<1>2. 0 \in S
  <2>1. LenUpTo(c, 0) = 0 /\ 1 \in 1 .. Len(c)
    BY <1>0, LenUpToNext
  <2>2. Add16(0, mem[c[1]].tot_len) = mem[c[1]].tot_len
    <3>1. 0 + mem[c[1]].tot_len = mem[c[1]].tot_len
      BY <1>1, <2>1
    <3> QED BY <1>1, <2>1, <3>1, ModSmall DEF Add16
  <2> QED BY <2>1, <2>2
<1>3. ASSUME NEW k \in Nat, k \in S PROVE k + 1 \in S
  <2> SUFFICES ASSUME k + 1 + 1 <= Len(c)
               PROVE  /\ LenUpTo(c, k + 1) \in Nat
                      /\ mem[c[1]].tot_len = Add16(LenUpTo(c, k + 1), mem[c[k + 1 + 1]].tot_len)
    OBVIOUS
  <2>1. /\ k + 1 \in 1 .. Len(c) /\ k + 2 \in 1 .. Len(c) /\ k + 1 \in 1 .. Len(c) - 1
        /\ k + 1 + 1 = k + 2 /\ k + 1 <= Len(c) /\ k + 1 \in Nat \ {0} /\ (k + 1) - 1 = k
    BY <1>0
  <2>2. LenUpTo(c, k) \in Nat /\ mem[c[1]].tot_len = Add16(LenUpTo(c, k), mem[c[k + 1]].tot_len)
    BY <1>3, <2>1
  <2>3. LenUpTo(c, k + 1) = LenUpTo(c, k) + mem[c[k + 1]].len
    BY <2>1, LenUpToNext
  <2>4. mem[c[k + 1]].tot_len = Add16(mem[c[k + 1]].len, mem[c[k + 2]].tot_len)
    <3>1. /\ mem[c[k + 1]].next = c[k + 2] /\ c[k + 1] \in Live(mem) /\ c[k + 2] \in Live(mem)
          /\ c[k + 2] # NULL
      BY <1>0, <2>1, NullNotAddr DEF Live
    <3> QED BY <3>1 DEF Totals
  <2> DEFINE a == LenUpTo(c, k)
             b == mem[c[k + 1]].len
             g == mem[c[k + 2]].tot_len
  <2>5. a \in Int /\ b \in Int /\ g \in Int /\ a + b \in Nat
    BY <1>1, <2>1, <2>2
  <2>6. Add16(a, Add16(b, g)) = Add16(a + b, g)
    <3> HIDE DEF a, b, g
    <3> QED BY <2>5, Add16Facts
  <2> QED BY <2>1, <2>2, <2>3, <2>4, <2>5, <2>6
<1> HIDE DEF S
<1>4. Nat \subseteq S
  BY <1>2, <1>3, SetInduction
<1>5. ASSUME NEW k \in 1 .. Len(c)
      PROVE  /\ LenUpTo(c, k - 1) \in Nat
             /\ mem[c[1]].tot_len = Add16(LenUpTo(c, k - 1), mem[c[k]].tot_len)
  <2>1. k - 1 \in Nat /\ (k - 1) + 1 = k /\ k <= Len(c)
    BY <1>0
  <2>2. k - 1 \in S
    BY <1>4, <2>1
  <2> QED BY <2>1, <2>2 DEF S
<1> QED
  BY <1>5

\* Terms that change sides.
LEMMA Moved ==
  ASSUME NEW l \in Int, NEW t \in Int, NEW d \in Int, NEW w \in Int, NEW n \in Int,
         l + t = d + w
  PROVE  t + (n - w) = d + (n - l)
OBVIOUS

\* pbuf_realloc preserves the invariant.
LEMMA StepRealloc ==
  ASSUME IInv, NEW p \in Used, NEW new_len \in Lengths, pbuf_realloc(p, new_len)
  PROVE  IInv'
<1> DEFINE c == Chain(p)
           g == new_len - mem[p].tot_len
<1>1. /\ IsChain(mem, c) /\ c[1] = p /\ ~HasParent(mem, p)
      /\ Shape(mem) /\ Totals(mem) /\ Holders(held, ooseq)
  BY PacketFacts, Views DEF pbuf_realloc, Whole
<1> HIDE DEF c
<1>2. /\ Len(c) \in Nat /\ Len(c) >= 1 /\ c \in Seq(Live(mem))
      /\ (\A i \in 1 .. Len(c) : c[i] \in Live(mem))
      /\ (\A i \in 1 .. Len(c) - 1 : mem[c[i]].next = c[i + 1])
      /\ (\A i, j \in 1 .. Len(c) : c[i] = c[j] => i = j)
      /\ mem[c[Len(c)]].next = NULL
  BY <1>1, ChainParts
<1> DEFINE rem(k) == new_len - LenUpTo(c, k - 1)
           cut(k) ==
             [q \in Addr |->
                IF q \in Range(SubSeq(c, 1, k - 1)) THEN [mem[q] EXCEPT !.tot_len = Add16(@, g)]
                ELSE IF q = c[k]
                  THEN [mem[q] EXCEPT !.len = rem(k), !.tot_len = rem(k), !.next = NULL]
                ELSE mem[q]]
<1>3. PICK k \in 1 .. Len(c) :
        /\ NewLast(c, new_len, k)
        /\ mem' = IF k < Len(c) THEN PbufFree(cut(k), SubSeq(c, k + 1, Len(c))) ELSE cut(k)
  BY DEF pbuf_realloc, c
<1> DEFINE A == {c[i] : i \in 1 .. k - 1}
           n == cut(k)
           r == rem(k)
           last == c[k]
<1>19. mem' = IF k < Len(c) THEN PbufFree(n, SubSeq(c, k + 1, Len(c))) ELSE n
  BY <1>3
<1>4. Range(SubSeq(c, 1, k - 1)) = A
  <2>1. Len(SubSeq(c, 1, k - 1)) = k - 1 /\ \A i \in 1 .. k - 1 : SubSeq(c, 1, k - 1)[i] = c[i]
    BY <1>2, SubSeqProperties
  <2>2. DOMAIN SubSeq(c, 1, k - 1) = 1 .. k - 1
    BY <1>2, <2>1
  <2> QED BY <2>1, <2>2 DEF Range
<1>5. /\ last \in Live(mem) /\ last \notin A /\ A \subseteq Live(mem) /\ last \in Addr
      /\ mem \in [Addr -> PbufRecord \cup {NULL}] /\ mem[last] \in PbufRecord
  <2>1. last \in Live(mem) /\ A \subseteq Live(mem)
    BY <1>2
  <2>2. last \notin A
    <3>1. ASSUME NEW i \in 1 .. k - 1, c[i] = c[k] PROVE FALSE
      BY <1>2, <3>1
    <3> QED BY <3>1
  <2> QED BY <1>1, <2>1, <2>2, LiveRecord DEF Shape
<1>6. n = [q \in Addr |-> IF q \in A THEN [mem[q] EXCEPT !.tot_len = Add16(@, g)]
                          ELSE IF q = last
                            THEN [mem[q] EXCEPT !.len = r, !.tot_len = r, !.next = NULL]
                          ELSE mem[q]]
  BY <1>4
\* What is left of the new last pbuf.
<1>7. new_len \in Nat /\ new_len \in 0 .. U16 - 1 /\ mem[p].tot_len \in Int /\ g \in Int
  <2>1. new_len \in 0 .. U16 - 1 /\ mem[p].tot_len \in 0 .. U16 - 1
    BY <1>1, Views, LiveRecord, PbufAssumption
  <2> QED BY <2>1, PbufAssumption
<1>8. /\ LenUpTo(c, k - 1) \in Nat
      /\ mem[p].tot_len = Add16(LenUpTo(c, k - 1), mem[last].tot_len)
  BY <1>1, TotLenSum
<1>9. /\ mem[last].len \in Nat /\ mem[last].len <= U16 - 1
      /\ mem[last].tot_len \in Nat /\ mem[last].tot_len \in Int
  <2>1. mem[last].len \in 0 .. U16 - 1 /\ mem[last].tot_len \in 0 .. U16 - 1
    BY <1>1, <1>5, LiveRecord
  <2> QED BY <2>1, PbufAssumption
<1>10. r \in 0 .. U16 - 1
  <2>1. LenUpTo(c, k) = LenUpTo(c, k - 1) + mem[last].len
    <3>1. k \in Nat \ {0}
      BY <1>2
    <3> QED BY <3>1, LenUpToNext
  <2>2. new_len <= LenUpTo(c, k) /\ (k = 1 \/ new_len > LenUpTo(c, k - 1))
    BY <1>3 DEF NewLast
  <2>3. r >= 0
    <3>1. CASE k = 1
      BY <1>7, <3>1, LenUpToNext
    <3>2. CASE k # 1
      BY <1>7, <1>8, <2>2, <3>2
    <3> QED BY <3>1, <3>2
  <2>4. r <= mem[last].len
    BY <1>7, <1>8, <1>9, <2>1, <2>2
  <2>5. r \in Int /\ U16 \in Int
    BY <1>7, <1>8, PbufAssumption
  <2> HIDE DEF r
  <2> QED BY <1>9, <2>3, <2>4, <2>5
<1>11. Add16(mem[last].tot_len, g) = r
  <2> DEFINE a == LenUpTo(c, k - 1) + mem[last].tot_len
  <2>1. a \in Int
    BY <1>8, <1>9
  <2>2. mem[p].tot_len = a % U16
    BY <1>8 DEF Add16
  <2>3. a = U16 * (a \div U16) + (a % U16) /\ a \div U16 \in Int
    <3> HIDE DEF a
    <3> QED BY <2>1, PbufAssumption
  <2>4. mem[last].tot_len + g = U16 * (a \div U16) + r
    <3> DEFINE d == U16 * (a \div U16)
    <3>1. d \in Int
      BY <2>3, PbufAssumption
    <3>2. a = d + mem[p].tot_len
      BY <2>2, <2>3
    <3> HIDE DEF d
    <3>3. LenUpTo(c, k - 1) + mem[last].tot_len = d + mem[p].tot_len
      BY <3>2
    <3> HIDE DEF d, last
    <3>4. mem[last].tot_len + (new_len - mem[p].tot_len) = d + (new_len - LenUpTo(c, k - 1))
      <4> DEFINE l == LenUpTo(c, k - 1)
                 t == mem[last].tot_len
                 w == mem[p].tot_len
      <4>1. new_len \in Int /\ l \in Int /\ t \in Int /\ w \in Int
        BY <1>7, <1>8, <1>9
      <4>2. l + t = d + w
        BY <3>3
      <4> HIDE DEF l, t, w
      <4>3. t + (new_len - w) = d + (new_len - l)
        BY <3>1, <4>1, <4>2, Moved
      <4> QED BY <4>3 DEF l, t, w
    <3> QED BY <3>4 DEF d
  <2> HIDE DEF a
  <2>5. mem[last].tot_len + g \in Int
    BY <1>7, <1>9
  <2> HIDE DEF g, r
  <2> QED BY <1>10, <2>3, <2>4, <2>5, ModUnique DEF Add16
<1> HIDE DEF n, r, last, g, A
\* The memory after the cut.
<1>12. ASSUME NEW s \in A
       PROVE  /\ n[s] \in PbufRecord /\ n[s].next = mem[s].next /\ n[s].ref = mem[s].ref
              /\ n[s].len = mem[s].len /\ n[s].tot_len = Add16(mem[s].tot_len, g)
  <2>1. s \in Addr /\ mem[s] \in PbufRecord /\ mem[s].tot_len \in Int
    BY <1>1, <1>5, LiveRecord, PbufAssumption
  <2>2. Add16(mem[s].tot_len, g) \in 0 .. U16 - 1
    BY <1>7, <2>1, Add16Facts
  <2>3. n[s] = [mem[s] EXCEPT !.tot_len = Add16(mem[s].tot_len, g)]
    BY <1>6, <2>1
  <2> QED BY <2>1, <2>2, <2>3 DEF PbufRecord
<1>13. /\ n[last] \in PbufRecord /\ n[last].next = NULL /\ n[last].ref = mem[last].ref
       /\ n[last].len = r /\ n[last].tot_len = r
  <2>1. n[last] = [mem[last] EXCEPT !.len = r, !.tot_len = r, !.next = NULL]
    BY <1>5, <1>6
  <2> QED BY <1>5, <1>10, <2>1 DEF PbufRecord
<1>14. \A s \in Addr : s \notin A /\ s # last => n[s] = mem[s]
  BY <1>6
<1>15. n \in [Addr -> PbufRecord \cup {NULL}] /\ Live(n) = Live(mem)
  <2>1. n = [s \in Addr |-> n[s]]
    BY <1>6
  <2>2. \A s \in Addr : n[s] \in PbufRecord \cup {NULL}
    BY <1>5, <1>12, <1>13, <1>14
  <2>3. \A s \in Addr : n[s] # NULL <=> mem[s] # NULL
    BY <1>5, <1>12, <1>13, <1>14, NullAssumption DEF Live
  <2> QED BY <2>1, <2>2, <2>3 DEF Live
<1>16. Good(n, held, ooseq, mem[c[k]].next)
  <2>1. Good(mem, held, ooseq, NULL)
    BY DEF IInv
  <2>2. ~HasParent(mem, c[1]) /\ g \in Int /\ k \in 1 .. Len(c)
    BY <1>1, <1>7
  <2>3. \A s \in Live(mem) :
          n[s].ref = mem[s].ref /\ n[s].next = IF s = c[k] THEN NULL ELSE mem[s].next
    BY <1>5, <1>12, <1>13, <1>14 DEF last, Live
  <2>4. \A i \in 1 .. k - 1 : n[c[i]].len = mem[c[i]].len
    BY <1>12 DEF A
  <2>5. \A i \in 1 .. k : n[c[i]].tot_len = Add16(mem[c[i]].tot_len, g)
    <3>1. ASSUME NEW i \in 1 .. k PROVE n[c[i]].tot_len = Add16(mem[c[i]].tot_len, g)
      <4>1. CASE i = k
        BY <1>11, <1>13, <4>1 DEF last
      <4>2. CASE i # k
        <5>1. i \in 1 .. k - 1
          BY <1>2, <4>2
        <5> QED BY <1>12, <5>1 DEF A
      <4> QED BY <4>1, <4>2
    <3> QED BY <3>1
  <2>6. n[c[k]].tot_len = Add16(n[c[k]].len, 0)
    <3>1. r + 0 = r
      BY <1>10, PbufAssumption
    <3> QED BY <1>10, <1>13, <3>1, ModSmall DEF last, Add16
  <2>7. \A s \in Live(mem) : s \notin {c[i] : i \in 1 .. k} => n[s] = mem[s]
    <3>1. ASSUME NEW s \in Live(mem), s \notin {c[i] : i \in 1 .. k} PROVE n[s] = mem[s]
      <4>1. s # last
        BY <1>2, <3>1 DEF last
      <4>2. s \notin A
        BY <1>2, <3>1 DEF A
      <4> QED BY <1>14, <4>1, <4>2 DEF Live
    <3> QED BY <3>1
  <2>8. IsChain(mem, c)
    BY <1>1
  <2>9. n \in [Addr -> PbufRecord \cup {NULL}] /\ Live(n) = Live(mem)
    BY <1>15
  <2> QED BY <2>1, <2>2, <2>3, <2>4, <2>5, <2>6, <2>7, <2>8, <2>9, CutFront, ZenonT(60)
<1>17. CASE k = Len(c)
  <2>1. mem' = n
    BY <1>2, <1>17, <1>19
  <2>2. mem[c[k]].next = NULL
    BY <1>2, <1>17
  <2> QED BY <1>16, <2>1, <2>2 DEF IInv, pbuf_realloc
<1>18. CASE k # Len(c)
  <2> DEFINE d == SubSeq(c, k + 1, Len(c))
  <2>1. k \in 0 .. Len(c) - 1 /\ k \in 1 .. Len(c) - 1 /\ k < Len(c)
    BY <1>2, <1>18
  <2>2. /\ d \in Seq(Live(mem)) /\ Len(d) = Len(c) - k
        /\ (\A i \in 1 .. Len(d) : d[i] = c[k + i])
        /\ IsChain(mem, d)
    BY <1>1, <2>1, ChainTail
  <2>3. mem' = PbufFree(n, d)
    BY <1>19, <2>1
  <2> HIDE DEF d
  <2>4. ASSUME NEW i \in 1 .. Len(d) PROVE n[d[i]] = mem[d[i]]
    <3>1. d[i] = c[k + i] /\ k + i \in 1 .. Len(c) /\ k \in 1 .. Len(c) /\ k + i # k
      BY <1>2, <2>1, <2>2
    <3>2. d[i] \in Addr /\ d[i] # last
      BY <1>2, <3>1 DEF Live, last
    <3>3. d[i] \notin A
      <4>1. ASSUME NEW j \in 1 .. k - 1, c[j] = c[k + i] PROVE FALSE
        <5>1. j \in 1 .. Len(c) /\ j # k + i
          BY <1>2, <3>1
        <5> QED BY <1>2, <3>1, <4>1, <5>1
      <4> QED BY <3>1, <4>1 DEF A
    <3> QED BY <1>14, <3>2, <3>3
  <2>5. IsChain(n, d)
    <3>1. Len(d) \in Nat /\ Len(d) >= 1
      BY <1>2, <2>1, <2>2
    <3>2. mem[d[Len(d)]].next = NULL /\ \A i \in 1 .. Len(d) - 1 : mem[d[i]].next = d[i + 1]
      BY <2>2 DEF IsChain, IsPath
    <3>3. n[d[Len(d)]].next = NULL /\ \A i \in 1 .. Len(d) - 1 : n[d[i]].next = d[i + 1]
      <4>1. Len(d) \in 1 .. Len(d) /\ \A i \in 1 .. Len(d) - 1 : i \in 1 .. Len(d)
        BY <3>1
      <4>2. n[d[Len(d)]] = mem[d[Len(d)]] /\ \A i \in 1 .. Len(d) - 1 : n[d[i]] = mem[d[i]]
        BY <2>4, <4>1
      <4> QED BY <3>2, <4>2
    <3> QED BY <1>15, <2>2, <3>1, <3>3 DEF IsChain, IsPath
  <2>6. d[1] = mem[c[k]].next
    <3>1. 1 \in 1 .. Len(d)
      BY <1>2, <2>1, <2>2
    <3> QED BY <1>2, <2>1, <2>2, <3>1
  <2>7. Good(PbufFree(n, d), held, ooseq, NULL)
    BY <1>16, <2>5, <2>6, FreeKeeps
  <2> QED BY <2>3, <2>7 DEF IInv, pbuf_realloc
<1> QED
  BY <1>17, <1>18

-----------------------------------------------------------------------------
(***************************************************************************)
(* pbuf_alloc of a chain of pool pbufs.                                    *)
(***************************************************************************)
\* What one pool pbuf holds more than the one before it.
Fills(i, room) == PBUF_POOL_BUFSIZE - (IF i = 1 THEN room ELSE 0)

\* What pool pbuf i adds to what is before it.
LEMMA BeforeNext ==
  ASSUME NEW room \in Nat, room < PBUF_POOL_BUFSIZE, NEW i \in Nat \ {0}
  PROVE  /\ Fills(i, room) \in Nat /\ Fills(i, room) >= 1
         /\ Before(i, room) \in Int
         /\ Before(i + 1, room) = Before(i, room) + Fills(i, room)
<1> DEFINE B == PBUF_POOL_BUFSIZE
<1>1. B \in Nat
  BY PbufAssumption
<1>2. Fills(i, room) \in Nat /\ Fills(i, room) >= 1
  BY <1>1 DEF Fills
<1>3. i * B \in Int /\ (i - 1) * B \in Int /\ i * B = (i - 1) * B + B
  BY <1>1
<1>4. Before(i + 1, room) = i * B - room
  BY DEF Before
<1>5. Before(i, room) = IF i = 1 THEN 0 ELSE (i - 1) * B - room
  BY DEF Before
<1>6. Before(i, room) \in Int
  BY <1>3, <1>5
<1>7. Before(i + 1, room) = Before(i, room) + Fills(i, room)
  <2>1. CASE i = 1
    <3>1. i * B = B
      BY <1>1, <2>1
    <3> QED BY <1>1, <1>4, <1>5, <2>1, <3>1 DEF Fills
  <2>2. CASE i # 1
    <3> DEFINE x == (i - 1) * B
               y == i * B
    <3>1. x \in Int /\ y = x + B /\ y \in Int
      BY <1>3
    <3>2. Before(i + 1, room) = y - room /\ Before(i, room) = x - room /\ Fills(i, room) = B
      BY <1>1, <1>4, <1>5, <2>2 DEF Fills
    <3> HIDE DEF x, y
    <3> QED BY <1>1, <3>1, <3>2
  <2> QED BY <2>1, <2>2
<1> QED
  BY <1>2, <1>6, <1>7

\* Each pool pbuf holds at least one byte, so the bytes before them grow.
LEMMA BeforeGrows ==
  ASSUME NEW room \in Nat, room < PBUF_POOL_BUFSIZE
  PROVE  /\ \A i \in Nat \ {0} : Before(i, room) \in Nat /\ Before(i, room) >= i - 1
         /\ \A i, j \in Nat \ {0} : i <= j => Before(i, room) <= Before(j, room)
<1>1. \A i \in Nat \ {0} : Before(i, room) \in Nat /\ Before(i, room) >= i - 1
  <2> DEFINE S == {k \in Nat : Before(k + 1, room) \in Nat /\ Before(k + 1, room) >= k}
  <2>1. 0 \in S
    BY DEF Before
  <2>2. ASSUME NEW k \in Nat, k \in S PROVE k + 1 \in S
    <3>1. k + 1 \in Nat \ {0}
      OBVIOUS
    <3>2. /\ Fills(k + 1, room) \in Nat /\ Fills(k + 1, room) >= 1
          /\ Before(k + 1 + 1, room) = Before(k + 1, room) + Fills(k + 1, room)
      BY <3>1, BeforeNext
    <3> QED BY <2>2, <3>2
  <2> HIDE DEF S
  <2>3. Nat \subseteq S
    BY <2>1, <2>2, SetInduction
  <2>4. ASSUME NEW i \in Nat \ {0} PROVE Before(i, room) \in Nat /\ Before(i, room) >= i - 1
    <3>1. i - 1 \in S /\ (i - 1) + 1 = i
      BY <2>3
    <3> QED BY <3>1 DEF S
  <2> QED BY <2>4
<1>2. ASSUME NEW i \in Nat \ {0} PROVE \A j \in Nat \ {0} : i <= j => Before(i, room) <= Before(j, room)
  <2> DEFINE S == {k \in Nat : Before(i, room) <= Before(i + k, room)}
  <2>1. 0 \in S
    BY <1>1
  <2>2. ASSUME NEW k \in Nat, k \in S PROVE k + 1 \in S
    <3>1. i + k \in Nat \ {0} /\ (i + k) + 1 = i + (k + 1)
      OBVIOUS
    <3>2. /\ Fills(i + k, room) \in Nat /\ Before(i + k, room) \in Nat /\ Before(i, room) \in Nat
          /\ Before((i + k) + 1, room) = Before(i + k, room) + Fills(i + k, room)
      BY <1>1, <3>1, BeforeNext
    <3> QED BY <2>2, <3>1, <3>2
  <2> HIDE DEF S
  <2>3. Nat \subseteq S
    BY <2>1, <2>2, SetInduction
  <2>4. ASSUME NEW j \in Nat \ {0}, i <= j PROVE Before(i, room) <= Before(j, room)
    <3>1. j - i \in S /\ i + (j - i) = j
      BY <2>3, <2>4
    <3> QED BY <3>1 DEF S
  <2> QED BY <2>4
<1> QED
  BY <1>1, <1>2

\* The number of pool pbufs is the least that holds the packet.
LEMMA PoolNeedsFacts ==
  ASSUME NEW room \in Nat, room < PBUF_POOL_BUFSIZE, NEW length \in Nat
  PROVE  LET n == PoolNeeds(length, room)
         IN  /\ n \in 1 .. length + 1
             /\ length <= Before(n + 1, room)
             /\ n = 1 \/ Before(n, room) < length
<1> DEFINE T == {n \in Nat \ {0} : length <= Before(n + 1, room)}
<1>1. length + 1 \in T
  <2>1. length + 2 \in Nat \ {0} /\ (length + 1) + 1 = length + 2
    OBVIOUS
  <2>2. Before(length + 2, room) \in Nat /\ Before(length + 2, room) >= (length + 2) - 1
    BY <2>1, BeforeGrows
  <2> QED BY <2>1, <2>2
<1>2. PICK n \in T : \A k \in T : n <= k
  <2>1. T \in SUBSET Nat /\ T # {}
    BY <1>1
  <2> HIDE DEF T
  <2> QED BY <2>1, LeastNatural
<1>3. n \in 1 .. length + 1 /\ length <= Before(n + 1, room)
  BY <1>1, <1>2
<1>4. n = 1 \/ Before(n, room) < length
  <2>1. SUFFICES ASSUME n # 1 PROVE Before(n, room) < length
    OBVIOUS
  <2>2. n - 1 \in Nat \ {0} /\ ~(n <= n - 1) /\ (n - 1) + 1 = n /\ n \in Nat \ {0}
    BY <1>3, <2>1
  <2>3. n - 1 \notin T
    BY <1>2, <2>2
  <2>4. Before(n, room) \in Nat
    BY <2>2, BeforeGrows
  <2> QED BY <2>2, <2>3, <2>4
<1> DEFINE P(k) == length <= Before(k + 1, room) /\ (k = 1 \/ Before(k, room) < length)
<1>5. \E k \in 1 .. length + 1 : P(k)
  BY <1>3, <1>4
<1>6. PoolNeeds(length, room) = CHOOSE k \in 1 .. length + 1 : P(k)
  BY DEF PoolNeeds
<1> HIDE DEF P
<1>7. PoolNeeds(length, room) \in 1 .. length + 1 /\ P(PoolNeeds(length, room))
  BY <1>5, <1>6, Zenon
<1> QED
  BY <1>7 DEF P

\* pbuf_alloc of a pool chain preserves the invariant.
LEMMA StepAllocPool ==
  ASSUME IInv, NEW layer, NEW length \in Lengths, AllocPool(layer, length)
  PROVE  IInv'
<1> DEFINE room == HeaderRoom(layer)
           n == PoolNeeds(length, room)
           r(i) == IF i = 1 THEN room ELSE 0
           left(i) == length - Before(i, room)
           next(f, i) == IF i < n THEN f[i + 1] ELSE NULL
           new(f, i) == Alloc("POOL", next(f, i),
                              LWIP_MIN(left(i), PBUF_POOL_BUFSIZE - r(i)), left(i), r(i))
<1>1. PICK f \in [1 .. n -> POOL \ Used] :
        /\ \A i, j \in 1 .. n : f[i] = f[j] => i = j
        /\ mem' = [q \in Addr |-> IF \E i \in 1 .. n : f[i] = q
                                    THEN new(f, CHOOSE j \in 1 .. n : f[j] = q) ELSE mem[q]]
        /\ held' = [held EXCEPT ![f[1]] = 1]
        /\ UNCHANGED <<ooseq, pending>>
  BY DEF AllocPool, Hold
<1>2. /\ Shape(mem) /\ Totals(mem) /\ Holders(held, ooseq) /\ Counts(mem, held, ooseq, NULL)
      /\ mem \in [Addr -> PbufRecord \cup {NULL}] /\ Used = Live(mem)
  BY Views DEF Shape
<1>3. room \in Nat /\ room < PBUF_POOL_BUFSIZE /\ PBUF_POOL_BUFSIZE \in Nat
  BY RoomType, PbufAssumption
<1>4. length \in 0 .. U16 - 1 /\ length \in Nat /\ U16 \in Nat
  BY PbufAssumption
<1>5. n \in Nat \ {0} /\ length <= Before(n + 1, room) /\ (n = 1 \/ Before(n, room) < length)
  <2> HIDE DEF room
  <2>1. /\ n \in 1 .. length + 1 /\ length <= Before(n + 1, room)
        /\ n = 1 \/ Before(n, room) < length
    BY <1>3, <1>4, PoolNeedsFacts
  <2> HIDE DEF n
  <2> QED BY <1>4, <2>1
<1> HIDE DEF n, room
\* What each of them holds.
<1>6. ASSUME NEW i \in 1 .. n
      PROVE  /\ left(i) \in 0 .. U16 - 1 /\ r(i) \in Nat
             /\ Fills(i, room) \in Nat /\ Fills(i, room) = PBUF_POOL_BUFSIZE - r(i)
             /\ IF i < n THEN left(i + 1) \in Nat /\ left(i) = Fills(i, room) + left(i + 1)
                ELSE left(i) <= Fills(i, room)
  <2>1. i \in Nat \ {0} /\ i <= n
    BY <1>5
  <2>2. /\ Fills(i, room) \in Nat /\ Before(i, room) \in Nat /\ Before(i + 1, room) \in Nat
        /\ Before(i + 1, room) = Before(i, room) + Fills(i, room)
    BY <1>3, <2>1, BeforeNext, BeforeGrows
  <2>3. Before(i, room) <= length
    <3>1. CASE i = 1
      BY <1>4, <3>1 DEF Before
    <3>2. CASE i # 1
      <4>1. n # 1 /\ Before(i, room) <= Before(n, room) /\ Before(n, room) \in Nat
        BY <1>3, <1>5, <2>1, <3>2, BeforeGrows
      <4> QED BY <1>4, <1>5, <2>2, <4>1
    <3> QED BY <3>1, <3>2
  <2>4. left(i) \in 0 .. U16 - 1
    BY <1>4, <2>2, <2>3
  <2>5. CASE i < n
    <3>1. n # 1 /\ Before(i + 1, room) <= Before(n, room) /\ Before(n, room) \in Nat
      <4>1. i + 1 \in Nat \ {0} /\ i + 1 <= n
        BY <1>5, <2>1, <2>5
      <4> QED BY <1>3, <1>5, <2>1, <2>5, <4>1, BeforeGrows
    <3>2. left(i + 1) \in Nat /\ left(i) = Fills(i, room) + left(i + 1)
      BY <1>4, <1>5, <2>2, <3>1
    <3> QED BY <1>3, <2>2, <2>4, <2>5, <3>2 DEF Fills
  <2>6. CASE ~(i < n)
    <3>1. i = n
      BY <1>5, <2>1, <2>6
    <3>2. left(i) <= Fills(i, room)
      BY <1>4, <1>5, <2>2, <3>1
    <3> QED BY <1>3, <2>2, <2>4, <2>6, <3>2 DEF Fills
  <2> QED BY <2>5, <2>6
\* The new pbufs.
<1> DEFINE F == {f[i] : i \in 1 .. n}
<1>7. ASSUME NEW i \in 1 .. n
      PROVE  /\ f[i] \in Addr /\ f[i] \notin Live(mem) /\ f[i] # NULL
             /\ next(f, i) \in Addr \cup {NULL}
             /\ i < n => i + 1 \in 1 .. n /\ f[i + 1] # NULL
  <2>1. \A j \in 1 .. n : f[j] \in Addr /\ f[j] \notin Live(mem) /\ f[j] # NULL
    BY <1>1, <1>2, NullNotAddr DEF Addr
  <2>2. i < n => i + 1 \in 1 .. n
    BY <1>5
  <2> QED BY <2>1, <2>2
<1>8. ASSUME NEW i \in 1 .. n
      PROVE  /\ mem'[f[i]] \in PbufRecord /\ mem'[f[i]].ref = 1
             /\ mem'[f[i]].next = next(f, i) /\ mem'[f[i]].tot_len = left(i)
             /\ mem'[f[i]].len = IF i < n THEN Fills(i, room) ELSE left(i)
  <2>1. (CHOOSE j \in 1 .. n : f[j] = f[i]) = i
    BY <1>1
  <2>2. mem'[f[i]] = new(f, i)
    BY <1>1, <1>7, <2>1
  <2> DEFINE len == LWIP_MIN(left(i), PBUF_POOL_BUFSIZE - r(i))
  <2>3. len = (IF i < n THEN Fills(i, room) ELSE left(i)) /\ len \in 0 .. U16 - 1
    <3>1. CASE i < n
      BY <1>4, <1>6, <3>1 DEF LWIP_MIN
    <3>2. CASE ~(i < n)
      BY <1>4, <1>6, <3>2 DEF LWIP_MIN
    <3> QED BY <3>1, <3>2
  <2> HIDE DEF len
  <2>4. left(i) \in 0 .. U16 - 1 /\ r(i) \in Nat /\ next(f, i) \in Addr \cup {NULL}
    BY <1>6, <1>7
  <2> HIDE DEF left, r, next
  <2>5. mem'[f[i]] = Alloc("POOL", next(f, i), len, left(i), r(i))
    BY <2>2 DEF len
  <2> QED BY <2>3, <2>4, <2>5, AllocType
<1>9. \A s \in Addr \ F : mem'[s] = mem[s]
  BY <1>1
<1>10. /\ mem' \in [Addr -> PbufRecord \cup {NULL}] /\ Live(mem') = Live(mem) \cup F
       /\ F \cap Live(mem) = {} /\ F \subseteq Addr
       /\ \A s \in Live(mem) : mem'[s] = mem[s]
  <2>1. mem' = [s \in Addr |-> mem'[s]]
    BY <1>1
  <2>2. F \cap Live(mem) = {} /\ F \subseteq Addr
    BY <1>7
  <2>3. \A s \in F : mem'[s] \in PbufRecord /\ mem'[s] # NULL
    BY <1>8, NullAssumption
  <2> HIDE DEF F
  <2>4. \A s \in Addr : mem'[s] \in PbufRecord \cup {NULL}
    BY <1>2, <1>9, <2>3
  <2>5. Live(mem') = Live(mem) \cup F
    BY <1>9, <2>2, <2>3 DEF Live
  <2> QED BY <1>9, <2>1, <2>2, <2>4, <2>5 DEF Live
<1>11. ASSUME NEW s \in Live(mem)
       PROVE  s \notin F /\ mem[s].next \in Live(mem) \cup {NULL} /\ mem[s].next \notin F
              /\ mem'[s] = mem[s] /\ mem[s].ref >= 1
  <2>1. mem[s].next \in Live(mem) \cup {NULL} /\ mem[s].ref >= 1
    BY <1>2, LiveRecord
  <2>2. NULL \notin F
    BY <1>10, NullNotAddr
  <2> QED BY <1>10, <2>1, <2>2
<1> HIDE DEF left, r, new
<1>12. Shape(mem')
  <2>1. ASSUME NEW s \in Live(mem')
        PROVE  mem'[s].ref >= 1 /\ mem'[s].next \in Live(mem') \cup {NULL}
    <3>1. CASE s \in Live(mem)
      BY <1>10, <1>11, <3>1
    <3>2. CASE s \in F
      <4>1. PICK i \in 1 .. n : s = f[i]
        BY <3>2
      <4>2. next(f, i) \in F \cup {NULL}
        BY <1>7
      <4> QED BY <1>8, <1>10, <4>1, <4>2
    <3> QED BY <1>10, <3>1, <3>2
  <2>2. ASSUME NEW s \in Live(mem'), NEW t \in Live(mem'),
               mem'[s].next = mem'[t].next, mem'[s].next # NULL
        PROVE  s = t
    <3>1. ASSUME NEW i \in 1 .. n, mem'[f[i]].next # NULL
          PROVE  i < n /\ i + 1 \in 1 .. n /\ mem'[f[i]].next = f[i + 1] /\ f[i + 1] \in F
      BY <1>7, <1>8, <3>1
    <3>2. CASE s \in Live(mem) /\ t \in Live(mem)
      BY <1>2, <1>11, <2>2, <3>2 DEF Shape
    <3>3. CASE s \in F /\ t \in F
      <4>1. PICK i \in 1 .. n : s = f[i]
        BY <3>3
      <4>2. PICK j \in 1 .. n : t = f[j]
        BY <3>3
      <4>3. i + 1 \in 1 .. n /\ j + 1 \in 1 .. n /\ f[i + 1] = f[j + 1]
        BY <2>2, <3>1, <4>1, <4>2
      <4>4. i + 1 = j + 1
        BY <1>1, <4>3
      <4> QED BY <1>5, <4>1, <4>2, <4>4
    <3>4. CASE (s \in Live(mem) /\ t \in F) \/ (s \in F /\ t \in Live(mem))
      BY <1>11, <2>2, <3>1, <3>4
    <3> QED BY <1>10, <3>2, <3>3, <3>4
  <2>3. ASSUME NEW T \in SUBSET Live(mem'), T # {} PROVE \E s \in T : mem'[s].next \notin T
    <3>1. CASE T \cap F = {}
      <4>1. T \in SUBSET Live(mem)
        BY <1>10, <3>1
      <4>2. PICK s \in T : mem[s].next \notin T
        BY <1>2, <2>3, <4>1 DEF Shape
      <4> QED BY <1>11, <4>1, <4>2
    <3>2. CASE T \cap F # {}
      <4> DEFINE D == {k \in Nat : k < n /\ f[n - k] \in T}
      <4>1. D \in SUBSET Nat /\ D # {}
        <5>1. PICK i \in 1 .. n : f[i] \in T
          BY <3>2
        <5>2. n - i \in D
          BY <1>5, <5>1
        <5> QED BY <5>2
      <4>2. PICK k \in D : \A j \in D : k <= j
        <5> HIDE DEF D
        <5> QED BY <4>1, LeastNatural
      <4> DEFINE i == n - k
      <4>3. i \in 1 .. n /\ f[i] \in T
        BY <1>5, <4>2
      <4>4. mem'[f[i]].next \notin T
        <5>1. SUFFICES ASSUME mem'[f[i]].next \in T PROVE FALSE
          OBVIOUS
        <5>2. NULL \notin T
          BY NullNotAddr DEF Live
        <5>3. i < n /\ mem'[f[i]].next = f[i + 1]
          BY <1>8, <4>3, <5>1, <5>2
        <5>4. k - 1 \in Nat /\ k - 1 < n /\ n - (k - 1) = i + 1 /\ ~(k <= k - 1)
          BY <1>5, <4>2, <5>3
        <5>5. k - 1 \in D
          BY <5>1, <5>3, <5>4
        <5> QED BY <4>2, <5>4, <5>5
      <4> QED BY <4>3, <4>4
    <3> QED BY <3>1, <3>2
  <2> QED BY <1>10, <2>1, <2>2, <2>3 DEF Shape
<1>13. Totals(mem')
  <2>1. ASSUME NEW s \in Live(mem')
        PROVE  mem'[s].tot_len = Add16(mem'[s].len, IF mem'[s].next = NULL THEN 0
                                                    ELSE mem'[mem'[s].next].tot_len)
    <3>1. CASE s \in Live(mem)
      <4>1. mem[s].next # NULL => mem'[mem[s].next] = mem[mem[s].next]
        BY <1>11, <3>1
      <4> QED BY <1>2, <1>11, <3>1, <4>1 DEF Totals
    <3>2. CASE s \in F
      <4>1. PICK i \in 1 .. n : s = f[i]
        BY <3>2
      <4>2. left(i) \in 0 .. U16 - 1 /\ left(i) \in Nat
        BY <1>4, <1>6
      <4>3. Add16(Fills(i, room), left(i + 1)) = left(i) \/ ~(i < n)
        BY <1>6, <4>2, ModSmall DEF Add16
      <4>4. Add16(left(i), 0) = left(i)
        BY <4>2, ModSmall DEF Add16
      <4>5. CASE i < n
        <5>1. mem'[s].next = f[i + 1] /\ f[i + 1] # NULL /\ i + 1 \in 1 .. n
          BY <1>7, <1>8, <4>1, <4>5
        <5>2. mem'[f[i + 1]].tot_len = left(i + 1)
          BY <1>8, <5>1
        <5> QED BY <1>8, <4>1, <4>3, <4>5, <5>1, <5>2
      <4>6. CASE ~(i < n)
        BY <1>8, <4>1, <4>4, <4>6
      <4> QED BY <4>5, <4>6
    <3> QED BY <1>10, <3>1, <3>2
  <2> QED BY <2>1 DEF Totals
<1>14. 1 \in 1 .. n /\ f[1] \in F /\ f[1] \in Addr
  BY <1>5, <1>7
<1>15. /\ Holders(held', ooseq)
       /\ \A s \in Addr : held'[s] = IF s = f[1] THEN 1 ELSE held[s]
  BY <1>1, <1>2, <1>14 DEF Holders
<1>16. Counts(mem', held', ooseq, NULL)
  <2>1. ASSUME NEW s \in Live(mem)
        PROVE  mem'[s].ref = held'[s] + Parents(mem', s) + Queued(ooseq, s) + Extra(NULL, s)
    <3>1. ASSUME NEW q \in F PROVE mem'[q].next # s
      <4>1. PICK i \in 1 .. n : q = f[i]
        BY <3>1
      <4>2. next(f, i) \in F \cup {NULL}
        BY <1>7
      <4> QED BY <1>8, <1>10, <1>2, <4>1, <4>2, LiveRecord
    <3>2. Parents(mem', s) = Parents(mem, s)
      BY <1>10, <1>11, <3>1 DEF Parents, HasParent
    <3>3. held'[s] = held[s]
      BY <1>10, <1>14, <1>15 DEF Live
    <3> QED BY <1>2, <1>11, <3>2, <3>3, CountOf
  <2>2. ASSUME NEW i \in 1 .. n
        PROVE  mem'[f[i]].ref = held'[f[i]] + Parents(mem', f[i]) + Queued(ooseq, f[i])
                                  + Extra(NULL, f[i])
    <3>1. held[f[i]] = 0 /\ Queued(ooseq, f[i]) = 0
      BY <1>2, <1>7, CountFree
    <3>2. Extra(NULL, f[i]) = 0
      BY <1>7 DEF Extra
    <3>3. CASE i = 1
      <4>1. ASSUME NEW q \in Live(mem'), mem'[q].next = f[1] PROVE FALSE
        <5>1. CASE q \in Live(mem)
          BY <1>11, <1>14, <4>1, <5>1
        <5>2. CASE q \in F
          <6>1. PICK j \in 1 .. n : q = f[j]
            BY <5>2
          <6>2. j < n /\ j + 1 \in 1 .. n /\ f[j + 1] = f[1]
            BY <1>7, <1>8, <1>14, <4>1, <6>1
          <6>3. j + 1 = 1
            BY <1>1, <1>14, <6>2
          <6> QED BY <1>5, <6>3
        <5> QED BY <1>10, <5>1, <5>2
      <4>2. Parents(mem', f[1]) = 0
        BY <4>1 DEF Parents, HasParent
      <4> QED BY <1>8, <1>14, <1>15, <3>1, <3>2, <3>3, <4>2
    <3>4. CASE i # 1
      <4>1. i - 1 \in 1 .. n /\ i - 1 < n /\ (i - 1) + 1 = i
        BY <1>5, <3>4
      <4>2. mem'[f[i - 1]].next = f[i] /\ f[i - 1] \in Live(mem')
        BY <1>8, <1>10, <4>1
      <4>3. Parents(mem', f[i]) = 1
        BY <4>2 DEF Parents, HasParent
      <4>4. f[i] # f[1]
        BY <1>1, <1>14, <3>4
      <4>5. held'[f[i]] = held[f[i]]
        BY <1>7, <1>15, <4>4
      <4> QED BY <1>8, <3>1, <3>2, <4>3, <4>5
    <3> QED BY <3>3, <3>4
  <2>3. ASSUME NEW s \in Addr \ Live(mem')
        PROVE  held'[s] = 0 /\ Queued(ooseq, s) = 0 /\ s # NULL
    BY <1>2, <1>10, <1>14, <1>15, CountFree
  <2>4. \A s \in F : \E i \in 1 .. n : s = f[i]
    OBVIOUS
  <2> HIDE DEF F
  <2>5. \A s \in Live(mem') :
          mem'[s].ref = held'[s] + Parents(mem', s) + Queued(ooseq, s) + Extra(NULL, s)
    BY <1>10, <2>1, <2>2, <2>4
  <2> QED BY <2>3, <2>5 DEF Counts
<1> QED
  BY <1>1, <1>12, <1>13, <1>15, <1>16 DEF IInv, Good

-----------------------------------------------------------------------------
(***************************************************************************)
(* The invariant and what follows from it.                                 *)
(***************************************************************************)
LEMMA InitIInv == Init => IInv
<1> SUFFICES ASSUME Init PROVE IInv
  OBVIOUS
<1>1. Live(mem) = {}
  BY DEF Init, Live
<1>2. Shape(mem) /\ Totals(mem)
  BY <1>1 DEF Shape, Totals, Init
<1>3. Holders(held, ooseq)
  BY DEF Holders, Init
<1>4. Counts(mem, held, ooseq, NULL)
  <2>1. ASSUME NEW p \in Addr PROVE held[p] = 0 /\ Queued(ooseq, p) = 0 /\ p # NULL
    <3>1. p # NULL /\ held[p] = 0
      BY NullNotAddr DEF Init
    <3>2. \A i \in 1 .. PCBS : ooseq[i] # p
      BY <3>1 DEF Init
    <3> QED BY <3>1, <3>2, QueuedType
  <2> QED BY <1>1, <2>1 DEF Counts
<1> QED
  BY <1>2, <1>3, <1>4 DEF IInv, Good, Init

\* Every step preserves the invariant.
LEMMA NextIInv == IInv /\ [Next]_vars => IInv'
<1> SUFFICES ASSUME IInv, [Next]_vars PROVE IInv'
  OBVIOUS
<1>1. CASE Allocate
  <2>1. ASSUME NEW length \in Lengths, NEW layer \in Layers, NEW type \in {"RAM", "REF"},
               AllocSingle(type, layer, length)
        PROVE  IInv'
    BY <2>1, StepAllocSingle
  <2>2. ASSUME NEW length \in Lengths, NEW layer \in Layers, AllocPool(layer, length)
        PROVE  IInv'
    BY <2>2, StepAllocPool
  <2>3. ASSUME NEW length \in Lengths, NEW layer \in Layers, AllocPoolFails(layer, length)
        PROVE  IInv'
    BY <2>3 DEF AllocPoolFails, IInv
  <2>4. CASE AllocSingleFails
    BY <2>4 DEF AllocSingleFails, vars, IInv
  <2> QED BY <1>1, <2>1, <2>2, <2>3, <2>4 DEF Allocate
<1>2. CASE Change
  <2>1. PICK p \in Used :
          \/ pbuf_free(p)
          \/ pbuf_ref(p)
          \/ pbuf_dechain(p)
          \/ pbuf_split_64k(p)
          \/ \E layer \in Layers : pbuf_coalesce(p, layer)
          \/ \E new_len \in Lengths : pbuf_realloc(p, new_len)
          \/ \E inc \in {-HLEN, HLEN}, force \in BOOLEAN : pbuf_header(p, inc, force)
          \/ \E t \in Used : pbuf_cat(p, t) \/ pbuf_chain(p, t)
    BY <1>2 DEF Change
  <2>2. ASSUME NEW inc \in {-HLEN, HLEN}, NEW force, pbuf_header(p, inc, force) PROVE IInv'
    <3>1. inc \in Int
      BY PbufAssumption
    <3> QED BY <2>2, <3>1, StepHeader
  <2> QED BY <2>1, <2>2, StepFree, StepRef, StepDechain, StepSplit, StepCoalesce, StepRealloc,
             StepCat, StepChain
<1>3. CASE Stack
  BY <1>3, StepQueue, StepFreeOoseq DEF Stack
<1>4. CASE UNCHANGED vars
  BY <1>4 DEF vars, IInv
<1> QED
  BY <1>1, <1>2, <1>3, <1>4 DEF Next

\* The inductive invariant holds of every reachable state.
LEMMA Invariant == Spec => []IInv
BY InitIInv, NextIInv, PTL DEF Spec

\* Every variable has its type.
THEOREM PbufTypeOK == Spec => []TypeOK
<1>1. IInv => TypeOK
  BY DEF IInv, Good, Shape, Holders, TypeOK
<1> QED
  BY <1>1, Invariant, PTL

\* The reference count of every pbuf is the number of its references.
THEOREM PbufRefsExact == Spec => []RefsExact
<1>1. ASSUME IInv PROVE RefsExact
  <2>1. /\ Used = Live(mem) /\ Shape(mem) /\ Holders(held, ooseq)
        /\ Counts(mem, held, ooseq, NULL)
    BY <1>1, Views
  <2>2. ASSUME NEW p \in Addr PROVE Cardinality(Predecessors(p)) = Parents(mem, p)
    <3>1. CASE HasParent(mem, p)
      <4>1. PICK q \in Live(mem) : mem[q].next = p
        BY <3>1 DEF HasParent
      <4>2. p # NULL
        BY NullNotAddr
      <4>3. Predecessors(p) = {q}
        BY <2>1, <4>1, <4>2 DEF Predecessors, Shape
      <4> QED BY <3>1, <4>3, FS_Singleton DEF Parents
    <3>2. CASE ~HasParent(mem, p)
      <4>1. Predecessors(p) = {}
        BY <2>1, <3>2 DEF Predecessors, HasParent
      <4> QED BY <3>2, <4>1, FS_EmptySet DEF Parents
    <3> QED BY <3>1, <3>2
  <2>3. ASSUME NEW p \in Used
        PROVE  mem[p].ref = held[p] + Cardinality(Predecessors(p)) + Queued(ooseq, p)
    <3>1. p \in Addr /\ Extra(NULL, p) = 0
      BY <2>1, LiveRecord DEF Extra
    <3>2. mem[p].ref = held[p] + Parents(mem, p) + Queued(ooseq, p) + Extra(NULL, p)
          /\ held[p] \in Nat /\ Parents(mem, p) \in {0, 1} /\ Queued(ooseq, p) \in Nat
      BY <2>1, CountOf
    <3>3. Cardinality(Predecessors(p)) = Parents(mem, p)
      BY <2>2, <3>1
    <3> QED BY <3>1, <3>2, <3>3
  <2>4. ASSUME NEW p \in Addr \ Used
        PROVE  held[p] + Cardinality(Predecessors(p)) + Queued(ooseq, p) = 0
    <3>1. held[p] = 0 /\ Queued(ooseq, p) = 0
      BY <2>1, CountFree
    <3>2. Parents(mem, p) = 0
      BY <2>1, LiveRecord, NullNotAddr DEF Parents, HasParent
    <3> QED BY <2>2, <3>1, <3>2
  <2> QED BY <2>3, <2>4 DEF RefsExact, Queued
<1> QED
  BY <1>1, Invariant, PTL

\* tot_len is right in every pbuf of every chain.
THEOREM PbufTotLenExact == Spec => []TotLenExact
<1>1. IInv => TotLenExact
  BY Views DEF Totals, TotLenExact
<1> QED
  BY <1>1, Invariant, PTL

\* There is one chain from each pbuf.
LEMMA ChainUnique ==
  ASSUME NEW m, Shape(m), NEW c, NEW d, IsChain(m, c), IsChain(m, d), c[1] = d[1]
  PROVE  Len(c) = Len(d) /\ \A i \in 1 .. Len(c) : c[i] = d[i]
<1>0. /\ Len(c) \in Nat /\ Len(c) >= 1 /\ m[c[Len(c)]].next = NULL
      /\ Len(d) \in Nat /\ Len(d) >= 1 /\ m[d[Len(d)]].next = NULL
      /\ (\A i \in 1 .. Len(c) : c[i] # NULL) /\ (\A i \in 1 .. Len(d) : d[i] # NULL)
      /\ (\A i \in 1 .. Len(c) - 1 : m[c[i]].next = c[i + 1])
      /\ (\A i \in 1 .. Len(d) - 1 : m[d[i]].next = d[i + 1])
  <2>1. \A p \in Live(m) : p # NULL
    BY NullNotAddr DEF Live
  <2>2. (\A i \in 1 .. Len(c) : c[i] \in Live(m)) /\ (\A i \in 1 .. Len(d) : d[i] \in Live(m))
    BY ChainParts
  <2> QED BY <2>1, <2>2, ChainParts
<1> DEFINE S == {i \in Nat : i < Len(c) /\ i < Len(d) => c[i + 1] = d[i + 1]}
<1>1. 0 \in S
  OBVIOUS
<1>2. ASSUME NEW i \in Nat, i \in S PROVE i + 1 \in S
  <2> SUFFICES ASSUME i + 1 < Len(c), i + 1 < Len(d) PROVE c[i + 1 + 1] = d[i + 1 + 1]
    OBVIOUS
  <2>1. c[i + 1] = d[i + 1]
    BY <1>0, <1>2
  <2>2. i + 1 \in 1 .. Len(c) - 1 /\ i + 1 \in 1 .. Len(d) - 1
    BY <1>0
  <2> QED BY <1>0, <2>1, <2>2
<1> HIDE DEF S
<1>3. Nat \subseteq S
  BY <1>1, <1>2, SetInduction
<1>4. ASSUME NEW i \in 1 .. Len(c), i <= Len(d) PROVE c[i] = d[i]
  <2>1. i - 1 \in S /\ (i - 1) + 1 = i /\ i - 1 < Len(c) /\ i - 1 < Len(d)
    BY <1>0, <1>3, <1>4
  <2> QED BY <2>1 DEF S
<1>5. Len(c) = Len(d)
  <2>1. CASE Len(c) < Len(d)
    <3>1. Len(c) \in 1 .. Len(c) /\ Len(c) \in 1 .. Len(d) - 1 /\ Len(c) + 1 \in 1 .. Len(d)
      BY <1>0, <2>1
    <3>2. c[Len(c)] = d[Len(c)]
      BY <1>4, <2>1, <3>1
    <3> QED BY <1>0, <3>1, <3>2
  <2>2. CASE Len(d) < Len(c)
    <3>1. Len(d) \in 1 .. Len(c) /\ Len(d) <= Len(d) /\ Len(d) \in 1 .. Len(c) - 1
          /\ Len(d) + 1 \in 1 .. Len(c)
      BY <1>0, <2>2
    <3>2. c[Len(d)] = d[Len(d)]
      BY <1>4, <3>1
    <3> QED BY <1>0, <3>1, <3>2
  <2> QED BY <1>0, <2>1, <2>2
<1> QED
  BY <1>0, <1>4, <1>5

\* The chain from the pbuf in front of q is one longer than that from q.
LEMMA ChainLonger ==
  ASSUME Shape(mem), NEW q \in Live(mem), NEW s \in Live(mem), mem[s].next = q
  PROVE  /\ Len(Chain(s)) = Len(Chain(q)) + 1
         /\ \A i \in 1 .. Len(Chain(q)) : Chain(s)[i + 1] = Chain(q)[i]
<1> DEFINE c == Chain(s)
           e == Chain(q)
           d == SubSeq(c, 2, Len(c))
<1>1. IsChain(mem, c) /\ c[1] = s /\ IsChain(mem, e) /\ e[1] = q
  BY ChainFacts
<1> HIDE DEF c, e
<1>2. /\ Len(c) \in Nat /\ Len(c) >= 1 /\ mem[c[Len(c)]].next = NULL
      /\ (\A i \in 1 .. Len(c) - 1 : mem[c[i]].next = c[i + 1])
  BY <1>1, ChainParts
<1>3. q # NULL
  BY NullNotAddr DEF Live
<1>4. Len(c) # 1
  <2>1. SUFFICES ASSUME Len(c) = 1 PROVE FALSE
    OBVIOUS
  <2>2. mem[c[1]].next = NULL
    BY <1>2, <2>1
  <2>3. mem[c[1]].next = q
    BY <1>1
  <2> QED BY <1>3, <2>2, <2>3
<1>5. 1 \in 0 .. Len(c) - 1 /\ 1 \in 1 .. Len(c) - 1
  <2> DEFINE n == Len(c)
  <2>1. n \in Nat /\ n >= 1 /\ n # 1
    BY <1>2, <1>4
  <2> HIDE DEF n
  <2>2. 1 \in 0 .. n - 1 /\ 1 \in 1 .. n - 1
    BY <2>1
  <2> QED BY <2>2 DEF n
<1>6. /\ Len(d) = Len(c) - 1 /\ (\A i \in 1 .. Len(d) : d[i] = c[1 + i])
      /\ IsChain(mem, d)
  <2>1. LET z == SubSeq(c, 1 + 1, Len(c))
        IN  /\ Len(z) = Len(c) - 1 /\ (\A i \in 1 .. Len(z) : z[i] = c[1 + i])
            /\ IsChain(mem, z)
    BY <1>1, <1>5, ChainTail
  <2>2. 1 + 1 = 2
    OBVIOUS
  <2> QED BY <2>1, <2>2
<1> HIDE DEF d
<1>7. d[1] = q
  <2>1. 1 \in 1 .. Len(d) /\ 1 + 1 = 2
    BY <1>2, <1>4, <1>6
  <2> QED BY <1>1, <1>2, <1>5, <1>6, <2>1
<1>8. Len(d) = Len(e) /\ \A i \in 1 .. Len(d) : d[i] = e[i]
  BY <1>1, <1>6, <1>7, ChainUnique
<1>9. Len(c) = Len(e) + 1 /\ \A i \in 1 .. Len(e) : c[i + 1] = e[i]
  <2>1. \A i \in 1 .. Len(e) : 1 + i = i + 1
    OBVIOUS
  <2> QED BY <1>2, <1>6, <1>8, <2>1
<1> QED
  BY <1>9 DEF c, e

\* Nothing leaks: the longest chain that a pbuf is in starts at a pbuf without
\* one in front of it, whose count is then that of its holders.
THEOREM PbufNothingLeaks == Spec => []NothingLeaks
<1>1. ASSUME IInv, NEW p \in Used
      PROVE  \E q \in Used :
               /\ held[q] > 0 \/ \E i \in 1 .. PCBS : ooseq[i] = q
               /\ p \in Range(Chain(q))
  <2>1. /\ Used = Live(mem) /\ Shape(mem) /\ Holders(held, ooseq)
        /\ Counts(mem, held, ooseq, NULL)
    BY <1>1, Views
  <2> DEFINE N == Cardinality(Addr)
             A == {q \in Used : p \in Range(Chain(q))}
             D == {N - Len(Chain(q)) : q \in A}
  <2>2. ASSUME NEW q \in Used
        PROVE  /\ IsChain(mem, Chain(q)) /\ Chain(q)[1] = q
               /\ Len(Chain(q)) \in Nat /\ Len(Chain(q)) >= 1 /\ Len(Chain(q)) <= N
               /\ Range(Chain(q)) = {Chain(q)[i] : i \in 1 .. Len(Chain(q))}
    <3>1. IsChain(mem, Chain(q)) /\ Chain(q)[1] = q
      BY <2>1, ChainFacts
    <3> QED BY <2>1, <3>1, ChainParts, PathLength DEF IsChain
  <2>3. N \in Nat
    BY NullNotAddr, FS_CardinalityType
  <2>4. p \in A
    <3>1. 1 \in 1 .. Len(Chain(p))
      BY <2>2
    <3> QED BY <2>2, <3>1
  <2>5. D \in SUBSET Nat /\ D # {}
    <3>1. \A q \in A : N - Len(Chain(q)) \in Nat
      BY <2>2, <2>3
    <3> QED BY <2>4, <3>1
  <2>6. PICK q \in A : \A s \in A : N - Len(Chain(q)) <= N - Len(Chain(s))
    <3>1. PICK x \in D : \A y \in D : x <= y
      <4> HIDE DEF D
      <4> QED BY <2>5, LeastNatural
    <3>2. PICK q \in A : x = N - Len(Chain(q))
      BY <3>1
    <3> QED BY <3>1, <3>2
  <2>7. ~HasParent(mem, q)
    <3>1. SUFFICES ASSUME NEW s \in Live(mem), mem[s].next = q PROVE FALSE
      BY DEF HasParent
    <3>2. /\ Len(Chain(s)) = Len(Chain(q)) + 1
          /\ \A i \in 1 .. Len(Chain(q)) : Chain(s)[i + 1] = Chain(q)[i]
      BY <2>1, <3>1, ChainLonger
    <3>3. s \in A
      <4>1. PICK i \in 1 .. Len(Chain(q)) : p = Chain(q)[i]
        BY <2>2
      <4>2. i + 1 \in 1 .. Len(Chain(s)) /\ p = Chain(s)[i + 1]
        BY <2>2, <3>2, <4>1
      <4> QED BY <2>1, <2>2, <4>2
    <3>4. Len(Chain(q)) \in Nat /\ Len(Chain(s)) \in Nat
      BY <2>1, <2>2, <3>1
    <3>5. N - Len(Chain(q)) <= N - Len(Chain(s))
      BY <2>6, <3>3
    <3> QED BY <2>3, <3>2, <3>4, <3>5
  <2>8. held[q] > 0 \/ \E i \in 1 .. PCBS : ooseq[i] = q
    <3>1. /\ mem[q].ref = held[q] + Parents(mem, q) + Queued(ooseq, q) + Extra(NULL, q)
          /\ held[q] \in Nat /\ Queued(ooseq, q) \in Nat
      BY <2>1, CountOf
    <3>2. Parents(mem, q) = 0 /\ Extra(NULL, q) = 0 /\ mem[q].ref >= 1
      BY <2>1, <2>7, LiveRecord DEF Parents, Extra
    <3>3. held[q] > 0 \/ Queued(ooseq, q) # 0
      BY <3>1, <3>2
    <3> QED BY <3>3, QueuedType
  <2> QED BY <2>8
<1>2. IInv => NothingLeaks
  BY <1>1 DEF NothingLeaks
<1> QED
  BY <1>2, Invariant, PTL

-----------------------------------------------------------------------------
(***************************************************************************)
(* The bytes of a packet, of a memory m.                                   *)
(***************************************************************************)
Row(m, q) == [j \in 1 .. m[q].len |-> <<q, m[q].room + j>>]

Grown(x, m, q) == x \o Row(m, q)

Rows(f, m, c, k) == f = [i \in 0 .. k |-> IF i = 0 THEN <<>> ELSE Grown(f[i - 1], m, c[i])]

\* The bytes of the first k pbufs of chain c.
BytesIn(m, c, k) ==
  LET bytes[i \in 0 .. k] ==
        IF i = 0 THEN <<>>
        ELSE bytes[i - 1] \o [j \in 1 .. m[c[i]].len |-> <<c[i], m[c[i]].room + j>>]
  IN  bytes[k]

\* f collects the rows of the first k pbufs of chain c.
Collects(f, m, c, k) ==
  f[0] = <<>> /\ \A i \in 1 .. k : f[i] = Grown(f[i - 1], m, c[i])

SameRows(m, w, c, d, k) == \A i \in 1 .. k : Row(m, c[i]) = Row(w, d[i])

\* There are rows of every number of pbufs.
LEMMA RowsExist ==
  ASSUME NEW m, NEW c
  PROVE  \A k \in Nat : \E f : Rows(f, m, c, k)
<1> DEFINE S == {k \in Nat : \E f : Rows(f, m, c, k)}
           Step(x, i) == IF i = 0 THEN <<>> ELSE Grown(x, m, c[i])
<1>0. \A f, k : Rows(f, m, c, k) <=> f = [i \in 0 .. k |-> Step(f[i - 1], i)]
  BY Zenon DEF Rows
<1> HIDE DEF Step
<1>1. 0 \in S
  <2> DEFINE f == [i \in 0 .. 0 |-> Step(0, 0)]
  <2>1. f = [i \in 0 .. 0 |-> Step(f[i - 1], i)]
    <3>1. Step(f[0 - 1], 0) = Step(0, 0)
      BY DEF Step
    <3> QED BY <3>1
  <2> HIDE DEF f
  <2>2. Rows(f, m, c, 0)
    BY <1>0, <2>1
  <2> QED BY <2>2
<1>2. ASSUME NEW n \in Nat, n \in S PROVE n + 1 \in S
  <2>1. PICK f : Rows(f, m, c, n)
    BY <1>2
  <2> DEFINE g == [i \in 0 .. n + 1 |-> IF i = n + 1 THEN Step(f[n], n + 1) ELSE f[i]]
  <2>2. f = [i \in 0 .. n |-> Step(f[i - 1], i)]
    BY <1>0, <2>1
  <2>3. ASSUME NEW i \in 0 .. n + 1 PROVE g[i] = Step(g[i - 1], i)
    <3>1. CASE i = 0
      <4>1. g[0] = f[0] /\ f[0] = Step(f[0 - 1], 0)
        BY <2>2
      <4>2. Step(f[0 - 1], 0) = Step(g[0 - 1], 0)
        BY DEF Step
      <4> QED BY <3>1, <4>1, <4>2
    <3>2. CASE i # 0
      BY <2>2, <3>2
    <3> QED BY <3>1, <3>2
  <2>4. g = [i \in 0 .. n + 1 |-> Step(g[i - 1], i)]
    BY <2>3
  <2> HIDE DEF g
  <2>5. Rows(g, m, c, n + 1)
    BY <1>0, <2>4
  <2> QED BY <2>5
<1> HIDE DEF S
<1>3. Nat \subseteq S
  BY <1>1, <1>2, SetInduction
<1> QED
  BY <1>3 DEF S

\* They collect one pbuf after the other.
LEMMA RowsNext ==
  ASSUME NEW m, NEW c, NEW f, NEW k \in Nat, Rows(f, m, c, k)
  PROVE  Collects(f, m, c, k)
<1>1. f[0] = <<>>
  <2>1. 0 \in 0 .. k
    OBVIOUS
  <2> QED BY <2>1, Zenon DEF Rows
<1>2. ASSUME NEW i \in 1 .. k PROVE f[i] = Grown(f[i - 1], m, c[i])
  <2>1. i \in 0 .. k /\ i # 0
    OBVIOUS
  <2> QED BY <2>1, Zenon DEF Rows
<1> QED
  BY <1>1, <1>2 DEF Collects

\* Rows of pbufs that hold the same agree.
LEMMA RowsAgree ==
  ASSUME NEW m, NEW w, NEW c, NEW d, NEW f, NEW g, NEW n \in Nat,
         Collects(f, m, c, n), Collects(g, w, d, n), SameRows(m, w, c, d, n)
  PROVE  f[n] = g[n]
<1> DEFINE S == {i \in Nat : i <= n => f[i] = g[i]}
<1>1. 0 \in S
  BY DEF Collects
<1>2. ASSUME NEW i \in Nat, i \in S PROVE i + 1 \in S
  <2> SUFFICES ASSUME i + 1 <= n PROVE f[i + 1] = g[i + 1]
    OBVIOUS
  <2>1. f[i] = g[i] /\ Row(m, c[i + 1]) = Row(w, d[i + 1])
    BY <1>2 DEF SameRows
  <2>2. i + 1 \in 1 .. n /\ (i + 1) - 1 = i
    OBVIOUS
  <2>3. f[i + 1] = Grown(f[i], m, c[i + 1])
    BY <2>2 DEF Collects
  <2>4. g[i + 1] = Grown(g[i], w, d[i + 1])
    BY <2>2 DEF Collects
  <2> QED BY <2>1, <2>3, <2>4, Zenon DEF Grown
<1> HIDE DEF S
<1>3. Nat \subseteq S
  BY <1>1, <1>2, SetInduction
<1> QED
  BY <1>3 DEF S

\* BytesIn is the last of them.
LEMMA BytesInRows ==
  ASSUME NEW m, NEW c, NEW k \in Nat
  PROVE  \E f : Rows(f, m, c, k) /\ BytesIn(m, c, k) = f[k]
<1> DEFINE f == CHOOSE g : g = [i \in 0 .. k |-> IF i = 0 THEN <<>> ELSE g[i - 1] \o
                                    [j \in 1 .. m[c[i]].len |-> <<c[i], m[c[i]].room + j>>]]
<1>1. \E g : g = [i \in 0 .. k |-> IF i = 0 THEN <<>> ELSE g[i - 1] \o
                                    [j \in 1 .. m[c[i]].len |-> <<c[i], m[c[i]].room + j>>]]
  <2>1. \E g : Rows(g, m, c, k)
    BY RowsExist
  <2> QED BY <2>1, Zenon DEF Rows, Row, Grown
<1>2. Rows(f, m, c, k)
  BY <1>1, Zenon DEF Rows, Row, Grown
<1>3. BytesIn(m, c, k) = f[k]
  BY DEF BytesIn
<1> QED
  BY <1>2, <1>3

\* Each pbuf adds its row.
LEMMA BytesInNext ==
  ASSUME NEW m, NEW c
  PROVE  /\ BytesIn(m, c, 0) = <<>>
         /\ \A k \in Nat \ {0} : BytesIn(m, c, k) = Grown(BytesIn(m, c, k - 1), m, c[k])
<1>1. BytesIn(m, c, 0) = <<>>
  <2>1. PICK f : Rows(f, m, c, 0) /\ BytesIn(m, c, 0) = f[0]
    BY BytesInRows
  <2> QED BY <2>1, RowsNext DEF Collects
<1>2. ASSUME NEW k \in Nat \ {0}
      PROVE  BytesIn(m, c, k) = Grown(BytesIn(m, c, k - 1), m, c[k])
  <2>1. PICK f : Rows(f, m, c, k) /\ BytesIn(m, c, k) = f[k]
    BY BytesInRows
  <2>2. PICK g : Rows(g, m, c, k - 1) /\ BytesIn(m, c, k - 1) = g[k - 1]
    BY BytesInRows
  <2>3. f[k] = Grown(f[k - 1], m, c[k])
    BY <2>1, RowsNext DEF Collects
  <2>4. k - 1 \in Nat /\ k \in Nat /\ k - 1 <= k /\ k - 1 <= k - 1
    OBVIOUS
  <2>5. Collects(f, m, c, k - 1) /\ Collects(g, m, c, k - 1)
    <3>1. Collects(f, m, c, k)
      BY <2>1, <2>4, RowsNext
    <3>2. \A i \in 1 .. k - 1 : i \in 1 .. k
      BY <2>4
    <3>3. Collects(g, m, c, k - 1)
      BY <2>2, <2>4, RowsNext
    <3> QED BY <3>1, <3>2, <3>3 DEF Collects
  <2>6. SameRows(m, m, c, c, k - 1)
    BY DEF SameRows
  <2>7. f[k - 1] = g[k - 1]
    BY <2>4, <2>5, <2>6, RowsAgree
  <2> QED BY <2>1, <2>2, <2>3, <2>7, Zenon
<1> QED
  BY <1>1, <1>2

\* Chains whose pbufs hold the same hold the same bytes.
LEMMA BytesInSame ==
  ASSUME NEW m, NEW w, NEW c, NEW d, NEW k \in Nat, SameRows(m, w, c, d, k)
  PROVE  BytesIn(m, c, k) = BytesIn(w, d, k)
<1>1. PICK f : Rows(f, m, c, k) /\ BytesIn(m, c, k) = f[k]
  BY BytesInRows
<1>2. PICK g : Rows(g, w, d, k) /\ BytesIn(w, d, k) = g[k]
  BY BytesInRows
<1>3. Collects(f, m, c, k) /\ Collects(g, w, d, k)
  BY <1>1, <1>2, RowsNext
<1>4. f[k] = g[k]
  BY <1>3, RowsAgree
<1> QED
  BY <1>1, <1>2, <1>4

Places == Addr \X Nat

\* The bytes of one pbuf.
LEMMA RowType ==
  ASSUME NEW m, NEW q \in Addr, m[q].len \in Nat, m[q].room \in Nat
  PROVE  /\ Row(m, q) \in Seq(Places) /\ Len(Row(m, q)) = m[q].len
         /\ \A j \in 1 .. m[q].len : Row(m, q)[j] = <<q, m[q].room + j>>
<1>1. \A j \in 1 .. m[q].len : <<q, m[q].room + j>> \in Places
  BY DEF Places
<1>2. Row(m, q) \in [1 .. m[q].len -> Places]
  BY <1>1 DEF Row
<1>3. Row(m, q) \in Seq(Places) /\ Len(Row(m, q)) = m[q].len
  BY <1>2
<1> QED
  BY <1>3 DEF Row

\* What the first k pbufs of a chain hold is as long as LenUpTo says.
LEMMA BytesInType ==
  ASSUME Shape(mem), NEW c, NEW n \in Nat, \A i \in 1 .. n : c[i] \in Live(mem)
  PROVE  \A k \in 0 .. n : /\ BytesIn(mem, c, k) \in Seq(Places)
                           /\ Len(BytesIn(mem, c, k)) = LenUpTo(c, k)
<1> DEFINE S == {k \in Nat : k <= n => /\ BytesIn(mem, c, k) \in Seq(Places)
                                       /\ Len(BytesIn(mem, c, k)) = LenUpTo(c, k)}
<1>1. 0 \in S
  <2>1. BytesIn(mem, c, 0) = <<>> /\ LenUpTo(c, 0) = 0
    BY BytesInNext, LenUpToNext
  <2>2. <<>> \in Seq(Places) /\ Len(<<>>) = 0
    OBVIOUS
  <2>3. BytesIn(mem, c, 0) \in Seq(Places) /\ Len(BytesIn(mem, c, 0)) = LenUpTo(c, 0)
    BY <2>1, <2>2, Zenon
  <2> QED BY <2>3
<1>2. ASSUME NEW k \in Nat, k \in S PROVE k + 1 \in S
  <2> SUFFICES ASSUME k + 1 <= n
               PROVE  /\ BytesIn(mem, c, k + 1) \in Seq(Places)
                      /\ Len(BytesIn(mem, c, k + 1)) = LenUpTo(c, k + 1)
    OBVIOUS
  <2>1. k + 1 \in Nat \ {0} /\ (k + 1) - 1 = k /\ k + 1 \in 1 .. n /\ k <= n
    OBVIOUS
  <2>2. BytesIn(mem, c, k) \in Seq(Places) /\ Len(BytesIn(mem, c, k)) = LenUpTo(c, k)
    BY <1>2, <2>1
  <2>3. /\ BytesIn(mem, c, k + 1) = Grown(BytesIn(mem, c, k), mem, c[k + 1])
        /\ LenUpTo(c, k + 1) = LenUpTo(c, k) + mem[c[k + 1]].len
    BY <2>1, BytesInNext, LenUpToNext
  <2>4. /\ c[k + 1] \in Addr /\ mem[c[k + 1]].len \in Nat /\ mem[c[k + 1]].room \in Nat
    <3>1. c[k + 1] \in Live(mem)
      BY <2>1
    <3> QED BY <3>1, LiveRecord, PbufAssumption
  <2>5. Row(mem, c[k + 1]) \in Seq(Places) /\ Len(Row(mem, c[k + 1])) = mem[c[k + 1]].len
    BY <2>4, RowType
  <2> DEFINE x == BytesIn(mem, c, k)
             y == Row(mem, c[k + 1])
  <2>6. BytesIn(mem, c, k + 1) = x \o y
    BY <2>3, Zenon DEF Grown
  <2> HIDE DEF x, y
  <2>7. x \in Seq(Places) /\ y \in Seq(Places)
    BY <2>2, <2>5 DEF x, y
  <2>8. x \o y \in Seq(Places) /\ Len(x \o y) = Len(x) + Len(y)
    BY <2>7, ConcatProperties
  <2>9. Len(x) = LenUpTo(c, k) /\ Len(y) = mem[c[k + 1]].len
    BY <2>2, <2>5 DEF x, y
  <2> QED BY <2>3, <2>6, <2>8, <2>9
<1> HIDE DEF S
<1>3. Nat \subseteq S
  BY <1>1, <1>2, SetInduction
<1> QED
  BY <1>3 DEF S

\* The bytes of two parts of a chain, one after the other.
LEMMA BytesInJoin ==
  ASSUME Shape(mem), NEW c, NEW d, NEW k \in Nat, NEW n \in Nat,
         \A i \in 1 .. k + n : c[i] \in Live(mem), \A i \in 1 .. n : d[i] = c[k + i]
  PROVE  BytesIn(mem, c, k + n) = BytesIn(mem, c, k) \o BytesIn(mem, d, n)
<1> DEFINE S == {j \in Nat : j <= n => BytesIn(mem, c, k + j) = BytesIn(mem, c, k) \o BytesIn(mem, d, j)}
<1>0. /\ \A j \in 0 .. k + n : BytesIn(mem, c, j) \in Seq(Places)
      /\ \A j \in 0 .. n : BytesIn(mem, d, j) \in Seq(Places)
  <2>1. \A j \in 0 .. k + n : BytesIn(mem, c, j) \in Seq(Places)
    <3>1. k + n \in Nat
      OBVIOUS
    <3> QED BY <3>1, BytesInType
  <2>2. \A i \in 1 .. n : k + i \in 1 .. k + n
    OBVIOUS
  <2>3. \A i \in 1 .. n : d[i] \in Live(mem)
    BY <2>2
  <2> QED BY <2>1, <2>3, BytesInType
<1>1. 0 \in S
  <2>1. BytesIn(mem, d, 0) = <<>> /\ k + 0 = k /\ k \in 0 .. k + n
    BY BytesInNext
  <2>2. BytesIn(mem, c, k) \o <<>> = BytesIn(mem, c, k)
    BY <1>0, <2>1, ConcatEmptySeq
  <2> QED BY <2>1, <2>2
<1>2. ASSUME NEW j \in Nat, j \in S PROVE j + 1 \in S
  <2> SUFFICES ASSUME j + 1 <= n
               PROVE  BytesIn(mem, c, k + (j + 1)) = BytesIn(mem, c, k) \o BytesIn(mem, d, j + 1)
    OBVIOUS
  <2>1. /\ k + (j + 1) \in Nat \ {0} /\ (k + (j + 1)) - 1 = k + j /\ j + 1 \in Nat \ {0}
        /\ (j + 1) - 1 = j /\ j + 1 \in 1 .. n /\ k + (j + 1) \in 1 .. k + n
        /\ k \in 0 .. k + n /\ j \in 0 .. n /\ j <= n
    OBVIOUS
  <2> DEFINE a == BytesIn(mem, c, k)
             b == BytesIn(mem, d, j)
             r == Row(mem, c[k + (j + 1)])
  <2>2. BytesIn(mem, c, k + (j + 1)) = BytesIn(mem, c, k + j) \o r
    <3>1. BytesIn(mem, c, k + (j + 1)) = Grown(BytesIn(mem, c, k + j), mem, c[k + (j + 1)])
      BY <2>1, BytesInNext
    <3> QED BY <3>1, Zenon DEF Grown
  <2>3. BytesIn(mem, d, j + 1) = b \o r
    <3>1. BytesIn(mem, d, j + 1) = Grown(BytesIn(mem, d, (j + 1) - 1), mem, d[j + 1])
      BY <2>1, BytesInNext, Zenon
    <3>2. d[j + 1] = c[k + (j + 1)]
      BY <2>1
    <3> QED BY <2>1, <3>1, <3>2, Zenon DEF Grown
  <2>4. BytesIn(mem, c, k + j) = a \o b
    BY <1>2, <2>1
  <2>5. a \in Seq(Places) /\ b \in Seq(Places) /\ r \in Seq(Places)
    <3>1. c[k + (j + 1)] \in Live(mem)
      BY <2>1
    <3>2. c[k + (j + 1)] \in Addr /\ mem[c[k + (j + 1)]].len \in Nat
          /\ mem[c[k + (j + 1)]].room \in Nat
      BY <3>1, LiveRecord, PbufAssumption
    <3> QED BY <1>0, <2>1, <3>2, RowType
  <2> HIDE DEF a, b, r
  <2>6. (a \o b) \o r = a \o (b \o r)
    BY <2>5, ConcatAssociative
  <2> QED BY <2>2, <2>3, <2>4, <2>6 DEF a
<1> HIDE DEF S
<1>3. Nat \subseteq S
  BY <1>1, <1>2, SetInduction
<1>4. n \in S /\ n <= n
  BY <1>3
<1> QED
  BY <1>4 DEF S

-----------------------------------------------------------------------------
(***************************************************************************)
(* Bytes behind pbufs an operation does not touch.                         *)
(***************************************************************************)
\* From memory m to w nothing outside X changes that a chain shows, and no pbuf
\* outside X is in front of one in X.
Apart(m, w, X) ==
  \A r \in (Live(m) \cap Live(w)) \ X :
    /\ w[r].next = m[r].next /\ w[r].len = m[r].len /\ w[r].room = m[r].room
    /\ m[r].next \notin X

\* The chain of a pbuf outside X, and its bytes, are the same before and after.
LEMMA ApartBytes ==
  ASSUME NEW m, NEW w, NEW X, NEW c, NEW d, NEW q,
         Shape(m), Shape(w), Apart(m, w, X), q \in (Live(m) \cap Live(w)) \ X,
         IsChain(m, c), c[1] = q, IsChain(w, d), d[1] = q
  PROVE  BytesIn(w, d, Len(d)) = BytesIn(m, c, Len(c))
<1> DEFINE W == (Live(m) \cap Live(w)) \ X
<1>1. /\ Len(c) \in Nat /\ Len(c) >= 1 /\ c \in Seq(Live(m))
      /\ (\A i \in 1 .. Len(c) : c[i] \in Live(m))
      /\ (\A i \in 1 .. Len(c) - 1 : m[c[i]].next = c[i + 1])
      /\ m[c[Len(c)]].next = NULL
  BY ChainParts
<1>2. NULL \notin Live(m) /\ \A r \in Live(w) : w[r].next \in Live(w) \cup {NULL}
  BY NullNotAddr DEF Live, Shape
<1>3. \A i \in 1 .. Len(c) : c[i] \in W
  <2> DEFINE S == {i \in Nat : i < Len(c) => c[i + 1] \in W}
  <2>1. 0 \in S
    OBVIOUS
  <2>2. ASSUME NEW i \in Nat, i \in S PROVE i + 1 \in S
    <3> SUFFICES ASSUME i + 1 < Len(c) PROVE c[(i + 1) + 1] \in W
      OBVIOUS
    <3>1. /\ i + 1 \in 1 .. Len(c) - 1 /\ (i + 1) + 1 \in 1 .. Len(c) /\ i < Len(c)
      BY <1>1
    <3>2. c[i + 1] \in W
      BY <2>2, <3>1
    <3> DEFINE r == c[i + 1]
               s == c[(i + 1) + 1]
    <3>3. m[r].next = s /\ s \in Live(m)
      BY <1>1, <3>1
    <3> HIDE DEF r, s
    <3>4. w[r].next = m[r].next /\ m[r].next \notin X /\ r \in Live(w)
      BY <3>2 DEF Apart, r
    <3>5. s \in W
      BY <1>2, <3>3, <3>4
    <3> QED BY <3>5 DEF s
  <2> HIDE DEF S
  <2>3. Nat \subseteq S
    BY <2>1, <2>2, SetInduction
  <2>4. ASSUME NEW i \in 1 .. Len(c) PROVE c[i] \in W
    <3>1. i - 1 \in Nat /\ i - 1 < Len(c) /\ (i - 1) + 1 = i
      BY <1>1
    <3>2. i - 1 \in S
      BY <2>3, <3>1
    <3> QED BY <3>1, <3>2 DEF S
  <2> QED BY <2>4
<1>4. \A i \in 1 .. Len(c) : /\ c[i] \in Live(w) /\ w[c[i]].next = m[c[i]].next
                             /\ w[c[i]].len = m[c[i]].len /\ w[c[i]].room = m[c[i]].room
  BY <1>3 DEF Apart
<1>5. IsChain(w, c)
  <2>1. c \in Seq(Live(w))
    BY <1>1, <1>4
  <2>2. Len(c) \in 1 .. Len(c) /\ \A i \in 1 .. Len(c) - 1 : i \in 1 .. Len(c)
    BY <1>1
  <2> QED BY <1>1, <1>4, <2>1, <2>2 DEF IsChain, IsPath
<1>6. Len(c) = Len(d) /\ \A i \in 1 .. Len(c) : c[i] = d[i]
  BY <1>5, ChainUnique
<1>7. SameRows(w, m, d, c, Len(c))
  <2>1. ASSUME NEW i \in 1 .. Len(c) PROVE Row(w, d[i]) = Row(m, c[i])
    <3>1. /\ d[i] = c[i] /\ w[c[i]].len = m[c[i]].len /\ w[c[i]].room = m[c[i]].room
      BY <1>4, <1>6
    <3> QED BY <3>1 DEF Row
  <2> QED BY <2>1 DEF SameRows
<1> QED
  BY <1>1, <1>6, <1>7, BytesInSame

\* Chain walks the chain of every pbuf in use.
LEMMA Chains == IInv => \A p \in Used : IsChain(mem, Chain(p)) /\ Chain(p)[1] = p
BY Views, ChainFacts

\* The chains after the step.
LEMMA ChainsNext ==
  IInv' => \A p \in Addr : mem'[p] # NULL => IsChain(mem', Chain(p)') /\ Chain(p)'[1] = p
<1>1. IInv' => (\A p \in Used : IsChain(mem, Chain(p)) /\ Chain(p)[1] = p)'
  BY Chains, PTL
<1>2. (\A p \in Used : IsChain(mem, Chain(p)) /\ Chain(p)[1] = p)'
        => \A p \in Addr : mem'[p] # NULL => IsChain(mem', Chain(p)') /\ Chain(p)'[1] = p
  BY DEF Used, IsChain, IsPath, Live
<1> QED
  BY <1>1, <1>2

\* A step that changes X only keeps the bytes behind every other pbuf.
LEMMA OthersSame ==
  ASSUME IInv, IInv', NEW X, Apart(mem, mem', X), NEW q \in Used \ X, mem'[q] # NULL
  PROVE  Bytes(q)' = Bytes(q)
<1>1. Shape(mem) /\ Shape(mem')
  BY DEF IInv, Good
<1>2. q \in (Live(mem) \cap Live(mem')) \ X /\ q \in Addr
  BY DEF Used, Live
<1>3. /\ IsChain(mem, Chain(q)) /\ Chain(q)[1] = q
      /\ IsChain(mem', Chain(q)') /\ Chain(q)'[1] = q
  BY <1>2, Chains, ChainsNext
<1>4. /\ Bytes(q) = BytesIn(mem, Chain(q), Len(Chain(q)))
      /\ Bytes(q)' = BytesIn(mem', Chain(q)', Len(Chain(q)'))
  BY DEF Bytes, BytesIn
<1> QED
  BY <1>1, <1>2, <1>3, <1>4, ApartBytes

\* pbuf_free changes nothing but counts.
LEMMA FreeLeaves ==
  ASSUME NEW m, NEW c, m \in [Addr -> PbufRecord \cup {NULL}], c \in Seq(Live(m))
  PROVE  LET w == PbufFree(m, c)
         IN  /\ \A r \in Live(w) : /\ r \in Live(m) /\ w[r].next = m[r].next
                                   /\ w[r].len = m[r].len /\ w[r].room = m[r].room
             /\ \A r \in Addr \ {c[i] : i \in 1 .. Len(c)} : w[r] = m[r]
<1>0. Len(c) \in Nat /\ \A i \in 1 .. Len(c) : c[i] \in Live(m)
  OBVIOUS
<1>1. PICK k \in 0 .. Len(c) : FreeCount(m, c, k) /\ PbufFree(m, c) = Freed(m, c, k)
  BY <1>0, FreeStops DEF PbufFree
<1> DEFINE w == Freed(m, c, k)
           R == Range(SubSeq(c, 1, k))
<1>2. w = [q \in Addr |-> IF q \in R THEN NULL
                          ELSE IF k < Len(c) /\ q = c[k + 1] THEN [m[q] EXCEPT !.ref = @ - 1]
                          ELSE m[q]]
  BY DEF Freed
<1>3. R \subseteq {c[i] : i \in 1 .. Len(c)}
  <2>1. Len(SubSeq(c, 1, k)) = k /\ \A i \in 1 .. k : SubSeq(c, 1, k)[i] = c[i]
    BY <1>0, SubSeqProperties
  <2>2. DOMAIN SubSeq(c, 1, k) = 1 .. k /\ 1 .. k \subseteq 1 .. Len(c)
    BY <1>0, <2>1
  <2> QED BY <2>1, <2>2 DEF Range, R
<1> HIDE DEF w, R
<1>4. ASSUME NEW r \in Live(w)
      PROVE  /\ r \in Live(m) /\ w[r].next = m[r].next
             /\ w[r].len = m[r].len /\ w[r].room = m[r].room
  <2>0. r \in Addr /\ r \notin R
    BY <1>2, <1>4 DEF Live
  <2>1. CASE k < Len(c) /\ r = c[k + 1]
    <3>1. r \in Live(m) /\ m[r] \in PbufRecord
      BY <1>0, <2>1 DEF Live
    <3>2. w[r] = [m[r] EXCEPT !.ref = @ - 1]
      BY <1>2, <2>0, <2>1
    <3> QED BY <3>1, <3>2 DEF PbufRecord
  <2>2. CASE ~(k < Len(c) /\ r = c[k + 1])
    <3>1. w[r] = m[r]
      BY <1>2, <2>0, <2>2
    <3> QED BY <1>4, <3>1 DEF Live
  <2> QED BY <2>1, <2>2
<1>5. ASSUME NEW r \in Addr \ {c[i] : i \in 1 .. Len(c)} PROVE w[r] = m[r]
  <2>1. r \notin R
    BY <1>3
  <2>2. ~(k < Len(c) /\ r = c[k + 1])
    BY <1>0
  <2> QED BY <1>2, <2>1, <2>2
<1> QED
  BY <1>1, <1>4, <1>5 DEF w

\* The types the next lemmas need.
LEMMA MemType ==
  ASSUME IInv
  PROVE  /\ mem \in [Addr -> PbufRecord \cup {NULL}]
         /\ \A p \in Live(mem) : Chain(p) \in Seq(Live(mem))
<1>1. Shape(mem)
  BY DEF IInv, Good
<1>2. ASSUME NEW p \in Live(mem) PROVE Chain(p) \in Seq(Live(mem))
  BY <1>1, ChainFacts DEF IsChain, IsPath
<1> QED
  BY <1>1, <1>2 DEF Shape

\* Freeing a chain changes nothing that stays.
LEMMA ApartFree ==
  ASSUME IInv, NEW p \in Live(mem)
  PROVE  Apart(mem, PbufFree(mem, Chain(p)), {})
BY MemType, FreeLeaves DEF Apart

\* Nor does freeing a queue.
LEMMA ApartDrop ==
  ASSUME IInv, NEW i \in 1 .. PCBS, DropOoseq(i)
  PROVE  Apart(mem, mem', {})
<1>1. ooseq[i] \in Live(mem)
  BY Views, GiveUpQueue DEF DropOoseq, IInv
<1> QED
  BY <1>1, ApartFree DEF DropOoseq

\* Nor does taking a reference.
LEMMA ApartRef ==
  ASSUME IInv, NEW p \in Live(mem), mem' = [mem EXCEPT ![p].ref = @ + 1]
  PROVE  Apart(mem, mem', {})
<1>1. p \in Addr /\ mem[p] \in PbufRecord /\ mem \in [Addr -> PbufRecord \cup {NULL}]
  BY MemType DEF Live
<1>2. ASSUME NEW r \in Live(mem)
      PROVE  mem'[r].next = mem[r].next /\ mem'[r].len = mem[r].len /\ mem'[r].room = mem[r].room
  <2>1. CASE r = p
    <3>1. mem'[r] = [mem[p] EXCEPT !.ref = @ + 1]
      BY <1>1, <2>1
    <3> QED BY <1>1, <2>1, <3>1 DEF PbufRecord
  <2>2. CASE r # p
    <3>1. mem'[r] = mem[r]
      BY <1>1, <1>2, <2>2 DEF Live
    <3> QED BY <3>1
  <2> QED BY <2>1, <2>2
<1> QED
  BY <1>2 DEF Apart

\* New pbufs.
LEMMA ApartNew ==
  ASSUME NEW m, NEW w, \A r \in Live(m) : w[r] = m[r]
  PROVE  Apart(m, w, {})
BY DEF Apart

\* Nor does pbuf_alloc.
LEMMA ApartAlloc ==
  ASSUME IInv, [Next]_vars, Allocate \/ UNCHANGED vars
  PROVE  Apart(mem, mem', {})
<1>0. mem \in [Addr -> PbufRecord \cup {NULL}] /\ Used = Live(mem) /\ Live(mem) \subseteq Addr
  BY MemType, Views DEF Live
<1>1. ASSUME UNCHANGED mem PROVE Apart(mem, mem', {})
  BY <1>1, ApartNew
<1>2. ASSUME NEW type, NEW layer, NEW length, AllocSingle(type, layer, length)
      PROVE  Apart(mem, mem', {})
  <2>1. PICK p \in HEAP \ Used : \E x : mem' = [mem EXCEPT ![p] = x]
    BY <1>2 DEF AllocSingle
  <2>2. \A r \in Live(mem) : mem'[r] = mem[r]
    BY <1>0, <2>1
  <2> QED BY <2>2, ApartNew
<1>3. ASSUME NEW layer, NEW length, AllocPool(layer, length)
      PROVE  Apart(mem, mem', {})
  <2> DEFINE n == PoolNeeds(length, HeaderRoom(layer))
             room == HeaderRoom(layer)
  <2>1. PICK f \in [1 .. n -> POOL \ Used] :
           mem' = [q \in Addr |->
                IF \E i \in 1 .. n : f[i] = q
                  THEN LET i == CHOOSE j \in 1 .. n : f[j] = q
                           r == IF i = 1 THEN room ELSE 0
                           left == length - Before(i, room)
                       IN  Alloc("POOL", IF i < n THEN f[i + 1] ELSE NULL,
                                 LWIP_MIN(left, PBUF_POOL_BUFSIZE - r), left, r)
                  ELSE mem[q]]
    BY <1>3 DEF AllocPool
  <2> HIDE DEF n, room
  <2>2. ASSUME NEW r \in Live(mem) PROVE mem'[r] = mem[r]
    <3>1. ~\E i \in 1 .. n : f[i] = r
      BY <1>0, <2>1
    <3>2. r \in Addr
      BY <1>0
    <3> QED BY <2>1, <3>1, <3>2
  <2> QED BY <2>2, ApartNew
<1>4. CASE UNCHANGED vars
  BY <1>1, <1>4 DEF vars
<1>5. CASE Allocate
  <2>1. CASE AllocSingleFails \/ \E length \in Lengths, layer \in Layers : AllocPoolFails(layer, length)
    BY <1>1, <2>1 DEF AllocSingleFails, AllocPoolFails, vars
  <2> QED BY <1>2, <1>3, <1>5, <2>1 DEF Allocate
<1> QED
  BY <1>4, <1>5

\* Nor does pbuf_coalesce, which fills a new pbuf.
LEMMA ApartCoalesce ==
  ASSUME IInv, NEW p \in Used, NEW layer, pbuf_coalesce(p, layer)
  PROVE  Apart(mem, mem', {})
<1> DEFINE q == CHOOSE a \in HEAP : a \notin Used
           r == Alloc("RAM", NULL, mem[p].tot_len, mem[p].tot_len, HeaderRoom(layer))
           m == [mem EXCEPT ![q] = r]
           c == Chain(p)
<1>1. /\ p \in Live(mem) /\ Used = Live(mem) /\ Shape(mem)
      /\ mem \in [Addr -> PbufRecord \cup {NULL}] /\ c \in Seq(Live(mem))
  BY Views, MemType
<1>2. q \in HEAP /\ q \notin Used
  <2>1. \E a \in HEAP : a \notin Used
    <3>1. ~(HEAP \subseteq Used)
      BY DEF pbuf_coalesce
    <3> QED BY <3>1
  <2> QED BY <2>1, Zenon
<1>3. mem' = PbufFree(m, c)
  BY DEF pbuf_coalesce
<1>4. r \in PbufRecord
  <2>1. mem[p].tot_len \in 0 .. U16 - 1 /\ HeaderRoom(layer) \in Nat /\ NULL \in Addr \cup {NULL}
    BY <1>1, LiveRecord, RoomType
  <2> QED BY <2>1, AllocType
<1> HIDE DEF q, r, c
<1>5. /\ m \in [Addr -> PbufRecord \cup {NULL}]
      /\ \A s \in Live(mem) : m[s] = mem[s] /\ s \in Live(m)
  BY <1>1, <1>2, <1>4 DEF Live, Addr
<1> HIDE DEF m
<1>6. c \in Seq(Live(m))
  BY <1>1, <1>5
<1>7. \A s \in Live(mem') : /\ mem'[s].next = m[s].next /\ mem'[s].len = m[s].len
                            /\ mem'[s].room = m[s].room
  BY <1>3, <1>5, <1>6, FreeLeaves
<1> QED
  BY <1>5, <1>7 DEF Apart

\* The operations on the first pbuf of a packet.
LEMMA ApartHeader ==
  ASSUME IInv, NEW p \in Used, NEW inc, NEW force, pbuf_header(p, inc, force)
  PROVE  Apart(mem, mem', {p})
<1>1. ~HasParent(mem, p) /\ mem \in [Addr -> PbufRecord \cup {NULL}]
  BY PacketFacts, MemType DEF pbuf_header, Whole
<1>2. PICK x : mem' = [mem EXCEPT ![p] = x]
  BY DEF pbuf_header
<1>3. \A r \in Live(mem) \ {p} : mem'[r] = mem[r]
  BY <1>1, <1>2 DEF Live
<1> QED
  BY <1>1, <1>3 DEF Apart, HasParent

\* pbuf_dechain changes the first pbuf only.
LEMMA ApartDechain ==
  ASSUME IInv, NEW p \in Used, pbuf_dechain(p)
  PROVE  Apart(mem, mem', {p})
<1> DEFINE q == mem[p].next
           tot == Sub16(mem[p].tot_len, mem[p].len)
           m == [mem EXCEPT ![q].tot_len = tot, ![p].next = NULL, ![p].tot_len = mem[p].len]
           c == Chain(q)
<1>1. /\ p \in Live(mem) /\ p \in Addr /\ ~HasParent(mem, p) /\ q # NULL /\ Shape(mem)
      /\ mem \in [Addr -> PbufRecord \cup {NULL}] /\ mem[p] \in PbufRecord
  BY PacketFacts, MemType, Views, LiveRecord DEF pbuf_dechain, Whole
<1>2. q \in Live(mem) /\ q \in Addr /\ mem[q] \in PbufRecord /\ p # q /\ c \in Seq(Live(mem))
  <2>1. q \in Live(mem) /\ p # q
    BY <1>1, LiveRecord DEF HasParent
  <2> QED BY <1>1, <2>1, LiveRecord, MemType
<1>3. tot \in 0 .. U16 - 1 /\ mem[p].len \in 0 .. U16 - 1 /\ NULL \in Addr \cup {NULL}
  <2>1. mem[p].len \in 0 .. U16 - 1 /\ mem[p].tot_len \in 0 .. U16 - 1
    BY <1>1, LiveRecord
  <2>2. mem[p].len \in Int /\ mem[p].tot_len \in Int
    BY <2>1, PbufAssumption
  <2> QED BY <2>1, <2>2, Add16Facts
<1>4. mem' = PbufFree(m, c)
  BY DEF pbuf_dechain
<1> HIDE DEF q, tot, c
<1>5. m = [s \in Addr |-> IF s = p THEN [mem[p] EXCEPT !.next = NULL, !.tot_len = mem[p].len]
                          ELSE IF s = q THEN [mem[q] EXCEPT !.tot_len = tot]
                          ELSE mem[s]]
  BY <1>1, <1>2
<1> HIDE DEF m
<1>6. m[q].next = mem[q].next /\ m[q].len = mem[q].len /\ m[q].room = mem[q].room
      /\ m[q] \in PbufRecord /\ m[p] \in PbufRecord
  <2>1. /\ m[q] = [mem[q] EXCEPT !.tot_len = tot]
        /\ m[p] = [mem[p] EXCEPT !.next = NULL, !.tot_len = mem[p].len]
    BY <1>1, <1>2, <1>5
  <2> QED BY <1>1, <1>2, <1>3, <2>1 DEF PbufRecord
<1>7. \A s \in Addr \ {p, q} : m[s] = mem[s]
  BY <1>5
<1>8. m \in [Addr -> PbufRecord \cup {NULL}] /\ Live(mem) \subseteq Live(m)
  <2>1. m = [s \in Addr |-> m[s]] /\ \A s \in Addr : m[s] \in PbufRecord \cup {NULL}
    BY <1>1, <1>5, <1>6, <1>7
  <2>2. \A s \in Live(mem) : m[s] # NULL
    BY <1>6, <1>7, NullAssumption DEF Live
  <2> QED BY <2>1, <2>2 DEF Live
<1>9. \A s \in Live(mem') : /\ mem'[s].next = m[s].next /\ mem'[s].len = m[s].len
                            /\ mem'[s].room = m[s].room
  <2>1. c \in Seq(Live(m))
    BY <1>2, <1>8
  <2> QED BY <1>4, <1>8, <2>1, FreeLeaves
<1>10. ASSUME NEW s \in Live(mem) \ {p}
       PROVE  m[s].next = mem[s].next /\ m[s].len = mem[s].len /\ m[s].room = mem[s].room
              /\ mem[s].next # p
  <2>1. s = q \/ m[s] = mem[s]
    BY <1>7 DEF Live
  <2> QED BY <1>1, <1>6, <2>1 DEF HasParent
<1> QED
  BY <1>9, <1>10 DEF Apart

\* Nothing but the chain of a packet points into it.
LEMMA PacketApart ==
  ASSUME IInv, NEW p, Packet(p)
  PROVE  /\ Range(Chain(p)) = {Chain(p)[i] : i \in 1 .. Len(Chain(p))}
         /\ Chain(p) \in Seq(Live(mem)) /\ Len(Chain(p)) \in Nat
         /\ \A r \in Live(mem) \ Range(Chain(p)) : mem[r].next \notin Range(Chain(p))
<1> DEFINE c == Chain(p)
<1>1. IsChain(mem, c) /\ c[1] = p /\ ~HasParent(mem, p) /\ Shape(mem)
  BY PacketFacts, Views
<1> HIDE DEF c
<1>2. /\ Len(c) \in Nat /\ Len(c) >= 1 /\ c \in Seq(Live(mem))
      /\ \A i \in 1 .. Len(c) : c[i] \in Live(mem)
      /\ \A i \in 1 .. Len(c) - 1 : mem[c[i]].next = c[i + 1]
      /\ Range(c) = {c[i] : i \in 1 .. Len(c)}
  BY <1>1, ChainParts
<1>3. ASSUME NEW r \in Live(mem), mem[r].next \in Range(c) PROVE r \in Range(c)
  <2>1. PICK i \in 1 .. Len(c) : mem[r].next = c[i]
    BY <1>2, <1>3
  <2>2. i # 1
    BY <1>1, <2>1 DEF HasParent
  <2>3. i - 1 \in 1 .. Len(c) - 1 /\ i - 1 \in 1 .. Len(c) /\ (i - 1) + 1 = i
    BY <1>2, <2>2
  <2>4. mem[c[i - 1]].next = c[i] /\ c[i - 1] \in Live(mem) /\ c[i] # NULL
    BY <1>2, <2>3, NullNotAddr DEF Live
  <2>5. r = c[i - 1]
    BY <1>1, <2>1, <2>4 DEF Shape
  <2> QED BY <1>2, <2>3, <2>5
<1> QED
  BY <1>2, <1>3 DEF c

\* The operations on a whole packet leave the other pbufs alone.
LEMMA ApartPacket ==
  ASSUME IInv, NEW p, Packet(p), \A r \in Addr \ Range(Chain(p)) : mem'[r] = mem[r]
  PROVE  Apart(mem, mem', Range(Chain(p)))
BY PacketApart DEF Apart, Live

\* pbuf_cat.
LEMMA ApartCat ==
  ASSUME IInv, NEW p \in Used, NEW t \in Used, pbuf_cat(p, t)
  PROVE  Apart(mem, mem', Range(Chain(p)))
<1>1. Packet(p) /\ mem' = Cat(p, t)
  BY DEF pbuf_cat, MayCat
<1>2. \A r \in Addr \ Range(Chain(p)) : mem'[r] = mem[r]
  BY <1>1 DEF Cat
<1> QED
  BY <1>1, <1>2, ApartPacket

\* pbuf_chain.
LEMMA ApartChain ==
  ASSUME IInv, NEW p \in Used, NEW t \in Used, pbuf_chain(p, t)
  PROVE  Apart(mem, mem', Range(Chain(p)))
<1> DEFINE n == Cat(p, t)
           X == Range(Chain(p))
<1>1. Packet(p) /\ mem' = [n EXCEPT ![t].ref = @ + 1]
  BY DEF pbuf_chain, MayCat
<1>2. n = [r \in Addr |-> n[r]] /\ \A r \in Addr \ X : n[r] = mem[r]
  BY DEF Cat
<1> HIDE DEF n
<1>3. \A r \in Live(mem) : mem[r] \in PbufRecord /\ r \in Addr
  BY MemType DEF Live
<1>4. ASSUME NEW r \in Live(mem) \ X
      PROVE  mem'[r].next = mem[r].next /\ mem'[r].len = mem[r].len /\ mem'[r].room = mem[r].room
  <2>1. mem'[r] = mem[r] \/ mem'[r] = [mem[r] EXCEPT !.ref = @ + 1]
    <3>1. r \in Addr /\ n[r] = mem[r]
      BY <1>2, <1>3
    <3>2. mem'[r] = IF r = t THEN [n[r] EXCEPT !.ref = @ + 1] ELSE n[r]
      BY <1>1, <1>2, <3>1
    <3> QED BY <3>1, <3>2
  <2> QED BY <1>3, <2>1 DEF PbufRecord
<1>5. \A r \in Live(mem) \ X : mem[r].next \notin X
  BY <1>1, PacketApart
<1> QED
  BY <1>4, <1>5 DEF Apart

\* pbuf_split_64k.
LEMMA ApartSplit ==
  ASSUME IInv, NEW p \in Used, pbuf_split_64k(p)
  PROVE  Apart(mem, mem', Range(Chain(p)))
<1> DEFINE c == Chain(p)
<1>0. Packet(p) /\ c \in Seq(Live(mem)) /\ Len(c) \in Nat
  BY PacketApart DEF pbuf_split_64k
<1>1. PICK k \in 1 .. Len(c) - 1 :
         \A q \in Addr : q \notin Range(SubSeq(c, 1, k)) => mem'[q] = mem[q]
  BY DEF pbuf_split_64k
<1> HIDE DEF c
<1>2. Range(SubSeq(c, 1, k)) \subseteq Range(c)
  <2>1. Len(SubSeq(c, 1, k)) = k /\ \A i \in 1 .. k : SubSeq(c, 1, k)[i] = c[i]
    BY <1>0, SubSeqProperties
  <2>2. DOMAIN SubSeq(c, 1, k) = 1 .. k /\ 1 .. k \subseteq 1 .. Len(c) /\ DOMAIN c = 1 .. Len(c)
    BY <1>0, <2>1
  <2> QED BY <2>1, <2>2 DEF Range
<1>3. \A r \in Addr \ Range(c) : mem'[r] = mem[r]
  BY <1>1, <1>2
<1> QED
  BY <1>0, <1>3, ApartPacket DEF c

\* pbuf_realloc: what it frees belongs to the packet.
LEMMA ApartRealloc ==
  ASSUME IInv, NEW p \in Used, NEW new_len \in Lengths, pbuf_realloc(p, new_len)
  PROVE  Apart(mem, mem', Range(Chain(p)))
<1> DEFINE c == Chain(p)
           grow == new_len - mem[p].tot_len
           rem(k) == new_len - LenUpTo(c, k - 1)
           cut(k) ==
             [q \in Addr |->
                IF q \in Range(SubSeq(c, 1, k - 1)) THEN [mem[q] EXCEPT !.tot_len = Add16(@, grow)]
                ELSE IF q = c[k]
                  THEN [mem[q] EXCEPT !.len = rem(k), !.tot_len = rem(k), !.next = NULL]
                ELSE mem[q]]
<1>0. /\ Packet(p) /\ c \in Seq(Live(mem)) /\ Len(c) \in Nat
      /\ mem \in [Addr -> PbufRecord \cup {NULL}]
  BY PacketApart, MemType DEF pbuf_realloc, Whole
<1>1. PICK k \in 1 .. Len(c) :
         mem' = IF k < Len(c) THEN PbufFree(cut(k), SubSeq(c, k + 1, Len(c))) ELSE cut(k)
  BY DEF pbuf_realloc
<1> DEFINE m == cut(k)
           d == SubSeq(c, k + 1, Len(c))
<1>2. mem' = IF k < Len(c) THEN PbufFree(m, d) ELSE m
  BY <1>1
<1>3. \A q \in Addr : q \notin Range(SubSeq(c, 1, k - 1)) /\ q # c[k] => m[q] = mem[q]
  OBVIOUS
<1>4. m = [q \in Addr |-> m[q]]
  OBVIOUS
<1> HIDE DEF c, cut, m
<1>5. Range(SubSeq(c, 1, k - 1)) \subseteq Range(c) /\ c[k] \in Range(c)
  <2>1. Len(SubSeq(c, 1, k - 1)) = k - 1 /\ \A i \in 1 .. k - 1 : SubSeq(c, 1, k - 1)[i] = c[i]
    BY <1>0, SubSeqProperties
  <2>2. /\ DOMAIN SubSeq(c, 1, k - 1) = 1 .. k - 1 /\ 1 .. k - 1 \subseteq 1 .. Len(c)
        /\ DOMAIN c = 1 .. Len(c)
    BY <1>0, <2>1
  <2> QED BY <2>1, <2>2 DEF Range
<1>6. \A r \in Addr \ Range(c) : m[r] = mem[r]
  BY <1>3, <1>5
<1>7. CASE k < Len(c)
  <2>1. Len(d) \in Nat /\ Range(d) \subseteq Range(c)
    <3>1. /\ Len(d) = Len(c) - k
          /\ \A i \in 1 .. Len(c) - k : d[i] = c[k + i] /\ k + i \in 1 .. Len(c)
      <4>1. /\ \A i \in k + 1 .. Len(c) : c[i] \in Live(mem)
            /\ \A i \in 1 .. Len(c) - k : k + i \in 1 .. Len(c)
        BY <1>0, <1>7
      <4> QED BY <1>0, <1>7, <4>1, SubSeqProperties
    <3>2. DOMAIN d = 1 .. Len(c) - k /\ DOMAIN c = 1 .. Len(c) /\ Len(d) \in Nat
      BY <1>0, <1>7, <3>1
    <3> QED BY <3>1, <3>2 DEF Range
  <2> HIDE DEF d
  <2>2. \A r \in Addr \ Range(c) : PbufFree(m, d)[r] = m[r]
    <3>1. PICK j \in 0 .. Len(d) : PbufFree(m, d) = Freed(m, d, j)
      BY <2>1, FreeStops DEF PbufFree
    <3>2. Range(SubSeq(d, 1, j)) \subseteq Range(d) /\ (j < Len(d) => d[j + 1] \in Range(d))
      <4>1. d \in Seq(Live(mem))
        BY <1>0, <1>7, SubSeqProperties DEF d
      <4>2. Len(SubSeq(d, 1, j)) = j /\ \A i \in 1 .. j : SubSeq(d, 1, j)[i] = d[i]
        BY <2>1, <4>1, SubSeqProperties
      <4>3. DOMAIN SubSeq(d, 1, j) = 1 .. j /\ 1 .. j \subseteq 1 .. Len(d) /\ DOMAIN d = 1 .. Len(d)
        BY <2>1, <4>1, <4>2
      <4> QED BY <2>1, <4>2, <4>3 DEF Range
    <3> QED BY <2>1, <3>1, <3>2 DEF Freed
  <2>3. \A r \in Addr \ Range(c) : mem'[r] = mem[r]
    BY <1>2, <1>6, <1>7, <2>2
  <2> QED BY <1>0, <2>3, ApartPacket DEF c
<1>8. CASE ~(k < Len(c))
  <2>1. \A r \in Addr \ Range(c) : mem'[r] = mem[r]
    BY <1>2, <1>6, <1>8
  <2> QED BY <1>0, <2>1, ApartPacket DEF c
<1> QED
  BY <1>7, <1>8

\* Whatever step it is: the pbufs the step may change, and nothing else.
LEMMA StepApart ==
  ASSUME IInv, [Next]_vars
  PROVE  \E X : Apart(mem, mem', X) /\ \A q \in X : \E p \in Used : Changes(p, q)
<1>0. Used = Live(mem) /\ HLEN \in Int
  BY Views, PbufAssumption
<1>1. ASSUME Apart(mem, mem', {})
      PROVE  \E X : Apart(mem, mem', X) /\ \A q \in X : \E p \in Used : Changes(p, q)
  BY <1>1
<1>2. CASE Allocate \/ UNCHANGED vars
  BY <1>1, <1>2, ApartAlloc
<1>3. ASSUME NEW i \in 1 .. PCBS, NEW p \in Used, QueueOoseq(i, p) PROVE Apart(mem, mem', {})
  BY <1>0, <1>3, ApartRef DEF QueueOoseq
<1>4. ASSUME NEW i \in 1 .. PCBS, FreeOoseq(i) PROVE Apart(mem, mem', {})
  BY <1>4, ApartDrop DEF FreeOoseq
<1>5. ASSUME pbuf_free_ooseq PROVE Apart(mem, mem', {})
  <2>1. CASE \E i \in 1 .. PCBS : ReclaimFrom(i)
    BY <2>1, ApartDrop DEF ReclaimFrom
  <2>2. CASE UNCHANGED mem
    BY <2>2, ApartNew
  <2> QED BY <1>5, <2>1, <2>2 DEF pbuf_free_ooseq
<1>6. CASE Stack
  BY <1>1, <1>3, <1>4, <1>5, <1>6 DEF Stack
<1>7. ASSUME NEW p \in Used, pbuf_free(p) PROVE Apart(mem, mem', {})
  BY <1>0, <1>7, ApartFree DEF pbuf_free
<1>8. ASSUME NEW p \in Used, pbuf_ref(p) PROVE Apart(mem, mem', {})
  BY <1>0, <1>8, ApartRef DEF pbuf_ref
<1>9. ASSUME NEW p \in Used, NEW layer, pbuf_coalesce(p, layer) PROVE Apart(mem, mem', {})
  BY <1>9, ApartCoalesce
<1>10. ASSUME NEW p \in Used, \/ pbuf_split_64k(p)
                              \/ \E new_len \in Lengths : pbuf_realloc(p, new_len)
                              \/ \E t \in Used : pbuf_cat(p, t) \/ pbuf_chain(p, t)
       PROVE  \E X : Apart(mem, mem', X) /\ \A q \in X : \E s \in Used : Changes(s, q)
  <2>1. Apart(mem, mem', Range(Chain(p)))
    BY <1>10, ApartSplit, ApartRealloc, ApartCat, ApartChain
  <2>2. \A q \in Range(Chain(p)) : Changes(p, q)
    BY <1>10 DEF Changes
  <2> QED BY <2>1, <2>2
<1>11. ASSUME NEW p \in Used, \/ pbuf_dechain(p)
                              \/ \E inc \in {-HLEN, HLEN}, force \in BOOLEAN :
                                    pbuf_header(p, inc, force)
       PROVE  \E X : Apart(mem, mem', X) /\ \A q \in X : \E s \in Used : Changes(s, q)
  <2>1. Apart(mem, mem', {p})
    BY <1>11, ApartDechain, ApartHeader
  <2>2. \A q \in {p} : Changes(p, q)
    BY <1>11 DEF Changes
  <2> QED BY <2>1, <2>2
<1>12. CASE Change
  BY <1>1, <1>7, <1>8, <1>9, <1>10, <1>11, <1>12 DEF Change
<1> QED
  BY <1>2, <1>6, <1>12 DEF Next

\* Freeing, reclaiming, coalescing or allocating never changes the bytes behind
\* a pbuf that stays in use, and each operation that does change bytes changes
\* those of its own packet only.
THEOREM PbufOthersKept == Spec => OthersKept
<1>1. IInv /\ IInv' /\ [Next]_vars
        => \A q \in Used : mem'[q] # NULL /\ Bytes(q)' # Bytes(q) => \E p \in Used : Changes(p, q)
  <2> SUFFICES ASSUME IInv, IInv', [Next]_vars, NEW q \in Used, mem'[q] # NULL,
                      Bytes(q)' # Bytes(q)
               PROVE  \E p \in Used : Changes(p, q)
    OBVIOUS
  <2>1. PICK X : Apart(mem, mem', X) /\ \A r \in X : \E p \in Used : Changes(p, r)
    BY StepApart
  <2>2. q \in X
    BY <2>1, OthersSame
  <2> QED BY <2>1, <2>2
<1> QED
  BY <1>1, Invariant, PTL DEF OthersKept, Spec

-----------------------------------------------------------------------------
(***************************************************************************)
(* The bytes of the packets an operation builds.                           *)
(***************************************************************************)
LEMMA BytesNext ==
  ASSUME IInv, IInv', NEW p \in Used
  PROVE  /\ Bytes(p) = BytesIn(mem, Chain(p), Len(Chain(p)))
         /\ Bytes(p)' = BytesIn(mem', Chain(p)', Len(Chain(p)'))
         /\ IsChain(mem, Chain(p)) /\ Chain(p)[1] = p
         /\ mem'[p] # NULL => IsChain(mem', Chain(p)') /\ Chain(p)'[1] = p
         /\ Shape(mem) /\ Shape(mem') /\ Totals(mem) /\ Used = Live(mem)
<1>1. /\ Bytes(p) = BytesIn(mem, Chain(p), Len(Chain(p)))
      /\ Bytes(p)' = BytesIn(mem', Chain(p)', Len(Chain(p)'))
  BY DEF Bytes, BytesIn
<1>2. Shape(mem) /\ Shape(mem') /\ Totals(mem) /\ Used = Live(mem)
  BY Views DEF IInv, Good
<1>3. p \in Addr
  BY DEF Used
<1> QED
  BY <1>1, <1>2, <1>3, Chains, ChainsNext

\* In memory w, c holds the n pbufs of a chain.
Linked(w, c, n) ==
  /\ \A i \in 1 .. n : c[i] \in Live(w)
  /\ \A i \in 1 .. n - 1 : w[c[i]].next = c[i + 1]
  /\ w[c[n]].next = NULL

\* A chain found in a memory is the one that Chain walks.
LEMMA ChainIs ==
  ASSUME NEW w, NEW c, NEW d, NEW n \in Nat, Shape(w), n >= 1, IsChain(w, d), d[1] = c[1],
         Linked(w, c, n)
  PROVE  Len(d) = n /\ \A i \in 1 .. n : d[i] = c[i]
<1> DEFINE z == [i \in 1 .. n |-> c[i]]
<1>1. z \in Seq(Live(w)) /\ Len(z) = n /\ \A i \in 1 .. n : z[i] = c[i]
  BY DEF Linked
<1> HIDE DEF z
<1>2. /\ 1 \in 1 .. n /\ n \in 1 .. n
      /\ \A i \in 1 .. n - 1 : i \in 1 .. n /\ i + 1 \in 1 .. n
  OBVIOUS
<1>3. IsChain(w, z) /\ d[1] = z[1]
  BY <1>1, <1>2 DEF IsChain, IsPath, Linked
<1> QED
  BY <1>1, <1>3, ChainUnique

\* pbuf_cat: the chain of t follows that of p.
LEMMA BytesCat ==
  ASSUME IInv, IInv', NEW p \in Used, NEW t \in Used, pbuf_cat(p, t)
  PROVE  Bytes(p)' = Bytes(p) \o Bytes(t)
<1> DEFINE c == Chain(p)
           e == Chain(t)
           d == Chain(p)'
           X == Range(c)
<1>1. /\ Packet(p) /\ Packet(t) /\ p # t
      /\ mem' = [q \in Addr |->
           IF q \notin X THEN mem[q]
           ELSE [mem[q] EXCEPT !.tot_len = Add16(@, mem[t].tot_len),
                               !.next = IF q = c[Len(c)] THEN t ELSE @]]
  BY DEF pbuf_cat, MayCat, Cat
<1>2. /\ Bytes(p) = BytesIn(mem, c, Len(c)) /\ Bytes(p)' = BytesIn(mem', d, Len(d))
      /\ Bytes(t) = BytesIn(mem, e, Len(e))
      /\ IsChain(mem, c) /\ c[1] = p /\ IsChain(mem, e) /\ e[1] = t
      /\ mem'[p] # NULL => IsChain(mem', d) /\ d[1] = p
      /\ Shape(mem) /\ Shape(mem') /\ Used = Live(mem)
  BY BytesNext
<1>3. /\ X = {c[i] : i \in 1 .. Len(c)} /\ ~HasParent(mem, t)
      /\ \A r \in Live(mem) \ X : mem[r].next \notin X
  BY <1>1, PacketApart, PacketFacts
<1> HIDE DEF c, e, d, X
<1>4. /\ Len(c) \in Nat /\ Len(c) >= 1 /\ (\A i \in 1 .. Len(c) : c[i] \in Live(mem))
      /\ (\A i \in 1 .. Len(c) - 1 : mem[c[i]].next = c[i + 1])
      /\ (\A i, j \in 1 .. Len(c) : c[i] = c[j] => i = j)
      /\ Len(e) \in Nat /\ Len(e) >= 1 /\ (\A i \in 1 .. Len(e) : e[i] \in Live(mem))
      /\ (\A i \in 1 .. Len(e) - 1 : mem[e[i]].next = e[i + 1])
      /\ mem[e[Len(e)]].next = NULL
  BY <1>2, ChainParts
\* The chains have no pbuf in common.
<1>5. t \notin X
  <2>1. SUFFICES ASSUME NEW i \in 1 .. Len(c), t = c[i] PROVE FALSE
    BY <1>3
  <2>2. i - 1 \in 1 .. Len(c) - 1 /\ i - 1 \in 1 .. Len(c) /\ (i - 1) + 1 = i
    <3>1. i # 1
      BY <1>1, <1>2, <2>1
    <3> QED BY <1>4, <3>1
  <2>3. mem[c[i - 1]].next = t /\ c[i - 1] \in Live(mem)
    BY <1>4, <2>1, <2>2
  <2> QED BY <1>3, <2>3 DEF HasParent
<1>6. \A i \in 1 .. Len(e) : e[i] \notin X
  <2> DEFINE S == {i \in Nat : i < Len(e) => e[i + 1] \notin X}
  <2>1. 0 \in S
    BY <1>2, <1>5
  <2>2. ASSUME NEW i \in Nat, i \in S PROVE i + 1 \in S
    <3> SUFFICES ASSUME i + 1 < Len(e) PROVE e[(i + 1) + 1] \notin X
      OBVIOUS
    <3>1. i + 1 \in 1 .. Len(e) - 1 /\ i + 1 \in 1 .. Len(e) /\ i < Len(e)
      BY <1>4
    <3>2. e[i + 1] \in Live(mem) \ X /\ mem[e[i + 1]].next = e[(i + 1) + 1]
      BY <1>4, <2>2, <3>1
    <3> QED BY <1>3, <3>2
  <2> HIDE DEF S
  <2>3. Nat \subseteq S
    BY <2>1, <2>2, SetInduction
  <2>4. ASSUME NEW i \in 1 .. Len(e) PROVE e[i] \notin X
    <3>1. i - 1 \in Nat /\ i - 1 < Len(e) /\ (i - 1) + 1 = i
      BY <1>4
    <3>2. i - 1 \in S
      BY <2>3, <3>1
    <3> QED BY <3>1, <3>2 DEF S
  <2> QED BY <2>4
\* The new memory along both chains.
<1>7. ASSUME NEW i \in 1 .. Len(c)
      PROVE  /\ c[i] \in Live(mem') /\ mem'[c[i]].next = IF i = Len(c) THEN t ELSE c[i + 1]
             /\ mem'[c[i]].len = mem[c[i]].len /\ mem'[c[i]].room = mem[c[i]].room
  <2> DEFINE q == c[i]
             next == IF q = c[Len(c)] THEN t ELSE mem[q].next
             tot == Add16(mem[q].tot_len, mem[t].tot_len)
  <2>1. q \in Addr /\ q \in X /\ mem[q] \in PbufRecord
    BY <1>2, <1>3, <1>4, LiveRecord
  <2>2. mem'[q] = [mem[q] EXCEPT !.tot_len = tot, !.next = next]
    BY <1>1, <2>1
  <2>3. next = IF i = Len(c) THEN t ELSE c[i + 1]
    <3>1. Len(c) \in 1 .. Len(c) /\ (i # Len(c) => i \in 1 .. Len(c) - 1)
      BY <1>4
    <3> QED BY <1>4, <3>1
  <2>4. next \in Addr /\ tot \in 0 .. U16 - 1
    <3>1. t \in Addr /\ mem[t].tot_len \in Int /\ mem[q].tot_len \in Int
      BY <1>2, <2>1, <1>4, LiveRecord, PbufAssumption
    <3>2. i # Len(c) => c[i + 1] \in Addr
      <4>1. i # Len(c) => i + 1 \in 1 .. Len(c)
        BY <1>4
      <4> QED BY <1>4, <4>1 DEF Live
    <3> HIDE DEF q
    <3> QED BY <2>3, <3>1, <3>2, Add16Facts
  <2> HIDE DEF q, next, tot
  <2>5. /\ mem'[q] \in PbufRecord /\ mem'[q].next = next
        /\ mem'[q].len = mem[q].len /\ mem'[q].room = mem[q].room
    BY <2>1, <2>2, <2>4 DEF PbufRecord
  <2>6. q \in Live(mem')
    BY <2>1, <2>5, NullAssumption DEF Live
  <2> QED BY <2>3, <2>5, <2>6 DEF q
<1>8. \A i \in 1 .. Len(e) : mem'[e[i]] = mem[e[i]] /\ e[i] \in Live(mem')
  BY <1>1, <1>4, <1>6 DEF Live
<1> DEFINE k == Len(c)
           n == Len(e)
           z == [i \in 1 .. k + n |-> IF i <= k THEN c[i] ELSE e[i - k]]
<1>9. /\ k \in Nat /\ n \in Nat /\ k >= 1 /\ n >= 1 /\ k + n \in Nat /\ k + n >= 1
      /\ (\A i \in 1 .. k : z[i] = c[i] /\ i \in 1 .. k + n)
      /\ (\A i \in 1 .. n : z[k + i] = e[i] /\ k + i \in 1 .. k + n)
      /\ (\A i \in 1 .. k + n : i \in 1 .. k \/ \E j \in 1 .. n : i = k + j)
  <2>1. k \in Nat /\ n \in Nat /\ k >= 1 /\ n >= 1
    BY <1>4
  <2> HIDE DEF k, n
  <2>2. ASSUME NEW i \in 1 .. k + n PROVE i \in 1 .. k \/ \E j \in 1 .. n : i = k + j
    <3>1. CASE i <= k
      BY <2>1, <3>1
    <3>2. CASE ~(i <= k)
      <4>1. i - k \in 1 .. n /\ i = k + (i - k)
        BY <2>1, <3>2
      <4> QED BY <4>1
    <3> QED BY <3>1, <3>2
  <2>3. ASSUME NEW i \in 1 .. n PROVE z[k + i] = e[i] /\ k + i \in 1 .. k + n
    <3>1. k + i \in 1 .. k + n /\ ~(k + i <= k) /\ (k + i) - k = i
      BY <2>1
    <3> QED BY <3>1
  <2> QED BY <2>1, <2>2, <2>3
<1> HIDE DEF z
<1>10. Len(d) = k + n /\ \A i \in 1 .. k + n : d[i] = z[i]
  <2>1. ASSUME NEW i \in 1 .. k + n PROVE z[i] \in Live(mem')
    <3>1. CASE i \in 1 .. k
      BY <1>7, <1>9, <3>1
    <3>2. CASE \E j \in 1 .. n : i = k + j
      BY <1>8, <1>9, <3>2
    <3> QED BY <1>9, <3>1, <3>2
  <2>2. ASSUME NEW i \in 1 .. k + n - 1 PROVE mem'[z[i]].next = z[i + 1]
    <3>1. CASE i < k
      <4>1. i \in 1 .. k /\ i + 1 \in 1 .. k /\ i # k
        BY <1>9, <3>1
      <4> QED BY <1>7, <1>9, <4>1
    <3>2. CASE i = k
      <4>1. k \in 1 .. k /\ 1 \in 1 .. n
        BY <1>9
      <4> QED BY <1>2, <1>7, <1>9, <3>2, <4>1
    <3>3. CASE i > k
      <4>1. i - k \in 1 .. n - 1 /\ i - k \in 1 .. n /\ (i - k) + 1 \in 1 .. n
            /\ k + (i - k) = i /\ k + ((i - k) + 1) = i + 1
        BY <1>9, <3>3
      <4>2. z[i] = e[i - k] /\ z[i + 1] = e[(i - k) + 1]
        BY <1>9, <4>1
      <4> QED BY <1>4, <1>8, <4>1, <4>2
    <3> QED BY <1>9, <3>1, <3>2, <3>3
  <2>3. mem'[z[k + n]].next = NULL
    <3>1. n \in 1 .. n
      BY <1>9
    <3> QED BY <1>4, <1>8, <1>9, <3>1
  <2>4. IsChain(mem', d) /\ d[1] = z[1]
    <3>1. 1 \in 1 .. k
      BY <1>9
    <3>2. c[1] \in Live(mem') /\ z[1] = c[1]
      BY <1>7, <1>9, <3>1
    <3> QED BY <1>2, <3>2 DEF Live
  <2> DEFINE s == k + n
  <2>5. /\ s \in Nat /\ s >= 1 /\ Shape(mem')
        /\ Linked(mem', z, s)
    BY <1>2, <1>9, <2>1, <2>2, <2>3 DEF Linked
  <2> HIDE DEF k, n, s
  <2>6. Len(d) = s /\ \A i \in 1 .. s : d[i] = z[i]
    BY <2>4, <2>5, ChainIs
  <2> QED BY <2>6 DEF s
<1>11. SameRows(mem', mem, d, z, k + n) /\ SameRows(mem, mem, z, c, k)
  <2>1. ASSUME NEW i \in 1 .. k + n PROVE Row(mem', d[i]) = Row(mem, z[i])
    <3>1. mem'[z[i]].len = mem[z[i]].len /\ mem'[z[i]].room = mem[z[i]].room
      <4>1. CASE i \in 1 .. k
        BY <1>7, <1>9, <4>1
      <4>2. CASE \E j \in 1 .. n : i = k + j
        BY <1>8, <1>9, <4>2
      <4> QED BY <1>9, <4>1, <4>2
    <3>2. d[i] = z[i]
      BY <1>10
    <3> QED BY <3>1, <3>2 DEF Row
  <2> QED BY <1>9, <2>1 DEF SameRows
<1>12. BytesIn(mem', d, k + n) = BytesIn(mem, z, k + n) /\ BytesIn(mem, z, k) = BytesIn(mem, c, k)
  <2> HIDE DEF k, n
  <2> QED BY <1>9, <1>11, BytesInSame
<1>13. BytesIn(mem, z, k + n) = BytesIn(mem, z, k) \o BytesIn(mem, e, n)
  <2>1. \A i \in 1 .. k + n : z[i] \in Live(mem)
    BY <1>4, <1>9
  <2>2. \A i \in 1 .. n : e[i] = z[k + i]
    BY <1>9
  <2>3. Shape(mem) /\ k \in Nat /\ n \in Nat
    BY <1>2, <1>9
  <2> HIDE DEF k, n
  <2> QED BY <2>1, <2>2, <2>3, BytesInJoin
<1> QED
  BY <1>2, <1>10, <1>12, <1>13, Zenon

\* The loop of pbuf_split_64k stops before the sum of the lengths overflows.
LEMMA SplitSum ==
  ASSUME Shape(mem), NEW c, NEW k \in Nat, \A i \in 1 .. k : c[i] \in Live(mem), k >= 1,
         \A i \in 2 .. k : Add16(LenUpTo(c, i - 1), mem[c[i]].len) > LenUpTo(c, i - 1)
  PROVE  LenUpTo(c, k) \in 0 .. U16 - 1
<1> DEFINE S == {i \in Nat : i + 1 <= k => LenUpTo(c, i + 1) \in 0 .. U16 - 1}
<1>0. \A i \in 1 .. k : mem[c[i]].len \in 0 .. U16 - 1
  BY LiveRecord
<1>1. 0 \in S
  <2>1. LenUpTo(c, 0) = 0 /\ LenUpTo(c, 1) = LenUpTo(c, 1 - 1) + mem[c[1]].len /\ 1 - 1 = 0
    BY LenUpToNext
  <2>2. mem[c[1]].len \in 0 .. U16 - 1 /\ U16 \in Nat
    BY <1>0, PbufAssumption
  <2>3. LenUpTo(c, 1) = mem[c[1]].len
    BY <2>1, <2>2
  <2> QED BY <2>2, <2>3
<1>2. ASSUME NEW i \in Nat, i \in S PROVE i + 1 \in S
  <2> SUFFICES ASSUME (i + 1) + 1 <= k PROVE LenUpTo(c, (i + 1) + 1) \in 0 .. U16 - 1
    OBVIOUS
  <2>1. /\ i + 2 \in 2 .. k /\ i + 2 \in 1 .. k /\ (i + 2) - 1 = i + 1 /\ i + 2 \in Nat \ {0}
        /\ (i + 1) + 1 = i + 2 /\ i + 1 <= k
    OBVIOUS
  <2> DEFINE s == LenUpTo(c, i + 1)
             l == mem[c[i + 2]].len
  <2>2. s \in 0 .. U16 - 1 /\ l \in 0 .. U16 - 1
    BY <1>0, <1>2, <2>1
  <2>3. LenUpTo(c, i + 2) = s + l /\ Add16(s, l) > s
    BY <2>1, LenUpToNext
  <2> HIDE DEF s, l
  <2>4. s + l < U16
    <3>1. SUFFICES ASSUME s + l >= U16 PROVE FALSE
      BY <2>2, PbufAssumption
    <3>2. s + l - U16 \in 0 .. U16 - 1 /\ s + l = U16 * 1 + (s + l - U16) /\ s + l \in Int
      BY <2>2, <3>1, PbufAssumption
    <3>3. Add16(s, l) = s + l - U16
      BY <3>2, ModUnique DEF Add16
    <3> QED BY <2>2, <2>3, <3>3, PbufAssumption
  <2>5. s + l \in 0 .. U16 - 1
    BY <2>2, <2>4, PbufAssumption
  <2> QED BY <2>1, <2>3, <2>5
<1> HIDE DEF S
<1>3. Nat \subseteq S
  BY <1>1, <1>2, SetInduction
<1>4. k - 1 \in S /\ (k - 1) + 1 = k
  BY <1>3
<1> QED
  BY <1>4 DEF S

\* pbuf_split_64k: the two packets are the old one, the first within 64K.
LEMMA BytesSplit ==
  ASSUME IInv, IInv', NEW p \in Used, pbuf_split_64k(p)
  PROVE  /\ Len(Bytes(p)') = mem'[p].tot_len
         /\ \E r \in Used : Bytes(p)' \o Bytes(r)' = Bytes(p)
<1> DEFINE c == Chain(p)
           d == Chain(p)'
<1>1. PICK k \in 1 .. Len(c) - 1 :
        /\ SplitAt(c, k)
        /\ mem' = [q \in Addr |->
             IF q \notin Range(SubSeq(c, 1, k)) THEN mem[q]
             ELSE [mem[q] EXCEPT !.tot_len = Sub16(@, mem[c[k + 1]].tot_len),
                                 !.next = IF q = c[k] THEN NULL ELSE @]]
  BY DEF pbuf_split_64k
<1> DEFINE A == {c[i] : i \in 1 .. k}
           n == Len(c) - k
           b == [i \in 1 .. n |-> c[k + i]]
<1>2. /\ Bytes(p) = BytesIn(mem, c, Len(c)) /\ Bytes(p)' = BytesIn(mem', d, Len(d))
      /\ IsChain(mem, c) /\ c[1] = p
      /\ mem'[p] # NULL => IsChain(mem', d) /\ d[1] = p
      /\ Shape(mem) /\ Shape(mem') /\ Totals(mem) /\ Used = Live(mem)
  BY BytesNext
<1> HIDE DEF c, d
<1>3. /\ Len(c) \in Nat /\ Len(c) >= 1 /\ c \in Seq(Live(mem))
      /\ (\A i \in 1 .. Len(c) : c[i] \in Live(mem))
      /\ (\A i \in 1 .. Len(c) - 1 : mem[c[i]].next = c[i + 1])
      /\ mem[c[Len(c)]].next = NULL
      /\ (\A i, j \in 1 .. Len(c) : c[i] = c[j] => i = j)
  BY <1>2, ChainParts
<1>4. Range(SubSeq(c, 1, k)) = A
  <2>1. Len(SubSeq(c, 1, k)) = k /\ \A i \in 1 .. k : SubSeq(c, 1, k)[i] = c[i]
    BY <1>3, SubSeqProperties
  <2>2. DOMAIN SubSeq(c, 1, k) = 1 .. k
    BY <1>3, <2>1
  <2> QED BY <2>1, <2>2 DEF Range
<1>5. /\ k \in Nat /\ k >= 1 /\ n \in Nat /\ n >= 1 /\ k + n = Len(c)
      /\ (\A i \in 1 .. k : i \in 1 .. Len(c))
      /\ (\A i \in 1 .. n : k + i \in 1 .. Len(c) /\ b[i] = c[k + i])
      /\ 1 \in 1 .. n /\ 1 \in 1 .. k /\ k + 1 \in 1 .. Len(c)
  BY <1>3
<1>6. PICK r \in Used : r = c[k + 1] /\ mem[r].tot_len \in 0 .. U16 - 1 /\ mem[r].tot_len \in Int
  <2>1. c[k + 1] \in Live(mem)
    BY <1>3, <1>5
  <2>2. mem[c[k + 1]].tot_len \in 0 .. U16 - 1
    BY <1>2, <2>1, LiveRecord
  <2> QED BY <1>2, <2>1, <2>2, PbufAssumption
<1> DEFINE e == Chain(r)'
<1>7. ASSUME NEW i \in 1 .. k
      PROVE  /\ c[i] \in Live(mem') /\ mem'[c[i]].next = IF i = k THEN NULL ELSE c[i + 1]
             /\ mem'[c[i]].len = mem[c[i]].len /\ mem'[c[i]].room = mem[c[i]].room
             /\ mem'[c[i]].tot_len = Sub16(mem[c[i]].tot_len, mem[r].tot_len)
  <2> DEFINE q == c[i]
             next == IF q = c[k] THEN NULL ELSE mem[q].next
             tot == Sub16(mem[q].tot_len, mem[r].tot_len)
  <2>1. q \in Addr /\ q \in A /\ mem[q] \in PbufRecord /\ mem[q].tot_len \in Int
    BY <1>2, <1>3, <1>5, LiveRecord, PbufAssumption
  <2>2. mem'[q] = [mem[q] EXCEPT !.tot_len = tot, !.next = next]
    BY <1>1, <1>4, <1>6, <2>1
  <2>3. next = IF i = k THEN NULL ELSE c[i + 1]
    <3>1. i \in 1 .. Len(c) /\ k \in 1 .. Len(c) /\ i \in 1 .. Len(c) - 1
      BY <1>3
    <3> QED BY <1>3, <3>1
  <2>4. next \in Addr \cup {NULL} /\ tot \in 0 .. U16 - 1
    <3>1. tot \in 0 .. U16 - 1
      <4> HIDE DEF q
      <4> QED BY <1>6, <2>1, Add16Facts
    <3>2. next \in Addr \cup {NULL}
      <4> HIDE DEF q
      <4> QED BY <2>1 DEF PbufRecord
    <3> QED BY <3>1, <3>2
  <2> HIDE DEF q, next, tot
  <2>5. /\ mem'[q] \in PbufRecord /\ mem'[q].next = next /\ mem'[q].tot_len = tot
        /\ mem'[q].len = mem[q].len /\ mem'[q].room = mem[q].room
    BY <2>1, <2>2, <2>4 DEF PbufRecord
  <2>6. q \in Live(mem')
    BY <2>1, <2>5, NullAssumption DEF Live
  <2> QED BY <2>3, <2>5, <2>6 DEF q, tot
<1>8. ASSUME NEW i \in 1 .. n PROVE mem'[b[i]] = mem[b[i]] /\ b[i] \in Live(mem')
  <2>1. b[i] = c[k + i] /\ k + i \in 1 .. Len(c) /\ c[k + i] \in Live(mem)
    BY <1>3, <1>5
  <2>2. c[k + i] \notin A
    <3>1. ASSUME NEW j \in 1 .. k, c[j] = c[k + i] PROVE FALSE
      <4>1. j \in 1 .. Len(c) /\ j # k + i
        BY <1>5
      <4> QED BY <1>3, <2>1, <3>1, <4>1
    <3> QED BY <3>1
  <2> QED BY <1>1, <1>4, <2>1, <2>2 DEF Live
<1> HIDE DEF A
\* The chains of the two packets.
<1>9. Len(d) = k /\ \A i \in 1 .. k : d[i] = c[i]
  <2>1. Linked(mem', c, k)
    <3>1. \A i \in 1 .. k - 1 : i \in 1 .. k /\ i # k
      BY <1>5
    <3>2. k \in 1 .. k
      BY <1>5
    <3> QED BY <1>7, <3>1, <3>2 DEF Linked
  <2>2. IsChain(mem', d) /\ d[1] = c[1]
    BY <1>2, <1>5, <1>7 DEF Live
  <2> QED BY <1>2, <1>5, <2>1, <2>2, ChainIs
<1> HIDE DEF n, b
<1>10. Len(e) = n /\ \A i \in 1 .. n : e[i] = b[i]
  <2>1. Linked(mem', b, n)
    <3>1. ASSUME NEW i \in 1 .. n - 1 PROVE mem'[b[i]].next = b[i + 1]
      <4>1. i \in 1 .. n /\ i + 1 \in 1 .. n /\ k + i \in 1 .. Len(c) - 1
            /\ k + (i + 1) = (k + i) + 1
        BY <1>5
      <4>2. b[i] = c[k + i] /\ b[i + 1] = c[(k + i) + 1] /\ mem'[b[i]] = mem[b[i]]
        BY <1>5, <1>8, <4>1
      <4> QED BY <1>3, <4>1, <4>2
    <3>2. n \in 1 .. n /\ b[n] = c[Len(c)]
      BY <1>5
    <3> QED BY <1>3, <1>8, <3>1, <3>2 DEF Linked
  <2>2. IsChain(mem', e) /\ e[1] = b[1]
    <3>1. b[1] = r /\ mem'[r] # NULL
      BY <1>5, <1>6, <1>8 DEF Live
    <3>2. IsChain(mem', e) /\ e[1] = r
      BY <1>6, <3>1, BytesNext
    <3> QED BY <3>1, <3>2
  <2> HIDE DEF e
  <2> QED BY <1>2, <1>5, <2>1, <2>2, ChainIs
<1>11. Bytes(p)' = BytesIn(mem, c, k) /\ Bytes(r)' = BytesIn(mem, b, n)
  <2>1. SameRows(mem', mem, d, c, k)
    <3>1. ASSUME NEW i \in 1 .. k PROVE Row(mem', d[i]) = Row(mem, c[i])
      <4>1. d[i] = c[i] /\ mem'[c[i]].len = mem[c[i]].len /\ mem'[c[i]].room = mem[c[i]].room
        BY <1>7, <1>9
      <4> QED BY <4>1 DEF Row
    <3> QED BY <3>1 DEF SameRows
  <2>2. Bytes(p)' = BytesIn(mem, c, k)
    BY <1>2, <1>5, <1>9, <2>1, BytesInSame
  <2>3. SameRows(mem', mem, e, b, n)
    <3>1. ASSUME NEW i \in 1 .. n PROVE Row(mem', e[i]) = Row(mem, b[i])
      <4>1. e[i] = b[i] /\ mem'[b[i]] = mem[b[i]]
        BY <1>8, <1>10
      <4> HIDE DEF e
      <4> QED BY <4>1 DEF Row
    <3> QED BY <3>1 DEF SameRows
  <2>4. Bytes(r)' = BytesIn(mem', e, Len(e))
    BY BytesNext
  <2> HIDE DEF e
  <2> QED BY <1>5, <1>10, <2>2, <2>3, <2>4, BytesInSame
<1>12. Bytes(p)' \o Bytes(r)' = Bytes(p)
  <2>1. \A i \in 1 .. k + n : c[i] \in Live(mem)
    BY <1>3, <1>5
  <2>2. \A i \in 1 .. n : b[i] = c[k + i]
    BY <1>5
  <2>3. BytesIn(mem, c, k + n) = BytesIn(mem, c, k) \o BytesIn(mem, b, n)
    BY <1>2, <1>5, <2>1, <2>2, BytesInJoin
  <2>4. BytesIn(mem, c, k + n) = Bytes(p)
    BY <1>2, <1>5
  <2> QED BY <1>11, <2>3, <2>4, Zenon
\* The total of the first packet is its length.
<1>13. Len(Bytes(p)') = mem'[p].tot_len
  <2>1. LenUpTo(c, k) \in 0 .. U16 - 1
    <3>1. \A i \in 2 .. k : Add16(LenUpTo(c, i - 1), mem[c[i]].len) > LenUpTo(c, i - 1)
      BY <1>1 DEF SplitAt
    <3>2. \A i \in 1 .. k : c[i] \in Live(mem)
      BY <1>3, <1>5
    <3> QED BY <1>2, <1>5, <3>1, <3>2, SplitSum
  <2>2. Len(Bytes(p)') = LenUpTo(c, k)
    <3>1. k \in 0 .. k /\ \A i \in 1 .. k : c[i] \in Live(mem)
      BY <1>3, <1>5
    <3> QED BY <1>2, <1>5, <1>11, <3>1, BytesInType
  <2>3. mem[p].tot_len = Add16(LenUpTo(c, k), mem[r].tot_len)
    <3>1. (k + 1) - 1 = k
      BY <1>5
    <3> QED BY <1>2, <1>5, <1>6, <3>1, TotLenSum
  <2>4. mem'[p].tot_len = Sub16(mem[p].tot_len, mem[r].tot_len)
    BY <1>2, <1>5, <1>7
  <2> DEFINE l == LenUpTo(c, k)
             t == mem[r].tot_len
  <2>5. l \in Int /\ t \in Int /\ l \in 0 .. U16 - 1
    BY <1>6, <2>1, PbufAssumption
  <2>6. Sub16(Add16(l, t), t) = l
    <3> HIDE DEF l, t
    <3>1. Sub16(Add16(l, t), t) = Add16(l, t - t) /\ l + (t - t) = l
      BY <2>5, Add16Facts
    <3> QED BY <2>5, <3>1, ModSmall DEF Add16
  <2> QED BY <2>2, <2>3, <2>4, <2>6
<1> QED
  BY <1>12, <1>13

\* Sequence w begins sequence y.
Begins(w, y) == Len(w) <= Len(y) /\ \A j \in 1 .. Len(w) : w[j] = y[j]

\* What is left of x, y and z, one after the other, when y is cut to w.
Shortened(x, y, z, w) == SubSeq((x \o y) \o z, 1, Len(x) + Len(w)) = x \o w

\* Cutting y short cuts x, y, z there.
LEMMA ShortJoin ==
  ASSUME NEW S, NEW x \in Seq(S), NEW y \in Seq(S), NEW z \in Seq(S), NEW w \in Seq(S),
         Begins(w, y)
  PROVE  Shortened(x, y, z, w)
<1> DEFINE a == (x \o y) \o z
           n == Len(x) + Len(w)
<1>1. /\ Len(x) \in Nat /\ Len(y) \in Nat /\ Len(z) \in Nat /\ Len(w) \in Nat /\ n \in Nat
      /\ Len(w) <= Len(y) /\ \A j \in 1 .. Len(w) : w[j] = y[j]
  BY DEF Begins
<1>2. /\ x \o y \in Seq(S) /\ Len(x \o y) = Len(x) + Len(y)
      /\ \A i \in 1 .. Len(x) + Len(y) :
           (x \o y)[i] = IF i <= Len(x) THEN x[i] ELSE y[i - Len(x)]
  BY ConcatProperties
<1>3. /\ a \in Seq(S) /\ Len(a) = Len(x) + Len(y) + Len(z)
      /\ \A i \in 1 .. Len(x) + Len(y) : a[i] = (x \o y)[i]
  <2> DEFINE v == x \o y
  <2>1. v \in Seq(S) /\ Len(v) = Len(x) + Len(y)
    BY <1>2
  <2> HIDE DEF v
  <2>2. /\ v \o z \in Seq(S) /\ Len(v \o z) = Len(v) + Len(z)
        /\ \A i \in 1 .. Len(v) + Len(z) :
             (v \o z)[i] = IF i <= Len(v) THEN v[i] ELSE z[i - Len(v)]
    <3>1. \A s \in Seq(S) :
            /\ s \o z \in Seq(S) /\ Len(s \o z) = Len(s) + Len(z)
            /\ \A i \in 1 .. Len(s) + Len(z) :
                 (s \o z)[i] = IF i <= Len(s) THEN s[i] ELSE z[i - Len(s)]
      BY ConcatProperties
    <3> QED BY <2>1, <3>1
  <2>3. \A i \in 1 .. Len(v) : i \in 1 .. Len(v) + Len(z) /\ i <= Len(v)
    BY <1>1, <2>1
  <2> QED BY <1>1, <2>1, <2>2, <2>3 DEF v
<1>4. /\ x \o w \in Seq(S) /\ Len(x \o w) = n
      /\ \A i \in 1 .. n : (x \o w)[i] = IF i <= Len(x) THEN x[i] ELSE w[i - Len(x)]
  BY ConcatProperties
<1> HIDE DEF a
<1>5. /\ SubSeq(a, 1, n) \in Seq(S) /\ Len(SubSeq(a, 1, n)) = n
      /\ \A i \in 1 .. n : SubSeq(a, 1, n)[i] = a[i]
  <2>1. n <= Len(a) /\ n \in 0 .. Len(a)
    BY <1>1, <1>3
  <2> HIDE DEF n
  <2> QED BY <1>1, <1>3, <2>1, SubSeqProperties
<1>6. ASSUME NEW i \in 1 .. n PROVE a[i] = (x \o w)[i]
  <2>1. i \in 1 .. Len(x) + Len(y)
    BY <1>1
  <2>2. CASE i <= Len(x)
    BY <1>2, <1>3, <1>4, <2>1, <2>2
  <2>3. CASE ~(i <= Len(x))
    <3>1. i - Len(x) \in 1 .. Len(w)
      BY <1>1, <2>3
    <3>2. a[i] = y[i - Len(x)]
      BY <1>2, <1>3, <2>1, <2>3
    <3>3. (x \o w)[i] = w[i - Len(x)]
      BY <1>4, <2>3
    <3> QED BY <1>1, <3>1, <3>2, <3>3
  <2> QED BY <2>2, <2>3
<1>7. SubSeq(a, 1, n) = x \o w
  <2> DEFINE s == SubSeq(a, 1, n)
             t == x \o w
  <2>1. s \in Seq(S) /\ t \in Seq(S) /\ Len(s) = Len(t) /\ \A i \in 1 .. Len(s) : s[i] = t[i]
    BY <1>4, <1>5, <1>6
  <2> HIDE DEF s, t
  <2>2. s = t
    BY <2>1, SeqEqual
  <2> QED BY <2>2 DEF s, t
<1> QED
  BY <1>7 DEF a, Shortened

\* The front of the chain after pbuf_realloc: c[k] is its last pbuf and holds
\* what is left of new_len.
LEMMA ReallocFront ==
  ASSUME IInv, NEW p \in Used, NEW new_len \in Lengths, pbuf_realloc(p, new_len)
  PROVE  \E k \in 1 .. Len(Chain(p)) :
           /\ new_len - LenUpTo(Chain(p), k - 1) \in 0 .. mem[Chain(p)[k]].len
           /\ \A i \in 1 .. k :
                LET q == Chain(p)[i]
                IN  /\ q \in Live(mem') /\ mem'[q].room = mem[q].room
                    /\ mem'[q].next = IF i = k THEN NULL ELSE Chain(p)[i + 1]
                    /\ mem'[q].len = IF i = k THEN new_len - LenUpTo(Chain(p), k - 1)
                                     ELSE mem[q].len
<1> DEFINE c == Chain(p)
           g == new_len - mem[p].tot_len
<1>1. IsChain(mem, c) /\ Shape(mem) /\ mem \in [Addr -> PbufRecord \cup {NULL}]
  BY PacketFacts, Views, MemType DEF pbuf_realloc, Whole
<1> HIDE DEF c
<1>2. /\ Len(c) \in Nat /\ Len(c) >= 1 /\ c \in Seq(Live(mem))
      /\ (\A i \in 1 .. Len(c) : c[i] \in Live(mem))
      /\ (\A i \in 1 .. Len(c) - 1 : mem[c[i]].next = c[i + 1])
      /\ (\A i, j \in 1 .. Len(c) : c[i] = c[j] => i = j)
      /\ mem[c[Len(c)]].next = NULL
  BY <1>1, ChainParts
<1> DEFINE rem(k) == new_len - LenUpTo(c, k - 1)
           cut(k) ==
             [q \in Addr |->
                IF q \in Range(SubSeq(c, 1, k - 1)) THEN [mem[q] EXCEPT !.tot_len = Add16(@, g)]
                ELSE IF q = c[k]
                  THEN [mem[q] EXCEPT !.len = rem(k), !.tot_len = rem(k), !.next = NULL]
                ELSE mem[q]]
<1>3. PICK k \in 1 .. Len(c) :
        /\ NewLast(c, new_len, k)
        /\ mem' = IF k < Len(c) THEN PbufFree(cut(k), SubSeq(c, k + 1, Len(c))) ELSE cut(k)
  BY DEF pbuf_realloc, c
<1> DEFINE A == {c[i] : i \in 1 .. k - 1}
           n == cut(k)
           r == rem(k)
           d == SubSeq(c, k + 1, Len(c))
<1>4. mem' = IF k < Len(c) THEN PbufFree(n, d) ELSE n
  BY <1>3
<1>5. Range(SubSeq(c, 1, k - 1)) = A
  <2>1. Len(SubSeq(c, 1, k - 1)) = k - 1 /\ \A i \in 1 .. k - 1 : SubSeq(c, 1, k - 1)[i] = c[i]
    BY <1>2, SubSeqProperties
  <2>2. DOMAIN SubSeq(c, 1, k - 1) = 1 .. k - 1
    BY <1>2, <2>1
  <2> QED BY <2>1, <2>2 DEF Range
<1>6. n = [q \in Addr |-> IF q \in A THEN [mem[q] EXCEPT !.tot_len = Add16(@, g)]
                          ELSE IF q = c[k]
                            THEN [mem[q] EXCEPT !.len = r, !.tot_len = r, !.next = NULL]
                          ELSE mem[q]]
  BY <1>5
<1>7. new_len \in Nat /\ g \in Int
  <2>1. new_len \in 0 .. U16 - 1 /\ mem[p].tot_len \in 0 .. U16 - 1
    BY <1>1, Views, LiveRecord, PbufAssumption
  <2> QED BY <2>1, PbufAssumption
<1>8. k \in Nat /\ k >= 1 /\ c[k] \in Live(mem)
  BY <1>2
<1>9. r \in 0 .. mem[c[k]].len /\ mem[c[k]].len \in 0 .. U16 - 1
  <2>1. /\ LenUpTo(c, k) = LenUpTo(c, k - 1) + mem[c[k]].len
        /\ k = 1 => LenUpTo(c, k - 1) = 0
    BY <1>8, LenUpToNext
  <2>2. mem[c[k]].len \in 0 .. U16 - 1
    BY <1>1, <1>8, LiveRecord
  <2>3. LenUpTo(c, k - 1) \in Nat
    <3>1. k - 1 \in 0 .. k /\ \A i \in 1 .. k : c[i] \in Live(mem)
      BY <1>2, <1>8
    <3>2. /\ BytesIn(mem, c, k - 1) \in Seq(Places)
          /\ Len(BytesIn(mem, c, k - 1)) = LenUpTo(c, k - 1)
      BY <1>1, <1>8, <3>1, BytesInType
    <3> DEFINE x == BytesIn(mem, c, k - 1)
    <3> HIDE DEF x
    <3>3. x \in Seq(Places) /\ Len(x) = LenUpTo(c, k - 1)
      BY <3>2 DEF x
    <3> QED BY <3>3
  <2>4. new_len <= LenUpTo(c, k) /\ (k = 1 \/ new_len > LenUpTo(c, k - 1))
    BY <1>3 DEF NewLast
  <2> DEFINE l == LenUpTo(c, k - 1)
             t == mem[c[k]].len
  <2>5. /\ l \in Nat /\ t \in Nat /\ new_len \in Nat /\ new_len <= l + t
        /\ k = 1 => l = 0
        /\ k = 1 \/ new_len > l
    <3>1. t \in Nat
      BY <2>2, PbufAssumption
    <3> QED BY <1>7, <2>1, <2>3, <2>4, <3>1
  <2>6. r = new_len - l
    OBVIOUS
  <2> HIDE DEF l, t, r
  <2>7. r \in 0 .. t
    BY <2>5, <2>6
  <2> QED BY <2>2, <2>7 DEF t
<1> HIDE DEF n, r, g, A
\* The memory after the cut.
<1>10. ASSUME NEW s \in A
       PROVE  /\ n[s] \in PbufRecord /\ n[s].next = mem[s].next
              /\ n[s].len = mem[s].len /\ n[s].room = mem[s].room
  <2>1. s \in Addr /\ mem[s] \in PbufRecord /\ mem[s].tot_len \in Int
    <3>1. s \in Live(mem)
      BY <1>2, <1>8 DEF A
    <3> QED BY <1>1, <3>1, LiveRecord, PbufAssumption
  <2>2. Add16(mem[s].tot_len, g) \in 0 .. U16 - 1
    BY <1>7, <2>1, Add16Facts
  <2>3. n[s] = [mem[s] EXCEPT !.tot_len = Add16(mem[s].tot_len, g)]
    BY <1>6, <2>1
  <2> QED BY <2>1, <2>2, <2>3 DEF PbufRecord
<1>11. /\ n[c[k]] \in PbufRecord /\ n[c[k]].next = NULL
       /\ n[c[k]].len = r /\ n[c[k]].room = mem[c[k]].room
  <2>1. c[k] \notin A
    <3>1. ASSUME NEW i \in 1 .. k - 1, c[i] = c[k] PROVE FALSE
      BY <1>2, <1>8, <3>1
    <3> QED BY <3>1 DEF A
  <2>2. c[k] \in Addr /\ mem[c[k]] \in PbufRecord
    BY <1>1, <1>8, LiveRecord
  <2>3. n[c[k]] = [mem[c[k]] EXCEPT !.len = r, !.tot_len = r, !.next = NULL]
    BY <1>6, <2>1, <2>2
  <2>4. r \in 0 .. U16 - 1
    BY <1>9, PbufAssumption
  <2> QED BY <2>2, <2>3, <2>4 DEF PbufRecord
<1>12. n \in [Addr -> PbufRecord \cup {NULL}] /\ \A s \in Live(mem) : s \in Live(n)
  <2>1. n = [s \in Addr |-> n[s]] /\ \A s \in Addr : s \notin A /\ s # c[k] => n[s] = mem[s]
    BY <1>6
  <2>2. \A s \in Addr : n[s] \in PbufRecord \cup {NULL}
    BY <1>1, <1>10, <1>11, <2>1
  <2>3. \A s \in Addr : mem[s] # NULL => n[s] # NULL
    BY <1>10, <1>11, <2>1, NullAssumption
  <2> QED BY <2>1, <2>2, <2>3 DEF Live
\* The tail that is freed has no pbuf of the front.
<1>13. ASSUME NEW i \in 1 .. k PROVE mem'[c[i]] = n[c[i]] /\ c[i] \in Live(mem')
  <2>1. i \in 1 .. Len(c) /\ c[i] \in Live(mem) /\ c[i] \in Live(n) /\ c[i] \in Addr
    BY <1>2, <1>8, <1>12 DEF Live
  <2>2. CASE k < Len(c)
    <3>1. Len(d) = Len(c) - k /\ \A j \in 1 .. Len(c) - k : d[j] = c[k + j] /\ k + j \in 1 .. Len(c)
      <4>1. /\ \A j \in k + 1 .. Len(c) : c[j] \in Live(mem)
            /\ \A j \in 1 .. Len(c) - k : k + j \in 1 .. Len(c)
            /\ c \in Seq(Live(mem)) /\ Len(c) \in Nat
        BY <1>2, <1>8, <2>2
      <4> QED BY <2>2, <4>1, SubSeqProperties
    <3>2. d \in Seq(Live(n))
      <4>1. d \in Seq(Live(mem))
        BY <1>2, <1>8, <2>2, SubSeqProperties
      <4> HIDE DEF d
      <4> QED BY <1>12, <4>1
    <3>3. c[i] \notin {d[j] : j \in 1 .. Len(d)}
      <4>1. ASSUME NEW j \in 1 .. Len(d), d[j] = c[i] PROVE FALSE
        <5>1. j \in 1 .. Len(c) - k
          BY <3>1
        <5>2. c[k + j] = c[i] /\ k + j \in 1 .. Len(c)
          BY <3>1, <4>1, <5>1
        <5>3. k + j # i
          BY <1>8, <5>1
        <5> QED BY <1>2, <2>1, <5>2, <5>3
      <4> QED BY <4>1
    <3> HIDE DEF d
    <3>4. PbufFree(n, d)[c[i]] = n[c[i]]
      BY <1>12, <2>1, <3>2, <3>3, FreeLeaves
    <3> QED BY <1>4, <2>1, <2>2, <3>4 DEF Live
  <2>3. CASE ~(k < Len(c))
    BY <1>4, <2>1, <2>3
  <2> QED BY <2>2, <2>3
<1>14. ASSUME NEW i \in 1 .. k
       PROVE  /\ c[i] \in Live(mem') /\ mem'[c[i]].room = mem[c[i]].room
              /\ mem'[c[i]].next = IF i = k THEN NULL ELSE c[i + 1]
              /\ mem'[c[i]].len = IF i = k THEN r ELSE mem[c[i]].len
  <2>1. CASE i = k
    BY <1>11, <1>13, <2>1
  <2>2. CASE i # k
    <3>1. c[i] \in A /\ i \in 1 .. Len(c) - 1
      BY <1>2, <1>8, <2>2 DEF A
    <3> QED BY <1>2, <1>10, <1>13, <2>2, <3>1
  <2> QED BY <2>1, <2>2
<1> QED
  BY <1>9, <1>14, Zenon DEF c, r

\* pbuf_realloc keeps the first new_len bytes.
LEMMA BytesRealloc ==
  ASSUME IInv, IInv', NEW p \in Used, NEW new_len \in Lengths, pbuf_realloc(p, new_len)
  PROVE  Bytes(p)' = SubSeq(Bytes(p), 1, new_len)
<1> DEFINE c == Chain(p)
           d == Chain(p)'
<1>1. PICK k \in 1 .. Len(c) :
           /\ new_len - LenUpTo(c, k - 1) \in 0 .. mem[c[k]].len
           /\ \A i \in 1 .. k :
                /\ c[i] \in Live(mem') /\ mem'[c[i]].room = mem[c[i]].room
                /\ mem'[c[i]].next = IF i = k THEN NULL ELSE c[i + 1]
                /\ mem'[c[i]].len = IF i = k THEN new_len - LenUpTo(c, k - 1) ELSE mem[c[i]].len
  BY ReallocFront
<1>2. /\ Bytes(p) = BytesIn(mem, c, Len(c)) /\ Bytes(p)' = BytesIn(mem', d, Len(d))
      /\ IsChain(mem, c) /\ c[1] = p
      /\ mem'[p] # NULL => IsChain(mem', d) /\ d[1] = p
      /\ Shape(mem) /\ Shape(mem')
  BY BytesNext
<1> HIDE DEF c, d
<1>3. /\ Len(c) \in Nat /\ Len(c) >= 1 /\ (\A i \in 1 .. Len(c) : c[i] \in Live(mem))
      /\ k \in Nat /\ k >= 1 /\ k \in 1 .. k /\ 1 \in 1 .. k /\ k \in Nat \ {0}
  BY <1>2, ChainParts
<1> DEFINE r == new_len - LenUpTo(c, k - 1)
           n == Len(c) - k
           b == [i \in 1 .. n |-> c[k + i]]
           x == BytesIn(mem, c, k - 1)
           y == Row(mem, c[k])
           z == BytesIn(mem, b, n)
           w == Row(mem', c[k])
<1>4. Len(d) = k /\ \A i \in 1 .. k : d[i] = c[i]
  <2>1. Linked(mem', c, k)
    <3>1. \A i \in 1 .. k - 1 : i \in 1 .. k /\ i # k
      BY <1>3
    <3> QED BY <1>1, <1>3, <3>1 DEF Linked
  <2>2. IsChain(mem', d) /\ d[1] = c[1]
    BY <1>1, <1>2, <1>3 DEF Live
  <2> QED BY <1>2, <1>3, <2>1, <2>2, ChainIs
\* After: the rows before c[k] are as they were, that of c[k] is w.
<1>5. Bytes(p)' = x \o w
  <2>1. BytesIn(mem', d, k) = Grown(BytesIn(mem', d, k - 1), mem', d[k])
    BY <1>3, BytesInNext
  <2>2. SameRows(mem', mem, d, c, k - 1)
    <3>1. ASSUME NEW i \in 1 .. k - 1 PROVE Row(mem', d[i]) = Row(mem, c[i])
      <4>1. i \in 1 .. k /\ i # k
        BY <1>3
      <4>2. d[i] = c[i] /\ mem'[c[i]].len = mem[c[i]].len /\ mem'[c[i]].room = mem[c[i]].room
        BY <1>1, <1>4, <4>1
      <4> QED BY <4>2 DEF Row
    <3> QED BY <3>1 DEF SameRows
  <2>3. BytesIn(mem', d, k - 1) = BytesIn(mem, c, k - 1)
    BY <1>3, <2>2, BytesInSame
  <2>4. d[k] = c[k] /\ Bytes(p)' = BytesIn(mem', d, k)
    BY <1>2, <1>3, <1>4
  <2> QED BY <2>1, <2>3, <2>4, Zenon DEF Grown
\* Before: x, the row of c[k] and the bytes of the tail.
<1>6. Bytes(p) = (x \o y) \o z
  <2>1. BytesIn(mem, c, k) = x \o y
    <3>1. BytesIn(mem, c, k) = Grown(BytesIn(mem, c, k - 1), mem, c[k])
      BY <1>3, BytesInNext
    <3> QED BY <3>1, Zenon DEF Grown
  <2>2. n \in Nat /\ k + n = Len(c)
    BY <1>3
  <2>4. \A i \in 1 .. n : b[i] = c[k + i]
    BY <1>3
  <2>5. \A i \in 1 .. k + n : c[i] \in Live(mem)
    BY <1>3
  <2> HIDE DEF n, b, r, x, y, z, w
  <2>3. BytesIn(mem, c, k + n) = BytesIn(mem, c, k) \o BytesIn(mem, b, n)
    <3>1. Shape(mem) /\ k \in Nat /\ n \in Nat
      BY <1>2, <1>3, <2>2
    <3> QED BY <2>4, <2>5, <3>1, BytesInJoin
  <2> QED BY <1>2, <2>1, <2>2, <2>3, Zenon DEF z
<1>7. /\ x \in Seq(Places) /\ y \in Seq(Places) /\ z \in Seq(Places) /\ w \in Seq(Places)
      /\ Len(x) = LenUpTo(c, k - 1) /\ Len(y) = mem[c[k]].len /\ Len(w) = r
      /\ \A j \in 1 .. r : w[j] = y[j]
  <2>1. x \in Seq(Places) /\ Len(x) = LenUpTo(c, k - 1)
    <3>1. k - 1 \in 0 .. k /\ \A i \in 1 .. k : c[i] \in Live(mem)
      BY <1>3
    <3> QED BY <1>2, <1>3, <3>1, BytesInType
  <2>2. z \in Seq(Places)
    <3>1. /\ n \in Nat /\ n \in 0 .. n
          /\ \A i \in 1 .. n : b[i] = c[k + i] /\ k + i \in 1 .. Len(c)
      BY <1>3
    <3>2. \A i \in 1 .. n : b[i] \in Live(mem)
      BY <1>3, <3>1
    <3> HIDE DEF n, b
    <3> QED BY <1>2, <3>1, <3>2, BytesInType
  <2>3. /\ c[k] \in Addr /\ mem[c[k]].len \in Nat /\ mem[c[k]].room \in Nat
    BY <1>2, <1>3, LiveRecord, PbufAssumption
  <2>4. /\ y \in Seq(Places) /\ Len(y) = mem[c[k]].len
        /\ \A j \in 1 .. mem[c[k]].len : y[j] = <<c[k], mem[c[k]].room + j>>
    BY <2>3, RowType
  <2>5. mem'[c[k]].len = r /\ mem'[c[k]].room = mem[c[k]].room /\ r \in Nat /\ r <= mem[c[k]].len
    BY <1>1, <1>3, <2>3
  <2>6. /\ w \in Seq(Places) /\ Len(w) = mem'[c[k]].len
        /\ \A j \in 1 .. mem'[c[k]].len : w[j] = <<c[k], mem'[c[k]].room + j>>
    <3>1. mem'[c[k]].len \in Nat /\ mem'[c[k]].room \in Nat
      BY <2>3, <2>5
    <3> QED BY <2>3, <3>1, RowType
  <2>7. \A j \in 1 .. r : j \in 1 .. mem[c[k]].len
    BY <2>3, <2>5
  <2> HIDE DEF w, y, r, x, z
  <2> QED BY <2>1, <2>2, <2>4, <2>5, <2>6, <2>7
<1>8. Len(w) <= Len(y) /\ Len(x) + Len(w) = new_len
  <2>1. Len(x) \in Nat /\ new_len \in Nat /\ mem[c[k]].len \in Nat
    <3>1. new_len \in 0 .. U16 - 1
      BY PbufAssumption
    <3>2. mem[c[k]].len \in Nat
      BY <1>2, <1>3, LiveRecord, PbufAssumption
    <3> HIDE DEF x
    <3> QED BY <1>7, <3>1, <3>2, PbufAssumption
  <2> HIDE DEF w, y, x, z
  <2> QED BY <1>1, <1>7, <2>1
<1> HIDE DEF w, y, x, z, r
<1>9. Shortened(x, y, z, w)
  <2>1. Begins(w, y)
    BY <1>7, <1>8 DEF Begins
  <2>2. x \in Seq(Places) /\ y \in Seq(Places) /\ z \in Seq(Places) /\ w \in Seq(Places)
    BY <1>7
  <2> QED BY <2>1, <2>2, ShortJoin
<1> QED
  BY <1>5, <1>6, <1>8, <1>9, Zenon DEF Shortened

\* pbuf_realloc leaves the first new_len bytes of the packet, pbuf_split_64k two
\* packets that together are the old one, the first as long as its u16_t total
\* says, and pbuf_cat the bytes of both, one after the other.
THEOREM PbufPacketsKept == Spec => PacketsKept
<1> DEFINE Kept(p) ==
      /\ \A n \in Lengths : pbuf_realloc(p, n) => Bytes(p)' = SubSeq(Bytes(p), 1, n)
      /\ pbuf_split_64k(p) =>
           /\ Len(Bytes(p)') = mem'[p].tot_len
           /\ \E r \in Used : Bytes(p)' \o Bytes(r)' = Bytes(p)
      /\ \A t \in Used : pbuf_cat(p, t) => Bytes(p)' = Bytes(p) \o Bytes(t)
<1>1. IInv /\ IInv' /\ [Next]_vars => \A p \in Used : Kept(p)
  <2> SUFFICES ASSUME IInv, IInv', NEW p \in Used PROVE Kept(p)
    OBVIOUS
  <2>1. \A n \in Lengths : pbuf_realloc(p, n) => Bytes(p)' = SubSeq(Bytes(p), 1, n)
    BY BytesRealloc
  <2>2. pbuf_split_64k(p) =>
           /\ Len(Bytes(p)') = mem'[p].tot_len
           /\ \E r \in Used : Bytes(p)' \o Bytes(r)' = Bytes(p)
    BY BytesSplit
  <2>3. \A t \in Used : pbuf_cat(p, t) => Bytes(p)' = Bytes(p) \o Bytes(t)
    BY BytesCat
  <2> QED BY <2>1, <2>2, <2>3
<1> QED
  BY <1>1, Invariant, PTL DEF PacketsKept, Spec
=============================================================================
