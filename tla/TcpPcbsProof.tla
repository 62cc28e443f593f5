---------------------------- MODULE TcpPcbsProof ----------------------------
(***************************************************************************)
(* Proofs about TcpPcbs, for every pool of PCBs and every range of         *)
(* tcp_timer_ctr, and an application that keeps the rules (SafeCalls).     *)
(*                                                                         *)
(* That the lists hold rests on the walk of tcp_slowtmr: it unlinks a PCB  *)
(* right behind prev, and skips PCBs without moving prev.  So no PCB may   *)
(* be skipped once prev is set.  The reason is the order of the list:      *)
(* PCBs with the stamp of this tick come before the others (Ordered),      *)
(* since a new PCB goes to the front with the current stamp, and the walk  *)
(* stamps from the front.                                                  *)
(*                                                                         *)
(* That handles and pointers are valid rests on what tcp_input knows of    *)
(* its PCB at each stage (CurOK).                                          *)
(***************************************************************************)
EXTENDS TcpPcbs, TLAPS

\* The application keeps the rules.
Rules == Allowed \subseteq SafeCalls

\* a comes before b.
Before(s, a, b) == \E i, j \in DOMAIN s : i < j /\ s[i] = a /\ s[j] = b

States == ActiveStates \cup {"FREE", "CLOSED", "TIME_WAIT"}

Holds == {"none", "unread", "refused", "refused_fin"}

Walks == {"slow", "fast"}

\* The stages of tcp_input after tcp_process.
Late == {"events", "sent", "check", "recv", "eof", "closed"}

Stamped(p) == last_timer[p] = tcp_timer_ctr

InList(p) == p \in ToSet(active)

\* Closed with unread data under tcp_input, which frees it when it comes to
\* TF_CLOSED: the one PCB that is in no list.
Doomed(p) ==
  /\ p = cur /\ pc \in {"sent", "check"} /\ "CLOSED" \in events /\ "ABRT" \notin events
  /\ state[p] = "CLOSE_WAIT" /\ p \in rxclosed /\ p \notin owned

Listed(p) ==
  /\ InList(p) => state[p] \in ActiveStates
  /\ state[p] \in ActiveStates => InList(p) \/ Doomed(p)
  /\ p \in tw <=> state[p] = "TIME_WAIT"
  /\ p \in bound => state[p] = "CLOSED" /\ p \in local_port
  /\ state[p] = "CLOSED" => p \in owned
  /\ held[p] # "none" => state[p] \notin {"FREE", "CLOSED", "SYN_SENT", "SYN_RCVD"}

\* A PCB that both sides have closed has lost its owner, at the latest when
\* tcp_input has reported the end of the stream.
Owned(p) ==
  p \in owned =>
    /\ state[p] # "FREE"
    /\ p \in rxclosed =>
         state[p] \in {"CLOSED", "SYN_SENT", "SYN_RCVD", "ESTABLISHED", "CLOSE_WAIT"}
    /\ state[p] \in {"CLOSING", "TIME_WAIT"} => p = cur /\ pc \in Late /\ "FIN" \in events

\* Outside the walks every PCB of the list has the current stamp.
Timed(p) ==
  /\ InList(p) /\ handler \notin Walks => Stamped(p)
  /\ InList(p) /\ p \in served => Stamped(p)

Pcbs == \A p \in PCBS : Listed(p) /\ Owned(p) /\ Timed(p)

\* Which handler runs, and what it keeps, at each pc.
Control ==
  /\ pc \in {"main", "slow", "fast", "timeout"} => cur = NULL /\ events = {}
  /\ pc = "main" => handler = "none"
  /\ pc \in {"slow", "poll", "timeout"} => handler = "slow"
  /\ pc = "fast" => handler = "fast"
  /\ pc \in {"refused", "refused_eof"} => handler \in {"fast", "input"}
  /\ pc \in {"process", "reset", "connected", "accept"} \cup Late => handler = "input"
  /\ "ABRT" \in events => pc \in Callbacks \ {"reset"} /\ cur \notin owned
  /\ "CLOSED" \in events => pc \in {"events", "sent", "check"}

\* What tcp_input knows of its PCB.
CurOK ==
  pc \in {"process"} \cup OfInput \cup Late /\ "ABRT" \notin events =>
    /\ cur \in PCBS /\ (pc \in OfInput => cur \notin freed)
    /\ pc \in {"process"} \cup (OfInput \ Late) => InList(cur)
    /\ pc \in Late => InList(cur) \/ cur \in tw \/ Doomed(cur)
    /\ pc = "reset" => cur \notin owned
    /\ pc \in OfInput \ {"reset"} => state[cur] \notin {"CLOSED", "SYN_SENT", "SYN_RCVD"}
    /\ pc \in {"accept", "connected"} => held[cur] = "none"
    /\ pc \in {"events", "check", "eof"} /\ state[cur] \in {"SYN_SENT", "SYN_RCVD"} => events = {}
    /\ "CLOSED" \in events => (state[cur] = "LAST_ACK" /\ InList(cur)) \/ Doomed(cur)
    /\ pc \in Late /\ "FIN" \in events /\ Refused(cur) =>
         pc = "eof" /\ state[cur] \in {"ESTABLISHED", "CLOSE_WAIT"}

\* The PCBs with the current stamp come first.
Ordered == \A p, q \in PCBS : Before(active, p, q) /\ Stamped(q) => Stamped(p)

\* The walk's pointers, unless the walk will start over.  What lies before pcb
\* is dealt with, and prev, once set, is right before it.
Walk ==
  handler \in Walks /\ (pc \in Walks \/ ~changed) =>
    /\ pcb = NULL \/ InList(pcb)
    /\ prev = NULL \/ InList(prev)
    /\ pcb = NULL => \A p \in PCBS : InList(p) => Stamped(p)
    /\ \A p \in PCBS : Before(active, p, pcb) => Stamped(p)
    /\ prev # NULL => /\ handler = "slow" /\ pcb = NextOf(prev)
                      /\ pcb # NULL => ~Stamped(pcb)

\* TypeOK, in three parts.
Fields ==
  /\ state \in [PCBS -> States] /\ held \in [PCBS -> Holds]
  /\ last_timer \in [PCBS -> 0 .. CtrMod - 1]

Subsets ==
  /\ local_port \subseteq PCBS /\ rxclosed \subseteq PCBS /\ tw \subseteq PCBS
  /\ bound \subseteq PCBS /\ owned \subseteq PCBS /\ freed \subseteq PCBS
  /\ served \subseteq PCBS

Others ==
  /\ tcp_timer_ctr \in 0 .. CtrMod - 1 /\ active \in Seq(PCBS)
  /\ pcb \in PCBS \cup {NULL} /\ prev \in PCBS \cup {NULL} /\ cur \in PCBS \cup {NULL}
  /\ changed \in BOOLEAN
  /\ pc \in Callbacks \cup {"main", "slow", "fast", "assert", "process", "events", "check", "eof"}
  /\ handler \in {"none", "slow", "fast", "input"}
  /\ events \subseteq {"ACKED", "DATA", "FIN", "CLOSED", "ABRT"}

IInv ==
  /\ TypeOK /\ IsInjective(active)
  /\ Pcbs /\ Control /\ CurOK
  /\ Ordered /\ Walk

-----------------------------------------------------------------------------
(***************************************************************************)
(* The active list.                                                        *)
(***************************************************************************)
\* A step on the list: q may be removed or put in front, the others keep their
\* order.
ListStep(q) ==
  /\ active' \in Seq(PCBS) /\ IsInjective(active')
  /\ \A a, b : Before(active', a, b) => b # q /\ (a = q \/ Before(active, a, b))

LEMMA TypeParts == TypeOK <=> Fields /\ Subsets /\ Others
<1>1. PICK S : S = {local_port, rxclosed, tw, bound, owned, freed, served}
  OBVIOUS
<1>2. UNION S \subseteq PCBS <=> Subsets
  <2>1. UNION S \subseteq PCBS <=> \A T \in S : T \subseteq PCBS
    OBVIOUS
  <2>2. QED
    BY <1>1, <2>1 DEF Subsets
<1>3. QED
  BY <1>1, <1>2 DEF TypeOK, Fields, Others, States, Holds

LEMMA BeforeIn ==
  ASSUME NEW a, NEW b, Before(active, a, b)
  PROVE  InList(a) /\ InList(b)
BY DEF Before, InList, ToSet

LEMMA ConcatIs ==
  ASSUME NEW S, NEW s \in Seq(S), NEW u \in Seq(S)
  PROVE  /\ s \o u \in Seq(S) /\ Len(s \o u) = Len(s) + Len(u)
         /\ \A i \in 1 .. Len(s) : (s \o u)[i] = s[i]
         /\ \A i \in 1 .. Len(u) : (s \o u)[Len(s) + i] = u[i]
OBVIOUS

LEMMA WithoutAt ==
  ASSUME active \in Seq(PCBS), IsInjective(active),
         NEW n \in Nat, n = Len(active), NEW k \in 1 .. n, NEW w, w = Without(active[k])
  PROVE  /\ w = SubSeq(active, 1, k - 1) \o SubSeq(active, k + 1, n)
         /\ w \in Seq(PCBS) /\ Len(w) = n - 1
         /\ \A i \in 1 .. n - 1 : w[i] = IF i < k THEN active[i] ELSE active[i + 1]
<1>1. PICK p : p = active[k]
  OBVIOUS
<1>2. PICK c : c = CHOOSE i \in DOMAIN active : active[i] = p
  OBVIOUS
<1>3. w = SubSeq(active, 1, k - 1) \o SubSeq(active, k + 1, n)
  <2>1. c = k
    BY <1>1, <1>2 DEF IsInjective
  <2>2. p \in ToSet(active)
    BY <1>1 DEF ToSet
  <2>3. w = RemoveAt(active, c)
    BY <2>2, <1>1, <1>2 DEF Without
  <2>4. QED
    BY <2>1, <2>3 DEF RemoveAt
<1>4. PICK s, u : s = SubSeq(active, 1, k - 1) /\ u = SubSeq(active, k + 1, n)
  OBVIOUS
<1>5. /\ s \in Seq(PCBS) /\ Len(s) = k - 1 /\ \A i \in 1 .. k - 1 : s[i] = active[i]
  BY <1>4
<1>6. /\ u \in Seq(PCBS) /\ Len(u) = n - k /\ \A i \in 1 .. n - k : u[i] = active[k + i]
  BY <1>4
<1>7. /\ w \in Seq(PCBS) /\ Len(w) = (k - 1) + (n - k)
      /\ \A i \in 1 .. k - 1 : w[i] = s[i]
      /\ \A i \in 1 .. n - k : w[(k - 1) + i] = u[i]
  <2>1. s \in Seq(PCBS) /\ u \in Seq(PCBS) /\ w = s \o u
    BY <1>3, <1>4, <1>5, <1>6
  <2>2. /\ w \in Seq(PCBS) /\ Len(w) = Len(s) + Len(u)
        /\ \A i \in 1 .. Len(s) : w[i] = s[i]
        /\ \A i \in 1 .. Len(u) : w[Len(s) + i] = u[i]
    BY ONLY <2>1, ConcatIs
  <2>3. Len(s) = k - 1 /\ Len(u) = n - k
    BY <1>5, <1>6
  <2>4. QED
    BY ONLY <2>2, <2>3
<1>8. w \in Seq(PCBS) /\ Len(w) = n - 1
  BY <1>7
<1>9. ASSUME NEW i \in 1 .. n - 1
      PROVE  w[i] = IF i < k THEN active[i] ELSE active[i + 1]
  <2>1. CASE i < k
    BY <2>1, <1>7, <1>5
  <2>2. CASE ~(i < k)
    <3>1. PICK j \in 1 .. n - k : (k - 1) + j = i /\ k + j = i + 1
      <4>1. i - (k - 1) \in 1 .. n - k /\ (k - 1) + (i - (k - 1)) = i /\ k + (i - (k - 1)) = i + 1
        BY <2>2
      <4>2. QED
        BY <4>1
    <3>2. w[(k - 1) + j] = u[j] /\ u[j] = active[k + j]
      BY <1>7, <1>6
    <3>3. w[i] = active[i + 1]
      BY <3>1, <3>2
    <3>4. QED
      BY <2>2, <3>3
  <2>3. QED
    BY <2>1, <2>2
<1>10. QED
  BY <1>3, <1>8, <1>9

LEMMA WithoutFacts ==
  ASSUME active \in Seq(PCBS), IsInjective(active), NEW p
  PROVE  /\ Without(p) \in Seq(PCBS) /\ IsInjective(Without(p))
         /\ \A q : q \in ToSet(Without(p)) <=> InList(q) /\ q # p
         /\ \A a, b : Before(Without(p), a, b) => Before(active, a, b)
<1>1. CASE p \notin ToSet(active)
  BY <1>1 DEF Without, InList
<1>2. CASE p \in ToSet(active)
  <2>1. PICK n \in Nat : n = Len(active) /\ DOMAIN active = 1 .. n
    OBVIOUS
  <2>2. PICK k \in 1 .. n : active[k] = p
    BY <1>2, <2>1 DEF ToSet
  <2>3. PICK w : w = Without(p)
    OBVIOUS
  <2>4. w = Without(active[k]) /\ n = Len(active)
    BY <2>1, <2>2, <2>3
  <2>5. /\ w \in Seq(PCBS) /\ Len(w) = n - 1
        /\ \A i \in 1 .. n - 1 : w[i] = IF i < k THEN active[i] ELSE active[i + 1]
    BY <2>4, WithoutAt
  <2>6. /\ DOMAIN w = 1 .. n - 1 /\ DOMAIN active = 1 .. n
        /\ \A i \in 1 .. n : active[i] = p => i = k
    BY <2>2, <2>1, <2>5 DEF IsInjective
  <2>7. PICK f : f = [i \in 1 .. n - 1 |-> IF i < k THEN i ELSE i + 1]
    OBVIOUS
  <2>8. /\ \A i \in 1 .. n - 1 : f[i] \in 1 .. n /\ f[i] # k /\ w[i] = active[f[i]]
        /\ \A i, j \in 1 .. n - 1 : (i < j => f[i] < f[j]) /\ (f[i] = f[j] => i = j)
    BY <2>2, <2>1, <2>5, <2>7
  <2>9. \A i \in 1 .. n : i # k => \E j \in 1 .. n - 1 : w[j] = active[i]
    <3>1. SUFFICES ASSUME NEW i \in 1 .. n, i # k PROVE \E j \in 1 .. n - 1 : w[j] = active[i]
      OBVIOUS
    <3>2. CASE i < k
      BY <3>1, <3>2, <2>2, <2>1, <2>5
    <3>3. CASE i > k
      <4>1. i - 1 \in 1 .. n - 1 /\ ~(i - 1 < k) /\ (i - 1) + 1 = i
        BY <3>1, <3>3, <2>2, <2>1
      <4>2. w[i - 1] = active[i]
        BY <4>1, <2>5
      <4>3. QED
        BY <4>1, <4>2
    <3>4. QED
      BY <3>1, <3>2, <3>3, <2>2, <2>1
  <2>10. IsInjective(w)
    <3>1. SUFFICES ASSUME NEW i \in 1 .. n - 1, NEW j \in 1 .. n - 1, w[i] = w[j]
                   PROVE  i = j
      BY <2>6 DEF IsInjective
    <3>2. active[f[i]] = active[f[j]] /\ f[i] \in 1 .. n /\ f[j] \in 1 .. n
      BY <3>1, <2>8
    <3>3. f[i] = f[j]
      BY <3>2, <2>6 DEF IsInjective
    <3>4. QED
      BY <3>3, <2>8
  <2>11. ASSUME NEW q PROVE q \in ToSet(w) <=> InList(q) /\ q # p
    <3>1. q \in ToSet(w) <=> \E i \in 1 .. n - 1 : w[i] = q
      BY <2>6 DEF ToSet
    <3>2. InList(q) <=> \E i \in 1 .. n : active[i] = q
      BY <2>6 DEF ToSet, InList
    <3>3. ASSUME NEW i \in 1 .. n - 1, w[i] = q PROVE InList(q) /\ q # p
      BY <3>2, <3>3, <2>2, <2>6, <2>8
    <3>4. ASSUME NEW i \in 1 .. n, active[i] = q, q # p PROVE q \in ToSet(w)
      BY <3>1, <3>4, <2>2, <2>9
    <3>5. QED
      BY <3>1, <3>2, <3>3, <3>4
  <2>12. ASSUME NEW a, NEW b, Before(w, a, b) PROVE Before(active, a, b)
    <3>1. PICK i \in 1 .. n - 1, j \in 1 .. n - 1 : i < j /\ w[i] = a /\ w[j] = b
      BY <2>12, <2>6 DEF Before
    <3>2. /\ f[i] \in 1 .. n /\ f[j] \in 1 .. n /\ f[i] < f[j]
          /\ active[f[i]] = a /\ active[f[j]] = b
      BY <3>1, <2>8
    <3>3. QED
      BY <3>2, <2>6 DEF Before
  <2>13. QED
    BY <2>3, <2>5, <2>10, <2>11, <2>12
<1>3. QED
  BY <1>1, <1>2

LEMMA ConsFacts ==
  ASSUME NEW s \in Seq(PCBS), IsInjective(s), NEW p \in PCBS, p \notin ToSet(s)
  PROVE  /\ <<p>> \o s \in Seq(PCBS) /\ IsInjective(<<p>> \o s)
         /\ \A q : q \in ToSet(<<p>> \o s) <=> q \in ToSet(s) \/ q = p
         /\ \A a, b : Before(<<p>> \o s, a, b) => b # p /\ (a = p \/ Before(s, a, b))
<1>0. PICK c : c = <<p>> \o s
  OBVIOUS
<1>1. PICK n \in Nat : c = <<p>> \o s /\ n = Len(s)
  BY <1>0
<1>2. /\ c \in Seq(PCBS) /\ Len(c) = n + 1 /\ c[1] = p
      /\ \A i \in 1 .. n : c[i + 1] = s[i]
      /\ \A i \in 2 .. n + 1 : c[i] = s[i - 1]
  BY <1>1
<1>3. /\ DOMAIN c = 1 .. n + 1 /\ DOMAIN s = 1 .. n
      /\ \A i \in 1 .. n : s[i] # p
  <2>1. DOMAIN c = 1 .. n + 1 /\ DOMAIN s = 1 .. n
    BY <1>1, <1>2
  <2>2. QED
    BY <2>1 DEF ToSet
<1>4. \A i \in 1 .. n + 1 : i = 1 \/ (i \in 2 .. n + 1 /\ i - 1 \in 1 .. n /\ c[i] = s[i - 1])
  BY <1>1, <1>2
<1>5. IsInjective(c)
  <2>1. SUFFICES ASSUME NEW i \in 1 .. n + 1, NEW j \in 1 .. n + 1, c[i] = c[j]
                 PROVE  i = j
    BY <1>3 DEF IsInjective
  <2>2. CASE i = 1 \/ j = 1
    BY <2>1, <2>2, <1>2, <1>3, <1>4
  <2>3. CASE i # 1 /\ j # 1
    <3>1. i - 1 \in 1 .. n /\ j - 1 \in 1 .. n /\ s[i - 1] = s[j - 1]
      BY <2>1, <2>3, <1>4
    <3>2. i - 1 = j - 1
      BY <3>1, <1>3 DEF IsInjective
    <3>3. QED
      BY <3>2, <1>1
  <2>4. QED
    BY <2>2, <2>3
<1>6. ASSUME NEW q PROVE q \in ToSet(c) <=> q \in ToSet(s) \/ q = p
  <2>1. \A i \in 1 .. n : i + 1 \in 1 .. n + 1
    BY <1>1
  <2>2. 1 \in 1 .. n + 1
    BY <1>1
  <2>3. q \in ToSet(c) <=> \E i \in 1 .. n + 1 : c[i] = q
    BY <1>3 DEF ToSet
  <2>4. q \in ToSet(s) <=> \E i \in 1 .. n : s[i] = q
    BY <1>3 DEF ToSet
  <2>5. ASSUME NEW i \in 1 .. n, s[i] = q PROVE q \in ToSet(c)
    BY <2>1, <2>3, <2>5, <1>2
  <2>6. ASSUME NEW i \in 1 .. n + 1, c[i] = q PROVE q \in ToSet(s) \/ q = p
    BY <2>4, <2>6, <1>2, <1>4
  <2>7. QED
    BY <2>2, <2>3, <2>4, <2>5, <2>6, <1>2
<1>7. ASSUME NEW a, NEW b, Before(c, a, b) PROVE b # p /\ (a = p \/ Before(s, a, b))
  <2>1. PICK i \in 1 .. n + 1, j \in 1 .. n + 1 : i < j /\ c[i] = a /\ c[j] = b
    BY <1>7, <1>3 DEF Before
  <2>2. j # 1
    BY <2>1, <1>1
  <2>3. j - 1 \in 1 .. n /\ s[j - 1] = b
    BY <2>1, <2>2, <1>4
  <2>4. CASE i = 1
    BY <2>1, <2>3, <2>4, <1>2, <1>3
  <2>5. CASE i # 1
    <3>1. i - 1 \in 1 .. n /\ s[i - 1] = a /\ i - 1 < j - 1
      BY <2>1, <2>5, <1>1, <1>4
    <3>2. QED
      BY <3>1, <2>3, <1>3 DEF Before
  <2>6. QED
    BY <2>4, <2>5
<1>8. QED
  BY <1>1, <1>2, <1>5, <1>6, <1>7

\* TCP_RMV.
LEMMA RmvList ==
  ASSUME TypeOK, IsInjective(active), NEW p, active' = Without(p)
  PROVE  ListStep(p) /\ \A q : InList(q)' <=> InList(q) /\ q # p
<1>1. active \in Seq(PCBS)
  BY DEF TypeOK
<1>2. PICK w : w = Without(p)
  OBVIOUS
<1>3. /\ w \in Seq(PCBS) /\ IsInjective(w)
      /\ \A q : q \in ToSet(w) <=> InList(q) /\ q # p
      /\ \A a, b : Before(w, a, b) => Before(active, a, b)
  BY <1>1, <1>2, WithoutFacts
<1>4. \A a, b : Before(w, a, b) => b \in ToSet(w)
  BY DEF Before, ToSet
<1>5. active' = w
  BY <1>2
<1>6. \A q : InList(q)' <=> q \in ToSet(w)
  BY <1>5 DEF InList
<1>7. QED
  BY <1>3, <1>4, <1>5, <1>6 DEF ListStep

\* TCP_REG, and the move of a PCB to the front.
LEMMA FrontList ==
  ASSUME TypeOK, IsInjective(active), NEW p \in PCBS,
         \/ active' = <<p>> \o Without(p)
         \/ ~InList(p) /\ active' = <<p>> \o active
  PROVE  ListStep(p) /\ \A q : InList(q)' <=> InList(q) \/ q = p
<1>1. active \in Seq(PCBS)
  BY DEF TypeOK
<1>2. PICK w : /\ active' = <<p>> \o w
               /\ w = Without(p) \/ (~InList(p) /\ w = active)
  OBVIOUS
<1>3. /\ w \in Seq(PCBS) /\ IsInjective(w)
      /\ \A q : q \in ToSet(w) <=> InList(q) /\ q # p
      /\ \A a, b : Before(w, a, b) => Before(active, a, b)
  <2>1. CASE w = Without(p)
    BY <1>1, <2>1, WithoutFacts
  <2>2. CASE ~InList(p) /\ w = active
    BY <1>1, <2>2 DEF InList
  <2>3. QED
    BY <1>2, <2>1, <2>2
<1>4. PICK c : c = <<p>> \o w
  OBVIOUS
<1>5. p \notin ToSet(w)
  BY <1>3
<1>6. /\ c \in Seq(PCBS) /\ IsInjective(c)
      /\ \A q : q \in ToSet(c) <=> q \in ToSet(w) \/ q = p
      /\ \A a, b : Before(c, a, b) => b # p /\ (a = p \/ Before(w, a, b))
  BY <1>3, <1>4, <1>5, ConsFacts
<1>7. active' = c
  BY <1>2, <1>4
<1>8. \A q : InList(q)' <=> q \in ToSet(c)
  BY <1>7 DEF InList
<1>9. QED
  BY <1>3, <1>6, <1>7, <1>8 DEF ListStep

LEMMA SameList ==
  ASSUME TypeOK, IsInjective(active), PcbsAssumption, active' = active
  PROVE  ListStep(NULL) /\ \A q : InList(q)' <=> InList(q)
<1>1. active \in Seq(PCBS) /\ NULL \notin PCBS
  BY DEF TypeOK, PcbsAssumption
<1>2. \A a, b : Before(active, a, b) => b \in PCBS
  BY <1>1 DEF Before
<1>3. \A q : InList(q)' <=> InList(q)
  BY DEF InList
<1>4. QED
  BY <1>1, <1>2, <1>3 DEF ListStep

\* A step that puts only a stamped PCB in front keeps the stamped ones first.
LEMMA OrderStep ==
  ASSUME Ordered, NEW p, ListStep(p), tcp_timer_ctr' = tcp_timer_ctr,
         InList(p)' => Stamped(p)',
         \A q \in PCBS : InList(q)' /\ q # p => last_timer'[q] = last_timer[q]
  PROVE  Ordered'
<1>1. SUFFICES ASSUME NEW a \in PCBS, NEW b \in PCBS, Before(active, a, b)', Stamped(b)'
               PROVE  Stamped(a)'
  BY DEF Ordered
<1>2. InList(a)' /\ InList(b)'
  BY <1>1 DEF Before, InList, ToSet
<1>3. b # p /\ (a = p \/ Before(active, a, b))
  BY <1>1 DEF ListStep, Before
<1>4. CASE a = p
  BY <1>2, <1>4
<1>5. CASE a # p
  <2>1. last_timer'[a] = last_timer[a] /\ last_timer'[b] = last_timer[b]
    BY <1>2, <1>3, <1>5
  <2>2. Stamped(b) /\ Before(active, a, b)
    BY <1>1, <1>3, <1>5, <2>1 DEF Stamped
  <2>3. Stamped(a)
    BY <2>2 DEF Ordered
  <2>4. QED
    BY <2>1, <2>3 DEF Stamped
<1>6. QED
  BY <1>4, <1>5

\* A step outside the walks leaves the walk alone or makes it start over.
LEMMA WalkStep ==
  ASSUME TypeOK, Walk, pc' \notin Walks,
         handler' \in Walks =>
           /\ UNCHANGED <<handler, pcb, prev, tcp_timer_ctr>>
           /\ \/ changed'
              \/ /\ UNCHANGED <<active, changed>>
                 /\ \A q \in PCBS : InList(q) => last_timer'[q] = last_timer[q]
  PROVE  Walk'
<1>1. SUFFICES ASSUME handler' \in Walks, ~changed'
               PROVE  Walk'
  BY DEF Walk
<1>2. /\ UNCHANGED <<handler, pcb, prev, tcp_timer_ctr, active, changed>>
      /\ \A q \in PCBS : InList(q) => last_timer'[q] = last_timer[q]
  BY <1>1
<1>3. handler \in Walks /\ (pc \in Walks \/ ~changed)
  BY <1>1, <1>2
<1>4. /\ pcb = NULL \/ InList(pcb)
      /\ prev = NULL \/ InList(prev)
      /\ pcb = NULL => \A p \in PCBS : InList(p) => Stamped(p)
      /\ \A p \in PCBS : Before(active, p, pcb) => Stamped(p)
      /\ prev # NULL => /\ handler = "slow" /\ pcb = NextOf(prev)
                        /\ pcb # NULL => ~Stamped(pcb)
  BY <1>3 DEF Walk
<1>5. \A p : InList(p)' <=> InList(p)
  BY <1>2 DEF InList
<1>6. \A p \in PCBS : InList(p) => (Stamped(p)' <=> Stamped(p))
  BY <1>2 DEF Stamped
<1>7. /\ (pcb = NULL)' \/ InList(pcb)'
      /\ (prev = NULL)' \/ InList(prev)'
  BY <1>2, <1>4, <1>5 DEF InList
<1>8. \A p : Before(active, p, pcb)' <=> Before(active, p, pcb)
  BY <1>2 DEF Before
<1>9. NextOf(prev)' = NextOf(prev)
  BY <1>2 DEF NextOf
<1>10. pcb # NULL /\ pcb \in PCBS => (Stamped(pcb)' <=> Stamped(pcb))
  <2>1. pcb # NULL => InList(pcb) /\ pcb' = pcb
    BY <1>2, <1>4
  <2>2. QED
    BY <2>1, <1>2, <1>6 DEF Stamped
<1>11. \A p \in PCBS : Before(active, p, pcb)' => Stamped(p)'
  BY <1>4, <1>6, <1>8, BeforeIn
<1>12. \A p \in PCBS : pcb = NULL /\ InList(p)' => Stamped(p)'
  BY <1>4, <1>5, <1>6
<1>13. prev' # NULL => /\ handler' = "slow" /\ pcb' = NextOf(prev)'
                       /\ pcb' # NULL => ~Stamped(pcb)'
  <2>1. pcb # NULL => pcb \in PCBS
    BY DEF TypeOK
  <2>2. QED
    BY <2>1, <1>2, <1>4, <1>9, <1>10
<1>14. QED
  BY <1>2, <1>7, <1>11, <1>12, <1>13 DEF Walk

-----------------------------------------------------------------------------
(***************************************************************************)
(* The API.                                                                *)
(***************************************************************************)
LEMMA CallRules ==
  ASSUME Rules, NEW c, NEW n, <<c, n>> \in Allowed
  PROVE  /\ c \in {"main"} \cup Callbacks
         /\ n # "connect_old"
         /\ n = "new" => c \notin OfInput
         /\ n = "close_unread" => c \notin {"recv", "closed", "refused", "refused_eof"}
         /\ n = "refuse_closing" => c = "main"
<1>1. <<c, n>> \in ({"main"} \cup Callbacks) \X AllCalls /\ <<c, n>> \notin Unsafe
  BY DEF Rules, SafeCalls
<1>2. c \in {"main"} \cup Callbacks
  BY <1>1
<1>3. <<c, n>> \notin ({"main"} \cup Callbacks) \X {"connect_old"}
  BY <1>1 DEF Unsafe
<1>4. <<c, n>> \notin OfInput \X {"new"}
  BY <1>1 DEF Unsafe
<1>5. <<c, n>> \notin {"recv", "closed", "refused", "refused_eof"} \X {"close_unread"}
  BY <1>1 DEF Unsafe
<1>6. <<c, n>> \notin Callbacks \X {"refuse_closing"}
  BY <1>1 DEF Unsafe
<1>7. QED
  BY <1>2, <1>3, <1>4, <1>5, <1>6

LEMMA Parts ==
  ASSUME IInv
  PROVE  /\ TypeOK /\ IsInjective(active) /\ Pcbs /\ Control /\ CurOK /\ Ordered /\ Walk
         /\ NULL \notin PCBS
BY PcbsAssumption DEF IInv

\* A step that leaves the list and its stamps alone.
LEMMA StillOrdered ==
  ASSUME TypeOK, NULL \notin PCBS, IsInjective(active), Ordered,
         UNCHANGED <<active, tcp_timer_ctr>>,
         \A q \in PCBS : InList(q) => last_timer'[q] = last_timer[q]
  PROVE  Ordered'
<1>1. ListStep(NULL) /\ \A q : InList(q)' <=> InList(q)
  BY SameList, PcbsAssumption
<1>2. ~InList(NULL)
  BY DEF InList, ToSet, TypeOK
<1>3. QED
  BY <1>1, <1>2, OrderStep

\* The fields of a PCB that memp_free returns to the pool.
LEMMA FreeFields ==
  ASSUME TypeOK, NEW p \in PCBS, memp_free(p)
  PROVE  /\ \A q \in PCBS : state'[q] = (IF q = p THEN "FREE" ELSE state[q])
         /\ \A q \in PCBS : held'[q] = (IF q = p THEN "none" ELSE held[q])
         /\ \A q \in PCBS : q # p => last_timer'[q] = last_timer[q]
         /\ state' \in [PCBS -> States] /\ held' \in [PCBS -> Holds]
         /\ last_timer' \in [PCBS -> 0 .. CtrMod - 1]
         /\ rxclosed' = rxclosed \ {p} /\ local_port' = local_port \ {p}
<1>1. 0 \in 0 .. CtrMod - 1
  BY PcbsAssumption
<1>2. QED
  BY <1>1 DEF TypeOK, memp_free, SetState, States, Holds

LEMMA StateField ==
  ASSUME TypeOK, NEW p \in PCBS, NEW s \in States, state' = SetState(p, s)
  PROVE  /\ \A q \in PCBS : state'[q] = (IF q = p THEN s ELSE state[q])
         /\ state' \in [PCBS -> States]
BY DEF TypeOK, SetState, States

LEMMA HeldField ==
  ASSUME TypeOK, NEW p \in PCBS, NEW h \in Holds, held' = [held EXCEPT ![p] = h]
  PROVE  /\ \A q \in PCBS : held'[q] = (IF q = p THEN h ELSE held[q])
         /\ held' \in [PCBS -> Holds]
BY DEF TypeOK, Holds

\* A step that leaves the PCB of tcp_input as it is.
LEMMA CurFrame ==
  ASSUME CurOK, UNCHANGED <<pc, cur, events>>,
         pc \in {"process"} \cup OfInput \cup Late /\ "ABRT" \notin events =>
           /\ state'[cur] = state[cur] /\ (InList(cur)' <=> InList(cur))
           /\ held[cur] = "none" => held'[cur] = "none"
           /\ Refused(cur)' => Refused(cur)
           /\ cur \in tw => cur \in tw'
           /\ cur \in owned' => cur \in owned
           /\ cur \in rxclosed => cur \in rxclosed'
           /\ cur \in freed' => cur \in freed
  PROVE  CurOK'
BY DEF CurOK, Doomed

\* The owner closes its direction of the connection in a callback about it.
LEMMA CurCloses ==
  ASSUME CurOK, UNCHANGED <<pc, cur, events>>, pc \in {"main"} \cup Callbacks,
         pc \in {"process"} \cup OfInput \cup Late /\ "ABRT" \notin events =>
           /\ cur \in owned /\ SendsFin(cur) /\ state'[cur] = AfterFin(cur)
           /\ InList(cur)' <=> InList(cur)
           /\ UNCHANGED <<held, tw, freed>>
           /\ cur \in owned' => cur \in owned
           /\ cur \in rxclosed => cur \in rxclosed'
  PROVE  CurOK'
<1>1. pc \notin {"process", "events", "check", "eof"}
  BY DEF Callbacks
<1>2. SUFFICES ASSUME pc \in OfInput \cup Late, "ABRT" \notin events PROVE CurOK'
  BY <1>1 DEF CurOK
<1>3. /\ cur \in owned /\ SendsFin(cur) /\ state'[cur] = AfterFin(cur)
      /\ InList(cur)' <=> InList(cur)
      /\ UNCHANGED <<held, tw, freed>>
      /\ cur \in owned' => cur \in owned
      /\ cur \in rxclosed => cur \in rxclosed'
  BY <1>2
<1>4. ~Doomed(cur) /\ "CLOSED" \notin events
  BY <1>2, <1>3 DEF CurOK, Doomed, SendsFin
<1>5. state'[cur] \in {"LAST_ACK", "FIN_WAIT_1"}
  BY <1>3 DEF AfterFin
<1>6. Refused(cur)' <=> Refused(cur)
  BY <1>3 DEF Refused
<1>7. QED
  BY <1>1, <1>2, <1>3, <1>4, <1>5, <1>6 DEF CurOK

LEMMA BindKeeps ==
  ASSUME IInv, Rules, NEW p \in PCBS, tcp_bind(p)
  PROVE  IInv'
<1>1. /\ TypeOK /\ IsInjective(active) /\ Pcbs /\ Control /\ CurOK /\ Ordered /\ Walk
      /\ NULL \notin PCBS
  BY Parts
<1>2. /\ UNCHANGED <<state, rxclosed, held, last_timer, active, tw, changed, tcp_timer_ctr, pcb, prev, served,
                     pc, handler, cur, events, owned, freed>>
      /\ p \in owned /\ state[p] = "CLOSED"
      /\ local_port' = local_port \cup {p} /\ bound' = bound \cup {p}
      /\ pc \in {"main"} \cup Callbacks
  BY CallRules DEF tcp_bind, Calls, walkVars, runVars
<1>3. ListStep(NULL) /\ \A q : InList(q)' <=> InList(q)
  BY <1>1, <1>2, SameList, PcbsAssumption
<1>4. TypeOK'
  <2>1. Fields /\ Subsets /\ Others
    BY <1>1, TypeParts
  <2>2. Fields'
    BY <2>1, <1>2 DEF Fields
  <2>3. Subsets'
    BY <2>1, <1>2 DEF Subsets
  <2>4. Others'
    BY <2>1, <1>2, <1>3 DEF Others, ListStep
  <2>5. QED
    BY <2>2, <2>3, <2>4, TypeParts, PTL
<1>5. Pcbs'
  <2>1. SUFFICES ASSUME NEW q \in PCBS PROVE (Listed(q) /\ Owned(q) /\ Timed(q))'
    BY DEF Pcbs
  <2>2. Listed(q) /\ Owned(q) /\ Timed(q) /\ Listed(p) /\ Owned(p) /\ Timed(p)
    BY <1>1, <1>2 DEF Pcbs
  <2>3. Listed(q)'
    BY <2>2, <1>1, <1>2, <1>3 DEF Listed, Doomed, ActiveStates
  <2>4. Owned(q)'
    BY <2>2, <1>1, <1>2, <1>3 DEF Owned
  <2>5. Timed(q)'
    BY <2>2, <1>1, <1>2, <1>3 DEF Timed, Stamped
  <2>6. QED
    BY <2>3, <2>4, <2>5
<1>6. Control'
  BY <1>1, <1>2 DEF Control
<1>7. CurOK'
  BY <1>1, <1>2, <1>3 DEF CurOK, Doomed, Refused
<1>8. Ordered'
  BY <1>1, <1>2, StillOrdered
<1>9. Walk'
  BY <1>1, <1>2, WalkStep DEF Callbacks, Walks
<1>10. QED
  BY <1>3, <1>4, <1>5, <1>6, <1>7, <1>8, <1>9 DEF IInv, ListStep

LEMMA ConnectKeeps ==
  ASSUME IInv, Rules, NEW p \in PCBS, tcp_connect(p)
  PROVE  IInv'
<1>1. /\ TypeOK /\ IsInjective(active) /\ Pcbs /\ Control /\ CurOK /\ Ordered /\ Walk
      /\ NULL \notin PCBS
  BY Parts
<1>2. /\ UNCHANGED <<rxclosed, held, last_timer, tw, tcp_timer_ctr, pcb, prev, served, pc, handler, cur,
                     events, owned, freed>>
      /\ p \in owned /\ state[p] = "CLOSED" /\ Stamped(p)
      /\ local_port' = local_port \cup {p} /\ bound' = bound \ {p}
      /\ state' = SetState(p, "SYN_SENT")
      /\ active' = <<p>> \o active /\ changed' = TRUE
      /\ pc \in {"main"} \cup Callbacks
  BY CallRules DEF tcp_connect, Calls, walkVars, runVars, TCP_REG_ACTIVE, Stamped
<1>21. /\ \A q \in PCBS : state'[q] = (IF q = p THEN "SYN_SENT" ELSE state[q])
       /\ state' \in [PCBS -> States]
  BY <1>1, <1>2, StateField DEF States, ActiveStates
<1>20. ~InList(p)
  BY <1>1, <1>2 DEF Pcbs, Listed, ActiveStates
<1>22. pc \in {"process"} \cup OfInput \cup Late /\ "ABRT" \notin events => cur # p
  BY <1>1, <1>2 DEF CurOK, Callbacks, OfInput, Late, Pcbs, Listed, ActiveStates
<1>3. ListStep(p) /\ \A q : InList(q)' <=> InList(q) \/ q = p
  BY <1>1, <1>2, FrontList, <1>20
<1>4. TypeOK'
  <2>1. Fields /\ Subsets /\ Others
    BY <1>1, TypeParts
  <2>2. Fields'
    BY <2>1, <1>2, <1>21 DEF Fields
  <2>3. Subsets'
    BY <2>1, <1>2, <1>21 DEF Subsets
  <2>4. Others'
    BY <2>1, <1>2, <1>3, <1>21 DEF Others, ListStep
  <2>5. QED
    BY <2>2, <2>3, <2>4, TypeParts, PTL
<1>5. Pcbs'
  <2>1. SUFFICES ASSUME NEW q \in PCBS PROVE (Listed(q) /\ Owned(q) /\ Timed(q))'
    BY DEF Pcbs
  <2>2. Listed(q) /\ Owned(q) /\ Timed(q) /\ Listed(p) /\ Owned(p) /\ Timed(p)
    BY <1>1, <1>2 DEF Pcbs
  <2>3. Listed(q)'
    BY <2>2, <1>1, <1>2, <1>3, <1>21 DEF Listed, Doomed, ActiveStates
  <2>4. Owned(q)'
    BY <2>2, <1>1, <1>2, <1>3, <1>21 DEF Owned
  <2>5. Timed(q)'
    BY <2>2, <1>1, <1>2, <1>3, <1>21 DEF Timed, Stamped
  <2>6. QED
    BY <2>3, <2>4, <2>5
<1>6. Control'
  BY <1>1, <1>2, <1>21 DEF Control
<1>7. CurOK'
  BY <1>1, <1>2, <1>3, <1>21, <1>22, CurFrame DEF CurOK, Refused
<1>8. Ordered'
  BY <1>1, <1>2, <1>3, <1>21, OrderStep DEF Stamped
<1>9. Walk'
  BY <1>1, <1>2, <1>21, WalkStep DEF Callbacks, Walks
<1>10. QED
  BY <1>3, <1>4, <1>5, <1>6, <1>7, <1>8, <1>9 DEF IInv, ListStep

LEMMA ConnectFailsKeeps ==
  ASSUME IInv, Rules, NEW p \in PCBS, ConnectFails(p)
  PROVE  IInv'
<1>1. /\ TypeOK /\ IsInjective(active) /\ Pcbs /\ Control /\ CurOK /\ Ordered /\ Walk
      /\ NULL \notin PCBS
  BY Parts
<1>2. /\ UNCHANGED <<state, rxclosed, held, last_timer, active, tw, bound, changed, tcp_timer_ctr, pcb, prev,
                     served, pc, handler, cur, events, owned, freed>>
      /\ local_port' = local_port \cup {p}
      /\ pc \in {"main"} \cup Callbacks
  BY CallRules DEF ConnectFails, Calls, listVars, walkVars, runVars
<1>3. ListStep(NULL) /\ \A q : InList(q)' <=> InList(q)
  BY <1>1, <1>2, SameList, PcbsAssumption
<1>4. TypeOK'
  <2>1. Fields /\ Subsets /\ Others
    BY <1>1, TypeParts
  <2>2. Fields'
    BY <2>1, <1>2 DEF Fields
  <2>3. Subsets'
    BY <2>1, <1>2 DEF Subsets
  <2>4. Others'
    BY <2>1, <1>2, <1>3 DEF Others, ListStep
  <2>5. QED
    BY <2>2, <2>3, <2>4, TypeParts, PTL
<1>5. Pcbs'
  <2>1. SUFFICES ASSUME NEW q \in PCBS PROVE (Listed(q) /\ Owned(q) /\ Timed(q))'
    BY DEF Pcbs
  <2>2. Listed(q) /\ Owned(q) /\ Timed(q) /\ Listed(p) /\ Owned(p) /\ Timed(p)
    BY <1>1, <1>2 DEF Pcbs
  <2>3. Listed(q)'
    BY <2>2, <1>1, <1>2, <1>3 DEF Listed, Doomed, ActiveStates
  <2>4. Owned(q)'
    BY <2>2, <1>1, <1>2, <1>3 DEF Owned
  <2>5. Timed(q)'
    BY <2>2, <1>1, <1>2, <1>3 DEF Timed, Stamped
  <2>6. QED
    BY <2>3, <2>4, <2>5
<1>6. Control'
  BY <1>1, <1>2 DEF Control
<1>7. CurOK'
  BY <1>1, <1>2, <1>3 DEF CurOK, Doomed, Refused
<1>8. Ordered'
  BY <1>1, <1>2, StillOrdered
<1>9. Walk'
  BY <1>1, <1>2, WalkStep DEF Callbacks, Walks
<1>10. QED
  BY <1>3, <1>4, <1>5, <1>6, <1>7, <1>8, <1>9 DEF IInv, ListStep

LEMMA RecvedKeeps ==
  ASSUME IInv, Rules, NEW p \in PCBS, tcp_recved(p)
  PROVE  IInv'
<1>1. /\ TypeOK /\ IsInjective(active) /\ Pcbs /\ Control /\ CurOK /\ Ordered /\ Walk
      /\ NULL \notin PCBS
  BY Parts
<1>2. /\ UNCHANGED <<state, local_port, rxclosed, last_timer, active, tw, bound, changed, tcp_timer_ctr, pcb,
                     prev, served, pc, handler, cur, events, owned, freed>>
      /\ held' = [held EXCEPT ![p] = "none"]
      /\ pc \in {"main"} \cup Callbacks
  BY CallRules DEF tcp_recved, Calls, listVars, walkVars, runVars
<1>21. /\ \A q \in PCBS : held'[q] = (IF q = p THEN "none" ELSE held[q])
       /\ held' \in [PCBS -> Holds]
  BY <1>1, <1>2, HeldField DEF Holds
<1>3. ListStep(NULL) /\ \A q : InList(q)' <=> InList(q)
  BY <1>1, <1>2, SameList, PcbsAssumption
<1>4. TypeOK'
  <2>1. Fields /\ Subsets /\ Others
    BY <1>1, TypeParts
  <2>2. Fields'
    BY <2>1, <1>2, <1>21 DEF Fields
  <2>3. Subsets'
    BY <2>1, <1>2, <1>21 DEF Subsets
  <2>4. Others'
    BY <2>1, <1>2, <1>3, <1>21 DEF Others, ListStep
  <2>5. QED
    BY <2>2, <2>3, <2>4, TypeParts, PTL
<1>5. Pcbs'
  <2>1. SUFFICES ASSUME NEW q \in PCBS PROVE (Listed(q) /\ Owned(q) /\ Timed(q))'
    BY DEF Pcbs
  <2>2. Listed(q) /\ Owned(q) /\ Timed(q) /\ Listed(p) /\ Owned(p) /\ Timed(p)
    BY <1>1, <1>2 DEF Pcbs
  <2>3. Listed(q)'
    BY <2>2, <1>1, <1>2, <1>3, <1>21 DEF Listed, Doomed, ActiveStates
  <2>4. Owned(q)'
    BY <2>2, <1>1, <1>2, <1>3, <1>21 DEF Owned
  <2>5. Timed(q)'
    BY <2>2, <1>1, <1>2, <1>3, <1>21 DEF Timed, Stamped
  <2>6. QED
    BY <2>3, <2>4, <2>5
<1>6. Control'
  BY <1>1, <1>2, <1>21 DEF Control
<1>7. CurOK'
  BY <1>1, <1>2, <1>3, <1>21, CurFrame DEF CurOK, Refused
<1>8. Ordered'
  BY <1>1, <1>2, <1>21, StillOrdered
<1>9. Walk'
  BY <1>1, <1>2, <1>21, WalkStep DEF Callbacks, Walks
<1>10. QED
  BY <1>3, <1>4, <1>5, <1>6, <1>7, <1>8, <1>9 DEF IInv, ListStep

LEMMA ShutdownRxKeeps ==
  ASSUME IInv, Rules, NEW p \in PCBS, ShutdownRx(p)
  PROVE  IInv'
<1>1. /\ TypeOK /\ IsInjective(active) /\ Pcbs /\ Control /\ CurOK /\ Ordered /\ Walk
      /\ NULL \notin PCBS
  BY Parts
<1>2. /\ UNCHANGED <<state, local_port, last_timer, active, tw, bound, changed, tcp_timer_ctr, pcb, prev,
                     served, pc, handler, cur, events, freed>>
      /\ p \in owned /\ rxclosed' = rxclosed \cup {p}
      /\ held' = (IF Refused(p) THEN [held EXCEPT ![p] = "unread"] ELSE held)
      /\ owned' = (IF SendsFin(p) \/ state[p] \in {"CLOSED", "SYN_SENT"} THEN owned ELSE owned \ {p})
      /\ pc \in {"main"} \cup Callbacks
  BY CallRules DEF ShutdownRx, Calls, listVars, walkVars, runVars
<1>21. /\ \A q \in PCBS : held'[q] = (IF q = p /\ Refused(p) THEN "unread" ELSE held[q])
       /\ held' \in [PCBS -> Holds]
  BY <1>1, <1>2 DEF TypeOK, Holds
<1>3. ListStep(NULL) /\ \A q : InList(q)' <=> InList(q)
  BY <1>1, <1>2, SameList, PcbsAssumption
<1>4. TypeOK'
  <2>1. Fields /\ Subsets /\ Others
    BY <1>1, TypeParts
  <2>2. Fields'
    BY <2>1, <1>2, <1>21 DEF Fields
  <2>3. Subsets'
    BY <2>1, <1>2, <1>21 DEF Subsets
  <2>4. Others'
    BY <2>1, <1>2, <1>3, <1>21 DEF Others, ListStep
  <2>5. QED
    BY <2>2, <2>3, <2>4, TypeParts, PTL
<1>5. Pcbs'
  <2>1. SUFFICES ASSUME NEW q \in PCBS PROVE (Listed(q) /\ Owned(q) /\ Timed(q))'
    BY DEF Pcbs
  <2>2. Listed(q) /\ Owned(q) /\ Timed(q) /\ Listed(p) /\ Owned(p) /\ Timed(p)
    BY <1>1, <1>2 DEF Pcbs
  <2>3. Listed(q)'
    BY <2>2, <1>1, <1>2, <1>3, <1>21 DEF Listed, Doomed, ActiveStates, Refused, SendsFin
  <2>4. Owned(q)'
    BY <2>2, <1>1, <1>2, <1>3, <1>21 DEF Owned, Refused, SendsFin
  <2>5. Timed(q)'
    BY <2>2, <1>1, <1>2, <1>3, <1>21 DEF Timed, Stamped
  <2>6. QED
    BY <2>3, <2>4, <2>5
<1>6. Control'
  BY <1>1, <1>2, <1>21 DEF Control
<1>7. CurOK'
  BY <1>1, <1>2, <1>3, <1>21, CurFrame DEF CurOK, Refused
<1>8. Ordered'
  BY <1>1, <1>2, <1>21, StillOrdered
<1>9. Walk'
  BY <1>1, <1>2, <1>21, WalkStep DEF Callbacks, Walks
<1>10. QED
  BY <1>3, <1>4, <1>5, <1>6, <1>7, <1>8, <1>9 DEF IInv, ListStep

LEMMA ShutdownTxKeeps ==
  ASSUME IInv, Rules, NEW p \in PCBS, ShutdownTx(p)
  PROVE  IInv'
<1>1. /\ TypeOK /\ IsInjective(active) /\ Pcbs /\ Control /\ CurOK /\ Ordered /\ Walk
      /\ NULL \notin PCBS
  BY Parts
<1>2. /\ UNCHANGED <<local_port, rxclosed, held, last_timer, active, tw, bound, changed, tcp_timer_ctr, pcb,
                     prev, served, pc, handler, cur, events, freed>>
      /\ p \in owned /\ SendsFin(p) /\ state' = SetState(p, AfterFin(p))
      /\ owned' = (IF p \in rxclosed THEN owned \ {p} ELSE owned)
      /\ pc \in {"main"} \cup Callbacks
  BY CallRules DEF ShutdownTx, Calls, listVars, walkVars, runVars
<1>21. /\ \A q \in PCBS : state'[q] = (IF q = p THEN AfterFin(p) ELSE state[q])
       /\ state' \in [PCBS -> States]
  BY <1>1, <1>2, StateField DEF States, ActiveStates, AfterFin
<1>3. ListStep(NULL) /\ \A q : InList(q)' <=> InList(q)
  BY <1>1, <1>2, SameList, PcbsAssumption
<1>4. TypeOK'
  <2>1. Fields /\ Subsets /\ Others
    BY <1>1, TypeParts
  <2>2. Fields'
    BY <2>1, <1>2, <1>21 DEF Fields
  <2>3. Subsets'
    BY <2>1, <1>2, <1>21 DEF Subsets
  <2>4. Others'
    BY <2>1, <1>2, <1>3, <1>21 DEF Others, ListStep
  <2>5. QED
    BY <2>2, <2>3, <2>4, TypeParts, PTL
<1>5. Pcbs'
  <2>1. SUFFICES ASSUME NEW q \in PCBS PROVE (Listed(q) /\ Owned(q) /\ Timed(q))'
    BY DEF Pcbs
  <2>2. Listed(q) /\ Owned(q) /\ Timed(q) /\ Listed(p) /\ Owned(p) /\ Timed(p)
    BY <1>1, <1>2 DEF Pcbs
  <2>3. Listed(q)'
    BY <2>2, <1>1, <1>2, <1>3, <1>21 DEF Listed, Doomed, ActiveStates, AfterFin, SendsFin
  <2>4. Owned(q)'
    BY <2>2, <1>1, <1>2, <1>3, <1>21 DEF Owned, AfterFin, SendsFin
  <2>5. Timed(q)'
    BY <2>2, <1>1, <1>2, <1>3, <1>21 DEF Timed, Stamped
  <2>6. QED
    BY <2>3, <2>4, <2>5
<1>6. Control'
  BY <1>1, <1>2, <1>21 DEF Control
<1>7. CurOK'
  <2>1. CASE cur # p
    BY <2>1, <1>1, <1>2, <1>3, <1>21, CurFrame DEF CurOK, Refused
  <2>2. CASE cur = p
    BY <2>2, <1>1, <1>2, <1>3, <1>21, CurCloses
  <2>3. QED
    BY <2>1, <2>2
<1>8. Ordered'
  BY <1>1, <1>2, <1>21, StillOrdered
<1>9. Walk'
  BY <1>1, <1>2, <1>21, WalkStep DEF Callbacks, Walks
<1>10. QED
  BY <1>3, <1>4, <1>5, <1>6, <1>7, <1>8, <1>9 DEF IInv, ListStep

LEMMA CloseConnectedKeeps ==
  ASSUME IInv, Rules, NEW p \in PCBS, CloseConnected(p)
  PROVE  IInv'
<1>1. /\ TypeOK /\ IsInjective(active) /\ Pcbs /\ Control /\ CurOK /\ Ordered /\ Walk
      /\ NULL \notin PCBS
  BY Parts
<1>2. /\ UNCHANGED <<local_port, held, last_timer, active, tw, bound, changed, tcp_timer_ctr, pcb, prev,
                     served, pc, handler, cur, events, freed>>
      /\ p \in owned /\ rxclosed' = rxclosed \cup {p} /\ state[p] \notin {"CLOSED", "SYN_SENT"}
      /\ \/ SendsFin(p) /\ UNCHANGED <<state, owned>>
         \/ /\ state' = (IF SendsFin(p) THEN SetState(p, AfterFin(p)) ELSE state)
            /\ owned' = owned \ {p}
      /\ pc \in {"main"} \cup Callbacks
  BY CallRules DEF CloseConnected, Calls, listVars, walkVars, runVars
<1>21. /\ state' \in [PCBS -> States]
       /\ \A q \in PCBS : q # p => state'[q] = state[q]
       /\ state'[p] = state[p] \/ (SendsFin(p) /\ state'[p] = AfterFin(p))
       /\ p \in owned' => SendsFin(p) /\ state'[p] = state[p]
  BY <1>1, <1>2 DEF TypeOK, States, SetState, AfterFin, ActiveStates
<1>3. ListStep(NULL) /\ \A q : InList(q)' <=> InList(q)
  BY <1>1, <1>2, SameList, PcbsAssumption
<1>4. TypeOK'
  <2>1. Fields /\ Subsets /\ Others
    BY <1>1, TypeParts
  <2>2. Fields'
    BY <2>1, <1>2, <1>21 DEF Fields
  <2>3. Subsets'
    BY <2>1, <1>2, <1>21 DEF Subsets
  <2>4. Others'
    BY <2>1, <1>2, <1>3, <1>21 DEF Others, ListStep
  <2>5. QED
    BY <2>2, <2>3, <2>4, TypeParts, PTL
<1>5. Pcbs'
  <2>1. SUFFICES ASSUME NEW q \in PCBS PROVE (Listed(q) /\ Owned(q) /\ Timed(q))'
    BY DEF Pcbs
  <2>2. Listed(q) /\ Owned(q) /\ Timed(q) /\ Listed(p) /\ Owned(p) /\ Timed(p)
    BY <1>1, <1>2 DEF Pcbs
  <2>3. Listed(q)'
    BY <2>2, <1>1, <1>2, <1>3, <1>21 DEF Listed, Doomed, ActiveStates, AfterFin, SendsFin
  <2>4. Owned(q)'
    BY <2>2, <1>1, <1>2, <1>3, <1>21 DEF Owned, AfterFin, SendsFin
  <2>5. Timed(q)'
    BY <2>2, <1>1, <1>2, <1>3, <1>21 DEF Timed, Stamped
  <2>6. QED
    BY <2>3, <2>4, <2>5
<1>6. Control'
  BY <1>1, <1>2, <1>21 DEF Control
<1>7. CurOK'
  <2>1. CASE cur # p
    BY <2>1, <1>1, <1>2, <1>3, <1>21, CurFrame DEF CurOK, Refused
  <2>2. CASE cur = p /\ SendsFin(p) /\ state'[p] = AfterFin(p)
    BY <2>2, <1>1, <1>2, <1>3, <1>21, CurCloses
  <2>3. CASE cur = p /\ state'[p] = state[p]
    BY <2>3, <1>1, <1>2, <1>3, <1>21, CurFrame DEF CurOK, Refused
  <2>4. QED
    BY <2>1, <2>2, <2>3, <1>21
<1>8. Ordered'
  BY <1>1, <1>2, <1>21, StillOrdered
<1>9. Walk'
  BY <1>1, <1>2, <1>21, WalkStep DEF Callbacks, Walks
<1>10. QED
  BY <1>3, <1>4, <1>5, <1>6, <1>7, <1>8, <1>9 DEF IInv, ListStep

LEMMA CloseUnconnectedKeeps ==
  ASSUME IInv, Rules, NEW p \in PCBS, CloseUnconnected(p)
  PROVE  IInv'
<1>1. /\ TypeOK /\ IsInjective(active) /\ Pcbs /\ Control /\ CurOK /\ Ordered /\ Walk
      /\ NULL \notin PCBS
  BY Parts
<1>2. /\ UNCHANGED <<tw, tcp_timer_ctr, pcb, prev, served, pc, handler, cur, events>>
      /\ p \in owned /\ state[p] \in {"CLOSED", "SYN_SENT"}
      /\ memp_free(p) /\ freed' \subseteq freed \cup {p}
      /\ bound' = bound \ {p} /\ owned' = owned \ {p}
      /\ active' = Without(p)
      /\ changed' = TRUE \/ (UNCHANGED <<active, changed>> /\ ~InList(p))
      /\ pc \in {"main"} \cup Callbacks
  <2>1. Listed(p)
    BY <1>1 DEF Pcbs
  <2>2. state[p] = "CLOSED" => ~InList(p)
    BY <2>1 DEF Listed, ActiveStates
  <2>3. ~InList(p) => Without(p) = active
    BY DEF InList, Without
  <2>4. QED
    BY <2>2, <2>3, CallRules DEF CloseUnconnected, CloseFree, Free, Calls, walkVars, runVars,
                               TCP_RMV_ACTIVE
<1>21. /\ \A q \in PCBS : state'[q] = (IF q = p THEN "FREE" ELSE state[q])
       /\ \A q \in PCBS : held'[q] = (IF q = p THEN "none" ELSE held[q])
       /\ \A q \in PCBS : q # p => last_timer'[q] = last_timer[q]
       /\ state' \in [PCBS -> States] /\ held' \in [PCBS -> Holds]
       /\ last_timer' \in [PCBS -> 0 .. CtrMod - 1]
       /\ rxclosed' = rxclosed \ {p} /\ local_port' = local_port \ {p}
  BY <1>1, <1>2, FreeFields
<1>22. pc \in {"process"} \cup OfInput \cup Late /\ "ABRT" \notin events => cur # p
  BY <1>1, <1>2 DEF CurOK, Callbacks, OfInput, Late
<1>3. ListStep(p) /\ \A q : InList(q)' <=> InList(q) /\ q # p
  BY <1>1, <1>2, RmvList
<1>4. TypeOK'
  <2>1. Fields /\ Subsets /\ Others
    BY <1>1, TypeParts
  <2>2. Fields'
    BY <2>1, <1>2, <1>21 DEF Fields
  <2>3. Subsets'
    BY <2>1, <1>2, <1>21 DEF Subsets
  <2>4. Others'
    BY <2>1, <1>2, <1>3, <1>21 DEF Others, ListStep
  <2>5. QED
    BY <2>2, <2>3, <2>4, TypeParts, PTL
<1>5. Pcbs'
  <2>1. SUFFICES ASSUME NEW q \in PCBS PROVE (Listed(q) /\ Owned(q) /\ Timed(q))'
    BY DEF Pcbs
  <2>2. Listed(q) /\ Owned(q) /\ Timed(q) /\ Listed(p) /\ Owned(p) /\ Timed(p)
    BY <1>1, <1>2 DEF Pcbs
  <2>3. Listed(q)'
    BY <2>2, <1>1, <1>2, <1>3, <1>21 DEF Listed, Doomed, ActiveStates
  <2>4. Owned(q)'
    BY <2>2, <1>1, <1>2, <1>3, <1>21 DEF Owned
  <2>5. Timed(q)'
    BY <2>2, <1>1, <1>2, <1>3, <1>21 DEF Timed, Stamped
  <2>6. QED
    BY <2>3, <2>4, <2>5
<1>6. Control'
  BY <1>1, <1>2, <1>21 DEF Control
<1>7. CurOK'
  BY <1>1, <1>2, <1>3, <1>21, <1>22, CurFrame DEF CurOK, Refused
<1>8. Ordered'
  BY <1>1, <1>2, <1>3, <1>21, OrderStep
<1>9. Walk'
  BY <1>1, <1>2, <1>21, WalkStep DEF Callbacks, Walks
<1>10. QED
  BY <1>3, <1>4, <1>5, <1>6, <1>7, <1>8, <1>9 DEF IInv, ListStep

LEMMA AbortKeeps ==
  ASSUME IInv, Rules, NEW p \in PCBS, tcp_abort(p)
  PROVE  IInv'
<1>1. /\ TypeOK /\ IsInjective(active) /\ Pcbs /\ Control /\ CurOK /\ Ordered /\ Walk
      /\ NULL \notin PCBS
  BY Parts
<1>2. /\ UNCHANGED <<tcp_timer_ctr, pcb, prev, served, pc, handler, cur>>
      /\ p \in owned /\ ~Aborted
      /\ memp_free(p) /\ freed' \subseteq freed \cup {p}
      /\ tw' = tw \ {p} /\ bound' = bound \ {p} /\ owned' = owned \ {p}
      /\ active' = Without(p)
      /\ changed' = TRUE \/ (UNCHANGED <<active, changed>> /\ ~InList(p))
      /\ events' = (IF p = cur THEN events \cup {"ABRT"} ELSE events)
      /\ pc \in {"main"} \cup Callbacks
  <2>1. Listed(p)
    BY <1>1 DEF Pcbs
  <2>2. p \in tw \/ state[p] = "CLOSED" => ~InList(p)
    BY <2>1 DEF Listed, ActiveStates
  <2>3. ~InList(p) => Without(p) = active
    BY DEF InList, Without
  <2>4. QED
    BY <2>2, <2>3, CallRules DEF tcp_abort, OffLists, Free, Calls, walkVars, TCP_RMV_ACTIVE
<1>21. /\ \A q \in PCBS : state'[q] = (IF q = p THEN "FREE" ELSE state[q])
       /\ \A q \in PCBS : held'[q] = (IF q = p THEN "none" ELSE held[q])
       /\ \A q \in PCBS : q # p => last_timer'[q] = last_timer[q]
       /\ state' \in [PCBS -> States] /\ held' \in [PCBS -> Holds]
       /\ last_timer' \in [PCBS -> 0 .. CtrMod - 1]
       /\ rxclosed' = rxclosed \ {p} /\ local_port' = local_port \ {p}
  BY <1>1, <1>2, FreeFields
<1>3. ListStep(p) /\ \A q : InList(q)' <=> InList(q) /\ q # p
  BY <1>1, <1>2, RmvList
<1>4. TypeOK'
  <2>1. Fields /\ Subsets /\ Others
    BY <1>1, TypeParts
  <2>2. Fields'
    BY <2>1, <1>2, <1>21 DEF Fields
  <2>3. Subsets'
    BY <2>1, <1>2, <1>21 DEF Subsets
  <2>4. Others'
    BY <2>1, <1>2, <1>3, <1>21 DEF Others, ListStep
  <2>5. QED
    BY <2>2, <2>3, <2>4, TypeParts, PTL
<1>5. Pcbs'
  <2>1. SUFFICES ASSUME NEW q \in PCBS PROVE (Listed(q) /\ Owned(q) /\ Timed(q))'
    BY DEF Pcbs
  <2>2. Listed(q) /\ Owned(q) /\ Timed(q) /\ Listed(p) /\ Owned(p) /\ Timed(p)
    BY <1>1, <1>2 DEF Pcbs
  <2>3. Listed(q)'
    BY <2>2, <1>1, <1>2, <1>3, <1>21 DEF Listed, Doomed, ActiveStates
  <2>4. Owned(q)'
    BY <2>2, <1>1, <1>2, <1>3, <1>21 DEF Owned
  <2>5. Timed(q)'
    BY <2>2, <1>1, <1>2, <1>3, <1>21 DEF Timed, Stamped
  <2>6. QED
    BY <2>3, <2>4, <2>5
<1>6. Control'
  BY <1>1, <1>2 DEF Control, Callbacks, Aborted, CurOK, OfInput, Late
<1>7. CurOK'
  <2>1. CASE p = cur
    BY <2>1, <1>2 DEF CurOK
  <2>2. CASE p # cur
    BY <2>2, <1>1, <1>2, <1>3, <1>21, CurFrame DEF CurOK, Refused
  <2>3. QED
    BY <2>1, <2>2
<1>8. Ordered'
  BY <1>1, <1>2, <1>3, <1>21, OrderStep
<1>9. Walk'
  BY <1>1, <1>2, <1>21, WalkStep DEF Callbacks, Walks
<1>10. QED
  BY <1>3, <1>4, <1>5, <1>6, <1>7, <1>8, <1>9 DEF IInv, ListStep

\* tcp_new returns p.
NewPcb(p) ==
  /\ Calls("new")
  /\ tcp_alloc(p, "CLOSED")
  /\ local_port' = local_port \ {p}
  /\ IF p \in ToSet(active) THEN TCP_RMV_ACTIVE(p) ELSE UNCHANGED <<active, changed>>
  /\ owned' = owned \cup {p}
  /\ UNCHANGED <<bound, walkVars, runVars>>

LEMMA NewKeeps ==
  ASSUME IInv, Rules, NEW p \in PCBS, NewPcb(p)
  PROVE  IInv'
<1>1. /\ TypeOK /\ IsInjective(active) /\ Pcbs /\ Control /\ CurOK /\ Ordered /\ Walk
      /\ NULL \notin PCBS
  BY Parts
<1>2. /\ UNCHANGED <<bound, tcp_timer_ctr, pcb, prev, served, pc, handler, cur, events>>
      /\ state[p] = "FREE" \/ p \in tw \/ InList(p)
      /\ state' = SetState(p, "CLOSED") /\ held' = [held EXCEPT ![p] = "none"]
      /\ last_timer' = [last_timer EXCEPT ![p] = tcp_timer_ctr]
      /\ rxclosed' = rxclosed \ {p} /\ local_port' = local_port \ {p}
      /\ tw' = tw \ {p} /\ owned' = owned \cup {p}
      /\ freed' \subseteq freed \cup {p}
      /\ active' = Without(p)
      /\ changed' = TRUE \/ (UNCHANGED <<active, changed>> /\ ~InList(p))
      /\ pc \in {"main", "poll", "timeout"} /\ ~Aborted
  <2>1. ~InList(p) => Without(p) = active
    BY DEF InList, Without
  <2>2. state[p] = "FREE" \/ p \in tw \/ InList(p)
    BY DEF NewPcb, tcp_alloc, InState, Victims, InList
  <2>3. pc \in {"main", "poll", "timeout"} /\ ~Aborted
    BY CallRules DEF NewPcb, Calls, OfInput
  <2>4. QED
    BY <2>1, <2>2, <2>3 DEF NewPcb, tcp_alloc, InList, walkVars, runVars, TCP_RMV_ACTIVE
<1>21. /\ \A q \in PCBS : state'[q] = (IF q = p THEN "CLOSED" ELSE state[q])
       /\ \A q \in PCBS : held'[q] = (IF q = p THEN "none" ELSE held[q])
       /\ \A q \in PCBS : q # p => last_timer'[q] = last_timer[q]
       /\ state' \in [PCBS -> States] /\ held' \in [PCBS -> Holds]
       /\ last_timer' \in [PCBS -> 0 .. CtrMod - 1]
  <2>1. tcp_timer_ctr \in 0 .. CtrMod - 1
    BY <1>1 DEF TypeOK
  <2>2. last_timer \in [PCBS -> 0 .. CtrMod - 1]
    BY <1>1 DEF TypeOK
  <2>3. /\ \A q \in PCBS : state'[q] = (IF q = p THEN "CLOSED" ELSE state[q])
        /\ state' \in [PCBS -> States]
    BY <1>1, <1>2, StateField DEF States
  <2>4. /\ \A q \in PCBS : held'[q] = (IF q = p THEN "none" ELSE held[q])
        /\ held' \in [PCBS -> Holds]
    BY <1>1, <1>2, HeldField DEF Holds
  <2>5. /\ \A q \in PCBS : q # p => last_timer'[q] = last_timer[q]
        /\ last_timer' \in [PCBS -> 0 .. CtrMod - 1]
    BY <2>1, <2>2, <1>2
  <2>6. QED
    BY <2>3, <2>4, <2>5
<1>3. ListStep(p) /\ \A q : InList(q)' <=> InList(q) /\ q # p
  BY <1>1, <1>2, RmvList
<1>4. TypeOK'
  <2>1. Fields /\ Subsets /\ Others
    BY <1>1, TypeParts
  <2>2. Fields'
    BY <2>1, <1>2, <1>21 DEF Fields
  <2>3. Subsets'
    BY <2>1, <1>2, <1>21 DEF Subsets
  <2>4. Others'
    BY <2>1, <1>2, <1>3, <1>21 DEF Others, ListStep
  <2>5. QED
    BY <2>2, <2>3, <2>4, TypeParts, PTL
<1>5. Pcbs'
  <2>1. SUFFICES ASSUME NEW q \in PCBS PROVE (Listed(q) /\ Owned(q) /\ Timed(q))'
    BY DEF Pcbs
  <2>2. Listed(q) /\ Owned(q) /\ Timed(q) /\ Listed(p) /\ Owned(p) /\ Timed(p)
    BY <1>1, <1>2 DEF Pcbs
  <2>3. Listed(q)'
    BY <2>2, <1>1, <1>2, <1>3, <1>21 DEF Listed, Doomed, ActiveStates
  <2>4. Owned(q)'
    BY <2>2, <1>1, <1>2, <1>3, <1>21 DEF Owned
  <2>5. Timed(q)'
    BY <2>2, <1>1, <1>2, <1>3, <1>21 DEF Timed, Stamped
  <2>6. QED
    BY <2>3, <2>4, <2>5
<1>6. Control'
  BY <1>1, <1>2 DEF Control, Callbacks, Aborted
<1>7. CurOK'
  <2>1. pc \notin {"process"} \cup OfInput \cup Late
    BY <1>2 DEF OfInput, Late, Callbacks
  <2>2. QED
    BY <2>1, <1>2 DEF CurOK
<1>8. Ordered'
  BY <1>1, <1>2, <1>3, <1>21, OrderStep
<1>9. Walk'
  BY <1>1, <1>2, <1>21, WalkStep DEF Callbacks, Walks
<1>10. QED
  BY <1>3, <1>4, <1>5, <1>6, <1>7, <1>8, <1>9 DEF IInv, ListStep

\* tcp_close with unread data: TIME_WAIT,
LEMMA UnreadTimeWait ==
  ASSUME IInv, Rules, NEW p \in PCBS, CloseUnread(p), state[p] = "ESTABLISHED"
  PROVE  IInv'
<1>1. /\ TypeOK /\ IsInjective(active) /\ Pcbs /\ Control /\ CurOK /\ Ordered /\ Walk
      /\ NULL \notin PCBS
  BY Parts
<1>2. /\ UNCHANGED <<local_port, last_timer, bound, tcp_timer_ctr, pcb, prev, served, pc, handler, cur, events,
                     freed>>
      /\ p \in owned /\ Unread(p) /\ state[p] = "ESTABLISHED"
      /\ state' = SetState(p, "TIME_WAIT") /\ held' = [held EXCEPT ![p] = "none"]
      /\ rxclosed' = rxclosed \cup {p} /\ tw' = tw \cup {p} /\ owned' = owned \ {p}
      /\ active' = Without(p) /\ changed' = TRUE
      /\ pc \in {"main"} \cup Callbacks /\ pc \notin {"recv", "closed", "refused", "refused_eof"}
  BY CallRules DEF CloseUnread, Calls, walkVars, ToTimeWait, TCP_RMV_ACTIVE
<1>21. /\ \A q \in PCBS : state'[q] = (IF q = p THEN "TIME_WAIT" ELSE state[q])
       /\ \A q \in PCBS : held'[q] = (IF q = p THEN "none" ELSE held[q])
       /\ state' \in [PCBS -> States] /\ held' \in [PCBS -> Holds]
  <2>1. /\ \A q \in PCBS : state'[q] = (IF q = p THEN "TIME_WAIT" ELSE state[q])
        /\ state' \in [PCBS -> States]
    BY <1>1, <1>2, StateField DEF States
  <2>2. /\ \A q \in PCBS : held'[q] = (IF q = p THEN "none" ELSE held[q])
        /\ held' \in [PCBS -> Holds]
    BY <1>1, <1>2, HeldField DEF Holds
  <2>3. QED
    BY <2>1, <2>2
<1>22. pc \in {"process"} \cup OfInput \cup Late /\ "ABRT" \notin events /\ cur = p => pc = "sent"
  BY <1>1, <1>2 DEF CurOK, Callbacks, OfInput, Late, Unread
<1>3. ListStep(p) /\ \A q : InList(q)' <=> InList(q) /\ q # p
  BY <1>1, <1>2, RmvList
<1>4. TypeOK'
  <2>1. Fields /\ Subsets /\ Others
    BY <1>1, TypeParts
  <2>2. Fields'
    BY <2>1, <1>2, <1>21 DEF Fields
  <2>3. Subsets'
    BY <2>1, <1>2, <1>21 DEF Subsets
  <2>4. Others'
    BY <2>1, <1>2, <1>3, <1>21 DEF Others, ListStep
  <2>5. QED
    BY <2>2, <2>3, <2>4, TypeParts, PTL
<1>5. Pcbs'
  <2>1. SUFFICES ASSUME NEW q \in PCBS PROVE (Listed(q) /\ Owned(q) /\ Timed(q))'
    BY DEF Pcbs
  <2>2. Listed(q) /\ Owned(q) /\ Timed(q) /\ Listed(p) /\ Owned(p) /\ Timed(p)
    BY <1>1, <1>2 DEF Pcbs
  <2>3. Listed(q)'
    BY <2>2, <1>1, <1>2, <1>3, <1>21 DEF Listed, Doomed, ActiveStates
  <2>4. Owned(q)'
    BY <2>2, <1>1, <1>2, <1>3, <1>21 DEF Owned
  <2>5. Timed(q)'
    BY <2>2, <1>1, <1>2, <1>3, <1>21 DEF Timed, Stamped
  <2>6. QED
    BY <2>3, <2>4, <2>5
<1>6. Control'
  BY <1>1, <1>2, <1>21 DEF Control
<1>7. CurOK'
  <2>1. CASE cur # p
    BY <2>1, <1>1, <1>2, <1>3, <1>21, CurFrame DEF CurOK, Refused
  <2>2. CASE cur = p
    BY <2>2, <1>1, <1>2, <1>3, <1>21, <1>22 DEF CurOK, Refused, Doomed, Late
  <2>3. QED
    BY <2>1, <2>2
<1>8. Ordered'
  BY <1>1, <1>2, <1>3, <1>21, OrderStep
<1>9. Walk'
  BY <1>1, <1>2, <1>21, WalkStep DEF Callbacks, Walks
<1>10. QED
  BY <1>3, <1>4, <1>5, <1>6, <1>7, <1>8, <1>9 DEF IInv, ListStep

\* or, after the FIN of the peer, left to tcp_input,
LEMMA UnreadDoomed ==
  ASSUME IInv, Rules, NEW p \in PCBS, CloseUnread(p), state[p] = "CLOSE_WAIT", InTcpInput(p)
  PROVE  IInv'
<1>1. /\ TypeOK /\ IsInjective(active) /\ Pcbs /\ Control /\ CurOK /\ Ordered /\ Walk
      /\ NULL \notin PCBS
  BY Parts
<1>2. /\ UNCHANGED <<state, local_port, last_timer, tw, bound, tcp_timer_ctr, pcb, prev, served, pc, handler,
                     cur, freed>>
      /\ p \in owned /\ state[p] = "CLOSE_WAIT" /\ handler = "input" /\ p = cur /\ pc = "sent"
      /\ CurOK /\ ~Aborted /\ "ABRT" \notin events
      /\ held' = [held EXCEPT ![p] = "none"]
      /\ rxclosed' = rxclosed \cup {p} /\ owned' = owned \ {p} /\ events' = events \cup {"CLOSED"}
      /\ active' = Without(p) /\ changed' = TRUE
  <2>1. p \in owned /\ p = cur /\ handler = "input" /\ Unread(p)
        /\ pc \in {"main"} \cup Callbacks /\ pc \notin {"recv", "closed", "refused", "refused_eof"}
    BY CallRules DEF CloseUnread, Calls, InTcpInput
  <2>2. ~Aborted
    BY DEF CloseUnread, Calls
  <2>3. pc \in OfInput /\ "ABRT" \notin events
    BY <1>1, <2>1, <2>2 DEF Control, Aborted, OfInput, Callbacks
  <2>4. pc = "sent"
    BY <1>1, <2>1, <2>3 DEF CurOK, Callbacks, OfInput, Late, Unread
  <2>5. QED
    BY <1>1, <2>1, <2>2, <2>3, <2>4 DEF CloseUnread, walkVars, TCP_RMV_ACTIVE
<1>21. /\ \A q \in PCBS : held'[q] = (IF q = p THEN "none" ELSE held[q])
       /\ held' \in [PCBS -> Holds]
  BY <1>1, <1>2, HeldField DEF Holds
<1>3. ListStep(p) /\ \A q : InList(q)' <=> InList(q) /\ q # p
  BY <1>1, <1>2, RmvList
<1>4. TypeOK'
  <2>1. Fields /\ Subsets /\ Others
    BY <1>1, TypeParts
  <2>2. Fields'
    BY <2>1, <1>2, <1>21 DEF Fields
  <2>3. Subsets'
    BY <2>1, <1>2, <1>21 DEF Subsets
  <2>4. Others'
    BY <2>1, <1>2, <1>3, <1>21 DEF Others, ListStep
  <2>5. QED
    BY <2>2, <2>3, <2>4, TypeParts, PTL
<1>5. Pcbs'
  <2>1. SUFFICES ASSUME NEW q \in PCBS PROVE (Listed(q) /\ Owned(q) /\ Timed(q))'
    BY DEF Pcbs
  <2>2. Listed(q) /\ Owned(q) /\ Timed(q) /\ Listed(p) /\ Owned(p) /\ Timed(p)
    BY <1>1, <1>2 DEF Pcbs
  <2>3. Listed(q)'
    BY <2>2, <1>1, <1>2, <1>3, <1>21 DEF Listed, Doomed, ActiveStates
  <2>4. Owned(q)'
    BY <2>2, <1>1, <1>2, <1>3, <1>21 DEF Owned
  <2>5. Timed(q)'
    BY <2>2, <1>1, <1>2, <1>3, <1>21 DEF Timed, Stamped
  <2>6. QED
    BY <2>3, <2>4, <2>5
<1>6. Control'
  BY <1>1, <1>2 DEF Control, Callbacks, Aborted
<1>7. CurOK'
  <2>1. "ABRT" \notin events /\ cur \in PCBS /\ cur \notin freed
    BY <1>1, <1>2 DEF CurOK, Aborted, Callbacks, OfInput, Late
  <2>2. Doomed(cur)'
    BY <1>2, <2>1 DEF Doomed
  <2>3. ~Refused(cur)'
    BY <1>2, <1>21 DEF Refused
  <2>4. QED
    BY <2>1, <2>2, <2>3, <1>2 DEF CurOK, Late, OfInput
<1>8. Ordered'
  BY <1>1, <1>2, <1>3, <1>21, OrderStep DEF Stamped
<1>9. Walk'
  BY <1>1, <1>2, <1>21, WalkStep DEF Callbacks, Walks
<1>10. QED
  BY <1>3, <1>4, <1>5, <1>6, <1>7, <1>8, <1>9 DEF IInv, ListStep

\* or freed.
LEMMA UnreadFreed ==
  ASSUME IInv, Rules, NEW p \in PCBS, CloseUnread(p), state[p] = "CLOSE_WAIT", ~InTcpInput(p)
  PROVE  IInv'
<1>1. /\ TypeOK /\ IsInjective(active) /\ Pcbs /\ Control /\ CurOK /\ Ordered /\ Walk
      /\ NULL \notin PCBS
  BY Parts
<1>2. /\ UNCHANGED <<tw, bound, tcp_timer_ctr, pcb, prev, served, pc, handler, cur, events>>
      /\ p \in owned /\ state[p] = "CLOSE_WAIT" /\ ~InTcpInput(p)
      /\ memp_free(p) /\ freed' \subseteq freed \cup {p}
      /\ owned' = owned \ {p} /\ active' = Without(p) /\ changed' = TRUE
      /\ pc \in {"main"} \cup Callbacks /\ pc \notin {"recv", "closed", "refused", "refused_eof"}
  BY CallRules DEF CloseUnread, Calls, walkVars, Free, TCP_RMV_ACTIVE
<1>21. /\ \A q \in PCBS : state'[q] = (IF q = p THEN "FREE" ELSE state[q])
       /\ \A q \in PCBS : held'[q] = (IF q = p THEN "none" ELSE held[q])
       /\ \A q \in PCBS : q # p => last_timer'[q] = last_timer[q]
       /\ state' \in [PCBS -> States] /\ held' \in [PCBS -> Holds]
       /\ last_timer' \in [PCBS -> 0 .. CtrMod - 1]
       /\ rxclosed' = rxclosed \ {p} /\ local_port' = local_port \ {p}
  BY <1>1, <1>2, FreeFields
<1>22. pc \in {"process"} \cup OfInput \cup Late /\ "ABRT" \notin events => cur # p
  BY <1>1, <1>2 DEF Control, InTcpInput, Callbacks, OfInput, Late
<1>3. ListStep(p) /\ \A q : InList(q)' <=> InList(q) /\ q # p
  BY <1>1, <1>2, RmvList
<1>4. TypeOK'
  <2>1. Fields /\ Subsets /\ Others
    BY <1>1, TypeParts
  <2>2. Fields'
    BY <2>1, <1>2, <1>21 DEF Fields
  <2>3. Subsets'
    BY <2>1, <1>2, <1>21 DEF Subsets
  <2>4. Others'
    BY <2>1, <1>2, <1>3, <1>21 DEF Others, ListStep
  <2>5. QED
    BY <2>2, <2>3, <2>4, TypeParts, PTL
<1>5. Pcbs'
  <2>1. SUFFICES ASSUME NEW q \in PCBS PROVE (Listed(q) /\ Owned(q) /\ Timed(q))'
    BY DEF Pcbs
  <2>2. Listed(q) /\ Owned(q) /\ Timed(q) /\ Listed(p) /\ Owned(p) /\ Timed(p)
    BY <1>1, <1>2 DEF Pcbs
  <2>3. Listed(q)'
    BY <2>2, <1>1, <1>2, <1>3, <1>21 DEF Listed, Doomed, ActiveStates
  <2>4. Owned(q)'
    BY <2>2, <1>1, <1>2, <1>3, <1>21 DEF Owned
  <2>5. Timed(q)'
    BY <2>2, <1>1, <1>2, <1>3, <1>21 DEF Timed, Stamped
  <2>6. QED
    BY <2>3, <2>4, <2>5
<1>6. Control'
  BY <1>1, <1>2, <1>21 DEF Control
<1>7. CurOK'
  BY <1>1, <1>2, <1>3, <1>21, <1>22, CurFrame DEF CurOK, Refused
<1>8. Ordered'
  BY <1>1, <1>2, <1>3, <1>21, OrderStep
<1>9. Walk'
  BY <1>1, <1>2, <1>21, WalkStep DEF Callbacks, Walks
<1>10. QED
  BY <1>3, <1>4, <1>5, <1>6, <1>7, <1>8, <1>9 DEF IInv, ListStep

\* Every call of the API.
LEMMA ApiKeeps ==
  ASSUME IInv, Rules, Api
  PROVE  IInv'
<1>1. ASSUME NEW p \in PCBS, CloseUnread(p) PROVE IInv'
  <2>1. state[p] = "ESTABLISHED" \/ state[p] = "CLOSE_WAIT"
    BY <1>1 DEF CloseUnread
  <2>2. QED
    BY <1>1, <2>1, UnreadTimeWait, UnreadDoomed, UnreadFreed
<1>2. ASSUME tcp_new PROVE IInv'
  <2>1. PICK p \in PCBS : NewPcb(p)
    BY <1>2 DEF tcp_new, NewPcb
  <2>2. QED
    BY <2>1, NewKeeps
<1>3. QED
  BY <1>1, <1>2, BindKeeps, ConnectKeeps, ConnectFailsKeeps, CloseUnconnectedKeeps,
     CloseConnectedKeeps, ShutdownTxKeeps, ShutdownRxKeeps, RecvedKeeps, AbortKeeps DEF Api

-----------------------------------------------------------------------------
(***************************************************************************)
(* The walks.                                                              *)
(***************************************************************************)
LEMMA NextFacts ==
  ASSUME TypeOK, NULL \notin PCBS, IsInjective(active), NEW p, InList(p), NEW n, n = NextOf(p)
  PROVE  /\ n = NULL => \A q : InList(q) => q = p \/ Before(active, q, p)
         /\ n # NULL => InList(n) /\ n # p /\ Before(active, p, n)
         /\ n # NULL => \A q : Before(active, q, n) => q = p \/ Before(active, q, p)
<1>1. active \in Seq(PCBS)
  BY DEF TypeOK
<1>2. PICK m \in Nat : m = Len(active) /\ DOMAIN active = 1 .. m
  BY <1>1
<1>3. PICK k \in 1 .. m : active[k] = p
  BY <1>2 DEF InList, ToSet
<1>4. \A i, j \in 1 .. m : active[i] = active[j] => i = j
  BY <1>2 DEF IsInjective
<1>5. CASE k = m
  <2>1. n = NULL
    <3>1. ~\E i \in 1 .. m - 1 : active[i] = p
      BY <1>3, <1>4, <1>5, <1>2
    <3>2. QED
      BY <3>1, <1>2 DEF NextOf
  <2>2. ASSUME NEW q, InList(q) PROVE q = p \/ Before(active, q, p)
    <3>1. PICK i \in 1 .. m : active[i] = q
      BY <2>2, <1>2 DEF InList, ToSet
    <3>2. i = k \/ i < k
      BY <1>5, <1>2
    <3>3. QED
      BY <3>1, <3>2, <1>2, <1>3 DEF Before
  <2>3. QED
    BY <2>1, <2>2
<1>6. CASE k # m
  <2>1. k \in 1 .. m - 1 /\ k + 1 \in 1 .. m /\ k < k + 1
    BY <1>2, <1>6
  <2>2. n = active[k + 1]
    <3>1. PICK c : c = CHOOSE i \in 1 .. m - 1 : active[i] = p
      OBVIOUS
    <3>2. c \in 1 .. m - 1 /\ active[c] = p
      BY <3>1, <2>1, <1>3
    <3>3. c \in 1 .. m
      BY <3>2, <1>2
    <3>4. c = k
      BY <3>2, <3>3, <1>3, <1>4
    <3>5. n = active[1 + c]
      BY <3>1, <2>1, <1>2, <1>3 DEF NextOf
    <3>6. 1 + c = k + 1
      BY <3>4, <2>1
    <3>7. QED
      BY <3>5, <3>6
  <2>3. n \in PCBS /\ n # NULL /\ InList(n)
    BY <2>1, <2>2, <1>1, <1>2 DEF InList, ToSet
  <2>4. n # p
    BY <2>1, <2>2, <1>3, <1>4
  <2>5. Before(active, p, n)
    BY <2>1, <2>2, <1>2, <1>3 DEF Before
  <2>6. ASSUME NEW q, Before(active, q, n) PROVE q = p \/ Before(active, q, p)
    <3>1. PICK i \in 1 .. m, j \in 1 .. m : i < j /\ active[i] = q /\ active[j] = n
      BY <2>6, <1>2 DEF Before
    <3>2. j = k + 1
      BY <3>1, <2>1, <2>2, <1>4
    <3>3. i = k \/ i < k
      BY <3>1, <3>2
    <3>4. QED
      BY <3>1, <3>3, <1>2, <1>3 DEF Before
  <2>7. QED
    BY <2>3, <2>4, <2>5, <2>6
<1>7. QED
  BY <1>5, <1>6

\* The walk starts at the head, or starts over there.
LEMMA FirstWalk ==
  ASSUME TypeOK, NULL \notin PCBS, IsInjective(active), active' = active, FromFirst
  PROVE  Walk' /\ pcb' \in PCBS \cup {NULL} /\ prev' = NULL
<1>1. active \in Seq(PCBS)
  BY DEF TypeOK
<1>2. PICK m \in Nat : m = Len(active) /\ DOMAIN active = 1 .. m
  BY <1>1
<1>3. prev' = NULL
  BY DEF FromFirst
<1>4. CASE active = <<>>
  <2>1. pcb' = NULL
    BY <1>4 DEF FromFirst
  <2>2. \A q : ~InList(q)'
    BY <1>4 DEF InList, ToSet
  <2>3. \A q : ~Before(active, q, pcb)'
    BY <1>4 DEF Before
  <2>4. QED
    BY <1>3, <2>1, <2>2, <2>3 DEF Walk
<1>5. CASE active # <<>>
  <2>1. pcb' = active[1] /\ 1 \in 1 .. m
    BY <1>1, <1>2, <1>5 DEF FromFirst
  <2>2. pcb' \in PCBS /\ pcb' \in ToSet(active')
    BY <2>1, <1>1, <1>2 DEF ToSet
  <2>3. InList(pcb)'
    BY <2>2 DEF InList
  <2>4. ASSUME NEW q, Before(active, q, active[1]) PROVE FALSE
    <3>1. PICK i \in 1 .. m, j \in 1 .. m : i < j /\ active[j] = active[1]
      BY <2>4, <1>2 DEF Before
    <3>2. j = 1
      BY <3>1, <2>1, <1>2 DEF IsInjective
    <3>3. QED
      BY <3>1, <3>2
  <2>5. \A q : ~Before(active, q, pcb)'
    BY <2>1, <2>4 DEF Before
  <2>6. QED
    BY <1>3, <2>2, <2>3, <2>5 DEF Walk
<1>6. QED
  BY <1>4, <1>5

\* The callback of a walk returns.
LEMMA GoOnWalk ==
  ASSUME IInv, NEW h \in Walks, GoOn(h), handler = h, UNCHANGED last_timer
  PROVE  Walk' /\ pcb' \in PCBS \cup {NULL} /\ prev' \in PCBS \cup {NULL}
<1>1. /\ TypeOK /\ IsInjective(active) /\ Pcbs /\ Control /\ CurOK /\ Ordered /\ Walk
      /\ NULL \notin PCBS
  BY Parts
<1>2. CASE changed
  <2>1. active' = active /\ FromFirst
    BY <1>2 DEF GoOn, listVars
  <2>2. QED
    BY <2>1, <1>1, FirstWalk
<1>3. CASE ~changed
  <2>1. UNCHANGED <<active, pcb, prev, tcp_timer_ctr, last_timer, handler>> /\ handler \in Walks
    BY <1>3 DEF GoOn, listVars
  <2>2. /\ pcb = NULL \/ InList(pcb)
        /\ prev = NULL \/ InList(prev)
        /\ pcb = NULL => \A p \in PCBS : InList(p) => Stamped(p)
        /\ \A p \in PCBS : Before(active, p, pcb) => Stamped(p)
        /\ prev # NULL => /\ handler = "slow" /\ pcb = NextOf(prev)
                          /\ pcb # NULL => ~Stamped(pcb)
    BY <2>1, <1>1, <1>3 DEF Walk
  <2>3. Walk'
    BY <2>1, <2>2 DEF Walk, InList, Before, Stamped, NextOf
  <2>4. QED
    BY <2>1, <2>3, <1>1, TypeParts DEF Others
<1>4. QED
  BY <1>2, <1>3

\* A visit stamps pcb, the first PCB without the stamp, and goes on behind it.
LEMMA StampWalk ==
  ASSUME IInv, handler \in Walks, pc \in Walks, Due, Stamp,
         UNCHANGED <<active, tcp_timer_ctr, handler>>,
         prev' = IF handler = "slow" THEN pcb ELSE prev
  PROVE  /\ Ordered' /\ Walk'
         /\ pcb \in PCBS /\ InList(pcb)
         /\ pcb' \in PCBS \cup {NULL} /\ prev' \in PCBS \cup {NULL}
         /\ last_timer' \in [PCBS -> 0 .. CtrMod - 1]
         /\ \A q \in PCBS : last_timer'[q] = (IF q = pcb THEN tcp_timer_ctr ELSE last_timer[q])
         /\ served' = served \cup {pcb}
<1>1. /\ TypeOK /\ IsInjective(active) /\ Pcbs /\ Control /\ CurOK /\ Ordered /\ Walk
      /\ NULL \notin PCBS
  BY Parts
<1>2. PICK b, n : b = pcb /\ n = NextOf(pcb)
  OBVIOUS
<1>3. /\ b # NULL /\ ~Stamped(b) /\ InList(b)
      /\ \A p \in PCBS : Before(active, p, b) => Stamped(p)
      /\ handler = "fast" => prev = NULL
  BY <1>1, <1>2 DEF Due, Walk, Stamped
<1>4. b \in PCBS
  BY <1>1, <1>2, <1>3 DEF TypeOK
<1>5. /\ n = NULL => \A q : InList(q) => q = b \/ Before(active, q, b)
      /\ n # NULL => InList(n) /\ n # b /\ Before(active, b, n)
      /\ n # NULL => \A q : Before(active, q, n) => q = b \/ Before(active, q, b)
  BY <1>1, <1>2, <1>3, NextFacts
<1>6. tcp_timer_ctr \in 0 .. CtrMod - 1 /\ last_timer \in [PCBS -> 0 .. CtrMod - 1]
  BY <1>1 DEF TypeOK
<1>7. last_timer' = [last_timer EXCEPT ![b] = tcp_timer_ctr] /\ pcb' = n /\ served' = served \cup {b}
  BY <1>2 DEF Stamp
<1>8. /\ last_timer' \in [PCBS -> 0 .. CtrMod - 1]
      /\ \A q \in PCBS : last_timer'[q] = (IF q = b THEN tcp_timer_ctr ELSE last_timer[q])
  BY <1>4, <1>6, <1>7
<1>9. \A q \in PCBS : Stamped(q)' <=> q = b \/ Stamped(q)
  BY <1>3, <1>8 DEF Stamped
<1>10. /\ \A q : InList(q)' <=> InList(q)
       /\ \A p, q : Before(active, p, q)' <=> Before(active, p, q)
  BY DEF InList, Before
<1>11. Ordered'
  BY <1>1, <1>3, <1>9, <1>10 DEF Ordered
<1>12. n # NULL => n \in PCBS /\ ~Stamped(n)
  <2>1. n # NULL => n \in PCBS
    BY <1>1, <1>5 DEF InList, ToSet, TypeOK
  <2>2. QED
    BY <2>1, <1>1, <1>3, <1>4, <1>5 DEF Ordered
<1>13. \A q : InList(q) => q \in PCBS
  BY <1>1 DEF InList, ToSet, TypeOK
<1>14. n # NULL => \A q \in PCBS : Before(active, q, n) => Stamped(q)'
  BY <1>3, <1>5, <1>9
<1>15. n = NULL => \A q \in PCBS : InList(q) => Stamped(q)'
  BY <1>3, <1>5, <1>9
<1>16. \A q : ~Before(active, q, NULL)
  BY <1>1, <1>13, BeforeIn
<1>17. Walk'
  <2>1. pcb' = NULL \/ InList(pcb)'
    BY <1>5, <1>7, <1>10 DEF InList
  <2>2. prev' = NULL \/ InList(prev)'
    BY <1>2, <1>3, <1>10 DEF InList, Walks
  <2>3. pcb' = NULL => \A q \in PCBS : InList(q)' => Stamped(q)'
    BY <1>7, <1>10, <1>15
  <2>4. ASSUME NEW q \in PCBS, Before(active, q, pcb)' PROVE Stamped(q)'
    <3>1. Before(active, q, n)
      BY <2>4, <1>7 DEF Before
    <3>2. QED
      BY <3>1, <1>14, <1>16
  <2>5. ASSUME prev' # NULL
        PROVE  handler' = "slow" /\ pcb' = NextOf(prev)' /\ (pcb' # NULL => ~Stamped(pcb)')
    <3>1. handler = "slow" /\ prev' = b
      BY <2>5, <1>2, <1>3 DEF Walks
    <3>2. NextOf(prev)' = n
      BY <3>1, <1>2 DEF NextOf
    <3>3. n # NULL => n # b /\ ~Stamped(n) /\ n \in PCBS
      BY <1>5, <1>12
    <3>4. pcb' # NULL => ~Stamped(pcb)'
      BY <3>3, <1>7, <1>8 DEF Stamped
    <3>5. QED
      BY <3>1, <3>2, <3>4, <1>7
  <2>6. QED
    BY <2>1, <2>2, <2>3, <2>4, <2>5 DEF Walk
<1>18. pcb' \in PCBS \cup {NULL}
  BY <1>7, <1>12
<1>19. prev' \in PCBS \cup {NULL}
  BY <1>2, <1>4, <1>1 DEF TypeOK
<1>20. pcb \in PCBS /\ InList(pcb)
  BY <1>2, <1>3, <1>4
<1>21. \A q \in PCBS : last_timer'[q] = (IF q = pcb THEN tcp_timer_ctr ELSE last_timer[q])
  BY <1>2, <1>8
<1>22. served' = served \cup {pcb}
  BY <1>2, <1>7
<1>23. QED
  BY <1>8, <1>11, <1>17, <1>18, <1>19, <1>20, <1>21, <1>22


\* NextOf, of any list.
NextIn(s, p) ==
  IF \E i \in 1 .. Len(s) - 1 : s[i] = p
    THEN s[1 + CHOOSE i \in 1 .. Len(s) - 1 : s[i] = p]
    ELSE NULL

LEMMA NextAt ==
  ASSUME NEW s \in Seq(PCBS), IsInjective(s), NEW n \in Nat, n = Len(s), NEW k \in 1 .. n
  PROVE  NextIn(s, s[k]) = IF k < n THEN s[k + 1] ELSE NULL
<1>1. PICK p : p = s[k]
  OBVIOUS
<1>2. \A i \in 1 .. n : s[i] = p => i = k
  BY <1>1 DEF IsInjective
<1>3. \A i \in 1 .. n - 1 : i \in 1 .. n
  OBVIOUS
<1>4. CASE k < n
  <2>1. k \in 1 .. n - 1
    BY <1>4
  <2>2. PICK c : c = CHOOSE i \in 1 .. n - 1 : s[i] = p
    OBVIOUS
  <2>3. c \in 1 .. n - 1 /\ s[c] = p
    BY <2>1, <2>2, <1>1
  <2>4. c = k
    BY <2>3, <1>2, <1>3
  <2>5. NextIn(s, p) = s[1 + c]
    BY <2>1, <2>2, <1>1 DEF NextIn
  <2>6. 1 + c = k + 1
    BY <2>4
  <2>7. QED
    BY <2>5, <2>6, <1>1, <1>4
<1>5. CASE ~(k < n)
  <2>1. ~\E i \in 1 .. n - 1 : s[i] = p
    BY <1>2, <1>3, <1>5
  <2>2. NextIn(s, p) = NULL
    BY <2>1 DEF NextIn
  <2>3. QED
    BY <2>2, <1>1, <1>5
<1>6. QED
  BY <1>4, <1>5

\* tcp_slowtmr unlinks its PCB as TCP_RMV does: its head is the list's, or its
\* prev is the PCB's predecessor, and stays that of the next PCB.
LEMMA UnlinkFacts ==
  ASSUME TypeOK, NULL \notin PCBS, IsInjective(active), InList(pcb),
         (prev = NULL) = (pcb = First),
         prev # NULL => InList(prev) /\ pcb = NextOf(prev)
  PROVE  /\ Unlinked = Without(pcb)
         /\ prev # NULL => NextIn(Unlinked, prev) = NextOf(pcb)
<1>1. active \in Seq(PCBS)
  BY DEF TypeOK
<1>2. PICK n \in Nat : n = Len(active) /\ DOMAIN active = 1 .. n
  BY <1>1
<1>3. PICK k \in 1 .. n : active[k] = pcb
  BY <1>2 DEF InList, ToSet
<1>4. \A i, j \in 1 .. n : active[i] = active[j] => i = j
  BY <1>2 DEF IsInjective
<1>5. PICK w : w = Without(pcb)
  OBVIOUS
<1>6. /\ w = SubSeq(active, 1, k - 1) \o SubSeq(active, k + 1, n)
      /\ w \in Seq(PCBS) /\ Len(w) = n - 1
      /\ \A i \in 1 .. n - 1 : w[i] = IF i < k THEN active[i] ELSE active[i + 1]
  <2>1. w = Without(active[k]) /\ n = Len(active)
    BY <1>2, <1>3, <1>5
  <2>2. QED
    BY <2>1, <1>1, WithoutAt
<1>7. Behind(pcb) = SubSeq(active, k + 1, n)
  <2>1. PICK c : c = CHOOSE i \in 1 .. n : active[i] = pcb
    OBVIOUS
  <2>2. c = k
    BY <2>1, <1>3, <1>4
  <2>3. Behind(pcb) = SubSeq(active, 1 + c, n)
    BY <2>1, <1>2 DEF Behind
  <2>4. 1 + c = k + 1
    BY <2>2
  <2>5. QED
    BY <2>3, <2>4
<1>8. CASE prev = NULL
  <2>1. pcb = First
    BY <1>8
  <2>2. 1 \in 1 .. n /\ First = active[1]
    BY <1>1, <1>2, <1>3 DEF First
  <2>3. k = 1
    BY <2>1, <2>2, <1>3, <1>4
  <2>4. SubSeq(active, 1, k - 1) = <<>>
    BY <2>3, <1>1
  <2>5. PICK u : u = SubSeq(active, k + 1, n)
    OBVIOUS
  <2>6. u \in Seq(PCBS)
    BY <2>5, <1>1, <1>2
  <2>7. <<>> \o u = u
    BY <2>6
  <2>8. w = u /\ Unlinked = u
    BY <2>4, <2>5, <2>7, <1>6, <1>7, <1>8 DEF Unlinked
  <2>9. QED
    BY <2>8, <1>5, <1>8
<1>9. CASE prev # NULL
  <2>1. PICK j \in 1 .. n : active[j] = prev
    BY <1>2, <1>9 DEF InList, ToSet
  <2>2. NextIn(active, active[j]) = (IF j < n THEN active[j + 1] ELSE NULL)
    BY <1>1, <1>2, NextAt
  <2>3. pcb = NextIn(active, active[j]) /\ pcb # NULL
    <3>1. pcb \in PCBS
      BY <1>1, <1>2, <1>3
    <3>2. QED
      BY <3>1, <2>1, <1>9 DEF NextOf, NextIn
  <2>4. j < n /\ j + 1 \in 1 .. n /\ active[j + 1] = pcb
    BY <2>2, <2>3, <1>2
  <2>5. k = j + 1
    BY <2>4, <1>3, <1>4
  <2>6. PICK c : c = CHOOSE i \in 1 .. n : active[i] = prev
    OBVIOUS
  <2>7. c = j
    BY <2>1, <2>6, <1>4
  <2>8. Unlinked = SubSeq(active, 1, j) \o SubSeq(active, k + 1, n)
    BY <2>6, <2>7, <1>2, <1>7, <1>9 DEF Unlinked
  <2>9. k - 1 = j
    BY <2>5
  <2>10. Unlinked = w
    BY <2>8, <2>9, <1>6
  <2>11. j \in 1 .. n - 1 /\ w[j] = prev
    BY <2>1, <2>4, <2>5, <1>6
  <2>12. IsInjective(w)
    BY <1>1, <1>5, WithoutFacts
  <2>13. PICK m \in Nat : m = n - 1
    BY <2>4
  <2>14. NextIn(w, w[j]) = IF j < m THEN w[j + 1] ELSE NULL
    BY <2>11, <2>12, <2>13, <1>6, NextAt
  <2>15. NextIn(active, active[k]) = IF k < n THEN active[k + 1] ELSE NULL
    BY <1>1, <1>2, NextAt
  <2>16. NextOf(pcb) = NextIn(active, active[k])
    BY <1>3 DEF NextOf, NextIn
  <2>17. j < m => j + 1 \in 1 .. n - 1 /\ ~(j + 1 < k) /\ (j + 1) + 1 = k + 1
    BY <2>5, <2>13
  <2>18. j < m => w[j + 1] = active[k + 1]
    BY <2>17, <1>6
  <2>19. j < m <=> k < n
    BY <2>5, <2>13
  <2>20. NextIn(w, w[j]) = NextOf(pcb)
    BY <2>14, <2>15, <2>16, <2>18, <2>19
  <2>21. QED
    BY <2>10, <2>11, <2>20, <1>5
<1>10. QED
  BY <1>8, <1>9


\* tcp_slowtmr or tcp_fasttmr begins.
LEMMA StartKeeps ==
  ASSUME IInv, NEW h \in Walks, Start(h)
  PROVE  IInv'
<1>1. /\ TypeOK /\ IsInjective(active) /\ Pcbs /\ Control /\ CurOK /\ Ordered /\ Walk
      /\ NULL \notin PCBS
  BY Parts
<1>2. /\ UNCHANGED <<state, local_port, rxclosed, held, last_timer, active, tw, bound, changed, cur, events,
                     owned, freed>>
      /\ pc = "main" /\ pc' = h /\ handler' = h
      /\ tcp_timer_ctr' = NextTick /\ served' = {}
      /\ FromFirst
  BY DEF Start, pcbVars, listVars
<1>20. tcp_timer_ctr' \in 0 .. CtrMod - 1 /\ tcp_timer_ctr' # tcp_timer_ctr
  <2>1. tcp_timer_ctr \in 0 .. CtrMod - 1 /\ CtrMod \in Nat \ {0, 1}
    BY <1>1, PcbsAssumption DEF TypeOK
  <2>2. PICK c \in Nat : c = tcp_timer_ctr /\ c < CtrMod
    BY <2>1
  <2>3. (c + 1) % CtrMod = IF c + 1 = CtrMod THEN 0 ELSE c + 1
    BY <2>1, <2>2
  <2>4. tcp_timer_ctr' = (c + 1) % CtrMod
    BY <2>2, <1>2 DEF NextTick
  <2>5. QED
    BY <2>1, <2>2, <2>3, <2>4
<1>21. /\ Walk' /\ pcb' \in PCBS \cup {NULL} /\ prev' = NULL
       /\ tcp_timer_ctr' \in 0 .. CtrMod - 1
  BY <1>1, <1>2, <1>20, FirstWalk
<1>3. ListStep(NULL) /\ \A q : InList(q)' <=> InList(q)
  BY <1>1, <1>2, SameList, PcbsAssumption
<1>4. TypeOK'
  <2>1. Fields /\ Subsets /\ Others
    BY <1>1, TypeParts
  <2>2. Fields'
    BY <2>1, <1>2, <1>21 DEF Fields
  <2>3. Subsets'
    BY <2>1, <1>2, <1>21 DEF Subsets
  <2>4. Others'
    BY <2>1, <1>2, <1>3, <1>21 DEF Others, ListStep, Walks
  <2>5. QED
    BY <2>2, <2>3, <2>4, TypeParts, PTL
<1>5. Pcbs'
  <2>1. SUFFICES ASSUME NEW q \in PCBS PROVE (Listed(q) /\ Owned(q) /\ Timed(q))'
    BY DEF Pcbs
  <2>2. Listed(q) /\ Owned(q) /\ Timed(q)
    BY <1>1, <1>2 DEF Pcbs
  <2>3. Listed(q)'
    BY <2>2, <1>1, <1>2, <1>3, <1>21 DEF Listed, Doomed, ActiveStates, Late
  <2>4. Owned(q)'
    BY <2>2, <1>1, <1>2, <1>3, <1>21 DEF Owned, Late
  <2>5. Timed(q)'
    BY <2>2, <1>1, <1>2, <1>3, <1>21 DEF Timed, Stamped
  <2>6. QED
    BY <2>3, <2>4, <2>5
<1>6. Control'
  BY <1>1, <1>2, <1>21 DEF Control, Walks, Late, Callbacks
<1>7. CurOK'
  BY <1>2 DEF CurOK, Walks, OfInput, Late, Callbacks
<1>8. Ordered'
  <2>1. \A q : InList(q) => q \in PCBS
    BY <1>1 DEF InList, ToSet, TypeOK
  <2>2. handler \notin Walks
    BY <1>1, <1>2 DEF Control, Walks
  <2>3. \A q \in PCBS : InList(q)' => ~Stamped(q)'
    BY <2>2, <1>1, <1>2, <1>3, <1>20 DEF Pcbs, Timed, Stamped
  <2>4. \A p, q : Before(active, p, q)' => InList(q)'
    BY DEF Before, InList, ToSet
  <2>5. QED
    BY <2>3, <2>4 DEF Ordered
<1>9. Walk'
  BY <1>21
<1>10. QED
  BY <1>3, <1>4, <1>5, <1>6, <1>7, <1>8, <1>9 DEF IInv, ListStep

\* A walk skips a PCB it has dealt with: prev is not set.
LEMMA SkipKeeps ==
  ASSUME IInv, Skip
  PROVE  IInv'
<1>1. /\ TypeOK /\ IsInjective(active) /\ Pcbs /\ Control /\ CurOK /\ Ordered /\ Walk
      /\ NULL \notin PCBS
  BY Parts
<1>2. /\ UNCHANGED <<state, local_port, rxclosed, held, last_timer, active, tw, bound, changed, tcp_timer_ctr,
                     prev, served, pc, handler, cur, events, owned, freed>>
      /\ pc \in Walks /\ pcb # NULL /\ Stamped(pcb)
      /\ pcb' = NextOf(pcb)
  BY DEF Skip, Due, Stamped, Walks, pcbVars, listVars, runVars
<1>21. Walk' /\ pcb' \in PCBS \cup {NULL}
  <2>1. /\ pcb = NULL \/ InList(pcb)
        /\ prev = NULL \/ InList(prev)
        /\ pcb = NULL => \A p \in PCBS : InList(p) => Stamped(p)
        /\ \A p \in PCBS : Before(active, p, pcb) => Stamped(p)
        /\ prev # NULL => /\ handler = "slow" /\ pcb = NextOf(prev)
                          /\ pcb # NULL => ~Stamped(pcb)
    BY <1>1, <1>2 DEF Walk, Control, Walks
  <2>2. PICK b, n : b = pcb /\ n = NextOf(pcb)
    OBVIOUS
  <2>3. prev = NULL /\ InList(b) /\ pcb' = n
    BY <2>1, <2>2, <1>2
  <2>4. /\ n = NULL => \A q : InList(q) => q = b \/ Before(active, q, b)
        /\ n # NULL => InList(n) /\ n # b /\ Before(active, b, n)
        /\ n # NULL => \A q : Before(active, q, n) => q = b \/ Before(active, q, b)
    BY <2>2, <2>3, <1>1, NextFacts
  <2>5. \A q : InList(q) => q \in PCBS
    BY <1>1 DEF InList, ToSet, TypeOK
  <2>6. Stamped(b) /\ \A q \in PCBS : Before(active, q, b) => Stamped(q)
    BY <2>1, <2>2, <1>2
  <2>7. /\ n = NULL => \A q \in PCBS : InList(q) => Stamped(q)
        /\ \A q \in PCBS : Before(active, q, n) => Stamped(q)
    BY <2>4, <2>5, <2>6, <1>1, BeforeIn
  <2>8. n = NULL \/ (InList(n) /\ n \in PCBS)
    BY <2>4, <2>5
  <2>9. Walk'
    BY <2>3, <2>7, <2>8, <1>2 DEF Walk, InList, Before, Stamped
  <2>10. QED
    BY <2>3, <2>8, <2>9
<1>3. ListStep(NULL) /\ \A q : InList(q)' <=> InList(q)
  BY <1>1, <1>2, SameList, PcbsAssumption
<1>4. TypeOK'
  <2>1. Fields /\ Subsets /\ Others
    BY <1>1, TypeParts
  <2>2. Fields'
    BY <2>1, <1>2, <1>21 DEF Fields
  <2>3. Subsets'
    BY <2>1, <1>2, <1>21 DEF Subsets
  <2>4. Others'
    BY <2>1, <1>2, <1>3, <1>21 DEF Others, ListStep
  <2>5. QED
    BY <2>2, <2>3, <2>4, TypeParts, PTL
<1>5. Pcbs'
  <2>1. SUFFICES ASSUME NEW q \in PCBS PROVE (Listed(q) /\ Owned(q) /\ Timed(q))'
    BY DEF Pcbs
  <2>2. Listed(q) /\ Owned(q) /\ Timed(q)
    BY <1>1, <1>2 DEF Pcbs
  <2>3. Listed(q)'
    BY <2>2, <1>1, <1>2, <1>3, <1>21 DEF Listed, Doomed, ActiveStates
  <2>4. Owned(q)'
    BY <2>2, <1>1, <1>2, <1>3, <1>21 DEF Owned
  <2>5. Timed(q)'
    BY <2>2, <1>1, <1>2, <1>3, <1>21 DEF Timed, Stamped
  <2>6. QED
    BY <2>3, <2>4, <2>5
<1>6. Control'
  BY <1>1, <1>2, <1>21 DEF Control
<1>7. CurOK'
  BY <1>1, <1>2, <1>3, <1>21 DEF CurOK, Doomed, Refused
<1>8. Ordered'
  BY <1>1, <1>2, <1>21, StillOrdered
<1>9. Walk'
  BY <1>21
<1>10. QED
  BY <1>3, <1>4, <1>5, <1>6, <1>7, <1>8, <1>9 DEF IInv, ListStep

\* tcp_slowtmr visits a PCB that stays.
LEMMA SlowtmrKeepKeeps ==
  ASSUME IInv, SlowtmrKeep
  PROVE  IInv'
<1>1. /\ TypeOK /\ IsInjective(active) /\ Pcbs /\ Control /\ CurOK /\ Ordered /\ Walk
      /\ NULL \notin PCBS
  BY Parts
<1>2. /\ UNCHANGED <<state, local_port, rxclosed, held, active, tw, bound, tcp_timer_ctr, handler, events,
                     owned>>
      /\ pc = "slow" /\ Due /\ Stamp /\ prev' = pcb
      /\ \/ pc' = "poll" /\ cur' = pcb /\ freed' = {} /\ changed' = FALSE
         \/ UNCHANGED <<pc, cur, changed, freed>>
  BY DEF SlowtmrKeep, Callback
<1>21. /\ Ordered' /\ Walk'
       /\ pcb \in PCBS /\ InList(pcb)
       /\ pcb' \in PCBS \cup {NULL} /\ prev' \in PCBS \cup {NULL}
       /\ last_timer' \in [PCBS -> 0 .. CtrMod - 1]
       /\ \A q \in PCBS : last_timer'[q] = (IF q = pcb THEN tcp_timer_ctr ELSE last_timer[q])
       /\ served' = served \cup {pcb} /\ handler = pc
  <2>1. handler = pc /\ pc \in Walks
    BY <1>1, <1>2 DEF Control, Walks
  <2>2. prev' = IF handler = "slow" THEN pcb ELSE prev
    BY <2>1, <1>2
  <2>3. QED
    BY <2>1, <2>2, <1>2, StampWalk
<1>3. ListStep(NULL) /\ \A q : InList(q)' <=> InList(q)
  BY <1>1, <1>2, SameList, PcbsAssumption
<1>4. TypeOK'
  <2>1. Fields /\ Subsets /\ Others
    BY <1>1, TypeParts
  <2>2. Fields'
    BY <2>1, <1>2, <1>21 DEF Fields
  <2>3. Subsets'
    BY <2>1, <1>2, <1>21 DEF Subsets
  <2>4. Others'
    BY <2>1, <1>2, <1>3, <1>21 DEF Others, ListStep, Callbacks
  <2>5. QED
    BY <2>2, <2>3, <2>4, TypeParts, PTL
<1>5. Pcbs'
  <2>1. SUFFICES ASSUME NEW q \in PCBS PROVE (Listed(q) /\ Owned(q) /\ Timed(q))'
    BY DEF Pcbs
  <2>2. Listed(q) /\ Owned(q) /\ Timed(q)
    BY <1>1, <1>2 DEF Pcbs
  <2>3. Listed(q)'
    BY <2>2, <1>1, <1>2, <1>3, <1>21 DEF Listed, Doomed, ActiveStates, Late
  <2>4. Owned(q)'
    BY <2>2, <1>1, <1>2, <1>3, <1>21 DEF Owned, Late
  <2>5. Timed(q)'
    BY <2>2, <1>1, <1>2, <1>3, <1>21 DEF Timed, Stamped
  <2>6. QED
    BY <2>3, <2>4, <2>5
<1>6. Control'
  BY <1>1, <1>2, <1>21 DEF Control, Late, Callbacks
<1>7. CurOK'
  BY <1>2 DEF CurOK, OfInput, Late, Callbacks
<1>8. Ordered'
  BY <1>21
<1>9. Walk'
  BY <1>21
<1>10. QED
  BY <1>3, <1>4, <1>5, <1>6, <1>7, <1>8, <1>9 DEF IInv, ListStep

\* tcp_fasttmr visits a PCB, and offers the data its application has refused.
LEMMA FasttmrVisitKeeps ==
  ASSUME IInv, FasttmrVisit
  PROVE  IInv'
<1>1. /\ TypeOK /\ IsInjective(active) /\ Pcbs /\ Control /\ CurOK /\ Ordered /\ Walk
      /\ NULL \notin PCBS
  BY Parts
<1>2. /\ UNCHANGED <<state, local_port, rxclosed, active, tw, bound, tcp_timer_ctr, prev, handler, owned>>
      /\ pc = "fast" /\ Due /\ Stamp
      /\ \/ /\ Refused(pcb) /\ pc' = "refused" /\ cur' = pcb /\ freed' = {}
            /\ held' = [held EXCEPT ![pcb] = "unread"] /\ changed' = FALSE
            /\ events' = (IF held[pcb] = "refused_fin" THEN {"FIN"} ELSE {})
         \/ UNCHANGED <<held, pc, cur, changed, freed, events>>
  BY DEF FasttmrVisit, Offer, Callback
<1>20. /\ Ordered' /\ Walk'
       /\ pcb \in PCBS /\ InList(pcb)
       /\ pcb' \in PCBS \cup {NULL} /\ prev' \in PCBS \cup {NULL}
       /\ last_timer' \in [PCBS -> 0 .. CtrMod - 1]
       /\ \A q \in PCBS : last_timer'[q] = (IF q = pcb THEN tcp_timer_ctr ELSE last_timer[q])
       /\ served' = served \cup {pcb} /\ handler = pc
  <2>1. handler = pc /\ pc \in Walks
    BY <1>1, <1>2 DEF Control, Walks
  <2>2. prev' = IF handler = "slow" THEN pcb ELSE prev
    BY <2>1, <1>2
  <2>3. QED
    BY <2>1, <2>2, <1>2, StampWalk
<1>22. /\ held' \in [PCBS -> Holds]
       /\ \A q \in PCBS : held[q] = "none" => held'[q] = "none"
  BY <1>1, <1>2, <1>20 DEF TypeOK, Holds, Refused
<1>21. /\ last_timer' \in [PCBS -> 0 .. CtrMod - 1]
       /\ \A q \in PCBS : last_timer'[q] = (IF q = pcb THEN tcp_timer_ctr ELSE last_timer[q])
       /\ served' = served \cup {pcb} /\ pcb \in PCBS /\ handler = "fast" /\ InList(pcb)
       /\ pcb' \in PCBS \cup {NULL} /\ prev' \in PCBS \cup {NULL}
       /\ held' \in [PCBS -> Holds]
       /\ \A q \in PCBS : held[q] = "none" => held'[q] = "none"
  BY <1>2, <1>20, <1>22
<1>3. ListStep(NULL) /\ \A q : InList(q)' <=> InList(q)
  BY <1>1, <1>2, SameList, PcbsAssumption
<1>4. TypeOK'
  <2>1. Fields /\ Subsets /\ Others
    BY <1>1, TypeParts
  <2>2. Fields'
    BY <2>1, <1>2, <1>21 DEF Fields
  <2>3. Subsets'
    BY <2>1, <1>2, <1>21 DEF Subsets
  <2>4. Others'
    BY <2>1, <1>2, <1>3, <1>21 DEF Others, ListStep, Callbacks
  <2>5. QED
    BY <2>2, <2>3, <2>4, TypeParts, PTL
<1>5. Pcbs'
  <2>1. SUFFICES ASSUME NEW q \in PCBS PROVE (Listed(q) /\ Owned(q) /\ Timed(q))'
    BY DEF Pcbs
  <2>2. Listed(q) /\ Owned(q) /\ Timed(q)
    BY <1>1, <1>2 DEF Pcbs
  <2>3. Listed(q)'
    BY <2>2, <1>1, <1>2, <1>3, <1>21 DEF Listed, Doomed, ActiveStates, Late
  <2>4. Owned(q)'
    BY <2>2, <1>1, <1>2, <1>3, <1>21 DEF Owned, Late
  <2>5. Timed(q)'
    BY <2>2, <1>1, <1>2, <1>3, <1>21 DEF Timed, Stamped
  <2>6. QED
    BY <2>3, <2>4, <2>5
<1>6. Control'
  BY <1>1, <1>2, <1>21 DEF Control, Late, Callbacks
<1>7. CurOK'
  <2>1. CASE pc' = "fast"
    BY <2>1 DEF CurOK, OfInput, Late, Callbacks
  <2>2. CASE pc' = "refused"
    <3>1. Refused(pcb) /\ cur' = pcb /\ freed' = {} /\ events' \subseteq {"FIN"}
      BY <2>2, <1>2
    <3>2. state'[cur'] \notin {"CLOSED", "SYN_SENT", "SYN_RCVD"}
      BY <3>1, <1>1, <1>2, <1>21 DEF Pcbs, Listed, Refused
    <3>3. InList(cur)'
      BY <3>1, <1>3, <1>21 DEF InList
    <3>4. QED
      BY <2>2, <3>1, <3>2, <3>3, <1>21 DEF CurOK, Late, OfInput
  <2>3. QED
    BY <2>1, <2>2, <1>2
<1>8. Ordered'
  BY <1>20
<1>9. Walk'
  BY <1>20
<1>10. QED
  BY <1>3, <1>4, <1>5, <1>6, <1>7, <1>8, <1>9 DEF IInv, ListStep


\* tcp_slowtmr removes a PCB.
LEMMA SlowtmrRemoveKeeps ==
  ASSUME IInv, NEW b, b = pcb, SlowtmrRemove
  PROVE  IInv'
<1>1. /\ TypeOK /\ IsInjective(active) /\ Pcbs /\ Control /\ CurOK /\ Ordered /\ Walk
      /\ NULL \notin PCBS
  BY Parts
<1>2. /\ UNCHANGED <<tw, bound, tcp_timer_ctr, prev, handler, events>>
      /\ pc = "slow" /\ Due /\ (prev = NULL) = (pcb = First)
      /\ active' = Unlinked /\ memp_free(b) /\ pcb' = NextOf(b)
      /\ owned' = owned \ {b} /\ served' = served \cup {b}
      /\ pc' = "timeout" /\ cur' = NULL /\ freed' = {} /\ changed' = FALSE
  BY DEF SlowtmrRemove, TCP_EVENT_ERR, Callback
<1>17. PICK n : n = NextOf(b)
  OBVIOUS
<1>18. /\ b # NULL /\ InList(b) /\ ~Stamped(b)
       /\ prev = NULL \/ InList(prev)
       /\ \A q \in PCBS : Before(active, q, b) => Stamped(q)
       /\ prev # NULL => pcb = NextOf(prev)
       /\ handler = "slow"
  BY <1>1, <1>2 DEF Walk, Due, Stamped, Control, Walks
<1>19. Unlinked = Without(b) /\ (prev # NULL => NextIn(Unlinked, prev) = n)
  BY <1>1, <1>2, <1>17, <1>18, UnlinkFacts
<1>20. active' = Without(b) /\ b \in PCBS
  BY <1>1, <1>2, <1>18, <1>19 DEF TypeOK
<1>22. pcb' \in PCBS \cup {NULL}
  <2>1. n = NULL \/ InList(n)
    BY <1>1, <1>17, <1>18, NextFacts
  <2>2. QED
    BY <2>1, <1>1, <1>2, <1>17 DEF InList, ToSet, TypeOK
<1>23. /\ \A q \in PCBS : state'[q] = (IF q = b THEN "FREE" ELSE state[q])
       /\ \A q \in PCBS : held'[q] = (IF q = b THEN "none" ELSE held[q])
       /\ \A q \in PCBS : q # b => last_timer'[q] = last_timer[q]
       /\ state' \in [PCBS -> States] /\ held' \in [PCBS -> Holds]
       /\ last_timer' \in [PCBS -> 0 .. CtrMod - 1]
       /\ rxclosed' = rxclosed \ {b} /\ local_port' = local_port \ {b}
  BY <1>1, <1>2, <1>20, FreeFields
<1>21. /\ \A q \in PCBS : state'[q] = (IF q = b THEN "FREE" ELSE state[q])
       /\ \A q \in PCBS : held'[q] = (IF q = b THEN "none" ELSE held[q])
       /\ \A q \in PCBS : q # b => last_timer'[q] = last_timer[q]
       /\ state' \in [PCBS -> States] /\ held' \in [PCBS -> Holds]
       /\ last_timer' \in [PCBS -> 0 .. CtrMod - 1]
       /\ rxclosed' = rxclosed \ {b} /\ local_port' = local_port \ {b}
       /\ b \in PCBS /\ InList(b) /\ pcb' \in PCBS \cup {NULL}
  BY <1>18, <1>20, <1>22, <1>23
<1>3. ListStep(b) /\ \A q : InList(q)' <=> InList(q) /\ q # b
  BY <1>1, <1>20, RmvList
<1>4. TypeOK'
  <2>1. Fields /\ Subsets /\ Others
    BY <1>1, TypeParts
  <2>2. Fields'
    BY <2>1, <1>2, <1>21 DEF Fields
  <2>3. Subsets'
    BY <2>1, <1>2, <1>21 DEF Subsets
  <2>4. Others'
    BY <2>1, <1>2, <1>3, <1>21 DEF Others, ListStep, Callbacks
  <2>5. QED
    BY <2>2, <2>3, <2>4, TypeParts, PTL
<1>5. Pcbs'
  <2>1. SUFFICES ASSUME NEW q \in PCBS PROVE (Listed(q) /\ Owned(q) /\ Timed(q))'
    BY DEF Pcbs
  <2>2. Listed(q) /\ Owned(q) /\ Timed(q) /\ Listed(b) /\ Owned(b) /\ Timed(b)
    BY <1>1, <1>20 DEF Pcbs
  <2>3. Listed(q)'
    BY <2>2, <1>1, <1>2, <1>3, <1>21 DEF Listed, Doomed, ActiveStates, Late
  <2>4. Owned(q)'
    BY <2>2, <1>1, <1>2, <1>3, <1>21 DEF Owned, Late
  <2>5. Timed(q)'
    BY <2>2, <1>1, <1>2, <1>3, <1>18, <1>21 DEF Timed, Walks, Stamped
  <2>6. QED
    BY <2>3, <2>4, <2>5
<1>6. Control'
  BY <1>1, <1>2, <1>21 DEF Control, Callbacks, Late
<1>7. CurOK'
  BY <1>2 DEF CurOK, OfInput, Late, Callbacks
<1>8. Ordered'
  BY <1>1, <1>2, <1>3, <1>21, OrderStep
<1>9. Walk'
  <2>1. /\ n = NULL => \A q : InList(q) => q = b \/ Before(active, q, b)
        /\ n # NULL => InList(n) /\ n # b /\ Before(active, b, n)
        /\ n # NULL => \A q : Before(active, q, n) => q = b \/ Before(active, q, b)
    BY <1>1, <1>17, <1>18, NextFacts
  <2>2. pcb' = n /\ prev' = prev
    BY <1>2, <1>17
  <2>3. \A q : InList(q) => q \in PCBS
    BY <1>1 DEF InList, ToSet, TypeOK
  <2>4. n # NULL => n \in PCBS /\ ~Stamped(n) /\ InList(n)'
    BY <2>1, <2>3, <1>1, <1>3, <1>18 DEF Ordered
  <2>5. \A q \in PCBS : q # b => (Stamped(q)' <=> Stamped(q))
    BY <1>2, <1>21 DEF Stamped
  <2>6. pcb' = NULL \/ InList(pcb)'
    BY <2>2, <2>4 DEF InList
  <2>7. prev' = NULL \/ InList(prev)'
    <3>1. prev # NULL => prev # b
      <4>1. prev # NULL /\ prev \in PCBS => prev # NextOf(prev)
        BY <1>1, <1>18, NextFacts
      <4>2. QED
        BY <4>1, <2>3, <1>18, <1>2
    <3>2. prev # NULL => prev \in ToSet(active')
      BY <3>1, <1>3, <1>18 DEF InList
    <3>3. QED
      BY <3>2, <2>2 DEF InList
  <2>8. pcb' = NULL => \A q \in PCBS : InList(q)' => Stamped(q)'
    BY <2>1, <2>2, <2>5, <1>3, <1>18
  <2>9. ASSUME NEW q \in PCBS, Before(active, q, pcb)' PROVE Stamped(q)'
    <3>1. Before(active', q, n)
      BY <2>2, <2>9 DEF Before
    <3>5. InList(q)'
      BY <3>1 DEF InList, Before, ToSet
    <3>2. q # b /\ Before(active, q, n)
      BY <3>1, <3>5, <1>3 DEF ListStep
    <3>3. n # NULL
      BY <3>2, <2>3, <1>1, BeforeIn
    <3>4. QED
      BY <3>2, <3>3, <2>1, <2>5, <1>18
  <2>10. ASSUME prev' # NULL
         PROVE  handler' = "slow" /\ pcb' = NextOf(prev)' /\ (pcb' # NULL => ~Stamped(pcb)')
    <3>1. NextOf(prev)' = NextIn(active', prev)
      BY <2>2 DEF NextOf, NextIn
    <3>2. NextIn(active', prev) = n
      BY <2>2, <2>10, <1>2, <1>19
    <3>3. pcb' # NULL => ~Stamped(pcb)'
      BY <2>1, <2>2, <2>4, <1>2, <1>21 DEF Stamped
    <3>4. QED
      BY <3>1, <3>2, <3>3, <2>2, <1>2, <1>18
  <2>11. QED
    BY <2>6, <2>7, <2>8, <2>9, <2>10 DEF Walk
<1>10. QED
  BY <1>3, <1>4, <1>5, <1>6, <1>7, <1>8, <1>9 DEF IInv, ListStep

LEMMA SlowtmrAssertKeeps ==
  ASSUME IInv, SlowtmrAssertFails
  PROVE  IInv'
<1>1. /\ TypeOK /\ IsInjective(active) /\ Pcbs /\ Control /\ CurOK /\ Ordered /\ Walk
      /\ NULL \notin PCBS
  BY Parts
<1>2. /\ UNCHANGED <<state, local_port, rxclosed, held, last_timer, active, tw, bound, changed, tcp_timer_ctr,
                     pcb, prev, served, handler, cur, events, owned, freed>>
      /\ pc = "slow" /\ pc' = "assert"
  BY DEF SlowtmrAssertFails, pcbVars, listVars, walkVars
<1>3. ListStep(NULL) /\ \A q : InList(q)' <=> InList(q)
  BY <1>1, <1>2, SameList, PcbsAssumption
<1>4. TypeOK'
  <2>1. Fields /\ Subsets /\ Others
    BY <1>1, TypeParts
  <2>2. Fields'
    BY <2>1, <1>2 DEF Fields
  <2>3. Subsets'
    BY <2>1, <1>2 DEF Subsets
  <2>4. Others'
    BY <2>1, <1>2, <1>3 DEF Others, ListStep
  <2>5. QED
    BY <2>2, <2>3, <2>4, TypeParts, PTL
<1>5. Pcbs'
  <2>1. SUFFICES ASSUME NEW q \in PCBS PROVE (Listed(q) /\ Owned(q) /\ Timed(q))'
    BY DEF Pcbs
  <2>2. Listed(q) /\ Owned(q) /\ Timed(q)
    BY <1>1, <1>2 DEF Pcbs
  <2>3. Listed(q)'
    BY <2>2, <1>1, <1>2, <1>3 DEF Listed, Doomed, ActiveStates, Late
  <2>4. Owned(q)'
    BY <2>2, <1>1, <1>2, <1>3 DEF Owned, Late
  <2>5. Timed(q)'
    BY <2>2, <1>1, <1>2, <1>3 DEF Timed, Stamped
  <2>6. QED
    BY <2>3, <2>4, <2>5
<1>6. Control'
  BY <1>1, <1>2 DEF Control, Callbacks, Late
<1>7. CurOK'
  BY <1>2 DEF CurOK, OfInput, Late, Callbacks
<1>8. Ordered'
  BY <1>1, <1>2, StillOrdered
<1>9. Walk'
  BY <1>1, <1>2, WalkStep DEF Callbacks, Walks
<1>10. QED
  BY <1>3, <1>4, <1>5, <1>6, <1>7, <1>8, <1>9 DEF IInv, ListStep

LEMMA SlowtmrGoOnKeeps ==
  ASSUME IInv, SlowtmrGoOn
  PROVE  IInv'
<1>1. /\ TypeOK /\ IsInjective(active) /\ Pcbs /\ Control /\ CurOK /\ Ordered /\ Walk
      /\ NULL \notin PCBS
  BY Parts
<1>2. /\ UNCHANGED <<state, local_port, rxclosed, held, last_timer, active, tw, bound, changed, tcp_timer_ctr,
                     served, handler, owned>>
      /\ pc \in {"poll", "timeout"} /\ GoOn("slow")
      /\ pc' = "slow" /\ cur' = NULL /\ events' = {} /\ freed' = {}
  BY DEF SlowtmrGoOn, GoOn, pcbVars, listVars
<1>21. Walk' /\ pcb' \in PCBS \cup {NULL} /\ prev' \in PCBS \cup {NULL}
  BY <1>1, <1>2, GoOnWalk DEF Walks, Control
<1>3. ListStep(NULL) /\ \A q : InList(q)' <=> InList(q)
  BY <1>1, <1>2, SameList, PcbsAssumption
<1>4. TypeOK'
  <2>1. Fields /\ Subsets /\ Others
    BY <1>1, TypeParts
  <2>2. Fields'
    BY <2>1, <1>2, <1>21 DEF Fields
  <2>3. Subsets'
    BY <2>1, <1>2, <1>21 DEF Subsets
  <2>4. Others'
    BY <2>1, <1>2, <1>3, <1>21 DEF Others, ListStep
  <2>5. QED
    BY <2>2, <2>3, <2>4, TypeParts, PTL
<1>5. Pcbs'
  <2>1. SUFFICES ASSUME NEW q \in PCBS PROVE (Listed(q) /\ Owned(q) /\ Timed(q))'
    BY DEF Pcbs
  <2>2. Listed(q) /\ Owned(q) /\ Timed(q)
    BY <1>1, <1>2 DEF Pcbs
  <2>3. Listed(q)'
    BY <2>2, <1>1, <1>2, <1>3, <1>21 DEF Listed, Doomed, ActiveStates, Late
  <2>4. Owned(q)'
    BY <2>2, <1>1, <1>2, <1>3, <1>21 DEF Owned, Late
  <2>5. Timed(q)'
    BY <2>2, <1>1, <1>2, <1>3, <1>21 DEF Timed, Stamped
  <2>6. QED
    BY <2>3, <2>4, <2>5
<1>6. Control'
  BY <1>1, <1>2, <1>21 DEF Control, Callbacks, Late
<1>7. CurOK'
  BY <1>2 DEF CurOK, OfInput, Late, Callbacks
<1>8. Ordered'
  BY <1>1, <1>2, <1>21, StillOrdered
<1>9. Walk'
  BY <1>21
<1>10. QED
  BY <1>3, <1>4, <1>5, <1>6, <1>7, <1>8, <1>9 DEF IInv, ListStep

\* The end of a walk: every PCB of the list has been dealt with.
LEMMA SlowtmrDoneKeeps ==
  ASSUME IInv, SlowtmrDone
  PROVE  IInv'
<1>1. /\ TypeOK /\ IsInjective(active) /\ Pcbs /\ Control /\ CurOK /\ Ordered /\ Walk
      /\ NULL \notin PCBS
  BY Parts
<1>2. /\ UNCHANGED <<active, bound, changed, tcp_timer_ctr, pcb, cur, events, owned, freed>>
      /\ pc = "slow" /\ pcb = NULL /\ pc' = "main" /\ handler' = "none" /\ served' = {} /\ prev' = NULL
  BY DEF SlowtmrDone
<1>20. PICK old \in SUBSET tw :
         /\ tw' = tw \ old
         /\ state' = [p \in PCBS |-> IF p \in old THEN "FREE" ELSE state[p]]
         /\ held' = [p \in PCBS |-> IF p \in old THEN "none" ELSE held[p]]
         /\ last_timer' = [p \in PCBS |-> IF p \in old THEN 0 ELSE last_timer[p]]
         /\ rxclosed' = rxclosed \ old /\ local_port' = local_port \ old
  BY DEF SlowtmrDone
<1>22. /\ \A q \in PCBS : InList(q) => Stamped(q)
       /\ \A q \in PCBS : q \in old => state[q] = "TIME_WAIT" /\ q \notin owned /\ ~InList(q)
  <2>1. \A q \in PCBS : InList(q) => Stamped(q)
    BY <1>1, <1>2 DEF Walk, Control, Walks
  <2>2. \A q \in PCBS : q \in old => state[q] = "TIME_WAIT" /\ q \notin owned /\ ~InList(q)
    BY <1>1, <1>2, <1>20 DEF Pcbs, Listed, Owned, Late, ActiveStates
  <2>3. QED
    BY <2>1, <2>2
<1>23. /\ state' \in [PCBS -> States] /\ held' \in [PCBS -> Holds]
       /\ last_timer' \in [PCBS -> 0 .. CtrMod - 1]
  <2>1. 0 \in 0 .. CtrMod - 1
    BY PcbsAssumption
  <2>2. QED
    BY <2>1, <1>1, <1>20 DEF TypeOK, States, Holds
<1>21. /\ state' \in [PCBS -> States] /\ held' \in [PCBS -> Holds]
       /\ last_timer' \in [PCBS -> 0 .. CtrMod - 1]
       /\ tw' = tw \ old /\ rxclosed' = rxclosed \ old /\ local_port' = local_port \ old
       /\ \A q \in PCBS : q \in old => state[q] = "TIME_WAIT" /\ q \notin owned /\ ~InList(q)
       /\ \A q \in PCBS : q \in old => state'[q] = "FREE" /\ held'[q] = "none"
       /\ \A q \in PCBS : q \notin old => state'[q] = state[q] /\ held'[q] = held[q]
       /\ \A q \in PCBS : InList(q) => last_timer'[q] = last_timer[q] /\ Stamped(q)
  BY <1>20, <1>22, <1>23
<1>3. ListStep(NULL) /\ \A q : InList(q)' <=> InList(q)
  BY <1>1, <1>2, SameList, PcbsAssumption
<1>4. TypeOK'
  <2>1. Fields /\ Subsets /\ Others
    BY <1>1, TypeParts
  <2>2. Fields'
    BY <2>1, <1>2, <1>21 DEF Fields
  <2>3. Subsets'
    BY <2>1, <1>2, <1>21 DEF Subsets
  <2>4. Others'
    BY <2>1, <1>2, <1>3, <1>21 DEF Others, ListStep
  <2>5. QED
    BY <2>2, <2>3, <2>4, TypeParts, PTL
<1>5. Pcbs'
  <2>1. SUFFICES ASSUME NEW q \in PCBS PROVE (Listed(q) /\ Owned(q) /\ Timed(q))'
    BY DEF Pcbs
  <2>2. Listed(q) /\ Owned(q) /\ Timed(q)
    BY <1>1, <1>2 DEF Pcbs
  <2>3. Listed(q)'
    BY <2>2, <1>1, <1>2, <1>3, <1>21 DEF Listed, Doomed, ActiveStates, Late
  <2>4. Owned(q)'
    BY <2>2, <1>1, <1>2, <1>3, <1>21 DEF Owned, Late
  <2>5. Timed(q)'
    BY <2>2, <1>1, <1>2, <1>3, <1>21 DEF Timed, Stamped
  <2>6. QED
    BY <2>3, <2>4, <2>5
<1>6. Control'
  BY <1>1, <1>2, <1>21 DEF Control, Callbacks, Late
<1>7. CurOK'
  BY <1>2 DEF CurOK, OfInput, Late, Callbacks
<1>8. Ordered'
  BY <1>1, <1>2, <1>21, StillOrdered
<1>9. Walk'
  BY <1>1, <1>2, <1>21, WalkStep DEF Callbacks, Walks
<1>10. QED
  BY <1>3, <1>4, <1>5, <1>6, <1>7, <1>8, <1>9 DEF IInv, ListStep

LEMMA FasttmrDoneKeeps ==
  ASSUME IInv, FasttmrDone
  PROVE  IInv'
<1>1. /\ TypeOK /\ IsInjective(active) /\ Pcbs /\ Control /\ CurOK /\ Ordered /\ Walk
      /\ NULL \notin PCBS
  BY Parts
<1>2. /\ UNCHANGED <<state, local_port, rxclosed, held, last_timer, active, tw, bound, changed, tcp_timer_ctr,
                     pcb, prev, cur, events, owned, freed>>
      /\ pc = "fast" /\ pcb = NULL /\ pc' = "main" /\ handler' = "none" /\ served' = {}
  BY DEF FasttmrDone, pcbVars, listVars
<1>21. \A q \in PCBS : InList(q) => Stamped(q)
  BY <1>1, <1>2 DEF Walk, Control, Walks
<1>3. ListStep(NULL) /\ \A q : InList(q)' <=> InList(q)
  BY <1>1, <1>2, SameList, PcbsAssumption
<1>4. TypeOK'
  <2>1. Fields /\ Subsets /\ Others
    BY <1>1, TypeParts
  <2>2. Fields'
    BY <2>1, <1>2, <1>21 DEF Fields
  <2>3. Subsets'
    BY <2>1, <1>2, <1>21 DEF Subsets
  <2>4. Others'
    BY <2>1, <1>2, <1>3, <1>21 DEF Others, ListStep
  <2>5. QED
    BY <2>2, <2>3, <2>4, TypeParts, PTL
<1>5. Pcbs'
  <2>1. SUFFICES ASSUME NEW q \in PCBS PROVE (Listed(q) /\ Owned(q) /\ Timed(q))'
    BY DEF Pcbs
  <2>2. Listed(q) /\ Owned(q) /\ Timed(q)
    BY <1>1, <1>2 DEF Pcbs
  <2>3. Listed(q)'
    BY <2>2, <1>1, <1>2, <1>3, <1>21 DEF Listed, Doomed, ActiveStates, Late
  <2>4. Owned(q)'
    BY <2>2, <1>1, <1>2, <1>3, <1>21 DEF Owned, Late
  <2>5. Timed(q)'
    BY <2>2, <1>1, <1>2, <1>3, <1>21 DEF Timed, Stamped
  <2>6. QED
    BY <2>3, <2>4, <2>5
<1>6. Control'
  BY <1>1, <1>2, <1>21 DEF Control, Callbacks, Late
<1>7. CurOK'
  BY <1>2 DEF CurOK, OfInput, Late, Callbacks
<1>8. Ordered'
  BY <1>1, <1>2, <1>21, StillOrdered
<1>9. Walk'
  BY <1>1, <1>2, <1>21, WalkStep DEF Callbacks, Walks
<1>10. QED
  BY <1>3, <1>4, <1>5, <1>6, <1>7, <1>8, <1>9 DEF IInv, ListStep

\* Every step of the timers.
LEMMA TimersKeep ==
  ASSUME IInv, Timers
  PROVE  IInv'
<1>1. ASSUME SlowtmrRemove PROVE IInv'
  <2>1. PICK b : b = pcb
    OBVIOUS
  <2>2. QED
    BY <1>1, <2>1, SlowtmrRemoveKeeps
<1>2. ASSUME Start("slow") \/ Start("fast") PROVE IInv'
  BY <1>2, StartKeeps DEF Walks
<1>3. QED
  BY <1>1, <1>2, SkipKeeps, SlowtmrKeepKeeps, SlowtmrAssertKeeps, SlowtmrGoOnKeeps,
     SlowtmrDoneKeeps, FasttmrVisitKeeps, FasttmrDoneKeeps DEF Timers


-----------------------------------------------------------------------------
(***************************************************************************)
(* tcp_input.                                                              *)
(***************************************************************************)
\* The callback for refused data returns: tcp_fasttmr or tcp_input goes on.
LEMMA RefusedKeeps ==
  ASSUME IInv, RefusedAborted \/ RefusedTaken \/ RefusedAgain \/ RefusedEof
  PROVE  IInv'
<1>1. /\ TypeOK /\ IsInjective(active) /\ Pcbs /\ Control /\ CurOK /\ Ordered /\ Walk
      /\ NULL \notin PCBS
  BY Parts
<1>2. /\ UNCHANGED <<state, local_port, rxclosed, last_timer, active, tw, bound, changed, tcp_timer_ctr, served>>
      /\ pc \in {"refused", "refused_eof"}
      /\ \/ UNCHANGED held
         \/ /\ "ABRT" \notin events
            /\ \/ held' = [held EXCEPT ![cur] = "refused"]
               \/ held' = [held EXCEPT ![cur] = "refused_fin"]
      /\ \/ UNCHANGED owned
         \/ "ABRT" \notin events /\ owned' = OwnedAfterEof
      /\ \/ handler = "fast" /\ GoOn("fast")
         \/ /\ handler = "input" /\ "ABRT" \notin events /\ pc' = "process" /\ events' = {}
            /\ UNCHANGED <<handler, cur, freed, pcb, prev>>
         \/ handler = "input" /\ Finish /\ UNCHANGED <<pcb, prev>>
         \/ /\ pc = "refused" /\ "ABRT" \notin events /\ pc' = "refused_eof" /\ events' = {}
            /\ freed' = {} /\ UNCHANGED <<handler, cur, pcb, prev>>
  <2>1. handler \in {"fast", "input"}
    BY <1>1 DEF Control, RefusedAborted, RefusedTaken, RefusedAgain, RefusedEof
  <2>2. ASSUME GoOn("fast") PROVE UNCHANGED listVars /\ UNCHANGED <<tcp_timer_ctr, served>>
    BY <2>2 DEF GoOn, listVars
  <2>3. pc \in {"refused", "refused_eof"} => (Aborted <=> "ABRT" \in events)
    BY DEF Aborted, Callbacks
  <2>4. CASE RefusedAborted
    BY <2>1, <2>2, <2>4 DEF RefusedAborted, pcbVars, listVars, walkVars
  <2>5. CASE RefusedTaken
    BY <2>1, <2>2, <2>3, <2>5 DEF RefusedTaken, AfterOffer, At, Callback, pcbVars, listVars, walkVars
  <2>6. CASE RefusedAgain
    BY <2>1, <2>2, <2>3, <2>6 DEF RefusedAgain, AfterOffer, At, listVars, walkVars
  <2>7. CASE RefusedEof
    BY <2>1, <2>2, <2>3, <2>7 DEF RefusedEof, AfterOffer, At, pcbVars, listVars, walkVars
  <2>8. QED
    BY <2>4, <2>5, <2>6, <2>7
<1>20. "ABRT" \notin events => /\ cur \in PCBS /\ InList(cur) /\ cur \notin freed
                                /\ state[cur] \in ActiveStates \ {"SYN_SENT", "SYN_RCVD"}
  BY <1>1, <1>2 DEF CurOK, OfInput, Callbacks, Late, Pcbs, Listed
<1>22. /\ \A q \in PCBS : q # cur => held'[q] = held[q] /\ (q \in owned' <=> q \in owned)
       /\ "ABRT" \in events => UNCHANGED <<held, owned>>
       /\ held' \in [PCBS -> Holds] /\ owned' \subseteq owned
  BY <1>1, <1>2, <1>20 DEF TypeOK, Holds, OwnedAfterEof
<1>23. /\ Walk' /\ pcb' \in PCBS \cup {NULL} /\ prev' \in PCBS \cup {NULL}
  <2>1. CASE handler = "fast" /\ GoOn("fast")
    BY <2>1, <1>2, GoOnWalk DEF Walks
  <2>2. CASE ~(handler = "fast" /\ GoOn("fast"))
    <3>1. UNCHANGED <<pcb, prev>> /\ pc' \notin Walks /\ (handler' \in Walks => handler' = handler)
      BY <2>2, <1>2 DEF Finish, Walks
    <3>2. Walk'
      BY <3>1, <1>1, <1>2, WalkStep
    <3>3. QED
      BY <3>1, <3>2, <1>1, TypeParts DEF Others
  <2>3. QED
    BY <2>1, <2>2
<1>24. /\ pc' \in {"fast", "process", "main", "refused_eof"} /\ events' = {}
       /\ pc' \in {"fast", "main"} => cur' = NULL
       /\ pc' = "fast" => handler' = "fast"
       /\ pc' = "main" => handler' = "none"
       /\ pc' = "process" => handler' = "input" /\ "ABRT" \notin events /\ cur' = cur
       /\ pc' = "refused_eof" => /\ handler' \in {"fast", "input"} /\ "ABRT" \notin events
                                 /\ cur' = cur /\ freed' = {}
       /\ freed' \subseteq freed
       /\ handler' \in {"none", "fast", "input"}
       /\ handler' \notin Walks => handler \notin Walks
       /\ cur' \in {cur, NULL}
  <2>1. handler \in {"fast", "input"}
    BY <1>1, <1>2 DEF Control
  <2>2. QED
    BY <2>1, <1>2 DEF Finish, GoOn, Walks
<1>25. /\ UNCHANGED <<state, local_port, rxclosed, last_timer, active, tw, bound>>
       /\ pc \in {"refused", "refused_eof"}
  BY <1>2
<1>3. ListStep(NULL) /\ \A q : InList(q)' <=> InList(q)
  BY <1>1, <1>2, SameList, PcbsAssumption
<1>4. TypeOK'
  <2>1. Fields /\ Subsets /\ Others
    BY <1>1, TypeParts
  <2>2. Fields'
    BY <2>1, <1>22, <1>25 DEF Fields
  <2>3. Subsets'
    BY <2>1, <1>2, <1>22, <1>24 DEF Subsets
  <2>4. Others'
    BY <2>1, <1>2, <1>23, <1>24 DEF Others, Callbacks
  <2>5. QED
    BY <2>2, <2>3, <2>4, TypeParts, PTL
<1>5. Pcbs'
  <2>1. SUFFICES ASSUME NEW q \in PCBS PROVE (Listed(q) /\ Owned(q) /\ Timed(q))'
    BY DEF Pcbs
  <2>2. Listed(q) /\ Owned(q) /\ Timed(q)
    BY <1>1 DEF Pcbs
  <2>3. Listed(q)'
    BY <2>2, <1>3, <1>20, <1>22, <1>25 DEF Listed, Doomed, ActiveStates
  <2>4. Owned(q)'
    BY <2>2, <1>22, <1>25 DEF Owned, Late
  <2>5. Timed(q)'
    BY <2>2, <1>2, <1>3, <1>24 DEF Timed, Stamped
  <2>6. QED
    BY <2>3, <2>4, <2>5
<1>6. Control'
  BY <1>24 DEF Control, Late, Callbacks
<1>7. CurOK'
  <2>1. CASE pc' \in {"fast", "main"}
    BY <2>1 DEF CurOK, OfInput, Late, Callbacks
  <2>2. CASE pc' \in {"process", "refused_eof"}
    <3>1. cur' \in PCBS /\ InList(cur)' /\ state'[cur'] \in ActiveStates \ {"SYN_SENT", "SYN_RCVD"}
      BY <2>2, <1>2, <1>3, <1>20, <1>24 DEF InList
    <3>2. QED
      BY <2>2, <3>1, <1>24 DEF CurOK, Late, OfInput, Callbacks, ActiveStates
  <2>3. QED
    BY <2>1, <2>2, <1>24
<1>8. Ordered'
  BY <1>1, <1>2, StillOrdered
<1>9. Walk'
  BY <1>23
<1>10. QED
  BY <1>3, <1>4, <1>5, <1>6, <1>7, <1>8, <1>9 DEF IInv, ListStep


LEMMA ProcessResetKeeps ==
  ASSUME IInv, ProcessReset
  PROVE  IInv'
<1>1. /\ TypeOK /\ IsInjective(active) /\ Pcbs /\ Control /\ CurOK /\ Ordered /\ Walk
      /\ NULL \notin PCBS
  BY Parts
<1>2. /\ UNCHANGED <<state, local_port, rxclosed, held, last_timer, active, tw, bound, changed, tcp_timer_ctr,
                     pcb, prev, served, handler, cur, events>>
      /\ handler = "input"
      /\ pc = "process" /\ pc' = "reset" /\ freed' = {} /\ owned' = owned \ {cur}
  BY <1>1 DEF Control, Late, ProcessReset, TCP_EVENT_ERR, Callback, pcbVars, listVars, walkVars
<1>20. /\ cur \in PCBS /\ "ABRT" \notin events /\ InList(cur)
  BY <1>1, <1>2 DEF CurOK, Control, Late, OfInput, Callbacks, Pcbs, Listed, Aborted
<1>21. cur \in PCBS /\ InList(cur) /\ "CLOSED" \notin events /\ state[cur] \in ActiveStates
  BY <1>1, <1>2, <1>20 DEF Control, Pcbs, Listed
<1>3. ListStep(NULL) /\ \A q : InList(q)' <=> InList(q)
  BY <1>1, <1>2, SameList, PcbsAssumption
<1>4. TypeOK'
  <2>1. Fields /\ Subsets /\ Others
    BY <1>1, TypeParts
  <2>2. Fields'
    BY <2>1, <1>2, <1>21 DEF Fields
  <2>3. Subsets'
    BY <2>1, <1>2, <1>21 DEF Subsets
  <2>4. Others'
    BY <2>1, <1>2, <1>3, <1>21 DEF Others, ListStep, Callbacks
  <2>5. QED
    BY <2>2, <2>3, <2>4, TypeParts, PTL
<1>5. Pcbs'
  <2>1. SUFFICES ASSUME NEW q \in PCBS PROVE (Listed(q) /\ Owned(q) /\ Timed(q))'
    BY DEF Pcbs
  <2>2. Listed(q) /\ Owned(q) /\ Timed(q)
    BY <1>1, <1>2 DEF Pcbs
  <2>3. Listed(q)'
    BY <2>2, <1>1, <1>2, <1>3, <1>21 DEF Listed, Doomed, ActiveStates, Late
  <2>4. Owned(q)'
    BY <2>2, <1>1, <1>2, <1>3, <1>21 DEF Owned, Late
  <2>5. Timed(q)'
    BY <2>2, <1>1, <1>2, <1>3, <1>21 DEF Timed, Stamped
  <2>6. QED
    BY <2>3, <2>4, <2>5
<1>6. Control'
  BY <1>1, <1>2, <1>21 DEF Control, Late, Callbacks, Walks
<1>7. CurOK'
  BY <1>1, <1>2, <1>3, <1>21 DEF CurOK, Doomed, Refused, Late, OfInput, Callbacks
<1>8. Ordered'
  BY <1>1, <1>2, <1>21, StillOrdered
<1>9. Walk'
  BY <1>1, <1>2, <1>21, WalkStep DEF Callbacks, Walks
<1>10. QED
  BY <1>3, <1>4, <1>5, <1>6, <1>7, <1>8, <1>9 DEF IInv, ListStep

LEMMA ProcessNothingKeeps ==
  ASSUME IInv, ProcessNothing
  PROVE  IInv'
<1>1. /\ TypeOK /\ IsInjective(active) /\ Pcbs /\ Control /\ CurOK /\ Ordered /\ Walk
      /\ NULL \notin PCBS
  BY Parts
<1>2. /\ UNCHANGED <<state, local_port, rxclosed, held, last_timer, active, tw, bound, changed, tcp_timer_ctr,
                     pcb, prev, served, handler, cur, owned, freed>>
      /\ handler = "input"
      /\ pc = "process" /\ pc' = "events" /\ events' \subseteq {"ACKED"}
      /\ state[cur] \in {"SYN_SENT", "SYN_RCVD"} => events' = {}
  BY <1>1 DEF Control, Late, ProcessNothing, At, pcbVars, listVars, walkVars
<1>20. /\ cur \in PCBS /\ "ABRT" \notin events /\ InList(cur)
  BY <1>1, <1>2 DEF CurOK, Control, Late, OfInput, Callbacks, Pcbs, Listed, Aborted
<1>21. cur \in PCBS /\ InList(cur) /\ "CLOSED" \notin events' /\ "ABRT" \notin events' /\ "FIN" \notin events'
  BY <1>2, <1>20
<1>3. ListStep(NULL) /\ \A q : InList(q)' <=> InList(q)
  BY <1>1, <1>2, SameList, PcbsAssumption
<1>4. TypeOK'
  <2>1. Fields /\ Subsets /\ Others
    BY <1>1, TypeParts
  <2>2. Fields'
    BY <2>1, <1>2, <1>21 DEF Fields
  <2>3. Subsets'
    BY <2>1, <1>2, <1>21 DEF Subsets
  <2>4. Others'
    BY <2>1, <1>2, <1>3, <1>21 DEF Others, ListStep, Callbacks
  <2>5. QED
    BY <2>2, <2>3, <2>4, TypeParts, PTL
<1>5. Pcbs'
  <2>1. SUFFICES ASSUME NEW q \in PCBS PROVE (Listed(q) /\ Owned(q) /\ Timed(q))'
    BY DEF Pcbs
  <2>2. Listed(q) /\ Owned(q) /\ Timed(q)
    BY <1>1, <1>2 DEF Pcbs
  <2>3. Listed(q)'
    BY <2>2, <1>1, <1>2, <1>3, <1>21 DEF Listed, Doomed, ActiveStates, Late
  <2>4. Owned(q)'
    BY <2>2, <1>1, <1>2, <1>3, <1>21 DEF Owned, Late
  <2>5. Timed(q)'
    BY <2>2, <1>1, <1>2, <1>3, <1>21 DEF Timed, Stamped
  <2>6. QED
    BY <2>3, <2>4, <2>5
<1>6. Control'
  BY <1>1, <1>2, <1>21 DEF Control, Late, Callbacks, Walks
<1>7. CurOK'
  BY <1>1, <1>2, <1>3, <1>21 DEF CurOK, Doomed, Refused, Late, OfInput, Callbacks
<1>8. Ordered'
  BY <1>1, <1>2, <1>21, StillOrdered
<1>9. Walk'
  BY <1>1, <1>2, <1>21, WalkStep DEF Callbacks, Walks
<1>10. QED
  BY <1>3, <1>4, <1>5, <1>6, <1>7, <1>8, <1>9 DEF IInv, ListStep

LEMMA SynSentKeeps ==
  ASSUME IInv, ProcessSynSent
  PROVE  IInv'
<1>1. /\ TypeOK /\ IsInjective(active) /\ Pcbs /\ Control /\ CurOK /\ Ordered /\ Walk
      /\ NULL \notin PCBS
  BY Parts
<1>2. /\ UNCHANGED <<local_port, rxclosed, held, last_timer, active, tw, bound, changed, tcp_timer_ctr, pcb,
                     prev, served, handler, cur, events, owned>>
      /\ handler = "input"
      /\ pc = "process" /\ state[cur] = "SYN_SENT" /\ pc' = "connected" /\ freed' = {}
      /\ state' = SetState(cur, "ESTABLISHED")
  BY <1>1 DEF Control, Late, ProcessSynSent, Callback, listVars, walkVars
<1>20. /\ cur \in PCBS /\ "ABRT" \notin events /\ InList(cur)
  BY <1>1, <1>2 DEF CurOK, Control, Late, OfInput, Callbacks, Pcbs, Listed, Aborted
<1>21. /\ \A q \in PCBS : state'[q] = (IF q = cur THEN "ESTABLISHED" ELSE state[q])
       /\ state' \in [PCBS -> States] /\ "CLOSED" \notin events
       /\ cur \in PCBS /\ InList(cur) /\ held[cur] = "none"
  <2>1. "CLOSED" \notin events
    BY <1>1, <1>2 DEF Control
  <2>2. held[cur] = "none"
    BY <1>1, <1>2, <1>20 DEF Pcbs, Listed
  <2>3. /\ \A q \in PCBS : state'[q] = (IF q = cur THEN "ESTABLISHED" ELSE state[q])
        /\ state' \in [PCBS -> States]
    BY <1>1, <1>2, <1>20, StateField DEF States, ActiveStates
  <2>4. QED
    BY <2>1, <2>2, <2>3, <1>20
<1>3. ListStep(NULL) /\ \A q : InList(q)' <=> InList(q)
  BY <1>1, <1>2, SameList, PcbsAssumption
<1>4. TypeOK'
  <2>1. Fields /\ Subsets /\ Others
    BY <1>1, TypeParts
  <2>2. Fields'
    BY <2>1, <1>2, <1>21 DEF Fields
  <2>3. Subsets'
    BY <2>1, <1>2, <1>21 DEF Subsets
  <2>4. Others'
    BY <2>1, <1>2, <1>3, <1>21 DEF Others, ListStep, Callbacks
  <2>5. QED
    BY <2>2, <2>3, <2>4, TypeParts, PTL
<1>5. Pcbs'
  <2>1. SUFFICES ASSUME NEW q \in PCBS PROVE (Listed(q) /\ Owned(q) /\ Timed(q))'
    BY DEF Pcbs
  <2>2. Listed(q) /\ Owned(q) /\ Timed(q)
    BY <1>1, <1>2 DEF Pcbs
  <2>3. Listed(q)'
    BY <2>2, <1>1, <1>2, <1>3, <1>21 DEF Listed, Doomed, ActiveStates, Late
  <2>4. Owned(q)'
    BY <2>2, <1>1, <1>2, <1>3, <1>21 DEF Owned, Late
  <2>5. Timed(q)'
    BY <2>2, <1>1, <1>2, <1>3, <1>21 DEF Timed, Stamped
  <2>6. QED
    BY <2>3, <2>4, <2>5
<1>6. Control'
  BY <1>1, <1>2, <1>21 DEF Control, Late, Callbacks, Walks
<1>7. CurOK'
  BY <1>1, <1>2, <1>3, <1>21 DEF CurOK, Doomed, Refused, Late, OfInput, Callbacks
<1>8. Ordered'
  BY <1>1, <1>2, <1>21, StillOrdered
<1>9. Walk'
  BY <1>1, <1>2, <1>21, WalkStep DEF Callbacks, Walks
<1>10. QED
  BY <1>3, <1>4, <1>5, <1>6, <1>7, <1>8, <1>9 DEF IInv, ListStep

LEMMA SynRcvdKeeps ==
  ASSUME IInv, ProcessSynRcvd
  PROVE  IInv'
<1>1. /\ TypeOK /\ IsInjective(active) /\ Pcbs /\ Control /\ CurOK /\ Ordered /\ Walk
      /\ NULL \notin PCBS
  BY Parts
<1>2. /\ UNCHANGED <<local_port, rxclosed, held, last_timer, active, tw, bound, changed, tcp_timer_ctr, pcb,
                     prev, served, handler, cur, events>>
      /\ handler = "input"
      /\ pc = "process" /\ state[cur] = "SYN_RCVD" /\ pc' = "accept" /\ freed' = {}
      /\ state' = SetState(cur, "ESTABLISHED") /\ owned' = owned \cup {cur}
  BY <1>1 DEF Control, Late, ProcessSynRcvd, Callback, listVars, walkVars
<1>20. /\ cur \in PCBS /\ "ABRT" \notin events /\ InList(cur)
  BY <1>1, <1>2 DEF CurOK, Control, Late, OfInput, Callbacks, Pcbs, Listed, Aborted
<1>21. /\ \A q \in PCBS : state'[q] = (IF q = cur THEN "ESTABLISHED" ELSE state[q])
       /\ state' \in [PCBS -> States] /\ "CLOSED" \notin events
       /\ cur \in PCBS /\ InList(cur) /\ held[cur] = "none"
  <2>1. "CLOSED" \notin events
    BY <1>1, <1>2 DEF Control
  <2>2. held[cur] = "none"
    BY <1>1, <1>2, <1>20 DEF Pcbs, Listed
  <2>3. /\ \A q \in PCBS : state'[q] = (IF q = cur THEN "ESTABLISHED" ELSE state[q])
        /\ state' \in [PCBS -> States]
    BY <1>1, <1>2, <1>20, StateField DEF States, ActiveStates
  <2>4. QED
    BY <2>1, <2>2, <2>3, <1>20
<1>3. ListStep(NULL) /\ \A q : InList(q)' <=> InList(q)
  BY <1>1, <1>2, SameList, PcbsAssumption
<1>4. TypeOK'
  <2>1. Fields /\ Subsets /\ Others
    BY <1>1, TypeParts
  <2>2. Fields'
    BY <2>1, <1>2, <1>21 DEF Fields
  <2>3. Subsets'
    BY <2>1, <1>2, <1>21 DEF Subsets
  <2>4. Others'
    BY <2>1, <1>2, <1>3, <1>21 DEF Others, ListStep, Callbacks
  <2>5. QED
    BY <2>2, <2>3, <2>4, TypeParts, PTL
<1>5. Pcbs'
  <2>1. SUFFICES ASSUME NEW q \in PCBS PROVE (Listed(q) /\ Owned(q) /\ Timed(q))'
    BY DEF Pcbs
  <2>2. Listed(q) /\ Owned(q) /\ Timed(q)
    BY <1>1, <1>2 DEF Pcbs
  <2>3. Listed(q)'
    BY <2>2, <1>1, <1>2, <1>3, <1>21 DEF Listed, Doomed, ActiveStates, Late
  <2>4. Owned(q)'
    BY <2>2, <1>1, <1>2, <1>3, <1>21 DEF Owned, Late
  <2>5. Timed(q)'
    BY <2>2, <1>1, <1>2, <1>3, <1>21 DEF Timed, Stamped
  <2>6. QED
    BY <2>3, <2>4, <2>5
<1>6. Control'
  BY <1>1, <1>2, <1>21 DEF Control, Late, Callbacks, Walks
<1>7. CurOK'
  BY <1>1, <1>2, <1>3, <1>21 DEF CurOK, Doomed, Refused, Late, OfInput, Callbacks
<1>8. Ordered'
  BY <1>1, <1>2, <1>21, StillOrdered
<1>9. Walk'
  BY <1>1, <1>2, <1>21, WalkStep DEF Callbacks, Walks
<1>10. QED
  BY <1>3, <1>4, <1>5, <1>6, <1>7, <1>8, <1>9 DEF IInv, ListStep

LEMMA InputAbortedKeeps ==
  ASSUME IInv, InputAborted
  PROVE  IInv'
<1>1. /\ TypeOK /\ IsInjective(active) /\ Pcbs /\ Control /\ CurOK /\ Ordered /\ Walk
      /\ NULL \notin PCBS
  BY Parts
<1>2. /\ UNCHANGED <<state, local_port, rxclosed, held, last_timer, active, tw, bound, changed, tcp_timer_ctr,
                     pcb, prev, served, owned>>
      /\ handler = "input"
      /\ "ABRT" \in events
      /\ pc' = "main" /\ handler' = "none" /\ cur' = NULL /\ events' = {} /\ freed' = {}
  BY <1>1 DEF Control, Late, InputAborted, Aborted, Finish, pcbVars, listVars, walkVars
<1>21. cur \notin owned
  BY <1>1, <1>2 DEF Control
<1>3. ListStep(NULL) /\ \A q : InList(q)' <=> InList(q)
  BY <1>1, <1>2, SameList, PcbsAssumption
<1>4. TypeOK'
  <2>1. Fields /\ Subsets /\ Others
    BY <1>1, TypeParts
  <2>2. Fields'
    BY <2>1, <1>2, <1>21 DEF Fields
  <2>3. Subsets'
    BY <2>1, <1>2, <1>21 DEF Subsets
  <2>4. Others'
    BY <2>1, <1>2, <1>3, <1>21 DEF Others, ListStep, Callbacks
  <2>5. QED
    BY <2>2, <2>3, <2>4, TypeParts, PTL
<1>5. Pcbs'
  <2>1. SUFFICES ASSUME NEW q \in PCBS PROVE (Listed(q) /\ Owned(q) /\ Timed(q))'
    BY DEF Pcbs
  <2>2. Listed(q) /\ Owned(q) /\ Timed(q)
    BY <1>1, <1>2 DEF Pcbs
  <2>3. Listed(q)'
    BY <2>2, <1>1, <1>2, <1>3, <1>21 DEF Listed, Doomed, ActiveStates, Late
  <2>4. Owned(q)'
    BY <2>2, <1>1, <1>2, <1>3, <1>21 DEF Owned, Late
  <2>5. Timed(q)'
    BY <2>2, <1>1, <1>2, <1>3, <1>21 DEF Timed, Stamped, Walks
  <2>6. QED
    BY <2>3, <2>4, <2>5
<1>6. Control'
  BY <1>1, <1>2, <1>21 DEF Control, Late, Callbacks, Walks
<1>7. CurOK'
  BY <1>1, <1>2, <1>3, <1>21 DEF CurOK, Doomed, Refused, Late, OfInput, Callbacks
<1>8. Ordered'
  BY <1>1, <1>2, <1>21, StillOrdered
<1>9. Walk'
  BY <1>1, <1>2, <1>21, WalkStep DEF Callbacks, Walks
<1>10. QED
  BY <1>3, <1>4, <1>5, <1>6, <1>7, <1>8, <1>9 DEF IInv, ListStep

LEMMA ConnectedKeeps ==
  ASSUME IInv, Connected
  PROVE  IInv'
<1>1. /\ TypeOK /\ IsInjective(active) /\ Pcbs /\ Control /\ CurOK /\ Ordered /\ Walk
      /\ NULL \notin PCBS
  BY Parts
<1>2. /\ UNCHANGED <<state, local_port, rxclosed, held, last_timer, active, tw, bound, changed, tcp_timer_ctr,
                     pcb, prev, served, handler, cur, events, owned, freed>>
      /\ handler = "input"
      /\ pc = "connected" /\ pc' = "events" /\ "ABRT" \notin events
  BY <1>1 DEF Control, Late, Connected, Aborted, At, Callbacks, pcbVars, listVars, walkVars
<1>21. "CLOSED" \notin events
  BY <1>1, <1>2 DEF Control
<1>3. ListStep(NULL) /\ \A q : InList(q)' <=> InList(q)
  BY <1>1, <1>2, SameList, PcbsAssumption
<1>4. TypeOK'
  <2>1. Fields /\ Subsets /\ Others
    BY <1>1, TypeParts
  <2>2. Fields'
    BY <2>1, <1>2, <1>21 DEF Fields
  <2>3. Subsets'
    BY <2>1, <1>2, <1>21 DEF Subsets
  <2>4. Others'
    BY <2>1, <1>2, <1>3, <1>21 DEF Others, ListStep, Callbacks
  <2>5. QED
    BY <2>2, <2>3, <2>4, TypeParts, PTL
<1>5. Pcbs'
  <2>1. SUFFICES ASSUME NEW q \in PCBS PROVE (Listed(q) /\ Owned(q) /\ Timed(q))'
    BY DEF Pcbs
  <2>2. Listed(q) /\ Owned(q) /\ Timed(q)
    BY <1>1, <1>2 DEF Pcbs
  <2>3. Listed(q)'
    BY <2>2, <1>1, <1>2, <1>3, <1>21 DEF Listed, Doomed, ActiveStates, Late
  <2>4. Owned(q)'
    BY <2>2, <1>1, <1>2, <1>3, <1>21 DEF Owned, Late
  <2>5. Timed(q)'
    BY <2>2, <1>1, <1>2, <1>3, <1>21 DEF Timed, Stamped
  <2>6. QED
    BY <2>3, <2>4, <2>5
<1>6. Control'
  BY <1>1, <1>2, <1>21 DEF Control, Late, Callbacks, Walks
<1>7. CurOK'
  BY <1>1, <1>2, <1>3, <1>21 DEF CurOK, Doomed, Refused, Late, OfInput, Callbacks
<1>8. Ordered'
  BY <1>1, <1>2, <1>21, StillOrdered
<1>9. Walk'
  BY <1>1, <1>2, <1>21, WalkStep DEF Callbacks, Walks
<1>10. QED
  BY <1>3, <1>4, <1>5, <1>6, <1>7, <1>8, <1>9 DEF IInv, ListStep

LEMMA InputSentKeeps ==
  ASSUME IInv, InputSent
  PROVE  IInv'
<1>1. /\ TypeOK /\ IsInjective(active) /\ Pcbs /\ Control /\ CurOK /\ Ordered /\ Walk
      /\ NULL \notin PCBS
  BY Parts
<1>2. /\ UNCHANGED <<state, local_port, rxclosed, held, last_timer, active, tw, bound, changed, tcp_timer_ctr,
                     pcb, prev, served, handler, cur, events, owned>>
      /\ handler = "input"
      /\ pc = "events"
      /\ \/ "ACKED" \in events /\ pc' = "sent" /\ freed' = {}
         \/ pc' = "check" /\ freed' = freed
  BY <1>1 DEF Control, Late, InputSent, Callback, At, pcbVars, listVars, walkVars
<1>20. "ABRT" \notin events /\ freed' \subseteq freed
  BY <1>1, <1>2 DEF Control, Callbacks
<1>22. cur \in PCBS /\ state[cur] \notin {"FREE", "CLOSED"}
  BY <1>1, <1>2, <1>20 DEF CurOK, Late, Pcbs, Listed, Doomed, ActiveStates
<1>21. "ABRT" \notin events /\ freed' \subseteq freed /\ cur \in PCBS /\ state[cur] # "CLOSED"
  BY <1>20, <1>22
<1>3. ListStep(NULL) /\ \A q : InList(q)' <=> InList(q)
  BY <1>1, <1>2, SameList, PcbsAssumption
<1>4. TypeOK'
  <2>1. Fields /\ Subsets /\ Others
    BY <1>1, TypeParts
  <2>2. Fields'
    BY <2>1, <1>2, <1>21 DEF Fields
  <2>3. Subsets'
    BY <2>1, <1>2, <1>21 DEF Subsets
  <2>4. Others'
    BY <2>1, <1>2, <1>3, <1>21 DEF Others, ListStep, Callbacks
  <2>5. QED
    BY <2>2, <2>3, <2>4, TypeParts, PTL
<1>5. Pcbs'
  <2>1. SUFFICES ASSUME NEW q \in PCBS PROVE (Listed(q) /\ Owned(q) /\ Timed(q))'
    BY DEF Pcbs
  <2>2. Listed(q) /\ Owned(q) /\ Timed(q)
    BY <1>1, <1>2 DEF Pcbs
  <2>3. Listed(q)'
    BY <2>2, <1>1, <1>2, <1>3, <1>21 DEF Listed, Doomed, ActiveStates, Late
  <2>4. Owned(q)'
    BY <2>2, <1>1, <1>2, <1>3, <1>21 DEF Owned, Late
  <2>5. Timed(q)'
    BY <2>2, <1>1, <1>2, <1>3, <1>21 DEF Timed, Stamped
  <2>6. QED
    BY <2>3, <2>4, <2>5
<1>6. Control'
  BY <1>1, <1>2, <1>21 DEF Control, Late, Callbacks, Walks
<1>7. CurOK'
  BY <1>1, <1>2, <1>3, <1>21 DEF CurOK, Doomed, Refused, Late, OfInput, Callbacks
<1>8. Ordered'
  BY <1>1, <1>2, <1>21, StillOrdered
<1>9. Walk'
  BY <1>1, <1>2, <1>21, WalkStep DEF Callbacks, Walks
<1>10. QED
  BY <1>3, <1>4, <1>5, <1>6, <1>7, <1>8, <1>9 DEF IInv, ListStep

LEMMA SentKeeps ==
  ASSUME IInv, Sent
  PROVE  IInv'
<1>1. /\ TypeOK /\ IsInjective(active) /\ Pcbs /\ Control /\ CurOK /\ Ordered /\ Walk
      /\ NULL \notin PCBS
  BY Parts
<1>2. /\ UNCHANGED <<state, local_port, rxclosed, held, last_timer, active, tw, bound, changed, tcp_timer_ctr,
                     pcb, prev, served, handler, cur, events, owned, freed>>
      /\ handler = "input"
      /\ pc = "sent" /\ pc' = "check" /\ "ABRT" \notin events
  BY <1>1 DEF Control, Late, Sent, Aborted, At, Callbacks, pcbVars, listVars, walkVars
<1>3. ListStep(NULL) /\ \A q : InList(q)' <=> InList(q)
  BY <1>1, <1>2, SameList, PcbsAssumption
<1>4. TypeOK'
  <2>1. Fields /\ Subsets /\ Others
    BY <1>1, TypeParts
  <2>2. Fields'
    BY <2>1, <1>2 DEF Fields
  <2>3. Subsets'
    BY <2>1, <1>2 DEF Subsets
  <2>4. Others'
    BY <2>1, <1>2, <1>3 DEF Others, ListStep, Callbacks
  <2>5. QED
    BY <2>2, <2>3, <2>4, TypeParts, PTL
<1>5. Pcbs'
  <2>1. SUFFICES ASSUME NEW q \in PCBS PROVE (Listed(q) /\ Owned(q) /\ Timed(q))'
    BY DEF Pcbs
  <2>2. Listed(q) /\ Owned(q) /\ Timed(q)
    BY <1>1, <1>2 DEF Pcbs
  <2>3. Listed(q)'
    BY <2>2, <1>1, <1>2, <1>3 DEF Listed, Doomed, ActiveStates, Late
  <2>4. Owned(q)'
    BY <2>2, <1>1, <1>2, <1>3 DEF Owned, Late
  <2>5. Timed(q)'
    BY <2>2, <1>1, <1>2, <1>3 DEF Timed, Stamped
  <2>6. QED
    BY <2>3, <2>4, <2>5
<1>6. Control'
  BY <1>1, <1>2 DEF Control, Late, Callbacks, Walks
<1>7. CurOK'
  BY <1>1, <1>2, <1>3 DEF CurOK, Doomed, Refused, Late, OfInput, Callbacks
<1>8. Ordered'
  BY <1>1, <1>2, StillOrdered
<1>9. Walk'
  BY <1>1, <1>2, WalkStep DEF Callbacks, Walks
<1>10. QED
  BY <1>3, <1>4, <1>5, <1>6, <1>7, <1>8, <1>9 DEF IInv, ListStep

LEMMA InputRecvKeeps ==
  ASSUME IInv, InputRecv
  PROVE  IInv'
<1>1. /\ TypeOK /\ IsInjective(active) /\ Pcbs /\ Control /\ CurOK /\ Ordered /\ Walk
      /\ NULL \notin PCBS
  BY Parts
<1>2. /\ UNCHANGED <<state, local_port, rxclosed, held, last_timer, active, tw, bound, changed, tcp_timer_ctr,
                     pcb, prev, served, handler, cur, events, owned>>
      /\ handler = "input"
      /\ pc = "check" /\ "CLOSED" \notin events
      /\ \/ "DATA" \in events /\ pc' = "recv" /\ freed' = {}
         \/ pc' = "eof" /\ freed' = freed
  BY <1>1 DEF Control, Late, InputRecv, Callback, At, pcbVars, listVars, walkVars
<1>20. "ABRT" \notin events /\ freed' \subseteq freed
  BY <1>1, <1>2 DEF Control, Callbacks
<1>22. cur \in PCBS /\ state[cur] \notin {"FREE", "CLOSED"}
  BY <1>1, <1>2, <1>20 DEF CurOK, Late, Pcbs, Listed, Doomed, ActiveStates
<1>21. "ABRT" \notin events /\ freed' \subseteq freed /\ cur \in PCBS /\ state[cur] # "CLOSED"
  BY <1>20, <1>22
<1>3. ListStep(NULL) /\ \A q : InList(q)' <=> InList(q)
  BY <1>1, <1>2, SameList, PcbsAssumption
<1>4. TypeOK'
  <2>1. Fields /\ Subsets /\ Others
    BY <1>1, TypeParts
  <2>2. Fields'
    BY <2>1, <1>2, <1>21 DEF Fields
  <2>3. Subsets'
    BY <2>1, <1>2, <1>21 DEF Subsets
  <2>4. Others'
    BY <2>1, <1>2, <1>3, <1>21 DEF Others, ListStep, Callbacks
  <2>5. QED
    BY <2>2, <2>3, <2>4, TypeParts, PTL
<1>5. Pcbs'
  <2>1. SUFFICES ASSUME NEW q \in PCBS PROVE (Listed(q) /\ Owned(q) /\ Timed(q))'
    BY DEF Pcbs
  <2>2. Listed(q) /\ Owned(q) /\ Timed(q)
    BY <1>1, <1>2 DEF Pcbs
  <2>3. Listed(q)'
    BY <2>2, <1>1, <1>2, <1>3, <1>21 DEF Listed, Doomed, ActiveStates, Late
  <2>4. Owned(q)'
    BY <2>2, <1>1, <1>2, <1>3, <1>21 DEF Owned, Late
  <2>5. Timed(q)'
    BY <2>2, <1>1, <1>2, <1>3, <1>21 DEF Timed, Stamped
  <2>6. QED
    BY <2>3, <2>4, <2>5
<1>6. Control'
  BY <1>1, <1>2, <1>21 DEF Control, Late, Callbacks, Walks
<1>7. CurOK'
  BY <1>1, <1>2, <1>3, <1>21 DEF CurOK, Doomed, Refused, Late, OfInput, Callbacks
<1>8. Ordered'
  BY <1>1, <1>2, <1>21, StillOrdered
<1>9. Walk'
  BY <1>1, <1>2, <1>21, WalkStep DEF Callbacks, Walks
<1>10. QED
  BY <1>3, <1>4, <1>5, <1>6, <1>7, <1>8, <1>9 DEF IInv, ListStep

LEMMA RecvTakenKeeps ==
  ASSUME IInv, RecvTaken
  PROVE  IInv'
<1>1. /\ TypeOK /\ IsInjective(active) /\ Pcbs /\ Control /\ CurOK /\ Ordered /\ Walk
      /\ NULL \notin PCBS
  BY Parts
<1>2. /\ UNCHANGED <<state, local_port, rxclosed, held, last_timer, active, tw, bound, changed, tcp_timer_ctr,
                     pcb, prev, served, handler, cur, events, owned, freed>>
      /\ handler = "input"
      /\ pc = "recv" /\ pc' = "eof" /\ "ABRT" \notin events
  BY <1>1 DEF Control, Late, RecvTaken, Aborted, At, Callbacks, pcbVars, listVars, walkVars
<1>3. ListStep(NULL) /\ \A q : InList(q)' <=> InList(q)
  BY <1>1, <1>2, SameList, PcbsAssumption
<1>4. TypeOK'
  <2>1. Fields /\ Subsets /\ Others
    BY <1>1, TypeParts
  <2>2. Fields'
    BY <2>1, <1>2 DEF Fields
  <2>3. Subsets'
    BY <2>1, <1>2 DEF Subsets
  <2>4. Others'
    BY <2>1, <1>2, <1>3 DEF Others, ListStep, Callbacks
  <2>5. QED
    BY <2>2, <2>3, <2>4, TypeParts, PTL
<1>5. Pcbs'
  <2>1. SUFFICES ASSUME NEW q \in PCBS PROVE (Listed(q) /\ Owned(q) /\ Timed(q))'
    BY DEF Pcbs
  <2>2. Listed(q) /\ Owned(q) /\ Timed(q)
    BY <1>1, <1>2 DEF Pcbs
  <2>3. Listed(q)'
    BY <2>2, <1>1, <1>2, <1>3 DEF Listed, Doomed, ActiveStates, Late
  <2>4. Owned(q)'
    BY <2>2, <1>1, <1>2, <1>3 DEF Owned, Late
  <2>5. Timed(q)'
    BY <2>2, <1>1, <1>2, <1>3 DEF Timed, Stamped
  <2>6. QED
    BY <2>3, <2>4, <2>5
<1>6. Control'
  BY <1>1, <1>2 DEF Control, Late, Callbacks, Walks
<1>7. CurOK'
  BY <1>1, <1>2, <1>3 DEF CurOK, Doomed, Refused, Late, OfInput, Callbacks
<1>8. Ordered'
  BY <1>1, <1>2, StillOrdered
<1>9. Walk'
  BY <1>1, <1>2, WalkStep DEF Callbacks, Walks
<1>10. QED
  BY <1>3, <1>4, <1>5, <1>6, <1>7, <1>8, <1>9 DEF IInv, ListStep

LEMMA RecvRefusedKeeps ==
  ASSUME IInv, Rules, RecvRefused
  PROVE  IInv'
<1>1. /\ TypeOK /\ IsInjective(active) /\ Pcbs /\ Control /\ CurOK /\ Ordered /\ Walk
      /\ NULL \notin PCBS
  BY Parts
<1>2. /\ UNCHANGED <<state, local_port, rxclosed, last_timer, active, tw, bound, changed, tcp_timer_ctr, pcb,
                     prev, served, handler, cur, events, owned, freed>>
      /\ handler = "input"
      /\ pc = "recv" /\ pc' = "eof" /\ "ABRT" \notin events
      /\ state[cur] \in {"ESTABLISHED", "CLOSE_WAIT"}
      /\ held' = [held EXCEPT ![cur] = "refused"]
  BY <1>1, CallRules DEF Control, Late, RecvRefused, Calls, Aborted, At, Callbacks, listVars, walkVars
<1>20. /\ cur \in PCBS /\ "ABRT" \notin events
  BY <1>1, <1>2 DEF CurOK, Control, Late, OfInput, Callbacks, Pcbs, Listed, Aborted
<1>21. /\ \A q \in PCBS : held'[q] = (IF q = cur THEN "refused" ELSE held[q])
       /\ held' \in [PCBS -> Holds] /\ cur \in PCBS
  BY <1>1, <1>2, <1>20, HeldField DEF Holds
<1>3. ListStep(NULL) /\ \A q : InList(q)' <=> InList(q)
  BY <1>1, <1>2, SameList, PcbsAssumption
<1>4. TypeOK'
  <2>1. Fields /\ Subsets /\ Others
    BY <1>1, TypeParts
  <2>2. Fields'
    BY <2>1, <1>2, <1>21 DEF Fields
  <2>3. Subsets'
    BY <2>1, <1>2, <1>21 DEF Subsets
  <2>4. Others'
    BY <2>1, <1>2, <1>3, <1>21 DEF Others, ListStep, Callbacks
  <2>5. QED
    BY <2>2, <2>3, <2>4, TypeParts, PTL
<1>5. Pcbs'
  <2>1. SUFFICES ASSUME NEW q \in PCBS PROVE (Listed(q) /\ Owned(q) /\ Timed(q))'
    BY DEF Pcbs
  <2>2. Listed(q) /\ Owned(q) /\ Timed(q)
    BY <1>1, <1>2 DEF Pcbs
  <2>3. Listed(q)'
    BY <2>2, <1>1, <1>2, <1>3, <1>21 DEF Listed, Doomed, ActiveStates, Late
  <2>4. Owned(q)'
    BY <2>2, <1>1, <1>2, <1>3, <1>21 DEF Owned, Late
  <2>5. Timed(q)'
    BY <2>2, <1>1, <1>2, <1>3, <1>21 DEF Timed, Stamped
  <2>6. QED
    BY <2>3, <2>4, <2>5
<1>6. Control'
  BY <1>1, <1>2, <1>21 DEF Control, Late, Callbacks, Walks
<1>7. CurOK'
  BY <1>1, <1>2, <1>3, <1>21 DEF CurOK, Doomed, Refused, Late, OfInput, Callbacks
<1>8. Ordered'
  BY <1>1, <1>2, <1>21, StillOrdered
<1>9. Walk'
  BY <1>1, <1>2, <1>21, WalkStep DEF Callbacks, Walks
<1>10. QED
  BY <1>3, <1>4, <1>5, <1>6, <1>7, <1>8, <1>9 DEF IInv, ListStep

LEMMA EofRefusedKeeps ==
  ASSUME IInv, InputEof, Refused(cur)
  PROVE  IInv'
<1>1. /\ TypeOK /\ IsInjective(active) /\ Pcbs /\ Control /\ CurOK /\ Ordered /\ Walk
      /\ NULL \notin PCBS
  BY Parts
<1>2. /\ UNCHANGED <<state, local_port, rxclosed, last_timer, active, tw, bound, changed, tcp_timer_ctr, pcb,
                     prev, served, owned>>
      /\ handler = "input"
      /\ pc = "eof" /\ "FIN" \in events /\ Refused(cur)
      /\ held' = [held EXCEPT ![cur] = "refused_fin"]
      /\ pc' = "main" /\ handler' = "none" /\ cur' = NULL /\ events' = {} /\ freed' = {}
  BY <1>1 DEF Control, Late, InputEof, Finish, listVars, walkVars
<1>20. /\ cur \in PCBS /\ "ABRT" \notin events
  BY <1>1, <1>2 DEF CurOK, Control, Late, OfInput, Callbacks, Pcbs, Listed, Aborted
<1>21. /\ \A q \in PCBS : held'[q] = (IF q = cur THEN "refused_fin" ELSE held[q])
       /\ held' \in [PCBS -> Holds] /\ cur \in PCBS
       /\ state[cur] \in {"ESTABLISHED", "CLOSE_WAIT"}
  <2>1. state[cur] \in {"ESTABLISHED", "CLOSE_WAIT"}
    BY <1>1, <1>2, <1>20 DEF CurOK, Late
  <2>2. QED
    BY <2>1, <1>1, <1>2, <1>20, HeldField DEF Holds
<1>3. ListStep(NULL) /\ \A q : InList(q)' <=> InList(q)
  BY <1>1, <1>2, SameList, PcbsAssumption
<1>4. TypeOK'
  <2>1. Fields /\ Subsets /\ Others
    BY <1>1, TypeParts
  <2>2. Fields'
    BY <2>1, <1>2, <1>21 DEF Fields
  <2>3. Subsets'
    BY <2>1, <1>2, <1>21 DEF Subsets
  <2>4. Others'
    BY <2>1, <1>2, <1>3, <1>21 DEF Others, ListStep, Callbacks
  <2>5. QED
    BY <2>2, <2>3, <2>4, TypeParts, PTL
<1>5. Pcbs'
  <2>1. SUFFICES ASSUME NEW q \in PCBS PROVE (Listed(q) /\ Owned(q) /\ Timed(q))'
    BY DEF Pcbs
  <2>2. Listed(q) /\ Owned(q) /\ Timed(q)
    BY <1>1, <1>2 DEF Pcbs
  <2>3. Listed(q)'
    BY <2>2, <1>1, <1>2, <1>3, <1>21 DEF Listed, Doomed, ActiveStates, Late
  <2>4. Owned(q)'
    BY <2>2, <1>1, <1>2, <1>3, <1>21 DEF Owned, Late
  <2>5. Timed(q)'
    BY <2>2, <1>1, <1>2, <1>3, <1>21 DEF Timed, Stamped, Walks
  <2>6. QED
    BY <2>3, <2>4, <2>5
<1>6. Control'
  BY <1>1, <1>2, <1>21 DEF Control, Late, Callbacks, Walks
<1>7. CurOK'
  BY <1>1, <1>2, <1>3, <1>21 DEF CurOK, Doomed, Refused, Late, OfInput, Callbacks
<1>8. Ordered'
  BY <1>1, <1>2, <1>21, StillOrdered
<1>9. Walk'
  BY <1>1, <1>2, <1>21, WalkStep DEF Callbacks, Walks
<1>10. QED
  BY <1>3, <1>4, <1>5, <1>6, <1>7, <1>8, <1>9 DEF IInv, ListStep

LEMMA EofReportedKeeps ==
  ASSUME IInv, InputEof, ~Refused(cur)
  PROVE  IInv'
<1>1. /\ TypeOK /\ IsInjective(active) /\ Pcbs /\ Control /\ CurOK /\ Ordered /\ Walk
      /\ NULL \notin PCBS
  BY Parts
<1>2. /\ UNCHANGED <<state, local_port, rxclosed, held, last_timer, active, tw, bound, changed, tcp_timer_ctr,
                     pcb, prev, served, handler, cur, events, owned>>
      /\ handler = "input"
      /\ pc = "eof" /\ pc' = "closed" /\ freed' = {} /\ "FIN" \in events /\ ~Refused(cur)
  BY <1>1 DEF Control, Late, InputEof, Callback, listVars, walkVars
<1>20. "ABRT" \notin events /\ "CLOSED" \notin events
  BY <1>1, <1>2 DEF Control, Callbacks
<1>22. cur \in PCBS /\ state[cur] \notin {"FREE", "CLOSED"}
  BY <1>1, <1>2, <1>20 DEF CurOK, Late, Pcbs, Listed, Doomed, ActiveStates
<1>21. "ABRT" \notin events /\ "CLOSED" \notin events /\ cur \in PCBS /\ state[cur] # "CLOSED"
  BY <1>20, <1>22
<1>3. ListStep(NULL) /\ \A q : InList(q)' <=> InList(q)
  BY <1>1, <1>2, SameList, PcbsAssumption
<1>4. TypeOK'
  <2>1. Fields /\ Subsets /\ Others
    BY <1>1, TypeParts
  <2>2. Fields'
    BY <2>1, <1>2, <1>21 DEF Fields
  <2>3. Subsets'
    BY <2>1, <1>2, <1>21 DEF Subsets
  <2>4. Others'
    BY <2>1, <1>2, <1>3, <1>21 DEF Others, ListStep, Callbacks
  <2>5. QED
    BY <2>2, <2>3, <2>4, TypeParts, PTL
<1>5. Pcbs'
  <2>1. SUFFICES ASSUME NEW q \in PCBS PROVE (Listed(q) /\ Owned(q) /\ Timed(q))'
    BY DEF Pcbs
  <2>2. Listed(q) /\ Owned(q) /\ Timed(q)
    BY <1>1, <1>2 DEF Pcbs
  <2>3. Listed(q)'
    BY <2>2, <1>1, <1>2, <1>3, <1>21 DEF Listed, Doomed, ActiveStates, Late
  <2>4. Owned(q)'
    BY <2>2, <1>1, <1>2, <1>3, <1>21 DEF Owned, Late
  <2>5. Timed(q)'
    BY <2>2, <1>1, <1>2, <1>3, <1>21 DEF Timed, Stamped
  <2>6. QED
    BY <2>3, <2>4, <2>5
<1>6. Control'
  BY <1>1, <1>2, <1>21 DEF Control, Late, Callbacks, Walks
<1>7. CurOK'
  BY <1>1, <1>2, <1>3, <1>21 DEF CurOK, Doomed, Refused, Late, OfInput, Callbacks
<1>8. Ordered'
  BY <1>1, <1>2, <1>21, StillOrdered
<1>9. Walk'
  BY <1>1, <1>2, <1>21, WalkStep DEF Callbacks, Walks
<1>10. QED
  BY <1>3, <1>4, <1>5, <1>6, <1>7, <1>8, <1>9 DEF IInv, ListStep

LEMMA ClosedKeeps ==
  ASSUME IInv, Closed
  PROVE  IInv'
<1>1. /\ TypeOK /\ IsInjective(active) /\ Pcbs /\ Control /\ CurOK /\ Ordered /\ Walk
      /\ NULL \notin PCBS
  BY Parts
<1>2. /\ UNCHANGED <<state, local_port, rxclosed, held, last_timer, active, tw, bound, changed, tcp_timer_ctr,
                     pcb, prev, served>>
      /\ handler = "input"
      /\ pc = "closed" /\ "ABRT" \notin events /\ owned' = OwnedAfterEof
      /\ pc' = "main" /\ handler' = "none" /\ cur' = NULL /\ events' = {} /\ freed' = {}
  BY <1>1 DEF Control, Late, Closed, Finish, Aborted, Callbacks, pcbVars, listVars, walkVars
<1>21. /\ state[cur] # "CLOSED" /\ \A q : q # cur => (q \in owned' <=> q \in owned)
       /\ owned' \subseteq owned
       /\ cur \in owned' => state[cur] \in {"SYN_RCVD", "ESTABLISHED", "CLOSE_WAIT"}
  BY <1>1, <1>2 DEF CurOK, Late, OfInput, Callbacks, OwnedAfterEof, SendsFin
<1>3. ListStep(NULL) /\ \A q : InList(q)' <=> InList(q)
  BY <1>1, <1>2, SameList, PcbsAssumption
<1>4. TypeOK'
  <2>1. Fields /\ Subsets /\ Others
    BY <1>1, TypeParts
  <2>2. Fields'
    BY <2>1, <1>2, <1>21 DEF Fields
  <2>3. Subsets'
    BY <2>1, <1>2, <1>21 DEF Subsets
  <2>4. Others'
    BY <2>1, <1>2, <1>3, <1>21 DEF Others, ListStep, Callbacks
  <2>5. QED
    BY <2>2, <2>3, <2>4, TypeParts, PTL
<1>5. Pcbs'
  <2>1. SUFFICES ASSUME NEW q \in PCBS PROVE (Listed(q) /\ Owned(q) /\ Timed(q))'
    BY DEF Pcbs
  <2>2. Listed(q) /\ Owned(q) /\ Timed(q)
    BY <1>1, <1>2 DEF Pcbs
  <2>3. Listed(q)'
    BY <2>2, <1>1, <1>2, <1>3, <1>21 DEF Listed, Doomed, ActiveStates, Late
  <2>4. Owned(q)'
    BY <2>2, <1>1, <1>2, <1>3, <1>21 DEF Owned, Late
  <2>5. Timed(q)'
    BY <2>2, <1>1, <1>2, <1>3, <1>21 DEF Timed, Stamped, Walks
  <2>6. QED
    BY <2>3, <2>4, <2>5
<1>6. Control'
  BY <1>1, <1>2, <1>21 DEF Control, Late, Callbacks, Walks
<1>7. CurOK'
  BY <1>1, <1>2, <1>3, <1>21 DEF CurOK, Doomed, Refused, Late, OfInput, Callbacks
<1>8. Ordered'
  BY <1>1, <1>2, <1>21, StillOrdered
<1>9. Walk'
  BY <1>1, <1>2, <1>21, WalkStep DEF Callbacks, Walks
<1>10. QED
  BY <1>3, <1>4, <1>5, <1>6, <1>7, <1>8, <1>9 DEF IInv, ListStep

LEMMA InputOutputKeeps ==
  ASSUME IInv, InputOutput
  PROVE  IInv'
<1>1. /\ TypeOK /\ IsInjective(active) /\ Pcbs /\ Control /\ CurOK /\ Ordered /\ Walk
      /\ NULL \notin PCBS
  BY Parts
<1>2. /\ UNCHANGED <<state, local_port, rxclosed, held, last_timer, active, tw, bound, changed, tcp_timer_ctr,
                     pcb, prev, served, owned>>
      /\ handler = "input"
      /\ pc = "eof" /\ "FIN" \notin events
      /\ pc' = "main" /\ handler' = "none" /\ cur' = NULL /\ events' = {} /\ freed' = {}
  BY <1>1 DEF Control, Late, InputOutput, Finish, pcbVars, listVars, walkVars
<1>3. ListStep(NULL) /\ \A q : InList(q)' <=> InList(q)
  BY <1>1, <1>2, SameList, PcbsAssumption
<1>4. TypeOK'
  <2>1. Fields /\ Subsets /\ Others
    BY <1>1, TypeParts
  <2>2. Fields'
    BY <2>1, <1>2 DEF Fields
  <2>3. Subsets'
    BY <2>1, <1>2 DEF Subsets
  <2>4. Others'
    BY <2>1, <1>2, <1>3 DEF Others, ListStep, Callbacks
  <2>5. QED
    BY <2>2, <2>3, <2>4, TypeParts, PTL
<1>5. Pcbs'
  <2>1. SUFFICES ASSUME NEW q \in PCBS PROVE (Listed(q) /\ Owned(q) /\ Timed(q))'
    BY DEF Pcbs
  <2>2. Listed(q) /\ Owned(q) /\ Timed(q)
    BY <1>1, <1>2 DEF Pcbs
  <2>3. Listed(q)'
    BY <2>2, <1>1, <1>2, <1>3 DEF Listed, Doomed, ActiveStates, Late
  <2>4. Owned(q)'
    BY <2>2, <1>1, <1>2, <1>3 DEF Owned, Late
  <2>5. Timed(q)'
    BY <2>2, <1>1, <1>2, <1>3 DEF Timed, Stamped, Walks
  <2>6. QED
    BY <2>3, <2>4, <2>5
<1>6. Control'
  BY <1>1, <1>2 DEF Control, Late, Callbacks, Walks
<1>7. CurOK'
  BY <1>1, <1>2, <1>3 DEF CurOK, Doomed, Refused, Late, OfInput, Callbacks
<1>8. Ordered'
  BY <1>1, <1>2, StillOrdered
<1>9. Walk'
  BY <1>1, <1>2, WalkStep DEF Callbacks, Walks
<1>10. QED
  BY <1>3, <1>4, <1>5, <1>6, <1>7, <1>8, <1>9 DEF IInv, ListStep


LEMMA AcceptedKeeps ==
  ASSUME IInv, Accepted
  PROVE  IInv'
<1>1. /\ TypeOK /\ IsInjective(active) /\ Pcbs /\ Control /\ CurOK /\ Ordered /\ Walk
      /\ NULL \notin PCBS
  BY Parts
<1>2. /\ UNCHANGED <<local_port, rxclosed, last_timer, active, tw, bound, changed, tcp_timer_ctr, pcb, prev,
                     served, handler, cur, owned, freed>>
      /\ handler = "input"
      /\ pc = "accept" /\ pc' = "events" /\ "ABRT" \notin events
      /\ \E e \in Received :
            /\ events' = e /\ held' = HeldAfter(e)
            /\ state' = (IF "FIN" \in e THEN SetState(cur, "CLOSE_WAIT") ELSE state)
  BY <1>1 DEF Control, Late, Accepted, At, Aborted, Callbacks, listVars, walkVars
<1>20. /\ cur \in PCBS /\ InList(cur) /\ held[cur] = "none"
       /\ state[cur] \in ActiveStates \ {"SYN_SENT", "SYN_RCVD"}
  BY <1>1, <1>2 DEF CurOK, Late, OfInput, Callbacks, Pcbs, Listed
<1>22. PICK e \in Received :
         /\ events' = e /\ held' = HeldAfter(e)
         /\ state' = (IF "FIN" \in e THEN SetState(cur, "CLOSE_WAIT") ELSE state)
  BY <1>2
<1>23. e \subseteq {"ACKED", "DATA", "FIN"}
  BY DEF Received
<1>24. /\ held' \in [PCBS -> Holds] /\ held'[cur] \in {"none", "unread"}
       /\ \A q \in PCBS : q # cur => held'[q] = held[q]
  BY <1>1, <1>20, <1>22 DEF HeldAfter, TypeOK, Holds
<1>25. /\ state' \in [PCBS -> States]
       /\ \A q \in PCBS : q # cur => state'[q] = state[q]
       /\ state'[cur] = state[cur] \/ state'[cur] = "CLOSE_WAIT"
  BY <1>1, <1>20, <1>22 DEF SetState, TypeOK, States, ActiveStates
<1>21. /\ events' \subseteq {"ACKED", "DATA", "FIN"} /\ cur \in PCBS /\ InList(cur)
       /\ held' \in [PCBS -> Holds] /\ held'[cur] \in {"none", "unread"}
       /\ \A q \in PCBS : q # cur => held'[q] = held[q]
       /\ state' \in [PCBS -> States]
       /\ \A q \in PCBS : q # cur => state'[q] = state[q]
       /\ state'[cur] = state[cur] \/ state'[cur] = "CLOSE_WAIT"
       /\ state[cur] \in ActiveStates \ {"SYN_SENT", "SYN_RCVD"}
  BY <1>20, <1>22, <1>23, <1>24, <1>25
<1>3. ListStep(NULL) /\ \A q : InList(q)' <=> InList(q)
  BY <1>1, <1>2, SameList, PcbsAssumption
<1>4. TypeOK'
  <2>1. Fields /\ Subsets /\ Others
    BY <1>1, TypeParts
  <2>2. Fields'
    BY <2>1, <1>2, <1>21 DEF Fields
  <2>3. Subsets'
    BY <2>1, <1>2, <1>21 DEF Subsets
  <2>4. Others'
    BY <2>1, <1>2, <1>3, <1>21 DEF Others, ListStep, Callbacks
  <2>5. QED
    BY <2>2, <2>3, <2>4, TypeParts, PTL
<1>5. Pcbs'
  <2>1. SUFFICES ASSUME NEW q \in PCBS PROVE (Listed(q) /\ Owned(q) /\ Timed(q))'
    BY DEF Pcbs
  <2>2. Listed(q) /\ Owned(q) /\ Timed(q)
    BY <1>1, <1>2 DEF Pcbs
  <2>3. Listed(q)'
    BY <2>2, <1>1, <1>2, <1>3, <1>21 DEF Listed, Doomed, ActiveStates, Late
  <2>4. Owned(q)'
    BY <2>2, <1>1, <1>2, <1>3, <1>21 DEF Owned, Late
  <2>5. Timed(q)'
    BY <2>2, <1>1, <1>2, <1>3, <1>21 DEF Timed, Stamped
  <2>6. QED
    BY <2>3, <2>4, <2>5
<1>6. Control'
  BY <1>1, <1>2, <1>21 DEF Control, Late, Callbacks, Walks
<1>7. CurOK'
  BY <1>1, <1>2, <1>3, <1>21 DEF CurOK, Doomed, Refused, Late, OfInput, Callbacks, ActiveStates
<1>8. Ordered'
  BY <1>1, <1>2, <1>21, StillOrdered
<1>9. Walk'
  BY <1>1, <1>2, <1>21, WalkStep DEF Callbacks, Walks
<1>10. QED
  BY <1>3, <1>4, <1>5, <1>6, <1>7, <1>8, <1>9 DEF IInv, ListStep

\* tcp_process in the states of a connection.
Receives(e, all) ==
  /\ pc = "process" /\ state[cur] \notin {"SYN_SENT", "SYN_RCVD"}
  /\ events' = IF state[cur] = "LAST_ACK" /\ all THEN e \cup {"CLOSED"} ELSE e
  /\ IF NextState(e, all) = "TIME_WAIT"
       THEN /\ ToTimeWait(cur)
            /\ held' = IF Refused(cur) THEN [held EXCEPT ![cur] = "none"] ELSE HeldAfter(e)
       ELSE /\ state' = SetState(cur, NextState(e, all))
            /\ held' = HeldAfter(e)
            /\ UNCHANGED <<active, tw, changed>>
  /\ At("events")
  /\ UNCHANGED <<local_port, rxclosed, last_timer, bound, walkVars, owned>>

LEMMA ReceiveKeeps ==
  ASSUME IInv, NEW e \in Received, NEW all \in BOOLEAN, Receives(e, all), NextState(e, all) # "TIME_WAIT"
  PROVE  IInv'
<1>1. /\ TypeOK /\ IsInjective(active) /\ Pcbs /\ Control /\ CurOK /\ Ordered /\ Walk
      /\ NULL \notin PCBS
  BY Parts
<1>2. /\ UNCHANGED <<local_port, rxclosed, last_timer, active, tw, bound, changed, tcp_timer_ctr, pcb, prev,
                     served, handler, cur, owned, freed>>
      /\ handler = "input"
      /\ pc = "process" /\ pc' = "events" /\ state[cur] \notin {"SYN_SENT", "SYN_RCVD"}
      /\ events' = (IF state[cur] = "LAST_ACK" /\ all THEN e \cup {"CLOSED"} ELSE e)
      /\ state' = SetState(cur, NextState(e, all)) /\ held' = HeldAfter(e)
      /\ e \in Received /\ NextState(e, all) # "TIME_WAIT"
  BY <1>1 DEF Control, Late, Receives, At, walkVars
<1>20. /\ cur \in PCBS /\ InList(cur) /\ "ABRT" \notin events
       /\ state[cur] \in ActiveStates \ {"SYN_SENT", "SYN_RCVD"}
       /\ cur \in owned => state[cur] # "CLOSING"
  BY <1>1, <1>2 DEF CurOK, Control, Late, OfInput, Callbacks, Pcbs, Listed, Owned
<1>23. /\ e \subseteq {"ACKED", "DATA", "FIN"}
       /\ "FIN" \in e => ~Refused(cur) /\ state[cur] \notin {"CLOSE_WAIT", "CLOSING", "LAST_ACK"}
  BY <1>2 DEF Received
<1>24. /\ held' \in [PCBS -> Holds] /\ (Refused(cur)' => Refused(cur))
       /\ \A q \in PCBS : q # cur => held'[q] = held[q]
  BY <1>1, <1>2, <1>20 DEF HeldAfter, TypeOK, Holds, Refused
<1>25. PICK s : s = NextState(e, all)
  OBVIOUS
<1>26. /\ s \in ActiveStates \ {"SYN_SENT", "SYN_RCVD"}
       /\ s = state[cur] \/ s = "CLOSE_WAIT" \/ s = "FIN_WAIT_2" \/ (s = "CLOSING" /\ "FIN" \in e)
       /\ state[cur] \in {"ESTABLISHED", "CLOSE_WAIT"} => s \in {"ESTABLISHED", "CLOSE_WAIT"}
       /\ s = "FIN_WAIT_2" => state[cur] \in {"FIN_WAIT_1", "FIN_WAIT_2"}
       /\ s = "CLOSING" => state[cur] \in {"FIN_WAIT_1", "CLOSING"}
       /\ state[cur] = "LAST_ACK" => s = "LAST_ACK"
  BY <1>2, <1>20, <1>25 DEF NextState, ActiveStates
<1>27. /\ state' \in [PCBS -> States]
       /\ \A q \in PCBS : state'[q] = (IF q = cur THEN s ELSE state[q])
  BY <1>1, <1>2, <1>20, <1>25, <1>26, StateField DEF States
<1>28. /\ events' \subseteq {"ACKED", "DATA", "FIN", "CLOSED"}
       /\ "FIN" \in e => "FIN" \in events'
       /\ "FIN" \in events' => ~Refused(cur)
       /\ "CLOSED" \in events' => state[cur] = "LAST_ACK"
  BY <1>2, <1>23
<1>21. /\ cur \in PCBS /\ InList(cur) /\ events' \subseteq {"ACKED", "DATA", "FIN", "CLOSED"}
       /\ held' \in [PCBS -> Holds] /\ (Refused(cur)' => Refused(cur))
       /\ \A q \in PCBS : q # cur => held'[q] = held[q]
       /\ state' \in [PCBS -> States]
       /\ \A q \in PCBS : state'[q] = (IF q = cur THEN s ELSE state[q])
       /\ s \in ActiveStates \ {"SYN_SENT", "SYN_RCVD"}
  BY <1>20, <1>24, <1>26, <1>27, <1>28
<1>3. ListStep(NULL) /\ \A q : InList(q)' <=> InList(q)
  BY <1>1, <1>2, SameList, PcbsAssumption
<1>4. TypeOK'
  <2>1. Fields /\ Subsets /\ Others
    BY <1>1, TypeParts
  <2>2. Fields'
    BY <2>1, <1>2, <1>21 DEF Fields
  <2>3. Subsets'
    BY <2>1, <1>2, <1>21 DEF Subsets
  <2>4. Others'
    BY <2>1, <1>2, <1>3, <1>21 DEF Others, ListStep, Callbacks
  <2>5. QED
    BY <2>2, <2>3, <2>4, TypeParts, PTL
<1>5. Pcbs'
  <2>1. SUFFICES ASSUME NEW q \in PCBS PROVE (Listed(q) /\ Owned(q) /\ Timed(q))'
    BY DEF Pcbs
  <2>2. Listed(q) /\ Owned(q) /\ Timed(q)
    BY <1>1 DEF Pcbs
  <2>3. Listed(q)'
    BY <2>2, <1>2, <1>3, <1>20, <1>21 DEF Listed, Doomed, ActiveStates
  <2>4. Owned(q)'
    <3>1. CASE q # cur
      BY <3>1, <2>2, <1>2, <1>21 DEF Owned
    <3>2. CASE q = cur
      BY <3>2, <2>2, <1>2, <1>20, <1>21, <1>26, <1>28 DEF Owned, Late, ActiveStates
    <3>3. QED
      BY <3>1, <3>2
  <2>5. Timed(q)'
    BY <2>2, <1>2, <1>3 DEF Timed, Stamped
  <2>6. QED
    BY <2>3, <2>4, <2>5
<1>6. Control'
  BY <1>1, <1>2, <1>21 DEF Control, Late, Callbacks, Walks
<1>7. CurOK'
  <2>1. Refused(cur)' => ~("FIN" \in events')
    BY <1>21, <1>28
  <2>2. QED
    BY <2>1, <1>2, <1>3, <1>21, <1>26, <1>28 DEF CurOK, Late, OfInput, Callbacks, ActiveStates
<1>8. Ordered'
  BY <1>1, <1>2, <1>21, StillOrdered
<1>9. Walk'
  BY <1>1, <1>2, <1>21, WalkStep DEF Callbacks, Walks
<1>10. QED
  BY <1>3, <1>4, <1>5, <1>6, <1>7, <1>8, <1>9 DEF IInv, ListStep

LEMMA ReceiveTimeWaitKeeps ==
  ASSUME IInv, NEW p, p = cur, NEW e \in Received, NEW all \in BOOLEAN, Receives(e, all), NextState(e, all) = "TIME_WAIT"
  PROVE  IInv'
<1>1. /\ TypeOK /\ IsInjective(active) /\ Pcbs /\ Control /\ CurOK /\ Ordered /\ Walk
      /\ NULL \notin PCBS
  BY Parts
<1>2. /\ UNCHANGED <<local_port, rxclosed, last_timer, bound, tcp_timer_ctr, pcb, prev, served, handler, cur,
                     owned, freed>>
      /\ pc = "process" /\ pc' = "events" /\ state[cur] \notin {"SYN_SENT", "SYN_RCVD"}
      /\ events' = (IF state[cur] = "LAST_ACK" /\ all THEN e \cup {"CLOSED"} ELSE e)
      /\ state' = SetState(p, "TIME_WAIT") /\ active' = Without(p) /\ changed' = TRUE
      /\ tw' = tw \cup {p} /\ p = cur /\ handler = "input"
      /\ e \in Received /\ NextState(e, all) = "TIME_WAIT"
      /\ held' = (IF Refused(cur) THEN [held EXCEPT ![cur] = "none"] ELSE HeldAfter(e))
  BY <1>1 DEF Control, Late, Receives, ToTimeWait, TCP_RMV_ACTIVE, At, walkVars
<1>20. /\ cur \in PCBS /\ InList(cur) /\ "ABRT" \notin events
       /\ state[cur] \in ActiveStates \ {"SYN_SENT", "SYN_RCVD"}
       /\ cur \in owned => state[cur] # "CLOSING"
  BY <1>1, <1>2 DEF CurOK, Control, Late, OfInput, Callbacks, Pcbs, Listed, Owned
<1>23. /\ e \subseteq {"ACKED", "DATA", "FIN"}
       /\ "FIN" \in e => ~Refused(cur) /\ state[cur] \notin {"CLOSE_WAIT", "CLOSING", "LAST_ACK"}
  BY <1>2 DEF Received
<1>24. /\ held' \in [PCBS -> Holds] /\ ~Refused(cur)'
       /\ \A q \in PCBS : q # cur => held'[q] = held[q]
  BY <1>1, <1>2, <1>20 DEF HeldAfter, TypeOK, Holds, Refused
<1>27. /\ state' \in [PCBS -> States]
       /\ \A q \in PCBS : state'[q] = (IF q = p THEN "TIME_WAIT" ELSE state[q])
  BY <1>1, <1>2, <1>20, StateField DEF States
<1>28. /\ events' \subseteq {"ACKED", "DATA", "FIN"}
       /\ p \in owned => "FIN" \in events' /\ state[p] \in {"FIN_WAIT_1", "FIN_WAIT_2"}
  <2>1. \/ state[cur] \in {"FIN_WAIT_1", "FIN_WAIT_2"} /\ "FIN" \in e
        \/ state[cur] = "CLOSING"
    BY <1>2, <1>20 DEF NextState, ActiveStates
  <2>2. events' = e
    BY <2>1, <1>2
  <2>3. QED
    BY <2>1, <2>2, <1>2, <1>20, <1>23
<1>21. /\ cur \in PCBS /\ InList(cur) /\ events' \subseteq {"ACKED", "DATA", "FIN"}
       /\ held' \in [PCBS -> Holds] /\ ~Refused(cur)'
       /\ \A q \in PCBS : q # p => held'[q] = held[q]
       /\ state' \in [PCBS -> States]
       /\ \A q \in PCBS : state'[q] = (IF q = p THEN "TIME_WAIT" ELSE state[q])
       /\ p \in owned => "FIN" \in events' /\ state[p] \in {"FIN_WAIT_1", "FIN_WAIT_2"}
  BY <1>2, <1>20, <1>24, <1>27, <1>28
<1>3. ListStep(p) /\ \A q : InList(q)' <=> InList(q) /\ q # p
  BY <1>1, <1>2, RmvList
<1>4. TypeOK'
  <2>1. Fields /\ Subsets /\ Others
    BY <1>1, TypeParts
  <2>2. Fields'
    BY <2>1, <1>2, <1>21 DEF Fields
  <2>3. Subsets'
    BY <2>1, <1>2, <1>21 DEF Subsets
  <2>4. Others'
    BY <2>1, <1>2, <1>3, <1>21 DEF Others, ListStep, Callbacks
  <2>5. QED
    BY <2>2, <2>3, <2>4, TypeParts, PTL
<1>5. Pcbs'
  <2>1. SUFFICES ASSUME NEW q \in PCBS PROVE (Listed(q) /\ Owned(q) /\ Timed(q))'
    BY DEF Pcbs
  <2>2. Listed(q) /\ Owned(q) /\ Timed(q) /\ Listed(p) /\ Owned(p) /\ Timed(p)
    BY <1>1, <1>2, <1>20 DEF Pcbs
  <2>3. Listed(q)'
    BY <2>2, <1>1, <1>2, <1>3, <1>21 DEF Listed, Doomed, ActiveStates, Late
  <2>4. Owned(q)'
    BY <2>2, <1>1, <1>2, <1>3, <1>21 DEF Owned, Late
  <2>5. Timed(q)'
    BY <2>2, <1>1, <1>2, <1>3, <1>21 DEF Timed, Stamped
  <2>6. QED
    BY <2>3, <2>4, <2>5
<1>6. Control'
  BY <1>1, <1>2, <1>21 DEF Control, Late, Callbacks, Walks
<1>7. CurOK'
  BY <1>1, <1>2, <1>3, <1>21 DEF CurOK, Doomed, Refused, Late, OfInput, Callbacks
<1>8. Ordered'
  BY <1>1, <1>2, <1>3, <1>21, OrderStep
<1>9. Walk'
  BY <1>1, <1>2, <1>21, WalkStep DEF Callbacks, Walks
<1>10. QED
  BY <1>3, <1>4, <1>5, <1>6, <1>7, <1>8, <1>9 DEF IInv, ListStep


\* A reset: the PCB is freed after the error callback.
LEMMA InputResetKeeps ==
  ASSUME IInv, NEW p, p = cur, InputReset
  PROVE  IInv'
<1>1. /\ TypeOK /\ IsInjective(active) /\ Pcbs /\ Control /\ CurOK /\ Ordered /\ Walk
      /\ NULL \notin PCBS
  BY Parts
<1>2. /\ UNCHANGED <<tw, bound, changed, tcp_timer_ctr, pcb, prev, served, owned>>
      /\ p \in PCBS /\ p = cur /\ handler = "input" /\ p \notin tw /\ p \notin bound
      /\ active' = Without(p) /\ memp_free(p)
      /\ pc' = "main" /\ handler' = "none" /\ cur' = NULL /\ events' = {} /\ freed' = {}
      /\ p \notin owned
  <2>1. handler = "input" /\ "ABRT" \notin events
    BY <1>1 DEF Control, InputReset
  <2>2. cur \in PCBS /\ InList(cur) /\ cur \notin owned
    BY <1>1, <2>1 DEF CurOK, InputReset, OfInput, Callbacks, Late
  <2>3. cur \notin tw /\ cur \notin bound
    BY <1>1, <2>2 DEF Pcbs, Listed, ActiveStates
  <2>4. QED
    BY <2>1, <2>2, <2>3 DEF InputReset, RemoveCur, Finish, walkVars
<1>21. /\ \A q \in PCBS : state'[q] = (IF q = p THEN "FREE" ELSE state[q])
       /\ \A q \in PCBS : held'[q] = (IF q = p THEN "none" ELSE held[q])
       /\ \A q \in PCBS : q # p => last_timer'[q] = last_timer[q]
       /\ state' \in [PCBS -> States] /\ held' \in [PCBS -> Holds]
       /\ last_timer' \in [PCBS -> 0 .. CtrMod - 1]
       /\ rxclosed' = rxclosed \ {p} /\ local_port' = local_port \ {p}
  BY <1>1, <1>2, FreeFields
<1>3. ListStep(p) /\ \A q : InList(q)' <=> InList(q) /\ q # p
  BY <1>1, <1>2, RmvList
<1>4. TypeOK'
  <2>1. Fields /\ Subsets /\ Others
    BY <1>1, TypeParts
  <2>2. Fields'
    BY <2>1, <1>2, <1>21 DEF Fields
  <2>3. Subsets'
    BY <2>1, <1>2, <1>21 DEF Subsets
  <2>4. Others'
    BY <2>1, <1>2, <1>3, <1>21 DEF Others, ListStep, Callbacks
  <2>5. QED
    BY <2>2, <2>3, <2>4, TypeParts, PTL
<1>5. Pcbs'
  <2>1. SUFFICES ASSUME NEW q \in PCBS PROVE (Listed(q) /\ Owned(q) /\ Timed(q))'
    BY DEF Pcbs
  <2>2. Listed(q) /\ Owned(q) /\ Timed(q) /\ Listed(p) /\ Owned(p) /\ Timed(p)
    BY <1>1, <1>2 DEF Pcbs
  <2>3. Listed(q)'
    BY <2>2, <1>1, <1>2, <1>3, <1>21 DEF Listed, Doomed, ActiveStates, Late
  <2>4. Owned(q)'
    BY <2>2, <1>1, <1>2, <1>3, <1>21 DEF Owned, Late
  <2>5. Timed(q)'
    BY <2>2, <1>1, <1>2, <1>3, <1>21 DEF Timed, Stamped, Walks
  <2>6. QED
    BY <2>3, <2>4, <2>5
<1>6. Control'
  BY <1>1, <1>2, <1>21 DEF Control, Late, Callbacks, Walks
<1>7. CurOK'
  BY <1>2 DEF CurOK, Late, OfInput, Callbacks
<1>8. Ordered'
  BY <1>1, <1>2, <1>3, <1>21, OrderStep
<1>9. Walk'
  BY <1>1, <1>2, <1>21, WalkStep DEF Callbacks, Walks
<1>10. QED
  BY <1>3, <1>4, <1>5, <1>6, <1>7, <1>8, <1>9 DEF IInv, ListStep

\* TF_CLOSED.
LEMMA InputClosedKeeps ==
  ASSUME IInv, NEW p, p = cur, InputClosed
  PROVE  IInv'
<1>1. /\ TypeOK /\ IsInjective(active) /\ Pcbs /\ Control /\ CurOK /\ Ordered /\ Walk
      /\ NULL \notin PCBS
  BY Parts
<1>2. /\ UNCHANGED <<tw, bound, changed, tcp_timer_ctr, pcb, prev, served>>
      /\ p \in PCBS /\ p = cur /\ handler = "input" /\ p \notin tw /\ p \notin bound
      /\ active' = Without(p) /\ memp_free(p)
      /\ pc' = "main" /\ handler' = "none" /\ cur' = NULL /\ events' = {} /\ freed' = {}
      /\ p \notin owned' /\ (owned' = owned \/ owned' = owned \ {p})
  <2>1. handler = "input" /\ "ABRT" \notin events
    BY <1>1 DEF Control, InputClosed, Late, Callbacks
  <2>2. cur \in PCBS /\ ((state[cur] = "LAST_ACK" /\ InList(cur)) \/ Doomed(cur))
    BY <1>1, <2>1 DEF CurOK, InputClosed, OfInput, Callbacks, Late
  <2>3. cur \notin tw /\ cur \notin bound /\ (cur \in rxclosed => cur \notin owned)
    BY <1>1, <2>2 DEF Pcbs, Listed, Owned, Doomed, ActiveStates
  <2>4. QED
    BY <2>1, <2>2, <2>3 DEF InputClosed, TCP_EVENT_ERR, RemoveCur, Finish, walkVars
<1>21. /\ \A q \in PCBS : state'[q] = (IF q = p THEN "FREE" ELSE state[q])
       /\ \A q \in PCBS : held'[q] = (IF q = p THEN "none" ELSE held[q])
       /\ \A q \in PCBS : q # p => last_timer'[q] = last_timer[q]
       /\ state' \in [PCBS -> States] /\ held' \in [PCBS -> Holds]
       /\ last_timer' \in [PCBS -> 0 .. CtrMod - 1]
       /\ rxclosed' = rxclosed \ {p} /\ local_port' = local_port \ {p}
  BY <1>1, <1>2, FreeFields
<1>3. ListStep(p) /\ \A q : InList(q)' <=> InList(q) /\ q # p
  BY <1>1, <1>2, RmvList
<1>4. TypeOK'
  <2>1. Fields /\ Subsets /\ Others
    BY <1>1, TypeParts
  <2>2. Fields'
    BY <2>1, <1>2, <1>21 DEF Fields
  <2>3. Subsets'
    BY <2>1, <1>2, <1>21 DEF Subsets
  <2>4. Others'
    BY <2>1, <1>2, <1>3, <1>21 DEF Others, ListStep, Callbacks
  <2>5. QED
    BY <2>2, <2>3, <2>4, TypeParts, PTL
<1>5. Pcbs'
  <2>1. SUFFICES ASSUME NEW q \in PCBS PROVE (Listed(q) /\ Owned(q) /\ Timed(q))'
    BY DEF Pcbs
  <2>2. Listed(q) /\ Owned(q) /\ Timed(q) /\ Listed(p) /\ Owned(p) /\ Timed(p)
    BY <1>1, <1>2 DEF Pcbs
  <2>3. Listed(q)'
    BY <2>2, <1>1, <1>2, <1>3, <1>21 DEF Listed, Doomed, ActiveStates, Late
  <2>4. Owned(q)'
    BY <2>2, <1>1, <1>2, <1>3, <1>21 DEF Owned, Late
  <2>5. Timed(q)'
    BY <2>2, <1>1, <1>2, <1>3, <1>21 DEF Timed, Stamped, Walks
  <2>6. QED
    BY <2>3, <2>4, <2>5
<1>6. Control'
  BY <1>1, <1>2, <1>21 DEF Control, Late, Callbacks, Walks
<1>7. CurOK'
  BY <1>2 DEF CurOK, Late, OfInput, Callbacks
<1>8. Ordered'
  BY <1>1, <1>2, <1>3, <1>21, OrderStep
<1>9. Walk'
  BY <1>1, <1>2, <1>21, WalkStep DEF Callbacks, Walks
<1>10. QED
  BY <1>3, <1>4, <1>5, <1>6, <1>7, <1>8, <1>9 DEF IInv, ListStep

\* tcp_abort by the stack.
LEMMA AbortCurKeeps ==
  ASSUME IInv, NEW p, p = cur, AcceptFails \/ InputDataAfterClose
  PROVE  IInv'
<1>1. /\ TypeOK /\ IsInjective(active) /\ Pcbs /\ Control /\ CurOK /\ Ordered /\ Walk
      /\ NULL \notin PCBS
  BY Parts
<1>2. /\ UNCHANGED <<tcp_timer_ctr, pcb, prev, served>>
      /\ p \in PCBS /\ p = cur /\ handler = "input" /\ ~Doomed(p)
      /\ active' = Without(p) /\ memp_free(p)
      /\ tw' = tw \ {p} /\ bound' = bound \ {p} /\ owned' = owned \ {p}
      /\ changed' = TRUE \/ changed' = changed
      /\ pc' = "main" /\ handler' = "none" /\ cur' = NULL /\ events' = {} /\ freed' = {}
  <2>1. handler = "input" /\ "ABRT" \notin events
    BY <1>1 DEF Control, AcceptFails, InputDataAfterClose, Aborted, Late, Callbacks
  <2>2. cur \in PCBS /\ ~Doomed(cur)
    BY <1>1, <2>1 DEF CurOK, Doomed, AcceptFails, InputDataAfterClose, OfInput, Callbacks, Late
  <2>3. (cur \in tw \/ state[cur] = "CLOSED") => ~InList(cur)
    BY <1>1, <2>2 DEF Pcbs, Listed, ActiveStates
  <2>4. ~InList(cur) => Without(cur) = active
    BY DEF InList, Without
  <2>5. AbortCur
    BY DEF AcceptFails, InputDataAfterClose
  <2>6. QED
    BY <2>1, <2>2, <2>3, <2>4, <2>5 DEF AbortCur, OffLists, TCP_RMV_ACTIVE, TCP_EVENT_ERR, Finish, walkVars
<1>21. /\ \A q \in PCBS : state'[q] = (IF q = p THEN "FREE" ELSE state[q])
       /\ \A q \in PCBS : held'[q] = (IF q = p THEN "none" ELSE held[q])
       /\ \A q \in PCBS : q # p => last_timer'[q] = last_timer[q]
       /\ state' \in [PCBS -> States] /\ held' \in [PCBS -> Holds]
       /\ last_timer' \in [PCBS -> 0 .. CtrMod - 1]
       /\ rxclosed' = rxclosed \ {p} /\ local_port' = local_port \ {p}
  BY <1>1, <1>2, FreeFields
<1>3. ListStep(p) /\ \A q : InList(q)' <=> InList(q) /\ q # p
  BY <1>1, <1>2, RmvList
<1>4. TypeOK'
  <2>1. Fields /\ Subsets /\ Others
    BY <1>1, TypeParts
  <2>2. Fields'
    BY <2>1, <1>2, <1>21 DEF Fields
  <2>3. Subsets'
    BY <2>1, <1>2, <1>21 DEF Subsets
  <2>4. Others'
    BY <2>1, <1>2, <1>3, <1>21 DEF Others, ListStep, Callbacks
  <2>5. QED
    BY <2>2, <2>3, <2>4, TypeParts, PTL
<1>5. Pcbs'
  <2>1. SUFFICES ASSUME NEW q \in PCBS PROVE (Listed(q) /\ Owned(q) /\ Timed(q))'
    BY DEF Pcbs
  <2>2. Listed(q) /\ Owned(q) /\ Timed(q) /\ Listed(p) /\ Owned(p) /\ Timed(p)
    BY <1>1, <1>2 DEF Pcbs
  <2>3. Listed(q)'
    BY <2>2, <1>1, <1>2, <1>3, <1>21 DEF Listed, Doomed, ActiveStates, Late
  <2>4. Owned(q)'
    BY <2>2, <1>1, <1>2, <1>3, <1>21 DEF Owned, Late
  <2>5. Timed(q)'
    BY <2>2, <1>1, <1>2, <1>3, <1>21 DEF Timed, Stamped, Walks
  <2>6. QED
    BY <2>3, <2>4, <2>5
<1>6. Control'
  BY <1>1, <1>2, <1>21 DEF Control, Late, Callbacks, Walks
<1>7. CurOK'
  BY <1>2 DEF CurOK, Late, OfInput, Callbacks
<1>8. Ordered'
  BY <1>1, <1>2, <1>3, <1>21, OrderStep
<1>9. Walk'
  BY <1>1, <1>2, <1>21, WalkStep DEF Callbacks, Walks
<1>10. QED
  BY <1>3, <1>4, <1>5, <1>6, <1>7, <1>8, <1>9 DEF IInv, ListStep

\* tcp_listen_input takes the slot p, or fails with p killed.
ListenPcb(p) ==
  /\ pc = "main"
  /\ tcp_alloc(p, "SYN_RCVD")
  /\ local_port' = local_port \cup {p}
  /\ active' = <<p>> \o Without(p) /\ changed' = TRUE
  /\ TCP_EVENT_ERR(p)
  /\ UNCHANGED <<bound, walkVars, runVars>>

ListenKills(p) ==
  /\ pc = "main"
  /\ tcp_alloc(p, "FREE") /\ state[p] # "FREE"
  /\ local_port' = local_port \ {p}
  /\ active' = Without(p) /\ changed' = TRUE
  /\ TCP_EVENT_ERR(p)
  /\ UNCHANGED <<bound, walkVars, runVars>>

LEMMA ListenKeeps ==
  ASSUME IInv, NEW p \in PCBS, ListenPcb(p)
  PROVE  IInv'
<1>1. /\ TypeOK /\ IsInjective(active) /\ Pcbs /\ Control /\ CurOK /\ Ordered /\ Walk
      /\ NULL \notin PCBS
  BY Parts
<1>2. /\ UNCHANGED <<bound, tcp_timer_ctr, pcb, prev, served, pc, handler, cur, events, freed>>
      /\ pc = "main" /\ (state[p] = "FREE" \/ p \in tw \/ InList(p))
      /\ state' = SetState(p, "SYN_RCVD") /\ held' = [held EXCEPT ![p] = "none"]
      /\ last_timer' = [last_timer EXCEPT ![p] = tcp_timer_ctr]
      /\ rxclosed' = rxclosed \ {p} /\ tw' = tw \ {p} /\ owned' = owned \ {p}
      /\ changed' = TRUE
      /\ local_port' = local_port \cup {p} /\ active' = <<p>> \o Without(p)
  <2>1. state[p] = "FREE" \/ p \in tw \/ InList(p)
    BY DEF ListenPcb, tcp_alloc, InState, Victims, InList
  <2>2. QED
    BY <2>1 DEF ListenPcb, tcp_alloc, TCP_EVENT_ERR, walkVars, runVars
<1>21. /\ \A q \in PCBS : state'[q] = (IF q = p THEN "SYN_RCVD" ELSE state[q])
       /\ \A q \in PCBS : held'[q] = (IF q = p THEN "none" ELSE held[q])
       /\ \A q \in PCBS : q # p => last_timer'[q] = last_timer[q]
       /\ last_timer'[p] = tcp_timer_ctr
       /\ state' \in [PCBS -> States] /\ held' \in [PCBS -> Holds]
       /\ last_timer' \in [PCBS -> 0 .. CtrMod - 1]
  <2>1. tcp_timer_ctr \in 0 .. CtrMod - 1
    BY <1>1 DEF TypeOK
  <2>2. last_timer \in [PCBS -> 0 .. CtrMod - 1]
    BY <1>1 DEF TypeOK
  <2>3. /\ \A q \in PCBS : state'[q] = (IF q = p THEN "SYN_RCVD" ELSE state[q])
        /\ state' \in [PCBS -> States]
    BY <1>1, <1>2, StateField DEF States, ActiveStates
  <2>4. /\ \A q \in PCBS : held'[q] = (IF q = p THEN "none" ELSE held[q])
        /\ held' \in [PCBS -> Holds]
    BY <1>1, <1>2, HeldField DEF Holds
  <2>5. /\ \A q \in PCBS : q # p => last_timer'[q] = last_timer[q]
        /\ last_timer'[p] = tcp_timer_ctr
        /\ last_timer' \in [PCBS -> 0 .. CtrMod - 1]
    BY <2>1, <2>2, <1>2
  <2>6. QED
    BY <2>3, <2>4, <2>5
<1>3. ListStep(p) /\ \A q : InList(q)' <=> InList(q) \/ q = p
  BY <1>1, <1>2, FrontList
<1>4. TypeOK'
  <2>1. Fields /\ Subsets /\ Others
    BY <1>1, TypeParts
  <2>2. Fields'
    BY <2>1, <1>2, <1>21 DEF Fields
  <2>3. Subsets'
    BY <2>1, <1>2, <1>21 DEF Subsets
  <2>4. Others'
    BY <2>1, <1>2, <1>3, <1>21 DEF Others, ListStep
  <2>5. QED
    BY <2>2, <2>3, <2>4, TypeParts, PTL
<1>5. Pcbs'
  <2>1. SUFFICES ASSUME NEW q \in PCBS PROVE (Listed(q) /\ Owned(q) /\ Timed(q))'
    BY DEF Pcbs
  <2>2. Listed(q) /\ Owned(q) /\ Timed(q) /\ Listed(p) /\ Owned(p) /\ Timed(p)
    BY <1>1, <1>2 DEF Pcbs
  <2>3. Listed(q)'
    BY <2>2, <1>1, <1>2, <1>3, <1>21 DEF Listed, Doomed, ActiveStates, Late
  <2>4. Owned(q)'
    BY <2>2, <1>1, <1>2, <1>3, <1>21 DEF Owned, Late
  <2>5. Timed(q)'
    BY <2>2, <1>1, <1>2, <1>3, <1>21 DEF Timed, Stamped
  <2>6. QED
    BY <2>3, <2>4, <2>5
<1>6. Control'
  BY <1>1, <1>2, <1>21 DEF Control
<1>7. CurOK'
  BY <1>2 DEF CurOK, Late, OfInput, Callbacks
<1>8. Ordered'
  BY <1>1, <1>2, <1>3, <1>21, OrderStep DEF Stamped
<1>9. Walk'
  BY <1>1, <1>2, <1>21, WalkStep DEF Callbacks, Walks, Control
<1>10. QED
  BY <1>3, <1>4, <1>5, <1>6, <1>7, <1>8, <1>9 DEF IInv, ListStep

LEMMA ListenKillsKeeps ==
  ASSUME IInv, NEW p \in PCBS, ListenKills(p)
  PROVE  IInv'
<1>1. /\ TypeOK /\ IsInjective(active) /\ Pcbs /\ Control /\ CurOK /\ Ordered /\ Walk
      /\ NULL \notin PCBS
  BY Parts
<1>2. /\ UNCHANGED <<bound, tcp_timer_ctr, pcb, prev, served, pc, handler, cur, events, freed>>
      /\ pc = "main" /\ (state[p] = "FREE" \/ p \in tw \/ InList(p))
      /\ state' = SetState(p, "FREE") /\ held' = [held EXCEPT ![p] = "none"]
      /\ last_timer' = [last_timer EXCEPT ![p] = tcp_timer_ctr]
      /\ rxclosed' = rxclosed \ {p} /\ tw' = tw \ {p} /\ owned' = owned \ {p}
      /\ changed' = TRUE
      /\ local_port' = local_port \ {p} /\ active' = Without(p)
  <2>1. state[p] = "FREE" \/ p \in tw \/ InList(p)
    BY DEF ListenKills, tcp_alloc, InState, Victims, InList
  <2>2. QED
    BY <2>1 DEF ListenKills, tcp_alloc, TCP_EVENT_ERR, walkVars, runVars
<1>21. /\ \A q \in PCBS : state'[q] = (IF q = p THEN "FREE" ELSE state[q])
       /\ \A q \in PCBS : held'[q] = (IF q = p THEN "none" ELSE held[q])
       /\ \A q \in PCBS : q # p => last_timer'[q] = last_timer[q]
       /\ last_timer'[p] = tcp_timer_ctr
       /\ state' \in [PCBS -> States] /\ held' \in [PCBS -> Holds]
       /\ last_timer' \in [PCBS -> 0 .. CtrMod - 1]
  <2>1. tcp_timer_ctr \in 0 .. CtrMod - 1
    BY <1>1 DEF TypeOK
  <2>2. last_timer \in [PCBS -> 0 .. CtrMod - 1]
    BY <1>1 DEF TypeOK
  <2>3. /\ \A q \in PCBS : state'[q] = (IF q = p THEN "FREE" ELSE state[q])
        /\ state' \in [PCBS -> States]
    BY <1>1, <1>2, StateField DEF States, ActiveStates
  <2>4. /\ \A q \in PCBS : held'[q] = (IF q = p THEN "none" ELSE held[q])
        /\ held' \in [PCBS -> Holds]
    BY <1>1, <1>2, HeldField DEF Holds
  <2>5. /\ \A q \in PCBS : q # p => last_timer'[q] = last_timer[q]
        /\ last_timer'[p] = tcp_timer_ctr
        /\ last_timer' \in [PCBS -> 0 .. CtrMod - 1]
    BY <2>1, <2>2, <1>2
  <2>6. QED
    BY <2>3, <2>4, <2>5
<1>3. ListStep(p) /\ \A q : InList(q)' <=> InList(q) /\ q # p
  BY <1>1, <1>2, RmvList
<1>4. TypeOK'
  <2>1. Fields /\ Subsets /\ Others
    BY <1>1, TypeParts
  <2>2. Fields'
    BY <2>1, <1>2, <1>21 DEF Fields
  <2>3. Subsets'
    BY <2>1, <1>2, <1>21 DEF Subsets
  <2>4. Others'
    BY <2>1, <1>2, <1>3, <1>21 DEF Others, ListStep
  <2>5. QED
    BY <2>2, <2>3, <2>4, TypeParts, PTL
<1>5. Pcbs'
  <2>1. SUFFICES ASSUME NEW q \in PCBS PROVE (Listed(q) /\ Owned(q) /\ Timed(q))'
    BY DEF Pcbs
  <2>2. Listed(q) /\ Owned(q) /\ Timed(q) /\ Listed(p) /\ Owned(p) /\ Timed(p)
    BY <1>1, <1>2 DEF Pcbs
  <2>3. Listed(q)'
    BY <2>2, <1>1, <1>2, <1>3, <1>21 DEF Listed, Doomed, ActiveStates, Late
  <2>4. Owned(q)'
    BY <2>2, <1>1, <1>2, <1>3, <1>21 DEF Owned, Late
  <2>5. Timed(q)'
    BY <2>2, <1>1, <1>2, <1>3, <1>21 DEF Timed, Stamped
  <2>6. QED
    BY <2>3, <2>4, <2>5
<1>6. Control'
  BY <1>1, <1>2, <1>21 DEF Control
<1>7. CurOK'
  BY <1>2 DEF CurOK, Late, OfInput, Callbacks
<1>8. Ordered'
  BY <1>1, <1>2, <1>3, <1>21, OrderStep
<1>9. Walk'
  BY <1>1, <1>2, <1>21, WalkStep DEF Callbacks, Walks, Control
<1>10. QED
  BY <1>3, <1>4, <1>5, <1>6, <1>7, <1>8, <1>9 DEF IInv, ListStep

\* tcp_input finds the PCB p of a segment.
InputFor(p) ==
  /\ pc = "main"
  /\ active' = <<p>> \o Without(p)
  /\ handler' = "input"
  /\ IF Refused(p) THEN Offer(p)
     ELSE pc' = "process" /\ cur' = p /\ UNCHANGED <<held, events, freed>>
  /\ UNCHANGED <<state, local_port, rxclosed, last_timer, tw, bound, changed, walkVars, owned>>

LEMMA InputKeeps ==
  ASSUME IInv, NEW p \in PCBS, InList(p), InputFor(p)
  PROVE  IInv'
<1>1. /\ TypeOK /\ IsInjective(active) /\ Pcbs /\ Control /\ CurOK /\ Ordered /\ Walk
      /\ NULL \notin PCBS
  BY Parts
<1>2. /\ UNCHANGED <<state, local_port, rxclosed, last_timer, tw, bound, changed, tcp_timer_ctr, pcb, prev,
                     served, owned>>
      /\ pc = "main" /\ handler = "none" /\ handler' = "input" /\ InList(p)
      /\ active' = <<p>> \o Without(p) /\ cur' = p /\ events = {}
      /\ \/ /\ Refused(p) /\ pc' = "refused" /\ freed' = {} /\ events' \subseteq {"FIN"}
            /\ held' = [held EXCEPT ![p] = "unread"]
         \/ pc' = "process" /\ events' = {} /\ UNCHANGED <<held, freed>>
  BY <1>1 DEF Control, InputFor, Offer, Callback, walkVars
<1>21. /\ held' \in [PCBS -> Holds]
       /\ \A q \in PCBS : held[q] = "none" => held'[q] = "none"
       /\ state[p] \in ActiveStates /\ Stamped(p)
       /\ Refused(p) => state[p] \notin {"CLOSED", "SYN_SENT", "SYN_RCVD"}
  <2>1. held' \in [PCBS -> Holds] /\ \A q \in PCBS : held[q] = "none" => held'[q] = "none"
    BY <1>1, <1>2 DEF TypeOK, Holds, Refused
  <2>2. Listed(p) /\ Timed(p)
    BY <1>1 DEF Pcbs
  <2>3. QED
    BY <2>1, <2>2, <1>2 DEF Listed, Timed, Refused, Walks
<1>3. ListStep(p) /\ \A q : InList(q)' <=> InList(q) \/ q = p
  BY <1>1, <1>2, FrontList
<1>4. TypeOK'
  <2>1. Fields /\ Subsets /\ Others
    BY <1>1, TypeParts
  <2>2. Fields'
    BY <2>1, <1>2, <1>21 DEF Fields
  <2>3. Subsets'
    BY <2>1, <1>2, <1>21 DEF Subsets
  <2>4. Others'
    BY <2>1, <1>2, <1>3, <1>21 DEF Others, ListStep, Callbacks
  <2>5. QED
    BY <2>2, <2>3, <2>4, TypeParts, PTL
<1>5. Pcbs'
  <2>1. SUFFICES ASSUME NEW q \in PCBS PROVE (Listed(q) /\ Owned(q) /\ Timed(q))'
    BY DEF Pcbs
  <2>2. Listed(q) /\ Owned(q) /\ Timed(q) /\ Listed(p) /\ Owned(p) /\ Timed(p)
    BY <1>1, <1>2 DEF Pcbs
  <2>3. Listed(q)'
    BY <2>2, <1>1, <1>2, <1>3, <1>21 DEF Listed, Doomed, ActiveStates, Late
  <2>4. Owned(q)'
    BY <2>2, <1>1, <1>2, <1>3, <1>21 DEF Owned, Late
  <2>5. Timed(q)'
    BY <2>2, <1>1, <1>2, <1>3, <1>21 DEF Timed, Stamped, Walks
  <2>6. QED
    BY <2>3, <2>4, <2>5
<1>6. Control'
  BY <1>1, <1>2, <1>21 DEF Control, Late, Callbacks, Walks
<1>7. CurOK'
  BY <1>2, <1>3, <1>21 DEF CurOK, Late, OfInput, Callbacks, InList
<1>8. Ordered'
  BY <1>1, <1>2, <1>3, <1>21, OrderStep DEF Stamped
<1>9. Walk'
  BY <1>1, <1>2, <1>21, WalkStep DEF Callbacks, Walks
<1>10. QED
  BY <1>3, <1>4, <1>5, <1>6, <1>7, <1>8, <1>9 DEF IInv, ListStep

\* Every step of tcp_input.
LEMMA InputsKeep ==
  ASSUME IInv, Rules, Input
  PROVE  IInv'
<1>1. PICK c : c = cur
  OBVIOUS
<1>2. ASSUME tcp_input PROVE IInv'
  <2>1. PICK p \in ToSet(active) : InputFor(p)
    BY <1>2 DEF tcp_input, InputFor
  <2>2. p \in PCBS /\ InList(p)
    BY Parts DEF InList, ToSet, TypeOK
  <2>3. QED
    BY <2>1, <2>2, InputKeeps
<1>3. ASSUME tcp_listen_input PROVE IInv'
  <2>1. PICK p \in PCBS : ListenPcb(p)
    BY <1>3 DEF tcp_listen_input, ListenPcb
  <2>2. QED
    BY <2>1, ListenKeeps
<1>4. ASSUME ListenInputFails PROVE IInv'
  <2>1. PICK p \in PCBS : ListenKills(p)
    BY <1>4 DEF ListenInputFails, ListenKills
  <2>2. QED
    BY <2>1, ListenKillsKeeps
<1>5. ASSUME ProcessReceive PROVE IInv'
  <2>1. PICK e \in Received, all \in BOOLEAN : Receives(e, all)
    BY <1>5 DEF ProcessReceive, Receives
  <2>2. QED
    BY <2>1, <1>1, ReceiveKeeps, ReceiveTimeWaitKeeps
<1>6. ASSUME InputReset \/ InputClosed \/ AcceptFails \/ InputDataAfterClose PROVE IInv'
  BY <1>1, <1>6, InputResetKeeps, InputClosedKeeps, AbortCurKeeps
<1>7. ASSUME InputEof PROVE IInv'
  BY <1>7, EofRefusedKeeps, EofReportedKeeps
<1>8. ASSUME \/ RefusedAborted \/ RefusedTaken \/ RefusedAgain \/ RefusedEof
             \/ ProcessReset \/ ProcessNothing \/ ProcessSynSent \/ ProcessSynRcvd
      PROVE  IInv'
  BY <1>8, RefusedKeeps, ProcessResetKeeps, ProcessNothingKeeps, SynSentKeeps, SynRcvdKeeps
<1>9. ASSUME \/ InputAborted \/ Connected \/ Accepted \/ InputSent \/ Sent \/ InputRecv
             \/ RecvTaken \/ RecvRefused \/ Closed \/ InputOutput
      PROVE  IInv'
  BY <1>9, InputAbortedKeeps, ConnectedKeeps, AcceptedKeeps, InputSentKeeps, SentKeeps,
     InputRecvKeeps, RecvTakenKeeps, RecvRefusedKeeps, ClosedKeeps, InputOutputKeeps
<1>10. QED
  BY <1>2, <1>3, <1>4, <1>5, <1>6, <1>7, <1>8, <1>9 DEF Input


-----------------------------------------------------------------------------
(***************************************************************************)
(* The theorems.                                                           *)
(***************************************************************************)
LEMMA InitKeeps == Init => IInv
<1>1. SUFFICES ASSUME Init PROVE IInv
  OBVIOUS
<1>2. NULL \notin PCBS /\ 0 \in 0 .. CtrMod - 1
  BY PcbsAssumption
<1>3. TypeOK
  <2>1. Fields
    BY <1>1, <1>2 DEF Init, Fields, States, Holds
  <2>2. Subsets
    BY <1>1 DEF Init, Subsets
  <2>3. Others
    <3>1. active \in Seq(PCBS)
      BY <1>1 DEF Init
    <3>2. /\ pcb \in PCBS \cup {NULL} /\ prev \in PCBS \cup {NULL} /\ cur \in PCBS \cup {NULL}
          /\ tcp_timer_ctr \in 0 .. CtrMod - 1 /\ changed \in BOOLEAN
      BY <1>1, <1>2 DEF Init
    <3>3. /\ pc = "main" /\ handler = "none" /\ events = {}
      BY <1>1 DEF Init
    <3>4. QED
      BY <3>1, <3>2, <3>3 DEF Others
  <2>4. QED
    BY <2>1, <2>2, <2>3, TypeParts
<1>4. /\ \A q : ~InList(q)
      /\ \A a, b : ~Before(active, a, b)
      /\ IsInjective(active)
  BY <1>1 DEF Init, InList, ToSet, Before, IsInjective
<1>5. Pcbs
  BY <1>1, <1>4 DEF Init, Pcbs, Listed, Owned, Timed, ActiveStates
<1>6. Control
  BY <1>1 DEF Init, Control, Late
<1>7. CurOK
  BY <1>1 DEF Init, CurOK, OfInput, Callbacks, Late
<1>8. Ordered /\ Walk
  BY <1>1, <1>4 DEF Init, Ordered, Walk, Walks
<1>9. QED
  BY <1>3, <1>4, <1>5, <1>6, <1>7, <1>8 DEF IInv

LEMMA StutterKeeps ==
  ASSUME IInv, UNCHANGED vars
  PROVE  IInv'
<1>1. UNCHANGED <<state, local_port, rxclosed, held, last_timer, active, tw, bound, changed,
                  tcp_timer_ctr, pcb, prev, served, pc, handler, cur, events, owned, freed>>
  BY DEF vars, pcbVars, listVars, walkVars, runVars
<1>2. TypeOK' /\ IsInjective(active)'
  BY <1>1 DEF IInv, TypeOK, IsInjective
<1>3. Pcbs'
  BY <1>1 DEF IInv, Pcbs, Listed, Owned, Timed, InList, Doomed, Stamped
<1>4. Control'
  BY <1>1 DEF IInv, Control
<1>5. CurOK'
  BY <1>1 DEF IInv, CurOK, InList, Doomed, Refused
<1>6. Ordered'
  BY <1>1 DEF IInv, Ordered, Before, Stamped
<1>7. Walk'
  BY <1>1 DEF IInv, Walk, InList, Before, Stamped, NextOf
<1>8. QED
  BY <1>2, <1>3, <1>4, <1>5, <1>6, <1>7 DEF IInv

\* The inductive invariant.
LEMMA PcbsInductive ==
  ASSUME Rules
  PROVE  Spec => []IInv
<1>1. IInv /\ [Next]_vars => IInv'
  BY ApiKeeps, TimersKeep, InputsKeep, StutterKeeps DEF Next
<1>2. QED
  BY <1>1, InitKeeps, PTL DEF Spec

\* The lists hold: whatever the timers, tcp_input, tcp_alloc and the callbacks of
\* an application that keeps the rules do, every PCB is in the one list of its
\* state, once, and between two handlers none is lost.
THEOREM PcbsListsHold ==
  ASSUME Rules
  PROVE  Spec => []ListsHold
<1>1. IInv => ListsHold
  <2>1. SUFFICES ASSUME IInv PROVE ListsHold
    OBVIOUS
  <2>2. /\ TypeOK /\ IsInjective(active) /\ Pcbs /\ Control /\ CurOK /\ Ordered /\ Walk
        /\ NULL \notin PCBS
    BY <2>1, Parts
  <2>3. active \in Seq(PCBS) /\ Subsets
    BY <2>2, TypeParts DEF TypeOK
  <2>4. \A q : InList(q) => q \in PCBS
    BY <2>3 DEF InList, ToSet
  <2>5. ListsSane
    <3>1. ToSet(active) \subseteq InState(ActiveStates)
      BY <2>2, <2>4 DEF Pcbs, Listed, InState, InList
    <3>2. tw = InState({"TIME_WAIT"})
      BY <2>2, <2>3 DEF Pcbs, Listed, InState, Subsets
    <3>3. bound \subseteq InState({"CLOSED"}) \cap local_port
      BY <2>2, <2>3 DEF Pcbs, Listed, InState, Subsets
    <3>4. QED
      BY <2>2, <3>1, <3>2, <3>3 DEF ListsSane
  <2>6. NoPcbLost
    <3>1. SUFFICES ASSUME pc = "main"
                   PROVE  /\ InState(ActiveStates) = ToSet(active)
                          /\ InState({"CLOSED"}) \subseteq owned
      BY DEF NoPcbLost
    <3>2. \A q \in PCBS : state[q] \in ActiveStates <=> InList(q)
      BY <3>1, <2>2 DEF Pcbs, Listed, Doomed
    <3>3. InState(ActiveStates) = ToSet(active)
      BY <3>2, <2>4 DEF InState, InList
    <3>4. InState({"CLOSED"}) \subseteq owned
      BY <2>2 DEF Pcbs, Listed, InState
    <3>5. QED
      BY <3>3, <3>4
  <2>7. QED
    BY <2>2, <2>5, <2>6 DEF ListsHold
<1>2. QED
  BY <1>1, PcbsInductive, PTL

\* The application never holds a handle of a freed PCB: timeouts, resets, the
\* stack's own aborts and tcp_alloc take it away with the error callback.
THEOREM PcbsHandlesValid ==
  ASSUME Rules
  PROVE  Spec => []HandlesValid
<1>1. IInv => HandlesValid
  <2>1. IInv => owned \subseteq PCBS
    BY TypeParts DEF IInv, Subsets
  <2>2. QED
    BY <2>1 DEF IInv, HandlesValid, Pcbs, Owned
<1>2. QED
  BY <1>1, PcbsInductive, PTL

\* The pointers that tcp_slowtmr, tcp_fasttmr and tcp_input keep across callbacks
\* are of PCBs in the list, or not freed by the callback.
THEOREM PcbsPointersValid ==
  ASSUME Rules
  PROVE  Spec => []PointersValid
<1>1. IInv => PointersValid
  <2>1. SUFFICES ASSUME IInv PROVE PointersValid
    OBVIOUS
  <2>2. Control /\ CurOK /\ Walk
    BY <2>1 DEF IInv
  <2>3. ASSUME pc \in {"slow", "fast"} \/ (pc \in {"poll", "timeout"} /\ ~changed)
        PROVE  {pcb, prev} \subseteq ToSet(active) \cup {NULL}
    BY <2>2, <2>3 DEF Walk, Walks, Control, InList
  <2>4. ASSUME pc \in Callbacks \ {"poll", "timeout"}, ~Aborted
        PROVE  cur \notin freed
    BY <2>2, <2>4 DEF CurOK, OfInput, Aborted
  <2>5. QED
    BY <2>3, <2>4 DEF PointersValid
<1>2. QED
  BY <1>1, PcbsInductive, PTL

\* A walk over the list ends only when every PCB of the list has been dealt with
\* in this tick, however often callbacks have made it start over.
THEOREM PcbsAllServed ==
  ASSUME Rules
  PROVE  Spec => []AllServed
<1>1. IInv => AllServed
  <2>1. SUFFICES ASSUME IInv, pc \in {"slow", "fast"}, pcb = NULL, NEW p \in ToSet(active)
                 PROVE  last_timer[p] = tcp_timer_ctr
    BY DEF AllServed
  <2>2. p \in PCBS /\ InList(p)
    BY <2>1 DEF IInv, TypeOK, ToSet, InList
  <2>3. Control /\ Walk
    BY <2>1 DEF IInv
  <2>4. QED
    BY <2>1, <2>2, <2>3 DEF Walk, Walks, Control, Stamped
<1>2. QED
  BY <1>1, PcbsInductive, PTL

\* No slot of the pool is visited twice in a tick of a timer.
THEOREM PcbsVisitedOnce ==
  ASSUME Rules
  PROVE  Spec => []VisitedOnce
<1>1. IInv => VisitedOnce
  <2>1. SUFFICES ASSUME IInv, pc \in {"slow", "fast"}, Due, pcb \in served
                 PROVE  FALSE
    BY DEF VisitedOnce
  <2>2. Control /\ Walk /\ Pcbs /\ served \subseteq PCBS
    BY <2>1, TypeParts DEF IInv, Subsets
  <2>3. InList(pcb) /\ pcb \in PCBS
    BY <2>1, <2>2 DEF Walk, Walks, Control, Due
  <2>4. Timed(pcb)
    BY <2>2, <2>3 DEF Pcbs
  <2>5. QED
    BY <2>1, <2>3, <2>4 DEF Timed, Stamped, Due
<1>2. QED
  BY <1>1, PcbsInductive, PTL

=============================================================================
