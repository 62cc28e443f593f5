---------------------------- MODULE TcpConnProof ----------------------------
(***************************************************************************)
(* Proofs about the life of connections.  The invariant relates each PCB   *)
(* to its peer, and each segment under way to the PCB it goes to and to    *)
(* the one it came from, if they still exist.                              *)
(***************************************************************************)
EXTENDS TcpConn, FiniteSetTheorems, TLAPS

(***************************************************************************)
(* The inductive invariant.                                                *)
(***************************************************************************)
\* The sequence number of the SYN: it and the FIN are all that is ever sent.
Iss(p) == p.snd_nxt - (IF p.rxclosed THEN 2 ELSE 1)

\* What holds of a PCB of host h by itself.
Own(h, p) ==
  /\ p \in Pcb
  /\ p.rxclosed <=> p.st \notin {"SYN_SENT", "SYN_RCVD", "ESTABLISHED", "CLOSE_WAIT"}
  /\ 0 <= Iss(p) /\ Iss(p) <= p.lastack /\ p.lastack <= p.snd_nxt
  /\ p.c1 < port /\ p.c2 <= serverId
  /\ h = Client => /\ p.st # "SYN_RCVD"
                   /\ p.st = "SYN_SENT" =>
                        p.c2 = 0 /\ \A c \in Ids : <<p.c1, c>> \notin made
  /\ h = Server => /\ p.st # "SYN_SENT" /\ p.c2 # 0
                   /\ p.st = "SYN_RCVD" => p.lastack = Iss(p)
  /\ Synchronised(p) => <<p.c1, p.c2>> \in made
  /\ \A s \in p.unacked :
       /\ s.c1 = p.c1
       /\ s.flag = "SYN" => s.seqno = Iss(p) /\ s.c2 = (IF h = Client THEN 0 ELSE p.c2)
       /\ s.flag = "FIN" => s.seqno = Iss(p) + 1 /\ s.c2 = p.c2 /\ p.rxclosed
  /\ p.rxclosed => <<h, p.c1, p.c2>> \in closed
  /\ p.st \in {"CLOSE_WAIT", "CLOSING", "LAST_ACK", "TIME_WAIT"} =>
       <<Peer(h), p.c1, p.c2>> \in closed

\* PCB p of the client and q of the server.  While the client does not know
\* the server's half of the id, it may be talking to any of its half-open PCBs.
Pair(p, q) ==
  p.c1 = q.c1 =>
    /\ p.c2 \in {0, q.c2} => Between(q.rcv_nxt, Iss(p) + 1, p.snd_nxt)
    /\ p.c2 = q.c2 => /\ Between(p.rcv_nxt, Iss(q) + 1, q.snd_nxt)
                      /\ q.lastack <= p.rcv_nxt
                      /\ p.lastack <= q.rcv_nxt

\* What holds of a segment under way by itself.
SegOK(m) ==
  /\ m.to \in Hosts /\ m.c1 \in Ports /\ m.c2 \in Ids \cup {0}
  /\ m.flags \subseteq Flags /\ m.seqno \in Nat /\ m.ackno \in Nat
  /\ m.c1 < port /\ m.c2 <= serverId
  /\ m.to = Server /\ m.c2 # 0 => <<m.c1, m.c2>> \in made
  /\ "RST" \notin m.flags /\ ~("SYN" \in m.flags /\ m.to = Server) =>
       "ACK" \in m.flags /\ m.c2 # 0
  /\ "SYN" \in m.flags /\ m.to = Server => m.c2 = 0
  /\ "FIN" \in m.flags => <<Peer(m.to), m.c1, m.c2>> \in closed

Acking(m) == "ACK" \in m.flags /\ "RST" \notin m.flags

Same(m, p) == p.c1 = m.c1 /\ p.c2 = m.c2

\* Segment m and a PCB q of the host it goes to.
SegTo(m, q) ==
  /\ Acking(m) /\ m.c2 # 0 /\ q.c1 = m.c1 /\ q.c2 \in {0, m.c2} =>
       Between(m.ackno, Iss(q) + 1, q.snd_nxt)
  /\ "SYN" \in m.flags /\ Same(m, q) => m.seqno + 1 <= q.rcv_nxt

\* Segment m and a PCB r of the host it came from.
SegFrom(m, r) ==
  /\ "FIN" \in m.flags /\ Same(m, r) => r.rxclosed /\ m.seqno = Iss(r) + 1
  /\ "SYN" \in m.flags /\ r.c1 = m.c1 /\ (m.to = Server \/ r.c2 = m.c2) => m.seqno = Iss(r)
  /\ Acking(m) /\ Same(m, r) => m.ackno <= r.rcv_nxt
  /\ "RST" \in m.flags /\ m.c2 # 0 => ~Same(m, r)

\* Copies of a SYN|ACK have the same sequence number.
Twins(m, n) ==
  /\ "SYN" \in m.flags /\ "SYN" \in n.flags
  /\ m.to = Client /\ n.to = Client /\ m.c1 = n.c1 /\ m.c2 = n.c2
  => m.seqno = n.seqno

Globals ==
  /\ status \in [Hosts -> {"up", "dead", "fault"}]
  /\ iss \in [Hosts -> Nat \ {0}]
  /\ port \in Ports \cup {FirstPort + MaxConnects}
  /\ serverId \in Ids \cup {FirstId - 2}
  /\ made \subseteq {c \in Ports \X Ids : c[1] < port}
  /\ closed \subseteq Hosts \X Ports \X Ids

Variables == pcbs \in [Hosts -> SUBSET Pcb] /\ Globals

PcbsOK == \A h \in Hosts : \A p \in pcbs[h] : Own(h, p)

PairsOK == \A p \in pcbs[Client], q \in pcbs[Server] : Pair(p, q)

NetOK ==
  \A m \in net : /\ SegOK(m)
                 /\ \A q \in pcbs[m.to] : SegTo(m, q)
                 /\ \A r \in pcbs[Peer(m.to)] : SegFrom(m, r)

TwinsOK == \A m, n \in net : Twins(m, n)

\* Connection ids are not used twice: the client chooses the first half and
\* the server the second.
SameId(h, p, q) == IF h = Client THEN p.c1 = q.c1 ELSE p.c2 = q.c2

Unique(h, P) == \A p, q \in P : SameId(h, p, q) => p = q

IdsUnique == \A h \in Hosts : Unique(h, pcbs[h])

IInv == Variables /\ PcbsOK /\ PairsOK /\ NetOK /\ TwinsOK /\ IdsUnique

----------------------------------------------------------------------------
(***************************************************************************)
(* One step changes the PCBs of one host and sends segments from it.  What *)
(* its new PCBs and its segments must satisfy for the invariant to hold.   *)
(***************************************************************************)
Paired(h, p, q) == IF h = Client THEN Pair(p, q) ELSE Pair(q, p)

\* PCB q fits the peer's PCBs and the segments under way.
Fits(h, q) ==
  /\ Own(h, q)'
  /\ \A r \in pcbs[Peer(h)] : Paired(h, q, r)
  /\ \A m \in net : m.to = h => SegTo(m, q)
  /\ \A m \in net : m.to = Peer(h) => SegFrom(m, q)

\* Segment m may be sent by h when its PCBs become P.
Sound(h, P, m) ==
  /\ m.to = Peer(h)
  /\ SegOK(m)'
  /\ \A r \in pcbs[Peer(h)] : SegTo(m, r)
  /\ \A q \in P : SegFrom(m, q)
  /\ "SYN" \in m.flags /\ h = Server => \E q \in P \cup pcbs[h] : Same(m, q) /\ m.seqno = Iss(q)

\* Numbers and ids in use, and what the histories record, only grow.
Growth ==
  /\ port <= port' /\ serverId <= serverId'
  /\ made \subseteq made' /\ closed \subseteq closed'

LEMMA PeerIs ==
  /\ Peer(Client) = Server /\ Peer(Server) = Client
  /\ \A h \in Hosts : Peer(h) \in Hosts /\ Peer(h) # h /\ Peer(Peer(h)) = h
  /\ \A h \in Hosts : h = Client \/ h = Server
  /\ Client \in Hosts /\ Server \in Hosts /\ Client # Server
<1>1. Client # Server
  BY ConnAssumption
<1>2. Client \in Hosts /\ Server \in Hosts /\ \A h \in Hosts : h = Client \/ h = Server
  BY DEF Hosts
<1>3. Peer(Client) = Server
  <2>1. \A g : g \in Hosts /\ g # Client <=> g = Server
    BY <1>1 DEF Hosts
  <2>2. QED
    BY <2>1 DEF Peer
<1>4. Peer(Server) = Client
  <2>1. \A g : g \in Hosts /\ g # Server <=> g = Client
    BY <1>1 DEF Hosts
  <2>2. QED
    BY <2>1 DEF Peer
<1>5. QED
  BY <1>1, <1>2, <1>3, <1>4

LEMMA IdFacts ==
  /\ \A c \in Ids : c \in Nat /\ c # 0
  /\ \A c \in Ports : c \in Nat
  /\ FirstId - 2 = 0
<1>1. \A c \in Ports : c \in Nat
  BY ConnAssumption DEF Ports, FirstPort
<1>2. \A c \in Ids : c \in Nat /\ c # 0
  BY ConnAssumption DEF Ids, FirstId
<1>3. QED
  BY <1>1, <1>2 DEF FirstId

LEMMA OwnGrows ==
  ASSUME NEW h \in Hosts, NEW p, Own(h, p), Globals, Globals', Growth,
         h = Client /\ p.st = "SYN_SENT" => \A c \in Ids : <<p.c1, c>> \notin made'
  PROVE  Own(h, p)'
<1>1. p \in Pcb /\ p.c1 \in Nat /\ p.c2 \in Nat
  BY IdFacts DEF Own, Pcb
<1>2. port \in Nat /\ serverId \in Nat /\ port' \in Nat /\ serverId' \in Nat
  BY IdFacts, ConnAssumption DEF Globals, FirstPort
<1>3. p.c1 < port' /\ p.c2 <= serverId'
  <2>1. p.c1 < port /\ port <= port' /\ p.c2 <= serverId /\ serverId <= serverId'
    BY DEF Own, Growth
  <2>2. QED
    BY <1>1, <1>2, <2>1
<1>4. QED
  BY <1>1, <1>3 DEF Own, Growth

LEMMA SegGrows ==
  ASSUME NEW m, SegOK(m), Globals, Globals', Growth
  PROVE  SegOK(m)'
<1>1. m.c1 \in Nat /\ m.c2 \in Nat
  BY IdFacts DEF SegOK
<1>2. port \in Nat /\ serverId \in Nat /\ port' \in Nat /\ serverId' \in Nat
  BY IdFacts, ConnAssumption DEF Globals, FirstPort
<1>3. m.c1 < port' /\ m.c2 <= serverId'
  <2>1. m.c1 < port /\ port <= port' /\ m.c2 <= serverId /\ serverId <= serverId'
    BY DEF SegOK, Growth
  <2>2. QED
    BY <1>1, <1>2, <2>1
<1>4. QED
  BY <1>3 DEF SegOK, Growth

\* The step of one host.
LEMMA HostStep ==
  ASSUME IInv, Globals', Growth,
         NEW h \in Hosts, NEW P, NEW out,
         pcbs' = [pcbs EXCEPT ![h] = P],
         net' \subseteq net \cup out,
         h = Server => made' = made,
         \A q \in P : Fits(h, q),
         \A m \in out : Sound(h, P, m),
         Unique(h, P)
  PROVE  IInv'
<1> DEFINE g == Peer(h)
<1>1. g \in Hosts /\ g # h /\ Peer(g) = h /\ (h = Client => g = Server) /\ (h = Server => g = Client)
  BY PeerIs
<1>2. pcbs'[h] = P /\ pcbs'[g] = pcbs[g] /\ \A k \in Hosts : k = h \/ k = g
  BY <1>1, PeerIs DEF IInv, Variables
<1>3. P \subseteq Pcb
  BY DEF Fits, Own
<1>4. Variables'
  BY <1>3 DEF IInv, Variables
<1> HIDE DEF g
<1>5. PcbsOK'
  <2>1. \A p \in P : Own(h, p)'
    BY DEF Fits
  <2>2. ASSUME NEW p \in pcbs[g] PROVE Own(g, p)'
    <3>1. Own(g, p)
      BY <1>1, <2>2 DEF IInv, PcbsOK
    <3>2. g = Client /\ p.st = "SYN_SENT" => \A c \in Ids : <<p.c1, c>> \notin made'
      <4>1. SUFFICES ASSUME g = Client, p.st = "SYN_SENT" PROVE \A c \in Ids : <<p.c1, c>> \notin made'
        OBVIOUS
      <4>2. made' = made
        BY <1>1, <4>1, PeerIs
      <4>3. QED
        BY <3>1, <4>1, <4>2 DEF Own
    <3>3. Globals
      BY DEF IInv, Variables
    <3>4. QED
      BY <1>1, <3>1, <3>2, <3>3, OwnGrows
  <2>3. ASSUME NEW k \in Hosts, NEW p \in pcbs'[k] PROVE Own(k, p)'
    <3>1. CASE k = h
      BY <1>2, <2>1, <3>1
    <3>2. CASE k = g
      BY <1>2, <2>2, <3>2
    <3>3. QED
      BY <1>2, <3>1, <3>2
  <2>4. QED
    BY <2>3 DEF PcbsOK
<1>6. PairsOK'
  <2>1. \A p \in P, q \in pcbs[g] : Paired(h, p, q)
    BY DEF Fits, g
  <2>2. CASE h = Client
    BY <1>1, <1>2, <2>1, <2>2 DEF PairsOK, Paired
  <2>3. CASE h = Server
    BY <1>1, <1>2, <2>1, <2>3, PeerIs DEF PairsOK, Paired
  <2>4. QED
    BY <2>2, <2>3, PeerIs
<1>7. NetOK'
  <2>1. SUFFICES ASSUME NEW m \in net'
                 PROVE  /\ SegOK(m)'
                        /\ \A q \in pcbs'[m.to] : SegTo(m, q)
                        /\ \A r \in pcbs'[Peer(m.to)] : SegFrom(m, r)
    BY DEF NetOK
  <2>2. CASE m \in out
    <3>1. m.to = g /\ Sound(h, P, m)
      BY <2>2 DEF Sound, g
    <3>2. QED
      BY <1>1, <1>2, <3>1 DEF Sound, g
  <2>3. CASE m \in net
    <3>1. SegOK(m) /\ (\A q \in pcbs[m.to] : SegTo(m, q))
                   /\ (\A r \in pcbs[Peer(m.to)] : SegFrom(m, r))
      BY <2>3 DEF IInv, NetOK
    <3>2. SegOK(m)'
      BY <3>1, SegGrows DEF IInv, Variables
    <3>3. m.to = h \/ m.to = g
      BY <1>2, <3>1 DEF SegOK
    <3>4. \A q \in P : (m.to = h => SegTo(m, q)) /\ (m.to = g => SegFrom(m, q))
      BY <2>3 DEF Fits, g
    <3>5. CASE m.to = h
      BY <1>1, <1>2, <3>1, <3>2, <3>4, <3>5 DEF g
    <3>6. CASE m.to = g
      BY <1>1, <1>2, <3>1, <3>2, <3>4, <3>6 DEF g
    <3>7. QED
      BY <3>3, <3>5, <3>6
  <2>4. QED
    BY <2>2, <2>3
<1>8. TwinsOK'
  <2>1. ASSUME NEW m \in net \cup out, NEW n \in out, "SYN" \in m.flags, "SYN" \in n.flags,
               m.to = Client, n.to = Client, m.c1 = n.c1, m.c2 = n.c2
        PROVE  m.seqno = n.seqno
    <3>1. Sound(h, P, n) /\ n.to = g
      BY DEF Sound, g
    <3>2. h = Server
      BY <1>1, <2>1, <3>1, PeerIs
    <3>3. ASSUME NEW q \in P, Same(n, q) PROVE m.seqno = n.seqno
      <4>1. SegFrom(n, q)
        BY <3>1 DEF Sound
      <4>2. SegFrom(m, q)
        <5>1. CASE m \in net
          BY <2>1, <3>1, <5>1 DEF Fits, g
        <5>2. CASE m \in out
          BY <5>2 DEF Sound
        <5>3. QED
          BY <5>1, <5>2
      <4>3. QED
        BY <2>1, <3>3, <4>1, <4>2 DEF SegFrom, Same
    <3>4. PICK q \in P \cup pcbs[h] : Same(n, q) /\ n.seqno = Iss(q)
      BY <2>1, <3>1, <3>2 DEF Sound
    <3>5. CASE q \in pcbs[h] /\ m \in net
      <4>1. SegFrom(m, q)
        BY <1>1, <2>1, <3>1, <3>5 DEF IInv, NetOK
      <4>2. QED
        BY <2>1, <3>4, <4>1 DEF SegFrom, Same
    <3>6. CASE q \in pcbs[h] /\ m \in out
      <4>1. Sound(h, P, m)
        BY <3>6
      <4>2. PICK r \in P \cup pcbs[h] : Same(m, r) /\ m.seqno = Iss(r)
        BY <2>1, <3>2, <4>1 DEF Sound
      <4>3. Same(n, r)
        BY <2>1, <4>2 DEF Same
      <4>4. r.c1 = q.c1 /\ r.c2 = q.c2
        BY <3>4, <4>3 DEF Same
      <4>5. r \in pcbs[h] => r = q
        BY <3>6, <4>4 DEF IInv, IdsUnique, Unique, SameId
      <4>6. QED
        BY <3>3, <3>4, <4>2, <4>3, <4>5
    <3>7. QED
      BY <3>3, <3>4, <3>5, <3>6
  <2>2. ASSUME NEW m \in net, NEW n \in net PROVE Twins(m, n)
    BY <2>2 DEF IInv, TwinsOK
  <2>3. ASSUME NEW m \in net', NEW n \in net' PROVE Twins(m, n)
    <3>1. CASE m \in net /\ n \in net
      BY <2>2, <3>1
    <3>2. CASE n \in out
      BY <2>1, <3>2 DEF Twins
    <3>3. CASE m \in out
      <4>1. n \in net \cup out
        OBVIOUS
      <4>2. QED
        BY <2>1, <3>3, <4>1 DEF Twins
    <3>4. QED
      BY <3>1, <3>2, <3>3
  <2>4. QED
    BY <2>3 DEF TwinsOK
<1>9. IdsUnique'
  BY <1>2 DEF IInv, IdsUnique, Unique
<1>10. QED
  BY <1>4, <1>5, <1>6, <1>7, <1>8, <1>9 DEF IInv

\* A PCB that differs at most in its counters.
Alike(p, q) ==
  /\ q.st = p.st /\ q.c1 = p.c1 /\ q.c2 = p.c2 /\ q.snd_nxt = p.snd_nxt
  /\ q.lastack = p.lastack /\ q.rcv_nxt = p.rcv_nxt /\ q.unacked = p.unacked
  /\ q.rxclosed = p.rxclosed

LEMMA HeldFits ==
  ASSUME IInv, NEW h \in Hosts, NEW p \in pcbs[h]
  PROVE  /\ Own(h, p) /\ p \in Pcb
         /\ \A r \in pcbs[Peer(h)] : Paired(h, p, r)
         /\ \A m \in net : m.to = h => SegOK(m) /\ SegTo(m, p)
         /\ \A m \in net : m.to = Peer(h) => SegOK(m) /\ SegFrom(m, p)
<1>1. Own(h, p) /\ p \in Pcb
  BY DEF IInv, PcbsOK, Own
<1>2. \A r \in pcbs[Peer(h)] : Paired(h, p, r)
  BY PeerIs DEF IInv, PairsOK, Paired
<1>3. \A m \in net : m.to = h => SegOK(m) /\ SegTo(m, p)
  BY DEF IInv, NetOK
<1>4. \A m \in net : m.to = Peer(h) => SegOK(m) /\ SegFrom(m, p)
  BY PeerIs DEF IInv, NetOK
<1>5. QED
  BY <1>1, <1>2, <1>3, <1>4

LEMMA AlikeFits ==
  ASSUME IInv, Globals', Growth, NEW h \in Hosts, NEW p \in pcbs[h], NEW q \in Pcb, Alike(p, q),
         h = Client /\ p.st = "SYN_SENT" => \A c \in Ids : <<p.c1, c>> \notin made'
  PROVE  Fits(h, q)
<1>1. Own(h, p)
  BY HeldFits
<1>2. Own(h, q)
  BY <1>1 DEF Own, Alike, Iss, Synchronised
<1>3. Own(h, q)'
  <2>1. h = Client /\ q.st = "SYN_SENT" => \A c \in Ids : <<q.c1, c>> \notin made'
    BY DEF Alike
  <2>2. QED
    BY <1>2, <2>1, OwnGrows DEF IInv, Variables
<1>4. Iss(q) = Iss(p)
  BY DEF Iss, Alike
<1>5. ASSUME NEW r \in pcbs[Peer(h)] PROVE Paired(h, q, r)
  <2>1. Paired(h, p, r)
    BY HeldFits
  <2>2. QED
    BY <1>4, <2>1 DEF Paired, Pair, Alike
<1>6. ASSUME NEW m \in net, m.to = h PROVE SegTo(m, q)
  <2>1. SegTo(m, p)
    BY <1>6, HeldFits
  <2>2. QED
    BY <1>4, <2>1 DEF SegTo, Alike, Same
<1>7. ASSUME NEW m \in net, m.to = Peer(h) PROVE SegFrom(m, q)
  <2>1. SegFrom(m, p)
    BY <1>7, HeldFits
  <2>2. QED
    BY <1>4, <2>1 DEF SegFrom, Alike, Same
<1>8. QED
  BY <1>3, <1>5, <1>6, <1>7 DEF Fits

LEMMA KeptFits ==
  ASSUME IInv, Globals', Growth, NEW h \in Hosts, NEW p \in pcbs[h],
         h = Client /\ p.st = "SYN_SENT" => \A c \in Ids : <<p.c1, c>> \notin made'
  PROVE  Fits(h, p)
<1>1. Alike(p, p) /\ p \in Pcb
  BY HeldFits DEF Alike
<1>2. QED
  BY <1>1, AlikeFits

----------------------------------------------------------------------------
(***************************************************************************)
(* The segments a host sends.                                              *)
(***************************************************************************)
LEMMA CarriedIsSubset ==
  ASSUME NEW S, NEW T, T \in Carried(S)
  PROVE  T \subseteq S
<1>1. T = S \/ T \in SUBSET S
  BY DEF Carried
<1>2. QED
  BY <1>1

LEMMA OwnIds ==
  ASSUME Globals, NEW h \in Hosts, NEW q, Own(h, q)
  PROVE  /\ q \in Pcb /\ q.c1 \in Ports /\ q.c2 \in Ids \cup {0}
         /\ q.snd_nxt \in Nat /\ q.rcv_nxt \in Nat /\ q.lastack \in Nat /\ q.rxclosed \in BOOLEAN
         /\ Iss(q) \in Nat /\ Iss(q) < q.snd_nxt
         /\ q.st # "SYN_SENT" => q.c2 \in Ids /\ q.c2 # 0
         /\ h = Client /\ q.c2 # 0 => <<q.c1, q.c2>> \in made
<1>1. /\ q \in Pcb /\ q.c1 \in Ports /\ q.c2 \in Ids \cup {0}
      /\ q.snd_nxt \in Nat /\ q.rcv_nxt \in Nat /\ q.lastack \in Nat /\ q.rxclosed \in BOOLEAN
  BY DEF Own, Pcb
<1>2. Iss(q) \in Nat /\ Iss(q) < q.snd_nxt
  BY <1>1 DEF Own, Iss
<1>3. q.st # "SYN_SENT" => q.c2 \in Ids /\ q.c2 # 0
  <2>1. SUFFICES ASSUME q.st # "SYN_SENT" PROVE q.c2 # 0
    BY <1>1
  <2>2. CASE h = Server
    BY <2>2 DEF Own
  <2>3. CASE h = Client
    <3>1. Synchronised(q)
      BY <2>1, <2>3 DEF Own, Synchronised
    <3>2. <<q.c1, q.c2>> \in Ports \X Ids
      BY <3>1 DEF Own, Globals
    <3>3. QED
      BY <3>2, IdFacts
  <2>4. QED
    BY <2>2, <2>3, PeerIs
<1>4. h = Client /\ q.c2 # 0 => <<q.c1, q.c2>> \in made
  BY DEF Own, Synchronised
<1>5. QED
  BY <1>1, <1>2, <1>3, <1>4

\* Of the PCBs P only q has the id of what q sends.
Sole(h, P, q) == \A r \in P : r.c1 = q.c1 /\ (h = Client \/ r.c2 = q.c2) => r = q

LEMMA SenderSole ==
  ASSUME NEW h \in Hosts, NEW P, Unique(h, P), NEW q \in P
  PROVE  Sole(h, P, q)
BY PeerIs DEF Sole, Unique, SameId

\* An empty ACK, or a keepalive probe.
LEMMA AckSoundOf ==
  ASSUME IInv, Globals', NEW h \in Hosts, NEW P, NEW q, Sole(h, P, q), Fits(h, q), q.st # "SYN_SENT", NEW n \in Nat
  PROVE  Sound(h, P, Segment(h, q.c1, q.c2, {"ACK"}, n, q.rcv_nxt))
<1>1. PICK m : m = Segment(h, q.c1, q.c2, {"ACK"}, n, q.rcv_nxt)
  OBVIOUS
<1>2. /\ m.to = Peer(h) /\ m.c1 = q.c1 /\ m.c2 = q.c2 /\ m.flags = {"ACK"}
      /\ m.seqno = n /\ m.ackno = q.rcv_nxt
  BY <1>1 DEF Segment
<1>3. Own(h, q)'
  BY DEF Fits
<1>4. /\ q.c1 \in Ports /\ q.c2 \in Ids /\ q.c2 # 0 /\ q.rcv_nxt \in Nat
      /\ (h = Client => <<q.c1, q.c2>> \in made')
  <2>1. (Globals /\ Own(h, q) => /\ q.c1 \in Ports /\ q.rcv_nxt \in Nat
                                 /\ (q.st # "SYN_SENT" => q.c2 \in Ids /\ q.c2 # 0)
                                 /\ (h = Client /\ q.c2 # 0 => <<q.c1, q.c2>> \in made))'
    BY OwnIds, PTL
  <2>2. QED
    BY <1>3, <2>1
<1>5. SegOK(m)'
  BY <1>2, <1>3, <1>4, PeerIs DEF SegOK, Own, Flags
<1>6. ASSUME NEW r \in pcbs[Peer(h)] PROVE SegTo(m, r)
  <2>1. Paired(h, q, r)
    BY DEF Fits
  <2>2. CASE h = Client
    <3>1. r.c2 # 0
      BY <2>2, PeerIs, HeldFits DEF Own
    <3>2. QED
      BY <1>2, <2>1, <2>2, <3>1 DEF SegTo, Paired, Pair
  <2>3. CASE h = Server
    BY <1>2, <1>4, <2>1, <2>3, PeerIs DEF SegTo, Paired, Pair
  <2>4. QED
    BY <2>2, <2>3, PeerIs
<1>7. ASSUME NEW r \in P PROVE SegFrom(m, r)
  <2>1. Same(m, r) => r = q
    BY <1>2 DEF Same, Sole
  <2>2. QED
    BY <1>2, <1>4, <2>1 DEF SegFrom
<1>8. QED
  BY <1>1, <1>2, <1>5, <1>6, <1>7 DEF Sound

\* A SYN or FIN of the unacknowledged ones.
LEMMA OutputSoundOf ==
  ASSUME IInv, Globals', NEW h \in Hosts, NEW P, NEW q \in P \cup pcbs[h], Sole(h, P, q), Fits(h, q), NEW s \in q.unacked
  PROVE  Sound(h, P, OutputSegment(h, q, s))
<1>1. PICK m : m = OutputSegment(h, q, s)
  OBVIOUS
<1>2. /\ m.to = Peer(h) /\ m.c1 = s.c1 /\ m.c2 = s.c2 /\ m.seqno = s.seqno
      /\ m.flags = {s.flag} \cup (IF q.st = "SYN_SENT" THEN {} ELSE {"ACK"})
      /\ m.ackno = (IF q.st = "SYN_SENT" THEN 0 ELSE q.rcv_nxt)
  BY <1>1 DEF OutputSegment, Segment
<1>3. Own(h, q)'
  BY DEF Fits
<1>4. /\ q.c1 \in Ports /\ q.rcv_nxt \in Nat /\ Iss(q) \in Nat /\ q \in Pcb
      /\ (q.st # "SYN_SENT" => q.c2 \in Ids /\ q.c2 # 0)
      /\ (h = Client /\ q.c2 # 0 => <<q.c1, q.c2>> \in made')
  <2>1. (Globals /\ Own(h, q) => /\ q.c1 \in Ports /\ q.rcv_nxt \in Nat /\ Iss(q) \in Nat /\ q \in Pcb
                                 /\ (q.st # "SYN_SENT" => q.c2 \in Ids /\ q.c2 # 0)
                                 /\ (h = Client /\ q.c2 # 0 => <<q.c1, q.c2>> \in made))'
    BY OwnIds, PTL
  <2>2. QED
    BY <1>3, <2>1
<1>5. /\ s.c1 = q.c1 /\ s.flag \in {"SYN", "FIN"} /\ s.seqno \in Nat
      /\ s.flag = "SYN" => s.seqno = Iss(q) /\ s.c2 = (IF h = Client THEN 0 ELSE q.c2)
      /\ s.flag = "FIN" => s.seqno = Iss(q) + 1 /\ s.c2 = q.c2 /\ q.rxclosed
  BY <1>3, <1>4 DEF Own, Pcb
<1>6. s.flag = "FIN" => q.st # "SYN_SENT" /\ <<h, q.c1, q.c2>> \in closed'
  BY <1>3, <1>5 DEF Own
<1>7. SegOK(m)'
  <2>1. /\ m.to \in Hosts /\ m.c1 \in Ports /\ m.c2 \in Ids \cup {0}
        /\ m.flags \subseteq Flags /\ m.seqno \in Nat /\ m.ackno \in Nat
        /\ m.c1 < port' /\ m.c2 <= serverId'
    <3>1. m.flags \subseteq Flags
      BY <1>2, <1>5 DEF Flags
    <3>2. m.c2 \in Ids \cup {0} /\ m.c2 <= serverId'
      <4>1. q.c2 \in Ids \cup {0} /\ q.c2 <= serverId' /\ 0 <= serverId'
        BY <1>3, <1>4, IdFacts DEF Own, Pcb, Globals
      <4>2. QED
        BY <1>2, <1>5, <4>1
    <3>3. m.c1 < port'
      BY <1>2, <1>3, <1>5 DEF Own
    <3>4. QED
      BY <1>2, <1>4, <1>5, <3>1, <3>2, <3>3, PeerIs
  <2>2. m.to = Server /\ m.c2 # 0 => <<m.c1, m.c2>> \in made'
    BY <1>2, <1>4, <1>5, PeerIs
  <2>3. "SYN" \in m.flags <=> s.flag = "SYN"
    BY <1>2, <1>5
  <2>4. "FIN" \in m.flags <=> s.flag = "FIN"
    BY <1>2, <1>5
  <2>5. "SYN" \in m.flags /\ m.to = Server => m.c2 = 0
    BY <1>2, <1>5, <2>3, PeerIs
  <2>6. "FIN" \in m.flags => <<Peer(m.to), m.c1, m.c2>> \in closed'
    BY <1>2, <1>5, <1>6, <2>4, PeerIs
  <2>7. "RST" \notin m.flags /\ ~("SYN" \in m.flags /\ m.to = Server) => "ACK" \in m.flags /\ m.c2 # 0
    <3>1. CASE s.flag = "FIN"
      BY <1>2, <1>4, <1>5, <1>6, <3>1
    <3>2. CASE s.flag = "SYN" /\ h = Server
      <4>1. q.st # "SYN_SENT"
        BY <1>3, <3>2 DEF Own
      <4>2. QED
        BY <1>2, <1>4, <1>5, <3>2, <4>1, PeerIs
    <3>3. CASE s.flag = "SYN" /\ h = Client
      BY <1>2, <2>3, <3>3, PeerIs
    <3>4. QED
      BY <1>5, <3>1, <3>2, <3>3, PeerIs
  <2>8. QED
    BY <2>1, <2>2, <2>5, <2>6, <2>7 DEF SegOK
<1>8. ASSUME NEW r \in pcbs[Peer(h)] PROVE SegTo(m, r)
  <2>1. Paired(h, q, r)
    BY DEF Fits
  <2>2. CASE h = Client
    <3>1. r.c2 # 0
      BY <2>2, PeerIs, HeldFits DEF Own
    <3>2. "SYN" \in m.flags => m.c2 = 0
      BY <1>2, <1>5, <2>2
    <3>3. Acking(m) /\ m.c2 # 0 => m.ackno = q.rcv_nxt /\ m.c2 = q.c2
      BY <1>2, <1>5, <2>2 DEF Acking
    <3>4. QED
      BY <1>2, <1>5, <2>1, <2>2, <3>1, <3>2, <3>3 DEF SegTo, Paired, Pair, Same
  <2>3. CASE h = Server
    <3>1. q.st # "SYN_SENT" /\ m.c2 = q.c2 /\ m.c1 = q.c1 /\ m.ackno = q.rcv_nxt
      BY <1>2, <1>3, <1>5, <2>3, PeerIs DEF Own
    <3>2. "SYN" \in m.flags => m.seqno = Iss(q)
      BY <1>2, <1>5
    <3>3. Pair(r, q)
      BY <2>1, <2>3, PeerIs DEF Paired
    <3>4. QED
      BY <1>2, <1>4, <3>1, <3>2, <3>3 DEF SegTo, Pair, Same, Between
  <2>4. QED
    BY <2>2, <2>3, PeerIs
<1>9. ASSUME NEW r \in P PROVE SegFrom(m, r)
  <2>1. "RST" \notin m.flags
    BY <1>2, <1>5
  <2>2. "FIN" \in m.flags /\ Same(m, r) => r.rxclosed /\ m.seqno = Iss(r) + 1
    <3>1. SUFFICES ASSUME "FIN" \in m.flags, Same(m, r) PROVE r.rxclosed /\ m.seqno = Iss(r) + 1
      OBVIOUS
    <3>2. s.flag = "FIN"
      BY <1>2, <1>5, <3>1
    <3>3. r = q
      BY <1>2, <1>5, <3>1, <3>2 DEF Same, Sole
    <3>4. QED
      BY <1>2, <1>5, <3>2, <3>3
  <2>3. "SYN" \in m.flags /\ r.c1 = m.c1 /\ (m.to = Server \/ r.c2 = m.c2) => m.seqno = Iss(r)
    <3>1. SUFFICES ASSUME "SYN" \in m.flags, r.c1 = m.c1, m.to = Server \/ r.c2 = m.c2
                   PROVE  m.seqno = Iss(r)
      OBVIOUS
    <3>2. s.flag = "SYN"
      BY <1>2, <1>5, <3>1
    <3>3. r = q
      BY <1>2, <1>5, <3>1, <3>2, PeerIs DEF Sole
    <3>4. QED
      BY <1>2, <1>5, <3>2, <3>3
  <2>4. Acking(m) /\ Same(m, r) => m.ackno <= r.rcv_nxt
    <3>1. SUFFICES ASSUME Acking(m), Same(m, r) PROVE m.ackno <= r.rcv_nxt
      OBVIOUS
    <3>2. r = q
      BY <1>2, <1>5, <3>1, PeerIs DEF Same, Sole
    <3>3. QED
      BY <1>2, <1>4, <1>5, <3>1, <3>2 DEF Acking
  <2>5. QED
    BY <2>1, <2>2, <2>3, <2>4 DEF SegFrom
<1>10. "SYN" \in m.flags /\ h = Server => Same(m, q) /\ m.seqno = Iss(q)
  BY <1>2, <1>5, PeerIs DEF Same
<1>11. QED
  BY <1>1, <1>2, <1>7, <1>8, <1>9, <1>10 DEF Sound

\* The same for a sender that stays.
LEMMA AckSound ==
  ASSUME IInv, Globals', NEW h \in Hosts, NEW P, Unique(h, P),
         NEW q \in P, Fits(h, q), q.st # "SYN_SENT", NEW n \in Nat
  PROVE  Sound(h, P, Segment(h, q.c1, q.c2, {"ACK"}, n, q.rcv_nxt))
BY SenderSole, AckSoundOf

LEMMA OutputSound ==
  ASSUME IInv, Globals', NEW h \in Hosts, NEW P, Unique(h, P),
         NEW q \in P, Fits(h, q), NEW s \in q.unacked
  PROVE  Sound(h, P, OutputSegment(h, q, s))
BY SenderSole, OutputSoundOf

\* A reset with an id that no PCB of the sender has.
LEMMA ResetSound ==
  ASSUME Globals', NEW h \in Hosts, NEW P,
         NEW c1 \in Ports, NEW c2 \in Ids \cup {0}, NEW x \in Nat, NEW y \in Nat,
         c1 < port', c2 <= serverId',
         h = Client /\ c2 # 0 => <<c1, c2>> \in made',
         c2 # 0 => \A q \in P : ~(q.c1 = c1 /\ q.c2 = c2)
  PROVE  Sound(h, P, Reset(h, c1, c2, x, y))
<1>1. PICK m : m = Reset(h, c1, c2, x, y)
  OBVIOUS
<1>2. /\ m.to = Peer(h) /\ m.c1 = c1 /\ m.c2 = c2 /\ m.flags = {"RST", "ACK"}
      /\ m.seqno = x /\ m.ackno = y
  BY <1>1 DEF Reset, Segment
<1>3. SegOK(m)'
  BY <1>2, PeerIs DEF SegOK, Flags
<1>4. \A r : SegTo(m, r)
  BY <1>2 DEF SegTo, Acking
<1>5. \A q \in P : SegFrom(m, q)
  BY <1>2 DEF SegFrom, Acking, Same
<1>6. QED
  BY <1>1, <1>2, <1>3, <1>4, <1>5 DEF Sound

----------------------------------------------------------------------------
(***************************************************************************)
(* Replacing or removing one PCB.                                          *)
(***************************************************************************)
LEMMA QuietStep ==
  ASSUME IInv, UNCHANGED <<status, iss, port, serverId, made, closed>>
  PROVE  /\ Globals' /\ Growth
         /\ \A h \in Hosts : \A p \in pcbs[h] :
              Fits(h, p) /\ \A q \in Pcb : Alike(p, q) => Fits(h, q)
<1>1. Globals
  BY DEF IInv, Variables
<1>2. Globals'
  BY <1>1 DEF Globals
<1>3. port \in Nat /\ serverId \in Nat
  BY <1>1, IdFacts, ConnAssumption DEF Globals, FirstPort
<1>4. Growth
  BY <1>3 DEF Growth
<1>5. ASSUME NEW h \in Hosts, NEW p \in pcbs[h]
      PROVE  Fits(h, p) /\ \A q \in Pcb : Alike(p, q) => Fits(h, q)
  <2>1. h = Client /\ p.st = "SYN_SENT" => \A c \in Ids : <<p.c1, c>> \notin made'
    BY HeldFits DEF Own
  <2>2. QED
    BY <1>2, <1>4, <2>1, KeptFits, AlikeFits
<1>6. QED
  BY <1>2, <1>4, <1>5

LEMMA SubsetUnique ==
  ASSUME IInv, NEW h \in Hosts, NEW P, P \subseteq pcbs[h]
  PROVE  Unique(h, P)
BY DEF IInv, IdsUnique, Unique

LEMMA ReplaceUnique ==
  ASSUME IInv, NEW h \in Hosts, NEW p \in pcbs[h], NEW q, SameId(h, p, q)
  PROVE  Unique(h, (pcbs[h] \ {p}) \cup {q})
<1>1. \A x, y \in pcbs[h] : SameId(h, x, y) => x = y
  BY DEF IInv, IdsUnique, Unique
<1>2. ASSUME NEW x \in pcbs[h], SameId(h, x, q) \/ SameId(h, q, x)
      PROVE  x = p
  <2>1. SameId(h, x, p)
    BY <1>2 DEF SameId
  <2>2. QED
    BY <1>1, <2>1
<1>3. QED
  BY <1>1, <1>2 DEF Unique

\* PCB p becomes q.
LEMMA ReplaceStep ==
  ASSUME IInv, Globals', Growth, NEW h \in Hosts, NEW p \in pcbs[h], NEW q, SameId(h, p, q),
         h = Server => made' = made,
         \A x \in pcbs[h] \ {p} : Fits(h, x),
         Fits(h, q),
         pcbs' = Replace(h, p, q),
         NEW out, net' \subseteq net \cup out,
         \A m \in out : Sound(h, (pcbs[h] \ {p}) \cup {q}, m)
  PROVE  IInv'
<1>1. PICK P : P = (pcbs[h] \ {p}) \cup {q}
  OBVIOUS
<1>2. Unique(h, P) /\ \A x \in P : Fits(h, x)
  BY <1>1, ReplaceUnique
<1>3. pcbs' = [pcbs EXCEPT ![h] = P]
  BY <1>1 DEF Replace
<1>4. \A m \in out : Sound(h, P, m)
  BY <1>1
<1>5. QED
  BY <1>2, <1>3, <1>4, HostStep

\* PCB p is freed.
LEMMA WithoutStep ==
  ASSUME IInv, Globals', Growth, NEW h \in Hosts, NEW p \in pcbs[h],
         h = Server => made' = made,
         \A x \in pcbs[h] \ {p} : Fits(h, x),
         pcbs' = Without(h, p),
         NEW out, net' \subseteq net \cup out,
         \A m \in out : Sound(h, pcbs[h] \ {p}, m)
  PROVE  IInv'
<1>1. PICK P : P = pcbs[h] \ {p}
  OBVIOUS
<1>2. Unique(h, P) /\ \A x \in P : Fits(h, x)
  BY <1>1, SubsetUnique
<1>3. pcbs' = [pcbs EXCEPT ![h] = P]
  BY <1>1 DEF Without
<1>4. \A m \in out : Sound(h, P, m)
  BY <1>1
<1>5. QED
  BY <1>2, <1>3, <1>4, HostStep

\* The PCBs stay as they are.
LEMMA SameStep ==
  ASSUME IInv, Globals', Growth, NEW h \in Hosts, made' = made,
         \A x \in pcbs[h] : Fits(h, x),
         pcbs' = pcbs,
         NEW out, net' \subseteq net \cup out,
         \A m \in out : Sound(h, pcbs[h], m)
  PROVE  IInv'
<1>1. Unique(h, pcbs[h])
  BY SubsetUnique
<1>2. pcbs' = [pcbs EXCEPT ![h] = pcbs[h]]
  BY DEF IInv, Variables
<1>3. QED
  BY <1>1, <1>2, HostStep

\* The reset that is sent when PCB p is freed.
LEMMA FreedResetSound ==
  ASSUME IInv, UNCHANGED <<status, iss, port, serverId, made, closed>>,
         NEW h \in Hosts, NEW p \in pcbs[h], NEW P, \A q \in P : p.c2 # 0 => ~(q.c1 = p.c1 /\ q.c2 = p.c2)
  PROVE  Sound(h, P, Reset(h, p.c1, p.c2, p.snd_nxt, p.rcv_nxt))
<1>1. Globals /\ Own(h, p)
  BY HeldFits DEF IInv, Variables
<1>2. /\ p.c1 \in Ports /\ p.c2 \in Ids \cup {0} /\ p.snd_nxt \in Nat /\ p.rcv_nxt \in Nat
      /\ (h = Client /\ p.c2 # 0 => <<p.c1, p.c2>> \in made)
  BY <1>1, OwnIds
<1>3. p.c1 < port /\ p.c2 <= serverId
  BY <1>1 DEF Own
<1>4. Globals'
  BY QuietStep
<1>5. p.c1 < port' /\ p.c2 <= serverId' /\ (h = Client /\ p.c2 # 0 => <<p.c1, p.c2>> \in made')
  BY <1>2, <1>3
<1>6. QED
  BY <1>2, <1>4, <1>5, ResetSound

LEMMA OthersDiffer ==
  ASSUME IInv, NEW h \in Hosts, NEW p \in pcbs[h]
  PROVE  \A q \in pcbs[h] \ {p} : ~(q.c1 = p.c1 /\ q.c2 = p.c2)
BY DEF IInv, IdsUnique, Unique, SameId

----------------------------------------------------------------------------
(***************************************************************************)
(* What the operations make of a PCB.                                      *)
(***************************************************************************)
LEMMA AgeFacts ==
  /\ MaxAge \in Nat
  /\ \A a \in 0..MaxAge : Min({a + 1, MaxAge}) \in 0..MaxAge
<1>1. ASSUME NEW a \in Nat, NEW b \in Nat, NEW c \in Nat, NEW d \in Nat
      PROVE  Max({a, b, c, d}) \in Nat
  <2>1. \E x \in {a, b, c, d} : \A y \in {a, b, c, d} : x >= y
    OBVIOUS
  <2>2. Max({a, b, c, d}) \in {a, b, c, d}
    BY <2>1 DEF Max
  <2>3. QED
    BY <2>2
<1>2. MaxAge \in Nat
  <2>1. /\ SYN_RCVD_TIMEOUT \in Nat /\ FIN_WAIT_TIMEOUT \in Nat /\ TWO_MSL \in Nat
        /\ KEEP_IDLE + KEEP_DUR \in Nat
    BY ConnAssumption
  <2>2. Max({SYN_RCVD_TIMEOUT, FIN_WAIT_TIMEOUT, TWO_MSL, KEEP_IDLE + KEEP_DUR}) \in Nat
    BY <1>1, <2>1
  <2>3. QED
    BY <2>2 DEF MaxAge
<1>3. ASSUME NEW a \in 0..MaxAge PROVE Min({a + 1, MaxAge}) \in 0..MaxAge
  <2>1. \E x \in {a + 1, MaxAge} : \A y \in {a + 1, MaxAge} : x =< y
    BY <1>2
  <2>2. PICK x : x = Min({a + 1, MaxAge})
    OBVIOUS
  <2>3. x \in {a + 1, MaxAge} /\ \A y \in {a + 1, MaxAge} : x =< y
    BY <2>1, <2>2 DEF Min
  <2>4. QED
    BY <1>2, <2>2, <2>3
<1>4. QED
  BY <1>2, <1>3

LEMMA NewPcbFacts ==
  ASSUME NEW st \in States, NEW c1 \in Ports, NEW c2 \in Ids \cup {0}, NEW n \in Nat
  PROVE  /\ NewPcb(st, c1, c2, n) \in Pcb
         /\ \A l \in Nat : [NewPcb(st, c1, c2, n) EXCEPT !.lastack = l] \in Pcb
         /\ \A x \in Nat : [NewPcb(st, c1, c2, n) EXCEPT !.rcv_nxt = x] \in Pcb
<1>1. 0 \in 0..TCP_MAXRTX /\ 0 \in 0..MaxAge /\ 0 \in 0..(KEEP_DUR + 1)
  BY AgeFacts, ConnAssumption
<1>2. {} \in SUBSET [flag : {"SYN", "FIN"}, seqno : Nat, c1 : Ports, c2 : Ids \cup {0}]
  OBVIOUS
<1>3. QED
  BY <1>1, <1>2 DEF NewPcb, Pcb

LEMMA EnqueueFacts ==
  ASSUME NEW p \in Pcb, NEW flag \in {"SYN", "FIN"}, NEW n \in Nat, NEW q, q = Enqueue(p, flag, n),
         NEW s, s = [flag |-> flag, seqno |-> n, c1 |-> p.c1, c2 |-> p.c2]
  PROVE  /\ q \in Pcb
         /\ q.unacked = p.unacked \cup {s}
         /\ q.st = p.st /\ q.c1 = p.c1 /\ q.c2 = p.c2 /\ q.snd_nxt = n + 1
         /\ q.lastack = p.lastack /\ q.rcv_nxt = p.rcv_nxt /\ q.rxclosed = p.rxclosed
<1>1. s \in [flag : {"SYN", "FIN"}, seqno : Nat, c1 : Ports, c2 : Ids \cup {0}]
  BY DEF Pcb
<1>2. PICK u : u = p.unacked \cup {s}
  OBVIOUS
<1>3. u \in SUBSET [flag : {"SYN", "FIN"}, seqno : Nat, c1 : Ports, c2 : Ids \cup {0}]
  BY <1>1, <1>2 DEF Pcb
<1>4. q = [p EXCEPT !.unacked = u, !.snd_nxt = n + 1]
  BY <1>2 DEF Enqueue
<1>5. n + 1 \in Nat
  OBVIOUS
<1>6. /\ q \in Pcb /\ q.unacked = u
      /\ q.st = p.st /\ q.c1 = p.c1 /\ q.c2 = p.c2 /\ q.snd_nxt = n + 1
      /\ q.lastack = p.lastack /\ q.rcv_nxt = p.rcv_nxt /\ q.rxclosed = p.rxclosed
  BY <1>3, <1>4, <1>5 DEF Pcb
<1>7. QED
  BY <1>2, <1>6

LEMMA TouchedFacts ==
  ASSUME NEW p \in Pcb
  PROVE  Touched(p) \in Pcb /\ Alike(p, Touched(p))
<1>1. PICK a : a = IF p.rxclosed THEN p.age ELSE 0
  OBVIOUS
<1>2. a \in 0..MaxAge /\ 0 \in 0..(KEEP_DUR + 1)
  BY <1>1, AgeFacts, ConnAssumption DEF Pcb
<1>3. Touched(p) = [p EXCEPT !.age = a, !.keep = 0]
  BY <1>1 DEF Touched
<1>4. QED
  BY <1>2, <1>3 DEF Pcb, Alike

\* PCB q is what segment m makes of p.
Takes(h, p, m, q) ==
  /\ q \in Pcb
  /\ q.c1 = p.c1 /\ q.c2 = p.c2 /\ q.snd_nxt = p.snd_nxt /\ q.rxclosed = p.rxclosed
  /\ q.unacked \subseteq p.unacked
  /\ \/ q.lastack = p.lastack
     \/ q.lastack = m.ackno /\ AckNew(p, m)
  /\ \/ q.rcv_nxt = p.rcv_nxt
     \/ q.rcv_nxt = p.rcv_nxt + 1 /\ "FIN" \in m.flags /\ m.seqno = p.rcv_nxt
  /\ q.rxclosed <=> q.st \notin {"SYN_SENT", "SYN_RCVD", "ESTABLISHED", "CLOSE_WAIT"}
  /\ q.st \notin {"SYN_SENT", "SYN_RCVD"}
  /\ q.st \in {"CLOSE_WAIT", "CLOSING", "LAST_ACK", "TIME_WAIT"} => <<Peer(h), p.c1, p.c2>> \in closed

LEMMA TakesFits ==
  ASSUME IInv, UNCHANGED <<status, iss, port, serverId, made, closed>>,
         NEW h \in Hosts, NEW p \in pcbs[h], NEW m \in net, m.to = h, Acking(m), Same(m, p),
         p.st # "SYN_SENT", <<p.c1, p.c2>> \in made, NEW q, Takes(h, p, m, q)
  PROVE  Fits(h, q)
<1>1. Globals /\ Own(h, p) /\ Globals' /\ Growth
  BY HeldFits, QuietStep DEF IInv, Variables
<1>2. /\ p \in Pcb /\ p.c1 \in Ports /\ p.c2 \in Ids /\ p.c2 # 0
      /\ p.snd_nxt \in Nat /\ p.rcv_nxt \in Nat /\ p.lastack \in Nat
      /\ Iss(p) \in Nat /\ Iss(p) < p.snd_nxt
  BY <1>1, OwnIds
<1>3. Iss(q) = Iss(p)
  BY DEF Takes, Iss
<1>4. SegOK(m) /\ SegTo(m, p) /\ m.seqno \in Nat /\ m.ackno \in Nat
  BY HeldFits DEF SegOK
<1>5. Own(h, q)
  <2>1. Iss(q) <= q.lastack /\ q.lastack <= q.snd_nxt
    BY <1>1, <1>2, <1>3, <1>4 DEF Takes, Own, AckNew, Between
  <2>2. h = Server => q.st # "SYN_SENT" /\ q.c2 # 0 /\ q.st # "SYN_RCVD"
    BY <1>2 DEF Takes
  <2>3. \A s \in q.unacked :
          /\ s.c1 = q.c1
          /\ s.flag = "SYN" => s.seqno = Iss(q) /\ s.c2 = (IF h = Client THEN 0 ELSE q.c2)
          /\ s.flag = "FIN" => s.seqno = Iss(q) + 1 /\ s.c2 = q.c2 /\ q.rxclosed
    BY <1>1, <1>3 DEF Own, Takes
  <2>4. q.c1 < port /\ q.c2 <= serverId /\ (q.rxclosed => <<h, q.c1, q.c2>> \in closed)
    BY <1>1 DEF Own, Takes
  <2>5. QED
    BY <1>2, <1>3, <2>1, <2>2, <2>3, <2>4 DEF Own, Takes
<1>6. Own(h, q)'
  <2>1. h = Client /\ q.st = "SYN_SENT" => \A c \in Ids : <<q.c1, c>> \notin made'
    BY DEF Takes
  <2>2. QED
    BY <1>1, <1>5, <2>1, OwnGrows
<1>7. ASSUME NEW r \in pcbs[Peer(h)] PROVE Paired(h, q, r)
  <2> DEFINE g == Peer(h)
  <2>1. g \in Hosts /\ Peer(g) = h
    BY PeerIs
  <2>2. Own(g, r) /\ Paired(h, p, r) /\ SegFrom(m, r)
    BY <2>1, HeldFits
  <2>3. r.snd_nxt \in Nat /\ r.rcv_nxt \in Nat /\ r.lastack \in Nat /\ Iss(r) \in Nat /\ r.rxclosed \in BOOLEAN
    BY <1>1, <2>1, <2>2, OwnIds
  <2>4. SUFFICES ASSUME r.c1 = p.c1 PROVE Paired(h, q, r)
    BY DEF Paired, Pair, Takes
  <2>5. r.c2 # 0
    <3>1. CASE h = Client
      BY <2>2, <3>1, PeerIs DEF Own
    <3>2. CASE h = Server /\ r.c2 = 0
      <4>1. g = Client
        BY <3>2, PeerIs
      <4>2. r.st # "SYN_SENT" => r.c2 # 0
        BY <1>1, <2>1, <2>2, OwnIds
      <4>3. \A c \in Ids : <<r.c1, c>> \notin made
        BY <2>2, <3>2, <4>1, <4>2 DEF Own
      <4>4. QED
        BY <1>2, <2>4, <4>3
    <3>3. QED
      BY <3>1, <3>2, PeerIs
  <2>6. SUFFICES ASSUME r.c2 = p.c2 PROVE Paired(h, q, r)
    BY <1>2, <2>4, <2>5 DEF Paired, Pair, Takes
  <2>7. Same(m, r)
    BY <2>4, <2>6 DEF Same
  <2>8. m.ackno <= r.rcv_nxt
    BY <2>2, <2>7 DEF SegFrom
  <2>9. "FIN" \in m.flags => m.seqno = Iss(r) + 1 /\ r.snd_nxt = m.seqno + 1
    BY <2>2, <2>3, <2>7 DEF SegFrom, Iss
  <2>10. /\ Between(r.rcv_nxt, Iss(p) + 1, p.snd_nxt)
         /\ Between(p.rcv_nxt, Iss(r) + 1, r.snd_nxt)
         /\ r.lastack <= p.rcv_nxt /\ p.lastack <= r.rcv_nxt
    BY <2>2, <2>4, <2>6 DEF Paired, Pair
  <2>11. q.lastack <= r.rcv_nxt
    BY <2>8, <2>10 DEF Takes
  <2>12. Between(q.rcv_nxt, Iss(r) + 1, r.snd_nxt) /\ r.lastack <= q.rcv_nxt
    BY <1>2, <1>4, <2>3, <2>9, <2>10 DEF Takes, Between
  <2>13. q.c1 = r.c1 /\ q.c2 = r.c2 /\ Between(r.rcv_nxt, Iss(q) + 1, q.snd_nxt)
    BY <1>3, <2>4, <2>6, <2>10 DEF Takes
  <2>14. QED
    BY <2>11, <2>12, <2>13 DEF Paired, Pair
<1>8. ASSUME NEW n \in net, n.to = h PROVE SegTo(n, q)
  <2>1. SegTo(n, p) /\ n.seqno \in Nat
    BY <1>8, HeldFits DEF SegOK
  <2>2. QED
    BY <1>2, <1>3, <2>1 DEF SegTo, Same, Takes
<1>9. ASSUME NEW n \in net, n.to = Peer(h) PROVE SegFrom(n, q)
  <2>1. SegFrom(n, p) /\ n.ackno \in Nat
    BY <1>9, HeldFits DEF SegOK
  <2>2. QED
    BY <1>2, <1>3, <2>1 DEF SegFrom, Same, Takes
<1>10. QED
  BY <1>6, <1>7, <1>8, <1>9 DEF Fits

LEMMA ReceivedFacts ==
  ASSUME NEW p \in Pcb, NEW m, m.ackno \in Nat, NEW r, r = Received(p, m)
  PROVE  /\ r.pcb \in Pcb
         /\ r.pcb.st = p.st /\ r.pcb.c1 = p.c1 /\ r.pcb.c2 = p.c2 /\ r.pcb.snd_nxt = p.snd_nxt
         /\ r.pcb.rxclosed = p.rxclosed /\ r.pcb.unacked \subseteq p.unacked
         /\ r.pcb.lastack = p.lastack \/ (r.pcb.lastack = m.ackno /\ AckNew(p, m))
         /\ r.pcb.rcv_nxt = (IF FinTaken(p, m) THEN p.rcv_nxt + 1 ELSE p.rcv_nxt)
         /\ r.gotFin = FinTaken(p, m)
<1>1. PICK a : a = IF AckNew(p, m)
                   THEN [p EXCEPT !.lastack = m.ackno, !.nrtx = 0,
                                  !.unacked = {s \in @ : s.seqno + 1 > m.ackno}]
                   ELSE p
  OBVIOUS
<1>2. /\ a \in Pcb
      /\ a.st = p.st /\ a.c1 = p.c1 /\ a.c2 = p.c2 /\ a.snd_nxt = p.snd_nxt
      /\ a.rxclosed = p.rxclosed /\ a.unacked \subseteq p.unacked /\ a.rcv_nxt = p.rcv_nxt
      /\ a.lastack = p.lastack \/ (a.lastack = m.ackno /\ AckNew(p, m))
  <2>1. CASE AckNew(p, m)
    <3>1. a = [p EXCEPT !.lastack = m.ackno, !.nrtx = 0,
                        !.unacked = {s \in p.unacked : s.seqno + 1 > m.ackno}]
      BY <1>1, <2>1
    <3>2. 0 \in 0..TCP_MAXRTX
      BY ConnAssumption
    <3>3. {s \in p.unacked : s.seqno + 1 > m.ackno} \subseteq p.unacked
      OBVIOUS
    <3>4. QED
      BY <2>1, <3>1, <3>2, <3>3 DEF Pcb
  <2>2. CASE ~AckNew(p, m)
    BY <1>1, <2>2
  <2>3. QED
    BY <2>1, <2>2
<1>3. PICK b : b = IF FinTaken(p, m) THEN [a EXCEPT !.rcv_nxt = @ + 1] ELSE a
  OBVIOUS
<1>4. /\ b \in Pcb
      /\ b.st = p.st /\ b.c1 = p.c1 /\ b.c2 = p.c2 /\ b.snd_nxt = p.snd_nxt
      /\ b.rxclosed = p.rxclosed /\ b.unacked \subseteq p.unacked
      /\ b.lastack = p.lastack \/ (b.lastack = m.ackno /\ AckNew(p, m))
      /\ b.rcv_nxt = (IF FinTaken(p, m) THEN p.rcv_nxt + 1 ELSE p.rcv_nxt)
  BY <1>2, <1>3 DEF Pcb
<1>5. r.pcb = b /\ r.gotFin = FinTaken(p, m)
  BY <1>1, <1>3 DEF Received
<1>6. QED
  BY <1>4, <1>5

----------------------------------------------------------------------------
(***************************************************************************)
(* The invariant is inductive.                                             *)
(***************************************************************************)
LEMMA InitIInv == Init => IInv
<1>1. SUFFICES ASSUME Init PROVE IInv
  OBVIOUS
<1>2. pcbs = [h \in Hosts |-> {}] /\ net = {} /\ \A h \in Hosts : pcbs[h] = {}
  <2>1. pcbs = [h \in Hosts |-> {}] /\ net = {}
    BY <1>1 DEF Init
  <2>2. QED
    BY <2>1
<1>3. Globals
  <2>1. FirstPort \in Ports \cup {FirstPort + MaxConnects}
    BY ConnAssumption DEF Ports, FirstPort
  <2>2. QED
    BY <1>1, <2>1 DEF Init, Globals
<1>4. Variables
  BY <1>2, <1>3 DEF Variables
<1>5. QED
  BY <1>2, <1>4, PeerIs DEF IInv, PcbsOK, PairsOK, NetOK, TwinsOK, IdsUnique, Unique

LEMMA ConnectKeeps == ASSUME IInv, tcp_connect PROVE IInv'
<1>1. Globals
  BY DEF IInv, Variables
<1>2. port \in Ports /\ port \in Nat /\ serverId \in Nat /\ port' = port + 1
  BY <1>1, IdFacts DEF tcp_connect, Globals
<1>3. PICK d \in IssSteps :
        LET n == iss[Client] + d
            p == Enqueue([NewPcb("SYN_SENT", port, 0, n) EXCEPT !.lastack = n - 1], "SYN", n - 1)
        IN /\ iss' = [iss EXCEPT ![Client] = n]
           /\ pcbs' = [pcbs EXCEPT ![Client] = @ \cup {p}]
           /\ Sends(Unacked(Client, p))
  BY DEF tcp_connect
<1>4. PICK n : n = iss[Client] + d
  OBVIOUS
<1>5. n \in Nat /\ n - 1 \in Nat
  BY <1>1, <1>4, ConnAssumption, PeerIs DEF Globals
<1>6. PICK b : b = [NewPcb("SYN_SENT", port, 0, n) EXCEPT !.lastack = n - 1]
  OBVIOUS
<1>7. /\ b \in Pcb /\ b.st = "SYN_SENT" /\ b.c1 = port /\ b.c2 = 0 /\ b.unacked = {}
      /\ b.lastack = n - 1 /\ b.rxclosed = FALSE
  <2>1. b \in Pcb
    BY <1>2, <1>5, <1>6, NewPcbFacts DEF States
  <2>2. QED
    BY <1>6, <2>1 DEF NewPcb
<1>8. PICK p : p = Enqueue(b, "SYN", n - 1)
  OBVIOUS
<1>9. /\ p \in Pcb
      /\ p.unacked = {[flag |-> "SYN", seqno |-> n - 1, c1 |-> port, c2 |-> 0]}
      /\ p.st = "SYN_SENT" /\ p.c1 = port /\ p.c2 = 0 /\ p.snd_nxt = n
      /\ p.lastack = n - 1 /\ p.rxclosed = FALSE
  <2>1. PICK u : u = [flag |-> "SYN", seqno |-> n - 1, c1 |-> b.c1, c2 |-> b.c2]
    OBVIOUS
  <2>2. /\ p \in Pcb
        /\ p.unacked = b.unacked \cup {u}
        /\ p.st = b.st /\ p.c1 = b.c1 /\ p.c2 = b.c2 /\ p.snd_nxt = n - 1 + 1
        /\ p.lastack = b.lastack /\ p.rcv_nxt = b.rcv_nxt /\ p.rxclosed = b.rxclosed
    BY <1>5, <1>7, <1>8, <2>1, EnqueueFacts
  <2>3. n - 1 + 1 = n
    BY <1>5
  <2>4. QED
    BY <1>7, <2>1, <2>2, <2>3
<1>10. /\ iss' = [iss EXCEPT ![Client] = n]
       /\ pcbs' = [pcbs EXCEPT ![Client] = pcbs[Client] \cup {p}]
       /\ Sends(Unacked(Client, p))
  BY <1>3, <1>4, <1>6, <1>8
<1>11. /\ status' = status /\ serverId' = serverId /\ made' = made /\ closed' = closed
  BY DEF tcp_connect
<1>12. Globals'
  <2>1. port' \in Ports \cup {FirstPort + MaxConnects}
    BY <1>2, ConnAssumption DEF Ports, FirstPort
  <2>2. iss' \in [Hosts -> Nat \ {0}]
    BY <1>1, <1>5, <1>10, PeerIs DEF Globals
  <2>3. made' \subseteq {c \in Ports \X Ids : c[1] < port'}
    <3>1. ASSUME NEW c \in made PROVE c \in Ports \X Ids /\ c[1] < port + 1
      <4>1. c \in Ports \X Ids /\ c[1] < port
        BY <1>1 DEF Globals
      <4>2. c[1] \in Nat
        BY <4>1, IdFacts
      <4>3. QED
        BY <1>2, <4>1, <4>2
    <3>2. QED
      BY <1>2, <1>11, <3>1
  <2>4. QED
    BY <1>1, <1>11, <2>1, <2>2, <2>3 DEF Globals
<1>13. Growth
  BY <1>2, <1>11 DEF Growth
<1>14. Iss(p) = n - 1
  BY <1>5, <1>9 DEF Iss
<1>15. Own(Client, p)'
  <2>1. \A c \in Ids : <<port, c>> \notin made'
    BY <1>1, <1>2, <1>11 DEF Globals
  <2>2. p.c1 < port' /\ p.c2 <= serverId'
    BY <1>2, <1>9, <1>11
  <2>3. 0 <= Iss(p) /\ Iss(p) <= p.lastack /\ p.lastack <= p.snd_nxt
    BY <1>5, <1>9, <1>14
  <2>4. QED
    BY <1>9, <1>14, <2>1, <2>2, <2>3, PeerIs DEF Own, Synchronised
<1>16. Fits(Client, p)
  <2>1. ASSUME NEW r \in pcbs[Peer(Client)] PROVE r.c1 # p.c1
    <3>1. Own(Server, r)
      BY PeerIs, HeldFits
    <3>2. QED
      BY <1>2, <1>9, <3>1 DEF Own
  <2>2. ASSUME NEW m \in net PROVE m.c1 # p.c1
    <3>1. SegOK(m)
      BY DEF IInv, NetOK
    <3>2. m.c1 < port
      BY <3>1 DEF SegOK
    <3>3. QED
      BY <1>2, <1>9, <3>2
  <2>3. \A m \in net : SegTo(m, p) /\ SegFrom(m, p)
    BY <2>2 DEF SegTo, SegFrom, Same
  <2>4. \A r \in pcbs[Peer(Client)] : Paired(Client, p, r)
    BY <2>1, PeerIs DEF Paired, Pair
  <2>5. QED
    BY <1>15, <2>3, <2>4 DEF Fits
<1>17. PICK P : P = pcbs[Client] \cup {p}
  OBVIOUS
<1>18. ASSUME NEW q \in pcbs[Client] PROVE Fits(Client, q) /\ q.c1 # p.c1
  <2>1. Own(Client, q)
    BY <1>18, HeldFits, PeerIs
  <2>2. Client = Client /\ q.st = "SYN_SENT" => \A c \in Ids : <<q.c1, c>> \notin made'
    BY <1>11, <2>1 DEF Own
  <2>3. q.c1 # p.c1
    BY <1>2, <1>9, <2>1 DEF Own
  <2>4. QED
    BY <1>12, <1>13, <1>18, <2>2, <2>3, KeptFits, PeerIs
<1>19. Unique(Client, P)
  <2>1. Unique(Client, pcbs[Client])
    BY PeerIs DEF IInv, IdsUnique
  <2>2. QED
    BY <1>17, <1>18, <2>1 DEF Unique, SameId
<1>20. \A m \in Unacked(Client, p) : Sound(Client, P, m)
  BY <1>12, <1>16, <1>17, <1>19, PeerIs, OutputSound DEF Unacked
<1>21. net' \subseteq net \cup Unacked(Client, p)
  BY <1>10, CarriedIsSubset DEF Sends
<1>22. QED
  BY <1>10, <1>11, <1>12, <1>13, <1>16, <1>17, <1>18, <1>19, <1>20, <1>21, HostStep, PeerIs

LEMMA AbortKeeps ==
  ASSUME IInv, NEW h \in Hosts, NEW p \in pcbs[h], tcp_abort(h, p)
  PROVE  IInv'
<1>1. UNCHANGED <<status, iss, port, serverId, made, closed>> /\ pcbs' = Without(h, p)
  BY DEF tcp_abort
<1>2. PICK out : out = {Reset(h, p.c1, p.c2, p.snd_nxt, p.rcv_nxt)}
  OBVIOUS
<1>3. net' \subseteq net \cup out
  BY <1>2, CarriedIsSubset DEF tcp_abort, Sends
<1>4. \A m \in out : Sound(h, pcbs[h] \ {p}, m)
  BY <1>1, <1>2, FreedResetSound, OthersDiffer
<1>5. Globals' /\ Growth /\ \A x \in pcbs[h] \ {p} : Fits(h, x)
  BY <1>1, QuietStep
<1>6. QED
  BY <1>1, <1>3, <1>4, <1>5, WithoutStep

LEMMA CloseKeeps ==
  ASSUME IInv, NEW h \in Hosts, NEW p \in pcbs[h], tcp_close(h, p)
  PROVE  IInv'
<1>1. Globals /\ Own(h, p)
  BY HeldFits DEF IInv, Variables
<1>2. CASE p.st = "SYN_SENT"
  <2>1. UNCHANGED <<status, iss, port, serverId, made, closed>> /\ pcbs' = Without(h, p) /\ net' = net
    BY <1>2 DEF tcp_close
  <2>2. Globals' /\ Growth /\ \A x \in pcbs[h] \ {p} : Fits(h, x)
    BY <2>1, QuietStep
  <2>3. PICK out : out = {}
    OBVIOUS
  <2>4. net' \subseteq net \cup out /\ \A m \in out : Sound(h, pcbs[h] \ {p}, m)
    BY <2>1, <2>3
  <2>5. QED
    BY <2>1, <2>2, <2>4, WithoutStep
<1>3. CASE p.st # "SYN_SENT"
  <2>1. /\ p \in Pcb /\ p.c1 \in Ports /\ p.c2 \in Ids /\ p.snd_nxt \in Nat /\ p.c2 # 0
        /\ p.rcv_nxt \in Nat /\ p.lastack \in Nat /\ Iss(p) \in Nat /\ Iss(p) < p.snd_nxt
    <3>1. p \in Pcb /\ p.c1 \in Ports /\ (p.st # "SYN_SENT" => p.c2 \in Ids /\ p.c2 # 0)
      BY <1>1, OwnIds
    <3>2. /\ p.snd_nxt \in Nat /\ p.rcv_nxt \in Nat /\ p.lastack \in Nat
          /\ Iss(p) \in Nat /\ Iss(p) < p.snd_nxt
      BY <1>1, OwnIds
    <3>3. QED
      BY <1>3, <3>1, <3>2
  <2>2. p.st \in {"ESTABLISHED", "CLOSE_WAIT"} /\ p.rxclosed = FALSE /\ <<p.c1, p.c2>> \in made
    <3>1. ~p.rxclosed /\ p.st \notin {"SYN_SENT", "SYN_RCVD"}
      BY <1>3 DEF tcp_close, Owned
    <3>2. p.rxclosed \in BOOLEAN /\ p.st \in States
      BY <2>1 DEF Pcb
    <3>3. QED
      BY <1>1, <3>1, <3>2 DEF Own, Synchronised, States
  <2>3. PICK b : b = [p EXCEPT !.rxclosed = TRUE,
                              !.st = IF @ = "ESTABLISHED" THEN "FIN_WAIT_1" ELSE "LAST_ACK"]
    OBVIOUS
  <2>4. /\ b \in Pcb /\ b.rxclosed = TRUE
        /\ b.st = IF p.st = "ESTABLISHED" THEN "FIN_WAIT_1" ELSE "LAST_ACK"
        /\ b.c1 = p.c1 /\ b.c2 = p.c2 /\ b.unacked = p.unacked
        /\ b.lastack = p.lastack /\ b.rcv_nxt = p.rcv_nxt
    BY <2>1, <2>3 DEF Pcb, States
  <2>5. PICK q : q = Enqueue(b, "FIN", p.snd_nxt)
    OBVIOUS
  <2>6. PICK s : s = [flag |-> "FIN", seqno |-> p.snd_nxt, c1 |-> p.c1, c2 |-> p.c2]
    OBVIOUS
  <2>7. /\ q \in Pcb /\ q.unacked = p.unacked \cup {s}
        /\ q.st = b.st /\ q.c1 = p.c1 /\ q.c2 = p.c2 /\ q.snd_nxt = p.snd_nxt + 1
        /\ q.lastack = p.lastack /\ q.rcv_nxt = p.rcv_nxt /\ q.rxclosed = TRUE
    <3>1. /\ q \in Pcb
          /\ q.unacked = b.unacked \cup {s}
          /\ q.st = b.st /\ q.c1 = b.c1 /\ q.c2 = b.c2 /\ q.snd_nxt = p.snd_nxt + 1
          /\ q.lastack = b.lastack /\ q.rcv_nxt = b.rcv_nxt /\ q.rxclosed = b.rxclosed
      <4>1. s = [flag |-> "FIN", seqno |-> p.snd_nxt, c1 |-> b.c1, c2 |-> b.c2]
        BY <2>4, <2>6
      <4>2. QED
        BY <2>1, <2>4, <2>5, <4>1, EnqueueFacts
    <3>2. QED
      BY <2>4, <2>6, <3>1
  <2>8. PICK fin : fin = CHOOSE x \in q.unacked : x.flag = "FIN"
    OBVIOUS
  <2>9. fin \in q.unacked
    BY <2>6, <2>7, <2>8
  <2>10. /\ pcbs' = Replace(h, p, q)
         /\ Sends({OutputSegment(h, q, fin)})
         /\ closed' = closed \cup {<<h, p.c1, p.c2>>}
         /\ UNCHANGED <<status, iss, port, serverId, made>>
    BY <1>3, <2>3, <2>5, <2>8 DEF tcp_close
  <2>11. Globals' /\ Growth
    <3>1. port \in Nat /\ serverId \in Nat
      BY <1>1, IdFacts, ConnAssumption DEF Globals, FirstPort
    <3>2. QED
      BY <1>1, <2>1, <2>10, <3>1 DEF Globals, Growth
  <2>12. ASSUME NEW x \in pcbs[h] PROVE Fits(h, x)
    <3>1. h = Client /\ x.st = "SYN_SENT" => \A c \in Ids : <<x.c1, c>> \notin made'
      BY <2>10, HeldFits DEF Own
    <3>2. QED
      BY <2>11, <3>1, KeptFits
  <2>13. Iss(q) = Iss(p) /\ Iss(p) = p.snd_nxt - 1
    BY <2>1, <2>2, <2>7 DEF Iss
  <2>14. Own(h, q)'
    <3>1. q.st \in {"FIN_WAIT_1", "LAST_ACK"} /\ (q.st = "LAST_ACK" => p.st = "CLOSE_WAIT")
      BY <2>2, <2>4, <2>7
    <3>2. q.st = "LAST_ACK" => <<Peer(h), q.c1, q.c2>> \in closed'
      BY <1>1, <2>7, <2>10, <3>1 DEF Own
    <3>3. \A x \in q.unacked :
           /\ x.c1 = q.c1
           /\ x.flag = "SYN" => x.seqno = Iss(q) /\ x.c2 = (IF h = Client THEN 0 ELSE q.c2)
           /\ x.flag = "FIN" => x.seqno = Iss(q) + 1 /\ x.c2 = q.c2 /\ q.rxclosed
      BY <1>1, <2>1, <2>6, <2>7, <2>13 DEF Own
    <3>4. 0 <= Iss(q) /\ Iss(q) <= q.lastack /\ q.lastack <= q.snd_nxt
      BY <1>1, <2>1, <2>7, <2>13 DEF Own
    <3>5. <<h, q.c1, q.c2>> \in closed' /\ <<q.c1, q.c2>> \in made'
      BY <2>2, <2>7, <2>10
    <3>6. q.c1 < port' /\ q.c2 <= serverId'
      BY <1>1, <2>7, <2>10 DEF Own
    <3>7. QED
      BY <2>1, <2>7, <3>1, <3>2, <3>3, <3>4, <3>5, <3>6 DEF Own
  <2>15. Fits(h, q)
    <3>1. ASSUME NEW r \in pcbs[Peer(h)] PROVE Paired(h, q, r)
      <4>1. Paired(h, p, r) /\ Own(Peer(h), r)
        BY HeldFits, PeerIs
      <4>2. r.rcv_nxt \in Nat
        BY <4>1 DEF Own, Pcb
      <4>3. QED
        BY <2>1, <2>7, <2>13, <4>1, <4>2 DEF Paired, Pair, Between
    <3>2. ASSUME NEW m \in net, m.to = h PROVE SegTo(m, q)
      <4>1. SegTo(m, p) /\ m.ackno \in Nat
        BY <3>2, HeldFits DEF SegOK
      <4>2. QED
        BY <2>1, <2>7, <2>13, <4>1 DEF SegTo, Same, Between
    <3>3. ASSUME NEW m \in net, m.to = Peer(h) PROVE SegFrom(m, q)
      <4>1. SegFrom(m, p)
        BY <3>3, HeldFits
      <4>2. QED
        BY <2>2, <2>7, <2>13, <4>1 DEF SegFrom, Same
    <3>4. QED
      BY <2>14, <3>1, <3>2, <3>3 DEF Fits
  <2>16. SameId(h, p, q)
    BY <2>7 DEF SameId
  <2>17. PICK out : out = {OutputSegment(h, q, fin)}
    OBVIOUS
  <2>18. \A m \in out : Sound(h, (pcbs[h] \ {p}) \cup {q}, m)
    <3>1. PICK P : P = (pcbs[h] \ {p}) \cup {q}
      OBVIOUS
    <3>2. Unique(h, P) /\ q \in P
      BY <2>16, <3>1, ReplaceUnique
    <3>3. Sound(h, P, OutputSegment(h, q, fin))
      BY <2>9, <2>11, <2>15, <3>2, OutputSound
    <3>4. QED
      BY <2>17, <3>1, <3>3
  <2>19. net' \subseteq net \cup out
    BY <2>10, <2>17, CarriedIsSubset DEF Sends
  <2>20. QED
    BY <2>10, <2>11, <2>12, <2>15, <2>16, <2>18, <2>19, ReplaceStep
<1>4. QED
  BY <1>2, <1>3

LEMMA CrashKeeps == ASSUME IInv, Crash PROVE IInv'
<1>1. UNCHANGED <<iss, port, serverId, made, closed>> /\ status' = [status EXCEPT ![Server] = "dead"]
  BY DEF Crash
<1>2. Globals
  BY DEF IInv, Variables
<1>3. Globals'
  BY <1>1, <1>2, PeerIs DEF Globals
<1>4. port \in Nat /\ serverId \in Nat
  BY <1>2, IdFacts, ConnAssumption DEF Globals, FirstPort
<1>5. Growth
  BY <1>1, <1>4 DEF Growth
<1>6. PICK P : P = {}
  OBVIOUS
<1>7. pcbs' = [pcbs EXCEPT ![Server] = P] /\ net' \subseteq net \cup P
  BY <1>6 DEF Crash
<1>8. Unique(Server, P)
  BY <1>6 DEF Unique
<1>9. (\A q \in P : Fits(Server, q)) /\ (\A m \in P : Sound(Server, P, m))
  BY <1>6
<1>10. QED
  BY <1>1, <1>3, <1>5, <1>7, <1>8, <1>9, HostStep, PeerIs

\* A segment that arrives, with what the invariant says of it.
LEMMA ArrivesFacts ==
  ASSUME IInv, NEW h \in Hosts, NEW m, Arrives(h, m)
  PROVE  /\ m \in net /\ m.to = h /\ SegOK(m) /\ m.seqno \in Nat /\ m.ackno \in Nat
         /\ m.c1 \in Ports /\ m.c2 \in Ids \cup {0}
BY DEF Arrives, IInv, NetOK, SegOK

LEMMA AnswersCarried ==
  ASSUME NEW m, NEW out, Answers(m, out)
  PROVE  net' \subseteq net \cup out
<1>1. net' \subseteq (net \ {m}) \cup out
  BY CarriedIsSubset DEF Answers
<1>2. QED
  BY <1>1

LEMMA MatchingIds ==
  ASSUME NEW h, NEW m, NEW p, p \in Matching(h, m)
  PROVE  /\ p \in pcbs[h] /\ p.st # "TIME_WAIT" /\ p.c1 = m.c1
         /\ p.st # "SYN_SENT" => Same(m, p)
BY DEF Matching, Active, Matches, Same

\* The empty ACK of a PCB of a host that changes nothing.
LEMMA HeldAckSound ==
  ASSUME IInv, UNCHANGED <<status, iss, port, serverId, made, closed>>,
         NEW h \in Hosts, NEW p \in pcbs[h], p.st # "SYN_SENT"
  PROVE  Sound(h, pcbs[h], EmptyAck(h, p))
<1>1. Globals' /\ Fits(h, p) /\ Unique(h, pcbs[h])
  BY QuietStep, SubsetUnique
<1>2. p.snd_nxt \in Nat
  BY HeldFits DEF Pcb
<1>3. QED
  BY <1>1, <1>2, AckSound DEF EmptyAck

LEMMA InputResetKeeps ==
  ASSUME IInv, NEW h \in Hosts, NEW p \in pcbs[h], NEW m, InputReset(h, p, m)
  PROVE  IInv'
<1>1. UNCHANGED <<status, iss, port, serverId, made, closed>>
  BY DEF InputReset
<1>2. PICK out : out = {}
  OBVIOUS
<1>3. net' \subseteq net \cup out
  BY <1>2, AnswersCarried DEF InputReset
<1>4. Globals' /\ Growth /\ \A x \in pcbs[h] : Fits(h, x)
  BY <1>1, QuietStep
<1>5. CASE pcbs' = Without(h, p)
  <2>1. \A n \in out : Sound(h, pcbs[h] \ {p}, n)
    BY <1>2
  <2>2. QED
    BY <1>1, <1>3, <1>4, <1>5, <2>1, WithoutStep
<1>6. CASE pcbs' = pcbs
  <2>1. \A n \in out : Sound(h, pcbs[h], n)
    BY <1>2
  <2>2. QED
    BY <1>1, <1>3, <1>4, <1>6, <2>1, SameStep
<1>7. QED
  BY <1>5, <1>6 DEF InputReset

LEMMA InputStraySynKeeps ==
  ASSUME IInv, NEW h \in Hosts, NEW p \in pcbs[h], NEW m, InputStraySyn(h, p, m)
  PROVE  IInv'
<1>1. UNCHANGED <<status, iss, port, serverId, made, closed>> /\ pcbs' = pcbs /\ p.st # "SYN_SENT"
  BY DEF InputStraySyn
<1>2. PICK out : out = {EmptyAck(h, p)}
  OBVIOUS
<1>3. net' \subseteq net \cup out
  BY <1>2, AnswersCarried DEF InputStraySyn
<1>4. Globals' /\ Growth /\ \A x \in pcbs[h] : Fits(h, x)
  BY <1>1, QuietStep
<1>5. \A n \in out : Sound(h, pcbs[h], n)
  BY <1>1, <1>2, HeldAckSound
<1>6. QED
  BY <1>1, <1>3, <1>4, <1>5, SameStep

\* A SYN never lies in the window of a PCB in TIME_WAIT: it is acknowledged.
LEMMA InputTimeWaitKeeps ==
  ASSUME IInv, NEW h \in Hosts, NEW p \in pcbs[h], NEW m, InputTimeWait(h, p, m)
  PROVE  IInv'
<1>1. UNCHANGED <<status, iss, port, serverId, made, closed>> /\ Arrives(h, m)
  BY DEF InputTimeWait
<1>2. /\ m \in net /\ m.to = h /\ SegOK(m) /\ m.seqno \in Nat
      /\ SegTo(m, p) /\ Own(h, p) /\ p \in Pcb /\ p.rcv_nxt \in Nat
  BY <1>1, ArrivesFacts, HeldFits DEF Pcb
<1>3. p.st = "TIME_WAIT" /\ Same(m, p)
  BY DEF InputTimeWait, MatchingTimeWait, TimeWait, Active, Same
<1>4. ~("SYN" \in m.flags /\ Between(m.seqno, p.rcv_nxt, p.rcv_nxt + TCP_WND))
  <2>1. "SYN" \in m.flags => m.seqno + 1 <= p.rcv_nxt
    BY <1>2, <1>3 DEF SegTo
  <2>2. QED
    BY <1>2, <2>1 DEF Between
<1>5. PICK out : out = IF "RST" \in m.flags \/ tcplen(m) = 0 THEN {} ELSE {EmptyAck(h, p)}
  OBVIOUS
<1>6. net' \subseteq net \cup out
  <2>1. Answers(m, out)
    BY <1>4, <1>5 DEF InputTimeWait
  <2>2. QED
    BY <2>1, AnswersCarried
<1>7. Globals' /\ Growth /\ \A x \in pcbs[h] : Fits(h, x)
  BY <1>1, QuietStep
<1>8. CASE pcbs' = pcbs
  <2>1. \A n \in out : Sound(h, pcbs[h], n)
    BY <1>1, <1>3, <1>5, HeldAckSound
  <2>2. QED
    BY <1>1, <1>6, <1>7, <1>8, <2>1, SameStep
<1>9. CASE pcbs' = Replace(h, p, [p EXCEPT !.age = 0])
  <2>1. PICK q : q = [p EXCEPT !.age = 0]
    OBVIOUS
  <2>2. q \in Pcb /\ Alike(p, q)
    BY <1>2, <2>1, AgeFacts DEF Pcb, Alike
  <2>3. Fits(h, q) /\ SameId(h, p, q)
    BY <1>1, <2>2, QuietStep DEF SameId, Alike
  <2>4. PICK P : P = (pcbs[h] \ {p}) \cup {q}
    OBVIOUS
  <2>5. Unique(h, P)
    BY <2>3, <2>4, ReplaceUnique
  <2>6. Sound(h, P, EmptyAck(h, p))
    <3>1. EmptyAck(h, p) = EmptyAck(h, q) /\ q.st # "SYN_SENT" /\ q.snd_nxt \in Nat
      BY <1>3, <2>2 DEF EmptyAck, Alike, Pcb
    <3>2. q \in P
      BY <2>4
    <3>3. Sound(h, P, EmptyAck(h, q))
      BY <1>7, <2>3, <2>5, <3>1, <3>2, AckSound DEF EmptyAck
    <3>4. QED
      BY <3>1, <3>3
  <2>7. \A n \in out : Sound(h, (pcbs[h] \ {p}) \cup {q}, n)
    BY <1>5, <2>4, <2>6
  <2>8. QED
    BY <1>1, <1>6, <1>7, <1>9, <2>1, <2>3, <2>7, ReplaceStep
<1>10. QED
  BY <1>8, <1>9 DEF InputTimeWait

LEMMA InputNoMatchKeeps ==
  ASSUME IInv, NEW m, InputNoMatch(m)
  PROVE  IInv'
<1>1. UNCHANGED <<iss, port, serverId, made, closed>>
  BY DEF InputNoMatch
<1>2. PICK out : out = {}
  OBVIOUS
<1>3. net' \subseteq net \cup out
  BY <1>2, AnswersCarried DEF InputNoMatch
<1>4. Globals
  BY DEF IInv, Variables
<1>5. port \in Nat /\ serverId \in Nat
  BY <1>4, IdFacts, ConnAssumption DEF Globals, FirstPort
<1>6. Growth
  BY <1>1, <1>5 DEF Growth
<1>7. CASE UNCHANGED <<pcbs, status>>
  <2>1. UNCHANGED <<status, iss, port, serverId, made, closed>> /\ pcbs' = pcbs
    BY <1>1, <1>7
  <2>2. Globals' /\ \A x \in pcbs[Client] : Fits(Client, x)
    BY <2>1, PeerIs, QuietStep
  <2>3. \A n \in out : Sound(Client, pcbs[Client], n)
    BY <1>2
  <2>4. QED
    BY <1>3, <1>6, <2>1, <2>2, <2>3, PeerIs, SameStep
<1>8. CASE /\ status' = [status EXCEPT ![Client] = "fault"]
           /\ pcbs' = [pcbs EXCEPT ![Client] = {}]
  <2>1. Globals'
    BY <1>1, <1>4, <1>8, PeerIs DEF Globals
  <2>2. pcbs' = [pcbs EXCEPT ![Client] = out]
    BY <1>2, <1>8
  <2>3. Unique(Client, out) /\ (\A q \in out : Fits(Client, q)) /\ (\A n \in out : Sound(Client, out, n))
    BY <1>2 DEF Unique
  <2>4. QED
    BY <1>1, <1>3, <1>6, <2>1, <2>2, <2>3, HostStep, PeerIs
<1>9. QED
  BY <1>7, <1>8 DEF InputNoMatch

\* The SYN|ACK that ends the client's part of the handshake names the id of
\* one half-open PCB of the server, and gives its sequence number, for all the
\* copies of it.
LEMMA InputSynSentKeeps ==
  ASSUME IInv, NEW h \in Hosts, NEW p \in pcbs[h], NEW m, InputSynSent(h, p, m)
  PROVE  IInv'
<1>1. /\ UNCHANGED <<status, iss, port, serverId, closed>> /\ Arrives(h, m) /\ p \in Matching(h, m)
      /\ p.st = "SYN_SENT" /\ "RST" \notin m.flags
  BY DEF InputSynSent
<1>2. Globals /\ Own(h, p) /\ p \in Pcb /\ SegOK(m) /\ SegTo(m, p) /\ m \in net /\ m.to = h
  BY <1>1, ArrivesFacts, HeldFits DEF IInv, Variables
<1>3. h = Client
  BY <1>1, <1>2, PeerIs DEF Own
<1>4. /\ p.c1 = m.c1 /\ p.c2 = 0 /\ \A c \in Ids : <<p.c1, c>> \notin made
  BY <1>1, <1>2, <1>3, MatchingIds DEF Own
<1>5. m.seqno \in Nat /\ m.ackno \in Nat /\ m.c1 \in Ports /\ m.c2 \in Ids \cup {0}
  BY <1>1, ArrivesFacts
<1>6. /\ p.snd_nxt \in Nat /\ p.rcv_nxt \in Nat /\ p.lastack \in Nat
      /\ Iss(p) \in Nat /\ Iss(p) < p.snd_nxt
  BY <1>2, OwnIds
<1>7. Touched(p) \in Pcb /\ Alike(p, Touched(p))
  BY <1>2, TouchedFacts
<1>8. CASE {"SYN", "ACK"} \subseteq m.flags /\ AcksSyn(p, m)
  <2>1. m.c2 # 0 /\ m.c2 \in Ids /\ Acking(m) /\ "SYN" \in m.flags
    <3>1. "SYN" \in m.flags /\ "ACK" \in m.flags
      BY <1>8
    <3>2. m.c2 # 0
      BY <1>1, <1>2, <1>3, <3>1, PeerIs DEF SegOK
    <3>3. QED
      BY <1>1, <1>5, <3>1, <3>2 DEF Acking
  <2>2. m.ackno = Iss(p) + 1 /\ p.rxclosed = FALSE /\ p.snd_nxt = Iss(p) + 1
    <3>1. p.rxclosed = FALSE
      BY <1>1, <1>2 DEF Own, Pcb
    <3>2. m.ackno = Iss(p) + 1
      BY <1>2, <1>8 DEF AcksSyn, Own
    <3>3. QED
      BY <1>6, <3>1, <3>2 DEF Iss
  <2>3. PICK q : q = [Touched(p) EXCEPT !.st = "ESTABLISHED", !.c2 = m.c2, !.rcv_nxt = m.seqno + 1,
                                        !.lastack = m.ackno, !.unacked = {}]
    OBVIOUS
  <2>4. /\ q \in Pcb /\ q.st = "ESTABLISHED" /\ q.c1 = p.c1 /\ q.c2 = m.c2 /\ q.rcv_nxt = m.seqno + 1
        /\ q.lastack = m.ackno /\ q.unacked = {} /\ q.snd_nxt = p.snd_nxt /\ q.rxclosed = FALSE
    <3>1. m.seqno + 1 \in Nat
      BY <1>5
    <3>2. {} \in SUBSET [flag : {"SYN", "FIN"}, seqno : Nat, c1 : Ports, c2 : Ids \cup {0}]
      OBVIOUS
    <3>3. QED
      BY <1>5, <1>7, <2>2, <2>3, <3>1, <3>2 DEF Pcb, Alike, States
  <2>5. /\ pcbs' = Replace(h, p, q)
        /\ made' = made \cup {<<q.c1, q.c2>>}
        /\ Answers(m, {EmptyAck(h, q)})
    BY <1>8, <2>3 DEF InputSynSent
  <2>6. Globals' /\ Growth
    <3>1. <<q.c1, q.c2>> \in Ports \X Ids /\ q.c1 < port
      BY <1>2, <1>4, <1>5, <2>1, <2>4 DEF SegOK
    <3>2. made' \subseteq {c \in Ports \X Ids : c[1] < port'}
      BY <1>1, <1>2, <2>5, <3>1 DEF Globals
    <3>3. port \in Nat /\ serverId \in Nat
      BY <1>2, IdFacts, ConnAssumption DEF Globals, FirstPort
    <3>4. QED
      BY <1>1, <1>2, <2>5, <3>2, <3>3 DEF Globals, Growth
  <2>7. ASSUME NEW x \in pcbs[h] \ {p} PROVE Fits(h, x)
    <3>1. x.c1 # p.c1
      BY <1>3 DEF IInv, IdsUnique, Unique, SameId
    <3>2. x.st = "SYN_SENT" => \A c \in Ids : <<x.c1, c>> \notin made
      BY <1>3, HeldFits DEF Own
    <3>3. h = Client /\ x.st = "SYN_SENT" => \A c \in Ids : <<x.c1, c>> \notin made'
      BY <2>4, <2>5, <3>1, <3>2
    <3>4. QED
      BY <2>6, <3>3, KeptFits
  <2>8. Iss(q) = Iss(p)
    BY <2>2, <2>4 DEF Iss
  <2>9. Own(h, q)'
    <3>1. <<q.c1, q.c2>> \in made' /\ q.c1 < port' /\ q.c2 <= serverId'
      BY <1>1, <1>2, <1>4, <2>4, <2>5 DEF SegOK
    <3>2. 0 <= Iss(q) /\ Iss(q) <= q.lastack /\ q.lastack <= q.snd_nxt
      BY <1>6, <2>2, <2>4, <2>8
    <3>3. QED
      BY <1>3, <2>4, <3>1, <3>2, PeerIs DEF Own
  <2>10. Fits(h, q)
    <3>1. ASSUME NEW r \in pcbs[Peer(h)] PROVE Paired(h, q, r)
      <4>1. Peer(h) = Server /\ Peer(h) \in Hosts /\ Peer(Server) = h
        BY <1>3, PeerIs
      <4>2. Own(Server, r) /\ Pair(p, r) /\ SegFrom(m, r)
        BY <1>2, <1>3, <4>1, HeldFits, PeerIs DEF Paired
      <4>3. SUFFICES ASSUME r.c1 = p.c1, r.c2 = m.c2 PROVE Pair(q, r)
        BY <1>3, <2>1, <2>4 DEF Paired, Pair
      <4>4. /\ r.snd_nxt \in Nat /\ r.rcv_nxt \in Nat /\ r.lastack \in Nat
            /\ Iss(r) \in Nat /\ Iss(r) < r.snd_nxt
        BY <1>2, <4>1, <4>2, OwnIds
      <4>5. Between(r.rcv_nxt, Iss(p) + 1, p.snd_nxt)
        BY <1>4, <4>2, <4>3 DEF Pair
      <4>6. m.seqno = Iss(r)
        BY <1>4, <2>1, <4>2, <4>3 DEF SegFrom
      <4>7. r.lastack = Iss(r)
        <5>1. <<r.c1, r.c2>> \notin made
          BY <1>4, <2>1, <4>3
        <5>2. r.st = "SYN_RCVD"
          BY <4>2, <5>1 DEF Own, Synchronised
        <5>3. QED
          BY <4>2, <5>2 DEF Own
      <4>8. QED
        BY <1>6, <2>2, <2>4, <2>8, <4>4, <4>5, <4>6, <4>7 DEF Pair, Between
    <3>2. ASSUME NEW n \in net, n.to = h PROVE SegTo(n, q)
      <4>1. SegTo(n, p) /\ n.seqno \in Nat /\ Twins(m, n)
        BY <1>2, <3>2, HeldFits DEF SegOK, IInv, TwinsOK
      <4>2. "SYN" \in n.flags /\ Same(n, q) => n.seqno + 1 <= q.rcv_nxt
        BY <1>2, <1>3, <1>4, <1>5, <2>1, <2>4, <3>2, <4>1 DEF Twins, Same
      <4>3. Acking(n) /\ n.c2 # 0 /\ q.c1 = n.c1 => Between(n.ackno, Iss(q) + 1, q.snd_nxt)
        BY <1>4, <2>4, <2>8, <4>1 DEF SegTo
      <4>4. QED
        BY <4>2, <4>3 DEF SegTo
    <3>3. ASSUME NEW n \in net, n.to = Peer(h) PROVE SegFrom(n, q)
      <4>1. SegFrom(n, p) /\ SegOK(n) /\ n.to = Server
        BY <1>3, <3>3, HeldFits, PeerIs
      <4>2. ~Same(n, q)
        <5>1. SUFFICES ASSUME Same(n, q) PROVE FALSE
          OBVIOUS
        <5>2. <<p.c1, m.c2>> \in made
          BY <2>1, <2>4, <4>1, <5>1 DEF SegOK, Same
        <5>3. QED
          BY <1>4, <2>1, <5>2
      <4>3. "SYN" \in n.flags /\ q.c1 = n.c1 => n.seqno = Iss(q)
        BY <2>4, <2>8, <4>1 DEF SegFrom
      <4>4. QED
        BY <4>2, <4>3 DEF SegFrom, Same
    <3>4. QED
      BY <2>9, <3>1, <3>2, <3>3 DEF Fits
  <2>11. SameId(h, p, q)
    BY <1>3, <2>4 DEF SameId
  <2>12. PICK out : out = {EmptyAck(h, q)}
    OBVIOUS
  <2>13. \A n \in out : Sound(h, (pcbs[h] \ {p}) \cup {q}, n)
    <3>1. PICK P : P = (pcbs[h] \ {p}) \cup {q}
      OBVIOUS
    <3>2. Unique(h, P) /\ q \in P
      BY <2>11, <3>1, ReplaceUnique
    <3>3. q.st # "SYN_SENT" /\ q.snd_nxt \in Nat
      BY <1>6, <2>4
    <3>4. Sound(h, P, EmptyAck(h, q))
      BY <2>6, <2>10, <3>2, <3>3, AckSound DEF EmptyAck
    <3>5. QED
      BY <2>12, <3>1, <3>4
  <2>14. net' \subseteq net \cup out
    BY <2>5, <2>12, AnswersCarried
  <2>15. h = Server => made' = made
    BY <1>3, PeerIs
  <2>16. QED
    BY <2>5, <2>6, <2>7, <2>10, <2>11, <2>13, <2>14, <2>15, ReplaceStep
<1>9. CASE ~({"SYN", "ACK"} \subseteq m.flags /\ AcksSyn(p, m))
  <2>1. PICK q : q = Touched(p)
    OBVIOUS
  <2>2. PICK out : out = IF "ACK" \in m.flags THEN {ResetFor(h, p, m)} ELSE {}
    OBVIOUS
  <2>3. /\ pcbs' = Replace(h, p, q)
        /\ made' = made
        /\ Answers(m, out)
    BY <1>9, <2>1, <2>2 DEF InputSynSent
  <2>4. UNCHANGED <<status, iss, port, serverId, made, closed>>
    BY <1>1, <2>3
  <2>5. Globals' /\ Growth /\ (\A x \in pcbs[h] : Fits(h, x)) /\ Fits(h, q)
    BY <1>7, <2>1, <2>4, QuietStep
  <2>6. SameId(h, p, q)
    BY <1>7, <2>1 DEF SameId, Alike
  <2>7. Sound(h, (pcbs[h] \ {p}) \cup {q}, ResetFor(h, p, m))
    <3>1. PICK P : P = (pcbs[h] \ {p}) \cup {q}
      OBVIOUS
    <3>2. PICK x : x = m.ackno
      OBVIOUS
    <3>3. PICK y : y = m.seqno + tcplen(m)
      OBVIOUS
    <3>4. x \in Nat /\ y \in Nat
      BY <1>5, <3>2, <3>3 DEF tcplen
    <3>5. p.c1 \in Ports /\ p.c2 \in Ids \cup {0} /\ p.c1 < port' /\ p.c2 <= serverId'
      BY <1>2, <2>4 DEF Own, Pcb
    <3>6. Sound(h, P, Reset(h, p.c1, p.c2, x, y))
      BY <1>4, <2>5, <3>4, <3>5, ResetSound
    <3>7. QED
      BY <3>1, <3>2, <3>3, <3>6 DEF ResetFor
  <2>8. \A n \in out : Sound(h, (pcbs[h] \ {p}) \cup {q}, n)
    BY <2>2, <2>7
  <2>9. net' \subseteq net \cup out
    BY <2>3, AnswersCarried
  <2>10. QED
    BY <2>3, <2>5, <2>6, <2>8, <2>9, ReplaceStep
<1>10. QED
  BY <1>8, <1>9

\* Segment m takes PCB p to q, and is acknowledged or not.
LEMMA TakesStep ==
  ASSUME IInv, UNCHANGED <<status, iss, port, serverId, made, closed>>,
         NEW h \in Hosts, NEW p \in pcbs[h], NEW m \in net, m.to = h, Acking(m), Same(m, p),
         p.st # "SYN_SENT", <<p.c1, p.c2>> \in made, NEW q, Takes(h, p, m, q),
         pcbs' = Replace(h, p, q),
         NEW out, out \subseteq {EmptyAck(h, q)}, Answers(m, out)
  PROVE  IInv'
<1>1. Fits(h, q) /\ Globals' /\ Growth /\ \A x \in pcbs[h] : Fits(h, x)
  BY TakesFits, QuietStep
<1>2. SameId(h, p, q)
  BY DEF SameId, Takes
<1>3. Sound(h, (pcbs[h] \ {p}) \cup {q}, EmptyAck(h, q))
  <2>1. PICK P : P = (pcbs[h] \ {p}) \cup {q}
    OBVIOUS
  <2>2. Unique(h, P) /\ q \in P
    BY <1>2, <2>1, ReplaceUnique
  <2>3. q.st # "SYN_SENT" /\ q.snd_nxt \in Nat
    BY DEF Takes, Pcb
  <2>4. Sound(h, P, EmptyAck(h, q))
    BY <1>1, <2>2, <2>3, AckSound DEF EmptyAck
  <2>5. QED
    BY <2>1, <2>4
<1>4. \A n \in out : Sound(h, (pcbs[h] \ {p}) \cup {q}, n)
  BY <1>3
<1>5. net' \subseteq net \cup out
  BY AnswersCarried
<1>6. QED
  BY <1>1, <1>2, <1>4, <1>5, ReplaceStep

\* An ACK for a half-open PCB is always a new one: it is never reset.
LEMMA InputSynRcvdKeeps ==
  ASSUME IInv, NEW h \in Hosts, NEW p \in pcbs[h], NEW m, InputSynRcvd(h, p, m)
  PROVE  IInv'
<1>1. /\ UNCHANGED <<status, iss, port, serverId, made, closed>> /\ Arrives(h, m)
      /\ p \in Matching(h, m) /\ p.st = "SYN_RCVD" /\ "RST" \notin m.flags /\ "ACK" \in m.flags
  BY DEF InputSynRcvd
<1>2. Globals /\ Own(h, p) /\ p \in Pcb /\ SegOK(m) /\ SegTo(m, p) /\ m \in net /\ m.to = h
  BY <1>1, ArrivesFacts, HeldFits DEF IInv, Variables
<1>3. h = Server
  BY <1>1, <1>2, PeerIs DEF Own
<1>4. Same(m, p) /\ Acking(m)
  BY <1>1, MatchingIds DEF Acking
<1>5. m.seqno \in Nat /\ m.ackno \in Nat
  BY <1>1, ArrivesFacts
<1>6. p.c2 # 0 /\ <<p.c1, p.c2>> \in made /\ p.lastack = Iss(p)
  BY <1>1, <1>2, <1>3, <1>4 DEF Own, SegOK, Same
<1>7. AckNew(p, m)
  BY <1>2, <1>4, <1>6 DEF SegTo, AckNew, Same
<1>8. CASE /\ pcbs' = Without(h, p)
           /\ Answers(m, {Reset(h, p.c1, p.c2, p.snd_nxt, p.rcv_nxt)})
  <2>1. PICK out : out = {Reset(h, p.c1, p.c2, p.snd_nxt, p.rcv_nxt)}
    OBVIOUS
  <2>2. net' \subseteq net \cup out
    BY <1>8, <2>1, AnswersCarried
  <2>3. \A n \in out : Sound(h, pcbs[h] \ {p}, n)
    BY <1>1, <2>1, FreedResetSound, OthersDiffer
  <2>4. Globals' /\ Growth /\ \A x \in pcbs[h] \ {p} : Fits(h, x)
    BY <1>1, QuietStep
  <2>5. QED
    BY <1>1, <1>8, <2>2, <2>3, <2>4, WithoutStep
<1>9. PICK b : b = [Touched(p) EXCEPT !.st = "ESTABLISHED"]
  OBVIOUS
<1>10. PICK r : r = Received(b, m)
  OBVIOUS
<1>11. PICK q : q = [r.pcb EXCEPT !.st = IF r.gotFin THEN "CLOSE_WAIT" ELSE @]
  OBVIOUS
<1>12. CASE /\ pcbs' = Replace(h, p, q)
            /\ Answers(m, IF r.ack THEN {EmptyAck(h, r.pcb)} ELSE {})
  <2>1. Touched(p) \in Pcb /\ Alike(p, Touched(p))
    BY <1>2, TouchedFacts
  <2>2. /\ b \in Pcb /\ b.st = "ESTABLISHED" /\ b.c1 = p.c1 /\ b.c2 = p.c2 /\ b.snd_nxt = p.snd_nxt
        /\ b.lastack = p.lastack /\ b.rcv_nxt = p.rcv_nxt /\ b.unacked = p.unacked
        /\ b.rxclosed = p.rxclosed
    BY <1>9, <2>1 DEF Pcb, Alike, States
  <2>3. /\ r.pcb \in Pcb
        /\ r.pcb.st = b.st /\ r.pcb.c1 = b.c1 /\ r.pcb.c2 = b.c2 /\ r.pcb.snd_nxt = b.snd_nxt
        /\ r.pcb.rxclosed = b.rxclosed /\ r.pcb.unacked \subseteq b.unacked
        /\ r.pcb.lastack = b.lastack \/ (r.pcb.lastack = m.ackno /\ AckNew(b, m))
        /\ r.pcb.rcv_nxt = (IF FinTaken(b, m) THEN b.rcv_nxt + 1 ELSE b.rcv_nxt)
        /\ r.gotFin = FinTaken(b, m)
    BY <1>5, <1>10, <2>2, ReceivedFacts
  <2>4. /\ q \in Pcb /\ q.c1 = p.c1 /\ q.c2 = p.c2 /\ q.snd_nxt = p.snd_nxt
        /\ q.rxclosed = p.rxclosed /\ q.unacked \subseteq p.unacked
        /\ q.lastack = r.pcb.lastack /\ q.rcv_nxt = r.pcb.rcv_nxt
        /\ q.st = (IF FinTaken(b, m) THEN "CLOSE_WAIT" ELSE "ESTABLISHED")
    BY <1>11, <2>2, <2>3 DEF Pcb, States
  <2>5. FinTaken(b, m) => /\ "FIN" \in m.flags /\ m.seqno = p.rcv_nxt
                          /\ <<Peer(h), p.c1, p.c2>> \in closed
    BY <1>2, <1>4, <2>2 DEF FinTaken, SegOK, Same
  <2>6. p.rxclosed = FALSE
    BY <1>1, <1>2 DEF Own, Pcb
  <2>7. q.lastack = p.lastack \/ (q.lastack = m.ackno /\ AckNew(p, m))
    BY <2>2, <2>3, <2>4 DEF AckNew
  <2>8. q.rcv_nxt = p.rcv_nxt \/ (q.rcv_nxt = p.rcv_nxt + 1 /\ FinTaken(b, m))
    BY <2>2, <2>3, <2>4
  <2>9. Takes(h, p, m, q)
    BY <2>4, <2>5, <2>6, <2>7, <2>8 DEF Takes
  <2>10. PICK out : out = IF r.ack THEN {EmptyAck(h, q)} ELSE {}
    OBVIOUS
  <2>11. EmptyAck(h, r.pcb) = EmptyAck(h, q)
    BY <2>2, <2>3, <2>4 DEF EmptyAck
  <2>12. Answers(m, out) /\ out \subseteq {EmptyAck(h, q)}
    BY <1>12, <2>10, <2>11
  <2>13. QED
    BY <1>1, <1>2, <1>4, <1>6, <1>12, <2>9, <2>12, TakesStep
<1>13. QED
  BY <1>7, <1>8, <1>9, <1>10, <1>11, <1>12 DEF InputSynRcvd

LEMMA NextStateFacts ==
  ASSUME NEW st \in States, st \notin {"SYN_SENT", "SYN_RCVD", "TIME_WAIT"},
         NEW gotFin \in BOOLEAN, NEW finAcked \in BOOLEAN, NEW new, new = NextState(st, gotFin, finAcked),
         new # "freed"
  PROVE  /\ new \in States /\ new \notin {"SYN_SENT", "SYN_RCVD"}
         /\ (new \in {"ESTABLISHED", "CLOSE_WAIT"}) = (st \in {"ESTABLISHED", "CLOSE_WAIT"})
         /\ new \in {"CLOSE_WAIT", "CLOSING", "LAST_ACK", "TIME_WAIT"} =>
              gotFin \/ st \in {"CLOSE_WAIT", "CLOSING", "LAST_ACK", "TIME_WAIT"}
<1>1. st \in {"ESTABLISHED", "FIN_WAIT_1", "FIN_WAIT_2", "CLOSE_WAIT", "CLOSING", "LAST_ACK"}
  BY DEF States
<1>2. CASE st = "ESTABLISHED"
  BY <1>2 DEF NextState, States
<1>3. CASE st = "FIN_WAIT_1"
  BY <1>3 DEF NextState, States
<1>4. CASE st = "FIN_WAIT_2"
  BY <1>4 DEF NextState, States
<1>5. CASE st = "CLOSE_WAIT"
  BY <1>5 DEF NextState, States
<1>6. CASE st = "CLOSING"
  BY <1>6 DEF NextState, States
<1>7. CASE st = "LAST_ACK"
  BY <1>7 DEF NextState, States
<1>8. QED
  BY <1>1, <1>2, <1>3, <1>4, <1>5, <1>6, <1>7

LEMMA InputReceiveKeeps ==
  ASSUME IInv, NEW h \in Hosts, NEW p \in pcbs[h], NEW m, InputReceive(h, p, m)
  PROVE  IInv'
<1>1. /\ UNCHANGED <<status, iss, port, serverId, made, closed>> /\ Arrives(h, m)
      /\ p \in Matching(h, m) /\ p.st \notin {"SYN_SENT", "SYN_RCVD"}
      /\ "RST" \notin m.flags /\ "SYN" \notin m.flags
  BY DEF InputReceive
<1>2. Own(h, p) /\ p \in Pcb /\ SegOK(m) /\ m \in net /\ m.to = h
  BY <1>1, ArrivesFacts, HeldFits
<1>3. Same(m, p) /\ p.st # "TIME_WAIT" /\ Acking(m) /\ <<p.c1, p.c2>> \in made
  BY <1>1, <1>2, MatchingIds DEF SegOK, Acking, Own, Synchronised
<1>4. m.seqno \in Nat /\ m.ackno \in Nat
  BY <1>1, ArrivesFacts
<1>5. PICK b : b = Touched(p)
  OBVIOUS
<1>6. b \in Pcb /\ Alike(p, b)
  BY <1>2, <1>5, TouchedFacts
<1>7. PICK r : r = Received(b, m)
  OBVIOUS
<1>8. /\ r.pcb \in Pcb
      /\ r.pcb.st = b.st /\ r.pcb.c1 = b.c1 /\ r.pcb.c2 = b.c2 /\ r.pcb.snd_nxt = b.snd_nxt
      /\ r.pcb.rxclosed = b.rxclosed /\ r.pcb.unacked \subseteq b.unacked
      /\ r.pcb.lastack = b.lastack \/ (r.pcb.lastack = m.ackno /\ AckNew(b, m))
      /\ r.pcb.rcv_nxt = (IF FinTaken(b, m) THEN b.rcv_nxt + 1 ELSE b.rcv_nxt)
      /\ r.gotFin = FinTaken(b, m)
  BY <1>4, <1>6, <1>7, ReceivedFacts
<1>9. PICK finAcked \in BOOLEAN : finAcked = (m.ackno = p.snd_nxt)
  OBVIOUS
<1>10. PICK st : st = NextState(p.st, r.gotFin, finAcked)
  OBVIOUS
<1>11. PICK q : q = [r.pcb EXCEPT !.st = st, !.unacked = IF st = "TIME_WAIT" THEN {} ELSE @]
  OBVIOUS
<1>12. /\ pcbs' = IF st = "freed" THEN Without(h, p) ELSE Replace(h, p, q)
       /\ Answers(m, IF r.ack /\ st # "freed" THEN {EmptyAck(h, q)} ELSE {})
  BY <1>5, <1>7, <1>9, <1>10, <1>11 DEF InputReceive
<1>13. PICK out : out = IF r.ack /\ st # "freed" THEN {EmptyAck(h, q)} ELSE {}
  OBVIOUS
<1>14. Answers(m, out) /\ out \subseteq {EmptyAck(h, q)}
  BY <1>12, <1>13
<1>15. CASE st = "freed"
  <2>1. pcbs' = Without(h, p) /\ out = {}
    BY <1>12, <1>13, <1>15
  <2>2. net' \subseteq net \cup out
    BY <1>14, AnswersCarried
  <2>3. \A n \in out : Sound(h, pcbs[h] \ {p}, n)
    BY <2>1
  <2>4. Globals' /\ Growth /\ \A x \in pcbs[h] \ {p} : Fits(h, x)
    BY <1>1, QuietStep
  <2>5. QED
    BY <1>1, <2>1, <2>2, <2>3, <2>4, WithoutStep
<1>16. CASE st # "freed"
  <2>1. FinTaken(b, m) \in BOOLEAN /\ r.gotFin \in BOOLEAN /\ p.st \in States
    BY <1>2, <1>8 DEF FinTaken, Pcb
  <2>2. /\ st \in States /\ st \notin {"SYN_SENT", "SYN_RCVD"}
        /\ (st \in {"ESTABLISHED", "CLOSE_WAIT"}) = (p.st \in {"ESTABLISHED", "CLOSE_WAIT"})
        /\ st \in {"CLOSE_WAIT", "CLOSING", "LAST_ACK", "TIME_WAIT"} =>
             r.gotFin \/ p.st \in {"CLOSE_WAIT", "CLOSING", "LAST_ACK", "TIME_WAIT"}
    BY <1>1, <1>3, <1>10, <1>16, <2>1, NextStateFacts
  <2>3. /\ q \in Pcb /\ q.st = st /\ q.c1 = p.c1 /\ q.c2 = p.c2 /\ q.snd_nxt = p.snd_nxt
        /\ q.rxclosed = p.rxclosed /\ q.unacked \subseteq p.unacked
        /\ q.lastack = r.pcb.lastack /\ q.rcv_nxt = r.pcb.rcv_nxt
    <3>1. PICK u : u = IF st = "TIME_WAIT" THEN {} ELSE r.pcb.unacked
      OBVIOUS
    <3>2. /\ u \in SUBSET [flag : {"SYN", "FIN"}, seqno : Nat, c1 : Ports, c2 : Ids \cup {0}]
          /\ u \subseteq r.pcb.unacked
      BY <1>8, <3>1 DEF Pcb
    <3>3. q = [r.pcb EXCEPT !.st = st, !.unacked = u]
      BY <1>11, <3>1
    <3>4. /\ q \in Pcb /\ q.st = st /\ q.c1 = r.pcb.c1 /\ q.c2 = r.pcb.c2 /\ q.snd_nxt = r.pcb.snd_nxt
          /\ q.rxclosed = r.pcb.rxclosed /\ q.unacked = u
          /\ q.lastack = r.pcb.lastack /\ q.rcv_nxt = r.pcb.rcv_nxt
      BY <1>8, <2>2, <3>2, <3>3 DEF Pcb
    <3>5. QED
      BY <1>6, <1>8, <3>2, <3>4 DEF Alike
  <2>4. FinTaken(b, m) => /\ "FIN" \in m.flags /\ m.seqno = p.rcv_nxt
                          /\ <<Peer(h), p.c1, p.c2>> \in closed
    BY <1>2, <1>3, <1>6 DEF FinTaken, SegOK, Same, Alike
  <2>5. q.lastack = p.lastack \/ (q.lastack = m.ackno /\ AckNew(p, m))
    BY <1>6, <1>8, <2>3 DEF AckNew, Alike
  <2>6. q.rcv_nxt = p.rcv_nxt \/ (q.rcv_nxt = p.rcv_nxt + 1 /\ FinTaken(b, m))
    BY <1>6, <1>8, <2>3 DEF Alike
  <2>7. q.st \in {"CLOSE_WAIT", "CLOSING", "LAST_ACK", "TIME_WAIT"} => <<Peer(h), p.c1, p.c2>> \in closed
    BY <1>2, <1>8, <2>2, <2>3, <2>4 DEF Own
  <2>8. q.rxclosed <=> q.st \notin {"SYN_SENT", "SYN_RCVD", "ESTABLISHED", "CLOSE_WAIT"}
    BY <1>1, <1>2, <2>2, <2>3 DEF Own
  <2>9. Takes(h, p, m, q)
    BY <2>2, <2>3, <2>4, <2>5, <2>6, <2>7, <2>8 DEF Takes
  <2>10. pcbs' = Replace(h, p, q) /\ p.st # "SYN_SENT"
    BY <1>1, <1>12, <1>16
  <2>11. QED
    BY <1>1, <1>2, <1>3, <1>14, <2>9, <2>10, TakesStep
<1>17. QED
  BY <1>15, <1>16

\* No PCB of the host has the id of a segment that matches none.
LEMMA NoMatchIds ==
  ASSUME NEW h, NEW m, NoMatch(h, m)
  PROVE  \A q \in pcbs[h] : ~(q.c1 = m.c1 /\ q.c2 = m.c2)
BY DEF NoMatch, Matching, MatchingTimeWait, Matches, TimeWait, Active

LEMMA InputListenKeeps ==
  ASSUME IInv, NEW m, InputListen(m)
  PROVE  IInv'
<1>1. UNCHANGED <<status, port, made, closed>> /\ Arrives(Server, m) /\ NoMatch(Server, m)
  BY DEF InputListen
<1>2. /\ m \in net /\ m.to = Server /\ SegOK(m) /\ m.seqno \in Nat /\ m.ackno \in Nat
      /\ m.c1 \in Ports /\ m.c2 \in Ids \cup {0} /\ m.c1 < port /\ m.c2 <= serverId
  BY <1>1, ArrivesFacts, PeerIs DEF SegOK
<1>3. Globals /\ port \in Nat /\ serverId \in Nat
  BY IdFacts, ConnAssumption DEF IInv, Variables, Globals, FirstPort
<1>4. ASSUME NEW out, Answers(m, out), \A n \in out : Sound(Server, pcbs[Server], n),
             UNCHANGED <<pcbs, iss, serverId>>
      PROVE  IInv'
  <2>1. UNCHANGED <<status, iss, port, serverId, made, closed>> /\ pcbs' = pcbs
    BY <1>1, <1>4
  <2>2. Globals' /\ Growth /\ \A x \in pcbs[Server] : Fits(Server, x)
    BY <2>1, QuietStep, PeerIs
  <2>3. net' \subseteq net \cup out
    BY <1>4, AnswersCarried
  <2>4. QED
    BY <1>4, <2>1, <2>2, <2>3, SameStep, PeerIs
<1>5. CASE Answers(m, {}) /\ UNCHANGED <<pcbs, iss, serverId>>
  <2>1. PICK out : out = {}
    OBVIOUS
  <2>2. \A n \in out : Sound(Server, pcbs[Server], n)
    BY <2>1
  <2>3. QED
    BY <1>4, <1>5, <2>1, <2>2
<1>6. CASE /\ Answers(m, {Reset(Server, m.c1, m.c2, m.ackno, m.seqno + tcplen(m))})
           /\ UNCHANGED <<pcbs, iss, serverId>>
  <2>1. PICK y : y = m.seqno + tcplen(m)
    OBVIOUS
  <2>2. y \in Nat
    BY <1>2, <2>1 DEF tcplen
  <2>3. PICK out : out = {Reset(Server, m.c1, m.c2, m.ackno, y)}
    OBVIOUS
  <2>4. Globals'
    BY <1>1, <1>3, <1>6 DEF Globals
  <2>5. m.c1 < port' /\ m.c2 <= serverId'
    BY <1>1, <1>2, <1>6
  <2>6. \A q \in pcbs[Server] : ~(q.c1 = m.c1 /\ q.c2 = m.c2)
    BY <1>1, NoMatchIds
  <2>7. Sound(Server, pcbs[Server], Reset(Server, m.c1, m.c2, m.ackno, y))
    BY <1>2, <2>2, <2>4, <2>5, <2>6, ResetSound, PeerIs
  <2>8. \A n \in out : Sound(Server, pcbs[Server], n)
    BY <2>3, <2>7
  <2>9. Answers(m, out)
    BY <1>6, <2>1, <2>3
  <2>10. QED
    BY <1>4, <1>6, <2>8, <2>9
<1>7. ASSUME m.flags = {"SYN"}, NewServerId \in Ids, serverId' = NewServerId, NEW d \in IssSteps,
             LET n == iss[Server] + d
                 p == HalfOpen(m, NewServerId, n)
             IN /\ iss' = [iss EXCEPT ![Server] = n]
                /\ pcbs' = [pcbs EXCEPT ![Server] = @ \cup {p}]
                /\ Answers(m, Unacked(Server, p))
      PROVE  IInv'
  <2>1. PICK id : id = NewServerId
    OBVIOUS
  <2>2. id \in Ids /\ id \in Nat /\ id # 0 /\ serverId < id /\ serverId' = id
    BY <1>3, <1>7, <2>1, IdFacts DEF NewServerId
  <2>3. PICK n : n = iss[Server] + d
    OBVIOUS
  <2>4. n \in Nat /\ n # 0
    BY <1>3, <2>3, ConnAssumption, PeerIs DEF Globals
  <2>5. PICK b : b = [NewPcb("SYN_RCVD", m.c1, id, n) EXCEPT !.rcv_nxt = m.seqno + 1]
    OBVIOUS
  <2>6. /\ b \in Pcb /\ b.st = "SYN_RCVD" /\ b.c1 = m.c1 /\ b.c2 = id /\ b.unacked = {}
        /\ b.lastack = n /\ b.rcv_nxt = m.seqno + 1 /\ b.rxclosed = FALSE
    <3>1. b \in Pcb
      <4>1. m.seqno + 1 \in Nat /\ "SYN_RCVD" \in States /\ id \in Ids \cup {0}
        BY <1>2, <2>2 DEF States
      <4>2. QED
        BY <1>2, <2>4, <2>5, <4>1, NewPcbFacts
    <3>2. QED
      BY <2>5, <3>1 DEF NewPcb
  <2>7. PICK p : p = Enqueue(b, "SYN", n)
    OBVIOUS
  <2>8. PICK u : u = [flag |-> "SYN", seqno |-> n, c1 |-> b.c1, c2 |-> b.c2]
    OBVIOUS
  <2>9. /\ p \in Pcb /\ p.unacked = {u} /\ p.st = "SYN_RCVD" /\ p.c1 = m.c1 /\ p.c2 = id
        /\ p.snd_nxt = n + 1 /\ p.lastack = n /\ p.rcv_nxt = m.seqno + 1 /\ p.rxclosed = FALSE
    <3>1. /\ p \in Pcb /\ p.unacked = b.unacked \cup {u}
          /\ p.st = b.st /\ p.c1 = b.c1 /\ p.c2 = b.c2 /\ p.snd_nxt = n + 1
          /\ p.lastack = b.lastack /\ p.rcv_nxt = b.rcv_nxt /\ p.rxclosed = b.rxclosed
      BY <2>4, <2>6, <2>7, <2>8, EnqueueFacts
    <3>2. QED
      BY <2>6, <3>1
  <2>10. PICK P : P = pcbs[Server] \cup {p}
    OBVIOUS
  <2>11. PICK out : out = Unacked(Server, p)
    OBVIOUS
  <2>12. p = HalfOpen(m, NewServerId, n)
    BY <2>1, <2>5, <2>7 DEF HalfOpen
  <2>13. /\ iss' = [iss EXCEPT ![Server] = n] /\ pcbs' = [pcbs EXCEPT ![Server] = P]
         /\ Answers(m, out)
    BY <1>7, <2>3, <2>10, <2>11, <2>12
  <2>14. Globals' /\ Growth
    <3>1. iss' \in [Hosts -> Nat \ {0}]
      BY <1>3, <2>4, <2>13, PeerIs DEF Globals
    <3>2. QED
      BY <1>1, <1>3, <2>2, <3>1 DEF Globals, Growth
  <2>15. Iss(p) = n
    BY <2>4, <2>9 DEF Iss
  <2>16. Own(Server, p)'
    <3>1. p.c1 < port' /\ p.c2 <= serverId'
      BY <1>1, <1>2, <2>2, <2>9
    <3>2. 0 <= Iss(p) /\ Iss(p) <= p.lastack /\ p.lastack <= p.snd_nxt
      BY <2>4, <2>9, <2>15
    <3>3. \A s \in p.unacked :
            /\ s.c1 = p.c1
            /\ s.flag = "SYN" => s.seqno = Iss(p) /\ s.c2 = (IF Server = Client THEN 0 ELSE p.c2)
            /\ s.flag = "FIN" => s.seqno = Iss(p) + 1 /\ s.c2 = p.c2 /\ p.rxclosed
      BY <2>6, <2>8, <2>9, <2>15, PeerIs
    <3>4. QED
      BY <2>2, <2>9, <2>15, <3>1, <3>2, <3>3, PeerIs DEF Own, Synchronised
  <2>17. Fits(Server, p)
    <3>1. ASSUME NEW r \in pcbs[Peer(Server)] PROVE Paired(Server, p, r)
      <4>1. Own(Client, r) /\ SegFrom(m, r)
        BY <1>2, <3>1, HeldFits, PeerIs
      <4>2. r.c2 \in Nat /\ r.c2 # id
        <5>1. r.c2 \in Ids \cup {0} /\ r.c2 <= serverId
          BY <4>1 DEF Own, Pcb
        <5>2. r.c2 \in Nat
          BY <5>1, IdFacts
        <5>3. QED
          BY <1>3, <2>2, <5>1, <5>2
      <4>3. r.c1 = m.c1 => m.seqno = Iss(r)
        BY <1>2, <1>7, <4>1 DEF SegFrom
      <4>4. r.snd_nxt \in Nat /\ Iss(r) \in Nat /\ Iss(r) < r.snd_nxt
        BY <1>3, <4>1, OwnIds, PeerIs
      <4>5. Pair(r, p)
        BY <2>9, <4>2, <4>3, <4>4 DEF Pair, Between
      <4>6. QED
        BY <4>5, PeerIs DEF Paired
    <3>2. ASSUME NEW s \in net PROVE SegTo(s, p) /\ (s.to = Client => SegFrom(s, p))
      <4>1. SegOK(s)
        BY DEF IInv, NetOK
      <4>2. s.c2 # id
        <5>1. s.c2 \in Ids \cup {0} /\ s.c2 <= serverId
          BY <4>1 DEF SegOK
        <5>2. QED
          BY <1>3, <2>2, <5>1, IdFacts
      <4>3. QED
        BY <2>2, <2>9, <4>2, PeerIs DEF SegTo, SegFrom, Same
    <3>3. QED
      BY <2>16, <3>1, <3>2, PeerIs DEF Fits
  <2>18. ASSUME NEW q \in pcbs[Server] PROVE Fits(Server, q) /\ q.c2 # p.c2
    <3>1. Own(Server, q)
      BY HeldFits, PeerIs
    <3>2. q.c2 # p.c2
      <4>1. q.c2 \in Ids \cup {0} /\ q.c2 <= serverId
        BY <3>1 DEF Own, Pcb
      <4>2. QED
        BY <1>3, <2>2, <2>9, <4>1, IdFacts
    <3>3. QED
      BY <2>14, <3>2, KeptFits, PeerIs
  <2>19. Unique(Server, P)
    <3>1. Unique(Server, pcbs[Server])
      BY PeerIs DEF IInv, IdsUnique
    <3>2. QED
      BY <2>10, <2>18, <3>1, PeerIs DEF Unique, SameId
  <2>20. \A s \in out : Sound(Server, P, s)
    BY <2>10, <2>11, <2>14, <2>17, <2>19, OutputSound, PeerIs DEF Unacked
  <2>21. net' \subseteq net \cup out /\ \A q \in P : Fits(Server, q)
    BY <2>10, <2>13, <2>17, <2>18, AnswersCarried
  <2>22. QED
    BY <1>1, <2>13, <2>14, <2>19, <2>20, <2>21, HostStep, PeerIs
<1>8. QED
  BY <1>5, <1>6, <1>7 DEF InputListen

\* tcp_slowtmr keeps the counters of a PCB within their limits.
LEMMA TickedFacts ==
  ASSUME NEW p \in Pcb, NEW o, o = Older(p)
  PROVE  /\ o \in Pcb /\ Alike(p, o)
         /\ ~Removed(o) => Ticked(o) \in Pcb /\ Alike(p, Ticked(o))
<1>1. PICK a : a = Min({p.age + 1, MaxAge})
  OBVIOUS
<1>2. a \in 0..MaxAge
  BY <1>1, AgeFacts DEF Pcb
<1>3. o = [p EXCEPT !.age = a]
  BY <1>1 DEF Older
<1>4. o \in Pcb /\ Alike(p, o)
  BY <1>2, <1>3 DEF Pcb, Alike
<1>5. ASSUME ~Removed(o) PROVE Ticked(o) \in Pcb /\ Alike(p, Ticked(o))
  <2>1. PICK n : n = IF Retransmits(o) THEN o.nrtx + 1 ELSE o.nrtx
    OBVIOUS
  <2>2. n \in 0..TCP_MAXRTX
    <3>1. o.nrtx \in 0..TCP_MAXRTX /\ TCP_MAXRTX \in Nat
      BY <1>4, ConnAssumption DEF Pcb
    <3>2. Retransmits(o) => o.nrtx # TCP_MAXRTX
      BY DEF Retransmits, GivenUp
    <3>3. QED
      BY <2>1, <3>1, <3>2
  <2>3. PICK k : k = IF Probes(o) THEN o.keep + 1 ELSE o.keep
    OBVIOUS
  <2>4. k \in 0..(KEEP_DUR + 1)
    <3>1. /\ o.keep \in 0..(KEEP_DUR + 1) /\ o.age \in Nat
          /\ KEEP_DUR \in Nat /\ KEEP_IDLE \in Nat /\ KEEP_INTVL \in Nat /\ KEEP_INTVL # 0
      BY <1>4, ConnAssumption, AgeFacts DEF Pcb
    <3>2. Probes(o) => o.age <= KEEP_IDLE + KEEP_DUR /\ o.age > KEEP_IDLE + o.keep * KEEP_INTVL
      BY <3>1 DEF Probes, IdleTooLong
    <3>3. o.keep * KEEP_INTVL \in Nat /\ o.keep * KEEP_INTVL >= o.keep
      <4>1. PICK x \in Nat, y \in Nat : x = o.keep /\ KEEP_INTVL = y + 1
        <5>1. o.keep \in Nat /\ KEEP_INTVL - 1 \in Nat /\ KEEP_INTVL = (KEEP_INTVL - 1) + 1
          BY <3>1
        <5>2. QED
          BY <5>1
      <4>2. x * y \in Nat /\ x * (y + 1) = x * y + x
        OBVIOUS
      <4>3. QED
        BY <4>1, <4>2
    <3>4. Probes(o) => o.keep < KEEP_DUR
      <4>1. PICK x \in Nat : x = o.keep * KEEP_INTVL
        BY <3>3
      <4>2. QED
        BY <3>1, <3>2, <3>3, <4>1
    <3>5. QED
      BY <2>3, <3>1, <3>4
  <2>5. Ticked(o) = [o EXCEPT !.nrtx = n, !.keep = k]
    BY <2>1, <2>3 DEF Ticked
  <2>6. QED
    BY <1>4, <2>2, <2>4, <2>5 DEF Pcb, Alike
<1>6. QED
  BY <1>4, <1>5

LEMMA SlowtmrKeeps ==
  ASSUME IInv, NEW h \in Hosts, tcp_slowtmr(h)
  PROVE  IInv'
<1>1. UNCHANGED <<status, iss, port, serverId, made, closed>>
  BY DEF tcp_slowtmr
<1>2. PICK old : old = {Older(p) : p \in pcbs[h]}
  OBVIOUS
<1>3. PICK P : P = {Ticked(o) : o \in {q \in old : ~Removed(q)}}
  OBVIOUS
<1>4. PICK out : out = UNION {TickSends(h, o) : o \in old}
  OBVIOUS
<1>5. pcbs' = [pcbs EXCEPT ![h] = P] /\ Sends(out)
  BY <1>2, <1>3, <1>4 DEF tcp_slowtmr
<1>6. net' \subseteq net \cup out
  BY <1>5, CarriedIsSubset DEF Sends
<1>7. Globals' /\ Growth
  BY <1>1, QuietStep
<1>8. ASSUME NEW p \in pcbs[h], NEW o, o = Older(p)
      PROVE  /\ p \in Pcb /\ o \in Pcb /\ Alike(p, o)
             /\ ~Removed(o) => Ticked(o) \in Pcb /\ Alike(p, Ticked(o)) /\ Fits(h, Ticked(o))
  BY <1>1, <1>8, HeldFits, TickedFacts, QuietStep
<1>9. ASSUME NEW q \in P
      PROVE  \E p \in pcbs[h] : ~Removed(Older(p)) /\ q = Ticked(Older(p)) /\ Alike(p, q) /\ Fits(h, q)
  <2>1. PICK p \in pcbs[h] : ~Removed(Older(p)) /\ q = Ticked(Older(p))
    BY <1>2, <1>3
  <2>2. PICK o : o = Older(p)
    OBVIOUS
  <2>3. Alike(p, q) /\ Fits(h, q)
    BY <1>8, <2>1, <2>2
  <2>4. QED
    BY <2>1, <2>3
<1>10. \A q \in P : Fits(h, q)
  BY <1>9
<1>11. Unique(h, P)
  <2>1. ASSUME NEW x \in P, NEW y \in P, SameId(h, x, y) PROVE x = y
    <3>1. PICK p \in pcbs[h] : x = Ticked(Older(p)) /\ Alike(p, x)
      BY <1>9
    <3>2. PICK q \in pcbs[h] : y = Ticked(Older(q)) /\ Alike(q, y)
      BY <1>9
    <3>3. SameId(h, p, q)
      BY <2>1, <3>1, <3>2 DEF SameId, Alike
    <3>4. p = q
      BY <3>3 DEF IInv, IdsUnique, Unique
    <3>5. QED
      BY <3>1, <3>2, <3>4
  <2>2. QED
    BY <2>1 DEF Unique
<1>12. ASSUME NEW m \in out PROVE Sound(h, P, m)
  <2>1. PICK p \in pcbs[h] : m \in TickSends(h, Older(p))
    BY <1>2, <1>4
  <2>2. PICK o : o = Older(p)
    OBVIOUS
  <2>3. o \in Pcb /\ Alike(p, o) /\ Own(h, p) /\ p \in Pcb
    BY <1>8, <2>2, HeldFits
  <2>4. PICK q : /\ q \in P \cup pcbs[h] /\ Alike(p, q) /\ Fits(h, q) /\ Sole(h, P, q)
    <3>1. CASE ~Removed(o)
      <4>1. Ticked(o) \in P /\ Alike(p, Ticked(o)) /\ Fits(h, Ticked(o))
        BY <1>2, <1>3, <1>8, <2>2, <3>1
      <4>2. QED
        BY <1>11, <4>1, SenderSole
    <3>2. CASE Removed(o)
      <4>1. ASSUME NEW x \in P, SameId(h, x, p) PROVE FALSE
        <5>1. PICK y \in pcbs[h] : ~Removed(Older(y)) /\ Alike(y, x)
          BY <1>9
        <5>2. SameId(h, y, p)
          BY <4>1, <5>1 DEF SameId, Alike
        <5>3. y = p
          BY <5>2 DEF IInv, IdsUnique, Unique
        <5>4. QED
          BY <2>2, <3>2, <5>1, <5>3
      <4>2. Sole(h, P, p)
        BY <4>1, PeerIs DEF Sole, SameId
      <4>3. Fits(h, p) /\ Alike(p, p)
        BY <1>1, QuietStep DEF Alike
      <4>4. QED
        BY <4>2, <4>3
    <3>3. QED
      BY <3>1, <3>2
  <2>5. CASE m \in Unacked(h, o)
    <3>1. PICK s \in o.unacked : m = OutputSegment(h, o, s)
      BY <2>5 DEF Unacked
    <3>2. m = OutputSegment(h, q, s) /\ s \in q.unacked
      BY <2>3, <2>4, <3>1 DEF OutputSegment, Alike
    <3>3. QED
      BY <1>7, <2>4, <3>2, OutputSoundOf
  <2>6. CASE Probes(o) /\ m = Keepalive(h, o)
    <3>1. PICK n : n = q.snd_nxt - 1
      OBVIOUS
    <3>2. q.st # "SYN_SENT" /\ n \in Nat
      <4>1. q.st = o.st /\ q.snd_nxt = p.snd_nxt
        BY <2>3, <2>4 DEF Alike
      <4>2. o.st # "SYN_SENT"
        BY <2>6 DEF Probes
      <4>3. Iss(p) \in Nat /\ Iss(p) < p.snd_nxt /\ p.snd_nxt \in Nat
        BY <2>3, OwnIds DEF IInv, Variables
      <4>4. QED
        BY <3>1, <4>1, <4>2, <4>3
    <3>3. m = Segment(h, q.c1, q.c2, {"ACK"}, n, q.rcv_nxt)
      BY <2>3, <2>4, <2>6, <3>1 DEF Keepalive, Alike
    <3>4. Sound(h, P, Segment(h, q.c1, q.c2, {"ACK"}, n, q.rcv_nxt))
      BY <1>7, <2>4, <3>2, AckSoundOf
    <3>5. QED
      BY <3>3, <3>4
  <2>7. CASE IdleTooLong(o) /\ m = Reset(h, o.c1, o.c2, o.snd_nxt, o.rcv_nxt)
    <3>1. m = Reset(h, p.c1, p.c2, p.snd_nxt, p.rcv_nxt)
      BY <2>3, <2>7 DEF Alike
    <3>2. ASSUME NEW x \in P PROVE ~(x.c1 = p.c1 /\ x.c2 = p.c2)
      <4>1. PICK y \in pcbs[h] : ~Removed(Older(y)) /\ Alike(y, x)
        BY <1>9
      <4>2. y # p
        BY <2>2, <2>7, <4>1 DEF Removed
      <4>3. ~(y.c1 = p.c1 /\ y.c2 = p.c2)
        BY <4>2, OthersDiffer
      <4>4. QED
        BY <4>1, <4>3 DEF Alike
    <3>3. QED
      BY <1>1, <3>1, <3>2, FreedResetSound
  <2>8. QED
    BY <2>1, <2>2, <2>5, <2>6, <2>7 DEF TickSends
<1>13. QED
  BY <1>1, <1>5, <1>6, <1>7, <1>10, <1>11, <1>12, HostStep

LEMMA NextIInv == IInv /\ [Next]_vars => IInv'
<1>1. SUFFICES ASSUME IInv, [Next]_vars PROVE IInv'
  OBVIOUS
<1>2. CASE tcp_connect
  BY <1>1, <1>2, ConnectKeeps
<1>3. ASSUME NEW h \in Hosts, NEW p \in pcbs[h], tcp_close(h, p) \/ tcp_abort(h, p) PROVE IInv'
  BY <1>1, <1>3, CloseKeeps, AbortKeeps
<1>4. ASSUME NEW h \in Hosts, NEW m \in net, Input(h, m) PROVE IInv'
  <2>1. ASSUME NEW p \in pcbs[h],
               \/ InputReset(h, p, m) \/ InputStraySyn(h, p, m) \/ InputSynSent(h, p, m)
               \/ InputSynRcvd(h, p, m) \/ InputReceive(h, p, m) \/ InputTimeWait(h, p, m)
        PROVE  IInv'
    BY <1>1, <2>1, InputResetKeeps, InputStraySynKeeps, InputSynSentKeeps, InputSynRcvdKeeps,
       InputReceiveKeeps, InputTimeWaitKeeps
  <2>2. CASE InputListen(m) \/ InputNoMatch(m)
    BY <1>1, <2>2, InputListenKeeps, InputNoMatchKeeps
  <2>3. QED
    BY <1>4, <2>1, <2>2 DEF Input
<1>5. ASSUME NEW h \in Hosts, tcp_slowtmr(h) PROVE IInv'
  BY <1>1, <1>5, SlowtmrKeeps
<1>6. CASE Crash
  BY <1>1, <1>6, CrashKeeps
<1>7. CASE UNCHANGED vars
  <2>1. /\ UNCHANGED <<status, iss, port, serverId, made, closed>> /\ pcbs' = pcbs /\ net' = net
    BY <1>7 DEF vars
  <2>2. QED
    BY <1>1, <2>1 DEF IInv, Variables, Globals, PcbsOK, Own, PairsOK, NetOK, SegOK, TwinsOK, IdsUnique
<1>8. QED
  BY <1>1, <1>2, <1>3, <1>4, <1>5, <1>6, <1>7 DEF Next

LEMMA SpecIInv == Spec => []IInv
  BY InitIInv, NextIInv, PTL DEF Spec

----------------------------------------------------------------------------
(***************************************************************************)
(* The properties.                                                         *)
(***************************************************************************)
\* Every variable has its type.
THEOREM ConnTypes == Spec => []TypeOK
<1>1. ASSUME IInv PROVE TypeOK
  <2>1. Globals /\ \A h \in Hosts : pcbs[h] \subseteq Pcb
    BY <1>1 DEF IInv, Variables
  <2>2. \A m \in net : /\ m.to \in Hosts /\ m.c1 \in Ports /\ m.c2 \in Ids \cup {0}
                       /\ m.flags \subseteq Flags /\ m.seqno \in Nat /\ m.ackno \in Nat
    BY <1>1 DEF IInv, NetOK, SegOK
  <2>3. iss \in [Hosts -> Nat]
    BY <2>1 DEF Globals
  <2>4. QED
    BY <2>1, <2>2, <2>3 DEF TypeOK, Globals
<1>2. QED
  BY <1>1, SpecIInv, PTL

\* The server's application is handed only connections the client's knows of.
THEOREM ConnNoGhostAccept == Spec => []NoGhostAccept
<1>1. ASSUME IInv PROVE NoGhostAccept
  BY <1>1, HeldFits, PeerIs DEF NoGhostAccept, Own
<1>2. QED
  BY <1>1, SpecIInv, PTL

\* The end of the stream is reported only when the other application closed.
THEOREM ConnEofHonest == Spec => []EofHonest
<1>1. ASSUME IInv PROVE EofHonest
  BY <1>1, HeldFits DEF EofHonest, Own
<1>2. QED
  BY <1>1, SpecIInv, PTL

\* The two ends agree on the sequence numbers of their connection.
THEOREM ConnAgreed == Spec => []Agreed
<1>1. ASSUME IInv, NEW h \in Hosts, NEW p \in pcbs[h], NEW q \in pcbs[Peer(h)],
             p.c1 = q.c1, p.c2 = q.c2
      PROVE  Between(p.rcv_nxt, q.lastack, q.snd_nxt)
  <2>1. Paired(h, p, q)
    BY <1>1, HeldFits
  <2>2. QED
    BY <1>1, <2>1 DEF Paired, Pair, Between
<1>2. IInv => Agreed
  BY <1>1 DEF Agreed
<1>3. QED
  BY <1>2, SpecIInv, PTL

\* A reset ends a connection only when the other end has given it up.
THEOREM ConnResetHonest == Spec => ResetHonest
<1>1. ASSUME IInv, NEW h \in Hosts, NEW p \in pcbs[h], NEW m \in net,
             InputReset(h, p, m), Acceptable(p, m), Synchronised(p),
             NEW q \in pcbs[Peer(h)], q.c1 = p.c1, q.c2 = p.c2
      PROVE  FALSE
  <2>1. Arrives(h, m) /\ p \in Matching(h, m) /\ "RST" \in m.flags
    BY <1>1 DEF InputReset
  <2>2. Same(m, p) /\ p.c2 # 0
    <3>1. Globals /\ Own(h, p) /\ p.st # "SYN_SENT"
      BY <1>1, HeldFits DEF IInv, Variables, Synchronised
    <3>2. p.c2 # 0
      BY <1>1, <3>1, OwnIds
    <3>3. QED
      BY <2>1, <3>1, <3>2, MatchingIds
  <2>3. SegFrom(m, q)
    BY <1>1, <2>1, ArrivesFacts, HeldFits, PeerIs
  <2>4. QED
    BY <1>1, <2>1, <2>2, <2>3 DEF SegFrom, Same
<1>2. IInv => \A h \in Hosts : \A p \in pcbs[h], m \in net :
                (InputReset(h, p, m) /\ Acceptable(p, m) /\ Synchronised(p))
                   => ~\E q \in pcbs[Peer(h)] : q.c1 = p.c1 /\ q.c2 = p.c2
  BY <1>1
<1>3. QED
  BY <1>2, SpecIInv, PTL DEF ResetHonest
=============================================================================
