-------------------------------- MODULE Pbuf --------------------------------
(***************************************************************************)
(* Packet buffers: pbuf.c, over the pools of memp.c and the heap.  A pbuf  *)
(* is a node of a singly linked chain with a reference count; tot_len is   *)
(* the length of the chain from here on.  Two kinds of code hold           *)
(* references: callers (held counts theirs) and the out-of-sequence queues *)
(* of the PCBs (ooseq, at most one segment each), which the stack itself   *)
(* drops when the pool runs empty.                                         *)
(*                                                                         *)
(* Callers follow the notes of pbuf.c: they pass pbufs they hold, build    *)
(* and change packets through the first pbuf of a chain, never chain a     *)
(* pbuf twice, and forget the tail they gave to pbuf_cat.  Payload bytes   *)
(* are known by their address: <<p, j>> is byte j of the memory of p.      *)
(***************************************************************************)
EXTENDS Integers, Sequences, FiniteSets, Functions

CONSTANTS
  POOL,                \* the elements of MEMP_PBUF_POOL
  HEAP,                \* what MEMP_PBUF and mem_malloc can hand out
  NULL,
  PBUF_POOL_BUFSIZE,   \* payload bytes of a pool pbuf
  HLEN,                \* PBUF_TRANSPORT_HLEN
  U16,                 \* number of values of a u16_t
  LWIP_WND_SCALE,      \* may a packet grow past 64K?
  PCBS,                \* PCBs on tcp_active_pcbs, in that order: 1 .. PCBS
  Lengths,             \* lengths passed to pbuf_alloc and pbuf_realloc
  MaxHeld,             \* bound: references callers hold, all together
  MaxLen               \* bound: bytes of a packet callers build

ASSUME PbufAssumption ==
  /\ POOL \cap HEAP = {} /\ NULL \notin POOL \cup HEAP
  /\ IsFiniteSet(POOL) /\ IsFiniteSet(HEAP)
  /\ {HLEN, PCBS, MaxHeld, MaxLen} \subseteq Nat
  /\ PBUF_POOL_BUFSIZE \in Nat /\ PBUF_POOL_BUFSIZE > HLEN
  /\ U16 \in Nat \ {0} /\ U16 > PBUF_POOL_BUFSIZE
  /\ Lengths \subseteq 0 .. U16 - 1
  /\ LWIP_WND_SCALE \in BOOLEAN /\ ~LWIP_WND_SCALE => MaxLen < U16

VARIABLES
  mem,       \* the pbufs in use, by address; NULL is a free one
  held,      \* references held by callers
  ooseq,     \* the segment queued out of sequence on each PCB, or NULL
  pending    \* pbuf_free_ooseq_pending

vars == <<mem, held, ooseq, pending>>

Addr == POOL \cup HEAP

\* room is what pbuf_header can reveal: payload minus the start of the memory.
PbufRecord == [type : {"RAM", "ROM", "REF", "POOL"}, next : Addr \cup {NULL},
               len : 0 .. U16 - 1, tot_len : 0 .. U16 - 1, ref : Nat, room : Nat]

ASSUME NullAssumption == NULL \notin PbufRecord

Used == {p \in Addr : mem[p] # NULL}

LWIP_MIN(a, b) == IF a < b THEN a ELSE b

\* Mutant: the total is not cut to 16 bits.
Add16Wide(a, b) == a + b

\* u16_t arithmetic
Add16(a, b) == (a + b) % U16
Sub16(a, b) == (a - b) % U16

\* The pbufs of the chain that starts at p.
Chain(p) ==
  LET walk[k \in 0 .. Cardinality(Addr)] ==
        IF k = 0 THEN <<p>>
        ELSE LET c == walk[k - 1]
                 n == mem[c[Len(c)]].next
             IN  IF n = NULL THEN c ELSE Append(c, n)
  IN  walk[Cardinality(Addr)]

Predecessors(p) == {q \in Used : mem[q].next = p}

\* The length of the first k pbufs of chain c, as a number and not a u16_t.
LenUpTo(c, k) ==
  LET sum[i \in 0 .. k] == IF i = 0 THEN 0 ELSE sum[i - 1] + mem[c[i]].len
  IN  sum[k]

RealLen(p) == LenUpTo(Chain(p), Len(Chain(p)))

MayHold == SumFunction(held) < MaxHeld

\* pbuf_copy takes a pbuf with len = tot_len for the end of a packet.
LooksLikeQueue(p) ==
  LET c == Chain(p)
  IN  \E i \in 1 .. Len(c) - 1 : mem[c[i]].len = mem[c[i]].tot_len

\* A packet callers may build on or change: they hold its first pbuf.
Packet(p) == p \in Used /\ held[p] > 0 /\ Predecessors(p) = {}

Whole(p) == Packet(p) /\ RealLen(p) < U16

-----------------------------------------------------------------------------
(***************************************************************************)
(* pbuf_free: de-allocate the pbufs at the head of the chain whose count   *)
(* drops to zero, and stop at the first that is still referenced.          *)
(***************************************************************************)
\* Mutant: the pbuf the walk stops at keeps its count.
FreedStopsEarly(m, c, k) ==
  [q \in Addr |-> IF q \in Range(SubSeq(c, 1, k)) THEN NULL ELSE m[q]]

Freed(m, c, k) ==
  [q \in Addr |->
     IF q \in Range(SubSeq(c, 1, k)) THEN NULL
     ELSE IF k < Len(c) /\ q = c[k + 1] THEN [m[q] EXCEPT !.ref = @ - 1]
     ELSE m[q]]

\* k is the number of pbufs that go.
FreeCount(m, c, k) ==
  /\ k \in 0 .. Len(c)
  /\ \A i \in 1 .. k : m[c[i]].ref = 1
  /\ k < Len(c) => m[c[k + 1]].ref # 1

PbufFree(m, c) == Freed(m, c, CHOOSE k \in 0 .. Len(c) : FreeCount(m, c, k))

pbuf_free(p) ==
  /\ p \in Used /\ held[p] > 0
  /\ mem' = PbufFree(mem, Chain(p))
  /\ held' = [held EXCEPT ![p] = @ - 1]
  /\ UNCHANGED <<ooseq, pending>>

pbuf_ref(p) ==
  /\ p \in Used /\ held[p] > 0 /\ MayHold
  /\ mem' = [mem EXCEPT ![p].ref = @ + 1]
  /\ held' = [held EXCEPT ![p] = @ + 1]
  /\ UNCHANGED <<ooseq, pending>>

-----------------------------------------------------------------------------
(***************************************************************************)
(* pbuf_alloc.  RAM, ROM and REF pbufs are one pbuf; POOL pbufs a chain,   *)
(* the first of them shortened by the header room.  When the pool runs     *)
(* empty half way, what was taken is given back and a reclaim requested.   *)
(***************************************************************************)
HeaderRoom(layer) == IF layer = "TRANSPORT" THEN HLEN ELSE 0

Alloc(type, next, len, tot, room) ==
  [type |-> type, next |-> next, len |-> len, tot_len |-> tot, ref |-> 1,
   room |-> room]

Hold(p) == held' = [held EXCEPT ![p] = 1]

AllocSingle(type, layer, length) ==
  /\ MayHold
  /\ \E p \in HEAP \ Used :
       /\ mem' = [mem EXCEPT ![p] =
                    Alloc(type, NULL, length, length,
                          IF type = "RAM" THEN HeaderRoom(layer) ELSE 0)]
       /\ Hold(p)
  /\ UNCHANGED <<ooseq, pending>>

AllocSingleFails ==
  /\ HEAP \subseteq Used
  /\ UNCHANGED vars

\* What pbuf i of a pool chain holds of a packet of length bytes.
Before(i, room) == IF i = 1 THEN 0 ELSE (i - 1) * PBUF_POOL_BUFSIZE - room

PoolNeeds(length, room) ==
  CHOOSE n \in 1 .. length + 1 :
    /\ length <= Before(n + 1, room)
    /\ n = 1 \/ Before(n, room) < length

AllocPool(layer, length) ==
  LET room == HeaderRoom(layer)
      n == PoolNeeds(length, room)
  IN  /\ MayHold
      /\ \E f \in [1 .. n -> POOL \ Used] :
           /\ \A i, j \in 1 .. n : f[i] = f[j] => i = j
           /\ mem' = [q \in Addr |->
                IF \E i \in 1 .. n : f[i] = q
                  THEN LET i == CHOOSE j \in 1 .. n : f[j] = q
                           r == IF i = 1 THEN room ELSE 0
                           left == length - Before(i, room)
                       IN  Alloc("POOL", IF i < n THEN f[i + 1] ELSE NULL,
                                 LWIP_MIN(left, PBUF_POOL_BUFSIZE - r), left, r)
                  ELSE mem[q]]
           /\ Hold(f[1])
      /\ UNCHANGED <<ooseq, pending>>

\* PBUF_POOL_IS_EMPTY
AllocPoolFails(layer, length) ==
  /\ Cardinality(POOL \ Used) < PoolNeeds(length, HeaderRoom(layer))
  /\ pending' = TRUE
  /\ UNCHANGED <<mem, held, ooseq>>

-----------------------------------------------------------------------------
(***************************************************************************)
(* pbuf_realloc shrinks a packet: the pbufs up to the new last one keep    *)
(* their bytes, the rest of the chain is freed.                            *)
(***************************************************************************)
\* c[k] is the new last pbuf of chain c.
NewLast(c, new_len, k) ==
  /\ k = 1 \/ new_len > LenUpTo(c, k - 1)
  /\ new_len <= LenUpTo(c, k)

pbuf_realloc(p, new_len) ==
  LET c == Chain(p)
      grow == new_len - mem[p].tot_len
  IN  /\ Whole(p) /\ new_len < mem[p].tot_len
      /\ \E k \in 1 .. Len(c) :
           LET rem == new_len - LenUpTo(c, k - 1)
               m == [q \in Addr |->
                       IF q \in Range(SubSeq(c, 1, k - 1))
                         THEN [mem[q] EXCEPT !.tot_len = Add16(@, grow)]
                       ELSE IF q = c[k]
                         THEN [mem[q] EXCEPT !.len = rem, !.tot_len = rem, !.next = NULL]
                       ELSE mem[q]]
           IN  /\ NewLast(c, new_len, k)
               /\ mem' = IF k < Len(c) THEN PbufFree(m, SubSeq(c, k + 1, Len(c))) ELSE m
      /\ UNCHANGED <<held, ooseq, pending>>

\* pbuf_header and pbuf_header_force: move the payload of one pbuf by inc.
HeaderFails(p, inc, force) ==
  \/ inc < 0 /\ -inc > mem[p].len
  \/ inc > 0 /\ IF mem[p].type \in {"RAM", "POOL"} THEN inc > mem[p].room ELSE ~force

\* An external payload has no front the stack knows of: room stays.
pbuf_header(p, inc, force) ==
  /\ Whole(p)
  /\ ~HeaderFails(p, inc, force) /\ RealLen(p) + inc <= MaxLen
  /\ mem' = [mem EXCEPT
               ![p].room = IF mem[p].type \in {"RAM", "POOL"} THEN @ - inc ELSE @,
               ![p].len = Add16(@, inc), ![p].tot_len = Add16(@, inc)]
  /\ UNCHANGED <<held, ooseq, pending>>

-----------------------------------------------------------------------------
(***************************************************************************)
(* pbuf_cat and pbuf_chain append t to h; pbuf_cat takes the caller's      *)
(* reference to t, pbuf_chain adds one of its own.                         *)
(***************************************************************************)
\* Mutant: only the first pbuf learns the new total.
CatHeadOnly(h, t) ==
  LET c == Chain(h)
  IN  [mem EXCEPT ![h].tot_len = Add16(@, mem[t].tot_len), ![c[Len(c)]].next = t]

Cat(h, t) ==
  LET c == Chain(h)
  IN  [q \in Addr |->
         IF q \notin Range(c) THEN mem[q]
         ELSE [mem[q] EXCEPT !.tot_len = Add16(@, mem[t].tot_len),
                             !.next = IF q = c[Len(c)] THEN t ELSE @]]

MayCat(h, t) ==
  /\ Packet(h) /\ Packet(t) /\ h # t
  /\ RealLen(h) + RealLen(t) <= MaxLen

pbuf_cat(h, t) ==
  /\ MayCat(h, t)
  /\ mem' = Cat(h, t)
  /\ held' = [held EXCEPT ![t] = @ - 1]
  /\ UNCHANGED <<ooseq, pending>>

pbuf_chain(h, t) ==
  /\ MayCat(h, t)
  /\ mem' = [Cat(h, t) EXCEPT ![t].ref = @ + 1]
  /\ UNCHANGED <<held, ooseq, pending>>

\* pbuf_dechain drops p's reference to the rest of the chain.
pbuf_dechain(p) ==
  LET q == mem[p].next
      m == [mem EXCEPT ![q].tot_len = Sub16(mem[p].tot_len, mem[p].len),
                       ![p].next = NULL, ![p].tot_len = mem[p].len]
  IN  /\ Whole(p) /\ q # NULL
      /\ mem' = PbufFree(m, Chain(q))
      /\ UNCHANGED <<held, ooseq, pending>>

(***************************************************************************)
(* pbuf_split_64k cuts a packet before the pbuf that would make the u16_t  *)
(* total overflow; the caller gets the rest and its reference.             *)
(***************************************************************************)
\* Mutant: one pbuf too many stays in front.
SplitAtLate(c, k) ==
  /\ \A i \in 2 .. k - 1 : Add16(LenUpTo(c, i - 1), mem[c[i]].len) > LenUpTo(c, i - 1)
  /\ k < Len(c) => Add16(LenUpTo(c, k - 1), mem[c[k]].len) <= LenUpTo(c, k - 1)

\* The loop stops after the first k pbufs of chain c.
SplitAt(c, k) ==
  /\ \A i \in 2 .. k : Add16(LenUpTo(c, i - 1), mem[c[i]].len) > LenUpTo(c, i - 1)
  /\ k < Len(c) => Add16(LenUpTo(c, k), mem[c[k + 1]].len) <= LenUpTo(c, k)

pbuf_split_64k(p) ==
  LET c == Chain(p)
  IN  /\ LWIP_WND_SCALE /\ Packet(p) /\ Len(c) > 1
      /\ \E k \in 1 .. Len(c) - 1 :
           LET r == c[k + 1]
           IN  /\ SplitAt(c, k) /\ MayHold
               /\ mem' = [q \in Addr |->
                    IF q \notin Range(SubSeq(c, 1, k)) THEN mem[q]
                    ELSE [mem[q] EXCEPT !.tot_len = Sub16(@, mem[r].tot_len),
                                        !.next = IF q = c[k] THEN NULL ELSE @]]
               /\ held' = [held EXCEPT ![r] = @ + 1]
      /\ UNCHANGED <<ooseq, pending>>

\* pbuf_coalesce: one RAM pbuf for a whole chain; the chain is freed.
pbuf_coalesce(p, layer) ==
  LET q == CHOOSE a \in HEAP : a \notin Used
      m == [mem EXCEPT ![q] = Alloc("RAM", NULL, mem[p].tot_len, mem[p].tot_len,
                                    HeaderRoom(layer))]
  IN  /\ Whole(p) /\ mem[p].next # NULL /\ ~LooksLikeQueue(p)
      /\ ~(HEAP \subseteq Used)
      /\ mem' = PbufFree(m, Chain(p))
      /\ held' = [held EXCEPT ![p] = @ - 1, ![q] = 1]
      /\ UNCHANGED <<ooseq, pending>>

-----------------------------------------------------------------------------
(***************************************************************************)
(* A PCB queues the packet it is processing (tcp_seg_copy takes a          *)
(* reference), and frees it when its turn comes; pbuf_free_ooseq, called   *)
(* at regular intervals (PBUF_CHECK_FREE_OOSEQ), frees the queue of the    *)
(* first PCB that has one.                                                 *)
(***************************************************************************)
QueueOoseq(i, p) ==
  /\ Packet(p) /\ ooseq[i] = NULL
  /\ mem' = [mem EXCEPT ![p].ref = @ + 1]
  /\ ooseq' = [ooseq EXCEPT ![i] = p]
  /\ UNCHANGED <<held, pending>>

DropOoseq(i) ==
  /\ ooseq[i] # NULL
  /\ mem' = PbufFree(mem, Chain(ooseq[i]))
  /\ ooseq' = [ooseq EXCEPT ![i] = NULL]

FreeOoseq(i) == DropOoseq(i) /\ UNCHANGED <<held, pending>>

\* Mutant: the queue is forgotten without being freed.
FreeOoseqForgets(i) ==
  /\ ooseq[i] # NULL
  /\ ooseq' = [ooseq EXCEPT ![i] = NULL]
  /\ UNCHANGED mem

ReclaimFrom(i) == DropOoseq(i)

pbuf_free_ooseq ==
  /\ pending
  /\ pending' = FALSE
  /\ \/ \E i \in 1 .. PCBS :
          /\ \A j \in 1 .. i - 1 : ooseq[j] = NULL
          /\ ReclaimFrom(i)
     \/ /\ \A j \in 1 .. PCBS : ooseq[j] = NULL
        /\ UNCHANGED <<mem, ooseq>>
  /\ UNCHANGED held

-----------------------------------------------------------------------------
Init ==
  /\ mem = [p \in Addr |-> NULL]
  /\ held = [p \in Addr |-> 0]
  /\ ooseq = [i \in 1 .. PCBS |-> NULL]
  /\ pending = FALSE

Layers == {"TRANSPORT", "RAW"}

Allocate ==
  \/ \E length \in Lengths, layer \in Layers :
       \/ \E type \in {"RAM", "REF"} : AllocSingle(type, layer, length)
       \/ AllocPool(layer, length)
       \/ AllocPoolFails(layer, length)
  \/ AllocSingleFails

Change ==
  \E p \in Used :
    \/ pbuf_free(p)
    \/ pbuf_ref(p)
    \/ pbuf_dechain(p)
    \/ pbuf_split_64k(p)
    \/ \E layer \in Layers : pbuf_coalesce(p, layer)
    \/ \E new_len \in Lengths : pbuf_realloc(p, new_len)
    \/ \E inc \in {-HLEN, HLEN}, force \in BOOLEAN : pbuf_header(p, inc, force)
    \/ \E t \in Used : pbuf_cat(p, t) \/ pbuf_chain(p, t)

Stack ==
  \/ \E i \in 1 .. PCBS : FreeOoseq(i) \/ \E p \in Used : QueueOoseq(i, p)
  \/ pbuf_free_ooseq

Next == Allocate \/ Change \/ Stack

Spec == Init /\ [][Next]_vars

-----------------------------------------------------------------------------
(***************************************************************************)
(* Properties.                                                             *)
(***************************************************************************)
\* Every variable has its type.
TypeOK ==
  /\ mem \in [Addr -> PbufRecord \cup {NULL}]
  /\ held \in [Addr -> Nat]
  /\ ooseq \in [1 .. PCBS -> Addr \cup {NULL}]
  /\ pending \in BOOLEAN

\* "the reference count always equals the number of pointers that refer to
\* this pbuf" (struct pbuf): of callers, of PCBs and of pbufs in a chain.
RefsExact ==
  \A p \in Addr :
    LET refs == held[p] + Cardinality(Predecessors(p)) +
                Cardinality({i \in 1 .. PCBS : ooseq[i] = p})
    IN  IF p \in Used THEN mem[p].ref = refs ELSE refs = 0

\* Whatever was chained, cut or freed in whatever order, every pbuf in use can
\* still be reached from a pointer someone holds: nothing leaks.
NothingLeaks ==
  \A p \in Used :
    \E q \in Used :
      /\ held[q] > 0 \/ \E i \in 1 .. PCBS : ooseq[i] = q
      /\ p \in Range(Chain(q))

\* "p->tot_len == p->len + (p->next? p->next->tot_len: 0)" (struct pbuf), in
\* u16_t arithmetic, for every pbuf of every chain and not just the first.
TotLenExact ==
  \A p \in Used :
    mem[p].tot_len =
      Add16(mem[p].len, IF mem[p].next = NULL THEN 0 ELSE mem[mem[p].next].tot_len)

\* The bytes of a packet, by address.
Bytes(p) ==
  LET c == Chain(p)
      bytes[k \in 0 .. Len(c)] ==
        IF k = 0 THEN <<>>
        ELSE bytes[k - 1] \o [j \in 1 .. mem[c[k]].len |-> <<c[k], mem[c[k]].room + j>>]
  IN  bytes[Len(c)]

\* pbuf_realloc leaves the first new_len bytes of the packet, pbuf_split_64k
\* two packets that together are the old one, the first as long as its u16_t
\* total says; pbuf_cat leaves the bytes of both, one after the other.
PacketsKept ==
  [][ \A p \in Used :
        /\ \A n \in Lengths : pbuf_realloc(p, n) => Bytes(p)' = SubSeq(Bytes(p), 1, n)
        /\ pbuf_split_64k(p) =>
             /\ Len(Bytes(p)') = mem'[p].tot_len
             /\ \E r \in Used : Bytes(p)' \o Bytes(r)' = Bytes(p)
        /\ \A t \in Used : pbuf_cat(p, t) => Bytes(p)' = Bytes(p) \o Bytes(t) ]_vars

\* What changes a packet: the operations on it, of which pbuf_dechain and
\* pbuf_header change its first pbuf only.
Changes(p, q) ==
  \/ /\ q \in Range(Chain(p))
     /\ \/ pbuf_split_64k(p)
        \/ \E new_len \in Lengths : pbuf_realloc(p, new_len)
        \/ \E t \in Used : pbuf_cat(p, t) \/ pbuf_chain(p, t)
  \/ /\ q = p
     /\ \/ pbuf_dechain(p)
        \/ \E inc \in {-HLEN, HLEN}, force \in BOOLEAN : pbuf_header(p, inc, force)

\* Nothing else does: whoever frees, reclaims, coalesces or allocates leaves the
\* bytes behind every pbuf still in use as they were, shared tails included.
OthersKept ==
  [][ \A q \in Used :
        mem'[q] # NULL /\ Bytes(q)' # Bytes(q) => \E p \in Used : Changes(p, q) ]_vars
=============================================================================
