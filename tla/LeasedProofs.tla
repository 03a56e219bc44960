---------------------------- MODULE LeasedProofs ----------------------------
(***************************************************************************)
(* Proofs about Leased, for every declaration whose numbers are machine    *)
(* integers: any number of producers, consumers and blocks.                *)
(***************************************************************************)
EXTENDS Leased, SequenceFacts

-----------------------------------------------------------------------------
(* Declarations that open.                                                 *)

\* checked_next_power_of_two rounds up.
LEMMA PowerIs ==
  ASSUME NEW n \in Nat, HasPowerOfTwo(n)
  PROVE  NextPowerOfTwo(n) \in Nat /\ NextPowerOfTwo(n) >= n
<1>1. \A i \in 0 .. UsizeBits - 1 : 2 ^ i \in Int
  BY WidthAssumption
<1>2. PowersAbove(n) \subseteq Nat
  BY <1>1 DEF PowersAbove
<1>3. NextPowerOfTwo(n) \in PowersAbove(n)
  BY <1>2, LeastNatural DEF HasPowerOfTwo, NextPowerOfTwo
<1> QED
  BY <1>2, <1>3 DEF PowersAbove

\* At least one whole batch fits where a batch fits.
LEMMA WholeBlocks ==
  ASSUME NEW a \in Int, NEW b \in Nat \ {0}, a >= b
  PROVE  a \div b \in Nat \ {0}
<1> DEFINE q == a \div b
<1>1. q \in Int /\ a < (q + 1) * b
  BY SMT
<1> HIDE DEF q
<1>2. CASE q <= 0
  <2>1. (q + 1) * b <= b
    BY <1>1, <1>2, SMT
  <2> QED
    BY <1>1, <2>1
<1> QED
  BY <1>1, <1>2 DEF q

\* What the constructors rely on: members, blocks, and rings for all of them.
Fits ==
  /\ decl.producers \in Nat \ {0} /\ decl.consumers \in Nat \ {0}
  /\ LeasedBlocks(decl) \in Nat \ {0}
  /\ Slots \in Nat /\ LeasedBlocks(decl) <= Slots

\* open refuses every declaration that does not fit.
LEMMA OpenFits ==
  ASSUME decl \in {New(b) : b \in PayloadBytes} \cup Declared, OpenLeased
  PROVE  Fits
<1>1. HasOpen(decl) /\ Opens(decl) /\ decl.codec = "Leased"
  BY DEF OpenLeased, Open
<1>2. decl \in Declared
  BY <1>1 DEF New
<1>3. decl.topology = "Mpmc"
  BY <1>1 DEF HasOpen
<1>4. LeasedOpens(decl) /\ Capacity(decl) = leased_capacity(decl)
  BY <1>1, <1>3 DEF Opens, Capacity
<1>5. decl.producers \in Nat \ {0} /\ decl.consumers \in Nat \ {0} /\ decl.batch \in Nat \ {0}
  BY <1>2, <1>4, LeasedAssumption DEF LeasedOpens
<1>6. leased_capacity(decl) \in Int
  <2>1. \A slots : quantized_capacity(slots) \in Int
    BY DEF quantized_capacity
  <2>2. ASSUME NEW x \in Int, NEW y \in Int PROVE Lesser(x, y) \in Int
    BY DEF Lesser
  <2>5. ASSUME NEW x \in Int PROVE CeilDiv(x, decl.batch) * decl.batch \in Int
    BY <1>5 DEF CeilDiv
  <2>3. CASE decl.capacity = None
    <3> DEFINE bytes == AtLeastOne(decl.payload)
               slots == (RING_RESIDENT_TARGET_BYTES * AtLeastOne(decl.consumers)) \div (bytes * AtLeastOne(decl.producers))
               most == IF bytes <= 64 THEN 4096 ELSE 1024
               capacity == Lesser(quantized_capacity(slots), most)
    <3>1. leased_capacity(decl) =
            IF decl.batch = 0 \/ capacity % decl.batch = 0 THEN capacity
            ELSE IF capacity < decl.batch THEN decl.batch
            ELSE CeilDiv(capacity, decl.batch) * decl.batch
      BY <2>3 DEF leased_capacity, UnwrapOr
    <3> HIDE DEF bytes, slots
    <3>2. quantized_capacity(slots) \in Int /\ most \in Int
      BY <2>1
    <3> HIDE DEF most
    <3>3. capacity \in Int
      BY <2>2, <3>2
    <3> HIDE DEF capacity
    <3>4. CeilDiv(capacity, decl.batch) * decl.batch \in Int
      BY <2>5, <3>3
    <3> QED
      BY <1>5, <3>1, <3>3, <3>4
  <2>4. CASE decl.capacity # None
    BY <1>2, <2>4, LeasedAssumption DEF leased_capacity, UnwrapOr
  <2> QED
    BY <2>3, <2>4
<1>7. LeasedBlocks(decl) \in Nat \ {0}
  BY <1>4, <1>5, <1>6, WholeBlocks DEF LeasedBlocks, LeasedOpens
<1>8. Slots \in Nat /\ LeasedBlocks(decl) <= Slots
  BY <1>4, <1>7, PowerIs DEF LeasedOpens, Slots
<1> QED
  BY <1>5, <1>7, <1>8 DEF Fits

-----------------------------------------------------------------------------
(* The inductive invariant.  Every block of a producer that is not gone is *)
(* in exactly one place, each place without repetition; in_flight counts   *)
(* the blocks outside the free list and the lease; and a flush that looks  *)
(* for the last time, with no consumer left, has emptied the return rings  *)
(* it has passed.                                                          *)

Leasing == {"clear", "lent", "send"}

ProducerState ==
  [pc : {"idle", "gate", "look", "flush", "closing", "gone"} \cup Leasing,
   call : {"none", "reserve", "flush"}, free : Seq(Blocks), lease : Blocks \cup {0},
   in_flight : Int, cursor : 0 .. decl.consumers - 1, looked : 0 .. decl.consumers,
   final : BOOLEAN, answer : {"none", "flushed", "abandoned"}]

ConsumerState ==
  [pc : {"idle", "scan", "take", "held", "ended", "gone"}, cursor : 0 .. decl.producers - 1,
   looked : 0 .. decl.producers, final : BOOLEAN, block : {<<>>} \cup (Producers \X Blocks)]

LeasedType ==
  /\ Fits
  /\ prod \in [Producers -> ProducerState] /\ con \in [Consumers -> ConsumerState]
  /\ fwd \in [Producers -> Seq(Blocks)] /\ ret \in [Producers -> [Consumers -> Seq(Blocks)]]

\* A block is leased between the step that took it and the one that gives it up.
LeaseOK(s, n) ==
  /\ s.lease # 0 <=> s.pc \in Leasing
  /\ s.answer # "none" => s.pc = "idle"
  /\ s.pc = "flush" => s.looked = n

\* The last look of a flush.
DrainOK(s, rings, live, n) ==
  s.final => /\ live = 0
             /\ s.pc \in {"look", "flush"} => \A c \in 1 .. n : Passed(c, s.cursor, s.looked, n) => rings[c] = <<>>

\* What a flush said last.
AnswerOK(s, ring, live, blocks) ==
  /\ s.answer = "flushed" => ToSet(s.free) = blocks
  /\ s.answer = "abandoned" => live = 0 /\ ToSet(s.free) \cup ToSet(ring) = blocks

\* in_flight counts what is neither free nor leased.
CountOK(s, n) == s.in_flight = n - Len(s.free) - (IF s.lease = 0 THEN 0 ELSE 1)

\* Every block is in exactly one of the places F.
Parted(F, blocks) ==
  \A b \in blocks : \E i \in DOMAIN F : b \in F[i] /\ \A j \in DOMAIN F \ {i} : b \notin F[j]

PoolOK(p) ==
  prod[p].pc # "gone" =>
    /\ Distinct(prod[p].free) /\ Distinct(fwd[p]) /\ \A c \in Consumers : Distinct(ret[p][c])
    /\ CountOK(prod[p], LeasedBlocks(decl))
    /\ Parted(Places(p), Blocks)

ProducerOK(p) ==
  /\ LeaseOK(prod[p], decl.consumers)
  /\ DrainOK(prod[p], ret[p], live_consumers, decl.consumers)
  /\ AnswerOK(prod[p], fwd[p], live_consumers, Blocks)

\* A consumer that holds a block or a claim, and the consumers that are left.
HoldOK(s, n) == (s.block # <<>> <=> s.pc = "held") /\ (s.pc = "take" => s.looked < n)
Left      == {c \in Consumers : con[c].pc # "gone"}
ConsumersOK == live_consumers = Cardinality(Left) /\ \A c \in Consumers : HoldOK(con[c], decl.producers)

OpenInv ==
  LeasedType /\ ConsumersOK /\ \A p \in Producers : ProducerOK(p) /\ PoolOK(p)

LeasedInv ==
  \/ /\ opened # "open" /\ prod = <<>> /\ con = <<>>
     /\ decl \in {New(b) : b \in PayloadBytes} \cup Declared
  \/ opened = "open" /\ OpenInv

-----------------------------------------------------------------------------
(* The places of a pool.                                                   *)

\* The places by their number.
PlaceFacts(p) ==
  LET n == decl.consumers IN
  /\ DOMAIN Places(p) = 1 .. 3 + n + n
  /\ Places(p)[1] = ToSet(prod[p].free) /\ Places(p)[2] = {prod[p].lease} \ {0} /\ Places(p)[3] = ToSet(fwd[p])
  /\ \A c \in 1 .. n : Places(p)[3 + c] = ToSet(ret[p][c]) /\ Places(p)[3 + n + c] = HeldBy(c, p)

\* The fields of a producer.
LEMMA ProducerFields ==
  ASSUME LeasedType, NEW p \in Producers
  PROVE  /\ prod[p] \in ProducerState /\ fwd[p] \in Seq(Blocks) /\ DOMAIN prod = Producers
         /\ prod[p].free \in Seq(Blocks) /\ prod[p].lease \in Blocks \cup {0} /\ prod[p].in_flight \in Int
         /\ prod[p].cursor \in 0 .. decl.consumers - 1 /\ prod[p].looked \in 0 .. decl.consumers
         /\ prod[p].final \in BOOLEAN
         /\ \A c \in Consumers : ret[p][c] \in Seq(Blocks)
         /\ ret[p] \in [Consumers -> Seq(Blocks)]
  BY DEF LeasedType, ProducerState

\* The fields of a consumer.
LEMMA ConsumerFields ==
  ASSUME LeasedType, NEW c \in Consumers
  PROVE  /\ con[c] \in ConsumerState /\ DOMAIN con = Consumers
         /\ con[c].block = <<>> \/ (con[c].block \in Producers \X Blocks /\ con[c].block # <<>>)
         /\ con[c].cursor \in 0 .. decl.producers - 1 /\ con[c].looked \in 0 .. decl.producers
<1>1. con[c] \in ConsumerState /\ DOMAIN con = Consumers
  BY DEF LeasedType
<1>2. con[c].block \in {<<>>} \cup (Producers \X Blocks)
  BY <1>1 DEF ConsumerState
<1>3. ASSUME NEW x \in Producers \X Blocks PROVE x # <<>>
  <2>1. x = <<x[1], x[2]>>
    OBVIOUS
  <2>2. <<x[1], x[2]>> # <<>>
    OBVIOUS
  <2> QED
    BY <2>1, <2>2
<1> QED
  BY <1>1, <1>2, <1>3 DEF ConsumerState

\* The numbers of the declaration.
LEMMA DeclFacts ==
  ASSUME LeasedType
  PROVE  /\ decl.consumers \in Nat \ {0} /\ decl.producers \in Nat \ {0} /\ LeasedBlocks(decl) \in Nat \ {0}
         /\ 0 \notin Blocks /\ Blocks \subseteq Nat /\ Consumers = 1 .. decl.consumers
         /\ IsFiniteSet(Blocks) /\ Cardinality(Blocks) = LeasedBlocks(decl)
         /\ IsFiniteSet(Consumers)
<1>1. decl.consumers \in Nat \ {0} /\ decl.producers \in Nat \ {0} /\ LeasedBlocks(decl) \in Nat \ {0}
  BY DEF LeasedType, Fits
<1>2. /\ IsFiniteSet(Blocks) /\ Cardinality(Blocks) = LeasedBlocks(decl) /\ IsFiniteSet(Consumers)
  <2>1. ASSUME NEW m \in Nat PROVE IsFiniteSet(1 .. m) /\ Cardinality(1 .. m) = m
    BY FS_Interval
  <2> QED
    BY <1>1, <2>1 DEF Blocks, Consumers
<1> QED
  BY <1>1, <1>2 DEF Blocks, Consumers

\* Every pool has its places in this order.
LEMMA PlacesAre == LeasedType => \A p \in Producers : PlaceFacts(p)
<1> SUFFICES ASSUME LeasedType, NEW p \in Producers PROVE PlaceFacts(p)
  OBVIOUS
<1> DEFINE n == decl.consumers
           a == ToSet(prod[p].free)
           b == {prod[p].lease} \ {0}
           d == ToSet(fwd[p])
           f == [c \in Consumers |-> ToSet(ret[p][c])]
           g == [c \in Consumers |-> HeldBy(c, p)]
           S == SUBSET Blocks
<1>1. n \in Nat /\ Consumers = 1 .. n
  BY DeclFacts
<1>2. a \in S /\ b \in S /\ d \in S
  BY ProducerFields, ToSetType
<1>3. f \in [1 .. n -> S]
  <2>1. \A c \in Consumers : ToSet(ret[p][c]) \in S
    BY ProducerFields, ToSetType
  <2> QED
    BY <1>1, <2>1
<1>4. g \in [1 .. n -> S]
  <2>1. \A c \in Consumers : HeldBy(c, p) \in S
    BY ConsumerFields DEF HeldBy
  <2> QED
    BY <1>1, <2>1
<1>5. Places(p) = <<a, b, d>> \o f \o g
  BY DEF Places
<1>6. \A c \in 1 .. n : f[c] = ToSet(ret[p][c]) /\ g[c] = HeldBy(c, p)
  BY <1>1
<1> DEFINE F == Places(p)
<1>7. n \in Nat /\ F = <<a, b, d>> \o f \o g
  BY <1>1, <1>5
<1> HIDE DEF n, a, b, d, f, g, S, F
<1>8. /\ DOMAIN F = 1 .. 3 + n + n /\ F[1] = a /\ F[2] = b /\ F[3] = d
      /\ \A c \in 1 .. n : F[3 + c] = f[c] /\ F[3 + n + c] = g[c]
  <2> DEFINE t == <<a, b, d>>
             u == t \o f
  <2>0. n \in Nat /\ a \in S /\ b \in S /\ d \in S /\ f \in [1 .. n -> S] /\ g \in [1 .. n -> S]
    BY <1>2, <1>3, <1>4, <1>7
  <2>1. /\ t \in Seq(S) /\ Len(t) = 3 /\ t[1] = a /\ t[2] = b /\ t[3] = d
        /\ f \in Seq(S) /\ Len(f) = n /\ g \in Seq(S) /\ Len(g) = n
    BY <2>0
  <2> HIDE DEF t
  <2>2. /\ u \in Seq(S) /\ Len(u) = 3 + n
        /\ \A i \in 1 .. 3 + n : u[i] = IF i <= 3 THEN t[i] ELSE f[i - 3]
    <3>1. /\ t \o f \in Seq(S) /\ Len(t \o f) = Len(t) + Len(f)
          /\ \A i \in 1 .. Len(t) + Len(f) : (t \o f)[i] = IF i <= Len(t) THEN t[i] ELSE f[i - Len(t)]
      BY <2>1, ConcatProperties, Zenon
    <3> QED
      BY <2>1, <3>1
  <2>3. F = u \o g
    BY <1>7 DEF t
  <2> HIDE DEF u
  <2>4. /\ F \in Seq(S) /\ Len(F) = 3 + n + n
        /\ \A i \in 1 .. 3 + n + n : F[i] = IF i <= 3 + n THEN u[i] ELSE g[i - (3 + n)]
    <3>1. /\ u \o g \in Seq(S) /\ Len(u \o g) = Len(u) + Len(g)
          /\ \A i \in 1 .. Len(u) + Len(g) : (u \o g)[i] = IF i <= Len(u) THEN u[i] ELSE g[i - Len(u)]
      BY <2>1, <2>2, ConcatProperties, Zenon
    <3> QED
      BY <2>1, <2>2, <2>3, <3>1
  <2>5. F[1] = a /\ F[2] = b /\ F[3] = d /\ DOMAIN F = 1 .. 3 + n + n
    BY <2>0, <2>1, <2>2, <2>4
  <2>6. ASSUME NEW c \in 1 .. n PROVE F[3 + c] = f[c] /\ F[3 + n + c] = g[c]
    <3>1. 3 + c \in 1 .. 3 + n /\ ~(3 + c <= 3) /\ (3 + c) - 3 = c /\ 3 + c \in 1 .. 3 + n + n /\ 3 + c <= 3 + n
      BY <2>0
    <3>2. 3 + n + c \in 1 .. 3 + n + n /\ ~(3 + n + c <= 3 + n) /\ (3 + n + c) - (3 + n) = c
      BY <2>0
    <3> QED
      BY <2>2, <2>4, <3>1, <3>2
  <2> QED
    BY <2>5, <2>6
<1> QED
  BY <1>6, <1>8 DEF PlaceFacts, n, a, b, d, F

\* The same in the next state.
LEMMA PlacesNext == LeasedType' => (\A p \in Producers : PlaceFacts(p))'
  BY PlacesAre, PTL

\* A block in one place is in no other.
LEMMA PartedOnce ==
  ASSUME NEW F, NEW B, Parted(F, B), NEW b \in B, NEW x \in DOMAIN F, b \in F[x], NEW y \in DOMAIN F, x # y
  PROVE  b \notin F[y]
  BY DEF Parted

\* The numbers of the places.
LEMMA PlaceNumbers ==
  ASSUME NEW n \in Nat
  PROVE  /\ \A z \in 1 .. 3 + n + n : \/ z \in {1, 2, 3}
                                      \/ \E c \in 1 .. n : z = 3 + c
                                      \/ \E c \in 1 .. n : z = 3 + n + c
         /\ 1 \in 1 .. 3 + n + n /\ 2 \in 1 .. 3 + n + n /\ 3 \in 1 .. 3 + n + n
         /\ \A c \in 1 .. n : /\ 3 + c \in 1 .. 3 + n + n /\ 3 + n + c \in 1 .. 3 + n + n
                              /\ 3 + c \notin {1, 2, 3} /\ 3 + n + c \notin {1, 2, 3}
         /\ \A c \in 1 .. n : \A e \in 1 .. n : /\ 3 + c # 3 + n + e
                                                /\ (3 + c = 3 + e) <=> (c = e)
                                                /\ (3 + n + c = 3 + n + e) <=> (c = e)
<1>1. ASSUME NEW z \in 1 .. 3 + n + n, z \notin {1, 2, 3}
      PROVE  (\E c \in 1 .. n : z = 3 + c) \/ (\E c \in 1 .. n : z = 3 + n + c)
  <2>1. CASE z <= 3 + n
    <3>1. z - 3 \in 1 .. n /\ z = 3 + (z - 3)
      BY <1>1, <2>1
    <3> QED
      BY <3>1
  <2>2. CASE ~(z <= 3 + n)
    <3>1. z - 3 - n \in 1 .. n /\ z = 3 + n + (z - 3 - n)
      BY <1>1, <2>2
    <3> QED
      BY <3>1
  <2> QED
    BY <2>1, <2>2
<1> QED
  BY <1>1

-----------------------------------------------------------------------------
(* What the steps do to a pool.                                            *)

\* The facts about a pool in a state and in the next.
LEMMA BothPlaces ==
  ASSUME LeasedType, LeasedType', decl' = decl, NEW p \in Producers
  PROVE  /\ Producers' = Producers /\ Consumers' = Consumers /\ Blocks' = Blocks
         /\ LeasedBlocks(decl)' = LeasedBlocks(decl)
         /\ DOMAIN Places(p) = 1 .. 3 + decl.consumers + decl.consumers
         /\ DOMAIN Places(p)' = 1 .. 3 + decl.consumers + decl.consumers
         /\ PlaceFacts(p) /\ PlaceFacts(p)'
<1>1. Producers' = Producers /\ Consumers' = Consumers /\ Blocks' = Blocks /\ LeasedBlocks(decl)' = LeasedBlocks(decl)
  BY DEF Producers, Consumers, Blocks
<1>2. PlaceFacts(p) /\ PlaceFacts(p)'
  BY <1>1, PlacesAre, PlacesNext
<1> QED
  BY <1>1, <1>2 DEF PlaceFacts

\* A pool that a step leaves alone.
LEMMA PoolStays ==
  ASSUME LeasedType, LeasedType', decl' = decl, NEW p \in Producers, PoolOK(p),
         prod'[p].pc # "gone" => prod[p].pc # "gone" /\ prod'[p].free = prod[p].free,
         prod'[p].lease = prod[p].lease, prod'[p].in_flight = prod[p].in_flight,
         fwd'[p] = fwd[p], ret'[p] = ret[p], \A c \in Consumers : HeldBy(c, p)' = HeldBy(c, p)
  PROVE  PoolOK(p)'
<1> SUFFICES ASSUME prod'[p].pc # "gone" PROVE PoolOK(p)'
  BY DEF PoolOK
<1>1. Consumers' = Consumers /\ Blocks' = Blocks
  BY BothPlaces
<1>2. Places(p)' = Places(p)
  BY <1>1 DEF Places
<1> QED
  BY <1>1, <1>2 DEF PoolOK, CountOK

\* A block moved between two places of a pool, the others left alone.
LEMMA PoolMoves ==
  ASSUME LeasedType, LeasedType', decl' = decl, NEW p \in Producers, PoolOK(p), prod[p].pc # "gone",
         NEW x \in DOMAIN Places(p), NEW y \in DOMAIN Places(p), x # y, NEW b, b \in Places(p)[x],
         Places(p)'[x] = Places(p)[x] \ {b}, Places(p)'[y] = Places(p)[y] \cup {b},
         \A z \in {1, 2, 3} : z # x /\ z # y => Places(p)'[z] = Places(p)[z],
         \A c \in Consumers : LET z == 3 + c IN z # x /\ z # y => Places(p)'[z] = Places(p)[z],
         \A c \in Consumers : LET z == 3 + decl.consumers + c IN z # x /\ z # y => Places(p)'[z] = Places(p)[z],
         Distinct(prod'[p].free), Distinct(fwd'[p]), \A c \in Consumers : Distinct(ret'[p][c]),
         CountOK(prod'[p], LeasedBlocks(decl))
  PROVE  PoolOK(p)'
<1> DEFINE F == Places(p)
           G == Places(p)'
           n == decl.consumers
<1>1. /\ Consumers' = Consumers /\ Blocks' = Blocks /\ LeasedBlocks(decl)' = LeasedBlocks(decl) /\ DOMAIN G = DOMAIN F
      /\ DOMAIN F = 1 .. 3 + n + n /\ n \in Nat /\ Consumers = 1 .. n
  BY BothPlaces, DeclFacts
<1>2. Parted(F, Blocks)
  BY DEF PoolOK
<1>3. /\ x \in DOMAIN F /\ y \in DOMAIN F /\ b \in F[x] /\ x # y
      /\ G[x] = F[x] \ {b} /\ G[y] = F[y] \cup {b}
      /\ \A z \in {1, 2, 3} : z # x /\ z # y => G[z] = F[z]
      /\ \A c \in Consumers : 3 + c # x /\ 3 + c # y => G[3 + c] = F[3 + c]
      /\ \A c \in Consumers : 3 + n + c # x /\ 3 + n + c # y => G[3 + n + c] = F[3 + n + c]
  OBVIOUS
<1> HIDE DEF F, G, n
<1>4. ASSUME NEW z \in DOMAIN F, z # x, z # y PROVE G[z] = F[z]
  <2>0. \A w \in 1 .. 3 + n + n : w \in {1, 2, 3} \/ (\E c \in 1 .. n : w = 3 + c) \/ (\E c \in 1 .. n : w = 3 + n + c)
    <3>1. n \in Nat
      BY <1>1
    <3> QED
      BY <3>1, PlaceNumbers
  <2>1. z \in {1, 2, 3} \/ (\E c \in Consumers : z = 3 + c) \/ (\E c \in Consumers : z = 3 + n + c)
    BY <1>1, <2>0, Zenon
  <2> QED
    BY <1>3, <1>4, <2>1
<1>5. ASSUME NEW e \in Blocks
      PROVE  \E i \in DOMAIN F : e \in G[i] /\ \A j \in DOMAIN F \ {i} : e \notin G[j]
  <2>1. PICK i \in DOMAIN F : e \in F[i] /\ \A j \in DOMAIN F \ {i} : e \notin F[j]
    BY <1>2 DEF Parted
  <2>2. CASE e = b
    <3>1. i = x
      BY <1>3, <2>1, <2>2
    <3>2. e \in G[y]
      BY <1>3, <2>2
    <3>3. ASSUME NEW j \in DOMAIN F \ {y} PROVE e \notin G[j]
      BY <1>3, <1>4, <2>1, <2>2, <3>1
    <3> QED
      BY <1>3, <3>2, <3>3
  <2>3. CASE e # b
    <3>1. ASSUME NEW j \in DOMAIN F PROVE e \in G[j] <=> e \in F[j]
      BY <1>3, <1>4, <2>3
    <3> QED
      BY <2>1, <3>1
  <2> QED
    BY <2>2, <2>3
<1>6. Parted(G, Blocks)
  BY <1>1, <1>5 DEF Parted
<1> QED
  BY <1>1, <1>6 DEF PoolOK, G

\* A block found in return ring c becomes the lease.
LEMMA PoolReturned ==
  ASSUME LeasedType, LeasedType', decl' = decl, NEW p \in Producers, PoolOK(p), prod[p].pc # "gone",
         prod[p].lease = 0, NEW c \in Consumers, ret[p][c] # <<>>,
         prod'[p].free = prod[p].free, prod'[p].lease = Head(ret[p][c]),
         prod'[p].in_flight = prod[p].in_flight - 1, fwd'[p] = fwd[p],
         ret'[p] = [ret[p] EXCEPT ![c] = Tail(@)], con' = con
  PROVE  PoolOK(p)'
<1> DEFINE n == decl.consumers
           b == Head(ret[p][c])
<1>1. n \in Nat /\ Consumers = 1 .. n /\ 0 \notin Blocks
  BY DeclFacts
<1>2. /\ DOMAIN Places(p) = 1 .. 3 + n + n /\ PlaceFacts(p) /\ PlaceFacts(p)' /\ Consumers' = Consumers
  BY BothPlaces
<1>3. /\ Distinct(prod[p].free) /\ Distinct(fwd[p]) /\ \A e \in Consumers : Distinct(ret[p][e])
      /\ CountOK(prod[p], LeasedBlocks(decl))
  BY DEF PoolOK
<1>4. b \in Blocks /\ b \in ToSet(ret[p][c]) /\ Distinct(Tail(ret[p][c])) /\ ToSet(Tail(ret[p][c])) = ToSet(ret[p][c]) \ {b}
  BY <1>3, ProducerFields, TailIs
<1>5. /\ ret'[p][c] = Tail(ret[p][c]) /\ \A e \in Consumers : e # c => ret'[p][e] = ret[p][e]
  BY ProducerFields
<1>6. \A e \in Consumers : HeldBy(e, p)' = HeldBy(e, p)
  BY DEF HeldBy
<1>7. \A e \in Consumers : Distinct(ret'[p][e])
  BY <1>3, <1>4, <1>5
<1>8. CountOK(prod'[p], LeasedBlocks(decl))
  <2>1. b # 0 /\ prod[p].in_flight \in Int /\ Len(prod[p].free) \in Nat /\ LeasedBlocks(decl) \in Nat
    BY <1>1, <1>4, ProducerFields, DeclFacts
  <2> HIDE DEF b
  <2> QED
    BY <1>3, <2>1 DEF CountOK, b
<1>9. /\ Places(p)'[1] = Places(p)[1] /\ Places(p)[2] = {} /\ Places(p)'[2] = {b} /\ Places(p)'[3] = Places(p)[3]
      /\ Places(p)'[3 + c] = Places(p)[3 + c] \ {b} /\ b \in Places(p)[3 + c]
      /\ \A e \in Consumers : (e # c => Places(p)'[3 + e] = Places(p)[3 + e]) /\ Places(p)'[3 + n + e] = Places(p)[3 + n + e]
  BY <1>1, <1>2, <1>4, <1>5, <1>6 DEF PlaceFacts
<1> HIDE DEF n, b
<1> DEFINE x == 3 + c
<1>10. /\ \A z \in {1, 2, 3} : z # x /\ z # 2 => Places(p)'[z] = Places(p)[z]
       /\ \A e \in Consumers : 3 + e # x /\ 3 + e # 2 => Places(p)'[3 + e] = Places(p)[3 + e]
       /\ \A e \in Consumers : 3 + n + e # x /\ 3 + n + e # 2 => Places(p)'[3 + n + e] = Places(p)[3 + n + e]
  BY <1>9
<1>11. x \in DOMAIN Places(p) /\ 2 \in DOMAIN Places(p) /\ x # 2
  BY <1>1, <1>2, PlaceNumbers
<1>12. Places(p)'[2] = Places(p)[2] \cup {b} /\ Distinct(prod'[p].free) /\ Distinct(fwd'[p])
  BY <1>3, <1>9
<1>13. b \in Places(p)[x] /\ Places(p)'[x] = Places(p)[x] \ {b}
  BY <1>9
<1> HIDE DEF x
<1> QED
  BY <1>7, <1>8, <1>10, <1>11, <1>12, <1>13, PoolMoves, ZenonT(60) DEF n

\* The last block of the free list becomes the lease.
LEMMA PoolReserved ==
  ASSUME LeasedType, LeasedType', decl' = decl, NEW p \in Producers, PoolOK(p), prod[p].pc # "gone",
         prod[p].lease = 0, prod[p].free # <<>>,
         prod'[p].free = Front(prod[p].free), prod'[p].lease = Last(prod[p].free),
         prod'[p].in_flight = prod[p].in_flight, fwd'[p] = fwd[p], ret'[p] = ret[p], con' = con
  PROVE  PoolOK(p)'
<1> DEFINE n == decl.consumers
           b == Last(prod[p].free)
<1>1. n \in Nat /\ Consumers = 1 .. n /\ 0 \notin Blocks
  BY DeclFacts
<1>2. /\ DOMAIN Places(p) = 1 .. 3 + n + n /\ PlaceFacts(p) /\ PlaceFacts(p)' /\ Consumers' = Consumers
  BY BothPlaces
<1>3. /\ Distinct(prod[p].free) /\ Distinct(fwd[p]) /\ \A e \in Consumers : Distinct(ret[p][e])
      /\ CountOK(prod[p], LeasedBlocks(decl))
  BY DEF PoolOK
<1>4. /\ b \in Blocks /\ b \in ToSet(prod[p].free) /\ Distinct(Front(prod[p].free))
      /\ ToSet(Front(prod[p].free)) = ToSet(prod[p].free) \ {b} /\ Len(Front(prod[p].free)) = Len(prod[p].free) - 1
  BY <1>3, ProducerFields, FrontIs
<1>5. \A e \in Consumers : HeldBy(e, p)' = HeldBy(e, p) /\ Distinct(ret'[p][e])
  BY <1>3 DEF HeldBy
<1>6. CountOK(prod'[p], LeasedBlocks(decl))
  <2>1. b # 0 /\ prod[p].in_flight \in Int /\ Len(prod[p].free) \in Nat /\ LeasedBlocks(decl) \in Nat
    BY <1>1, <1>4, ProducerFields, DeclFacts
  <2> HIDE DEF b
  <2> QED
    BY <1>3, <1>4, <2>1, SMTT(30) DEF CountOK, b
<1>7. /\ Places(p)'[1] = Places(p)[1] \ {b} /\ b \in Places(p)[1] /\ Places(p)'[3] = Places(p)[3]
      /\ Places(p)[2] = {} /\ Places(p)'[2] = {b}
      /\ \A e \in Consumers : Places(p)'[3 + e] = Places(p)[3 + e] /\ Places(p)'[3 + n + e] = Places(p)[3 + n + e]
  BY <1>1, <1>2, <1>4, <1>5 DEF PlaceFacts
<1> HIDE DEF n, b
<1>8. /\ \A z \in {1, 2, 3} : z # 1 /\ z # 2 => Places(p)'[z] = Places(p)[z]
      /\ \A e \in Consumers : 3 + e # 1 /\ 3 + e # 2 => Places(p)'[3 + e] = Places(p)[3 + e]
      /\ \A e \in Consumers : 3 + n + e # 1 /\ 3 + n + e # 2 => Places(p)'[3 + n + e] = Places(p)[3 + n + e]
  BY <1>7
<1>9. 1 \in DOMAIN Places(p) /\ 2 \in DOMAIN Places(p)
  BY <1>1, <1>2, PlaceNumbers
<1>10. Places(p)'[2] = Places(p)[2] \cup {b} /\ Distinct(prod'[p].free) /\ Distinct(fwd'[p])
  BY <1>3, <1>4, <1>7
<1> QED
  BY <1>5, <1>6, <1>7, <1>8, <1>9, <1>10, PoolMoves DEF n

\* The lease goes back to the free list.
LEMMA PoolFreed ==
  ASSUME LeasedType, LeasedType', decl' = decl, NEW p \in Producers, PoolOK(p), prod[p].pc # "gone",
         prod[p].lease # 0,
         prod'[p].free = Append(prod[p].free, prod[p].lease), prod'[p].lease = 0,
         prod'[p].in_flight = prod[p].in_flight, fwd'[p] = fwd[p], ret'[p] = ret[p], con' = con
  PROVE  PoolOK(p)'
<1> DEFINE n == decl.consumers
           b == prod[p].lease
<1>1. n \in Nat /\ Consumers = 1 .. n /\ b \in Blocks /\ prod[p].free \in Seq(Blocks)
  BY DeclFacts, ProducerFields
<1>2. /\ DOMAIN Places(p) = 1 .. 3 + n + n /\ PlaceFacts(p) /\ PlaceFacts(p)' /\ Consumers' = Consumers
  BY BothPlaces
<1>3. /\ Distinct(prod[p].free) /\ Distinct(fwd[p]) /\ \A e \in Consumers : Distinct(ret[p][e])
      /\ CountOK(prod[p], LeasedBlocks(decl)) /\ Parted(Places(p), Blocks)
  BY DEF PoolOK
<1>4. 1 \in DOMAIN Places(p) /\ 2 \in DOMAIN Places(p) /\ Places(p)[1] = ToSet(prod[p].free) /\ Places(p)[2] = {b}
  BY <1>1, <1>2, PlaceNumbers DEF PlaceFacts
<1>5. b \notin ToSet(prod[p].free)
  BY <1>1, <1>3, <1>4, PartedOnce, SMTT(30)
<1>6. /\ ToSet(prod'[p].free) = ToSet(prod[p].free) \cup {b} /\ Len(prod'[p].free) = Len(prod[p].free) + 1
      /\ Distinct(prod'[p].free)
  BY <1>1, <1>3, <1>5, AppendIs
<1>7. \A e \in Consumers : HeldBy(e, p)' = HeldBy(e, p) /\ Distinct(ret'[p][e])
  BY <1>3 DEF HeldBy
<1>8. CountOK(prod'[p], LeasedBlocks(decl))
  <2>1. prod[p].in_flight \in Int /\ Len(prod[p].free) \in Nat /\ LeasedBlocks(decl) \in Nat
    BY ProducerFields, DeclFacts
  <2> QED
    BY <1>3, <1>6, <2>1 DEF CountOK
<1>9. /\ Places(p)'[1] = Places(p)[1] \cup {b} /\ Places(p)'[2] = {} /\ Places(p)'[3] = Places(p)[3]
      /\ \A e \in Consumers : Places(p)'[3 + e] = Places(p)[3 + e] /\ Places(p)'[3 + n + e] = Places(p)[3 + n + e]
  BY <1>1, <1>2, <1>4, <1>6, <1>7 DEF PlaceFacts
<1> HIDE DEF n, b
<1>10. /\ \A z \in {1, 2, 3} : z # 2 /\ z # 1 => Places(p)'[z] = Places(p)[z]
       /\ \A e \in Consumers : 3 + e # 2 /\ 3 + e # 1 => Places(p)'[3 + e] = Places(p)[3 + e]
       /\ \A e \in Consumers : 3 + n + e # 2 /\ 3 + n + e # 1 => Places(p)'[3 + n + e] = Places(p)[3 + n + e]
  BY <1>9
<1>11. b \in Places(p)[2] /\ Places(p)'[2] = Places(p)[2] \ {b} /\ Distinct(fwd'[p])
  BY <1>3, <1>4, <1>9
<1> QED
  BY <1>4, <1>6, <1>7, <1>8, <1>9, <1>10, <1>11, PoolMoves DEF n

\* The lease is published.
LEMMA PoolSent ==
  ASSUME LeasedType, LeasedType', decl' = decl, NEW p \in Producers, PoolOK(p), prod[p].pc # "gone",
         prod[p].lease # 0,
         prod'[p].free = prod[p].free, prod'[p].lease = 0,
         prod'[p].in_flight = prod[p].in_flight + 1, fwd'[p] = Append(fwd[p], prod[p].lease),
         ret'[p] = ret[p], con' = con
  PROVE  PoolOK(p)'
<1> DEFINE n == decl.consumers
           b == prod[p].lease
<1>1. n \in Nat /\ Consumers = 1 .. n /\ b \in Blocks /\ fwd[p] \in Seq(Blocks)
  BY DeclFacts, ProducerFields
<1>2. /\ DOMAIN Places(p) = 1 .. 3 + n + n /\ PlaceFacts(p) /\ PlaceFacts(p)' /\ Consumers' = Consumers
  BY BothPlaces
<1>3. /\ Distinct(prod[p].free) /\ Distinct(fwd[p]) /\ \A e \in Consumers : Distinct(ret[p][e])
      /\ CountOK(prod[p], LeasedBlocks(decl)) /\ Parted(Places(p), Blocks)
  BY DEF PoolOK
<1>4. 3 \in DOMAIN Places(p) /\ 2 \in DOMAIN Places(p) /\ Places(p)[3] = ToSet(fwd[p]) /\ Places(p)[2] = {b}
  BY <1>1, <1>2, PlaceNumbers DEF PlaceFacts
<1>5. b \notin ToSet(fwd[p])
  BY <1>1, <1>3, <1>4, PartedOnce
<1>6. ToSet(fwd'[p]) = ToSet(fwd[p]) \cup {b} /\ Distinct(fwd'[p])
  BY <1>1, <1>3, <1>5, AppendIs
<1>7. \A e \in Consumers : HeldBy(e, p)' = HeldBy(e, p) /\ Distinct(ret'[p][e])
  BY <1>3 DEF HeldBy
<1>8. CountOK(prod'[p], LeasedBlocks(decl))
  <2>1. prod[p].in_flight \in Int /\ Len(prod[p].free) \in Nat /\ LeasedBlocks(decl) \in Nat
    BY ProducerFields, DeclFacts
  <2> QED
    BY <1>3, <2>1 DEF CountOK
<1>9. /\ Places(p)'[3] = Places(p)[3] \cup {b} /\ Places(p)'[2] = {} /\ Places(p)'[1] = Places(p)[1]
      /\ \A e \in Consumers : Places(p)'[3 + e] = Places(p)[3 + e] /\ Places(p)'[3 + n + e] = Places(p)[3 + n + e]
  <2>1. Places(p)'[1] = Places(p)[1] /\ Places(p)'[2] = {}
    BY <1>2 DEF PlaceFacts
  <2>2. Places(p)'[3] = Places(p)[3] \cup {b}
    BY <1>2, <1>4, <1>6 DEF PlaceFacts
  <2>3. \A e \in Consumers : Places(p)'[3 + e] = Places(p)[3 + e] /\ Places(p)'[3 + n + e] = Places(p)[3 + n + e]
    <3>1. \A e \in 1 .. n : Places(p)[3 + e] = ToSet(ret[p][e]) /\ Places(p)[3 + n + e] = HeldBy(e, p)
      BY <1>2 DEF PlaceFacts
    <3>2. \A e \in 1 .. n : Places(p)'[3 + e] = ToSet(ret'[p][e]) /\ Places(p)'[3 + n + e] = HeldBy(e, p)'
      BY <1>2 DEF PlaceFacts
    <3> QED
      BY <1>1, <1>7, <3>1, <3>2
  <2> QED
    BY <2>1, <2>2, <2>3
<1> HIDE DEF n, b
<1>10. /\ \A z \in {1, 2, 3} : z # 2 /\ z # 3 => Places(p)'[z] = Places(p)[z]
       /\ \A e \in Consumers : 3 + e # 2 /\ 3 + e # 3 => Places(p)'[3 + e] = Places(p)[3 + e]
       /\ \A e \in Consumers : 3 + n + e # 2 /\ 3 + n + e # 3 => Places(p)'[3 + n + e] = Places(p)[3 + n + e]
  BY <1>9
<1>11. b \in Places(p)[2] /\ Places(p)'[2] = Places(p)[2] \ {b} /\ Distinct(prod'[p].free)
  BY <1>3, <1>4, <1>9
<1> QED
  BY <1>4, <1>6, <1>7, <1>8, <1>9, <1>10, <1>11, PoolMoves DEF n

\* A consumer takes the first block of the forward ring.
LEMMA PoolTaken ==
  ASSUME LeasedType, LeasedType', decl' = decl, NEW p \in Producers, PoolOK(p), prod[p].pc # "gone",
         NEW c \in Consumers, con[c].block = <<>>, fwd[p] # <<>>,
         prod' = prod, fwd'[p] = Tail(fwd[p]), ret' = ret,
         con'[c].block = <<p, Head(fwd[p])>>, \A e \in Consumers : e # c => con'[e] = con[e]
  PROVE  PoolOK(p)'
<1> DEFINE n == decl.consumers
           b == Head(fwd[p])
           x == 3 + n + c
<1>1. n \in Nat /\ Consumers = 1 .. n /\ fwd[p] \in Seq(Blocks)
  BY DeclFacts, ProducerFields
<1>2. /\ DOMAIN Places(p) = 1 .. 3 + n + n /\ PlaceFacts(p) /\ PlaceFacts(p)' /\ Consumers' = Consumers
  BY BothPlaces
<1>3. /\ Distinct(prod[p].free) /\ Distinct(fwd[p]) /\ \A e \in Consumers : Distinct(ret[p][e])
      /\ CountOK(prod[p], LeasedBlocks(decl))
  BY DEF PoolOK
<1>4. b \in ToSet(fwd[p]) /\ Distinct(Tail(fwd[p])) /\ ToSet(Tail(fwd[p])) = ToSet(fwd[p]) \ {b}
  BY <1>1, <1>3, TailIs
<1>5. HeldBy(c, p) = {} /\ HeldBy(c, p)' = {b}
  <2>1. <<p, b>> # <<>> /\ <<p, b>>[1] = p /\ <<p, b>>[2] = b
    OBVIOUS
  <2> HIDE DEF b
  <2> QED
    BY <2>1 DEF HeldBy, b
<1>6. \A e \in Consumers : e # c => HeldBy(e, p)' = HeldBy(e, p)
  BY DEF HeldBy
<1>7. /\ Places(p)[3] = ToSet(fwd[p]) /\ Places(p)'[3] = ToSet(fwd[p]) \ {b}
      /\ Places(p)'[1] = Places(p)[1] /\ Places(p)'[2] = Places(p)[2]
  BY <1>2, <1>4 DEF PlaceFacts
<1>8. \A e \in 1 .. n : Places(p)[3 + e] = ToSet(ret[p][e]) /\ Places(p)[3 + n + e] = HeldBy(e, p)
  BY <1>2 DEF PlaceFacts
<1>9. \A e \in 1 .. n : Places(p)'[3 + e] = ToSet(ret[p][e]) /\ Places(p)'[3 + n + e] = HeldBy(e, p)'
  BY <1>2 DEF PlaceFacts
<1>10. Distinct(prod'[p].free) /\ Distinct(fwd'[p]) /\ (\A e \in Consumers : Distinct(ret'[p][e])) /\ CountOK(prod'[p], LeasedBlocks(decl))
  BY <1>3, <1>4
<1> HIDE DEF n, b
<1>11. 3 \in DOMAIN Places(p) /\ x \in DOMAIN Places(p) /\ x # 3
  BY <1>1, <1>2, PlaceNumbers
<1>12. Places(p)'[x] = Places(p)[x] \cup {b} /\ b \in Places(p)[3] /\ Places(p)'[3] = Places(p)[3] \ {b}
  BY <1>1, <1>4, <1>5, <1>7, <1>8, <1>9, SMTT(30)
<1>13. /\ \A z \in {1, 2, 3} : z # 3 /\ z # x => Places(p)'[z] = Places(p)[z]
       /\ \A e \in Consumers : 3 + e # 3 /\ 3 + e # x => Places(p)'[3 + e] = Places(p)[3 + e]
       /\ \A e \in Consumers : 3 + n + e # 3 /\ 3 + n + e # x => Places(p)'[3 + n + e] = Places(p)[3 + n + e]
  BY <1>1, <1>6, <1>7, <1>8, <1>9, ZenonT(60)
<1> HIDE DEF x
<1> QED
  BY <1>10, <1>11, <1>12, <1>13, PoolMoves DEF n

\* A consumer that holds a block of p finds room in its return ring.
LEMMA ReturnRoom ==
  ASSUME LeasedType, NEW p \in Producers, PoolOK(p), prod[p].pc # "gone",
         NEW c \in Consumers, NEW b \in Blocks, con[c].block = <<p, b>>
  PROVE  b \notin ToSet(ret[p][c]) /\ Len(ret[p][c]) < ReturnSlots
<1> DEFINE n == decl.consumers
           q == ret[p][c]
           B == Blocks \ {b}
           x == 3 + n + c
           y == 3 + c
<1>1. n \in Nat /\ Consumers = 1 .. n /\ q \in Seq(Blocks) /\ PlaceFacts(p) /\ Parted(Places(p), Blocks) /\ Distinct(q)
  BY DeclFacts, ProducerFields, PlacesAre DEF PoolOK
<1>2. HeldBy(c, p) = {b}
  <2>1. <<p, b>> # <<>> /\ <<p, b>>[1] = p /\ <<p, b>>[2] = b
    OBVIOUS
  <2> QED
    BY <2>1 DEF HeldBy
<1>3. Places(p)[x] = {b} /\ Places(p)[y] = ToSet(q) /\ DOMAIN Places(p) = 1 .. 3 + n + n
  BY <1>1, <1>2 DEF PlaceFacts
<1>4. x \in DOMAIN Places(p) /\ y \in DOMAIN Places(p) /\ x # y
  BY <1>1, <1>3, PlaceNumbers
<1> HIDE DEF x, y
<1>5. b \notin ToSet(q)
  BY <1>1, <1>3, <1>4, PartedOnce
<1>6. \A i \in DOMAIN q : q[i] \in B
  BY <1>1, <1>5 DEF ToSet
<1>7. q \in Seq(B)
  BY <1>1, <1>6
<1>8. IsFiniteSet(B) /\ Cardinality(B) = LeasedBlocks(decl) - 1
  BY DeclFacts, FS_RemoveElement
<1> HIDE DEF q, B
<1>9. Len(q) <= LeasedBlocks(decl) - 1
  BY <1>1, <1>7, <1>8, DistinctCount
<1>10. LeasedBlocks(decl) \in Nat /\ Slots \in Nat /\ LeasedBlocks(decl) <= Slots /\ Len(q) \in Nat
  BY <1>7 DEF LeasedType, Fits
<1>11. Len(q) < ReturnSlots
  BY <1>9, <1>10 DEF ReturnSlots
<1> QED
  BY <1>5, <1>11 DEF q

\* A consumer puts the block it held into its return ring.
LEMMA PoolReleased ==
  ASSUME LeasedType, LeasedType', decl' = decl, NEW p \in Producers, PoolOK(p), prod[p].pc # "gone",
         NEW c \in Consumers, NEW b \in Blocks, con[c].block = <<p, b>>,
         prod' = prod, fwd' = fwd, ret'[p] = [ret[p] EXCEPT ![c] = Append(@, b)],
         con'[c].block = <<>>, \A e \in Consumers : e # c => con'[e] = con[e]
  PROVE  PoolOK(p)'
<1> DEFINE n == decl.consumers
           x == 3 + n + c
           y == 3 + c
<1>1. n \in Nat /\ Consumers = 1 .. n /\ ret[p][c] \in Seq(Blocks) /\ ret[p] \in [Consumers -> Seq(Blocks)]
  BY DeclFacts, ProducerFields
<1>2. /\ DOMAIN Places(p) = 1 .. 3 + n + n /\ PlaceFacts(p) /\ PlaceFacts(p)' /\ Consumers' = Consumers
  BY BothPlaces
<1>3. /\ Distinct(prod[p].free) /\ Distinct(fwd[p]) /\ \A e \in Consumers : Distinct(ret[p][e])
      /\ CountOK(prod[p], LeasedBlocks(decl))
  BY DEF PoolOK
<1>4. Distinct(Append(ret[p][c], b)) /\ ToSet(Append(ret[p][c], b)) = ToSet(ret[p][c]) \cup {b}
  BY <1>1, <1>3, ReturnRoom, AppendIs
<1>5. HeldBy(c, p) = {b} /\ HeldBy(c, p)' = {}
  <2>1. <<p, b>> # <<>> /\ <<p, b>>[1] = p /\ <<p, b>>[2] = b
    OBVIOUS
  <2> QED
    BY <2>1 DEF HeldBy
<1>6. \A e \in Consumers : e # c => HeldBy(e, p)' = HeldBy(e, p)
  BY DEF HeldBy
<1>7. ret'[p][c] = Append(ret[p][c], b) /\ \A e \in Consumers : e # c => ret'[p][e] = ret[p][e]
  BY <1>1
<1>8. Places(p)'[1] = Places(p)[1] /\ Places(p)'[2] = Places(p)[2] /\ Places(p)'[3] = Places(p)[3]
  BY <1>2 DEF PlaceFacts
<1>9. \A e \in 1 .. n : Places(p)[3 + e] = ToSet(ret[p][e]) /\ Places(p)[3 + n + e] = HeldBy(e, p)
  BY <1>2 DEF PlaceFacts
<1>10. \A e \in 1 .. n : Places(p)'[3 + e] = ToSet(ret'[p][e]) /\ Places(p)'[3 + n + e] = HeldBy(e, p)'
  BY <1>2 DEF PlaceFacts
<1>11. /\ Distinct(prod'[p].free) /\ Distinct(fwd'[p]) /\ (\A e \in Consumers : Distinct(ret'[p][e]))
       /\ CountOK(prod'[p], LeasedBlocks(decl))
  BY <1>3, <1>4, <1>7
<1> HIDE DEF n
<1>12. y \in DOMAIN Places(p) /\ x \in DOMAIN Places(p) /\ x # y
  BY <1>1, <1>2, PlaceNumbers
<1>13. Places(p)'[y] = Places(p)[y] \cup {b}
  BY <1>1, <1>4, <1>7, <1>9, <1>10
<1>14. b \in Places(p)[x] /\ Places(p)'[x] = Places(p)[x] \ {b}
  BY <1>1, <1>5, <1>9, <1>10
<1>15. /\ \A z \in {1, 2, 3} : z # x /\ z # y => Places(p)'[z] = Places(p)[z]
       /\ \A e \in Consumers : 3 + e # x /\ 3 + e # y => Places(p)'[3 + e] = Places(p)[3 + e]
       /\ \A e \in Consumers : 3 + n + e # x /\ 3 + n + e # y => Places(p)'[3 + n + e] = Places(p)[3 + n + e]
  <2>1. \A z \in {1, 2, 3} : z # x /\ z # y => Places(p)'[z] = Places(p)[z]
    BY <1>8
  <2>2. \A e \in Consumers : 3 + e # x /\ 3 + e # y => Places(p)'[3 + e] = Places(p)[3 + e]
    <3> SUFFICES ASSUME NEW e \in Consumers, 3 + e # y PROVE Places(p)'[3 + e] = Places(p)[3 + e]
      OBVIOUS
    <3>1. e # c /\ e \in 1 .. n
      BY <1>1
    <3> QED
      BY <1>7, <1>9, <1>10, <3>1
  <2>3. \A e \in Consumers : 3 + n + e # x /\ 3 + n + e # y => Places(p)'[3 + n + e] = Places(p)[3 + n + e]
    <3> SUFFICES ASSUME NEW e \in Consumers, 3 + n + e # x PROVE Places(p)'[3 + n + e] = Places(p)[3 + n + e]
      OBVIOUS
    <3>1. e # c /\ e \in 1 .. n
      BY <1>1
    <3> QED
      BY <1>6, <1>9, <1>10, <3>1
  <2> QED
    BY <2>1, <2>2, <2>3
<1> HIDE DEF x, y
<1> QED
  BY <1>11, <1>12, <1>13, <1>14, <1>15, PoolMoves DEF n

-----------------------------------------------------------------------------
(* The records of the endpoints, field by field.                           *)

\* The end of a call.
LEMMA AnswerIs ==
  ASSUME NEW s \in ProducerState, NEW a \in {"none", "flushed", "abandoned"}, 0 \in 0 .. decl.consumers
  PROVE  LET t == Answer(s, a) IN
         /\ t \in ProducerState /\ t.pc = "idle" /\ t.final = FALSE /\ t.answer = a
         /\ t.free = s.free /\ t.lease = s.lease /\ t.in_flight = s.in_flight
  BY DEF Answer, ProducerState

\* A look at the return rings begins.
LEMMA LookIs ==
  ASSUME NEW s \in ProducerState, NEW f \in BOOLEAN, 0 \in 0 .. decl.consumers
  PROVE  LET t == Look(s, f) IN
         /\ t \in ProducerState /\ t.pc = "look" /\ t.looked = 0 /\ t.final = f /\ t.cursor = s.cursor
         /\ t.answer = s.answer /\ t.free = s.free /\ t.lease = s.lease /\ t.in_flight = s.in_flight
  BY DEF Look, ProducerState

\* A block is lent.
LEMMA LendIs ==
  ASSUME NEW s \in ProducerState, 0 \in 0 .. decl.consumers
  PROVE  LET t == Lend(s, s.lease) IN
         /\ t \in ProducerState /\ t.pc = "lent" /\ t.final = FALSE /\ t.answer = "none"
         /\ t.free = s.free /\ t.lease = s.lease /\ t.in_flight = s.in_flight
  BY DEF Lend, Answer, ProducerState, Leasing

\* The lease is put back.
LEMMA ToFreeIs ==
  ASSUME NEW s \in ProducerState, s.lease # 0
  PROVE  LET t == ToFree(s) IN
         /\ t \in ProducerState /\ t.pc = s.pc /\ t.final = s.final /\ t.answer = s.answer
         /\ t.looked = s.looked /\ t.cursor = s.cursor
         /\ t.free = Append(s.free, s.lease) /\ t.lease = 0 /\ t.in_flight = s.in_flight
<1>1. s.lease \in Blocks /\ s.free \in Seq(Blocks)
  BY DEF ProducerState
<1>2. Append(s.free, s.lease) \in Seq(Blocks)
  BY <1>1
<1> QED
  BY <1>2 DEF ToFree, ProducerState

\* A cursor stays below the number of rings.
LEMMA CursorIs ==
  ASSUME NEW n \in Nat \ {0}, NEW i \in 0 .. n - 1
  PROVE  /\ NextCursor(i, n) \in 0 .. n - 1
         /\ NextCursor(i, n) = IF i + 1 = n THEN 0 ELSE i + 1
<1>1. CASE i + 1 = n
  <2>1. n % n = 0
    BY SMT
  <2> QED
    BY <1>1, <2>1 DEF NextCursor
<1>2. CASE i + 1 # n
  <2>1. i + 1 \in 0 .. n - 1
    BY <1>2
  <2>2. (i + 1) % n = i + 1
    BY <2>1, SMT
  <2> QED
    BY <1>2, <2>1, <2>2 DEF NextCursor
<1> QED
  BY <1>1, <1>2

\* Nothing is behind a look that begins, and everything behind one that ends.
LEMMA PassedEnds ==
  ASSUME NEW n \in Nat \ {0}, NEW i \in 0 .. n - 1, NEW c \in 1 .. n
  PROVE  ~Passed(c, i, 0, n) /\ Passed(c, i, n, n)
  BY DEF Passed

\* A look passes one ring at a time.
LEMMA PassedNext ==
  ASSUME NEW n \in Nat \ {0}, NEW i \in 0 .. n - 1, NEW k \in 0 .. n - 1, NEW c \in 1 .. n,
         Passed(c, NextCursor(i, n), k + 1, n)
  PROVE  Passed(c, i, k, n) \/ c = i + 1
<1>1. CASE i + 1 = n
  BY <1>1, CursorIs DEF Passed
<1>2. CASE i + 1 # n
  BY <1>2, CursorIs DEF Passed
<1> QED
  BY <1>1, <1>2

-----------------------------------------------------------------------------
(* Frames.                                                                 *)

\* What a step of a producer has to keep.
LEMMA ProducerTypes ==
  ASSUME LeasedType, decl' = decl, NEW p \in Producers, NEW t \in ProducerState,
         prod' = [prod EXCEPT ![p] = t], con' = con,
         fwd' \in [Producers -> Seq(Blocks)], ret' \in [Producers -> [Consumers -> Seq(Blocks)]]
  PROVE  /\ LeasedType' /\ prod'[p] = t /\ \A q \in Producers : q # p => prod'[q] = prod[q]
         /\ Producers' = Producers /\ Consumers' = Consumers /\ Blocks' = Blocks
<1>1. Producers' = Producers /\ Consumers' = Consumers /\ Blocks' = Blocks /\ ProducerState' = ProducerState
      /\ ConsumerState' = ConsumerState /\ Fits' = Fits
  BY DEF Producers, Consumers, Blocks, ProducerState, ConsumerState, Fits, Slots
<1>2. prod \in [Producers -> ProducerState] /\ con \in [Consumers -> ConsumerState] /\ Fits
  BY DEF LeasedType
<1>3. prod' \in [Producers -> ProducerState]
  BY <1>2
<1>4. LeasedType'
  BY <1>1, <1>2, <1>3 DEF LeasedType
<1>5. prod'[p] = t /\ \A q \in Producers : q # p => prod'[q] = prod[q]
  BY <1>2
<1> QED
  BY <1>1, <1>4, <1>5

\* A step of one producer leaves the other pools alone.
LEMMA ProducerFrame ==
  ASSUME OpenInv, LeasedType', decl' = decl, NEW p \in Producers, con' = con, live_consumers' = live_consumers,
         \A q \in Producers : q # p => prod'[q] = prod[q] /\ fwd'[q] = fwd[q] /\ ret'[q] = ret[q],
         ProducerOK(p)', PoolOK(p)'
  PROVE  OpenInv'
<1>1. Producers' = Producers /\ Consumers' = Consumers /\ Blocks' = Blocks
  BY DEF Producers, Consumers, Blocks
<1>2. LeasedType /\ ConsumersOK /\ \A q \in Producers : ProducerOK(q) /\ PoolOK(q)
  BY DEF OpenInv
<1>3. ConsumersOK'
  BY <1>1, <1>2 DEF ConsumersOK, Left
<1>4. ASSUME NEW q \in Producers, q # p PROVE ProducerOK(q)' /\ PoolOK(q)'
  <2>1. prod'[q] = prod[q] /\ fwd'[q] = fwd[q] /\ ret'[q] = ret[q] /\ ProducerOK(q) /\ PoolOK(q)
    BY <1>2, <1>4
  <2>2. ProducerOK(q)'
    BY <1>1, <2>1 DEF ProducerOK
  <2>3. \A c \in Consumers : HeldBy(c, q)' = HeldBy(c, q)
    BY DEF HeldBy
  <2>4. PoolOK(q)'
    BY <1>2, <2>1, <2>3, PoolStays
  <2> QED
    BY <2>2, <2>4
<1>5. \A q \in Producers : ProducerOK(q)' /\ PoolOK(q)'
  BY <1>4
<1> QED
  BY <1>1, <1>3, <1>5 DEF OpenInv

\* A step of a producer that moves none of its blocks.
LEMMA ProducerQuiet ==
  ASSUME OpenInv, decl' = decl, NEW p \in Producers, NEW t \in ProducerState, prod' = [prod EXCEPT ![p] = t],
         con' = con, fwd' = fwd, ret' = ret, live_consumers' = live_consumers,
         prod[p].pc # "gone", t.pc = "gone" \/ t.free = prod[p].free,
         t.lease = prod[p].lease, t.in_flight = prod[p].in_flight,
         LeaseOK(t, decl.consumers), DrainOK(t, ret[p], live_consumers, decl.consumers),
         AnswerOK(t, fwd[p], live_consumers, Blocks)
  PROVE  OpenInv'
<1>1. LeasedType /\ PoolOK(p)
  BY DEF OpenInv
<1>2. fwd \in [Producers -> Seq(Blocks)] /\ ret \in [Producers -> [Consumers -> Seq(Blocks)]]
  BY <1>1 DEF LeasedType
<1>3. /\ LeasedType' /\ prod'[p] = t /\ \A q \in Producers : q # p => prod'[q] = prod[q]
      /\ Producers' = Producers /\ Consumers' = Consumers /\ Blocks' = Blocks
  BY <1>1, <1>2, ProducerTypes
<1>4. ProducerOK(p)'
  BY <1>3 DEF ProducerOK
<1>5. \A c \in Consumers : HeldBy(c, p)' = HeldBy(c, p)
  BY DEF HeldBy
<1>6. PoolOK(p)'
  BY <1>1, <1>3, <1>5, PoolStays
<1> QED
  BY <1>3, <1>4, <1>6, ProducerFrame

\* A step of a producer that puts its lease on the free list.
LEMMA ProducerFrees ==
  ASSUME OpenInv, decl' = decl, NEW p \in Producers, NEW t \in ProducerState, prod' = [prod EXCEPT ![p] = t],
         con' = con, fwd' = fwd, ret' = ret, live_consumers' = live_consumers,
         prod[p].pc # "gone", prod[p].lease # 0, t.free = Append(prod[p].free, prod[p].lease),
         t.lease = 0, t.in_flight = prod[p].in_flight,
         LeaseOK(t, decl.consumers), DrainOK(t, ret[p], live_consumers, decl.consumers),
         AnswerOK(t, fwd[p], live_consumers, Blocks)
  PROVE  OpenInv'
<1>1. LeasedType /\ PoolOK(p)
  BY DEF OpenInv
<1>2. fwd \in [Producers -> Seq(Blocks)] /\ ret \in [Producers -> [Consumers -> Seq(Blocks)]]
  BY <1>1 DEF LeasedType
<1>3. /\ LeasedType' /\ prod'[p] = t /\ \A q \in Producers : q # p => prod'[q] = prod[q]
      /\ Producers' = Producers /\ Consumers' = Consumers /\ Blocks' = Blocks
  BY <1>1, <1>2, ProducerTypes
<1>4. ProducerOK(p)'
  BY <1>3 DEF ProducerOK
<1>5. PoolOK(p)'
  BY <1>1, <1>3, PoolFreed
<1> QED
  BY <1>3, <1>4, <1>5, ProducerFrame

\* What a producer's own step starts from.
LEMMA ProducerFacts ==
  ASSUME OpenInv, NEW p \in Producers
  PROVE  /\ prod[p] \in ProducerState /\ 0 \in 0 .. decl.consumers /\ LeasedType
         /\ PoolOK(p) /\ LeaseOK(prod[p], decl.consumers)
         /\ DrainOK(prod[p], ret[p], live_consumers, decl.consumers)
         /\ AnswerOK(prod[p], fwd[p], live_consumers, Blocks)
<1>1. LeasedType /\ PoolOK(p) /\ ProducerOK(p)
  BY DEF OpenInv
<1>2. prod[p] \in ProducerState /\ decl.consumers \in Nat
  BY <1>1, ProducerFields, DeclFacts
<1> QED
  BY <1>1, <1>2 DEF ProducerOK

\* A call begins.
LEMMA CallKeeps ==
  ASSUME OpenInv, decl' = decl, NEW p \in Producers, NEW call \in {"reserve", "flush"}, Call(p, call)
  PROVE  OpenInv'
<1> DEFINE s == [prod[p] EXCEPT !.call = call, !.answer = "none"]
           g == [s EXCEPT !.pc = "gate"]
           t == IF Reserving(s) THEN g ELSE Look(s, FALSE)
<1>1. /\ prod[p] \in ProducerState /\ 0 \in 0 .. decl.consumers
      /\ LeaseOK(prod[p], decl.consumers) /\ DrainOK(prod[p], ret[p], live_consumers, decl.consumers)
  BY ProducerFacts
<1>2. /\ s \in ProducerState /\ s.answer = "none" /\ s.free = prod[p].free /\ s.lease = prod[p].lease
      /\ s.in_flight = prod[p].in_flight /\ s.pc = prod[p].pc /\ s.final = prod[p].final
  BY <1>1 DEF ProducerState
<1>3. prod[p].pc = "idle"
  BY <1>2 DEF Call
<1>4. prod' = [prod EXCEPT ![p] = t] /\ con' = con /\ fwd' = fwd /\ ret' = ret /\ live_consumers' = live_consumers
  BY DEF Call, pools
<1> HIDE DEF s
<1>5. /\ g \in ProducerState /\ g.pc = "gate" /\ g.answer = "none" /\ g.free = s.free /\ g.lease = s.lease
      /\ g.in_flight = s.in_flight /\ g.final = s.final
  BY <1>2 DEF ProducerState
<1>6. /\ Look(s, FALSE) \in ProducerState /\ Look(s, FALSE).pc = "look" /\ Look(s, FALSE).answer = "none"
      /\ Look(s, FALSE).free = s.free /\ Look(s, FALSE).lease = s.lease
      /\ Look(s, FALSE).in_flight = s.in_flight /\ Look(s, FALSE).final = FALSE
  BY <1>1, <1>2, LookIs
<1>7. /\ t \in ProducerState /\ t.pc \in {"gate", "look"} /\ t.answer = "none" /\ t.free = prod[p].free
      /\ t.lease = prod[p].lease /\ t.in_flight = prod[p].in_flight
      /\ t.final => t.pc = "gate" /\ prod[p].final
  BY <1>2, <1>5, <1>6
<1> HIDE DEF t
<1>8. LeaseOK(t, decl.consumers) /\ DrainOK(t, ret[p], live_consumers, decl.consumers) /\ AnswerOK(t, fwd[p], live_consumers, Blocks)
  BY <1>1, <1>3, <1>7 DEF LeaseOK, DrainOK, AnswerOK, Leasing
<1> QED
  BY <1>3, <1>4, <1>7, <1>8, ProducerQuiet

\* The gate of reserve.
LEMMA GateKeeps ==
  ASSUME OpenInv, decl' = decl, NEW p \in Producers, Gate(p)
  PROVE  OpenInv'
<1> DEFINE s == prod[p]
           t == IF live_consumers = 0 THEN Answer(s, "none") ELSE Look(s, FALSE)
<1>1. s \in ProducerState /\ 0 \in 0 .. decl.consumers /\ LeaseOK(s, decl.consumers)
  BY ProducerFacts
<1>2. s.pc = "gate" /\ prod' = [prod EXCEPT ![p] = t] /\ con' = con /\ fwd' = fwd /\ ret' = ret
      /\ live_consumers' = live_consumers
  BY DEF Gate, pools
<1>3. /\ t \in ProducerState /\ t.pc \in {"idle", "look"} /\ t.answer = "none" /\ t.free = s.free
      /\ t.lease = s.lease /\ t.in_flight = s.in_flight /\ t.final = FALSE
  <2>1. s.answer = "none"
    BY <1>1, <1>2 DEF LeaseOK
  <2> DEFINE a == Answer(s, "none")
             l == Look(s, FALSE)
  <2>2. /\ a \in ProducerState /\ a.pc = "idle" /\ a.answer = "none" /\ a.free = s.free
        /\ a.lease = s.lease /\ a.in_flight = s.in_flight /\ a.final = FALSE
    BY <1>1, AnswerIs
  <2>3. /\ l \in ProducerState /\ l.pc = "look" /\ l.answer = "none" /\ l.free = s.free
        /\ l.lease = s.lease /\ l.in_flight = s.in_flight /\ l.final = FALSE
    BY <1>1, <2>1, LookIs
  <2> HIDE DEF a, l
  <2>4. t = a \/ t = l
    BY DEF a, l
  <2> HIDE DEF t
  <2> QED
    BY <2>2, <2>3, <2>4
<1> HIDE DEF t
<1>4. LeaseOK(t, decl.consumers) /\ DrainOK(t, ret[p], live_consumers, decl.consumers) /\ AnswerOK(t, fwd[p], live_consumers, Blocks)
  BY <1>1, <1>2, <1>3 DEF LeaseOK, DrainOK, AnswerOK, Leasing
<1> QED
  BY <1>2, <1>3, <1>4, ProducerQuiet

\* The end of a call that got nothing.
LEMMA GiveUpKeeps ==
  ASSUME OpenInv, decl' = decl, NEW p \in Producers, GiveUp(p)
  PROVE  OpenInv'
<1> DEFINE s == prod[p]
           t == Answer(s, "none")
<1>1. s \in ProducerState /\ 0 \in 0 .. decl.consumers /\ LeaseOK(s, decl.consumers)
  BY ProducerFacts
<1>2. s.pc = "look" /\ prod' = [prod EXCEPT ![p] = t] /\ con' = con /\ fwd' = fwd /\ ret' = ret
      /\ live_consumers' = live_consumers
  BY DEF GiveUp, pools
<1>3. /\ t \in ProducerState /\ t.pc = "idle" /\ t.answer = "none" /\ t.free = s.free
      /\ t.lease = s.lease /\ t.in_flight = s.in_flight /\ t.final = FALSE
  BY <1>1, AnswerIs
<1> HIDE DEF t
<1>4. LeaseOK(t, decl.consumers) /\ DrainOK(t, ret[p], live_consumers, decl.consumers) /\ AnswerOK(t, fwd[p], live_consumers, Blocks)
  BY <1>1, <1>2, <1>3 DEF LeaseOK, DrainOK, AnswerOK, Leasing
<1> QED
  BY <1>2, <1>3, <1>4, ProducerQuiet

\* A flush answers, or looks again.
LEMMA FlushKeeps ==
  ASSUME OpenInv, decl' = decl, NEW p \in Producers, Flush(p)
  PROVE  OpenInv'
<1> DEFINE s == prod[p]
           n == decl.consumers
<1>1. /\ s \in ProducerState /\ 0 \in 0 .. n /\ LeaseOK(s, n) /\ PoolOK(p) /\ LeasedType
      /\ DrainOK(s, ret[p], live_consumers, n)
  BY ProducerFacts
<1>2. /\ s.pc = "flush" /\ con' = con /\ fwd' = fwd /\ ret' = ret /\ live_consumers' = live_consumers
      /\ prod' = [prod EXCEPT ![p] = IF s.in_flight = 0 THEN Answer(s, "flushed")
                                     ELSE IF s.final THEN Answer(s, "abandoned") ELSE Look(s, live_consumers = 0)]
  BY DEF Flush, pools
<1>3. s.lease = 0 /\ s.answer = "none" /\ s.looked = n
  BY <1>1, <1>2 DEF LeaseOK, Leasing
<1>4. n \in Nat \ {0} /\ s.cursor \in 0 .. n - 1 /\ IsFiniteSet(Blocks) /\ Cardinality(Blocks) = LeasedBlocks(decl)
      /\ LeasedBlocks(decl) \in Nat /\ s.free \in Seq(Blocks) /\ Consumers = 1 .. n
  BY <1>1, DeclFacts, ProducerFields
<1>5. CASE s.in_flight = 0
  <2> DEFINE t == Answer(s, "flushed")
  <2>1. /\ t \in ProducerState /\ t.pc = "idle" /\ t.answer = "flushed" /\ t.free = s.free
        /\ t.lease = s.lease /\ t.in_flight = s.in_flight /\ t.final = FALSE
    BY <1>1, AnswerIs
  <2>2. Distinct(s.free) /\ CountOK(s, LeasedBlocks(decl))
    BY <1>1, <1>2 DEF PoolOK
  <2>3. Len(s.free) = Cardinality(Blocks)
    BY <1>3, <1>4, <1>5, <2>2 DEF CountOK
  <2>4. ToSet(s.free) = Blocks
    BY <1>4, <2>2, <2>3, DistinctCount
  <2>5. prod' = [prod EXCEPT ![p] = t]
    BY <1>2, <1>5
  <2> HIDE DEF t
  <2>6. LeaseOK(t, n) /\ DrainOK(t, ret[p], live_consumers, n) /\ AnswerOK(t, fwd[p], live_consumers, Blocks)
    BY <1>3, <2>1, <2>4 DEF LeaseOK, DrainOK, AnswerOK, Leasing
  <2> QED
    BY <1>2, <2>1, <2>5, <2>6, ProducerQuiet
<1>6. CASE s.in_flight # 0 /\ s.final
  <2> DEFINE t == Answer(s, "abandoned")
  <2>1. /\ t \in ProducerState /\ t.pc = "idle" /\ t.answer = "abandoned" /\ t.free = s.free
        /\ t.lease = s.lease /\ t.in_flight = s.in_flight /\ t.final = FALSE
    BY <1>1, AnswerIs
  <2>2. live_consumers = 0 /\ \A c \in 1 .. n : Passed(c, s.cursor, n, n) => ret[p][c] = <<>>
    BY <1>1, <1>2, <1>3, <1>6 DEF DrainOK
  <2>3. \A c \in Consumers : ToSet(ret[p][c]) = {}
    BY <1>4, <2>2, PassedEnds, EmptyIs
  <2>4. \A c \in Consumers : HeldBy(c, p) = {}
    <3>1. ConsumersOK
      BY DEF OpenInv
    <3>2. IsFiniteSet(Left) /\ Cardinality(Left) = 0
      BY <1>1, <2>2, <3>1, DeclFacts, FS_Subset DEF ConsumersOK, Left
    <3>3. Left = {}
      BY <3>2, FS_EmptySet
    <3>4. \A c \in Consumers : con[c].block = <<>>
      BY <3>1, <3>3 DEF ConsumersOK, HoldOK, Left
    <3> QED
      BY <3>4 DEF HeldBy
  <2>5. ASSUME NEW b \in Blocks PROVE b \in ToSet(s.free) \cup ToSet(fwd[p])
    <3>1. PICK i \in DOMAIN Places(p) : b \in Places(p)[i]
      BY <1>1, <1>2 DEF PoolOK, Parted
    <3>2. PlaceFacts(p)
      BY <1>1, PlacesAre
    <3>3. i \in 1 .. 3 + n + n
      BY <3>1, <3>2 DEF PlaceFacts
    <3>4. i \in {1, 2, 3} \/ (\E c \in 1 .. n : i = 3 + c) \/ (\E c \in 1 .. n : i = 3 + n + c)
      <4>1. n \in Nat
        BY <1>4
      <4> HIDE DEF n
      <4>2. \A z \in 1 .. 3 + n + n : z \in {1, 2, 3} \/ (\E c \in 1 .. n : z = 3 + c) \/ (\E c \in 1 .. n : z = 3 + n + c)
        BY <4>1, PlaceNumbers
      <4> QED
        BY <3>3, <4>2
    <3>5. Places(p)[2] = {} /\ \A c \in 1 .. n : Places(p)[3 + c] = {} /\ Places(p)[3 + n + c] = {}
      BY <1>3, <1>4, <2>3, <2>4, <3>2 DEF PlaceFacts
    <3>6. Places(p)[1] = ToSet(s.free) /\ Places(p)[3] = ToSet(fwd[p])
      BY <3>2 DEF PlaceFacts
    <3> QED
      BY <3>1, <3>4, <3>5, <3>6
  <2>6. ToSet(s.free) \cup ToSet(fwd[p]) = Blocks
    BY <1>1, <2>5, ToSetType, ProducerFields
  <2>7. prod' = [prod EXCEPT ![p] = t]
    BY <1>2, <1>6
  <2> HIDE DEF t
  <2>8. LeaseOK(t, n) /\ DrainOK(t, ret[p], live_consumers, n) /\ AnswerOK(t, fwd[p], live_consumers, Blocks)
    BY <1>3, <2>1, <2>2, <2>6 DEF LeaseOK, DrainOK, AnswerOK, Leasing
  <2> QED
    BY <1>2, <2>1, <2>7, <2>8, ProducerQuiet
<1>7. CASE s.in_flight # 0 /\ ~s.final
  <2> DEFINE f == live_consumers = 0
             t == Look(s, f)
  <2>1. /\ t \in ProducerState /\ t.pc = "look" /\ t.answer = "none" /\ t.free = s.free /\ t.looked = 0
        /\ t.lease = s.lease /\ t.in_flight = s.in_flight /\ t.final = f /\ t.cursor = s.cursor
    BY <1>1, <1>3, LookIs
  <2>2. prod' = [prod EXCEPT ![p] = t]
    BY <1>2, <1>7
  <2> HIDE DEF t
  <2>3. \A c \in 1 .. n : ~Passed(c, t.cursor, t.looked, n)
    BY <1>4, <2>1, PassedEnds
  <2>4. LeaseOK(t, n) /\ DrainOK(t, ret[p], live_consumers, n) /\ AnswerOK(t, fwd[p], live_consumers, Blocks)
    BY <1>3, <2>1, <2>3 DEF LeaseOK, DrainOK, AnswerOK, Leasing
  <2> QED
    BY <1>2, <2>1, <2>2, <2>4, ProducerQuiet
<1> QED
  BY <1>5, <1>6, <1>7

\* A look finds a return ring empty, or takes its first block.
LEMMA ReturnedKeeps ==
  ASSUME OpenInv, decl' = decl, NEW p \in Producers, Returned(p)
  PROVE  OpenInv'
<1> DEFINE s == prod[p]
           n == decl.consumers
           c == s.cursor + 1
           q == ret[p][c]
           next == [s EXCEPT !.cursor = NextCursor(@, n)]
<1>1. /\ s \in ProducerState /\ 0 \in 0 .. n /\ LeaseOK(s, n) /\ PoolOK(p) /\ LeasedType
      /\ DrainOK(s, ret[p], live_consumers, n)
  BY ProducerFacts
<1>2. /\ s.pc = "look" /\ s.looked < n /\ con' = con /\ fwd' = fwd /\ live_consumers' = live_consumers
      /\ IF q = <<>>
         THEN prod' = [prod EXCEPT ![p] = [next EXCEPT !.looked = @ + 1]] /\ ret' = ret
         ELSE /\ ret' = [ret EXCEPT ![p][c] = Tail(q)]
              /\ prod' = [prod EXCEPT ![p] = [next EXCEPT !.in_flight = @ - 1, !.lease = Head(q), !.pc = "clear"]]
  BY DEF Returned
<1>3. s.lease = 0 /\ s.answer = "none"
  BY <1>1, <1>2 DEF LeaseOK, Leasing
<1>4. n \in Nat \ {0} /\ s.cursor \in 0 .. n - 1 /\ Consumers = 1 .. n /\ s.looked \in 0 .. n
      /\ \A e \in Consumers : ret[p][e] \in Seq(Blocks)
  BY <1>1, DeclFacts, ProducerFields
<1>5. NextCursor(s.cursor, n) \in 0 .. n - 1 /\ c \in Consumers
  BY <1>4, CursorIs
<1>6. /\ next \in ProducerState /\ next.pc = "look" /\ next.answer = "none" /\ next.free = s.free
      /\ next.lease = s.lease /\ next.in_flight = s.in_flight /\ next.final = s.final /\ next.looked = s.looked
      /\ next.cursor = NextCursor(s.cursor, n)
  BY <1>1, <1>2, <1>3, <1>5 DEF ProducerState
<1>7. CASE q = <<>>
  <2> DEFINE t == [next EXCEPT !.looked = @ + 1]
  <2>1. prod' = [prod EXCEPT ![p] = t] /\ ret' = ret
    BY <1>2, <1>7
  <2> HIDE DEF next
  <2>2. s.looked + 1 \in 0 .. n
    BY <1>2, <1>4
  <2>3. /\ t \in ProducerState /\ t.pc = "look" /\ t.answer = "none" /\ t.free = s.free
        /\ t.lease = s.lease /\ t.in_flight = s.in_flight /\ t.final = s.final /\ t.looked = s.looked + 1
        /\ t.cursor = NextCursor(s.cursor, n)
    BY <1>6, <2>2 DEF ProducerState
  <2> HIDE DEF t
  <2>4. ASSUME s.final, NEW e \in 1 .. n, Passed(e, t.cursor, t.looked, n) PROVE ret[p][e] = <<>>
    <3>1. Passed(e, s.cursor, s.looked, n) \/ e = c
      BY <1>2, <1>4, <2>3, <2>4, PassedNext
    <3>2. Passed(e, s.cursor, s.looked, n) => ret[p][e] = <<>>
      BY <1>1, <1>2, <2>4 DEF DrainOK
    <3> QED
      BY <1>7, <3>1, <3>2
  <2>5. DrainOK(t, ret[p], live_consumers, n)
    BY <1>1, <2>3, <2>4 DEF DrainOK
  <2>6. LeaseOK(t, n) /\ AnswerOK(t, fwd[p], live_consumers, Blocks)
    BY <1>3, <2>3 DEF LeaseOK, AnswerOK, Leasing
  <2> QED
    BY <1>2, <2>1, <2>3, <2>5, <2>6, ProducerQuiet
<1>8. CASE q # <<>>
  <2> DEFINE t == [next EXCEPT !.in_flight = @ - 1, !.lease = Head(q), !.pc = "clear"]
  <2>1. prod' = [prod EXCEPT ![p] = t] /\ ret' = [ret EXCEPT ![p][c] = Tail(q)]
    BY <1>2, <1>8
  <2> HIDE DEF next
  <2>2. Head(q) \in Blocks /\ Tail(q) \in Seq(Blocks) /\ next.in_flight - 1 \in Int
    BY <1>4, <1>5, <1>6, <1>8, TailIs, SMTT(30) DEF ProducerState
  <2>3. /\ t \in ProducerState /\ t.pc = "clear" /\ t.answer = "none" /\ t.free = s.free
        /\ t.lease = Head(q) /\ t.in_flight = s.in_flight - 1 /\ t.final = s.final
    BY <1>6, <2>2 DEF ProducerState, Leasing
  <2> HIDE DEF t, c
  <2>4. fwd \in [Producers -> Seq(Blocks)] /\ ret \in [Producers -> [Consumers -> Seq(Blocks)]]
    BY <1>1 DEF LeasedType
  <2>5. /\ ret' \in [Producers -> [Consumers -> Seq(Blocks)]]
        /\ ret'[p] = [ret[p] EXCEPT ![c] = Tail(@)]
        /\ \A e \in Producers : e # p => ret'[e] = ret[e]
    BY <1>5, <2>1, <2>2, <2>4
  <2>6. /\ LeasedType' /\ prod'[p] = t /\ \A e \in Producers : e # p => prod'[e] = prod[e]
        /\ Producers' = Producers /\ Consumers' = Consumers /\ Blocks' = Blocks
    BY <1>1, <1>2, <2>1, <2>3, <2>4, <2>5, ProducerTypes
  <2>7. PoolOK(p)'
    BY <1>1, <1>2, <1>3, <1>5, <1>8, <2>3, <2>5, <2>6, PoolReturned
  <2>8. t.lease # 0
    BY <1>1, <2>2, <2>3, DeclFacts
  <2>9. LeaseOK(t, n) /\ AnswerOK(t, fwd'[p], live_consumers, Blocks) /\ DrainOK(t, ret'[p], live_consumers, n)
    BY <1>1, <2>3, <2>8 DEF LeaseOK, DrainOK, AnswerOK, Leasing
  <2>10. ProducerOK(p)'
    BY <1>2, <2>6, <2>9 DEF ProducerOK
  <2> QED
    BY <1>2, <2>5, <2>6, <2>7, <2>10, ProducerFrame
<1> QED
  BY <1>7, <1>8

\* Nothing came back.
LEMMA NoneReturnedKeeps ==
  ASSUME OpenInv, decl' = decl, NEW p \in Producers, NoneReturned(p)
  PROVE  OpenInv'
<1> DEFINE s == prod[p]
           n == decl.consumers
           f == [s EXCEPT !.pc = "flush"]
           g == [s EXCEPT !.pc = "gate"]
           l == [s EXCEPT !.free = Front(@), !.lease = Last(s.free), !.pc = "clear"]
<1>1. /\ s \in ProducerState /\ LeaseOK(s, n) /\ PoolOK(p) /\ LeasedType
      /\ DrainOK(s, ret[p], live_consumers, n)
  BY ProducerFacts
<1>2. /\ s.pc = "look" /\ s.looked = n /\ con' = con /\ fwd' = fwd /\ ret' = ret /\ live_consumers' = live_consumers
      /\ prod' = [prod EXCEPT ![p] = IF ~Reserving(s) THEN f ELSE IF s.free # <<>> THEN l ELSE g]
  BY DEF NoneReturned, pools
<1>3. s.lease = 0 /\ s.answer = "none"
  BY <1>1, <1>2 DEF LeaseOK, Leasing
<1>4. CASE ~Reserving(s) \/ s.free = <<>>
  <2> DEFINE t == IF ~Reserving(s) THEN f ELSE g
  <2>1. prod' = [prod EXCEPT ![p] = t]
    BY <1>2, <1>4
  <2>2. /\ f \in ProducerState /\ f.pc = "flush" /\ f.answer = "none" /\ f.free = s.free /\ f.cursor = s.cursor
        /\ f.lease = s.lease /\ f.in_flight = s.in_flight /\ f.final = s.final /\ f.looked = n
    BY <1>1, <1>2, <1>3 DEF ProducerState
  <2>3. /\ g \in ProducerState /\ g.pc = "gate" /\ g.answer = "none" /\ g.free = s.free /\ g.cursor = s.cursor
        /\ g.lease = s.lease /\ g.in_flight = s.in_flight /\ g.final = s.final /\ g.looked = n
    BY <1>1, <1>2, <1>3 DEF ProducerState
  <2> HIDE DEF f, g
  <2>4. /\ t \in ProducerState /\ t.pc \in {"flush", "gate"} /\ t.answer = "none" /\ t.free = s.free /\ t.cursor = s.cursor
        /\ t.lease = s.lease /\ t.in_flight = s.in_flight /\ t.final = s.final /\ t.looked = n
    BY <2>2, <2>3
  <2> HIDE DEF t
  <2>5. DrainOK(t, ret[p], live_consumers, n)
    BY <1>1, <1>2, <2>4 DEF DrainOK
  <2>6. LeaseOK(t, n) /\ AnswerOK(t, fwd[p], live_consumers, Blocks)
    BY <1>3, <2>4 DEF LeaseOK, AnswerOK, Leasing
  <2> QED
    BY <1>2, <2>1, <2>4, <2>5, <2>6, ProducerQuiet
<1>5. CASE Reserving(s) /\ s.free # <<>>
  <2>1. prod' = [prod EXCEPT ![p] = l]
    BY <1>2, <1>5
  <2>2. s.free \in Seq(Blocks)
    BY <1>1, ProducerFields
  <2>3. Front(s.free) \in Seq(Blocks) /\ Last(s.free) \in Blocks
    BY <1>5, <2>2, FrontIs
  <2>4. /\ l \in ProducerState /\ l.pc = "clear" /\ l.answer = "none" /\ l.free = Front(s.free)
        /\ l.lease = Last(s.free) /\ l.in_flight = s.in_flight /\ l.final = s.final
    BY <1>1, <1>3, <2>3 DEF ProducerState, Leasing
  <2> HIDE DEF l
  <2>5. fwd' \in [Producers -> Seq(Blocks)] /\ ret' \in [Producers -> [Consumers -> Seq(Blocks)]]
    BY <1>1, <1>2 DEF LeasedType
  <2>6. /\ LeasedType' /\ prod'[p] = l /\ \A e \in Producers : e # p => prod'[e] = prod[e]
        /\ Producers' = Producers /\ Consumers' = Consumers /\ Blocks' = Blocks
    BY <1>1, <1>2, <2>1, <2>4, <2>5, ProducerTypes
  <2>7. PoolOK(p)'
    BY <1>1, <1>2, <1>3, <1>5, <2>4, <2>6, PoolReserved
  <2>8. l.lease # 0
    BY <1>1, <2>3, <2>4, DeclFacts
  <2>9. LeaseOK(l, n) /\ AnswerOK(l, fwd'[p], live_consumers, Blocks) /\ DrainOK(l, ret'[p], live_consumers, n)
    BY <1>1, <2>4, <2>8 DEF LeaseOK, DrainOK, AnswerOK, Leasing
  <2>10. ProducerOK(p)'
    BY <1>2, <2>6, <2>9 DEF ProducerOK
  <2> QED
    BY <1>2, <2>6, <2>7, <2>10, ProducerFrame
<1> QED
  BY <1>4, <1>5

\* The values of the block are destroyed.
LEMMA ClearKeeps ==
  ASSUME OpenInv, decl' = decl, NEW p \in Producers, Clear(p)
  PROVE  OpenInv'
<1> DEFINE s == prod[p]
           n == decl.consumers
<1>1. /\ s \in ProducerState /\ 0 \in 0 .. n /\ LeaseOK(s, n) /\ LeasedType
      /\ DrainOK(s, ret[p], live_consumers, n)
  BY ProducerFacts
<1>2. /\ s.pc = "clear" /\ con' = con /\ fwd' = fwd /\ ret' = ret /\ live_consumers' = live_consumers
      /\ prod' = [prod EXCEPT ![p] = IF Reserving(s) THEN Lend(s, s.lease) ELSE Look(ToFree(s), s.final)]
  BY DEF Clear
<1>3. s.lease # 0 /\ s.answer = "none"
  BY <1>1, <1>2 DEF LeaseOK, Leasing
<1>4. CASE Reserving(s)
  <2> DEFINE t == Lend(s, s.lease)
  <2>1. /\ t \in ProducerState /\ t.pc = "lent" /\ t.answer = "none" /\ t.free = s.free
        /\ t.lease = s.lease /\ t.in_flight = s.in_flight /\ t.final = FALSE
    BY <1>1, LendIs
  <2>2. prod' = [prod EXCEPT ![p] = t]
    BY <1>2, <1>4
  <2> HIDE DEF t
  <2>3. LeaseOK(t, n) /\ DrainOK(t, ret[p], live_consumers, n) /\ AnswerOK(t, fwd[p], live_consumers, Blocks)
    BY <1>3, <2>1 DEF LeaseOK, DrainOK, AnswerOK, Leasing
  <2> QED
    BY <1>2, <2>1, <2>2, <2>3, ProducerQuiet
<1>5. CASE ~Reserving(s)
  <2> DEFINE u == ToFree(s)
             t == Look(u, s.final)
  <2>1. /\ u \in ProducerState /\ u.answer = "none" /\ u.free = Append(s.free, s.lease)
        /\ u.lease = 0 /\ u.in_flight = s.in_flight /\ u.cursor = s.cursor
    BY <1>1, <1>3, ToFreeIs
  <2>2. s.final \in BOOLEAN /\ s.cursor \in 0 .. n - 1 /\ n \in Nat \ {0}
    BY <1>1, ProducerFields, DeclFacts
  <2>3. prod' = [prod EXCEPT ![p] = t]
    BY <1>2, <1>5
  <2> HIDE DEF u
  <2>4. /\ t \in ProducerState /\ t.pc = "look" /\ t.answer = "none" /\ t.free = Append(s.free, s.lease) /\ t.looked = 0
        /\ t.lease = 0 /\ t.in_flight = s.in_flight /\ t.final = s.final /\ t.cursor = s.cursor
    BY <1>1, <2>1, <2>2, LookIs
  <2> HIDE DEF t
  <2>5. \A c \in 1 .. n : ~Passed(c, t.cursor, t.looked, n)
    BY <2>2, <2>4, PassedEnds
  <2>6. LeaseOK(t, n) /\ DrainOK(t, ret[p], live_consumers, n) /\ AnswerOK(t, fwd[p], live_consumers, Blocks)
    BY <1>1, <2>4, <2>5 DEF LeaseOK, DrainOK, AnswerOK, Leasing
  <2> QED
    BY <1>2, <1>3, <2>3, <2>4, <2>6, ProducerFrees
<1> QED
  BY <1>4, <1>5

\* A lease that is put back at the end of a call.
LEMMA PutBackKeeps ==
  ASSUME OpenInv, decl' = decl, NEW p \in Producers, prod[p].pc \in Leasing,
         prod' = [prod EXCEPT ![p] = Answer(ToFree(prod[p]), "none")],
         con' = con, fwd' = fwd, ret' = ret, live_consumers' = live_consumers
  PROVE  OpenInv'
<1> DEFINE s == prod[p]
           n == decl.consumers
           u == ToFree(s)
           t == Answer(u, "none")
<1>1. s \in ProducerState /\ 0 \in 0 .. n /\ LeaseOK(s, n)
  BY ProducerFacts
<1>2. s.lease # 0 /\ s.pc # "gone"
  BY <1>1 DEF LeaseOK, Leasing
<1>3. /\ u \in ProducerState /\ u.free = Append(s.free, s.lease) /\ u.lease = 0 /\ u.in_flight = s.in_flight
  BY <1>1, <1>2, ToFreeIs
<1> HIDE DEF u
<1>4. /\ t \in ProducerState /\ t.pc = "idle" /\ t.answer = "none" /\ t.free = Append(s.free, s.lease)
      /\ t.lease = 0 /\ t.in_flight = s.in_flight /\ t.final = FALSE
  BY <1>1, <1>3, AnswerIs
<1>5. prod' = [prod EXCEPT ![p] = t]
  BY DEF u
<1> HIDE DEF t
<1>6. LeaseOK(t, n) /\ DrainOK(t, ret[p], live_consumers, n) /\ AnswerOK(t, fwd[p], live_consumers, Blocks)
  BY <1>4 DEF LeaseOK, DrainOK, AnswerOK, Leasing
<1> QED
  BY <1>2, <1>4, <1>5, <1>6, ProducerFrees

\* A destructor panics.
LEMMA ClearPanicsKeeps ==
  ASSUME OpenInv, decl' = decl, NEW p \in Producers, ClearPanics(p)
  PROVE  OpenInv'
<1>1. prod[p] \in ProducerState /\ prod \in [Producers -> ProducerState]
  BY ProducerFacts DEF OpenInv, LeasedType
<1>2. /\ prod[p].pc \in Leasing /\ prod' = [prod EXCEPT ![p] = Answer(ToFree(prod[p]), "none")]
      /\ con' = con /\ fwd' = fwd /\ ret' = ret /\ live_consumers' = live_consumers
  BY <1>1 DEF ClearPanics, Leasing
<1> QED
  BY <1>2, PutBackKeeps

\* A lease is dropped.
LEMMA RollbackKeeps ==
  ASSUME OpenInv, decl' = decl, NEW p \in Producers, Rollback(p)
  PROVE  OpenInv'
<1>1. prod[p] \in ProducerState /\ prod \in [Producers -> ProducerState]
  BY ProducerFacts DEF OpenInv, LeasedType
<1>2. /\ prod[p].pc \in Leasing /\ prod' = [prod EXCEPT ![p] = Answer(ToFree(prod[p]), "none")]
      /\ con' = con /\ fwd' = fwd /\ ret' = ret /\ live_consumers' = live_consumers
  BY <1>1 DEF Rollback, Leasing, pools
<1> QED
  BY <1>2, PutBackKeeps

\* Values are written into a lent block.
LEMMA FillKeeps ==
  ASSUME OpenInv, decl' = decl, NEW p \in Producers, Fill(p)
  PROVE  OpenInv'
<1> DEFINE t == prod[p]
<1>1. t \in ProducerState /\ prod \in [Producers -> ProducerState] /\ LeaseOK(t, decl.consumers)
      /\ DrainOK(t, ret[p], live_consumers, decl.consumers) /\ AnswerOK(t, fwd[p], live_consumers, Blocks)
  BY ProducerFacts DEF OpenInv, LeasedType
<1>2. /\ prod' = [prod EXCEPT ![p] = t] /\ prod[p].pc # "gone"
      /\ con' = con /\ fwd' = fwd /\ ret' = ret /\ live_consumers' = live_consumers
  BY <1>1 DEF Fill
<1> QED
  BY <1>1, <1>2, ProducerQuiet

\* A lease is committed: put back when empty, published otherwise.
LEMMA CommitKeeps ==
  ASSUME OpenInv, decl' = decl, NEW p \in Producers, Commit(p)
  PROVE  OpenInv'
<1> DEFINE s == prod[p]
           n == decl.consumers
           t == [s EXCEPT !.pc = "send"]
<1>1. /\ s \in ProducerState /\ prod \in [Producers -> ProducerState] /\ LeaseOK(s, n)
      /\ DrainOK(s, ret[p], live_consumers, n)
  BY ProducerFacts DEF OpenInv, LeasedType
<1>2. /\ s.pc = "lent" /\ con' = con /\ fwd' = fwd /\ ret' = ret /\ live_consumers' = live_consumers
      /\ prod' = [prod EXCEPT ![p] = Answer(ToFree(s), "none")] \/ prod' = [prod EXCEPT ![p].pc = "send"]
  BY DEF Commit, pools
<1>3. CASE prod' = [prod EXCEPT ![p] = Answer(ToFree(s), "none")]
  <2>1. s.pc \in Leasing
    BY <1>2 DEF Leasing
  <2> QED
    BY <1>2, <1>3, <2>1, PutBackKeeps
<1>4. CASE prod' = [prod EXCEPT ![p].pc = "send"]
  <2>1. prod' = [prod EXCEPT ![p] = t]
    BY <1>1, <1>4
  <2>2. s.lease # 0 /\ s.answer = "none"
    BY <1>1, <1>2 DEF LeaseOK, Leasing
  <2>3. /\ t \in ProducerState /\ t.pc = "send" /\ t.answer = "none" /\ t.free = s.free
        /\ t.lease = s.lease /\ t.in_flight = s.in_flight /\ t.final = s.final
    BY <1>1, <2>2 DEF ProducerState, Leasing
  <2> HIDE DEF t
  <2>4. LeaseOK(t, n) /\ DrainOK(t, ret[p], live_consumers, n) /\ AnswerOK(t, fwd[p], live_consumers, Blocks)
    BY <1>1, <2>2, <2>3 DEF LeaseOK, DrainOK, AnswerOK, Leasing
  <2> QED
    BY <1>2, <2>1, <2>3, <2>4, ProducerQuiet
<1> QED
  BY <1>2, <1>3, <1>4

\* The forward ring takes the block, or refuses it.
LEMMA SendKeeps ==
  ASSUME OpenInv, decl' = decl, NEW p \in Producers, Send(p)
  PROVE  OpenInv'
<1> DEFINE s == prod[p]
           n == decl.consumers
           l == [s EXCEPT !.pc = "lent"]
           u == [s EXCEPT !.lease = 0, !.in_flight = @ + 1]
           t == Answer(u, "none")
<1>1. /\ s \in ProducerState /\ prod \in [Producers -> ProducerState] /\ LeaseOK(s, n) /\ LeasedType /\ PoolOK(p)
      /\ DrainOK(s, ret[p], live_consumers, n) /\ 0 \in 0 .. n
      /\ fwd \in [Producers -> Seq(Blocks)] /\ ret \in [Producers -> [Consumers -> Seq(Blocks)]]
  BY ProducerFacts DEF OpenInv, LeasedType
<1>2. /\ s.pc = "send" /\ con' = con /\ ret' = ret /\ live_consumers' = live_consumers
      /\ \/ fwd' = [fwd EXCEPT ![p] = Append(@, s.lease)] /\ prod' = [prod EXCEPT ![p] = t]
         \/ fwd' = fwd /\ prod' = [prod EXCEPT ![p].pc = "lent"]
  BY DEF Send
<1>3. s.lease # 0 /\ s.answer = "none"
  BY <1>1, <1>2 DEF LeaseOK, Leasing
<1>4. CASE fwd' = fwd /\ prod' = [prod EXCEPT ![p].pc = "lent"]
  <2>1. prod' = [prod EXCEPT ![p] = l]
    BY <1>1, <1>4
  <2>2. /\ l \in ProducerState /\ l.pc = "lent" /\ l.answer = "none" /\ l.free = s.free
        /\ l.lease = s.lease /\ l.in_flight = s.in_flight /\ l.final = s.final
    BY <1>1, <1>3 DEF ProducerState, Leasing
  <2> HIDE DEF l
  <2>3. LeaseOK(l, n) /\ DrainOK(l, ret[p], live_consumers, n) /\ AnswerOK(l, fwd[p], live_consumers, Blocks)
    BY <1>1, <1>3, <2>2 DEF LeaseOK, DrainOK, AnswerOK, Leasing
  <2> QED
    BY <1>2, <1>4, <2>1, <2>2, <2>3, ProducerQuiet
<1>5. CASE fwd' = [fwd EXCEPT ![p] = Append(@, s.lease)] /\ prod' = [prod EXCEPT ![p] = t]
  <2>0. s.in_flight + 1 \in Int /\ 0 \in Blocks \cup {0}
    BY <1>1, ProducerFields
  <2>1. /\ u \in ProducerState /\ u.free = s.free /\ u.lease = 0 /\ u.in_flight = s.in_flight + 1
    BY <1>1, <2>0 DEF ProducerState
  <2>2. s.lease \in Blocks
    BY <1>1, <1>3, ProducerFields
  <2>3. /\ fwd' \in [Producers -> Seq(Blocks)] /\ fwd'[p] = Append(fwd[p], s.lease)
        /\ \A e \in Producers : e # p => fwd'[e] = fwd[e]
    BY <1>1, <1>5, <2>2
  <2> HIDE DEF u
  <2>4. /\ t \in ProducerState /\ t.pc = "idle" /\ t.answer = "none" /\ t.free = s.free
        /\ t.lease = 0 /\ t.in_flight = s.in_flight + 1 /\ t.final = FALSE
    BY <1>1, <2>1, AnswerIs
  <2> HIDE DEF t
  <2>5. /\ LeasedType' /\ prod'[p] = t /\ \A e \in Producers : e # p => prod'[e] = prod[e]
        /\ Producers' = Producers /\ Consumers' = Consumers /\ Blocks' = Blocks
    BY <1>1, <1>2, <1>5, <2>3, <2>4, ProducerTypes
  <2>6. PoolOK(p)'
    BY <1>1, <1>2, <1>3, <2>3, <2>4, <2>5, PoolSent
  <2>7. LeaseOK(t, n) /\ AnswerOK(t, fwd'[p], live_consumers, Blocks) /\ DrainOK(t, ret'[p], live_consumers, n)
    BY <2>4 DEF LeaseOK, DrainOK, AnswerOK, Leasing
  <2>8. ProducerOK(p)'
    BY <1>2, <2>5, <2>7 DEF ProducerOK
  <2> QED
    BY <1>2, <2>3, <2>5, <2>6, <2>8, ProducerFrame
<1> QED
  BY <1>2, <1>4, <1>5

\* A producer is dropped, in two steps.
LEMMA ProducerDropKeeps ==
  ASSUME OpenInv, decl' = decl, NEW p \in Producers, ProducerDrop(p) \/ DropReturns(p)
  PROVE  OpenInv'
<1> DEFINE s == prod[p]
           n == decl.consumers
<1>1. /\ s \in ProducerState /\ prod \in [Producers -> ProducerState] /\ LeaseOK(s, n) /\ 0 \in 0 .. n
      /\ DrainOK(s, ret[p], live_consumers, n)
  BY ProducerFacts DEF OpenInv, LeasedType
<1>2. CASE ProducerDrop(p)
  <2> DEFINE u == Answer(s, "none")
             t == [u EXCEPT !.pc = "closing"]
  <2>1. /\ prod' = [prod EXCEPT ![p] = t] /\ s.pc = "idle" /\ con' = con /\ fwd' = fwd /\ ret' = ret
        /\ live_consumers' = live_consumers
    BY <1>1, <1>2 DEF ProducerDrop, pools
  <2>2. /\ u \in ProducerState /\ u.answer = "none" /\ u.free = s.free
        /\ u.lease = s.lease /\ u.in_flight = s.in_flight /\ u.final = FALSE
    BY <1>1, AnswerIs
  <2> HIDE DEF u
  <2>3. /\ t \in ProducerState /\ t.pc = "closing" /\ t.answer = "none" /\ t.free = s.free
        /\ t.lease = s.lease /\ t.in_flight = s.in_flight /\ t.final = FALSE
    BY <2>2 DEF ProducerState
  <2> HIDE DEF t
  <2>4. LeaseOK(t, n) /\ DrainOK(t, ret[p], live_consumers, n) /\ AnswerOK(t, fwd[p], live_consumers, Blocks)
    BY <1>1, <2>1, <2>3 DEF LeaseOK, DrainOK, AnswerOK, Leasing
  <2> QED
    BY <2>1, <2>3, <2>4, ProducerQuiet
<1>3. CASE DropReturns(p)
  <2> DEFINE t == [s EXCEPT !.pc = "gone", !.free = <<>>]
  <2>1. /\ prod' = [prod EXCEPT ![p] = t] /\ s.pc = "closing" /\ con' = con /\ fwd' = fwd /\ ret' = ret
        /\ live_consumers' = live_consumers
    BY <1>1, <1>3 DEF DropReturns, pools
  <2>2. s.lease = 0 /\ s.answer = "none"
    BY <1>1, <2>1 DEF LeaseOK, Leasing
  <2>3. /\ t \in ProducerState /\ t.pc = "gone" /\ t.answer = "none"
        /\ t.lease = s.lease /\ t.in_flight = s.in_flight /\ t.final = s.final
    <3>1. <<>> \in Seq(Blocks)
      OBVIOUS
    <3> QED
      BY <1>1, <2>2, <3>1 DEF ProducerState
  <2> HIDE DEF t
  <2>4. LeaseOK(t, n) /\ DrainOK(t, ret[p], live_consumers, n) /\ AnswerOK(t, fwd[p], live_consumers, Blocks)
    BY <1>1, <2>1, <2>2, <2>3 DEF LeaseOK, DrainOK, AnswerOK, Leasing
  <2> QED
    BY <2>1, <2>3, <2>4, ProducerQuiet
<1> QED
  BY <1>2, <1>3

-----------------------------------------------------------------------------
(* The steps of the consumers.                                             *)

\* A consumer that can still step is one of those counted, so that no flush
\* has looked for the last time.
LEMMA ConsumerCounts ==
  ASSUME OpenInv, NEW c \in Consumers, con[c].pc # "gone"
  PROVE  /\ live_consumers \in Nat \ {0}
         /\ \A p \in Producers : ~prod[p].final /\ prod[p].answer # "abandoned"
<1>1. IsFiniteSet(Left) /\ c \in Left /\ live_consumers = Cardinality(Left)
  BY DeclFacts, FS_Subset DEF OpenInv, ConsumersOK, Left
<1>2. live_consumers \in Nat /\ live_consumers # 0
  BY <1>1, FS_EmptySet, FS_CardinalityType
<1> QED
  BY <1>2, ProducerFacts DEF DrainOK, AnswerOK

\* What a step of a consumer has to keep.
LEMMA ConsumerFrame ==
  ASSUME OpenInv, decl' = decl, NEW c \in Consumers, con[c].pc # "gone", NEW t \in ConsumerState,
         con' = [con EXCEPT ![c] = t], prod' = prod, HoldOK(t, decl.producers),
         fwd' \in [Producers -> Seq(Blocks)], ret' \in [Producers -> [Consumers -> Seq(Blocks)]],
         IF t.pc = "gone" THEN live_consumers' = live_consumers - 1 ELSE live_consumers' = live_consumers,
         LeasedType' => \A p \in Producers : PoolOK(p)'
  PROVE  OpenInv'
<1>1. /\ Producers' = Producers /\ Consumers' = Consumers /\ Blocks' = Blocks /\ ProducerState' = ProducerState
      /\ ConsumerState' = ConsumerState /\ Fits' = Fits
  BY DEF Producers, Consumers, Blocks, ProducerState, ConsumerState, Fits, Slots
<1>2. LeasedType /\ ConsumersOK /\ \A p \in Producers : ProducerOK(p)
  BY DEF OpenInv
<1>3. con \in [Consumers -> ConsumerState] /\ prod \in [Producers -> ProducerState] /\ Fits
  BY <1>2 DEF LeasedType
<1>4. con'[c] = t /\ con' \in [Consumers -> ConsumerState] /\ \A e \in Consumers : e # c => con'[e] = con[e]
  BY <1>3
<1>5. LeasedType'
  BY <1>1, <1>3, <1>4 DEF LeasedType
<1>6. \A e \in Consumers : HoldOK(con'[e], decl.producers)
  BY <1>2, <1>4 DEF ConsumersOK
<1>7. live_consumers' = Cardinality(Left')
  <2>1. IsFiniteSet(Left) /\ c \in Left /\ live_consumers = Cardinality(Left)
    BY <1>2, DeclFacts, FS_Subset DEF ConsumersOK, Left
  <2>2. CASE t.pc = "gone"
    <3>1. Left' = Left \ {c}
      BY <1>1, <1>4, <2>2 DEF Left
    <3> QED
      BY <2>1, <2>2, <3>1, FS_RemoveElement
  <2>3. CASE t.pc # "gone"
    <3>1. Left' = Left
      BY <1>1, <1>4, <2>3 DEF Left
    <3> QED
      BY <2>1, <2>3, <3>1
  <2> QED
    BY <2>2, <2>3
<1>8. ConsumersOK'
  BY <1>1, <1>6, <1>7 DEF ConsumersOK
<1>9. ASSUME NEW p \in Producers PROVE ProducerOK(p)'
  <2>1. ~prod[p].final /\ prod[p].answer # "abandoned" /\ ProducerOK(p)
    BY <1>2, ConsumerCounts
  <2> QED
    BY <1>1, <2>1 DEF ProducerOK, DrainOK, AnswerOK
<1> QED
  BY <1>1, <1>5, <1>8, <1>9 DEF OpenInv

\* A consumer holds what it took, or nothing.
LEMMA HoldIs ==
  ASSUME NEW s \in ConsumerState, NEW pc \in {"idle", "held", "ended"}, NEW b \in {<<>>} \cup (Producers \X Blocks),
         0 \in 0 .. decl.producers
  PROVE  LET t == Hold(s, pc, b) IN t \in ConsumerState /\ t.pc = pc /\ t.block = b
  BY DEF Hold, ConsumerState

\* A consumer passes a ring.
LEMMA SkipIs ==
  ASSUME NEW s \in ConsumerState, s.looked < decl.producers, decl.producers \in Nat \ {0}
  PROVE  LET t == Skip(s) IN t \in ConsumerState /\ t.pc = "scan" /\ t.block = s.block
<1> DEFINE n == decl.producers
<1>1. s.cursor \in 0 .. n - 1 /\ s.looked \in 0 .. n
  BY DEF ConsumerState
<1>2. NextCursor(s.cursor, n) \in 0 .. n - 1 /\ s.looked + 1 \in 0 .. n
  BY <1>1, CursorIs
<1> QED
  BY <1>2 DEF Skip, ConsumerState

\* What a consumer's own step starts from.
LEMMA ConsumerFacts ==
  ASSUME OpenInv, NEW c \in Consumers
  PROVE  /\ LeasedType /\ con[c] \in ConsumerState /\ con \in [Consumers -> ConsumerState]
         /\ HoldOK(con[c], decl.producers) /\ decl.producers \in Nat \ {0} /\ 0 \in 0 .. decl.producers
         /\ con[c].cursor + 1 \in Producers
         /\ fwd \in [Producers -> Seq(Blocks)] /\ ret \in [Producers -> [Consumers -> Seq(Blocks)]]
         /\ \A p \in Producers : PoolOK(p)
<1>1. LeasedType /\ ConsumersOK /\ \A p \in Producers : PoolOK(p)
  BY DEF OpenInv
<1>2. con[c] \in ConsumerState /\ con[c].cursor \in 0 .. decl.producers - 1 /\ decl.producers \in Nat \ {0}
  BY <1>1, ConsumerFields, DeclFacts
<1>3. con[c].cursor + 1 \in Producers
  BY <1>2 DEF Producers
<1> QED
  BY <1>1, <1>2, <1>3 DEF LeasedType, ConsumersOK

\* A step of a consumer that moves no block.
LEMMA ConsumerQuiet ==
  ASSUME OpenInv, decl' = decl, NEW c \in Consumers, con[c].pc # "gone", NEW t \in ConsumerState,
         con' = [con EXCEPT ![c] = t], prod' = prod, HoldOK(t, decl.producers), fwd' = fwd, ret' = ret,
         IF t.pc = "gone" THEN live_consumers' = live_consumers - 1 ELSE live_consumers' = live_consumers,
         t.block = con[c].block
  PROVE  OpenInv'
<1>1. /\ LeasedType /\ con \in [Consumers -> ConsumerState] /\ \A p \in Producers : PoolOK(p)
      /\ fwd' \in [Producers -> Seq(Blocks)] /\ ret' \in [Producers -> [Consumers -> Seq(Blocks)]]
  BY ConsumerFacts
<1>2. \A e \in Consumers : con'[e].block = con[e].block
  BY <1>1
<1>3. \A p \in Producers, e \in Consumers : HeldBy(e, p)' = HeldBy(e, p)
  BY <1>2 DEF HeldBy
<1>4. LeasedType' => \A p \in Producers : PoolOK(p)'
  BY <1>1, <1>3, PoolStays
<1> QED
  BY <1>1, <1>4, ConsumerFrame

\* A receive begins, passes a ring it cannot claim, claims one, or ends.
LEMMA ScanKeeps ==
  ASSUME OpenInv, decl' = decl, NEW c \in Consumers, Receive(c) \/ Claim(c) \/ NoBlock(c) \/ ReceiveNone(c)
  PROVE  OpenInv'
<1> DEFINE s == con[c]
           n == decl.producers
<1>1. s \in ConsumerState /\ con \in [Consumers -> ConsumerState] /\ HoldOK(s, n) /\ n \in Nat \ {0} /\ 0 \in 0 .. n
  BY ConsumerFacts
<1>2. /\ s.pc \in {"idle", "scan"} /\ prod' = prod /\ fwd' = fwd /\ ret' = ret /\ live_consumers' = live_consumers
  BY DEF Receive, Claim, NoBlock, ReceiveNone, pools
<1>3. s.block = <<>>
  BY <1>1, <1>2 DEF HoldOK
<1>4. \E t \in ConsumerState : /\ con' = [con EXCEPT ![c] = t] /\ t.pc # "gone" /\ t.block = s.block
                               /\ HoldOK(t, n)
  <2>1. CASE Receive(c)
    <3> DEFINE t == [s EXCEPT !.pc = "scan"]
    <3>1. con' = [con EXCEPT ![c] = t]
      BY <1>1, <2>1 DEF Receive
    <3>2. t \in ConsumerState /\ t.pc = "scan" /\ t.block = s.block
      BY <1>1 DEF ConsumerState
    <3> HIDE DEF t
    <3> QED
      BY <1>3, <3>1, <3>2 DEF HoldOK
  <2>2. CASE Claim(c)
    <3>1. s.looked < n
      BY <2>2 DEF Claim
    <3>2. CASE con' = [con EXCEPT ![c] = Skip(s)]
      <4> DEFINE t == Skip(s)
      <4>1. t \in ConsumerState /\ t.pc = "scan" /\ t.block = s.block
        BY <1>1, <3>1, SkipIs
      <4> HIDE DEF t
      <4> QED
        BY <1>3, <3>2, <4>1 DEF HoldOK, t
    <3>3. CASE con' = [con EXCEPT ![c].pc = "take"]
      <4> DEFINE t == [s EXCEPT !.pc = "take"]
      <4>1. con' = [con EXCEPT ![c] = t]
        BY <1>1, <3>3
      <4>2. t \in ConsumerState /\ t.pc = "take" /\ t.block = s.block /\ t.looked = s.looked
        BY <1>1 DEF ConsumerState
      <4> HIDE DEF t
      <4> QED
        BY <1>3, <3>1, <4>1, <4>2 DEF HoldOK
    <3> QED
      BY <1>1, <2>2, <3>2, <3>3 DEF Claim
  <2>3. CASE NoBlock(c)
    <3> DEFINE u == [s EXCEPT !.looked = 0, !.final = (live_producers = 0)]
               h == Hold(s, "ended", <<>>)
    <3>1. con' = [con EXCEPT ![c] = h] \/ con' = [con EXCEPT ![c] = u]
      BY <2>3 DEF NoBlock
    <3>2. u \in ConsumerState /\ u.pc = s.pc /\ u.block = s.block
      BY <1>1 DEF ConsumerState
    <3>3. h \in ConsumerState /\ h.pc = "ended" /\ h.block = <<>>
      BY <1>1, HoldIs
    <3> HIDE DEF u, h
    <3> QED
      BY <1>2, <1>3, <2>3, <3>1, <3>2, <3>3 DEF HoldOK, NoBlock
  <2>4. CASE ReceiveNone(c)
    <3> DEFINE h == Hold(s, "idle", <<>>)
    <3>1. con' = [con EXCEPT ![c] = h]
      BY <2>4 DEF ReceiveNone
    <3>2. h \in ConsumerState /\ h.pc = "idle" /\ h.block = <<>>
      BY <1>1, HoldIs
    <3> HIDE DEF h
    <3> QED
      BY <1>3, <3>1, <3>2 DEF HoldOK
  <2> QED
    BY <2>1, <2>2, <2>3, <2>4
<1>5. PICK t \in ConsumerState : con' = [con EXCEPT ![c] = t] /\ t.pc # "gone" /\ t.block = s.block /\ HoldOK(t, n)
  BY <1>4
<1> QED
  BY <1>2, <1>5, ConsumerQuiet

\* A consumer is dropped.
LEMMA ConsumerDropKeeps ==
  ASSUME OpenInv, decl' = decl, NEW c \in Consumers, ConsumerDrop(c)
  PROVE  OpenInv'
<1> DEFINE s == con[c]
           t == [s EXCEPT !.pc = "gone"]
<1>1. s \in ConsumerState /\ con \in [Consumers -> ConsumerState] /\ HoldOK(s, decl.producers)
  BY ConsumerFacts
<1>2. /\ s.pc \in {"idle", "ended"} /\ prod' = prod /\ fwd' = fwd /\ ret' = ret /\ live_consumers' = live_consumers - 1
      /\ con' = [con EXCEPT ![c] = t]
  BY <1>1 DEF ConsumerDrop, pools
<1>3. t \in ConsumerState /\ t.pc = "gone" /\ t.block = s.block
  BY <1>1 DEF ConsumerState
<1> HIDE DEF t
<1>4. HoldOK(t, decl.producers)
  BY <1>1, <1>2, <1>3 DEF HoldOK
<1> QED
  BY <1>2, <1>3, <1>4, ConsumerQuiet

\* A consumer takes a block, or finds its ring empty.
LEMMA TakeKeeps ==
  ASSUME OpenInv, decl' = decl, NEW c \in Consumers, Take(c)
  PROVE  OpenInv'
<1> DEFINE s == con[c]
           n == decl.producers
           p == s.cursor + 1
           b == Head(fwd[p])
<1>1. /\ s \in ConsumerState /\ con \in [Consumers -> ConsumerState] /\ HoldOK(s, n) /\ n \in Nat \ {0} /\ 0 \in 0 .. n
      /\ LeasedType /\ p \in Producers /\ \A q \in Producers : PoolOK(q)
      /\ fwd \in [Producers -> Seq(Blocks)] /\ ret \in [Producers -> [Consumers -> Seq(Blocks)]]
  BY ConsumerFacts
<1>2. /\ s.pc = "take" /\ prod' = prod /\ ret' = ret /\ live_consumers' = live_consumers
      /\ IF fwd[p] = <<>>
         THEN con' = [con EXCEPT ![c] = Skip(s)] /\ fwd' = fwd
         ELSE /\ fwd' = [fwd EXCEPT ![p] = Tail(@)]
              /\ con' = [con EXCEPT ![c] = Hold(Skip(s), "held", <<p, b>>)]
  BY <1>1 DEF Take
<1>3. s.block = <<>> /\ s.looked < n
  BY <1>1, <1>2 DEF HoldOK
<1>4. Skip(s) \in ConsumerState /\ Skip(s).pc = "scan" /\ Skip(s).block = <<>>
  BY <1>1, <1>3, SkipIs
<1>5. CASE fwd[p] = <<>>
  <2> DEFINE t == Skip(s)
  <2>1. con' = [con EXCEPT ![c] = t] /\ fwd' = fwd
    BY <1>2, <1>5
  <2>2. t \in ConsumerState /\ t.pc = "scan" /\ t.block = s.block
    BY <1>3, <1>4
  <2> HIDE DEF t
  <2>3. HoldOK(t, n)
    BY <1>3, <2>2 DEF HoldOK
  <2> QED
    BY <1>2, <2>1, <2>2, <2>3, ConsumerQuiet
<1>6. CASE fwd[p] # <<>>
  <2> DEFINE u == Skip(s)
             t == Hold(u, "held", <<p, b>>)
  <2>1. con' = [con EXCEPT ![c] = t] /\ fwd' = [fwd EXCEPT ![p] = Tail(@)]
    BY <1>2, <1>6
  <2>2. b \in Blocks /\ Tail(fwd[p]) \in Seq(Blocks)
    BY <1>1, <1>6, TailIs
  <2>3. <<p, b>> \in Producers \X Blocks
    BY <1>1, <2>2
  <2>4. u \in ConsumerState
    BY <1>4
  <2> HIDE DEF u
  <2>5. t \in ConsumerState /\ t.pc = "held" /\ t.block = <<p, b>>
    <3> DEFINE k == <<p, b>>
    <3>1. k \in {<<>>} \cup (Producers \X Blocks)
      BY <2>3
    <3> HIDE DEF k
    <3>2. LET h == Hold(u, "held", k) IN h \in ConsumerState /\ h.pc = "held" /\ h.block = k
      BY <1>1, <2>4, <3>1, HoldIs
    <3> QED
      BY <3>2 DEF k
  <2>6. <<p, b>> # <<>> /\ <<p, b>>[1] = p
    OBVIOUS
  <2> HIDE DEF t
  <2>7. HoldOK(t, n)
    BY <2>5, <2>6 DEF HoldOK
  <2>8. /\ fwd' \in [Producers -> Seq(Blocks)] /\ fwd'[p] = Tail(fwd[p])
        /\ \A q \in Producers : q # p => fwd'[q] = fwd[q]
    BY <1>1, <2>1, <2>2
  <2>9. con'[c].block = <<p, b>> /\ \A e \in Consumers : e # c => con'[e] = con[e]
    BY <1>1, <2>1, <2>5
  <2>10. ASSUME LeasedType', NEW q \in Producers PROVE PoolOK(q)'
    <3>1. CASE q # p
      <4>1. \A e \in Consumers : HeldBy(e, q)' = HeldBy(e, q)
        <5> SUFFICES ASSUME NEW e \in Consumers PROVE HeldBy(e, q)' = HeldBy(e, q)
          OBVIOUS
        <5>1. CASE e = c
          BY <1>3, <2>6, <2>9, <3>1, <5>1 DEF HeldBy
        <5>2. CASE e # c
          BY <2>9, <5>2 DEF HeldBy
        <5> QED
          BY <5>1, <5>2
      <4>2. fwd'[q] = fwd[q] /\ ret'[q] = ret[q] /\ prod'[q] = prod[q] /\ PoolOK(q)
        BY <1>1, <1>2, <2>8, <3>1
      <4> QED
        BY <1>1, <2>10, <4>1, <4>2, PoolStays
    <3>2. CASE q = p
      <4>1. CASE prod[p].pc = "gone"
        BY <1>2, <3>2, <4>1 DEF PoolOK
      <4>2. CASE prod[p].pc # "gone"
        <5>1. /\ PoolOK(q) /\ prod[q].pc # "gone" /\ fwd[q] # <<>> /\ fwd'[q] = Tail(fwd[q])
              /\ con'[c].block = <<q, Head(fwd[q])>> /\ con[c].block = <<>>
          BY <1>1, <1>3, <1>6, <2>8, <2>9, <3>2, <4>2
        <5> HIDE DEF p, b
        <5> QED
          BY <1>1, <1>2, <2>9, <2>10, <5>1, PoolTaken
      <4> QED
        BY <4>1, <4>2
    <3> QED
      BY <3>1, <3>2
  <2>11. LeasedType' => \A q \in Producers : PoolOK(q)'
    BY <2>10
  <2> HIDE DEF p, b
  <2> QED
    BY <1>1, <1>2, <2>1, <2>5, <2>7, <2>8, <2>11, ConsumerFrame
<1> QED
  BY <1>5, <1>6

\* A block is released: back to a producer that is not gone.
LEMMA ReleaseKeeps ==
  ASSUME OpenInv, decl' = decl, NEW c \in Consumers, Release(c)
  PROVE  OpenInv'
<1> DEFINE s == con[c]
           n == decl.producers
           p == s.block[1]
           b == s.block[2]
           t == Hold(s, "idle", <<>>)
<1>1. /\ s \in ConsumerState /\ con \in [Consumers -> ConsumerState] /\ HoldOK(s, n) /\ n \in Nat \ {0} /\ 0 \in 0 .. n
      /\ LeasedType /\ \A q \in Producers : PoolOK(q)
      /\ fwd \in [Producers -> Seq(Blocks)] /\ ret \in [Producers -> [Consumers -> Seq(Blocks)]]
  BY ConsumerFacts
<1>2. /\ s.pc = "held" /\ prod' = prod /\ fwd' = fwd /\ live_consumers' = live_consumers
      /\ con' = [con EXCEPT ![c] = t]
      /\ ret' = [ret EXCEPT ![p][c] = IF prod[p].pc # "gone" /\ Len(@) < ReturnSlots THEN Append(@, b) ELSE @]
  BY <1>1 DEF Release
<1>3. s.block # <<>> /\ s.block \in Producers \X Blocks
  BY <1>1, <1>2, ConsumerFields DEF HoldOK
<1>4. p \in Producers /\ b \in Blocks /\ s.block = <<p, b>>
  BY <1>3
<1>5. t \in ConsumerState /\ t.pc = "idle" /\ t.block = <<>>
  BY <1>1, HoldIs
<1> HIDE DEF t
<1>6. HoldOK(t, n)
  BY <1>5 DEF HoldOK
<1>7. con'[c].block = <<>> /\ \A e \in Consumers : e # c => con'[e] = con[e]
  BY <1>1, <1>2, <1>5
<1> HIDE DEF p, b
<1>8. /\ ret' \in [Producers -> [Consumers -> Seq(Blocks)]]
      /\ \A q \in Producers : q # p => ret'[q] = ret[q]
      /\ prod[p].pc # "gone" /\ Len(ret[p][c]) < ReturnSlots => ret'[p] = [ret[p] EXCEPT ![c] = Append(@, b)]
  <2> DEFINE r == ret[p][c]
             x == IF prod[p].pc # "gone" /\ Len(r) < ReturnSlots THEN Append(r, b) ELSE r
  <2>1. ret' = [ret EXCEPT ![p] = [ret[p] EXCEPT ![c] = x]]
    BY <1>1, <1>2, <1>4
  <2>2. x \in Seq(Blocks)
    BY <1>1, <1>4
  <2>3. prod[p].pc # "gone" /\ Len(r) < ReturnSlots => x = Append(r, b)
    OBVIOUS
  <2> HIDE DEF x
  <2>4. [ret[p] EXCEPT ![c] = x] \in [Consumers -> Seq(Blocks)]
    BY <1>1, <1>4, <2>2
  <2> QED
    BY <1>1, <1>4, <2>1, <2>3, <2>4
<1>9. ASSUME LeasedType', NEW q \in Producers PROVE PoolOK(q)'
  <2>1. CASE q # p
    <3>1. <<p, b>>[1] = p
      OBVIOUS
    <3>2. \A e \in Consumers : HeldBy(e, q)' = HeldBy(e, q)
      <4> SUFFICES ASSUME NEW e \in Consumers PROVE HeldBy(e, q)' = HeldBy(e, q)
        OBVIOUS
      <4>1. CASE e = c
        BY <1>4, <1>7, <2>1, <3>1, <4>1 DEF HeldBy
      <4>2. CASE e # c
        BY <1>7, <4>2 DEF HeldBy
      <4> QED
        BY <4>1, <4>2
    <3>3. fwd'[q] = fwd[q] /\ ret'[q] = ret[q] /\ prod'[q] = prod[q] /\ PoolOK(q)
      BY <1>1, <1>2, <1>8, <2>1
    <3> QED
      BY <1>1, <1>9, <3>2, <3>3, PoolStays
  <2>2. CASE q = p /\ prod[p].pc = "gone"
    BY <1>2, <2>2 DEF PoolOK
  <2>3. CASE q = p /\ prod[p].pc # "gone"
    <3>1. PoolOK(p)
      BY <1>1, <1>4
    <3>2. Len(ret[p][c]) < ReturnSlots
      BY <1>1, <1>4, <2>3, <3>1, ReturnRoom
    <3>3. ret'[p] = [ret[p] EXCEPT ![c] = Append(@, b)]
      BY <1>8, <2>3, <3>2
    <3> DEFINE d == b
    <3>4. d \in Blocks /\ con[c].block = <<q, d>> /\ ret'[q] = [ret[q] EXCEPT ![c] = Append(@, d)] /\ PoolOK(q) /\ prod[q].pc # "gone"
      BY <1>4, <2>3, <3>1, <3>3
    <3> HIDE DEF d
    <3> QED
      BY <1>1, <1>2, <1>7, <1>9, <3>4, PoolReleased, ZenonT(60)
  <2> QED
    BY <2>1, <2>2, <2>3
<1>10. LeasedType' => \A q \in Producers : PoolOK(q)'
  BY <1>9
<1>11. fwd' \in [Producers -> Seq(Blocks)] /\ s.pc # "gone" /\ t.pc # "gone"
  BY <1>1, <1>2, <1>5
<1> QED
  BY <1>2, <1>5, <1>6, <1>8, <1>10, <1>11, ConsumerFrame

-----------------------------------------------------------------------------
(* The specification.                                                      *)

\* What the endpoints do keeps the invariant.
LEMMA EndpointKeeps ==
  ASSUME OpenInv, decl' = decl, Endpoint
  PROVE  OpenInv'
<1>1. DOMAIN prod = Producers /\ DOMAIN con = Consumers
  BY DEF OpenInv, LeasedType
<1>2. ASSUME NEW p \in Producers, ProducerStep(p) \/ Fill(p) \/ Commit(p) \/ Rollback(p) \/ ProducerDrop(p)
             \/ \E call \in {"reserve", "flush"} : Call(p, call)
      PROVE  OpenInv'
  <2>1. CASE \E call \in {"reserve", "flush"} : Call(p, call)
    BY <2>1, CallKeeps
  <2>2. CASE Fill(p) \/ Commit(p) \/ Rollback(p) \/ ProducerDrop(p)
    BY <2>2, FillKeeps, CommitKeeps, RollbackKeeps, ProducerDropKeeps
  <2>3. CASE Gate(p) \/ Returned(p) \/ NoneReturned(p) \/ GiveUp(p)
    BY <2>3, GateKeeps, ReturnedKeeps, NoneReturnedKeeps, GiveUpKeeps
  <2>4. CASE Clear(p) \/ ClearPanics(p) \/ Flush(p) \/ Send(p) \/ DropReturns(p)
    BY <2>4, ClearKeeps, ClearPanicsKeeps, FlushKeeps, SendKeeps, ProducerDropKeeps
  <2> QED
    BY <1>2, <2>1, <2>2, <2>3, <2>4 DEF ProducerStep
<1>3. ASSUME NEW c \in Consumers, ConsumerStep(c) \/ ConsumerDrop(c)
      PROVE  OpenInv'
  <2>1. CASE Receive(c) \/ Claim(c) \/ NoBlock(c) \/ ReceiveNone(c)
    BY <2>1, ScanKeeps
  <2>2. CASE Take(c) \/ Release(c) \/ ConsumerDrop(c)
    BY <2>2, TakeKeeps, ReleaseKeeps, ConsumerDropKeeps
  <2> QED
    BY <1>3, <2>1, <2>2 DEF ConsumerStep
<1> QED
  BY <1>1, <1>2, <1>3 DEF Endpoint

\* The pools are whole when the channel is opened.
LEMMA OpenKeeps ==
  ASSUME decl \in {New(b) : b \in PayloadBytes} \cup Declared, OpenLeased
  PROVE  OpenInv'
<1> DEFINE n == decl.consumers
           free == [i \in Blocks |-> i]
           s == [pc |-> "idle", call |-> "none", free |-> free, lease |-> 0,
                 in_flight |-> 0, cursor |-> 0, looked |-> 0, final |-> FALSE, answer |-> "none"]
           t == [pc |-> "idle", cursor |-> 0, looked |-> 0, final |-> FALSE, block |-> <<>>]
<1>1. Fits /\ decl' = decl
  BY OpenFits DEF OpenLeased, Open
<1>2. /\ Producers' = Producers /\ Consumers' = Consumers /\ Blocks' = Blocks /\ ProducerState' = ProducerState
      /\ ConsumerState' = ConsumerState /\ Fits' = Fits /\ LeasedBlocks(decl)' = LeasedBlocks(decl)
  BY <1>1 DEF Producers, Consumers, Blocks, ProducerState, ConsumerState, Fits, Slots
<1>3. /\ n \in Nat \ {0} /\ decl.producers \in Nat \ {0} /\ LeasedBlocks(decl) \in Nat \ {0}
      /\ Blocks = 1 .. LeasedBlocks(decl) /\ Consumers = 1 .. n
  BY <1>1 DEF Fits, Blocks, Consumers
<1>4. /\ prod' = [p \in Producers |-> s] /\ con' = [c \in Consumers |-> t] /\ fwd' = [p \in Producers |-> <<>>]
      /\ ret' = [p \in Producers |-> [c \in Consumers |-> <<>>]] /\ live_consumers' = n
  BY DEF OpenLeased
<1>5. free \in Seq(Blocks) /\ Len(free) = LeasedBlocks(decl) /\ Distinct(free) /\ ToSet(free) = Blocks
  <2>1. free \in Seq(Blocks) /\ Len(free) = LeasedBlocks(decl)
    BY <1>3
  <2>2. DOMAIN free = Blocks /\ \A i \in Blocks : free[i] = i
    OBVIOUS
  <2> HIDE DEF free
  <2> QED
    BY <2>1, <2>2 DEF Distinct, ToSet
<1> HIDE DEF free
<1>6. /\ s \in ProducerState /\ s.pc = "idle" /\ s.free = free /\ s.lease = 0 /\ s.in_flight = 0
      /\ s.final = FALSE /\ s.answer = "none"
  BY <1>3, <1>5 DEF ProducerState
<1>7. t \in ConsumerState /\ t.pc = "idle" /\ t.block = <<>>
  BY <1>3 DEF ConsumerState
<1> HIDE DEF s, t
<1>8. /\ \A p \in Producers : prod'[p] = s /\ fwd'[p] = <<>> /\ \A c \in Consumers : ret'[p][c] = <<>>
      /\ \A c \in Consumers : con'[c] = t
  BY <1>4
<1>9. LeasedType'
  <2>1. <<>> \in Seq(Blocks)
    OBVIOUS
  <2>2. /\ prod' \in [Producers -> ProducerState] /\ con' \in [Consumers -> ConsumerState]
        /\ fwd' \in [Producers -> Seq(Blocks)] /\ ret' \in [Producers -> [Consumers -> Seq(Blocks)]]
    BY <1>4, <1>6, <1>7, <2>1
  <2> QED
    BY <1>1, <1>2, <2>2 DEF LeasedType
<1>10. ConsumersOK'
  <2>1. Left' = Consumers
    BY <1>2, <1>7, <1>8 DEF Left
  <2>2. Cardinality(Consumers) = n
    <3>1. \A m \in Nat : Cardinality(1 .. m) = m
      BY FS_Interval
    <3>2. n \in Nat
      BY <1>3
    <3> HIDE DEF n
    <3> QED
      BY <1>3, <3>1, <3>2
  <2>3. HoldOK(t, decl.producers)
    BY <1>7 DEF HoldOK
  <2> QED
    BY <1>1, <1>2, <1>4, <1>8, <2>1, <2>2, <2>3 DEF ConsumersOK
<1>11. ASSUME NEW p \in Producers PROVE ProducerOK(p)' /\ PoolOK(p)'
  <2>1. LeaseOK(s, n) /\ DrainOK(s, ret'[p], live_consumers', n) /\ AnswerOK(s, fwd'[p], live_consumers', Blocks)
    BY <1>6 DEF LeaseOK, DrainOK, AnswerOK, Leasing
  <2>2. ProducerOK(p)'
    BY <1>1, <1>2, <1>8, <2>1 DEF ProducerOK
  <2>3. CountOK(s, LeasedBlocks(decl))
    BY <1>3, <1>5, <1>6 DEF CountOK
  <2>4. PlaceFacts(p)'
    BY <1>2, <1>9, PlacesNext
  <2>5. \A c \in Consumers : HeldBy(c, p)' = {}
    BY <1>7, <1>8 DEF HeldBy
  <2> DEFINE G == Places(p)'
  <2>6. /\ DOMAIN G = 1 .. 3 + n + n /\ G[1] = Blocks /\ G[2] = {} /\ G[3] = {}
        /\ \A c \in 1 .. n : G[3 + c] = {} /\ G[3 + n + c] = {}
    BY <1>1, <1>3, <1>5, <1>6, <1>8, <2>4, <2>5, EmptyIs, ZenonT(60) DEF PlaceFacts
  <2> HIDE DEF G
  <2>7. ASSUME NEW j \in DOMAIN G, j # 1 PROVE G[j] = {}
    <3>1. n \in Nat
      BY <1>3
    <3> HIDE DEF n
    <3>2. \A z \in 1 .. 3 + n + n : z \in {1, 2, 3} \/ (\E c \in 1 .. n : z = 3 + c) \/ (\E c \in 1 .. n : z = 3 + n + c)
      BY <3>1, PlaceNumbers
    <3> QED
      BY <2>6, <2>7, <3>2
  <2>8. 1 \in DOMAIN G
    BY <1>3, <2>6
  <2>9. Parted(G, Blocks)
    BY <2>6, <2>7, <2>8 DEF Parted
  <2>10. Distinct(s.free) /\ Distinct(fwd'[p]) /\ \A c \in Consumers : Distinct(ret'[p][c])
    BY <1>5, <1>6, <1>8, EmptyIs
  <2>11. PoolOK(p)'
    BY <1>2, <1>8, <2>3, <2>9, <2>10 DEF PoolOK, G
  <2> QED
    BY <2>2, <2>11
<1> QED
  BY <1>2, <1>9, <1>10, <1>11 DEF OpenInv

\* The invariant of every opened channel.
THEOREM LeasedCorrect == Spec => []LeasedInv
<1>1. Init => LeasedInv
  BY DEF Init, DeclarationInit, LeasedInv
<1>2. LeasedInv /\ [Next]_vars => LeasedInv'
  <2> SUFFICES ASSUME LeasedInv, [Next]_vars PROVE LeasedInv'
    OBVIOUS
  <2>1. CASE UNCHANGED vars
    <3>1. /\ decl' = decl /\ opened' = opened /\ prod' = prod /\ con' = con /\ fwd' = fwd /\ ret' = ret
          /\ live_consumers' = live_consumers
      BY <2>1 DEF vars, declaration, pools
    <3>2. OpenInv => OpenInv'
      <4> SUFFICES ASSUME OpenInv PROVE OpenInv'
        OBVIOUS
      <4>1. LeasedType' /\ Producers' = Producers
        <5>1. /\ Producers' = Producers /\ Consumers' = Consumers /\ Blocks' = Blocks /\ ProducerState' = ProducerState
              /\ ConsumerState' = ConsumerState /\ Fits' = Fits
          BY <3>1 DEF Producers, Consumers, Blocks, ProducerState, ConsumerState, Fits, Slots
        <5> QED
          BY <3>1, <5>1 DEF OpenInv, LeasedType
      <4>2. \A c \in Consumers, q \in Producers : HeldBy(c, q)' = HeldBy(c, q)
        BY <3>1 DEF HeldBy
      <4>3. \A q \in Producers : PoolOK(q)'
        BY <3>1, <4>1, <4>2, PoolStays DEF OpenInv
      <4>4. \A q \in Producers : ProducerOK(q)'
        BY <3>1 DEF OpenInv, ProducerOK, Blocks
      <4>5. ConsumersOK'
        BY <3>1 DEF OpenInv, ConsumersOK, Left, Consumers
      <4> QED
        BY <4>1, <4>3, <4>4, <4>5 DEF OpenInv
    <3> QED
      BY <3>1, <3>2 DEF LeasedInv
  <2>2. CASE OpenRefused
    <3>1. opened = "no" /\ opened' = "invalid" /\ decl' = decl /\ prod' = prod /\ con' = con
      BY <2>2 DEF OpenRefused, Open
    <3> QED
      BY <3>1 DEF LeasedInv
  <2>3. CASE OpenLeased
    <3>1. opened = "no" /\ opened' = "open"
      BY <2>3 DEF OpenLeased, Open
    <3>2. OpenInv'
      BY <2>3, <3>1, OpenKeeps DEF LeasedInv
    <3> QED
      BY <3>1, <3>2 DEF LeasedInv
  <2>4. CASE Endpoint /\ UNCHANGED declaration
    <3>1. decl' = decl /\ opened' = opened
      BY <2>4 DEF declaration
    <3>2. CASE opened = "open" /\ OpenInv
      BY <2>4, <3>1, <3>2, EndpointKeeps DEF LeasedInv
    <3>3. CASE prod = <<>> /\ con = <<>>
      <4>1. DOMAIN prod = {} /\ DOMAIN con = {}
        BY <3>3
      <4> QED
        BY <2>4, <4>1 DEF Endpoint
    <3> QED
      BY <3>2, <3>3 DEF LeasedInv
  <2> QED
    BY <2>1, <2>2, <2>3, <2>4 DEF Next
<1> QED
  BY <1>1, <1>2, PTL DEF Spec

\* A pool never shrinks or doubles: whatever was lent, published, released,
\* rolled back, cleared or cut short by a panic, every block of a producer
\* that is not gone is in exactly one place and in_flight counts those it has
\* to get back.
THEOREM PoolCorrect == Spec => []PoolConserved
<1>1. LeasedInv => PoolConserved
  <2>1. CASE prod = <<>>
    <3>1. DOMAIN prod = {}
      BY <2>1
    <3> QED
      BY <3>1 DEF PoolConserved
  <2>2. CASE OpenInv
    <3> SUFFICES ASSUME NEW p \in DOMAIN prod, prod[p].pc # "gone"
                 PROVE  /\ Parted(Places(p), Blocks)
                        /\ prod[p].in_flight = Cardinality(Blocks) - Len(prod[p].free) - (IF prod[p].lease = 0 THEN 0 ELSE 1)
      BY DEF PoolConserved, Parted
    <3>1. LeasedType /\ p \in Producers /\ PoolOK(p)
      BY <2>2 DEF OpenInv, LeasedType
    <3>2. Cardinality(Blocks) = LeasedBlocks(decl)
      BY <3>1, DeclFacts
    <3> QED
      BY <3>1, <3>2 DEF PoolOK, CountOK
  <2> QED
    BY <2>1, <2>2 DEF LeasedInv
<1> QED
  BY <1>1, LeasedCorrect, PTL

\* flush tells the truth: true only when the whole pool is back, and false
\* only when no consumer is left and all that is missing is in the forward ring.
THEOREM FlushCorrect == Spec => []FlushHonest
<1>1. LeasedInv => FlushHonest
  <2>1. CASE prod = <<>>
    <3>1. DOMAIN prod = {}
      BY <2>1
    <3> QED
      BY <3>1 DEF FlushHonest
  <2>2. CASE OpenInv
    <3>1. DOMAIN prod = Producers
      BY <2>2 DEF OpenInv, LeasedType
    <3> QED
      BY <2>2, <3>1, ProducerFacts DEF FlushHonest, AnswerOK
  <2> QED
    BY <2>1, <2>2 DEF LeasedInv
<1> QED
  BY <1>1, LeasedCorrect, PTL
=============================================================================
