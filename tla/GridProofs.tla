----------------------------- MODULE GridProofs -----------------------------
(***************************************************************************)
(* Proofs about the lane grid and the brokered channel, from open() of a   *)
(* declaration on: any numbers of producers, consumers and brokers, any    *)
(* capacity and any number of values.                                      *)
(***************************************************************************)
EXTENDS MCGrid, SequenceFacts

-----------------------------------------------------------------------------
(* Declarations that open.                                                 *)

\* The declaration and the answer of open() agree.
OpenInv ==
  /\ decl \in Declarations
  /\ opened # "no" => HasOpen(decl)
  /\ opened \in {"open", "spawning"} => Opens(decl)
  /\ opened = "spawning" => IsBrokered(decl)
  /\ opened = "invalid" => IsBrokered(decl) \/ ~Opens(decl)

\* The powers of two that automatic capacities meet.
LEMMA PowersAre ==
  ASSUME UsizeBits > 12
  PROVE  /\ {1, 2, 4, 8, 16, 32, 64, 128, 256, 512, 1024, 2048, 4096} \subseteq {2 ^ i : i \in 0 .. UsizeBits - 1}
         /\ {2 ^ i : i \in 0 .. UsizeBits - 1} \subseteq Int
<1>1. UsizeBits \in Nat
  BY WidthAssumption
<1>2. /\ 1 = 2 ^ 0 /\ 2 = 2 ^ 1 /\ 4 = 2 ^ 2 /\ 8 = 2 ^ 3 /\ 16 = 2 ^ 4 /\ 32 = 2 ^ 5 /\ 64 = 2 ^ 6
      /\ 128 = 2 ^ 7 /\ 256 = 2 ^ 8 /\ 512 = 2 ^ 9 /\ 1024 = 2 ^ 10 /\ 2048 = 2 ^ 11 /\ 4096 = 2 ^ 12
  OBVIOUS
<1>3. \A i \in 0 .. 12 : i \in 0 .. UsizeBits - 1
  BY <1>1
<1>4. \A i \in 0 .. 12 : 2 ^ i \in {2 ^ j : j \in 0 .. UsizeBits - 1}
  BY <1>3
<1>5. {2 ^ i : i \in 0 .. UsizeBits - 1} \subseteq Int
  BY <1>1
<1> DEFINE P == {2 ^ i : i \in 0 .. UsizeBits - 1}
<1>6. /\ 2 ^ 0 \in P /\ 2 ^ 1 \in P /\ 2 ^ 2 \in P /\ 2 ^ 3 \in P /\ 2 ^ 4 \in P /\ 2 ^ 5 \in P /\ 2 ^ 6 \in P
      /\ 2 ^ 7 \in P /\ 2 ^ 8 \in P /\ 2 ^ 9 \in P /\ 2 ^ 10 \in P /\ 2 ^ 11 \in P /\ 2 ^ 12 \in P
  BY <1>4
<1> HIDE DEF P
<1>7. {1, 2, 4, 8, 16, 32, 64, 128, 256, 512, 1024, 2048, 4096} \subseteq P
  BY <1>2, <1>6
<1> QED
  BY <1>5, <1>7 DEF P

\* checked_next_power_of_two takes the least of the powers.
LEMMA NextIs ==
  ASSUME NEW n, PowersAbove(n) \subseteq Nat, NEW x \in PowersAbove(n)
  PROVE  NextPowerOfTwo(n) \in Nat /\ NextPowerOfTwo(n) <= x
<1>1. NextPowerOfTwo(n) = Min(PowersAbove(n))
  BY DEF NextPowerOfTwo
<1>2. PowersAbove(n) # {}
  OBVIOUS
<1>3. NextPowerOfTwo(n) \in PowersAbove(n)
  BY <1>2, LeastNatural DEF NextPowerOfTwo
<1>4. \A y \in PowersAbove(n) : NextPowerOfTwo(n) <= y
  BY <1>1, <1>2, LeastBelow
<1> QED
  BY <1>3, <1>4

\* The sizes of rings without a capacity() call.
Automatic == 1 .. 4096

\* checked_next_power_of_two rounds them up, by less than 2.
LEMMA RoundedIs ==
  ASSUME UsizeBits > 12, NEW n \in Automatic
  PROVE  /\ HasPowerOfTwo(n) /\ NextPowerOfTwo(n) \in Nat /\ NextPowerOfTwo(n) < 2 * n
         /\ n \in {1, 64, 256, 1024, 4096} => NextPowerOfTwo(n) <= n
<1> DEFINE P == {2 ^ i : i \in 0 .. UsizeBits - 1}
           Q == {1, 2, 4, 8, 16, 32, 64, 128, 256, 512, 1024, 2048, 4096}
<1>1. Q \subseteq P /\ P \subseteq Int
  BY PowersAre
<1>2. PowersAbove(n) = {x \in P : x >= n}
  BY DEF PowersAbove
<1> HIDE DEF P
<1>3. \E x \in Q : x >= n /\ x < 2 * n
  BY DEF Automatic
<1>4. n \in {1, 64, 256, 1024, 4096} => n \in PowersAbove(n)
  BY <1>1, <1>2 DEF Automatic
<1> HIDE DEF Q
<1>5. PICK x \in PowersAbove(n) : x \in Int /\ x < 2 * n
  BY <1>1, <1>2, <1>3
<1>6. n \in Int /\ n >= 0
  BY DEF Automatic
<1>7. ASSUME NEW y \in PowersAbove(n) PROVE y \in Nat
  <2>1. y \in P /\ y >= n
    BY <1>2
  <2>2. y \in Int
    BY <1>1, <2>1
  <2> QED
    BY <1>6, <2>1, <2>2
<1>9. PowersAbove(n) \subseteq Nat
  BY <1>7
<1>8. NextPowerOfTwo(n) \in Nat /\ \A y \in PowersAbove(n) : NextPowerOfTwo(n) <= y
  BY <1>5, <1>9, NextIs
<1> QED
  BY <1>4, <1>5, <1>6, <1>8 DEF HasPowerOfTwo

\* Division rounded up.
LEMMA CeilIs ==
  ASSUME NEW a \in Nat, NEW b \in Nat \ {0}
  PROVE  /\ CeilDiv(a, b) \in Nat /\ CeilDiv(a, b) * b >= a
         /\ a # 0 => CeilDiv(a, b) \in 1 .. a
         /\ a >= 1 => CeilDiv(a, b) * b <= a + b - 1
<1> DEFINE x == a + b - 1
           q == x \div b
<1>1. q \in Int /\ b * q <= x /\ x < b * q + b /\ x \in Nat
  BY SMT
<1>2. CeilDiv(a, b) = q
  BY DEF CeilDiv
<1> HIDE DEF q
<1>3. q * b >= a /\ q * b <= a + b - 1
  BY <1>1
<1> HIDE DEF x
<1>4. q >= 0
  <2>1. CASE q < 0
    <3>1. b * q <= -b
      BY <1>1, <2>1
    <3> QED
      BY <1>1, <3>1
  <2> QED
    BY <1>1, <2>1
<1>5. ASSUME a # 0 PROVE q \in 1 .. a
  <2>1. q # 0
    BY <1>3, <1>5
  <2>2. CASE q > a
    <3>1. q * b >= (a + 1) * b
      BY <1>1, <2>2
    <3>2. (a + 1) * b = a * b + b /\ a * b >= a
      OBVIOUS
    <3> QED
      BY <1>1, <1>3, <3>1, <3>2
  <2> QED
    BY <1>1, <1>4, <2>1, <2>2
<1> QED
  BY <1>1, <1>2, <1>3, <1>4, <1>5

\* quantized_capacity answers one of four powers of two.
LEMMA QuantizedIs ==
  ASSUME NEW slots
  PROVE  quantized_capacity(slots) \in {64, 256, 1024, 4096}
  BY DEF quantized_capacity

\* The targets between the clamps, and how near quantized_capacity comes.
Target == 64 .. 4096

LEMMA QuantizedNear ==
  ASSUME NEW s \in Target
  PROVE  quantized_capacity(s) <= 2 * s /\ s <= 2 * quantized_capacity(s)
<1> DEFINE q == quantized_capacity(s)
<1>1. /\ s <= 127 => q = 64
      /\ s \in 128 .. 511 => q = 256
      /\ s \in 512 .. 2047 => q = 1024
      /\ s > 2047 => q = 4096
  <2>1. ASSUME s <= 127 PROVE q = 64
    <3>1. s \notin 128 .. 511 /\ s \notin 512 .. 2047
      BY <2>1, SMTT(40) DEF Target
    <3> QED
      BY <2>1, <3>1 DEF quantized_capacity
  <2>2. ASSUME s \in 128 .. 511 PROVE q = 256
    <3>1. ~(s <= 127) /\ s \notin 512 .. 2047
      BY <2>2 DEF Target
    <3> QED
      BY <2>2, <3>1 DEF quantized_capacity
  <2>3. ASSUME s \in 512 .. 2047 PROVE q = 1024
    <3>1. ~(s <= 127) /\ s \notin 128 .. 511
      BY <2>3 DEF Target
    <3> QED
      BY <2>3, <3>1 DEF quantized_capacity
  <2>4. ASSUME s > 2047 PROVE q = 4096
    <3>1. ~(s <= 127) /\ s \notin 128 .. 511 /\ s \notin 512 .. 2047
      BY <2>4 DEF Target
    <3> QED
      BY <2>4, <3>1 DEF quantized_capacity
  <2> QED
    BY <2>1, <2>2, <2>3, <2>4
<1> HIDE DEF q
<1>2. q <= 2 * s /\ s <= 2 * q
  BY <1>1 DEF Target
<1> QED
  BY <1>2 DEF q

\* Every builder call yields a declaration.
LEMMA NewIs ==
  ASSUME NEW payload \in Nat
  PROVE  New(payload) \in Declarations
<1>1. {<<>>} \subseteq Options
  BY DEF Options
<1> QED
  BY <1>1 DEF New, Declarations, None

LEMMA SomeIs ==
  ASSUME NEW n \in Nat
  PROVE  Some(n) \in Options
  BY DEF Some, Options

LEMMA NumbersAre == Numbers \cup Counts \cup PayloadBytes \subseteq Nat
<1>1. Numbers \cup Counts \cup PayloadBytes \subseteq 0 .. 2 ^ UsizeBits - 1
  BY WidthAssumption
<1>2. \A w : 0 .. w \subseteq Nat
  OBVIOUS
<1> QED
  BY <1>1, <1>2

\* One field of a declaration is replaced.
LEMMA WithIs ==
  ASSUME NEW d \in Declarations
  PROVE  /\ \A x \in {"MpscFixed", "MpscPool", "MpscDynamic", "Mpmc", "MpmcDynamicLocked", "MpmcDynamicArray",
                    "MpmcBrokered", "Broadcast", "ProcessDuplex"} : [d EXCEPT !.topology = x] \in Declarations
         /\ \A x \in {"Claim", "Lanes"} : [d EXCEPT !.engine = x] \in Declarations
         /\ \A x \in {"Drop", "Pooled"} : [d EXCEPT !.reclaim = x] \in Declarations
         /\ \A x \in {"RoundRobin", "Route", "PubSub"} : [d EXCEPT !.routing = x] \in Declarations
         /\ \A x \in {"Ring", "Seg"} : [d EXCEPT !.backend = x] \in Declarations
         /\ \A x \in {"Native", "Leased", "Bytes"} : [d EXCEPT !.codec = x] \in Declarations
         /\ \A x \in {"Local", "Create", "Attach"} : [d EXCEPT !.transport = x] \in Declarations
         /\ \A x \in Options : [d EXCEPT !.capacity = x] \in Declarations
         /\ \A x \in Options : [d EXCEPT !.recycling = x] \in Declarations
         /\ \A x \in Nat : [d EXCEPT !.array_producers = x] \in Declarations
<1>1. ASSUME NEW x \in {"MpscFixed", "MpscPool", "MpscDynamic", "Mpmc", "MpmcDynamicLocked", "MpmcDynamicArray",
                    "MpmcBrokered", "Broadcast", "ProcessDuplex"} PROVE [d EXCEPT !.topology = x] \in Declarations
  BY DEF Declarations
<1>2. ASSUME NEW x \in {"Claim", "Lanes"} PROVE [d EXCEPT !.engine = x] \in Declarations
  BY DEF Declarations
<1>3. ASSUME NEW x \in {"Drop", "Pooled"} PROVE [d EXCEPT !.reclaim = x] \in Declarations
  BY DEF Declarations
<1>4. ASSUME NEW x \in {"RoundRobin", "Route", "PubSub"} PROVE [d EXCEPT !.routing = x] \in Declarations
  BY DEF Declarations
<1>5. ASSUME NEW x \in {"Ring", "Seg"} PROVE [d EXCEPT !.backend = x] \in Declarations
  BY DEF Declarations
<1>6. ASSUME NEW x \in {"Native", "Leased", "Bytes"} PROVE [d EXCEPT !.codec = x] \in Declarations
  BY DEF Declarations
<1>7. ASSUME NEW x \in {"Local", "Create", "Attach"} PROVE [d EXCEPT !.transport = x] \in Declarations
  BY DEF Declarations
<1>8. ASSUME NEW x \in Options PROVE [d EXCEPT !.capacity = x] \in Declarations
  BY DEF Declarations
<1>9. ASSUME NEW x \in Options PROVE [d EXCEPT !.recycling = x] \in Declarations
  BY DEF Declarations
<1>10. ASSUME NEW x \in Nat PROVE [d EXCEPT !.array_producers = x] \in Declarations
  BY DEF Declarations
<1> QED
  BY <1>1, <1>2, <1>3, <1>4, <1>5, <1>6, <1>7, <1>8, <1>9, <1>10

LEMMA DeclareIs ==
  ASSUME decl \in Declarations, Declare
  PROVE  decl' \in Declarations /\ opened = "no" /\ opened' = "no"
<1>1. \A d : Edit(d) => decl' = d /\ opened = "no" /\ opened' = "no"
  BY DEF Edit
<1>2. ASSUME Select PROVE \E d \in Declarations : Edit(d)
  <2>1. CASE SelectIpc
    <3> DEFINE d1 == [decl EXCEPT !.topology = "ProcessDuplex"]
               d2 == [d1 EXCEPT !.backend = "Ring"]
               d3 == [d2 EXCEPT !.transport = "Create"]
               d4 == [d3 EXCEPT !.codec = "Bytes"]
    <3>1. d1 \in Declarations
      BY WithIs
    <3> HIDE DEF d1
    <3>2. d2 \in Declarations
      BY <3>1, WithIs
    <3> HIDE DEF d2
    <3>3. d3 \in Declarations
      BY <3>2, WithIs
    <3> HIDE DEF d3
    <3>4. d4 \in Declarations
      BY <3>3, WithIs
    <3>5. Edit(d4)
      BY <2>1, Zenon DEF SelectIpc, d1, d2, d3
    <3> QED
      BY <3>4, <3>5
  <2>2. ASSUME NEW n \in Numbers, Edit([decl EXCEPT !.topology = "MpmcDynamicArray", !.array_producers = n])
        PROVE  \E d \in Declarations : Edit(d)
    <3>1. n \in Nat
      BY NumbersAre
    <3> DEFINE d1 == [decl EXCEPT !.topology = "MpmcDynamicArray"]
               d2 == [d1 EXCEPT !.array_producers = n]
    <3>2. d1 \in Declarations
      BY WithIs
    <3> HIDE DEF d1
    <3>3. d2 \in Declarations
      BY <3>1, <3>2, WithIs
    <3>4. Edit(d2)
      BY <2>2, Zenon DEF d1
    <3> QED
      BY <3>3, <3>4
  <2>3. ASSUME NEW t \in {"MpscFixed", "MpscPool", "MpscDynamic", "Mpmc", "MpmcDynamicLocked", "MpmcBrokered", "Broadcast"},
               Edit([decl EXCEPT !.topology = t, !.engine = IF t = "Mpmc" THEN "Claim" ELSE @,
                                 !.reclaim = IF t = "MpscDynamic" THEN "Drop" ELSE @])
        PROVE  \E d \in Declarations : Edit(d)
    <3> DEFINE e == IF t = "Mpmc" THEN "Claim" ELSE decl.engine
               r == IF t = "MpscDynamic" THEN "Drop" ELSE decl.reclaim
               d1 == [decl EXCEPT !.topology = t]
               d2 == [d1 EXCEPT !.engine = e]
               d3 == [d2 EXCEPT !.reclaim = r]
    <3>1. e \in {"Claim", "Lanes"} /\ r \in {"Drop", "Pooled"}
      BY DEF Declarations
    <3>2. d1 \in Declarations
      BY WithIs
    <3>5. Edit([decl EXCEPT !.topology = t, !.engine = e, !.reclaim = r])
      BY <2>3
    <3> HIDE DEF d1, e, r
    <3>3. d2 \in Declarations
      BY <3>1, <3>2, WithIs
    <3> HIDE DEF d2
    <3>4. d3 \in Declarations
      BY <3>1, <3>3, WithIs
    <3>6. Edit(d3)
      BY <3>5, Zenon DEF d1, d2
    <3> QED
      BY <3>4, <3>6
  <2> QED
    BY <1>2, <2>1, <2>2, <2>3 DEF Select
<1>3. ASSUME Refine PROVE \E d \in Declarations : Edit(d)
  <2>1. CASE Routed
    BY <2>1, WithIs DEF Routed
  <2>2. CASE Attach
    BY <2>2, WithIs DEF Attach
  <2>3. ASSUME NEW e \in {"Claim", "Lanes"}, Edit([decl EXCEPT !.engine = e])
        PROVE  \E d \in Declarations : Edit(d)
    BY <2>3, WithIs
  <2>4. CASE Edit([decl EXCEPT !.codec = "Leased"])
    BY <2>4, WithIs
  <2>5. ASSUME NEW b \in {"Ring", "Seg"}, Edit([decl EXCEPT !.backend = b])
        PROVE  \E d \in Declarations : Edit(d)
    BY <2>5, WithIs
  <2> QED
    BY <1>3, <2>1, <2>2, <2>3, <2>4, <2>5 DEF Refine
<1>4. ASSUME NEW n \in Nat,
             NEW field \in {"producers", "consumers", "brokers", "max_producers", "max_readers", "batch", "timeout",
                            "total_bytes", "chunk_bytes", "slots", "transfer_id"}
      PROVE  [decl EXCEPT ![field] = n] \in Declarations
  BY DEF Declarations
<1>5. ASSUME SetNumber PROVE \E d \in Declarations : Edit(d)
  <2>1. /\ Countable \subseteq {"producers", "consumers", "brokers", "max_producers", "max_readers"}
        /\ Sizable \subseteq {"batch", "timeout", "total_bytes", "chunk_bytes", "slots", "transfer_id"}
    BY DEF Countable, Sizable, Declarations
  <2>2. ASSUME NEW n \in Counts, NEW field \in Countable, Edit([decl EXCEPT ![field] = n])
        PROVE  \E d \in Declarations : Edit(d)
    BY <1>4, <2>1, <2>2, NumbersAre
  <2>3. ASSUME NEW n \in Numbers, NEW field \in Sizable, Edit([decl EXCEPT ![field] = n])
        PROVE  \E d \in Declarations : Edit(d)
    BY <1>4, <2>1, <2>3, NumbersAre
  <2>4. ASSUME NEW n \in Numbers, Edit([decl EXCEPT !.capacity = Some(n)])
        PROVE  \E d \in Declarations : Edit(d)
    <3>1. Some(n) \in Options
      BY NumbersAre, SomeIs
    <3> QED
      BY <2>4, <3>1, WithIs
  <2>5. ASSUME NEW n \in Numbers, Edit([decl EXCEPT !.recycling = Some(n), !.reclaim = "Pooled"])
        PROVE  \E d \in Declarations : Edit(d)
    <3>1. Some(n) \in Options
      BY NumbersAre, SomeIs
    <3> DEFINE o == Some(n)
               d1 == [decl EXCEPT !.recycling = o]
               d2 == [d1 EXCEPT !.reclaim = "Pooled"]
    <3>2. d1 \in Declarations
      BY <3>1, WithIs
    <3> HIDE DEF d1
    <3>3. d2 \in Declarations
      BY <3>2, WithIs
    <3>4. Edit(d2)
      BY <2>5, Zenon DEF d1
    <3> QED
      BY <3>3, <3>4
  <2> QED
    BY <1>5, <2>2, <2>3, <2>4, <2>5 DEF SetNumber
<1> QED
  BY <1>1, <1>2, <1>3, <1>5 DEF Declare

\* A quotient is unique.
LEMMA QuotientIs ==
  ASSUME NEW b \in Nat \ {0}, NEW x \in Int, NEW q \in Int, NEW y \in 0 .. b - 1, b * q = b * x + y
  PROVE  x = q /\ y = 0
<1> DEFINE u == b * x
           v == b * q
<1>1. u \in Int /\ v \in Int /\ v = u + y
  OBVIOUS
<1>2. x < q => u + b <= v
  <2>1. x < q => b * (x + 1) <= b * q
    OBVIOUS
  <2> QED
    BY <2>1
<1>3. x > q => v + b <= u
  <2>1. x > q => b * (q + 1) <= b * x
    OBVIOUS
  <2> QED
    BY <2>1
<1>4. x = q => u = v
  OBVIOUS
<1> HIDE DEF u, v
<1> QED
  BY <1>1, <1>2, <1>3, <1>4

\* Without a capacity() call the capacity is one of four powers of two, or
\* for leased blocks a whole number of batches, no more blocks than slots.
LEMMA AutomaticIs ==
  ASSUME NEW d \in Declarations, HasOpen(d), d.topology \in {"MpscFixed", "Mpmc"}, d.capacity = None, d.codec # "Leased"
  PROVE  Capacity(d) \in {64, 256, 1024, 4096}
<1>1. UnwrapOr(d.capacity, quantized_capacity(ResidentSlots(d, Greater(d.producers, 1)))) \in {64, 256, 1024, 4096}
  BY QuantizedIs DEF UnwrapOr
<1>2. native_capacity(d, d.producers, 1) \in {64, 256, 1024, 4096}
  BY QuantizedIs DEF native_capacity, UnwrapOr, DEFAULT_CAPACITY
<1>3. native_capacity(d, d.producers, d.consumers) \in {64, 256, 1024, 4096}
  BY QuantizedIs DEF native_capacity, UnwrapOr, DEFAULT_CAPACITY
<1> QED
  BY <1>2, <1>3 DEF Capacity

LEMMA LeasedAutomaticIs ==
  ASSUME NEW d \in Declarations, d.topology = "Mpmc", d.capacity = None, d.codec = "Leased", d.batch # 0
  PROVE  /\ Capacity(d) \in Nat /\ Capacity(d) >= d.batch /\ Capacity(d) % d.batch = 0
         /\ LeasedBlocks(d) \in Automatic /\ LeasedBlocks(d) * d.batch = Capacity(d)
         /\ d.batch = 1 => LeasedBlocks(d) \in {64, 256, 1024, 4096}
<1> DEFINE b == d.batch
           bytes == AtLeastOne(d.payload)
           s == (RING_RESIDENT_TARGET_BYTES * AtLeastOne(d.consumers)) \div (bytes * AtLeastOne(d.producers))
           k == Lesser(quantized_capacity(s), IF bytes <= 64 THEN 4096 ELSE 1024)
           C == Capacity(d)
           most == 4096
<1>1. C = IF b = 0 \/ k % b = 0 THEN k ELSE IF k < b THEN b ELSE CeilDiv(k, b) * b
  BY DEF Capacity, leased_capacity, UnwrapOr
<1>2. b \in Nat \ {0}
  BY DEF Declarations
<1>3. k \in {64, 256, 1024, 4096}
  <2> HIDE DEF s, bytes
  <2>1. quantized_capacity(s) \in {64, 256, 1024, 4096}
    BY QuantizedIs
  <2> QED
    BY <2>1 DEF Lesser
<1>4. LeasedBlocks(d) = C \div b
  BY DEF LeasedBlocks
<1> HIDE DEF k, C, b
<1>5. \A x \in Nat : x = b * (x \div b) + (x % b) /\ x % b \in 0 .. b - 1 /\ x \div b \in Int
  BY <1>2
<1>10. k \in Nat \ {0} /\ k <= most /\ most \in Nat
  BY <1>3
<1> HIDE DEF most
<1>6. PICK q \in 1 .. most : C = b * q /\ (b = 1 => q = k)
  <2>1. CASE k % b = 0
    <3> DEFINE e == k \div b
    <3>1. k = b * e /\ e \in Int
      <4>1. k = b * (k \div b) + (k % b) /\ k \div b \in Int
        BY <1>10, <1>5
      <4> HIDE DEF e
      <4>2. k = b * e + 0 /\ e \in Int
        BY <2>1, <4>1 DEF e
      <4> QED
        BY <1>2, <4>2
    <3> HIDE DEF e
    <3>2. e >= 1 /\ e <= k
      BY <1>2, <1>3, <3>1
    <3>3. C = b * e
      BY <1>1, <2>1, <3>1, <1>2
    <3>4. b = 1 => e = k
      BY <3>1
    <3> QED
      <4>1. e \in 1 .. most
        BY <1>10, <3>1, <3>2
      <4> HIDE DEF e
      <4> QED
        BY <3>3, <3>4, <4>1, Zenon
  <2>2. CASE k % b # 0 /\ k < b
    BY <1>1, <1>2, <1>10, <2>2
  <2>3. CASE k % b # 0 /\ k >= b
    <3>1. CeilDiv(k, b) \in 1 .. k
      BY <1>2, <1>10, CeilIs
    <3>2. C = b * CeilDiv(k, b)
      BY <1>1, <1>2, <1>10, <2>3, <3>1
    <3>3. b # 1
      BY <1>10, <1>5, <2>3
    <3> QED
      BY <1>10, <3>1, <3>2, <3>3
  <2> QED
    BY <1>2, <1>10, <2>1, <2>2, <2>3
<1>7. C \div b = q /\ C % b = 0 /\ C \in Nat /\ C >= b
  <2>1. C \in Nat /\ C >= b
    BY <1>2, <1>6
  <2> DEFINE x == C \div b
             y == C % b
  <2>2. C = b * x + y /\ y \in 0 .. b - 1 /\ x \in Int
    BY <1>5, <2>1
  <2> HIDE DEF x, y
  <2>3. x = q /\ y = 0
    <3>1. /\ b \in Nat \ {0} /\ x \in Int /\ q \in Int /\ y \in 0 .. b - 1 /\ b * q = b * x + y
      BY <1>2, <1>6, <2>2
    <3> QED
      BY <3>1, QuotientIs, Zenon
  <2> QED
    BY <2>1, <2>3 DEF x, y
<1>8. C = q * b
  BY <1>2, <1>6
<1>9. LeasedBlocks(d) = q /\ (b = 1 => q \in {64, 256, 1024, 4096})
  BY <1>3, <1>4, <1>6, <1>7
<1> QED
  BY <1>6, <1>7, <1>8, <1>9 DEF C, b, most, Automatic

\* An automatic capacity is never the reason a declaration is refused.
LEMMA AutomaticOpens ==
  ASSUME UsizeBits > 12, NEW d \in Declarations, HasOpen(d), ~Opens(d), d.topology \in {"MpscFixed", "Mpmc"},
         d.capacity = None, 0 \notin {d.batch, d.producers, d.consumers}
  PROVE  d.codec = "Leased" /\ d.producers * d.consumers * Capacity(d) > UsizeMax
<1>1. /\ d.batch \in Nat \ {0} /\ d.producers \in Nat \ {0} /\ d.consumers \in Nat \ {0}
      /\ d.engine \in {"Claim", "Lanes"} /\ d.codec \in {"Native", "Leased", "Bytes"}
  BY DEF Declarations
<1>2. ASSUME d.codec # "Leased" PROVE FALSE
  <2> DEFINE C == Capacity(d)
  <2>1. C \in {64, 256, 1024, 4096}
    BY <1>2, AutomaticIs
  <2> HIDE DEF C
  <2>2. C \in Nat /\ C # 0 /\ C <= 4096 /\ C \in Automatic
    BY <2>1 DEF Automatic
  <2>3. HasPowerOfTwo(C)
    BY <2>2, RoundedIs
  <2>4. validate_common(C, d.batch)
    BY <1>1, <2>2, <2>3 DEF validate_common
  <2> DEFINE n == d.consumers
             l == CeilDiv(C, n)
  <2>10. n \in Nat \ {0}
    BY <1>1
  <2> HIDE DEF n
  <2>11. C \in Nat /\ C # 0
    BY <2>2
  <2>5. l \in 1 .. C
    BY <2>10, <2>11, CeilIs, Zenon
  <2> HIDE DEF l
  <2>6. l \in Automatic /\ l # 0
    BY <2>2, <2>5 DEF Automatic
  <2>7. HasPowerOfTwo(l)
    BY <2>6, RoundedIs
  <2>8. validate_common(LaneCapacity(d), d.batch)
    BY <1>1, <2>6, <2>7 DEF validate_common, LaneCapacity, C, l, n
  <2>9. FixedOpens(d) /\ ClaimOpens(d) /\ LanesOpens(d)
    BY <1>1, <2>4, <2>8 DEF FixedOpens, ClaimOpens, LanesOpens, C
  <2> QED
    BY <1>1, <1>2, <2>9 DEF Opens
<1>3. ASSUME d.codec = "Leased", ~(d.producers * d.consumers * Capacity(d) > UsizeMax) PROVE FALSE
  <2>1. d.topology = "Mpmc"
    BY <1>3 DEF HasOpen
  <2> DEFINE C == Capacity(d)
             B == LeasedBlocks(d)
             w == d.producers * d.consumers
             S == NextPowerOfTwo(B)
  <2>2. /\ C \in Nat /\ C >= d.batch /\ C % d.batch = 0 /\ B \in Automatic /\ B * d.batch = C
        /\ d.batch = 1 => B \in {64, 256, 1024, 4096}
    BY <1>1, <1>3, <2>1, LeasedAutomaticIs
  <2>3. /\ HasPowerOfTwo(B) /\ S \in Nat /\ S < 2 * B
        /\ B \in {1, 64, 256, 1024, 4096} => S <= B
    BY <2>2, RoundedIs
  <2>8. B \in Nat /\ B >= 1
    <3>1. B \in Automatic
      BY <2>2
    <3> HIDE DEF B
    <3> QED
      BY <3>1 DEF Automatic
  <2>4. UsizeMax \in Int /\ w * C <= UsizeMax
    <3>1. UsizeMax \in Int
      BY WidthAssumption DEF UsizeMax
    <3> QED
      BY <1>1, <1>3, <2>2, <3>1
  <2> HIDE DEF C, B, S
  <2>5. S <= C
    <3>1. CASE d.batch = 1
      BY <2>2, <2>3, <2>8, <3>1
    <3>2. CASE d.batch >= 2
      <4>1. B * d.batch >= 2 * B
        BY <1>1, <2>8, <3>2
      <4> QED
        BY <2>2, <2>3, <2>8, <4>1
    <3> QED
      BY <1>1, <3>1, <3>2
  <2>6. d.producers * C <= w * C /\ w * S <= w * C
    <3>1. w \in Nat /\ w >= d.producers
      BY <1>1
    <3> HIDE DEF w
    <3> QED
      BY <1>1, <2>2, <2>3, <2>5, <3>1
  <2>7. LeasedOpens(d)
    <3>1. d.producers * C \in Int /\ w * S \in Int /\ w * C \in Int
      BY <1>1, <2>2, <2>3
    <3>2. d.producers * C <= UsizeMax /\ w * S <= UsizeMax
      BY <2>4, <2>6, <3>1
    <3> QED
      BY <1>1, <2>2, <2>3, <3>2 DEF LeasedOpens, C, B, S
  <2> QED
    BY <1>3, <2>1, <2>7 DEF Opens
<1> QED
  BY <1>2, <1>3

LEMMA OptionIs ==
  ASSUME NEW d \in Declarations, d.capacity # None
  PROVE  d.capacity[1] \in Nat
<1>1. d.capacity \in Seq(Nat)
  BY DEF Declarations, Options
<1> QED
  BY <1>1 DEF None

\* What a declaration that opens gives the constructors.
LEMMA OpenedIs ==
  ASSUME OpenInv, opened = "open"
  PROVE  LET d == decl IN
         /\ d.topology # "ProcessDuplex" /\ d.codec # "Leased" => Buildable(Capacity(d))
         /\ d.topology = "MpscPool"  => d.max_producers \in 1 .. 64
         /\ d.topology = "Broadcast" => d.max_readers \in 1 .. 64
         /\ d.topology \in {"Mpmc", "MpmcBrokered", "MpmcDynamicLocked"} => d.producers # 0 /\ d.consumers # 0
         /\ d.topology = "MpmcBrokered" => d.brokers \in 1 .. d.producers
         /\ d.topology = "Mpmc" /\ d.engine = "Lanes" =>
              Buildable(LaneCapacity(d)) /\ LaneCapacity(d) * d.consumers >= Capacity(d)
         /\ d.codec = "Leased" => LeasedBlocks(d) * d.batch = Capacity(d) /\ Buildable(LeasedBlocks(d))
<1> DEFINE d == decl
<1>1. d \in Declarations /\ HasOpen(d) /\ Opens(d)
  BY DEF OpenInv
<1> HIDE DEF d
<1>2. /\ d.producers \in Nat /\ d.consumers \in Nat /\ d.brokers \in Nat /\ d.batch \in Nat
      /\ d.max_producers \in Nat /\ d.max_readers \in Nat /\ d.engine \in {"Claim", "Lanes"}
      /\ d.codec \in {"Native", "Leased", "Bytes"}
      /\ d.topology \in {"MpscFixed", "MpscPool", "MpscDynamic", "Mpmc", "MpmcDynamicLocked", "MpmcDynamicArray",
                         "MpmcBrokered", "Broadcast", "ProcessDuplex"}
  BY <1>1 DEF Declarations
<1>3. d.codec = "Leased" => d.topology = "Mpmc" /\ d.engine = "Claim" /\ LeasedOpens(d)
  BY <1>1, <1>2 DEF HasOpen, Opens
<1>4. d.topology = "MpscPool" => d.max_producers \in 1 .. 64 /\ validate_common(Capacity(d), d.batch)
  BY <1>1, <1>3 DEF Opens, PoolOpens
<1>5. d.topology = "Broadcast" => d.max_readers \in 1 .. 64 /\ validate_common(Capacity(d), d.batch)
  BY <1>1, <1>3 DEF Opens, BroadcastOpens
<1>6. d.topology = "MpmcBrokered" =>
        /\ d.producers # 0 /\ d.consumers # 0 /\ d.brokers \in 1 .. d.producers
        /\ validate_common(Capacity(d), d.batch)
  <2>1. d.topology = "MpmcBrokered" => BrokeredOpens(d)
    BY <1>1 DEF Opens
  <2> QED
    BY <1>2, <2>1 DEF BrokeredOpens
<1>7. d.topology = "Mpmc" => d.producers # 0 /\ d.consumers # 0 /\ (d.codec # "Leased" => validate_common(Capacity(d), d.batch))
  BY <1>1, <1>2, <1>3 DEF Opens, LanesOpens, ClaimOpens, LeasedOpens
<1>8. d.topology = "MpmcDynamicLocked" => d.producers # 0 /\ d.consumers # 0 /\ validate_common(Capacity(d), d.batch)
  BY <1>1 DEF Opens, LockedOpens
<1>9. d.topology \in {"MpscFixed", "MpscDynamic", "MpmcDynamicArray"} => validate_common(Capacity(d), d.batch)
  BY <1>1 DEF Opens, FixedOpens, DynamicOpens, ArrayOpens
<1>10. d.topology = "Mpmc" /\ d.engine = "Lanes" =>
         Buildable(LaneCapacity(d)) /\ LaneCapacity(d) * d.consumers >= Capacity(d)
  <2> HAVE d.topology = "Mpmc" /\ d.engine = "Lanes"
  <2>1. LanesOpens(d) /\ d.codec # "Leased"
    BY <1>1, <1>3 DEF Opens
  <2>2. Buildable(LaneCapacity(d)) /\ d.consumers \in Nat \ {0}
    BY <1>2, <2>1 DEF LanesOpens, validate_common, Buildable
  <2>3. Capacity(d) \in Nat
    <3>1. Capacity(d) = native_capacity(d, d.producers, d.consumers)
      BY <2>1 DEF Capacity
    <3>2. d.capacity = None => native_capacity(d, d.producers, d.consumers) \in {64, 256, 1024, 4096}
      BY QuantizedIs DEF native_capacity, UnwrapOr, DEFAULT_CAPACITY
    <3>3. d.capacity # None => native_capacity(d, d.producers, d.consumers) \in Nat
      BY <1>1, OptionIs DEF native_capacity, UnwrapOr
    <3> QED
      BY <3>1, <3>2, <3>3
  <2> DEFINE C == Capacity(d)
             n == d.consumers
  <2> HIDE DEF C, n
  <2>4. C \in Nat /\ n \in Nat \ {0}
    BY <2>2, <2>3 DEF C, n
  <2>5. CeilDiv(C, n) * n >= C
    BY <2>4, CeilIs
  <2> QED
    BY <2>2, <2>5 DEF LaneCapacity, C, n
<1>11. d.codec = "Leased" => LeasedBlocks(d) * d.batch = Capacity(d) /\ Buildable(LeasedBlocks(d))
  <2> HAVE d.codec = "Leased"
  <2>1. d.batch \in Nat \ {0} /\ Capacity(d) >= d.batch /\ Capacity(d) % d.batch = 0 /\ HasPowerOfTwo(LeasedBlocks(d))
    BY <1>2, <1>3 DEF LeasedOpens
  <2>2. Capacity(d) \in Nat
    <3>1. d.capacity = None => Capacity(d) \in Nat
      BY <1>1, <1>3, <2>1, LeasedAutomaticIs
    <3>2. d.capacity # None => Capacity(d) = d.capacity[1]
      BY <1>3 DEF Capacity, leased_capacity, UnwrapOr
    <3> QED
      BY <1>1, <3>1, <3>2, OptionIs
  <2> DEFINE C == Capacity(d)
             b == d.batch
             q == C \div b
  <2> HIDE DEF C, b
  <2>3. C \in Nat /\ b \in Nat \ {0} /\ C >= b /\ C % b = 0
    BY <2>1, <2>2 DEF C, b
  <2>4. C = b * q + (C % b) /\ q \in Int
    BY <2>3
  <2> HIDE DEF q
  <2>5. C = q * b
    BY <2>3, <2>4
  <2>6. q # 0
    BY <2>3, <2>5
  <2>7. LeasedBlocks(d) = q
    BY DEF LeasedBlocks, q, C, b
  <2> QED
    BY <2>1, <2>5, <2>6, <2>7 DEF Buildable, C, b
<1>12. d.topology # "ProcessDuplex" /\ d.codec # "Leased" => Buildable(Capacity(d))
  <2>1. d.topology # "ProcessDuplex" /\ d.codec # "Leased" => validate_common(Capacity(d), d.batch)
    BY <1>2, <1>4, <1>5, <1>6, <1>7, <1>8, <1>9
  <2> QED
    BY <2>1 DEF validate_common, Buildable
<1> QED
  BY <1>4, <1>5, <1>6, <1>7, <1>8, <1>10, <1>11, <1>12 DEF d

LEMMA OpenStep ==
  ASSUME OpenInv, [Next]_vars
  PROVE  OpenInv'
<1>1. CASE ~Runs /\ Declare
  <2>1. decl' \in Declarations /\ opened' = "no"
    BY <1>1, DeclareIs DEF OpenInv
  <2> QED
    BY <2>1 DEF OpenInv
<1>2. CASE Open
  BY <1>2 DEF Open, OpenInv
<1>3. CASE OpenBrokered
  BY <1>3 DEF OpenBrokered, OpenInv
<1>4. ASSUME NEW b, Spawn(b) \/ SpawnFails(b) PROVE OpenInv'
  BY <1>4 DEF Spawn, SpawnFails, OpenInv
<1>5. CASE UNCHANGED <<decl, opened>>
  BY <1>5 DEF OpenInv
<1> QED
  BY <1>1, <1>2, <1>3, <1>4, <1>5 DEF Next, OpenRefused, OpenLanes, vars, declaration

\* What open() accepts, whatever chain of builder calls led to it, is what the
\* constructors of open.rs rely on without checking it again, and an automatic
\* capacity (quantized_capacity, leased_capacity) is near its target and is
\* never refused.  Its largest value, 4096, must be a usize.
THEOREM OpenCorrect ==
  ASSUME UsizeBits > 12
  PROVE  Spec => []OpenSound
<1>1. Init => OpenInv
  <2>1. PayloadBytes \subseteq Nat /\ Declared \subseteq Declarations
    BY NumbersAre, GridAssumption
  <2>2. ASSUME Init PROVE decl \in Declarations /\ opened = "no"
    BY <2>1, <2>2, NewIs DEF Init, DeclarationInit
  <2> QED
    BY <2>2 DEF OpenInv
<1>2. OpenInv /\ [Next]_vars => OpenInv'
  BY OpenStep
<1>3. ASSUME OpenInv PROVE OpenSound
  <2> DEFINE d == decl
             s == ResidentSlots(d, Greater(d.producers, d.consumers))
  <2>1. s \in 64 .. 4096 => quantized_capacity(s) <= 2 * s /\ s <= 2 * quantized_capacity(s)
    <3> HIDE DEF s
    <3>1. s \in 64 .. 4096 => s \in Target
      BY DEF Target
    <3> QED
      BY <3>1, QuantizedNear
  <2>2. (opened = "invalid" /\ d.topology \in {"MpscFixed", "Mpmc"} /\ d.capacity = None) =>
          \/ 0 \in {d.batch, d.producers, d.consumers}
          \/ d.codec = "Leased" /\ d.producers * d.consumers * Capacity(d) > UsizeMax
    <3>1. SUFFICES ASSUME opened = "invalid", d.topology \in {"MpscFixed", "Mpmc"}, d.capacity = None,
                          0 \notin {d.batch, d.producers, d.consumers}
                   PROVE  d.codec = "Leased" /\ d.producers * d.consumers * Capacity(d) > UsizeMax
      OBVIOUS
    <3>2. d \in Declarations /\ HasOpen(d) /\ ~Opens(d)
      BY <1>3, <3>1 DEF OpenInv, IsBrokered
    <3> HIDE DEF d
    <3> QED
      BY <3>1, <3>2, AutomaticOpens
  <2>3. CASE opened = "open"
    <3> HIDE DEF s
    <3>1. (opened = "open" /\ d.topology \in {"Mpmc", "MpmcBrokered", "MpmcDynamicLocked"}) =>
            LET workers == <<d.producers, d.consumers>> IN 0 \notin {workers[1], workers[2]}
      BY <1>3, <2>3, OpenedIs
    <3> QED
      BY <1>3, <2>1, <2>2, <2>3, <3>1, OpenedIs, ZenonT(60) DEF OpenSound, s
  <2>4. CASE opened # "open"
    BY <2>1, <2>2, <2>4 DEF OpenSound
  <2> QED
    BY <2>3, <2>4
<1> QED
  BY <1>1, <1>2, <1>3, PTL DEF Spec

-----------------------------------------------------------------------------
(* The state of a channel that runs.                                       *)

Values == Producers \X (Nat \ {0})

RingState == [q : Seq(Values), wgone : BOOLEAN, rgone : BOOLEAN]

ProducerState ==
  [pc : {"idle", "send", "full", "gone"}, op : {"send", "try_send", "send_batch"},
   cursor : Nat, tried : Nat, left : Nat, next : Nat \ {0}]

ConsumerState(R) ==
  [pc : {"idle", "scan", "adopt", "empty", "finished", "ended", "leaving", "gone"}, op : LanesCalls,
   lanes : Seq(R), cursor : Nat, staging : Seq(Values), looked : Nat, adopted : BOOLEAN,
   final : BOOLEAN, done : Nat]

\* The producers that have not been dropped.
Alive == {p \in Producers : prod[p].pc # "gone"}

GridType(R) ==
  /\ decl.producers \in Nat \ {0} /\ decl.consumers \in Nat \ {0} /\ decl.batch \in Nat \ {0}
  /\ ring \in [R -> RingState] /\ prod \in [Producers -> ProducerState]
  /\ con \in [Consumers -> ConsumerState(R)] /\ got \in [Consumers -> Seq(Values)] /\ early \in Nat
  /\ live_producers = Cardinality(Alive)

\* The values queued in a ring.
Queued(r) == ToSet(ring[r].q)

\* Sequences F[x] of members of A, each member at most once; and what they hold.
OneEach(F, A) ==
  /\ \A x \in DOMAIN F : Distinct(F[x]) /\ ToSet(F[x]) \subseteq A
  /\ \A x, y \in DOMAIN F : x # y => ToSet(F[x]) \cap ToSet(F[y]) = {}
Spread(F) == UNION {ToSet(F[x]) : x \in DOMAIN F}

-----------------------------------------------------------------------------
(* Lanes.                                                                  *)

LaneRings == {"lane"} \X Producers \X Consumers

\* A consumer without lanes has left; a call stages nothing before it returns,
\* and a pass ends before its batch is full or all its lanes are looked at.
LaneState ==
  {s \in ConsumerState(LaneRings) :
     /\ s.pc # "finished" /\ (s.pc \in {"leaving", "gone"} <=> s.lanes = <<>>)
     /\ s.staging # <<>> => s.pc = "idle"
     /\ s.done < decl.batch /\ (s.pc = "scan" => s.looked < Len(s.lanes))}

LanesType ==
  /\ decl \in Declared /\ IsLanes(decl) /\ opened = "open" /\ broker = <<>> /\ decl.routing = "RoundRobin"
  /\ GridType(LaneRings) /\ con \in [Consumers -> LaneState] /\ abandoned \in Seq(LaneRings) /\ NextPowerOfTwo(LaneCap) \in Nat
  /\ \A r \in LaneRings : Len(ring[r].q) <= NextPowerOfTwo(LaneCap)

\* The values of a consumer: what it was given and what is staged for it.
Line(c) == got[c] \o con[c].staging

\* The places of values: the lanes and the consumers.
Places == LaneRings \cup ({"held"} \X {0} \X Consumers)
Place  == [x \in Places |-> IF x[1] = "lane" THEN ring[x].q ELSE Line(x[3])]

\* Every value is in one place at most, and in one at least unless a consumer
\* was dropped with values staged.
LanesOnce == OneEach(Place, Accepted)
LanesKept == early = 0 => Accepted \subseteq Spread(Place)

\* Lane x of a consumer is one of those it has looked at in this pass.
Looked(c, x) == Passed(x, Index(con[c].cursor, Len(con[c].lanes)), con[c].looked, Len(con[c].lanes))

\* The final pass: nobody is left to send, so what it has passed stays empty.
FinalPass(c) ==
  /\ con[c].final \/ con[c].pc = "ended" => live_producers = 0
  /\ con[c].final /\ con[c].pc = "scan" =>
       \A x \in 1 .. Len(con[c].lanes) : Looked(c, x) => ring[con[c].lanes[x]].q = <<>>
  /\ (con[c].final /\ con[c].pc \in {"adopt", "empty"}) \/ con[c].pc = "ended" =>
       \A x \in 1 .. Len(con[c].lanes) : ring[con[c].lanes[x]].q = <<>>

\* Every lane is with a consumer or abandoned, and empty if every consumer
\* that left was told the end.
LanesFinal ==
  /\ \A c \in Consumers : FinalPass(c)
  /\ \A r \in LaneRings : r \in ToSet(abandoned) \/ \E c \in Consumers : r \in ToSet(con[c].lanes)
  /\ early = 0 => \A r \in ToSet(abandoned) : live_producers = 0 /\ ring[r].q = <<>>

LanesInv == LanesType /\ LanesOnce /\ LanesKept /\ LanesFinal

-----------------------------------------------------------------------------
(* Brokered.                                                               *)

BrokeredRings == {InRing(p) : p \in Producers} \cup {OutRing(b, c) : b \in Brokers, c \in Consumers}

BrokerState ==
  [pc : {"unspawned", "sweep", "deliver", "forward", "done"}, sweep : SUBSET Producers, at : Nat, n : Nat,
   i : Nat, moved : BOOLEAN, final : BOOLEAN, targets : SUBSET Consumers, cursor : Nat, tried : Nat, gone : Nat]

Moving == {"deliver", "forward"}

\* A broker's place in its sweep, and in the ring it drains.
BrokerFit(b) ==
  LET s == broker[b] IN
  /\ s.sweep \subseteq Inbound(b) /\ (decl.routing = "RoundRobin" => s.targets = {})
  /\ s.pc \in Moving => s.at \in Inbound(b) /\ s.i <= s.n /\ s.n <= Len(ring[InRing(s.at)].q)
  /\ s.pc = "forward" => s.i < s.n
  /\ s.pc \notin Moving => s.i = 0

ConsumerFit(c) ==
  /\ con[c].lanes = [b \in Brokers |-> OutRing(b, c)] /\ con[c].staging = <<>>
  /\ con[c].pc \in {"idle", "scan", "finished", "ended", "gone"}

BrokeredType ==
  /\ decl \in Declared /\ IsBrokered(decl) /\ opened \in {"spawning", "open", "invalid"}
  /\ decl.routing \in {"RoundRobin", "Route", "PubSub"} /\ decl.brokers \in Nat \ {0}
  /\ GridType(BrokeredRings) /\ panicked \in BOOLEAN /\ broker \in [Brokers -> BrokerState]
  /\ \A c \in Consumers : ConsumerFit(c)
  /\ \A b \in Brokers : BrokerFit(b)
  /\ opened = "spawning" => Unspawned # {}

Ordered(s) == \A i, j \in DOMAIN s : i < j /\ s[i][1] = s[j][1] => s[i][2] < s[j][2]

\* The j-th value of producer p's ring is still to be moved to consumer c by a
\* broker in state s.
LeftOf(s, c, p, j) ==
  s.pc \in Moving /\ s.at = p =>
    j > s.i + 1 \/ (j = s.i + 1 /\ (s.pc = "deliver" \/ decl.routing = "RoundRobin" \/ c \in s.targets))
Left(c, p, j) == LeftOf(broker[BrokerOf(p)], c, p, j)

\* Consumer c has value v, or it is on its last way to c.
Reaches(c, v) == v \in ToSet(got[c]) \/ v \in Queued(OutRing(BrokerOf(v[1]), c))

\* The values of a producer pass its broker and reach each consumer in order.
InOrder(p) ==
  /\ \A v \in Queued(InRing(p)) : v[1] = p /\ v \in Accepted
  /\ Ordered(ring[InRing(p)].q)

OutOrder(c) ==
  /\ Ordered(got[c]) /\ ToSet(got[c]) \subseteq Accepted
  /\ \A b \in Brokers :
       /\ Ordered(ring[OutRing(b, c)].q)
       /\ \A v \in Queued(OutRing(b, c)) : v \in Accepted /\ BrokerOf(v[1]) = b
       /\ \A v \in ToSet(got[c]), w \in Queued(OutRing(b, c)) : v[1] = w[1] => v[2] < w[2]

LeftOrder(c) ==
  \A p \in Producers : \A j \in DOMAIN ring[InRing(p)].q :
    Left(c, p, j) => \A v \in Accepted : v[1] = p /\ Reaches(c, v) => v[2] < ring[InRing(p)].q[j][2]

BrokeredOrder ==
  /\ \A p \in Producers : InOrder(p)
  /\ \A c \in Consumers : OutOrder(c) /\ LeftOrder(c)

\* Value v is on its way from the broker to the targets, and has reached the
\* others it was routed to.
Forwarded(v, targets) ==
  /\ v \in DOMAIN due /\ targets \subseteq due[v] /\ due[v] \subseteq Consumers
  /\ \A c \in Consumers : c \in due[v] \ targets <=> Reaches(c, v)
  /\ decl.routing # "PubSub" => \E c \in Consumers : due[v] = {c}

\* Value v has gone where it was routed to.
Settled(v) == Forwarded(v, {})

Orderly == opened # "invalid" /\ early = 0 /\ ~panicked

BrokerKept(b) ==
  LET s == broker[b]  q == ring[InRing(s.at)].q IN
  s.pc \in Moving =>
    /\ \A j \in 1 .. s.i : Settled(q[j])
    /\ s.pc = "forward" /\ decl.routing # "RoundRobin" => Forwarded(q[s.i + 1], s.targets)

BrokeredKept ==
  Orderly =>
    /\ \A v \in Accepted : v \notin Queued(InRing(v[1])) => Settled(v)
    /\ \A b \in Brokers : BrokerKept(b)

\* A broker ends when every producer has and its rings are empty; consumers
\* end when every broker has.
OutEnd(b, c) ==
  /\ ring[OutRing(b, c)].wgone => broker[b].pc = "done"
  /\ ring[OutRing(b, c)].rgone => con[c].pc = "gone"
  /\ con[c].pc = "ended" \/ (Orderly /\ con[c].pc = "gone") =>
       ring[OutRing(b, c)].wgone /\ ring[OutRing(b, c)].q = <<>>

BrokerEnd(b) ==
  /\ broker[b].final => live_producers = 0
  /\ broker[b].pc = "sweep" /\ broker[b].final /\ ~broker[b].moved =>
       \A p \in Inbound(b) \ broker[b].sweep : ring[InRing(p)].q = <<>>
  /\ broker[b].pc = "done" /\ Orderly => live_producers = 0 /\ \A p \in Inbound(b) : ring[InRing(p)].q = <<>>
  /\ Orderly => broker[b].gone = 0

BrokeredFinal ==
  /\ \A b \in Brokers, c \in Consumers : OutEnd(b, c)
  /\ \A b \in Brokers : BrokerEnd(b)
  /\ opened = "spawning" => \A c \in Consumers : con[c].pc = "idle"

BrokeredInv == BrokeredType /\ BrokeredOrder /\ BrokeredKept /\ BrokeredFinal

-----------------------------------------------------------------------------
\* Before a channel is opened there is nothing.
Unbuilt ==
  /\ ring = <<>> /\ prod = <<>> /\ con = <<>> /\ broker = <<>> /\ abandoned = <<>>
  /\ got = <<>> /\ due = <<>> /\ early = 0 /\ panicked = FALSE

GridInv == Unbuilt \/ LanesInv \/ BrokeredInv

-----------------------------------------------------------------------------
(* Values that move between places.                                        *)

\* What a place holds, once it is named.
LEMMA SpreadIs ==
  ASSUME NEW F
  PROVE  \A v : v \in Spread(F) <=> \E x \in DOMAIN F : v \in ToSet(F[x])
  BY DEF Spread

\* The first values of one place are moved behind those of another.
LEMMA MoveKeeps ==
  ASSUME Place \in [Places -> Seq(Values)], NEW x \in Places, NEW y \in Places, x # y,
         NEW k \in 0 .. Len(Place[x]), NEW G \in [Places -> Seq(Values)],
         G[x] = SubSeq(Place[x], k + 1, Len(Place[x])), G[y] = Place[y] \o SubSeq(Place[x], 1, k),
         \A z \in Places : z # x /\ z # y => G[z] = Place[z],
         OneEach(Place, Accepted)
  PROVE  OneEach(G, Accepted) /\ Spread(Place) \subseteq Spread(G)
<1> DEFINE a == SubSeq(Place[x], 1, k)
           b == SubSeq(Place[x], k + 1, Len(Place[x]))
<1>1. DOMAIN Place = Places /\ DOMAIN G = Places /\ Place[x] \in Seq(Values) /\ Place[y] \in Seq(Values)
  OBVIOUS
<1>2. a \in Seq(Values) /\ b \in Seq(Values)
  BY <1>1, SplitIs
<1>11. a \o b = Place[x]
  BY <1>1, SplitIs
<1> HIDE DEF a, b
<1>3. G[x] = b /\ G[y] = Place[y] \o a
  BY DEF a, b
<1>4. Distinct(Place[x]) /\ Distinct(Place[y]) /\ ToSet(Place[x]) \cap ToSet(Place[y]) = {}
  BY <1>1 DEF OneEach
<1>5. /\ ToSet(Place[x]) = ToSet(a) \cup ToSet(b)
      /\ Distinct(a) /\ Distinct(b) /\ ToSet(a) \cap ToSet(b) = {}
  <2>1. /\ ToSet(a \o b) = ToSet(a) \cup ToSet(b)
        /\ Distinct(a \o b) <=> Distinct(a) /\ Distinct(b) /\ ToSet(a) \cap ToSet(b) = {}
    BY <1>2, ConcatIs
  <2> QED
    BY <1>4, <1>11, <2>1
<1>6. ToSet(G[y]) = ToSet(Place[y]) \cup ToSet(a) /\ Distinct(G[y])
  <2>1. ToSet(Place[y]) \cap ToSet(a) = {}
    BY <1>4, <1>5
  <2> QED
    <3>1. /\ ToSet(Place[y] \o a) = ToSet(Place[y]) \cup ToSet(a)
          /\ Distinct(Place[y] \o a) <=> Distinct(Place[y]) /\ Distinct(a) /\ ToSet(Place[y]) \cap ToSet(a) = {}
      BY <1>1, <1>2, ConcatIs
    <3> QED
      BY <1>3, <1>4, <1>5, <2>1, <3>1
<1>7. ToSet(G[x]) = ToSet(b) /\ Distinct(G[x])
  BY <1>3, <1>5
<1>8. \A z \in Places : Distinct(G[z]) /\ ToSet(G[z]) \subseteq Accepted
  <2> TAKE z \in Places
  <2>1. ToSet(Place[x]) \subseteq Accepted /\ ToSet(Place[y]) \subseteq Accepted /\ ToSet(Place[z]) \subseteq Accepted /\ Distinct(Place[z])
    BY <1>1 DEF OneEach
  <2>2. CASE z = x
    BY <1>5, <1>7, <2>1, <2>2
  <2>3. CASE z = y
    BY <1>5, <1>6, <2>1, <2>3
  <2>4. CASE z # x /\ z # y
    BY <2>1, <2>4
  <2> QED
    BY <2>2, <2>3, <2>4
<1>9. \A z, w \in Places : z # w => ToSet(G[z]) \cap ToSet(G[w]) = {}
  <2>1. \A z, w \in Places : z # w => ToSet(Place[z]) \cap ToSet(Place[w]) = {}
    BY <1>1 DEF OneEach
  <2>2. ToSet(G[x]) \cap ToSet(G[y]) = {}
    BY <1>4, <1>5, <1>6, <1>7
  <2>3. \A z \in Places : z # x /\ z # y => ToSet(G[z]) \cap ToSet(G[y]) = {} /\ ToSet(G[z]) \cap ToSet(G[x]) = {}
    BY <1>5, <1>6, <1>7, <2>1
  <2> QED
    BY <2>1, <2>2, <2>3
<1>10. \A v \in Spread(Place) : v \in Spread(G)
  <2> TAKE v \in Spread(Place)
  <2>1. PICK z \in Places : v \in ToSet(Place[z])
    BY <1>1, SpreadIs
  <2>2. v \in ToSet(G[z]) \/ v \in ToSet(G[y])
    <3>1. CASE z = x
      BY <1>5, <1>6, <1>7, <2>1, <3>1
    <3>2. CASE z # x
      BY <1>6, <2>1, <3>2
    <3> QED
      BY <3>1, <3>2
  <2> QED
    BY <1>1, <2>2, SpreadIs
<1> QED
  BY <1>1, <1>8, <1>9, <1>10 DEF OneEach

\* New values are added behind those of a place.
LEMMA AddKeeps ==
  ASSUME NEW C, Place \in [Places -> Seq(Values)], NEW x \in Places, NEW f \in Seq(Values),
         NEW G \in [Places -> Seq(Values)], G[x] = Place[x] \o f, \A z \in Places : z # x => G[z] = Place[z],
         Distinct(f), ToSet(f) \cap Accepted = {}, C = Accepted \cup ToSet(f), OneEach(Place, Accepted)
  PROVE  OneEach(G, C) /\ (Accepted \subseteq Spread(Place) => C \subseteq Spread(G))
<1>1. DOMAIN Place = Places /\ DOMAIN G = Places /\ Place[x] \in Seq(Values)
  OBVIOUS
<1>2. /\ \A z \in Places : Distinct(Place[z]) /\ ToSet(Place[z]) \subseteq Accepted
      /\ \A z, w \in Places : z # w => ToSet(Place[z]) \cap ToSet(Place[w]) = {}
  BY <1>1 DEF OneEach
<1>3. ToSet(G[x]) = ToSet(Place[x]) \cup ToSet(f) /\ Distinct(G[x])
  <2>1. ToSet(Place[x]) \cap ToSet(f) = {}
    BY <1>2
  <2> QED
    BY <1>1, <1>2, <2>1, ConcatIs
<1>4. \A z \in Places : Distinct(G[z]) /\ ToSet(G[z]) \subseteq C
  <2> TAKE z \in Places
  <2>1. CASE z = x
    BY <1>2, <1>3, <2>1
  <2>2. CASE z # x
    BY <1>2, <2>2
  <2> QED
    BY <2>1, <2>2
<1>5. \A z, w \in Places : z # w => ToSet(G[z]) \cap ToSet(G[w]) = {}
  <2>1. \A z \in Places : z # x => ToSet(G[z]) \cap ToSet(G[x]) = {}
    BY <1>2, <1>3
  <2> QED
    BY <1>2, <2>1
<1>6. ASSUME Accepted \subseteq Spread(Place), NEW v \in C PROVE v \in Spread(G)
  <2>1. CASE v \in ToSet(f)
    BY <1>1, <1>3, <2>1, SpreadIs
  <2>2. CASE v \in Accepted
    <3>1. PICK z \in Places : v \in ToSet(Place[z])
      BY <1>1, <1>6, <2>2, SpreadIs
    <3>2. v \in ToSet(G[z])
      BY <1>3, <3>1
    <3> QED
      BY <1>1, <3>2, SpreadIs
  <2> QED
    BY <1>6, <2>1, <2>2
<1> QED
  BY <1>1, <1>4, <1>5, <1>6 DEF OneEach

\* The last values of a place are dropped.
LEMMA CutKeeps ==
  ASSUME Place \in [Places -> Seq(Values)], NEW x \in Places, NEW f \in Seq(Values), NEW g \in Seq(Values),
         NEW G \in [Places -> Seq(Values)], Place[x] = g \o f, G[x] = g, \A z \in Places : z # x => G[z] = Place[z], OneEach(Place, Accepted)
  PROVE  OneEach(G, Accepted)
<1>1. DOMAIN Place = Places /\ DOMAIN G = Places
  OBVIOUS
<1>2. /\ \A z \in Places : Distinct(Place[z]) /\ ToSet(Place[z]) \subseteq Accepted
      /\ \A z, w \in Places : z # w => ToSet(Place[z]) \cap ToSet(Place[w]) = {}
  BY <1>1 DEF OneEach
<1>3. Distinct(g) /\ ToSet(g) \subseteq ToSet(Place[x])
  <2>1. /\ ToSet(g \o f) = ToSet(g) \cup ToSet(f)
        /\ Distinct(g \o f) <=> Distinct(g) /\ Distinct(f) /\ ToSet(g) \cap ToSet(f) = {}
    BY ConcatIs
  <2> QED
    BY <1>2, <2>1
<1>4. \A z \in Places : Distinct(G[z]) /\ ToSet(G[z]) \subseteq ToSet(Place[z])
  BY <1>2, <1>3
<1> QED
  BY <1>1, <1>2, <1>4 DEF OneEach

-----------------------------------------------------------------------------
(* What the lanes and the brokers have in common.                          *)

\* checked_next_power_of_two.
LEMMA PowerExists ==
  ASSUME NEW n \in Nat, HasPowerOfTwo(n)
  PROVE  NextPowerOfTwo(n) \in Nat
<1>1. \A i \in 0 .. UsizeBits - 1 : 2 ^ i \in Int
  BY WidthAssumption
<1>2. PowersAbove(n) \subseteq Nat
  BY <1>1 DEF PowersAbove
<1>3. NextPowerOfTwo(n) \in PowersAbove(n)
  BY <1>2, LeastNatural DEF HasPowerOfTwo, NextPowerOfTwo
<1> QED
  BY <1>2, <1>3

\* A cursor selects one of the places.
LEMMA IndexIs ==
  ASSUME NEW cursor \in Nat, NEW len \in Nat \ {0}
  PROVE  Index(cursor, len) \in 0 .. len - 1
  BY DEF Index

\* While the declaration stays, so do the sets that it numbers.
LEMMA DeclSame ==
  ASSUME decl' = decl
  PROVE  /\ Producers' = Producers /\ Consumers' = Consumers /\ Brokers' = Brokers
         /\ Values' = Values /\ RingState' = RingState /\ ProducerState' = ProducerState
         /\ LaneRings' = LaneRings /\ ConsumerState(LaneRings)' = ConsumerState(LaneRings)
         /\ LaneState' = LaneState /\ BrokerState' = BrokerState /\ BrokeredRings' = BrokeredRings
         /\ ConsumerState(BrokeredRings)' = ConsumerState(BrokeredRings)
         /\ LaneCap' = LaneCap /\ RingCap' = RingCap /\ Places' = Places
         /\ IsLanes(decl)' = IsLanes(decl) /\ IsBrokered(decl)' = IsBrokered(decl)
         /\ \A p : BrokerOf(p)' = BrokerOf(p)
         /\ \A b : Inbound(b)' = Inbound(b)
  BY DEF Producers, Consumers, Brokers, Values, RingState, ProducerState, LaneRings, LaneState, ConsumerState,
         BrokerState, BrokeredRings, LaneCap, RingCap, Places, IsLanes, IsBrokered, BrokerOf, Inbound

\* The values that producers in state f have had accepted.
LEMMA AcceptedOf ==
  ASSUME NEW P, NEW f \in [P -> ProducerState]
  PROVE  UNION {{p} \X (1 .. f[p].next - 1) : p \in DOMAIN f} = {v \in P \X (Nat \ {0}) : v[2] < f[v[1]].next}
<1> DEFINE U == UNION {{p} \X (1 .. f[p].next - 1) : p \in DOMAIN f}
<1>1. DOMAIN f = P /\ \A p \in P : f[p].next \in Nat \ {0}
  BY DEF ProducerState
<1>2. ASSUME NEW v \in U PROVE v \in P \X (Nat \ {0}) /\ v[2] < f[v[1]].next
  <2>1. PICK p \in P : v \in {p} \X (1 .. f[p].next - 1)
    BY <1>1, <1>2
  <2>2. v[1] = p /\ v[2] \in 1 .. f[p].next - 1 /\ v = <<v[1], v[2]>>
    BY <2>1
  <2> QED
    BY <1>1, <2>2
<1>3. ASSUME NEW v \in P \X (Nat \ {0}), v[2] < f[v[1]].next PROVE v \in U
  <2>1. v[1] \in P /\ v[2] \in Nat \ {0} /\ v = <<v[1], v[2]>>
    OBVIOUS
  <2>2. v[2] \in 1 .. f[v[1]].next - 1
    BY <1>1, <1>3, <2>1
  <2>3. v \in {v[1]} \X (1 .. f[v[1]].next - 1)
    BY <2>1, <2>2
  <2> QED
    BY <1>1, <2>1, <2>3
<1> HIDE DEF U
<1> QED
  <2>1. U = {v \in P \X (Nat \ {0}) : v[2] < f[v[1]].next}
    BY <1>2, <1>3
  <2> QED
    BY <2>1 DEF U

LEMMA AcceptedIs ==
  ASSUME prod \in [Producers -> ProducerState]
  PROVE  Accepted = {v \in Values : v[2] < prod[v[1]].next}
  BY AcceptedOf DEF Accepted, Values

LEMMA AcceptedNext ==
  ASSUME prod' \in [Producers -> ProducerState]
  PROVE  Accepted' = {v \in Values : v[2] < prod'[v[1]].next}
  BY AcceptedOf DEF Accepted, Values

\* The values a producer puts into a ring.
Fresh(p, k) == [i \in 1 .. k |-> <<p, prod[p].next + i - 1>>]

LEMMA FreshIs ==
  ASSUME prod \in [Producers -> ProducerState], NEW p \in Producers, NEW k \in Nat
  PROVE  /\ Fresh(p, k) \in Seq(Values) /\ Len(Fresh(p, k)) = k /\ Distinct(Fresh(p, k))
         /\ \A i \in 1 .. k : Fresh(p, k)[i] = <<p, prod[p].next + i - 1>>
         /\ ToSet(Fresh(p, k)) = {v \in Values : v[1] = p /\ v[2] >= prod[p].next /\ v[2] < prod[p].next + k}
<1> DEFINE n == prod[p].next
           f == Fresh(p, k)
<1>1. n \in Nat \ {0}
  BY DEF ProducerState
<1>2. \A i \in 1 .. k : <<p, n + i - 1>> \in Values
  BY <1>1 DEF Values
<1>3. f \in [1 .. k -> Values] /\ \A i \in 1 .. k : f[i] = <<p, n + i - 1>>
  BY <1>2 DEF Fresh
<1>4. f \in Seq(Values) /\ Len(f) = k /\ DOMAIN f = 1 .. k
  BY <1>3
<1> HIDE DEF n, f
<1>5. Distinct(f)
  <2> SUFFICES ASSUME NEW i \in 1 .. k, NEW j \in 1 .. k, f[i] = f[j] PROVE i = j
    BY <1>4 DEF Distinct
  <2>1. n + i - 1 = n + j - 1
    BY <1>3
  <2> QED
    BY <1>1, <2>1
<1>6. \A v \in ToSet(f) : v \in Values /\ v[1] = p /\ v[2] >= n /\ v[2] < n + k
  <2> TAKE v \in ToSet(f)
  <2>1. PICK i \in 1 .. k : v = f[i]
    BY <1>4 DEF ToSet
  <2>2. v = <<p, n + i - 1>> /\ v \in Values
    BY <1>2, <1>3, <2>1
  <2> QED
    BY <1>1, <2>2
<1>7. ASSUME NEW v \in Values, v[1] = p, v[2] >= n, v[2] < n + k PROVE v \in ToSet(f)
  <2>1. v[2] \in Nat /\ v = <<v[1], v[2]>>
    BY DEF Values
  <2>2. v[2] - n + 1 \in 1 .. k /\ n + (v[2] - n + 1) - 1 = v[2]
    BY <1>1, <1>7, <2>1
  <2>3. f[v[2] - n + 1] = v
    BY <1>3, <1>7, <2>1, <2>2
  <2> QED
    BY <1>4, <2>2, <2>3 DEF ToSet
<1> QED
  BY <1>3, <1>4, <1>5, <1>6, <1>7 DEF n, f

\* What was accepted before and after a push.
LEMMA AcceptedGrows ==
  ASSUME prod \in [Producers -> ProducerState], prod' \in [Producers -> ProducerState], decl' = decl,
         NEW p \in Producers, NEW k \in Nat, prod'[p].next = prod[p].next + k,
         \A q \in Producers : q # p => prod'[q].next = prod[q].next
  PROVE  /\ Accepted' = Accepted \cup ToSet(Fresh(p, k)) /\ Accepted \cap ToSet(Fresh(p, k)) = {}
         /\ \A v \in Accepted, w \in ToSet(Fresh(p, k)) : v[1] = w[1] => v[2] < w[2]
<1>1. Producers' = Producers /\ ProducerState' = ProducerState /\ Values' = Values
  BY DeclSame
<1>2. Accepted = {v \in Values : v[2] < prod[v[1]].next}
  BY AcceptedIs
<1>3. Accepted' = {v \in Values : v[2] < prod'[v[1]].next}
  BY AcceptedNext
<1>4. ToSet(Fresh(p, k)) = {v \in Values : v[1] = p /\ v[2] >= prod[p].next /\ v[2] < prod[p].next + k}
  BY FreshIs
<1>5. prod[p].next \in Nat /\ \A v \in Values : v[1] \in Producers /\ v[2] \in Nat
  BY DEF ProducerState, Values
<1>6. \A v \in Values : v[2] < prod'[v[1]].next <=>
        v[2] < prod[v[1]].next \/ (v[1] = p /\ v[2] >= prod[p].next /\ v[2] < prod[p].next + k)
  BY <1>5
<1> QED
  BY <1>2, <1>3, <1>4, <1>5, <1>6

\* A step that leaves every next leaves the accepted values.
LEMMA AcceptedSame ==
  ASSUME prod \in [Producers -> ProducerState], prod' \in [Producers -> ProducerState], decl' = decl,
         \A q \in Producers : prod'[q].next = prod[q].next
  PROVE  Accepted' = Accepted
<1>1. Producers' = Producers /\ ProducerState' = ProducerState /\ Values' = Values
  BY DeclSame
<1>2. Accepted = {v \in Values : v[2] < prod[v[1]].next}
  BY AcceptedIs
<1>3. Accepted' = {v \in Values : v[2] < prod'[v[1]].next}
  BY AcceptedNext
<1>4. \A v \in Values : v[1] \in Producers
  BY DEF Values
<1> QED
  BY <1>2, <1>3, <1>4

\* Nobody is alive exactly when the count is zero.
LEMMA AliveFinite ==
  ASSUME decl.producers \in Nat
  PROVE  /\ IsFiniteSet(Alive) /\ Cardinality(Alive) \in Nat
         /\ Cardinality(Alive) = 0 <=> \A p \in Producers : prod[p].pc = "gone"
<1>1. IsFiniteSet(Producers)
  BY FS_Interval DEF Producers
<1>2. Alive \subseteq Producers
  BY DEF Alive
<1>3. IsFiniteSet(Alive)
  BY <1>1, <1>2, FS_Subset
<1>4. Cardinality(Alive) \in Nat /\ (Cardinality(Alive) = 0 <=> Alive = {})
  BY <1>3, FS_CardinalityType, FS_EmptySet
<1> QED
  BY <1>3, <1>4 DEF Alive

-----------------------------------------------------------------------------
(* The steps of the lanes.                                                 *)

\* A ring gets another queue.
LEMMA SetQueue ==
  ASSUME NEW R, NEW f \in [R -> RingState], NEW r \in R, NEW s \in Seq(Values)
  PROVE  /\ [f EXCEPT ![r].q = s] \in [R -> RingState]
         /\ [f EXCEPT ![r].q = s][r] = [f[r] EXCEPT !.q = s]
         /\ \A o \in R : o # r => [f EXCEPT ![r].q = s][o] = f[o]
<1>1. [f[r] EXCEPT !.q = s] \in RingState
  BY DEF RingState
<1> QED
  BY <1>1

\* What the type says of the parts.
LEMMA LanesParts ==
  ASSUME LanesType
  PROVE  /\ decl.producers \in Nat \ {0} /\ decl.consumers \in Nat \ {0} /\ decl.batch \in Nat \ {0}
         /\ \A p \in Producers, c \in Consumers : <<"lane", p, c>> \in LaneRings
         /\ \A r \in LaneRings : /\ ring[r] \in RingState /\ ring[r].q \in Seq(Values)
                                 /\ Len(ring[r].q) \in Nat /\ Len(ring[r].q) <= NextPowerOfTwo(LaneCap)
         /\ \A p \in Producers : prod[p] \in ProducerState
         /\ \A c \in Consumers : con[c] \in LaneState /\ con[c] \in ConsumerState(LaneRings) /\ got[c] \in Seq(Values)
         /\ \A c \in Consumers : con[c].staging \in Seq(Values) /\ con[c].lanes \in Seq(LaneRings)
         /\ DOMAIN prod = Producers /\ DOMAIN con = Consumers
<1>1. \A p \in Producers, c \in Consumers : <<"lane", p, c>> \in LaneRings
  BY DEF LaneRings
<1>2. \A r \in LaneRings : ring[r] \in RingState /\ ring[r].q \in Seq(Values)
  BY DEF LanesType, GridType, RingState
<1>3. \A c \in Consumers : con[c] \in LaneState /\ con[c] \in ConsumerState(LaneRings)
  BY DEF LanesType, GridType
<1>4. \A c \in Consumers : con[c].staging \in Seq(Values) /\ con[c].lanes \in Seq(LaneRings)
  BY <1>3 DEF ConsumerState
<1>5. \A r \in LaneRings : Len(ring[r].q) \in Nat /\ Len(ring[r].q) <= NextPowerOfTwo(LaneCap)
  BY <1>2 DEF LanesType
<1> QED
  BY <1>1, <1>2, <1>3, <1>4, <1>5 DEF LanesType, GridType

\* A call of a producer returns.
LEMMA ReturnedIs ==
  ASSUME NEW s \in ProducerState, NEW k \in Nat
  PROVE  Returned(s, k) \in ProducerState /\ Returned(s, k).next = s.next + k /\ Returned(s, k).pc = "idle"
<1>1. s.next + k \in Nat \ {0}
  BY DEF ProducerState
<1>2. Returned(s, k) \in ProducerState
  BY <1>1 DEF Returned, ProducerState
<1>3. Returned(s, k).next = s.next + k
  BY DEF Returned, ProducerState
<1>4. Returned(s, k).pc = "idle"
  BY DEF Returned, ProducerState
<1> QED
  BY <1>2, <1>3, <1>4

LanesRest == UNCHANGED <<abandoned, got, early, broker, due, panicked>>

\* A lane takes the next k values of a producer.
LEMMA TryLaneIs ==
  ASSUME LanesType, NEW p \in Producers, TryLane(p)
  PROVE  /\ prod[p].pc = "send" /\ prod' \in [Producers -> ProducerState]
         /\ \A q \in Producers : prod'[q].pc = "gone" <=> prod[q].pc = "gone"
         /\ UNCHANGED <<con, live_producers>> /\ LanesRest
         /\ \E k \in Nat, r \in LaneRings :
              /\ prod'[p].next = prod[p].next + k /\ \A q \in Producers : q # p => prod'[q].next = prod[q].next
              /\ ring' \in [LaneRings -> RingState] /\ ring'[r].q = ring[r].q \o Fresh(p, k)
              /\ Len(ring'[r].q) <= NextPowerOfTwo(LaneCap)
              /\ \A o \in LaneRings : o # r => ring'[o] = ring[o]
<1> DEFINE s == prod[p]
           i == Index(s.cursor, decl.consumers)
           r == <<"lane", p, i + 1>>
           cap == NextPowerOfTwo(LaneCap)
           k == Lesser(s.left, cap - Len(ring[r].q))
           next == [s EXCEPT !.cursor = i + 1]
           s1 == IF k = s.left THEN Returned(next, k)
                 ELSE IF k > 0 THEN [next EXCEPT !.next = @ + k, !.left = @ - k, !.tried = 0]
                 ELSE [next EXCEPT !.tried = @ + 1, !.pc = IF s.tried + 1 = decl.consumers THEN "full" ELSE "send"]
<1>1. /\ prod[p].pc = "send" /\ ring' = [ring EXCEPT ![r].q = @ \o Fresh(p, k)]
      /\ prod' = [prod EXCEPT ![p] = s1] /\ UNCHANGED <<con, live_producers>> /\ LanesRest
  BY DEF TryLane, PushValues, Fresh, Room, LanesRest, OtherGrid
<1>2. /\ s \in ProducerState /\ decl.consumers \in Nat \ {0} /\ prod \in [Producers -> ProducerState]
      /\ ring \in [LaneRings -> RingState] /\ cap \in Nat
  BY LanesParts DEF LanesType, GridType
<1>3. i \in 0 .. decl.consumers - 1
  BY <1>2, IndexIs DEF ProducerState
<1>4. r \in LaneRings
  <2>1. i + 1 \in Consumers
    BY <1>2, <1>3 DEF Consumers
  <2> QED
    BY <2>1, LanesParts
<1>5. Len(ring[r].q) \in Nat /\ Len(ring[r].q) <= cap /\ ring[r].q \in Seq(Values)
  BY <1>4, LanesParts
<1> HIDE DEF i, r, cap
<1>6. k \in Nat /\ k <= s.left /\ k <= cap - Len(ring[r].q) /\ s.left \in Nat
  BY <1>2, <1>5 DEF Lesser, ProducerState
<1> HIDE DEF k
<1>7. s1 \in ProducerState /\ s1.next = s.next + k /\ s1.pc # "gone"
  <2>1. next \in ProducerState /\ next.next = s.next /\ next.left = s.left /\ next.pc = s.pc
    BY <1>2, <1>3 DEF ProducerState
  <2> HIDE DEF next
  <2>2. CASE k = s.left
    BY <1>6, <2>1, <2>2, ReturnedIs
  <2>3. CASE k # s.left /\ k > 0
    <3>1. s1 = [next EXCEPT !.next = next.next + k, !.left = next.left - k, !.tried = 0]
      BY <2>3
    <3>2. next.next + k \in Nat \ {0} /\ next.left - k \in Nat
      BY <1>6, <2>1 DEF ProducerState
    <3>3. s1 \in ProducerState
      <4> DEFINE n == next.next + k
                 l == next.left - k
      <4>1. n \in Nat \ {0} /\ l \in Nat /\ s1 = [next EXCEPT !.next = n, !.left = l, !.tried = 0]
        BY <3>1, <3>2
      <4> HIDE DEF n, l, s1
      <4> QED
        BY <2>1, <4>1 DEF ProducerState
    <3>4. s1.next = s.next + k /\ s1.pc = next.pc
      BY <2>1, <3>1, ZenonT(60) DEF ProducerState
    <3> QED
      BY <1>1, <2>1, <3>3, <3>4
  <2>4. CASE k # s.left /\ ~(k > 0)
    <3> DEFINE pc == IF s.tried + 1 = decl.consumers THEN "full" ELSE "send"
    <3>1. s1 = [next EXCEPT !.tried = next.tried + 1, !.pc = pc] /\ k = 0
      BY <1>6, <2>4
    <3>2. next.tried + 1 \in Nat /\ pc \in {"full", "send"}
      BY <2>1 DEF ProducerState
    <3> HIDE DEF pc
    <3>3. s1 \in ProducerState
      <4> DEFINE n == next.tried + 1
      <4>1. n \in Nat /\ s1 = [next EXCEPT !.tried = n, !.pc = pc]
        BY <3>1, <3>2
      <4> HIDE DEF n, s1
      <4> QED
        BY <2>1, <3>2, <4>1 DEF ProducerState
    <3>4. s1.next = next.next /\ s1.pc = pc
      BY <2>1, <3>1 DEF ProducerState
    <3>5. s.next + 0 = s.next
      BY <1>2 DEF ProducerState
    <3> QED
      BY <2>1, <3>1, <3>2, <3>3, <3>4, <3>5
  <2> QED
    BY <1>6, <2>2, <2>3, <2>4
<1> HIDE DEF s1, next
<1>8. /\ prod' \in [Producers -> ProducerState] /\ prod'[p] = s1
      /\ \A q \in Producers : q # p => prod'[q] = prod[q]
  BY <1>1, <1>2, <1>7
<1>9. /\ Fresh(p, k) \in Seq(Values) /\ Len(Fresh(p, k)) = k
  BY <1>2, <1>6, FreshIs
<1>10. /\ ring[r].q \o Fresh(p, k) \in Seq(Values)
       /\ Len(ring[r].q \o Fresh(p, k)) = Len(ring[r].q) + k
  BY <1>5, <1>9, ConcatIs
<1>11. /\ ring' = [ring EXCEPT ![r].q = ring[r].q \o Fresh(p, k)]
  BY <1>1, <1>2, <1>4
<1>12. /\ ring' \in [LaneRings -> RingState] /\ ring'[r] = [ring[r] EXCEPT !.q = ring[r].q \o Fresh(p, k)]
       /\ \A o \in LaneRings : o # r => ring'[o] = ring[o]
  <2> DEFINE w == ring[r].q \o Fresh(p, k)
  <2>1. w \in Seq(Values) /\ ring' = [ring EXCEPT ![r].q = w]
    BY <1>10, <1>11
  <2> HIDE DEF w
  <2>2. /\ ring' \in [LaneRings -> RingState] /\ ring'[r] = [ring[r] EXCEPT !.q = w]
        /\ \A o \in LaneRings : o # r => ring'[o] = ring[o]
    BY <1>2, <1>4, <2>1, SetQueue
  <2> QED
    BY <2>2 DEF w
<1>13. ring'[r].q = ring[r].q \o Fresh(p, k)
  BY <1>2, <1>4, <1>12 DEF RingState
<1>14. Len(ring'[r].q) <= cap
  BY <1>2, <1>5, <1>6, <1>10, <1>13
<1>15. /\ prod'[p].next = prod[p].next + k /\ \A q \in Producers : q # p => prod'[q].next = prod[q].next
       /\ \A q \in Producers : prod'[q].pc = "gone" <=> prod[q].pc = "gone"
  BY <1>1, <1>7, <1>8
<1> QED
  BY <1>1, <1>4, <1>6, <1>8, <1>12, <1>13, <1>14, <1>15, ZenonT(60) DEF cap

\* The other steps of a producer leave the rings and what it had accepted.
LEMMA IdleSendIs ==
  ASSUME prod \in [Producers -> ProducerState], NEW p \in Producers,
         LanesFull(p) \/ \E op \in {"send", "try_send", "send_batch"}, n \in {1, 2} : StartSend(p, op, n)
  PROVE  /\ prod' \in [Producers -> ProducerState] /\ \A q \in Producers : prod'[q].next = prod[q].next
         /\ \A q \in Producers : prod'[q].pc = "gone" <=> prod[q].pc = "gone"
         /\ UNCHANGED <<ring, con, live_producers, abandoned, got, early, due, panicked, broker>>
<1>1. prod[p] \in ProducerState
  OBVIOUS
<1>2. CASE LanesFull(p)
  <2>1. PICK s \in ProducerState : prod' = [prod EXCEPT ![p] = s] /\ s.next = prod[p].next /\ s.pc # "gone"
    <3>1. CASE prod[p].op = "try_send" \/ live_consumers = 0
      <4> DEFINE s == Returned(prod[p], 0)
      <4>1. prod' = [prod EXCEPT ![p] = s]
        BY <1>2, <3>1 DEF LanesFull, ReturnFromSend
      <4>2. s \in ProducerState /\ s.next = prod[p].next /\ s.pc # "gone"
        <5>1. prod[p].next + 0 = prod[p].next /\ 0 \in Nat
          BY <1>1 DEF ProducerState
        <5> QED
          BY <1>1, <5>1, ReturnedIs
      <4> QED
        BY <4>1, <4>2
    <3>2. CASE ~(prod[p].op = "try_send" \/ live_consumers = 0)
      <4> DEFINE s == [prod[p] EXCEPT !.pc = "send", !.tried = 0]
      <4>1. prod' = [prod EXCEPT ![p] = s]
        BY <1>2, <3>2 DEF LanesFull
      <4>2. s \in ProducerState /\ s.next = prod[p].next /\ s.pc # "gone"
        BY <1>1 DEF ProducerState
      <4> QED
        BY <4>1, <4>2
    <3> QED
      BY <3>1, <3>2
  <2>2. UNCHANGED <<ring, con, live_producers, abandoned, got, early, due, panicked, broker>> /\ prod[p].pc # "gone"
    BY <1>2 DEF LanesFull, OtherGrid
  <2> QED
    BY <2>1, <2>2
<1>3. ASSUME NEW op \in {"send", "try_send", "send_batch"}, NEW n \in {1, 2}, StartSend(p, op, n)
      PROVE  /\ prod' \in [Producers -> ProducerState] /\ \A q \in Producers : prod'[q].next = prod[q].next
             /\ \A q \in Producers : prod'[q].pc = "gone" <=> prod[q].pc = "gone"
             /\ UNCHANGED <<ring, con, live_producers, abandoned, got, early, due, panicked, broker>>
  <2> DEFINE s == [prod[p] EXCEPT !.pc = "send", !.op = op, !.left = n, !.tried = 0]
  <2>1. prod' = [prod EXCEPT ![p] = s] /\ prod[p].pc # "gone"
    BY <1>3 DEF StartSend
  <2>2. s \in ProducerState /\ s.next = prod[p].next /\ s.pc # "gone"
    <3>1. s \in ProducerState
      <4>1. n \in Nat
        OBVIOUS
      <4> QED
        BY <1>1, <4>1 DEF ProducerState
    <3>2. s.next = prod[p].next /\ s.pc = "send"
      BY <1>1 DEF ProducerState
    <3> QED
      BY <3>1, <3>2
  <2> HIDE DEF s
  <2>3. UNCHANGED <<ring, con, live_producers, abandoned, got, early, due, panicked, broker>>
    BY <1>3 DEF StartSend
  <2> QED
    BY <2>1, <2>2, <2>3
<1> QED
  BY <1>2, <1>3

\* A producer is dropped and counted off.
LEMMA ProducerDropIs ==
  ASSUME decl.producers \in Nat, decl' = decl, prod \in [Producers -> ProducerState],
         live_producers = Cardinality(Alive), NEW p \in Producers, ProducerDrop(p)
  PROVE  /\ prod' \in [Producers -> ProducerState] /\ \A q \in Producers : prod'[q].next = prod[q].next
         /\ live_producers # 0 /\ live_producers' = Cardinality(Alive)'
         /\ UNCHANGED <<ring, con, abandoned, got, early, due, panicked, broker>>
<1>1. /\ prod[p].pc = "idle" /\ prod' = [prod EXCEPT ![p].pc = "gone"] /\ live_producers' = live_producers - 1
      /\ UNCHANGED <<ring, con, abandoned, got, early, due, panicked, broker>>
  BY DEF ProducerDrop
<1>2. prod' \in [Producers -> ProducerState] /\ \A q \in Producers : prod'[q].next = prod[q].next
  <2>1. [prod[p] EXCEPT !.pc = "gone"] \in ProducerState /\ [prod[p] EXCEPT !.pc = "gone"].next = prod[p].next
    BY DEF ProducerState
  <2> QED
    BY <1>1, <2>1
<1>3. Alive' = Alive \ {p} /\ p \in Alive
  <2>1. \A q \in Producers : prod'[q].pc # "gone" <=> prod[q].pc # "gone" /\ q # p
    BY <1>1, <1>2 DEF ProducerState
  <2>2. Producers' = Producers
    BY DeclSame
  <2> QED
    BY <1>1, <2>1, <2>2 DEF Alive
<1>4. IsFiniteSet(Alive) /\ Cardinality(Alive) \in Nat
  BY AliveFinite
<1>5. Cardinality(Alive \ {p}) = Cardinality(Alive) - 1
  BY <1>3, <1>4, FS_RemoveElement
<1>6. live_producers # 0
  BY <1>3, AliveFinite DEF Alive
<1>7. Cardinality(Alive)' = Cardinality(Alive')
  OBVIOUS
<1> QED
  BY <1>1, <1>2, <1>3, <1>5, <1>6, <1>7

\* The states of a consumer of lanes that a call goes on from or returns with.
LEMMA AgainIs ==
  ASSUME NEW s \in ConsumerState(LaneRings), s.lanes # <<>>, s.staging = <<>>, NEW f \in BOOLEAN,
         decl.batch \in Nat \ {0}
  PROVE  Again(s, f) \in LaneState /\ Again(s, f) = [s EXCEPT !.pc = "scan", !.looked = 0, !.adopted = FALSE,
                                                             !.final = f, !.done = 0]
<1> DEFINE t == Again(s, f)
<1>1. t \in ConsumerState(LaneRings)
  BY DEF ConsumerState, Again
<1>2. t.pc = "scan" /\ t.looked = 0 /\ t.done = 0 /\ t.lanes = s.lanes /\ t.staging = s.staging
  BY DEF ConsumerState, Again
<1>3. Len(s.lanes) \in Nat /\ Len(s.lanes) > 0
  BY DEF ConsumerState
<1> HIDE DEF t
<1>4. t \in LaneState
  BY <1>1, <1>2, <1>3 DEF LaneState
<1> QED
  BY <1>4 DEF t, Again

LEMMA ReceivedLanes ==
  ASSUME NEW s \in ConsumerState(LaneRings), s.lanes # <<>>, NEW v \in Seq(Values), decl.batch \in Nat \ {0}
  PROVE  /\ [Received(s, "idle") EXCEPT !.staging = v] \in LaneState
         /\ [Received(s, "idle") EXCEPT !.staging = v].lanes = s.lanes
         /\ [Received(s, "idle") EXCEPT !.staging = v].staging = v
         /\ [Received(s, "idle") EXCEPT !.staging = v].pc = "idle"
         /\ [Received(s, "idle") EXCEPT !.staging = v].final = FALSE
<1> DEFINE u == Received(s, "idle")
           t == [u EXCEPT !.staging = v]
<1>1. u \in ConsumerState(LaneRings)
  BY DEF ConsumerState, Received, LanesCalls
<1>2. u.pc = "idle" /\ u.done = 0 /\ u.lanes = s.lanes /\ u.final = FALSE
  BY DEF ConsumerState, Received
<1> HIDE DEF u
<1>3. t \in ConsumerState(LaneRings)
  BY <1>1 DEF ConsumerState
<1>4. t.pc = "idle" /\ t.done = 0 /\ t.lanes = s.lanes /\ t.final = FALSE /\ t.staging = v
  BY <1>1, <1>2 DEF ConsumerState
<1> HIDE DEF t
<1>5. t \in LaneState
  BY <1>3, <1>4 DEF LaneState
<1> QED
  BY <1>4, <1>5 DEF t, u

\* What consumer c does is its own.
Own(c) ==
  /\ con' \in [Consumers -> LaneState] /\ got' \in [Consumers -> Seq(Values)]
  /\ \A d \in Consumers : d # c => con'[d] = con[d] /\ got'[d] = got[d]
  /\ UNCHANGED <<prod, live_producers, broker, due, panicked>>

\* A call hands over or goes on, and is not in a final pass.
Goes(c) == con'[c].pc \in {"idle", "scan"} /\ ~con'[c].final /\ con'[c].lanes = con[c].lanes

LEMMA DeliverIs ==
  ASSUME LanesType, NEW c \in Consumers, NEW s \in ConsumerState(LaneRings), s.lanes # <<>>, s.staging = <<>>,
         NEW v \in Seq(Values), v # <<>>, Deliver(c, s, v)
  PROVE  /\ con' \in [Consumers -> LaneState] /\ got' \in [Consumers -> Seq(Values)]
         /\ \A d \in Consumers : d # c => con'[d] = con[d] /\ got'[d] = got[d]
         /\ con'[c].pc \in {"idle", "scan"} /\ ~con'[c].final /\ con'[c].lanes = s.lanes
         /\ got'[c] \o con'[c].staging = got[c] \o v
<1> DEFINE g == IF s.op = "recv" THEN <<Head(v)>> ELSE v
           w == IF s.op = "recv" THEN Tail(v) ELSE <<>>
           t == IF s.op = "for_each" THEN Again(s, FALSE) ELSE [Received(s, "idle") EXCEPT !.staging = w]
<1>1. got' = [got EXCEPT ![c] = got[c] \o g] /\ con' = [con EXCEPT ![c] = t]
  BY LanesParts DEF Deliver, LanesType, GridType
<1>2. Head(v) \in Values /\ Tail(v) \in Seq(Values) /\ <<Head(v)>> \in Seq(Values) /\ <<>> \in Seq(Values)
  OBVIOUS
<1>3. g \in Seq(Values) /\ w \in Seq(Values)
  BY <1>2
<1>4. g \o w = v
  <2>1. <<Head(v)>> \o Tail(v) = v
    OBVIOUS
  <2>2. v \o <<>> = v
    BY ConcatEmptySeq
  <2> QED
    BY <2>1, <2>2
<1>5. got[c] \in Seq(Values) /\ decl.batch \in Nat \ {0} /\ con \in [Consumers -> LaneState]
      /\ got \in [Consumers -> Seq(Values)]
  BY LanesParts DEF LanesType, GridType
<1>6. (got[c] \o g) \o w = got[c] \o v /\ got[c] \o g \in Seq(Values)
  <2> HIDE DEF g, w
  <2>1. (got[c] \o g) \o w = got[c] \o (g \o w)
    BY <1>3, <1>5, ConcatAssociative, SMTT(40)
  <2>2. got[c] \o g \in Seq(Values)
    BY <1>3, <1>5, ConcatIs
  <2> QED
    BY <1>4, <2>1, <2>2
<1>7. t \in LaneState /\ t.pc \in {"idle", "scan"} /\ t.final = FALSE /\ t.lanes = s.lanes /\ t.staging = w
  <2>1. CASE s.op = "for_each"
    <3>1. t = Again(s, FALSE) /\ w = <<>>
      BY <2>1
    <3>2. t \in LaneState /\ t = [s EXCEPT !.pc = "scan", !.looked = 0, !.adopted = FALSE, !.final = FALSE, !.done = 0]
      BY <1>5, <3>1, AgainIs
    <3> HIDE DEF t, w
    <3>3. t.pc = "scan" /\ t.final = FALSE /\ t.lanes = s.lanes /\ t.staging = s.staging
      BY <3>2 DEF ConsumerState
    <3> QED
      BY <3>1, <3>2, <3>3
  <2>2. CASE s.op # "for_each"
    <3>1. t = [Received(s, "idle") EXCEPT !.staging = w]
      BY <2>2
    <3> HIDE DEF t, w
    <3> QED
      BY <1>3, <1>5, <3>1, ReceivedLanes
  <2> QED
    BY <2>1, <2>2
<1> HIDE DEF g, w, t
<1>8. con' \in [Consumers -> LaneState] /\ con'[c] = t /\ \A d \in Consumers : d # c => con'[d] = con[d]
  BY <1>1, <1>5, <1>7
<1>9. got' \in [Consumers -> Seq(Values)] /\ got'[c] = got[c] \o g /\ \A d \in Consumers : d # c => got'[d] = got[d]
  BY <1>1, <1>5, <1>6
<1> QED
  BY <1>6, <1>7, <1>8, <1>9

\* recv, recv_batch and for_each begin with what is staged.
LEMMA LanesBeginIs ==
  ASSUME LanesType, NEW c \in Consumers, NEW op \in LanesCalls, LanesBegin(c, op)
  PROVE  /\ con[c].pc = "idle" /\ Own(c) /\ Goes(c)
         /\ got'[c] \o con'[c].staging = got[c] \o con[c].staging /\ UNCHANGED <<ring, abandoned, early>>
<1> DEFINE s == [con[c] EXCEPT !.op = op]
           s0 == [s EXCEPT !.staging = <<>>]
           v == con[c].staging
<1>1. /\ con \in [Consumers -> LaneState] /\ con[c] \in ConsumerState(LaneRings) /\ con[c] \in LaneState
      /\ decl.batch \in Nat \ {0} /\ got \in [Consumers -> Seq(Values)] /\ v \in Seq(Values) /\ got[c] \in Seq(Values)
  BY LanesParts DEF LanesType, GridType
<1>2. s \in ConsumerState(LaneRings) /\ s.staging = v /\ s.lanes = con[c].lanes /\ s.pc = con[c].pc
  BY <1>1 DEF ConsumerState
<1>3. s0 \in ConsumerState(LaneRings) /\ s0.staging = <<>> /\ s0.lanes = con[c].lanes
  <2> HIDE DEF s
  <2>1. <<>> \in Seq(Values)
    OBVIOUS
  <2>2. s0 \in ConsumerState(LaneRings)
    BY <1>2, <2>1 DEF ConsumerState
  <2>3. s0.staging = <<>> /\ s0.lanes = s.lanes
    BY <1>2 DEF ConsumerState
  <2> QED
    BY <1>2, <2>2, <2>3
<1>4. con[c].pc = "idle" /\ UNCHANGED <<ring, abandoned, early, prod, live_producers, broker, due, panicked>>
  <2>1. s.pc = "idle" /\ UNCHANGED <<ring, abandoned, early, prod, live_producers, broker, due, panicked>>
    BY DEF LanesBegin, OtherGrid
  <2> QED
    BY <1>2, <2>1
<1>5. con[c].lanes # <<>>
  BY <1>1, <1>4 DEF LaneState
<1>6. \/ v = <<>> /\ con' = [con EXCEPT ![c] = Again(s, FALSE)] /\ UNCHANGED got
      \/ /\ v # <<>> /\ Len(v) < decl.batch /\ got' = [got EXCEPT ![c] = got[c] \o v]
         /\ con' = [con EXCEPT ![c] = [Again(s, FALSE) EXCEPT !.staging = <<>>, !.done = Len(v)]]
      \/ v # <<>> /\ Deliver(c, s0, v)
  <2> HIDE DEF s
  <2>1. IF s.staging = <<>> THEN con' = [con EXCEPT ![c] = Again(s, FALSE)] /\ UNCHANGED got
        ELSE IF op = "for_each" /\ Len(s.staging) < decl.batch
        THEN /\ got' = [got EXCEPT ![c] = @ \o s.staging]
             /\ con' = [con EXCEPT ![c] = [Again(s, FALSE) EXCEPT !.staging = <<>>, !.done = Len(s.staging)]]
        ELSE Deliver(c, [s EXCEPT !.staging = <<>>], s.staging)
    BY DEF LanesBegin, s
  <2> QED
    BY <1>1, <1>2, <2>1
<1> HIDE DEF s, s0
<1>7. CASE v = <<>> /\ con' = [con EXCEPT ![c] = Again(s, FALSE)] /\ UNCHANGED got
  <2> DEFINE t == Again(s, FALSE)
  <2>1. t \in LaneState /\ t = [s EXCEPT !.pc = "scan", !.looked = 0, !.adopted = FALSE, !.final = FALSE, !.done = 0]
    BY <1>1, <1>2, <1>5, <1>7, AgainIs
  <2> HIDE DEF t
  <2>2. t.pc = "scan" /\ t.final = FALSE /\ t.lanes = s.lanes /\ t.staging = s.staging
    BY <1>2, <2>1 DEF ConsumerState
  <2>3. con' = [con EXCEPT ![c] = t] /\ got' = got
    BY <1>7 DEF t
  <2> QED
    BY <1>1, <1>2, <1>4, <2>1, <2>2, <2>3 DEF Own, Goes
<1>8. CASE /\ v # <<>> /\ Len(v) < decl.batch /\ got' = [got EXCEPT ![c] = got[c] \o v]
           /\ con' = [con EXCEPT ![c] = [Again(s, FALSE) EXCEPT !.staging = <<>>, !.done = Len(v)]]
  <2> DEFINE u == Again(s, FALSE)
             t == [u EXCEPT !.staging = <<>>, !.done = Len(v)]
  <2>1. u \in ConsumerState(LaneRings) /\ u.pc = "scan" /\ u.final = FALSE /\ u.lanes = s.lanes /\ u.looked = 0
    BY <1>2 DEF Again, ConsumerState
  <2> HIDE DEF u
  <2>2. Len(v) \in Nat /\ Len(s.lanes) \in Nat /\ Len(s.lanes) > 0 /\ <<>> \in Seq(Values)
    BY <1>1, <1>2, <1>5 DEF ConsumerState
  <2>3. t \in ConsumerState(LaneRings)
    <3> DEFINE n == Len(v)
    <3>1. n \in Nat /\ t = [u EXCEPT !.staging = <<>>, !.done = n]
      BY <2>2
    <3> HIDE DEF n, t
    <3> QED
      BY <2>1, <2>2, <3>1 DEF ConsumerState
  <2>4. t.pc = "scan" /\ t.final = FALSE /\ t.lanes = s.lanes /\ t.staging = <<>> /\ t.looked = 0 /\ t.done = Len(v)
    BY <2>1, <2>2 DEF ConsumerState
  <2>5. con' = [con EXCEPT ![c] = t] /\ got' = [got EXCEPT ![c] = got[c] \o v]
    BY <1>8 DEF u
  <2> HIDE DEF t
  <2>6. t \in LaneState
    BY <1>2, <1>5, <1>8, <2>2, <2>3, <2>4 DEF LaneState
  <2>7. got[c] \o v \in Seq(Values) /\ (got[c] \o v) \o <<>> = got[c] \o v
    BY <1>1, ConcatIs, ConcatEmptySeq
  <2>8. con' \in [Consumers -> LaneState] /\ con'[c] = t /\ \A d \in Consumers : d # c => con'[d] = con[d]
    BY <1>1, <2>5, <2>6
  <2>9. got' \in [Consumers -> Seq(Values)] /\ got'[c] = got[c] \o v /\ \A d \in Consumers : d # c => got'[d] = got[d]
    BY <1>1, <2>5, <2>7
  <2> QED
    BY <1>2, <1>4, <2>4, <2>7, <2>8, <2>9 DEF Own, Goes
<1>9. CASE v # <<>> /\ Deliver(c, s0, v)
  <2>1. /\ con' \in [Consumers -> LaneState] /\ got' \in [Consumers -> Seq(Values)]
        /\ \A d \in Consumers : d # c => con'[d] = con[d] /\ got'[d] = got[d]
        /\ con'[c].pc \in {"idle", "scan"} /\ ~con'[c].final /\ con'[c].lanes = s0.lanes
        /\ got'[c] \o con'[c].staging = got[c] \o v
    BY <1>1, <1>3, <1>5, <1>9, DeliverIs
  <2> QED
    BY <1>3, <1>4, <2>1 DEF Own, Goes
<1> QED
  BY <1>6, <1>7, <1>8, <1>9

\* The lane a scan looks at.
At(c) == Index(con[c].cursor, Len(con[c].lanes)) + 1

\* A scan takes values off the lane, or passes it because it is empty.
LEMMA LanesScanIs ==
  ASSUME LanesType, NEW c \in Consumers, LanesScan(c)
  PROVE  /\ con[c].pc = "scan" /\ con[c].staging = <<>> /\ Own(c) /\ UNCHANGED <<abandoned, early>>
         /\ At(c) \in 1 .. Len(con[c].lanes) /\ con[c].lanes[At(c)] \in LaneRings
         /\ LET r == con[c].lanes[At(c)]  q == ring[r].q IN
            \/ /\ Goes(c) /\ ring' \in [LaneRings -> RingState]
               /\ \A o \in LaneRings : o # r => ring'[o] = ring[o]
               /\ \E k \in 1 .. Len(q) : /\ ring'[r].q = SubSeq(q, k + 1, Len(q))
                                         /\ got'[c] \o con'[c].staging = got[c] \o SubSeq(q, 1, k)
            \/ /\ q = <<>> /\ UNCHANGED <<ring, got>>
               /\ con'[c].pc \in {"scan", "adopt", "empty"} /\ con'[c].staging = <<>>
               /\ con'[c].lanes = con[c].lanes /\ con'[c].final = con[c].final
               /\ con'[c].cursor = At(c) /\ con'[c].looked = con[c].looked + 1
               /\ con'[c].pc # "scan" => con[c].looked + 1 = Len(con[c].lanes)
<1> DEFINE s == con[c]
           i == Index(s.cursor, Len(s.lanes))
           r == s.lanes[i + 1]
           q == ring[r].q
           k == Lesser(decl.batch - s.done, Len(q))
           next == [s EXCEPT !.cursor = i + 1]
           pc == IF s.looked + 1 < Len(s.lanes) THEN "scan" ELSE IF s.adopted THEN "empty" ELSE "adopt"
           t == [next EXCEPT !.looked = s.looked + 1, !.pc = pc]
<1>1. /\ con \in [Consumers -> LaneState] /\ s \in ConsumerState(LaneRings) /\ s \in LaneState
      /\ decl.batch \in Nat \ {0} /\ got \in [Consumers -> Seq(Values)] /\ got[c] \in Seq(Values)
      /\ ring \in [LaneRings -> RingState]
  BY LanesParts DEF LanesType, GridType
<1>2. /\ s.pc = "scan" /\ UNCHANGED <<abandoned, early, prod, live_producers, broker, due, panicked>>
      /\ \/ /\ k > 0 /\ ring' = [ring EXCEPT ![r].q = SubSeq(q, k + 1, Len(q))] /\ Deliver(c, next, SubSeq(q, 1, k))
         \/ /\ ~(k > 0) /\ UNCHANGED <<ring, got>>
            /\ con' = [con EXCEPT ![c] = [next EXCEPT !.looked = @ + 1, !.pc = pc]]
  BY DEF LanesScan, OtherGrid
<1>3. s.staging = <<>> /\ s.lanes # <<>> /\ s.done < decl.batch /\ s.looked < Len(s.lanes)
  BY <1>1, <1>2 DEF LaneState
<1>4. /\ s.lanes \in Seq(LaneRings) /\ Len(s.lanes) \in Nat \ {0} /\ s.cursor \in Nat /\ s.done \in Nat /\ s.looked \in Nat
      /\ s.adopted \in BOOLEAN
  BY <1>1, <1>3 DEF ConsumerState
<1>5. i \in 0 .. Len(s.lanes) - 1
  BY <1>4, IndexIs
<1> HIDE DEF i
<1>6. i + 1 \in 1 .. Len(s.lanes) /\ r \in LaneRings /\ i + 1 \in Nat
  BY <1>4, <1>5
<1> HIDE DEF r
<1>7. q \in Seq(Values) /\ Len(q) \in Nat
  BY <1>6, LanesParts
<1> HIDE DEF q
<1>8. k \in 0 .. Len(q) /\ (k = 0 => Len(q) = 0)
  BY <1>1, <1>3, <1>4, <1>7 DEF Lesser
<1> HIDE DEF k
<1>9. next \in ConsumerState(LaneRings) /\ next.lanes = s.lanes /\ next.staging = <<>> /\ next.final = s.final
      /\ next.looked = s.looked /\ next.cursor = i + 1 /\ next.done = s.done
  BY <1>1, <1>3, <1>6 DEF ConsumerState
<1> HIDE DEF next
<1>10. CASE k > 0 /\ ring' = [ring EXCEPT ![r].q = SubSeq(q, k + 1, Len(q))] /\ Deliver(c, next, SubSeq(q, 1, k))
  <2> DEFINE a == SubSeq(q, 1, k)
             b == SubSeq(q, k + 1, Len(q))
  <2>1. a \in Seq(Values) /\ b \in Seq(Values) /\ Len(a) = k
    BY <1>7, <1>8, SplitIs
  <2>2. ring' = [ring EXCEPT ![r].q = b] /\ Deliver(c, next, a)
    BY <1>10
  <2> HIDE DEF a, b
  <2>3. a # <<>>
    BY <1>10, <2>1
  <2>4. /\ con' \in [Consumers -> LaneState] /\ got' \in [Consumers -> Seq(Values)]
        /\ \A d \in Consumers : d # c => con'[d] = con[d] /\ got'[d] = got[d]
        /\ con'[c].pc \in {"idle", "scan"} /\ ~con'[c].final /\ con'[c].lanes = next.lanes
        /\ got'[c] \o con'[c].staging = got[c] \o a
    BY <1>3, <1>9, <2>1, <2>2, <2>3, DeliverIs
  <2>5. /\ ring' \in [LaneRings -> RingState] /\ ring'[r] = [ring[r] EXCEPT !.q = b]
        /\ \A o \in LaneRings : o # r => ring'[o] = ring[o]
    BY <1>1, <1>6, <2>1, <2>2, SetQueue
  <2>6. ring'[r].q = b
    BY <1>1, <1>6, <2>5 DEF RingState
  <2>7. k \in 1 .. Len(q)
    BY <1>7, <1>8, <1>10
  <2>8. Own(c) /\ Goes(c)
    BY <1>2, <1>9, <2>4 DEF Own, Goes
  <2>9. \E kk \in 1 .. Len(q) : /\ ring'[r].q = SubSeq(q, kk + 1, Len(q))
                                /\ got'[c] \o con'[c].staging = got[c] \o SubSeq(q, 1, kk)
    BY <2>4, <2>6, <2>7 DEF a, b
  <2> QED
    BY <1>2, <1>3, <1>6, <2>5, <2>8, <2>9 DEF At, i, r, q
<1>11. CASE ~(k > 0) /\ UNCHANGED <<ring, got>> /\ con' = [con EXCEPT ![c] = [next EXCEPT !.looked = @ + 1, !.pc = pc]]
  <2>1. pc \in {"scan", "adopt", "empty"} /\ (pc = "scan" <=> s.looked + 1 < Len(s.lanes))
    BY <1>4
  <2> HIDE DEF pc
  <2>2. con' = [con EXCEPT ![c] = t]
    BY <1>9, <1>11
  <2>3. t \in ConsumerState(LaneRings)
    <3> DEFINE n == s.looked + 1
    <3>1. n \in Nat /\ t = [next EXCEPT !.looked = n, !.pc = pc]
      BY <1>4
    <3> HIDE DEF n, t
    <3> QED
      BY <1>9, <2>1, <3>1 DEF ConsumerState
  <2>4. t.looked = s.looked + 1 /\ t.pc = pc /\ t.lanes = s.lanes /\ t.staging = <<>> /\ t.final = s.final
        /\ t.cursor = i + 1 /\ t.done = s.done
    BY <1>9 DEF ConsumerState
  <2> HIDE DEF t
  <2>5. t \in LaneState
    BY <1>3, <2>1, <2>3, <2>4 DEF LaneState
  <2>6. con' \in [Consumers -> LaneState] /\ con'[c] = t /\ \A d \in Consumers : d # c => con'[d] = con[d]
    BY <1>1, <2>2, <2>5
  <2>7. Own(c)
    BY <1>1, <1>2, <1>11, <2>6 DEF Own
  <2>8. q = <<>>
    BY <1>7, <1>8, <1>11
  <2>9. pc # "scan" => s.looked + 1 = Len(s.lanes)
    BY <1>3, <1>4, <2>1
  <2> QED
    BY <1>2, <1>3, <1>6, <1>11, <2>1, <2>4, <2>6, <2>7, <2>8, <2>9 DEF At, i, r, q
<1> QED
  BY <1>2, <1>10, <1>11

\* The lanes that were abandoned are adopted, and there is one pass more.
LEMMA AdoptIs ==
  ASSUME LanesType, NEW c \in Consumers, Adopt(c)
  PROVE  /\ con[c].pc = "adopt" /\ Own(c) /\ UNCHANGED <<ring, got, early>> /\ abandoned' = <<>>
         /\ con'[c].staging = con[c].staging /\ con'[c].final = con[c].final
         /\ \/ abandoned = <<>> /\ con'[c].pc = "empty" /\ con'[c].lanes = con[c].lanes
            \/ con'[c].pc = "scan" /\ con'[c].looked = 0 /\ con'[c].lanes = con[c].lanes \o abandoned
<1> DEFINE s == con[c]
           l == s.lanes \o abandoned
           t == IF abandoned = <<>> THEN [s EXCEPT !.pc = "empty"]
                ELSE [s EXCEPT !.pc = "scan", !.lanes = l, !.looked = 0, !.adopted = TRUE]
<1>1. /\ con \in [Consumers -> LaneState] /\ s \in ConsumerState(LaneRings) /\ s \in LaneState
      /\ got \in [Consumers -> Seq(Values)] /\ abandoned \in Seq(LaneRings) /\ s.lanes \in Seq(LaneRings)
  BY LanesParts DEF LanesType, GridType
<1>2. /\ s.pc = "adopt" /\ UNCHANGED <<ring, got, early, prod, live_producers, broker, due, panicked>>
      /\ abandoned' = <<>> /\ con' = [con EXCEPT ![c] = t]
  BY <1>1 DEF Adopt, OtherGrid
<1>3. s.staging = <<>> /\ s.lanes # <<>> /\ s.done < decl.batch
  BY <1>1, <1>2 DEF LaneState
<1>4. l \in Seq(LaneRings) /\ Len(l) = Len(s.lanes) + Len(abandoned)
  BY <1>1, ConcatProperties
<1>5. l # <<>> /\ Len(l) \in Nat /\ Len(l) > 0
  BY <1>1, <1>3, <1>4
<1> HIDE DEF l
<1>6. /\ t \in LaneState /\ t.staging = s.staging /\ t.final = s.final
      /\ \/ abandoned = <<>> /\ t.pc = "empty" /\ t.lanes = s.lanes
         \/ t.pc = "scan" /\ t.looked = 0 /\ t.lanes = l
  <2>1. CASE abandoned = <<>>
    <3>1. t \in ConsumerState(LaneRings)
      BY <1>1, <2>1 DEF ConsumerState
    <3>2. t.pc = "empty" /\ t.lanes = s.lanes /\ t.staging = s.staging /\ t.final = s.final /\ t.done = s.done
      BY <1>1, <2>1 DEF ConsumerState
    <3> HIDE DEF t
    <3>3. t \in LaneState
      BY <1>3, <3>1, <3>2 DEF LaneState
    <3> QED
      BY <2>1, <3>2, <3>3
  <2>2. CASE abandoned # <<>>
    <3>1. t \in ConsumerState(LaneRings)
      BY <1>1, <1>4, <2>2 DEF ConsumerState
    <3>2. t.pc = "scan" /\ t.lanes = l /\ t.staging = s.staging /\ t.final = s.final /\ t.done = s.done /\ t.looked = 0
      BY <1>1, <2>2 DEF ConsumerState
    <3> HIDE DEF t
    <3>3. t \in LaneState
      BY <1>3, <1>5, <3>1, <3>2 DEF LaneState
    <3> QED
      BY <3>2, <3>3
  <2> QED
    BY <2>1, <2>2
<1> HIDE DEF t
<1>7. con' \in [Consumers -> LaneState] /\ con'[c] = t /\ \A d \in Consumers : d # c => con'[d] = con[d]
  BY <1>1, <1>2, <1>6
<1> QED
  BY <1>1, <1>2, <1>6, <1>7 DEF Own, l

\* After a pass that found nothing: the end, or another pass.
LEMMA LanesEmptyIs ==
  ASSUME LanesType, NEW c \in Consumers, LanesEmpty(c)
  PROVE  /\ con[c].pc = "empty" /\ Own(c) /\ UNCHANGED <<ring, got, early, abandoned>>
         /\ con'[c].staging = con[c].staging /\ con'[c].lanes = con[c].lanes
         /\ \/ con[c].final /\ con'[c].pc = "ended" /\ ~con'[c].final
            \/ con'[c].pc = "scan" /\ con'[c].looked = 0 /\ (con'[c].final => live_producers = 0)
<1> DEFINE s == con[c]
           f == s.done = 0 /\ live_producers = 0
           t == IF s.done = 0 /\ s.final THEN Received(s, "ended") ELSE Again(s, f)
<1>1. /\ con \in [Consumers -> LaneState] /\ s \in ConsumerState(LaneRings) /\ s \in LaneState
      /\ got \in [Consumers -> Seq(Values)] /\ decl.batch \in Nat \ {0}
  BY LanesParts DEF LanesType, GridType
<1>2. /\ s.pc = "empty" /\ UNCHANGED <<ring, got, early, abandoned, prod, live_producers, broker, due, panicked>>
      /\ con' = [con EXCEPT ![c] = t]
  BY <1>1 DEF LanesEmpty, OtherGrid
<1>3. s.staging = <<>> /\ s.lanes # <<>>
  BY <1>1, <1>2 DEF LaneState
<1>4. f \in BOOLEAN
  OBVIOUS
<1>5. /\ t \in LaneState /\ t.staging = s.staging /\ t.lanes = s.lanes
      /\ \/ s.final /\ t.pc = "ended" /\ ~t.final
         \/ t.pc = "scan" /\ t.looked = 0 /\ (t.final => live_producers = 0)
  <2>1. CASE s.done = 0 /\ s.final
    <3>1. t \in ConsumerState(LaneRings)
      BY <1>1, <2>1 DEF ConsumerState, Received, LanesCalls
    <3>2. t.pc = "ended" /\ t.lanes = s.lanes /\ t.staging = s.staging /\ t.final = FALSE /\ t.done = 0
      BY <1>1, <2>1 DEF ConsumerState, Received
    <3> HIDE DEF t
    <3>3. t \in LaneState
      BY <1>1, <1>3, <3>1, <3>2 DEF LaneState
    <3> QED
      BY <2>1, <3>2, <3>3
  <2>2. CASE ~(s.done = 0 /\ s.final)
    <3>1. t = Again(s, f)
      BY <2>2
    <3>2. (f = TRUE) => live_producers = 0
      OBVIOUS
    <3> HIDE DEF t, f
    <3>3. t \in LaneState /\ t = [s EXCEPT !.pc = "scan", !.looked = 0, !.adopted = FALSE, !.final = f, !.done = 0]
      BY <1>1, <1>3, <1>4, <3>1, AgainIs
    <3>4. t.pc = "scan" /\ t.looked = 0 /\ t.final = f /\ t.lanes = s.lanes /\ t.staging = s.staging
      BY <1>1, <3>3 DEF ConsumerState
    <3> QED
      BY <1>4, <3>2, <3>3, <3>4
  <2> QED
    BY <2>1, <2>2
<1> HIDE DEF t
<1>6. con' \in [Consumers -> LaneState] /\ con'[c] = t /\ \A d \in Consumers : d # c => con'[d] = con[d]
  BY <1>1, <1>2, <1>5
<1> QED
  BY <1>1, <1>2, <1>5, <1>6 DEF Own

\* A consumer is dropped: its lanes are abandoned, what is staged is lost.
LEMMA LanesDropIs ==
  ASSUME LanesType, NEW c \in Consumers, LanesConsumerDrop(c)
  PROVE  /\ con[c].pc \in {"idle", "ended"} /\ Own(c) /\ UNCHANGED <<ring, got>>
         /\ early' \in Nat /\ (con[c].pc = "idle" => early' # 0) /\ (con[c].pc = "ended" => early' = early)
         /\ con'[c].staging = <<>> /\ con'[c].lanes = <<>> /\ con'[c].pc = "leaving" /\ con'[c].final = con[c].final
         /\ abandoned' = abandoned \o con[c].lanes
<1> DEFINE s == con[c]
           t == [s EXCEPT !.pc = "leaving", !.lanes = <<>>, !.staging = <<>>]
<1>1. /\ con \in [Consumers -> LaneState] /\ s \in ConsumerState(LaneRings) /\ s \in LaneState
      /\ got \in [Consumers -> Seq(Values)] /\ early \in Nat
  BY LanesParts DEF LanesType, GridType
<1>2. /\ s.pc \in {"idle", "ended"} /\ UNCHANGED <<ring, got, prod, live_producers, broker, due, panicked>>
      /\ con' = [con EXCEPT ![c] = t] /\ abandoned' = abandoned \o s.lanes
      /\ early' = IF s.pc = "idle" THEN early + 1 ELSE early
  BY <1>1 DEF LanesConsumerDrop, OtherGrid
<1>3. <<>> \in Seq(Values) /\ <<>> \in Seq(LaneRings)
  OBVIOUS
<1>4. t \in ConsumerState(LaneRings)
  BY <1>1, <1>3 DEF ConsumerState
<1>5. t.pc = "leaving" /\ t.lanes = <<>> /\ t.staging = <<>> /\ t.final = s.final /\ t.done = s.done
  BY <1>1, <1>3 DEF ConsumerState
<1> HIDE DEF t
<1>6. t \in LaneState
  BY <1>1, <1>4, <1>5 DEF LaneState
<1>7. con' \in [Consumers -> LaneState] /\ con'[c] = t /\ \A d \in Consumers : d # c => con'[d] = con[d]
  BY <1>1, <1>2, <1>6
<1>8. early' \in Nat /\ (s.pc = "idle" => early' # 0) /\ (s.pc = "ended" => early' = early)
  BY <1>1, <1>2
<1> QED
  BY <1>1, <1>2, <1>5, <1>7, <1>8 DEF Own

\* A dropped consumer is counted off.
LEMMA LanesLeaveIs ==
  ASSUME LanesType, NEW c \in Consumers, LanesLeave(c)
  PROVE  /\ con[c].pc = "leaving" /\ Own(c) /\ UNCHANGED <<ring, got, early, abandoned>>
         /\ con'[c].staging = con[c].staging /\ con'[c].lanes = con[c].lanes /\ con'[c].pc = "gone"
         /\ con'[c].final = con[c].final
<1> DEFINE s == con[c]
           t == [s EXCEPT !.pc = "gone"]
<1>1. /\ con \in [Consumers -> LaneState] /\ s \in ConsumerState(LaneRings) /\ s \in LaneState
      /\ got \in [Consumers -> Seq(Values)]
  BY LanesParts DEF LanesType, GridType
<1>2. /\ s.pc = "leaving" /\ UNCHANGED <<ring, got, early, abandoned, prod, live_producers, broker, due, panicked>>
      /\ con' = [con EXCEPT ![c] = t]
  BY <1>1 DEF LanesLeave, OtherGrid
<1>3. t \in ConsumerState(LaneRings)
  BY <1>1 DEF ConsumerState
<1>4. t.pc = "gone" /\ t.lanes = s.lanes /\ t.staging = s.staging /\ t.final = s.final /\ t.done = s.done
  BY <1>1 DEF ConsumerState
<1> HIDE DEF t
<1>5. t \in LaneState
  BY <1>1, <1>2, <1>3, <1>4 DEF LaneState
<1>6. con' \in [Consumers -> LaneState] /\ con'[c] = t /\ \A d \in Consumers : d # c => con'[d] = con[d]
  BY <1>1, <1>2, <1>5
<1> QED
  BY <1>1, <1>2, <1>4, <1>6 DEF Own

-----------------------------------------------------------------------------
(* The types of the lanes are kept.                                        *)

LEMMA AliveSame ==
  ASSUME decl' = decl, \A q \in Producers : prod'[q].pc = "gone" <=> prod[q].pc = "gone"
  PROVE  Cardinality(Alive)' = Cardinality(Alive)
<1>1. Producers' = Producers
  BY DeclSame
<1>2. Alive' = Alive
  BY <1>1 DEF Alive
<1> QED
  BY <1>2

LEMMA LanesTypeIf ==
  ASSUME LanesType, decl' = decl, opened' = opened, broker' = broker,
         ring' \in [LaneRings -> RingState], \A r \in LaneRings : Len(ring'[r].q) <= NextPowerOfTwo(LaneCap),
         prod' \in [Producers -> ProducerState], con' \in [Consumers -> LaneState],
         got' \in [Consumers -> Seq(Values)], early' \in Nat, live_producers' = Cardinality(Alive)',
         abandoned' \in Seq(LaneRings)
  PROVE  LanesType'
<1>1. /\ Producers' = Producers /\ Consumers' = Consumers /\ Values' = Values /\ RingState' = RingState
      /\ ProducerState' = ProducerState /\ LaneRings' = LaneRings
      /\ ConsumerState(LaneRings)' = ConsumerState(LaneRings) /\ LaneState' = LaneState /\ LaneCap' = LaneCap
      /\ IsLanes(decl)' = IsLanes(decl)
  BY DeclSame
<1>2. con' \in [Consumers -> ConsumerState(LaneRings)]
  BY DEF LaneState
<1>3. GridType(LaneRings)'
  BY <1>1, <1>2 DEF LanesType, GridType
<1>4. NextPowerOfTwo(LaneCap)' = NextPowerOfTwo(LaneCap)
  BY <1>1
<1> QED
  BY <1>1, <1>3, <1>4 DEF LanesType

LanesTakes(c) == LanesReceive(c) \/ LanesConsumerDrop(c) \/ \E op \in LanesCalls : LanesBegin(c, op)
LanesPasses(p) == LanesFull(p) \/ \E op \in {"send", "try_send", "send_batch"}, n \in {1, 2} : StartSend(p, op, n)

LEMMA LanesCases ==
  ASSUME LanesType, LanesNext
  PROVE  \/ \E p \in Producers : TryLane(p) \/ LanesPasses(p) \/ ProducerDrop(p)
         \/ \E c \in Consumers : LanesTakes(c)
  BY LanesParts DEF LanesNext, LanesSend, LanesTakes, LanesPasses

\* A consumer's step, on the rings.
LEMMA TakesIs ==
  ASSUME LanesType, NEW c \in Consumers, LanesTakes(c)
  PROVE  /\ Own(c) /\ ring' \in [LaneRings -> RingState] /\ early' \in Nat /\ abandoned' \in Seq(LaneRings)
         /\ \A r \in LaneRings : Len(ring'[r].q) <= Len(ring[r].q) /\ (ring[r].q = <<>> => ring'[r].q = <<>>)
<1>1. ring \in [LaneRings -> RingState] /\ early \in Nat /\ abandoned \in Seq(LaneRings)
  BY DEF LanesType, GridType
<1>2. \A r \in LaneRings : ring[r].q \in Seq(Values) /\ Len(ring[r].q) \in Nat
  BY LanesParts
<1>3. CASE UNCHANGED <<ring, early>> /\ Own(c) /\ abandoned' \in Seq(LaneRings)
  BY <1>1, <1>2, <1>3
<1>4. CASE LanesScan(c)
  <2> DEFINE r == con[c].lanes[At(c)]
             q == ring[r].q
  <2>1. /\ Own(c) /\ UNCHANGED <<abandoned, early>> /\ r \in LaneRings
        /\ \/ /\ Goes(c) /\ ring' \in [LaneRings -> RingState]
              /\ \A o \in LaneRings : o # r => ring'[o] = ring[o]
              /\ \E k \in 1 .. Len(q) : ring'[r].q = SubSeq(q, k + 1, Len(q))
           \/ UNCHANGED <<ring, got>>
    BY <1>4, LanesScanIs
  <2>2. CASE UNCHANGED <<ring, got>>
    BY <1>1, <1>2, <2>1, <2>2
  <2>3. CASE /\ ring' \in [LaneRings -> RingState] /\ \A o \in LaneRings : o # r => ring'[o] = ring[o]
             /\ \E k \in 1 .. Len(q) : ring'[r].q = SubSeq(q, k + 1, Len(q))
    <3>1. PICK k \in 1 .. Len(q) : ring'[r].q = SubSeq(q, k + 1, Len(q))
      BY <2>3
    <3>6. q \in Seq(Values) /\ Len(q) \in Nat
      BY <1>2, <2>1
    <3> HIDE DEF q
    <3>2. q \in Seq(Values) /\ Len(q) \in Nat /\ k \in 0 .. Len(q)
      BY <3>6
    <3>3. Len(SubSeq(q, k + 1, Len(q))) = Len(q) - k
      BY <3>2, SplitIs
    <3>4. Len(ring'[r].q) <= Len(q) /\ q # <<>>
      BY <3>1, <3>2, <3>3
    <3>5. \A o \in LaneRings : Len(ring'[o].q) <= Len(ring[o].q) /\ (ring[o].q = <<>> => ring'[o].q = <<>>)
      BY <1>2, <2>3, <3>4, SMTT(40) DEF q
    <3> QED
      BY <1>1, <2>1, <2>3, <3>5
  <2> QED
    BY <2>1, <2>2, <2>3
<1>5. CASE Adopt(c)
  <2>1. <<>> \in Seq(LaneRings)
    OBVIOUS
  <2>2. UNCHANGED <<ring, got, early>> /\ Own(c) /\ abandoned' = <<>>
    BY <1>5, AdoptIs
  <2> QED
    BY <1>3, <2>1, <2>2
<1>6. CASE LanesEmpty(c)
  BY <1>1, <1>3, <1>6, LanesEmptyIs
<1>7. CASE LanesLeave(c)
  BY <1>1, <1>3, <1>7, LanesLeaveIs
<1>8. CASE LanesConsumerDrop(c)
  <2>1. con[c].lanes \in Seq(LaneRings)
    BY LanesParts
  <2>2. Own(c) /\ UNCHANGED <<ring, got>> /\ early' \in Nat /\ abandoned' = abandoned \o con[c].lanes
    BY <1>8, LanesDropIs
  <2>3. abandoned \o con[c].lanes \in Seq(LaneRings)
    BY <1>1, <2>1, ConcatIs
  <2> QED
    BY <1>1, <1>2, <2>2, <2>3
<1>9. ASSUME NEW op \in LanesCalls, LanesBegin(c, op)
      PROVE  UNCHANGED <<ring, early, abandoned>> /\ Own(c)
  BY <1>9, LanesBeginIs
<1> QED
  BY <1>1, <1>3, <1>4, <1>5, <1>6, <1>7, <1>8, <1>9 DEF LanesTakes, LanesReceive

LEMMA LanesTypeStep ==
  ASSUME LanesType, LanesNext, UNCHANGED declaration
  PROVE  LanesType'
<1>1. decl' = decl /\ opened' = opened
  BY DEF declaration
<1>2. /\ ring \in [LaneRings -> RingState] /\ prod \in [Producers -> ProducerState] /\ con \in [Consumers -> LaneState]
      /\ got \in [Consumers -> Seq(Values)] /\ early \in Nat /\ live_producers = Cardinality(Alive)
      /\ abandoned \in Seq(LaneRings) /\ decl.producers \in Nat
      /\ \A r \in LaneRings : Len(ring[r].q) \in Nat /\ Len(ring[r].q) <= NextPowerOfTwo(LaneCap)
  BY LanesParts DEF LanesType, GridType
<1>3. ASSUME NEW p \in Producers, TryLane(p) PROVE LanesType'
  <2>1. /\ prod' \in [Producers -> ProducerState]
        /\ \A q \in Producers : prod'[q].pc = "gone" <=> prod[q].pc = "gone"
        /\ UNCHANGED <<con, live_producers>> /\ LanesRest
        /\ ring' \in [LaneRings -> RingState]
    BY <1>3, TryLaneIs
  <2>2. \A r \in LaneRings : Len(ring'[r].q) <= NextPowerOfTwo(LaneCap)
    BY <1>2, <1>3, TryLaneIs
  <2>3. live_producers' = Cardinality(Alive)'
    BY <1>1, <1>2, <2>1, AliveSame
  <2> QED
    BY <1>1, <1>2, <2>1, <2>2, <2>3, LanesTypeIf DEF LanesRest
<1>4. ASSUME NEW p \in Producers, LanesPasses(p) PROVE LanesType'
  <2>1. /\ prod' \in [Producers -> ProducerState]
        /\ \A q \in Producers : prod'[q].pc = "gone" <=> prod[q].pc = "gone"
        /\ UNCHANGED <<ring, con, live_producers, abandoned, got, early, due, panicked, broker>>
    BY <1>2, <1>4, IdleSendIs DEF LanesPasses
  <2>2. live_producers' = Cardinality(Alive)'
    BY <1>1, <1>2, <2>1, AliveSame
  <2> QED
    BY <1>1, <1>2, <2>1, <2>2, LanesTypeIf
<1>5. ASSUME NEW p \in Producers, ProducerDrop(p) PROVE LanesType'
  <2>1. /\ prod' \in [Producers -> ProducerState] /\ live_producers' = Cardinality(Alive)'
        /\ UNCHANGED <<ring, con, abandoned, got, early, due, panicked, broker>>
    BY <1>1, <1>2, <1>5, ProducerDropIs
  <2> QED
    BY <1>1, <1>2, <2>1, LanesTypeIf
<1>6. ASSUME NEW c \in Consumers, LanesTakes(c) PROVE LanesType'
  <2>1. /\ Own(c) /\ ring' \in [LaneRings -> RingState] /\ early' \in Nat /\ abandoned' \in Seq(LaneRings)
        /\ \A r \in LaneRings : Len(ring'[r].q) <= Len(ring[r].q)
    BY <1>6, TakesIs
  <2>2. /\ prod' = prod /\ live_producers' = live_producers /\ broker' = broker
        /\ con' \in [Consumers -> LaneState] /\ got' \in [Consumers -> Seq(Values)]
    BY <2>1 DEF Own
  <2>3. live_producers' = Cardinality(Alive)'
    BY <1>1, <1>2, <2>2, AliveSame
  <2>4. \A r \in LaneRings : Len(ring'[r].q) <= NextPowerOfTwo(LaneCap)
    <3> TAKE r \in LaneRings
    <3>1. ring'[r].q \in Seq(Values) /\ NextPowerOfTwo(LaneCap) \in Nat
      BY <2>1 DEF RingState, LanesType
    <3>2. Len(ring'[r].q) \in Nat
      BY <3>1
    <3> DEFINE a == Len(ring'[r].q)
               b == Len(ring[r].q)
               n == NextPowerOfTwo(LaneCap)
    <3>3. a \in Nat /\ b \in Nat /\ n \in Nat /\ a <= b /\ b <= n
      BY <1>2, <2>1, <3>1, <3>2
    <3> HIDE DEF a, b, n
    <3>4. a <= n
      BY <3>3
    <3> QED
      BY <3>4 DEF a, n
  <2> QED
    BY <1>1, <1>2, <2>1, <2>2, <2>3, <2>4, LanesTypeIf
<1> QED
  BY <1>3, <1>4, <1>5, <1>6, LanesCases

-----------------------------------------------------------------------------
(* Every value of the lanes is in one place.                               *)

Bag(c) == <<"held", 0, c>>

LEMMA PlacesAre ==
  /\ \A r \in LaneRings : r \in Places /\ r[1] = "lane"
  /\ \A c \in Consumers : Bag(c) \in Places /\ Bag(c) \notin LaneRings /\ Bag(c)[1] = "held" /\ Bag(c)[3] = c
  /\ \A x \in Places : x \in LaneRings \/ \E c \in Consumers : x = Bag(c)
  BY DEF Places, LaneRings, Bag

LEMMA PlaceIs ==
  ASSUME LanesType
  PROVE  /\ Place \in [Places -> Seq(Values)]
         /\ \A r \in LaneRings : Place[r] = ring[r].q
         /\ \A c \in Consumers : Place[Bag(c)] = got[c] \o con[c].staging
<1>1. \A r \in LaneRings : ring[r].q \in Seq(Values)
  BY LanesParts
<1>2. \A c \in Consumers : got[c] \o con[c].staging \in Seq(Values)
  BY LanesParts, ConcatIs
<1>3. /\ \A r \in LaneRings : Place[r] = ring[r].q
      /\ \A c \in Consumers : Place[Bag(c)] = got[c] \o con[c].staging
  BY PlacesAre DEF Place, Line
<1>4. Place = [x \in Places |-> Place[x]]
  BY DEF Place
<1>5. \A x \in Places : Place[x] \in Seq(Values)
  <2> TAKE x \in Places
  <2>1. CASE x \in LaneRings
    BY <1>1, <1>3, <2>1
  <2>2. ASSUME NEW c \in Consumers, x = Bag(c) PROVE Place[x] \in Seq(Values)
    BY <1>2, <1>3, <2>2
  <2> QED
    BY <2>1, <2>2, PlacesAre
<1> QED
  BY <1>3, <1>4, <1>5

LEMMA PlaceNext ==
  ASSUME LanesType', decl' = decl
  PROVE  /\ Place' \in [Places -> Seq(Values)]
         /\ \A r \in LaneRings : Place'[r] = ring'[r].q
         /\ \A c \in Consumers : Place'[Bag(c)] = got'[c] \o con'[c].staging
<1>1. /\ Places' = Places /\ LaneRings' = LaneRings /\ Consumers' = Consumers /\ Values' = Values
      /\ RingState' = RingState /\ LaneState' = LaneState
      /\ ConsumerState(LaneRings)' = ConsumerState(LaneRings)
  BY DeclSame
<1>2. ring' \in [LaneRings -> RingState] /\ con' \in [Consumers -> ConsumerState(LaneRings)]
      /\ got' \in [Consumers -> Seq(Values)]
  BY <1>1 DEF LanesType, GridType
<1>3. \A r \in LaneRings : ring'[r].q \in Seq(Values)
  BY <1>2 DEF RingState
<1>4. \A c \in Consumers : got'[c] \o con'[c].staging \in Seq(Values)
  <2> TAKE c \in Consumers
  <2>1. got'[c] \in Seq(Values) /\ con'[c].staging \in Seq(Values)
    BY <1>2 DEF ConsumerState
  <2> QED
    BY <2>1, ConcatIs
<1>5. Place' = [x \in Places |-> IF x[1] = "lane" THEN ring'[x].q ELSE got'[x[3]] \o con'[x[3]].staging]
  BY <1>1 DEF Place, Line
<1>6. /\ \A r \in LaneRings : Place'[r] = ring'[r].q
      /\ \A c \in Consumers : Place'[Bag(c)] = got'[c] \o con'[c].staging
  BY <1>5, PlacesAre
<1>7. \A x \in Places : Place'[x] \in Seq(Values)
  <2> TAKE x \in Places
  <2>1. CASE x \in LaneRings
    BY <1>3, <1>6, <2>1
  <2>2. ASSUME NEW c \in Consumers, x = Bag(c) PROVE Place'[x] \in Seq(Values)
    BY <1>4, <1>6, <2>2
  <2> QED
    BY <2>1, <2>2, PlacesAre
<1>8. Place' = [x \in Places |-> Place'[x]]
  BY <1>5
<1> QED
  BY <1>6, <1>7, <1>8

LEMMA PlaceSame ==
  ASSUME LanesType, LanesType', decl' = decl, \A r \in LaneRings : ring'[r].q = ring[r].q,
         \A c \in Consumers : got'[c] \o con'[c].staging = got[c] \o con[c].staging
  PROVE  Place' = Place
<1>1. Place \in [Places -> Seq(Values)] /\ Place' \in [Places -> Seq(Values)]
  BY PlaceIs, PlaceNext
<1>2. \A x \in Places : Place'[x] = Place[x]
  <2> TAKE x \in Places
  <2>1. CASE x \in LaneRings
    BY <2>1, PlaceIs, PlaceNext
  <2>2. ASSUME NEW c \in Consumers, x = Bag(c) PROVE Place'[x] = Place[x]
    BY <2>2, PlaceIs, PlaceNext
  <2> QED
    BY <2>1, <2>2, PlacesAre
<1> QED
  BY <1>1, <1>2

LanesCounted == LanesOnce /\ LanesKept

LEMMA CountedSame ==
  ASSUME LanesCounted, Place' = Place, Accepted' = Accepted, early' = 0 => early = 0
  PROVE  LanesCounted'
  BY DEF LanesCounted, LanesOnce, LanesKept, OneEach, Spread

LEMMA TryLaneCounted ==
  ASSUME LanesType, LanesType', LanesCounted, decl' = decl, NEW p \in Producers, TryLane(p)
  PROVE  LanesCounted'
<1>1. /\ prod' \in [Producers -> ProducerState] /\ UNCHANGED <<con, got, early>>
      /\ \E k \in Nat, r \in LaneRings :
           /\ prod'[p].next = prod[p].next + k /\ \A q \in Producers : q # p => prod'[q].next = prod[q].next
           /\ ring'[r].q = ring[r].q \o Fresh(p, k)
           /\ \A o \in LaneRings : o # r => ring'[o] = ring[o]
  BY TryLaneIs DEF LanesRest
<1>2. PICK k \in Nat, r \in LaneRings :
        /\ prod'[p].next = prod[p].next + k /\ \A q \in Producers : q # p => prod'[q].next = prod[q].next
        /\ ring'[r].q = ring[r].q \o Fresh(p, k)
        /\ \A o \in LaneRings : o # r => ring'[o] = ring[o]
  BY <1>1
<1>3. prod \in [Producers -> ProducerState]
  BY DEF LanesType, GridType
<1> DEFINE f == Fresh(p, k)
<1>4. f \in Seq(Values) /\ Distinct(f)
  BY <1>3, FreshIs
<1>5. Accepted' = Accepted \cup ToSet(f) /\ ToSet(f) \cap Accepted = {}
  BY <1>1, <1>2, <1>3, AcceptedGrows
<1> HIDE DEF f
<1>6. r \in Places /\ Place \in [Places -> Seq(Values)] /\ Place' \in [Places -> Seq(Values)]
  BY PlacesAre, PlaceIs, PlaceNext
<1>7. Place'[r] = Place[r] \o f
  BY <1>2, PlaceIs, PlaceNext DEF f
<1>8. \A x \in Places : x # r => Place'[x] = Place[x]
  <2> TAKE x \in Places
  <2>1. CASE x \in LaneRings
    BY <1>2, <2>1, PlaceIs, PlaceNext
  <2>2. ASSUME NEW c \in Consumers, x = Bag(c) PROVE Place'[x] = Place[x]
    BY <1>1, <2>2, PlaceIs, PlaceNext
  <2> QED
    BY <2>1, <2>2, PlacesAre
<1>9. OneEach(Place, Accepted)
  BY DEF LanesCounted, LanesOnce
<1> DEFINE G == Place'
           C == Accepted'
<1>10. /\ G \in [Places -> Seq(Values)] /\ G[r] = Place[r] \o f /\ \A x \in Places : x # r => G[x] = Place[x]
       /\ C = Accepted \cup ToSet(f)
  BY <1>5, <1>6, <1>7, <1>8
<1> HIDE DEF G, C
<1>11. OneEach(G, C) /\ (Accepted \subseteq Spread(Place) => C \subseteq Spread(G))
  BY <1>4, <1>5, <1>6, <1>9, <1>10, AddKeeps
<1>12. OneEach(Place, Accepted)' /\ (Accepted \subseteq Spread(Place) => (Accepted \subseteq Spread(Place))')
  BY <1>11 DEF G, C, OneEach, Spread
<1> QED
  BY <1>1, <1>12 DEF LanesCounted, LanesOnce, LanesKept

LEMMA ScanCounted ==
  ASSUME LanesType, LanesType', LanesCounted, decl' = decl, Accepted' = Accepted, NEW c \in Consumers, LanesScan(c)
  PROVE  LanesCounted'
<1> DEFINE r == con[c].lanes[At(c)]
           q == ring[r].q
<1>1. /\ con[c].staging = <<>> /\ Own(c) /\ UNCHANGED early /\ r \in LaneRings
      /\ \/ /\ \A o \in LaneRings : o # r => ring'[o] = ring[o]
            /\ \E k \in 1 .. Len(q) : /\ ring'[r].q = SubSeq(q, k + 1, Len(q))
                                      /\ got'[c] \o con'[c].staging = got[c] \o SubSeq(q, 1, k)
         \/ UNCHANGED <<ring, got>> /\ con'[c].staging = <<>>
  BY LanesScanIs
<1>2. \A d \in Consumers : d # c => con'[d] = con[d] /\ got'[d] = got[d]
  BY <1>1 DEF Own
<1> HIDE DEF r
<1>3. CASE UNCHANGED <<ring, got>> /\ con'[c].staging = <<>>
  <2>1. \A d \in Consumers : got'[d] \o con'[d].staging = got[d] \o con[d].staging
    BY <1>1, <1>2, <1>3
  <2>2. \A o \in LaneRings : ring'[o].q = ring[o].q
    BY <1>3
  <2>3. Place' = Place
    BY <2>1, <2>2, PlaceSame
  <2> QED
    BY <1>1, <2>3, CountedSame
<1>4. ASSUME \A o \in LaneRings : o # r => ring'[o] = ring[o], NEW k \in 1 .. Len(q),
             ring'[r].q = SubSeq(q, k + 1, Len(q)), got'[c] \o con'[c].staging = got[c] \o SubSeq(q, 1, k)
      PROVE  LanesCounted'
  <2>1. /\ Place[r] = q /\ q \in Seq(Values) /\ Len(q) \in Nat
    BY <1>1, PlaceIs, LanesParts
  <2>2. Place[Bag(c)] = got[c]
    <3>1. got[c] \in Seq(Values) /\ got[c] \o <<>> = got[c]
      BY LanesParts, ConcatEmptySeq
    <3> QED
      BY <1>1, <3>1, PlaceIs
  <2>3. k \in 0 .. Len(Place[r])
    BY <2>1
  <2> DEFINE G == Place'
             y == Bag(c)
  <2>4. r \in Places /\ y \in Places /\ r # y /\ Place \in [Places -> Seq(Values)] /\ G \in [Places -> Seq(Values)]
    BY <1>1, PlacesAre, PlaceIs, PlaceNext
  <2>5. G[r] = SubSeq(Place[r], k + 1, Len(Place[r])) /\ G[y] = Place[y] \o SubSeq(Place[r], 1, k)
    BY <1>1, <1>4, <2>1, <2>2, PlaceNext
  <2>6. \A z \in Places : z # r /\ z # y => G[z] = Place[z]
    <3> TAKE z \in Places
    <3>1. CASE z \in LaneRings
      BY <1>4, <3>1, PlaceIs, PlaceNext
    <3>2. ASSUME NEW d \in Consumers, z = Bag(d), z # y PROVE G[z] = Place[z]
      <4>1. d # c
        BY <3>2
      <4> QED
        BY <1>2, <3>2, <4>1, PlaceIs, PlaceNext
    <3> QED
      BY <3>1, <3>2, PlacesAre
  <2>7. OneEach(Place, Accepted)
    BY DEF LanesCounted, LanesOnce
  <2> HIDE DEF G, y
  <2>8. OneEach(G, Accepted) /\ Spread(Place) \subseteq Spread(G)
    BY <2>3, <2>4, <2>5, <2>6, <2>7, MoveKeeps
  <2>9. OneEach(Place, Accepted)' /\ Spread(Place) \subseteq Spread(Place)'
    BY <2>8 DEF G, OneEach, Spread
  <2> QED
    BY <1>1, <2>9 DEF LanesCounted, LanesOnce, LanesKept
<1> QED
  BY <1>1, <1>3, <1>4

LEMMA DropCounted ==
  ASSUME LanesType, LanesType', LanesCounted, decl' = decl, Accepted' = Accepted, NEW c \in Consumers,
         LanesConsumerDrop(c)
  PROVE  LanesCounted'
<1>1. /\ con[c].pc \in {"idle", "ended"} /\ Own(c) /\ UNCHANGED <<ring, got>> /\ con'[c].staging = <<>>
      /\ early' \in Nat /\ (con[c].pc = "idle" => early' # 0) /\ (con[c].pc = "ended" => early' = early)
  BY LanesDropIs
<1>2. \A d \in Consumers : d # c => con'[d] = con[d] /\ got'[d] = got[d]
  BY <1>1 DEF Own
<1>3. got[c] \in Seq(Values) /\ con[c].staging \in Seq(Values) /\ con[c] \in LaneState
  BY LanesParts
<1>4. got[c] \o <<>> = got[c]
  BY <1>3, ConcatEmptySeq
<1> DEFINE G == Place'
           y == Bag(c)
<1>5. /\ y \in Places /\ Place \in [Places -> Seq(Values)] /\ G \in [Places -> Seq(Values)]
      /\ Place[y] = got[c] \o con[c].staging /\ G[y] = got[c]
  BY <1>1, <1>4, PlacesAre, PlaceIs, PlaceNext
<1>6. \A z \in Places : z # y => G[z] = Place[z]
  <2> TAKE z \in Places
  <2>1. CASE z \in LaneRings
    BY <1>1, <2>1, PlaceIs, PlaceNext
  <2>2. ASSUME NEW d \in Consumers, z = Bag(d), z # y PROVE G[z] = Place[z]
    <3>1. d # c
      BY <2>2
    <3> QED
      BY <1>2, <2>2, <3>1, PlaceIs, PlaceNext
  <2> QED
    BY <2>1, <2>2, PlacesAre
<1>7. OneEach(Place, Accepted)
  BY DEF LanesCounted, LanesOnce
<1>8. CASE con[c].pc = "ended"
  <2>1. con[c].staging = <<>>
    BY <1>3, <1>8 DEF LaneState
  <2>2. \A x \in Places : G[x] = Place[x]
    BY <1>4, <1>5, <1>6, <2>1
  <2>3. Place' = Place
    BY <1>5, <2>2
  <2> QED
    BY <1>1, <1>8, <2>3, CountedSame
<1>9. CASE con[c].pc = "idle"
  <2> HIDE DEF G, y
  <2>1. OneEach(G, Accepted)
    BY <1>3, <1>5, <1>6, <1>7, CutKeeps
  <2>2. OneEach(Place, Accepted)'
    BY <2>1 DEF G, OneEach
  <2> QED
    BY <1>1, <1>9, <2>2 DEF LanesCounted, LanesOnce, LanesKept
<1> QED
  BY <1>1, <1>8, <1>9

LEMMA LanesCountedStep ==
  ASSUME LanesType, LanesType', LanesCounted, LanesNext, decl' = decl
  PROVE  LanesCounted'
<1>1. prod \in [Producers -> ProducerState] /\ live_producers = Cardinality(Alive) /\ decl.producers \in Nat
  BY DEF LanesType, GridType
<1>2. ASSUME NEW p \in Producers, TryLane(p) PROVE LanesCounted'
  BY <1>2, TryLaneCounted
<1>3. ASSUME NEW p \in Producers, LanesPasses(p) \/ ProducerDrop(p) PROVE LanesCounted'
  <2>1. /\ prod' \in [Producers -> ProducerState] /\ \A q \in Producers : prod'[q].next = prod[q].next
        /\ UNCHANGED <<ring, con, got, early>>
    BY <1>1, <1>3, IdleSendIs, ProducerDropIs DEF LanesPasses
  <2>2. Accepted' = Accepted
    BY <1>1, <2>1, AcceptedSame
  <2>3. Place' = Place
    BY <2>1, PlaceSame
  <2> QED
    BY <2>1, <2>2, <2>3, CountedSame
<1>4. ASSUME NEW c \in Consumers, LanesTakes(c) PROVE LanesCounted'
  <2>1. Own(c)
    BY <1>4, TakesIs
  <2>2. Accepted' = Accepted
    BY <2>1 DEF Own, Accepted
  <2>3. CASE LanesScan(c)
    BY <2>2, <2>3, ScanCounted
  <2>4. CASE LanesConsumerDrop(c)
    BY <2>2, <2>4, DropCounted
  <2>5. CASE Adopt(c) \/ LanesEmpty(c) \/ LanesLeave(c) \/ \E op \in LanesCalls : LanesBegin(c, op)
    <3>1. UNCHANGED <<ring, early>> /\ got'[c] \o con'[c].staging = got[c] \o con[c].staging
      <4>1. CASE Adopt(c)
        BY <4>1, AdoptIs
      <4>2. CASE LanesEmpty(c)
        BY <4>2, LanesEmptyIs
      <4>3. CASE LanesLeave(c)
        BY <4>3, LanesLeaveIs
      <4>4. CASE \E op \in LanesCalls : LanesBegin(c, op)
        BY <4>4, LanesBeginIs
      <4> QED
        BY <2>5, <4>1, <4>2, <4>3, <4>4
    <3>2. \A d \in Consumers : got'[d] \o con'[d].staging = got[d] \o con[d].staging
      BY <2>1, <3>1 DEF Own
    <3>3. Place' = Place
      BY <3>1, <3>2, PlaceSame
    <3> QED
      BY <2>2, <3>1, <3>3, CountedSame
  <2> QED
    BY <1>4, <2>3, <2>4, <2>5 DEF LanesTakes, LanesReceive
<1> QED
  BY <1>2, <1>3, <1>4, LanesCases

-----------------------------------------------------------------------------
(* The final pass of the lanes.                                            *)

LEMMA FinalSame ==
  ASSUME LanesType, NEW d \in Consumers, FinalPass(d), con'[d] = con[d], live_producers = 0 => live_producers' = 0,
         \A r \in LaneRings : live_producers = 0 /\ ring[r].q = <<>> => ring'[r].q = <<>>
  PROVE  FinalPass(d)'
<1>1. \A x \in 1 .. Len(con[d].lanes) : con[d].lanes[x] \in LaneRings
  BY LanesParts
<1>2. \A x : Looked(d, x)' <=> Looked(d, x)
  BY DEF Looked
<1> QED
  BY <1>1, <1>2 DEF FinalPass

LEMMA GoesFinal ==
  ASSUME NEW c \in Consumers, Goes(c)
  PROVE  FinalPass(c)'
  BY DEF Goes, FinalPass

LEMMA MissFinal ==
  ASSUME LanesType, NEW c \in Consumers, FinalPass(c), con[c].pc = "scan", UNCHANGED <<ring, live_producers>>,
         ring[con[c].lanes[At(c)]].q = <<>>, con'[c].pc \in {"scan", "adopt", "empty"},
         con'[c].lanes = con[c].lanes, con'[c].final = con[c].final,
         con'[c].cursor = At(c), con'[c].looked = con[c].looked + 1,
         con'[c].pc # "scan" => con[c].looked + 1 = Len(con[c].lanes)
  PROVE  FinalPass(c)'
<1> DEFINE n == Len(con[c].lanes)
           i == Index(con[c].cursor, n)
           k == con[c].looked
           j == IF i + 1 = n THEN 0 ELSE i + 1
<1>1. con[c] \in LaneState /\ con[c] \in ConsumerState(LaneRings) /\ con[c].lanes \in Seq(LaneRings)
  BY LanesParts
<1>2. con[c].cursor \in Nat /\ k \in Nat /\ k < n /\ n \in Nat
  BY <1>1 DEF LaneState, ConsumerState
<1>3. n \in Nat \ {0} /\ k \in 0 .. n - 1
  BY <1>2
<1>4. i \in 0 .. n - 1 /\ At(c) = i + 1
  BY <1>2, <1>3, IndexIs DEF At
<1>5. Index(i + 1, n) = j /\ j \in 0 .. n - 1
  BY <1>3, <1>4 DEF Index
<1>6. Len(con'[c].lanes) = n /\ con'[c].cursor = i + 1 /\ con'[c].looked = k + 1
  BY <1>4
<1>7. \A x : /\ Looked(c, x) <=> Passed(x, i, k, n)
             /\ Looked(c, x)' <=> Passed(x, j, k + 1, n)
  BY <1>5, <1>6 DEF Looked
<1> HIDE DEF n, i, k, j
<1>8. \A x \in 1 .. n : Looked(c, x)' => x = At(c) \/ Looked(c, x)
  <2> SUFFICES ASSUME NEW x \in 1 .. n, Passed(x, j, k + 1, n) PROVE x = i + 1 \/ Passed(x, i, k, n)
    BY <1>4, <1>7
  <2> QED
    BY <1>3, <1>4, PassedIs DEF j
<1>9. con[c].final => \A x \in 1 .. n : Looked(c, x)' => ring'[con'[c].lanes[x]].q = <<>>
  BY <1>8 DEF FinalPass, n
<1>10. con'[c].pc # "scan" => \A x \in 1 .. n : Looked(c, x)'
  <2> SUFFICES ASSUME k + 1 = n, NEW x \in 1 .. n PROVE Passed(x, j, n, n)
    BY <1>7 DEF k, n
  <2> QED
    BY <1>3, <1>5, PassedIs
<1> QED
  BY <1>6, <1>9, <1>10 DEF FinalPass

\* A pass that has looked at nothing.
LEMMA FreshPass ==
  ASSUME LanesType', decl' = decl, NEW c \in Consumers, con'[c].pc = "scan", con'[c].looked = 0,
         con'[c].final => live_producers' = 0
  PROVE  FinalPass(c)'
<1> DEFINE n == Len(con'[c].lanes)
           i == Index(con'[c].cursor, n)
<1>1. con' \in [Consumers -> LaneState]
  BY DeclSame DEF LanesType
<1>2. con'[c].cursor \in Nat /\ n \in Nat \ {0}
  <2>1. con'[c] \in LaneState /\ con'[c] \in ConsumerState(LaneRings)
    BY <1>1 DEF LaneState
  <2>2. con'[c].lanes # <<>> /\ con'[c].lanes \in Seq(LaneRings) /\ con'[c].cursor \in Nat
    BY <2>1 DEF LaneState, ConsumerState
  <2> QED
    BY <2>2
<1>3. i \in 0 .. n - 1
  BY <1>2, IndexIs
<1>4. \A x : Looked(c, x)' <=> Passed(x, i, 0, n)
  BY DEF Looked
<1> HIDE DEF n, i
<1>5. \A x \in 1 .. n : ~Looked(c, x)'
  BY <1>2, <1>3, <1>4, PassedIs
<1> QED
  BY <1>5 DEF FinalPass, n

LEMMA TakesFinal ==
  ASSUME LanesType, LanesType', decl' = decl, NEW c \in Consumers, FinalPass(c), LanesTakes(c)
  PROVE  FinalPass(c)'
<1>1. Own(c)
  BY TakesIs
<1>2. live_producers' = live_producers
  BY <1>1 DEF Own
<1>3. CASE LanesScan(c)
  <2> DEFINE r == con[c].lanes[At(c)]
  <2>1. /\ con[c].pc = "scan"
        /\ \/ Goes(c)
           \/ /\ ring[r].q = <<>> /\ UNCHANGED <<ring, got>> /\ con'[c].pc \in {"scan", "adopt", "empty"}
              /\ con'[c].lanes = con[c].lanes /\ con'[c].final = con[c].final
              /\ con'[c].cursor = At(c) /\ con'[c].looked = con[c].looked + 1
              /\ con'[c].pc # "scan" => con[c].looked + 1 = Len(con[c].lanes)
    BY <1>3, LanesScanIs
  <2>2. CASE Goes(c)
    BY <2>2, GoesFinal
  <2>3. CASE ~Goes(c)
    BY <1>2, <2>1, <2>3, MissFinal
  <2> QED
    BY <2>2, <2>3
<1>4. CASE Adopt(c)
  <2>1. /\ con[c].pc = "adopt" /\ UNCHANGED ring /\ con'[c].final = con[c].final
        /\ \/ con'[c].pc = "empty" /\ con'[c].lanes = con[c].lanes
           \/ con'[c].pc = "scan" /\ con'[c].looked = 0
    BY <1>4, AdoptIs
  <2>2. CASE con'[c].pc = "empty" /\ con'[c].lanes = con[c].lanes
    BY <1>2, <2>1, <2>2 DEF FinalPass
  <2>3. CASE con'[c].pc = "scan" /\ con'[c].looked = 0
    <3>1. con'[c].final => live_producers' = 0
      BY <1>2, <2>1 DEF FinalPass
    <3> QED
      BY <2>3, <3>1, FreshPass
  <2> QED
    BY <2>1, <2>2, <2>3
<1>5. CASE LanesEmpty(c)
  <2>1. /\ con[c].pc = "empty" /\ UNCHANGED ring /\ con'[c].lanes = con[c].lanes
        /\ \/ con[c].final /\ con'[c].pc = "ended" /\ ~con'[c].final
           \/ con'[c].pc = "scan" /\ con'[c].looked = 0 /\ (con'[c].final => live_producers = 0)
    BY <1>5, LanesEmptyIs
  <2>2. CASE con[c].final /\ con'[c].pc = "ended" /\ ~con'[c].final
    BY <1>2, <2>1, <2>2 DEF FinalPass
  <2>3. CASE con'[c].pc = "scan" /\ con'[c].looked = 0 /\ (con'[c].final => live_producers = 0)
    BY <1>2, <2>3, FreshPass
  <2> QED
    BY <2>1, <2>2, <2>3
<1>6. CASE LanesConsumerDrop(c) \/ LanesLeave(c)
  <2>1. con'[c].pc \in {"leaving", "gone"} /\ con'[c].final = con[c].final
    BY <1>6, LanesDropIs, LanesLeaveIs
  <2> QED
    BY <1>2, <2>1 DEF FinalPass
<1>7. CASE \E op \in LanesCalls : LanesBegin(c, op)
  <2>1. Goes(c)
    BY <1>7, LanesBeginIs
  <2> QED
    BY <2>1, GoesFinal
<1> QED
  BY <1>3, <1>4, <1>5, <1>6, <1>7 DEF LanesTakes, LanesReceive

\* A consumer's step leaves every lane with somebody, and abandons empty ones
\* when it leaves after the end.
LEMMA TakesLanes ==
  ASSUME LanesType, LanesFinal, NEW c \in Consumers, LanesTakes(c)
  PROVE  /\ \A r \in LaneRings : r \in ToSet(abandoned') \/ \E d \in Consumers : r \in ToSet(con'[d].lanes)
         /\ early' = 0 => \A r \in ToSet(abandoned') : live_producers = 0 /\ ring[r].q = <<>>
<1>1. \A d \in Consumers : d # c => con'[d] = con[d]
  BY TakesIs DEF Own
<1>2. con[c].lanes \in Seq(LaneRings) /\ abandoned \in Seq(LaneRings)
  BY LanesParts DEF LanesType
<1>3. \A r \in LaneRings : r \in ToSet(abandoned) \/ \E d \in Consumers : r \in ToSet(con[d].lanes)
  BY DEF LanesFinal
<1>4. early = 0 => \A r \in ToSet(abandoned) : live_producers = 0 /\ ring[r].q = <<>>
  BY DEF LanesFinal
<1>5. CASE UNCHANGED <<abandoned, early>> /\ con'[c].lanes = con[c].lanes
  <2>1. \A d \in Consumers : con'[d].lanes = con[d].lanes
    BY <1>1, <1>5
  <2> QED
    BY <1>3, <1>4, <1>5, <2>1
<1>6. CASE Adopt(c)
  <2>1. /\ abandoned' = <<>> /\ early' = early
        /\ \/ abandoned = <<>> /\ con'[c].lanes = con[c].lanes
           \/ con'[c].lanes = con[c].lanes \o abandoned
    BY <1>6, AdoptIs
  <2>2. ToSet(abandoned') = {}
    BY <2>1, EmptyIs
  <2>3. ToSet(con'[c].lanes) = ToSet(con[c].lanes) \cup ToSet(abandoned)
    <3>1. ToSet(con[c].lanes \o abandoned) = ToSet(con[c].lanes) \cup ToSet(abandoned)
      BY <1>2, ConcatIs
    <3>2. CASE abandoned = <<>> /\ con'[c].lanes = con[c].lanes
      BY <3>2, EmptyIs
    <3>3. CASE con'[c].lanes = con[c].lanes \o abandoned
      BY <3>1, <3>3
    <3> QED
      BY <2>1, <3>2, <3>3
  <2>4. \A r \in LaneRings : \E d \in Consumers : r \in ToSet(con'[d].lanes)
    BY <1>1, <1>3, <2>3
  <2> QED
    BY <2>2, <2>4
<1>7. CASE LanesConsumerDrop(c)
  <2>1. /\ con[c].pc \in {"idle", "ended"} /\ early' \in Nat /\ (con[c].pc = "idle" => early' # 0)
        /\ (con[c].pc = "ended" => early' = early)
        /\ con'[c].lanes = <<>> /\ abandoned' = abandoned \o con[c].lanes
    BY <1>7, LanesDropIs
  <2>2. ToSet(abandoned') = ToSet(abandoned) \cup ToSet(con[c].lanes)
    BY <1>2, <2>1, ConcatIs
  <2>3. \A r \in LaneRings : r \in ToSet(abandoned') \/ \E d \in Consumers : r \in ToSet(con'[d].lanes)
    BY <1>1, <1>3, <2>2
  <2>4. ASSUME early' = 0, NEW r \in ToSet(abandoned') PROVE live_producers = 0 /\ ring[r].q = <<>>
    <3>1. con[c].pc = "ended" /\ early = 0
      BY <2>1, <2>4
    <3>2. FinalPass(c)
      BY DEF LanesFinal
    <3>3. live_producers = 0 /\ \A x \in 1 .. Len(con[c].lanes) : ring[con[c].lanes[x]].q = <<>>
      BY <3>1, <3>2 DEF FinalPass
    <3>4. r \in ToSet(con[c].lanes) => \E x \in 1 .. Len(con[c].lanes) : r = con[c].lanes[x]
      BY <1>2 DEF ToSet
    <3> QED
      BY <1>4, <2>2, <2>4, <3>1, <3>3, <3>4
  <2> QED
    BY <2>3, <2>4
<1>8. CASE LanesScan(c) \/ LanesEmpty(c) \/ LanesLeave(c) \/ \E op \in LanesCalls : LanesBegin(c, op)
  <2>1. CASE LanesScan(c)
    <3>1. UNCHANGED <<abandoned, early>> /\ (Goes(c) \/ con'[c].lanes = con[c].lanes)
      BY <2>1, LanesScanIs
    <3> QED
      BY <1>5, <3>1 DEF Goes
  <2>2. CASE LanesEmpty(c)
    BY <1>5, <2>2, LanesEmptyIs
  <2>3. CASE LanesLeave(c)
    BY <1>5, <2>3, LanesLeaveIs
  <2>4. CASE \E op \in LanesCalls : LanesBegin(c, op)
    <3>1. UNCHANGED <<abandoned, early>> /\ Goes(c)
      BY <2>4, LanesBeginIs
    <3> QED
      BY <1>5, <3>1 DEF Goes
  <2> QED
    BY <1>8, <2>1, <2>2, <2>3, <2>4
<1> QED
  BY <1>6, <1>7, <1>8 DEF LanesTakes, LanesReceive

LEMMA LanesFinalStep ==
  ASSUME LanesType, LanesType', LanesFinal, LanesNext, decl' = decl
  PROVE  LanesFinal'
<1>1. /\ prod \in [Producers -> ProducerState] /\ live_producers = Cardinality(Alive) /\ decl.producers \in Nat
      /\ abandoned \in Seq(LaneRings)
  BY DEF LanesType, GridType
<1>2. Consumers' = Consumers /\ LaneRings' = LaneRings
  BY DeclSame
<1>3. \A c \in Consumers : FinalPass(c)
  BY DEF LanesFinal
<1>4. \A r \in ToSet(abandoned) : r \in LaneRings
  BY <1>1, ToSetType
<1>5. ASSUME live_producers # 0, UNCHANGED <<con, abandoned, early>> PROVE LanesFinal'
  <2>1. \A c \in Consumers : FinalPass(c)'
    BY <1>3, <1>5, FinalSame
  <2>2. early = 0 => ToSet(abandoned) = {}
    BY <1>5 DEF LanesFinal
  <2> QED
    BY <1>2, <1>5, <2>1, <2>2 DEF LanesFinal
<1>6. ASSUME NEW p \in Producers, TryLane(p) \/ ProducerDrop(p) PROVE LanesFinal'
  <2>1. prod[p].pc # "gone" /\ UNCHANGED <<con, abandoned, early>>
    <3>1. CASE TryLane(p)
      BY <3>1, TryLaneIs DEF LanesRest
    <3>2. CASE ProducerDrop(p)
      BY <3>2 DEF ProducerDrop
    <3> QED
      BY <1>6, <3>1, <3>2
  <2>2. live_producers # 0
    BY <1>1, <2>1, AliveFinite
  <2> QED
    BY <1>5, <2>1, <2>2
<1>7. ASSUME NEW p \in Producers, LanesPasses(p) PROVE LanesFinal'
  <2>1. UNCHANGED <<ring, con, live_producers, abandoned, early>>
    BY <1>1, <1>7, IdleSendIs DEF LanesPasses
  <2>2. \A c \in Consumers : FinalPass(c)'
    BY <1>3, <2>1, FinalSame
  <2> QED
    BY <1>2, <2>1, <2>2 DEF LanesFinal
<1>8. ASSUME NEW c \in Consumers, LanesTakes(c) PROVE LanesFinal'
  <2>1. Own(c) /\ \A r \in LaneRings : ring[r].q = <<>> => ring'[r].q = <<>>
    BY <1>8, TakesIs
  <2>2. live_producers' = live_producers /\ \A d \in Consumers : d # c => con'[d] = con[d]
    BY <2>1 DEF Own
  <2>3. ASSUME NEW d \in Consumers PROVE FinalPass(d)'
    <3>1. CASE d = c
      BY <1>3, <1>8, <3>1, TakesFinal
    <3>2. CASE d # c
      BY <1>3, <2>1, <2>2, <3>2, FinalSame
    <3> QED
      BY <3>1, <3>2
  <2>4. /\ \A r \in LaneRings : r \in ToSet(abandoned') \/ \E d \in Consumers : r \in ToSet(con'[d].lanes)
        /\ early' = 0 => \A r \in ToSet(abandoned') : live_producers = 0 /\ ring[r].q = <<>>
    BY <1>8, TakesLanes
  <2>5. ToSet(abandoned') \subseteq LaneRings
    BY <1>8, TakesIs, ToSetType
  <2>6. early' = 0 => \A r \in ToSet(abandoned') : live_producers' = 0 /\ ring'[r].q = <<>>
    BY <2>1, <2>2, <2>4, <2>5
  <2> QED
    BY <1>2, <2>3, <2>4, <2>6 DEF LanesFinal
<1> QED
  BY <1>6, <1>7, <1>8, LanesCases

-----------------------------------------------------------------------------
(* The lanes: open, every step, and what follows.                          *)

LEMMA LanesStep ==
  ASSUME LanesInv, LanesNext, UNCHANGED declaration
  PROVE  LanesInv'
<1>1. decl' = decl
  BY DEF declaration
<1>2. LanesType'
  BY LanesTypeStep DEF LanesInv
<1>3. LanesCounted'
  BY <1>1, <1>2, LanesCountedStep DEF LanesInv, LanesCounted
<1>4. LanesFinal'
  BY <1>1, <1>2, LanesFinalStep DEF LanesInv
<1> QED
  BY <1>2, <1>3, <1>4 DEF LanesInv, LanesCounted

\* The capacity of a lane is a number.
LEMMA LaneCapacityIs ==
  ASSUME decl \in Declared, IsLanes(decl), decl.consumers \in Nat \ {0}
  PROVE  LaneCap \in Nat
<1> DEFINE x == Capacity(decl)
<1>1. decl.capacity # None => decl.capacity[1] \in Nat
  BY GridAssumption, OptionIs
<1>2. \A s : quantized_capacity(s) \in Nat
  BY DEF quantized_capacity
<1>3. \A a, b : native_capacity(decl, a, b) \in Nat
  BY <1>1, <1>2 DEF native_capacity, UnwrapOr, DEFAULT_CAPACITY
<1>4. x = native_capacity(decl, decl.producers, decl.consumers)
  BY DEF Capacity, IsLanes
<1>5. x \in Nat
  BY <1>3, <1>4
<1> HIDE DEF x
<1>6. (x + decl.consumers - 1) \div decl.consumers \in Nat
  BY <1>5, SMT
<1> QED
  BY <1>6 DEF LaneCap, LaneCapacity, CeilDiv, x

\* Fresh endpoints.
LEMMA BuiltEndpoints ==
  ASSUME NEW R, NEW pc, NEW lanes, NEW cc, BuildEndpoints(R, pc, lanes, cc), decl' = decl,
         \A p \in Producers : pc[p] \in Nat, \A c \in Consumers : cc[c] \in Nat /\ lanes[c] \in Seq(R),
         decl.producers \in Nat
  PROVE  /\ ring' \in [R -> RingState] /\ prod' \in [Producers -> ProducerState]
         /\ con' \in [Consumers -> ConsumerState(R)] /\ got' \in [Consumers -> Seq(Values)]
         /\ \A r \in R : ring'[r] = EmptyRing
         /\ \A p \in Producers : prod'[p].next = 1 /\ prod'[p].pc = "idle"
         /\ \A c \in Consumers : con'[c] = IdleConsumer(lanes[c], cc[c]) /\ got'[c] = <<>>
         /\ live_producers' = Cardinality(Alive)' /\ UNCHANGED <<abandoned, due, early, panicked>>
         /\ Accepted' = {}
<1>1. /\ ring' = [r \in R |-> EmptyRing] /\ prod' = [p \in Producers |-> IdleProducer(pc[p])]
      /\ con' = [c \in Consumers |-> IdleConsumer(lanes[c], cc[c])] /\ live_producers' = decl.producers
      /\ got' = [c \in Consumers |-> <<>>] /\ UNCHANGED <<abandoned, due, early, panicked>>
  BY DEF BuildEndpoints
<1>2. <<>> \in Seq(Values)
  OBVIOUS
<1>3. EmptyRing \in RingState
  BY <1>2 DEF EmptyRing, RingState
<1>4. \A p \in Producers : IdleProducer(pc[p]) \in ProducerState
  BY DEF IdleProducer, ProducerState
<1>5. \A c \in Consumers : IdleConsumer(lanes[c], cc[c]) \in ConsumerState(R)
  BY <1>2 DEF IdleConsumer, ConsumerState, LanesCalls
<1>6. \A p \in Producers : prod'[p].next = 1 /\ prod'[p].pc = "idle"
  BY <1>1 DEF IdleProducer
<1>7. prod' \in [Producers -> ProducerState]
  BY <1>1, <1>4
<1>8. Accepted' = {}
  <2>1. Accepted' = {v \in Values : v[2] < prod'[v[1]].next}
    BY <1>7, AcceptedNext
  <2>2. \A v \in Values : v[1] \in Producers /\ v[2] \in Nat \ {0}
    BY DEF Values
  <2> QED
    BY <1>6, <2>1, <2>2
<1>9. Alive' = Producers
  BY <1>6, DeclSame DEF Alive
<1>10. Cardinality(Producers) = decl.producers
  BY FS_Interval DEF Producers
<1>11. live_producers' = Cardinality(Alive)'
  BY <1>1, <1>9, <1>10
<1> QED
  BY <1>1, <1>2, <1>3, <1>5, <1>6, <1>7, <1>8, <1>11

LEMMA LanesOpen ==
  ASSUME Unbuilt, OpenLanes
  PROVE  LanesInv'
<1>1. /\ decl \in Declared /\ IsLanes(decl) /\ HasOpen(decl) /\ Opens(decl) /\ opened' = "open" /\ decl' = decl
      /\ BuildLanes /\ broker' = <<>> /\ abandoned = <<>> /\ early = 0
  BY DEF OpenLanes, Open, Runs, Unbuilt, BuildLanes
<1>2. decl.routing = "RoundRobin"
  BY <1>1 DEF HasOpen, IsLanes
<1>3. /\ decl.producers \in Nat \ {0} /\ decl.consumers \in Nat \ {0} /\ decl.batch \in Nat \ {0}
      /\ HasPowerOfTwo(LaneCap)
  <2>1. LanesOpens(decl)
    BY <1>1 DEF Opens, IsLanes
  <2>2. {decl.producers, decl.consumers, decl.batch} \subseteq Nat
    BY <1>1, GridAssumption DEF Declarations
  <2> QED
    BY <2>1, <2>2 DEF LanesOpens, validate_common, LaneCap
<1>4. NextPowerOfTwo(LaneCap) \in Nat
  BY <1>1, <1>3, LaneCapacityIs, PowerExists
<1> DEFINE R == {"lane"} \X Producers \X Consumers
           pc == [p \in Producers |-> (p - 1) % decl.consumers]
           lanes == [c \in Consumers |-> [p \in Producers |-> <<"lane", p, c>>]]
           cc == [c \in Consumers |-> (c - 1) % decl.producers]
<1>5. BuildEndpoints(R, pc, lanes, cc) /\ R = LaneRings
  BY <1>1 DEF BuildLanes, LaneRings
<1>6. /\ \A p \in Producers : pc[p] \in Nat
      /\ \A c \in Consumers : cc[c] \in Nat /\ lanes[c] \in Seq(R)
  <2>1. \A p \in Producers : (p - 1) % decl.consumers \in Nat
    BY <1>3 DEF Producers
  <2>2. \A c \in Consumers : (c - 1) % decl.producers \in Nat
    BY <1>3 DEF Consumers
  <2>3. ASSUME NEW c \in Consumers PROVE lanes[c] \in Seq(R)
    <3>1. lanes[c] = [p \in Producers |-> <<"lane", p, c>>]
      OBVIOUS
    <3>2. lanes[c] \in [1 .. decl.producers -> R]
      BY <3>1 DEF Producers
    <3> HIDE DEF lanes, R
    <3> QED
      BY <1>3, <3>2
  <2> QED
    BY <2>1, <2>2, <2>3
<1>14. \A c \in Consumers : /\ DOMAIN lanes[c] = Producers /\ \A p \in Producers : lanes[c][p] = <<"lane", p, c>>
  OBVIOUS
<1> HIDE DEF R, pc, lanes, cc
<1>7. /\ ring' \in [R -> RingState] /\ prod' \in [Producers -> ProducerState]
      /\ con' \in [Consumers -> ConsumerState(R)] /\ got' \in [Consumers -> Seq(Values)]
      /\ \A r \in R : ring'[r] = EmptyRing
      /\ \A c \in Consumers : con'[c] = IdleConsumer(lanes[c], cc[c]) /\ got'[c] = <<>>
      /\ live_producers' = Cardinality(Alive)' /\ UNCHANGED <<abandoned, due, early, panicked>>
      /\ Accepted' = {}
  BY <1>1, <1>3, <1>5, <1>6, BuiltEndpoints
<1>8. /\ Producers' = Producers /\ Consumers' = Consumers /\ Values' = Values /\ RingState' = RingState
      /\ ProducerState' = ProducerState /\ LaneRings' = LaneRings
      /\ ConsumerState(LaneRings)' = ConsumerState(LaneRings) /\ LaneState' = LaneState /\ LaneCap' = LaneCap
      /\ IsLanes(decl)' = IsLanes(decl)
  BY <1>1, DeclSame
<1>9. \A r \in LaneRings : ring'[r].q = <<>> /\ Len(ring'[r].q) = 0
  BY <1>5, <1>7 DEF EmptyRing
<1>10. \A c \in Consumers : lanes[c] # <<>> /\ lanes[c] \in Seq(LaneRings)
  <2> TAKE c \in Consumers
  <2>1. 1 \in DOMAIN lanes[c]
    BY <1>3, <1>14 DEF Producers
  <2> QED
    BY <1>5, <1>6, <2>1
<1>11. con' \in [Consumers -> LaneState]
  <2>1. ASSUME NEW c \in Consumers PROVE con'[c] \in LaneState
    <3>1. con'[c] \in ConsumerState(LaneRings) /\ con'[c] = IdleConsumer(lanes[c], cc[c])
      BY <1>5, <1>7
    <3>2. con'[c].pc = "idle" /\ con'[c].staging = <<>> /\ con'[c].done = 0 /\ con'[c].lanes = lanes[c]
      BY <3>1 DEF IdleConsumer
    <3> QED
      BY <1>3, <1>10, <3>1, <3>2 DEF LaneState
  <2> QED
    BY <1>7, <2>1
<1>12. LanesType'
  <2>1. GridType(LaneRings)'
    BY <1>1, <1>3, <1>5, <1>7, <1>8 DEF GridType
  <2>2. NextPowerOfTwo(LaneCap)' = NextPowerOfTwo(LaneCap) /\ <<>> \in Seq(LaneRings)
    BY <1>8
  <2>3. \A r \in LaneRings : Len(ring'[r].q) <= NextPowerOfTwo(LaneCap)
    BY <1>4, <1>9
  <2> QED
    BY <1>1, <1>2, <1>4, <1>7, <1>8, <1>11, <2>1, <2>2, <2>3 DEF LanesType
<1>13. LanesCounted'
  <2>1. \A x \in Places : Place'[x] = <<>>
    <3> TAKE x \in Places
    <3>1. CASE x \in LaneRings
      BY <1>1, <1>9, <1>12, <3>1, PlaceNext
    <3>2. ASSUME NEW c \in Consumers, x = Bag(c) PROVE Place'[x] = <<>>
      <4>1. got'[c] = <<>> /\ con'[c].staging = <<>>
        BY <1>7 DEF IdleConsumer
      <4>2. Place'[x] = <<>> \o <<>>
        BY <1>1, <1>12, <3>2, <4>1, PlaceNext
      <4> QED
        BY <4>2
    <3> QED
      BY <3>1, <3>2, PlacesAre
  <2>2. DOMAIN Place' = Places
    BY <1>1, <1>12, PlaceNext
  <2>3. LanesOnce'
    BY <1>7, <2>1, <2>2, EmptyIs DEF LanesOnce, OneEach
  <2> QED
    BY <1>7, <2>3 DEF LanesCounted, LanesKept
<1>15. LanesFinal'
  <2>1. ASSUME NEW c \in Consumers PROVE FinalPass(c)'
    <3>1. con'[c].pc = "idle" /\ ~con'[c].final
      BY <1>7 DEF IdleConsumer
    <3> QED
      BY <3>1 DEF FinalPass
  <2>2. ASSUME NEW r \in LaneRings PROVE \E c \in Consumers : r \in ToSet(con'[c].lanes)
    <3>1. PICK p \in Producers, c \in Consumers : r = <<"lane", p, c>>
      BY DEF LaneRings
    <3>2. con'[c].lanes = lanes[c]
      BY <1>7 DEF IdleConsumer
    <3>3. r \in ToSet(lanes[c])
      BY <1>14, <3>1 DEF ToSet
    <3> QED
      BY <3>2, <3>3
  <2>3. ToSet(abandoned') = {}
    BY <1>1, <1>7, EmptyIs
  <2> QED
    BY <1>8, <2>1, <2>2, <2>3 DEF LanesFinal
<1> QED
  BY <1>12, <1>13, <1>15 DEF LanesInv, LanesCounted

\* A consumer of the lanes gets a value once.
LEMMA LanesOrder ==
  ASSUME LanesInv
  PROVE  AtMostOnceInOrder
<1>1. LanesType /\ OneEach(Place, Accepted)
  BY DEF LanesInv, LanesOnce
<1>2. ASSUME NEW c \in Consumers PROVE Distinct(got[c])
  <2>1. got[c] \in Seq(Values) /\ con[c].staging \in Seq(Values)
    BY <1>1, LanesParts
  <2>2. Distinct(got[c] \o con[c].staging)
    <3>1. Bag(c) \in DOMAIN Place /\ Place[Bag(c)] = got[c] \o con[c].staging
      BY <1>1, PlacesAre, PlaceIs
    <3> QED
      BY <1>1, <3>1 DEF OneEach
  <2> QED
    BY <2>1, <2>2, ConcatIs
<1>3. DOMAIN con = Consumers /\ decl.topology = "Mpmc" /\ \A c \in Consumers : got[c] \in Seq(Values)
  BY <1>1, LanesParts DEF LanesType, IsLanes
<1>4. ASSUME NEW c \in Consumers, NEW i \in DOMAIN got[c], NEW j \in DOMAIN got[c], i < j
      PROVE  got[c][i] # got[c][j]
  <2>1. i \in Nat /\ j \in Nat /\ i # j
    BY <1>3, <1>4
  <2> QED
    BY <1>2, <2>1 DEF Distinct
<1> QED
  BY <1>3, <1>4 DEF AtMostOnceInOrder

\* Nothing stays behind in the lanes.
LEMMA LanesNothingStranded ==
  ASSUME LanesInv
  PROVE  NothingStranded
<1>1. LanesType /\ OneEach(Place, Accepted) /\ LanesKept /\ LanesFinal
  BY DEF LanesInv, LanesOnce
<1>2. DOMAIN con = Consumers /\ decl.topology = "Mpmc"
  BY <1>1, LanesParts DEF LanesType, IsLanes
<1>3. \A c \in Consumers : con[c] \in LaneState /\ con[c].lanes \in Seq(LaneRings) /\ got[c] \in Seq(Values)
  BY <1>1, LanesParts
<1>4. ASSUME NEW c \in Consumers, con[c].pc = "ended"
      PROVE  con[c].staging = <<>> /\ \A x \in DOMAIN con[c].lanes : ring[con[c].lanes[x]].q = <<>>
  <2>1. con[c].staging = <<>>
    BY <1>3, <1>4 DEF LaneState
  <2>2. FinalPass(c)
    BY <1>1 DEF LanesFinal
  <2> QED
    BY <1>3, <1>4, <2>1, <2>2 DEF FinalPass
<1>5. ASSUME \A c \in Consumers : Ended(c), early = 0, NEW v \in Accepted
      PROVE  \E c \in Consumers : Receivers(v) = {c}
  <2>1. ASSUME NEW r \in LaneRings PROVE ring[r].q = <<>>
    <3>1. CASE r \in ToSet(abandoned)
      BY <1>1, <1>5, <3>1 DEF LanesFinal
    <3>2. ASSUME NEW c \in Consumers, r \in ToSet(con[c].lanes) PROVE ring[r].q = <<>>
      <4>1. PICK x \in DOMAIN con[c].lanes : r = con[c].lanes[x]
        BY <3>2 DEF ToSet
      <4>2. con[c].lanes # <<>>
        BY <1>3, <4>1
      <4>3. con[c].pc = "ended"
        BY <1>3, <1>5, <4>2 DEF LaneState, Ended
      <4> QED
        BY <1>4, <4>1, <4>3
    <3> QED
      BY <1>1, <3>1, <3>2 DEF LanesFinal
  <2>2. \A c \in Consumers : Place[Bag(c)] = got[c]
    <3> TAKE c \in Consumers
    <3>1. con[c].staging = <<>>
      BY <1>3, <1>5 DEF LaneState, Ended
    <3>2. got[c] \o <<>> = got[c]
      BY <1>3, ConcatEmptySeq
    <3> QED
      BY <1>1, <3>1, <3>2, PlaceIs
  <2>3. DOMAIN Place = Places
    BY <1>1, PlaceIs
  <2>4. PICK x \in Places : v \in ToSet(Place[x])
    BY <1>1, <1>5, <2>3, SpreadIs DEF LanesKept
  <2>5. x \notin LaneRings
    BY <1>1, <2>1, <2>4, PlaceIs, EmptyIs
  <2>6. PICK c \in Consumers : x = Bag(c)
    BY <2>5, PlacesAre
  <2>7. v \in ToSet(got[c])
    BY <2>2, <2>4, <2>6
  <2>8. \A d \in Consumers : d # c => v \notin ToSet(got[d])
    <3> TAKE d \in Consumers
    <3>1. Bag(d) \in Places /\ Bag(c) \in Places /\ (d # c => Bag(d) # Bag(c))
      BY PlacesAre
    <3> QED
      BY <1>1, <2>2, <2>3, <2>7, <3>1 DEF OneEach
  <2>9. Receivers(v) = {c}
    BY <1>2, <2>7, <2>8 DEF Receivers
  <2> QED
    BY <2>9
<1> QED
  BY <1>2, <1>4, <1>5 DEF NothingStranded

-----------------------------------------------------------------------------
(* The steps of a brokered channel.                                        *)

LEMMA RingsAre ==
  /\ \A p \in Producers : InRing(p) \in BrokeredRings /\ InRing(p)[1] = "in" /\ InRing(p)[2] = p
  /\ \A b \in Brokers, c \in Consumers : OutRing(b, c) \in BrokeredRings /\ OutRing(b, c)[1] = "out" /\ OutRing(b, c)[2] = b
  /\ \A p \in Producers, b \in Brokers, c \in Consumers : InRing(p) # OutRing(b, c)
  /\ \A p, q \in Producers : InRing(p) = InRing(q) => p = q
  /\ \A b, a \in Brokers, c, d \in Consumers : OutRing(b, c) = OutRing(a, d) => b = a /\ c = d
  /\ \A r \in BrokeredRings : \/ \E p \in Producers : r = InRing(p)
                              \/ \E b \in Brokers, c \in Consumers : r = OutRing(b, c)
  BY DEF BrokeredRings, InRing, OutRing

LEMMA BrokerOfIs ==
  ASSUME decl.brokers \in Nat \ {0}, decl.producers \in Nat
  PROVE  /\ \A p \in Producers : BrokerOf(p) \in Brokers /\ p \in Inbound(BrokerOf(p))
         /\ \A b : \A p \in Inbound(b) : p \in Producers /\ BrokerOf(p) = b
<1>1. ASSUME NEW p \in Producers PROVE BrokerOf(p) \in Brokers
  <2>1. p \in Int
    BY DEF Producers
  <2>2. (p - 1) % decl.brokers \in 0 .. decl.brokers - 1
    BY <2>1, SMT
  <2> DEFINE x == (p - 1) % decl.brokers
  <2>3. x \in 0 .. decl.brokers - 1
    BY <2>2
  <2> HIDE DEF x
  <2>4. x + 1 \in 1 .. decl.brokers
    BY <2>3
  <2> QED
    BY <2>4 DEF BrokerOf, Brokers, x
<1> QED
  BY <1>1 DEF Inbound

\* What the type says of the parts.
LEMMA BrokeredParts ==
  ASSUME BrokeredType
  PROVE  /\ decl.producers \in Nat \ {0} /\ decl.consumers \in Nat \ {0} /\ decl.brokers \in Nat \ {0}
         /\ decl.batch \in Nat \ {0} /\ early \in Nat /\ live_producers = Cardinality(Alive)
         /\ ring \in [BrokeredRings -> RingState] /\ prod \in [Producers -> ProducerState]
         /\ con \in [Consumers -> ConsumerState(BrokeredRings)] /\ got \in [Consumers -> Seq(Values)]
         /\ broker \in [Brokers -> BrokerState]
         /\ \A r \in BrokeredRings : ring[r] \in RingState /\ ring[r].q \in Seq(Values) /\ Len(ring[r].q) \in Nat
         /\ \A c \in Consumers : con[c] \in ConsumerState(BrokeredRings) /\ got[c] \in Seq(Values) /\ ConsumerFit(c)
         /\ \A b \in Brokers : broker[b] \in BrokerState /\ BrokerFit(b)
         /\ DOMAIN prod = Producers /\ DOMAIN con = Consumers /\ DOMAIN broker = Brokers /\ DOMAIN ring = BrokeredRings
<1>1. \A r \in BrokeredRings : ring[r] \in RingState /\ ring[r].q \in Seq(Values)
  BY DEF BrokeredType, GridType, RingState
<1>2. \A r \in BrokeredRings : Len(ring[r].q) \in Nat
  BY <1>1
<1> QED
  BY <1>1, <1>2 DEF BrokeredType, GridType

\* A step that is no broker's, or one that leaves the endpoints.
NoBroker   == UNCHANGED <<broker, due, panicked>>
NoConsumer == UNCHANGED <<con, got, early>>
NoProducer == UNCHANGED <<prod, live_producers>>

\* send and try_send: the value goes in, or the call returns without.
LEMMA BrokeredSendIs ==
  ASSUME BrokeredType, NEW p \in Producers, BrokeredSend(p)
  PROVE  /\ prod[p].pc = "send" /\ prod' \in [Producers -> ProducerState]
         /\ \A q \in Producers : prod'[q].pc = "gone" <=> prod[q].pc = "gone"
         /\ UNCHANGED live_producers /\ NoConsumer /\ NoBroker
         /\ \/ ring' = ring /\ \A q \in Producers : prod'[q].next = prod[q].next
            \/ /\ prod'[p].next = prod[p].next + 1 /\ \A q \in Producers : q # p => prod'[q].next = prod[q].next
               /\ ring' \in [BrokeredRings -> RingState]
               /\ ring'[InRing(p)] = [ring[InRing(p)] EXCEPT !.q = ring[InRing(p)].q \o Fresh(p, 1)]
               /\ \A o \in BrokeredRings : o # InRing(p) => ring'[o] = ring[o]
<1> DEFINE r == InRing(p)
<1>1. /\ prod[p] \in ProducerState /\ prod \in [Producers -> ProducerState] /\ ring \in [BrokeredRings -> RingState]
      /\ r \in BrokeredRings /\ ring[r].q \in Seq(Values)
  BY BrokeredParts, RingsAre
<1>2. /\ prod[p].pc = "send" /\ UNCHANGED live_producers /\ NoConsumer /\ NoBroker
      /\ \/ ReturnFromSend(p, 0) /\ UNCHANGED ring
         \/ PushValues(p, r, 1) /\ ReturnFromSend(p, 1)
  BY DEF BrokeredSend, NoConsumer, NoBroker, NoLanes
<1>3. ASSUME NEW k \in {0, 1}, ReturnFromSend(p, k)
      PROVE  /\ prod' \in [Producers -> ProducerState] /\ prod'[p].next = prod[p].next + k
             /\ \A q \in Producers : q # p => prod'[q].next = prod[q].next
             /\ \A q \in Producers : prod'[q].pc = "gone" <=> prod[q].pc = "gone"
  <2> DEFINE s == Returned(prod[p], k)
  <2>1. prod' = [prod EXCEPT ![p] = s]
    BY <1>3 DEF ReturnFromSend
  <2>2. s \in ProducerState /\ s.next = prod[p].next + k /\ s.pc = "idle"
    BY <1>1, ReturnedIs
  <2> HIDE DEF s
  <2> QED
    BY <1>1, <1>2, <2>1, <2>2
<1>4. CASE ReturnFromSend(p, 0) /\ UNCHANGED ring
  <2>1. /\ prod' \in [Producers -> ProducerState] /\ prod'[p].next = prod[p].next + 0
        /\ \A q \in Producers : q # p => prod'[q].next = prod[q].next
        /\ \A q \in Producers : prod'[q].pc = "gone" <=> prod[q].pc = "gone"
    BY <1>3, <1>4
  <2>2. prod[p].next + 0 = prod[p].next
    BY <1>1 DEF ProducerState
  <2> QED
    BY <1>2, <1>4, <2>1, <2>2
<1>5. CASE PushValues(p, r, 1) /\ ReturnFromSend(p, 1)
  <2> DEFINE w == ring[r].q \o Fresh(p, 1)
  <2>1. ring' = [ring EXCEPT ![r].q = w]
    BY <1>1, <1>5 DEF PushValues, Fresh
  <2>2. w \in Seq(Values)
    <3>1. Fresh(p, 1) \in Seq(Values)
      BY <1>1, FreshIs
    <3> QED
      BY <1>1, <3>1, ConcatIs
  <2> HIDE DEF w, r
  <2>3. /\ ring' \in [BrokeredRings -> RingState] /\ ring'[r] = [ring[r] EXCEPT !.q = w]
        /\ \A o \in BrokeredRings : o # r => ring'[o] = ring[o]
    BY <1>1, <2>1, <2>2, SetQueue
  <2>4. /\ prod' \in [Producers -> ProducerState] /\ prod'[p].next = prod[p].next + 1
        /\ \A q \in Producers : q # p => prod'[q].next = prod[q].next
        /\ \A q \in Producers : prod'[q].pc = "gone" <=> prod[q].pc = "gone"
    BY <1>3, <1>5
  <2> QED
    BY <1>2, <2>3, <2>4 DEF w, r
<1> QED
  BY <1>2, <1>4, <1>5

\* A consumer's call that takes nothing.
Waits(c) ==
  /\ con' \in [Consumers -> ConsumerState(BrokeredRings)] /\ \A d \in Consumers : d # c => con'[d] = con[d]
  /\ con'[c].lanes = con[c].lanes /\ con'[c].staging = con[c].staging

LEMMA ReceivedIs ==
  ASSUME NEW R, NEW s \in ConsumerState(R), NEW pc \in {"idle", "scan", "ended"}
  PROVE  /\ Received(s, pc) \in ConsumerState(R) /\ Received(s, pc).pc = pc
         /\ Received(s, pc).lanes = s.lanes /\ Received(s, pc).staging = s.staging
<1>1. Received(s, pc) \in ConsumerState(R)
  BY DEF Received, ConsumerState, LanesCalls
<1>2. Received(s, pc).pc = pc /\ Received(s, pc).lanes = s.lanes /\ Received(s, pc).staging = s.staging
  BY DEF Received, ConsumerState
<1> QED
  BY <1>1, <1>2

LEMMA BrokeredBeginIs ==
  ASSUME BrokeredType, NEW c \in Consumers, BrokeredBegin(c)
  PROVE  /\ opened = "open" /\ con[c].pc = "idle" /\ Waits(c) /\ con'[c].pc = "scan"
         /\ UNCHANGED <<ring, got, early>> /\ NoBroker /\ NoProducer
<1> DEFINE s == con[c]
           t == [s EXCEPT !.pc = "scan", !.looked = 0]
<1>1. s \in ConsumerState(BrokeredRings) /\ con \in [Consumers -> ConsumerState(BrokeredRings)]
  BY BrokeredParts
<1>2. /\ opened = "open" /\ s.pc = "idle" /\ con' = [con EXCEPT ![c] = t]
      /\ UNCHANGED <<ring, got, early>> /\ NoBroker /\ NoProducer
  BY DEF BrokeredBegin, NoBroker, NoProducer
<1>3. t \in ConsumerState(BrokeredRings)
  BY <1>1 DEF ConsumerState
<1>4. t.pc = "scan" /\ t.lanes = s.lanes /\ t.staging = s.staging
  BY <1>1 DEF ConsumerState
<1> HIDE DEF t
<1> QED
  BY <1>1, <1>2, <1>3, <1>4 DEF Waits

LEMMA BrokeredFinishedIs ==
  ASSUME BrokeredType, NEW c \in Consumers, BrokeredFinished(c)
  PROVE  /\ con[c].pc = "finished" /\ Waits(c) /\ con'[c].pc \in {"scan", "ended"}
         /\ con'[c].pc = "ended" => \A b \in Brokers : ring[OutRing(b, c)].wgone /\ ring[OutRing(b, c)].q = <<>>
         /\ UNCHANGED <<ring, got, early>> /\ NoBroker /\ NoProducer
<1> DEFINE s == con[c]
           over == \A i \in DOMAIN s.lanes : IsFinished(s.lanes[i])
           pc == IF over THEN "ended" ELSE "scan"
           t == Received(s, pc)
<1>1. s \in ConsumerState(BrokeredRings) /\ con \in [Consumers -> ConsumerState(BrokeredRings)]
  BY BrokeredParts
<1>2. /\ s.pc = "finished" /\ con' = [con EXCEPT ![c] = t]
      /\ UNCHANGED <<ring, got, early>> /\ NoBroker /\ NoProducer
  BY DEF BrokeredFinished, NoBroker, NoProducer
<1>3. pc \in {"scan", "ended"} /\ (pc = "ended" => over)
  OBVIOUS
<1>4. over => \A b \in Brokers : ring[OutRing(b, c)].wgone /\ ring[OutRing(b, c)].q = <<>>
  <2>1. s.lanes = [b \in Brokers |-> OutRing(b, c)]
    BY BrokeredParts DEF ConsumerFit
  <2> QED
    BY <2>1 DEF IsFinished
<1> HIDE DEF over, pc
<1>5. t \in ConsumerState(BrokeredRings) /\ t.pc = pc /\ t.lanes = s.lanes /\ t.staging = s.staging
  BY <1>1, <1>3, ReceivedIs
<1> HIDE DEF t
<1>6. Waits(c) /\ con'[c].pc = pc
  BY <1>1, <1>2, <1>5 DEF Waits
<1> QED
  BY <1>2, <1>3, <1>4, <1>6

\* One ring of a consumer: its first value is taken, or it is passed.
LEMMA BrokeredScanIs ==
  ASSUME BrokeredType, NEW c \in Consumers, BrokeredScan(c)
  PROVE  /\ con[c].pc = "scan" /\ Waits(c) /\ UNCHANGED early /\ NoBroker /\ NoProducer
         /\ \/ UNCHANGED <<ring, got>> /\ con'[c].pc \in {"scan", "finished"}
            \/ /\ con'[c].pc = "idle"
               /\ \E b \in Brokers :
                    LET r == OutRing(b, c)  q == ring[r].q IN
                    /\ q # <<>> /\ ring' \in [BrokeredRings -> RingState] /\ ring'[r] = [ring[r] EXCEPT !.q = Tail(q)]
                    /\ \A o \in BrokeredRings : o # r => ring'[o] = ring[o]
                    /\ got' \in [Consumers -> Seq(Values)] /\ got'[c] = Append(got[c], Head(q))
                    /\ \A d \in Consumers : d # c => got'[d] = got[d]
<1> DEFINE s == con[c]
           i == Index(s.cursor, Len(s.lanes))
           b == i + 1
           r == s.lanes[b]
           q == ring[r].q
<1>1. /\ s \in ConsumerState(BrokeredRings) /\ con \in [Consumers -> ConsumerState(BrokeredRings)]
      /\ s.lanes = [x \in Brokers |-> OutRing(x, c)] /\ decl.brokers \in Nat \ {0}
      /\ got \in [Consumers -> Seq(Values)] /\ ring \in [BrokeredRings -> RingState]
  BY BrokeredParts DEF ConsumerFit
<1>2. Len(s.lanes) = decl.brokers /\ s.cursor \in Nat /\ s.looked \in Nat
  <2>1. s.lanes \in Seq(BrokeredRings) /\ s.cursor \in Nat /\ s.looked \in Nat
    BY <1>1 DEF ConsumerState
  <2>2. DOMAIN s.lanes = 1 .. decl.brokers
    BY <1>1 DEF Brokers
  <2> QED
    BY <1>1, <2>1, <2>2
<1>3. i \in 0 .. decl.brokers - 1
  BY <1>1, <1>2, IndexIs
<1>4. /\ s.pc = "scan" /\ UNCHANGED early /\ NoBroker /\ NoProducer
      /\ \/ /\ q # <<>> /\ ring' = [ring EXCEPT ![r].q = Tail(q)] /\ got' = [got EXCEPT ![c] = Append(got[c], Head(q))]
            /\ con' = [con EXCEPT ![c] = [Received(s, "idle") EXCEPT !.cursor = b]]
         \/ /\ UNCHANGED <<ring, got>>
            /\ con' = [con EXCEPT ![c].cursor = b, ![c].looked = @ + 1,
                                  ![c].pc = IF s.looked + 1 = Len(s.lanes) THEN "finished" ELSE "scan"]
  BY <1>1 DEF BrokeredScan, NoBroker, NoProducer
<1> HIDE DEF i
<1>5. b \in Brokers /\ b \in Nat
  BY <1>1, <1>3 DEF Brokers
<1> HIDE DEF b
<1>6. r = OutRing(b, c) /\ r \in BrokeredRings
  BY <1>1, <1>5, RingsAre
<1> HIDE DEF r
<1>7. q \in Seq(Values)
  BY <1>6, BrokeredParts
<1> HIDE DEF q
<1>8. CASE /\ q # <<>> /\ ring' = [ring EXCEPT ![r].q = Tail(q)] /\ got' = [got EXCEPT ![c] = Append(got[c], Head(q))]
           /\ con' = [con EXCEPT ![c] = [Received(s, "idle") EXCEPT !.cursor = b]]
  <2> DEFINE u == Received(s, "idle")
             t == [u EXCEPT !.cursor = b]
             h == Tail(q)
             g == Append(got[c], Head(q))
  <2>1. u \in ConsumerState(BrokeredRings) /\ u.pc = "idle" /\ u.lanes = s.lanes /\ u.staging = s.staging
    BY <1>1, ReceivedIs
  <2>2. con' = [con EXCEPT ![c] = t] /\ ring' = [ring EXCEPT ![r].q = h] /\ got' = [got EXCEPT ![c] = g]
    BY <1>8
  <2> HIDE DEF u
  <2>3. t \in ConsumerState(BrokeredRings)
    BY <1>5, <2>1 DEF ConsumerState
  <2>4. t.pc = "idle" /\ t.lanes = s.lanes /\ t.staging = s.staging
    BY <2>1 DEF ConsumerState
  <2> HIDE DEF t
  <2>5. h \in Seq(Values) /\ g \in Seq(Values)
    BY <1>1, <1>7, <1>8
  <2> HIDE DEF h, g
  <2>6. /\ ring' \in [BrokeredRings -> RingState] /\ ring'[r] = [ring[r] EXCEPT !.q = h]
        /\ \A o \in BrokeredRings : o # r => ring'[o] = ring[o]
    <3>1. /\ ring' = [ring EXCEPT ![r].q = h] /\ h \in Seq(Values) /\ r \in BrokeredRings
          /\ ring \in [BrokeredRings -> RingState]
      BY <1>1, <1>6, <2>2, <2>5
    <3> QED
      BY <3>1, SetQueue
  <2>7. got' \in [Consumers -> Seq(Values)] /\ got'[c] = g /\ \A d \in Consumers : d # c => got'[d] = got[d]
    BY <1>1, <2>2, <2>5
  <2>8. Waits(c) /\ con'[c].pc = "idle"
    BY <1>1, <2>2, <2>3, <2>4 DEF Waits
  <2>9. /\ q # <<>> /\ q = ring[OutRing(b, c)].q
    BY <1>6, <1>8 DEF q
  <2> QED
    BY <1>4, <1>5, <1>6, <2>6, <2>7, <2>8, <2>9 DEF h, g
<1>9. CASE /\ UNCHANGED <<ring, got>>
           /\ con' = [con EXCEPT ![c].cursor = b, ![c].looked = @ + 1,
                                 ![c].pc = IF s.looked + 1 = Len(s.lanes) THEN "finished" ELSE "scan"]
  <2> DEFINE n == s.looked + 1
             pc == IF s.looked + 1 = Len(s.lanes) THEN "finished" ELSE "scan"
             t == [s EXCEPT !.cursor = b, !.looked = n, !.pc = pc]
  <2>1. con' = [con EXCEPT ![c] = t]
    BY <1>1, <1>9 DEF ConsumerState
  <2>2. n \in Nat /\ pc \in {"scan", "finished"}
    BY <1>2
  <2> HIDE DEF n, pc
  <2>3. t \in ConsumerState(BrokeredRings)
    BY <1>1, <1>5, <2>2 DEF ConsumerState
  <2>4. t.pc = pc /\ t.lanes = s.lanes /\ t.staging = s.staging
    BY <1>1 DEF ConsumerState
  <2> HIDE DEF t
  <2>5. Waits(c) /\ con'[c].pc = pc
    BY <1>1, <2>1, <2>3, <2>4 DEF Waits
  <2> QED
    BY <1>4, <1>9, <2>2, <2>5
<1> QED
  BY <1>4, <1>8, <1>9

\* A consumer is dropped: its rings lose their reader and what they hold.
LEMMA BrokeredDropIs ==
  ASSUME BrokeredType, NEW c \in Consumers, BrokeredConsumerDrop(c)
  PROVE  /\ opened = "open" /\ con[c].pc \in {"idle", "ended"} /\ Waits(c) /\ con'[c].pc = "gone"
         /\ got' = got /\ NoBroker /\ NoProducer
         /\ early' \in Nat /\ (con[c].pc = "idle" => early' # 0) /\ (con[c].pc = "ended" => early' = early)
         /\ ring' \in [BrokeredRings -> RingState]
         /\ \A b \in Brokers : ring'[OutRing(b, c)] = [ring[OutRing(b, c)] EXCEPT !.rgone = TRUE, !.q = <<>>]
         /\ \A o \in BrokeredRings : (\A b \in Brokers : o # OutRing(b, c)) => ring'[o] = ring[o]
<1> DEFINE s == con[c]
           t == [s EXCEPT !.pc = "gone"]
           New2(r) == [ring[r] EXCEPT !.rgone = TRUE, !.q = <<>>]
<1>1. /\ s \in ConsumerState(BrokeredRings) /\ con \in [Consumers -> ConsumerState(BrokeredRings)]
      /\ s.lanes = [x \in Brokers |-> OutRing(x, c)] /\ early \in Nat
      /\ ring \in [BrokeredRings -> RingState] /\ DOMAIN ring = BrokeredRings
  BY BrokeredParts DEF ConsumerFit
<1>2. /\ opened = "open" /\ s.pc \in {"idle", "ended"} /\ con' = [con EXCEPT ![c] = t]
      /\ got' = got /\ NoBroker /\ NoProducer /\ early' = IF s.pc = "idle" THEN early + 1 ELSE early
      /\ ring' = [r \in BrokeredRings |-> IF r \in ToSet(s.lanes) THEN New2(r) ELSE ring[r]]
  BY <1>1 DEF BrokeredConsumerDrop, NoBroker, NoProducer
<1>3. t \in ConsumerState(BrokeredRings)
  BY <1>1 DEF ConsumerState
<1>4. t.pc = "gone" /\ t.lanes = s.lanes /\ t.staging = s.staging
  BY <1>1 DEF ConsumerState
<1> HIDE DEF t
<1>5. Waits(c) /\ con'[c].pc = "gone"
  BY <1>1, <1>2, <1>3, <1>4 DEF Waits
<1>6. \A r \in BrokeredRings : New2(r) \in RingState
  <2>1. <<>> \in Seq(Values)
    OBVIOUS
  <2> QED
    BY <1>1, <2>1, ZenonT(60) DEF RingState
<1>7. \A r : r \in ToSet(s.lanes) <=> \E b \in Brokers : r = OutRing(b, c)
  BY <1>1 DEF ToSet
<1> HIDE DEF New2
<1>8. ring' \in [BrokeredRings -> RingState]
  BY <1>1, <1>2, <1>6
<1>9. \A b \in Brokers : ring'[OutRing(b, c)] = New2(OutRing(b, c))
  BY <1>2, <1>7, RingsAre
<1>10. \A o \in BrokeredRings : (\A b \in Brokers : o # OutRing(b, c)) => ring'[o] = ring[o]
  BY <1>2, <1>7
<1>11. early' \in Nat /\ (s.pc = "idle" => early' # 0) /\ (s.pc = "ended" => early' = early)
  BY <1>1, <1>2
<1> QED
  BY <1>2, <1>5, <1>8, <1>9, <1>10, <1>11 DEF New2

\* A step of broker b's thread, which leaves the endpoints of the others.
BrokerOnly(b) ==
  /\ broker' \in [Brokers -> BrokerState] /\ \A a \in Brokers : a # b => broker'[a] = broker[a]
  /\ NoConsumer /\ NoProducer

LEMMA SetIs ==
  ASSUME BrokeredType, NEW b \in Brokers, NEW s \in BrokerState, Set(b, s)
  PROVE  /\ broker' \in [Brokers -> BrokerState] /\ broker'[b] = s /\ \A a \in Brokers : a # b => broker'[a] = broker[a]
<1>1. broker \in [Brokers -> BrokerState]
  BY BrokeredParts
<1> QED
  BY <1>1 DEF Set

\* One ring of a sweep.
LEMMA DrainIs ==
  ASSUME BrokeredType, NEW b \in Brokers, Drain(b)
  PROVE  LET s == broker[b]  t == broker'[b] IN
         /\ BrokerOnly(b) /\ UNCHANGED <<ring, due, panicked>> /\ s.pc = "sweep"
         /\ t.i = s.i /\ t.final = s.final /\ t.moved = s.moved /\ t.gone = s.gone /\ t.targets = s.targets
         /\ \E p \in s.sweep :
              /\ t.sweep = s.sweep \ {p}
              /\ \/ t.pc = "sweep" /\ ring[InRing(p)].q = <<>>
                 \/ t.pc = "deliver" /\ t.at = p /\ t.n <= Len(ring[InRing(p)].q)
<1> DEFINE s == broker[b]
           p == Min(s.sweep)
           len == Len(ring[InRing(p)].q)
           n == IF s.final THEN len ELSE Lesser(decl.batch, len)
           at == IF n = 0 THEN 0 ELSE p
           pc == IF n = 0 THEN "sweep" ELSE "deliver"
           w == s.sweep \ {p}
           t == [s EXCEPT !.sweep = w, !.at = at, !.n = n, !.pc = pc]
<1>1. s.pc = "sweep" /\ s.sweep # {} /\ Set(b, t) /\ NoConsumer /\ NoProducer /\ UNCHANGED <<ring, due, panicked>>
  BY DEF Drain, NoConsumer, NoProducer
<1>2. s \in BrokerState /\ s.sweep \subseteq Producers /\ decl.batch \in Nat \ {0} /\ decl.producers \in Nat
  <2>1. s \in BrokerState /\ decl.batch \in Nat \ {0} /\ decl.producers \in Nat
    BY BrokeredParts
  <2> QED
    BY <2>1 DEF BrokerState
<1>3. p \in s.sweep /\ p \in Producers /\ p \in Nat
  <2>1. s.sweep \subseteq Nat
    BY <1>2 DEF Producers
  <2>2. p \in s.sweep
    BY <1>1, <2>1, LeastNatural
  <2> QED
    BY <1>2, <2>1, <2>2
<1> HIDE DEF p
<1>4. len \in Nat /\ ring[InRing(p)].q \in Seq(Values)
  BY <1>3, BrokeredParts, RingsAre
<1>5. n \in Nat /\ n <= len /\ (n = 0 => len = 0)
  BY <1>2, <1>4 DEF Lesser
<1>6. len = 0 => ring[InRing(p)].q = <<>>
  BY <1>4
<1>7. at \in Nat /\ pc \in {"sweep", "deliver"} /\ w \subseteq Producers
  BY <1>2, <1>3, <1>5
<1>8. (n = 0 /\ pc = "sweep") \/ (pc = "deliver" /\ at = p)
  OBVIOUS
<1> HIDE DEF n, at, pc, w
<1>9. t \in BrokerState
  BY <1>2, <1>5, <1>7 DEF BrokerState
<1>10. /\ t.i = s.i /\ t.final = s.final /\ t.moved = s.moved /\ t.gone = s.gone /\ t.targets = s.targets
       /\ t.sweep = w /\ t.pc = pc /\ t.at = at /\ t.n = n
  BY <1>2 DEF BrokerState
<1> HIDE DEF t
<1>11. BrokerOnly(b) /\ broker'[b] = t
  BY <1>1, <1>9, SetIs DEF BrokerOnly
<1> QED
  BY <1>1, <1>3, <1>5, <1>6, <1>8, <1>10, <1>11 DEF w, len

\* A broker ends: the values in its producers' rings are dropped, and its
\* consumers see their producer gone.
Ends(b) ==
  /\ broker'[b] = Finished /\ ring' \in [BrokeredRings -> RingState]
  /\ \A p \in Producers : ring'[InRing(p)].q = IF BrokerOf(p) = b THEN <<>> ELSE ring[InRing(p)].q
  /\ \A a \in Brokers, c \in Consumers :
       /\ ring'[OutRing(a, c)].q = ring[OutRing(a, c)].q
       /\ ring'[OutRing(a, c)].rgone = ring[OutRing(a, c)].rgone
       /\ ring'[OutRing(a, c)].wgone <=> ring[OutRing(a, c)].wgone \/ a = b

LEMMA EndsIs ==
  ASSUME BrokeredType, NEW b \in Brokers, Set(b, Finished), DropBrokers({b})
  PROVE  /\ broker' \in [Brokers -> BrokerState] /\ \A a \in Brokers : a # b => broker'[a] = broker[a]
         /\ Ends(b)
<1> DEFINE Cut(r) == [ring[r] EXCEPT !.rgone = TRUE, !.q = <<>>]
           Shut(r) == [ring[r] EXCEPT !.wgone = TRUE]
           I(r) == \E p \in Producers : r = InRing(p) /\ BrokerOf(p) = b
           O(r) == \E c \in Consumers : r = OutRing(b, c)
<1>1. ring \in [BrokeredRings -> RingState] /\ DOMAIN ring = BrokeredRings
  BY BrokeredParts
<1>2. \A r \in BrokeredRings : /\ Cut(r) \in RingState /\ Cut(r).q = <<>>
                               /\ Shut(r) \in RingState /\ Shut(r).q = ring[r].q
                               /\ Shut(r).wgone = TRUE /\ Shut(r).rgone = ring[r].rgone
  <2>1. <<>> \in Seq(Values)
    OBVIOUS
  <2>2. \A r \in BrokeredRings : Cut(r) \in RingState
    BY <1>1, <2>1 DEF RingState
  <2>3. \A r \in BrokeredRings : Shut(r) \in RingState
    BY <1>1 DEF RingState
  <2>4. \A r \in BrokeredRings : Cut(r).q = <<>> /\ Shut(r).q = ring[r].q
                                 /\ Shut(r).wgone = TRUE /\ Shut(r).rgone = ring[r].rgone
    BY <1>1 DEF RingState
  <2> QED
    BY <2>2, <2>3, <2>4
<1>3. ring' = [r \in BrokeredRings |-> IF I(r) THEN Cut(r) ELSE IF O(r) THEN Shut(r) ELSE ring[r]]
  BY <1>1 DEF DropBrokers
<1>4. \A p \in Producers : (I(InRing(p)) <=> BrokerOf(p) = b) /\ ~O(InRing(p)) /\ InRing(p) \in BrokeredRings
  BY RingsAre
<1>5. \A a \in Brokers, c \in Consumers :
        ~I(OutRing(a, c)) /\ (O(OutRing(a, c)) <=> a = b) /\ OutRing(a, c) \in BrokeredRings
  BY RingsAre
<1>6. Finished \in BrokerState
  BY DEF Finished, IdleBroker, BrokerState
<1> HIDE DEF Cut, Shut, I, O
<1>7. ring' \in [BrokeredRings -> RingState]
  BY <1>1, <1>2, <1>3
<1>8. \A p \in Producers : ring'[InRing(p)].q = IF BrokerOf(p) = b THEN <<>> ELSE ring[InRing(p)].q
  BY <1>2, <1>3, <1>4
<1>9. ASSUME NEW a \in Brokers, NEW c \in Consumers
      PROVE  /\ ring'[OutRing(a, c)].q = ring[OutRing(a, c)].q
             /\ ring'[OutRing(a, c)].rgone = ring[OutRing(a, c)].rgone
             /\ ring'[OutRing(a, c)].wgone <=> ring[OutRing(a, c)].wgone \/ a = b
  <2> DEFINE r == OutRing(a, c)
  <2>1. r \in BrokeredRings /\ ring'[r] = IF a = b THEN Shut(r) ELSE ring[r]
    BY <1>3, <1>5
  <2>2. Shut(r).wgone = TRUE /\ Shut(r).rgone = ring[r].rgone /\ Shut(r).q = ring[r].q /\ ring[r].wgone \in BOOLEAN
    BY <1>1, <1>2, <2>1 DEF RingState
  <2> HIDE DEF r
  <2> QED
    BY <2>1, <2>2 DEF r
<1> QED
  BY <1>6, <1>7, <1>8, <1>9, SetIs DEF Ends

\* The end of a sweep: the broker goes round again or ends.
LEMMA SweptIs ==
  ASSUME BrokeredType, NEW b \in Brokers, Swept(b)
  PROVE  LET s == broker[b]  t == broker'[b] IN
         /\ BrokerOnly(b) /\ UNCHANGED <<due, panicked>> /\ s.pc = "sweep" /\ s.sweep = {}
         /\ \/ ~s.moved /\ s.final /\ Ends(b)
            \/ /\ ring' = ring /\ t.i = s.i /\ t.gone = s.gone /\ t.targets = s.targets
               /\ t.pc = "sweep" /\ t.sweep = Inbound(b) /\ (t.final => live_producers = 0)
<1> DEFINE s == broker[b]
           f == ~s.moved /\ live_producers = 0
           t == Sweep(s, b, f)
<1>1. /\ s.pc = "sweep" /\ s.sweep = {} /\ NoConsumer /\ NoProducer /\ UNCHANGED <<due, panicked>>
      /\ \/ ~s.moved /\ s.final /\ Set(b, Finished) /\ DropBrokers({b})
         \/ Set(b, t) /\ ring' = ring
  BY DEF Swept, NoConsumer, NoProducer
<1>2. s \in BrokerState /\ f \in BOOLEAN /\ Inbound(b) \subseteq Producers
  BY BrokeredParts DEF Inbound
<1>3. f => live_producers = 0
  OBVIOUS
<1> HIDE DEF f
<1>4. t \in BrokerState
  BY <1>2 DEF Sweep, BrokerState
<1>5. /\ t.i = s.i /\ t.gone = s.gone /\ t.targets = s.targets
      /\ t.pc = "sweep" /\ t.sweep = Inbound(b) /\ t.final = f
  BY <1>2 DEF Sweep, BrokerState
<1> HIDE DEF t
<1>6. CASE ~s.moved /\ s.final /\ Set(b, Finished) /\ DropBrokers({b})
  BY <1>1, <1>6, EndsIs DEF BrokerOnly
<1>7. CASE Set(b, t) /\ ring' = ring
  <2>1. BrokerOnly(b) /\ broker'[b] = t
    BY <1>1, <1>4, <1>7, SetIs DEF BrokerOnly
  <2> QED
    BY <1>1, <1>3, <1>5, <1>7, <2>1
<1> QED
  BY <1>1, <1>6, <1>7

\* The routing closure or a clone panics.
LEMMA PolicyPanicsIs ==
  ASSUME BrokeredType, NEW b \in Brokers, PolicyPanics(b)
  PROVE  BrokerOnly(b) /\ due' = due /\ panicked' = TRUE /\ broker[b].pc \in Moving /\ Ends(b)
<1>1. /\ broker[b].pc \in Moving /\ Set(b, Finished) /\ DropBrokers({b}) /\ panicked' = TRUE /\ due' = due
      /\ NoConsumer /\ NoProducer
  BY DEF PolicyPanics, Moving, NoConsumer, NoProducer
<1> QED
  BY <1>1, EndsIs DEF BrokerOnly

-----------------------------------------------------------------------------
\* A broker stays at its place in the ring it drains.
SamePlace(b) ==
  LET s == broker[b]  t == broker'[b] IN
  t.at = s.at /\ t.n = s.n /\ t.sweep = s.sweep /\ t.final = s.final /\ t.moved = s.moved

\* It goes on to the next value, or stays with this one.
Onward(b) ==
  LET s == broker[b]  t == broker'[b] IN
  SamePlace(b) /\ t.pc = "deliver" /\ t.i = s.i + 1 /\ t.targets = {} /\ t.gone = 0
Stays(b) ==
  LET s == broker[b]  t == broker'[b] IN
  SamePlace(b) /\ t.pc = "forward" /\ t.i = s.i

\* A broker that moves values is in a ring of its producers.
LEMMA MovingIs ==
  ASSUME BrokeredType, NEW b \in Brokers, broker[b].pc \in Moving
  PROVE  LET s == broker[b]  q == ring[InRing(s.at)].q IN
         /\ s.at \in Inbound(b) /\ s.at \in Producers /\ BrokerOf(s.at) = b /\ s.i \in Nat /\ s.n \in Nat
         /\ s.i <= s.n /\ s.n <= Len(q) /\ Len(q) \in Nat /\ q \in Seq(Values)
         /\ s.i < s.n => s.i + 1 \in DOMAIN q /\ Item(b) = q[s.i + 1] /\ Item(b) \in Values
         /\ s.pc = "forward" => s.i < s.n
<1> DEFINE s == broker[b]
           q == ring[InRing(s.at)].q
<1>1. /\ s.at \in Inbound(b) /\ s.i <= s.n /\ s.n <= Len(q) /\ s.i \in Nat /\ s.n \in Nat
      /\ s.pc = "forward" => s.i < s.n
  <2>1. s \in BrokerState /\ BrokerFit(b)
    BY BrokeredParts
  <2> QED
    BY <2>1 DEF BrokerFit, BrokerState
<1>2. s.at \in Producers /\ BrokerOf(s.at) = b
  BY <1>1 DEF Inbound
<1>3. q \in Seq(Values) /\ Len(q) \in Nat
  BY <1>2, BrokeredParts, RingsAre
<1> HIDE DEF q
<1>4. s.i < s.n => s.i + 1 \in 1 .. Len(q)
  BY <1>1, <1>3
<1>5. DOMAIN q = 1 .. Len(q) /\ \A j \in 1 .. Len(q) : q[j] \in Values
  BY <1>3
<1>6. Item(b) = q[s.i + 1]
  BY DEF Item, q
<1> QED
  BY <1>1, <1>2, <1>3, <1>4, <1>5, <1>6 DEF q

LEMMA PlacedIs ==
  ASSUME NEW s \in BrokerState
  PROVE  LET t == Placed(s) IN
         /\ t \in BrokerState /\ t.pc = "deliver" /\ t.i = s.i + 1 /\ t.targets = {} /\ t.gone = 0
         /\ t.at = s.at /\ t.n = s.n /\ t.sweep = s.sweep /\ t.final = s.final /\ t.moved = s.moved
<1> DEFINE i == s.i + 1
           t == [s EXCEPT !.pc = "deliver", !.i = i, !.targets = {}, !.tried = 0, !.gone = 0]
<1>1. i \in Nat
  BY DEF BrokerState
<1>2. Placed(s) = t
  BY DEF Placed
<1>3. {} \subseteq Consumers
  OBVIOUS
<1> HIDE DEF i
<1>4. t \in BrokerState
  BY <1>1, <1>3 DEF BrokerState
<1>5. /\ t.pc = "deliver" /\ t.i = i /\ t.targets = {} /\ t.gone = 0
      /\ t.at = s.at /\ t.n = s.n /\ t.sweep = s.sweep /\ t.final = s.final /\ t.moved = s.moved
  BY DEF BrokerState
<1> QED
  BY <1>2, <1>4, <1>5 DEF i

\* The policy picks the targets of a value.
LEMMA PickIs ==
  ASSUME BrokeredType, NEW b \in Brokers, Pick(b)
  PROVE  LET s == broker[b]  t == broker'[b] IN
         /\ BrokerOnly(b) /\ UNCHANGED <<ring, panicked>> /\ s.pc = "deliver" /\ s.i < s.n /\ Stays(b)
         /\ t.gone = 0 /\ t.targets \subseteq Consumers /\ Due(Item(b), t.targets)
         /\ decl.routing = "RoundRobin" => t.targets = {}
         /\ decl.routing = "Route" => \E c \in Consumers : t.targets = {c}
<1> DEFINE s == broker[b]
           Policy == CASE decl.routing = "RoundRobin" -> {{}}
                       [] decl.routing = "Route" -> {{c} : c \in Consumers}
                       [] decl.routing = "PubSub" -> SUBSET Consumers
           T(g) == [s EXCEPT !.pc = "forward", !.targets = g, !.tried = 0, !.gone = 0]
<1>1. /\ s.pc = "deliver" /\ s.i < s.n /\ UNCHANGED <<ring, panicked>> /\ NoConsumer /\ NoProducer
      /\ \E g \in Policy : Set(b, T(g)) /\ Due(Item(b), g)
  BY DEF Pick, NoConsumer, NoProducer
<1>2. PICK g \in Policy : Set(b, T(g)) /\ Due(Item(b), g)
  BY <1>1
<1>3. decl.routing \in {"RoundRobin", "Route", "PubSub"} /\ s \in BrokerState
  BY BrokeredParts DEF BrokeredType
<1>4. /\ g \subseteq Consumers /\ (decl.routing = "RoundRobin" => g = {})
      /\ decl.routing = "Route" => \E c \in Consumers : g = {c}
  <2>1. CASE decl.routing = "RoundRobin"
    BY <1>2, <2>1
  <2>2. CASE decl.routing = "Route"
    BY <1>2, <2>2
  <2>3. CASE decl.routing = "PubSub"
    BY <1>2, <2>3
  <2> QED
    BY <1>3, <2>1, <2>2, <2>3
<1> DEFINE t == T(g)
<1>5. t \in BrokerState
  BY <1>3, <1>4 DEF BrokerState
<1>6. /\ t.pc = "forward" /\ t.i = s.i /\ t.targets = g /\ t.gone = 0
      /\ t.at = s.at /\ t.n = s.n /\ t.sweep = s.sweep /\ t.final = s.final /\ t.moved = s.moved
  BY <1>3 DEF BrokerState
<1>7. Set(b, t)
  BY <1>2
<1> HIDE DEF t, T
<1>8. BrokerOnly(b) /\ broker'[b] = t
  BY <1>1, <1>5, <1>7, SetIs DEF BrokerOnly
<1>9. Stays(b)
  BY <1>6, <1>8 DEF Stays, SamePlace
<1> QED
  BY <1>1, <1>2, <1>4, <1>6, <1>8, <1>9

\* A value is pushed to a consumer.
Pushes(b, c) ==
  /\ ring' \in [BrokeredRings -> RingState]
  /\ ring'[OutRing(b, c)] = [ring[OutRing(b, c)] EXCEPT !.q = Append(ring[OutRing(b, c)].q, Item(b))]
  /\ \A o \in BrokeredRings : o # OutRing(b, c) => ring'[o] = ring[o]

LEMMA PushItemIs ==
  ASSUME BrokeredType, NEW b \in Brokers, NEW c \in Consumers, broker[b].pc = "forward", PushItem(b, c)
  PROVE  Pushes(b, c)
<1> DEFINE r == OutRing(b, c)
           w == Append(ring[r].q, Item(b))
<1>1. r \in BrokeredRings /\ ring \in [BrokeredRings -> RingState] /\ ring[r].q \in Seq(Values)
  BY BrokeredParts, RingsAre
<1>2. Item(b) \in Values
  BY MovingIs DEF Moving
<1>3. w \in Seq(Values)
  BY <1>1, <1>2, AppendIs
<1>4. ring' = [ring EXCEPT ![r].q = w]
  BY <1>1 DEF PushItem
<1> HIDE DEF r, w
<1>5. /\ ring' \in [BrokeredRings -> RingState] /\ ring'[r] = [ring[r] EXCEPT !.q = w]
      /\ \A o \in BrokeredRings : o # r => ring'[o] = ring[o]
  BY <1>1, <1>3, <1>4, SetQueue
<1> QED
  BY <1>5 DEF Pushes, r, w

\* forward_to one of the targets.
LEMMA ForwardToIs ==
  ASSUME BrokeredType, NEW b \in Brokers, ForwardTo(b)
  PROVE  LET s == broker[b]  t == broker'[b] IN
         /\ BrokerOnly(b) /\ UNCHANGED <<due, panicked>> /\ s.pc = "forward" /\ decl.routing # "RoundRobin"
         /\ \E c \in s.targets :
              /\ c \in Consumers
              /\ IF s.targets = {c} THEN Onward(b) ELSE Stays(b) /\ t.gone = s.gone /\ t.targets = s.targets \ {c}
              /\ \/ ring[OutRing(b, c)].rgone /\ ring' = ring
                 \/ Pushes(b, c)
<1> DEFINE s == broker[b]
           c == Min(s.targets)
           rest == s.targets \ {c}
           next == IF rest = {} THEN Placed(s) ELSE s
           t == [next EXCEPT !.targets = rest]
<1>1. /\ s.pc = "forward" /\ decl.routing # "RoundRobin" /\ s.targets # {} /\ Set(b, t)
      /\ (ring[OutRing(b, c)].rgone /\ ring' = ring) \/ PushItem(b, c)
      /\ UNCHANGED <<due, panicked>> /\ NoConsumer /\ NoProducer
  BY DEF ForwardTo, NoConsumer, NoProducer
<1>2. s \in BrokerState /\ s.targets \subseteq Consumers /\ decl.consumers \in Nat
  <2>1. s \in BrokerState /\ decl.consumers \in Nat
    BY BrokeredParts
  <2> QED
    BY <2>1 DEF BrokerState
<1>3. c \in s.targets /\ c \in Consumers
  <2>1. s.targets \subseteq Nat
    BY <1>2 DEF Consumers
  <2>2. c \in s.targets
    BY <1>1, <2>1, LeastNatural
  <2> QED
    BY <1>2, <2>2
<1> HIDE DEF c
<1>4. (ring' = ring /\ ring[OutRing(b, c)].rgone) \/ Pushes(b, c)
  BY <1>1, <1>3, PushItemIs
<1>5. rest \subseteq Consumers /\ (rest = {} <=> s.targets = {c})
  BY <1>2, <1>3
<1>6. next \in BrokerState
  BY <1>2, PlacedIs
<1>7. t \in BrokerState
  <2> HIDE DEF next, rest
  <2> QED
    BY <1>5, <1>6 DEF BrokerState
<1>8. BrokerOnly(b) /\ broker'[b] = t
  <2> HIDE DEF t
  <2> QED
    BY <1>1, <1>7, SetIs DEF BrokerOnly
<1>9. CASE rest = {}
  <2> DEFINE u == Placed(s)
  <2>1. /\ u \in BrokerState /\ u.pc = "deliver" /\ u.i = s.i + 1 /\ u.targets = {} /\ u.gone = 0
        /\ u.at = s.at /\ u.n = s.n /\ u.sweep = s.sweep /\ u.final = s.final /\ u.moved = s.moved
    BY <1>2, PlacedIs
  <2>2. t = [u EXCEPT !.targets = {}]
    BY <1>9
  <2> HIDE DEF u, t
  <2>3. /\ t.pc = u.pc /\ t.i = u.i /\ t.targets = {} /\ t.gone = u.gone
        /\ t.at = u.at /\ t.n = u.n /\ t.sweep = u.sweep /\ t.final = u.final /\ t.moved = u.moved
    BY <2>1, <2>2 DEF BrokerState
  <2>4. Onward(b)
    BY <1>8, <2>1, <2>3 DEF Onward, SamePlace
  <2> QED
    BY <1>1, <1>3, <1>4, <1>5, <1>8, <1>9, <2>4
<1>10. CASE rest # {}
  <2>1. t = [s EXCEPT !.targets = rest]
    BY <1>10
  <2> HIDE DEF t, rest
  <2>2. /\ t.pc = s.pc /\ t.i = s.i /\ t.targets = rest /\ t.gone = s.gone
        /\ t.at = s.at /\ t.n = s.n /\ t.sweep = s.sweep /\ t.final = s.final /\ t.moved = s.moved
    BY <1>2, <2>1 DEF BrokerState
  <2>3. Stays(b) /\ broker'[b].gone = s.gone /\ broker'[b].targets = s.targets \ {c}
    BY <1>1, <1>8, <2>2 DEF Stays, SamePlace, rest
  <2> QED
    BY <1>1, <1>3, <1>4, <1>5, <1>8, <1>10, <2>3
<1> QED
  BY <1>9, <1>10

\* A value that nobody subscribed to.
LEMMA ForwardNowhereIs ==
  ASSUME BrokeredType, NEW b \in Brokers, ForwardNowhere(b)
  PROVE  /\ BrokerOnly(b) /\ UNCHANGED <<ring, due, panicked>> /\ Onward(b)
         /\ broker[b].pc = "forward" /\ decl.routing = "PubSub" /\ broker[b].targets = {}
<1> DEFINE s == broker[b]
           t == Placed(s)
<1>1. /\ s.pc = "forward" /\ decl.routing = "PubSub" /\ s.targets = {} /\ Set(b, t)
      /\ UNCHANGED <<ring, due, panicked>> /\ NoConsumer /\ NoProducer
  BY DEF ForwardNowhere, NoConsumer, NoProducer
<1>2. s \in BrokerState
  BY BrokeredParts
<1>3. /\ t \in BrokerState /\ t.pc = "deliver" /\ t.i = s.i + 1 /\ t.targets = {} /\ t.gone = 0
      /\ t.at = s.at /\ t.n = s.n /\ t.sweep = s.sweep /\ t.final = s.final /\ t.moved = s.moved
  BY <1>2, PlacedIs
<1> HIDE DEF t
<1>4. BrokerOnly(b) /\ broker'[b] = t
  BY <1>1, <1>3, SetIs DEF BrokerOnly
<1>5. Onward(b)
  BY <1>3, <1>4 DEF Onward, SamePlace
<1> QED
  BY <1>1, <1>4, <1>5

\* One consumer of forward_rr.
LEMMA ForwardRrIs ==
  ASSUME BrokeredType, NEW b \in Brokers, ForwardRr(b)
  PROVE  LET s == broker[b]  t == broker'[b] IN
         /\ BrokerOnly(b) /\ panicked' = panicked /\ s.pc = "forward" /\ decl.routing = "RoundRobin"
         /\ \/ \E c \in Consumers : Pushes(b, c) /\ Onward(b) /\ Due(Item(b), {c})
            \/ /\ UNCHANGED <<ring, due>>
               /\ \/ /\ Stays(b) /\ t.targets = s.targets
                     /\ t.gone # 0 => s.gone # 0 \/ \E c \in Consumers : ring[OutRing(b, c)].rgone
                  \/ /\ Onward(b)
                     /\ s.gone # 0 \/ \E c \in Consumers : ring[OutRing(b, c)].rgone
<1> DEFINE s == broker[b]
           i == Index(s.cursor, decl.consumers)
           c == i + 1
           gone == s.gone + (IF ring[OutRing(b, c)].rgone THEN 1 ELSE 0)
           next == [s EXCEPT !.cursor = c]
           tried == next.tried + 1
           skip == [next EXCEPT !.tried = tried, !.gone = gone]
           again == [next EXCEPT !.tried = 0, !.gone = 0]
<1>1. /\ s.pc = "forward" /\ decl.routing = "RoundRobin" /\ panicked' = panicked /\ NoConsumer /\ NoProducer
      /\ \/ PushItem(b, c) /\ Set(b, Placed(next)) /\ Due(Item(b), {c})
         \/ /\ UNCHANGED <<ring, due>>
            /\ Set(b, skip) \/ (Set(b, Placed(next)) /\ gone = decl.consumers) \/ Set(b, again)
  BY DEF ForwardRr, NoConsumer, NoProducer
<1>2. s \in BrokerState /\ decl.consumers \in Nat \ {0} /\ s.cursor \in Nat /\ s.gone \in Nat /\ s.tried \in Nat
  <2>1. s \in BrokerState /\ decl.consumers \in Nat \ {0}
    BY BrokeredParts
  <2> QED
    BY <2>1 DEF BrokerState
<1>3. i \in 0 .. decl.consumers - 1
  BY <1>2, IndexIs
<1> HIDE DEF i
<1>4. c \in Consumers /\ c \in Nat
  BY <1>2, <1>3 DEF Consumers
<1> HIDE DEF c
<1>5. gone \in Nat /\ (gone # 0 => s.gone # 0 \/ ring[OutRing(b, c)].rgone)
  BY <1>2
<1> HIDE DEF gone
<1>6. next \in BrokerState
  BY <1>2, <1>4 DEF BrokerState
<1>7. /\ next.pc = s.pc /\ next.i = s.i /\ next.targets = s.targets /\ next.gone = s.gone /\ next.tried = s.tried
      /\ next.at = s.at /\ next.n = s.n /\ next.sweep = s.sweep /\ next.final = s.final /\ next.moved = s.moved
  BY <1>2 DEF BrokerState
<1>8. tried \in Nat
  BY <1>2, <1>7
<1> HIDE DEF next, tried
<1>9. skip \in BrokerState /\ again \in BrokerState
  <2>1. skip \in BrokerState
    BY <1>5, <1>6, <1>8 DEF BrokerState
  <2>2. again \in BrokerState
    BY <1>6 DEF BrokerState
  <2> QED
    BY <2>1, <2>2
<1>10. /\ skip.pc = next.pc /\ skip.i = next.i /\ skip.targets = next.targets /\ skip.gone = gone
       /\ skip.at = next.at /\ skip.n = next.n /\ skip.sweep = next.sweep /\ skip.final = next.final /\ skip.moved = next.moved
  BY <1>6 DEF BrokerState
<1>11. /\ again.pc = next.pc /\ again.i = next.i /\ again.targets = next.targets /\ again.gone = 0
       /\ again.at = next.at /\ again.n = next.n /\ again.sweep = next.sweep /\ again.final = next.final
       /\ again.moved = next.moved
  BY <1>6 DEF BrokerState
<1> HIDE DEF skip, again
<1>12. ASSUME Set(b, Placed(next)) PROVE BrokerOnly(b) /\ Onward(b)
  <2> DEFINE t == Placed(next)
  <2>1. /\ t \in BrokerState /\ t.pc = "deliver" /\ t.i = next.i + 1 /\ t.targets = {} /\ t.gone = 0
        /\ t.at = next.at /\ t.n = next.n /\ t.sweep = next.sweep /\ t.final = next.final /\ t.moved = next.moved
    BY <1>6, PlacedIs
  <2>2. Set(b, t)
    BY <1>12
  <2> HIDE DEF t
  <2>3. BrokerOnly(b) /\ broker'[b] = t
    BY <1>1, <2>1, <2>2, SetIs DEF BrokerOnly
  <2> QED
    BY <1>7, <2>1, <2>3 DEF Onward, SamePlace
<1>13. CASE PushItem(b, c) /\ Set(b, Placed(next)) /\ Due(Item(b), {c})
  <2>1. Pushes(b, c) /\ BrokerOnly(b) /\ Onward(b)
    BY <1>1, <1>4, <1>12, <1>13, PushItemIs
  <2> QED
    BY <1>1, <1>4, <1>13, <2>1
<1>14. CASE UNCHANGED <<ring, due>> /\ Set(b, skip)
  <2>1. BrokerOnly(b) /\ broker'[b] = skip
    BY <1>1, <1>9, <1>14, SetIs DEF BrokerOnly
  <2>2. Stays(b) /\ broker'[b].targets = s.targets /\ broker'[b].gone = gone
    BY <1>1, <1>7, <1>10, <2>1 DEF Stays, SamePlace
  <2> QED
    BY <1>1, <1>4, <1>5, <1>14, <2>1, <2>2
<1>15. CASE UNCHANGED <<ring, due>> /\ Set(b, again)
  <2>1. BrokerOnly(b) /\ broker'[b] = again
    BY <1>1, <1>9, <1>15, SetIs DEF BrokerOnly
  <2>2. Stays(b) /\ broker'[b].targets = s.targets /\ broker'[b].gone = 0
    BY <1>1, <1>7, <1>11, <2>1 DEF Stays, SamePlace
  <2> QED
    BY <1>1, <1>15, <2>1, <2>2
<1>16. CASE UNCHANGED <<ring, due>> /\ Set(b, Placed(next)) /\ gone = decl.consumers
  <2>1. BrokerOnly(b) /\ Onward(b)
    BY <1>12, <1>16
  <2>2. s.gone # 0 \/ ring[OutRing(b, c)].rgone
    BY <1>2, <1>5, <1>16
  <2> QED
    BY <1>1, <1>4, <1>16, <2>1, <2>2
<1> QED
  BY <1>1, <1>13, <1>14, <1>15, <1>16

\* What was moved leaves the ring.
Commits(b) ==
  LET s == broker[b]  q == ring[InRing(s.at)].q IN
  /\ ring' \in [BrokeredRings -> RingState]
  /\ ring'[InRing(s.at)] = [ring[InRing(s.at)] EXCEPT !.q = SubSeq(q, s.n + 1, Len(q))]
  /\ \A o \in BrokeredRings : o # InRing(s.at) => ring'[o] = ring[o]

LEMMA DrainCommitIs ==
  ASSUME BrokeredType, NEW b \in Brokers, DrainCommit(b)
  PROVE  LET s == broker[b]  t == broker'[b] IN
         /\ BrokerOnly(b) /\ UNCHANGED <<due, panicked>> /\ s.pc = "deliver" /\ s.i = s.n /\ Commits(b)
         /\ t.pc = "sweep" /\ t.i = 0 /\ t.moved /\ t.final = s.final /\ t.sweep = s.sweep /\ t.gone = s.gone
         /\ t.targets = s.targets
<1> DEFINE s == broker[b]
           r == InRing(s.at)
           w == SubSeq(ring[r].q, s.n + 1, Len(ring[r].q))
           t == [s EXCEPT !.pc = "sweep", !.moved = TRUE, !.at = 0, !.n = 0, !.i = 0]
<1>1. /\ s.pc = "deliver" /\ s.i = s.n /\ ring' = [ring EXCEPT ![r].q = w] /\ Set(b, t)
      /\ UNCHANGED <<due, panicked>> /\ NoConsumer /\ NoProducer
  BY DEF DrainCommit, NoConsumer, NoProducer
<1>2. s \in BrokerState /\ ring \in [BrokeredRings -> RingState]
  BY BrokeredParts
<1>3. t \in BrokerState
  BY <1>2 DEF BrokerState
<1>4. /\ t.pc = "sweep" /\ t.i = 0 /\ t.moved /\ t.final = s.final /\ t.sweep = s.sweep /\ t.gone = s.gone
      /\ t.targets = s.targets
  BY <1>2 DEF BrokerState
<1> HIDE DEF t
<1>5. BrokerOnly(b) /\ broker'[b] = t
  BY <1>1, <1>3, SetIs DEF BrokerOnly
<1>6. r \in BrokeredRings /\ ring[r].q \in Seq(Values) /\ s.n \in 0 .. Len(ring[r].q)
  BY <1>1, MovingIs, RingsAre DEF Moving
<1>7. w \in Seq(Values)
  BY <1>6, SplitIs
<1> HIDE DEF r, w
<1>8. /\ ring' \in [BrokeredRings -> RingState] /\ ring'[r] = [ring[r] EXCEPT !.q = w]
      /\ \A o \in BrokeredRings : o # r => ring'[o] = ring[o]
  <2>1. ring' = [ring EXCEPT ![r].q = w] /\ w \in Seq(Values) /\ r \in BrokeredRings /\ ring \in [BrokeredRings -> RingState]
    BY <1>1, <1>2, <1>6, <1>7
  <2> QED
    BY <2>1, SetQueue
<1>9. Commits(b)
  BY <1>8 DEF Commits, r, w
<1> QED
  BY <1>1, <1>4, <1>5, <1>9

\* A broker thread is started.
LEMMA SpawnIs ==
  ASSUME BrokeredType, NEW b \in Brokers, Spawn(b)
  PROVE  LET s == broker[b]  t == broker'[b] IN
         /\ opened = "spawning" /\ opened' \in {"open", "spawning"} /\ decl' = decl
         /\ BrokerOnly(b) /\ UNCHANGED <<ring, due, panicked>> /\ s.pc = "unspawned"
         /\ t.pc = "sweep" /\ t.i = s.i /\ t.gone = s.gone /\ t.targets = s.targets /\ t.sweep = Inbound(b) /\ ~t.final
         /\ opened' = "spawning" => Unspawned # {b}
<1> DEFINE s == broker[b]
           t == Sweep(s, b, FALSE)
<1>1. /\ opened = "spawning" /\ opened' \in {"open", "spawning"} /\ decl' = decl /\ b = Min(Unspawned)
      /\ Set(b, t) /\ NoConsumer /\ NoProducer /\ UNCHANGED <<ring, due, panicked>>
  BY DEF Spawn, Set, NoConsumer, NoProducer
<1>2. s \in BrokerState /\ Inbound(b) \subseteq Producers
  BY BrokeredParts DEF Inbound
<1>3. t \in BrokerState
  BY <1>2 DEF Sweep, BrokerState
<1>4. t.i = s.i /\ t.gone = s.gone /\ t.targets = s.targets /\ t.pc = "sweep" /\ t.sweep = Inbound(b) /\ t.final = FALSE
  BY <1>2 DEF Sweep, BrokerState
<1> HIDE DEF t
<1>5. BrokerOnly(b) /\ broker'[b] = t
  BY <1>1, <1>3, SetIs DEF BrokerOnly
<1>6. s.pc = "unspawned"
  <2>1. Unspawned # {} /\ Unspawned \subseteq Brokers
    BY <1>1, BrokeredParts DEF BrokeredType, Unspawned
  <2>2. Unspawned \subseteq Nat
    BY <2>1 DEF Brokers
  <2>3. b \in Unspawned
    BY <1>1, <2>1, <2>2, LeastNatural
  <2> QED
    BY <2>3 DEF Unspawned
<1>7. opened' = "spawning" => Unspawned # {b}
  BY DEF Spawn
<1> QED
  BY <1>1, <1>4, <1>5, <1>6, <1>7

\* A broker thread is refused: everything that has been built is dropped.
LEMMA SpawnFailsIs ==
  ASSUME BrokeredType, NEW b \in Brokers, SpawnFails(b)
  PROVE  /\ opened' = "invalid" /\ decl' = decl /\ UNCHANGED <<got, due, early, panicked>>
         /\ broker' \in [Brokers -> BrokerState]
         /\ \A a \in Brokers : broker'[a] = broker[a] \/ (broker'[a] = Finished /\ broker[a].pc = "unspawned")
         /\ prod' \in [Producers -> ProducerState]
         /\ \A p \in Producers : prod'[p].pc = "gone" /\ prod'[p].next = prod[p].next
         /\ con' \in [Consumers -> ConsumerState(BrokeredRings)]
         /\ \A c \in Consumers : con'[c].pc = "gone" /\ con'[c].lanes = con[c].lanes /\ con'[c].staging = con[c].staging
         /\ live_producers' = 0
         /\ ring' \in [BrokeredRings -> RingState] /\ \A r \in BrokeredRings : ring'[r].q = ring[r].q
         /\ \A a \in Brokers, c \in Consumers : ring'[OutRing(a, c)].wgone => broker'[a].pc = "done"
<1> DEFINE W(r) == BrokerOf(r[2]) \in Unspawned
           X(r) == r[2] \in Unspawned
           I(r) == [ring[r] EXCEPT !.wgone = TRUE, !.rgone = W(r)]
           O(r) == [ring[r] EXCEPT !.wgone = X(r), !.rgone = TRUE]
           P(p) == [prod[p] EXCEPT !.pc = "gone"]
           C(c) == [con[c] EXCEPT !.pc = "gone"]
<1>1. /\ ring \in [BrokeredRings -> RingState] /\ DOMAIN ring = BrokeredRings
      /\ prod \in [Producers -> ProducerState] /\ DOMAIN prod = Producers
      /\ con \in [Consumers -> ConsumerState(BrokeredRings)] /\ DOMAIN con = Consumers
      /\ broker \in [Brokers -> BrokerState] /\ DOMAIN broker = Brokers
  BY BrokeredParts
<1>2. /\ opened' = "invalid" /\ decl' = decl /\ UNCHANGED <<got, due, early, panicked>> /\ live_producers' = 0
      /\ broker' = [x \in Brokers |-> IF x \in Unspawned THEN Finished ELSE broker[x]]
      /\ ring' = [r \in BrokeredRings |-> IF r[1] = "in" THEN I(r) ELSE O(r)]
      /\ prod' = [p \in Producers |-> P(p)] /\ con' = [c \in Consumers |-> C(c)]
  BY <1>1 DEF SpawnFails
<1>3. Finished \in BrokerState /\ Finished.pc = "done"
  BY DEF Finished, IdleBroker, BrokerState
<1>4. broker' \in [Brokers -> BrokerState]
  BY <1>1, <1>2, <1>3
<1>5. \A a \in Brokers : broker'[a] = broker[a] \/ (broker'[a] = Finished /\ broker[a].pc = "unspawned")
  BY <1>1, <1>2 DEF Unspawned
<1>6. \A p \in Producers : P(p) \in ProducerState
  BY <1>1 DEF ProducerState
<1>7. \A p \in Producers : P(p).pc = "gone" /\ P(p).next = prod[p].next
  BY <1>1 DEF ProducerState
<1>8. \A c \in Consumers : C(c) \in ConsumerState(BrokeredRings)
  BY <1>1, ZenonT(60) DEF ConsumerState
<1>9. \A c \in Consumers : C(c).pc = "gone" /\ C(c).lanes = con[c].lanes /\ C(c).staging = con[c].staging
  BY <1>1 DEF ConsumerState
<1>10. \A r \in BrokeredRings : W(r) \in BOOLEAN /\ X(r) \in BOOLEAN
  OBVIOUS
<1>11. \A r : X(r) => r[2] \in Unspawned
  OBVIOUS
<1> HIDE DEF W, X
<1>12. \A r \in BrokeredRings : I(r) \in RingState
  BY <1>1, <1>10 DEF RingState
<1>13. \A r \in BrokeredRings : O(r) \in RingState
  BY <1>1, <1>10 DEF RingState
<1>14. \A r \in BrokeredRings : I(r).q = ring[r].q /\ O(r).q = ring[r].q /\ O(r).wgone = X(r)
  BY <1>1 DEF RingState
<1> HIDE DEF I, O, P, C
<1>15. ring' \in [BrokeredRings -> RingState] /\ \A r \in BrokeredRings : ring'[r].q = ring[r].q
  BY <1>2, <1>12, <1>13, <1>14
<1>16. ASSUME NEW a \in Brokers, NEW c \in Consumers, ring'[OutRing(a, c)].wgone PROVE broker'[a].pc = "done"
  <2>1. OutRing(a, c) \in BrokeredRings /\ OutRing(a, c)[1] # "in" /\ OutRing(a, c)[2] = a
    BY RingsAre
  <2>2. ring'[OutRing(a, c)] = O(OutRing(a, c))
    BY <1>2, <2>1
  <2>3. X(OutRing(a, c))
    BY <1>14, <1>16, <2>1, <2>2
  <2>4. a \in Unspawned
    BY <1>11, <2>1, <2>3
  <2> QED
    BY <1>2, <1>3, <2>4
<1>17. prod' \in [Producers -> ProducerState] /\ \A p \in Producers : prod'[p].pc = "gone" /\ prod'[p].next = prod[p].next
  BY <1>2, <1>6, <1>7
<1>18. /\ con' \in [Consumers -> ConsumerState(BrokeredRings)]
       /\ \A c \in Consumers : con'[c].pc = "gone" /\ con'[c].lanes = con[c].lanes /\ con'[c].staging = con[c].staging
  BY <1>2, <1>8, <1>9
<1> QED
  BY <1>2, <1>4, <1>5, <1>15, <1>16, <1>17, <1>18

-----------------------------------------------------------------------------
(* The types of the brokered channel are kept.                             *)

LEMMA BrokeredTypeIf ==
  ASSUME BrokeredType, decl' = decl, opened' \in {"spawning", "open", "invalid"},
         ring' \in [BrokeredRings -> RingState], prod' \in [Producers -> ProducerState],
         con' \in [Consumers -> ConsumerState(BrokeredRings)], got' \in [Consumers -> Seq(Values)], early' \in Nat,
         live_producers' = Cardinality(Alive)', panicked' \in BOOLEAN, broker' \in [Brokers -> BrokerState],
         \A c \in Consumers : /\ con'[c].lanes = con[c].lanes /\ con'[c].staging = con[c].staging
                              /\ con'[c].pc \in {"idle", "scan", "finished", "ended", "gone"},
         \A b \in Brokers : BrokerFit(b)',
         opened' = "spawning" => \E b \in Brokers : broker'[b].pc = "unspawned"
  PROVE  BrokeredType'
<1>1. /\ Producers' = Producers /\ Consumers' = Consumers /\ Brokers' = Brokers /\ Values' = Values
      /\ RingState' = RingState /\ ProducerState' = ProducerState /\ BrokeredRings' = BrokeredRings
      /\ ConsumerState(BrokeredRings)' = ConsumerState(BrokeredRings) /\ BrokerState' = BrokerState
      /\ IsBrokered(decl)' = IsBrokered(decl)
  BY DeclSame
<1>2. GridType(BrokeredRings)'
  BY <1>1 DEF BrokeredType, GridType
<1>3. \A c \in Consumers : ConsumerFit(c)'
  <2> TAKE c \in Consumers
  <2>1. ConsumerFit(c)
    BY BrokeredParts
  <2>2. [b \in Brokers |-> OutRing(b, c)]' = [b \in Brokers |-> OutRing(b, c)]
    BY <1>1 DEF OutRing
  <2> QED
    BY <2>1, <2>2 DEF ConsumerFit
<1>4. opened' = "spawning" => Unspawned' # {}
  <2>1. DOMAIN broker' = Brokers
    OBVIOUS
  <2> QED
    BY <2>1 DEF Unspawned
<1> QED
  BY <1>1, <1>2, <1>3, <1>4 DEF BrokeredType

\* A broker keeps its place while its producers' rings do not shrink.
LEMMA BrokerFitSame ==
  ASSUME BrokeredType, decl' = decl, NEW b \in Brokers, broker'[b] = broker[b], ring' \in [BrokeredRings -> RingState],
         \A p \in Inbound(b) : Len(ring'[InRing(p)].q) >= Len(ring[InRing(p)].q)
  PROVE  BrokerFit(b)'
<1> DEFINE s == broker[b]
<1>1. BrokerFit(b) /\ s \in BrokerState /\ \A x : Inbound(x)' = Inbound(x)
  BY BrokeredParts, DeclSame
<1>2. s.pc \in Moving => s.n <= Len(ring'[InRing(s.at)].q)
  <2> HAVE s.pc \in Moving
  <2>1. s.at \in Inbound(b) /\ s.at \in Producers /\ s.n <= Len(ring[InRing(s.at)].q) /\ s.n \in Nat
    BY MovingIs
  <2>2. ring'[InRing(s.at)].q \in Seq(Values) /\ ring[InRing(s.at)].q \in Seq(Values)
    BY <2>1, BrokeredParts, RingsAre DEF RingState
  <2> DEFINE l == Len(ring[InRing(s.at)].q)
             m == Len(ring'[InRing(s.at)].q)
  <2>3. l \in Nat /\ m \in Nat /\ m >= l /\ s.n <= l
    BY <2>1, <2>2
  <2> HIDE DEF l, m
  <2>4. s.n <= m
    BY <2>1, <2>3
  <2> QED
    BY <2>4 DEF m
<1>3. InRing(s.at)' = InRing(s.at) /\ broker'[b] = s
  BY DEF InRing
<1> QED
  BY <1>1, <1>2, <1>3 DEF BrokerFit, InRing

LEMMA NobodyAlive ==
  ASSUME decl' = decl, \A p \in Producers : prod'[p].pc = "gone"
  PROVE  Cardinality(Alive)' = 0
<1>1. Alive' = {}
  BY DeclSame DEF Alive
<1> QED
  BY <1>1, FS_EmptySet

\* The steps of the three kinds of threads.
ProducerSteps(p) ==
  BrokeredSend(p) \/ ProducerDrop(p) \/ \E op \in {"send", "try_send", "send_batch"}, n \in {1, 2} : StartSend(p, op, n)
ConsumerSteps(c) == BrokeredScan(c) \/ BrokeredFinished(c) \/ BrokeredConsumerDrop(c) \/ BrokeredBegin(c)
BrokerSteps(b)   == BrokerStep(b) \/ PolicyPanics(b)

LEMMA BrokeredCases ==
  ASSUME BrokeredType, BrokeredNext
  PROVE  \/ \E b \in Brokers : BrokerSteps(b)
         \/ \E p \in Producers : ProducerSteps(p)
         \/ \E c \in Consumers : ConsumerSteps(c)
<1>1. DOMAIN prod = Producers /\ DOMAIN con = Consumers /\ DOMAIN broker = Brokers
  BY BrokeredParts
<1>2. 1 \in {1, 2} /\ "send" \in {"send", "try_send", "send_batch"} /\ "try_send" \in {"send", "try_send", "send_batch"}
  OBVIOUS
<1> QED
  BY <1>1, <1>2 DEF BrokeredNext, BrokerSteps, ProducerSteps, ConsumerSteps, BrokeredReceive

\* What a producer's step leaves alone.
LEMMA ProducerStepIs ==
  ASSUME BrokeredType, decl' = decl, NEW p \in Producers, ProducerSteps(p)
  PROVE  /\ prod' \in [Producers -> ProducerState] /\ live_producers' = Cardinality(Alive)'
         /\ NoConsumer /\ NoBroker
         /\ live_producers = 0 => live_producers' = 0 /\ ring' = ring
         /\ \/ ring' = ring /\ \A q \in Producers : prod'[q].next = prod[q].next
            \/ /\ prod'[p].next = prod[p].next + 1 /\ \A q \in Producers : q # p => prod'[q].next = prod[q].next
               /\ ring' \in [BrokeredRings -> RingState]
               /\ ring'[InRing(p)] = [ring[InRing(p)] EXCEPT !.q = ring[InRing(p)].q \o Fresh(p, 1)]
               /\ \A o \in BrokeredRings : o # InRing(p) => ring'[o] = ring[o]
<1>1. /\ decl.producers \in Nat /\ prod \in [Producers -> ProducerState] /\ live_producers = Cardinality(Alive)
  BY BrokeredParts
<1>2. CASE BrokeredSend(p)
  <2>1. /\ prod[p].pc = "send" /\ prod' \in [Producers -> ProducerState]
        /\ \A q \in Producers : prod'[q].pc = "gone" <=> prod[q].pc = "gone"
        /\ UNCHANGED live_producers /\ NoConsumer /\ NoBroker
        /\ \/ ring' = ring /\ \A q \in Producers : prod'[q].next = prod[q].next
           \/ /\ prod'[p].next = prod[p].next + 1 /\ \A q \in Producers : q # p => prod'[q].next = prod[q].next
              /\ ring' \in [BrokeredRings -> RingState]
              /\ ring'[InRing(p)] = [ring[InRing(p)] EXCEPT !.q = ring[InRing(p)].q \o Fresh(p, 1)]
              /\ \A o \in BrokeredRings : o # InRing(p) => ring'[o] = ring[o]
    BY <1>2, BrokeredSendIs
  <2>2. live_producers' = Cardinality(Alive)'
    BY <1>1, <2>1, AliveSame
  <2>3. live_producers # 0
    BY <1>1, <2>1, AliveFinite
  <2> QED
    BY <2>1, <2>2, <2>3
<1>3. CASE ProducerDrop(p)
  <2>1. /\ prod' \in [Producers -> ProducerState] /\ \A q \in Producers : prod'[q].next = prod[q].next
        /\ live_producers # 0 /\ live_producers' = Cardinality(Alive)'
        /\ UNCHANGED <<ring, con, abandoned, got, early, due, panicked, broker>>
    BY <1>1, <1>3, ProducerDropIs
  <2> QED
    BY <2>1 DEF NoConsumer, NoBroker
<1>4. CASE \E op \in {"send", "try_send", "send_batch"}, n \in {1, 2} : StartSend(p, op, n)
  <2>1. /\ prod' \in [Producers -> ProducerState] /\ \A q \in Producers : prod'[q].next = prod[q].next
        /\ \A q \in Producers : prod'[q].pc = "gone" <=> prod[q].pc = "gone"
        /\ UNCHANGED <<ring, con, live_producers, abandoned, got, early, due, panicked, broker>>
    BY <1>1, <1>4, IdleSendIs
  <2>2. live_producers' = Cardinality(Alive)'
    BY <1>1, <2>1, AliveSame
  <2> QED
    BY <2>1, <2>2 DEF NoConsumer, NoBroker
<1> QED
  BY <1>2, <1>3, <1>4 DEF ProducerSteps

\* What a consumer's step leaves alone.
LEMMA ConsumerStepIs ==
  ASSUME BrokeredType, NEW c \in Consumers, ConsumerSteps(c)
  PROVE  /\ Waits(c) /\ con'[c].pc \in {"idle", "scan", "finished", "ended", "gone"}
         /\ con[c].pc # "gone" /\ NoBroker /\ NoProducer
         /\ con[c].pc = "idle" => opened = "open"
         /\ got' \in [Consumers -> Seq(Values)] /\ early' \in Nat /\ (early # 0 => early' # 0)
         /\ ring' \in [BrokeredRings -> RingState] /\ \A p \in Producers : ring'[InRing(p)] = ring[InRing(p)]
<1>1. got \in [Consumers -> Seq(Values)] /\ early \in Nat /\ ring \in [BrokeredRings -> RingState]
  BY BrokeredParts
<1>2. \A p \in Producers, b \in Brokers : InRing(p) # OutRing(b, c) /\ InRing(p) \in BrokeredRings
  BY RingsAre
<1>3. CASE BrokeredScan(c)
  BY <1>1, <1>2, <1>3, BrokeredScanIs
<1>4. CASE BrokeredFinished(c)
  BY <1>1, <1>2, <1>4, BrokeredFinishedIs
<1>5. CASE BrokeredConsumerDrop(c)
  <2>1. /\ opened = "open" /\ con[c].pc \in {"idle", "ended"} /\ Waits(c) /\ con'[c].pc = "gone"
        /\ got' = got /\ NoBroker /\ NoProducer
        /\ early' \in Nat /\ (con[c].pc = "idle" => early' # 0) /\ (con[c].pc = "ended" => early' = early)
        /\ ring' \in [BrokeredRings -> RingState]
        /\ \A o \in BrokeredRings : (\A b \in Brokers : o # OutRing(b, c)) => ring'[o] = ring[o]
    BY <1>5, BrokeredDropIs
  <2>2. \A p \in Producers : ring'[InRing(p)] = ring[InRing(p)]
    <3> TAKE p \in Producers
    <3>1. InRing(p) \in BrokeredRings /\ \A b \in Brokers : InRing(p) # OutRing(b, c)
      BY RingsAre
    <3>2. \A o \in BrokeredRings : (\A b \in Brokers : o # OutRing(b, c)) => ring'[o] = ring[o]
      BY <2>1
    <3> QED
      BY <3>1, <3>2, Zenon
  <2> QED
    BY <1>1, <2>1, <2>2
<1>6. CASE BrokeredBegin(c)
  BY <1>1, <1>2, <1>6, BrokeredBeginIs
<1> QED
  BY <1>3, <1>4, <1>5, <1>6 DEF ConsumerSteps

\* A broker's place after its step.
LEMMA BrokerFitStep ==
  ASSUME BrokeredType, decl' = decl, NEW b \in Brokers, BrokerSteps(b)
  PROVE  /\ BrokerOnly(b) /\ BrokerFit(b)' /\ broker[b].pc \in {"sweep", "deliver", "forward"}
         /\ panicked' \in BOOLEAN /\ (panicked => panicked') /\ ring' \in [BrokeredRings -> RingState]
         /\ \A p \in Producers : BrokerOf(p) # b => ring'[InRing(p)].q = ring[InRing(p)].q
<1> DEFINE s == broker[b]
           t == broker'[b]
<1>1. /\ BrokerFit(b) /\ s \in BrokerState /\ ring \in [BrokeredRings -> RingState] /\ panicked \in BOOLEAN
      /\ \A x : Inbound(x)' = Inbound(x)
  BY BrokeredParts, DeclSame DEF BrokeredType
<1>2. /\ s.sweep \subseteq Inbound(b) /\ (decl.routing = "RoundRobin" => s.targets = {})
      /\ s.pc \notin Moving => s.i = 0
  BY <1>1 DEF BrokerFit
<1>3. \A p \in Producers, c \in Consumers : InRing(p) # OutRing(b, c) /\ InRing(p) \in BrokeredRings
  BY RingsAre
<1>4. ASSUME t.sweep \subseteq Inbound(b), decl.routing = "RoundRobin" => t.targets = {},
             t.pc \in Moving => t.at \in Inbound(b) /\ t.i <= t.n /\ t.n <= Len(ring'[InRing(t.at)].q),
             t.pc = "forward" => t.i < t.n, t.pc \notin Moving => t.i = 0
      PROVE  BrokerFit(b)'
  BY <1>1, <1>4 DEF BrokerFit, InRing
<1>5. CASE Drain(b)
  <2>1. /\ BrokerOnly(b) /\ ring' = ring /\ panicked' = panicked /\ s.pc = "sweep" /\ t.i = s.i /\ t.targets = s.targets
        /\ \E p \in s.sweep :
              /\ t.sweep = s.sweep \ {p}
              /\ \/ t.pc = "sweep" /\ ring[InRing(p)].q = <<>>
                 \/ t.pc = "deliver" /\ t.at = p /\ t.n <= Len(ring[InRing(p)].q)
    BY <1>5, DrainIs
  <2>2. t.i = 0 /\ t.n \in Nat
    BY <1>2, <2>1 DEF Moving, BrokerOnly, BrokerState
  <2>3. t.i <= t.n
    BY <2>2
  <2>4. BrokerFit(b)'
    BY <1>2, <1>4, <2>1, <2>2, <2>3 DEF Moving
  <2> QED
    BY <1>1, <2>1, <2>4
<1>6. ASSUME Ends(b) PROVE BrokerFit(b)'
  <2>1. t = Finished
    BY <1>6 DEF Ends
  <2>2. t.pc = "done" /\ t.i = 0 /\ t.targets = {} /\ t.sweep = {}
    BY <2>1 DEF Finished, IdleBroker
  <2> QED
    BY <1>4, <2>2 DEF Moving
<1>7. CASE Swept(b)
  <2>1. /\ BrokerOnly(b) /\ panicked' = panicked /\ s.pc = "sweep"
        /\ \/ Ends(b)
           \/ ring' = ring /\ t.i = s.i /\ t.targets = s.targets /\ t.pc = "sweep" /\ t.sweep = Inbound(b)
    BY <1>7, SweptIs
  <2>2. CASE Ends(b)
    BY <1>1, <1>6, <2>1, <2>2 DEF Ends
  <2>3. CASE ring' = ring /\ t.i = s.i /\ t.targets = s.targets /\ t.pc = "sweep" /\ t.sweep = Inbound(b)
    <3>1. BrokerFit(b)'
      BY <1>2, <1>4, <2>1, <2>3 DEF Moving
    <3> QED
      BY <1>1, <2>1, <2>3, <3>1
  <2> QED
    BY <2>1, <2>2, <2>3
<1>8. CASE PolicyPanics(b)
  <2>1. BrokerOnly(b) /\ panicked' = TRUE /\ s.pc \in Moving /\ Ends(b)
    BY <1>8, PolicyPanicsIs
  <2> QED
    BY <1>1, <1>6, <2>1 DEF Ends, Moving
\* A value is under way.
<1>9. ASSUME s.pc \in Moving, s.i < s.n, Onward(b) \/ (Stays(b) /\ (decl.routing = "RoundRobin" => t.targets = {})),
             \A p \in Producers : ring'[InRing(p)] = ring[InRing(p)]
      PROVE  BrokerFit(b)'
  <2>1. /\ s.at \in Inbound(b) /\ s.at \in Producers /\ s.i \in Nat /\ s.n \in Nat
        /\ s.n <= Len(ring[InRing(s.at)].q)
    BY <1>9, MovingIs
  <2>2. t.at = s.at /\ t.n = s.n /\ t.sweep = s.sweep
    BY <1>9 DEF Onward, Stays, SamePlace
  <2>3. (t.pc = "deliver" /\ t.i = s.i + 1 /\ t.targets = {}) \/ (t.pc = "forward" /\ t.i = s.i)
    BY <1>9 DEF Onward, Stays
  <2>4. t.i <= t.n /\ (t.pc = "forward" => t.i < t.n)
    BY <1>9, <2>1, <2>2, <2>3
  <2>5. decl.routing = "RoundRobin" => t.targets = {}
    BY <1>9, <2>3 DEF Onward
  <2>6. t.n <= Len(ring'[InRing(t.at)].q) /\ t.pc \in Moving
    BY <1>9, <2>1, <2>2, <2>3 DEF Moving
  <2> QED
    BY <1>2, <1>4, <2>1, <2>2, <2>4, <2>5, <2>6 DEF Moving
<1>10. ASSUME NEW c \in Consumers, Pushes(b, c)
       PROVE  ring' \in [BrokeredRings -> RingState] /\ \A p \in Producers : ring'[InRing(p)] = ring[InRing(p)]
  <2>1. ring' \in [BrokeredRings -> RingState] /\ \A o \in BrokeredRings : o # OutRing(b, c) => ring'[o] = ring[o]
    BY <1>10 DEF Pushes
  <2> QED
    BY <1>3, <2>1
<1>11. CASE Pick(b)
  <2>1. /\ BrokerOnly(b) /\ ring' = ring /\ panicked' = panicked /\ s.pc = "deliver" /\ s.i < s.n /\ Stays(b)
        /\ decl.routing = "RoundRobin" => t.targets = {}
    BY <1>11, PickIs
  <2> QED
    BY <1>1, <1>9, <2>1 DEF Moving
<1>12. CASE ForwardTo(b)
  <2>1. /\ BrokerOnly(b) /\ panicked' = panicked /\ s.pc = "forward" /\ decl.routing # "RoundRobin"
        /\ \E c \in Consumers : (Onward(b) \/ Stays(b)) /\ (ring' = ring \/ Pushes(b, c))
    BY <1>12, ForwardToIs
  <2>2. s.i < s.n
    BY <2>1, MovingIs DEF Moving
  <2>3. ring' \in [BrokeredRings -> RingState] /\ \A p \in Producers : ring'[InRing(p)] = ring[InRing(p)]
    BY <1>1, <1>10, <2>1
  <2> QED
    BY <1>1, <1>9, <2>1, <2>2, <2>3 DEF Moving
<1>13. CASE ForwardNowhere(b)
  <2>1. BrokerOnly(b) /\ panicked' = panicked /\ ring' = ring /\ Onward(b) /\ s.pc = "forward"
    BY <1>13, ForwardNowhereIs
  <2>2. s.i < s.n
    BY <2>1, MovingIs DEF Moving
  <2> QED
    BY <1>1, <1>9, <2>1, <2>2 DEF Moving
<1>14. CASE ForwardRr(b)
  <2>1. /\ BrokerOnly(b) /\ panicked' = panicked /\ s.pc = "forward"
        /\ ring' = ring \/ \E c \in Consumers : Pushes(b, c)
        /\ Onward(b) \/ (Stays(b) /\ t.targets = s.targets)
    BY <1>14, ForwardRrIs
  <2>2. s.i < s.n
    BY <2>1, MovingIs DEF Moving
  <2>3. ring' \in [BrokeredRings -> RingState] /\ \A p \in Producers : ring'[InRing(p)] = ring[InRing(p)]
    BY <1>1, <1>10, <2>1
  <2> QED
    BY <1>1, <1>2, <1>9, <2>1, <2>2, <2>3 DEF Moving
<1>15. CASE DrainCommit(b)
  <2>1. /\ BrokerOnly(b) /\ panicked' = panicked /\ s.pc = "deliver" /\ Commits(b)
        /\ t.pc = "sweep" /\ t.i = 0 /\ t.sweep = s.sweep /\ t.targets = s.targets
    BY <1>15, DrainCommitIs
  <2>2. BrokerFit(b)'
    BY <1>2, <1>4, <2>1 DEF Moving
  <2>3. s.at \in Producers /\ BrokerOf(s.at) = b
    BY <2>1, MovingIs DEF Moving
  <2>4. ring' \in [BrokeredRings -> RingState] /\ \A o \in BrokeredRings : o # InRing(s.at) => ring'[o] = ring[o]
    BY <2>1 DEF Commits
  <2>5. \A p \in Producers : BrokerOf(p) # b => InRing(p) \in BrokeredRings /\ InRing(p) # InRing(s.at)
    BY <2>3, RingsAre
  <2> QED
    BY <1>1, <2>1, <2>2, <2>4, <2>5
<1> QED
  BY <1>5, <1>7, <1>8, <1>11, <1>12, <1>13, <1>14, <1>15 DEF BrokerSteps, BrokerStep

\* The steps of an opened brokered channel.
BrokeredSteps ==
  \/ BrokeredNext /\ UNCHANGED declaration
  \/ \E b \in Brokers : Spawn(b) \/ SpawnFails(b)

LEMMA BrokeredTypeStep ==
  ASSUME BrokeredType, BrokeredSteps
  PROVE  BrokeredType' /\ decl' = decl
<1>1. /\ ring \in [BrokeredRings -> RingState] /\ prod \in [Producers -> ProducerState]
      /\ con \in [Consumers -> ConsumerState(BrokeredRings)] /\ got \in [Consumers -> Seq(Values)] /\ early \in Nat
      /\ live_producers = Cardinality(Alive) /\ panicked \in BOOLEAN /\ broker \in [Brokers -> BrokerState]
      /\ opened \in {"spawning", "open", "invalid"}
      /\ \A c \in Consumers : con[c].pc \in {"idle", "scan", "finished", "ended", "gone"}
  BY BrokeredParts DEF BrokeredType, ConsumerFit
<1>2. opened = "spawning" => \E b \in Brokers : broker[b].pc = "unspawned"
  BY BrokeredParts DEF BrokeredType, Unspawned
<1>3. decl' = decl
  BY SpawnIs, SpawnFailsIs DEF BrokeredSteps, declaration
<1>4. NoProducer => prod' \in [Producers -> ProducerState] /\ live_producers' = Cardinality(Alive)'
  BY <1>1, <1>3, AliveSame DEF NoProducer
<1>5. NoConsumer =>
        /\ con' \in [Consumers -> ConsumerState(BrokeredRings)] /\ got' \in [Consumers -> Seq(Values)] /\ early' \in Nat
        /\ \A c \in Consumers : /\ con'[c].lanes = con[c].lanes /\ con'[c].staging = con[c].staging
                                /\ con'[c].pc \in {"idle", "scan", "finished", "ended", "gone"}
  BY <1>1 DEF NoConsumer
<1>6. /\ \A b : \A p \in Inbound(b) : p \in Producers /\ BrokerOf(p) = b
      /\ \A p \in Producers : InRing(p) \in BrokeredRings /\ Len(ring[InRing(p)].q) \in Nat
                              /\ ring[InRing(p)].q \in Seq(Values)
  BY BrokerOfIs, BrokeredParts, RingsAre
<1>7. \A b \in Brokers : \A p \in Inbound(b) : Len(ring[InRing(p)].q) >= Len(ring[InRing(p)].q)
  BY <1>6
<1>8. CASE BrokeredNext /\ UNCHANGED declaration
  <2>1. opened' = opened
    BY <1>8 DEF declaration
  <2>2. ASSUME NEW b \in Brokers, BrokerSteps(b) PROVE BrokeredType'
    <3>1. /\ BrokerOnly(b) /\ BrokerFit(b)' /\ broker[b].pc \in {"sweep", "deliver", "forward"}
          /\ panicked' \in BOOLEAN /\ ring' \in [BrokeredRings -> RingState]
          /\ \A p \in Producers : BrokerOf(p) # b => ring'[InRing(p)].q = ring[InRing(p)].q
      BY <1>3, <2>2, BrokerFitStep
    <3>2. /\ NoProducer /\ NoConsumer /\ broker' \in [Brokers -> BrokerState]
          /\ \A a \in Brokers : a # b => broker'[a] = broker[a]
      BY <3>1 DEF BrokerOnly
    <3>3. \A a \in Brokers : BrokerFit(a)'
      <4> TAKE a \in Brokers
      <4>1. CASE a = b
        BY <3>1, <4>1
      <4>2. CASE a # b
        <5>1. \A p \in Inbound(a) : Len(ring'[InRing(p)].q) >= Len(ring[InRing(p)].q)
          BY <1>6, <1>7, <3>1, <4>2
        <5>2. broker'[a] = broker[a]
          BY <3>2, <4>2
        <5> QED
          BY <1>3, <3>1, <5>1, <5>2, BrokerFitSame
      <4> QED
        BY <4>1, <4>2
    <3>4. opened' = "spawning" => \E a \in Brokers : broker'[a].pc = "unspawned"
      BY <1>2, <2>1, <3>1, <3>2
    <3> QED
      BY <1>1, <1>3, <1>4, <1>5, <2>1, <3>1, <3>2, <3>3, <3>4, BrokeredTypeIf
  <2>3. ASSUME NEW p \in Producers, ProducerSteps(p) PROVE BrokeredType'
    <3>1. /\ prod' \in [Producers -> ProducerState] /\ live_producers' = Cardinality(Alive)' /\ NoConsumer /\ NoBroker
          /\ \/ ring' = ring
             \/ /\ ring' \in [BrokeredRings -> RingState]
                /\ ring'[InRing(p)] = [ring[InRing(p)] EXCEPT !.q = ring[InRing(p)].q \o Fresh(p, 1)]
                /\ \A o \in BrokeredRings : o # InRing(p) => ring'[o] = ring[o]
      BY <1>3, <2>3, ProducerStepIs
    <3>2. ring' \in [BrokeredRings -> RingState]
      BY <1>1, <3>1
    <3>3. \A q \in Producers : Len(ring'[InRing(q)].q) >= Len(ring[InRing(q)].q)
      <4> TAKE q \in Producers
      <4>1. CASE ring'[InRing(q)] = ring[InRing(q)]
        BY <1>6, <4>1
      <4>2. CASE q = p /\ ring'[InRing(p)] = [ring[InRing(p)] EXCEPT !.q = ring[InRing(p)].q \o Fresh(p, 1)]
        <5> DEFINE w == ring[InRing(p)].q \o Fresh(p, 1)
        <5>1. Fresh(p, 1) \in Seq(Values) /\ Len(Fresh(p, 1)) = 1
          BY <1>1, FreshIs
        <5>2. Len(w) = Len(ring[InRing(p)].q) + Len(Fresh(p, 1))
          BY <1>6, <5>1, ConcatIs
        <5> HIDE DEF w
        <5>3. ring'[InRing(p)].q = w
          BY <1>1, <1>6, <4>2 DEF RingState, w
        <5>4. Len(ring[InRing(p)].q) \in Nat
          BY <1>6
        <5> QED
          BY <4>2, <5>1, <5>2, <5>3, <5>4
      <4> QED
        BY <1>6, <3>1, <4>1, <4>2, RingsAre
    <3>4. \A b \in Brokers : BrokerFit(b)'
      <4> TAKE b \in Brokers
      <4>1. broker'[b] = broker[b] /\ \A q \in Inbound(b) : Len(ring'[InRing(q)].q) >= Len(ring[InRing(q)].q)
        BY <1>6, <3>1, <3>3 DEF NoBroker
      <4> QED
        BY <1>3, <3>2, <4>1, BrokerFitSame
    <3>5. broker' = broker /\ panicked' = panicked
      BY <3>1 DEF NoBroker
    <3> QED
      BY <1>1, <1>2, <1>3, <1>5, <2>1, <3>1, <3>2, <3>4, <3>5, BrokeredTypeIf
  <2>4. ASSUME NEW c \in Consumers, ConsumerSteps(c) PROVE BrokeredType'
    <3>1. /\ Waits(c) /\ con'[c].pc \in {"idle", "scan", "finished", "ended", "gone"}
          /\ NoBroker /\ NoProducer /\ got' \in [Consumers -> Seq(Values)] /\ early' \in Nat
          /\ ring' \in [BrokeredRings -> RingState] /\ \A p \in Producers : ring'[InRing(p)] = ring[InRing(p)]
      BY <2>4, ConsumerStepIs
    <3>2. \A b \in Brokers : BrokerFit(b)'
      <4> TAKE b \in Brokers
      <4>1. broker'[b] = broker[b] /\ \A q \in Inbound(b) : Len(ring'[InRing(q)].q) >= Len(ring[InRing(q)].q)
        BY <1>6, <1>7, <3>1 DEF NoBroker
      <4> QED
        BY <1>3, <3>1, <4>1, BrokerFitSame
    <3>3. broker' = broker /\ panicked' = panicked
      BY <3>1 DEF NoBroker
    <3>4. /\ con' \in [Consumers -> ConsumerState(BrokeredRings)]
          /\ \A d \in Consumers : /\ con'[d].lanes = con[d].lanes /\ con'[d].staging = con[d].staging
                                  /\ con'[d].pc \in {"idle", "scan", "finished", "ended", "gone"}
      BY <1>1, <3>1 DEF Waits
    <3> QED
      BY <1>1, <1>2, <1>3, <1>4, <2>1, <3>1, <3>2, <3>3, <3>4, BrokeredTypeIf
  <2> QED
    BY <1>3, <1>8, <2>2, <2>3, <2>4, BrokeredCases
<1>9. ASSUME NEW b \in Brokers, Spawn(b) PROVE BrokeredType'
  <2>1. /\ opened' \in {"open", "spawning"} /\ BrokerOnly(b) /\ UNCHANGED <<ring, due, panicked>>
        /\ broker[b].pc = "unspawned" /\ broker'[b].pc = "sweep" /\ broker'[b].i = broker[b].i
        /\ broker'[b].targets = broker[b].targets /\ broker'[b].sweep = Inbound(b)
        /\ opened' = "spawning" => Unspawned # {b}
    BY <1>9, SpawnIs
  <2>2. /\ NoProducer /\ NoConsumer /\ broker' \in [Brokers -> BrokerState]
        /\ \A a \in Brokers : a # b => broker'[a] = broker[a]
    BY <2>1 DEF BrokerOnly
  <2>3. \A a \in Brokers : BrokerFit(a)'
    <3> TAKE a \in Brokers
    <3>1. CASE a = b
      <4>1. BrokerFit(b) /\ Inbound(b)' = Inbound(b)
        BY <1>3, BrokeredParts, DeclSame
      <4> QED
        BY <1>3, <2>1, <3>1, <4>1 DEF BrokerFit, Moving
    <3>2. CASE a # b
      <4>1. broker'[a] = broker[a] /\ \A p \in Inbound(a) : Len(ring'[InRing(p)].q) >= Len(ring[InRing(p)].q)
        BY <1>7, <2>1, <2>2, <3>2
      <4> QED
        BY <1>1, <1>3, <2>1, <4>1, BrokerFitSame
    <3> QED
      BY <3>1, <3>2
  <2>4. opened' = "spawning" => \E a \in Brokers : broker'[a].pc = "unspawned"
    <3> HAVE opened' = "spawning"
    <3>1. b \in Unspawned /\ DOMAIN broker = Brokers
      BY <2>1, BrokeredParts DEF Unspawned
    <3>2. PICK a \in Unspawned : a # b
      BY <2>1, <3>1
    <3> QED
      BY <2>2, <3>1, <3>2 DEF Unspawned
  <2> QED
    BY <1>1, <1>3, <1>4, <1>5, <2>1, <2>2, <2>3, <2>4, BrokeredTypeIf
<1>10. ASSUME NEW b \in Brokers, SpawnFails(b) PROVE BrokeredType'
  <2>1. /\ opened' = "invalid" /\ UNCHANGED <<got, due, early, panicked>> /\ broker' \in [Brokers -> BrokerState]
        /\ \A a \in Brokers : broker'[a] = broker[a] \/ (broker'[a] = Finished /\ broker[a].pc = "unspawned")
        /\ prod' \in [Producers -> ProducerState] /\ \A p \in Producers : prod'[p].pc = "gone"
        /\ con' \in [Consumers -> ConsumerState(BrokeredRings)]
        /\ \A c \in Consumers : con'[c].pc = "gone" /\ con'[c].lanes = con[c].lanes /\ con'[c].staging = con[c].staging
        /\ live_producers' = 0
        /\ ring' \in [BrokeredRings -> RingState] /\ \A r \in BrokeredRings : ring'[r].q = ring[r].q
    BY <1>10, SpawnFailsIs
  <2>2. live_producers' = Cardinality(Alive)'
    BY <1>3, <2>1, NobodyAlive
  <2>3. \A a \in Brokers : BrokerFit(a)'
    <3> TAKE a \in Brokers
    <3>1. CASE broker'[a] = broker[a]
      <4>1. \A p \in Inbound(a) : Len(ring'[InRing(p)].q) >= Len(ring[InRing(p)].q)
        BY <1>6, <1>7, <2>1
      <4> QED
        BY <1>3, <2>1, <3>1, <4>1, BrokerFitSame
    <3>2. CASE broker'[a] = Finished
      <4>1. LET t == broker'[a] IN t.pc = "done" /\ t.i = 0 /\ t.targets = {} /\ t.sweep = {}
        BY <3>2 DEF Finished, IdleBroker
      <4> QED
        BY <4>1 DEF BrokerFit, Moving
    <3> QED
      BY <2>1, <3>1, <3>2
  <2>4. opened' = "spawning" => \E a \in Brokers : broker'[a].pc = "unspawned"
    BY <2>1
  <2> QED
    BY <1>1, <1>3, <2>1, <2>2, <2>3, <2>4, BrokeredTypeIf
<1> QED
  BY <1>3, <1>8, <1>9, <1>10 DEF BrokeredSteps

-----------------------------------------------------------------------------
(* Values that pass in order.                                              *)

LEMMA OrderedEmpty == Ordered(<<>>) /\ ToSet(<<>>) = {} /\ DOMAIN <<>> = {}
  BY EmptyIs DEF Ordered

LEMMA OrderedAppend ==
  ASSUME NEW s \in Seq(Values), NEW v \in Values, Ordered(s), \A u \in ToSet(s) : u[1] = v[1] => u[2] < v[2]
  PROVE  Ordered(Append(s, v))
<1> DEFINE t == Append(s, v)
           l == Len(s)
<1>1. /\ l \in Nat /\ DOMAIN t = 1 .. l + 1 /\ DOMAIN s = 1 .. l
      /\ \A i \in 1 .. l : t[i] = s[i]
      /\ t[l + 1] = v
  OBVIOUS
<1> HIDE DEF t, l
<1>2. \A i, j \in 1 .. l + 1 : i < j => i \in 1 .. l /\ (j \in 1 .. l \/ j = l + 1)
  BY <1>1
<1>3. \A i \in 1 .. l : s[i] \in ToSet(s)
  BY <1>1 DEF ToSet
<1>4. Ordered(t)
  <2> SUFFICES ASSUME NEW i \in 1 .. l + 1, NEW j \in 1 .. l + 1, i < j, t[i][1] = t[j][1] PROVE t[i][2] < t[j][2]
    BY <1>1 DEF Ordered
  <2>1. CASE j \in 1 .. l
    <3>1. i \in 1 .. l /\ t[i] = s[i] /\ t[j] = s[j]
      BY <1>1, <1>2, <2>1
    <3> QED
      BY <1>1, <2>1, <3>1 DEF Ordered
  <2>2. CASE j = l + 1
    <3>1. i \in 1 .. l /\ t[i] = s[i] /\ t[j] = v
      BY <1>1, <1>2, <2>2
    <3> QED
      BY <1>3, <3>1
  <2> QED
    BY <1>2, <2>1, <2>2
<1> QED
  BY <1>4 DEF t

LEMMA OrderedTail ==
  ASSUME NEW s \in Seq(Values), s # <<>>, Ordered(s)
  PROVE  /\ Tail(s) \in Seq(Values) /\ Head(s) \in Values /\ Ordered(Tail(s))
         /\ ToSet(s) = {Head(s)} \cup ToSet(Tail(s))
         /\ \A w \in ToSet(Tail(s)) : Head(s)[1] = w[1] => Head(s)[2] < w[2]
<1> DEFINE t == Tail(s)
           l == Len(s)
           h == Head(s)
<1>1. /\ l \in Nat \ {0} /\ t \in Seq(Values) /\ Len(t) = l - 1 /\ DOMAIN t = 1 .. l - 1 /\ DOMAIN s = 1 .. l
      /\ \A i \in 1 .. l - 1 : t[i] = s[i + 1]
      /\ h = s[1] /\ h \in Values
  OBVIOUS
<1> HIDE DEF t, l, h
<1>2. 1 \in 1 .. l /\ \A i \in 1 .. l - 1 : i + 1 \in 1 .. l /\ 1 < i + 1
  BY <1>1
<1>3. \A i \in 1 .. l : i = 1 \/ (i - 1 \in 1 .. l - 1 /\ (i - 1) + 1 = i)
  BY <1>1
<1>4. ToSet(s) = {h} \cup ToSet(t)
  <2>1. ASSUME NEW x \in ToSet(s) PROVE x = h \/ x \in ToSet(t)
    <3>1. PICK i \in 1 .. l : x = s[i]
      BY <1>1 DEF ToSet
    <3>2. CASE i = 1
      BY <1>1, <3>1, <3>2
    <3>3. CASE i - 1 \in 1 .. l - 1 /\ (i - 1) + 1 = i
      <4>1. x = t[i - 1]
        BY <1>1, <3>1, <3>3
      <4> QED
        BY <1>1, <3>3, <4>1 DEF ToSet
    <3> QED
      BY <1>3, <3>2, <3>3
  <2>2. ASSUME NEW x \in ToSet(t) PROVE x \in ToSet(s)
    <3>1. PICK i \in 1 .. l - 1 : x = t[i]
      BY <1>1 DEF ToSet
    <3>2. x = s[i + 1] /\ i + 1 \in 1 .. l
      BY <1>1, <1>2, <3>1
    <3> QED
      BY <1>1, <3>2 DEF ToSet
  <2>3. h \in ToSet(s)
    BY <1>1, <1>2 DEF ToSet
  <2> QED
    BY <2>1, <2>2, <2>3
<1>5. Ordered(t)
  <2> SUFFICES ASSUME NEW i \in 1 .. l - 1, NEW j \in 1 .. l - 1, i < j, t[i][1] = t[j][1] PROVE t[i][2] < t[j][2]
    BY <1>1 DEF Ordered
  <2>1. t[i] = s[i + 1] /\ t[j] = s[j + 1] /\ i + 1 < j + 1 /\ i + 1 \in 1 .. l /\ j + 1 \in 1 .. l
    BY <1>1, <1>2
  <2> QED
    BY <1>1, <2>1, ZenonT(60) DEF Ordered
<1>6. ASSUME NEW w \in ToSet(t), h[1] = w[1] PROVE h[2] < w[2]
  <2>1. PICK i \in 1 .. l - 1 : w = t[i]
    BY <1>1 DEF ToSet
  <2>2. w = s[i + 1] /\ i + 1 \in 1 .. l /\ 1 < i + 1 /\ 1 \in 1 .. l /\ h = s[1]
    BY <1>1, <1>2, <2>1
  <2> QED
    BY <1>1, <1>6, <2>2 DEF Ordered
<1> QED
  BY <1>1, <1>4, <1>5, <1>6 DEF t, h

LEMMA OrderedRest ==
  ASSUME NEW s \in Seq(Values), NEW n \in 0 .. Len(s), Ordered(s)
  PROVE  LET t == SubSeq(s, n + 1, Len(s)) IN
         /\ Ordered(t) /\ ToSet(t) \subseteq ToSet(s)
         /\ \A v \in ToSet(s) : v \in ToSet(t) \/ \E j \in 1 .. n : v = s[j]
         /\ \A j \in DOMAIN t : j + n \in DOMAIN s /\ j + n > n /\ t[j] = s[j + n]
<1> DEFINE l == Len(s)
           t == SubSeq(s, n + 1, l)
<1>1. t \in Seq(Values) /\ Len(t) = l - n /\ \A i \in 1 .. l - n : t[i] = s[n + i]
  BY SplitIs
<1>2. l \in Nat /\ n \in Nat /\ DOMAIN s = 1 .. l /\ DOMAIN t = 1 .. l - n /\ n <= l
  <2>1. l \in Nat /\ n \in Nat /\ DOMAIN s = 1 .. l /\ n <= l
    OBVIOUS
  <2> HIDE DEF t, l
  <2>2. DOMAIN t = 1 .. Len(t)
    BY <1>1
  <2> QED
    BY <1>1, <2>1, <2>2
<1> HIDE DEF t, l
<1>3. \A j \in 1 .. l - n : j + n \in 1 .. l /\ j + n > n /\ n + j = j + n
  BY <1>2
<1>4. \A j \in 1 .. l - n : j + n \in 1 .. l /\ j + n > n /\ t[j] = s[j + n]
  BY <1>1, <1>3
<1>5. Ordered(t)
  <2> SUFFICES ASSUME NEW i \in 1 .. l - n, NEW j \in 1 .. l - n, i < j, t[i][1] = t[j][1] PROVE t[i][2] < t[j][2]
    BY <1>2 DEF Ordered
  <2>1. t[i] = s[i + n] /\ t[j] = s[j + n] /\ i + n < j + n /\ i + n \in 1 .. l /\ j + n \in 1 .. l
    BY <1>2, <1>4
  <2> QED
    BY <1>2, <2>1 DEF Ordered
<1>6. ASSUME NEW x \in ToSet(t) PROVE x \in ToSet(s)
  <2>1. PICK j \in 1 .. l - n : x = t[j]
    BY <1>2 DEF ToSet
  <2>2. x = s[j + n] /\ j + n \in 1 .. l
    BY <1>4, <2>1
  <2> QED
    BY <1>2, <2>2 DEF ToSet
<1>7. ASSUME NEW v \in ToSet(s) PROVE v \in ToSet(t) \/ \E j \in 1 .. n : v = s[j]
  <2>1. PICK k \in 1 .. l : v = s[k]
    BY <1>2 DEF ToSet
  <2>2. CASE k <= n
    BY <1>2, <2>1, <2>2
  <2>3. CASE k > n
    <3>1. k - n \in 1 .. l - n /\ (k - n) + n = k
      BY <1>2, <2>3
    <3>2. v = t[k - n]
      BY <1>4, <2>1, <3>1
    <3> QED
      BY <1>2, <3>1, <3>2 DEF ToSet
  <2> QED
    BY <1>2, <2>2, <2>3
<1> QED
  BY <1>2, <1>4, <1>5, <1>6, <1>7 DEF t, l

\* A producer's value goes behind those that are queued.
LEMMA FreshOne ==
  ASSUME prod \in [Producers -> ProducerState], NEW p \in Producers, NEW s \in Seq(Values)
  PROVE  LET v == <<p, prod[p].next>> IN
         s \o Fresh(p, 1) = Append(s, v) /\ v \in Values /\ ToSet(Fresh(p, 1)) = {v}
<1> DEFINE v == <<p, prod[p].next>>
           f == Fresh(p, 1)
<1>1. /\ f \in Seq(Values) /\ Len(f) = 1 /\ \A i \in 1 .. 1 : f[i] = <<p, prod[p].next + i - 1>>
  BY FreshIs
<1>2. prod[p].next \in Nat \ {0} /\ prod[p].next + 1 - 1 = prod[p].next
  BY DEF ProducerState
<1>3. f[1] = v /\ v \in Values /\ DOMAIN f = 1 .. 1
  BY <1>1, <1>2 DEF Values
<1> HIDE DEF f, v
<1>4. f = <<v>>
  BY <1>1, <1>3
<1>5. s \o <<v>> = Append(s, v)
  BY <1>3
<1>6. ToSet(f) = {v}
  BY <1>3 DEF ToSet
<1> QED
  BY <1>3, <1>4, <1>5, <1>6 DEF f, v

\* What the order says of the rings and the consumers.
LEMMA OrderParts ==
  ASSUME BrokeredType, BrokeredOrder
  PROVE  /\ \A p \in Producers : Ordered(ring[InRing(p)].q) /\ \A v \in ToSet(ring[InRing(p)].q) : v[1] = p /\ v \in Accepted
         /\ \A c \in Consumers : Ordered(got[c]) /\ ToSet(got[c]) \subseteq Accepted
         /\ \A c \in Consumers, b \in Brokers :
              /\ Ordered(ring[OutRing(b, c)].q)
              /\ \A v \in ToSet(ring[OutRing(b, c)].q) : v \in Accepted /\ BrokerOf(v[1]) = b
              /\ \A v \in ToSet(got[c]), w \in ToSet(ring[OutRing(b, c)].q) : v[1] = w[1] => v[2] < w[2]
         /\ \A c \in Consumers, p \in Producers : \A j \in DOMAIN ring[InRing(p)].q :
              Left(c, p, j) => \A v \in Accepted : v[1] = p /\ Reaches(c, v) => v[2] < ring[InRing(p)].q[j][2]
         /\ \A v \in Accepted : v \in Values /\ v[1] \in Producers /\ v[2] \in Nat
<1>1. Accepted = {v \in Values : v[2] < prod[v[1]].next}
  BY AcceptedIs, BrokeredParts
<1>2. \A v \in Accepted : v \in Values /\ v[1] \in Producers /\ v[2] \in Nat
  BY <1>1 DEF Values
<1>3. \A p \in Producers : Ordered(ring[InRing(p)].q) /\ \A v \in ToSet(ring[InRing(p)].q) : v[1] = p /\ v \in Accepted
  BY DEF BrokeredOrder, InOrder, Queued
<1>4. /\ \A c \in Consumers : Ordered(got[c]) /\ ToSet(got[c]) \subseteq Accepted
      /\ \A c \in Consumers, b \in Brokers :
              /\ Ordered(ring[OutRing(b, c)].q)
              /\ \A v \in ToSet(ring[OutRing(b, c)].q) : v \in Accepted /\ BrokerOf(v[1]) = b
              /\ \A v \in ToSet(got[c]), w \in ToSet(ring[OutRing(b, c)].q) : v[1] = w[1] => v[2] < w[2]
  BY DEF BrokeredOrder, OutOrder, Queued
<1>5. \A c \in Consumers, p \in Producers : \A j \in DOMAIN ring[InRing(p)].q :
        Left(c, p, j) => \A v \in Accepted : v[1] = p /\ Reaches(c, v) => v[2] < ring[InRing(p)].q[j][2]
  BY DEF BrokeredOrder, LeftOrder
<1> QED
  BY <1>2, <1>3, <1>4, <1>5

\* The same after a step.
LEMMA OrderIf ==
  ASSUME decl' = decl,
         \A p \in Producers : /\ Ordered(ring'[InRing(p)].q)
                              /\ \A v \in ToSet(ring'[InRing(p)].q) : v[1] = p /\ v \in Accepted',
         \A c \in Consumers : Ordered(got'[c]) /\ ToSet(got'[c]) \subseteq Accepted',
         \A c \in Consumers, b \in Brokers :
           /\ Ordered(ring'[OutRing(b, c)].q)
           /\ \A v \in ToSet(ring'[OutRing(b, c)].q) : v \in Accepted' /\ BrokerOf(v[1]) = b
           /\ \A v \in ToSet(got'[c]), w \in ToSet(ring'[OutRing(b, c)].q) : v[1] = w[1] => v[2] < w[2],
         \A c \in Consumers, p \in Producers : \A j \in DOMAIN ring'[InRing(p)].q :
           Left(c, p, j)' => \A v \in Accepted' : v[1] = p /\ Reaches(c, v)' => v[2] < ring'[InRing(p)].q[j][2]
  PROVE  BrokeredOrder'
<1>1. /\ Producers' = Producers /\ Consumers' = Consumers /\ Brokers' = Brokers /\ \A p : BrokerOf(p)' = BrokerOf(p)
  BY DeclSame
<1>2. \A p, b, c : InRing(p)' = InRing(p) /\ OutRing(b, c)' = OutRing(b, c)
  BY DEF InRing, OutRing
<1>3. \A p \in Producers : InOrder(p)'
  BY DEF InOrder, Queued, InRing, Ordered
<1>4. \A c \in Consumers : OutOrder(c)'
  <2> TAKE c \in Consumers
  <2>1. \A b \in Brokers :
           /\ Ordered(ring'[OutRing(b, c)].q)
           /\ \A v \in ToSet(ring'[OutRing(b, c)].q) : v \in Accepted' /\ BrokerOf(v[1])' = b
           /\ \A v \in ToSet(got'[c]), w \in ToSet(ring'[OutRing(b, c)].q) : v[1] = w[1] => v[2] < w[2]
    BY <1>1
  <2> QED
    BY <1>1, <2>1 DEF OutOrder, Queued, OutRing, Ordered
<1>5. \A c \in Consumers : LeftOrder(c)'
  <2> TAKE c \in Consumers
  <2>1. \A p \in Producers : \A j \in DOMAIN ring'[InRing(p)].q :
           Left(c, p, j)' => \A v \in Accepted' : v[1] = p /\ Reaches(c, v)' => v[2] < ring'[InRing(p)].q[j][2]
    OBVIOUS
  <2> QED
    BY <1>1, <2>1, Zenon DEF LeftOrder, InRing
<1> QED
  BY <1>1, <1>3, <1>4, <1>5 DEF BrokeredOrder

\* Left and Reaches after a step, in terms of the state.
LEMMA LeftNext ==
  ASSUME decl' = decl
  PROVE  /\ \A c, p, j : Left(c, p, j)' <=> LeftOf(broker'[BrokerOf(p)], c, p, j)
         /\ \A c, v : Reaches(c, v)' <=> v \in ToSet(got'[c]) \/ v \in ToSet(ring'[OutRing(BrokerOf(v[1]), c)].q)
<1>1. \A p : BrokerOf(p)' = BrokerOf(p)
  BY DeclSame
<1>2. \A c, p, j : Left(c, p, j)' <=> LeftOf(broker'[BrokerOf(p)], c, p, j)
  <2> TAKE c, p, j
  <2>1. BrokerOf(p)' = BrokerOf(p)
    BY <1>1
  <2> QED
    BY <2>1 DEF Left, LeftOf
<1>3. \A c, v : Reaches(c, v)' <=> v \in ToSet(got'[c]) \/ v \in ToSet(ring'[OutRing(BrokerOf(v[1]), c)].q)
  <2> TAKE c, v
  <2>1. BrokerOf(v[1])' = BrokerOf(v[1])
    BY <1>1
  <2> QED
    BY <2>1 DEF Reaches, Queued, OutRing
<1> QED
  BY <1>2, <1>3

\* A step that gives nobody anything, and at most empties rings.
LEMMA OrderKeeps ==
  ASSUME BrokeredType, BrokeredOrder, decl' = decl, got' = got, Accepted' = Accepted,
         \A r \in BrokeredRings : ring'[r].q = ring[r].q \/ ring'[r].q = <<>>,
         \A c \in Consumers, p \in Producers : \A j \in DOMAIN ring[InRing(p)].q :
           LeftOf(broker'[BrokerOf(p)], c, p, j) /\ ring'[InRing(p)].q = ring[InRing(p)].q => Left(c, p, j)
  PROVE  BrokeredOrder'
<1>1. \A p \in Producers : /\ Ordered(ring'[InRing(p)].q)
                           /\ \A v \in ToSet(ring'[InRing(p)].q) : v[1] = p /\ v \in Accepted'
  <2> TAKE p \in Producers
  <2>1. ring'[InRing(p)].q = ring[InRing(p)].q \/ ring'[InRing(p)].q = <<>>
    BY RingsAre
  <2> QED
    BY <2>1, OrderParts, OrderedEmpty
<1>2. \A c \in Consumers : Ordered(got'[c]) /\ ToSet(got'[c]) \subseteq Accepted'
  BY OrderParts
<1>3. \A c \in Consumers, b \in Brokers :
           /\ Ordered(ring'[OutRing(b, c)].q)
           /\ \A v \in ToSet(ring'[OutRing(b, c)].q) : v \in Accepted' /\ BrokerOf(v[1]) = b
           /\ \A v \in ToSet(got'[c]), w \in ToSet(ring'[OutRing(b, c)].q) : v[1] = w[1] => v[2] < w[2]
  <2> TAKE c \in Consumers, b \in Brokers
  <2>1. ring'[OutRing(b, c)].q = ring[OutRing(b, c)].q \/ ring'[OutRing(b, c)].q = <<>>
    BY RingsAre
  <2> QED
    BY <2>1, OrderParts, OrderedEmpty
<1>4. ASSUME NEW c \in Consumers, NEW p \in Producers, NEW j \in DOMAIN ring'[InRing(p)].q, Left(c, p, j)',
             NEW v \in Accepted', v[1] = p, Reaches(c, v)'
      PROVE  v[2] < ring'[InRing(p)].q[j][2]
  <2>1. ring'[InRing(p)].q = ring[InRing(p)].q /\ j \in DOMAIN ring[InRing(p)].q
    <3>1. ring'[InRing(p)].q = ring[InRing(p)].q \/ ring'[InRing(p)].q = <<>>
      BY RingsAre
    <3> QED
      BY <1>4, <3>1, OrderedEmpty
  <2>2. Left(c, p, j)
    BY <1>4, <2>1, LeftNext
  <2>3. v \in Accepted /\ v[1] \in Producers
    BY <1>4
  <2>4. OutRing(BrokerOf(v[1]), c) \in BrokeredRings
    BY <2>3, BrokeredParts, BrokerOfIs, RingsAre
  <2>5. Reaches(c, v)
    BY <1>4, <2>4, LeftNext, OrderedEmpty DEF Reaches, Queued
  <2> QED
    BY <1>4, <2>1, <2>2, <2>3, <2>5, OrderParts
<1> QED
  BY <1>1, <1>2, <1>3, <1>4, OrderIf

\* A producer's value goes in.
LEMMA OrderSent ==
  ASSUME BrokeredType, BrokeredOrder, decl' = decl, NEW p \in Producers, got' = got, broker' = broker,
         prod' \in [Producers -> ProducerState],
         prod'[p].next = prod[p].next + 1, \A q \in Producers : q # p => prod'[q].next = prod[q].next,
         ring' \in [BrokeredRings -> RingState],
         ring'[InRing(p)] = [ring[InRing(p)] EXCEPT !.q = ring[InRing(p)].q \o Fresh(p, 1)],
         \A o \in BrokeredRings : o # InRing(p) => ring'[o] = ring[o]
  PROVE  BrokeredOrder'
<1> DEFINE q == ring[InRing(p)].q
           x == <<p, prod[p].next>>
           w == Append(q, x)
<1>1. q \in Seq(Values) /\ prod \in [Producers -> ProducerState] /\ InRing(p) \in BrokeredRings
  BY BrokeredParts, RingsAre
<1>2. q \o Fresh(p, 1) = w /\ x \in Values /\ ToSet(Fresh(p, 1)) = {x} /\ x[1] = p
  BY <1>1, FreshOne
<1>3. ring'[InRing(p)].q = w
  BY <1>1, <1>2, BrokeredParts DEF RingState
<1>4. /\ Accepted' = Accepted \cup ToSet(Fresh(p, 1))
      /\ \A v \in Accepted, u \in ToSet(Fresh(p, 1)) : v[1] = u[1] => v[2] < u[2]
  <2>1. 1 \in Nat
    OBVIOUS
  <2> QED
    BY <1>1, <2>1, AcceptedGrows
<1>5. Accepted' = Accepted \cup {x} /\ \A v \in Accepted : v[1] = p => v[2] < x[2]
  BY <1>2, <1>4
<1>6. \A u \in Producers : u # p => ring'[InRing(u)] = ring[InRing(u)]
  BY RingsAre
<1>7. \A b \in Brokers, c \in Consumers : ring'[OutRing(b, c)] = ring[OutRing(b, c)]
  BY RingsAre
<1>8. Ordered(w) /\ ToSet(w) = ToSet(q) \cup {x}
  <2>1. \A u \in ToSet(q) : u[1] = x[1] => u[2] < x[2]
    BY <1>2, <1>5, OrderParts
  <2> QED
    <3>1. Ordered(q)
      BY OrderParts
    <3>2. q \in Seq(Values) /\ x \in Values
      BY <1>1, <1>2
    <3> HIDE DEF q, x
    <3> QED
      BY <2>1, <3>1, <3>2, OrderedAppend, AppendIs
<1>9. \A u \in Producers : /\ Ordered(ring'[InRing(u)].q)
                           /\ \A v \in ToSet(ring'[InRing(u)].q) : v[1] = u /\ v \in Accepted'
  <2> TAKE u \in Producers
  <2>1. CASE u = p
    <3> HIDE DEF w, x
    <3> QED
      BY <1>2, <1>3, <1>5, <1>8, <2>1, OrderParts
  <2>2. CASE u # p
    BY <1>5, <1>6, <2>2, OrderParts
  <2> QED
    BY <2>1, <2>2
<1>10. \A c \in Consumers : Ordered(got'[c]) /\ ToSet(got'[c]) \subseteq Accepted'
  BY <1>5, OrderParts
<1>11. \A c \in Consumers, b \in Brokers :
           /\ Ordered(ring'[OutRing(b, c)].q)
           /\ \A v \in ToSet(ring'[OutRing(b, c)].q) : v \in Accepted' /\ BrokerOf(v[1]) = b
           /\ \A v \in ToSet(got'[c]), u \in ToSet(ring'[OutRing(b, c)].q) : v[1] = u[1] => v[2] < u[2]
  BY <1>5, <1>7, OrderParts
<1>12. ASSUME NEW c \in Consumers, NEW u \in Producers, NEW j \in DOMAIN ring'[InRing(u)].q, Left(c, u, j)',
              NEW v \in Accepted', v[1] = u, Reaches(c, v)'
       PROVE  v[2] < ring'[InRing(u)].q[j][2]
  <2>1. Reaches(c, v)
    <3>1. BrokerOf(v[1]) \in Brokers
      BY <1>12, BrokeredParts, BrokerOfIs
    <3> QED
      BY <1>7, <1>12, <3>1, LeftNext DEF Reaches, Queued
  <2>2. v \in Accepted
    <3>1. BrokerOf(v[1]) \in Brokers
      BY <1>12, BrokeredParts, BrokerOfIs
    <3> QED
      BY <2>1, <3>1, OrderParts DEF Reaches, Queued
  <2>3. Left(c, u, j)
    BY <1>12, LeftNext DEF Left
  <2>4. CASE ring'[InRing(u)].q = ring[InRing(u)].q
    BY <1>12, <2>1, <2>2, <2>3, <2>4, OrderParts
  <2>5. CASE u = p
    <3> DEFINE l == Len(q)
    <3>1. l \in Nat /\ DOMAIN w = 1 .. l + 1 /\ DOMAIN q = 1 .. l /\ w[l + 1] = x /\ \A k \in 1 .. l : w[k] = q[k]
      BY <1>1, <1>2
    <3> HIDE DEF w, x, l
    <3>2. j \in 1 .. l \/ j = l + 1
      <4>1. j \in 1 .. l + 1
        BY <1>3, <2>5, <3>1
      <4> QED
        BY <3>1, <4>1
    <3>3. CASE j \in 1 .. l
      <4>1. j \in DOMAIN q /\ ring'[InRing(p)].q[j] = q[j]
        BY <1>3, <3>1, <3>3
      <4> QED
        BY <1>12, <2>1, <2>2, <2>3, <2>5, <4>1, OrderParts
    <3>4. CASE j = l + 1
      BY <1>3, <1>5, <1>12, <2>2, <2>5, <3>1, <3>4
    <3> QED
      BY <3>2, <3>3, <3>4
  <2> QED
    BY <1>6, <2>4, <2>5
<1> QED
  BY <1>9, <1>10, <1>11, <1>12, OrderIf

\* A consumer takes the first value of one of its rings.
LEMMA OrderTaken ==
  ASSUME BrokeredType, BrokeredOrder, decl' = decl, NEW c0 \in Consumers, NEW b0 \in Brokers,
         broker' = broker, Accepted' = Accepted, ring[OutRing(b0, c0)].q # <<>>,
         ring'[OutRing(b0, c0)] = [ring[OutRing(b0, c0)] EXCEPT !.q = Tail(ring[OutRing(b0, c0)].q)],
         \A o \in BrokeredRings : o # OutRing(b0, c0) => ring'[o] = ring[o],
         got'[c0] = Append(got[c0], Head(ring[OutRing(b0, c0)].q)),
         \A d \in Consumers : d # c0 => got'[d] = got[d]
  PROVE  BrokeredOrder' /\ \A c \in Consumers, v \in Accepted : Reaches(c, v)' <=> Reaches(c, v)
<1> DEFINE r == OutRing(b0, c0)
           q == ring[r].q
           h == Head(q)
           g == got[c0]
<1>1. r \in BrokeredRings /\ q \in Seq(Values) /\ q # <<>> /\ Ordered(q) /\ g \in Seq(Values) /\ Ordered(g) /\ ring[r] \in RingState
  BY BrokeredParts, RingsAre, OrderParts
<1>2. ring'[r].q = Tail(q)
  BY <1>1 DEF RingState
<1>3. got'[c0] = Append(g, h)
  OBVIOUS
<1>4. h \in ToSet(q) => h \in Accepted /\ BrokerOf(h[1]) = b0
  BY OrderParts
<1>5. \A v \in ToSet(g), w \in ToSet(q) : v[1] = w[1] => v[2] < w[2]
  BY OrderParts
<1>6. ToSet(q) \subseteq Accepted /\ \A v \in ToSet(q) : BrokerOf(v[1]) = b0
  BY OrderParts
<1> HIDE DEF q, g
<1>7. /\ Tail(q) \in Seq(Values) /\ h \in Values /\ Ordered(Tail(q)) /\ ToSet(q) = {h} \cup ToSet(Tail(q))
      /\ \A w \in ToSet(Tail(q)) : h[1] = w[1] => h[2] < w[2]
  BY <1>1, OrderedTail
<1> HIDE DEF h
<1>8. ToSet(got'[c0]) = ToSet(g) \cup {h} /\ Ordered(got'[c0])
  <2>1. \A u \in ToSet(g) : u[1] = h[1] => u[2] < h[2]
    BY <1>5, <1>7
  <2> QED
    <3>1. g \in Seq(Values) /\ Ordered(g) /\ h \in Values
      BY <1>1, <1>7
    <3>2. Ordered(Append(g, h))
      BY <2>1, <3>1, OrderedAppend
    <3>3. ToSet(Append(g, h)) = ToSet(g) \cup {h}
      BY <3>1, AppendIs
    <3> QED
      BY <1>3, <3>2, <3>3
<1>9. \A p \in Producers : ring'[InRing(p)] = ring[InRing(p)]
  BY RingsAre
<1>10. \A b \in Brokers, c \in Consumers : b # b0 \/ c # c0 => ring'[OutRing(b, c)] = ring[OutRing(b, c)]
  BY RingsAre
<1>11. \A p \in Producers : /\ Ordered(ring'[InRing(p)].q)
                            /\ \A v \in ToSet(ring'[InRing(p)].q) : v[1] = p /\ v \in Accepted'
  BY <1>9, OrderParts
<1>12. \A c \in Consumers : Ordered(got'[c]) /\ ToSet(got'[c]) \subseteq Accepted'
  <2> TAKE c \in Consumers
  <2>1. CASE c = c0
    BY <1>4, <1>7, <1>8, <2>1, OrderParts DEF g
  <2>2. CASE c # c0
    BY <2>2, OrderParts
  <2> QED
    BY <2>1, <2>2
<1>13. \A c \in Consumers, b \in Brokers :
           /\ Ordered(ring'[OutRing(b, c)].q)
           /\ \A v \in ToSet(ring'[OutRing(b, c)].q) : v \in Accepted' /\ BrokerOf(v[1]) = b
           /\ \A v \in ToSet(got'[c]), w \in ToSet(ring'[OutRing(b, c)].q) : v[1] = w[1] => v[2] < w[2]
  <2> TAKE c \in Consumers, b \in Brokers
  <2>1. CASE c # c0
    BY <1>10, <2>1, OrderParts
  <2>2. CASE c = c0 /\ b = b0
    BY <1>2, <1>5, <1>6, <1>7, <1>8, <2>2 DEF r
  <2>3. CASE c = c0 /\ b # b0
    <3>1. /\ Ordered(ring'[OutRing(b, c)].q)
          /\ \A v \in ToSet(ring'[OutRing(b, c)].q) : v \in Accepted' /\ BrokerOf(v[1]) = b
          /\ \A v \in ToSet(g), w \in ToSet(ring'[OutRing(b, c)].q) : v[1] = w[1] => v[2] < w[2]
      BY <1>10, <2>3, OrderParts DEF g
    <3>2. BrokerOf(h[1]) = b0
      BY <1>4, <1>7
    <3>3. ASSUME NEW v \in ToSet(got'[c]), NEW w \in ToSet(ring'[OutRing(b, c)].q), v[1] = w[1] PROVE v[2] < w[2]
      <4>1. v \in ToSet(g) \/ v = h
        BY <1>8, <2>3
      <4>2. v # h
        BY <2>3, <3>1, <3>2, <3>3
      <4> QED
        BY <3>1, <3>3, <4>1, <4>2
    <3> QED
      BY <3>1, <3>3
  <2> QED
    BY <2>1, <2>2, <2>3
<1>14. ASSUME NEW c \in Consumers, NEW v \in Accepted PROVE Reaches(c, v)' <=> Reaches(c, v)
  <2>1. BrokerOf(v[1]) \in Brokers
    BY BrokeredParts, BrokerOfIs, OrderParts
  <2>2. Reaches(c, v)' <=> v \in ToSet(got'[c]) \/ v \in ToSet(ring'[OutRing(BrokerOf(v[1]), c)].q)
    BY LeftNext
  <2>3. Reaches(c, v) <=> v \in ToSet(got[c]) \/ v \in ToSet(ring[OutRing(BrokerOf(v[1]), c)].q)
    BY DEF Reaches, Queued
  <2>4. CASE c # c0
    BY <1>10, <2>1, <2>2, <2>3, <2>4
  <2>5. CASE c = c0 /\ BrokerOf(v[1]) # b0
    <3>1. v # h
      BY <1>4, <1>7, <2>5
    <3> QED
      BY <1>8, <1>10, <2>1, <2>2, <2>3, <2>5, <3>1 DEF g
  <2>6. CASE c = c0 /\ BrokerOf(v[1]) = b0
    BY <1>2, <1>7, <1>8, <2>2, <2>3, <2>6 DEF g, q, r
  <2> QED
    BY <2>4, <2>5, <2>6
<1>15. ASSUME NEW c \in Consumers, NEW p \in Producers, NEW j \in DOMAIN ring'[InRing(p)].q, Left(c, p, j)',
              NEW v \in Accepted', v[1] = p, Reaches(c, v)'
       PROVE  v[2] < ring'[InRing(p)].q[j][2]
  <2>1. Left(c, p, j)
    BY <1>15, LeftNext DEF Left
  <2>2. Reaches(c, v) /\ v \in Accepted
    BY <1>14, <1>15
  <2> QED
    BY <1>9, <1>15, <2>1, <2>2, OrderParts
<1> QED
  BY <1>11, <1>12, <1>13, <1>14, <1>15, OrderIf

\* What was moved leaves its ring.
LEMMA OrderCommitted ==
  ASSUME BrokeredType, BrokeredOrder, decl' = decl, NEW b0 \in Brokers, got' = got, Accepted' = Accepted,
         Commits(b0), broker[b0].pc = "deliver", broker[b0].i = broker[b0].n, broker'[b0].pc = "sweep",
         \A b \in Brokers : b # b0 => broker'[b] = broker[b]
  PROVE  BrokeredOrder'
<1> DEFINE s == broker[b0]
           a == s.at
           n == s.n
           q == ring[InRing(a)].q
           w == SubSeq(q, n + 1, Len(q))
<1>1. /\ a \in Producers /\ BrokerOf(a) = b0 /\ n \in Nat /\ n <= Len(q) /\ q \in Seq(Values) /\ Len(q) \in Nat
  BY MovingIs DEF Moving
<1>2. ring'[InRing(a)] = [ring[InRing(a)] EXCEPT !.q = w] /\ \A o \in BrokeredRings : o # InRing(a) => ring'[o] = ring[o]
  BY DEF Commits
<1>3. ring[InRing(a)] \in RingState /\ Ordered(q)
  BY <1>1, BrokeredParts, RingsAre, OrderParts
<1>4. ring'[InRing(a)].q = w
  BY <1>2, <1>3 DEF RingState
<1>5. /\ Ordered(w) /\ ToSet(w) \subseteq ToSet(q)
      /\ \A j \in DOMAIN w : j + n \in DOMAIN q /\ j + n > n /\ w[j] = q[j + n]
  <2>1. n \in 0 .. Len(q)
    BY <1>1
  <2> HIDE DEF n, q
  <2> QED
    BY <1>1, <1>3, <2>1, OrderedRest
<1>6. \A p \in Producers : p # a => ring'[InRing(p)] = ring[InRing(p)]
  BY <1>1, <1>2, RingsAre
<1>7. \A b \in Brokers, c \in Consumers : ring'[OutRing(b, c)] = ring[OutRing(b, c)]
  BY <1>1, <1>2, RingsAre
<1>8. \A p \in Producers : /\ Ordered(ring'[InRing(p)].q)
                           /\ \A v \in ToSet(ring'[InRing(p)].q) : v[1] = p /\ v \in Accepted'
  <2> TAKE p \in Producers
  <2>1. CASE p = a
    BY <1>4, <1>5, <2>1, OrderParts
  <2>2. CASE p # a
    BY <1>6, <2>2, OrderParts
  <2> QED
    BY <2>1, <2>2
<1>9. \A c \in Consumers : Ordered(got'[c]) /\ ToSet(got'[c]) \subseteq Accepted'
  BY OrderParts
<1>10. \A c \in Consumers, b \in Brokers :
           /\ Ordered(ring'[OutRing(b, c)].q)
           /\ \A v \in ToSet(ring'[OutRing(b, c)].q) : v \in Accepted' /\ BrokerOf(v[1]) = b
           /\ \A v \in ToSet(got'[c]), u \in ToSet(ring'[OutRing(b, c)].q) : v[1] = u[1] => v[2] < u[2]
  BY <1>7, OrderParts
<1>11. ASSUME NEW c \in Consumers, NEW p \in Producers, NEW j \in DOMAIN ring'[InRing(p)].q, Left(c, p, j)',
              NEW v \in Accepted', v[1] = p, Reaches(c, v)'
       PROVE  v[2] < ring'[InRing(p)].q[j][2]
  <2>1. Reaches(c, v) /\ v \in Accepted
    <3>1. BrokerOf(v[1]) \in Brokers
      BY <1>11, BrokeredParts, BrokerOfIs
    <3> QED
      BY <1>7, <1>11, <3>1, LeftNext DEF Reaches, Queued
  <2>2. CASE p = a
    <3>1. j \in DOMAIN w
      BY <1>4, <2>2
    <3>2. j + n \in DOMAIN q /\ j + n > n /\ w[j] = q[j + n]
      BY <1>5, <3>1
    <3>3. Left(c, p, j + n)
      <4>1. j + n \in Nat
        BY <1>1, <3>2
      <4>2. j + n > s.i + 1 \/ j + n = s.i + 1
        BY <1>1, <3>2, <4>1
      <4> QED
        BY <1>1, <2>2, <4>2 DEF Left, LeftOf
    <3> QED
      <4>1. \A k \in DOMAIN ring[InRing(p)].q :
              Left(c, p, k) => \A u \in Accepted : u[1] = p /\ Reaches(c, u) => u[2] < ring[InRing(p)].q[k][2]
        BY OrderParts
      <4>2. v[2] < q[j + n][2]
        BY <1>11, <2>1, <2>2, <3>2, <3>3, <4>1
      <4>3. ring'[InRing(p)].q[j] = q[j + n]
        BY <1>4, <2>2, <3>2
      <4> QED
        BY <4>2, <4>3
  <2>3. CASE p # a
    <3>1. Left(c, p, j)
      <4>1. CASE BrokerOf(p) = b0
        BY <2>3, <4>1 DEF Left, LeftOf
      <4>2. CASE BrokerOf(p) # b0
        <5>1. broker'[BrokerOf(p)] = broker[BrokerOf(p)]
          BY <4>2, BrokeredParts, BrokerOfIs
        <5> QED
          BY <1>11, <5>1, LeftNext DEF Left
      <4> QED
        BY <4>1, <4>2
    <3> QED
      BY <1>6, <1>11, <2>1, <2>3, <3>1, OrderParts
  <2> QED
    BY <2>2, <2>3
<1> QED
  BY <1>8, <1>9, <1>10, <1>11, OrderIf

\* A value that is still to be moved to a consumer has not reached it.
LEMMA Unreached ==
  ASSUME BrokeredType, BrokeredOrder, NEW b \in Brokers, broker[b].pc \in Moving, broker[b].i < broker[b].n,
         NEW c \in Consumers, broker[b].pc = "deliver" \/ decl.routing = "RoundRobin" \/ c \in broker[b].targets
  PROVE  /\ Item(b) \in Accepted /\ Item(b)[1] = broker[b].at /\ ~Reaches(c, Item(b))
         /\ \A v \in Accepted : v[1] = broker[b].at /\ Reaches(c, v) => v[2] < Item(b)[2]
<1> DEFINE s == broker[b]
           a == s.at
           q == ring[InRing(a)].q
           k == s.i + 1
<1>1. a \in Producers /\ BrokerOf(a) = b /\ k \in DOMAIN q /\ Item(b) = q[k]
  BY MovingIs
<1>2. Left(c, a, k)
  BY <1>1 DEF Left, LeftOf
<1>3. \A j \in DOMAIN q : Left(c, a, j) => \A v \in Accepted : v[1] = a /\ Reaches(c, v) => v[2] < q[j][2]
  BY <1>1, OrderParts
<1>4. \A v \in Accepted : v[1] = a /\ Reaches(c, v) => v[2] < Item(b)[2]
  BY <1>1, <1>2, <1>3
<1>5. Item(b) \in ToSet(q)
  BY <1>1 DEF ToSet
<1>6. Item(b) \in Accepted /\ Item(b)[1] = a /\ Item(b)[2] \in Nat
  BY <1>1, <1>5, OrderParts
<1>7. ~(Item(b)[2] < Item(b)[2])
  BY <1>6
<1> QED
  BY <1>4, <1>6, <1>7

\* A broker goes on with the value it moves, or to the next one.
LEMMA LeftShrinks ==
  ASSUME BrokeredType, NEW b \in Brokers, broker[b].pc \in Moving,
         \/ Onward(b)
         \/ /\ Stays(b)
            /\ broker[b].pc = "deliver" \/ decl.routing = "RoundRobin" \/ broker'[b].targets \subseteq broker[b].targets,
         NEW c, NEW p, NEW j \in Nat, LeftOf(broker'[b], c, p, j)
  PROVE  LeftOf(broker[b], c, p, j)
<1> DEFINE s == broker[b]
           t == broker'[b]
<1>1. s.i \in Nat
  BY MovingIs
<1>2. CASE p # s.at
  BY <1>2 DEF LeftOf
<1>3. CASE p = s.at /\ Onward(b)
  <2>1. t.pc = "deliver" /\ t.i = s.i + 1 /\ t.at = s.at
    BY <1>3 DEF Onward, SamePlace
  <2>2. j > t.i + 1 \/ j = t.i + 1
    BY <1>3, <2>1 DEF LeftOf, Moving
  <2>3. j > s.i + 1
    BY <1>1, <2>1, <2>2
  <2> QED
    BY <2>3 DEF LeftOf
<1>4. CASE p = s.at /\ Stays(b) /\ (s.pc = "deliver" \/ decl.routing = "RoundRobin" \/ t.targets \subseteq s.targets)
  <2>1. t.pc = "forward" /\ t.i = s.i /\ t.at = s.at
    BY <1>4 DEF Stays, SamePlace
  <2>2. j > s.i + 1 \/ (j = s.i + 1 /\ (decl.routing = "RoundRobin" \/ c \in t.targets))
    BY <1>4, <2>1 DEF LeftOf, Moving
  <2> QED
    BY <1>4, <2>2 DEF LeftOf
<1> QED
  BY <1>2, <1>3, <1>4

\* A broker pushes a value to a consumer.
LEMMA OrderPushed ==
  ASSUME BrokeredType, BrokeredOrder, decl' = decl, NEW b0 \in Brokers, NEW c0 \in Consumers, got' = got,
         Accepted' = Accepted, broker[b0].pc = "forward", Pushes(b0, c0),
         \A b \in Brokers : b # b0 => broker'[b] = broker[b],
         c0 \in broker[b0].targets \/ decl.routing = "RoundRobin",
         \/ Onward(b0)
         \/ Stays(b0) /\ broker'[b0].targets = broker[b0].targets \ {c0} /\ decl.routing # "RoundRobin"
  PROVE  /\ BrokeredOrder'
         /\ \A c \in Consumers, v \in Accepted : Reaches(c, v)' <=> Reaches(c, v) \/ (c = c0 /\ v = Item(b0))
<1> DEFINE s == broker[b0]
           t == broker'[b0]
           a == s.at
           r == OutRing(b0, c0)
           q == ring[r].q
           x == Item(b0)
<1>1. /\ a \in Producers /\ BrokerOf(a) = b0 /\ s.i \in Nat /\ s.i < s.n /\ x \in Values /\ s.pc \in Moving
      /\ s.i + 1 \in DOMAIN ring[InRing(a)].q /\ x = ring[InRing(a)].q[s.i + 1]
  BY MovingIs DEF Moving
<1>2. /\ x \in Accepted /\ x[1] = a /\ \A v \in Accepted : v[1] = a /\ Reaches(c0, v) => v[2] < x[2]
  BY <1>1, Unreached
<1>3. r \in BrokeredRings /\ q \in Seq(Values) /\ ring[r] \in RingState /\ Ordered(q)
  BY BrokeredParts, RingsAre, OrderParts
<1>4. ring'[r] = [ring[r] EXCEPT !.q = Append(q, x)] /\ \A o \in BrokeredRings : o # r => ring'[o] = ring[o]
  BY DEF Pushes
<1>5. ring'[r].q = Append(q, x)
  BY <1>3, <1>4 DEF RingState
<1>6. \A v \in ToSet(q) : v \in Accepted /\ BrokerOf(v[1]) = b0 /\ Reaches(c0, v)
  <2>1. \A v \in ToSet(q) : v \in Accepted /\ BrokerOf(v[1]) = b0
    BY OrderParts
  <2> QED
    BY <2>1 DEF Reaches, Queued
<1> HIDE DEF q, x
<1>7. Ordered(ring'[r].q) /\ ToSet(ring'[r].q) = ToSet(q) \cup {x}
  <2>1. \A u \in ToSet(q) : u[1] = x[1] => u[2] < x[2]
    BY <1>2, <1>6
  <2>2. Ordered(Append(q, x))
    BY <1>1, <1>3, <2>1, OrderedAppend
  <2>3. ToSet(Append(q, x)) = ToSet(q) \cup {x}
    BY <1>1, <1>3, AppendIs
  <2> QED
    BY <1>5, <2>2, <2>3
<1>8. \A p \in Producers : ring'[InRing(p)] = ring[InRing(p)]
  BY <1>4, RingsAre
<1>9. \A b \in Brokers, c \in Consumers : b # b0 \/ c # c0 => ring'[OutRing(b, c)] = ring[OutRing(b, c)]
  BY <1>4, RingsAre
<1>10. \A p \in Producers : /\ Ordered(ring'[InRing(p)].q)
                            /\ \A v \in ToSet(ring'[InRing(p)].q) : v[1] = p /\ v \in Accepted'
  BY <1>8, OrderParts
<1>11. \A c \in Consumers : Ordered(got'[c]) /\ ToSet(got'[c]) \subseteq Accepted'
  BY OrderParts
<1>12. \A c \in Consumers, b \in Brokers :
           /\ Ordered(ring'[OutRing(b, c)].q)
           /\ \A v \in ToSet(ring'[OutRing(b, c)].q) : v \in Accepted' /\ BrokerOf(v[1]) = b
           /\ \A v \in ToSet(got'[c]), w \in ToSet(ring'[OutRing(b, c)].q) : v[1] = w[1] => v[2] < w[2]
  <2> TAKE c \in Consumers, b \in Brokers
  <2>1. CASE b # b0 \/ c # c0
    BY <1>9, <2>1, OrderParts
  <2>2. CASE b = b0 /\ c = c0
    <3>1. \A v \in ToSet(got[c0]), w \in ToSet(q) : v[1] = w[1] => v[2] < w[2]
      BY OrderParts DEF q
    <3>2. \A v \in ToSet(got[c0]) : v \in Accepted /\ Reaches(c0, v)
      BY OrderParts DEF Reaches
    <3>3. \A v \in ToSet(got[c0]) : v[1] = x[1] => v[2] < x[2]
      BY <1>2, <3>2
    <3>4. \A v \in ToSet(ring'[r].q) : v \in Accepted' /\ BrokerOf(v[1]) = b0
      BY <1>1, <1>2, <1>6, <1>7
    <3>5. \A v \in ToSet(got'[c]), w \in ToSet(ring'[r].q) : v[1] = w[1] => v[2] < w[2]
      BY <1>7, <2>2, <3>1, <3>3
    <3> QED
      BY <1>7, <2>2, <3>4, <3>5
  <2> QED
    BY <2>1, <2>2
<1>13. ASSUME NEW c \in Consumers, NEW v \in Accepted
       PROVE  Reaches(c, v)' <=> Reaches(c, v) \/ (c = c0 /\ v = x)
  <2>1. BrokerOf(v[1]) \in Brokers
    BY BrokeredParts, BrokerOfIs, OrderParts
  <2>2. Reaches(c, v)' <=> v \in ToSet(got[c]) \/ v \in ToSet(ring'[OutRing(BrokerOf(v[1]), c)].q)
    BY LeftNext
  <2>3. Reaches(c, v) <=> v \in ToSet(got[c]) \/ v \in ToSet(ring[OutRing(BrokerOf(v[1]), c)].q)
    BY DEF Reaches, Queued
  <2>4. CASE c # c0 \/ BrokerOf(v[1]) # b0
    <3>1. ~(c = c0 /\ v = x)
      BY <1>1, <1>2, <2>4
    <3> QED
      BY <1>9, <2>1, <2>2, <2>3, <2>4, <3>1
  <2>5. CASE c = c0 /\ BrokerOf(v[1]) = b0
    BY <1>7, <2>2, <2>3, <2>5 DEF q
  <2> QED
    BY <2>4, <2>5
<1>14. ASSUME NEW c \in Consumers, NEW p \in Producers, NEW j \in DOMAIN ring'[InRing(p)].q, Left(c, p, j)',
              NEW v \in Accepted', v[1] = p, Reaches(c, v)'
       PROVE  v[2] < ring'[InRing(p)].q[j][2]
  <2>1. ring'[InRing(p)].q = ring[InRing(p)].q /\ j \in DOMAIN ring[InRing(p)].q
    BY <1>8, <1>14
  <2>2. j \in Nat
    <3>1. ring[InRing(p)].q \in Seq(Values)
      BY BrokeredParts, RingsAre
    <3> QED
      BY <2>1, <3>1
  <2>3. LeftOf(broker'[BrokerOf(p)], c, p, j)
    BY <1>14, LeftNext
  <2>4. Left(c, p, j)
    <3>1. CASE BrokerOf(p) = b0
      <4>1. LeftOf(broker'[b0], c, p, j)
        BY <2>3, <3>1
      <4>2. Onward(b0) \/ (Stays(b0) /\ (s.pc = "deliver" \/ decl.routing = "RoundRobin" \/ t.targets \subseteq s.targets))
        OBVIOUS
      <4>3. LeftOf(broker[b0], c, p, j)
        BY <1>1, <2>2, <4>1, <4>2, LeftShrinks
      <4> QED
        BY <3>1, <4>3 DEF Left
    <3>2. CASE BrokerOf(p) # b0
      <4>1. broker'[BrokerOf(p)] = broker[BrokerOf(p)]
        BY <3>2, BrokeredParts, BrokerOfIs
      <4> QED
        BY <2>3, <4>1 DEF Left
    <3> QED
      BY <3>1, <3>2
  <2>5. v \in Accepted /\ (Reaches(c, v) \/ (c = c0 /\ v = x))
    BY <1>13, <1>14
  <2>6. CASE Reaches(c, v)
    BY <1>14, <2>1, <2>4, <2>5, <2>6, OrderParts
  <2>7. CASE c = c0 /\ v = x
    <3>1. p = a /\ BrokerOf(p) = b0
      BY <1>1, <1>2, <1>14, <2>7
    <3>2. LeftOf(t, c0, a, j)
      BY <2>3, <2>7, <3>1
    <3>3. j > s.i + 1
      <4>1. CASE Onward(b0)
        <5>1. t.pc = "deliver" /\ t.i = s.i + 1 /\ t.at = a
          BY <4>1 DEF Onward, SamePlace
        <5>2. j > t.i + 1 \/ j = t.i + 1
          BY <3>2, <5>1 DEF LeftOf, Moving
        <5> QED
          BY <1>1, <2>2, <5>1, <5>2
      <4>2. CASE Stays(b0) /\ t.targets = s.targets \ {c0} /\ decl.routing # "RoundRobin"
        <5>1. t.pc = "forward" /\ t.i = s.i /\ t.at = a
          BY <4>2 DEF Stays, SamePlace
        <5> QED
          BY <3>2, <4>2, <5>1 DEF LeftOf, Moving
      <4> QED
        BY <4>1, <4>2
    <3> DEFINE w == ring[InRing(a)].q
               k == s.i + 1
    <3>4. Ordered(w) /\ k \in DOMAIN w /\ j \in DOMAIN w /\ k < j /\ x = w[k]
      BY <1>1, <2>1, <2>2, <3>1, <3>3, OrderParts
    <3>5. w[j][1] = a /\ w[k][1] = a
      <4>1. w[j] \in ToSet(w)
        BY <3>4 DEF ToSet
      <4> QED
        BY <1>1, <1>2, <3>4, <4>1, OrderParts
    <3>6. w[k][2] < w[j][2]
      BY <3>4, <3>5 DEF Ordered
    <3> QED
      BY <2>1, <2>7, <3>1, <3>4, <3>6
  <2> QED
    BY <2>5, <2>6, <2>7
<1> QED
  BY <1>10, <1>11, <1>12, <1>13, <1>14, OrderIf DEF x

\* A broker's step that pushes nothing.
LEMMA OrderBroker ==
  ASSUME BrokeredType, BrokeredOrder, decl' = decl, NEW b \in Brokers, BrokerOnly(b),
         \A r \in BrokeredRings : ring'[r].q = ring[r].q \/ ring'[r].q = <<>>,
         \A c \in Consumers, p \in Producers : \A j \in DOMAIN ring[InRing(p)].q :
           BrokerOf(p) = b /\ LeftOf(broker'[b], c, p, j) /\ ring'[InRing(p)].q = ring[InRing(p)].q =>
             LeftOf(broker[b], c, p, j)
  PROVE  BrokeredOrder' /\ Accepted' = Accepted
<1>1. got' = got /\ prod' = prod /\ \A a \in Brokers : a # b => broker'[a] = broker[a]
  BY DEF BrokerOnly, NoConsumer, NoProducer
<1>2. Accepted' = Accepted
  BY <1>1, BrokeredParts, AcceptedSame
<1>3. ASSUME NEW c \in Consumers, NEW p \in Producers, NEW j \in DOMAIN ring[InRing(p)].q,
             LeftOf(broker'[BrokerOf(p)], c, p, j), ring'[InRing(p)].q = ring[InRing(p)].q
      PROVE  Left(c, p, j)
  <2>1. CASE BrokerOf(p) = b
    <3>1. LeftOf(broker'[b], c, p, j)
      BY <1>3, <2>1
    <3>2. LeftOf(broker[b], c, p, j)
      BY <1>3, <2>1, <3>1
    <3> QED
      BY <2>1, <3>2 DEF Left
  <2>2. CASE BrokerOf(p) # b
    <3>1. broker'[BrokerOf(p)] = broker[BrokerOf(p)]
      BY <1>1, <2>2, BrokeredParts, BrokerOfIs
    <3> QED
      BY <1>3, <3>1 DEF Left
  <2> QED
    BY <2>1, <2>2
<1> QED
  BY <1>1, <1>2, <1>3, OrderKeeps

LEMMA OrderBrokerStep ==
  ASSUME BrokeredType, BrokeredOrder, decl' = decl, NEW b \in Brokers, BrokerSteps(b)
  PROVE  BrokeredOrder'
<1> DEFINE s == broker[b]
           t == broker'[b]
<1>1. BrokerOnly(b) /\ got' = got /\ prod' = prod /\ \A a \in Brokers : a # b => broker'[a] = broker[a]
  BY BrokerFitStep DEF BrokerOnly, NoConsumer, NoProducer
<1>2. Accepted' = Accepted
  BY <1>1, BrokeredParts, AcceptedSame
<1>3. ASSUME s.pc = "sweep" PROVE \A c, p, j : LeftOf(s, c, p, j)
  BY <1>3 DEF LeftOf, Moving
<1>4. ASSUME Ends(b)
      PROVE  BrokeredOrder'
  <2>1. \A r \in BrokeredRings : ring'[r].q = ring[r].q \/ ring'[r].q = <<>>
    BY <1>4, RingsAre DEF Ends
  <2>2. \A p \in Producers : BrokerOf(p) = b => ring'[InRing(p)].q = <<>>
    BY <1>4 DEF Ends
  <2> QED
    BY <1>1, <2>1, <2>2, OrderBroker, OrderedEmpty
<1>5. CASE Drain(b)
  <2>1. ring' = ring /\ s.pc = "sweep"
    BY <1>5, DrainIs
  <2> QED
    BY <1>1, <1>3, <2>1, OrderBroker
<1>6. CASE Swept(b)
  <2>1. s.pc = "sweep" /\ (Ends(b) \/ ring' = ring)
    BY <1>6, SweptIs
  <2>2. CASE Ends(b)
    BY <1>4, <2>2
  <2>3. CASE ring' = ring
    BY <1>1, <1>3, <2>1, <2>3, OrderBroker
  <2> QED
    BY <2>1, <2>2, <2>3
<1>7. CASE PolicyPanics(b)
  BY <1>4, <1>7, PolicyPanicsIs
<1>8. ASSUME s.pc \in Moving, ring' = ring,
             \/ Onward(b)
             \/ Stays(b) /\ (s.pc = "deliver" \/ decl.routing = "RoundRobin" \/ t.targets \subseteq s.targets)
      PROVE  BrokeredOrder'
  <2>1. ASSUME NEW c \in Consumers, NEW p \in Producers, NEW j \in DOMAIN ring[InRing(p)].q, LeftOf(broker'[b], c, p, j)
        PROVE  LeftOf(broker[b], c, p, j)
    <3>1. j \in Nat
      <4>1. ring[InRing(p)].q \in Seq(Values)
        BY BrokeredParts, RingsAre
      <4> QED
        BY <4>1
    <3> QED
      BY <1>8, <2>1, <3>1, LeftShrinks
  <2> QED
    BY <1>1, <1>8, <2>1, OrderBroker
<1>9. CASE Pick(b)
  <2>1. ring' = ring /\ s.pc = "deliver" /\ Stays(b)
    BY <1>9, PickIs
  <2> QED
    BY <1>8, <2>1 DEF Moving
<1>10. CASE ForwardTo(b)
  <2>1. PICK c \in s.targets :
              /\ c \in Consumers /\ s.pc = "forward" /\ decl.routing # "RoundRobin"
              /\ IF s.targets = {c} THEN Onward(b) ELSE Stays(b) /\ t.gone = s.gone /\ t.targets = s.targets \ {c}
              /\ ring' = ring \/ Pushes(b, c)
    BY <1>10, ForwardToIs
  <2>2. CASE ring' = ring
    BY <1>8, <2>1, <2>2 DEF Moving
  <2>3. CASE Pushes(b, c)
    BY <1>1, <1>2, <2>1, <2>3, OrderPushed
  <2> QED
    BY <2>1, <2>2, <2>3
<1>11. CASE ForwardNowhere(b)
  <2>1. ring' = ring /\ Onward(b) /\ s.pc = "forward"
    BY <1>11, ForwardNowhereIs
  <2> QED
    BY <1>8, <2>1 DEF Moving
<1>12. CASE ForwardRr(b)
  <2>1. /\ s.pc = "forward" /\ decl.routing = "RoundRobin"
        /\ \/ \E c \in Consumers : Pushes(b, c) /\ Onward(b)
           \/ ring' = ring /\ (Stays(b) \/ Onward(b))
    BY <1>12, ForwardRrIs
  <2>2. CASE ring' = ring /\ (Stays(b) \/ Onward(b))
    BY <1>8, <2>1, <2>2 DEF Moving
  <2>3. ASSUME NEW c \in Consumers, Pushes(b, c), Onward(b) PROVE BrokeredOrder'
    BY <1>1, <1>2, <2>1, <2>3, OrderPushed
  <2> QED
    BY <2>1, <2>2, <2>3
<1>13. CASE DrainCommit(b)
  <2>1. s.pc = "deliver" /\ s.i = s.n /\ Commits(b) /\ t.pc = "sweep"
    BY <1>13, DrainCommitIs
  <2> QED
    BY <1>1, <1>2, <2>1, OrderCommitted
<1> QED
  BY <1>5, <1>6, <1>7, <1>9, <1>10, <1>11, <1>12, <1>13 DEF BrokerSteps, BrokerStep

\* The order is kept.
LEMMA BrokeredOrderStep ==
  ASSUME BrokeredType, BrokeredOrder, BrokeredSteps
  PROVE  BrokeredOrder'
<1>1. decl' = decl
  BY BrokeredTypeStep
<1>2. prod \in [Producers -> ProducerState]
  BY BrokeredParts
<1>3. ASSUME broker' = broker
      PROVE  \A c \in Consumers, p \in Producers : \A j \in DOMAIN ring[InRing(p)].q :
               LeftOf(broker'[BrokerOf(p)], c, p, j) /\ ring'[InRing(p)].q = ring[InRing(p)].q => Left(c, p, j)
  BY <1>3 DEF Left
<1>4. ASSUME NEW p \in Producers, ProducerSteps(p) PROVE BrokeredOrder'
  <2>1. /\ prod' \in [Producers -> ProducerState] /\ got' = got /\ broker' = broker
        /\ \/ ring' = ring /\ \A q \in Producers : prod'[q].next = prod[q].next
           \/ /\ prod'[p].next = prod[p].next + 1 /\ \A q \in Producers : q # p => prod'[q].next = prod[q].next
              /\ ring' \in [BrokeredRings -> RingState]
              /\ ring'[InRing(p)] = [ring[InRing(p)] EXCEPT !.q = ring[InRing(p)].q \o Fresh(p, 1)]
              /\ \A o \in BrokeredRings : o # InRing(p) => ring'[o] = ring[o]
    BY <1>1, <1>4, ProducerStepIs DEF NoConsumer, NoBroker
  <2>2. CASE ring' = ring /\ \A q \in Producers : prod'[q].next = prod[q].next
    <3>1. Accepted' = Accepted
      BY <1>1, <1>2, <2>1, <2>2, AcceptedSame
    <3> QED
      BY <1>1, <1>3, <2>1, <2>2, <3>1, OrderKeeps
  <2>3. CASE /\ prod'[p].next = prod[p].next + 1 /\ \A q \in Producers : q # p => prod'[q].next = prod[q].next
             /\ ring' \in [BrokeredRings -> RingState]
             /\ ring'[InRing(p)] = [ring[InRing(p)] EXCEPT !.q = ring[InRing(p)].q \o Fresh(p, 1)]
             /\ \A o \in BrokeredRings : o # InRing(p) => ring'[o] = ring[o]
    BY <1>1, <2>1, <2>3, OrderSent
  <2> QED
    BY <2>1, <2>2, <2>3
<1>5. ASSUME NEW c \in Consumers, ConsumerSteps(c) PROVE BrokeredOrder'
  <2>1. NoBroker /\ NoProducer
    BY <1>5, ConsumerStepIs
  <2>2. broker' = broker /\ Accepted' = Accepted
    BY <1>1, <1>2, <2>1, AcceptedSame DEF NoBroker, NoProducer
  <2>3. ASSUME got' = got, \A r \in BrokeredRings : ring'[r].q = ring[r].q \/ ring'[r].q = <<>> PROVE BrokeredOrder'
    BY <1>1, <1>3, <2>2, <2>3, OrderKeeps
  <2>4. CASE BrokeredScan(c)
    <3>1. \/ ring' = ring /\ got' = got
          \/ \E b \in Brokers :
                    LET r == OutRing(b, c)  q == ring[r].q IN
                    /\ q # <<>> /\ ring'[r] = [ring[r] EXCEPT !.q = Tail(q)]
                    /\ \A o \in BrokeredRings : o # r => ring'[o] = ring[o]
                    /\ got'[c] = Append(got[c], Head(q))
                    /\ \A d \in Consumers : d # c => got'[d] = got[d]
      BY <2>4, BrokeredScanIs
    <3>2. CASE ring' = ring /\ got' = got
      BY <2>3, <3>2
    <3>3. ASSUME NEW b \in Brokers, ring[OutRing(b, c)].q # <<>>,
                 ring'[OutRing(b, c)] = [ring[OutRing(b, c)] EXCEPT !.q = Tail(ring[OutRing(b, c)].q)],
                 \A o \in BrokeredRings : o # OutRing(b, c) => ring'[o] = ring[o],
                 got'[c] = Append(got[c], Head(ring[OutRing(b, c)].q)),
                 \A d \in Consumers : d # c => got'[d] = got[d]
          PROVE  BrokeredOrder'
      BY <1>1, <2>2, <3>3, OrderTaken
    <3> QED
      BY <3>1, <3>2, <3>3
  <2>5. CASE BrokeredFinished(c)
    BY <2>3, <2>5, BrokeredFinishedIs
  <2>6. CASE BrokeredBegin(c)
    BY <2>3, <2>6, BrokeredBeginIs
  <2>7. CASE BrokeredConsumerDrop(c)
    <3>1. /\ got' = got
          /\ \A b \in Brokers : ring'[OutRing(b, c)] = [ring[OutRing(b, c)] EXCEPT !.rgone = TRUE, !.q = <<>>]
          /\ \A o \in BrokeredRings : (\A b \in Brokers : o # OutRing(b, c)) => ring'[o] = ring[o]
      BY <2>7, BrokeredDropIs
    <3>2. \A r \in BrokeredRings : ring'[r].q = ring[r].q \/ ring'[r].q = <<>>
      <4> TAKE r \in BrokeredRings
      <4>1. ring[r] \in RingState
        BY BrokeredParts
      <4>2. [ring[r] EXCEPT !.rgone = TRUE, !.q = <<>>].q = <<>>
        BY <4>1 DEF RingState
      <4>3. CASE \E b \in Brokers : r = OutRing(b, c)
        BY <3>1, <4>2, <4>3
      <4>4. CASE \A b \in Brokers : r # OutRing(b, c)
        BY <3>1, <4>4
      <4> QED
        BY <4>3, <4>4
    <3> QED
      BY <2>3, <3>1, <3>2
  <2> QED
    BY <1>5, <2>4, <2>5, <2>6, <2>7 DEF ConsumerSteps
<1>6. ASSUME NEW b \in Brokers, Spawn(b) PROVE BrokeredOrder'
  <2>1. BrokerOnly(b) /\ ring' = ring /\ broker[b].pc = "unspawned"
    BY <1>6, SpawnIs
  <2>2. \A c, p, j : LeftOf(broker[b], c, p, j)
    BY <2>1 DEF LeftOf, Moving
  <2> QED
    BY <1>1, <2>1, <2>2, OrderBroker
<1>7. ASSUME NEW b \in Brokers, SpawnFails(b) PROVE BrokeredOrder'
  <2>1. /\ got' = got /\ prod' \in [Producers -> ProducerState] /\ \A p \in Producers : prod'[p].next = prod[p].next
        /\ \A r \in BrokeredRings : ring'[r].q = ring[r].q
        /\ \A a \in Brokers : broker'[a] = broker[a] \/ (broker'[a] = Finished /\ broker[a].pc = "unspawned")
    BY <1>7, SpawnFailsIs
  <2>2. Accepted' = Accepted
    BY <1>1, <1>2, <2>1, AcceptedSame
  <2>3. \A a \in Brokers : \A c, p, j : LeftOf(broker'[a], c, p, j) => LeftOf(broker[a], c, p, j)
    <3> TAKE a \in Brokers
    <3> TAKE c, p, j
    <3>1. CASE broker'[a] = broker[a]
      BY <3>1
    <3>2. CASE broker[a].pc = "unspawned"
      BY <3>2 DEF LeftOf, Moving
    <3> QED
      BY <2>1, <3>1, <3>2
  <2>4. \A p \in Producers : BrokerOf(p) \in Brokers
    BY BrokeredParts, BrokerOfIs
  <2> QED
    BY <1>1, <2>1, <2>2, <2>3, <2>4, OrderKeeps DEF Left
<1> QED
  BY <1>4, <1>5, <1>6, <1>7, OrderBrokerStep, <1>1, BrokeredCases DEF BrokeredSteps

-----------------------------------------------------------------------------
(* How a brokered channel ends.                                            *)

LEMMA OrderlyBack ==
  ASSUME BrokeredType, BrokeredSteps, Orderly'
  PROVE  Orderly
<1>1. decl' = decl
  BY BrokeredTypeStep
<1>2. opened' # "invalid" /\ early' = 0 /\ ~panicked' /\ panicked \in BOOLEAN
  BY DEF Orderly, BrokeredType
<1>3. CASE BrokeredNext /\ UNCHANGED declaration
  <2>1. opened' = opened
    BY <1>3 DEF declaration
  <2>2. ASSUME NEW b \in Brokers, BrokerSteps(b) PROVE early' = early /\ (panicked => panicked')
    BY <1>1, <2>2, BrokerFitStep DEF BrokerOnly, NoConsumer
  <2>3. ASSUME NEW p \in Producers, ProducerSteps(p) PROVE early' = early /\ panicked' = panicked
    BY <1>1, <2>3, ProducerStepIs DEF NoConsumer, NoBroker
  <2>4. ASSUME NEW c \in Consumers, ConsumerSteps(c) PROVE (early # 0 => early' # 0) /\ panicked' = panicked
    BY <2>4, ConsumerStepIs DEF NoBroker
  <2> QED
    BY <1>2, <1>3, <2>1, <2>2, <2>3, <2>4, BrokeredCases DEF Orderly
<1>4. ASSUME NEW b \in Brokers, Spawn(b) PROVE Orderly
  BY <1>2, <1>4, SpawnIs DEF Orderly, BrokerOnly, NoConsumer
<1>5. ASSUME NEW b \in Brokers, SpawnFails(b) PROVE Orderly
  BY <1>2, <1>5, SpawnFailsIs
<1> QED
  BY <1>3, <1>4, <1>5 DEF BrokeredSteps

\* While a broker runs no consumer has ended, and in an orderly channel none is gone.
LEMMA BrokerRuns ==
  ASSUME BrokeredFinal, NEW b \in Brokers, broker[b].pc # "done", NEW c \in Consumers
  PROVE  /\ ~ring[OutRing(b, c)].wgone /\ con[c].pc # "ended"
         /\ Orderly => con[c].pc # "gone" /\ ~ring[OutRing(b, c)].rgone
<1>1. OutEnd(b, c)
  BY DEF BrokeredFinal
<1> QED
  BY <1>1 DEF OutEnd

LEMMA FinalIf ==
  ASSUME decl' = decl,
         \A b \in Brokers, c \in Consumers :
           LET r == ring'[OutRing(b, c)] IN
           /\ r.wgone => broker'[b].pc = "done"
           /\ r.rgone => con'[c].pc = "gone"
           /\ con'[c].pc = "ended" \/ (Orderly' /\ con'[c].pc = "gone") => r.wgone /\ r.q = <<>>,
         \A b \in Brokers :
           LET s == broker'[b] IN
           /\ s.final => live_producers' = 0
           /\ s.pc = "sweep" /\ s.final /\ ~s.moved => \A p \in Inbound(b) \ s.sweep : ring'[InRing(p)].q = <<>>
           /\ s.pc = "done" /\ Orderly' => live_producers' = 0 /\ \A p \in Inbound(b) : ring'[InRing(p)].q = <<>>
           /\ Orderly' => s.gone = 0,
         opened' = "spawning" => \A c \in Consumers : con'[c].pc = "idle"
  PROVE  BrokeredFinal'
<1>1. Consumers' = Consumers /\ Brokers' = Brokers /\ \A b : Inbound(b)' = Inbound(b)
  BY DeclSame
<1>2. \A b \in Brokers, c \in Consumers : OutEnd(b, c)'
  <2> TAKE b \in Brokers, c \in Consumers
  <2>1. /\ ring'[OutRing(b, c)].wgone => broker'[b].pc = "done"
        /\ ring'[OutRing(b, c)].rgone => con'[c].pc = "gone"
        /\ con'[c].pc = "ended" \/ (Orderly' /\ con'[c].pc = "gone") =>
             ring'[OutRing(b, c)].wgone /\ ring'[OutRing(b, c)].q = <<>>
    OBVIOUS
  <2> QED
    BY <2>1 DEF OutEnd, OutRing
<1>3. \A b \in Brokers : BrokerEnd(b)'
  <2> TAKE b \in Brokers
  <2>1. /\ broker'[b].final => live_producers' = 0
        /\ broker'[b].pc = "sweep" /\ broker'[b].final /\ ~broker'[b].moved =>
             \A p \in Inbound(b) \ broker'[b].sweep : ring'[InRing(p)].q = <<>>
        /\ broker'[b].pc = "done" /\ Orderly' => live_producers' = 0 /\ \A p \in Inbound(b) : ring'[InRing(p)].q = <<>>
        /\ Orderly' => broker'[b].gone = 0
    OBVIOUS
  <2>2. Inbound(b)' = Inbound(b)
    BY <1>1
  <2> QED
    BY <2>1, <2>2 DEF BrokerEnd, InRing
<1> QED
  BY <1>1, <1>2, <1>3 DEF BrokeredFinal

\* What the end says before a step.
LEMMA FinalParts ==
  ASSUME BrokeredFinal
  PROVE  /\ \A b \in Brokers, c \in Consumers :
              LET r == ring[OutRing(b, c)] IN
              /\ r.wgone => broker[b].pc = "done"
              /\ r.rgone => con[c].pc = "gone"
              /\ con[c].pc = "ended" \/ (Orderly /\ con[c].pc = "gone") => r.wgone /\ r.q = <<>>
         /\ \A b \in Brokers :
              LET s == broker[b] IN
              /\ s.final => live_producers = 0
              /\ s.pc = "sweep" /\ s.final /\ ~s.moved => \A p \in Inbound(b) \ s.sweep : ring[InRing(p)].q = <<>>
              /\ s.pc = "done" /\ Orderly => live_producers = 0 /\ \A p \in Inbound(b) : ring[InRing(p)].q = <<>>
              /\ Orderly => s.gone = 0
         /\ opened = "spawning" => \A c \in Consumers : con[c].pc = "idle"
  BY DEF BrokeredFinal, OutEnd, BrokerEnd

\* A broker's step and the rings to the consumers.
LEMMA BrokerRings ==
  ASSUME BrokeredType, decl' = decl, NEW b \in Brokers, BrokerSteps(b)
  PROVE  /\ \A a \in Brokers, c \in Consumers : a # b =>
              LET r == OutRing(a, c) IN
              ring'[r].q = ring[r].q /\ ring'[r].wgone = ring[r].wgone /\ ring'[r].rgone = ring[r].rgone
         /\ \A c \in Consumers :
              LET r == OutRing(b, c) IN
              ring'[r].rgone = ring[r].rgone /\ (ring'[r].wgone => ring[r].wgone \/ broker'[b].pc = "done")
<1> DEFINE Goal == /\ \A a \in Brokers, c \in Consumers : a # b =>
                        LET r == OutRing(a, c) IN
                        ring'[r].q = ring[r].q /\ ring'[r].wgone = ring[r].wgone /\ ring'[r].rgone = ring[r].rgone
                   /\ \A c \in Consumers :
                        LET r == OutRing(b, c) IN
                        ring'[r].rgone = ring[r].rgone /\ (ring'[r].wgone => ring[r].wgone \/ broker'[b].pc = "done")
<1>1. ASSUME ring' = ring PROVE Goal
  BY <1>1
<1>2. ASSUME Ends(b) PROVE Goal
  <2>1. broker'[b].pc = "done"
    BY <1>2 DEF Ends, Finished, IdleBroker
  <2>2. \A r \in BrokeredRings : ring[r].wgone \in BOOLEAN
    BY BrokeredParts DEF RingState
  <2>3. \A a \in Brokers, c \in Consumers : a # b => ring'[OutRing(a, c)].wgone = ring[OutRing(a, c)].wgone
    <3> TAKE a \in Brokers, c \in Consumers
    <3> HAVE a # b
    <3>1. ring'[OutRing(a, c)].wgone <=> ring[OutRing(a, c)].wgone
      BY <1>2 DEF Ends
    <3>2. ring'[OutRing(a, c)].wgone \in BOOLEAN /\ ring[OutRing(a, c)].wgone \in BOOLEAN
      BY <1>2, <2>2, RingsAre DEF Ends, RingState
    <3> QED
      BY <3>1, <3>2
  <2> QED
    BY <1>2, <2>1, <2>3 DEF Ends
<1>3. ASSUME NEW r \in BrokeredRings, NEW w, ring'[r] = [ring[r] EXCEPT !.q = w]
      PROVE  ring'[r].wgone = ring[r].wgone /\ ring'[r].rgone = ring[r].rgone
  <2>1. ring[r] \in RingState
    BY BrokeredParts
  <2> QED
    BY <1>3, <2>1 DEF RingState
<1>4. ASSUME NEW c \in Consumers, Pushes(b, c) PROVE Goal
  <2>1. OutRing(b, c) \in BrokeredRings
    BY RingsAre
  <2>2. /\ ring'[OutRing(b, c)] = [ring[OutRing(b, c)] EXCEPT !.q = Append(ring[OutRing(b, c)].q, Item(b))]
        /\ \A o \in BrokeredRings : o # OutRing(b, c) => ring'[o] = ring[o]
    BY <1>4 DEF Pushes
  <2>3. ring'[OutRing(b, c)].wgone = ring[OutRing(b, c)].wgone /\ ring'[OutRing(b, c)].rgone = ring[OutRing(b, c)].rgone
    BY <1>3, <2>1, <2>2
  <2>4. \A a \in Brokers, d \in Consumers : a # b \/ d # c => ring'[OutRing(a, d)] = ring[OutRing(a, d)]
    BY <2>2, RingsAre
  <2> QED
    BY <2>3, <2>4
<1>5. ASSUME Commits(b), broker[b].pc = "deliver" PROVE Goal
  <2>1. broker[b].at \in Producers
    BY <1>5, MovingIs DEF Moving
  <2>2. \A o \in BrokeredRings : o # InRing(broker[b].at) => ring'[o] = ring[o]
    BY <1>5 DEF Commits
  <2>3. \A a \in Brokers, d \in Consumers : ring'[OutRing(a, d)] = ring[OutRing(a, d)]
    BY <2>1, <2>2, RingsAre
  <2> QED
    BY <2>3
<1> HIDE DEF Goal
<1>6. Goal
  <2>1. CASE Drain(b)
    BY <1>1, <2>1, DrainIs
  <2>2. CASE Swept(b)
    BY <1>1, <1>2, <2>2, SweptIs
  <2>3. CASE PolicyPanics(b)
    BY <1>2, <2>3, PolicyPanicsIs
  <2>4. CASE Pick(b)
    BY <1>1, <2>4, PickIs
  <2>5. CASE ForwardTo(b)
    <3>1. \E c \in Consumers : ring' = ring \/ Pushes(b, c)
      BY <2>5, ForwardToIs
    <3> QED
      BY <1>1, <1>4, <3>1
  <2>6. CASE ForwardNowhere(b)
    BY <1>1, <2>6, ForwardNowhereIs
  <2>7. CASE ForwardRr(b)
    <3>1. ring' = ring \/ \E c \in Consumers : Pushes(b, c)
      BY <2>7, ForwardRrIs
    <3> QED
      BY <1>1, <1>4, <3>1
  <2>8. CASE DrainCommit(b)
    BY <1>5, <2>8, DrainCommitIs
  <2> QED
    BY <2>1, <2>2, <2>3, <2>4, <2>5, <2>6, <2>7, <2>8 DEF BrokerSteps, BrokerStep
<1> QED
  BY <1>6 DEF Goal

\* How a broker itself ends.
LEMMA BrokerEndStep ==
  ASSUME BrokeredType, BrokeredFinal, decl' = decl, Orderly' => Orderly, NEW b \in Brokers, BrokerSteps(b)
  PROVE  LET s == broker'[b] IN
         /\ s.final => live_producers' = 0
         /\ s.pc = "sweep" /\ s.final /\ ~s.moved => \A p \in Inbound(b) \ s.sweep : ring'[InRing(p)].q = <<>>
         /\ s.pc = "done" /\ Orderly' => live_producers' = 0 /\ \A p \in Inbound(b) : ring'[InRing(p)].q = <<>>
         /\ Orderly' => s.gone = 0
<1> DEFINE s == broker[b]
           t == broker'[b]
           Goal == /\ t.final => live_producers' = 0
                   /\ t.pc = "sweep" /\ t.final /\ ~t.moved => \A p \in Inbound(b) \ t.sweep : ring'[InRing(p)].q = <<>>
                   /\ t.pc = "done" /\ Orderly' => live_producers' = 0 /\ \A p \in Inbound(b) : ring'[InRing(p)].q = <<>>
                   /\ Orderly' => t.gone = 0
<1>1. live_producers' = live_producers
  BY BrokerFitStep DEF BrokerOnly, NoProducer
<1>2. /\ s.final => live_producers = 0
      /\ s.pc = "sweep" /\ s.final /\ ~s.moved => \A p \in Inbound(b) \ s.sweep : ring[InRing(p)].q = <<>>
      /\ Orderly' => s.gone = 0
  BY FinalParts
<1>3. \A c \in Consumers : s.pc # "done" /\ Orderly' => ~ring[OutRing(b, c)].rgone
  BY BrokerRuns
<1>4. ASSUME Ends(b)
      PROVE  ~t.final /\ t.pc = "done" /\ t.gone = 0 /\ \A p \in Inbound(b) : ring'[InRing(p)].q = <<>>
  <2>1. t = Finished /\ \A p \in Producers : BrokerOf(p) = b => ring'[InRing(p)].q = <<>>
    BY <1>4 DEF Ends
  <2>2. ~t.final /\ t.pc = "done" /\ t.gone = 0
    BY <2>1 DEF Finished, IdleBroker
  <2> QED
    BY <2>1, <2>2 DEF Inbound
<1>5. CASE Drain(b)
  <2>1. PICK p \in s.sweep :
              /\ ring' = ring /\ s.pc = "sweep" /\ t.final = s.final /\ t.moved = s.moved /\ t.gone = s.gone
              /\ t.sweep = s.sweep \ {p}
              /\ (t.pc = "sweep" /\ ring[InRing(p)].q = <<>>) \/ t.pc = "deliver"
    BY <1>5, DrainIs
  <2>2. t.pc = "sweep" /\ t.final /\ ~t.moved => \A x \in Inbound(b) \ t.sweep : ring'[InRing(x)].q = <<>>
    BY <1>2, <2>1
  <2> QED
    BY <1>1, <1>2, <2>1, <2>2
<1>6. CASE Swept(b)
  <2>1. /\ s.pc = "sweep"
        /\ \/ s.final /\ Ends(b)
           \/ t.gone = s.gone /\ t.pc = "sweep" /\ t.sweep = Inbound(b) /\ (t.final => live_producers = 0)
    BY <1>6, SweptIs
  <2>2. CASE s.final /\ Ends(b)
    BY <1>1, <1>2, <1>4, <2>2
  <2>3. CASE t.gone = s.gone /\ t.pc = "sweep" /\ t.sweep = Inbound(b) /\ (t.final => live_producers = 0)
    BY <1>1, <1>2, <2>3
  <2> QED
    BY <2>1, <2>2, <2>3
<1>7. CASE PolicyPanics(b)
  <2>1. Ends(b) /\ panicked' = TRUE
    BY <1>7, PolicyPanicsIs
  <2> QED
    BY <1>4, <2>1 DEF Orderly
<1>8. ASSUME Onward(b) \/ Stays(b), Orderly' => t.gone = 0 PROVE Goal
  <2>1. t.final = s.final /\ t.pc \in {"deliver", "forward"}
    BY <1>8 DEF Onward, Stays, SamePlace
  <2> QED
    BY <1>1, <1>2, <1>8, <2>1
<1>9. CASE Pick(b)
  <2>1. Stays(b) /\ t.gone = 0
    BY <1>9, PickIs
  <2> QED
    BY <1>8, <2>1
<1>10. CASE ForwardTo(b)
  <2>1. Onward(b) \/ (Stays(b) /\ t.gone = s.gone)
    BY <1>10, ForwardToIs
  <2>2. Orderly' => t.gone = 0
    BY <1>2, <2>1 DEF Onward
  <2> QED
    BY <1>8, <2>1, <2>2
<1>11. CASE ForwardNowhere(b)
  <2>1. Onward(b)
    BY <1>11, ForwardNowhereIs
  <2> QED
    BY <1>8, <2>1 DEF Onward
<1>12. CASE ForwardRr(b)
  <2>1. /\ s.pc = "forward"
        /\ \/ Onward(b)
           \/ /\ Stays(b)
              /\ t.gone # 0 => s.gone # 0 \/ \E c \in Consumers : ring[OutRing(b, c)].rgone
    BY <1>12, ForwardRrIs
  <2>2. Orderly' => t.gone = 0
    BY <1>2, <1>3, <2>1 DEF Onward
  <2> QED
    BY <1>8, <2>1, <2>2
<1>13. CASE DrainCommit(b)
  <2>1. t.pc = "sweep" /\ t.moved /\ t.final = s.final /\ t.gone = s.gone
    BY <1>13, DrainCommitIs
  <2> QED
    BY <1>1, <1>2, <2>1
<1> QED
  BY <1>5, <1>6, <1>7, <1>9, <1>10, <1>11, <1>12, <1>13 DEF BrokerSteps, BrokerStep

\* A consumer's step and its rings.
LEMMA ConsumerRings ==
  ASSUME BrokeredType, BrokeredFinal, NEW c \in Consumers, ConsumerSteps(c)
  PROVE  /\ \A b \in Brokers, d \in Consumers : d # c => ring'[OutRing(b, d)] = ring[OutRing(b, d)]
         /\ \A b \in Brokers :
              LET r == OutRing(b, c) IN
              /\ ring'[r].wgone = ring[r].wgone
              /\ ring'[r].rgone => con'[c].pc = "gone"
              /\ con'[c].pc = "ended" \/ (early' = 0 /\ con'[c].pc = "gone") => ring'[r].wgone /\ ring'[r].q = <<>>
<1> DEFINE Goal == /\ \A b \in Brokers, d \in Consumers : d # c => ring'[OutRing(b, d)] = ring[OutRing(b, d)]
                   /\ \A b \in Brokers :
                        LET r == OutRing(b, c) IN
                        /\ ring'[r].wgone = ring[r].wgone
                        /\ ring'[r].rgone => con'[c].pc = "gone"
                        /\ con'[c].pc = "ended" \/ (early' = 0 /\ con'[c].pc = "gone") => ring'[r].wgone /\ ring'[r].q = <<>>
<1>1. \A b \in Brokers : ~ring[OutRing(b, c)].rgone
  BY ConsumerStepIs, FinalParts
<1>2. \A b \in Brokers : OutRing(b, c) \in BrokeredRings /\ ring[OutRing(b, c)] \in RingState
  BY BrokeredParts, RingsAre
<1>3. CASE BrokeredScan(c)
  <2>1. \/ ring' = ring /\ con'[c].pc \in {"scan", "finished"}
        \/ /\ con'[c].pc = "idle"
           /\ \E b \in Brokers :
                /\ ring'[OutRing(b, c)] = [ring[OutRing(b, c)] EXCEPT !.q = Tail(ring[OutRing(b, c)].q)]
                /\ \A o \in BrokeredRings : o # OutRing(b, c) => ring'[o] = ring[o]
    BY <1>3, BrokeredScanIs
  <2>2. CASE ring' = ring /\ con'[c].pc \in {"scan", "finished"}
    BY <1>1, <2>2
  <2>3. ASSUME NEW b \in Brokers, con'[c].pc = "idle",
               ring'[OutRing(b, c)] = [ring[OutRing(b, c)] EXCEPT !.q = Tail(ring[OutRing(b, c)].q)],
               \A o \in BrokeredRings : o # OutRing(b, c) => ring'[o] = ring[o]
        PROVE  Goal
    <3>1. \A a \in Brokers, d \in Consumers : d # c \/ a # b => ring'[OutRing(a, d)] = ring[OutRing(a, d)]
      BY <2>3, RingsAre
    <3>2. ring'[OutRing(b, c)].wgone = ring[OutRing(b, c)].wgone /\ ring'[OutRing(b, c)].rgone = ring[OutRing(b, c)].rgone
      BY <1>2, <2>3 DEF RingState
    <3> QED
      BY <1>1, <2>3, <3>1, <3>2
  <2> QED
    BY <2>1, <2>2, <2>3
<1>4. CASE BrokeredFinished(c)
  <2>1. /\ ring' = ring /\ con'[c].pc \in {"scan", "ended"}
        /\ con'[c].pc = "ended" => \A b \in Brokers : ring[OutRing(b, c)].wgone /\ ring[OutRing(b, c)].q = <<>>
    BY <1>4, BrokeredFinishedIs
  <2> QED
    BY <1>1, <2>1
<1>5. CASE BrokeredConsumerDrop(c)
  <2>1. /\ con[c].pc \in {"idle", "ended"} /\ con'[c].pc = "gone" /\ (con[c].pc = "idle" => early' # 0)
        /\ \A b \in Brokers : ring'[OutRing(b, c)] = [ring[OutRing(b, c)] EXCEPT !.rgone = TRUE, !.q = <<>>]
        /\ \A o \in BrokeredRings : (\A b \in Brokers : o # OutRing(b, c)) => ring'[o] = ring[o]
    BY <1>5, BrokeredDropIs
  <2>2. \A b \in Brokers, d \in Consumers : d # c => ring'[OutRing(b, d)] = ring[OutRing(b, d)]
    <3> TAKE b \in Brokers, d \in Consumers
    <3> HAVE d # c
    <3>1. OutRing(b, d) \in BrokeredRings /\ \A a \in Brokers : OutRing(b, d) # OutRing(a, c)
      BY RingsAre
    <3>2. \A o \in BrokeredRings : (\A a \in Brokers : o # OutRing(a, c)) => ring'[o] = ring[o]
      BY <2>1
    <3> QED
      BY <3>1, <3>2, Zenon
  <2>3. \A b \in Brokers : ring'[OutRing(b, c)].wgone = ring[OutRing(b, c)].wgone /\ ring'[OutRing(b, c)].q = <<>>
    BY <1>2, <2>1 DEF RingState
  <2>4. con[c].pc = "ended" => \A b \in Brokers : ring[OutRing(b, c)].wgone
    BY FinalParts
  <2> QED
    BY <2>1, <2>2, <2>3, <2>4
<1>6. CASE BrokeredBegin(c)
  <2>1. ring' = ring /\ con'[c].pc = "scan"
    BY <1>6, BrokeredBeginIs
  <2> QED
    BY <1>1, <2>1
<1> QED
  BY <1>3, <1>4, <1>5, <1>6 DEF ConsumerSteps

LEMMA BrokeredFinalStep ==
  ASSUME BrokeredType, BrokeredFinal, BrokeredSteps
  PROVE  BrokeredFinal'
<1>1. decl' = decl
  BY BrokeredTypeStep
<1>2. Orderly' => Orderly
  BY OrderlyBack
<1>3. /\ \A b \in Brokers, c \in Consumers :
           LET r == ring[OutRing(b, c)] IN
           /\ r.wgone => broker[b].pc = "done"
           /\ r.rgone => con[c].pc = "gone"
           /\ con[c].pc = "ended" \/ (Orderly /\ con[c].pc = "gone") => r.wgone /\ r.q = <<>>
      /\ \A b \in Brokers :
           LET s == broker[b] IN
           /\ s.final => live_producers = 0
           /\ s.pc = "sweep" /\ s.final /\ ~s.moved => \A p \in Inbound(b) \ s.sweep : ring[InRing(p)].q = <<>>
           /\ s.pc = "done" /\ Orderly => live_producers = 0 /\ \A p \in Inbound(b) : ring[InRing(p)].q = <<>>
           /\ Orderly => s.gone = 0
      /\ opened = "spawning" => \A c \in Consumers : con[c].pc = "idle"
  BY FinalParts
<1>4. \A b : \A p \in Inbound(b) : p \in Producers /\ BrokerOf(p) = b
  BY BrokeredParts, BrokerOfIs
<1>5. ASSUME NEW b \in Brokers, BrokerSteps(b), opened' = opened PROVE BrokeredFinal'
  <2>1. /\ BrokerOnly(b) /\ broker[b].pc \in {"sweep", "deliver", "forward"}
        /\ \A p \in Producers : BrokerOf(p) # b => ring'[InRing(p)].q = ring[InRing(p)].q
    BY <1>1, <1>5, BrokerFitStep
  <2>2. con' = con /\ live_producers' = live_producers /\ \A a \in Brokers : a # b => broker'[a] = broker[a]
    BY <2>1 DEF BrokerOnly, NoConsumer, NoProducer
  <2>3. /\ \A a \in Brokers, c \in Consumers : a # b =>
              LET r == OutRing(a, c) IN
              ring'[r].q = ring[r].q /\ ring'[r].wgone = ring[r].wgone /\ ring'[r].rgone = ring[r].rgone
        /\ \A c \in Consumers :
              LET r == OutRing(b, c) IN
              ring'[r].rgone = ring[r].rgone /\ (ring'[r].wgone => ring[r].wgone \/ broker'[b].pc = "done")
    BY <1>1, <1>5, BrokerRings
  <2>4. ASSUME NEW a \in Brokers, NEW c \in Consumers
        PROVE  LET r == ring'[OutRing(a, c)] IN
               /\ r.wgone => broker'[a].pc = "done"
               /\ r.rgone => con'[c].pc = "gone"
               /\ con'[c].pc = "ended" \/ (Orderly' /\ con'[c].pc = "gone") => r.wgone /\ r.q = <<>>
    <3>1. CASE a # b
      BY <1>2, <1>3, <2>2, <2>3, <3>1
    <3>2. CASE a = b
      <4>1. ~ring[OutRing(b, c)].wgone /\ con[c].pc # "ended" /\ (Orderly => con[c].pc # "gone")
        BY <2>1, BrokerRuns
      <4> QED
        BY <1>2, <1>3, <2>2, <2>3, <3>2, <4>1
    <3> QED
      BY <3>1, <3>2
  <2>5. ASSUME NEW a \in Brokers
        PROVE  LET s == broker'[a] IN
           /\ s.final => live_producers' = 0
           /\ s.pc = "sweep" /\ s.final /\ ~s.moved => \A p \in Inbound(a) \ s.sweep : ring'[InRing(p)].q = <<>>
           /\ s.pc = "done" /\ Orderly' => live_producers' = 0 /\ \A p \in Inbound(a) : ring'[InRing(p)].q = <<>>
           /\ Orderly' => s.gone = 0
    <3>1. CASE a # b
      <4>1. \A p \in Inbound(a) : ring'[InRing(p)].q = ring[InRing(p)].q
        BY <1>4, <2>1, <3>1
      <4> QED
        BY <1>2, <1>3, <2>2, <3>1, <4>1
    <3>2. CASE a = b
      BY <1>1, <1>2, <1>5, <3>2, BrokerEndStep
    <3> QED
      BY <3>1, <3>2
  <2> QED
    BY <1>1, <1>3, <1>5, <2>2, <2>4, <2>5, FinalIf
<1>6. ASSUME NEW p \in Producers, ProducerSteps(p), opened' = opened PROVE BrokeredFinal'
  <2>1. /\ con' = con /\ broker' = broker /\ (live_producers = 0 => live_producers' = 0 /\ ring' = ring)
        /\ ring' = ring \/ \A o \in BrokeredRings : o # InRing(p) => ring'[o] = ring[o]
    BY <1>1, <1>6, ProducerStepIs DEF NoConsumer, NoBroker
  <2>2. \A b \in Brokers, c \in Consumers : ring'[OutRing(b, c)] = ring[OutRing(b, c)]
    BY <2>1, RingsAre
  <2>3. \A b \in Brokers, c \in Consumers :
           LET r == ring'[OutRing(b, c)] IN
           /\ r.wgone => broker'[b].pc = "done"
           /\ r.rgone => con'[c].pc = "gone"
           /\ con'[c].pc = "ended" \/ (Orderly' /\ con'[c].pc = "gone") => r.wgone /\ r.q = <<>>
    BY <1>2, <1>3, <2>1, <2>2
  <2>4. \A b \in Brokers :
           LET s == broker'[b] IN
           /\ s.final => live_producers' = 0
           /\ s.pc = "sweep" /\ s.final /\ ~s.moved => \A x \in Inbound(b) \ s.sweep : ring'[InRing(x)].q = <<>>
           /\ s.pc = "done" /\ Orderly' => live_producers' = 0 /\ \A x \in Inbound(b) : ring'[InRing(x)].q = <<>>
           /\ Orderly' => s.gone = 0
    BY <1>2, <1>3, <2>1
  <2> QED
    BY <1>1, <1>3, <1>6, <2>1, <2>3, <2>4, FinalIf
<1>7. ASSUME NEW c \in Consumers, ConsumerSteps(c), opened' = opened PROVE BrokeredFinal'
  <2>1. /\ Waits(c) /\ NoBroker /\ NoProducer /\ (con[c].pc = "idle" => opened = "open")
        /\ \A p \in Producers : ring'[InRing(p)] = ring[InRing(p)]
    BY <1>7, ConsumerStepIs
  <2>2. broker' = broker /\ live_producers' = live_producers /\ \A d \in Consumers : d # c => con'[d] = con[d]
    BY <2>1 DEF Waits, NoBroker, NoProducer
  <2>3. /\ \A b \in Brokers, d \in Consumers : d # c => ring'[OutRing(b, d)] = ring[OutRing(b, d)]
        /\ \A b \in Brokers :
              LET r == OutRing(b, c) IN
              /\ ring'[r].wgone = ring[r].wgone
              /\ ring'[r].rgone => con'[c].pc = "gone"
              /\ con'[c].pc = "ended" \/ (early' = 0 /\ con'[c].pc = "gone") => ring'[r].wgone /\ ring'[r].q = <<>>
    BY <1>7, ConsumerRings
  <2>4. Orderly' => early' = 0
    BY DEF Orderly
  <2>5. ASSUME NEW b \in Brokers, NEW d \in Consumers
        PROVE  LET r == ring'[OutRing(b, d)] IN
               /\ r.wgone => broker'[b].pc = "done"
               /\ r.rgone => con'[d].pc = "gone"
               /\ con'[d].pc = "ended" \/ (Orderly' /\ con'[d].pc = "gone") => r.wgone /\ r.q = <<>>
    <3>1. CASE d # c
      BY <1>2, <1>3, <2>2, <2>3, <3>1
    <3>2. CASE d = c
      BY <1>3, <2>2, <2>3, <2>4, <3>2
    <3> QED
      BY <3>1, <3>2
  <2>6. \A b \in Brokers :
           LET s == broker'[b] IN
           /\ s.final => live_producers' = 0
           /\ s.pc = "sweep" /\ s.final /\ ~s.moved => \A p \in Inbound(b) \ s.sweep : ring'[InRing(p)].q = <<>>
           /\ s.pc = "done" /\ Orderly' => live_producers' = 0 /\ \A p \in Inbound(b) : ring'[InRing(p)].q = <<>>
           /\ Orderly' => s.gone = 0
    BY <1>2, <1>3, <1>4, <2>1, <2>2
  <2>7. opened' # "spawning"
    BY <1>3, <1>7, <2>1
  <2> QED
    BY <1>1, <2>5, <2>6, <2>7, FinalIf
<1>8. ASSUME NEW b \in Brokers, Spawn(b) PROVE BrokeredFinal'
  <2>1. /\ opened = "spawning" /\ BrokerOnly(b) /\ ring' = ring /\ broker[b].pc = "unspawned"
        /\ broker'[b].pc = "sweep" /\ broker'[b].gone = broker[b].gone /\ ~broker'[b].final
    BY <1>8, SpawnIs
  <2>2. con' = con /\ live_producers' = live_producers /\ \A a \in Brokers : a # b => broker'[a] = broker[a]
    BY <2>1 DEF BrokerOnly, NoConsumer, NoProducer
  <2>3. ASSUME NEW a \in Brokers, NEW c \in Consumers
        PROVE  LET r == ring'[OutRing(a, c)] IN
               /\ r.wgone => broker'[a].pc = "done"
               /\ r.rgone => con'[c].pc = "gone"
               /\ con'[c].pc = "ended" \/ (Orderly' /\ con'[c].pc = "gone") => r.wgone /\ r.q = <<>>
    <3>1. CASE a # b
      BY <1>2, <1>3, <2>1, <2>2, <3>1
    <3>2. CASE a = b
      <4>1. ~ring[OutRing(b, c)].wgone
        BY <1>3, <2>1
      <4> QED
        BY <1>2, <1>3, <2>1, <2>2, <3>2, <4>1
    <3> QED
      BY <3>1, <3>2
  <2>4. ASSUME NEW a \in Brokers
        PROVE  LET s == broker'[a] IN
           /\ s.final => live_producers' = 0
           /\ s.pc = "sweep" /\ s.final /\ ~s.moved => \A p \in Inbound(a) \ s.sweep : ring'[InRing(p)].q = <<>>
           /\ s.pc = "done" /\ Orderly' => live_producers' = 0 /\ \A p \in Inbound(a) : ring'[InRing(p)].q = <<>>
           /\ Orderly' => s.gone = 0
    <3>1. CASE a # b
      BY <1>2, <1>3, <2>1, <2>2, <3>1
    <3>2. CASE a = b
      BY <1>2, <1>3, <2>1, <2>2, <3>2
    <3> QED
      BY <3>1, <3>2
  <2> QED
    BY <1>1, <1>3, <2>1, <2>2, <2>3, <2>4, FinalIf
<1>9. ASSUME NEW b \in Brokers, SpawnFails(b) PROVE BrokeredFinal'
  <2>1. /\ opened' = "invalid" /\ live_producers' = 0
        /\ \A a \in Brokers : broker'[a] = broker[a] \/ (broker'[a] = Finished /\ broker[a].pc = "unspawned")
        /\ \A c \in Consumers : con'[c].pc = "gone"
        /\ \A r \in BrokeredRings : ring'[r].q = ring[r].q
        /\ \A a \in Brokers, c \in Consumers : ring'[OutRing(a, c)].wgone => broker'[a].pc = "done"
    BY <1>9, SpawnFailsIs
  <2>2. ~Orderly'
    BY <2>1 DEF Orderly
  <2>3. \A a \in Brokers, c \in Consumers :
           LET r == ring'[OutRing(a, c)] IN
           /\ r.wgone => broker'[a].pc = "done"
           /\ r.rgone => con'[c].pc = "gone"
           /\ con'[c].pc = "ended" \/ (Orderly' /\ con'[c].pc = "gone") => r.wgone /\ r.q = <<>>
    BY <2>1, <2>2
  <2>4. ASSUME NEW a \in Brokers
        PROVE  LET s == broker'[a] IN
           /\ s.final => live_producers' = 0
           /\ s.pc = "sweep" /\ s.final /\ ~s.moved => \A p \in Inbound(a) \ s.sweep : ring'[InRing(p)].q = <<>>
           /\ s.pc = "done" /\ Orderly' => live_producers' = 0 /\ \A p \in Inbound(a) : ring'[InRing(p)].q = <<>>
           /\ Orderly' => s.gone = 0
    <3>1. \A p \in Inbound(a) : ring'[InRing(p)].q = ring[InRing(p)].q
      BY <1>4, <2>1, RingsAre
    <3>2. CASE broker'[a] = broker[a]
      BY <1>3, <2>1, <2>2, <3>1, <3>2
    <3>3. CASE broker'[a] = Finished
      <4>1. broker'[a].pc # "sweep"
        BY <3>3 DEF Finished, IdleBroker
      <4> QED
        BY <2>1, <2>2, <4>1
    <3> QED
      BY <2>1, <3>2, <3>3
  <2> QED
    BY <1>1, <2>1, <2>3, <2>4, FinalIf
<1>10. CASE BrokeredNext /\ UNCHANGED declaration
  <2>1. opened' = opened
    BY <1>10 DEF declaration
  <2> QED
    BY <1>5, <1>6, <1>7, <1>10, <2>1, BrokeredCases
<1> QED
  BY <1>8, <1>9, <1>10 DEF BrokeredSteps

-----------------------------------------------------------------------------
(* Values that go where they are routed to.                                *)

\* Reaches and Forwarded after a step.
ReachesNow(c, v) == v \in ToSet(got'[c]) \/ v \in ToSet(ring'[OutRing(BrokerOf(v[1]), c)].q)
ForwardedNow(v, targets) ==
  /\ v \in DOMAIN due' /\ targets \subseteq due'[v] /\ due'[v] \subseteq Consumers
  /\ \A c \in Consumers : c \in due'[v] \ targets <=> ReachesNow(c, v)
  /\ decl.routing # "PubSub" => \E c \in Consumers : due'[v] = {c}

LEMMA KeptIf ==
  ASSUME decl' = decl,
         Orderly' =>
           /\ \A v \in Accepted' : v \notin ToSet(ring'[InRing(v[1])].q) => ForwardedNow(v, {})
           /\ \A b \in Brokers :
                LET t == broker'[b]  q == ring'[InRing(t.at)].q IN
                t.pc \in Moving =>
                  /\ \A j \in 1 .. t.i : ForwardedNow(q[j], {})
                  /\ t.pc = "forward" /\ decl.routing # "RoundRobin" => ForwardedNow(q[t.i + 1], t.targets)
  PROVE  BrokeredKept'
<1> SUFFICES ASSUME Orderly'
             PROVE  /\ \A v \in Accepted' : v \notin Queued(InRing(v[1]))' => Settled(v)'
                    /\ \A b \in Brokers' : BrokerKept(b)'
  BY DEF BrokeredKept
<1>1. Consumers' = Consumers /\ Brokers' = Brokers /\ \A p : BrokerOf(p)' = BrokerOf(p)
  BY DeclSame
<1>2. \A v \in Accepted' : v \notin Queued(InRing(v[1]))' => Settled(v)'
  <2> TAKE v \in Accepted'
  <2> HAVE v \notin Queued(InRing(v[1]))'
  <2>1. ForwardedNow(v, {})
    BY DEF Queued, InRing
  <2>2. BrokerOf(v[1])' = BrokerOf(v[1])
    BY <1>1
  <2> QED
    BY <1>1, <2>1, <2>2 DEF Settled, Forwarded, ForwardedNow, Reaches, ReachesNow, Queued, OutRing
<1>3. ASSUME NEW b \in Brokers PROVE BrokerKept(b)'
  <2> DEFINE t == broker'[b]
             q == ring'[InRing(t.at)].q
  <2>1. t.pc \in Moving =>
          /\ \A j \in 1 .. t.i : ForwardedNow(q[j], {})
          /\ t.pc = "forward" /\ decl.routing # "RoundRobin" => ForwardedNow(q[t.i + 1], t.targets)
    OBVIOUS
  <2>2. \A v : BrokerOf(v[1])' = BrokerOf(v[1])
    BY <1>1
  <2> QED
    BY <1>1, <2>1, <2>2, ZenonT(60) DEF BrokerKept, Settled, Forwarded, ForwardedNow, Reaches, ReachesNow, Queued, OutRing, InRing, BrokerOf
<1> QED
  BY <1>1, <1>2, <1>3

LEMMA KeptParts ==
  ASSUME BrokeredKept, Orderly
  PROVE  /\ \A v \in Accepted : v \notin ToSet(ring[InRing(v[1])].q) => Forwarded(v, {})
         /\ \A b \in Brokers :
              LET s == broker[b]  q == ring[InRing(s.at)].q IN
              s.pc \in Moving =>
                /\ \A j \in 1 .. s.i : Forwarded(q[j], {})
                /\ s.pc = "forward" /\ decl.routing # "RoundRobin" => Forwarded(q[s.i + 1], s.targets)
  BY DEF BrokeredKept, Settled, BrokerKept, Queued

LEMMA ForwardedKeeps ==
  ASSUME NEW v, NEW T, Forwarded(v, T), v \in DOMAIN due => v \in DOMAIN due' /\ due'[v] = due[v],
         \A c \in Consumers : ReachesNow(c, v) <=> Reaches(c, v)
  PROVE  ForwardedNow(v, T)
  BY DEF Forwarded, ForwardedNow

\* The values that a broker has moved are accepted ones of its producer.
LEMMA MovedIs ==
  ASSUME BrokeredType, BrokeredOrder, NEW b \in Brokers, broker[b].pc \in Moving
  PROVE  LET s == broker[b]  q == ring[InRing(s.at)].q IN
         /\ s.at \in Producers /\ BrokerOf(s.at) = b /\ s.i \in Nat
         /\ \A j \in 1 .. s.i : j \in DOMAIN q /\ q[j] \in Accepted /\ q[j][1] = s.at
         /\ s.i < s.n =>
              /\ s.i + 1 \in DOMAIN q /\ Item(b) = q[s.i + 1] /\ Item(b) \in Accepted /\ Item(b)[1] = s.at
              /\ Item(b) \in ToSet(q) /\ \A j \in 1 .. s.i : q[j] # Item(b)
         /\ s.pc = "forward" => s.i < s.n
<1> DEFINE s == broker[b]
           q == ring[InRing(s.at)].q
<1>1. /\ s.at \in Producers /\ BrokerOf(s.at) = b /\ s.i \in Nat /\ s.n \in Nat
      /\ s.i <= s.n /\ s.n <= Len(q) /\ Len(q) \in Nat /\ q \in Seq(Values)
      /\ s.i < s.n => s.i + 1 \in DOMAIN q /\ Item(b) = q[s.i + 1]
      /\ s.pc = "forward" => s.i < s.n
  BY MovingIs
<1>2. DOMAIN q = 1 .. Len(q)
  BY <1>1
<1>3. Ordered(q) /\ \A v \in ToSet(q) : v[1] = s.at /\ v \in Accepted
  BY <1>1, OrderParts
<1> HIDE DEF q
<1>4. \A j \in DOMAIN q : q[j] \in ToSet(q) /\ q[j] \in Accepted /\ q[j][1] = s.at
  BY <1>3 DEF ToSet
<1>5. \A j \in 1 .. s.i : j \in DOMAIN q
  BY <1>1, <1>2
<1>6. ASSUME s.i < s.n, NEW j \in 1 .. s.i PROVE q[j] # Item(b)
  <2>1. j \in DOMAIN q /\ s.i + 1 \in DOMAIN q /\ j < s.i + 1 /\ Item(b) = q[s.i + 1]
    BY <1>1, <1>5, <1>6
  <2>2. q[j][1] = q[s.i + 1][1]
    BY <1>4, <2>1
  <2>3. q[j][2] < q[s.i + 1][2]
    BY <1>3, <2>1, <2>2 DEF Ordered
  <2>4. q[j][2] \in Nat
    BY <1>4, <2>1, OrderParts
  <2> QED
    BY <2>1, <2>3, <2>4
<1> QED
  BY <1>1, <1>4, <1>5, <1>6 DEF q

\* A step that leaves what is on its way.
LEMMA KeptSame ==
  ASSUME BrokeredType, BrokeredOrder, BrokeredKept, decl' = decl, Orderly' => Orderly, Accepted' = Accepted,
         Orderly' =>
           /\ due' = due /\ \A c \in Consumers, v \in Accepted : ReachesNow(c, v) <=> Reaches(c, v)
           /\ \A p \in Producers : ring'[InRing(p)].q = ring[InRing(p)].q
           /\ \A b \in Brokers : \/ broker'[b] = broker[b]
                                 \/ broker'[b].pc \notin Moving
                                 \/ broker'[b].pc = "deliver" /\ broker'[b].i = 0
  PROVE  BrokeredKept'
<1> SUFFICES ASSUME Orderly'
             PROVE  /\ \A v \in Accepted' : v \notin ToSet(ring'[InRing(v[1])].q) => ForwardedNow(v, {})
                    /\ \A b \in Brokers :
                         LET t == broker'[b]  q == ring'[InRing(t.at)].q IN
                         t.pc \in Moving =>
                           /\ \A j \in 1 .. t.i : ForwardedNow(q[j], {})
                           /\ t.pc = "forward" /\ decl.routing # "RoundRobin" => ForwardedNow(q[t.i + 1], t.targets)
  BY KeptIf
<1>1. \A T : \A v \in Accepted : Forwarded(v, T) => ForwardedNow(v, T)
  BY ForwardedKeeps
<1>2. \A v \in Accepted' : v \notin ToSet(ring'[InRing(v[1])].q) => ForwardedNow(v, {})
  <2> TAKE v \in Accepted'
  <2> HAVE v \notin ToSet(ring'[InRing(v[1])].q)
  <2>1. v \in Accepted /\ v[1] \in Producers
    BY OrderParts
  <2>2. Forwarded(v, {})
    BY <2>1, KeptParts
  <2> QED
    BY <1>1, <2>1, <2>2
<1>3. ASSUME NEW b \in Brokers, broker'[b].pc \in Moving
      PROVE  LET t == broker'[b]  q == ring'[InRing(t.at)].q IN
             /\ \A j \in 1 .. t.i : ForwardedNow(q[j], {})
             /\ t.pc = "forward" /\ decl.routing # "RoundRobin" => ForwardedNow(q[t.i + 1], t.targets)
  <2>1. CASE broker'[b] = broker[b]
    <3> DEFINE s == broker[b]
               q == ring[InRing(s.at)].q
    <3>1. /\ s.at \in Producers
          /\ \A j \in 1 .. s.i : q[j] \in Accepted
          /\ s.i < s.n => Item(b) = q[s.i + 1] /\ Item(b) \in Accepted
          /\ s.pc = "forward" => s.i < s.n
      BY <1>3, <2>1, MovedIs
    <3>2. /\ \A j \in 1 .. s.i : Forwarded(q[j], {})
          /\ s.pc = "forward" /\ decl.routing # "RoundRobin" => Forwarded(q[s.i + 1], s.targets)
      BY <1>3, <2>1, KeptParts
    <3>3. ring'[InRing(s.at)].q = q
      BY <3>1
    <3> HIDE DEF q
    <3>4. /\ \A j \in 1 .. s.i : ForwardedNow(q[j], {})
          /\ s.pc = "forward" /\ decl.routing # "RoundRobin" => ForwardedNow(q[s.i + 1], s.targets)
      BY <1>1, <3>1, <3>2
    <3> QED
      BY <2>1, <3>3, <3>4
  <2>2. CASE broker'[b].pc = "deliver" /\ broker'[b].i = 0
    BY <2>2
  <2> QED
    BY <1>3, <2>1, <2>2
<1> QED
  BY <1>2, <1>3

\* A broker goes on with the value it moves; the others stay where they are.
LEMMA KeptMoves ==
  ASSUME BrokeredType, BrokeredOrder, BrokeredKept, decl' = decl, Orderly' => Orderly, Accepted' = Accepted,
         NEW b0 \in Brokers, broker[b0].pc \in Moving, broker[b0].i < broker[b0].n, Onward(b0) \/ Stays(b0),
         \A b \in Brokers : b # b0 => broker'[b] = broker[b],
         Orderly' =>
           /\ \A p \in Producers : ring'[InRing(p)].q = ring[InRing(p)].q
           /\ \A v \in Accepted : v # Item(b0) =>
                /\ v \in DOMAIN due => v \in DOMAIN due' /\ due'[v] = due[v]
                /\ \A c \in Consumers : ReachesNow(c, v) <=> Reaches(c, v)
           /\ Onward(b0) => ForwardedNow(Item(b0), {})
           /\ Stays(b0) /\ decl.routing # "RoundRobin" => ForwardedNow(Item(b0), broker'[b0].targets)
  PROVE  BrokeredKept'
<1> DEFINE x == Item(b0)
<1> SUFFICES ASSUME Orderly'
             PROVE  /\ \A v \in Accepted' : v \notin ToSet(ring'[InRing(v[1])].q) => ForwardedNow(v, {})
                    /\ \A b \in Brokers :
                         LET t == broker'[b]  q == ring'[InRing(t.at)].q IN
                         t.pc \in Moving =>
                           /\ \A j \in 1 .. t.i : ForwardedNow(q[j], {})
                           /\ t.pc = "forward" /\ decl.routing # "RoundRobin" => ForwardedNow(q[t.i + 1], t.targets)
  BY KeptIf
<1>1. \A T : \A v \in Accepted : v # x /\ Forwarded(v, T) => ForwardedNow(v, T)
  BY ForwardedKeeps
<1>2. /\ broker[b0].at \in Producers /\ BrokerOf(broker[b0].at) = b0
      /\ x \in Accepted /\ x[1] = broker[b0].at /\ x \in ToSet(ring[InRing(broker[b0].at)].q)
  BY MovedIs
<1>3. \A p \in Producers : ring'[InRing(p)].q = ring[InRing(p)].q
  OBVIOUS
<1>4. /\ Onward(b0) => ForwardedNow(x, {})
      /\ Stays(b0) /\ decl.routing # "RoundRobin" => ForwardedNow(x, broker'[b0].targets)
  OBVIOUS
<1> HIDE DEF x
<1>5. \A v \in Accepted' : v \notin ToSet(ring'[InRing(v[1])].q) => ForwardedNow(v, {})
  <2> TAKE v \in Accepted'
  <2> HAVE v \notin ToSet(ring'[InRing(v[1])].q)
  <2>1. v \in Accepted /\ v[1] \in Producers
    BY OrderParts
  <2>2. v \notin ToSet(ring[InRing(v[1])].q)
    BY <1>3, <2>1
  <2>3. Forwarded(v, {}) /\ v # x
    BY <1>2, <2>1, <2>2, KeptParts
  <2> QED
    BY <1>1, <2>1, <2>3
<1>6. ASSUME NEW b \in Brokers, broker'[b].pc \in Moving
      PROVE  LET t == broker'[b]  q == ring'[InRing(t.at)].q IN
             /\ \A j \in 1 .. t.i : ForwardedNow(q[j], {})
             /\ t.pc = "forward" /\ decl.routing # "RoundRobin" => ForwardedNow(q[t.i + 1], t.targets)
  <2> DEFINE s == broker[b]
             t == broker'[b]
             q == ring[InRing(s.at)].q
  <2>1. broker[b].pc \in Moving
    BY <1>6
  <2>2. /\ s.at \in Producers /\ BrokerOf(s.at) = b /\ s.i \in Nat
        /\ \A j \in 1 .. s.i : q[j] \in Accepted /\ q[j][1] = s.at
        /\ s.i < s.n =>
             /\ Item(b) = q[s.i + 1] /\ Item(b) \in Accepted /\ Item(b)[1] = s.at
             /\ \A j \in 1 .. s.i : q[j] # Item(b)
        /\ s.pc = "forward" => s.i < s.n
    BY <2>1, MovedIs
  <2>3. /\ \A j \in 1 .. s.i : Forwarded(q[j], {})
        /\ s.pc = "forward" /\ decl.routing # "RoundRobin" => Forwarded(q[s.i + 1], s.targets)
    BY <2>1, KeptParts
  <2>4. ring'[InRing(s.at)].q = q
    BY <1>3, <2>2
  <2> HIDE DEF q
  <2>5. CASE b # b0
    <3>1. t = s
      BY <2>5
    <3>2. \A v : v[1] = s.at => v # x
      BY <1>2, <2>2, <2>5
    <3>3. \A j \in 1 .. s.i : ForwardedNow(q[j], {})
      BY <1>1, <2>2, <2>3, <3>2
    <3>4. s.pc = "forward" /\ decl.routing # "RoundRobin" => ForwardedNow(q[s.i + 1], s.targets)
      <4> HAVE s.pc = "forward" /\ decl.routing # "RoundRobin"
      <4>1. q[s.i + 1] \in Accepted /\ q[s.i + 1] # x /\ Forwarded(q[s.i + 1], s.targets)
        BY <2>2, <2>3, <3>2
      <4> QED
        BY <1>1, <4>1
    <3> QED
      BY <2>4, <3>1, <3>3, <3>4
  <2>6. CASE b = b0
    <3>1. x = q[s.i + 1] /\ \A j \in 1 .. s.i : q[j] # x
      BY <2>2, <2>6 DEF x
    <3>2. \A j \in 1 .. s.i : ForwardedNow(q[j], {})
      BY <1>1, <2>2, <2>3, <3>1
    <3>3. CASE Onward(b0)
      <4>1. t.at = s.at /\ t.i = s.i + 1 /\ t.pc = "deliver"
        BY <2>6, <3>3 DEF Onward, SamePlace
      <4>2. \A j \in 1 .. t.i : j \in 1 .. s.i \/ j = s.i + 1
        BY <2>2, <4>1
      <4>3. \A j \in 1 .. t.i : ForwardedNow(q[j], {})
        BY <1>4, <3>1, <3>2, <3>3, <4>2
      <4> QED
        BY <2>4, <4>1, <4>3
    <3>4. CASE Stays(b0)
      <4>1. t.at = s.at /\ t.i = s.i
        BY <2>6, <3>4 DEF Stays, SamePlace
      <4>2. decl.routing # "RoundRobin" => ForwardedNow(q[s.i + 1], t.targets)
        BY <1>4, <2>6, <3>1, <3>4
      <4> QED
        BY <2>4, <3>2, <4>1, <4>2
    <3> QED
      BY <3>3, <3>4
  <2> QED
    BY <2>5, <2>6
<1> QED
  BY <1>5, <1>6

LEMMA DueIs ==
  ASSUME NEW x, NEW T, Due(x, T)
  PROVE  /\ x \in DOMAIN due' /\ due'[x] = T
         /\ \A v : v # x /\ v \in DOMAIN due => v \in DOMAIN due' /\ due'[v] = due[v]
  BY DEF Due

LEMMA StaysOrGoes ==
  ASSUME NEW b
  PROVE  ~(Onward(b) /\ Stays(b))
  BY DEF Onward, Stays

\* A value gets its targets.
LEMMA KeptPicked ==
  ASSUME BrokeredType, BrokeredOrder, BrokeredKept, decl' = decl, Orderly' => Orderly, Accepted' = Accepted,
         NEW b \in Brokers, Pick(b)
  PROVE  BrokeredKept'
<1> DEFINE s == broker[b]
           t == broker'[b]
           x == Item(b)
<1>1. /\ BrokerOnly(b) /\ ring' = ring /\ s.pc = "deliver" /\ s.i < s.n /\ Stays(b)
      /\ t.targets \subseteq Consumers /\ Due(x, t.targets)
      /\ decl.routing = "Route" => \E c \in Consumers : t.targets = {c}
  BY PickIs
<1>2. got' = got /\ \A a \in Brokers : a # b => broker'[a] = broker[a]
  BY <1>1 DEF BrokerOnly, NoConsumer
<1>3. /\ x \in DOMAIN due' /\ due'[x] = t.targets
      /\ \A v : v # x /\ v \in DOMAIN due => v \in DOMAIN due' /\ due'[v] = due[v]
  BY <1>1, DueIs
<1>4. \A c, v : ReachesNow(c, v) <=> Reaches(c, v)
  BY <1>1, <1>2 DEF ReachesNow, Reaches, Queued
<1>5. \A c \in Consumers : ~ReachesNow(c, x)
  BY <1>1, <1>4, Unreached DEF Moving
<1>6. decl.routing \in {"RoundRobin", "Route", "PubSub"}
  BY DEF BrokeredType
<1>7. decl.routing # "RoundRobin" => ForwardedNow(x, t.targets)
  BY <1>1, <1>3, <1>5, <1>6 DEF ForwardedNow
<1>8. s.pc \in Moving /\ ~Onward(b)
  BY <1>1, StaysOrGoes DEF Moving
<1>9. /\ \A p \in Producers : ring'[InRing(p)].q = ring[InRing(p)].q
      /\ \A v \in Accepted : v # x =>
           /\ v \in DOMAIN due => v \in DOMAIN due' /\ due'[v] = due[v]
           /\ \A c \in Consumers : ReachesNow(c, v) <=> Reaches(c, v)
  BY <1>1, <1>3, <1>4
<1> HIDE DEF x
<1> QED
  BY <1>1, <1>2, <1>7, <1>8, <1>9, KeptMoves DEF x

\* A value is pushed to one of its targets, or to the next consumer.
LEMMA KeptPushed ==
  ASSUME BrokeredType, BrokeredOrder, BrokeredKept, decl' = decl, Orderly' => Orderly, Accepted' = Accepted,
         NEW b \in Brokers, NEW c0 \in Consumers, got' = got, broker[b].pc = "forward", Pushes(b, c0),
         \A a \in Brokers : a # b => broker'[a] = broker[a],
         \/ decl.routing = "RoundRobin" /\ Onward(b) /\ Due(Item(b), {c0})
         \/ /\ decl.routing # "RoundRobin" /\ due' = due /\ c0 \in broker[b].targets
            /\ IF broker[b].targets = {c0} THEN Onward(b) ELSE Stays(b) /\ broker'[b].targets = broker[b].targets \ {c0}
  PROVE  BrokeredKept'
<1> DEFINE s == broker[b]
           t == broker'[b]
           x == Item(b)
<1>1. /\ s.pc \in Moving /\ s.i < s.n /\ x = ring[InRing(s.at)].q[s.i + 1] /\ x \in Accepted
  <2>1. s.pc \in Moving
    BY DEF Moving
  <2> QED
    BY <2>1, MovedIs
<1>2. \A c \in Consumers, v \in Accepted : Reaches(c, v)' <=> Reaches(c, v) \/ (c = c0 /\ v = x)
  <2>1. c0 \in s.targets \/ decl.routing = "RoundRobin"
    OBVIOUS
  <2>2. Onward(b) \/ (Stays(b) /\ t.targets = s.targets \ {c0} /\ decl.routing # "RoundRobin")
    OBVIOUS
  <2> QED
    BY <2>1, <2>2, OrderPushed
<1>3. \A c, v : Reaches(c, v)' <=> ReachesNow(c, v)
  BY LeftNext DEF ReachesNow
<1>4. \A c \in Consumers, v \in Accepted : ReachesNow(c, v) <=> Reaches(c, v) \/ (c = c0 /\ v = x)
  BY <1>2, <1>3
<1>5. \A p \in Producers : ring'[InRing(p)].q = ring[InRing(p)].q
  <2>1. \A o \in BrokeredRings : o # OutRing(b, c0) => ring'[o] = ring[o]
    BY DEF Pushes
  <2> QED
    BY <2>1, RingsAre
<1>6. \A v : v # x /\ v \in DOMAIN due => v \in DOMAIN due' /\ due'[v] = due[v]
  BY DueIs
<1>7. ASSUME Orderly'
      PROVE  /\ Onward(b) => ForwardedNow(x, {})
             /\ Stays(b) /\ decl.routing # "RoundRobin" => ForwardedNow(x, t.targets)
  <2>1. CASE decl.routing = "RoundRobin" /\ Onward(b) /\ Due(x, {c0})
    <3>1. x \in DOMAIN due' /\ due'[x] = {c0}
      BY <2>1, DueIs
    <3>2. \A c \in Consumers : ~Reaches(c, x)
      BY <1>1, <2>1, Unreached
    <3> HIDE DEF x
    <3>3. ForwardedNow(x, {})
      BY <1>1, <1>4, <3>1, <3>2 DEF ForwardedNow
    <3> QED
      BY <2>1, <3>3
  <2>2. CASE /\ decl.routing # "RoundRobin" /\ due' = due /\ c0 \in s.targets
             /\ IF s.targets = {c0} THEN Onward(b) ELSE Stays(b) /\ t.targets = s.targets \ {c0}
    <3>1. Forwarded(x, s.targets)
      BY <1>1, <1>7, <2>2, KeptParts
    <3>2. ~Reaches(c0, x)
      BY <1>1, <2>2, Unreached
    <3> HIDE DEF x
    <3>3. ASSUME NEW T, T = s.targets \ {c0} PROVE ForwardedNow(x, T)
      <4>1. /\ x \in DOMAIN due' /\ T \subseteq due'[x] /\ due'[x] \subseteq Consumers
            /\ decl.routing # "PubSub" => \E c \in Consumers : due'[x] = {c}
        BY <2>2, <3>1, <3>3 DEF Forwarded
      <4>2. \A c \in Consumers : c \in due'[x] \ T <=> ReachesNow(c, x)
        <5> TAKE c \in Consumers
        <5>1. c \in due[x] \ s.targets <=> Reaches(c, x)
          BY <3>1 DEF Forwarded
        <5>2. ReachesNow(c, x) <=> Reaches(c, x) \/ c = c0
          BY <1>1, <1>4
        <5>3. c0 \in due[x]
          BY <2>2, <3>1 DEF Forwarded
        <5> QED
          BY <2>2, <3>3, <5>1, <5>2, <5>3
      <4> QED
        BY <4>1, <4>2 DEF ForwardedNow
    <3>4. CASE s.targets = {c0}
      <4>1. ForwardedNow(x, {})
        BY <3>3, <3>4
      <4> QED
        BY <2>2, <3>4, <4>1, StaysOrGoes
    <3>5. CASE s.targets # {c0}
      <4>1. ForwardedNow(x, t.targets)
        BY <2>2, <3>3, <3>5
      <4> QED
        BY <2>2, <3>5, <4>1, StaysOrGoes
    <3> QED
      BY <3>4, <3>5
  <2> QED
    BY <2>1, <2>2
<1>8. Onward(b) \/ Stays(b)
  OBVIOUS
<1>9. \A v \in Accepted : v # x =>
           /\ v \in DOMAIN due => v \in DOMAIN due' /\ due'[v] = due[v]
           /\ \A c \in Consumers : ReachesNow(c, v) <=> Reaches(c, v)
  <2> HIDE DEF x
  <2> QED
    BY <1>4, <1>6
<1> HIDE DEF x
<1> QED
  BY <1>1, <1>5, <1>7, <1>8, <1>9, KeptMoves DEF x

\* A broker goes on without moving a value to anybody.
LEMMA KeptSkipped ==
  ASSUME BrokeredType, BrokeredOrder, BrokeredKept, decl' = decl, Orderly' => Orderly, Accepted' = Accepted,
         NEW b \in Brokers, UNCHANGED <<got, ring, due>>, broker[b].pc = "forward",
         \A a \in Brokers : a # b => broker'[a] = broker[a], Onward(b) \/ Stays(b),
         Orderly' /\ Onward(b) => decl.routing = "PubSub" /\ broker[b].targets = {},
         Orderly' /\ Stays(b) => decl.routing = "RoundRobin"
  PROVE  BrokeredKept'
<1> DEFINE s == broker[b]
           t == broker'[b]
           x == Item(b)
<1>1. /\ s.pc \in Moving /\ s.i < s.n /\ x = ring[InRing(s.at)].q[s.i + 1] /\ x \in Accepted
  <2>1. s.pc \in Moving
    BY DEF Moving
  <2> QED
    BY <2>1, MovedIs
<1>2. \A c, v : ReachesNow(c, v) <=> Reaches(c, v)
  BY DEF ReachesNow, Reaches, Queued
<1>3. ASSUME Orderly', Onward(b) PROVE ForwardedNow(x, {})
  <2>1. Forwarded(x, {})
    BY <1>1, <1>3, KeptParts
  <2> HIDE DEF x
  <2> QED
    BY <1>2, <2>1, ForwardedKeeps
<1>4. /\ \A p \in Producers : ring'[InRing(p)].q = ring[InRing(p)].q
      /\ \A v \in Accepted : v # x =>
           /\ v \in DOMAIN due => v \in DOMAIN due' /\ due'[v] = due[v]
           /\ \A c \in Consumers : ReachesNow(c, v) <=> Reaches(c, v)
  BY <1>2
<1> HIDE DEF x
<1> QED
  BY <1>1, <1>3, <1>4, KeptMoves DEF x

\* A producer's value goes in.
LEMMA KeptSent ==
  ASSUME BrokeredType, BrokeredOrder, BrokeredKept, decl' = decl, Orderly' => Orderly,
         NEW p \in Producers, got' = got, broker' = broker, due' = due,
         prod' \in [Producers -> ProducerState],
         prod'[p].next = prod[p].next + 1, \A u \in Producers : u # p => prod'[u].next = prod[u].next,
         ring' \in [BrokeredRings -> RingState],
         ring'[InRing(p)] = [ring[InRing(p)] EXCEPT !.q = ring[InRing(p)].q \o Fresh(p, 1)],
         \A o \in BrokeredRings : o # InRing(p) => ring'[o] = ring[o]
  PROVE  BrokeredKept'
<1> DEFINE q == ring[InRing(p)].q
           x == <<p, prod[p].next>>
           w == Append(q, x)
<1> SUFFICES ASSUME Orderly'
             PROVE  /\ \A v \in Accepted' : v \notin ToSet(ring'[InRing(v[1])].q) => ForwardedNow(v, {})
                    /\ \A b \in Brokers :
                         LET t == broker'[b]  k == ring'[InRing(t.at)].q IN
                         t.pc \in Moving =>
                           /\ \A j \in 1 .. t.i : ForwardedNow(k[j], {})
                           /\ t.pc = "forward" /\ decl.routing # "RoundRobin" => ForwardedNow(k[t.i + 1], t.targets)
  BY KeptIf
<1>1. q \in Seq(Values) /\ prod \in [Producers -> ProducerState] /\ InRing(p) \in BrokeredRings
  BY BrokeredParts, RingsAre
<1>2. q \o Fresh(p, 1) = w /\ x \in Values /\ ToSet(Fresh(p, 1)) = {x} /\ x[1] = p
  BY <1>1, FreshOne
<1>3. ring'[InRing(p)].q = w
  BY <1>1, <1>2, BrokeredParts DEF RingState
<1>4. Accepted' = Accepted \cup {x}
  <2>1. 1 \in Nat
    OBVIOUS
  <2>2. Accepted' = Accepted \cup ToSet(Fresh(p, 1))
    BY <1>1, <2>1, AcceptedGrows
  <2> QED
    BY <1>2, <2>2
<1>5. \A u \in Producers : u # p => ring'[InRing(u)].q = ring[InRing(u)].q
  BY RingsAre
<1>6. \A b \in Brokers, c \in Consumers : ring'[OutRing(b, c)] = ring[OutRing(b, c)]
  BY RingsAre
<1>7. ToSet(w) = ToSet(q) \cup {x}
  <2> HIDE DEF q, x
  <2> QED
    BY <1>1, <1>2, AppendIs
<1>8. \A j \in DOMAIN q : w[j] = q[j]
  <2> HIDE DEF q, x
  <2> QED
    BY <1>1, <1>2
<1>9. \A c \in Consumers, v \in Accepted : ReachesNow(c, v) <=> Reaches(c, v)
  <2> TAKE c \in Consumers, v \in Accepted
  <2>1. BrokerOf(v[1]) \in Brokers
    BY BrokeredParts, BrokerOfIs, OrderParts
  <2> QED
    BY <1>6, <2>1 DEF ReachesNow, Reaches, Queued
<1>10. \A T : \A v \in Accepted : Forwarded(v, T) => ForwardedNow(v, T)
  BY <1>9, ForwardedKeeps
<1> HIDE DEF q, x, w
<1>11. \A v \in Accepted' : v \notin ToSet(ring'[InRing(v[1])].q) => ForwardedNow(v, {})
  <2> TAKE v \in Accepted'
  <2> HAVE v \notin ToSet(ring'[InRing(v[1])].q)
  <2>1. v \in Accepted
    BY <1>2, <1>3, <1>4, <1>7
  <2>2. v[1] \in Producers
    BY <2>1, OrderParts
  <2>3. v \notin ToSet(ring[InRing(v[1])].q)
    <3>1. CASE v[1] = p
      BY <1>3, <1>7, <3>1 DEF q
    <3>2. CASE v[1] # p
      BY <1>5, <2>2, <3>2
    <3> QED
      BY <3>1, <3>2
  <2> QED
    BY <1>10, <2>1, <2>3, KeptParts
<1>12. ASSUME NEW b \in Brokers, broker'[b].pc \in Moving
      PROVE  LET t == broker'[b]  k == ring'[InRing(t.at)].q IN
             /\ \A j \in 1 .. t.i : ForwardedNow(k[j], {})
             /\ t.pc = "forward" /\ decl.routing # "RoundRobin" => ForwardedNow(k[t.i + 1], t.targets)
  <2> DEFINE s == broker[b]
             k == ring[InRing(s.at)].q
             l == ring'[InRing(s.at)].q
  <2>1. /\ s.at \in Producers /\ s.i \in Nat
        /\ \A j \in 1 .. s.i : j \in DOMAIN k /\ k[j] \in Accepted
        /\ s.i < s.n => s.i + 1 \in DOMAIN k /\ Item(b) = k[s.i + 1] /\ Item(b) \in Accepted
        /\ s.pc = "forward" => s.i < s.n
    BY <1>12, MovedIs
  <2>2. /\ \A j \in 1 .. s.i : Forwarded(k[j], {})
        /\ s.pc = "forward" /\ decl.routing # "RoundRobin" => Forwarded(k[s.i + 1], s.targets)
    BY <1>12, KeptParts
  <2>3. \A j \in DOMAIN k : l[j] = k[j]
    <3>1. CASE s.at = p
      BY <1>3, <1>8, <3>1 DEF q
    <3>2. CASE s.at # p
      BY <1>5, <2>1, <3>2
    <3> QED
      BY <3>1, <3>2
  <2> HIDE DEF k, l
  <2>4. \A j \in 1 .. s.i : ForwardedNow(l[j], {})
    BY <1>10, <2>1, <2>2, <2>3
  <2>5. s.pc = "forward" /\ decl.routing # "RoundRobin" => ForwardedNow(l[s.i + 1], s.targets)
    BY <1>10, <2>1, <2>2, <2>3
  <2> QED
    BY <2>4, <2>5 DEF l
<1> QED
  BY <1>11, <1>12

\* What was moved leaves its ring.
LEMMA KeptCommitted ==
  ASSUME BrokeredType, BrokeredOrder, BrokeredKept, decl' = decl, Orderly' => Orderly, Accepted' = Accepted,
         NEW b0 \in Brokers, got' = got, due' = due,
         Commits(b0), broker[b0].pc = "deliver", broker[b0].i = broker[b0].n, broker'[b0].pc = "sweep",
         \A b \in Brokers : b # b0 => broker'[b] = broker[b]
  PROVE  BrokeredKept'
<1> DEFINE s == broker[b0]
           a == s.at
           n == s.n
           q == ring[InRing(a)].q
           w == SubSeq(q, n + 1, Len(q))
<1> SUFFICES ASSUME Orderly'
             PROVE  /\ \A v \in Accepted' : v \notin ToSet(ring'[InRing(v[1])].q) => ForwardedNow(v, {})
                    /\ \A b \in Brokers :
                         LET t == broker'[b]  k == ring'[InRing(t.at)].q IN
                         t.pc \in Moving =>
                           /\ \A j \in 1 .. t.i : ForwardedNow(k[j], {})
                           /\ t.pc = "forward" /\ decl.routing # "RoundRobin" => ForwardedNow(k[t.i + 1], t.targets)
  BY KeptIf
<1>1. /\ a \in Producers /\ BrokerOf(a) = b0 /\ n \in Nat /\ n <= Len(q) /\ q \in Seq(Values) /\ Len(q) \in Nat
  BY MovingIs DEF Moving
<1>2. ring'[InRing(a)] = [ring[InRing(a)] EXCEPT !.q = w] /\ \A o \in BrokeredRings : o # InRing(a) => ring'[o] = ring[o]
  BY DEF Commits
<1>3. ring[InRing(a)] \in RingState /\ Ordered(q)
  BY <1>1, BrokeredParts, RingsAre, OrderParts
<1>4. ring'[InRing(a)].q = w
  BY <1>2, <1>3 DEF RingState
<1>5. \A v \in ToSet(q) : v \in ToSet(w) \/ \E j \in 1 .. n : v = q[j]
  <2>1. n \in 0 .. Len(q)
    BY <1>1
  <2> HIDE DEF n, q
  <2> QED
    BY <1>1, <1>3, <2>1, OrderedRest
<1>6. \A u \in Producers : u # a => ring'[InRing(u)].q = ring[InRing(u)].q
  BY <1>1, <1>2, RingsAre
<1>7. \A b \in Brokers, c \in Consumers : ring'[OutRing(b, c)] = ring[OutRing(b, c)]
  BY <1>1, <1>2, RingsAre
<1>8. \A j \in 1 .. n : Forwarded(q[j], {})
  BY KeptParts DEF Moving
<1>9. \A c \in Consumers, v \in Accepted : ReachesNow(c, v) <=> Reaches(c, v)
  <2> TAKE c \in Consumers, v \in Accepted
  <2>1. BrokerOf(v[1]) \in Brokers
    BY BrokeredParts, BrokerOfIs, OrderParts
  <2> QED
    BY <1>7, <2>1 DEF ReachesNow, Reaches, Queued
<1>10. \A T : \A v \in Accepted : Forwarded(v, T) => ForwardedNow(v, T)
  BY <1>9, ForwardedKeeps
<1> HIDE DEF q, w
<1>11. \A v \in Accepted' : v \notin ToSet(ring'[InRing(v[1])].q) => ForwardedNow(v, {})
  <2> TAKE v \in Accepted'
  <2> HAVE v \notin ToSet(ring'[InRing(v[1])].q)
  <2>1. v \in Accepted /\ v[1] \in Producers
    BY OrderParts
  <2>2. CASE v \notin ToSet(ring[InRing(v[1])].q)
    BY <1>10, <2>1, <2>2, KeptParts
  <2>3. CASE v[1] = a /\ v \in ToSet(q)
    <3>1. Forwarded(v, {})
      BY <1>4, <1>5, <1>8, <2>3
    <3> QED
      BY <1>10, <2>1, <3>1
  <2> QED
    BY <1>6, <2>1, <2>2, <2>3 DEF q
<1>12. ASSUME NEW b \in Brokers, broker'[b].pc \in Moving
      PROVE  LET t == broker'[b]  k == ring'[InRing(t.at)].q IN
             /\ \A j \in 1 .. t.i : ForwardedNow(k[j], {})
             /\ t.pc = "forward" /\ decl.routing # "RoundRobin" => ForwardedNow(k[t.i + 1], t.targets)
  <2> DEFINE z == broker[b]
             k == ring[InRing(z.at)].q
  <2>0. b # b0 /\ broker'[b] = broker[b]
    BY <1>12 DEF Moving
  <2>1. /\ z.at \in Producers /\ BrokerOf(z.at) = b
        /\ \A j \in 1 .. z.i : k[j] \in Accepted
        /\ z.i < z.n => Item(b) = k[z.i + 1] /\ Item(b) \in Accepted
        /\ z.pc = "forward" => z.i < z.n
    BY <1>12, <2>0, MovedIs
  <2>2. /\ \A j \in 1 .. z.i : Forwarded(k[j], {})
        /\ z.pc = "forward" /\ decl.routing # "RoundRobin" => Forwarded(k[z.i + 1], z.targets)
    BY <1>12, <2>0, KeptParts
  <2>3. ring'[InRing(z.at)].q = k
    BY <1>1, <1>6, <2>0, <2>1
  <2> HIDE DEF k
  <2>4. \A j \in 1 .. z.i : ForwardedNow(k[j], {})
    BY <1>10, <2>1, <2>2
  <2>5. z.pc = "forward" /\ decl.routing # "RoundRobin" => ForwardedNow(k[z.i + 1], z.targets)
    BY <1>10, <2>1, <2>2
  <2> QED
    BY <2>0, <2>3, <2>4, <2>5
<1> QED
  BY <1>11, <1>12

\* What a broker's step keeps.
LEMMA KeptBrokerStep ==
  ASSUME BrokeredType, BrokeredOrder, BrokeredKept, BrokeredFinal, decl' = decl, Orderly' => Orderly,
         NEW b \in Brokers, BrokerSteps(b)
  PROVE  BrokeredKept'
<1> DEFINE s == broker[b]
           t == broker'[b]
<1>1. BrokerOnly(b) /\ got' = got /\ prod' = prod /\ \A a \in Brokers : a # b => broker'[a] = broker[a]
  BY BrokerFitStep DEF BrokerOnly, NoConsumer, NoProducer
<1>2. Accepted' = Accepted
  BY <1>1, BrokeredParts, AcceptedSame
<1>3. ASSUME due' = due,
             Orderly' => /\ \A p \in Producers : ring'[InRing(p)].q = ring[InRing(p)].q
                         /\ \A a \in Brokers, c \in Consumers : ring'[OutRing(a, c)].q = ring[OutRing(a, c)].q,
             t.pc \notin Moving \/ (t.pc = "deliver" /\ t.i = 0)
      PROVE  BrokeredKept'
  <2>1. ASSUME Orderly', NEW c \in Consumers, NEW v \in Accepted PROVE ReachesNow(c, v) <=> Reaches(c, v)
    <3>1. BrokerOf(v[1]) \in Brokers
      BY BrokeredParts, BrokerOfIs, OrderParts
    <3> QED
      BY <1>1, <1>3, <2>1, <3>1 DEF ReachesNow, Reaches, Queued
  <2>2. \A a \in Brokers : \/ broker'[a] = broker[a]
                           \/ broker'[a].pc \notin Moving
                           \/ broker'[a].pc = "deliver" /\ broker'[a].i = 0
    BY <1>1, <1>3
  <2> QED
    BY <1>2, <1>3, <2>1, <2>2, KeptSame
<1>4. ASSUME s.pc = "sweep" PROVE s.i = 0
  <2>1. BrokerFit(b)
    BY BrokeredParts
  <2> QED
    BY <1>4, <2>1 DEF BrokerFit, Moving
<1>5. ASSUME Ends(b)
      PROVE  /\ t.pc \notin Moving
             /\ \A a \in Brokers, c \in Consumers : ring'[OutRing(a, c)].q = ring[OutRing(a, c)].q
             /\ \A p \in Producers : ring'[InRing(p)].q = IF BrokerOf(p) = b THEN <<>> ELSE ring[InRing(p)].q
  BY <1>5 DEF Ends, Finished, IdleBroker, Moving
<1>6. CASE Drain(b)
  <2>1. UNCHANGED <<ring, due>> /\ s.pc = "sweep" /\ t.i = s.i /\ t.pc \in {"sweep", "deliver"}
    BY <1>6, DrainIs
  <2> QED
    BY <1>3, <1>4, <2>1 DEF Moving
<1>7. CASE Swept(b)
  <2>1. /\ due' = due /\ s.pc = "sweep" /\ s.sweep = {}
        /\ (~s.moved /\ s.final /\ Ends(b)) \/ (ring' = ring /\ t.pc = "sweep")
    BY <1>7, SweptIs
  <2>2. CASE ~s.moved /\ s.final /\ Ends(b)
    <3>1. \A p \in Inbound(b) : ring[InRing(p)].q = <<>>
      BY <2>1, <2>2, FinalParts
    <3>2. \A p \in Producers : ring'[InRing(p)].q = ring[InRing(p)].q
      BY <1>5, <2>2, <3>1 DEF Inbound
    <3> QED
      BY <1>3, <1>5, <2>1, <2>2, <3>2
  <2>3. CASE ring' = ring /\ t.pc = "sweep"
    BY <1>3, <2>1, <2>3 DEF Moving
  <2> QED
    BY <2>1, <2>2, <2>3
<1>8. CASE PolicyPanics(b)
  <2>1. panicked' = TRUE /\ due' = due /\ Ends(b)
    BY <1>8, PolicyPanicsIs
  <2>2. ~Orderly'
    BY <2>1 DEF Orderly
  <2> QED
    BY <1>3, <1>5, <2>1, <2>2
<1>9. \A c \in Consumers : s.pc # "done" /\ Orderly' => ~ring[OutRing(b, c)].rgone
  BY BrokerRuns
<1>10. CASE Pick(b)
  BY <1>2, <1>10, KeptPicked
<1>11. CASE ForwardTo(b)
  <2>1. /\ due' = due /\ s.pc = "forward" /\ decl.routing # "RoundRobin"
        /\ \E c \in s.targets :
              /\ c \in Consumers
              /\ IF s.targets = {c} THEN Onward(b) ELSE Stays(b) /\ t.targets = s.targets \ {c}
              /\ \/ ring[OutRing(b, c)].rgone /\ ring' = ring
                 \/ Pushes(b, c)
    BY <1>11, ForwardToIs
  <2>2. PICK c \in s.targets :
              /\ c \in Consumers
              /\ IF s.targets = {c} THEN Onward(b) ELSE Stays(b) /\ t.targets = s.targets \ {c}
              /\ \/ ring[OutRing(b, c)].rgone /\ ring' = ring
                 \/ Pushes(b, c)
    BY <2>1
  <2>3. CASE Pushes(b, c)
    BY <1>1, <1>2, <2>1, <2>2, <2>3, KeptPushed
  <2>4. CASE ring[OutRing(b, c)].rgone /\ ring' = ring
    <3>1. ~Orderly'
      BY <1>9, <2>1, <2>2, <2>4
    <3>2. Onward(b) \/ Stays(b)
      BY <2>2
    <3> QED
      BY <1>1, <1>2, <2>1, <2>4, <3>1, <3>2, KeptSkipped
  <2> QED
    BY <2>2, <2>3, <2>4
<1>12. CASE ForwardNowhere(b)
  <2>1. UNCHANGED <<ring, due>> /\ Onward(b) /\ s.pc = "forward" /\ decl.routing = "PubSub" /\ s.targets = {}
    BY <1>12, ForwardNowhereIs
  <2>2. ~Stays(b)
    BY <2>1, StaysOrGoes
  <2> QED
    BY <1>1, <1>2, <2>1, <2>2, KeptSkipped
<1>13. CASE ForwardRr(b)
  <2>1. /\ s.pc = "forward" /\ decl.routing = "RoundRobin"
        /\ \/ \E c \in Consumers : Pushes(b, c) /\ Onward(b) /\ Due(Item(b), {c})
           \/ UNCHANGED <<ring, due>> /\ Stays(b)
           \/ /\ UNCHANGED <<ring, due>> /\ Onward(b)
              /\ s.gone # 0 \/ \E c \in Consumers : ring[OutRing(b, c)].rgone
    BY <1>13, ForwardRrIs
  <2>2. ASSUME NEW c \in Consumers, Pushes(b, c), Onward(b), Due(Item(b), {c}) PROVE BrokeredKept'
    BY <1>1, <1>2, <2>1, <2>2, KeptPushed
  <2>3. CASE UNCHANGED <<ring, due>> /\ Stays(b)
    <3>1. ~Onward(b)
      BY <2>3, StaysOrGoes
    <3> QED
      BY <1>1, <1>2, <2>1, <2>3, <3>1, KeptSkipped
  <2>4. CASE /\ UNCHANGED <<ring, due>> /\ Onward(b)
             /\ s.gone # 0 \/ \E c \in Consumers : ring[OutRing(b, c)].rgone
    <3>1. Orderly' => s.gone = 0
      BY FinalParts
    <3>2. ~Orderly'
      BY <1>9, <2>1, <2>4, <3>1
    <3> QED
      BY <1>1, <1>2, <2>1, <2>4, <3>2, KeptSkipped
  <2> QED
    BY <2>1, <2>2, <2>3, <2>4
<1>14. CASE DrainCommit(b)
  <2>1. due' = due /\ s.pc = "deliver" /\ s.i = s.n /\ Commits(b) /\ t.pc = "sweep"
    BY <1>14, DrainCommitIs
  <2> QED
    BY <1>1, <1>2, <2>1, KeptCommitted
<1> QED
  BY <1>6, <1>7, <1>8, <1>10, <1>11, <1>12, <1>13, <1>14 DEF BrokerSteps, BrokerStep

\* What a consumer's step keeps.
LEMMA KeptConsumerStep ==
  ASSUME BrokeredType, BrokeredOrder, BrokeredKept, BrokeredFinal, decl' = decl, Orderly' => Orderly,
         NEW c \in Consumers, ConsumerSteps(c)
  PROVE  BrokeredKept'
<1>1. broker' = broker /\ due' = due /\ prod' = prod /\ \A p \in Producers : ring'[InRing(p)] = ring[InRing(p)]
  BY ConsumerStepIs DEF NoBroker, NoProducer
<1>2. Accepted' = Accepted
  BY <1>1, BrokeredParts, AcceptedSame
<1>3. ASSUME Orderly' => \A d \in Consumers, v \in Accepted : ReachesNow(d, v) <=> Reaches(d, v) PROVE BrokeredKept'
  BY <1>1, <1>2, <1>3, KeptSame
<1>4. ASSUME ring' = ring, got' = got PROVE BrokeredKept'
  <2>1. \A d, v : ReachesNow(d, v) <=> Reaches(d, v)
    BY <1>4 DEF ReachesNow, Reaches, Queued
  <2> QED
    BY <1>3, <2>1
<1>5. CASE BrokeredScan(c)
  <2>1. \/ ring' = ring /\ got' = got
        \/ \E b \in Brokers :
                    LET r == OutRing(b, c)  q == ring[r].q IN
                    /\ q # <<>> /\ ring'[r] = [ring[r] EXCEPT !.q = Tail(q)]
                    /\ \A o \in BrokeredRings : o # r => ring'[o] = ring[o]
                    /\ got'[c] = Append(got[c], Head(q))
                    /\ \A d \in Consumers : d # c => got'[d] = got[d]
    BY <1>5, BrokeredScanIs
  <2>2. CASE ring' = ring /\ got' = got
    BY <1>4, <2>2
  <2>3. ASSUME NEW b \in Brokers, ring[OutRing(b, c)].q # <<>>,
               ring'[OutRing(b, c)] = [ring[OutRing(b, c)] EXCEPT !.q = Tail(ring[OutRing(b, c)].q)],
               \A o \in BrokeredRings : o # OutRing(b, c) => ring'[o] = ring[o],
               got'[c] = Append(got[c], Head(ring[OutRing(b, c)].q)),
               \A d \in Consumers : d # c => got'[d] = got[d]
        PROVE  BrokeredKept'
    <3>1. \A d \in Consumers, v \in Accepted : Reaches(d, v)' <=> Reaches(d, v)
      BY <1>1, <1>2, <2>3, OrderTaken
    <3>2. \A d, v : Reaches(d, v)' <=> ReachesNow(d, v)
      BY LeftNext DEF ReachesNow
    <3> QED
      BY <1>3, <3>1, <3>2
  <2> QED
    BY <2>1, <2>2, <2>3
<1>6. CASE BrokeredFinished(c)
  BY <1>4, <1>6, BrokeredFinishedIs
<1>7. CASE BrokeredBegin(c)
  BY <1>4, <1>7, BrokeredBeginIs
<1>8. CASE BrokeredConsumerDrop(c)
  <2>1. /\ got' = got /\ con[c].pc \in {"idle", "ended"} /\ (con[c].pc = "idle" => early' # 0)
        /\ \A b \in Brokers : ring'[OutRing(b, c)] = [ring[OutRing(b, c)] EXCEPT !.rgone = TRUE, !.q = <<>>]
    BY <1>8, BrokeredDropIs
  <2>2. \A b \in Brokers, d \in Consumers : d # c => ring'[OutRing(b, d)] = ring[OutRing(b, d)]
    BY <1>8, ConsumerRings DEF ConsumerSteps
  <2>3. CASE con[c].pc = "idle"
    <3>1. ~Orderly'
      BY <2>1, <2>3 DEF Orderly
    <3> QED
      BY <1>3, <3>1
  <2>4. CASE con[c].pc = "ended"
    <3>1. \A b \in Brokers : ring[OutRing(b, c)].q = <<>>
      BY <2>4, FinalParts
    <3>2. \A b \in Brokers : ring'[OutRing(b, c)].q = <<>>
      <4> TAKE b \in Brokers
      <4>1. ring[OutRing(b, c)] \in RingState
        BY BrokeredParts, RingsAre
      <4> QED
        BY <2>1, <4>1 DEF RingState
    <3>3. \A d \in Consumers, v \in Accepted : ReachesNow(d, v) <=> Reaches(d, v)
      <4> TAKE d \in Consumers, v \in Accepted
      <4>1. BrokerOf(v[1]) \in Brokers
        BY BrokeredParts, BrokerOfIs, OrderParts
      <4>2. ring'[OutRing(BrokerOf(v[1]), d)].q = ring[OutRing(BrokerOf(v[1]), d)].q
        BY <2>2, <3>1, <3>2, <4>1
      <4> QED
        BY <2>1, <4>2 DEF ReachesNow, Reaches, Queued
    <3> QED
      BY <1>3, <3>3
  <2> QED
    BY <2>1, <2>3, <2>4
<1> QED
  BY <1>5, <1>6, <1>7, <1>8 DEF ConsumerSteps

LEMMA BrokeredKeptStep ==
  ASSUME BrokeredType, BrokeredOrder, BrokeredKept, BrokeredFinal, BrokeredSteps
  PROVE  BrokeredKept'
<1>1. decl' = decl
  BY BrokeredTypeStep
<1>2. Orderly' => Orderly
  BY OrderlyBack
<1>3. prod \in [Producers -> ProducerState]
  BY BrokeredParts
<1>4. ASSUME NEW p \in Producers, ProducerSteps(p) PROVE BrokeredKept'
  <2>1. /\ prod' \in [Producers -> ProducerState] /\ got' = got /\ broker' = broker /\ due' = due
        /\ \/ ring' = ring /\ \A q \in Producers : prod'[q].next = prod[q].next
           \/ /\ prod'[p].next = prod[p].next + 1 /\ \A q \in Producers : q # p => prod'[q].next = prod[q].next
              /\ ring' \in [BrokeredRings -> RingState]
              /\ ring'[InRing(p)] = [ring[InRing(p)] EXCEPT !.q = ring[InRing(p)].q \o Fresh(p, 1)]
              /\ \A o \in BrokeredRings : o # InRing(p) => ring'[o] = ring[o]
    BY <1>1, <1>4, ProducerStepIs DEF NoConsumer, NoBroker
  <2>2. CASE ring' = ring /\ \A q \in Producers : prod'[q].next = prod[q].next
    <3>1. Accepted' = Accepted
      BY <1>1, <1>3, <2>1, <2>2, AcceptedSame
    <3>2. \A c, v : ReachesNow(c, v) <=> Reaches(c, v)
      BY <2>1, <2>2 DEF ReachesNow, Reaches, Queued
    <3> QED
      BY <1>1, <1>2, <2>1, <2>2, <3>1, <3>2, KeptSame
  <2>3. CASE /\ prod'[p].next = prod[p].next + 1 /\ \A q \in Producers : q # p => prod'[q].next = prod[q].next
             /\ ring' \in [BrokeredRings -> RingState]
             /\ ring'[InRing(p)] = [ring[InRing(p)] EXCEPT !.q = ring[InRing(p)].q \o Fresh(p, 1)]
             /\ \A o \in BrokeredRings : o # InRing(p) => ring'[o] = ring[o]
    BY <1>1, <1>2, <2>1, <2>3, KeptSent
  <2> QED
    BY <2>1, <2>2, <2>3
<1>5. ASSUME NEW b \in Brokers, Spawn(b) PROVE BrokeredKept'
  <2>1. BrokerOnly(b) /\ UNCHANGED <<ring, due>> /\ broker'[b].pc = "sweep"
    BY <1>5, SpawnIs
  <2>2. got' = got /\ prod' = prod /\ \A a \in Brokers : a # b => broker'[a] = broker[a]
    BY <2>1 DEF BrokerOnly, NoConsumer, NoProducer
  <2>3. Accepted' = Accepted
    BY <1>1, <1>3, <2>2, AcceptedSame
  <2>4. \A c, v : ReachesNow(c, v) <=> Reaches(c, v)
    BY <2>1, <2>2 DEF ReachesNow, Reaches, Queued
  <2>5. \A a \in Brokers : broker'[a] = broker[a] \/ broker'[a].pc \notin Moving
    BY <2>1, <2>2 DEF Moving
  <2> QED
    BY <1>1, <1>2, <2>1, <2>3, <2>4, <2>5, KeptSame
<1>6. ASSUME NEW b \in Brokers, SpawnFails(b) PROVE BrokeredKept'
  <2>1. ~Orderly'
    BY <1>6, SpawnFailsIs DEF Orderly
  <2> QED
    BY <2>1 DEF BrokeredKept
<1>7. CASE BrokeredNext /\ UNCHANGED declaration
  BY <1>1, <1>2, <1>4, <1>7, BrokeredCases, KeptBrokerStep, KeptConsumerStep
<1> QED
  BY <1>5, <1>6, <1>7 DEF BrokeredSteps

\* The invariant of a brokered channel is kept.
LEMMA BrokeredStep ==
  ASSUME BrokeredInv, BrokeredSteps
  PROVE  BrokeredInv'
<1>1. BrokeredType /\ BrokeredOrder /\ BrokeredKept /\ BrokeredFinal
  BY DEF BrokeredInv
<1> QED
  BY <1>1, BrokeredTypeStep, BrokeredOrderStep, BrokeredKeptStep, BrokeredFinalStep DEF BrokeredInv

\* What reaches a consumer through the brokers reaches it once and in order.
LEMMA BrokeredOrderOk ==
  ASSUME BrokeredInv
  PROVE  AtMostOnceInOrder
<1>1. BrokeredType /\ BrokeredOrder
  BY DEF BrokeredInv
<1>2. DOMAIN con = Consumers
  BY <1>1, BrokeredParts
<1>3. ASSUME NEW c \in Consumers, NEW i \in DOMAIN got[c], NEW j \in DOMAIN got[c], i < j
      PROVE  /\ got[c][i][1] = got[c][j][1] => got[c][i][2] < got[c][j][2]
             /\ got[c][i] # got[c][j]
  <2>1. Ordered(got[c]) /\ ToSet(got[c]) \subseteq Accepted
    BY <1>1, OrderParts
  <2>2. got[c][i][1] = got[c][j][1] => got[c][i][2] < got[c][j][2]
    BY <1>3, <2>1 DEF Ordered
  <2>3. got[c][j] \in Accepted
    BY <2>1 DEF ToSet
  <2>4. got[c][j][2] \in Nat
    BY <1>1, <2>3, OrderParts
  <2>5. ~(got[c][j][2] < got[c][j][2])
    BY <2>4
  <2> QED
    BY <2>2, <2>5
<1> QED
  BY <1>2, <1>3 DEF AtMostOnceInOrder

\* Nothing stays behind with the brokers or in their rings.
LEMMA BrokeredNothingStranded ==
  ASSUME BrokeredInv
  PROVE  NothingStranded
<1>1. BrokeredType /\ BrokeredOrder /\ BrokeredKept /\ BrokeredFinal
  BY DEF BrokeredInv
<1>2. DOMAIN con = Consumers /\ decl.consumers \in Nat \ {0} /\ \A c \in Consumers : ConsumerFit(c)
  BY <1>1, BrokeredParts
<1>3. ASSUME NEW c \in Consumers, con[c].pc = "ended"
      PROVE  con[c].staging = <<>> /\ \A x \in DOMAIN con[c].lanes : ring[con[c].lanes[x]].q = <<>>
  <2>1. con[c].staging = <<>> /\ con[c].lanes = [b \in Brokers |-> OutRing(b, c)]
    BY <1>2 DEF ConsumerFit
  <2>2. \A b \in Brokers : ring[OutRing(b, c)].q = <<>>
    BY <1>1, <1>3, FinalParts
  <2> QED
    BY <2>1, <2>2
<1>4. ASSUME opened = "open", \A c \in Consumers : Ended(c), early = 0, ~panicked, NEW v \in Accepted
      PROVE  /\ v \in DOMAIN due /\ Receivers(v) = due[v]
             /\ decl.routing # "PubSub" => \E c \in Consumers : Receivers(v) = {c}
  <2>1. Orderly
    BY <1>4 DEF Orderly
  <2>2. \A c \in Consumers : con[c].pc \in {"ended", "gone"}
    BY <1>2, <1>4 DEF ConsumerFit, Ended
  <2>3. \A b \in Brokers, c \in Consumers : ring[OutRing(b, c)].wgone /\ ring[OutRing(b, c)].q = <<>>
    BY <1>1, <2>1, <2>2, FinalParts
  <2>4. 1 \in Consumers
    BY <1>2 DEF Consumers
  <2>5. \A b \in Brokers : broker[b].pc = "done"
    BY <1>1, <2>3, <2>4, FinalParts
  <2>6. v[1] \in Producers /\ BrokerOf(v[1]) \in Brokers /\ v[1] \in Inbound(BrokerOf(v[1]))
    BY <1>1, BrokeredParts, BrokerOfIs, OrderParts
  <2>7. ring[InRing(v[1])].q = <<>>
    BY <1>1, <2>1, <2>5, <2>6, FinalParts
  <2>8. Forwarded(v, {})
    BY <1>1, <2>1, <2>7, KeptParts, EmptyIs
  <2>9. \A c \in Consumers : Reaches(c, v) <=> v \in ToSet(got[c])
    BY <2>3, <2>6, EmptyIs DEF Reaches, Queued
  <2>10. Receivers(v) = due[v]
    BY <1>2, <2>8, <2>9 DEF Receivers, Forwarded
  <2> QED
    BY <2>8, <2>10 DEF Forwarded
<1> QED
  BY <1>2, <1>3, <1>4 DEF NothingStranded

\* A brokered channel that has just been built.
LEMMA BrokeredOpen ==
  ASSUME Unbuilt, OpenBrokered
  PROVE  BrokeredInv'
<1>1. /\ decl \in Declared /\ IsBrokered(decl) /\ Opens(decl) /\ opened' = "spawning" /\ decl' = decl
      /\ BuildBrokered /\ early = 0 /\ panicked = FALSE
  BY DEF OpenBrokered, Runs, Unbuilt
<1>2. /\ decl.producers \in Nat \ {0} /\ decl.consumers \in Nat \ {0} /\ decl.batch \in Nat \ {0}
      /\ decl.brokers \in Nat \ {0} /\ decl.routing \in {"RoundRobin", "Route", "PubSub"}
  <2>1. BrokeredOpens(decl)
    BY <1>1 DEF Opens, IsBrokered
  <2>2. /\ {decl.producers, decl.consumers, decl.brokers, decl.batch} \subseteq Nat
        /\ decl.routing \in {"RoundRobin", "Route", "PubSub"}
    BY <1>1, GridAssumption DEF Declarations
  <2> QED
    BY <2>1, <2>2 DEF BrokeredOpens, validate_common
<1> DEFINE R == BrokeredRings
           pc == [p \in Producers |-> 0]
           lanes == [c \in Consumers |-> [b \in Brokers |-> OutRing(b, c)]]
           cc == [c \in Consumers |-> 0]
<1>3. BuildEndpoints(R, pc, lanes, cc) /\ broker' = [b \in Brokers |-> IdleBroker]
  BY <1>1 DEF BuildBrokered, BrokeredRings
<1>4. /\ \A p \in Producers : pc[p] \in Nat
      /\ \A c \in Consumers : cc[c] \in Nat /\ lanes[c] \in Seq(R)
  <2>1. ASSUME NEW c \in Consumers PROVE lanes[c] \in Seq(R)
    <3>1. lanes[c] = [b \in Brokers |-> OutRing(b, c)] /\ \A b \in Brokers : OutRing(b, c) \in R
      BY RingsAre
    <3>2. lanes[c] \in [1 .. decl.brokers -> R]
      BY <3>1 DEF Brokers
    <3> HIDE DEF lanes, R
    <3> QED
      BY <1>2, <3>2
  <2> QED
    BY <2>1
<1>5. \A c \in Consumers : lanes[c] = [b \in Brokers |-> OutRing(b, c)]
  OBVIOUS
<1> HIDE DEF pc, lanes, cc
<1>6. /\ ring' \in [R -> RingState] /\ prod' \in [Producers -> ProducerState]
      /\ con' \in [Consumers -> ConsumerState(R)] /\ got' \in [Consumers -> Seq(Values)]
      /\ \A r \in R : ring'[r] = EmptyRing
      /\ \A c \in Consumers : con'[c] = IdleConsumer(lanes[c], cc[c]) /\ got'[c] = <<>>
      /\ live_producers' = Cardinality(Alive)' /\ UNCHANGED <<abandoned, due, early, panicked>>
      /\ Accepted' = {}
  BY <1>1, <1>2, <1>3, <1>4, BuiltEndpoints
<1>7. /\ Producers' = Producers /\ Consumers' = Consumers /\ Brokers' = Brokers /\ Values' = Values
      /\ RingState' = RingState /\ ProducerState' = ProducerState /\ BrokeredRings' = BrokeredRings
      /\ ConsumerState(BrokeredRings)' = ConsumerState(BrokeredRings) /\ BrokerState' = BrokerState
      /\ IsBrokered(decl)' = IsBrokered(decl)
  BY <1>1, DeclSame
<1>8. \A r \in BrokeredRings : ring'[r].q = <<>> /\ ring'[r].wgone = FALSE /\ ring'[r].rgone = FALSE
  BY <1>6 DEF EmptyRing
<1>9. IdleBroker \in BrokerState
  BY DEF IdleBroker, BrokerState
<1>10. /\ broker' \in [Brokers -> BrokerState]
       /\ \A b \in Brokers : LET s == broker'[b] IN
            s.pc = "unspawned" /\ s.i = 0 /\ s.targets = {} /\ s.sweep = {} /\ ~s.final /\ s.gone = 0
  BY <1>3, <1>9 DEF IdleBroker
<1>11. \A c \in Consumers : con'[c].pc = "idle" /\ con'[c].lanes = [b \in Brokers |-> OutRing(b, c)] /\ con'[c].staging = <<>>
  <2> TAKE c \in Consumers
  <2>1. con'[c] = IdleConsumer(lanes[c], cc[c])
    BY <1>6
  <2>2. con'[c].pc = "idle" /\ con'[c].lanes = lanes[c] /\ con'[c].staging = <<>>
    BY <2>1 DEF IdleConsumer
  <2> QED
    BY <1>5, <2>2
<1>12. BrokeredType'
  <2>1. GridType(BrokeredRings)'
    BY <1>1, <1>2, <1>6, <1>7 DEF GridType
  <2>2. \A c \in Consumers : ConsumerFit(c)'
    BY <1>7, <1>11 DEF ConsumerFit, OutRing
  <2>3. \A b \in Brokers : BrokerFit(b)'
    BY <1>10 DEF BrokerFit, Moving
  <2>4. 1 \in Brokers /\ DOMAIN broker' = Brokers
    BY <1>2, <1>10 DEF Brokers
  <2>5. Unspawned' # {}
    BY <1>10, <2>4 DEF Unspawned
  <2> QED
    BY <1>1, <1>2, <1>6, <1>7, <1>10, <2>1, <2>2, <2>3, <2>5 DEF BrokeredType
<1>13. BrokeredOrder'
  <2>1. \A p \in Producers : ring'[InRing(p)].q = <<>>
    BY <1>8, RingsAre
  <2>2. \A b \in Brokers, c \in Consumers : ring'[OutRing(b, c)].q = <<>>
    BY <1>8, RingsAre
  <2> QED
    BY <1>1, <1>6, <2>1, <2>2, OrderedEmpty, OrderIf
<1>14. BrokeredKept'
  <2>1. \A b \in Brokers : broker'[b].pc \notin Moving
    BY <1>10 DEF Moving
  <2> QED
    BY <1>1, <1>6, <2>1, KeptIf
<1>15. BrokeredFinal'
  <2>1. \A b \in Brokers, c \in Consumers : OutRing(b, c) \in BrokeredRings
    BY RingsAre
  <2> QED
    BY <1>1, <1>8, <1>10, <1>11, <2>1, FinalIf
<1> QED
  BY <1>12, <1>13, <1>14, <1>15 DEF BrokeredInv

-----------------------------------------------------------------------------
(* Every step keeps the invariant.                                         *)

LEMMA GridInitial ==
  ASSUME Init
  PROVE  GridInv
  BY DEF Init, GridInit, GridInv, Unbuilt

\* Nobody is there before a channel is opened.
LEMMA NobodyYet ==
  ASSUME Unbuilt
  PROVE  DOMAIN prod = {} /\ DOMAIN con = {} /\ DOMAIN broker = {} /\ ~LanesNext /\ ~BrokeredNext
<1>1. DOMAIN prod = {} /\ DOMAIN con = {} /\ DOMAIN broker = {}
  BY OrderedEmpty DEF Unbuilt
<1>2. ~LanesNext
  BY <1>1 DEF LanesNext
<1>3. ~BrokeredNext
  BY <1>1 DEF BrokeredNext
<1> QED
  BY <1>1, <1>2, <1>3

\* A step that changes nothing keeps them.
LEMMA LanesStutter ==
  ASSUME LanesInv, UNCHANGED <<decl, opened, ring, prod, con, broker, live_producers, abandoned, got, early>>
  PROVE  LanesInv'
<1>1. /\ Producers' = Producers /\ Consumers' = Consumers /\ Values' = Values /\ RingState' = RingState
      /\ ProducerState' = ProducerState /\ LaneRings' = LaneRings /\ LaneState' = LaneState
      /\ ConsumerState(LaneRings)' = ConsumerState(LaneRings) /\ LaneCap' = LaneCap /\ Places' = Places
  BY DeclSame
<1>2. Alive' = Alive /\ Accepted' = Accepted
  BY <1>1 DEF Alive, Accepted
<1>3. LanesType'
  BY <1>1, <1>2 DEF LanesInv, LanesType, GridType
<1>4. Place' = Place
  BY <1>1 DEF Place, Line
<1>5. LanesOnce' /\ LanesKept'
  BY <1>2, <1>4 DEF LanesInv, LanesOnce, LanesKept, OneEach, Spread
<1>6. \A c \in Consumers : FinalPass(c)'
  BY DEF LanesInv, LanesFinal, FinalPass, Looked
<1>7. LanesFinal'
  BY <1>1, <1>6 DEF LanesInv, LanesFinal
<1> QED
  BY <1>3, <1>5, <1>7 DEF LanesInv

LEMMA BrokeredStutter ==
  ASSUME BrokeredInv,
         UNCHANGED <<decl, opened, ring, prod, con, broker, live_producers, got, due, early, panicked>>
  PROVE  BrokeredInv'
<1>1. /\ Producers' = Producers /\ Consumers' = Consumers /\ Brokers' = Brokers /\ Values' = Values
      /\ RingState' = RingState /\ ProducerState' = ProducerState /\ BrokeredRings' = BrokeredRings
      /\ BrokerState' = BrokerState /\ ConsumerState(BrokeredRings)' = ConsumerState(BrokeredRings)
      /\ (\A p : BrokerOf(p)' = BrokerOf(p)) /\ \A b : Inbound(b)' = Inbound(b)
  BY DeclSame
<1>2. Alive' = Alive /\ Accepted' = Accepted /\ Unspawned' = Unspawned /\ Orderly' = Orderly
  BY <1>1 DEF Alive, Accepted, Unspawned, Orderly
<1>3. \A b : BrokerFit(b) => BrokerFit(b)'
  BY <1>1 DEF BrokerFit
<1>4. \A c : ConsumerFit(c) => ConsumerFit(c)'
  BY <1>1 DEF ConsumerFit
<1>5. BrokeredType'
  BY <1>1, <1>2, <1>3, <1>4 DEF BrokeredInv, BrokeredType, GridType
<1>6. BrokeredOrder'
  <2>1. \A p : InOrder(p)' = InOrder(p)
    BY <1>2 DEF InOrder, Queued
  <2>2. \A c : OutOrder(c)' = OutOrder(c)
    BY <1>1, <1>2 DEF OutOrder, Queued
  <2>3. \A c, v : Reaches(c, v)' = Reaches(c, v)
    BY <1>1 DEF Reaches, Queued
  <2>4. \A c, p, j : Left(c, p, j)' = Left(c, p, j)
    BY <1>1 DEF Left, LeftOf
  <2>5. \A c : LeftOrder(c)' = LeftOrder(c)
    BY <1>1, <1>2, <2>3, <2>4 DEF LeftOrder
  <2> QED
    BY <1>1, <2>1, <2>2, <2>5 DEF BrokeredInv, BrokeredOrder
<1>7. BrokeredKept'
  <2>1. \A c, v : Reaches(c, v)' = Reaches(c, v)
    BY <1>1 DEF Reaches, Queued
  <2>2. \A v, targets : Forwarded(v, targets)' = Forwarded(v, targets)
    BY <1>1, <2>1 DEF Forwarded
  <2>3. \A b : BrokerKept(b)' = BrokerKept(b)
    BY <2>2 DEF BrokerKept, Settled
  <2> QED
    BY <1>1, <1>2, <2>2, <2>3 DEF BrokeredInv, BrokeredKept, Queued, Settled
<1>8. BrokeredFinal'
  <2>1. \A b, c : OutEnd(b, c)' = OutEnd(b, c)
    BY <1>2 DEF OutEnd
  <2>2. \A b : BrokerEnd(b)' = BrokerEnd(b)
    BY <1>1, <1>2 DEF BrokerEnd
  <2> QED
    BY <1>1, <2>1, <2>2 DEF BrokeredInv, BrokeredFinal
<1> QED
  BY <1>5, <1>6, <1>7, <1>8 DEF BrokeredInv

LEMMA GridStep ==
  ASSUME GridInv, [Next]_vars
  PROVE  GridInv'
<1>1. CASE UNCHANGED vars
  <2>1. /\ UNCHANGED <<decl, edits, opened, ring, prod, con, broker, live_producers, live_consumers>>
        /\ UNCHANGED <<abandoned, got, due, early, panicked>>
    BY <1>1 DEF vars, declaration, grid, endpoints
  <2>2. CASE Unbuilt
    BY <2>1, <2>2 DEF GridInv, Unbuilt
  <2>3. CASE LanesInv
    <3>1. LanesInv'
      BY <2>1, <2>3, LanesStutter
    <3> QED
      BY <3>1 DEF GridInv
  <2>4. CASE BrokeredInv
    <3>1. BrokeredInv'
      BY <2>1, <2>4, BrokeredStutter
    <3> QED
      BY <3>1 DEF GridInv
  <2> QED
    BY <2>2, <2>3, <2>4 DEF GridInv
<1>2. CASE Unbuilt /\ Next
  <2>1. DOMAIN broker = {} /\ ~LanesNext /\ ~BrokeredNext
    BY <1>2, NobodyYet
  <2>2. CASE UNCHANGED grid
    BY <1>2, <2>2 DEF grid, endpoints, GridInv, Unbuilt
  <2>3. CASE OpenLanes
    BY <1>2, <2>3, LanesOpen DEF GridInv
  <2>4. CASE OpenBrokered
    BY <1>2, <2>4, BrokeredOpen DEF GridInv
  <2> QED
    BY <1>2, <2>1, <2>2, <2>3, <2>4 DEF Next, OpenRefused
<1>3. CASE LanesInv /\ Next
  <2>1. decl \in Declared /\ opened = "open" /\ DOMAIN broker = {} /\ ~IsBrokered(decl)
    <3>1. broker = <<>> /\ decl \in Declared /\ IsLanes(decl) /\ opened = "open"
      BY <1>3 DEF LanesInv, LanesType
    <3> QED
      BY <3>1, OrderedEmpty DEF IsLanes, IsBrokered
  <2>2. LanesNext /\ UNCHANGED declaration
    BY <1>3, <2>1 DEF Next, Runs, OpenRefused, OpenLanes, OpenBrokered, Open
  <2> QED
    BY <1>3, <2>2, LanesStep DEF GridInv
<1>4. CASE BrokeredInv /\ Next
  <2>1. decl \in Declared /\ opened # "no" /\ DOMAIN broker = Brokers /\ ~IsLanes(decl)
    <3>1. BrokeredType /\ decl \in Declared /\ IsBrokered(decl) /\ opened # "no"
      BY <1>4 DEF BrokeredInv, BrokeredType
    <3> QED
      BY <3>1, BrokeredParts DEF IsLanes, IsBrokered
  <2>2. BrokeredSteps
    BY <1>4, <2>1 DEF Next, Runs, OpenRefused, OpenLanes, OpenBrokered, Open, BrokeredSteps
  <2> QED
    BY <1>4, <2>2, BrokeredStep DEF GridInv
<1> QED
  BY <1>1, <1>2, <1>3, <1>4 DEF GridInv

\* From the declaration on, through open(), every send, scan, adoption, sweep
\* and drop, the channel is unbuilt, a lane grid within LanesInv or a brokered
\* channel within BrokeredInv.
THEOREM GridInvariant == Spec => []GridInv
<1>1. Init => GridInv
  BY GridInitial
<1>2. GridInv /\ [Next]_vars => GridInv'
  BY GridStep
<1> QED
  BY <1>1, <1>2, PTL DEF Spec

\* A consumer receives no value twice, however lanes are abandoned and adopted
\* (Consumer::adopt_abandoned), and through a broker it receives the values of
\* a producer in the order they were sent (Broker::sweep, forward_to and
\* forward_rr), for every number of producers, consumers and brokers.
THEOREM OrderCorrect == Spec => []AtMostOnceInOrder
<1>1. ASSUME GridInv PROVE AtMostOnceInOrder
  <2>1. CASE Unbuilt
    BY <2>1, NobodyYet DEF AtMostOnceInOrder
  <2> QED
    BY <1>1, <2>1, LanesOrder, BrokeredOrderOk DEF GridInv
<1> QED
  BY <1>1, GridInvariant, PTL

\* A consumer told the end (Consumer::is_disconnected) has nothing left in its
\* rings; and when every consumer was told the end, none left early and no
\* routing closure panicked, every accepted value reached the consumers it was
\* routed to: no final pass, sweep or drop strands one.
THEOREM DrainCorrect == Spec => []NothingStranded
<1>1. ASSUME GridInv PROVE NothingStranded
  <2>1. CASE Unbuilt
    BY <2>1, NobodyYet DEF NothingStranded
  <2> QED
    BY <1>1, <2>1, LanesNothingStranded, BrokeredNothingStranded DEF GridInv
<1> QED
  BY <1>1, GridInvariant, PTL
=============================================================================
