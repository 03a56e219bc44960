-------------------------- MODULE BrokerlessProofs --------------------------
(***************************************************************************)
(* Proofs about Brokerless, for every tier, every number of producers and  *)
(* consumers, every capacity and every bound.                              *)
(***************************************************************************)
EXTENDS Brokerless, TLAPS, FiniteSetTheorems

-----------------------------------------------------------------------------
(* Arithmetic of positions.                                                *)

\* A sum of two residues is reduced by one subtraction at most.
LEMMA ModIs ==
  ASSUME NEW m \in Nat \ {0}, NEW x \in Nat, x < 2 * m
  PROVE  x % m = IF x < m THEN x ELSE x - m
<1> DEFINE q == x \div m
<1>1. x = q * m + (x % m) /\ q \in Int /\ x % m \in 0 .. m - 1
  BY SMT
<1> HIDE DEF q
<1>2. q >= 2 => q * m >= 2 * m
  BY <1>1, SMT
<1>3. q <= -1 => q * m <= -m
  BY <1>1, SMT
<1>4. q = 0 \/ q = 1
  BY <1>1, <1>2, <1>3
<1>5. CASE q = 0
  BY <1>1, <1>5
<1>6. CASE q = 1
  BY <1>1, <1>6
<1> QED
  BY <1>4, <1>5, <1>6

\* Positions and the first producer exist.
LEMMA Small ==
  /\ 1 \in Producers /\ 0 \in Positions /\ Positions \subseteq Nat
  /\ \A a \in Positions : a < Period
  BY ShapeAssumption, BoundAssumption DEF Producers, Positions

\* Moving a position forward by at most a period wraps once at most.
LEMMA ForwardIs ==
  ASSUME NEW a \in Positions, NEW k \in Nat, k <= Period
  PROVE  /\ Forward(a, k) = IF a + k < Period THEN a + k ELSE a + k - Period
         /\ Forward(a, k) \in Positions
<1> DEFINE x == a + k
<1>1. x \in Nat /\ x < 2 * Period /\ Period \in Nat \ {0}
  BY BoundAssumption, ShapeAssumption DEF Positions
<1>2. x % Period = IF x < Period THEN x ELSE x - Period
  BY <1>1, ModIs
<1> QED
  BY <1>1, <1>2 DEF Forward, Positions

\* The distance from b forward to a.
LEMMA AheadIs ==
  ASSUME NEW a \in Positions, NEW b \in Positions
  PROVE  /\ Ahead(a, b) = IF a >= b THEN a - b ELSE a - b + Period
         /\ Ahead(a, b) \in 0 .. Period - 1
<1> DEFINE x == a - b + Period
<1>1. x \in Nat /\ x < 2 * Period
  BY BoundAssumption DEF Positions
<1>2. x % Period = IF x < Period THEN x ELSE x - Period
  BY <1>1, ModIs, BoundAssumption, ShapeAssumption
<1> QED
  BY <1>1, <1>2, BoundAssumption DEF Ahead, Positions

\* The producer's advance adds to what is in the ring, the consumer's takes from it.
LEMMA AheadTail ==
  ASSUME NEW a \in Positions, NEW b \in Positions, NEW k \in Nat, Ahead(a, b) + k < Period
  PROVE  Ahead(Forward(a, k), b) = Ahead(a, b) + k
<1>1. k <= Period
  BY AheadIs, BoundAssumption
<1>2. Forward(a, k) = (IF a + k < Period THEN a + k ELSE a + k - Period) /\ Forward(a, k) \in Positions
  BY <1>1, ForwardIs
<1>3. Ahead(a, b) = IF a >= b THEN a - b ELSE a - b + Period
  BY AheadIs
<1>4. Ahead(Forward(a, k), b) =
        IF Forward(a, k) >= b THEN Forward(a, k) - b ELSE Forward(a, k) - b + Period
  BY <1>2, AheadIs
<1> QED
  BY <1>2, <1>3, <1>4, BoundAssumption DEF Positions

\* Moving the head forward by k shortens the distance by k.
LEMMA AheadHead ==
  ASSUME NEW a \in Positions, NEW b \in Positions, NEW k \in Nat, k <= Ahead(a, b)
  PROVE  Ahead(a, Forward(b, k)) = Ahead(a, b) - k
<1>1. k <= Period
  BY AheadIs, BoundAssumption
<1>2. Forward(b, k) = (IF b + k < Period THEN b + k ELSE b + k - Period) /\ Forward(b, k) \in Positions
  BY <1>1, ForwardIs
<1>3. Ahead(a, b) = IF a >= b THEN a - b ELSE a - b + Period
  BY AheadIs
<1>4. Ahead(a, Forward(b, k)) =
        IF a >= Forward(b, k) THEN a - Forward(b, k) ELSE a - Forward(b, k) + Period
  BY <1>2, AheadIs
<1> QED
  BY <1>2, <1>3, <1>4, BoundAssumption DEF Positions

-----------------------------------------------------------------------------
(* What the record operators return.                                       *)

\* Resume: back to the scan with the call's state untouched.
LEMMA ResumeIs ==
  ASSUME NEW x \in ConsumerState
  PROVE  /\ Resume(x) \in ConsumerState
         /\ Resume(x).pc = "select" /\ Resume(x).n = x.n /\ Resume(x).final = x.final
         /\ Resume(x).next = x.next /\ Resume(x).visits = x.visits /\ Resume(x).snap = x.snap
         /\ Resume(x).quota = x.quota
  BY Small DEF ConsumerState, Resume

\* Return: the call ends and the values staged stay with the consumer.
LEMMA ReturnIs ==
  ASSUME NEW x \in ConsumerState, NEW pc \in {"idle", "ended"}
  PROVE  /\ Return(x, pc) \in ConsumerState
         /\ Return(x, pc).pc = pc /\ Return(x, pc).n = x.n /\ Return(x, pc).final = FALSE
         /\ Return(x, pc).snap = x.snap /\ Return(x, pc).visits = 0
         /\ x.n # 0 => Return(x, pc).at = x.at /\ Return(x, pc).lo = x.lo
<1>1. 0 \in 0 .. MaxRings /\ 0 \in 0 .. Batch + MaxDrain
  BY ShapeAssumption, CallAssumption DEF MaxRings
<1> QED
  BY <1>1, Small DEF ConsumerState, Return, Blocking

\* Drop: k values leave the front of what the consumer holds.
LEMMA DropIs ==
  ASSUME NEW x \in ConsumerState, NEW k \in 0 .. x.n
  PROVE  /\ Drop(x, k) \in ConsumerState
         /\ Drop(x, k).n = x.n - k /\ Drop(x, k).lo = Forward(x.lo, k)
         /\ Drop(x, k).pc = x.pc /\ Drop(x, k).at = x.at /\ Drop(x, k).snap = x.snap
         /\ Drop(x, k).visits = x.visits /\ Drop(x, k).final = x.final
<1>1. x.lo \in Positions /\ x.n \in 0 .. Cap /\ k \in Nat /\ k <= Period
  BY ShapeAssumption, BoundAssumption DEF ConsumerState
<1>2. Forward(x.lo, k) \in Positions /\ x.n - k \in 0 .. Cap
  BY <1>1, ForwardIs, ShapeAssumption
<1> QED
  BY <1>2 DEF ConsumerState, Drop

\* Prefer: the ring just claimed is looked at again first.
LEMMA PreferIs ==
  ASSUME NEW x \in ConsumerState, x.next >= 1
  PROVE  /\ Prefer(x) \in ConsumerState
         /\ Prefer(x).n = x.n /\ Prefer(x).lo = x.lo /\ Prefer(x).at = x.at
         /\ Prefer(x).snap = x.snap /\ Prefer(x).pc = x.pc
<1>1. x.next - 1 \in 0 .. MaxRings + C /\ (x.credits + Quantum - 1) % Quantum \in 0 .. Quantum - 1
  BY ShapeAssumption, CallAssumption DEF ConsumerState, MaxRings
<1> QED
  BY <1>1 DEF ConsumerState, Prefer

\* A new consumer has nothing in its hands.
Fresh(x, pc) ==
  /\ x \in ConsumerState /\ x.pc = pc
  /\ x.n = 0 /\ x.snap = 0 /\ x.visits = 0 /\ x.final = FALSE

\* A new consumer holds nothing and is in no scan.
LEMMA NewConsumerIs ==
  ASSUME NEW pc \in {"unborn", "idle", "gone"}, NEW seed \in 0 .. C
  PROVE  Fresh(NewConsumer(pc, seed), pc)
<1>1. /\ 0 \in 0 .. MaxRings /\ 0 \in 0 .. Batch + MaxDrain /\ 0 \in 0 .. Cap
      /\ seed \in 0 .. MaxRings + C /\ Quantum - 1 \in 0 .. Quantum - 1
  BY ShapeAssumption, CallAssumption DEF MaxRings
<1> QED
  BY <1>1, Small DEF Fresh, ConsumerState, NewConsumer, Blocking

\* The number of values a call takes from the staging batch.
LEMMA ServedIs ==
  ASSUME NEW call \in Blocking \cup InPlace \cup {"try_recv"}, NEW n \in Nat
  PROVE  /\ Served(call, n) \in 0 .. n
         /\ Served(call, n) = 0 <=> n = 0
         /\ call \in InPlace => Served(call, n) <= MaxDrain
         /\ call \in InPlace /\ Served(call, n) < MaxDrain => Served(call, n) = n
  BY CallAssumption DEF Served, Smaller, Blocking, InPlace

-----------------------------------------------------------------------------
(* The inductive invariant, in parts.                                      *)

Counted    == {p \in Producers : ppc[p] \in {"idle", "push", "full"}}
Publishing == {p \in Producers : ppc[p] = "publish"}
Present    == {c \in Consumers : con[c].pc \notin {"unborn", "gone"}}

\* What the counters of the membership count.
CountInv ==
  /\ live = registrars + Cardinality(Counted)
  /\ live_consumers = Cardinality(Present)
  /\ registrars = 0 => Registering = {}
  /\ tier = "locked" => count + Cardinality(Publishing) = Len(slots)
  /\ tier # "locked" => count = Len(slots)

\* A producer that may have sent has a ring the consumers can find, and the cell
\* a registration is about to fill is still empty and is its own.
SlotInv ==
  /\ \A p \in Producers :
       /\ ppc[p] \notin {"unborn", "publish", "refused"} => \E i \in 1 .. Len(slots) : slots[i] = p
       /\ ppc[p] = "publish" /\ tier = "locked" => \E i \in 1 .. Len(slots) : slots[i] = p
       /\ ppc[p] = "publish" /\ tier = "array" =>
            cell[p] \in 1 .. Len(slots) /\ slots[cell[p]] = Null
       /\ ppc[p] \in {"unborn", "publish", "count", "refused"} => tail[p] = 0
       /\ ppc[p] \in {"publish", "count"} => tier # "fixed"
  /\ \A p, q \in Producers :
       p # q /\ ppc[p] = "publish" /\ ppc[q] = "publish" /\ tier = "array" => cell[p] # cell[q]

\* A consumer's cursor, and when it has values in its hands.
ScanOK(c) ==
  /\ con[c].snap <= Len(slots) /\ con[c].visits <= count
  /\ con[c].pc \in {"claim", "read", "commit", "release", "unwind"} => con[c].next >= 1
  /\ con[c].pc \notin {"idle", "commit", "release"} => con[c].n = 0

ScanInv == con[1].pc # "unborn" /\ \A c \in Consumers : ScanOK(c)

\* A claim belongs to the one consumer inside the ring.
ClaimInv ==
  /\ SingleConsumer
  /\ \A c \in Consumers : Inside(c) => claimed[con[c].at]
  /\ \A p \in Producers : claimed[p] => \E c \in Consumers : Inside(c) /\ con[c].at = p

\* What a consumer is about to commit is at the head of its ring.
CommitInv ==
  \A c \in Consumers : con[c].pc = "commit" =>
    /\ con[c].lo = head[con[c].at]
    /\ 0 < con[c].n /\ con[c].n <= InRing(con[c].at)

BaseInv == TypeOK /\ CountInv /\ SlotInv /\ ScanInv /\ ClaimInv /\ CommitInv

-----------------------------------------------------------------------------
(* What became of the values, in an instance that keeps the history.       *)

\* Values that left the ring and are not handed over yet.
Holding(c) ==
  /\ con[c].n > 0
  /\ con[c].pc = "idle" \/ (con[c].pc = "release" /\ con[c].call \notin InPlace)

Held(c, p, k) ==
  Holding(c) /\ con[c].at = p /\ con[c].lo <= k /\ k < con[c].lo + con[c].n

RingOK(p) ==
  /\ head[p] <= tail[p] /\ tail[p] + rem[p] <= MaxSend
  /\ \A k \in Positions :
       /\ k >= head[p] => got[p][k] = 0
       /\ got[p][k] <= 1

HoldOK(c) ==
  /\ Holding(c) =>
       /\ con[c].lo + con[c].n <= head[con[c].at]
       /\ seen[c][con[c].at] <= con[c].lo
  /\ \A p \in Producers :
       /\ seen[c][p] <= head[p]
       /\ \A k \in Positions : Held(c, p, k) => got[p][k] = 0
  /\ \A d \in Consumers : \A p \in Producers, k \in Positions :
       Held(c, p, k) /\ Held(d, p, k) => c = d

FlowInv ==
  /\ \A p \in Producers : RingOK(p)
  /\ \A c \in Consumers : HoldOK(c)

-----------------------------------------------------------------------------
(* The end of the stream.                                                  *)

\* Index x of L rings is among the v visits from index s on.
InPass(x, s, v, L) == (s <= x /\ x < s + v) \/ x < s + v - L

\* Consumer c looks into ring p again before it may end.
Owes(c, p) ==
  /\ con[c].pc \notin {"unborn", "ended", "gone"}
  /\ \/ ~con[c].final
     \/ con[c].pc \in {"idle", "count", "unwind"}
     \/ con[c].n > 0
     \/ con[c].pc \in {"claim", "read"} /\ con[c].at = p
     \/ \E i \in 1 .. Len(slots) :
          slots[i] = p /\ InPass(i - 1, Index(con[c].next, Len(slots)), con[c].visits, Len(slots))

\* Every value that left a ring was handed over or is in a consumer's hands.
NoneLost ==
  abandoned = 0 => \A p \in Producers, k \in Positions :
    k < head[p] => got[p][k] = 1 \/ \E c \in Consumers : Held(c, p, k)

\* A consumer inside a pass would take a value if it found one, and one that
\* decides to end knows that no producer is left.
EndOK(c) ==
  /\ con[c].pc \in {"count", "select", "claim", "read", "commit", "release"} => con[c].quota >= 1
  /\ con[c].final \/ con[c].pc = "ended" => live = 0
  /\ con[c].pc = "gone" /\ abandoned = 0 => live = 0
  /\ con[c].final /\ con[c].pc = "release" /\ con[c].n = 0 => head[con[c].at] = tail[con[c].at]

\* A ring that no consumer owes a visit is empty.
EndInv ==
  /\ \A c \in Consumers : EndOK(c)
  /\ abandoned = 0 => \A p \in Producers :
       (\A c \in Consumers : ~Owes(c, p)) => head[p] = tail[p]

IInv == BaseInv /\ (~Endless => FlowInv /\ NoneLost /\ EndInv)

-----------------------------------------------------------------------------
(* Counting.                                                               *)

\* A set of producers is finite and has at most P members.
LEMMA ProducerSets ==
  ASSUME NEW S \in SUBSET Producers
  PROVE  IsFiniteSet(S) /\ Cardinality(S) \in 0 .. P
<1>1. IsFiniteSet(Producers) /\ Cardinality(Producers) = P
  BY FS_Interval, ShapeAssumption DEF Producers
<1>2. IsFiniteSet(S) /\ Cardinality(S) <= P
  BY <1>1, FS_Subset
<1> QED
  BY <1>2, FS_CardinalityType, ShapeAssumption

\* A set of consumers is finite and has at most C members.
LEMMA ConsumerSets ==
  ASSUME NEW S \in SUBSET Consumers
  PROVE  IsFiniteSet(S) /\ Cardinality(S) \in 0 .. C
<1>1. IsFiniteSet(Consumers) /\ Cardinality(Consumers) = C
  BY FS_Interval, ShapeAssumption DEF Consumers
<1>2. IsFiniteSet(S) /\ Cardinality(S) <= C
  BY <1>1, FS_Subset
<1> QED
  BY <1>2, FS_CardinalityType, ShapeAssumption

\* One more producer counts one more.
LEMMA CardAdd ==
  ASSUME NEW S \in SUBSET Producers, NEW p, p \notin S
  PROVE  Cardinality(S \cup {p}) = Cardinality(S) + 1 /\ Cardinality(S) \in Nat
  BY ProducerSets, FS_AddElement

\* One producer fewer counts one less.
LEMMA CardRemove ==
  ASSUME NEW S \in SUBSET Producers, NEW p \in S
  PROVE  Cardinality(S \ {p}) = Cardinality(S) - 1 /\ Cardinality(S) \in Nat
  BY ProducerSets, FS_RemoveElement

\* What the counters say of the producers.
LEMMA CountedIs ==
  ASSUME TypeOK, CountInv
  PROVE  /\ live = 0 <=> registrars = 0 /\ Counted = {}
         /\ live = 0 => Registering = {} /\ count = Len(slots)
         /\ live <= P + registrars
<1>1. IsFiniteSet(Counted) /\ Cardinality(Counted) \in 0 .. P
  BY ProducerSets DEF Counted
<1>2. Cardinality(Counted) = 0 <=> Counted = {}
  BY <1>1, FS_EmptySet
<1>3. live = 0 <=> registrars = 0 /\ Counted = {}
  BY <1>1, <1>2 DEF CountInv, TypeOK
<1>4. ASSUME live = 0 PROVE Registering = {} /\ count = Len(slots)
  <2>1. Registering = {}
    BY <1>3, <1>4 DEF CountInv
  <2>2. Publishing = {}
    BY <2>1 DEF Publishing, Registering
  <2>3. Cardinality(Publishing) = 0
    BY <2>2, FS_EmptySet
  <2> QED
    BY <2>1, <2>3 DEF CountInv, TypeOK
<1> QED
  BY <1>1, <1>3, <1>4, ShapeAssumption, BoundAssumption DEF CountInv, TypeOK

-----------------------------------------------------------------------------
(* The initial state.                                                      *)

\* The initial states satisfy the base invariant.
LEMMA BaseInit == Init => BaseInv
<1> SUFFICES ASSUME Init PROVE BaseInv
  OBVIOUS
<1> USE ShapeAssumption, BoundAssumption, CallAssumption
<1>0. /\ slots \in Seq(Producers \cup {Null}) /\ Len(slots) <= MaxRings
      /\ count = Len(slots) /\ count \in Nat
  <2>1. CASE OpenFixed
    <3>1. slots = [p \in 1 .. P |-> p] /\ tier = "fixed"
      BY <2>1 DEF OpenFixed, Producers
    <3>2. slots \in Seq(Producers \cup {Null}) /\ Len(slots) = P
      BY <3>1 DEF Producers
    <3> QED
      BY <3>1, <3>2 DEF Init, MaxRings
  <2>2. CASE OpenDynamic
    <3>1. slots = <<>> /\ tier # "fixed"
      BY <2>2 DEF OpenDynamic
    <3> QED
      BY <3>1 DEF Init, MaxRings
  <2> QED
    BY <2>1, <2>2 DEF Init
<1>1. \A c \in Consumers :
        /\ con[c] \in ConsumerState /\ con[c].pc \in {"idle", "unborn"}
        /\ con[c].pc = "idle" <=> c = 1
        /\ con[c].snap = 0 /\ con[c].visits = 0 /\ con[c].n = 0 /\ con[c].final = FALSE
  <2> TAKE c \in Consumers
  <2>1. con[c] = NewConsumer(IF c = 1 THEN "idle" ELSE "unborn", 0) /\ 0 \in 0 .. C
    BY DEF Init
  <2>3. CASE c = 1
    <3>1. con[c] = NewConsumer("idle", 0)
      BY <2>1, <2>3
    <3>2. Fresh(con[c], "idle")
      BY <2>1, <3>1, NewConsumerIs
    <3> QED
      BY <2>3, <3>2 DEF Fresh
  <2>4. CASE c # 1
    <3>1. con[c] = NewConsumer("unborn", 0)
      BY <2>1, <2>4
    <3>2. Fresh(con[c], "unborn")
      BY <2>1, <3>1, NewConsumerIs
    <3> QED
      BY <2>4, <3>2 DEF Fresh
  <2> QED
    BY <2>3, <2>4
<1>2. TypeOK
  <2>1. con \in [Consumers -> ConsumerState]
    BY <1>1 DEF Init
  <2>2. /\ head \in [Producers -> Positions] /\ tail \in [Producers -> Positions]
        /\ \A p \in Producers : head[p] = 0 /\ tail[p] = 0
        /\ claimed \in [Producers -> BOOLEAN] /\ rem \in [Producers -> Nat]
    BY Small DEF Init
  <2>3. ASSUME NEW p \in Producers PROVE InRing(p) <= Cap
    BY <2>2, AheadIs, Small DEF InRing
  <2>4. cell \in [Producers -> 0 .. MaxRings]
    BY DEF Init, MaxRings
  <2>5. /\ ppc \in [Producers -> {"unborn", "publish", "count", "refused", "idle", "push",
                                  "full", "gone"}]
        /\ registrars \in 0 .. MaxRegistrars /\ live \in 0 .. P + MaxRegistrars
    BY DEF Init, OpenFixed, OpenDynamic
  <2>6. got \in [Producers -> [Positions -> 0 .. 2]] /\ seen \in [Consumers -> [Producers -> Nat]]
    BY DEF Init
  <2>7. live_consumers \in 0 .. C /\ abandoned \in 0 .. MaxAbandoned /\ tier \in Tiers
    BY DEF Init
  <2> QED
    BY <1>0, <2>1, <2>2, <2>3, <2>4, <2>5, <2>6, <2>7 DEF TypeOK
<1>3. CountInv
  <2>1. live_consumers = Cardinality(Present)
    <3>1. Present = {1}
      BY <1>1 DEF Present, Consumers
    <3> QED
      BY <3>1, FS_Singleton DEF Init
  <2>2. CASE OpenFixed
    <3>1. Counted = Producers /\ Registering = {}
      BY <2>2 DEF OpenFixed, Counted, Registering
    <3>2. Cardinality(Producers) = P
      BY FS_Interval DEF Producers
    <3> QED
      BY <1>0, <2>1, <2>2, <3>1, <3>2 DEF OpenFixed, CountInv
  <2>3. CASE OpenDynamic
    <3>1. Counted = {} /\ Publishing = {}
      BY <2>3 DEF OpenDynamic, Counted, Publishing
    <3>2. Cardinality({}) = 0
      BY FS_EmptySet
    <3> QED
      BY <1>0, <2>1, <2>3, <3>1, <3>2 DEF OpenDynamic, CountInv
  <2> QED
    BY <2>2, <2>3 DEF Init
<1>4. SlotInv
  <2>1. CASE OpenFixed
    <3>1. /\ slots = [p \in 1 .. P |-> p] /\ tier = "fixed" /\ Len(slots) = P
          /\ \A p \in Producers : ppc[p] = "idle"
      BY <2>1 DEF OpenFixed, Producers
    <3>2. \A p \in Producers : p \in 1 .. Len(slots) /\ slots[p] = p
      BY <3>1 DEF Producers
    <3> QED
      BY <3>1, <3>2 DEF SlotInv
  <2>2. CASE OpenDynamic
    <3>1. \A p \in Producers : ppc[p] = "unborn" /\ tail[p] = 0
      BY <2>2 DEF OpenDynamic, Init
    <3> QED
      BY <3>1 DEF SlotInv
  <2> QED
    BY <2>1, <2>2 DEF Init
<1>5. ScanInv
  BY <1>0, <1>1 DEF ScanInv, ScanOK, Consumers
<1>6. ClaimInv /\ CommitInv
  <2>1. \A c \in Consumers : ~Inside(c) /\ con[c].pc # "commit"
    BY <1>1 DEF Inside
  <2> QED
    BY <2>1 DEF ClaimInv, CommitInv, SingleConsumer, Init
<1> QED
  BY <1>2, <1>3, <1>4, <1>5, <1>6 DEF BaseInv

-----------------------------------------------------------------------------
(* Steps of registrars and producers.  They leave the consumers, the heads *)
(* and the claims alone.                                                   *)

\* The consumers' parts of the invariant survive a growth of the membership and
\* of what the rings hold.
LEMMA ProducerFrame ==
  ASSUME BaseInv, con' = con, claimed' = claimed, head' = head, tier' = tier,
         live_consumers' = live_consumers,
         Len(slots) <= Len(slots'), Len(slots') \in Nat, count <= count', count' \in Nat,
         \A p \in Producers : InRing(p) <= InRing(p)' /\ InRing(p)' \in Nat
  PROVE  ScanInv' /\ ClaimInv' /\ CommitInv' /\ live_consumers' = Cardinality(Present')
<1>0. ConsumerState' = ConsumerState
  BY DEF ConsumerState, MaxRings
<1>1. \A c \in Consumers :
        con[c].snap \in Nat /\ con[c].visits \in Nat /\ con[c].at \in Producers /\ con[c].n \in Nat
  BY SMTT(30) DEF BaseInv, TypeOK, ConsumerState
<1>2. ScanInv'
  BY <1>1 DEF BaseInv, TypeOK, ScanInv, ScanOK
<1>3. ClaimInv'
  BY DEF BaseInv, ClaimInv, SingleConsumer, Inside
<1>4. CommitInv'
  <2> SUFFICES ASSUME NEW c \in Consumers, con[c].pc = "commit"
               PROVE  con[c].n <= InRing(con[c].at)' /\ con[c].lo = head[con[c].at] /\ 0 < con[c].n
    BY DEF CommitInv
  <2>1. con[c].n <= InRing(con[c].at) /\ con[c].lo = head[con[c].at] /\ 0 < con[c].n
    BY DEF BaseInv, CommitInv
  <2>2. InRing(con[c].at) \in Nat
    BY <1>1, AheadIs, BoundAssumption DEF BaseInv, TypeOK, InRing
  <2> QED
    BY <1>1, <2>1, <2>2
<1>5. Present' = Present
  BY DEF Present
<1> QED
  BY <1>2, <1>3, <1>4, <1>5 DEF BaseInv, CountInv

\* InRing is a number, and depends on the two positions only.
LEMMA InRingType ==
  ASSUME TypeOK, NEW p \in Producers
  PROVE  InRing(p) \in Nat /\ InRing(p) < Period
  BY AheadIs, BoundAssumption DEF TypeOK, InRing

\* Register keeps the base invariant.
LEMMA RegisterBase ==
  ASSUME BaseInv, NEW p \in Producers, Register(p)
  PROVE  BaseInv'
<1> USE DEF membership, ring, history, producer
<1>0. /\ ppc[p] = "unborn" /\ registrars > 0 /\ tail[p] = 0
      /\ TypeOK /\ CountInv /\ SlotInv
      /\ slots \in Seq(Producers \cup {Null}) /\ Len(slots) \in Nat /\ tier # "fixed"
      /\ UNCHANGED <<tier, live, registrars, live_consumers, ring, rem, con, history>>
  BY DEF BaseInv, SlotInv, Register, TypeOK
<1>1. ConsumerState' = ConsumerState /\ MaxRings' = MaxRings /\ MaxRings = Cells /\ Cells \in Nat
  BY <1>0, ShapeAssumption DEF ConsumerState, MaxRings
<1>2. \A q \in Producers : InRing(q)' = InRing(q) /\ InRing(q) \in Nat
  BY <1>0, InRingType DEF InRing, Ahead
<1>3. CASE tier = "array" /\ Len(slots) < Cells
  <2>1. /\ slots' = Append(slots, Null) /\ count' = count + 1
        /\ cell' = [cell EXCEPT ![p] = Len(slots) + 1] /\ ppc' = [ppc EXCEPT ![p] = "publish"]
    BY <1>3 DEF Register, Reserve
  <2>2. /\ slots' \in Seq(Producers \cup {Null}) /\ Len(slots') = Len(slots) + 1
        /\ \A i \in 1 .. Len(slots) : slots'[i] = slots[i]
        /\ slots'[Len(slots) + 1] = Null
    BY <1>0, <2>1
  <2>3. TypeOK'
    BY <1>0, <1>1, <1>2, <1>3, <2>1, <2>2 DEF TypeOK
  <2>4. CountInv'
    <3>1. Counted' = Counted /\ Present' = Present
      BY <1>0, <2>1 DEF Counted, Present, TypeOK
    <3> QED
      BY <1>0, <1>3, <2>1, <2>2, <3>1 DEF CountInv
  <2>5. SlotInv'
    BY <1>0, <1>3, <2>1, <2>2 DEF SlotInv, TypeOK
  <2>6. ScanInv' /\ ClaimInv' /\ CommitInv'
    BY <1>0, <1>2, <2>1, <2>2, ProducerFrame DEF TypeOK
  <2> QED
    BY <2>3, <2>4, <2>5, <2>6 DEF BaseInv
<1>4. CASE tier = "array" /\ ~(Len(slots) < Cells)
  <2>1. ppc' = [ppc EXCEPT ![p] = "refused"] /\ UNCHANGED <<slots, count, cell>>
    BY <1>4 DEF Register, Reserve
  <2>3. TypeOK'
    BY <1>0, <1>1, <1>2, <2>1 DEF TypeOK
  <2>4. CountInv'
    <3>1. Counted' = Counted /\ Present' = Present
      BY <1>0, <2>1 DEF Counted, Present, TypeOK
    <3> QED
      BY <1>0, <1>4, <2>1, <3>1 DEF CountInv
  <2>5. SlotInv'
    BY <1>0, <2>1 DEF SlotInv, TypeOK
  <2>6. ScanInv' /\ ClaimInv' /\ CommitInv'
    BY <1>0, <1>2, <2>1, ProducerFrame DEF TypeOK
  <2> QED
    BY <2>3, <2>4, <2>5, <2>6 DEF BaseInv
<1>5. CASE tier = "locked"
  <2>1. /\ slots' = Append(slots, p) /\ UNCHANGED <<count, cell>> /\ Len(slots) < Cells
        /\ ppc' = [ppc EXCEPT ![p] = "publish"]
    BY <1>5 DEF Register
  <2>2. /\ slots' \in Seq(Producers \cup {Null}) /\ Len(slots') = Len(slots) + 1
        /\ \A i \in 1 .. Len(slots) : slots'[i] = slots[i]
        /\ slots'[Len(slots) + 1] = p
    BY <1>0, <2>1
  <2>3. TypeOK'
    BY <1>0, <1>1, <1>2, <2>1, <2>2 DEF TypeOK
  <2>4. CountInv'
    <3>1. Counted' = Counted /\ Present' = Present
      BY <1>0, <2>1 DEF Counted, Present, TypeOK
    <3>2. Publishing' = Publishing \cup {p} /\ p \notin Publishing
      BY <1>0, <2>1 DEF Publishing, TypeOK
    <3>3. Publishing \in SUBSET Producers
      BY DEF Publishing
    <3>4. Cardinality(Publishing') = Cardinality(Publishing) + 1 /\ Cardinality(Publishing) \in Nat
      BY <3>2, <3>3, CardAdd
    <3> QED
      BY <1>0, <1>5, <2>1, <2>2, <3>1, <3>4 DEF CountInv, TypeOK
  <2>5. SlotInv'
    BY <1>0, <1>5, <2>1, <2>2 DEF SlotInv, TypeOK
  <2>6. ScanInv' /\ ClaimInv' /\ CommitInv'
    BY <1>0, <1>2, <2>1, <2>2, ProducerFrame DEF TypeOK
  <2> QED
    BY <2>3, <2>4, <2>5, <2>6 DEF BaseInv
<1> QED
  BY <1>3, <1>4, <1>5 DEF Register

\* Publish keeps the base invariant.
LEMMA PublishBase ==
  ASSUME BaseInv, NEW p \in Producers, Publish(p)
  PROVE  BaseInv'
<1> USE DEF membership, ring, history, producer
<1>0. /\ ppc[p] = "publish" /\ tail[p] = 0 /\ TypeOK /\ CountInv /\ SlotInv
      /\ slots \in Seq(Producers \cup {Null}) /\ Len(slots) \in Nat /\ tier # "fixed"
      /\ ppc' = [ppc EXCEPT ![p] = "count"]
      /\ UNCHANGED <<tier, live, registrars, live_consumers, ring, rem, cell, con, history>>
  BY DEF BaseInv, SlotInv, Publish, TypeOK
<1>1. ConsumerState' = ConsumerState /\ MaxRings' = MaxRings
  BY <1>0 DEF ConsumerState, MaxRings
<1>2. \A q \in Producers : InRing(q)' = InRing(q) /\ InRing(q) \in Nat
  BY <1>0, InRingType DEF InRing, Ahead
<1>3. Counted' = Counted /\ Present' = Present /\ Registering' = Registering
  BY <1>0 DEF Counted, Present, Registering, TypeOK
<1>4. CASE tier = "array"
  <2>1. slots' = [slots EXCEPT ![cell[p]] = p] /\ UNCHANGED count
    BY <1>4 DEF Publish
  <2>2. /\ slots' \in Seq(Producers \cup {Null}) /\ Len(slots') = Len(slots)
        /\ cell[p] \in 1 .. Len(slots) /\ slots[cell[p]] = Null /\ slots'[cell[p]] = p
        /\ \A i \in 1 .. Len(slots) : i # cell[p] => slots'[i] = slots[i]
    BY <1>0, <1>4, <2>1 DEF SlotInv
  <2>3. TypeOK'
    BY <1>0, <1>1, <1>2, <2>1, <2>2 DEF TypeOK
  <2>4. CountInv'
    BY <1>0, <1>3, <1>4, <2>1, <2>2 DEF CountInv
  <2>5. SlotInv'
    <3>1. ASSUME NEW q \in Producers, \E i \in 1 .. Len(slots) : slots[i] = q
          PROVE  \E i \in 1 .. Len(slots') : slots'[i] = q
      <4>1. PICK i \in 1 .. Len(slots) : slots[i] = q
        BY <3>1
      <4>2. i # cell[p]
        BY <2>2, <4>1 DEF Producers, Null
      <4> QED
        BY <2>2, <4>1, <4>2
    <3>2. \E i \in 1 .. Len(slots') : slots'[i] = p
      BY <2>2
    <3>3. \A q \in Producers : ppc'[q] = IF q = p THEN "count" ELSE ppc[q]
      BY <1>0 DEF TypeOK
    <3>4. \A q \in Producers : q # p /\ ppc[q] = "publish" =>
            cell[q] \in 1 .. Len(slots') /\ slots'[cell[q]] = Null
      BY <1>0, <1>4, <2>2 DEF SlotInv
    <3>5. \A q \in Producers :
            ppc'[q] \notin {"unborn", "publish", "refused"} => \E i \in 1 .. Len(slots') : slots'[i] = q
      BY <1>0, <3>1, <3>2, <3>3 DEF SlotInv
    <3> QED
      BY <1>0, <1>4, <3>3, <3>4, <3>5 DEF SlotInv
  <2>6. ScanInv' /\ ClaimInv' /\ CommitInv'
    BY <1>0, <1>2, <2>1, <2>2, ProducerFrame DEF TypeOK
  <2> QED
    BY <2>3, <2>4, <2>5, <2>6 DEF BaseInv
<1>5. CASE tier = "locked"
  <2>1. count' = count + 1 /\ UNCHANGED slots
    BY <1>5 DEF Publish
  <2>2. Cardinality(Publishing') = Cardinality(Publishing) - 1 /\ Cardinality(Publishing) \in Nat
    <3>1. Publishing' = Publishing \ {p} /\ p \in Publishing
      BY <1>0 DEF Publishing, TypeOK
    <3>2. Publishing \in SUBSET Producers
      BY DEF Publishing
    <3> QED
      BY <3>1, <3>2, CardRemove
  <2>3. Cardinality(Publishing') \in Nat
    BY ProducerSets, Publishing' \in SUBSET Producers DEF Publishing
  <2>4. CountInv' /\ count' \in 0 .. Len(slots)
    BY <1>0, <1>3, <1>5, <2>1, <2>2, <2>3 DEF CountInv, TypeOK
  <2>5. TypeOK'
    BY <1>0, <1>1, <1>2, <2>1, <2>4 DEF TypeOK
  <2>6. SlotInv'
    BY <1>0, <1>5, <2>1 DEF SlotInv, TypeOK
  <2>7. ScanInv' /\ ClaimInv' /\ CommitInv'
    BY <1>0, <1>2, <2>1, ProducerFrame DEF TypeOK
  <2> QED
    BY <2>4, <2>5, <2>6, <2>7 DEF BaseInv
<1> QED
  BY <1>4, <1>5 DEF Publish

\* Steps that leave the membership alone: the counters follow the producers.
LEMMA CounterFrame ==
  ASSUME BaseInv, UNCHANGED <<membership, live_consumers, ring, rem, cell, con, history>>,
         ppc' \in [Producers -> {"unborn", "publish", "count", "refused", "idle", "push", "full",
                                 "gone"}],
         \A q \in Producers : ppc'[q] = ppc[q]
                              \/ (ppc[q] \notin {"unborn", "publish", "refused"}
                                  /\ ppc'[q] \in {"idle", "push", "full", "gone"}),
         registrars' \in 0 .. MaxRegistrars, live' = registrars' + Cardinality(Counted'),
         registrars' = 0 => Registering' = {}
  PROVE  BaseInv'
<1> USE DEF membership, ring, history
<1>1. TypeOK /\ CountInv /\ SlotInv /\ ConsumerState' = ConsumerState /\ MaxRings' = MaxRings
  BY DEF BaseInv, ConsumerState, MaxRings
<1>2. \A q \in Producers : InRing(q)' = InRing(q) /\ InRing(q) \in Nat
  BY <1>1, InRingType DEF InRing, Ahead
<1>3. live' \in 0 .. P + MaxRegistrars
  <2>1. Cardinality(Counted') \in 0 .. P
    BY ProducerSets, Counted' \in SUBSET Producers DEF Counted
  <2> QED
    BY <2>1, ShapeAssumption, BoundAssumption
<1>4. TypeOK'
  BY <1>1, <1>2, <1>3 DEF TypeOK
<1>5. CountInv'
  <2>1. Publishing' = Publishing /\ Present' = Present
    BY DEF Publishing, Present
  <2> QED
    BY <1>1, <2>1 DEF CountInv
<1>6. SlotInv'
  BY <1>1 DEF SlotInv
<1>7. ScanInv' /\ ClaimInv' /\ CommitInv'
  BY <1>1, <1>2, ProducerFrame DEF TypeOK
<1> QED
  BY <1>4, <1>5, <1>6, <1>7 DEF BaseInv

\* CountLive keeps the base invariant.
LEMMA CountLiveBase ==
  ASSUME BaseInv, NEW p \in Producers, CountLive(p)
  PROVE  BaseInv'
<1>0. TypeOK /\ CountInv /\ ppc[p] = "count" /\ ppc' = [ppc EXCEPT ![p] = "idle"]
  BY DEF BaseInv, CountLive
<1>1. Counted' = Counted \cup {p} /\ p \notin Counted
  BY <1>0 DEF Counted, TypeOK
<1>2. Cardinality(Counted') = Cardinality(Counted) + 1 /\ Cardinality(Counted) \in Nat
  <2>1. Counted \in SUBSET Producers
    BY DEF Counted
  <2> QED
    BY <1>1, <2>1, CardAdd
<1>3. live' = registrars' + Cardinality(Counted')
  BY <1>0, <1>2 DEF CountLive, CountInv, TypeOK
<1>4. registrars' = 0 => Registering' = {}
  BY <1>0 DEF CountLive, CountInv, Registering, TypeOK
<1> QED
  BY <1>0, <1>3, <1>4, CounterFrame DEF CountLive, TypeOK

\* Registrar keeps the base invariant.
LEMMA RegistrarBase ==
  ASSUME BaseInv, RegistrarClone \/ RegistrarDrop
  PROVE  BaseInv'
<1>0. TypeOK /\ CountInv /\ ppc' = ppc /\ Counted' = Counted /\ Registering' = Registering
  BY DEF BaseInv, RegistrarClone, RegistrarDrop, producer, Counted, Registering
<1>1. Cardinality(Counted) \in Nat
  BY ProducerSets DEF Counted
<1>2. live' = registrars' + Cardinality(Counted') /\ registrars' \in 0 .. MaxRegistrars
  <2>1. live = registrars + Cardinality(Counted) /\ registrars \in 0 .. MaxRegistrars
    BY <1>0 DEF CountInv, TypeOK
  <2>2. CASE RegistrarClone
    BY <1>0, <1>1, <2>1, <2>2, BoundAssumption DEF RegistrarClone
  <2>3. CASE RegistrarDrop
    BY <1>0, <1>1, <2>1, <2>3, BoundAssumption DEF RegistrarDrop
  <2> QED
    BY <2>2, <2>3
<1>3. registrars' = 0 => Registering' = {}
  BY <1>0, <1>2 DEF RegistrarClone, RegistrarDrop, CountInv, TypeOK
<1> QED
  BY <1>0, <1>2, <1>3, CounterFrame DEF RegistrarClone, RegistrarDrop, producer, TypeOK

\* ProducerDrop keeps the base invariant.
LEMMA ProducerDropBase ==
  ASSUME BaseInv, NEW p \in Producers, ProducerDrop(p)
  PROVE  BaseInv'
<1>0. TypeOK /\ CountInv /\ ppc[p] = "idle" /\ ppc' = [ppc EXCEPT ![p] = "gone"]
  BY DEF BaseInv, ProducerDrop
<1>1. Counted' = Counted \ {p} /\ p \in Counted
  BY <1>0 DEF Counted, TypeOK
<1>2. Cardinality(Counted') = Cardinality(Counted) - 1 /\ Cardinality(Counted) \in Nat
  <2>1. Counted \in SUBSET Producers
    BY DEF Counted
  <2> QED
    BY <1>1, <2>1, CardRemove
<1>3. live' = registrars' + Cardinality(Counted')
  BY <1>0, <1>2 DEF ProducerDrop, CountInv, TypeOK
<1>4. registrars' = 0 => Registering' = {}
  BY <1>0 DEF ProducerDrop, CountInv, Registering, TypeOK
<1> QED
  BY <1>0, <1>3, <1>4, CounterFrame DEF ProducerDrop, TypeOK

\* An attempt fills the ring to its capacity at most.
LEMMA AttemptIs ==
  ASSUME TypeOK, NEW p \in Producers, NEW m \in Nat, Attempt(p, m)
  PROVE  \E k \in 0 .. m :
           /\ tail' = [tail EXCEPT ![p] = Forward(tail[p], k)] /\ tail' \in [Producers -> Positions]
           /\ rem' = [rem EXCEPT ![p] = m - k]
           /\ InRing(p)' = InRing(p) + k /\ InRing(p) + k <= Cap
           /\ \A q \in Producers : q # p => InRing(q)' = InRing(q)
<1> DEFINE k == Smaller(Cap - InRing(p), m)
<1>1. InRing(p) \in Nat /\ InRing(p) <= Cap
  BY InRingType DEF TypeOK
<1>2. k \in 0 .. m /\ InRing(p) + k <= Cap
  BY <1>1, ShapeAssumption DEF Smaller
<1>3. tail' = [tail EXCEPT ![p] = Forward(tail[p], k)] /\ rem' = [rem EXCEPT ![p] = m - k]
  BY DEF Attempt
<1>4. head' = head
  BY DEF Attempt
<1> HIDE DEF k
<1>5. k \in Nat /\ k <= Period /\ InRing(p) + k < Period
  BY <1>1, <1>2, ShapeAssumption, BoundAssumption
<1>6. Forward(tail[p], k) \in Positions /\ tail[p] \in Positions /\ head[p] \in Positions
  BY <1>5, ForwardIs DEF TypeOK
<1>7. tail' \in [Producers -> Positions] /\ tail'[p] = Forward(tail[p], k)
      /\ \A q \in Producers : q # p => tail'[q] = tail[q]
  BY <1>3, <1>6 DEF TypeOK
<1>8. InRing(p)' = InRing(p) + k
  BY <1>4, <1>5, <1>6, <1>7, AheadTail DEF InRing
<1>9. \A q \in Producers : q # p => InRing(q)' = InRing(q)
  BY <1>4, <1>7 DEF InRing
<1> QED
  BY <1>2, <1>3, <1>7, <1>8, <1>9

\* Attempt keeps the base invariant.
LEMMA AttemptBase ==
  ASSUME BaseInv, NEW p \in Producers, NEW m \in Nat, ppc[p] \in {"idle", "push"}, Attempt(p, m)
  PROVE  BaseInv'
<1> USE DEF membership, ring, history
<1>0. TypeOK /\ CountInv /\ SlotInv /\ ConsumerState' = ConsumerState /\ MaxRings' = MaxRings
  BY DEF BaseInv, ConsumerState, MaxRings, Attempt
<1>1. PICK k \in 0 .. m :
        /\ tail' = [tail EXCEPT ![p] = Forward(tail[p], k)] /\ tail' \in [Producers -> Positions]
        /\ rem' = [rem EXCEPT ![p] = m - k]
        /\ InRing(p)' = InRing(p) + k /\ InRing(p) + k <= Cap
        /\ \A q \in Producers : q # p => InRing(q)' = InRing(q)
  BY <1>0, AttemptIs
<1>2. /\ \E s \in {"idle", "push", "full"} : ppc' = [ppc EXCEPT ![p] = s]
      /\ UNCHANGED <<membership, live, registrars, live_consumers, head, claimed, cell, con, history>>
  BY DEF Attempt
<1>3. \A q \in Producers : InRing(q) \in Nat /\ InRing(q)' \in Nat /\ InRing(q) <= InRing(q)' /\ InRing(q)' <= Cap
  <2> TAKE q \in Producers
  <2>1. InRing(q) \in Nat /\ InRing(q) <= Cap
    BY <1>0, InRingType DEF TypeOK
  <2>2. CASE q = p
    BY <1>1, <2>1, <2>2, ShapeAssumption
  <2>3. CASE q # p
    BY <1>1, <2>1, <2>3
  <2> QED
    BY <2>2, <2>3
<1>4. TypeOK'
  BY <1>0, <1>1, <1>2, <1>3, SMTT(40) DEF TypeOK
<1>5. CountInv'
  <2>1. Counted' = Counted /\ Registering' = Registering /\ Publishing' = Publishing /\ Present' = Present
    BY <1>0, <1>2 DEF Counted, Registering, Publishing, Present, TypeOK
  <2> QED
    BY <1>0, <1>2, <2>1 DEF CountInv
<1>6. SlotInv'
  BY <1>0, <1>1, <1>2, SMTT(40) DEF SlotInv, TypeOK
<1>7. ScanInv' /\ ClaimInv' /\ CommitInv'
  BY <1>0, <1>2, <1>3, ProducerFrame DEF TypeOK
<1> QED
  BY <1>4, <1>5, <1>6, <1>7 DEF BaseInv

\* Full (a push that found its ring full) keeps the base invariant.
LEMMA FullBase ==
  ASSUME BaseInv, NEW p \in Producers, Full(p)
  PROVE  BaseInv'
<1> USE DEF membership, ring, history
<1>0. /\ TypeOK /\ CountInv /\ SlotInv /\ ConsumerState' = ConsumerState /\ MaxRings' = MaxRings
      /\ ppc[p] = "full" /\ \E s \in {"idle", "push"} : ppc' = [ppc EXCEPT ![p] = s]
      /\ rem' \in [Producers -> Nat]
      /\ UNCHANGED <<membership, live, registrars, live_consumers, ring, cell, con, history>>
  BY DEF BaseInv, ConsumerState, MaxRings, Full, TypeOK
<1>1. \A q \in Producers : InRing(q)' = InRing(q) /\ InRing(q) \in Nat
  BY <1>0, InRingType DEF InRing, Ahead
<1>2. TypeOK'
  BY <1>0, <1>1, ZenonT(60) DEF TypeOK
<1>3. CountInv'
  <2>1. Counted' = Counted /\ Registering' = Registering /\ Publishing' = Publishing /\ Present' = Present
    BY <1>0 DEF Counted, Registering, Publishing, Present, TypeOK
  <2> QED
    BY <1>0, <2>1 DEF CountInv
<1>4. SlotInv'
  BY <1>0 DEF SlotInv, TypeOK
<1>5. ScanInv' /\ ClaimInv' /\ CommitInv'
  BY <1>0, <1>1, ProducerFrame DEF TypeOK
<1> QED
  BY <1>2, <1>3, <1>4, <1>5 DEF BaseInv

-----------------------------------------------------------------------------
(* What a step of consumer c does to its state.                            *)

\* Only consumer c changes.
Moves(c) ==
  con' \in [Consumers -> ConsumerState] /\ \A d \in Consumers : d # c => con'[d] = con[d]

\* c keeps its cursor and the end of its scan.
SameScan(c) ==
  /\ con'[c].next = con[c].next /\ con'[c].visits = con[c].visits
  /\ con'[c].snap = con[c].snap /\ con'[c].final = con[c].final
  /\ con'[c].quota = con[c].quota

\* c keeps the call it is in and what it has in its hands.
SameHands(c) ==
  /\ con'[c].at = con[c].at /\ con'[c].lo = con[c].lo /\ con'[c].n = con[c].n
  /\ con'[c].call = con[c].call

\* An update of con at c leaves every other consumer alone.
LEMMA ConStep ==
  ASSUME con \in [Consumers -> ConsumerState], NEW c \in Consumers, NEW y \in ConsumerState,
         con' = [con EXCEPT ![c] = y]
  PROVE  Moves(c) /\ con'[c] = y
  BY DEF Moves

\* The types of a consumer's fields.
LEMMA ConFields ==
  ASSUME TypeOK, NEW c \in Consumers
  PROVE  /\ con \in [Consumers -> ConsumerState] /\ con[c] \in ConsumerState
         /\ con[c].n \in Nat /\ con[c].n <= Cap /\ con[c].at \in Producers
         /\ con[c].lo \in Positions /\ con[c].next \in Nat /\ con[c].visits \in Nat
         /\ con[c].snap \in Nat /\ con[c].quota \in Nat /\ con[c].final \in BOOLEAN
         /\ con[c].call \in Blocking \cup InPlace \cup {"try_recv"}
         /\ con[c].next <= MaxRings + C /\ con[c].visits <= MaxRings /\ con[c].snap <= MaxRings
         /\ MaxRings \in Nat
<1>1. con \in [Consumers -> ConsumerState] /\ con[c] \in ConsumerState
  BY DEF TypeOK
<1>2. MaxRings \in Nat /\ MaxRings + C \in Nat /\ Batch + MaxDrain \in Nat /\ Cap \in Nat
  BY ShapeAssumption, CallAssumption DEF MaxRings
<1> QED
  BY <1>1, <1>2 DEF ConsumerState

\* CountRings: the step in terms of the fields it changes.
LEMMA CountRingsIs ==
  ASSUME TypeOK, NEW c \in Consumers, CountRings(c)
  PROVE  /\ Moves(c) /\ SameHands(c) /\ con'[c].pc = "select" /\ con'[c].visits = count
         /\ con'[c].next = con[c].next /\ con'[c].snap = con[c].snap
         /\ con'[c].final = con[c].final /\ con'[c].quota = con[c].quota
<1> DEFINE y == [con[c] EXCEPT !.visits = count, !.pc = "select"]
<1>1. con[c] \in ConsumerState /\ con \in [Consumers -> ConsumerState]
  BY ConFields
<1>2. con' = [con EXCEPT ![c] = y]
  BY <1>1 DEF CountRings
<1>3. count \in 0 .. MaxRings
  BY ConFields DEF TypeOK
<1>4. y \in ConsumerState
  BY <1>1, <1>3 DEF ConsumerState
<1>5. /\ y.pc = "select" /\ y.visits = count /\ y.next = con[c].next /\ y.snap = con[c].snap
      /\ y.final = con[c].final /\ y.at = con[c].at /\ y.lo = con[c].lo /\ y.n = con[c].n
      /\ y.call = con[c].call /\ y.quota = con[c].quota
  BY <1>1 DEF ConsumerState
<1> HIDE DEF y
<1> QED
  BY <1>1, <1>2, <1>4, <1>5, ConStep DEF SameHands

\* The ring a consumer selects: the cursor's index among the rings it knows.
LEMMA SelectIs ==
  ASSUME TypeOK, ScanInv, NEW c \in Consumers, Select(c)
  PROVE  LET L == Known(c)
             i == Index(con[c].next, L)
         IN  /\ Moves(c) /\ L \in 1 .. Len(slots) /\ L >= count /\ i \in 0 .. L - 1
             /\ con'[c].next = i + 1 /\ con'[c].visits = con[c].visits - 1
             /\ con[c].visits > 0 /\ con'[c].quota = con[c].quota
             /\ con'[c].snap <= L /\ con'[c].final = con[c].final /\ con'[c].n = con[c].n
             /\ \/ slots[i + 1] = Null /\ con'[c].pc = "select"
                \/ /\ slots[i + 1] \in Producers
                   /\ con'[c].pc = "claim" /\ con'[c].at = slots[i + 1]
<1> DEFINE L == Known(c)
           i == Index(con[c].next, L)
           a == IF slots[i + 1] = Null THEN con[c].at ELSE slots[i + 1]
           y == [con[c] EXCEPT !.snap = IF tier = "locked" THEN L ELSE 0, !.next = i + 1,
                               !.visits = con[c].visits - 1, !.at = a,
                               !.pc = IF slots[i + 1] = Null THEN "select" ELSE "claim"]
<1>0. /\ con[c] \in ConsumerState /\ con \in [Consumers -> ConsumerState]
      /\ con[c].visits \in Nat /\ con[c].visits > 0 /\ con[c].visits <= count
      /\ con[c].snap \in Nat /\ con[c].snap <= Len(slots) /\ con[c].next \in Nat
      /\ count \in Nat /\ count <= Len(slots) /\ Len(slots) \in Nat /\ Len(slots) <= MaxRings
      /\ con[c].at \in Producers /\ MaxRings \in Nat /\ con[c].visits <= MaxRings
  BY ConFields DEF TypeOK, ScanInv, ScanOK, Select
<1>1. L \in 1 .. Len(slots) /\ L >= count
  BY <1>0 DEF Known
<1>2. con' = [con EXCEPT ![c] = y]
  BY <1>0 DEF Select
<1> HIDE DEF L
<1>3. i \in 0 .. L - 1
  BY <1>0, <1>1 DEF Index
<1> HIDE DEF i
<1>4. slots[i + 1] \in Producers \cup {Null}
  BY <1>1, <1>3 DEF TypeOK
<1>5. a \in Producers /\ (slots[i + 1] # Null => a = slots[i + 1])
  BY <1>0, <1>4
<1> HIDE DEF a
<1>6. /\ (IF tier = "locked" THEN L ELSE 0) \in 0 .. MaxRings /\ i + 1 \in 0 .. MaxRings + C
      /\ con[c].visits - 1 \in 0 .. MaxRings
  BY <1>0, <1>1, <1>3, ShapeAssumption
<1>7. y \in ConsumerState
  BY <1>0, <1>5, <1>6 DEF ConsumerState
<1>8. /\ y.next = i + 1 /\ y.visits = con[c].visits - 1 /\ y.n = con[c].n /\ y.at = a
      /\ y.final = con[c].final /\ y.pc = IF slots[i + 1] = Null THEN "select" ELSE "claim"
      /\ y.snap = (IF tier = "locked" THEN L ELSE 0) /\ y.quota = con[c].quota
  BY <1>0 DEF ConsumerState
<1> HIDE DEF y
<1>9. Moves(c) /\ con'[c] = y
  BY <1>0, <1>2, <1>7, ConStep
<1>10. y.snap <= L
  BY <1>1, <1>8
<1>11. /\ Moves(c) /\ L \in 1 .. Len(slots) /\ L >= count /\ i \in 0 .. L - 1
       /\ con'[c].next = i + 1 /\ con'[c].visits = con[c].visits - 1 /\ con[c].visits > 0
       /\ con'[c].quota = con[c].quota
       /\ con'[c].snap <= L /\ con'[c].final = con[c].final /\ con'[c].n = con[c].n
  BY <1>0, <1>1, <1>3, <1>8, <1>9, <1>10
<1>12. \/ slots[i + 1] = Null /\ con'[c].pc = "select"
       \/ slots[i + 1] \in Producers /\ con'[c].pc = "claim" /\ con'[c].at = slots[i + 1]
  BY <1>4, <1>5, <1>8, <1>9
<1> QED
  BY <1>11, <1>12 DEF L, i

\* Claim: the step in terms of the fields it changes.
LEMMA ClaimIs ==
  ASSUME TypeOK, NEW c \in Consumers, Claim(c)
  PROVE  /\ Moves(c) /\ SameScan(c) /\ con'[c].n = con[c].n
         /\ \/ claimed[con[c].at] /\ con'[c].pc = "select"
            \/ ~claimed[con[c].at] /\ con'[c].pc = "read" /\ SameHands(c)
<1>0. con[c] \in ConsumerState /\ con \in [Consumers -> ConsumerState]
  BY ConFields
<1>1. CASE claimed[con[c].at]
  <2>1. con' = [con EXCEPT ![c] = Resume(con[c])]
    BY <1>1 DEF Claim
  <2> QED
    BY <1>0, <1>1, <2>1, ResumeIs, ConStep DEF SameScan
<1>2. CASE ~claimed[con[c].at]
  <2> DEFINE y == [con[c] EXCEPT !.pc = "read"]
  <2>1. con' = [con EXCEPT ![c] = y]
    BY <1>2 DEF Claim
  <2>2. /\ y \in ConsumerState /\ y.pc = "read" /\ y.n = con[c].n /\ y.at = con[c].at
        /\ y.lo = con[c].lo /\ y.call = con[c].call
        /\ y.next = con[c].next /\ y.visits = con[c].visits /\ y.snap = con[c].snap
        /\ y.final = con[c].final /\ y.quota = con[c].quota
    BY <1>0 DEF ConsumerState
  <2> HIDE DEF y
  <2> QED
    BY <1>0, <1>2, <2>1, <2>2, ConStep DEF SameScan, SameHands
<1> QED
  BY <1>1, <1>2

\* Read: the step in terms of the fields it changes.
LEMMA ReadIs ==
  ASSUME TypeOK, NEW c \in Consumers, Read(c)
  PROVE  /\ Moves(c) /\ SameScan(c) /\ con'[c].at = con[c].at /\ con'[c].call = con[c].call
         /\ con'[c].lo = head[con[c].at] /\ con'[c].n = Smaller(con[c].quota, InRing(con[c].at))
         /\ con'[c].n \in Nat /\ con'[c].n <= InRing(con[c].at)
         /\ con'[c].pc = IF con'[c].n = 0 THEN "release" ELSE "commit"
<1> DEFINE k == Smaller(con[c].quota, InRing(con[c].at))
           y == [con[c] EXCEPT !.lo = head[con[c].at], !.n = k,
                               !.pc = IF k = 0 THEN "release" ELSE "commit"]
<1>0. /\ con[c] \in ConsumerState /\ con \in [Consumers -> ConsumerState]
      /\ con[c].at \in Producers /\ con[c].quota \in Nat /\ head[con[c].at] \in Positions
  BY ConFields DEF TypeOK
<1>1. con' = [con EXCEPT ![c] = y]
  BY <1>0 DEF Read
<1>2. InRing(con[c].at) \in Nat /\ InRing(con[c].at) <= Cap
  BY <1>0, InRingType DEF TypeOK
<1>3. k \in 0 .. Cap /\ k <= InRing(con[c].at)
  BY <1>0, <1>2, ShapeAssumption DEF Smaller
<1>k. k = Smaller(con[c].quota, InRing(con[c].at))
  OBVIOUS
<1> HIDE DEF k
<1>4. /\ y \in ConsumerState /\ y.pc = (IF k = 0 THEN "release" ELSE "commit")
      /\ y.at = con[c].at /\ y.lo = head[con[c].at] /\ y.n = k /\ y.call = con[c].call
      /\ y.next = con[c].next /\ y.visits = con[c].visits /\ y.snap = con[c].snap
      /\ y.final = con[c].final /\ y.quota = con[c].quota
  BY <1>0, <1>3 DEF ConsumerState
<1> HIDE DEF y
<1>5. Moves(c) /\ con'[c] = y
  BY <1>0, <1>1, <1>4, ConStep
<1>6. k \in Nat /\ k <= InRing(con[c].at)
  BY <1>3, ShapeAssumption
<1> QED
  BY <1>k, <1>4, <1>5, <1>6 DEF SameScan

\* Commit: the step in terms of the fields it changes.
LEMMA CommitIs ==
  ASSUME TypeOK, NEW c \in Consumers, Commit(c)
  PROVE  Moves(c) /\ SameScan(c) /\ SameHands(c) /\ con'[c].pc = "release"
<1> DEFINE y == [con[c] EXCEPT !.pc = "release"]
<1>0. con[c] \in ConsumerState /\ con \in [Consumers -> ConsumerState]
  BY ConFields
<1>1. con' = [con EXCEPT ![c] = y]
  BY <1>0 DEF Commit
<1>2. /\ y \in ConsumerState /\ y.pc = "release" /\ y.n = con[c].n /\ y.at = con[c].at
      /\ y.lo = con[c].lo /\ y.call = con[c].call
      /\ y.next = con[c].next /\ y.visits = con[c].visits /\ y.snap = con[c].snap
      /\ y.final = con[c].final /\ y.quota = con[c].quota
  BY <1>0 DEF ConsumerState
<1> HIDE DEF y
<1> QED
  BY <1>0, <1>1, <1>2, ConStep DEF SameScan, SameHands

\* DrainPanics: the step in terms of the fields it changes.
LEMMA DrainPanicsIs ==
  ASSUME TypeOK, NEW c \in Consumers, NEW k, DrainPanics(c, k)
  PROVE  /\ Moves(c) /\ SameScan(c) /\ con'[c].pc = "unwind" /\ con'[c].n = 0
         /\ con'[c].at = con[c].at
<1> DEFINE y == [con[c] EXCEPT !.pc = "unwind", !.n = 0]
<1>0. con[c] \in ConsumerState /\ con \in [Consumers -> ConsumerState]
  BY ConFields
<1>1. con' = [con EXCEPT ![c] = y]
  BY <1>0 DEF DrainPanics
<1>2. 0 \in 0 .. Cap
  BY ShapeAssumption
<1>3. /\ y \in ConsumerState /\ y.pc = "unwind" /\ y.n = 0 /\ y.at = con[c].at
      /\ y.next = con[c].next /\ y.visits = con[c].visits /\ y.snap = con[c].snap
      /\ y.final = con[c].final /\ y.quota = con[c].quota
  BY <1>0, <1>2 DEF ConsumerState
<1> HIDE DEF y
<1> QED
  BY <1>0, <1>1, <1>3, ConStep DEF SameScan

\* A release either goes on with the pass or returns with what is left of the
\* batch.
LEMMA ReleaseIs ==
  ASSUME TypeOK, ScanInv, NEW c \in Consumers, Release(c)
  PROVE  LET k == IF con[c].call \in InPlace THEN con[c].n ELSE Served(con[c].call, con[c].n)
         IN  /\ Moves(c) /\ con'[c].snap = con[c].snap
             /\ \/ /\ con[c].n = 0 /\ con'[c].n = 0 /\ con'[c].pc = "select" /\ SameScan(c)
                \/ /\ con[c].n > 0 /\ k \in 1 .. con[c].n /\ con'[c].pc = "idle"
                   /\ con'[c].visits = 0 /\ con'[c].final = FALSE /\ con'[c].n = con[c].n - k
                   /\ con'[c].n # 0 =>
                        con'[c].at = con[c].at /\ con'[c].lo = Forward(con[c].lo, k)
<1> DEFINE k == IF con[c].call \in InPlace THEN con[c].n ELSE Served(con[c].call, con[c].n)
<1>0. /\ con[c] \in ConsumerState /\ con \in [Consumers -> ConsumerState]
      /\ con[c].pc = "release" /\ con[c].next >= 1 /\ con[c].n \in Nat
      /\ con[c].call \in Blocking \cup InPlace \cup {"try_recv"}
  BY ConFields DEF Release, ScanInv, ScanOK
<1>1. CASE con[c].n = 0
  <2>1. con' = [con EXCEPT ![c] = Resume(con[c])]
    BY <1>1 DEF Release
  <2> QED
    BY <1>0, <1>1, <2>1, ResumeIs, ConStep DEF SameScan
<1>2. CASE con[c].n # 0
  <2> DEFINE x == Prefer(con[c])
             z == Drop(x, k)
             y == Return(z, "idle")
  <2>1. con' = [con EXCEPT ![c] = y]
    BY <1>2 DEF Release
  <2>2. k \in 1 .. con[c].n
    BY <1>0, <1>2, ServedIs
  <2> HIDE DEF k
  <2>3. x \in ConsumerState /\ x.n = con[c].n /\ x.lo = con[c].lo /\ x.at = con[c].at /\ x.snap = con[c].snap
    BY <1>0, PreferIs
  <2> HIDE DEF x
  <2>4. /\ z \in ConsumerState /\ z.n = x.n - k /\ z.lo = Forward(x.lo, k) /\ z.at = x.at
        /\ z.snap = x.snap
    BY <1>0, <2>2, <2>3, DropIs
  <2> HIDE DEF z
  <2>5. /\ y \in ConsumerState /\ y.pc = "idle" /\ y.n = z.n /\ y.final = FALSE /\ y.snap = z.snap
        /\ y.visits = 0 /\ (z.n # 0 => y.at = z.at /\ y.lo = z.lo)
    BY <2>4, ReturnIs
  <2> HIDE DEF y
  <2>6. Moves(c) /\ con'[c] = y
    BY <1>0, <2>1, <2>5, ConStep
  <2>7. /\ Moves(c) /\ con'[c].snap = con[c].snap
        /\ con[c].n > 0 /\ k \in 1 .. con[c].n /\ con'[c].pc = "idle"
        /\ con'[c].visits = 0 /\ con'[c].final = FALSE /\ con'[c].n = con[c].n - k
        /\ con'[c].n # 0 => con'[c].at = con[c].at /\ con'[c].lo = Forward(con[c].lo, k)
    BY <1>0, <1>2, <2>2, <2>3, <2>4, <2>5, <2>6
  <2> QED
    BY <2>7 DEF k
<1> QED
  BY <1>1, <1>2

\* Unwind: the step in terms of the fields it changes.
LEMMA UnwindIs ==
  ASSUME TypeOK, NEW c \in Consumers, Unwind(c)
  PROVE  /\ Moves(c) /\ con'[c].snap = con[c].snap /\ con'[c].pc = "idle" /\ con'[c].visits = 0
         /\ con'[c].n = con[c].n /\ con'[c].final = FALSE
<1>1. con' = [con EXCEPT ![c] = Return(con[c], "idle")]
  BY DEF Unwind
<1> QED
  BY <1>1, ConFields, ReturnIs, ConStep

\* The end of a pass: the call returns, ends, or makes another pass.
LEMMA EndPassIs ==
  ASSUME TypeOK, NEW c \in Consumers, EndPass(c)
  PROVE  /\ Moves(c) /\ con'[c].snap = con[c].snap /\ con'[c].visits = 0 /\ con'[c].n = con[c].n
         /\ \/ con'[c].pc = "idle" /\ con'[c].final = FALSE
            \/ con'[c].pc = "ended" /\ con'[c].final = FALSE /\ con[c].final
            \/ /\ con'[c].pc = "count" /\ ~con[c].final /\ con'[c].final = (live = 0)
               /\ con'[c].quota = con[c].quota
<1>0. /\ con[c] \in ConsumerState /\ con \in [Consumers -> ConsumerState] /\ con[c].visits = 0
      /\ con[c].final \in BOOLEAN
  BY ConFields DEF EndPass
<1>1. con' = [con EXCEPT ![c] = Missed(con[c])]
  BY DEF EndPass
<1>2. CASE con[c].call \notin Blocking
  BY <1>0, <1>1, <1>2, ReturnIs, ConStep DEF Missed
<1>3. CASE con[c].call \in Blocking /\ con[c].final
  BY <1>0, <1>1, <1>3, ReturnIs, ConStep DEF Missed
<1>4. CASE con[c].call \in Blocking /\ ~con[c].final
  <2> DEFINE y == [con[c] EXCEPT !.final = (live = 0), !.pc = "count"]
  <2>1. con' = [con EXCEPT ![c] = y]
    BY <1>1, <1>4 DEF Missed
  <2>2. /\ y \in ConsumerState /\ y.pc = "count" /\ y.final = (live = 0) /\ y.snap = con[c].snap
        /\ y.visits = con[c].visits /\ y.n = con[c].n /\ y.quota = con[c].quota
    BY <1>0, ZenonT(60) DEF ConsumerState
  <2> HIDE DEF y
  <2> QED
    BY <1>0, <1>4, <2>1, <2>2, ConStep
<1> QED
  BY <1>2, <1>3, <1>4

\* A call serves what is staged, and goes to the rings with empty hands only.
LEMMA BeginIs ==
  ASSUME TypeOK, NEW c \in Consumers, NEW call \in Calls, Begin(c, call)
  PROVE  LET k == Served(call, con[c].n)
         IN  /\ Moves(c) /\ con'[c].snap = con[c].snap /\ k \in 0 .. con[c].n /\ Hand(c, k)
             /\ con'[c].n = con[c].n - k
             /\ \/ con'[c].pc = "select" /\ con'[c].n = 0 /\ con'[c].visits = count
                   /\ con'[c].final = con[c].final /\ con'[c].quota >= 1
                \/ /\ con'[c].pc = "idle" /\ con'[c].visits = 0 /\ con'[c].final = FALSE
                   /\ con'[c].n # 0 =>
                        con'[c].at = con[c].at /\ con'[c].lo = Forward(con[c].lo, k)
<1> DEFINE k == Served(call, con[c].n)
           scan == k = 0 \/ (call \in InPlace /\ k < MaxDrain)
           x == Drop(con[c], k)
<1>0. /\ con[c] \in ConsumerState /\ con \in [Consumers -> ConsumerState] /\ con[c].n \in Nat
      /\ call \in Blocking \cup InPlace \cup {"try_recv"}
      /\ con[c].final \in BOOLEAN
  BY ConFields, CallAssumption DEF Blocking, InPlace
<1>1. /\ k \in 0 .. con[c].n /\ (k = 0 <=> con[c].n = 0)
      /\ (call \in InPlace => k <= MaxDrain) /\ (call \in InPlace /\ k < MaxDrain => k = con[c].n)
  BY <1>0, ServedIs
<1>2. Hand(c, k)
  BY DEF Begin
<1>3. con' = [con EXCEPT ![c] =
                IF scan THEN [x EXCEPT !.call = IF k > 0 THEN "drain" ELSE call,
                                       !.quota = Quota(call) - k, !.visits = count, !.pc = "select"]
                ELSE Return(x, "idle")]
  BY DEF Begin
<1> HIDE DEF k
<1>4. /\ x \in ConsumerState /\ x.n = con[c].n - k /\ x.lo = Forward(con[c].lo, k) /\ x.at = con[c].at
      /\ x.snap = con[c].snap /\ x.final = con[c].final
  BY <1>0, <1>1, DropIs
<1> HIDE DEF x
<1>5. CASE scan
  <2> DEFINE y == [x EXCEPT !.call = IF k > 0 THEN "drain" ELSE call,
                            !.quota = Quota(call) - k, !.visits = count, !.pc = "select"]
  <2>1. con' = [con EXCEPT ![c] = y]
    BY <1>3, <1>5
  <2>2. x.n = 0 /\ con[c].n - k = 0
    BY <1>0, <1>1, <1>4, <1>5
  <2>3. Quota(call) - k \in 0 .. Batch + MaxDrain /\ Quota(call) - k >= 1
    BY <1>0, <1>1, <1>5, CallAssumption DEF Quota, InPlace
  <2>4. count \in 0 .. MaxRings /\ (IF k > 0 THEN "drain" ELSE call) \in Blocking \cup InPlace \cup {"try_recv"}
    BY <1>0, ConFields DEF TypeOK, InPlace
  <2>5. y \in ConsumerState
    BY <1>4, <2>3, <2>4 DEF ConsumerState
  <2>6. /\ y.pc = "select" /\ y.n = x.n /\ y.visits = count /\ y.snap = x.snap /\ y.final = x.final
        /\ y.quota = Quota(call) - k
    BY <1>4 DEF ConsumerState
  <2> HIDE DEF y
  <2>7. Moves(c) /\ con'[c] = y
    BY <1>0, <2>1, <2>5, ConStep
  <2>8. /\ Moves(c) /\ con'[c].snap = con[c].snap /\ k \in 0 .. con[c].n /\ Hand(c, k)
        /\ con'[c].n = con[c].n - k
        /\ con'[c].pc = "select" /\ con'[c].n = 0 /\ con'[c].visits = count
        /\ con'[c].final = con[c].final /\ con'[c].quota >= 1
    BY <1>1, <1>2, <1>4, <2>2, <2>3, <2>6, <2>7
  <2> QED
    BY <2>8 DEF k
<1>6. CASE ~scan
  <2> DEFINE y == Return(x, "idle")
  <2>1. con' = [con EXCEPT ![c] = y]
    BY <1>3, <1>6
  <2>2. /\ y \in ConsumerState /\ y.pc = "idle" /\ y.n = x.n /\ y.final = FALSE /\ y.snap = x.snap
        /\ y.visits = 0 /\ (x.n # 0 => y.at = x.at /\ y.lo = x.lo)
    BY <1>4, ReturnIs
  <2> HIDE DEF y
  <2>3. Moves(c) /\ con'[c] = y
    BY <1>0, <2>1, <2>2, ConStep
  <2>4. /\ Moves(c) /\ con'[c].snap = con[c].snap /\ k \in 0 .. con[c].n /\ Hand(c, k)
        /\ con'[c].n = con[c].n - k
        /\ con'[c].pc = "idle" /\ con'[c].visits = 0 /\ con'[c].final = FALSE
        /\ con'[c].n # 0 => con'[c].at = con[c].at /\ con'[c].lo = Forward(con[c].lo, k)
    BY <1>1, <1>2, <1>4, <2>2, <2>3
  <2> QED
    BY <2>4 DEF k
<1> QED
  BY <1>5, <1>6

\* Clone: the step in terms of the fields it changes.
LEMMA CloneIs ==
  ASSUME TypeOK, NEW c \in Consumers, Clone(c)
  PROVE  Moves(c) /\ Fresh(con'[c], "idle")
<1>1. con' = [con EXCEPT ![c] = NewConsumer("idle", live_consumers)]
  BY DEF Clone
<1>2. Fresh(NewConsumer("idle", live_consumers), "idle")
  BY NewConsumerIs DEF TypeOK
<1>3. con \in [Consumers -> ConsumerState] /\ NewConsumer("idle", live_consumers) \in ConsumerState
  BY <1>2, ConFields DEF Fresh
<1> QED
  BY <1>1, <1>2, <1>3, ConStep

\* ConsumerDrop: the step in terms of the fields it changes.
LEMMA ConsumerDropIs ==
  ASSUME TypeOK, NEW c \in Consumers, ConsumerDrop(c)
  PROVE  Moves(c) /\ Fresh(con'[c], "gone")
<1>1. con' = [con EXCEPT ![c] = NewConsumer("gone", 0)]
  BY DEF ConsumerDrop
<1>2. Fresh(NewConsumer("gone", 0), "gone")
  BY NewConsumerIs, ShapeAssumption
<1>3. con \in [Consumers -> ConsumerState] /\ NewConsumer("gone", 0) \in ConsumerState
  BY <1>2, ConFields DEF Fresh
<1> QED
  BY <1>1, <1>2, <1>3, ConStep

\* What a caller is given is counted once per value, and remembered as seen.
LEMMA HandIs ==
  ASSUME TypeOK, NEW c \in Consumers, NEW k \in Nat, k <= Cap, Hand(c, k)
  PROVE  /\ got' \in [Producers -> [Positions -> 0 .. 2]]
         /\ seen' \in [Consumers -> [Producers -> Nat]]
         /\ abandoned' = abandoned
         /\ Endless => UNCHANGED <<got, seen>>
         /\ ~Endless =>
              /\ \A p \in Producers, q \in Positions :
                   got'[p][q] = IF p = con[c].at /\ \E i \in 0 .. k - 1 : q = Forward(con[c].lo, i)
                                THEN Smaller(got[p][q] + 1, 2) ELSE got[p][q]
              /\ \A d \in Consumers, p \in Producers :
                   seen'[d][p] = IF d = c /\ p = con[c].at /\ k # 0
                                 THEN con[c].lo + k ELSE seen[d][p]
<1> DEFINE a == con[c].at
           mine == {Forward(con[c].lo, i) : i \in 0 .. k - 1}
<1>0. /\ a \in Producers /\ con[c].lo \in Nat
      /\ got \in [Producers -> [Positions -> 0 .. 2]] /\ seen \in [Consumers -> [Producers -> Nat]]
  BY ConFields, Small DEF TypeOK
<1>1. CASE Endless
  BY <1>0, <1>1 DEF Hand, history
<1>2. CASE ~Endless
  <2> DEFINE g == [q \in Positions |-> IF q \in mine THEN Smaller(got[a][q] + 1, 2) ELSE got[a][q]]
             s == [seen[c] EXCEPT ![a] = IF k = 0 THEN seen[c][a] ELSE con[c].lo + k]
  <2>1. got' = [got EXCEPT ![a] = g] /\ abandoned' = abandoned
    BY <1>2 DEF Hand
  <2>2. seen' = [seen EXCEPT ![c] = s]
    BY <1>0, <1>2 DEF Hand
  <2>3. \A q \in Positions : got[a][q] \in 0 .. 2
    BY <1>0
  <2>4. g \in [Positions -> 0 .. 2]
    BY <2>3 DEF Smaller
  <2>5. s \in [Producers -> Nat] /\ \A p \in Producers :
          s[p] = IF p = a /\ k # 0 THEN con[c].lo + k ELSE seen[c][p]
    BY <1>0
  <2>6. \A q \in Positions : q \in mine <=> \E i \in 0 .. k - 1 : q = Forward(con[c].lo, i)
    OBVIOUS
  <2>7. \A q \in Positions : g[q] = IF \E i \in 0 .. k - 1 : q = Forward(con[c].lo, i)
                                    THEN Smaller(got[a][q] + 1, 2) ELSE got[a][q]
    BY <2>6
  <2> HIDE DEF g, s, mine
  <2>8. /\ got' \in [Producers -> [Positions -> 0 .. 2]]
        /\ \A p \in Producers : got'[p] = IF p = a THEN g ELSE got[p]
    BY <1>0, <2>1, <2>4
  <2>9. /\ seen' \in [Consumers -> [Producers -> Nat]]
        /\ \A d \in Consumers : seen'[d] = IF d = c THEN s ELSE seen[d]
    BY <1>0, <2>2, <2>5
  <2>10. \A p \in Producers, q \in Positions :
           got'[p][q] = IF p = a /\ \E i \in 0 .. k - 1 : q = Forward(con[c].lo, i)
                        THEN Smaller(got[p][q] + 1, 2) ELSE got[p][q]
    BY <2>7, <2>8
  <2>11. \A d \in Consumers, p \in Producers :
           seen'[d][p] = IF d = c /\ p = a /\ k # 0 THEN con[c].lo + k ELSE seen[d][p]
    BY <2>5, <2>9
  <2> QED
    BY <1>2, <2>1, <2>8, <2>9, <2>10, <2>11
<1> QED
  BY <1>1, <1>2

-----------------------------------------------------------------------------
(* Steps of consumers keep the base invariant.                             *)

\* The parts that only look at the membership and at the consumer's scan.
LEMMA ConsumerFrame ==
  ASSUME BaseInv, NEW c \in Consumers, Moves(c),
         UNCHANGED <<membership, live, registrars, tail, producer>>,
         live_consumers' = Cardinality(Present'),
         con'[c].pc # "unborn", con'[c].snap <= Len(slots), con'[c].visits <= count,
         con'[c].pc \in {"claim", "read", "commit", "release", "unwind"} => con'[c].next >= 1,
         con'[c].pc \notin {"idle", "commit", "release"} => con'[c].n = 0
  PROVE  CountInv' /\ SlotInv' /\ ScanInv' /\ live_consumers' \in 0 .. C
<1> USE DEF membership, producer
<1>1. Counted' = Counted /\ Registering' = Registering /\ Publishing' = Publishing
  BY DEF Counted, Registering, Publishing
<1>2. CountInv'
  BY <1>1 DEF CountInv, BaseInv
<1>3. SlotInv'
  BY DEF SlotInv, BaseInv
<1>4. ScanInv'
  <2>1. \A d \in Consumers : ScanOK(d)'
    BY DEF BaseInv, ScanInv, ScanOK, Moves
  <2>2. con'[1].pc # "unborn"
    BY ShapeAssumption DEF BaseInv, ScanInv, Moves, Consumers
  <2> QED
    BY <2>1, <2>2 DEF ScanInv
<1>5. Cardinality(Present') \in 0 .. C
  BY ConsumerSets, Present' \in SUBSET Consumers DEF Present
<1> QED
  BY <1>2, <1>3, <1>4, <1>5

\* The types, once the rings and the history are known to keep theirs.
LEMMA ConsumerTypes ==
  ASSUME BaseInv, NEW c \in Consumers, Moves(c),
         UNCHANGED <<membership, live, registrars, tail, producer>>,
         live_consumers' \in 0 .. C, claimed' \in [Producers -> BOOLEAN],
         head' \in [Producers -> Positions], \A p \in Producers : InRing(p)' <= Cap,
         got' \in [Producers -> [Positions -> 0 .. 2]],
         seen' \in [Consumers -> [Producers -> Nat]], abandoned' \in 0 .. MaxAbandoned
  PROVE  TypeOK'
<1>1. ConsumerState' = ConsumerState /\ MaxRings' = MaxRings
  BY DEF ConsumerState, MaxRings, membership
<1> QED
  BY <1>1 DEF BaseInv, TypeOK, Moves, membership, producer

\* c stays present.
LEMMA SamePresent ==
  ASSUME BaseInv, NEW c \in Consumers, Moves(c), live_consumers' = live_consumers,
         con[c].pc \notin {"unborn", "gone"}, con'[c].pc \notin {"unborn", "gone"}
  PROVE  live_consumers' = Cardinality(Present')
<1>1. Present' = Present
  BY DEF Present, Moves
<1> QED
  BY <1>1 DEF BaseInv, CountInv

\* A consumer that is outside the rings before and after its step.
LEMMA OutsideBase ==
  ASSUME BaseInv, NEW c \in Consumers, Moves(c), UNCHANGED ring, ~Inside(c), ~Inside(c)'
  PROVE  /\ ClaimInv' /\ CommitInv' /\ claimed' \in [Producers -> BOOLEAN]
         /\ head' \in [Producers -> Positions]
         /\ (tail' = tail => \A p \in Producers : InRing(p)' <= Cap)
<1> USE DEF ring
<1>1. ClaimInv'
  BY DEF BaseInv, ClaimInv, SingleConsumer, Inside, Moves
<1>2. \A p \in Producers : InRing(p)' = InRing(p)
  BY DEF InRing
<1>3. CommitInv'
  <2> SUFFICES ASSUME NEW d \in Consumers, con'[d].pc = "commit"
               PROVE  /\ con'[d].lo = head[con'[d].at] /\ 0 < con'[d].n
                      /\ con'[d].n <= Ahead(tail[con'[d].at], head[con'[d].at])
    BY DEF CommitInv, InRing
  <2>1. d # c /\ con'[d] = con[d]
    BY DEF Inside, Moves
  <2>2. con[d].at \in Producers
    BY ConFields DEF BaseInv
  <2> QED
    BY <2>1, <2>2 DEF BaseInv, CommitInv, InRing
<1> QED
  BY <1>1, <1>2, <1>3 DEF BaseInv, TypeOK

\* Steps that touch neither the rings nor the history.
LEMMA QuietBase ==
  ASSUME BaseInv, NEW c \in Consumers, Moves(c), ~Inside(c), ~Inside(c)',
         UNCHANGED <<membership, live, registrars, live_consumers, ring, producer, history>>,
         con[c].pc \notin {"unborn", "gone"}, con'[c].pc \notin {"unborn", "gone"},
         con'[c].snap <= Len(slots), con'[c].visits <= count,
         con'[c].pc = "claim" => con'[c].next >= 1,
         con'[c].pc # "idle" => con'[c].n = 0
  PROVE  BaseInv'
<1> USE DEF ring, history
<1>1. live_consumers' = Cardinality(Present')
  BY SamePresent
<1>2. CountInv' /\ SlotInv' /\ ScanInv' /\ live_consumers' \in 0 .. C
  BY <1>1, ConsumerFrame DEF Inside
<1>3. /\ ClaimInv' /\ CommitInv' /\ claimed' \in [Producers -> BOOLEAN]
      /\ head' \in [Producers -> Positions] /\ \A p \in Producers : InRing(p)' <= Cap
  BY OutsideBase
<1>4. TypeOK'
  <2>1. /\ got' \in [Producers -> [Positions -> 0 .. 2]]
        /\ seen' \in [Consumers -> [Producers -> Nat]] /\ abandoned' \in 0 .. MaxAbandoned
    BY DEF BaseInv, TypeOK
  <2> QED
    BY <1>2, <1>3, <2>1, ConsumerTypes
<1> QED
  BY <1>2, <1>3, <1>4 DEF BaseInv

\* What the base invariant says of consumer c's scan.
LEMMA ScanFacts ==
  ASSUME BaseInv, NEW c \in Consumers
  PROVE  /\ TypeOK /\ ScanInv /\ ScanOK(c)
         /\ con[c].snap \in Nat /\ con[c].visits \in Nat /\ con[c].n \in Nat
         /\ count \in Nat /\ Len(slots) \in Nat /\ count <= Len(slots)
  BY ConFields DEF BaseInv, ScanInv, TypeOK

\* CountRings keeps the base invariant.
LEMMA CountRingsBase ==
  ASSUME BaseInv, NEW c \in Consumers, CountRings(c)
  PROVE  BaseInv'
<1>1. TypeOK /\ ScanOK(c) /\ count \in Nat /\ con[c].pc = "count"
  BY ScanFacts DEF CountRings
<1>2. /\ Moves(c) /\ con'[c].n = con[c].n /\ con'[c].pc = "select" /\ con'[c].visits = count
      /\ con'[c].snap = con[c].snap
  BY <1>1, CountRingsIs DEF SameHands
<1>3. ~Inside(c) /\ ~Inside(c)' /\ con'[c].n = 0 /\ con'[c].snap <= Len(slots) /\ con'[c].visits <= count
  BY <1>1, <1>2 DEF Inside, ScanOK
<1> QED
  BY <1>1, <1>2, <1>3, QuietBase DEF CountRings

\* Select keeps the base invariant.
LEMMA SelectBase ==
  ASSUME BaseInv, NEW c \in Consumers, Select(c)
  PROVE  BaseInv'
<1>1. /\ TypeOK /\ ScanInv /\ ScanOK(c) /\ count \in Nat /\ con[c].pc = "select"
      /\ con[c].visits \in Nat /\ con[c].n = 0
  BY ScanFacts DEF Select, ScanOK
<1>2. PICK L \in 1 .. Len(slots) : \E i \in 0 .. L - 1 :
        /\ Moves(c) /\ con'[c].next = i + 1 /\ con'[c].visits = con[c].visits - 1
        /\ con'[c].snap <= L /\ con'[c].n = con[c].n /\ con'[c].pc \in {"select", "claim"}
  BY <1>1, SelectIs
<1>3. con'[c] \in ConsumerState /\ con'[c].snap \in Nat /\ con'[c].visits \in Nat
  BY <1>1, <1>2, ConFields DEF Moves, ConsumerState
<1>4. con'[c].snap <= Len(slots) /\ con'[c].visits <= count /\ con'[c].next >= 1
  BY <1>1, <1>2, <1>3, ScanFacts DEF ScanOK
<1>5. ~Inside(c) /\ ~Inside(c)' /\ con'[c].n = 0
  BY <1>1, <1>2 DEF Inside
<1> QED
  BY <1>1, <1>2, <1>4, <1>5, QuietBase DEF Select

\* EndPass keeps the base invariant.
LEMMA EndPassBase ==
  ASSUME BaseInv, NEW c \in Consumers, EndPass(c)
  PROVE  BaseInv'
<1>1. TypeOK /\ ScanOK(c) /\ count \in Nat /\ con[c].pc = "select" /\ con[c].n = 0
  BY ScanFacts DEF EndPass, ScanOK
<1>2. /\ Moves(c) /\ con'[c].snap = con[c].snap /\ con'[c].visits = 0 /\ con'[c].n = con[c].n
      /\ con'[c].pc \in {"idle", "ended", "count"}
  BY <1>1, EndPassIs
<1>3. ~Inside(c) /\ ~Inside(c)' /\ con'[c].n = 0 /\ con'[c].snap <= Len(slots) /\ con'[c].visits <= count
  BY <1>1, <1>2 DEF Inside, ScanOK
<1> QED
  BY <1>1, <1>2, <1>3, QuietBase DEF EndPass

\* Begin keeps the base invariant.
LEMMA BeginBase ==
  ASSUME BaseInv, NEW c \in Consumers, NEW call \in Calls, Begin(c, call)
  PROVE  BaseInv'
<1>1. TypeOK /\ ScanOK(c) /\ count \in Nat /\ con[c].pc = "idle" /\ con[c].n \in Nat /\ con[c].n <= Cap
  BY ScanFacts, ConFields DEF Begin
<1>2. PICK k \in 0 .. con[c].n :
        /\ Moves(c) /\ con'[c].snap = con[c].snap /\ Hand(c, k)
        /\ \/ con'[c].pc = "select" /\ con'[c].n = 0 /\ con'[c].visits = count
           \/ con'[c].pc = "idle" /\ con'[c].visits = 0
  BY <1>1, BeginIs
<1>3. /\ got' \in [Producers -> [Positions -> 0 .. 2]]
      /\ seen' \in [Consumers -> [Producers -> Nat]] /\ abandoned' = abandoned
  <2>1. k \in Nat /\ k <= Cap
    BY <1>1, ShapeAssumption
  <2> QED
    BY <1>1, <1>2, <2>1, HandIs
<1>4. /\ ~Inside(c) /\ ~Inside(c)' /\ con'[c].snap <= Len(slots) /\ con'[c].visits <= count
      /\ con'[c].pc \in {"idle", "select"} /\ (con'[c].pc # "idle" => con'[c].n = 0)
  BY <1>1, <1>2 DEF Inside, ScanOK
<1>5. UNCHANGED <<membership, live, registrars, live_consumers, ring, producer>>
  BY DEF Begin
<1>6. live_consumers' = Cardinality(Present')
  BY <1>1, <1>2, <1>4, <1>5, SamePresent
<1>7. CountInv' /\ SlotInv' /\ ScanInv' /\ live_consumers' \in 0 .. C
  BY <1>2, <1>4, <1>5, <1>6, ConsumerFrame DEF ring
<1>8. /\ ClaimInv' /\ CommitInv' /\ claimed' \in [Producers -> BOOLEAN]
      /\ head' \in [Producers -> Positions] /\ \A p \in Producers : InRing(p)' <= Cap
  BY <1>2, <1>4, <1>5, OutsideBase DEF ring
<1>9. TypeOK'
  BY <1>1, <1>2, <1>3, <1>5, <1>7, <1>8, ConsumerTypes DEF ring, TypeOK
<1> QED
  BY <1>7, <1>8, <1>9 DEF BaseInv

\* Clone keeps the base invariant.
LEMMA CloneBase ==
  ASSUME BaseInv, NEW c \in Consumers, Clone(c)
  PROVE  BaseInv'
<1>1. TypeOK /\ ScanOK(c) /\ count \in Nat /\ Len(slots) \in Nat /\ con[c].pc = "unborn"
  BY ScanFacts DEF Clone
<1>2. /\ Moves(c) /\ con'[c].pc = "idle" /\ con'[c].n = 0 /\ con'[c].snap = 0 /\ con'[c].visits = 0
  BY <1>1, CloneIs DEF Fresh
<1>3. UNCHANGED <<membership, live, registrars, ring, producer, history>>
  BY DEF Clone
<1>4. live_consumers' = Cardinality(Present')
  <2>1. Present' = Present \cup {c} /\ c \notin Present /\ Present \in SUBSET Consumers
    BY <1>1, <1>2 DEF Present, Moves
  <2>2. Cardinality(Present') = Cardinality(Present) + 1
    BY <2>1, ConsumerSets, FS_AddElement
  <2> QED
    BY <2>2 DEF Clone, BaseInv, CountInv
<1>5. CountInv' /\ SlotInv' /\ ScanInv' /\ live_consumers' \in 0 .. C
  BY <1>1, <1>2, <1>3, <1>4, ConsumerFrame DEF ring
<1>6. /\ ClaimInv' /\ CommitInv' /\ claimed' \in [Producers -> BOOLEAN]
      /\ head' \in [Producers -> Positions] /\ \A p \in Producers : InRing(p)' <= Cap
  BY <1>1, <1>2, <1>3, OutsideBase DEF ring, Inside
<1>7. TypeOK'
  BY <1>1, <1>2, <1>3, <1>5, <1>6, ConsumerTypes DEF ring, history, TypeOK
<1> QED
  BY <1>5, <1>6, <1>7 DEF BaseInv

\* ConsumerDrop keeps the base invariant.
LEMMA ConsumerDropBase ==
  ASSUME BaseInv, NEW c \in Consumers, ConsumerDrop(c)
  PROVE  BaseInv'
<1>1. TypeOK /\ ScanOK(c) /\ count \in Nat /\ Len(slots) \in Nat /\ con[c].pc \in {"idle", "ended"}
  BY ScanFacts DEF ConsumerDrop
<1>2. /\ Moves(c) /\ con'[c].pc = "gone" /\ con'[c].n = 0 /\ con'[c].snap = 0 /\ con'[c].visits = 0
  BY <1>1, ConsumerDropIs DEF Fresh
<1>3. /\ UNCHANGED <<membership, live, registrars, ring, producer, got, seen>>
      /\ abandoned' \in 0 .. MaxAbandoned
  BY <1>1, BoundAssumption DEF ConsumerDrop, TypeOK
<1>4. live_consumers' = Cardinality(Present')
  <2>1. Present' = Present \ {c} /\ c \in Present /\ Present \in SUBSET Consumers
    BY <1>1, <1>2 DEF Present, Moves
  <2>2. Cardinality(Present') = Cardinality(Present) - 1
    BY <2>1, ConsumerSets, FS_RemoveElement
  <2> QED
    BY <2>2 DEF ConsumerDrop, BaseInv, CountInv
<1>5. CountInv' /\ SlotInv' /\ ScanInv' /\ live_consumers' \in 0 .. C
  BY <1>1, <1>2, <1>3, <1>4, ConsumerFrame DEF ring
<1>6. /\ ClaimInv' /\ CommitInv' /\ claimed' \in [Producers -> BOOLEAN]
      /\ head' \in [Producers -> Positions] /\ \A p \in Producers : InRing(p)' <= Cap
  BY <1>1, <1>2, <1>3, OutsideBase DEF ring, Inside
<1>7. TypeOK'
  BY <1>1, <1>2, <1>3, <1>5, <1>6, ConsumerTypes DEF ring, TypeOK
<1> QED
  BY <1>5, <1>6, <1>7 DEF BaseInv

\* Claim keeps the base invariant.
LEMMA ClaimBase ==
  ASSUME BaseInv, NEW c \in Consumers, Claim(c)
  PROVE  BaseInv'
<1>1. /\ TypeOK /\ ScanOK(c) /\ con[c].pc = "claim" /\ con[c].n = 0 /\ con[c].next >= 1
      /\ con[c].at \in Producers
  BY ScanFacts, ConFields DEF Claim, ScanOK
<1>2. /\ Moves(c) /\ SameScan(c) /\ con'[c].n = con[c].n
      /\ \/ claimed[con[c].at] /\ con'[c].pc = "select"
         \/ ~claimed[con[c].at] /\ con'[c].pc = "read" /\ SameHands(c)
  BY <1>1, ClaimIs
<1>3. /\ UNCHANGED <<membership, live, registrars, live_consumers, head, tail, producer, history>>
      /\ claimed' = [claimed EXCEPT ![con[c].at] = TRUE] /\ claimed' \in [Producers -> BOOLEAN]
  BY <1>1 DEF Claim, TypeOK
<1>4. CASE claimed[con[c].at]
  <2>1. claimed' = claimed /\ con'[c].pc = "select"
    BY <1>1, <1>2, <1>3, <1>4 DEF TypeOK
  <2>2. /\ ~Inside(c) /\ ~Inside(c)' /\ con'[c].snap <= Len(slots) /\ con'[c].visits <= count
        /\ con'[c].n = 0
    BY <1>1, <1>2, <2>1 DEF Inside, ScanOK, SameScan
  <2> QED
    BY <1>1, <1>2, <1>3, <2>1, <2>2, QuietBase DEF ring
<1>5. CASE ~claimed[con[c].at]
  <2>1. con'[c].pc = "read" /\ con'[c].at = con[c].at
    BY <1>2, <1>5 DEF SameHands
  <2>2. live_consumers' = Cardinality(Present')
    BY <1>1, <1>2, <1>3, <2>1, SamePresent
  <2>3. CountInv' /\ SlotInv' /\ ScanInv' /\ live_consumers' \in 0 .. C
    BY <1>1, <1>2, <1>3, <2>1, <2>2, ConsumerFrame DEF ScanOK, SameScan
  <2>4. \A p \in Producers : InRing(p)' = InRing(p)
    BY <1>3 DEF InRing
  <2>5. TypeOK'
    BY <1>1, <1>2, <1>3, <2>3, <2>4, ConsumerTypes DEF history, TypeOK
  <2>6. ClaimInv'
    <3>1. \A d \in Consumers : Inside(d) => con[d].at # con[c].at
      BY <1>5 DEF BaseInv, ClaimInv
    <3>2. \A d \in Consumers : d # c => con'[d] = con[d]
      BY <1>2 DEF Moves
    <3>3. \A p \in Producers : claimed'[p] = (p = con[c].at \/ claimed[p])
      BY <1>1, <1>3 DEF TypeOK
    <3>4. SingleConsumer'
      BY <2>1, <3>1, <3>2 DEF BaseInv, ClaimInv, SingleConsumer, Inside
    <3>5. \A d \in Consumers : Inside(d)' => claimed'[con'[d].at]
      <4> SUFFICES ASSUME NEW d \in Consumers, Inside(d)' PROVE claimed'[con'[d].at]
        OBVIOUS
      <4>1. CASE d = c
        BY <1>1, <2>1, <3>3, <4>1
      <4>2. CASE d # c
        <5>1. Inside(d) /\ con[d].at \in Producers
          BY <1>1, <3>2, <4>2, ConFields DEF Inside
        <5> QED
          BY <3>2, <3>3, <4>2, <5>1 DEF BaseInv, ClaimInv
      <4> QED
        BY <4>1, <4>2
    <3>6. \A p \in Producers : claimed'[p] => \E d \in Consumers : Inside(d)' /\ con'[d].at = p
      <4> SUFFICES ASSUME NEW p \in Producers, claimed'[p]
                   PROVE  \E d \in Consumers : Inside(d)' /\ con'[d].at = p
        OBVIOUS
      <4>1. CASE p = con[c].at
        BY <2>1, <4>1 DEF Inside
      <4>2. CASE p # con[c].at
        <5>1. PICK d \in Consumers : Inside(d) /\ con[d].at = p
          BY <3>3, <4>2 DEF BaseInv, ClaimInv
        <5>2. d # c
          BY <1>1, <5>1 DEF Inside
        <5> QED
          BY <3>2, <5>1, <5>2 DEF Inside
      <4> QED
        BY <4>1, <4>2
    <3> QED
      BY <3>4, <3>5, <3>6 DEF ClaimInv
  <2>7. CommitInv'
    BY <1>2, <1>3, <2>1 DEF BaseInv, CommitInv, Moves, InRing
  <2> QED
    BY <2>3, <2>5, <2>6, <2>7 DEF BaseInv
<1> QED
  BY <1>4, <1>5

\* A consumer that stays inside its ring keeps its claim.
LEMMA StaysInside ==
  ASSUME BaseInv, NEW c \in Consumers, Moves(c), claimed' = claimed,
         Inside(c), Inside(c)', con'[c].at = con[c].at
  PROVE  ClaimInv'
<1>1. \A d \in Consumers : (Inside(d)' <=> Inside(d)) /\ (Inside(d) => con'[d].at = con[d].at)
  BY DEF Moves, Inside
<1>2. SingleConsumer'
  BY <1>1 DEF BaseInv, ClaimInv, SingleConsumer
<1>3. \A d \in Consumers : Inside(d)' => claimed'[con'[d].at]
  BY <1>1 DEF BaseInv, ClaimInv
<1>4. \A p \in Producers : claimed'[p] => \E d \in Consumers : Inside(d)' /\ con'[d].at = p
  BY <1>1 DEF BaseInv, ClaimInv
<1> QED
  BY <1>2, <1>3, <1>4 DEF ClaimInv

\* Read keeps the base invariant.
LEMMA ReadBase ==
  ASSUME BaseInv, NEW c \in Consumers, Read(c)
  PROVE  BaseInv'
<1>1. /\ TypeOK /\ ScanOK(c) /\ con[c].pc = "read" /\ con[c].next >= 1 /\ con[c].at \in Producers
  BY ScanFacts, ConFields DEF Read, ScanOK
<1>2. /\ Moves(c) /\ SameScan(c) /\ con'[c].at = con[c].at /\ con'[c].lo = head[con[c].at]
      /\ con'[c].n \in Nat /\ con'[c].n <= InRing(con[c].at)
      /\ con'[c].pc = IF con'[c].n = 0 THEN "release" ELSE "commit"
  BY <1>1, ReadIs
<1>3. UNCHANGED <<membership, live, registrars, live_consumers, ring, producer, history>>
  BY DEF Read
<1>4. con'[c].pc \in {"release", "commit"} /\ (con'[c].pc = "commit" => con'[c].n > 0)
  BY <1>2
<1>5. live_consumers' = Cardinality(Present')
  BY <1>1, <1>2, <1>3, <1>4, SamePresent
<1>6. CountInv' /\ SlotInv' /\ ScanInv' /\ live_consumers' \in 0 .. C
  BY <1>1, <1>2, <1>3, <1>4, <1>5, ConsumerFrame DEF ScanOK, SameScan, ring
<1>7. \A p \in Producers : InRing(p)' = InRing(p)
  BY <1>3 DEF InRing, ring
<1>8. TypeOK'
  BY <1>1, <1>2, <1>3, <1>6, <1>7, ConsumerTypes DEF history, ring, TypeOK
<1>9. ClaimInv'
  BY <1>1, <1>2, <1>3, <1>4, StaysInside DEF Inside, ring
<1>10. CommitInv'
  <2>1. /\ con'[c].lo = head'[con'[c].at] /\ con'[c].n <= Ahead(tail'[con'[c].at], head'[con'[c].at])
    BY <1>2, <1>3 DEF ring, InRing
  <2>2. \A d \in Consumers : d # c /\ con'[d].pc = "commit" =>
          /\ con'[d].lo = head'[con'[d].at] /\ 0 < con'[d].n
          /\ con'[d].n <= Ahead(tail'[con'[d].at], head'[con'[d].at])
    BY <1>2, <1>3 DEF ring, InRing, BaseInv, CommitInv, Moves
  <2> QED
    BY <1>4, <2>1, <2>2 DEF CommitInv, InRing
<1> QED
  BY <1>6, <1>8, <1>9, <1>10 DEF BaseInv

\* The head moves over k of the n values at the head of the ring.
LEMMA HeadMoves ==
  ASSUME BaseInv, NEW c \in Consumers, con[c].pc = "commit", NEW k \in 1 .. con[c].n,
         head' = [head EXCEPT ![con[c].at] = Forward(con[c].lo, k)], tail' = tail
  PROVE  /\ head' \in [Producers -> Positions] /\ \A p \in Producers : InRing(p)' <= Cap
         /\ InRing(con[c].at) >= k
         /\ \A p \in Producers : p # con[c].at => head'[p] = head[p]
         /\ head'[con[c].at] = Forward(head[con[c].at], k)
<1> DEFINE a == con[c].at
<1>1. /\ TypeOK /\ a \in Producers /\ con[c].n \in Nat /\ con[c].n <= Cap
      /\ con[c].lo = head[a] /\ con[c].n <= InRing(a)
      /\ head[a] \in Positions /\ tail[a] \in Positions
  BY ConFields DEF BaseInv, CommitInv, TypeOK
<1>2. k \in Nat /\ k <= Period /\ InRing(a) \in Nat /\ k <= InRing(a)
  BY <1>1, InRingType, ShapeAssumption, BoundAssumption
<1>3. Forward(head[a], k) \in Positions
  BY <1>1, <1>2, ForwardIs
<1>4. /\ head' \in [Producers -> Positions] /\ head'[a] = Forward(head[a], k)
      /\ \A p \in Producers : p # a => head'[p] = head[p]
  BY <1>1, <1>3 DEF TypeOK
<1>5. Ahead(tail[a], head'[a]) = InRing(a) - k
  BY <1>1, <1>2, <1>4, AheadHead DEF InRing
<1>6. ASSUME NEW p \in Producers PROVE InRing(p)' <= Cap
  <2>1. InRing(p) <= Cap /\ InRing(a) <= Cap
    BY <1>1 DEF TypeOK
  <2>2. CASE p = a
    BY <1>2, <1>5, <2>1, <2>2, ShapeAssumption DEF InRing
  <2>3. CASE p # a
    BY <1>4, <2>1, <2>3 DEF InRing
  <2> QED
    BY <2>2, <2>3
<1> QED
  BY <1>2, <1>4, <1>6

\* A consumer that commits k values and leaves the state "commit".
LEMMA CommittedBase ==
  ASSUME BaseInv, NEW c \in Consumers, con[c].pc = "commit", NEW k \in 1 .. con[c].n,
         head' = [head EXCEPT ![con[c].at] = Forward(con[c].lo, k)],
         Moves(c), SameScan(c), con'[c].at = con[c].at, con'[c].pc \in {"release", "unwind"},
         con'[c].pc = "unwind" => con'[c].n = 0,
         UNCHANGED <<membership, live, registrars, live_consumers, tail, claimed, producer>>,
         got' \in [Producers -> [Positions -> 0 .. 2]],
         seen' \in [Consumers -> [Producers -> Nat]], abandoned' = abandoned
  PROVE  BaseInv'
<1>1. TypeOK /\ ScanOK(c) /\ con[c].next >= 1
  BY ScanFacts DEF ScanOK
<1>2. /\ head' \in [Producers -> Positions] /\ \A p \in Producers : InRing(p)' <= Cap
      /\ \A p \in Producers : p # con[c].at => head'[p] = head[p]
  BY HeadMoves
<1>3. live_consumers' = Cardinality(Present')
  BY SamePresent
<1>4. CountInv' /\ SlotInv' /\ ScanInv' /\ live_consumers' \in 0 .. C
  BY <1>1, <1>3, ConsumerFrame DEF ScanOK, SameScan
<1>5. TypeOK'
  BY <1>1, <1>2, <1>4, ConsumerTypes DEF TypeOK
<1>6. ClaimInv'
  BY StaysInside DEF Inside
<1>7. CommitInv'
  <2> SUFFICES ASSUME NEW d \in Consumers, con'[d].pc = "commit"
               PROVE  /\ con'[d].lo = head'[con'[d].at] /\ 0 < con'[d].n
                      /\ con'[d].n <= Ahead(tail'[con'[d].at], head'[con'[d].at])
    BY DEF CommitInv, InRing
  <2>1. d # c /\ con'[d] = con[d]
    BY DEF Moves
  <2>2. con[d].at \in Producers /\ con[d].at # con[c].at
    BY <1>1, <2>1, ConFields DEF BaseInv, ClaimInv, SingleConsumer, Inside
  <2> QED
    BY <1>2, <2>1, <2>2 DEF BaseInv, CommitInv, InRing
<1> QED
  BY <1>4, <1>5, <1>6, <1>7 DEF BaseInv

\* Commit keeps the base invariant.
LEMMA CommitBase ==
  ASSUME BaseInv, NEW c \in Consumers, Commit(c)
  PROVE  BaseInv'
<1>1. /\ TypeOK /\ con[c].pc = "commit" /\ con[c].n \in Nat /\ con[c].n <= Cap /\ 0 < con[c].n
  BY ConFields DEF Commit, BaseInv, CommitInv
<1>2. Moves(c) /\ SameScan(c) /\ con'[c].at = con[c].at /\ con'[c].pc = "release"
  BY <1>1, CommitIs DEF SameHands
<1>3. /\ got' \in [Producers -> [Positions -> 0 .. 2]]
      /\ seen' \in [Consumers -> [Producers -> Nat]] /\ abandoned' = abandoned
  <2>1. CASE con[c].call \in InPlace
    BY <1>1, <2>1, HandIs DEF Commit
  <2>2. CASE con[c].call \notin InPlace
    BY <1>1, <2>2 DEF Commit, history, TypeOK
  <2> QED
    BY <2>1, <2>2
<1>4. con[c].n \in 1 .. con[c].n
  BY <1>1
<1> QED
  BY <1>1, <1>2, <1>3, <1>4, CommittedBase DEF Commit

\* DrainPanics keeps the base invariant.
LEMMA DrainPanicsBase ==
  ASSUME BaseInv, NEW c \in Consumers, NEW k \in 1 .. Cap, DrainPanics(c, k)
  PROVE  BaseInv'
<1>1. /\ TypeOK /\ con[c].pc = "commit" /\ k \in 1 .. con[c].n /\ k \in Nat /\ k <= Cap
  BY ShapeAssumption DEF DrainPanics, BaseInv
<1>2. /\ Moves(c) /\ SameScan(c) /\ con'[c].at = con[c].at /\ con'[c].pc = "unwind" /\ con'[c].n = 0
  BY <1>1, DrainPanicsIs
<1>3. /\ got' \in [Producers -> [Positions -> 0 .. 2]]
      /\ seen' \in [Consumers -> [Producers -> Nat]] /\ abandoned' = abandoned
  BY <1>1, HandIs DEF DrainPanics
<1> QED
  BY <1>1, <1>2, <1>3, CommittedBase DEF DrainPanics

\* A consumer leaves its ring and gives up its claim.
LEMMA LeavesBase ==
  ASSUME BaseInv, NEW c \in Consumers, con[c].pc \in {"release", "unwind"},
         claimed' = [claimed EXCEPT ![con[c].at] = FALSE],
         Moves(c), con'[c].pc \in {"select", "idle"}, con'[c].pc = "select" => con'[c].n = 0,
         con'[c].snap <= Len(slots), con'[c].visits <= count,
         UNCHANGED <<membership, live, registrars, live_consumers, head, tail, producer>>,
         got' \in [Producers -> [Positions -> 0 .. 2]],
         seen' \in [Consumers -> [Producers -> Nat]], abandoned' = abandoned
  PROVE  BaseInv'
<1>1. TypeOK /\ con[c].at \in Producers
  BY ConFields DEF BaseInv
<1>2. live_consumers' = Cardinality(Present')
  BY SamePresent
<1>3. CountInv' /\ SlotInv' /\ ScanInv' /\ live_consumers' \in 0 .. C
  BY <1>1, <1>2, ConsumerFrame
<1>4. \A p \in Producers : InRing(p)' = InRing(p)
  BY DEF InRing
<1>5. TypeOK'
  BY <1>1, <1>3, <1>4, ConsumerTypes DEF TypeOK
<1>6. ClaimInv'
  <2>1. \A d \in Consumers : Inside(d)' <=> d # c /\ Inside(d)
    BY DEF Inside, Moves
  <2>2. \A d \in Consumers : d # c /\ Inside(d) => con'[d].at = con[d].at /\ con[d].at # con[c].at
    BY DEF Moves, BaseInv, ClaimInv, SingleConsumer, Inside
  <2>3. \A p \in Producers : claimed'[p] = (p # con[c].at /\ claimed[p])
    BY <1>1 DEF TypeOK
  <2>4. SingleConsumer'
    BY <2>1, <2>2 DEF BaseInv, ClaimInv, SingleConsumer
  <2>5. \A d \in Consumers : Inside(d)' => claimed'[con'[d].at]
    <3> SUFFICES ASSUME NEW d \in Consumers, Inside(d)' PROVE claimed'[con'[d].at]
      OBVIOUS
    <3>1. con[d].at \in Producers
      BY <1>1, ConFields
    <3> QED
      BY <2>1, <2>2, <2>3, <3>1 DEF BaseInv, ClaimInv
  <2>6. \A p \in Producers : claimed'[p] => \E d \in Consumers : Inside(d)' /\ con'[d].at = p
    <3> SUFFICES ASSUME NEW p \in Producers, claimed'[p]
                 PROVE  \E d \in Consumers : Inside(d)' /\ con'[d].at = p
      OBVIOUS
    <3>1. PICK d \in Consumers : Inside(d) /\ con[d].at = p
      BY <2>3 DEF BaseInv, ClaimInv
    <3> QED
      BY <2>1, <2>2, <2>3, <3>1
  <2> QED
    BY <2>4, <2>5, <2>6 DEF ClaimInv
<1>7. CommitInv'
  BY DEF BaseInv, CommitInv, Moves, InRing
<1> QED
  BY <1>3, <1>5, <1>6, <1>7 DEF BaseInv

\* Release keeps the base invariant.
LEMMA ReleaseBase ==
  ASSUME BaseInv, NEW c \in Consumers, Release(c)
  PROVE  BaseInv'
<1> DEFINE k == IF con[c].call \in InPlace THEN con[c].n ELSE Served(con[c].call, con[c].n)
<1>1. /\ TypeOK /\ ScanInv /\ ScanOK(c) /\ con[c].pc = "release" /\ count \in Nat
      /\ con[c].n \in Nat /\ con[c].n <= Cap
  BY ScanFacts, ConFields DEF Release
<1>2. /\ Moves(c) /\ con'[c].snap = con[c].snap
      /\ \/ con[c].n = 0 /\ con'[c].n = 0 /\ con'[c].pc = "select" /\ SameScan(c)
         \/ con[c].n > 0 /\ k \in 1 .. con[c].n /\ con'[c].pc = "idle" /\ con'[c].visits = 0
  BY <1>1, ReleaseIs
<1>3. /\ got' \in [Producers -> [Positions -> 0 .. 2]]
      /\ seen' \in [Consumers -> [Producers -> Nat]] /\ abandoned' = abandoned
  <2>1. CASE con[c].n = 0 \/ con[c].call \in InPlace
    BY <1>1, <2>1 DEF Release, history, TypeOK
  <2>2. CASE ~(con[c].n = 0 \/ con[c].call \in InPlace)
    <3>1. Hand(c, k) /\ k \in 1 .. con[c].n
      BY <1>2, <2>2 DEF Release
    <3>2. k \in Nat /\ k <= Cap
      BY <1>1, <3>1, ShapeAssumption
    <3> HIDE DEF k
    <3> QED
      BY <1>1, <3>1, <3>2, HandIs
  <2> QED
    BY <2>1, <2>2
<1>4. /\ con'[c].pc \in {"select", "idle"} /\ (con'[c].pc = "select" => con'[c].n = 0)
      /\ con'[c].snap <= Len(slots) /\ con'[c].visits <= count
  BY <1>1, <1>2 DEF SameScan, ScanOK
<1> QED
  BY <1>1, <1>2, <1>3, <1>4, LeavesBase DEF Release

\* Unwind keeps the base invariant.
LEMMA UnwindBase ==
  ASSUME BaseInv, NEW c \in Consumers, Unwind(c)
  PROVE  BaseInv'
<1>1. TypeOK /\ ScanOK(c) /\ con[c].pc = "unwind" /\ count \in Nat
  BY ScanFacts DEF Unwind
<1>2. Moves(c) /\ con'[c].snap = con[c].snap /\ con'[c].pc = "idle" /\ con'[c].visits = 0
  BY <1>1, UnwindIs
<1>3. con'[c].snap <= Len(slots) /\ con'[c].visits <= count
  BY <1>1, <1>2 DEF ScanOK
<1>4. /\ got' \in [Producers -> [Positions -> 0 .. 2]]
      /\ seen' \in [Consumers -> [Producers -> Nat]] /\ abandoned' = abandoned
  BY <1>1 DEF Unwind, history, TypeOK
<1> QED
  BY <1>1, <1>2, <1>3, <1>4, LeavesBase DEF Unwind

\* A stuttering step keeps the base invariant.
LEMMA StutterBase ==
  ASSUME BaseInv, UNCHANGED vars
  PROVE  BaseInv'
<1> USE DEF vars, membership, ring, producer, history
<1>1. TypeOK'
  <2>1. ConsumerState' = ConsumerState /\ MaxRings' = MaxRings /\ \A p \in Producers : InRing(p)' = InRing(p)
    BY DEF ConsumerState, MaxRings, InRing
  <2> QED
    BY <2>1 DEF BaseInv, TypeOK
<1>2. CountInv' /\ SlotInv'
  BY DEF BaseInv, CountInv, SlotInv, Counted, Publishing, Present, Registering
<1>3. ScanInv' /\ ClaimInv' /\ CommitInv'
  BY DEF BaseInv, ScanInv, ScanOK, ClaimInv, SingleConsumer, Inside, CommitInv, InRing
<1> QED
  BY <1>1, <1>2, <1>3 DEF BaseInv

\* Every step keeps the base invariant.
LEMMA BaseNext == BaseInv /\ [Next]_vars => BaseInv'
<1> SUFFICES ASSUME BaseInv, [Next]_vars PROVE BaseInv'
  OBVIOUS
<1>1. ASSUME NEW p \in Producers, Registration(p) PROVE BaseInv'
  BY <1>1, RegisterBase, PublishBase, CountLiveBase DEF Registration
<1>2. ASSUME NEW p \in Producers, ProducerStep(p) PROVE BaseInv'
  <2>1. CASE Push(p)
    <3>1. rem[p] \in Nat
      BY DEF BaseInv, TypeOK
    <3> QED
      BY <2>1, <3>1, AttemptBase DEF Push
  <2> QED
    BY <1>2, <2>1, FullBase DEF ProducerStep
<1>3. ASSUME NEW p \in Producers, NEW m \in Sends, Send(p, m) PROVE BaseInv'
  BY <1>3, AttemptBase, BoundAssumption DEF Send
<1>4. ASSUME NEW c \in Consumers, ConsumerStep(c) PROVE BaseInv'
  BY <1>4, CountRingsBase, SelectBase, ClaimBase, ReadBase, CommitBase, ReleaseBase, UnwindBase,
     EndPassBase DEF ConsumerStep
<1> QED
  BY <1>1, <1>2, <1>3, <1>4, ProducerDropBase, RegistrarBase, CloneBase, ConsumerDropBase, BeginBase,
     DrainPanicsBase, StutterBase DEF Next, Over

\* TypeOK, CountInv, SlotInv, ScanInv, ClaimInv and CommitInv always hold.
THEOREM BaseCorrect == Spec => []BaseInv
  BY BaseInit, BaseNext, PTL DEF Spec

\* Every reachable state is well typed: the membership, the counters and the
\* staging batches of the consumers never leave their bounds.
THEOREM TypeCorrect == Spec => []TypeOK
  BY BaseCorrect, PTL DEF BaseInv

\* The claim flag upholds the single consumer of a ring.
THEOREM ClaimCorrect == Spec => []SingleConsumer
<1>1. BaseInv => SingleConsumer
  BY DEF BaseInv, ClaimInv
<1> QED
  BY <1>1, BaseCorrect, PTL

-----------------------------------------------------------------------------
(* The history of an instance that is not endless: positions do not wrap.  *)

\* Without wrapping, heads and tails are plain counts of values.
LEMMA NoWrap ==
  ASSUME ~Endless, BaseInv, FlowInv, NEW p \in Producers
  PROVE  /\ head[p] \in Nat /\ tail[p] \in Nat /\ rem[p] \in Nat
         /\ head[p] <= tail[p] /\ tail[p] + rem[p] <= MaxSend
         /\ tail[p] < Period /\ InRing(p) = tail[p] - head[p] /\ MaxSend < Period
<1>1. head[p] \in Positions /\ tail[p] \in Positions /\ rem[p] \in Nat
  BY DEF BaseInv, TypeOK
<1>2. head[p] <= tail[p] /\ tail[p] + rem[p] <= MaxSend
  BY DEF FlowInv, RingOK
<1>3. InRing(p) = tail[p] - head[p]
  BY <1>1, <1>2, AheadIs, BoundAssumption DEF InRing, Positions
<1> QED
  BY <1>1, <1>2, <1>3, BoundAssumption DEF Positions

\* A staged batch, or a batch about to be committed, does not wrap.
LEMMA HandsNoWrap ==
  ASSUME ~Endless, BaseInv, FlowInv, NEW c \in Consumers, Holding(c) \/ con[c].pc = "commit"
  PROVE  /\ con[c].at \in Producers /\ con[c].lo \in Nat /\ con[c].n \in Nat
         /\ con[c].n > 0 /\ con[c].n <= Cap
         /\ con[c].lo + con[c].n <= tail[con[c].at] /\ tail[con[c].at] < Period
         /\ \A k \in 0 .. con[c].n : /\ Forward(con[c].lo, k) = con[c].lo + k
                                     /\ con[c].lo + k \in Positions
<1> DEFINE a == con[c].at
<1>1. /\ TypeOK /\ a \in Producers /\ con[c].lo \in Positions /\ con[c].lo \in Nat
      /\ con[c].n \in Nat /\ con[c].n <= Cap
  BY ConFields, Small DEF BaseInv
<1>2. head[a] <= tail[a] /\ tail[a] < Period /\ InRing(a) = tail[a] - head[a] /\ head[a] \in Nat /\ tail[a] \in Nat
  BY <1>1, NoWrap
<1>3. con[c].n > 0 /\ con[c].lo + con[c].n <= tail[a]
  <2>1. CASE Holding(c)
    BY <1>1, <1>2, <2>1 DEF FlowInv, HoldOK, Holding
  <2>2. CASE con[c].pc = "commit"
    BY <1>1, <1>2, <2>2 DEF BaseInv, CommitInv
  <2> QED
    BY <2>1, <2>2
<1>4. ASSUME NEW k \in 0 .. con[c].n
      PROVE  Forward(con[c].lo, k) = con[c].lo + k /\ con[c].lo + k \in Positions
  <2>1. k \in Nat /\ con[c].lo + k < Period /\ k <= Period
    BY <1>1, <1>2, <1>3, <1>4, BoundAssumption
  <2> QED
    BY <1>1, <2>1, ForwardIs
<1> QED
  BY <1>1, <1>2, <1>3, <1>4

\* The values handed over are lo .. lo + k - 1.
LEMMA HandFlow ==
  ASSUME ~Endless, BaseInv, FlowInv, NEW c \in Consumers, Holding(c) \/ con[c].pc = "commit",
         NEW k \in 1 .. con[c].n, Hand(c, k)
  PROVE  /\ abandoned' = abandoned
         /\ \A p \in Producers, q \in Positions :
              got'[p][q] = IF p = con[c].at /\ con[c].lo <= q /\ q < con[c].lo + k
                           THEN Smaller(got[p][q] + 1, 2) ELSE got[p][q]
         /\ \A d \in Consumers, p \in Producers :
              seen'[d][p] = IF d = c /\ p = con[c].at THEN con[c].lo + k ELSE seen[d][p]
<1>1. /\ con[c].at \in Producers /\ con[c].lo \in Nat /\ con[c].n \in Nat /\ con[c].n <= Cap
      /\ \A i \in 0 .. con[c].n : Forward(con[c].lo, i) = con[c].lo + i
  BY HandsNoWrap
<1>2. k \in Nat /\ k <= Cap /\ k # 0 /\ TypeOK
  BY <1>1, ShapeAssumption DEF BaseInv
<1>3. /\ abandoned' = abandoned
      /\ \A p \in Producers, q \in Positions :
           got'[p][q] = IF p = con[c].at /\ \E i \in 0 .. k - 1 : q = Forward(con[c].lo, i)
                        THEN Smaller(got[p][q] + 1, 2) ELSE got[p][q]
      /\ \A d \in Consumers, p \in Producers :
           seen'[d][p] = IF d = c /\ p = con[c].at /\ k # 0 THEN con[c].lo + k ELSE seen[d][p]
  BY <1>2, HandIs
<1>4. ASSUME NEW q \in Positions
      PROVE  (\E i \in 0 .. k - 1 : q = Forward(con[c].lo, i)) <=> con[c].lo <= q /\ q < con[c].lo + k
  <2>1. q \in Nat
    BY Small
  <2>2. ASSUME NEW i \in 0 .. k - 1, q = Forward(con[c].lo, i)
        PROVE  con[c].lo <= q /\ q < con[c].lo + k
    BY <1>1, <1>2, <2>2
  <2>3. ASSUME con[c].lo <= q, q < con[c].lo + k
        PROVE  \E i \in 0 .. k - 1 : q = Forward(con[c].lo, i)
    <3>1. q - con[c].lo \in 0 .. k - 1 /\ q - con[c].lo \in 0 .. con[c].n
      BY <1>1, <1>2, <2>1, <2>3
    <3>2. Forward(con[c].lo, q - con[c].lo) = con[c].lo + (q - con[c].lo)
      BY <1>1, <3>1
    <3> QED
      BY <1>1, <2>1, <3>1, <3>2
  <2> QED
    BY <2>2, <2>3
<1> QED
  BY <1>2, <1>3, <1>4

\* The initial states satisfy the flow invariant.
LEMMA FlowInit == Init => FlowInv /\ NoneLost
<1> SUFFICES ASSUME Init PROVE FlowInv /\ NoneLost
  OBVIOUS
<1>1. \A c \in Consumers : con[c].n = 0
  <2> TAKE c \in Consumers
  <2>1. con[c] = NewConsumer(IF c = 1 THEN "idle" ELSE "unborn", 0)
    BY DEF Init
  <2> QED
    BY <2>1 DEF NewConsumer
<1>2. \A c \in Consumers : ~Holding(c) /\ \A p \in Producers, k \in Positions : ~Held(c, p, k)
  BY <1>1 DEF Holding, Held
<1>3. \A p \in Producers : RingOK(p)
  BY BoundAssumption DEF Init, RingOK
<1>4. \A c \in Consumers : HoldOK(c)
  <2>1. \A c \in Consumers, p \in Producers : seen[c][p] = 0 /\ head[p] = 0
    BY DEF Init
  <2> TAKE c \in Consumers
  <2>2. \A p \in Producers : seen[c][p] <= head[p]
    BY <2>1
  <2> QED
    BY <1>2, <2>2 DEF HoldOK
<1>5. NoneLost
  BY BoundAssumption DEF Init, NoneLost, Positions
<1> QED
  BY <1>3, <1>4, <1>5 DEF FlowInv

\* Steps of producers: the tail advances within the values the instance allows.
LEMMA FlowProducer ==
  ASSUME ~Endless, BaseInv, FlowInv, NoneLost, UNCHANGED <<head, con, history>>,
         \A p \in Producers : /\ tail[p] <= tail'[p] /\ tail'[p] \in Nat
                              /\ tail'[p] + rem'[p] <= MaxSend
  PROVE  FlowInv' /\ NoneLost'
<1> USE DEF history
<1>1. \A c \in Consumers : \A p \in Producers, k \in Positions : Held(c, p, k)' <=> Held(c, p, k)
  BY DEF Held, Holding
<1>2. \A p \in Producers : RingOK(p)'
  <2> TAKE p \in Producers
  <2>1. head[p] \in Nat /\ tail[p] \in Nat /\ head[p] <= tail[p]
    BY NoWrap
  <2> QED
    BY <2>1 DEF FlowInv, RingOK
<1>3. \A c \in Consumers : HoldOK(c)'
  BY <1>1 DEF FlowInv, HoldOK, Holding
<1>4. NoneLost'
  BY <1>1 DEF NoneLost
<1> QED
  BY <1>2, <1>3, <1>4 DEF FlowInv

\* Every tail is below the number of values sent.
LEMMA SentBound ==
  ASSUME TypeOK, NEW p \in Producers
  PROVE  Sent \in Nat /\ tail[p] <= Sent
<1> DEFINE All == {v \in Producers \X Positions : v[2] < tail[v[1]]}
           Mine == {p} \X (0 .. tail[p] - 1)
           f == [k \in 0 .. tail[p] - 1 |-> <<p, k>>]
<1>1. tail[p] \in Nat /\ tail[p] \in Positions
  BY Small DEF TypeOK
<1>2. IsFiniteSet(Producers \X Positions)
  <2>1. IsFiniteSet(Producers) /\ IsFiniteSet(Positions)
    BY FS_Interval, ShapeAssumption, BoundAssumption DEF Producers, Positions
  <2> QED
    BY <2>1, FS_Product
<1>3. IsFiniteSet(All) /\ Cardinality(All) \in Nat
  BY <1>2, FS_Subset, FS_CardinalityType
<1>4. \A k \in 0 .. tail[p] - 1 : k \in Positions /\ <<p, k>> \in All
  BY <1>1, BoundAssumption DEF Positions
<1>5. f \in Injection(0 .. tail[p] - 1, All)
  BY <1>4 DEF Injection, IsInjective
<1>6. Cardinality(0 .. tail[p] - 1) <= Cardinality(All)
  BY <1>3, <1>5, FS_Injection
<1>7. Cardinality(0 .. tail[p] - 1) = tail[p]
  BY <1>1, FS_Interval
<1> QED
  BY <1>3, <1>6, <1>7 DEF Sent

\* Attempt keeps the flow invariant.
LEMMA AttemptFlow ==
  ASSUME ~Endless, BaseInv, FlowInv, NoneLost, NEW p \in Producers, NEW m \in Nat,
         tail[p] + m <= MaxSend, Attempt(p, m)
  PROVE  FlowInv' /\ NoneLost'
<1>1. PICK k \in 0 .. m : /\ tail' = [tail EXCEPT ![p] = Forward(tail[p], k)]
                          /\ rem' = [rem EXCEPT ![p] = m - k]
  BY AttemptIs DEF BaseInv
<1>2. /\ \A q \in Producers : tail[q] \in Nat /\ rem[q] \in Nat /\ tail[q] + rem[q] <= MaxSend
      /\ MaxSend < Period /\ tail[p] \in Positions
  BY NoWrap DEF BaseInv, TypeOK
<1>3. Forward(tail[p], k) = tail[p] + k
  <2>1. k \in Nat /\ tail[p] + k < Period /\ k <= Period
    BY <1>2, BoundAssumption
  <2> QED
    BY <1>2, <2>1, ForwardIs
<1>4. \A q \in Producers : /\ tail'[q] = IF q = p THEN tail[q] + k ELSE tail[q]
                           /\ rem'[q] = IF q = p THEN m - k ELSE rem[q]
  BY <1>1, <1>3 DEF BaseInv, TypeOK
<1>5. \A q \in Producers : tail[q] <= tail'[q] /\ tail'[q] \in Nat /\ tail'[q] + rem'[q] <= MaxSend
  BY <1>2, <1>4, BoundAssumption
<1> QED
  BY <1>5, FlowProducer DEF Attempt

\* Steps of a consumer that move no value.
LEMMA FlowQuiet ==
  ASSUME ~Endless, BaseInv, FlowInv, NoneLost, NEW c \in Consumers, Moves(c),
         UNCHANGED <<head, tail, rem>>,
         \A p \in Producers, k \in Positions : got'[p][k] = got[p][k],
         \A d \in Consumers, p \in Producers : seen'[d][p] = seen[d][p],
         Holding(c)' => Holding(c) /\ con'[c].at = con[c].at /\ con'[c].lo = con[c].lo
                        /\ con'[c].n = con[c].n,
         (Holding(c) => Holding(c)') \/ abandoned' # 0,
         abandoned' = 0 => abandoned = 0
  PROVE  FlowInv' /\ NoneLost'
<1>1. \A d \in Consumers : \A p \in Producers, k \in Positions : Held(d, p, k)' => Held(d, p, k)
  BY DEF Held, Holding, Moves
<1>2. abandoned' = 0 =>
        \A d \in Consumers : \A p \in Producers, k \in Positions : Held(d, p, k) => Held(d, p, k)'
  BY DEF Held, Holding, Moves
<1>3. \A p \in Producers : RingOK(p)'
  BY DEF FlowInv, RingOK
<1>4. \A d \in Consumers : HoldOK(d)'
  <2> TAKE d \in Consumers
  <2>1. Holding(d)' => Holding(d) /\ con'[d].at = con[d].at /\ con'[d].lo = con[d].lo
                       /\ con'[d].n = con[d].n
    BY DEF Moves, Holding
  <2>2. con[d].at \in Producers /\ HoldOK(d)
    BY ConFields DEF BaseInv, FlowInv
  <2>3. Holding(d)' => /\ con'[d].lo + con'[d].n <= head'[con'[d].at]
                       /\ seen'[d][con'[d].at] <= con'[d].lo
    BY <2>1, <2>2 DEF HoldOK
  <2>4. \A p \in Producers : /\ seen'[d][p] <= head'[p]
                             /\ \A k \in Positions : Held(d, p, k)' => got'[p][k] = 0
    BY <1>1, <2>2 DEF HoldOK
  <2>5. \A e \in Consumers : \A p \in Producers, k \in Positions :
          Held(d, p, k)' /\ Held(e, p, k)' => d = e
    BY <1>1, <2>2 DEF HoldOK
  <2> QED
    BY <2>3, <2>4, <2>5 DEF HoldOK
<1>5. NoneLost'
  BY <1>2 DEF NoneLost
<1> QED
  BY <1>3, <1>4, <1>5 DEF FlowInv

\* k staged values go to the caller.
LEMMA FlowHand ==
  ASSUME ~Endless, BaseInv, FlowInv, NoneLost, NEW c \in Consumers, Moves(c), Holding(c),
         UNCHANGED <<head, tail, rem>>, NEW k \in 1 .. con[c].n, Hand(c, k),
         con'[c].n = con[c].n - k, con'[c].n # 0 => con'[c].pc = "idle",
         con'[c].n # 0 => con'[c].at = con[c].at /\ con'[c].lo = Forward(con[c].lo, k)
  PROVE  FlowInv' /\ NoneLost'
<1> DEFINE a == con[c].at
           lo == con[c].lo
           n == con[c].n
<1>1. /\ a \in Producers /\ lo \in Nat /\ n \in Nat /\ k \in Nat /\ k <= n
      /\ Forward(lo, k) = lo + k
      /\ lo + n <= head[a] /\ head[a] \in Nat /\ seen[c][a] <= lo
  <2>1. a \in Producers /\ lo \in Nat /\ n \in Nat /\ Forward(lo, k) = lo + k
    BY HandsNoWrap
  <2> QED
    BY <2>1, NoWrap DEF FlowInv, HoldOK
<1>2. /\ abandoned' = abandoned
      /\ \A p \in Producers, q \in Positions :
           got'[p][q] = IF p = a /\ lo <= q /\ q < lo + k THEN Smaller(got[p][q] + 1, 2)
                        ELSE got[p][q]
      /\ \A d \in Consumers, p \in Producers :
           seen'[d][p] = IF d = c /\ p = a THEN lo + k ELSE seen[d][p]
  BY HandFlow
<1>3. \A q \in Positions : Held(c, a, q) <=> lo <= q /\ q < lo + n
  BY DEF Held
<1>4. \A q \in Positions, p \in Producers : Held(c, p, q)' <=> p = a /\ lo + k <= q /\ q < lo + n
  <2> TAKE q \in Positions, p \in Producers
  <2>1. q \in Nat
    BY Small
  <2>2. CASE con'[c].n = 0
    BY <1>1, <2>1, <2>2 DEF Held, Holding
  <2>3. CASE con'[c].n # 0
    <3>1. Holding(c)' /\ con'[c].at = a /\ con'[c].lo = lo + k /\ con'[c].lo + con'[c].n = lo + n
      BY <1>1, <2>3 DEF Holding
    <3> QED
      BY <3>1 DEF Held
  <2> QED
    BY <2>2, <2>3
<1>5. \A d \in Consumers : d # c => \A p \in Producers, q \in Positions : Held(d, p, q)' <=> Held(d, p, q)
  BY DEF Held, Holding, Moves
<1>6. \A d \in Consumers, p \in Producers, q \in Positions : Held(d, p, q)' => Held(d, p, q)
  <2> SUFFICES ASSUME NEW d \in Consumers, NEW p \in Producers, NEW q \in Positions, Held(d, p, q)'
               PROVE  Held(d, p, q)
    OBVIOUS
  <2>1. CASE d = c
    BY <1>1, <1>3, <1>4, <2>1, Small
  <2> QED
    BY <1>5, <2>1
<1>7. \A q \in Positions : lo <= q /\ q < lo + k => got[a][q] = 0 /\ Held(c, a, q) /\ q < head[a]
  <2> SUFFICES ASSUME NEW q \in Positions, lo <= q, q < lo + k
               PROVE  got[a][q] = 0 /\ Held(c, a, q) /\ q < head[a]
    OBVIOUS
  <2>1. q \in Nat /\ Held(c, a, q) /\ q < head[a]
    BY <1>1, <1>3, Small
  <2> QED
    BY <1>1, <2>1 DEF FlowInv, HoldOK
<1>8. \A p \in Producers : RingOK(p)'
  <2> TAKE p \in Producers
  <2>1. RingOK(p)
    BY DEF FlowInv
  <2>2. ASSUME NEW q \in Positions PROVE (q >= head'[p] => got'[p][q] = 0) /\ got'[p][q] <= 1
    <3>1. CASE p = a /\ lo <= q /\ q < lo + k
      <4>1. got[p][q] = 0 /\ q < head[p] /\ q \in Nat /\ head[p] \in Nat
        BY <1>1, <1>7, <3>1, Small
      <4> QED
        BY <1>2, <3>1, <4>1 DEF Smaller
    <3>2. CASE ~(p = a /\ lo <= q /\ q < lo + k)
      BY <1>2, <2>1, <3>2 DEF RingOK
    <3> QED
      BY <3>1, <3>2
  <2> QED
    BY <2>1, <2>2 DEF RingOK
<1>9. \A d \in Consumers : HoldOK(d)'
  <2> TAKE d \in Consumers
  <2>0. HoldOK(d) /\ con[d].at \in Producers
    BY ConFields DEF FlowInv, BaseInv
  <2>1. Holding(d)' => /\ con'[d].lo + con'[d].n <= head'[con'[d].at]
                       /\ seen'[d][con'[d].at] <= con'[d].lo
    <3>1. CASE d = c
      <4> SUFFICES ASSUME Holding(c)'
                   PROVE  con'[c].lo + con'[c].n <= head[con'[c].at] /\ seen'[c][con'[c].at] <= con'[c].lo
        BY <3>1
      <4>1. con'[c].n # 0
        BY <1>1 DEF Holding
      <4>2. con'[c].at = a /\ con'[c].lo = lo + k /\ con'[c].n = n - k
        BY <1>1, <4>1
      <4> QED
        BY <1>1, <1>2, <4>2
    <3>2. CASE d # c
      <4>1. con'[d] = con[d] /\ seen'[d][con[d].at] = seen[d][con[d].at]
        BY <1>2, <2>0, <3>2 DEF Moves
      <4> QED
        BY <2>0, <4>1 DEF HoldOK, Holding
    <3> QED
      BY <3>1, <3>2
  <2>2. ASSUME NEW p \in Producers PROVE seen'[d][p] <= head'[p]
    BY <1>1, <1>2, <2>0 DEF HoldOK
  <2>3. ASSUME NEW p \in Producers, NEW q \in Positions, Held(d, p, q)' PROVE got'[p][q] = 0
    <3>1. Held(d, p, q) /\ got[p][q] = 0
      BY <1>6, <2>0, <2>3 DEF HoldOK
    <3>2. ~(p = a /\ lo <= q /\ q < lo + k)
      <4> SUFFICES ASSUME p = a, lo <= q, q < lo + k PROVE FALSE
        OBVIOUS
      <4>1. d = c
        BY <1>7, <2>0, <3>1 DEF HoldOK
      <4> QED
        BY <1>1, <1>4, <2>3, <4>1, Small
    <3> QED
      BY <1>2, <3>1, <3>2
  <2>4. \A e \in Consumers : \A p \in Producers, q \in Positions :
          Held(d, p, q)' /\ Held(e, p, q)' => d = e
    BY <1>6, <2>0 DEF HoldOK
  <2> QED
    BY <2>1, <2>2, <2>3, <2>4 DEF HoldOK
<1>10. NoneLost'
  <2> SUFFICES ASSUME abandoned = 0, NEW p \in Producers, NEW q \in Positions, q < head[p]
               PROVE  got'[p][q] = 1 \/ \E d \in Consumers : Held(d, p, q)'
    BY <1>2 DEF NoneLost
  <2>1. CASE p = a /\ lo <= q /\ q < lo + k
    BY <1>2, <1>7, <2>1 DEF Smaller
  <2>2. CASE ~(p = a /\ lo <= q /\ q < lo + k)
    <3>1. got'[p][q] = got[p][q]
      BY <1>2, <2>2
    <3>2. got[p][q] = 1 \/ \E d \in Consumers : Held(d, p, q)
      BY DEF NoneLost
    <3>3. ASSUME NEW d \in Consumers, Held(d, p, q) PROVE Held(d, p, q)'
      <4>1. CASE d = c
        <5>1. p = a /\ lo <= q /\ q < lo + n
          BY <3>3, <4>1 DEF Held
        <5> QED
          BY <1>1, <1>4, <2>2, <4>1, <5>1, Small
      <4> QED
        BY <1>5, <3>3, <4>1
    <3> QED
      BY <3>1, <3>2, <3>3
  <2> QED
    BY <2>1, <2>2
<1> QED
  BY <1>8, <1>9, <1>10 DEF FlowInv

\* A commit of staged values moves them from the ring to the consumer's hands.
LEMMA FlowStage ==
  ASSUME ~Endless, BaseInv, FlowInv, NoneLost, NEW c \in Consumers, Moves(c), SameHands(c),
         con[c].pc = "commit", con'[c].pc = "release", con[c].call \notin InPlace,
         head' = [head EXCEPT ![con[c].at] = Forward(con[c].lo, con[c].n)],
         UNCHANGED <<tail, rem, history>>
  PROVE  FlowInv' /\ NoneLost'
<1> USE DEF history
<1> DEFINE a == con[c].at
           lo == con[c].lo
           n == con[c].n
<1>1. /\ a \in Producers /\ lo \in Nat /\ n \in Nat /\ n > 0 /\ lo = head[a] /\ lo + n <= tail[a]
      /\ Forward(lo, n) = lo + n /\ tail[a] \in Nat
  <2>1. /\ a \in Producers /\ lo \in Nat /\ n \in Nat /\ n > 0 /\ lo + n <= tail[a]
        /\ Forward(lo, n) = lo + n
    BY HandsNoWrap
  <2> QED
    BY <2>1, NoWrap DEF BaseInv, CommitInv
<1>2. \A p \in Producers : head'[p] = IF p = a THEN lo + n ELSE head[p]
  BY <1>1 DEF BaseInv, TypeOK
<1>3. \A p \in Producers : head[p] \in Nat /\ head[p] <= head'[p] /\ head'[p] \in Nat
  BY <1>1, <1>2, NoWrap
<1>4. \A q \in Positions, p \in Producers : Held(c, p, q)' <=> p = a /\ lo <= q /\ q < lo + n
  BY <1>1 DEF Held, Holding, SameHands
<1>5. \A d \in Consumers : d # c => \A p \in Producers, q \in Positions : Held(d, p, q)' <=> Held(d, p, q)
  BY DEF Held, Holding, Moves
<1>6. \A d \in Consumers, p \in Producers, q \in Positions : Held(d, p, q) => q < head[p]
  <2> SUFFICES ASSUME NEW d \in Consumers, NEW p \in Producers, NEW q \in Positions, Held(d, p, q)
               PROVE  q < head[p]
    OBVIOUS
  <2>1. /\ Holding(d) /\ con[d].at = p /\ q < con[d].lo + con[d].n /\ con[d].lo + con[d].n <= head[p]
        /\ con[d].lo \in Nat /\ con[d].n \in Nat
    BY HandsNoWrap DEF Held, FlowInv, HoldOK
  <2> QED
    BY <1>3, <2>1, Small
<1>7. \A p \in Producers : RingOK(p)'
  <2> TAKE p \in Producers
  <2>1. RingOK(p)
    BY DEF FlowInv
  <2>2. head'[p] <= tail[p]
    BY <1>1, <1>2, <2>1 DEF RingOK
  <2>3. \A q \in Positions : q >= head'[p] => q >= head[p]
    BY <1>3, Small
  <2> QED
    BY <2>1, <2>2, <2>3 DEF RingOK
<1>8. \A d \in Consumers : HoldOK(d)'
  <2> TAKE d \in Consumers
  <2>0. HoldOK(d) /\ con[d].at \in Producers /\ con[d].lo \in Nat /\ con[d].n \in Nat
    BY ConFields, Small DEF FlowInv, BaseInv
  <2>00. seen \in [Consumers -> [Producers -> Nat]]
    BY DEF BaseInv, TypeOK
  <2>1. Holding(d)' => /\ con'[d].lo + con'[d].n <= head'[con'[d].at]
                       /\ seen'[d][con'[d].at] <= con'[d].lo
    <3>1. CASE d = c
      BY <1>1, <1>2, <2>0, <3>1 DEF SameHands, HoldOK
    <3>2. CASE d # c
      <4>1. con'[d] = con[d]
        BY <3>2 DEF Moves
      <4> QED
        BY <1>3, <2>0, <4>1 DEF HoldOK, Holding
    <3> QED
      BY <3>1, <3>2
  <2>2. ASSUME NEW p \in Producers PROVE seen'[d][p] <= head'[p]
    <3>1. seen[d][p] <= head[p] /\ seen[d][p] \in Nat
      BY <2>0, <2>00 DEF HoldOK
    <3> QED
      BY <1>3, <3>1
  <2>3. ASSUME NEW p \in Producers, NEW q \in Positions, Held(d, p, q)' PROVE got'[p][q] = 0
    <3>1. CASE d = c
      <4>1. p = a /\ q >= head[p]
        BY <1>1, <1>4, <2>3, <3>1, Small
      <4> QED
        BY <4>1 DEF FlowInv, RingOK
    <3>2. CASE d # c
      BY <1>5, <2>0, <2>3, <3>2 DEF HoldOK
    <3> QED
      BY <3>1, <3>2
  <2>4. ASSUME NEW e \in Consumers, NEW p \in Producers, NEW q \in Positions,
               Held(d, p, q)', Held(e, p, q)'
        PROVE  d = e
    <3>1. CASE d # c /\ e # c
      BY <1>5, <2>0, <2>4, <3>1 DEF HoldOK
    <3>2. CASE d = c /\ e # c
      <4>1. q < head[p] /\ p = a /\ lo <= q
        BY <1>4, <1>5, <1>6, <2>4, <3>2
      <4> QED
        BY <1>1, <4>1, Small
    <3>3. CASE d # c /\ e = c
      <4>1. q < head[p] /\ p = a /\ lo <= q
        BY <1>4, <1>5, <1>6, <2>4, <3>3
      <4> QED
        BY <1>1, <4>1, Small
    <3> QED
      BY <3>1, <3>2, <3>3
  <2> QED
    BY <2>1, <2>2, <2>3, <2>4 DEF HoldOK
<1>9. NoneLost'
  <2> SUFFICES ASSUME abandoned = 0, NEW p \in Producers, NEW q \in Positions, q < head'[p]
               PROVE  got[p][q] = 1 \/ \E d \in Consumers : Held(d, p, q)'
    BY DEF NoneLost
  <2>1. CASE q < head[p]
    <3>1. got[p][q] = 1 \/ \E d \in Consumers : Held(d, p, q)
      BY <2>1 DEF NoneLost
    <3>2. ~Held(c, p, q)
      BY DEF Held, Holding
    <3> QED
      BY <1>5, <3>1, <3>2
  <2>2. CASE ~(q < head[p])
    <3>1. p = a /\ lo <= q /\ q < lo + n
      BY <1>1, <1>2, <1>3, <2>2, Small
    <3> QED
      BY <1>4, <3>1
  <2> QED
    BY <2>1, <2>2
<1> QED
  BY <1>7, <1>8, <1>9 DEF FlowInv

\* A commit of values that were handed over in place.
LEMMA FlowDrain ==
  ASSUME ~Endless, BaseInv, FlowInv, NoneLost, NEW c \in Consumers, Moves(c), ~Holding(c)',
         con[c].pc = "commit", NEW k \in 1 .. con[c].n, Hand(c, k),
         head' = [head EXCEPT ![con[c].at] = Forward(con[c].lo, k)],
         UNCHANGED <<tail, rem>>
  PROVE  FlowInv' /\ NoneLost'
<1> DEFINE a == con[c].at
           lo == con[c].lo
           n == con[c].n
<1>1. /\ a \in Producers /\ lo \in Nat /\ k \in Nat /\ k > 0 /\ lo = head[a] /\ lo + k <= tail[a]
      /\ Forward(lo, k) = lo + k /\ tail[a] \in Nat
  <2>1. /\ a \in Producers /\ lo \in Nat /\ n \in Nat /\ lo + n <= tail[a] /\ Forward(lo, k) = lo + k
    BY HandsNoWrap
  <2> QED
    BY <2>1, NoWrap DEF BaseInv, CommitInv
<1>2. \A p \in Producers : head'[p] = IF p = a THEN lo + k ELSE head[p]
  BY <1>1 DEF BaseInv, TypeOK
<1>3. \A p \in Producers : head[p] \in Nat /\ head[p] <= head'[p] /\ head'[p] \in Nat
  BY <1>1, <1>2, NoWrap
<1>4. /\ abandoned' = abandoned
      /\ \A p \in Producers, q \in Positions :
           got'[p][q] = IF p = a /\ lo <= q /\ q < lo + k THEN Smaller(got[p][q] + 1, 2)
                        ELSE got[p][q]
      /\ \A d \in Consumers, p \in Producers :
           seen'[d][p] = IF d = c /\ p = a THEN lo + k ELSE seen[d][p]
  BY HandFlow
<1>5. \A d \in Consumers, p \in Producers, q \in Positions : Held(d, p, q)' <=> Held(d, p, q)
  BY DEF Held, Holding, Moves
<1>6. \A d \in Consumers, p \in Producers, q \in Positions : Held(d, p, q) => q < head[p]
  <2> SUFFICES ASSUME NEW d \in Consumers, NEW p \in Producers, NEW q \in Positions, Held(d, p, q)
               PROVE  q < head[p]
    OBVIOUS
  <2>1. /\ Holding(d) /\ con[d].at = p /\ q < con[d].lo + con[d].n /\ con[d].lo + con[d].n <= head[p]
        /\ con[d].lo \in Nat /\ con[d].n \in Nat
    BY HandsNoWrap DEF Held, FlowInv, HoldOK
  <2> QED
    BY <1>3, <2>1, Small
<1>7. \A p \in Producers : RingOK(p)'
  <2> TAKE p \in Producers
  <2>1. RingOK(p)
    BY DEF FlowInv
  <2>2. head'[p] <= tail[p]
    BY <1>1, <1>2, <2>1 DEF RingOK
  <2>3. ASSUME NEW q \in Positions PROVE (q >= head'[p] => got'[p][q] = 0) /\ got'[p][q] <= 1
    <3>0. q \in Nat
      BY Small
    <3>1. CASE p = a /\ lo <= q /\ q < lo + k
      <4>1. got[p][q] = 0 /\ ~(q >= head'[p])
        BY <1>1, <1>2, <2>1, <3>0, <3>1 DEF RingOK
      <4> QED
        BY <1>4, <3>1, <4>1 DEF Smaller
    <3>2. CASE ~(p = a /\ lo <= q /\ q < lo + k)
      <4>1. q >= head'[p] => q >= head[p]
        BY <1>3, <3>0
      <4> QED
        BY <1>4, <2>1, <3>2, <4>1 DEF RingOK
    <3> QED
      BY <3>1, <3>2
  <2> QED
    BY <2>1, <2>2, <2>3 DEF RingOK
<1>8. \A d \in Consumers : HoldOK(d)'
  <2> TAKE d \in Consumers
  <2>0. HoldOK(d) /\ con[d].at \in Producers /\ con[d].lo \in Nat /\ con[d].n \in Nat
    BY ConFields, Small DEF FlowInv, BaseInv
  <2>1. Holding(d)' => /\ con'[d].lo + con'[d].n <= head'[con'[d].at]
                       /\ seen'[d][con'[d].at] <= con'[d].lo
    <3> SUFFICES ASSUME Holding(d)'
                 PROVE  con'[d].lo + con'[d].n <= head'[con'[d].at] /\ seen'[d][con'[d].at] <= con'[d].lo
      OBVIOUS
    <3>1. d # c /\ con'[d] = con[d] /\ Holding(d)
      BY DEF Moves, Holding
    <3>2. seen'[d][con[d].at] = seen[d][con[d].at]
      BY <1>4, <2>0, <3>1
    <3> QED
      BY <1>3, <2>0, <3>1, <3>2 DEF HoldOK
  <2>2. ASSUME NEW p \in Producers PROVE seen'[d][p] <= head'[p]
    <3>1. seen[d][p] <= head[p] /\ seen[d][p] \in Nat
      BY <2>0 DEF HoldOK, BaseInv, TypeOK
    <3> QED
      BY <1>1, <1>2, <1>3, <1>4, <3>1
  <2>3. ASSUME NEW p \in Producers, NEW q \in Positions, Held(d, p, q)' PROVE got'[p][q] = 0
    <3>1. Held(d, p, q) /\ got[p][q] = 0 /\ q < head[p]
      BY <1>5, <1>6, <2>0, <2>3 DEF HoldOK
    <3>2. ~(p = a /\ lo <= q)
      BY <1>1, <3>1, Small
    <3> QED
      BY <1>4, <3>1, <3>2
  <2>4. \A e \in Consumers : \A p \in Producers, q \in Positions :
          Held(d, p, q)' /\ Held(e, p, q)' => d = e
    BY <1>5, <2>0 DEF HoldOK
  <2> QED
    BY <2>1, <2>2, <2>3, <2>4 DEF HoldOK
<1>9. NoneLost'
  <2> SUFFICES ASSUME abandoned = 0, NEW p \in Producers, NEW q \in Positions, q < head'[p]
               PROVE  got'[p][q] = 1 \/ \E d \in Consumers : Held(d, p, q)'
    BY <1>4 DEF NoneLost
  <2>0. q \in Nat
    BY Small
  <2>1. CASE q < head[p]
    <3>1. got[p][q] = 1 \/ \E d \in Consumers : Held(d, p, q)
      BY <2>1 DEF NoneLost
    <3>2. got'[p][q] = got[p][q]
      BY <1>1, <1>4, <2>0, <2>1
    <3> QED
      BY <1>5, <3>1, <3>2
  <2>2. CASE ~(q < head[p])
    <3>1. p = a /\ lo <= q /\ q < lo + k
      BY <1>1, <1>2, <1>3, <2>0, <2>2
    <3>2. got[p][q] = 0
      BY <1>3, <2>0, <2>2 DEF FlowInv, RingOK
    <3> QED
      BY <1>4, <3>1, <3>2 DEF Smaller
  <2> QED
    BY <2>1, <2>2
<1> QED
  BY <1>7, <1>8, <1>9 DEF FlowInv

\* The consumer's steps that move no value.
LEMMA QuietFlow ==
  ASSUME ~Endless, BaseInv, FlowInv, NoneLost, NEW c \in Consumers,
         CountRings(c) \/ Select(c) \/ Claim(c) \/ Read(c) \/ Unwind(c) \/ EndPass(c)
  PROVE  FlowInv' /\ NoneLost'
<1>0. TypeOK /\ ScanInv /\ ScanOK(c)
  BY ScanFacts
<1>1. UNCHANGED <<head, tail, rem, history>>
  BY DEF CountRings, Select, Claim, Read, Unwind, EndPass, ring, producer
<1>2. ~Holding(c)
  BY DEF Holding, CountRings, Select, Claim, Read, Unwind, EndPass
<1>3. Moves(c) /\ ~Holding(c)'
  <2>1. CASE CountRings(c)
    BY <1>0, <2>1, CountRingsIs DEF Holding
  <2>2. CASE Select(c)
    <3>1. Moves(c) /\ con'[c].pc \in {"select", "claim"}
      BY <1>0, <2>2, SelectIs
    <3> QED
      BY <3>1 DEF Holding
  <2>3. CASE Claim(c)
    BY <1>0, <2>3, ClaimIs DEF Holding
  <2>4. CASE Read(c)
    <3>1. Moves(c) /\ con'[c].pc = (IF con'[c].n = 0 THEN "release" ELSE "commit")
      BY <1>0, <2>4, ReadIs
    <3> QED
      BY <3>1 DEF Holding
  <2>5. CASE Unwind(c)
    <3>1. Moves(c) /\ con'[c].n = con[c].n /\ con[c].n = 0
      BY <1>0, <2>5, UnwindIs DEF Unwind, ScanOK
    <3> QED
      BY <3>1 DEF Holding
  <2>6. CASE EndPass(c)
    <3>1. Moves(c) /\ con'[c].n = con[c].n /\ con[c].n = 0
      BY <1>0, <2>6, EndPassIs DEF EndPass, ScanOK
    <3> QED
      BY <3>1 DEF Holding
  <2> QED
    BY <2>1, <2>2, <2>3, <2>4, <2>5, <2>6
<1> QED
  BY <1>1, <1>2, <1>3, FlowQuiet DEF history

\* Begin keeps the flow invariant.
LEMMA BeginFlow ==
  ASSUME ~Endless, BaseInv, FlowInv, NoneLost, NEW c \in Consumers, NEW call \in Calls, Begin(c, call)
  PROVE  FlowInv' /\ NoneLost'
<1> DEFINE k == Served(call, con[c].n)
<1>0. /\ TypeOK /\ con[c].pc = "idle" /\ con[c].n \in Nat /\ con[c].n <= Cap
      /\ call \in Blocking \cup InPlace \cup {"try_recv"}
      /\ UNCHANGED <<head, tail, rem>>
  BY ScanFacts, ConFields, CallAssumption DEF Begin, ring, producer, Blocking, InPlace
<1>1. /\ Moves(c) /\ k \in 0 .. con[c].n /\ Hand(c, k) /\ con'[c].n = con[c].n - k
      /\ con'[c].n # 0 =>
           con'[c].pc = "idle" /\ con'[c].at = con[c].at /\ con'[c].lo = Forward(con[c].lo, k)
  BY <1>0, BeginIs
<1>2. k = 0 <=> con[c].n = 0
  BY <1>0, ServedIs
<1> HIDE DEF k
<1>3. CASE k = 0
  <2>1. ~Holding(c) /\ ~Holding(c)'
    BY <1>0, <1>1, <1>2, <1>3 DEF Holding
  <2>2. k \in Nat /\ k <= Cap
    BY <1>3, ShapeAssumption
  <2>3. /\ \A p \in Producers, q \in Positions :
             got'[p][q] = IF p = con[c].at /\ \E i \in 0 .. k - 1 : q = Forward(con[c].lo, i)
                          THEN Smaller(got[p][q] + 1, 2) ELSE got[p][q]
        /\ \A d \in Consumers, p \in Producers :
             seen'[d][p] = IF d = c /\ p = con[c].at /\ k # 0 THEN con[c].lo + k ELSE seen[d][p]
        /\ abandoned' = abandoned
    BY <1>0, <1>1, <2>2, HandIs
  <2>4. \A q \in Positions : ~\E i \in 0 .. k - 1 : q = Forward(con[c].lo, i)
    BY <1>3
  <2>5. /\ \A p \in Producers, q \in Positions : got'[p][q] = got[p][q]
        /\ \A d \in Consumers, p \in Producers : seen'[d][p] = seen[d][p]
    BY <1>3, <2>3, <2>4
  <2> QED
    BY <1>0, <1>1, <2>1, <2>3, <2>5, FlowQuiet
<1>4. CASE k # 0
  <2>1. Holding(c) /\ k \in 1 .. con[c].n
    BY <1>0, <1>1, <1>2, <1>4 DEF Holding
  <2> QED
    BY <1>0, <1>1, <2>1, FlowHand
<1> QED
  BY <1>3, <1>4

\* Release keeps the flow invariant.
LEMMA ReleaseFlow ==
  ASSUME ~Endless, BaseInv, FlowInv, NoneLost, NEW c \in Consumers, Release(c)
  PROVE  FlowInv' /\ NoneLost'
<1> DEFINE k == IF con[c].call \in InPlace THEN con[c].n ELSE Served(con[c].call, con[c].n)
<1>0. /\ TypeOK /\ ScanInv /\ con[c].pc = "release" /\ con[c].n \in Nat
      /\ UNCHANGED <<head, tail, rem>>
  BY ScanFacts DEF Release, producer
<1>1. /\ Moves(c)
      /\ \/ con[c].n = 0 /\ con'[c].n = 0
         \/ /\ con[c].n > 0 /\ k \in 1 .. con[c].n /\ con'[c].pc = "idle"
            /\ con'[c].n = con[c].n - k
            /\ con'[c].n # 0 => con'[c].at = con[c].at /\ con'[c].lo = Forward(con[c].lo, k)
  BY <1>0, ReleaseIs
<1>2. CASE con[c].n = 0 \/ con[c].call \in InPlace
  <2>1. UNCHANGED history
    BY <1>2 DEF Release
  <2>2. ~Holding(c) /\ ~Holding(c)'
    BY <1>0, <1>1, <1>2 DEF Holding
  <2> QED
    BY <1>0, <1>1, <2>1, <2>2, FlowQuiet DEF history
<1>3. CASE ~(con[c].n = 0 \/ con[c].call \in InPlace)
  <2>1. Hand(c, k) /\ Holding(c)
    BY <1>0, <1>3 DEF Release, Holding
  <2> HIDE DEF k
  <2> QED
    BY <1>0, <1>1, <1>3, <2>1, FlowHand
<1> QED
  BY <1>2, <1>3

\* Commit keeps the flow invariant.
LEMMA CommitFlow ==
  ASSUME ~Endless, BaseInv, FlowInv, NoneLost, NEW c \in Consumers, Commit(c)
  PROVE  FlowInv' /\ NoneLost'
<1>1. /\ con[c].pc = "commit" /\ Moves(c) /\ SameHands(c) /\ con'[c].pc = "release"
      /\ con[c].n \in 1 .. con[c].n
  <2>1. TypeOK /\ con[c].pc = "commit" /\ con[c].n \in Nat /\ 0 < con[c].n
    BY ConFields DEF Commit, BaseInv, CommitInv
  <2> QED
    BY <2>1, CommitIs
<1>2. CASE con[c].call \in InPlace
  <2>1. ~Holding(c)'
    BY <1>1, <1>2 DEF Holding, SameHands
  <2> QED
    BY <1>1, <1>2, <2>1, FlowDrain DEF Commit, producer
<1>3. CASE con[c].call \notin InPlace
  BY <1>1, <1>3, FlowStage DEF Commit, producer
<1> QED
  BY <1>2, <1>3

\* DrainPanics keeps the flow invariant.
LEMMA DrainPanicsFlow ==
  ASSUME ~Endless, BaseInv, FlowInv, NoneLost, NEW c \in Consumers, NEW k \in 1 .. Cap,
         DrainPanics(c, k)
  PROVE  FlowInv' /\ NoneLost'
<1>1. Moves(c) /\ ~Holding(c)'
  BY DrainPanicsIs DEF BaseInv, Holding
<1>2. k \in 1 .. con[c].n
  BY DEF DrainPanics
<1> QED
  BY <1>1, <1>2, FlowDrain DEF DrainPanics, producer

\* A consumer comes, or goes with what it has staged.
LEMMA ConsumersFlow ==
  ASSUME ~Endless, BaseInv, FlowInv, NoneLost, NEW c \in Consumers, Clone(c) \/ ConsumerDrop(c)
  PROVE  FlowInv' /\ NoneLost'
<1>0. TypeOK /\ ScanOK(c) /\ abandoned \in Nat /\ con[c].n \in Nat
  BY ScanFacts, BoundAssumption DEF BaseInv, TypeOK
<1>1. CASE Clone(c)
  <2>1. Moves(c) /\ ~Holding(c) /\ ~Holding(c)' /\ UNCHANGED <<head, tail, rem, history>>
    <3>1. Moves(c) /\ con'[c].n = 0
      BY <1>0, <1>1, CloneIs DEF Fresh
    <3>2. ~Holding(c) /\ UNCHANGED <<head, tail, rem, history>>
      BY <1>1 DEF Clone, Holding, ring, producer
    <3> QED
      BY <3>1, <3>2 DEF Holding
  <2> QED
    BY <2>1, FlowQuiet DEF history
<1>2. CASE ConsumerDrop(c)
  <2>1. Moves(c) /\ ~Holding(c)' /\ UNCHANGED <<head, tail, rem, got, seen>>
    BY <1>0, <1>2, ConsumerDropIs DEF ConsumerDrop, Holding, Fresh, ring, producer
  <2>2. (~Holding(c) /\ abandoned' = abandoned) \/ abandoned' = abandoned + 1
    BY <1>2 DEF ConsumerDrop, Holding
  <2> QED
    BY <1>0, <2>1, <2>2, FlowQuiet
<1> QED
  BY <1>1, <1>2

\* Every step of an instance that is not endless keeps the flow invariant.
LEMMA FlowNext == ~Endless /\ BaseInv /\ FlowInv /\ NoneLost /\ [Next]_vars => FlowInv' /\ NoneLost'
<1> SUFFICES ASSUME ~Endless, BaseInv, FlowInv, NoneLost, [Next]_vars PROVE FlowInv' /\ NoneLost'
  OBVIOUS
<1>0. \A p \in Producers : /\ tail[p] \in Nat /\ rem[p] \in Nat /\ tail[p] + rem[p] <= MaxSend
  BY NoWrap
<1>1. ASSUME UNCHANGED <<head, con, history, tail, rem>> PROVE FlowInv' /\ NoneLost'
  BY <1>0, <1>1, FlowProducer
<1>2. ASSUME NEW p \in Producers, Registration(p) PROVE FlowInv' /\ NoneLost'
  BY <1>1, <1>2 DEF Registration, Register, Publish, CountLive, ring
<1>3. ASSUME NEW p \in Producers, Push(p) PROVE FlowInv' /\ NoneLost'
  BY <1>0, <1>3, AttemptFlow DEF Push
<1>4. ASSUME NEW p \in Producers, Full(p) PROVE FlowInv' /\ NoneLost'
  <2>1. UNCHANGED <<head, tail, con, history>> /\ rem' = [rem EXCEPT ![p] = IF live_consumers = 0 THEN 0 ELSE @]
    BY <1>4 DEF Full, ring
  <2>2. \A q \in Producers : rem'[q] = 0 \/ rem'[q] = rem[q]
    BY <2>1 DEF BaseInv, TypeOK
  <2>3. \A q \in Producers : tail[q] <= tail'[q] /\ tail'[q] \in Nat /\ tail'[q] + rem'[q] <= MaxSend
    BY <1>0, <2>1, <2>2, BoundAssumption
  <2> QED
    BY <2>1, <2>3, FlowProducer
<1>5. ASSUME NEW p \in Producers, NEW m \in Sends, Send(p, m) PROVE FlowInv' /\ NoneLost'
  <2>1. Sent \in Nat /\ tail[p] <= Sent /\ m \in Nat /\ Sent + m <= MaxSend
    BY <1>5, SentBound, BoundAssumption DEF Send, BaseInv
  <2>2. tail[p] + m <= MaxSend
    BY <1>0, <2>1, BoundAssumption
  <2> QED
    BY <1>5, <2>1, <2>2, AttemptFlow DEF Send
<1>6. ASSUME (\E p \in Producers : ProducerDrop(p)) \/ RegistrarClone \/ RegistrarDrop \/ UNCHANGED vars
      PROVE  FlowInv' /\ NoneLost'
  BY <1>1, <1>6 DEF ProducerDrop, RegistrarClone, RegistrarDrop, vars, ring, producer
<1>7. ASSUME NEW c \in Consumers, ConsumerStep(c) PROVE FlowInv' /\ NoneLost'
  BY <1>7, QuietFlow, CommitFlow, ReleaseFlow DEF ConsumerStep
<1> QED
  BY <1>2, <1>3, <1>4, <1>5, <1>6, <1>7, BeginFlow, DrainPanicsFlow, ConsumersFlow
     DEF Next, ProducerStep, Over

\* Every value published is in its ring, held by one consumer, delivered or
\* dropped, for every instance that is not endless.
THEOREM FlowCorrect == ~Endless => (Spec => [](FlowInv /\ NoneLost))
<1> SUFFICES ASSUME ~Endless PROVE Spec => [](FlowInv /\ NoneLost)
  OBVIOUS
<1>1. Init => BaseInv /\ FlowInv /\ NoneLost
  BY BaseInit, FlowInit
<1>2. BaseInv /\ FlowInv /\ NoneLost /\ [Next]_vars => (BaseInv /\ FlowInv /\ NoneLost)'
  BY BaseNext, FlowNext
<1> QED
  BY <1>1, <1>2, PTL DEF Spec

\* An endless instance keeps no history.
LEMMA EndlessNext ==
  ASSUME Endless, [Next]_vars
  PROVE  UNCHANGED <<got, seen>>
<1> USE DEF history
<1>1. ASSUME NEW c \in Consumers, NEW k, Hand(c, k) PROVE UNCHANGED <<got, seen>>
  BY <1>1 DEF Hand
<1>2. ASSUME NEW p \in Producers, Registration(p) \/ ProducerStep(p) \/ ProducerDrop(p)
      PROVE  UNCHANGED <<got, seen>>
  BY <1>2 DEF Registration, ProducerStep, Register, Publish, CountLive, Push, Attempt, Full, ProducerDrop
<1>3. ASSUME NEW p \in Producers, NEW m \in Sends, Send(p, m) PROVE UNCHANGED <<got, seen>>
  BY <1>3 DEF Send, Attempt
<1>4. ASSUME RegistrarClone \/ RegistrarDrop \/ UNCHANGED vars PROVE UNCHANGED <<got, seen>>
  BY <1>4 DEF RegistrarClone, RegistrarDrop, vars
<1>5. ASSUME NEW c \in Consumers, ConsumerStep(c) PROVE UNCHANGED <<got, seen>>
  <2>1. CASE Commit(c)
    BY <1>1, <2>1 DEF Commit
  <2>2. CASE Release(c)
    BY <1>1, <2>2 DEF Release
  <2> QED
    BY <1>5, <2>1, <2>2 DEF ConsumerStep, CountRings, Select, Claim, Read, Unwind, EndPass
<1>6. ASSUME NEW c \in Consumers, Clone(c) \/ ConsumerDrop(c) PROVE UNCHANGED <<got, seen>>
  BY <1>6 DEF Clone, ConsumerDrop
<1>7. ASSUME NEW c \in Consumers, NEW call \in Calls, Begin(c, call) PROVE UNCHANGED <<got, seen>>
  BY <1>1, <1>7 DEF Begin
<1>8. ASSUME NEW c \in Consumers, NEW k \in 1 .. Cap, DrainPanics(c, k) PROVE UNCHANGED <<got, seen>>
  BY <1>1, <1>8 DEF DrainPanics
<1> QED
  BY <1>2, <1>3, <1>4, <1>5, <1>6, <1>7, <1>8 DEF Next, Over

\* No value is handed over twice, by any mix of staged and in-place calls and
\* whatever panics: the held ranges of two consumers never overlap, and a value
\* is counted as it leaves the last of them.
THEOREM DeliveryCorrect == Spec => []AtMostOnce
<1>1. CASE ~Endless
  <2>1. FlowInv => AtMostOnce
    BY DEF FlowInv, RingOK, AtMostOnce
  <2> QED
    BY <1>1, <2>1, FlowCorrect, PTL
<1>2. CASE Endless
  <2>1. Init => AtMostOnce
    BY DEF Init, AtMostOnce
  <2>2. AtMostOnce /\ [Next]_vars => AtMostOnce'
    BY <1>2, EndlessNext DEF AtMostOnce
  <2> QED
    BY <2>1, <2>2, PTL DEF Spec
<1> QED
  BY <1>1, <1>2

\* What a consumer has seen of a producer only grows.
LEMMA SeenGrows ==
  ASSUME ~Endless, BaseInv, FlowInv, [Next]_vars, NEW c \in Consumers, NEW p \in Producers
  PROVE  seen'[c][p] >= seen[c][p]
<1> USE DEF history
<1>0. seen[c][p] \in Nat
  BY DEF BaseInv, TypeOK
<1>1. ASSUME NEW d \in Consumers, NEW k \in 1 .. con[d].n, Hand(d, k), Holding(d) \/ con[d].pc = "commit"
      PROVE  seen'[c][p] >= seen[c][p]
  <2>1. seen'[c][p] = IF c = d /\ p = con[d].at THEN con[d].lo + k ELSE seen[c][p]
    BY <1>1, HandFlow
  <2>2. con[d].at \in Producers /\ con[d].lo \in Nat /\ k \in Nat
    BY <1>1, HandsNoWrap
  <2>3. seen[d][con[d].at] <= con[d].lo
    <3>1. CASE Holding(d)
      BY <3>1 DEF FlowInv, HoldOK
    <3>2. CASE con[d].pc = "commit"
      BY <2>2, <3>2 DEF FlowInv, HoldOK, BaseInv, CommitInv
    <3> QED
      BY <1>1, <3>1, <3>2
  <2> QED
    BY <1>0, <2>1, <2>2, <2>3
<1>2. ASSUME UNCHANGED seen PROVE seen'[c][p] >= seen[c][p]
  BY <1>0, <1>2
<1>3. ASSUME NEW q \in Producers, Registration(q) \/ ProducerStep(q) \/ ProducerDrop(q)
      PROVE  UNCHANGED seen
  BY <1>3 DEF Registration, ProducerStep, Register, Publish, CountLive, Push, Attempt, Full, ProducerDrop
<1>4. ASSUME NEW q \in Producers, NEW m \in Sends, Send(q, m) PROVE UNCHANGED seen
  BY <1>4 DEF Send, Attempt
<1>5. ASSUME RegistrarClone \/ RegistrarDrop \/ UNCHANGED vars PROVE UNCHANGED seen
  BY <1>5 DEF RegistrarClone, RegistrarDrop, vars
<1>6. ASSUME NEW d \in Consumers, Commit(d) PROVE seen'[c][p] >= seen[c][p]
  <2>1. con[d].pc = "commit" /\ con[d].n \in 1 .. con[d].n
    <3>1. con[d].pc = "commit" /\ con[d].n \in Nat /\ 0 < con[d].n
      BY <1>6, ConFields DEF Commit, BaseInv, CommitInv
    <3> QED
      BY <3>1
  <2> QED
    BY <1>1, <1>2, <1>6, <2>1 DEF Commit
<1>7. ASSUME NEW d \in Consumers, Release(d) PROVE seen'[c][p] >= seen[c][p]
  <2> DEFINE k == Served(con[d].call, con[d].n)
  <2>1. CASE con[d].n = 0 \/ con[d].call \in InPlace
    BY <1>2, <1>7, <2>1 DEF Release
  <2>2. CASE ~(con[d].n = 0 \/ con[d].call \in InPlace)
    <3>1. /\ con[d].n \in Nat /\ con[d].call \in Blocking \cup InPlace \cup {"try_recv"}
      BY ConFields DEF BaseInv
    <3>2. Hand(d, k) /\ Holding(d)
      BY <1>7, <2>2, <3>1 DEF Release, Holding
    <3>3. k \in 1 .. con[d].n
      BY <2>2, <3>1, ServedIs
    <3> HIDE DEF k
    <3> QED
      BY <1>1, <3>2, <3>3
  <2> QED
    BY <2>1, <2>2
<1>8. ASSUME NEW d \in Consumers, NEW call \in Calls, Begin(d, call) PROVE seen'[c][p] >= seen[c][p]
  <2> DEFINE k == Served(call, con[d].n)
  <2>1. /\ con[d].n \in Nat /\ call \in Blocking \cup InPlace \cup {"try_recv"} /\ TypeOK
    BY ConFields, CallAssumption DEF BaseInv, Blocking, InPlace
  <2>2. k \in 0 .. con[d].n /\ (k = 0 <=> con[d].n = 0)
    BY <2>1, ServedIs
  <2>3. Hand(d, k) /\ con[d].pc = "idle"
    BY <1>8 DEF Begin
  <2> HIDE DEF k
  <2>4. CASE k = 0
    <3>1. k \in Nat /\ k <= Cap
      BY <2>4, ShapeAssumption
    <3>2. seen'[c][p] = seen[c][p]
      BY <2>1, <2>3, <2>4, <3>1, HandIs
    <3> QED
      BY <1>0, <3>2
  <2>5. CASE k # 0
    <3>1. Holding(d) /\ k \in 1 .. con[d].n
      BY <2>1, <2>2, <2>3, <2>5 DEF Holding
    <3> QED
      BY <1>1, <2>3, <3>1
  <2> QED
    BY <2>4, <2>5
<1>9. ASSUME NEW d \in Consumers, NEW k \in 1 .. Cap, DrainPanics(d, k) PROVE seen'[c][p] >= seen[c][p]
  BY <1>1, <1>9 DEF DrainPanics
<1>10. ASSUME NEW d \in Consumers,
              \/ CountRings(d) \/ Select(d) \/ Claim(d) \/ Read(d) \/ Unwind(d) \/ EndPass(d)
              \/ Clone(d) \/ ConsumerDrop(d)
       PROVE  UNCHANGED seen
  BY <1>10 DEF CountRings, Select, Claim, Read, Unwind, EndPass, Clone, ConsumerDrop
<1> QED
  BY <1>2, <1>3, <1>4, <1>5, <1>6, <1>7, <1>8, <1>9, <1>10 DEF Next, ConsumerStep, Over

\* A consumer gets the values of a producer in the order they were sent.
THEOREM OrderCorrect == Spec => ProducerOrder
<1>1. CASE ~Endless
  <2>1. BaseInv /\ FlowInv /\ [Next]_vars =>
          [\A c \in Consumers, p \in Producers : seen'[c][p] >= seen[c][p]]_vars
    BY <1>1, SeenGrows
  <2> QED
    BY <1>1, <2>1, BaseCorrect, FlowCorrect, PTL DEF Spec, ProducerOrder
<1>2. CASE Endless
  <2>1. BaseInv /\ [Next]_vars =>
          [\A c \in Consumers, p \in Producers : seen'[c][p] >= seen[c][p]]_vars
    <3> SUFFICES ASSUME BaseInv, [Next]_vars, NEW c \in Consumers, NEW p \in Producers
                 PROVE  seen'[c][p] >= seen[c][p]
      OBVIOUS
    <3>1. seen' = seen /\ seen[c][p] \in Nat
      BY <1>2, EndlessNext DEF BaseInv, TypeOK
    <3> QED
      BY <3>1
  <2> QED
    BY <2>1, BaseCorrect, PTL DEF Spec, ProducerOrder
<1> QED
  BY <1>1, <1>2

-----------------------------------------------------------------------------
(* The end of the stream.                                                  *)

\* The initial states satisfy EndInv.
LEMMA EndInit == Init => EndInv
<1> SUFFICES ASSUME Init PROVE EndInv
  OBVIOUS
<1>1. \A c \in Consumers : con[c].pc \in {"idle", "unborn"} /\ ~con[c].final
  <2> TAKE c \in Consumers
  <2>1. con[c] = NewConsumer(IF c = 1 THEN "idle" ELSE "unborn", 0)
    BY DEF Init
  <2> QED
    BY <2>1 DEF NewConsumer
<1>2. \A c \in Consumers : EndOK(c)
  BY <1>1 DEF EndOK
<1>3. \A p \in Producers : head[p] = tail[p]
  BY DEF Init
<1> QED
  BY <1>2, <1>3 DEF EndInv

\* While a producer or a registrar is left, consumer 1 owes every ring a visit.
LEMMA FirstOwes ==
  ASSUME BaseInv, EndInv, abandoned = 0, NEW p \in Producers, \A c \in Consumers : ~Owes(c, p)
  PROVE  live = 0
<1>1. 1 \in Consumers /\ con[1].pc # "unborn"
  BY ShapeAssumption DEF BaseInv, ScanInv, Consumers
<1>2. ~Owes(1, p) /\ EndOK(1)
  BY <1>1 DEF EndInv
<1> QED
  BY <1>1, <1>2 DEF Owes, EndOK

\* Registrars and producers that step are alive.
LEMMA ProducerAlive ==
  ASSUME BaseInv,
         \/ RegistrarClone \/ RegistrarDrop
         \/ \E p \in Producers : \/ Registration(p) \/ ProducerStep(p) \/ ProducerDrop(p)
                                 \/ \E m \in Sends : Send(p, m)
  PROVE  live # 0 /\ UNCHANGED <<con, abandoned>>
<1>1. live = 0 => registrars = 0 /\ Counted = {} /\ Registering = {}
  BY CountedIs DEF BaseInv
<1>2. UNCHANGED <<con, abandoned>>
  BY DEF RegistrarClone, RegistrarDrop, Registration, ProducerStep, Register, Publish, CountLive,
         Push, Full, Send, Attempt, ProducerDrop, history
<1>3. CASE RegistrarClone \/ RegistrarDrop
  BY <1>1, <1>2, <1>3 DEF RegistrarClone, RegistrarDrop, BaseInv, TypeOK
<1>4. ASSUME NEW p \in Producers, Registration(p) PROVE live # 0
  BY <1>1, <1>4 DEF Registration, Register, Publish, CountLive, Registering, BaseInv, TypeOK
<1>5. ASSUME NEW p \in Producers, ppc[p] \in {"idle", "push", "full"} PROVE live # 0
  BY <1>1, <1>5 DEF Counted
<1> QED
  BY <1>2, <1>3, <1>4, <1>5 DEF ProducerStep, Push, Full, Send, ProducerDrop

\* Their steps cannot end the stream.
LEMMA EndProducer ==
  ASSUME BaseInv, BaseInv', EndInv, live # 0, UNCHANGED <<con, abandoned>>
  PROVE  EndInv'
<1>1. \A c \in Consumers : EndOK(c)'
  BY DEF EndInv, EndOK
<1>2. ASSUME abandoned = 0, NEW p \in Producers, \A c \in Consumers : ~Owes(c, p)' PROVE FALSE
  <2>1. 1 \in Consumers /\ con[1].pc # "unborn"
    BY ShapeAssumption DEF BaseInv, ScanInv, Consumers
  <2>2. EndOK(1)
    BY <2>1 DEF EndInv
  <2>3. ~Owes(1, p)'
    BY <1>2, <2>1
  <2> QED
    BY <1>2, <2>1, <2>2, <2>3 DEF EndOK, Owes
<1> QED
  BY <1>1, <1>2 DEF EndInv

\* A step of consumer c: it still owes its visits, or the ring is empty, or
\* somebody else owes a visit.
LEMMA EndConsumer ==
  ASSUME BaseInv, EndInv, NEW c \in Consumers, Moves(c),
         UNCHANGED <<slots, live, tail>>, EndOK(c)',
         abandoned' = 0 => abandoned = 0,
         \A p \in Producers : head'[p] # head[p] => con[c].pc = "commit" /\ con[c].at = p,
         \A p \in Producers :
           abandoned' = 0 /\ ~Owes(c, p)' =>
             \/ ~Owes(c, p)
             \/ head'[p] = tail[p]
             \/ \E d \in Consumers : d # c /\ Owes(d, p)
  PROVE  EndInv'
<1>0. \A d \in Consumers : con[d].at \in Producers /\ con[d].n \in Nat
  BY ConFields DEF BaseInv
<1>1. ASSUME NEW d \in Consumers PROVE EndOK(d)'
  <2>1. CASE d # c
    <3>1. con'[d] = con[d] /\ EndOK(d)
      BY <2>1 DEF Moves, EndInv
    <3>2. con[d].pc = "release" => head'[con[d].at] = head[con[d].at]
      BY <1>0, <2>1 DEF BaseInv, ClaimInv, SingleConsumer, Inside
    <3> QED
      BY <3>1, <3>2 DEF EndOK
  <2> QED
    BY <2>1
<1>2. ASSUME abandoned' = 0, NEW p \in Producers, \A d \in Consumers : ~Owes(d, p)'
      PROVE  head'[p] = tail[p]
  <2>1. \A d \in Consumers : d # c => ~Owes(d, p)
    BY <1>2 DEF Owes, Moves
  <2>2. CASE ~Owes(c, p)
    <3>1. head[p] = tail[p]
      BY <1>2, <2>1, <2>2 DEF EndInv
    <3>2. con[c].pc = "commit" => Owes(c, p)
      BY DEF BaseInv, CommitInv, Owes
    <3> QED
      BY <2>2, <3>1, <3>2
  <2> QED
    BY <1>2, <2>1, <2>2
<1> QED
  BY <1>1, <1>2 DEF EndInv

\* One visit of a pass: the ring at the cursor leaves the window, the others stay.
LEMMA PassStep ==
  ASSUME NEW L \in Nat, NEW x \in 0 .. L - 1, NEW s \in 0 .. L - 1, NEW v \in 1 .. L,
         InPass(x, s, v, L), x # s
  PROVE  InPass(x, Index(s + 1, L), v - 1, L)
  BY DEF InPass, Index

\* A whole pass visits every ring, and no visit is left after it.
LEMMA PassAll ==
  ASSUME NEW L \in Nat, NEW x \in 0 .. L - 1, NEW next \in Nat
  PROVE  InPass(x, Index(next, L), L, L) /\ ~InPass(x, Index(next, L), 0, L)
  BY DEF InPass, Index

\* In a final pass the membership no longer changes.
LEMMA FinalIs ==
  ASSUME BaseInv, EndInv, NEW c \in Consumers, con[c].final
  PROVE  live = 0 /\ count = Len(slots) /\ Len(slots) \in Nat
<1>1. live = 0
  BY DEF EndInv, EndOK
<1>2. TypeOK /\ CountInv
  BY DEF BaseInv
<1> QED
  BY <1>1, <1>2, CountedIs DEF TypeOK

\* A consumer at the start of a final pass owes every ring that has a value.
LEMMA WholePass ==
  ASSUME ~Endless, BaseInv, FlowInv, EndInv, NEW c \in Consumers, NEW p \in Producers,
         UNCHANGED <<slots, live, head, tail>>, Moves(c),
         con'[c].pc = "select", con'[c].visits = count, con'[c].final = con[c].final
  PROVE  Owes(c, p)' \/ head[p] = tail[p]
<1>1. CASE ~con[c].final
  BY <1>1 DEF Owes
<1>2. CASE con[c].final
  <2>1. count = Len(slots) /\ Len(slots) \in Nat
    BY <1>2, FinalIs
  <2>2. con'[c].next \in Nat
    BY ShapeAssumption DEF Moves, ConsumerState, MaxRings
  <2>3. CASE \E i \in 1 .. Len(slots) : slots[i] = p
    <3>1. PICK i \in 1 .. Len(slots) : slots[i] = p
      BY <2>3
    <3>2. i - 1 \in 0 .. Len(slots) - 1
      BY <2>1
    <3>3. InPass(i - 1, Index(con'[c].next, Len(slots)), con'[c].visits, Len(slots))
      BY <2>1, <2>2, <3>2, PassAll
    <3> QED
      BY <3>1, <3>3 DEF Owes
  <2>4. CASE ~\E i \in 1 .. Len(slots) : slots[i] = p
    <3>1. ppc[p] \in {"unborn", "publish", "refused"}
      BY <2>4 DEF BaseInv, SlotInv
    <3>2. tail[p] = 0
      BY <3>1 DEF BaseInv, SlotInv
    <3> QED
      BY <3>2, NoWrap
  <2> QED
    BY <2>3, <2>4
<1> QED
  BY <1>1, <1>2

\* CountRings keeps EndInv.
LEMMA CountRingsEnd ==
  ASSUME ~Endless, BaseInv, FlowInv, EndInv, NEW c \in Consumers, CountRings(c)
  PROVE  EndInv'
<1>1. /\ Moves(c) /\ con'[c].pc = "select" /\ con'[c].visits = count
      /\ con'[c].final = con[c].final /\ con'[c].quota = con[c].quota /\ con[c].pc = "count"
  BY CountRingsIs DEF BaseInv, CountRings
<1>2. UNCHANGED <<slots, live, head, tail, abandoned>>
  BY DEF CountRings, membership, ring, history
<1>3. EndOK(c)'
  BY <1>1, <1>2 DEF EndInv, EndOK
<1>4. \A p \in Producers : Owes(c, p)' \/ head[p] = tail[p]
  BY <1>1, <1>2, WholePass
<1> QED
  BY <1>1, <1>2, <1>3, <1>4, EndConsumer

\* Select keeps EndInv.
LEMMA SelectEnd ==
  ASSUME ~Endless, BaseInv, FlowInv, EndInv, NEW c \in Consumers, Select(c)
  PROVE  EndInv'
<1> DEFINE L == Known(c)
           i == Index(con[c].next, L)
<1>0. /\ TypeOK /\ ScanInv /\ ScanOK(c) /\ con[c].pc = "select" /\ con[c].n = 0
      /\ con[c].visits \in Nat /\ con[c].next \in Nat
  BY ScanFacts, ConFields DEF Select, ScanOK
<1>1. /\ Moves(c) /\ L \in 1 .. Len(slots) /\ L >= count /\ i \in 0 .. L - 1
      /\ con'[c].next = i + 1 /\ con'[c].visits = con[c].visits - 1 /\ con[c].visits > 0
      /\ con'[c].quota = con[c].quota /\ con'[c].final = con[c].final /\ con'[c].n = con[c].n
      /\ \/ slots[i + 1] = Null /\ con'[c].pc = "select"
         \/ slots[i + 1] \in Producers /\ con'[c].pc = "claim" /\ con'[c].at = slots[i + 1]
  BY <1>0, SelectIs
<1>2. UNCHANGED <<slots, live, head, tail, abandoned>>
  BY DEF Select, membership, ring, history
<1>3. EndOK(c)'
  BY <1>0, <1>1, <1>2 DEF EndInv, EndOK
<1> HIDE DEF L
<1>4. ASSUME NEW p \in Producers, Owes(c, p) PROVE Owes(c, p)'
  <2>1. CASE ~con[c].final
    BY <1>1, <2>1 DEF Owes
  <2>2. CASE con[c].final
    <3>1. count = Len(slots) /\ Len(slots) \in Nat /\ L = Len(slots)
      <4>1. count = Len(slots) /\ Len(slots) \in Nat
        BY <2>2, FinalIs
      <4> QED
        BY <1>1, <4>1
    <3>2. PICK j \in 1 .. L : slots[j] = p /\ InPass(j - 1, i, con[c].visits, L)
      BY <1>0, <1>4, <2>2, <3>1 DEF Owes
    <3>3. CASE j - 1 = i
      <4>1. slots[i + 1] = p /\ p # Null
        BY <1>1, <3>1, <3>2, <3>3 DEF Producers, Null
      <4>2. con'[c].pc = "claim" /\ con'[c].at = p
        BY <1>1, <4>1
      <4> QED
        BY <4>2 DEF Owes
    <3>4. CASE j - 1 # i
      <4>1. L \in Nat /\ j - 1 \in 0 .. L - 1 /\ con[c].visits \in 1 .. L
        BY <1>0, <1>1, <3>1 DEF ScanOK
      <4>2. InPass(j - 1, Index(i + 1, L), con[c].visits - 1, L)
        BY <1>1, <3>2, <3>4, <4>1, PassStep
      <4>3. InPass(j - 1, Index(con'[c].next, Len(slots')), con'[c].visits, Len(slots'))
        BY <1>1, <1>2, <3>1, <4>2
      <4> QED
        BY <1>1, <1>2, <3>1, <3>2, <4>3 DEF Owes
    <3> QED
      BY <3>3, <3>4
  <2> QED
    BY <2>1, <2>2
<1> QED
  BY <1>1, <1>2, <1>3, <1>4, EndConsumer

\* A consumer inside a ring with a value owes it a visit.
LEMMA InsideOwes ==
  ASSUME ~Endless, BaseInv, EndInv, NEW d \in Consumers, Inside(d)
  PROVE  Owes(d, con[d].at) \/ head[con[d].at] = tail[con[d].at]
<1>1. con[d].n \in Nat /\ (con[d].pc = "commit" => con[d].n > 0) /\ EndOK(d)
  BY ConFields DEF BaseInv, CommitInv, EndInv
<1> QED
  BY <1>1 DEF Inside, Owes, EndOK

\* Claim keeps EndInv.
LEMMA ClaimEnd ==
  ASSUME ~Endless, BaseInv, FlowInv, EndInv, NEW c \in Consumers, Claim(c)
  PROVE  EndInv'
<1>0. TypeOK /\ con[c].pc = "claim" /\ con[c].at \in Producers /\ con[c].n = 0
  BY ScanFacts, ConFields DEF Claim, ScanOK
<1>1. /\ Moves(c) /\ SameScan(c) /\ con'[c].n = con[c].n
      /\ \/ claimed[con[c].at] /\ con'[c].pc = "select"
         \/ ~claimed[con[c].at] /\ con'[c].pc = "read" /\ SameHands(c)
  BY <1>0, ClaimIs
<1>2. UNCHANGED <<slots, live, head, tail, abandoned>>
  BY DEF Claim, membership, history
<1>3. EndOK(c)'
  BY <1>0, <1>1, <1>2 DEF EndInv, EndOK, SameScan
<1>4. ASSUME NEW p \in Producers, Owes(c, p), ~Owes(c, p)'
      PROVE  head[p] = tail[p] \/ \E d \in Consumers : d # c /\ Owes(d, p)
  <2>1. claimed[con[c].at] /\ con[c].at = p
    BY <1>0, <1>1, <1>2, <1>4 DEF Owes, SameScan, SameHands
  <2>2. PICK d \in Consumers : Inside(d) /\ con[d].at = p
    BY <2>1 DEF BaseInv, ClaimInv
  <2>3. d # c
    BY <1>0, <2>2 DEF Inside
  <2> QED
    BY <2>2, <2>3, InsideOwes
<1> QED
  BY <1>1, <1>2, <1>3, <1>4, EndConsumer

\* Read keeps EndInv.
LEMMA ReadEnd ==
  ASSUME ~Endless, BaseInv, FlowInv, EndInv, NEW c \in Consumers, Read(c)
  PROVE  EndInv'
<1> DEFINE a == con[c].at
<1>0. /\ TypeOK /\ con[c].pc = "read" /\ a \in Producers /\ con[c].n = 0 /\ con[c].quota \in Nat
      /\ con[c].quota >= 1
  BY ScanFacts, ConFields DEF Read, ScanOK, EndInv, EndOK
<1>1. /\ Moves(c) /\ SameScan(c) /\ con'[c].at = a
      /\ con'[c].n = Smaller(con[c].quota, InRing(a)) /\ con'[c].n \in Nat
      /\ con'[c].pc = IF con'[c].n = 0 THEN "release" ELSE "commit"
  BY <1>0, ReadIs
<1>2. UNCHANGED <<slots, live, head, tail, abandoned>>
  BY DEF Read, membership, ring, history
<1>3. con'[c].n = 0 => head[a] = tail[a]
  <2>1. InRing(a) = tail[a] - head[a] /\ head[a] \in Nat /\ tail[a] \in Nat
    BY <1>0, NoWrap
  <2> QED
    BY <1>0, <1>1, <2>1 DEF Smaller
<1>4. EndOK(c)'
  <2>1. EndOK(c)
    BY DEF EndInv
  <2> QED
    BY <1>0, <1>1, <1>2, <1>3, <2>1 DEF EndOK, SameScan
<1>5. ASSUME NEW p \in Producers, Owes(c, p), ~Owes(c, p)' PROVE head[p] = tail[p]
  <2>1. con'[c].n = 0 /\ a = p
    BY <1>0, <1>1, <1>2, <1>5 DEF Owes, SameScan
  <2> QED
    BY <1>3, <2>1
<1> QED
  BY <1>1, <1>2, <1>4, <1>5, EndConsumer

\* Commit keeps EndInv.
LEMMA CommitEnd ==
  ASSUME ~Endless, BaseInv, FlowInv, EndInv, NEW c \in Consumers,
         Commit(c) \/ \E k \in 1 .. Cap : DrainPanics(c, k)
  PROVE  EndInv'
<1>0. /\ TypeOK /\ con[c].pc = "commit" /\ con[c].at \in Producers /\ con[c].n > 0 /\ con[c].n \in Nat
      /\ con[c].n <= Cap
  BY ConFields DEF Commit, DrainPanics, BaseInv, CommitInv
<1>1. /\ Moves(c) /\ SameScan(c)
      /\ \/ con'[c].pc = "release" /\ con'[c].n = con[c].n
         \/ con'[c].pc = "unwind"
  BY <1>0, CommitIs, DrainPanicsIs DEF SameHands
<1>2. UNCHANGED <<slots, live, tail>> /\ abandoned' = abandoned
  <2>1. ASSUME NEW k \in Nat, k <= Cap, Hand(c, k) PROVE abandoned' = abandoned
    BY <1>0, <2>1, HandIs
  <2>2. CASE Commit(c)
    BY <1>0, <2>1, <2>2 DEF Commit, membership, history
  <2>3. CASE \E k \in 1 .. Cap : DrainPanics(c, k)
    BY <2>1, <2>3, ShapeAssumption DEF DrainPanics, membership
  <2> QED
    BY <2>2, <2>3
<1>3. \A p \in Producers : head'[p] # head[p] => con[c].at = p
  BY DEF Commit, DrainPanics, BaseInv, TypeOK
<1>4. EndOK(c)'
  BY <1>0, <1>1, <1>2 DEF EndInv, EndOK, SameScan
<1>5. \A p \in Producers : Owes(c, p)'
  BY <1>0, <1>1 DEF Owes
<1> QED
  BY <1>0, <1>1, <1>2, <1>3, <1>4, <1>5, EndConsumer

\* Release keeps EndInv.
LEMMA ReleaseEnd ==
  ASSUME ~Endless, BaseInv, FlowInv, EndInv, NEW c \in Consumers, Release(c)
  PROVE  EndInv'
<1> DEFINE k == IF con[c].call \in InPlace THEN con[c].n ELSE Served(con[c].call, con[c].n)
<1>0. TypeOK /\ ScanInv /\ con[c].pc = "release" /\ con[c].n \in Nat /\ con[c].n <= Cap
  BY ScanFacts, ConFields DEF Release
<1>1. /\ Moves(c)
      /\ \/ con[c].n = 0 /\ con'[c].n = 0 /\ con'[c].pc = "select" /\ SameScan(c)
         \/ con[c].n > 0 /\ k \in 1 .. con[c].n /\ con'[c].pc = "idle" /\ con'[c].final = FALSE
  BY <1>0, ReleaseIs
<1>2. UNCHANGED <<slots, live, head, tail, abandoned>>
  <2>1. UNCHANGED <<slots, live, head, tail>>
    BY DEF Release, membership
  <2>2. CASE con[c].n = 0 \/ con[c].call \in InPlace
    BY <2>1, <2>2 DEF Release, history
  <2>3. CASE ~(con[c].n = 0 \/ con[c].call \in InPlace)
    <3>1. Hand(c, k) /\ k \in 1 .. con[c].n
      BY <1>1, <2>3 DEF Release
    <3> HIDE DEF k
    <3>2. k \in Nat /\ k <= Cap
      BY <1>0, <3>1, ShapeAssumption
    <3> QED
      BY <1>0, <2>1, <3>1, <3>2, HandIs
  <2> QED
    BY <2>2, <2>3
<1>3. EndOK(c)'
  <2>1. EndOK(c)
    BY DEF EndInv
  <2> QED
    BY <1>0, <1>1, <1>2, <2>1 DEF EndOK, SameScan
<1>4. \A p \in Producers : Owes(c, p) => Owes(c, p)'
  BY <1>0, <1>1, <1>2 DEF Owes, SameScan
<1> QED
  BY <1>1, <1>2, <1>3, <1>4, EndConsumer

\* Unwind keeps EndInv.
LEMMA UnwindEnd ==
  ASSUME ~Endless, BaseInv, FlowInv, EndInv, NEW c \in Consumers, Unwind(c)
  PROVE  EndInv'
<1>1. Moves(c) /\ con'[c].pc = "idle" /\ con'[c].final = FALSE
  BY UnwindIs DEF BaseInv
<1>2. UNCHANGED <<slots, live, head, tail, abandoned>>
  BY DEF Unwind, membership, history
<1>3. EndOK(c)' /\ \A p \in Producers : Owes(c, p)'
  BY <1>1 DEF EndOK, Owes
<1> QED
  BY <1>1, <1>2, <1>3, EndConsumer

\* EndPass keeps EndInv.
LEMMA EndPassEnd ==
  ASSUME ~Endless, BaseInv, FlowInv, EndInv, NEW c \in Consumers, EndPass(c)
  PROVE  EndInv'
<1>0. /\ TypeOK /\ con[c].pc = "select" /\ con[c].visits = 0 /\ con[c].n = 0 /\ con[c].next \in Nat
      /\ Len(slots) \in Nat /\ EndOK(c)
  BY ScanFacts, ConFields DEF EndPass, ScanOK, EndInv
<1>1. /\ Moves(c)
      /\ \/ con'[c].pc = "idle" /\ con'[c].final = FALSE
         \/ con'[c].pc = "ended" /\ con'[c].final = FALSE /\ con[c].final
         \/ /\ con'[c].pc = "count" /\ ~con[c].final /\ con'[c].final = (live = 0)
            /\ con'[c].quota = con[c].quota
  BY <1>0, EndPassIs
<1>2. UNCHANGED <<slots, live, head, tail, abandoned>>
  BY DEF EndPass, membership, ring, history
<1>3. EndOK(c)'
  BY <1>0, <1>1, <1>2 DEF EndOK
<1>4. ASSUME NEW p \in Producers, ~Owes(c, p)' PROVE ~Owes(c, p)
  <2>1. con[c].final
    BY <1>1, <1>4 DEF Owes
  <2>2. \A i \in 1 .. Len(slots) : ~InPass(i - 1, Index(con[c].next, Len(slots)), 0, Len(slots))
    <3> TAKE i \in 1 .. Len(slots)
    <3>1. i - 1 \in 0 .. Len(slots) - 1
      BY <1>0
    <3> QED
      BY <1>0, <3>1, PassAll
  <2> QED
    BY <1>0, <2>1, <2>2 DEF Owes
<1> QED
  BY <1>1, <1>2, <1>3, <1>4, EndConsumer

\* Begin keeps EndInv.
LEMMA BeginEnd ==
  ASSUME ~Endless, BaseInv, FlowInv, EndInv, NEW c \in Consumers, NEW call \in Calls, Begin(c, call)
  PROVE  EndInv'
<1>0. TypeOK /\ con[c].n \in Nat /\ con[c].n <= Cap /\ EndOK(c)
  BY ConFields DEF BaseInv, EndInv
<1>1. PICK k \in 0 .. con[c].n :
        /\ Moves(c) /\ Hand(c, k)
        /\ \/ con'[c].pc = "select" /\ con'[c].visits = count /\ con'[c].final = con[c].final
              /\ con'[c].quota >= 1
           \/ con'[c].pc = "idle" /\ con'[c].final = FALSE
  BY <1>0, BeginIs
<1>2. UNCHANGED <<slots, live, head, tail, abandoned>>
  <2>1. k \in Nat /\ k <= Cap
    BY <1>0, ShapeAssumption
  <2>2. abandoned' = abandoned
    BY <1>0, <1>1, <2>1, HandIs
  <2> QED
    BY <2>2 DEF Begin, membership, ring
<1>3. EndOK(c)'
  BY <1>0, <1>1, <1>2 DEF EndOK
<1>4. ASSUME NEW p \in Producers PROVE Owes(c, p)' \/ head[p] = tail[p]
  <2>1. CASE con'[c].pc = "idle"
    BY <2>1 DEF Owes
  <2>2. CASE con'[c].pc # "idle"
    BY <1>1, <1>2, <2>2, WholePass
  <2> QED
    BY <2>1, <2>2
<1> QED
  BY <1>1, <1>2, <1>3, <1>4, EndConsumer

\* Clone and Drop of a consumer keep EndInv.
LEMMA ConsumersEnd ==
  ASSUME ~Endless, BaseInv, FlowInv, EndInv, NEW c \in Consumers, Clone(c) \/ ConsumerDrop(c)
  PROVE  EndInv'
<1>0. TypeOK /\ abandoned \in Nat /\ EndOK(c)
  BY BoundAssumption DEF BaseInv, TypeOK, EndInv
<1>1. UNCHANGED <<slots, live, head, tail>>
  BY DEF Clone, ConsumerDrop, membership, ring
<1>2. CASE Clone(c)
  <2>1. Moves(c) /\ con'[c].pc = "idle" /\ con'[c].final = FALSE /\ abandoned' = abandoned
    BY <1>0, <1>2, CloneIs DEF Fresh, Clone, history
  <2>2. EndOK(c)' /\ \A p \in Producers : Owes(c, p)'
    BY <2>1 DEF EndOK, Owes
  <2> QED
    BY <1>1, <2>1, <2>2, EndConsumer
<1>3. CASE ConsumerDrop(c)
  <2>1. Moves(c) /\ con'[c].pc = "gone" /\ con'[c].final = FALSE
    BY <1>0, <1>3, ConsumerDropIs DEF Fresh
  <2>2. (con[c].pc = "ended" /\ abandoned' = abandoned) \/ abandoned' # 0
    BY <1>0, <1>3 DEF ConsumerDrop
  <2>3. EndOK(c)'
    BY <1>0, <1>1, <2>1, <2>2 DEF EndOK
  <2>4. abandoned' = 0 => abandoned = 0 /\ \A p \in Producers : ~Owes(c, p)
    BY <2>2 DEF Owes
  <2> QED
    BY <1>1, <2>1, <2>3, <2>4, EndConsumer
<1> QED
  BY <1>2, <1>3

\* A stuttering step keeps EndInv.
LEMMA StutterEnd ==
  ASSUME EndInv, UNCHANGED vars
  PROVE  EndInv'
<1> USE DEF vars, membership, ring, history
<1>1. \A c \in Consumers, p \in Producers : Owes(c, p)' <=> Owes(c, p)
  BY DEF Owes
<1>2. \A c \in Consumers : EndOK(c)'
  BY DEF EndInv, EndOK
<1> QED
  BY <1>1, <1>2 DEF EndInv

\* Every step of an instance that is not endless keeps EndInv.
LEMMA EndNext == ~Endless /\ BaseInv /\ FlowInv /\ EndInv /\ [Next]_vars => EndInv'
<1> SUFFICES ASSUME ~Endless, BaseInv, FlowInv, EndInv, [Next]_vars PROVE EndInv'
  OBVIOUS
<1>1. CASE \/ RegistrarClone \/ RegistrarDrop
           \/ \E p \in Producers : \/ Registration(p) \/ ProducerStep(p) \/ ProducerDrop(p)
                                   \/ \E m \in Sends : Send(p, m)
  BY <1>1, ProducerAlive, BaseNext, EndProducer
<1>2. ASSUME NEW c \in Consumers, ConsumerStep(c) PROVE EndInv'
  BY <1>2, CountRingsEnd, SelectEnd, ClaimEnd, ReadEnd, CommitEnd, ReleaseEnd, UnwindEnd, EndPassEnd
     DEF ConsumerStep
<1> QED
  BY <1>1, <1>2, BeginEnd, ConsumersEnd, CommitEnd, StutterEnd DEF Next, Over

\* The whole invariant, of an instance that keeps the history.
LEMMA InvCorrect == Spec => []IInv
<1>1. Init => IInv
  BY BaseInit, FlowInit, EndInit DEF IInv
<1>2. IInv /\ [Next]_vars => IInv'
  BY BaseNext, FlowNext, EndNext DEF IInv
<1> QED
  BY <1>1, <1>2, PTL DEF Spec

\* When every consumer that was not abandoned has returned None, every value was
\* handed over, even the values of a ring that a peer held at a consumer's final
\* pass: no consumer owes a ring a visit, so every ring is empty, and a consumer
\* that has ended holds nothing.
THEOREM DrainCorrect == ~Endless => (Spec => []NothingStranded)
<1> SUFFICES ASSUME ~Endless PROVE Spec => []NothingStranded
  OBVIOUS
<1>1. IInv => NothingStranded
  <2> SUFFICES ASSUME IInv, abandoned = 0, \A c \in Consumers : con[c].pc \in {"unborn", "ended", "gone"},
                      NEW p \in Producers, NEW k \in 0 .. tail[p] - 1
               PROVE  got[p][k] = 1
    BY DEF NothingStranded
  <2>1. BaseInv /\ FlowInv /\ NoneLost /\ EndInv
    BY DEF IInv
  <2>2. head[p] = tail[p]
    BY <2>1 DEF EndInv, Owes
  <2>3. k \in Positions /\ k < head[p]
    BY <2>1, <2>2, NoWrap, BoundAssumption DEF Positions
  <2>4. \A c \in Consumers : ~Held(c, p, k)
    BY DEF Held, Holding
  <2> QED
    BY <2>1, <2>3, <2>4 DEF NoneLost
<1> QED
  BY <1>1, InvCorrect, PTL
=============================================================================
