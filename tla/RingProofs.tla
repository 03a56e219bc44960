----------------------------- MODULE RingProofs -----------------------------
(***************************************************************************)
(* Proofs about Ring, for every capacity, every cursor width that is a     *)
(* multiple of it and every bound.                                         *)
(***************************************************************************)
EXTENDS Ring, SequenceTheorems, TLAPS

-----------------------------------------------------------------------------
(* Facts about wrapping cursors.                                           *)

\* A word holds at least two rings.
LEMMA WordFacts == Cap \in Nat /\ Cap >= 1 /\ Word \in Nat /\ Word >= 2 * Cap
<1>1. PICK m \in 2 .. Word : Word = m * Cap
  BY WordAssumption
<1>2. m * Cap >= 2 * Cap
  BY CapAssumption, WordAssumption, SMT
<1>3. QED
  BY <1>1, <1>2, CapAssumption, WordAssumption

\* Masking a cursor gives a slot.
LEMMA SlotOfType == ASSUME NEW c \in Cursors PROVE SlotOf(c) \in Slots
  BY CapAssumption, WordAssumption DEF Cursors, SlotOf, Slots

\* Moving a cursor by less than a word, in one step or in two.
LEMMA WrapAddType ==
  ASSUME NEW c \in Cursors, NEW n \in 0 .. Word
  PROVE  WrapAdd(c, n) \in Cursors
  BY WordFacts DEF Cursors, WrapAdd

\* Two moves are one.
LEMMA WrapAddTwice ==
  ASSUME NEW c \in Cursors, NEW a \in Nat, NEW b \in Nat, a + b <= Word
  PROVE  WrapAdd(WrapAdd(c, a), b) = WrapAdd(c, a + b)
  BY WordFacts DEF Cursors, WrapAdd

\* The distance of two cursors, and moving by it.
LEMMA WrapSubType ==
  ASSUME NEW a \in Cursors, NEW b \in Cursors
  PROVE  WrapSub(a, b) \in Cursors /\ WrapAdd(b, WrapSub(a, b)) = a
  BY WordFacts DEF Cursors, WrapSub, WrapAdd

\* Two multiples of Cap less than Cap apart are the same.
LEMMA MultiplesApart ==
  ASSUME NEW x \in Int, NEW y \in Int, NEW d \in Int,
         d = x * Cap - y * Cap, -Cap < d, d < Cap
  PROVE  d = 0
<1>1. d = (x - y) * Cap
  BY CapAssumption, SMT
<1>2. CASE x - y >= 1
  BY <1>1, <1>2, CapAssumption, SMT
<1>3. CASE x - y <= -1
  BY <1>1, <1>3, CapAssumption, SMT
<1>4. CASE x - y = 0
  BY <1>1, <1>4, CapAssumption, SMT
<1>5. QED
  BY <1>2, <1>3, <1>4

\* Offsets less than a ring apart fall on different slots.
LEMMA SlotInjective ==
  ASSUME NEW c \in Cursors, NEW j \in Slots, NEW k \in Slots,
         SlotOf(WrapAdd(c, j)) = SlotOf(WrapAdd(c, k))
  PROVE  j = k
<1> DEFINE a == WrapAdd(c, j)
           b == WrapAdd(c, k)
           d == j - k
<1>1. PICK m \in 2 .. Word : Word = m * Cap
  BY WordAssumption
<1>2. a \in Cursors /\ b \in Cursors
  BY WordFacts, WrapAddType DEF Slots
<1>3. a = (a \div Cap) * Cap + (a % Cap) /\ a \div Cap \in Int
  BY <1>2, CapAssumption, WordFacts, SMT DEF Cursors
<1>4. b = (b \div Cap) * Cap + (b % Cap) /\ b \div Cap \in Int
  BY <1>2, CapAssumption, WordFacts, SMT DEF Cursors
<1>5. \/ d = a - b
      \/ d = a - b + Word
      \/ d = a - b - Word
  BY WordFacts DEF WrapAdd, Cursors, Slots
<1>6. \E x \in Int, y \in Int : d = x * Cap - y * Cap
  <2>. DEFINE x == a \div Cap  y == b \div Cap
  <2>1. a - b = x * Cap - y * Cap
    BY <1>3, <1>4, <1>2, CapAssumption DEF SlotOf, Cursors
  <2>2. (x + m) * Cap = x * Cap + Word /\ (y + m) * Cap = y * Cap + Word
    BY <1>1, <1>3, <1>4, CapAssumption, SMT
  <2>3. CASE d = a - b
    BY <2>1, <2>3, <1>3, <1>4
  <2>4. CASE d = a - b + Word
    <3>1. d = (x + m) * Cap - y * Cap
      BY <2>1, <2>2, <2>4, <1>2, <1>3, <1>4, CapAssumption, WordFacts DEF Cursors
    <3>2. QED BY <3>1, <1>1, <1>3, <1>4
  <2>5. CASE d = a - b - Word
    <3>1. d = x * Cap - (y + m) * Cap
      BY <2>1, <2>2, <2>5, <1>2, <1>3, <1>4, CapAssumption, WordFacts DEF Cursors
    <3>2. QED BY <3>1, <1>1, <1>3, <1>4
  <2>6. QED BY <1>5, <2>3, <2>4, <2>5
<1>7. d \in Int /\ -Cap < d /\ d < Cap
  BY WordFacts DEF Slots
<1>8. d = 0
  BY <1>6, <1>7, MultiplesApart
<1>9. QED
  BY <1>8 DEF Slots

-----------------------------------------------------------------------------
(* The inductive invariant.  The published range is at most a ring long,   *)
(* each cached cursor errs on the safe side, a reservation fits between    *)
(* the cached cursor and the own one, and the slots from head up to the    *)
(* producer's last write hold consecutive values.                          *)

CursorInv ==
  /\ Occupied = pushed - popped
  /\ Occupied <= WrapSub(tail, head_cache)
  /\ WrapSub(tail, head_cache) <= Cap
  /\ WrapSub(tail_cache, head) <= Occupied

ProducerInv ==
  /\ pdone <= pn
  /\ pn + WrapSub(tail, head_cache) <= Cap
  /\ pushed + pn <= MaxItems
  /\ ppc # "write" => pn = 0

ConsumerInv ==
  /\ cpc \in {"read", "drainread"} => cdone <= cn /\ cn <= WrapSub(tail_cache, head)
  /\ cpc \in {"idle", "drain"} => cdone = 0
  /\ cpc = "gone" => cdone <= Occupied /\ (ppc # "gone" => cdone = 0)
  /\ reclaimed => ppc = "gone" /\ cpc = "gone" /\ popped + cdone = pushed

ContentsInv ==
  \A k \in 0 .. Cap - 1 :
    k < Occupied + pdone => slot[SlotOf(WrapAdd(head, k))] = popped + k

RingInv == TypeOK /\ CursorInv /\ ProducerInv /\ ConsumerInv /\ ContentsInv /\ FifoOnce

\* The distances the code computes are naturals.
LEMMA Distances ==
  ASSUME TypeOK
  PROVE  /\ Occupied \in Nat
         /\ WrapSub(tail_cache, head) \in Nat
         /\ WrapSub(tail, head_cache) \in Nat
  BY WordFacts DEF TypeOK, Occupied, WrapSub, Cursors

\* The initial ring is empty.
LEMMA InitInv == Init => RingInv
<1> USE WordFacts, BoundAssumption DEF Cursors, Slots, Items, Uninit
<1> SUFFICES ASSUME Init PROVE RingInv
  OBVIOUS
<1>1. TypeOK
  <2>1. slot \in [Slots -> Items \cup {Uninit}] /\ freed \in [Items \cup {Uninit} -> Nat]
    BY DEF Init
  <2>2. 0 \in Cursors /\ 0 \in 0 .. Cap /\ 0 \in 0 .. MaxItems
    OBVIOUS
  <2>3. QED
    BY <2>1, <2>2 DEF Init, TypeOK
<1>2. CursorInv /\ ProducerInv /\ ConsumerInv
  BY DEF Init, CursorInv, ProducerInv, ConsumerInv, Occupied, WrapSub
<1>3. ContentsInv
  BY DEF Init, ContentsInv, Occupied, WrapSub
<1>4. FifoOnce
  BY DEF Init, FifoOnce
<1>5. QED
  BY <1>1, <1>2, <1>3, <1>4 DEF RingInv

\* A push reserves only slots the consumer has released: the cached head is
\* behind the real one, so the room it leaves is room.
LEMMA ReserveInv ==
  ASSUME RingInv, NEW limit \in Nat, limit >= 1, Reserve(limit)
  PROVE  RingInv'
<1> USE WordFacts, BoundAssumption
<1> USE DEF RingInv
<1>1. UNCHANGED <<inner, receiver, reclaimed, history, pdone>>
  BY DEF Reserve
<1>2. head_cache' \in Cursors /\ Occupied <= WrapSub(tail, head_cache')
      /\ WrapSub(tail, head_cache') <= Cap
  BY DEF Reserve, HeadSeen, TypeOK, CursorInv, Occupied, WrapSub, Cursors
<1>3. pn' \in 0 .. Cap /\ pn' <= limit /\ pn' + WrapSub(tail, head_cache') <= Cap
      /\ pdone = 0
  <2>1. WrapSub(tail, head_cache') \in Cursors
    BY <1>2, WrapSubType DEF TypeOK
  <2>2. pn' = Smaller(limit, Cap - WrapSub(tail, head_cache'))
    BY DEF Reserve, Room
  <2>3. pdone = 0
    BY DEF Reserve, ProducerInv, TypeOK
  <2>4. QED
    BY <1>2, <2>1, <2>2, <2>3 DEF Smaller, Cursors
<1>4. TypeOK'
  BY <1>1, <1>2, <1>3 DEF TypeOK, inner, receiver, history, Reserve
<1>5. CursorInv'
  BY <1>1, <1>2 DEF CursorInv, Occupied, WrapSub, inner, receiver, history
<1>6. ProducerInv'
  BY <1>1, <1>2, <1>3 DEF ProducerInv, Reserve, WrapSub, inner, receiver, history, TypeOK
<1>7. ConsumerInv'
  BY <1>1 DEF ConsumerInv, Occupied, Reserve, WrapSub, inner, receiver, history
<1>8. ContentsInv' /\ FifoOnce'
  BY <1>1 DEF ContentsInv, FifoOnce, Occupied, WrapSub, WrapAdd, inner, receiver, history
<1>9. QED
  BY <1>4, <1>5, <1>6, <1>7, <1>8

\* A write falls beyond every published slot and continues the run of values.
LEMMA WriteSlotInv ==
  ASSUME RingInv, WriteSlot
  PROVE  RingInv'
<1> USE WordFacts, BoundAssumption
<1> USE DEF RingInv
<1> DEFINE target == WrapAdd(tail, pdone)
<1>1. UNCHANGED <<head, tail, producer_gone, consumer_gone, ppc, head_cache, pn,
                  receiver, reclaimed, history>> /\ pdone' = pdone + 1 /\ pdone < pn
  BY DEF WriteSlot
<1>2. Occupied \in Nat /\ Occupied + pdone < Cap /\ pdone \in Nat
  BY <1>1 DEF TypeOK, CursorInv, ProducerInv, Occupied, WrapSub, Cursors
<1>3. target = WrapAdd(head, Occupied + pdone)
  BY <1>2, WrapSubType, WrapAddTwice DEF Occupied, TypeOK
<1>4. target \in Cursors /\ SlotOf(target) \in Slots
  BY <1>2, WrapAddType, SlotOfType DEF TypeOK
<1>5. ASSUME NEW k \in 0 .. Cap - 1, k # Occupied + pdone
      PROVE  SlotOf(WrapAdd(head, k)) # SlotOf(target)
  BY <1>2, <1>3, <1>5, SlotInjective DEF Slots, TypeOK
<1>6. pushed + pdone \in Items /\ pushed + pdone = popped + (Occupied + pdone)
  BY <1>1, <1>2 DEF TypeOK, ProducerInv, CursorInv, Items
<1>7. TypeOK'
  BY <1>1, <1>4, <1>6 DEF TypeOK, WriteSlot, receiver, history
<1>8. CursorInv' /\ ProducerInv' /\ ConsumerInv' /\ FifoOnce'
  BY <1>1, <1>2 DEF CursorInv, ProducerInv, ConsumerInv, FifoOnce, Occupied, WrapSub,
                    receiver, history, TypeOK
<1>9. ContentsInv'
  <2> SUFFICES ASSUME NEW k \in 0 .. Cap - 1, k < Occupied + pdone + 1
               PROVE  slot'[SlotOf(WrapAdd(head, k))] = popped + k
    BY <1>1, <1>2 DEF ContentsInv, Occupied, WrapSub, WrapAdd, SlotOf, history
  <2>1. slot' = [slot EXCEPT ![SlotOf(target)] = pushed + pdone]
    BY DEF WriteSlot
  <2>2. SlotOf(WrapAdd(head, k)) \in Slots
    BY WrapAddType, SlotOfType DEF TypeOK
  <2>3. CASE k = Occupied + pdone
    BY <1>3, <1>4, <1>6, <2>1, <2>3 DEF TypeOK
  <2>4. CASE k # Occupied + pdone
    <3>1. slot[SlotOf(WrapAdd(head, k))] = popped + k
      BY <1>2, <2>4 DEF ContentsInv
    <3>2. QED
      BY <1>5, <2>1, <2>2, <2>4, <3>1 DEF TypeOK
  <2>5. QED
    BY <2>3, <2>4
<1>10. QED
  BY <1>7, <1>8, <1>9

\* One store of tail turns the written run into published values.
LEMMA PublishInv == ASSUME RingInv, Publish PROVE RingInv'
<1> USE WordFacts, BoundAssumption
<1> USE DEF RingInv
<1>1. /\ UNCHANGED <<head, slot, producer_gone, consumer_gone, head_cache, receiver,
                     reclaimed, popped, freed>>
      /\ tail' = WrapAdd(tail, pn) /\ pushed' = pushed + pn /\ pdone = pn
      /\ pn' = 0 /\ pdone' = 0 /\ ppc' = "idle" /\ ppc = "write"
  BY DEF Publish
<1>2. /\ pn \in Nat /\ tail' \in Cursors
      /\ WrapSub(tail', head) = WrapSub(tail, head) + pn
      /\ WrapSub(tail', head_cache) = WrapSub(tail, head_cache) + pn
  BY <1>1 DEF TypeOK, CursorInv, ProducerInv, Occupied, WrapSub, WrapAdd, Cursors
<1>3. TypeOK'
  BY <1>1, <1>2 DEF TypeOK, receiver, ProducerInv
<1>4. CursorInv' /\ ProducerInv'
  BY <1>1, <1>2 DEF TypeOK, CursorInv, ProducerInv, Occupied, receiver, WrapSub, Cursors
<1>5. ConsumerInv'
  BY <1>1, <1>2, WrapSubType DEF ConsumerInv, Occupied, receiver, TypeOK, Cursors
<1>6. FifoOnce'
  BY <1>1 DEF FifoOnce, receiver
<1>7. ContentsInv'
  <2>1. Occupied' + pdone' = Occupied + pdone
    BY <1>1, <1>2 DEF Occupied, TypeOK, WrapSub, Cursors
  <2>2. QED
    BY <1>1, <2>1 DEF ContentsInv, WrapAdd, SlotOf
<1>8. QED
  BY <1>3, <1>4, <1>5, <1>6, <1>7

\* Steps that touch neither a cursor, a slot nor a value: an endpoint sets its
\* flag or releases its Arc, or finds the ring empty.
LEMMA EndpointInv ==
  ASSUME RingInv,
         \/ SenderDrop \/ SenderRelease \/ ReceiverDrop \/ ReceiverRelease
         \/ ReadNone
  PROVE  RingInv'
<1> USE WordFacts, BoundAssumption
<1> USE DEF RingInv
<1>1. UNCHANGED <<head, tail, slot, head_cache, pn, pdone, cn, cdone, callback,
                  reclaimed, history>>
  BY DEF SenderDrop, SenderRelease, ReceiverDrop, ReceiverRelease, ReadNone, FindEmpty,
         inner, sender, receiver
<1>2. /\ tail_cache' \in Cursors
      /\ WrapSub(tail_cache', head) <= Occupied
      /\ cpc' \in {"read", "drainread"} => cpc' = cpc /\ tail_cache' = tail_cache
  BY DEF SenderDrop, SenderRelease, ReceiverDrop, ReceiverRelease, ReadNone, FindEmpty,
         TailSeen, inner, sender, receiver, TypeOK, CursorInv, Occupied
<1>3. TypeOK'
  BY <1>1, <1>2, ZenonT(60) DEF SenderDrop, SenderRelease, ReceiverDrop, ReceiverRelease, ReadNone,
                    FindEmpty, inner, sender, receiver, history, TypeOK
<1>4. CursorInv' /\ ContentsInv' /\ FifoOnce'
  BY <1>1, <1>2 DEF CursorInv, ContentsInv, FifoOnce, Occupied, history
<1>5. ProducerInv'
  BY <1>1 DEF ProducerInv, SenderDrop, SenderRelease, ReceiverDrop, ReceiverRelease,
              ReadNone, inner, sender, receiver, history
<1>6. ConsumerInv'
  <2>1. CASE SenderDrop \/ SenderRelease
    BY <1>1, <2>1 DEF ConsumerInv, SenderDrop, SenderRelease, inner, receiver, history,
                      Occupied
  <2>2. CASE ReceiverDrop \/ ReceiverRelease \/ ReadNone
    <3>1. cpc \in {"idle", "drain"}
      BY <2>2 DEF ReceiverDrop, ReceiverRelease, ReadNone, FindEmpty
    <3>2. cdone = 0 /\ ~reclaimed
      BY <3>1 DEF ConsumerInv
    <3>3. Occupied \in Nat
      BY WrapSubType DEF Occupied, TypeOK, Cursors
    <3>4. QED
      BY <1>1, <2>2, <3>1, <3>2, <3>3 DEF ConsumerInv, ReceiverDrop, ReceiverRelease, ReadNone,
                              FindEmpty, inner, sender, receiver, history, Occupied
  <2>3. QED
    BY <2>1, <2>2
<1>7. QED
  BY <1>3, <1>4, <1>5, <1>6

\* A read reserves only published values: the cached tail is behind the real one.
LEMMA TakeInv ==
  ASSUME RingInv, NEW max \in Nat, NEW from \in {"idle", "drain"},
         NEW to \in {"read", "drainread"}, Take(max, from, to), callback' \in BOOLEAN
  PROVE  RingInv'
<1> USE WordFacts, BoundAssumption
<1> USE DEF RingInv
<1>1. UNCHANGED <<inner, sender, cdone, reclaimed, history>> /\ cpc' = to
  BY DEF Take
<1>2. tail_cache' \in Cursors /\ WrapSub(tail_cache', head) <= Occupied
      /\ WrapSub(tail_cache', head) \in Nat
  <2>1. tail_cache' \in {tail, tail_cache}
    BY DEF Take, TailSeen
  <2>2. WrapSub(tail, head) \in Nat /\ WrapSub(tail_cache, head) \in Nat
    BY Distances DEF Occupied
  <2>3. QED
    BY <2>1, <2>2 DEF TypeOK, CursorInv, Occupied
<1>3. Occupied <= Cap
  BY WrapSubType DEF CursorInv, TypeOK, Occupied, Cursors
<1>4. cn' \in 0 .. Cap /\ cn' <= WrapSub(tail_cache', head) /\ cn' > 0
  <2>1. cn' = Smaller(WrapSub(tail_cache', head), max) /\ cn' > 0
    BY DEF Take
  <2>2. Occupied \in Nat
    BY WrapSubType DEF TypeOK, Occupied, Cursors
  <2>3. QED
    BY <1>2, <1>3, <2>1, <2>2 DEF Smaller
<1>5. cdone = 0 /\ ~reclaimed
  BY DEF Take, ConsumerInv
<1>6. TypeOK'
  BY <1>1, <1>2, <1>4 DEF TypeOK, inner, sender, history
<1>7. CursorInv' /\ ContentsInv' /\ FifoOnce' /\ ProducerInv'
  BY <1>1, <1>2 DEF CursorInv, ContentsInv, FifoOnce, ProducerInv, Occupied,
                    inner, sender, history
<1>8. ConsumerInv'
  BY <1>1, <1>4, <1>5 DEF ConsumerInv, inner, sender, history
<1>9. QED
  BY <1>6, <1>7, <1>8

\* Moving one more value out, by the consumer or by the final cleanup, frees
\* the next value in order and nothing else.
LEMMA MoveOutInv ==
  ASSUME RingInv, ~reclaimed, cdone < Occupied,
         MoveOut(WrapAdd(head, cdone)), cdone' = cdone + 1,
         UNCHANGED <<inner, sender, cpc, tail_cache, cn, callback, reclaimed, pushed, popped>>,
         cpc \in {"read", "drainread"} => cdone < cn,
         cpc \notin {"idle", "drain"},
         cpc = "gone" => ppc = "gone"
  PROVE  RingInv'
<1> USE WordFacts, BoundAssumption
<1> USE DEF RingInv
<1>1. Occupied \in Nat /\ Occupied <= Cap /\ pdone \in Nat /\ cdone \in Nat
  BY WrapSubType DEF TypeOK, CursorInv, Occupied, Cursors
<1>2. slot[SlotOf(WrapAdd(head, cdone))] = popped + cdone
  BY <1>1 DEF ContentsInv
<1>3. popped + cdone \in Items /\ popped + cdone < pushed
  BY <1>1 DEF TypeOK, CursorInv, Items
<1>4. freed' = [freed EXCEPT ![popped + cdone] = @ + 1]
  BY <1>2 DEF MoveOut
<1>5. FifoOnce'
  <2> SUFFICES ASSUME NEW i \in Items \cup {Uninit}
               PROVE  freed'[i] = IF 0 <= i /\ i < popped + cdone + 1 THEN 1 ELSE 0
    BY <1>1 DEF FifoOnce, TypeOK
  <2>1. i \in Int /\ popped \in Nat
    BY BoundAssumption DEF Items, Uninit, TypeOK
  <2>2. freed[i] = IF 0 <= i /\ i < popped + cdone THEN 1 ELSE 0
    BY DEF FifoOnce
  <2>3. CASE i = popped + cdone
    BY <1>1, <1>3, <1>4, <2>1, <2>2, <2>3 DEF TypeOK
  <2>4. CASE i # popped + cdone
    BY <1>1, <1>3, <1>4, <2>1, <2>2, <2>4 DEF TypeOK
  <2>5. QED
    BY <2>3, <2>4
<1>6. TypeOK'
  <2>1. freed' \in [Items \cup {Uninit} -> Nat]
    BY <1>3, <1>4 DEF TypeOK
  <2>2. QED
    BY <1>1, <2>1 DEF TypeOK, inner, sender
<1>7. CursorInv' /\ ContentsInv' /\ ProducerInv'
  BY DEF CursorInv, ContentsInv, ProducerInv, Occupied, inner, sender
<1>8. ConsumerInv'
  <2>1. Occupied' = Occupied /\ WrapSub(tail_cache, head)' = WrapSub(tail_cache, head)
    BY DEF Occupied, inner
  <2>2. cn \in Nat
    BY DEF TypeOK
  <2>3. QED
    BY <1>1, <2>1, <2>2 DEF ConsumerInv, sender
<1>9. QED
  BY <1>5, <1>6, <1>7, <1>8

\* Moving a value out of its slot.
LEMMA ReadSlotInv == ASSUME RingInv, ReadSlot PROVE RingInv'
<1> USE DEF RingInv
<1>1. cdone < cn /\ cn <= Occupied
  BY Distances DEF ReadSlot, ConsumerInv, CursorInv, TypeOK
<1>2. cdone < Occupied /\ ~reclaimed
  BY <1>1, Distances DEF ReadSlot, ConsumerInv, TypeOK
<1>3. QED
  BY <1>1, <1>2, MoveOutInv DEF ReadSlot

\* The last owner drops a remaining value.
LEMMA InnerDropSlotInv == ASSUME RingInv, InnerDropSlot PROVE RingInv'
<1> USE DEF RingInv
<1>1. cdone <= Occupied /\ ~reclaimed /\ cpc = "gone" /\ ppc = "gone"
  BY DEF InnerDropSlot, Orphaned, ConsumerInv
<1>2. cdone # Occupied
  BY WrapSubType DEF InnerDropSlot, Occupied, TypeOK
<1>3. cdone < Occupied
  BY <1>1, <1>2, Distances DEF TypeOK
<1>4. QED
  BY <1>1, <1>3, MoveOutInv DEF InnerDropSlot

\* The cleanup ends exactly when it has passed over the whole range.
LEMMA InnerDropEndInv == ASSUME RingInv, InnerDropEnd PROVE RingInv'
<1> USE WordFacts, BoundAssumption
<1> USE DEF RingInv
<1>1. cdone <= Occupied /\ cpc = "gone" /\ ppc = "gone" /\ reclaimed'
  BY DEF InnerDropEnd, Orphaned, ConsumerInv
<1>2. cdone = Occupied
  BY <1>1 DEF InnerDropEnd, Occupied, WrapAdd, WrapSub, TypeOK, Cursors, CursorInv
<1>3. popped + cdone = pushed
  BY <1>2, WrapSubType DEF TypeOK, CursorInv, Occupied, Cursors
<1>4. QED
  BY <1>1, <1>3 DEF InnerDropEnd, TypeOK, CursorInv, ProducerInv, ConsumerInv, ContentsInv,
                    FifoOnce, Occupied, inner, sender, receiver, history

\* Releasing what was moved out, all of the reservation or part of it.
LEMMA ReleaseInv ==
  ASSUME RingInv, cpc \in {"read", "drainread"}, Release
  PROVE  RingInv'
<1> USE WordFacts, BoundAssumption
<1> USE DEF RingInv
<1>1. /\ UNCHANGED <<tail, slot, producer_gone, consumer_gone, sender, tail_cache,
                     callback, reclaimed, pushed, freed>>
      /\ head' = WrapAdd(head, cdone) /\ popped' = popped + cdone
      /\ cn' = 0 /\ cdone' = 0 /\ cpc' \in {"idle", "drain"}
  BY DEF Release
<1>2. cdone \in Nat /\ cdone <= WrapSub(tail_cache, head) /\ cdone <= Occupied
      /\ Occupied <= Cap
  BY Distances DEF TypeOK, ConsumerInv, CursorInv
<1>3. /\ head' \in Cursors
      /\ WrapSub(tail, head') = Occupied - cdone
      /\ WrapSub(tail_cache, head') = WrapSub(tail_cache, head) - cdone
  BY <1>1, <1>2 DEF TypeOK, Occupied, WrapAdd, WrapSub, Cursors
<1>4. popped + cdone \in 0 .. MaxItems /\ ~reclaimed
  BY <1>2, Distances DEF TypeOK, CursorInv, ConsumerInv
<1>5. TypeOK'
  BY <1>1, <1>3, <1>4 DEF TypeOK, sender
<1>6. CursorInv'
  BY <1>1, <1>2, <1>3, Distances DEF TypeOK, CursorInv, Occupied, sender
<1>7. ProducerInv' /\ ConsumerInv'
  BY <1>1, <1>4 DEF ProducerInv, ConsumerInv, sender
<1>8. FifoOnce'
  BY <1>1, <1>2 DEF FifoOnce, TypeOK
<1>9. ContentsInv'
  <2> SUFFICES ASSUME NEW k \in 0 .. Cap - 1, k < Occupied - cdone + pdone
               PROVE  slot[SlotOf(WrapAdd(head', k))] = popped + cdone + k
    BY <1>1, <1>3 DEF ContentsInv, Occupied, sender
  <2>1. WrapAdd(head', k) = WrapAdd(head, cdone + k)
    BY <1>1, <1>2, WrapAddTwice DEF TypeOK
  <2>2. cdone + k \in 0 .. Cap - 1 /\ cdone + k < Occupied + pdone
    BY <1>2, Distances DEF TypeOK, CursorInv, ProducerInv
  <2>3. slot[SlotOf(WrapAdd(head, cdone + k))] = popped + (cdone + k)
    BY <2>2 DEF ContentsInv
  <2>4. QED
    BY <1>2, <2>1, <2>3 DEF TypeOK
<1>10. QED
  BY <1>5, <1>6, <1>7, <1>8, <1>9

\* A finished ring is empty and unshared, so the reset loses nothing.
LEMMA RecycleInv == ASSUME RingInv, Recycle PROVE RingInv'
<1> USE WordFacts, BoundAssumption
<1> USE DEF RingInv
<1>1. /\ UNCHANGED <<slot, consumer_gone, pn, pdone, cpc, cn, cdone, callback,
                     reclaimed, history>>
      /\ head' = 0 /\ tail' = 0 /\ tail_cache' = 0 /\ head_cache' = 0
      /\ ppc' = "idle" /\ producer_gone' = FALSE /\ cpc = "idle" /\ ppc = "gone"
      /\ head = tail
  BY DEF Recycle, IsFinished
<1>2. Occupied = 0 /\ pushed = popped /\ pn = 0 /\ pdone = 0 /\ ~reclaimed
  BY <1>1 DEF TypeOK, CursorInv, ProducerInv, ConsumerInv, Occupied, WrapSub, Cursors
<1>3. TypeOK'
  <2>1. 0 \in Cursors
    BY DEF Cursors
  <2>2. QED
    BY <1>1, <2>1 DEF TypeOK, history
<1>4. CursorInv' /\ ProducerInv' /\ ConsumerInv'
  BY <1>1, <1>2 DEF CursorInv, ProducerInv, ConsumerInv, Occupied, WrapSub, history, TypeOK
<1>5. ContentsInv' /\ FifoOnce'
  BY <1>1, <1>2 DEF ContentsInv, FifoOnce, Occupied, WrapSub, history
<1>6. QED
  BY <1>3, <1>4, <1>5

\* Every step preserves the invariant.
LEMMA NextInv == RingInv /\ [Next]_vars => RingInv'
<1> SUFFICES ASSUME RingInv, [Next]_vars PROVE RingInv'
  OBVIOUS
<1>1. CASE TryPush \/ PushFrom
  BY <1>1, ReserveInv, BoundAssumption DEF TryPush, PushFrom
<1>2. CASE WriteSlot
  BY <1>2, WriteSlotInv
<1>3. CASE Publish
  BY <1>3, PublishInv
<1>4. CASE SenderDrop \/ SenderRelease \/ ReceiverDrop \/ ReceiverRelease \/ ReadNone
  BY <1>4, EndpointInv
<1>5. CASE TryPop \/ DrainInto \/ DrainInPlace \/ DrainPop
  <2>1. CASE TryPop
    <3>1. Take(1, "idle", "read") /\ callback' \in BOOLEAN
      BY <2>1 DEF TryPop
    <3>2. QED BY <3>1, TakeInv
  <2>2. CASE DrainInto \/ DrainInPlace
    <3>1. PICK max \in 1 .. MaxBatch : Take(max, "idle", "read") /\ callback' \in BOOLEAN
      BY <2>2 DEF DrainInto, DrainInPlace
    <3>2. QED BY <3>1, TakeInv, BoundAssumption
  <2>3. CASE DrainPop
    <3>1. Take(1, "drain", "drainread") /\ callback' \in BOOLEAN
      BY <2>3 DEF DrainPop
    <3>2. QED BY <3>1, TakeInv
  <2>4. QED BY <1>5, <2>1, <2>2, <2>3
<1>6. CASE ReadSlot
  BY <1>6, ReadSlotInv
<1>7. CASE Commit \/ CallbackPanics
  BY <1>7, ReleaseInv DEF Commit, CallbackPanics
<1>8. CASE Recycle
  BY <1>8, RecycleInv
<1>9. CASE InnerDropSlot
  BY <1>9, InnerDropSlotInv
<1>10. CASE InnerDropEnd
  BY <1>10, InnerDropEndInv
<1>11. CASE UNCHANGED vars
  BY <1>11 DEF vars, inner, sender, receiver, history, RingInv, TypeOK, CursorInv,
               ProducerInv, ConsumerInv, ContentsInv, FifoOnce, Occupied
<1>12. QED
  BY <1>1, <1>2, <1>3, <1>4, <1>5, <1>6, <1>7, <1>8, <1>9, <1>10, <1>11
     DEF Next, SenderNext, ReceiverNext, InnerNext, Over

\* The invariant holds in every reachable state.
LEMMA InvHolds == Spec => []RingInv
  BY InitInv, NextInv, PTL DEF Spec

\* Every variable of the ring keeps its type: cursors stay in a word, counts in
\* their bounds.
THEOREM TypeCorrect == Spec => []TypeOK
<1>1. RingInv => TypeOK
  BY DEF RingInv
<1>2. QED
  BY <1>1, InvHolds, PTL

\* No slot is written while it holds a published value.
THEOREM OwnershipCorrect == Spec => []SlotOwnership
<1>1. RingInv => SlotOwnership
  <2> SUFFICES ASSUME RingInv, ppc = "write", pdone < pn,
                      NEW k \in 0 .. Occupied - 1
               PROVE  SlotOf(WrapAdd(head, k)) # SlotOf(WrapAdd(tail, pdone))
    BY DEF SlotOwnership
  <2> USE WordFacts DEF RingInv
  <2>1. Occupied \in Nat /\ pdone \in Nat /\ Occupied + pdone < Cap
    BY Distances DEF TypeOK, CursorInv, ProducerInv
  <2>2. WrapAdd(tail, pdone) = WrapAdd(head, Occupied + pdone)
    BY <2>1, WrapSubType, WrapAddTwice DEF Occupied, TypeOK
  <2>3. QED
    BY <2>1, <2>2, SlotInjective DEF Slots, TypeOK
<1>2. QED
  BY <1>1, InvHolds, PTL

\* Values leave the ring in order and once each.
THEOREM FifoCorrect == Spec => []FifoOnce
<1>1. RingInv => FifoOnce
  BY DEF RingInv
<1>2. QED
  BY <1>1, InvHolds, PTL

\* A reclaimed ring has let go of every published value exactly once.
THEOREM NoLeak == Spec => []NothingLeaks
<1>1. RingInv => NothingLeaks
  BY BoundAssumption DEF RingInv, ConsumerInv, FifoOnce, NothingLeaks, Items
<1>2. QED
  BY <1>1, InvHolds, PTL

-----------------------------------------------------------------------------
(* The ring implements the FIFO queue of SpscQueue.  Under RingInv the     *)
(* slots from head to tail are the numbers from popped to pushed, so a     *)
(* step of the ring acts on the queue as it acts on these two counts.      *)

\* The flags follow the endpoints that set them.
FlagInv ==
  /\ producer_gone <=> ppc \in {"dropping", "gone"}
  /\ consumer_gone <=> cpc \in {"drain", "drainread", "gone"}

\* Both flags are set by the endpoint they speak of, and recycling clears the
\* producer's with the new producer.
LEMMA FlagHolds == Spec => []FlagInv
<1>1. Init => FlagInv
  BY DEF Init, FlagInv
<1>2. FlagInv /\ [Next]_vars => FlagInv'
  <2> SUFFICES ASSUME FlagInv, [Next]_vars PROVE FlagInv'
    OBVIOUS
  <2> USE DEF FlagInv
  <2>1. CASE TryPush \/ PushFrom
    BY <2>1 DEF TryPush, PushFrom, Reserve, inner, receiver
  <2>2. CASE WriteSlot \/ Publish \/ SenderDrop
    BY <2>2 DEF WriteSlot, Publish, SenderDrop, receiver
  <2>3. CASE SenderRelease
    BY <2>3 DEF SenderRelease, inner, receiver
  <2>4. CASE TryPop \/ DrainInto \/ DrainInPlace \/ DrainPop
    BY <2>4 DEF TryPop, DrainInto, DrainInPlace, DrainPop, Take, inner, sender
  <2>5. CASE ReadNone \/ ReceiverRelease
    BY <2>5 DEF ReadNone, ReceiverRelease, FindEmpty, inner, sender
  <2>6. CASE ReadSlot \/ InnerDropSlot \/ InnerDropEnd
    BY <2>6 DEF ReadSlot, InnerDropSlot, InnerDropEnd, inner, sender, receiver
  <2>7. CASE Commit \/ CallbackPanics
    BY <2>7 DEF Commit, CallbackPanics, Release, sender
  <2>8. CASE Recycle \/ ReceiverDrop
    BY <2>8 DEF Recycle, ReceiverDrop, sender
  <2>9. CASE UNCHANGED vars
    BY <2>9 DEF vars, inner, sender, receiver
  <2> QED
    BY <2>1, <2>2, <2>3, <2>4, <2>5, <2>6, <2>7, <2>8, <2>9
       DEF Next, SenderNext, ReceiverNext, InnerNext, Over
<1> QED
  BY <1>1, <1>2, PTL DEF Spec

\* The numbers from a up to and without b.
Numbers(a, b) == [k \in 1 .. b - a |-> a + k - 1]

\* What the refinement mapping of Queue reads off the slots.
Stored(h, n, f) == [k \in 1 .. n |-> f[SlotOf(WrapAdd(h, k - 1))]]

\* A run of n slots that holds the numbers from a on.
LEMMA StoredIs ==
  ASSUME NEW h, NEW f, NEW a \in Nat, NEW b \in Nat, NEW n \in Nat, n = b - a,
         \A k \in 0 .. n - 1 : f[SlotOf(WrapAdd(h, k))] = a + k
  PROVE  Stored(h, n, f) = Numbers(a, b)
<1>1. \A k \in 1 .. n : f[SlotOf(WrapAdd(h, k - 1))] = a + k - 1
  <2> SUFFICES ASSUME NEW k \in 1 .. n PROVE f[SlotOf(WrapAdd(h, k - 1))] = a + k - 1
    OBVIOUS
  <2>1. k - 1 \in 0 .. n - 1
    OBVIOUS
  <2>2. f[SlotOf(WrapAdd(h, k - 1))] = a + (k - 1)
    BY <2>1
  <2> QED
    BY <2>2
<1> QED
  BY <1>1 DEF Stored, Numbers

\* Appending the next numbers to a run of numbers.
LEMMA NumbersAppend ==
  ASSUME NEW a \in Nat, NEW b \in Nat, NEW n \in Nat, a <= b
  PROVE  Numbers(a, b + n) = Numbers(a, b) \o [j \in 1 .. n |-> b + j - 1]
<1> DEFINE s == Numbers(a, b)
           t == [j \in 1 .. n |-> b + j - 1]
           u == Numbers(a, b + n)
<1>1. /\ s \in Seq(Nat) /\ Len(s) = b - a /\ \A k \in 1 .. b - a : s[k] = a + k - 1
      /\ t \in Seq(Nat) /\ Len(t) = n /\ \A k \in 1 .. n : t[k] = b + k - 1
      /\ u \in Seq(Nat) /\ Len(u) = b + n - a /\ \A k \in 1 .. b + n - a : u[k] = a + k - 1
  BY DEF Numbers
<1> HIDE DEF s, t, u
<1> DEFINE l == b - a
           w == s \o t
<1>2. l \in Nat /\ b + n - a = l + n
  OBVIOUS
<1> HIDE DEF l
<1>3. /\ w \in Seq(Nat) /\ Len(w) = l + n
      /\ \A k \in 1 .. l + n : w[k] = IF k <= l THEN s[k] ELSE t[k - l]
  <2>1. s \in Seq(Nat) /\ t \in Seq(Nat) /\ Len(s) = l /\ Len(t) = n
    BY <1>1 DEF l
  <2>2. /\ s \o t \in Seq(Nat) /\ Len(s \o t) = Len(s) + Len(t)
        /\ \A k \in 1 .. Len(s) + Len(t) : (s \o t)[k] = IF k <= Len(s) THEN s[k] ELSE t[k - Len(s)]
    BY <2>1, ConcatProperties, Zenon
  <2> QED
    BY <2>1, <2>2
<1> HIDE DEF w
<1>4. ASSUME NEW k \in 1 .. l + n PROVE u[k] = w[k]
  <2>1. k \in Int /\ u[k] = a + k - 1
    BY <1>1, <1>2
  <2>2. CASE k <= l
    <3>1. k \in 1 .. l
      BY <2>2
    <3> QED
      BY <1>1, <1>3, <2>1, <2>2, <3>1 DEF l
  <2>3. CASE ~(k <= l)
    <3>1. k - l \in 1 .. n
      BY <1>2, <2>3
    <3>2. w[k] = t[k - l] /\ t[k - l] = b + (k - l) - 1
      BY <1>1, <1>3, <2>3, <3>1
    <3> QED
      BY <2>1, <3>2 DEF l
  <2> QED
    BY <2>2, <2>3
<1>5. u = w
  <2>1. u \in Seq(Nat) /\ w \in Seq(Nat) /\ Len(u) = l + n /\ Len(u) = Len(w)
    BY <1>1, <1>2, <1>3
  <2>2. \A k \in 1 .. Len(u) : u[k] = w[k]
    BY <1>4, <2>1
  <2> QED
    BY <2>1, <2>2, SeqEqual, Zenon
<1> QED
  BY <1>5 DEF s, t, u, w

\* Taking the first numbers off a run of numbers.
LEMMA NumbersTake ==
  ASSUME NEW a \in Nat, NEW b \in Nat, NEW n \in Nat, a + n <= b
  PROVE  Numbers(a + n, b) = SubSeq(Numbers(a, b), n + 1, Len(Numbers(a, b)))
<1> DEFINE s == Numbers(a, b)
           u == Numbers(a + n, b)
           v == SubSeq(s, n + 1, b - a)
<1>1. /\ s \in Seq(Nat) /\ Len(s) = b - a /\ \A k \in 1 .. b - a : s[k] = a + k - 1
      /\ u \in Seq(Nat) /\ Len(u) = b - a - n /\ \A k \in 1 .. b - a - n : u[k] = a + n + k - 1
  BY DEF Numbers
<1> HIDE DEF s, u
<1>2. v \in Seq(Nat) /\ Len(v) = b - a - n /\ \A k \in 1 .. b - a - n : v[k] = s[n + 1 + k - 1]
  <2>1. \A i \in n + 1 .. b - a : s[i] \in Nat
    BY <1>1, SMTT(30)
  <2>2. b - a \in Int /\ n + 1 \in Int
    OBVIOUS
  <2> QED
    BY <2>1, <2>2, SubSeqProperties
<1> HIDE DEF v
<1>3. ASSUME NEW k \in 1 .. b - a - n PROVE u[k] = v[k]
  BY <1>1, <1>2
<1>4. u = v
  <2>1. u \in Seq(Nat) /\ v \in Seq(Nat) /\ Len(u) = b - a - n /\ Len(u) = Len(v)
    BY <1>1, <1>2
  <2>2. \A k \in 1 .. Len(u) : u[k] = v[k]
    BY <1>3, <2>1
  <2> QED
    BY <2>1, <2>2, SeqEqual, Zenon
<1> QED
  BY <1>1, <1>4 DEF s, u, v

\* The queue the slots stand for.
QueueFacts ==
  /\ Stored(head, Occupied, slot) = Numbers(popped, pushed)
  /\ popped \in Nat /\ pushed \in Nat /\ popped <= pushed /\ pushed - popped <= Cap

\* It holds the numbers from popped to pushed.
LEMMA QueueIs == RingInv => QueueFacts
<1> SUFFICES ASSUME RingInv PROVE QueueFacts
  OBVIOUS
<1>1. /\ popped \in Nat /\ pushed \in Nat /\ Occupied \in Nat /\ pdone \in Nat
      /\ Occupied = pushed - popped /\ Occupied <= Cap
  BY WordFacts, BoundAssumption, Distances DEF RingInv, TypeOK, CursorInv
<1>2. \A k \in 0 .. Occupied - 1 : slot[SlotOf(WrapAdd(head, k))] = popped + k
  BY <1>1, WordFacts DEF RingInv, ContentsInv
<1>3. Stored(head, Occupied, slot) = Numbers(popped, pushed)
  BY <1>1, <1>2, StoredIs
<1> QED
  BY <1>1, <1>3 DEF QueueFacts

\* The same in the next state.
LEMMA QueueNextIs == RingInv' => QueueFacts'
  BY QueueIs, PTL

\* The values of the queue that a step leaves alone.
LEMMA QueueStutters ==
  ASSUME RingInv, RingInv', UNCHANGED <<pushed, popped, producer_gone, consumer_gone>>
  PROVE  UNCHANGED Queue!qvars
<1>1. Stored(head', Occupied', slot') = Stored(head, Occupied, slot)
  BY QueueIs, QueueNextIs DEF QueueFacts
<1> QED
  BY <1>1 DEF Queue!qvars, Stored

\* A publication is one Enqueue.
LEMMA PublishEnqueues ==
  ASSUME RingInv, RingInv', FlagInv, Publish
  PROVE  [Queue!QNext]_(Queue!qvars)
<1>1. /\ UNCHANGED <<popped, producer_gone, consumer_gone>> /\ pushed' = pushed + pn
      /\ ~producer_gone /\ pn \in Nat
  BY DEF Publish, FlagInv, RingInv, TypeOK
<1>2. CASE pn = 0
  <2>1. pushed' = pushed
    BY <1>1, <1>2, QueueIs DEF QueueFacts
  <2> QED
    BY <1>1, <2>1, QueueStutters
<1>3. CASE pn # 0
  <2> DEFINE s == Stored(head, Occupied, slot)
             t == Stored(head', Occupied', slot')
  <2>1. /\ s = Numbers(popped, pushed) /\ t = Numbers(popped, pushed + pn)
        /\ pushed \in Nat /\ popped \in Nat /\ popped <= pushed /\ pushed + pn - popped <= Cap
    BY <1>1, QueueIs, QueueNextIs DEF QueueFacts
  <2>2. Len(s) = pushed - popped
    BY <2>1 DEF Numbers
  <2>3. t = s \o [j \in 1 .. pn |-> pushed + j - 1]
    BY <1>1, <2>1, NumbersAppend, ZenonT(60)
  <2>4. pn \in 1 .. Cap - Len(s)
    BY <1>1, <1>3, <2>1, <2>2, WordFacts
  <2> HIDE DEF s, t
  <2>5. \E n \in 1 .. Cap - Len(s) : t = s \o [j \in 1 .. n |-> pushed + j - 1] /\ pushed' = pushed + n
    BY <1>1, <2>3, <2>4
  <2>6. Queue!Enqueue
    BY <1>1, <2>5 DEF Queue!Enqueue, s, t, Stored
  <2> QED
    BY <2>6 DEF Queue!QNext
<1> QED
  BY <1>2, <1>3

\* A release store is one Dequeue of what was moved out.
LEMMA ReleaseDequeues ==
  ASSUME RingInv, RingInv', Release
  PROVE  [Queue!QNext]_(Queue!qvars)
<1>1. /\ UNCHANGED <<pushed, producer_gone, consumer_gone>> /\ popped' = popped + cdone
      /\ cdone \in Nat
  BY DEF Release, RingInv, TypeOK
<1>2. CASE cdone = 0
  <2>1. popped' = popped
    BY <1>1, <1>2, QueueIs DEF QueueFacts
  <2> QED
    BY <1>1, <2>1, QueueStutters
<1>3. CASE cdone # 0
  <2> DEFINE s == Stored(head, Occupied, slot)
             t == Stored(head', Occupied', slot')
  <2>1. /\ s = Numbers(popped, pushed) /\ t = Numbers(popped + cdone, pushed)
        /\ pushed \in Nat /\ popped \in Nat /\ popped + cdone <= pushed /\ popped <= pushed
    BY <1>1, QueueIs, QueueNextIs DEF QueueFacts
  <2>2. Len(s) = pushed - popped
    BY <2>1 DEF Numbers
  <2>3. t = SubSeq(s, cdone + 1, Len(s))
    BY <1>1, <2>1, NumbersTake, ZenonT(60)
  <2>4. cdone \in 1 .. Len(s)
    BY <1>1, <1>3, <2>1, <2>2
  <2> HIDE DEF s, t
  <2>5. \E n \in 1 .. Len(s) : t = SubSeq(s, n + 1, Len(s)) /\ popped' = popped + n
    BY <1>1, <2>3, <2>4
  <2>6. Queue!Dequeue
    BY <1>1, <2>5 DEF Queue!Dequeue, s, t, Stored
  <2> QED
    BY <2>6 DEF Queue!QNext
<1> QED
  BY <1>2, <1>3

\* The ends of the queue close when the flags are stored, and the sending end
\* opens again when an empty ring is recycled.
LEMMA FlagsClose ==
  ASSUME RingInv, RingInv', FlagInv, SenderDrop \/ ReceiverDrop \/ Recycle
  PROVE  Queue!QNext
<1>1. pushed' = pushed /\ popped' = popped
  BY DEF SenderDrop, ReceiverDrop, Recycle, history
<1>2. Stored(head', Occupied', slot') = Stored(head, Occupied, slot)
  BY <1>1, QueueIs, QueueNextIs DEF QueueFacts
<1>3. CASE SenderDrop
  <2>1. ~producer_gone /\ producer_gone' /\ consumer_gone' = consumer_gone
    BY <1>3 DEF SenderDrop, FlagInv
  <2>2. Queue!CloseTx
    BY <1>1, <1>2, <2>1 DEF Queue!CloseTx, Stored
  <2> QED
    BY <2>2 DEF Queue!QNext
<1>4. CASE ReceiverDrop
  <2>1. ~consumer_gone /\ consumer_gone' /\ producer_gone' = producer_gone
    BY <1>4 DEF ReceiverDrop, FlagInv
  <2>2. Queue!CloseRx
    BY <1>1, <1>2, <2>1 DEF Queue!CloseRx, Stored
  <2> QED
    BY <2>2 DEF Queue!QNext
<1>5. CASE Recycle
  <2>1. producer_gone /\ ~producer_gone' /\ ~consumer_gone /\ consumer_gone' = consumer_gone /\ head = tail
    BY <1>5 DEF Recycle, IsFinished, FlagInv
  <2>2. Occupied = 0
    BY <2>1 DEF Occupied, WrapSub, RingInv, TypeOK, Cursors
  <2>3. Stored(head, Occupied, slot) = <<>>
    BY <2>2 DEF Stored
  <2>4. Queue!Reopen
    BY <1>1, <1>2, <2>1, <2>3 DEF Queue!Reopen, Stored
  <2> QED
    BY <2>4 DEF Queue!QNext
<1> QED
  BY <1>3, <1>4, <1>5

\* Every step of the ring is a step of the queue or leaves it alone.
LEMMA StepSimulates ==
  RingInv /\ RingInv' /\ FlagInv /\ [Next]_vars => [Queue!QNext]_(Queue!qvars)
<1> SUFFICES ASSUME RingInv, RingInv', FlagInv, [Next]_vars
             PROVE  [Queue!QNext]_(Queue!qvars)
  OBVIOUS
<1>1. CASE Publish
  BY <1>1, PublishEnqueues
<1>2. CASE Commit \/ CallbackPanics
  BY <1>2, ReleaseDequeues DEF Commit, CallbackPanics
<1>3. CASE SenderDrop \/ ReceiverDrop \/ Recycle
  BY <1>3, FlagsClose
<1>4. CASE UNCHANGED <<pushed, popped, producer_gone, consumer_gone>>
  BY <1>4, QueueStutters
<1>5. TryPush \/ PushFrom \/ WriteSlot \/ SenderRelease => UNCHANGED <<pushed, popped, producer_gone, consumer_gone>>
  BY DEF TryPush, PushFrom, Reserve, WriteSlot, SenderRelease, inner, history
<1>6. TryPop \/ DrainInto \/ DrainInPlace \/ DrainPop => UNCHANGED <<pushed, popped, producer_gone, consumer_gone>>
  BY DEF TryPop, DrainInto, DrainInPlace, DrainPop, Take, inner, history
<1>7. ReadNone \/ ReadSlot \/ ReceiverRelease => UNCHANGED <<pushed, popped, producer_gone, consumer_gone>>
  BY DEF ReadNone, ReadSlot, ReceiverRelease, inner, history
<1>8. InnerDropSlot \/ InnerDropEnd \/ UNCHANGED vars => UNCHANGED <<pushed, popped, producer_gone, consumer_gone>>
  BY DEF InnerDropSlot, InnerDropEnd, vars, inner, history
<1> QED
  BY <1>1, <1>2, <1>3, <1>4, <1>5, <1>6, <1>7, <1>8
     DEF Next, SenderNext, ReceiverNext, InnerNext, Over

\* The ring implements the queue every engine of the crate relies on: through
\* any interleaving of slot accesses and cursor stores of the two endpoints,
\* with panics, recycling and teardown, its contents change only by whole
\* batches appended in order and prefixes taken.
THEOREM RefinementCorrect == Spec => ImplementsQueue
<1>1. Init => Queue!QInit
  <2> SUFFICES ASSUME Init PROVE Queue!QInit
    OBVIOUS
  <2>1. Occupied = 0
    BY DEF Init, Occupied, WrapSub
  <2>2. Stored(head, Occupied, slot) = <<>>
    BY <2>1 DEF Stored
  <2> QED
    BY <2>2 DEF Queue!QInit, Stored, Init
<1> QED
  BY <1>1, InvHolds, FlagHolds, StepSimulates, PTL DEF Spec, ImplementsQueue, Queue!QSpec
=============================================================================
