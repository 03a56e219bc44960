-------------------------- MODULE BroadcastProofs ---------------------------
(***************************************************************************)
(* Proofs about Broadcast, for every capacity, every number of readers and *)
(* every bound.                                                            *)
(***************************************************************************)
EXTENDS Broadcast, TLAPS, FiniteSetTheorems

\* Positions less than a ring apart fall on different slots.
LEMMA SlotsApart ==
  ASSUME NEW a \in Nat, NEW b \in Nat, b < a, a - b < Cap
  PROVE  SlotOf(a) # SlotOf(b)
<1> DEFINE x == a \div Cap
           y == b \div Cap
<1>1. a = x * Cap + (a % Cap) /\ x \in Int /\ a % Cap \in 0 .. Cap - 1
  BY CapAssumption, SMT
<1>2. b = y * Cap + (b % Cap) /\ y \in Int /\ b % Cap \in 0 .. Cap - 1
  BY CapAssumption, SMT
<1> HIDE DEF x, y
<1>3. SUFFICES ASSUME a % Cap = b % Cap PROVE FALSE
  BY DEF SlotOf
<1>4. a - b = (x - y) * Cap
  <2>1. a - b = x * Cap - y * Cap
    BY <1>1, <1>2, <1>3, CapAssumption
  <2>2. QED
    BY <2>1, <1>1, <1>2, CapAssumption, SMT
<1>5. CASE x - y >= 1
  BY <1>1, <1>2, <1>4, <1>5, CapAssumption, SMT
<1>6. CASE x - y <= 0
  BY <1>1, <1>2, <1>4, <1>6, CapAssumption, SMT
<1>7. QED
  BY <1>1, <1>2, <1>5, <1>6

\* A position names a slot.
LEMMA SlotType == ASSUME NEW s \in Nat PROVE SlotOf(s) \in 0 .. Cap - 1
  BY CapAssumption, SMT DEF SlotOf

-----------------------------------------------------------------------------
(* The inductive invariant.  The cached minimum is never above the cursor  *)
(* of a gating reader, nor above what an activating reader is about to     *)
(* store, and the publisher never runs more than a ring ahead of it.       *)

Reading == {"idle", "clone"}

\* Who holds the lock, and which readers gate the publisher.
LockInv ==
  /\ lock = Scanner <=> ppc = "scan"
  /\ \A b \in Bits : rpc[b] = "activate" <=> lock = b
  /\ \A b \in Bits : rpc[b] \in Reading <=> b \in readers
  /\ \A b \in Bits : rpc[b] = "free" <=> b \notin owned

\* The publisher's window above the cached minimum.
WindowInv ==
  /\ min_cache <= w /\ w <= pw /\ pw - min_cache <= Cap
  /\ ppc = "write" => pw - min_cache < Cap
  /\ ppc \in {"lock", "scan", "idle", "gone"} => w = pw
  /\ ppc \in {"gate", "lock", "scan", "write"} => pw < MaxSeq

\* A reader between the cached minimum and the published position.
ReaderOK(b) ==
  /\ rpc[b] \in Reading => min_cache <= cursor[b] /\ cursor[b] <= r[b] /\ r[b] <= w
  /\ rpc[b] = "idle" => cursor[b] = r[b]
  /\ rpc[b] = "clone" => r[b] + rn[b] <= w
  /\ rpc[b] = "activate" => min_cache <= r[b] /\ r[b] <= w
  /\ rpc[b] \in Reading \cup {"activate"} => last[b] = r[b] - 1

ReaderInv == \A b \in Bits : ReaderOK(b)

\* A scan so far: what it has read bounds the gating readers from below.
ScanInv ==
  ppc = "scan" =>
    /\ min_cache <= smin /\ smin <= pw
    /\ \A b \in todo : min_cache <= cursor[b]
    /\ \A b \in readers : b \in todo \/ smin <= cursor[b]

\* The last Cap values written are in their slots.
ContentInv == \A s \in 0 .. MaxSeq : s < pw /\ pw - s <= Cap => slot[SlotOf(s)] = s

IInv == TypeOK /\ LockInv /\ WindowInv /\ ReaderInv /\ ScanInv /\ ContentInv

\* The initial state satisfies the invariant.
LEMMA InvInit == Init => IInv
<1> SUFFICES ASSUME Init PROVE IInv
  OBVIOUS
<1> USE CapAssumption, NAssumption, BoundAssumption DEF Init, Bits
<1>1. TypeOK
  <2>1. /\ slot \in [0 .. Cap - 1 -> Seqs \cup {Uninit}]
        /\ dropped \in [Seqs \cup {Uninit} -> Nat]
    OBVIOUS
  <2>2. /\ readers \in SUBSET Bits /\ owned \in SUBSET Bits /\ todo \in SUBSET Bits
        /\ lock \in Bits \cup {NoOne, Scanner}
    OBVIOUS
  <2>3. /\ cursor \in [Bits -> 0 .. MaxSeq] /\ r \in [Bits -> 0 .. MaxSeq]
        /\ rn \in [Bits -> 0 .. MaxSeq] /\ last \in [Bits -> -1 .. MaxSeq]
    OBVIOUS
  <2>4. rpc \in [Bits -> {"free", "join", "activate", "idle", "clone", "suspended", "leave"}]
    OBVIOUS
  <2>5. w \in 0 .. MaxSeq /\ pw \in 0 .. MaxSeq /\ min_cache \in 0 .. MaxSeq
    OBVIOUS
  <2>6. smin \in 0 .. MaxSeq /\ joins \in 0 .. MaxJoins
    OBVIOUS
  <2>7. QED
    BY <2>1, <2>2, <2>3, <2>4, <2>5, <2>6 DEF TypeOK
<1>2. LockInv
  BY DEF LockInv, NoOne, Scanner, Reading
<1>3. WindowInv /\ ScanInv /\ ContentInv
  BY DEF WindowInv, ScanInv, ContentInv
<1>4. ReaderInv
  BY DEF ReaderInv, ReaderOK, Reading
<1>5. QED
  BY <1>1, <1>2, <1>3, <1>4 DEF IInv

-----------------------------------------------------------------------------
(* Every action preserves the invariant.                                   *)

\* A send begins below the bound.
LEMMA BeginSendStep == ASSUME IInv, BeginSend PROVE IInv'
<1> USE CapAssumption, NAssumption, BoundAssumption
    DEF IInv, BeginSend, shared, publisher, reader, history, Bits, NoOne, Scanner, Reading
<1>1. TypeOK'
  BY DEF TypeOK
<1>2. LockInv'
  BY DEF LockInv
<1>3. WindowInv'
  BY DEF WindowInv
<1>4. ReaderInv'
  BY DEF ReaderInv, ReaderOK
<1>5. ScanInv'
  BY DEF ScanInv
<1>6. ContentInv'
  BY DEF ContentInv
<1>7. QED
  BY <1>1, <1>2, <1>3, <1>4, <1>5, <1>6

\* A full window publishes the prefix of a batch before the publisher waits.
LEMMA GateStep == ASSUME IInv, Gate PROVE IInv'
<1> USE CapAssumption, NAssumption, BoundAssumption
    DEF IInv, Gate, shared, publisher, reader, history, Bits, NoOne, Scanner, Reading
<1>1. TypeOK'
  BY DEF TypeOK
<1>2. LockInv'
  BY DEF LockInv
<1>3. WindowInv'
  BY DEF WindowInv, TypeOK, Full
<1>4. ReaderInv'
  <2>1. w <= w' /\ w \in Nat /\ w' \in Nat
    BY DEF WindowInv, TypeOK
  <2>2. UNCHANGED <<min_cache, cursor, rpc, r, rn, last>>
    OBVIOUS
  <2>3. ASSUME NEW c \in Bits PROVE ReaderOK(c)'
    <3>1. ReaderOK(c) /\ r[c] \in Nat /\ rn[c] \in Nat
      BY DEF ReaderInv, TypeOK
    <3> HIDE DEF IInv, Gate
    <3>2. QED
      BY <2>1, <2>2, <3>1 DEF ReaderOK
  <2>4. QED
    BY <2>3 DEF ReaderInv
<1>5. ScanInv'
  BY DEF ScanInv
<1>6. ContentInv'
  BY DEF ContentInv
<1>7. QED
  BY <1>1, <1>2, <1>3, <1>4, <1>5, <1>6

\* The gating scan starts with every gating reader still to be read.
LEMMA ScanBeginStep == ASSUME IInv, ScanBegin PROVE IInv'
<1> USE CapAssumption, NAssumption, BoundAssumption
    DEF IInv, ScanBegin, shared, publisher, reader, history, Bits, NoOne, Scanner, Reading
<1>1. TypeOK'
  BY DEF TypeOK
<1>2. LockInv'
  BY DEF LockInv
<1>3. WindowInv'
  BY DEF WindowInv
<1>4. ReaderInv'
  BY DEF ReaderInv, ReaderOK
<1>5. ScanInv'
  BY DEF ScanInv, ReaderInv, ReaderOK, LockInv, WindowInv, TypeOK
<1>6. ContentInv'
  BY DEF ContentInv
<1>7. QED
  BY <1>1, <1>2, <1>3, <1>4, <1>5, <1>6

\* The scan's running minimum stays below every cursor it has read.
LEMMA ScanCursorStep == ASSUME NEW b \in Bits, IInv, ScanCursor(b) PROVE IInv'
<1> USE CapAssumption, NAssumption, BoundAssumption
    DEF IInv, ScanCursor, shared, publisher, reader, history, Bits, NoOne, Scanner, Reading
<1>1. TypeOK'
  BY DEF TypeOK, Smaller
<1>2. LockInv'
  BY DEF LockInv
<1>3. WindowInv'
  BY DEF WindowInv
<1>4. ReaderInv'
  BY DEF ReaderInv, ReaderOK
<1>5. ScanInv'
  <2>1. b \in todo /\ todo' = todo \ {b} /\ UNCHANGED <<ppc, min_cache, pw, readers, cursor>>
    OBVIOUS
  <2>2. /\ smin \in Nat /\ pw \in Nat /\ min_cache \in Nat
        /\ todo \subseteq Bits /\ readers \subseteq Bits /\ \A c \in Bits : cursor[c] \in Nat
    BY SMTT(30) DEF TypeOK
  <2>3. smin' <= smin /\ smin' <= cursor[b] /\ smin' \in {smin, cursor[b]}
    BY <2>2 DEF Smaller
  <2>4. ScanInv /\ ppc = "scan"
    OBVIOUS
  <2> HIDE DEF IInv, ScanCursor
  <2>5. min_cache <= smin' /\ smin' <= pw
    BY <2>1, <2>2, <2>3, <2>4 DEF ScanInv
  <2>6. \A c \in readers : c \in todo' \/ smin' <= cursor[c]
    BY <2>1, <2>2, <2>3, <2>4 DEF ScanInv
  <2>7. QED
    BY <2>1, <2>4, <2>5, <2>6 DEF ScanInv
<1>6. ContentInv'
  BY DEF ContentInv
<1>7. QED
  BY <1>1, <1>2, <1>3, <1>4, <1>5, <1>6

\* The scan's result becomes the cached minimum.
LEMMA ScanEndStep == ASSUME IInv, ScanEnd PROVE IInv'
<1> USE CapAssumption, NAssumption, BoundAssumption
    DEF IInv, ScanEnd, shared, publisher, reader, history, Bits, NoOne, Scanner, Reading
<1>1. TypeOK'
  BY DEF TypeOK
<1>2. LockInv'
  BY DEF LockInv
<1>3. WindowInv'
  BY DEF WindowInv, ScanInv, TypeOK
<1>4. ReaderInv'
  BY DEF ReaderInv, ReaderOK, ScanInv, LockInv, TypeOK
<1>5. ScanInv'
  BY DEF ScanInv
<1>6. ContentInv'
  BY DEF ContentInv
<1>7. QED
  BY <1>1, <1>2, <1>3, <1>4, <1>5, <1>6

\* A write replaces the one value that left the window.
LEMMA WriteSlotStep == ASSUME IInv, WriteSlot PROVE IInv'
<1> USE CapAssumption, NAssumption, BoundAssumption
    DEF IInv, WriteSlot, shared, publisher, reader, history, Bits, NoOne, Scanner, Reading
<1>1. TypeOK'
  <2>1. pw \in Nat /\ pw \in Seqs
    BY DEF TypeOK, WindowInv, Seqs
  <2>2. SlotOf(pw) \in 0 .. Cap - 1
    BY <2>1, SlotType
  <2>3. slot[SlotOf(pw)] \in Seqs \cup {Uninit}
    BY <2>2 DEF TypeOK
  <2>4. slot' \in [0 .. Cap - 1 -> Seqs \cup {Uninit}]
    BY <2>1, <2>2 DEF TypeOK
  <2>5. dropped' \in [Seqs \cup {Uninit} -> Nat]
    BY <2>3, SMTT(30) DEF TypeOK
  <2>6. pw' \in 0 .. MaxSeq
    BY DEF TypeOK, WindowInv
  <2>7. QED
    BY <2>4, <2>5, <2>6 DEF TypeOK
<1>2. LockInv'
  BY DEF LockInv
<1>3. WindowInv'
  BY DEF WindowInv, TypeOK
<1>4. ReaderInv'
  BY DEF ReaderInv, ReaderOK
<1>5. ScanInv'
  BY DEF ScanInv
<1>6. ContentInv'
  <2>1. SUFFICES ASSUME NEW s \in 0 .. MaxSeq, s < pw', pw' - s <= Cap
                 PROVE  slot'[SlotOf(s)] = s
    <3> HIDE DEF IInv, WriteSlot
    <3>1. QED
      BY DEF ContentInv, SlotOf
  <2>2. pw \in Nat /\ SlotOf(pw) \in 0 .. Cap - 1 /\ slot \in [0 .. Cap - 1 -> Seqs \cup {Uninit}]
    <3>1. pw \in Nat /\ slot \in [0 .. Cap - 1 -> Seqs \cup {Uninit}]
      BY DEF TypeOK
    <3>2. QED
      BY <3>1, SlotType
  <2>3. CASE s = pw
    BY <2>2, <2>3
  <2>4. CASE s < pw
    <3>1. slot[SlotOf(s)] = s
      BY <2>1, <2>2, <2>4 DEF ContentInv
    <3>2. SlotOf(pw) # SlotOf(s) /\ SlotOf(s) \in 0 .. Cap - 1
      BY <2>1, <2>2, <2>4, SlotsApart, SlotType
    <3>3. QED
      BY <2>2, <3>1, <3>2
  <2>5. QED
    BY <2>1, <2>2, <2>3, <2>4
<1>7. QED
  BY <1>1, <1>2, <1>3, <1>4, <1>5, <1>6

\* A batch goes on or ends.
LEMMA NextOfBatchStep == ASSUME IInv, NextOfBatch PROVE IInv'
<1> USE CapAssumption, NAssumption, BoundAssumption
    DEF IInv, NextOfBatch, shared, publisher, reader, history, Bits, NoOne, Scanner, Reading
<1>1. TypeOK'
  BY DEF TypeOK
<1>2. LockInv'
  BY DEF LockInv
<1>3. WindowInv'
  BY DEF WindowInv
<1>4. ReaderInv'
  BY DEF ReaderInv, ReaderOK
<1>5. ScanInv'
  BY DEF ScanInv
<1>6. ContentInv'
  BY DEF ContentInv
<1>7. QED
  BY <1>1, <1>2, <1>3, <1>4, <1>5, <1>6

\* Publication moves w up to the publisher's own position.
LEMMA PublishStep == ASSUME IInv, Publish PROVE IInv'
<1> USE CapAssumption, NAssumption, BoundAssumption
    DEF IInv, Publish, shared, publisher, reader, history, Bits, NoOne, Scanner, Reading
<1>1. TypeOK'
  BY DEF TypeOK
<1>2. LockInv'
  BY DEF LockInv
<1>3. WindowInv'
  BY DEF WindowInv, TypeOK
<1>4. ReaderInv'
  <2>1. w <= w' /\ w \in Nat /\ w' \in Nat
    BY DEF WindowInv, TypeOK
  <2>2. UNCHANGED <<min_cache, cursor, rpc, r, rn, last>>
    OBVIOUS
  <2>3. ASSUME NEW c \in Bits PROVE ReaderOK(c)'
    <3>1. ReaderOK(c) /\ r[c] \in Nat /\ rn[c] \in Nat
      BY DEF ReaderInv, TypeOK
    <3> HIDE DEF IInv, Publish
    <3>2. QED
      BY <2>1, <2>2, <3>1 DEF ReaderOK
  <2>4. QED
    BY <2>3 DEF ReaderInv
<1>5. ScanInv'
  BY DEF ScanInv
<1>6. ContentInv'
  BY DEF ContentInv
<1>7. QED
  BY <1>1, <1>2, <1>3, <1>4, <1>5, <1>6

\* The publisher leaves between sends.
LEMMA PublisherDropStep == ASSUME IInv, PublisherDrop PROVE IInv'
<1> USE CapAssumption, NAssumption, BoundAssumption
    DEF IInv, PublisherDrop, shared, publisher, reader, history, Bits, NoOne, Scanner, Reading
<1>1. TypeOK'
  BY DEF TypeOK
<1>2. LockInv'
  BY DEF LockInv
<1>3. WindowInv'
  BY DEF WindowInv
<1>4. ReaderInv'
  BY DEF ReaderInv, ReaderOK
<1>5. ScanInv'
  BY DEF ScanInv
<1>6. ContentInv'
  BY DEF ContentInv
<1>7. QED
  BY <1>1, <1>2, <1>3, <1>4, <1>5, <1>6

\* Under the lock, the published position is at least the cached minimum.
LEMMA ActivateBeginStep == ASSUME NEW b \in Bits, IInv, ActivateBegin(b) PROVE IInv'
<1> USE CapAssumption, NAssumption, BoundAssumption
    DEF IInv, ActivateBegin, shared, publisher, reader, history, Bits, NoOne, Scanner, Reading
<1>1. TypeOK'
  <2>1. w \in 0 .. MaxSeq /\ w - 1 \in -1 .. MaxSeq
    BY DEF TypeOK
  <2>2. r' \in [Bits -> 0 .. MaxSeq] /\ last' \in [Bits -> -1 .. MaxSeq]
    BY <2>1 DEF TypeOK
  <2>3. QED
    BY <2>2 DEF TypeOK
<1>2. LockInv'
  BY SMTT(30) DEF LockInv, TypeOK
<1>3. WindowInv'
  BY DEF WindowInv
<1>4. ReaderInv'
  BY SMTT(30) DEF ReaderInv, ReaderOK, WindowInv, LockInv, TypeOK
<1>5. ScanInv'
  BY DEF ScanInv
<1>6. ContentInv'
  BY DEF ContentInv
<1>7. QED
  BY <1>1, <1>2, <1>3, <1>4, <1>5, <1>6

\* The reader starts to gate at a position no scan can have passed.
LEMMA ActivateEndStep == ASSUME NEW b \in Bits, IInv, ActivateEnd(b) PROVE IInv'
<1> USE CapAssumption, NAssumption, BoundAssumption
    DEF IInv, ActivateEnd, shared, publisher, reader, history, Bits, NoOne, Scanner, Reading
<1>1. TypeOK'
  BY DEF TypeOK
<1>2. LockInv'
  BY SMTT(30) DEF LockInv, TypeOK
<1>3. WindowInv'
  BY DEF WindowInv
<1>4. ReaderInv'
  <2>1. ASSUME NEW c \in Bits PROVE ReaderOK(c)'
    <3>1. ReaderOK(c)
      BY DEF ReaderInv
    <3>2. CASE c = b
      BY <3>1, <3>2 DEF ReaderOK, TypeOK
    <3>3. CASE c # b
      BY <3>1, <3>3 DEF ReaderOK, TypeOK
    <3>4. QED
      BY <3>2, <3>3
  <2>2. QED
    BY <2>1 DEF ReaderInv
<1>5. ScanInv'
  BY DEF ScanInv, LockInv, TypeOK
<1>6. ContentInv'
  BY DEF ContentInv
<1>7. QED
  BY <1>1, <1>2, <1>3, <1>4, <1>5, <1>6

\* A reader is at most a ring behind the publisher.
LEMMA Behind ==
  ASSUME IInv, NEW b \in Bits, rpc[b] \in Reading
  PROVE  /\ w \in Nat /\ r[b] \in Nat /\ r[b] <= w /\ min_cache <= r[b]
         /\ min_cache \in Nat /\ w - r[b] <= Cap
<1>1. /\ w \in Nat /\ r[b] \in Nat /\ cursor[b] \in Nat /\ min_cache \in Nat /\ pw \in Nat /\ Cap \in Nat
  BY CapAssumption, BoundAssumption DEF IInv, TypeOK
<1>2. min_cache <= cursor[b] /\ cursor[b] <= r[b] /\ r[b] <= w
  BY DEF IInv, ReaderInv, ReaderOK
<1>3. w <= pw /\ pw - min_cache <= Cap
  BY DEF IInv, WindowInv
<1> QED
  BY <1>1, <1>2, <1>3

\* A reader never finds itself lapped and reads no further than w.
LEMMA StartReadStep == ASSUME NEW b \in Bits, NEW max \in {1, Cap}, IInv, StartRead(b, max) PROVE IInv'
<1>0. rpc[b] \in Reading
  BY DEF StartRead, Reading
<1>b. IInv
  OBVIOUS
<1> USE CapAssumption, NAssumption, BoundAssumption
    DEF IInv, StartRead, shared, publisher, reader, history, Bits, NoOne, Scanner, Reading
<1>1. TypeOK'
  <2>1. w \in 0 .. MaxSeq /\ r[b] \in 0 .. MaxSeq /\ r[b] <= w
    BY DEF TypeOK, ReaderInv, ReaderOK
  <2>2. CASE w - r[b] > Cap
    BY <2>1, <2>2, ZenonT(60) DEF TypeOK
  <2>3. CASE ~(w - r[b] > Cap)
    <3>1. Smaller(w - r[b], max) \in 0 .. MaxSeq
      BY <2>1 DEF Smaller
    <3>2. rn' \in [Bits -> 0 .. MaxSeq]
      BY <2>3, <3>1 DEF TypeOK
    <3>3. QED
      BY <2>3, <3>2 DEF TypeOK
  <2>4. QED
    BY <2>2, <2>3
<1>2. LockInv'
  BY DEF LockInv, TypeOK
<1>3. WindowInv'
  BY DEF WindowInv
<1>4. ReaderInv'
  <2>1. /\ w \in Nat /\ r[b] \in Nat /\ r[b] <= w /\ min_cache <= r[b]
        /\ min_cache \in Nat /\ w - r[b] <= Cap
    BY <1>0, <1>b, Behind
  <2>2. Smaller(w - r[b], max) \in Nat /\ r[b] + Smaller(w - r[b], max) <= w
    BY <2>1 DEF Smaller
  <2>3. /\ rn' = [rn EXCEPT ![b] = Smaller(w - r[b], max)]
        /\ rpc' = [rpc EXCEPT ![b] = "clone"] /\ rpc[b] = "idle"
        /\ UNCHANGED <<r, cursor, w, min_cache, last>>
    BY <2>1
  <2>4. ASSUME NEW c \in Bits PROVE ReaderOK(c)'
    <3>1. ReaderOK(c) /\ rn \in [Bits -> 0 .. MaxSeq] /\ DOMAIN rpc = Bits
      BY DEF ReaderInv, TypeOK
    <3>2. ReaderOK(b)
      BY DEF ReaderInv
    <3> HIDE DEF IInv, StartRead
    <3>3. CASE c = b
      BY <2>1, <2>2, <2>3, <3>1, <3>2, <3>3 DEF ReaderOK
    <3>4. CASE c # b
      BY <2>3, <3>1, <3>4 DEF ReaderOK
    <3>5. QED
      BY <3>3, <3>4
  <2>5. QED
    BY <2>4 DEF ReaderInv
<1>5. ScanInv'
  <2>1. w - r[b] <= Cap
    BY <1>0, <1>b, Behind
  <2>2. UNCHANGED <<cursor, ppc, min_cache, smin, pw, todo, readers>>
    BY <2>1, SMTT(30) DEF TypeOK
  <2>3. QED
    BY <2>2 DEF ScanInv
<1>6. ContentInv'
  BY DEF ContentInv
<1>7. QED
  BY <1>1, <1>2, <1>3, <1>4, <1>5, <1>6

\* The slot a reader clones holds the value of its position.
LEMMA CloneSlotStep == ASSUME NEW b \in Bits, IInv, CloneSlot(b) PROVE IInv'
<1> USE CapAssumption, NAssumption, BoundAssumption
    DEF IInv, CloneSlot, shared, publisher, reader, history, Bits, NoOne, Scanner, Reading
<1>1. TypeOK'
  <2>1. r[b] \in 0 .. MaxSeq /\ rn[b] \in 0 .. MaxSeq /\ r[b] + rn[b] <= w /\ w \in 0 .. MaxSeq
    BY DEF TypeOK, ReaderInv, ReaderOK
  <2>2. SlotOf(r[b]) \in 0 .. Cap - 1
    <3>1. r[b] \in Nat
      BY <2>1
    <3>2. QED
      BY <3>1, SlotType
  <2>3. slot[SlotOf(r[b])] \in -1 .. MaxSeq
    <3>1. slot[SlotOf(r[b])] \in Seqs \cup {Uninit}
      BY <2>2 DEF TypeOK
    <3>2. QED
      BY <3>1 DEF Seqs, Uninit
  <2>4. r[b] + 1 \in 0 .. MaxSeq /\ rn[b] - 1 \in 0 .. MaxSeq
    BY <2>1
  <2>5. /\ r' \in [Bits -> 0 .. MaxSeq] /\ rn' \in [Bits -> 0 .. MaxSeq]
        /\ last' \in [Bits -> -1 .. MaxSeq]
    BY <2>3, <2>4 DEF TypeOK
  <2>6. QED
    BY <2>5 DEF TypeOK
<1>2. LockInv'
  BY DEF LockInv
<1>3. WindowInv'
  BY DEF WindowInv
<1>4. ReaderInv'
  <2>1. /\ r[b] \in Nat /\ rn[b] \in Nat /\ w \in Nat /\ pw \in Nat /\ min_cache \in Nat
        /\ rn[b] > 0 /\ r[b] + rn[b] <= w /\ w <= pw /\ min_cache <= r[b] /\ pw - min_cache <= Cap
        /\ w \in 0 .. MaxSeq /\ cursor[b] \in Nat /\ cursor[b] <= r[b] /\ min_cache <= cursor[b]
    BY SMTT(30) DEF TypeOK, ReaderInv, ReaderOK, WindowInv
  <2>2. slot[SlotOf(r[b])] = r[b]
    BY <2>1 DEF ContentInv
  <2>3. /\ r \in [Bits -> 0 .. MaxSeq] /\ rn \in [Bits -> 0 .. MaxSeq]
        /\ last \in [Bits -> -1 .. MaxSeq]
    BY DEF TypeOK
  <2>4. /\ r' = [r EXCEPT ![b] = r[b] + 1] /\ rn' = [rn EXCEPT ![b] = rn[b] - 1]
        /\ last' = [last EXCEPT ![b] = r[b]] /\ rpc[b] = "clone"
        /\ UNCHANGED <<rpc, cursor, w, min_cache>>
    BY <2>2
  <2>5. ASSUME NEW c \in Bits PROVE ReaderOK(c)'
    <3>1. ReaderOK(c)
      BY DEF ReaderInv
    <3> HIDE DEF IInv, CloneSlot
    <3>2. CASE c = b
      <4>1. r'[b] = r[b] + 1 /\ rn'[b] = rn[b] - 1 /\ last'[b] = r[b] /\ rpc'[b] = "clone"
        BY <2>3, <2>4
      <4>2. cursor'[b] = cursor[b] /\ w' = w /\ min_cache' = min_cache
        BY <2>4
      <4>3. QED
        BY <2>1, <3>2, <4>1, <4>2 DEF ReaderOK
    <3>3. CASE c # b
      BY <2>3, <2>4, <3>1, <3>3 DEF ReaderOK
    <3>4. QED
      BY <3>2, <3>3
  <2>6. QED
    BY <2>5 DEF ReaderInv
<1>5. ScanInv'
  BY DEF ScanInv
<1>6. ContentInv'
  BY DEF ContentInv
<1>7. QED
  BY <1>1, <1>2, <1>3, <1>4, <1>5, <1>6

\* A cursor only moves forward, so a scan in progress stays right.
LEMMA CommitCursorStep == ASSUME NEW b \in Bits, IInv, CommitCursor(b) PROVE IInv'
<1> USE CapAssumption, NAssumption, BoundAssumption
    DEF IInv, CommitCursor, shared, publisher, reader, history, Bits, NoOne, Scanner, Reading
<1>1. TypeOK'
  <2>1. cursor' \in [Bits -> 0 .. MaxSeq] /\ rn' \in [Bits -> 0 .. MaxSeq]
    BY DEF TypeOK
  <2>2. QED
    BY <2>1 DEF TypeOK
<1>2. LockInv'
  BY DEF LockInv
<1>3. WindowInv'
  BY DEF WindowInv
<1>4. ReaderInv'
  <2>1. ASSUME NEW c \in Bits PROVE ReaderOK(c)'
    <3>1. ReaderOK(c)
      BY DEF ReaderInv
    <3>2. CASE c = b
      <4>1. /\ cursor \in [Bits -> 0 .. MaxSeq] /\ rpc[b] = "clone" /\ DOMAIN rpc = Bits /\ r[b] > cursor[b]
            /\ cursor[b] \in Int /\ r[b] \in Int /\ min_cache \in Int
        BY DEF TypeOK
      <4>2. /\ cursor'[b] = r[b] /\ rpc'[b] = "idle"
            /\ UNCHANGED <<w, min_cache, r, last>>
        BY <4>1
      <4> QED
        BY <3>1, <3>2, <4>1, <4>2 DEF ReaderOK
    <3>3. CASE c # b
      BY <3>1, <3>3 DEF ReaderOK, TypeOK
    <3>4. QED
      BY <3>2, <3>3
  <2>2. QED
    BY <2>1 DEF ReaderInv
<1>5. ScanInv'
  <2>1. \A c \in Bits : cursor[c] \in Nat /\ cursor'[c] \in Nat /\ cursor[c] <= cursor'[c]
    BY SMTT(30) DEF TypeOK
  <2>2. min_cache \in Nat /\ smin \in Nat /\ todo \subseteq Bits /\ readers \subseteq Bits
    BY DEF TypeOK
  <2>3. QED
    BY <2>1, <2>2 DEF ScanInv
<1>6. ContentInv'
  BY DEF ContentInv
<1>7. QED
  BY <1>1, <1>2, <1>3, <1>4, <1>5, <1>6

\* A reader that no longer gates gives its reservation back.
LEMMA LeaveEndStep == ASSUME NEW b \in Bits, IInv, LeaveEnd(b) PROVE IInv'
<1> USE CapAssumption, NAssumption, BoundAssumption
    DEF IInv, LeaveEnd, shared, publisher, reader, history, Bits, NoOne, Scanner, Reading
<1>1. TypeOK'
  BY DEF TypeOK
<1>2. LockInv'
  BY DEF LockInv, TypeOK
<1>3. WindowInv'
  BY DEF WindowInv
<1>4. ReaderInv'
  BY DEF ReaderInv, ReaderOK
<1>5. ScanInv'
  BY DEF ScanInv
<1>6. ContentInv'
  BY DEF ContentInv
<1>7. QED
  BY <1>1, <1>2, <1>3, <1>4, <1>5, <1>6

\* A free bit is reserved.
LEMMA SubscribeStep == ASSUME NEW b \in Bits, IInv, Subscribe(b) PROVE IInv'
<1> USE CapAssumption, NAssumption, BoundAssumption
    DEF IInv, Subscribe, shared, publisher, reader, history, Bits, NoOne, Scanner, Reading
<1>1. TypeOK'
  <2>1. joins' \in 0 .. MaxJoins
    BY DEF TypeOK
  <2>2. QED
    BY <2>1 DEF TypeOK
<1>2. LockInv'
  BY DEF LockInv, TypeOK
<1>3. WindowInv'
  BY DEF WindowInv
<1>4. ReaderInv'
  BY DEF ReaderInv, ReaderOK
<1>5. ScanInv'
  BY DEF ScanInv
<1>6. ContentInv'
  BY DEF ContentInv
<1>7. QED
  BY <1>1, <1>2, <1>3, <1>4, <1>5, <1>6

\* A suspended reader asks to be activated again.
LEMMA ResumeStep == ASSUME NEW b \in Bits, IInv, Resume(b) PROVE IInv'
<1> USE CapAssumption, NAssumption, BoundAssumption
    DEF IInv, Resume, shared, publisher, reader, history, Bits, NoOne, Scanner, Reading
<1>1. TypeOK'
  <2>1. joins' \in 0 .. MaxJoins
    BY DEF TypeOK
  <2>2. QED
    BY <2>1 DEF TypeOK
<1>2. LockInv'
  BY DEF LockInv
<1>3. WindowInv'
  BY DEF WindowInv
<1>4. ReaderInv'
  BY DEF ReaderInv, ReaderOK
<1>5. ScanInv'
  BY DEF ScanInv
<1>6. ContentInv'
  BY DEF ContentInv
<1>7. QED
  BY <1>1, <1>2, <1>3, <1>4, <1>5, <1>6

\* A reader stops gating.
LEMMA SuspendStep == ASSUME NEW b \in Bits, IInv, Suspend(b) PROVE IInv'
<1> USE CapAssumption, NAssumption, BoundAssumption
    DEF IInv, Suspend, shared, publisher, reader, history, Bits, NoOne, Scanner, Reading
<1>1. TypeOK'
  BY DEF TypeOK
<1>2. LockInv'
  BY DEF LockInv, TypeOK
<1>3. WindowInv'
  BY DEF WindowInv
<1>4. ReaderInv'
  BY DEF ReaderInv, ReaderOK
<1>5. ScanInv'
  BY DEF ScanInv
<1>6. ContentInv'
  BY DEF ContentInv
<1>7. QED
  BY <1>1, <1>2, <1>3, <1>4, <1>5, <1>6

\* A dropped reader stops gating.
LEMMA LeaveStep == ASSUME NEW b \in Bits, IInv, Leave(b) PROVE IInv'
<1> USE CapAssumption, NAssumption, BoundAssumption
    DEF IInv, Leave, shared, publisher, reader, history, Bits, NoOne, Scanner, Reading
<1>1. TypeOK'
  BY DEF TypeOK
<1>2. LockInv'
  BY DEF LockInv, TypeOK
<1>3. WindowInv'
  BY DEF WindowInv
<1>4. ReaderInv'
  BY DEF ReaderInv, ReaderOK
<1>5. ScanInv'
  BY DEF ScanInv
<1>6. ContentInv'
  BY DEF ContentInv
<1>7. QED
  BY <1>1, <1>2, <1>3, <1>4, <1>5, <1>6

\* The channel's storage is dropped.
LEMMA TearDownStep == ASSUME IInv, TearDown PROVE IInv'
<1> USE CapAssumption, NAssumption, BoundAssumption
    DEF IInv, TearDown, shared, publisher, reader, history, Bits, NoOne, Scanner, Reading
<1>1. TypeOK'
  <2> DEFINE held(s) == {p \in w - Smaller(w, Cap) .. w - 1 : slot[SlotOf(p)] = s}
  <2>1. ASSUME NEW s PROVE Cardinality(held(s)) \in Nat
    <3>1. w - Smaller(w, Cap) \in Int /\ w - 1 \in Int
      BY DEF Smaller, TypeOK
    <3>2. IsFiniteSet(w - Smaller(w, Cap) .. w - 1)
      BY <3>1, FS_Interval
    <3>3. IsFiniteSet(held(s))
      BY <3>2, FS_Subset
    <3>4. QED
      BY <3>3, FS_CardinalityType
  <2>2. dropped' = [s \in Seqs \cup {Uninit} |-> dropped[s] + Cardinality(held(s))]
    OBVIOUS
  <2> HIDE DEF held
  <2>3. ASSUME NEW s \in Seqs \cup {Uninit} PROVE dropped[s] + Cardinality(held(s)) \in Nat
    <3>1. dropped[s] \in Nat
      BY DEF TypeOK
    <3>2. QED
      BY <2>1, <3>1
  <2>4. dropped' \in [Seqs \cup {Uninit} -> Nat]
    BY <2>2, <2>3
  <2>5. QED
    BY <2>4 DEF TypeOK
<1>2. LockInv'
  BY DEF LockInv
<1>3. WindowInv'
  BY DEF WindowInv
<1>4. ReaderInv'
  BY DEF ReaderInv, ReaderOK
<1>5. ScanInv'
  BY DEF ScanInv
<1>6. ContentInv'
  BY DEF ContentInv
<1>7. QED
  BY <1>1, <1>2, <1>3, <1>4, <1>5, <1>6

\* Every step preserves the invariant.
LEMMA InvNext == IInv /\ [Next]_vars => IInv'
<1> SUFFICES ASSUME IInv, [Next]_vars PROVE IInv'
  OBVIOUS
<1>1. CASE BeginSend BY <1>1, BeginSendStep
<1>2. CASE PublisherStep
  BY <1>2, GateStep, ScanBeginStep, ScanCursorStep, ScanEndStep, WriteSlotStep, NextOfBatchStep,
     PublishStep DEF PublisherStep
<1>3. CASE PublisherDrop BY <1>3, PublisherDropStep
<1>4. ASSUME NEW b \in Bits, ReaderStep(b) PROVE IInv'
  BY <1>4, ActivateBeginStep, ActivateEndStep, StartReadStep, CloneSlotStep, CommitCursorStep,
     LeaveEndStep DEF ReaderStep
<1>5. ASSUME NEW b \in Bits, Membership(b) PROVE IInv'
  BY <1>5, SubscribeStep, ResumeStep, SuspendStep, LeaveStep DEF Membership
<1>6. CASE TearDown BY <1>6, TearDownStep
<1>7. CASE UNCHANGED vars
  BY <1>7 DEF vars, shared, publisher, reader, history, IInv, TypeOK, LockInv, WindowInv, ReaderInv,
              ReaderOK, ScanInv, ContentInv
<1>8. QED
  BY <1>1, <1>2, <1>3, <1>4, <1>5, <1>6, <1>7 DEF Next, Over

\* The invariant holds in every reachable state.
LEMMA InvAlways == Spec => []IInv
  BY InvInit, InvNext, PTL DEF Spec

-----------------------------------------------------------------------------
\* Type correctness: in particular no position passes the bound and no reader
\* is ever left to clone more values than were published.
THEOREM BroadcastTypeCorrect == Spec => []TypeOK
<1>1. IInv => TypeOK BY DEF IInv
<1>2. QED BY <1>1, InvAlways, PTL

\* No torn read, whatever the capacity and the number of readers: the slot
\* try_send or send_batch writes is never one that a reader is cloning.
THEOREM TornReadFree == Spec => []NoTornRead
<1>1. IInv => NoTornRead
  <2> SUFFICES ASSUME IInv, ppc = "write", NEW b \in Bits, rpc[b] = "clone", rn[b] > 0
               PROVE  SlotOf(r[b]) # SlotOf(pw)
    BY DEF NoTornRead
  <2>1. pw \in Nat /\ r[b] \in Nat /\ r[b] < pw /\ pw - r[b] < Cap
    BY CapAssumption, BoundAssumption, SMTT(40)
       DEF IInv, TypeOK, WindowInv, ReaderInv, ReaderOK, Reading
  <2>2. QED BY <2>1, SlotsApart
<1>2. QED BY <1>1, InvAlways, PTL

\* An activated reader is never lapped: the defensive skip of try_recv and
\* drain is dead code.
THEOREM LapFree == Spec => []NeverLapped
<1>1. IInv => NeverLapped
  BY CapAssumption, BoundAssumption
     DEF IInv, TypeOK, WindowInv, ReaderInv, ReaderOK, Reading, NeverLapped
<1>2. QED BY <1>1, InvAlways, PTL

\* A reader hears every value published since it was activated, in order.
THEOREM GapFree == Spec => []HearsEverything
<1>1. IInv => HearsEverything
  BY DEF IInv, ReaderInv, ReaderOK, Reading, HearsEverything
<1>2. QED BY <1>1, InvAlways, PTL

-----------------------------------------------------------------------------
(* Destruction.  Until the teardown exactly the values the publisher has   *)
(* overwritten are dropped, once each; the teardown drops the rest.        *)

\* How often each value was dropped.
DropInv ==
  /\ torn_down => ppc = "gone" /\ DroppedOnce
  /\ ~torn_down => \A s \in Seqs \cup {Uninit} :
       dropped[s] = IF 0 <= s /\ s < pw - Cap THEN 1 ELSE 0

\* A lap later a position falls on the same slot.
LEMMA SlotAgain ==
  ASSUME NEW s \in Nat, s >= Cap
  PROVE  SlotOf(s) = SlotOf(s - Cap) /\ s - Cap \in Nat
<1> DEFINE t == s - Cap
           x == s \div Cap
           y == t \div Cap
<1>0. t \in Nat
  BY CapAssumption
<1>1. s = x * Cap + (s % Cap) /\ x \in Int /\ s % Cap \in 0 .. Cap - 1
  BY CapAssumption, SMT
<1>2. t = y * Cap + (t % Cap) /\ y \in Int /\ t % Cap \in 0 .. Cap - 1
  BY <1>0, CapAssumption, SMT
<1> HIDE DEF x, y
<1>3. (x - y - 1) * Cap = x * Cap - y * Cap - Cap
  BY <1>1, <1>2, CapAssumption, SMT
<1> DEFINE u == x * Cap
           v == y * Cap
           m == s % Cap
           n == t % Cap
<1>4. n - m = (x - y - 1) * Cap
  <2>1. s - t = Cap /\ s = u + m /\ t = v + n /\ u \in Int /\ v \in Int /\ m \in Int /\ n \in Int
    BY <1>0, <1>1, <1>2, CapAssumption
  <2>2. (x - y - 1) * Cap = u - v - Cap
    BY <1>3
  <2> HIDE DEF u, v, m, n, t
  <2> QED
    BY <2>1, <2>2, CapAssumption
<1>5. CASE x - y - 1 >= 1
  BY <1>1, <1>2, <1>4, <1>5, CapAssumption, SMT
<1>6. CASE x - y - 1 <= -1
  BY <1>1, <1>2, <1>4, <1>6, CapAssumption, SMT
<1>7. CASE x - y - 1 = 0
  BY <1>0, <1>1, <1>2, <1>4, <1>7, CapAssumption, SMT DEF SlotOf
<1> QED
  BY <1>1, <1>2, <1>5, <1>6, <1>7

\* The slot about to be overwritten holds the value of the lap before.
LEMMA Overwritten ==
  ASSUME IInv, ppc = "write", pw >= Cap
  PROVE  slot[SlotOf(pw)] = pw - Cap
<1>1. pw \in Nat /\ pw < MaxSeq /\ Cap \in Nat \ {0} /\ MaxSeq \in Nat
  BY CapAssumption, BoundAssumption DEF IInv, TypeOK, WindowInv
<1>2. SlotOf(pw) = SlotOf(pw - Cap) /\ pw - Cap \in 0 .. MaxSeq /\ pw - Cap < pw /\ pw - (pw - Cap) <= Cap
  BY <1>1, SlotAgain
<1> QED
  BY <1>2 DEF IInv, ContentInv

\* Overwriting drops the value that was there.
LEMMA WriteSlotDrops == ASSUME IInv, DropInv, WriteSlot PROVE DropInv'
<1>1. /\ ppc = "write" /\ torn_down' = torn_down /\ pw' = pw + 1 /\ ~torn_down
      /\ dropped' = IF pw >= Cap THEN [dropped EXCEPT ![slot[SlotOf(pw)]] = @ + 1] ELSE dropped
  BY DEF WriteSlot, DropInv
<1>2. pw \in Nat /\ pw < MaxSeq /\ Cap \in Nat \ {0} /\ MaxSeq \in Nat /\ dropped \in [Seqs \cup {Uninit} -> Nat]
  BY <1>1, CapAssumption, BoundAssumption DEF IInv, TypeOK, WindowInv
<1>3. \A s \in Seqs \cup {Uninit} : s \in Int /\ dropped[s] = IF 0 <= s /\ s < pw - Cap THEN 1 ELSE 0
  BY <1>1, <1>2 DEF DropInv, Seqs, Uninit
<1>4. \A s \in Seqs \cup {Uninit} : dropped'[s] = IF 0 <= s /\ s < pw + 1 - Cap THEN 1 ELSE 0
  <2>1. CASE pw >= Cap
    <3>1. dropped' = [dropped EXCEPT ![pw - Cap] = @ + 1]
      BY <1>1, <2>1, Overwritten
    <3> QED
      BY <1>2, <1>3, <2>1, <3>1
  <2>2. CASE ~(pw >= Cap)
    BY <1>1, <1>2, <1>3, <2>2
  <2> QED
    BY <2>1, <2>2
<1>5. pw' = pw + 1 /\ ~torn_down'
  BY <1>1
<1>6. \A s \in Seqs \cup {Uninit} : dropped'[s] = IF 0 <= s /\ s < pw' - Cap THEN 1 ELSE 0
  BY <1>2, <1>4, <1>5
<1> QED
  BY <1>5, <1>6 DEF DropInv

\* The teardown drops what is still in the ring: every slot from w - Cap, or
\* from 0, up to w holds its own position.
LEMMA TearDownDrops == ASSUME IInv, DropInv, TearDown PROVE DropInv'
<1> DEFINE low == w - Smaller(w, Cap)
           held(s) == {p \in low .. w - 1 : slot[SlotOf(p)] = s}
<1>1. /\ ppc = "gone" /\ ppc' = ppc /\ w' = w /\ ~torn_down /\ torn_down'
      /\ dropped' = [s \in Seqs \cup {Uninit} |-> dropped[s] + Cardinality(held(s))]
  BY DEF TearDown, shared, publisher
<1>2. /\ pw = w /\ w \in Nat /\ w <= MaxSeq /\ Cap \in Nat \ {0} /\ MaxSeq \in Nat
      /\ low \in Nat /\ low <= w /\ (low = 0 \/ low = w - Cap) /\ low >= w - Cap
  BY <1>1, CapAssumption, BoundAssumption DEF IInv, TypeOK, WindowInv, Smaller
<1> HIDE DEF low
<1>3. \A p \in low .. w - 1 : slot[SlotOf(p)] = p
  <2> SUFFICES ASSUME NEW p \in low .. w - 1 PROVE slot[SlotOf(p)] = p
    OBVIOUS
  <2>1. p \in 0 .. MaxSeq /\ p < pw /\ pw - p <= Cap
    BY <1>2
  <2> QED
    BY <2>1 DEF IInv, ContentInv
<1>4. ASSUME NEW s \in Seqs \cup {Uninit}
      PROVE  dropped'[s] = IF 0 <= s /\ s < w THEN 1 ELSE 0
  <2>1. s \in Int /\ dropped[s] = IF 0 <= s /\ s < w - Cap THEN 1 ELSE 0
    BY <1>1, <1>2 DEF DropInv, Seqs, Uninit
  <2>2. dropped'[s] = dropped[s] + Cardinality(held(s))
    BY <1>1
  <2>3. CASE s \in low .. w - 1
    <3>1. held(s) = {s}
      BY <1>3, <2>3
    <3>2. Cardinality(held(s)) = 1
      BY <3>1, FS_Singleton
    <3>3. ~(s < w - Cap) /\ 0 <= s /\ s < w
      BY <1>2, <2>3
    <3> QED
      BY <2>1, <2>2, <3>2, <3>3
  <2>4. CASE s \notin low .. w - 1
    <3>1. held(s) = {}
      BY <1>3, <2>4
    <3>2. Cardinality(held(s)) = 0
      BY <3>1, FS_EmptySet
    <3>3. (0 <= s /\ s < w) <=> (0 <= s /\ s < w - Cap)
      BY <1>2, <2>1, <2>4
    <3> QED
      BY <2>1, <2>2, <3>2, <3>3
  <2> QED
    BY <2>3, <2>4
<1> QED
  BY <1>1, <1>4 DEF DropInv, DroppedOnce

\* Nothing else drops a value or moves the position the count depends on.
LEMMA DropNext == IInv /\ DropInv /\ [Next]_vars => DropInv'
<1> SUFFICES ASSUME IInv, DropInv, [Next]_vars PROVE DropInv'
  OBVIOUS
<1>1. CASE WriteSlot
  BY <1>1, WriteSlotDrops
<1>2. CASE TearDown
  BY <1>2, TearDownDrops
<1>3. CASE /\ UNCHANGED <<pw, dropped, torn_down>>
           /\ ppc = "gone" => ppc' = "gone" /\ w' = w
  BY <1>3 DEF DropInv, DroppedOnce
<1>4. CASE BeginSend \/ Gate \/ ScanBegin \/ (\E b \in Bits : ScanCursor(b)) \/ ScanEnd
  BY <1>3, <1>4 DEF BeginSend, Gate, ScanBegin, ScanCursor, ScanEnd, shared, history
<1>5. CASE NextOfBatch \/ Publish \/ PublisherDrop
  BY <1>3, <1>5 DEF NextOfBatch, Publish, PublisherDrop, shared, history
<1>6. ASSUME NEW b \in Bits, ReaderStep(b) PROVE DropInv'
  BY <1>3, <1>6 DEF ReaderStep, ActivateBegin, ActivateEnd, StartRead, CloneSlot, CommitCursor, LeaveEnd,
                    shared, publisher, history
<1>7. ASSUME NEW b \in Bits, Membership(b) PROVE DropInv'
  BY <1>3, <1>7 DEF Membership, Subscribe, Resume, Suspend, Leave, shared, publisher, history
<1>8. CASE UNCHANGED vars
  BY <1>3, <1>8 DEF vars, shared, publisher, history
<1> QED
  BY <1>1, <1>2, <1>4, <1>5, <1>6, <1>7, <1>8 DEF Next, PublisherStep, Over

\* When the channel's memory is freed every published value was dropped exactly
\* once, overwritten by try_send or send_batch or left for Drop of Shared, and
\* no slot that was never written was.
THEOREM DropCorrect == Spec => []DroppedOnce
<1>1. Init => DropInv
  BY CapAssumption DEF Init, DropInv, Uninit, Seqs
<1>2. DropInv => DroppedOnce
  BY DEF DropInv, DroppedOnce
<1> QED
  BY <1>1, <1>2, InvAlways, DropNext, PTL DEF Spec
=============================================================================
