-------------------------------- MODULE Ring --------------------------------
(***************************************************************************)
(* The wait-free single-producer single-consumer ring of backend/ring.rs,  *)
(* on which every engine of the crate is built.                            *)
(*                                                                         *)
(* One Sender and one Receiver share `head`, `tail`, two liveness flags    *)
(* and Cap slots.  Each step below makes at most one access to the shared  *)
(* state: the check (with its optional reload of the peer's cursor), every *)
(* slot access and every cursor store are separate steps, so the other     *)
(* endpoint can run between any two of them.  Release/acquire pairs on the *)
(* cursors make the slot accesses sequentially consistent; a stale acquire *)
(* load is the same as having loaded earlier, which the caches model.      *)
(*                                                                         *)
(* The i-th value ever sent is the number i: the ring never looks at a     *)
(* value, it only moves it.  `pushed`, `popped` and `freed` are history    *)
(* variables: how many values were published, how many were released, and  *)
(* how often the ownership of each value left the ring (handed to the      *)
(* caller or dropped in place).                                            *)
(***************************************************************************)
EXTENDS Integers

CONSTANTS
  Cap,       \* number of slots (a power of two in the code)
  Word,      \* number of values of a usize cursor (2^64 in the code)
  MaxItems,  \* bound: values sent over the life of the ring
  MaxBatch   \* bound: largest limit given to one bulk operation

ASSUME CapAssumption  == Cap \in Nat \ {0}
ASSUME WordAssumption == Word \in Nat /\ \E m \in 2 .. Word : Word = m * Cap
ASSUME BoundAssumption == MaxItems \in Nat /\ MaxBatch \in Nat

VARIABLES
  head, tail, slot, producer_gone, consumer_gone,  \* Inner
  ppc, head_cache, pn, pdone,                      \* Sender
  cpc, tail_cache, cn, cdone, callback,            \* Receiver
  reclaimed,                                       \* Inner dropped
  pushed, popped, freed                            \* history

inner    == <<head, tail, slot, producer_gone, consumer_gone>>
sender   == <<ppc, head_cache, pn, pdone>>
receiver == <<cpc, tail_cache, cn, cdone, callback>>
history  == <<pushed, popped, freed>>
vars     == <<inner, sender, receiver, reclaimed, history>>

Uninit   == -1
Items    == 0 .. MaxItems - 1
Cursors  == 0 .. Word - 1
Slots    == 0 .. Cap - 1

\* usize::wrapping_add and wrapping_sub for an addend of at most one word.
WrapAdd(c, n) == IF c + n >= Word THEN c + n - Word ELSE c + n
WrapSub(a, b) == IF a >= b THEN a - b ELSE a - b + Word

\* Inner::slot: cursor & mask.
SlotOf(c) == c % Cap

Smaller(a, b) == IF a <= b THEN a ELSE b

Occupied == WrapSub(tail, head)

TypeOK ==
  /\ head \in Cursors /\ tail \in Cursors
  /\ slot \in [Slots -> Items \cup {Uninit}]
  /\ producer_gone \in BOOLEAN /\ consumer_gone \in BOOLEAN
  /\ ppc \in {"idle", "write", "dropping", "gone"}
  /\ head_cache \in Cursors /\ pn \in 0 .. Cap /\ pdone \in 0 .. Cap
  /\ cpc \in {"idle", "read", "drain", "drainread", "gone"}
  /\ tail_cache \in Cursors /\ cn \in 0 .. Cap /\ cdone \in 0 .. Cap
  /\ callback \in BOOLEAN /\ reclaimed \in BOOLEAN
  /\ pushed \in 0 .. MaxItems /\ popped \in 0 .. MaxItems
  /\ freed \in [Items \cup {Uninit} -> Nat]

Init ==
  /\ head = 0 /\ tail = 0 /\ slot = [s \in Slots |-> Uninit]
  /\ producer_gone = FALSE /\ consumer_gone = FALSE
  /\ ppc = "idle" /\ head_cache = 0 /\ pn = 0 /\ pdone = 0
  /\ cpc = "idle" /\ tail_cache = 0 /\ cn = 0 /\ cdone = 0 /\ callback = FALSE
  /\ reclaimed = FALSE
  /\ pushed = 0 /\ popped = 0 /\ freed = [i \in Items \cup {Uninit} |-> 0]

-----------------------------------------------------------------------------
(* The producer.  A push decides how many slots it may fill from its cached *)
(* head, reloading the cache only when it says "full"; a push that finds no *)
(* room returns the value to the caller.                                    *)

HeadSeen == IF WrapSub(tail, head_cache) >= Cap THEN head ELSE head_cache

\* Mutant: the room computed one slot too large.
RoomOffByOne(n, seen) == Smaller(n, Cap + 1 - WrapSub(tail, seen))

Room(n, seen) == Smaller(n, Cap - WrapSub(tail, seen))

Reserve(limit) ==
  /\ ppc = "idle" /\ pushed + limit <= MaxItems
  /\ head_cache' = HeadSeen
  /\ pn' = Room(limit, HeadSeen)
  /\ ppc' = IF pn' = 0 THEN "idle" ELSE "write"
  /\ UNCHANGED <<inner, pdone, receiver, reclaimed, history>>

TryPush == Reserve(1)

PushFrom == \E limit \in 1 .. MaxBatch : Reserve(limit)

WriteSlot ==
  /\ ppc = "write" /\ pdone < pn
  /\ slot' = [slot EXCEPT ![SlotOf(WrapAdd(tail, pdone))] = pushed + pdone]
  /\ pdone' = pdone + 1
  /\ UNCHANGED <<head, tail, producer_gone, consumer_gone, ppc, head_cache, pn,
                 receiver, reclaimed, history>>

Publish ==
  /\ ppc = "write" /\ pdone = pn
  /\ tail' = WrapAdd(tail, pn)
  /\ pushed' = pushed + pn
  /\ ppc' = "idle" /\ pn' = 0 /\ pdone' = 0
  /\ UNCHANGED <<head, slot, producer_gone, consumer_gone, head_cache, receiver,
                 reclaimed, popped, freed>>

\* Drop for Sender, and then the release of its Arc.
SenderDrop ==
  /\ ppc = "idle"
  /\ producer_gone' = TRUE
  /\ ppc' = "dropping"
  /\ UNCHANGED <<head, tail, slot, consumer_gone, head_cache, pn, pdone,
                 receiver, reclaimed, history>>

SenderRelease ==
  /\ ppc = "dropping"
  /\ ppc' = "gone"
  /\ UNCHANGED <<inner, head_cache, pn, pdone, receiver, reclaimed, history>>

-----------------------------------------------------------------------------
(* The consumer.  All reading operations reserve a prefix of the cached    *)
(* range, move values out one slot at a time and release them with one     *)
(* store of head; they differ in how many they ask for and in whether a    *)
(* caller's function runs between the moves (and may panic).               *)

TailSeen == IF tail_cache = head THEN tail ELSE tail_cache

Take(max, from, to) ==
  /\ cpc = from
  /\ tail_cache' = TailSeen
  /\ cn' = Smaller(WrapSub(TailSeen, head), max)
  /\ cn' > 0
  /\ cpc' = to
  /\ UNCHANGED <<inner, sender, cdone, reclaimed, history>>

\* try_pop, drain_into and drain_in_place on an empty ring.
FindEmpty(from) ==
  /\ cpc = from
  /\ WrapSub(TailSeen, head) = 0
  /\ tail_cache' = TailSeen

TryPop == Take(1, "idle", "read") /\ callback' = FALSE

DrainInto == \E max \in 1 .. MaxBatch : Take(max, "idle", "read") /\ callback' = FALSE

DrainInPlace == \E max \in 1 .. MaxBatch : Take(max, "idle", "read") /\ callback' = TRUE

ReadNone ==
  /\ FindEmpty("idle")
  /\ UNCHANGED <<inner, sender, cpc, cn, cdone, callback, reclaimed, history>>

\* Ownership of the value in the slot leaves the ring.
MoveOut(c) == freed' = [freed EXCEPT ![slot[SlotOf(c)]] = @ + 1]

ReadSlot ==
  /\ cpc \in {"read", "drainread"} /\ cdone < cn
  /\ MoveOut(WrapAdd(head, cdone))
  /\ cdone' = cdone + 1
  /\ UNCHANGED <<inner, sender, cpc, tail_cache, cn, callback, reclaimed, pushed, popped>>

\* Mutant: the guard releases the whole reservation instead of what was moved.
ReleaseReservation ==
  /\ head' = WrapAdd(head, cn)
  /\ popped' = popped + cdone
  /\ cpc' = IF cpc = "read" THEN "idle" ELSE "drain"
  /\ cn' = 0 /\ cdone' = 0
  /\ UNCHANGED <<tail, slot, producer_gone, consumer_gone, sender, tail_cache,
                 callback, reclaimed, pushed, freed>>

\* The release store; the guard of drain_in_place stores base + done.
Release ==
  /\ head' = WrapAdd(head, cdone)
  /\ popped' = popped + cdone
  /\ cpc' = IF cpc = "read" THEN "idle" ELSE "drain"
  /\ cn' = 0 /\ cdone' = 0
  /\ UNCHANGED <<tail, slot, producer_gone, consumer_gone, sender, tail_cache,
                 callback, reclaimed, pushed, freed>>

Commit == cpc \in {"read", "drainread"} /\ cdone = cn /\ Release

\* f panics: the guard releases exactly what was moved out.
CallbackPanics == cpc = "read" /\ callback /\ cdone \in 1 .. cn - 1 /\ Release

\* Receiver::recycle, called on a ring that is_finished() and, by
\* Arc::get_mut, only once the producer's Arc is gone.
IsFinished == producer_gone /\ head = tail

\* Mutant: the receiver keeps its cached tail across the reset.
RecycleKeepsCache ==
  /\ cpc = "idle" /\ IsFinished /\ ppc = "gone"
  /\ head' = 0 /\ tail' = 0 /\ producer_gone' = FALSE
  /\ ppc' = "idle" /\ head_cache' = 0
  /\ UNCHANGED <<slot, consumer_gone, pn, pdone, receiver, reclaimed, history>>

Recycle ==
  /\ cpc = "idle" /\ IsFinished /\ ppc = "gone"
  /\ head' = 0 /\ tail' = 0 /\ producer_gone' = FALSE
  /\ tail_cache' = 0
  /\ ppc' = "idle" /\ head_cache' = 0
  /\ UNCHANGED <<slot, consumer_gone, pn, pdone, cpc, cn, cdone, callback,
                 reclaimed, history>>

\* Drop for Receiver: flag, drain by try_pop until empty, release the Arc.
ReceiverDrop ==
  /\ cpc = "idle"
  /\ consumer_gone' = TRUE
  /\ cpc' = "drain"
  /\ UNCHANGED <<head, tail, slot, producer_gone, sender, tail_cache, cn, cdone,
                 callback, reclaimed, history>>

DrainPop == Take(1, "drain", "drainread") /\ callback' = FALSE

ReceiverRelease ==
  /\ FindEmpty("drain")
  /\ cpc' = "gone"
  /\ UNCHANGED <<inner, sender, cn, cdone, callback, reclaimed, history>>

-----------------------------------------------------------------------------
(* Drop for Inner, run by whoever releases the last Arc: every value left  *)
(* in [head, tail) is dropped in place; cdone is the offset of its cursor. *)

Orphaned == ppc = "gone" /\ cpc = "gone" /\ ~reclaimed

InnerDropSlot ==
  /\ Orphaned /\ WrapAdd(head, cdone) # tail
  /\ MoveOut(WrapAdd(head, cdone))
  /\ cdone' = cdone + 1
  /\ UNCHANGED <<inner, sender, cpc, tail_cache, cn, callback, reclaimed, pushed, popped>>

\* Mutant: no backstop, the buffer is freed with what is left in it.
InnerDropNothing ==
  /\ Orphaned
  /\ reclaimed' = TRUE
  /\ UNCHANGED <<inner, sender, receiver, history>>

InnerDropEnd ==
  /\ Orphaned /\ WrapAdd(head, cdone) = tail
  /\ reclaimed' = TRUE
  /\ UNCHANGED <<inner, sender, receiver, history>>

-----------------------------------------------------------------------------
SenderNext == TryPush \/ PushFrom \/ WriteSlot \/ Publish \/ SenderDrop \/ SenderRelease

ReceiverNext ==
  \/ TryPop \/ DrainInto \/ DrainInPlace \/ ReadNone \/ ReadSlot \/ Commit
  \/ CallbackPanics \/ Recycle \/ ReceiverDrop \/ DrainPop \/ ReceiverRelease

InnerNext == InnerDropSlot \/ InnerDropEnd

\* The ring's life ends here; any other state without a successor is a deadlock.
Over == reclaimed /\ UNCHANGED vars

Next == SenderNext \/ ReceiverNext \/ InnerNext \/ Over

Spec == Init /\ [][Next]_vars

-----------------------------------------------------------------------------
(* Properties.                                                             *)

\* No data race on a slot: the slot the producer is about to write is none of
\* the slots that hold a published value the consumer has not released yet
\* (the SAFETY argument of push_from and drain_into).
SlotOwnership ==
  ppc = "write" /\ pdone < pn =>
    \A k \in 0 .. Occupied - 1 :
      SlotOf(WrapAdd(head, k)) # SlotOf(WrapAdd(tail, pdone))

\* Values leave the ring in the order they were sent, each once, through wrap
\* of the cursors, panics, recycling and teardown; an uninitialised slot is
\* never read.  popped + cdone is the number of slots moved out so far.
FifoOnce ==
  \A i \in Items \cup {Uninit} :
    freed[i] = IF 0 <= i /\ i < popped + cdone THEN 1 ELSE 0

\* When the ring's memory is freed, every published value was handed over or
\* dropped exactly once, also when a send raced the consumer's teardown.
NothingLeaks ==
  reclaimed => \A i \in Items : freed[i] = IF i < pushed THEN 1 ELSE 0

\* The ring implements the FIFO queue of SpscQueue: its contents are the slots
\* from head to tail.
Queue == INSTANCE SpscQueue WITH
  q        <- [k \in 1 .. Occupied |-> slot[SlotOf(WrapAdd(head, k - 1))]],
  sent     <- pushed,
  received <- popped,
  tx_open  <- ~producer_gone,
  rx_open  <- ~consumer_gone

ImplementsQueue == Queue!QSpec
=============================================================================
