----------------------------- MODULE MpscAsync ------------------------------
(***************************************************************************)
(* The asynchronous MPSC channel of mpsc/chan.rs (kernel Task) with its    *)
(* three membership tiers: fixed, pool and dynamic.  Every producer owns   *)
(* one SPSC ring; the receiver scans the rings (its shards) round robin.   *)
(* Nobody blocks: a receiver that finds nothing and a producer that finds  *)
(* no room arm a TaskWaiter, look once more, and return Pending.           *)
(*                                                                         *)
(* A ring is the bounded queue that module Ring shows it to implement; its *)
(* values are the names of the producers that sent them.  Rust atomics are *)
(* sequentially consistent here: the SeqCst fences of TaskWaiter::arm and  *)
(* TaskWaiter::notify are what makes that sound for the wake protocol.     *)
(***************************************************************************)
EXTENDS Integers, Sequences, FiniteSets, SequencesExt

CONSTANTS
  Tiers,         \* the tiers explored: a subset of {"fixed", "pool", "dynamic"}
  NumRings,      \* rings; for the dynamic tier a bound on those in memory
  NumProducers,  \* bound: producers ever created
  Cap,           \* capacity of a ring
  Batch,         \* Receiver::batch
  MaxMany,       \* the max argument of recv_many
  Budget,        \* ASYNC_SEND_BUDGET
  MaxSend,       \* bound: values sent by one producer
  Calls,         \* the receive calls explored: pairs of a mode and a phase
  Batches,       \* the sends explored: {FALSE} one by one, {TRUE} in batches
  MaxPooled,     \* capacity of the dynamic tier's FreeList; 0 is DropRings
  CursorPeriod   \* the cursor is kept modulo a common multiple of all lengths

ASSUME BoundsAssumption ==
  /\ {NumRings, NumProducers, Cap, Batch, MaxMany, Budget} \subseteq Nat \ {0}
  /\ MaxSend \in Nat /\ MaxPooled \in Nat
  /\ Tiers \subseteq {"fixed", "pool", "dynamic"}
  /\ "fixed" \in Tiers => NumRings <= NumProducers
  /\ Calls \subseteq {"one", "many"} \X {0, 1} \cup {<<"drain", 0>>} /\ Batches \subseteq BOOLEAN
  /\ CursorPeriod \in Nat \ {0} /\ \A n \in 1 .. NumRings : CursorPeriod % n = 0

Rings     == 1 .. NumRings
Producers == 1 .. NumProducers
Handle    == 0                       \* the PoolHandle or the Registrar
Senders   == Producers \cup {Handle}
NoTask    == -1
RecvTask  == -2

VARIABLES
  tier,
  live, notifier,   \* Shared
  ring,             \* the rings: Inner and the producer's Arc on it
  space,            \* the TaskWaiter of each ring
  prod,             \* the producers, and the handle
  shards, rx,       \* the Receiver and the future polling it
  free,             \* PoolSlots
  inbox, freelist,  \* LockedInbox and FreeList
  got               \* history: values delivered, by producer

membership == <<free, inbox, freelist>>
vars == <<tier, live, notifier, ring, space, prod, shards, rx, membership, got>>

Smaller(a, b) == IF a <= b THEN a ELSE b

-----------------------------------------------------------------------------
(* TaskWaiter.                                                             *)

Unarmed == [waiting |-> FALSE, waker |-> NoTask, needs_clear |-> FALSE]
Armed(t) == [waiting |-> TRUE, waker |-> t, needs_clear |-> TRUE]
Cleared(wt) == IF wt.needs_clear THEN Unarmed ELSE wt

\* notify is two steps: the swap of `waiting`, then wake, which takes the
\* waker that is registered by then.
Disarmed(wt) == [wt EXCEPT !.waiting = FALSE]
Taken(wt)    == [wt EXCEPT !.waker = NoTask]

FreshRing == [q |-> <<>>, producer_gone |-> FALSE, consumer_gone |-> FALSE, arc |-> TRUE]
Unused    == [q |-> <<>>, producer_gone |-> TRUE, consumer_gone |-> TRUE, arc |-> FALSE]
Producer(pc, r) ==
  [pc |-> pc, ring |-> r, after |-> "done", batch |-> FALSE, dirty |-> FALSE,
   budget |-> 0, woken |-> FALSE, sent |-> 0]

\* fixed::open, pool::open and dynamic::open_inner.
Init ==
  /\ tier \in Tiers
  /\ notifier = Unarmed /\ space = [r \in Rings |-> Unarmed]
  /\ live = IF tier = "fixed" THEN NumRings ELSE 1
  /\ ring = [r \in Rings |-> IF tier = "dynamic" THEN Unused ELSE FreshRing]
  /\ prod = [p \in Senders |->
               IF p = Handle THEN Producer(IF tier = "fixed" THEN "gone" ELSE "idle", 0)
               ELSE IF tier = "fixed" /\ p <= NumRings THEN Producer("idle", p)
               ELSE Producer("unborn", 0)]
  /\ shards = IF tier = "dynamic" THEN <<>> ELSE [i \in Rings |-> i]
  /\ free = IF tier = "pool" THEN Rings ELSE {}
  /\ inbox = [queue |-> <<>>, generation |-> 0] /\ freelist = <<>>
  /\ rx = [pc |-> "idle", mode |-> "one", phase |-> 0, steps |-> 0, cursor |-> 0,
           staging |-> <<>>, pushed |-> 0, at |-> 0, woken |-> FALSE, seen |-> 0, loaded |-> 0]
  /\ got = [p \in Producers |-> 0]

-----------------------------------------------------------------------------
(* Membership.                                                             *)

NextUnborn(p) == prod[p].pc = "unborn" /\ \A o \in Producers : prod[o].pc = "unborn" => p <= o

\* PoolHandle::claim: the lowest free bit.
Claim(p) ==
  /\ tier = "pool" /\ prod[Handle].pc = "idle" /\ NextUnborn(p)
  /\ \E r \in free :
       /\ \A o \in free : r <= o
       /\ free' = free \ {r}
       /\ prod' = [prod EXCEPT ![p] = Producer("idle", r)]
  /\ live' = live + 1
  /\ UNCHANGED <<tier, notifier, ring, space, shards, rx, inbox, freelist, got>>

InMemory(r) == ring[r].arc \/ r \in ToSet(shards) \cup ToSet(inbox.queue) \cup ToSet(freelist)

\* Registrar::register; the bound on rings in memory is in the guard.
Register ==
  /\ tier = "dynamic" /\ prod[Handle].pc = "idle" /\ \E p \in Producers : NextUnborn(p)
  /\ freelist # <<>> \/ \E r \in Rings : ~InMemory(r)
  /\ prod' = [prod EXCEPT ![Handle].pc = "take"]
  /\ UNCHANGED <<tier, live, notifier, ring, space, shards, rx, membership, got>>

\* take_reset frees a parked ring whose producer's Arc still lingers.
SkipLingering ==
  /\ prod[Handle].pc = "take" /\ freelist # <<>> /\ ring[Last(freelist)].arc
  /\ freelist' = Front(freelist)
  /\ ring' = [ring EXCEPT ![Last(freelist)].consumer_gone = TRUE]
  /\ space' = [space EXCEPT ![Last(freelist)] = Disarmed(@)]
  /\ UNCHANGED <<tier, live, notifier, prod, shards, rx, free, inbox, got>>

\* The ring is a reset parked one or a new one; it is counted and queued.
Deposit(p) ==
  /\ prod[Handle].pc = "take" /\ NextUnborn(p)
  /\ \E r \in Rings :
       /\ IF freelist # <<>>
          THEN r = Last(freelist) /\ ~ring[r].arc /\ freelist' = Front(freelist)
          ELSE ~InMemory(r) /\ freelist' = freelist
       /\ ring' = [ring EXCEPT ![r] = FreshRing]
       /\ space' = [space EXCEPT ![r] = Unarmed]
       /\ inbox' = [inbox EXCEPT !.queue = Append(@, r)]
       /\ prod' = [prod EXCEPT ![Handle].pc = "deposit", ![Handle].ring = r]
  /\ live' = live + 1
  /\ UNCHANGED <<tier, notifier, shards, rx, free, got>>

\* The generation is bumped after the queue is unlocked.
Deposited(p) ==
  /\ prod[Handle].pc = "deposit" /\ NextUnborn(p)
  /\ inbox' = [inbox EXCEPT !.generation = @ + 1]
  /\ prod' = [prod EXCEPT ![Handle].pc = "idle", ![Handle].ring = 0,
                          ![p] = Producer("idle", prod[Handle].ring)]
  /\ UNCHANGED <<tier, live, notifier, ring, space, shards, rx, free, freelist, got>>
-----------------------------------------------------------------------------
(* Producers: try_send, send_async (SendFuture), send_batch_async          *)
(* (SendBatchFuture) and drop.  prod[p].after is where notify returns to.  *)

RingOf(p) == ring[prod[p].ring]

IsFull(p) == Len(RingOf(p).q) >= Cap

StartSend(p, batch) ==
  /\ prod[p].pc = "idle" /\ prod[p].sent < MaxSend
  /\ prod' = [prod EXCEPT ![p].pc = "try", ![p].batch = batch, ![p].budget = Budget]
  /\ UNCHANGED <<tier, live, notifier, ring, space, shards, rx, membership, got>>

\* Where a producer goes after a push: a lone send notifies at once, a batch
\* notifies when its budget is spent and then yields if there is more to send.
AfterPush(p) ==
  LET left == prod[p].budget - 1
      pushed == [prod[p] EXCEPT !.sent = @ + 1, !.budget = left, !.dirty = TRUE] IN
  IF ~prod[p].batch \/ left = 0
  THEN [pushed EXCEPT !.pc = "notify",
                      !.after = IF prod[p].batch
                                   /\ (prod[p].pc = "retry" \/ pushed.sent < MaxSend)
                                THEN "yield" ELSE "done"]
  ELSE [pushed EXCEPT !.pc = "try"]

\* try_send_quiet succeeds.  A batch that had armed disarms at once.
Push(p) ==
  /\ prod[p].pc \in {"try", "retry"} /\ prod[p].sent < MaxSend
  /\ ~RingOf(p).consumer_gone /\ ~IsFull(p)
  /\ ring' = [ring EXCEPT ![prod[p].ring].q = Append(@, p)]
  /\ space' = IF prod[p].pc = "retry" /\ prod[p].batch
              THEN [space EXCEPT ![prod[p].ring] = Cleared(@)] ELSE space
  /\ prod' = [prod EXCEPT ![p] = AfterPush(p)]
  /\ UNCHANGED <<tier, live, notifier, shards, rx, membership, got>>

\* Mutant: a future dropped by a panicking iterator does not notify.
BatchEndQuiet(p) ==
  /\ prod[p].pc = "try" /\ prod[p].batch
  /\ prod' = [prod EXCEPT ![p].pc = "done", ![p].after = "done", ![p].dirty = FALSE]
  /\ UNCHANGED <<tier, live, notifier, ring, space, shards, rx, membership, got>>

\* A batch ends: its items are exhausted, or its iterator panics and the
\* future is dropped dirty.
BatchEnd(p) ==
  /\ prod[p].pc = "try" /\ prod[p].batch
  /\ prod' = [prod EXCEPT ![p].pc = IF prod[p].dirty THEN "notify" ELSE "done",
                          ![p].after = "done"]
  /\ UNCHANGED <<tier, live, notifier, ring, space, shards, rx, membership, got>>

\* Disconnected: the value goes back to the caller.
Refused(p) ==
  /\ prod[p].pc \in {"try", "retry"} /\ RingOf(p).consumer_gone
  /\ prod' = [prod EXCEPT ![p].pc = IF prod[p].dirty THEN "notify" ELSE "done",
                          ![p].after = "done"]
  /\ UNCHANGED <<tier, live, notifier, ring, space, shards, rx, membership, got>>

\* Full on the first look: a future arms, try_send gives up.  A batch first
\* notifies of what it has published.
Full(p) ==
  /\ prod[p].pc = "try" /\ prod[p].sent < MaxSend
  /\ ~RingOf(p).consumer_gone /\ IsFull(p)
  /\ \E next \in (IF prod[p].batch THEN {"arm"} ELSE {"arm", "done"}) :
       prod' = [prod EXCEPT ![p].pc = IF prod[p].dirty THEN "notify" ELSE next,
                            ![p].after = IF prod[p].dirty THEN next ELSE @]
  /\ UNCHANGED <<tier, live, notifier, ring, space, shards, rx, membership, got>>

\* Mutant: Pending without the second look.
ArmSpaceNoRecheck(p) ==
  /\ prod[p].pc = "arm"
  /\ space' = [space EXCEPT ![prod[p].ring] = Armed(p)]
  /\ prod' = [prod EXCEPT ![p].pc = "pending"]
  /\ UNCHANGED <<tier, live, notifier, ring, shards, rx, membership, got>>

ArmSpace(p) ==
  /\ prod[p].pc = "arm"
  /\ space' = [space EXCEPT ![prod[p].ring] = Armed(p)]
  /\ prod' = [prod EXCEPT ![p].pc = "retry"]
  /\ UNCHANGED <<tier, live, notifier, ring, shards, rx, membership, got>>

StillFull(p) ==
  /\ prod[p].pc = "retry" /\ ~RingOf(p).consumer_gone /\ IsFull(p)
  /\ prod' = [prod EXCEPT ![p].pc = "pending"]
  /\ UNCHANGED <<tier, live, notifier, ring, space, shards, rx, membership, got>>

\* The cooperative yield: disarm, then wake_by_ref.
Yield(p) ==
  /\ prod[p].pc = "yield"
  /\ space' = [space EXCEPT ![prod[p].ring] = Cleared(@)]
  /\ prod' = [prod EXCEPT ![p].pc = "pending", ![p].woken = TRUE]
  /\ UNCHANGED <<tier, live, notifier, ring, shards, rx, membership, got>>

PollSend(p) ==
  /\ prod[p].pc = "pending" /\ prod[p].woken
  /\ prod' = [prod EXCEPT ![p].pc = "try", ![p].woken = FALSE, ![p].budget = Budget]
  /\ UNCHANGED <<tier, live, notifier, ring, space, shards, rx, membership, got>>

CancelSend(p) ==
  /\ prod[p].pc = "pending"
  /\ prod' = [prod EXCEPT ![p].pc = "done"]
  /\ UNCHANGED <<tier, live, notifier, ring, space, shards, rx, membership, got>>

\* The future is dropped.
Done(p) ==
  /\ prod[p].pc = "done"
  /\ space' = [space EXCEPT ![prod[p].ring] = Cleared(@)]
  /\ prod' = [prod EXCEPT ![p] = [Producer("idle", @.ring) EXCEPT !.sent = prod[p].sent]]
  /\ UNCHANGED <<tier, live, notifier, ring, shards, rx, membership, got>>

\* Mutant: only a sender that published something notifies.
NotifyReceiverIfDirty(p) ==
  /\ prod[p].pc = "notify"
  /\ notifier' = IF prod[p].dirty THEN Disarmed(notifier) ELSE notifier
  /\ prod' = [prod EXCEPT ![p].pc = IF notifier.waiting /\ prod[p].dirty THEN "wake"
                                    ELSE prod[p].after,
                          ![p].dirty = FALSE]
  /\ UNCHANGED <<tier, live, ring, space, shards, rx, membership, got>>

\* TaskWaiter::notify on the receiver, by any sender.
NotifyReceiver(p) ==
  /\ prod[p].pc = "notify"
  /\ notifier' = Disarmed(notifier)
  /\ prod' = [prod EXCEPT ![p].pc = IF notifier.waiting THEN "wake" ELSE prod[p].after,
                          ![p].dirty = FALSE]
  /\ UNCHANGED <<tier, live, ring, space, shards, rx, membership, got>>

WakeReceiver(p) ==
  /\ prod[p].pc = "wake"
  /\ notifier' = Taken(notifier)
  /\ rx' = [rx EXCEPT !.woken = @ \/ notifier.waker = RecvTask]
  /\ prod' = [prod EXCEPT ![p].pc = prod[p].after]
  /\ UNCHANGED <<tier, live, ring, space, shards, membership, got>>

\* Drop for Producer disarms while the sender still keeps the ring, then the
\* sender is dropped (producer_gone, then its Arc), then the lease.
ProducerDrop(p) ==
  /\ prod[p].pc = "idle"
  /\ space' = [space EXCEPT ![prod[p].ring] = Cleared(@)]
  /\ ring' = [ring EXCEPT ![prod[p].ring].producer_gone = TRUE]
  /\ prod' = [prod EXCEPT ![p].pc = "unlink"]
  /\ UNCHANGED <<tier, live, notifier, shards, rx, membership, got>>

ReleaseArc(p) ==
  /\ prod[p].pc = "unlink"
  /\ ring' = [ring EXCEPT ![prod[p].ring].arc = FALSE]
  /\ prod' = [prod EXCEPT ![p].pc = "notify", ![p].after = "release"]
  /\ UNCHANGED <<tier, live, notifier, space, shards, rx, membership, got>>

\* Mutant: the last sender leaves silently.
ReleaseQuiet(p) ==
  /\ prod[p].pc = "release"
  /\ live' = live - 1
  /\ prod' = [prod EXCEPT ![p].pc = "gone", ![p].after = "gone"]
  /\ UNCHANGED <<tier, notifier, ring, space, shards, rx, membership, got>>

\* Shared::release: the last one out wakes the receiver.
Release(p) ==
  /\ prod[p].pc = "release"
  /\ live' = live - 1
  /\ prod' = [prod EXCEPT ![p].pc = IF live = 1 THEN "notify" ELSE "gone", ![p].after = "gone"]
  /\ UNCHANGED <<tier, notifier, ring, space, shards, rx, membership, got>>

HandleDrop ==
  /\ prod[Handle].pc = "idle"
  /\ prod' = [prod EXCEPT ![Handle].pc = "release"]
  /\ UNCHANGED <<tier, live, notifier, ring, space, shards, rx, membership, got>>
-----------------------------------------------------------------------------
(* The receiver.  A pass over the shards is try_recv ("one"),              *)
(* try_recv_many ("many") or drain_once ("drain").  Its phase says what a  *)
(* pass that finds nothing leads to: 0 return (the try_ calls); 1 the first*)
(* pass of poll_recv; 2 its final sweep after the disconnect; 3 the pass   *)
(* after arming; 4 the final sweep after that.                             *)

Missed(r) == IF r.pushed > 0 THEN "ready" ELSE "miss"
Visits(r, n) == [r EXCEPT !.pc = IF n = 0 THEN Missed(r) ELSE "visit", !.steps = n, !.at = 0]
Pass(r, phase) ==
  IF tier = "dynamic" THEN [r EXCEPT !.phase = phase, !.pc = "refresh"]
  ELSE Visits([r EXCEPT !.phase = phase], Len(shards))

Count(p, s) == Cardinality({i \in 1 .. Len(s) : s[i] = p})
Deliver(s)  == got' = [p \in Producers |-> got[p] + Count(p, s)]

\* A call: what is staged comes first.
StartRecv(mode, phase) ==
  /\ rx.pc = "idle"
  /\ LET n == IF mode = "many" THEN Smaller(Len(rx.staging), MaxMany) ELSE 0
         call == [rx EXCEPT !.mode = mode, !.phase = phase, !.pushed = n, !.woken = FALSE,
                            !.staging = SubSeq(@, n + 1, Len(@))] IN
       /\ Deliver(SubSeq(rx.staging, 1, n))
       /\ rx' = IF (mode = "one" /\ rx.staging # <<>>) \/ n = MaxMany
                THEN [call EXCEPT !.pc = "ready"] ELSE Pass(call, phase)
  /\ UNCHANGED <<tier, live, notifier, ring, space, prod, shards, membership>>

\* LockedInbox::drain_into: the generation is loaded before the lock is taken.
Refresh ==
  /\ rx.pc = "refresh"
  /\ rx' = IF inbox.generation = rx.seen THEN Visits(rx, Len(shards))
           ELSE [rx EXCEPT !.pc = "append", !.loaded = inbox.generation]
  /\ UNCHANGED <<tier, live, notifier, ring, space, prod, shards, membership, got>>

AppendInbox ==
  /\ rx.pc = "append"
  /\ shards' = shards \o inbox.queue
  /\ inbox' = [inbox EXCEPT !.queue = <<>>]
  /\ rx' = Visits([rx EXCEPT !.seen = rx.loaded, !.loaded = 0], Len(shards'))
  /\ UNCHANGED <<tier, live, notifier, ring, space, prod, free, freelist, got>>

At == (rx.cursor % Len(shards)) + 1
Bumped == (rx.cursor + 1) % CursorPeriod
Limit == IF rx.mode = "many" THEN MaxMany - rx.pushed ELSE Batch

\* drain_in_place_async on one shard: the values are taken and the capacity is
\* published; the producer is notified next.
Drain ==
  LET r == shards[At]
      n == Smaller(Len(ring[r].q), Limit)
      values == SubSeq(ring[r].q, 1, n) IN
  /\ rx.pc = "visit" /\ n > 0
  /\ ring' = [ring EXCEPT ![r].q = SubSeq(@, n + 1, Len(@))]
  /\ IF rx.mode = "one"
     THEN UNCHANGED got /\ rx' = [rx EXCEPT !.pc = "space", !.at = r, !.cursor = Bumped,
                                            !.staging = @ \o values]
     ELSE Deliver(values) /\ rx' = [rx EXCEPT !.pc = "space", !.at = r, !.cursor = Bumped,
                                              !.pushed = @ + n, !.steps = @ - 1]
  /\ UNCHANGED <<tier, live, notifier, space, prod, shards, membership>>

\* try_recv returns on the first hit; the others go on to the end of the pass.
AfterDrain(r) ==
  IF r.mode = "one" \/ (r.mode = "many" /\ r.pushed = MaxMany)
  THEN [r EXCEPT !.pc = "ready", !.at = 0, !.steps = 0]
  ELSE Visits(r, r.steps)

NotifySpace ==
  /\ rx.pc = "space"
  /\ space' = [space EXCEPT ![rx.at] = Disarmed(@)]
  /\ rx' = IF space[rx.at].waiting THEN [rx EXCEPT !.pc = "spacewake"] ELSE AfterDrain(rx)
  /\ UNCHANGED <<tier, live, notifier, ring, prod, shards, membership, got>>

WokenBy(wt) == [prod EXCEPT ![IF wt.waker = NoTask THEN Handle ELSE wt.waker].woken =
                  wt.waker # NoTask]

WakeSpace ==
  /\ rx.pc = "spacewake"
  /\ space' = [space EXCEPT ![rx.at] = Taken(@)]
  /\ prod' = WokenBy(space[rx.at])
  /\ rx' = AfterDrain(rx)
  /\ UNCHANGED <<tier, live, notifier, ring, shards, membership, got>>

DrainEmpty ==
  /\ rx.pc = "visit" /\ ring[shards[At]].q = <<>>
  /\ rx' = [rx EXCEPT !.pc = "finished"]
  /\ UNCHANGED <<tier, live, notifier, ring, space, prod, shards, membership, got>>

\* Mutant: the emptiness seen before the producer left is trusted.
FinishedUnchecked(r) == ring[r].producer_gone

\* is_finished: the producer is gone and, looked at after that, nothing is left.
Finished(r) == ring[r].producer_gone /\ ring[r].q = <<>>

\* Mutant: the cursor stays on an empty shard.
NotFinishedStays ==
  /\ rx.pc = "finished" /\ ~Finished(shards[At])
  /\ rx' = Visits(rx, rx.steps - 1)
  /\ UNCHANGED <<tier, live, notifier, ring, space, prod, shards, membership, got>>

NotFinished ==
  /\ rx.pc = "finished" /\ ~Finished(shards[At])
  /\ rx' = Visits([rx EXCEPT !.cursor = Bumped], rx.steps - 1)
  /\ UNCHANGED <<tier, live, notifier, ring, space, prod, shards, membership, got>>

\* Mutant: the reset does not wait for the sender's Arc.
RecycleEarly ==
  /\ rx.pc = "finished" /\ tier = "pool" /\ Finished(shards[At])
  /\ ring' = [ring EXCEPT ![shards[At]] = FreshRing]
  /\ space' = [space EXCEPT ![shards[At]] = Cleared(@)]
  /\ free' = free \cup {shards[At]}
  /\ rx' = Visits([rx EXCEPT !.cursor = Bumped], rx.steps - 1)
  /\ UNCHANGED <<tier, live, notifier, prod, shards, inbox, freelist, got>>

\* PoolState::dispose resets the ring in place if the Arc is gone, and frees
\* its slot.
Recycle ==
  /\ rx.pc = "finished" /\ tier = "pool" /\ Finished(shards[At])
  /\ LET r == shards[At] IN
       IF ring[r].arc THEN UNCHANGED <<ring, space, free>>
       ELSE /\ ring' = [ring EXCEPT ![r] = FreshRing]
            /\ space' = [space EXCEPT ![r] = Cleared(@)]
            /\ free' = free \cup {r}
  /\ rx' = Visits([rx EXCEPT !.cursor = Bumped], rx.steps - 1)
  /\ UNCHANGED <<tier, live, notifier, prod, shards, inbox, freelist, got>>

SwapRemove(s, i) == [j \in 1 .. Len(s) - 1 |-> IF j = i THEN Last(s) ELSE s[j]]

\* FixedState and DynamicState remove the shard: the last one takes its place
\* and the cursor stays.  The ring is parked if the FreeList has room; else
\* its drop closes it and notifies the producer.
Prune ==
  /\ rx.pc = "finished" /\ tier # "pool" /\ Finished(shards[At])
  /\ shards' = SwapRemove(shards, At)
  /\ IF tier = "dynamic" /\ Len(freelist) < MaxPooled
     THEN freelist' = Append(freelist, shards[At]) /\ UNCHANGED <<ring, space>>
     ELSE /\ ring' = [ring EXCEPT ![shards[At]].consumer_gone = TRUE]
          /\ space' = [space EXCEPT ![shards[At]] = Disarmed(@)]
          /\ UNCHANGED freelist
  /\ rx' = IF shards' = <<>> THEN Visits(rx, 0) ELSE Visits(rx, rx.steps - 1)
  /\ UNCHANGED <<tier, live, notifier, prod, free, inbox, got>>

\* The pass found nothing: load the live count and go on by the phase.
Miss ==
  /\ rx.pc = "miss"
  /\ rx' = CASE rx.phase = 0 -> [rx EXCEPT !.pc = "idle"]
             [] rx.phase \in {1, 3} /\ live = 0 -> Pass(rx, rx.phase + 1)
             [] rx.phase = 1 /\ live # 0 -> [rx EXCEPT !.pc = "arm"]
             [] rx.phase = 3 /\ live # 0 -> [rx EXCEPT !.pc = "pending"]
             [] OTHER -> [rx EXCEPT !.pc = "ended"]
  /\ notifier' = IF rx.phase = 4 THEN Cleared(notifier) ELSE notifier
  /\ UNCHANGED <<tier, live, ring, space, prod, shards, membership, got>>

\* Mutant: Pending without the second pass.
ArmReceiverNoRecheck ==
  /\ rx.pc = "arm"
  /\ notifier' = Armed(RecvTask)
  /\ rx' = [rx EXCEPT !.pc = "pending", !.phase = 3]
  /\ UNCHANGED <<tier, live, ring, space, prod, shards, membership, got>>

ArmReceiver ==
  /\ rx.pc = "arm"
  /\ notifier' = Armed(RecvTask)
  /\ rx' = Pass(rx, 3)
  /\ UNCHANGED <<tier, live, ring, space, prod, shards, membership, got>>

\* Ready: a pass after arming disarms, and so does the drop of the future,
\* but not a direct call of poll_recv.
Ready ==
  /\ rx.pc = "ready"
  /\ IF rx.mode = "one" THEN Deliver(<<Head(rx.staging)>>) ELSE UNCHANGED got
  /\ rx' = [rx EXCEPT !.pc = "idle", !.mode = "one", !.phase = 0, !.pushed = 0, !.steps = 0,
                      !.staging = IF rx.mode = "one" THEN Tail(@) ELSE @]
  /\ \/ notifier' = Cleared(notifier)
     \/ rx.phase \notin {3, 4} /\ notifier' = notifier
  /\ UNCHANGED <<tier, live, ring, space, prod, shards, membership>>

PollRecv ==
  /\ rx.pc = "pending" /\ rx.woken
  /\ rx' = Pass([rx EXCEPT !.woken = FALSE], 1)
  /\ UNCHANGED <<tier, live, notifier, ring, space, prod, shards, membership, got>>

CancelRecv ==
  /\ rx.pc = "pending"
  /\ notifier' = Cleared(notifier)
  /\ rx' = [rx EXCEPT !.pc = "idle", !.mode = "one", !.phase = 0, !.woken = FALSE]
  /\ UNCHANGED <<tier, live, ring, space, prod, shards, membership, got>>

\* Drop for Receiver: disarm, then every shard is closed and its producer is
\* notified; what is staged or queued is dropped.
ReceiverDrop ==
  /\ rx.pc \in {"idle", "ended"}
  /\ notifier' = Cleared(notifier)
  /\ rx' = [rx EXCEPT !.pc = "shut", !.mode = "one", !.phase = 0, !.staging = <<>>, !.cursor = 0,
                      !.woken = FALSE]
  /\ UNCHANGED <<tier, live, ring, space, prod, shards, membership, got>>

ShutShard ==
  /\ rx.pc = "shut"
  /\ IF shards = <<>> THEN rx' = [rx EXCEPT !.pc = "gone"] /\ UNCHANGED ring
     ELSE /\ ring' = [ring EXCEPT ![Head(shards)].consumer_gone = TRUE]
          /\ rx' = [rx EXCEPT !.pc = "shutnotify"]
  /\ UNCHANGED <<tier, live, notifier, space, prod, shards, membership, got>>

\* Both halves of a drop of a Shard that follow the close.
NotifyAndWake(r) ==
  /\ space' = [space EXCEPT ![r] = IF @.waiting THEN Taken(Disarmed(@)) ELSE @]
  /\ prod' = IF space[r].waiting THEN WokenBy(space[r]) ELSE prod

\* Mutant: a closed shard's producer is not notified.
ShutQuietly ==
  /\ rx.pc = "shutnotify"
  /\ shards' = Tail(shards)
  /\ rx' = [rx EXCEPT !.pc = "shut"]
  /\ UNCHANGED <<tier, live, notifier, ring, space, prod, membership, got>>

ShutNotify ==
  /\ rx.pc = "shutnotify"
  /\ NotifyAndWake(Head(shards))
  /\ shards' = Tail(shards)
  /\ rx' = [rx EXCEPT !.pc = "shut"]
  /\ UNCHANGED <<tier, live, notifier, ring, membership, got>>

\* The inbox goes with the later of the receiver and the registrar.
DropInbox ==
  /\ rx.pc = "gone" /\ prod[Handle].pc = "gone" /\ inbox.queue # <<>>
  /\ ring' = [ring EXCEPT ![Head(inbox.queue)].consumer_gone = TRUE]
  /\ NotifyAndWake(Head(inbox.queue))
  /\ inbox' = [inbox EXCEPT !.queue = Tail(@)]
  /\ UNCHANGED <<tier, live, notifier, shards, rx, free, freelist, got>>

-----------------------------------------------------------------------------
\* What a sender that has begun an operation does next.
SenderStep(s) ==
  \/ NotifyReceiver(s) \/ WakeReceiver(s) \/ ReleaseArc(s) \/ Release(s)
  \/ /\ s \in Producers
     /\ \/ Push(s) \/ BatchEnd(s) \/ Refused(s) \/ Full(s) \/ ArmSpace(s) \/ StillFull(s)
        \/ Yield(s) \/ PollSend(s) \/ Done(s)
  \/ /\ s = Handle
     /\ SkipLingering \/ \E p \in Producers : Deposit(p) \/ Deposited(p)

\* What its caller may ask it for.
SenderCall(s) ==
  \/ /\ s \in Producers
     /\ \/ Claim(s) \/ (\E batch \in Batches : StartSend(s, batch))
        \/ CancelSend(s) \/ ProducerDrop(s)
  \/ s = Handle /\ (Register \/ HandleDrop)

ReceiverStep ==
  \/ \E call \in Calls : StartRecv(call[1], call[2])
  \/ Refresh \/ AppendInbox \/ Drain \/ NotifySpace \/ WakeSpace \/ DrainEmpty
  \/ NotFinished \/ Recycle \/ Prune \/ Miss \/ ArmReceiver \/ Ready \/ PollRecv
  \/ ShutShard \/ ShutNotify \/ DropInbox

Over == /\ \A s \in Senders : prod[s].pc \in {"gone", "unborn"}
        /\ rx.pc \in {"ended", "gone"}
        /\ UNCHANGED vars

Next ==
  \/ \E s \in Senders : SenderStep(s) \/ SenderCall(s)
  \/ ReceiverStep \/ CancelRecv \/ ReceiverDrop
  \/ Over

Spec == Init /\ [][Next]_vars

\* Executors poll the tasks that were woken and a poll runs to its end; the
\* application keeps receiving while the receiver exists.  Nobody has to send,
\* join, cancel or leave.
Fairness == WF_vars(ReceiverStep) /\ \A s \in Senders : WF_vars(SenderStep(s))

FairSpec == Spec /\ Fairness

-----------------------------------------------------------------------------
(* Properties.                                                             *)

\* A notification of the receiver that is still to come and will reach it.
WakeOwed ==
  /\ notifier.waker = RecvTask
  /\ \E s \in Senders : \/ prod[s].pc = "wake"
                        \/ /\ notifier.waiting
                           /\ prod[s].pc \in {"notify", "unlink"} \/ prod[s].dirty

Known(r) == r \in ToSet(shards) \cup ToSet(inbox.queue)

\* No lost wake-up of the receiver ("Register -> recheck is mandatory ... the
\* second pass closes that lost-wake window", poll_recv): a receiver that
\* returned Pending and was not woken has missed no value, no disconnect and
\* no finished shard that a wake is not still owed for.
NoLostWake ==
  rx.pc = "pending" /\ ~rx.woken =>
    \/ WakeOwed
    \/ /\ live > 0
       /\ \A r \in Rings : Known(r) => ring[r].q = <<>> /\ (ring[r].producer_gone => ring[r].arc)

\* No lost wake-up of a producer ("no timer, spin, or runtime-specific
\* primitive is needed", SendFuture::poll): a send that returned Pending and
\* was not woken waits on a full, open ring or is about to be notified.
NoLostSpace ==
  \A p \in Producers : prod[p].pc = "pending" /\ ~prod[p].woken =>
    \/ IsFull(p) /\ ~RingOf(p).consumer_gone
    \/ /\ space[prod[p].ring].waker = p
       /\ \/ rx.at = prod[p].ring /\ rx.pc = "spacewake"
          \/ /\ space[prod[p].ring].waiting
             /\ \/ rx.at = prod[p].ring /\ rx.pc = "space"
                \/ rx.pc = "shutnotify" /\ Head(shards) = prod[p].ring

\* "Ready(None) only after all producers/registrars are gone and every
\* buffered value has been delivered" (poll_recv).
EndsDrained == rx.pc = "ended" => live = 0 /\ \A p \in Producers : got[p] = prod[p].sent

Active(p) ==
  \/ prod[p].pc \in {"idle", "try", "arm", "retry", "yield", "pending", "done"}
  \/ prod[p].pc \in {"notify", "wake"} /\ prod[p].after \in {"done", "arm", "yield"}

\* A ring that changes hands (pool slots, recycled dynamic rings) carries
\* nothing over: while a producer uses it, it is the only one to, the ring
\* holds no other producer's value or waker and is not marked finished.
SoleOwner ==
  \A p \in Producers : Active(p) =>
    /\ \A o \in Producers \ {p} : Active(o) => prod[o].ring # prod[p].ring
    /\ ToSet(RingOf(p).q) \subseteq {p} /\ ~RingOf(p).producer_gone /\ RingOf(p).arc
    /\ space[prod[p].ring].waker \in {p, NoTask} /\ prod[p].ring \notin free

\* Every value sent is received, unless the receiver is dropped.
Delivered ==
  (\E p \in Producers : got[p] < prod[p].sent)
    ~> (rx.pc = "gone" \/ \A p \in Producers : got[p] = prod[p].sent)

\* The last sender's departure is noticed.
DisconnectSeen == live = 0 ~> rx.pc \in {"ended", "gone"}

\* Blocked sends return, whether the receiver receives or is dropped.
SendsReturn ==
  (\E p \in Producers : prod[p].pc = "pending") ~> (\A p \in Producers : prod[p].pc # "pending")

\* A finished ring is reclaimed: a pool slot whose producer left and whose
\* values were taken can be claimed again, a dynamic shard is pruned.
SlotReturns ==
  \A r \in Rings :
    ring[r].producer_gone /\ r \in ToSet(shards)
      ~> (~ring[r].producer_gone \/ r \notin ToSet(shards))
=============================================================================
