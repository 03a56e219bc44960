# prescient in TLA+

prescient is a Rust crate of channels. Every engine in it is built from one
wait-free single-producer single-consumer ring and adds a protocol around it:
who may drain a ring, who has to be woken, how a ring changes hands, and how the
end of the stream is recognised. This project models those protocols, checks
them with TLC on small instances, and proves the safety of the ring, of every
modelled engine (broadcast, async MPSC, brokerless, leased, lanes, brokered, IPC)
and of the validation of `open` with TLAPS, for every capacity and every number
of endpoints. Source paths below are relative to the repository's `src/`
unless they start with `tests/` or `docs/`.

## 1. Inventory

| Component | State | Operations | Hard because |
|---|---|---|---|
| SPSC ring, `backend/ring.rs` | head and tail cursors (wrapping usize), slots, two liveness flags, each end's cached peer cursor | `try_push`, `push_from`, `try_pop`, `drain_into`, `drain_in_place`, `is_finished`, `recycle`, three drops | two threads on the same slots, stale caches, wrap, callbacks that panic, a send racing teardown |
| Owned batches, `backend/batch.rs` | a buffer with a consumed prefix | iterate, drop the rest | single-threaded |
| Segmented backend, `backend/seg.rs` | linked segments, a consumer-gone flag | push, pop, grow, teardown walk | growth against a running consumer, teardown |
| Broadcast, `mpmc/broadcast/mod.rs` | published position, slots, reader bitmap, a cursor per reader, the membership-scan lock, the publisher's cached minimum | `try_send`, `send`, `send_batch`, `subscribe`, `try_recv`, `drain`, `for_each`, `suspend`, `resume`, drops | a reader that activates during the gating scan; cached minimum |
| MPSC engine, `mpsc/chan.rs`, and its tiers `fixed.rs`, `pool.rs`, `dynamic.rs` | live count, receiver waiter, shards with a space waiter each, cursor, staging, free slots, inbox with a generation, free list | sends and batches, sync and async; `recv`, `recv_many`, `drain`; claim, register, drops, cancellation | lost wake-ups, order of the drops, recycling of rings, disconnect |
| Wake primitives, `task_waker.rs`, `park/*.rs` | a waiting flag, a waker or thread, an epoch | arm, clear, notify; park, unpark | flag and waker change in separate steps |
| Brokerless MPMC, `mpmc/brokerless/mod.rs`, `scan.rs`, `round_robin.rs` | a claim flag per ring, live producers and consumers, per-consumer cursor, credit and staging | `send`, `send_batch`, `try_recv`, `recv`, `recv_batch`, `drain`, `for_each`, clone, drops | competing consumers, panics under the claim, end of stream, fairness of the scan |
| Dynamic brokerless, `mpmc/brokerless/dynamic.rs` | locked list with snapshots, or array of cells with a reserved length; registrars | `register`, registrar clone and drop | rings that appear during a scan, cells not yet filled |
| Leased MPMC, `mpmc/brokerless/leased.rs` | a pool of blocks per producer, a forward ring, a return ring per consumer, the number in flight | `try_reserve`, `reserve`, `commit`, `reclaim`, `flush`, `try_recv`, `recv`, write and read leases and their drops | blocks travel through two queues and must come back once; destructors that panic; flush against the last consumer |
| Lanes, `mpmc/lanes.rs` | a ring per producer and consumer, the abandoned lanes, live counts | `try_send`, `send`, `send_batch`, `recv`, `recv_batch`, `drain`, `for_each`, drops | lanes whose consumer left must be adopted before everybody ends |
| Brokered, `mpmc/brokered/mod.rs` | a ring per producer, a ring per broker and consumer, the brokers' sweeps | sends, receives, the policies round robin, route and pub-sub, spawn, shutdown | a middle thread that must shut down without loss, closures that panic, a spawn that fails |
| IPC streams, `ipc/stream.rs`, `region.rs`, `control.rs` | two descriptor rings per direction, payload slots with generations, role claims, the control socket | `send`, `send_to_end`, `receive`, `receive_to_end`, create, attach | a slot reused while the peer copies it, processes that die, calls of different kinds on the two sides |
| IPC destinations, `ipc/destination.rs` | a typed buffer | fill, check the length | single owner |
| IPC events and set-up, `ipc/event.rs`, `setup.rs`, `mod.rs` | sequence and waiter words, OS events, handshake state | notify, wait, create, join, accept, reject | a registration taken by a late notification, a peer lost during set-up |
| Declarations, `declaration.rs`, `open.rs` | a shape and type-level axes | selectors, setters, `open` | overflow of the arithmetic, sizes kept across a change of topology |
| `select!`, `select/mod.rs` | none | polls receivers in turn | nothing of its own |

How they interact: the MPSC engine and both brokerless tiers own one ring per
producer; a receiver or claiming consumer is that ring's only consumer. The
async engine notifies a `TaskWaiter` after every publication and after every
release of slots. The dynamic tiers hand new rings to the receiving side through
an inbox or a shared list. Leased channels send blocks through brokerless
rings and back through return rings. The broker is the consumer of the
producers' rings and the producer of the consumers' rings. The two processes of
a duplex share nothing but two regions per direction and a control socket, whose
end is the only sign of a dead peer. `open` validates a declaration and builds
the endpoints of the engine its axes name.

What makes each correct: the **ring** is a FIFO queue that never shares a slot
and destroys every value once; **broadcast** never overwrites a slot that is
being read, never laps and never skips; **MPSC** loses no wake-up, value or
disconnect and passes a ring on clean; **brokerless** delivers every value once,
in its producer's order, lets no ring starve and strands nothing at the end;
**leased** blocks are in one place at a time and flush tells the truth; **lanes**
and **brokered** deliver once, strand nothing and end everybody; **IPC** never
overwrites a slot that is being copied, reports Ok for whole transfers only,
opens a side only when its peer agreed and claimed its roles (the worker may be
open while the parent dies before it reads the acknowledgement), and never
sleeps past a notification; `open` builds only what its engines can work with.

`PROJECT.json` lists all components, with what is not modelled, and the hazards
of the code, each at its line with the properties that would catch it.

## 2. Plan

| Order | Module | Models | Builds on | State |
|---|---|---|---|---|
| 1 | `SpscQueue` | what a ring promises | | done |
| 2 | `Ring`, `RingProofs` | `backend/ring.rs` | refines `SpscQueue` | done, safety and refinement proved |
| 3 | `Broadcast`, `BroadcastProofs` | `mpmc/broadcast` | | done, safety proved |
| 4 | `MpscAsync`, `MCMpscAsync`, `MpscProofs` | async MPSC, `task_waker.rs`, three tiers | rings as queues | done, safety proved (`NoLostWake` where it holds) |
| 5 | `Brokerless`, `BrokerlessProofs` | brokerless MPMC, fixed and dynamic | rings as positions | done, safety proved |
| 6 | `Declaration` | builder, validation and capacities of every `open` | | done, safety proved in `GridProofs` |
| 7 | `Grid`, `Lanes`, `Brokered`, `MCGrid`, `GridProofs` | lane grid and adoption; broker threads and policies | opened through `Declaration`, rings as queues | done, safety proved |
| 8 | `Leased`, `MCLeased`, `LeasedProofs` | block leases | opened through `Declaration`, rings as queues | done, safety proved |
| 9 | `IpcStream`, `Ipc`, `MCIpc`, `IpcProofs` | events, streams, set-up, crashes | `Ipc` extends `IpcStream` | done, safety proved |
| 10 | `MpscSync` | blocking receive with each park primitive | `MpscAsync`'s tiers | planned |

Abstract specifications: `SpscQueue` for the ring. `Grid` holds the promises that
the lane grid and the brokered channel share, stated once over their common
state.

## 3. The modules and the code

**`SpscQueue`**: a bounded FIFO whose two ends can be closed, with bulk sends and
receives. It says what the other modules assume of a ring.

**`Ring`**: each step makes at most one access to shared state. `TryPush` and
`PushFrom` check for room (`Room`, reloading the head only when the cache says
full), `WriteSlot` fills one slot, `Publish` stores the tail. On the other side
`TryPop`, `DrainInto` and `DrainInPlace` find the window, `ReadSlot` moves one
value out, `Commit` releases the slots; `CallbackPanics` is the unwinding of the
caller's closure, whose guard releases exactly what was moved out. `Recycle` is
the reset for the next producer. The drops of both ends and of the allocation
are steps of their own, and `InnerDropSlot` drops what is left. Cursors live in
0..Word-1 and wrap, as usize does at 2^64; the i-th value sent is the number i.
A relaxed or acquire load that returns an old value is the same as a load made
earlier, which the caches already allow.

**`Broadcast`**: `BeginSend`, `Gate`, `ScanBegin`, `ScanCursor` (one reader's
cursor per step), `ScanEnd`, `WriteSlot`, `Publish` for the publisher;
`Subscribe` or `Resume`, then `ActivateBegin` and `ActivateEnd` around the lock,
`StartRead`, `CloneSlot`, `CommitCursor`, `Suspend`, `Leave` for readers;
`TearDown` for the last owner. The initial reader is bit 0. Positions are
naturals, so the wrap of `position >= cap` on 32-bit targets is outside the
model (listed as a hazard without a property).

**`MpscAsync`**: a poll is broken where it touches shared state. For the sender:
push, notify (swap of `waiting`) and wake (take of the waker) are three steps;
a full ring leads to arm, then one more try, then Pending. For the receiver: one
visit of a shard, its notification of space, the finished check and disposal,
the second pass after arming. `ProducerDrop`, `ReleaseArc`, notify and `Release`
follow the order of the producer's fields. `Claim` (pool), `Register`,
`SkipLingering`, `Deposit`, `Refresh`, `Recycle` and `Prune` are the membership
of the three tiers. Futures may be dropped while pending (`CancelSend`,
`CancelRecv`), the receiver at any time between calls. The look at
`is_consumer_gone` belongs to the push after it. Clones of `PoolHandle` and
`Registrar` are left out: they are further handles in `live`, of which the model
has one. Atomics are sequentially
consistent; the fences in `TaskWaiter::arm` and `notify` are there for that. The
assumption on the constants says what `open` and the API allow: a fixed channel
has a producer for each ring, a drain makes one pass, and the cursor's period is
a multiple of every length of the vector of shards.

**`Brokerless`**: `tier` selects the fixed slots, the locked list with
per-consumer snapshots, or the array of cells. A consumer call is `Begin`
(staged values first), then passes of `Select` (the cursor advances before any
claim), `Claim`, `Read`, `Commit`, `Release`; `EndPass` looks at the live count
and makes one more pass before it ends the call. `DrainPanics` and `Unwind` are
the panic of the caller's closure under the claim. The loop of `for_each` is the
caller's loop of drain-like calls; `send` is a batch of one; a `try_send` that
fails changes nothing. The load of the ring count belongs to the start of the
pass and the load of the live count to its end, because both only fill local
variables. `Read` uses the number of values in the ring; a `tail_cache` that is
behind finds fewer of them, as if it had read earlier. In the endless instance
positions wrap at `Period` and the delivery history is not kept.

**`MCMpscAsync`** only names the receive calls each MPSC run explores, and
**`SequenceFacts`** holds lemmas on sequences and round-robin scans that three
proof modules share.

**`Declaration`**: a declaration is the record of `Shape` and the axes.
`Select`, `Refine` and `SetNumber` are the builder's methods, each available on
the axes the code's `impl` blocks name; the shape is kept when the topology
changes, as in the code. `Declarations` is what the types admit. `HasOpen` says
which combinations have an `open`, `Opens` what each validates, in machine
integers of `UsizeBits` bits. Capacities follow `native_capacity`,
`automatic_ring_capacity`, `quantized_capacity` and `leased_capacity`. The
`Layout::array` checks of a leased block (`leased.rs:151-155`) are left out, so
the model refuses less there. The execution and wait axes pick types only and
are left out; `manual` differs from a spawned broker only in who runs it.

**`Grid`, `Lanes`, `Brokered`**: `Grid` has the rings, endpoints, round-robin
cursors, sends and producers' drops that both engines have, and their promises.
A drain of one ring is one step (the ring is proved to be a queue) unless a
value's delivery can wait, and the check for a gone peer belongs to the push it
precedes. In `Lanes` a receive goes lane by lane (`LanesScan`), then `Adopt`
takes all abandoned lanes under the mutex and the scan is repeated, then
`LanesEmpty` looks at the live count and makes a final pass before it ends.
`LanesConsumerDrop` hands the lanes over before `LanesLeave` counts the consumer
off. In `Brokered` a sweep is one `Drain` per producer ring, `Pick` is the
policy's closure with any answer it may give, `ForwardTo` and `ForwardRr` place
one value in one ring, `DrainCommit` releases the slots, `Swept` ends the sweep
and, after an empty sweep that began with every producer gone, the thread.
`PolicyPanics` is a routing closure, or the clone pub-sub makes for every target
but the last, that panics: it unwinds the broker and drops its ends of all rings.
As for the push of a producer, the look at a gone consumer in `BrokeredSend`,
`ForwardTo` and `ForwardRr` is one step with the push after it; `Spawn` and
`SpawnFails` are the iterations of `finish_spawned_open`, the failing one with
everything it drops.

**`Leased`**: a block is a number and is in the free list, lent, in the forward
ring, held by a consumer or in a return ring. `reserve` and `flush` are `Call`,
`Gate`, one `Returned` per return ring, `NoneReturned`, `Clear` and `Flush`;
`try_reserve`, `reclaim` and `try_recv` are the same calls given up after a pass
(`GiveUp`, `ReceiveNone`). `ClearPanics` is a destructor that panics: reserve
has its rollback guard, reclaim has put the block back before. What a block
holds is reduced to whether it holds anything. A release with or without
draining is one action that may or may not empty the block. `Skip` lets a consumer look at
the forward rings in any order, where `Cursor` prefers the productive one and
clones start at different places. Forgetting a lease
with `mem::forget` is left out.

**`IpcStream`**: one direction of a duplex, the other is idle but may fail
(`OtherHalfFails`: both share the socket). `ProduceNext` is what the loops of
`produce` and `produce_to_end` do next; `Try` is `Arena::push` or `Arena::pop`.
`StoreSequence`, `ClaimWaiter` and `Wake` are the three shared steps of
`ProcessEvent::notify`; `Observe`, `Recheck`, `Register`, `Park`, `Woken` or
`Expire`, and `ClearWaiter` those of `wait`, with the kernel's side of a futex
(compares, forgets a wake nobody sleeps for) or of a FIFO or event object (keeps
a token). `Recheck` contains the first load of the sequence, `Park` the second
load with the kernel's test, `ClearWaiter` the last load; interrupted system
calls only repeat the wait. `Deadline` is the time-out of the whole wait, `Peek`
the look at the socket after an interval. Bytes are named by call, offset and
length, and checksums by the bytes they cover, so equal checksums mean equal
bytes. Lengths, short tails, slot indices and generations are computed as in the
code. A failed call shuts the socket down and no more: `Return` leaves frames and
slots as they are, and `Call` may begin the next call over them, as the code's
endpoints may. `Unretried(p)` says that p has not done so; `Custody` and
`OkMeansWhole` are stated under it, `SlotExclusive` is `Custody` without it.

**`Ipc`**: `Bind`, `Connect`, `Accept` and its time-out for the rendezvous;
`CreateDirection`, `SendHandle`, `ReadAck` for `create`; `ReadHandle`,
`CheckContract`, `OpenDirection`, `AcceptSetup` for `attach_peer`; `SetupError`
and `Crash` at every point, with what a dropped and what a killed process leaves
behind. `ModeAllowed` gives the typed endpoints their calls; the length check of
`PodDuplex::send`, which returns before a transfer begins, and the errors of a
codec are left out. Handles and acknowledgements are their fields, not their bytes; the
POSIX rules for names of regions are used (on Windows a region lives as long as
a handle does).

## 4. The runs

| Run | Instance | Shows |
|---|---|---|
| `ring` | 4 slots, cursors modulo 8, 11 values, batches up to 5 | slots are never shared, values come out once and in order, nothing leaks, and the ring refines `SpscQueue` |
| `broadcast` | 2 slots, 2 readers, 5 values, 3 joins | no torn read, no lap, no gap, one drop per value, a blocking send returns |
| `mpsc_fixed` | 2 producers of 2 values, rings of 1 | no lost wake-up on either side, nothing left at the end, every value received, disconnect seen, blocked sends return |
| `mpsc_churn` | pool and dynamic tiers, 1 ring used by 2 producers in turn, batches, bulk receives | a ring that changes hands carries nothing over, no wake-up is lost with batches and the inbox, finished rings come back |
| `mpsc_scan` | 3 fixed shards (expected violation) | see section 7 |
| `brokerless` | 2 rings of 2, 2 consumers, staged and in-place calls, quantum 2, panics, drops | one consumer per ring, at most one delivery, producer order, nothing stranded |
| `brokerless_dynamic` | locked and array tiers, 3 producers for 2 cells, 2 registrars, 2 consumers | registration during scans strands nothing, the array's bound holds, consumers end |
| `brokerless_hot` | 2 rings, 2 consumers that poll, producers that never stop | no ring starves, a blocked send returns |
| `grid` | every chain of up to 3 builder calls; 2 lane grids and 6 brokered channels of 1-2 producers, consumers and brokers, all policies | `open` is sound; values arrive at most once and in order; a consumer told the end has nothing left in its rings, and all values were delivered if nobody left early and nothing panicked; a dropped consumer's lanes are adopted while a producer lives; everybody ends |
| `leased` | pools of 1-3 blocks, 1-2 producers and consumers, up to 4 commits each, 1 panic | no block is lost or doubled, flush is honest, waiting calls return |
| `ipc` | token events; 3 chunks through 2 slots, 1 chunk through 1 slot in 2 sized calls a side, retried or not, a shape too long; 3 payload contracts | a side opens with a peer that agreed and claimed its roles, no lost wake-up, calls return without the deadline; slot custody until a failed send is retried, Ok means whole until a failed call is |
| `ipc_wake` | futex events, 3 chunks through 2 slots (expected violation) | see section 7 |

Bounds and why they are enough. `ring`: 11 values take both cursors past the
wrap at 8 and the slots past their wrap at 4, and a batch of 5 exceeds the
capacity, so partial batches occur. `broadcast`: 5 values pass the ring twice; 3
joins allow a subscribe, a suspend with resume, and a second resume, each
against every point of a scan. `mpsc_fixed`: rings of one slot make every second
send meet a full ring; two values per producer allow a value before and after
each wait. `mpsc_churn`: one ring forces reuse. `brokerless`: a batch of three
does not fit a ring of two, so sends block and resume; quantum 2 is the smallest
with a preferred visit. `brokerless_dynamic`: three producers for two cells
reach the refused registration. `grid`: rings of one and two slots make senders
and brokers wait; one consumer may leave early with lanes or rings that are not
empty; the numbers of the builder are zero, one, a size that is no power of two
and one that has no power of two above it in 17 bits, and 65 is one more than a
bitmap holds. `Sends(d)` gives two values to two producers and to pub-sub, three
to the others, so that a value waits behind another. `leased`: a pool of three
blocks does not fill its rings of four, one block per producer makes reserve
wait; `Commits(d)` lets every block travel at least once. `ipc`: three chunks
through two slots reuse a slot, the last one short; readers of 2, 5 and 6
bytes are too short, exact and too long for it; one slot for two calls meets
what a call leaves behind, whether it succeeded or failed, with sized calls only
(`SizedCalls`; the proofs have no such bound); generations beyond
`MaxGeneration` are refused. `MaxSend`, `MaxSeq`,
`MaxItems`, `MaxJoins`, `NumProducers`, `MaxRegistrars`, `MaxAbandoned`,
`MaxEdits`, `MaxEarly`, `MaxCommits`, `MaxPanics`, `MaxChunks` are bounds of the
instances and not limits of the code. No symmetry is used: rings and readers are
ordered by the scans.

Deadlock is checked in the runs of `Ring`, `Broadcast`, `MpscAsync` and
`Brokerless`, which have an `Over` step for states in which everybody has left.
The other runs end in many ways (refused declarations, failed set-ups, bounds
reached, everybody gone) and do not check it; that nobody is stuck in a call is
what their liveness properties say.

Fairness. A thread inside a blocking call keeps running, so its steps are weakly
fair: `PublisherStep` in `Broadcast`, `ProducerStep` in `Brokerless`. Readers
and consumers finish a call and their caller calls again: that is what
`for_each` and the documented receive loops do, and the liveness properties are
about such callers. In `MpscAsync` an executor polls woken tasks and a poll runs
to its end. In `grid` and `leased` calls in progress and broker threads go on
and consumers release what they hold and call again until they are told the end;
`flush` documents that it waits for leases. In `ipc` a process in a call
keeps running, its reader and writer return, and a park ends by a wake or its 10
ms interval; the deadline of a call is never counted on. Nobody has to send,
join, clone, cancel, suspend or leave, and no step is strongly fair: the claim
flag is taken by try-lock, so no consumer may rely on winning it.

Mutants. Each property of a passing run has a mutated definition of the code
that breaks it (a dropped re-check, an off-by-one in the room, a missing notify,
an unbounded preference ...); `PROJECT.json` names them.

## 5. Proofs

The proofs hold for every value of the constants that satisfies the named
assumptions of the model's modules: capacities, batch sizes, budgets and numbers
of endpoints are positive naturals, bounds are naturals, the sets of calls,
tiers and policies contain only what the code offers. Each of the theorems below
is an invariant (or action property) of the full specification of its module,
and each inductive invariant was model-checked on the instances of the runs
before it was proved. `SequenceFacts` has what the proofs need of sequences
without duplicates, among them that one over a finite set is no longer than the
set, and of scans that go round from a cursor (`Passed`: the positions a scan has
been at; one more step adds exactly the next).

**`RingProofs`** (the cursor range is a multiple of the capacity, of at least
two; in the code both are powers of two): `TypeCorrect`, `OwnershipCorrect`,
`FifoCorrect`, `NoLeak`, `RefinementCorrect`. None of the invariants is inductive
alone: that a slot is free depends on a cached head read long before. `RingInv`
adds that each cached cursor errs on the safe side (`CursorInv`), that a
reservation fits above it (`ProducerInv`), that the consumer's window lies within
what was published (`ConsumerInv`) and that the slots from head to the last write
hold consecutive values (`ContentsInv`). The lemma that carries it is
`SlotInjective`: offsets less than a ring apart fall on different slots, across
the wrap. For the refinement, `FlagInv` relates the liveness flags to the
endpoints, and each action of `Ring` is shown to be the action of `SpscQueue` it
commits, or a stutter: under `RingInv` the slots from head to tail hold exactly the
numbers from the next to receive to the last published.

**`BroadcastProofs`**: `BroadcastTypeCorrect`, `TornReadFree`, `LapFree`,
`GapFree`, `DropCorrect`. `IInv` adds who holds the lock and who gates
(`LockInv`), that the publisher is at most a ring above its cached minimum
(`WindowInv`), that this minimum is below the cursor of every gating reader and
below the position an activating reader is about to store (`ReaderInv`), that a
running scan bounds the cursors it has passed (`ScanInv`), and the contents of
the last ring of values (`ContentInv`). The interesting step is a reader that
activates while the publisher gates: the lock makes it either part of the scan or
start at or above the published position the scan began with. `DropInv` says
which values have been dropped, by an overwrite or by the teardown.

**`MpscProofs`**: `OwnCorrect`, `SpaceCorrect`, `EndCorrect`, `WakeCorrect`.
After the types and the places each actor can be in (`BaseInv`), `OwnInv`
follows a ring through its life. `HoldInv`: a producer that has not dropped its
Arc is the only one with its ring, and the ring is neither free nor being
deposited. `UseInv`: such a ring has only its producer's values and waker.
`CleanInv`: a ring that waits for its next producer is empty, open and without a
waker; this is what `Recycle` and `Release` have to establish and what `Claim`
and `Register` rely on, and it needs that a waiter whose `needs_clear` is false
has nothing in it. `ListInv`: a ring is in one list at most, and only finished
rings are parked. `WaitInv`: a sender that armed and was not woken is
registered, or the receiver has taken the flag and is about to take the waker;
once it sleeps, its ring is full and open or the receiver still owes it the
notification. Neither property is inductive without the others: a wake-up could
reach the wrong task if a ring changed hands with an old waker in it, and a ring
could change hands too early if the Arc did not outlive every send.

`EndCorrect` needs an account of values: `EndInv` says that `live` counts the
handle, the producers that have not left and a registration in progress
(`LiveInv`), that the receiver can
find every ring that may hold a value, in its vector or in the inbox (`KnownInv`),
that what a producer sent is what was delivered, staged and still in its ring
(`FlowInv`), and what a final sweep has established (`FinalInv`): it starts with
`live` = 0, when nothing can fill a ring or the inbox any more, and the shards it
has passed (`Behind`) are empty. In the tiers that prune, every shard such a sweep
finds empty is finished and goes, so the steps left are always the shards left;
that is why the shrinking vector, which loses a wake-up in section 7, loses no
value at the end.

`WakeCorrect` is stated for the pool tier with any number of rings and for up to
two rings in the tiers that prune: with three pruned rings it is false (section
7). `WakeInv`: a sender that published is on its way to notify (`DirtyInv`); after
arming, the receiver is registered until somebody takes its waker (`ArmedInv`);
and as long as nobody owes it a wake-up, the rings its pass after arming has left
behind need nothing from it, and it pends only while somebody is left to wake it
(`QuietInv`). The hypothesis is what a pass that prunes needs: of two rings there
is then only one other, and it was looked at or is the next.

**`BrokerlessProofs`**: `TypeCorrect`, `ClaimCorrect`, `DeliveryCorrect`,
`OrderCorrect`, `DrainCorrect`, for all three tiers. `BaseInv` has the counters
(`CountInv`: `live` counts registrars and registered producers), the cells
(`SlotInv`: a producer that may have sent can be found), the claim (`ClaimInv`:
set exactly while one consumer is inside the ring) and what is about to be
committed (`CommitInv`). `FlowInv` adds that a value is below its ring's head
once it is in a consumer's hands or delivered, and that no two consumers hold the
same one. For the end of the stream `Owes(c, p)` says that consumer c will look
into ring p again before it may end, and `EndInv` that a ring nobody owes a visit
is empty: a final pass starts with `live` = 0, when no ring can fill any more, and
`InPass` tracks which cells are ahead of its cursor. `DrainCorrect` has the
hypothesis `~Endless`, because in the endless instance positions wrap and the
history it speaks of is not kept; the other theorems hold there too.

**`LeasedProofs`** (the numbers of a declaration are naturals, as `usize` is):
`PoolCorrect`, `FlushCorrect`. `LeasedInv` says that every block is in exactly one
place (`Parted`, over the free list, the lease, the forward ring, the return rings
and the consumers' hands), that no list has it twice, and that `in_flight` is the
number of blocks not free and not lent (`CountOK`). Conservation is not enough for
the pushes the code does not check: `ReturnRoom` shows with the pigeonhole
principle that a forward or return ring as large as the pool has room for a block
that is not in it, which rests on `quantized_capacity` rounding up. For `flush`,
`DrainOK` follows the last look over the return rings: those behind the cursor
are empty, and with no consumer left they stay so.

**`GridProofs`** extends `MCGrid`, which has the whole specification with every
opening it can lead to. `OpenCorrect` (`usize` has more than 12 bits, so that the
constants of `open.rs` fit) rests on `OpenInv`: the declaration stays within its
types, and an opened one has passed its validation. The work is in the
arithmetic: `RoundedIs` shows that the next power of two of an automatic size
exists and is within twofold of it, `LeasedAutomaticIs` that an automatic leased
pool is made of whole blocks, and `AutomaticOpens` that with valid memberships and
batch an automatic capacity is refused only where the blocks of a leased grid
together exceed `usize`.

`OrderCorrect` and `DrainCorrect` (every declaration opened is one the types
admit, and the bound on its sends is a natural) follow from `GridInv`, which has
a part for each engine. For lanes, every accepted value is in at most one place,
a lane or a consumer's line (`LanesOnce`), and unless a consumer was dropped early
in at least one (`LanesKept`); every lane is with a consumer or abandoned, and the
lanes a final pass has looked at are empty and stay so, because it starts with no
producer left (`LanesFinal`). For the broker, order is the harder part, since a
value sits in the producer's ring until its sweep commits while copies of it are
already on their way: `BrokeredOrder` says that each ring is in its producer's
order and that what a consumer is still to get from a ring comes after all of
that producer's values that have reached it (`Left`, `Reaches`). `BrokeredKept`
says that a value that is no longer in its producer's ring has reached exactly the
consumers it was routed to (`Settled`), and one that is being forwarded all but
those still to be served (`Forwarded`). `BrokeredFinal` follows the shutdown: a
broker that ends after an empty sweep begun with no producer left leaves its rings
empty (`BrokerEnd`), and a consumer told the end has emptied its own (`OutEnd`).

**`IpcProofs`**: `SetupCorrect`, `WakeCorrect`, `CustodyCorrect`,
`WholeCorrect`, with crashes of either process between any two steps and calls
that may be repeated after a failure. `CallInv` holds in all of these
behaviours, `Orderly` as long as no failed call was retried. `SetupInv` orders
the handshake: roles before the handle, checks before roles, roles before the
acknowledgement. `WakeInv`: the sequence of an event lags its cursor only while
the notifier is between the two (`SeqOK`), so a process that observed a sequence
and then found its ring not ready has observed an older one than the step that
made it ready (`ObservedOK`), and a registration that was taken became a token
or is about to (`TokenOK`). The last is where the back ends differ:
`WakeCorrect` is stated for those that keep a token, and for a futex the
statement is false (section 7). `CustodyCorrect` is about behaviours in which
the producer has not retried a failed send, `WholeCorrect` about those in which
neither side has retried a failed call; without these hypotheses both are false
(section 7). An outcome that is an error and not the last call's stays one
(`RetriesStay`), so the invariants need to hold only while there is none.
`CustodyInv` counts frames: pushed by the producer, minus answered, bounds what
is on its way, so at most `slots` chunks are unanswered and a slot is written
only when the chunk that last used it was answered. `ContentInv` adds that
COMPLETE is the last frame of its call, that consumer and producer are in the
same call or the consumer has just left it (`RoundOK`), and that the checksums
each side keeps are those of what it read or wrote out.

## 6. Only model-checked

- Liveness under fairness (`SendReturns`, `Delivered`, `DisconnectSeen`,
  `SendsReturn`, `SlotReturns`, `NoStarvation`, `CallsReturn`,
  `OrphansAdopted`): outside the prover's reach, as are ENABLED and
  induction over recursive definitions.
- `MpscAsync`: `NoLostWake` with three or more rings in a tier that prunes, which
  the run `mpsc_scan` refutes.
- `Ipc`: `NoLostWakeup` with futex events, which the run `ipc_wake` refutes.

Every invariant of the passing runs is the subject of a theorem. The type
invariants of `Ring` and `Broadcast` are proved and in no run.

## 7. Findings

`mpsc_scan`: with three shards the async receiver can return Pending while a
shard holds a value and nobody is going to wake it. The number of visits of a
pass is fixed at its start (`mpsc/chan.rs:1053`), but pruning a finished shard
in the middle of the pass shrinks the vector and with it the modulus of the
cursor. From cursor 3 with shards [a, b, c]: look at a, prune b (c takes its
place, cursor 4 modulo 2 is a again), look at a, stop. If c published and
notified before the receiver armed, its value stays until some other event.
Two shards cannot show it, which is why `mpsc_fixed` passes.

`ipc_wake`: on Linux a waiter can park with its registration gone. `notify`
stores the sequence and exchanges `waiters` in two steps (`ipc/event.rs:122-123`).
In between the peer takes the frame, finds its ring empty, observes the sequence
that is already new and registers for the next one. The late exchange takes that
registration and wakes nobody, since the waiter is not in the kernel yet; the
waiter parks, the next `notify` reads `waiters` = 0 and does not wake it. It
sleeps on a ready ring until the 10 ms liveness poll, against the module comment
("there is no lost-wakeup gap", `ipc/event.rs:5-8`). FIFO and event objects keep
the stolen wake as a token, which is why `ipc` passes; with the poll taken as
part of the design the calls return with either back end.

Met while modelling, and why `Custody` and `OkMeansWhole` have a hypothesis: a
session that goes on after an error.

- A send that failed and is called again overwrites a slot its peer still holds.
  After an error the code shuts the socket down (`ipc/stream.rs:490-508`) and
  nothing else; no check and no doc keeps the caller from calling again, although
  the comment on `cancel` calls it "never successful custody return"
  (`ipc/stream.rs:264-265`). The new call starts at chunk 0, and the first
  `slots` chunks wait for no release (`ipc/stream.rs:827-831`), while the old DATA
  descriptor may be unpopped or its slot in the hands of the receiver's
  `write_all`. TLC shows it within the bounds of the run `ipc`, with
  `SlotExclusive` in place of `Custody`: one chunk, one slot and two sends.
- Such retries can end in an Ok for torn bytes. With one slot and one chunk: send
  A times out; a receive takes A, pushes RELEASED and fails on the closed socket;
  send B writes the slot, takes the stale RELEASED for its own (the checksum of a
  RELEASED is not compared, `ipc/stream.rs:1159-1180`), pushes COMPLETE and fails
  waiting for the echo; the next receive pops and validates B; send C overwrites
  the slot while `write_all` copies it; the receive pops COMPLETE of B and returns
  Ok, with a checksum taken before the copy (`TransferReport`,
  `ipc/stream.rs:296`). TLC needs `MaxChunks` = 3 on the one-slot shape for it,
  and two calls a side do not show it.

A session that is dropped after its first error is not affected: that is what
the two properties and their theorems say.

Met while reading, without a run:

- a ring registered after the receiver was dropped keeps a blocked sender
  waiting while a registrar lives (`mpsc/dynamic.rs:154`);
- a brokerless consumer that ends because a peer holds the last ring relies on
  that peer not being dropped (`mpmc/brokerless/mod.rs:327`);
- `wait_for_peer_event` reports UnexpectedEof without looking at its ring again,
  so a `send` can fail whose `receive` returned Ok (`ipc/stream.rs:1232`);
- `send` of a lane returns true while a lane has room although every consumer
  is gone (`mpmc/lanes.rs:117-120`), and `try_send` of a brokered producer looks
  at the room only (`mpmc/brokered/mod.rs:194-195`);
- a lane consumer in `for_each` may end while a peer that is dropped after it
  abandons non-empty lanes, and abandoned lanes wait as long as a consumer's own
  stay productive (`mpmc/lanes.rs:199-218`, `323`).

## 8. Not modelled

The blocking MPSC kernels with their park primitives, the lock-free inbox and
the segmented backend are left for later modules (section 2); their channels
share the shards, passes and memberships that `MpscAsync` models. The teardown
of the dynamic array (`dynamic.rs:656-670`) is not modelled. Of the IPC
transport, the byte encoding of handles, memory locking, the security
descriptors and the region names of Windows, interrupted system calls, the typed
destination buffers and the checks of the typed endpoints around a transfer are
left out. Left out for good: owned batches (one owner; their hand-over is in
`Ring`), `select!` (no state of its own), the execution and wait axes of the
builder, atomics re-exports, examples and benchmarks. Weak-memory reorderings
beyond stale loads are not modelled: every release/acquire pair and every SeqCst
fence is taken to do what it is there for.
