---------------------------- MODULE Declaration -----------------------------
(***************************************************************************)
(* The typed channel declaration of declaration.rs and the validation and  *)
(* capacity arithmetic of open.rs.  A declaration is a Shape of numbers,   *)
(* kept through every change of topology, and the axes that the types      *)
(* carry; open() exists for some combinations of axes only.  The execution *)
(* and wait axes do not enter validation and are left out.                 *)
(***************************************************************************)
EXTENDS Integers, Sequences, FiniteSetsExt

CONSTANTS
  UsizeBits,     \* the width of usize
  Numbers,       \* the sizes the setters are called with
  Counts,        \* the numbers of workers they are called with
  PayloadBytes,  \* size_of::<T>()
  Declared,      \* declarations that longer chains of calls produce
  MaxEdits       \* bound: builder calls of the chains that are explored

ASSUME WidthAssumption ==
  /\ UsizeBits \in Nat \ {0} /\ MaxEdits \in Nat
  /\ Numbers \cup Counts \cup PayloadBytes \subseteq 0 .. 2 ^ UsizeBits - 1

VARIABLES decl, edits, opened   \* opened: "no", "invalid" or "open"

declaration == <<decl, edits, opened>>

-----------------------------------------------------------------------------
(* Options and machine integers.                                           *)

None    == <<>>
Some(n) == <<n>>
Options == {o \in Seq(Nat) : Len(o) <= 1}
UnwrapOr(option, default) == IF option = None THEN default ELSE option[1]

UsizeMax      == 2 ^ UsizeBits - 1
AtLeastOne(n) == IF n = 0 THEN 1 ELSE n
CeilDiv(a, b) == (a + b - 1) \div b
Lesser(a, b)  == IF a <= b THEN a ELSE b
Greater(a, b) == IF a >= b THEN a ELSE b

\* checked_next_power_of_two
PowersAbove(n)     == {x \in {2 ^ i : i \in 0 .. UsizeBits - 1} : x >= n}
HasPowerOfTwo(n)   == PowersAbove(n) # {}
NextPowerOfTwo(n)  == Min(PowersAbove(n))

-----------------------------------------------------------------------------
(* Capacities.                                                             *)

DEFAULT_CAPACITY == 1024
RING_RESIDENT_TARGET_BYTES == 1024 * 1024

validate_common(capacity, batch) == capacity # 0 /\ HasPowerOfTwo(capacity) /\ batch # 0

quantized_capacity(slots) ==
  CASE slots <= 127 -> 64
    [] slots \in 128 .. 511 -> 256
    [] slots \in 512 .. 2047 -> 1024
    [] OTHER -> 4096

ResidentSlots(d, lanes) == (RING_RESIDENT_TARGET_BYTES \div AtLeastOne(d.payload)) \div AtLeastOne(lanes)

\* native_capacity: only a bounded backend has an automatic capacity.
native_capacity(d, producers, consumers) ==
  UnwrapOr(d.capacity,
    IF d.backend = "Ring" THEN quantized_capacity(ResidentSlots(d, Greater(producers, consumers)))
    ELSE DEFAULT_CAPACITY)

\* leased_capacity: a pool per producer, rounded up to whole blocks.
leased_capacity(d) ==
  LET bytes == AtLeastOne(d.payload)
      slots == (RING_RESIDENT_TARGET_BYTES * AtLeastOne(d.consumers)) \div (bytes * AtLeastOne(d.producers))
      capacity == Lesser(quantized_capacity(slots), IF bytes <= 64 THEN 4096 ELSE 1024) IN
  UnwrapOr(d.capacity,
    IF d.batch = 0 \/ capacity % d.batch = 0 THEN capacity
    ELSE IF capacity < d.batch THEN d.batch
    ELSE CeilDiv(capacity, d.batch) * d.batch)

Capacity(d) ==
  CASE d.topology = "MpscFixed"         -> native_capacity(d, d.producers, 1)
    [] d.topology = "MpscPool"          -> native_capacity(d, d.max_producers, 1)
    [] d.topology = "MpscDynamic"       -> native_capacity(d, d.producers, 1)
    [] d.topology = "MpmcDynamicArray"  -> native_capacity(d, d.array_producers, d.consumers)
    [] d.topology \in {"MpmcBrokered", "Broadcast"} -> UnwrapOr(d.capacity, DEFAULT_CAPACITY)
    [] d.topology = "Mpmc" /\ d.codec = "Leased" -> leased_capacity(d)
    [] OTHER -> native_capacity(d, d.producers, d.consumers)

-----------------------------------------------------------------------------
(* The fallible part of each open().                                       *)

\* Mutant: one slot more than the pool's bitmap has bits.
PoolOpensWide(d) == d.max_producers \in 1 .. 65 /\ validate_common(Capacity(d), d.batch)

PoolOpens(d)    == d.max_producers \in 1 .. 64 /\ validate_common(Capacity(d), d.batch)
FixedOpens(d)   == validate_common(Capacity(d), d.batch)
DynamicOpens(d) ==
  /\ validate_common(Capacity(d), d.batch)
  /\ d.reclaim = "Pooled" => d.recycling # None /\ d.recycling[1] # 0
ClaimOpens(d)   == validate_common(Capacity(d), d.batch) /\ d.producers # 0 /\ d.consumers # 0

LaneCapacity(d) == CeilDiv(Capacity(d), d.consumers)
LanesOpens(d)   ==
  /\ validate_common(Capacity(d), d.batch) /\ d.producers # 0 /\ d.consumers # 0
  /\ validate_common(LaneCapacity(d), d.batch)

\* leased::open: whole blocks, and descriptor counts that do not overflow.
LeasedBlocks(d) == Capacity(d) \div d.batch
LeasedOpens(d)  ==
  /\ d.producers # 0 /\ d.consumers # 0 /\ d.batch # 0
  /\ Capacity(d) >= d.batch /\ Capacity(d) % d.batch = 0
  /\ HasPowerOfTwo(LeasedBlocks(d))
  /\ d.producers * Capacity(d) <= UsizeMax
  /\ d.producers * d.consumers * NextPowerOfTwo(LeasedBlocks(d)) <= UsizeMax

ArrayOpens(d)    == d.array_producers # 0 /\ d.consumers # 0 /\ validate_common(Capacity(d), d.batch)
LockedOpens(d)   == d.producers # 0 /\ d.consumers # 0 /\ validate_common(Capacity(d), d.batch)

\* validate_brokered and validate_routing.
BrokeredOpens(d) ==
  /\ validate_common(Capacity(d), d.batch)
  /\ d.producers # 0 /\ d.consumers # 0 /\ d.brokers # 0 /\ d.brokers <= d.producers
  /\ d.routing = "PubSub" => d.consumers <= 64
BroadcastOpens(d) ==
  Capacity(d) >= 2 /\ validate_common(Capacity(d), d.batch) /\ d.max_readers \in 1 .. 64

\* process_shape for the creator, process_options for the attached peer.
ProcessOpens(d) ==
  /\ d.timeout # 0
  /\ d.transport = "Create" => d.chunk_bytes # 0 /\ d.slots # 0 /\ d.transfer_id \notin {0, UsizeMax}

\* The impl blocks: what the axes must be for open() to exist.
HasOpen(d) ==
  /\ d.routing = "RoundRobin" \/ d.topology = "MpmcBrokered"
  /\ d.codec = CASE d.topology = "ProcessDuplex" -> "Bytes"
                 [] d.topology = "Mpmc" /\ d.codec = "Leased" -> "Leased"
                 [] OTHER -> "Native"
  /\ d.codec = "Leased" => d.engine = "Claim"
  /\ (d.topology \in {"MpscFixed", "MpscPool", "MpscDynamic", "Broadcast"} \/ d.codec = "Leased") => d.backend = "Ring"
  /\ d.topology = "ProcessDuplex" <=> d.transport # "Local"

Opens(d) ==
  CASE d.topology = "MpscFixed"         -> FixedOpens(d)
    [] d.topology = "MpscPool"          -> PoolOpens(d)
    [] d.topology = "MpscDynamic"       -> DynamicOpens(d)
    [] d.topology = "Mpmc" /\ d.codec = "Leased" -> LeasedOpens(d)
    [] d.topology = "Mpmc" /\ d.codec # "Leased" /\ d.engine = "Lanes" -> LanesOpens(d)
    [] d.topology = "Mpmc" /\ d.codec # "Leased" /\ d.engine = "Claim" -> ClaimOpens(d)
    [] d.topology = "MpmcDynamicLocked" -> LockedOpens(d)
    [] d.topology = "MpmcDynamicArray"  -> ArrayOpens(d)
    [] d.topology = "MpmcBrokered"      -> BrokeredOpens(d)
    [] d.topology = "Broadcast"         -> BroadcastOpens(d)
    [] d.topology = "ProcessDuplex"     -> ProcessOpens(d)

-----------------------------------------------------------------------------
(* The builder.                                                            *)

\* What the types admit: the axes, and a Shape of numbers and options.
Declarations ==
  [topology : {"MpscFixed", "MpscPool", "MpscDynamic", "Mpmc", "MpmcDynamicLocked", "MpmcDynamicArray",
               "MpmcBrokered", "Broadcast", "ProcessDuplex"},
   engine : {"Claim", "Lanes"}, reclaim : {"Drop", "Pooled"}, routing : {"RoundRobin", "Route", "PubSub"},
   backend : {"Ring", "Seg"}, codec : {"Native", "Leased", "Bytes"}, transport : {"Local", "Create", "Attach"},
   payload : Nat, producers : Nat, consumers : Nat, brokers : Nat, capacity : Options, batch : Nat,
   max_producers : Nat, max_readers : Nat, recycling : Options, array_producers : Nat,
   timeout : Nat, total_bytes : Nat, chunk_bytes : Nat, slots : Nat, transfer_id : Nat]

\* Channel::new over Shape::default.
New(payload) ==
  [topology |-> "MpscFixed", engine |-> "Claim", reclaim |-> "Drop", routing |-> "RoundRobin",
   backend |-> "Ring", codec |-> "Native", transport |-> "Local", payload |-> payload,
   producers |-> 1, consumers |-> 1, brokers |-> 1, capacity |-> None, batch |-> 64,
   max_producers |-> 64, max_readers |-> 64, recycling |-> None, array_producers |-> 0,
   timeout |-> 30, total_bytes |-> 0, chunk_bytes |-> 65536, slots |-> 8,
   transfer_id |-> 1]

Edit(d) ==
  /\ opened = "no" /\ edits < MaxEdits
  /\ decl' = d /\ edits' = edits + 1 /\ UNCHANGED opened

\* ipc also takes the backend, the transport and the codec of a process duplex.
SelectIpc == Edit([decl EXCEPT !.topology = "ProcessDuplex", !.backend = "Ring", !.transport = "Create", !.codec = "Bytes"])

\* mpsc_fixed ... broadcast: the topology changes and the shape stays.
Select ==
  \/ \E t \in {"MpscFixed", "MpscPool", "MpscDynamic", "Mpmc", "MpmcDynamicLocked", "MpmcBrokered", "Broadcast"} :
       Edit([decl EXCEPT !.topology = t, !.engine = IF t = "Mpmc" THEN "Claim" ELSE @,
                         !.reclaim = IF t = "MpscDynamic" THEN "Drop" ELSE @])
  \/ \E n \in Numbers : Edit([decl EXCEPT !.topology = "MpmcDynamicArray", !.array_producers = n])
  \/ SelectIpc

\* route and pubsub replace the default routing, once.
Routed ==
  /\ decl.topology = "MpmcBrokered" /\ decl.routing = "RoundRobin"
  /\ \E r \in {"Route", "PubSub"} : Edit([decl EXCEPT !.routing = r])

Attach == decl.topology = "ProcessDuplex" /\ decl.transport = "Create" /\ Edit([decl EXCEPT !.transport = "Attach"])

\* The methods that exist on one topology, or on one value of another axis.
Refine ==
  \/ decl.topology = "Mpmc" /\ \E e \in {"Claim", "Lanes"} : Edit([decl EXCEPT !.engine = e])
  \/ decl.topology = "Mpmc" /\ decl.engine = "Claim" /\ decl.codec = "Native" /\ Edit([decl EXCEPT !.codec = "Leased"])
  \/ Routed \/ Attach
  \/ \E b \in {"Ring", "Seg"} : Edit([decl EXCEPT !.backend = b])

\* The counts and the sizes that a topology's builder can set.
Countable ==
  CASE decl.topology \in {"MpscFixed", "MpscDynamic"} -> {"producers"}
    [] decl.topology = "MpscPool" -> {"max_producers"}
    [] decl.topology \in {"Mpmc", "MpmcDynamicLocked"} -> {"producers", "consumers"}
    [] decl.topology = "MpmcDynamicArray" -> {"consumers"}
    [] decl.topology = "MpmcBrokered" -> {"producers", "consumers", "brokers"}
    [] decl.topology = "Broadcast" -> {"max_readers"}
    [] decl.topology = "ProcessDuplex" -> {}
Sizable ==
  {"batch"} \cup
  (IF decl.topology # "ProcessDuplex" THEN {}
   ELSE {"timeout"} \cup (IF decl.transport = "Create" THEN {"total_bytes", "chunk_bytes", "slots", "transfer_id"} ELSE {}))

SetNumber ==
  \/ \E n \in Counts, field \in Countable : Edit([decl EXCEPT ![field] = n])
  \/ \E n \in Numbers :
    \/ \E field \in Sizable : Edit([decl EXCEPT ![field] = n])
    \/ Edit([decl EXCEPT !.capacity = Some(n)])
    \/ decl.topology = "MpscDynamic" /\ Edit([decl EXCEPT !.recycling = Some(n), !.reclaim = "Pooled"])

Open ==
  /\ opened = "no" /\ HasOpen(decl)
  /\ opened' = IF Opens(decl) THEN "open" ELSE "invalid"
  /\ UNCHANGED <<decl, edits>>

DeclarationInit ==
  /\ decl \in {New(b) : b \in PayloadBytes} \cup Declared
  /\ edits = 0 /\ opened = "no"

Declare == Select \/ Refine \/ SetNumber

-----------------------------------------------------------------------------
\* A ring can be built (Ring::build), and the ring is never empty of slots.
Buildable(capacity) == capacity # 0 /\ HasPowerOfTwo(capacity)

\* What the constructors behind open() rely on without checking it again: ring
\* capacities that exist, memberships that a round-robin cursor can select
\* from, bitmaps wide enough, whole leased blocks.  And an automatic capacity
\* is within twofold of the residency target between its clamps, and is never
\* the reason a declaration is refused.
OpenSound ==
  LET d == decl  workers == <<d.producers, d.consumers>> IN
  /\ opened = "open" /\ d.topology # "ProcessDuplex" /\ d.codec # "Leased" => Buildable(Capacity(d))
  /\ opened = "open" /\ d.topology = "MpscPool"  => d.max_producers \in 1 .. 64
  /\ opened = "open" /\ d.topology = "Broadcast" => d.max_readers \in 1 .. 64
  /\ opened = "open" /\ d.topology \in {"Mpmc", "MpmcBrokered", "MpmcDynamicLocked"} => 0 \notin {workers[1], workers[2]}
  /\ opened = "open" /\ d.topology = "MpmcBrokered" => d.brokers \in 1 .. d.producers
  /\ opened = "open" /\ d.topology = "Mpmc" /\ d.engine = "Lanes" =>
       Buildable(LaneCapacity(d)) /\ LaneCapacity(d) * d.consumers >= Capacity(d)
  /\ opened = "open" /\ d.codec = "Leased" =>
       LeasedBlocks(d) * d.batch = Capacity(d) /\ Buildable(LeasedBlocks(d))
  /\ LET s == ResidentSlots(d, Greater(d.producers, d.consumers)) IN
       s \in 64 .. 4096 => quantized_capacity(s) <= 2 * s /\ s <= 2 * quantized_capacity(s)
  /\ (opened = "invalid" /\ d.topology \in {"MpscFixed", "Mpmc"} /\ d.capacity = None) =>
       \/ 0 \in {d.batch, d.producers, d.consumers}
       \/ d.codec = "Leased" /\ d.producers * d.consumers * Capacity(d) > UsizeMax
=============================================================================
