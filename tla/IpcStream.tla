----------------------------- MODULE IpcStream ------------------------------
(***************************************************************************)
(* One direction of a process duplex (ipc/stream.rs) over the process      *)
(* events of ipc/event.rs.  The producing process writes chunks into the   *)
(* shared slots and pushes DATA descriptors through the data arena; the    *)
(* consuming process copies each chunk out and pushes RELEASED descriptors *)
(* through the releases arena; a COMPLETE descriptor and its echo end the  *)
(* transfer.  A waiting endpoint parks on an event for a short interval    *)
(* and then looks at the control socket, whose end is the only sign of a   *)
(* dead or failed peer.                                                    *)
(*                                                                         *)
(* Bytes are identified by the call, offset and length they were read at,  *)
(* and checksums are taken to be free of collisions.  The header fields    *)
(* that never vary (magic, version, flags, transfer id) are left out.      *)
(***************************************************************************)
EXTENDS Integers, Sequences, SequencesExt

CONSTANTS
  Shapes,         \* the StreamShapes explored
  MaxGeneration,  \* u32::MAX
  Readers,        \* the lengths of the readers explored
  ActiveFlows,    \* the StreamFlows explored; the other direction is idle
  Modes,          \* subset of {"exact", "to_end"}: send/receive or *_to_end
  Backends,       \* subset of {"futex", "token"}: Linux; macOS FIFO or Windows event
  MaxChunks       \* bound: an endpoint calls again while its calls had fewer chunks

ASSUME StreamAssumption ==
  /\ \A s \in Shapes : s.slots \in Nat \ {0} /\ s.chunk_bytes \in Nat \ {0} /\ s.total_bytes \in Nat
  /\ Readers \cup {MaxGeneration, MaxChunks} \subseteq Nat
  /\ ActiveFlows \subseteq {"ParentToWorker", "WorkerToParent"}
  /\ Modes \subseteq {"exact", "to_end"} /\ Backends \subseteq {"futex", "token"}

Processes == {"parent", "worker"}
Peer(p)   == IF p = "parent" THEN "worker" ELSE "parent"

VARIABLES
  shape, flow, backend,
  arena,            \* the two descriptor rings: tail and the frames not yet popped
  slot,             \* the payload slots of the data arena
  event,            \* SharedEventState and the kernel's side of it
  ep,               \* the endpoint of each process
  shut, closed,     \* the control socket: shut down, and the ends that are gone
  source, sink,     \* history: per call, the reader's length, what was written out
  outcome           \* history: per endpoint, what its calls returned

shared == <<arena, slot, event>>
stream == <<shape, flow, backend, shared, ep, shut, closed, source, sink, outcome>>

Producer == IF flow = "ParentToWorker" THEN "parent" ELSE "worker"
Consumer == Peer(Producer)

-----------------------------------------------------------------------------
(* StreamShape, frames and layout.                                         *)

DivCeil(a, b) == (a + b - 1) \div b
Least(a, b)   == IF a <= b THEN a ELSE b

Slots      == shape.slots
ChunkBytes == shape.chunk_bytes
TotalBytes == shape.total_bytes
Chunks     == DivCeil(TotalBytes, ChunkBytes)

\* StreamShape::validate: the generation of every chunk fits its field.
ValidShape == DivCeil(Chunks, Slots) <= MaxGeneration

\* descriptor_capacity: the least power of two that is at least 2 slots + 2.
DescriptorCapacity ==
  CHOOSE c \in {2 ^ i : i \in 0 .. 2 * Slots + 2} :
    c >= 2 * Slots + 2 /\ c < 2 * (2 * Slots + 2)

SlotOf(chunk)       == chunk % Slots
GenerationOf(chunk) == chunk \div Slots + 1
OffsetOf(chunk)     == chunk * ChunkBytes
LenOf(chunk)        == Least(TotalBytes - OffsetOf(chunk), ChunkBytes)

Torn == <<0, 0, 0>>
Data(chunk, offset, len, bytes) ==
  [kind |-> "Data", offset |-> offset, slot |-> SlotOf(chunk),
   generation |-> GenerationOf(chunk), len |-> len, checksum |-> <<bytes>>]
Complete(total, aggregate) ==
  [kind |-> "Complete", offset |-> total, slot |-> 0, generation |-> 0, len |-> 0,
   checksum |-> aggregate]
NoFrame == Complete(0, <<>>)

\* validate_dynamic_chunk: the next bytes of a stream of unknown length.
DynamicChunk(e, f) ==
  f.offset = e.total /\ f.len \in 1 .. ChunkBytes /\ e.total + f.len <= TotalBytes

\* The consumer's checks on the frame of its next chunk, the payload's
\* checksum among them.
validate_chunk(e, f) ==
  LET c == e.chunks IN
  /\ f.kind = "Data" /\ f.slot = SlotOf(c) /\ f.generation = GenerationOf(c)
  /\ IF e.mode = "exact" THEN f.offset = OffsetOf(c) /\ f.len = LenOf(c) ELSE DynamicChunk(e, f)
  /\ f.checksum = <<slot[SlotOf(c)]>>

\* validate_dynamic_release: some chunk below the ceiling.
DynamicRelease(f) == f.len \in 1 .. ChunkBytes /\ f.offset + f.len <= TotalBytes

validate_release(e, f) ==
  LET c == e.released IN
  /\ f.kind = "Released" /\ f.slot = SlotOf(c) /\ f.generation = GenerationOf(c)
  /\ IF e.mode = "exact" THEN f.offset = OffsetOf(c) /\ f.len = LenOf(c)
     ELSE DynamicRelease(f)

\* The length in the COMPLETE frame: of the shape, or of what was streamed.
FinalTotal(e) == IF e.mode = "exact" THEN TotalBytes ELSE e.total

\* validate_complete and validate_dynamic_complete.
validate_complete(e, f) == f = Complete(FinalTotal(e), e.aggregate)

-----------------------------------------------------------------------------
(* Endpoints.                                                              *)

Idle ==
  [pc |-> "idle", mode |-> "exact", chunks |-> 0, released |-> 0, total |-> 0,
   aggregate |-> <<>>, eof |-> FALSE, completed |-> FALSE, op |-> "pop",
   frame |-> NoFrame, observed |-> 0, expired |-> FALSE]

InCall(p)  == ep[p].pc \notin {"idle", "gone"}
Round(p)   == Len(outcome[p]) + 1
Set(p, e)  == ep' = [ep EXCEPT ![p] = e]
At(p, pc)  == ep[p].pc = pc

Pop(e)       == [e EXCEPT !.pc = "try", !.op = "pop"]
Push(e, f)   == [e EXCEPT !.pc = "try", !.op = "push", !.frame = f]
ArenaOf(p)   == IF (p = Producer) = (ep[p].op = "push") THEN "data" ELSE "releases"
Awaited(p)   == <<ArenaOf(p), IF ep[p].op = "pop" THEN "data_ready" ELSE "space_ready">>
Notified(p)  == <<ArenaOf(p), IF ep[p].op = "pop" THEN "space_ready" ELSE "data_ready">>
PeerClosed(p) == shut \/ Peer(p) \in closed

\* Mutant: a slot is reused one release too early.
ProduceNextEarly(e) ==
  LET last == IF e.mode = "exact" THEN e.chunks = Chunks ELSE e.eof IN
  IF ~last /\ e.mode = "to_end" /\ e.total = TotalBytes THEN [e EXCEPT !.pc = "excess"]
  ELSE IF ~last /\ e.chunks > Slots /\ e.released = e.chunks - Slots - 1 THEN Pop(e)
  ELSE IF ~last THEN [e EXCEPT !.pc = "write"]
  ELSE IF e.released < e.chunks THEN Pop(e)
  ELSE IF ~e.completed
    THEN Push([e EXCEPT !.completed = TRUE], Complete(FinalTotal(e), e.aggregate))
  ELSE Pop(e)

\* The loops of produce and produce_to_end: what the producer does next.
\* The chunk that reuses a slot waits for one more release.
ProduceNext(e) ==
  LET last == IF e.mode = "exact" THEN e.chunks = Chunks ELSE e.eof IN
  IF ~last /\ e.mode = "to_end" /\ e.total = TotalBytes THEN [e EXCEPT !.pc = "excess"]
  ELSE IF ~last /\ e.chunks >= Slots /\ e.released = e.chunks - Slots THEN Pop(e)
  ELSE IF ~last THEN [e EXCEPT !.pc = "write"]
  ELSE IF e.released < e.chunks THEN Pop(e)
  ELSE IF ~e.completed
    THEN Push([e EXCEPT !.completed = TRUE], Complete(FinalTotal(e), e.aggregate))
  ELSE Pop(e)

\* Mutant: an error leaves the control socket open.
ReturnQuietly(p, why) ==
  /\ outcome' = [outcome EXCEPT ![p] = Append(@, why)]
  /\ Set(p, Idle)
  /\ UNCHANGED <<shape, flow, backend, shared, shut, closed, source, sink>>

\* finish_or_cancel: an error shuts the control socket down.
Return(p, why) ==
  /\ outcome' = [outcome EXCEPT ![p] = Append(@, why)]
  /\ shut' = (shut \/ why # "ok")
  /\ Set(p, Idle)
  /\ UNCHANGED <<shape, flow, backend, shared, closed, source, sink>>

Go(p, e) == Set(p, e) /\ UNCHANGED <<shape, flow, backend, shared, shut, closed, source, sink, outcome>>

\* send, send_to_end, receive, receive_to_end; also after a call that failed,
\* which cancels the session and leaves the arenas as they are.  Every reader
\* that is too long behaves as one that is by one byte.
Call(p) ==
  /\ At(p, "idle") /\ Len(outcome[p]) * Chunks < MaxChunks
  /\ \E m \in Modes :
       LET e == [Idle EXCEPT !.mode = m] IN
       IF p = Producer
       THEN /\ \E n \in Readers : n <= TotalBytes + 1 /\ source' = Append(source, n)
            /\ Set(p, ProduceNext(e)) /\ UNCHANGED sink
       ELSE Set(p, Pop(e)) /\ sink' = Append(sink, <<>>) /\ UNCHANGED source
  /\ UNCHANGED <<shape, flow, backend, shared, shut, closed, outcome>>

-----------------------------------------------------------------------------
(* The producer's side: reading the source into a slot.                    *)

Left(p) == source[Round(p)] - ep[p].total

\* The extra read at the ceiling: end of file, or a stream that is too long.
ProbeEnd(p) ==
  /\ At(p, "excess")
  /\ \/ Left(p) = 0 /\ Go(p, ProduceNext([ep[p] EXCEPT !.eof = TRUE]))
     \/ Left(p) > 0 /\ Return(p, "error")
     \/ Return(p, "error")

\* write_slot: the reader fills the slot in place, over what it held.
WriteSlot(p) ==
  /\ At(p, "write")
  /\ slot' = [slot EXCEPT ![SlotOf(ep[p].chunks)] = Torn]
  /\ Set(p, [ep[p] EXCEPT !.pc = "read"])
  /\ UNCHANGED <<shape, flow, backend, arena, event, shut, closed, source, sink, outcome>>

\* read_exact or read_chunk: the bytes, a short read, end of file or an error.
ReadSource(p) ==
  LET e == ep[p]
      want == Least(TotalBytes - e.total, ChunkBytes)
      len  == Least(want, Left(p))
      bytes == <<Round(p), e.total, len>> IN
  /\ At(p, "read")
  /\ \/ /\ len > 0 /\ (e.mode = "exact" => len = want)
        /\ slot' = [slot EXCEPT ![SlotOf(e.chunks)] = bytes]
        /\ Set(p, Push([e EXCEPT !.aggregate = Append(@, bytes), !.total = @ + len, !.chunks = @ + 1],
                       Data(e.chunks, e.total, len, bytes)))
        /\ UNCHANGED <<shape, flow, backend, arena, event, shut, closed, source, sink, outcome>>
     \/ len = 0 /\ e.mode = "to_end" /\ Go(p, ProduceNext([e EXCEPT !.eof = TRUE]))
     \/ Return(p, "error")

-----------------------------------------------------------------------------
(* Arena::push and Arena::pop, and ProcessEvent::notify.                   *)

Ready(p) ==
  LET q == arena[ArenaOf(p)].q IN
  IF ep[p].op = "pop" THEN q # <<>> ELSE Len(q) < DescriptorCapacity

\* The frame goes in or out and the cursor moves; not ready, the endpoint
\* observes the event.
Try(p) ==
  LET a == ArenaOf(p) IN
  /\ At(p, "try")
  /\ IF ~Ready(p) THEN Go(p, [ep[p] EXCEPT !.pc = "observe"])
     ELSE /\ IF ep[p].op = "push"
             THEN /\ arena' = [arena EXCEPT ![a] = [tail |-> @.tail + 1, q |-> Append(@.q, ep[p].frame)]]
                  /\ Set(p, [ep[p] EXCEPT !.pc = "store"])
             ELSE /\ arena' = [arena EXCEPT ![a].q = Tail(@)]
                  /\ Set(p, [ep[p] EXCEPT !.pc = "store", !.frame = Head(arena[a].q)])
          /\ UNCHANGED <<shape, flow, backend, slot, event, shut, closed, source, sink, outcome>>

Cursor(p) ==
  LET a == arena[ArenaOf(p)] IN IF ep[p].op = "push" THEN a.tail ELSE a.tail - Len(a.q)

SetEvent(x, v) ==
  event' = [event EXCEPT ![x] = v] /\ UNCHANGED <<shape, flow, backend, arena, slot, shut, closed, source, sink, outcome>>

StoreSequence(p) ==
  /\ At(p, "store")
  /\ SetEvent(Notified(p), [event[Notified(p)] EXCEPT !.sequence = Cursor(p)])
  /\ Set(p, [ep[p] EXCEPT !.pc = "swap"])

ClaimWaiter(p) ==
  LET x == Notified(p) IN
  /\ At(p, "swap")
  /\ SetEvent(x, [event[x] EXCEPT !.waiters = 0])
  /\ Set(p, [ep[p] EXCEPT !.pc = IF event[x].waiters # 0 THEN "wake" ELSE "notified"])

\* FUTEX_WAKE reaches a process that sleeps; a FIFO byte or a set event
\* stays until somebody takes it.
Wake(p) ==
  LET x == Notified(p) IN
  /\ At(p, "wake")
  /\ SetEvent(x, [event[x] EXCEPT
       !.pending = backend = "token" \/ @ \/ (At(Peer(p), "parked") /\ Awaited(Peer(p)) = x)])
  /\ Set(p, [ep[p] EXCEPT !.pc = "notified"])

-----------------------------------------------------------------------------
(* ProcessEvent::wait inside wait_for_peer_event.                          *)

Observe(p) ==
  /\ At(p, "observe")
  /\ Go(p, [ep[p] EXCEPT !.pc = "recheck", !.observed = event[Awaited(p)].sequence])

Changed(p) == event[Awaited(p)].sequence # ep[p].observed
Loop(p)    == [ep[p] EXCEPT !.pc = "try", !.observed = 0, !.expired = FALSE]

\* The ring again, then the first load of wait: a change of the sequence
\* since Observe sends the endpoint back to its ring.
Recheck(p) ==
  /\ At(p, "recheck")
  /\ Go(p, IF Ready(p) \/ Changed(p) THEN Loop(p) ELSE [ep[p] EXCEPT !.pc = "register"])

\* The deadline of the whole wait passed before this interval began.
Deadline(p) == At(p, "recheck") /\ ~Ready(p) /\ Return(p, "error")

Register(p) ==
  LET x == Awaited(p) IN
  /\ At(p, "register")
  /\ IF event[x].waiters # 0 THEN Return(p, "error")     \* supports one waiter
     ELSE /\ SetEvent(x, [event[x] EXCEPT !.waiters = 1])
          /\ Set(p, [ep[p] EXCEPT !.pc = "park"])

\* A FIFO byte or a set event that is already there is taken without sleeping.
HasToken(p) == backend = "token" /\ event[Awaited(p)].pending

\* Mutant: the sequence is not loaded again after registering.
ParkBlindly(p) ==
  LET x == Awaited(p)  token == HasToken(p) IN
  /\ At(p, "park")
  /\ SetEvent(x, IF token THEN [event[x] EXCEPT !.pending = FALSE] ELSE event[x])
  /\ Set(p, [ep[p] EXCEPT !.pc = IF token THEN "clear" ELSE "parked"])

\* The second load of the sequence and the kernel's own test: a futex compares
\* the sequence once more, a FIFO or an event object is asked for its token.
Park(p) ==
  LET x == Awaited(p)  token == HasToken(p) /\ ~Changed(p) IN
  /\ At(p, "park")
  /\ SetEvent(x, IF token THEN [event[x] EXCEPT !.pending = FALSE] ELSE event[x])
  /\ Set(p, [ep[p] EXCEPT !.pc = IF Changed(p) \/ token THEN "clear" ELSE "parked"])

Woken(p) ==
  LET x == Awaited(p) IN
  /\ At(p, "parked") /\ event[x].pending
  /\ SetEvent(x, [event[x] EXCEPT !.pending = FALSE])
  /\ Set(p, [ep[p] EXCEPT !.pc = "clear"])

\* The liveness poll interval ends.
Expire(p) ==
  /\ At(p, "parked") /\ ~event[Awaited(p)].pending
  /\ Go(p, [ep[p] EXCEPT !.pc = "clear", !.expired = TRUE])

\* A timeout is reported only if the sequence is still the observed one.
ClearWaiter(p) ==
  LET x == Awaited(p) IN
  /\ At(p, "clear")
  /\ SetEvent(x, [event[x] EXCEPT !.waiters = 0])
  /\ Set(p, IF ep[p].expired /\ ~Changed(p) THEN [ep[p] EXCEPT !.pc = "peek"] ELSE Loop(p))

\* peer_closed
Peek(p) ==
  /\ At(p, "peek")
  /\ IF PeerClosed(p) THEN Return(p, "error") ELSE Go(p, Loop(p))

-----------------------------------------------------------------------------
(* After a frame was pushed or popped.                                     *)

\* produce goes on after a push; consume pops the next frame, or is done.
Pushed(p) ==
  /\ At(p, "notified") /\ ep[p].op = "push"
  /\ IF p = Producer THEN Go(p, ProduceNext(ep[p]))
     ELSE IF ep[p].completed THEN Return(p, "ok")
     ELSE Go(p, Pop(ep[p]))

\* The producer popped a release or, after COMPLETE, its echo.
Released(p) ==
  LET e == ep[p] IN
  /\ At(p, "notified") /\ e.op = "pop" /\ p = Producer
  /\ IF e.completed
     THEN Return(p, IF validate_complete(e, e.frame) THEN "ok" ELSE "error")
     ELSE IF validate_release(e, e.frame)
     THEN Go(p, ProduceNext([e EXCEPT !.released = @ + 1]))
     ELSE Return(p, "error")

\* The consumer popped a chunk or the end of the stream.
Received(p) ==
  LET e == ep[p]
      ending == IF e.mode = "exact" THEN e.chunks = Chunks ELSE e.frame.kind = "Complete" IN
  /\ At(p, "notified") /\ e.op = "pop" /\ p = Consumer
  /\ IF ending
     THEN IF validate_complete(e, e.frame)
          THEN Go(p, Push([e EXCEPT !.completed = TRUE], e.frame))
          ELSE Return(p, "error")
     ELSE IF validate_chunk(e, e.frame)
     THEN Go(p, [e EXCEPT !.pc = "sink"])
     ELSE Return(p, "error")

\* Mutant: a failed write is ignored and the slot released.
WriteAllUnchecked(p) ==
  LET e == ep[p]  f == e.frame IN
  /\ At(p, "sink")
  /\ \/ sink' = [sink EXCEPT ![Round(p)] = Append(@, slot[f.slot])]
     \/ UNCHANGED sink
  /\ Set(p, Push([e EXCEPT !.aggregate = @ \o f.checksum, !.total = @ + f.len, !.chunks = @ + 1],
                 [f EXCEPT !.kind = "Released"]))
  /\ UNCHANGED <<shape, flow, backend, shared, shut, closed, source, outcome>>

\* write_all reads the slot again; only then is the slot released.
WriteAll(p) ==
  LET e == ep[p]  f == e.frame IN
  /\ At(p, "sink")
  /\ \/ /\ sink' = [sink EXCEPT ![Round(p)] = Append(@, slot[f.slot])]
        /\ Set(p, Push([e EXCEPT !.aggregate = @ \o f.checksum, !.total = @ + f.len, !.chunks = @ + 1],
                       [f EXCEPT !.kind = "Released"]))
        /\ UNCHANGED <<shape, flow, backend, shared, shut, closed, source, outcome>>
     \/ Return(p, "error")

\* The other direction of the same duplex failed at p: its socket is shared.
OtherHalfFails(p) ==
  /\ ~shut /\ p \notin closed
  /\ shut' = TRUE
  /\ UNCHANGED <<shape, flow, backend, shared, ep, closed, source, sink, outcome>>

\* The endpoint is dropped, or its process dies: its end of the socket closes.
Depart(p) ==
  /\ closed' = closed \cup {p}
  /\ Set(p, [Idle EXCEPT !.pc = "gone"])
  /\ UNCHANGED <<shape, flow, backend, shared, shut, source, sink, outcome>>

Step(p) ==
  \/ ProbeEnd(p) \/ WriteSlot(p) \/ ReadSource(p) \/ Try(p)
  \/ StoreSequence(p) \/ ClaimWaiter(p) \/ Wake(p)
  \/ Observe(p) \/ Recheck(p) \/ Register(p) \/ Park(p)
  \/ Woken(p) \/ Expire(p) \/ ClearWaiter(p) \/ Peek(p)
  \/ Pushed(p) \/ Released(p) \/ Received(p) \/ WriteAll(p)

\* Direction::create and ProcessEvent::create leave everything empty.
StreamInit ==
  /\ shape \in Shapes /\ flow \in ActiveFlows /\ backend \in Backends
  /\ arena = [a \in {"data", "releases"} |-> [tail |-> 0, q |-> <<>>]]
  /\ slot = [s \in 0 .. Slots - 1 |-> Torn]
  /\ event = [x \in {"data", "releases"} \X {"data_ready", "space_ready"} |->
                [sequence |-> 0, waiters |-> 0, pending |-> FALSE]]
  /\ ep = [p \in Processes |-> Idle]
  /\ shut = FALSE /\ closed = {}
  /\ source = <<>> /\ sink = <<>> /\ outcome = [p \in Processes |-> <<>>]

-----------------------------------------------------------------------------
\* An endpoint asleep in ProcessEvent::wait whose ring is ready has its
\* wake-up in hand, or its peer is still inside the ProcessEvent::notify that
\* owes it: the exchange on `waiters` leaves no lost-wakeup gap.
NoLostWakeup ==
  \A p \in Processes : At(p, "parked") /\ Ready(p) =>
    \/ event[Awaited(p)].pending
    \/ At(Peer(p), "gone")
    \/ (ep[Peer(p)].pc \in {"store", "swap", "wake"} /\ Notified(Peer(p)) = Awaited(p))

\* Chunks a consumer that is there may still read: pushed as DATA, or popped
\* and not yet released.
Leased ==
  (IF At(Consumer, "gone") THEN {} ELSE {f.slot : f \in {g \in ToSet(arena["data"].q) : g.kind = "Data"}})
  \cup (IF InCall(Consumer) /\ ep[Consumer].op = "pop" /\ ep[Consumer].frame.kind = "Data"
           /\ ep[Consumer].pc \in {"store", "swap", "wake", "notified", "sink"}
        THEN {ep[Consumer].frame.slot} ELSE {})

\* The calls of p that have begun, and that p has not called again after one
\* that failed.
Began(p)     == Len(IF p = Producer THEN source ELSE sink)
Unretried(p) == \A i \in DOMAIN outcome[p] : outcome[p][i] = "error" => i = Began(p)

\* write_slot never overwrites a slot whose DATA descriptor the consumer has
\* yet to pop, or that write_all may still be reading, whatever calls were
\* made before: a cancelled call returned the custody of no slot.
SlotExclusive == ep[Producer].pc \in {"write", "read"} => SlotOf(ep[Producer].chunks) \notin Leased

\* As long as no failed send was retried, write_slot never overwrites such a
\* slot: produce waits for the RELEASED descriptor of the chunk that held it.
Custody == Unretried(Producer) => SlotExclusive

Whole(r, bytes) ==
  /\ \A i \in DOMAIN bytes : bytes[i][1] = r /\ bytes[i][3] > 0
       /\ bytes[i][2] = IF i = 1 THEN 0 ELSE bytes[i - 1][2] + bytes[i - 1][3]
  /\ (IF bytes = <<>> THEN 0 ELSE Last(bytes)[2] + Last(bytes)[3]) = Least(source[r], TotalBytes)

\* As long as no failed call was retried, a send or receive that returned Ok
\* moved exactly the bytes of that call: every one of them written to the
\* receiver's sink, once and in order, even where the two sides chose different
\* calls or the reader was too short.
OkMeansWhole ==
  (\A p \in Processes : Unretried(p)) =>
    \A p \in Processes : \A r \in DOMAIN outcome[p] : outcome[p][r] = "ok" =>
      Len(source) >= r /\ Len(sink) >= r /\ Whole(r, sink[r])

\* Two endpoints in the same transfer, or an endpoint whose peer is gone or
\* has cancelled, return from send and receive without help of the deadline:
\* wait_for_peer_event wakes for the peer's frames and polls its socket.
CallsReturn ==
  \A p \in Processes :
    (InCall(p) /\ (PeerClosed(p) \/ (InCall(Peer(p)) /\ Round(p) = Round(Peer(p))))) ~> ~InCall(p)
=============================================================================
