----------------------------- MODULE IpcProofs ------------------------------
(***************************************************************************)
(* Proofs about Ipc and IpcStream, for every set of shapes, payload        *)
(* contracts, readers and modes, and for every generation limit.           *)
(***************************************************************************)
EXTENDS Ipc, TLAPS

-----------------------------------------------------------------------------
(* The setup handshake.                                                    *)

ParentRole(f) == IF f = "ParentToWorker" THEN "Producer" ELSE "Consumer"
WorkerRole(f) == IF f = "ParentToWorker" THEN "Consumer" ELSE "Producer"

\* The two declarations are the same one, and it fits the shape.
Agreed == payload["parent"] = payload["worker"] /\ Valid(payload["parent"]) /\ WholeValues(payload["parent"])

ParentSides == {"bind", "accept", "expired", "create", "send", "ack", "open", "gone"}
WorkerSides == {"connect", "receive", "check", "inbound", "outbound", "reply", "open", "gone"}

SetupType ==
  /\ DOMAIN side = Processes /\ side["parent"] \in ParentSides /\ side["worker"] \in WorkerSides
  /\ wire \in [handle : BOOLEAN, ack : {"none", "accepted", "rejected"}]
  /\ claims \in [Flows -> SUBSET {"Producer", "Consumer"}]
  /\ regions \in SUBSET Regions

\* The parent's roles are taken with its regions, before the handle is sent.
ParentOK ==
  /\ \A f \in Flows : Direction(f) \cap regions # {} => ParentRole(f) \in claims[f]
  /\ side["parent"] \in {"send", "ack", "open"} \/ wire.handle
       => \A f \in Flows : ParentRole(f) \in claims[f]
  /\ side["parent"] = "open" => Agreed /\ \A f \in Flows : WorkerRole(f) \in claims[f]

\* The worker's checks and roles, in the order of attach_peer.
WorkerOK ==
  /\ side["worker"] \in {"check", "inbound", "outbound", "reply", "open"} => wire.handle
  /\ side["worker"] \in {"inbound", "outbound", "reply", "open"} => Agreed
  /\ side["worker"] \in {"outbound", "reply", "open"} => "Consumer" \in claims["ParentToWorker"]
  /\ side["worker"] \in {"reply", "open"} => "Producer" \in claims["WorkerToParent"]

\* The acknowledgement on the wire stands for all of them.
AckOK ==
  wire.ack = "accepted" =>
    Agreed /\ \A f \in Flows : {ParentRole(f), WorkerRole(f)} \subseteq claims[f]

SetupInv == SetupType /\ ParentOK /\ WorkerOK /\ AckOK

\* Everything that only the stream's operations change leaves the setup alone.
LEMMA SetupFrame ==
  ASSUME SetupInv, UNCHANGED <<setup, shape>>
  PROVE  SetupInv'
  BY DEF SetupInv, SetupType, ParentOK, WorkerOK, AckOK, Agreed, setup, WholeValues, TotalBytes, Valid

\* The initial states satisfy the setup invariant.
LEMMA SetupInit == Init => SetupInv
  BY DEF Init, SetupInv, SetupType, ParentOK, WorkerOK, AckOK, Processes, ParentSides, WorkerSides,
     Flows, Direction

\* A step of the setup that keeps the declarations and the shape keeps
\* Agreed, and the roles that are taken stay taken.
LEMMA AgreedFrame ==
  ASSUME payload' = payload, shape' = shape
  PROVE  Agreed' = Agreed /\ (\A c : Valid(c)' = Valid(c) /\ WholeValues(c)' = WholeValues(c))
  BY DEF Agreed, WholeValues, TotalBytes, Valid

\* A process that drops what it owns, with or without a rejection.
LEMMA DropSetup ==
  ASSUME SetupInv, NEW p \in Processes, Drop(p),
         wire' = wire \/ (side["worker"] # "open" /\ wire' = [wire EXCEPT !.ack = "rejected"])
  PROVE  SetupInv'
<1>1. /\ payload' = payload /\ shape' = shape /\ claims' = claims
      /\ regions' \in SUBSET regions
      /\ side' = [side EXCEPT ![p] = "gone"]
  BY DEF Drop, Move, Depart
<1>2. Agreed' = Agreed
  BY <1>1, AgreedFrame
<1>3. SetupType'
  BY <1>1 DEF SetupInv, SetupType, Processes, ParentSides, WorkerSides
<1>4. wire'.handle = wire.handle /\ (wire'.ack = "accepted" => wire.ack = "accepted")
  BY DEF SetupInv, SetupType
<1>5. ParentOK' /\ WorkerOK' /\ AckOK'
  BY <1>1, <1>2, <1>4 DEF SetupInv, SetupType, ParentOK, WorkerOK, AckOK, Processes, Direction
<1> QED
  BY <1>3, <1>5 DEF SetupInv

\* A process is killed.
LEMMA CrashSetup ==
  ASSUME SetupInv, NEW p \in Processes, Crash(p)
  PROVE  SetupInv'
<1>1. /\ UNCHANGED <<payload, shape, claims, regions, wire>>
      /\ side' = [side EXCEPT ![p] = "gone"]
  BY DEF Crash, Move, Depart
<1>2. Agreed' = Agreed
  BY <1>1, AgreedFrame
<1> QED
  BY <1>1, <1>2 DEF SetupInv, SetupType, ParentOK, WorkerOK, AckOK, Processes, Direction,
     ParentSides, WorkerSides

\* The steps of the setup that keep the stream.
LEMMA SetupStep ==
  ASSUME SetupInv, Setup
  PROVE  SetupInv'
<1> USE DEF SetupInv, SetupType, ParentOK, WorkerOK, AckOK, Processes, ParentSides, WorkerSides, Flows
<1>1. CASE Bind
  <2>1. CASE Fail("parent")
    BY <2>1, DropSetup DEF Fail
  <2>2. CASE path' = TRUE /\ Move("parent", "accept") /\ UNCHANGED <<stream, payload, link, wire, regions, claims>>
    BY <1>1, <2>2, AgreedFrame DEF Bind, Move, stream, Direction
  <2> QED
    BY <1>1, <2>1, <2>2 DEF Bind
<1>2. CASE Connect
  <2>1. CASE Fail("worker")
    BY <2>1, DropSetup DEF Fail
  <2>2. CASE Move("worker", "receive") /\ UNCHANGED <<stream, payload, path, wire, regions, claims>>
    BY <1>2, <2>2, AgreedFrame DEF Connect, Move, stream, Direction
  <2> QED
    BY <1>2, <2>1, <2>2 DEF Connect
<1>3. CASE Accept
  BY <1>3, AgreedFrame DEF Accept, Move, stream, Direction
<1>4. CASE AcceptTimeout
  BY <1>4, AgreedFrame DEF AcceptTimeout, Move, stream, Direction
<1>5. CASE StopListening
  BY <1>5, DropSetup DEF StopListening, Fail
<1>6. ASSUME NEW f \in Flows, CreateDirection(f) PROVE SetupInv'
  <2>1. CASE Fail("parent")
    BY <2>1, DropSetup DEF Fail
  <2>2. CASE ValidShape
    <3>1. /\ side["parent"] = "create" /\ regions' = regions \cup Direction(f)
          /\ claims' = [claims EXCEPT ![f] = @ \cup {ParentRole(f)}]
          /\ f = "WorkerToParent" => Direction("ParentToWorker") \subseteq regions
          /\ side' = [side EXCEPT !["parent"] = IF f = "WorkerToParent" THEN "send" ELSE "create"]
          /\ UNCHANGED <<shape, payload, wire>>
      BY <1>6, <2>2 DEF CreateDirection, CreateArenas, CreateRegions, ClaimRole, Move, ParentRole, stream
    <3>2. Agreed' = Agreed
      BY <3>1, AgreedFrame
    <3>3. /\ Direction("ParentToWorker") \cap Direction("WorkerToParent") = {}
          /\ Direction("ParentToWorker") # {} /\ \A g \in Flows : Direction(g) \subseteq Regions
      <4>1. \A g \in Flows : \A z \in Direction(g) : z[1] = g
        BY DEF Direction
      <4>2. <<"ParentToWorker", "data">> \in Direction("ParentToWorker")
        BY DEF Direction
      <4>3. \A g \in Flows : Direction(g) \subseteq Regions
        BY DEF Direction, Regions
      <4> QED
        BY <4>1, <4>2, <4>3
    <3>4. SetupType'
      BY <3>1, <3>3 DEF ParentRole
    <3>5. ParentOK'
      <4>1. \A g \in Flows : (Direction(g) \cap regions # {})' => ParentRole(g) \in claims'[g]
        BY <3>1, <3>3 DEF Direction
      <4>2. CASE f = "WorkerToParent"
        <5>1. "Producer" \in claims["ParentToWorker"]
          BY <3>1, <3>3, <4>2 DEF ParentRole
        <5> QED
          BY <3>1, <3>2, <4>1, <4>2, <5>1 DEF ParentRole
      <4>3. CASE f = "ParentToWorker"
        BY <3>1, <3>2, <4>1, <4>3 DEF ParentRole
      <4> QED
        BY <4>2, <4>3
    <3>6. WorkerOK' /\ AckOK'
      BY <3>1, <3>2
    <3> QED
      BY <3>4, <3>5, <3>6
  <2> QED
    BY <1>6, <2>1, <2>2 DEF CreateDirection
<1>7. ASSUME NEW f \in Flows, OpenDirection(f) PROVE SetupInv'
  <2>1. CASE Reject
    BY <1>7, <2>1, DropSetup DEF Reject, OpenDirection
  <2>2. CASE /\ ClaimRole(f, WorkerRole(f))
             /\ Move("worker", IF f = "ParentToWorker" THEN "outbound" ELSE "reply")
             /\ UNCHANGED <<stream, payload, path, link, wire, regions>>
    BY <1>7, <2>2, AgreedFrame DEF OpenDirection, ClaimRole, Move, stream, WorkerRole, ParentRole, Direction
  <2> QED
    BY <1>7, <2>1, <2>2 DEF OpenDirection, WorkerRole
<1>8. CASE SendHandle
  <2>1. CASE Fail("parent")
    BY <2>1, DropSetup DEF Fail
  <2>2. CASE ~ ("worker" \in closed)
    BY <1>8, <2>2, AgreedFrame, ZenonT(60) DEF SendHandle, Move, stream, Direction
  <2> QED
    BY <1>8, <2>1, <2>2 DEF SendHandle
<1>9. CASE ReadAck
  <2>1. CASE Fail("parent")
    BY <2>1, DropSetup DEF Fail
  <2>2. CASE wire.ack = "accepted" /\ Move("parent", "open") /\ UNCHANGED <<stream, payload, path, link, wire, regions, claims>>
    BY <1>9, <2>2, AgreedFrame DEF ReadAck, Move, stream, Direction, ParentRole, WorkerRole
  <2> QED
    BY <1>9, <2>1, <2>2 DEF ReadAck
<1>10. CASE ReadHandle
  <2>1. CASE Reject
    BY <1>10, <2>1, DropSetup DEF Reject, ReadHandle
  <2>2. CASE wire.handle /\ Move("worker", "check") /\ UNCHANGED <<stream, payload, path, link, wire, regions, claims>>
    BY <1>10, <2>2, AgreedFrame DEF ReadHandle, Move, stream, Direction
  <2> QED
    BY <1>10, <2>1, <2>2 DEF ReadHandle
<1>11. CASE CheckContract
  <2>1. CASE Reject
    BY <1>11, <2>1, DropSetup DEF Reject, CheckContract
  <2>2. CASE Agreed /\ Move("worker", "inbound") /\ UNCHANGED <<stream, payload, path, link, wire, regions, claims>>
    BY <1>11, <2>2, AgreedFrame DEF CheckContract, Move, stream, Direction
  <2> QED
    BY <1>11, <2>1, <2>2 DEF CheckContract, Agreed
<1>12. CASE AcceptSetup
  <2>1. CASE Fail("worker")
    BY <2>1, DropSetup DEF Fail
  <2>2. CASE ~ ("parent" \in closed)
    BY <1>12, <2>2, AgreedFrame DEF AcceptSetup, Move, stream, Direction, ParentRole, WorkerRole
  <2> QED
    BY <1>12, <2>1, <2>2 DEF AcceptSetup
<1> QED
  BY <1>1, <1>2, <1>3, <1>4, <1>5, <1>6, <1>7, <1>8, <1>9, <1>10, <1>11, <1>12 DEF Setup

\* Every step keeps the setup invariant.
LEMMA SetupNext == SetupInv /\ [Next]_vars => SetupInv'
<1> SUFFICES ASSUME SetupInv, [Next]_vars PROVE SetupInv'
  OBVIOUS
<1>1. CASE Setup
  BY <1>1, SetupStep
<1>2. ASSUME NEW p \in Processes, SetupError(p) PROVE SetupInv'
  <2>1. CASE side[p] \in {"receive", "check", "inbound", "outbound"}
    <3>1. p = "worker"
      BY <2>1 DEF SetupInv, SetupType, Processes, ParentSides
    <3> QED
      BY <1>2, <2>1, <3>1, DropSetup DEF SetupError, Reject
  <2>2. CASE ~ (side[p] \in {"receive", "check", "inbound", "outbound"})
    BY <1>2, <2>2, DropSetup DEF SetupError, Fail
  <2> QED
    BY <2>1, <2>2
<1>3. ASSUME NEW p \in Processes, Crash(p) PROVE SetupInv'
  BY <1>3, CrashSetup
<1>4. ASSUME NEW p \in Processes, Close(p) PROVE SetupInv'
  BY <1>4, DropSetup DEF Close
<1>5. ASSUME NEW p \in Processes,
             Begin(p) \/ ((Step(p) \/ Deadline(p) \/ OtherHalfFails(p)) /\ UNCHANGED setup)
      PROVE SetupInv'
  <2>1. shape' = shape /\ UNCHANGED setup
    BY <1>5 DEF Begin, Call, Step, Deadline, OtherHalfFails, ProbeEnd, WriteSlot, ReadSource, Try,
       StoreSequence, ClaimWaiter, Wake, Observe, Recheck, Register, Park, Woken, Expire, ClearWaiter,
       Peek, Pushed, Released, Received, WriteAll, Go, Return, SetEvent
  <2> QED
    BY <2>1, SetupFrame
<1>6. CASE UNCHANGED vars
  BY <1>6, SetupFrame DEF vars, stream
<1> QED
  BY <1>1, <1>2, <1>3, <1>4, <1>5, <1>6 DEF Next

\* A process whose create or attach_peer returned a duplex shares it with a
\* peer of the same, valid payload contract that has taken its two roles:
\* whatever fails or dies at any step of the rendezvous or the handshake.
THEOREM SetupCorrect == Spec => []SetupAgreed
<1>1. SetupInv => SetupAgreed
  <2> SUFFICES ASSUME SetupInv PROVE SetupAgreed
    OBVIOUS
  <2>1. \A p \in Processes : side[p] = "open" => Agreed /\ payload[p] = payload["parent"]
    BY DEF SetupInv, ParentOK, WorkerOK, Processes, Agreed
  <2>2. \A p \in Processes : side[p] = "open" =>
          \A f \in Flows : ParentRole(f) \in claims[f] /\ WorkerRole(f) \in claims[f]
    BY DEF SetupInv, ParentOK, WorkerOK, Processes, Flows, WorkerRole
  <2>3. \A p \in Processes : side[p] = "open" => \A f \in Flows : claims[f] = {"Producer", "Consumer"}
    BY <2>2 DEF SetupInv, SetupType, Flows, ParentRole, WorkerRole
  <2> QED
    BY <2>1, <2>3 DEF SetupAgreed, Agreed
<1> QED
  BY <1>1, SetupInit, SetupNext, PTL DEF Spec

-----------------------------------------------------------------------------
(* The stream: types.                                                      *)

Pcs == {"idle", "gone", "excess", "write", "read", "sink", "try", "observe", "recheck", "register",
        "park", "parked", "clear", "peek", "store", "swap", "wake", "notified"}

\* Where a frame is still to be pushed or popped, and where it has been.
Waiting == {"try", "observe", "recheck", "register", "park", "parked", "clear", "peek"}
Done    == {"store", "swap", "wake", "notified"}

Bytes == Nat \X Nat \X Nat
Frame == [kind : {"Data", "Released", "Complete"}, offset : Nat, slot : Nat, generation : Nat,
          len : Nat, checksum : Seq(Bytes)]
Endpoint ==
  [pc : Pcs, mode : {"exact", "to_end"}, chunks : Nat, released : Nat, total : Nat,
   aggregate : Seq(Bytes), eof : BOOLEAN, completed : BOOLEAN, op : {"push", "pop"},
   frame : Frame, observed : Nat, expired : BOOLEAN]

Arenas == {"data", "releases"}
Ring   == [tail : Nat, q : Seq(Frame)]
Events == Arenas \X {"data_ready", "space_ready"}
Signal == [sequence : Nat, waiters : {0, 1}, pending : BOOLEAN]

AllOk(p) == \A i \in DOMAIN outcome[p] : outcome[p][i] = "ok"

StreamType ==
  /\ shape \in Shapes /\ flow \in ActiveFlows /\ backend \in Backends
  /\ arena \in [Arenas -> Ring] /\ \A a \in Arenas : Len(arena[a].q) <= arena[a].tail
  /\ slot \in [0 .. Slots - 1 -> Bytes]
  /\ event \in [Events -> Signal]
  /\ ep \in [Processes -> Endpoint]
  /\ shut \in BOOLEAN
  /\ source \in Seq(Nat) /\ sink \in Seq(Seq(Bytes))
  /\ outcome \in [Processes -> Seq({"ok", "error"})]

\* An endpoint in a call has not failed before, and fails once: so it is as
\* long as no failed call is retried.
OutcomesOK(p) ==
  /\ InCall(p) => AllOk(p)
  /\ \A i \in DOMAIN outcome[p] : i < Len(outcome[p]) => outcome[p][i] = "ok"

Orderly == \A p \in Processes : OutcomesOK(p)
NoRetry == \A p \in Processes : Unretried(p)

\* One reader per call of the producer, one sink per call of the consumer.
CallInv ==
  /\ InCall(Producer) => Len(source) = Round(Producer)
  /\ InCall(Consumer) => Len(sink) = Round(Consumer)
  /\ At(Producer, "idle") => Len(source) = Len(outcome[Producer])
  /\ At(Consumer, "idle") => Len(sink) = Len(outcome[Consumer])
  /\ Len(outcome[Producer]) <= Len(source) /\ Len(outcome[Consumer]) <= Len(sink)
  /\ ep[Consumer].pc \notin {"excess", "write", "read"} /\ ep[Producer].pc # "sink"
  /\ ep[Consumer].pc = "sink" => ep[Consumer].op = "pop" /\ ep[Consumer].frame.slot \in 0 .. Slots - 1

-----------------------------------------------------------------------------
(* The stream: wake-ups.                                                   *)

\* The process that advances a cursor and notifies its event, and the cursor.
Notifier(x) == IF (x[1] = "data") = (x[2] = "data_ready") THEN Producer ELSE Consumer
CursorAt(x) ==
  IF x[2] = "data_ready" THEN arena[x[1]].tail ELSE arena[x[1]].tail - Len(arena[x[1]].q)

\* The event lags its cursor only while the notifier is about to store it, or
\* died there.
SeqOK(x) ==
  /\ event[x].sequence <= CursorAt(x)
  /\ \/ event[x].sequence = CursorAt(x)
     \/ At(Notifier(x), "gone")
     \/ At(Notifier(x), "store") /\ Notified(Notifier(x)) = x

\* What was observed is no later than the event, and older than the step that
\* made the ring ready.
ObservedOK(p) ==
  /\ ep[p].pc \in {"recheck", "register", "park", "parked"} => ep[p].observed <= event[Awaited(p)].sequence
  /\ ep[p].pc \in {"register", "park", "parked"} /\ Ready(p) => ep[p].observed < CursorAt(Awaited(p))

\* A registration that was taken became a token, or is about to.
TokenOK(p) ==
  ep[p].pc \in {"park", "parked"} =>
    \/ event[Awaited(p)].waiters = 1
    \/ event[Awaited(p)].pending
    \/ At(Peer(p), "gone")
    \/ At(Peer(p), "wake") /\ Notified(Peer(p)) = Awaited(p)

WakeInv ==
  /\ \A x \in Events : SeqOK(x)
  /\ \A p \in Processes : ObservedOK(p) /\ TokenOK(p)
  /\ NoLostWakeup

-----------------------------------------------------------------------------
(* The stream: slots in flight.                                            *)

\* The consumer holds a frame that it popped and has not answered; the
\* producer holds an answer, or a frame that it has not pushed.
Holding == \/ ep[Consumer].op = "push" /\ ep[Consumer].pc \in Waiting
           \/ ep[Consumer].op = "pop" /\ ep[Consumer].pc \in Done \cup {"sink"}
Answered == ep[Producer].op = "pop" /\ ep[Producer].pc \in Done
Pushing  == ep[Producer].op = "push" /\ ep[Producer].pc \in Waiting

One(b) == IF b THEN 1 ELSE 0

\* Frames the producer pushed in its call, and frames that are on their way
\* to the consumer and back.
PushedFrames == ep[Producer].chunks + One(ep[Producer].completed) - One(Pushing)
InFlight     == One(Answered) + Len(arena["releases"].q) + One(Holding) + Len(arena["data"].q)

\* The last test of an exact transfer or of one to the end.
AtEnd(e) == IF e.mode = "exact" THEN e.chunks = Chunks ELSE e.eof

\* No answer without a frame, and never more than Slots chunks unanswered.
FlightOK ==
  InCall(Producer) =>
    /\ ep[Producer].released + InFlight <= PushedFrames
    /\ ep[Producer].chunks <= ep[Producer].released + Slots
    /\ ep[Producer].pc \in {"excess", "write", "read"} => ~ep[Producer].completed /\ ~AtEnd(ep[Producer])
    /\ ep[Producer].pc \in {"write", "read"} => ep[Producer].chunks < ep[Producer].released + Slots
    /\ ep[Producer].completed => AtEnd(ep[Producer]) /\ ep[Producer].released = ep[Producer].chunks

\* The consumer's pop comes with the slot of the chunk it stands for.
SlotsOK ==
  InCall(Producer) =>
    /\ \A i \in DOMAIN arena["data"].q : arena["data"].q[i].kind = "Data" =>
         arena["data"].q[i].slot = SlotOf(PushedFrames - Len(arena["data"].q) + i - 1)
    /\ Holding /\ ep[Consumer].op = "pop" /\ ep[Consumer].frame.kind = "Data" =>
         ep[Consumer].frame.slot = SlotOf(PushedFrames - Len(arena["data"].q) - 1)
    /\ Pushing /\ ep[Producer].frame.kind = "Data" =>
         ~ep[Producer].completed /\ ep[Producer].frame.slot = SlotOf(ep[Producer].chunks - 1)

\* A producer whose calls all returned Ok has nothing in flight.
Finished == AllOk(Producer) /\ Len(outcome[Producer]) = Len(source)
QuietOK  == Finished => arena["data"].q = <<>> /\ arena["releases"].q = <<>> /\ ~Holding

CustodyInv == FlightOK /\ SlotsOK /\ QuietOK

-----------------------------------------------------------------------------
(* The stream: contents.                                                   *)

\* The consumer has pushed its echo of COMPLETE, and its call is as good as
\* over; the call that its next pop belongs to.
Echoed    == ep[Consumer].completed /\ ep[Consumer].op = "push" /\ ep[Consumer].pc \in Done
NextRound == Round(Consumer) + One(Echoed)
Live      == AllOk(Consumer) /\ ~At(Consumer, "gone")

\* The frames that COMPLETE may be in.
Ending(f)    == f.kind = "Complete"
EndInData    == \E i \in DOMAIN arena["data"].q : Ending(arena["data"].q[i])
EndHeld      == Holding /\ Ending(ep[Consumer].frame)
EndInReplies == \E i \in DOMAIN arena["releases"].q : Ending(arena["releases"].q[i])
EndAnswered  == Answered /\ Ending(ep[Producer].frame)

\* COMPLETE is the last frame of its call.
LastOK ==
  /\ \A i \in DOMAIN arena["data"].q : Ending(arena["data"].q[i]) => i = Len(arena["data"].q)
  /\ EndHeld => arena["data"].q = <<>>
  /\ (EndInData \/ EndHeld) /\ InCall(Producer) => ep[Producer].completed /\ ~Pushing
  /\ Pushing /\ Ending(ep[Producer].frame) => ep[Producer].completed

\* The consumer is in the producer's call, or has just left it.
RoundOK ==
  Live =>
    \/ NextRound = Len(source)
    \/ /\ NextRound = Len(source) + 1
       /\ arena["data"].q = <<>> /\ ~Holding
       /\ InCall(Producer) => ep[Producer].completed /\ ~Pushing

AheadOK == Live /\ (Finished \/ EndInReplies \/ EndAnswered) => NextRound = Len(source) + 1

\* The bytes of a list are consecutive, from call r, and end at n.
Run(r, bytes, n) ==
  /\ \A i \in DOMAIN bytes : bytes[i][1] = r /\ bytes[i][3] > 0
       /\ bytes[i][2] = IF i = 1 THEN 0 ELSE bytes[i - 1][2] + bytes[i - 1][3]
  /\ (IF bytes = <<>> THEN 0 ELSE Last(bytes)[2] + Last(bytes)[3]) = n

\* What call r has to move.
Full(r) == Least(source[r], TotalBytes)

\* The producer's checksums are those of what it read, all of it at the end.
ReadOK ==
  InCall(Producer) =>
    LET e == ep[Producer] IN
    /\ Run(Round(Producer), e.aggregate, e.total)
    /\ e.total <= Full(Round(Producer))
    /\ e.mode = "exact" => e.total = Least(e.chunks * ChunkBytes, TotalBytes) /\ e.chunks <= Chunks
    /\ e.mode = "to_end" /\ e.pc \in {"write", "read"} => e.total < TotalBytes
    /\ e.mode = "to_end" /\ e.eof => e.total = source[Round(Producer)]

\* Every COMPLETE frame in flight carries the checksums of the whole call.
WholeFrame(f) == Ending(f) => Len(source) >= 1 /\ Run(Len(source), f.checksum, Full(Len(source)))
CompleteOK ==
  /\ \A a \in Arenas : \A i \in DOMAIN arena[a].q : WholeFrame(arena[a].q[i])
  /\ Holding => WholeFrame(ep[Consumer].frame)
  /\ Pushing => WholeFrame(ep[Producer].frame)

\* The consumer's checksums are those of what it wrote out.
WrittenOK ==
  InCall(Consumer) =>
    LET d == ep[Consumer] IN
    /\ sink[Round(Consumer)] = d.aggregate
    /\ d.pc = "sink" => d.frame.checksum = <<slot[d.frame.slot]>> /\ d.frame.kind = "Data"
    /\ d.completed /\ d.pc \in Waiting => Ending(d.frame) /\ d.frame.checksum = d.aggregate
    /\ d.completed => d.op = "push" /\ d.pc \in Waiting \cup Done
    /\ d.op = "push" /\ d.pc \in Waiting /\ ~d.completed => d.frame.kind = "Released"

\* An echo, or a call that is over, vouches for the sink of its call.
Arrived(r) == Len(source) >= r /\ Len(sink) >= r /\ Run(r, sink[r], Full(r))
EchoOK ==
  /\ Echoed => Arrived(Round(Consumer))
  /\ EndInReplies \/ EndAnswered => Len(source) >= 1 /\ Arrived(Len(source))

OkArrived == \A p \in Processes : \A r \in DOMAIN outcome[p] : outcome[p][r] = "ok" => Arrived(r)

ContentInv == LastOK /\ RoundOK /\ AheadOK /\ ReadOK /\ CompleteOK /\ WrittenOK /\ EchoOK /\ OkArrived

\* What holds of every state, and what holds until a failed call is retried.
StreamInv == /\ StreamType /\ CallInv
             /\ Unretried(Producer) => CustodyInv
             /\ NoRetry => ContentInv

-----------------------------------------------------------------------------
(* What the operators of the stream return.                                *)

\* The two processes and the two ends of the stream.
LEMMA Ends ==
  /\ Producer \in Processes /\ Consumer \in Processes /\ Producer # Consumer
  /\ \A p \in Processes : p = Producer \/ p = Consumer
  /\ \A p \in Processes : Peer(p) \in Processes /\ Peer(p) # p /\ Peer(Peer(p)) = p
  /\ \A p, r \in Processes : r # p => r = Peer(p)
  /\ Peer(Producer) = Consumer /\ Peer(Consumer) = Producer
  BY DEF Producer, Consumer, Peer, Processes

\* The numbers of the shape.
LEMMA ShapeFacts ==
  ASSUME StreamType
  PROVE  /\ Slots \in Nat \ {0} /\ ChunkBytes \in Nat \ {0} /\ TotalBytes \in Nat
         /\ Chunks \in Nat
<1>1. Slots \in Nat \ {0} /\ ChunkBytes \in Nat \ {0} /\ TotalBytes \in Nat
  BY StreamAssumption DEF StreamType, Slots, ChunkBytes, TotalBytes
<1>2. \A a \in Nat, b \in Nat \ {0} : (a + b - 1) \div b \in Nat
  BY SMT
<1> QED
  BY <1>1, <1>2 DEF Chunks, DivCeil

\* A chunk has a slot and a generation.
LEMMA SlotFacts ==
  ASSUME StreamType, NEW c \in Nat
  PROVE  SlotOf(c) \in 0 .. Slots - 1 /\ GenerationOf(c) \in Nat /\ SlotOf(c) \in Nat
<1>1. Slots \in Nat \ {0}
  BY ShapeFacts
<1>2. \A a \in Nat, b \in Nat \ {0} : a \div b \in Nat /\ a % b \in 0 .. b - 1
  BY SMT
<1>3. c \div Slots \in Nat /\ c % Slots \in 0 .. Slots - 1
  BY <1>1, <1>2
<1> QED
  BY <1>1, <1>3 DEF SlotOf, GenerationOf

\* The fields of an endpoint.
LEMMA Fields ==
  ASSUME NEW e \in Endpoint
  PROVE  /\ e.pc \in Pcs /\ e.mode \in {"exact", "to_end"} /\ e.chunks \in Nat /\ e.released \in Nat
         /\ e.total \in Nat /\ e.aggregate \in Seq(Bytes) /\ e.eof \in BOOLEAN
         /\ e.completed \in BOOLEAN /\ e.op \in {"push", "pop"} /\ e.frame \in Frame
         /\ e.observed \in Nat /\ e.expired \in BOOLEAN
  BY DEF Endpoint

\* Frames of every kind.
LEMMA FrameFacts ==
  ASSUME StreamType
  PROVE  /\ \A total \in Nat, sum \in Seq(Bytes) :
              /\ Complete(total, sum) \in Frame /\ Complete(total, sum).kind = "Complete"
              /\ Complete(total, sum).checksum = sum
         /\ \A c, offset, len \in Nat, b \in Bytes :
              /\ Data(c, offset, len, b) \in Frame /\ Data(c, offset, len, b).kind = "Data"
              /\ Data(c, offset, len, b).slot = SlotOf(c)
         /\ \A f \in Frame : /\ [f EXCEPT !.kind = "Released"] \in Frame
                             /\ [f EXCEPT !.kind = "Released"].kind = "Released"
<1>1. \A c \in Nat : SlotOf(c) \in Nat /\ GenerationOf(c) \in Nat
  BY SlotFacts
<1>2. \A b \in Bytes : <<b>> \in Seq(Bytes)
  OBVIOUS
<1>3. ASSUME NEW c \in Nat, NEW offset \in Nat, NEW len \in Nat, NEW b \in Bytes
      PROVE  Data(c, offset, len, b) \in Frame
  BY <1>1, <1>2 DEF Data, Frame
<1> QED
  BY <1>1, <1>2, <1>3 DEF Frame, Complete, Data

\* An idle endpoint.
LEMMA IdleIs ==
  /\ Idle \in Endpoint /\ Idle.pc = "idle" /\ Idle.op = "pop" /\ Idle.completed = FALSE
  /\ Idle.chunks = 0 /\ Idle.released = 0 /\ Idle.total = 0 /\ Idle.aggregate = <<>> /\ Idle.eof = FALSE
  BY DEF Idle, NoFrame, Complete, Endpoint, Frame, Pcs, Bytes

\* Pop and Push of an endpoint.
LEMMA PopIs ==
  ASSUME NEW e \in Endpoint
  PROVE  /\ Pop(e) \in Endpoint /\ Pop(e).pc = "try" /\ Pop(e).op = "pop"
         /\ Pop(e).mode = e.mode /\ Pop(e).chunks = e.chunks /\ Pop(e).released = e.released
         /\ Pop(e).total = e.total /\ Pop(e).aggregate = e.aggregate /\ Pop(e).eof = e.eof
         /\ Pop(e).completed = e.completed
  BY DEF Pop, Endpoint, Pcs

\* Push: the endpoint is about to push frame f.
LEMMA PushIs ==
  ASSUME NEW e \in Endpoint, NEW f \in Frame
  PROVE  /\ Push(e, f) \in Endpoint /\ Push(e, f).pc = "try" /\ Push(e, f).op = "push"
         /\ Push(e, f).mode = e.mode /\ Push(e, f).chunks = e.chunks /\ Push(e, f).released = e.released
         /\ Push(e, f).total = e.total /\ Push(e, f).aggregate = e.aggregate /\ Push(e, f).eof = e.eof
         /\ Push(e, f).completed = e.completed /\ Push(e, f).frame = f
  BY DEF Push, Endpoint, Pcs

\* The producer's next move: y is e with a new pc, and what that pc says.
NextMove(e, y) ==
  /\ y \in Endpoint
  /\ y.mode = e.mode /\ y.chunks = e.chunks /\ y.released = e.released
  /\ y.total = e.total /\ y.aggregate = e.aggregate /\ y.eof = e.eof
  /\ \/ /\ y.pc = "excess" /\ y.completed = e.completed /\ ~AtEnd(e) /\ e.mode = "to_end"
     \/ /\ y.pc = "write" /\ y.completed = e.completed /\ ~AtEnd(e)
        /\ e.mode = "to_end" => e.total # TotalBytes
        /\ e.chunks >= Slots => e.released # e.chunks - Slots
     \/ y.pc = "try" /\ y.op = "pop" /\ y.completed = e.completed
     \/ /\ y.pc = "try" /\ y.op = "push" /\ y.completed = TRUE /\ e.completed = FALSE /\ AtEnd(e)
        /\ ~ (e.released < e.chunks) /\ y.frame = Complete(FinalTotal(e), e.aggregate)

\* ProduceNext: what the producer's loop turns to, in terms of the fields it changes.
LEMMA ProduceNextIs ==
  ASSUME StreamType, NEW e \in Endpoint
  PROVE  NextMove(e, ProduceNext(e))
<1> DEFINE y == ProduceNext(e)
           f == Complete(FinalTotal(e), e.aggregate)
           z == [e EXCEPT !.completed = TRUE]
<1>1. FinalTotal(e) \in Nat /\ e.aggregate \in Seq(Bytes) /\ f \in Frame
  BY ShapeFacts, FrameFacts, Fields DEF FinalTotal
<1>2. /\ z \in Endpoint /\ z.mode = e.mode /\ z.chunks = e.chunks /\ z.released = e.released
      /\ z.total = e.total /\ z.aggregate = e.aggregate /\ z.eof = e.eof /\ z.completed = TRUE
  BY DEF Endpoint
<1>3. \/ ~AtEnd(e) /\ e.mode = "to_end" /\ y = [e EXCEPT !.pc = "excess"]
      \/ ~AtEnd(e) /\ (e.mode = "to_end" => e.total # TotalBytes)
           /\ (e.chunks >= Slots => e.released # e.chunks - Slots) /\ y = [e EXCEPT !.pc = "write"]
      \/ y = Pop(e)
      \/ AtEnd(e) /\ ~ (e.released < e.chunks) /\ ~e.completed /\ y = Push(z, f)
  BY DEF ProduceNext, AtEnd
<1>4. CASE ~AtEnd(e) /\ e.mode = "to_end" /\ y = [e EXCEPT !.pc = "excess"]
  BY <1>4 DEF NextMove, Endpoint, Pcs
<1>5. CASE ~AtEnd(e) /\ (e.mode = "to_end" => e.total # TotalBytes)
           /\ (e.chunks >= Slots => e.released # e.chunks - Slots) /\ y = [e EXCEPT !.pc = "write"]
  BY <1>5 DEF NextMove, Endpoint, Pcs
<1>6. CASE y = Pop(e)
  BY <1>6, PopIs DEF NextMove
<1>7. CASE AtEnd(e) /\ ~ (e.released < e.chunks) /\ ~e.completed /\ y = Push(z, f)
  <2>1. e.completed = FALSE
    BY <1>7, Fields
  <2> HIDE DEF z
  <2> QED
    BY <1>1, <1>2, <1>7, <2>1, PushIs DEF NextMove
<1> QED
  BY <1>3, <1>4, <1>5, <1>6, <1>7

-----------------------------------------------------------------------------
(* The steps of the stream by what they change.                            *)

\* A step of endpoint p.
Moves(p) ==
  /\ ep' \in [Processes -> Endpoint] /\ ep'[Peer(p)] = ep[Peer(p)]
  /\ UNCHANGED <<shape, flow, backend>>

SameBody(p) ==
  /\ ep'[p].mode = ep[p].mode /\ ep'[p].chunks = ep[p].chunks /\ ep'[p].released = ep[p].released
  /\ ep'[p].total = ep[p].total /\ ep'[p].aggregate = ep[p].aggregate /\ ep'[p].eof = ep[p].eof
  /\ ep'[p].completed = ep[p].completed /\ ep'[p].op = ep[p].op

\* Endpoint p moves on the way to its frame, or tells its peer about it.
Parking(p) ==
  /\ Moves(p) /\ SameBody(p) /\ ep'[p].frame = ep[p].frame
  /\ \/ ep[p].pc \in Waiting /\ ep'[p].pc \in Waiting
     \/ ep[p].pc \in Done /\ ep'[p].pc \in Done
  /\ event' \in [Events -> Signal]
  /\ UNCHANGED <<arena, slot, source, sink, outcome, closed, shut>>

\* A call returns.
Returning(p, why) ==
  /\ Moves(p) /\ ep'[p] = Idle /\ InCall(p)
  /\ outcome' = [outcome EXCEPT ![p] = Append(@, why)]
  /\ shut' \in BOOLEAN
  /\ UNCHANGED <<shared, closed, source, sink>>

\* The types of the pieces of the state.
LEMMA Types ==
  ASSUME StreamType
  PROVE  /\ \A p \in Processes : ep[p] \in Endpoint
         /\ \A a \in Arenas : arena[a] \in Ring /\ arena[a].tail \in Nat /\ arena[a].q \in Seq(Frame)
                              /\ Len(arena[a].q) \in Nat /\ Len(arena[a].q) <= arena[a].tail
         /\ \A x \in Events : event[x] \in Signal /\ event[x].sequence \in Nat
                              /\ event[x].waiters \in {0, 1} /\ event[x].pending \in BOOLEAN
         /\ \A p \in Processes : Len(outcome[p]) \in Nat /\ outcome[p] \in Seq({"ok", "error"})
         /\ Len(source) \in Nat /\ Len(sink) \in Nat
  BY DEF StreamType, Ring, Signal

\* The events of an endpoint.
LEMMA EventFacts ==
  ASSUME StreamType, NEW p \in Processes
  PROVE  /\ ArenaOf(p) \in Arenas /\ Awaited(p) \in Events /\ Notified(p) \in Events
         /\ Awaited(p)[1] = ArenaOf(p) /\ Notified(p)[1] = ArenaOf(p)
         /\ Awaited(p) # Awaited(Peer(p)) /\ Notified(p) # Notified(Peer(p)) /\ Notified(p) # Awaited(p)
         /\ Notifier(Awaited(p)) = Peer(p) /\ Notifier(Notified(p)) = p
         /\ Notified(p) = Awaited(Peer(p)) <=> ArenaOf(p) = ArenaOf(Peer(p))
         /\ CursorAt(Notified(p)) = Cursor(p)
<1>1. ep[p].op \in {"push", "pop"} /\ ep[Peer(p)].op \in {"push", "pop"}
  BY Types, Fields, Ends
<1> QED
  BY <1>1, Ends DEF ArenaOf, Awaited, Notified, Arenas, Events, Notifier, CursorAt, Cursor

\* Set moves one endpoint.
LEMMA SetMoves ==
  ASSUME StreamType, NEW p \in Processes, NEW y \in Endpoint, Set(p, y), UNCHANGED <<shape, flow, backend>>
  PROVE  Moves(p) /\ ep'[p] = y
  BY Ends DEF StreamType, Set, Moves

\* An endpoint that only walks on.
Walk(e, y) ==
  /\ y \in Endpoint
  /\ y.mode = e.mode /\ y.chunks = e.chunks /\ y.released = e.released
  /\ y.total = e.total /\ y.aggregate = e.aggregate /\ y.eof = e.eof
  /\ y.completed = e.completed /\ y.op = e.op /\ y.frame = e.frame

\* Moving only the pc is a walk.
LEMMA WalkPc ==
  ASSUME NEW e \in Endpoint, NEW pc \in Pcs, NEW y, y = [e EXCEPT !.pc = pc]
  PROVE  Walk(e, y) /\ y.pc = pc /\ y.observed = e.observed /\ y.expired = e.expired
  BY DEF Walk, Endpoint

\* A walk from one pc to another of the same kind.
LEMMA WalkParks ==
  ASSUME StreamType, NEW p \in Processes, NEW y, Walk(ep[p], y), Set(p, y),
         \/ ep[p].pc \in Waiting /\ y.pc \in Waiting
         \/ ep[p].pc \in Done /\ y.pc \in Done,
         event' \in [Events -> Signal],
         UNCHANGED <<shape, flow, backend, arena, slot, source, sink, outcome, closed, shut>>
  PROVE  Parking(p) /\ ep'[p] = y
<1>1. Moves(p) /\ ep'[p] = y
  BY SetMoves DEF Walk
<1> QED
  BY <1>1 DEF Parking, SameBody, Walk

\* What SetEvent does to the event it sets.
LEMMA SetEventIs ==
  ASSUME StreamType, NEW x \in Events, NEW v \in Signal, SetEvent(x, v)
  PROVE  /\ event' \in [Events -> Signal] /\ event'[x] = v /\ \A y \in Events : y # x => event'[y] = event[y]
         /\ UNCHANGED <<shape, flow, backend, arena, slot, source, sink, outcome, closed, shut>>
  BY DEF SetEvent, StreamType

\* The values the steps give a Signal.
LEMMA SignalIs ==
  ASSUME NEW v \in Signal, NEW n \in Nat, NEW w \in {0, 1}, NEW b \in BOOLEAN
  PROVE  /\ [v EXCEPT !.sequence = n] \in Signal /\ [v EXCEPT !.sequence = n].sequence = n
         /\ [v EXCEPT !.sequence = n].waiters = v.waiters /\ [v EXCEPT !.sequence = n].pending = v.pending
         /\ [v EXCEPT !.waiters = w] \in Signal /\ [v EXCEPT !.waiters = w].sequence = v.sequence
         /\ [v EXCEPT !.waiters = w].waiters = w /\ [v EXCEPT !.waiters = w].pending = v.pending
         /\ [v EXCEPT !.pending = b] \in Signal /\ [v EXCEPT !.pending = b].sequence = v.sequence
         /\ [v EXCEPT !.pending = b].waiters = v.waiters /\ [v EXCEPT !.pending = b].pending = b
  BY DEF Signal

\* Go keeps everything but the endpoint.
LEMMA GoIs ==
  ASSUME StreamType, NEW p \in Processes, NEW y, Go(p, y)
  PROVE  /\ Set(p, y) /\ event' = event /\ event' \in [Events -> Signal]
         /\ UNCHANGED <<shape, flow, backend, shared, arena, slot, source, sink, outcome, closed, shut>>
  BY DEF Go, shared, StreamType

\* The steps of wait_for_peer_event and of notify.
LEMMA TryParks ==
  ASSUME StreamType, NEW p \in Processes, Try(p), ~Ready(p)
  PROVE  Parking(p) /\ ep'[p].pc = "observe" /\ event' = event /\ ep[p].pc = "try"
<1> DEFINE y == [ep[p] EXCEPT !.pc = "observe"]
<1>1. Walk(ep[p], y) /\ y.pc = "observe"
  BY Types, WalkPc DEF Pcs
<1>2. Go(p, y) /\ ep[p].pc = "try"
  BY DEF Try, At
<1> HIDE DEF y
<1> QED
  BY <1>1, <1>2, GoIs, WalkParks DEF Waiting

\* Observe: the waiter has read its event's sequence.
LEMMA ObserveParks ==
  ASSUME StreamType, NEW p \in Processes, Observe(p)
  PROVE  /\ Parking(p) /\ ep'[p].pc = "recheck" /\ event' = event /\ ep[p].pc = "observe"
         /\ ep'[p].observed = event[Awaited(p)].sequence
<1> DEFINE o == event[Awaited(p)].sequence
           y == [ep[p] EXCEPT !.pc = "recheck", !.observed = o]
<1>1. ep[p] \in Endpoint /\ o \in Nat
  BY Types, EventFacts
<1>2. Go(p, y) /\ ep[p].pc = "observe"
  BY DEF Observe, At
<1> HIDE DEF o
<1>3. Walk(ep[p], y) /\ y.pc = "recheck" /\ y.observed = o
  BY <1>1 DEF Walk, Endpoint, Pcs
<1> HIDE DEF y
<1>4. Parking(p) /\ ep'[p].pc = "recheck" /\ event' = event /\ ep'[p].observed = o
  BY <1>2, <1>3, GoIs, WalkParks DEF Waiting
<1> QED
  BY <1>2, <1>4 DEF o

\* Loop: back to the try with the wait's state reset.
LEMMA LoopIs ==
  ASSUME StreamType, NEW p \in Processes
  PROVE  Walk(ep[p], Loop(p)) /\ Loop(p).pc = "try"
  BY Types, ZenonT(60) DEF Loop, Pcs, Walk, Endpoint

\* Recheck: it goes on to register only when nothing has changed.
LEMMA RecheckParks ==
  ASSUME StreamType, NEW p \in Processes, Recheck(p)
  PROVE  /\ Parking(p) /\ event' = event /\ ep[p].pc = "recheck"
         /\ \/ ep'[p].pc = "try"
            \/ ~Ready(p) /\ ~Changed(p) /\ ep'[p].pc = "register" /\ ep'[p].observed = ep[p].observed
<1> DEFINE y == [ep[p] EXCEPT !.pc = "register"]
<1>1. Walk(ep[p], y) /\ y.pc = "register" /\ y.observed = ep[p].observed
  BY Types, WalkPc DEF Pcs
<1> HIDE DEF y
<1>2. ep[p].pc = "recheck" /\ (Go(p, Loop(p)) \/ (~Ready(p) /\ ~Changed(p) /\ Go(p, y)))
  BY DEF Recheck, At, y
<1>3. CASE Go(p, Loop(p))
  BY <1>2, <1>3, LoopIs, GoIs, WalkParks DEF Waiting
<1>4. CASE ~Ready(p) /\ ~Changed(p) /\ Go(p, y)
  BY <1>1, <1>2, <1>4, GoIs, WalkParks DEF Waiting
<1> QED
  BY <1>2, <1>3, <1>4

\* Register: a free event gets this waiter.
LEMMA RegisterParks ==
  ASSUME StreamType, NEW p \in Processes, Register(p), event[Awaited(p)].waiters = 0
  PROVE  /\ Parking(p) /\ ep[p].pc = "register" /\ ep'[p].pc = "park" /\ ep'[p].observed = ep[p].observed
         /\ \A x \in Events : event'[x].sequence = event[x].sequence /\ event'[x].pending = event[x].pending
                              /\ (x # Awaited(p) => event'[x] = event[x])
         /\ event'[Awaited(p)].waiters = 1
<1> DEFINE y == [ep[p] EXCEPT !.pc = "park"]
           x == Awaited(p)
           v == [event[x] EXCEPT !.waiters = 1]
<1>1. Walk(ep[p], y) /\ y.pc = "park" /\ y.observed = ep[p].observed
  BY Types, WalkPc DEF Pcs
<1>2. ep[p].pc = "register" /\ Set(p, y) /\ SetEvent(x, v)
  BY DEF Register, At
<1>3. x \in Events /\ event[x] \in Signal
  BY EventFacts, Types
<1>4. v \in Signal /\ v.waiters = 1 /\ v.sequence = event[x].sequence /\ v.pending = event[x].pending
  BY <1>3 DEF Signal
<1> HIDE DEF y, v
<1>5. /\ event' \in [Events -> Signal] /\ event'[x] = v /\ \A z \in Events : z # x => event'[z] = event[z]
      /\ UNCHANGED <<shape, flow, backend, arena, slot, source, sink, outcome, closed, shut>>
  BY <1>2, <1>3, <1>4, SetEventIs
<1>6. Parking(p) /\ ep'[p] = y
  BY <1>1, <1>2, <1>5, WalkParks DEF Waiting
<1> QED
  BY <1>1, <1>2, <1>3, <1>4, <1>5, <1>6

\* Park: the waiter blocks only on the sequence it observed.
LEMMA ParkParks ==
  ASSUME StreamType, NEW p \in Processes, Park(p)
  PROVE  /\ Parking(p) /\ ep[p].pc = "park"
         /\ \A x \in Events : event'[x].sequence = event[x].sequence /\ event'[x].waiters = event[x].waiters
                              /\ (x # Awaited(p) => event'[x] = event[x])
         /\ \/ ep'[p].pc = "clear"
            \/ /\ ~Changed(p) /\ ~HasToken(p) /\ ep'[p].pc = "parked" /\ ep'[p].observed = ep[p].observed
               /\ event'[Awaited(p)].pending = event[Awaited(p)].pending
<1> DEFINE x == Awaited(p)
           token == HasToken(p) /\ ~Changed(p)
           pc == IF Changed(p) \/ token THEN "clear" ELSE "parked"
           y == [ep[p] EXCEPT !.pc = pc]
           v == IF token THEN [event[x] EXCEPT !.pending = FALSE] ELSE event[x]
<1>1. ep[p].pc = "park" /\ Set(p, y) /\ SetEvent(x, v)
  BY DEF Park, At
<1>2. pc \in Pcs /\ pc \in Waiting /\ (pc = "clear" \/ (~Changed(p) /\ ~HasToken(p) /\ pc = "parked" /\ ~token))
  BY DEF Pcs, Waiting
<1>3. x \in Events /\ event[x] \in Signal
  BY EventFacts, Types
<1>4. /\ v \in Signal /\ v.waiters = event[x].waiters /\ v.sequence = event[x].sequence
      /\ ~token => v.pending = event[x].pending
  BY <1>3 DEF Signal
<1> HIDE DEF pc, v, token
<1>5. Walk(ep[p], y) /\ y.pc = pc /\ y.observed = ep[p].observed
  BY <1>2, Types, WalkPc
<1> HIDE DEF y
<1>6. /\ event' \in [Events -> Signal] /\ event'[x] = v /\ \A z \in Events : z # x => event'[z] = event[z]
      /\ UNCHANGED <<shape, flow, backend, arena, slot, source, sink, outcome, closed, shut>>
  BY <1>1, <1>3, <1>4, SetEventIs
<1>7. Parking(p) /\ ep'[p] = y
  BY <1>1, <1>2, <1>5, <1>6, WalkParks DEF Waiting
<1> QED
  BY <1>1, <1>2, <1>3, <1>4, <1>5, <1>6, <1>7

\* Woken: the waiter returns from the kernel.
LEMMA WokenParks ==
  ASSUME StreamType, NEW p \in Processes, Woken(p)
  PROVE  /\ Parking(p) /\ ep[p].pc = "parked" /\ ep'[p].pc = "clear"
         /\ \A x \in Events : event'[x].sequence = event[x].sequence /\ event'[x].waiters = event[x].waiters
                              /\ (x # Awaited(p) => event'[x] = event[x])
<1> DEFINE x == Awaited(p)
           y == [ep[p] EXCEPT !.pc = "clear"]
           v == [event[x] EXCEPT !.pending = FALSE]
<1>1. ep[p].pc = "parked" /\ Set(p, y) /\ SetEvent(x, v)
  BY DEF Woken, At
<1>2. Walk(ep[p], y) /\ y.pc = "clear"
  BY Types, WalkPc DEF Pcs
<1>3. x \in Events /\ event[x] \in Signal
  BY EventFacts, Types
<1>4. v \in Signal /\ v.waiters = event[x].waiters /\ v.sequence = event[x].sequence
  BY <1>3 DEF Signal
<1> HIDE DEF y, v
<1>5. /\ event' \in [Events -> Signal] /\ event'[x] = v /\ \A z \in Events : z # x => event'[z] = event[z]
      /\ UNCHANGED <<shape, flow, backend, arena, slot, source, sink, outcome, closed, shut>>
  BY <1>1, <1>3, <1>4, SetEventIs
<1>6. Parking(p) /\ ep'[p] = y
  BY <1>1, <1>2, <1>5, WalkParks DEF Waiting
<1> QED
  BY <1>1, <1>2, <1>3, <1>4, <1>5, <1>6

\* Expire: the poll interval ends.
LEMMA ExpireParks ==
  ASSUME StreamType, NEW p \in Processes, Expire(p)
  PROVE  Parking(p) /\ ep[p].pc = "parked" /\ ep'[p].pc = "clear" /\ event' = event
<1> DEFINE y == [ep[p] EXCEPT !.pc = "clear", !.expired = TRUE]
<1>1. Walk(ep[p], y) /\ y.pc = "clear"
  BY Types, ZenonT(60) DEF Walk, Endpoint, Pcs
<1>2. Go(p, y) /\ ep[p].pc = "parked"
  BY DEF Expire, At
<1> HIDE DEF y
<1> QED
  BY <1>1, <1>2, GoIs, WalkParks DEF Waiting

\* Clear: the waiter takes itself off the count.
LEMMA ClearParks ==
  ASSUME StreamType, NEW p \in Processes, ClearWaiter(p)
  PROVE  /\ Parking(p) /\ ep[p].pc = "clear" /\ ep'[p].pc \in {"peek", "try"}
         /\ \A x \in Events : event'[x].sequence = event[x].sequence /\ event'[x].pending = event[x].pending
                              /\ (x # Awaited(p) => event'[x] = event[x])
<1> DEFINE x == Awaited(p)
           z == [ep[p] EXCEPT !.pc = "peek"]
           y == IF ep[p].expired /\ ~Changed(p) THEN z ELSE Loop(p)
           v == [event[x] EXCEPT !.waiters = 0]
<1>1. ep[p].pc = "clear" /\ Set(p, y) /\ SetEvent(x, v)
  BY DEF ClearWaiter, At
<1>2. Walk(ep[p], z) /\ z.pc = "peek"
  BY Types, WalkPc DEF Pcs
<1> HIDE DEF z
<1>3. Walk(ep[p], y) /\ y.pc \in {"peek", "try"}
  BY <1>2, LoopIs
<1>4. x \in Events /\ event[x] \in Signal
  BY EventFacts, Types
<1>5. v \in Signal /\ v.pending = event[x].pending /\ v.sequence = event[x].sequence
  BY <1>4 DEF Signal
<1> HIDE DEF y, v
<1>6. /\ event' \in [Events -> Signal] /\ event'[x] = v /\ \A w \in Events : w # x => event'[w] = event[w]
      /\ UNCHANGED <<shape, flow, backend, arena, slot, source, sink, outcome, closed, shut>>
  BY <1>1, <1>4, <1>5, SetEventIs
<1>7. Parking(p) /\ ep'[p] = y
  BY <1>1, <1>3, <1>6, WalkParks DEF Waiting
<1> QED
  BY <1>1, <1>3, <1>4, <1>5, <1>6, <1>7

\* Peek, with the peer still there: the loop goes round.
LEMMA PeekParks ==
  ASSUME StreamType, NEW p \in Processes, Peek(p), ~PeerClosed(p)
  PROVE  Parking(p) /\ ep[p].pc = "peek" /\ ep'[p].pc = "try" /\ event' = event
<1>1. Go(p, Loop(p)) /\ ep[p].pc = "peek"
  BY DEF Peek, At
<1> QED
  BY <1>1, LoopIs, GoIs, WalkParks DEF Waiting

\* Store: notify stores its cursor as the sequence of the event.
LEMMA StoreTells ==
  ASSUME StreamType, NEW p \in Processes, StoreSequence(p)
  PROVE  /\ Parking(p) /\ ep[p].pc = "store" /\ ep'[p].pc = "swap"
         /\ \A x \in Events : x # Notified(p) => event'[x] = event[x]
         /\ event'[Notified(p)].sequence = Cursor(p)
         /\ event'[Notified(p)].waiters = event[Notified(p)].waiters
         /\ event'[Notified(p)].pending = event[Notified(p)].pending
<1> DEFINE x == Notified(p)
           n == Cursor(p)
           y == [ep[p] EXCEPT !.pc = "swap"]
           v == [event[x] EXCEPT !.sequence = n]
<1>1. ep[p].pc = "store" /\ Set(p, y) /\ SetEvent(x, v)
  BY DEF StoreSequence, At
<1>2. Walk(ep[p], y) /\ y.pc = "swap"
  BY Types, WalkPc DEF Pcs
<1>3. x \in Events /\ event[x] \in Signal
  BY EventFacts, Types
<1>4. n \in Nat
  BY Types, EventFacts DEF Cursor
<1> HIDE DEF n
<1>5. v \in Signal /\ v.waiters = event[x].waiters /\ v.sequence = n /\ v.pending = event[x].pending
  BY <1>3, <1>4 DEF Signal
<1> HIDE DEF y, v
<1>6. /\ event' \in [Events -> Signal] /\ event'[x] = v /\ \A z \in Events : z # x => event'[z] = event[z]
      /\ UNCHANGED <<shape, flow, backend, arena, slot, source, sink, outcome, closed, shut>>
  BY <1>1, <1>3, <1>5, SetEventIs
<1>7. Parking(p) /\ ep'[p] = y
  BY <1>1, <1>2, <1>6, WalkParks DEF Done
<1> QED
  BY <1>1, <1>2, <1>3, <1>5, <1>6, <1>7 DEF n

\* Claim: notify looks at the waiters and decides whether to wake.
LEMMA ClaimTells ==
  ASSUME StreamType, NEW p \in Processes, ClaimWaiter(p)
  PROVE  /\ Parking(p) /\ ep[p].pc = "swap"
         /\ ep'[p].pc = (IF event[Notified(p)].waiters # 0 THEN "wake" ELSE "notified")
         /\ \A x \in Events : x # Notified(p) => event'[x] = event[x]
         /\ event'[Notified(p)].sequence = event[Notified(p)].sequence
         /\ event'[Notified(p)].pending = event[Notified(p)].pending
<1> DEFINE x == Notified(p)
           pc == IF event[x].waiters # 0 THEN "wake" ELSE "notified"
           y == [ep[p] EXCEPT !.pc = pc]
           v == [event[x] EXCEPT !.waiters = 0]
<1>1. ep[p].pc = "swap" /\ Set(p, y) /\ SetEvent(x, v)
  BY DEF ClaimWaiter, At
<1>2. pc \in Pcs /\ pc \in Done
  BY DEF Pcs, Done
<1>3. Walk(ep[p], y) /\ y.pc = pc
  BY <1>2, Types, WalkPc
<1>4. x \in Events /\ event[x] \in Signal
  BY EventFacts, Types
<1>5. v \in Signal /\ v.sequence = event[x].sequence /\ v.pending = event[x].pending
  BY <1>4 DEF Signal
<1> HIDE DEF y, v, pc
<1>6. /\ event' \in [Events -> Signal] /\ event'[x] = v /\ \A z \in Events : z # x => event'[z] = event[z]
      /\ UNCHANGED <<shape, flow, backend, arena, slot, source, sink, outcome, closed, shut>>
  BY <1>1, <1>4, <1>5, SetEventIs
<1>7. Parking(p) /\ ep'[p] = y
  BY <1>1, <1>2, <1>3, <1>6, WalkParks DEF Done
<1> QED
  BY <1>1, <1>2, <1>3, <1>4, <1>5, <1>6, <1>7 DEF pc

\* Wake: the peer's event is signalled; a token, once there, stays.
LEMMA WakeTells ==
  ASSUME StreamType, NEW p \in Processes, Wake(p)
  PROVE  /\ Parking(p) /\ ep[p].pc = "wake" /\ ep'[p].pc = "notified"
         /\ \A x \in Events : x # Notified(p) => event'[x] = event[x]
         /\ event'[Notified(p)].sequence = event[Notified(p)].sequence
         /\ event'[Notified(p)].waiters = event[Notified(p)].waiters
         /\ backend = "token" \/ event[Notified(p)].pending => event'[Notified(p)].pending
<1> DEFINE x == Notified(p)
           b == backend = "token" \/ event[x].pending \/ (At(Peer(p), "parked") /\ Awaited(Peer(p)) = x)
           y == [ep[p] EXCEPT !.pc = "notified"]
           v == [event[x] EXCEPT !.pending = b]
<1>1. ep[p].pc = "wake" /\ Set(p, y)
  BY DEF Wake, At
<1>2. SetEvent(x, v)
  BY DEF Wake
<1>3. Walk(ep[p], y) /\ y.pc = "notified"
  BY Types, WalkPc DEF Pcs
<1>4. x \in Events /\ event[x] \in Signal /\ event[x].pending \in BOOLEAN
  BY EventFacts, Types
<1>5. b \in BOOLEAN
  BY <1>4
<1>6. backend = "token" \/ event[x].pending => b = TRUE
  BY <1>5
<1> HIDE DEF b
<1>7. /\ v \in Signal /\ v.sequence = event[x].sequence /\ v.waiters = event[x].waiters
      /\ v.pending = b
  BY <1>4, <1>5 DEF Signal
<1> HIDE DEF y, v
<1>8. /\ event' \in [Events -> Signal] /\ event'[x] = v /\ \A z \in Events : z # x => event'[z] = event[z]
      /\ UNCHANGED <<shape, flow, backend, arena, slot, source, sink, outcome, closed, shut>>
  BY <1>2, <1>4, <1>7, SetEventIs
<1>9. Parking(p) /\ ep'[p] = y
  BY <1>1, <1>3, <1>8, WalkParks DEF Done
<1> QED
  BY <1>1, <1>3, <1>4, <1>6, <1>7, <1>8, <1>9

\* A call that returns, with or without an error.
LEMMA ReturnIs ==
  ASSUME StreamType, NEW p \in Processes, NEW why \in {"ok", "error"}, Return(p, why), InCall(p)
  PROVE  Returning(p, why)
<1>1. shut' \in BOOLEAN
  BY DEF Return
<1> QED
  BY <1>1, IdleIs, SetMoves DEF Return, Returning

\* The frame goes into the ring.
Pushes(p) ==
  LET a == ArenaOf(p) IN
  /\ Moves(p) /\ SameBody(p) /\ ep'[p].frame = ep[p].frame
  /\ ep[p].pc = "try" /\ ep'[p].pc = "store" /\ ep[p].op = "push"
  /\ arena' \in [Arenas -> Ring]
  /\ arena'[a].tail = arena[a].tail + 1 /\ arena'[a].q = Append(arena[a].q, ep[p].frame)
  /\ \A b \in Arenas : b # a => arena'[b] = arena[b]
  /\ UNCHANGED <<slot, event, shut, closed, source, sink, outcome>>

\* The frame comes out of the ring.
Pops(p) ==
  LET a == ArenaOf(p) IN
  /\ Moves(p) /\ SameBody(p)
  /\ ep[p].pc = "try" /\ ep'[p].pc = "store" /\ ep[p].op = "pop"
  /\ arena[a].q # <<>> /\ ep'[p].frame = Head(arena[a].q)
  /\ arena' \in [Arenas -> Ring]
  /\ arena'[a].tail = arena[a].tail /\ arena'[a].q = Tail(arena[a].q)
  /\ \A b \in Arenas : b # a => arena'[b] = arena[b]
  /\ UNCHANGED <<slot, event, shut, closed, source, sink, outcome>>

\* Try, on a ready ring: a frame is pushed or popped.
LEMMA TryIs ==
  ASSUME StreamType, NEW p \in Processes, Try(p), Ready(p)
  PROVE  Pushes(p) \/ Pops(p)
<1> DEFINE a == ArenaOf(p)
<1>1. /\ a \in Arenas /\ arena[a] \in Ring /\ arena[a].tail \in Nat /\ arena[a].q \in Seq(Frame)
      /\ ep[p] \in Endpoint /\ arena \in [Arenas -> Ring]
  BY EventFacts, Types DEF StreamType
<1>2. /\ ep[p].pc = "try"
      /\ UNCHANGED <<shape, flow, backend, slot, event, shut, closed, source, sink, outcome>>
  BY DEF Try, At
<1>3. CASE ep[p].op = "push"
  <2> DEFINE y == [ep[p] EXCEPT !.pc = "store"]
             r == [tail |-> arena[a].tail + 1, q |-> Append(arena[a].q, ep[p].frame)]
  <2>1. arena' = [arena EXCEPT ![a] = r] /\ Set(p, y)
    BY <1>1, <1>3 DEF Try
  <2>2. Walk(ep[p], y) /\ y.pc = "store"
    BY <1>1, WalkPc DEF Pcs
  <2>3. ep[p].frame \in Frame
    BY <1>1, Fields
  <2>4. Append(arena[a].q, ep[p].frame) \in Seq(Frame)
    BY <1>1, <2>3
  <2>5. r \in Ring /\ r.tail = arena[a].tail + 1 /\ r.q = Append(arena[a].q, ep[p].frame)
    BY <1>1, <2>4 DEF Ring
  <2> HIDE DEF y, r
  <2>6. Moves(p) /\ ep'[p] = y
    BY <1>2, <2>1, <2>2, SetMoves DEF Walk
  <2>7. arena' \in [Arenas -> Ring] /\ arena'[a] = r /\ \A b \in Arenas : b # a => arena'[b] = arena[b]
    BY <1>1, <2>1, <2>5
  <2> QED
    BY <1>2, <1>3, <2>2, <2>5, <2>6, <2>7 DEF Pushes, SameBody, Walk
<1>4. CASE ep[p].op = "pop"
  <2> DEFINE f == Head(arena[a].q)
             y == [ep[p] EXCEPT !.pc = "store", !.frame = f]
             r == [arena[a] EXCEPT !.q = Tail(arena[a].q)]
  <2>1. arena' = [arena EXCEPT ![a] = r] /\ Set(p, y) /\ arena[a].q # <<>>
    BY <1>1, <1>4 DEF Try, Ready
  <2>2. f \in Frame /\ Tail(arena[a].q) \in Seq(Frame)
    BY <1>1, <2>1
  <2>3. r \in Ring /\ r.tail = arena[a].tail /\ r.q = Tail(arena[a].q)
    BY <1>1, <2>2 DEF Ring
  <2> HIDE DEF f
  <2>4. /\ y \in Endpoint /\ y.pc = "store" /\ y.frame = f
        /\ y.mode = ep[p].mode /\ y.chunks = ep[p].chunks /\ y.released = ep[p].released
        /\ y.total = ep[p].total /\ y.aggregate = ep[p].aggregate /\ y.eof = ep[p].eof
        /\ y.completed = ep[p].completed /\ y.op = ep[p].op
    BY <1>1, <2>2 DEF Endpoint, Pcs
  <2> HIDE DEF y, r
  <2>6. Moves(p) /\ ep'[p] = y
    BY <1>2, <2>1, <2>4, SetMoves
  <2>7. arena' \in [Arenas -> Ring] /\ arena'[a] = r /\ \A b \in Arenas : b # a => arena'[b] = arena[b]
    BY <1>1, <2>1, <2>3
  <2> QED
    BY <1>2, <1>4, <2>1, <2>3, <2>4, <2>6, <2>7 DEF Pops, SameBody, f
<1> QED
  BY <1>1, <1>3, <1>4, Fields

\* A call begins.
Calls(p) ==
  /\ Moves(p) /\ ep[p].pc = "idle"
  /\ UNCHANGED <<shared, shut, closed, outcome>>
  /\ \/ /\ p = Producer /\ sink' = sink /\ \E n \in Nat : source' = Append(source, n)
        /\ \E e \in Endpoint : /\ e.chunks = 0 /\ e.released = 0 /\ e.total = 0 /\ e.aggregate = <<>>
                               /\ e.eof = FALSE /\ e.completed = FALSE /\ NextMove(e, ep'[p])
     \/ /\ p = Consumer /\ source' = source /\ sink' = Append(sink, <<>>)
        /\ ep'[p].pc = "try" /\ ep'[p].op = "pop" /\ ep'[p].completed = FALSE
        /\ ep'[p].aggregate = <<>>

\* Call: what a new call starts from.
LEMMA CallIs ==
  ASSUME StreamType, NEW p \in Processes, Call(p)
  PROVE  Calls(p)
<1>1. ep[p].pc = "idle" /\ UNCHANGED <<shape, flow, backend, shared, shut, closed, outcome>>
  BY DEF Call, At
<1>2. PICK m \in Modes :
         IF p = Producer
         THEN /\ \E n \in Readers : n <= TotalBytes + 1 /\ source' = Append(source, n)
              /\ Set(p, ProduceNext([Idle EXCEPT !.mode = m])) /\ UNCHANGED sink
         ELSE Set(p, Pop([Idle EXCEPT !.mode = m])) /\ sink' = Append(sink, <<>>) /\ UNCHANGED source
  BY DEF Call
<1> DEFINE e == [Idle EXCEPT !.mode = m]
<1>3. m \in {"exact", "to_end"}
  BY StreamAssumption
<1>4. /\ e \in Endpoint /\ e.chunks = 0 /\ e.released = 0 /\ e.total = 0 /\ e.aggregate = <<>>
      /\ e.eof = FALSE /\ e.completed = FALSE
  BY <1>3, IdleIs DEF Endpoint
<1> HIDE DEF e
<1>5. CASE p = Producer
  <2>1. \E n \in Nat : source' = Append(source, n)
    BY <1>2, <1>5, StreamAssumption
  <2>2. NextMove(e, ProduceNext(e))
    BY <1>4, ProduceNextIs
  <2>3. Set(p, ProduceNext(e)) /\ sink' = sink
    BY <1>2, <1>5 DEF e
  <2>4. Moves(p) /\ ep'[p] = ProduceNext(e)
    BY <1>1, <2>2, <2>3, SetMoves DEF NextMove
  <2> QED
    BY <1>1, <1>4, <1>5, <2>1, <2>2, <2>3, <2>4 DEF Calls
<1>6. CASE p # Producer
  <2>1. Set(p, Pop(e)) /\ sink' = Append(sink, <<>>) /\ source' = source
    BY <1>2, <1>6 DEF e
  <2>2. Moves(p) /\ ep'[p] = Pop(e)
    BY <1>1, <1>4, <2>1, PopIs, SetMoves
  <2> QED
    BY <1>1, <1>4, <1>6, <2>1, <2>2, PopIs, Ends DEF Calls
<1> QED
  BY <1>5, <1>6

\* An endpoint is gone.
Departs(p) ==
  /\ Moves(p) /\ ep'[p].pc = "gone" /\ ep'[p].completed = FALSE /\ closed' = closed \cup {p}
  /\ UNCHANGED <<shared, shut, source, sink, outcome>>

\* Depart: the endpoint is dropped.
LEMMA DepartIs ==
  ASSUME StreamType, NEW p \in Processes, Depart(p)
  PROVE  Departs(p)
<1> DEFINE y == [Idle EXCEPT !.pc = "gone"]
<1>1. y \in Endpoint /\ y.pc = "gone" /\ y.completed = FALSE
  BY IdleIs DEF Endpoint, Pcs
<1> QED
  BY <1>1, SetMoves DEF Depart, Departs

\* The producer goes on from e, which differs from its endpoint in eof or
\* released.
GoesOn(p) ==
  /\ Moves(p) /\ p = Producer
  /\ UNCHANGED <<shared, shut, closed, source, sink, outcome>>

\* The producer goes round its loop.
LEMMA GoNext ==
  ASSUME StreamType, NEW p \in Processes, p = Producer, NEW e \in Endpoint, Go(p, ProduceNext(e))
  PROVE  GoesOn(p) /\ NextMove(e, ep'[p])
<1>1. NextMove(e, ProduceNext(e))
  BY ProduceNextIs
<1>2. Moves(p) /\ ep'[p] = ProduceNext(e)
  BY <1>1, GoIs, SetMoves DEF NextMove
<1> QED
  BY <1>1, <1>2, GoIs DEF GoesOn

\* The reader is at its end.
Eofs(p) ==
  /\ GoesOn(p)
  /\ \/ ep[p].pc = "excess" /\ Left(p) = 0
     \/ /\ ep[p].pc = "read" /\ ep[p].mode = "to_end"
        /\ Least(Least(TotalBytes - ep[p].total, ChunkBytes), Left(p)) = 0
  /\ \E e \in Endpoint :
       /\ e.mode = ep[p].mode /\ e.chunks = ep[p].chunks /\ e.released = ep[p].released
       /\ e.total = ep[p].total /\ e.aggregate = ep[p].aggregate /\ e.eof = TRUE
       /\ e.completed = ep[p].completed /\ NextMove(e, ep'[p])

\* The reader's end is noted and the producer goes on.
LEMMA EofIs ==
  ASSUME StreamType, NEW p \in Processes, p = Producer, Go(p, ProduceNext([ep[p] EXCEPT !.eof = TRUE])),
     \/ ep[p].pc = "excess" /\ Left(p) = 0
     \/ /\ ep[p].pc = "read" /\ ep[p].mode = "to_end"
        /\ Least(Least(TotalBytes - ep[p].total, ChunkBytes), Left(p)) = 0
  PROVE  Eofs(p)
<1> DEFINE e == [ep[p] EXCEPT !.eof = TRUE]
<1>1. /\ e \in Endpoint /\ e.mode = ep[p].mode /\ e.chunks = ep[p].chunks /\ e.released = ep[p].released
      /\ e.total = ep[p].total /\ e.aggregate = ep[p].aggregate /\ e.eof = TRUE
      /\ e.completed = ep[p].completed
  BY Types, ZenonT(60) DEF Endpoint
<1> HIDE DEF e
<1>2. GoesOn(p) /\ NextMove(e, ep'[p])
  BY <1>1, GoNext DEF e
<1> QED
  BY <1>1, <1>2 DEF Eofs

\* ProbeEnd: the probe finds the end, or the call fails.
LEMMA ProbeIs ==
  ASSUME StreamType, CallInv, NEW p \in Processes, ProbeEnd(p)
  PROVE  p = Producer /\ (Eofs(p) \/ Returning(p, "error"))
<1>1. ep[p].pc = "excess" /\ InCall(p)
  BY DEF ProbeEnd, At, InCall
<1>2. p = Producer
  BY <1>1, Ends DEF CallInv
<1>3. CASE Left(p) = 0 /\ Go(p, ProduceNext([ep[p] EXCEPT !.eof = TRUE]))
  BY <1>1, <1>2, <1>3, EofIs
<1>4. CASE Return(p, "error")
  BY <1>1, <1>2, <1>4, ReturnIs
<1> QED
  BY <1>3, <1>4 DEF ProbeEnd

\* The slot of the next chunk is being written.
WritesSlot(p) ==
  /\ Moves(p) /\ SameBody(p) /\ p = Producer /\ ep[p].pc = "write" /\ ep'[p].pc = "read"
  /\ slot' = [slot EXCEPT ![SlotOf(ep[p].chunks)] = Torn]
  /\ UNCHANGED <<arena, event, shut, closed, source, sink, outcome>>

\* WriteSlot: the slot of the next chunk is being written.
LEMMA WriteSlotIs ==
  ASSUME StreamType, CallInv, NEW p \in Processes, WriteSlot(p)
  PROVE  WritesSlot(p)
<1> DEFINE y == [ep[p] EXCEPT !.pc = "read"]
<1>1. Walk(ep[p], y) /\ y.pc = "read"
  BY Types, WalkPc DEF Pcs
<1>2. ep[p].pc = "write" /\ Set(p, y)
  BY DEF WriteSlot, At
<1>3. p = Producer
  BY <1>2, Ends DEF CallInv
<1> HIDE DEF y
<1>4. Moves(p) /\ ep'[p] = y
  BY <1>1, <1>2, SetMoves DEF WriteSlot, Walk
<1> QED
  BY <1>1, <1>2, <1>3, <1>4 DEF WritesSlot, SameBody, Walk, WriteSlot

\* The bytes of the next chunk have been read.
Want(p)  == Least(TotalBytes - ep[p].total, ChunkBytes)
Reads(p, len) ==
  /\ Moves(p) /\ p = Producer /\ ep[p].pc = "read" /\ ep'[p].pc = "try" /\ ep'[p].op = "push"
  /\ len = Least(Want(p), Left(p)) /\ (ep[p].mode = "exact" => len = Want(p))
  /\ ep'[p].mode = ep[p].mode /\ ep'[p].chunks = ep[p].chunks + 1 /\ ep'[p].released = ep[p].released
  /\ ep'[p].total = ep[p].total + len /\ ep'[p].eof = ep[p].eof /\ ep'[p].completed = ep[p].completed
  /\ ep'[p].aggregate = Append(ep[p].aggregate, <<Round(p), ep[p].total, len>>)
  /\ ep'[p].frame.kind = "Data" /\ ep'[p].frame.slot = SlotOf(ep[p].chunks)
  /\ slot' = [slot EXCEPT ![SlotOf(ep[p].chunks)] = <<Round(p), ep[p].total, len>>]
  /\ UNCHANGED <<arena, event, shut, closed, source, sink, outcome>>

\* Read: the source gives bytes, its end, or an error.
LEMMA ReadIs ==
  ASSUME StreamType, CallInv, NEW p \in Processes, ReadSource(p)
  PROVE  p = Producer /\ (Eofs(p) \/ Returning(p, "error") \/ \E len \in Nat \ {0} : Reads(p, len))
<1> DEFINE e == ep[p]
           len == Least(Want(p), Left(p))
           bytes == <<Round(p), e.total, len>>
           f == Data(e.chunks, e.total, len, bytes)
           z == [e EXCEPT !.aggregate = Append(@, bytes), !.total = @ + len, !.chunks = @ + 1]
<1>1. ep[p].pc = "read" /\ InCall(p)
  BY DEF ReadSource, At, InCall
<1>2. p = Producer
  BY <1>1, Ends DEF CallInv
<1>3. CASE len = 0 /\ e.mode = "to_end" /\ Go(p, ProduceNext([e EXCEPT !.eof = TRUE]))
  BY <1>1, <1>2, <1>3, EofIs DEF Want
<1>4. CASE Return(p, "error")
  BY <1>1, <1>2, <1>4, ReturnIs
<1>5. CASE /\ len > 0 /\ (e.mode = "exact" => len = Want(p))
           /\ slot' = [slot EXCEPT ![SlotOf(e.chunks)] = bytes]
           /\ Set(p, Push(z, f))
           /\ UNCHANGED <<shape, flow, backend, arena, event, shut, closed, source, sink, outcome>>
  <2>1. e \in Endpoint /\ e.chunks \in Nat /\ e.total \in Nat /\ e.aggregate \in Seq(Bytes)
    BY Types, Fields
  <2>2. source \in Seq(Nat) /\ Round(p) \in Nat /\ Round(p) = Len(source) /\ Round(p) >= 1
    BY <1>1, <1>2, Types DEF CallInv, Round, StreamType
  <2>3. source[Round(p)] \in Nat
    BY <2>2
  <2>4. Left(p) \in Int /\ Want(p) \in Int
    BY <2>1, <2>3, ShapeFacts, SMTT(40) DEF Left, Want, Least
  <2>5. len \in Nat \ {0}
    BY <1>5, <2>4 DEF Least
  <2> HIDE DEF len
  <2>6. bytes \in Bytes
    BY <2>1, <2>2, <2>5 DEF Bytes
  <2>7. f \in Frame /\ f.kind = "Data" /\ f.slot = SlotOf(e.chunks)
    BY <2>1, <2>5, <2>6, FrameFacts, SMTT(40)
  <2>8. Append(e.aggregate, bytes) \in Seq(Bytes)
    BY <2>1, <2>6
  <2> HIDE DEF bytes, f
  <2>9. /\ z \in Endpoint /\ z.mode = e.mode /\ z.chunks = e.chunks + 1 /\ z.released = e.released
        /\ z.total = e.total + len /\ z.aggregate = Append(e.aggregate, bytes) /\ z.eof = e.eof
        /\ z.completed = e.completed
    <3> DEFINE sum == Append(e.aggregate, bytes)
               t == e.total + len
               c == e.chunks + 1
    <3>1. z = [e EXCEPT !.aggregate = sum, !.total = t, !.chunks = c]
      OBVIOUS
    <3>2. sum \in Seq(Bytes) /\ t \in Nat /\ c \in Nat
      BY <2>1, <2>5, <2>8
    <3> HIDE DEF sum, t, c
    <3>3. LET y == [e EXCEPT !.aggregate = sum, !.total = t, !.chunks = c] IN
         /\ y \in Endpoint /\ y.mode = e.mode /\ y.chunks = c /\ y.released = e.released
         /\ y.total = t /\ y.aggregate = sum /\ y.eof = e.eof
         /\ y.completed = e.completed
      BY <2>1, <3>2 DEF Endpoint
    <3> HIDE DEF z
    <3> QED
      BY <3>1, <3>3 DEF sum, t, c
  <2> HIDE DEF z
  <2>10. Moves(p) /\ ep'[p] = Push(z, f)
    BY <1>5, <2>7, <2>9, PushIs, SetMoves
  <2>11. Reads(p, len)
    BY <1>1, <1>2, <1>5, <2>7, <2>9, <2>10, PushIs DEF Reads, bytes, len
  <2> QED
    BY <1>2, <2>5, <2>11
<1> QED
  BY <1>3, <1>4, <1>5, <1>2 DEF ReadSource, Want

\* The consumer turns to its next frame.
Turns(p) ==
  /\ Moves(p) /\ p = Consumer /\ ep[p].pc = "notified" /\ ep[p].op = "push" /\ ~ep[p].completed
  /\ ep'[p].pc = "try" /\ ep'[p].op = "pop"
  /\ ep'[p].aggregate = ep[p].aggregate /\ ep'[p].completed = ep[p].completed
  /\ UNCHANGED <<shared, shut, closed, source, sink, outcome>>

\* Pushed: after its push the producer goes on and the consumer returns or pops.
LEMMA PushedIs ==
  ASSUME StreamType, NEW p \in Processes, Pushed(p)
  PROVE  /\ ep[p].pc = "notified" /\ ep[p].op = "push"
         /\ \/ p = Producer /\ GoesOn(p) /\ NextMove(ep[p], ep'[p])
            \/ p = Consumer /\ ep[p].completed /\ Returning(p, "ok")
            \/ Turns(p)
<1>1. ep[p].pc = "notified" /\ ep[p].op = "push" /\ ep[p] \in Endpoint /\ InCall(p)
  BY Types DEF Pushed, At, InCall
<1>2. CASE p = Producer
  BY <1>1, <1>2, GoNext DEF Pushed
<1>3. CASE p # Producer /\ ep[p].completed
  BY <1>1, <1>3, ReturnIs, Ends DEF Pushed
<1>4. CASE p # Producer /\ ~ep[p].completed
  <2>1. Go(p, Pop(ep[p]))
    BY <1>4 DEF Pushed
  <2>2. Moves(p) /\ ep'[p] = Pop(ep[p])
    BY <1>1, <2>1, PopIs, GoIs, SetMoves
  <2> QED
    BY <1>1, <1>4, <2>1, <2>2, PopIs, GoIs, Ends DEF Turns
<1> QED
  BY <1>2, <1>3, <1>4

\* The producer counts a release.
Counts(p) ==
  /\ GoesOn(p) /\ ~ep[p].completed
  /\ \E e \in Endpoint :
       /\ e.mode = ep[p].mode /\ e.chunks = ep[p].chunks /\ e.released = ep[p].released + 1
       /\ e.total = ep[p].total /\ e.aggregate = ep[p].aggregate /\ e.eof = ep[p].eof
       /\ e.completed = ep[p].completed /\ NextMove(e, ep'[p])

\* Released: the producer counts an answer, ends its call or rejects the frame.
LEMMA ReleasedIs ==
  ASSUME StreamType, NEW p \in Processes, Released(p)
  PROVE  /\ p = Producer /\ ep[p].pc = "notified" /\ ep[p].op = "pop"
         /\ \/ ep[p].completed /\ Ending(ep[p].frame) /\ Returning(p, "ok")
            \/ Returning(p, "error")
            \/ Counts(p)
<1>1. ep[p].pc = "notified" /\ ep[p].op = "pop" /\ ep[p] \in Endpoint /\ InCall(p) /\ p = Producer
  BY Types DEF Released, At, InCall
<1>2. CASE ep[p].completed
  <2>1. CASE validate_complete(ep[p], ep[p].frame)
    <3>1. Ending(ep[p].frame)
      BY <2>1 DEF validate_complete, Complete, Ending
    <3> QED
      BY <1>1, <1>2, <2>1, <3>1, ReturnIs DEF Released
  <2>2. CASE ~validate_complete(ep[p], ep[p].frame)
    BY <1>1, <1>2, <2>2, ReturnIs DEF Released
  <2> QED
    BY <2>1, <2>2
<1>3. CASE ~ep[p].completed /\ ~validate_release(ep[p], ep[p].frame)
  BY <1>1, <1>3, ReturnIs DEF Released
<1>4. CASE ~ep[p].completed /\ validate_release(ep[p], ep[p].frame)
  <2> DEFINE e == [ep[p] EXCEPT !.released = @ + 1]
  <2>1. ep[p].released + 1 \in Nat
    BY <1>1, Fields
  <2>2. e = [ep[p] EXCEPT !.released = ep[p].released + 1]
    OBVIOUS
  <2>3. /\ e \in Endpoint /\ e.mode = ep[p].mode /\ e.chunks = ep[p].chunks
        /\ e.released = ep[p].released + 1
        /\ e.total = ep[p].total /\ e.aggregate = ep[p].aggregate /\ e.eof = ep[p].eof
        /\ e.completed = ep[p].completed
    BY <1>1, <2>1, <2>2 DEF Endpoint
  <2>4. Go(p, ProduceNext(e))
    BY <1>4 DEF Released
  <2> HIDE DEF e
  <2>5. GoesOn(p) /\ NextMove(e, ep'[p])
    BY <1>1, <2>3, <2>4, GoNext
  <2> QED
    BY <1>1, <1>4, <2>3, <2>5 DEF Counts
<1> QED
  BY <1>2, <1>3, <1>4

\* The consumer echoes COMPLETE.
Echoes(p) ==
  /\ Moves(p) /\ ep'[p].pc = "try" /\ ep'[p].op = "push" /\ ep'[p].completed = TRUE
  /\ ep'[p].frame = ep[p].frame /\ Ending(ep[p].frame)
  /\ ep'[p].aggregate = ep[p].aggregate /\ ep[p].frame.checksum = ep[p].aggregate
  /\ UNCHANGED <<shared, shut, closed, source, sink, outcome>>

\* The chunk passed its checks.
Sinks(p) ==
  /\ Moves(p) /\ SameBody(p) /\ ep'[p].pc = "sink" /\ ep'[p].frame = ep[p].frame
  /\ ep[p].frame.kind = "Data" /\ ep[p].frame.slot = SlotOf(ep[p].chunks)
  /\ ep[p].frame.checksum = <<slot[ep[p].frame.slot]>>
  /\ UNCHANGED <<shared, shut, closed, source, sink, outcome>>

\* Received: the consumer echoes the end, takes a chunk or rejects the frame.
LEMMA ReceivedIs ==
  ASSUME StreamType, NEW p \in Processes, Received(p)
  PROVE  /\ p = Consumer /\ ep[p].pc = "notified" /\ ep[p].op = "pop"
         /\ Echoes(p) \/ Returning(p, "error") \/ Sinks(p)
<1> DEFINE e == ep[p]
           ending == IF e.mode = "exact" THEN e.chunks = Chunks ELSE e.frame.kind = "Complete"
<1>1. ep[p].pc = "notified" /\ ep[p].op = "pop" /\ ep[p] \in Endpoint /\ InCall(p) /\ p = Consumer
  BY Types DEF Received, At, InCall
<1>2. \/ validate_complete(e, e.frame) /\ Go(p, Push([e EXCEPT !.completed = TRUE], e.frame))
      \/ validate_chunk(e, e.frame) /\ Go(p, [e EXCEPT !.pc = "sink"])
      \/ Return(p, "error")
  BY DEF Received
<1>3. CASE validate_complete(e, e.frame) /\ Go(p, Push([e EXCEPT !.completed = TRUE], e.frame))
  <2> DEFINE z == [e EXCEPT !.completed = TRUE]
  <2>1. z \in Endpoint /\ z.completed = TRUE /\ z.aggregate = e.aggregate /\ e.frame \in Frame
    BY <1>1 DEF Endpoint
  <2>2. Ending(e.frame) /\ e.frame.checksum = e.aggregate
    BY <1>3 DEF validate_complete, Complete, Ending
  <2> HIDE DEF z
  <2>3. Go(p, Push(z, e.frame))
    BY <1>3 DEF z
  <2>4. Moves(p) /\ ep'[p] = Push(z, e.frame)
    BY <2>1, <2>3, PushIs, GoIs, SetMoves
  <2> QED
    BY <1>1, <2>1, <2>2, <2>3, <2>4, PushIs, GoIs DEF Echoes
<1>4. CASE validate_chunk(e, e.frame) /\ Go(p, [e EXCEPT !.pc = "sink"])
  <2> DEFINE y == [e EXCEPT !.pc = "sink"]
  <2>1. Walk(e, y) /\ y.pc = "sink"
    BY <1>1, WalkPc DEF Pcs
  <2>2. e.frame.kind = "Data" /\ e.frame.slot = SlotOf(e.chunks) /\ e.frame.checksum = <<slot[e.frame.slot]>>
    BY <1>4 DEF validate_chunk
  <2> HIDE DEF y
  <2>3. Go(p, y)
    BY <1>4 DEF y
  <2>4. Moves(p) /\ ep'[p] = y
    BY <2>1, <2>3, GoIs, SetMoves DEF Walk
  <2> QED
    BY <1>1, <2>1, <2>2, <2>3, <2>4, GoIs DEF Sinks, SameBody, Walk
<1>5. CASE Return(p, "error")
  BY <1>1, <1>5, ReturnIs
<1> QED
  BY <1>1, <1>2, <1>3, <1>4, <1>5

\* The chunk is written out.
Writes(p) ==
  /\ Moves(p) /\ ep'[p].pc = "try" /\ ep'[p].op = "push" /\ ep'[p].frame.kind = "Released"
  /\ ep'[p].aggregate = ep[p].aggregate \o ep[p].frame.checksum /\ ep'[p].completed = ep[p].completed
  /\ sink' = [sink EXCEPT ![Round(p)] = Append(@, slot[ep[p].frame.slot])]
  /\ UNCHANGED <<shared, shut, closed, source, outcome>>

\* WriteAll: the chunk reaches the sink and its slot is handed back.
LEMMA WriteAllIs ==
  ASSUME StreamType, CallInv, NEW p \in Processes, WriteAll(p)
  PROVE  p = Consumer /\ ep[p].pc = "sink" /\ (Writes(p) \/ Returning(p, "error"))
<1>1. ep[p].pc = "sink" /\ ep[p] \in Endpoint /\ InCall(p)
  BY Types DEF WriteAll, At, InCall
<1>2. p = Consumer
  BY <1>1, Ends DEF CallInv
<1>3. CASE Return(p, "error")
  BY <1>1, <1>2, <1>3, ReturnIs
<1>4. CASE ~Return(p, "error")
  <2> DEFINE e == ep[p]
             f == [e.frame EXCEPT !.kind = "Released"]
             sum == e.aggregate \o e.frame.checksum
             t == e.total + e.frame.len
             c == e.chunks + 1
             z == [e EXCEPT !.aggregate = @ \o e.frame.checksum, !.total = @ + e.frame.len, !.chunks = @ + 1]
  <2>1. /\ sink' = [sink EXCEPT ![Round(p)] = Append(@, slot[e.frame.slot])]
        /\ Set(p, Push(z, f))
        /\ UNCHANGED <<shape, flow, backend, shared, shut, closed, source, outcome>>
    BY <1>4 DEF WriteAll
  <2>2. e.frame \in Frame /\ e.aggregate \in Seq(Bytes) /\ e \in Endpoint
    BY <1>1, Fields
  <2>3. f \in Frame /\ f.kind = "Released" /\ e.frame.len \in Nat /\ e.frame.checksum \in Seq(Bytes)
    BY <2>2, FrameFacts DEF Frame
  <2>4. sum \in Seq(Bytes)
    BY <2>2, <2>3
  <2>5. z = [e EXCEPT !.aggregate = sum, !.total = t, !.chunks = c]
    OBVIOUS
  <2>6. z \in Endpoint /\ z.aggregate = sum /\ z.completed = e.completed
    <3>1. t \in Nat /\ c \in Nat
      BY <2>2, <2>3, Fields
    <3> HIDE DEF sum, t, c
    <3>2. LET y == [e EXCEPT !.aggregate = sum, !.total = t, !.chunks = c] IN
          y \in Endpoint /\ y.aggregate = sum /\ y.completed = e.completed
      BY <2>2, <2>4, <3>1 DEF Endpoint
    <3> HIDE DEF z
    <3> QED
      BY <2>5, <3>2
  <2> HIDE DEF f, z
  <2>7. Moves(p) /\ ep'[p] = Push(z, f)
    BY <2>1, <2>3, <2>6, PushIs, SetMoves
  <2>8. /\ ep'[p].pc = "try" /\ ep'[p].op = "push" /\ ep'[p].frame = f /\ ep'[p].aggregate = sum
        /\ ep'[p].completed = e.completed
    <3> HIDE DEF sum, e
    <3> QED
      BY <2>3, <2>6, <2>7, PushIs
  <2>9. Writes(p)
    BY <2>1, <2>3, <2>7, <2>8 DEF Writes
  <2> QED
    BY <1>1, <1>2, <2>9
<1> QED
  BY <1>3, <1>4

\* The calls that return Ok, and the producer after a push.
Finishes(p) ==
  p = Consumer /\ ep[p].pc = "notified" /\ ep[p].op = "push" /\ ep[p].completed /\ Returning(p, "ok")
Confirms(p) ==
  /\ p = Producer /\ ep[p].pc = "notified" /\ ep[p].op = "pop" /\ ep[p].completed
  /\ Ending(ep[p].frame) /\ Returning(p, "ok")
Resumes(p) ==
  ep[p].pc = "notified" /\ ep[p].op = "push" /\ GoesOn(p) /\ NextMove(ep[p], ep'[p])

\* A step of endpoint p is one of these.
Effect(p) ==
  \/ Parking(p) \/ Returning(p, "error") \/ Finishes(p) \/ Confirms(p)
  \/ Pushes(p) \/ Pops(p) \/ Calls(p) \/ Departs(p)
  \/ Eofs(p) \/ WritesSlot(p) \/ (\E len \in Nat \ {0} : Reads(p, len)) \/ Resumes(p)
  \/ (Counts(p) /\ ep[p].pc = "notified" /\ ep[p].op = "pop")
  \/ Turns(p)
  \/ (p = Consumer /\ ep[p].pc = "notified" /\ ep[p].op = "pop" /\ (Echoes(p) \/ Sinks(p)))
  \/ (p = Consumer /\ ep[p].pc = "sink" /\ Writes(p))

\* Every step of an endpoint has one of the effects listed.
LEMMA StepEffect ==
  ASSUME StreamType, CallInv, NEW p \in Processes, Call(p) \/ Step(p) \/ Deadline(p) \/ Depart(p)
  PROVE  Effect(p)
<1>1. CASE Call(p)
  BY <1>1, CallIs DEF Effect
<1>2. CASE Depart(p)
  BY <1>2, DepartIs DEF Effect
<1>3. CASE Deadline(p)
  <2>1. InCall(p)
    BY <1>3 DEF Deadline, At, InCall
  <2> QED
    BY <1>3, <2>1, ReturnIs DEF Effect, Deadline
<1>4. CASE Register(p)
  <2>1. CASE event[Awaited(p)].waiters = 0
    BY <1>4, <2>1, RegisterParks DEF Effect
  <2>2. CASE event[Awaited(p)].waiters # 0
    <3>1. InCall(p)
      BY <1>4 DEF Register, At, InCall
    <3> QED
      BY <1>4, <2>2, <3>1, ReturnIs DEF Effect, Register
  <2> QED
    BY <2>1, <2>2
<1>5. CASE Peek(p)
  <2>1. CASE ~PeerClosed(p)
    BY <1>5, <2>1, PeekParks DEF Effect
  <2>2. CASE PeerClosed(p)
    <3>1. InCall(p)
      BY <1>5 DEF Peek, At, InCall
    <3> QED
      BY <1>5, <2>2, <3>1, ReturnIs DEF Effect, Peek
  <2> QED
    BY <2>1, <2>2
<1>6. CASE Try(p)
  BY <1>6, TryParks, TryIs DEF Effect
<1>7. CASE Observe(p) \/ Recheck(p) \/ Park(p) \/ Woken(p) \/ Expire(p) \/ ClearWaiter(p)
  BY <1>7, ObserveParks, RecheckParks, ParkParks, WokenParks, ExpireParks, ClearParks DEF Effect
<1>8. CASE StoreSequence(p) \/ ClaimWaiter(p) \/ Wake(p)
  BY <1>8, StoreTells, ClaimTells, WakeTells DEF Effect
<1>9. CASE ProbeEnd(p) \/ WriteSlot(p) \/ ReadSource(p)
  BY <1>9, ProbeIs, WriteSlotIs, ReadIs DEF Effect
<1>10. CASE Pushed(p)
  BY <1>10, PushedIs DEF Effect, Resumes, Finishes
<1>11. CASE Released(p)
  BY <1>11, ReleasedIs DEF Effect, Confirms
<1>12. CASE Received(p)
  BY <1>12, ReceivedIs DEF Effect
<1>13. CASE WriteAll(p)
  BY <1>13, WriteAllIs DEF Effect
<1> QED
  BY <1>1, <1>2, <1>3, <1>4, <1>5, <1>6, <1>7, <1>8, <1>9, <1>10, <1>11, <1>12, <1>13 DEF Step

\* The variables of the stream that its properties are about, and their
\* tuple without the control socket.
still == <<shape, flow, backend, arena, slot, event, ep, source, sink, outcome>>

\* Every step is a step of one endpoint, or leaves the stream as it is.
LEMMA StreamSteps ==
  ASSUME StreamType, [Next]_vars
  PROVE  \/ \E p \in Processes : Call(p) \/ Step(p) \/ Deadline(p) \/ Depart(p)
         \/ UNCHANGED still /\ shut' \in BOOLEAN
<1> USE DEF stream, shared, still
<1>1. CASE Setup
  <2>1. UNCHANGED stream \/ \E p \in Processes : Drop(p)
    BY <1>1 DEF Setup, Bind, Connect, Accept, AcceptTimeout, StopListening, CreateDirection,
       OpenDirection, SendHandle, ReadAck, ReadHandle, CheckContract, AcceptSetup, Fail, Reject, Processes
  <2> QED
    BY <2>1 DEF Drop, StreamType
<1>2. ASSUME NEW p \in Processes, SetupError(p) \/ Crash(p) \/ Close(p)
      PROVE  \E r \in Processes : Depart(r)
  <2>1. "worker" \in Processes
    BY DEF Processes
  <2> QED
    BY <1>2, <2>1 DEF SetupError, Crash, Close, Reject, Fail, Drop
<1>3. ASSUME NEW p \in Processes, Begin(p) PROVE Call(p)
  BY <1>3 DEF Begin
<1>4. ASSUME NEW p \in Processes, OtherHalfFails(p) PROVE UNCHANGED still /\ shut' \in BOOLEAN
  BY <1>4 DEF OtherHalfFails
<1>5. CASE UNCHANGED vars
  BY <1>5 DEF vars, StreamType
<1> QED
  BY <1>1, <1>2, <1>3, <1>4, <1>5 DEF Next

-----------------------------------------------------------------------------
(* Types and calls.                                                        *)

\* A new state whose pieces have their types.
LEMMA TypeStep ==
  ASSUME StreamType, NEW p \in Processes, Moves(p),
         arena' \in [Arenas -> Ring], \A a \in Arenas : Len(arena'[a].q) <= arena'[a].tail,
         slot' \in [0 .. Slots - 1 -> Bytes], event' \in [Events -> Signal], shut' \in BOOLEAN,
         source' \in Seq(Nat), sink' \in Seq(Seq(Bytes)),
         outcome' \in [Processes -> Seq({"ok", "error"})]
  PROVE  StreamType'
  BY DEF StreamType, Moves, Slots

\* Writing bytes to a slot keeps the slots' type.
LEMMA SlotTypes ==
  ASSUME StreamType, NEW s \in Nat, NEW b \in Bytes
  PROVE  [slot EXCEPT ![SlotOf(s)] = b] \in [0 .. Slots - 1 -> Bytes]
  BY SlotFacts DEF StreamType

\* Every step of an endpoint keeps the types.
LEMMA TypeEffect ==
  ASSUME StreamType, CallInv, NEW p \in Processes, Effect(p)
  PROVE  StreamType'
<1>0. /\ arena \in [Arenas -> Ring] /\ \A a \in Arenas : Len(arena[a].q) <= arena[a].tail
      /\ slot \in [0 .. Slots - 1 -> Bytes] /\ event \in [Events -> Signal] /\ shut \in BOOLEAN
      /\ source \in Seq(Nat) /\ sink \in Seq(Seq(Bytes))
      /\ outcome \in [Processes -> Seq({"ok", "error"})]
  BY DEF StreamType
<1> USE <1>0
<1>1. CASE Parking(p)
  BY <1>1, TypeStep DEF Parking
<1>2. ASSUME NEW why \in {"ok", "error"}, Returning(p, why) PROVE StreamType'
  <2>1. outcome' \in [Processes -> Seq({"ok", "error"})]
    BY <1>2 DEF Returning
  <2> QED
    BY <1>2, <2>1, TypeStep DEF Returning, shared
<1>3. CASE Pushes(p)
  <2>1. \A a \in Arenas : Len(arena'[a].q) <= arena'[a].tail
    BY <1>3, Types, EventFacts, Fields, SMTT(30) DEF Pushes
  <2> QED
    BY <1>3, <2>1, TypeStep DEF Pushes
<1>4. CASE Pops(p)
  <2>1. \A q \in Seq(Frame) : q # <<>> => Len(Tail(q)) = Len(q) - 1
    OBVIOUS
  <2>2. ASSUME NEW a \in Arenas PROVE Len(arena'[a].q) <= arena'[a].tail
    <3>1. /\ arena[a].q \in Seq(Frame) /\ Len(arena[a].q) \in Nat /\ arena[a].tail \in Nat
          /\ Len(arena[a].q) <= arena[a].tail
      BY Types
    <3>2. CASE a = ArenaOf(p)
      <4>1. arena'[a].tail = arena[a].tail /\ arena'[a].q = Tail(arena[a].q) /\ arena[a].q # <<>>
        BY <1>4, <3>2 DEF Pops
      <4>2. Len(Tail(arena[a].q)) = Len(arena[a].q) - 1
        BY <2>1, <3>1, <4>1
      <4> QED
        BY <3>1, <4>1, <4>2
    <3>3. CASE a # ArenaOf(p)
      BY <1>4, <3>1, <3>3 DEF Pops
    <3> QED
      BY <3>2, <3>3
  <2> QED
    BY <1>4, <2>2, TypeStep DEF Pops
<1>5. CASE Calls(p)
  <2>1. source' \in Seq(Nat) /\ sink' \in Seq(Seq(Bytes))
    <3>1. <<>> \in Seq(Bytes)
      OBVIOUS
    <3>2. Append(sink, <<>>) \in Seq(Seq(Bytes)) /\ \A n \in Nat : Append(source, n) \in Seq(Nat)
      BY <3>1
    <3> QED
      BY <1>5, <3>2 DEF Calls
  <2> QED
    BY <1>5, <2>1, TypeStep DEF Calls, shared
<1>6. CASE Departs(p)
  BY <1>6, TypeStep DEF Departs, shared
<1>7. CASE GoesOn(p)
  BY <1>7, TypeStep DEF GoesOn, shared
<1>8. CASE WritesSlot(p)
  <2>1. Torn \in Bytes /\ ep[p].chunks \in Nat
    BY Types, Fields DEF Torn, Bytes
  <2>2. slot' \in [0 .. Slots - 1 -> Bytes]
    BY <1>8, <2>1, SlotTypes DEF WritesSlot
  <2> QED
    BY <1>8, <2>2, TypeStep DEF WritesSlot
<1>9. ASSUME NEW len \in Nat \ {0}, Reads(p, len) PROVE StreamType'
  <2>1. <<Round(p), ep[p].total, len>> \in Bytes /\ ep[p].chunks \in Nat
    BY Types, Fields DEF Bytes, Round
  <2>2. slot' \in [0 .. Slots - 1 -> Bytes]
    BY <1>9, <2>1, SlotTypes DEF Reads
  <2> QED
    BY <1>9, <2>2, TypeStep DEF Reads
<1>10. CASE Turns(p) \/ Echoes(p) \/ Sinks(p)
  BY <1>10, TypeStep DEF Turns, Echoes, Sinks, shared
<1>11. CASE p = Consumer /\ ep[p].pc = "sink" /\ Writes(p)
  <2>1. slot[ep[p].frame.slot] \in Bytes
    BY <1>11 DEF CallInv
  <2>2. Round(p) \in DOMAIN sink /\ sink[Round(p)] \in Seq(Bytes)
    BY <1>11, Types DEF CallInv, InCall, Round
  <2>3. Append(sink[Round(p)], slot[ep[p].frame.slot]) \in Seq(Bytes)
    BY <2>1, <2>2
  <2>4. sink' \in Seq(Seq(Bytes))
    BY <1>11, <2>2, <2>3 DEF Writes
  <2> QED
    BY <1>11, <2>4, TypeStep DEF Writes, shared
<1> QED
  BY <1>1, <1>2, <1>3, <1>4, <1>5, <1>6, <1>7, <1>8, <1>9, <1>10, <1>11
     DEF Effect, Finishes, Confirms, Eofs, Resumes, Counts

\* The roles do not change, and the operators depend on what they mention.
LEMMA Frames ==
  ASSUME NEW p, Moves(p)
  PROVE  /\ Producer' = Producer /\ Consumer' = Consumer /\ Slots' = Slots /\ Chunks' = Chunks
         /\ ChunkBytes' = ChunkBytes /\ TotalBytes' = TotalBytes
         /\ \A c : SlotOf(c)' = SlotOf(c)
  BY DEF Moves, Producer, Consumer, Slots, Chunks, ChunkBytes, TotalBytes, SlotOf, Peer

\* A step inside a call keeps CallInv.
LEMMA CallStep ==
  ASSUME StreamType, CallInv, NEW p \in Processes, Moves(p), InCall(p), InCall(p)',
         UNCHANGED <<source, outcome>>, Len(sink') = Len(sink),
         p = Consumer => ep'[p].pc \notin {"excess", "write", "read"},
         p = Consumer /\ ep'[p].pc = "sink" => ep'[p].op = "pop" /\ ep'[p].frame.slot \in 0 .. Slots - 1,
         p = Producer => ep'[p].pc # "sink"
  PROVE  CallInv'
<1>1. Producer' = Producer /\ Consumer' = Consumer /\ Slots' = Slots
  BY Frames
<1>2. ep'[Peer(p)] = ep[Peer(p)] /\ \A r \in Processes : r = p \/ r = Peer(p)
  BY Ends DEF Moves
<1>3. \A r \in Processes :
        InCall(r)' = InCall(r) /\ Round(r)' = Round(r) /\ At(r, "idle")' = At(r, "idle")
  BY <1>2 DEF InCall, Round, At
<1> QED
  BY <1>1, <1>2, <1>3, Ends DEF CallInv

\* Every step of an endpoint keeps CallInv.
LEMMA CallEffect ==
  ASSUME StreamType, CallInv, NEW p \in Processes, Effect(p)
  PROVE  CallInv'
<1> USE DEF InCall, Waiting, Done
<1>0. /\ ep[p] \in Endpoint /\ ep[p].pc \in Pcs /\ Len(source) \in Nat /\ Len(sink) \in Nat
      /\ \A r \in Processes : Len(outcome[r]) \in Nat /\ outcome[r] \in Seq({"ok", "error"})
      /\ source \in Seq(Nat) /\ sink \in Seq(Seq(Bytes))
      /\ outcome \in [Processes -> Seq({"ok", "error"})]
  BY Types, Fields DEF StreamType
<1>m. ASSUME Moves(p)
      PROVE  /\ Producer' = Producer /\ Consumer' = Consumer /\ Slots' = Slots
             /\ ep'[Peer(p)] = ep[Peer(p)] /\ \A r \in Processes : r = p \/ r = Peer(p)
  BY <1>m, Frames, Ends DEF Moves
<1>1. CASE Parking(p)
  BY <1>1, CallStep DEF Parking, CallInv
<1>2. ASSUME NEW why \in {"ok", "error"}, Returning(p, why) PROVE CallInv'
  <2>1. /\ Moves(p) /\ ep'[p].pc = "idle" /\ source' = source /\ sink' = sink
        /\ ep[p].pc \notin {"idle", "gone"}
        /\ outcome' = [outcome EXCEPT ![p] = Append(@, why)]
    BY <1>2, IdleIs DEF Returning
  <2>2. /\ outcome'[p] = Append(outcome[p], why) /\ Len(outcome'[p]) = Len(outcome[p]) + 1
        /\ \A r \in Processes : r # p => outcome'[r] = outcome[r]
    BY <1>0, <2>1
  <2>5. \A r \in Processes : r # p => /\ InCall(r)' = InCall(r) /\ Round(r)' = Round(r)
                                      /\ At(r, "idle")' = At(r, "idle")
    BY <1>m, <2>1, <2>2, Ends DEF Round, At
  <2>7. /\ Producer' = Producer /\ Consumer' = Consumer /\ Slots' = Slots
        /\ ep'[Peer(p)] = ep[Peer(p)] /\ \A r \in Processes : r = p \/ r = Peer(p)
    BY <1>m, <2>1
  <2>8. CASE p = Producer
    BY <1>0, <2>1, <2>2, <2>5, <2>7, <2>8, Ends, SMTT(40) DEF CallInv, Round, At
  <2>9. CASE p = Consumer
    BY <1>0, <2>1, <2>2, <2>5, <2>7, <2>9, Ends, SMTT(40) DEF CallInv, Round, At
  <2> QED
    BY <2>8, <2>9, Ends
<1>3. CASE Pushes(p)
  BY <1>3, CallStep DEF Pushes
<1>4. CASE Pops(p)
  BY <1>4, CallStep DEF Pops
<1>5. CASE Calls(p)
  <2>1. /\ Moves(p) /\ ep[p].pc = "idle" /\ outcome' = outcome
        /\ ep'[p].pc \in {"try", "excess", "write"} /\ (p = Consumer => ep'[p].pc = "try")
        /\ Len(source') = (IF p = Producer THEN Len(source) + 1 ELSE Len(source))
        /\ Len(sink') = (IF p = Consumer THEN Len(sink) + 1 ELSE Len(sink))
    BY <1>0, <1>5, Ends DEF Calls, NextMove
  <2>2. \A r \in Processes : Round(r)' = Round(r)
    BY <2>1 DEF Round
  <2>3. /\ Producer' = Producer /\ Consumer' = Consumer /\ Slots' = Slots
        /\ ep'[Peer(p)] = ep[Peer(p)] /\ \A r \in Processes : r = p \/ r = Peer(p)
    BY <1>m, <2>1
  <2>5. CASE p = Producer
    <3>1. Len(source) = Len(outcome[p]) /\ Len(source') = Len(source) + 1 /\ Len(sink') = Len(sink)
      BY <2>1, <2>5, Ends DEF CallInv, At
    <3>2. InCall(p)' /\ ~At(p, "idle")' /\ p # Consumer
      BY <2>1, <2>5, Ends DEF At
    <3>3. Len(outcome'[Consumer]) <= Len(sink') /\ Len(outcome'[p]) <= Len(source') /\ Len(source') = Round(p)'
      BY <1>0, <2>1, <2>5, <3>1, Ends DEF CallInv, Round
    <3>4. /\ (InCall(Consumer) => Len(sink) = Round(Consumer))'
          /\ (At(Consumer, "idle") => Len(sink) = Len(outcome[Consumer]))'
          /\ (ep[Consumer].pc = "sink" => ep[Consumer].op = "pop" /\ ep[Consumer].frame.slot \in 0 .. Slots - 1)'
          /\ ep'[Consumer].pc \notin {"excess", "write", "read"}
      BY <2>1, <2>2, <2>3, <2>5, <3>1, Ends DEF CallInv, At
    <3> QED
      BY <2>1, <2>3, <2>5, <3>2, <3>3, <3>4 DEF CallInv
  <2>6. CASE p = Consumer
    <3>1. Len(sink) = Len(outcome[p]) /\ Len(sink') = Len(sink) + 1 /\ Len(source') = Len(source)
      BY <2>1, <2>6, Ends DEF CallInv, At
    <3>2. InCall(p)' /\ ~At(p, "idle")' /\ p # Producer /\ ep'[p].pc = "try" /\ ep'[Producer] = ep[Producer]
      BY <2>1, <2>3, <2>6, Ends DEF At
    <3>3. Len(outcome'[Producer]) <= Len(source') /\ Len(outcome'[p]) <= Len(sink') /\ Len(sink') = Round(p)'
      BY <1>0, <2>1, <2>6, <3>1, Ends DEF CallInv, Round
    <3>4. /\ (InCall(Producer) => Len(source) = Round(Producer))'
          /\ (At(Producer, "idle") => Len(source) = Len(outcome[Producer]))'
          /\ ep'[Producer].pc # "sink"
      BY <2>1, <2>2, <2>3, <3>1, <3>2, Ends DEF CallInv, At
    <3> QED
      BY <2>1, <2>3, <2>6, <3>2, <3>3, <3>4 DEF CallInv
  <2> QED
    BY <2>5, <2>6, Ends
<1>6. CASE Departs(p)
  <2>1. /\ Moves(p) /\ ep'[p].pc = "gone" /\ UNCHANGED <<source, sink, outcome>>
    BY <1>6 DEF Departs
  <2>2. \A r \in Processes : Round(r)' = Round(r)
    BY <2>1 DEF Round
  <2>3. /\ Producer' = Producer /\ Consumer' = Consumer /\ Slots' = Slots
        /\ ep'[Peer(p)] = ep[Peer(p)] /\ \A r \in Processes : r = p \/ r = Peer(p)
    BY <1>m, <2>1
  <2>5. CASE p = Producer
    BY <1>0, <2>1, <2>2, <2>3, <2>5, Ends DEF CallInv, Round, At
  <2>6. CASE p = Consumer
    BY <1>0, <2>1, <2>2, <2>3, <2>6, Ends DEF CallInv, Round, At
  <2> QED
    BY <2>5, <2>6, Ends
<1>7. CASE GoesOn(p) /\ ep[p].pc \in {"excess", "read", "notified"} /\ \E e \in Endpoint : NextMove(e, ep'[p])
  BY <1>7, CallStep, Ends DEF GoesOn, NextMove
<1>8. CASE WritesSlot(p)
  BY <1>8, CallStep, Ends DEF WritesSlot
<1>9. ASSUME NEW len \in Nat \ {0}, Reads(p, len) PROVE CallInv'
  BY <1>9, CallStep, Ends DEF Reads
<1>10. CASE Turns(p)
  BY <1>10, CallStep, Ends DEF Turns
<1>11. CASE p = Consumer /\ ep[p].pc = "notified" /\ Echoes(p)
  BY <1>11, CallStep, Ends DEF Echoes
<1>12. CASE p = Consumer /\ ep[p].pc = "notified" /\ ep[p].op = "pop" /\ Sinks(p)
  <2>1. ep'[p].frame.slot \in 0 .. Slots - 1 /\ ep'[p].op = "pop"
    BY <1>0, <1>12, SlotFacts, Fields, ZenonT(60) DEF Sinks, SameBody
  <2> QED
    BY <1>12, <2>1, CallStep, Ends DEF Sinks
<1>13. CASE p = Consumer /\ ep[p].pc = "sink" /\ Writes(p)
  <2>1. Len(sink') = Len(sink)
    BY <1>0, <1>13 DEF Writes
  <2> QED
    BY <1>13, <2>1, CallStep, Ends DEF Writes
<1>14. CASE Eofs(p) \/ Resumes(p) \/ (Counts(p) /\ ep[p].pc = "notified")
  BY <1>0, <1>7, <1>14 DEF Eofs, Resumes, Counts
<1> QED
  BY <1>1, <1>2, <1>3, <1>4, <1>5, <1>6, <1>8, <1>9, <1>10, <1>11, <1>12, <1>13, <1>14
     DEF Effect, Finishes, Confirms

-----------------------------------------------------------------------------
(* Wake-ups.                                                               *)

\* NoLostWakeup for one endpoint.
Roused(p) ==
  At(p, "parked") /\ Ready(p) =>
    \/ event[Awaited(p)].pending
    \/ At(Peer(p), "gone")
    \/ (ep[Peer(p)].pc \in {"store", "swap", "wake"} /\ Notified(Peer(p)) = Awaited(p))

WaitOK(p) == ObservedOK(p) /\ TokenOK(p) /\ Roused(p)

\* WakeInv, event by event and process by process.
LEMMA WakeParts ==
  WakeInv <=> (\A x \in Events : SeqOK(x)) /\ (\A p \in Processes : WaitOK(p))
  BY DEF WakeInv, WaitOK, NoLostWakeup, Roused

\* The initial states.
LEMMA WakeInit == Init => WakeInv
<1> SUFFICES ASSUME Init PROVE WakeInv
  OBVIOUS
<1>1. \A p \in Processes : ep[p].pc = "idle"
  BY IdleIs DEF Init, StreamInit
<1>2. \A x \in Events : event[x].sequence = 0
  BY DEF Init, StreamInit, Events, Arenas
<1>3. \A a \in Arenas : arena[a].tail = 0 /\ arena[a].q = <<>>
  BY DEF Init, StreamInit, Arenas
<1>4. \A x \in Events : x[1] \in Arenas
  BY DEF Events
<1>5. \A x \in Events : CursorAt(x) = 0
  BY <1>3, <1>4 DEF CursorAt
<1> QED
  BY <1>1, <1>2, <1>5 DEF WakeInv, SeqOK, ObservedOK, TokenOK, NoLostWakeup, At

\* An endpoint's view depends on its operation, and on nothing else that
\* moves.
LEMMA ViewFrame ==
  ASSUME NEW p \in Processes, Moves(p), NEW r \in Processes, ep'[r].op = ep[r].op
  PROVE  /\ ArenaOf(r)' = ArenaOf(r) /\ Awaited(r)' = Awaited(r) /\ Notified(r)' = Notified(r)
         /\ (arena'[ArenaOf(r)] = arena[ArenaOf(r)] => Ready(r)' = Ready(r))
<1>1. Producer' = Producer /\ DescriptorCapacity' = DescriptorCapacity
  BY Frames DEF Moves, DescriptorCapacity, Slots
<1>2. ArenaOf(r)' = ArenaOf(r)
  BY <1>1 DEF ArenaOf
<1> QED
  BY <1>1, <1>2 DEF Awaited, Notified, Ready

\* A step of one endpoint does not change who notifies which event.
LEMMA NotifierFrame ==
  ASSUME NEW p \in Processes, Moves(p)
  PROVE  \A x : /\ Notifier(x)' = Notifier(x)
                /\ (arena'[x[1]] = arena[x[1]] => CursorAt(x)' = CursorAt(x))
  BY Frames DEF Notifier, CursorAt

\* Events and their notifiers.
LEMMA NotifierFacts ==
  ASSUME NEW x \in Events
  PROVE  Notifier(x) \in Processes /\ x[1] \in Arenas
  BY Ends DEF Notifier, Events

\* A step that neither waits nor notifies.
LEMMA WakeRest ==
  ASSUME StreamType, WakeInv, NEW p \in Processes, Moves(p), UNCHANGED <<arena, event>>,
         ep'[p].pc \notin {"recheck", "register", "park", "parked"},
         ep'[p].pc = "gone" \/ ep[p].pc \notin {"store", "swap", "wake", "gone"}
  PROVE  WakeInv'
<1> DEFINE r == Peer(p)
<1>1. r \in Processes /\ r # p /\ Peer(r) = p /\ \A t \in Processes : t = p \/ t = r
  BY Ends
<1>2. ep'[r] = ep[r]
  BY DEF Moves
<1>3. ASSUME NEW x \in Events PROVE SeqOK(x)'
  <2>1. SeqOK(x) /\ Notifier(x)' = Notifier(x) /\ CursorAt(x)' = CursorAt(x) /\ Notifier(x) \in Processes
    BY NotifierFrame, NotifierFacts DEF WakeInv
  <2>2. CASE Notifier(x) = p
    BY <2>1, <2>2 DEF SeqOK, At
  <2>3. CASE Notifier(x) = r
    <3>1. Notified(r)' = Notified(r)
      BY <1>1, <1>2, ViewFrame
    <3> QED
      BY <1>2, <2>1, <2>3, <3>1 DEF SeqOK, At
  <2> QED
    BY <1>1, <2>1, <2>2, <2>3
<1>4. WaitOK(p)'
  BY DEF WaitOK, ObservedOK, TokenOK, Roused, At
<1>5. WaitOK(r)'
  <2>1. Awaited(r)' = Awaited(r) /\ Ready(r)' = Ready(r)
    BY <1>1, <1>2, ViewFrame
  <2>4. ObservedOK(r)'
    BY <1>1, <1>2, <2>1 DEF WakeInv, ObservedOK, CursorAt
  <2>5. TokenOK(r)'
    BY <1>1, <1>2, <2>1 DEF WakeInv, TokenOK, At
  <2>6. Roused(r)'
    BY <1>1, <1>2, <2>1 DEF WakeInv, NoLostWakeup, Roused, At
  <2> QED
    BY <2>4, <2>5, <2>6 DEF WaitOK
<1> QED
  BY <1>1, <1>3, <1>4, <1>5, WakeParts DEF WakeInv, WaitOK, NoLostWakeup, Roused

\* A step on the way to the frame that changes at most the waiters and the
\* token of the endpoint's own event.
LEMMA WakeWaits ==
  ASSUME StreamType, WakeInv, NEW p \in Processes, Parking(p),
         ep[p].pc \in Waiting, ep'[p].pc \in Waiting,
         \A x \in Events : /\ event'[x].sequence = event[x].sequence
                           /\ x # Awaited(p) => event'[x] = event[x]
  PROVE  /\ \A x \in Events : SeqOK(x)'
         /\ WaitOK(Peer(p))'
         /\ Awaited(p)' = Awaited(p) /\ Ready(p)' = Ready(p) /\ Notified(Peer(p))' = Notified(Peer(p))
         /\ ep'[Peer(p)] = ep[Peer(p)] /\ Awaited(p) \in Events
<1> DEFINE r == Peer(p)
<1>0. Moves(p) /\ arena' = arena /\ ep'[p].op = ep[p].op
  BY DEF Parking, SameBody
<1>1. r \in Processes /\ r # p /\ Peer(r) = p /\ \A t \in Processes : t = p \/ t = r
  BY Ends
<1>2. ep'[r] = ep[r]
  BY <1>0 DEF Moves
<1>3. /\ Awaited(r)' = Awaited(r) /\ Ready(r)' = Ready(r) /\ Notified(r)' = Notified(r)
      /\ Awaited(p)' = Awaited(p) /\ Ready(p)' = Ready(p) /\ Notified(p)' = Notified(p)
  BY <1>0, <1>1, <1>2, ViewFrame
<1>4. /\ Awaited(r) \in Events /\ Awaited(p) \in Events /\ Awaited(r) # Awaited(p)
  BY <1>1, EventFacts
<1>5. event'[Awaited(r)] = event[Awaited(r)]
  BY <1>4
<1>6. ep[p].pc \notin {"store", "swap", "wake", "gone"} /\ ep'[p].pc # "gone"
  BY DEF Waiting
<1>7. ASSUME NEW x \in Events PROVE SeqOK(x)'
  <2>1. SeqOK(x) /\ Notifier(x)' = Notifier(x) /\ CursorAt(x)' = CursorAt(x) /\ Notifier(x) \in Processes
    BY <1>0, NotifierFrame, NotifierFacts DEF WakeInv
  <2>2. event'[x].sequence = event[x].sequence
    OBVIOUS
  <2>3. CASE Notifier(x) = p
    BY <1>6, <2>1, <2>2, <2>3 DEF SeqOK, At
  <2>4. CASE Notifier(x) = r
    BY <1>2, <1>3, <2>1, <2>2, <2>4 DEF SeqOK, At
  <2> QED
    BY <1>1, <2>1, <2>3, <2>4
<1>8. WaitOK(r)'
  <2>1. ObservedOK(r)'
    BY <1>0, <1>1, <1>2, <1>3, <1>5 DEF WakeInv, ObservedOK, CursorAt
  <2>2. TokenOK(r)'
    BY <1>1, <1>2, <1>3, <1>5, <1>6 DEF WakeInv, TokenOK, At
  <2>3. Roused(r)'
    BY <1>1, <1>2, <1>3, <1>5, <1>6 DEF WakeInv, NoLostWakeup, Roused, At
  <2> QED
    BY <2>1, <2>2, <2>3 DEF WaitOK
<1> QED
  BY <1>2, <1>3, <1>4, <1>7, <1>8

\* The endpoint that waits.
LEMMA WakeWaiter ==
  ASSUME StreamType, WakeInv, backend = "token", NEW p \in Processes,
         \/ Observe(p) \/ Recheck(p) \/ (Register(p) /\ event[Awaited(p)].waiters = 0)
         \/ Park(p) \/ Woken(p) \/ Expire(p) \/ ClearWaiter(p)
  PROVE  WakeInv'
<1> DEFINE r == Peer(p)
           x == Awaited(p)
<1>0. r \in Processes /\ r # p /\ Peer(r) = p /\ \A t \in Processes : t = p \/ t = r
  BY Ends
<1>1. SUFFICES ASSUME WaitOK(r)', \A y \in Events : SeqOK(y)', Awaited(p)' = Awaited(p), Ready(p)' = Ready(p),
                      Notified(r)' = Notified(r), ep'[r] = ep[r], x \in Events
               PROVE  WaitOK(p)'
  <2>1. /\ Parking(p) /\ ep[p].pc \in Waiting /\ ep'[p].pc \in Waiting
        /\ \A y \in Events : event'[y].sequence = event[y].sequence /\ (y # Awaited(p) => event'[y] = event[y])
    BY ObserveParks, RecheckParks, RegisterParks, ParkParks, WokenParks, ExpireParks, ClearParks
       DEF Parking, Waiting
  <2>2. /\ WaitOK(r)' /\ (\A y \in Events : SeqOK(y)') /\ Awaited(p)' = Awaited(p) /\ Ready(p)' = Ready(p)
        /\ Notified(r)' = Notified(r) /\ ep'[r] = ep[r] /\ x \in Events
    BY <2>1, WakeWaits
  <2> QED
    BY <1>0, <2>2 DEF WakeInv, WaitOK, NoLostWakeup, Roused
<1>2. CASE Observe(p)
  <2>1. ep'[p].pc = "recheck" /\ event' = event /\ ep'[p].observed = event[x].sequence /\ event[x].sequence \in Nat
    BY <1>1, <1>2, ObserveParks, Types
  <2> QED
    BY <1>1, <2>1 DEF WaitOK, ObservedOK, TokenOK, Roused, At
<1>3. CASE Recheck(p)
  <2>1. /\ ep[p].pc = "recheck" /\ event' = event
        /\ \/ ep'[p].pc = "try"
           \/ ~Ready(p) /\ ep'[p].pc = "register" /\ ep'[p].observed = ep[p].observed
    BY <1>3, RecheckParks
  <2>2. ObservedOK(p)
    BY DEF WakeInv
  <2> QED
    BY <1>1, <2>1, <2>2 DEF WaitOK, ObservedOK, TokenOK, Roused, At
<1>4. CASE Register(p) /\ event[Awaited(p)].waiters = 0
  <2>1. /\ ep[p].pc = "register" /\ ep'[p].pc = "park" /\ ep'[p].observed = ep[p].observed
        /\ event'[x].sequence = event[x].sequence /\ event'[x].waiters = 1 /\ arena' = arena
    BY <1>1, <1>4, RegisterParks DEF Parking
  <2>2. ObservedOK(p)
    BY DEF WakeInv
  <2> QED
    BY <1>1, <2>1, <2>2 DEF WaitOK, ObservedOK, TokenOK, Roused, At, CursorAt
<1>5. CASE Park(p)
  <2>1. /\ ep[p].pc = "park" /\ arena' = arena /\ backend' = backend
        /\ event'[x].sequence = event[x].sequence /\ event'[x].waiters = event[x].waiters
        /\ \/ ep'[p].pc = "clear"
           \/ /\ ~Changed(p) /\ ~HasToken(p) /\ ep'[p].pc = "parked" /\ ep'[p].observed = ep[p].observed
              /\ event'[x].pending = event[x].pending
    BY <1>1, <1>5, ParkParks DEF Parking, Moves
  <2>2. ObservedOK(p) /\ TokenOK(p) /\ SeqOK(x)
    BY <1>1 DEF WakeInv
  <2>3. CASE ep'[p].pc = "clear"
    BY <2>3 DEF WaitOK, ObservedOK, TokenOK, Roused, At
  <2>4. CASE /\ ~Changed(p) /\ ep'[p].pc = "parked" /\ ep'[p].observed = ep[p].observed
             /\ event'[x].pending = event[x].pending
    <3>1. ObservedOK(p)' /\ TokenOK(p)'
      BY <1>0, <1>1, <2>1, <2>2, <2>4 DEF ObservedOK, TokenOK, At, CursorAt
    <3>2. ASSUME Ready(p) PROVE At(r, "gone") \/ (At(r, "store") /\ Notified(r) = x)
      <4>1. ep[p].observed < CursorAt(x) /\ event[x].sequence = ep[p].observed
        BY <2>1, <2>2, <2>4, <3>2 DEF ObservedOK, Changed
      <4>2. Notifier(x) = r
        BY EventFacts
      <4>3. event[x].sequence # CursorAt(x)
        <5>1. event[x].sequence \in Nat
          BY <1>1, Types
        <5> QED
          BY <4>1, <5>1
      <4> QED
        BY <2>2, <4>2, <4>3 DEF SeqOK
    <3>3. Roused(p)'
      BY <1>0, <1>1, <3>2 DEF Roused, At
    <3> QED
      BY <3>1, <3>3 DEF WaitOK
  <2> QED
    BY <2>1, <2>3, <2>4
<1>6. CASE Woken(p) \/ Expire(p) \/ ClearWaiter(p)
  <2>1. ep'[p].pc \in {"clear", "peek", "try"}
    BY <1>6, WokenParks, ExpireParks, ClearParks
  <2> QED
    BY <2>1 DEF WaitOK, ObservedOK, TokenOK, Roused, At
<1> QED
  BY <1>2, <1>3, <1>4, <1>5, <1>6

\* The endpoint that notifies.
LEMMA WakeNotifier ==
  ASSUME StreamType, WakeInv, backend = "token", NEW p \in Processes,
         StoreSequence(p) \/ ClaimWaiter(p) \/ Wake(p)
  PROVE  WakeInv'
<1> DEFINE r == Peer(p)
           x == Notified(p)
<1>0. r \in Processes /\ r # p /\ Peer(r) = p /\ \A t \in Processes : t = p \/ t = r
  BY Ends
<1>1. /\ Parking(p) /\ Moves(p) /\ ep'[p].op = ep[p].op /\ arena' = arena /\ ep'[r] = ep[r]
      /\ ep[p].pc \in {"store", "swap", "wake"} /\ ep'[p].pc \in {"swap", "wake", "notified"}
      /\ \A y \in Events : y # x => event'[y] = event[y]
  BY StoreTells, ClaimTells, WakeTells DEF Parking, SameBody, Moves
<1>2. /\ Awaited(r)' = Awaited(r) /\ Ready(r)' = Ready(r) /\ Notified(r)' = Notified(r)
      /\ Awaited(p)' = Awaited(p) /\ Notified(p)' = Notified(p)
  BY <1>0, <1>1, ViewFrame
<1>3. /\ x \in Events /\ Awaited(r) \in Events /\ Notifier(x) = p
      /\ CursorAt(x) = Cursor(p) /\ Cursor(p) \in Nat
  BY <1>0, EventFacts, Types DEF Cursor
<1>4. ASSUME NEW y \in Events, y # x PROVE SeqOK(y)'
  <2>1. /\ SeqOK(y) /\ Notifier(y)' = Notifier(y) /\ CursorAt(y)' = CursorAt(y) /\ Notifier(y) \in Processes
        /\ event'[y] = event[y]
    BY <1>1, <1>4, NotifierFrame, NotifierFacts DEF WakeInv
  <2>2. CASE Notifier(y) = p
    BY <1>1, <1>4, <2>1, <2>2 DEF SeqOK, At
  <2>3. CASE Notifier(y) = r
    BY <1>1, <1>2, <2>1, <2>3 DEF SeqOK, At
  <2> QED
    BY <1>0, <2>1, <2>2, <2>3
<1>5. SeqOK(x) /\ ObservedOK(r) /\ TokenOK(r) /\ Roused(r)
  BY <1>0, <1>3 DEF WakeInv, NoLostWakeup, Roused
<1>6. CursorAt(x)' = CursorAt(x) /\ Notifier(x)' = p /\ event[x].sequence \in Nat
  BY <1>1, <1>2, <1>3, NotifierFrame, Types DEF CursorAt
<1>7. WaitOK(p)'
  BY <1>1 DEF WaitOK, ObservedOK, TokenOK, Roused, At
<1>8. SUFFICES ASSUME TRUE PROVE SeqOK(x)' /\ WaitOK(r)'
  <2>1. ASSUME SeqOK(x)', WaitOK(r)' PROVE \A y \in Events : SeqOK(y)'
    <3>1. ASSUME NEW y \in Events PROVE SeqOK(y)'
      <4>1. CASE y = x
        BY <1>2, <2>1, <4>1 DEF SeqOK, CursorAt, Notifier
      <4>2. CASE y # x
        BY <1>4, <4>2
      <4> QED
        BY <4>1, <4>2
    <3> QED
      BY <3>1
  <2> QED
    BY <1>0, <1>7, <2>1 DEF WakeInv, WaitOK, NoLostWakeup, Roused
<1>9. CASE Awaited(r) # x
  <2>1. event'[Awaited(r)] = event[Awaited(r)]
    BY <1>1, <1>3, <1>9
  <2>2. WaitOK(r)'
    BY <1>0, <1>1, <1>2, <1>5, <1>9, <2>1 DEF WaitOK, ObservedOK, TokenOK, Roused, At, CursorAt
  <2>3. SeqOK(x)'
    <3>1. CASE StoreSequence(p)
      <4>1. event'[x].sequence = CursorAt(x) /\ CursorAt(x) \in Nat
        BY <1>3, <3>1, StoreTells
      <4> QED
        BY <1>2, <1>6, <4>1 DEF SeqOK
    <3>2. CASE ClaimWaiter(p) \/ Wake(p)
      <4>1. event'[x].sequence = event[x].sequence /\ ep[p].pc \in {"swap", "wake"}
        BY <3>2, ClaimTells, WakeTells
      <4> QED
        BY <1>2, <1>3, <1>5, <1>6, <4>1 DEF SeqOK, At
    <3> QED
      BY <3>1, <3>2
  <2> QED
    BY <2>2, <2>3
<1>10. CASE Awaited(r) = x
  <2>1. CASE StoreSequence(p)
    <3>1. /\ event'[x].sequence = CursorAt(x) /\ CursorAt(x) \in Nat
          /\ event'[x].waiters = event[x].waiters /\ event'[x].pending = event[x].pending
          /\ ep[p].pc = "store" /\ ep'[p].pc = "swap"
      BY <1>3, <2>1, StoreTells
    <3>2. SeqOK(x)'
      BY <1>2, <1>6, <3>1 DEF SeqOK
    <3>3. ep[r].observed \in Nat
      BY <1>0, Types, Fields
    <3>4. ObservedOK(r)'
      BY <1>0, <1>1, <1>2, <1>5, <1>6, <1>10, <3>1, <3>3 DEF ObservedOK, SeqOK
    <3>5. TokenOK(r)' /\ Roused(r)'
      BY <1>0, <1>1, <1>2, <1>5, <1>10, <3>1 DEF TokenOK, Roused, At
    <3> QED
      BY <3>2, <3>4, <3>5 DEF WaitOK
  <2>2. CASE ClaimWaiter(p)
    <3>1. /\ event'[x].sequence = event[x].sequence /\ event'[x].pending = event[x].pending
          /\ ep[p].pc = "swap" /\ ep'[p].pc = (IF event[x].waiters # 0 THEN "wake" ELSE "notified")
      BY <2>2, ClaimTells
    <3>2. SeqOK(x)'
      BY <1>2, <1>3, <1>5, <1>6, <3>1 DEF SeqOK, At
    <3>3. ObservedOK(r)'
      BY <1>0, <1>1, <1>2, <1>5, <1>10, <3>1 DEF ObservedOK, CursorAt
    <3>4. TokenOK(r)'
      BY <1>0, <1>1, <1>2, <1>5, <1>10, <3>1 DEF TokenOK, At
    <3>5. Roused(r)'
      BY <1>0, <1>1, <1>2, <1>5, <1>10, <3>1 DEF TokenOK, Roused, At
    <3> QED
      BY <3>2, <3>3, <3>4, <3>5 DEF WaitOK
  <2>3. CASE Wake(p)
    <3>1. /\ event'[x].sequence = event[x].sequence /\ event'[x].pending
          /\ ep[p].pc = "wake" /\ ep'[p].pc = "notified"
      BY <2>3, WakeTells
    <3>2. SeqOK(x)'
      BY <1>2, <1>3, <1>5, <1>6, <3>1 DEF SeqOK, At
    <3>3. ObservedOK(r)'
      BY <1>0, <1>1, <1>2, <1>5, <1>10, <3>1 DEF ObservedOK, CursorAt
    <3>4. TokenOK(r)' /\ Roused(r)'
      BY <1>2, <1>10, <3>1 DEF TokenOK, Roused
    <3> QED
      BY <3>2, <3>3, <3>4 DEF WaitOK
  <2> QED
    BY <2>1, <2>2, <2>3
<1> QED
  BY <1>9, <1>10

\* A frame goes in or out: the cursor passes the event, and the endpoint is
\* about to store it.
LEMMA WakeTakes ==
  ASSUME StreamType, WakeInv, NEW p \in Processes, Pushes(p) \/ Pops(p)
  PROVE  WakeInv'
<1> DEFINE r == Peer(p)
           x == Notified(p)
           a == ArenaOf(p)
<1>0. r \in Processes /\ r # p /\ Peer(r) = p /\ \A t \in Processes : t = p \/ t = r
  BY Ends
<1>1. /\ Moves(p) /\ ep'[p].op = ep[p].op /\ event' = event /\ ep'[r] = ep[r]
      /\ ep[p].pc = "try" /\ ep'[p].pc = "store"
      /\ \A b \in Arenas : b # a => arena'[b] = arena[b]
  BY DEF Pushes, Pops, SameBody, Moves
<1>2. /\ Awaited(r)' = Awaited(r) /\ Notified(r)' = Notified(r) /\ ArenaOf(r)' = ArenaOf(r)
      /\ (arena'[ArenaOf(r)] = arena[ArenaOf(r)] => Ready(r)' = Ready(r))
      /\ Awaited(p)' = Awaited(p) /\ Notified(p)' = Notified(p)
  BY <1>0, <1>1, ViewFrame
<1>3. /\ x \in Events /\ Awaited(r) \in Events /\ Notifier(x) = p /\ a \in Arenas /\ x[1] = a
      /\ Notifier(Awaited(p)) = r /\ Awaited(p)[1] = a /\ Awaited(r)[1] = ArenaOf(r)
      /\ ArenaOf(r) \in Arenas /\ (x = Awaited(r) <=> a = ArenaOf(r))
  BY <1>0, EventFacts
<1>4. /\ arena[a].tail \in Nat /\ Len(arena[a].q) \in Nat /\ Len(arena[a].q) <= arena[a].tail
      /\ arena[a].q \in Seq(Frame)
  BY <1>3, Types
<1>5. \/ /\ ep[p].op = "push" /\ arena'[a].tail = arena[a].tail + 1
         /\ Len(arena'[a].q) = Len(arena[a].q) + 1
      \/ /\ ep[p].op = "pop" /\ arena'[a].tail = arena[a].tail
         /\ Len(arena'[a].q) = Len(arena[a].q) - 1
  <2>1. \A q \in Seq(Frame) : q # <<>> => Len(Tail(q)) = Len(q) - 1
    OBVIOUS
  <2>2. \A q \in Seq(Frame), f \in Frame : Len(Append(q, f)) = Len(q) + 1
    OBVIOUS
  <2>3. ep[p].frame \in Frame
    BY Types, Fields
  <2>4. CASE Pushes(p)
    <3>1. ep[p].op = "push" /\ arena'[a].tail = arena[a].tail + 1 /\ arena'[a].q = Append(arena[a].q, ep[p].frame)
      BY <2>4 DEF Pushes
    <3> QED
      BY <1>4, <2>2, <2>3, <3>1
  <2>5. CASE Pops(p)
    <3>1. ep[p].op = "pop" /\ arena'[a].tail = arena[a].tail /\ arena'[a].q = Tail(arena[a].q) /\ arena[a].q # <<>>
      BY <2>5 DEF Pops
    <3> QED
      BY <1>4, <2>1, <3>1
  <2> QED
    BY <2>4, <2>5
<1>6. ASSUME NEW y \in Events
      PROVE  IF y = x THEN CursorAt(y)' = CursorAt(y) + 1 ELSE CursorAt(y)' = CursorAt(y)
  <2>1. CASE y[1] # a
    BY <1>1, <1>3, <2>1, NotifierFacts DEF CursorAt
  <2>2. CASE y[1] = a
    <3>1. y = <<a, "data_ready">> \/ y = <<a, "space_ready">>
      BY <2>2 DEF Events
    <3>2. x = <<a, IF ep[p].op = "pop" THEN "space_ready" ELSE "data_ready">>
      BY DEF Notified
    <3>3. CASE y = <<a, "data_ready">>
      <4>1. CursorAt(y) = arena[a].tail /\ CursorAt(y)' = arena'[a].tail
        BY <3>3 DEF CursorAt
      <4> QED
        BY <1>4, <1>5, <3>2, <3>3, <4>1
    <3>4. CASE y = <<a, "space_ready">>
      <4>1. /\ CursorAt(y) = arena[a].tail - Len(arena[a].q)
            /\ CursorAt(y)' = arena'[a].tail - Len(arena'[a].q)
        BY <3>4 DEF CursorAt
      <4> QED
        <5>1. ep[p].op = "pop" => y = x
          BY <3>2, <3>4
        <5>2. ep[p].op = "push" => y # x
          BY <3>2, <3>4
        <5> HIDE DEF x, a
        <5>3. CASE ep[p].op = "pop"
          BY <1>4, <1>5, <4>1, <5>1, <5>3
        <5>4. CASE ep[p].op = "push"
          BY <1>4, <1>5, <4>1, <5>2, <5>4, SMTT(30)
        <5> QED
          BY <1>5, <5>3, <5>4
    <3> QED
      BY <3>1, <3>3, <3>4
  <2> QED
    BY <2>1, <2>2
<1>7. ASSUME NEW y \in Events PROVE SeqOK(y)'
  <2>1. /\ SeqOK(y) /\ Notifier(y)' = Notifier(y) /\ Notifier(y) \in Processes /\ event'[y] = event[y]
        /\ event[y].sequence \in Nat /\ CursorAt(y) \in Int
    <3>1. \A z \in Events : CursorAt(z) \in Int
      BY NotifierFacts, Types DEF CursorAt
    <3> QED
      BY <1>1, <3>1, NotifierFrame, NotifierFacts, Types DEF WakeInv
  <2>2. CASE y = x
    BY <1>1, <1>2, <1>3, <1>6, <2>1, <2>2 DEF SeqOK, At
  <2>3. CASE y # x /\ Notifier(y) = p
    BY <1>1, <1>6, <2>1, <2>3 DEF SeqOK, At
  <2>4. CASE y # x /\ Notifier(y) = r
    BY <1>1, <1>2, <1>6, <2>1, <2>4 DEF SeqOK, At
  <2> QED
    BY <1>0, <2>1, <2>2, <2>3, <2>4
<1>8. WaitOK(p)'
  BY <1>1 DEF WaitOK, ObservedOK, TokenOK, Roused, At
<1>9. WaitOK(r)'
  <2>1. ObservedOK(r) /\ TokenOK(r) /\ Roused(r)
    BY <1>0 DEF WakeInv, NoLostWakeup, Roused
  <2>2. TokenOK(r)'
    BY <1>0, <1>1, <1>2, <2>1 DEF TokenOK, At
  <2>3. CASE Awaited(r) = x
    <3>1. Roused(r)'
      BY <1>0, <1>1, <1>2, <2>3 DEF Roused, At
    <3>a. PICK y \in Events : y = x
      BY <1>3
    <3>b. CursorAt(y)' = CursorAt(y) + 1
      BY <1>6, <3>a
    <3>2. /\ event[x].sequence \in Nat /\ event[x].sequence <= CursorAt(y)
          /\ CursorAt(y) \in Int /\ ep[r].observed \in Nat
      <4>1. \A z \in Events : CursorAt(z) \in Int
        BY NotifierFacts, Types DEF CursorAt
      <4> QED
        BY <1>0, <3>a, <4>1, Types, Fields DEF WakeInv, SeqOK
    <3>3. CursorAt(Awaited(r))' = CursorAt(y)'
      BY <1>2, <2>3, <3>a DEF CursorAt
    <3>4. ObservedOK(r)'
      BY <1>1, <1>2, <2>1, <2>3, <3>b, <3>2, <3>3 DEF ObservedOK
    <3> QED
      BY <2>2, <3>1, <3>4 DEF WaitOK
  <2>4. CASE Awaited(r) # x
    <3>1. arena'[ArenaOf(r)] = arena[ArenaOf(r)]
      BY <1>1, <1>3, <2>4
    <3>2. Ready(r)' = Ready(r) /\ CursorAt(Awaited(r))' = CursorAt(Awaited(r))
      BY <1>2, <1>3, <3>1 DEF CursorAt
    <3>3. ObservedOK(r)'
      BY <1>1, <1>2, <2>1, <3>2 DEF ObservedOK
    <3>4. Roused(r)'
      BY <1>0, <1>1, <1>2, <2>1, <2>4, <3>2 DEF Roused, At
    <3> QED
      BY <2>2, <3>3, <3>4 DEF WaitOK
  <2> QED
    BY <2>3, <2>4
<1> QED
  BY <1>0, <1>7, <1>8, <1>9 DEF WakeInv, WaitOK, NoLostWakeup, Roused

\* Every step of an endpoint keeps the wake-up invariant of the token back
\* ends.
LEMMA WakeStep ==
  ASSUME StreamType, CallInv, WakeInv, backend = "token", NEW p \in Processes, ep[p].pc # "gone" \/ Depart(p),
         Call(p) \/ Step(p) \/ Deadline(p) \/ Depart(p)
  PROVE  WakeInv'
<1>1. CASE StoreSequence(p) \/ ClaimWaiter(p) \/ Wake(p)
  BY <1>1, WakeNotifier
<1>2. CASE \/ Observe(p) \/ Recheck(p) \/ (Register(p) /\ event[Awaited(p)].waiters = 0)
           \/ Park(p) \/ Woken(p) \/ Expire(p) \/ ClearWaiter(p)
  BY <1>2, WakeWaiter
<1>3. CASE Try(p) /\ Ready(p)
  BY <1>3, TryIs, WakeTakes
<1>4. CASE \/ Try(p) /\ ~Ready(p)
           \/ Peek(p) /\ ~PeerClosed(p)
  <2>1. /\ Moves(p) /\ arena' = arena /\ event' = event /\ ep[p].pc \in {"try", "peek"}
        /\ ep'[p].pc \in {"observe", "try"}
    BY <1>4, TryParks, PeekParks DEF Parking
  <2> QED
    BY <2>1, WakeRest
<1>5. CASE Call(p)
  <2>1. Moves(p) /\ arena' = arena /\ event' = event /\ ep[p].pc = "idle" /\ ep'[p].pc \in {"try", "excess", "write"}
    BY <1>5, CallIs DEF Calls, NextMove, shared
  <2> QED
    BY <2>1, WakeRest
<1>6. CASE Depart(p)
  <2>1. Moves(p) /\ arena' = arena /\ event' = event /\ ep'[p].pc = "gone"
    BY <1>6, DepartIs DEF Departs, shared
  <2> QED
    BY <2>1, WakeRest
<1>7. CASE Deadline(p) \/ (Register(p) /\ event[Awaited(p)].waiters # 0) \/ (Peek(p) /\ PeerClosed(p))
  <2>1. ep[p].pc \in {"recheck", "register", "peek"} /\ Return(p, "error")
    BY <1>7 DEF Deadline, Register, Peek, At
  <2>2. InCall(p)
    BY <2>1 DEF InCall
  <2>3. Moves(p) /\ arena' = arena /\ event' = event /\ ep'[p].pc = "idle"
    BY <2>1, <2>2, ReturnIs, IdleIs DEF Returning, shared
  <2> QED
    BY <2>1, <2>3, WakeRest
<1>8. CASE \/ ProbeEnd(p) \/ WriteSlot(p) \/ ReadSource(p) \/ Pushed(p) \/ Released(p) \/ Received(p) \/ WriteAll(p)
  <2>1. ep[p].pc \in {"excess", "write", "read", "notified", "sink"}
    BY <1>8 DEF ProbeEnd, WriteSlot, ReadSource, Pushed, Released, Received, WriteAll, At
  <2>2. \/ Returning(p, "error") \/ Returning(p, "ok") \/ Eofs(p) \/ WritesSlot(p)
        \/ (\E len \in Nat \ {0} : Reads(p, len))
        \/ (GoesOn(p) /\ NextMove(ep[p], ep'[p])) \/ Turns(p) \/ Counts(p)
        \/ Echoes(p) \/ Sinks(p) \/ Writes(p)
    BY <1>8, ProbeIs, WriteSlotIs, ReadIs, PushedIs, ReleasedIs, ReceivedIs, WriteAllIs
  <2>3. Moves(p) /\ arena' = arena /\ event' = event
        /\ ep'[p].pc \in {"idle", "try", "excess", "write", "read", "sink"}
    <3>1. CASE Returning(p, "error") \/ Returning(p, "ok")
      BY <3>1, IdleIs DEF Returning, shared
    <3>2. CASE Eofs(p) \/ Counts(p) \/ (GoesOn(p) /\ NextMove(ep[p], ep'[p]))
      BY <3>2 DEF Eofs, Counts, GoesOn, NextMove, shared
    <3>3. CASE WritesSlot(p) \/ (\E len \in Nat \ {0} : Reads(p, len))
      BY <3>3 DEF WritesSlot, Reads
    <3>4. CASE Turns(p) \/ Echoes(p) \/ Sinks(p) \/ Writes(p)
      BY <3>4 DEF Turns, Echoes, Sinks, Writes, shared
    <3> QED
      BY <2>2, <3>1, <3>2, <3>3, <3>4
  <2> QED
    BY <2>1, <2>3, WakeRest
<1> QED
  BY <1>1, <1>2, <1>3, <1>4, <1>5, <1>6, <1>7, <1>8 DEF Step

\* An endpoint that takes a step is not gone, unless it is dropped again.
LEMMA NotGone ==
  ASSUME NEW p \in Processes, Call(p) \/ Step(p) \/ Deadline(p)
  PROVE  ep[p].pc # "gone"
  BY DEF Call, Deadline, Step, ProbeEnd, WriteSlot, ReadSource, Try,
       StoreSequence, ClaimWaiter, Wake, Observe, Recheck, Register, Park, Woken, Expire, ClearWaiter,
       Peek, Pushed, Released, Received, WriteAll, At

-----------------------------------------------------------------------------
\* A step that leaves the stream as it is.
LEMMA StillBase ==
  ASSUME StreamType, CallInv, UNCHANGED still, shut' \in BOOLEAN
  PROVE  StreamType' /\ CallInv'
<1>1. StreamType'
  BY DEF still, StreamType, Slots
<1>2. CallInv'
  BY DEF still, CallInv, InCall, Round, At, Producer, Consumer, Slots
<1> QED
  BY <1>1, <1>2

\* A step of the set-up keeps WakeInv.
LEMMA StillWake ==
  ASSUME WakeInv, UNCHANGED still
  PROVE  WakeInv'
<1>1. \A x \in Events : SeqOK(x)'
  BY DEF still, WakeInv, SeqOK, CursorAt, Notifier, Producer, Consumer, At, Notified, ArenaOf
<1>2. \A p \in Processes : /\ Awaited(p)' = Awaited(p) /\ Notified(p)' = Notified(p)
                           /\ Ready(p)' = Ready(p) /\ CursorAt(Awaited(p))' = CursorAt(Awaited(p))
                           /\ event' = event /\ ep' = ep
  BY DEF still, Awaited, Notified, ArenaOf, Ready, CursorAt, DescriptorCapacity, Slots, Producer
<1>3. \A p \in Processes : ObservedOK(p)' /\ TokenOK(p)'
  BY <1>2, Ends DEF WakeInv, ObservedOK, TokenOK, At
<1>4. NoLostWakeup'
  BY <1>2, Ends DEF WakeInv, NoLostWakeup, At
<1> QED
  BY <1>1, <1>3, <1>4 DEF WakeInv

\* The initial states have their types.
LEMMA StreamInitBase == Init => StreamType /\ CallInv
<1> SUFFICES ASSUME Init PROVE StreamType /\ CallInv
  OBVIOUS
<1>1. /\ shape \in Shapes /\ flow \in ActiveFlows /\ backend \in Backends
      /\ slot = [s \in 0 .. Slots - 1 |-> Torn]
      /\ ep = [p \in Processes |-> Idle] /\ shut = FALSE
      /\ source = <<>> /\ sink = <<>> /\ outcome = [p \in Processes |-> <<>>]
  BY DEF Init, StreamInit
<1>2. arena = [a \in Arenas |-> [tail |-> 0, q |-> <<>>]]
  BY DEF Init, StreamInit, Arenas
<1>3. event = [x \in Events |-> [sequence |-> 0, waiters |-> 0, pending |-> FALSE]]
  BY DEF Init, StreamInit, Arenas, Events
<1>4. [tail |-> 0, q |-> <<>>] \in Ring /\ [sequence |-> 0, waiters |-> 0, pending |-> FALSE] \in Signal
  BY DEF Ring, Signal
<1>5. Torn \in Bytes
  BY DEF Torn, Bytes
<1>6. /\ arena \in [Arenas -> Ring] /\ event \in [Events -> Signal] /\ slot \in [0 .. Slots - 1 -> Bytes]
      /\ ep \in [Processes -> Endpoint] /\ \A a \in Arenas : Len(arena[a].q) <= arena[a].tail
  BY <1>1, <1>2, <1>3, <1>4, <1>5, IdleIs
<1>7. /\ source \in Seq(Nat) /\ sink \in Seq(Seq(Bytes)) /\ outcome \in [Processes -> Seq({"ok", "error"})]
      /\ Len(source) = 0 /\ Len(sink) = 0 /\ \A p \in Processes : outcome[p] = <<>> /\ Len(outcome[p]) = 0
  BY <1>1
<1>8. StreamType
  BY <1>1, <1>6, <1>7 DEF StreamType
<1>9. \A p \in Processes : ep[p].pc = "idle" /\ DOMAIN outcome[p] = {}
  BY <1>1, <1>7, IdleIs
<1> QED
  BY <1>7, <1>8, <1>9, Ends DEF CallInv, InCall, At

\* An endpoint that has not retried a failed call has not failed before the
\* call it is in.
LEMMA OutcomesAre ==
  ASSUME StreamType, CallInv, NEW p \in Processes, Unretried(p)
  PROVE  OutcomesOK(p)
<1>1. outcome[p] \in Seq({"ok", "error"}) /\ Len(outcome[p]) \in Nat /\ DOMAIN outcome[p] = 1 .. Len(outcome[p])
      /\ \A i \in DOMAIN outcome[p] : outcome[p][i] \in {"ok", "error"}
  BY DEF StreamType
<1>2. Len(outcome[p]) <= Began(p) /\ (InCall(p) => Began(p) = Len(outcome[p]) + 1)
  BY Ends DEF CallInv, Began, Round
<1> QED
  BY <1>1, <1>2 DEF OutcomesOK, Unretried, AllOk

\* A step of p records a call that begins, a call that ends, or neither.
LEMMA EffectRecords ==
  ASSUME StreamType, NEW p \in Processes, Effect(p)
  PROVE  /\ Moves(p)
         /\ \/ Calls(p)
            \/ \E why \in {"ok", "error"} :
                 outcome' = [outcome EXCEPT ![p] = Append(@, why)] /\ source' = source /\ sink' = sink
            \/ outcome' = outcome /\ source' = source /\ Len(sink') = Len(sink)
<1>1. CASE Writes(p)
  BY <1>1 DEF Writes, StreamType
<1>2. CASE Returning(p, "ok") \/ Returning(p, "error")
  BY <1>2 DEF Returning
<1>3. CASE Calls(p)
  BY <1>3 DEF Calls
<1>4. CASE Parking(p) \/ Pushes(p) \/ Pops(p) \/ Departs(p)
  BY <1>4 DEF Parking, Pushes, Pops, Departs
<1>5. CASE Eofs(p) \/ Resumes(p) \/ Counts(p)
  BY <1>5 DEF Eofs, Resumes, Counts, GoesOn
<1>6. CASE WritesSlot(p) \/ \E len \in Nat \ {0} : Reads(p, len)
  BY <1>6 DEF WritesSlot, Reads
<1>7. CASE Turns(p) \/ Echoes(p) \/ Sinks(p)
  BY <1>7 DEF Turns, Echoes, Sinks
<1> QED
  BY <1>1, <1>2, <1>3, <1>4, <1>5, <1>6, <1>7 DEF Effect, Finishes, Confirms

\* No step takes a retry back, and an endpoint that calls without retrying
\* has not failed.
LEMMA RetriesStay ==
  ASSUME StreamType, CallInv, NEW p \in Processes, Effect(p), NEW r \in Processes, Unretried(r)'
  PROVE  Unretried(r) /\ (r = p /\ Calls(p) => AllOk(p))
<1>1. /\ \A e \in Processes : outcome[e] \in Seq({"ok", "error"}) /\ Len(outcome[e]) \in Nat
                              /\ DOMAIN outcome[e] = 1 .. Len(outcome[e])
      /\ \A i \in DOMAIN outcome[r] : outcome[r][i] \in {"ok", "error"}
      /\ outcome \in [Processes -> Seq({"ok", "error"})]
      /\ source \in Seq(Nat) /\ sink \in Seq(Seq(Bytes)) /\ Len(source) \in Nat /\ Len(sink) \in Nat
  BY DEF StreamType
<1>2. Producer' = Producer /\ Consumer' = Consumer /\ Moves(p)
  BY EffectRecords, Frames
<1>3. CASE Calls(p)
  <2>1. outcome' = outcome /\ (r # p => Began(r)' = Began(r))
    BY <1>2, <1>3, Ends DEF Calls, Began
  <2>2. CASE r = p
    <3>1. Began(p) = Len(outcome[p])
      BY <1>3, <2>2, Ends DEF Calls, CallInv, Began, At
    <3>2. Began(p)' = Began(p) + 1
      BY <1>1, <1>2, <1>3, <2>2, Ends DEF Calls, Began
    <3> QED
      BY <1>1, <2>1, <2>2, <3>1, <3>2 DEF Unretried, AllOk
  <2> QED
    BY <2>1, <2>2 DEF Unretried
<1>4. ASSUME NEW why \in {"ok", "error"}, source' = source, sink' = sink,
             outcome' = [outcome EXCEPT ![p] = Append(@, why)], ~Calls(p)
      PROVE  Unretried(r)
  <2>1. Began(r)' = Began(r)
    BY <1>2, <1>4 DEF Began
  <2>2. \A i \in DOMAIN outcome[r] : i \in DOMAIN outcome'[r] /\ outcome'[r][i] = outcome[r][i]
    BY <1>1, <1>4
  <2> QED
    BY <2>1, <2>2 DEF Unretried
<1>5. CASE outcome' = outcome /\ source' = source /\ Len(sink') = Len(sink)
  <2>1. Began(r)' = Began(r)
    BY <1>2, <1>5 DEF Began
  <2> QED
    BY <1>3, <1>5, <2>1 DEF Unretried
<1> QED
  BY <1>3, <1>4, <1>5, EffectRecords

\* A step of the set-up retries nothing.
LEMMA StillRetries ==
  ASSUME UNCHANGED still, NEW r \in Processes
  PROVE  Unretried(r)' = Unretried(r)
  BY DEF still, Unretried, Began, Producer

\* Every step keeps the types.
LEMMA BaseNext == StreamType /\ CallInv /\ [Next]_vars => StreamType' /\ CallInv'
  BY StreamSteps, StepEffect, TypeEffect, CallEffect, StillBase

\* With token events (the macOS FIFO and the Windows event object), an
\* endpoint asleep on a ready ring has its wake-up in hand or coming: for
\* every shape, every pair of calls and every point at which a process fails.
THEOREM WakeCorrect == Spec => [](backend = "token" => NoLostWakeup)
<1> DEFINE Inv == StreamType /\ CallInv /\ (backend = "token" => WakeInv)
<1>1. Init => Inv
  BY StreamInitBase, WakeInit
<1>2. Inv /\ [Next]_vars => Inv'
  <2> SUFFICES ASSUME Inv, [Next]_vars PROVE Inv'
    OBVIOUS
  <2>2. CASE \E p \in Processes : Call(p) \/ Step(p) \/ Deadline(p) \/ Depart(p)
    <3>1. PICK p \in Processes : Call(p) \/ Step(p) \/ Deadline(p) \/ Depart(p)
      BY <2>2
    <3>2. Moves(p)
      BY <3>1, StepEffect DEF Effect, Parking, Returning, Finishes, Confirms, Pushes, Pops, Calls, Departs,
         Eofs, GoesOn, WritesSlot, Reads, Resumes, Counts, Turns, Echoes, Sinks, Writes
    <3>3. backend' = backend
      BY <3>2 DEF Moves
    <3>4. backend = "token" => WakeInv'
      BY <3>1, WakeStep, NotGone
    <3> QED
      BY <3>3, <3>4, BaseNext
  <2>3. CASE UNCHANGED still /\ shut' \in BOOLEAN
    BY <2>3, StillBase, StillWake DEF still
  <2> QED
    BY <2>2, <2>3, StreamSteps
<1>3. Inv => (backend = "token" => NoLostWakeup)
  BY DEF WakeInv
<1> QED
  BY <1>1, <1>2, <1>3, PTL DEF Spec

-----------------------------------------------------------------------------
(* Slots in flight.                                                        *)

\* The counts are numbers.
LEMMA FlightTypes ==
  ASSUME StreamType
  PROVE  /\ Len(arena["data"].q) \in Nat /\ Len(arena["releases"].q) \in Nat
         /\ arena["data"].q \in Seq(Frame) /\ arena["releases"].q \in Seq(Frame)
         /\ PushedFrames \in Int /\ InFlight \in Nat
         /\ ep[Producer].chunks \in Nat /\ ep[Producer].released \in Nat
         /\ ep[Producer] \in Endpoint /\ ep[Consumer] \in Endpoint
         /\ ep[Producer].completed \in BOOLEAN
         /\ One(Answered) \in {0, 1} /\ One(Holding) \in {0, 1} /\ One(Pushing) \in {0, 1}
         /\ One(ep[Producer].completed) \in {0, 1}
<1>2. /\ Len(arena["data"].q) \in Nat /\ Len(arena["releases"].q) \in Nat
      /\ arena["data"].q \in Seq(Frame) /\ arena["releases"].q \in Seq(Frame)
  BY Types DEF Arenas
<1>3. /\ ep[Producer].chunks \in Nat /\ ep[Producer].released \in Nat
      /\ ep[Producer] \in Endpoint /\ ep[Consumer] \in Endpoint
      /\ ep[Producer].completed \in BOOLEAN
  BY Types, Ends, Fields
<1>4. /\ One(Answered) \in {0, 1} /\ One(Holding) \in {0, 1} /\ One(Pushing) \in {0, 1}
      /\ One(ep[Producer].completed) \in {0, 1}
  BY DEF One
<1>5. PushedFrames \in Int
  BY <1>3, <1>4 DEF PushedFrames
<1>6. InFlight \in Nat
  <2>1. \A a, b \in {0, 1}, m, n \in Nat : a + m + b + n \in Nat
    OBVIOUS
  <2> QED
    BY <1>2, <1>4, <2>1 DEF InFlight
<1> QED
  BY <1>2, <1>3, <1>4, <1>5, <1>6

\* Between the calls of the producer only.
LEMMA FinishedIs ==
  ASSUME StreamType, CallInv, Finished
  PROVE  ~InCall(Producer)
  BY Types, Ends DEF CallInv, Finished, Round

\* A step of the consumer that passes no frame.
LEMMA ConsumerCustody ==
  ASSUME StreamType, CallInv, CustodyInv, Moves(Consumer), arena' = arena, source' = source,
         outcome'[Producer] = outcome[Producer],
         Holding' => Holding,
         Holding' /\ ep'[Consumer].op = "pop" /\ ep'[Consumer].frame.kind = "Data" =>
           ep'[Consumer].frame = ep[Consumer].frame /\ ep[Consumer].op = "pop"
  PROVE  CustodyInv'
<1>1. /\ Producer' = Producer /\ Consumer' = Consumer /\ Slots' = Slots /\ Chunks' = Chunks
      /\ \A c : SlotOf(c)' = SlotOf(c)
  BY Frames
<1>2. ep'[Producer] = ep[Producer]
  BY Ends DEF Moves
<1>3. /\ InCall(Producer)' = InCall(Producer) /\ Answered' = Answered /\ Pushing' = Pushing
      /\ PushedFrames' = PushedFrames /\ Finished' = Finished /\ AtEnd(ep[Producer])' = AtEnd(ep[Producer])
  BY <1>1, <1>2 DEF InCall, Answered, Pushing, PushedFrames, One, Finished, AllOk, AtEnd
<1>4. InFlight' <= InFlight /\ InFlight' \in Nat
  <2>1. One(Answered)' = One(Answered) /\ One(Holding)' <= One(Holding) /\ One(Holding)' \in {0, 1}
    BY <1>3 DEF One
  <2>2. \A a, b, c \in {0, 1}, m, n \in Nat : c <= b => a + m + c + n <= a + m + b + n /\ a + m + c + n \in Nat
    OBVIOUS
  <2>3. /\ One(Answered) \in {0, 1} /\ One(Holding) \in {0, 1}
        /\ Len(arena["releases"].q) \in Nat /\ Len(arena["data"].q) \in Nat
    BY FlightTypes
  <2>4. InFlight' = One(Answered) + Len(arena["releases"].q) + One(Holding)' + Len(arena["data"].q)
    BY <2>1 DEF InFlight
  <2> QED
    BY <2>1, <2>2, <2>3, <2>4, ZenonT(60) DEF InFlight
<1>5. FlightOK'
  <2>1. InCall(Producer) => ep[Producer].released + InFlight' <= PushedFrames
    BY <1>4, FlightTypes, SMTT(30) DEF CustodyInv, FlightOK
  <2> QED
    BY <1>1, <1>2, <1>3, <2>1, SMTT(30) DEF CustodyInv, FlightOK
<1>6. SlotsOK'
  BY <1>1, <1>2, <1>3 DEF CustodyInv, SlotsOK
<1>7. QuietOK'
  BY <1>3 DEF CustodyInv, QuietOK
<1> QED
  BY <1>5, <1>6, <1>7 DEF CustodyInv

\* The consumer answers a frame.
LEMMA ConsumerPushes ==
  ASSUME StreamType, CallInv, CustodyInv, Pushes(Consumer)
  PROVE  CustodyInv'
<1>1. /\ Producer' = Producer /\ Consumer' = Consumer /\ Slots' = Slots /\ Chunks' = Chunks
      /\ \A c : SlotOf(c)' = SlotOf(c)
  BY Frames DEF Pushes
<1>2. ep'[Producer] = ep[Producer]
  BY Ends DEF Moves, Pushes
<1>3. /\ InCall(Producer)' = InCall(Producer) /\ Answered' = Answered /\ Pushing' = Pushing
      /\ PushedFrames' = PushedFrames /\ Finished' = Finished /\ AtEnd(ep[Producer])' = AtEnd(ep[Producer])
  BY <1>1, <1>2 DEF InCall, Answered, Pushing, PushedFrames, One, Finished, AllOk, AtEnd, Pushes
<1>4. Holding /\ ~Holding'
  BY <1>1 DEF Pushes, SameBody, Holding, Waiting, Done
<1>5. arena'["data"] = arena["data"] /\ Len(arena'["releases"].q) = Len(arena["releases"].q) + 1
  <2>1. ArenaOf(Consumer) = "releases"
    BY Ends DEF ArenaOf, Pushes
  <2>2. ep[Consumer].frame \in Frame
    BY FlightTypes, Fields
  <2> QED
    BY <2>1, <2>2, FlightTypes, SMTT(30) DEF Pushes, Arenas
<1>6. InFlight' = InFlight
  <2>1. One(Answered)' = One(Answered) /\ One(Holding)' = 0 /\ One(Holding) = 1
    BY <1>3, <1>4 DEF One
  <2> QED
    BY <1>5, <2>1, FlightTypes DEF InFlight
<1>7. FlightOK'
  BY <1>1, <1>2, <1>3, <1>6, FlightTypes, ShapeFacts DEF CustodyInv, FlightOK
<1>8. SlotsOK'
  BY <1>1, <1>2, <1>3, <1>4, <1>5 DEF CustodyInv, SlotsOK
<1>9. QuietOK'
  BY <1>3, <1>4 DEF CustodyInv, QuietOK
<1> QED
  BY <1>7, <1>8, <1>9 DEF CustodyInv

\* The consumer takes a frame.
LEMMA ConsumerPops ==
  ASSUME StreamType, CallInv, CustodyInv, Pops(Consumer)
  PROVE  CustodyInv'
<1> DEFINE q == arena["data"].q
<1>1. /\ Producer' = Producer /\ Consumer' = Consumer /\ Slots' = Slots /\ Chunks' = Chunks
      /\ \A c : SlotOf(c)' = SlotOf(c)
  BY Frames DEF Pops
<1>2. ep'[Producer] = ep[Producer]
  BY Ends DEF Moves, Pops
<1>3. /\ InCall(Producer)' = InCall(Producer) /\ Answered' = Answered /\ Pushing' = Pushing
      /\ PushedFrames' = PushedFrames /\ Finished' = Finished /\ AtEnd(ep[Producer])' = AtEnd(ep[Producer])
  BY <1>1, <1>2 DEF InCall, Answered, Pushing, PushedFrames, One, Finished, AllOk, AtEnd, Pops
<1>4. ~Holding /\ Holding'
  BY <1>1 DEF Pops, SameBody, Holding, Waiting, Done
<1>5. /\ arena'["releases"] = arena["releases"] /\ q # <<>> /\ q \in Seq(Frame)
      /\ arena'["data"].q = Tail(q) /\ ep'[Consumer].frame = Head(q)
  <2>1. ArenaOf(Consumer) = "data"
    BY Ends DEF ArenaOf, Pops
  <2> QED
    BY <2>1, FlightTypes DEF Pops, Arenas
<1>6. /\ Len(Tail(q)) = Len(q) - 1 /\ Head(q) = q[1] /\ Len(q) \in Nat /\ Len(q) >= 1
      /\ \A i \in 1 .. Len(q) - 1 : Tail(q)[i] = q[i + 1]
      /\ DOMAIN Tail(q) = 1 .. Len(q) - 1 /\ DOMAIN q = 1 .. Len(q)
  BY <1>5
<1>7. InFlight' = InFlight
  <2>1. One(Answered)' = One(Answered) /\ One(Holding)' = 1 /\ One(Holding) = 0
    BY <1>3, <1>4 DEF One
  <2>2. Len(arena'["data"].q) = Len(q) - 1
    BY <1>5, <1>6
  <2>3. \A a \in {0, 1}, m, n \in Nat : a + m + 1 + (n - 1) = a + m + 0 + n
    OBVIOUS
  <2>4. One(Answered) \in {0, 1} /\ Len(arena["releases"].q) \in Nat /\ Len(q) \in Nat
    BY FlightTypes
  <2>5. InFlight' = One(Answered) + Len(arena["releases"].q) + 1 + (Len(q) - 1)
    BY <1>5, <2>1, <2>2 DEF InFlight
  <2>6. InFlight = One(Answered) + Len(arena["releases"].q) + 0 + Len(q)
    BY <2>1 DEF InFlight
  <2> QED
    BY <2>3, <2>4, <2>5, <2>6
<1>8. FlightOK'
  BY <1>1, <1>2, <1>3, <1>7, FlightTypes, ShapeFacts DEF CustodyInv, FlightOK
<1>9. SlotsOK'
  <2> SUFFICES ASSUME InCall(Producer) PROVE SlotsOK'
    BY <1>3 DEF SlotsOK
  <2>1. PushedFrames \in Int
    BY FlightTypes
  <2>2. \A i \in 1 .. Len(q) : q[i].kind = "Data" => q[i].slot = SlotOf(PushedFrames - Len(q) + i - 1)
    BY <1>6 DEF CustodyInv, SlotsOK
  <2>3. ASSUME NEW i \in 1 .. Len(q) - 1, Tail(q)[i].kind = "Data"
        PROVE  Tail(q)[i].slot = SlotOf(PushedFrames - Len(Tail(q)) + i - 1)
    <3>1. Tail(q)[i] = q[i + 1] /\ i + 1 \in 1 .. Len(q)
      BY <1>6
    <3>2. PushedFrames - Len(q) + (i + 1) - 1 = PushedFrames - Len(Tail(q)) + i - 1
      <4>1. \A a \in Int, m \in Nat, k \in Int : a - m + (k + 1) - 1 = a - (m - 1) + k - 1
        OBVIOUS
      <4>2. i \in Int /\ Len(Tail(q)) = Len(q) - 1 /\ Len(q) \in Nat
        BY <1>6
      <4> QED
        BY <2>1, <4>1, <4>2
    <3> QED
      BY <2>2, <2>3, <3>1, <3>2
  <2>4. Head(q).kind = "Data" => Head(q).slot = SlotOf(PushedFrames - Len(Tail(q)) - 1)
    <3>1. PushedFrames - Len(q) + 1 - 1 = PushedFrames - Len(Tail(q)) - 1
      <4>1. \A a \in Int, m \in Nat : a - m + 1 - 1 = a - (m - 1) - 1
        OBVIOUS
      <4> QED
        BY <1>6, <2>1, <4>1
    <3> QED
      BY <1>6, <2>2, <3>1
  <2> QED
    BY <1>1, <1>2, <1>3, <1>5, <1>6, <2>3, <2>4 DEF CustodyInv, SlotsOK
<1>10. QuietOK'
  BY <1>3, <1>5 DEF CustodyInv, QuietOK
<1> QED
  BY <1>8, <1>9, <1>10 DEF CustodyInv

\* What a step of the producer leaves alone.
LEMMA ProducerFrame ==
  ASSUME StreamType, Moves(Producer)
  PROVE  /\ Producer' = Producer /\ Consumer' = Consumer /\ Slots' = Slots /\ Chunks' = Chunks
         /\ \A c : SlotOf(c)' = SlotOf(c)
         /\ ep'[Consumer] = ep[Consumer] /\ Holding' = Holding /\ ep'[Producer] \in Endpoint
<1>1. /\ Producer' = Producer /\ Consumer' = Consumer /\ Slots' = Slots /\ Chunks' = Chunks
      /\ \A c : SlotOf(c)' = SlotOf(c)
  BY Frames
<1>2. ep'[Consumer] = ep[Consumer] /\ ep'[Producer] \in Endpoint
  BY Ends DEF Moves
<1> QED
  BY <1>1, <1>2 DEF Holding

\* A step of the producer that passes no frame and stays in its loop.
LEMMA ProducerCustody ==
  ASSUME StreamType, CallInv, CustodyInv, Moves(Producer), SameBody(Producer), arena' = arena,
         source' = source, outcome' = outcome,
         \/ ep'[Producer].frame = ep[Producer].frame /\ ep[Producer].pc \in Waiting /\ ep'[Producer].pc \in Waiting
         \/ ep'[Producer].frame = ep[Producer].frame /\ ep[Producer].pc \in Done /\ ep'[Producer].pc \in Done
         \/ ep[Producer].pc = "write" /\ ep'[Producer].pc = "read"
  PROVE  CustodyInv'
<1>1. /\ Producer' = Producer /\ Consumer' = Consumer /\ Slots' = Slots /\ Chunks' = Chunks
      /\ \A c : SlotOf(c)' = SlotOf(c) /\ ep'[Consumer] = ep[Consumer] /\ Holding' = Holding
  BY ProducerFrame
<1>2. InCall(Producer)' /\ InCall(Producer) /\ Answered' = Answered /\ Pushing' = Pushing
  BY <1>1 DEF InCall, Answered, Pushing, SameBody, Waiting, Done
<1>3. /\ PushedFrames' = PushedFrames /\ Finished' = Finished /\ AtEnd(ep[Producer])' = AtEnd(ep[Producer])
      /\ InFlight' = InFlight
  <2>1. /\ One(Pushing)' = One(Pushing) /\ One(Answered)' = One(Answered) /\ One(Holding)' = One(Holding)
        /\ One(ep[Producer].completed)' = One(ep[Producer].completed)
    BY <1>1, <1>2 DEF One, SameBody
  <2>2. PushedFrames' = PushedFrames /\ InFlight' = InFlight
    BY <1>1, <2>1 DEF PushedFrames, InFlight, SameBody
  <2>3. Finished' = Finished /\ AtEnd(ep[Producer])' = AtEnd(ep[Producer])
    BY <1>1 DEF Finished, AllOk, AtEnd, SameBody
  <2> QED
    BY <2>2, <2>3
<1>4. ep'[Producer].pc \in {"excess", "write", "read"} => ep[Producer].pc = "write"
  BY DEF Waiting, Done
<1>5. FlightOK'
  BY <1>1, <1>2, <1>3, <1>4 DEF CustodyInv, FlightOK, SameBody
<1>6. Pushing => ep'[Producer].frame = ep[Producer].frame
  BY DEF Pushing, Waiting
<1>7. SlotsOK'
  BY <1>1, <1>2, <1>3, <1>6 DEF CustodyInv, SlotsOK, SameBody
<1>8. QuietOK'
  BY <1>1, <1>3 DEF CustodyInv, QuietOK
<1> QED
  BY <1>5, <1>7, <1>8 DEF CustodyInv

\* A producer that leaves its call: with Ok, after its echo came back.
LEMMA ProducerLeaves ==
  ASSUME StreamType, CallInv, CustodyInv, Moves(Producer), arena' = arena, source' = source,
         ~InCall(Producer)',
         Finished' => Finished \/ (Answered /\ ep[Producer].completed)
  PROVE  CustodyInv'
<1>1. FlightOK' /\ SlotsOK'
  BY DEF FlightOK, SlotsOK
<1>2. Holding' = Holding
  BY ProducerFrame
<1>3. CASE Finished' /\ Answered /\ ep[Producer].completed
  <2>1. InCall(Producer) /\ ~Pushing
    BY <1>3 DEF InCall, Answered, Pushing, Done
  <2>2. One(Answered) = 1 /\ One(Pushing) = 0 /\ One(ep[Producer].completed) = 1
    BY <1>3, <2>1 DEF One
  <2>3. ep[Producer].released + InFlight <= PushedFrames /\ ep[Producer].released = ep[Producer].chunks
    BY <1>3, <2>1 DEF CustodyInv, FlightOK
  <2>4. PushedFrames = ep[Producer].chunks + 1 - 0
    BY <2>2 DEF PushedFrames
  <2>5. InFlight = 1 + Len(arena["releases"].q) + One(Holding) + Len(arena["data"].q)
    BY <2>2 DEF InFlight
  <2> DEFINE c == ep[Producer].chunks
             m == Len(arena["releases"].q)
             n == Len(arena["data"].q)
             b == One(Holding)
  <2>6. m \in Nat /\ n \in Nat /\ b \in {0, 1} /\ c \in Nat /\ c + (1 + m + b + n) <= c + 1 - 0
    BY <2>3, <2>4, <2>5, FlightTypes
  <2>7. m = 0 /\ b = 0 /\ n = 0
    <3> HIDE DEF c, m, n, b
    <3> QED
      BY <2>6
  <2>8. ~Holding
    BY <2>7 DEF One
  <2>9. arena["releases"].q = <<>> /\ arena["data"].q = <<>>
    BY <2>7, FlightTypes
  <2> QED
    BY <1>1, <1>2, <2>8, <2>9 DEF CustodyInv, QuietOK
<1>4. CASE ~Finished' \/ Finished
  BY <1>1, <1>2, <1>4 DEF CustodyInv, QuietOK
<1> QED
  BY <1>3, <1>4

\* The producer turns to its next move.
LEMMA NextCustody ==
  ASSUME StreamType, Moves(Producer), arena' = arena, NEW e \in Endpoint, NextMove(e, ep'[Producer]),
         ~Finished',
         NEW k \in Int, k = e.chunks + One(e.completed), NEW n \in Nat,
         n = Len(arena["releases"].q) + One(Holding) + Len(arena["data"].q),
         e.released + n <= k,
         e.chunks <= e.released + Slots,
         e.completed => AtEnd(e) /\ e.released = e.chunks,
         \A i \in DOMAIN arena["data"].q : arena["data"].q[i].kind = "Data" =>
           arena["data"].q[i].slot = SlotOf(k - Len(arena["data"].q) + i - 1),
         Holding /\ ep[Consumer].op = "pop" /\ ep[Consumer].frame.kind = "Data" =>
           ep[Consumer].frame.slot = SlotOf(k - Len(arena["data"].q) - 1)
  PROVE  CustodyInv'
<1> DEFINE y == ep'[Producer]
<1>1. /\ Producer' = Producer /\ Consumer' = Consumer /\ Slots' = Slots /\ Chunks' = Chunks
      /\ \A c : SlotOf(c)' = SlotOf(c) /\ ep'[Consumer] = ep[Consumer] /\ Holding' = Holding
  BY ProducerFrame
<1>2. /\ e.chunks \in Nat /\ e.released \in Nat /\ e.completed \in BOOLEAN /\ One(e.completed) \in {0, 1}
      /\ Slots \in Nat \ {0}
  BY Fields, ShapeFacts DEF One
<1>4. InFlight' = n
  <2>1. ~Answered' /\ One(Answered)' = 0
    BY <1>1 DEF NextMove, Answered, Done, One
  <2>2. One(Holding)' = One(Holding)
    BY <1>1 DEF One
  <2>3. InFlight' = 0 + Len(arena["releases"].q) + One(Holding) + Len(arena["data"].q)
    BY <2>1, <2>2 DEF InFlight
  <2>4. \A a, b, c \in Nat : 0 + a + b + c = a + b + c
    OBVIOUS
  <2>5. One(Holding) \in Nat /\ Len(arena["releases"].q) \in Nat /\ Len(arena["data"].q) \in Nat
    BY FlightTypes
  <2> QED
    BY <2>3, <2>4, <2>5
<1>5. PushedFrames' = k
  <2>1. CASE y.pc = "try" /\ y.op = "push"
    <3>1. y.completed = TRUE /\ e.completed = FALSE /\ y.chunks = e.chunks
      BY <2>1 DEF NextMove
    <3>2. Pushing'
      BY <1>1, <2>1 DEF Pushing, Waiting
    <3>3. One(Pushing)' = 1 /\ One(ep[Producer].completed)' = 1 /\ One(e.completed) = 0
      BY <1>1, <3>1, <3>2 DEF One
    <3>4. PushedFrames' = e.chunks + 1 - 1
      BY <1>1, <3>1, <3>3 DEF PushedFrames
    <3> QED
      BY <1>2, <3>3, <3>4
  <2>2. CASE ~ (y.pc = "try" /\ y.op = "push")
    <3>1. y.completed = e.completed /\ y.chunks = e.chunks
      BY <2>2 DEF NextMove
    <3>2. ~Pushing'
      BY <1>1, <2>2 DEF Pushing, Waiting, NextMove
    <3>3. One(Pushing)' = 0 /\ One(ep[Producer].completed)' = One(e.completed)
      BY <1>1, <3>1, <3>2 DEF One
    <3>4. PushedFrames' = e.chunks + One(e.completed) - 0
      BY <1>1, <3>1, <3>3 DEF PushedFrames
    <3> QED
      BY <1>2, <3>4
  <2> QED
    BY <2>1, <2>2
<1>6. AtEnd(ep[Producer])' = AtEnd(e)
  BY <1>1 DEF AtEnd, NextMove
<1>7. FlightOK'
  <2>1. y.released + InFlight' <= PushedFrames'
    BY <1>4, <1>5 DEF NextMove
  <2>2. y.chunks <= y.released + Slots
    BY DEF NextMove
  <2>3. y.pc \in {"excess", "write", "read"} => ~y.completed /\ ~AtEnd(e)
    BY DEF NextMove
  <2>4. y.pc \in {"write", "read"} => y.chunks < y.released + Slots
    BY <1>2, SMTT(30) DEF NextMove
  <2>5. y.completed => AtEnd(e) /\ y.released = y.chunks
    <3>1. CASE e.completed
      BY <3>1 DEF NextMove
    <3>2. CASE ~e.completed /\ y.completed
      <4>1. AtEnd(e) /\ ~ (e.released < e.chunks) /\ y.released = e.released /\ y.chunks = e.chunks
        BY <3>2 DEF NextMove
      <4>2. One(e.completed) = 0
        BY <3>2 DEF One
      <4>3. e.released + n <= e.chunks + 0
        BY <4>2
      <4> QED
        BY <1>2, <4>1, <4>3
    <3> QED
      BY <3>1, <3>2
  <2> QED
    BY <1>1, <1>6, <2>1, <2>2, <2>3, <2>4, <2>5 DEF FlightOK
<1>8. SlotsOK'
  <2>1. Pushing' => y.frame.kind = "Complete"
    <3> SUFFICES ASSUME Pushing' PROVE y.frame.kind = "Complete"
      OBVIOUS
    <3>1. y.op = "push" /\ y.pc \in Waiting
      BY <1>1 DEF Pushing
    <3>2. y.frame = Complete(FinalTotal(e), e.aggregate)
      BY <3>1 DEF NextMove, Waiting
    <3> QED
      BY <3>2 DEF Complete
  <2>2. Pushing' => ~ (y.frame.kind = "Data")
    BY <2>1
  <2>3. \A i \in DOMAIN arena["data"].q : arena["data"].q[i].kind = "Data" =>
           arena["data"].q[i].slot = SlotOf(PushedFrames' - Len(arena["data"].q) + i - 1)
    BY <1>5
  <2>4. Holding /\ ep[Consumer].op = "pop" /\ ep[Consumer].frame.kind = "Data" =>
           ep[Consumer].frame.slot = SlotOf(PushedFrames' - Len(arena["data"].q) - 1)
    BY <1>5
  <2> HIDE DEF y
  <2> QED
    BY <1>1, <2>2, <2>3, <2>4 DEF SlotsOK, y
<1>9. QuietOK'
  BY DEF QuietOK
<1> QED
  BY <1>7, <1>8, <1>9 DEF CustodyInv

\* The producer's loops go on, with a release counted or without.
LEMMA GoesOnCustody ==
  ASSUME StreamType, CallInv, CustodyInv, GoesOn(Producer), InCall(Producer), ~Pushing,
         NEW e \in Endpoint, NextMove(e, ep'[Producer]),
         e.mode = ep[Producer].mode, e.chunks = ep[Producer].chunks, e.completed = ep[Producer].completed,
         \/ e.released = ep[Producer].released /\ ~Answered /\ (AtEnd(ep[Producer]) => AtEnd(e))
         \/ e.released = ep[Producer].released + 1 /\ Answered /\ ~ep[Producer].completed
  PROVE  CustodyInv'
<1> DEFINE k == PushedFrames
           m == Len(arena["releases"].q)
           h == One(Holding)
           d == Len(arena["data"].q)
           n == m + h + d
           a == One(Answered)
           r == ep[Producer].released
<1>1. Moves(Producer) /\ arena' = arena /\ source' = source /\ outcome' = outcome
  BY DEF GoesOn, shared
<1>2. Producer' = Producer
  BY <1>1, ProducerFrame
<1>3. ~Finished'
  BY <1>1, <1>2, FinishedIs DEF Finished, AllOk
<1>4. /\ k \in Int /\ m \in Nat /\ h \in {0, 1} /\ d \in Nat /\ a \in {0, 1} /\ r \in Nat
      /\ e.chunks \in Nat /\ e.completed \in BOOLEAN /\ Slots \in Nat
  BY FlightTypes, Fields, ShapeFacts
<1>5. k = e.chunks + One(e.completed)
  <2>1. One(Pushing) = 0 /\ One(ep[Producer].completed) = One(e.completed) /\ One(e.completed) \in {0, 1}
    BY DEF One
  <2>2. k = e.chunks + One(e.completed) - 0
    BY <2>1 DEF PushedFrames
  <2> QED
    BY <1>4, <2>1, <2>2
<1>6. InFlight = a + m + h + d
  BY DEF InFlight
<1>7. r + (a + m + h + d) <= k /\ e.chunks <= r + Slots
  BY <1>6 DEF CustodyInv, FlightOK
<1>8. /\ (e.released = r /\ a = 0) \/ (e.released = r + 1 /\ a = 1)
      /\ e.released \in Nat
  <2>1. (Answered => a = 1) /\ (~Answered => a = 0)
    BY DEF One
  <2>2. e.released \in Nat
    BY Fields
  <2> HIDE DEF a
  <2> QED
    BY <2>1, <2>2
<1>9. n \in Nat /\ e.released + n <= k /\ e.chunks <= e.released + Slots
  <2> HIDE DEF k, m, h, d, a, r
  <2> QED
    BY <1>4, <1>7, <1>8
<1>10. e.completed => AtEnd(e) /\ e.released = e.chunks
  BY DEF CustodyInv, FlightOK
<1>11. /\ \A i \in DOMAIN arena["data"].q : arena["data"].q[i].kind = "Data" =>
            arena["data"].q[i].slot = SlotOf(k - Len(arena["data"].q) + i - 1)
       /\ Holding /\ ep[Consumer].op = "pop" /\ ep[Consumer].frame.kind = "Data" =>
            ep[Consumer].frame.slot = SlotOf(k - Len(arena["data"].q) - 1)
  BY DEF CustodyInv, SlotsOK
<1>12. n = Len(arena["releases"].q) + One(Holding) + Len(arena["data"].q)
  OBVIOUS
<1> HIDE DEF k, n
<1> QED
  BY <1>1, <1>3, <1>4, <1>5, <1>9, <1>10, <1>11, <1>12, NextCustody

\* The producer calls send, none of its calls having failed: the last one
\* left nothing behind.
LEMMA ProducerCalls ==
  ASSUME StreamType, CallInv, CustodyInv, Calls(Producer), AllOk(Producer)
  PROVE  CustodyInv'
<1>1. /\ Moves(Producer) /\ arena' = arena /\ outcome' = outcome /\ ep[Producer].pc = "idle" /\ AllOk(Producer)
  BY DEF Calls, shared
<1>2. PICK x \in Nat : source' = Append(source, x)
  BY Ends DEF Calls
<1>3. PICK e \in Endpoint : /\ e.chunks = 0 /\ e.released = 0 /\ e.completed = FALSE
                            /\ NextMove(e, ep'[Producer])
  BY Ends DEF Calls
<1>4. Finished /\ Len(source) = Len(outcome[Producer])
  BY <1>1 DEF CallInv, Finished, At
<1>5. arena["data"].q = <<>> /\ arena["releases"].q = <<>> /\ ~Holding
  BY <1>4 DEF CustodyInv, QuietOK
<1>6. Producer' = Producer
  BY <1>1, ProducerFrame
<1>7. ~Finished'
  <2>1. Len(source') = Len(source) + 1 /\ Len(source) \in Nat
    BY <1>2 DEF StreamType
  <2> QED
    BY <1>1, <1>4, <1>6, <2>1 DEF Finished
<1> DEFINE k == 0
           n == 0
<1>8. One(e.completed) = 0 /\ One(Holding) = 0
  BY <1>3, <1>5 DEF One
<1>9. /\ k \in Int /\ n \in Nat /\ k = e.chunks + One(e.completed) /\ e.released + n <= k
      /\ e.chunks <= e.released + Slots
  BY <1>3, <1>8, ShapeFacts
<1>10. n = Len(arena["releases"].q) + One(Holding) + Len(arena["data"].q)
  BY <1>5, <1>8
<1>11. DOMAIN arena["data"].q = {}
  BY <1>5
<1> HIDE DEF k, n
<1> QED
  BY <1>1, <1>3, <1>5, <1>7, <1>9, <1>10, <1>11, NextCustody

\* The producer pushes a frame.
LEMMA ProducerPushes ==
  ASSUME StreamType, CallInv, CustodyInv, Pushes(Producer)
  PROVE  CustodyInv'
<1> DEFINE q == arena["data"].q
           f == ep[Producer].frame
           k == PushedFrames
           l == Len(q)
<1>1. /\ Producer' = Producer /\ Consumer' = Consumer /\ Slots' = Slots /\ Chunks' = Chunks
      /\ \A c : SlotOf(c)' = SlotOf(c) /\ ep'[Consumer] = ep[Consumer] /\ Holding' = Holding
  BY ProducerFrame DEF Pushes
<1>2. /\ InCall(Producer)' /\ InCall(Producer) /\ Pushing /\ ~Pushing' /\ ~Answered /\ ~Answered'
  BY <1>1 DEF Pushes, SameBody, InCall, Answered, Pushing, Waiting, Done
<1>3. arena'["releases"] = arena["releases"] /\ arena'["data"].q = Append(q, f)
  <2>1. ArenaOf(Producer) = "data"
    BY Ends DEF ArenaOf, Pushes
  <2> QED
    BY <2>1 DEF Pushes, Arenas
<1>4. q \in Seq(Frame) /\ f \in Frame /\ l \in Nat /\ k \in Int /\ ep[Producer].chunks \in Nat /\ ep[Producer].released \in Nat
  BY FlightTypes, Fields
<1>5. /\ Len(Append(q, f)) = l + 1 /\ DOMAIN Append(q, f) = 1 .. l + 1 /\ DOMAIN q = 1 .. l
      /\ \A i \in 1 .. l : Append(q, f)[i] = q[i]
      /\ Append(q, f)[l + 1] = f
  BY <1>4
<1>6. /\ One(Pushing) = 1 /\ One(Pushing)' = 0 /\ One(Answered)' = One(Answered) /\ One(Holding)' = One(Holding)
      /\ One(ep[Producer].completed)' = One(ep[Producer].completed)
  BY <1>1, <1>2 DEF One, Pushes, SameBody
<1>7. PushedFrames' = k + 1
  <2>1. PushedFrames' = ep[Producer].chunks + One(ep[Producer].completed) - 0
    BY <1>1, <1>6 DEF PushedFrames, Pushes, SameBody
  <2>2. k = ep[Producer].chunks + One(ep[Producer].completed) - 1
    BY <1>6 DEF PushedFrames
  <2>3. One(ep[Producer].completed) \in {0, 1}
    BY FlightTypes
  <2> QED
    BY <1>4, <2>1, <2>2, <2>3
<1>8. InFlight' = InFlight + 1
  <2>1. InFlight' = One(Answered) + Len(arena["releases"].q) + One(Holding) + (l + 1)
    BY <1>3, <1>5, <1>6 DEF InFlight
  <2>2. InFlight = One(Answered) + Len(arena["releases"].q) + One(Holding) + l
    BY DEF InFlight
  <2>3. One(Answered) \in {0, 1} /\ Len(arena["releases"].q) \in Nat /\ One(Holding) \in {0, 1}
    BY FlightTypes
  <2>4. \A a, b \in {0, 1}, m, n \in Nat : a + m + b + (n + 1) = (a + m + b + n) + 1
    OBVIOUS
  <2> HIDE DEF l
  <2>5. One(Answered) + Len(arena["releases"].q) + One(Holding) + (l + 1) =
          (One(Answered) + Len(arena["releases"].q) + One(Holding) + l) + 1
    BY <1>4, <2>3, <2>4, ZenonT(60)
  <2> QED
    BY <2>1, <2>2, <2>5, Zenon
<1>9. FlightOK'
  <2>1. InFlight \in Nat
    BY FlightTypes
  <2>2. AtEnd(ep[Producer])' = AtEnd(ep[Producer])
    BY <1>1 DEF AtEnd, Pushes, SameBody
  <2>3. /\ ep[Producer].released + InFlight <= k
        /\ ep[Producer].chunks <= ep[Producer].released + Slots
        /\ ep[Producer].completed => AtEnd(ep[Producer]) /\ ep[Producer].released = ep[Producer].chunks
    BY <1>2 DEF CustodyInv, FlightOK
  <2>4. ep[Producer].released + (InFlight + 1) <= k + 1
    <3> HIDE DEF k
    <3> QED
      BY <1>4, <2>1, <2>3
  <2> HIDE DEF k
  <2> QED
    BY <1>1, <1>7, <1>8, <2>2, <2>3, <2>4 DEF FlightOK, Pushes, SameBody
<1>10. SlotsOK'
  <2>1. /\ \A i \in 1 .. l : q[i].kind = "Data" => q[i].slot = SlotOf(k - l + i - 1)
        /\ Holding /\ ep[Consumer].op = "pop" /\ ep[Consumer].frame.kind = "Data" =>
             ep[Consumer].frame.slot = SlotOf(k - l - 1)
        /\ f.kind = "Data" => ~ep[Producer].completed /\ f.slot = SlotOf(ep[Producer].chunks - 1)
    BY <1>2, <1>5 DEF CustodyInv, SlotsOK
  <2>2. f.kind = "Data" => k = ep[Producer].chunks - 1
    <3> SUFFICES ASSUME f.kind = "Data" PROVE k = ep[Producer].chunks - 1
      OBVIOUS
    <3>1. One(ep[Producer].completed) = 0
      BY <2>1 DEF One
    <3>2. k = ep[Producer].chunks + 0 - 1
      BY <1>6, <3>1 DEF PushedFrames
    <3> QED
      BY <1>4, <3>2
  <2> HIDE DEF k, l, q, f
  <2>3. /\ \A i \in Int : (k + 1) - (l + 1) + i - 1 = k - l + i - 1
        /\ (k + 1) - (l + 1) - 1 = k - l - 1
        /\ (k + 1) - (l + 1) + (l + 1) - 1 = k
    BY <1>4
  <2>4. ASSUME NEW i \in 1 .. l + 1, Append(q, f)[i].kind = "Data"
        PROVE  Append(q, f)[i].slot = SlotOf((k + 1) - (l + 1) + i - 1)
    <3>1. CASE i \in 1 .. l
      BY <1>4, <1>5, <2>1, <2>3, <2>4, <3>1
    <3>2. CASE i = l + 1
      BY <1>5, <2>1, <2>2, <2>3, <2>4, <3>2
    <3>3. l \in Nat
      BY <1>4
    <3>4. i \in 1 .. l \/ i = l + 1
      BY <3>3
    <3> QED
      BY <3>1, <3>2, <3>4
  <2>5. Holding /\ ep[Consumer].op = "pop" /\ ep[Consumer].frame.kind = "Data" =>
             ep[Consumer].frame.slot = SlotOf((k + 1) - (l + 1) - 1)
    BY <2>1, <2>3
  <2> QED
    BY <1>1, <1>2, <1>3, <1>5, <1>7, <2>4, <2>5 DEF SlotsOK
<1>11. QuietOK'
  <2>1. ~Finished
    BY <1>2, FinishedIs
  <2> QED
    BY <1>1, <2>1 DEF QuietOK, Finished, AllOk, Pushes
<1> QED
  BY <1>9, <1>10, <1>11 DEF CustodyInv

\* The producer takes an answer.
LEMMA ProducerPops ==
  ASSUME StreamType, CallInv, CustodyInv, Pops(Producer)
  PROVE  CustodyInv'
<1> DEFINE q == arena["releases"].q
           l == Len(q)
<1>1. /\ Producer' = Producer /\ Consumer' = Consumer /\ Slots' = Slots /\ Chunks' = Chunks
      /\ \A c : SlotOf(c)' = SlotOf(c) /\ ep'[Consumer] = ep[Consumer] /\ Holding' = Holding
  BY ProducerFrame DEF Pops
<1>2. /\ InCall(Producer)' /\ InCall(Producer) /\ ~Pushing /\ ~Pushing' /\ ~Answered /\ Answered'
  BY <1>1 DEF Pops, SameBody, InCall, Answered, Pushing, Waiting, Done
<1>3. arena'["data"] = arena["data"] /\ arena'["releases"].q = Tail(q) /\ q # <<>> /\ q \in Seq(Frame)
  <2>1. ArenaOf(Producer) = "releases"
    BY Ends DEF ArenaOf, Pops
  <2> QED
    BY <2>1, FlightTypes DEF Pops, Arenas
<1>4. Len(Tail(q)) = l - 1 /\ l \in Nat
  BY <1>3
<1>5. /\ One(Pushing) = 0 /\ One(Pushing)' = 0 /\ One(Answered)' = 1 /\ One(Answered) = 0
      /\ One(Holding)' = One(Holding) /\ One(ep[Producer].completed)' = One(ep[Producer].completed)
  BY <1>1, <1>2 DEF One, Pops, SameBody
<1>6. PushedFrames' = PushedFrames
  BY <1>1, <1>5 DEF PushedFrames, Pops, SameBody
<1>7. InFlight' = InFlight
  <2>1. InFlight' = 1 + (l - 1) + One(Holding) + Len(arena["data"].q)
    BY <1>3, <1>4, <1>5 DEF InFlight
  <2>2. InFlight = 0 + l + One(Holding) + Len(arena["data"].q)
    BY <1>5 DEF InFlight
  <2>3. One(Holding) \in {0, 1} /\ Len(arena["data"].q) \in Nat /\ l \in Nat
    BY FlightTypes
  <2>4. \A b \in {0, 1}, m, n \in Nat : 1 + (m - 1) + b + n = 0 + m + b + n
    OBVIOUS
  <2> HIDE DEF l
  <2> QED
    BY <2>1, <2>2, <2>3, <2>4
<1>8. FlightOK'
  <2>1. AtEnd(ep[Producer])' = AtEnd(ep[Producer])
    BY <1>1 DEF AtEnd, Pops, SameBody
  <2> QED
    BY <1>1, <1>2, <1>6, <1>7, <2>1 DEF CustodyInv, FlightOK, Pops, SameBody
<1>9. SlotsOK'
  BY <1>1, <1>2, <1>3, <1>6 DEF CustodyInv, SlotsOK
<1>10. QuietOK'
  <2>1. ~Finished
    BY <1>2, FinishedIs
  <2> QED
    BY <1>1, <2>1 DEF QuietOK, Finished, AllOk, Pops
<1> QED
  BY <1>8, <1>9, <1>10 DEF CustodyInv

\* The producer has read a chunk into its slot.
LEMMA ProducerReads ==
  ASSUME StreamType, CallInv, CustodyInv, NEW len, Reads(Producer, len)
  PROVE  CustodyInv'
<1> DEFINE c == ep[Producer].chunks
           r == ep[Producer].released
<1>1. /\ Producer' = Producer /\ Consumer' = Consumer /\ Slots' = Slots /\ Chunks' = Chunks
      /\ \A x : SlotOf(x)' = SlotOf(x) /\ ep'[Consumer] = ep[Consumer] /\ Holding' = Holding
  BY ProducerFrame DEF Reads
<1>2. /\ InCall(Producer)' /\ InCall(Producer) /\ ~Pushing /\ Pushing' /\ ~Answered /\ ~Answered'
  BY <1>1 DEF Reads, InCall, Answered, Pushing, Waiting, Done
<1>3. c \in Nat /\ r \in Nat /\ Slots \in Nat /\ InFlight \in Nat
  BY FlightTypes, ShapeFacts
<1>4. /\ ~ep[Producer].completed /\ ep[Producer].completed = FALSE /\ c < r + Slots
      /\ r + InFlight <= PushedFrames
  BY <1>2, FlightTypes DEF CustodyInv, FlightOK, Reads
<1>5. /\ One(Pushing) = 0 /\ One(Pushing)' = 1 /\ One(Answered)' = One(Answered)
      /\ One(Holding)' = One(Holding) /\ One(ep[Producer].completed)' = 0 /\ One(ep[Producer].completed) = 0
  BY <1>1, <1>2, <1>4 DEF One, Reads
<1>6. PushedFrames' = c /\ PushedFrames = c
  <2>1. PushedFrames' = (c + 1) + 0 - 1 /\ PushedFrames = c + 0 - 0
    BY <1>1, <1>5 DEF PushedFrames, Reads
  <2> QED
    BY <1>3, <2>1
<1>7. InFlight' = InFlight
  BY <1>5 DEF InFlight, Reads
<1>8. /\ ep'[Producer].chunks = c + 1 /\ ep'[Producer].released = r /\ ep'[Producer].completed = FALSE
      /\ ep'[Producer].pc = "try" /\ ep'[Producer].frame.slot = SlotOf(c)
  BY <1>4 DEF Reads
<1>9. FlightOK'
  <2>1. c + 1 <= r + Slots /\ r + InFlight <= c
    <3> HIDE DEF c, r
    <3> QED
      BY <1>3, <1>4, <1>6
  <2> HIDE DEF c, r
  <2> QED
    BY <1>1, <1>6, <1>7, <1>8, <2>1 DEF FlightOK
<1>10. SlotsOK'
  <2>1. (c + 1) - 1 = c
    BY <1>3
  <2>2. arena' = arena
    BY DEF Reads
  <2>3. /\ \A i \in DOMAIN arena["data"].q : arena["data"].q[i].kind = "Data" =>
             arena["data"].q[i].slot = SlotOf(c - Len(arena["data"].q) + i - 1)
        /\ Holding /\ ep[Consumer].op = "pop" /\ ep[Consumer].frame.kind = "Data" =>
             ep[Consumer].frame.slot = SlotOf(c - Len(arena["data"].q) - 1)
    BY <1>2, <1>6 DEF CustodyInv, SlotsOK
  <2> HIDE DEF c, r
  <2>4. ep'[Producer].frame.slot = SlotOf(ep'[Producer].chunks - 1)
    BY <1>8, <2>1
  <2> QED
    BY <1>1, <1>6, <1>8, <2>2, <2>3, <2>4 DEF SlotsOK
<1>11. QuietOK'
  <2>1. ~Finished
    BY <1>2, FinishedIs
  <2> QED
    BY <1>1, <2>1 DEF QuietOK, Finished, AllOk, Reads
<1> QED
  BY <1>9, <1>10, <1>11 DEF CustodyInv

\* Every step of the producer but a retry keeps the custody invariant.
LEMMA ProducerStep ==
  ASSUME StreamType, CallInv, CustodyInv, Effect(Producer), Calls(Producer) => AllOk(Producer)
  PROVE  CustodyInv'
<1>0. Producer # Consumer /\ Producer \in Processes /\ outcome[Producer] \in Seq({"ok", "error"})
  BY Ends, Types
<1>1. CASE Parking(Producer)
  BY <1>1, ProducerCustody DEF Parking
<1>2. CASE WritesSlot(Producer)
  BY <1>2, ProducerCustody DEF WritesSlot
<1>3. CASE Returning(Producer, "error")
  <2>1. Moves(Producer) /\ arena' = arena /\ source' = source /\ Producer' = Producer
    BY <1>3, Frames DEF Returning, shared
  <2>2. ~InCall(Producer)'
    BY <1>3, <2>1, IdleIs DEF Returning, InCall
  <2>3. outcome'[Producer] = Append(outcome[Producer], "error")
    BY <1>0, <1>3 DEF Returning, StreamType
  <2>4. Append(outcome[Producer], "error")[Len(outcome[Producer]) + 1] = "error"
        /\ Len(outcome[Producer]) + 1 \in DOMAIN Append(outcome[Producer], "error")
    BY <1>0
  <2>5. ~Finished'
    BY <2>1, <2>3, <2>4 DEF Finished, AllOk
  <2> QED
    BY <2>1, <2>2, <2>5, ProducerLeaves
<1>4. CASE Confirms(Producer)
  <2>1. Moves(Producer) /\ arena' = arena /\ source' = source /\ Producer' = Producer
    BY <1>4, Frames DEF Confirms, Returning, shared
  <2>2. ~InCall(Producer)'
    BY <1>4, <2>1, IdleIs DEF Confirms, Returning, InCall
  <2>3. Answered /\ ep[Producer].completed
    BY <1>4 DEF Confirms, Answered, Done
  <2> QED
    BY <2>1, <2>2, <2>3, ProducerLeaves
<1>5. CASE Departs(Producer)
  <2>1. Moves(Producer) /\ arena' = arena /\ source' = source /\ outcome' = outcome /\ Producer' = Producer
    BY <1>5, Frames DEF Departs, shared
  <2>2. ~InCall(Producer)'
    BY <1>5, <2>1 DEF Departs, InCall
  <2>3. Finished' = Finished
    BY <2>1 DEF Finished, AllOk
  <2> QED
    BY <2>1, <2>2, <2>3, ProducerLeaves
<1>6. CASE Pushes(Producer)
  BY <1>6, ProducerPushes
<1>7. CASE Pops(Producer)
  BY <1>7, ProducerPops
<1>8. CASE Calls(Producer)
  BY <1>8, ProducerCalls
<1>9. CASE \E len \in Nat \ {0} : Reads(Producer, len)
  BY <1>9, ProducerReads
<1>10. CASE Eofs(Producer)
  <2>1. GoesOn(Producer) /\ ep[Producer].pc \in {"excess", "read"} /\ InCall(Producer) /\ ~Pushing /\ ~Answered
    BY <1>10 DEF Eofs, InCall, Pushing, Answered, Waiting, Done
  <2>2. PICK e \in Endpoint :
          /\ e.mode = ep[Producer].mode /\ e.chunks = ep[Producer].chunks
          /\ e.released = ep[Producer].released /\ e.eof = TRUE
          /\ e.completed = ep[Producer].completed /\ NextMove(e, ep'[Producer])
    BY <1>10 DEF Eofs
  <2>3. AtEnd(ep[Producer]) => AtEnd(e)
    BY <2>2 DEF AtEnd
  <2> QED
    BY <2>1, <2>2, <2>3, GoesOnCustody
<1>11. CASE Resumes(Producer)
  <2>1. GoesOn(Producer) /\ InCall(Producer) /\ ~Pushing /\ ~Answered
    BY <1>11 DEF Resumes, InCall, Pushing, Answered, Waiting, Done
  <2>2. ep[Producer] \in Endpoint /\ NextMove(ep[Producer], ep'[Producer])
    BY <1>0, <1>11, Types DEF Resumes
  <2> QED
    BY <2>1, <2>2, GoesOnCustody
<1>12. CASE Counts(Producer) /\ ep[Producer].pc = "notified" /\ ep[Producer].op = "pop"
  <2>1. GoesOn(Producer) /\ InCall(Producer) /\ ~Pushing /\ Answered /\ ~ep[Producer].completed
    BY <1>12 DEF Counts, InCall, Pushing, Answered, Waiting, Done
  <2>2. PICK e \in Endpoint :
          /\ e.mode = ep[Producer].mode /\ e.chunks = ep[Producer].chunks
          /\ e.released = ep[Producer].released + 1
          /\ e.completed = ep[Producer].completed /\ NextMove(e, ep'[Producer])
    BY <1>12 DEF Counts
  <2> QED
    BY <2>1, <2>2, GoesOnCustody
<1> QED
  BY <1>0, <1>1, <1>2, <1>3, <1>4, <1>5, <1>6, <1>7, <1>8, <1>9, <1>10, <1>11, <1>12
     DEF Effect, Finishes, Turns

\* Every step of the consumer keeps the custody invariant.
LEMMA ConsumerStep ==
  ASSUME StreamType, CallInv, CustodyInv, Effect(Consumer)
  PROVE  CustodyInv'
<1>0. Producer # Consumer /\ Consumer \in Processes /\ Producer \in Processes
  BY Ends
<1>1. CASE Pushes(Consumer)
  BY <1>1, ConsumerPushes
<1>2. CASE Pops(Consumer)
  BY <1>2, ConsumerPops
<1>3. CASE Parking(Consumer)
  <2>1. Moves(Consumer) /\ arena' = arena /\ source' = source /\ outcome' = outcome /\ Consumer' = Consumer
    BY <1>3, Frames DEF Parking
  <2>2. Holding' = Holding /\ ep'[Consumer].frame = ep[Consumer].frame /\ ep'[Consumer].op = ep[Consumer].op
    BY <1>3, <2>1 DEF Parking, SameBody, Holding, Waiting, Done
  <2> QED
    BY <2>1, <2>2, ConsumerCustody
<1>4. CASE Returning(Consumer, "error") \/ Returning(Consumer, "ok")
  <2>1. Moves(Consumer) /\ arena' = arena /\ source' = source /\ Consumer' = Consumer
    BY <1>4, Frames DEF Returning, shared
  <2>2. ~Holding'
    BY <1>4, <2>1, IdleIs DEF Returning, Holding, Waiting, Done
  <2>3. outcome'[Producer] = outcome[Producer]
    BY <1>0, <1>4 DEF Returning, StreamType
  <2> QED
    BY <2>1, <2>2, <2>3, ConsumerCustody
<1>5. CASE Calls(Consumer) \/ Departs(Consumer) \/ Turns(Consumer)
  <2>1. Moves(Consumer) /\ arena' = arena /\ source' = source /\ outcome' = outcome /\ Consumer' = Consumer
    BY <1>0, <1>5, Frames DEF Calls, Departs, Turns, shared
  <2>2. ~Holding'
    BY <1>0, <1>5, <2>1 DEF Calls, Departs, Turns, Holding, Waiting, Done
  <2> QED
    BY <2>1, <2>2, ConsumerCustody
<1>6. CASE /\ ep[Consumer].pc = "notified" /\ ep[Consumer].op = "pop"
           /\ Echoes(Consumer) \/ Sinks(Consumer)
  <2>1. Moves(Consumer) /\ arena' = arena /\ source' = source /\ outcome' = outcome /\ Consumer' = Consumer
    BY <1>6, Frames DEF Echoes, Sinks, shared
  <2>2. Holding /\ (ep'[Consumer].op = "pop" => ep'[Consumer].frame = ep[Consumer].frame)
    BY <1>6 DEF Holding, Done, Echoes, Sinks
  <2> QED
    BY <1>6, <2>1, <2>2, ConsumerCustody
<1>7. CASE ep[Consumer].pc = "sink" /\ Writes(Consumer)
  <2>1. Moves(Consumer) /\ arena' = arena /\ source' = source /\ outcome' = outcome /\ Consumer' = Consumer
    BY <1>7, Frames DEF Writes, shared
  <2>2. Holding /\ ep'[Consumer].op = "push"
    BY <1>7 DEF Holding, Writes, CallInv
  <2> QED
    BY <2>1, <2>2, ConsumerCustody
<1> QED
  BY <1>0, <1>1, <1>2, <1>3, <1>4, <1>5, <1>6, <1>7
     DEF Effect, Finishes, Confirms, Eofs, GoesOn, WritesSlot, Reads, Resumes, Counts

\* A stream that has just been created.
LEMMA CustodyInit == Init => CustodyInv
<1> SUFFICES ASSUME Init PROVE CustodyInv
  OBVIOUS
<1>1. /\ ep[Producer] = Idle /\ ep[Consumer] = Idle
      /\ arena["data"].q = <<>> /\ arena["releases"].q = <<>>
  BY Ends DEF Init, StreamInit
<1>2. ~InCall(Producer) /\ ~Holding
  BY <1>1, IdleIs DEF InCall, Holding, Waiting, Done
<1> QED
  BY <1>1, <1>2 DEF CustodyInv, FlightOK, SlotsOK, QuietOK

\* A step of the set-up keeps CustodyInv.
LEMMA StillCustody ==
  ASSUME CustodyInv, UNCHANGED still
  PROVE  CustodyInv'
<1>1. /\ Producer' = Producer /\ Consumer' = Consumer /\ Slots' = Slots /\ Chunks' = Chunks
      /\ \A c : SlotOf(c)' = SlotOf(c)
  BY DEF still, Producer, Consumer, Slots, Chunks, SlotOf, TotalBytes, ChunkBytes
<1>2. /\ Holding' = Holding /\ Answered' = Answered /\ Pushing' = Pushing /\ InCall(Producer)' = InCall(Producer)
      /\ Finished' = Finished /\ AtEnd(ep[Producer])' = AtEnd(ep[Producer])
  BY <1>1 DEF still, Holding, Answered, Pushing, InCall, Finished, AllOk, AtEnd
<1>3. PushedFrames' = PushedFrames /\ InFlight' = InFlight
  <2>1. /\ One(Pushing)' = One(Pushing) /\ One(Answered)' = One(Answered) /\ One(Holding)' = One(Holding)
        /\ One(ep[Producer].completed)' = One(ep[Producer].completed)
    BY <1>1, <1>2 DEF One, still
  <2> QED
    BY <1>1, <2>1 DEF PushedFrames, InFlight, still
<1>4. ep' = ep /\ arena' = arena
  BY DEF still
<1>5. FlightOK'
  BY <1>1, <1>2, <1>3, <1>4 DEF CustodyInv, FlightOK
<1>6. SlotsOK'
  BY <1>1, <1>2, <1>3, <1>4 DEF CustodyInv, SlotsOK
<1>7. QuietOK'
  BY <1>2, <1>4 DEF CustodyInv, QuietOK
<1> QED
  BY <1>5, <1>6, <1>7 DEF CustodyInv

\* Every step keeps the custody invariant until a failed send is retried.
LEMMA CustodyNext ==
  StreamType /\ CallInv /\ (Unretried(Producer) => CustodyInv) /\ [Next]_vars
    => (Unretried(Producer) => CustodyInv)'
<1> SUFFICES ASSUME StreamType, CallInv, Unretried(Producer) => CustodyInv, [Next]_vars, Unretried(Producer)'
             PROVE  CustodyInv'
  OBVIOUS
<1>0. PICK r \in Processes : r = Producer
  BY Ends
<1>1. ASSUME NEW p \in Processes, Effect(p) PROVE CustodyInv'
  <2>1. Producer' = r
    BY <1>0, <1>1, EffectRecords, Frames
  <2>2. Unretried(r)'
    BY <2>1 DEF Unretried, Began
  <2>3. Unretried(r) /\ (r = p /\ Calls(p) => AllOk(p))
    BY <1>1, <2>2, RetriesStay
  <2> QED
    BY <1>0, <1>1, <2>3, ProducerStep, ConsumerStep, Ends
<1>2. CASE UNCHANGED still
  <2>1. Producer' = r
    BY <1>0, <1>2 DEF still, Producer
  <2>2. Unretried(r)'
    BY <2>1 DEF Unretried, Began
  <2> QED
    BY <1>0, <1>2, <2>2, StillRetries, StillCustody
<1> QED
  BY <1>1, <1>2, StreamSteps, StepEffect

\* Chunks fewer than Slots apart have different slots.
LEMMA SlotsDiffer ==
  ASSUME NEW s \in Nat \ {0}, NEW j \in Nat, NEW c \in Nat, j < c, c < j + s
  PROVE  c % s # j % s
<1>1. /\ c = s * (c \div s) + (c % s) /\ c \div s \in Int
      /\ j = s * (j \div s) + (j % s) /\ j \div s \in Int
  BY SMT
<1> SUFFICES ASSUME c % s = j % s PROVE FALSE
  OBVIOUS
<1> DEFINE a == c \div s
           b == j \div s
           r == c % s
<1>2. c = s * a + r /\ j = s * b + r /\ a \in Int /\ b \in Int /\ r \in Int
  BY <1>1, SMT
<1> HIDE DEF a, b, r
<1>3. c - j = s * (a - b) /\ a - b \in Int
  BY <1>2, SMT
<1>4. CASE a - b <= 0
  <2>1. s * (a - b) <= 0
    BY <1>3, <1>4, SMT
  <2> QED
    BY <1>3, <2>1
<1>5. CASE a - b >= 1
  <2>1. s * (a - b) >= s
    BY <1>3, <1>5, SMT
  <2> QED
    BY <1>3, <2>1
<1> QED
  BY <1>3, <1>4, <1>5

\* The slot that is being written is not leased.
LEMMA CustodyHolds ==
  ASSUME StreamType, CallInv, CustodyInv
  PROVE  SlotExclusive
<1> DEFINE c == ep[Producer].chunks
           r == ep[Producer].released
           q == arena["data"].q
           l == Len(q)
           h == One(Holding)
<1> SUFFICES ASSUME ep[Producer].pc \in {"write", "read"} PROVE SlotOf(c) \notin Leased
  BY DEF SlotExclusive
<1>1. InCall(Producer) /\ ~Pushing /\ ~ep[Producer].completed
  BY DEF InCall, Pushing, Waiting, CustodyInv, FlightOK
<1>2. /\ c \in Nat /\ r \in Nat /\ l \in Nat /\ h \in {0, 1} /\ Slots \in Nat \ {0} /\ q \in Seq(Frame)
      /\ Len(arena["releases"].q) \in Nat /\ One(Answered) \in {0, 1}
  BY FlightTypes, ShapeFacts
<1>3. PushedFrames = c
  <2>1. One(Pushing) = 0 /\ One(ep[Producer].completed) = 0
    BY <1>1 DEF One
  <2>2. PushedFrames = c + 0 - 0
    BY <2>1 DEF PushedFrames
  <2> QED
    BY <1>2, <2>2
<1>4. r + h + l <= c /\ c < r + Slots
  <2>1. r + InFlight <= c /\ c < r + Slots
    BY <1>1, <1>3 DEF CustodyInv, FlightOK
  <2>2. InFlight = One(Answered) + Len(arena["releases"].q) + h + l
    BY DEF InFlight
  <2> DEFINE m == Len(arena["releases"].q)
             a == One(Answered)
  <2>3. r + (a + m + h + l) <= c /\ m \in Nat /\ a \in {0, 1}
    BY <1>2, <2>1, <2>2
  <2> HIDE DEF m, a, h, l, r, c
  <2> QED
    BY <1>2, <2>1, <2>3
<1>5. /\ \A i \in DOMAIN q : q[i].kind = "Data" => q[i].slot = SlotOf(c - l + i - 1)
      /\ Holding /\ ep[Consumer].op = "pop" /\ ep[Consumer].frame.kind = "Data" =>
           ep[Consumer].frame.slot = SlotOf(c - l - 1)
  BY <1>1, <1>3 DEF CustodyInv, SlotsOK
<1>6. DOMAIN q = 1 .. l
  BY <1>2
<1>7. ASSUME NEW f \in ToSet(q), f.kind = "Data" PROVE f.slot # SlotOf(c)
  <2>1. PICK i \in 1 .. l : f = q[i]
    BY <1>6 DEF ToSet
  <2>2. f.slot = SlotOf(c - l + i - 1)
    BY <1>5, <1>6, <1>7, <2>1
  <2> DEFINE j == c - l + i - 1
  <2>3. j \in Nat /\ j < c /\ c < j + Slots
    <3> HIDE DEF c, l, r, h, q
    <3> QED
      BY <1>2, <1>4
  <2> HIDE DEF j
  <2>4. c % Slots # j % Slots
    BY <1>2, <2>3, SlotsDiffer
  <2> QED
    BY <2>2, <2>4 DEF SlotOf, j
<1>8. ASSUME Holding, ep[Consumer].op = "pop", ep[Consumer].frame.kind = "Data"
      PROVE  ep[Consumer].frame.slot # SlotOf(c)
  <2> DEFINE j == c - l - 1
  <2>1. h = 1
    BY <1>8 DEF One
  <2>2. j \in Nat /\ j < c /\ c < j + Slots
    <3> HIDE DEF c, l, r, h, q
    <3> QED
      BY <1>2, <1>4, <2>1, SMTT(30)
  <2>3. ep[Consumer].frame.slot = SlotOf(j)
    BY <1>5, <1>8
  <2> HIDE DEF j
  <2>4. c % Slots # j % Slots
    BY <1>2, <2>2, SlotsDiffer
  <2> QED
    BY <2>3, <2>4 DEF SlotOf
<1>9. ep[Consumer].op = "pop" /\ ep[Consumer].pc \in {"store", "swap", "wake", "notified", "sink"} => Holding
  BY DEF Holding, Done
<1> HIDE DEF c, l, q
<1> QED
  BY <1>7, <1>8, <1>9 DEF Leased, q

\* For every shape and every point at which a call fails or a process dies:
\* until a failed send is retried, write_slot never touches a slot whose chunk
\* the consumer has yet to copy out.
THEOREM CustodyCorrect == Spec => []Custody
<1> DEFINE Inv == StreamType /\ CallInv /\ (Unretried(Producer) => CustodyInv)
<1>1. Init => Inv
  BY StreamInitBase, CustodyInit
<1>2. Inv /\ [Next]_vars => Inv'
  BY BaseNext, CustodyNext
<1>3. Inv => Custody
  BY CustodyHolds DEF Custody
<1> QED
  BY <1>1, <1>2, <1>3, PTL DEF Spec

-----------------------------------------------------------------------------
(* Contents.                                                               *)

\* What arrived stays, as long as its reader and its sink do.
LEMMA ArrivedStays ==
  ASSUME TotalBytes' = TotalBytes, NEW r, Arrived(r),
         Len(source') >= r, Len(sink') >= r, source'[r] = source[r], sink'[r] = sink[r]
  PROVE  Arrived(r)'
  BY DEF Arrived, Full

\* A new call keeps the readers and the sinks of the calls before it.
LEMMA ArrivedGrows ==
  ASSUME StreamType, TotalBytes' = TotalBytes, NEW r \in Nat \ {0}, Arrived(r),
         source' = source \/ \E n \in Nat : source' = Append(source, n),
         sink' = sink \/ sink' = Append(sink, <<>>)
  PROVE  Arrived(r)'
<1>1. r \in 1 .. Len(source) /\ r \in 1 .. Len(sink)
  BY Types DEF Arrived
<1>2. Len(source') >= r /\ source'[r] = source[r]
  <2>1. source \in Seq(Nat) /\ Len(source) \in Nat
    BY DEF StreamType
  <2>2. CASE source' = source
    BY <1>1, <2>1, <2>2
  <2>3. CASE \E n \in Nat : source' = Append(source, n)
    <3>1. PICK n \in Nat : source' = Append(source, n)
      BY <2>3
    <3>2. Len(source') = Len(source) + 1 /\ \A i \in 1 .. Len(source) : source'[i] = source[i]
      BY <2>1, <3>1
    <3> QED
      BY <1>1, <2>1, <3>2
  <2> QED
    BY <2>2, <2>3
<1>3. Len(sink') >= r /\ sink'[r] = sink[r]
  <2>1. sink \in Seq(Seq(Bytes)) /\ Len(sink) \in Nat /\ <<>> \in Seq(Bytes)
    BY DEF StreamType
  <2>2. CASE sink' = sink
    BY <1>1, <2>1, <2>2
  <2>3. CASE sink' = Append(sink, <<>>)
    <3>1. Len(sink') = Len(sink) + 1 /\ \A i \in 1 .. Len(sink) : sink'[i] = sink[i]
      BY <2>1, <2>3
    <3> QED
      BY <1>1, <2>1, <3>1
  <2> QED
    BY <2>2, <2>3
<1> QED
  BY <1>2, <1>3, ArrivedStays

\* What a step of the consumer leaves alone.
LEMMA ConsumerFrame ==
  ASSUME StreamType, Moves(Consumer)
  PROVE  /\ Producer' = Producer /\ Consumer' = Consumer /\ TotalBytes' = TotalBytes
         /\ ChunkBytes' = ChunkBytes /\ Chunks' = Chunks
         /\ ep'[Producer] = ep[Producer] /\ Pushing' = Pushing /\ Answered' = Answered
         /\ InCall(Producer)' = InCall(Producer) /\ EndAnswered' = EndAnswered
<1>1. /\ Producer' = Producer /\ Consumer' = Consumer /\ TotalBytes' = TotalBytes
      /\ ChunkBytes' = ChunkBytes /\ Chunks' = Chunks
  BY Frames
<1>2. ep'[Producer] = ep[Producer]
  BY Ends DEF Moves
<1> QED
  BY <1>1, <1>2 DEF Pushing, Answered, InCall, EndAnswered

\* The producer's reads do not depend on the consumer.
LEMMA ConsumerReadOK ==
  ASSUME StreamType, ReadOK, Moves(Consumer), source' = source, outcome'[Producer] = outcome[Producer]
  PROVE  ReadOK'
<1>1. /\ Producer' = Producer /\ TotalBytes' = TotalBytes /\ ChunkBytes' = ChunkBytes /\ Chunks' = Chunks
      /\ ep'[Producer] = ep[Producer] /\ InCall(Producer)' = InCall(Producer)
  BY ConsumerFrame
<1>2. Round(Producer)' = Round(Producer)
  BY <1>1 DEF Round
<1>3. Full(Round(Producer))' = Full(Round(Producer))
  BY <1>1, <1>2 DEF Full
<1> QED
  BY <1>1, <1>2, <1>3 DEF ReadOK

\* A step of the consumer that passes no frame.
LEMMA ConsumerContent ==
  ASSUME StreamType, CallInv, ContentInv, Moves(Consumer), arena' = arena, source' = source,
         outcome'[Producer] = outcome[Producer],
         Holding' => Holding,
         Holding' /\ Ending(ep'[Consumer].frame) => ep'[Consumer].frame = ep[Consumer].frame,
         Live' => Live /\ NextRound' = NextRound,
         Echoed' => Arrived(Round(Consumer))',
         EndInReplies \/ EndAnswered => Arrived(Len(source))',
         WrittenOK', OkArrived'
  PROVE  ContentInv'
<1>1. /\ Producer' = Producer /\ Consumer' = Consumer /\ TotalBytes' = TotalBytes
      /\ ep'[Producer] = ep[Producer] /\ Pushing' = Pushing
      /\ InCall(Producer)' = InCall(Producer) /\ EndAnswered' = EndAnswered
  BY ConsumerFrame
<1>2. EndInData' = EndInData /\ EndInReplies' = EndInReplies /\ Finished' = Finished
  BY <1>1 DEF EndInData, EndInReplies, Finished, AllOk
<1>3. EndHeld' => EndHeld
  BY <1>1 DEF EndHeld
<1>4. LastOK'
  BY <1>1, <1>2, <1>3 DEF ContentInv, LastOK
<1>5. RoundOK'
  BY <1>1 DEF ContentInv, RoundOK
<1>6. AheadOK'
  BY <1>1, <1>2 DEF ContentInv, AheadOK
<1>7. ReadOK'
  BY ConsumerReadOK DEF ContentInv
<1>8. CompleteOK'
  <2>2. (\A a \in Arenas : \A i \in DOMAIN arena[a].q : WholeFrame(arena[a].q[i]))'
    BY <1>1 DEF ContentInv, CompleteOK, WholeFrame, Full
  <2>3. Holding' => WholeFrame(ep[Consumer].frame)'
    BY <1>1 DEF ContentInv, CompleteOK, WholeFrame, Full
  <2>4. Pushing' => WholeFrame(ep[Producer].frame)'
    BY <1>1 DEF ContentInv, CompleteOK, WholeFrame, Full
  <2> QED
    BY <1>1, <2>2, <2>3, <2>4 DEF CompleteOK
<1>9. EchoOK'
  BY <1>1, <1>2 DEF ContentInv, EchoOK
<1> QED
  BY <1>4, <1>5, <1>6, <1>7, <1>8, <1>9 DEF ContentInv

\* The consumer's calls that returned Ok are over.
LEMMA OkBefore ==
  ASSUME StreamType, CallInv, Orderly, ContentInv, ep[Consumer].pc = "sink",
         NEW p \in Processes, NEW r \in DOMAIN outcome[p], outcome[p][r] = "ok"
  PROVE  r # Round(Consumer)
<1>1. Live /\ ~Echoed /\ InCall(Consumer)
  BY Ends DEF Orderly, OutcomesOK, InCall, Live, At, Echoed, Done
<1>2. NextRound = Round(Consumer)
  BY <1>1, Types, Ends DEF NextRound, One, Round
<1>3. /\ outcome[p] \in Seq({"ok", "error"}) /\ Len(outcome[p]) \in Nat /\ r \in 1 .. Len(outcome[p])
      /\ Len(source) \in Nat
  BY Types
<1>4. CASE p = Consumer
  BY <1>3, <1>4 DEF Round
<1>5. CASE p = Producer
  <2>1. Len(outcome[Producer]) <= Len(source)
    BY DEF CallInv
  <2>2. Round(Consumer) = Len(source) \/ Round(Consumer) = Len(source) + 1
    BY <1>1, <1>2 DEF ContentInv, RoundOK
  <2>3. CASE r < Len(source)
    BY <1>3, <2>2, <2>3
  <2>4. CASE r = Len(source)
    <3>1. Len(outcome[Producer]) = Len(source) /\ r = Len(outcome[Producer])
      BY <1>3, <1>5, <2>1, <2>4
    <3>2. \A i \in DOMAIN outcome[Producer] : i < Len(outcome[Producer]) => outcome[Producer][i] = "ok"
      BY Ends DEF Orderly, OutcomesOK
    <3>3. AllOk(Producer)
      <4>1. \A i \in 1 .. Len(outcome[Producer]) : i < Len(outcome[Producer]) \/ i = Len(outcome[Producer])
        BY <1>3, <1>5
      <4>2. DOMAIN outcome[Producer] = 1 .. Len(outcome[Producer])
        BY <1>3, <1>5
      <4> QED
        BY <1>5, <3>1, <3>2, <4>1, <4>2 DEF AllOk
    <3>4. NextRound = Len(source) + 1
      BY <1>1, <3>1, <3>3 DEF Finished, ContentInv, AheadOK
    <3> QED
      BY <1>2, <1>3, <2>4, <3>4
  <2> QED
    BY <1>3, <1>5, <2>1, <2>3, <2>4
<1> QED
  BY <1>4, <1>5, Ends

\* A step that keeps the outcomes keeps their arrivals.
LEMMA OkArrivedStays ==
  ASSUME StreamType, OkArrived, TotalBytes' = TotalBytes, outcome' = outcome,
         source' = source \/ \E n \in Nat : source' = Append(source, n),
         sink' = sink \/ sink' = Append(sink, <<>>)
  PROVE  OkArrived'
<1>1. ASSUME NEW p \in Processes, NEW r \in DOMAIN outcome[p], outcome[p][r] = "ok"
      PROVE  Arrived(r)'
  <2>1. r \in Nat \ {0}
    BY Types
  <2>2. Arrived(r)
    BY <1>1 DEF OkArrived
  <2> QED
    BY <2>1, <2>2, ArrivedGrows
<1> QED
  BY <1>1 DEF OkArrived

\* A call that returns adds its own.
LEMMA OkArrivedReturns ==
  ASSUME StreamType, OkArrived, TotalBytes' = TotalBytes, source' = source, sink' = sink,
         NEW p \in Processes, NEW why \in {"ok", "error"}, outcome' = [outcome EXCEPT ![p] = Append(@, why)],
         why = "ok" => Arrived(Round(p))
  PROVE  OkArrived'
<1>1. /\ outcome[p] \in Seq({"ok", "error"}) /\ Len(outcome[p]) \in Nat
      /\ outcome'[p] = Append(outcome[p], why)
      /\ \A x \in Processes : x # p => outcome'[x] = outcome[x]
  BY Types DEF StreamType
<1>2. ASSUME NEW x \in Processes, NEW r \in DOMAIN outcome'[x], outcome'[x][r] = "ok"
      PROVE  Arrived(r)
  <2>1. CASE x # p
    BY <1>1, <1>2, <2>1 DEF OkArrived
  <2>2. CASE x = p /\ r \in 1 .. Len(outcome[p])
    <3>1. outcome[p][r] = "ok" /\ r \in DOMAIN outcome[p]
      BY <1>1, <1>2, <2>2
    <3> QED
      BY <3>1 DEF OkArrived
  <2>3. CASE x = p /\ r = Len(outcome[p]) + 1
    BY <1>1, <1>2, <2>3 DEF Round
  <2>4. x = p => r \in 1 .. Len(outcome[p]) + 1
    BY <1>1
  <2> QED
    BY <1>1, <2>1, <2>2, <2>3, <2>4
<1>3. \A r : Arrived(r) => Arrived(r)'
  BY DEF Arrived, Full
<1> QED
  BY <1>2, <1>3 DEF OkArrived

\* The consumer's steps that pass no frame.
LEMMA ConsumerParks ==
  ASSUME StreamType, CallInv, ContentInv, Parking(Consumer)
  PROVE  ContentInv'
<1>1. /\ Moves(Consumer) /\ arena' = arena /\ source' = source /\ outcome' = outcome /\ sink' = sink
      /\ slot' = slot
  BY DEF Parking
<1>2. Consumer' = Consumer /\ Producer' = Producer /\ TotalBytes' = TotalBytes
  BY <1>1, ConsumerFrame
<1>3. /\ Holding' = Holding /\ Echoed' = Echoed /\ Live' = Live /\ ep'[Consumer].frame = ep[Consumer].frame
      /\ InCall(Consumer)' = InCall(Consumer)
  BY <1>1, <1>2 DEF Parking, SameBody, Holding, Echoed, Live, AllOk, At, InCall, Waiting, Done
<1>4. Round(Consumer)' = Round(Consumer) /\ NextRound' = NextRound
  BY <1>1, <1>2, <1>3 DEF Round, NextRound, One
<1>5. Arrived(Round(Consumer))' = Arrived(Round(Consumer)) /\ Arrived(Len(source))' = Arrived(Len(source))
  BY <1>1, <1>2, <1>4 DEF Arrived, Full
<1>6. WrittenOK'
  BY <1>1, <1>2, <1>3, <1>4 DEF ContentInv, WrittenOK, Parking, SameBody, Waiting, Done
<1>7. OkArrived'
  BY <1>1, <1>2, OkArrivedStays DEF ContentInv
<1> QED
  BY <1>1, <1>3, <1>4, <1>5, <1>6, <1>7, ConsumerContent DEF ContentInv, EchoOK

\* A consumer that returns or is dropped keeps ContentInv.
LEMMA ConsumerLeaves ==
  ASSUME StreamType, CallInv, Orderly, ContentInv,
         Returning(Consumer, "error") \/ Finishes(Consumer) \/ Departs(Consumer)
  PROVE  ContentInv'
<1>0. Consumer \in Processes /\ Producer \in Processes /\ Producer # Consumer
  BY Ends
<1>1. /\ Moves(Consumer) /\ arena' = arena /\ source' = source /\ sink' = sink /\ ep'[Consumer].pc \in {"idle", "gone"}
  BY IdleIs DEF Returning, Finishes, Departs, shared
<1>2. Consumer' = Consumer /\ Producer' = Producer /\ TotalBytes' = TotalBytes
  BY <1>1, ConsumerFrame
<1>3. ~Holding' /\ ~Echoed' /\ ~InCall(Consumer)'
  BY <1>1, <1>2 DEF Holding, Echoed, InCall, Waiting, Done
<1>4. outcome'[Producer] = outcome[Producer]
  BY <1>0 DEF Returning, Finishes, Departs, StreamType
<1>5. Arrived(Len(source))' = Arrived(Len(source))
  BY <1>1, <1>2 DEF Arrived, Full
<1>6. WrittenOK'
  BY <1>3 DEF WrittenOK
<1>7. /\ OkArrived'
      /\ Live' => Live /\ NextRound' = NextRound
  <2>0. outcome[Consumer] \in Seq({"ok", "error"}) /\ Len(outcome[Consumer]) \in Nat
    BY <1>0, Types
  <2>1. CASE Returning(Consumer, "error")
    <3>1. outcome'[Consumer] = Append(outcome[Consumer], "error")
          /\ outcome' = [outcome EXCEPT ![Consumer] = Append(@, "error")]
      BY <1>0, <2>1 DEF Returning, StreamType
    <3>2. Append(outcome[Consumer], "error")[Len(outcome[Consumer]) + 1] = "error"
          /\ Len(outcome[Consumer]) + 1 \in DOMAIN Append(outcome[Consumer], "error")
      BY <2>0
    <3>3. ~Live'
      BY <1>2, <3>1, <3>2 DEF Live, AllOk
    <3> QED
      BY <1>0, <1>1, <1>2, <3>1, <3>3, OkArrivedReturns DEF ContentInv
  <2>2. CASE Departs(Consumer)
    <3>1. ~Live' /\ outcome' = outcome
      BY <1>2, <2>2 DEF Live, Departs, At
    <3> QED
      BY <1>1, <1>2, <3>1, OkArrivedStays DEF ContentInv
  <2>3. CASE Finishes(Consumer)
    <3>1. Echoed /\ InCall(Consumer)
      BY <2>3 DEF Finishes, Echoed, Done, InCall
    <3>2. Live
      BY <1>0, <3>1 DEF Live, Orderly, OutcomesOK, InCall, At
    <3>3. outcome'[Consumer] = Append(outcome[Consumer], "ok")
          /\ outcome' = [outcome EXCEPT ![Consumer] = Append(@, "ok")]
      BY <1>0, <2>3 DEF Finishes, Returning, StreamType
    <3>4. Arrived(Round(Consumer))
      BY <3>1 DEF ContentInv, EchoOK
    <3>5. Len(Append(outcome[Consumer], "ok")) = Len(outcome[Consumer]) + 1
      BY <2>0
    <3>6. Round(Consumer)' = Round(Consumer) + 1 /\ Round(Consumer) \in Nat
      BY <1>2, <2>0, <3>3, <3>5 DEF Round
    <3>7. One(Echoed) = 1 /\ One(Echoed)' = 0
      BY <1>3, <3>1 DEF One
    <3>8. NextRound' = NextRound
      BY <3>6, <3>7 DEF NextRound
    <3> QED
      BY <1>0, <1>1, <1>2, <3>2, <3>3, <3>4, <3>8, OkArrivedReturns DEF ContentInv
  <2> QED
    BY <2>1, <2>2, <2>3
<1> QED
  BY <1>1, <1>3, <1>4, <1>5, <1>6, <1>7, ConsumerContent DEF ContentInv, EchoOK

\* A consumer that starts a call keeps ContentInv.
LEMMA ConsumerCalls ==
  ASSUME StreamType, CallInv, ContentInv, Calls(Consumer), AllOk(Consumer)
  PROVE  ContentInv'
<1>0. Consumer \in Processes /\ Producer \in Processes /\ Producer # Consumer
  BY Ends
<1>1. /\ Moves(Consumer) /\ arena' = arena /\ source' = source /\ sink' = Append(sink, <<>>) /\ outcome' = outcome
      /\ ep[Consumer].pc = "idle" /\ AllOk(Consumer) /\ ep'[Consumer].pc = "try" /\ ep'[Consumer].op = "pop"
      /\ ep'[Consumer].completed = FALSE /\ ep'[Consumer].aggregate = <<>>
  BY <1>0 DEF Calls, shared
<1>2. Consumer' = Consumer /\ Producer' = Producer /\ TotalBytes' = TotalBytes
  BY <1>1, ConsumerFrame
<1>3. ~Holding' /\ ~Echoed' /\ ~Echoed /\ Live
  BY <1>1, <1>2 DEF Holding, Echoed, Waiting, Done, Live, At
<1>4. Round(Consumer)' = Round(Consumer) /\ NextRound' = NextRound
  BY <1>1, <1>2, <1>3 DEF Round, NextRound, One
<1>5. EndInReplies \/ EndAnswered => Arrived(Len(source))'
  <2> SUFFICES ASSUME EndInReplies \/ EndAnswered PROVE Arrived(Len(source))'
    OBVIOUS
  <2> DEFINE r == Len(source)
  <2>1. Arrived(r) /\ r \in Nat \ {0}
    BY Types DEF ContentInv, EchoOK
  <2>2. \A x \in Nat \ {0} : Arrived(x) => Arrived(x)'
    BY <1>1, <1>2, ArrivedGrows
  <2>3. r' = r
    BY <1>1
  <2> QED
    BY <1>1, <1>2, <2>1, <2>2, <2>3 DEF Arrived, Full
<1>6. WrittenOK'
  <2>1. Len(sink) = Len(outcome[Consumer]) /\ Len(sink) \in Nat /\ sink \in Seq(Seq(Bytes))
    BY <1>1, Types DEF CallInv, At, StreamType
  <2>2. <<>> \in Seq(Bytes)
    OBVIOUS
  <2>3. Append(sink, <<>>)[Len(sink) + 1] = <<>>
    BY <2>1, <2>2
  <2>4. sink'[Round(Consumer)'] = <<>>
    BY <1>1, <1>4, <2>1, <2>3 DEF Round
  <2> QED
    BY <1>1, <1>2, <2>4 DEF WrittenOK
<1>7. OkArrived'
  BY <1>1, <1>2, OkArrivedStays DEF ContentInv
<1> QED
  BY <1>1, <1>3, <1>4, <1>5, <1>6, <1>7, ConsumerContent

\* A consumer that turns to its next frame keeps ContentInv.
LEMMA ConsumerTurns ==
  ASSUME StreamType, CallInv, ContentInv,
         \/ Turns(Consumer)
         \/ /\ ep[Consumer].pc = "notified" /\ ep[Consumer].op = "pop"
            /\ Echoes(Consumer) \/ Sinks(Consumer)
  PROVE  ContentInv'
<1>0. Consumer \in Processes /\ Producer \in Processes /\ Producer # Consumer
  BY Ends
<1>1. /\ Moves(Consumer) /\ arena' = arena /\ source' = source /\ sink' = sink /\ outcome' = outcome
      /\ slot' = slot /\ ep[Consumer].pc = "notified" /\ ep'[Consumer].pc \in {"try", "sink"}
      /\ ep'[Consumer].aggregate = ep[Consumer].aggregate
  BY DEF Turns, Echoes, Sinks, SameBody, shared
<1>2. Consumer' = Consumer /\ Producer' = Producer /\ TotalBytes' = TotalBytes
  BY <1>1, ConsumerFrame
<1>3. ~Echoed' /\ ~Echoed /\ InCall(Consumer) /\ InCall(Consumer)' /\ (Live' => Live)
  <2>1. ~Echoed'
    BY <1>1, <1>2 DEF Echoed, Done
  <2>2. ~Echoed
    BY DEF Turns, Echoed
  <2>3. InCall(Consumer) /\ InCall(Consumer)' /\ (Live' => Live)
    BY <1>1, <1>2 DEF InCall, Live, AllOk, At
  <2> QED
    BY <2>1, <2>2, <2>3
<1>4. /\ Holding' => Holding
      /\ Holding' => ep'[Consumer].frame = ep[Consumer].frame
  BY <1>2 DEF Holding, Waiting, Done, Turns, Echoes, Sinks, SameBody
<1>5. Round(Consumer)' = Round(Consumer) /\ NextRound' = NextRound
  BY <1>1, <1>2, <1>3 DEF Round, NextRound, One
<1>6. Arrived(Len(source))' = Arrived(Len(source))
  BY <1>1, <1>2 DEF Arrived, Full
<1>7. WrittenOK'
  <2>1. sink[Round(Consumer)] = ep[Consumer].aggregate /\ (ep[Consumer].completed => ep[Consumer].op = "push")
        /\ ep[Consumer].completed \in BOOLEAN
    BY <1>0, <1>3, Types, Fields DEF ContentInv, WrittenOK
  <2>2. CASE Turns(Consumer)
    BY <1>1, <1>2, <1>5, <2>1, <2>2 DEF Turns, WrittenOK
  <2>3. CASE Echoes(Consumer)
    BY <1>1, <1>2, <1>5, <2>1, <2>3 DEF Echoes, WrittenOK, Waiting
  <2>4. CASE ep[Consumer].op = "pop" /\ Sinks(Consumer)
    BY <1>1, <1>2, <1>5, <2>1, <2>4 DEF Sinks, SameBody, WrittenOK, Waiting
  <2> QED
    BY <2>2, <2>3, <2>4
<1>8. OkArrived'
  BY <1>1, <1>2, OkArrivedStays DEF ContentInv
<1> QED
  BY <1>1, <1>3, <1>4, <1>5, <1>6, <1>7, <1>8, ConsumerContent DEF ContentInv, EchoOK

\* A consumer that writes a chunk to its sink keeps ContentInv.
LEMMA ConsumerWrites ==
  ASSUME StreamType, CallInv, Orderly, ContentInv, ep[Consumer].pc = "sink", Writes(Consumer)
  PROVE  ContentInv'
<1>0. Consumer \in Processes /\ Producer \in Processes /\ Producer # Consumer
  BY Ends
<1> DEFINE r == Round(Consumer)
           b == slot[ep[Consumer].frame.slot]
<1>1. /\ Moves(Consumer) /\ arena' = arena /\ source' = source /\ outcome' = outcome
      /\ ep'[Consumer].pc = "try" /\ ep'[Consumer].op = "push" /\ ep'[Consumer].frame.kind = "Released"
      /\ ep'[Consumer].aggregate = ep[Consumer].aggregate \o ep[Consumer].frame.checksum
      /\ ep'[Consumer].completed = ep[Consumer].completed
      /\ sink' = [sink EXCEPT ![r] = Append(@, b)]
  BY DEF Writes, shared
<1>2. Consumer' = Consumer /\ Producer' = Producer /\ TotalBytes' = TotalBytes
  BY <1>1, ConsumerFrame
<1>3. InCall(Consumer) /\ ~Echoed' /\ ~Echoed /\ Live /\ ep[Consumer].op = "pop"
  BY <1>0, <1>1, <1>2 DEF Echoed, Done, InCall, Live, At, CallInv, Orderly, OutcomesOK
<1>4. r' = r /\ NextRound' = NextRound /\ NextRound = r
  BY <1>0, <1>1, <1>2, <1>3, Types DEF Round, NextRound, One
<1>5. /\ Len(sink) = r /\ r \in 1 .. Len(sink) /\ Len(sink) \in Nat /\ sink \in Seq(Seq(Bytes))
      /\ ep[Consumer].aggregate \in Seq(Bytes) /\ b \in Bytes /\ Len(source) \in Nat
  BY <1>0, <1>3, Types, Fields DEF CallInv, Round, StreamType
<1> HIDE DEF b
<1>6. /\ sink'[r] = Append(sink[r], b) /\ Len(sink') = Len(sink)
      /\ \A x \in 1 .. Len(sink) : x # r => sink'[x] = sink[x]
  BY <1>1, <1>5
<1>7. ASSUME NEW x \in Nat \ {0}, x # r, Arrived(x) PROVE Arrived(x)'
  <2>1. x \in 1 .. Len(sink)
    BY <1>5, <1>7 DEF Arrived
  <2> QED
    BY <1>1, <1>2, <1>5, <1>6, <1>7, <2>1, ArrivedStays DEF Arrived
<1>8. EndInReplies \/ EndAnswered => Arrived(Len(source))'
  <2> SUFFICES ASSUME EndInReplies \/ EndAnswered PROVE Arrived(Len(source))'
    OBVIOUS
  <2>1. Arrived(Len(source)) /\ Len(source) \in Nat \ {0}
    BY <1>5 DEF ContentInv, EchoOK
  <2>2. r = Len(source) + 1
    BY <1>3, <1>4 DEF ContentInv, AheadOK
  <2>3. PICK x \in Nat \ {0} : x = Len(source)
    BY <2>1
  <2>4. Arrived(x)'
    BY <1>7, <2>1, <2>2, <2>3
  <2>5. Len(source)' = x
    BY <1>1, <2>3
  <2> QED
    BY <2>4, <2>5 DEF Arrived, Full
<1>9. WrittenOK'
  <2>1. sink[r] = ep[Consumer].aggregate /\ ep[Consumer].frame.checksum = <<b>> /\ ~ep[Consumer].completed
    BY <1>3 DEF ContentInv, WrittenOK, b
  <2>2. Append(ep[Consumer].aggregate, b) = ep[Consumer].aggregate \o <<b>>
    BY <1>5, SMTT(30)
  <2> QED
    BY <1>1, <1>2, <1>4, <1>6, <2>1, <2>2 DEF WrittenOK
<1>10. OkArrived'
  <2> SUFFICES ASSUME NEW p \in Processes, NEW x \in DOMAIN outcome[p], outcome[p][x] = "ok"
               PROVE  Arrived(x)'
    BY <1>1 DEF OkArrived
  <2>1. x # r /\ x \in Nat \ {0}
    BY OkBefore, Types
  <2>2. Arrived(x)
    BY DEF ContentInv, OkArrived
  <2> QED
    BY <1>7, <2>1, <2>2
<1>11. Holding /\ ~Ending(ep'[Consumer].frame)
  BY <1>1, <1>3 DEF Holding, Ending
<1> QED
  BY <1>1, <1>3, <1>4, <1>8, <1>9, <1>10, <1>11, ConsumerContent

\* The consumer answers a frame; its answer to COMPLETE vouches for its sink.
LEMMA ConsumerAnswers ==
  ASSUME StreamType, CallInv, Orderly, ContentInv, Pushes(Consumer)
  PROVE  ContentInv'
<1>0. Consumer \in Processes /\ Producer \in Processes /\ Producer # Consumer
  BY Ends
<1> DEFINE q == arena["releases"].q
           f == ep[Consumer].frame
           r == Round(Consumer)
           done == ep[Consumer].completed
<1>1. /\ Moves(Consumer) /\ SameBody(Consumer) /\ source' = source /\ sink' = sink /\ outcome' = outcome /\ slot' = slot
      /\ ep[Consumer].pc = "try" /\ ep'[Consumer].pc = "store" /\ ep[Consumer].op = "push"
      /\ ep'[Consumer].op = "push" /\ ep'[Consumer].frame = f /\ ep'[Consumer].completed = done
  BY DEF Pushes, SameBody
<1>2. /\ Producer' = Producer /\ Consumer' = Consumer /\ TotalBytes' = TotalBytes
      /\ ep'[Producer] = ep[Producer] /\ Pushing' = Pushing
      /\ InCall(Producer)' = InCall(Producer) /\ EndAnswered' = EndAnswered
  BY <1>1, ConsumerFrame
<1>3. arena'["data"] = arena["data"] /\ arena'["releases"].q = Append(q, f)
  <2>1. ArenaOf(Consumer) = "releases"
    BY <1>0 DEF ArenaOf, Pushes
  <2> QED
    BY <2>1 DEF Pushes, Arenas
<1>4. q \in Seq(Frame) /\ f \in Frame /\ Len(q) \in Nat /\ done \in BOOLEAN /\ Len(source) \in Nat /\ r \in Nat
  BY <1>0, Types, Fields DEF Arenas, Round
<1>5. /\ DOMAIN Append(q, f) = 1 .. Len(q) + 1 /\ DOMAIN q = 1 .. Len(q)
      /\ \A i \in 1 .. Len(q) : Append(q, f)[i] = q[i]
      /\ Append(q, f)[Len(q) + 1] = f
  BY <1>4
<1>6. /\ Holding /\ ~Holding' /\ ~Echoed /\ Echoed' = done /\ Live /\ Live' /\ InCall(Consumer) /\ InCall(Consumer)'
  <2>1. Holding /\ ~Holding' /\ ~Echoed /\ InCall(Consumer) /\ InCall(Consumer)'
    BY <1>1, <1>2 DEF Holding, Echoed, Waiting, Done, InCall
  <2>2. Echoed' = done
    BY <1>1, <1>2, <1>4 DEF Echoed, Done
  <2>3. Live /\ Live'
    BY <1>0, <1>1, <1>2, <2>1 DEF Live, AllOk, At, Orderly, OutcomesOK, InCall
  <2> QED
    BY <2>1, <2>2, <2>3
<1>7. r' = r /\ NextRound = r /\ NextRound' = r + One(done)
  BY <1>1, <1>2, <1>4, <1>6 DEF Round, NextRound, One
<1>8. r = Len(source)
  BY <1>6, <1>7 DEF ContentInv, RoundOK
<1>9. /\ sink[r] = ep[Consumer].aggregate
      /\ done => Ending(f) /\ f.checksum = ep[Consumer].aggregate
      /\ ~done => f.kind = "Released" /\ ~Ending(f)
  BY <1>1, <1>6 DEF ContentInv, WrittenOK, Waiting, Ending
<1>10. done => Len(source) >= 1 /\ Arrived(Len(source)) /\ arena["data"].q = <<>>
               /\ (InCall(Producer) => ep[Producer].completed /\ ~Pushing)
  <2> SUFFICES ASSUME done PROVE Len(source) >= 1 /\ Arrived(Len(source)) /\ arena["data"].q = <<>>
                                 /\ (InCall(Producer) => ep[Producer].completed /\ ~Pushing)
    OBVIOUS
  <2>1. EndHeld
    BY <1>6, <1>9 DEF EndHeld
  <2>2. Len(source) >= 1 /\ Run(Len(source), f.checksum, Full(Len(source)))
    BY <1>6, <1>9 DEF ContentInv, CompleteOK, WholeFrame
  <2>3. Len(sink) >= r
    BY <1>4, <1>6 DEF CallInv
  <2> QED
    BY <1>4, <1>8, <1>9, <2>1, <2>2, <2>3 DEF Arrived, ContentInv, LastOK
<1>11. /\ EndInData' = EndInData /\ Finished' = Finished /\ ~EndHeld'
       /\ EndInReplies' => EndInReplies \/ done
  <2>1. EndInData' = EndInData /\ Finished' = Finished /\ ~EndHeld'
    BY <1>1, <1>2, <1>3, <1>6 DEF EndInData, Finished, AllOk, EndHeld
  <2>2. ASSUME EndInReplies', ~done PROVE EndInReplies
    <3>1. PICK i \in 1 .. Len(q) + 1 : Ending(Append(q, f)[i])
      BY <1>3, <1>5, <2>2 DEF EndInReplies
    <3>2. i # Len(q) + 1
      BY <1>5, <1>9, <2>2, <3>1
    <3>3. i \in 1 .. Len(q)
      BY <1>4, <3>1, <3>2
    <3> QED
      BY <1>5, <3>1, <3>3 DEF EndInReplies
  <2> QED
    BY <2>1, <2>2
<1>12. LastOK'
  BY <1>2, <1>3, <1>11 DEF ContentInv, LastOK
<1>13. RoundOK'
  <2>1. CASE done
    <3>1. One(done) = 1
      BY <2>1 DEF One
    <3> QED
      BY <1>1, <1>2, <1>3, <1>6, <1>7, <1>8, <1>10, <2>1, <3>1 DEF RoundOK
  <2>2. CASE ~done
    <3>1. NextRound' = r
      BY <1>4, <1>7, <2>2 DEF One
    <3> QED
      BY <1>1, <1>8, <3>1 DEF RoundOK
  <2> QED
    BY <2>1, <2>2
<1>14. AheadOK'
  <2>1. CASE done
    <3>1. One(done) = 1
      BY <2>1 DEF One
    <3> QED
      BY <1>1, <1>7, <1>8, <3>1 DEF AheadOK
  <2>2. CASE ~done
    <3>1. NextRound' = NextRound
      BY <1>4, <1>7, <2>2 DEF One
    <3> QED
      BY <1>1, <1>2, <1>6, <1>11, <2>2, <3>1 DEF ContentInv, AheadOK
  <2> QED
    BY <2>1, <2>2
<1>15. ReadOK'
  BY <1>1, ConsumerReadOK DEF ContentInv
<1>16. CompleteOK'
  <2>1. WholeFrame(f) /\ \A i \in 1 .. Len(q) : WholeFrame(q[i])
    BY <1>5, <1>6 DEF ContentInv, CompleteOK, Arenas
  <2>2. \A i \in 1 .. Len(q) + 1 : WholeFrame(Append(q, f)[i])
    <3> TAKE i \in 1 .. Len(q) + 1
    <3>1. i \in 1 .. Len(q) \/ i = Len(q) + 1
      BY <1>4
    <3> QED
      BY <1>5, <2>1, <3>1
  <2>3. \A x : WholeFrame(x) => WholeFrame(x)'
    BY <1>1, <1>2 DEF WholeFrame, Full
  <2>4. (\A i \in DOMAIN arena["releases"].q : WholeFrame(arena["releases"].q[i]))'
    BY <1>1, <1>2, <1>3, <1>5, <2>2 DEF WholeFrame, Full
  <2>5. (\A i \in DOMAIN arena["data"].q : WholeFrame(arena["data"].q[i]))'
    BY <1>1, <1>2, <1>3 DEF WholeFrame, Full, ContentInv, CompleteOK, Arenas
  <2>6. Pushing' => WholeFrame(ep[Producer].frame)'
    BY <1>1, <1>2 DEF ContentInv, CompleteOK, WholeFrame, Full
  <2> QED
    BY <1>6, <2>4, <2>5, <2>6 DEF CompleteOK, Arenas
<1>17. WrittenOK'
  BY <1>1, <1>2, <1>6, <1>7, <1>9 DEF ContentInv, WrittenOK, SameBody, Waiting, Done
<1>18. EchoOK'
  <2>1. Arrived(Len(source))' = Arrived(Len(source)) /\ Arrived(r)' = Arrived(r)
    BY <1>1, <1>2, <1>7 DEF Arrived, Full
  <2> QED
    BY <1>1, <1>2, <1>6, <1>8, <1>10, <1>11, <2>1 DEF ContentInv, EchoOK
<1>19. OkArrived'
  BY <1>1, <1>2, OkArrivedStays DEF ContentInv
<1> QED
  BY <1>12, <1>13, <1>14, <1>15, <1>16, <1>17, <1>18, <1>19 DEF ContentInv

\* The consumer takes a frame.
LEMMA ConsumerTakes ==
  ASSUME StreamType, CallInv, ContentInv, Pops(Consumer)
  PROVE  ContentInv'
<1>0. Consumer \in Processes /\ Producer \in Processes /\ Producer # Consumer
  BY Ends
<1> DEFINE q == arena["data"].q
           l == Len(q)
<1>1. /\ Moves(Consumer) /\ SameBody(Consumer) /\ source' = source /\ sink' = sink /\ outcome' = outcome /\ slot' = slot
      /\ ep[Consumer].pc = "try" /\ ep'[Consumer].pc = "store" /\ ep[Consumer].op = "pop" /\ ep'[Consumer].op = "pop"
  BY DEF Pops, SameBody
<1>2. /\ Producer' = Producer /\ Consumer' = Consumer /\ TotalBytes' = TotalBytes
      /\ ep'[Producer] = ep[Producer] /\ Pushing' = Pushing
      /\ InCall(Producer)' = InCall(Producer) /\ EndAnswered' = EndAnswered
  BY <1>1, ConsumerFrame
<1>3. /\ arena'["releases"] = arena["releases"] /\ q # <<>> /\ q \in Seq(Frame)
      /\ arena'["data"].q = Tail(q) /\ ep'[Consumer].frame = Head(q)
  <2>1. ArenaOf(Consumer) = "data"
    BY <1>0 DEF ArenaOf, Pops
  <2> QED
    BY <2>1, FlightTypes DEF Pops, Arenas
<1>4. /\ Len(Tail(q)) = l - 1 /\ Head(q) = q[1] /\ l \in Nat /\ l >= 1
      /\ \A i \in 1 .. l - 1 : Tail(q)[i] = q[i + 1]
      /\ DOMAIN Tail(q) = 1 .. l - 1 /\ DOMAIN q = 1 .. l
  BY <1>3
<1>5. /\ Holding' /\ ~Holding /\ ~Echoed /\ ~Echoed' /\ Live' = Live /\ InCall(Consumer) /\ InCall(Consumer)'
  BY <1>1, <1>2 DEF Holding, Echoed, Waiting, Done, InCall, Live, AllOk, At
<1>6. Round(Consumer)' = Round(Consumer) /\ NextRound' = NextRound
  BY <1>1, <1>2, <1>5 DEF Round, NextRound, One
<1>7. /\ EndInReplies' = EndInReplies /\ Finished' = Finished
      /\ EndInData' => EndInData
      /\ EndHeld' => EndInData /\ l = 1
  <2>1. EndInReplies' = EndInReplies /\ Finished' = Finished
    BY <1>1, <1>2, <1>3 DEF EndInReplies, Finished, AllOk
  <2>2. ASSUME EndInData' PROVE EndInData
    <3>1. PICK i \in 1 .. l - 1 : Ending(Tail(q)[i])
      BY <1>3, <1>4, <2>2 DEF EndInData
    <3>2. i + 1 \in 1 .. l /\ Ending(q[i + 1])
      BY <1>4, <3>1
    <3> QED
      BY <1>4, <3>2 DEF EndInData
  <2>3. ASSUME EndHeld' PROVE EndInData /\ l = 1
    <3>1. Ending(q[1]) /\ 1 \in 1 .. l
      BY <1>2, <1>3, <1>4, <2>3 DEF EndHeld
    <3> QED
      BY <1>4, <3>1 DEF EndInData, ContentInv, LastOK
  <2> QED
    BY <2>1, <2>2, <2>3
<1>8. LastOK'
  <2>1. ASSUME NEW i \in 1 .. l - 1, Ending(Tail(q)[i]) PROVE i = l - 1
    <3>1. i + 1 \in 1 .. l /\ Ending(q[i + 1])
      BY <1>4, <2>1
    <3>2. i + 1 = l
      BY <1>4, <3>1 DEF ContentInv, LastOK
    <3> QED
      BY <1>4, <3>2
  <2>2. EndHeld' => arena'["data"].q = <<>>
    <3> SUFFICES ASSUME EndHeld' PROVE arena'["data"].q = <<>>
      OBVIOUS
    <3>1. Len(Tail(q)) = 0 /\ Tail(q) \in Seq(Frame)
      BY <1>3, <1>4, <1>7
    <3>2. \A s \in Seq(Frame) : Len(s) = 0 => s = <<>>
      OBVIOUS
    <3>3. Tail(q) = <<>>
      BY <3>1, <3>2
    <3> QED
      BY <1>3, <3>3
  <2>3. (EndInData' \/ EndHeld') /\ InCall(Producer) => ep[Producer].completed /\ ~Pushing
    BY <1>7 DEF ContentInv, LastOK
  <2>4. (\A i \in DOMAIN arena["data"].q : Ending(arena["data"].q[i]) => i = Len(arena["data"].q))'
    BY <1>3, <1>4, <2>1
  <2>5. Pushing /\ Ending(ep[Producer].frame) => ep[Producer].completed
    BY DEF ContentInv, LastOK
  <2> QED
    BY <1>2, <2>2, <2>3, <2>4, <2>5 DEF LastOK
<1>9. RoundOK'
  BY <1>1, <1>3, <1>5, <1>6 DEF ContentInv, RoundOK
<1>10. AheadOK'
  BY <1>1, <1>2, <1>5, <1>6, <1>7 DEF ContentInv, AheadOK
<1>11. ReadOK'
  BY <1>1, ConsumerReadOK DEF ContentInv
<1>12. CompleteOK'
  <2>1. \A i \in 1 .. l : WholeFrame(q[i])
    BY <1>4 DEF ContentInv, CompleteOK, Arenas
  <2>2. WholeFrame(Head(q)) /\ \A i \in 1 .. l - 1 : WholeFrame(Tail(q)[i])
    <3>1. WholeFrame(Head(q))
      BY <1>4, <2>1
    <3>2. ASSUME NEW i \in 1 .. l - 1 PROVE WholeFrame(Tail(q)[i])
      <4>1. i + 1 \in 1 .. l /\ Tail(q)[i] = q[i + 1]
        BY <1>4
      <4> QED
        BY <2>1, <4>1
    <3> QED
      BY <3>1, <3>2
  <2>3. (\A i \in DOMAIN arena["data"].q : WholeFrame(arena["data"].q[i]))'
    BY <1>1, <1>2, <1>3, <1>4, <2>2 DEF WholeFrame, Full
  <2>4. (\A i \in DOMAIN arena["releases"].q : WholeFrame(arena["releases"].q[i]))'
    BY <1>1, <1>2, <1>3 DEF WholeFrame, Full, ContentInv, CompleteOK, Arenas
  <2>5. WholeFrame(ep[Consumer].frame)'
    BY <1>1, <1>2, <1>3, <2>2 DEF WholeFrame, Full
  <2>6. Pushing' => WholeFrame(ep[Producer].frame)'
    BY <1>1, <1>2 DEF ContentInv, CompleteOK, WholeFrame, Full
  <2> QED
    BY <2>3, <2>4, <2>5, <2>6 DEF CompleteOK, Arenas
<1>13. WrittenOK'
  BY <1>1, <1>2, <1>5, <1>6 DEF ContentInv, WrittenOK, SameBody, Waiting, Done
<1>14. EchoOK'
  <2>1. Arrived(Len(source))' = Arrived(Len(source))
    BY <1>1, <1>2 DEF Arrived, Full
  <2> QED
    BY <1>1, <1>2, <1>5, <1>7, <2>1 DEF ContentInv, EchoOK
<1>15. OkArrived'
  BY <1>1, <1>2, OkArrivedStays DEF ContentInv
<1> QED
  BY <1>8, <1>9, <1>10, <1>11, <1>12, <1>13, <1>14, <1>15 DEF ContentInv

\* Every step of the consumer keeps the contents.
LEMMA ConsumerKeeps ==
  ASSUME StreamType, CallInv, Orderly, ContentInv, Effect(Consumer),
         Calls(Consumer) => AllOk(Consumer)
  PROVE  ContentInv'
<1>0. Producer # Consumer /\ Consumer \in Processes
  BY Ends
<1>1. CASE Calls(Consumer)
  BY <1>1, ConsumerCalls
<1>2. CASE Parking(Consumer)
  BY <1>2, ConsumerParks
<1>3. CASE Returning(Consumer, "error") \/ Finishes(Consumer) \/ Departs(Consumer)
  BY <1>3, ConsumerLeaves
<1>4. CASE \/ Turns(Consumer)
           \/ /\ ep[Consumer].pc = "notified" /\ ep[Consumer].op = "pop"
              /\ Echoes(Consumer) \/ Sinks(Consumer)
  BY <1>4, ConsumerTurns
<1>5. CASE ep[Consumer].pc = "sink" /\ Writes(Consumer)
  BY <1>5, ConsumerWrites
<1>6. CASE Pushes(Consumer)
  BY <1>6, ConsumerAnswers
<1>7. CASE Pops(Consumer)
  BY <1>7, ConsumerTakes
<1> QED
  BY <1>0, <1>1, <1>2, <1>3, <1>4, <1>5, <1>6, <1>7
     DEF Effect, Confirms, Eofs, GoesOn, WritesSlot, Reads, Resumes, Counts

\* What a step of the producer leaves alone.
LEMMA ProducerView ==
  ASSUME StreamType, Moves(Producer), outcome'[Consumer] = outcome[Consumer]
  PROVE  /\ Producer' = Producer /\ Consumer' = Consumer /\ TotalBytes' = TotalBytes
         /\ ChunkBytes' = ChunkBytes /\ Chunks' = Chunks
         /\ ep'[Consumer] = ep[Consumer] /\ Holding' = Holding /\ Echoed' = Echoed /\ Live' = Live
         /\ InCall(Consumer)' = InCall(Consumer) /\ EndHeld' = EndHeld
         /\ Round(Consumer)' = Round(Consumer) /\ NextRound' = NextRound
<1>1. /\ Producer' = Producer /\ Consumer' = Consumer /\ TotalBytes' = TotalBytes
      /\ ChunkBytes' = ChunkBytes /\ Chunks' = Chunks
  BY Frames
<1>2. ep'[Consumer] = ep[Consumer]
  BY Ends DEF Moves
<1>3. Holding' = Holding /\ Echoed' = Echoed /\ Live' = Live /\ InCall(Consumer)' = InCall(Consumer)
  BY <1>1, <1>2 DEF Holding, Echoed, Live, AllOk, At, InCall
<1>4. EndHeld' = EndHeld /\ Round(Consumer)' = Round(Consumer)
  BY <1>1, <1>2, <1>3 DEF EndHeld, Round
<1>5. NextRound' = NextRound
  BY <1>3, <1>4 DEF NextRound, One
<1> QED
  BY <1>1, <1>2, <1>3, <1>4, <1>5

\* The sinks do not depend on the producer, who leaves the slot alone that
\* write_all is reading.
LEMMA ProducerWrittenOK ==
  ASSUME StreamType, CallInv, CustodyInv, WrittenOK, Moves(Producer), outcome'[Consumer] = outcome[Consumer],
         sink' = sink,
         \/ slot' = slot
         \/ /\ ep[Producer].pc \in {"write", "read"}
            /\ \E b : slot' = [slot EXCEPT ![SlotOf(ep[Producer].chunks)] = b]
  PROVE  WrittenOK'
<1>1. /\ Consumer' = Consumer /\ ep'[Consumer] = ep[Consumer] /\ InCall(Consumer)' = InCall(Consumer)
      /\ Round(Consumer)' = Round(Consumer)
  BY ProducerView
<1>2. InCall(Consumer) /\ ep[Consumer].pc = "sink" => slot'[ep[Consumer].frame.slot] = slot[ep[Consumer].frame.slot]
  <2> SUFFICES ASSUME InCall(Consumer), ep[Consumer].pc = "sink", slot' # slot
               PROVE  slot'[ep[Consumer].frame.slot] = slot[ep[Consumer].frame.slot]
    OBVIOUS
  <2>1. ep[Consumer].op = "pop" /\ ep[Consumer].frame.kind = "Data" /\ ep[Consumer].frame.slot \in 0 .. Slots - 1
    BY DEF CallInv, WrittenOK
  <2>2. ep[Consumer].frame.slot \in Leased
    BY <2>1 DEF Leased
  <2>3. SlotOf(ep[Producer].chunks) # ep[Consumer].frame.slot
    BY <2>2, CustodyHolds DEF SlotExclusive
  <2> QED
    BY <2>1, <2>3 DEF StreamType
<1> QED
  BY <1>1, <1>2 DEF WrittenOK

\* A step of the producer inside its call that passes no frame.
LEMMA ProducerContent ==
  ASSUME StreamType, CallInv, ContentInv, Moves(Producer), arena' = arena, source' = source, sink' = sink,
         outcome' = outcome, InCall(Producer), InCall(Producer)',
         ep[Producer].completed /\ ~Pushing => ep'[Producer].completed /\ ~Pushing',
         EndAnswered' => EndAnswered,
         Pushing' => WholeFrame(ep[Producer].frame)',
         Pushing' /\ Ending(ep'[Producer].frame) => ep'[Producer].completed,
         ReadOK', WrittenOK'
  PROVE  ContentInv'
<1>1. /\ Producer' = Producer /\ Consumer' = Consumer /\ TotalBytes' = TotalBytes
      /\ ep'[Consumer] = ep[Consumer] /\ Holding' = Holding /\ Echoed' = Echoed /\ Live' = Live /\ EndHeld' = EndHeld
      /\ Round(Consumer)' = Round(Consumer) /\ NextRound' = NextRound
  BY ProducerView
<1>2. EndInData' = EndInData /\ EndInReplies' = EndInReplies /\ Finished' = Finished
  BY <1>1 DEF EndInData, EndInReplies, Finished, AllOk
<1>3. LastOK'
  BY <1>1, <1>2 DEF ContentInv, LastOK
<1>4. RoundOK'
  BY <1>1 DEF ContentInv, RoundOK
<1>5. AheadOK'
  BY <1>1, <1>2 DEF ContentInv, AheadOK
<1>6. CompleteOK'
  <2>1. (\A a \in Arenas : \A i \in DOMAIN arena[a].q : WholeFrame(arena[a].q[i]))'
    BY <1>1 DEF ContentInv, CompleteOK, WholeFrame, Full
  <2>2. Holding' => WholeFrame(ep[Consumer].frame)'
    BY <1>1 DEF ContentInv, CompleteOK, WholeFrame, Full
  <2> QED
    BY <2>1, <2>2 DEF CompleteOK
<1>7. EchoOK'
  <2>1. /\ Arrived(Len(source))' = Arrived(Len(source))
        /\ Arrived(Round(Consumer))' = Arrived(Round(Consumer))
    BY <1>1 DEF Arrived, Full
  <2> QED
    BY <1>1, <1>2, <2>1 DEF ContentInv, EchoOK
<1>8. OkArrived'
  BY <1>1, OkArrivedStays DEF ContentInv
<1> QED
  BY <1>3, <1>4, <1>5, <1>6, <1>7, <1>8 DEF ContentInv

\* Runs of bytes.
LEMMA RunEmpty ==
  ASSUME NEW r
  PROVE  Run(r, <<>>, 0)
  BY DEF Run

\* A run of bytes followed by the next bytes of its round is a run.
LEMMA RunAppend ==
  ASSUME NEW r \in Nat, NEW s \in Seq(Bytes), NEW n \in Nat, NEW len \in Nat \ {0}, Run(r, s, n)
  PROVE  Run(r, Append(s, <<r, n, len>>), n + len)
<1> DEFINE b == <<r, n, len>>
           t == Append(s, b)
           l == Len(s)
<1>1. b \in Bytes /\ b[1] = r /\ b[2] = n /\ b[3] = len /\ l \in Nat
  BY DEF Bytes
<1> HIDE DEF b
<1>2. /\ t \in Seq(Bytes) /\ Len(t) = l + 1 /\ DOMAIN t = 1 .. l + 1 /\ DOMAIN s = 1 .. l
      /\ \A i \in 1 .. l : t[i] = s[i]
      /\ t[l + 1] = b /\ t # <<>>
  BY <1>1
<1> HIDE DEF t
<1>3. Last(t) = b
  BY <1>2 DEF Last
<1>4. IF l = 0 THEN n = 0 ELSE n = s[l][2] + s[l][3]
  BY <1>1 DEF Run, Last
<1>5. ASSUME NEW i \in 1 .. l + 1
      PROVE  t[i][1] = r /\ t[i][3] > 0 /\ t[i][2] = IF i = 1 THEN 0 ELSE t[i - 1][2] + t[i - 1][3]
  <2>1. CASE i = l + 1
    <3>1. t[i][1] = r /\ t[i][3] > 0 /\ t[i][2] = n
      BY <1>1, <1>2, <2>1
    <3>2. CASE l = 0
      BY <1>4, <2>1, <3>1, <3>2
    <3>3. CASE l # 0
      <4>1. i # 1 /\ i - 1 = l /\ l \in 1 .. l
        BY <1>1, <2>1, <3>3
      <4>2. t[i - 1] = s[l]
        BY <1>2, <4>1
      <4> QED
        BY <1>4, <3>1, <3>3, <4>1, <4>2
    <3> QED
      BY <3>2, <3>3
  <2>2. CASE i \in 1 .. l
    <3>1. t[i] = s[i] /\ i \in DOMAIN s
      BY <1>2, <2>2
    <3>2. s[i][1] = r /\ s[i][3] > 0 /\ s[i][2] = IF i = 1 THEN 0 ELSE s[i - 1][2] + s[i - 1][3]
      BY <3>1 DEF Run
    <3>3. i # 1 => t[i - 1] = s[i - 1]
      <4>1. i # 1 => i - 1 \in 1 .. l
        BY <1>1, <2>2
      <4> QED
        BY <1>2, <4>1
    <3> QED
      BY <3>1, <3>2, <3>3
  <2> QED
    BY <1>1, <2>1, <2>2
<1>6. Last(t)[2] + Last(t)[3] = n + len
  BY <1>1, <1>3
<1>7. Run(r, t, n + len)
  BY <1>2, <1>5, <1>6 DEF Run
<1> QED
  BY <1>7 DEF t, b

\* The chunks of a shape cover its bytes.
LEMMA ChunksCover ==
  ASSUME StreamType
  PROVE  Chunks * ChunkBytes >= TotalBytes
<1>1. ChunkBytes \in Nat \ {0} /\ TotalBytes \in Nat
  BY ShapeFacts
<1> DEFINE a == TotalBytes
           b == ChunkBytes
           q == (a + b - 1) \div b
           m == (a + b - 1) % b
<1>2. a + b - 1 = b * q + m /\ m < b /\ q \in Int /\ m \in Int
  <2>1. \A x \in Nat, y \in Nat \ {0} : x = y * (x \div y) + (x % y) /\ x % y < y /\ x \div y \in Int /\ x % y \in Int
    BY SMT
  <2>2. a + b - 1 \in Nat
    BY <1>1
  <2> QED
    BY <1>1, <2>1, <2>2
<1>3. q * b >= a
  <2>1. b * q = q * b /\ b * q \in Int
    BY <1>1, <1>2, SMT
  <2> HIDE DEF q, m
  <2> QED
    BY <1>1, <1>2, <2>1
<1> QED
  BY <1>3 DEF Chunks, DivCeil

\* What the producer knows of its reader of n bytes, and its next move.
ReadFacts(e, r, n) ==
  /\ Run(r, e.aggregate, e.total)
  /\ e.total <= Least(n, TotalBytes)
  /\ e.mode = "exact" => e.total = Least(e.chunks * ChunkBytes, TotalBytes) /\ e.chunks <= Chunks
  /\ e.mode = "to_end" /\ e.eof => e.total = n

\* Going round the loop keeps what the producer knows of its reading.
LEMMA NextReads ==
  ASSUME StreamType, NEW e \in Endpoint, NEW y \in Endpoint, NextMove(e, y), NEW r, NEW n \in Nat, ReadFacts(e, r, n)
  PROVE  /\ ReadFacts(y, r, n)
         /\ y.mode = "to_end" /\ y.pc \in {"write", "read"} => y.total < TotalBytes
         /\ y.op = "push" /\ y.pc \in Waiting =>
              Ending(y.frame) /\ y.completed /\ Run(r, y.frame.checksum, Least(n, TotalBytes))
         /\ e.completed => y.completed /\ ~ (y.op = "push" /\ y.pc \in Waiting)
<1>1. /\ e.total \in Nat /\ e.chunks \in Nat /\ e.mode \in {"exact", "to_end"} /\ e.aggregate \in Seq(Bytes)
      /\ TotalBytes \in Nat /\ ChunkBytes \in Nat \ {0} /\ Chunks \in Nat
  BY Fields, ShapeFacts
<1>2. ReadFacts(y, r, n)
  BY DEF ReadFacts, NextMove
<1>3. y.mode = "to_end" /\ y.pc \in {"write", "read"} => y.total < TotalBytes
  BY <1>1 DEF ReadFacts, NextMove, Least
<1>4. ASSUME y.op = "push", y.pc \in Waiting
      PROVE  Ending(y.frame) /\ y.completed /\ Run(r, y.frame.checksum, Least(n, TotalBytes))
  <2>1. AtEnd(e) /\ y.frame = Complete(FinalTotal(e), e.aggregate) /\ y.completed
    BY <1>4 DEF NextMove, Waiting
  <2>2. Ending(y.frame) /\ y.frame.checksum = e.aggregate
    BY <2>1 DEF Complete, Ending
  <2>3. e.total = Least(n, TotalBytes)
    <3>1. CASE e.mode = "exact"
      <4>1. e.chunks = Chunks
        BY <2>1, <3>1 DEF AtEnd
      <4>2. e.total = TotalBytes
        <5>1. e.total = Least(Chunks * ChunkBytes, TotalBytes)
          BY <3>1, <4>1 DEF ReadFacts
        <5>2. Chunks * ChunkBytes >= TotalBytes
          BY ChunksCover
        <5>3. Chunks * ChunkBytes \in Int
          BY <1>1
        <5> DEFINE x == Chunks * ChunkBytes
        <5> HIDE DEF x
        <5>4. e.total = Least(x, TotalBytes) /\ x >= TotalBytes /\ x \in Int
          BY <5>1, <5>2, <5>3 DEF x
        <5> QED
          BY <1>1, <5>4 DEF Least
      <4> QED
        BY <1>1, <4>2 DEF ReadFacts, Least
    <3>2. CASE e.mode = "to_end"
      BY <1>1, <2>1, <3>2 DEF ReadFacts, Least, AtEnd
    <3> QED
      BY <1>1, <3>1, <3>2
  <2> QED
    BY <2>1, <2>2, <2>3 DEF ReadFacts
<1>5. e.completed => y.completed /\ ~ (y.op = "push" /\ y.pc \in Waiting)
  BY DEF NextMove, Waiting
<1> QED
  BY <1>2, <1>3, <1>4, <1>5

\* ReadOK, by what the producer knows.
LEMMA ReadFactsOK ==
  /\ ReadOK <=> (InCall(Producer) =>
       /\ ReadFacts(ep[Producer], Round(Producer), source[Round(Producer)])
       /\ ep[Producer].mode = "to_end" /\ ep[Producer].pc \in {"write", "read"} => ep[Producer].total < TotalBytes)
  /\ ReadOK' <=> (InCall(Producer)' =>
       /\ ReadFacts(ep[Producer], Round(Producer), source[Round(Producer)])'
       /\ ep'[Producer'].mode = "to_end" /\ ep'[Producer'].pc \in {"write", "read"}
            => ep'[Producer'].total < TotalBytes')
  BY DEF ReadOK, ReadFacts, Full

\* The producer's reader.
LEMMA ReaderIs ==
  ASSUME StreamType, CallInv, InCall(Producer)
  PROVE  /\ Round(Producer) = Len(source) /\ Len(source) \in Nat \ {0} /\ source[Len(source)] \in Nat
         /\ Full(Len(source)) = Least(source[Len(source)], TotalBytes)
<1>1. Round(Producer) = Len(source) /\ Round(Producer) \in Nat \ {0} /\ source \in Seq(Nat)
  BY Types, Ends DEF CallInv, Round, StreamType
<1> QED
  BY <1>1 DEF Full

\* The producer on its way to a frame, or telling the consumer about it.
LEMMA ProducerParks ==
  ASSUME StreamType, CallInv, CustodyInv, ContentInv, Parking(Producer)
  PROVE  ContentInv'
<1>1. /\ Moves(Producer) /\ arena' = arena /\ source' = source /\ sink' = sink /\ outcome' = outcome /\ slot' = slot
  BY DEF Parking
<1>2. Producer' = Producer /\ TotalBytes' = TotalBytes /\ ChunkBytes' = ChunkBytes /\ Chunks' = Chunks
  BY <1>1, ProducerView
<1>3. /\ InCall(Producer) /\ InCall(Producer)' /\ Pushing' = Pushing /\ EndAnswered' = EndAnswered
      /\ ep'[Producer].frame = ep[Producer].frame /\ ep'[Producer].completed = ep[Producer].completed
      /\ ep'[Producer].pc \notin {"write", "read"}
  BY <1>2 DEF Parking, SameBody, InCall, Pushing, EndAnswered, Answered, Waiting, Done
<1>4. Round(Producer)' = Round(Producer)
  BY <1>1, <1>2 DEF Round
<1>5. ReadOK'
  BY <1>1, <1>2, <1>3, <1>4, ReadFactsOK DEF ContentInv, ReadFacts, Parking, SameBody
<1>6. WrittenOK'
  BY <1>1, ProducerWrittenOK DEF ContentInv
<1>7. Pushing' => WholeFrame(ep[Producer].frame)'
  BY <1>1, <1>2, <1>3 DEF ContentInv, CompleteOK, WholeFrame, Full
<1>8. Pushing' /\ Ending(ep'[Producer].frame) => ep'[Producer].completed
  BY <1>3 DEF ContentInv, LastOK
<1> QED
  BY <1>1, <1>3, <1>5, <1>6, <1>7, <1>8, ProducerContent

\* The producer about to fill a slot.
LEMMA ProducerTears ==
  ASSUME StreamType, CallInv, CustodyInv, ContentInv, WritesSlot(Producer)
  PROVE  ContentInv'
<1>1. /\ Moves(Producer) /\ arena' = arena /\ source' = source /\ sink' = sink /\ outcome' = outcome
      /\ ep[Producer].pc = "write" /\ ep'[Producer].pc = "read"
  BY DEF WritesSlot
<1>2. Producer' = Producer /\ TotalBytes' = TotalBytes /\ ChunkBytes' = ChunkBytes /\ Chunks' = Chunks
  BY <1>1, ProducerView
<1>3. InCall(Producer) /\ InCall(Producer)' /\ ~Pushing' /\ ~EndAnswered' /\ ~ep[Producer].completed
  BY <1>1, <1>2 DEF InCall, Pushing, EndAnswered, Answered, Waiting, Done, CustodyInv, FlightOK
<1>4. Round(Producer)' = Round(Producer)
  BY <1>1, <1>2 DEF Round
<1>5. ReadOK'
  BY <1>1, <1>2, <1>3, <1>4, ReadFactsOK DEF ContentInv, ReadFacts, WritesSlot, SameBody
<1>6. WrittenOK'
  BY <1>1, ProducerWrittenOK DEF ContentInv, WritesSlot
<1> QED
  BY <1>1, <1>3, <1>5, <1>6, ProducerContent

\* The producer has read a chunk.
LEMMA ProducerFills ==
  ASSUME StreamType, CallInv, CustodyInv, ContentInv, NEW len \in Nat \ {0}, Reads(Producer, len)
  PROVE  ContentInv'
<1> DEFINE e == ep[Producer]
           y == ep'[Producer]
           r == Round(Producer)
           n == source[Round(Producer)]
<1>1. /\ Moves(Producer) /\ arena' = arena /\ source' = source /\ sink' = sink /\ outcome' = outcome
      /\ e.pc = "read" /\ y.pc = "try"
  BY DEF Reads
<1>2. Producer' = Producer /\ TotalBytes' = TotalBytes /\ ChunkBytes' = ChunkBytes /\ Chunks' = Chunks
  BY <1>1, ProducerView
<1>3. /\ InCall(Producer) /\ InCall(Producer)' /\ ~EndAnswered' /\ ~e.completed /\ ~AtEnd(e)
      /\ ~Ending(y.frame)
  BY <1>1, <1>2 DEF InCall, EndAnswered, Answered, Done, CustodyInv, FlightOK, Reads, Ending
<1>4. Round(Producer)' = r /\ source'[Round(Producer)'] = n
  BY <1>1, <1>2 DEF Round
<1>5. /\ e.total \in Nat /\ e.chunks \in Nat /\ e.mode \in {"exact", "to_end"} /\ e.aggregate \in Seq(Bytes)
      /\ TotalBytes \in Nat /\ ChunkBytes \in Nat \ {0} /\ Chunks \in Nat /\ n \in Nat /\ r \in Nat
  <2>1. e.total \in Nat /\ e.chunks \in Nat /\ e.mode \in {"exact", "to_end"} /\ e.aggregate \in Seq(Bytes)
    BY FlightTypes, Fields
  <2> QED
    BY <1>3, <2>1, ShapeFacts, ReaderIs
<1>6. ReadFacts(e, r, n) /\ (e.mode = "to_end" => e.total < TotalBytes)
  BY <1>1, <1>3, ReadFactsOK DEF ContentInv
<1>7. /\ y.mode = e.mode /\ y.chunks = e.chunks + 1 /\ y.total = e.total + len /\ y.eof = e.eof
      /\ y.aggregate = Append(e.aggregate, <<r, e.total, len>>)
      /\ len = Least(Least(TotalBytes - e.total, ChunkBytes), n - e.total)
      /\ e.mode = "exact" => len = Least(TotalBytes - e.total, ChunkBytes)
  BY DEF Reads, Want, Left
<1>8. Run(r, y.aggregate, y.total)
  <2> HIDE DEF e, y, r, n
  <2> QED
    BY <1>5, <1>6, <1>7, RunAppend DEF ReadFacts
<1>9. y.total <= Least(n, TotalBytes)
  <2> DEFINE t == e.total
  <2>1. t \in Nat /\ n \in Nat /\ TotalBytes \in Nat /\ ChunkBytes \in Nat
    BY <1>5
  <2>2. len = Least(Least(TotalBytes - t, ChunkBytes), n - t) /\ y.total = t + len
    BY <1>7
  <2> HIDE DEF e, y, r, n, t
  <2>3. len <= TotalBytes - t /\ len <= n - t
    BY <2>1, <2>2 DEF Least
  <2> QED
    BY <2>1, <2>2, <2>3 DEF Least
<1>10. y.mode = "exact" => y.total = Least(y.chunks * ChunkBytes, TotalBytes) /\ y.chunks <= Chunks
  <2> SUFFICES ASSUME e.mode = "exact"
               PROVE  y.total = Least(y.chunks * ChunkBytes, TotalBytes) /\ y.chunks <= Chunks
    BY <1>7
  <2>1. e.chunks # Chunks
    BY <1>3 DEF AtEnd
  <2>2. e.total = Least(e.chunks * ChunkBytes, TotalBytes) /\ e.chunks <= Chunks
    BY <1>6 DEF ReadFacts
  <2>3. (e.chunks + 1) * ChunkBytes = e.chunks * ChunkBytes + ChunkBytes /\ e.chunks * ChunkBytes \in Nat
    BY <1>5
  <2> DEFINE x == e.chunks * ChunkBytes
  <2>4. /\ y.chunks * ChunkBytes = x + ChunkBytes /\ x \in Nat /\ e.total = Least(x, TotalBytes)
    BY <1>7, <2>2, <2>3
  <2> HIDE DEF x, e, y, r, n
  <2>5. y.total = Least(x + ChunkBytes, TotalBytes)
    BY <1>5, <1>7, <2>4, SMTT(40) DEF Least
  <2>6. y.chunks <= Chunks
    <3>1. y.chunks = e.chunks + 1 /\ e.chunks \in Nat /\ Chunks \in Nat /\ e.chunks # Chunks /\ e.chunks <= Chunks
      BY <1>5, <1>7, <2>1, <2>2
    <3> QED
      BY <3>1
  <2> QED
    BY <2>4, <2>5, <2>6
<1>11. y.mode = "to_end" /\ y.eof => y.total = n
  BY <1>3, <1>7 DEF AtEnd
<1>12. ReadOK'
  BY <1>1, <1>2, <1>4, <1>8, <1>9, <1>10, <1>11, ReadFactsOK DEF ReadFacts
<1>13. WrittenOK'
  BY <1>1, ProducerWrittenOK DEF ContentInv, Reads
<1>14. WholeFrame(ep[Producer].frame)'
  BY <1>2, <1>3 DEF WholeFrame
<1> QED
  BY <1>1, <1>3, <1>12, <1>13, <1>14, ProducerContent

\* The producer's loops go on.
LEMMA ProducerGoesOn ==
  ASSUME StreamType, CallInv, CustodyInv, ContentInv, GoesOn(Producer), InCall(Producer),
         NEW e \in Endpoint, NextMove(e, ep'[Producer]), e.completed = ep[Producer].completed,
         ReadFacts(e, Round(Producer), source[Round(Producer)])
  PROVE  ContentInv'
<1> DEFINE y == ep'[Producer]
           n == source[Round(Producer)]
<1>1. /\ Moves(Producer) /\ arena' = arena /\ source' = source /\ sink' = sink /\ outcome' = outcome /\ slot' = slot
  BY DEF GoesOn, shared
<1>2. /\ Producer' = Producer /\ TotalBytes' = TotalBytes /\ ChunkBytes' = ChunkBytes /\ Chunks' = Chunks
      /\ y \in Endpoint
  BY <1>1, ProducerView, ProducerFrame
<1>3. InCall(Producer)' /\ ~EndAnswered' /\ y.pc # "read"
  BY <1>2 DEF NextMove, InCall, EndAnswered, Answered, Done
<1>4. Round(Producer)' = Round(Producer) /\ source'[Round(Producer)'] = n
  BY <1>1, <1>2 DEF Round
<1>5. Round(Producer) = Len(source) /\ Len(source) \in Nat \ {0} /\ n \in Nat
  BY ReaderIs
<1>6. /\ ReadFacts(y, Round(Producer), n)
      /\ y.mode = "to_end" /\ y.pc \in {"write", "read"} => y.total < TotalBytes
      /\ y.op = "push" /\ y.pc \in Waiting =>
           Ending(y.frame) /\ y.completed /\ Run(Round(Producer), y.frame.checksum, Least(n, TotalBytes))
      /\ e.completed => y.completed /\ ~ (y.op = "push" /\ y.pc \in Waiting)
  BY <1>2, <1>5, NextReads
<1>7. ReadOK'
  BY <1>1, <1>2, <1>4, <1>6, ReadFactsOK DEF ReadFacts
<1>8. WrittenOK'
  BY <1>1, ProducerWrittenOK DEF ContentInv
<1>9. Pushing' => Ending(y.frame) /\ y.completed /\ WholeFrame(ep[Producer].frame)'
  <2> SUFFICES ASSUME Pushing' PROVE Ending(y.frame) /\ y.completed /\ WholeFrame(ep[Producer].frame)'
    OBVIOUS
  <2>1. y.op = "push" /\ y.pc \in Waiting
    BY <1>2 DEF Pushing
  <2> QED
    BY <1>1, <1>2, <1>5, <1>6, <2>1 DEF WholeFrame, Full
<1>10. ep[Producer].completed => y.completed /\ ~Pushing'
  BY <1>2, <1>6 DEF Pushing
<1> QED
  BY <1>1, <1>3, <1>7, <1>8, <1>9, <1>10, ProducerContent

\* The producer leaves its call: with Ok, for the echo of its own COMPLETE.
LEMMA ProducerQuits ==
  ASSUME StreamType, CallInv, CustodyInv, ContentInv,
         Returning(Producer, "error") \/ Confirms(Producer) \/ Departs(Producer)
  PROVE  ContentInv'
<1>0. Consumer \in Processes /\ Producer \in Processes /\ Producer # Consumer
  BY Ends
<1>1. /\ Moves(Producer) /\ arena' = arena /\ source' = source /\ sink' = sink /\ slot' = slot
      /\ ep'[Producer].pc \in {"idle", "gone"}
  BY IdleIs DEF Returning, Confirms, Departs, shared
<1>2. outcome'[Consumer] = outcome[Consumer]
  BY <1>0 DEF Returning, Confirms, Departs, StreamType
<1>3. /\ Producer' = Producer /\ Consumer' = Consumer /\ TotalBytes' = TotalBytes
      /\ ep'[Consumer] = ep[Consumer] /\ Holding' = Holding /\ Echoed' = Echoed /\ Live' = Live /\ EndHeld' = EndHeld
      /\ Round(Consumer)' = Round(Consumer) /\ NextRound' = NextRound
  BY <1>1, <1>2, ProducerView
<1>4. ~InCall(Producer)' /\ ~Pushing' /\ ~EndAnswered'
  BY <1>1, <1>3 DEF InCall, Pushing, EndAnswered, Answered, Waiting, Done
<1>5. EndInData' = EndInData /\ EndInReplies' = EndInReplies
  BY <1>1 DEF EndInData, EndInReplies
<1>6. /\ OkArrived'
      /\ Finished' => Finished \/ EndAnswered
  <2>1. CASE Returning(Producer, "error")
    <3>1. outcome'[Producer] = Append(outcome[Producer], "error")
          /\ outcome' = [outcome EXCEPT ![Producer] = Append(@, "error")]
      BY <1>0, <2>1 DEF Returning, StreamType
    <3>2. Append(outcome[Producer], "error")[Len(outcome[Producer]) + 1] = "error"
          /\ Len(outcome[Producer]) + 1 \in DOMAIN Append(outcome[Producer], "error")
      BY <1>0, Types
    <3>3. ~Finished'
      BY <1>3, <3>1, <3>2 DEF Finished, AllOk
    <3> QED
      BY <1>0, <1>1, <1>3, <3>1, <3>3, OkArrivedReturns DEF ContentInv
  <2>2. CASE Departs(Producer)
    <3>1. outcome' = outcome
      BY <2>2 DEF Departs
    <3>2. Finished' = Finished
      BY <1>1, <1>3, <3>1 DEF Finished, AllOk
    <3> QED
      BY <1>1, <1>3, <3>1, <3>2, OkArrivedStays DEF ContentInv
  <2>3. CASE Confirms(Producer)
    <3>1. EndAnswered /\ InCall(Producer)
      BY <2>3 DEF Confirms, EndAnswered, Answered, Done, InCall
    <3>2. Arrived(Round(Producer))
      <4>1. Round(Producer) = Len(source)
        BY <3>1, ReaderIs
      <4> QED
        BY <3>1, <4>1 DEF ContentInv, EchoOK
    <3>3. outcome' = [outcome EXCEPT ![Producer] = Append(@, "ok")]
      BY <2>3 DEF Confirms, Returning
    <3> QED
      BY <1>0, <1>1, <1>3, <3>1, <3>2, <3>3, OkArrivedReturns DEF ContentInv
  <2> QED
    BY <2>1, <2>2, <2>3
<1>7. LastOK'
  BY <1>1, <1>3, <1>4, <1>5 DEF ContentInv, LastOK
<1>8. RoundOK'
  BY <1>1, <1>3, <1>4 DEF ContentInv, RoundOK
<1>9. AheadOK'
  BY <1>1, <1>3, <1>4, <1>5, <1>6 DEF ContentInv, AheadOK
<1>10. ReadOK'
  BY <1>4 DEF ReadOK
<1>11. CompleteOK'
  <2>1. (\A a \in Arenas : \A i \in DOMAIN arena[a].q : WholeFrame(arena[a].q[i]))'
    BY <1>1, <1>3 DEF ContentInv, CompleteOK, WholeFrame, Full
  <2>2. Holding' => WholeFrame(ep[Consumer].frame)'
    BY <1>1, <1>3 DEF ContentInv, CompleteOK, WholeFrame, Full
  <2> QED
    BY <1>4, <2>1, <2>2 DEF CompleteOK
<1>12. WrittenOK'
  BY <1>1, <1>2, ProducerWrittenOK DEF ContentInv
<1>13. EchoOK'
  <2>1. /\ Arrived(Len(source))' = Arrived(Len(source))
        /\ Arrived(Round(Consumer))' = Arrived(Round(Consumer))
    BY <1>1, <1>3 DEF Arrived, Full
  <2> QED
    BY <1>1, <1>3, <1>4, <1>5, <2>1 DEF ContentInv, EchoOK
<1> QED
  BY <1>6, <1>7, <1>8, <1>9, <1>10, <1>11, <1>12, <1>13 DEF ContentInv

\* The producer begins a call: the consumer is done with the last one.
LEMMA ProducerBegins ==
  ASSUME StreamType, CallInv, CustodyInv, ContentInv, Calls(Producer), AllOk(Producer)
  PROVE  ContentInv'
<1>0. Consumer \in Processes /\ Producer \in Processes /\ Producer # Consumer
  BY Ends
<1> DEFINE y == ep'[Producer]
<1>1. /\ Moves(Producer) /\ arena' = arena /\ sink' = sink /\ outcome' = outcome /\ slot' = slot
      /\ ep[Producer].pc = "idle" /\ AllOk(Producer)
  BY <1>0 DEF Calls, shared
<1>2. PICK n \in Nat : source' = Append(source, n)
  BY <1>0 DEF Calls
<1>3. PICK e \in Endpoint : /\ e.chunks = 0 /\ e.released = 0 /\ e.total = 0 /\ e.aggregate = <<>>
                            /\ e.eof = FALSE /\ e.completed = FALSE /\ NextMove(e, y)
  BY <1>0 DEF Calls
<1>4. /\ Producer' = Producer /\ Consumer' = Consumer /\ TotalBytes' = TotalBytes
      /\ ChunkBytes' = ChunkBytes /\ Chunks' = Chunks
      /\ ep'[Consumer] = ep[Consumer] /\ Holding' = Holding /\ Echoed' = Echoed /\ Live' = Live /\ EndHeld' = EndHeld
      /\ Round(Consumer)' = Round(Consumer) /\ NextRound' = NextRound /\ y \in Endpoint
  BY <1>1, ProducerView, ProducerFrame
<1>5. /\ Len(source) = Len(outcome[Producer]) /\ source \in Seq(Nat) /\ Len(source) \in Nat /\ Finished
  BY <1>1, Types DEF CallInv, At, Finished, StreamType
<1> DEFINE r == Len(source) + 1
<1>6. Len(source') = r /\ source'[r] = n /\ r \in Nat \ {0}
  BY <1>2, <1>5
<1>7. Round(Producer)' = r
  BY <1>1, <1>4, <1>5 DEF Round
<1>8. arena["data"].q = <<>> /\ arena["releases"].q = <<>> /\ ~Holding
  BY <1>5 DEF CustodyInv, QuietOK
<1>9. /\ DOMAIN arena["data"].q = {} /\ DOMAIN arena["releases"].q = {}
  BY <1>8
<1>10. ~EndInData' /\ ~EndInReplies' /\ ~EndHeld' /\ ~EndAnswered' /\ ~Finished'
  <2>1. ~EndInData' /\ ~EndInReplies' /\ ~EndHeld'
    BY <1>1, <1>4, <1>8, <1>9 DEF EndInData, EndInReplies, EndHeld
  <2>2. ~EndAnswered'
    BY <1>3, <1>4 DEF EndAnswered, Answered, Done, NextMove
  <2>3. ~Finished'
    BY <1>1, <1>4, <1>5, <1>6 DEF Finished
  <2> QED
    BY <2>1, <2>2, <2>3
<1>11. ReadFacts(e, r, n)
  <2>1. TotalBytes \in Nat /\ ChunkBytes \in Nat /\ Chunks \in Nat
    BY ShapeFacts
  <2>2. 0 * ChunkBytes = 0
    BY <2>1
  <2> QED
    BY <1>3, <2>1, <2>2, RunEmpty DEF ReadFacts, Least
<1>12. /\ ReadFacts(y, r, n)
       /\ y.mode = "to_end" /\ y.pc \in {"write", "read"} => y.total < TotalBytes
       /\ y.op = "push" /\ y.pc \in Waiting =>
            Ending(y.frame) /\ y.completed /\ Run(r, y.frame.checksum, Least(n, TotalBytes))
  <2> HIDE DEF y, r
  <2> QED
    BY <1>3, <1>4, <1>11, NextReads
<1>13. LastOK'
  <2>1. Pushing' => y.completed
    BY <1>4, <1>12 DEF Pushing
  <2> QED
    BY <1>1, <1>4, <1>9, <1>10, <2>1 DEF LastOK
<1>14. RoundOK'
  <2>1. Live => NextRound = r
    BY <1>5 DEF ContentInv, AheadOK
  <2> QED
    BY <1>4, <1>6, <2>1 DEF RoundOK
<1>15. AheadOK'
  BY <1>10 DEF AheadOK
<1>16. ReadOK'
  BY <1>4, <1>6, <1>7, <1>12, ReadFactsOK DEF ReadFacts
<1>17. CompleteOK'
  <2>1. Pushing' => WholeFrame(ep[Producer].frame)'
    BY <1>4, <1>6, <1>12 DEF Pushing, WholeFrame, Full
  <2>2. (\A a \in Arenas : \A i \in DOMAIN arena[a].q : WholeFrame(arena[a].q[i]))'
    BY <1>1, <1>9 DEF Arenas
  <2> QED
    BY <1>4, <1>8, <2>1, <2>2 DEF CompleteOK
<1>18. WrittenOK'
  BY <1>1, ProducerWrittenOK DEF ContentInv
<1>19. EchoOK'
  <2> SUFFICES ASSUME Echoed PROVE Arrived(Round(Consumer))'
    BY <1>4, <1>10 DEF EchoOK
  <2>1. Arrived(Round(Consumer)) /\ Round(Consumer) \in Nat \ {0}
    BY <1>0, Types DEF ContentInv, EchoOK, Round
  <2>2. PICK x \in Nat \ {0} : x = Round(Consumer)
    BY <2>1
  <2>3. Arrived(x)'
    BY <1>1, <1>2, <1>4, <2>1, <2>2, ArrivedGrows
  <2>4. Round(Consumer)' = x
    BY <1>4, <2>2
  <2> QED
    BY <2>3, <2>4 DEF Arrived, Full
<1>20. OkArrived'
  BY <1>1, <1>2, <1>4, OkArrivedStays DEF ContentInv
<1> QED
  BY <1>13, <1>14, <1>15, <1>16, <1>17, <1>18, <1>19, <1>20 DEF ContentInv

\* The producer pushes a frame; COMPLETE is its last.
LEMMA ProducerSends ==
  ASSUME StreamType, CallInv, CustodyInv, ContentInv, Pushes(Producer)
  PROVE  ContentInv'
<1>0. Consumer \in Processes /\ Producer \in Processes /\ Producer # Consumer
  BY Ends
<1> DEFINE q == arena["data"].q
           f == ep[Producer].frame
           l == Len(q)
<1>1. /\ Moves(Producer) /\ SameBody(Producer) /\ source' = source /\ sink' = sink /\ outcome' = outcome /\ slot' = slot
      /\ ep[Producer].pc = "try" /\ ep'[Producer].pc = "store" /\ ep[Producer].op = "push"
      /\ ep'[Producer].op = "push" /\ ep'[Producer].frame = f /\ ep'[Producer].completed = ep[Producer].completed
  BY DEF Pushes, SameBody
<1>2. /\ Producer' = Producer /\ Consumer' = Consumer /\ TotalBytes' = TotalBytes
      /\ ChunkBytes' = ChunkBytes /\ Chunks' = Chunks
      /\ ep'[Consumer] = ep[Consumer] /\ Holding' = Holding /\ Echoed' = Echoed /\ Live' = Live /\ EndHeld' = EndHeld
      /\ Round(Consumer)' = Round(Consumer) /\ NextRound' = NextRound
  BY <1>1, ProducerView
<1>3. arena'["releases"] = arena["releases"] /\ arena'["data"].q = Append(q, f)
  <2>1. ArenaOf(Producer) = "data"
    BY DEF ArenaOf, Pushes
  <2> QED
    BY <2>1 DEF Pushes, Arenas
<1>4. q \in Seq(Frame) /\ f \in Frame /\ l \in Nat
  BY FlightTypes, Fields
<1>5. /\ Len(Append(q, f)) = l + 1 /\ DOMAIN Append(q, f) = 1 .. l + 1 /\ DOMAIN q = 1 .. l
      /\ \A i \in 1 .. l : Append(q, f)[i] = q[i]
      /\ Append(q, f)[l + 1] = f
  BY <1>4
<1>6. Pushing /\ ~Pushing' /\ ~EndAnswered' /\ InCall(Producer) /\ InCall(Producer)' /\ ~Finished /\ ~Finished'
  <2>1. Pushing /\ ~Pushing' /\ ~EndAnswered' /\ InCall(Producer) /\ InCall(Producer)'
    BY <1>1, <1>2 DEF Pushing, Waiting, Done, EndAnswered, Answered, InCall
  <2>2. ~Finished /\ Finished' = Finished
    BY <1>1, <1>2, <2>1, FinishedIs DEF Finished, AllOk
  <2> QED
    BY <2>1, <2>2
<1>7. ~EndInData /\ ~EndHeld /\ \A i \in 1 .. l : ~Ending(q[i])
  BY <1>5, <1>6 DEF ContentInv, LastOK, EndInData
<1>8. LastOK'
  <2>1. \A i \in 1 .. l + 1 : Ending(Append(q, f)[i]) => i = l + 1
    <3> TAKE i \in 1 .. l + 1
    <3>1. i \in 1 .. l \/ i = l + 1
      BY <1>4
    <3> QED
      BY <1>5, <1>7, <3>1
  <2>2. (\A i \in DOMAIN arena["data"].q : Ending(arena["data"].q[i]) => i = Len(arena["data"].q))'
    BY <1>3, <1>5, <2>1
  <2>3. EndInData' => ep[Producer].completed
    <3> SUFFICES ASSUME EndInData' PROVE ep[Producer].completed
      OBVIOUS
    <3>1. PICK i \in 1 .. l + 1 : Ending(Append(q, f)[i])
      BY <1>3, <1>5 DEF EndInData
    <3>2. Ending(f)
      BY <1>5, <2>1, <3>1
    <3> QED
      BY <1>6, <3>2 DEF ContentInv, LastOK
  <2> QED
    BY <1>1, <1>2, <1>6, <1>7, <2>2, <2>3 DEF LastOK
<1>9. RoundOK'
  BY <1>1, <1>2, <1>6 DEF ContentInv, RoundOK
<1>10. AheadOK'
  <2>1. EndInReplies' = EndInReplies
    BY <1>3 DEF EndInReplies
  <2> QED
    BY <1>1, <1>2, <1>6, <2>1 DEF ContentInv, AheadOK
<1>11. ReadOK'
  <2>1. Round(Producer)' = Round(Producer)
    BY <1>1, <1>2 DEF Round
  <2> QED
    BY <1>1, <1>2, <1>6, <2>1, ReadFactsOK DEF ContentInv, ReadFacts, SameBody
<1>12. CompleteOK'
  <2>1. WholeFrame(f) /\ \A i \in 1 .. l : WholeFrame(q[i])
    BY <1>5, <1>6 DEF ContentInv, CompleteOK, Arenas
  <2>2. \A i \in 1 .. l + 1 : WholeFrame(Append(q, f)[i])
    <3> TAKE i \in 1 .. l + 1
    <3>1. i \in 1 .. l \/ i = l + 1
      BY <1>4
    <3> QED
      BY <1>5, <2>1, <3>1
  <2>3. (\A i \in DOMAIN arena["data"].q : WholeFrame(arena["data"].q[i]))'
    BY <1>1, <1>2, <1>3, <1>5, <2>2 DEF WholeFrame, Full
  <2>4. (\A i \in DOMAIN arena["releases"].q : WholeFrame(arena["releases"].q[i]))'
    BY <1>1, <1>2, <1>3 DEF WholeFrame, Full, ContentInv, CompleteOK, Arenas
  <2>5. Holding' => WholeFrame(ep[Consumer].frame)'
    BY <1>1, <1>2 DEF ContentInv, CompleteOK, WholeFrame, Full
  <2> QED
    BY <1>6, <2>3, <2>4, <2>5 DEF CompleteOK, Arenas
<1>13. WrittenOK'
  BY <1>1, ProducerWrittenOK DEF ContentInv
<1>14. EchoOK'
  <2>1. /\ Arrived(Len(source))' = Arrived(Len(source))
        /\ Arrived(Round(Consumer))' = Arrived(Round(Consumer))
    BY <1>1, <1>2 DEF Arrived, Full
  <2>2. EndInReplies' = EndInReplies
    BY <1>3 DEF EndInReplies
  <2> QED
    BY <1>1, <1>2, <1>6, <2>1, <2>2 DEF ContentInv, EchoOK
<1>15. OkArrived'
  BY <1>1, <1>2, OkArrivedStays DEF ContentInv
<1> QED
  BY <1>8, <1>9, <1>10, <1>11, <1>12, <1>13, <1>14, <1>15 DEF ContentInv

\* The producer takes an answer.
LEMMA ProducerTakes ==
  ASSUME StreamType, CallInv, CustodyInv, ContentInv, Pops(Producer)
  PROVE  ContentInv'
<1>0. Consumer \in Processes /\ Producer \in Processes /\ Producer # Consumer
  BY Ends
<1> DEFINE q == arena["releases"].q
           l == Len(q)
<1>1. /\ Moves(Producer) /\ SameBody(Producer) /\ source' = source /\ sink' = sink /\ outcome' = outcome /\ slot' = slot
      /\ ep[Producer].pc = "try" /\ ep'[Producer].pc = "store" /\ ep[Producer].op = "pop"
      /\ ep'[Producer].op = "pop" /\ ep'[Producer].completed = ep[Producer].completed
  BY DEF Pops, SameBody
<1>2. /\ Producer' = Producer /\ Consumer' = Consumer /\ TotalBytes' = TotalBytes
      /\ ChunkBytes' = ChunkBytes /\ Chunks' = Chunks
      /\ ep'[Consumer] = ep[Consumer] /\ Holding' = Holding /\ Echoed' = Echoed /\ Live' = Live /\ EndHeld' = EndHeld
      /\ Round(Consumer)' = Round(Consumer) /\ NextRound' = NextRound
  BY <1>1, ProducerView
<1>3. /\ arena'["data"] = arena["data"] /\ q # <<>> /\ q \in Seq(Frame)
      /\ arena'["releases"].q = Tail(q) /\ ep'[Producer].frame = Head(q)
  <2>1. ArenaOf(Producer) = "releases"
    BY DEF ArenaOf, Pops
  <2> QED
    BY <2>1, FlightTypes DEF Pops, Arenas
<1>4. /\ Head(q) = q[1] /\ l \in Nat /\ l >= 1
      /\ \A i \in 1 .. l - 1 : Tail(q)[i] = q[i + 1]
      /\ DOMAIN Tail(q) = 1 .. l - 1 /\ DOMAIN q = 1 .. l
  BY <1>3
<1>5. ~Pushing /\ ~Pushing' /\ InCall(Producer) /\ InCall(Producer)' /\ Finished' = Finished
  BY <1>1, <1>2 DEF Pushing, Waiting, Done, InCall, Finished, AllOk
<1>6. EndInData' = EndInData /\ (EndInReplies' \/ EndAnswered' => EndInReplies)
  <2>1. EndInData' = EndInData
    BY <1>3 DEF EndInData
  <2>2. ASSUME EndInReplies' PROVE EndInReplies
    <3>1. PICK i \in 1 .. l - 1 : Ending(Tail(q)[i])
      BY <1>3, <1>4, <2>2 DEF EndInReplies
    <3>2. i + 1 \in 1 .. l /\ Ending(q[i + 1])
      BY <1>4, <3>1
    <3> QED
      BY <1>4, <3>2 DEF EndInReplies
  <2>3. ASSUME EndAnswered' PROVE EndInReplies
    <3>1. Ending(q[1]) /\ 1 \in 1 .. l
      BY <1>2, <1>3, <1>4, <2>3 DEF EndAnswered
    <3> QED
      BY <1>4, <3>1 DEF EndInReplies
  <2> QED
    BY <2>1, <2>2, <2>3
<1>7. LastOK'
  BY <1>1, <1>2, <1>3, <1>5, <1>6 DEF ContentInv, LastOK
<1>8. RoundOK'
  BY <1>1, <1>2, <1>3, <1>5 DEF ContentInv, RoundOK
<1>9. AheadOK'
  BY <1>1, <1>2, <1>5, <1>6 DEF ContentInv, AheadOK
<1>10. ReadOK'
  <2>1. Round(Producer)' = Round(Producer)
    BY <1>1, <1>2 DEF Round
  <2> QED
    BY <1>1, <1>2, <1>5, <2>1, ReadFactsOK DEF ContentInv, ReadFacts, SameBody
<1>11. CompleteOK'
  <2>1. \A i \in 1 .. l : WholeFrame(q[i])
    BY <1>4 DEF ContentInv, CompleteOK, Arenas
  <2>2. ASSUME NEW i \in 1 .. l - 1 PROVE WholeFrame(Tail(q)[i])
    <3>1. i + 1 \in 1 .. l /\ Tail(q)[i] = q[i + 1]
      BY <1>4
    <3> QED
      BY <2>1, <3>1
  <2>3. (\A i \in DOMAIN arena["releases"].q : WholeFrame(arena["releases"].q[i]))'
    BY <1>1, <1>2, <1>3, <1>4, <2>2 DEF WholeFrame, Full
  <2>4. (\A i \in DOMAIN arena["data"].q : WholeFrame(arena["data"].q[i]))'
    BY <1>1, <1>2, <1>3 DEF WholeFrame, Full, ContentInv, CompleteOK, Arenas
  <2>5. Holding' => WholeFrame(ep[Consumer].frame)'
    BY <1>1, <1>2 DEF ContentInv, CompleteOK, WholeFrame, Full
  <2> QED
    BY <1>5, <2>3, <2>4, <2>5 DEF CompleteOK, Arenas
<1>12. WrittenOK'
  BY <1>1, ProducerWrittenOK DEF ContentInv
<1>13. EchoOK'
  <2>1. /\ Arrived(Len(source))' = Arrived(Len(source))
        /\ Arrived(Round(Consumer))' = Arrived(Round(Consumer))
    BY <1>1, <1>2 DEF Arrived, Full
  <2> QED
    BY <1>1, <1>2, <1>6, <2>1 DEF ContentInv, EchoOK
<1>14. OkArrived'
  BY <1>1, <1>2, OkArrivedStays DEF ContentInv
<1> QED
  BY <1>7, <1>8, <1>9, <1>10, <1>11, <1>12, <1>13, <1>14 DEF ContentInv

\* Every step of the producer keeps the contents.
LEMMA ProducerKeeps ==
  ASSUME StreamType, CallInv, CustodyInv, ContentInv, Effect(Producer),
         Calls(Producer) => AllOk(Producer)
  PROVE  ContentInv'
<1>0. Producer # Consumer /\ Producer \in Processes
  BY Ends
<1>1. CASE Calls(Producer)
  BY <1>1, ProducerBegins
<1>2. CASE Parking(Producer)
  BY <1>2, ProducerParks
<1>3. CASE Returning(Producer, "error") \/ Confirms(Producer) \/ Departs(Producer)
  BY <1>3, ProducerQuits
<1>4. CASE WritesSlot(Producer)
  BY <1>4, ProducerTears
<1>5. CASE \E len \in Nat \ {0} : Reads(Producer, len)
  BY <1>5, ProducerFills
<1>6. CASE Pushes(Producer)
  BY <1>6, ProducerSends
<1>7. CASE Pops(Producer)
  BY <1>7, ProducerTakes
<1>8. InCall(Producer) => ReadFacts(ep[Producer], Round(Producer), source[Round(Producer)])
  BY ReadFactsOK DEF ContentInv
<1>9. CASE Eofs(Producer)
  <2>1. GoesOn(Producer) /\ InCall(Producer)
    BY <1>9 DEF Eofs, InCall
  <2>2. PICK e \in Endpoint :
          /\ e.mode = ep[Producer].mode /\ e.chunks = ep[Producer].chunks
          /\ e.total = ep[Producer].total /\ e.aggregate = ep[Producer].aggregate
          /\ e.completed = ep[Producer].completed /\ NextMove(e, ep'[Producer])
    BY <1>9 DEF Eofs
  <2>3. /\ ep[Producer].total \in Nat /\ source[Round(Producer)] \in Nat /\ TotalBytes \in Nat
        /\ ChunkBytes \in Nat \ {0}
    BY <2>1, FlightTypes, Fields, ShapeFacts, ReaderIs
  <2>4. ep[Producer].mode = "to_end" => ep[Producer].total = source[Round(Producer)]
    <3> SUFFICES ASSUME ep[Producer].mode = "to_end" PROVE ep[Producer].total = source[Round(Producer)]
      OBVIOUS
    <3>1. CASE Left(Producer) = 0
      BY <2>3, <3>1 DEF Left
    <3>2. CASE ep[Producer].pc = "read" /\ Least(Least(TotalBytes - ep[Producer].total, ChunkBytes), Left(Producer)) = 0
      <4>1. ep[Producer].total < TotalBytes
        BY <2>1, <3>2, ReadFactsOK DEF ContentInv
      <4> QED
        BY <2>3, <3>2, <4>1 DEF Least, Left
    <3> QED
      BY <1>9, <3>1, <3>2 DEF Eofs
  <2>5. ReadFacts(e, Round(Producer), source[Round(Producer)])
    BY <1>8, <2>1, <2>2, <2>4 DEF ReadFacts
  <2> QED
    BY <2>1, <2>2, <2>5, ProducerGoesOn
<1>10. CASE Resumes(Producer)
  <2>1. GoesOn(Producer) /\ InCall(Producer) /\ NextMove(ep[Producer], ep'[Producer]) /\ ep[Producer] \in Endpoint
    BY <1>0, <1>10, Types DEF Resumes, InCall
  <2> QED
    BY <1>8, <2>1, ProducerGoesOn
<1>11. CASE Counts(Producer) /\ ep[Producer].pc = "notified"
  <2>1. GoesOn(Producer) /\ InCall(Producer)
    BY <1>11 DEF Counts, InCall
  <2>2. PICK e \in Endpoint :
          /\ e.mode = ep[Producer].mode /\ e.chunks = ep[Producer].chunks
          /\ e.total = ep[Producer].total /\ e.aggregate = ep[Producer].aggregate /\ e.eof = ep[Producer].eof
          /\ e.completed = ep[Producer].completed /\ NextMove(e, ep'[Producer])
    BY <1>11 DEF Counts
  <2>3. ReadFacts(e, Round(Producer), source[Round(Producer)])
    BY <1>8, <2>1, <2>2 DEF ReadFacts
  <2> QED
    BY <2>1, <2>2, <2>3, ProducerGoesOn
<1> QED
  BY <1>0, <1>1, <1>2, <1>3, <1>4, <1>5, <1>6, <1>7, <1>9, <1>10, <1>11
     DEF Effect, Finishes, Turns

\* A stream that has just been created.
LEMMA ContentInit == Init => ContentInv
<1> SUFFICES ASSUME Init PROVE ContentInv
  OBVIOUS
<1>0. Consumer \in Processes /\ Producer \in Processes /\ StreamType
  BY Ends, StreamInitBase
<1>1. /\ ep[Producer] = Idle /\ ep[Consumer] = Idle /\ outcome[Consumer] = <<>>
      /\ arena["data"].q = <<>> /\ arena["releases"].q = <<>>
      /\ source = <<>> /\ \A p \in Processes : outcome[p] = <<>>
  BY <1>0 DEF Init, StreamInit
<1>2. /\ ~InCall(Producer) /\ ~InCall(Consumer) /\ ~Holding /\ ~Echoed /\ ~Pushing /\ ~Answered
  BY <1>1, IdleIs DEF InCall, Holding, Echoed, Pushing, Answered, Waiting, Done
<1>3. /\ DOMAIN arena["data"].q = {} /\ DOMAIN arena["releases"].q = {} /\ Len(source) = 0
      /\ \A p \in Processes : DOMAIN outcome[p] = {}
  BY <1>1
<1>4. NextRound = Len(source) + 1
  <2>1. Round(Consumer) = 1 /\ One(Echoed) = 0
    BY <1>1, <1>2 DEF Round, One
  <2> QED
    BY <1>3, <2>1 DEF NextRound
<1>5. ~EndInData /\ ~EndInReplies /\ ~EndHeld /\ ~EndAnswered
  BY <1>2, <1>3 DEF EndInData, EndInReplies, EndHeld, EndAnswered
<1>6. LastOK /\ RoundOK /\ AheadOK
  BY <1>1, <1>2, <1>3, <1>4, <1>5 DEF LastOK, RoundOK, AheadOK
<1>7. ReadOK /\ CompleteOK /\ WrittenOK /\ EchoOK /\ OkArrived
  BY <1>2, <1>3, <1>5 DEF ReadOK, CompleteOK, WrittenOK, EchoOK, OkArrived, Arenas
<1> QED
  BY <1>6, <1>7 DEF ContentInv

\* A step of the set-up keeps ContentInv.
LEMMA StillContent ==
  ASSUME ContentInv, UNCHANGED still
  PROVE  ContentInv'
<1>1. /\ Producer' = Producer /\ Consumer' = Consumer /\ Chunks' = Chunks
      /\ ChunkBytes' = ChunkBytes /\ TotalBytes' = TotalBytes
      /\ ep' = ep /\ arena' = arena /\ slot' = slot /\ source' = source /\ sink' = sink /\ outcome' = outcome
  BY DEF still, Producer, Consumer, Chunks, TotalBytes, ChunkBytes
<1>2. /\ Holding' = Holding /\ Answered' = Answered /\ Pushing' = Pushing /\ Echoed' = Echoed /\ Live' = Live
      /\ InCall(Producer)' = InCall(Producer) /\ InCall(Consumer)' = InCall(Consumer) /\ Finished' = Finished
      /\ Round(Consumer)' = Round(Consumer) /\ Round(Producer)' = Round(Producer)
      /\ EndInData' = EndInData /\ EndInReplies' = EndInReplies
  BY <1>1 DEF Holding, Answered, Pushing, Echoed, Live, At, InCall, Finished, AllOk, Round, EndInData, EndInReplies
<1>3. NextRound' = NextRound /\ EndHeld' = EndHeld /\ EndAnswered' = EndAnswered
  BY <1>1, <1>2 DEF NextRound, One, EndHeld, EndAnswered
<1>4. LastOK' /\ RoundOK' /\ AheadOK'
  BY <1>1, <1>2, <1>3 DEF ContentInv, LastOK, RoundOK, AheadOK
<1>5. ReadOK'
  BY <1>1, <1>2 DEF ContentInv, ReadOK, Full
<1>6. CompleteOK' /\ WrittenOK'
  BY <1>1, <1>2 DEF ContentInv, CompleteOK, WholeFrame, Full, WrittenOK
<1>7. EchoOK' /\ OkArrived'
  BY <1>1, <1>2, <1>3 DEF ContentInv, EchoOK, OkArrived, Arrived, Full
<1> QED
  BY <1>4, <1>5, <1>6, <1>7 DEF ContentInv

\* Every step keeps the contents until a failed call is retried.
LEMMA ContentNext == StreamInv /\ [Next]_vars => (NoRetry => ContentInv)'
<1> SUFFICES ASSUME StreamInv, [Next]_vars, NoRetry' PROVE ContentInv'
  OBVIOUS
<1>0. StreamType /\ CallInv /\ \A r \in Processes : Unretried(r)'
  BY DEF StreamInv, NoRetry
<1>1. ASSUME NoRetry PROVE CustodyInv /\ ContentInv /\ Orderly
  BY <1>0, <1>1, OutcomesAre, Ends DEF StreamInv, NoRetry, Orderly
<1>2. ASSUME NEW p \in Processes, Effect(p) PROVE ContentInv'
  <2>1. NoRetry /\ (Calls(p) => AllOk(p))
    BY <1>0, <1>2, RetriesStay DEF NoRetry
  <2> QED
    BY <1>0, <1>1, <1>2, <2>1, ProducerKeeps, ConsumerKeeps, Ends
<1>3. CASE UNCHANGED still
  <2>1. NoRetry
    BY <1>0, <1>3, StillRetries DEF NoRetry
  <2> QED
    BY <1>0, <1>1, <1>3, <2>1, StillContent
<1> QED
  BY <1>0, <1>2, <1>3, StreamSteps, StepEffect

\* For every shape, every sequence of calls and modes, every reader and every
\* point at which a call fails or a process dies: until a failed call is
\* retried, a send or a receive that returned Ok moved the bytes of its call,
\* all of them, once and in order.
THEOREM WholeCorrect == Spec => []OkMeansWhole
<1>1. Init => StreamInv
  BY StreamInitBase, CustodyInit, ContentInit DEF StreamInv
<1>2. StreamInv /\ [Next]_vars => StreamInv'
  BY BaseNext, CustodyNext, ContentNext DEF StreamInv
<1>3. StreamInv => OkMeansWhole
  BY DEF StreamInv, NoRetry, ContentInv, OkArrived, Arrived, Run, Full, OkMeansWhole, Whole
<1> QED
  BY <1>1, <1>2, <1>3, PTL DEF Spec
=============================================================================
