------------------------------ MODULE Brokered ------------------------------
(***************************************************************************)
(* The brokered channel of mpmc/brokered/mod.rs: producer p has one ring   *)
(* into broker p % brokers, every broker has one ring to every consumer,   *)
(* and a broker thread moves values by its policy: round robin, a routing  *)
(* closure or a subscriber set.  A broker waits while a target's ring is   *)
(* full; it drops a value whose target is gone.  The closure or a clone    *)
(* may panic.                                                              *)
(***************************************************************************)
EXTENDS Grid

RingCap   == Capacity(decl)
InRing(p) == <<"in", p, 0>>
OutRing(b, c) == <<"out", b, c>>
BrokerOf(p)   == ((p - 1) % decl.brokers) + 1
Inbound(b)    == {p \in Producers : BrokerOf(p) = b}
NoLanes       == <<abandoned, live_consumers>>

IdleBroker == [pc |-> "unspawned", sweep |-> {}, at |-> 0, n |-> 0, i |-> 0, moved |-> FALSE,
               final |-> FALSE, targets |-> {}, cursor |-> 0, tried |-> 0, gone |-> 0]

\* brokered::open; the threads are started by finish_spawned_open.
BuildBrokered ==
  /\ BuildEndpoints({InRing(p) : p \in Producers} \cup {OutRing(b, c) : b \in Brokers, c \in Consumers},
       [p \in Producers |-> 0], [c \in Consumers |-> [b \in Brokers |-> OutRing(b, c)]], [c \in Consumers |-> 0])
  /\ broker' = [b \in Brokers |-> IdleBroker]

\* The endpoints of a broker that is dropped: its producers see their consumer
\* gone, what they had queued is dropped, its consumers see their producer gone.
DropBrokers(bs) ==
  ring' = [r \in DOMAIN ring |->
    IF \E b \in bs, p \in Producers : r = InRing(p) /\ BrokerOf(p) = b
    THEN [ring[r] EXCEPT !.rgone = TRUE, !.q = <<>>]
    ELSE IF \E b \in bs, c \in Consumers : r = OutRing(b, c)
    THEN [ring[r] EXCEPT !.wgone = TRUE] ELSE ring[r]]

Unspawned == {b \in DOMAIN broker : broker[b].pc = "unspawned"}
Sweep(s, b, final) == [s EXCEPT !.pc = "sweep", !.sweep = Inbound(b), !.moved = FALSE, !.final = final]
Finished == [IdleBroker EXCEPT !.pc = "done"]
Placed(s) == [s EXCEPT !.pc = "deliver", !.i = @ + 1, !.targets = {}, !.tried = 0, !.gone = 0]

\* One iteration of finish_spawned_open: the endpoints are returned after the
\* last broker thread has started.
Spawn(b) ==
  /\ opened = "spawning" /\ b = Min(Unspawned)
  /\ broker' = [broker EXCEPT ![b] = Sweep(@, b, FALSE)]
  /\ opened' = IF Unspawned = {b} THEN "open" ELSE "spawning"
  /\ UNCHANGED <<decl, edits, ring, prod, con, live_producers, NoLanes, got, due, early, panicked>>

\* The thread is refused: this broker and those after it are dropped, then
\* every consumer and every producer; the ones that run must come to an end.
SpawnFails(b) ==
  /\ opened = "spawning" /\ b = Min(Unspawned)
  /\ opened' = "invalid"
  /\ broker' = [x \in DOMAIN broker |-> IF x \in Unspawned THEN Finished ELSE broker[x]]
  /\ ring' = [r \in DOMAIN ring |->
       IF r[1] = "in" THEN [ring[r] EXCEPT !.wgone = TRUE, !.rgone = BrokerOf(r[2]) \in Unspawned]
       ELSE [ring[r] EXCEPT !.wgone = r[2] \in Unspawned, !.rgone = TRUE]]
  /\ prod' = [p \in DOMAIN prod |-> [prod[p] EXCEPT !.pc = "gone"]]
  /\ con' = [c \in DOMAIN con |-> [con[c] EXCEPT !.pc = "gone"]]
  /\ live_producers' = 0
  /\ UNCHANGED <<decl, edits, NoLanes, got, due, early, panicked>>

-----------------------------------------------------------------------------
(* Producers and consumers.                                                *)

\* send: false if the broker is gone, else the value goes in when there is
\* room.  try_send looks at the room only.
BrokeredSend(p) ==
  LET r == InRing(p) IN
  /\ prod[p].pc = "send"
  /\ IF prod[p].op = "send" /\ ring[r].rgone THEN ReturnFromSend(p, 0) /\ UNCHANGED ring
     ELSE IF Room(r, RingCap) > 0
     THEN PushValues(p, r, 1) /\ ReturnFromSend(p, 1)
     ELSE prod[p].op = "try_send" /\ ReturnFromSend(p, 0) /\ UNCHANGED ring
  /\ UNCHANGED <<con, broker, live_producers, NoLanes, got, due, early, panicked>>

BrokeredBegin(c) ==
  /\ opened = "open" /\ con[c].pc = "idle"
  /\ con' = [con EXCEPT ![c].pc = "scan", ![c].looked = 0]
  /\ UNCHANGED <<ring, prod, broker, live_producers, NoLanes, got, due, early, panicked>>

\* One ring of try_recv.
BrokeredScan(c) ==
  LET s == con[c]
      i == Index(s.cursor, Len(s.lanes))
      q == ring[s.lanes[i + 1]].q IN
  /\ s.pc = "scan"
  /\ IF q # <<>>
     THEN /\ ring' = [ring EXCEPT ![s.lanes[i + 1]].q = Tail(q)]
          /\ got' = [got EXCEPT ![c] = Append(@, Head(q))]
          /\ con' = [con EXCEPT ![c] = [Received(s, "idle") EXCEPT !.cursor = i + 1]]
     ELSE /\ con' = [con EXCEPT ![c].cursor = i + 1, ![c].looked = @ + 1,
                               ![c].pc = IF s.looked + 1 = Len(s.lanes) THEN "finished" ELSE "scan"]
          /\ UNCHANGED <<ring, got>>
  /\ UNCHANGED <<prod, broker, live_producers, NoLanes, due, early, panicked>>

\* Receiver::is_finished
IsFinished(r) == ring[r].wgone /\ ring[r].q = <<>>

\* recv returns None when every ring is finished.
BrokeredFinished(c) ==
  LET s == con[c] IN
  /\ s.pc = "finished"
  /\ con' = [con EXCEPT ![c] =
       Received(s, IF \A i \in DOMAIN s.lanes : IsFinished(s.lanes[i]) THEN "ended" ELSE "scan")]
  /\ UNCHANGED <<ring, prod, broker, live_producers, NoLanes, got, due, early, panicked>>

BrokeredConsumerDrop(c) ==
  /\ opened = "open" /\ con[c].pc \in {"idle", "ended"}
  /\ con[c].pc = "idle" => early < MaxEarly
  /\ early' = IF con[c].pc = "idle" THEN early + 1 ELSE early
  /\ con' = [con EXCEPT ![c].pc = "gone"]
  /\ ring' = [r \in DOMAIN ring |-> IF r \in ToSet(con[c].lanes)
                THEN [ring[r] EXCEPT !.rgone = TRUE, !.q = <<>>] ELSE ring[r]]
  /\ UNCHANGED <<prod, broker, live_producers, NoLanes, got, due, panicked>>

-----------------------------------------------------------------------------
(* Broker::run.                                                            *)

Set(b, s) == broker' = [broker EXCEPT ![b] = s]

\* One ring of sweep: drain_in_place takes up to a batch of what is there; the
\* last sweep takes it all.
Drain(b) ==
  LET s == broker[b]
      p == Min(s.sweep)
      len == Len(ring[InRing(p)].q)
      n == IF s.final THEN len ELSE Lesser(decl.batch, len) IN
  /\ s.pc = "sweep" /\ s.sweep # {}
  /\ Set(b, [s EXCEPT !.sweep = @ \ {p}, !.at = IF n = 0 THEN 0 ELSE p, !.n = n,
                    !.pc = IF n = 0 THEN "sweep" ELSE "deliver"])
  /\ UNCHANGED <<ring, prod, con, live_producers, NoLanes, got, due, early, panicked>>

\* The end of a sweep: run breaks after an empty sweep that began with every
\* producer dropped, and the broker is dropped.
Swept(b) ==
  LET s == broker[b] IN
  /\ s.pc = "sweep" /\ s.sweep = {}
  /\ IF ~s.moved /\ s.final
     THEN Set(b, Finished) /\ DropBrokers({b})
     ELSE Set(b, Sweep(s, b, ~s.moved /\ live_producers = 0)) /\ UNCHANGED ring
  /\ UNCHANGED <<prod, con, live_producers, NoLanes, got, due, early, panicked>>

Item(b) == ring[InRing(broker[b].at)].q[broker[b].i + 1]

\* The policy picks its targets: Route reduces its answer modulo the number of
\* consumers, PubSub masks its set; round robin looks for one on the way.
Pick(b) ==
  LET s == broker[b] IN
  /\ s.pc = "deliver" /\ s.i < s.n
  /\ \E targets \in CASE decl.routing = "RoundRobin" -> {{}}
                      [] decl.routing = "Route" -> {{c} : c \in Consumers}
                      [] decl.routing = "PubSub" -> SUBSET Consumers :
       /\ Set(b, [s EXCEPT !.pc = "forward", !.targets = targets, !.tried = 0, !.gone = 0])
       /\ Due(Item(b), targets)
  /\ UNCHANGED <<ring, prod, con, live_producers, NoLanes, got, early, panicked>>

\* The closure unwinds, or PubSub's clone of the value for a target that is not
\* the last: the value and the rings' ends go with the broker.
PolicyPanics(b) ==
  LET s == broker[b] IN
  /\ s.i < s.n
  /\ \/ s.pc = "deliver" /\ decl.routing # "RoundRobin"
     \/ s.pc = "forward" /\ decl.routing = "PubSub" /\ Cardinality(s.targets) > 1
  /\ Set(b, Finished) /\ DropBrokers({b})
  /\ panicked' = TRUE
  /\ UNCHANGED <<prod, con, live_producers, NoLanes, got, due, early>>

PushItem(b, c) == ring' = [ring EXCEPT ![OutRing(b, c)].q = Append(@, Item(b))]

\* forward_to the lowest target left: it waits for room, drops for the gone.
ForwardTo(b) ==
  LET s == broker[b]
      c == Min(s.targets)
      rest == s.targets \ {c}
      next == IF rest = {} THEN Placed(s) ELSE s IN
  /\ s.pc = "forward" /\ decl.routing # "RoundRobin" /\ s.targets # {}
  /\ IF ring[OutRing(b, c)].rgone THEN UNCHANGED ring
     ELSE Room(OutRing(b, c), RingCap) > 0 /\ PushItem(b, c)
  /\ Set(b, [next EXCEPT !.targets = rest])
  /\ UNCHANGED <<prod, con, live_producers, NoLanes, got, due, early, panicked>>

\* Targets::none: nobody subscribed.
ForwardNowhere(b) ==
  /\ broker[b].pc = "forward" /\ decl.routing = "PubSub" /\ broker[b].targets = {}
  /\ Set(b, Placed(broker[b]))
  /\ UNCHANGED <<ring, prod, con, live_producers, NoLanes, got, due, early, panicked>>

\* Mutant: consumers that are gone are skipped and not counted.
ForwardRrInsists(b) ==
  LET s == broker[b]
      i == Index(s.cursor, decl.consumers)
      r == OutRing(b, i + 1)
      next == [s EXCEPT !.cursor = i + 1] IN
  /\ s.pc = "forward" /\ decl.routing = "RoundRobin"
  /\ IF ~ring[r].rgone /\ Room(r, RingCap) > 0
     THEN PushItem(b, i + 1) /\ Set(b, Placed(next)) /\ Due(Item(b), {i + 1})
     ELSE Set(b, [next EXCEPT !.tried = (@ + 1) % decl.consumers]) /\ UNCHANGED <<ring, due>>
  /\ UNCHANGED <<prod, con, live_producers, NoLanes, got, early, panicked>>

\* One consumer of forward_rr: skipped if gone or full; after a round in which
\* all were gone the value is dropped.
ForwardRr(b) ==
  LET s == broker[b]
      i == Index(s.cursor, decl.consumers)
      r == OutRing(b, i + 1)
      gone == s.gone + (IF ring[r].rgone THEN 1 ELSE 0)
      next == [s EXCEPT !.cursor = i + 1] IN
  /\ s.pc = "forward" /\ decl.routing = "RoundRobin"
  /\ IF ~ring[r].rgone /\ Room(r, RingCap) > 0
     THEN PushItem(b, i + 1) /\ Set(b, Placed(next)) /\ Due(Item(b), {i + 1})
     ELSE /\ Set(b, IF s.tried + 1 < decl.consumers THEN [next EXCEPT !.tried = @ + 1, !.gone = gone]
                    ELSE IF gone = decl.consumers THEN Placed(next)
                    ELSE [next EXCEPT !.tried = 0, !.gone = 0])
          /\ UNCHANGED <<ring, due>>
  /\ UNCHANGED <<prod, con, live_producers, NoLanes, got, early, panicked>>

\* Mutant: the last value moved stays in the ring.
DrainCommitShort(b) ==
  LET s == broker[b]  q == ring[InRing(s.at)].q IN
  /\ s.pc = "deliver" /\ s.i = s.n
  /\ ring' = [ring EXCEPT ![InRing(s.at)].q = SubSeq(q, s.n, Len(q))]
  /\ Set(b, [s EXCEPT !.pc = "sweep", !.moved = TRUE, !.at = 0, !.n = 0, !.i = 0])
  /\ UNCHANGED <<prod, con, live_producers, NoLanes, got, due, early, panicked>>

\* drain_in_place returns: what was moved leaves the ring.
DrainCommit(b) ==
  LET s == broker[b]  q == ring[InRing(s.at)].q IN
  /\ s.pc = "deliver" /\ s.i = s.n
  /\ ring' = [ring EXCEPT ![InRing(s.at)].q = SubSeq(q, s.n + 1, Len(q))]
  /\ Set(b, [s EXCEPT !.pc = "sweep", !.moved = TRUE, !.at = 0, !.n = 0, !.i = 0])
  /\ UNCHANGED <<prod, con, live_producers, NoLanes, got, due, early, panicked>>

BrokerStep(b) ==
  \/ Drain(b) \/ Swept(b) \/ Pick(b) \/ ForwardTo(b) \/ ForwardNowhere(b) \/ ForwardRr(b) \/ DrainCommit(b)
BrokeredReceive(c) == BrokeredScan(c) \/ BrokeredFinished(c)

BrokeredNext ==
  \/ \E b \in DOMAIN broker : BrokerStep(b) \/ PolicyPanics(b)
  \/ \E p \in DOMAIN prod :
       BrokeredSend(p) \/ ProducerDrop(p) \/ StartSend(p, "send", 1) \/ StartSend(p, "try_send", 1)
  \/ \E c \in DOMAIN con : BrokeredReceive(c) \/ BrokeredConsumerDrop(c) \/ BrokeredBegin(c)
=============================================================================
