------------------------------- MODULE Lanes --------------------------------
(***************************************************************************)
(* The lane grid of mpmc/lanes.rs: a ring for every pair of a producer and *)
(* a consumer.  A consumer that is dropped leaves its lanes to whichever   *)
(* consumer finds nothing in its own.                                      *)
(***************************************************************************)
EXTENDS Grid

LaneCap == LaneCapacity(decl)
OtherGrid == <<broker, due, panicked>>

\* lanes::open
BuildLanes ==
  /\ BuildEndpoints({"lane"} \X Producers \X Consumers,
       [p \in Producers |-> (p - 1) % decl.consumers],
       [c \in Consumers |-> [p \in Producers |-> <<"lane", p, c>>]],
       [c \in Consumers |-> (c - 1) % decl.producers])
  /\ UNCHANGED broker

-----------------------------------------------------------------------------
(* Producer.                                                               *)

\* One lane of try_send or send_batch: the lane takes what it has room for.
TryLane(p) ==
  LET s == prod[p]
      i == Index(s.cursor, decl.consumers)
      r == <<"lane", p, i + 1>>
      k == Lesser(s.left, Room(r, LaneCap))
      next == [s EXCEPT !.cursor = i + 1] IN
  /\ s.pc = "send"
  /\ PushValues(p, r, k)
  /\ prod' = [prod EXCEPT ![p] =
       IF k = s.left THEN Returned(next, k)
       ELSE IF k > 0 THEN [next EXCEPT !.next = @ + k, !.left = @ - k, !.tried = 0]
       ELSE [next EXCEPT !.tried = @ + 1, !.pc = IF s.tried + 1 = decl.consumers THEN "full" ELSE "send"]]
  /\ UNCHANGED <<con, live_producers, live_consumers, abandoned, got, early, OtherGrid>>

\* Every lane was full: try_send gives up, the others if nobody is left.
LanesFull(p) ==
  /\ prod[p].pc = "full"
  /\ IF prod[p].op = "try_send" \/ live_consumers = 0 THEN ReturnFromSend(p, 0)
     ELSE prod' = [prod EXCEPT ![p].pc = "send", ![p].tried = 0]
  /\ UNCHANGED <<ring, con, live_producers, live_consumers, abandoned, got, early, OtherGrid>>

-----------------------------------------------------------------------------
(* Consumer.                                                               *)

Again(s, final) == [s EXCEPT !.pc = "scan", !.looked = 0, !.adopted = FALSE, !.final = final, !.done = 0]

\* Hand over what a call found: recv keeps the rest staged, recv_batch takes
\* it all, for_each has processed it and goes on.
Deliver(c, s, values) ==
  /\ got' = [got EXCEPT ![c] = @ \o IF s.op = "recv" THEN <<Head(values)>> ELSE values]
  /\ con' = [con EXCEPT ![c] =
       IF s.op = "for_each" THEN Again(s, FALSE)
       ELSE [Received(s, "idle") EXCEPT !.staging = IF s.op = "recv" THEN Tail(values) ELSE <<>>]]

\* recv, recv_batch and for_each: what is staged comes first; for_each goes on
\* to the lanes for the rest of its batch.
LanesBegin(c, op) ==
  LET s == [con[c] EXCEPT !.op = op] IN
  /\ opened = "open" /\ s.pc = "idle"
  /\ IF s.staging = <<>> THEN con' = [con EXCEPT ![c] = Again(s, FALSE)] /\ UNCHANGED got
     ELSE IF op = "for_each" /\ Len(s.staging) < decl.batch
     THEN /\ got' = [got EXCEPT ![c] = @ \o s.staging]
          /\ con' = [con EXCEPT ![c] = [Again(s, FALSE) EXCEPT !.staging = <<>>, !.done = Len(s.staging)]]
     ELSE Deliver(c, [s EXCEPT !.staging = <<>>], s.staging)
  /\ UNCHANGED <<ring, prod, live_producers, live_consumers, abandoned, early, OtherGrid>>

\* One lane of scan_into_staging or scan_in_place.
LanesScan(c) ==
  LET s == con[c]
      i == Index(s.cursor, Len(s.lanes))
      q == ring[s.lanes[i + 1]].q
      k == Lesser(decl.batch - s.done, Len(q))
      next == [s EXCEPT !.cursor = i + 1] IN
  /\ s.pc = "scan"
  /\ IF k > 0
     THEN /\ ring' = [ring EXCEPT ![s.lanes[i + 1]].q = SubSeq(q, k + 1, Len(q))]
          /\ Deliver(c, next, SubSeq(q, 1, k))
     ELSE /\ con' = [con EXCEPT ![c] =
               [next EXCEPT !.looked = @ + 1,
                  !.pc = IF s.looked + 1 < Len(s.lanes) THEN "scan" ELSE IF s.adopted THEN "empty" ELSE "adopt"]]
          /\ UNCHANGED <<ring, got>>
  /\ UNCHANGED <<prod, live_producers, live_consumers, abandoned, early, OtherGrid>>

\* adopt_abandoned, under the mutex; then the lanes are scanned once more.
Adopt(c) ==
  /\ con[c].pc = "adopt"
  /\ con' = [con EXCEPT ![c] =
       IF abandoned = <<>> THEN [@ EXCEPT !.pc = "empty"]
       ELSE [@ EXCEPT !.pc = "scan", !.lanes = con[c].lanes \o abandoned, !.looked = 0, !.adopted = TRUE]]
  /\ abandoned' = <<>>
  /\ UNCHANGED <<ring, prod, live_producers, live_consumers, got, early, OtherGrid>>

\* Mutant: the end is reported without the pass after it.
LanesEmptyEnds(c) ==
  LET s == con[c] IN
  /\ s.pc = "empty"
  /\ con' = [con EXCEPT ![c] =
       IF s.done = 0 /\ live_producers = 0 THEN Received(s, "ended") ELSE Again(s, FALSE)]
  /\ UNCHANGED <<ring, prod, live_producers, live_consumers, abandoned, got, early, OtherGrid>>

\* Nothing found: the end after a final pass, else a look at live_producers.
LanesEmpty(c) ==
  LET s == con[c] IN
  /\ s.pc = "empty"
  /\ con' = [con EXCEPT ![c] =
       IF s.done = 0 /\ s.final THEN Received(s, "ended")
       ELSE Again(s, s.done = 0 /\ live_producers = 0)]
  /\ UNCHANGED <<ring, prod, live_producers, live_consumers, abandoned, got, early, OtherGrid>>

\* Mutant: a dropped consumer takes its lanes with it.
LanesConsumerDropAlone(c) ==
  /\ opened = "open" /\ con[c].pc \in {"idle", "ended"}
  /\ con[c].pc = "idle" => early < MaxEarly
  /\ early' = IF con[c].pc = "idle" THEN early + 1 ELSE early
  /\ con' = [con EXCEPT ![c].pc = "leaving", ![c].lanes = <<>>, ![c].staging = <<>>]
  /\ UNCHANGED <<ring, prod, live_producers, live_consumers, abandoned, got, OtherGrid>>

\* Drop for Consumer: the lanes are handed over, staged values are dropped,
\* and only then is the consumer counted off.
LanesConsumerDrop(c) ==
  /\ opened = "open" /\ con[c].pc \in {"idle", "ended"}
  /\ con[c].pc = "idle" => early < MaxEarly
  /\ early' = IF con[c].pc = "idle" THEN early + 1 ELSE early
  /\ abandoned' = abandoned \o con[c].lanes
  /\ con' = [con EXCEPT ![c].pc = "leaving", ![c].lanes = <<>>, ![c].staging = <<>>]
  /\ UNCHANGED <<ring, prod, live_producers, live_consumers, got, OtherGrid>>

LanesLeave(c) ==
  /\ con[c].pc = "leaving"
  /\ con' = [con EXCEPT ![c].pc = "gone"]
  /\ live_consumers' = live_consumers - 1
  /\ UNCHANGED <<ring, prod, live_producers, abandoned, got, early, OtherGrid>>

LanesReceive(c) == LanesScan(c) \/ Adopt(c) \/ LanesEmpty(c) \/ LanesLeave(c)
LanesSend(p)    == TryLane(p) \/ LanesFull(p)
LanesCalls      == {"recv", "recv_batch", "for_each"}

LanesNext ==
  \/ \E p \in DOMAIN prod :
       \/ LanesSend(p) \/ ProducerDrop(p)
       \/ StartSend(p, "send", 1) \/ StartSend(p, "try_send", 1) \/ StartSend(p, "send_batch", 2)
  \/ \E c \in DOMAIN con :
       \/ LanesReceive(c) \/ LanesConsumerDrop(c)
       \/ \E op \in LanesCalls : LanesBegin(c, op)

-----------------------------------------------------------------------------
Gone(c) == con[c].pc \in {"leaving", "gone"}
Unread  == \E r \in DOMAIN ring : /\ r[1] = "lane" /\ ring[r].q # <<>>
                                 /\ \A c \in DOMAIN con : r \notin ToSet(con[c].lanes)

\* While a producer is alive, the values in the lanes of a dropped consumer
\* come to a consumer that goes on receiving: it looks for abandoned lanes
\* after every pass that found nothing and before it may report the end.
OrphansAdopted ==
  (live_producers > 0 /\ Unread /\ \E c \in DOMAIN con : ~Ended(c))
    ~> (\A c \in DOMAIN con : Gone(c)) \/ ~Unread
=============================================================================
