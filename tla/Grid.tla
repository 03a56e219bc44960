-------------------------------- MODULE Grid --------------------------------
(***************************************************************************)
(* What the lane grid (mpmc/lanes.rs) and the brokered channel             *)
(* (mpmc/brokered/mod.rs) have in common: private SPSC rings, each with    *)
(* one writer and one reader at a time, producers and consumers that go    *)
(* round their rings with a round_robin cursor, and their promises.        *)
(*                                                                         *)
(* A ring is the queue that module Ring implements; a drain of several     *)
(* values is one step unless a value's delivery can wait.  The k-th value  *)
(* that producer p gets accepted is <<p, k>>.                              *)
(***************************************************************************)
EXTENDS Declaration, SequencesExt

CONSTANTS
  MaxSend(_), \* bound: values that the calls of a declaration's producers send
  MaxEarly    \* bound: consumers dropped before they were told the end

ASSUME GridAssumption ==
  MaxEarly \in Nat /\ Declared \subseteq Declarations /\ \A d \in Declared : MaxSend(d) \in Nat

VARIABLES
  ring,                            \* [q, wgone, rgone] per ring
  prod, con, broker,
  live_producers, live_consumers,
  abandoned,                       \* lanes of dropped consumers
  got, due, early, panicked        \* history

endpoints == <<ring, prod, con, broker, live_producers, live_consumers, abandoned>>
grid      == <<endpoints, got, due, early, panicked>>

Producers == 1 .. decl.producers
Consumers == 1 .. decl.consumers
Brokers   == 1 .. decl.brokers

\* round_robin::index; next leaves the cursor one further.
Index(cursor, len) == IF cursor < len THEN cursor ELSE 0

EmptyRing == [q |-> <<>>, wgone |-> FALSE, rgone |-> FALSE]
Room(r, capacity) == NextPowerOfTwo(capacity) - Len(ring[r].q)

IdleProducer(cursor) ==
  [pc |-> "idle", op |-> "send", cursor |-> cursor, tried |-> 0, left |-> 0, next |-> 1]
IdleConsumer(lanes, cursor) ==
  [pc |-> "idle", op |-> "recv", lanes |-> lanes, cursor |-> cursor, staging |-> <<>>,
   looked |-> 0, adopted |-> FALSE, final |-> FALSE, done |-> 0]

\* A receive call returns, or the consumer is told the end.
Received(s, pc) ==
  [s EXCEPT !.pc = pc, !.op = "recv", !.looked = 0, !.adopted = FALSE, !.final = FALSE, !.done = 0]

GridInit ==
  /\ ring = <<>> /\ prod = <<>> /\ con = <<>> /\ broker = <<>>
  /\ live_producers = 0 /\ live_consumers = 0
  /\ abandoned = <<>> /\ got = <<>> /\ due = <<>> /\ early = 0 /\ panicked = FALSE

\* The endpoints that both opens build.
BuildEndpoints(rings, producerCursor, lanesOf, consumerCursor) ==
  /\ ring' = [r \in rings |-> EmptyRing]
  /\ prod' = [p \in Producers |-> IdleProducer(producerCursor[p])]
  /\ con'  = [c \in Consumers |-> IdleConsumer(lanesOf[c], consumerCursor[c])]
  /\ live_producers' = decl.producers /\ live_consumers' = decl.consumers
  /\ got' = [c \in Consumers |-> <<>>]
  /\ UNCHANGED <<abandoned, due, early, panicked>>

\* Value v is routed to the targets.
Due(v, targets) == due' = [w \in DOMAIN due \cup {v} |-> IF w = v THEN targets ELSE due[w]]

Sending == MapThenSumSet(LAMBDA p : prod[p].next - 1 + prod[p].left, DOMAIN prod)

\* A call of send or try_send has one value, a call of send_batch the rest.
StartSend(p, op, n) ==
  /\ opened = "open" /\ prod[p].pc = "idle" /\ Sending + n <= MaxSend(decl)
  /\ prod' = [prod EXCEPT ![p].pc = "send", ![p].op = op, ![p].left = n, ![p].tried = 0]
  /\ UNCHANGED <<ring, con, broker, live_producers, live_consumers, abandoned, got, due, early, panicked>>

\* Values next .. next + k - 1 of p go into ring r.
PushValues(p, r, k) ==
  ring' = [ring EXCEPT ![r].q = @ \o [i \in 1 .. k |-> <<p, prod[p].next + i - 1>>]]

\* A call returns after it has placed k values.
Returned(s, k) == [s EXCEPT !.pc = "idle", !.op = "send", !.tried = 0, !.left = 0, !.next = @ + k]
ReturnFromSend(p, k) == prod' = [prod EXCEPT ![p] = Returned(@, k)]

\* Drop for Producer.
ProducerDrop(p) ==
  /\ opened = "open" /\ prod[p].pc = "idle"
  /\ prod' = [prod EXCEPT ![p].pc = "gone"]
  /\ live_producers' = live_producers - 1
  /\ UNCHANGED <<ring, con, broker, live_consumers, abandoned, got, due, early, panicked>>

-----------------------------------------------------------------------------
Accepted == UNION {{p} \X (1 .. prod[p].next - 1) : p \in DOMAIN prod}
Receivers(v) == {c \in DOMAIN con : v \in ToSet(got[c])}
Ended(c) == con[c].pc \in {"ended", "leaving", "gone"}

\* A value reaches a consumer once, and through a broker the values of one
\* producer reach a consumer in the order they were sent (an adopted lane
\* runs beside the consumer's own, so only each lane keeps its order there).
AtMostOnceInOrder ==
  \A c \in DOMAIN con : \A i, j \in DOMAIN got[c] : i < j =>
    /\ got[c][i] # got[c][j]
    /\ decl.topology = "MpmcBrokered" /\ got[c][i][1] = got[c][j][1] => got[c][i][2] < got[c][j][2]

\* A consumer told the end has nothing left in its rings, whoever dropped
\* what before; and when every consumer was told the end, none left early and
\* no routing closure or clone panicked, every accepted value went to the
\* consumers it was routed to, and to one unless it was published to a set.
NothingStranded ==
  /\ \A c \in DOMAIN con : con[c].pc = "ended" =>
       con[c].staging = <<>> /\ \A i \in DOMAIN con[c].lanes : ring[con[c].lanes[i]].q = <<>>
  /\ (opened = "open" /\ DOMAIN con # {} /\ (\A c \in DOMAIN con : Ended(c)) /\ early = 0 /\ ~panicked) =>
       \A v \in Accepted :
         /\ decl.topology = "MpmcBrokered" => v \in DOMAIN due /\ Receivers(v) = due[v]
         /\ decl.routing # "PubSub" => \E c \in DOMAIN con : Receivers(v) = {c}

\* Once every producer is dropped, every broker thread ends, also after an
\* open that failed half way, and every consumer that goes on receiving is
\* told the end: no lane, broker or abandoned value keeps it waiting.
DisconnectSeen ==
  (DOMAIN prod # {} /\ \A p \in DOMAIN prod : prod[p].pc = "gone")
    ~> /\ \A c \in DOMAIN con : Ended(c)
       /\ \A b \in DOMAIN broker : broker[b].pc = "done"
=============================================================================
