----------------------------- MODULE Brokerless -----------------------------
(***************************************************************************)
(* The brokerless competing-consumer channel of mpmc/brokerless: one SPSC  *)
(* ring per producer, any number of consumers, and a claim flag per ring   *)
(* that a consumer must win before it may drain the ring.  The variable    *)
(* `tier` says how consumers find the rings: the fixed set of mod.rs, the  *)
(* Mutex<Vec> with per-consumer snapshots of dynamic.rs ("locked"), or its *)
(* lock-free array of cells ("array").                                     *)
(*                                                                         *)
(* A ring is the pair of positions head and tail that module Ring          *)
(* implements; ring p belongs to producer p and its values are their       *)
(* positions.  In an endless instance positions wrap at Period, producers  *)
(* never run out of values and the history of deliveries is not kept.      *)
(***************************************************************************)
EXTENDS Integers, Sequences, FiniteSets

CONSTANTS
  Tiers,        \* subset of {"fixed", "locked", "array"}
  P,            \* producers, and as many rings
  C,            \* consumers
  Cells,        \* max_producers of the array; bound: rings of the locked tier
  Cap,          \* capacity of a ring
  Batch,        \* values drained per claim by the staged calls
  MaxDrain,     \* the `max` of drain and the `batch` of for_each
  Quantum,      \* QUANTUM of scan.rs
  Calls,        \* the consumer calls of the instance
  Sends,        \* the sizes of the batches sent; send is a batch of one
  MaxSend,      \* bound: values sent in all, unless Endless
  MaxRegistrars,\* bound: registrars alive at once
  MaxAbandoned, \* bound: consumers dropped before they returned None
  Period,       \* where positions wrap
  Endless

ASSUME ShapeAssumption ==
  /\ P \in Nat \ {0} /\ C \in Nat \ {0} /\ Cells \in Nat \ {0} /\ Cap \in Nat \ {0}
  /\ Tiers \subseteq {"fixed", "locked", "array"}
ASSUME CallAssumption ==
  /\ Batch \in Nat \ {0} /\ MaxDrain \in Nat \ {0} /\ Quantum \in Nat \ {0}
  /\ Calls \subseteq {"try_recv", "recv", "recv_batch", "drain", "for_each"}
ASSUME BoundAssumption ==
  /\ Sends \subseteq Nat \ {0} /\ MaxSend \in Nat /\ MaxRegistrars \in Nat \ {0}
  /\ MaxAbandoned \in Nat
  /\ Period \in Nat /\ Endless \in BOOLEAN
  /\ Period > Cap /\ (Endless \/ Period > MaxSend)

VARIABLES
  tier, slots, count,             \* the membership
  live, registrars, live_consumers,
  head, tail, claimed,            \* the rings
  ppc, rem, cell,                 \* producers
  con,                            \* consumers
  got, seen, abandoned            \* history

ring == <<head, tail, claimed>>
membership == <<tier, slots, count>>
producer   == <<ppc, rem, cell>>
history    == <<got, seen, abandoned>>
vars == <<membership, live, registrars, live_consumers, ring, producer, con, history>>

Producers == 1 .. P
Consumers == 1 .. C
Null      == 0                    \* a reserved cell, not yet published
Positions == 0 .. Period - 1
Blocking  == {"recv", "recv_batch", "for_each"}
InPlace   == {"drain", "for_each"}
Smaller(a, b) == IF a <= b THEN a ELSE b
Ahead(a, b)   == (a - b + Period) % Period
Forward(a, k) == (a + k) % Period
InRing(p) == Ahead(tail[p], head[p])
Sent      == Cardinality({v \in Producers \X Positions : v[2] < tail[v[1]]})
MaxRings  == IF tier = "fixed" THEN P ELSE Cells

\* Cursor::new.
NewConsumer(pc, seed) ==
  [pc |-> pc, call |-> "recv", final |-> FALSE, next |-> seed, credits |-> Quantum - 1,
   snap |-> 0, visits |-> 0, quota |-> 0, at |-> 1, lo |-> 0, n |-> 0]

\* A consumer: its cursor (next, credits, snap), the call it is in and its staging
\* batch.
ConsumerState ==
  [pc : {"unborn", "idle", "count", "select", "claim", "read", "commit", "release", "unwind",
         "ended", "gone"},
   call : Blocking \cup InPlace \cup {"try_recv"}, final : BOOLEAN,
   next : 0 .. MaxRings + C, credits : 0 .. Quantum - 1, snap : 0 .. MaxRings,
   visits : 0 .. MaxRings, quota : 0 .. Batch + MaxDrain, at : Producers, lo : Positions, n : 0 .. Cap]

TypeOK ==
  /\ tier \in Tiers
  /\ slots \in Seq(Producers \cup {Null}) /\ Len(slots) <= MaxRings /\ count \in 0 .. Len(slots)
  /\ live \in 0 .. P + MaxRegistrars /\ registrars \in 0 .. MaxRegistrars
  /\ live_consumers \in 0 .. C
  /\ head \in [Producers -> Positions] /\ tail \in [Producers -> Positions]
  /\ \A p \in Producers : InRing(p) <= Cap
  /\ claimed \in [Producers -> BOOLEAN]
  /\ ppc \in [Producers -> {"unborn", "publish", "count", "refused", "idle", "push", "full",
                            "gone"}]
  /\ rem \in [Producers -> Nat] /\ cell \in [Producers -> 0 .. MaxRings]
  /\ con \in [Consumers -> ConsumerState]
  /\ got \in [Producers -> [Positions -> 0 .. 2]]
  /\ seen \in [Consumers -> [Producers -> Nat]]
  /\ abandoned \in 0 .. MaxAbandoned

\* open: one producer per ring.
OpenFixed ==
  /\ tier = "fixed"
  /\ slots = [p \in Producers |-> p]
  /\ registrars = 0 /\ live = P
  /\ ppc = [p \in Producers |-> "idle"]

\* channel_with_rings: one registrar and no ring.
OpenDynamic ==
  /\ tier \in {"locked", "array"}
  /\ slots = <<>>
  /\ registrars = 1 /\ live = 1
  /\ ppc = [p \in Producers |-> "unborn"]

\* Consumer 1 is the initial consumer.
Init ==
  /\ tier \in Tiers
  /\ OpenFixed \/ OpenDynamic
  /\ count = Len(slots)
  /\ live_consumers = 1
  /\ head = [p \in Producers |-> 0] /\ tail = head
  /\ claimed = [p \in Producers |-> FALSE]
  /\ rem = [p \in Producers |-> 0] /\ cell = rem
  /\ con = [c \in Consumers |-> NewConsumer(IF c = 1 THEN "idle" ELSE "unborn", 0)]
  /\ got = [p \in Producers |-> [k \in Positions |-> 0]]
  /\ seen = [c \in Consumers |-> [p \in Producers |-> 0]]
  /\ abandoned = 0

-----------------------------------------------------------------------------
(* Registration.  A registrar is borrowed for the whole of register.       *)

Registering == {p \in Producers : ppc[p] \in {"publish", "count"}}

\* Mutant: the reservation does not look at the number of cells.
ReserveUnbounded(p) ==
  /\ slots' = Append(slots, Null) /\ count' = count + 1
  /\ cell' = [cell EXCEPT ![p] = Len(slots) + 1]
  /\ ppc' = [ppc EXCEPT ![p] = "publish"]

\* ArrayRings::push reserves the next index, or panics when there is none.
Reserve(p) ==
  IF Len(slots) < Cells
  THEN /\ slots' = Append(slots, Null) /\ count' = count + 1
       /\ cell' = [cell EXCEPT ![p] = Len(slots) + 1]
       /\ ppc' = [ppc EXCEPT ![p] = "publish"]
  ELSE /\ ppc' = [ppc EXCEPT ![p] = "refused"]
       /\ UNCHANGED <<slots, count, cell>>

\* LockedRings::push appends under the lock; the count follows.  Producers are
\* named in the order in which they are minted.
Register(p) ==
  /\ ppc[p] = "unborn" /\ registrars > 0
  /\ \A q \in 1 .. p - 1 : ppc[q] # "unborn"
  /\ \/ tier = "array" /\ Reserve(p)
     \/ /\ tier = "locked" /\ Len(slots) < Cells
        /\ slots' = Append(slots, p)
        /\ ppc' = [ppc EXCEPT ![p] = "publish"]
        /\ UNCHANGED <<count, cell>>
  /\ UNCHANGED <<tier, live, registrars, live_consumers, ring, rem, con, history>>

Publish(p) ==
  /\ ppc[p] = "publish"
  /\ \/ tier = "array" /\ slots' = [slots EXCEPT ![cell[p]] = p] /\ UNCHANGED count
     \/ tier = "locked" /\ count' = count + 1 /\ UNCHANGED slots
  /\ ppc' = [ppc EXCEPT ![p] = "count"]
  /\ UNCHANGED <<tier, live, registrars, live_consumers, ring, rem, cell, con, history>>

\* The end of register: the producer is counted after its ring is published.
CountLive(p) ==
  /\ ppc[p] = "count"
  /\ live' = live + 1
  /\ ppc' = [ppc EXCEPT ![p] = "idle"]
  /\ UNCHANGED <<membership, registrars, live_consumers, ring, rem, cell, con, history>>

RegistrarClone ==
  /\ registrars \in 1 .. MaxRegistrars - 1
  /\ registrars' = registrars + 1 /\ live' = live + 1
  /\ UNCHANGED <<membership, live_consumers, ring, producer, con, history>>

\* Mutant: the last registrar is not counted off.
RegistrarDropUncounted ==
  /\ registrars > 1 \/ (registrars = 1 /\ Registering = {})
  /\ registrars' = registrars - 1 /\ live' = IF registrars > 1 THEN live - 1 ELSE live
  /\ UNCHANGED <<membership, live_consumers, ring, producer, con, history>>

RegistrarDrop ==
  /\ registrars > 1 \/ (registrars = 1 /\ Registering = {})
  /\ registrars' = registrars - 1 /\ live' = live - 1
  /\ UNCHANGED <<membership, live_consumers, ring, producer, con, history>>

-----------------------------------------------------------------------------
(* Producers.  send is a send_batch of one value.                          *)

\* try_push or push_from of m values; a full ring leads to the check of the
\* consumers.
Attempt(p, m) ==
  LET k == Smaller(Cap - InRing(p), m)
  IN  /\ tail' = [tail EXCEPT ![p] = Forward(@, k)]
      /\ rem' = [rem EXCEPT ![p] = m - k]
      /\ ppc' = [ppc EXCEPT ![p] = IF k = m THEN "idle" ELSE IF k > 0 THEN "push" ELSE "full"]
      /\ UNCHANGED <<membership, live, registrars, live_consumers, head, claimed, cell, con,
                     history>>

\* try_send of a full ring changes nothing.
Send(p, m) ==
  /\ ppc[p] = "idle"
  /\ Endless \/ Sent + m <= MaxSend
  /\ Attempt(p, m)

Push(p) == ppc[p] = "push" /\ Attempt(p, rem[p])

\* Mutant: send waits for space whether or not a consumer is left.
FullForever(p) ==
  /\ ppc[p] = "full"
  /\ ppc' = [ppc EXCEPT ![p] = "push"]
  /\ UNCHANGED <<membership, live, registrars, live_consumers, ring, rem, cell, con, history>>

Full(p) ==
  /\ ppc[p] = "full"
  /\ ppc' = [ppc EXCEPT ![p] = IF live_consumers = 0 THEN "idle" ELSE "push"]
  /\ rem' = [rem EXCEPT ![p] = IF live_consumers = 0 THEN 0 ELSE @]
  /\ UNCHANGED <<membership, live, registrars, live_consumers, ring, cell, con, history>>

ProducerDrop(p) ==
  /\ ppc[p] = "idle"
  /\ live' = live - 1
  /\ ppc' = [ppc EXCEPT ![p] = "gone"]
  /\ UNCHANGED <<membership, registrars, live_consumers, ring, rem, cell, con, history>>

-----------------------------------------------------------------------------
(* Consumers.  con[c].at, .lo and .n are the values in c's hands: what it  *)
(* is draining while it holds a claim, its staging batch otherwise.        *)

\* A call returns: its locals are gone, a staging batch stays.
Return(x, pc) ==
  [x EXCEPT !.pc = pc, !.call = "recv", !.final = FALSE, !.visits = 0, !.quota = 0,
            !.at = IF x.n = 0 THEN 1 ELSE @, !.lo = IF x.n = 0 THEN 0 ELSE @]

\* The pass goes on to the next ring.
Resume(x) == [x EXCEPT !.pc = "select", !.at = 1, !.lo = 0]

\* x without the first k values in its hands.
Drop(x, k) == [x EXCEPT !.lo = Forward(@, k), !.n = @ - k]

\* The caller of c gets the first k values in c's hands.
Hand(c, k) ==
  LET p == con[c].at
      mine == {Forward(con[c].lo, i) : i \in 0 .. k - 1}
  IN  IF Endless THEN UNCHANGED history
      ELSE /\ got' = [got EXCEPT ![p] = [q \in Positions |->
                        IF q \in mine THEN Smaller(@[q] + 1, 2) ELSE @[q]]]
           /\ seen' = [seen EXCEPT ![c][p] = IF k = 0 THEN @ ELSE con[c].lo + k]
           /\ UNCHANGED abandoned

\* How many of the n staged values a call takes.
Served(call, n) ==
  CASE call \in {"recv", "try_recv"} -> Smaller(1, n)
    [] call = "recv_batch" -> n
    [] call \in InPlace -> Smaller(MaxDrain, n)

Quota(call) == IF call \in InPlace THEN MaxDrain ELSE Batch

\* A call serves staged values first.  Only drain goes on to the rings after
\* that, and for_each then starts over instead of looking at the producers.
\* The number of visits of a pass is the number of rings at its start.
Begin(c, call) ==
  LET k    == Served(call, con[c].n)
      scan == k = 0 \/ (call \in InPlace /\ k < MaxDrain)
  IN  /\ con[c].pc = "idle"
      /\ Hand(c, k)
      /\ con' = [con EXCEPT ![c] =
                   IF scan
                   THEN [Drop(@, k) EXCEPT !.call = IF k > 0 THEN "drain" ELSE call,
                                           !.quota = Quota(call) - k, !.visits = count,
                                           !.pc = "select"]
                   ELSE Return(Drop(@, k), "idle")]
      /\ UNCHANGED <<membership, live, registrars, live_consumers, ring, producer>>

\* The next pass of a blocking call.
CountRings(c) ==
  /\ con[c].pc = "count"
  /\ con' = [con EXCEPT ![c].visits = count, ![c].pc = "select"]
  /\ UNCHANGED <<membership, live, registrars, live_consumers, ring, producer, history>>

\* Mutant: the snapshot is never refreshed once it has a ring.
KnownStale(c) == IF tier = "locked" /\ con[c].snap > 0 THEN con[c].snap ELSE Len(slots)

\* The rings c knows of: a snapshot taken again when the membership grew, or
\* the array's length.
Known(c) == IF tier = "locked" /\ con[c].snap >= count THEN con[c].snap ELSE Len(slots)

\* round_robin::index.
Index(cursor, len) == IF cursor < len THEN cursor ELSE 0

\* Rings::next: the cursor advances before any claim; null cells are skipped.
Select(c) ==
  LET len == Known(c)
      i   == Index(con[c].next, len)
  IN  /\ con[c].pc = "select" /\ con[c].visits > 0
      /\ con' = [con EXCEPT ![c].snap = IF tier = "locked" THEN len ELSE 0,
                            ![c].next = i + 1, ![c].visits = @ - 1,
                            ![c].at = IF slots[i + 1] = Null THEN @ ELSE slots[i + 1],
                            ![c].pc = IF slots[i + 1] = Null THEN "select" ELSE "claim"]
      /\ UNCHANGED <<membership, live, registrars, live_consumers, ring, producer, history>>

\* Mutant: the busy hint is taken for the claim.
ClaimOnHint(c) ==
  /\ con[c].pc = "claim"
  /\ con' = [con EXCEPT ![c].pc = "read"]
  /\ claimed' = [claimed EXCEPT ![con[c].at] = TRUE]
  /\ UNCHANGED <<membership, live, registrars, live_consumers, head, tail, producer, history>>

\* ReleaseClaim::try_acquire.
Claim(c) ==
  /\ con[c].pc = "claim"
  /\ con' = [con EXCEPT ![c] = IF claimed[con[c].at] THEN Resume(@)
                               ELSE [@ EXCEPT !.pc = "read"]]
  /\ claimed' = [claimed EXCEPT ![con[c].at] = TRUE]
  /\ UNCHANGED <<membership, live, registrars, live_consumers, head, tail, producer, history>>

\* drain_into or drain_in_place load the tail and take the values; an empty
\* ring has nothing to commit.
Read(c) ==
  LET p == con[c].at
      k == Smaller(con[c].quota, InRing(p))
  IN  /\ con[c].pc = "read"
      /\ con' = [con EXCEPT ![c].lo = head[p], ![c].n = k,
                            ![c].pc = IF k = 0 THEN "release" ELSE "commit"]
      /\ UNCHANGED <<membership, live, registrars, live_consumers, ring, producer, history>>

\* Mutant: the consumed position is not published.
CommitForgotten(c) ==
  /\ con[c].pc = "commit"
  /\ con' = [con EXCEPT ![c].pc = "release"]
  /\ IF con[c].call \in InPlace THEN Hand(c, con[c].n) ELSE UNCHANGED history
  /\ UNCHANGED <<membership, live, registrars, live_consumers, ring, producer>>

\* The slots go back to the producer.  drain has handed its values over.
Commit(c) ==
  /\ con[c].pc = "commit"
  /\ head' = [head EXCEPT ![con[c].at] = Forward(con[c].lo, con[c].n)]
  /\ con' = [con EXCEPT ![c].pc = "release"]
  /\ IF con[c].call \in InPlace THEN Hand(c, con[c].n) ELSE UNCHANGED history
  /\ UNCHANGED <<membership, live, registrars, live_consumers, tail, claimed, producer>>

\* Mutant: the guard does not count the value the callback panicked on.
DrainPanicsShort(c, k) ==
  /\ con[c].pc = "commit" /\ con[c].call \in InPlace /\ k \in 1 .. con[c].n
  /\ head' = [head EXCEPT ![con[c].at] = Forward(con[c].lo, k - 1)]
  /\ con' = [con EXCEPT ![c].pc = "unwind", ![c].n = 0]
  /\ Hand(c, k)
  /\ UNCHANGED <<membership, live, registrars, live_consumers, tail, claimed, producer>>

\* The callback of drain panics on the k-th value: the ring's guard commits k.
DrainPanics(c, k) ==
  /\ con[c].pc = "commit" /\ con[c].call \in InPlace /\ k \in 1 .. con[c].n
  /\ head' = [head EXCEPT ![con[c].at] = Forward(con[c].lo, k)]
  /\ con' = [con EXCEPT ![c].pc = "unwind", ![c].n = 0]
  /\ Hand(c, k)
  /\ UNCHANGED <<membership, live, registrars, live_consumers, tail, claimed, producer>>

\* Mutant: a productive ring is preferred without a limit.
PreferForever(con_c) == [con_c EXCEPT !.next = @ - 1]

\* Cursor::prefer: stay on the ring while credit remains.
Prefer(con_c) ==
  [con_c EXCEPT !.next = IF con_c.credits = 0 THEN @ ELSE @ - 1,
                !.credits = (@ + Quantum - 1) % Quantum]

\* The claim is released; a productive drain ends the pass and the call.
Release(c) ==
  LET k == IF con[c].call \in InPlace THEN con[c].n ELSE Served(con[c].call, con[c].n)
  IN  /\ con[c].pc = "release"
      /\ claimed' = [claimed EXCEPT ![con[c].at] = FALSE]
      /\ IF con[c].n = 0
         THEN con' = [con EXCEPT ![c] = Resume(@)] /\ UNCHANGED history
         ELSE /\ con' = [con EXCEPT ![c] = Return(Drop(Prefer(@), k), "idle")]
              /\ IF con[c].call \in InPlace THEN UNCHANGED history ELSE Hand(c, k)
      /\ UNCHANGED <<membership, live, registrars, live_consumers, head, tail, producer>>

Unwind(c) ==
  /\ con[c].pc = "unwind"
  /\ claimed' = [claimed EXCEPT ![con[c].at] = FALSE]
  /\ con' = [con EXCEPT ![c] = Return(@, "idle")]
  /\ UNCHANGED <<membership, live, registrars, live_consumers, head, tail, producer, history>>

\* Mutant: no further pass after the producers are seen to be gone.
MissedAtOnce(x) ==
  IF x.call \notin Blocking THEN Return(x, "idle")
  ELSE IF live = 0 THEN Return(x, "ended")
  ELSE [x EXCEPT !.final = FALSE, !.pc = "count"]

\* Only the blocking calls look further.  When the last producer is gone they
\* make one more pass, and only that pass may end them.
Missed(x) ==
  IF x.call \notin Blocking THEN Return(x, "idle")
  ELSE IF x.final THEN Return(x, "ended")
  ELSE [x EXCEPT !.final = (live = 0), !.pc = "count"]

\* A pass without a value.
EndPass(c) ==
  /\ con[c].pc = "select" /\ con[c].visits = 0
  /\ con' = [con EXCEPT ![c] = Missed(@)]
  /\ UNCHANGED <<membership, live, registrars, live_consumers, ring, producer, history>>

\* Clone for Consumer: by a consumer that is not inside a call.
Clone(c) ==
  /\ con[c].pc = "unborn"
  /\ \E d \in Consumers : con[d].pc \in {"idle", "ended"}
  /\ con' = [con EXCEPT ![c] = NewConsumer("idle", live_consumers)]
  /\ live_consumers' = live_consumers + 1
  /\ UNCHANGED <<membership, live, registrars, ring, producer, history>>

\* Staged values are dropped with the consumer.
ConsumerDrop(c) ==
  /\ con' = [con EXCEPT ![c] = NewConsumer("gone", 0)]
  /\ live_consumers' = live_consumers - 1
  /\ \/ con[c].pc = "ended" /\ UNCHANGED abandoned
     \/ con[c].pc = "idle" /\ abandoned < MaxAbandoned /\ abandoned' = abandoned + 1
  /\ UNCHANGED <<membership, live, registrars, ring, producer, got, seen>>

-----------------------------------------------------------------------------
ProducerStep(p) == Push(p) \/ Full(p)
Registration(p) == Register(p) \/ Publish(p) \/ CountLive(p)

\* What a consumer inside a call does.
ConsumerStep(c) ==
  \/ CountRings(c) \/ Select(c) \/ Claim(c) \/ Read(c) \/ Commit(c)
  \/ Release(c) \/ Unwind(c) \/ EndPass(c)

Over ==
  /\ \A c \in Consumers : con[c].pc \in {"unborn", "gone"}
  /\ \A p \in Producers : ppc[p] \in {"unborn", "refused", "gone", "idle"}
  /\ UNCHANGED vars

Next ==
  \/ \E p \in Producers :
       \/ Registration(p) \/ ProducerStep(p) \/ ProducerDrop(p)
       \/ \E m \in Sends : Send(p, m)
  \/ RegistrarClone \/ RegistrarDrop
  \/ \E c \in Consumers :
       \/ ConsumerStep(c) \/ Clone(c) \/ ConsumerDrop(c)
       \/ \E call \in Calls : Begin(c, call)
       \/ \E k \in 1 .. Cap : DrainPanics(c, k)
  \/ Over

Spec == Init /\ [][Next]_vars

\* A producer inside send keeps trying.  A consumer finishes its call, and its
\* caller calls again.
Fairness ==
  /\ \A p \in Producers : WF_vars(ProducerStep(p))
  /\ \A c \in Consumers :
       WF_vars(ConsumerStep(c) \/ \E call \in Calls : Begin(c, call))

FairSpec == Spec /\ Fairness

-----------------------------------------------------------------------------
(* Properties.                                                             *)

Inside(c) == con[c].pc \in {"read", "commit", "release", "unwind"}

\* The claim upholds the ring's single-consumer invariant: two consumers are
\* never inside the same ring (the SAFETY comment of Shared).
SingleConsumer ==
  \A c, d \in Consumers : c # d /\ Inside(c) /\ Inside(d) => con[c].at # con[d].at

\* "Any given value goes to exactly one of them": no value is handed over
\* twice, by any mix of staged and in-place calls, or after a panic.
AtMostOnce == \A p \in Producers, k \in Positions : got[p][k] <= 1

\* A consumer gets the values of a producer in the order they were sent.
ProducerOrder == [][\A c \in Consumers, p \in Producers : seen'[c][p] >= seen[c][p]]_vars

\* "Nothing is lost; this consumer just finishes first": when every consumer
\* that was not abandoned early has returned None, every value was delivered,
\* even those that sat in a ring another consumer held at the final pass.
NothingStranded ==
  /\ abandoned = 0
  /\ \E c \in Consumers : con[c].pc = "ended"
  /\ \A c \in Consumers : con[c].pc \in {"unborn", "ended", "gone"}
  => \A p \in Producers : \A k \in 0 .. tail[p] - 1 : got[p][k] = 1

\* A blocking send returns: a consumer makes room or the last one leaves.
SendReturns == \A p \in Producers : ppc[p] = "full" ~> ppc[p] = "idle"

Disconnected ==
  registrars = 0 /\ \A p \in Producers : ppc[p] \in {"unborn", "refused", "gone"}

Receiving == \E c \in Consumers : con[c].pc \notin {"unborn", "ended", "gone"}

\* Every consumer that goes on receiving ends with None once every registrar
\* and every producer it minted is gone.
DisconnectSeen == Disconnected ~> ~Receiving

\* "A permanently hot ring cannot hide its peers": whatever the other rings
\* hold, a ring with a value is drained while a consumer is receiving.
NoStarvation ==
  \A p \in Producers :
    InRing(p) > 0 ~> (\E c \in Consumers : con[c].pc = "commit" /\ con[c].at = p) \/ ~Receiving
=============================================================================
