------------------------------- MODULE Leased -------------------------------
(***************************************************************************)
(* The leased channel of mpmc/brokerless/leased.rs: a producer owns a pool *)
(* of payload blocks, lends one to its caller, publishes it through its    *)
(* forward ring, and gets it back through one return ring per consumer.    *)
(* Only the return to the pool is modelled by ownership: a block that      *)
(* falls out of every container is lost to its producer.                   *)
(*                                                                         *)
(* The forward rings are those of module Brokerless with a batch of one: a *)
(* consumer claims a ring, takes one block and releases the claim.  The    *)
(* calls that do not wait are those that wait, given up after a pass:      *)
(* try_reserve is a reserve, reclaim a flush and try_recv a recv.          *)
(***************************************************************************)
EXTENDS Declaration, SequencesExt

CONSTANTS MaxCommits(_),   \* bound: blocks a producer of a declaration publishes
          MaxPanics        \* bound: destructors that panic in a clear

\* The numbers of a declaration are machine integers.
ASSUME LeasedAssumption ==
  /\ MaxPanics \in Nat
  /\ \A d \in Declared :
       /\ MaxCommits(d) \in Nat
       /\ d.producers \in Nat /\ d.consumers \in Nat /\ d.batch \in Nat
       /\ d.capacity = None \/ d.capacity[1] \in Nat

VARIABLES
  prod, con,
  fwd, claimed,                    \* the forward ring of each producer
  ret,                             \* [producer][consumer]: the return rings
  dirty,                           \* the blocks that hold values
  live_producers, live_consumers,
  commits, panics                  \* history

pools   == <<fwd, ret, dirty>>
history == <<commits, panics>>
vars    == <<declaration, prod, con, claimed, pools, live_producers, live_consumers, history>>

Producers == 1 .. decl.producers
Consumers == 1 .. decl.consumers
Blocks    == 1 .. LeasedBlocks(decl)
Slots     == NextPowerOfTwo(LeasedBlocks(decl))

\* Every return ring can hold its producer's whole pool.
ReturnSlots == Slots

\* round_robin::next keeps a cursor one past the index it gave, and takes one
\* past the end for zero.
NextCursor(i, len) == (i + 1) % len

-----------------------------------------------------------------------------
(* open.                                                                   *)

Init ==
  /\ DeclarationInit
  /\ prod = <<>> /\ con = <<>> /\ fwd = <<>> /\ claimed = <<>> /\ ret = <<>> /\ dirty = {}
  /\ live_producers = 0 /\ live_consumers = 0 /\ commits = <<>> /\ panics = 0

OpenRefused ==
  /\ Open /\ opened' = "invalid"
  /\ UNCHANGED <<prod, con, claimed, pools, live_producers, live_consumers, history>>

OpenLeased ==
  /\ Open /\ opened' = "open" /\ decl.codec = "Leased"
  /\ prod' = [p \in Producers |->
       [pc |-> "idle", call |-> "none", free |-> [i \in Blocks |-> i], lease |-> 0,
        in_flight |-> 0, cursor |-> 0, looked |-> 0, final |-> FALSE, answer |-> "none"]]
  /\ con' = [c \in Consumers |-> [pc |-> "idle", cursor |-> 0, looked |-> 0, final |-> FALSE, block |-> <<>>]]
  /\ fwd' = [p \in Producers |-> <<>>]
  /\ claimed' = [p \in Producers |-> FALSE]
  /\ ret' = [p \in Producers |-> [c \in Consumers |-> <<>>]]
  /\ live_producers' = decl.producers /\ live_consumers' = decl.consumers
  /\ commits' = [p \in Producers |-> 0] /\ UNCHANGED <<dirty, panics>>

-----------------------------------------------------------------------------
(* Producer.                                                               *)

\* What the caller holds after a call is remembered in answer.
Answer(s, answer) == [s EXCEPT !.pc = "idle", !.call = "none", !.looked = 0, !.final = FALSE, !.answer = answer]
Look(s, final)    == [s EXCEPT !.pc = "look", !.looked = 0, !.final = final]
Lend(s, b)        == [Answer(s, "none") EXCEPT !.pc = "lent", !.lease = b]
Reserving(s)      == s.call = "reserve"

\* flush begins with the return rings, reserve with the gate.
Call(p, call) ==
  LET s == [prod[p] EXCEPT !.call = call, !.answer = "none"] IN
  /\ s.pc = "idle"
  /\ prod' = [prod EXCEPT ![p] = IF Reserving(s) THEN [s EXCEPT !.pc = "gate"] ELSE Look(s, FALSE)]
  /\ UNCHANGED <<con, claimed, pools, live_producers, live_consumers, history>>

\* Mutant: the loop of reserve does not look for the consumers.
GateBlind(p) ==
  /\ prod[p].pc = "gate"
  /\ prod' = [prod EXCEPT ![p] = Look(@, FALSE)]
  /\ UNCHANGED <<con, claimed, pools, live_producers, live_consumers, history>>

\* is_disconnected, at the head of reserve's loop.
Gate(p) ==
  /\ prod[p].pc = "gate"
  /\ prod' = [prod EXCEPT ![p] = IF live_consumers = 0 THEN Answer(@, "none") ELSE Look(@, FALSE)]
  /\ UNCHANGED <<con, claimed, pools, live_producers, live_consumers, history>>

\* One return ring of returned().
Returned(p) ==
  LET s == prod[p]
      q == ret[p][s.cursor + 1]
      next == [s EXCEPT !.cursor = NextCursor(@, decl.consumers)] IN
  /\ s.pc = "look" /\ s.looked < decl.consumers
  /\ IF q = <<>>
     THEN prod' = [prod EXCEPT ![p] = [next EXCEPT !.looked = @ + 1]] /\ UNCHANGED ret
     ELSE /\ ret' = [ret EXCEPT ![p][s.cursor + 1] = Tail(q)]
          /\ prod' = [prod EXCEPT ![p] = [next EXCEPT !.in_flight = @ - 1, !.lease = Head(q), !.pc = "clear"]]
  /\ UNCHANGED <<con, claimed, fwd, dirty, live_producers, live_consumers, history>>

\* Nothing came back: reserve turns to the free list, and waits if that is
\* empty; flush looks at what is in flight.
NoneReturned(p) ==
  LET s == prod[p] IN
  /\ s.pc = "look" /\ s.looked = decl.consumers
  /\ prod' = [prod EXCEPT ![p] =
       IF ~Reserving(s) THEN [s EXCEPT !.pc = "flush"]
       ELSE IF s.free # <<>> THEN [s EXCEPT !.free = Front(@), !.lease = Last(s.free), !.pc = "clear"]
       ELSE [s EXCEPT !.pc = "gate"]]
  /\ UNCHANGED <<con, claimed, pools, live_producers, live_consumers, history>>

\* The end of try_reserve without a block, and of reclaim.
GiveUp(p) ==
  LET s == prod[p] IN
  /\ s.pc = "look" /\ s.looked = decl.consumers /\ ~s.final
  /\ Reserving(s) => s.free = <<>>
  /\ prod' = [prod EXCEPT ![p] = Answer(s, "none")]
  /\ UNCHANGED <<con, claimed, pools, live_producers, live_consumers, history>>

ToFree(s) == [s EXCEPT !.free = Append(@, s.lease), !.lease = 0]

\* values.clear(): under the write lease for reserve, after the push onto the
\* free list for reclaim and flush.
Clear(p) ==
  LET s == prod[p] IN
  /\ s.pc = "clear"
  /\ dirty' = dirty \ {<<p, s.lease>>}
  /\ prod' = [prod EXCEPT ![p] = IF Reserving(s) THEN Lend(s, s.lease) ELSE Look(ToFree(s), s.final)]
  /\ UNCHANGED <<con, claimed, fwd, ret, live_producers, live_consumers, history>>

\* Mutant: the values are destroyed before the block is put back.
ClearPanicsFirst(p) ==
  /\ prod[p].pc = "clear" /\ panics < MaxPanics /\ <<p, prod[p].lease>> \in dirty
  /\ dirty' = dirty \ {<<p, prod[p].lease>>}
  /\ prod' = [prod EXCEPT ![p] = Answer([@ EXCEPT !.lease = 0], "none")]
  /\ panics' = panics + 1
  /\ UNCHANGED <<con, claimed, fwd, ret, live_producers, live_consumers, commits>>

\* A destructor panics and the call unwinds: the rollback guard of reserve
\* puts the block on the free list, reclaim has put it there.
ClearPanics(p) ==
  /\ prod[p].pc = "clear" /\ panics < MaxPanics /\ <<p, prod[p].lease>> \in dirty
  /\ dirty' = dirty \ {<<p, prod[p].lease>>}
  /\ prod' = [prod EXCEPT ![p] = Answer(ToFree(@), "none")]
  /\ panics' = panics + 1
  /\ UNCHANGED <<con, claimed, fwd, ret, live_producers, live_consumers, commits>>

\* Mutant: flush answers as soon as it sees that the consumers are gone.
FlushAtOnce(p) ==
  LET s == prod[p] IN
  /\ s.pc = "flush"
  /\ prod' = [prod EXCEPT ![p] =
       IF s.in_flight = 0 THEN Answer(s, "flushed")
       ELSE IF live_consumers = 0 THEN Answer(s, "abandoned") ELSE Look(s, FALSE)]
  /\ UNCHANGED <<con, claimed, pools, live_producers, live_consumers, history>>

\* flush after a reclaim.
Flush(p) ==
  LET s == prod[p] IN
  /\ s.pc = "flush"
  /\ prod' = [prod EXCEPT ![p] =
       IF s.in_flight = 0 THEN Answer(s, "flushed")
       ELSE IF s.final THEN Answer(s, "abandoned") ELSE Look(s, live_consumers = 0)]
  /\ UNCHANGED <<con, claimed, pools, live_producers, live_consumers, history>>

-----------------------------------------------------------------------------
(* WriteLease.                                                             *)

\* push, extend_from_slice and advance_initialized: the block has room for some
\* more values, or the call changes nothing.
Fill(p) ==
  /\ prod[p].pc = "lent"
  /\ dirty' = dirty \cup {<<p, prod[p].lease>>}
  /\ UNCHANGED <<prod, con, claimed, fwd, ret, live_producers, live_consumers, history>>

\* commit: an empty block is rolled back, and with no consumer left the caller
\* keeps the lease.
Commit(p) ==
  LET s == prod[p] IN
  /\ s.pc = "lent" /\ commits[p] < MaxCommits(decl)
  /\ IF <<p, s.lease>> \notin dirty THEN prod' = [prod EXCEPT ![p] = Answer(ToFree(s), "none")]
     ELSE live_consumers # 0 /\ prod' = [prod EXCEPT ![p].pc = "send"]
  /\ UNCHANGED <<con, claimed, pools, live_producers, live_consumers, history>>

\* forward.try_send; a refused block stays with the lease.
Send(p) ==
  LET s == prod[p] IN
  /\ s.pc = "send"
  /\ IF Len(fwd[p]) < Slots
     THEN /\ fwd' = [fwd EXCEPT ![p] = Append(@, s.lease)]
          /\ prod' = [prod EXCEPT ![p] = Answer([s EXCEPT !.lease = 0, !.in_flight = @ + 1], "none")]
          /\ commits' = [commits EXCEPT ![p] = @ + 1]
     ELSE prod' = [prod EXCEPT ![p].pc = "lent"] /\ UNCHANGED <<fwd, commits>>
  /\ UNCHANGED <<con, claimed, ret, dirty, live_producers, live_consumers, panics>>

\* Drop for WriteLease: the block goes back with its values.
Rollback(p) ==
  /\ prod[p].pc = "lent"
  /\ prod' = [prod EXCEPT ![p] = Answer(ToFree(@), "none")]
  /\ UNCHANGED <<con, claimed, pools, live_producers, live_consumers, history>>

\* The fields of a Producer are dropped in order: forward, which counts it off,
\* then the return rings.
ProducerDrop(p) ==
  /\ prod[p].pc = "idle"
  /\ prod' = [prod EXCEPT ![p] = [Answer(@, "none") EXCEPT !.pc = "closing"]]
  /\ live_producers' = live_producers - 1
  /\ UNCHANGED <<con, claimed, pools, live_consumers, history>>

DropReturns(p) ==
  /\ prod[p].pc = "closing"
  /\ prod' = [prod EXCEPT ![p].pc = "gone", ![p].free = <<>>]
  /\ UNCHANGED <<con, claimed, pools, live_producers, live_consumers, history>>

-----------------------------------------------------------------------------
(* Consumer and ReadLease.                                                 *)

Hold(s, pc, block) == [s EXCEPT !.pc = pc, !.looked = 0, !.final = FALSE, !.block = block]

Skip(s) == [s EXCEPT !.pc = "scan", !.cursor = NextCursor(@, decl.producers), !.looked = @ + 1]

Receive(c) ==
  /\ con[c].pc = "idle"
  /\ con' = [con EXCEPT ![c].pc = "scan"]
  /\ UNCHANGED <<prod, claimed, pools, live_producers, live_consumers, history>>

\* One ring of take_block: skipped while another consumer has it.
Claim(c) ==
  LET s == con[c]
      p == s.cursor + 1 IN
  /\ s.pc = "scan" /\ s.looked < decl.producers
  /\ IF claimed[p] THEN con' = [con EXCEPT ![c] = Skip(@)] /\ UNCHANGED claimed
     ELSE con' = [con EXCEPT ![c].pc = "take"] /\ claimed' = [claimed EXCEPT ![p] = TRUE]
  /\ UNCHANGED <<prod, pools, live_producers, live_consumers, history>>

\* The block is moved out and the claim released.
Take(c) ==
  LET s == con[c]  p == s.cursor + 1 IN
  /\ s.pc = "take"
  /\ claimed' = [claimed EXCEPT ![p] = FALSE]
  /\ IF fwd[p] = <<>>
     THEN con' = [con EXCEPT ![c] = Skip(@)] /\ UNCHANGED fwd
     ELSE /\ fwd' = [fwd EXCEPT ![p] = Tail(@)]
          /\ con' = [con EXCEPT ![c] = Hold(Skip(s), "held", <<p, Head(fwd[p])>>)]
  /\ UNCHANGED <<prod, ret, dirty, live_producers, live_consumers, history>>

\* No block: recv returns None after the scan that follows the end.
NoBlock(c) ==
  LET s == con[c] IN
  /\ s.pc = "scan" /\ s.looked = decl.producers
  /\ con' = [con EXCEPT ![c] =
       IF s.final THEN Hold(s, "ended", <<>>) ELSE [s EXCEPT !.looked = 0, !.final = (live_producers = 0)]]
  /\ UNCHANGED <<prod, claimed, pools, live_producers, live_consumers, history>>

\* The end of try_recv without a block.
ReceiveNone(c) ==
  LET s == con[c] IN
  /\ s.pc = "scan" /\ s.looked = decl.producers /\ ~s.final
  /\ con' = [con EXCEPT ![c] = Hold(s, "idle", <<>>)]
  /\ UNCHANGED <<prod, claimed, pools, live_producers, live_consumers, history>>

\* Drop for ReadLease, with the values drained or not: back to the origin,
\* unless that is gone; a full return ring would lose the block.
Release(c) ==
  LET p == con[c].block[1]  b == con[c].block[2] IN
  /\ con[c].pc = "held"
  /\ con' = [con EXCEPT ![c] = Hold(@, "idle", <<>>)]
  /\ ret' = [ret EXCEPT ![p][c] = IF prod[p].pc # "gone" /\ Len(@) < ReturnSlots THEN Append(@, b) ELSE @]
  /\ dirty' \in {dirty, dirty \ {con[c].block}}
  /\ UNCHANGED <<prod, claimed, fwd, live_producers, live_consumers, history>>

ConsumerDrop(c) ==
  /\ con[c].pc \in {"idle", "ended"}
  /\ con' = [con EXCEPT ![c].pc = "gone"]
  /\ live_consumers' = live_consumers - 1
  /\ UNCHANGED <<prod, claimed, pools, live_producers, history>>

-----------------------------------------------------------------------------
ProducerStep(p) ==
  \/ Gate(p) \/ Returned(p) \/ NoneReturned(p) \/ GiveUp(p) \/ Clear(p) \/ ClearPanics(p)
  \/ Flush(p) \/ Send(p) \/ DropReturns(p)
ConsumerStep(c) == Receive(c) \/ Claim(c) \/ Take(c) \/ NoBlock(c) \/ ReceiveNone(c) \/ Release(c)

Endpoint ==
  \/ \E p \in DOMAIN prod :
       \/ ProducerStep(p) \/ Fill(p) \/ Commit(p) \/ Rollback(p) \/ ProducerDrop(p)
       \/ \E call \in {"reserve", "flush"} : Call(p, call)
  \/ \E c \in DOMAIN con : ConsumerStep(c) \/ ConsumerDrop(c)

Next == OpenRefused \/ OpenLeased \/ (Endpoint /\ UNCHANGED declaration)

\* Calls in progress go on; a consumer releases what it holds and, until it is
\* told the end or dropped, receives again: that is what flush waits for.
Fairness ==
  /\ \A p \in 1 .. 2 : WF_vars(p \in DOMAIN prod /\ ProducerStep(p) /\ UNCHANGED declaration)
  /\ \A c \in 1 .. 2 : WF_vars(c \in DOMAIN con /\ ConsumerStep(c) /\ UNCHANGED declaration)

Spec == Init /\ [][Next]_vars /\ Fairness

-----------------------------------------------------------------------------
HeldBy(c, p) == IF con[c].block # <<>> /\ con[c].block[1] = p THEN {con[c].block[2]} ELSE {}

\* The places a block of p can be in, each with the blocks that are there.
Places(p) ==
  <<ToSet(prod[p].free), {prod[p].lease} \ {0}, ToSet(fwd[p])>>
    \o [c \in Consumers |-> ToSet(ret[p][c])] \o [c \in Consumers |-> HeldBy(c, p)]

\* A pool never shrinks or doubles: every block of a producer that is not gone
\* is in exactly one place, whatever panicked, raced or was rolled back, and
\* in_flight counts exactly the blocks it has to get back.
PoolConserved ==
  \A p \in DOMAIN prod : prod[p].pc # "gone" =>
    /\ \A b \in Blocks : \E i \in DOMAIN Places(p) :
         b \in Places(p)[i] /\ \A j \in DOMAIN Places(p) \ {i} : b \notin Places(p)[j]
    /\ prod[p].in_flight = Cardinality(Blocks) - Len(prod[p].free) - (IF prod[p].lease = 0 THEN 0 ELSE 1)

\* What flush answers is the truth: after true the whole pool is back;
\* after false no consumer is left and what is missing
\* was never taken out of the forward ring, no release was overlooked.
FlushHonest ==
  \A p \in DOMAIN prod :
    /\ prod[p].answer = "flushed" => ToSet(prod[p].free) = Blocks
    /\ prod[p].answer = "abandoned" =>
         live_consumers = 0 /\ ToSet(prod[p].free) \cup ToSet(fwd[p]) = Blocks

Calling == {p \in DOMAIN prod : prod[p].call # "none"}

\* reserve and flush return: the blocks they wait for come back as long as the
\* consumers receive and release, and they give up when no consumer is left.
CallsReturn == \A p \in 1 .. 2 : p \in Calling ~> p \notin Calling
=============================================================================
