----------------------------- MODULE Broadcast ------------------------------
(***************************************************************************)
(* The broadcast channel of mpmc/broadcast/mod.rs: one publisher, one ring *)
(* of Cap slots, and up to N readers that clone every value published      *)
(* while they are active.  The publisher may overwrite a slot only when    *)
(* every gating reader has passed it.  It gates on `min_cache`, a cached   *)
(* minimum of the readers' cursors that it recomputes, under the           *)
(* membership_scan lock, only when the ring looks full.  Readers join,     *)
(* suspend, resume and leave at any time; joining takes the same lock.     *)
(*                                                                         *)
(* The value with sequence number s is s.  Positions are naturals: the     *)
(* code's wrapping usize never wraps within the bound MaxSeq.              *)
(***************************************************************************)
EXTENDS Integers, FiniteSets

CONSTANTS
  Cap,      \* slots of the ring
  N,        \* max_readers
  MaxSeq,   \* bound: values published
  MaxJoins  \* bound: subscriptions and resumptions

ASSUME CapAssumption   == Cap \in Nat \ {0}
ASSUME NAssumption     == N \in Nat \ {0}
ASSUME BoundAssumption == MaxSeq \in Nat /\ MaxJoins \in Nat

VARIABLES
  w, slot, lock, readers, owned, cursor, producer_gone,  \* Shared
  ppc, pw, min_cache, batch, todo, smin,                 \* Publisher
  rpc, r, rn,                                            \* each Reader
  joins, last, dropped, torn_down                        \* bound and history

shared    == <<w, slot, lock, readers, owned, cursor, producer_gone>>
publisher == <<ppc, pw, min_cache, batch, todo, smin>>
reader    == <<rpc, r, rn>>
history   == <<joins, last, dropped, torn_down>>
vars      == <<shared, publisher, reader, history>>

Bits     == 0 .. N - 1
NoOne    == -1
Scanner  == N           \* the publisher as holder of the lock
Seqs     == 0 .. MaxSeq - 1
Uninit   == -1
SlotOf(s) == s % Cap
Smaller(a, b) == IF a <= b THEN a ELSE b

TypeOK ==
  /\ w \in 0 .. MaxSeq /\ pw \in 0 .. MaxSeq
  /\ slot \in [0 .. Cap - 1 -> Seqs \cup {Uninit}]
  /\ lock \in Bits \cup {NoOne, Scanner}
  /\ readers \in SUBSET Bits /\ owned \in SUBSET Bits
  /\ cursor \in [Bits -> 0 .. MaxSeq]
  /\ producer_gone \in BOOLEAN
  /\ ppc \in {"idle", "gate", "lock", "scan", "write", "publish", "next", "gone"}
  /\ min_cache \in 0 .. MaxSeq /\ batch \in BOOLEAN
  /\ todo \in SUBSET Bits /\ smin \in 0 .. MaxSeq
  /\ rpc \in [Bits -> {"free", "join", "activate", "idle", "clone", "suspended", "leave"}]
  /\ r \in [Bits -> 0 .. MaxSeq] /\ rn \in [Bits -> 0 .. MaxSeq]
  /\ joins \in 0 .. MaxJoins
  /\ last \in [Bits -> -1 .. MaxSeq]
  /\ dropped \in [Seqs \cup {Uninit} -> Nat]
  /\ torn_down \in BOOLEAN

\* open: bit 0 is the initial reader.
Init ==
  /\ w = 0 /\ slot = [s \in 0 .. Cap - 1 |-> Uninit] /\ lock = NoOne
  /\ readers = {0} /\ owned = {0} /\ cursor = [b \in Bits |-> 0]
  /\ producer_gone = FALSE
  /\ ppc = "idle" /\ pw = 0 /\ min_cache = 0 /\ batch = FALSE
  /\ todo = {} /\ smin = 0
  /\ rpc = [b \in Bits |-> IF b = 0 THEN "idle" ELSE "free"]
  /\ r = [b \in Bits |-> 0] /\ rn = [b \in Bits |-> 0]
  /\ joins = 0 /\ last = [b \in Bits |-> -1]
  /\ dropped = [s \in Seqs \cup {Uninit} |-> 0] /\ torn_down = FALSE

-----------------------------------------------------------------------------
(* The publisher.  pw is the local mirror of w and runs ahead of it inside *)
(* a batch.                                                                *)

\* Mutant: one slot too many.
FullLate == pw - min_cache > Cap

Full == pw - min_cache >= Cap

\* try_send (and send, which retries it) or send_batch.
BeginSend ==
  /\ ppc = "idle" /\ pw < MaxSeq
  /\ batch' \in BOOLEAN
  /\ ppc' = "gate"
  /\ UNCHANGED <<shared, pw, min_cache, todo, smin, reader, history>>

\* Before it waits, send_batch publishes the prefix it has written.
Gate ==
  /\ ppc = "gate"
  /\ ppc' = IF Full THEN "lock" ELSE "write"
  /\ w' = IF Full THEN pw ELSE w
  /\ UNCHANGED <<slot, lock, readers, owned, cursor, producer_gone, pw, min_cache, batch,
                 todo, smin, reader, history>>

\* refresh_slowest takes the lock and slowest loads the bitmap.
ScanBegin ==
  /\ ppc = "lock" /\ lock = NoOne
  /\ lock' = Scanner
  /\ todo' = readers /\ smin' = pw
  /\ ppc' = "scan"
  /\ UNCHANGED <<w, slot, readers, owned, cursor, producer_gone, pw, min_cache, batch,
                 reader, history>>

ScanCursor(b) ==
  /\ ppc = "scan" /\ b \in todo /\ \A c \in todo : b <= c
  /\ smin' = Smaller(smin, cursor[b])
  /\ todo' = todo \ {b}
  /\ UNCHANGED <<shared, ppc, pw, min_cache, batch, reader, history>>

\* Still full: try_send returns the value, send_batch looks again.
ScanEnd ==
  /\ ppc = "scan" /\ todo = {}
  /\ min_cache' = smin
  /\ lock' = NoOne
  /\ ppc' = IF pw - smin < Cap THEN "write" ELSE IF batch THEN "gate" ELSE "idle"
  /\ UNCHANGED <<w, slot, readers, owned, cursor, producer_gone, pw, batch, todo, smin,
                 reader, history>>

\* Mutant: the first replaced value is not dropped.
WriteSlotLeaks ==
  /\ ppc = "write"
  /\ slot' = [slot EXCEPT ![SlotOf(pw)] = pw]
  /\ dropped' = IF pw > Cap THEN [dropped EXCEPT ![slot[SlotOf(pw)]] = @ + 1] ELSE dropped
  /\ pw' = pw + 1
  /\ ppc' = IF batch THEN "next" ELSE "publish"
  /\ UNCHANGED <<w, lock, readers, owned, cursor, producer_gone, min_cache, batch, todo,
                 smin, reader, joins, last, torn_down>>

\* The slot is the publisher's from the gate to this step; the value it
\* replaces is dropped.
WriteSlot ==
  /\ ppc = "write"
  /\ slot' = [slot EXCEPT ![SlotOf(pw)] = pw]
  /\ dropped' = IF pw >= Cap THEN [dropped EXCEPT ![slot[SlotOf(pw)]] = @ + 1] ELSE dropped
  /\ pw' = pw + 1
  /\ ppc' = IF batch THEN "next" ELSE "publish"
  /\ UNCHANGED <<w, lock, readers, owned, cursor, producer_gone, min_cache, batch, todo,
                 smin, reader, joins, last, torn_down>>

NextOfBatch ==
  /\ ppc = "next"
  /\ ppc' = IF pw < MaxSeq THEN "gate" ELSE "publish"
  /\ UNCHANGED <<shared, pw, min_cache, batch, todo, smin, reader, history>>

\* The end of the batch, of its iterator, or of an unwind.
Publish ==
  /\ ppc \in {"publish", "next"}
  /\ w' = pw
  /\ ppc' = "idle"
  /\ UNCHANGED <<slot, lock, readers, owned, cursor, producer_gone, pw, min_cache, batch,
                 todo, smin, reader, history>>

PublisherDrop ==
  /\ ppc = "idle"
  /\ producer_gone' = TRUE
  /\ ppc' = "gone"
  /\ UNCHANGED <<w, slot, lock, readers, owned, cursor, pw, min_cache, batch, todo, smin,
                 reader, history>>

-----------------------------------------------------------------------------
(* Readers.  A reader is identified by the cursor slot (bit) it owns.      *)

\* A live endpoint that can call subscribe.
CanSubscribe == ppc = "idle" \/ \E b \in Bits : rpc[b] \in {"idle", "suspended"}

\* subscribe: the compare-exchange claims the lowest free bit.
Subscribe(b) ==
  /\ CanSubscribe /\ joins < MaxJoins
  /\ b \notin owned /\ \A c \in Bits \ owned : b <= c
  /\ owned' = owned \cup {b}
  /\ rpc' = [rpc EXCEPT ![b] = "join"]
  /\ joins' = joins + 1
  /\ UNCHANGED <<w, slot, lock, readers, cursor, producer_gone, publisher, r, rn, last,
                 dropped, torn_down>>

Resume(b) ==
  /\ rpc[b] = "suspended" /\ joins < MaxJoins
  /\ rpc' = [rpc EXCEPT ![b] = "join"]
  /\ joins' = joins + 1
  /\ UNCHANGED <<shared, publisher, r, rn, last, dropped, torn_down>>

\* Mutant: activation does not wait for the gating scan.
ActivateUnlocked(b) ==
  /\ rpc[b] = "join"
  /\ r' = [r EXCEPT ![b] = w]
  /\ rpc' = [rpc EXCEPT ![b] = "activate"]
  /\ last' = [last EXCEPT ![b] = w - 1]
  /\ UNCHANGED <<shared, publisher, rn, joins, dropped, torn_down>>

\* activate_reader: lock and load w; then store the cursor and set the bit.
ActivateBegin(b) ==
  /\ rpc[b] = "join" /\ lock = NoOne
  /\ lock' = b
  /\ r' = [r EXCEPT ![b] = w]
  /\ rpc' = [rpc EXCEPT ![b] = "activate"]
  /\ last' = [last EXCEPT ![b] = w - 1]
  /\ UNCHANGED <<w, slot, readers, owned, cursor, producer_gone, publisher, rn, joins,
                 dropped, torn_down>>

ActivateEnd(b) ==
  /\ rpc[b] = "activate"
  /\ cursor' = [cursor EXCEPT ![b] = r[b]]
  /\ readers' = readers \cup {b}
  /\ lock' = NoOne
  /\ rpc' = [rpc EXCEPT ![b] = "idle"]
  /\ UNCHANGED <<w, slot, owned, producer_gone, publisher, r, rn, history>>

\* try_recv and drain load w and decide how many values to clone; the skip of
\* a lapped reader is the defensive guard.
StartRead(b, max) ==
  /\ rpc[b] = "idle" /\ r[b] # w
  /\ IF w - r[b] > Cap
     THEN /\ r' = [r EXCEPT ![b] = w]
          /\ cursor' = [cursor EXCEPT ![b] = w]
          /\ UNCHANGED <<rpc, rn>>
     ELSE /\ rn' = [rn EXCEPT ![b] = Smaller(w - r[b], max)]
          /\ rpc' = [rpc EXCEPT ![b] = "clone"]
          /\ UNCHANGED <<r, cursor>>
  /\ UNCHANGED <<w, slot, lock, readers, owned, producer_gone, publisher, history>>

CloneSlot(b) ==
  /\ rpc[b] = "clone" /\ rn[b] > 0
  /\ last' = [last EXCEPT ![b] = slot[SlotOf(r[b])]]
  /\ r' = [r EXCEPT ![b] = @ + 1]
  /\ rn' = [rn EXCEPT ![b] = @ - 1]
  /\ UNCHANGED <<shared, publisher, rpc, joins, dropped, torn_down>>

\* Mutant: the cursor is moved to the newest value instead of the next one.
CommitCursorAhead(b) ==
  /\ rpc[b] = "clone" /\ (rn[b] = 0 \/ r[b] > cursor[b])
  /\ cursor' = [cursor EXCEPT ![b] = w]
  /\ rpc' = [rpc EXCEPT ![b] = "idle"]
  /\ rn' = [rn EXCEPT ![b] = 0]
  /\ UNCHANGED <<w, slot, lock, readers, owned, producer_gone, publisher, r, history>>

\* The store of the cursor after the last clone, or by the guard when the
\* caller's function panics part of the way.
CommitCursor(b) ==
  /\ rpc[b] = "clone" /\ r[b] > cursor[b]
  /\ cursor' = [cursor EXCEPT ![b] = r[b]]
  /\ rpc' = [rpc EXCEPT ![b] = "idle"]
  /\ rn' = [rn EXCEPT ![b] = 0]
  /\ UNCHANGED <<w, slot, lock, readers, owned, producer_gone, publisher, r, history>>

Suspend(b) ==
  /\ rpc[b] = "idle"
  /\ readers' = readers \ {b}
  /\ rpc' = [rpc EXCEPT ![b] = "suspended"]
  /\ UNCHANGED <<w, slot, lock, owned, cursor, producer_gone, publisher, r, rn, history>>

\* Mutant: a reader that leaves keeps its gate.
LeaveGated(b) ==
  /\ rpc[b] \in {"idle", "suspended"}
  /\ rpc' = [rpc EXCEPT ![b] = "leave"]
  /\ UNCHANGED <<shared, publisher, r, rn, history>>

\* Drop for Reader: the gate first, then the reservation.
Leave(b) ==
  /\ rpc[b] \in {"idle", "suspended"}
  /\ readers' = readers \ {b}
  /\ rpc' = [rpc EXCEPT ![b] = "leave"]
  /\ UNCHANGED <<w, slot, lock, owned, cursor, producer_gone, publisher, r, rn, history>>

LeaveEnd(b) ==
  /\ rpc[b] = "leave"
  /\ owned' = owned \ {b}
  /\ rpc' = [rpc EXCEPT ![b] = "free"]
  /\ UNCHANGED <<w, slot, lock, readers, cursor, producer_gone, publisher, r, rn, history>>

\* Drop for Shared: the last min(w, Cap) values are dropped.
TearDown ==
  /\ ppc = "gone" /\ \A b \in Bits : rpc[b] = "free"
  /\ ~torn_down /\ torn_down' = TRUE
  /\ dropped' = [s \in Seqs \cup {Uninit} |->
                   dropped[s] + Cardinality({p \in w - Smaller(w, Cap) .. w - 1 :
                                               slot[SlotOf(p)] = s})]
  /\ UNCHANGED <<shared, publisher, reader, joins, last>>

-----------------------------------------------------------------------------
PublisherStep ==
  \/ Gate \/ ScanBegin \/ (\E b \in Bits : ScanCursor(b)) \/ ScanEnd
  \/ WriteSlot \/ NextOfBatch \/ Publish

ReaderStep(b) ==
  \/ ActivateBegin(b) \/ ActivateEnd(b)
  \/ \E max \in {1, Cap} : StartRead(b, max)
  \/ CloneSlot(b) \/ CommitCursor(b) \/ LeaveEnd(b)

Membership(b) == Subscribe(b) \/ Resume(b) \/ Suspend(b) \/ Leave(b)

Over == torn_down /\ UNCHANGED vars

Next ==
  \/ BeginSend \/ PublisherStep \/ PublisherDrop
  \/ \E b \in Bits : ReaderStep(b) \/ Membership(b)
  \/ TearDown \/ Over

Spec == Init /\ [][Next]_vars

\* A publisher inside send or send_batch keeps running, and a reader keeps
\* reading as for_each does; nobody has to join, suspend or leave.
Fairness == WF_vars(PublisherStep) /\ \A b \in Bits : WF_vars(ReaderStep(b))

FairSpec == Spec /\ Fairness

-----------------------------------------------------------------------------
(* Properties.                                                             *)

\* No torn read: while the publisher owns a slot for writing, no reader is
\* cloning from it (the SAFETY comments of try_send, try_recv and drain).
NoTornRead ==
  ppc = "write" =>
    \A b \in Bits : rpc[b] = "clone" /\ rn[b] > 0 => SlotOf(r[b]) # SlotOf(pw)

\* "A correctly activated reader cannot be lapped": the defensive skip in
\* try_recv and drain is never taken, whatever joins race the gating scan.
NeverLapped ==
  \A b \in Bits : rpc[b] \in {"idle", "clone"} => w - r[b] <= Cap

\* An active reader hears every value published since it was activated, in
\* order: what it heard last is always the predecessor of what it reads next.
HearsEverything ==
  \A b \in Bits : rpc[b] \in {"idle", "clone"} => last[b] = r[b] - 1

\* At teardown every published value was dropped exactly once, whether it was
\* replaced in the ring or was still there.
DroppedOnce ==
  torn_down => \A s \in Seqs \cup {Uninit} : dropped[s] = IF 0 <= s /\ s < w THEN 1 ELSE 0

\* A blocking send always returns: readers that read, are suspended or have
\* left cannot hold the publisher up.
SendReturns == ppc = "gate" ~> ppc = "idle"
=============================================================================
