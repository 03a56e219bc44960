----------------------------- MODULE MpscProofs -----------------------------
(***************************************************************************)
(* Proofs about MpscAsync, for every number of rings and producers, every  *)
(* capacity and every batch size, in all three tiers.                      *)
(***************************************************************************)
EXTENDS MpscAsync, SequenceFacts

-----------------------------------------------------------------------------
(* Types.                                                                  *)

RingState == [q : Seq(Producers), producer_gone : BOOLEAN, consumer_gone : BOOLEAN, arc : BOOLEAN]

WaiterState(tasks) == [waiting : BOOLEAN, waker : tasks \cup {NoTask}, needs_clear : BOOLEAN]

SenderState ==
  [pc : {"unborn", "idle", "try", "arm", "retry", "yield", "pending", "done", "notify", "wake",
         "unlink", "release", "gone", "take", "deposit"},
   ring : Rings \cup {0}, after : {"done", "arm", "yield", "release", "gone"}, batch : BOOLEAN,
   dirty : BOOLEAN, budget : Int, woken : BOOLEAN, sent : Nat]

ReceiverState ==
  [pc : {"idle", "refresh", "append", "visit", "finished", "space", "spacewake", "miss", "arm",
         "pending", "ready", "ended", "shut", "shutnotify", "gone"},
   mode : {"one", "many", "drain"}, phase : 0 .. 4, steps : Nat, cursor : Nat,
   staging : Seq(Producers), pushed : Nat, at : Rings \cup {0}, woken : BOOLEAN, seen : Nat,
   loaded : Nat]

TypeInv ==
  /\ tier \in {"fixed", "pool", "dynamic"} /\ live \in Int
  /\ notifier \in WaiterState({RecvTask})
  /\ ring \in [Rings -> RingState] /\ space \in [Rings -> WaiterState(Producers)]
  /\ prod \in [Senders -> SenderState] /\ rx \in ReceiverState
  /\ shards \in Seq(Rings) /\ free \in SUBSET Rings /\ freelist \in Seq(Rings)
  /\ inbox \in [queue : Seq(Rings), generation : Nat]
  /\ got \in [Producers -> Nat]

\* Where the receiver is tells what it works on.
PlaceInv ==
  /\ rx.pc \in {"visit", "finished", "space", "spacewake", "shutnotify"} => shards # <<>>
  /\ rx.pc \in {"visit", "finished"} => rx.steps > 0
  /\ rx.pc \in {"space", "spacewake"} => rx.at \in Rings
  /\ rx.mode = "one" \/ rx.pc \in {"idle", "miss", "arm", "pending", "ended", "shut", "shutnotify", "gone"} =>
       rx.pushed = 0
  /\ rx.pc \in {"ready", "space", "spacewake"} /\ rx.mode = "one" => rx.staging # <<>>

\* The handle never sends; only it registers, and only in the dynamic tier.
RoleInv ==
  /\ prod[Handle].pc \in {"idle", "take", "deposit", "release", "notify", "wake", "gone"}
  /\ prod[Handle].pc \in {"take", "deposit"} => tier = "dynamic"
  /\ prod[Handle].pc \in {"notify", "wake"} => prod[Handle].after = "gone"
  /\ \A p \in Producers : prod[p].pc \notin {"take", "deposit"}

-----------------------------------------------------------------------------
(* Who uses a ring.                                                        *)

Holds(p) == Active(p) \/ prod[p].pc = "unlink"

Depositing(r) == prod[Handle].pc = "deposit" /\ prod[Handle].ring = r

\* A ring in which nothing is left of an earlier owner.
Clean(r) == ring[r].arc /\ ring[r].q = <<>> /\ ~ring[r].producer_gone /\ space[r].waker = NoTask

\* A producer that has not dropped its Arc keeps its ring from everybody else.
HoldInv ==
  \A p \in Producers : Holds(p) =>
    /\ prod[p].ring \in Rings /\ ring[prod[p].ring].arc /\ prod[p].ring \notin free
    /\ ~Depositing(prod[p].ring)
    /\ \A o \in Producers : Holds(o) /\ prod[o].ring = prod[p].ring => o = p

UseInv ==
  \A p \in Producers : Active(p) =>
    /\ ToSet(ring[prod[p].ring].q) \subseteq {p} /\ ~ring[prod[p].ring].producer_gone
    /\ space[prod[p].ring].waker \in {p, NoTask}

\* A ring that waits for its next producer is clean.
CleanInv ==
  /\ prod[Handle].pc = "deposit" => prod[Handle].ring \in Rings
  /\ \A r \in Rings : Depositing(r) \/ r \in free => Clean(r)
  /\ tier # "pool" => free = {}
  /\ \A r \in Rings : ~space[r].needs_clear => space[r] = Unarmed

\* A ring is in one list at most, and a parked ring has no user.
ListInv ==
  /\ Distinct(shards) /\ Distinct(inbox.queue) /\ Distinct(freelist)
  /\ ToSet(shards) \cap ToSet(inbox.queue) = {}
  /\ ToSet(shards) \cap ToSet(freelist) = {} /\ ToSet(inbox.queue) \cap ToSet(freelist) = {}
  /\ \A r \in ToSet(freelist) : ring[r].producer_gone /\ ring[r].q = <<>>

\* A sender that armed and has not been woken is still registered.
Waits(p) == prod[p].pc \in {"retry", "pending"} /\ ~prod[p].woken

Registered(p) ==
  /\ space[prod[p].ring].waker = p
  /\ space[prod[p].ring].waiting \/ (rx.pc = "spacewake" /\ rx.at = prod[p].ring)

\* It sleeps on a full ring, or the receiver is about to notify it.
Notice(p) ==
  \/ IsFull(p) /\ ~RingOf(p).consumer_gone
  \/ /\ space[prod[p].ring].waker = p
     /\ \/ rx.at = prod[p].ring /\ rx.pc = "spacewake"
        \/ /\ space[prod[p].ring].waiting
           /\ \/ rx.at = prod[p].ring /\ rx.pc = "space"
              \/ rx.pc = "shutnotify" /\ Head(shards) = prod[p].ring

WaitInv ==
  \A p \in Producers : Waits(p) => Registered(p) /\ (prod[p].pc = "pending" => Notice(p))

OwnInv == HoldInv /\ UseInv /\ CleanInv /\ ListInv /\ WaitInv

-----------------------------------------------------------------------------
(* Facts about the operators of the model.                                 *)

\* The names of rings, tasks and senders do not clash.
LEMMA Names ==
  /\ Handle \in Senders /\ Handle \notin Producers /\ Producers \subseteq Senders
  /\ \A s \in Senders : s \in Producers \/ s = Handle
  /\ NoTask \notin Senders /\ RecvTask \notin Senders /\ NoTask # RecvTask /\ NoTask # Handle
  /\ 0 \notin Rings /\ Handle = 0 /\ Rings \subseteq Nat /\ Producers \subseteq Nat
  BY BoundsAssumption DEF Handle, Senders, Producers, NoTask, RecvTask, Rings

\* A sequence cut in two.
LEMMA Slices ==
  ASSUME NEW B, NEW s \in Seq(B), NEW n \in 0 .. Len(s)
  PROVE  /\ SubSeq(s, 1, n) \in Seq(B) /\ Len(SubSeq(s, 1, n)) = n
         /\ \A i \in 1 .. n : SubSeq(s, 1, n)[i] = s[i]
         /\ SubSeq(s, n + 1, Len(s)) \in Seq(B) /\ Len(SubSeq(s, n + 1, Len(s))) = Len(s) - n
         /\ \A i \in 1 .. Len(s) - n : SubSeq(s, n + 1, Len(s))[i] = s[n + i]
<1>1. Len(s) \in Nat /\ \A i \in 1 .. Len(s) : s[i] \in B
  OBVIOUS
<1>2. \A i \in 1 .. n : s[i] \in B
  BY <1>1
<1>3. \A i \in n + 1 .. Len(s) : s[i] \in B
  BY <1>1
<1>4. /\ SubSeq(s, 1, n) \in Seq(B)
      /\ Len(SubSeq(s, 1, n)) = IF 1 <= n THEN n - 1 + 1 ELSE 0
      /\ \A i \in 1 .. n - 1 + 1 : SubSeq(s, 1, n)[i] = s[1 + i - 1]
  BY <1>1, <1>2, SubSeqProperties
<1>5. /\ SubSeq(s, n + 1, Len(s)) \in Seq(B)
      /\ Len(SubSeq(s, n + 1, Len(s))) = IF n + 1 <= Len(s) THEN Len(s) - (n + 1) + 1 ELSE 0
      /\ \A i \in 1 .. Len(s) - (n + 1) + 1 : SubSeq(s, n + 1, Len(s))[i] = s[n + 1 + i - 1]
  BY <1>1, <1>3, SubSeqProperties
<1> QED
  BY <1>1, <1>4, <1>5

\* A slice holds nothing the sequence does not hold.
LEMMA SliceSet ==
  ASSUME NEW B, NEW s \in Seq(B), NEW n \in 0 .. Len(s)
  PROVE  /\ ToSet(SubSeq(s, 1, n)) \subseteq ToSet(s)
         /\ ToSet(SubSeq(s, n + 1, Len(s))) \subseteq ToSet(s)
<1> DEFINE a == SubSeq(s, 1, n)
           b == SubSeq(s, n + 1, Len(s))
<1>1. /\ a \in Seq(B) /\ Len(a) = n /\ \A i \in 1 .. n : a[i] = s[i]
      /\ b \in Seq(B) /\ Len(b) = Len(s) - n /\ \A i \in 1 .. Len(s) - n : b[i] = s[n + i]
  BY Slices
<1> HIDE DEF a, b
<1>2. DOMAIN a = 1 .. n /\ DOMAIN b = 1 .. Len(s) - n /\ DOMAIN s = 1 .. Len(s)
  BY <1>1
<1>3. \A i \in 1 .. n : i \in 1 .. Len(s)
  OBVIOUS
<1>4. \A i \in 1 .. Len(s) - n : n + i \in 1 .. Len(s)
  OBVIOUS
<1> QED
  BY <1>1, <1>2, <1>3, <1>4, SMTT(30) DEF ToSet, a, b

\* The number of values of a sender in a sequence.
LEMMA CountType ==
  ASSUME NEW p, NEW s \in Seq(Producers)
  PROVE  /\ Count(p, s) \in Nat
         /\ p \notin ToSet(s) => Count(p, s) = 0
<1> DEFINE l == Len(s)
           S == {i \in 1 .. l : s[i] = p}
<1>1. l \in Nat /\ DOMAIN s = 1 .. l
  OBVIOUS
<1>2. IsFiniteSet(1 .. l)
  BY <1>1, FS_Interval
<1>3. IsFiniteSet(S)
  BY <1>2, FS_Subset
<1>4. Cardinality(S) \in Nat
  BY <1>3, FS_CardinalityType
<1>5. p \notin ToSet(s) => S = {}
  BY <1>1 DEF ToSet
<1> QED
  BY <1>4, <1>5, FS_EmptySet DEF Count

\* The shard the receiver visits is one of its shards.
LEMMA AtIs ==
  ASSUME TypeInv, shards # <<>>
  PROVE  At \in 1 .. Len(shards) /\ shards[At] \in Rings /\ shards[At] \in ToSet(shards)
<1> DEFINE n == Len(shards)
           c == rx.cursor
<1>1. n \in Nat \ {0} /\ c \in Nat /\ shards \in Seq(Rings) /\ DOMAIN shards = 1 .. n
  BY DEF TypeInv, ReceiverState
<1>2. c % n \in 0 .. n - 1
  BY <1>1
<1>3. At \in 1 .. n
  BY <1>1, <1>2 DEF At
<1> QED
  BY <1>1, <1>3 DEF ToSet

\* The cursor is a natural number.
LEMMA BumpedIs == TypeInv => Bumped \in Nat
  BY BoundsAssumption, SMTT(30) DEF TypeInv, ReceiverState, Bumped

\* Pruning removes exactly one shard.
LEMMA SwapRemoveIs ==
  ASSUME NEW B, NEW s \in Seq(B), NEW i \in 1 .. Len(s)
  PROVE  /\ SwapRemove(s, i) \in Seq(B) /\ Len(SwapRemove(s, i)) = Len(s) - 1
         /\ \A j \in 1 .. Len(s) - 1 : SwapRemove(s, i)[j] = IF j = i THEN s[Len(s)] ELSE s[j]
         /\ Distinct(s) => Distinct(SwapRemove(s, i)) /\ ToSet(SwapRemove(s, i)) = ToSet(s) \ {s[i]}
<1> DEFINE t == SwapRemove(s, i)
           l == Len(s)
<1>1. l \in Nat \ {0} /\ DOMAIN s = 1 .. l /\ Last(s) = s[l] /\ l \in 1 .. l /\ \A j \in 1 .. l : s[j] \in B
  BY DEF Last
<1>2. t = [j \in 1 .. l - 1 |-> IF j = i THEN s[l] ELSE s[j]]
  BY <1>1 DEF SwapRemove
<1> HIDE DEF l
<1>3. \A j \in 1 .. l - 1 : j \in 1 .. l /\ j # l
  BY <1>1
<1>4. t \in [1 .. l - 1 -> B] /\ l - 1 \in Nat
  BY <1>1, <1>2, <1>3
<1>5. t \in Seq(B) /\ Len(t) = l - 1 /\ DOMAIN t = 1 .. l - 1
  BY <1>4
<1>6. \A j \in 1 .. l - 1 : t[j] = IF j = i THEN s[l] ELSE s[j]
  BY <1>2
<1> HIDE DEF t
<1>7. ASSUME Distinct(s) PROVE Distinct(t)
  BY <1>1, <1>3, <1>5, <1>6, <1>7 DEF Distinct
<1>8. ASSUME Distinct(s), NEW x \in ToSet(t) PROVE x \in ToSet(s) /\ x # s[i]
  <2>1. PICK j \in 1 .. l - 1 : x = t[j]
    BY <1>5, <1>8 DEF ToSet
  <2>2. CASE j = i
    <3>1. x = s[l] /\ l # i
      BY <1>3, <1>6, <2>1, <2>2
    <3> QED
      BY <1>1, <1>8, <3>1 DEF ToSet, Distinct, l
  <2>3. CASE j # i
    <3>1. x = s[j] /\ j \in 1 .. l
      BY <1>3, <1>6, <2>1, <2>3
    <3> QED
      BY <1>1, <1>8, <2>3, <3>1 DEF ToSet, Distinct, l
  <2> QED
    BY <2>2, <2>3
<1>9. ASSUME Distinct(s), NEW x \in ToSet(s), x # s[i] PROVE x \in ToSet(t)
  <2>1. PICK j \in 1 .. l : x = s[j]
    BY <1>1, <1>9 DEF ToSet
  <2>2. CASE j = l
    <3>1. i \in 1 .. l - 1 /\ t[i] = x
      BY <1>1, <1>6, <1>9, <2>1, <2>2 DEF l
    <3> QED
      BY <1>5, <3>1 DEF ToSet
  <2>3. CASE j # l
    <3>1. j \in 1 .. l - 1 /\ j # i
      BY <1>1, <1>9, <2>1, <2>3
    <3> QED
      BY <1>5, <1>6, <2>1, <3>1 DEF ToSet
  <2> QED
    BY <2>2, <2>3
<1>10. Distinct(s) => ToSet(t) = ToSet(s) \ {s[i]}
  BY <1>8, <1>9
<1> QED
  BY <1>5, <1>6, <1>7, <1>10 DEF t, l

\* Two lists without a common ring, one after the other.
LEMMA JoinIs ==
  ASSUME NEW B, NEW s \in Seq(B), NEW t \in Seq(B)
  PROVE  /\ s \o t \in Seq(B) /\ Len(s \o t) = Len(s) + Len(t)
         /\ ToSet(s \o t) = ToSet(s) \cup ToSet(t)
         /\ Distinct(s) /\ Distinct(t) /\ ToSet(s) \cap ToSet(t) = {} => Distinct(s \o t)
<1> DEFINE u == s \o t
           l == Len(s)
           m == Len(t)
<1>1. /\ l \in Nat /\ m \in Nat /\ u \in Seq(B) /\ Len(u) = l + m
      /\ DOMAIN s = 1 .. l /\ DOMAIN t = 1 .. m /\ DOMAIN u = 1 .. l + m
      /\ \A i \in 1 .. l + m : u[i] = IF i <= l THEN s[i] ELSE t[i - l]
  OBVIOUS
<1> HIDE DEF u, l, m
<1>2. \A i \in 1 .. l : i \in 1 .. l + m /\ u[i] = s[i]
  BY <1>1
<1>3. \A i \in 1 .. m : l + i \in 1 .. l + m /\ u[l + i] = t[i]
  BY <1>1
<1>4. \A i \in 1 .. l + m : (i \in 1 .. l /\ u[i] = s[i]) \/ (i - l \in 1 .. m /\ u[i] = t[i - l])
  BY <1>1
<1>5. ToSet(u) = ToSet(s) \cup ToSet(t)
  <2>1. ASSUME NEW x \in ToSet(u) PROVE x \in ToSet(s) \cup ToSet(t)
    BY <1>1, <1>4, <2>1 DEF ToSet
  <2>2. ASSUME NEW x \in ToSet(s) PROVE x \in ToSet(u)
    BY <1>1, <1>2, <2>2 DEF ToSet
  <2>3. ASSUME NEW x \in ToSet(t) PROVE x \in ToSet(u)
    <3>1. PICK i \in 1 .. m : x = t[i]
      BY <1>1, <2>3 DEF ToSet
    <3>2. l + i \in 1 .. l + m /\ u[l + i] = x
      BY <1>3, <3>1
    <3> QED
      BY <1>1, <3>2 DEF ToSet
  <2> QED
    BY <2>1, <2>2, <2>3
<1>6. ASSUME Distinct(s), Distinct(t), ToSet(s) \cap ToSet(t) = {}, NEW i \in 1 .. l + m,
             NEW j \in 1 .. l + m, u[i] = u[j]
      PROVE  i = j
  <2>1. CASE i \in 1 .. l /\ u[i] = s[i] /\ j \in 1 .. l /\ u[j] = s[j]
    BY <1>1, <1>6, <2>1 DEF Distinct
  <2>2. CASE i - l \in 1 .. m /\ u[i] = t[i - l] /\ j - l \in 1 .. m /\ u[j] = t[j - l]
    <3>1. i - l = j - l
      BY <1>1, <1>6, <2>2 DEF Distinct
    <3> QED
      BY <1>1, <3>1
  <2>3. ASSUME NEW a \in 1 .. l, NEW b \in 1 .. m, s[a] = t[b] PROVE FALSE
    BY <1>1, <1>6, <2>3 DEF ToSet
  <2> QED
    BY <1>4, <1>6, <2>1, <2>2, <2>3
<1> QED
  BY <1>1, <1>5, <1>6 DEF u, l, m, Distinct

-----------------------------------------------------------------------------
(* Types and places are kept.                                              *)

BaseInv == TypeInv /\ PlaceInv /\ RoleInv

\* What a pass that goes on, or ends, leaves in the receiver.
LEMMA VisitsIs ==
  ASSUME NEW r \in ReceiverState, NEW n \in Nat
  PROVE  /\ Visits(r, n) \in ReceiverState
         /\ Visits(r, n).pc = (IF n = 0 THEN (IF r.pushed > 0 THEN "ready" ELSE "miss") ELSE "visit")
         /\ Visits(r, n).steps = n /\ Visits(r, n).at = 0
         /\ Visits(r, n).mode = r.mode /\ Visits(r, n).phase = r.phase
         /\ Visits(r, n).cursor = r.cursor /\ Visits(r, n).staging = r.staging
         /\ Visits(r, n).pushed = r.pushed /\ Visits(r, n).woken = r.woken
         /\ Visits(r, n).seen = r.seen /\ Visits(r, n).loaded = r.loaded
  BY DEF Visits, Missed, ReceiverState

\* How a pass begins.
LEMMA PassIs ==
  ASSUME NEW r \in ReceiverState, NEW ph \in 0 .. 4, shards \in Seq(Rings)
  PROVE  /\ Pass(r, ph) \in ReceiverState
         /\ Pass(r, ph).pc = (IF tier = "dynamic" THEN "refresh"
                              ELSE IF Len(shards) = 0 THEN (IF r.pushed > 0 THEN "ready" ELSE "miss")
                              ELSE "visit")
         /\ tier # "dynamic" => Pass(r, ph).steps = Len(shards) /\ Pass(r, ph).at = 0
         /\ tier = "dynamic" => Pass(r, ph).steps = r.steps /\ Pass(r, ph).at = r.at
         /\ Pass(r, ph).mode = r.mode /\ Pass(r, ph).phase = ph
         /\ Pass(r, ph).cursor = r.cursor /\ Pass(r, ph).staging = r.staging
         /\ Pass(r, ph).pushed = r.pushed /\ Pass(r, ph).woken = r.woken
         /\ Pass(r, ph).seen = r.seen /\ Pass(r, ph).loaded = r.loaded
<1> DEFINE u == [r EXCEPT !.phase = ph]
<1>1. u \in ReceiverState /\ u.pc = r.pc /\ u.mode = r.mode /\ u.phase = ph /\ u.cursor = r.cursor
      /\ u.staging = r.staging /\ u.pushed = r.pushed /\ u.woken = r.woken /\ u.seen = r.seen
      /\ u.loaded = r.loaded
  BY DEF ReceiverState
<1>2. Len(shards) \in Nat
  OBVIOUS
<1>3. CASE tier # "dynamic"
  <2>1. Pass(r, ph) = Visits(u, Len(shards))
    BY <1>3 DEF Pass
  <2> HIDE DEF u
  <2>2. \A n \in Nat : /\ Visits(u, n) \in ReceiverState
         /\ Visits(u, n).pc = (IF n = 0 THEN (IF u.pushed > 0 THEN "ready" ELSE "miss") ELSE "visit")
         /\ Visits(u, n).steps = n /\ Visits(u, n).at = 0
         /\ Visits(u, n).mode = u.mode /\ Visits(u, n).phase = u.phase
         /\ Visits(u, n).cursor = u.cursor /\ Visits(u, n).staging = u.staging
         /\ Visits(u, n).pushed = u.pushed /\ Visits(u, n).woken = u.woken
         /\ Visits(u, n).seen = u.seen /\ Visits(u, n).loaded = u.loaded
    BY <1>1, VisitsIs, ZenonT(60)
  <2> QED
    BY <1>1, <1>2, <1>3, <2>1, <2>2
<1>4. CASE tier = "dynamic"
  BY <1>4 DEF Pass, ReceiverState
<1> QED
  BY <1>3, <1>4

\* What follows the notification of a shard's producer.
LEMMA AfterDrainIs ==
  ASSUME NEW r \in ReceiverState
  PROVE  /\ AfterDrain(r) \in ReceiverState
         /\ AfterDrain(r).pc \in {"ready", "visit", "miss"}
         /\ AfterDrain(r).pc # "ready" => AfterDrain(r) = Visits(r, r.steps)
         /\ r.mode = "one" => AfterDrain(r).pc = "ready"
         /\ AfterDrain(r).mode = r.mode /\ AfterDrain(r).phase = r.phase
         /\ AfterDrain(r).cursor = r.cursor /\ AfterDrain(r).staging = r.staging
         /\ AfterDrain(r).pushed = r.pushed /\ AfterDrain(r).woken = r.woken
         /\ AfterDrain(r).seen = r.seen /\ AfterDrain(r).loaded = r.loaded
<1>1. CASE r.mode = "one" \/ (r.mode = "many" /\ r.pushed = MaxMany)
  BY <1>1 DEF AfterDrain, ReceiverState
<1>2. CASE ~(r.mode = "one" \/ (r.mode = "many" /\ r.pushed = MaxMany))
  <2>1. AfterDrain(r) = Visits(r, r.steps) /\ r.steps \in Nat
    BY <1>2 DEF AfterDrain, ReceiverState
  <2> QED
    BY <1>2, <2>1, VisitsIs
<1> QED
  BY <1>1, <1>2

\* A sender whose waker was taken.
LEMMA WokenByIs ==
  ASSUME prod \in [Senders -> SenderState], NEW wt \in WaiterState(Producers)
  PROVE  /\ WokenBy(wt) \in [Senders -> SenderState]
         /\ \A s \in Senders : /\ WokenBy(wt)[s].pc = prod[s].pc /\ WokenBy(wt)[s].ring = prod[s].ring
                               /\ WokenBy(wt)[s].after = prod[s].after /\ WokenBy(wt)[s].sent = prod[s].sent
                               /\ WokenBy(wt)[s].dirty = prod[s].dirty /\ WokenBy(wt)[s].batch = prod[s].batch
         /\ \A p \in Producers : WokenBy(wt)[p].woken = (prod[p].woken \/ wt.waker = p)
<1> DEFINE h == IF wt.waker = NoTask THEN Handle ELSE wt.waker
<1>1. h \in Senders /\ (wt.waker # NoTask => wt.waker \in Producers /\ h = wt.waker)
  BY Names DEF WaiterState
<1>2. WokenBy(wt) = [prod EXCEPT ![h] = [prod[h] EXCEPT !.woken = wt.waker # NoTask]]
  BY <1>1 DEF WokenBy
<1>3. [prod[h] EXCEPT !.woken = wt.waker # NoTask] \in SenderState
  <2>1. prod[h] \in SenderState /\ (wt.waker # NoTask) \in BOOLEAN
    BY <1>1
  <2> HIDE DEF h
  <2> QED
    BY <2>1 DEF SenderState
<1>4. WokenBy(wt) \in [Senders -> SenderState]
  BY <1>1, <1>2, <1>3
<1>5. ASSUME NEW s \in Senders
      PROVE /\ WokenBy(wt)[s].pc = prod[s].pc /\ WokenBy(wt)[s].ring = prod[s].ring
            /\ WokenBy(wt)[s].after = prod[s].after /\ WokenBy(wt)[s].sent = prod[s].sent
            /\ WokenBy(wt)[s].dirty = prod[s].dirty /\ WokenBy(wt)[s].batch = prod[s].batch
            /\ WokenBy(wt)[s].woken = IF s = h THEN wt.waker # NoTask ELSE prod[s].woken
  BY <1>1, <1>2 DEF SenderState
<1>6. ASSUME NEW p \in Producers PROVE WokenBy(wt)[p].woken = (prod[p].woken \/ wt.waker = p)
  <2>1. p \in Senders /\ p # Handle /\ p # NoTask /\ prod[p].woken \in BOOLEAN
    BY Names DEF SenderState
  <2> QED
    BY <1>1, <1>5, <2>1
<1> QED
  BY <1>4, <1>5, <1>6

\* Only sender p, only ring r and only its waiter change.
Others(p) == prod' \in [Senders -> SenderState] /\ \A s \in Senders : s # p => prod'[s] = prod[s]

RingOnly(r) ==
  /\ ring' \in [Rings -> RingState] /\ \A o \in Rings : o # r => ring'[o] = ring[o]
  /\ space' \in [Rings -> WaiterState(Producers)] /\ \A o \in Rings : o # r => space'[o] = space[o]

\* A sender that holds a ring changes it, and everything that others rely on stays.
LEMMA SenderMoves ==
  ASSUME TypeInv, RoleInv, OwnInv, NEW p \in Producers, Others(p),
         Holds(p), prod'[p].ring = prod[p].ring, RingOnly(prod[p].ring),
         Holds(p)' => ring'[prod[p].ring].arc, Active(p)' => Active(p),
         Active(p)' => /\ ToSet(ring'[prod[p].ring].q) \subseteq {p} /\ ~ring'[prod[p].ring].producer_gone
                       /\ space'[prod[p].ring].waker \in {p, NoTask},
         ring[prod[p].ring].producer_gone =>
            ring'[prod[p].ring].producer_gone /\ ring'[prod[p].ring].q = ring[prod[p].ring].q,
         ~space'[prod[p].ring].needs_clear => space'[prod[p].ring] = Unarmed,
         Waits(p)' => Registered(p)' /\ (prod'[p].pc = "pending" => Notice(p)'),
         rx'.pc = rx.pc, rx'.at = rx.at,
         UNCHANGED <<tier, shards, free, inbox, freelist>>
  PROVE  OwnInv'
<1> USE Names
<1> DEFINE r == prod[p].ring
<1>1. /\ r \in Rings /\ r \notin free /\ ~Depositing(r) /\ p \in Senders /\ p # Handle /\ Handle \in Senders
      /\ \A o \in Producers : Holds(o) /\ prod[o].ring = r => o = p
  BY DEF OwnInv, HoldInv
<1>2. /\ prod'[Handle] = prod[Handle]
      /\ \A o \in Producers : o # p => /\ prod'[o] = prod[o] /\ (Active(o)' <=> Active(o)) /\ (Holds(o)' <=> Holds(o))
      /\ \A o \in Rings : Depositing(o)' <=> Depositing(o)
  BY <1>1 DEF Others, Active, Holds, Depositing
<1>3. Active(p) => Holds(p)
  BY DEF Holds
<1>4. HoldInv'
  <2> SUFFICES ASSUME NEW o \in Producers, Holds(o)'
               PROVE  /\ prod'[o].ring \in Rings /\ ring'[prod'[o].ring].arc /\ prod'[o].ring \notin free'
                      /\ ~Depositing(prod[o].ring)'
                      /\ \A z \in Producers : Holds(z)' /\ prod'[z].ring = prod'[o].ring => z = o
    BY DEF HoldInv
  <2>0. \A z \in Producers : Depositing(prod[z].ring)' <=> prod'[Handle].pc = "deposit" /\ prod'[Handle].ring = prod'[z].ring
    BY DEF Depositing
  <2>1. CASE o = p
    <3>1. ~Depositing(prod[o].ring)'
      BY <1>1, <1>2, <2>0, <2>1 DEF Depositing
    <3> QED
      BY <1>1, <1>2, <2>1, <3>1
  <2>2. CASE o # p
    <3>1. /\ prod[o].ring \in Rings /\ ring[prod[o].ring].arc /\ prod[o].ring \notin free
          /\ ~Depositing(prod[o].ring) /\ prod[o].ring # r
          /\ \A z \in Producers : Holds(z) /\ prod[z].ring = prod[o].ring => z = o
      BY <1>1, <1>2, <2>2 DEF OwnInv, HoldInv
    <3>2. ~Depositing(prod[o].ring)'
      BY <1>2, <2>0, <2>2, <3>1 DEF Depositing
    <3>3. ASSUME NEW z \in Producers, Holds(z)', prod'[z].ring = prod'[o].ring PROVE z = o
      <4>1. z # p
        BY <1>2, <2>2, <3>1, <3>3
      <4> QED
        BY <1>2, <2>2, <3>1, <3>3, <4>1
    <3>4. prod'[o].ring = prod[o].ring /\ ring'[prod[o].ring] = ring[prod[o].ring]
      BY <1>2, <2>2, <3>1 DEF RingOnly
    <3> QED
      BY <3>1, <3>2, <3>3, <3>4
  <2> QED
    BY <2>1, <2>2
<1>5. UseInv'
  <2> SUFFICES ASSUME NEW o \in Producers, Active(o)'
               PROVE  /\ ToSet(ring'[prod'[o].ring].q) \subseteq {o} /\ ~ring'[prod'[o].ring].producer_gone
                      /\ space'[prod'[o].ring].waker \in {o, NoTask}
    BY DEF UseInv
  <2>1. CASE o = p
    BY <2>1
  <2>2. CASE o # p
    <3>1. Active(o) /\ prod[o].ring # r /\ prod[o].ring \in Rings
      BY <1>1, <1>2, <2>2 DEF OwnInv, HoldInv, Holds
    <3> QED
      BY <1>2, <2>2, <3>1 DEF OwnInv, UseInv, RingOnly
  <2> QED
    BY <2>1, <2>2
<1>6. CleanInv'
  <2>1. ASSUME NEW o \in Rings, Depositing(o)' \/ o \in free' PROVE Clean(o)'
    <3>1. (Depositing(o) \/ o \in free) /\ o # r
      BY <1>1, <1>2, <2>1
    <3>2. Clean(o) /\ ring'[o] = ring[o] /\ space'[o] = space[o]
      BY <3>1 DEF OwnInv, CleanInv, RingOnly
    <3> QED
      BY <3>2 DEF Clean
  <2>2. ASSUME NEW o \in Rings, ~space'[o].needs_clear PROVE space'[o] = Unarmed
    BY <2>2 DEF OwnInv, CleanInv, RingOnly
  <2> QED
    BY <1>2, <2>1, <2>2 DEF OwnInv, CleanInv
<1>7. ListInv'
  <2>1. ASSUME NEW o \in ToSet(freelist) PROVE ring'[o].producer_gone /\ ring'[o].q = <<>>
    <3>1. o \in Rings /\ ring[o].producer_gone /\ ring[o].q = <<>>
      BY <2>1, ToSetType DEF OwnInv, ListInv, TypeInv
    <3> QED
      BY <3>1 DEF RingOnly
  <2> QED
    BY <2>1 DEF OwnInv, ListInv
<1>8. WaitInv'
  <2> SUFFICES ASSUME NEW o \in Producers, Waits(o)'
               PROVE  Registered(o)' /\ (prod'[o].pc = "pending" => Notice(o)')
    BY DEF WaitInv
  <2>1. CASE o = p
    BY <2>1
  <2>2. CASE o # p
    <3>1. prod'[o] = prod[o] /\ Waits(o) /\ Active(o)
      BY <1>2, <2>2 DEF Waits, Active
    <3>2. prod[o].ring # r /\ prod[o].ring \in Rings
      BY <1>1, <2>2, <3>1 DEF OwnInv, HoldInv, Holds
    <3>3. Registered(o) /\ (prod[o].pc = "pending" => Notice(o))
      BY <3>1 DEF OwnInv, WaitInv
    <3>4. ring'[prod'[o].ring] = ring[prod[o].ring] /\ space'[prod'[o].ring] = space[prod[o].ring]
      BY <3>1, <3>2 DEF RingOnly
    <3> QED
      BY <3>1, <3>3, <3>4 DEF Registered, Notice, IsFull, RingOf
  <2> QED
    BY <2>1, <2>2
<1> QED
  BY <1>4, <1>5, <1>6, <1>7, <1>8 DEF OwnInv

\* The receiver's side of the state.
rest == <<tier, shards, freelist, inbox, got>>

ActiveIn(x) ==
  \/ x.pc \in {"idle", "try", "arm", "retry", "yield", "pending", "done"}
  \/ x.pc \in {"notify", "wake"} /\ x.after \in {"done", "arm", "yield"}

\* A sender with a new record.
LEMMA SetSender ==
  ASSUME prod \in [Senders -> SenderState], NEW s \in Senders, NEW u \in SenderState,
         prod' = [prod EXCEPT ![s] = u]
  PROVE  Others(s) /\ prod'[s] = u
  BY DEF Others

\* Active speaks of a sender's record.
LEMMA ActiveIs == \A p : (Active(p) <=> ActiveIn(prod[p])) /\ (Active(p)' <=> ActiveIn(prod'[p]))
  BY DEF Active, ActiveIn

\* The steps of a send that touch nothing but the sender's own future.
Moves(p) ==
  \/ BatchEnd(p) \/ Refused(p) \/ Full(p) \/ StillFull(p) \/ PollSend(p) \/ CancelSend(p)
  \/ \E batch \in Batches : StartSend(p, batch)

\* Such a step goes on with the send; it pends only on a full, open ring.
LEMMA MovesIs ==
  ASSUME prod \in [Senders -> SenderState], NEW p \in Producers, Moves(p)
  PROVE  /\ Others(p) /\ ActiveIn(prod[p]) /\ ActiveIn(prod'[p])
         /\ prod'[p].ring = prod[p].ring /\ prod'[p].sent = prod[p].sent /\ prod'[p].dirty = prod[p].dirty
         /\ prod[p].pc \notin {"notify", "wake"} /\ prod'[p].pc \notin {"retry", "wake"}
         /\ prod[p].dirty /\ prod[p].pc = "try" => prod'[p].pc \in {"try", "notify"}
         /\ prod'[p].pc = "pending" => /\ prod[p].pc = "retry" /\ prod'[p].woken = prod[p].woken
                                       /\ IsFull(p) /\ ~RingOf(p).consumer_gone
         /\ UNCHANGED <<live, notifier, ring, space, rx, free>> /\ UNCHANGED rest
<1> DEFINE x == prod[p]
<1>1. x \in SenderState /\ p \in Senders
  BY Names
<1>2. Budget \in Int /\ x.dirty \in BOOLEAN
  BY <1>1, BoundsAssumption DEF SenderState
<1>3. CASE BatchEnd(p) \/ Refused(p)
  <2> DEFINE u == [x EXCEPT !.pc = IF x.dirty THEN "notify" ELSE "done", !.after = "done"]
  <2>1. u \in SenderState /\ u.ring = x.ring /\ u.sent = x.sent /\ u.dirty = x.dirty /\ ActiveIn(u)
        /\ u.pc \in {"notify", "done"} /\ (x.dirty => u.pc = "notify")
    BY <1>1 DEF SenderState, ActiveIn
  <2>2. prod' = [prod EXCEPT ![p] = u] /\ x.pc \in {"try", "retry"}
    BY <1>1, <1>3 DEF BatchEnd, Refused
  <2>3. Others(p) /\ prod'[p] = u
    BY <1>1, <2>1, <2>2, SetSender
  <2>4. UNCHANGED <<live, notifier, ring, space, rx, free>> /\ UNCHANGED rest
    BY <1>3 DEF BatchEnd, Refused, rest, membership
  <2> QED
    BY <2>1, <2>2, <2>3, <2>4 DEF ActiveIn
<1>4. CASE Full(p)
  <2>1. PICK next \in {"arm", "done"} :
          prod' = [prod EXCEPT ![p].pc = IF prod[p].dirty THEN "notify" ELSE next,
                               ![p].after = IF prod[p].dirty THEN next ELSE @]
    BY <1>4 DEF Full
  <2> DEFINE u == [x EXCEPT !.pc = IF x.dirty THEN "notify" ELSE next, !.after = IF x.dirty THEN next ELSE @]
  <2>2. u \in SenderState /\ u.ring = x.ring /\ u.sent = x.sent /\ u.dirty = x.dirty /\ ActiveIn(u)
        /\ u.pc \in {"notify", "done", "arm"} /\ (x.dirty => u.pc = "notify")
    BY <1>1, <1>2 DEF SenderState, ActiveIn
  <2>3. prod' = [prod EXCEPT ![p] = u] /\ x.pc = "try"
    BY <1>1, <1>4, <2>1 DEF Full
  <2>4. Others(p) /\ prod'[p] = u
    BY <1>1, <2>2, <2>3, SetSender
  <2>5. UNCHANGED <<live, notifier, ring, space, rx, free>> /\ UNCHANGED rest
    BY <1>4 DEF Full, rest, membership
  <2> QED
    BY <2>2, <2>3, <2>4, <2>5 DEF ActiveIn
<1>5. CASE StillFull(p)
  <2> DEFINE u == [x EXCEPT !.pc = "pending"]
  <2>1. u \in SenderState /\ u.ring = x.ring /\ u.sent = x.sent /\ u.dirty = x.dirty /\ u.pc = "pending"
        /\ u.woken = x.woken
    BY <1>1 DEF SenderState
  <2>2. prod' = [prod EXCEPT ![p] = u] /\ x.pc = "retry" /\ IsFull(p) /\ ~RingOf(p).consumer_gone
    BY <1>1, <1>5 DEF StillFull
  <2>3. Others(p) /\ prod'[p] = u
    BY <1>1, <2>1, <2>2, SetSender
  <2>4. UNCHANGED <<live, notifier, ring, space, rx, free>> /\ UNCHANGED rest
    BY <1>5 DEF StillFull, rest, membership
  <2> QED
    BY <2>1, <2>2, <2>3, <2>4 DEF ActiveIn
<1>6. CASE PollSend(p)
  <2> DEFINE u == [x EXCEPT !.pc = "try", !.woken = FALSE, !.budget = Budget]
  <2>1. u \in SenderState /\ u.ring = x.ring /\ u.sent = x.sent /\ u.dirty = x.dirty /\ u.pc = "try"
    BY <1>1, <1>2 DEF SenderState
  <2>2. prod' = [prod EXCEPT ![p] = u] /\ x.pc = "pending"
    BY <1>1, <1>6 DEF PollSend
  <2>3. Others(p) /\ prod'[p] = u
    BY <1>1, <2>1, <2>2, SetSender
  <2>4. UNCHANGED <<live, notifier, ring, space, rx, free>> /\ UNCHANGED rest
    BY <1>6 DEF PollSend, rest, membership
  <2> QED
    BY <2>1, <2>2, <2>3, <2>4 DEF ActiveIn
<1>7. CASE CancelSend(p)
  <2> DEFINE u == [x EXCEPT !.pc = "done"]
  <2>1. u \in SenderState /\ u.ring = x.ring /\ u.sent = x.sent /\ u.dirty = x.dirty /\ u.pc = "done"
    BY <1>1 DEF SenderState
  <2>2. prod' = [prod EXCEPT ![p] = u] /\ x.pc = "pending"
    BY <1>1, <1>7 DEF CancelSend
  <2>3. Others(p) /\ prod'[p] = u
    BY <1>1, <2>1, <2>2, SetSender
  <2>4. UNCHANGED <<live, notifier, ring, space, rx, free>> /\ UNCHANGED rest
    BY <1>7 DEF CancelSend, rest, membership
  <2> QED
    BY <2>1, <2>2, <2>3, <2>4 DEF ActiveIn
<1>8. CASE \E batch \in Batches : StartSend(p, batch)
  <2>1. PICK batch \in BOOLEAN : StartSend(p, batch)
    BY <1>8, BoundsAssumption
  <2> DEFINE u == [x EXCEPT !.pc = "try", !.batch = batch, !.budget = Budget]
  <2>2. u \in SenderState /\ u.ring = x.ring /\ u.sent = x.sent /\ u.dirty = x.dirty /\ u.pc = "try"
    BY <1>1, <1>2 DEF SenderState
  <2>3. prod' = [prod EXCEPT ![p] = u] /\ x.pc = "idle"
    BY <1>1, <2>1 DEF StartSend
  <2>4. Others(p) /\ prod'[p] = u
    BY <1>1, <2>2, <2>3, SetSender
  <2>5. UNCHANGED <<live, notifier, ring, space, rx, free>> /\ UNCHANGED rest
    BY <2>1 DEF StartSend, rest, membership
  <2> QED
    BY <2>2, <2>3, <2>4, <2>5 DEF ActiveIn
<1> QED
  BY <1>3, <1>4, <1>5, <1>6, <1>7, <1>8 DEF Moves

\* clear leaves an unarmed waiter, and takes nobody else's registration.
LEMMA ClearedIs ==
  ASSUME NEW T, NEW wt \in WaiterState(T)
  PROVE  /\ Cleared(wt) \in WaiterState(T) /\ Cleared(wt).waker \in {wt.waker, NoTask}
         /\ (~wt.needs_clear => wt = Unarmed) => Cleared(wt) = Unarmed
  BY DEF WaiterState, Cleared, Unarmed

\* A ring or a waiter with a new record.
LEMMA SetRing ==
  ASSUME ring \in [Rings -> RingState], NEW r \in Rings, NEW u \in RingState, ring' = [ring EXCEPT ![r] = u]
  PROVE  ring' \in [Rings -> RingState] /\ ring'[r] = u /\ \A o \in Rings : o # r => ring'[o] = ring[o]
  OBVIOUS

\* The same for a waiter for space.
LEMMA SetSpace ==
  ASSUME space \in [Rings -> WaiterState(Producers)], NEW r \in Rings, NEW u \in WaiterState(Producers),
         space' = [space EXCEPT ![r] = u]
  PROVE  space' \in [Rings -> WaiterState(Producers)] /\ space'[r] = u /\ \A o \in Rings : o # r => space'[o] = space[o]
  OBVIOUS

\* A producer that has just got its ring.
LEMMA NewProducer ==
  ASSUME NEW r \in Rings \cup {0}, NEW pc \in {"idle", "gone", "unborn"}
  PROVE  /\ Producer(pc, r) \in SenderState /\ Producer(pc, r).ring = r /\ Producer(pc, r).dirty = FALSE
         /\ Producer(pc, r).pc = pc /\ Producer(pc, r).sent = 0 /\ Producer(pc, r).woken = FALSE
         /\ Producer(pc, r).after = "done"
  BY DEF Producer, SenderState

\* A push appends to the sender's ring and owes a notification.
LEMMA PushIs ==
  ASSUME TypeInv, NEW p \in Producers, prod[p].ring \in Rings, Push(p)
  PROVE  /\ Others(p) /\ ActiveIn(prod[p]) /\ ActiveIn(prod'[p]) /\ RingOnly(prod[p].ring)
         /\ prod'[p].ring = prod[p].ring /\ prod'[p].sent = prod[p].sent + 1 /\ prod'[p].dirty
         /\ prod[p].pc \in {"try", "retry"} /\ prod'[p].pc \in {"try", "notify"}
         /\ ring'[prod[p].ring].q = Append(ring[prod[p].ring].q, p)
         /\ ring'[prod[p].ring].producer_gone = ring[prod[p].ring].producer_gone
         /\ ring'[prod[p].ring].arc = ring[prod[p].ring].arc
         /\ space'[prod[p].ring] \in {space[prod[p].ring], Cleared(space[prod[p].ring])}
         /\ UNCHANGED <<live, notifier, rx, free>> /\ UNCHANGED rest
<1> DEFINE x == prod[p]
           r == prod[p].ring
           g == [ring[r] EXCEPT !.q = Append(@, p)]
           w == IF x.pc = "retry" /\ x.batch THEN Cleared(space[r]) ELSE space[r]
<1>1. /\ x \in SenderState /\ p \in Senders /\ r \in Rings /\ ring[r] \in RingState
      /\ space[r] \in WaiterState(Producers) /\ ring[r].q \in Seq(Producers)
  BY Names DEF TypeInv, RingState
<1>2. AfterPush(p) \in SenderState /\ AfterPush(p).ring = r /\ AfterPush(p).sent = x.sent + 1
      /\ AfterPush(p).dirty = TRUE /\ AfterPush(p).pc \in {"try", "notify"} /\ ActiveIn(AfterPush(p))
  <2> DEFINE left == x.budget - 1
             pushed == [x EXCEPT !.sent = @ + 1, !.budget = left, !.dirty = TRUE]
             next == IF x.batch /\ (x.pc = "retry" \/ pushed.sent < MaxSend) THEN "yield" ELSE "done"
  <2>1. AfterPush(p) = IF ~x.batch \/ left = 0 THEN [pushed EXCEPT !.pc = "notify", !.after = next]
                       ELSE [pushed EXCEPT !.pc = "try"]
    BY DEF AfterPush
  <2>2. pushed \in SenderState /\ pushed.ring = r /\ pushed.sent = x.sent + 1 /\ pushed.dirty = TRUE
    <3>1. x.sent + 1 \in Nat /\ left \in Int
      BY <1>1 DEF SenderState
    <3>2. pushed = [x EXCEPT !.sent = x.sent + 1, !.budget = left, !.dirty = TRUE]
      BY <1>1 DEF SenderState
    <3> HIDE DEF left, x, pushed
    <3> QED
      BY <1>1, <3>1, <3>2 DEF SenderState, x
  <2>3. next \in {"yield", "done"}
    OBVIOUS
  <2> HIDE DEF pushed, next
  <2>4. [pushed EXCEPT !.pc = "notify", !.after = next] \in SenderState
    BY <2>2, <2>3 DEF SenderState
  <2>5. [pushed EXCEPT !.pc = "try"] \in SenderState
    BY <2>2 DEF SenderState
  <2>6. CASE ~x.batch \/ left = 0
    BY <2>1, <2>2, <2>3, <2>4, <2>6 DEF ActiveIn, SenderState
  <2>7. CASE ~(~x.batch \/ left = 0)
    BY <2>1, <2>2, <2>5, <2>7 DEF ActiveIn, SenderState
  <2> QED
    BY <2>6, <2>7
<1>3. prod' = [prod EXCEPT ![p] = AfterPush(p)] /\ x.pc \in {"try", "retry"}
  BY DEF Push
<1>4. Others(p) /\ prod'[p] = AfterPush(p)
  BY <1>1, <1>2, <1>3, SetSender DEF TypeInv
<1>5. ring' = [ring EXCEPT ![r] = g] /\ space' = [space EXCEPT ![r] = w]
  <2>1. space = [space EXCEPT ![r] = space[r]]
    BY <1>1 DEF TypeInv
  <2> QED
    BY <1>1, <2>1 DEF Push, TypeInv
<1>6. g \in RingState /\ g.q = Append(ring[r].q, p) /\ g.producer_gone = ring[r].producer_gone /\ g.arc = ring[r].arc
  BY <1>1, AppendIs DEF RingState
<1>7. w \in WaiterState(Producers) /\ w \in {space[r], Cleared(space[r])}
  BY <1>1, ClearedIs
<1>8. RingOnly(r) /\ ring'[r] = g /\ space'[r] = w
  <2> HIDE DEF g, w, r
  <2> QED
    BY <1>1, <1>5, <1>6, <1>7, SetRing, SetSpace DEF RingOnly, TypeInv
<1>9. UNCHANGED <<live, notifier, rx, free>> /\ UNCHANGED rest
  BY DEF Push, rest, membership
<1> HIDE DEF g, w
<1> QED
  BY <1>2, <1>3, <1>4, <1>6, <1>7, <1>8, <1>9 DEF ActiveIn

\* arm registers the sender.
LEMMA ArmSpaceIs ==
  ASSUME TypeInv, NEW p \in Producers, prod[p].ring \in Rings, ArmSpace(p)
  PROVE  /\ Others(p) /\ ActiveIn(prod[p]) /\ ActiveIn(prod'[p]) /\ RingOnly(prod[p].ring)
         /\ prod'[p].ring = prod[p].ring /\ prod'[p].sent = prod[p].sent /\ prod'[p].dirty = prod[p].dirty
         /\ prod[p].pc = "arm" /\ prod'[p].pc = "retry" /\ space'[prod[p].ring] = Armed(p)
         /\ UNCHANGED <<live, notifier, ring, rx, free>> /\ UNCHANGED rest
<1> DEFINE x == prod[p]
           r == prod[p].ring
           u == [x EXCEPT !.pc = "retry"]
<1>1. x \in SenderState /\ p \in Senders /\ r \in Rings
  BY Names DEF TypeInv
<1>2. u \in SenderState /\ u.ring = r /\ u.sent = x.sent /\ u.dirty = x.dirty /\ u.pc = "retry"
  BY <1>1 DEF SenderState
<1>3. prod' = [prod EXCEPT ![p] = u] /\ x.pc = "arm" /\ space' = [space EXCEPT ![r] = Armed(p)]
  BY <1>1 DEF ArmSpace, TypeInv
<1>4. Others(p) /\ prod'[p] = u
  BY <1>1, <1>2, <1>3, SetSender DEF TypeInv
<1>5. Armed(p) \in WaiterState(Producers)
  BY DEF Armed, WaiterState
<1>6. UNCHANGED <<live, notifier, ring, rx, free>> /\ UNCHANGED rest
  BY DEF ArmSpace, rest, membership
<1>7. RingOnly(r) /\ space'[r] = Armed(p)
  <2> HIDE DEF r
  <2> QED
    BY <1>1, <1>3, <1>5, <1>6, SetSpace DEF RingOnly, TypeInv
<1> QED
  BY <1>2, <1>3, <1>4, <1>6, <1>7 DEF ActiveIn

\* The cooperative yield, the end of a send and the drop of a producer disarm.
LEMMA ClearsIs ==
  ASSUME TypeInv, NEW p \in Producers, prod[p].ring \in Rings, Yield(p) \/ Done(p) \/ ProducerDrop(p)
  PROVE  /\ Others(p) /\ ActiveIn(prod[p]) /\ RingOnly(prod[p].ring)
         /\ prod'[p].ring = prod[p].ring /\ prod'[p].sent = prod[p].sent /\ (prod'[p].dirty => prod[p].dirty)
         /\ \/ /\ ring' = ring /\ prod'[p].pc = "pending" /\ prod'[p].woken = TRUE /\ prod[p].pc = "yield"
            \/ /\ ring' = ring /\ prod'[p].pc = "idle" /\ prod[p].pc = "done"
            \/ /\ prod'[p].pc = "unlink" /\ prod[p].pc = "idle"
               /\ ring'[prod[p].ring].producer_gone /\ ring'[prod[p].ring].arc = ring[prod[p].ring].arc
               /\ ring'[prod[p].ring].q = ring[prod[p].ring].q
         /\ space'[prod[p].ring] = Cleared(space[prod[p].ring])
         /\ UNCHANGED <<live, notifier, rx, free>> /\ UNCHANGED rest
<1> DEFINE x == prod[p]
           r == prod[p].ring
           w == Cleared(space[r])
           g == [ring[r] EXCEPT !.producer_gone = TRUE]
<1>1. x \in SenderState /\ p \in Senders /\ r \in Rings /\ space[r] \in WaiterState(Producers)
      /\ x.sent \in Nat /\ ring[r] \in RingState
  BY Names DEF TypeInv, SenderState
<1>2. w \in WaiterState(Producers)
  BY <1>1, ClearedIs
<1>3. space' = [space EXCEPT ![r] = w]
  BY <1>1 DEF Yield, Done, ProducerDrop, TypeInv
<1>4. /\ space' \in [Rings -> WaiterState(Producers)] /\ space'[r] = w
      /\ \A o \in Rings : o # r => space'[o] = space[o]
  <2> HIDE DEF w, r
  <2> QED
    BY <1>1, <1>2, <1>3, SetSpace DEF TypeInv
<1>5. UNCHANGED <<live, notifier, rx, free>> /\ UNCHANGED rest
  BY DEF Yield, Done, ProducerDrop, rest, membership
<1>6. CASE Yield(p)
  <2> DEFINE u == [x EXCEPT !.pc = "pending", !.woken = TRUE]
  <2>1. u \in SenderState /\ u.ring = r /\ u.sent = x.sent /\ u.dirty = x.dirty /\ u.pc = "pending" /\ u.woken = TRUE
    BY <1>1 DEF SenderState
  <2>2. prod' = [prod EXCEPT ![p] = u] /\ x.pc = "yield" /\ ring' = ring
    BY <1>1, <1>6 DEF Yield, TypeInv
  <2>3. Others(p) /\ prod'[p] = u
    BY <1>1, <2>1, <2>2, SetSender DEF TypeInv
  <2> QED
    BY <1>1, <1>4, <1>5, <2>1, <2>2, <2>3 DEF ActiveIn, RingOnly, TypeInv
<1>7. CASE Done(p)
  <2> DEFINE u == [Producer("idle", r) EXCEPT !.sent = x.sent]
  <2>1. u \in SenderState /\ u.ring = r /\ u.sent = x.sent /\ u.dirty = FALSE /\ u.pc = "idle"
    <3>1. Producer("idle", r) \in SenderState /\ Producer("idle", r).ring = r
          /\ Producer("idle", r).dirty = FALSE /\ Producer("idle", r).pc = "idle"
      BY <1>1, NewProducer, ZenonT(60)
    <3> QED
      BY <1>1, <3>1 DEF SenderState
  <2>2. prod' = [prod EXCEPT ![p] = u] /\ x.pc = "done" /\ ring' = ring
    BY <1>1, <1>7 DEF Done, TypeInv
  <2>3. Others(p) /\ prod'[p] = u
    BY <1>1, <2>1, <2>2, SetSender DEF TypeInv
  <2> QED
    BY <1>1, <1>4, <1>5, <2>1, <2>2, <2>3 DEF ActiveIn, RingOnly, TypeInv
<1>8. CASE ProducerDrop(p)
  <2> DEFINE u == [x EXCEPT !.pc = "unlink"]
  <2>1. u \in SenderState /\ u.ring = r /\ u.sent = x.sent /\ u.dirty = x.dirty /\ u.pc = "unlink"
    BY <1>1 DEF SenderState
  <2>2. prod' = [prod EXCEPT ![p] = u] /\ x.pc = "idle" /\ ring' = [ring EXCEPT ![r] = g]
    BY <1>1, <1>8 DEF ProducerDrop, TypeInv
  <2>3. Others(p) /\ prod'[p] = u
    BY <1>1, <2>1, <2>2, SetSender DEF TypeInv
  <2>4. g \in RingState /\ g.producer_gone = TRUE /\ g.arc = ring[r].arc /\ g.q = ring[r].q
    BY <1>1 DEF RingState
  <2>5. ring' \in [Rings -> RingState] /\ ring'[r] = g /\ \A o \in Rings : o # r => ring'[o] = ring[o]
    <3> HIDE DEF g, r
    <3> QED
      BY <1>1, <2>2, <2>4, SetRing DEF TypeInv
  <2> HIDE DEF g
  <2> QED
    BY <1>4, <1>5, <2>1, <2>2, <2>3, <2>4, <2>5 DEF ActiveIn, RingOnly
<1> QED
  BY <1>6, <1>7, <1>8

\* The sender's half of the ring is dropped.
LEMMA ReleaseArcIs ==
  ASSUME TypeInv, NEW p \in Producers, prod[p].ring \in Rings, ReleaseArc(p)
  PROVE  /\ Others(p) /\ RingOnly(prod[p].ring) /\ prod[p].pc = "unlink"
         /\ prod'[p].pc = "notify" /\ prod'[p].after = "release"
         /\ prod'[p].ring = prod[p].ring /\ prod'[p].sent = prod[p].sent /\ prod'[p].dirty = prod[p].dirty
         /\ ring'[prod[p].ring].q = ring[prod[p].ring].q
         /\ ring'[prod[p].ring].producer_gone = ring[prod[p].ring].producer_gone
         /\ UNCHANGED <<live, notifier, space, rx, free>> /\ UNCHANGED rest
<1> DEFINE x == prod[p]
           r == prod[p].ring
           u == [x EXCEPT !.pc = "notify", !.after = "release"]
           g == [ring[r] EXCEPT !.arc = FALSE]
<1>1. x \in SenderState /\ p \in Senders /\ r \in Rings /\ ring[r] \in RingState
  BY Names DEF TypeInv
<1>2. u \in SenderState /\ u.ring = r /\ u.sent = x.sent /\ u.dirty = x.dirty /\ u.pc = "notify" /\ u.after = "release"
  BY <1>1 DEF SenderState
<1>3. prod' = [prod EXCEPT ![p] = u] /\ x.pc = "unlink" /\ ring' = [ring EXCEPT ![r] = g]
  BY <1>1 DEF ReleaseArc, TypeInv
<1>4. Others(p) /\ prod'[p] = u
  BY <1>1, <1>2, <1>3, SetSender DEF TypeInv
<1>5. g \in RingState /\ g.q = ring[r].q /\ g.producer_gone = ring[r].producer_gone
  BY <1>1 DEF RingState
<1>6. UNCHANGED <<live, notifier, space, rx, free>> /\ UNCHANGED rest
  BY DEF ReleaseArc, rest, membership
<1>7. RingOnly(r) /\ ring'[r] = g
  <2> HIDE DEF g, r
  <2> QED
    BY <1>1, <1>3, <1>5, <1>6, SetRing DEF RingOnly, TypeInv
<1> HIDE DEF g
<1> QED
  BY <1>2, <1>3, <1>4, <1>5, <1>6, <1>7

\* A pool slot is claimed.
LEMMA ClaimIs ==
  ASSUME TypeInv, NEW p \in Producers, Claim(p)
  PROVE  /\ Others(p) /\ tier = "pool" /\ prod[Handle].pc = "idle" /\ prod[p].pc = "unborn"
         /\ prod'[p].ring \in free /\ free' = free \ {prod'[p].ring}
         /\ prod'[p].pc = "idle" /\ prod'[p].sent = 0 /\ prod'[p].dirty = FALSE
         /\ live' = live + 1
         /\ UNCHANGED <<notifier, ring, space, rx>> /\ UNCHANGED rest
<1>1. PICK r \in free : free' = free \ {r} /\ prod' = [prod EXCEPT ![p] = Producer("idle", r)]
  BY DEF Claim
<1>2. p \in Senders /\ r \in Rings
  BY Names DEF TypeInv
<1>3. /\ Producer("idle", r) \in SenderState /\ Producer("idle", r).ring = r /\ Producer("idle", r).dirty = FALSE
      /\ Producer("idle", r).pc = "idle" /\ Producer("idle", r).sent = 0
  BY <1>2, NewProducer, ZenonT(60)
<1>4. Others(p) /\ prod'[p] = Producer("idle", r)
  BY <1>1, <1>2, <1>3, SetSender DEF TypeInv
<1>5. UNCHANGED <<notifier, ring, space, rx>> /\ UNCHANGED rest /\ live' = live + 1
  BY DEF Claim, rest
<1> QED
  BY <1>1, <1>3, <1>4, <1>5 DEF Claim, NextUnborn

\* The steps of a sender on the shared count and the receiver's waiter.
Leaves(s) == NotifyReceiver(s) \/ WakeReceiver(s) \/ Release(s)

\* What each of them does: the flag is swapped, the waker taken, the sender counted off.
LEMMA LeavesIs ==
  ASSUME TypeInv, NEW s \in Senders, Leaves(s)
  PROVE  /\ Others(s)
         /\ prod'[s].ring = prod[s].ring /\ prod'[s].sent = prod[s].sent
         /\ UNCHANGED <<ring, space, free>> /\ UNCHANGED rest
         /\ \/ /\ prod[s].pc = "notify" /\ prod'[s].dirty = FALSE /\ prod'[s].after = prod[s].after
               /\ prod'[s].pc = IF notifier.waiting THEN "wake" ELSE prod[s].after
               /\ notifier' = Disarmed(notifier) /\ UNCHANGED <<live, rx>>
            \/ /\ prod[s].pc = "wake" /\ prod'[s].pc = prod[s].after /\ prod'[s].after = prod[s].after
               /\ prod'[s].dirty = prod[s].dirty
               /\ notifier' = Taken(notifier) /\ rx' = [rx EXCEPT !.woken = @ \/ notifier.waker = RecvTask]
               /\ live' = live
            \/ /\ prod[s].pc = "release" /\ prod'[s].pc = (IF live = 1 THEN "notify" ELSE "gone")
               /\ prod'[s].after = "gone" /\ prod'[s].dirty = prod[s].dirty
               /\ live' = live - 1 /\ UNCHANGED <<notifier, rx>>
<1> DEFINE x == prod[s]
<1>1. x \in SenderState /\ x.after \in {"done", "arm", "yield", "release", "gone"}
  BY DEF TypeInv, SenderState
<1>2. CASE NotifyReceiver(s)
  <2> DEFINE u == [x EXCEPT !.pc = IF notifier.waiting THEN "wake" ELSE x.after, !.dirty = FALSE]
  <2>1. /\ u \in SenderState /\ u.ring = x.ring /\ u.sent = x.sent /\ u.dirty = FALSE /\ u.after = x.after
        /\ u.pc = IF notifier.waiting THEN "wake" ELSE x.after
    BY <1>1 DEF SenderState
  <2>2. prod' = [prod EXCEPT ![s] = u]
    BY <1>2 DEF NotifyReceiver, TypeInv
  <2>3. Others(s) /\ prod'[s] = u
    BY <2>1, <2>2, SetSender DEF TypeInv
  <2> HIDE DEF u
  <2> QED
    BY <1>2, <2>1, <2>3 DEF NotifyReceiver, rest, membership
<1>3. CASE WakeReceiver(s)
  <2> DEFINE u == [x EXCEPT !.pc = x.after]
  <2>1. /\ u \in SenderState /\ u.ring = x.ring /\ u.sent = x.sent /\ u.dirty = x.dirty /\ u.after = x.after
        /\ u.pc = x.after
    BY <1>1 DEF SenderState
  <2>2. prod' = [prod EXCEPT ![s] = u]
    BY <1>3 DEF WakeReceiver, TypeInv
  <2>3. Others(s) /\ prod'[s] = u
    BY <2>1, <2>2, SetSender DEF TypeInv
  <2> HIDE DEF u
  <2> QED
    BY <1>3, <2>1, <2>3 DEF WakeReceiver, rest, membership
<1>4. CASE Release(s)
  <2> DEFINE u == [x EXCEPT !.pc = IF live = 1 THEN "notify" ELSE "gone", !.after = "gone"]
  <2>1. /\ u \in SenderState /\ u.ring = x.ring /\ u.sent = x.sent /\ u.dirty = x.dirty /\ u.after = "gone"
        /\ u.pc = IF live = 1 THEN "notify" ELSE "gone"
    BY <1>1 DEF SenderState
  <2>2. prod' = [prod EXCEPT ![s] = u]
    BY <1>4 DEF Release, TypeInv
  <2>3. Others(s) /\ prod'[s] = u
    BY <2>1, <2>2, SetSender DEF TypeInv
  <2> HIDE DEF u
  <2> QED
    BY <1>4, <2>1, <2>3 DEF Release, rest, membership
<1> QED
  BY <1>2, <1>3, <1>4 DEF Leaves

\* The registrar starts to register, or is dropped.
LEMMA HandleIs ==
  ASSUME TypeInv, Register \/ HandleDrop
  PROVE  /\ Others(Handle) /\ prod[Handle].pc = "idle"
         /\ \/ prod'[Handle].pc = "take" /\ tier = "dynamic"
            \/ prod'[Handle].pc = "release"
         /\ prod'[Handle].sent = prod[Handle].sent /\ prod'[Handle].dirty = prod[Handle].dirty
         /\ UNCHANGED <<live, notifier, ring, space, rx, free>> /\ UNCHANGED rest
<1> DEFINE x == prod[Handle]
<1>1. x \in SenderState /\ Handle \in Senders
  BY Names DEF TypeInv
<1>2. CASE Register
  <2> DEFINE u == [x EXCEPT !.pc = "take"]
  <2>1. u \in SenderState /\ u.pc = "take" /\ u.sent = x.sent /\ u.dirty = x.dirty
    BY <1>1 DEF SenderState
  <2>2. prod' = [prod EXCEPT ![Handle] = u]
    BY <1>2 DEF Register, TypeInv
  <2>3. Others(Handle) /\ prod'[Handle] = u
    BY <1>1, <2>1, <2>2, SetSender DEF TypeInv
  <2> HIDE DEF u
  <2> QED
    BY <1>2, <2>1, <2>3 DEF Register, rest, membership
<1>3. CASE HandleDrop
  <2> DEFINE u == [x EXCEPT !.pc = "release"]
  <2>1. u \in SenderState /\ u.pc = "release" /\ u.sent = x.sent /\ u.dirty = x.dirty
    BY <1>1 DEF SenderState
  <2>2. prod' = [prod EXCEPT ![Handle] = u]
    BY <1>3 DEF HandleDrop, TypeInv
  <2>3. Others(Handle) /\ prod'[Handle] = u
    BY <1>1, <2>1, <2>2, SetSender DEF TypeInv
  <2> HIDE DEF u
  <2> QED
    BY <1>3, <2>1, <2>3 DEF HandleDrop, rest, membership
<1> QED
  BY <1>2, <1>3

\* A parked ring whose sender lingers is let go.
LEMMA SkipLingeringIs ==
  ASSUME TypeInv, SkipLingering
  PROVE  \E r \in Rings :
           /\ freelist # <<>> /\ r = Last(freelist) /\ freelist' = Front(freelist) /\ ring[r].arc
           /\ prod[Handle].pc = "take" /\ RingOnly(r)
           /\ ring'[r].q = ring[r].q /\ ring'[r].producer_gone = ring[r].producer_gone
           /\ ring'[r].arc = ring[r].arc /\ space'[r] = Disarmed(space[r])
           /\ UNCHANGED <<tier, live, notifier, prod, shards, rx, free, inbox, got>>
<1> DEFINE r == Last(freelist)
           g == [ring[r] EXCEPT !.consumer_gone = TRUE]
           w == Disarmed(space[r])
<1>1. freelist # <<>> /\ freelist \in Seq(Rings)
  BY DEF SkipLingering, TypeInv
<1>2. r \in Rings
  BY <1>1, FrontIs
<1>3. ring[r] \in RingState /\ space[r] \in WaiterState(Producers)
  BY <1>2 DEF TypeInv
<1>4. ring' = [ring EXCEPT ![r] = g] /\ space' = [space EXCEPT ![r] = w]
  BY <1>2 DEF SkipLingering, TypeInv
<1>5. g \in RingState /\ g.q = ring[r].q /\ g.producer_gone = ring[r].producer_gone /\ g.arc = ring[r].arc
  BY <1>3 DEF RingState
<1>6. w \in WaiterState(Producers)
  BY <1>3 DEF Disarmed, WaiterState
<1>7. RingOnly(r) /\ ring'[r] = g /\ space'[r] = w
  <2> HIDE DEF g, w, r
  <2> QED
    BY <1>2, <1>4, <1>5, <1>6, SetRing, SetSpace DEF RingOnly, TypeInv
<1>8. /\ freelist' = Front(freelist) /\ prod[Handle].pc = "take" /\ ring[r].arc
      /\ UNCHANGED <<tier, live, notifier, prod, shards, rx, free, inbox, got>>
  BY DEF SkipLingering
<1> HIDE DEF g
<1> QED
  BY <1>1, <1>2, <1>5, <1>7, <1>8

\* A ring nobody uses is reset, counted and queued.
LEMMA DepositIs ==
  ASSUME TypeInv, NEW p \in Producers, Deposit(p)
  PROVE  \E r \in Rings :
           /\ prod[Handle].pc = "take" /\ Others(Handle)
           /\ \/ freelist # <<>> /\ r = Last(freelist) /\ ~ring[r].arc /\ freelist' = Front(freelist)
              \/ ~InMemory(r) /\ freelist' = freelist
           /\ RingOnly(r) /\ ring'[r] = FreshRing /\ space'[r] = Unarmed
           /\ inbox'.queue = Append(inbox.queue, r) /\ inbox'.generation = inbox.generation
           /\ inbox' \in [queue : Seq(Rings), generation : Nat]
           /\ prod'[Handle].pc = "deposit" /\ prod'[Handle].ring = r
           /\ prod'[Handle].sent = prod[Handle].sent /\ prod'[Handle].dirty = prod[Handle].dirty
           /\ live' = live + 1
           /\ UNCHANGED <<tier, notifier, shards, rx, free, got>>
<1>1. PICK r \in Rings :
       /\ IF freelist # <<>>
          THEN r = Last(freelist) /\ ~ring[r].arc /\ freelist' = Front(freelist)
          ELSE ~InMemory(r) /\ freelist' = freelist
       /\ ring' = [ring EXCEPT ![r] = FreshRing]
       /\ space' = [space EXCEPT ![r] = Unarmed]
       /\ inbox' = [inbox EXCEPT !.queue = Append(@, r)]
       /\ prod' = [prod EXCEPT ![Handle].pc = "deposit", ![Handle].ring = r]
  BY DEF Deposit
<1> DEFINE x == prod[Handle]
           u == [x EXCEPT !.pc = "deposit", !.ring = r]
<1>2. x \in SenderState /\ Handle \in Senders
  BY Names DEF TypeInv
<1>3. u \in SenderState /\ u.pc = "deposit" /\ u.ring = r /\ u.sent = x.sent /\ u.dirty = x.dirty
  BY <1>2 DEF SenderState
<1>4. prod' = [prod EXCEPT ![Handle] = u]
  BY <1>1, <1>2 DEF TypeInv
<1>5. Others(Handle) /\ prod'[Handle] = u
  BY <1>2, <1>3, <1>4, SetSender DEF TypeInv
<1>6. FreshRing \in RingState /\ Unarmed \in WaiterState(Producers)
  BY DEF FreshRing, Unarmed, RingState, WaiterState
<1>7. RingOnly(r) /\ ring'[r] = FreshRing /\ space'[r] = Unarmed
  BY <1>1, <1>6, SetRing, SetSpace DEF RingOnly, TypeInv
<1>8. Append(inbox.queue, r) \in Seq(Rings)
  BY AppendIs DEF TypeInv
<1>9. /\ inbox'.queue = Append(inbox.queue, r) /\ inbox'.generation = inbox.generation
      /\ inbox' \in [queue : Seq(Rings), generation : Nat]
  BY <1>1, <1>8 DEF TypeInv
<1>10. prod[Handle].pc = "take" /\ live' = live + 1 /\ UNCHANGED <<tier, notifier, shards, rx, free, got>>
  BY DEF Deposit
<1> HIDE DEF u
<1> QED
  BY <1>1, <1>3, <1>5, <1>7, <1>9, <1>10

\* The generation is bumped and the producer handed out.
LEMMA DepositedIs ==
  ASSUME TypeInv, NEW p \in Producers, Deposited(p)
  PROVE  /\ prod[Handle].pc = "deposit" /\ prod[p].pc = "unborn"
         /\ prod' \in [Senders -> SenderState]
         /\ \A s \in Senders : s # p /\ s # Handle => prod'[s] = prod[s]
         /\ prod'[Handle].pc = "idle" /\ prod'[Handle].ring = 0
         /\ prod'[Handle].dirty = prod[Handle].dirty /\ prod'[Handle].sent = prod[Handle].sent
         /\ prod'[p].pc = "idle" /\ prod'[p].ring = prod[Handle].ring /\ prod'[p].sent = 0
         /\ prod'[p].dirty = FALSE
         /\ inbox'.queue = inbox.queue /\ inbox'.generation = inbox.generation + 1
         /\ inbox' \in [queue : Seq(Rings), generation : Nat]
         /\ UNCHANGED <<tier, live, notifier, ring, space, shards, rx, free, freelist, got>>
<1> DEFINE x == prod[Handle]
           u == [x EXCEPT !.pc = "idle", !.ring = 0]
           v == Producer("idle", x.ring)
<1>1. x \in SenderState /\ Handle \in Senders /\ p \in Senders /\ p # Handle /\ x.ring \in Rings \cup {0}
  BY Names DEF TypeInv, SenderState
<1>2. u \in SenderState /\ u.pc = "idle" /\ u.ring = 0 /\ u.dirty = x.dirty /\ u.sent = x.sent
  BY <1>1 DEF SenderState
<1>3. v \in SenderState /\ v.pc = "idle" /\ v.ring = x.ring /\ v.sent = 0 /\ v.dirty = FALSE
  BY <1>1, NewProducer
<1>4. prod' = [prod EXCEPT ![Handle] = u, ![p] = v]
  BY <1>1 DEF Deposited, TypeInv
<1> HIDE DEF u, v
<1>5. /\ prod' \in [Senders -> SenderState] /\ prod'[Handle] = u /\ prod'[p] = v
      /\ \A s \in Senders : s # p /\ s # Handle => prod'[s] = prod[s]
  BY <1>1, <1>2, <1>3, <1>4 DEF TypeInv
<1>6. /\ inbox'.queue = inbox.queue /\ inbox'.generation = inbox.generation + 1
      /\ inbox' \in [queue : Seq(Rings), generation : Nat]
  <2>1. inbox.generation + 1 \in Nat /\ inbox' = [inbox EXCEPT !.generation = inbox.generation + 1]
    BY DEF Deposited, TypeInv
  <2> QED
    BY <2>1 DEF TypeInv
<1> QED
  BY <1>2, <1>3, <1>5, <1>6 DEF Deposited, NextUnborn

-----------------------------------------------------------------------------
(* The steps of the receiver.                                              *)

\* What the receiver leaves alone when it works on its own state.
mine == <<tier, live, ring, space, prod, free, freelist>>

\* A call that takes n staged values.
Begins(mode, phase, n) ==
  /\ rx.pc = "idle" /\ rx' \in ReceiverState
  /\ (mode = "drain" /\ phase = 0) \/ (mode \in {"one", "many"} /\ phase \in {0, 1})
  /\ rx'.mode = mode /\ rx'.phase = phase /\ rx'.pushed = n /\ rx'.woken = FALSE
  /\ rx'.staging = SubSeq(rx.staging, n + 1, Len(rx.staging))
  /\ rx'.cursor = rx.cursor /\ rx'.seen = rx.seen /\ rx'.loaded = rx.loaded
  /\ got' = [p \in Producers |-> got[p] + Count(p, SubSeq(rx.staging, 1, n))]
  /\ mode # "many" => n = 0
  /\ rx'.pc \in {"ready", "refresh", "visit", "miss"}
  /\ rx'.pc = "refresh" => tier = "dynamic"
  /\ rx'.pc = "visit" => tier # "dynamic" /\ shards # <<>> /\ rx'.steps = Len(shards)
  /\ rx'.pc = "miss" => n = 0 /\ tier # "dynamic" /\ shards = <<>>
  /\ rx'.pc # "ready" /\ mode # "drain" => rx'.staging = <<>>
  /\ rx'.pc = "ready" /\ mode = "one" => rx'.staging # <<>>
  /\ UNCHANGED <<notifier, shards, inbox>> /\ UNCHANGED mine

\* A call hands out what is staged, or begins a pass.
LEMMA StartRecvIs ==
  ASSUME TypeInv, NEW mode, NEW phase, <<mode, phase>> \in Calls, StartRecv(mode, phase)
  PROVE  \E n \in 0 .. Len(rx.staging) : Begins(mode, phase, n)
<1> DEFINE s == rx.staging
           n == IF mode = "many" THEN Smaller(Len(s), MaxMany) ELSE 0
           call == [rx EXCEPT !.mode = mode, !.phase = phase, !.pushed = n, !.woken = FALSE,
                              !.staging = SubSeq(@, n + 1, Len(@))]
           last == [call EXCEPT !.pc = "ready"]
           full == (mode = "one" /\ s # <<>>) \/ n = MaxMany
<1>1. (mode = "drain" /\ phase = 0) \/ (mode \in {"one", "many"} /\ phase \in {0, 1})
  BY BoundsAssumption
<1>2. rx \in ReceiverState /\ s \in Seq(Producers) /\ Len(s) \in Nat /\ MaxMany \in Nat \ {0}
      /\ shards \in Seq(Rings)
  BY BoundsAssumption DEF TypeInv, ReceiverState
<1>3. n \in 0 .. Len(s) /\ (mode # "many" => n = 0) /\ (mode = "many" /\ n # MaxMany => n = Len(s))
  BY <1>2 DEF Smaller
<1>4. rx.pc = "idle" /\ rx' = IF full THEN last ELSE Pass(call, phase)
  BY DEF StartRecv
<1>5. got' = [p \in Producers |-> got[p] + Count(p, SubSeq(s, 1, n))]
  BY DEF StartRecv, Deliver
<1>6. UNCHANGED <<notifier, shards, inbox>> /\ UNCHANGED mine
  BY DEF StartRecv, mine, membership
<1> HIDE DEF n
<1>7. SubSeq(s, n + 1, Len(s)) \in Seq(Producers) /\ Len(SubSeq(s, n + 1, Len(s))) = Len(s) - n
  BY <1>2, <1>3, Slices
<1>8. /\ call \in ReceiverState /\ call.mode = mode /\ call.phase = phase /\ call.pushed = n /\ call.woken = FALSE
      /\ call.staging = SubSeq(s, n + 1, Len(s)) /\ call.cursor = rx.cursor /\ call.seen = rx.seen
      /\ call.loaded = rx.loaded
  <2> DEFINE t == SubSeq(s, n + 1, Len(s))
  <2>1. call = [rx EXCEPT !.mode = mode, !.phase = phase, !.pushed = n, !.woken = FALSE, !.staging = t]
    BY <1>2 DEF ReceiverState
  <2>2. t \in Seq(Producers) /\ mode \in {"one", "many", "drain"} /\ phase \in 0 .. 4 /\ n \in Nat
    BY <1>1, <1>2, <1>3, <1>7
  <2> HIDE DEF t, s, call
  <2> QED
    BY <1>2, <2>1, <2>2 DEF ReceiverState, t
<1> HIDE DEF call
<1>9. CASE full
  <2>1. rx' = last
    BY <1>4, <1>9
  <2>2. /\ last \in ReceiverState /\ last.mode = mode /\ last.phase = phase /\ last.pushed = n /\ last.woken = FALSE
        /\ last.staging = SubSeq(s, n + 1, Len(s)) /\ last.cursor = rx.cursor /\ last.seen = rx.seen
        /\ last.loaded = rx.loaded /\ last.pc = "ready"
    BY <1>8 DEF ReceiverState
  <2>3. mode = "one" => SubSeq(s, n + 1, Len(s)) # <<>>
    <3>1. mode = "one" => n = 0 /\ Len(s) # 0
      BY <1>2, <1>3, <1>9
    <3>2. mode = "one" => Len(SubSeq(s, n + 1, Len(s))) # 0
      BY <1>2, <1>7, <3>1
    <3> QED
      BY <3>2
  <2> HIDE DEF last
  <2> QED
    BY <1>1, <1>3, <1>4, <1>5, <1>6, <2>1, <2>2, <2>3 DEF Begins
<1>10. CASE ~full
  <2> DEFINE u == Pass(call, phase)
  <2>1. rx' = u
    BY <1>4, <1>10
  <2>2. phase \in 0 .. 4
    BY <1>1
  <2>3. /\ u \in ReceiverState
        /\ u.pc = (IF tier = "dynamic" THEN "refresh"
                   ELSE IF Len(shards) = 0 THEN (IF call.pushed > 0 THEN "ready" ELSE "miss")
                   ELSE "visit")
        /\ tier # "dynamic" => u.steps = Len(shards)
        /\ u.mode = call.mode /\ u.phase = phase /\ u.cursor = call.cursor /\ u.staging = call.staging
        /\ u.pushed = call.pushed /\ u.woken = call.woken /\ u.seen = call.seen /\ u.loaded = call.loaded
    BY <1>2, <1>8, <2>2, PassIs
  <2> HIDE DEF u
  <2>4. Len(shards) \in Nat /\ (Len(shards) = 0 <=> shards = <<>>)
    BY <1>2
  <2>5. mode # "drain" => SubSeq(s, n + 1, Len(s)) = <<>>
    <3>1. mode # "drain" => n = Len(s)
      BY <1>1, <1>2, <1>3, <1>10
    <3> QED
      BY <1>2, <1>3, <1>7, <3>1
  <2>6. /\ u.pc \in {"ready", "refresh", "visit", "miss"} /\ (u.pc = "refresh" => tier = "dynamic")
        /\ u.pc = "visit" => tier # "dynamic" /\ shards # <<>> /\ u.steps = Len(shards)
        /\ u.pc = "miss" => n = 0 /\ tier # "dynamic" /\ shards = <<>>
        /\ u.pc = "ready" => n # 0
    BY <1>3, <1>8, <2>3, <2>4
  <2> QED
    BY <1>1, <1>3, <1>4, <1>5, <1>6, <1>8, <2>1, <2>3, <2>5, <2>6 DEF Begins
<1> QED
  BY <1>9, <1>10

\* The generation is compared with the one seen.
LEMMA RefreshIs ==
  ASSUME TypeInv, Refresh
  PROVE  /\ rx.pc = "refresh" /\ rx' \in ReceiverState
         /\ rx'.mode = rx.mode /\ rx'.phase = rx.phase /\ rx'.pushed = rx.pushed /\ rx'.woken = rx.woken
         /\ rx'.staging = rx.staging /\ rx'.cursor = rx.cursor /\ rx'.seen = rx.seen
         /\ \/ rx'.pc = "append" /\ rx'.loaded = inbox.generation
            \/ /\ inbox.generation = rx.seen /\ rx'.steps = Len(shards)
               /\ rx'.pc = IF shards = <<>> THEN (IF rx.pushed > 0 THEN "ready" ELSE "miss") ELSE "visit"
         /\ UNCHANGED <<notifier, shards, inbox, got>> /\ UNCHANGED mine
<1>1. rx \in ReceiverState /\ Len(shards) \in Nat /\ (Len(shards) = 0 <=> shards = <<>>) /\ inbox.generation \in Nat
  BY DEF TypeInv
<1>2. rx.pc = "refresh" /\ UNCHANGED <<notifier, shards, inbox, got>> /\ UNCHANGED mine
  BY DEF Refresh, mine, membership
<1>3. CASE inbox.generation = rx.seen
  <2>1. rx' = Visits(rx, Len(shards))
    BY <1>3 DEF Refresh
  <2> QED
    BY <1>1, <1>2, <1>3, <2>1, VisitsIs, ZenonT(60)
<1>4. CASE inbox.generation # rx.seen
  <2>1. rx' = [rx EXCEPT !.pc = "append", !.loaded = inbox.generation]
    BY <1>4 DEF Refresh
  <2> QED
    BY <1>1, <1>2, <2>1 DEF ReceiverState
<1> QED
  BY <1>3, <1>4

\* The inbox is appended to the shards.
LEMMA AppendInboxIs ==
  ASSUME TypeInv, AppendInbox
  PROVE  /\ rx.pc = "append" /\ rx' \in ReceiverState
         /\ shards' = shards \o inbox.queue /\ shards' \in Seq(Rings)
         /\ inbox'.queue = <<>> /\ inbox'.generation = inbox.generation
         /\ inbox' \in [queue : Seq(Rings), generation : Nat]
         /\ rx'.mode = rx.mode /\ rx'.phase = rx.phase /\ rx'.pushed = rx.pushed /\ rx'.woken = rx.woken
         /\ rx'.staging = rx.staging /\ rx'.cursor = rx.cursor /\ rx'.seen = rx.loaded
         /\ rx'.steps = Len(shards')
         /\ rx'.pc = IF shards' = <<>> THEN (IF rx.pushed > 0 THEN "ready" ELSE "miss") ELSE "visit"
         /\ UNCHANGED <<notifier, got>> /\ UNCHANGED mine
<1> DEFINE u == [rx EXCEPT !.seen = rx.loaded, !.loaded = 0]
           z == shards \o inbox.queue
<1>1. rx \in ReceiverState /\ shards \in Seq(Rings) /\ inbox.queue \in Seq(Rings)
      /\ inbox \in [queue : Seq(Rings), generation : Nat]
  BY DEF TypeInv
<1>2. z \in Seq(Rings)
  BY <1>1, JoinIs
<1>3. shards' = z /\ rx' = Visits(u, Len(z)) /\ rx.pc = "append"
  BY DEF AppendInbox
<1>4. /\ u \in ReceiverState /\ u.mode = rx.mode /\ u.phase = rx.phase /\ u.pushed = rx.pushed /\ u.woken = rx.woken
      /\ u.staging = rx.staging /\ u.cursor = rx.cursor /\ u.seen = rx.loaded
  BY <1>1 DEF ReceiverState
<1> HIDE DEF u, z
<1>5. Len(z) \in Nat /\ (Len(z) = 0 <=> z = <<>>)
  BY <1>2
<1>6. /\ Visits(u, Len(z)) \in ReceiverState
      /\ Visits(u, Len(z)).pc = (IF Len(z) = 0 THEN (IF u.pushed > 0 THEN "ready" ELSE "miss") ELSE "visit")
      /\ Visits(u, Len(z)).steps = Len(z) /\ Visits(u, Len(z)).mode = u.mode /\ Visits(u, Len(z)).phase = u.phase
      /\ Visits(u, Len(z)).cursor = u.cursor /\ Visits(u, Len(z)).staging = u.staging
      /\ Visits(u, Len(z)).pushed = u.pushed /\ Visits(u, Len(z)).woken = u.woken
      /\ Visits(u, Len(z)).seen = u.seen
  BY <1>4, <1>5, VisitsIs
<1>7. /\ inbox'.queue = <<>> /\ inbox'.generation = inbox.generation
      /\ inbox' \in [queue : Seq(Rings), generation : Nat]
  <2>1. inbox' = [inbox EXCEPT !.queue = <<>>] /\ <<>> \in Seq(Rings)
    BY DEF AppendInbox
  <2> QED
    BY <1>1, <2>1
<1>8. UNCHANGED <<notifier, got>> /\ UNCHANGED mine
  BY DEF AppendInbox, mine
<1> QED
  BY <1>2, <1>3, <1>4, <1>5, <1>6, <1>7, <1>8 DEF z

\* The fields of the receiver that a notification of space leaves alone.
SameCall ==
  /\ rx' \in ReceiverState /\ rx'.mode = rx.mode /\ rx'.phase = rx.phase /\ rx'.cursor = rx.cursor
  /\ rx'.staging = rx.staging /\ rx'.pushed = rx.pushed /\ rx'.woken = rx.woken /\ rx'.seen = rx.seen
  /\ rx'.loaded = rx.loaded

\* Values are moved out of one shard.
LEMMA DrainIs ==
  ASSUME BaseInv, Drain
  PROVE  \E r \in Rings : \E n \in 1 .. Len(ring[r].q) :
           /\ rx.pc = "visit" /\ r = shards[At] /\ r \in ToSet(shards) /\ RingOnly(r)
           /\ ring'[r].q = SubSeq(ring[r].q, n + 1, Len(ring[r].q))
           /\ ring'[r].producer_gone = ring[r].producer_gone /\ ring'[r].arc = ring[r].arc
           /\ ring'[r].consumer_gone = ring[r].consumer_gone
           /\ rx' \in ReceiverState /\ rx'.pc = "space" /\ rx'.at = r /\ rx'.mode = rx.mode
           /\ rx'.phase = rx.phase /\ rx'.woken = rx.woken /\ rx'.seen = rx.seen /\ rx'.loaded = rx.loaded
           /\ rx.mode = "one" => /\ rx'.staging = rx.staging \o SubSeq(ring[r].q, 1, n)
                                 /\ rx'.pushed = rx.pushed /\ got' = got
           /\ rx.mode # "one" =>
                /\ rx'.staging = rx.staging /\ rx'.pushed = rx.pushed + n
                /\ got' = [p \in Producers |-> got[p] + Count(p, SubSeq(ring[r].q, 1, n))]
           /\ UNCHANGED <<tier, live, notifier, space, prod, shards, free, inbox, freelist>>
<1> DEFINE r == shards[At]
           q == ring[r].q
           n == Smaller(Len(q), Limit)
           values == SubSeq(q, 1, n)
           left == SubSeq(q, n + 1, Len(q))
           g == [ring[r] EXCEPT !.q = left]
           one == [rx EXCEPT !.pc = "space", !.at = r, !.cursor = Bumped, !.staging = @ \o values]
           many == [rx EXCEPT !.pc = "space", !.at = r, !.cursor = Bumped, !.pushed = @ + n, !.steps = @ - 1]
<1>1. rx.pc = "visit" /\ n > 0 /\ ring' = [ring EXCEPT ![r].q = SubSeq(@, n + 1, Len(@))]
      /\ IF rx.mode = "one" THEN got' = got /\ rx' = one
         ELSE got' = [p \in Producers |-> got[p] + Count(p, values)] /\ rx' = many
  BY DEF Drain, Deliver
<1>2. UNCHANGED <<tier, live, notifier, space, prod, shards, free, inbox, freelist>>
  BY DEF Drain, membership
<1>3. r \in Rings /\ r \in ToSet(shards) /\ rx.steps > 0
  BY <1>1, AtIs DEF BaseInv, PlaceInv
<1>4. ring \in [Rings -> RingState] /\ ring[r] \in RingState /\ q \in Seq(Producers) /\ Len(q) \in Nat
      /\ rx \in ReceiverState /\ space \in [Rings -> WaiterState(Producers)]
  BY <1>3 DEF BaseInv, TypeInv, RingState
<1>5. Limit \in Int /\ Bumped \in Nat
  BY BoundsAssumption, BumpedIs, SMTT(30) DEF Limit, BaseInv, TypeInv, ReceiverState
<1>6. n \in 1 .. Len(q)
  BY <1>1, <1>4, <1>5 DEF Smaller
<1>7. ring' = [ring EXCEPT ![r] = g]
  BY <1>1, <1>3, <1>4
<1> HIDE DEF n, r
<1>8. left \in Seq(Producers) /\ values \in Seq(Producers)
  BY <1>4, <1>6, Slices
<1> HIDE DEF left, values
<1>9. g \in RingState /\ g.q = left /\ g.producer_gone = ring[r].producer_gone /\ g.arc = ring[r].arc
      /\ g.consumer_gone = ring[r].consumer_gone
  BY <1>4, <1>8 DEF RingState
<1>10. RingOnly(r) /\ ring'[r] = g
  <2> HIDE DEF g
  <2> QED
    BY <1>2, <1>3, <1>4, <1>7, <1>9, SetRing DEF RingOnly
<1>11. CASE rx.mode = "one"
  <2>1. rx' = one /\ got' = got
    BY <1>1, <1>11
  <2>2. rx.staging \o values \in Seq(Producers)
    BY <1>4, <1>8, JoinIs DEF ReceiverState
  <2>3. one = [rx EXCEPT !.pc = "space", !.at = r, !.cursor = Bumped, !.staging = rx.staging \o values]
    BY <1>4 DEF ReceiverState
  <2>4. /\ one \in ReceiverState /\ one.pc = "space" /\ one.at = r /\ one.mode = rx.mode
        /\ one.phase = rx.phase /\ one.woken = rx.woken /\ one.seen = rx.seen /\ one.loaded = rx.loaded
        /\ one.staging = rx.staging \o values /\ one.pushed = rx.pushed
    <3> HIDE DEF one
    <3> QED
      BY <1>3, <1>4, <1>5, <2>2, <2>3 DEF ReceiverState
  <2> HIDE DEF one, g
  <2> QED
    BY <1>1, <1>2, <1>3, <1>6, <1>9, <1>10, <1>11, <2>1, <2>4 DEF r, left, values, q
<1>12. CASE rx.mode # "one"
  <2>1. rx' = many /\ got' = [p \in Producers |-> got[p] + Count(p, values)]
    BY <1>1, <1>12
  <2>2. rx.pushed + n \in Nat /\ rx.steps - 1 \in Nat
    BY <1>3, <1>4, <1>6 DEF ReceiverState
  <2>3. many = [rx EXCEPT !.pc = "space", !.at = r, !.cursor = Bumped, !.pushed = rx.pushed + n, !.steps = rx.steps - 1]
    BY <1>4 DEF ReceiverState
  <2>4. /\ many \in ReceiverState /\ many.pc = "space" /\ many.at = r /\ many.mode = rx.mode
        /\ many.phase = rx.phase /\ many.woken = rx.woken /\ many.seen = rx.seen /\ many.loaded = rx.loaded
        /\ many.staging = rx.staging /\ many.pushed = rx.pushed + n
    <3> HIDE DEF many
    <3> QED
      BY <1>3, <1>4, <1>5, <2>2, <2>3 DEF ReceiverState
  <2> HIDE DEF many, g
  <2> QED
    BY <1>1, <1>2, <1>3, <1>6, <1>9, <1>10, <1>12, <2>1, <2>4 DEF r, left, values, q
<1> QED
  BY <1>11, <1>12

\* The shard's producer is notified.
LEMMA NotifySpaceIs ==
  ASSUME BaseInv, NotifySpace
  PROVE  /\ rx.pc = "space" /\ rx.at \in Rings /\ shards # <<>> /\ SameCall /\ RingOnly(rx.at) /\ ring' = ring
         /\ space'[rx.at] = Disarmed(space[rx.at])
         /\ space[rx.at].waiting => rx'.pc = "spacewake" /\ rx'.at = rx.at
         /\ ~space[rx.at].waiting => rx' = AfterDrain(rx)
         /\ UNCHANGED <<tier, live, notifier, prod, shards, free, inbox, freelist, got>>
<1> DEFINE r == rx.at
           w == Disarmed(space[r])
<1>1. rx.pc = "space" /\ r \in Rings /\ shards # <<>> /\ rx \in ReceiverState
      /\ ring \in [Rings -> RingState] /\ space \in [Rings -> WaiterState(Producers)]
  BY DEF NotifySpace, BaseInv, PlaceInv, TypeInv
<1>2. ring' = ring /\ UNCHANGED <<tier, live, notifier, prod, shards, free, inbox, freelist, got>>
  BY DEF NotifySpace, membership
<1>3. space[r] \in WaiterState(Producers)
  BY <1>1
<1>4. w \in WaiterState(Producers)
  BY <1>3 DEF Disarmed, WaiterState
<1>5. space' = [space EXCEPT ![r] = w]
  BY <1>1 DEF NotifySpace
<1>6. RingOnly(r) /\ space'[r] = w
  <2> HIDE DEF w, r
  <2> QED
    BY <1>1, <1>2, <1>4, <1>5, SetSpace DEF RingOnly
<1>7. CASE space[r].waiting
  <2>1. rx' = [rx EXCEPT !.pc = "spacewake"]
    BY <1>7 DEF NotifySpace
  <2>2. SameCall /\ rx'.pc = "spacewake" /\ rx'.at = rx.at
    BY <1>1, <2>1 DEF SameCall, ReceiverState
  <2> QED
    BY <1>1, <1>2, <1>6, <1>7, <2>2
<1>8. CASE ~space[r].waiting
  <2>1. rx' = AfterDrain(rx)
    BY <1>8 DEF NotifySpace
  <2>2. SameCall
    BY <1>1, <2>1, AfterDrainIs DEF SameCall
  <2> QED
    BY <1>1, <1>2, <1>6, <1>8, <2>1, <2>2
<1> QED
  BY <1>7, <1>8

\* Wakers are taken: what the senders see of it.
Wakes(wt) ==
  /\ prod' \in [Senders -> SenderState]
  /\ \A s \in Senders : /\ prod'[s].pc = prod[s].pc /\ prod'[s].ring = prod[s].ring
                        /\ prod'[s].after = prod[s].after /\ prod'[s].sent = prod[s].sent
                        /\ prod'[s].dirty = prod[s].dirty
  /\ \A p \in Producers : prod'[p].woken = (prod[p].woken \/ wt.waker = p)

\* The shard's producer is woken.
LEMMA WakeSpaceIs ==
  ASSUME BaseInv, WakeSpace
  PROVE  /\ rx.pc = "spacewake" /\ rx.at \in Rings /\ shards # <<>> /\ SameCall /\ RingOnly(rx.at) /\ ring' = ring
         /\ space'[rx.at] = Taken(space[rx.at]) /\ Wakes(space[rx.at]) /\ rx' = AfterDrain(rx)
         /\ UNCHANGED <<tier, live, notifier, shards, free, inbox, freelist, got>>
<1> DEFINE r == rx.at
           w == Taken(space[r])
<1>1. rx.pc = "spacewake" /\ r \in Rings /\ shards # <<>> /\ rx \in ReceiverState
      /\ ring \in [Rings -> RingState] /\ space \in [Rings -> WaiterState(Producers)]
      /\ prod \in [Senders -> SenderState]
  BY DEF WakeSpace, BaseInv, PlaceInv, TypeInv
<1>2. ring' = ring /\ UNCHANGED <<tier, live, notifier, shards, free, inbox, freelist, got>>
  BY DEF WakeSpace, membership
<1>3. space[r] \in WaiterState(Producers)
  BY <1>1
<1>4. w \in WaiterState(Producers)
  BY <1>3 DEF Taken, WaiterState
<1>5. space' = [space EXCEPT ![r] = w] /\ prod' = WokenBy(space[r]) /\ rx' = AfterDrain(rx)
  BY <1>1 DEF WakeSpace
<1>6. RingOnly(r) /\ space'[r] = w
  <2> HIDE DEF w, r
  <2> QED
    BY <1>1, <1>2, <1>4, <1>5, SetSpace DEF RingOnly
<1>7. SameCall
  BY <1>1, <1>5, AfterDrainIs DEF SameCall
<1>8. Wakes(space[r])
  BY <1>1, <1>3, <1>5, WokenByIs DEF Wakes
<1> QED
  BY <1>1, <1>2, <1>5, <1>6, <1>7, <1>8

\* A shard that held nothing is looked at again.
LEMMA DrainEmptyIs ==
  ASSUME TypeInv, DrainEmpty
  PROVE  /\ rx.pc = "visit" /\ rx'.pc = "finished" /\ SameCall /\ rx'.steps = rx.steps /\ ring[shards[At]].q = <<>>
         /\ UNCHANGED <<notifier, shards, inbox, got>> /\ UNCHANGED mine
  BY DEF DrainEmpty, TypeInv, SameCall, ReceiverState, mine, membership

\* What a visit that found nothing leaves in the receiver.
SameVisit(n) ==
  /\ rx' \in ReceiverState /\ rx'.mode = rx.mode /\ rx'.phase = rx.phase
  /\ rx'.staging = rx.staging /\ rx'.pushed = rx.pushed /\ rx'.woken = rx.woken /\ rx'.seen = rx.seen
  /\ rx'.loaded = rx.loaded /\ rx'.steps = n /\ rx'.at = 0
  /\ rx'.pc = IF n = 0 THEN (IF rx.pushed > 0 THEN "ready" ELSE "miss") ELSE "visit"

\* The cursor passes a shard.
LEMMA AdvanceIs ==
  ASSUME TypeInv, rx.steps > 0, rx' = Visits([rx EXCEPT !.cursor = Bumped], rx.steps - 1)
  PROVE  SameVisit(rx.steps - 1) /\ rx'.cursor = Bumped
<1> DEFINE u == [rx EXCEPT !.cursor = Bumped]
           n == rx.steps - 1
<1>1. rx \in ReceiverState /\ Bumped \in Nat /\ n \in Nat
  BY BumpedIs DEF TypeInv, ReceiverState
<1>2. /\ u \in ReceiverState /\ u.mode = rx.mode /\ u.phase = rx.phase /\ u.pushed = rx.pushed /\ u.woken = rx.woken
      /\ u.staging = rx.staging /\ u.cursor = Bumped /\ u.seen = rx.seen /\ u.loaded = rx.loaded
  BY <1>1 DEF ReceiverState
<1>3. rx' = Visits(u, n)
  OBVIOUS
<1> HIDE DEF u, n
<1>4. /\ Visits(u, n) \in ReceiverState
      /\ Visits(u, n).pc = (IF n = 0 THEN (IF u.pushed > 0 THEN "ready" ELSE "miss") ELSE "visit")
      /\ Visits(u, n).steps = n /\ Visits(u, n).at = 0
      /\ Visits(u, n).mode = u.mode /\ Visits(u, n).phase = u.phase
      /\ Visits(u, n).cursor = u.cursor /\ Visits(u, n).staging = u.staging
      /\ Visits(u, n).pushed = u.pushed /\ Visits(u, n).woken = u.woken
      /\ Visits(u, n).seen = u.seen /\ Visits(u, n).loaded = u.loaded
  BY <1>1, <1>2, VisitsIs
<1>5. SameVisit(n) /\ rx'.cursor = Bumped
  BY <1>2, <1>3, <1>4 DEF SameVisit
<1> QED
  BY <1>5 DEF n

\* An unfinished shard is passed.
LEMMA NotFinishedIs ==
  ASSUME BaseInv, NotFinished
  PROVE  /\ rx.pc = "finished" /\ rx.steps > 0 /\ shards # <<>> /\ ~Finished(shards[At])
         /\ SameVisit(rx.steps - 1) /\ rx'.cursor = Bumped
         /\ UNCHANGED <<notifier, shards, inbox, got>> /\ UNCHANGED mine
<1>1. rx.pc = "finished" /\ rx.steps > 0 /\ shards # <<>>
  BY DEF NotFinished, BaseInv, PlaceInv
<1>2. rx' = Visits([rx EXCEPT !.cursor = Bumped], rx.steps - 1)
  BY DEF NotFinished
<1>3. SameVisit(rx.steps - 1) /\ rx'.cursor = Bumped
  BY <1>1, <1>2, AdvanceIs DEF BaseInv
<1> QED
  BY <1>1, <1>3 DEF NotFinished, mine, membership

\* A finished pool slot is passed, and reset if its sender's Arc is gone.
LEMMA RecycleIs ==
  ASSUME BaseInv, Recycle
  PROVE  \E r \in Rings :
           /\ r = shards[At] /\ r \in ToSet(shards) /\ tier = "pool" /\ Finished(r)
           /\ rx.pc = "finished" /\ rx.steps > 0 /\ shards # <<>>
           /\ SameVisit(rx.steps - 1) /\ rx'.cursor = Bumped
           /\ \/ ring[r].arc /\ UNCHANGED <<ring, space, free>>
              \/ /\ ~ring[r].arc /\ RingOnly(r) /\ ring'[r] = FreshRing /\ space'[r] = Cleared(space[r])
                 /\ free' = free \cup {r}
           /\ UNCHANGED <<tier, live, notifier, prod, shards, inbox, freelist, got>>
<1> DEFINE r == shards[At]
           w == Cleared(space[r])
<1>1. rx.pc = "finished" /\ rx.steps > 0 /\ shards # <<>> /\ tier = "pool" /\ Finished(r)
  BY DEF Recycle, BaseInv, PlaceInv
<1>2. rx' = Visits([rx EXCEPT !.cursor = Bumped], rx.steps - 1)
      /\ UNCHANGED <<tier, live, notifier, prod, shards, inbox, freelist, got>>
  BY DEF Recycle
<1>3. SameVisit(rx.steps - 1) /\ rx'.cursor = Bumped
  BY <1>1, <1>2, AdvanceIs DEF BaseInv
<1>4. r \in Rings /\ r \in ToSet(shards)
  BY <1>1, AtIs DEF BaseInv
<1>5. CASE ring[r].arc
  BY <1>1, <1>2, <1>3, <1>4, <1>5 DEF Recycle
<1>6. CASE ~ring[r].arc
  <2>1. ring' = [ring EXCEPT ![r] = FreshRing] /\ space' = [space EXCEPT ![r] = w] /\ free' = free \cup {r}
    BY <1>4, <1>6 DEF Recycle, BaseInv, TypeInv
  <2>2. ring \in [Rings -> RingState] /\ space \in [Rings -> WaiterState(Producers)] /\ space[r] \in WaiterState(Producers)
    BY <1>4 DEF BaseInv, TypeInv
  <2>3. FreshRing \in RingState /\ w \in WaiterState(Producers)
    BY <2>2, ClearedIs DEF FreshRing, RingState
  <2>4. RingOnly(r) /\ ring'[r] = FreshRing /\ space'[r] = w
    <3> HIDE DEF r, w
    <3> QED
      BY <1>4, <2>1, <2>2, <2>3, SetRing, SetSpace DEF RingOnly
  <2> QED
    BY <1>1, <1>2, <1>3, <1>4, <1>6, <2>1, <2>4
<1> QED
  BY <1>5, <1>6

\* A finished shard is removed; its ring is parked or closed.
LEMMA PruneIs ==
  ASSUME BaseInv, Prune
  PROVE  \E r \in Rings :
           /\ r = shards[At] /\ r \in ToSet(shards) /\ tier # "pool" /\ Finished(r)
           /\ rx.pc = "finished" /\ rx.steps > 0 /\ shards # <<>>
           /\ shards' = SwapRemove(shards, At) /\ shards' \in Seq(Rings) /\ Len(shards') = Len(shards) - 1
           /\ \/ freelist' = Append(freelist, r) /\ freelist' \in Seq(Rings) /\ UNCHANGED <<ring, space>>
              \/ /\ RingOnly(r) /\ ring'[r].q = ring[r].q /\ ring'[r].producer_gone = ring[r].producer_gone
                 /\ ring'[r].arc = ring[r].arc /\ space'[r] = Disarmed(space[r]) /\ freelist' = freelist
           /\ SameVisit(IF shards' = <<>> THEN 0 ELSE rx.steps - 1) /\ rx'.cursor = rx.cursor
           /\ UNCHANGED <<tier, live, notifier, prod, free, inbox, got>>
<1> DEFINE r == shards[At]
           w == Disarmed(space[r])
           g == [ring[r] EXCEPT !.consumer_gone = TRUE]
           n == IF shards' = <<>> THEN 0 ELSE rx.steps - 1
<1>1. rx.pc = "finished" /\ rx.steps > 0 /\ shards # <<>> /\ tier # "pool" /\ Finished(r)
  BY DEF Prune, BaseInv, PlaceInv
<1>2. /\ ring \in [Rings -> RingState] /\ space \in [Rings -> WaiterState(Producers)] /\ shards \in Seq(Rings)
      /\ rx \in ReceiverState /\ freelist \in Seq(Rings)
  BY DEF BaseInv, TypeInv
<1>3. r \in Rings /\ r \in ToSet(shards) /\ At \in 1 .. Len(shards)
  BY <1>1, AtIs DEF BaseInv
<1>4. shards' = SwapRemove(shards, At) /\ shards' \in Seq(Rings) /\ Len(shards') = Len(shards) - 1
  BY <1>2, <1>3, SwapRemoveIs DEF Prune
<1>5. SameVisit(n) /\ rx'.cursor = rx.cursor
  <2>1. n \in Nat /\ rx' = Visits(rx, n)
    BY <1>1, <1>2 DEF Prune, ReceiverState
  <2> HIDE DEF n
  <2> QED
    BY <1>2, <2>1, VisitsIs, ZenonT(60) DEF SameVisit
<1>6. UNCHANGED <<tier, live, notifier, prod, free, inbox, got>>
  BY DEF Prune
<1>7. CASE tier = "dynamic" /\ Len(freelist) < MaxPooled
  <2>1. freelist' = Append(freelist, r) /\ UNCHANGED <<ring, space>>
    BY <1>7 DEF Prune
  <2>2. freelist' \in Seq(Rings)
    BY <1>2, <1>3, <2>1, AppendIs
  <2> HIDE DEF n
  <2> QED
    BY <1>1, <1>3, <1>4, <1>5, <1>6, <2>1, <2>2 DEF n
<1>8. CASE ~(tier = "dynamic" /\ Len(freelist) < MaxPooled)
  <2>1. ring' = [ring EXCEPT ![r] = g] /\ space' = [space EXCEPT ![r] = w] /\ freelist' = freelist
    BY <1>2, <1>3, <1>8 DEF Prune
  <2>2. ring[r] \in RingState /\ space[r] \in WaiterState(Producers)
    BY <1>2, <1>3
  <2>3. g \in RingState /\ g.q = ring[r].q /\ g.producer_gone = ring[r].producer_gone /\ g.arc = ring[r].arc
    BY <2>2 DEF RingState
  <2>4. w \in WaiterState(Producers)
    BY <2>2 DEF Disarmed, WaiterState
  <2>5. RingOnly(r) /\ ring'[r] = g /\ space'[r] = w
    <3> HIDE DEF g, w, r
    <3> QED
      BY <1>2, <1>3, <2>1, <2>3, <2>4, SetRing, SetSpace DEF RingOnly
  <2> HIDE DEF g, n
  <2> QED
    BY <1>1, <1>3, <1>4, <1>5, <1>6, <2>1, <2>3, <2>5 DEF n
<1> QED
  BY <1>7, <1>8

\* How the next pass of a call begins.
Passing(ph) ==
  /\ rx' \in ReceiverState /\ rx'.mode = rx.mode /\ rx'.phase = ph /\ rx'.staging = rx.staging
  /\ rx'.pushed = rx.pushed /\ rx'.cursor = rx.cursor /\ rx'.seen = rx.seen /\ rx'.loaded = rx.loaded
  /\ rx'.pc = IF tier = "dynamic" THEN "refresh" ELSE IF shards = <<>> THEN "miss" ELSE "visit"
  /\ tier # "dynamic" => rx'.steps = Len(shards)

\* Pass(...) sets exactly these fields of the receiver.
LEMMA PassingIs ==
  ASSUME TypeInv, rx.pushed = 0, NEW ph \in 0 .. 4, NEW b \in BOOLEAN,
         rx' = Pass([rx EXCEPT !.woken = b], ph) \/ (rx' = Pass(rx, ph) /\ b = rx.woken)
  PROVE  Passing(ph) /\ rx'.woken = b
<1> DEFINE u == [rx EXCEPT !.woken = b]
<1>1. rx \in ReceiverState /\ shards \in Seq(Rings) /\ Len(shards) \in Nat /\ (Len(shards) = 0 <=> shards = <<>>)
  BY DEF TypeInv
<1>2. /\ u \in ReceiverState /\ u.mode = rx.mode /\ u.staging = rx.staging /\ u.pushed = rx.pushed
      /\ u.cursor = rx.cursor /\ u.seen = rx.seen /\ u.loaded = rx.loaded /\ u.woken = b
  BY <1>1 DEF ReceiverState
<1>3. ASSUME NEW v \in ReceiverState, rx' = Pass(v, ph),
             /\ v.mode = rx.mode /\ v.staging = rx.staging /\ v.pushed = rx.pushed
             /\ v.cursor = rx.cursor /\ v.seen = rx.seen /\ v.loaded = rx.loaded /\ v.woken = b
      PROVE  Passing(ph) /\ rx'.woken = b
  <2>1. /\ Pass(v, ph) \in ReceiverState
        /\ Pass(v, ph).pc = (IF tier = "dynamic" THEN "refresh"
                              ELSE IF Len(shards) = 0 THEN (IF v.pushed > 0 THEN "ready" ELSE "miss")
                              ELSE "visit")
        /\ tier # "dynamic" => Pass(v, ph).steps = Len(shards)
        /\ Pass(v, ph).mode = v.mode /\ Pass(v, ph).phase = ph
        /\ Pass(v, ph).cursor = v.cursor /\ Pass(v, ph).staging = v.staging
        /\ Pass(v, ph).pushed = v.pushed /\ Pass(v, ph).woken = v.woken
        /\ Pass(v, ph).seen = v.seen /\ Pass(v, ph).loaded = v.loaded
    BY <1>1, <1>3, PassIs
  <2>2. v.pushed = 0 /\ ~(v.pushed > 0)
    BY <1>3
  <2> QED
    BY <1>1, <1>3, <2>1, <2>2 DEF Passing
<1> HIDE DEF u
<1>4. CASE rx' = Pass(u, ph)
  BY <1>2, <1>3, <1>4
<1>5. CASE rx' = Pass(rx, ph) /\ b = rx.woken
  BY <1>1, <1>3, <1>5
<1> QED
  BY <1>4, <1>5 DEF u

\* A pass that found nothing.
LEMMA MissIs ==
  ASSUME BaseInv, Miss
  PROVE  /\ rx.pc = "miss" /\ rx' \in ReceiverState /\ rx'.woken = rx.woken /\ rx.pushed = 0
         /\ rx'.mode = rx.mode /\ rx'.staging = rx.staging /\ rx'.pushed = rx.pushed
         /\ rx'.cursor = rx.cursor /\ rx'.seen = rx.seen /\ rx'.loaded = rx.loaded
         /\ \/ rx'.pc = "idle" /\ rx.phase = 0 /\ rx'.phase = 0
            \/ rx.phase = 1 /\ live = 0 /\ Passing(2)
            \/ rx.phase = 3 /\ live = 0 /\ Passing(4)
            \/ rx'.pc = "arm" /\ rx.phase = 1 /\ rx'.phase = 1 /\ live # 0
            \/ rx'.pc = "pending" /\ rx.phase = 3 /\ rx'.phase = 3 /\ live # 0
            \/ rx'.pc = "ended" /\ rx.phase \in {2, 4} /\ rx'.phase = rx.phase
         /\ notifier' = (IF rx.phase = 4 THEN Cleared(notifier) ELSE notifier)
         /\ UNCHANGED <<shards, inbox, got>> /\ UNCHANGED mine
<1>1. rx.pc = "miss" /\ rx \in ReceiverState /\ rx.pushed = 0 /\ rx.phase \in 0 .. 4 /\ rx.woken \in BOOLEAN
  BY DEF Miss, BaseInv, TypeInv, PlaceInv, ReceiverState
<1>2. notifier' = (IF rx.phase = 4 THEN Cleared(notifier) ELSE notifier)
      /\ UNCHANGED <<shards, inbox, got>> /\ UNCHANGED mine
  BY DEF Miss, mine, membership
<1>3. CASE rx.phase = 0
  <2>1. rx' = [rx EXCEPT !.pc = "idle"]
    BY <1>3 DEF Miss
  <2> QED
    BY <1>1, <1>2, <1>3, <2>1 DEF ReceiverState
<1>4. CASE rx.phase \in {1, 3} /\ live = 0
  <2>1. rx' = Pass(rx, rx.phase + 1) /\ rx.phase + 1 \in 0 .. 4
    BY <1>4 DEF Miss
  <2>2. Passing(rx.phase + 1) /\ rx'.woken = rx.woken
    BY <1>1, <2>1, PassingIs DEF BaseInv
  <2>3. Passing(IF rx.phase = 1 THEN 2 ELSE 4)
    <3>1. rx.phase = 1 => rx.phase + 1 = 2
      OBVIOUS
    <3>2. rx.phase = 3 => rx.phase + 1 = 4
      OBVIOUS
    <3> QED
      BY <1>4, <2>2, <3>1, <3>2
  <2>4. /\ rx'.mode = rx.mode /\ rx'.staging = rx.staging /\ rx'.pushed = rx.pushed /\ rx' \in ReceiverState
        /\ rx'.cursor = rx.cursor /\ rx'.seen = rx.seen /\ rx'.loaded = rx.loaded
    BY <2>2 DEF Passing
  <2> QED
    BY <1>1, <1>2, <1>4, <2>2, <2>3, <2>4
<1>5. CASE rx.phase = 1 /\ live # 0
  <2>1. rx' = [rx EXCEPT !.pc = "arm"]
    BY <1>5 DEF Miss
  <2> QED
    BY <1>1, <1>2, <1>5, <2>1 DEF ReceiverState
<1>6. CASE rx.phase = 3 /\ live # 0
  <2>1. rx' = [rx EXCEPT !.pc = "pending"]
    BY <1>6 DEF Miss
  <2> QED
    BY <1>1, <1>2, <1>6, <2>1 DEF ReceiverState
<1>7. CASE rx.phase \in {2, 4}
  <2>1. rx' = [rx EXCEPT !.pc = "ended"]
    BY <1>7 DEF Miss
  <2> QED
    BY <1>1, <1>2, <1>7, <2>1 DEF ReceiverState
<1> QED
  BY <1>1, <1>3, <1>4, <1>5, <1>6, <1>7

\* The receiver arms, or is polled again.
LEMMA RepollIs ==
  ASSUME BaseInv, ArmReceiver \/ PollRecv
  PROVE  /\ rx.pushed = 0
         /\ \/ rx.pc = "arm" /\ Passing(3) /\ rx'.woken = rx.woken /\ notifier' = Armed(RecvTask)
            \/ rx.pc = "pending" /\ Passing(1) /\ rx'.woken = FALSE /\ notifier' = notifier
         /\ UNCHANGED <<shards, inbox, got>> /\ UNCHANGED mine
<1>1. rx \in ReceiverState /\ rx.woken \in BOOLEAN /\ rx.pushed = 0
  BY DEF ArmReceiver, PollRecv, BaseInv, TypeInv, PlaceInv, ReceiverState
<1>2. CASE ArmReceiver
  <2>1. rx' = Pass(rx, 3) /\ 3 \in 0 .. 4 /\ TypeInv
    BY <1>2 DEF ArmReceiver, BaseInv
  <2>2. Passing(3) /\ rx'.woken = rx.woken
    BY <1>1, <2>1, PassingIs
  <2> QED
    BY <1>1, <1>2, <2>2 DEF ArmReceiver, mine, membership
<1>3. CASE PollRecv
  <2>1. rx' = Pass([rx EXCEPT !.woken = FALSE], 1) /\ 1 \in 0 .. 4 /\ FALSE \in BOOLEAN /\ TypeInv
    BY <1>3 DEF PollRecv, BaseInv
  <2>2. Passing(1) /\ rx'.woken = FALSE
    BY <1>1, <2>1, PassingIs
  <2> QED
    BY <1>1, <1>3, <2>2 DEF PollRecv, mine, membership
<1> QED
  BY <1>2, <1>3

\* A future is dropped, or the receiver.
LEMMA StopIs ==
  ASSUME BaseInv, CancelRecv \/ ReceiverDrop
  PROVE  /\ rx' \in ReceiverState /\ rx'.mode = "one" /\ rx'.phase = 0 /\ rx'.pushed = 0 /\ rx.pushed = 0
         /\ rx'.seen = rx.seen /\ rx'.loaded = rx.loaded /\ rx'.woken = FALSE
         /\ \/ rx.pc = "pending" /\ rx'.pc = "idle" /\ rx'.staging = rx.staging
            \/ rx.pc \in {"idle", "ended"} /\ rx'.pc = "shut"
         /\ notifier' = Cleared(notifier)
         /\ UNCHANGED <<shards, inbox, got>> /\ UNCHANGED mine
<1>1. rx \in ReceiverState /\ rx.pushed = 0
  BY DEF CancelRecv, ReceiverDrop, BaseInv, TypeInv, PlaceInv, ReceiverState
<1>2. CASE CancelRecv
  <2>1. rx' = [rx EXCEPT !.pc = "idle", !.mode = "one", !.phase = 0, !.woken = FALSE] /\ 0 \in 0 .. 4
    BY <1>2 DEF CancelRecv
  <2>2. rx' \in ReceiverState /\ rx'.mode = "one" /\ rx'.phase = 0 /\ rx'.pushed = rx.pushed /\ rx'.staging = rx.staging
         /\ rx'.seen = rx.seen /\ rx'.loaded = rx.loaded /\ rx'.woken = FALSE /\ rx'.pc = "idle"
    BY <1>1, <2>1, ZenonT(60) DEF ReceiverState
  <2> QED
    BY <1>1, <1>2, <2>2 DEF CancelRecv, mine, membership
<1>3. CASE ReceiverDrop
  <2>1. rx' = [rx EXCEPT !.pc = "shut", !.mode = "one", !.phase = 0, !.staging = <<>>, !.cursor = 0, !.woken = FALSE]
        /\ 0 \in 0 .. 4 /\ 0 \in Nat /\ <<>> \in Seq(Producers)
    BY <1>3 DEF ReceiverDrop
  <2>2. rx' \in ReceiverState /\ rx'.mode = "one" /\ rx'.phase = 0 /\ rx'.pushed = rx.pushed
         /\ rx'.seen = rx.seen /\ rx'.loaded = rx.loaded /\ rx'.woken = FALSE /\ rx'.pc = "shut"
    BY <1>1, <2>1, ZenonT(60) DEF ReceiverState
  <2> QED
    BY <1>1, <1>3, <2>2 DEF ReceiverDrop, mine, membership
<1> QED
  BY <1>2, <1>3

\* A call returns values.
LEMMA ReadyIs ==
  ASSUME BaseInv, Ready
  PROVE  /\ rx.pc = "ready" /\ rx' \in ReceiverState /\ rx'.pc = "idle" /\ rx'.mode = "one" /\ rx'.phase = 0
         /\ rx'.pushed = 0 /\ rx'.seen = rx.seen /\ rx'.loaded = rx.loaded /\ rx'.woken = rx.woken
         /\ rx.mode = "one" =>
              /\ rx.staging # <<>> /\ rx'.staging = Tail(rx.staging)
              /\ got' = [p \in Producers |-> got[p] + Count(p, <<Head(rx.staging)>>)]
         /\ rx.mode # "one" => rx'.staging = rx.staging /\ got' = got
         /\ notifier' \in {notifier, Cleared(notifier)}
         /\ UNCHANGED <<shards, inbox>> /\ UNCHANGED mine
<1> DEFINE s == IF rx.mode = "one" THEN Tail(rx.staging) ELSE rx.staging
<1>1. rx \in ReceiverState /\ rx.pc = "ready" /\ rx.staging \in Seq(Producers)
      /\ (rx.mode = "one" => rx.staging # <<>>)
  BY DEF Ready, BaseInv, TypeInv, PlaceInv, ReceiverState
<1>2. s \in Seq(Producers)
  BY <1>1, TailIs
<1>3. rx' = [rx EXCEPT !.pc = "idle", !.mode = "one", !.phase = 0, !.pushed = 0, !.steps = 0, !.staging = s]
      /\ 0 \in 0 .. 4 /\ 0 \in Nat
  BY <1>1 DEF Ready, ReceiverState
<1>4. rx' \in ReceiverState /\ rx'.pc = "idle" /\ rx'.mode = "one" /\ rx'.phase = 0 /\ rx'.staging = s
      /\ rx'.pushed = 0 /\ rx'.seen = rx.seen /\ rx'.loaded = rx.loaded /\ rx'.woken = rx.woken
  <2> HIDE DEF s
  <2> QED
    BY <1>1, <1>2, <1>3 DEF ReceiverState
<1> QED
  BY <1>1, <1>4 DEF Ready, Deliver, mine, membership

\* notify and wake in one go: the waker that is taken, and what is left.
Woken(wt) == IF wt.waiting THEN wt ELSE Unarmed

Notified(wt) == IF wt.waiting THEN Taken(Disarmed(wt)) ELSE wt

\* What notify leaves of a waiter.
LEMMA WaiterIs ==
  ASSUME NEW T, NEW wt \in WaiterState(T)
  PROVE  /\ Disarmed(wt) \in WaiterState(T) /\ Disarmed(wt).waker = wt.waker
         /\ Taken(wt) \in WaiterState(T) /\ Taken(wt).waker = NoTask
         /\ Notified(wt) \in WaiterState(T) /\ Notified(wt).waker \in {wt.waker, NoTask}
         /\ (~wt.needs_clear => wt = Unarmed) =>
              /\ ~Disarmed(wt).needs_clear => Disarmed(wt) = Unarmed
              /\ ~Taken(wt).needs_clear => Taken(wt) = Unarmed
              /\ ~Notified(wt).needs_clear => Notified(wt) = Unarmed
<1>1. ASSUME NEW w \in WaiterState(T)
      PROVE  /\ Disarmed(w) \in WaiterState(T) /\ Disarmed(w).waker = w.waker
             /\ Taken(w) \in WaiterState(T) /\ Taken(w).waker = NoTask
             /\ Disarmed(w).needs_clear = w.needs_clear /\ Taken(w).needs_clear = w.needs_clear
  BY DEF WaiterState, Disarmed, Taken
<1>2. Disarmed(Unarmed) = Unarmed /\ Taken(Unarmed) = Unarmed /\ Taken(Disarmed(Unarmed)) = Unarmed
  <2>1. Disarmed(Unarmed) = Unarmed
    <3>1. Disarmed(Unarmed) \in WaiterState({}) /\ Unarmed \in WaiterState({})
      BY DEF Disarmed, Unarmed, WaiterState
    <3>2. /\ Disarmed(Unarmed).waiting = Unarmed.waiting /\ Disarmed(Unarmed).waker = Unarmed.waker
          /\ Disarmed(Unarmed).needs_clear = Unarmed.needs_clear
      BY DEF Disarmed, Unarmed
    <3> QED
      BY <3>1, <3>2 DEF WaiterState
  <2>2. Taken(Unarmed) = Unarmed
    <3>1. Taken(Unarmed) \in WaiterState({}) /\ Unarmed \in WaiterState({})
      BY DEF Taken, Unarmed, WaiterState
    <3>2. /\ Taken(Unarmed).waiting = Unarmed.waiting /\ Taken(Unarmed).waker = Unarmed.waker
          /\ Taken(Unarmed).needs_clear = Unarmed.needs_clear
      BY DEF Taken, Unarmed
    <3> QED
      BY <3>1, <3>2 DEF WaiterState
  <2> QED
    BY <2>1, <2>2
<1>3. /\ Disarmed(wt) \in WaiterState(T) /\ Disarmed(wt).waker = wt.waker
      /\ Taken(wt) \in WaiterState(T) /\ Taken(wt).waker = NoTask
      /\ Disarmed(wt).needs_clear = wt.needs_clear /\ Taken(wt).needs_clear = wt.needs_clear
  BY <1>1
<1>4. /\ Taken(Disarmed(wt)) \in WaiterState(T) /\ Taken(Disarmed(wt)).waker = NoTask
      /\ Taken(Disarmed(wt)).needs_clear = wt.needs_clear
  BY <1>1, <1>3
<1> QED
  BY <1>2, <1>3, <1>4 DEF Notified

\* A ring's waiter is notified and its sender woken.
LEMMA NotifyAndWakeIs ==
  ASSUME TypeInv, NEW r \in Rings, NotifyAndWake(r)
  PROVE  /\ space' \in [Rings -> WaiterState(Producers)] /\ space'[r] = Notified(space[r])
         /\ \A o \in Rings : o # r => space'[o] = space[o]
         /\ Wakes(Woken(space[r]))
<1>1. /\ space \in [Rings -> WaiterState(Producers)] /\ prod \in [Senders -> SenderState]
      /\ space[r] \in WaiterState(Producers)
  BY DEF TypeInv
<1>2. space' = [space EXCEPT ![r] = Notified(space[r])]
  BY <1>1 DEF NotifyAndWake, Notified
<1>3. Notified(space[r]) \in WaiterState(Producers)
  BY <1>1, WaiterIs
<1>4. CASE space[r].waiting
  <2>1. prod' = WokenBy(space[r]) /\ Woken(space[r]) = space[r]
    BY <1>4 DEF NotifyAndWake, Woken
  <2>2. Wakes(space[r])
    BY <1>1, <2>1, WokenByIs DEF Wakes
  <2> QED
    BY <1>1, <1>2, <1>3, <2>1, <2>2, SetSpace
<1>5. CASE ~space[r].waiting
  <2>1. prod' = prod /\ Woken(space[r]) = Unarmed
    BY <1>5 DEF NotifyAndWake, Woken
  <2>2. \A p \in Producers : prod[p].woken \in BOOLEAN /\ NoTask # p
    BY <1>1, Names DEF SenderState
  <2>3. Wakes(Unarmed)
    BY <1>1, <2>1, <2>2 DEF Wakes, Unarmed
  <2> QED
    BY <1>1, <1>2, <1>3, <2>1, <2>3, SetSpace
<1> QED
  BY <1>4, <1>5

\* A shard is closed when the receiver is dropped.
LEMMA ShutShardIs ==
  ASSUME BaseInv, ShutShard
  PROVE  /\ rx.pc = "shut" /\ SameCall
         /\ \/ shards = <<>> /\ rx'.pc = "gone" /\ ring' = ring
            \/ /\ shards # <<>> /\ rx'.pc = "shutnotify" /\ Head(shards) \in Rings /\ RingOnly(Head(shards))
               /\ ring'[Head(shards)].q = ring[Head(shards)].q /\ ring'[Head(shards)].arc = ring[Head(shards)].arc
               /\ ring'[Head(shards)].producer_gone = ring[Head(shards)].producer_gone
         /\ UNCHANGED <<tier, live, notifier, space, prod, shards, free, inbox, freelist, got>>
<1>1. rx \in ReceiverState /\ rx.pc = "shut" /\ shards \in Seq(Rings) /\ ring \in [Rings -> RingState]
      /\ space \in [Rings -> WaiterState(Producers)]
  BY DEF BaseInv, TypeInv, ShutShard
<1>2. SameCall
  BY <1>1 DEF ShutShard, SameCall, ReceiverState
<1>3. UNCHANGED <<tier, live, notifier, space, prod, shards, free, inbox, freelist, got>>
  BY DEF ShutShard, membership
<1>4. CASE shards = <<>>
  BY <1>1, <1>2, <1>3, <1>4 DEF ShutShard, ReceiverState
<1>5. CASE shards # <<>>
  <2> DEFINE r == Head(shards)
             g == [ring[r] EXCEPT !.consumer_gone = TRUE]
  <2>1. r \in Rings
    BY <1>1, <1>5
  <2>2. ring' = [ring EXCEPT ![r] = g] /\ rx'.pc = "shutnotify"
    BY <1>1, <1>5, <2>1 DEF ShutShard, ReceiverState
  <2>3. g \in RingState /\ g.q = ring[r].q /\ g.arc = ring[r].arc /\ g.producer_gone = ring[r].producer_gone
    BY <1>1, <2>1 DEF RingState
  <2> HIDE DEF g, r
  <2>4. RingOnly(r) /\ ring'[r] = g
    BY <1>1, <1>3, <2>1, <2>2, <2>3, SetRing DEF RingOnly
  <2> QED
    BY <1>1, <1>2, <1>3, <1>5, <2>1, <2>2, <2>3, <2>4 DEF r
<1> QED
  BY <1>4, <1>5

\* The closed shard's producer is notified.
LEMMA ShutNotifyIs ==
  ASSUME BaseInv, ShutNotify
  PROVE  /\ rx.pc = "shutnotify" /\ rx'.pc = "shut" /\ SameCall /\ shards # <<>> /\ Head(shards) \in Rings
         /\ shards' = Tail(shards) /\ shards' \in Seq(Rings)
         /\ RingOnly(Head(shards)) /\ ring' = ring
         /\ space'[Head(shards)] = Notified(space[Head(shards)]) /\ Wakes(Woken(space[Head(shards)]))
         /\ UNCHANGED <<tier, live, notifier, free, inbox, freelist, got>>
<1>1. rx \in ReceiverState /\ rx.pc = "shutnotify" /\ shards \in Seq(Rings) /\ shards # <<>>
      /\ ring \in [Rings -> RingState]
  BY DEF BaseInv, TypeInv, PlaceInv, ShutNotify
<1>2. SameCall /\ rx'.pc = "shut"
  BY <1>1 DEF ShutNotify, SameCall, ReceiverState
<1>3. /\ shards' = Tail(shards) /\ NotifyAndWake(Head(shards))
      /\ UNCHANGED <<tier, live, notifier, ring, free, inbox, freelist, got>>
  BY DEF ShutNotify, membership
<1>4. Head(shards) \in Rings /\ Tail(shards) \in Seq(Rings)
  BY <1>1
<1> QED
  BY <1>1, <1>2, <1>3, <1>4, NotifyAndWakeIs DEF RingOnly, BaseInv

\* A ring is dropped with the inbox.
LEMMA DropInboxIs ==
  ASSUME BaseInv, DropInbox
  PROVE  \E r \in Rings :
           /\ rx.pc = "gone" /\ inbox.queue # <<>> /\ r = Head(inbox.queue) /\ inbox'.queue = Tail(inbox.queue)
           /\ inbox'.generation = inbox.generation /\ inbox' \in [queue : Seq(Rings), generation : Nat]
           /\ RingOnly(r) /\ ring'[r].q = ring[r].q /\ ring'[r].arc = ring[r].arc
           /\ ring'[r].producer_gone = ring[r].producer_gone
           /\ space'[r] = Notified(space[r]) /\ Wakes(Woken(space[r]))
           /\ UNCHANGED <<tier, live, notifier, shards, rx, free, freelist, got>>
<1> DEFINE r == Head(inbox.queue)
           g == [ring[r] EXCEPT !.consumer_gone = TRUE]
<1>1. /\ rx.pc = "gone" /\ inbox.queue # <<>> /\ inbox \in [queue : Seq(Rings), generation : Nat]
      /\ ring \in [Rings -> RingState]
  BY DEF DropInbox, BaseInv, TypeInv
<1>2. inbox.queue \in Seq(Rings)
  BY <1>1
<1>3. r \in Rings /\ Tail(inbox.queue) \in Seq(Rings)
  BY <1>1, <1>2
<1>4. /\ inbox'.queue = Tail(inbox.queue) /\ inbox'.generation = inbox.generation
      /\ inbox' \in [queue : Seq(Rings), generation : Nat]
  BY <1>1, <1>3 DEF DropInbox
<1>5. ring' = [ring EXCEPT ![r] = g] /\ NotifyAndWake(r)
  BY <1>1, <1>3 DEF DropInbox
<1>6. g \in RingState /\ g.q = ring[r].q /\ g.arc = ring[r].arc /\ g.producer_gone = ring[r].producer_gone
  BY <1>1, <1>3 DEF RingState
<1>7. UNCHANGED <<tier, live, notifier, shards, rx, free, freelist, got>>
  BY DEF DropInbox
<1>8. r = Head(inbox.queue)
  OBVIOUS
<1> HIDE DEF r, g
<1>9. /\ space' \in [Rings -> WaiterState(Producers)] /\ space'[r] = Notified(space[r])
      /\ \A o \in Rings : o # r => space'[o] = space[o]
      /\ Wakes(Woken(space[r]))
  BY <1>3, <1>5, NotifyAndWakeIs DEF BaseInv
<1>10. RingOnly(r) /\ ring'[r] = g
  BY <1>1, <1>3, <1>5, <1>6, <1>9, SetRing DEF RingOnly
<1> QED
  BY <1>1, <1>3, <1>4, <1>6, <1>7, <1>8, <1>9, <1>10

-----------------------------------------------------------------------------
(* Types, places and roles are kept.                                       *)

\* The fields that PlaceInv speaks of.
SamePlace ==
  /\ rx' \in ReceiverState /\ rx'.pc = rx.pc /\ rx'.mode = rx.mode /\ rx'.steps = rx.steps /\ rx'.at = rx.at
  /\ rx'.staging = rx.staging /\ rx'.pushed = rx.pushed

\* A sender's step.
LEMMA SenderBase ==
  ASSUME BaseInv, NEW s \in Senders, Others(s), ring' \in [Rings -> RingState],
         space' \in [Rings -> WaiterState(Producers)], live' \in Int, notifier' \in WaiterState({RecvTask}),
         free' \subseteq Rings, SamePlace, UNCHANGED rest,
         s \in Producers => prod'[s].pc \notin {"take", "deposit"},
         s = Handle =>
           /\ prod'[s].pc \in {"idle", "take", "deposit", "release", "notify", "wake", "gone"}
           /\ prod'[s].pc \in {"take", "deposit"} => tier = "dynamic"
           /\ prod'[s].pc \in {"notify", "wake"} => prod'[s].after = "gone"
  PROVE  BaseInv'
<1>1. TypeInv'
  BY DEF BaseInv, TypeInv, Others, SamePlace, rest
<1>2. PlaceInv'
  BY DEF BaseInv, PlaceInv, SamePlace, rest
<1>3. RoleInv'
  BY Names DEF BaseInv, RoleInv, Others, rest
<1> QED
  BY <1>1, <1>2, <1>3 DEF BaseInv

\* A step that changes no sender's place.
LEMMA ReceiverBase ==
  ASSUME BaseInv, prod' \in [Senders -> SenderState],
         \A s \in Senders : prod'[s].pc = prod[s].pc /\ prod'[s].after = prod[s].after,
         ring' \in [Rings -> RingState], space' \in [Rings -> WaiterState(Producers)],
         notifier' \in WaiterState({RecvTask}), rx' \in ReceiverState, shards' \in Seq(Rings),
         free' \subseteq Rings, freelist' \in Seq(Rings), inbox' \in [queue : Seq(Rings), generation : Nat],
         got' \in [Producers -> Nat], UNCHANGED <<tier, live>>, PlaceInv'
  PROVE  BaseInv'
<1>1. TypeInv'
  BY DEF BaseInv, TypeInv
<1>2. RoleInv'
  BY Names DEF BaseInv, RoleInv
<1> QED
  BY <1>1, <1>2 DEF BaseInv

\* The receiver's turn on its own state.
LEMMA TurnBase ==
  ASSUME BaseInv, UNCHANGED mine, UNCHANGED <<shards, inbox>>, rx' \in ReceiverState,
         notifier' \in WaiterState({RecvTask}), got' \in [Producers -> Nat], PlaceInv'
  PROVE  BaseInv'
<1>1. BaseInv /\ TypeInv
  BY DEF BaseInv
<1> QED
  BY <1>1, ReceiverBase DEF TypeInv, mine

\* Delivered values are counted.
LEMMA DeliverIs ==
  ASSUME got \in [Producers -> Nat], NEW s \in Seq(Producers),
         got' = [p \in Producers |-> got[p] + Count(p, s)]
  PROVE  got' \in [Producers -> Nat]
<1>1. \A p \in Producers : got[p] + Count(p, s) \in Nat
  BY CountType
<1> QED
  BY <1>1

\* A sender's steps on the ring it holds.
Sends(p) ==
  Moves(p) \/ Push(p) \/ ArmSpace(p) \/ Yield(p) \/ Done(p) \/ ProducerDrop(p) \/ ReleaseArc(p)

\* The receiver's steps.
Receives ==
  \/ \E call \in Calls : StartRecv(call[1], call[2])
  \/ Refresh \/ AppendInbox \/ Drain \/ NotifySpace \/ WakeSpace \/ DrainEmpty
  \/ NotFinished \/ Recycle \/ Prune \/ Miss \/ ArmReceiver \/ Ready \/ PollRecv
  \/ ShutShard \/ ShutNotify \/ DropInbox \/ CancelRecv \/ ReceiverDrop

\* The steps, by who takes them.
LEMMA NextIs ==
  ASSUME BaseInv, Next
  PROVE  \/ \E p \in Producers : Sends(p) \/ Claim(p) \/ Deposit(p) \/ Deposited(p)
         \/ \E s \in Senders : Leaves(s)
         \/ Register \/ HandleDrop \/ SkipLingering
         \/ Receives
         \/ UNCHANGED vars
<1>1. CASE \E s \in Senders : SenderStep(s)
  <2>1. PICK s \in Senders : SenderStep(s)
    BY <1>1
  <2>2. ReleaseArc(s) => s \in Producers
    BY Names DEF BaseInv, RoleInv, ReleaseArc
  <2> QED
    BY <2>1, <2>2 DEF SenderStep, Sends, Leaves, Moves
<1>2. CASE \E s \in Senders : SenderCall(s)
  BY <1>2 DEF SenderCall, Sends, Moves
<1>3. CASE ReceiverStep \/ CancelRecv \/ ReceiverDrop
  BY <1>3 DEF ReceiverStep, Receives
<1>4. CASE Over
  BY <1>4 DEF Over
<1> QED
  BY <1>1, <1>2, <1>3, <1>4 DEF Next

\* Who sends has a ring.
LEMMA Holding ==
  ASSUME HoldInv, NEW p \in Producers
  PROVE  /\ ActiveIn(prod[p]) \/ prod[p].pc = "unlink" => Holds(p) /\ prod[p].ring \in Rings
         /\ Sends(p) => Holds(p) /\ prod[p].ring \in Rings
         /\ Sends(p) /\ ~ReleaseArc(p) => Active(p)
<1>1. ActiveIn(prod[p]) \/ prod[p].pc = "unlink" => Holds(p) /\ prod[p].ring \in Rings
  BY ActiveIs DEF HoldInv, Holds
<1>2. Sends(p) /\ ~ReleaseArc(p) =>
        prod[p].pc \in {"idle", "try", "arm", "retry", "yield", "pending", "done"}
  BY DEF Sends, Moves, Push, ArmSpace, Yield, Done, ProducerDrop, BatchEnd, Refused, Full, StillFull,
         PollSend, CancelSend, StartSend
<1>3. ReleaseArc(p) => prod[p].pc = "unlink"
  BY DEF ReleaseArc
<1> QED
  BY <1>1, <1>2, <1>3, ActiveIs DEF ActiveIn

\* A sender's step on its ring.
LEMMA SendsBase ==
  ASSUME BaseInv, HoldInv, NEW p \in Producers, Sends(p)
  PROVE  BaseInv'
<1>1. p \in Senders /\ p # Handle /\ prod[p].ring \in Rings /\ TypeInv /\ prod \in [Senders -> SenderState]
  BY Names, Holding DEF BaseInv, TypeInv
<1>2. rx' = rx /\ notifier' = notifier /\ live' = live /\ free' = free /\ UNCHANGED rest /\ Others(p)
      /\ prod'[p].pc \notin {"take", "deposit"}
      /\ ring' \in [Rings -> RingState] /\ space' \in [Rings -> WaiterState(Producers)]
  <2>1. CASE Moves(p)
    <3>1. ActiveIn(prod'[p]) => prod'[p].pc \notin {"take", "deposit"}
      BY DEF ActiveIn
    <3> QED
      BY <1>1, <2>1, <3>1, MovesIs DEF TypeInv
  <2>2. CASE Push(p)
    BY <1>1, <2>2, PushIs DEF RingOnly
  <2>3. CASE ArmSpace(p)
    BY <1>1, <2>3, ArmSpaceIs DEF RingOnly
  <2>4. CASE Yield(p) \/ Done(p) \/ ProducerDrop(p)
    BY <1>1, <2>4, ClearsIs DEF RingOnly
  <2>5. CASE ReleaseArc(p)
    BY <1>1, <2>5, ReleaseArcIs DEF RingOnly
  <2> QED
    BY <2>1, <2>2, <2>3, <2>4, <2>5 DEF Sends
<1>3. SamePlace
  BY <1>1, <1>2 DEF SamePlace, TypeInv
<1>4. live' \in Int /\ notifier' \in WaiterState({RecvTask}) /\ free' \subseteq Rings
  BY <1>1, <1>2 DEF TypeInv
<1> QED
  BY <1>1, <1>2, <1>3, <1>4, SenderBase

\* A step on the shared count or the receiver's waiter.
LEMMA LeavesBase ==
  ASSUME BaseInv, NEW s \in Senders, Leaves(s)
  PROVE  BaseInv'
<1>1. TypeInv /\ rx \in ReceiverState /\ rx.woken \in BOOLEAN /\ live \in Int /\ live - 1 \in Int
      /\ notifier \in WaiterState({RecvTask}) /\ free \subseteq Rings
  BY DEF BaseInv, TypeInv, ReceiverState
<1>2. Disarmed(notifier) \in WaiterState({RecvTask}) /\ Taken(notifier) \in WaiterState({RecvTask})
  BY <1>1, WaiterIs
<1>3. Others(s) /\ UNCHANGED <<ring, space, free>> /\ UNCHANGED rest
      /\ live' \in Int /\ notifier' \in WaiterState({RecvTask})
  BY <1>1, <1>2, LeavesIs
<1>4. SamePlace
  <2>1. CASE rx' = rx
    BY <1>1, <2>1 DEF SamePlace
  <2>2. CASE rx' = [rx EXCEPT !.woken = @ \/ notifier.waker = RecvTask]
    BY <1>1, <2>2 DEF SamePlace, ReceiverState
  <2> QED
    BY <1>1, <2>1, <2>2, LeavesIs
<1>5. \/ prod'[s].pc = "wake" /\ prod[s].pc = "notify" /\ prod'[s].after = prod[s].after
      \/ prod[s].pc \in {"notify", "wake"} /\ prod'[s].pc = prod[s].after /\ prod'[s].after = prod[s].after
      \/ prod'[s].pc \in {"notify", "gone"} /\ prod'[s].after = "gone"
  BY <1>1, LeavesIs
<1>6. prod[s].after \in {"done", "arm", "yield", "release", "gone"}
  BY <1>1 DEF TypeInv, SenderState
<1>7. s = Handle /\ prod[s].pc \in {"notify", "wake"} => prod[s].after = "gone"
  BY DEF BaseInv, RoleInv
<1>8. s \in Producers => prod'[s].pc \notin {"take", "deposit"}
  BY <1>5, <1>6
<1>9. s = Handle => prod'[s].pc \in {"notify", "wake", "gone"} /\ prod'[s].after = "gone"
  BY <1>5, <1>7
<1>10. ring' \in [Rings -> RingState] /\ space' \in [Rings -> WaiterState(Producers)] /\ free' \subseteq Rings
  BY <1>1, <1>3 DEF TypeInv
<1> QED
  BY <1>3, <1>4, <1>8, <1>9, <1>10, SenderBase

\* Producers come and the handle works.
LEMMA JoinsBase ==
  ASSUME BaseInv, OwnInv, NEW p \in Producers,
         Claim(p) \/ Deposit(p) \/ Deposited(p) \/ Register \/ HandleDrop \/ SkipLingering
  PROVE  BaseInv'
<1>1. TypeInv /\ PlaceInv /\ p \in Senders /\ p # Handle /\ Handle \in Senders
  BY Names DEF BaseInv
<1>2. live \in Int /\ live + 1 \in Int /\ rx \in ReceiverState /\ free \subseteq Rings
      /\ ring \in [Rings -> RingState] /\ space \in [Rings -> WaiterState(Producers)]
  BY <1>1 DEF TypeInv
<1>3. rx' = rx => SamePlace
  BY <1>2 DEF SamePlace
<1>4. CASE Claim(p)
  <2>1. Others(p) /\ UNCHANGED <<notifier, ring, space, rx>> /\ UNCHANGED rest /\ live' = live + 1
        /\ free' \subseteq free /\ prod'[p].pc = "idle"
    BY <1>1, <1>4, ClaimIs
  <2>2. ring' \in [Rings -> RingState] /\ space' \in [Rings -> WaiterState(Producers)] /\ live' \in Int
        /\ notifier' \in WaiterState({RecvTask}) /\ free' \subseteq Rings
    BY <1>1, <1>2, <2>1 DEF TypeInv
  <2> QED
    BY <1>1, <1>3, <2>1, <2>2, SenderBase
<1>5. CASE Deposit(p)
  <2>1. PICK r \in Rings :
           /\ prod[Handle].pc = "take" /\ Others(Handle)
           /\ \/ freelist # <<>> /\ freelist' = Front(freelist)
              \/ freelist' = freelist
           /\ RingOnly(r)
           /\ inbox' \in [queue : Seq(Rings), generation : Nat]
           /\ prod'[Handle].pc = "deposit"
           /\ live' = live + 1
           /\ UNCHANGED <<tier, notifier, shards, rx, free, got>>
    BY <1>1, <1>5, DepositIs
  <2>2. freelist' \in Seq(Rings)
    <3>1. freelist \in Seq(Rings)
      BY <1>1 DEF TypeInv
    <3>2. freelist # <<>> => Front(freelist) \in Seq(Rings)
      BY <3>1, FrontIs
    <3> QED
      BY <2>1, <3>1, <3>2
  <2>3. tier = "dynamic"
    BY <2>1 DEF BaseInv, RoleInv
  <2>4. TypeInv'
    BY <1>1, <1>2, <2>1, <2>2 DEF TypeInv, RingOnly, Others
  <2>5. PlaceInv'
    BY <1>1, <2>1 DEF PlaceInv
  <2>6. RoleInv'
    BY Names, <2>1, <2>3 DEF BaseInv, RoleInv, Others
  <2> QED
    BY <2>4, <2>5, <2>6 DEF BaseInv
<1>6. CASE Deposited(p)
  <2>1. /\ prod' \in [Senders -> SenderState]
        /\ \A s \in Senders : s # p /\ s # Handle => prod'[s] = prod[s]
        /\ prod'[Handle].pc = "idle" /\ prod'[p].pc = "idle"
        /\ inbox' \in [queue : Seq(Rings), generation : Nat]
        /\ UNCHANGED <<tier, live, notifier, ring, space, shards, rx, free, freelist, got>>
    BY <1>1, <1>6, DepositedIs
  <2>2. TypeInv'
    BY <1>1, <2>1 DEF TypeInv
  <2>3. PlaceInv'
    BY <1>1, <2>1 DEF PlaceInv
  <2>4. RoleInv'
    BY Names, <2>1 DEF BaseInv, RoleInv
  <2> QED
    BY <2>2, <2>3, <2>4 DEF BaseInv
<1>7. CASE Register \/ HandleDrop
  <2>1. /\ Others(Handle) /\ prod'[Handle].pc \in {"take", "release"}
        /\ prod'[Handle].pc = "take" => tier = "dynamic"
        /\ UNCHANGED <<live, notifier, ring, space, rx, free>> /\ UNCHANGED rest
    BY <1>1, <1>7, HandleIs
  <2>2. notifier' \in WaiterState({RecvTask})
    BY <1>1, <2>1 DEF TypeInv
  <2> QED
    BY <1>1, <1>2, <1>3, <2>1, <2>2, SenderBase, Names
<1>8. CASE SkipLingering
  <2>1. PICK r \in Rings :
           /\ freelist # <<>> /\ freelist' = Front(freelist) /\ RingOnly(r)
           /\ UNCHANGED <<tier, live, notifier, prod, shards, rx, free, inbox, got>>
    BY <1>1, <1>8, SkipLingeringIs
  <2>2. freelist' \in Seq(Rings)
    BY <1>1, <2>1, FrontIs DEF TypeInv
  <2>3. TypeInv'
    BY <1>1, <2>1, <2>2 DEF TypeInv, RingOnly
  <2>4. PlaceInv'
    BY <1>1, <2>1 DEF PlaceInv
  <2>5. RoleInv'
    BY <2>1 DEF BaseInv, RoleInv
  <2> QED
    BY <2>3, <2>4, <2>5 DEF BaseInv
<1> QED
  BY <1>4, <1>5, <1>6, <1>7, <1>8

\* The receiver's steps that touch nothing but its own state.
Turns ==
  \/ \E call \in Calls : StartRecv(call[1], call[2])
  \/ Refresh \/ DrainEmpty \/ NotFinished \/ Miss \/ ArmReceiver \/ Ready \/ PollRecv
  \/ CancelRecv \/ ReceiverDrop

\* They leave the rings, the senders and both lists of rings alone.
LEMMA TurnsIs ==
  ASSUME BaseInv, Turns
  PROVE  /\ rx' \in ReceiverState /\ notifier' \in WaiterState({RecvTask}) /\ got' \in [Producers -> Nat]
         /\ PlaceInv' /\ rx.pc \notin {"space", "spacewake", "shutnotify"}
         /\ UNCHANGED mine /\ UNCHANGED <<shards, inbox>>
<1>1. /\ TypeInv /\ PlaceInv /\ rx \in ReceiverState /\ shards \in Seq(Rings) /\ Len(shards) \in Nat
      /\ notifier \in WaiterState({RecvTask}) /\ got \in [Producers -> Nat] /\ (Len(shards) = 0 <=> shards = <<>>)
      /\ rx.pushed \in Nat /\ rx.staging \in Seq(Producers) /\ rx.steps \in Nat
  BY DEF BaseInv, TypeInv, ReceiverState
<1>2. Cleared(notifier) \in WaiterState({RecvTask}) /\ Armed(RecvTask) \in WaiterState({RecvTask})
  BY <1>1, ClearedIs DEF Armed, WaiterState
<1>3. CASE \E call \in Calls : StartRecv(call[1], call[2])
  <2>1. PICK call \in Calls : StartRecv(call[1], call[2])
    BY <1>3
  <2> DEFINE mode == call[1]
             phase == call[2]
  <2>2. <<mode, phase>> \in Calls
    BY BoundsAssumption
  <2>3. StartRecv(mode, phase)
    BY <2>1
  <2> HIDE DEF mode, phase
  <2>4. PICK n \in 0 .. Len(rx.staging) : Begins(mode, phase, n)
    BY <1>1, <2>2, <2>3, StartRecvIs
  <2>5. got' \in [Producers -> Nat]
    <3>1. SubSeq(rx.staging, 1, n) \in Seq(Producers)
      BY <1>1, Slices
    <3> HIDE DEF mode, phase
    <3> QED
      BY <1>1, <2>4, <3>1, DeliverIs DEF Begins
  <2>6. /\ rx' \in ReceiverState /\ rx'.pushed = n /\ rx'.mode = mode /\ (mode # "many" => n = 0)
        /\ rx'.pc \in {"ready", "refresh", "visit", "miss"}
        /\ rx'.pc = "visit" => shards # <<>> /\ rx'.steps = Len(shards)
        /\ rx'.pc = "miss" => n = 0
        /\ rx'.pc = "ready" /\ mode = "one" => rx'.staging # <<>>
        /\ shards' = shards
    BY <2>4 DEF Begins
  <2>7. PlaceInv'
    BY <1>1, <2>6 DEF PlaceInv
  <2> QED
    BY <1>1, <2>4, <2>5, <2>7 DEF Begins
<1>4. CASE Refresh
  <2>1. /\ rx.pc = "refresh" /\ rx' \in ReceiverState
        /\ rx'.mode = rx.mode /\ rx'.pushed = rx.pushed /\ rx'.staging = rx.staging
        /\ \/ rx'.pc = "append"
           \/ /\ rx'.steps = Len(shards)
              /\ rx'.pc = IF shards = <<>> THEN (IF rx.pushed > 0 THEN "ready" ELSE "miss") ELSE "visit"
        /\ UNCHANGED <<notifier, shards, inbox, got>> /\ UNCHANGED mine
    BY <1>1, <1>4, RefreshIs
  <2>2. PlaceInv'
    BY <1>1, <2>1 DEF PlaceInv
  <2> QED
    BY <1>1, <2>1, <2>2
<1>5. CASE DrainEmpty
  <2>1. /\ rx.pc = "visit" /\ rx'.pc = "finished" /\ SameCall /\ rx'.steps = rx.steps
        /\ UNCHANGED <<notifier, shards, inbox, got>> /\ UNCHANGED mine
    BY <1>1, <1>5, DrainEmptyIs
  <2>2. PlaceInv'
    BY <1>1, <2>1 DEF PlaceInv, SameCall
  <2> QED
    BY <1>1, <2>1, <2>2 DEF SameCall
<1>6. CASE NotFinished
  <2>1. /\ rx.pc = "finished" /\ rx.steps > 0 /\ shards # <<>> /\ SameVisit(rx.steps - 1)
        /\ UNCHANGED <<notifier, shards, inbox, got>> /\ UNCHANGED mine
    BY <1>6, NotFinishedIs
  <2>2. PlaceInv'
    BY <1>1, <2>1 DEF PlaceInv, SameVisit
  <2> QED
    BY <1>1, <2>1, <2>2 DEF SameVisit
<1>7. CASE Miss
  <2>1. /\ rx.pc = "miss" /\ rx' \in ReceiverState /\ rx.pushed = 0
        /\ rx'.mode = rx.mode /\ rx'.staging = rx.staging /\ rx'.pushed = rx.pushed
        /\ rx'.pc \in {"idle", "arm", "pending", "ended"} \/ \E ph \in {2, 4} : Passing(ph)
        /\ notifier' = (IF rx.phase = 4 THEN Cleared(notifier) ELSE notifier)
        /\ UNCHANGED <<shards, inbox, got>> /\ UNCHANGED mine
    BY <1>7, MissIs
  <2>2. PlaceInv'
    BY <1>1, <2>1 DEF PlaceInv, Passing
  <2> QED
    BY <1>1, <1>2, <2>1, <2>2
<1>8. CASE ArmReceiver \/ PollRecv
  <2>1. /\ rx.pushed = 0 /\ rx.pc \in {"arm", "pending"} /\ (Passing(3) \/ Passing(1))
        /\ notifier' \in {notifier, Armed(RecvTask)}
        /\ UNCHANGED <<shards, inbox, got>> /\ UNCHANGED mine
    BY <1>8, RepollIs
  <2>2. rx' \in ReceiverState /\ PlaceInv'
    BY <1>1, <2>1 DEF PlaceInv, Passing
  <2> QED
    BY <1>1, <1>2, <2>1, <2>2
<1>9. CASE Ready
  <2>1. /\ rx.pc = "ready" /\ rx' \in ReceiverState /\ rx'.pc = "idle" /\ rx'.pushed = 0
        /\ notifier' \in {notifier, Cleared(notifier)}
        /\ rx.mode = "one" =>
             rx.staging # <<>> /\ got' = [p \in Producers |-> got[p] + Count(p, <<Head(rx.staging)>>)]
        /\ rx.mode # "one" => got' = got
        /\ UNCHANGED <<shards, inbox>> /\ UNCHANGED mine
    BY <1>9, ReadyIs
  <2>2. PlaceInv'
    BY <1>1, <2>1 DEF PlaceInv
  <2>3. CASE rx.mode = "one"
    <3>1. <<Head(rx.staging)>> \in Seq(Producers)
      BY <1>1, <2>1, <2>3
    <3>2. got' \in [Producers -> Nat]
      BY <1>1, <2>1, <2>3, <3>1, DeliverIs
    <3> QED
      BY <1>1, <1>2, <2>1, <2>2, <3>2
  <2>4. CASE rx.mode # "one"
    BY <1>1, <1>2, <2>1, <2>2, <2>4
  <2> QED
    BY <2>3, <2>4
<1>10. CASE CancelRecv \/ ReceiverDrop
  <2>1. /\ rx' \in ReceiverState /\ rx'.pushed = 0 /\ rx.pc \in {"pending", "idle", "ended"}
        /\ rx'.pc \in {"idle", "shut"} /\ notifier' = Cleared(notifier)
        /\ UNCHANGED <<shards, inbox, got>> /\ UNCHANGED mine
    BY <1>10, StopIs
  <2>2. PlaceInv'
    BY <1>1, <2>1 DEF PlaceInv
  <2> QED
    BY <1>1, <1>2, <2>1, <2>2
<1> QED
  BY <1>3, <1>4, <1>5, <1>6, <1>7, <1>8, <1>9, <1>10 DEF Turns

\* The receiver goes on after a shard.
LEMMA AfterDrainPlace ==
  ASSUME TypeInv, PlaceInv, rx.pc \in {"space", "spacewake"}, rx' = AfterDrain(rx), shards' = shards
  PROVE  PlaceInv'
<1>1. rx \in ReceiverState /\ rx.steps \in Nat /\ rx.pushed \in Nat /\ shards # <<>>
  BY DEF TypeInv, PlaceInv, ReceiverState
<1>2. /\ rx' \in ReceiverState /\ rx'.pc \in {"ready", "visit", "miss"} /\ (rx.mode = "one" => rx'.pc = "ready")
      /\ rx'.mode = rx.mode /\ rx'.staging = rx.staging /\ rx'.pushed = rx.pushed
      /\ rx'.pc # "ready" => rx' = Visits(rx, rx.steps)
  BY <1>1, AfterDrainIs
<1>3. /\ Visits(rx, rx.steps).pc = (IF rx.steps = 0 THEN (IF rx.pushed > 0 THEN "ready" ELSE "miss") ELSE "visit")
      /\ Visits(rx, rx.steps).steps = rx.steps
  BY <1>1, VisitsIs
<1>4. (rx'.pc = "visit" => rx'.steps > 0) /\ (rx'.pc = "miss" => rx'.pushed = 0)
  BY <1>1, <1>2, <1>3
<1>5. (rx.mode = "one" => rx.pushed = 0 /\ rx.staging # <<>>)
  BY DEF PlaceInv
<1> QED
  BY <1>1, <1>2, <1>4, <1>5 DEF PlaceInv

\* The receiver's steps.
LEMMA ReceivesBase ==
  ASSUME BaseInv, Receives
  PROVE  BaseInv'
<1>1. /\ TypeInv /\ PlaceInv /\ rx \in ReceiverState /\ shards \in Seq(Rings) /\ Len(shards) \in Nat
      /\ notifier \in WaiterState({RecvTask}) /\ got \in [Producers -> Nat] /\ (Len(shards) = 0 <=> shards = <<>>)
      /\ rx.pushed \in Nat /\ rx.staging \in Seq(Producers) /\ rx.steps \in Nat
      /\ prod \in [Senders -> SenderState] /\ ring \in [Rings -> RingState]
      /\ space \in [Rings -> WaiterState(Producers)] /\ free \subseteq Rings /\ freelist \in Seq(Rings)
      /\ inbox \in [queue : Seq(Rings), generation : Nat]
  BY DEF BaseInv, TypeInv, ReceiverState
<1>2. CASE Turns
  BY <1>2, TurnsIs, TurnBase
<1>3. CASE AppendInbox
  <2>1. /\ rx.pc = "append" /\ rx' \in ReceiverState /\ shards' \in Seq(Rings)
        /\ inbox' \in [queue : Seq(Rings), generation : Nat]
        /\ rx'.mode = rx.mode /\ rx'.pushed = rx.pushed /\ rx'.staging = rx.staging
        /\ rx'.steps = Len(shards')
        /\ rx'.pc = IF shards' = <<>> THEN (IF rx.pushed > 0 THEN "ready" ELSE "miss") ELSE "visit"
        /\ UNCHANGED <<notifier, got>> /\ UNCHANGED mine
    BY <1>1, <1>3, AppendInboxIs
  <2>2. Len(shards') \in Nat /\ (Len(shards') = 0 <=> shards' = <<>>)
    BY <2>1
  <2>3. PlaceInv'
    BY <1>1, <2>1, <2>2 DEF PlaceInv
  <2> QED
    BY <1>1, <2>1, <2>3, ReceiverBase DEF mine
<1>4. CASE Drain
  <2>1. PICK r \in Rings : \E n \in 1 .. Len(ring[r].q) :
           /\ rx.pc = "visit" /\ r = shards[At] /\ r \in ToSet(shards) /\ RingOnly(r)
           /\ ring'[r].q = SubSeq(ring[r].q, n + 1, Len(ring[r].q))
           /\ ring'[r].producer_gone = ring[r].producer_gone /\ ring'[r].arc = ring[r].arc
           /\ ring'[r].consumer_gone = ring[r].consumer_gone
           /\ rx' \in ReceiverState /\ rx'.pc = "space" /\ rx'.at = r /\ rx'.mode = rx.mode
           /\ rx'.phase = rx.phase /\ rx'.woken = rx.woken /\ rx'.seen = rx.seen /\ rx'.loaded = rx.loaded
           /\ rx.mode = "one" => /\ rx'.staging = rx.staging \o SubSeq(ring[r].q, 1, n)
                                 /\ rx'.pushed = rx.pushed /\ got' = got
           /\ rx.mode # "one" =>
                /\ rx'.staging = rx.staging /\ rx'.pushed = rx.pushed + n
                /\ got' = [p \in Producers |-> got[p] + Count(p, SubSeq(ring[r].q, 1, n))]
           /\ UNCHANGED <<tier, live, notifier, space, prod, shards, free, inbox, freelist>>
    BY <1>4, DrainIs
  <2>2. PICK n \in 1 .. Len(ring[r].q) :
           /\ rx.pc = "visit" /\ RingOnly(r)
           /\ rx' \in ReceiverState /\ rx'.pc = "space" /\ rx'.at = r /\ rx'.mode = rx.mode
           /\ rx.mode = "one" => /\ rx'.staging = rx.staging \o SubSeq(ring[r].q, 1, n)
                                 /\ rx'.pushed = rx.pushed /\ got' = got
           /\ rx.mode # "one" => got' = [p \in Producers |-> got[p] + Count(p, SubSeq(ring[r].q, 1, n))]
           /\ UNCHANGED <<tier, live, notifier, space, prod, shards, free, inbox, freelist>>
    BY <2>1
  <2>3. ring[r].q \in Seq(Producers)
    BY <1>1 DEF RingState
  <2>4. SubSeq(ring[r].q, 1, n) \in Seq(Producers) /\ Len(SubSeq(ring[r].q, 1, n)) = n /\ n \in 1 .. Len(ring[r].q)
    BY <2>3, Slices
  <2>5. got' \in [Producers -> Nat]
    BY <1>1, <2>2, <2>4, DeliverIs
  <2>6. rx.mode = "one" => rx'.staging # <<>>
    <3> DEFINE v == SubSeq(ring[r].q, 1, n)
    <3>1. Len(rx.staging \o v) = Len(rx.staging) + n
      BY <1>1, <2>4
    <3>2. Len(rx.staging \o v) # 0
      <4> HIDE DEF v
      <4>1. Len(rx.staging) \in Nat /\ n \in Nat /\ n > 0
        BY <1>1, <2>3
      <4> QED
        BY <3>1, <4>1
    <3>3. rx.staging \o v # <<>>
      BY <3>2
    <3> HIDE DEF v
    <3> QED
      BY <2>2, <3>3 DEF v
  <2>7. PlaceInv'
    BY <1>1, <2>2, <2>6 DEF PlaceInv
  <2> QED
    BY <1>1, <2>2, <2>5, <2>7, ReceiverBase DEF RingOnly
<1>5. CASE NotifySpace
  <2>1. /\ rx.pc = "space" /\ rx.at \in Rings /\ shards # <<>> /\ SameCall /\ RingOnly(rx.at) /\ ring' = ring
        /\ space[rx.at].waiting => rx'.pc = "spacewake" /\ rx'.at = rx.at
        /\ ~space[rx.at].waiting => rx' = AfterDrain(rx)
        /\ UNCHANGED <<tier, live, notifier, prod, shards, free, inbox, freelist, got>>
    BY <1>5, NotifySpaceIs
  <2>2. PlaceInv'
    <3>1. CASE rx'.pc = "spacewake" /\ rx'.at = rx.at
      BY <1>1, <2>1, <3>1 DEF PlaceInv, SameCall
    <3>2. CASE rx' = AfterDrain(rx)
      BY <1>1, <2>1, <3>2, AfterDrainPlace
    <3> QED
      BY <2>1, <3>1, <3>2
  <2> QED
    BY <1>1, <2>1, <2>2, ReceiverBase DEF RingOnly, SameCall
<1>6. CASE WakeSpace
  <2>1. /\ rx.pc = "spacewake" /\ rx.at \in Rings /\ shards # <<>> /\ SameCall /\ RingOnly(rx.at) /\ ring' = ring
        /\ Wakes(space[rx.at]) /\ rx' = AfterDrain(rx)
        /\ UNCHANGED <<tier, live, notifier, shards, free, inbox, freelist, got>>
    BY <1>6, WakeSpaceIs
  <2>2. PlaceInv'
    BY <1>1, <2>1, AfterDrainPlace
  <2> QED
    BY <1>1, <2>1, <2>2, ReceiverBase DEF RingOnly, SameCall, Wakes
<1>7. CASE Recycle
  <2>1. PICK r \in Rings :
           /\ rx.pc = "finished" /\ rx.steps > 0 /\ shards # <<>> /\ SameVisit(rx.steps - 1)
           /\ \/ UNCHANGED <<ring, space, free>>
              \/ RingOnly(r) /\ free' = free \cup {r}
           /\ UNCHANGED <<tier, live, notifier, prod, shards, inbox, freelist, got>>
    BY <1>7, RecycleIs
  <2>2. PlaceInv'
    BY <1>1, <2>1 DEF PlaceInv, SameVisit
  <2>3. ring' \in [Rings -> RingState] /\ space' \in [Rings -> WaiterState(Producers)] /\ free' \subseteq Rings
    BY <1>1, <2>1 DEF RingOnly
  <2> QED
    BY <1>1, <2>1, <2>2, <2>3, ReceiverBase DEF SameVisit
<1>8. CASE Prune
  <2>1. PICK r \in Rings :
           /\ rx.pc = "finished" /\ rx.steps > 0 /\ shards' \in Seq(Rings)
           /\ \/ freelist' \in Seq(Rings) /\ UNCHANGED <<ring, space>>
              \/ RingOnly(r) /\ freelist' = freelist
           /\ SameVisit(IF shards' = <<>> THEN 0 ELSE rx.steps - 1)
           /\ UNCHANGED <<tier, live, notifier, prod, free, inbox, got>>
    BY <1>8, PruneIs
  <2>2. PlaceInv'
    BY <1>1, <2>1 DEF PlaceInv, SameVisit
  <2>3. ring' \in [Rings -> RingState] /\ space' \in [Rings -> WaiterState(Producers)] /\ freelist' \in Seq(Rings)
    BY <1>1, <2>1 DEF RingOnly
  <2> QED
    BY <1>1, <2>1, <2>2, <2>3, ReceiverBase DEF SameVisit
<1>9. CASE ShutShard
  <2>1. /\ rx.pc = "shut" /\ SameCall /\ ring' \in [Rings -> RingState]
        /\ rx'.pc = "gone" \/ (rx'.pc = "shutnotify" /\ shards # <<>>)
        /\ UNCHANGED <<tier, live, notifier, space, prod, shards, free, inbox, freelist, got>>
    BY <1>1, <1>9, ShutShardIs DEF RingOnly
  <2>2. PlaceInv'
    BY <1>1, <2>1 DEF PlaceInv, SameCall
  <2> QED
    BY <1>1, <2>1, <2>2, ReceiverBase DEF SameCall
<1>10. CASE ShutNotify
  <2>1. /\ rx.pc = "shutnotify" /\ rx'.pc = "shut" /\ SameCall /\ shards' \in Seq(Rings)
        /\ RingOnly(Head(shards)) /\ Wakes(Woken(space[Head(shards)]))
        /\ UNCHANGED <<tier, live, notifier, free, inbox, freelist, got>>
    BY <1>10, ShutNotifyIs
  <2>2. PlaceInv'
    BY <1>1, <2>1 DEF PlaceInv, SameCall
  <2> QED
    BY <1>1, <2>1, <2>2, ReceiverBase DEF SameCall, RingOnly, Wakes
<1>11. CASE DropInbox
  <2>1. PICK r \in Rings :
           /\ inbox' \in [queue : Seq(Rings), generation : Nat] /\ RingOnly(r) /\ Wakes(Woken(space[r]))
           /\ UNCHANGED <<tier, live, notifier, shards, rx, free, freelist, got>>
    BY <1>11, DropInboxIs
  <2>2. PlaceInv'
    BY <1>1, <2>1 DEF PlaceInv
  <2> QED
    BY <1>1, <2>1, <2>2, ReceiverBase DEF RingOnly, Wakes
<1> QED
  BY <1>2, <1>3, <1>4, <1>5, <1>6, <1>7, <1>8, <1>9, <1>10, <1>11 DEF Receives, Turns

\* Every step keeps the types, the places and the roles.
LEMMA BaseStep ==
  ASSUME BaseInv, OwnInv, [Next]_vars
  PROVE  BaseInv'
<1>1. CASE UNCHANGED vars
  BY <1>1 DEF vars, membership, BaseInv, TypeInv, PlaceInv, RoleInv
<1>2. CASE Next
  <2>1. CASE \E p \in Producers : Sends(p)
    BY <2>1, SendsBase DEF OwnInv
  <2>2. CASE \E p \in Producers : Claim(p) \/ Deposit(p) \/ Deposited(p)
    BY <2>2, JoinsBase
  <2>3. CASE \E s \in Senders : Leaves(s)
    BY <2>3, LeavesBase
  <2>4. CASE Register \/ HandleDrop \/ SkipLingering
    <3>1. 1 \in Producers
      BY BoundsAssumption DEF Producers
    <3> QED
      BY <2>4, <3>1, JoinsBase
  <2>5. CASE Receives
    BY <2>5, ReceivesBase
  <2> QED
    BY <1>1, <1>2, <2>1, <2>2, <2>3, <2>4, <2>5, NextIs
<1> QED
  BY <1>1, <1>2

-----------------------------------------------------------------------------
(* Ownership is kept.                                                      *)

\* No sender changes its place.
SamePlaces ==
  /\ prod' \in [Senders -> SenderState]
  /\ \A s \in Senders : /\ prod'[s].pc = prod[s].pc /\ prod'[s].ring = prod[s].ring
                        /\ prod'[s].after = prod[s].after

\* A step of the receiver that touches at most ring r (none, if r is 0).
LEMMA ReceiverTouches ==
  ASSUME TypeInv, OwnInv, NEW r \in Rings \cup {0}, RingOnly(r), SamePlaces,
         \A p \in Producers : prod[p].woken => prod'[p].woken,
         r \in Rings =>
           /\ ring'[r].arc = ring[r].arc /\ ring'[r].producer_gone = ring[r].producer_gone
           /\ ToSet(ring'[r].q) \subseteq ToSet(ring[r].q) /\ (ring[r].q = <<>> => ring'[r].q = <<>>)
           /\ space'[r].waker \in {space[r].waker, NoTask}
           /\ ~space'[r].needs_clear => space'[r] = Unarmed,
         UNCHANGED <<tier, free>>, ListInv',
         \/ rx' = rx /\ shards' = shards
         \/ /\ rx.pc \in {"space", "spacewake"} => rx.at = r
            /\ rx.pc = "shutnotify" => Head(shards) = r,
         \A p \in Producers :
           Waits(p) /\ Waits(p)' /\ Registered(p) /\ prod[p].ring = r /\ r \in Rings /\ ~ring[r].producer_gone =>
             Registered(p)' /\ (prod[p].pc = "pending" => Notice(p)')
  PROVE  OwnInv'
<1> USE Names
<1>1. /\ HoldInv /\ UseInv /\ CleanInv /\ WaitInv
      /\ \A p \in Producers : Active(p) => Holds(p) /\ prod[p].ring \in Rings
  BY DEF OwnInv, HoldInv, Holds
<1>2. /\ \A p \in Producers : (Active(p)' <=> Active(p)) /\ (Holds(p)' <=> Holds(p))
      /\ \A p \in Producers : prod'[p].ring = prod[p].ring /\ prod'[p].pc = prod[p].pc
      /\ prod'[Handle].pc = prod[Handle].pc /\ prod'[Handle].ring = prod[Handle].ring
  BY DEF SamePlaces, Active, Holds
<1>3. \A o \in Rings : Depositing(o)' <=> Depositing(o)
  BY <1>2 DEF Depositing
<1>4. ASSUME NEW o \in Rings
      PROVE  /\ ring'[o].arc = ring[o].arc /\ ring'[o].producer_gone = ring[o].producer_gone
             /\ ToSet(ring'[o].q) \subseteq ToSet(ring[o].q) /\ (ring[o].q = <<>> => ring'[o].q = <<>>)
             /\ space'[o].waker \in {space[o].waker, NoTask}
             /\ ~space'[o].needs_clear => space'[o] = Unarmed
  BY <1>1 DEF RingOnly, CleanInv
<1>5. HoldInv'
  <2> SUFFICES ASSUME NEW p \in Producers, Holds(p)'
               PROVE  /\ prod'[p].ring \in Rings /\ ring'[prod'[p].ring].arc /\ prod'[p].ring \notin free'
                      /\ ~Depositing(prod[p].ring)'
                      /\ \A o \in Producers : Holds(o)' /\ prod'[o].ring = prod'[p].ring => o = p
    BY DEF HoldInv
  <2>1. /\ prod[p].ring \in Rings /\ ring[prod[p].ring].arc /\ prod[p].ring \notin free
        /\ ~Depositing(prod[p].ring)
        /\ \A o \in Producers : Holds(o) /\ prod[o].ring = prod[p].ring => o = p
    BY <1>1, <1>2 DEF HoldInv
  <2>2. ~Depositing(prod[p].ring)'
    BY <1>2, <2>1 DEF Depositing
  <2> QED
    BY <1>2, <1>4, <2>1, <2>2
<1>6. UseInv'
  <2> SUFFICES ASSUME NEW p \in Producers, Active(p)'
               PROVE  /\ ToSet(ring'[prod'[p].ring].q) \subseteq {p} /\ ~ring'[prod'[p].ring].producer_gone
                      /\ space'[prod'[p].ring].waker \in {p, NoTask}
    BY DEF UseInv
  <2>1. /\ prod[p].ring \in Rings /\ ToSet(ring[prod[p].ring].q) \subseteq {p}
        /\ ~ring[prod[p].ring].producer_gone /\ space[prod[p].ring].waker \in {p, NoTask}
    BY <1>1, <1>2 DEF UseInv
  <2>2. /\ ToSet(ring'[prod[p].ring].q) \subseteq ToSet(ring[prod[p].ring].q)
        /\ ring'[prod[p].ring].producer_gone = ring[prod[p].ring].producer_gone
        /\ space'[prod[p].ring].waker \in {space[prod[p].ring].waker, NoTask}
    BY <1>4, <2>1
  <2>3. prod'[p].ring = prod[p].ring
    BY <1>2
  <2> QED
    BY <2>1, <2>2, <2>3
<1>7. CleanInv'
  <2>1. ASSUME NEW o \in Rings, Depositing(o)' \/ o \in free' PROVE Clean(o)'
    <3>1. Clean(o)
      BY <1>1, <1>3, <2>1 DEF CleanInv
    <3> QED
      BY <1>4, <3>1 DEF Clean
  <2> QED
    BY <1>1, <1>2, <1>4, <2>1 DEF CleanInv
<1>8. WaitInv'
  <2> SUFFICES ASSUME NEW p \in Producers, Waits(p)'
               PROVE  Registered(p)' /\ (prod'[p].pc = "pending" => Notice(p)')
    BY DEF WaitInv
  <2>1. Waits(p) /\ Active(p)
    BY <1>2 DEF Waits, Active
  <2>2. Registered(p) /\ (prod[p].pc = "pending" => Notice(p)) /\ prod[p].ring \in Rings
        /\ ~ring[prod[p].ring].producer_gone
    BY <1>1, <2>1 DEF WaitInv, UseInv
  <2>3. CASE prod[p].ring = r
    BY <1>2, <2>1, <2>2, <2>3
  <2>4. CASE prod[p].ring # r
    <3>1. ring'[prod'[p].ring] = ring[prod[p].ring] /\ space'[prod'[p].ring] = space[prod[p].ring]
      BY <1>2, <2>2, <2>4, ZenonT(60) DEF RingOnly
    <3>2. CASE rx' = rx /\ shards' = shards
      BY <1>2, <2>2, <3>1, <3>2 DEF Registered, Notice, IsFull, RingOf
    <3>3. CASE /\ rx.pc \in {"space", "spacewake"} => rx.at = r
               /\ rx.pc = "shutnotify" => Head(shards) = r
      <4>1. space[prod[p].ring].waker = p /\ space[prod[p].ring].waiting
        BY <2>2, <2>4, <3>3 DEF Registered
      <4>2. prod[p].pc = "pending" => IsFull(p) /\ ~RingOf(p).consumer_gone
        BY <2>2, <2>4, <3>3 DEF Notice
      <4> QED
        BY <1>2, <3>1, <4>1, <4>2 DEF Registered, Notice, IsFull, RingOf
    <3> QED
      BY <3>2, <3>3
  <2> QED
    BY <2>3, <2>4
<1> QED
  BY <1>5, <1>6, <1>7, <1>8 DEF OwnInv

\* A step on the receiver's own state.
LEMMA TurnsOwn ==
  ASSUME BaseInv, OwnInv, Turns
  PROVE  OwnInv'
<1>1. /\ rx.pc \notin {"space", "spacewake", "shutnotify"}
      /\ UNCHANGED mine /\ UNCHANGED <<shards, inbox>>
  BY TurnsIs
<1>2. TypeInv /\ ring \in [Rings -> RingState] /\ space \in [Rings -> WaiterState(Producers)]
      /\ prod \in [Senders -> SenderState]
  BY DEF BaseInv, TypeInv
<1>3. RingOnly(0) /\ SamePlaces /\ 0 \notin Rings /\ Producers \subseteq Senders
  BY <1>1, <1>2, Names DEF RingOnly, SamePlaces, mine
<1>4. ListInv'
  BY <1>1 DEF OwnInv, ListInv, mine
<1> QED
  BY <1>1, <1>2, <1>3, <1>4, ReceiverTouches DEF mine

\* The lists stay, and no ring in them is filled.
LEMMA ListsKept ==
  ASSUME TypeInv, OwnInv, UNCHANGED <<shards, freelist>>, inbox'.queue = inbox.queue,
         \A r \in Rings : /\ ring'[r].producer_gone = ring[r].producer_gone
                          /\ ring[r].q = <<>> => ring'[r].q = <<>>
  PROVE  ListInv'
<1>1. \A r \in ToSet(freelist) : r \in Rings
  BY ToSetType DEF TypeInv
<1> QED
  BY <1>1 DEF OwnInv, ListInv

\* The ring that was drained, and the notification of its sender.
LEMMA VisitOwn ==
  ASSUME BaseInv, OwnInv, Drain \/ NotifySpace \/ WakeSpace
  PROVE  OwnInv'
<1>1. /\ TypeInv /\ ring \in [Rings -> RingState] /\ space \in [Rings -> WaiterState(Producers)]
      /\ prod \in [Senders -> SenderState] /\ Producers \subseteq Senders
  BY Names DEF BaseInv, TypeInv
<1>2. \A r \in Rings : /\ ring[r].q \in Seq(Producers) /\ space[r] \in WaiterState(Producers)
                       /\ ~space[r].needs_clear => space[r] = Unarmed
  BY <1>1 DEF RingState, OwnInv, CleanInv
<1>3. CASE Drain
  <2>1. PICK r \in Rings : \E n \in 1 .. Len(ring[r].q) :
           /\ rx.pc = "visit" /\ r = shards[At] /\ r \in ToSet(shards) /\ RingOnly(r)
           /\ ring'[r].q = SubSeq(ring[r].q, n + 1, Len(ring[r].q))
           /\ ring'[r].producer_gone = ring[r].producer_gone /\ ring'[r].arc = ring[r].arc
           /\ ring'[r].consumer_gone = ring[r].consumer_gone
           /\ rx' \in ReceiverState /\ rx'.pc = "space" /\ rx'.at = r /\ rx'.mode = rx.mode
           /\ rx'.phase = rx.phase /\ rx'.woken = rx.woken /\ rx'.seen = rx.seen /\ rx'.loaded = rx.loaded
           /\ rx.mode = "one" => /\ rx'.staging = rx.staging \o SubSeq(ring[r].q, 1, n)
                                 /\ rx'.pushed = rx.pushed /\ got' = got
           /\ rx.mode # "one" =>
                /\ rx'.staging = rx.staging /\ rx'.pushed = rx.pushed + n
                /\ got' = [p \in Producers |-> got[p] + Count(p, SubSeq(ring[r].q, 1, n))]
           /\ UNCHANGED <<tier, live, notifier, space, prod, shards, free, inbox, freelist>>
    BY <1>3, DrainIs
  <2>2. PICK n \in 1 .. Len(ring[r].q) :
           /\ rx.pc = "visit" /\ RingOnly(r)
           /\ ring'[r].q = SubSeq(ring[r].q, n + 1, Len(ring[r].q))
           /\ ring'[r].producer_gone = ring[r].producer_gone /\ ring'[r].arc = ring[r].arc
           /\ rx'.pc = "space" /\ rx'.at = r
           /\ UNCHANGED <<tier, space, prod, shards, free, inbox, freelist>>
    BY <2>1
  <2>3. ring[r].q # <<>> /\ ToSet(ring'[r].q) \subseteq ToSet(ring[r].q)
    BY <1>2, <2>2, SliceSet
  <2>4. ListInv'
    BY <1>1, <2>2, <2>3, ListsKept DEF RingOnly
  <2>5. SamePlaces
    BY <1>1, <2>2 DEF SamePlaces
  <2>6. ASSUME NEW p \in Producers, Waits(p), Registered(p), prod[p].ring = r
        PROVE  Registered(p)' /\ Notice(p)'
    BY <2>2, <2>6 DEF Registered, Notice
  <2> QED
    BY <1>1, <1>2, <2>2, <2>3, <2>4, <2>5, <2>6, ReceiverTouches
<1>4. CASE NotifySpace
  <2> DEFINE r == rx.at
  <2>1. /\ rx.pc = "space" /\ r \in Rings /\ RingOnly(r) /\ ring' = ring
        /\ space'[r] = Disarmed(space[r])
        /\ space[r].waiting => rx'.pc = "spacewake" /\ rx'.at = r
        /\ UNCHANGED <<tier, prod, shards, free, inbox, freelist>>
    BY <1>4, NotifySpaceIs
  <2> HIDE DEF r
  <2>2. space'[r].waker = space[r].waker /\ (~space'[r].needs_clear => space'[r] = Unarmed)
    BY <1>2, <2>1, WaiterIs
  <2>3. ListInv'
    BY <1>1, <2>1, ListsKept
  <2>4. SamePlaces
    BY <1>1, <2>1 DEF SamePlaces
  <2>5. ASSUME NEW p \in Producers, Waits(p), Registered(p), prod[p].ring = r
        PROVE  Registered(p)' /\ Notice(p)'
    <3>1. space[r].waiting /\ space[r].waker = p
      BY <2>1, <2>5 DEF Registered
    <3> QED
      BY <2>1, <2>2, <2>5, <3>1 DEF Registered, Notice
  <2>6. r = rx.at
    BY DEF r
  <2> QED
    BY <1>1, <2>1, <2>2, <2>3, <2>4, <2>5, <2>6, ReceiverTouches
<1>5. CASE WakeSpace
  <2> DEFINE r == rx.at
  <2>1. /\ rx.pc = "spacewake" /\ r \in Rings /\ RingOnly(r) /\ ring' = ring
        /\ space'[r] = Taken(space[r]) /\ Wakes(space[r])
        /\ UNCHANGED <<tier, shards, free, inbox, freelist>>
    BY <1>5, WakeSpaceIs
  <2> HIDE DEF r
  <2>2. space'[r].waker = NoTask /\ (~space'[r].needs_clear => space'[r] = Unarmed)
    BY <1>2, <2>1, WaiterIs
  <2>3. ListInv'
    BY <1>1, <2>1, ListsKept
  <2>4. SamePlaces /\ \A p \in Producers : prod[p].woken => prod'[p].woken
    BY <1>1, <2>1 DEF SamePlaces, Wakes
  <2>5. ASSUME NEW p \in Producers, Registered(p), prod[p].ring = r
        PROVE  ~Waits(p)'
    BY <2>1, <2>5 DEF Registered, Waits, Wakes
  <2>6. r = rx.at
    BY DEF r
  <2> QED
    BY <1>1, <2>1, <2>2, <2>3, <2>4, <2>5, <2>6, ReceiverTouches
<1> QED
  BY <1>3, <1>4, <1>5

\* The lists when the receiver takes the inbox, prunes a shard or shuts.
LEMMA ListsOwn ==
  ASSUME BaseInv, OwnInv, AppendInbox \/ Prune \/ ShutShard \/ ShutNotify \/ DropInbox
  PROVE  OwnInv'
<1>1. /\ TypeInv /\ ring \in [Rings -> RingState] /\ space \in [Rings -> WaiterState(Producers)]
      /\ prod \in [Senders -> SenderState] /\ Producers \subseteq Senders /\ 0 \notin Rings
      /\ shards \in Seq(Rings) /\ freelist \in Seq(Rings) /\ inbox \in [queue : Seq(Rings), generation : Nat]
  BY Names DEF BaseInv, TypeInv
<1>2. \A r \in Rings : /\ space[r] \in WaiterState(Producers)
                       /\ ~space[r].needs_clear => space[r] = Unarmed
  BY <1>1 DEF OwnInv, CleanInv
<1>3. ListInv /\ inbox.queue \in Seq(Rings)
  BY <1>1 DEF OwnInv
<1>4. prod' = prod => SamePlaces
  BY <1>1 DEF SamePlaces
<1>5. CASE AppendInbox
  <2>1. /\ rx.pc = "append" /\ shards' = shards \o inbox.queue /\ inbox'.queue = <<>>
        /\ UNCHANGED <<tier, live, ring, space, prod, free, freelist>>
    BY <1>1, <1>5, AppendInboxIs DEF mine
  <2>2. ToSet(shards') = ToSet(shards) \cup ToSet(inbox.queue) /\ Distinct(shards')
    BY <1>1, <1>3, <2>1, JoinIs DEF ListInv
  <2>3. ListInv'
    BY <1>3, <2>1, <2>2, EmptyIs DEF ListInv
  <2>4. RingOnly(0)
    BY <1>1, <2>1 DEF RingOnly
  <2> QED
    BY <1>1, <1>4, <2>1, <2>3, <2>4, ReceiverTouches
<1>6. CASE Prune
  <2>1. PICK r \in Rings :
           /\ r = shards[At] /\ r \in ToSet(shards) /\ Finished(r) /\ rx.pc = "finished" /\ shards # <<>>
           /\ shards' = SwapRemove(shards, At)
           /\ \/ freelist' = Append(freelist, r) /\ UNCHANGED <<ring, space>>
              \/ /\ RingOnly(r) /\ ring'[r].q = ring[r].q /\ ring'[r].producer_gone = ring[r].producer_gone
                 /\ ring'[r].arc = ring[r].arc /\ space'[r] = Disarmed(space[r]) /\ freelist' = freelist
           /\ UNCHANGED <<tier, live, notifier, prod, free, inbox, got>>
    BY <1>6, PruneIs
  <2>2. Distinct(shards') /\ ToSet(shards') = ToSet(shards) \ {r}
    <3>1. At \in 1 .. Len(shards)
      BY <1>1, <2>1, AtIs
    <3> QED
      BY <1>1, <1>3, <2>1, <3>1, SwapRemoveIs, SMTT(30) DEF ListInv
  <2>3. ring[r].producer_gone /\ ring[r].q = <<>>
    BY <2>1 DEF Finished
  <2>4. \A o \in ToSet(freelist) : o \in Rings
    BY <1>1, ToSetType
  <2>5. CASE freelist' = Append(freelist, r) /\ UNCHANGED <<ring, space>>
    <3>1. Distinct(freelist') /\ ToSet(freelist') = ToSet(freelist) \cup {r}
      BY <1>1, <1>3, <2>1, <2>5, AppendIs DEF ListInv
    <3>2. ListInv'
      BY <1>3, <2>1, <2>2, <2>3, <2>5, <3>1 DEF ListInv
    <3>3. RingOnly(0)
      BY <1>1, <2>5 DEF RingOnly
    <3> QED
      BY <1>1, <1>4, <2>1, <3>2, <3>3, ReceiverTouches
  <2>6. CASE /\ RingOnly(r) /\ ring'[r].q = ring[r].q /\ ring'[r].producer_gone = ring[r].producer_gone
             /\ ring'[r].arc = ring[r].arc /\ space'[r] = Disarmed(space[r]) /\ freelist' = freelist
    <3>1. ListInv'
      <4>1. \A o \in Rings : ring'[o].producer_gone = ring[o].producer_gone /\ ring'[o].q = ring[o].q
        BY <2>6 DEF RingOnly
      <4> QED
        BY <1>3, <2>1, <2>2, <2>4, <2>6, <4>1 DEF ListInv
    <3>2. space'[r].waker = space[r].waker /\ (~space'[r].needs_clear => space'[r] = Unarmed)
      BY <1>2, <2>6, WaiterIs
    <3> QED
      BY <1>1, <1>4, <2>1, <2>3, <2>6, <3>1, <3>2, ReceiverTouches
  <2> QED
    BY <2>1, <2>5, <2>6
<1>7. CASE ShutShard
  <2> DEFINE r == IF shards = <<>> THEN 0 ELSE Head(shards)
  <2>1. /\ rx.pc = "shut" /\ r \in Rings \cup {0} /\ RingOnly(r)
        /\ r \in Rings => /\ rx'.pc = "shutnotify" /\ Head(shards) = r /\ ring'[r].q = ring[r].q
                          /\ ring'[r].arc = ring[r].arc /\ ring'[r].producer_gone = ring[r].producer_gone
        /\ UNCHANGED <<tier, live, notifier, space, prod, shards, free, inbox, freelist, got>>
    <3>1. CASE shards = <<>>
      BY <1>1, <1>7, <3>1, ShutShardIs DEF RingOnly
    <3>2. CASE shards # <<>>
      BY <1>7, <3>2, ShutShardIs
    <3> QED
      BY <3>1, <3>2
  <2> HIDE DEF r
  <2>2. \A o \in Rings : ring'[o].producer_gone = ring[o].producer_gone /\ ring'[o].q = ring[o].q
    BY <2>1 DEF RingOnly
  <2>3. ListInv'
    BY <1>1, <2>1, <2>2, ListsKept
  <2>4. ASSUME NEW p \in Producers, Registered(p), prod[p].ring = r, r \in Rings
        PROVE  Registered(p)' /\ Notice(p)'
    BY <2>1, <2>4 DEF Registered, Notice
  <2>5. \A o \in Rings : space'[o].waker = space[o].waker /\ (~space'[o].needs_clear => space'[o] = Unarmed)
    BY <1>2, <2>1
  <2> QED
    BY <1>1, <1>4, <2>1, <2>3, <2>4, <2>5, ReceiverTouches
<1>8. CASE ShutNotify
  <2> DEFINE r == Head(shards)
  <2>1. /\ rx.pc = "shutnotify" /\ shards # <<>> /\ r \in Rings /\ shards' = Tail(shards)
        /\ RingOnly(r) /\ ring' = ring /\ space'[r] = Notified(space[r]) /\ Wakes(Woken(space[r]))
        /\ UNCHANGED <<tier, live, notifier, free, inbox, freelist, got>>
    BY <1>8, ShutNotifyIs
  <2>2. Distinct(shards') /\ ToSet(shards') \subseteq ToSet(shards)
    BY <1>1, <1>3, <2>1, TailIs DEF ListInv
  <2>3. ListInv'
    BY <1>3, <2>1, <2>2 DEF ListInv
  <2>4. space'[r].waker \in {space[r].waker, NoTask} /\ (~space'[r].needs_clear => space'[r] = Unarmed)
    BY <1>2, <2>1, WaiterIs
  <2>5. SamePlaces /\ \A p \in Producers : prod[p].woken => prod'[p].woken
    BY <1>1, <2>1 DEF SamePlaces, Wakes
  <2>6. ASSUME NEW p \in Producers, Registered(p), prod[p].ring = r PROVE ~Waits(p)'
    BY <2>1, <2>6 DEF Registered, Waits, Wakes, Woken
  <2>7. Head(shards) = r
    OBVIOUS
  <2> HIDE DEF r
  <2> QED
    BY <1>1, <2>1, <2>3, <2>4, <2>5, <2>6, <2>7, ReceiverTouches
<1>9. CASE DropInbox
  <2>1. PICK r \in Rings :
           /\ rx.pc = "gone" /\ inbox.queue # <<>> /\ r = Head(inbox.queue) /\ inbox'.queue = Tail(inbox.queue)
           /\ RingOnly(r) /\ ring'[r].q = ring[r].q /\ ring'[r].arc = ring[r].arc
           /\ ring'[r].producer_gone = ring[r].producer_gone
           /\ space'[r] = Notified(space[r]) /\ Wakes(Woken(space[r]))
           /\ UNCHANGED <<tier, live, notifier, shards, rx, free, freelist, got>>
    BY <1>9, DropInboxIs
  <2>2. Distinct(inbox'.queue) /\ ToSet(inbox'.queue) \subseteq ToSet(inbox.queue)
    BY <1>3, <2>1, TailIs DEF ListInv
  <2>3. ListInv'
    <3>1. \A o \in Rings : ring'[o].producer_gone = ring[o].producer_gone /\ ring'[o].q = ring[o].q
      BY <2>1 DEF RingOnly
    <3>2. \A o \in ToSet(freelist) : o \in Rings
      BY <1>1, ToSetType
    <3> QED
      BY <1>3, <2>1, <2>2, <3>1, <3>2 DEF ListInv
  <2>4. space'[r].waker \in {space[r].waker, NoTask} /\ (~space'[r].needs_clear => space'[r] = Unarmed)
    BY <1>2, <2>1, WaiterIs
  <2>5. SamePlaces /\ \A p \in Producers : prod[p].woken => prod'[p].woken
    BY <1>1, <2>1 DEF SamePlaces, Wakes
  <2>6. ASSUME NEW p \in Producers, Registered(p), prod[p].ring = r PROVE ~Waits(p)'
    BY <2>1, <2>6 DEF Registered, Waits, Wakes, Woken
  <2> QED
    BY <1>1, <2>1, <2>3, <2>4, <2>5, <2>6, ReceiverTouches
<1> QED
  BY <1>5, <1>6, <1>7, <1>8, <1>9

\* A ring that nobody holds is made ready for the next producer.
LEMMA FreshOwn ==
  ASSUME TypeInv, OwnInv, NEW r \in Rings, RingOnly(r), \A p \in Producers : Holds(p) => prod[p].ring # r,
         \A p \in Producers : prod'[p] = prod[p],
         \A o \in Rings : Depositing(o)' => Depositing(o) \/ o = r,
         prod'[Handle].pc = "deposit" => prod'[Handle].ring \in Rings,
         free' \subseteq free \cup {r}, tier' = tier, tier # "pool" => free' = {},
         Clean(r)', ~space'[r].needs_clear => space'[r] = Unarmed, ListInv',
         (rx' = rx /\ shards' = shards) \/ rx.pc \notin {"space", "spacewake", "shutnotify"}
  PROVE  OwnInv'
<1>1. HoldInv /\ UseInv /\ CleanInv /\ WaitInv
  BY DEF OwnInv
<1>2. \A p \in Producers : (Active(p)' <=> Active(p)) /\ (Holds(p)' <=> Holds(p)) /\ (Active(p) => Holds(p))
  BY DEF Active, Holds
<1>3. ASSUME NEW p \in Producers, Holds(p)
      PROVE  /\ prod[p].ring \in Rings /\ prod[p].ring # r /\ prod'[p] = prod[p]
             /\ ring'[prod[p].ring] = ring[prod[p].ring] /\ space'[prod[p].ring] = space[prod[p].ring]
  BY <1>1, <1>3 DEF HoldInv, RingOnly
<1>4. HoldInv'
  <2> SUFFICES ASSUME NEW p \in Producers, Holds(p)'
               PROVE  /\ prod'[p].ring \in Rings /\ ring'[prod'[p].ring].arc /\ prod'[p].ring \notin free'
                      /\ ~Depositing(prod[p].ring)'
                      /\ \A o \in Producers : Holds(o)' /\ prod'[o].ring = prod'[p].ring => o = p
    BY DEF HoldInv
  <2>1. /\ prod[p].ring \in Rings /\ ring[prod[p].ring].arc /\ prod[p].ring \notin free
        /\ ~Depositing(prod[p].ring)
        /\ \A o \in Producers : Holds(o) /\ prod[o].ring = prod[p].ring => o = p
    BY <1>1, <1>2 DEF HoldInv
  <2>2. prod[p].ring # r /\ prod'[p] = prod[p] /\ ring'[prod[p].ring] = ring[prod[p].ring]
    BY <1>2, <1>3
  <2>3. ~Depositing(prod[p].ring)'
    <3> DEFINE o == prod[p].ring
    <3>1. o \in Rings /\ ~Depositing(o) /\ o # r
      BY <2>1, <2>2
    <3>2. ~(prod'[Handle].pc = "deposit" /\ prod'[Handle].ring = o)
      <4> HIDE DEF o
      <4> QED
        BY <3>1 DEF Depositing
    <3> QED
      BY <2>2, <3>2 DEF Depositing
  <2> QED
    BY <1>2, <2>1, <2>2, <2>3
<1>5. UseInv'
  BY <1>1, <1>2, <1>3 DEF UseInv
<1>6. CleanInv'
  <2>1. ASSUME NEW o \in Rings, Depositing(o)' \/ o \in free' PROVE Clean(o)'
    <3>1. CASE o = r
      BY <3>1
    <3>2. CASE o # r
      <4>1. Clean(o) /\ ring'[o] = ring[o] /\ space'[o] = space[o]
        BY <1>1, <2>1, <3>2 DEF CleanInv, RingOnly
      <4> QED
        BY <4>1 DEF Clean
    <3> QED
      BY <3>1, <3>2
  <2>2. \A o \in Rings : ~space'[o].needs_clear => space'[o] = Unarmed
    BY <1>1 DEF CleanInv, RingOnly
  <2> QED
    BY <2>1, <2>2 DEF CleanInv
<1>7. WaitInv'
  <2> SUFFICES ASSUME NEW p \in Producers, Waits(p)'
               PROVE  Registered(p)' /\ (prod'[p].pc = "pending" => Notice(p)')
    BY DEF WaitInv
  <2>1. Waits(p) /\ Active(p)
    BY DEF Waits, Active
  <2>2. Registered(p) /\ (prod[p].pc = "pending" => Notice(p))
    BY <1>1, <2>1 DEF WaitInv
  <2>3. prod'[p] = prod[p] /\ ring'[prod[p].ring] = ring[prod[p].ring] /\ space'[prod[p].ring] = space[prod[p].ring]
    BY <1>2, <1>3, <2>1
  <2> QED
    BY <2>2, <2>3 DEF Registered, Notice, IsFull, RingOf
<1> QED
  BY <1>4, <1>5, <1>6, <1>7 DEF OwnInv

\* A ring is handed to a new producer.
LEMMA JoinOwn ==
  ASSUME TypeInv, OwnInv, NEW p \in Producers, NEW r \in Rings, Clean(r),
         \A o \in Producers : Holds(o) => prod[o].ring # r,
         \A o \in Producers : o # p => prod'[o] = prod[o],
         prod'[p].pc = "idle", prod'[p].ring = r,
         \A o \in Rings : Depositing(o)' => Depositing(o) /\ o # r,
         prod'[Handle].pc = "deposit" => prod'[Handle].ring \in Rings,
         free' \subseteq free, r \notin free', inbox'.queue = inbox.queue,
         UNCHANGED <<tier, ring, space, shards, rx, freelist>>
  PROVE  OwnInv'
<1>1. HoldInv /\ UseInv /\ CleanInv /\ WaitInv
  BY DEF OwnInv
<1>2. \A o \in Producers : o # p => /\ (Active(o)' <=> Active(o)) /\ (Holds(o)' <=> Holds(o)) /\ (Active(o) => Holds(o))
                                    /\ (Waits(o)' <=> Waits(o)) /\ (Waits(o) => Active(o))
  BY DEF Active, Holds, Waits
<1>3. HoldInv'
  <2> SUFFICES ASSUME NEW o \in Producers, Holds(o)'
               PROVE  /\ prod'[o].ring \in Rings /\ ring'[prod'[o].ring].arc /\ prod'[o].ring \notin free'
                      /\ ~Depositing(prod[o].ring)'
                      /\ \A z \in Producers : Holds(z)' /\ prod'[z].ring = prod'[o].ring => z = o
    BY DEF HoldInv
  <2>0. \A z \in Producers : Depositing(prod[z].ring)' <=> prod'[Handle].pc = "deposit" /\ prod'[Handle].ring = prod'[z].ring
    BY DEF Depositing
  <2>1. \A x \in Rings : prod'[Handle].pc = "deposit" /\ prod'[Handle].ring = x => Depositing(x) /\ x # r
    BY DEF Depositing
  <2>2. \A z \in Producers : z # p /\ Holds(z)' => prod'[z].ring # r
    BY <1>2
  <2>3. CASE o = p
    <3>1. \A z \in Producers : Holds(z)' /\ prod'[z].ring = prod'[o].ring => z = o
      BY <2>2, <2>3
    <3>2. ~Depositing(prod[o].ring)'
      BY <2>0, <2>1, <2>3
    <3> QED
      BY <2>3, <3>1, <3>2 DEF Clean
  <2>4. CASE o # p
    <3>1. /\ prod[o].ring \in Rings /\ ring[prod[o].ring].arc /\ prod[o].ring \notin free
          /\ ~Depositing(prod[o].ring) /\ prod'[o] = prod[o] /\ prod[o].ring # r
          /\ \A z \in Producers : Holds(z) /\ prod[z].ring = prod[o].ring => z = o
      BY <1>1, <1>2, <2>4 DEF HoldInv
    <3>2. ~Depositing(prod[o].ring)'
      BY <2>0, <2>1, <3>1
    <3>3. ASSUME NEW z \in Producers, Holds(z)', prod'[z].ring = prod'[o].ring PROVE z = o
      BY <1>2, <3>1, <3>3
    <3> QED
      BY <3>1, <3>2, <3>3
  <2> QED
    BY <2>3, <2>4
<1>4. UseInv'
  <2> SUFFICES ASSUME NEW o \in Producers, Active(o)'
               PROVE  /\ ToSet(ring'[prod'[o].ring].q) \subseteq {o} /\ ~ring'[prod'[o].ring].producer_gone
                      /\ space'[prod'[o].ring].waker \in {o, NoTask}
    BY DEF UseInv
  <2>1. CASE o = p
    BY <2>1, EmptyIs DEF Clean
  <2>2. CASE o # p
    BY <1>1, <1>2, <2>2 DEF UseInv
  <2> QED
    BY <2>1, <2>2
<1>5. CleanInv'
  <2>1. ASSUME NEW o \in Rings, Depositing(o)' \/ o \in free' PROVE Clean(o)'
    <3>1. Clean(o)
      BY <1>1, <2>1 DEF CleanInv
    <3> QED
      BY <3>1 DEF Clean
  <2> QED
    BY <1>1, <2>1 DEF CleanInv
<1>6. ListInv'
  BY DEF OwnInv, ListInv
<1>7. WaitInv'
  <2> SUFFICES ASSUME NEW o \in Producers, Waits(o)'
               PROVE  Registered(o)' /\ (prod'[o].pc = "pending" => Notice(o)')
    BY DEF WaitInv
  <2>1. o # p
    BY DEF Waits
  <2>2. Registered(o) /\ (prod[o].pc = "pending" => Notice(o)) /\ prod'[o] = prod[o]
    BY <1>1, <1>2, <2>1 DEF WaitInv
  <2> QED
    BY <2>2 DEF Registered, Notice, IsFull, RingOf
<1> QED
  BY <1>3, <1>4, <1>5, <1>6, <1>7 DEF OwnInv

\* A sender that holds no ring goes its way.
LEMMA Bystander ==
  ASSUME TypeInv, OwnInv, NEW s \in Senders, Others(s), s \in Producers => ~Holds(s)',
         s = Handle => prod'[s].pc # "deposit",
         rx'.pc = rx.pc, rx'.at = rx.at, UNCHANGED <<ring, space, free>>, UNCHANGED rest
  PROVE  OwnInv'
<1> USE Names
<1>1. HoldInv /\ UseInv /\ CleanInv /\ WaitInv
  BY DEF OwnInv
<1>2. /\ \A o \in Producers : Holds(o)' => o # s /\ prod'[o] = prod[o] /\ Holds(o)
      /\ \A o \in Producers : Active(o)' => o # s /\ prod'[o] = prod[o] /\ Active(o)
      /\ \A o \in Producers : Waits(o)' => o # s /\ prod'[o] = prod[o] /\ Waits(o)
  BY DEF Others, Holds, Active, Waits
<1>3. \A x : prod'[Handle].pc = "deposit" /\ prod'[Handle].ring = x => Depositing(x)
  BY DEF Others, Depositing
<1>4. HoldInv'
  <2> SUFFICES ASSUME NEW o \in Producers, Holds(o)'
               PROVE  /\ prod'[o].ring \in Rings /\ ring'[prod'[o].ring].arc /\ prod'[o].ring \notin free'
                      /\ ~Depositing(prod[o].ring)'
                      /\ \A z \in Producers : Holds(z)' /\ prod'[z].ring = prod'[o].ring => z = o
    BY DEF HoldInv
  <2>0. Depositing(prod[o].ring)' <=> prod'[Handle].pc = "deposit" /\ prod'[Handle].ring = prod'[o].ring
    BY DEF Depositing
  <2>1. /\ prod[o].ring \in Rings /\ ring[prod[o].ring].arc /\ prod[o].ring \notin free
        /\ ~Depositing(prod[o].ring) /\ prod'[o] = prod[o]
        /\ \A z \in Producers : Holds(z) /\ prod[z].ring = prod[o].ring => z = o
    BY <1>1, <1>2 DEF HoldInv
  <2> QED
    BY <1>2, <1>3, <2>0, <2>1
<1>5. UseInv'
  BY <1>1, <1>2 DEF UseInv
<1>6. CleanInv'
  <2>1. ASSUME NEW o \in Rings, Depositing(o)' \/ o \in free' PROVE Clean(o)'
    <3>1. Clean(o)
      BY <1>1, <1>3, <2>1 DEF CleanInv, Depositing
    <3> QED
      BY <3>1 DEF Clean
  <2>2. prod'[Handle].pc = "deposit" => prod'[Handle].ring \in Rings
    BY <1>1 DEF CleanInv, Others
  <2> QED
    BY <1>1, <2>1, <2>2 DEF CleanInv, rest
<1>7. ListInv'
  BY DEF OwnInv, ListInv, rest
<1>8. WaitInv'
  <2> SUFFICES ASSUME NEW o \in Producers, Waits(o)'
               PROVE  Registered(o)' /\ (prod'[o].pc = "pending" => Notice(o)')
    BY DEF WaitInv
  <2>1. Registered(o) /\ (prod[o].pc = "pending" => Notice(o)) /\ prod'[o] = prod[o]
    BY <1>1, <1>2 DEF WaitInv
  <2> QED
    BY <2>1 DEF Registered, Notice, IsFull, RingOf, rest
<1> QED
  BY <1>4, <1>5, <1>6, <1>7, <1>8 DEF OwnInv

\* A pool slot is reset.
LEMMA RecycleOwn ==
  ASSUME BaseInv, OwnInv, Recycle
  PROVE  OwnInv'
<1>1. /\ TypeInv /\ ring \in [Rings -> RingState] /\ space \in [Rings -> WaiterState(Producers)]
      /\ prod \in [Senders -> SenderState] /\ Producers \subseteq Senders /\ 0 \notin Rings /\ Handle \in Senders
      /\ freelist \in Seq(Rings)
  BY Names DEF BaseInv, TypeInv
<1>2. HoldInv /\ CleanInv /\ ListInv
  BY DEF OwnInv
<1>3. PICK r \in Rings :
           /\ r \in ToSet(shards) /\ tier = "pool" /\ rx.pc = "finished"
           /\ \/ ring[r].arc /\ UNCHANGED <<ring, space, free>>
              \/ /\ ~ring[r].arc /\ RingOnly(r) /\ ring'[r] = FreshRing /\ space'[r] = Cleared(space[r])
                 /\ free' = free \cup {r}
           /\ UNCHANGED <<tier, live, notifier, prod, shards, inbox, freelist, got>>
  BY RecycleIs
<1>4. \A o \in ToSet(freelist) : o \in Rings /\ o # r
  BY <1>1, <1>2, <1>3, ToSetType DEF ListInv
<1>5. CASE UNCHANGED <<ring, space, free>>
  <2>1. RingOnly(0) /\ SamePlaces
    BY <1>1, <1>3, <1>5 DEF RingOnly, SamePlaces
  <2>2. ListInv'
    BY <1>2, <1>3, <1>5 DEF ListInv
  <2> QED
    BY <1>1, <1>3, <1>5, <2>1, <2>2, ReceiverTouches
<1>6. CASE /\ ~ring[r].arc /\ RingOnly(r) /\ ring'[r] = FreshRing /\ space'[r] = Cleared(space[r])
           /\ free' = free \cup {r}
  <2>1. space'[r] = Unarmed
    BY <1>1, <1>2, <1>6, ClearedIs DEF CleanInv
  <2>2. Clean(r)'
    BY <1>6, <2>1 DEF Clean, FreshRing, Unarmed
  <2>3. \A p \in Producers : Holds(p) => prod[p].ring # r
    BY <1>2, <1>6 DEF HoldInv
  <2>4. ListInv'
    BY <1>2, <1>3, <1>4, <1>6 DEF ListInv, RingOnly
  <2>5. /\ \A o \in Rings : Depositing(o)' => Depositing(o)
        /\ prod'[Handle].pc = "deposit" => prod'[Handle].ring \in Rings
    BY <1>2, <1>3 DEF Depositing, CleanInv
  <2> QED
    BY <1>1, <1>3, <1>6, <2>1, <2>2, <2>3, <2>4, <2>5, FreshOwn
<1> QED
  BY <1>3, <1>5, <1>6

\* Producers come, and the registrar works.
LEMMA JoinsOwn ==
  ASSUME BaseInv, OwnInv, NEW p \in Producers,
         Claim(p) \/ Deposit(p) \/ Deposited(p) \/ Register \/ HandleDrop \/ SkipLingering
  PROVE  OwnInv'
<1>1. /\ TypeInv /\ ring \in [Rings -> RingState] /\ space \in [Rings -> WaiterState(Producers)]
      /\ prod \in [Senders -> SenderState] /\ Producers \subseteq Senders /\ 0 \notin Rings /\ Handle \in Senders
      /\ freelist \in Seq(Rings) /\ shards \in Seq(Rings) /\ inbox.queue \in Seq(Rings)
      /\ free \subseteq Rings /\ Handle \notin Producers
  BY Names DEF BaseInv, TypeInv
<1>2. HoldInv /\ UseInv /\ CleanInv /\ ListInv
  BY DEF OwnInv
<1>3. CASE Claim(p)
  <2> DEFINE r == prod'[p].ring
  <2>1. /\ Others(p) /\ tier = "pool" /\ prod[Handle].pc = "idle" /\ r \in free /\ free' = free \ {r}
        /\ prod'[p].pc = "idle" /\ UNCHANGED <<notifier, ring, space, rx>> /\ UNCHANGED rest
    BY <1>1, <1>3, ClaimIs
  <2>2. PICK x \in free : x = r
    BY <2>1
  <2>3. x \in Rings /\ Clean(x) /\ \A o \in Producers : Holds(o) => prod[o].ring # x
    BY <1>1, <1>2 DEF HoldInv, CleanInv
  <2>4. prod'[Handle].pc = "idle" /\ \A o \in Producers : o # p => prod'[o] = prod[o]
    BY <1>1, <2>1 DEF Others
  <2>5. \A o \in Rings : ~Depositing(o)'
    BY <2>4 DEF Depositing
  <2>6. prod'[p].ring = x
    BY <2>2
  <2> HIDE DEF r
  <2> QED
    BY <1>1, <2>1, <2>2, <2>3, <2>4, <2>5, <2>6, JoinOwn DEF rest
<1>4. CASE Deposit(p)
  <2>1. PICK r \in Rings :
           /\ prod[Handle].pc = "take" /\ Others(Handle)
           /\ \/ freelist # <<>> /\ r = Last(freelist) /\ ~ring[r].arc /\ freelist' = Front(freelist)
              \/ ~InMemory(r) /\ freelist' = freelist
           /\ RingOnly(r) /\ ring'[r] = FreshRing /\ space'[r] = Unarmed
           /\ inbox'.queue = Append(inbox.queue, r)
           /\ prod'[Handle].pc = "deposit" /\ prod'[Handle].ring = r
           /\ UNCHANGED <<tier, notifier, shards, rx, free, got>>
    BY <1>1, <1>4, DepositIs
  <2>2. ~ring[r].arc /\ r \notin ToSet(shards) /\ r \notin ToSet(inbox.queue)
    BY <1>1, <1>2, <2>1, FrontIs DEF InMemory, ListInv
  <2>3. Distinct(freelist') /\ ToSet(freelist') \subseteq ToSet(freelist) /\ r \notin ToSet(freelist')
    BY <1>1, <1>2, <2>1, FrontIs DEF InMemory, ListInv
  <2>4. Distinct(inbox'.queue) /\ ToSet(inbox'.queue) = ToSet(inbox.queue) \cup {r}
    BY <1>1, <1>2, <2>1, <2>2, AppendIs DEF ListInv
  <2>5. \A o \in ToSet(freelist') : o \in Rings /\ o # r /\ ring'[o] = ring[o]
    BY <1>1, <2>1, <2>3, ToSetType DEF RingOnly
  <2>6. ListInv'
    BY <1>2, <2>1, <2>2, <2>3, <2>4, <2>5 DEF ListInv
  <2>7. Clean(r)'
    BY <2>1 DEF Clean, FreshRing, Unarmed
  <2>8. \A o \in Producers : (Holds(o) => prod[o].ring # r) /\ prod'[o] = prod[o]
    BY <1>1, <1>2, <2>1, <2>2 DEF HoldInv, Others
  <2>9. \A o \in Rings : Depositing(o)' => o = r
    BY <2>1 DEF Depositing
  <2>10. tier = "dynamic" /\ free = {}
    BY <1>2, <2>1 DEF BaseInv, RoleInv, CleanInv
  <2> QED
    BY <1>1, <2>1, <2>6, <2>7, <2>8, <2>9, <2>10, FreshOwn
<1>5. CASE Deposited(p)
  <2> DEFINE r == prod[Handle].ring
  <2>1. /\ prod[Handle].pc = "deposit" /\ prod'[Handle].pc = "idle"
        /\ \A s \in Senders : s # p /\ s # Handle => prod'[s] = prod[s]
        /\ prod'[p].pc = "idle" /\ prod'[p].ring = r /\ inbox'.queue = inbox.queue
        /\ UNCHANGED <<tier, live, notifier, ring, space, shards, rx, free, freelist, got>>
    BY <1>1, <1>5, DepositedIs
  <2>2. r \in Rings /\ Depositing(r)
    BY <1>2, <2>1 DEF CleanInv, Depositing
  <2>3. Clean(r) /\ \A o \in Producers : Holds(o) => prod[o].ring # r
    BY <1>2, <2>2 DEF CleanInv, HoldInv
  <2>4. \A o \in Producers : o # p => prod'[o] = prod[o]
    BY <1>1, <2>1
  <2>5. \A o \in Rings : ~Depositing(o)'
    BY <2>1 DEF Depositing
  <2>6. free = {}
    BY <1>2, <2>1 DEF BaseInv, RoleInv, CleanInv
  <2> HIDE DEF r
  <2> QED
    BY <1>1, <2>1, <2>2, <2>3, <2>4, <2>5, <2>6, JoinOwn
<1>6. CASE Register \/ HandleDrop
  <2>1. /\ Others(Handle) /\ prod'[Handle].pc # "deposit"
        /\ UNCHANGED <<live, notifier, ring, space, rx, free>> /\ UNCHANGED rest
    BY <1>1, <1>6, HandleIs
  <2> QED
    BY <1>1, <2>1, Bystander
<1>7. CASE SkipLingering
  <2>1. PICK r \in Rings :
           /\ freelist # <<>> /\ r = Last(freelist) /\ freelist' = Front(freelist) /\ RingOnly(r)
           /\ ring'[r].q = ring[r].q /\ ring'[r].producer_gone = ring[r].producer_gone
           /\ ring'[r].arc = ring[r].arc /\ space'[r] = Disarmed(space[r])
           /\ UNCHANGED <<tier, live, notifier, prod, shards, rx, free, inbox, got>>
    BY <1>1, <1>7, SkipLingeringIs
  <2>2. Distinct(freelist') /\ ToSet(freelist') \subseteq ToSet(freelist) /\ r \in ToSet(freelist)
    BY <1>1, <1>2, <2>1, FrontIs DEF ListInv
  <2>3. ring[r].producer_gone
    BY <1>2, <2>2 DEF ListInv
  <2>4. ListInv'
    <3>1. \A o \in Rings : ring'[o].producer_gone = ring[o].producer_gone /\ ring'[o].q = ring[o].q
      BY <2>1 DEF RingOnly
    <3>2. \A o \in ToSet(freelist) : o \in Rings
      BY <1>1, ToSetType
    <3> QED
      BY <1>2, <2>1, <2>2, <3>1, <3>2 DEF ListInv
  <2>5. space'[r].waker = space[r].waker /\ (~space'[r].needs_clear => space'[r] = Unarmed)
    BY <1>1, <1>2, <2>1, WaiterIs DEF CleanInv
  <2>6. SamePlaces
    BY <1>1, <2>1 DEF SamePlaces
  <2> QED
    BY <1>1, <2>1, <2>3, <2>4, <2>5, <2>6, ReceiverTouches
<1> QED
  BY <1>3, <1>4, <1>5, <1>6, <1>7

\* A sender's step on its ring.
LEMMA SendsOwn ==
  ASSUME BaseInv, OwnInv, NEW p \in Producers, Sends(p)
  PROVE  OwnInv'
<1> DEFINE r == prod[p].ring
<1>1. /\ TypeInv /\ RoleInv /\ HoldInv /\ UseInv /\ CleanInv /\ WaitInv /\ r \in Rings /\ Holds(p)
      /\ ring \in [Rings -> RingState] /\ space \in [Rings -> WaiterState(Producers)]
      /\ prod \in [Senders -> SenderState]
  BY Holding DEF BaseInv, OwnInv, TypeInv
<1>2. /\ ring[r].arc /\ ring[r].q \in Seq(Producers) /\ space[r] \in WaiterState(Producers)
      /\ ~space[r].needs_clear => space[r] = Unarmed
      /\ Active(p) => ToSet(ring[r].q) \subseteq {p} /\ ~ring[r].producer_gone /\ space[r].waker \in {p, NoTask}
  BY <1>1 DEF HoldInv, UseInv, CleanInv, RingState
<1>3. Cleared(space[r]) = Unarmed
  BY <1>2, ClearedIs
<1>4. Active(p)' <=> ActiveIn(prod'[p])
  BY ActiveIs
<1>5. CASE Moves(p)
  <2>1. /\ Others(p) /\ ActiveIn(prod[p])
        /\ prod'[p].ring = prod[p].ring /\ prod'[p].pc # "retry"
        /\ prod'[p].pc = "pending" => /\ prod[p].pc = "retry" /\ prod'[p].woken = prod[p].woken
                                      /\ IsFull(p) /\ ~RingOf(p).consumer_gone
        /\ UNCHANGED <<live, notifier, ring, space, rx, free>> /\ UNCHANGED rest
    BY <1>1, <1>5, MovesIs
  <2>2. Active(p)
    BY <2>1, ActiveIs
  <2>3. RingOnly(r)
    BY <1>1, <2>1 DEF RingOnly
  <2>4. ASSUME Waits(p)' PROVE Registered(p)' /\ Notice(p)'
    <3>1. prod'[p].pc = "pending" /\ Waits(p)
      BY <2>1, <2>4 DEF Waits
    <3>2. Registered(p)
      BY <1>1, <3>1 DEF WaitInv
    <3> QED
      BY <2>1, <3>1, <3>2 DEF Registered, Notice, IsFull, RingOf
  <2> QED
    BY <1>1, <1>2, <2>1, <2>2, <2>3, <2>4, SenderMoves DEF rest
<1>6. CASE Push(p)
  <2>1. /\ Others(p) /\ ActiveIn(prod[p]) /\ RingOnly(r)
        /\ prod'[p].ring = prod[p].ring /\ prod'[p].pc \in {"try", "notify"}
        /\ ring'[r].q = Append(ring[r].q, p)
        /\ ring'[r].producer_gone = ring[r].producer_gone /\ ring'[r].arc = ring[r].arc
        /\ space'[r] \in {space[r], Cleared(space[r])}
        /\ UNCHANGED <<live, notifier, rx, free>> /\ UNCHANGED rest
    BY <1>1, <1>6, PushIs
  <2>2. Active(p)
    BY <2>1, ActiveIs
  <2>3. ToSet(ring'[r].q) \subseteq {p}
    BY <1>2, <2>1, <2>2, AppendIs
  <2>4. ~Waits(p)'
    BY <2>1 DEF Waits
  <2>5. space'[r].waker \in {p, NoTask} /\ (~space'[r].needs_clear => space'[r] = Unarmed)
    <3>1. Unarmed.waker = NoTask
      BY DEF Unarmed
    <3>2. CASE space'[r] = space[r]
      BY <1>2, <2>2, <3>2
    <3>3. CASE space'[r] = Cleared(space[r])
      BY <1>3, <3>1, <3>3
    <3> QED
      BY <2>1, <3>2, <3>3
  <2> QED
    BY <1>1, <1>2, <2>1, <2>2, <2>3, <2>4, <2>5, SenderMoves DEF rest
<1>7. CASE ArmSpace(p)
  <2>1. /\ Others(p) /\ ActiveIn(prod[p]) /\ RingOnly(r)
        /\ prod'[p].ring = prod[p].ring /\ prod'[p].pc = "retry" /\ space'[r] = Armed(p)
        /\ UNCHANGED <<live, notifier, ring, rx, free>> /\ UNCHANGED rest
    BY <1>1, <1>7, ArmSpaceIs
  <2>2. Active(p)
    BY <2>1, ActiveIs
  <2>3. space'[r].waker = p /\ space'[r].waiting /\ space'[r].needs_clear
    BY <2>1 DEF Armed
  <2>4. Registered(p)'
    BY <2>1, <2>3 DEF Registered
  <2> QED
    BY <1>1, <1>2, <2>1, <2>2, <2>3, <2>4, SenderMoves DEF rest
<1>8. CASE Yield(p) \/ Done(p) \/ ProducerDrop(p)
  <2>1. /\ Others(p) /\ ActiveIn(prod[p]) /\ RingOnly(r)
        /\ prod'[p].ring = prod[p].ring
        /\ \/ ring' = ring /\ prod'[p].pc = "pending" /\ prod'[p].woken = TRUE
           \/ ring' = ring /\ prod'[p].pc = "idle"
           \/ /\ prod'[p].pc = "unlink" /\ ring'[r].arc = ring[r].arc
              /\ ring'[r].producer_gone /\ ring'[r].q = ring[r].q
        /\ space'[r] = Cleared(space[r])
        /\ UNCHANGED <<live, notifier, rx, free>> /\ UNCHANGED rest
    BY <1>1, <1>8, ClearsIs
  <2>2. Active(p)
    BY <2>1, ActiveIs
  <2>3. ~Waits(p)'
    BY <2>1 DEF Waits
  <2>4. space'[r] = Unarmed /\ space'[r].waker = NoTask
    BY <1>3, <2>1 DEF Unarmed
  <2>5. ring'[r].arc /\ (Active(p)' => ToSet(ring'[r].q) \subseteq {p} /\ ~ring'[r].producer_gone)
    BY <1>2, <1>4, <2>1, <2>2 DEF ActiveIn
  <2> QED
    BY <1>1, <1>2, <2>1, <2>2, <2>3, <2>4, <2>5, SenderMoves DEF rest
<1>9. CASE ReleaseArc(p)
  <2>1. /\ Others(p) /\ RingOnly(r) /\ prod'[p].pc = "notify" /\ prod'[p].after = "release"
        /\ prod'[p].ring = prod[p].ring
        /\ ring'[r].q = ring[r].q /\ ring'[r].producer_gone = ring[r].producer_gone
        /\ UNCHANGED <<live, notifier, space, rx, free>> /\ UNCHANGED rest
    BY <1>1, <1>9, ReleaseArcIs
  <2>2. ~Holds(p)' /\ ~Active(p)' /\ ~Waits(p)'
    BY <2>1 DEF Holds, Active, Waits
  <2> QED
    BY <1>1, <1>2, <2>1, <2>2, SenderMoves DEF rest
<1> QED
  BY <1>5, <1>6, <1>7, <1>8, <1>9 DEF Sends

\* A step on the shared count or the receiver's waiter.
LEMMA LeavesOwn ==
  ASSUME BaseInv, OwnInv, NEW s \in Senders, Leaves(s)
  PROVE  OwnInv'
<1>1. /\ TypeInv /\ RoleInv /\ HoldInv /\ UseInv /\ CleanInv /\ WaitInv /\ rx \in ReceiverState
      /\ ring \in [Rings -> RingState] /\ space \in [Rings -> WaiterState(Producers)]
      /\ prod \in [Senders -> SenderState]
  BY DEF BaseInv, OwnInv, TypeInv
<1>2. Others(s) /\ prod'[s].ring = prod[s].ring /\ UNCHANGED <<ring, space, free>> /\ UNCHANGED rest
  BY <1>1, LeavesIs
<1>3. rx'.pc = rx.pc /\ rx'.at = rx.at
  <2>1. rx' = rx \/ rx' = [rx EXCEPT !.woken = @ \/ notifier.waker = RecvTask]
    BY <1>1, LeavesIs
  <2> QED
    BY <1>1, <2>1 DEF ReceiverState
<1>4. \/ prod'[s].pc = "wake" /\ prod[s].pc = "notify" /\ prod'[s].after = prod[s].after
      \/ prod[s].pc \in {"notify", "wake"} /\ prod'[s].pc = prod[s].after /\ prod'[s].after = prod[s].after
      \/ prod'[s].pc \in {"notify", "gone"} /\ prod'[s].after = "gone" /\ prod[s].pc = "release"
  BY <1>1, LeavesIs
<1>5. prod[s].after \in {"done", "arm", "yield", "release", "gone"}
  BY <1>1 DEF SenderState
<1>6. CASE s \in Producers /\ Holds(s)'
  <2> DEFINE r == prod[s].ring
  <2>1. Active(s) /\ (Active(s)' <=> ActiveIn(prod'[s])) /\ ~Waits(s)'
    BY <1>4, <1>5, <1>6, ActiveIs DEF Holds, Active, Waits, ActiveIn
  <2>2. /\ r \in Rings /\ ring[r].arc /\ Holds(s) /\ ToSet(ring[r].q) \subseteq {s} /\ ~ring[r].producer_gone
        /\ space[r].waker \in {s, NoTask} /\ (~space[r].needs_clear => space[r] = Unarmed)
    BY <1>1, <1>6, <2>1 DEF HoldInv, UseInv, CleanInv, Holds
  <2>3. RingOnly(r)
    BY <1>1, <1>2 DEF RingOnly
  <2> QED
    BY <1>1, <1>2, <1>3, <1>6, <2>1, <2>2, <2>3, SenderMoves DEF rest
<1>7. CASE s \in Producers => ~Holds(s)'
  <2>1. s = Handle => prod'[s].pc # "deposit"
    BY <1>4, <1>5
  <2> QED
    BY <1>1, <1>2, <1>3, <1>7, <2>1, Bystander
<1> QED
  BY <1>6, <1>7

\* Every step keeps the ownership of the rings.
LEMMA OwnStep ==
  ASSUME BaseInv, OwnInv, [Next]_vars
  PROVE  OwnInv'
<1>1. CASE UNCHANGED vars
  <2>1. /\ TypeInv /\ ring \in [Rings -> RingState] /\ space \in [Rings -> WaiterState(Producers)]
        /\ prod \in [Senders -> SenderState] /\ 0 \notin Rings
    BY Names DEF BaseInv, TypeInv
  <2>2. /\ UNCHANGED <<tier, ring, space, prod, shards, rx, free, inbox, freelist>>
    BY <1>1 DEF vars, membership
  <2>3. RingOnly(0) /\ SamePlaces
    BY <2>1, <2>2 DEF RingOnly, SamePlaces
  <2>4. ListInv'
    BY <2>2 DEF OwnInv, ListInv
  <2> QED
    BY <2>1, <2>2, <2>3, <2>4, ReceiverTouches
<1>2. CASE Next
  <2>1. CASE \E p \in Producers : Sends(p)
    BY <2>1, SendsOwn
  <2>2. CASE \E p \in Producers : Claim(p) \/ Deposit(p) \/ Deposited(p)
    BY <2>2, JoinsOwn
  <2>3. CASE \E s \in Senders : Leaves(s)
    BY <2>3, LeavesOwn
  <2>4. CASE Register \/ HandleDrop \/ SkipLingering
    <3>1. 1 \in Producers
      BY BoundsAssumption DEF Producers
    <3> QED
      BY <2>4, <3>1, JoinsOwn
  <2>5. CASE Receives
    BY <2>5, TurnsOwn, VisitOwn, ListsOwn, RecycleOwn DEF Receives, Turns
  <2> QED
    BY <1>1, <1>2, <2>1, <2>2, <2>3, <2>4, <2>5, NextIs
<1> QED
  BY <1>1, <1>2

\* The channel opens with clean rings.
LEMMA OpenInv ==
  ASSUME Init
  PROVE  BaseInv /\ OwnInv
<1> USE Names
<1>1. /\ tier \in {"fixed", "pool", "dynamic"} /\ NumRings \in Nat \ {0} /\ NumProducers \in Nat \ {0}
      /\ tier = "fixed" => NumRings <= NumProducers
      /\ Rings = 1 .. NumRings /\ Producers = 1 .. NumProducers
  BY BoundsAssumption DEF Init, Rings, Producers
<1>2. FreshRing \in RingState /\ Unused \in RingState /\ Unarmed \in WaiterState(Producers)
      /\ Unarmed \in WaiterState({RecvTask})
  BY DEF FreshRing, Unused, Unarmed, RingState, WaiterState
<1>3. ring \in [Rings -> RingState] /\ space \in [Rings -> WaiterState(Producers)]
      /\ \A r \in Rings : space[r] = Unarmed /\ ring[r] = IF tier = "dynamic" THEN Unused ELSE FreshRing
  BY <1>2 DEF Init
<1>4. /\ prod[Handle] = Producer(IF tier = "fixed" THEN "gone" ELSE "idle", 0)
      /\ \A p \in Producers : prod[p] = IF tier = "fixed" /\ p <= NumRings THEN Producer("idle", p) ELSE Producer("unborn", 0)
      /\ DOMAIN prod = Senders /\ prod = [s \in Senders |-> prod[s]]
  BY DEF Init
<1>5. \A p \in Producers : tier = "fixed" /\ p <= NumRings => p \in Rings
  BY <1>1
<1>6. /\ prod[Handle] \in SenderState /\ prod[Handle].pc \in {"idle", "gone"}
      /\ \A p \in Producers :
           /\ prod[p] \in SenderState
           /\ \/ prod[p].pc = "unborn" /\ prod[p].ring = 0
              \/ prod[p].pc = "idle" /\ prod[p].ring = p /\ p \in Rings /\ tier = "fixed"
  <2>0. ASSUME NEW r \in Rings \cup {0}, NEW pc \in {"idle", "gone", "unborn"}
        PROVE  Producer(pc, r) \in SenderState /\ Producer(pc, r).pc = pc /\ Producer(pc, r).ring = r
    BY NewProducer, ZenonT(60)
  <2>1. prod[Handle] \in SenderState /\ prod[Handle].pc \in {"idle", "gone"}
    BY <1>4, <2>0
  <2>2. ASSUME NEW p \in Producers
        PROVE  /\ prod[p] \in SenderState
               /\ \/ prod[p].pc = "unborn" /\ prod[p].ring = 0
                  \/ prod[p].pc = "idle" /\ prod[p].ring = p /\ p \in Rings /\ tier = "fixed"
    <3>1. CASE tier = "fixed" /\ p <= NumRings
      <4>1. prod[p] = Producer("idle", p) /\ p \in Rings
        BY <1>4, <1>5, <3>1
      <4>2. Producer("idle", p) \in SenderState /\ Producer("idle", p).pc = "idle" /\ Producer("idle", p).ring = p
        BY <2>0, <4>1
      <4> QED
        BY <3>1, <4>1, <4>2
    <3>2. CASE ~(tier = "fixed" /\ p <= NumRings)
      <4>1. prod[p] = Producer("unborn", 0)
        BY <1>4, <3>2
      <4> QED
        BY <2>0, <4>1
    <3> QED
      BY <3>1, <3>2
  <2> QED
    BY <2>1, <2>2
<1>7. prod \in [Senders -> SenderState]
  BY <1>4, <1>6
<1>8. shards \in Seq(Rings) /\ Distinct(shards)
  <2>1. CASE tier = "dynamic"
    BY <2>1, EmptyIs DEF Init
  <2>2. CASE tier # "dynamic"
    <3>1. shards = [i \in 1 .. NumRings |-> i]
      BY <1>1, <2>2 DEF Init
    <3>2. shards \in [1 .. NumRings -> Rings] /\ Len(shards) = NumRings
      BY <1>1, <3>1
    <3>3. shards \in Seq(Rings)
      BY <1>1, <3>2
    <3> QED
      BY <1>1, <3>1, <3>2, <3>3 DEF Distinct
  <2> QED
    BY <2>1, <2>2
<1>9. /\ rx \in ReceiverState /\ rx.pc = "idle" /\ rx.pushed = 0
  <2>1. /\ 0 \in Nat /\ 0 \in 0 .. 4 /\ <<>> \in Seq(Producers)
    OBVIOUS
  <2> QED
    BY <2>1 DEF Init, ReceiverState
<1>10. /\ inbox \in [queue : Seq(Rings), generation : Nat] /\ freelist \in Seq(Rings) /\ inbox.queue = <<>>
       /\ freelist = <<>> /\ got \in [Producers -> Nat] /\ live \in Int /\ free \subseteq Rings
       /\ notifier \in WaiterState({RecvTask}) /\ (tier # "pool" => free = {})
  BY <1>1, <1>2 DEF Init
<1>11. TypeInv
  BY <1>1, <1>3, <1>7, <1>8, <1>9, <1>10 DEF TypeInv
<1>12. PlaceInv
  BY <1>9 DEF PlaceInv
<1>13. RoleInv
  BY <1>6 DEF RoleInv
<1>14. /\ \A r : ~Depositing(r)
       /\ \A p \in Producers : Holds(p) => prod[p].ring = p /\ p \in Rings /\ tier = "fixed"
       /\ \A p \in Producers : ~Waits(p) /\ (Active(p) => Holds(p))
  BY <1>6 DEF Depositing, Holds, Active, Waits
<1>15. HoldInv
  <2>1. ASSUME NEW p \in Producers, Holds(p)
        PROVE  /\ prod[p].ring = p /\ p \in Rings /\ ring[p].arc /\ p \notin free /\ ~Depositing(prod[p].ring)
    BY <1>3, <1>10, <1>14, <2>1, SMTT(30) DEF FreshRing
  <2> QED
    BY <2>1 DEF HoldInv
<1>16. UseInv
  BY <1>3, <1>14, EmptyIs DEF UseInv, FreshRing, Unarmed
<1>17. CleanInv
  BY <1>3, <1>6, <1>10, <1>14 DEF CleanInv, Clean, FreshRing, Unarmed
<1>18. ListInv
  BY <1>8, <1>10, EmptyIs DEF ListInv
<1>19. WaitInv
  BY <1>14 DEF WaitInv
<1> QED
  BY <1>11, <1>12, <1>13, <1>15, <1>16, <1>17, <1>18, <1>19 DEF BaseInv, OwnInv

\* Who owns a ring, and who is registered on it, at every moment.
LEMMA OwnAlways == Spec => [](BaseInv /\ OwnInv)
<1>1. Init => BaseInv /\ OwnInv
  BY OpenInv
<1>2. BaseInv /\ OwnInv /\ [Next]_vars => BaseInv' /\ OwnInv'
  BY BaseStep, OwnStep
<1> QED
  BY <1>1, <1>2, PTL DEF Spec

\* A producer is the only user of its ring: the ring holds no other producer's
\* value or waker, is not marked finished and is not free, whatever the tier
\* and however often rings are recycled.
THEOREM OwnCorrect == Spec => []SoleOwner
<1>1. BaseInv /\ OwnInv => SoleOwner
  <2> SUFFICES ASSUME OwnInv, NEW p \in Producers, Active(p)
               PROVE  /\ \A o \in Producers \ {p} : Active(o) => prod[o].ring # prod[p].ring
                      /\ ToSet(RingOf(p).q) \subseteq {p} /\ ~RingOf(p).producer_gone /\ RingOf(p).arc
                      /\ space[prod[p].ring].waker \in {p, NoTask} /\ prod[p].ring \notin free
    BY DEF SoleOwner
  <2>1. \A o \in Producers : Active(o) => Holds(o)
    BY DEF Holds
  <2>2. /\ ring[prod[p].ring].arc /\ prod[p].ring \notin free
        /\ \A o \in Producers : Holds(o) /\ prod[o].ring = prod[p].ring => o = p
    BY <2>1 DEF OwnInv, HoldInv
  <2>3. /\ ToSet(ring[prod[p].ring].q) \subseteq {p} /\ ~ring[prod[p].ring].producer_gone
        /\ space[prod[p].ring].waker \in {p, NoTask}
    BY DEF OwnInv, UseInv
  <2> QED
    BY <2>1, <2>2, <2>3 DEF RingOf
<1> QED
  BY <1>1, OwnAlways, PTL

\* A send that returned Pending and was not woken waits on a full, open ring,
\* or the receiver is about to notify it: no wake-up of a producer is lost.
THEOREM SpaceCorrect == Spec => []NoLostSpace
<1>1. BaseInv /\ OwnInv => NoLostSpace
  BY DEF OwnInv, WaitInv, Waits, Notice, NoLostSpace
<1> QED
  BY <1>1, OwnAlways, PTL

-----------------------------------------------------------------------------
(* What is still to be delivered.                                          *)

Alive == rx.pc \notin {"shut", "shutnotify", "gone"}

\* The senders that live counts; a registration in progress is counted twice.
CountedIn(x) == x.pc \notin {"unborn", "gone"} /\ ~(x.pc \in {"notify", "wake"} /\ x.after = "gone")
Counted == {s \in Senders : CountedIn(prod[s])}

Extra(x) == IF x.pc = "deposit" THEN 1 ELSE 0

LiveInv == live = Cardinality(Counted) + Extra(prod[Handle])

Using(p, r) == Active(p) /\ prod[p].ring = r

\* The receiver can reach every ring that is used or holds a value, and a
\* ring in its lists is used, finished, or (pool) free.
KnownInv == Alive =>
  /\ \A r \in Rings : ring[r].q # <<>> => Known(r)
  /\ \A p \in Producers : Active(p) => Known(prod[p].ring)
  /\ prod[Handle].pc = "deposit" => Known(prod[Handle].ring)
  /\ \A r \in Rings : tier # "pool" /\ Known(r) /\ ~ring[r].producer_gone =>
       Depositing(r) \/ \E p \in Producers : Using(p, r)
  /\ tier = "pool" => ToSet(shards) = Rings

\* Every value sent was delivered, is staged or is in its sender's ring.
InRing(p) == IF prod[p].ring = 0 THEN 0 ELSE Count(p, ring[prod[p].ring].q)

FlowInv ==
  /\ \A p \in Producers : prod[p].pc = "unborn" => prod[p].ring = 0 /\ prod[p].sent = 0
  /\ Alive => \A p \in Producers :
       /\ prod[p].sent = got[p] + Count(p, rx.staging) + InRing(p)
       /\ \A r \in Rings : p \in ToSet(ring[r].q) => prod[p].ring = r

\* The generation the receiver has seen is behind if rings wait in the inbox.
InboxInv ==
  /\ rx.seen <= inbox.generation /\ (rx.pc = "append" => rx.loaded <= inbox.generation)
  /\ \A r \in ToSet(inbox.queue) : rx.seen < inbox.generation \/ Depositing(r)
  /\ tier # "dynamic" => inbox.queue = <<>>

\* A call that looks into the rings has nothing staged, a pass that has found
\* something does not end the call, and only a pass after the disconnect does.
CallInv ==
  /\ rx.mode = "drain" => rx.phase = 0
  /\ rx.mode # "drain" /\ rx.pc \notin {"idle", "ready", "space", "spacewake"} => rx.staging = <<>>
  /\ rx.mode = "many" /\ rx.pc \in {"space", "spacewake"} => rx.staging = <<>>
  /\ rx.mode # "one" /\ rx.pc \in {"space", "spacewake"} => rx.pushed > 0
  /\ rx.pc \in {"arm", "pending"} => rx.mode # "drain"
  /\ rx.pc = "ended" => rx.phase \in {2, 4}
  /\ ~Alive => rx.phase = 0

\* Shard x is one of those a sweep has passed.
Behind(x) == Passed(x, rx.cursor % Len(shards), Len(shards) - rx.steps, Len(shards))

\* A final sweep: nobody is left to send, so what it has passed stays empty.
FinalInv == rx.phase \in {2, 4} =>
  /\ live = 0
  /\ rx.pc \notin {"refresh", "append"} => inbox.queue = <<>>
  /\ rx.pc \in {"visit", "finished"} /\ rx.pushed = 0 =>
       IF tier = "pool" THEN rx.steps <= Len(shards) /\ \A x \in 1 .. Len(shards) : Behind(x) => ring[shards[x]].q = <<>>
       ELSE rx.steps = Len(shards)
  /\ rx.pc = "finished" => ring[shards[At]].q = <<>>
  /\ rx.pc \in {"miss", "ended"} => \A x \in 1 .. Len(shards) : ring[shards[x]].q = <<>>

EndInv == LiveInv /\ KnownInv /\ FlowInv /\ InboxInv /\ CallInv /\ FinalInv

-----------------------------------------------------------------------------
(* Counting.                                                               *)

\* Counting a sequence made of two others.
LEMMA CountJoin ==
  ASSUME NEW p, NEW s \in Seq(Producers), NEW t \in Seq(Producers), NEW u \in Seq(Producers),
         Len(u) = Len(s) + Len(t), \A i \in 1 .. Len(s) : u[i] = s[i],
         \A i \in 1 .. Len(t) : u[Len(s) + i] = t[i]
  PROVE  Count(p, u) = Count(p, s) + Count(p, t)
<1> DEFINE l == Len(s)
           m == Len(t)
           S == {i \in 1 .. l : s[i] = p}
           T == {i \in 1 .. m : t[i] = p}
           V == {i \in l + 1 .. l + m : u[i] = p}
           U == {i \in 1 .. l + m : u[i] = p}
           f == [i \in T |-> l + i]
<1>1. l \in Nat /\ m \in Nat /\ Len(u) = l + m
  OBVIOUS
<1>2. IsFiniteSet(1 .. l) /\ IsFiniteSet(1 .. m) /\ IsFiniteSet(l + 1 .. l + m)
  BY <1>1, FS_Interval
<1>3. IsFiniteSet(S) /\ IsFiniteSet(T) /\ IsFiniteSet(V)
  BY <1>2, FS_Subset
<1>4. \A i \in T : i \in 1 .. m /\ l + i \in l + 1 .. l + m /\ u[l + i] = p
  BY <1>1
<1>5. \A v \in V : v - l \in 1 .. m /\ l + (v - l) = v
  BY <1>1
<1>6. \A v \in V : v - l \in T /\ f[v - l] = v
  <2> SUFFICES ASSUME NEW v \in V PROVE v - l \in T /\ f[v - l] = v
    OBVIOUS
  <2>1. v - l \in 1 .. m /\ l + (v - l) = v /\ u[v] = p
    BY <1>5
  <2>2. t[v - l] = p
    BY <2>1
  <2> QED
    BY <2>1, <2>2
<1>7. f \in [T -> V]
  BY <1>4
<1>8. \A a, b \in T : f[a] = f[b] => a = b
  BY <1>1
<1>9. f \in Bijection(T, V)
  <2> HIDE DEF f, T, V
  <2> QED
    BY <1>6, <1>7, <1>8 DEF Bijection, Injection, IsInjective, Surjection
<1>10. Cardinality(V) = Cardinality(T)
  <2> HIDE DEF f, T, V
  <2> QED
    BY <1>3, <1>9, FS_Bijection DEF ExistsBijection
<1>11. U = S \cup V /\ S \cap V = {}
  <2>1. \A i \in 1 .. l + m : i \in 1 .. l \/ i \in l + 1 .. l + m
    BY <1>1
  <2>2. 1 .. l \subseteq 1 .. l + m /\ l + 1 .. l + m \subseteq 1 .. l + m
    BY <1>1
  <2>3. \A i \in 1 .. l : i \notin l + 1 .. l + m /\ u[i] = s[i]
    BY <1>1
  <2> QED
    BY <2>1, <2>2, <2>3
<1>12. Cardinality(S) \in Nat /\ Cardinality(T) \in Nat
  BY <1>3, FS_CardinalityType
<1>13. Cardinality(U) = Cardinality(S) + Cardinality(T)
  <2> HIDE DEF S, T, U, V
  <2>1. Cardinality(S \cup V) = Cardinality(S) + Cardinality(V) - Cardinality(S \cap V)
    BY <1>3, FS_Union
  <2>2. Cardinality(S \cup V) = Cardinality(U) /\ Cardinality(S \cap V) = 0
    BY <1>11, FS_EmptySet, Zenon
  <2> QED
    BY <1>10, <1>12, <2>1, <2>2
<1> QED
  BY <1>1, <1>13 DEF Count

\* What appending, cutting and taking off a value does to a count.
LEMMA CountIs ==
  ASSUME NEW p \in Producers, NEW s \in Seq(Producers)
  PROVE  /\ Count(p, <<>>) = 0
         /\ \A x \in Producers : Count(p, Append(s, x)) = Count(p, s) + (IF x = p THEN 1 ELSE 0)
         /\ \A t \in Seq(Producers) : Count(p, s \o t) = Count(p, s) + Count(p, t)
         /\ \A n \in 0 .. Len(s) : Count(p, s) = Count(p, SubSeq(s, 1, n)) + Count(p, SubSeq(s, n + 1, Len(s)))
         /\ s # <<>> => Count(p, s) = Count(p, <<Head(s)>>) + Count(p, Tail(s))
<1>1. Count(p, <<>>) = 0
  <2>1. <<>> \in Seq(Producers) /\ p \notin ToSet(<<>>)
    BY EmptyIs
  <2> QED
    BY <2>1, CountType
<1>2. \A x \in Producers : /\ <<x>> \in Seq(Producers) /\ Len(<<x>>) = 1 /\ <<x>>[1] = x
                           /\ Count(p, <<x>>) = (IF x = p THEN 1 ELSE 0)
  <2> TAKE x \in Producers
  <2>1. <<x>> \in Seq(Producers) /\ Len(<<x>>) = 1 /\ <<x>>[1] = x /\ 1 .. 1 = {1}
    OBVIOUS
  <2>2. {i \in 1 .. 1 : <<x>>[i] = p} = IF x = p THEN {1} ELSE {}
    BY <2>1
  <2>3. Cardinality({1}) = 1 /\ Cardinality({}) = 0
    BY FS_Singleton, FS_EmptySet
  <2> QED
    BY <2>1, <2>2, <2>3 DEF Count
<1>3. ASSUME NEW x \in Producers PROVE Count(p, Append(s, x)) = Count(p, s) + (IF x = p THEN 1 ELSE 0)
  <2>1. /\ Append(s, x) \in Seq(Producers) /\ Len(Append(s, x)) = Len(s) + 1
        /\ \A i \in 1 .. Len(s) : Append(s, x)[i] = s[i]
        /\ Append(s, x)[Len(s) + 1] = x
    OBVIOUS
  <2>2. \A i \in 1 .. Len(<<x>>) : Append(s, x)[Len(s) + i] = <<x>>[i]
    BY <1>2, <2>1
  <2>3. Len(Append(s, x)) = Len(s) + Len(<<x>>) /\ <<x>> \in Seq(Producers)
    BY <1>2, <2>1
  <2>4. Count(p, Append(s, x)) = Count(p, s) + Count(p, <<x>>)
    BY <2>1, <2>2, <2>3, CountJoin
  <2> QED
    BY <1>2, <2>4
<1>4. ASSUME NEW t \in Seq(Producers) PROVE Count(p, s \o t) = Count(p, s) + Count(p, t)
  <2>1. /\ s \o t \in Seq(Producers) /\ Len(s \o t) = Len(s) + Len(t)
        /\ \A i \in 1 .. Len(s) : (s \o t)[i] = s[i]
        /\ \A i \in 1 .. Len(t) : (s \o t)[Len(s) + i] = t[i]
    OBVIOUS
  <2> QED
    BY <2>1, CountJoin
<1>5. ASSUME NEW n \in 0 .. Len(s)
      PROVE  Count(p, s) = Count(p, SubSeq(s, 1, n)) + Count(p, SubSeq(s, n + 1, Len(s)))
  <2> DEFINE a == SubSeq(s, 1, n)
             b == SubSeq(s, n + 1, Len(s))
  <2>1. /\ a \in Seq(Producers) /\ b \in Seq(Producers) /\ Len(a) = n /\ Len(b) = Len(s) - n
        /\ \A i \in 1 .. n : a[i] = s[i]
        /\ \A i \in 1 .. Len(s) - n : b[i] = s[n + i]
    BY Slices
  <2> HIDE DEF a, b
  <2>2. Len(s) = Len(a) + Len(b) /\ Len(s) \in Nat /\ n \in Nat
    BY <2>1
  <2>4. (\A i \in 1 .. Len(a) : s[i] = a[i]) /\ \A i \in 1 .. Len(b) : s[Len(a) + i] = b[i]
    BY <2>1
  <2>3. Count(p, s) = Count(p, a) + Count(p, b)
    BY <2>1, <2>2, <2>4, CountJoin
  <2> QED
    BY <2>3 DEF a, b
<1>6. ASSUME s # <<>> PROVE Count(p, s) = Count(p, <<Head(s)>>) + Count(p, Tail(s))
  <2>1. /\ Head(s) \in Producers /\ Tail(s) \in Seq(Producers) /\ Len(s) = 1 + Len(Tail(s))
        /\ s[1] = Head(s) /\ \A i \in 1 .. Len(Tail(s)) : s[1 + i] = Tail(s)[i]
    BY <1>6
  <2> DEFINE h == <<Head(s)>>
  <2>2. h \in Seq(Producers) /\ Len(h) = 1 /\ h[1] = Head(s) /\ Len(s) = Len(h) + Len(Tail(s))
    BY <1>2, <2>1
  <2>3. \A i \in 1 .. Len(h) : s[i] = h[i]
    BY <2>1, <2>2
  <2>4. \A i \in 1 .. Len(Tail(s)) : s[Len(h) + i] = Tail(s)[i]
    BY <2>1, <2>2
  <2> HIDE DEF h
  <2>5. Count(p, s) = Count(p, h) + Count(p, Tail(s))
    BY <2>1, <2>2, <2>3, <2>4, CountJoin
  <2> QED
    BY <2>5 DEF h
<1> QED
  BY <1>1, <1>3, <1>4, <1>5, <1>6

\* Senders are finitely many.
LEMMA SendersFinite ==
  \A S \in SUBSET Senders : IsFiniteSet(S) /\ Cardinality(S) \in Nat
<1>1. IsFiniteSet(1 .. NumProducers)
  BY FS_Interval, BoundsAssumption
<1>2. IsFiniteSet(Senders)
  BY <1>1, FS_AddElement DEF Senders, Producers
<1> QED
  BY <1>2, FS_Subset, FS_CardinalityType

\* A sender's step on the ring it holds: it is counted and stays so, it pushes
\* a value or leaves the queue alone, and marks the ring when it leaves it.
LEMMA SendsIs ==
  ASSUME BaseInv, OwnInv, NEW p \in Producers, Sends(p)
  PROVE  /\ p \in Senders /\ p # Handle /\ prod[p].ring \in Rings /\ prod'[p].ring = prod[p].ring
         /\ Others(p) /\ RingOnly(prod[p].ring)
         /\ CountedIn(prod[p]) /\ CountedIn(prod'[p]) /\ prod[p].pc # "unborn" /\ prod'[p].pc # "unborn"
         /\ Active(p)' => Active(p)
         /\ Active(p) /\ ~Active(p)' => ring'[prod[p].ring].producer_gone
         /\ ring[prod[p].ring].producer_gone => ring'[prod[p].ring].producer_gone
         /\ \/ /\ ring'[prod[p].ring].q = Append(ring[prod[p].ring].q, p) /\ Active(p)
               /\ prod'[p].sent = prod[p].sent + 1
            \/ ring'[prod[p].ring].q = ring[prod[p].ring].q /\ prod'[p].sent = prod[p].sent
         /\ UNCHANGED <<live, notifier, rx, free>> /\ UNCHANGED rest
<1>1. /\ p \in Senders /\ p # Handle /\ prod[p].ring \in Rings /\ TypeInv /\ prod \in [Senders -> SenderState]
      /\ HoldInv /\ ring \in [Rings -> RingState] /\ space \in [Rings -> WaiterState(Producers)]
  BY Names, Holding DEF BaseInv, TypeInv, OwnInv
<1>2. /\ \A x : ActiveIn(x) => CountedIn(x) /\ x.pc # "unborn"
      /\ \A x : x.pc = "unlink" => CountedIn(x) /\ ~ActiveIn(x)
      /\ \A x : x.pc = "notify" /\ x.after = "release" => CountedIn(x) /\ ~ActiveIn(x)
      /\ \A x : x.pc \in {"pending", "idle"} => ActiveIn(x)
  BY DEF ActiveIn, CountedIn
<1>3. (Active(p) <=> ActiveIn(prod[p])) /\ (Active(p)' <=> ActiveIn(prod'[p]))
  BY ActiveIs
<1>4. CASE Moves(p)
  <2>1. /\ Others(p) /\ ActiveIn(prod[p]) /\ ActiveIn(prod'[p])
        /\ prod'[p].ring = prod[p].ring /\ prod'[p].sent = prod[p].sent
        /\ UNCHANGED <<live, notifier, ring, space, rx, free>> /\ UNCHANGED rest
    BY <1>1, <1>4, MovesIs
  <2>2. RingOnly(prod[p].ring)
    BY <1>1, <2>1 DEF RingOnly
  <2> QED
    BY <1>1, <1>2, <1>3, <2>1, <2>2
<1>5. CASE Push(p)
  <2>1. /\ Others(p) /\ ActiveIn(prod[p]) /\ ActiveIn(prod'[p]) /\ RingOnly(prod[p].ring)
        /\ prod'[p].ring = prod[p].ring /\ prod'[p].sent = prod[p].sent + 1
        /\ ring'[prod[p].ring].q = Append(ring[prod[p].ring].q, p)
        /\ ring'[prod[p].ring].producer_gone = ring[prod[p].ring].producer_gone
        /\ UNCHANGED <<live, notifier, rx, free>> /\ UNCHANGED rest
    BY <1>1, <1>5, PushIs
  <2> QED
    BY <1>1, <1>2, <1>3, <2>1
<1>6. CASE ArmSpace(p)
  <2>1. /\ Others(p) /\ ActiveIn(prod[p]) /\ ActiveIn(prod'[p]) /\ RingOnly(prod[p].ring)
        /\ prod'[p].ring = prod[p].ring /\ prod'[p].sent = prod[p].sent
        /\ UNCHANGED <<live, notifier, ring, rx, free>> /\ UNCHANGED rest
    BY <1>1, <1>6, ArmSpaceIs
  <2> QED
    BY <1>1, <1>2, <1>3, <2>1
<1>7. CASE Yield(p) \/ Done(p) \/ ProducerDrop(p)
  <2>1. /\ Others(p) /\ ActiveIn(prod[p]) /\ RingOnly(prod[p].ring)
        /\ prod'[p].ring = prod[p].ring /\ prod'[p].sent = prod[p].sent
        /\ \/ ring' = ring /\ prod'[p].pc \in {"pending", "idle"}
           \/ /\ prod'[p].pc = "unlink" /\ ring'[prod[p].ring].producer_gone
              /\ ring'[prod[p].ring].q = ring[prod[p].ring].q
        /\ UNCHANGED <<live, notifier, rx, free>> /\ UNCHANGED rest
    BY <1>1, <1>7, ClearsIs
  <2>2. CountedIn(prod'[p]) /\ prod'[p].pc # "unborn"
    BY <1>2, <2>1
  <2> QED
    BY <1>1, <1>2, <1>3, <2>1, <2>2
<1>8. CASE ReleaseArc(p)
  <2>1. /\ Others(p) /\ RingOnly(prod[p].ring) /\ prod[p].pc = "unlink"
        /\ prod'[p].pc = "notify" /\ prod'[p].after = "release"
        /\ prod'[p].ring = prod[p].ring /\ prod'[p].sent = prod[p].sent
        /\ ring'[prod[p].ring].q = ring[prod[p].ring].q
        /\ ring'[prod[p].ring].producer_gone = ring[prod[p].ring].producer_gone
        /\ UNCHANGED <<live, notifier, space, rx, free>> /\ UNCHANGED rest
    BY <1>1, <1>8, ReleaseArcIs
  <2> QED
    BY <1>1, <1>2, <1>3, <2>1
<1> QED
  BY <1>4, <1>5, <1>6, <1>7, <1>8 DEF Sends

\* The senders as the receiver leaves them: at most woken.
Unmoved ==
  /\ prod' \in [Senders -> SenderState]
  /\ \A s \in Senders : /\ prod'[s].pc = prod[s].pc /\ prod'[s].ring = prod[s].ring
                        /\ prod'[s].after = prod[s].after /\ prod'[s].sent = prod[s].sent
                        /\ prod'[s].dirty = prod[s].dirty

\* The receiver moves no sender, and the count of senders stays.
LEMMA ReceivesIs ==
  ASSUME BaseInv, Receives
  PROVE  Unmoved /\ UNCHANGED <<tier, live>>
<1>1. TypeInv /\ (prod' = prod => Unmoved) /\ \A wt : Wakes(wt) => Unmoved
  BY DEF BaseInv, TypeInv, Unmoved, Wakes
<1>2. CASE Turns
  BY <1>1, <1>2, TurnsIs DEF mine
<1>3. CASE AppendInbox
  BY <1>1, <1>3, AppendInboxIs DEF mine
<1>4. CASE Drain
  BY <1>1, <1>4, DrainIs
<1>5. CASE NotifySpace
  BY <1>1, <1>5, NotifySpaceIs
<1>6. CASE WakeSpace
  BY <1>1, <1>6, WakeSpaceIs
<1>7. CASE Recycle
  BY <1>1, <1>7, RecycleIs
<1>8. CASE Prune
  BY <1>1, <1>8, PruneIs
<1>9. CASE ShutShard
  BY <1>1, <1>9, ShutShardIs
<1>10. CASE ShutNotify
  BY <1>1, <1>10, ShutNotifyIs
<1>11. CASE DropInbox
  BY <1>1, <1>11, DropInboxIs
<1> QED
  BY <1>2, <1>3, <1>4, <1>5, <1>6, <1>7, <1>8, <1>9, <1>10, <1>11 DEF Receives, Turns

-----------------------------------------------------------------------------
(* The count of senders.                                                   *)

\* How the number of counted senders follows from who is counted.
LEMMA CountedIs ==
  /\ Counted \in SUBSET Senders /\ Cardinality(Counted) \in Nat
  /\ (\A s \in Senders : CountedIn(prod'[s]) <=> CountedIn(prod[s])) => Cardinality(Counted)' = Cardinality(Counted)
  /\ \A p \in Senders :
       (\A s \in Senders : s # p => (CountedIn(prod'[s]) <=> CountedIn(prod[s]))) =>
         /\ ~CountedIn(prod[p]) /\ CountedIn(prod'[p]) => Cardinality(Counted)' = Cardinality(Counted) + 1
         /\ CountedIn(prod[p]) /\ ~CountedIn(prod'[p]) => Cardinality(Counted)' = Cardinality(Counted) - 1
<1>1. Counted \in SUBSET Senders /\ Cardinality(Counted) \in Nat /\ IsFiniteSet(Counted)
  BY SendersFinite DEF Counted
<1>2. (\A s \in Senders : CountedIn(prod'[s]) <=> CountedIn(prod[s])) => Counted' = Counted
  BY Zenon DEF Counted, CountedIn
<1>3. ASSUME NEW p \in Senders, \A s \in Senders : s # p => (CountedIn(prod'[s]) <=> CountedIn(prod[s]))
      PROVE  /\ ~CountedIn(prod[p]) /\ CountedIn(prod'[p]) => Cardinality(Counted)' = Cardinality(Counted) + 1
             /\ CountedIn(prod[p]) /\ ~CountedIn(prod'[p]) => Cardinality(Counted)' = Cardinality(Counted) - 1
  <2>1. (p \in Counted <=> CountedIn(prod[p])) /\ Counted' = {s \in Senders : CountedIn(prod'[s])}
    BY DEF Counted, CountedIn
  <2>2. \A s \in Senders : s \in Counted <=> CountedIn(prod[s])
    BY DEF Counted
  <2>3. CountedIn(prod'[p]) => Counted' = Counted \cup {p}
    BY <1>1, <1>3, <2>1, <2>2
  <2>4. ~CountedIn(prod'[p]) => Counted' = Counted \ {p}
    BY <1>1, <1>3, <2>1, <2>2
  <2> QED
    BY <1>1, <2>1, <2>3, <2>4, FS_AddElement, FS_RemoveElement
<1> QED
  BY <1>1, <1>2, <1>3

\* The count is right after every step.
LEMMA LiveStep ==
  ASSUME BaseInv, OwnInv, LiveInv, [Next]_vars
  PROVE  LiveInv'
<1> USE Names
<1>1. TypeInv /\ RoleInv /\ prod \in [Senders -> SenderState] /\ Cardinality(Counted) \in Nat
  BY CountedIs DEF BaseInv, TypeInv
<1>2. /\ Extra(prod[Handle]) \in {0, 1}
      /\ live = Cardinality(Counted) + Extra(prod[Handle])
      /\ live' = Cardinality(Counted)' + Extra(prod'[Handle]) => LiveInv'
  BY DEF LiveInv, Extra, Counted
<1>3. CASE UNCHANGED vars
  BY <1>3 DEF vars, LiveInv, Counted
<1>4. ASSUME NEW p \in Producers, Sends(p) PROVE LiveInv'
  <2>1. /\ p \in Senders /\ p # Handle /\ Others(p) /\ CountedIn(prod[p]) /\ CountedIn(prod'[p]) /\ live' = live
    BY <1>4, SendsIs
  <2>2. (\A s \in Senders : CountedIn(prod'[s]) <=> CountedIn(prod[s])) /\ prod'[Handle] = prod[Handle]
    BY <2>1 DEF Others
  <2> QED
    BY <1>2, <2>1, <2>2, CountedIs
<1>5. ASSUME NEW p \in Producers, Claim(p) PROVE LiveInv'
  <2>1. Others(p) /\ prod[p].pc = "unborn" /\ prod'[p].pc = "idle" /\ live' = live + 1
    BY <1>1, <1>5, ClaimIs
  <2>2. /\ ~CountedIn(prod[p]) /\ CountedIn(prod'[p]) /\ prod'[Handle] = prod[Handle]
        /\ \A s \in Senders : s # p => (CountedIn(prod'[s]) <=> CountedIn(prod[s]))
    BY <2>1 DEF Others, CountedIn
  <2>3. Cardinality(Counted)' = Cardinality(Counted) + 1
    BY <2>2, CountedIs
  <2> QED
    BY <1>1, <1>2, <2>1, <2>2, <2>3
<1>6. ASSUME NEW p \in Producers, Deposit(p) PROVE LiveInv'
  <2>1. prod[Handle].pc = "take" /\ Others(Handle) /\ prod'[Handle].pc = "deposit" /\ live' = live + 1
    BY <1>1, <1>6, DepositIs
  <2>2. /\ Extra(prod[Handle]) = 0 /\ Extra(prod'[Handle]) = 1
        /\ \A s \in Senders : CountedIn(prod'[s]) <=> CountedIn(prod[s])
    BY <2>1 DEF Others, CountedIn, Extra
  <2> QED
    BY <1>1, <1>2, <2>1, <2>2, CountedIs
<1>7. ASSUME NEW p \in Producers, Deposited(p) PROVE LiveInv'
  <2>1. /\ prod[Handle].pc = "deposit" /\ prod[p].pc = "unborn"
        /\ \A s \in Senders : s # p /\ s # Handle => prod'[s] = prod[s]
        /\ prod'[Handle].pc = "idle" /\ prod'[p].pc = "idle" /\ live' = live
    BY <1>1, <1>7, DepositedIs
  <2>2. /\ ~CountedIn(prod[p]) /\ CountedIn(prod'[p]) /\ CountedIn(prod[Handle]) /\ CountedIn(prod'[Handle])
        /\ Extra(prod[Handle]) = 1 /\ Extra(prod'[Handle]) = 0
    BY <2>1 DEF CountedIn, Extra
  <2>3. \A s \in Senders : s # p => (CountedIn(prod'[s]) <=> CountedIn(prod[s]))
    BY <2>1, <2>2
  <2>4. Cardinality(Counted)' = Cardinality(Counted) + 1
    BY <2>2, <2>3, CountedIs
  <2> QED
    BY <1>1, <1>2, <2>1, <2>2, <2>4
<1>8. ASSUME NEW s \in Senders, Leaves(s) PROVE LiveInv'
  <2>1. /\ Others(s) /\ Extra(prod'[Handle]) = Extra(prod[Handle])
        /\ \/ prod'[s].pc \in {"wake", prod[s].after} /\ prod'[s].after = prod[s].after /\ prod[s].pc \in {"notify", "wake"} /\ live' = live
           \/ /\ prod[s].pc = "release" /\ prod'[s].pc \in {"notify", "gone"} /\ prod'[s].after = "gone"
              /\ live' = live - 1
    <3>1. /\ Others(s)
          /\ \/ prod'[s].pc \in {"wake", prod[s].after} /\ prod'[s].after = prod[s].after /\ prod[s].pc \in {"notify", "wake"} /\ live' = live
             \/ /\ prod[s].pc = "release" /\ prod'[s].pc \in {"notify", "gone"} /\ prod'[s].after = "gone"
                /\ live' = live - 1
      BY <1>1, <1>8, LeavesIs
    <3>2. prod[s].after \in {"done", "arm", "yield", "release", "gone"}
      BY <1>1 DEF SenderState
    <3>3. prod[Handle].pc = "deposit" <=> prod'[Handle].pc = "deposit"
      BY <3>1, <3>2 DEF Others
    <3> QED
      BY <3>1, <3>3 DEF Extra
  <2>2. prod[s].after \in {"done", "arm", "yield", "release", "gone"}
    BY <1>1 DEF SenderState
  <2>3. \A o \in Senders : o # s => (CountedIn(prod'[o]) <=> CountedIn(prod[o]))
    BY <2>1 DEF Others
  <2>4. CASE live' = live /\ prod'[s].pc \in {"wake", prod[s].after} /\ prod'[s].after = prod[s].after /\ prod[s].pc \in {"notify", "wake"}
    <3>1. CountedIn(prod'[s]) <=> CountedIn(prod[s])
      BY <2>2, <2>4 DEF CountedIn
    <3>2. \A o \in Senders : CountedIn(prod'[o]) <=> CountedIn(prod[o])
      BY <2>3, <3>1
    <3> QED
      BY <1>2, <2>1, <2>4, <3>2, CountedIs
  <2>5. CASE prod[s].pc = "release" /\ prod'[s].pc \in {"notify", "gone"} /\ prod'[s].after = "gone" /\ live' = live - 1
    <3>1. CountedIn(prod[s]) /\ ~CountedIn(prod'[s])
      BY <2>5 DEF CountedIn
    <3>2. Cardinality(Counted)' = Cardinality(Counted) - 1
      BY <2>3, <3>1, CountedIs
    <3> QED
      BY <1>1, <1>2, <2>1, <2>5, <3>2
  <2> QED
    BY <2>1, <2>4, <2>5
<1>9. CASE Register \/ HandleDrop \/ SkipLingering
  <2>1. CASE Register \/ HandleDrop
    <3>1. Others(Handle) /\ prod[Handle].pc = "idle" /\ prod'[Handle].pc \in {"take", "release"} /\ live' = live
      BY <1>1, <2>1, HandleIs
    <3>2. /\ Extra(prod[Handle]) = 0 /\ Extra(prod'[Handle]) = 0
          /\ \A s \in Senders : CountedIn(prod'[s]) <=> CountedIn(prod[s])
      BY <3>1 DEF Others, CountedIn, Extra
    <3> QED
      BY <1>2, <3>1, <3>2, CountedIs
  <2>2. CASE SkipLingering
    <3>1. prod' = prod /\ live' = live
      BY <1>1, <2>2, SkipLingeringIs
    <3> QED
      BY <1>2, <3>1, CountedIs
  <2> QED
    BY <1>9, <2>1, <2>2
<1>10. CASE Receives
  <2>1. Unmoved /\ live' = live
    BY <1>10, ReceivesIs
  <2>2. /\ Extra(prod'[Handle]) = Extra(prod[Handle])
        /\ \A s \in Senders : CountedIn(prod'[s]) <=> CountedIn(prod[s])
    BY <2>1 DEF Unmoved, CountedIn, Extra
  <2> QED
    BY <1>2, <2>1, <2>2, CountedIs
<1> QED
  BY <1>3, <1>4, <1>5, <1>6, <1>7, <1>8, <1>9, <1>10, NextIs

\* When the count is zero, all that a sender still does is wake the receiver.
LEMMA LastOut ==
  ASSUME BaseInv, OwnInv, LiveInv, live = 0
  PROVE  /\ \A s \in Senders : ~CountedIn(prod[s])
         /\ \A r : ~Depositing(r) /\ \A p \in Producers : ~Using(p, r)
         /\ [Next]_vars => \/ \E s \in Senders : Leaves(s) /\ prod[s].pc \in {"notify", "wake"}
                           \/ Receives
                           \/ UNCHANGED vars
<1> USE Names
<1>1. TypeInv /\ prod \in [Senders -> SenderState]
  BY DEF BaseInv, TypeInv
<1>2. Counted = {}
  <2>1. Cardinality(Counted) = 0
    BY CountedIs DEF LiveInv, Extra
  <2>2. IsFiniteSet(Counted)
    BY SendersFinite, CountedIs
  <2> QED
    BY <2>1, <2>2, FS_EmptySet
<1>3. \A s \in Senders : ~CountedIn(prod[s])
  BY <1>2 DEF Counted
<1>4. \A x : x.pc \in {"deposit", "take", "idle", "release"} => CountedIn(x)
  BY DEF CountedIn
<1>5. /\ \A r : ~Depositing(r)
      /\ prod[Handle].pc \notin {"take", "idle"} /\ \A s \in Senders : prod[s].pc # "release"
  BY <1>3, <1>4 DEF Depositing
<1>6. ASSUME NEW p \in Producers PROVE ~Active(p) /\ ~Sends(p) /\ ~Claim(p) /\ ~Deposit(p) /\ ~Deposited(p)
  <2>1. ~ActiveIn(prod[p])
    BY <1>3 DEF ActiveIn, CountedIn
  <2>2. ~Active(p)
    BY <2>1, ActiveIs
  <2>3. ~Sends(p)
    BY <1>3, SendsIs
  <2>4. ~Claim(p)
    BY <1>1, <1>5, ClaimIs
  <2>5. ~Deposit(p)
    BY <1>1, <1>5, DepositIs
  <2>6. ~Deposited(p)
    <3>1. prod[Handle].pc # "deposit"
      BY <1>3, <1>4
    <3> QED
      BY <1>1, <3>1, DepositedIs
  <2> QED
    BY <2>2, <2>3, <2>4, <2>5, <2>6
<1>7. ~Register /\ ~HandleDrop /\ ~SkipLingering
  BY <1>1, <1>5, HandleIs, SkipLingeringIs
<1>8. \A s \in Senders : Leaves(s) => prod[s].pc \in {"notify", "wake"}
  BY <1>1, <1>5, LeavesIs
<1> QED
  BY <1>3, <1>5, <1>6, <1>7, <1>8, NextIs DEF Using

-----------------------------------------------------------------------------
(* What the receiver can reach.                                            *)

\* Only the rings the receiver has closed are out of its reach for good.
LEMMA AliveIs ==
  ASSUME BaseInv, OwnInv, [Next]_vars, Alive'
  PROVE  Alive
<1>1. TypeInv /\ rx \in ReceiverState
  BY DEF BaseInv, TypeInv
<1>2. CASE rx' = rx
  BY <1>2 DEF Alive
<1>3. ASSUME NEW s \in Senders, Leaves(s) PROVE Alive
  <2>1. rx' = rx \/ rx' = [rx EXCEPT !.woken = @ \/ notifier.waker = RecvTask]
    BY <1>1, <1>3, LeavesIs
  <2>2. rx'.pc = rx.pc
    BY <1>1, <2>1 DEF ReceiverState
  <2> QED
    BY <2>2 DEF Alive
<1>4. CASE Receives
  <2>1. rx.pc = "shut" => rx'.pc \in {"shut", "shutnotify", "gone"}
    <3> SUFFICES ASSUME rx.pc = "shut" PROVE rx'.pc \in {"shut", "shutnotify", "gone"}
      OBVIOUS
    <3>1. ShutShard
      BY <1>4 DEF Receives, StartRecv, Refresh, AppendInbox, Drain, NotifySpace, WakeSpace, DrainEmpty, NotFinished,
              Recycle, Prune, Miss, ArmReceiver, Ready, PollRecv, ShutNotify, DropInbox, CancelRecv, ReceiverDrop
    <3> QED
      BY <3>1, ShutShardIs
  <2>2. rx.pc = "shutnotify" => rx'.pc \in {"shut", "shutnotify", "gone"}
    <3> SUFFICES ASSUME rx.pc = "shutnotify" PROVE rx'.pc \in {"shut", "shutnotify", "gone"}
      OBVIOUS
    <3>1. ShutNotify
      BY <1>4 DEF Receives, StartRecv, Refresh, AppendInbox, Drain, NotifySpace, WakeSpace, DrainEmpty, NotFinished,
              Recycle, Prune, Miss, ArmReceiver, Ready, PollRecv, ShutShard, DropInbox, CancelRecv, ReceiverDrop
    <3> QED
      BY <3>1, ShutNotifyIs
  <2>3. rx.pc = "gone" => rx'.pc = "gone"
    <3> SUFFICES ASSUME rx.pc = "gone" PROVE rx'.pc = "gone"
      OBVIOUS
    <3>1. DropInbox
      BY <1>4 DEF Receives, StartRecv, Refresh, AppendInbox, Drain, NotifySpace, WakeSpace, DrainEmpty, NotFinished,
              Recycle, Prune, Miss, ArmReceiver, Ready, PollRecv, ShutShard, ShutNotify, CancelRecv, ReceiverDrop
    <3> QED
      BY <3>1, DropInboxIs
  <2> QED
    BY <2>1, <2>2, <2>3 DEF Alive
<1>5. ASSUME NEW p \in Producers, Sends(p) \/ Claim(p) \/ Deposit(p) \/ Deposited(p) PROVE rx' = rx
  BY <1>1, <1>5, SendsIs, ClaimIs, DepositIs, DepositedIs
<1>6. Register \/ HandleDrop \/ SkipLingering => rx' = rx
  BY <1>1, HandleIs, SkipLingeringIs
<1>7. UNCHANGED vars => rx' = rx
  BY DEF vars
<1> QED
  BY <1>2, <1>3, <1>4, <1>5, <1>6, <1>7, NextIs

\* A sender's step, and what the receiver reaches.
LEMMA KnownSends ==
  ASSUME BaseInv, OwnInv, KnownInv, NEW p \in Producers, Sends(p)
  PROVE  KnownInv'
<1> USE Names
<1>1. /\ p \in Senders /\ p # Handle /\ prod[p].ring \in Rings /\ prod'[p].ring = prod[p].ring
      /\ Others(p) /\ RingOnly(prod[p].ring)
      /\ Active(p)' => Active(p)
      /\ Active(p) /\ ~Active(p)' => ring'[prod[p].ring].producer_gone
      /\ ring[prod[p].ring].producer_gone => ring'[prod[p].ring].producer_gone
      /\ \/ ring'[prod[p].ring].q = Append(ring[prod[p].ring].q, p) /\ Active(p)
         \/ ring'[prod[p].ring].q = ring[prod[p].ring].q
      /\ rx' = rx /\ tier' = tier /\ shards' = shards /\ inbox' = inbox
  BY SendsIs DEF rest
<1>2. /\ Alive' = Alive /\ \A r : (Known(r)' <=> Known(r)) /\ (Depositing(r)' <=> Depositing(r))
      /\ prod'[Handle] = prod[Handle]
  BY <1>1 DEF Alive, Known, Depositing, Others
<1>3. \A o \in Producers : o # p => prod'[o] = prod[o] /\ (Active(o)' <=> Active(o))
  BY <1>1, ActiveIs DEF Others
<1> SUFFICES ASSUME Alive PROVE KnownInv'
  BY <1>2 DEF KnownInv
<1>4. \A r \in Rings : ring'[r].q # <<>> => Known(r)
  <2> SUFFICES ASSUME NEW r \in Rings, ring'[r].q # <<>> PROVE Known(r)
    OBVIOUS
  <2>1. CASE r # prod[p].ring
    BY <1>1, <2>1 DEF RingOnly, KnownInv
  <2>2. CASE r = prod[p].ring
    BY <1>1, <2>2 DEF KnownInv
  <2> QED
    BY <2>1, <2>2
<1>5. \A o \in Producers : Active(o)' => Known(prod'[o].ring)
  BY <1>1, <1>3 DEF KnownInv
<1>6. prod'[Handle].pc = "deposit" => Known(prod'[Handle].ring)
  BY <1>2 DEF KnownInv
<1>7. ASSUME NEW r \in Rings, tier # "pool", Known(r), ~ring'[r].producer_gone
      PROVE  Depositing(r) \/ \E o \in Producers : Active(o)' /\ prod'[o].ring = r
  <2>1. ~ring[r].producer_gone
    BY <1>1, <1>7 DEF RingOnly
  <2>2. Depositing(r) \/ \E o \in Producers : Active(o) /\ prod[o].ring = r
    BY <1>7, <2>1 DEF KnownInv, Using
  <2>3. ASSUME NEW o \in Producers, Active(o), prod[o].ring = r PROVE Active(o)' /\ prod'[o].ring = r
    BY <1>1, <1>3, <1>7, <2>3
  <2> QED
    BY <2>2, <2>3
<1> QED
  BY <1>1, <1>2, <1>4, <1>5, <1>6, <1>7, Zenon DEF KnownInv, Using

\* A step that moves no sender between rings, fills no ring and marks none,
\* and drops only finished rings from the lists.
LEMMA KnownKept ==
  ASSUME BaseInv, OwnInv, KnownInv, Alive' => Alive, tier' = tier,
         \A p \in Producers : prod'[p].ring = prod[p].ring /\ (Active(p)' <=> Active(p)),
         prod'[Handle].pc = "deposit" <=> prod[Handle].pc = "deposit",
         prod[Handle].pc = "deposit" => prod'[Handle].ring = prod[Handle].ring,
         \A r \in Rings : /\ ring[r].q = <<>> => ring'[r].q = <<>>
                          /\ tier # "pool" => ring'[r].producer_gone = ring[r].producer_gone
                          /\ Known(r)' => Known(r)
                          /\ Known(r) /\ ~Known(r)' => ring[r].q = <<>> /\ ring[r].producer_gone,
         tier = "pool" => shards' = shards
  PROVE  KnownInv'
<1> SUFFICES ASSUME Alive' PROVE KnownInv'
  BY DEF KnownInv
<1> USE DEF KnownInv
<1>1. \A r \in Rings : ring'[r].q # <<>> => Known(r)'
  OBVIOUS
<1>2. ASSUME NEW p \in Producers, Active(p)' PROVE Known(prod[p].ring)'
  <2>1. prod[p].ring \in Rings /\ ~ring[prod[p].ring].producer_gone /\ Known(prod[p].ring)
    BY <1>2 DEF OwnInv, HoldInv, UseInv, Holds
  <2>2. \A r \in Rings : Known(r) /\ ~ring[r].producer_gone => Known(r)'
    OBVIOUS
  <2> QED
    BY <2>1, <2>2 DEF Known
<1>3. ASSUME prod'[Handle].pc = "deposit" PROVE Known(prod[Handle].ring)'
  <2>1. /\ prod[Handle].ring \in Rings /\ ~ring[prod[Handle].ring].producer_gone /\ Known(prod[Handle].ring)
    BY <1>3 DEF OwnInv, CleanInv, Depositing, Clean
  <2>2. \A r \in Rings : Known(r) /\ ~ring[r].producer_gone => Known(r)'
    OBVIOUS
  <2> QED
    BY <1>3, <2>1, <2>2 DEF Known
<1>4. \A r \in Rings : tier # "pool" /\ Known(r)' /\ ~ring'[r].producer_gone =>
        Depositing(r)' \/ \E p \in Producers : Using(p, r)'
  BY DEF Depositing, Using
<1> QED
  BY <1>1, <1>2, <1>3, <1>4

\* The receiver's steps while it receives: no ring is filled, and only a
\* finished ring leaves its lists.
LEMMA ReachIs ==
  ASSUME BaseInv, OwnInv, InboxInv, Receives, Alive'
  PROVE  /\ \A r \in Rings : /\ ring[r].q = <<>> => ring'[r].q = <<>>
                             /\ tier # "pool" => ring'[r].producer_gone = ring[r].producer_gone
                             /\ Known(r)' => Known(r)
                             /\ Known(r) /\ ~Known(r)' => ring[r].q = <<>> /\ ring[r].producer_gone
         /\ tier = "pool" => shards' = shards
<1>1. /\ TypeInv /\ ring \in [Rings -> RingState] /\ shards \in Seq(Rings) /\ inbox.queue \in Seq(Rings)
      /\ \A r \in Rings : ring[r].q \in Seq(Producers)
  BY DEF BaseInv, TypeInv, RingState
<1>2. ring' = ring /\ shards' = shards /\ inbox' = inbox =>
        \A r \in Rings : ring'[r] = ring[r] /\ (Known(r)' <=> Known(r))
  BY DEF Known
<1>3. CASE Turns
  BY <1>2, <1>3, TurnsIs DEF mine
<1>4. CASE AppendInbox
  <2>1. /\ shards' = shards \o inbox.queue /\ inbox'.queue = <<>> /\ ring' = ring
    BY <1>1, <1>4, AppendInboxIs DEF mine
  <2>2. ToSet(shards') = ToSet(shards) \cup ToSet(inbox.queue) /\ ToSet(inbox'.queue) = {}
    BY <1>1, <2>1, JoinIs, EmptyIs
  <2>3. \A r \in Rings : Known(r)' <=> Known(r)
    BY <2>2 DEF Known
  <2>4. tier = "pool" => shards' = shards
    BY <1>1, <2>1 DEF InboxInv
  <2> QED
    BY <2>1, <2>3, <2>4
<1>5. CASE Drain
  <2>1. PICK r \in Rings : \E n \in 1 .. Len(ring[r].q) :
           /\ RingOnly(r) /\ ring'[r].q = SubSeq(ring[r].q, n + 1, Len(ring[r].q))
           /\ ring'[r].producer_gone = ring[r].producer_gone
           /\ UNCHANGED <<shards, inbox>>
    BY <1>5, DrainIs
  <2>2. ring[r].q # <<>>
    BY <1>1, <2>1
  <2>3. \A o \in Rings : Known(o)' <=> Known(o)
    BY <2>1 DEF Known
  <2> QED
    BY <2>1, <2>2, <2>3 DEF RingOnly
<1>6. CASE NotifySpace
  BY <1>2, <1>6, NotifySpaceIs
<1>7. CASE WakeSpace
  BY <1>2, <1>7, WakeSpaceIs
<1>8. CASE Recycle
  <2>1. PICK r \in Rings :
           /\ tier = "pool"
           /\ \/ UNCHANGED ring
              \/ RingOnly(r) /\ ring'[r] = FreshRing
           /\ UNCHANGED <<shards, inbox>>
    BY <1>8, RecycleIs
  <2>2. \A o \in Rings : Known(o)' <=> Known(o)
    BY <2>1 DEF Known
  <2>3. \A o \in Rings : ring[o].q = <<>> => ring'[o].q = <<>>
    BY <2>1 DEF RingOnly, FreshRing
  <2> QED
    BY <2>1, <2>2, <2>3
<1>9. CASE Prune
  <2>1. PICK r \in Rings :
           /\ r = shards[At] /\ tier # "pool" /\ Finished(r) /\ shards # <<>>
           /\ shards' = SwapRemove(shards, At)
           /\ \/ UNCHANGED ring
              \/ RingOnly(r) /\ ring'[r].q = ring[r].q /\ ring'[r].producer_gone = ring[r].producer_gone
           /\ inbox' = inbox
    BY <1>9, PruneIs
  <2>2. At \in 1 .. Len(shards)
    BY <1>1, <2>1, AtIs
  <2>3. ToSet(shards') = ToSet(shards) \ {r}
    BY <1>1, <2>1, <2>2, SwapRemoveIs DEF OwnInv, ListInv
  <2>4. \A o \in Rings : (Known(o)' => Known(o)) /\ (Known(o) /\ ~Known(o)' => o = r)
    BY <2>1, <2>3 DEF Known
  <2>5. \A o \in Rings : ring'[o].q = ring[o].q /\ ring'[o].producer_gone = ring[o].producer_gone
    BY <2>1 DEF RingOnly
  <2> QED
    BY <2>1, <2>4, <2>5 DEF Finished
<1>10. CASE ShutShard \/ ShutNotify
  BY <1>10, ShutShardIs, ShutNotifyIs DEF Alive
<1>11. CASE DropInbox
  BY <1>11, DropInboxIs DEF Alive
<1> QED
  BY <1>3, <1>4, <1>5, <1>6, <1>7, <1>8, <1>9, <1>10, <1>11 DEF Receives, Turns

\* Producers come: what they use and the receiver can reach.
LEMMA KnownJoins ==
  ASSUME BaseInv, OwnInv, KnownInv, NEW p \in Producers, Claim(p) \/ Deposit(p) \/ Deposited(p)
  PROVE  KnownInv'
<1> USE Names
<1>1. /\ TypeInv /\ RoleInv /\ p \in Senders /\ p # Handle /\ ring \in [Rings -> RingState]
      /\ shards \in Seq(Rings) /\ inbox.queue \in Seq(Rings)
  BY DEF BaseInv, TypeInv
<1>2. rx' = rx
  BY <1>1, ClaimIs, DepositIs, DepositedIs
<1> SUFFICES ASSUME Alive PROVE KnownInv'
  BY <1>2 DEF KnownInv, Alive
<1> USE DEF KnownInv
<1>3. CASE Claim(p)
  <2>1. /\ Others(p) /\ tier = "pool" /\ prod[Handle].pc = "idle" /\ prod[p].pc = "unborn"
        /\ prod'[p].ring \in Rings /\ prod'[p].pc = "idle"
        /\ ring' = ring /\ tier' = tier /\ shards' = shards /\ inbox' = inbox
    BY <1>1, <1>3, ClaimIs DEF rest, TypeInv
  <2>2. \A r : Known(r)' <=> Known(r)
    BY <2>1 DEF Known
  <2>3. \A r \in Rings : Known(r)
    BY <2>1 DEF Known
  <2>4. \A o \in Producers : Active(o)' => prod'[o].ring \in Rings
    <3> SUFFICES ASSUME NEW o \in Producers, Active(o)', o # p PROVE prod'[o].ring \in Rings
      BY <2>1
    <3>1. prod'[o] = prod[o] /\ Active(o)
      BY <2>1, ActiveIs DEF Others
    <3> QED
      BY <3>1 DEF OwnInv, HoldInv, Holds
  <2>5. prod'[Handle] = prod[Handle]
    BY <1>1, <2>1 DEF Others
  <2>6. (\A r \in Rings : ring'[r].q # <<>> => Known(r)') /\ (\A r \in Rings : Known(r)')
    BY <2>2, <2>3
  <2>7. \A o \in Producers : Active(o)' => Known(prod[o].ring)'
    BY <2>1, <2>3, <2>4 DEF Known
  <2> QED
    BY <2>1, <2>5, <2>6, <2>7
<1>4. CASE Deposit(p)
  <2>1. PICK r \in Rings :
           /\ prod[Handle].pc = "take" /\ Others(Handle)
           /\ RingOnly(r) /\ ring'[r] = FreshRing
           /\ inbox'.queue = Append(inbox.queue, r)
           /\ prod'[Handle].pc = "deposit" /\ prod'[Handle].ring = r
           /\ tier' = tier /\ shards' = shards
    BY <1>1, <1>4, DepositIs
  <2>2. ToSet(inbox'.queue) = ToSet(inbox.queue) \cup {r}
    BY <1>1, <2>1, AppendIs
  <2>3. \A o : Known(o)' <=> Known(o) \/ o = r
    BY <2>1, <2>2 DEF Known
  <2>4. \A o \in Producers : prod'[o] = prod[o] /\ (Active(o)' <=> Active(o))
    BY <1>1, <2>1, ActiveIs DEF Others
  <2>5. \A o \in Rings : ring'[o].q # <<>> => Known(o)'
    BY <2>1, <2>3 DEF RingOnly, FreshRing
  <2>6. \A o \in Producers : Active(o)' => Known(prod[o].ring)'
    BY <2>3, <2>4 DEF Known
  <2>7. Known(prod[Handle].ring)'
    BY <2>1, <2>3 DEF Known
  <2>8. tier # "pool"
    BY <1>1, <2>1 DEF RoleInv
  <2>9. \A o \in Rings : Known(o)' /\ ~ring'[o].producer_gone =>
          Depositing(o)' \/ \E x \in Producers : Using(x, o)'
    <3> SUFFICES ASSUME NEW o \in Rings, Known(o)', ~ring'[o].producer_gone, o # r
                 PROVE  \E x \in Producers : Using(x, o)'
      BY <2>1 DEF Depositing
    <3>1. Known(o) /\ ~ring[o].producer_gone /\ ~Depositing(o)
      BY <2>1, <2>3 DEF RingOnly, Depositing
    <3>2. \E x \in Producers : Using(x, o)
      BY <2>8, <3>1
    <3> QED
      BY <2>4, <3>2 DEF Using
  <2> QED
    BY <2>1, <2>5, <2>6, <2>7, <2>8, <2>9
<1>5. CASE Deposited(p)
  <2>1. /\ prod[Handle].pc = "deposit" /\ prod[p].pc = "unborn"
        /\ \A s \in Senders : s # p /\ s # Handle => prod'[s] = prod[s]
        /\ prod'[Handle].pc = "idle" /\ prod'[p].pc = "idle" /\ prod'[p].ring = prod[Handle].ring
        /\ inbox'.queue = inbox.queue
        /\ UNCHANGED <<tier, ring, shards>>
    BY <1>1, <1>5, DepositedIs
  <2>2. \A r : Known(r)' <=> Known(r)
    BY <2>1 DEF Known
  <2>3. \A o \in Producers : o # p => prod'[o] = prod[o] /\ (Active(o)' <=> Active(o))
    BY <1>1, <2>1, ActiveIs
  <2>4. Active(p)'
    BY <2>1 DEF Active
  <2>5. \A o \in Producers : Active(o)' => Known(prod[o].ring)'
    <3> SUFFICES ASSUME NEW o \in Producers, Active(o)' PROVE Known(prod'[o].ring)
      BY <2>2 DEF Known
    <3> QED
      BY <2>1, <2>3
  <2>6. tier # "pool"
    BY <1>1, <2>1 DEF RoleInv
  <2>7. ASSUME NEW r \in Rings, Known(r)', ~ring'[r].producer_gone PROVE \E x \in Producers : Using(x, r)'
    <3>1. Depositing(r) \/ \E x \in Producers : Using(x, r)
      BY <2>1, <2>2, <2>6, <2>7
    <3>2. CASE Depositing(r)
      BY <2>1, <2>4, <3>2 DEF Depositing, Using
    <3>3. ASSUME NEW x \in Producers, Using(x, r) PROVE Using(x, r)'
      <4>1. x # p
        BY <2>1, <3>3 DEF Using, Active
      <4> QED
        BY <2>3, <3>3, <4>1 DEF Using
    <3> QED
      BY <3>1, <3>2, <3>3
  <2>8. \A r \in Rings : ring'[r].q # <<>> => Known(r)'
    BY <2>1, <2>2
  <2> QED
    BY <2>1, <2>5, <2>6, <2>7, <2>8
<1> QED
  BY <1>3, <1>4, <1>5

\* Every ring in use stays within the receiver's reach.
LEMMA KnownStep ==
  ASSUME BaseInv, OwnInv, InboxInv, KnownInv, [Next]_vars
  PROVE  KnownInv'
<1> USE Names
<1>1. TypeInv /\ prod \in [Senders -> SenderState] /\ ring \in [Rings -> RingState]
  BY DEF BaseInv, TypeInv
<1>2. Alive' => Alive
  BY AliveIs
<1>3. UNCHANGED <<shards, inbox>> => \A r : Known(r)' <=> Known(r)
  BY DEF Known
<1>4. CASE UNCHANGED vars
  BY <1>4 DEF vars, membership, KnownInv, Alive, Known, Depositing, Using, Active
<1>5. ASSUME NEW s \in Senders, Leaves(s) PROVE KnownInv'
  <2>1. /\ Others(s) /\ prod'[s].ring = prod[s].ring /\ ring' = ring /\ tier' = tier /\ shards' = shards /\ inbox' = inbox
    BY <1>1, <1>5, LeavesIs DEF rest
  <2>2. /\ \/ prod'[s].pc \in {"wake", prod[s].after} /\ prod'[s].after = prod[s].after /\ prod[s].pc \in {"notify", "wake"}
           \/ prod[s].pc = "release" /\ prod'[s].pc \in {"notify", "gone"} /\ prod'[s].after = "gone"
        /\ prod[s].after \in {"done", "arm", "yield", "release", "gone"}
    BY <1>1, <1>5, LeavesIs DEF SenderState
  <2>3. (ActiveIn(prod'[s]) <=> ActiveIn(prod[s])) /\ prod[s].pc # "deposit" /\ prod'[s].pc # "deposit"
    BY <2>2 DEF ActiveIn
  <2>4. \A p \in Producers : prod'[p].ring = prod[p].ring /\ (Active(p)' <=> Active(p))
    BY <2>1, <2>3, ActiveIs DEF Others
  <2>5. /\ prod'[Handle].pc = "deposit" <=> prod[Handle].pc = "deposit"
        /\ prod'[Handle].ring = prod[Handle].ring
    BY <2>1, <2>3 DEF Others
  <2> QED
    BY <1>2, <1>3, <2>1, <2>4, <2>5, KnownKept
<1>6. CASE Register \/ HandleDrop
  <2>1. /\ Others(Handle) /\ prod[Handle].pc = "idle" /\ prod'[Handle].pc \in {"take", "release"}
        /\ ring' = ring /\ tier' = tier /\ shards' = shards /\ inbox' = inbox
    BY <1>1, <1>6, HandleIs DEF rest
  <2>2. \A p \in Producers : prod'[p].ring = prod[p].ring /\ (Active(p)' <=> Active(p))
    BY <2>1, ActiveIs DEF Others
  <2> QED
    BY <1>2, <1>3, <2>1, <2>2, KnownKept
<1>7. CASE SkipLingering
  <2>1. PICK r \in Rings :
           /\ RingOnly(r) /\ ring'[r].q = ring[r].q /\ ring'[r].producer_gone = ring[r].producer_gone
           /\ UNCHANGED <<tier, prod, shards, inbox>>
    BY <1>1, <1>7, SkipLingeringIs
  <2>2. \A p \in Producers : prod'[p].ring = prod[p].ring /\ (Active(p)' <=> Active(p))
    BY <2>1, ActiveIs
  <2>3. \A o \in Rings : ring'[o].q = ring[o].q /\ ring'[o].producer_gone = ring[o].producer_gone
    BY <2>1 DEF RingOnly
  <2> QED
    BY <1>2, <1>3, <2>1, <2>2, <2>3, KnownKept
<1>8. CASE Receives
  <2> SUFFICES ASSUME Alive' PROVE KnownInv'
    BY DEF KnownInv
  <2>1. Unmoved /\ tier' = tier
    BY <1>8, ReceivesIs
  <2>2. \A p \in Producers : prod'[p].ring = prod[p].ring /\ (Active(p)' <=> Active(p))
    BY <2>1, ActiveIs DEF Unmoved, ActiveIn
  <2>3. /\ prod'[Handle].pc = "deposit" <=> prod[Handle].pc = "deposit"
        /\ prod'[Handle].ring = prod[Handle].ring
    BY <2>1 DEF Unmoved
  <2> QED
    BY <1>2, <1>8, <2>1, <2>2, <2>3, ReachIs, KnownKept
<1> QED
  BY <1>4, <1>5, <1>6, <1>7, <1>8, KnownSends, KnownJoins, NextIs

-----------------------------------------------------------------------------
(* The inbox and the flow of values.                                       *)

\* The receiver as the senders leave it: at most woken.
SameRx ==
  /\ rx' \in ReceiverState /\ rx'.pc = rx.pc /\ rx'.mode = rx.mode /\ rx'.phase = rx.phase
  /\ rx'.steps = rx.steps /\ rx'.cursor = rx.cursor /\ rx'.staging = rx.staging /\ rx'.pushed = rx.pushed
  /\ rx'.at = rx.at /\ rx'.seen = rx.seen /\ rx'.loaded = rx.loaded /\ (rx.woken => rx'.woken)

\* The steps that are not the receiver's.
SenderSide ==
  \/ \E p \in Producers : Sends(p) \/ Claim(p) \/ Deposit(p) \/ Deposited(p)
  \/ \E s \in Senders : Leaves(s)
  \/ Register \/ HandleDrop \/ SkipLingering
  \/ UNCHANGED vars

\* They leave the receiver and its shards alone.
LEMMA SenderSideIs ==
  ASSUME BaseInv, OwnInv, SenderSide
  PROVE  SameRx /\ UNCHANGED <<tier, shards, got>>
<1>1. TypeInv /\ rx \in ReceiverState /\ rx.woken \in BOOLEAN
  BY DEF BaseInv, TypeInv, ReceiverState
<1>2. rx' = rx => SameRx
  BY <1>1 DEF SameRx
<1>3. ASSUME NEW p \in Producers, Sends(p) \/ Claim(p) \/ Deposit(p) \/ Deposited(p)
      PROVE  rx' = rx /\ UNCHANGED <<tier, shards, got>>
  BY <1>1, <1>3, SendsIs, ClaimIs, DepositIs, DepositedIs DEF rest
<1>4. ASSUME NEW s \in Senders, Leaves(s) PROVE SameRx /\ UNCHANGED <<tier, shards, got>>
  <2>1. /\ rx' = rx \/ rx' = [rx EXCEPT !.woken = @ \/ notifier.waker = RecvTask]
        /\ UNCHANGED <<tier, shards, got>>
    BY <1>1, <1>4, LeavesIs DEF rest
  <2>2. rx' = [rx EXCEPT !.woken = @ \/ notifier.waker = RecvTask] => SameRx
    BY <1>1 DEF SameRx, ReceiverState
  <2> QED
    BY <1>2, <2>1, <2>2
<1>5. Register \/ HandleDrop \/ SkipLingering => rx' = rx /\ UNCHANGED <<tier, shards, got>>
  BY <1>1, HandleIs, SkipLingeringIs DEF rest
<1>6. UNCHANGED vars => rx' = rx /\ UNCHANGED <<tier, shards, got>>
  BY DEF vars
<1> QED
  BY <1>2, <1>3, <1>4, <1>5, <1>6 DEF SenderSide

\* How a call begins.
LEMMA BeginIs ==
  ASSUME BaseInv, \E call \in Calls : StartRecv(call[1], call[2])
  PROVE  \E n \in 0 .. Len(rx.staging) : Begins(rx'.mode, rx'.phase, n)
<1>1. PICK call \in Calls : StartRecv(call[1], call[2])
  OBVIOUS
<1> DEFINE mode == call[1]
           phase == call[2]
<1>2. <<mode, phase>> \in Calls /\ TypeInv
  BY BoundsAssumption DEF BaseInv
<1>3. StartRecv(mode, phase)
  BY <1>1
<1> HIDE DEF mode, phase
<1>4. PICK n \in 0 .. Len(rx.staging) : Begins(mode, phase, n)
  BY <1>2, <1>3, StartRecvIs
<1>5. mode = rx'.mode /\ phase = rx'.phase
  BY <1>4 DEF Begins
<1>6. Begins(rx'.mode, rx'.phase, n)
  BY <1>4, <1>5
<1> QED
  BY <1>6

\* The receiver's steps and the inbox: only what it has loaded counts as seen.
LEMMA SeenIs ==
  ASSUME BaseInv, Receives
  PROVE  /\ inbox'.generation = inbox.generation /\ ToSet(inbox'.queue) \subseteq ToSet(inbox.queue)
         /\ inbox.queue = <<>> => inbox'.queue = <<>>
         /\ \/ rx'.seen = rx.seen
            \/ rx.pc = "append" /\ rx'.seen = rx.loaded /\ inbox'.queue = <<>>
         /\ rx'.pc = "append" => rx'.loaded = inbox.generation
<1>1. TypeInv /\ inbox.queue \in Seq(Rings) /\ ToSet(<<>>) = {}
  BY EmptyIs DEF BaseInv, TypeInv
<1>2. CASE \E call \in Calls : StartRecv(call[1], call[2])
  BY <1>2, BeginIs DEF Begins
<1>3. CASE Refresh
  BY <1>1, <1>3, RefreshIs
<1>4. CASE DrainEmpty
  BY <1>1, <1>4, DrainEmptyIs DEF SameCall
<1>5. CASE NotFinished
  BY <1>5, NotFinishedIs DEF SameVisit
<1>6. CASE Miss
  BY <1>6, MissIs DEF Passing
<1>7. CASE ArmReceiver \/ PollRecv
  BY <1>7, RepollIs DEF Passing
<1>8. CASE Ready
  BY <1>8, ReadyIs
<1>9. CASE CancelRecv \/ ReceiverDrop
  BY <1>9, StopIs
<1>10. CASE AppendInbox
  BY <1>1, <1>10, AppendInboxIs
<1>11. CASE Drain
  BY <1>11, DrainIs
<1>12. ASSUME NEW r \in ReceiverState PROVE AfterDrain(r).pc # "append" /\ AfterDrain(r).seen = r.seen
  BY AfterDrainIs
<1>13. CASE NotifySpace
  BY <1>1, <1>12, <1>13, NotifySpaceIs DEF SameCall, TypeInv
<1>14. CASE WakeSpace
  BY <1>1, <1>12, <1>14, WakeSpaceIs DEF SameCall, TypeInv
<1>15. CASE Recycle
  BY <1>15, RecycleIs DEF SameVisit
<1>16. CASE Prune
  BY <1>16, PruneIs DEF SameVisit
<1>17. CASE ShutShard
  BY <1>17, ShutShardIs DEF SameCall
<1>18. CASE ShutNotify
  BY <1>18, ShutNotifyIs DEF SameCall
<1>19. CASE DropInbox
  <2>1. /\ rx.pc = "gone" /\ inbox.queue # <<>> /\ inbox'.queue = Tail(inbox.queue)
        /\ inbox'.generation = inbox.generation /\ rx' = rx
    BY <1>19, DropInboxIs
  <2>2. ToSet(Tail(inbox.queue)) \subseteq ToSet(inbox.queue)
    BY <1>1, <2>1 DEF ToSet
  <2> QED
    BY <2>1, <2>2
<1> QED
  BY <1>2, <1>3, <1>4, <1>5, <1>6, <1>7, <1>8, <1>9, <1>10, <1>11, <1>13, <1>14, <1>15, <1>16, <1>17, <1>18, <1>19 DEF Receives

\* A ring in the inbox is not forgotten.
LEMMA InboxStep ==
  ASSUME BaseInv, OwnInv, InboxInv, [Next]_vars
  PROVE  InboxInv'
<1> USE Names
<1>1. /\ TypeInv /\ RoleInv /\ inbox.queue \in Seq(Rings) /\ inbox.generation \in Nat /\ rx.seen \in Nat
      /\ rx.loaded \in Nat /\ prod \in [Senders -> SenderState]
  BY DEF BaseInv, TypeInv, ReceiverState
<1>2. CASE Receives
  <2>1. /\ inbox'.generation = inbox.generation /\ ToSet(inbox'.queue) \subseteq ToSet(inbox.queue)
        /\ inbox.queue = <<>> => inbox'.queue = <<>>
        /\ \/ rx'.seen = rx.seen
           \/ rx.pc = "append" /\ rx'.seen = rx.loaded /\ inbox'.queue = <<>>
        /\ rx'.pc = "append" => rx'.loaded = inbox.generation
        /\ Unmoved /\ tier' = tier
    BY <1>2, SeenIs, ReceivesIs
  <2>2. \A r : Depositing(r)' <=> Depositing(r)
    BY <2>1 DEF Unmoved, Depositing
  <2>3. rx'.seen <= inbox'.generation /\ (rx'.pc = "append" => rx'.loaded <= inbox'.generation)
    BY <1>1, <2>1 DEF InboxInv
  <2>4. \A r \in ToSet(inbox'.queue) : rx'.seen < inbox'.generation \/ Depositing(r)'
    BY <2>1, <2>2, EmptyIs DEF InboxInv
  <2> QED
    BY <2>1, <2>3, <2>4 DEF InboxInv
<1>3. CASE SenderSide
  <2>1. SameRx /\ tier' = tier
    BY <1>3, SenderSideIs
  <2>2. inbox' = inbox /\ (\A r : Depositing(r)' <=> Depositing(r)) => InboxInv'
    BY <2>1 DEF InboxInv, SameRx
  <2>3. ASSUME NEW p \in Producers, Sends(p) \/ Claim(p) PROVE InboxInv'
    <3>1. Others(p) /\ inbox' = inbox
      BY <1>1, <2>3, SendsIs, ClaimIs DEF rest
    <3>2. \A r : Depositing(r)' <=> Depositing(r)
      BY <3>1 DEF Others, Depositing
    <3> QED
      BY <2>2, <3>1, <3>2
  <2>4. ASSUME NEW p \in Producers, Deposit(p) PROVE InboxInv'
    <3>1. PICK r \in Rings :
           /\ prod[Handle].pc = "take" /\ inbox'.queue = Append(inbox.queue, r) /\ inbox'.generation = inbox.generation
           /\ prod'[Handle].pc = "deposit" /\ prod'[Handle].ring = r
      BY <1>1, <2>4, DepositIs
    <3>2. ToSet(inbox'.queue) = ToSet(inbox.queue) \cup {r}
      BY <1>1, <3>1, AppendIs
    <3>3. tier = "dynamic" /\ Depositing(r)' /\ \A o : ~Depositing(o)
      BY <1>1, <3>1 DEF RoleInv, Depositing
    <3> QED
      BY <2>1, <3>1, <3>2, <3>3 DEF InboxInv, SameRx
  <2>5. ASSUME NEW p \in Producers, Deposited(p) PROVE InboxInv'
    <3>1. inbox'.queue = inbox.queue /\ inbox'.generation = inbox.generation + 1
      BY <1>1, <2>5, DepositedIs
    <3>2. rx.seen < inbox'.generation /\ (rx.pc = "append" => rx.loaded <= inbox'.generation)
      BY <1>1, <3>1 DEF InboxInv
    <3> QED
      BY <1>1, <2>1, <3>1, <3>2 DEF InboxInv, SameRx
  <2>6. ASSUME NEW s \in Senders, Leaves(s) PROVE InboxInv'
    <3>1. /\ Others(s) /\ inbox' = inbox /\ prod[s].pc \in {"notify", "wake", "release"}
          /\ prod'[s].pc \in {"notify", "wake", "gone", prod[s].after} /\ prod[s].after # "deposit"
      BY <1>1, <2>6, LeavesIs DEF rest, SenderState
    <3>2. \A r : Depositing(r)' <=> Depositing(r)
      BY <3>1 DEF Others, Depositing
    <3> QED
      BY <2>2, <3>1, <3>2
  <2>7. CASE Register \/ HandleDrop
    <3>1. inbox' = inbox /\ prod[Handle].pc = "idle" /\ prod'[Handle].pc \in {"take", "release"}
      BY <1>1, <2>7, HandleIs DEF rest
    <3>2. \A r : Depositing(r)' <=> Depositing(r)
      BY <3>1 DEF Depositing
    <3> QED
      BY <2>2, <3>1, <3>2
  <2>8. CASE SkipLingering
    <3>1. inbox' = inbox /\ prod' = prod
      BY <1>1, <2>8, SkipLingeringIs
    <3> QED
      BY <2>2, <3>1 DEF Depositing
  <2>9. CASE UNCHANGED vars
    BY <2>2, <2>9 DEF vars, membership, Depositing
  <2> QED
    BY <1>3, <2>3, <2>4, <2>5, <2>6, <2>7, <2>8, <2>9 DEF SenderSide
<1> QED
  BY <1>2, <1>3, NextIs DEF SenderSide

-----------------------------------------------------------------------------
(* Nothing sent is lost.                                                   *)

\* The values of a sender in the ring it has.
LEMMA InRingIs ==
  /\ \A p \in Producers : TypeInv => InRing(p) \in Nat
  /\ \A p \in Producers : InRing(p)' = IF prod'[p].ring = 0 THEN 0 ELSE Count(p, ring'[prod'[p].ring].q)
<1>1. ASSUME TypeInv, NEW p \in Producers PROVE InRing(p) \in Nat
  <2>1. prod[p].ring \in Rings \cup {0}
    BY <1>1, Names DEF TypeInv, SenderState
  <2>2. \A r \in Rings : ring[r].q \in Seq(Producers)
    BY <1>1 DEF TypeInv, RingState
  <2>3. prod[p].ring # 0 => Count(p, ring[prod[p].ring].q) \in Nat
    BY <2>1, <2>2, CountType
  <2> QED
    BY <2>3 DEF InRing
<1> QED
  BY <1>1 DEF InRing, Count

\* Values are handed on, and no ring is touched.
LEMMA FlowKept ==
  ASSUME TypeInv, FlowInv, Alive' => Alive,
         \A p \in Producers : /\ prod'[p].ring = prod[p].ring /\ prod'[p].sent = prod[p].sent
                              /\ prod'[p].pc = "unborn" => prod[p].pc = "unborn",
         \A r \in Rings : ring'[r].q = ring[r].q,
         Alive' => \A p \in Producers :
           got'[p] + Count(p, rx'.staging) = got[p] + Count(p, rx.staging)
  PROVE  FlowInv'
<1>1. \A p \in Producers : InRing(p)' = InRing(p)
  <2> SUFFICES ASSUME NEW p \in Producers PROVE InRing(p)' = InRing(p)
    OBVIOUS
  <2>1. prod[p].ring \in Rings \cup {0}
    BY Names DEF TypeInv, SenderState
  <2> QED
    BY <2>1, InRingIs DEF InRing
<1>2. \A p \in Producers : prod'[p].pc = "unborn" => prod'[p].ring = 0 /\ prod'[p].sent = 0
  BY DEF FlowInv
<1>3. ASSUME Alive', NEW p \in Producers
      PROVE  /\ prod'[p].sent = got'[p] + Count(p, rx'.staging) + InRing(p)'
             /\ \A r \in Rings : p \in ToSet(ring'[r].q) => prod'[p].ring = r
  <2>1. prod[p].sent = got[p] + Count(p, rx.staging) + InRing(p)
    BY <1>3 DEF FlowInv
  <2>2. prod'[p].sent = got'[p] + Count(p, rx'.staging) + InRing(p)'
    BY <1>1, <1>3, <2>1
  <2>3. \A r \in Rings : p \in ToSet(ring'[r].q) => prod'[p].ring = r
    BY <1>3 DEF FlowInv
  <2> QED
    BY <2>2, <2>3
<1> QED
  BY <1>2, <1>3 DEF FlowInv, Count

\* A send moves one value into the sender's ring.
LEMMA FlowSends ==
  ASSUME BaseInv, OwnInv, FlowInv, NEW p \in Producers, Sends(p)
  PROVE  FlowInv'
<1> DEFINE r == prod[p].ring
<1>1. /\ TypeInv /\ r \in Rings /\ r # 0 /\ prod'[p].ring = r /\ Others(p) /\ RingOnly(r) /\ prod[p].pc # "unborn"
      /\ prod'[p].pc # "unborn" /\ rx' = rx /\ got' = got
      /\ \/ ring'[r].q = Append(ring[r].q, p) /\ prod'[p].sent = prod[p].sent + 1
         \/ ring'[r].q = ring[r].q /\ prod'[p].sent = prod[p].sent
  BY SendsIs, Names DEF BaseInv, rest
<1>2. ring[r].q \in Seq(Producers) /\ rx.staging \in Seq(Producers) /\ got \in [Producers -> Nat]
  BY <1>1 DEF TypeInv, RingState, ReceiverState
<1> HIDE DEF r
<1>3. \A o \in Producers : o # p => prod'[o] = prod[o]
  BY <1>1, Names DEF Others
<1>4. \A o \in Rings : o # r => ring'[o] = ring[o]
  BY <1>1 DEF RingOnly
<1>5. CASE ring'[r].q = ring[r].q /\ prod'[p].sent = prod[p].sent
  BY <1>1, <1>3, <1>4, <1>5, FlowKept DEF Alive, r
<1>6. CASE ring'[r].q = Append(ring[r].q, p) /\ prod'[p].sent = prod[p].sent + 1
  <2>1. \A o \in Producers : prod'[o].pc = "unborn" => prod'[o].ring = 0 /\ prod'[o].sent = 0
    BY <1>1, <1>3 DEF FlowInv
  <2>2. ToSet(ring'[r].q) = ToSet(ring[r].q) \cup {p}
    BY <1>2, <1>6, AppendIs
  <2>3. ASSUME Alive', NEW o \in Producers
        PROVE  /\ prod'[o].sent = got'[o] + Count(o, rx'.staging) + InRing(o)'
               /\ \A x \in Rings : o \in ToSet(ring'[x].q) => prod'[o].ring = x
    <3>1. /\ prod[o].sent = got[o] + Count(o, rx.staging) + InRing(o)
          /\ \A x \in Rings : o \in ToSet(ring[x].q) => prod[o].ring = x
      BY <1>1, <2>3 DEF FlowInv, Alive
    <3>2. got[o] \in Nat /\ Count(o, rx.staging) \in Nat /\ InRing(o) \in Nat
      BY <1>1, <1>2, CountType, InRingIs
    <3>3. CASE o = p
      <4>1. InRing(p)' = InRing(p) + 1
        <5>1. Count(p, Append(ring[r].q, p)) = Count(p, ring[r].q) + 1
          BY <1>2, CountIs
        <5> QED
          BY <1>1, <1>6, <5>1, InRingIs DEF InRing, r
      <4>2. prod'[o].sent = got'[o] + Count(o, rx'.staging) + InRing(o)'
        BY <1>1, <1>6, <3>1, <3>2, <3>3, <4>1
      <4> QED
        BY <1>1, <1>4, <2>2, <3>1, <3>3, <4>2 DEF r
    <3>4. CASE o # p
      <4>1. prod'[o] = prod[o] /\ prod[o].ring \in Rings \cup {0}
        BY <1>1, <1>3, <3>4, Names DEF TypeInv, SenderState
      <4>2. Count(o, Append(ring[r].q, p)) = Count(o, ring[r].q)
        <5>1. Count(o, Append(ring[r].q, p)) = Count(o, ring[r].q) + 0 /\ Count(o, ring[r].q) \in Nat
          BY <1>2, <3>4, CountIs, CountType
        <5> QED
          BY <5>1
      <4>3. InRing(o)' = InRing(o)
        BY <1>1, <1>4, <1>6, <4>1, <4>2, InRingIs DEF InRing
      <4> QED
        BY <1>1, <1>4, <2>2, <3>1, <3>4, <4>1, <4>3
    <3> QED
      BY <3>3, <3>4
  <2> QED
    BY <2>1, <2>3 DEF FlowInv, Count
<1> QED
  BY <1>1, <1>5, <1>6

\* A new producer starts with an empty ring.
LEMMA FlowJoins ==
  ASSUME BaseInv, FlowInv, NEW p \in Producers, NEW r \in Rings, prod[p].pc = "unborn", ring[r].q = <<>>,
         \A o \in Producers : o # p => prod'[o] = prod[o],
         prod'[p].pc = "idle", prod'[p].ring = r, prod'[p].sent = 0, UNCHANGED <<ring, rx, got>>
  PROVE  FlowInv'
<1>1. TypeInv /\ rx.staging \in Seq(Producers) /\ got \in [Producers -> Nat] /\ 0 \notin Rings
  BY Names DEF BaseInv, TypeInv, ReceiverState
<1>2. \A o \in Producers : prod'[o].pc = "unborn" => prod'[o].ring = 0 /\ prod'[o].sent = 0
  BY DEF FlowInv
<1>3. ASSUME Alive', NEW o \in Producers
      PROVE  /\ prod'[o].sent = got'[o] + Count(o, rx'.staging) + InRing(o)'
             /\ \A x \in Rings : o \in ToSet(ring'[x].q) => prod'[o].ring = x
  <2>1. /\ prod[o].sent = got[o] + Count(o, rx.staging) + InRing(o)
        /\ \A x \in Rings : o \in ToSet(ring[x].q) => prod[o].ring = x
    BY <1>3 DEF FlowInv, Alive
  <2>2. CASE o # p
    <3>1. InRing(o)' = InRing(o)
      BY <2>2, InRingIs DEF InRing
    <3> QED
      BY <2>1, <2>2, <3>1
  <2>3. CASE o = p
    <3>1. prod[p].ring = 0 /\ prod[p].sent = 0
      BY DEF FlowInv
    <3>2. InRing(p) = 0
      BY <3>1 DEF InRing
    <3>3. InRing(p)' = 0
      <4>1. Count(p, <<>>) = 0
        BY <1>1, CountIs
      <4> QED
        BY <1>1, <4>1, InRingIs
    <3>4. \A x \in Rings : p \notin ToSet(ring'[x].q)
      BY <1>1, <2>1, <2>3, <3>1
    <3>5. prod'[p].sent = got'[p] + Count(p, rx'.staging) + InRing(p)'
      BY <2>1, <2>3, <3>1, <3>2, <3>3
    <3> QED
      BY <2>3, <3>4, <3>5
  <2> QED
    BY <2>2, <2>3
<1> QED
  BY <1>2, <1>3 DEF FlowInv, Count

\* A drain takes values from one ring to the staging area or to the caller.
LEMMA FlowDrain ==
  ASSUME BaseInv, OwnInv, FlowInv, Drain
  PROVE  FlowInv'
<1>1. TypeInv /\ rx.staging \in Seq(Producers) /\ got \in [Producers -> Nat] /\ 0 \notin Rings
  BY Names DEF BaseInv, TypeInv, ReceiverState
<1>2. PICK r \in Rings : \E n \in 1 .. Len(ring[r].q) :
         /\ rx.pc = "visit" /\ RingOnly(r) /\ rx'.pc = "space"
         /\ ring'[r].q = SubSeq(ring[r].q, n + 1, Len(ring[r].q))
         /\ rx.mode = "one" => /\ rx'.staging = rx.staging \o SubSeq(ring[r].q, 1, n) /\ got' = got
         /\ rx.mode # "one" =>
              /\ rx'.staging = rx.staging
              /\ got' = [p \in Producers |-> got[p] + Count(p, SubSeq(ring[r].q, 1, n))]
         /\ prod' = prod
  BY DrainIs
<1>3. PICK n \in 1 .. Len(ring[r].q) :
         /\ rx.pc = "visit" /\ RingOnly(r) /\ rx'.pc = "space"
         /\ ring'[r].q = SubSeq(ring[r].q, n + 1, Len(ring[r].q))
         /\ rx.mode = "one" => /\ rx'.staging = rx.staging \o SubSeq(ring[r].q, 1, n) /\ got' = got
         /\ rx.mode # "one" =>
              /\ rx'.staging = rx.staging
              /\ got' = [p \in Producers |-> got[p] + Count(p, SubSeq(ring[r].q, 1, n))]
         /\ prod' = prod
  BY <1>2
<1> DEFINE q == ring[r].q
           out == SubSeq(q, 1, n)
           left == SubSeq(q, n + 1, Len(q))
<1>4. q \in Seq(Producers) /\ n \in 0 .. Len(q)
  BY <1>1, <1>3 DEF TypeInv, RingState
<1>5. /\ out \in Seq(Producers) /\ left \in Seq(Producers)
      /\ ToSet(out) \subseteq ToSet(q) /\ ToSet(left) \subseteq ToSet(q)
  BY <1>4, Slices, SliceSet
<1>6. \A o \in Rings : o # r => ring'[o] = ring[o]
  BY <1>3 DEF RingOnly
<1>7. \A p \in Producers : Count(p, q) = Count(p, out) + Count(p, left)
  BY <1>4, CountIs
<1>8. \A p \in Producers : Count(p, rx.staging \o out) = Count(p, rx.staging) + Count(p, out)
  BY <1>1, <1>5, CountIs
<1> HIDE DEF q, out, left
<1>9. ring'[r].q = left
  BY <1>3 DEF q, left
<1>10. \A p \in Producers : got'[p] + Count(p, rx'.staging) = got[p] + Count(p, rx.staging) + Count(p, out)
  <2> SUFFICES ASSUME NEW p \in Producers
               PROVE  got'[p] + Count(p, rx'.staging) = got[p] + Count(p, rx.staging) + Count(p, out)
    OBVIOUS
  <2>1. got[p] \in Nat /\ Count(p, rx.staging) \in Nat /\ Count(p, out) \in Nat
    BY <1>1, <1>5, CountType
  <2>2. CASE rx.mode = "one"
    <3>1. rx'.staging = rx.staging \o out /\ got' = got
      BY <1>3, <2>2 DEF q, out
    <3> QED
      BY <1>8, <2>1, <3>1
  <2>3. CASE rx.mode # "one"
    <3>1. rx'.staging = rx.staging /\ got'[p] = got[p] + Count(p, out)
      BY <1>3, <2>3 DEF q, out
    <3> QED
      BY <2>1, <3>1
  <2> QED
    BY <2>2, <2>3
<1>11. \A p \in Producers : prod'[p].pc = "unborn" => prod'[p].ring = 0 /\ prod'[p].sent = 0
  BY <1>3 DEF FlowInv
<1>12. ASSUME NEW p \in Producers
       PROVE  /\ prod'[p].sent = got'[p] + Count(p, rx'.staging) + InRing(p)'
              /\ \A x \in Rings : p \in ToSet(ring'[x].q) => prod'[p].ring = x
  <2>1. /\ prod[p].sent = got[p] + Count(p, rx.staging) + InRing(p)
        /\ \A x \in Rings : p \in ToSet(ring[x].q) => prod[p].ring = x
    BY <1>3 DEF FlowInv, Alive
  <2>2. /\ got[p] \in Nat /\ Count(p, rx.staging) \in Nat /\ InRing(p) \in Nat /\ Count(p, out) \in Nat
        /\ Count(p, left) \in Nat /\ prod[p].ring \in Rings \cup {0}
    <3>1. prod[p].ring \in Rings \cup {0}
      BY <1>1, Names DEF TypeInv, SenderState
    <3> QED
      BY <1>1, <1>5, <3>1, CountType, InRingIs
  <2>3. InRing(p) = InRing(p)' + Count(p, out)
    <3>1. CASE prod[p].ring = r
      <4>1. InRing(p) = Count(p, q) /\ InRing(p)' = Count(p, left)
        BY <1>1, <1>3, <1>9, <3>1, InRingIs DEF InRing, q
      <4> QED
        BY <1>7, <2>2, <4>1
    <3>2. CASE prod[p].ring # r
      <4>1. InRing(p)' = InRing(p)
        BY <1>3, <1>6, <2>2, <3>2, InRingIs DEF InRing
      <4>2. p \notin ToSet(out)
        BY <1>5, <2>1, <3>2 DEF q
      <4>3. Count(p, out) = 0
        BY <1>5, <4>2, CountType
      <4> QED
        BY <2>2, <4>1, <4>3
    <3> QED
      BY <3>1, <3>2
  <2>4. prod'[p].sent = got'[p] + Count(p, rx'.staging) + InRing(p)'
    <3>1. InRing(p)' \in Nat \/ InRing(p)' = 0
      BY <1>1, <1>3, <1>6, <1>9, <2>2, CountType, InRingIs DEF InRing
    <3> QED
      BY <1>3, <1>10, <2>1, <2>2, <2>3, <3>1
  <2>5. \A x \in Rings : p \in ToSet(ring'[x].q) => prod'[p].ring = x
    BY <1>3, <1>5, <1>6, <1>9, <2>1 DEF q
  <2> QED
    BY <2>4, <2>5
<1> QED
  BY <1>11, <1>12 DEF FlowInv, Count

\* The receiver's other steps leave the rings' values alone and lose nothing
\* that is staged.
LEMMA HandsOn ==
  ASSUME BaseInv, OwnInv, Receives
  PROVE  \/ Drain
         \/ /\ \A r \in Rings : ring'[r].q = ring[r].q
            /\ Alive' => \A p \in Producers :
                 got'[p] + Count(p, rx'.staging) = got[p] + Count(p, rx.staging)
<1> DEFINE Kept == \A r \in Rings : ring'[r].q = ring[r].q
           Same == rx'.staging = rx.staging /\ got' = got
           Sum == \A p \in Producers : got'[p] + Count(p, rx'.staging) = got[p] + Count(p, rx.staging)
           Goal == Kept /\ (Alive' => Sum)
<1>1. TypeInv /\ rx.staging \in Seq(Producers) /\ got \in [Producers -> Nat]
  BY DEF BaseInv, TypeInv, ReceiverState
<1>2. Kept /\ (Same \/ ~Alive') => Goal
  OBVIOUS
<1>3. ring' = ring => Kept
  OBVIOUS
<1>4. CASE \E call \in Calls : StartRecv(call[1], call[2])
  <2>1. PICK n \in 0 .. Len(rx.staging) : Begins(rx'.mode, rx'.phase, n)
    BY <1>4, BeginIs
  <2> DEFINE out == SubSeq(rx.staging, 1, n)
             left == SubSeq(rx.staging, n + 1, Len(rx.staging))
  <2>2. /\ rx'.staging = left /\ got' = [p \in Producers |-> got[p] + Count(p, out)] /\ ring' = ring
    BY <2>1 DEF Begins, mine
  <2>3. out \in Seq(Producers) /\ left \in Seq(Producers)
    BY <1>1, Slices
  <2>4. \A p \in Producers : Count(p, rx.staging) = Count(p, out) + Count(p, left)
    BY <1>1, CountIs
  <2> HIDE DEF out, left
  <2>5. \A p \in Producers : got[p] \in Nat /\ Count(p, out) \in Nat /\ Count(p, left) \in Nat
    BY <1>1, <2>3, CountType
  <2>6. Sum
    BY <2>2, <2>4, <2>5
  <2> QED
    BY <1>3, <2>2, <2>6
<1>5. CASE Refresh
  <2>1. ring' = ring /\ Same
    BY <1>1, <1>5, RefreshIs DEF mine
  <2> QED
    BY <1>2, <1>3, <2>1
<1>6. CASE DrainEmpty
  <2>1. ring' = ring /\ Same
    BY <1>1, <1>6, DrainEmptyIs DEF mine, SameCall
  <2> QED
    BY <1>2, <1>3, <2>1
<1>7. CASE NotFinished
  <2>1. ring' = ring /\ Same
    BY <1>7, NotFinishedIs DEF mine, SameVisit
  <2> QED
    BY <1>2, <1>3, <2>1
<1>8. CASE Miss
  <2>1. ring' = ring /\ Same
    BY <1>8, MissIs DEF mine
  <2> QED
    BY <1>2, <1>3, <2>1
<1>9. CASE ArmReceiver \/ PollRecv
  <2>1. ring' = ring /\ Same
    BY <1>9, RepollIs DEF mine, Passing
  <2> QED
    BY <1>2, <1>3, <2>1
<1>10. CASE Ready
  <2>1. /\ ring' = ring
        /\ rx.mode # "one" => Same
        /\ rx.mode = "one" =>
             /\ rx.staging # <<>> /\ rx'.staging = Tail(rx.staging)
             /\ got' = [p \in Producers |-> got[p] + Count(p, <<Head(rx.staging)>>)]
    BY <1>10, ReadyIs DEF mine
  <2>2. ASSUME rx.mode = "one" PROVE Sum
    <3> DEFINE one == <<Head(rx.staging)>>
               left == Tail(rx.staging)
    <3>1. one \in Seq(Producers) /\ left \in Seq(Producers)
      BY <1>1, <2>1, <2>2
    <3>2. \A p \in Producers : Count(p, rx.staging) = Count(p, one) + Count(p, left)
      BY <1>1, <2>1, <2>2, CountIs
    <3>3. rx'.staging = left /\ got' = [p \in Producers |-> got[p] + Count(p, one)]
      BY <2>1, <2>2
    <3> HIDE DEF one, left
    <3>4. \A p \in Producers : got[p] \in Nat /\ Count(p, one) \in Nat /\ Count(p, left) \in Nat
      BY <1>1, <3>1, CountType
    <3> QED
      BY <3>2, <3>3, <3>4
  <2> QED
    BY <1>2, <1>3, <2>1, <2>2
<1>11. CASE CancelRecv \/ ReceiverDrop
  <2>1. ring' = ring /\ (Same \/ rx'.pc = "shut")
    BY <1>11, StopIs DEF mine
  <2> QED
    BY <1>2, <1>3, <2>1 DEF Alive
<1>12. CASE AppendInbox
  <2>1. ring' = ring /\ Same
    BY <1>1, <1>12, AppendInboxIs DEF mine
  <2> QED
    BY <1>2, <1>3, <2>1
<1>13. CASE NotifySpace \/ WakeSpace
  <2>1. ring' = ring /\ Same
    BY <1>13, NotifySpaceIs, WakeSpaceIs DEF SameCall
  <2> QED
    BY <1>2, <1>3, <2>1
<1>14. CASE Recycle
  <2>1. PICK r \in Rings : /\ Finished(r) /\ SameVisit(rx.steps - 1) /\ got' = got
                           /\ ring' = ring \/ (RingOnly(r) /\ ring'[r] = FreshRing)
    BY <1>14, RecycleIs
  <2>2. FreshRing.q = <<>> /\ ring[r].q = <<>>
    BY <2>1 DEF FreshRing, Finished
  <2>3. Kept
    BY <2>1, <2>2 DEF RingOnly
  <2> QED
    BY <1>2, <2>1, <2>3 DEF SameVisit
<1>15. CASE Prune
  <2>1. PICK r \in Rings : /\ SameVisit(IF shards' = <<>> THEN 0 ELSE rx.steps - 1) /\ got' = got
                           /\ ring' = ring \/ (RingOnly(r) /\ ring'[r].q = ring[r].q)
    BY <1>15, PruneIs
  <2>2. Kept
    BY <2>1 DEF RingOnly
  <2> QED
    BY <1>2, <2>1, <2>2 DEF SameVisit
<1>16. CASE ShutShard \/ ShutNotify
  <2>1. rx'.pc \in {"shut", "shutnotify", "gone"}
    BY <1>16, ShutShardIs, ShutNotifyIs
  <2>2. Kept
    <3>1. CASE ShutNotify
      BY <3>1, ShutNotifyIs
    <3>2. CASE ShutShard
      BY <3>2, ShutShardIs DEF RingOnly
    <3> QED
      BY <1>16, <3>1, <3>2
  <2> QED
    BY <1>2, <2>1, <2>2 DEF Alive
<1>17. CASE DropInbox
  <2>1. PICK r \in Rings : rx.pc = "gone" /\ rx' = rx /\ RingOnly(r) /\ ring'[r].q = ring[r].q
    BY <1>17, DropInboxIs
  <2>2. Kept
    BY <2>1 DEF RingOnly
  <2> QED
    BY <1>2, <2>1, <2>2 DEF Alive
<1> QED
  BY <1>4, <1>5, <1>6, <1>7, <1>8, <1>9, <1>10, <1>11, <1>12, <1>13, <1>14, <1>15, <1>16, <1>17 DEF Receives

\* Every value sent stays in its sender's ring, is staged or was delivered.
LEMMA FlowStep ==
  ASSUME BaseInv, OwnInv, KnownInv, FlowInv, [Next]_vars
  PROVE  FlowInv'
<1> USE Names
<1>1. TypeInv /\ prod \in [Senders -> SenderState]
  BY DEF BaseInv, TypeInv
<1>2. Alive' => Alive
  BY AliveIs
<1>3. ASSUME \A p \in Producers : /\ prod'[p].ring = prod[p].ring /\ prod'[p].sent = prod[p].sent
                                  /\ prod'[p].pc = "unborn" => prod[p].pc = "unborn",
             \A r \in Rings : ring'[r].q = ring[r].q, rx'.staging = rx.staging, got' = got
      PROVE  FlowInv'
  BY <1>1, <1>2, <1>3, FlowKept
<1>4. CASE Receives
  <2>1. \A p \in Producers : /\ prod'[p].ring = prod[p].ring /\ prod'[p].sent = prod[p].sent
                             /\ prod'[p].pc = "unborn" => prod[p].pc = "unborn"
    BY <1>4, ReceivesIs DEF Unmoved
  <2>2. CASE Drain
    BY <2>2, FlowDrain
  <2>3. CASE ~Drain
    BY <1>1, <1>2, <1>4, <2>1, <2>3, HandsOn, FlowKept
  <2> QED
    BY <2>2, <2>3
<1>5. ASSUME NEW p \in Producers, Sends(p) PROVE FlowInv'
  BY <1>5, FlowSends
<1>6. ASSUME NEW p \in Producers, Claim(p) PROVE FlowInv'
  <2>1. /\ Others(p) /\ prod[p].pc = "unborn" /\ prod'[p].ring \in free /\ prod'[p].pc = "idle"
        /\ prod'[p].sent = 0 /\ UNCHANGED <<ring, rx, got>>
    BY <1>1, <1>6, ClaimIs DEF rest
  <2>2. prod'[p].ring \in Rings /\ ring[prod'[p].ring].q = <<>>
    BY <1>1, <2>1 DEF TypeInv, OwnInv, CleanInv, Clean
  <2>3. \A o \in Producers : o # p => prod'[o] = prod[o]
    BY <2>1 DEF Others
  <2> QED
    BY <2>1, <2>2, <2>3, FlowJoins
<1>7. ASSUME NEW p \in Producers, Deposited(p) PROVE FlowInv'
  <2>1. /\ prod[Handle].pc = "deposit" /\ prod[p].pc = "unborn" /\ prod'[p].ring = prod[Handle].ring
        /\ prod'[p].pc = "idle" /\ prod'[p].sent = 0 /\ UNCHANGED <<ring, rx, got>>
        /\ \A s \in Senders : s # p /\ s # Handle => prod'[s] = prod[s]
    BY <1>1, <1>7, DepositedIs
  <2>2. prod'[p].ring \in Rings /\ ring[prod'[p].ring].q = <<>>
    BY <2>1 DEF OwnInv, CleanInv, Clean, Depositing
  <2>3. \A o \in Producers : o # p => prod'[o] = prod[o]
    BY <2>1
  <2> QED
    BY <2>1, <2>2, <2>3, FlowJoins
<1>8. ASSUME NEW p \in Producers, Deposit(p) PROVE FlowInv'
  <2>1. PICK r \in Rings :
          /\ Others(Handle) /\ RingOnly(r) /\ ring'[r] = FreshRing /\ UNCHANGED <<rx, got>>
          /\ \/ freelist # <<>> /\ r = Last(freelist)
             \/ ~InMemory(r)
    BY <1>1, <1>8, DepositIs
  <2>2. \A o \in Producers : prod'[o] = prod[o]
    BY <2>1 DEF Others
  <2>3. Alive => ring[r].q = <<>>
    <3>1. CASE freelist # <<>> /\ r = Last(freelist)
      <4>1. r \in ToSet(freelist)
        BY <1>1, <3>1, FrontIs DEF TypeInv
      <4> QED
        BY <4>1 DEF OwnInv, ListInv
    <3>2. CASE ~InMemory(r)
      BY <3>2 DEF InMemory, KnownInv, Known
    <3> QED
      BY <2>1, <3>1, <3>2
  <2>4. CASE Alive
    <3>1. ring'[r].q = ring[r].q
      BY <2>1, <2>3, <2>4 DEF FreshRing
    <3>2. \A x \in Rings : ring'[x].q = ring[x].q
      BY <2>1, <3>1 DEF RingOnly
    <3> QED
      BY <1>3, <2>1, <2>2, <3>2
  <2>5. CASE ~Alive
    <3>1. ~Alive'
      BY <1>2, <2>5
    <3> QED
      BY <2>2, <3>1 DEF FlowInv
  <2> QED
    BY <2>4, <2>5
<1>9. ASSUME NEW s \in Senders, Leaves(s) PROVE FlowInv'
  <2>1. /\ Others(s) /\ prod'[s].ring = prod[s].ring /\ prod'[s].sent = prod[s].sent /\ prod'[s].pc # "unborn"
        /\ ring' = ring /\ got' = got
    BY <1>1, <1>9, LeavesIs DEF rest, SenderState
  <2>2. rx'.staging = rx.staging
    <3>1. SenderSide
      BY <1>9 DEF SenderSide
    <3> QED
      BY <3>1, SenderSideIs DEF SameRx
  <2>3. \A p \in Producers : /\ prod'[p].ring = prod[p].ring /\ prod'[p].sent = prod[p].sent
                             /\ prod'[p].pc = "unborn" => prod[p].pc = "unborn"
    BY <2>1 DEF Others
  <2> QED
    BY <1>3, <2>1, <2>2, <2>3
<1>10. CASE Register \/ HandleDrop \/ SkipLingering
  <2>1. \A p \in Producers : prod'[p] = prod[p]
    BY <1>1, <1>10, HandleIs, SkipLingeringIs DEF Others
  <2>2. \A r \in Rings : ring'[r].q = ring[r].q
    <3>1. CASE Register \/ HandleDrop
      BY <1>1, <3>1, HandleIs
    <3>2. CASE SkipLingering
      BY <1>1, <3>2, SkipLingeringIs DEF RingOnly
    <3> QED
      BY <1>10, <3>1, <3>2
  <2>3. SenderSide
    BY <1>10 DEF SenderSide
  <2>4. rx'.staging = rx.staging /\ got' = got
    BY <2>3, SenderSideIs DEF SameRx
  <2> QED
    BY <1>3, <2>1, <2>2, <2>4
<1>11. CASE UNCHANGED vars
  BY <1>3, <1>11 DEF vars
<1> QED
  BY <1>4, <1>5, <1>6, <1>7, <1>8, <1>9, <1>10, <1>11, NextIs

-----------------------------------------------------------------------------
(* The end of the stream.                                                  *)

\* What a call has staged and taken.
LEMMA CallStep ==
  ASSUME BaseInv, OwnInv, CallInv, [Next]_vars
  PROVE  CallInv'
<1>1. TypeInv /\ rx \in ReceiverState /\ rx.pushed \in Nat
  BY DEF BaseInv, TypeInv, ReceiverState
<1>2. CASE SenderSide
  BY <1>2, SenderSideIs DEF SameRx, CallInv, Alive
<1>3. ASSUME rx'.mode = rx.mode, rx'.phase = rx.phase, rx'.staging = rx.staging, rx'.pushed = rx.pushed,
             rx.pc \notin {"idle", "ready", "space", "spacewake"}, Alive,
             rx'.pc \in {"append", "visit", "finished", "miss", "ready", "refresh"}
      PROVE  CallInv'
  BY <1>3 DEF CallInv, Alive
<1>4. CASE \E call \in Calls : StartRecv(call[1], call[2])
  <2>1. PICK n \in 0 .. Len(rx.staging) : Begins(rx'.mode, rx'.phase, n)
    BY <1>4, BeginIs
  <2> QED
    BY <2>1 DEF Begins, CallInv, Alive
<1>5. CASE Refresh
  BY <1>1, <1>3, <1>5, RefreshIs DEF Alive
<1>6. CASE AppendInbox
  BY <1>1, <1>3, <1>6, AppendInboxIs DEF Alive
<1>7. CASE DrainEmpty
  BY <1>1, <1>3, <1>7, DrainEmptyIs DEF SameCall, Alive
<1>8. CASE NotFinished
  BY <1>3, <1>8, NotFinishedIs DEF SameVisit, Alive
<1>9. CASE Recycle
  BY <1>3, <1>9, RecycleIs DEF SameVisit, Alive
<1>10. CASE Prune
  BY <1>3, <1>10, PruneIs DEF SameVisit, Alive
<1>11. CASE Drain
  <2>1. PICK r \in Rings : \E n \in 1 .. Len(ring[r].q) :
           /\ rx.pc = "visit" /\ rx'.pc = "space" /\ rx'.mode = rx.mode /\ rx'.phase = rx.phase
           /\ rx.mode # "one" => rx'.staging = rx.staging /\ rx'.pushed = rx.pushed + n
    BY <1>11, DrainIs
  <2>2. rx.mode # "one" => rx'.pushed > 0
    BY <1>1, <2>1 DEF TypeInv, RingState
  <2> QED
    BY <2>1, <2>2 DEF CallInv, Alive
<1>12. CASE NotifySpace \/ WakeSpace
  <2>1. rx.pc \in {"space", "spacewake"} /\ SameCall /\ (rx' = AfterDrain(rx) \/ rx'.pc = "spacewake")
    BY <1>12, NotifySpaceIs, WakeSpaceIs
  <2>2. AfterDrain(rx).pc \in {"ready", "visit", "miss"} /\ (rx.mode = "one" => AfterDrain(rx).pc = "ready")
    BY <1>1, AfterDrainIs
  <2>3. rx'.pc = "spacewake" \/ (rx'.pc \in {"ready", "visit", "miss"} /\ (rx.mode = "one" => rx'.pc = "ready"))
    BY <2>1, <2>2
  <2>4. rx.mode \in {"one", "many", "drain"}
    BY <1>1 DEF ReceiverState
  <2> QED
    BY <2>1, <2>3, <2>4 DEF CallInv, Alive, SameCall
<1>13. CASE Miss
  BY <1>13, MissIs DEF Passing, CallInv, Alive
<1>14. CASE ArmReceiver \/ PollRecv
  BY <1>14, RepollIs DEF Passing, CallInv, Alive
<1>15. CASE Ready
  BY <1>15, ReadyIs DEF CallInv, Alive
<1>16. CASE CancelRecv
  BY <1>16, StopIs DEF CallInv, Alive, CancelRecv
<1>17. CASE ReceiverDrop
  <2>1. rx'.pc = "shut" /\ rx'.staging = <<>> /\ rx'.mode = "one" /\ rx'.phase = 0
    BY <1>1, <1>17 DEF ReceiverDrop, ReceiverState
  <2> QED
    BY <2>1 DEF CallInv, Alive
<1>18. CASE ShutShard \/ ShutNotify
  <2>1. rx.pc \in {"shut", "shutnotify"} /\ rx'.pc \in {"shut", "shutnotify", "gone"} /\ SameCall
    BY <1>18, ShutShardIs, ShutNotifyIs
  <2> QED
    BY <2>1 DEF CallInv, Alive, SameCall
<1>19. CASE DropInbox
  BY <1>19, DropInboxIs DEF CallInv, Alive
<1> QED
  BY <1>2, <1>4, <1>5, <1>6, <1>7, <1>8, <1>9, <1>10, <1>11, <1>12, <1>13, <1>14, <1>15, <1>16, <1>17, <1>18, <1>19,
     NextIs DEF Receives, SenderSide

\* A number is a multiple and a remainder.
LEMMA Remainder ==
  ASSUME NEW a \in Nat, NEW n \in Nat \ {0}
  PROVE  a \div n \in Nat /\ a % n \in 0 .. n - 1 /\ a = n * (a \div n) + (a % n)
  OBVIOUS

\* The multiples of n that are about as large as n.
LEMMA SmallMultiple ==
  ASSUME NEW n \in Nat \ {0}, NEW z \in Int, -n < n * z, n * z <= n
  PROVE  z \in {0, 1}
<1>1. z >= 2 => n * z >= n * 2
  BY Z3
<1>2. z <= -1 => n * z <= n * (-1)
  BY Z3
<1> QED
  BY <1>1, <1>2

\* A bumped cursor moves on by one shard, although it is kept modulo a period.
LEMMA BumpedMod ==
  ASSUME NEW c \in Nat, NEW n \in Nat \ {0}, NEW P \in Nat \ {0}, P % n = 0
  PROVE  ((c + 1) % P) % n = IF (c % n) + 1 = n THEN 0 ELSE (c % n) + 1
<1> DEFINE m == P \div n
           d == (c + 1) \div P
           e == (c + 1) % P
           b == e \div n
           j == e % n
           a == c \div n
           i == c % n
           z == m * d + b - a
<1>1. m \in Nat /\ P = n * m
  BY Remainder
<1>2. d \in Nat /\ e \in Nat /\ c + 1 = P * d + e
  BY Remainder
<1>3. b \in Nat /\ j \in 0 .. n - 1 /\ e = n * b + j
  BY <1>2, Remainder
<1>4. a \in Nat /\ i \in 0 .. n - 1 /\ c = n * a + i
  BY Remainder
<1> HIDE DEF m, d, e, b, j, a, i
<1>5. z \in Int /\ m * d \in Int /\ n * z = n * (m * d) + n * b - n * a
  BY <1>1, <1>2, <1>3, <1>4
<1>6. P * d = n * (m * d)
  BY <1>1, <1>2
<1>7. n * z = i + 1 - j
  BY <1>2, <1>3, <1>4, <1>5, <1>6
<1> HIDE DEF z
<1>8. z \in {0, 1}
  BY <1>3, <1>4, <1>5, <1>7, SmallMultiple
<1>9. (z = 0 => j = i + 1) /\ (z = 1 => j = i + 1 - n)
  BY <1>3, <1>4, <1>7, <1>8
<1>10. j = IF i + 1 = n THEN 0 ELSE i + 1
  BY <1>3, <1>4, <1>8, <1>9
<1> QED
  BY <1>10 DEF i, j, e

\* There are NumRings rings.
LEMMA RingsFinite == NumRings \in Nat /\ IsFiniteSet(Rings) /\ Cardinality(Rings) = NumRings
<1>1. NumRings \in Nat \ {0}
  BY BoundsAssumption
<1>2. \A m \in Nat : IsFiniteSet(1 .. m) /\ Cardinality(1 .. m) = m
  BY FS_Interval
<1> QED
  BY <1>1, <1>2 DEF Rings

\* Passing a shard puts it behind the cursor; after the last step all are.
LEMMA PassOne ==
  ASSUME BaseInv, OwnInv, shards # <<>>, rx.steps > 0, rx.steps <= Len(shards),
         shards' = shards, rx'.cursor = Bumped, rx'.steps = rx.steps - 1
  PROVE  /\ \A x \in 1 .. Len(shards) : Behind(x)' => x = At \/ Behind(x)
         /\ rx.steps = 1 => \A x \in 1 .. Len(shards) : Behind(x)'
<1> DEFINE n == Len(shards)
           i == rx.cursor % n
           k == n - rx.steps
           j == IF i + 1 = n THEN 0 ELSE i + 1
<1>1. TypeInv /\ shards \in Seq(Rings) /\ n \in Nat \ {0} /\ rx.cursor \in Nat /\ rx.steps \in Nat
  BY DEF BaseInv, TypeInv, ReceiverState
<1>2. n \in 1 .. NumRings
  <2>1. IsFiniteSet(Rings) /\ Cardinality(Rings) = NumRings /\ NumRings \in Nat
    BY RingsFinite
  <2>2. n <= NumRings
    BY <1>1, <2>1, DistinctCount DEF OwnInv, ListInv
  <2> QED
    BY <1>1, <2>1, <2>2
<1>3. CursorPeriod \in Nat \ {0} /\ CursorPeriod % n = 0
  BY <1>2, BoundsAssumption
<1>4. i \in 0 .. n - 1
  BY <1>1, Remainder
<1>5. Bumped % n = j
  BY <1>1, <1>3, BumpedMod DEF Bumped
<1>6. k \in 0 .. n - 1 /\ n - (rx.steps - 1) = k + 1 /\ (rx.steps = 1 => k + 1 = n) /\ j \in 0 .. n - 1
  BY <1>1, <1>4
<1>7. /\ \A x \in 1 .. n : Behind(x) <=> Passed(x, i, k, n)
      /\ \A x \in 1 .. n : Behind(x)' <=> Passed(x, j, n - (rx.steps - 1), n)
      /\ At = i + 1
  BY <1>5 DEF Behind, At, Passed
<1> HIDE DEF n, i, k, j
<1>8. ASSUME NEW x \in 1 .. n, Behind(x)' PROVE x = At \/ Behind(x)
  <2>1. Passed(x, j, k + 1, n)
    BY <1>6, <1>7, <1>8
  <2>2. x = i + 1 \/ Passed(x, i, k, n)
    BY <1>1, <1>4, <1>6, <2>1, PassedIs DEF j
  <2> QED
    BY <1>7, <2>2
<1>9. ASSUME rx.steps = 1, NEW x \in 1 .. n PROVE Behind(x)'
  <2>1. Passed(x, j, n, n)
    BY <1>1, <1>6, PassedIs
  <2> QED
    BY <1>6, <1>7, <1>9, <2>1
<1> QED
  BY <1>8, <1>9 DEF n

\* A final sweep begins when the receiver finds nobody left.
LEMMA SweepBegins ==
  ASSUME BaseInv, OwnInv, [Next]_vars, rx'.phase \in {2, 4}, rx.phase \notin {2, 4}
  PROVE  /\ Passing(rx'.phase) /\ live = 0 /\ rx.pushed = 0
         /\ UNCHANGED <<tier, live, ring, shards, inbox>>
<1>1. TypeInv
  BY DEF BaseInv
<1>2. CASE Miss
  <2>1. /\ rx'.phase = rx.phase \/ (live = 0 /\ Passing(2)) \/ (live = 0 /\ Passing(4))
        /\ rx.pushed = 0 /\ UNCHANGED <<tier, live, ring, shards, inbox>>
    BY <1>2, MissIs DEF mine
  <2> QED
    BY <2>1 DEF Passing
<1>3. CASE SenderSide
  BY <1>3, SenderSideIs DEF SameRx
<1>4. CASE \E call \in Calls : StartRecv(call[1], call[2])
  <2>1. PICK n \in 0 .. Len(rx.staging) : Begins(rx'.mode, rx'.phase, n)
    BY <1>4, BeginIs
  <2>2. rx'.phase \in {0, 1}
    BY <2>1 DEF Begins
  <2> QED
    BY <2>2
<1>5. CASE Refresh
  BY <1>1, <1>5, RefreshIs
<1>6. CASE AppendInbox
  BY <1>1, <1>6, AppendInboxIs
<1>7. CASE DrainEmpty
  BY <1>1, <1>7, DrainEmptyIs DEF SameCall
<1>8. CASE NotFinished
  BY <1>8, NotFinishedIs DEF SameVisit
<1>9. CASE Recycle
  BY <1>9, RecycleIs DEF SameVisit
<1>10. CASE Prune
  BY <1>10, PruneIs DEF SameVisit
<1>11. CASE Drain
  BY <1>11, DrainIs
<1>12. CASE NotifySpace \/ WakeSpace
  BY <1>12, NotifySpaceIs, WakeSpaceIs DEF SameCall
<1>13. CASE ArmReceiver \/ PollRecv
  <2>1. rx'.phase \in {1, 3}
    BY <1>13, RepollIs DEF Passing
  <2> QED
    BY <2>1
<1>14. CASE Ready
  BY <1>14, ReadyIs
<1>15. CASE CancelRecv \/ ReceiverDrop
  <2>1. rx'.phase = 0
    BY <1>15, StopIs
  <2> QED
    BY <2>1
<1>16. CASE ShutShard \/ ShutNotify
  BY <1>16, ShutShardIs, ShutNotifyIs DEF SameCall
<1>17. CASE DropInbox
  BY <1>17, DropInboxIs
<1> QED
  BY <1>2, <1>3, <1>4, <1>5, <1>6, <1>7, <1>8, <1>9, <1>10, <1>11, <1>12, <1>13, <1>14, <1>15, <1>16, <1>17,
     NextIs DEF Receives, SenderSide

\* A pass that begins has passed nothing.
LEMMA NoneBehind ==
  ASSUME shards' \in Seq(Rings), rx' \in ReceiverState, rx'.steps = Len(shards')
  PROVE  \A x \in 1 .. Len(shards') : ~Behind(x)'
<1> DEFINE n == Len(shards')
           c == rx'.cursor
           i == c % n
<1> SUFFICES ASSUME NEW x \in 1 .. n PROVE ~Behind(x)'
  OBVIOUS
<1>1. n \in Nat \ {0} /\ c \in Nat /\ n - n = 0
  BY DEF ReceiverState
<1>2. Behind(x)' <=> Passed(x, i, n - n, n)
  BY DEF Behind, Passed
<1> HIDE DEF n, c
<1>3. i \in 0 .. n - 1
  BY <1>1, Remainder
<1> HIDE DEF i
<1> QED
  BY <1>1, <1>2, <1>3, PassedIs

\* A final sweep begins.
LEMMA PassBegins ==
  ASSUME BaseInv, shards' \in Seq(Rings), rx' \in ReceiverState, live' = 0, rx'.pc \in {"visit", "miss", "ready"},
         rx'.steps = Len(shards'), rx'.pc = "miss" => shards' = <<>>, inbox'.queue = <<>>
  PROVE  FinalInv'
<1>1. \A x \in 1 .. Len(shards') : ~Behind(x)'
  BY NoneBehind
<1>2. rx'.pc = "miss" => 1 .. Len(shards') = {}
  OBVIOUS
<1>3. rx'.steps <= Len(shards')
  OBVIOUS
<1> QED
  BY <1>1, <1>2, <1>3 DEF FinalInv

\* What the final sweep knows while the rings, the shards and the cursor stay.
LEMMA FinalKept ==
  ASSUME FinalInv, live' = live, tier' = tier, shards' = shards, inbox'.queue = inbox.queue, ring' = ring,
         rx'.phase = rx.phase, rx'.cursor = rx.cursor, rx'.steps = rx.steps, rx'.pushed = rx.pushed,
         \/ rx'.pc = rx.pc
         \/ rx.pc = "visit" /\ rx'.pc = "finished" /\ ring[shards[At]].q = <<>>
         \/ rx.pc \notin {"refresh", "append"} /\ rx'.pc \in {"idle", "ready", "spacewake", "space"}
         \/ rx.pc = "miss" /\ rx'.pc = "ended"
         \/ rx.pc \notin {"refresh", "append"} /\ rx'.pc = "visit" /\ rx.pushed > 0 /\ rx.pushed \in Nat
  PROVE  FinalInv'
<1>1. At' = At /\ \A x \in 1 .. Len(shards) : Behind(x)' <=> Behind(x)
  BY DEF At, Behind, Passed
<1>2. \A x \in 1 .. Len(shards) : ring'[shards[x]].q = ring[shards[x]].q
  OBVIOUS
<1> SUFFICES ASSUME rx.phase \in {2, 4} PROVE FinalInv'
  BY DEF FinalInv
<1>3. live' = 0 /\ (rx'.pc \notin {"refresh", "append"} => inbox'.queue = <<>>)
  BY DEF FinalInv
<1>4. rx'.pc \in {"visit", "finished"} /\ rx'.pushed = 0 =>
        IF tier = "pool" THEN rx.steps <= Len(shards) /\ \A x \in 1 .. Len(shards) : Behind(x) => ring[shards[x]].q = <<>>
        ELSE rx.steps = Len(shards)
  BY DEF FinalInv
<1>5. rx'.pc = "finished" => ring[shards[At]].q = <<>>
  BY DEF FinalInv
<1>6. rx'.pc \in {"miss", "ended"} => \A x \in 1 .. Len(shards) : ring[shards[x]].q = <<>>
  BY DEF FinalInv
<1>7. rx'.pc \in {"visit", "finished"} /\ rx'.pushed = 0 =>
        IF tier' = "pool" THEN rx'.steps <= Len(shards') /\ \A x \in 1 .. Len(shards') : Behind(x)' => ring'[shards'[x]].q = <<>>
        ELSE rx'.steps = Len(shards')
  BY <1>1, <1>2, <1>4
<1> QED
  BY <1>1, <1>3, <1>5, <1>6, <1>7 DEF FinalInv

\* The rings that the final sweep has passed stay empty.
LEMMA FinalStep ==
  ASSUME BaseInv, OwnInv, LiveInv, KnownInv, InboxInv, CallInv, FinalInv, [Next]_vars
  PROVE  FinalInv'
<1> SUFFICES ASSUME rx'.phase \in {2, 4} PROVE FinalInv'
  BY DEF FinalInv
<1>1. /\ TypeInv /\ shards \in Seq(Rings) /\ rx \in ReceiverState /\ rx.pushed \in Nat /\ rx.steps \in Nat
      /\ inbox.queue \in Seq(Rings) /\ Len(shards) \in Nat /\ PlaceInv
  BY DEF BaseInv, TypeInv, ReceiverState
<1>2. CASE rx.phase \notin {2, 4}
  <2>1. /\ Passing(rx'.phase) /\ live = 0 /\ rx.pushed = 0
        /\ UNCHANGED <<tier, live, ring, shards, inbox>>
    BY <1>2, SweepBegins
  <2>2. CASE tier = "dynamic"
    BY <2>1, <2>2 DEF Passing, FinalInv
  <2>3. CASE tier # "dynamic"
    <3>1. /\ inbox'.queue = <<>> /\ shards' \in Seq(Rings) /\ rx' \in ReceiverState /\ live' = 0
          /\ rx'.pc \in {"visit", "miss", "ready"} /\ rx'.steps = Len(shards') /\ (rx'.pc = "miss" => shards' = <<>>)
      BY <1>1, <2>1, <2>3 DEF Passing, InboxInv
    <3> QED
      BY <3>1, PassBegins
  <2> QED
    BY <2>2, <2>3
<1>3. CASE rx.phase \in {2, 4}
  <2>1. /\ live = 0 /\ (rx.pc \notin {"refresh", "append"} => inbox.queue = <<>>)
        /\ rx.pc = "finished" => ring[shards[At]].q = <<>>
        /\ rx.pc \in {"visit", "finished"} /\ rx.pushed = 0 =>
             IF tier = "pool" THEN rx.steps <= Len(shards) /\ \A x \in 1 .. Len(shards) : Behind(x) => ring[shards[x]].q = <<>>
             ELSE rx.steps = Len(shards)
    BY <1>3 DEF FinalInv
  <2>2. /\ \A r : ~Depositing(r) /\ \A p \in Producers : ~Using(p, r)
        /\ \/ \E s \in Senders : Leaves(s) /\ prod[s].pc \in {"notify", "wake"}
           \/ Receives
           \/ UNCHANGED vars
    BY <2>1, LastOut
  <2>3. Alive
    BY <1>3 DEF CallInv
  <2>4. ASSUME live' = 0, inbox'.queue = <<>>,
               rx'.pc \notin {"visit", "finished", "miss", "ended"} \/ (rx'.pc = "visit" /\ rx'.pushed > 0)
        PROVE  FinalInv'
    <3>1. rx'.pushed > 0 => rx'.pushed # 0
      OBVIOUS
    <3> QED
      BY <2>4, <3>1 DEF FinalInv
  <2>5. ASSUME NEW s \in Senders, Leaves(s), prod[s].pc \in {"notify", "wake"} PROVE FinalInv'
    <3>1. live' = live /\ ring' = ring /\ inbox' = inbox
      BY <1>1, <2>5, LeavesIs DEF rest
    <3>2. SenderSide
      BY <2>5 DEF SenderSide
    <3>3. SameRx /\ tier' = tier /\ shards' = shards
      BY <3>2, SenderSideIs
    <3> QED
      BY <3>1, <3>3, FinalKept DEF SameRx
  <2>6. CASE UNCHANGED vars
    BY <2>6, FinalKept DEF vars, membership
  <2>7. CASE Receives
    <3>0. live' = 0 /\ tier' = tier
      BY <2>1, <2>7, ReceivesIs
    <3>1. CASE \E call \in Calls : StartRecv(call[1], call[2])
      <4>1. PICK n \in 0 .. Len(rx.staging) : Begins(rx'.mode, rx'.phase, n)
        BY <3>1, BeginIs
      <4>2. rx'.phase \in {0, 1}
        BY <4>1 DEF Begins
      <4> QED
        BY <4>2
    <3>2. CASE Refresh
      <4>1. /\ rx' \in ReceiverState /\ UNCHANGED <<shards, inbox>>
            /\ \/ rx'.pc = "append"
               \/ /\ inbox.generation = rx.seen /\ rx'.steps = Len(shards)
                  /\ rx'.pc = IF shards = <<>> THEN (IF rx.pushed > 0 THEN "ready" ELSE "miss") ELSE "visit"
        BY <1>1, <3>2, RefreshIs
      <4>2. CASE rx'.pc = "append"
        BY <3>0, <4>2 DEF FinalInv
      <4>3. CASE rx'.pc # "append"
        <5>1. inbox.generation = rx.seen /\ rx.seen \in Nat
          BY <1>1, <4>1, <4>3 DEF ReceiverState
        <5>2. ToSet(inbox.queue) = {}
          BY <2>2, <5>1 DEF InboxInv
        <5>3. inbox.queue = <<>>
          <6>1. inbox.queue # <<>> => 1 \in DOMAIN inbox.queue
            BY <1>1
          <6>2. 1 \in DOMAIN inbox.queue => inbox.queue[1] \in ToSet(inbox.queue)
            BY DEF ToSet
          <6> QED
            BY <5>2, <6>1, <6>2
        <5>4. /\ rx'.pc \in {"visit", "miss", "ready"} /\ rx'.steps = Len(shards') /\ shards' \in Seq(Rings)
              /\ (rx'.pc = "miss" => shards' = <<>>) /\ inbox'.queue = <<>>
          BY <1>1, <4>1, <4>3, <5>3
        <5> QED
          BY <3>0, <4>1, <5>4, PassBegins
      <4> QED
        BY <4>2, <4>3
    <3>3. CASE AppendInbox
      <4>1. /\ rx' \in ReceiverState /\ inbox'.queue = <<>> /\ shards' \in Seq(Rings) /\ rx'.steps = Len(shards')
            /\ rx'.pc = IF shards' = <<>> THEN (IF rx.pushed > 0 THEN "ready" ELSE "miss") ELSE "visit"
        BY <1>1, <3>3, AppendInboxIs
      <4>2. rx'.pc \in {"visit", "miss", "ready"} /\ (rx'.pc = "miss" => shards' = <<>>)
        BY <4>1
      <4> QED
        BY <3>0, <4>1, <4>2, PassBegins
    <3>4. CASE Drain
      <4>1. rx.pc = "visit" /\ rx'.pc = "space" /\ inbox' = inbox
        BY <3>4, DrainIs
      <4> QED
        BY <2>1, <2>4, <3>0, <4>1
    <3>5. CASE NotifySpace \/ WakeSpace
      <4>1. /\ rx.pc \in {"space", "spacewake"} /\ SameCall /\ inbox' = inbox
            /\ rx' = AfterDrain(rx) \/ rx'.pc = "spacewake"
        BY <3>5, NotifySpaceIs, WakeSpaceIs
      <4>2. CASE rx'.pc = "spacewake"
        BY <2>1, <2>4, <3>0, <4>1, <4>2
      <4>3. CASE rx' = AfterDrain(rx)
        <5>1. rx'.pc \in {"ready", "visit", "miss"} /\ (rx.mode = "one" => rx'.pc = "ready")
              /\ (rx'.pc # "ready" => rx' = Visits(rx, rx.steps))
          BY <1>1, <4>3, AfterDrainIs
        <5>2. rx.mode # "one" => rx.pushed > 0
          BY <4>1 DEF CallInv
        <5>3. rx.pushed > 0 => Visits(rx, rx.steps).pc # "miss"
          BY <1>1, VisitsIs
        <5>4. rx'.pc # "ready" => rx'.pc = "visit" /\ rx'.pushed > 0
          BY <4>1, <5>1, <5>2, <5>3 DEF SameCall
        <5> QED
          BY <2>1, <2>4, <3>0, <4>1, <5>1, <5>4
      <4> QED
        BY <4>1, <4>2, <4>3
    <3>6. CASE DrainEmpty
      <4>1. /\ rx.pc = "visit" /\ rx'.pc = "finished" /\ SameCall /\ rx'.steps = rx.steps
            /\ ring[shards[At]].q = <<>> /\ UNCHANGED <<tier, live, ring, shards, inbox>>
        BY <1>1, <3>6, DrainEmptyIs DEF mine
      <4> QED
        BY <4>1, FinalKept DEF SameCall
    <3>7. CASE NotFinished \/ Recycle
      <4>1. /\ rx.pc = "finished" /\ rx.steps > 0 /\ shards # <<>> /\ SameVisit(rx.steps - 1)
            /\ rx'.cursor = Bumped /\ UNCHANGED <<shards, inbox>>
        BY <3>7, NotFinishedIs, RecycleIs
      <4>2. \A r \in Rings : ring[r].q = <<>> => ring'[r].q = <<>>
        BY <2>7, <4>1, HandsOn, DrainIs
      <4>3. CASE rx.pushed > 0
        <5>1. rx'.pc \in {"ready", "visit"} /\ rx'.pushed > 0
          BY <4>1, <4>3 DEF SameVisit
        <5> QED
          BY <2>1, <2>4, <3>0, <4>1, <5>1
      <4>4. CASE rx.pushed = 0
        <5>1. At \in 1 .. Len(shards) /\ shards[At] \in Rings /\ shards[At] \in ToSet(shards)
          BY <1>1, <4>1, AtIs
        <5>2. tier = "pool"
          <6>1. CASE NotFinished
            <7>1. ~ring[shards[At]].producer_gone
              BY <2>1, <4>1, <6>1, NotFinishedIs DEF Finished
            <7> QED
              BY <2>2, <2>3, <5>1, <7>1 DEF KnownInv, Known
          <6>2. CASE Recycle
            BY <6>2, RecycleIs
          <6> QED
            BY <3>7, <6>1, <6>2
        <5>3. /\ rx.steps <= Len(shards) /\ \A x \in 1 .. Len(shards) : Behind(x) => ring[shards[x]].q = <<>>
              /\ ring[shards[At]].q = <<>>
          BY <2>1, <4>1, <4>4, <5>2
        <5>4. rx'.steps = rx.steps - 1 /\ rx'.pushed = 0
              /\ rx'.pc = (IF rx.steps - 1 = 0 THEN "miss" ELSE "visit")
          BY <4>1, <4>4 DEF SameVisit
        <5>5. /\ \A x \in 1 .. Len(shards) : Behind(x)' => ring'[shards[x]].q = <<>>
              /\ rx.steps = 1 => \A x \in 1 .. Len(shards) : ring'[shards[x]].q = <<>>
          <6>1. /\ \A x \in 1 .. Len(shards) : Behind(x)' => x = At \/ Behind(x)
                /\ rx.steps = 1 => \A x \in 1 .. Len(shards) : Behind(x)'
            BY <4>1, <5>3, <5>4, PassOne
          <6>2. \A x \in 1 .. Len(shards) : shards[x] \in Rings
            BY <1>1
          <6>3. \A x \in 1 .. Len(shards) : x = At \/ Behind(x) => ring'[shards[x]].q = <<>>
            BY <4>2, <5>3, <6>2
          <6> QED
            BY <6>1, <6>3
        <5>6. rx'.steps <= Len(shards) /\ (rx'.pc = "miss" => rx.steps = 1) /\ rx'.pc \in {"miss", "visit"}
          BY <1>1, <5>3, <5>4
        <5> QED
          BY <2>1, <3>0, <4>1, <5>2, <5>5, <5>6 DEF FinalInv
      <4> QED
        BY <1>1, <4>3, <4>4
    <3>8. CASE Prune
      <4>1. /\ rx.pc = "finished" /\ rx.steps > 0 /\ shards # <<>> /\ tier # "pool"
            /\ shards' \in Seq(Rings) /\ Len(shards') = Len(shards) - 1
            /\ SameVisit(IF shards' = <<>> THEN 0 ELSE rx.steps - 1) /\ inbox' = inbox
        BY <3>8, PruneIs
      <4>2. CASE rx.pushed > 0
        <5>1. rx'.pc \in {"ready", "visit"} /\ rx'.pushed > 0
          BY <4>1, <4>2 DEF SameVisit
        <5> QED
          BY <2>1, <2>4, <3>0, <4>1, <5>1
      <4>3. CASE rx.pushed = 0
        <5>1. rx.steps = Len(shards)
          BY <2>1, <4>1, <4>3
        <5>2. rx'.steps = Len(shards')
          BY <1>1, <4>1, <5>1 DEF SameVisit
        <5>3. rx'.pc \in {"miss", "visit"} /\ (rx'.pc = "miss" => rx'.steps = 0)
          BY <4>1, <4>3 DEF SameVisit
        <5>4. (rx'.pc = "miss" => shards' = <<>>) /\ inbox'.queue = <<>> /\ rx' \in ReceiverState
          BY <2>1, <4>1, <5>2, <5>3 DEF SameVisit
        <5> QED
          BY <3>0, <4>1, <5>2, <5>3, <5>4, PassBegins
      <4> QED
        BY <1>1, <4>2, <4>3
    <3>9. CASE Miss
      <4>1. /\ rx.pc = "miss" /\ UNCHANGED <<tier, live, ring, shards, inbox>>
            /\ rx'.pc = "ended" \/ (rx.phase \notin {2, 4})
        BY <1>3, <3>9, MissIs DEF mine
      <4> QED
        BY <1>3, <2>1, <4>1 DEF FinalInv
    <3>10. CASE ArmReceiver \/ PollRecv
      <4>1. rx'.phase \in {1, 3}
        BY <3>10, RepollIs DEF Passing
      <4> QED
        BY <4>1
    <3>11. CASE Ready
      <4>1. rx'.phase = 0
        BY <3>11, ReadyIs
      <4> QED
        BY <4>1
    <3>12. CASE CancelRecv \/ ReceiverDrop
      <4>1. rx'.phase = 0
        BY <3>12, StopIs
      <4> QED
        BY <4>1
    <3>13. CASE ShutShard \/ ShutNotify \/ DropInbox
      <4>1. rx.pc \in {"shut", "shutnotify", "gone"}
        BY <3>13, ShutShardIs, ShutNotifyIs, DropInboxIs
      <4> QED
        BY <2>3, <4>1 DEF Alive
    <3> QED
      BY <2>7, <3>1, <3>2, <3>3, <3>4, <3>5, <3>6, <3>7, <3>8, <3>9, <3>10, <3>11, <3>12, <3>13 DEF Receives
  <2> QED
    BY <2>2, <2>5, <2>6, <2>7
<1> QED
  BY <1>2, <1>3

\* The channel opens with nothing sent and every sender counted.
LEMMA OpenEnd ==
  ASSUME Init
  PROVE  EndInv
<1> USE Names
<1>1. /\ BaseInv /\ TypeInv /\ tier \in {"fixed", "pool", "dynamic"} /\ NumRings \in Nat \ {0}
      /\ NumProducers \in Nat \ {0} /\ (tier = "fixed" => NumRings <= NumProducers)
      /\ Rings = 1 .. NumRings /\ Producers = 1 .. NumProducers
  BY BoundsAssumption, OpenInv DEF Init, BaseInv, TypeInv, Rings, Producers
<1>2. /\ rx.pc = "idle" /\ rx.mode = "one" /\ rx.phase = 0 /\ rx.staging = <<>> /\ rx.seen = 0
      /\ inbox.queue = <<>> /\ inbox.generation = 0
      /\ live = IF tier = "fixed" THEN NumRings ELSE 1
  BY DEF Init
<1>3. \A p \in Producers : got[p] = 0
  BY DEF Init
<1>4. /\ \A r \in Rings : ring[r].q = <<>> /\ (tier = "dynamic" => ring[r].producer_gone)
  BY DEF Init, FreshRing, Unused
<1>5. /\ prod[Handle].pc = IF tier = "fixed" THEN "gone" ELSE "idle"
      /\ \A p \in Producers :
           /\ prod[p].sent = 0
           /\ IF tier = "fixed" /\ p <= NumRings THEN prod[p].pc = "idle" /\ prod[p].ring = p
              ELSE prod[p].pc = "unborn" /\ prod[p].ring = 0
  <2>1. ASSUME NEW pc, NEW r
        PROVE  Producer(pc, r).pc = pc /\ Producer(pc, r).ring = r /\ Producer(pc, r).sent = 0
    BY DEF Producer
  <2>2. /\ prod[Handle] = Producer(IF tier = "fixed" THEN "gone" ELSE "idle", 0)
        /\ \A p \in Producers : prod[p] = IF tier = "fixed" /\ p <= NumRings THEN Producer("idle", p) ELSE Producer("unborn", 0)
    BY DEF Init
  <2>3. prod[Handle].pc = IF tier = "fixed" THEN "gone" ELSE "idle"
    BY <2>1, <2>2
  <2>4. ASSUME NEW p \in Producers
        PROVE  /\ prod[p].sent = 0
               /\ IF tier = "fixed" /\ p <= NumRings THEN prod[p].pc = "idle" /\ prod[p].ring = p
                  ELSE prod[p].pc = "unborn" /\ prod[p].ring = 0
    <3>1. CASE tier = "fixed" /\ p <= NumRings
      <4>1. prod[p] = Producer("idle", p)
        BY <2>2, <3>1
      <4> QED
        BY <2>1, <3>1, <4>1
    <3>2. CASE ~(tier = "fixed" /\ p <= NumRings)
      BY <2>1, <2>2, <3>2
    <3> QED
      BY <3>1, <3>2
  <2> QED
    BY <2>3, <2>4
<1>6. LiveInv
  <2>1. Extra(prod[Handle]) = 0
    BY <1>5 DEF Extra
  <2>2. CASE tier = "fixed"
    <3>1. Counted = 1 .. NumRings
      <4>1. ~CountedIn(prod[Handle])
        BY <1>5, <2>2 DEF CountedIn
      <4>2. \A p \in Producers : CountedIn(prod[p]) <=> p <= NumRings
        BY <1>5, <2>2 DEF CountedIn
      <4>3. Counted = {p \in Producers : p <= NumRings}
        BY <4>1, <4>2 DEF Counted
      <4> QED
        BY <1>1, <2>2, <4>3
    <3>2. Cardinality(1 .. NumRings) = NumRings
      BY RingsFinite DEF Rings
    <3> QED
      BY <1>1, <1>2, <2>1, <2>2, <3>1, <3>2 DEF LiveInv
  <2>3. CASE tier # "fixed"
    <3>1. Counted = {Handle}
      <4>1. CountedIn(prod[Handle])
        BY <1>5, <2>3 DEF CountedIn
      <4>2. \A p \in Producers : ~CountedIn(prod[p])
        BY <1>5, <2>3 DEF CountedIn
      <4> QED
        BY <4>1, <4>2 DEF Counted
    <3>2. Cardinality({Handle}) = 1
      BY FS_Singleton
    <3> QED
      BY <1>2, <2>1, <2>3, <3>1, <3>2 DEF LiveInv
  <2> QED
    BY <2>2, <2>3
<1>7. IF tier = "dynamic" THEN shards = <<>> ELSE ToSet(shards) = Rings
  <2>1. CASE tier = "dynamic"
    BY <2>1 DEF Init
  <2>2. CASE tier # "dynamic"
    <3>1. shards = [i \in Rings |-> i]
      BY <2>2 DEF Init
    <3> QED
      BY <2>2, <3>1 DEF ToSet
  <2> QED
    BY <2>1, <2>2
<1>8. KnownInv
  <2>1. \A p \in Producers : Active(p) => Known(prod[p].ring)
    <3> SUFFICES ASSUME NEW p \in Producers, Active(p) PROVE Known(prod[p].ring)
      OBVIOUS
    <3>1. tier = "fixed" /\ p <= NumRings /\ prod[p].ring = p
      BY <1>5 DEF Active
    <3>2. p \in Rings
      BY <1>1, <3>1
    <3> QED
      BY <1>7, <3>1, <3>2 DEF Known
  <2>2. ASSUME NEW r \in Rings, tier # "pool", Known(r), ~ring[r].producer_gone
        PROVE  \E p \in Producers : Using(p, r)
    <3>1. tier = "fixed"
      BY <1>1, <1>4, <2>2
    <3>2. r \in Producers /\ r <= NumRings
      BY <1>1, <3>1
    <3>3. Using(r, r)
      BY <1>5, <3>1, <3>2 DEF Using, Active
    <3> QED
      BY <3>2, <3>3
  <2>3. prod[Handle].pc # "deposit"
    BY <1>5
  <2> QED
    BY <1>4, <1>7, <2>1, <2>2, <2>3 DEF KnownInv
<1>9. FlowInv
  <2>1. ASSUME NEW p \in Producers
        PROVE  /\ prod[p].sent = got[p] + Count(p, rx.staging) + InRing(p)
               /\ \A r \in Rings : p \in ToSet(ring[r].q) => prod[p].ring = r
    <3>1. Count(p, <<>>) = 0
      <4>1. <<>> \in Seq(Producers)
        OBVIOUS
      <4> QED
        BY <4>1, CountIs
    <3>2. InRing(p) = 0
      <4>1. prod[p].ring = 0 \/ prod[p].ring \in Rings
        BY <1>1 DEF TypeInv, SenderState
      <4> QED
        BY <1>4, <3>1, <4>1 DEF InRing
    <3>3. \A r \in Rings : p \notin ToSet(ring[r].q)
      BY <1>4, EmptyIs
    <3> QED
      BY <1>2, <1>3, <1>5, <3>1, <3>2, <3>3
  <2> QED
    BY <1>5, <2>1 DEF FlowInv
<1>10. InboxInv /\ CallInv /\ FinalInv
  BY <1>2, EmptyIs DEF InboxInv, CallInv, FinalInv, Alive
<1> QED
  BY <1>6, <1>8, <1>9, <1>10 DEF EndInv

\* Where every value is, at every moment.
LEMMA EndAlways == Spec => [](BaseInv /\ OwnInv /\ EndInv)
<1>1. Init => BaseInv /\ OwnInv /\ EndInv
  BY OpenInv, OpenEnd
<1>2. BaseInv /\ OwnInv /\ EndInv /\ [Next]_vars => BaseInv' /\ OwnInv' /\ EndInv'
  BY BaseStep, OwnStep, LiveStep, KnownStep, FlowStep, InboxStep, CallStep, FinalStep DEF EndInv
<1> QED
  BY <1>1, <1>2, PTL DEF Spec

\* The receiver reports the end of the stream (Ready(None)) only when every
\* sender and the handle are gone and every value that was sent has been
\* delivered, in all tiers and however the last sends, registrations and
\* departures interleave with its final sweep.
THEOREM EndCorrect == Spec => []EndsDrained
<1>1. BaseInv /\ OwnInv /\ EndInv => EndsDrained
  <2> SUFFICES ASSUME BaseInv, EndInv, rx.pc = "ended"
               PROVE  live = 0 /\ \A p \in Producers : got[p] = prod[p].sent
    BY DEF EndsDrained
  <2>1. TypeInv /\ rx.phase \in {2, 4} /\ Alive /\ got \in [Producers -> Nat] /\ shards \in Seq(Rings)
    BY DEF BaseInv, TypeInv, EndInv, CallInv, Alive
  <2>2. live = 0 /\ inbox.queue = <<>> /\ \A x \in 1 .. Len(shards) : ring[shards[x]].q = <<>>
    BY <2>1 DEF EndInv, FinalInv
  <2>3. rx.staging = <<>>
    BY DEF EndInv, CallInv, BaseInv, TypeInv, ReceiverState
  <2>4. \A r \in Rings : Known(r) => ring[r].q = <<>>
    <3>1. \A r \in ToSet(shards) : ring[r].q = <<>>
      BY <2>1, <2>2 DEF ToSet
    <3> QED
      BY <2>2, <3>1, EmptyIs DEF Known
  <2>5. \A r \in Rings : ring[r].q = <<>>
    BY <2>1, <2>4 DEF EndInv, KnownInv
  <2>6. ASSUME NEW p \in Producers PROVE got[p] = prod[p].sent
    <3>1. Count(p, <<>>) = 0
      <4>1. <<>> \in Seq(Producers)
        OBVIOUS
      <4> QED
        BY <4>1, CountIs
    <3>2. InRing(p) = 0
      <4>1. prod[p].ring = 0 \/ prod[p].ring \in Rings
        BY <2>1, Names DEF TypeInv, SenderState
      <4> QED
        BY <2>5, <3>1, <4>1 DEF InRing
    <3>3. prod[p].sent = got[p] + Count(p, rx.staging) + InRing(p)
      BY <2>1 DEF EndInv, FlowInv
    <3>4. got[p] \in Nat
      BY <2>1
    <3> QED
      BY <2>3, <3>1, <3>2, <3>3, <3>4
  <2> QED
    BY <2>2, <2>6
<1> QED
  BY <1>1, EndAlways, PTL
-----------------------------------------------------------------------------
(* The wake-up of the receiver.                                            *)

\* A ring that needs nothing from the receiver.
Quiet(r) == ring[r].q = <<>> /\ (ring[r].producer_gone => ring[r].arc)

\* A sender that has published and not notified is about to.
DirtyInv == \A s \in Senders : prod[s].dirty => prod[s].pc \in {"try", "notify"}

\* After arming, the receiver is registered until somebody takes its waker.
Waking == \E s \in Senders : prod[s].pc = "wake"

ArmedInv == rx.phase = 3 => rx.woken \/ (notifier.waker = RecvTask /\ (notifier.waiting \/ Waking))

\* Nobody owes it a wake-up.
Unowed == rx.phase = 3 /\ ~rx.woken /\ ~WakeOwed

\* The pass after arming leaves only quiet rings behind, and then the receiver
\* pends while somebody is left to wake it.
Scanned ==
  /\ rx.pc \notin {"refresh", "append"} => \A r \in ToSet(inbox.queue) : Quiet(r)
  /\ rx.pc \in {"visit", "finished"} /\ rx.pushed = 0 =>
       rx.steps <= Len(shards) /\ \A x \in 1 .. Len(shards) : Behind(x) => Quiet(shards[x])
  /\ rx.pc = "finished" => ring[shards[At]].q = <<>>
  /\ rx.pc \in {"miss", "pending"} => \A x \in 1 .. Len(shards) : Quiet(shards[x])
  /\ rx.pc = "pending" => live > 0

QuietInv == (rx.pc = "pending" => rx.phase = 3) /\ (Unowed => Scanned)

WakeInv == DirtyInv /\ ArmedInv /\ QuietInv

\* A send step: what it has published it will notify of.
LEMMA SendsOwe ==
  ASSUME BaseInv, OwnInv, DirtyInv, NEW p \in Producers, Sends(p)
  PROVE  /\ Others(p) /\ prod[p].pc \notin {"notify", "wake"} /\ prod'[p].pc # "wake"
         /\ prod'[p].dirty => prod'[p].pc \in {"try", "notify"}
         /\ prod[p].dirty => prod'[p].dirty
         /\ prod[p].pc = "unlink" => prod'[p].pc = "notify"
         /\ prod'[p].dirty \/ prod'[p].pc \in {"notify", "unlink"} \/ ring' = ring
         /\ UNCHANGED <<live, notifier, rx, inbox, shards, tier>>
<1>1. TypeInv /\ HoldInv /\ prod \in [Senders -> SenderState] /\ p \in Senders
  BY Names DEF BaseInv, TypeInv, OwnInv
<1>2. prod[p].ring \in Rings
  BY <1>1, Holding
<1>3. prod[p].dirty => prod[p].pc \in {"try", "notify"}
  BY <1>1 DEF DirtyInv
<1>4. ActiveIn(prod[p]) => prod[p].pc # "unlink"
  BY DEF ActiveIn
<1>5. CASE Moves(p)
  <2>1. /\ Others(p) /\ ActiveIn(prod[p]) /\ prod'[p].dirty = prod[p].dirty
        /\ prod[p].pc \notin {"notify", "wake"} /\ prod'[p].pc \notin {"retry", "wake"}
        /\ prod[p].dirty /\ prod[p].pc = "try" => prod'[p].pc \in {"try", "notify"}
        /\ UNCHANGED <<live, notifier, ring, space, rx, free>> /\ UNCHANGED rest
    BY <1>1, <1>5, MovesIs
  <2> QED
    BY <1>3, <1>4, <2>1 DEF rest
<1>6. CASE Push(p)
  <2>1. /\ Others(p) /\ prod'[p].dirty /\ prod[p].pc \in {"try", "retry"} /\ prod'[p].pc \in {"try", "notify"}
        /\ UNCHANGED <<live, notifier, rx, free>> /\ UNCHANGED rest
    BY <1>1, <1>2, <1>6, PushIs
  <2> QED
    BY <2>1 DEF rest
<1>7. CASE ArmSpace(p)
  <2>1. /\ Others(p) /\ prod'[p].dirty = prod[p].dirty /\ prod[p].pc = "arm" /\ prod'[p].pc = "retry"
        /\ UNCHANGED <<live, notifier, ring, rx, free>> /\ UNCHANGED rest
    BY <1>1, <1>2, <1>7, ArmSpaceIs
  <2> QED
    BY <1>3, <2>1 DEF rest
<1>8. CASE Yield(p) \/ Done(p) \/ ProducerDrop(p)
  <2>1. /\ Others(p) /\ (prod'[p].dirty => prod[p].dirty)
        /\ \/ ring' = ring /\ prod'[p].pc = "pending" /\ prod[p].pc = "yield"
           \/ ring' = ring /\ prod'[p].pc = "idle" /\ prod[p].pc = "done"
           \/ prod'[p].pc = "unlink" /\ prod[p].pc = "idle"
        /\ UNCHANGED <<live, notifier, rx, free>> /\ UNCHANGED rest
    BY <1>1, <1>2, <1>8, ClearsIs
  <2> QED
    BY <1>3, <2>1 DEF rest
<1>9. CASE ReleaseArc(p)
  <2>1. /\ Others(p) /\ prod'[p].dirty = prod[p].dirty /\ prod[p].pc = "unlink" /\ prod'[p].pc = "notify"
        /\ UNCHANGED <<live, notifier, space, rx, free>> /\ UNCHANGED rest
    BY <1>1, <1>2, <1>9, ReleaseArcIs
  <2> QED
    BY <1>3, <2>1 DEF rest
<1> QED
  BY <1>5, <1>6, <1>7, <1>8, <1>9 DEF Sends

\* The other senders' steps: who joins, registers or is dropped owes nothing.
Joins ==
  \/ \E p \in Producers : Claim(p) \/ Deposit(p) \/ Deposited(p)
  \/ Register \/ HandleDrop \/ SkipLingering \/ UNCHANGED vars

\* Such a step changes no ring that the receiver knows, except for a fresh one.
LEMMA JoinsOwe ==
  ASSUME BaseInv, OwnInv, DirtyInv, Joins
  PROVE  /\ prod' \in [Senders -> SenderState]
         /\ \A s \in Senders :
              \/ prod'[s].pc = prod[s].pc /\ prod'[s].dirty = prod[s].dirty
              \/ ~prod'[s].dirty /\ ~prod[s].dirty /\ {prod[s].pc, prod'[s].pc} \cap {"notify", "unlink", "wake"} = {}
         /\ \A r \in Rings : (Quiet(r) => Quiet(r)') /\ (ring[r].q = <<>> => ring'[r].q = <<>>)
         /\ \A r \in ToSet(inbox'.queue) : r \in ToSet(inbox.queue) \/ Quiet(r)'
         /\ live' \in {live, live + 1} /\ UNCHANGED <<notifier, rx, shards, tier>>
<1> USE Names
<1>1. TypeInv /\ RoleInv /\ prod \in [Senders -> SenderState] /\ inbox.queue \in Seq(Rings)
  BY DEF BaseInv, TypeInv
<1>2. \A s \in Senders : prod[s].pc \notin {"try", "notify"} => ~prod[s].dirty
  BY DEF DirtyInv
<1>3. ring' = ring => \A r \in Rings : (Quiet(r) => Quiet(r)') /\ (ring[r].q = <<>> => ring'[r].q = <<>>)
  BY DEF Quiet
<1>4. CASE \E p \in Producers : Claim(p)
  <2>1. PICK p \in Producers :
          /\ Others(p) /\ prod[p].pc = "unborn" /\ prod'[p].pc = "idle" /\ prod'[p].dirty = FALSE
          /\ live' = live + 1 /\ UNCHANGED <<notifier, ring, space, rx>> /\ UNCHANGED rest
    BY <1>1, <1>4, ClaimIs
  <2> QED
    BY <1>2, <1>3, <2>1 DEF Others, rest
<1>5. CASE \E p \in Producers : Deposited(p)
  <2>1. PICK p \in Producers :
          /\ prod[Handle].pc = "deposit" /\ prod[p].pc = "unborn" /\ prod' \in [Senders -> SenderState]
          /\ \A s \in Senders : s # p /\ s # Handle => prod'[s] = prod[s]
          /\ prod'[Handle].pc = "idle" /\ prod'[Handle].dirty = prod[Handle].dirty
          /\ prod'[p].pc = "idle" /\ prod'[p].dirty = FALSE
          /\ inbox'.queue = inbox.queue
          /\ UNCHANGED <<tier, live, notifier, ring, space, shards, rx, free, freelist, got>>
    BY <1>1, <1>5, DepositedIs
  <2> QED
    BY <1>2, <1>3, <2>1
<1>6. CASE \E p \in Producers : Deposit(p)
  <2>1. PICK r \in Rings :
          /\ prod[Handle].pc = "take" /\ Others(Handle)
          /\ RingOnly(r) /\ ring'[r] = FreshRing
          /\ inbox'.queue = Append(inbox.queue, r)
          /\ prod'[Handle].pc = "deposit" /\ prod'[Handle].dirty = prod[Handle].dirty
          /\ live' = live + 1
          /\ UNCHANGED <<tier, notifier, shards, rx, free, got>>
    BY <1>1, <1>6, DepositIs
  <2>2. Quiet(r)' /\ ring'[r].q = <<>>
    BY <2>1 DEF Quiet, FreshRing
  <2>3. \A o \in Rings : (Quiet(o) => Quiet(o)') /\ (ring[o].q = <<>> => ring'[o].q = <<>>)
    BY <2>1, <2>2 DEF RingOnly, Quiet
  <2>4. \A o \in ToSet(inbox'.queue) : o \in ToSet(inbox.queue) \/ Quiet(o)'
    BY <1>1, <2>1, <2>2, AppendIs
  <2> QED
    BY <1>2, <2>1, <2>3, <2>4 DEF Others
<1>7. CASE Register \/ HandleDrop
  <2>1. /\ Others(Handle) /\ prod[Handle].pc = "idle" /\ prod'[Handle].pc \in {"take", "release"}
        /\ prod'[Handle].dirty = prod[Handle].dirty
        /\ UNCHANGED <<live, notifier, ring, space, rx, free>> /\ UNCHANGED rest
    BY <1>1, <1>7, HandleIs
  <2> QED
    BY <1>2, <1>3, <2>1 DEF Others, rest
<1>8. CASE SkipLingering
  <2>1. PICK r \in Rings :
          /\ RingOnly(r) /\ ring'[r].q = ring[r].q /\ ring'[r].producer_gone = ring[r].producer_gone
          /\ ring'[r].arc = ring[r].arc
          /\ UNCHANGED <<tier, live, notifier, prod, shards, rx, free, inbox, got>>
    BY <1>1, <1>8, SkipLingeringIs
  <2>2. \A o \in Rings : (Quiet(o) => Quiet(o)') /\ (ring[o].q = <<>> => ring'[o].q = <<>>)
    BY <2>1 DEF RingOnly, Quiet
  <2> QED
    BY <1>1, <2>1, <2>2
<1>9. CASE UNCHANGED vars
  BY <1>1, <1>3, <1>9 DEF vars, membership
<1> QED
  BY <1>4, <1>5, <1>6, <1>7, <1>8, <1>9 DEF Joins

\* The steps, by what they mean for the receiver's wake-up.
LEMMA SidesIs ==
  ASSUME BaseInv, [Next]_vars
  PROVE  (\E p \in Producers : Sends(p)) \/ (\E s \in Senders : Leaves(s)) \/ Joins \/ Receives
  BY NextIs DEF Joins

\* A sender notifies of all it has published before it does anything else.
LEMMA DirtyStep ==
  ASSUME BaseInv, OwnInv, DirtyInv, [Next]_vars
  PROVE  DirtyInv'
<1>1. TypeInv
  BY DEF BaseInv
<1>2. ASSUME NEW p \in Producers, Sends(p) PROVE DirtyInv'
  BY <1>2, SendsOwe DEF DirtyInv, Others
<1>3. ASSUME NEW s \in Senders, Leaves(s) PROVE DirtyInv'
  <2>1. Others(s) /\ (prod'[s].dirty => prod[s].dirty /\ prod[s].pc # "notify")
    BY <1>1, <1>3, LeavesIs
  <2>2. prod[s].pc \in {"notify", "wake", "release"}
    BY <1>3, LeavesIs, <1>1
  <2>3. ~prod'[s].dirty
    BY <2>1, <2>2 DEF DirtyInv
  <2> QED
    BY <2>1, <2>3 DEF DirtyInv, Others
<1>4. CASE Joins
  BY <1>4, JoinsOwe DEF DirtyInv
<1>5. CASE Receives
  BY <1>5, ReceivesIs DEF DirtyInv, Unmoved
<1> QED
  BY <1>2, <1>3, <1>4, <1>5, SidesIs

\* A wake-up that is owed stays owed until it is given.
LEMMA OwedKept ==
  ASSUME BaseInv, OwnInv, DirtyInv, [Next]_vars, WakeOwed
  PROVE  Receives \/ WakeOwed' \/ rx'.woken
<1>1. TypeInv /\ notifier \in WaiterState({RecvTask}) /\ rx \in ReceiverState
  BY DEF BaseInv, TypeInv
<1>2. PICK s \in Senders : \/ prod[s].pc = "wake"
                           \/ /\ notifier.waiting
                              /\ prod[s].pc \in {"notify", "unlink"} \/ prod[s].dirty
  BY DEF WakeOwed
<1>3. ASSUME notifier' = notifier, NEW t \in Senders,
             \/ prod'[t].pc = "wake"
             \/ notifier.waiting /\ (prod'[t].pc \in {"notify", "unlink"} \/ prod'[t].dirty)
      PROVE  WakeOwed'
  BY <1>3 DEF WakeOwed
<1>4. notifier.waker = RecvTask
  BY DEF WakeOwed
<1>5. ASSUME NEW p \in Producers, Sends(p) PROVE WakeOwed'
  <2>1. /\ Others(p) /\ prod[p].pc \notin {"notify", "wake"} /\ (prod[p].dirty => prod'[p].dirty)
        /\ prod[p].pc = "unlink" => prod'[p].pc = "notify"
        /\ notifier' = notifier
    BY <1>5, SendsOwe
  <2>2. CASE s = p
    BY <1>2, <1>3, <2>1, <2>2
  <2>3. CASE s # p
    <3>1. prod'[s] = prod[s]
      BY <2>1, <2>3 DEF Others
    <3> QED
      BY <1>2, <1>3, <2>1, <3>1
  <2> QED
    BY <2>2, <2>3
<1>6. ASSUME NEW t \in Senders, Leaves(t) PROVE WakeOwed' \/ rx'.woken
  <2>1. /\ Others(t)
        /\ \/ /\ prod[t].pc = "notify" /\ prod'[t].pc = IF notifier.waiting THEN "wake" ELSE prod[t].after
              /\ notifier' = Disarmed(notifier)
           \/ prod[t].pc = "wake" /\ rx' = [rx EXCEPT !.woken = @ \/ notifier.waker = RecvTask]
           \/ prod[t].pc = "release" /\ notifier' = notifier
    BY <1>1, <1>6, LeavesIs
  <2>2. Disarmed(notifier).waker = RecvTask
    BY <1>1, <1>4, WaiterIs
  <2>3. ASSUME notifier' = Disarmed(notifier), NEW u \in Senders, prod'[u].pc = "wake" PROVE WakeOwed'
    BY <2>2, <2>3 DEF WakeOwed
  <2>4. CASE prod[t].pc = "wake" /\ rx' = [rx EXCEPT !.woken = @ \/ notifier.waker = RecvTask]
    BY <1>1, <1>4, <2>4 DEF ReceiverState
  <2>5. CASE prod[t].pc = "release" /\ notifier' = notifier
    <3>1. s # t
      BY <1>2, <2>5 DEF DirtyInv
    <3> QED
      BY <1>2, <1>3, <2>1, <2>5, <3>1 DEF Others
  <2>6. CASE /\ prod[t].pc = "notify" /\ prod'[t].pc = IF notifier.waiting THEN "wake" ELSE prod[t].after
             /\ notifier' = Disarmed(notifier)
    <3>1. CASE notifier.waiting
      BY <2>3, <2>6, <3>1
    <3>2. CASE ~notifier.waiting
      <4>1. prod[s].pc = "wake" /\ s # t
        BY <1>2, <2>6, <3>2
      <4> QED
        BY <2>1, <2>3, <2>6, <4>1 DEF Others
    <3> QED
      BY <3>1, <3>2
  <2> QED
    BY <2>1, <2>4, <2>5, <2>6
<1>7. CASE Joins
  <2>1. /\ notifier' = notifier
        /\ \/ prod'[s].pc = prod[s].pc /\ prod'[s].dirty = prod[s].dirty
           \/ ~prod[s].dirty /\ {prod[s].pc, prod'[s].pc} \cap {"notify", "unlink", "wake"} = {}
    BY <1>7, JoinsOwe
  <2> QED
    BY <1>2, <1>3, <2>1
<1> QED
  BY <1>5, <1>6, <1>7, SidesIs

\* The receiver's steps in the pass after arming.
LEMMA SecondIs ==
  ASSUME BaseInv, OwnInv, Receives, rx'.phase = 3
  PROVE  \/ /\ rx.pc = "arm" /\ Passing(3) /\ rx'.woken = rx.woken /\ notifier' = Armed(RecvTask)
            /\ rx.pushed = 0 /\ UNCHANGED <<tier, live, ring, prod, shards, inbox>>
         \/ rx.phase = 3 /\ notifier' = notifier /\ rx'.woken = rx.woken
<1>1. TypeInv
  BY DEF BaseInv
<1>2. CASE ArmReceiver \/ PollRecv
  <2>1. /\ rx.pushed = 0
        /\ \/ rx.pc = "arm" /\ Passing(3) /\ rx'.woken = rx.woken /\ notifier' = Armed(RecvTask)
           \/ rx.pc = "pending" /\ Passing(1)
        /\ UNCHANGED <<shards, inbox, got>> /\ UNCHANGED mine
    BY <1>2, RepollIs
  <2>2. ~Passing(1)
    BY DEF Passing
  <2> QED
    BY <2>1, <2>2 DEF mine
<1>3. CASE Miss
  <2>1. /\ rx'.woken = rx.woken /\ notifier' = (IF rx.phase = 4 THEN Cleared(notifier) ELSE notifier)
        /\ \/ rx'.phase = 0 \/ Passing(2) \/ Passing(4) \/ rx'.phase = 1 \/ (rx.phase = 3 /\ rx'.phase = 3)
           \/ (rx.phase \in {2, 4} /\ rx'.phase = rx.phase)
    BY <1>3, MissIs
  <2>2. ~Passing(2) /\ ~Passing(4)
    BY DEF Passing
  <2> QED
    BY <2>1, <2>2
<1>4. CASE \E call \in Calls : StartRecv(call[1], call[2])
  <2>1. PICK n \in 0 .. Len(rx.staging) : Begins(rx'.mode, rx'.phase, n)
    BY <1>4, BeginIs
  <2>2. rx'.phase \in {0, 1}
    BY <2>1 DEF Begins
  <2> QED
    BY <2>2
<1>5. CASE Refresh
  BY <1>1, <1>5, RefreshIs
<1>6. CASE AppendInbox
  BY <1>1, <1>6, AppendInboxIs
<1>7. CASE DrainEmpty
  BY <1>1, <1>7, DrainEmptyIs DEF SameCall
<1>8. CASE NotFinished
  BY <1>8, NotFinishedIs DEF SameVisit
<1>9. CASE Recycle
  BY <1>9, RecycleIs DEF SameVisit
<1>10. CASE Prune
  BY <1>10, PruneIs DEF SameVisit
<1>11. CASE Drain
  BY <1>11, DrainIs
<1>12. CASE NotifySpace \/ WakeSpace
  BY <1>12, NotifySpaceIs, WakeSpaceIs DEF SameCall
<1>13. CASE Ready
  <2>1. rx'.phase = 0
    BY <1>13, ReadyIs
  <2> QED
    BY <2>1
<1>14. CASE CancelRecv \/ ReceiverDrop
  <2>1. rx'.phase = 0
    BY <1>14, StopIs
  <2> QED
    BY <2>1
<1>15. CASE ShutShard \/ ShutNotify
  BY <1>15, ShutShardIs, ShutNotifyIs DEF SameCall
<1>16. CASE DropInbox
  BY <1>16, DropInboxIs
<1> QED
  BY <1>2, <1>3, <1>4, <1>5, <1>6, <1>7, <1>8, <1>9, <1>10, <1>11, <1>12, <1>13, <1>14, <1>15, <1>16 DEF Receives

\* The receiver stays registered through the pass after arming.
LEMMA ArmedStep ==
  ASSUME BaseInv, OwnInv, DirtyInv, ArmedInv, [Next]_vars
  PROVE  ArmedInv'
<1>1. TypeInv /\ notifier \in WaiterState({RecvTask}) /\ rx \in ReceiverState
  BY DEF BaseInv, TypeInv
<1> SUFFICES ASSUME rx'.phase = 3, ~rx'.woken
             PROVE  notifier'.waker = RecvTask /\ (notifier'.waiting \/ Waking')
  BY DEF ArmedInv
<1>2. CASE Receives
  <2>1. CASE notifier' = Armed(RecvTask)
    BY <2>1 DEF Armed
  <2>2. CASE rx.phase = 3 /\ notifier' = notifier /\ rx'.woken = rx.woken
    <3>1. notifier.waker = RecvTask /\ (notifier.waiting \/ Waking)
      BY <2>2 DEF ArmedInv
    <3>2. Waking => Waking'
      BY <1>2, ReceivesIs DEF Unmoved, Waking
    <3> QED
      BY <2>2, <3>1, <3>2
  <2> QED
    BY <1>2, <2>1, <2>2, SecondIs
<1>3. CASE ~Receives
  <2>1. SenderSide
    BY <1>3, NextIs DEF SenderSide
  <2>2. rx.phase = 3 /\ ~rx.woken
    BY <2>1, SenderSideIs DEF SameRx
  <2>3. notifier.waker = RecvTask /\ (notifier.waiting \/ Waking)
    BY <2>2 DEF ArmedInv
  <2>4. ASSUME NEW p \in Producers, Sends(p) PROVE notifier' = notifier /\ (Waking => Waking')
    <3>1. Others(p) /\ prod[p].pc \notin {"notify", "wake"} /\ notifier' = notifier
      BY <2>4, SendsOwe
    <3> QED
      BY <3>1 DEF Others, Waking
  <2>5. ASSUME NEW t \in Senders, Leaves(t) PROVE notifier'.waker = RecvTask /\ (notifier'.waiting \/ Waking')
    <3>1. /\ Others(t)
          /\ \/ /\ prod[t].pc = "notify" /\ prod'[t].pc = IF notifier.waiting THEN "wake" ELSE prod[t].after
                /\ notifier' = Disarmed(notifier)
             \/ prod[t].pc = "wake" /\ rx' = [rx EXCEPT !.woken = @ \/ notifier.waker = RecvTask]
             \/ prod[t].pc = "release" /\ notifier' = notifier
      BY <1>1, <2>5, LeavesIs
    <3>2. prod[t].pc # "wake" => (Waking => Waking')
      BY <3>1 DEF Others, Waking
    <3>3. CASE prod[t].pc = "wake" /\ rx' = [rx EXCEPT !.woken = @ \/ notifier.waker = RecvTask]
      BY <1>1, <2>3, <3>3 DEF ReceiverState
    <3>4. CASE prod[t].pc = "release" /\ notifier' = notifier
      BY <2>3, <3>2, <3>4
    <3>5. CASE /\ prod[t].pc = "notify" /\ prod'[t].pc = IF notifier.waiting THEN "wake" ELSE prod[t].after
               /\ notifier' = Disarmed(notifier)
      <4>1. Disarmed(notifier).waker = RecvTask
        BY <1>1, <2>3, WaiterIs
      <4>2. notifier.waiting => Waking'
        BY <3>5 DEF Waking
      <4> QED
        BY <2>3, <3>2, <3>5, <4>1, <4>2
    <3> QED
      BY <3>1, <3>3, <3>4, <3>5
  <2>6. CASE Joins
    <3>1. /\ notifier' = notifier
          /\ \A s \in Senders :
              \/ prod'[s].pc = prod[s].pc
              \/ {prod[s].pc, prod'[s].pc} \cap {"notify", "unlink", "wake"} = {}
      BY <2>6, JoinsOwe
    <3>2. Waking => Waking'
      BY <3>1 DEF Waking
    <3> QED
      BY <2>3, <3>1, <3>2
  <2> QED
    BY <1>3, <2>3, <2>4, <2>5, <2>6, SidesIs
<1> QED
  BY <1>2, <1>3

\* Nobody has anything to tell the receiver.
Calm ==
  /\ notifier.waiting
  /\ \A s \in Senders : prod[s].pc \notin {"wake", "notify", "unlink"} /\ ~prod[s].dirty

\* It is so if nobody owes the armed receiver a wake-up.
LEMMA CalmIs == (ArmedInv /\ Unowed => Calm) /\ (ArmedInv' /\ Unowed' => Calm')
  BY DEF ArmedInv, Unowed, Calm, Waking, WakeOwed

\* A sender's step that leaves nobody owing anything makes no ring unquiet.
LEMMA SideQuiet ==
  ASSUME BaseInv, OwnInv, DirtyInv, ArmedInv, [Next]_vars, ~Receives, Unowed'
  PROVE  /\ Unowed /\ SameRx /\ UNCHANGED <<tier, shards>>
         /\ \A r \in Rings : (Quiet(r) => Quiet(r)') /\ (ring[r].q = <<>> => ring'[r].q = <<>>)
         /\ \A r \in ToSet(inbox'.queue) : r \in ToSet(inbox.queue) \/ Quiet(r)'
         /\ live > 0 => live' > 0
<1>1. TypeInv /\ live \in Int
  BY DEF BaseInv, TypeInv
<1>2. SenderSide
  BY NextIs DEF SenderSide
<1>3. SameRx /\ UNCHANGED <<tier, shards>>
  BY <1>2, SenderSideIs
<1>4. Unowed
  BY <1>3, OwedKept DEF Unowed, SameRx
<1>5. ArmedInv'
  BY ArmedStep
<1>6. Calm /\ Calm'
  BY <1>4, <1>5, CalmIs
<1>7. ring' = ring => \A r \in Rings : (Quiet(r) => Quiet(r)') /\ (ring[r].q = <<>> => ring'[r].q = <<>>)
  BY DEF Quiet
<1>8. ASSUME NEW p \in Producers, Sends(p) PROVE ring' = ring /\ live' = live /\ inbox' = inbox
  <2>1. p \in Senders
    BY Names
  <2>2. ~prod'[p].dirty /\ prod'[p].pc \notin {"notify", "unlink"}
    BY <1>6, <2>1 DEF Calm
  <2> QED
    BY <1>8, <2>2, SendsOwe
<1>9. ASSUME NEW s \in Senders, Leaves(s) PROVE ring' = ring /\ inbox' = inbox /\ (live > 0 => live' > 0)
  <2>1. ring' = ring /\ inbox' = inbox
    BY <1>1, <1>9, LeavesIs DEF rest
  <2>2. prod[s].pc \notin {"notify", "wake"} /\ prod'[s].pc # "notify"
    BY <1>6 DEF Calm
  <2>3. prod[s].pc = "release" /\ prod'[s].pc = (IF live = 1 THEN "notify" ELSE "gone") /\ live' = live - 1
    BY <1>1, <1>9, <2>2, LeavesIs
  <2>4. live # 1
    BY <2>2, <2>3
  <2>5. live > 0 => live' > 0
    BY <1>1, <2>3, <2>4
  <2> QED
    BY <2>1, <2>5
<1>10. CASE \E p \in Producers : Sends(p)
  BY <1>3, <1>4, <1>7, <1>8, <1>10
<1>11. CASE \E s \in Senders : Leaves(s)
  BY <1>3, <1>4, <1>7, <1>9, <1>11
<1>12. CASE Joins
  <2>1. /\ \A r \in Rings : (Quiet(r) => Quiet(r)') /\ (ring[r].q = <<>> => ring'[r].q = <<>>)
        /\ \A r \in ToSet(inbox'.queue) : r \in ToSet(inbox.queue) \/ Quiet(r)'
        /\ live' \in {live, live + 1}
    BY <1>12, JoinsOwe
  <2>2. live > 0 => live' > 0
    BY <1>1, <2>1
  <2> QED
    BY <1>3, <1>4, <2>1, <2>2
<1> QED
  BY <1>10, <1>11, <1>12, SidesIs

\* The pass after arming begins.
LEMMA ScanBegins ==
  ASSUME shards' \in Seq(Rings), rx' \in ReceiverState, rx'.pc \in {"visit", "miss", "ready"},
         rx'.steps = Len(shards'), rx'.pc = "miss" => shards' = <<>>,
         \A r \in ToSet(inbox'.queue) : Quiet(r)'
  PROVE  Scanned'
<1>1. \A x \in 1 .. Len(shards') : ~Behind(x)'
  BY NoneBehind
<1>2. rx'.pc = "miss" => 1 .. Len(shards') = {}
  OBVIOUS
<1>3. rx'.steps <= Len(shards')
  OBVIOUS
<1> QED
  BY <1>1, <1>2, <1>3 DEF Scanned

\* The receiver's own steps make nobody owe it less.
LEMMA OwedBefore ==
  ASSUME BaseInv, OwnInv, Receives, Unowed', rx.pc # "arm"
  PROVE  Unowed
<1>1. rx.phase = 3 /\ notifier' = notifier /\ rx'.woken = rx.woken
  BY SecondIs DEF Unowed
<1>2. Unmoved
  BY ReceivesIs
<1>3. WakeOwed => WakeOwed'
  BY <1>1, <1>2 DEF WakeOwed, Unmoved
<1> QED
  BY <1>1, <1>3 DEF Unowed

\* Senders' steps that leave nobody owing anything disturb nothing.
LEMMA QuietSide ==
  ASSUME BaseInv, OwnInv, DirtyInv, ArmedInv, QuietInv, [Next]_vars, ~Receives
  PROVE  QuietInv'
<1>1. TypeInv /\ shards \in Seq(Rings) /\ inbox.queue \in Seq(Rings)
  BY DEF BaseInv, TypeInv
<1>2. SenderSide
  BY NextIs DEF SenderSide
<1>3. rx'.pc = "pending" => rx'.phase = 3
  BY <1>2, SenderSideIs DEF SameRx, QuietInv
<1>4. ASSUME Unowed' PROVE Scanned'
  <2>1. /\ Unowed /\ SameRx /\ UNCHANGED <<tier, shards>>
        /\ \A r \in Rings : (Quiet(r) => Quiet(r)') /\ (ring[r].q = <<>> => ring'[r].q = <<>>)
        /\ \A r \in ToSet(inbox'.queue) : r \in ToSet(inbox.queue) \/ Quiet(r)'
        /\ live > 0 => live' > 0
    BY <1>4, SideQuiet
  <2>2. Scanned
    BY <2>1 DEF QuietInv
  <2>3. At' = At /\ \A x \in 1 .. Len(shards) : Behind(x)' <=> Behind(x)
    BY <2>1 DEF At, Behind, Passed, SameRx
  <2>4. \A x \in 1 .. Len(shards) : shards[x] \in Rings /\ (Quiet(shards[x]) => Quiet(shards[x])')
    <3>1. \A x \in 1 .. Len(shards) : shards[x] \in Rings
      BY <1>1
    <3>2. ASSUME NEW x \in 1 .. Len(shards), Quiet(shards[x]) PROVE Quiet(shards[x])'
      <4>1. Quiet(shards[x]) => ring'[shards[x]].q = <<>> /\ (ring'[shards[x]].producer_gone => ring'[shards[x]].arc)
        BY <2>1, <3>1 DEF Quiet
      <4> QED
        BY <2>1, <3>2, <4>1 DEF Quiet
    <3> QED
      BY <3>1, <3>2
  <2>5. rx'.pc \notin {"refresh", "append"} => \A r \in ToSet(inbox'.queue) : Quiet(r)'
    <3>1. ToSet(inbox.queue) \subseteq Rings
      BY <1>1, ToSetType
    <3> QED
      BY <2>1, <2>2, <3>1 DEF Scanned, SameRx
  <2>6. rx'.pc = "finished" => ring'[shards'[At']].q = <<>>
    <3>1. rx.pc = "finished" => ring[shards[At]].q = <<>> /\ shards[At] \in Rings
      BY <1>1, <2>2, AtIs DEF Scanned, BaseInv, PlaceInv
    <3> QED
      BY <2>1, <2>3, <3>1 DEF SameRx
  <2>7. rx'.pc \in {"visit", "finished"} /\ rx'.pushed = 0 =>
          rx'.steps <= Len(shards') /\ \A x \in 1 .. Len(shards') : Behind(x)' => Quiet(shards[x])'
    BY <2>1, <2>2, <2>3, <2>4 DEF Scanned, SameRx
  <2>8. rx'.pc \in {"miss", "pending"} => \A x \in 1 .. Len(shards') : Quiet(shards[x])'
    BY <2>1, <2>2, <2>4 DEF Scanned, SameRx
  <2>9. rx'.pc = "pending" => live' > 0
    BY <2>1, <2>2 DEF Scanned, SameRx
  <2> QED
    BY <2>5, <2>6, <2>7, <2>8, <2>9 DEF Scanned
<1> QED
  BY <1>3, <1>4 DEF QuietInv

\* Where at most two shards are left, the one that takes the place of the
\* pruned one has been passed or is still to come.
LEMMA PruneQuiet ==
  ASSUME BaseInv, OwnInv, Prune, NumRings <= 2, rx.pushed = 0, rx.steps <= Len(shards),
         \A x \in 1 .. Len(shards) : Behind(x) => Quiet(shards[x])
  PROVE  /\ rx'.steps <= Len(shards') /\ \A x \in 1 .. Len(shards') : Behind(x)' => Quiet(shards[x])'
         /\ rx'.pc = "miss" => \A x \in 1 .. Len(shards') : Quiet(shards[x])'
<1> DEFINE n == Len(shards)
<1>1. TypeInv /\ shards \in Seq(Rings) /\ n \in Nat /\ rx.cursor \in Nat /\ rx.steps \in Nat
      /\ Distinct(shards)
  BY DEF BaseInv, TypeInv, ReceiverState, OwnInv, ListInv
<1>2. PICK r \in Rings :
        /\ r = shards[At] /\ rx.steps > 0 /\ shards # <<>>
        /\ shards' = SwapRemove(shards, At) /\ shards' \in Seq(Rings) /\ Len(shards') = Len(shards) - 1
        /\ ring' = ring \/ RingOnly(r)
        /\ SameVisit(IF shards' = <<>> THEN 0 ELSE rx.steps - 1)
  BY PruneIs
<1>3. n \in {1, 2}
  <2>1. IsFiniteSet(Rings) /\ Cardinality(Rings) = NumRings /\ NumRings \in Nat
    BY RingsFinite
  <2>2. n <= NumRings
    BY <1>1, <2>1, DistinctCount
  <2> QED
    BY <1>1, <1>2, <2>1, <2>2
<1>4. At \in 1 .. n
  BY <1>1, <1>2, AtIs
<1>5. CASE n = 1
  <2>1. shards' = <<>> /\ Len(shards') = 0 /\ rx'.steps = 0
    BY <1>2, <1>5 DEF SameVisit
  <2> QED
    BY <2>1
<1>6. CASE n = 2
  <2>1. Len(shards') = 1 /\ shards' # <<>>
    <3>1. Len(shards') = 1
      BY <1>2, <1>6
    <3>2. shards' = <<>> => Len(shards') = 0
      OBVIOUS
    <3> QED
      BY <3>1, <3>2
  <2>2. rx' \in ReceiverState /\ rx'.steps = rx.steps - 1 /\ rx'.pc = (IF rx.steps = 1 THEN "miss" ELSE "visit")
    BY <1>1, <1>2, <2>1 DEF SameVisit
  <2>3. CASE rx.steps = 2
    <3>1. rx'.steps = Len(shards') /\ rx'.pc = "visit"
      BY <2>1, <2>2, <2>3
    <3>2. \A x \in 1 .. Len(shards') : ~Behind(x)'
      BY <1>2, <2>2, <3>1, NoneBehind
    <3> QED
      BY <2>1, <3>1, <3>2
  <2>4. CASE rx.steps = 1
    <3> DEFINE o == IF At = 1 THEN 2 ELSE 1
    <3>1. o \in 1 .. n /\ o # At /\ shards'[1] = shards[o]
      <4>1. \A j \in 1 .. n - 1 : SwapRemove(shards, At)[j] = IF j = At THEN shards[n] ELSE shards[j]
        BY <1>1, <1>4, SwapRemoveIs
      <4>2. 1 \in 1 .. n - 1
        BY <1>6
      <4>3. shards'[1] = IF 1 = At THEN shards[2] ELSE shards[1]
        BY <1>2, <1>6, <4>1, <4>2
      <4> HIDE DEF n
      <4> QED
        BY <1>4, <1>6, <4>3
    <3>2. Behind(o)
      <4> DEFINE i == rx.cursor % n
      <4>1. At = i + 1 /\ (Behind(o) <=> Passed(o, i, n - rx.steps, n))
        BY DEF At, Behind
      <4>0. i \in 0 .. n - 1
        BY <1>1, <1>6, Remainder
      <4> HIDE DEF n, i
      <4>2. i \in {0, 1} /\ o = IF i = 0 THEN 2 ELSE 1
        BY <1>4, <1>6, <4>0, <4>1
      <4> QED
        BY <1>6, <2>4, <4>1, <4>2 DEF Passed
    <3>3. Quiet(shards[o]) /\ shards[o] # r /\ shards[o] \in Rings
      BY <1>1, <1>2, <1>4, <3>1, <3>2 DEF Distinct
    <3>4. ring'[shards'[1]] = ring[shards[o]]
      BY <1>2, <3>1, <3>3 DEF RingOnly
    <3>5. Quiet(shards[1])'
      BY <3>3, <3>4 DEF Quiet
    <3>6. \A x \in 1 .. Len(shards') : x = 1
      BY <2>1
    <3>7. rx'.steps <= Len(shards')
      BY <2>1, <2>2, <2>4
    <3> QED
      BY <3>5, <3>6, <3>7
  <2> QED
    BY <1>1, <1>2, <1>6, <2>3, <2>4
<1> QED
  BY <1>3, <1>5, <1>6

\* The receiver's own steps: what it has found quiet stays so.
LEMMA QuietReceives ==
  ASSUME BaseInv, OwnInv, LiveInv, InboxInv, CallInv, QuietInv, Receives, NumRings <= 2 \/ tier = "pool"
  PROVE  QuietInv'
<1>1. /\ TypeInv /\ PlaceInv /\ shards \in Seq(Rings) /\ inbox.queue \in Seq(Rings) /\ rx \in ReceiverState
      /\ rx.pushed \in Nat /\ rx.steps \in Nat /\ Len(shards) \in Nat /\ ToSet(inbox.queue) \subseteq Rings
  BY ToSetType DEF BaseInv, TypeInv, ReceiverState
<1>2. UNCHANGED <<tier, live>>
  BY ReceivesIs
<1>3. rx'.phase # 3 /\ rx'.pc # "pending" => QuietInv'
  BY DEF QuietInv, Unowed
<1>4. ASSUME rx.pc # "arm", Unowed' PROVE Unowed /\ Scanned
  BY <1>4, OwedBefore DEF QuietInv
<1>5. ASSUME rx.pc \notin {"arm", "refresh", "append"}, inbox'.queue = inbox.queue,
             \A r \in Rings : Quiet(r) => Quiet(r)',
             rx'.pc \notin {"visit", "finished", "miss", "pending"} \/ (rx'.pc = "visit" /\ rx'.pushed > 0)
      PROVE  QuietInv'
  <2>1. ASSUME Unowed' PROVE Scanned'
    <3>1. \A r \in ToSet(inbox'.queue) : Quiet(r)'
      BY <1>1, <1>4, <1>5, <2>1 DEF Scanned
    <3>2. rx'.pushed > 0 => rx'.pushed # 0
      OBVIOUS
    <3> QED
      BY <1>5, <3>1, <3>2 DEF Scanned
  <2> QED
    BY <1>5, <2>1 DEF QuietInv
<1>6. ring' = ring => \A r \in Rings : Quiet(r) => Quiet(r)'
  BY DEF Quiet
<1>7. CASE \E call \in Calls : StartRecv(call[1], call[2])
  <2>1. PICK n \in 0 .. Len(rx.staging) : Begins(rx'.mode, rx'.phase, n)
    BY <1>7, BeginIs
  <2>2. rx'.phase \in {0, 1} /\ rx'.pc # "pending"
    BY <2>1 DEF Begins
  <2> QED
    BY <1>3, <2>2
<1>8. CASE Refresh
  <2>1. /\ rx.pc = "refresh" /\ rx' \in ReceiverState /\ UNCHANGED <<ring, shards, inbox>>
        /\ \/ rx'.pc = "append"
           \/ /\ inbox.generation = rx.seen /\ rx'.steps = Len(shards)
              /\ rx'.pc = IF shards = <<>> THEN (IF rx.pushed > 0 THEN "ready" ELSE "miss") ELSE "visit"
    BY <1>1, <1>8, RefreshIs DEF mine
  <2>2. CASE rx'.pc = "append"
    BY <2>2 DEF QuietInv, Scanned
  <2>3. CASE rx'.pc # "append"
    <3>1. inbox.generation = rx.seen /\ rx.seen \in Nat
      BY <1>1, <2>1, <2>3 DEF ReceiverState
    <3>2. \A r \in ToSet(inbox.queue) : Depositing(r)
      BY <3>1 DEF InboxInv
    <3>3. \A r \in ToSet(inbox.queue) : Quiet(r)
      BY <1>1, <3>2 DEF OwnInv, CleanInv, Clean, Quiet
    <3>4. \A r \in ToSet(inbox'.queue) : Quiet(r)'
      BY <1>1, <1>6, <2>1, <3>3
    <3>5. /\ rx'.pc \in {"visit", "miss", "ready"} /\ (rx'.pc = "miss" => shards' = <<>>)
          /\ rx'.steps = Len(shards') /\ shards' \in Seq(Rings)
      BY <1>1, <2>1, <2>3
    <3>6. Scanned'
      BY <2>1, <3>4, <3>5, ScanBegins
    <3> QED
      BY <3>5, <3>6 DEF QuietInv
  <2> QED
    BY <2>2, <2>3
<1>9. CASE AppendInbox
  <2>1. /\ rx' \in ReceiverState /\ inbox'.queue = <<>> /\ shards' \in Seq(Rings) /\ rx'.steps = Len(shards')
        /\ rx'.pc = IF shards' = <<>> THEN (IF rx.pushed > 0 THEN "ready" ELSE "miss") ELSE "visit"
    BY <1>1, <1>9, AppendInboxIs
  <2>2. rx'.pc \in {"visit", "miss", "ready"} /\ (rx'.pc = "miss" => shards' = <<>>)
    BY <2>1
  <2>3. \A r \in ToSet(inbox'.queue) : Quiet(r)'
    BY <2>1, EmptyIs
  <2>4. Scanned'
    BY <2>1, <2>2, <2>3, ScanBegins
  <2> QED
    BY <2>2, <2>4 DEF QuietInv
<1>10. CASE Drain
  <2>1. PICK r \in Rings : \E n \in 1 .. Len(ring[r].q) :
          /\ rx.pc = "visit" /\ RingOnly(r) /\ rx'.pc = "space" /\ inbox' = inbox
    BY <1>10, DrainIs
  <2>2. ring[r].q # <<>>
    BY <2>1
  <2>3. \A o \in Rings : Quiet(o) => Quiet(o)'
    BY <2>1, <2>2 DEF RingOnly, Quiet
  <2> QED
    BY <1>5, <2>1, <2>3
<1>11. CASE NotifySpace \/ WakeSpace
  <2>1. /\ rx.pc \in {"space", "spacewake"} /\ SameCall /\ inbox' = inbox /\ ring' = ring
        /\ rx' = AfterDrain(rx) \/ rx'.pc = "spacewake"
    BY <1>11, NotifySpaceIs, WakeSpaceIs
  <2>2. CASE rx'.pc = "spacewake"
    BY <1>5, <1>6, <2>1, <2>2
  <2>3. CASE rx' = AfterDrain(rx)
    <3>1. rx'.pc \in {"ready", "visit", "miss"} /\ (rx.mode = "one" => rx'.pc = "ready")
          /\ (rx'.pc # "ready" => rx' = Visits(rx, rx.steps))
      BY <1>1, <2>3, AfterDrainIs
    <3>2. rx.mode # "one" => rx.pushed > 0
      BY <2>1 DEF CallInv
    <3>3. rx.pushed > 0 => Visits(rx, rx.steps).pc # "miss"
      BY <1>1, VisitsIs
    <3>4. rx'.pc # "ready" => rx'.pc = "visit" /\ rx'.pushed > 0
      BY <2>1, <3>1, <3>2, <3>3 DEF SameCall
    <3> QED
      BY <1>5, <1>6, <2>1, <3>1, <3>4
  <2> QED
    BY <2>1, <2>2, <2>3
<1>12. CASE DrainEmpty
  <2>1. /\ rx.pc = "visit" /\ rx'.pc = "finished" /\ SameCall /\ rx'.steps = rx.steps
        /\ ring[shards[At]].q = <<>> /\ UNCHANGED <<ring, shards, inbox>>
    BY <1>1, <1>12, DrainEmptyIs DEF mine
  <2>2. ASSUME Unowed' PROVE Scanned'
    <3>1. Scanned
      BY <1>4, <2>1, <2>2
    <3>2. At' = At /\ \A x \in 1 .. Len(shards) : (Behind(x)' <=> Behind(x)) /\ (Quiet(shards[x])' <=> Quiet(shards[x]))
      BY <2>1 DEF At, Behind, Passed, SameCall, Quiet
    <3>3. \A r \in ToSet(inbox'.queue) : Quiet(r)'
      BY <1>1, <1>6, <2>1, <3>1 DEF Scanned
    <3>4. ring'[shards'[At']].q = <<>>
      BY <2>1, <3>2
    <3>5. rx'.pushed = 0 =>
            rx'.steps <= Len(shards') /\ \A x \in 1 .. Len(shards') : Behind(x)' => Quiet(shards[x])'
      BY <2>1, <3>1, <3>2 DEF Scanned, SameCall
    <3> QED
      BY <2>1, <3>3, <3>4, <3>5 DEF Scanned
  <2> QED
    BY <2>1, <2>2 DEF QuietInv
<1>13. CASE NotFinished \/ Recycle
  <2>1. /\ rx.pc = "finished" /\ rx.steps > 0 /\ shards # <<>> /\ SameVisit(rx.steps - 1)
        /\ rx'.cursor = Bumped /\ UNCHANGED <<shards, inbox>>
    BY <1>13, NotFinishedIs, RecycleIs
  <2>2. PICK r \in Rings : r = shards[At]
    BY <1>1, <2>1, AtIs
  <2>3. (\A o \in Rings : Quiet(o) => Quiet(o)') /\ (ring[r].q = <<>> => Quiet(r)')
    <3>1. CASE NotFinished
      <4>1. ~Finished(r) /\ ring' = ring
        BY <2>2, <3>1, NotFinishedIs DEF mine
      <4>2. ring[r].q = <<>> => Quiet(r)
        BY <4>1 DEF Finished, Quiet
      <4> QED
        BY <1>6, <4>1, <4>2
    <3>2. CASE Recycle
      <4>1. \/ ring[r].arc /\ ring' = ring
            \/ RingOnly(r) /\ ring'[r] = FreshRing
        BY <2>2, <3>2, RecycleIs
      <4>2. CASE ring[r].arc /\ ring' = ring
        BY <4>2 DEF Quiet
      <4>3. CASE RingOnly(r) /\ ring'[r] = FreshRing
        BY <4>3 DEF RingOnly, Quiet, FreshRing
      <4> QED
        BY <4>1, <4>2, <4>3
    <3> QED
      BY <1>13, <3>1, <3>2
  <2>4. CASE rx.pushed > 0
    <3>1. rx'.pc \in {"ready", "visit"} /\ rx'.pushed > 0
      BY <2>1, <2>4 DEF SameVisit
    <3> QED
      BY <1>5, <2>1, <2>3, <3>1
  <2>5. CASE rx.pushed = 0
    <3>1. rx'.steps = rx.steps - 1 /\ rx'.pushed = 0 /\ rx'.pc = (IF rx.steps - 1 = 0 THEN "miss" ELSE "visit")
      BY <2>1, <2>5 DEF SameVisit
    <3>2. rx'.pc \in {"miss", "visit"} /\ (rx'.pc = "miss" => rx.steps = 1)
      BY <1>1, <3>1
    <3>3. ASSUME Unowed' PROVE Scanned'
      <4>1. Scanned
        BY <1>4, <2>1, <3>3
      <4>2. /\ rx.steps <= Len(shards) /\ ring[r].q = <<>>
            /\ \A x \in 1 .. Len(shards) : Behind(x) => Quiet(shards[x])
        BY <2>1, <2>2, <2>5, <4>1 DEF Scanned
      <4>3. /\ \A x \in 1 .. Len(shards) : Behind(x)' => x = At \/ Behind(x)
            /\ rx.steps = 1 => \A x \in 1 .. Len(shards) : Behind(x)'
        BY <2>1, <3>1, <4>2, PassOne
      <4>4. ASSUME NEW x \in 1 .. Len(shards), x = At \/ Behind(x) PROVE Quiet(shards[x])'
        <5>1. PICK y \in Rings : y = shards[x]
          BY <1>1
        <5>2. y = r \/ Quiet(y)
          BY <2>2, <4>2, <4>4, <5>1
        <5>3. Quiet(y)'
          BY <2>3, <4>2, <5>2
        <5> QED
          BY <2>1, <5>1, <5>3 DEF Quiet
      <4>5. \A o \in ToSet(inbox'.queue) : Quiet(o)'
        BY <1>1, <2>1, <2>3, <4>1 DEF Scanned
      <4>6. rx'.steps <= Len(shards') /\ \A x \in 1 .. Len(shards') : Behind(x)' => Quiet(shards[x])'
        BY <1>1, <2>1, <3>1, <4>2, <4>3, <4>4
      <4>7. rx'.pc = "miss" => \A x \in 1 .. Len(shards') : Quiet(shards[x])'
        BY <2>1, <3>2, <4>3, <4>4
      <4> QED
        BY <3>2, <4>5, <4>6, <4>7 DEF Scanned
    <3> QED
      BY <3>2, <3>3 DEF QuietInv
  <2> QED
    BY <1>1, <2>4, <2>5
<1>14. CASE Prune
  <2>1. PICK r \in Rings :
          /\ rx.pc = "finished" /\ rx.steps > 0 /\ shards # <<>> /\ tier # "pool"
          /\ SameVisit(IF shards' = <<>> THEN 0 ELSE rx.steps - 1) /\ inbox' = inbox
          /\ \/ ring' = ring
             \/ /\ RingOnly(r) /\ ring'[r].q = ring[r].q /\ ring'[r].producer_gone = ring[r].producer_gone
                /\ ring'[r].arc = ring[r].arc
    BY <1>14, PruneIs
  <2>2. \A o \in Rings : Quiet(o) => Quiet(o)'
    BY <2>1 DEF RingOnly, Quiet
  <2>3. CASE rx.pushed > 0
    <3>1. rx'.pc \in {"ready", "visit"} /\ rx'.pushed > 0
      BY <2>1, <2>3 DEF SameVisit
    <3> QED
      BY <1>5, <2>1, <2>2, <3>1
  <2>4. CASE rx.pushed = 0
    <3>1. rx'.pc \in {"miss", "visit"}
      BY <2>1, <2>4 DEF SameVisit
    <3>2. ASSUME Unowed' PROVE Scanned'
      <4>1. Scanned
        BY <1>4, <2>1, <3>2
      <4>2. rx.steps <= Len(shards) /\ \A x \in 1 .. Len(shards) : Behind(x) => Quiet(shards[x])
        BY <2>1, <2>4, <4>1 DEF Scanned
      <4>3. /\ rx'.steps <= Len(shards') /\ \A x \in 1 .. Len(shards') : Behind(x)' => Quiet(shards[x])'
            /\ rx'.pc = "miss" => \A x \in 1 .. Len(shards') : Quiet(shards[x])'
        BY <1>14, <2>1, <2>4, <4>2, PruneQuiet
      <4>4. \A o \in ToSet(inbox'.queue) : Quiet(o)'
        BY <1>1, <2>1, <2>2, <4>1 DEF Scanned
      <4> QED
        BY <3>1, <4>3, <4>4 DEF Scanned
    <3> QED
      BY <3>1, <3>2 DEF QuietInv
  <2> QED
    BY <1>1, <2>3, <2>4
<1>15. CASE Miss
  <2>1. /\ rx.pc = "miss" /\ UNCHANGED <<ring, shards, inbox>>
        /\ \/ rx'.phase \in {0, 1, 2, 4} /\ rx'.pc # "pending"
           \/ rx'.pc = "pending" /\ rx'.phase = 3 /\ live # 0
    <3>1. \A ph : Passing(ph) => rx'.phase = ph /\ rx'.pc # "pending"
      BY DEF Passing
    <3> QED
      BY <1>15, <3>1, MissIs DEF mine
  <2>2. CASE rx'.phase \in {0, 1, 2, 4} /\ rx'.pc # "pending"
    BY <1>3, <2>2
  <2>3. CASE rx'.pc = "pending" /\ rx'.phase = 3 /\ live # 0
    <3>1. live' > 0
      <4>1. Cardinality(Counted) \in Nat /\ Extra(prod[Handle]) \in Nat
        BY CountedIs DEF Extra
      <4>2. live \in Nat
        BY <4>1 DEF LiveInv
      <4> QED
        BY <1>2, <2>3, <4>2
    <3>2. ASSUME Unowed' PROVE Scanned'
      <4>1. Scanned
        BY <1>4, <2>1, <3>2
      <4>2. \A x \in 1 .. Len(shards') : Quiet(shards[x])'
        BY <2>1, <4>1 DEF Scanned, Quiet
      <4>3. \A o \in ToSet(inbox'.queue) : Quiet(o)'
        BY <1>1, <1>6, <2>1, <4>1 DEF Scanned
      <4> QED
        BY <2>3, <3>1, <4>2, <4>3 DEF Scanned
    <3> QED
      BY <2>3, <3>2 DEF QuietInv
  <2> QED
    BY <2>1, <2>2, <2>3
<1>16. CASE ArmReceiver \/ PollRecv
  <2>1. /\ Passing(1) \/ Passing(3)
        /\ UNCHANGED <<tier, ring, shards, inbox>> /\ rx.pushed = 0
    BY <1>16, RepollIs DEF mine
  <2>2. CASE Passing(1)
    BY <1>3, <2>2 DEF Passing
  <2>3. CASE Passing(3) /\ tier = "dynamic"
    BY <2>3 DEF Passing, QuietInv, Scanned
  <2>4. CASE Passing(3) /\ tier # "dynamic"
    <3>1. \A r \in ToSet(inbox'.queue) : Quiet(r)'
      BY <2>1, <2>4, EmptyIs DEF InboxInv
    <3>2. /\ rx' \in ReceiverState /\ shards' \in Seq(Rings) /\ rx'.pc \in {"visit", "miss", "ready"}
          /\ rx'.steps = Len(shards') /\ (rx'.pc = "miss" => shards' = <<>>)
      BY <1>1, <2>1, <2>4 DEF Passing
    <3>3. Scanned'
      BY <3>1, <3>2, ScanBegins
    <3> QED
      BY <3>2, <3>3 DEF QuietInv
  <2> QED
    BY <2>1, <2>2, <2>3, <2>4
<1>17. CASE Ready
  <2>1. rx'.phase = 0 /\ rx'.pc = "idle"
    BY <1>17, ReadyIs
  <2> QED
    BY <1>3, <2>1
<1>18. CASE CancelRecv \/ ReceiverDrop
  <2>1. rx'.phase = 0 /\ rx'.pc # "pending"
    BY <1>18, StopIs
  <2> QED
    BY <1>3, <2>1
<1>19. CASE ShutShard \/ ShutNotify
  <2>1. rx.pc \in {"shut", "shutnotify"} /\ rx'.phase = rx.phase /\ rx'.pc # "pending"
    BY <1>19, ShutShardIs, ShutNotifyIs DEF SameCall
  <2>2. rx.phase = 0
    BY <2>1 DEF CallInv, Alive
  <2> QED
    BY <1>3, <2>1, <2>2
<1>20. CASE DropInbox
  <2>1. rx.pc = "gone" /\ rx' = rx
    BY <1>20, DropInboxIs
  <2>2. rx.phase = 0
    BY <2>1 DEF CallInv, Alive
  <2> QED
    BY <1>3, <2>1, <2>2
<1> QED
  BY <1>7, <1>8, <1>9, <1>10, <1>11, <1>12, <1>13, <1>14, <1>15, <1>16, <1>17, <1>18, <1>19, <1>20 DEF Receives

\* A registered receiver is always woken: its wake-up is kept by every step.
LEMMA WakeStep ==
  ASSUME BaseInv, OwnInv, EndInv, WakeInv, NumRings <= 2 \/ tier = "pool", [Next]_vars
  PROVE  WakeInv'
<1>1. DirtyInv' /\ ArmedInv'
  BY DirtyStep, ArmedStep DEF WakeInv
<1>2. CASE Receives
  BY <1>1, <1>2, QuietReceives DEF WakeInv, EndInv
<1>3. CASE ~Receives
  BY <1>1, <1>3, QuietSide DEF WakeInv
<1> QED
  BY <1>2, <1>3

\* The tier is chosen when the channel is opened.
LEMMA TierStep ==
  ASSUME BaseInv, OwnInv, [Next]_vars
  PROVE  tier' = tier
<1>1. CASE Receives
  BY <1>1, ReceivesIs
<1>2. CASE SenderSide
  BY <1>2, SenderSideIs
<1> QED
  BY <1>1, <1>2, NextIs DEF SenderSide

\* The channel opens with nobody waiting.
LEMMA OpenWake ==
  ASSUME Init
  PROVE  WakeInv
<1>1. rx.phase = 0 /\ rx.pc = "idle"
  BY DEF Init
<1>2. \A s \in Senders : ~prod[s].dirty
  BY DEF Init, Producer
<1> QED
  BY <1>1, <1>2 DEF WakeInv, DirtyInv, ArmedInv, QuietInv, Unowed

\* With at most two rings, or rings that are never pruned.
LEMMA WakeAlways ==
  ASSUME NumRings <= 2 \/ Tiers \subseteq {"pool"}
  PROVE  Spec => [](BaseInv /\ OwnInv /\ EndInv /\ WakeInv /\ tier \in Tiers)
<1>1. Init => WakeInv /\ tier \in Tiers
  BY OpenWake DEF Init
<1>2. BaseInv /\ OwnInv /\ EndInv /\ WakeInv /\ tier \in Tiers /\ [Next]_vars => WakeInv' /\ (tier \in Tiers)'
  <2> SUFFICES ASSUME BaseInv, OwnInv, EndInv, WakeInv, tier \in Tiers, [Next]_vars
               PROVE  WakeInv' /\ (tier \in Tiers)'
    OBVIOUS
  <2>1. NumRings <= 2 \/ tier = "pool"
    OBVIOUS
  <2> QED
    BY <2>1, WakeStep, TierStep
<1> QED
  BY <1>1, <1>2, EndAlways, PTL DEF Spec

\* A receiver that returned Pending and was not woken has missed no value, no
\* disconnect and no finished shard that a wake-up is not still owed for: in
\* the pool tier for any number of rings, and in the tiers that prune finished
\* shards for up to two.  With three, the pass can skip the shard that was
\* swapped into the place of a pruned one, and the statement is false.
THEOREM WakeCorrect ==
  ASSUME NumRings <= 2 \/ Tiers \subseteq {"pool"}
  PROVE  Spec => []NoLostWake
<1>1. BaseInv /\ OwnInv /\ EndInv /\ WakeInv /\ tier \in Tiers => NoLostWake
  <2> SUFFICES ASSUME BaseInv, WakeInv, rx.pc = "pending", ~rx.woken, ~WakeOwed
               PROVE  live > 0 /\ \A r \in Rings : Known(r) => Quiet(r)
    BY DEF NoLostWake, Quiet
  <2>1. Unowed /\ Scanned /\ shards \in Seq(Rings)
    BY DEF WakeInv, QuietInv, Unowed, BaseInv, TypeInv
  <2>2. live > 0 /\ (\A r \in ToSet(inbox.queue) : Quiet(r)) /\ \A x \in 1 .. Len(shards) : Quiet(shards[x])
    BY <2>1 DEF Scanned
  <2>3. \A r \in ToSet(shards) : Quiet(r)
    BY <2>1, <2>2 DEF ToSet
  <2> QED
    BY <2>2, <2>3 DEF Known
<1> QED
  BY <1>1, WakeAlways, PTL
=============================================================================
