-------------------------------- MODULE Ipc ---------------------------------
(***************************************************************************)
(* A process duplex from declaration to teardown: the rendezvous of        *)
(* ipc/control.rs, the setup handshake of ipc/setup.rs with the checks of  *)
(* ipc::create and ipc::attach_peer, the shared regions of ipc/region.rs   *)
(* and their role claims, and then the transfers of IpcStream.  Either     *)
(* process may fail or die at any point.                                   *)
(***************************************************************************)
EXTENDS IpcStream

CONSTANT Contracts   \* the payload contracts explored

ASSUME ContractAssumption ==
  \A c \in Contracts :
    c.kind \in {"Bytes", "Pod", "Codec"} /\ {c.schema_id, c.element_size, c.element_align} \subseteq Nat

Flows   == {"ParentToWorker", "WorkerToParent"}
Regions == Flows \X {"data", "releases"}

VARIABLES
  side,      \* how far each process is with its open
  payload,   \* the PayloadContract of each declaration
  path,      \* the endpoint's pathname exists
  link,      \* the control connection: "none", "pending" or "up"
  wire,      \* what was written to it: the handle, the acknowledgement
  regions,   \* names of shared regions that can be opened
  claims     \* role claims in the header of each direction's data arena

setup == <<side, payload, path, link, wire, regions, claims>>
vars  == <<stream, setup>>

PowerOfTwo(n) == \E i \in 0 .. n : n = 2 ^ i

\* PayloadContract::validate
Valid(c) ==
  CASE c.kind = "Bytes" -> c.schema_id = 0 /\ c.element_size = 1 /\ c.element_align = 1
    [] c.kind = "Pod"   -> c.schema_id # 0 /\ c.element_size # 0 /\ PowerOfTwo(c.element_align)
    [] c.kind = "Codec" -> c.schema_id # 0 /\ c.element_size = 0 /\ c.element_align = 0

WholeValues(c) == c.kind = "Pod" => TotalBytes % c.element_size = 0

\* The calls a typed duplex makes: POD values are exact, encoded ones are not.
ModeAllowed(p) ==
  CASE payload[p].kind = "Bytes" -> TRUE
    [] payload[p].kind = "Pod"   -> ep'[p].mode = "exact"
    [] payload[p].kind = "Codec" -> ep'[p].mode = "to_end"

Init ==
  /\ StreamInit
  /\ payload \in [Processes -> Contracts]
  /\ side = [p \in Processes |-> IF p = "parent" THEN "bind" ELSE "connect"]
  /\ path \in BOOLEAN     \* a creator that was killed leaves its pathname behind
  /\ link = "none" /\ wire = [handle |-> FALSE, ack |-> "none"]
  /\ regions = {} /\ claims = [f \in Flows |-> {}]

Move(p, s) == side' = [side EXCEPT ![p] = s]

\* Everything the process owns is dropped: its end of the socket, the
\* listener's pathname and, by their owner, the names of the regions.
Drop(p) ==
  /\ Move(p, "gone")
  /\ Depart(p)
  /\ regions' = IF p = "parent" THEN {} ELSE regions
  /\ path' = (path /\ side[p] # "accept" /\ side[p] # "expired")
  /\ UNCHANGED <<payload, link, claims>>

Fail(p) == Drop(p) /\ UNCHANGED wire

-----------------------------------------------------------------------------
(* accept_named and connect_named.                                         *)

Bind ==
  /\ side["parent"] = "bind"
  /\ IF path \/ ~Valid(payload["parent"]) \/ ~WholeValues(payload["parent"]) THEN Fail("parent")
     ELSE /\ path' = TRUE /\ Move("parent", "accept")
          /\ UNCHANGED <<stream, payload, link, wire, regions, claims>>

Connect ==
  /\ side["worker"] = "connect" /\ link = "none"
  /\ IF ~Valid(payload["worker"]) THEN Fail("worker")
     ELSE /\ side["parent"] \in {"accept", "expired"}
          /\ link' = "pending" /\ Move("worker", "receive")
          /\ UNCHANGED <<stream, payload, path, wire, regions, claims>>

Accept ==
  /\ side["parent"] = "accept" /\ link = "pending"
  /\ link' = "up" /\ path' = FALSE /\ Move("parent", "create")
  /\ UNCHANGED <<stream, payload, wire, regions, claims>>

\* The deadline passed with nobody there; somebody may connect before the
\* listener is dropped.
AcceptTimeout ==
  /\ side["parent"] = "accept" /\ link = "none"
  /\ Move("parent", "expired")
  /\ UNCHANGED <<stream, payload, path, link, wire, regions, claims>>

StopListening == side["parent"] = "expired" /\ Fail("parent")

-----------------------------------------------------------------------------
(* ipc::create with setup::send, ipc::attach_peer with setup::receive.     *)

Direction(f) == {f} \X {"data", "releases"}

\* SharedRegion::create takes a fresh name; SharedRegion::open finds the names
\* that their owner has not unlinked.
CreateRegions(rs) == regions' = regions \cup rs
CanOpen(rs)       == rs \subseteq regions

\* Arena::create and Arena::open, for both arenas of a direction.
CreateArenas(f) == CreateRegions(Direction(f))
ArenasOpen(f)   == CanOpen(Direction(f))

\* claim_direction_role: each role of a direction is taken once and for good.
ClaimRole(f, role) == role \notin claims[f] /\ claims' = [claims EXCEPT ![f] = @ \cup {role}]

\* Direction::create: both regions, then the creator's role.
CreateDirection(f) ==
  /\ side["parent"] = "create" /\ Direction(f) \cap regions = {}
  /\ f = "WorkerToParent" => Direction("ParentToWorker") \subseteq regions
  /\ IF ~ValidShape THEN Fail("parent")
     ELSE /\ CreateArenas(f)
          /\ ClaimRole(f, IF f = "ParentToWorker" THEN "Producer" ELSE "Consumer")
          /\ Move("parent", IF f = "WorkerToParent" THEN "send" ELSE "create")
          /\ UNCHANGED <<stream, payload, path, link, wire>>

SendHandle ==
  /\ side["parent"] = "send"
  /\ IF "worker" \in closed THEN Fail("parent")
     ELSE /\ wire' = [wire EXCEPT !.handle = TRUE] /\ Move("parent", "ack")
          /\ UNCHANGED <<stream, payload, path, link, regions, claims>>

ReadAck ==
  /\ side["parent"] = "ack"
  /\ \/ /\ wire.ack = "accepted" /\ Move("parent", "open")
        /\ UNCHANGED <<stream, payload, path, link, wire, regions, claims>>
     \/ (wire.ack = "rejected" \/ (wire.ack = "none" /\ "worker" \in closed)) /\ Fail("parent")

\* setup::reject, then the error is returned.
Reject == Drop("worker") /\ wire' = [wire EXCEPT !.ack = "rejected"]

ReadHandle ==
  /\ side["worker"] = "receive"
  /\ \/ /\ wire.handle /\ Move("worker", "check")
        /\ UNCHANGED <<stream, payload, path, link, wire, regions, claims>>
     \/ ~wire.handle /\ "parent" \in closed /\ Reject

\* Mutant: the contract of the frame is checked by itself only.
CheckContractAlone ==
  /\ side["worker"] = "check"
  /\ IF Valid(payload["parent"]) /\ WholeValues(payload["parent"])
     THEN Move("worker", "inbound") /\ UNCHANGED <<stream, payload, path, link, wire, regions, claims>>
     ELSE Reject

\* The contract of the frame against the expected one, before anything is
\* mapped.
CheckContract ==
  /\ side["worker"] = "check"
  /\ IF payload["parent"] = payload["worker"] /\ Valid(payload["parent"]) /\ WholeValues(payload["parent"])
     THEN Move("worker", "inbound") /\ UNCHANGED <<stream, payload, path, link, wire, regions, claims>>
     ELSE Reject

\* Direction::open: both regions by name, then the peer's role.
OpenDirection(f) ==
  LET role == IF f = "ParentToWorker" THEN "Consumer" ELSE "Producer" IN
  /\ side["worker"] = IF f = "ParentToWorker" THEN "inbound" ELSE "outbound"
  /\ IF ArenasOpen(f) /\ role \notin claims[f]
     THEN /\ ClaimRole(f, role)
          /\ Move("worker", IF f = "ParentToWorker" THEN "outbound" ELSE "reply")
          /\ UNCHANGED <<stream, payload, path, link, wire, regions>>
     ELSE Reject

AcceptSetup ==
  /\ side["worker"] = "reply"
  /\ IF "parent" \in closed THEN Fail("worker")
     ELSE /\ wire' = [wire EXCEPT !.ack = "accepted"] /\ Move("worker", "open")
          /\ UNCHANGED <<stream, payload, path, link, regions, claims>>

-----------------------------------------------------------------------------
(* Failures.                                                               *)

\* A read or accept that times out, or a system call that fails.  The worker
\* rejects from receive up to the last check.
SetupError(p) ==
  /\ side[p] \notin {"open", "gone"}
  /\ IF side[p] \in {"receive", "check", "inbound", "outbound"} THEN Reject ELSE Fail(p)

\* The process is killed: nothing it owned is cleaned up but its socket.
Crash(p) ==
  /\ side[p] # "gone"
  /\ Move(p, "gone") /\ Depart(p)
  /\ UNCHANGED <<payload, path, link, wire, regions, claims>>

\* The Duplex is dropped between calls.
Close(p) == side[p] = "open" /\ ~InCall(p) /\ Drop(p) /\ UNCHANGED wire

Begin(p) == side[p] = "open" /\ Call(p) /\ ModeAllowed(p) /\ UNCHANGED setup

Setup ==
  \/ Bind \/ Connect \/ Accept \/ AcceptTimeout \/ StopListening
  \/ \E f \in Flows : CreateDirection(f) \/ OpenDirection(f)
  \/ SendHandle \/ ReadAck \/ ReadHandle \/ CheckContract \/ AcceptSetup

Next ==
  \/ Setup
  \/ \E p \in Processes :
       \/ SetupError(p) \/ Crash(p) \/ Close(p) \/ Begin(p)
       \/ (Step(p) \/ Deadline(p)) /\ UNCHANGED setup
       \/ side[p] = "open" /\ OtherHalfFails(p) /\ UNCHANGED setup

Spec == Init /\ [][Next]_vars

\* A process in a call keeps running (every step of it moves ep); sources and
\* sinks return; parked processes are woken or their poll interval ends.
\* Nobody is obliged to call, and the deadline is never counted on.
Fairness == \A p \in Processes : WF_ep(Step(p) /\ UNCHANGED setup)

-----------------------------------------------------------------------------
\* A process whose create or attach_peer returned a duplex shares it with a
\* peer that declared the same payload and mapped both directions: every role
\* of both data arenas has been claimed by its one owner.
SetupAgreed ==
  \A p \in Processes : side[p] = "open" =>
    /\ payload["parent"] = payload["worker"] /\ Valid(payload[p]) /\ WholeValues(payload[p])
    /\ \A f \in Flows : claims[f] = {"Producer", "Consumer"}
=============================================================================
