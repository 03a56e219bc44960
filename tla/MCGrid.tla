------------------------------- MODULE MCGrid -------------------------------
(***************************************************************************)
(* From the declaration to the running channel: chains of builder calls    *)
(* end in open(); the declarations of Declared that open as a lane grid or *)
(* a brokered channel then run.                                            *)
(***************************************************************************)
EXTENDS Lanes, Brokered

vars == <<declaration, grid>>

IsLanes(d)    == d.topology = "Mpmc" /\ d.engine = "Lanes" /\ d.codec = "Native"
IsBrokered(d) == d.topology = "MpmcBrokered"
Runs          == decl \in Declared

Init == DeclarationInit /\ GridInit

\* open() of a declaration: the validation of module Declaration, then the
\* constructor; the brokered one goes on to spawn its brokers.
OpenRefused == Open /\ (Runs => opened' = "invalid") /\ UNCHANGED grid
OpenLanes   == Runs /\ IsLanes(decl) /\ Open /\ opened' = "open" /\ BuildLanes
OpenBrokered ==
  /\ opened = "no" /\ Runs /\ IsBrokered(decl) /\ HasOpen(decl) /\ Opens(decl)
  /\ opened' = "spawning" /\ UNCHANGED <<decl, edits>> /\ BuildBrokered

Next ==
  \/ ~Runs /\ Declare /\ UNCHANGED grid
  \/ OpenRefused \/ OpenLanes \/ OpenBrokered
  \/ \E b \in DOMAIN broker : Spawn(b) \/ SpawnFails(b)
  \/ IsLanes(decl) /\ LanesNext /\ UNCHANGED declaration
  \/ IsBrokered(decl) /\ BrokeredNext /\ UNCHANGED declaration

\* Every call in progress goes on, a receiver calls again until it is told the
\* end or dropped, and the broker threads run.
Fairness ==
  /\ WF_vars(\E b \in DOMAIN broker : Spawn(b))
  /\ \A p \in 1 .. 2 : WF_vars(p \in DOMAIN prod /\ IsLanes(decl) /\ LanesSend(p) /\ UNCHANGED declaration)
  /\ \A p \in 1 .. 2 : WF_vars(p \in DOMAIN prod /\ IsBrokered(decl) /\ BrokeredSend(p) /\ UNCHANGED declaration)
  /\ \A b \in 1 .. 2 : WF_vars(b \in DOMAIN broker /\ IsBrokered(decl) /\ BrokerStep(b) /\ UNCHANGED declaration)
  /\ \A c \in 1 .. 2 : WF_vars(/\ c \in DOMAIN con /\ IsLanes(decl) /\ UNCHANGED declaration
                               /\ LanesReceive(c) \/ \E op \in LanesCalls : LanesBegin(c, op))
  /\ \A c \in 1 .. 2 : WF_vars(/\ c \in DOMAIN con /\ IsBrokered(decl) /\ UNCHANGED declaration
                               /\ BrokeredReceive(c) \/ BrokeredBegin(c))

Spec == Init /\ [][Next]_vars /\ Fairness

-----------------------------------------------------------------------------
Sized(d, p, c, capacity) == [d EXCEPT !.producers = p, !.consumers = c, !.batch = 2, !.capacity = Some(capacity)]
LaneGrid(p, c, capacity) == [Sized(New(8), p, c, capacity) EXCEPT !.topology = "Mpmc", !.engine = "Lanes"]
BrokeredTo(routing, p, c, b, capacity) ==
  [Sized(New(8), p, c, capacity) EXCEPT !.topology = "MpmcBrokered", !.routing = routing, !.brokers = b]
Live == {LaneGrid(2, 2, 2), LaneGrid(1, 2, 2),
         BrokeredTo("RoundRobin", 1, 2, 1, 2), BrokeredTo("RoundRobin", 2, 1, 2, 1), BrokeredTo("RoundRobin", 2, 2, 1, 1),
         BrokeredTo("Route", 1, 2, 1, 1), BrokeredTo("PubSub", 1, 2, 1, 1), BrokeredTo("PubSub", 1, 2, 2, 1)}
Sends(d) == IF d.producers = 2 \/ d.routing = "PubSub" THEN 2 ELSE 3
=============================================================================
