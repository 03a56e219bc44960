------------------------------- MODULE MCIpc --------------------------------
(* The shapes, payload contracts and calls of the IPC runs.                 *)
EXTENDS Ipc

Shape(slots, chunk, total) == [slots |-> slots, chunk_bytes |-> chunk, total_bytes |-> total]

\* Three chunks through two slots, the last one short; one chunk through one
\* slot, for several calls; more generations than the field holds.
MCShapes == {Shape(2, 2, 5), Shape(1, 2, 2), Shape(1, 1, 3)}
TwoSlots == {Shape(2, 2, 5)}

Contract(kind, schema, size, align) ==
  [kind |-> kind, schema_id |-> schema, element_size |-> size, element_align |-> align]

\* Raw bytes; a codec without a schema id; a POD type that divides the shape of
\* three chunks and not the others.
Payloads == {Contract("Bytes", 0, 1, 1), Contract("Codec", 0, 0, 0), Contract("Pod", 7, 5, 1)}
RawBytes == {Contract("Bytes", 0, 1, 1)}

\* Bound: where an endpoint calls more than once, its calls are sized ones.
SizedCalls == Chunks = 1 => \A p \in Processes : ep[p].mode = "exact"
MCSpec == Init /\ [][Next /\ SizedCalls']_vars /\ Fairness
=============================================================================
