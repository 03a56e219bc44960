----------------------------- MODULE SpscQueue ------------------------------
(***************************************************************************)
(* What a ring promises to the engines built on it: a bounded FIFO queue   *)
(* of the values 0, 1, 2, ... in the order they are sent.  A send appends  *)
(* a whole batch in one step and a receive takes a prefix in one step.  A  *)
(* closed sending end sends nothing more; it may be reopened by the        *)
(* receiving end, and only when nothing is left in the queue.  Sending to  *)
(* a queue whose receiving end is closed is allowed.                       *)
(***************************************************************************)
EXTENDS Integers, Sequences

CONSTANT Cap

VARIABLES q, sent, received, tx_open, rx_open

qvars == <<q, sent, received, tx_open, rx_open>>

QInit ==
  /\ q = <<>> /\ sent = 0 /\ received = 0
  /\ tx_open = TRUE /\ rx_open = TRUE

Enqueue ==
  /\ tx_open
  /\ \E n \in 1 .. Cap - Len(q) :
       /\ q' = q \o [j \in 1 .. n |-> sent + j - 1]
       /\ sent' = sent + n
  /\ UNCHANGED <<received, tx_open, rx_open>>

Dequeue ==
  /\ \E n \in 1 .. Len(q) :
       /\ q' = SubSeq(q, n + 1, Len(q))
       /\ received' = received + n
  /\ UNCHANGED <<sent, tx_open, rx_open>>

CloseTx == tx_open /\ tx_open' = FALSE /\ UNCHANGED <<q, sent, received, rx_open>>

CloseRx == rx_open /\ rx_open' = FALSE /\ UNCHANGED <<q, sent, received, tx_open>>

Reopen ==
  /\ ~tx_open /\ rx_open /\ q = <<>>
  /\ tx_open' = TRUE
  /\ UNCHANGED <<q, sent, received, rx_open>>

QNext == Enqueue \/ Dequeue \/ CloseTx \/ CloseRx \/ Reopen

QSpec == QInit /\ [][QNext]_qvars
=============================================================================
