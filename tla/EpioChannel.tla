---------------------------- MODULE EpioChannel -----------------------------
(***************************************************************************)
(* What a state machine that forwards its TX FIFO to its RX FIFO promises  *)
(* to the host: a bounded channel that loses, repeats, reorders and alters *)
(* nothing.                                                                *)
(***************************************************************************)
EXTENDS Naturals, Sequences

CONSTANTS Message, Capacity

VARIABLE queue               \* the messages sent and not yet received

Init == queue = <<>>

Send(w) == Len(queue) < Capacity /\ queue' = Append(queue, w)

Receive == queue # <<>> /\ queue' = Tail(queue)

Next == Receive \/ \E w \in Message : Send(w)

Spec == Init /\ [][Next]_queue
=============================================================================
