----------------------------- MODULE ByteQueue -----------------------------
(***************************************************************************)
(* What RxFifo promises: a bounded queue between one writer and one        *)
(* reader, which gives back what was put into it, in order.                *)
(***************************************************************************)
EXTENDS Naturals, Sequences

CONSTANTS Values, Capacity

VARIABLE queue

QInit == queue = <<>>

Put == Len(queue) < Capacity /\ \E v \in Values : queue' = Append(queue, v)

Get == queue # <<>> /\ queue' = Tail(queue)

Flush == queue' = <<>>

QSpec == QInit /\ [][Put \/ Get \/ Flush]_queue
=============================================================================
