----------------------------- MODULE FifoQueue -----------------------------
(***************************************************************************)
(* What a queue shared by threads promises its callers, whatever locks,    *)
(* condition variables or slots it is built from: what comes out is what   *)
(* went in, each item once, in the order of the insertions.  The detailed  *)
(* queues of the project implement this specification.                     *)
(***************************************************************************)
EXTENDS Naturals, Sequences

CONSTANT Item        \* what callers put in the queue

VARIABLES sent,      \* every item inserted so far, in insertion order
          received   \* every item removed so far, in removal order

fifoVars == <<sent, received>>

FifoInit == sent = <<>> /\ received = <<>>

Send(v) == sent' = Append(sent, v) /\ UNCHANGED received

Receive == /\ Len(received) < Len(sent)
           /\ received' = Append(received, sent[Len(received) + 1])
           /\ UNCHANGED sent

FifoNext == Receive \/ \E v \in Item : Send(v)

FifoSpec == FifoInit /\ [][FifoNext]_fifoVars
=============================================================================
