----------------------------- MODULE MPMCQueue -----------------------------
(***************************************************************************)
(* MPMCQueue (prepare_for_interview/circle_q/mpmc_q.hpp), a bounded queue  *)
(* for many producers and many consumers without locks: a thread claims a  *)
(* position by a compare-and-exchange on enqueue_pos or dequeue_pos, and   *)
(* the sequence number of the position's cell says whose turn it is.       *)
(*                                                                         *)
(* A step is one atomic access or one access to a cell's data.  The        *)
(* acquire loads and release stores of sequence order the data accesses,   *)
(* so interleavings of whole steps are all that can be seen.  Positions    *)
(* are 64 bits wide in the code and do not wrap here.                      *)
(***************************************************************************)
EXTENDS Integers, Sequences

CONSTANTS MpmcProducers, MpmcConsumers,  \* threads that call enqueue, dequeue
          MpmcCapacity,                  \* the template's parameter
          MpmcItems                      \* bound: items per producer

\* With one cell the sequence number of a published item, pos + 1, would be
\* that of the next free position: the template accepts 1, the queue does not.
ASSUME MpmcAssumption == /\ MpmcCapacity \in Nat \ {0, 1}
                         /\ MpmcItems \in Nat
                         /\ MpmcProducers \cap MpmcConsumers = {}

VARIABLES enqueue_pos, dequeue_pos,
          sequence, data,  \* the cells
          mpmcAt, mpmcPos, \* each thread's step and its local variable pos
          sent,            \* sent[p]: items p has enqueued or is enqueueing
          claimed,         \* history: the items, by the position claimed for them
          taken            \* history: the items of the positions dequeued

mpmcVars == <<enqueue_pos, dequeue_pos, sequence, data, mpmcAt, mpmcPos, sent, claimed,
              taken>>

MpmcThreads == MpmcProducers \cup MpmcConsumers
Cells == 0 .. MpmcCapacity - 1
MpmcItem == MpmcProducers \X (1 .. MpmcItems)
NoItem == <<>>
Cell(t) == mpmcPos[t] % MpmcCapacity

MpmcStart == /\ enqueue_pos = 0 /\ dequeue_pos = 0
             /\ sequence = [i \in Cells |-> i]
             /\ data = [i \in Cells |-> NoItem]
             /\ mpmcAt = [t \in MpmcThreads |-> "idle"]
             /\ mpmcPos = [t \in MpmcThreads |-> 0]
             /\ sent = [p \in MpmcProducers |-> 0]
             /\ claimed = <<>> /\ taken = <<>>

MpmcGoto(t, l) == mpmcAt' = [mpmcAt EXCEPT ![t] = l]
SetPos(t, n) == mpmcPos' = [mpmcPos EXCEPT ![t] = n]

cellsUnchanged == UNCHANGED <<enqueue_pos, dequeue_pos, sequence, data>>

-----------------------------------------------------------------------------
(* enqueue *)

Sending(p) == <<p, sent[p]>>

EnqCall(p) == /\ mpmcAt[p] = "idle" /\ sent[p] < MpmcItems
              /\ sent' = [sent EXCEPT ![p] = @ + 1]
              /\ SetPos(p, enqueue_pos) /\ MpmcGoto(p, "test")
              /\ cellsUnchanged /\ UNCHANGED <<claimed, taken>>

EnqTest(p) == /\ mpmcAt[p] = "test"
              /\ LET diff == sequence[Cell(p)] - mpmcPos[p]
                 IN  MpmcGoto(p, IF diff = 0 THEN "cas"
                                 ELSE IF diff < 0 THEN "full" ELSE "load")
              /\ cellsUnchanged /\ UNCHANGED <<mpmcPos, sent, claimed, taken>>

\* The queue is full: enqueue returns false, and the caller may try again.
EnqFull(p) == /\ mpmcAt[p] = "full"
              /\ sent' = [sent EXCEPT ![p] = @ - 1] /\ MpmcGoto(p, "idle")
              /\ cellsUnchanged /\ UNCHANGED <<mpmcPos, claimed, taken>>

EnqLoad(p) == /\ mpmcAt[p] = "load"
              /\ SetPos(p, enqueue_pos) /\ MpmcGoto(p, "test")
              /\ cellsUnchanged /\ UNCHANGED <<sent, claimed, taken>>

\* Mutant of EnqClaim: the position is taken without comparing it.
EnqClaimBlind(p) == /\ mpmcAt[p] = "cas"
                    /\ enqueue_pos' = mpmcPos[p] + 1 /\ MpmcGoto(p, "write")
                    /\ claimed' = Append(claimed, Sending(p))
                    /\ UNCHANGED <<dequeue_pos, sequence, data, mpmcPos, sent, taken>>

EnqClaim(p) == /\ mpmcAt[p] = "cas" /\ enqueue_pos = mpmcPos[p]
               /\ enqueue_pos' = enqueue_pos + 1 /\ MpmcGoto(p, "write")
               /\ claimed' = Append(claimed, Sending(p))
               /\ UNCHANGED <<dequeue_pos, sequence, data, mpmcPos, sent, taken>>

\* compare_exchange_weak may fail without a reason, and loads mpmcPos when it does.
EnqClaimFails(p) == /\ mpmcAt[p] = "cas"
                    /\ SetPos(p, enqueue_pos) /\ MpmcGoto(p, "test")
                    /\ cellsUnchanged /\ UNCHANGED <<sent, claimed, taken>>

EnqWrite(p) == /\ mpmcAt[p] = "write"
               /\ data' = [data EXCEPT ![Cell(p)] = Sending(p)] /\ MpmcGoto(p, "publish")
               /\ UNCHANGED <<enqueue_pos, dequeue_pos, sequence, mpmcPos, sent, claimed,
                              taken>>

EnqPublish(p) == /\ mpmcAt[p] = "publish"
                 /\ sequence' = [sequence EXCEPT ![Cell(p)] = mpmcPos[p] + 1]
                 /\ MpmcGoto(p, "idle")
                 /\ UNCHANGED <<enqueue_pos, dequeue_pos, data, mpmcPos, sent, claimed,
                                taken>>

-----------------------------------------------------------------------------
(* dequeue *)

DeqCall(c) == /\ mpmcAt[c] = "idle"
              /\ SetPos(c, dequeue_pos) /\ MpmcGoto(c, "test")
              /\ cellsUnchanged /\ UNCHANGED <<sent, claimed, taken>>

DeqTest(c) == /\ mpmcAt[c] = "test"
              /\ LET diff == sequence[Cell(c)] - (mpmcPos[c] + 1)
                 IN  MpmcGoto(c, IF diff = 0 THEN "cas"
                                 ELSE IF diff < 0 THEN "empty" ELSE "load")
              /\ cellsUnchanged /\ UNCHANGED <<mpmcPos, sent, claimed, taken>>

\* The queue is empty: dequeue returns false.
DeqEmpty(c) == /\ mpmcAt[c] = "empty" /\ MpmcGoto(c, "idle")
               /\ cellsUnchanged /\ UNCHANGED <<mpmcPos, sent, claimed, taken>>

DeqLoad(c) == /\ mpmcAt[c] = "load"
              /\ SetPos(c, dequeue_pos) /\ MpmcGoto(c, "test")
              /\ cellsUnchanged /\ UNCHANGED <<sent, claimed, taken>>

DeqClaim(c) == /\ mpmcAt[c] = "cas" /\ dequeue_pos = mpmcPos[c]
               /\ dequeue_pos' = dequeue_pos + 1 /\ MpmcGoto(c, "read")
               /\ UNCHANGED <<enqueue_pos, sequence, data, mpmcPos, sent, claimed, taken>>

DeqClaimFails(c) == /\ mpmcAt[c] = "cas"
                    /\ SetPos(c, dequeue_pos) /\ MpmcGoto(c, "test")
                    /\ cellsUnchanged /\ UNCHANGED <<sent, claimed, taken>>

DeqRead(c) == /\ mpmcAt[c] = "read"
              /\ taken' = Append(taken, <<mpmcPos[c], data[Cell(c)]>>)
              /\ MpmcGoto(c, "release")
              /\ cellsUnchanged /\ UNCHANGED <<mpmcPos, sent, claimed>>

DeqRelease(c) == /\ mpmcAt[c] = "release"
                 /\ sequence' = [sequence EXCEPT ![Cell(c)] = mpmcPos[c] + MpmcCapacity]
                 /\ MpmcGoto(c, "idle")
                 /\ UNCHANGED <<enqueue_pos, dequeue_pos, data, mpmcPos, sent, claimed,
                                taken>>

EnqStep(p) == \/ EnqTest(p) \/ EnqFull(p) \/ EnqLoad(p) \/ EnqClaim(p)
              \/ EnqWrite(p) \/ EnqPublish(p)
DeqStep(c) == \/ DeqTest(c) \/ DeqEmpty(c) \/ DeqLoad(c) \/ DeqClaim(c)
              \/ DeqRead(c) \/ DeqRelease(c)

MpmcNext == \/ \E p \in MpmcProducers : EnqCall(p) \/ EnqStep(p) \/ EnqClaimFails(p)
            \/ \E c \in MpmcConsumers : DeqCall(c) \/ DeqStep(c) \/ DeqClaimFails(c)

MpmcSpec == MpmcStart /\ [][MpmcNext]_mpmcVars

-----------------------------------------------------------------------------

InCell(t) == mpmcAt[t] \in {"write", "publish", "read", "release"}

(***************************************************************************)
(* No two threads are in the same cell: the data of a cell, which is not   *)
(* atomic, is never written while another thread reads or writes it.       *)
(***************************************************************************)
CellsExclusive ==
  \A t, u \in MpmcThreads : InCell(t) /\ InCell(u) /\ t # u => Cell(t) # Cell(u)

(***************************************************************************)
(* The consumer of a position reads the item of the producer of the same   *)
(* position: nothing is overwritten before it is read, nothing is read     *)
(* twice, and the items leave in the order in which they were claimed.     *)
(***************************************************************************)
ReadsItsItem ==
  /\ \A k \in 1 .. Len(taken) : taken[k][2] = claimed[taken[k][1] + 1]
  /\ \A j, k \in 1 .. Len(taken) : j # k => taken[j][1] # taken[k][1]

(***************************************************************************)
(* Both: the queue hands every item over once and whole, whatever the      *)
(* producers and consumers that race for a position (mpmc_q.hpp:27-82).    *)
(***************************************************************************)
MpmcExact == CellsExclusive /\ ReadsItsItem
=============================================================================
