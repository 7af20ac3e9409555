----------------------------- MODULE RingProofs -----------------------------
(***************************************************************************)
(* The three ring buffers between threads, for every size and any number   *)
(* of items and threads.  In the lock-free CircularQueue and the waitable  *)
(* fixed-size queue with its two mutexes, producer and consumer stay out   *)
(* of each other's cell, and each implements a first-in first-out queue.   *)
(* In the MPMCQueue, of at least two cells, no two threads are in one      *)
(* cell, and a consumer reads the item of its own position.                *)
(***************************************************************************)
EXTENDS CircularQueue, WaitableFsq, MPMCQueue, TLAPS

(***************************************************************************)
(* The code's (i + 1) % n, in a ring of n cells, without the modulus; it   *)
(* is one to one.                                                          *)
(***************************************************************************)
LEMMA NextCell ==
  ASSUME NEW n \in Nat \ {0}, NEW i \in 0 .. n - 1
  PROVE  /\ (i + 1) % n = IF i + 1 = n THEN 0 ELSE i + 1
         /\ (i + 1) % n \in 0 .. n - 1
OBVIOUS

(* Two cells have two next cells. *)
LEMMA NextCellInjective ==
  ASSUME NEW n \in Nat \ {0}, NEW i \in 0 .. n - 1, NEW j \in 0 .. n - 1, i # j
  PROVE  (i + 1) % n # (j + 1) % n
<1>1. /\ (i + 1) % n = IF i + 1 = n THEN 0 ELSE i + 1
      /\ (j + 1) % n = IF j + 1 = n THEN 0 ELSE j + 1
    BY NextCell
<1> QED
    BY <1>1

\* How many items lie from h up to t, and the cell k places after h.
Dist(n, h, t) == IF h <= t THEN t - h ELSE t + n - h
Ahead(n, h, k) == IF h + k < n THEN h + k ELSE h + k - n

(***************************************************************************)
(* What a step of the reading index, or of the writing index, does to the  *)
(* cells in between.                                                       *)
(***************************************************************************)
LEMMA HeadMoves ==
  ASSUME NEW n \in Nat \ {0}, NEW h \in 0 .. n - 1, NEW t \in 0 .. n - 1, h # t
  PROVE  /\ Dist(n, (h + 1) % n, t) = Dist(n, h, t) - 1
         /\ Dist(n, h, t) \in 1 .. n - 1
         /\ Ahead(n, h, 0) = h
         /\ \A k \in 0 .. Dist(n, h, t) - 2 : Ahead(n, (h + 1) % n, k) = Ahead(n, h, k + 1)
<1>1. (h + 1) % n = IF h + 1 = n THEN 0 ELSE h + 1
    BY NextCell
<1> QED
    BY <1>1 DEF Dist, Ahead

(* A put moves the writing index and writes a cell that holds no item. *)
LEMMA TailMoves ==
  ASSUME NEW n \in Nat \ {0}, NEW h \in 0 .. n - 1, NEW t \in 0 .. n - 1, (t + 1) % n # h
  PROVE  /\ Dist(n, h, (t + 1) % n) = Dist(n, h, t) + 1
         /\ Dist(n, h, t) \in 0 .. n - 2
         /\ Ahead(n, h, Dist(n, h, t)) = t
         /\ \A k \in 0 .. Dist(n, h, t) - 1 : Ahead(n, h, k) # t /\ Ahead(n, h, k) \in 0 .. n - 1
<1>1. (t + 1) % n = IF t + 1 = n THEN 0 ELSE t + 1
    BY NextCell
<1> QED
    BY <1>1 DEF Dist, Ahead

-----------------------------------------------------------------------------
(* CircularQueue *)

(***************************************************************************)
(* The facts about rings, for CircularQueue's Succ.                        *)
(***************************************************************************)
LEMMA CqRing ==
  ASSUME NEW h \in CqIndex, NEW t \in CqIndex
  PROVE  /\ Succ(h) \in CqIndex
         /\ h # t => /\ Succ(h) # Succ(t)
                     /\ Dist(CqCapacity, Succ(h), t) = Dist(CqCapacity, h, t) - 1
                     /\ Dist(CqCapacity, h, t) \in 1 .. CqCapacity - 1
                     /\ Ahead(CqCapacity, h, 0) = h
                     /\ \A k \in 0 .. Dist(CqCapacity, h, t) - 2 :
                          Ahead(CqCapacity, Succ(h), k) = Ahead(CqCapacity, h, k + 1)
         /\ Succ(t) # h => /\ Dist(CqCapacity, h, Succ(t)) = Dist(CqCapacity, h, t) + 1
                           /\ Dist(CqCapacity, h, t) \in 0 .. CqCapacity - 2
                           /\ Ahead(CqCapacity, h, Dist(CqCapacity, h, t)) = t
                           /\ \A k \in 0 .. Dist(CqCapacity, h, t) - 1 :
                                /\ Ahead(CqCapacity, h, k) # t
                                /\ Ahead(CqCapacity, h, k) \in CqIndex
<1>1. CqCapacity \in Nat \ {0} /\ h \in 0 .. CqCapacity - 1 /\ t \in 0 .. CqCapacity - 1
    BY CqCapacityAssumption DEF CqIndex
<1>2. Succ(h) \in CqIndex /\ (h # t => Succ(h) # Succ(t))
    BY <1>1, NextCell, NextCellInjective DEF CqIndex, Succ
<1>3. ASSUME h # t
      PROVE  /\ Dist(CqCapacity, Succ(h), t) = Dist(CqCapacity, h, t) - 1
             /\ Dist(CqCapacity, h, t) \in 1 .. CqCapacity - 1
             /\ Ahead(CqCapacity, h, 0) = h
             /\ \A k \in 0 .. Dist(CqCapacity, h, t) - 2 :
                  Ahead(CqCapacity, Succ(h), k) = Ahead(CqCapacity, h, k + 1)
    BY <1>1, <1>3, HeadMoves DEF Succ
<1>4. ASSUME Succ(t) # h
      PROVE  /\ Dist(CqCapacity, h, Succ(t)) = Dist(CqCapacity, h, t) + 1
             /\ Dist(CqCapacity, h, t) \in 0 .. CqCapacity - 2
             /\ Ahead(CqCapacity, h, Dist(CqCapacity, h, t)) = t
             /\ \A k \in 0 .. Dist(CqCapacity, h, t) - 1 :
                  Ahead(CqCapacity, h, k) # t /\ Ahead(CqCapacity, h, k) \in CqIndex
    BY <1>1, <1>4, TailMoves DEF Succ, CqIndex
<1> QED
    BY <1>2, <1>3, <1>4

(***************************************************************************)
(* The inductive invariant: the cells from head up to tail hold the items  *)
(* sent and not yet received, in order; a thread inside a call has seen    *)
(* room, or an item, and the other thread cannot have taken it away.       *)
(***************************************************************************)
Held == Dist(CqCapacity, head, tail)

IInv ==
  /\ CqTypeOK
  /\ Len(cqSent) = Len(cqReceived) + Held
  /\ Len(cqSent) <= CqItems
  /\ \A i \in 1 .. Len(cqSent) : cqSent[i] = i
  /\ \A k \in 0 .. Held - 1 : buffer[Ahead(CqCapacity, head, k)] = Len(cqReceived) + k + 1
  /\ producer # "idle" => Succ(tail) # head /\ Len(cqSent) < CqItems
  /\ producer = "store" => buffer[tail] = Len(cqSent) + 1
  /\ consumer # "idle" => head # tail
  /\ consumer = "store" => item = Len(cqReceived) + 1

(***************************************************************************)
(* A step preserves the inductive invariant.                               *)
(***************************************************************************)
LEMMA IInvStep == IInv /\ [CqNext]_cqVars => IInv'
<1> SUFFICES ASSUME IInv, [CqNext]_cqVars PROVE IInv'
    OBVIOUS
<1>0. /\ Len(cqSent) \in Nat /\ Len(cqReceived) \in Nat
      /\ head \in CqIndex /\ tail \in CqIndex
    BY DEF IInv, CqTypeOK
<1>1. CASE CqEnqTest
    BY <1>1 DEF IInv, CqTypeOK, CqEnqTest, producerUnchanged, Held
<1>2. CASE CqEnqWrite
  <2>1. Len(cqSent) + 1 \in CqItem
    BY <1>0, <1>2, CqItemsAssumption DEF IInv, CqEnqWrite, CqItem
  <2>2. CqTypeOK'
    BY <1>2, <2>1 DEF IInv, CqTypeOK, CqEnqWrite, producerUnchanged
  <2>3. \A k \in 0 .. Held - 1 : buffer'[Ahead(CqCapacity, head, k)] = buffer[Ahead(CqCapacity, head, k)]
    BY <1>0, <1>2, CqRing DEF IInv, CqTypeOK, CqEnqWrite, Held
  <2>4. buffer'[tail] = Len(cqSent) + 1
    BY <1>0, <1>2 DEF IInv, CqTypeOK, CqEnqWrite
  <2> QED
    BY <1>2, <2>2, <2>3, <2>4 DEF IInv, CqEnqWrite, producerUnchanged, Held
<1>3. CASE CqEnqStore
  <2>0. Succ(tail) # head /\ Succ(tail) \in CqIndex /\ Len(cqSent) < CqItems
    BY <1>0, <1>3, CqRing DEF IInv, CqEnqStore
  <2>1. Len(cqSent) + 1 \in CqItem
    BY <1>0, <2>0, CqItemsAssumption DEF CqItem
  <2>2. /\ cqSent' = Append(cqSent, Len(cqSent) + 1) /\ cqSent' \in Seq(CqItem)
        /\ Len(cqSent') = Len(cqSent) + 1
        /\ \A i \in 1 .. Len(cqSent') : cqSent'[i] = i
    BY <1>0, <1>3, <2>1 DEF IInv, CqTypeOK, CqEnqStore
  <2>3. CqTypeOK'
    BY <1>3, <2>0, <2>2 DEF IInv, CqTypeOK, CqEnqStore, producerUnchanged
  <2>4. Held' = Held + 1 /\ Ahead(CqCapacity, head, Held) = tail /\ Held \in Nat
    BY <1>0, <1>3, <2>0, CqRing, CqCapacityAssumption
       DEF Held, CqEnqStore, producerUnchanged
  <2>5. \A k \in 0 .. Held' - 1 : buffer'[Ahead(CqCapacity, head', k)] = Len(cqReceived') + k + 1
    <3> SUFFICES ASSUME NEW k \in 0 .. Held
                 PROVE  buffer[Ahead(CqCapacity, head, k)] = Len(cqReceived) + k + 1
      BY <1>3, <2>4 DEF CqEnqStore, producerUnchanged
    <3>1. CASE k = Held
      BY <1>0, <1>3, <2>4, <3>1 DEF IInv, CqEnqStore
    <3>2. CASE k \in 0 .. Held - 1
      BY <3>2 DEF IInv
    <3> QED
      BY <2>4, <3>1, <3>2
  <2>6. /\ consumer' = consumer /\ item' = item /\ head' = head
        /\ cqReceived' = cqReceived /\ producer' = "idle" /\ tail' = Succ(tail)
    BY <1>3 DEF CqEnqStore, producerUnchanged
  <2>7. Len(cqSent') = Len(cqReceived') + Held' /\ Len(cqSent') <= CqItems
    BY <1>0, <2>0, <2>2, <2>4, <2>6, CqItemsAssumption DEF IInv
  <2>8. consumer' # "idle" => head' # tail'
    BY <2>0, <2>6
  <2> QED
    BY <2>2, <2>3, <2>5, <2>6, <2>7, <2>8 DEF IInv
<1>4. CASE CqDeqTest
    BY <1>4 DEF IInv, CqTypeOK, CqDeqTest, consumerUnchanged, Held
<1>5. CASE CqDeqRead
  <2>1. buffer[head] = Len(cqReceived) + 1
    <3>1. head # tail
      BY <1>5 DEF IInv, CqDeqRead
    <3>2. 0 \in 0 .. Held - 1 /\ Ahead(CqCapacity, head, 0) = head
      BY <1>0, <3>1, CqRing, CqCapacityAssumption DEF Held
    <3> QED
      BY <1>0, <3>2 DEF IInv
  <2>2. CqTypeOK'
    BY <1>5, <1>0 DEF IInv, CqTypeOK, CqDeqRead, consumerUnchanged
  <2> QED
    BY <1>5, <2>1, <2>2 DEF IInv, CqDeqRead, consumerUnchanged, Held
<1>6. CASE CqDeqStore
  <2>0. head # tail /\ Succ(head) \in CqIndex
    BY <1>0, <1>6, CqRing DEF IInv, CqDeqStore
  <2>1. /\ cqReceived' = Append(cqReceived, item) /\ Len(cqReceived') = Len(cqReceived) + 1
        /\ cqReceived' \in Seq(CqItem \cup {Unset})
    BY <1>6 DEF IInv, CqTypeOK, CqDeqStore
  <2>2. CqTypeOK'
    BY <1>6, <2>0, <2>1 DEF IInv, CqTypeOK, CqDeqStore, consumerUnchanged
  <2>3. /\ Held' = Held - 1 /\ Held \in Nat \ {0}
        /\ \A k \in 0 .. Held - 2 : Ahead(CqCapacity, Succ(head), k) = Ahead(CqCapacity, head, k + 1)
    BY <1>0, <1>6, <2>0, CqRing, CqCapacityAssumption
       DEF Held, CqDeqStore, consumerUnchanged
  <2>4. /\ tail' = tail /\ buffer' = buffer /\ producer' = producer /\ cqSent' = cqSent
        /\ head' = Succ(head) /\ consumer' = "idle"
    BY <1>6 DEF CqDeqStore, consumerUnchanged
  <2>5. \A k \in 0 .. Held' - 1 : buffer'[Ahead(CqCapacity, head', k)] = Len(cqReceived') + k + 1
    <3> SUFFICES ASSUME NEW k \in 0 .. Held - 2
                 PROVE  buffer[Ahead(CqCapacity, head, k + 1)] = Len(cqReceived) + 1 + k + 1
      BY <2>1, <2>3, <2>4
    <3>1. k + 1 \in 0 .. Held - 1
      BY <2>3
    <3> QED
      BY <1>0, <3>1 DEF IInv
  <2>6. Len(cqSent') = Len(cqReceived') + Held'
    <3>1. Len(cqSent) = Len(cqReceived) + Held
      BY DEF IInv
    <3> QED
      BY <1>0, <2>1, <2>3, <2>4, <3>1
  <2>7. Succ(tail') # head'
    <3>1. Succ(tail) # Succ(head)
      BY <1>0, <2>0, CqRing
    <3> QED
      BY <2>4, <3>1
  <2> QED
    BY <2>1, <2>2, <2>4, <2>5, <2>6, <2>7 DEF IInv
<1>7. CASE UNCHANGED cqVars
    BY <1>7 DEF IInv, CqTypeOK, cqVars, Held
<1> QED
    BY <1>1, <1>2, <1>3, <1>4, <1>5, <1>6, <1>7 DEF CqNext, CqProducerStep, CqConsumerStep

(***************************************************************************)
(* The invariant holds in every reachable state.                           *)
(***************************************************************************)
THEOREM Invariance == CqSpec => []IInv
<1>1. CqInit => IInv
  <2> SUFFICES ASSUME CqInit PROVE IInv
    OBVIOUS
  <2>1. Held = 0
    BY CqCapacityAssumption DEF CqInit, Held, Dist
  <2> QED
    BY <2>1, CqCapacityAssumption, CqItemsAssumption
       DEF CqInit, IInv, CqTypeOK, CqIndex, CqItem, Unset
<1> QED
    BY <1>1, IInvStep, PTL DEF CqSpec

(***************************************************************************)
(* The producer never writes the cell the consumer is reading.             *)
(***************************************************************************)
THEOREM NoTornRead == CqSpec => []CellsDisjoint
<1>1. IInv => CellsDisjoint
    BY DEF IInv, CellsDisjoint
<1> QED
    BY <1>1, Invariance, PTL

(***************************************************************************)
(* CircularQueue implements the first-in first-out queue: the store to     *)
(* tail is the abstract Send, the store to head the abstract Receive.      *)
(***************************************************************************)
THEOREM FifoRefinement == CqSpec => CqImplementsFifo
<1>1. CqInit => CqFifo!FifoInit
    BY DEF CqInit, CqFifo!FifoInit
<1>2. IInv /\ [CqNext]_cqVars => [CqFifo!FifoNext]_(CqFifo!fifoVars)
  <2> SUFFICES ASSUME IInv, [CqNext]_cqVars
               PROVE  CqFifo!FifoNext \/ UNCHANGED CqFifo!fifoVars
    OBVIOUS
  <2>1. CASE CqEnqStore
    <3>1. Len(cqSent) + 1 \in CqItem
      BY <2>1, CqItemsAssumption DEF IInv, CqTypeOK, CqEnqStore, CqItem
    <3> QED
      BY <2>1, <3>1 DEF CqEnqStore, producerUnchanged, CqFifo!FifoNext, CqFifo!Send
  <2>2. CASE CqDeqStore
    <3>1. item = Len(cqReceived) + 1 /\ head # tail
      BY <2>2 DEF IInv, CqDeqStore
    <3>2. Len(cqReceived) \in Nat /\ Len(cqReceived) < Len(cqSent)
      <4>1. Len(cqReceived) \in Nat /\ Len(cqSent) = Len(cqReceived) + Held
        BY DEF IInv, CqTypeOK
      <4>2. Held \in 1 .. CqCapacity - 1
        BY <3>1, CqRing DEF IInv, CqTypeOK, Held
      <4> QED
        BY <4>1, <4>2, CqCapacityAssumption
    <3>3. item = cqSent[Len(cqReceived) + 1]
      BY <3>1, <3>2 DEF IInv, CqTypeOK
    <3> QED
      BY <2>2, <3>2, <3>3 DEF CqDeqStore, consumerUnchanged, CqFifo!FifoNext, CqFifo!Receive
  <2>3. CASE CqEnqTest \/ CqEnqWrite \/ CqDeqTest \/ CqDeqRead \/ UNCHANGED cqVars
    BY <2>3 DEF CqEnqTest, CqEnqWrite, CqDeqTest, CqDeqRead, cqVars, producerUnchanged,
                consumerUnchanged, CqFifo!fifoVars
  <2> QED
    BY <2>1, <2>2, <2>3 DEF CqNext, CqProducerStep, CqConsumerStep
<1> QED
    BY <1>1, <1>2, Invariance, PTL DEF CqSpec, CqImplementsFifo, CqFifo!FifoSpec

-----------------------------------------------------------------------------
(* The waitable fixed-size queue *)

FsqIndex == 0 .. FsqSize - 1
FsqPc == {"idle", "lock", "timeout", "waiting"} \cup Holding
FsqHeld == Dist(FsqSize, m_read, m_write)

FsqTypes ==
  /\ m_fsq \in [FsqIndex -> FsqItem] /\ m_write \in FsqIndex /\ m_read \in FsqIndex
  /\ fsqAt \in [FsqThreads -> FsqPc] /\ fsqData \in [FsqThreads -> FsqItem]
  /\ fsqSent \in Seq(FsqItem) /\ fsqReceived \in Seq(FsqItem)

(* Each mutex has one holder: at most one thread of an end is past its lock. *)
FsqMutex ==
  \A t, u \in FsqThreads :
    fsqAt[t] \in Holding /\ fsqAt[u] \in Holding /\ FsqEnd(t) = FsqEnd(u) => t = u

(* The cells from m_read up to m_write hold what was sent and not received. *)
FsqCells ==
  /\ Len(fsqSent) = Len(fsqReceived) + FsqHeld
  /\ \A k \in 0 .. FsqHeld - 1 :
       m_fsq[Ahead(FsqSize, m_read, k)] = fsqSent[Len(fsqReceived) + k + 1]

(***************************************************************************)
(* A writer past its test has room and a reader past its test an item,     *)
(* although the other end's index was read without that end's mutex; and   *)
(* what was copied is what the move of the index announces.                *)
(***************************************************************************)
FsqPassed ==
  /\ \A t \in FsqWriters :
       /\ fsqAt[t] \in {"copy", "advance"} => ~IsFull
       /\ fsqAt[t] = "advance" => m_fsq[m_write] = fsqData[t]
  /\ \A t \in FsqReaders :
       /\ fsqAt[t] \in {"copy", "advance"} => ~IsEmpty
       /\ fsqAt[t] = "advance" => fsqData[t] = fsqSent[Len(fsqReceived) + 1]

FsqInv == FsqTypes /\ FsqMutex /\ FsqCells /\ FsqPassed

(***************************************************************************)
(* What a mutex gives: while a thread holds its end's, no other thread of  *)
(* that end holds it.                                                      *)
(***************************************************************************)
LEMMA FsqOneHolder ==
  ASSUME FsqMutex, NEW t \in FsqThreads, fsqAt[t] \in Holding, NEW u \in FsqThreads, u # t,
         \/ t \in FsqWriters /\ u \in FsqWriters
         \/ t \in FsqReaders /\ u \in FsqReaders
  PROVE  fsqAt[u] \notin Holding
BY FsqAssumption DEF FsqMutex, FsqEnd

(***************************************************************************)
(* A step that moves only threads' places, and lets none past its test,    *)
(* keeps the invariant if the mutexes keep one holder.                     *)
(***************************************************************************)
LEMMA FsqPlain ==
  ASSUME FsqInv, UNCHANGED <<m_fsq, m_write, m_read, fsqSent, fsqReceived>>,
         fsqAt' \in [FsqThreads -> FsqPc], fsqData' \in [FsqThreads -> FsqItem], FsqMutex',
         \A t \in FsqThreads : fsqAt'[t] \in {"copy", "advance"} =>
                                  fsqAt'[t] = fsqAt[t] /\ fsqData'[t] = fsqData[t]
  PROVE  FsqInv'
<1>1. FsqTypes' /\ FsqCells'
    BY DEF FsqInv, FsqTypes, FsqCells, FsqHeld
<1>2. FsqPassed'
    BY DEF FsqInv, FsqPassed, FsqThreads, IsFull, IsEmpty
<1> QED
    BY <1>1, <1>2 DEF FsqInv

(***************************************************************************)
(* Moves of threads from place to place, and the mutexes.                  *)
(***************************************************************************)
LEMMA FsqMutexStep ==
  ASSUME FsqTypes, FsqMutex, [FsqNext]_fsqVars
  PROVE  FsqMutex' /\ fsqAt' \in [FsqThreads -> FsqPc]
<1>0. fsqAt \in [FsqThreads -> FsqPc]
    BY DEF FsqTypes
<1>1. ASSUME NEW t \in FsqThreads, NEW l \in FsqPc, FsqGoto(t, l),
             l \in Holding => fsqAt[t] \in Holding \/ \A u \in FsqEnd(t) : fsqAt[u] \notin Holding
      PROVE  FsqMutex' /\ fsqAt' \in [FsqThreads -> FsqPc]
  <2>1. \A u \in FsqThreads : fsqAt'[u] = IF u = t THEN l ELSE fsqAt[u]
    BY <1>0, <1>1 DEF FsqGoto
  <2>2. \A u \in FsqThreads : FsqEnd(u) = FsqEnd(t) => u \in FsqEnd(t)
    BY DEF FsqEnd, FsqThreads
  <2>3. FsqMutex'
    BY <1>1, <2>1, <2>2 DEF FsqMutex, FsqEnd
  <2> QED
    BY <1>0, <1>1, <2>3 DEF FsqGoto
<1>2. CASE UNCHANGED fsqVars
    BY <1>0, <1>2 DEF fsqVars, FsqMutex
<1>3. ASSUME NEW t \in FsqThreads, NEW v, NEW timed, FsqCall(t, v, timed)
      PROVE  FsqMutex' /\ fsqAt' \in [FsqThreads -> FsqPc]
    BY <1>1, <1>3 DEF FsqCall, FsqPc, Holding
<1>4. ASSUME NEW t \in FsqThreads, FsqLock(t) \/ FsqTest(t) \/ FsqWait(t)
      PROVE  FsqMutex' /\ fsqAt' \in [FsqThreads -> FsqPc]
  <2>1. CASE FsqLock(t)
    BY <1>1, <2>1 DEF FsqLock, FsqPc, Holding
  <2>2. CASE FsqTest(t)
    BY <1>1, <2>2 DEF FsqTest, FsqPc, Holding
  <2>3. CASE FsqWait(t)
    BY <1>1, <2>3 DEF FsqWait, FsqPc, Holding
  <2> QED
    BY <1>4, <2>1, <2>2, <2>3
<1>5. ASSUME NEW t \in FsqThreads, FsqPush(t) \/ FsqPop(t)
      PROVE  FsqMutex' /\ fsqAt' \in [FsqThreads -> FsqPc]
    BY <1>1, <1>5 DEF FsqPush, FsqPop, FsqPc, Holding
<1>6. ASSUME NEW t \in FsqThreads, FsqNotify(t)
      PROVE  FsqMutex' /\ fsqAt' \in [FsqThreads -> FsqPc]
  <2>1. CASE FsqGoto(t, "idle")
    BY <1>1, <2>1 DEF FsqPc, Holding
  <2>2. CASE \E u \in FsqThreads : fsqAt' = [fsqAt EXCEPT ![t] = "idle", ![u] = "lock"]
    <3>1. PICK u \in FsqThreads : fsqAt' = [fsqAt EXCEPT ![t] = "idle", ![u] = "lock"]
      BY <2>2
    <3>2. \A w \in FsqThreads : fsqAt'[w] \in Holding => fsqAt[w] \in Holding
      BY <1>0, <3>1 DEF Holding
    <3>3. FsqMutex'
      BY <3>2 DEF FsqMutex, FsqEnd
    <3> QED
      BY <1>0, <3>1, <3>3 DEF FsqPc
  <2> QED
    BY <1>6, <2>1, <2>2 DEF FsqNotify
<1> QED
    BY <1>2, <1>3, <1>4, <1>5, <1>6 DEF FsqNext, FsqStep

(***************************************************************************)
(* The writer's two stores: into a cell outside the readers' range, then   *)
(* the index that hands it over.                                           *)
(***************************************************************************)
LEMMA FsqPushStep ==
  ASSUME FsqInv, FsqMutex', fsqAt' \in [FsqThreads -> FsqPc],
         NEW t \in FsqThreads, FsqPush(t)
  PROVE  FsqInv'
<1>0. /\ FsqSize \in Nat \ {0} /\ m_write \in 0 .. FsqSize - 1 /\ m_read \in 0 .. FsqSize - 1
      /\ fsqAt \in [FsqThreads -> FsqPc] /\ fsqData \in [FsqThreads -> FsqItem]
      /\ Len(fsqSent) \in Nat /\ Len(fsqReceived) \in Nat /\ t \in FsqWriters
      /\ UNCHANGED <<m_read, fsqData, fsqReceived>>
    BY FsqAssumption DEF FsqInv, FsqTypes, FsqIndex, FsqPush
<1>1. (m_write + 1) % FsqSize # m_read /\ fsqAt[t] \in Holding
    BY <1>0 DEF FsqInv, FsqPassed, IsFull, FsqPush, Holding
<1>2. /\ Dist(FsqSize, m_read, (m_write + 1) % FsqSize) = FsqHeld + 1
      /\ FsqHeld \in 0 .. FsqSize - 2 /\ Ahead(FsqSize, m_read, FsqHeld) = m_write
      /\ \A k \in 0 .. FsqHeld - 1 : /\ Ahead(FsqSize, m_read, k) # m_write
                                     /\ Ahead(FsqSize, m_read, k) \in 0 .. FsqSize - 1
    BY <1>0, <1>1, TailMoves DEF FsqHeld
<1>3. \A u \in FsqWriters : u # t => fsqAt[u] \notin Holding
    BY <1>0, <1>1, FsqOneHolder DEF FsqInv, FsqThreads
<1>4. ASSUME NEW l, FsqGoto(t, l)
      PROVE  /\ fsqAt'[t] = l
             /\ \A u \in FsqThreads : u # t => fsqAt'[u] = fsqAt[u]
    BY <1>0, <1>4 DEF FsqGoto
<1>5. \A u \in FsqReaders : u # t /\ u \in FsqThreads
    BY <1>0, FsqAssumption DEF FsqThreads
<1>6. CASE fsqAt[t] = "copy"
  <2>1. /\ m_fsq' = [m_fsq EXCEPT ![m_write] = fsqData[t]] /\ UNCHANGED <<m_write, fsqSent>>
        /\ FsqGoto(t, "advance")
    BY <1>6 DEF FsqPush
  <2>2. FsqTypes'
    BY <1>0, <2>1 DEF FsqInv, FsqTypes, FsqIndex
  <2>3. FsqCells'
    BY <1>0, <1>2, <2>1 DEF FsqInv, FsqTypes, FsqIndex, FsqCells, FsqHeld
  <2>4. m_fsq'[m_write'] = fsqData'[t]
    BY <1>0, <2>1 DEF FsqInv, FsqTypes, FsqIndex
  <2>5. ~IsFull' /\ IsEmpty' = IsEmpty
    BY <1>0, <1>1, <2>1 DEF IsFull, IsEmpty
  <2>6. ASSUME NEW u \in FsqWriters
        PROVE  /\ fsqAt'[u] \in {"copy", "advance"} => ~IsFull'
               /\ fsqAt'[u] = "advance" => m_fsq'[m_write'] = fsqData'[u]
    BY <1>3, <1>4, <2>1, <2>4, <2>5 DEF Holding, FsqThreads
  <2>7. ASSUME NEW u \in FsqReaders
        PROVE  /\ fsqAt'[u] \in {"copy", "advance"} => ~IsEmpty'
               /\ fsqAt'[u] = "advance" => fsqData'[u] = fsqSent'[Len(fsqReceived') + 1]
    BY <1>0, <1>4, <1>5, <2>1, <2>5 DEF FsqInv, FsqPassed
  <2> QED
    BY <2>2, <2>3, <2>6, <2>7 DEF FsqInv, FsqPassed
<1>7. CASE fsqAt[t] = "advance"
  <2>1. /\ m_write' = (m_write + 1) % FsqSize /\ fsqSent' = Append(fsqSent, fsqData[t])
        /\ m_fsq' = m_fsq /\ FsqGoto(t, "notify")
    BY <1>7 DEF FsqPush
  <2>2. /\ fsqData[t] \in FsqItem /\ fsqSent' \in Seq(FsqItem)
        /\ Len(fsqSent') = Len(fsqSent) + 1 /\ fsqSent'[Len(fsqSent) + 1] = fsqData[t]
        /\ \A i \in 1 .. Len(fsqSent) : fsqSent'[i] = fsqSent[i]
    BY <1>0, <2>1 DEF FsqInv, FsqTypes
  <2>3. FsqTypes'
    BY <1>0, <2>1, <2>2, NextCell DEF FsqInv, FsqTypes, FsqIndex
  <2>4. FsqHeld' = FsqHeld + 1 /\ FsqHeld \in Nat
    BY <1>0, <1>2, <2>1 DEF FsqHeld
  <2>5. Len(fsqSent) = Len(fsqReceived) + FsqHeld
    BY DEF FsqInv, FsqCells
  <2>6. ASSUME NEW k \in 0 .. FsqHeld' - 1
        PROVE  m_fsq'[Ahead(FsqSize, m_read', k)] = fsqSent'[Len(fsqReceived') + k + 1]
    <3>1. CASE k = FsqHeld
      <4>1. m_fsq[m_write] = fsqData[t]
        BY <1>0, <1>7 DEF FsqInv, FsqPassed
      <4>2. Len(fsqReceived) + k + 1 = Len(fsqSent) + 1
        BY <1>0, <2>4, <2>5, <3>1
      <4> QED
        BY <1>0, <1>2, <2>1, <2>2, <3>1, <4>1, <4>2
    <3>2. CASE k \in 0 .. FsqHeld - 1
      <4>1. Len(fsqReceived) + k + 1 \in 1 .. Len(fsqSent)
        BY <1>0, <2>4, <2>5, <3>2
      <4>2. m_fsq[Ahead(FsqSize, m_read, k)] = fsqSent[Len(fsqReceived) + k + 1]
        BY <3>2 DEF FsqInv, FsqCells
      <4> QED
        BY <1>0, <2>1, <2>2, <4>1, <4>2
    <3> QED
      BY <2>4, <3>1, <3>2
  <2>7. FsqCells'
    <3>1. Len(fsqSent') = Len(fsqReceived') + FsqHeld'
      BY <1>0, <2>2, <2>4, <2>5
    <3> QED
      BY <2>6, <3>1 DEF FsqCells
  <2>8. ASSUME NEW u \in FsqWriters PROVE fsqAt'[u] \notin {"copy", "advance"}
    BY <1>3, <1>4, <2>1 DEF Holding, FsqThreads
  <2>9. ASSUME NEW u \in FsqReaders
        PROVE  /\ fsqAt'[u] \in {"copy", "advance"} => ~IsEmpty'
               /\ fsqAt'[u] = "advance" => fsqData'[u] = fsqSent'[Len(fsqReceived') + 1]
    <3>1. fsqAt'[u] = fsqAt[u] /\ ~IsEmpty'
      BY <1>0, <1>1, <1>4, <1>5, <2>1 DEF IsEmpty
    <3>2. ASSUME fsqAt[u] = "advance"
          PROVE  Len(fsqReceived) + 1 \in 1 .. Len(fsqSent)
      <4>1. m_read # m_write
        BY <3>2 DEF FsqInv, FsqPassed, IsEmpty
      <4>2. FsqHeld \in 1 .. FsqSize - 1
        BY <1>0, <4>1, HeadMoves DEF FsqHeld
      <4> QED
        BY <1>0, <2>5, <4>2
    <3> QED
      BY <1>0, <2>2, <3>1, <3>2 DEF FsqInv, FsqPassed
  <2> QED
    BY <2>3, <2>7, <2>8, <2>9 DEF FsqInv, FsqPassed
<1> QED
    BY <1>6, <1>7 DEF FsqPush

(***************************************************************************)
(* The reader's copy of the oldest item, then the index that frees its     *)
(* cell.                                                                   *)
(***************************************************************************)
LEMMA FsqPopStep ==
  ASSUME FsqInv, FsqMutex', fsqAt' \in [FsqThreads -> FsqPc],
         NEW t \in FsqThreads, FsqPop(t)
  PROVE  FsqInv'
<1>0. /\ FsqSize \in Nat \ {0} /\ m_write \in 0 .. FsqSize - 1 /\ m_read \in 0 .. FsqSize - 1
      /\ fsqAt \in [FsqThreads -> FsqPc] /\ fsqData \in [FsqThreads -> FsqItem]
      /\ Len(fsqSent) \in Nat /\ Len(fsqReceived) \in Nat /\ t \in FsqReaders
      /\ UNCHANGED <<m_fsq, m_write, fsqSent>>
    BY FsqAssumption DEF FsqInv, FsqTypes, FsqIndex, FsqPop
<1>1. m_read # m_write /\ fsqAt[t] \in Holding
    BY <1>0 DEF FsqInv, FsqPassed, IsEmpty, FsqPop, Holding
<1>2. /\ Dist(FsqSize, (m_read + 1) % FsqSize, m_write) = FsqHeld - 1
      /\ FsqHeld \in 1 .. FsqSize - 1 /\ Ahead(FsqSize, m_read, 0) = m_read
      /\ \A k \in 0 .. FsqHeld - 2 :
           Ahead(FsqSize, (m_read + 1) % FsqSize, k) = Ahead(FsqSize, m_read, k + 1)
    BY <1>0, <1>1, HeadMoves DEF FsqHeld
<1>3. \A u \in FsqReaders : u # t => fsqAt[u] \notin Holding
    BY <1>0, <1>1, FsqOneHolder DEF FsqInv, FsqThreads
<1>4. ASSUME NEW l, FsqGoto(t, l)
      PROVE  /\ fsqAt'[t] = l
             /\ \A u \in FsqThreads : u # t => fsqAt'[u] = fsqAt[u]
    BY <1>0, <1>4 DEF FsqGoto
<1>5. \A u \in FsqWriters : u # t /\ u \in FsqThreads
    BY <1>0, FsqAssumption DEF FsqThreads
<1>6. CASE fsqAt[t] = "copy"
  <2>1. /\ fsqData' = [fsqData EXCEPT ![t] = m_fsq[m_read]] /\ UNCHANGED <<m_read, fsqReceived>>
        /\ FsqGoto(t, "advance")
    BY <1>6 DEF FsqPop
  <2>2. FsqTypes'
    BY <1>0, <2>1 DEF FsqInv, FsqTypes, FsqIndex
  <2>3. FsqCells'
    BY <1>0, <2>1 DEF FsqInv, FsqCells, FsqHeld
  <2>4. fsqData'[t] = fsqSent'[Len(fsqReceived') + 1]
    <3>1. 0 \in 0 .. FsqHeld - 1
      BY <1>0, <1>2
    <3>2. m_fsq[m_read] = fsqSent[Len(fsqReceived) + 0 + 1]
      BY <1>2, <3>1 DEF FsqInv, FsqCells
    <3> QED
      BY <1>0, <2>1, <3>2
  <2>5. ~IsEmpty' /\ IsFull' = IsFull
    BY <1>0, <1>1, <2>1 DEF IsFull, IsEmpty
  <2>6. ASSUME NEW u \in FsqReaders
        PROVE  /\ fsqAt'[u] \in {"copy", "advance"} => ~IsEmpty'
               /\ fsqAt'[u] = "advance" => fsqData'[u] = fsqSent'[Len(fsqReceived') + 1]
    BY <1>3, <1>4, <2>1, <2>4, <2>5 DEF Holding, FsqThreads
  <2>7. ASSUME NEW u \in FsqWriters
        PROVE  /\ fsqAt'[u] \in {"copy", "advance"} => ~IsFull'
               /\ fsqAt'[u] = "advance" => m_fsq'[m_write'] = fsqData'[u]
    <3>1. fsqAt'[u] = fsqAt[u] /\ fsqData'[u] = fsqData[u]
      BY <1>0, <1>4, <1>5, <2>1
    <3> QED
      BY <1>0, <2>5, <3>1 DEF FsqInv, FsqPassed
  <2> QED
    BY <2>2, <2>3, <2>6, <2>7 DEF FsqInv, FsqPassed
<1>7. CASE fsqAt[t] = "advance"
  <2>1. /\ m_read' = (m_read + 1) % FsqSize /\ fsqReceived' = Append(fsqReceived, fsqData[t])
        /\ fsqData' = fsqData /\ FsqGoto(t, "notify")
    BY <1>7 DEF FsqPop
  <2>2. /\ fsqReceived' \in Seq(FsqItem) /\ Len(fsqReceived') = Len(fsqReceived) + 1
    BY <1>0, <2>1 DEF FsqInv, FsqTypes
  <2>3. FsqTypes'
    BY <1>0, <2>1, <2>2, NextCell DEF FsqInv, FsqTypes, FsqIndex
  <2>4. FsqHeld' = FsqHeld - 1 /\ FsqHeld \in Nat \ {0}
    BY <1>0, <1>2, <2>1 DEF FsqHeld
  <2>5. Len(fsqSent) = Len(fsqReceived) + FsqHeld
    BY DEF FsqInv, FsqCells
  <2>6. ASSUME NEW k \in 0 .. FsqHeld' - 1
        PROVE  m_fsq'[Ahead(FsqSize, m_read', k)] = fsqSent'[Len(fsqReceived') + k + 1]
    <3>1. k \in 0 .. FsqHeld - 2 /\ k + 1 \in 0 .. FsqHeld - 1 /\ k \in Nat
      BY <2>4
    <3>2. m_fsq[Ahead(FsqSize, m_read, k + 1)] = fsqSent[Len(fsqReceived) + (k + 1) + 1]
      BY <3>1 DEF FsqInv, FsqCells
    <3>3. Len(fsqReceived) + (k + 1) + 1 = Len(fsqReceived') + k + 1
      BY <1>0, <2>2, <3>1
    <3> QED
      BY <1>0, <1>2, <2>1, <3>1, <3>2, <3>3
  <2>7. FsqCells'
    <3>1. Len(fsqSent') = Len(fsqReceived') + FsqHeld'
      BY <1>0, <2>2, <2>4, <2>5
    <3> QED
      BY <2>6, <3>1 DEF FsqCells
  <2>8. ASSUME NEW u \in FsqReaders PROVE fsqAt'[u] \notin {"copy", "advance"}
    BY <1>3, <1>4, <2>1 DEF Holding, FsqThreads
  <2>9. ASSUME NEW u \in FsqWriters
        PROVE  /\ fsqAt'[u] \in {"copy", "advance"} => ~IsFull'
               /\ fsqAt'[u] = "advance" => m_fsq'[m_write'] = fsqData'[u]
    <3>1. fsqAt'[u] = fsqAt[u]
      BY <1>4, <1>5, <2>1
    <3>2. (m_write + 1) % FsqSize # (m_read + 1) % FsqSize
      BY <1>0, <1>1, NextCellInjective
    <3>3. ~IsFull'
      BY <1>0, <2>1, <3>2 DEF IsFull
    <3> QED
      BY <1>0, <2>1, <3>1, <3>3 DEF FsqInv, FsqPassed
  <2> QED
    BY <2>3, <2>7, <2>8, <2>9 DEF FsqInv, FsqPassed
<1> QED
    BY <1>6, <1>7 DEF FsqPop

(***************************************************************************)
(* The invariant of the waitable fixed-size queue, in every reachable      *)
(* state: for any number of writers and readers the two mutexes and the    *)
(* order of the stores keep both ends out of each other's cells.           *)
(***************************************************************************)
THEOREM FsqInvariance == FsqSpec => []FsqInv
<1>1. FsqStart => FsqInv
  <2> SUFFICES ASSUME FsqStart PROVE FsqInv
    OBVIOUS
  <2>0. 0 \in FsqIndex /\ FsqHeld = 0 /\ m_fsq \in [FsqIndex -> FsqItem]
    BY FsqAssumption DEF FsqStart, FsqIndex, FsqHeld, Dist
  <2>1. FsqTypes
    <3>1. fsqAt \in [FsqThreads -> FsqPc] /\ fsqData \in [FsqThreads -> FsqItem]
      BY <2>0 DEF FsqStart, FsqPc
    <3>2. fsqSent \in Seq(FsqItem) /\ fsqReceived \in Seq(FsqItem)
      BY DEF FsqStart
    <3> QED
      BY <2>0, <3>1, <3>2 DEF FsqStart, FsqTypes
  <2>2. FsqMutex /\ FsqPassed
    BY DEF FsqStart, FsqMutex, FsqPassed, Holding, FsqThreads
  <2>3. FsqCells
    BY <2>0 DEF FsqStart, FsqCells
  <2> QED
    BY <2>1, <2>2, <2>3 DEF FsqInv
<1>2. FsqInv /\ [FsqNext]_fsqVars => FsqInv'
  <2> SUFFICES ASSUME FsqInv, [FsqNext]_fsqVars PROVE FsqInv'
    OBVIOUS
  <2>0. /\ FsqMutex' /\ fsqAt' \in [FsqThreads -> FsqPc]
        /\ fsqAt \in [FsqThreads -> FsqPc] /\ fsqData \in [FsqThreads -> FsqItem]
    BY FsqMutexStep DEF FsqInv, FsqTypes
  <2>1. ASSUME NEW t \in FsqThreads, NEW v \in FsqItem, NEW timed, FsqCall(t, v, timed)
        PROVE  FsqInv'
    <3>1. /\ UNCHANGED <<m_fsq, m_write, m_read, fsqSent, fsqReceived>>
          /\ fsqData' \in [FsqThreads -> FsqItem] /\ FsqGoto(t, "lock")
          /\ \A u \in FsqThreads : u # t => fsqData'[u] = fsqData[u]
      BY <2>0, <2>1 DEF FsqCall
    <3>2. \A u \in FsqThreads : fsqAt'[u] \in {"copy", "advance"} =>
                                  fsqAt'[u] = fsqAt[u] /\ fsqData'[u] = fsqData[u]
      BY <2>0, <3>1 DEF FsqGoto
    <3> QED
      BY <2>0, <3>1, <3>2, FsqPlain
  <2>2. ASSUME NEW t \in FsqThreads, FsqLock(t) \/ FsqWait(t) \/ FsqNotify(t)
        PROVE  FsqInv'
    <3>1. UNCHANGED <<m_fsq, m_write, m_read, fsqSent, fsqReceived, fsqData>>
      BY <2>2 DEF FsqLock, FsqWait, FsqNotify
    <3>2. \A u \in FsqThreads : fsqAt'[u] \in {"copy", "advance"} => fsqAt'[u] = fsqAt[u]
      <4>1. CASE FsqLock(t)
        BY <2>0, <4>1 DEF FsqLock, FsqGoto
      <4>2. CASE FsqWait(t)
        BY <2>0, <4>2 DEF FsqWait, FsqGoto
      <4>3. CASE FsqNotify(t)
        BY <2>0, <4>3 DEF FsqNotify, FsqGoto
      <4> QED
        BY <2>2, <4>1, <4>2, <4>3
    <3> QED
      BY <2>0, <3>1, <3>2, FsqPlain
  <2>3. ASSUME NEW t \in FsqThreads, FsqTest(t) PROVE FsqInv'
    <3>1. /\ UNCHANGED <<m_fsq, m_write, m_read, fsqSent, fsqReceived, fsqData>>
          /\ \A u \in FsqThreads : u # t => fsqAt'[u] = fsqAt[u]
          /\ fsqAt'[t] # "advance"
          /\ fsqAt'[t] = "copy" => ~(IF t \in FsqWriters THEN IsFull ELSE IsEmpty)
      BY <2>0, <2>3 DEF FsqTest, FsqGoto
    <3>2. FsqTypes' /\ FsqCells'
      BY <2>0, <3>1 DEF FsqInv, FsqTypes, FsqCells, FsqHeld
    <3>3. IsFull' = IsFull /\ IsEmpty' = IsEmpty
      BY <3>1 DEF IsFull, IsEmpty
    <3>4. FsqPassed'
      BY <3>1, <3>3, FsqAssumption DEF FsqInv, FsqPassed, FsqThreads
    <3> QED
      BY <2>0, <3>2, <3>4 DEF FsqInv
  <2>4. CASE UNCHANGED fsqVars
    <3>1. UNCHANGED <<m_fsq, m_write, m_read, fsqSent, fsqReceived, fsqData, fsqAt>>
      BY <2>4 DEF fsqVars
    <3> QED
      BY <2>0, <3>1, FsqPlain
  <2>5. ASSUME NEW t \in FsqThreads, FsqPush(t) \/ FsqPop(t) PROVE FsqInv'
    BY <2>0, <2>5, FsqPushStep, FsqPopStep
  <2>6. ASSUME NEW t \in FsqThreads, FsqStep(t) \/ FsqWait(t) PROVE FsqInv'
    BY <2>2, <2>3, <2>5, <2>6 DEF FsqStep
  <2> QED
    BY <2>1, <2>4, <2>6 DEF FsqNext
<1> QED
    BY <1>1, <1>2, PTL DEF FsqSpec

(***************************************************************************)
(* The waitable fixed-size queue implements the first-in first-out queue:  *)
(* a writer's move of m_write is the abstract Send, a reader's move of     *)
(* m_read the abstract Receive.                                            *)
(***************************************************************************)
THEOREM FsqRefinement == FsqSpec => FsqImplementsFifo
<1>1. FsqStart => FsqFifo!FifoInit
    BY DEF FsqStart, FsqFifo!FifoInit
<1>2. FsqInv /\ [FsqNext]_fsqVars => [FsqFifo!FifoNext]_(FsqFifo!fifoVars)
  <2> SUFFICES ASSUME FsqInv, [FsqNext]_fsqVars
               PROVE  FsqFifo!FifoNext \/ UNCHANGED FsqFifo!fifoVars
    OBVIOUS
  <2>1. ASSUME NEW t \in FsqThreads, FsqPush(t)
        PROVE  FsqFifo!FifoNext \/ UNCHANGED FsqFifo!fifoVars
    <3>1. fsqData[t] \in FsqItem
      BY DEF FsqInv, FsqTypes
    <3> QED
      BY <2>1, <3>1 DEF FsqPush, FsqFifo!FifoNext, FsqFifo!Send, FsqFifo!fifoVars
  <2>2. ASSUME NEW t \in FsqThreads, FsqPop(t)
        PROVE  FsqFifo!FifoNext \/ UNCHANGED FsqFifo!fifoVars
    <3>1. CASE fsqAt[t] = "advance"
      <4>1. fsqData[t] = fsqSent[Len(fsqReceived) + 1] /\ m_read # m_write
        BY <2>2, <3>1 DEF FsqInv, FsqPassed, IsEmpty, FsqPop
      <4>2. FsqHeld \in 1 .. FsqSize - 1
        BY <4>1, HeadMoves, FsqAssumption DEF FsqInv, FsqTypes, FsqIndex, FsqHeld
      <4>3. Len(fsqReceived) \in Nat /\ Len(fsqSent) = Len(fsqReceived) + FsqHeld
        BY DEF FsqInv, FsqTypes, FsqCells
      <4>4. Len(fsqReceived) < Len(fsqSent)
        BY <4>2, <4>3, FsqAssumption
      <4> QED
        BY <2>2, <3>1, <4>1, <4>4 DEF FsqPop, FsqFifo!FifoNext, FsqFifo!Receive
    <3>2. CASE fsqAt[t] # "advance"
      BY <2>2, <3>2 DEF FsqPop, FsqFifo!fifoVars
    <3> QED
      BY <3>1, <3>2
  <2>3. ASSUME NEW t \in FsqThreads,
               \/ FsqLock(t) \/ FsqTest(t) \/ FsqNotify(t) \/ FsqWait(t)
               \/ \E v \in FsqItem, timed \in BOOLEAN : FsqCall(t, v, timed)
        PROVE  UNCHANGED FsqFifo!fifoVars
    BY <2>3 DEF FsqLock, FsqTest, FsqNotify, FsqWait, FsqCall, FsqFifo!fifoVars
  <2>4. CASE UNCHANGED fsqVars
    BY <2>4 DEF fsqVars, FsqFifo!fifoVars
  <2> QED
    BY <2>1, <2>2, <2>3, <2>4 DEF FsqNext, FsqStep
<1> QED
    BY <1>1, <1>2, FsqInvariance, PTL DEF FsqSpec, FsqImplementsFifo, FsqFifo!FifoSpec
-----------------------------------------------------------------------------
(* MPMCQueue *)

(***************************************************************************)
(* Division by the number of cells: the cell after a position's is another *)
(* one, and Capacity positions further on it is the same again.            *)
(***************************************************************************)
LEMMA Division ==
  ASSUME NEW c \in Nat \ {0}, NEW q \in Nat
  PROVE  /\ q \div c \in Nat /\ q % c \in 0 .. c - 1
         /\ q - c * (q \div c) = q % c
OBVIOUS

(* A multiple of c is not 1, and is 0 when it is nearer to 0 than c. *)
LEMMA Multiple ==
  ASSUME NEW c \in Nat \ {0}, NEW a \in Int
  PROVE  /\ c > 1 => c * a # 1
         /\ 0 - c < c * a /\ c * a < c => a = 0
OBVIOUS

(* Two positions in turn are in two cells. *)
LEMMA ModSucc ==
  ASSUME NEW c \in Nat \ {0, 1}, NEW q \in Nat
  PROVE  (q + 1) % c # q % c
<1> DEFINE a == ((q + 1) \div c) - (q \div c)
<1>1. /\ q - c * (q \div c) = q % c /\ (q + 1) - c * ((q + 1) \div c) = (q + 1) % c
      /\ q \div c \in Nat /\ (q + 1) \div c \in Nat
  <2>1. \A n \in Nat : n - c * (n \div c) = n % c /\ n \div c \in Nat
    BY Division
  <2>2. q + 1 \in Nat
    OBVIOUS
  <2> QED
    BY <2>1, <2>2
<1>2. a \in Int /\ c * a = c * ((q + 1) \div c) - c * (q \div c)
    BY <1>1
<1>3. c * a # 1
  <2> HIDE DEF a
  <2> QED
    BY <1>2, Multiple
<1>4. c * (q \div c) \in Int /\ c * ((q + 1) \div c) \in Int
    BY <1>1
<1> QED
    BY <1>1, <1>2, <1>3, <1>4

(* A position one round later is in the same cell. *)
LEMMA ModPlus ==
  ASSUME NEW c \in Nat \ {0}, NEW q \in Nat
  PROVE  (q + c) % c = q % c
<1> DEFINE a == ((q + c) \div c) - (q \div c) - 1
<1>1. /\ q - c * (q \div c) = q % c /\ (q + c) - c * ((q + c) \div c) = (q + c) % c
      /\ q \div c \in Nat /\ (q + c) \div c \in Nat
      /\ q % c \in 0 .. c - 1 /\ (q + c) % c \in 0 .. c - 1
  <2>1. \A n \in Nat : n - c * (n \div c) = n % c /\ n \div c \in Nat /\ n % c \in 0 .. c - 1
    BY Division
  <2>2. q + c \in Nat
    OBVIOUS
  <2> QED
    BY <2>1, <2>2
<1>2. a \in Int /\ c * a = c * ((q + c) \div c) - c * (q \div c) - c
    BY <1>1
<1>3. c * (q \div c) \in Int /\ c * ((q + c) \div c) \in Int
    BY <1>1
<1>4. c * a = (q % c) - ((q + c) % c)
    BY <1>1, <1>2, <1>3
<1>5. a = 0
    BY <1>1, <1>2, <1>4, Multiple
<1> QED
    BY <1>1, <1>4, <1>5
-----------------------------------------------------------------------------

ProducerPc == {"idle", "test", "full", "load", "cas", "write", "publish"}
ConsumerPc == {"idle", "test", "empty", "load", "cas", "read", "release"}

(* Types; inside a call a producer has counted the item it is sending. *)
MpmcTypes ==
  /\ enqueue_pos \in Nat /\ dequeue_pos \in Nat
  /\ sequence \in [Cells -> Nat] /\ data \in [Cells -> MpmcItem \cup {NoItem}]
  /\ mpmcAt \in [MpmcThreads -> ProducerPc \cup ConsumerPc]
  /\ mpmcPos \in [MpmcThreads -> Nat] /\ sent \in [MpmcProducers -> 0 .. MpmcItems]
  /\ claimed \in Seq(MpmcItem) /\ taken \in Seq(Nat \X (MpmcItem \cup {NoItem}))
  /\ \A p \in MpmcProducers : mpmcAt[p] \in ProducerPc /\ (mpmcAt[p] # "idle" => sent[p] > 0)
  /\ \A c \in MpmcConsumers : mpmcAt[c] \in ConsumerPc

(***************************************************************************)
(* A thread that has claimed a position owns its cell: the sequence number *)
(* says so, and no other thread has claimed that position.                 *)
(***************************************************************************)
Owners ==
  /\ \A p \in MpmcProducers :
       InCell(p) => sequence[Cell(p)] = mpmcPos[p] /\ mpmcPos[p] < enqueue_pos
  /\ \A c \in MpmcConsumers :
       InCell(c) => sequence[Cell(c)] = mpmcPos[c] + 1 /\ mpmcPos[c] < dequeue_pos
  /\ \A p, q \in MpmcProducers :
       InCell(p) /\ InCell(q) /\ p # q => mpmcPos[p] # mpmcPos[q]
  /\ \A c, d \in MpmcConsumers :
       InCell(c) /\ InCell(d) /\ c # d => mpmcPos[c] # mpmcPos[d]

(***************************************************************************)
(* Between its test and its compare-and-exchange a thread's view of the    *)
(* sequence number is right, or the exchange will fail.                    *)
(***************************************************************************)
TestStillHolds ==
  /\ \A p \in MpmcProducers : mpmcAt[p] = "cas" =>
       sequence[Cell(p)] = mpmcPos[p] \/ enqueue_pos > mpmcPos[p]
  /\ \A c \in MpmcConsumers : mpmcAt[c] = "cas" =>
       sequence[Cell(c)] = mpmcPos[c] + 1 \/ dequeue_pos > mpmcPos[c]

(***************************************************************************)
(* A cell whose sequence number says it is published holds the item of     *)
(* that position.                                                          *)
(***************************************************************************)
Contents ==
  /\ Len(claimed) = enqueue_pos
  /\ \A p \in MpmcProducers : InCell(p) => claimed[mpmcPos[p] + 1] = Sending(p)
  /\ \A p \in MpmcProducers : mpmcAt[p] = "publish" => data[Cell(p)] = Sending(p)
  /\ \A n \in Nat : sequence[n % MpmcCapacity] = n + 1 =>
       n < enqueue_pos /\ data[n % MpmcCapacity] = claimed[n + 1]

(* What was dequeued, and that nobody is about to dequeue it again. *)
Dequeued ==
  /\ \A k \in 1 .. Len(taken) : /\ taken[k][1] < dequeue_pos /\ taken[k][1] < enqueue_pos
                                /\ taken[k][2] = claimed[taken[k][1] + 1]
  /\ \A j, k \in 1 .. Len(taken) : j # k => taken[j][1] # taken[k][1]
  /\ \A c \in MpmcConsumers : mpmcAt[c] = "read" =>
       \A k \in 1 .. Len(taken) : taken[k][1] # mpmcPos[c]

MpmcInv == MpmcTypes /\ Owners /\ TestStillHolds /\ Contents /\ Dequeued

(***************************************************************************)
(* The cells of positions.                                                 *)
(***************************************************************************)
LEMMA CellFacts ==
  ASSUME MpmcTypes
  PROVE  /\ MpmcCapacity \in Nat \ {0, 1} /\ MpmcCapacity \in Nat \ {0}
         /\ \A n \in Nat : n % MpmcCapacity \in Cells
         /\ \A t \in MpmcThreads : mpmcPos[t] \in Nat /\ Cell(t) \in Cells
         /\ \A m, n \in Nat : m % MpmcCapacity = n % MpmcCapacity => m # n + 1
<1>1. MpmcCapacity \in Nat \ {0, 1} /\ MpmcCapacity \in Nat \ {0}
    BY MpmcAssumption
<1>2. \A n \in Nat : n % MpmcCapacity \in Cells
    BY <1>1, Division DEF Cells
<1>3. \A t \in MpmcThreads : mpmcPos[t] \in Nat
    BY DEF MpmcTypes
<1>4. ASSUME NEW m \in Nat, NEW n \in Nat, m % MpmcCapacity = n % MpmcCapacity
      PROVE  m # n + 1
    BY <1>1, <1>4, ModSucc
<1> QED
    BY <1>1, <1>2, <1>3, <1>4 DEF Cell

(***************************************************************************)
(* Owning a position is owning a cell: two threads in one cell would have  *)
(* the same position, or positions one apart that lie in the same cell.    *)
(***************************************************************************)
LEMMA OwnersExclude ==
  ASSUME MpmcTypes, Owners
  PROVE  CellsExclusive
<1> SUFFICES ASSUME NEW t \in MpmcThreads, NEW u \in MpmcThreads, InCell(t), InCell(u), t # u,
                    Cell(t) = Cell(u)
             PROVE  FALSE
    BY DEF CellsExclusive
<1>1. mpmcPos[t] \in Nat /\ mpmcPos[u] \in Nat
    BY CellFacts
<1>2. CASE t \in MpmcProducers /\ u \in MpmcProducers
    BY <1>2 DEF Owners
<1>3. CASE t \in MpmcConsumers /\ u \in MpmcConsumers
    BY <1>1, <1>3 DEF Owners
<1>4. ASSUME NEW p \in MpmcProducers, NEW c \in MpmcConsumers, InCell(p), InCell(c),
             Cell(p) = Cell(c), mpmcPos[p] \in Nat, mpmcPos[c] \in Nat
      PROVE  FALSE
  <2>1. mpmcPos[p] = mpmcPos[c] + 1
    BY <1>4 DEF Owners
  <2> QED
    BY <1>4, <2>1, CellFacts DEF Cell
<1> QED
    BY <1>1, <1>2, <1>3, <1>4 DEF MpmcThreads

-----------------------------------------------------------------------------

\* A step of thread t leaves the other threads where they are.
OnlyMoves(t) == \A u \in MpmcThreads : u # t =>
                  /\ mpmcAt'[u] = mpmcAt[u] /\ mpmcPos'[u] = mpmcPos[u]
                  /\ u \in MpmcProducers => sent'[u] = sent[u]

PStep(p) == EnqCall(p) \/ EnqStep(p) \/ EnqClaimFails(p)
CStep(c) == DeqCall(c) \/ DeqStep(c) \/ DeqClaimFails(c)

(***************************************************************************)
(* The types, and which thread a step moves.                               *)
(***************************************************************************)
LEMMA ProducerTypes ==
  ASSUME MpmcTypes, NEW p \in MpmcProducers, PStep(p)
  PROVE  MpmcTypes' /\ OnlyMoves(p)
<1>0. /\ p \in MpmcThreads /\ mpmcAt \in [MpmcThreads -> ProducerPc \cup ConsumerPc]
      /\ mpmcPos \in [MpmcThreads -> Nat] /\ sent \in [MpmcProducers -> 0 .. MpmcItems]
      /\ MpmcItems \in Nat /\ enqueue_pos \in Nat /\ Cell(p) \in Cells
      /\ \A u \in MpmcConsumers : u # p /\ u \in MpmcThreads
      /\ \A u \in MpmcProducers : u \in MpmcThreads
    BY CellFacts, MpmcAssumption DEF MpmcTypes, MpmcThreads
<1>1. \E l \in ProducerPc : /\ MpmcGoto(p, l)
                            /\ mpmcAt[p] = "idle" => l = "test" /\ EnqCall(p)
    BY DEF PStep, EnqStep, EnqCall, EnqTest, EnqFull, EnqLoad, EnqClaim, EnqClaimFails, EnqWrite,
           EnqPublish, ProducerPc
<1>2. PICK l \in ProducerPc : /\ MpmcGoto(p, l)
                              /\ mpmcAt[p] = "idle" => l = "test" /\ EnqCall(p)
    BY <1>1
<1>3. /\ mpmcAt' \in [MpmcThreads -> ProducerPc \cup ConsumerPc] /\ mpmcAt'[p] = l
      /\ \A u \in MpmcThreads : u # p => mpmcAt'[u] = mpmcAt[u]
    BY <1>0, <1>2 DEF MpmcGoto
<1>4. /\ mpmcPos' \in [MpmcThreads -> Nat]
      /\ \A u \in MpmcThreads : u # p => mpmcPos'[u] = mpmcPos[u]
  <2>1. mpmcPos' = mpmcPos \/ SetPos(p, enqueue_pos)
    BY DEF PStep, EnqStep, EnqCall, EnqTest, EnqFull, EnqLoad, EnqClaim, EnqClaimFails, EnqWrite,
           EnqPublish
  <2> QED
    BY <1>0, <2>1 DEF SetPos
<1>5. /\ sent' \in [MpmcProducers -> 0 .. MpmcItems]
      /\ \A u \in MpmcProducers : u # p => sent'[u] = sent[u]
      /\ l # "idle" => sent'[p] > 0
  <2>1. CASE EnqCall(p)
    BY <1>0, <2>1 DEF EnqCall
  <2>2. CASE EnqFull(p)
    <3>1. sent[p] > 0 /\ sent' = [sent EXCEPT ![p] = @ - 1] /\ mpmcAt'[p] = "idle"
      BY <1>0, <2>2 DEF EnqFull, MpmcTypes, MpmcGoto
    <3> QED
      BY <1>0, <1>3, <3>1
  <2>3. CASE ~EnqCall(p) /\ ~EnqFull(p)
    <3>1. sent' = sent
      BY <2>3 DEF PStep, EnqStep, EnqTest, EnqLoad, EnqClaim, EnqClaimFails, EnqWrite, EnqPublish
    <3>2. mpmcAt[p] # "idle"
      BY <1>2, <2>3
    <3> QED
      BY <1>0, <3>1, <3>2 DEF MpmcTypes
  <2> QED
    BY <2>1, <2>2, <2>3
<1>6. /\ enqueue_pos' \in Nat /\ dequeue_pos' \in Nat
      /\ taken' \in Seq(Nat \X (MpmcItem \cup {NoItem}))
    BY <1>0 DEF MpmcTypes, PStep, EnqStep, EnqCall, EnqTest, EnqFull, EnqLoad, EnqClaim,
                EnqClaimFails, EnqWrite, EnqPublish, cellsUnchanged
<1>7. mpmcAt[p] # "idle" => Sending(p) \in MpmcItem
  <2>1. mpmcAt[p] # "idle" => sent[p] \in 1 .. MpmcItems
    BY <1>0 DEF MpmcTypes
  <2> QED
    BY <2>1 DEF Sending, MpmcItem
<1>8. /\ sequence' \in [Cells -> Nat] /\ data' \in [Cells -> MpmcItem \cup {NoItem}]
      /\ claimed' \in Seq(MpmcItem)
  <2>1. CASE EnqClaim(p)
    BY <1>7, <2>1 DEF EnqClaim, MpmcTypes
  <2>2. CASE EnqWrite(p)
    BY <1>0, <1>7, <2>2 DEF EnqWrite, MpmcTypes
  <2>3. CASE EnqPublish(p)
    BY <1>0, <2>3 DEF EnqPublish, MpmcTypes
  <2>4. CASE EnqCall(p) \/ EnqTest(p) \/ EnqFull(p) \/ EnqLoad(p) \/ EnqClaimFails(p)
    BY <2>4 DEF EnqCall, EnqTest, EnqFull, EnqLoad, EnqClaimFails, cellsUnchanged, MpmcTypes
  <2> QED
    BY <2>1, <2>2, <2>3, <2>4 DEF PStep, EnqStep
<1>9. \A u \in MpmcProducers : mpmcAt'[u] \in ProducerPc /\ (mpmcAt'[u] # "idle" => sent'[u] > 0)
    BY <1>0, <1>2, <1>3, <1>5 DEF MpmcTypes
<1>10. \A c \in MpmcConsumers : mpmcAt'[c] \in ConsumerPc
    BY <1>0, <1>3 DEF MpmcTypes
<1> QED
    BY <1>3, <1>4, <1>5, <1>6, <1>8, <1>9, <1>10 DEF MpmcTypes, OnlyMoves

(* A step of a consumer keeps the types and moves that consumer alone. *)
LEMMA ConsumerTypes ==
  ASSUME MpmcTypes, NEW c \in MpmcConsumers, CStep(c)
  PROVE  MpmcTypes' /\ OnlyMoves(c)
<1>0. /\ c \in MpmcThreads /\ mpmcAt \in [MpmcThreads -> ProducerPc \cup ConsumerPc]
      /\ mpmcPos \in [MpmcThreads -> Nat] /\ dequeue_pos \in Nat /\ Cell(c) \in Cells
      /\ \A u \in MpmcProducers : u # c /\ u \in MpmcThreads
      /\ \A u \in MpmcConsumers : u \in MpmcThreads
    BY CellFacts, MpmcAssumption DEF MpmcTypes, MpmcThreads
<1>1. PICK l \in ConsumerPc : MpmcGoto(c, l)
    BY DEF CStep, DeqStep, DeqCall, DeqTest, DeqEmpty, DeqLoad, DeqClaim, DeqClaimFails, DeqRead,
           DeqRelease, ConsumerPc
<1>2. /\ mpmcAt' \in [MpmcThreads -> ProducerPc \cup ConsumerPc] /\ mpmcAt'[c] = l
      /\ \A u \in MpmcThreads : u # c => mpmcAt'[u] = mpmcAt[u]
    BY <1>0, <1>1 DEF MpmcGoto
<1>3. /\ mpmcPos' \in [MpmcThreads -> Nat]
      /\ \A u \in MpmcThreads : u # c => mpmcPos'[u] = mpmcPos[u]
  <2>1. mpmcPos' = mpmcPos \/ SetPos(c, dequeue_pos)
    BY DEF CStep, DeqStep, DeqCall, DeqTest, DeqEmpty, DeqLoad, DeqClaim, DeqClaimFails, DeqRead,
           DeqRelease
  <2> QED
    BY <1>0, <2>1 DEF SetPos
<1>4. /\ UNCHANGED <<enqueue_pos, data, sent, claimed>> /\ dequeue_pos' \in Nat
    BY <1>0 DEF CStep, DeqStep, DeqCall, DeqTest, DeqEmpty, DeqLoad, DeqClaim, DeqClaimFails,
                DeqRead, DeqRelease, cellsUnchanged
<1>5. sequence' \in [Cells -> Nat]
  <2>1. CASE DeqRelease(c)
    <3>1. mpmcPos[c] + MpmcCapacity \in Nat
      BY <1>0, MpmcAssumption
    <3> QED
      BY <1>0, <2>1, <3>1 DEF DeqRelease, MpmcTypes
  <2>2. CASE ~DeqRelease(c)
    BY <2>2 DEF MpmcTypes, CStep, DeqStep, DeqCall, DeqTest, DeqEmpty, DeqLoad, DeqClaim,
                DeqClaimFails, DeqRead, cellsUnchanged
  <2> QED
    BY <2>1, <2>2
<1>6. taken' \in Seq(Nat \X (MpmcItem \cup {NoItem}))
  <2>1. CASE DeqRead(c)
    <3>1. <<mpmcPos[c], data[Cell(c)]>> \in Nat \X (MpmcItem \cup {NoItem})
      BY <1>0 DEF MpmcTypes
    <3> QED
      BY <2>1, <3>1 DEF DeqRead, MpmcTypes
  <2>2. CASE ~DeqRead(c)
    BY <2>2 DEF MpmcTypes, CStep, DeqStep, DeqCall, DeqTest, DeqEmpty, DeqLoad, DeqClaim,
                DeqClaimFails, DeqRelease
  <2> QED
    BY <2>1, <2>2
<1>7. /\ \A p \in MpmcProducers : mpmcAt'[p] = mpmcAt[p]
      /\ \A d \in MpmcConsumers : mpmcAt'[d] \in ConsumerPc
    BY <1>0, <1>1, <1>2 DEF MpmcTypes
<1> QED
    BY <1>2, <1>3, <1>4, <1>5, <1>6, <1>7 DEF MpmcTypes, OnlyMoves

(***************************************************************************)
(* What stays true of the threads that a step does not move.               *)
(***************************************************************************)
LEMMA OthersStay ==
  ASSUME NEW t \in MpmcThreads, OnlyMoves(t), NEW u \in MpmcThreads, u # t
  PROVE  /\ mpmcAt'[u] = mpmcAt[u] /\ mpmcPos'[u] = mpmcPos[u] /\ Cell(u)' = Cell(u)
         /\ InCell(u)' = InCell(u)
         /\ u \in MpmcProducers => Sending(u)' = Sending(u)
BY DEF OnlyMoves, Cell, InCell, Sending

(***************************************************************************)
(* A step that touches no cell and claims nothing keeps the invariant.     *)
(***************************************************************************)
LEMMA LocalStep ==
  ASSUME MpmcInv, MpmcTypes', NEW t \in MpmcThreads, OnlyMoves(t),
         UNCHANGED <<enqueue_pos, dequeue_pos, sequence, data, claimed, taken>>,
         ~InCell(t)',
         mpmcAt'[t] = "cas" =>
           IF t \in MpmcProducers THEN sequence[Cell(t)'] = mpmcPos'[t]
                                  ELSE sequence[Cell(t)'] = mpmcPos'[t] + 1
  PROVE  MpmcInv'
<1>0. MpmcProducers \subseteq MpmcThreads /\ MpmcConsumers \subseteq MpmcThreads
    BY DEF MpmcThreads
<1>1. ASSUME NEW u \in MpmcThreads, InCell(u)'
      PROVE  /\ u # t /\ InCell(u) /\ mpmcPos'[u] = mpmcPos[u] /\ Cell(u)' = Cell(u)
             /\ mpmcAt'[u] = mpmcAt[u]
             /\ u \in MpmcProducers => Sending(u)' = Sending(u)
    BY <1>1, OthersStay
<1>2. Owners'
    BY <1>0, <1>1 DEF MpmcInv, Owners
<1>3. TestStillHolds'
  <2>1. ASSUME NEW p \in MpmcProducers, mpmcAt'[p] = "cas"
        PROVE  sequence'[Cell(p)'] = mpmcPos'[p] \/ enqueue_pos' > mpmcPos'[p]
    BY <1>0, <2>1, OthersStay DEF MpmcInv, TestStillHolds
  <2>2. ASSUME NEW c \in MpmcConsumers, mpmcAt'[c] = "cas"
        PROVE  sequence'[Cell(c)'] = mpmcPos'[c] + 1 \/ dequeue_pos' > mpmcPos'[c]
    <3>1. c \notin MpmcProducers
      BY MpmcAssumption
    <3> QED
      BY <1>0, <2>2, <3>1, OthersStay DEF MpmcInv, TestStillHolds
  <2> QED
    BY <2>1, <2>2 DEF TestStillHolds
<1>4. Contents'
  <2>1. \A p \in MpmcProducers : mpmcAt'[p] = "publish" => InCell(p)'
    BY DEF InCell
  <2>2. ASSUME NEW p \in MpmcProducers, InCell(p)' PROVE claimed'[mpmcPos'[p] + 1] = Sending(p)'
    BY <1>0, <1>1, <2>2 DEF MpmcInv, Contents
  <2>3. ASSUME NEW p \in MpmcProducers, mpmcAt'[p] = "publish" PROVE data'[Cell(p)'] = Sending(p)'
    BY <1>0, <1>1, <2>1, <2>3 DEF MpmcInv, Contents
  <2> QED
    BY <2>2, <2>3 DEF MpmcInv, Contents
<1>5. Dequeued'
  <2>1. \A c \in MpmcConsumers : mpmcAt'[c] = "read" => InCell(c)'
    BY DEF InCell
  <2>2. ASSUME NEW c \in MpmcConsumers, mpmcAt'[c] = "read"
        PROVE  \A k \in 1 .. Len(taken) : taken[k][1] # mpmcPos'[c]
    BY <1>0, <1>1, <2>1, <2>2 DEF MpmcInv, Dequeued
  <2> QED
    BY <2>2 DEF MpmcInv, Dequeued
<1> QED
    BY <1>2, <1>3, <1>4, <1>5 DEF MpmcInv

(***************************************************************************)
(* The claim of a position by enqueue: the sequence number that the test   *)
(* saw is still there, because enqueue_pos has not moved.                  *)
(***************************************************************************)
LEMMA EnqClaimStep ==
  ASSUME MpmcInv, MpmcTypes', NEW p \in MpmcProducers, OnlyMoves(p), EnqClaim(p)
  PROVE  MpmcInv'
<1>0. /\ MpmcProducers \subseteq MpmcThreads /\ MpmcConsumers \subseteq MpmcThreads
      /\ p \in MpmcThreads /\ \A c \in MpmcConsumers : c # p
      /\ \A u \in MpmcThreads : mpmcPos[u] \in Nat
      /\ enqueue_pos \in Nat /\ Len(claimed) = enqueue_pos
    BY MpmcAssumption DEF MpmcThreads, MpmcInv, MpmcTypes, Contents
<1>1. /\ mpmcPos[p] = enqueue_pos /\ enqueue_pos' = enqueue_pos + 1
      /\ sequence[Cell(p)] = mpmcPos[p] /\ mpmcAt'[p] = "write"
      /\ mpmcPos' = mpmcPos /\ sent' = sent /\ Cell(p)' = Cell(p) /\ Sending(p)' = Sending(p)
      /\ UNCHANGED <<dequeue_pos, sequence, data, taken>>
      /\ claimed' = Append(claimed, Sending(p))
  <2>1. /\ mpmcAt[p] = "cas" /\ mpmcPos[p] = enqueue_pos
        /\ mpmcAt \in [MpmcThreads -> ProducerPc \cup ConsumerPc]
    BY DEF EnqClaim, MpmcInv, MpmcTypes
  <2>2. sequence[Cell(p)] = mpmcPos[p]
    BY <1>0, <2>1 DEF MpmcInv, TestStillHolds
  <2> QED
    BY <1>0, <2>1, <2>2 DEF EnqClaim, MpmcGoto, Cell, Sending
<1>2. /\ Len(claimed') = enqueue_pos + 1 /\ claimed'[enqueue_pos + 1] = Sending(p)
      /\ \A n \in Nat : n < enqueue_pos => claimed'[n + 1] = claimed[n + 1]
    BY <1>0, <1>1 DEF MpmcInv, MpmcTypes
<1>3. Owners'
    BY <1>0, <1>1, OthersStay DEF MpmcInv, Owners
<1>4. TestStillHolds'
    BY <1>0, <1>1, OthersStay DEF MpmcInv, TestStillHolds
<1>5. Contents'
  <2>1. ASSUME NEW q \in MpmcProducers, InCell(q)' PROVE claimed'[mpmcPos'[q] + 1] = Sending(q)'
    <3>1. CASE q = p
      BY <1>1, <1>2, <3>1
    <3>2. CASE q # p
      <4>1. InCell(q) /\ Sending(q)' = Sending(q)
        BY <1>0, <2>1, <3>2, OthersStay
      <4>2. mpmcPos[q] \in Nat /\ mpmcPos[q] < enqueue_pos
        BY <1>0, <4>1 DEF MpmcInv, Owners
      <4> QED
        BY <1>1, <1>2, <4>1, <4>2 DEF MpmcInv, Contents
    <3> QED
      BY <3>1, <3>2
  <2>2. ASSUME NEW q \in MpmcProducers, mpmcAt'[q] = "publish" PROVE data'[Cell(q)'] = Sending(q)'
    BY <1>0, <1>1, <2>2, OthersStay DEF MpmcInv, Contents
  <2>3. ASSUME NEW n \in Nat, sequence[n % MpmcCapacity] = n + 1
        PROVE  n < enqueue_pos' /\ data[n % MpmcCapacity] = claimed'[n + 1]
    <3>1. n < enqueue_pos /\ data[n % MpmcCapacity] = claimed[n + 1]
      BY <2>3 DEF MpmcInv, Contents
    <3> QED
      BY <1>0, <1>1, <1>2, <3>1
  <2> QED
    BY <1>1, <1>2, <2>1, <2>2, <2>3 DEF Contents
<1>6. Dequeued'
  <2>1. ASSUME NEW k \in 1 .. Len(taken)
        PROVE  /\ taken[k][1] < enqueue_pos' /\ taken[k][2] = claimed'[taken[k][1] + 1]
    <3>1. taken[k][1] \in Nat /\ taken[k][1] < enqueue_pos /\ taken[k][2] = claimed[taken[k][1] + 1]
      BY DEF MpmcInv, MpmcTypes, Dequeued
    <3> QED
      BY <1>0, <1>1, <1>2, <3>1
  <2>2. \A c \in MpmcConsumers : mpmcAt'[c] = mpmcAt[c]
    BY <1>0, OthersStay
  <2> QED
    BY <1>1, <2>1, <2>2 DEF MpmcInv, Dequeued
<1> QED
    BY <1>3, <1>4, <1>5, <1>6 DEF MpmcInv

(***************************************************************************)
(* The claim of a position by dequeue.                                     *)
(***************************************************************************)
LEMMA DeqClaimStep ==
  ASSUME MpmcInv, MpmcTypes', NEW c \in MpmcConsumers, OnlyMoves(c), DeqClaim(c)
  PROVE  MpmcInv'
<1>0. /\ MpmcProducers \subseteq MpmcThreads /\ MpmcConsumers \subseteq MpmcThreads
      /\ c \in MpmcThreads /\ \A p \in MpmcProducers : c # p
      /\ \A u \in MpmcThreads : mpmcPos[u] \in Nat
      /\ dequeue_pos \in Nat
    BY MpmcAssumption DEF MpmcThreads, MpmcInv, MpmcTypes
<1>1. /\ mpmcPos[c] = dequeue_pos /\ dequeue_pos' = dequeue_pos + 1
      /\ sequence[Cell(c)] = mpmcPos[c] + 1 /\ mpmcAt'[c] = "read"
      /\ mpmcPos' = mpmcPos /\ sent' = sent /\ Cell(c)' = Cell(c)
      /\ UNCHANGED <<enqueue_pos, sequence, data, claimed, taken>>
  <2>1. /\ mpmcAt[c] = "cas" /\ mpmcPos[c] = dequeue_pos
        /\ mpmcAt \in [MpmcThreads -> ProducerPc \cup ConsumerPc]
    BY DEF DeqClaim, MpmcInv, MpmcTypes
  <2>2. sequence[Cell(c)] = mpmcPos[c] + 1
    BY <1>0, <2>1 DEF MpmcInv, TestStillHolds
  <2> QED
    BY <1>0, <2>1, <2>2 DEF DeqClaim, MpmcGoto, Cell
<1>2. \A p \in MpmcProducers : /\ mpmcAt'[p] = mpmcAt[p] /\ Cell(p)' = Cell(p)
                               /\ InCell(p)' = InCell(p) /\ Sending(p)' = Sending(p)
    BY <1>0, OthersStay
<1>3. Owners'
    BY <1>0, <1>1, <1>2, OthersStay DEF MpmcInv, Owners
<1>4. TestStillHolds'
    BY <1>0, <1>1, <1>2, OthersStay DEF MpmcInv, TestStillHolds
<1>5. Contents'
    BY <1>1, <1>2 DEF MpmcInv, Contents
<1>6. Dequeued'
  <2>1. \A k \in 1 .. Len(taken) : taken[k][1] \in Nat /\ taken[k][1] < dequeue_pos
    <3>1. taken \in Seq(Nat \X (MpmcItem \cup {NoItem}))
      BY DEF MpmcInv, MpmcTypes
    <3> QED
      BY <3>1 DEF MpmcInv, Dequeued
  <2>2. ASSUME NEW d \in MpmcConsumers, mpmcAt'[d] = "read"
        PROVE  \A k \in 1 .. Len(taken') : taken'[k][1] # mpmcPos'[d]
    BY <1>0, <1>1, <2>1, <2>2, OthersStay DEF MpmcInv, Dequeued
  <2>3. \A k \in 1 .. Len(taken') : taken'[k][1] < dequeue_pos'
    BY <1>0, <1>1, <2>1
  <2> QED
    BY <1>1, <2>2, <2>3 DEF MpmcInv, Dequeued
<1> QED
    BY <1>3, <1>4, <1>5, <1>6 DEF MpmcInv

(***************************************************************************)
(* The producer's write into its cell: the cell is not a published one,    *)
(* and no other producer is in it.                                         *)
(***************************************************************************)
LEMMA EnqWriteStep ==
  ASSUME MpmcInv, MpmcTypes', NEW p \in MpmcProducers, OnlyMoves(p), EnqWrite(p)
  PROVE  MpmcInv'
<1>0. /\ MpmcProducers \subseteq MpmcThreads /\ MpmcConsumers \subseteq MpmcThreads
      /\ p \in MpmcThreads /\ \A c \in MpmcConsumers : c # p
      /\ mpmcAt \in [MpmcThreads -> ProducerPc \cup ConsumerPc]
      /\ data \in [Cells -> MpmcItem \cup {NoItem}]
    BY MpmcAssumption DEF MpmcThreads, MpmcInv, MpmcTypes
<1>1. /\ mpmcPos[p] \in Nat /\ Cell(p) \in Cells
      /\ \A n \in Nat : n % MpmcCapacity \in Cells
      /\ \A m, n \in Nat : m % MpmcCapacity = n % MpmcCapacity => m # n + 1
    BY <1>0, CellFacts DEF MpmcInv
<1>2. /\ mpmcAt'[p] = "publish" /\ mpmcPos' = mpmcPos /\ sent' = sent /\ InCell(p) /\ InCell(p)'
      /\ Cell(p)' = Cell(p) /\ Sending(p)' = Sending(p)
      /\ data' = [data EXCEPT ![Cell(p)] = Sending(p)]
      /\ UNCHANGED <<enqueue_pos, dequeue_pos, sequence, claimed, taken>>
    BY <1>0 DEF EnqWrite, MpmcGoto, InCell, Cell, Sending
<1>3. ASSUME NEW u \in MpmcThreads
      PROVE  /\ InCell(u)' = InCell(u) /\ Cell(u)' = Cell(u)
             /\ u \in MpmcProducers => Sending(u)' = Sending(u)
  <2>1. CASE u = p
    <3>1. InCell(p)' = InCell(p)
      BY <1>2 DEF InCell
    <3> QED
      BY <1>2, <2>1, <3>1, Zenon
  <2>2. CASE u # p
    BY <1>0, <2>2, OthersStay, Zenon
  <2> QED
    BY <2>1, <2>2
<1>4. Owners'
    BY <1>0, <1>2, <1>3 DEF MpmcInv, Owners
<1>5. TestStillHolds'
    BY <1>0, <1>2, OthersStay DEF MpmcInv, TestStillHolds
<1>6. Contents'
  <2>1. ASSUME NEW q \in MpmcProducers, InCell(q)' PROVE claimed'[mpmcPos'[q] + 1] = Sending(q)'
    BY <1>0, <1>2, <1>3, <2>1 DEF MpmcInv, Contents
  <2>2. ASSUME NEW q \in MpmcProducers, mpmcAt'[q] = "publish" PROVE data'[Cell(q)'] = Sending(q)'
    <3>1. CASE q = p
      BY <1>0, <1>1, <1>2, <3>1
    <3>2. CASE q # p
      <4>1. mpmcAt[q] = "publish" /\ InCell(q) /\ Cell(q)' = Cell(q) /\ Sending(q)' = Sending(q)
        BY <1>0, <2>2, <3>2, OthersStay DEF InCell
      <4>2. Cell(q) # Cell(p)
        BY <1>0, <1>2, <3>2, <4>1, OwnersExclude DEF MpmcInv, CellsExclusive
      <4>3. data[Cell(q)] = Sending(q) /\ Cell(q) \in Cells
        BY <1>0, <4>1, CellFacts DEF MpmcInv, Contents
      <4> QED
        BY <1>0, <1>2, <4>1, <4>2, <4>3
    <3> QED
      BY <3>1, <3>2
  <2>3. ASSUME NEW n \in Nat, sequence[n % MpmcCapacity] = n + 1
        PROVE  n < enqueue_pos /\ data'[n % MpmcCapacity] = claimed[n + 1]
    <3>1. n < enqueue_pos /\ data[n % MpmcCapacity] = claimed[n + 1]
      BY <2>3 DEF MpmcInv, Contents
    <3>2. n % MpmcCapacity # Cell(p)
      <4>1. sequence[Cell(p)] = mpmcPos[p]
        BY <1>2 DEF MpmcInv, Owners
      <4> QED
        BY <1>1, <2>3, <4>1 DEF Cell
    <3> QED
      BY <1>0, <1>1, <1>2, <3>1, <3>2
  <2> QED
    BY <1>2, <2>1, <2>2, <2>3 DEF MpmcInv, Contents
<1>7. Dequeued'
  <2>1. \A c \in MpmcConsumers : mpmcAt'[c] = mpmcAt[c]
    BY <1>0, OthersStay
  <2> QED
    BY <1>2, <2>1 DEF MpmcInv, Dequeued
<1> QED
    BY <1>4, <1>5, <1>6, <1>7 DEF MpmcInv

(***************************************************************************)
(* Publishing and releasing: a thread leaves its cell with a new sequence  *)
(* number.  Nobody else is in that cell, and who has tested it for another *)
(* turn has seen an older number.                                          *)
(***************************************************************************)
LEMMA LeaveStep ==
  ASSUME MpmcInv, MpmcTypes', NEW t \in MpmcThreads, OnlyMoves(t), InCell(t), mpmcAt'[t] = "idle",
         NEW n, sequence' = [sequence EXCEPT ![Cell(t)] = n],
         UNCHANGED <<enqueue_pos, dequeue_pos, data, mpmcPos, sent, claimed, taken>>,
         \A k \in Nat : k % MpmcCapacity = Cell(t) /\ n = k + 1 =>
                         k < enqueue_pos /\ data[Cell(t)] = claimed[k + 1]
  PROVE  MpmcInv'
<1>0. /\ MpmcProducers \subseteq MpmcThreads /\ MpmcConsumers \subseteq MpmcThreads
      /\ sequence \in [Cells -> Nat]
    BY DEF MpmcThreads, MpmcInv, MpmcTypes
<1>1. /\ \A u \in MpmcThreads : mpmcPos[u] \in Nat /\ Cell(u) \in Cells
      /\ \A k \in Nat : k % MpmcCapacity \in Cells
      /\ \A k, m \in Nat : m % MpmcCapacity = k % MpmcCapacity => m # k + 1
    BY CellFacts DEF MpmcInv
<1>2. \A u \in MpmcThreads : Cell(u)' = Cell(u)
    BY DEF Cell
<1>3. ASSUME NEW u \in MpmcThreads, InCell(u)'
      PROVE  u # t /\ InCell(u) /\ mpmcAt'[u] = mpmcAt[u] /\ sequence'[Cell(u)] = sequence[Cell(u)]
  <2>1. u # t /\ InCell(u) /\ mpmcAt'[u] = mpmcAt[u]
    BY <1>3, OthersStay DEF InCell
  <2>2. Cell(u) # Cell(t)
    BY <2>1, OwnersExclude DEF MpmcInv, CellsExclusive
  <2> QED
    BY <1>0, <1>1, <2>1, <2>2
<1>4. Owners'
    BY <1>0, <1>2, <1>3 DEF MpmcInv, Owners
<1>5. TestStillHolds'
  <2>1. ASSUME NEW u \in MpmcThreads, mpmcAt'[u] = "cas" PROVE u # t /\ mpmcAt[u] = "cas"
    BY <2>1, OthersStay
  <2>2. ASSUME NEW u \in MpmcThreads, Cell(u) # Cell(t)
        PROVE  sequence'[Cell(u)'] = sequence[Cell(u)]
    BY <1>0, <1>1, <1>2, <2>2
  <2>3. ASSUME NEW p \in MpmcProducers, mpmcAt[p] = "cas", Cell(p) = Cell(t)
        PROVE  enqueue_pos > mpmcPos[p]
    <3>1. sequence[Cell(p)] = mpmcPos[p] \/ enqueue_pos > mpmcPos[p]
      BY <2>3 DEF MpmcInv, TestStillHolds
    <3>2. CASE t \in MpmcProducers
      BY <2>3, <3>1, <3>2 DEF MpmcInv, Owners, MpmcTypes
    <3>3. CASE t \in MpmcConsumers
      <4>1. sequence[Cell(p)] = mpmcPos[t] + 1
        BY <2>3, <3>3 DEF MpmcInv, Owners
      <4>2. mpmcPos[p] # mpmcPos[t] + 1
        BY <1>0, <1>1, <2>3 DEF Cell
      <4> QED
        BY <3>1, <4>1, <4>2
    <3> QED
      BY <3>2, <3>3 DEF MpmcThreads
  <2>4. ASSUME NEW c \in MpmcConsumers, mpmcAt[c] = "cas", Cell(c) = Cell(t)
        PROVE  dequeue_pos > mpmcPos[c]
    <3>1. sequence[Cell(c)] = mpmcPos[c] + 1 \/ dequeue_pos > mpmcPos[c]
      BY <2>4 DEF MpmcInv, TestStillHolds
    <3>2. CASE t \in MpmcConsumers
      <4>1. sequence[Cell(c)] = mpmcPos[t] + 1 /\ mpmcPos[t] < dequeue_pos
        BY <2>4, <3>2 DEF MpmcInv, Owners
      <4>2. mpmcPos[c] \in Nat /\ mpmcPos[t] \in Nat /\ dequeue_pos \in Nat
        BY <1>0, <1>1 DEF MpmcInv, MpmcTypes
      <4> QED
        BY <3>1, <4>1, <4>2
    <3>3. CASE t \in MpmcProducers
      <4>1. sequence[Cell(c)] = mpmcPos[t]
        BY <2>4, <3>3 DEF MpmcInv, Owners
      <4>2. mpmcPos[t] # mpmcPos[c] + 1
        BY <1>0, <1>1, <2>4 DEF Cell
      <4> QED
        BY <3>1, <4>1, <4>2
    <3> QED
      BY <3>2, <3>3 DEF MpmcThreads
  <2> QED
    BY <1>0, <2>1, <2>2, <2>3, <2>4 DEF MpmcInv, TestStillHolds
<1>6. Contents'
  <2>1. ASSUME NEW q \in MpmcProducers, InCell(q)' PROVE claimed'[mpmcPos'[q] + 1] = Sending(q)'
    BY <1>0, <1>3, <2>1 DEF MpmcInv, Contents, Sending
  <2>2. ASSUME NEW q \in MpmcProducers, mpmcAt'[q] = "publish" PROVE data'[Cell(q)'] = Sending(q)'
    <3>1. InCell(q)'
      BY <2>2 DEF InCell
    <3> QED
      BY <1>0, <1>2, <1>3, <2>2, <3>1 DEF MpmcInv, Contents, Sending
  <2>3. ASSUME NEW k \in Nat, sequence'[k % MpmcCapacity] = k + 1
        PROVE  k < enqueue_pos /\ data[k % MpmcCapacity] = claimed[k + 1]
    <3>1. CASE k % MpmcCapacity = Cell(t)
      BY <1>0, <1>1, <2>3, <3>1
    <3>2. CASE k % MpmcCapacity # Cell(t)
      <4>1. sequence[k % MpmcCapacity] = k + 1
        BY <1>0, <1>1, <2>3, <3>2
      <4> QED
        BY <4>1 DEF MpmcInv, Contents
    <3> QED
      BY <3>1, <3>2
  <2> QED
    BY <2>1, <2>2, <2>3 DEF MpmcInv, Contents
<1>7. Dequeued'
  <2>1. ASSUME NEW c \in MpmcConsumers, mpmcAt'[c] = "read" PROVE mpmcAt[c] = "read"
    BY <1>0, <2>1, OthersStay
  <2> QED
    BY <2>1 DEF MpmcInv, Dequeued
<1> QED
    BY <1>4, <1>5, <1>6, <1>7 DEF MpmcInv

(***************************************************************************)
(* The consumer's read: the item of its own position, which nobody else    *)
(* has dequeued.                                                           *)
(***************************************************************************)
LEMMA DeqReadStep ==
  ASSUME MpmcInv, MpmcTypes', NEW c \in MpmcConsumers, OnlyMoves(c), DeqRead(c)
  PROVE  MpmcInv'
<1>0. /\ MpmcProducers \subseteq MpmcThreads /\ MpmcConsumers \subseteq MpmcThreads
      /\ c \in MpmcThreads /\ \A p \in MpmcProducers : c # p
      /\ mpmcAt \in [MpmcThreads -> ProducerPc \cup ConsumerPc]
      /\ taken \in Seq(Nat \X (MpmcItem \cup {NoItem}))
      /\ data \in [Cells -> MpmcItem \cup {NoItem}]
      /\ mpmcPos[c] \in Nat /\ Cell(c) \in Cells
    BY MpmcAssumption, CellFacts DEF MpmcThreads, MpmcInv, MpmcTypes
<1>1. /\ mpmcAt[c] = "read" /\ mpmcAt'[c] = "release" /\ InCell(c) /\ InCell(c)'
      /\ mpmcPos' = mpmcPos /\ sent' = sent /\ taken' = Append(taken, <<mpmcPos[c], data[Cell(c)]>>)
      /\ UNCHANGED <<enqueue_pos, dequeue_pos, sequence, data, claimed>>
    BY <1>0 DEF DeqRead, cellsUnchanged, MpmcGoto, InCell
<1>2. ASSUME NEW u \in MpmcThreads
      PROVE  /\ InCell(u)' = InCell(u) /\ Cell(u)' = Cell(u)
             /\ u \in MpmcProducers => Sending(u)' = Sending(u)
  <2>1. CASE u = c
    <3>1. InCell(c)' = InCell(c)
      BY <1>1 DEF InCell
    <3>2. Cell(c)' = Cell(c)
      BY <1>1 DEF Cell
    <3> QED
      BY <1>0, <2>1, <3>1, <3>2, Zenon
  <2>2. CASE u # c
    BY <1>0, <2>2, OthersStay, Zenon
  <2> QED
    BY <2>1, <2>2
<1>3. Owners'
    BY <1>0, <1>1, <1>2 DEF MpmcInv, Owners
<1>4. TestStillHolds'
    BY <1>0, <1>1, <1>2, OthersStay DEF MpmcInv, TestStillHolds
<1>5. Contents'
  <2>1. \A p \in MpmcProducers : mpmcAt'[p] = mpmcAt[p]
    BY <1>0, OthersStay
  <2> QED
    BY <1>0, <1>1, <1>2, <2>1 DEF MpmcInv, Contents
<1>6. /\ mpmcPos[c] < dequeue_pos /\ mpmcPos[c] < enqueue_pos
      /\ data[Cell(c)] = claimed[mpmcPos[c] + 1]
  <2>1. sequence[mpmcPos[c] % MpmcCapacity] = mpmcPos[c] + 1 /\ mpmcPos[c] < dequeue_pos
    BY <1>1 DEF MpmcInv, Owners, Cell
  <2> QED
    BY <1>0, <2>1 DEF MpmcInv, Contents, Cell
<1>7. /\ Len(taken) \in Nat /\ Len(taken') = Len(taken) + 1
      /\ taken'[Len(taken) + 1] = <<mpmcPos[c], data[Cell(c)]>>
      /\ \A k \in 1 .. Len(taken) : taken'[k] = taken[k]
    BY <1>0, <1>1
<1>8. \A k \in 1 .. Len(taken) : taken[k][1] # mpmcPos[c]
    BY <1>1 DEF MpmcInv, Dequeued
<1>9. Dequeued'
  <2>1. ASSUME NEW k \in 1 .. Len(taken')
        PROVE  /\ taken'[k][1] < dequeue_pos /\ taken'[k][1] < enqueue_pos
               /\ taken'[k][2] = claimed[taken'[k][1] + 1]
    <3>1. CASE k = Len(taken) + 1
      BY <1>6, <1>7, <3>1
    <3>2. CASE k \in 1 .. Len(taken)
      BY <1>7, <3>2 DEF MpmcInv, Dequeued
    <3> QED
      BY <1>7, <3>1, <3>2
  <2>2. ASSUME NEW j \in 1 .. Len(taken'), NEW k \in 1 .. Len(taken'), j # k
        PROVE  taken'[j][1] # taken'[k][1]
    <3>1. CASE j \in 1 .. Len(taken) /\ k \in 1 .. Len(taken)
      BY <1>7, <2>2, <3>1 DEF MpmcInv, Dequeued
    <3>2. CASE j = Len(taken) + 1 /\ k \in 1 .. Len(taken)
      BY <1>7, <1>8, <3>2
    <3>3. CASE k = Len(taken) + 1 /\ j \in 1 .. Len(taken)
      BY <1>7, <1>8, <3>3
    <3> QED
      BY <1>7, <2>2, <3>1, <3>2, <3>3
  <2>3. ASSUME NEW d \in MpmcConsumers, mpmcAt'[d] = "read", NEW k \in 1 .. Len(taken')
        PROVE  taken'[k][1] # mpmcPos'[d]
    <3>1. d # c /\ mpmcAt[d] = "read" /\ InCell(d)
      BY <1>0, <1>1, <2>3, OthersStay DEF InCell
    <3>2. CASE k = Len(taken) + 1
      BY <1>1, <1>7, <3>1, <3>2 DEF MpmcInv, Owners
    <3>3. CASE k \in 1 .. Len(taken)
      BY <1>1, <1>7, <3>1, <3>3 DEF MpmcInv, Dequeued
    <3> QED
      BY <1>7, <3>2, <3>3
  <2> QED
    BY <1>1, <2>1, <2>2, <2>3 DEF Dequeued
<1> QED
    BY <1>3, <1>4, <1>5, <1>9 DEF MpmcInv

-----------------------------------------------------------------------------

(***************************************************************************)
(* The inductive invariant holds in every reachable state of the queue.    *)
(***************************************************************************)
THEOREM MpmcInvariance == MpmcSpec => []MpmcInv
<1>1. MpmcStart => MpmcInv
  <2> SUFFICES ASSUME MpmcStart PROVE MpmcInv
    OBVIOUS
  <2>0. MpmcCapacity \in Nat \ {0, 1} /\ MpmcItems \in Nat /\ 0 \in 0 .. MpmcItems
    BY MpmcAssumption
  <2>1. MpmcTypes
    <3>1. sequence \in [Cells -> Nat] /\ data \in [Cells -> MpmcItem \cup {NoItem}]
      BY <2>0 DEF MpmcStart, Cells
    <3>2. /\ mpmcAt \in [MpmcThreads -> ProducerPc \cup ConsumerPc]
          /\ \A t \in MpmcThreads : mpmcAt[t] = "idle"
          /\ mpmcPos \in [MpmcThreads -> Nat] /\ sent \in [MpmcProducers -> 0 .. MpmcItems]
      BY <2>0 DEF MpmcStart, ProducerPc
    <3>3. claimed \in Seq(MpmcItem) /\ taken \in Seq(Nat \X (MpmcItem \cup {NoItem}))
      BY DEF MpmcStart
    <3>4. /\ \A p \in MpmcProducers : mpmcAt[p] = "idle" /\ mpmcAt[p] \in ProducerPc
          /\ \A c \in MpmcConsumers : mpmcAt[c] \in ConsumerPc
      BY <3>2 DEF MpmcThreads, ProducerPc, ConsumerPc
    <3> QED
      BY <3>1, <3>2, <3>3, <3>4 DEF MpmcStart, MpmcTypes
  <2>2. Owners /\ TestStillHolds
    BY DEF MpmcStart, Owners, TestStillHolds, InCell, MpmcThreads
  <2>3. Contents
    <3>1. ASSUME NEW n \in Nat PROVE sequence[n % MpmcCapacity] # n + 1
      <4>1. n % MpmcCapacity \in Cells
        BY <2>1, CellFacts
      <4>2. sequence[n % MpmcCapacity] = n % MpmcCapacity
        BY <4>1 DEF MpmcStart
      <4>3. n % MpmcCapacity # n + 1
        <5>1. n % MpmcCapacity <= n
          <6>1. /\ n \div MpmcCapacity \in Nat /\ n % MpmcCapacity \in 0 .. MpmcCapacity - 1
                /\ n - MpmcCapacity * (n \div MpmcCapacity) = n % MpmcCapacity
            BY <2>0, Division
          <6>2. MpmcCapacity * (n \div MpmcCapacity) \in Nat
            BY <2>0, <6>1
          <6> QED
            BY <6>1, <6>2
        <5> QED
          BY <2>0, <4>1, <5>1 DEF Cells
      <4> QED
        BY <4>2, <4>3
    <3> QED
      BY <3>1 DEF MpmcStart, Contents, InCell, MpmcThreads
  <2>4. Dequeued
    BY DEF MpmcStart, Dequeued, MpmcThreads
  <2> QED
    BY <2>1, <2>2, <2>3, <2>4 DEF MpmcInv
<1>2. MpmcInv /\ [MpmcNext]_mpmcVars => MpmcInv'
  <2> SUFFICES ASSUME MpmcInv, [MpmcNext]_mpmcVars PROVE MpmcInv'
    OBVIOUS
  <2>1. ASSUME NEW p \in MpmcProducers, PStep(p) PROVE MpmcInv'
    <3>0. /\ MpmcTypes' /\ OnlyMoves(p) /\ p \in MpmcThreads
          /\ mpmcAt \in [MpmcThreads -> ProducerPc \cup ConsumerPc]
      BY <2>1, ProducerTypes DEF MpmcInv, MpmcTypes, MpmcThreads
    <3>1. CASE EnqClaim(p)
      BY <3>0, <3>1, EnqClaimStep
    <3>2. CASE EnqWrite(p)
      BY <3>0, <3>2, EnqWriteStep
    <3>3. CASE EnqPublish(p)
      <4>1. /\ InCell(p) /\ mpmcAt[p] = "publish" /\ mpmcAt'[p] = "idle"
            /\ sequence' = [sequence EXCEPT ![Cell(p)] = mpmcPos[p] + 1]
            /\ UNCHANGED <<enqueue_pos, dequeue_pos, data, mpmcPos, sent, claimed, taken>>
        BY <3>0, <3>3 DEF EnqPublish, MpmcGoto, InCell
      <4>2. /\ mpmcPos[p] \in Nat /\ mpmcPos[p] < enqueue_pos
            /\ data[Cell(p)] = claimed[mpmcPos[p] + 1]
        BY <3>0, <4>1 DEF MpmcInv, MpmcTypes, Owners, Contents
      <4>3. \A k \in Nat : k % MpmcCapacity = Cell(p) /\ mpmcPos[p] + 1 = k + 1 =>
                            k < enqueue_pos /\ data[Cell(p)] = claimed[k + 1]
        BY <4>2
      <4> QED
        BY <3>0, <4>1, <4>3, LeaveStep
    <3>4. CASE EnqTest(p)
      <4>1. /\ UNCHANGED <<enqueue_pos, dequeue_pos, sequence, data, mpmcPos, claimed, taken>>
            /\ mpmcAt'[p] \in {"cas", "full", "load"}
            /\ mpmcAt'[p] = "cas" => sequence[Cell(p)] - mpmcPos[p] = 0
        BY <3>0, <3>4 DEF EnqTest, cellsUnchanged, MpmcGoto
      <4>2. ~InCell(p)' /\ Cell(p)' = Cell(p)
        BY <4>1 DEF InCell, Cell
      <4>3. sequence[Cell(p)] \in Nat /\ mpmcPos[p] \in Nat
        BY <3>0, CellFacts DEF MpmcInv, MpmcTypes
      <4>4. mpmcAt'[p] = "cas" => sequence[Cell(p)'] = mpmcPos'[p]
        BY <4>1, <4>2, <4>3
      <4> QED
        BY <3>0, <4>1, <4>2, <4>4, LocalStep
    <3>5. CASE EnqCall(p) \/ EnqFull(p) \/ EnqLoad(p) \/ EnqClaimFails(p)
      <4>1. /\ UNCHANGED <<enqueue_pos, dequeue_pos, sequence, data, claimed, taken>>
            /\ mpmcAt'[p] \in {"test", "idle"}
        BY <3>0, <3>5 DEF EnqCall, EnqFull, EnqLoad, EnqClaimFails, cellsUnchanged, MpmcGoto
      <4>2. ~InCell(p)' /\ mpmcAt'[p] # "cas"
        BY <4>1 DEF InCell
      <4> QED
        BY <3>0, <4>1, <4>2, LocalStep
    <3> QED
      BY <2>1, <3>1, <3>2, <3>3, <3>4, <3>5 DEF PStep, EnqStep
  <2>2. ASSUME NEW c \in MpmcConsumers, CStep(c) PROVE MpmcInv'
    <3>0. /\ MpmcTypes' /\ OnlyMoves(c) /\ c \in MpmcThreads /\ c \notin MpmcProducers
          /\ mpmcAt \in [MpmcThreads -> ProducerPc \cup ConsumerPc]
      BY <2>2, ConsumerTypes, MpmcAssumption DEF MpmcInv, MpmcTypes, MpmcThreads
    <3>1. CASE DeqClaim(c)
      BY <3>0, <3>1, DeqClaimStep
    <3>2. CASE DeqRead(c)
      BY <3>0, <3>2, DeqReadStep
    <3>3. CASE DeqRelease(c)
      <4>1. /\ InCell(c) /\ mpmcAt'[c] = "idle"
            /\ sequence' = [sequence EXCEPT ![Cell(c)] = mpmcPos[c] + MpmcCapacity]
            /\ UNCHANGED <<enqueue_pos, dequeue_pos, data, mpmcPos, sent, claimed, taken>>
        BY <3>0, <3>3 DEF DeqRelease, MpmcGoto, InCell
      <4>2. ASSUME NEW k \in Nat, k % MpmcCapacity = Cell(c)
            PROVE  mpmcPos[c] + MpmcCapacity # k + 1
        <5>1. mpmcPos[c] \in Nat /\ MpmcCapacity \in Nat \ {0}
          BY <3>0, CellFacts DEF MpmcInv
        <5>2. (mpmcPos[c] + MpmcCapacity) % MpmcCapacity = k % MpmcCapacity
          BY <4>2, <5>1, ModPlus DEF Cell
        <5>3. mpmcPos[c] + MpmcCapacity \in Nat
          BY <5>1
        <5> QED
          BY <5>2, <5>3, CellFacts DEF MpmcInv
      <4>3. \A k \in Nat : k % MpmcCapacity = Cell(c) /\ mpmcPos[c] + MpmcCapacity = k + 1 =>
                            k < enqueue_pos /\ data[Cell(c)] = claimed[k + 1]
        BY <4>2
      <4> QED
        BY <3>0, <4>1, <4>3, LeaveStep
    <3>4. CASE DeqTest(c)
      <4>1. /\ UNCHANGED <<enqueue_pos, dequeue_pos, sequence, data, mpmcPos, claimed, taken>>
            /\ mpmcAt'[c] \in {"cas", "empty", "load"}
            /\ mpmcAt'[c] = "cas" => sequence[Cell(c)] - (mpmcPos[c] + 1) = 0
        BY <3>0, <3>4 DEF DeqTest, cellsUnchanged, MpmcGoto
      <4>2. ~InCell(c)' /\ Cell(c)' = Cell(c)
        BY <4>1 DEF InCell, Cell
      <4>3. sequence[Cell(c)] \in Nat /\ mpmcPos[c] \in Nat
        BY <3>0, CellFacts DEF MpmcInv, MpmcTypes
      <4>4. mpmcAt'[c] = "cas" => sequence[Cell(c)'] = mpmcPos'[c] + 1
        BY <4>1, <4>2, <4>3
      <4> QED
        BY <3>0, <4>1, <4>2, <4>4, LocalStep
    <3>5. CASE DeqCall(c) \/ DeqEmpty(c) \/ DeqLoad(c) \/ DeqClaimFails(c)
      <4>1. /\ UNCHANGED <<enqueue_pos, dequeue_pos, sequence, data, claimed, taken>>
            /\ mpmcAt'[c] \in {"test", "idle"}
        BY <3>0, <3>5 DEF DeqCall, DeqEmpty, DeqLoad, DeqClaimFails, cellsUnchanged, MpmcGoto
      <4>2. ~InCell(c)' /\ mpmcAt'[c] # "cas"
        BY <4>1 DEF InCell
      <4> QED
        BY <3>0, <4>1, <4>2, LocalStep
    <3> QED
      BY <2>2, <3>1, <3>2, <3>3, <3>4, <3>5 DEF CStep, DeqStep
  <2>3. CASE UNCHANGED mpmcVars
    BY <2>3 DEF mpmcVars, MpmcInv, MpmcTypes, Owners, TestStillHolds, Contents, Dequeued, InCell,
                Cell, Sending
  <2> QED
    BY <2>1, <2>2, <2>3 DEF MpmcNext, PStep, CStep
<1> QED
    BY <1>1, <1>2, PTL DEF MpmcSpec

(***************************************************************************)
(* No two threads are ever in the same cell, whose data is not atomic; the *)
(* consumer of a position reads the item of the producer of the same       *)
(* position, and no position is dequeued twice.                            *)
(***************************************************************************)
THEOREM MpmcHandsOverOnce == MpmcSpec => []MpmcExact
<1>1. MpmcInv => CellsExclusive
    BY OwnersExclude DEF MpmcInv
<1>2. MpmcInv => ReadsItsItem
    BY DEF MpmcInv, Dequeued, ReadsItsItem
<1> QED
    BY <1>1, <1>2, MpmcInvariance, PTL DEF MpmcExact
=============================================================================
