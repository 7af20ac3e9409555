--------------------------- MODULE CircularQueue ---------------------------
(***************************************************************************)
(* CircularQueue (prepare_for_interview/circle_q/circle_q.hpp), a bounded  *)
(* queue without locks for one producer thread and one consumer thread.    *)
(* A step is one atomic access or one access to the buffer; the            *)
(* acquire/release pairs on head and tail order the buffer accesses.       *)
(***************************************************************************)
EXTENDS Naturals, Sequences

CONSTANTS CqCapacity,  \* the template's parameter; one cell stays free
          CqItems      \* bound: items the producer enqueues

ASSUME CqCapacityAssumption == CqCapacity \in Nat \ {0}
ASSUME CqItemsAssumption == CqItems \in Nat

VARIABLES head, tail, buffer,
          producer,    \* the producer's step
          consumer,    \* the consumer's step
          cqSent,      \* history: the items enqueued, in order
          item,        \* the consumer's variable item
          cqReceived   \* history: the items dequeued, in order

cqVars == <<head, tail, buffer, producer, consumer, cqSent, item, cqReceived>>

CqIndex == 0 .. CqCapacity - 1
CqItem == 1 .. CqItems

\* (i + 1) % Capacity
Succ(i) == (i + 1) % CqCapacity
Unset == 0  \* what the buffer holds before the first write

CqInit == /\ head = 0 /\ tail = 0
          /\ buffer = [i \in CqIndex |-> Unset]
          /\ producer = "idle" /\ consumer = "idle"
          /\ cqSent = <<>> /\ item = Unset /\ cqReceived = <<>>

producerUnchanged == UNCHANGED <<head, consumer, item, cqReceived>>
consumerUnchanged == UNCHANGED <<tail, buffer, producer, cqSent>>

\* Mutant of CqEnqTest: the cell before head is not kept free.
CqEnqTestNoGap == /\ producer = "idle" /\ Len(cqSent) < CqItems
                  /\ producer' = "write"
                  /\ producerUnchanged /\ UNCHANGED <<tail, buffer, cqSent>>

\* enqueue: returns false, changing nothing, when the next cell is head's.
CqEnqTest == /\ producer = "idle" /\ Len(cqSent) < CqItems
             /\ Succ(tail) # head
             /\ producer' = "write"
             /\ producerUnchanged /\ UNCHANGED <<tail, buffer, cqSent>>

CqEnqWrite == /\ producer = "write"
              /\ buffer' = [buffer EXCEPT ![tail] = Len(cqSent) + 1]
              /\ producer' = "store"
              /\ producerUnchanged /\ UNCHANGED <<tail, cqSent>>

CqEnqStore == /\ producer = "store"
              /\ tail' = Succ(tail)
              /\ cqSent' = Append(cqSent, Len(cqSent) + 1)
              /\ producer' = "idle"
              /\ producerUnchanged /\ UNCHANGED buffer

\* Mutant of CqDeqTest: an empty queue is not noticed.
CqDeqTestNever == /\ consumer = "idle" /\ Len(cqReceived) < CqItems
                  /\ consumer' = "read"
                  /\ consumerUnchanged /\ UNCHANGED <<head, item, cqReceived>>

\* dequeue: returns false, changing nothing, when head has reached tail.
CqDeqTest == /\ consumer = "idle"
             /\ head # tail
             /\ consumer' = "read"
             /\ consumerUnchanged /\ UNCHANGED <<head, item, cqReceived>>

CqDeqRead == /\ consumer = "read"
             /\ item' = buffer[head]
             /\ consumer' = "store"
             /\ consumerUnchanged /\ UNCHANGED <<head, cqReceived>>

CqDeqStore == /\ consumer = "store"
              /\ head' = Succ(head)
              /\ cqReceived' = Append(cqReceived, item)
              /\ consumer' = "idle"
              /\ consumerUnchanged /\ UNCHANGED item

CqProducerStep == CqEnqTest \/ CqEnqWrite \/ CqEnqStore
CqConsumerStep == CqDeqTest \/ CqDeqRead \/ CqDeqStore

CqNext == CqProducerStep \/ CqConsumerStep

(* Both threads retry until they succeed, as the producer and consumer do. *)
CqSpec == /\ CqInit /\ [][CqNext]_cqVars
          /\ WF_cqVars(CqProducerStep) /\ WF_cqVars(CqConsumerStep)

-----------------------------------------------------------------------------

(* The indices, the buffer and the two threads are of their types. *)
CqTypeOK == /\ head \in CqIndex /\ tail \in CqIndex
            /\ buffer \in [CqIndex -> CqItem \cup {Unset}]
            /\ producer \in {"idle", "write", "store"}
            /\ consumer \in {"idle", "read", "store"}
            /\ cqSent \in Seq(CqItem) /\ cqReceived \in Seq(CqItem \cup {Unset})
            /\ item \in CqItem \cup {Unset}

(***************************************************************************)
(* The producer never writes the cell the consumer is reading: buffer is   *)
(* not atomic, and only head and tail keep the two threads apart.          *)
(***************************************************************************)
CellsDisjoint == ~(producer = "write" /\ consumer = "read" /\ head = tail)

(* enqueue and dequeue of the two threads are a first-in first-out queue. *)
CqFifo == INSTANCE FifoQueue WITH Item <- CqItem, sent <- cqSent, received <- cqReceived

CqImplementsFifo == CqFifo!FifoSpec

(* Every item comes through: the two threads never wait for each other. *)
AllReceived == <>(Len(cqReceived) = CqItems)
=============================================================================
