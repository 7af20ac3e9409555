------------------------------ MODULE ProdCons ------------------------------
(***************************************************************************)
(* Producers and consumers (system_programming/producers_consumers): one   *)
(* item each, and rounds.                                                  *)
(***************************************************************************)
EXTENDS Naturals, Sequences, FiniteSets

-----------------------------------------------------------------------------
(***************************************************************************)
(* Producer and consumer threads that each move one item through a shared  *)
(* list or ring (system_programming/producers_consumers, ex2_1 to ex4).    *)
(* Where one mutex is held from the test to the end, that section is one   *)
(* step; ex3_2 has a mutex for each end of the ring and two semaphores.    *)
(* A System V semaphore outlives its program: it may hold a count that an  *)
(* earlier run left.                                                       *)
(***************************************************************************)

CONSTANTS PCThreads,    \* numbers 1 .. n: a producer and a consumer for each
          SemLeftovers  \* counts an earlier run may have left

FSQ_ELEMENTS == Cardinality(PCThreads)  \* the ring's capacity, too

VARIABLES exercise,
          pcProducer, pcConsumer,  \* where each thread is
          pcList,     \* the list of ex2, first node first
          fsq,        \* the ring: arr, write, read
          pcSem,      \* the System V semaphore, or sem_read of ex3_2
          semWrite,   \* sem_write of ex3_2
          nextItem,   \* the static variable i
          consumed,   \* history: what the consumers got, in order
          pcFault,    \* PopFront was called on an empty list
          semFresh    \* the semaphore is new, or the last run has ended well

pcVars == <<exercise, pcProducer, pcConsumer, pcList, fsq, pcSem, semWrite, nextItem,
            consumed, pcFault, semFresh>>

\* SemIdCreate sets a new semaphore only; ex2_2 starts it at 1.
SemIdCreate(ex) == IF ex = "ex2_2" THEN 1 ELSE 0

ProdConsStart ==
  /\ exercise \in {"ex2_1", "ex2_2", "ex3_1", "ex3_2", "ex4"}
  /\ pcProducer = [t \in PCThreads |-> "start"] /\ pcConsumer = [t \in PCThreads |-> "start"]
  /\ pcList = <<>> /\ nextItem = 1 /\ consumed = <<>> /\ pcFault = FALSE
  /\ fsq = [arr |-> [i \in 0 .. FSQ_ELEMENTS - 1 |-> 0], write |-> 0, read |-> 0]
  /\ semWrite = FSQ_ELEMENTS
  /\ \/ pcSem = SemIdCreate(exercise) /\ semFresh = TRUE
     \/ exercise \in {"ex2_2", "ex3_1", "ex4"} /\ pcSem \in SemLeftovers /\ semFresh = FALSE

Moved(i) == (i + 1) % FSQ_ELEMENTS

FsqEnq(q, data) == [q EXCEPT !.write = Moved(@), !.arr[Moved(q.write)] = data]
FsqDeq(q) == [q EXCEPT !.read = Moved(@)]
Dequeued(q) == q.arr[Moved(q.read)]

PGoto(t, at) == pcProducer' = [pcProducer EXCEPT ![t] = at]
CGoto(t, at) == pcConsumer' = [pcConsumer EXCEPT ![t] = at]

-----------------------------------------------------------------------------
(* ex2: a list; a consumer of ex2_1 tests the list itself, of ex2_2 the    *)
(* semaphore, and then PopFront reads through a null head of an empty list *)

PushFront == pcList' = <<nextItem>> \o pcList /\ nextItem' = nextItem + 1

PopFront == IF pcList = <<>>
            THEN pcFault' = TRUE /\ UNCHANGED <<pcList, consumed>>
            ELSE /\ pcList' = Tail(pcList) /\ consumed' = Append(consumed, Head(pcList))
                 /\ UNCHANGED pcFault

Producer21(t) ==
  /\ exercise = "ex2_1" /\ pcProducer[t] = "start" /\ PGoto(t, "done") /\ PushFront
  /\ UNCHANGED <<exercise, pcConsumer, pcSem, fsq, semWrite, consumed, pcFault, semFresh>>

Consumer21(t) ==
  /\ exercise = "ex2_1" /\ pcConsumer[t] = "start" /\ pcList # <<>> /\ CGoto(t, "done")
  /\ PopFront
  /\ UNCHANGED <<exercise, pcProducer, pcSem, fsq, semWrite, nextItem, semFresh>>

Producer22(t) ==
  /\ exercise = "ex2_2" /\ pcProducer[t] = "start" /\ PGoto(t, "done")
  /\ pcSem' = pcSem + 1 /\ PushFront
  /\ UNCHANGED <<exercise, pcConsumer, fsq, semWrite, consumed, pcFault, semFresh>>

Consumer22(t) ==
  /\ exercise = "ex2_2" /\ pcConsumer[t] = "start" /\ pcSem # 0 /\ CGoto(t, "done")
  /\ pcSem' = pcSem - 1 /\ PopFront
  /\ UNCHANGED <<exercise, pcProducer, fsq, semWrite, nextItem, semFresh>>

-----------------------------------------------------------------------------
(* ex3_1: a ring, the semaphore counts its items; one mutex *)

Enq31(t) ==
  /\ exercise = "ex3_1" /\ pcProducer[t] = "start" /\ PGoto(t, "done")
  /\ pcSem # FSQ_ELEMENTS /\ pcSem' = pcSem + 1
  /\ fsq' = FsqEnq(fsq, nextItem) /\ nextItem' = nextItem + 1
  /\ UNCHANGED <<exercise, pcConsumer, pcList, semWrite, consumed, pcFault, semFresh>>

Deq31(t) ==
  /\ exercise = "ex3_1" /\ pcConsumer[t] = "start" /\ CGoto(t, "done")
  /\ pcSem # 0 /\ pcSem' = pcSem - 1
  /\ fsq' = FsqDeq(fsq) /\ consumed' = Append(consumed, Dequeued(fsq))
  /\ UNCHANGED <<exercise, pcProducer, pcList, semWrite, nextItem, pcFault, semFresh>>

-----------------------------------------------------------------------------
(* ex3_2: sem_wait, the two statements of FsqEnq or FsqDeq under the mutex *)
(* of their end, sem_post after the mutex is given back                    *)

LockFree(at) == \A t \in PCThreads : at[t] # "locked"

Producer32(t) ==
  /\ exercise = "ex3_2"
  /\ \/ /\ pcProducer[t] = "start" /\ semWrite > 0 /\ PGoto(t, "lock")
        /\ semWrite' = semWrite - 1 /\ UNCHANGED <<fsq, pcSem, nextItem>>
     \/ /\ pcProducer[t] = "lock" /\ LockFree(pcProducer) /\ PGoto(t, "locked")
        /\ fsq' = [fsq EXCEPT !.write = Moved(@)] /\ UNCHANGED <<pcSem, semWrite, nextItem>>
     \/ /\ pcProducer[t] = "locked" /\ PGoto(t, "post")
        /\ fsq' = [fsq EXCEPT !.arr[fsq.write] = nextItem] /\ nextItem' = nextItem + 1
        /\ UNCHANGED <<pcSem, semWrite>>
     \/ /\ pcProducer[t] = "post" /\ PGoto(t, "done")
        /\ pcSem' = pcSem + 1 /\ UNCHANGED <<fsq, semWrite, nextItem>>
  /\ UNCHANGED <<exercise, pcConsumer, pcList, consumed, pcFault, semFresh>>

\* Mutant of Consumer32: the mutex of the reading end is left out.
Consumer32NoMutex(t) ==
  /\ exercise = "ex3_2"
  /\ \/ /\ pcConsumer[t] = "start" /\ pcSem > 0 /\ CGoto(t, "lock")
        /\ pcSem' = pcSem - 1 /\ UNCHANGED <<fsq, semWrite, consumed>>
     \/ /\ pcConsumer[t] = "lock" /\ CGoto(t, "locked")
        /\ fsq' = [fsq EXCEPT !.read = Moved(@)] /\ UNCHANGED <<pcSem, semWrite, consumed>>
     \/ /\ pcConsumer[t] = "locked" /\ CGoto(t, "post")
        /\ consumed' = Append(consumed, fsq.arr[fsq.read]) /\ UNCHANGED <<fsq, pcSem, semWrite>>
     \/ /\ pcConsumer[t] = "post" /\ CGoto(t, "done")
        /\ semWrite' = semWrite + 1 /\ UNCHANGED <<fsq, pcSem, consumed>>
  /\ UNCHANGED <<exercise, pcProducer, pcList, nextItem, pcFault, semFresh>>

Consumer32(t) ==
  /\ exercise = "ex3_2"
  /\ \/ /\ pcConsumer[t] = "start" /\ pcSem > 0 /\ CGoto(t, "lock")
        /\ pcSem' = pcSem - 1 /\ UNCHANGED <<fsq, semWrite, consumed>>
     \/ /\ pcConsumer[t] = "lock" /\ LockFree(pcConsumer) /\ CGoto(t, "locked")
        /\ fsq' = [fsq EXCEPT !.read = Moved(@)] /\ UNCHANGED <<pcSem, semWrite, consumed>>
     \/ /\ pcConsumer[t] = "locked" /\ CGoto(t, "post")
        /\ consumed' = Append(consumed, fsq.arr[fsq.read]) /\ UNCHANGED <<fsq, pcSem, semWrite>>
     \/ /\ pcConsumer[t] = "post" /\ CGoto(t, "done")
        /\ semWrite' = semWrite + 1 /\ UNCHANGED <<fsq, pcSem, consumed>>
  /\ UNCHANGED <<exercise, pcProducer, pcList, nextItem, pcFault, semFresh>>

-----------------------------------------------------------------------------
(* ex4: the item is announced before it is there; a full ring is to be     *)
(* overwritten, and a consumer that reads too large a count moves read and *)
(* sets the count: what was posted or taken in between is lost             *)

Mutex4Free == \A t \in PCThreads : pcConsumer[t] # "overrun"

Producer4(t) ==
  /\ exercise = "ex4"
  /\ \/ /\ pcProducer[t] = "start" /\ PGoto(t, "lock")
        /\ pcSem' = pcSem + 1 /\ UNCHANGED <<fsq, nextItem>>
     \/ /\ pcProducer[t] = "lock" /\ Mutex4Free /\ PGoto(t, "done")
        /\ fsq' = FsqEnq(fsq, nextItem) /\ nextItem' = nextItem + 1 /\ UNCHANGED pcSem
  /\ UNCHANGED <<exercise, pcConsumer, pcList, semWrite, consumed, pcFault, semFresh>>

Consumer4(t) ==
  /\ exercise = "ex4"
  /\ \/ /\ pcConsumer[t] = "start" /\ pcSem > 0 /\ CGoto(t, "lock")
        /\ pcSem' = pcSem - 1 /\ UNCHANGED <<fsq, consumed>>
     \/ /\ pcConsumer[t] = "lock" /\ Mutex4Free /\ pcSem > FSQ_ELEMENTS /\ CGoto(t, "overrun")
        /\ fsq' = [fsq EXCEPT !.read = Moved(fsq.write)] /\ UNCHANGED <<pcSem, consumed>>
     \/ /\ \/ pcConsumer[t] = "lock" /\ Mutex4Free /\ pcSem <= FSQ_ELEMENTS /\ UNCHANGED pcSem
           \/ pcConsumer[t] = "overrun" /\ pcSem' = FSQ_ELEMENTS
        /\ CGoto(t, "done") /\ fsq' = FsqDeq(fsq) /\ consumed' = Append(consumed, Dequeued(fsq))
  /\ UNCHANGED <<exercise, pcProducer, pcList, semWrite, nextItem, pcFault, semFresh>>

ProdConsNext ==
  /\ ~pcFault
  /\ \E t \in PCThreads : \/ Producer21(t) \/ Consumer21(t) \/ Producer22(t) \/ Consumer22(t)
                          \/ Enq31(t) \/ Deq31(t)
                          \/ Producer32(t) \/ Consumer32(t) \/ Producer4(t) \/ Consumer4(t)

-----------------------------------------------------------------------------

Produced(n) == 1 .. n

(***************************************************************************)
(* Items go through the list or the ring whole and once.  A consumer of    *)
(* ex2 gets an item that was pushed and that nobody else got; the rings of *)
(* ex3 give the items back in the order they were put in, even where the   *)
(* two ends of ex3_2 have a mutex each and the indices wrap.  (ex4 and a   *)
(* leftover count promise less: an item may be announced before it is      *)
(* stored, ex4.c:104-108.)                                                 *)
(***************************************************************************)
ItemsOnce ==
  /\ exercise \in {"ex2_1", "ex2_2"} =>
       /\ \A i \in 1 .. Len(consumed) : consumed[i] \in Produced(nextItem - 1)
       /\ \A i, j \in 1 .. Len(consumed) : consumed[i] = consumed[j] => i = j
  /\ exercise \in {"ex3_1", "ex3_2"} /\ semFresh =>
       \A i \in 1 .. Len(consumed) : consumed[i] = i

(***************************************************************************)
(* All threads end, also those of a run that finds another run's count in  *)
(* its semaphore, unless ex2_2 pops from its empty list (ex2_2.c:194: the  *)
(* count starts at 1).                                                     *)
(***************************************************************************)
ThreadsEnd ==
  \A t \in PCThreads : pcProducer[t] = "done" /\ pcConsumer[t] = "done"

-----------------------------------------------------------------------------
(***************************************************************************)
(* Two ways to hand something over in rounds                               *)
(* (system_programming/producers_consumers): ex1, an array and a flag two  *)
(* threads spin on, and ex5, a message to all consumers under a condition  *)
(* variable, with a semaphore that counts the consumers that are ready.    *)
(***************************************************************************)

CONSTANTS ARR_SIZE,      \* of ex1
          RoundsNum,     \* MAX_IDX of ex1, count of ex5
          RoundConsumers \* the consumers of ex5

-----------------------------------------------------------------------------
(* ex1 *)

VARIABLES handArr, handFlag,
          handProducer, handConsumer,  \* round, and index in the array
          handSum

handVars == <<handArr, handFlag, handProducer, handConsumer, handSum>>

HandStart == /\ handArr = [i \in 1 .. ARR_SIZE |-> 0] /\ handFlag = 0 /\ handSum = 0
             /\ handProducer = [round |-> 0, at |-> 0]
             /\ handConsumer = [round |-> 0, at |-> 0]

\* UpdateArr stores the number of the round in one element after the other;
\* at 0 the flag is tested, behind the last element it is set.
HandProduce ==
  LET p == handProducer IN
  /\ p.round < RoundsNum
  /\ \/ /\ p.at = 0 /\ handFlag = 0
        /\ handProducer' = [p EXCEPT !.at = 1] /\ UNCHANGED <<handArr, handFlag>>
     \/ /\ p.at \in 1 .. ARR_SIZE
        /\ handArr' = [handArr EXCEPT ![p.at] = p.round]
        /\ handProducer' = [p EXCEPT !.at = @ + 1] /\ UNCHANGED handFlag
     \/ /\ p.at = ARR_SIZE + 1
        /\ handFlag' = 1 /\ handProducer' = [round |-> p.round + 1, at |-> 0]
        /\ UNCHANGED handArr
  /\ UNCHANGED <<handConsumer, handSum>>

\* SumPrint adds the elements up.
HandConsume ==
  LET c == handConsumer IN
  /\ c.round < RoundsNum
  /\ \/ /\ c.at = 0 /\ handFlag = 1
        /\ handConsumer' = [c EXCEPT !.at = 1] /\ handSum' = 0 /\ UNCHANGED handFlag
     \/ /\ c.at \in 1 .. ARR_SIZE
        /\ handSum' = handSum + handArr[c.at]
        /\ handConsumer' = [c EXCEPT !.at = @ + 1] /\ UNCHANGED handFlag
     \/ /\ c.at = ARR_SIZE + 1
        /\ handFlag' = 0 /\ handConsumer' = [round |-> c.round + 1, at |-> 0]
        /\ UNCHANGED handSum
  /\ UNCHANGED <<handArr, handProducer>>

HandNext == HandProduce \/ HandConsume

-----------------------------------------------------------------------------
(* ex5 *)

VARIABLES message, barrierSem,
          barrierProducer,  \* rounds left, semaphores taken in this round
          barrierAt,        \* per consumer: "start", "waiting", "awake", "unlocked"
          barrierLeft,      \* per consumer: rounds left
          local_msg,        \* per consumer
          barrierGot        \* history: the messages each consumer printed

barrierVars == <<message, barrierSem, barrierProducer, barrierAt, barrierLeft, local_msg,
                 barrierGot>>

BarrierStart == /\ message = 0 /\ barrierSem = 0
                /\ barrierProducer = [left |-> RoundsNum, taken |-> 0]
                /\ barrierAt = [c \in RoundConsumers |-> "start"]
                /\ barrierLeft = [c \in RoundConsumers |-> RoundsNum]
                /\ local_msg = [c \in RoundConsumers |-> 0]
                /\ barrierGot = [c \in RoundConsumers |-> <<>>]

CONSUMERS_NUM == Cardinality(RoundConsumers)

\* Mutant of BarrierSemWait: one consumer less is waited for.
BarrierSemWaitShort ==
  /\ barrierProducer.left > 0 /\ barrierProducer.taken < CONSUMERS_NUM /\ barrierSem > 0
  /\ barrierSem' = barrierSem - 1
  /\ barrierProducer' = [barrierProducer EXCEPT !.taken =
                           IF @ + 2 >= CONSUMERS_NUM THEN CONSUMERS_NUM ELSE @ + 1]
  /\ UNCHANGED <<message, barrierAt, barrierLeft, local_msg, barrierGot>>

BarrierSemWait ==
  /\ barrierProducer.left > 0 /\ barrierProducer.taken < CONSUMERS_NUM /\ barrierSem > 0
  /\ barrierSem' = barrierSem - 1
  /\ barrierProducer' = [barrierProducer EXCEPT !.taken = @ + 1]
  /\ UNCHANGED <<message, barrierAt, barrierLeft, local_msg, barrierGot>>

\* Under the mutex, which a consumer holds only within its own steps.
BarrierSend ==
  /\ barrierProducer.left > 0 /\ barrierProducer.taken = CONSUMERS_NUM
  /\ message' = message + 1
  /\ barrierAt' = [c \in RoundConsumers |->
                     IF barrierAt[c] = "waiting" THEN "awake" ELSE barrierAt[c]]
  /\ barrierProducer' = [left |-> barrierProducer.left - 1, taken |-> 0]
  /\ UNCHANGED <<barrierSem, barrierLeft, local_msg, barrierGot>>

\* What a consumer does with the mutex when it tests the message: it waits,
\* or prints and unlocks.
TestMessage(c) ==
  IF local_msg[c] = message
  THEN barrierAt' = [barrierAt EXCEPT ![c] = "waiting"] /\ UNCHANGED barrierGot
  ELSE /\ barrierAt' = [barrierAt EXCEPT ![c] = "unlocked"]
       /\ barrierGot' = [barrierGot EXCEPT ![c] = Append(@, message)]

BarrierReady(c) ==
  /\ barrierAt[c] = "start" /\ barrierLeft[c] > 0
  /\ barrierLeft' = [barrierLeft EXCEPT ![c] = @ - 1]
  /\ barrierSem' = barrierSem + 1 /\ TestMessage(c)
  /\ UNCHANGED <<message, barrierProducer, local_msg>>

\* Woken by the broadcast, or for no reason.
BarrierWake(c) == /\ barrierAt[c] = "awake" /\ TestMessage(c)
                  /\ UNCHANGED <<message, barrierSem, barrierProducer, barrierLeft, local_msg>>

BarrierSpurious(c) ==
  /\ barrierAt[c] = "waiting" /\ barrierAt' = [barrierAt EXCEPT ![c] = "awake"]
  /\ UNCHANGED <<message, barrierSem, barrierProducer, barrierLeft, local_msg, barrierGot>>

\* local_msg is read from message when the mutex has been given back.
BarrierRemember(c) ==
  /\ barrierAt[c] = "unlocked" /\ barrierAt' = [barrierAt EXCEPT ![c] = "start"]
  /\ local_msg' = [local_msg EXCEPT ![c] = message]
  /\ UNCHANGED <<message, barrierSem, barrierProducer, barrierLeft, barrierGot>>

BarrierProducerStep == BarrierSemWait \/ BarrierSend
BarrierConsumerStep(c) == BarrierReady(c) \/ BarrierWake(c) \/ BarrierRemember(c)
BarrierNext == \/ BarrierProducerStep
               \/ \E c \in RoundConsumers : BarrierConsumerStep(c) \/ BarrierSpurious(c)

-----------------------------------------------------------------------------

(***************************************************************************)
(* The sum of ex1 is always that of one round, never of a half-written     *)
(* array; and in ex5 every consumer prints every message once and in       *)
(* order, although it reads message again after the mutex (ex5.c:54-55):   *)
(* the producer cannot send the next one before that consumer has posted.  *)
(***************************************************************************)
RoundsComplete ==
  /\ handConsumer.at = ARR_SIZE + 1 => handSum = ARR_SIZE * handConsumer.round
  /\ \A c \in RoundConsumers :
       /\ \A i \in 1 .. Len(barrierGot[c]) : barrierGot[c][i] = i
       /\ Len(barrierGot[c]) >= message - 1

RoundsEnd == \A c \in RoundConsumers : Len(barrierGot[c]) = RoundsNum
=============================================================================
