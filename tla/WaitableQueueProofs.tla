------------------------ MODULE WaitableQueueProofs ------------------------
(***************************************************************************)
(* For any finite sets of producers and consumers and any number of calls, *)
(* WaitableQueue loses no wakeup and implements a first-in first-out queue.*)
(***************************************************************************)
EXTENDS WaitableQueue, FiniteSetTheorems, TLAPS

(***************************************************************************)
(* A step keeps every variable within its type.                            *)
(***************************************************************************)
LEMMA TypeStep == TypeOK /\ [Next]_vars => TypeOK'
<1> SUFFICES ASSUME TypeOK, [Next]_vars PROVE TypeOK'
    OBVIOUS
<1> USE DEF TypeOK, PopState
<1>1. ASSUME NEW p \in Producers, Push(p) PROVE TypeOK'
  <2>1. pushes[p] + 1 \in 1 .. MaxPush
    BY <1>1, MaxPushAssumption DEF Push
  <2>2. <<p, pushes[p] + 1>> \in Item
    BY <2>1 DEF Item
  <2> QED
    BY <1>1, <2>1, <2>2, MaxPushAssumption DEF Push
<1>2. ASSUME NEW p \in Producers, NotifyOne(p) PROVE TypeOK'
    BY <1>2 DEF NotifyOne, Waiting, Wake
<1>3. ASSUME NEW c \in Consumers, NEW s \in {"wait", "timedwait"},
             TestAndTake(c, s), UNCHANGED <<pushing, pushes>>
      PROVE  TypeOK'
  <2>1. CASE m_queue = <<>>
    BY <1>3, <2>1 DEF TestAndTake
  <2>2. CASE m_queue # <<>>
    <3>1. Head(m_queue) \in Item /\ Tail(m_queue) \in Seq(Item)
      BY <2>2
    <3>2. m_queue' = Tail(m_queue) /\ popped' = Append(popped, Head(m_queue))
      BY <1>3, <2>2 DEF TestAndTake
    <3>3. popped' \in Seq(Item)
      BY <3>1, <3>2
    <3> QED
      BY <1>3, <2>2, <3>1, <3>2, <3>3 DEF TestAndTake
  <2> QED
    BY <2>1, <2>2
<1>4. ASSUME NEW c \in Consumers, ConsumerStep(c) PROVE TypeOK'
  <2>1. CASE Pop(c) \/ TimedPop(c)
    BY <2>1, <1>3 DEF Pop, TimedPop
  <2>2. CASE Resume(c)
    <3>1. WaitOf(popping[c]) \in {"wait", "timedwait"}
      BY DEF WaitOf
    <3> QED
      BY <2>2, <1>3, <3>1 DEF Resume
  <2>3. CASE SpuriousWakeup(c)
    BY <2>3 DEF SpuriousWakeup, Wake
  <2>4. CASE Expire(c)
    BY <2>4 DEF Expire
  <2>5. CASE ReturnFalse(c)
    BY <2>5 DEF ReturnFalse
  <2> QED
    BY <1>4, <2>1, <2>2, <2>3, <2>4, <2>5 DEF ConsumerStep
<1>5. CASE UNCHANGED vars
    BY <1>5 DEF vars
<1> QED
    BY <1>1, <1>2, <1>4, <1>5 DEF Next, ProducerStep

(***************************************************************************)
(* The state of the queue and of the calls in progress is always of its    *)
(* type.                                                                   *)
(***************************************************************************)
THEOREM TypeCorrect == Spec => []TypeOK
<1>1. Init => TypeOK
    BY MaxPushAssumption DEF Init, TypeOK, PopState
<1> QED
    BY <1>1, TypeStep, PTL DEF Spec

-----------------------------------------------------------------------------

(***************************************************************************)
(* The sets of threads that EnoughWakeups counts are finite.               *)
(***************************************************************************)
LEMMA CountedSetsFinite ==
  /\ IsFiniteSet(Notifying) /\ Cardinality(Notifying) \in Nat
  /\ IsFiniteSet(Woken)     /\ Cardinality(Woken) \in Nat
<1>1. Notifying \subseteq Producers /\ Woken \subseteq Consumers
    BY DEF Notifying, Woken
<1>2. IsFiniteSet(Notifying) /\ IsFiniteSet(Woken)
    BY <1>1, ThreadsAssumption, FS_Subset
<1> QED
    BY <1>2, FS_CardinalityType

(***************************************************************************)
(* A thread taken out of the wait set adds one to the woken threads.       *)
(***************************************************************************)
LEMMA WakeCounts ==
  ASSUME TypeOK, NEW c \in Waiting, Wake(c)
  PROVE  Waiting' \subseteq Waiting /\ Cardinality(Woken') = Cardinality(Woken) + 1
<1>1. Waiting' \subseteq Waiting /\ Woken' = Woken \cup {c} /\ c \notin Woken
    BY DEF TypeOK, Waiting, Woken, Wake
<1> QED
    BY <1>1, CountedSetsFinite, FS_AddElement

(***************************************************************************)
(* A step leaves enough wakeups under way.                                 *)
(***************************************************************************)
LEMMA WakeupsStep == TypeOK /\ EnoughWakeups /\ [Next]_vars => EnoughWakeups'
<1> SUFFICES ASSUME TypeOK, EnoughWakeups, [Next]_vars PROVE EnoughWakeups'
    OBVIOUS
<1> DEFINE N == Cardinality(Notifying)
           K == Cardinality(Woken)
<1>0. /\ N \in Nat /\ K \in Nat /\ Len(m_queue) \in Nat
      /\ Waiting # {} => Len(m_queue) <= N + K
    BY CountedSetsFinite DEF EnoughWakeups, TypeOK
<1>1. ASSUME NEW p \in Producers, Push(p) PROVE EnoughWakeups'
  <2>1. /\ Notifying' = Notifying \cup {p} /\ p \notin Notifying
        /\ Waiting' = Waiting /\ Woken' = Woken
    BY <1>1 DEF Push, TypeOK, Notifying, Waiting, Woken
  <2>2. Cardinality(Notifying') = N + 1
    BY <2>1, CountedSetsFinite, FS_AddElement
  <2>3. Len(m_queue') = Len(m_queue) + 1
    BY <1>1 DEF Push, TypeOK
  <2> QED
    BY <1>0, <2>1, <2>2, <2>3 DEF EnoughWakeups
<1>2. ASSUME NEW p \in Producers, NotifyOne(p) PROVE EnoughWakeups'
  <2>1. Notifying' = Notifying \ {p} /\ p \in Notifying /\ m_queue' = m_queue
    BY <1>2 DEF NotifyOne, TypeOK, Notifying
  <2>2. Cardinality(Notifying') = N - 1
    BY <2>1, CountedSetsFinite, FS_RemoveElement
  <2>3. CASE Waiting = {} /\ UNCHANGED popping
    <3>1. Waiting' = {} /\ Woken' = Woken
      BY <2>3 DEF Waiting, Woken
    <3> QED
      BY <3>1 DEF EnoughWakeups
  <2>4. ASSUME NEW c \in Waiting, Wake(c) PROVE EnoughWakeups'
    BY <1>0, <2>1, <2>2, <2>4, WakeCounts DEF EnoughWakeups
  <2> QED
    BY <1>2, <2>3, <2>4 DEF NotifyOne
<1>3. ASSUME NEW c \in Consumers, ConsumerStep(c) PROVE EnoughWakeups'
  <2>1. Notifying' = Notifying
    BY <1>3 DEF ConsumerStep, Pop, TimedPop, Resume, SpuriousWakeup, Expire,
                ReturnFalse, Notifying
  <2>2. ASSUME m_queue = <<>>, m_queue' = m_queue PROVE EnoughWakeups'
    <3>1. Len(m_queue') = 0
      BY <2>2
    <3>2. Cardinality(Woken') \in Nat
      <4>1. Woken' \subseteq Consumers
        BY DEF Woken
      <4> QED
        BY <4>1, ThreadsAssumption, FS_Subset, FS_CardinalityType
    <3> QED
      BY <1>0, <2>1, <3>1, <3>2 DEF EnoughWakeups
  <2>3. CASE Pop(c) \/ TimedPop(c)
    <3>1. CASE m_queue = <<>>
      BY <2>2, <2>3, <3>1 DEF Pop, TimedPop, TestAndTake
    <3>2. CASE m_queue # <<>>
      <4>1. Waiting' = Waiting /\ Woken' = Woken
        BY <2>3, <3>2 DEF Pop, TimedPop, TestAndTake, TypeOK, Waiting, Woken
      <4>2. Len(m_queue') <= Len(m_queue) /\ Len(m_queue') \in Nat
        BY <2>3, <3>2 DEF Pop, TimedPop, TestAndTake, TypeOK
      <4> QED
        BY <1>0, <2>1, <4>1, <4>2 DEF EnoughWakeups
    <3> QED
      BY <3>1, <3>2
  <2>4. CASE Resume(c)
    <3>1. CASE m_queue = <<>>
      BY <2>2, <2>4, <3>1 DEF Resume, TestAndTake
    <3>2. CASE m_queue # <<>>
      <4>1. Waiting' = Waiting /\ Woken' = Woken \ {c} /\ c \in Woken
        BY <2>4, <3>2 DEF Resume, TestAndTake, TypeOK, Waiting, Woken
      <4>2. Cardinality(Woken') = K - 1
        BY <4>1, CountedSetsFinite, FS_RemoveElement
      <4>3. Len(m_queue') = Len(m_queue) - 1
        BY <2>4, <3>2 DEF Resume, TestAndTake, TypeOK
      <4> QED
        BY <1>0, <2>1, <4>1, <4>2, <4>3 DEF EnoughWakeups
    <3> QED
      BY <3>1, <3>2
  <2>5. CASE SpuriousWakeup(c)
    BY <1>0, <2>1, <2>5, WakeCounts DEF SpuriousWakeup, EnoughWakeups
  <2>6. CASE Expire(c)
    <3>1. Waiting' \subseteq Waiting /\ Woken' = Woken
      BY <2>6 DEF Expire, TypeOK, Waiting, Woken
    <3> QED
      BY <1>0, <2>1, <2>6, <3>1 DEF Expire, EnoughWakeups
  <2>7. CASE ReturnFalse(c)
    <3>1. Waiting' = Waiting /\ Woken' = Woken
      BY <2>7 DEF ReturnFalse, TypeOK, Waiting, Woken
    <3> QED
      BY <1>0, <2>1, <2>7, <3>1 DEF ReturnFalse, EnoughWakeups
  <2> QED
    BY <1>3, <2>3, <2>4, <2>5, <2>6, <2>7 DEF ConsumerStep
<1>4. CASE UNCHANGED vars
    BY <1>0, <1>4 DEF vars, EnoughWakeups, Notifying, Waiting, Woken
<1> QED
    BY <1>1, <1>2, <1>3, <1>4 DEF Next, ProducerStep

(***************************************************************************)
(* No wakeup is lost: whatever the number of threads and calls, a thread   *)
(* never waits in Pop beside an item without a wakeup under way.           *)
(***************************************************************************)
THEOREM NoWakeupIsLost == Spec => []NoLostWakeup
<1>1. Init => EnoughWakeups
    BY DEF Init, EnoughWakeups, Waiting
<1>2. TypeOK /\ EnoughWakeups => NoLostWakeup
  <2> SUFFICES ASSUME TypeOK, EnoughWakeups, m_queue # <<>>, Waiting # {},
                      Notifying \cup Woken = {}
               PROVE  FALSE
    BY DEF NoLostWakeup
  <2>1. Len(m_queue) \in Nat \ {0}
    BY DEF TypeOK
  <2>2. Cardinality(Notifying) = 0 /\ Cardinality(Woken) = 0
    BY FS_EmptySet
  <2> QED
    BY <2>1, <2>2 DEF EnoughWakeups
<1> QED
    BY <1>1, <1>2, WakeupsStep, TypeCorrect, PTL DEF Spec

-----------------------------------------------------------------------------

(***************************************************************************)
(* How the history of insertions grows, and that moving the front item to  *)
(* the end of the removed ones leaves it as it is.                         *)
(***************************************************************************)
LEMMA HistoryAppend ==
  ASSUME NEW S, NEW s \in Seq(S), NEW t \in Seq(S), NEW e \in S
  PROVE  s \o Append(t, e) = Append(s \o t, e)
OBVIOUS

(* Taking the head of the queue moves it to the history, and neither changes what both hold. *)
LEMMA HistoryMove ==
  ASSUME NEW S, NEW s \in Seq(S), NEW t \in Seq(S), t # <<>>
  PROVE  /\ Append(s, Head(t)) \o Tail(t) = s \o t
         /\ Len(s) < Len(s \o t)
         /\ (s \o t)[Len(s) + 1] = Head(t)
<1>1. Append(s, Head(t)) \o Tail(t) \in Seq(S) /\ s \o t \in Seq(S)
    OBVIOUS
<1>2. Len(Append(s, Head(t)) \o Tail(t)) = Len(s \o t)
    OBVIOUS
<1>3. \A i \in 1 .. Len(s \o t) : (Append(s, Head(t)) \o Tail(t))[i] = (s \o t)[i]
    OBVIOUS
<1> QED
    BY <1>1, <1>2, <1>3

(***************************************************************************)
(* WaitableQueue implements the first-in first-out queue: a Push under the *)
(* lock is the abstract Send, a Pop that finds an item the abstract        *)
(* Receive, and every other step of the code leaves the abstract queue as  *)
(* it is.                                                                  *)
(***************************************************************************)
THEOREM FifoRefinement == Spec => ImplementsFifo
<1>1. Init => Fifo!FifoInit
    BY DEF Init, Fifo!FifoInit
<1>2. TypeOK /\ [Next]_vars => [Fifo!FifoNext]_(Fifo!fifoVars)
  <2> SUFFICES ASSUME TypeOK, [Next]_vars
               PROVE  Fifo!FifoNext \/ UNCHANGED Fifo!fifoVars
    OBVIOUS
  <2>1. ASSUME UNCHANGED <<m_queue, popped>> PROVE UNCHANGED Fifo!fifoVars
    BY <2>1 DEF Fifo!fifoVars
  <2>2. ASSUME NEW p \in Producers, Push(p) PROVE Fifo!FifoNext
    <3>1. <<p, pushes[p] + 1>> \in Item
      BY <2>2, MaxPushAssumption DEF TypeOK, Push, Item
    <3>2. Fifo!Send(<<p, pushes[p] + 1>>)
      BY <2>2, <3>1, HistoryAppend DEF Push, TypeOK, Fifo!Send
    <3> QED
      BY <3>1, <3>2 DEF Fifo!FifoNext
  <2>3. ASSUME m_queue # <<>>, m_queue' = Tail(m_queue),
               popped' = Append(popped, Head(m_queue))
        PROVE  Fifo!FifoNext
    BY <2>3, HistoryMove DEF TypeOK, Fifo!FifoNext, Fifo!Receive
  <2>4. ASSUME NEW c \in Consumers, ConsumerStep(c)
        PROVE  \/ UNCHANGED <<m_queue, popped>>
               \/ /\ m_queue # <<>> /\ m_queue' = Tail(m_queue)
                  /\ popped' = Append(popped, Head(m_queue))
    BY <2>4 DEF ConsumerStep, Pop, TimedPop, Resume, SpuriousWakeup, Expire,
                ReturnFalse, TestAndTake
  <2>5. ASSUME NEW p \in Producers, NotifyOne(p) PROVE UNCHANGED <<m_queue, popped>>
    BY <2>5 DEF NotifyOne
  <2>6. CASE UNCHANGED vars
    BY <2>1, <2>6 DEF vars
  <2> QED
    BY <2>1, <2>2, <2>3, <2>4, <2>5, <2>6 DEF Next, ProducerStep
<1> QED
    BY <1>1, <1>2, TypeCorrect, PTL DEF Spec, ImplementsFifo, Fifo!FifoSpec
=============================================================================
