--------------------------- MODULE WaitableQueue ---------------------------
(***************************************************************************)
(* WaitableQueue<T, std::queue<T> >, the queue through which the threads   *)
(* of the framework hand work to each other                                *)
(* (infinity/projects/waitable_queue).                                     *)
(*                                                                         *)
(* m_mutex is held from the first statement of a call to its end, and is   *)
(* released in between only by a wait on m_condition.  A step is therefore *)
(* one stretch of code under the lock; the one statement run without the   *)
(* lock, Push's notify_one, is a step of its own, and so is every return   *)
(* from a wait, which must take the lock again before it can look at the   *)
(* queue.                                                                  *)
(***************************************************************************)
EXTENDS Naturals, Sequences, FiniteSets

CONSTANTS Producers,  \* threads that call Push
          Consumers,  \* threads that call Pop, either overload
          MaxPush     \* bound: calls of Push per producer

ASSUME ThreadsAssumption == /\ IsFiniteSet(Producers)
                            /\ IsFiniteSet(Consumers)
ASSUME MaxPushAssumption == MaxPush \in Nat

VARIABLES m_queue,   \* the container, front first
          pushing,   \* pushing[p]: p has pushed and has not yet notified
          pushes,    \* pushes[p]: how often p has pushed
          popping,   \* popping[c]: how far c is in Pop
          popped     \* history: the items handed out, in order

vars == <<m_queue, pushing, pushes, popping, popped>>

\* An item is identified by its producer and its place among the producer's.
Item == Producers \X (1 .. MaxPush)

(***************************************************************************)
(* "out": not in Pop.  "wait"/"timedwait": in m_condition's wait set, in   *)
(* the overload without and with a timeout.  "woken"/"timedwoken": removed *)
(* from the wait set and about to lock m_mutex and test the queue again.   *)
(* "expired": wait_for has reported a timeout.                             *)
(***************************************************************************)
PopState == {"out", "wait", "timedwait", "woken", "timedwoken", "expired"}

Notifying == {p \in Producers : pushing[p]}
Waiting   == {c \in Consumers : popping[c] \in {"wait", "timedwait"}}
Woken     == {c \in Consumers : popping[c] \in {"woken", "timedwoken"}}

Init == /\ m_queue = <<>>
        /\ pushing = [p \in Producers |-> FALSE]
        /\ pushes = [p \in Producers |-> 0]
        /\ popping = [c \in Consumers |-> "out"]
        /\ popped = <<>>

\* Mutant of Push: notifies only if the queue was empty before.
PushNotifyIfEmpty(p) == /\ ~pushing[p]
                        /\ pushes[p] < MaxPush
                        /\ pushes' = [pushes EXCEPT ![p] = @ + 1]
                        /\ m_queue' = Append(m_queue, <<p, pushes[p] + 1>>)
                        /\ pushing' = [pushing EXCEPT ![p] = (m_queue = <<>>)]
                        /\ UNCHANGED <<popping, popped>>

\* Mutant of Push: inserts at the front of the container.
PushFront(p) == /\ ~pushing[p]
                /\ pushes[p] < MaxPush
                /\ pushes' = [pushes EXCEPT ![p] = @ + 1]
                /\ m_queue' = <<<<p, pushes[p] + 1>>>> \o m_queue
                /\ pushing' = [pushing EXCEPT ![p] = TRUE]
                /\ UNCHANGED <<popping, popped>>

(* Push: the insertion, under the lock *)
Push(p) == /\ ~pushing[p]
           /\ pushes[p] < MaxPush
           /\ pushes' = [pushes EXCEPT ![p] = @ + 1]
           /\ m_queue' = Append(m_queue, <<p, pushes[p] + 1>>)
           /\ pushing' = [pushing EXCEPT ![p] = TRUE]
           /\ UNCHANGED <<popping, popped>>

\* A thread taken out of the wait set.
Wake(c) == popping' = [popping EXCEPT ![c] = IF @ = "wait" THEN "woken"
                                                           ELSE "timedwoken"]

(* Push: notify_one, after the lock is released; which waiter it wakes is *)
(* not specified, and without a waiter it has no effect.                  *)
NotifyOne(p) == /\ pushing[p]
                /\ pushing' = [pushing EXCEPT ![p] = FALSE]
                /\ \/ Waiting = {} /\ UNCHANGED popping
                   \/ \E c \in Waiting : Wake(c)
                /\ UNCHANGED <<m_queue, pushes, popped>>

\* The wait of a thread at the top of Pop's loop, by overload.
WaitOf(s) == IF s \in {"wait", "woken"} THEN "wait" ELSE "timedwait"

(* The loop of Pop, under the lock, by a thread whose overload waits in s *)
TestAndTake(c, s) ==
  \/ /\ m_queue = <<>>
     /\ popping' = [popping EXCEPT ![c] = s]
     /\ UNCHANGED <<m_queue, popped>>
  \/ /\ m_queue # <<>>
     /\ popped' = Append(popped, Head(m_queue))
     /\ m_queue' = Tail(m_queue)
     /\ popping' = [popping EXCEPT ![c] = "out"]

Pop(c) == /\ popping[c] = "out"
          /\ TestAndTake(c, "wait")
          /\ UNCHANGED <<pushing, pushes>>

TimedPop(c) == /\ popping[c] = "out"
               /\ TestAndTake(c, "timedwait")
               /\ UNCHANGED <<pushing, pushes>>

(* wait or wait_for has returned for another reason than the timeout *)
Resume(c) == /\ c \in Woken
             /\ TestAndTake(c, WaitOf(popping[c]))
             /\ UNCHANGED <<pushing, pushes>>

(* a condition variable may wake a thread without a notification *)
SpuriousWakeup(c) == /\ c \in Waiting
                     /\ Wake(c)
                     /\ UNCHANGED <<m_queue, pushing, pushes, popped>>

(* wait_for gives up; it still has to lock m_mutex before it returns *)
Expire(c) == /\ popping[c] = "timedwait"
             /\ popping' = [popping EXCEPT ![c] = "expired"]
             /\ UNCHANGED <<m_queue, pushing, pushes, popped>>

(* the timed Pop returns false, without another look at the queue *)
ReturnFalse(c) == /\ popping[c] = "expired"
                  /\ popping' = [popping EXCEPT ![c] = "out"]
                  /\ UNCHANGED <<m_queue, pushing, pushes, popped>>

ProducerStep(p) == Push(p) \/ NotifyOne(p)

ConsumerStep(c) == \/ Pop(c) \/ TimedPop(c) \/ Resume(c)
                   \/ SpuriousWakeup(c) \/ Expire(c) \/ ReturnFalse(c)

Next == \/ \E p \in Producers : ProducerStep(p)
        \/ \E c \in Consumers : ConsumerStep(c)

Spec == Init /\ [][Next]_vars

(***************************************************************************)
(* A thread inside a call is scheduled again; nobody is obliged to call.   *)
(***************************************************************************)
Fairness == /\ \A p \in Producers : WF_vars(NotifyOne(p))
            /\ \A c \in Consumers : WF_vars(Resume(c)) /\ WF_vars(ReturnFalse(c))

FairSpec == Spec /\ Fairness

-----------------------------------------------------------------------------

(* The state of the queue and of the calls in progress is of its type. *)
TypeOK == /\ m_queue \in Seq(Item)
          /\ pushing \in [Producers -> BOOLEAN]
          /\ pushes \in [Producers -> 0 .. MaxPush]
          /\ popping \in [Consumers -> PopState]
          /\ popped \in Seq(Item)

(***************************************************************************)
(* No lost wakeup: as long as an item lies in the queue and a thread waits *)
(* in Pop, a notification is still to be sent or a woken thread is still   *)
(* to test the queue.  This is what notifying outside the lock, waking one *)
(* thread only, and letting a newcomer take the item a woken thread was    *)
(* called for must not destroy.                                            *)
(***************************************************************************)
NoLostWakeup == m_queue # <<>> /\ Waiting # {} => Notifying \cup Woken # {}

(***************************************************************************)
(* While a thread waits, a wakeup is under way for every item in the       *)
(* queue: the inductive form of NoLostWakeup, which by itself is destroyed  *)
(* when the last woken thread takes the first of two items.                *)
(***************************************************************************)
EnoughWakeups ==
  Waiting # {} => Len(m_queue) <= Cardinality(Notifying) + Cardinality(Woken)

(***************************************************************************)
(* A thread does not wait in Pop beside an item for ever, even when nobody *)
(* calls Push or Pop again.                                                *)
(***************************************************************************)
WaiterServed == (m_queue # <<>> /\ Waiting # {})
                   ~> (m_queue = <<>> \/ Waiting = {})

(***************************************************************************)
(* The calls of Push and Pop, from all threads, behave as a first-in       *)
(* first-out queue: the insertion takes effect when Push holds the lock,   *)
(* the removal when Pop does.                                              *)
(***************************************************************************)
Fifo == INSTANCE FifoQueue WITH sent <- popped \o m_queue, received <- popped

ImplementsFifo == Fifo!FifoSpec
=============================================================================
