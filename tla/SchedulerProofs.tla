-------------------------- MODULE SchedulerProofs --------------------------
(***************************************************************************)
(* For any tasks, intervals and signals, the scheduler's container stays   *)
(* in the order of the tasks' times up to one second; Run never sleeps     *)
(* over a task that is overdue, the sleep of 2^32 seconds excepted, and    *)
(* enters that one only when it stood still for two seconds between the    *)
(* two readings of the clock; and every task is in one place.              *)
(***************************************************************************)
EXTENDS Scheduler, SequenceTheorems, TLAPS

Sorted(q) == \A i, j \in 1 .. Len(q) : i < j => q[i].left <= q[j].left + 1

(***************************************************************************)
(* What DlistInsert and DlistRemove do to the list, element by element.    *)
(***************************************************************************)
LEMMA InsertAtElements ==
  ASSUME NEW S, NEW s \in Seq(S), NEW p \in 1 .. Len(s) + 1, NEW t \in S
  PROVE  /\ InsertAt(s, p, t) \in Seq(S)
         /\ Len(InsertAt(s, p, t)) = Len(s) + 1
         /\ \A k \in 1 .. Len(s) + 1 :
              InsertAt(s, p, t)[k] = IF k < p THEN s[k]
                                     ELSE IF k = p THEN t ELSE s[k - 1]
<1> DEFINE a == SubSeq(s, 1, p - 1)
           b == SubSeq(s, p, Len(s))
           ab == a \o <<t>>
<1>1. /\ a \in Seq(S) /\ Len(a) = p - 1 /\ \A k \in 1 .. p - 1 : a[k] = s[k]
  BY SubSeqProperties
<1>2. /\ b \in Seq(S) /\ Len(b) = Len(s) - p + 1
      /\ \A k \in 1 .. Len(s) - p + 1 : b[k] = s[p + k - 1]
  BY SubSeqProperties
<1>3. /\ ab \in Seq(S) /\ Len(ab) = p
      /\ \A k \in 1 .. p : ab[k] = IF k < p THEN s[k] ELSE t
  <2> HIDE DEF a
  <2> QED BY <1>1
<1>4. InsertAt(s, p, t) = ab \o b
  BY DEF InsertAt
<1>5. /\ ab \o b \in Seq(S) /\ Len(ab \o b) = Len(ab) + Len(b)
      /\ \A k \in 1 .. Len(ab) + Len(b) :
           (ab \o b)[k] = IF k <= Len(ab) THEN ab[k] ELSE b[k - Len(ab)]
  <2> HIDE DEF ab, b
  <2> QED BY <1>2, <1>3, ConcatProperties
<1> HIDE DEF a, b, ab
<1>6. Len(ab \o b) = Len(s) + 1
  BY <1>2, <1>3, <1>5
<1>7. \A k \in 1 .. Len(s) + 1 :
        (ab \o b)[k] = IF k < p THEN s[k] ELSE IF k = p THEN t ELSE s[k - 1]
  <2> SUFFICES ASSUME NEW k \in 1 .. Len(s) + 1
               PROVE  (ab \o b)[k] = IF k < p THEN s[k] ELSE IF k = p THEN t ELSE s[k - 1]
    OBVIOUS
  <2>1. CASE k <= p
    BY <2>1, <1>2, <1>3, <1>5
  <2>2. CASE p < k
    <3>1. (ab \o b)[k] = b[k - p]
      BY <2>2, <1>2, <1>3, <1>5
    <3>2. k - p \in 1 .. Len(s) - p + 1 /\ p + (k - p) - 1 = k - 1
      BY <2>2
    <3>3. b[k - p] = s[k - 1]
      BY <3>2, <1>2
    <3>4. ~(k < p) /\ k # p
      BY <2>2
    <3> QED BY <3>1, <3>3, <3>4
  <2>3. k <= p \/ p < k
    OBVIOUS
  <2> QED BY <2>1, <2>2, <2>3
<1> QED BY <1>4, <1>5, <1>6, <1>7

(* What RemoveAt keeps, and where. *)
LEMMA RemoveAtElements ==
  ASSUME NEW S, NEW s \in Seq(S), NEW p \in 1 .. Len(s)
  PROVE  /\ RemoveAt(s, p) \in Seq(S)
         /\ Len(RemoveAt(s, p)) = Len(s) - 1
         /\ \A k \in 1 .. Len(s) - 1 :
              RemoveAt(s, p)[k] = IF k < p THEN s[k] ELSE s[k + 1]
<1> DEFINE a == SubSeq(s, 1, p - 1)
           b == SubSeq(s, p + 1, Len(s))
<1>1. /\ a \in Seq(S) /\ Len(a) = p - 1 /\ \A k \in 1 .. p - 1 : a[k] = s[k]
  BY SubSeqProperties
<1>2. /\ b \in Seq(S) /\ Len(b) = Len(s) - p
      /\ \A k \in 1 .. Len(s) - p : b[k] = s[p + k]
  BY SubSeqProperties
<1>3. RemoveAt(s, p) = a \o b
  BY DEF RemoveAt
<1> HIDE DEF a, b
<1>4. /\ a \o b \in Seq(S) /\ Len(a \o b) = Len(a) + Len(b)
      /\ \A k \in 1 .. Len(a) + Len(b) :
           (a \o b)[k] = IF k <= Len(a) THEN a[k] ELSE b[k - Len(a)]
  BY <1>1, <1>2, ConcatProperties
<1>5. Len(a \o b) = Len(s) - 1
  BY <1>1, <1>2, <1>4
<1>6. \A k \in 1 .. Len(s) - 1 : (a \o b)[k] = IF k < p THEN s[k] ELSE s[k + 1]
  <2> SUFFICES ASSUME NEW k \in 1 .. Len(s) - 1
               PROVE  (a \o b)[k] = IF k < p THEN s[k] ELSE s[k + 1]
    OBVIOUS
  <2>1. CASE k < p
    BY <2>1, <1>1, <1>2, <1>4
  <2>2. CASE p <= k
    <3>1. (a \o b)[k] = b[k - (p - 1)]
      BY <2>2, <1>1, <1>2, <1>4
    <3>2. k - (p - 1) \in 1 .. Len(s) - p /\ p + (k - (p - 1)) = k + 1
      BY <2>2
    <3>3. b[k - (p - 1)] = s[k + 1]
      BY <3>2, <1>2
    <3>4. ~(k < p)
      BY <2>2
    <3> QED BY <3>1, <3>3, <3>4
  <2>3. k < p \/ p <= k
    OBVIOUS
  <2> QED BY <2>1, <2>2, <2>3
<1> QED BY <1>3, <1>4, <1>5, <1>6

(***************************************************************************)
(* SortedListInsert with ComparFunc keeps a nearly sorted list nearly      *)
(* sorted: what it passes is due at most a second after the new task, and  *)
(* behind the place where it stops nothing is due before it.               *)
(***************************************************************************)
LEMMA InsertKeepsOrder ==
  ASSUME container \in Seq(Task), Sorted(container),
         NEW t \in Task, PQEnpqueue(t)
  PROVE  container' \in Seq(Task) /\ Sorted(container')
<1>1. PICK p \in 1 .. Len(container) + 1 :
        Place(container, t, p) /\ container' = InsertAt(container, p, t)
  BY DEF PQEnpqueue
<1>2. /\ container' \in Seq(Task) /\ Len(container') = Len(container) + 1
      /\ \A k \in 1 .. Len(container) + 1 :
           container'[k] = IF k < p THEN container[k]
                           ELSE IF k = p THEN t ELSE container[k - 1]
  BY <1>1, InsertAtElements
<1>3. /\ t.left \in Int
      /\ \A k \in 1 .. Len(container) : container[k].left \in Int
  <2>1. \A k \in 1 .. Len(container) : container[k] \in Task
    BY ElementOfSeq
  <2> QED BY <2>1 DEF Task
<1>4. \A k \in 1 .. Len(container) : k < p => container[k].left <= t.left + 1
  BY <1>1, <1>3 DEF Place, ComparFunc, ADJUSTMENT_TO_INSERT_AFTER_EQUAL
<1>o. \A i, j \in 1 .. Len(container) : i < j => container[i].left <= container[j].left + 1
  BY DEF Sorted
<1>5. \A k \in 1 .. Len(container) : p <= k => t.left <= container[k].left
  <2> SUFFICES ASSUME NEW k \in 1 .. Len(container), p <= k
               PROVE  t.left <= container[k].left
    OBVIOUS
  <2>1. p \in 1 .. Len(container) /\ t.left + 1 < container[p].left
    BY <1>1, <1>3 DEF Place, ComparFunc, ADJUSTMENT_TO_INSERT_AFTER_EQUAL
  <2>2. p = k \/ container[p].left <= container[k].left + 1
    BY <1>o, <2>1
  <2> QED BY <1>3, <2>1, <2>2
<1>6. Sorted(container')
  <2> SUFFICES ASSUME NEW i \in 1 .. Len(container) + 1,
                      NEW j \in 1 .. Len(container) + 1, i < j
               PROVE  container'[i].left <= container'[j].left + 1
    BY <1>2 DEF Sorted
  <2>1. CASE j < p
    <3>1. container'[i] = container[i] /\ container'[j] = container[j]
      BY <2>1, <1>2
    <3> QED BY <2>1, <3>1, <1>o
  <2>2. CASE j = p
    <3>1. container'[i] = container[i] /\ container'[j] = t
      BY <2>2, <1>2
    <3> QED BY <2>2, <3>1, <1>4
  <2>3. CASE p < j /\ i = p
    <3>1. container'[i] = t /\ container'[j] = container[j - 1]
      BY <2>3, <1>2
    <3>2. j - 1 \in 1 .. Len(container) /\ p <= j - 1
      BY <2>3
    <3> QED BY <3>1, <3>2, <1>3, <1>5
  <2>4. CASE p < j /\ i < p
    <3>1. container'[i] = container[i] /\ container'[j] = container[j - 1]
      BY <2>4, <1>2
    <3>2. j - 1 \in 1 .. Len(container) /\ i \in 1 .. Len(container) /\ i < j - 1
      BY <2>4
    <3> QED BY <3>1, <3>2, <1>o
  <2>5. CASE p < i
    <3>1. container'[i] = container[i - 1] /\ container'[j] = container[j - 1]
      BY <2>5, <1>2
    <3>2. j - 1 \in 1 .. Len(container) /\ i - 1 \in 1 .. Len(container) /\ i - 1 < j - 1
      BY <2>5
    <3> QED BY <3>1, <3>2, <1>o
  <2> QED BY <2>1, <2>2, <2>3, <2>4, <2>5
<1> QED BY <1>2, <1>6

(***************************************************************************)
(* The inductive invariant: the task taken is, until it is run, due at     *)
(* most a second after any task left in the container.                     *)
(***************************************************************************)
TakenFirst == pc \in {"test", "doze", "sleep"} =>
                \A i \in 1 .. Len(container) : exe_task.left <= container[i].left + 1

IInv == TypeOK /\ NearlySorted /\ TakenFirst

(* The inductive invariant holds at the start. *)
LEMMA InitIInv == Init => IInv
<1> SUFFICES ASSUME Init PROVE IInv
  OBVIOUS
<1>1. container \in Seq(Task) /\ Len(container) = 0
  BY EmptySeq DEF Init
<1>2. NearlySorted /\ TakenFirst
  BY <1>1 DEF NearlySorted, TakenFirst
<1>3. ~Held /\ pc = "idle" /\ exe_task = NoTask
  BY DEF Init, Held
<1>4. added \in 0 .. MaxAdds /\ pc \in Labels
  BY SchedulerAssumption DEF Init, Labels
<1>5. TypeOK
  BY <1>1, <1>3, <1>4 DEF Init, TypeOK
<1> QED BY <1>2, <1>5 DEF IInv

(***************************************************************************)
(* A step preserves the inductive invariant.                               *)
(***************************************************************************)
LEMMA StepIInv == IInv /\ [Next]_vars => IInv'
<1> SUFFICES ASSUME IInv, [Next]_vars PROVE IInv'
  OBVIOUS
<1> USE SchedulerAssumption
<1>s. /\ TypeOK /\ NearlySorted /\ TakenFirst /\ Sorted(container)
      /\ container \in Seq(Task) /\ NoTask \notin Task
      /\ \A i \in 1 .. Len(container) : container[i] \in Task /\ container[i].left \in Int
  <2>1. container \in Seq(Task) /\ TypeOK /\ NearlySorted /\ TakenFirst
    BY DEF IInv, TypeOK
  <2>2. \A i \in 1 .. Len(container) : container[i] \in Task
    BY <2>1, ElementOfSeq
  <2>3. NoTask \notin Task
    BY DEF Task, NoTask
  <2>4. \A u \in Task : u.left \in Int
    BY DEF Task
  <2> QED BY <2>1, <2>2, <2>3, <2>4 DEF NearlySorted, Sorted
<1>f. NearlySorted' <=> Sorted(container')
  BY DEF NearlySorted, Sorted
<1>1. CASE SchedulerAdd
  <2>1. PICK n \in Intervals : PQEnpqueue([uid |-> added', interval |-> n, left |-> n])
    BY <1>1 DEF SchedulerAdd
  <2>2. [uid |-> added', interval |-> n, left |-> n] \in Task
    <3>1. added' \in 1 .. MaxAdds /\ n \in Int
      BY <1>1, <1>s DEF SchedulerAdd, TypeOK
    <3> QED BY <3>1 DEF Task
  <2>3. container' \in Seq(Task) /\ Sorted(container')
    BY <1>s, <2>1, <2>2, InsertKeepsOrder
  <2> QED BY <1>1, <1>s, <1>f, <2>3
          DEF SchedulerAdd, Callable, IInv, TypeOK, TakenFirst, Held
<1>2. CASE SchedulerRemove
  <2>1. PICK i \in 1 .. Len(container) : /\ container' = RemoveAt(container, i)
                                         /\ gone' = gone \cup {container[i].uid}
    BY <1>2, <1>s DEF SchedulerRemove
  <2>2. /\ container' \in Seq(Task) /\ Len(container') = Len(container) - 1
        /\ \A k \in 1 .. Len(container) - 1 :
             container'[k] = IF k < i THEN container[k] ELSE container[k + 1]
    BY <2>1, <1>s, RemoveAtElements
  <2>3. Sorted(container')
    <3> SUFFICES ASSUME NEW j \in 1 .. Len(container) - 1,
                        NEW k \in 1 .. Len(container) - 1, j < k
                 PROVE  container'[j].left <= container'[k].left + 1
      BY <2>2 DEF Sorted
    <3> DEFINE Old(n) == IF n < i THEN n ELSE n + 1
    <3>1. Old(j) \in 1 .. Len(container) /\ Old(k) \in 1 .. Len(container) /\ Old(j) < Old(k)
      OBVIOUS
    <3>2. container'[j] = container[Old(j)] /\ container'[k] = container[Old(k)]
      BY <2>2
    <3>3. container[Old(j)].left <= container[Old(k)].left + 1
      <4> HIDE DEF Old
      <4> QED BY <3>1, <1>s DEF Sorted
    <3> QED BY <3>2, <3>3
  <2>4. gone' \subseteq 1 .. MaxAdds
    BY <2>1, <1>s DEF TypeOK, Task
  <2> QED BY <1>2, <1>s, <1>f, <2>2, <2>3, <2>4
          DEF SchedulerRemove, Callable, IInv, TypeOK, TakenFirst, Held
<1>3. CASE SchedulerClear
  <2>1. gone' \subseteq 1 .. MaxAdds
    <3>1. \A i \in DOMAIN container : container[i].uid \in 1 .. MaxAdds
      BY <1>s DEF Task
    <3> QED BY <1>3, <1>s, <3>1 DEF SchedulerClear, Uids, TypeOK
  <2> QED BY <1>3, <1>s, <2>1
          DEF SchedulerClear, IInv, TypeOK, NearlySorted, TakenFirst, Held
<1>4. CASE SchedulerPause \/ SchedulerRun
  BY <1>4, <1>s DEF SchedulerPause, SchedulerRun, IInv, TypeOK, NearlySorted, TakenFirst,
                    Held, Labels, STOP_EXECUTING, CONTINUE_TO_EXECUTE
<1>5. CASE TakeTask
  <2>1. /\ exe_task' = container[1] /\ exe_task' \in Task
        /\ container' \in Seq(Task) /\ Len(container') = Len(container) - 1
        /\ \A k \in 1 .. Len(container) - 1 : container'[k] = container[k + 1]
    BY <1>5, <1>s DEF TakeTask
  <2>2. Sorted(container')
    <3> SUFFICES ASSUME NEW j \in 1 .. Len(container) - 1,
                        NEW k \in 1 .. Len(container) - 1, j < k
                 PROVE  container'[j].left <= container'[k].left + 1
      BY <2>1 DEF Sorted
    <3>1. j + 1 \in 1 .. Len(container) /\ k + 1 \in 1 .. Len(container) /\ j + 1 < k + 1
      OBVIOUS
    <3>2. container[j + 1].left <= container[k + 1].left + 1
      BY <3>1, <1>s DEF Sorted
    <3> QED BY <2>1, <3>2
  <2>3. TakenFirst'
    <3> SUFFICES ASSUME NEW k \in 1 .. Len(container) - 1
                 PROVE  exe_task'.left <= container'[k].left + 1
      BY <2>1 DEF TakenFirst
    <3>1. 1 \in 1 .. Len(container) /\ k + 1 \in 1 .. Len(container) /\ 1 < k + 1
      OBVIOUS
    <3> QED BY <3>1, <2>1, <1>s DEF Sorted
  <2> QED BY <1>5, <1>s, <1>f, <2>1, <2>2, <2>3 DEF TakeTask, IInv, TypeOK, Held, Labels
<1>6. CASE RunReturns \/ TestTime \/ Sleep \/ Wake
  <2>1. UNCHANGED <<container, stop_flag, exe_task, added, gone, leaked, signalled>>
    BY <1>6 DEF RunReturns, TestTime, Sleep, Wake
  <2>2. stalled' \in Nat /\ pc' \in Labels /\ (Held <=> pc' \notin {"idle", "loop"})
    BY <1>6, <1>s DEF RunReturns, TestTime, Sleep, Wake, TypeOK, Labels
  <2>3. pc' \in {"test", "doze", "sleep"} => pc \in {"test", "doze", "sleep"}
    BY <1>6 DEF RunReturns, TestTime, Sleep, Wake
  <2>4. result' \in {"none", "FINISH_ALL_WORK", "STOPPED", "ERROR"}
    BY <1>6, <1>s DEF RunReturns, TestTime, Sleep, Wake, TypeOK
  <2> QED BY <1>s, <2>1, <2>2, <2>3, <2>4 DEF IInv, TypeOK, NearlySorted, TakenFirst, Held
<1>7. CASE Reschedule
  <2> DEFINE t == [exe_task EXCEPT !.left = exe_task.interval]
  <2>1. exe_task \in Task
    BY <1>7, <1>s DEF Reschedule, TypeOK, Held
  <2>2. t \in Task
    BY <2>1 DEF Task
  <2>3. container' \in Seq(Task) /\ Sorted(container')
    BY <1>7, <1>s, <2>2, InsertKeepsOrder DEF Reschedule
  <2> QED BY <1>7, <1>s, <1>f, <2>3 DEF Reschedule, IInv, TypeOK, TakenFirst, Held, Labels
<1>8. CASE RescheduleFails \/ Complete
  <2>1. exe_task \in Task /\ exe_task.uid \in 1 .. MaxAdds
    BY <1>8, <1>s DEF RescheduleFails, Complete, TypeOK, Held, Task
  <2> QED BY <1>8, <1>s, <2>1 DEF RescheduleFails, Complete, IInv, TypeOK, NearlySorted,
                                  TakenFirst, Held, Labels
<1>9. CASE \E pause \in BOOLEAN : Signal(pause)
  BY <1>9, <1>s DEF Signal, Asleep, Running, IInv, TypeOK, NearlySorted, TakenFirst, Held,
                    Labels, STOP_EXECUTING, CONTINUE_TO_EXECUTE
<1>10. CASE Tick
  <2>1. \A u \in Task : Sooner(u) \in Task /\ Sooner(u).left = u.left - 1
    BY DEF Task, Sooner
  <2>2. /\ container' \in Seq(Task) /\ Len(container') = Len(container)
        /\ \A k \in 1 .. Len(container) : container'[k].left = container[k].left - 1
    BY <1>10, <1>s, <2>1 DEF Tick
  <2>3. /\ exe_task' \in Task \cup {NoTask} /\ Held' = Held
        /\ Held => exe_task \in Task /\ exe_task'.left = exe_task.left - 1
    BY <1>10, <1>s, <2>1 DEF Tick, Held, TypeOK
  <2>4. Sorted(container')
    BY <2>2, <1>s DEF Sorted
  <2>5. TakenFirst'
    <3> SUFFICES ASSUME pc \in {"test", "doze", "sleep"}, NEW k \in 1 .. Len(container)
                 PROVE  exe_task'.left <= container'[k].left + 1
      BY <1>10, <2>2 DEF TakenFirst, Tick
    <3>1. exe_task.left <= container[k].left + 1 /\ Held
      BY <1>s DEF TakenFirst, TypeOK
    <3>2. exe_task.left \in Int
      BY <3>1, <2>3 DEF Task
    <3> QED BY <3>1, <3>2, <1>s, <2>2, <2>3
  <2> QED BY <1>10, <1>s, <1>f, <2>2, <2>3, <2>4, <2>5 DEF Tick, IInv, TypeOK
<1>11. CASE UNCHANGED vars
  BY <1>11, <1>s DEF vars, IInv, TypeOK, NearlySorted, TakenFirst, Held
<1> QED BY <1>1, <1>2, <1>3, <1>4, <1>5, <1>6, <1>7, <1>8, <1>9, <1>10, <1>11
        DEF Next, RunStep, UserStep, TaskReturns

(***************************************************************************)
(* Every state of SchedulerRun and of its callers satisfies the inductive  *)
(* invariant.                                                              *)
(***************************************************************************)
THEOREM Invariance == Spec => []IInv
BY InitIInv, StepIInv, PTL DEF Spec

(***************************************************************************)
(* ComparFunc and SortedListInsert keep the container in the order of the  *)
(* tasks' times up to one second.                                          *)
(***************************************************************************)
THEOREM OrderUpToASecond == Spec => []NearlySorted
<1>1. IInv => NearlySorted
  BY DEF IInv
<1> QED BY <1>1, Invariance, PTL

(***************************************************************************)
(* A task found in the future at scheduler.c's test has at least a second  *)
(* left, less the seconds that went by since.                              *)
(***************************************************************************)
Stalled == /\ pc = "doze" => exe_task.left + stalled >= 1
           /\ pc = "oversleep" => stalled >= 2

(* A step preserves it: only Tick makes the time left smaller, and counts. *)
LEMMA StepStalled == IInv /\ Stalled /\ [Next]_vars => Stalled'
<1> SUFFICES ASSUME IInv, Stalled, [Next]_vars PROVE Stalled'
  OBVIOUS
<1>t. stalled \in Nat
  BY DEF IInv, TypeOK
<1>h. pc \in {"doze", "test"} => exe_task \in Task
  BY DEF IInv, TypeOK, Held
<1>i. pc \in {"doze", "test"} => exe_task.left \in Int
  BY <1>h DEF Task
<1>1. CASE SchedulerAdd \/ SchedulerRemove \/ SchedulerClear
  BY <1>1 DEF SchedulerAdd, SchedulerRemove, SchedulerClear, Stalled
<1>2. CASE SchedulerPause \/ SchedulerRun \/ TakeTask \/ RunReturns \/ Wake
  BY <1>2 DEF SchedulerPause, SchedulerRun, TakeTask, RunReturns, Wake, Stalled
<1>3. CASE TestTime
  BY <1>3, <1>i DEF TestTime, Stalled
<1>4. CASE Sleep
  <2>1. pc = "doze" /\ stalled' = stalled /\ pc' # "doze"
    BY <1>4 DEF Sleep
  <2>2. pc' = "oversleep" => exe_task.left < 0
    BY <1>4 DEF Sleep
  <2> QED BY <2>1, <2>2, <1>t, <1>i DEF Stalled
<1>5. CASE TaskReturns
  BY <1>5 DEF TaskReturns, Reschedule, RescheduleFails, Complete, Stalled
<1>6. CASE \E pause \in BOOLEAN : Signal(pause)
  BY <1>6 DEF Signal, Asleep, Stalled
<1>7. CASE Tick
  <2>1. pc' = pc /\ stalled' = IF pc = "doze" THEN stalled + 1 ELSE stalled
    BY <1>7 DEF Tick
  <2>2. pc = "doze" => exe_task'.left = exe_task.left - 1
    <3>1. pc = "doze" => exe_task' = [exe_task EXCEPT !.left = exe_task.left - 1]
      BY <1>7 DEF Tick, Sooner, IInv, TypeOK
    <3> QED BY <3>1, <1>h DEF Task
  <2> QED BY <2>1, <2>2, <1>t, <1>i DEF Stalled
<1>8. CASE UNCHANGED vars
  BY <1>8 DEF vars, Stalled
<1> QED BY <1>1, <1>2, <1>3, <1>4, <1>5, <1>6, <1>7, <1>8 DEF Next, RunStep, UserStep

(***************************************************************************)
(* While SchedulerRun sleeps until its task is due no task in the          *)
(* container is overdue, and the sleep of 2^32 seconds is entered only if  *)
(* two seconds went by between the two readings of the clock.              *)
(***************************************************************************)
THEOREM NoTaskSleptOver == Spec => []SleepsOverNothing
<1>1. Init => Stalled
  BY DEF Init, Stalled
<1>2. IInv /\ Stalled => SleepsOverNothing
  <2> SUFFICES ASSUME IInv, pc = "sleep", exe_task.left > 0, NEW i \in 1 .. Len(container)
               PROVE  container[i].left >= 0
    BY DEF SleepsOverNothing, Stalled
  <2>1. exe_task.left <= container[i].left + 1
    BY DEF IInv, TakenFirst
  <2>2. exe_task \in Task /\ container[i] \in Task
    BY ElementOfSeq DEF IInv, TypeOK, Held
  <2> QED BY <2>1, <2>2 DEF Task
<1> QED BY <1>1, <1>2, StepStalled, Invariance, PTL DEF Spec

-----------------------------------------------------------------------------
(* Every task has one place *)

Distinct(q) == \A i, j \in 1 .. Len(q) : i # j => q[i].uid # q[j].uid
Holding == IF Held THEN {exe_task.uid} ELSE {}

(***************************************************************************)
(* A task is in the set of uids of a list exactly when it stands somewhere *)
(* in it.                                                                  *)
(***************************************************************************)
LEMMA UidsAreThoseListed ==
  ASSUME NEW q \in Seq(Task), NEW u
  PROVE  u \in Uids(q) <=> \E i \in 1 .. Len(q) : q[i].uid = u
<1>1. DOMAIN q = 1 .. Len(q)
  OBVIOUS
<1> QED BY <1>1 DEF Uids

(***************************************************************************)
(* SortedListInsert adds the one task, and none stands twice in the list.  *)
(***************************************************************************)
LEMMA InsertAddsOne ==
  ASSUME container \in Seq(Task), container' \in Seq(Task), Distinct(container),
         NEW t \in Task, PQEnpqueue(t), t.uid \notin Uids(container)
  PROVE  Uids(container') = Uids(container) \cup {t.uid} /\ Distinct(container')
<1>1. PICK p \in 1 .. Len(container) + 1 : container' = InsertAt(container, p, t)
  BY DEF PQEnpqueue
<1>2. /\ Len(container') = Len(container) + 1 /\ Len(container) \in Nat
      /\ \A k \in 1 .. Len(container) + 1 :
           container'[k] = IF k < p THEN container[k]
                           ELSE IF k = p THEN t ELSE container[k - 1]
  <2>1. Len(container) \in Nat
    OBVIOUS
  <2>2. /\ Len(container') = Len(container) + 1
        /\ \A k \in 1 .. Len(container) + 1 :
             container'[k] = IF k < p THEN container[k]
                             ELSE IF k = p THEN t ELSE container[k - 1]
    <3>1. /\ Len(InsertAt(container, p, t)) = Len(container) + 1
          /\ \A k \in 1 .. Len(container) + 1 :
               InsertAt(container, p, t)[k] = IF k < p THEN container[k]
                                              ELSE IF k = p THEN t ELSE container[k - 1]
      BY InsertAtElements, SMTT(60)
    <3> QED BY <1>1, <3>1, Zenon
  <2> QED BY <2>1, <2>2
<1>3. /\ \A k \in 1 .. Len(container) : container[k].uid # t.uid
      /\ \A u : u \in Uids(container) <=> \E i \in 1 .. Len(container) : container[i].uid = u
      /\ \A u : u \in Uids(container') <=> \E i \in 1 .. Len(container') : container'[i].uid = u
  <2>1. \A u : u \in Uids(container) <=> \E i \in 1 .. Len(container) : container[i].uid = u
    BY UidsAreThoseListed
  <2>2. \A q \in Seq(Task) : \A u : u \in Uids(q) <=> \E i \in 1 .. Len(q) : q[i].uid = u
    BY UidsAreThoseListed
  <2>3. \A u : u \in Uids(container') <=> \E i \in 1 .. Len(container') : container'[i].uid = u
    BY <2>2
  <2> QED BY <2>1, <2>3
<1>4. \A u : u \in Uids(container') => u \in Uids(container) \cup {t.uid}
  <2> SUFFICES ASSUME NEW i \in 1 .. Len(container) + 1
               PROVE  container'[i].uid \in Uids(container) \cup {t.uid}
    BY <1>2, <1>3
  <2>1. CASE i < p
    <3>1. i \in 1 .. Len(container) /\ container'[i] = container[i]
      BY <1>2, <2>1
    <3> QED BY <1>3, <3>1
  <2>2. CASE i = p
    BY <1>2, <2>2
  <2>3. CASE i > p
    <3>1. i - 1 \in 1 .. Len(container) /\ container'[i] = container[i - 1]
      BY <1>2, <2>3
    <3> QED BY <1>3, <3>1
  <2> QED BY <2>1, <2>2, <2>3
<1>5. \A u : u \in Uids(container) => u \in Uids(container')
  <2> SUFFICES ASSUME NEW i \in 1 .. Len(container)
               PROVE  container[i].uid \in Uids(container')
    BY <1>3
  <2>1. CASE i < p
    <3>1. i \in 1 .. Len(container') /\ container'[i] = container[i]
      BY <1>2, <2>1
    <3> QED BY <1>3, <3>1
  <2>2. CASE i >= p
    <3>1. i + 1 \in 1 .. Len(container') /\ container'[i + 1] = container[i]
      BY <1>2, <2>2
    <3> QED BY <1>3, <3>1
  <2> QED BY <2>1, <2>2
<1>6. t.uid \in Uids(container')
  <2>1. p \in 1 .. Len(container') /\ container'[p] = t
    BY <1>2
  <2> QED BY <1>3, <2>1
<1>7. Distinct(container')
  <2> SUFFICES ASSUME NEW i \in 1 .. Len(container) + 1, NEW j \in 1 .. Len(container) + 1,
                      i < j
               PROVE  container'[i].uid # container'[j].uid
    BY <1>2 DEF Distinct
  <2> DEFINE Old(k) == IF k < p THEN k ELSE k - 1
  <2>1. CASE i # p /\ j # p
    <3>1. Old(i) \in 1 .. Len(container) /\ Old(j) \in 1 .. Len(container) /\ Old(i) # Old(j)
      BY <1>2, <2>1
    <3>2. container'[i] = container[Old(i)] /\ container'[j] = container[Old(j)]
      BY <1>2, <2>1
    <3> HIDE DEF Old
    <3> QED BY <3>1, <3>2 DEF Distinct
  <2>2. CASE i = p
    <3>1. container'[i] = t /\ j - 1 \in 1 .. Len(container) /\ container'[j] = container[j - 1]
      BY <1>2, <2>2
    <3> QED BY <1>3, <3>1
  <2>3. CASE j = p
    <3>1. container'[j] = t /\ i \in 1 .. Len(container) /\ container'[i] = container[i]
      BY <1>2, <2>3
    <3> QED BY <1>3, <3>1
  <2> QED BY <2>1, <2>2, <2>3
<1> QED BY <1>4, <1>5, <1>6, <1>7

(***************************************************************************)
(* A list that lost its element at p has every other task, once.           *)
(***************************************************************************)
LEMMA RemoveTakesOne ==
  ASSUME NEW q \in Seq(Task), NEW r \in Seq(Task), Distinct(q), NEW p \in 1 .. Len(q),
         Len(r) = Len(q) - 1,
         \A k \in 1 .. Len(q) - 1 : r[k] = IF k < p THEN q[k] ELSE q[k + 1]
  PROVE  Uids(r) = Uids(q) \ {q[p].uid} /\ Distinct(r) /\ q[p].uid \in Uids(q)
<1>1. /\ Len(q) \in Nat
      /\ \A u : u \in Uids(q) <=> \E i \in 1 .. Len(q) : q[i].uid = u
      /\ \A u : u \in Uids(r) <=> \E i \in 1 .. Len(r) : r[i].uid = u
  BY UidsAreThoseListed
<1> DEFINE Old(k) == IF k < p THEN k ELSE k + 1
<1>2. \A k \in 1 .. Len(q) - 1 : /\ Old(k) \in 1 .. Len(q) /\ Old(k) # p
                                 /\ r[k] = q[Old(k)]
  BY <1>1
<1>3. \A j, k \in 1 .. Len(q) - 1 : j # k => Old(j) # Old(k)
  BY <1>1
<1>4. \A i \in 1 .. Len(q) : i # p => \E k \in 1 .. Len(q) - 1 : r[k] = q[i]
  <2> SUFFICES ASSUME NEW i \in 1 .. Len(q), i # p
               PROVE  \E k \in 1 .. Len(q) - 1 : r[k] = q[i]
    OBVIOUS
  <2>1. CASE i < p
    <3>1. i \in 1 .. Len(q) - 1 /\ r[i] = q[i]
      BY <1>1, <2>1
    <3> QED BY <3>1
  <2>2. CASE i > p
    <3>1. i - 1 \in 1 .. Len(q) - 1 /\ r[i - 1] = q[i]
      BY <1>1, <2>2
    <3> QED BY <3>1
  <2> QED BY <2>1, <2>2
<1> HIDE DEF Old
<1>5. \A u : u \in Uids(r) => u \in Uids(q) \ {q[p].uid}
  BY <1>1, <1>2 DEF Distinct
<1>6. \A u : u \in Uids(q) \ {q[p].uid} => u \in Uids(r)
  BY <1>1, <1>4
<1>7. Distinct(r)
  BY <1>2, <1>3 DEF Distinct
<1> QED BY <1>1, <1>5, <1>6, <1>7

(***************************************************************************)
(* A list of the same tasks with other times has the same uids.            *)
(***************************************************************************)
LEMMA TimesDoNotMatter ==
  ASSUME NEW q \in Seq(Task), NEW r \in Seq(Task), Len(r) = Len(q),
         \A k \in 1 .. Len(q) : r[k].uid = q[k].uid
  PROVE  Uids(r) = Uids(q) /\ (Distinct(q) => Distinct(r))
<1>1. /\ \A u : u \in Uids(q) <=> \E i \in 1 .. Len(q) : q[i].uid = u
      /\ \A u : u \in Uids(r) <=> \E i \in 1 .. Len(r) : r[i].uid = u
  BY UidsAreThoseListed
<1> QED BY <1>1 DEF Distinct

(***************************************************************************)
(* TasksConserved with its parts named.                                    *)
(***************************************************************************)
LEMMA ConservedParts ==
  TasksConserved <=> /\ 1 .. added = Uids(container) \cup gone \cup leaked \cup Holding
                     /\ Distinct(container)
                     /\ Uids(container) \cap (gone \cup leaked) = {} /\ gone \cap leaked = {}
                     /\ exe_task.uid \notin Uids(container) \cup gone \cup leaked
BY DEF TasksConserved, Distinct, Holding

(***************************************************************************)
(* A step moves a task from one place to another, and makes or copies      *)
(* none.                                                                   *)
(***************************************************************************)
LEMMA StepConserves == IInv /\ IInv' /\ TasksConserved /\ [Next]_vars => TasksConserved'
<1> SUFFICES ASSUME IInv, IInv', TasksConserved, [Next]_vars PROVE TasksConserved'
  OBVIOUS
<1>s. /\ container \in Seq(Task) /\ container' \in Seq(Task) /\ added \in Nat
      /\ exe_task \in Task \cup {NoTask} /\ (Held <=> pc \notin {"idle", "loop"})
      /\ exe_task' \in Task \cup {NoTask} /\ (Held' <=> pc' \notin {"idle", "loop"})
  BY SchedulerAssumption DEF IInv, TypeOK
<1>h. /\ Held => exe_task \in Task /\ Holding = {exe_task.uid}
      /\ ~Held => exe_task = NoTask /\ Holding = {}
      /\ Held' => exe_task' \in Task /\ Holding' = {exe_task'.uid}
      /\ ~Held' => exe_task' = NoTask /\ Holding' = {}
  BY <1>s DEF Held, Holding
<1>n. NoTask.uid = 0 /\ \A u \in Task : u.uid \in 1 .. MaxAdds /\ u.uid # 0
  BY SchedulerAssumption DEF NoTask, Task
<1>c. /\ 1 .. added = Uids(container) \cup gone \cup leaked \cup Holding
      /\ Distinct(container)
      /\ Uids(container) \cap (gone \cup leaked) = {} /\ gone \cap leaked = {}
      /\ exe_task.uid \notin Uids(container) \cup gone \cup leaked
  BY ConservedParts
<1>z. 0 \notin Uids(container) \cup gone \cup leaked
  <2>1. 0 \notin 1 .. added
    BY <1>s
  <2> QED BY <2>1, <1>c
<1>p. SUFFICES /\ 1 .. added' = Uids(container') \cup gone' \cup leaked' \cup Holding'
               /\ Distinct(container')
               /\ Uids(container') \cap (gone' \cup leaked') = {} /\ gone' \cap leaked' = {}
               /\ exe_task'.uid \notin Uids(container') \cup gone' \cup leaked'
  BY DEF TasksConserved, Distinct, Holding
<1>1. CASE SchedulerAdd
  <2>1. PICK n \in Intervals : PQEnpqueue([uid |-> added', interval |-> n, left |-> n])
    BY <1>1 DEF SchedulerAdd
  <2> DEFINE t == [uid |-> added', interval |-> n, left |-> n]
  <2>2. added' = added + 1 /\ added' \in 1 .. MaxAdds /\ n \in Int
    BY <1>1, <1>s, SchedulerAssumption DEF SchedulerAdd
  <2>3. t \in Task /\ t.uid = added'
    BY <2>2 DEF Task
  <2>4. added' \notin 1 .. added /\ 1 .. added' = (1 .. added) \cup {added'}
    BY <1>s, <2>2
  <2>5. added' \notin Uids(container) \cup gone \cup leaked \cup Holding
    BY <1>c, <2>4
  <2>6. Uids(container') = Uids(container) \cup {added'} /\ Distinct(container')
    <3> HIDE DEF t
    <3>1. PQEnpqueue(t)
      BY <2>1 DEF t
    <3> QED BY <3>1, <1>s, <1>c, <2>3, <2>5, InsertAddsOne
  <2>7. exe_task'.uid # added' /\ Holding' = Holding
    <3>1. exe_task' = exe_task /\ Holding' = Holding
      BY <1>1 DEF SchedulerAdd, Holding, Held
    <3>2. CASE Held
      BY <3>1, <3>2, <1>h, <2>5
    <3>3. CASE ~Held
      BY <3>1, <3>3, <1>h, <1>n, <2>2
    <3> QED BY <3>1, <3>2, <3>3
  <2>8. exe_task' = exe_task /\ gone' = gone /\ leaked' = leaked
    BY <1>1 DEF SchedulerAdd
  <2>9. 1 .. added' = Uids(container') \cup gone' \cup leaked' \cup Holding'
    BY <1>c, <2>4, <2>6, <2>7, <2>8
  <2> QED BY <1>c, <2>5, <2>6, <2>7, <2>8, <2>9
<1>2. CASE SchedulerRemove
  <2>1. PICK i \in 1 .. Len(container) : /\ container' = RemoveAt(container, i)
                                         /\ gone' = gone \cup {container[i].uid}
    BY <1>2, <1>s DEF SchedulerRemove
  <2>2. /\ Len(container') = Len(container) - 1
        /\ \A k \in 1 .. Len(container) - 1 :
             container'[k] = IF k < i THEN container[k] ELSE container[k + 1]
    BY <2>1, <1>s, RemoveAtElements
  <2>3. /\ Uids(container') = Uids(container) \ {container[i].uid} /\ Distinct(container')
        /\ container[i].uid \in Uids(container)
    BY <1>s, <1>c, <2>2, RemoveTakesOne
  <2>4. /\ exe_task' = exe_task /\ leaked' = leaked /\ added' = added /\ Holding' = Holding
    BY <1>2 DEF SchedulerRemove, Holding, Held
  <2> QED BY <1>c, <2>1, <2>3, <2>4
<1>3. CASE SchedulerClear
  <2>1. /\ exe_task' = exe_task /\ leaked' = leaked /\ added' = added /\ Holding' = Holding
        /\ container' = <<>> /\ gone' = gone \cup Uids(container)
    BY <1>3 DEF SchedulerClear, Holding, Held
  <2>2. Uids(container') = {} /\ Distinct(container')
    BY <2>1 DEF Uids, Distinct
  <2> QED BY <1>c, <2>1, <2>2
<1>4. CASE \/ SchedulerPause \/ SchedulerRun \/ RunReturns \/ TestTime \/ Sleep \/ Wake
           \/ (\E pause \in BOOLEAN : Signal(pause)) \/ UNCHANGED vars
  <2>1. UNCHANGED <<container, exe_task, added, gone, leaked>>
    BY <1>4 DEF SchedulerPause, SchedulerRun, RunReturns, TestTime, Sleep, Wake, Signal, vars
  <2>2. Holding' = Holding
    BY <2>1 DEF Holding, Held
  <2> QED BY <1>c, <2>1, <2>2
<1>5. CASE TakeTask
  <2>1. /\ 1 \in 1 .. Len(container) /\ exe_task' = container[1]
        /\ Len(container') = Len(container) - 1
        /\ \A k \in 1 .. Len(container) - 1 :
             container'[k] = IF k < 1 THEN container[k] ELSE container[k + 1]
    BY <1>5, <1>s DEF TakeTask
  <2>2. /\ Uids(container') = Uids(container) \ {exe_task'.uid} /\ Distinct(container')
        /\ exe_task'.uid \in Uids(container)
    BY <1>s, <1>c, <2>1, RemoveTakesOne
  <2>3. gone' = gone /\ leaked' = leaked /\ added' = added /\ ~Held /\ Held'
    BY <1>5, <1>s DEF TakeTask
  <2> QED BY <1>c, <1>h, <2>2, <2>3
<1>6. CASE Reschedule
  <2> DEFINE t == [exe_task EXCEPT !.left = exe_task.interval]
  <2>1. exe_task \in Task /\ Held
    BY <1>6, <1>s, <1>h DEF Reschedule
  <2>2. t \in Task /\ t.uid = exe_task.uid
    BY <2>1, SchedulerAssumption DEF Task
  <2>3. Uids(container') = Uids(container) \cup {exe_task.uid} /\ Distinct(container')
    <3> HIDE DEF t
    <3>1. PQEnpqueue(t)
      BY <1>6 DEF Reschedule, t
    <3> QED BY <3>1, <1>s, <1>c, <2>2, InsertAddsOne
  <2>4. gone' = gone /\ leaked' = leaked /\ added' = added /\ exe_task' = NoTask /\ ~Held'
    BY <1>6 DEF Reschedule, Held
  <2>5. exe_task'.uid \notin Uids(container') \cup gone' \cup leaked'
    BY <1>n, <1>z, <2>1, <2>3, <2>4
  <2> QED BY <1>c, <1>h, <2>1, <2>3, <2>4, <2>5
<1>7. CASE RescheduleFails \/ Complete
  <2>1. exe_task \in Task /\ Held
    BY <1>7, <1>s, <1>h DEF RescheduleFails, Complete
  <2>2. container' = container /\ added' = added /\ exe_task' = NoTask /\ ~Held'
    BY <1>7 DEF RescheduleFails, Complete, Held
  <2>3. \/ gone' = gone \cup {exe_task.uid} /\ leaked' = leaked
        \/ leaked' = leaked \cup {exe_task.uid} /\ gone' = gone
    BY <1>7 DEF RescheduleFails, Complete
  <2>4. exe_task'.uid \notin Uids(container') \cup gone' \cup leaked'
    BY <1>n, <1>z, <2>1, <2>2, <2>3
  <2>5. Uids(container') = Uids(container) /\ Distinct(container')
    BY <1>c, <2>2
  <2> QED BY <1>c, <1>h, <2>1, <2>2, <2>3, <2>4, <2>5
<1>8. CASE Tick
  <2>1. \A u \in Task : Sooner(u).uid = u.uid
    BY DEF Task, Sooner
  <2>2. \A k \in 1 .. Len(container) : container[k] \in Task
    BY <1>s, ElementOfSeq
  <2>3. /\ Len(container') = Len(container)
        /\ \A k \in 1 .. Len(container) : container'[k].uid = container[k].uid
    BY <1>8, <1>s, <2>1, <2>2 DEF Tick
  <2>4. Uids(container') = Uids(container) /\ Distinct(container')
    BY <1>s, <1>c, <2>3, TimesDoNotMatter
  <2>5. /\ gone' = gone /\ leaked' = leaked /\ added' = added /\ pc' = pc
        /\ exe_task' = IF Held THEN Sooner(exe_task) ELSE NoTask
    BY <1>8 DEF Tick
  <2>6. exe_task'.uid = exe_task.uid /\ Holding' = Holding
    BY <1>s, <1>h, <2>1, <2>5
  <2> QED BY <1>c, <2>4, <2>5, <2>6
<1> QED BY <1>1, <1>2, <1>3, <1>4, <1>5, <1>6, <1>7, <1>8
        DEF Next, RunStep, UserStep, TaskReturns

(***************************************************************************)
(* However tasks are added, removed, run, scheduled again and lost to a    *)
(* failing allocation, each is in one place: none is scheduled twice and   *)
(* none runs after SchedulerRemove or its last run destroyed it.           *)
(***************************************************************************)
THEOREM EveryTaskInOnePlace == Spec => []TasksConserved
<1>1. Init => TasksConserved
  <2> SUFFICES ASSUME Init PROVE TasksConserved
    OBVIOUS
  <2>1. /\ Uids(container) = {} /\ Distinct(container) /\ gone = {} /\ leaked = {}
        /\ Holding = {} /\ added = 0
    BY DEF Init, Uids, Distinct, Holding, Held
  <2>2. 1 .. 0 = {}
    OBVIOUS
  <2> QED BY <2>1, <2>2, ConservedParts
<1>2. IInv /\ IInv' /\ TasksConserved /\ [Next]_vars => TasksConserved'
  BY StepConserves
<1> QED BY <1>1, <1>2, Invariance, PTL DEF Spec

=============================================================================
