--------------------------- MODULE WatchDogProofs ---------------------------
(***************************************************************************)
(* The watch dog, for every bound on the crashes and the lateness and      *)
(* every highest value of a semaphore: the type of its state.  Each side   *)
(* has at most its two tasks, the one that runs included.                  *)
(***************************************************************************)
EXTENDS WatchDog, SequenceTheorems, TLAPS

Task == [name : {"send", "check", "none"}, left : Int]
UpToOne == {<<>>} \cup {<<a>> : a \in Task}
UpToTwo == UpToOne \cup Task \X Task
Send(l) == [name |-> "send", left |-> l]
Check(l) == [name |-> "check", left |-> l]

\* What every state has.  A task that is taken is not in the queue.
WdTypes == /\ pc \in [Side -> Labels]
           /\ main \in {"work", "wait1", "wait2", "clean", "stopped"}
           /\ queue \in [Side -> UpToTwo] /\ exe \in [Side -> Task]
           /\ \A p \in Side : pc[p] = "sleep" \/ InTask(p) => queue[p] \in UpToOne
           /\ stop_flag \in [Side -> BOOLEAN] /\ end_flag \in [Side -> BOOLEAN]
           /\ sig_counter \in [Side -> 0 .. MaxCount]
           /\ knows \in [Side -> BOOLEAN] /\ removed \in [Side -> BOOLEAN]
           /\ pending \in [Side -> SUBSET {"USR1", "USR2"}]
           /\ sem \in [1 .. 2 -> 0 .. MaxSem]
           /\ crashes \in Nat /\ late \in Nat /\ early \in BOOLEAN /\ astray \in BOOLEAN /\ child \in BOOLEAN

-----------------------------------------------------------------------------
(* The operators *)

\* Taking from a queue of two leaves the other task.
LEMMA TakeTwo ==
  ASSUME NEW a, NEW b
  PROVE  Head(<<a, b>>) = a /\ Tail(<<a, b>>) = <<b>> /\ <<a, b>> # <<>>
OBVIOUS

\* A second that passes brings a queue of one task nearer.
LEMMA SoonerOne ==
  ASSUME NEW a
  PROVE  [i \in DOMAIN <<a>> |-> Sooner(<<a>>[i])] = <<Sooner(a)>>
<1>1. DOMAIN <<a>> = 1 .. 1 
  OBVIOUS
<1> QED BY <1>1

\* Enqueue in an empty queue.
LEMMA EnqueueNone ==
  ASSUME NEW t \in Task
  PROVE  Enqueue(<<>>, t) = <<t>>
<1> DEFINE I == 1 .. Len(<<>>) + 1
<1>1. Len(<<>>) = 0 /\ 1 .. 0 + 1 = {1} /\ 1 .. 0 = {}
  OBVIOUS
<1>2. Place(<<>>, t, 1)
  BY <1>1 DEF Place
<1>3. (CHOOSE i \in 1 .. Len(<<>>) + 1 : Place(<<>>, t, i)) = 1
  BY <1>1, <1>2
<1>4. InsertAt(<<>>, 1, t) = <<t>>
  <2>1. SubSeq(<<>>, 1, 1 - 1) = <<>> /\ SubSeq(<<>>, 1, Len(<<>>)) = <<>>
    OBVIOUS
  <2>2. <<>> \o <<t>> = <<t>> /\ <<t>> \o <<>> = <<t>>
    OBVIOUS
  <2> QED BY <2>1, <2>2 DEF InsertAt
<1> QED BY <1>3, <1>4 DEF Enqueue

\* A sequence of two tasks is the pair of its elements.
LEMMA TwoTasks ==
  ASSUME NEW a \in Task, NEW b \in Task
  PROVE  <<a>> \o <<b>> = <<a, b>>
<1>1. /\ <<a>> \in Seq(Task) /\ <<b>> \in Seq(Task) /\ <<a, b>> \in Seq(Task)
      /\ Len(<<a>>) = 1 /\ Len(<<b>>) = 1 /\ Len(<<a, b>>) = 2
      /\ <<a>>[1] = a /\ <<b>>[1] = b /\ <<a, b>>[1] = a /\ <<a, b>>[2] = b
  OBVIOUS
<1>2. /\ <<a>> \o <<b>> \in Seq(Task) /\ Len(<<a>> \o <<b>>) = 2
      /\ (<<a>> \o <<b>>)[1] = a /\ (<<a>> \o <<b>>)[2] = b
  BY <1>1, ConcatProperties
<1>3. \A i \in 1 .. 2 : (<<a>> \o <<b>>)[i] = <<a, b>>[i]
  BY <1>1, <1>2
<1> QED BY <1>1, <1>2, <1>3, SeqEqual

\* Enqueue in a queue of one: the new task goes before the old one only when it is
\* more than a second sooner.
LEMMA EnqueueOne ==
  ASSUME NEW a \in Task, NEW t \in Task
  PROVE  Enqueue(<<a>>, t) = IF t.left + 1 >= a.left THEN <<a, t>> ELSE <<t, a>>
<1>0. a.left \in Int /\ t.left \in Int
  BY DEF Task
<1>1. Len(<<a>>) = 1 /\ 1 .. 1 + 1 = {1, 2} /\ <<a>>[1] = a
  OBVIOUS
<1>2. InsertAt(<<a>>, 1, t) = <<t, a>> /\ InsertAt(<<a>>, 2, t) = <<a, t>>
  <2>0. <<a>> \in Seq(Task) /\ <<t>> \in Seq(Task) /\ <<a, t>> \in Seq(Task)
    OBVIOUS
  <2>1. SubSeq(<<a>>, 1, 1 - 1) = <<>> /\ SubSeq(<<a>>, 2, Len(<<a>>)) = <<>>
    BY <1>1, SubSeqEmpty
  <2>2. SubSeq(<<a>>, 1, Len(<<a>>)) = <<a>>
    BY <2>0, SubSeqFull
  <2>3. /\ <<>> \o <<t>> = <<t>> /\ <<t>> \o <<a>> = <<t, a>>
        /\ <<a>> \o <<t>> = <<a, t>> /\ <<a, t>> \o <<>> = <<a, t>>
    BY <2>0, TwoTasks, ConcatEmptySeq
  <2>4. InsertAt(<<a>>, 1, t) = (<<>> \o <<t>>) \o <<a>>
    BY <2>1, <2>2 DEF InsertAt
  <2>5. SubSeq(<<a>>, 1, 2 - 1) = <<a>>
    <3>1. 2 - 1 = Len(<<a>>)
      BY <1>1
    <3> QED BY <3>1, <2>2
  <2>6. InsertAt(<<a>>, 2, t) = (<<a>> \o <<t>>) \o <<>>
    BY <2>1, <2>5 DEF InsertAt
  <2> QED BY <2>3, <2>4, <2>6
<1>3. Place(<<a>>, t, 1) <=> t.left + 1 < a.left
  BY <1>0, <1>1 DEF Place, ComparFunc, ADJUSTMENT_TO_INSERT_AFTER_EQUAL
<1>4. Place(<<a>>, t, 2) <=> t.left + 1 >= a.left
  BY <1>0, <1>1 DEF Place, ComparFunc, ADJUSTMENT_TO_INSERT_AFTER_EQUAL
<1>5. (CHOOSE i \in {1, 2} : Place(<<a>>, t, i)) =
        IF t.left + 1 >= a.left THEN 2 ELSE 1
  BY <1>0, <1>3, <1>4
<1>6. Enqueue(<<a>>, t) = InsertAt(<<a>>, IF t.left + 1 >= a.left THEN 2 ELSE 1, t)
  BY <1>1, <1>5 DEF Enqueue
<1> QED BY <1>2, <1>6

\* The queues of at most two tasks are the short ones and the pairs.
LEMMA PairOrLess ==
  ASSUME NEW q
  PROVE  q \in UpToTwo <=> q \in UpToOne \/ \E a \in Task, b \in Task : q = <<a, b>>
BY DEF UpToTwo

\* Enqueue in a queue of at most one gives a queue of at most two.
LEMMA EnqueueShort ==
  ASSUME NEW q \in UpToOne, NEW t \in Task
  PROVE  Enqueue(q, t) \in UpToTwo
<1>1. CASE q = <<>>
  BY <1>1, EnqueueNone DEF UpToTwo, UpToOne
<1>2. ASSUME NEW a \in Task, q = <<a>> PROVE Enqueue(q, t) \in UpToTwo
  <2>1. Enqueue(<<a>>, t) = <<a, t>> \/ Enqueue(<<a>>, t) = <<t, a>>
    BY EnqueueOne
  <2> QED BY <1>2, <2>1, PairOrLess
<1> QED BY <1>1, <1>2 DEF UpToOne

\* Taking from a queue of at most two leaves at most one.
LEMMA TakeShort ==
  ASSUME NEW q \in UpToTwo, q # <<>>
  PROVE  Head(q) \in Task /\ Tail(q) \in UpToOne
<1>1. ASSUME NEW a \in Task, q = <<a>> PROVE Head(q) \in Task /\ Tail(q) \in UpToOne
  <2>1. Head(<<a>>) = a /\ Tail(<<a>>) = <<>>
    OBVIOUS
  <2> QED BY <1>1, <2>1, Zenon DEF UpToOne
<1>2. ASSUME NEW a \in Task, NEW b \in Task, q = <<a, b>>
      PROVE  Head(q) \in Task /\ Tail(q) \in UpToOne
  <2>1. Head(<<a, b>>) = a /\ Tail(<<a, b>>) = <<b>>
    BY TakeTwo
  <2> QED BY <1>2, <2>1, Zenon DEF UpToOne
<1> QED BY <1>1, <1>2, PairOrLess DEF UpToOne

\* The queue each side begins with: the heartbeat, then the check.
LEMMA TasksAre == Tasks = <<Send(1), Check(2)>>
<1>1. Send(1) \in Task /\ Check(2) \in Task
  BY DEF Task, Send, Check
<1>2. NewTask("send") = Send(1) /\ NewTask("check") = Check(2)
  BY DEF NewTask, Interval, SIGNAL_MAX_REPEAT, Send, Check
<1>3. Enqueue(<<>>, Send(1)) = <<Send(1)>>
  BY <1>1, EnqueueNone
<1>4. Enqueue(<<Send(1)>>, Check(2)) = <<Send(1), Check(2)>>
  <2>1. Check(2).left + 1 >= Send(1).left
    BY DEF Send, Check
  <2> QED BY <1>1, <2>1, EnqueueOne
<1> QED BY <1>2, <1>3, <1>4 DEF Tasks

\* A task stays one when a second passes.
LEMMA SoonerType == ASSUME NEW t \in Task PROVE Sooner(t) \in Task
BY DEF Task, Sooner, MaxOverdue

\* A second that passes brings both tasks of a queue nearer.
LEMMA SoonerTwo ==
  ASSUME NEW a, NEW b
  PROVE  [i \in DOMAIN <<a, b>> |-> Sooner(<<a, b>>[i])] = <<Sooner(a), Sooner(b)>>
<1>1. DOMAIN <<a, b>> = 1 .. 2
  OBVIOUS
<1> QED BY <1>1

\* A second that passes keeps the length of a queue.
LEMMA SoonerShort ==
  ASSUME NEW q
  PROVE  /\ q \in UpToOne => [i \in DOMAIN q |-> Sooner(q[i])] \in UpToOne
         /\ q \in UpToTwo => [i \in DOMAIN q |-> Sooner(q[i])] \in UpToTwo
<1> DEFINE r == [i \in DOMAIN q |-> Sooner(q[i])]
<1>1. ASSUME q = <<>> PROVE r = <<>>
  BY <1>1
<1>2. ASSUME NEW a \in Task, q = <<a>> PROVE r \in UpToOne
  <2>1. r = <<Sooner(a)>>
    BY <1>2, SoonerOne
  <2> QED BY <2>1, SoonerType, Zenon DEF UpToOne
<1>3. ASSUME NEW a \in Task, NEW b \in Task, q = <<a, b>> PROVE r \in UpToTwo
  <2>1. r = <<Sooner(a), Sooner(b)>>
    BY <1>3, SoonerTwo
  <2> QED BY <2>1, SoonerType, PairOrLess
<1> HIDE DEF r
<1>4. q \in UpToOne => r \in UpToOne
  BY <1>1, <1>2, Zenon DEF UpToOne
<1>5. q \in UpToTwo => r \in UpToTwo
  BY <1>3, <1>4, PairOrLess
<1> QED BY <1>4, <1>5 DEF r

\* The values the actions assign are of their types.
LEMMA Constants ==
  /\ NoTask \in Task /\ <<>> \in UpToOne /\ UpToOne \subseteq UpToTwo /\ Tasks \in UpToTwo
  /\ \A t \in Task : NewTask(t.name) \in Task
  /\ \A n \in 0 .. MaxCount : Count(n) \in 0 .. MaxCount
  /\ 0 \in 0 .. MaxCount /\ 0 \in 0 .. MaxSem
  /\ Side = {"user", "wd"}
<1>1. NoTask \in Task
  BY DEF NoTask, Task
<1>2. Send(1) \in Task /\ Check(2) \in Task
  BY DEF Task, Send, Check
<1>3. Tasks \in UpToTwo
  BY <1>2, TasksAre, PairOrLess
<1>4. \A t \in Task : NewTask(t.name) \in Task
  BY DEF Task, NewTask, Interval, SIGNAL_MAX_REPEAT
<1>5. \A n \in 0 .. MaxCount : Count(n) \in 0 .. MaxCount
  BY DEF Count, MaxCount
<1>6. 0 \in 0 .. MaxCount /\ 0 \in 0 .. MaxSem
  BY WatchDogAssumption DEF MaxCount
<1> QED BY <1>1, <1>3, <1>4, <1>5, <1>6 DEF UpToOne, UpToTwo, Side

\* A signal that is sent is one of the two.
LEMMA KillType ==
  ASSUME WdTypes, NEW p \in Side, NEW sig \in {"USR1", "USR2"}
  PROVE  Kill(p, sig) \in [Side -> SUBSET {"USR1", "USR2"}]
BY DEF WdTypes, Kill

\* A post keeps the semaphores within their range.
LEMMA PostType ==
  ASSUME WdTypes, NEW p \in Side, NEW i \in 1 .. 2
  PROVE  Post(p, i) \in [1 .. 2 -> 0 .. MaxSem]
BY WatchDogAssumption DEF WdTypes, Post

\* The end of a task puts it back in its own queue only.
LEMMA ReturnsType ==
  ASSUME WdTypes, NEW p \in Side, TaskReturns(p)
  PROVE  /\ queue' \in [Side -> UpToTwo] /\ exe' \in [Side -> Task]
         /\ \A q \in Side : q # p => queue'[q] = queue[q]
<1>1. queue[p] \in UpToOne /\ exe[p] \in Task
  BY DEF WdTypes, TaskReturns, InTask
<1>2. Enqueue(queue[p], NewTask(exe[p].name)) \in UpToTwo
  BY <1>1, Constants, EnqueueShort
<1> QED BY <1>1, <1>2, Constants DEF WdTypes, TaskReturns, InTask

\* A side that ends leaves the other side's state of its type.
LEMMA ClearedTypes ==
  ASSUME WdTypes, NEW p \in Side, Cleared(p)
  PROVE  /\ queue' \in [Side -> UpToTwo] /\ exe' \in [Side -> Task]
         /\ \A q \in Side : queue'[q] = queue[q] \/ queue'[q] = <<>>
         /\ stop_flag' \in [Side -> BOOLEAN] /\ end_flag' \in [Side -> BOOLEAN]
         /\ sig_counter' \in [Side -> 0 .. MaxCount]
         /\ knows' \in [Side -> BOOLEAN] /\ child' \in BOOLEAN
         /\ pending' \in [Side -> SUBSET {"USR1", "USR2"}]
<1>1. sig_counter' \in [Side -> 0 .. MaxCount]
  BY Constants DEF WdTypes, Cleared
<1>2. queue' \in [Side -> UpToTwo] /\ \A q \in Side : queue'[q] = queue[q] \/ queue'[q] = <<>>
  BY Constants DEF WdTypes, Cleared
<1>3. exe' \in [Side -> Task]
  BY Constants DEF WdTypes, Cleared
<1>4. stop_flag' \in [Side -> BOOLEAN] /\ end_flag' \in [Side -> BOOLEAN]
  BY DEF WdTypes, Cleared
<1> QED BY <1>1, <1>2, <1>3, <1>4 DEF WdTypes, Cleared

\* The initial states are of their types.
LEMMA InitTypes == Init => WdTypes
<1> SUFFICES ASSUME Init PROVE WdTypes
  OBVIOUS
<1>1. pc \in [Side -> Labels]
  BY DEF Init, Labels
<1>2. queue \in [Side -> UpToTwo] /\ \A p \in Side : queue[p] \in UpToOne
  BY Constants DEF Init
<1>3. sem \in [1 .. 2 -> 0 .. MaxSem] /\ sig_counter \in [Side -> 0 .. MaxCount]
  BY Constants DEF Init
<1> QED BY <1>1, <1>2, <1>3, Constants DEF Init, WdTypes

\* Every step keeps the types, crashes and stops included.
LEMMA StepTypes == WdTypes /\ [Next]_vars => WdTypes'
<1> SUFFICES ASSUME WdTypes, [Next]_vars PROVE WdTypes'
  OBVIOUS
<1> USE Constants
<1>u. CASE UNCHANGED vars
  BY <1>u DEF vars, WdTypes, InTask
<1>1. CASE UserSetUp
  BY <1>1 DEF UserSetUp, Goto, semUnchanged, schedUnchanged, flagsUnchanged,
              historyUnchanged, WdTypes, InTask, Labels
<1>2. CASE UserBoot
  BY <1>2 DEF UserBoot, Alive, semUnchanged, flagsUnchanged, historyUnchanged, WdTypes, InTask, Labels
<1>3. CASE WDSetUp
  BY <1>3 DEF WDSetUp, Goto, Alive, flagsUnchanged, historyUnchanged, WdTypes, InTask, Labels
<1>4. ASSUME NEW p \in Side, PostSem(p) PROVE WdTypes'
  <2>1. Posts(p) \in 1 .. 2
    BY DEF Posts
  <2> QED BY <1>4, <2>1, PostType DEF PostSem, Goto, schedUnchanged, flagsUnchanged,
                                      historyUnchanged, WdTypes, InTask, Labels
<1>5. ASSUME NEW p \in Side, WaitSem(p) PROVE WdTypes'
  <2>1. Waits(p) \in 1 .. 2
    BY DEF Waits
  <2>2. sem' \in [1 .. 2 -> 0 .. MaxSem]
    BY <1>5, <2>1, WatchDogAssumption DEF WaitSem, WdTypes
  <2> QED BY <1>5, <2>2 DEF WaitSem, Goto, flagsUnchanged, historyUnchanged, WdTypes, InTask, Labels
<1>6. ASSUME NEW p \in Side, TakeTask(p) PROVE WdTypes'
  <2>1. Head(queue[p]) \in Task /\ Tail(queue[p]) \in UpToOne
    BY <1>6, TakeShort DEF TakeTask, WdTypes
  <2> QED BY <1>6, <2>1 DEF TakeTask, Goto, semUnchanged, flagsUnchanged, historyUnchanged,
                            WdTypes, InTask, Labels
<1>7. ASSUME NEW p \in Side, Wake(p) PROVE WdTypes'
  BY <1>7 DEF Wake, Goto, schedUnchanged, semUnchanged, flagsUnchanged, historyUnchanged,
              WdTypes, InTask, Labels
<1>8. ASSUME NEW p \in Side, SendSigusr1Task(p) PROVE WdTypes'
  <2>1. Kill(Other(p), "USR1") \in [Side -> SUBSET {"USR1", "USR2"}]
    BY KillType DEF Other
  <2>2. pending' \in [Side -> SUBSET {"USR1", "USR2"}]
    BY <1>8, <2>1 DEF SendSigusr1Task, WdTypes
  <2> QED BY <1>8, <2>2 DEF SendSigusr1Task, TaskGoesOn, Goto, semUnchanged,
                            historyUnchanged, WdTypes, InTask, Labels
<1>9. CASE UserCheckCounterTask
  BY <1>9 DEF UserCheckCounterTask, Alive, schedUnchanged, semUnchanged,
              flagsUnchanged, historyUnchanged, WdTypes, InTask, Labels
<1>22. CASE TestEndFlag
  BY <1>22 DEF TestEndFlag, TaskGoesOn, Goto, semUnchanged, historyUnchanged, WdTypes,
               InTask, Labels
<1>23. ASSUME NEW p \in Side, RaiseCounter(p) PROVE WdTypes'
  <2>1. sig_counter' \in [Side -> 0 .. MaxCount]
    BY <1>23 DEF RaiseCounter, WdTypes
  <2> QED BY <1>23, <2>1 DEF RaiseCounter, TaskGoesOn, Goto, semUnchanged,
                             historyUnchanged, WdTypes, InTask, Labels
<1>24. CASE WDTestEndFlag
  BY <1>24 DEF WDTestEndFlag, TaskGoesOn, Goto, semUnchanged, historyUnchanged, WdTypes, InTask, Labels
<1>25. ASSUME NEW p \in Side, TaskReturns(p) PROVE WdTypes'
  BY <1>25, ReturnsType DEF TaskReturns, Goto, semUnchanged, flagsUnchanged,
                            historyUnchanged, WdTypes, InTask, Labels
<1>10. CASE UserRunEnds
  <2>1. sem' \in [1 .. 2 -> 0 .. MaxSem]
    BY <1>10, PostType DEF UserRunEnds
  <2>2. queue' \in [Side -> UpToTwo] /\ \A p \in Side : queue'[p] = queue[p] \/ queue'[p] = <<>>
    BY <1>10 DEF UserRunEnds, WdTypes
  <2> QED BY <1>10, <2>1, <2>2 DEF UserRunEnds, Goto, flagsUnchanged, historyUnchanged, WdTypes, InTask, Labels
<1>11. CASE WDCheckCounterTask
  <2>1. sig_counter' \in [Side -> 0 .. MaxCount]
    BY <1>11 DEF WDCheckCounterTask, WdTypes
  <2>2. sem' \in [1 .. 2 -> 0 .. MaxSem]
    BY <1>11, PostType DEF WDCheckCounterTask, WdTypes
  <2> QED BY <1>11, <2>1, <2>2 DEF WDCheckCounterTask, Alive, schedUnchanged,
                                   historyUnchanged, WdTypes, InTask, Labels
<1>12. CASE WDCheckAtEnd
  <2>1. sem' \in [1 .. 2 -> 0 .. MaxSem]
    BY <1>12, PostType DEF WDCheckAtEnd, WdTypes
  <2>2. pc' \in [Side -> Labels] /\ \A p \in Side : pc'[p] \in {pc[p], "dead", "start"}
    BY <1>12 DEF WDCheckAtEnd, WdTypes, Labels
  <2>3. \A p \in Side : pc'[p] = "sleep" \/ InTask(p)' => queue'[p] \in UpToOne
    <3>1. \A p \in Side : queue'[p] = queue[p] \/ queue'[p] = <<>>
      BY <1>12, ClearedTypes DEF WDCheckAtEnd
    <3> QED BY <2>2, <3>1 DEF WdTypes, InTask
  <2>4. main' \in {main, "work"} /\ astray' \in BOOLEAN
    BY <1>12 DEF WDCheckAtEnd, Alive
  <2> QED BY <1>12, <2>1, <2>2, <2>3, <2>4, ClearedTypes DEF WDCheckAtEnd, historyUnchanged, WdTypes
<1>13. CASE WDRunEnds
  BY <1>13, ClearedTypes DEF WDRunEnds, Dies, Goto, semUnchanged, historyUnchanged, WdTypes,
               InTask, Labels
<1>14. CASE MainStep
  <2>1. sem' \in [1 .. 2 -> 0 .. MaxSem]
    <3>1. ASSUME NEW i \in 1 .. 2, StopWait(i) PROVE sem' \in [1 .. 2 -> 0 .. MaxSem]
      BY <3>1, WatchDogAssumption DEF StopWait, WdTypes
    <3>2. CASE CleanUp
      BY <3>2, WatchDogAssumption DEF CleanUp
    <3> QED BY <1>14, <3>1, <3>2 DEF MainStep
  <2>2. removed' \in [Side -> BOOLEAN]
    BY <1>14 DEF MainStep, StopWait, CleanUp, WdTypes
  <2> QED BY <1>14, <2>1, <2>2 DEF MainStep, StopWait, CleanUp, schedUnchanged, flagsUnchanged,
                                   historyUnchanged, WdTypes, InTask
<1>15. ASSUME NEW p \in Side, KilledBySignal(p) PROVE WdTypes'
  BY <1>15, ClearedTypes DEF KilledBySignal, Dies, Goto, semUnchanged, historyUnchanged, WdTypes,
               InTask, Labels
<1>16. ASSUME NEW sig \in {"USR1", "USR2"}, WDHandler(sig) PROVE WdTypes'
  BY <1>16 DEF WDHandler, Goto, Interrupted, semUnchanged, historyUnchanged, WdTypes,
               InTask, Labels
<1>17. ASSUME NEW sig \in {"USR1", "USR2"}, NEW inMain \in BOOLEAN, UserHandler(sig, inMain)
       PROVE  WdTypes'
  BY <1>17, PostType DEF UserHandler, Goto, Interrupted, historyUnchanged, WdTypes, InTask, Labels
<1>18. CASE Tick
  <2>1. late' \in Nat
    BY <1>18 DEF Tick, WdTypes
  <2>2. /\ queue' \in [Side -> UpToTwo]
        /\ \A p \in Side : queue[p] \in UpToOne => queue'[p] \in UpToOne
    BY <1>18, SoonerShort DEF Tick, WdTypes
  <2>3. exe' \in [Side -> Task]
    BY <1>18, SoonerType DEF Tick, WdTypes
  <2> QED BY <1>18, <2>1, <2>2, <2>3 DEF Tick, InTask, semUnchanged, flagsUnchanged, WdTypes
<1>19. CASE StopWatchdog
  BY <1>19, KillType DEF StopWatchdog, schedUnchanged, semUnchanged, WdTypes, InTask
<1>20. CASE Exit
  BY <1>20, ClearedTypes DEF Exit, Dies, Goto, semUnchanged, historyUnchanged, WdTypes, InTask, Labels
<1>21. ASSUME NEW p \in Side, Crash(p) PROVE WdTypes'
  <2>1. crashes' \in Nat
    BY <1>21 DEF Crash, WdTypes
  <2> QED BY <1>21, <2>1, ClearedTypes DEF Crash, Dies, Goto, semUnchanged, WdTypes, InTask, Labels
<1> QED BY <1>u, <1>1, <1>2, <1>3, <1>4, <1>5, <1>6, <1>7, <1>8, <1>9, <1>10, <1>11, <1>12,
           <1>13, <1>14, <1>15, <1>16, <1>17, <1>18, <1>19, <1>20, <1>21,
           <1>22, <1>23, <1>24, <1>25
        DEF Next, Proceed, UserStep, WDStep, SideStep, Deliver
-----------------------------------------------------------------------------
(***************************************************************************)
(* Every reachable state, with crashes, with lateness and with a stop too, *)
(* is of its type, and a side never has a third task.                      *)
(***************************************************************************)
THEOREM WatchDogTypes == Spec => []TypeOK
<1>1. WdTypes => TypeOK
  <2> SUFFICES ASSUME WdTypes PROVE TypeOK
    OBVIOUS
  <2>1. ASSUME NEW q \in UpToOne PROVE Len(q) <= 1 /\ Len(q) <= 2
    <3>1. CASE q = <<>>
      BY <3>1
    <3>2. ASSUME NEW a \in Task, q = <<a>> PROVE Len(q) <= 1 /\ Len(q) <= 2
      BY <3>2
    <3> QED BY <3>1, <3>2, Zenon DEF UpToOne
  <2>2. ASSUME NEW q \in UpToTwo PROVE Len(q) <= 2
    <3>1. ASSUME NEW a \in Task, NEW b \in Task, q = <<a, b>> PROVE Len(q) <= 2
      BY <3>1
    <3> QED BY <2>1, <3>1, PairOrLess, Zenon
  <2> QED BY <2>1, <2>2 DEF WdTypes, TypeOK
<1> QED BY <1>1, InitTypes, StepTypes, PTL DEF Spec

=============================================================================
