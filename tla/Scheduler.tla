----------------------------- MODULE Scheduler -----------------------------
(***************************************************************************)
(* The task scheduler of the watch dog (projects/watch_dog/include:        *)
(* scheduler.c over pqueue.c over sorted_list.c, with task.c).  One thread *)
(* runs SchedulerRun; the tasks' functions call back into the scheduler,   *)
(* and signals arrive at any time: their handlers may call SchedulerPause, *)
(* and they cut a sleep short.                                             *)
(*                                                                         *)
(* Only differences of times matter, so left is time_to_execute less the   *)
(* clock, and a second that passes makes every left smaller by one.        *)
(***************************************************************************)
EXTENDS TaskQueue

CONSTANTS Intervals, \* the intervals tasks are added with, in seconds
          MaxAdds,   \* bound: calls of SchedulerAdd
          MaxLate    \* bound: seconds a task can be late; a task's function
                     \* and the scheduler's own steps take no longer

ASSUME SchedulerAssumption == /\ Intervals \subseteq Nat
                              /\ MaxAdds \in Nat
                              /\ MaxLate \in Nat \ {0}

VARIABLES container,  \* the priority queue, first task first
          stop_flag,
          pc,         \* where SchedulerRun is; "idle": not called
          exe_task,   \* the task taken from the container
          result,     \* what SchedulerRun returned last
          added,      \* tasks added so far; a task's uid is its number
          gone,       \* uids of the tasks destroyed
          leaked,     \* uids of tasks neither scheduled again nor destroyed
          signalled,  \* history: a signal cut the last sleep short
          stalled     \* history: seconds that went by between Run's two
                      \* readings of the clock, the test and sleep's argument

vars == <<container, stop_flag, pc, exe_task, result, added, gone, leaked, signalled,
          stalled>>

CONTINUE_TO_EXECUTE == 0
STOP_EXECUTING == 1
Task == [uid : 1 .. MaxAdds, interval : Intervals, left : Int]
NoTask == [uid |-> 0, interval |-> 0, left |-> 0]
Labels == {"idle", "loop", "test", "doze", "sleep", "oversleep", "act"}

\* malloc leaves stop_flag uninitialised.
Init == /\ container = <<>> /\ stop_flag \in {CONTINUE_TO_EXECUTE, STOP_EXECUTING}
        /\ pc = "idle" /\ exe_task = NoTask /\ result = "none"
        /\ added = 0 /\ gone = {} /\ leaked = {} /\ signalled = FALSE /\ stalled = 0

Uids(q) == {q[i].uid : i \in DOMAIN q}
Running == pc # "idle"
Callable == pc \in {"idle", "act"} \* the user's code runs, in a task or outside

\* The list has memory for the task; RescheduleFails is the other case.
PQEnpqueue(t) == \E i \in 1 .. Len(container) + 1 :
                   Place(container, t, i) /\ container' = InsertAt(container, i, t)

-----------------------------------------------------------------------------
(* Operations of the user, outside Run or from a task's function *)

SchedulerAdd == /\ Callable /\ added < MaxAdds /\ added' = added + 1
                /\ \E n \in Intervals :
                     PQEnpqueue([uid |-> added', interval |-> n, left |-> n])
                /\ UNCHANGED <<stop_flag, pc, exe_task, result, gone, leaked,
                               signalled, stalled>>

\* The task that is running is not in the container: it cannot be removed.
SchedulerRemove == /\ Callable
                   /\ \E i \in DOMAIN container :
                        /\ container' = RemoveAt(container, i)
                        /\ gone' = gone \cup {container[i].uid}
                   /\ UNCHANGED <<stop_flag, pc, exe_task, result, added, leaked,
                                  signalled, stalled>>

SchedulerClear == /\ Callable /\ container # <<>>
                  /\ container' = <<>> /\ gone' = gone \cup Uids(container)
                  /\ UNCHANGED <<stop_flag, pc, exe_task, result, added, leaked,
                                 signalled, stalled>>

SchedulerPause == /\ Callable /\ stop_flag' = STOP_EXECUTING
                  /\ UNCHANGED <<container, pc, exe_task, result, added, gone, leaked,
                                 signalled, stalled>>

-----------------------------------------------------------------------------
(* SchedulerRun *)

SchedulerRun == /\ pc = "idle" /\ pc' = "loop" /\ stop_flag' = CONTINUE_TO_EXECUTE
                /\ UNCHANGED <<container, exe_task, result, added, gone, leaked,
                               signalled, stalled>>

\* Mutant of TakeTask: the last task is taken.
TakeLast == /\ pc = "loop" /\ container # <<>> /\ stop_flag = CONTINUE_TO_EXECUTE
            /\ exe_task' = container[Len(container)]
            /\ container' = SubSeq(container, 1, Len(container) - 1)
            /\ pc' = "test" /\ signalled' = FALSE
            /\ UNCHANGED <<stop_flag, result, added, gone, leaked, stalled>>

\* Mutant of TakeTask: the flag is not looked at.
TakeAnyway == /\ pc = "loop" /\ container # <<>>
              /\ exe_task' = Head(container) /\ container' = Tail(container)
              /\ pc' = "test" /\ signalled' = FALSE
              /\ UNCHANGED <<stop_flag, result, added, gone, leaked, stalled>>

TakeTask == /\ pc = "loop" /\ container # <<>> /\ stop_flag = CONTINUE_TO_EXECUTE
            /\ exe_task' = Head(container) /\ container' = Tail(container)
            /\ pc' = "test" /\ signalled' = FALSE
            /\ UNCHANGED <<stop_flag, result, added, gone, leaked, stalled>>

RunReturns == /\ pc = "loop" /\ (container = <<>> \/ stop_flag = STOP_EXECUTING)
              /\ pc' = "idle"
              /\ result' = IF container = <<>> THEN "FINISH_ALL_WORK" ELSE "STOPPED"
              /\ UNCHANGED <<container, stop_flag, exe_task, added, gone, leaked,
                             signalled, stalled>>

TestTime == /\ pc = "test" /\ pc' = IF 0 < exe_task.left THEN "doze" ELSE "act"
            /\ stalled' = 0
            /\ UNCHANGED <<container, stop_flag, exe_task, result, added, gone, leaked,
                           signalled>>

\* The clock is read again for sleep's argument.  It is unsigned: a task that
\* has become late between the two readings is slept on for 2^32 seconds.
Sleep == /\ pc = "doze" /\ pc' = IF exe_task.left < 0 THEN "oversleep" ELSE "sleep"
         /\ UNCHANGED <<container, stop_flag, exe_task, result, added, gone, leaked,
                        signalled, stalled>>

Wake == /\ pc = "sleep" /\ exe_task.left <= 0 /\ pc' = "act"
        /\ UNCHANGED <<container, stop_flag, exe_task, result, added, gone, leaked,
                       signalled, stalled>>

\* Mutant of Reschedule: the time to execute is not set again.
RescheduleSameTime == /\ pc = "act" /\ pc' = "loop" /\ exe_task' = NoTask
                      /\ PQEnpqueue(exe_task)
                      /\ UNCHANGED <<stop_flag, result, added, gone, leaked,
                                     signalled, stalled>>

\* The task's function returns 0: it is scheduled again.
Reschedule == /\ pc = "act" /\ pc' = "loop" /\ exe_task' = NoTask
              /\ PQEnpqueue([exe_task EXCEPT !.left = exe_task.interval])
              /\ UNCHANGED <<stop_flag, result, added, gone, leaked,
                             signalled, stalled>>

\* The list has no memory for it: Run returns with the task in nobody's hands.
RescheduleFails == /\ pc = "act" /\ pc' = "idle" /\ result' = "ERROR"
                   /\ leaked' = leaked \cup {exe_task.uid} /\ exe_task' = NoTask
                   /\ UNCHANGED <<container, stop_flag, added, gone,
                                  signalled, stalled>>

\* Mutant of Complete: a task that is done is destroyed and scheduled again.
CompleteAgain == /\ pc = "act" /\ pc' = "loop" /\ exe_task' = NoTask
                 /\ PQEnpqueue([exe_task EXCEPT !.left = exe_task.interval])
                 /\ gone' = gone \cup {exe_task.uid}
                 /\ UNCHANGED <<stop_flag, result, added, leaked,
                                signalled, stalled>>

Complete == /\ pc = "act" /\ pc' = "loop" /\ exe_task' = NoTask
            /\ gone' = gone \cup {exe_task.uid}
            /\ UNCHANGED <<container, stop_flag, result, added, leaked,
                           signalled, stalled>>

-----------------------------------------------------------------------------
(* Signals and time *)

Asleep == pc \in {"sleep", "oversleep"}

\* sleep returns at a signal, and Run does not look at the clock again.
Signal(pause) == /\ Asleep \/ (pause /\ Running)
                 /\ stop_flag' = IF pause THEN STOP_EXECUTING ELSE stop_flag
                 /\ pc' = IF Asleep THEN "act" ELSE pc
                 /\ signalled' = (signalled \/ Asleep)
                 /\ UNCHANGED <<container, exe_task, result, added, gone, leaked, stalled>>

Sooner(t) == [t EXCEPT !.left = t.left - 1]
Held == exe_task # NoTask

Tick == /\ \A i \in DOMAIN container : container[i].left > - MaxLate
        /\ Held => exe_task.left > - MaxLate
        /\ container' = [i \in DOMAIN container |-> Sooner(container[i])]
        /\ exe_task' = IF Held THEN Sooner(exe_task) ELSE NoTask
        /\ stalled' = IF pc = "doze" THEN stalled + 1 ELSE stalled
        /\ UNCHANGED <<stop_flag, pc, result, added, gone, leaked, signalled>>

RunStep == \/ TakeTask \/ RunReturns \/ TestTime \/ Sleep \/ Wake
UserStep == \/ SchedulerAdd \/ SchedulerRemove \/ SchedulerClear \/ SchedulerPause
            \/ SchedulerRun
TaskReturns == Reschedule \/ RescheduleFails \/ Complete

Next == \/ RunStep \/ UserStep \/ TaskReturns
        \/ \E pause \in BOOLEAN : Signal(pause)
        \/ Tick

\* The thread is scheduled, the tasks' functions return and time passes.
Fairness == WF_vars(RunStep) /\ WF_vars(TaskReturns) /\ WF_vars(Tick)

Spec == Init /\ [][Next]_vars /\ Fairness

-----------------------------------------------------------------------------

(* The variables are of their types; only a running task is held. *)
TypeOK == /\ container \in Seq(Task)
          /\ stop_flag \in {CONTINUE_TO_EXECUTE, STOP_EXECUTING}
          /\ pc \in Labels
          /\ exe_task \in Task \cup {NoTask}
          /\ Held <=> pc \notin {"idle", "loop"}
          /\ result \in {"none", "FINISH_ALL_WORK", "STOPPED", "ERROR"}
          /\ added \in 0 .. MaxAdds
          /\ gone \subseteq 1 .. MaxAdds /\ leaked \subseteq 1 .. MaxAdds
          /\ signalled \in BOOLEAN /\ stalled \in Nat

(***************************************************************************)
(* The container is in the order of the tasks' times up to one second:     *)
(* ComparFunc adds one to insert after equals, and SortedListInsert passes *)
(* equals already, so a task may stand behind one due a second later, but  *)
(* never behind one due two seconds later, whatever is added and removed.  *)
(***************************************************************************)
NearlySorted == \A i, j \in 1 .. Len(container) :
                  i < j => container[i].left <= container[j].left + 1

(***************************************************************************)
(* While Run sleeps until its task is due no task in the container is      *)
(* overdue.  The one sleep that goes past a task's time is that of 2^32    *)
(* seconds (Sleep above), and two whole seconds must go by between the     *)
(* test of the time and the reading of the clock for sleep's argument for  *)
(* Run to enter it.                                                        *)
(***************************************************************************)
SleepsOverNothing ==
  /\ pc = "sleep" /\ exe_task.left > 0 =>
       \A i \in 1 .. Len(container) : container[i].left >= 0
  /\ pc = "oversleep" => stalled >= 2

(***************************************************************************)
(* A task added is in one place: once in the container, running, destroyed *)
(* or, after an ERROR, leaked.  None runs after it was destroyed, and none *)
(* is scheduled twice.                                                     *)
(***************************************************************************)
TasksConserved ==
  /\ 1 .. added = Uids(container) \cup gone \cup leaked
                    \cup (IF Held THEN {exe_task.uid} ELSE {})
  /\ \A i, j \in 1 .. Len(container) : i # j => container[i].uid # container[j].uid
  /\ Uids(container) \cap (gone \cup leaked) = {} /\ gone \cap leaked = {}
  /\ exe_task.uid \notin Uids(container) \cup gone \cup leaked

(***************************************************************************)
(* While Run goes on, each task in the container gets its turn, also next  *)
(* to tasks of interval 0: no task starves.  The exception is the sleep of *)
(* 2^32 seconds (Sleep above), which no wake-up is sure to end.            *)
(***************************************************************************)
TaskGetsItsTurn == \A u \in 1 .. MaxAdds :
  Running /\ u \in Uids(container)
    ~> exe_task.uid = u \/ u \in gone \/ ~Running \/ pc = "oversleep"

(* After SchedulerPause Run returns, unless it sleeps for 2^32 seconds. *)
PauseStopsRun == Running /\ stop_flag = STOP_EXECUTING ~> ~Running \/ pc = "oversleep"

=============================================================================
