------------------------------ MODULE WatchDog ------------------------------
(***************************************************************************)
(* The watch dog (projects/watch_dog): a user process with a watch thread, *)
(* and the process watch_dog_app that it forks.  Each runs a scheduler     *)
(* with two tasks: one sends SIGUSR1 to the other side and counts, one     *)
(* checks the count, which the other side's SIGUSR1 sets to zero, and      *)
(* forks the other side again when it is too high.  Two semaphores make    *)
(* the two sides meet at the start, and SIGUSR2 ends both.                 *)
(*                                                                         *)
(* A second passes when nothing else can happen (Quiet), or while some     *)
(* step is still to come: then somebody is late by that second.  A signal  *)
(* is handled between any two steps.  fork and exec succeed.  No semop and *)
(* no sleep is restarted after a signal, and nobody looks at their         *)
(* results, so a signal ends them.                                         *)
(***************************************************************************)
EXTENDS TaskQueue

CONSTANTS MaxFaults, \* bound: crashes of either side and seconds of lateness
          MaxSem,    \* the highest value of a semaphore, 32767 in Linux
          StopFaults \* bound: those of them that come before StopWatchdog is called

ASSUME WatchDogAssumption == /\ MaxFaults \in Nat /\ MaxSem \in Nat \ {0}
                             /\ StopFaults \in Nat

VARIABLES pc,        \* the watch thread of "user" and the process "wd"
          main,      \* the user's main thread
          queue,     \* each side's scheduler: its container,
          exe,       \* the task taken from it,
          stop_flag, \* and its flag
          sig_counter, end_flag,
          knows,     \* the pid a side sends to is the other side's (wd_pid_g,
                     \* thread_pid)
          child,     \* the user process was forked by the wd that lives
          pending,   \* signals sent to a side and not delivered yet
          sem,       \* the values of sem_id1 and sem_id2
          removed,   \* the semaphores a side has the ids of are removed
          crashes,
          late,      \* seconds that passed while somebody had a step to do
          early,     \* history: Stop was called when not both sides were in Run
          astray     \* a side was forked while it lived, or the user after
                     \* StopWatchdog; the model ends there

vars == <<pc, main, queue, exe, stop_flag, sig_counter, end_flag, knows, child,
          pending, sem, removed, crashes, late, early, astray>>

Side == {"user", "wd"}
Other(p) == IF p = "user" THEN "wd" ELSE "user"
Posts(p) == IF p = "user" THEN 1 ELSE 2      \* the semaphore p posts
Waits(p) == IF p = "user" THEN 2 ELSE 1      \* the semaphore p waits for
SIGNAL_MAX_REPEAT == 2
MaxCount == 3                                \* counts above are not told apart
MaxOverdue == 3                              \* nor is a task later than this

Interval(name) == IF name = "send" THEN 1 ELSE SIGNAL_MAX_REPEAT
NewTask(name) == [name |-> name, left |-> Interval(name)]
NoTask == [name |-> "none", left |-> 0]
Enqueue(q, t) == InsertAt(q, CHOOSE i \in 1 .. Len(q) + 1 : Place(q, t, i), t)
Tasks == Enqueue(Enqueue(<<>>, NewTask("send")), NewTask("check"))

Alive(p) == pc[p] # "dead"
InTask(p) == pc[p] \in {"act", "flag", "count", "check", "return"}
InRun(p) == pc[p] \in {"loop", "sleep"} \/ InTask(p) \* in SchedulerRun
Blind(p) == pc[p] = "start" \* between exec and sigaction

Init == /\ pc = [p \in Side |-> IF p = "user" THEN "start" ELSE "dead"]
        /\ main = "work"
        /\ queue = [p \in Side |-> <<>>] /\ exe = [p \in Side |-> NoTask]
        /\ stop_flag = [p \in Side |-> FALSE] /\ end_flag = [p \in Side |-> FALSE]
        /\ sig_counter = [p \in Side |-> 0]
        /\ knows = [p \in Side |-> FALSE] /\ child = FALSE
        /\ pending = [p \in Side |-> {}]
        /\ sem = [i \in 1 .. 2 |-> 0] /\ removed = [p \in Side |-> FALSE]
        /\ crashes = 0 /\ late = 0
        /\ early = FALSE /\ astray = FALSE

Goto(p, l) == pc' = [pc EXCEPT ![p] = l]

\* Side p ends: nothing of it is left, and its signals are gone.
Cleared(p) == /\ queue' = [queue EXCEPT ![p] = <<>>] /\ exe' = [exe EXCEPT ![p] = NoTask]
              /\ stop_flag' = [stop_flag EXCEPT ![p] = FALSE]
              /\ end_flag' = [end_flag EXCEPT ![p] = FALSE]
              /\ sig_counter' = [sig_counter EXCEPT ![p] = 0]
              /\ knows' = [knows EXCEPT ![p] = FALSE]
              /\ pending' = [pending EXCEPT ![p] = {}]
              /\ child' = FALSE
Dies(p) == Goto(p, "dead") /\ Cleared(p)

Kill(p, sig) == IF Alive(p) THEN [pending EXCEPT ![p] = @ \cup {sig}] ELSE pending
Post(p, i) == IF removed[p] \/ sem[i] = MaxSem THEN sem ELSE [sem EXCEPT ![i] = @ + 1]

historyUnchanged == UNCHANGED <<crashes, late, early>>
semUnchanged == UNCHANGED <<sem, removed>>
flagsUnchanged == UNCHANGED <<sig_counter, end_flag>>
schedUnchanged == UNCHANGED <<queue, exe, stop_flag>>

-----------------------------------------------------------------------------
(* Start *)

\* StartWatchdog: the handlers, the semaphores (found again after a crash),
\* the scheduler, the thread.
UserSetUp == /\ pc["user"] = "start" /\ Goto("user", "boot")
             /\ UNCHANGED <<main, knows, child, pending, astray>>
             /\ semUnchanged /\ schedUnchanged /\ flagsUnchanged /\ historyUnchanged

\* WatchDogThread up to the semaphores: the wd is forked unless it is the parent.
UserBoot == /\ pc["user"] = "boot"
            /\ pc' = [pc EXCEPT !["user"] = "post",
                                !["wd"] = IF child THEN @ ELSE "start"]
            /\ astray' = (~child /\ Alive("wd"))
            /\ knows' = [knows EXCEPT !["user"] = TRUE]
            /\ queue' = [queue EXCEPT !["user"] = Tasks]
            /\ UNCHANGED <<main, exe, stop_flag, child, pending>>
            /\ semUnchanged /\ flagsUnchanged /\ historyUnchanged

\* main of watch_dog_app up to the semaphores; a dead parent's pid is not its own.
WDSetUp == /\ pc["wd"] = "start" /\ Goto("wd", "post")
           /\ knows' = [knows EXCEPT !["wd"] = Alive("user")]
           /\ queue' = [queue EXCEPT !["wd"] = Tasks]
           /\ removed' = [removed EXCEPT !["wd"] = FALSE]
           /\ UNCHANGED <<main, exe, stop_flag, child, pending, sem, astray>>
           /\ flagsUnchanged /\ historyUnchanged

PostSem(p) == /\ pc[p] = "post" /\ Goto(p, "wait") /\ sem' = Post(p, Posts(p))
              /\ UNCHANGED <<main, knows, child, pending, removed, astray>>
              /\ schedUnchanged /\ flagsUnchanged /\ historyUnchanged

\* SchedulerRun begins: it clears the scheduler's flag.
WaitSem(p) == /\ pc[p] = "wait" /\ (sem[Waits(p)] > 0 \/ removed[p])
              /\ sem' = IF removed[p] THEN sem ELSE [sem EXCEPT ![Waits(p)] = @ - 1]
              /\ Goto(p, "loop") /\ stop_flag' = [stop_flag EXCEPT ![p] = FALSE]
              /\ UNCHANGED <<main, queue, exe, knows, child, pending, removed, astray>>
              /\ flagsUnchanged /\ historyUnchanged

-----------------------------------------------------------------------------
(* SchedulerRun, as in the module Scheduler *)

\* It sleeps unless the task is due.
TakeTask(p) == /\ pc[p] = "loop" /\ queue[p] # <<>> /\ ~stop_flag[p]
               /\ exe' = [exe EXCEPT ![p] = Head(queue[p])]
               /\ queue' = [queue EXCEPT ![p] = Tail(@)]
               /\ Goto(p, IF 0 < Head(queue[p]).left THEN "sleep" ELSE "act")
               /\ UNCHANGED <<main, stop_flag, knows, child, pending, astray>>
               /\ semUnchanged /\ flagsUnchanged /\ historyUnchanged

RunOver(p) == pc[p] = "loop" /\ (queue[p] = <<>> \/ stop_flag[p])

Wake(p) == /\ pc[p] = "sleep" /\ exe[p].left <= 0 /\ Goto(p, "act")
           /\ UNCHANGED <<main, knows, child, pending, astray>>
           /\ schedUnchanged /\ semUnchanged /\ flagsUnchanged /\ historyUnchanged

\* Run returns: the thread destroys the scheduler and posts sem_id1.
UserRunEnds == /\ RunOver("user") /\ Goto("user", "ended")
               /\ queue' = [queue EXCEPT !["user"] = <<>>] /\ sem' = Post("user", 1)
               /\ UNCHANGED <<main, exe, stop_flag, knows, child, pending, removed, astray>>
               /\ flagsUnchanged /\ historyUnchanged

WDRunEnds == /\ RunOver("wd") /\ Dies("wd")
             /\ UNCHANGED <<main, astray>> /\ semUnchanged /\ historyUnchanged

\* The statements of the two tasks, one by one: a handler, and in the user
\* process the main thread, may run between any two.
TaskGoesOn(p, l) == /\ Goto(p, l) /\ UNCHANGED <<main, queue, exe, end_flag>>
                    /\ historyUnchanged

\* SIGUSR1 to the other side.
SendSigusr1Task(p) ==
  /\ pc[p] = "act" /\ exe[p].name = "send"
  /\ TaskGoesOn(p, IF p = "user" THEN "flag" ELSE "count")
  /\ pending' = IF knows[p] THEN Kill(Other(p), "USR1") ELSE pending
  /\ UNCHANGED <<stop_flag, sig_counter, knows, child, astray>> /\ semUnchanged

\* The watch thread's tasks pause the scheduler when the program has ended.
TestEndFlag == /\ \/ pc["user"] = "act" /\ exe["user"].name = "check"
                  \/ pc["user"] = "flag"
               /\ TaskGoesOn("user", IF pc["user"] = "act" THEN "check" ELSE "count")
               /\ stop_flag' = [stop_flag EXCEPT !["user"] = @ \/ end_flag["user"]]
               /\ UNCHANGED <<sig_counter, knows, child, pending, astray>> /\ semUnchanged

Count(n) == IF n < MaxCount THEN n + 1 ELSE n

\* Mutant of RaiseCounter: the count is not raised.
RaiseNothing(p) == /\ pc[p] = "count" /\ TaskGoesOn(p, "return")
                   /\ UNCHANGED <<stop_flag, sig_counter, knows, child, pending, astray>>
                   /\ semUnchanged

\* sig_counter is an atomic_int: ++ is one step.
RaiseCounter(p) == /\ pc[p] = "count" /\ TaskGoesOn(p, "return")
                   /\ sig_counter' = [sig_counter EXCEPT ![p] = Count(@)]
                   /\ UNCHANGED <<stop_flag, knows, child, pending, astray>>
                   /\ semUnchanged

\* The watch thread's check.  The count stays as it is when the wd is forked.
UserCheckCounterTask ==
  /\ pc["user"] = "check"
  /\ LET fork == SIGNAL_MAX_REPEAT <= sig_counter["user"]
     IN  /\ pc' = [pc EXCEPT !["user"] = "return", !["wd"] = IF fork THEN "start" ELSE @]
         /\ astray' = (fork /\ Alive("wd"))
         /\ knows' = [knows EXCEPT !["user"] = @ \/ fork]
         /\ child' = (child /\ ~fork)
  /\ UNCHANGED <<main, pending>>
  /\ schedUnchanged /\ semUnchanged /\ flagsUnchanged /\ historyUnchanged

WDTestEndFlag ==
  /\ pc["wd"] = "act" /\ exe["wd"].name = "check" /\ ~end_flag["wd"]
  /\ TaskGoesOn("wd", "check")
  /\ UNCHANGED <<stop_flag, sig_counter, knows, child, pending, astray>> /\ semUnchanged

\* The wd's check.
WDCheckCounterTask ==
  /\ pc["wd"] = "check"
  /\ LET fork == SIGNAL_MAX_REPEAT < sig_counter["wd"]
     IN  /\ pc' = [pc EXCEPT !["wd"] = "return", !["user"] = IF fork THEN "start" ELSE @]
         /\ astray' = (fork /\ (Alive("user") \/ main = "stopped"))
         /\ knows' = [knows EXCEPT !["wd"] = @ \/ fork]
         /\ child' = (child \/ fork)
         /\ sem' = IF fork THEN Post("wd", 2) ELSE sem
         /\ main' = IF fork /\ ~astray' THEN "work" ELSE main
         /\ sig_counter' = [sig_counter EXCEPT !["wd"] = IF fork THEN 0 ELSE @]
  /\ UNCHANGED <<end_flag, pending, removed>>
  /\ schedUnchanged /\ historyUnchanged

\* A task returns end_flag: 0 schedules it again.
TaskReturns(p) == /\ pc[p] = "return" /\ Goto(p, "loop")
                  /\ queue' = [queue EXCEPT ![p] = IF end_flag[p] THEN @
                                    ELSE Enqueue(@, NewTask(exe[p].name))]
                  /\ exe' = [exe EXCEPT ![p] = NoTask]
                  /\ UNCHANGED <<main, stop_flag, knows, child, pending, astray>>
                  /\ semUnchanged /\ flagsUnchanged /\ historyUnchanged

\* At the end it destroys the scheduler, may still fork the user, and returns
\* to the SchedulerRun of the freed scheduler: undefined, and taken as the end
\* of the process.
WDCheckAtEnd ==
  /\ pc["wd"] = "act" /\ exe["wd"].name = "check" /\ end_flag["wd"]
  /\ LET fork == SIGNAL_MAX_REPEAT < sig_counter["wd"]
     IN  /\ pc' = [pc EXCEPT !["wd"] = "dead", !["user"] = IF fork THEN "start" ELSE @]
         /\ astray' = (fork /\ (Alive("user") \/ main = "stopped"))
         /\ sem' = IF fork THEN Post("wd", 2) ELSE sem
         /\ main' = IF fork /\ ~astray' THEN "work" ELSE main
  /\ Cleared("wd")
  /\ UNCHANGED removed /\ historyUnchanged

-----------------------------------------------------------------------------
(* Signals *)

\* A blocked call of the watch thread or of the wd ends when a signal arrives.
Interrupted(p) == CASE pc[p] = "sleep" -> "act" [] pc[p] = "wait" -> "loop" [] OTHER -> pc[p]

\* With no handler yet, a signal ends the process.
KilledBySignal(p) == /\ pending[p] # {} /\ Blind(p) /\ Dies(p)
                     /\ UNCHANGED <<main, astray>> /\ semUnchanged /\ historyUnchanged

\* Mutant of WDHandler: SIGUSR2 is not answered.
WDHandlerNoAnswer(sig) ==
  /\ sig \in pending["wd"] /\ ~Blind("wd") /\ Goto("wd", Interrupted("wd"))
  /\ pending' = [pending EXCEPT !["wd"] = @ \ {sig}]
  /\ end_flag' = [end_flag EXCEPT !["wd"] = @ \/ sig = "USR2"]
  /\ stop_flag' = [stop_flag EXCEPT !["wd"] = (@ \/ sig = "USR2") /\ pc["wd"] # "wait"]
  /\ sig_counter' = [sig_counter EXCEPT !["wd"] = IF sig = "USR1" THEN 0 ELSE @]
  /\ UNCHANGED <<main, queue, exe, knows, child, astray>>
  /\ semUnchanged /\ historyUnchanged

\* Mutant of WDHandler: SIGUSR1 does not clear the count.
WDHandlerNoReset(sig) ==
  /\ sig \in pending["wd"] /\ ~Blind("wd") /\ Goto("wd", Interrupted("wd"))
  /\ end_flag' = [end_flag EXCEPT !["wd"] = @ \/ sig = "USR2"]
  /\ stop_flag' = [stop_flag EXCEPT !["wd"] = (@ \/ sig = "USR2") /\ pc["wd"] # "wait"]
  /\ pending' = [pending EXCEPT !["wd"] = @ \ {sig},
                                !["user"] = IF sig = "USR2" /\ Alive("user")
                                            THEN @ \cup {sig} ELSE @]
  /\ UNCHANGED <<main, queue, exe, sig_counter, knows, child, astray>>
  /\ semUnchanged /\ historyUnchanged

\* The wd's handlers; stop_flag is cleared when the wait for sem_id1 ends.
WDHandler(sig) ==
  /\ sig \in pending["wd"] /\ ~Blind("wd") /\ Goto("wd", Interrupted("wd"))
  /\ sig_counter' = [sig_counter EXCEPT !["wd"] = IF sig = "USR1" THEN 0 ELSE @]
  /\ end_flag' = [end_flag EXCEPT !["wd"] = @ \/ sig = "USR2"]
  /\ stop_flag' = [stop_flag EXCEPT !["wd"] = (@ \/ sig = "USR2") /\ pc["wd"] # "wait"]
  /\ pending' = [pending EXCEPT !["wd"] = @ \ {sig},
                                !["user"] = IF sig = "USR2" /\ knows["wd"] /\ Alive("user")
                                            THEN @ \cup {sig} ELSE @]
  /\ UNCHANGED <<main, queue, exe, knows, child, astray>>
  /\ semUnchanged /\ historyUnchanged

\* The user's handlers run in either thread, and end the call it is blocked in.
UserHandler(sig, inMain) ==
  /\ sig \in pending["user"] /\ ~Blind("user")
  /\ pending' = [pending EXCEPT !["user"] = @ \ {sig}]
  /\ sig_counter' = [sig_counter EXCEPT !["user"] = IF sig = "USR1" THEN 0 ELSE @]
  /\ sem' = IF sig = "USR2" THEN Post("user", 2) ELSE sem
  /\ IF inMain
     THEN /\ main' = CASE main = "wait1" -> "wait2" [] main = "wait2" -> "clean"
                       [] OTHER -> main
          /\ UNCHANGED <<pc, stop_flag>>
     ELSE /\ pc["user"] # "ended" /\ Goto("user", Interrupted("user"))
          /\ stop_flag' = [stop_flag EXCEPT !["user"] = @ /\ pc["user"] # "wait"]
          /\ UNCHANGED main
  /\ UNCHANGED <<queue, exe, end_flag, knows, child, removed, astray>>
  /\ historyUnchanged

-----------------------------------------------------------------------------
(* Stop *)

Started == pc["user"] \notin {"dead", "start"}

\* kill(wd_pid_g); with no wd yet the pid is 0 and the signal comes back.
StopWatchdog == /\ Started /\ main = "work" /\ main' = "wait1"
                /\ crashes + late <= StopFaults
                /\ end_flag' = [end_flag EXCEPT !["user"] = TRUE]
                /\ pending' = Kill(IF knows["user"] THEN "wd" ELSE "user", "USR2")
                /\ early' = (early \/ ~(InRun("user") /\ InRun("wd")))
                /\ UNCHANGED <<pc, sig_counter, knows, child, crashes, late, astray>>
                /\ schedUnchanged /\ semUnchanged

StopWait(i) == /\ Started /\ main = (IF i = 1 THEN "wait1" ELSE "wait2")
               /\ sem[i] > 0 /\ sem' = [sem EXCEPT ![i] = @ - 1]
               /\ main' = IF i = 1 THEN "wait2" ELSE "clean"
               /\ UNCHANGED <<pc, knows, child, pending, removed, astray>>
               /\ schedUnchanged /\ flagsUnchanged /\ historyUnchanged

CleanUp == /\ Started /\ main = "clean" /\ main' = "stopped"
           /\ sem' = [i \in 1 .. 2 |-> 0]
           /\ removed' = [p \in Side |-> p = "user" \/ pc["wd"] \notin {"dead", "start"}]
           /\ UNCHANGED <<pc, knows, child, pending, astray>>
           /\ schedUnchanged /\ flagsUnchanged /\ historyUnchanged

\* The program goes on without the watch dog, and returns from main.
Exit == /\ Started /\ main = "stopped" /\ Dies("user")
        /\ UNCHANGED <<main, astray>> /\ semUnchanged /\ historyUnchanged

-----------------------------------------------------------------------------
(* Crashes and time *)

Crash(p) == /\ crashes + late < MaxFaults /\ crashes' = crashes + 1
            /\ Alive(p) /\ Dies(p)
            /\ UNCHANGED <<main, late, early, astray>> /\ semUnchanged

Resting(p) == \/ pc[p] \in {"dead", "ended"}
              \/ pc[p] = "sleep" /\ exe[p].left > 0
              \/ pc[p] = "wait" /\ sem[Waits(p)] = 0 /\ ~removed[p]
Quiet == /\ \A p \in Side : Resting(p) /\ pending[p] = {}
         /\ Started => /\ main = "wait1" => sem[1] = 0
                       /\ main = "wait2" => sem[2] = 0
                       /\ main # "clean"

Sooner(t) == [t EXCEPT !.left = IF @ > - MaxOverdue THEN @ - 1 ELSE @]
Tick == /\ \E p \in Side : InRun(p)
        /\ \/ Quiet /\ UNCHANGED late
           \/ ~Quiet /\ crashes + late < MaxFaults /\ late' = late + 1
        /\ queue' = [p \in Side |-> [i \in DOMAIN queue[p] |-> Sooner(queue[p][i])]]
        /\ exe' = [p \in Side |-> IF exe[p] = NoTask THEN NoTask ELSE Sooner(exe[p])]
        /\ UNCHANGED <<pc, main, stop_flag, knows, child, pending, crashes, early,
                       astray>>
        /\ semUnchanged /\ flagsUnchanged

SideStep(p) == \/ PostSem(p) \/ WaitSem(p) \/ TakeTask(p) \/ Wake(p)
               \/ SendSigusr1Task(p) \/ RaiseCounter(p) \/ TaskReturns(p)
MainStep == StopWait(1) \/ StopWait(2) \/ CleanUp
UserStep == UserSetUp \/ UserBoot \/ SideStep("user") \/ TestEndFlag
            \/ UserCheckCounterTask \/ UserRunEnds
WDStep == WDSetUp \/ SideStep("wd") \/ WDTestEndFlag \/ WDCheckCounterTask
          \/ WDCheckAtEnd \/ WDRunEnds
Deliver == \/ \E p \in Side : KilledBySignal(p)
           \/ \E sig \in {"USR1", "USR2"} :
                WDHandler(sig) \/ UserHandler(sig, TRUE) \/ UserHandler(sig, FALSE)

Proceed == UserStep \/ WDStep \/ MainStep \/ Deliver \/ Tick

Next == ~astray /\ (Proceed \/ StopWatchdog \/ Exit \/ \E p \in Side : Crash(p))

\* Somebody who can do a step does one, or time passes.  But for the seconds
\* of lateness time passes only when nobody can, so nobody is left behind.
Fairness == WF_vars(Proceed)

Spec == Init /\ [][Next]_vars /\ Fairness

-----------------------------------------------------------------------------

Labels == {"dead", "start", "boot", "post", "wait", "loop", "sleep", "act", "flag", "count",
           "check", "return", "ended"}

(* The variables are of their types, and a task that is taken is not in the *)
(* queue any more.                                                          *)
TypeOK == /\ pc \in [Side -> Labels]
          /\ main \in {"work", "wait1", "wait2", "clean", "stopped"}
          /\ \A p \in Side : /\ Len(queue[p]) <= 2
                             /\ pc[p] = "sleep" \/ InTask(p) => Len(queue[p]) <= 1
          /\ sig_counter \in [Side -> 0 .. MaxCount]
          /\ sem \in [1 .. 2 -> 0 .. MaxSem]

Calm == crashes = 0 /\ ~early

(***************************************************************************)
(* While nobody crashes and the program does not stop the watch dog,       *)
(* neither side takes the other for dead, although the two schedulers, the *)
(* signals that cut sleeps short, the order of a second's tasks and a      *)
(* handler between SIGUSR1 and the counting shift the heartbeats.  It is   *)
(* so as long as the sides are late by one second at most, counted from    *)
(* the start: the counts allow no more.                                    *)
(***************************************************************************)
NoFalseAlarm == Calm /\ main = "work" /\ late <= 1 => ~astray

\* A side in SchedulerRun is more than n seconds behind with its heartbeat.
Behind(n) == \E p \in Side : /\ InRun(p)
                             /\ \E t \in {exe[p]} \cup Range(queue[p]) :
                                  t.name = "send" /\ t.left < - n

(***************************************************************************)
(* A side in SchedulerRun is never more than a second behind with its      *)
(* heartbeat, and the seconds somebody was late: the queue, which is in    *)
(* order up to a second, makes it every two seconds and not less often.    *)
(* The diagram of the ongoing activity promises it every second            *)
(* (HeartbeatEverySecond).                                                 *)
(***************************************************************************)
HeartbeatOnTime == Calm /\ main = "work" => ~Behind(1 + late)

(***************************************************************************)
(* What seq_diagram/ongoing activity.txt:15,19 say of SendSigusr1Task:     *)
(* every second each side sends SIGUSR1.                                   *)
(***************************************************************************)
HeartbeatEverySecond == Calm /\ main = "work" /\ late = 0 => ~Behind(0)

\* Side p runs its scheduler, or will when it has taken the token it waits for.
Watches(p) == InRun(p) \/ (pc[p] \in {"post", "wait"} /\ sem[Waits(p)] > 0)

(* A wd that crashed is forked again, unless the program stops or crashes too. *)
WDComesBack == pc["wd"] = "dead" /\ Watches("user") ~>
                 \/ pc["wd"] = "start" \/ astray
                 \/ main # "work" \/ ~Alive("user")

(* A user process that crashed before it had stopped the watch dog is forked *)
(* again, unless the wd was told to end or crashes too.                      *)
UserComesBack == ~Alive("user") /\ main # "stopped" /\ Watches("wd") /\ ~end_flag["wd"] ~>
                   Alive("user") \/ ~Alive("wd")

(***************************************************************************)
(* A side that crashes is forked again by the other one, if that one runs  *)
(* its scheduler or has the token to go on to it.  When a side dies before *)
(* it has posted its semaphore the other waits for it for ever (WaitSem):  *)
(* such crashes are excepted.                                              *)
(***************************************************************************)
CrashedSideComesBack == WDComesBack /\ UserComesBack

(***************************************************************************)
(* StopWatchdog returns if nobody crashed, however late the sides are.     *)
(* Excepted are calls before both sides have met (early), and those during *)
(* which a check finds a count that nobody clears any more and forks a     *)
(* second watch dog, or the user again (astray, where the model ends).     *)
(***************************************************************************)
StopReturns == main = "wait1" ~> main = "stopped" \/ ~Calm \/ astray

=============================================================================
