----------------------------- MODULE ThreadPool -----------------------------
(***************************************************************************)
(* ThreadPool (infinity/projects/thread_pool): worker threads that take    *)
(* tasks from a priority queue, a killer thread that buries the workers a  *)
(* Resize has poisoned, and the client thread that owns the pool.          *)
(*                                                                         *)
(* m_tasks and m_threads_to_kill are WaitableQueues and are used through   *)
(* what that module promises: a Pop takes an item when there is one and    *)
(* waits otherwise.  A joined thread stays in m_threads, where a second    *)
(* join and an interruption do nothing.  The pool's own condition variable *)
(* m_paused is modelled in full, because Add, Run and Stop notify it       *)
(* without holding m_mutex.  A wait on any condition variable, and a join, *)
(* is one of Boost's interruption points: an interrupted thread leaves it  *)
(* by an exception that ends the thread.                                   *)
(***************************************************************************)
EXTENDS Naturals, FiniteSets

CONSTANTS Tasks,       \* what the client adds
          Priority,    \* Priority[t]: LOW, NORMAL or HIGH as 1, 2, 3
          InitThreads, \* thread_count_ of the constructor
          MaxThreads,  \* bound: threads ever created, the killer excluded
          MaxCalls     \* bound: calls of Add, Run, Pause and Resize

ASSUME PoolAssumption == /\ Priority \in [Tasks -> 1 .. 3]
                         /\ Tasks \cap {"none", "apple"} = {}
                         /\ InitThreads \in 1 .. MaxThreads
                         /\ MaxThreads \in Nat /\ MaxCalls \in Nat

VARIABLES m_state_of_process, m_num_of_threads,
          apples,            \* poison apples in m_tasks; their priority is FIRST
          m_tasks,           \* the client's tasks in m_tasks
          m_threads,         \* the threads the map knows
          m_threads_to_kill, \* poisoned threads, for the killer to bury
          pc,                \* pc[w]: what thread w does
          job,               \* job[w]: the task w runs
          interrupted,       \* threads with a pending interruption
          victim,            \* the thread the killer joins
          client,            \* the client's call in progress
          calls,             \* calls made so far, for the bound
          eaten,             \* history: the workers that took an apple
          late               \* history: late[w] tasks w took since a Pause

vars == <<m_state_of_process, m_num_of_threads, apples, m_tasks, m_threads,
          m_threads_to_kill, pc, job, interrupted, victim, client, calls,
          eaten, late>>

Workers == 1 .. MaxThreads
Killer  == 0
Threads == Workers \cup {Killer}
NoTask  == "none"
Apple   == "apple"

\* What the client has in hand: the statement it is at, the rest of a loop,
\* the size a Resize asks for and the threads a loop of Stop has passed.
Client(at, left, target, passed) ==
  [at |-> at, left |-> left, target |-> target, passed |-> passed]
IdleClient == Client("idle", 0, 0, {})
ClientAt(at) == Client(at, client.left, client.target, client.passed)
ClientPasses(w) == Client(client.at, client.left, client.target, client.passed \cup {w})

Created == {w \in Workers : pc[w] # "new"}

\* The constructor; its ThreadInit runs before the client gets the pool.
Init == /\ m_state_of_process = "PAUSE" /\ m_num_of_threads = InitThreads
        /\ apples = 0 /\ m_tasks = {} /\ m_threads_to_kill = {}
        /\ m_threads = 0 .. InitThreads
        /\ pc = [w \in Threads |-> IF w <= InitThreads THEN "top" ELSE "new"]
        /\ job = [w \in Workers |-> NoTask]
        /\ interrupted = {} /\ victim = Killer /\ client = IdleClient
        /\ calls = 0 /\ eaten = {}
        /\ late = [w \in Workers |-> 0]

-----------------------------------------------------------------------------
(* ThreadTaskConnect, the body of a worker *)

workerUnchanged == UNCHANGED <<m_state_of_process, m_num_of_threads, m_threads,
                               victim, client, calls>>

Goto(w, s) == pc' = [pc EXCEPT ![w] = s]

GateUnchanged == /\ workerUnchanged
                 /\ UNCHANGED <<apples, m_tasks, m_threads_to_kill, job,
                                interrupted, eaten, late>>

LoopTest(w) == /\ pc[w] = "top"
               /\ Goto(w, IF w \in interrupted THEN "done" ELSE "gate")
               /\ GateUnchanged

\* m_mutex is held from the first read of the gate to the wait or the exit.
MutexFree(w) == \A v \in Workers \ {w} : pc[v] \notin {"gate2", "gate3", "towait"}

QueueEmpty == apples = 0 /\ m_tasks = {}

\* Mutant of GateState: a paused pool does not hold its workers.
GateStateIgnored(w) == /\ pc[w] = "gate" /\ MutexFree(w)
                       /\ Goto(w, "gate2")
                       /\ GateUnchanged

GateState(w) == /\ pc[w] = "gate" /\ MutexFree(w)
                /\ Goto(w, IF m_state_of_process = "PAUSE" THEN "towait" ELSE "gate2")
                /\ GateUnchanged

GateEmpty(w) == /\ pc[w] = "gate2"
                /\ Goto(w, IF QueueEmpty THEN "gate3" ELSE "pop")
                /\ GateUnchanged

GateRunning(w) == /\ pc[w] = "gate3"
                  /\ Goto(w, IF m_state_of_process = "RUN" THEN "towait" ELSE "pop")
                  /\ GateUnchanged

\* m_paused.wait: an interruption point before it sleeps and after it wakes.
EnterWait(w) == /\ pc[w] = "towait"
                /\ Goto(w, IF w \in interrupted THEN "done" ELSE "paused")
                /\ GateUnchanged

SpuriousWakeup(w) == pc[w] = "paused" /\ Goto(w, "gate") /\ GateUnchanged

InterruptedWait(w) == /\ w \in interrupted
                      /\ \/ pc[w] \in {"paused", "popwait"}
                         \/ pc[w] = "pop" /\ QueueEmpty
                      /\ Goto(w, "done")
                      /\ GateUnchanged

\* m_tasks.Pop: the pair of highest priority, ties broken by an address.
Front == {t \in m_tasks : \A u \in m_tasks : Priority[u] <= Priority[t]}

PopTask(w) ==
  /\ pc[w] \in {"pop", "popwait"}
  /\ \/ /\ apples > 0
        /\ apples' = apples - 1 /\ job' = [job EXCEPT ![w] = Apple]
        /\ eaten' = eaten \cup {w}
        /\ UNCHANGED m_tasks
     \/ /\ apples = 0
        /\ \E t \in Front : /\ m_tasks' = m_tasks \ {t}
                            /\ job' = [job EXCEPT ![w] = t]
        /\ UNCHANGED <<apples, eaten>>
  /\ late' = IF m_state_of_process = "PAUSE" THEN [late EXCEPT ![w] = @ + 1] ELSE late
  /\ Goto(w, "do")
  /\ workerUnchanged /\ UNCHANGED <<m_threads_to_kill, interrupted>>

PopWait(w) == /\ pc[w] = "pop" /\ QueueEmpty /\ w \notin interrupted
              /\ Goto(w, "popwait")
              /\ GateUnchanged

DoTask(w) == /\ pc[w] = "do" /\ job[w] \in Tasks
             /\ job' = [job EXCEPT ![w] = NoTask]
             /\ Goto(w, "top")
             /\ workerUnchanged
             /\ UNCHANGED <<apples, m_tasks, m_threads_to_kill, interrupted, eaten, late>>

\* Mutant of DoApple: the worker does not interrupt itself.
DoAppleNoInterrupt(w) == /\ pc[w] = "do" /\ job[w] = Apple /\ w \in m_threads
                         /\ Goto(w, "poisoned")
                         /\ workerUnchanged
                         /\ UNCHANGED <<apples, m_tasks, m_threads_to_kill, job,
                                        interrupted, eaten, late>>

\* PoisonApple::Do spins until ThreadInit has put the thread in the map.
DoApple(w) == /\ pc[w] = "do" /\ job[w] = Apple /\ w \in m_threads
              /\ interrupted' = interrupted \cup {w}
              /\ Goto(w, "poisoned")
              /\ workerUnchanged
              /\ UNCHANGED <<apples, m_tasks, m_threads_to_kill, job, eaten, late>>

PushToKill(w) == /\ pc[w] = "poisoned"
                 /\ m_threads_to_kill' = m_threads_to_kill \cup {w}
                 /\ job' = [job EXCEPT ![w] = NoTask]
                 /\ Goto(w, "top")
                 /\ workerUnchanged
                 /\ UNCHANGED <<apples, m_tasks, interrupted, eaten, late>>

WorkerStep(w) == \/ LoopTest(w) \/ GateState(w) \/ GateEmpty(w) \/ GateRunning(w)
                 \/ EnterWait(w) \/ InterruptedWait(w) \/ PopTask(w) \/ PopWait(w)
                 \/ DoTask(w) \/ DoApple(w) \/ PushToKill(w)

-----------------------------------------------------------------------------
(* ThreadKiller *)

killerUnchanged == UNCHANGED <<m_state_of_process, m_num_of_threads, apples, m_tasks,
                               job, interrupted, client, calls, eaten, late>>

KillerTest == /\ pc[Killer] = "top"
              /\ Goto(Killer, IF Killer \in interrupted THEN "done" ELSE "pop")
              /\ killerUnchanged
              /\ UNCHANGED <<m_threads, m_threads_to_kill, victim>>

KillerPop == /\ pc[Killer] = "pop"
             /\ \E w \in m_threads_to_kill :
                   /\ victim' = w
                   /\ m_threads_to_kill' = m_threads_to_kill \ {w}
             /\ Goto(Killer, "join")
             /\ killerUnchanged /\ UNCHANGED m_threads

KillerJoin == /\ pc[Killer] = "join" /\ pc[victim] = "done"
              /\ Goto(Killer, "erase")
              /\ killerUnchanged
              /\ UNCHANGED <<m_threads, m_threads_to_kill, victim>>

KillerInterrupted == /\ Killer \in interrupted
                     /\ \/ pc[Killer] = "pop" /\ m_threads_to_kill = {}
                        \/ pc[Killer] = "join" /\ pc[victim] # "done"
                     /\ Goto(Killer, "done")
                     /\ killerUnchanged
                     /\ UNCHANGED <<m_threads, m_threads_to_kill, victim>>

\* m_threads.erase(get_id()): a thread that has been joined has no id any more,
\* so the key is that of no thread, and the dead stay in the map.
KillerErase == /\ pc[Killer] = "erase"
               /\ Goto(Killer, "top")
               /\ killerUnchanged /\ UNCHANGED <<m_threads, m_threads_to_kill, victim>>

KillerStep == \/ KillerTest \/ KillerPop \/ KillerJoin \/ KillerInterrupted
              \/ KillerErase

-----------------------------------------------------------------------------
(* The client: Add, Run, Pause, Resize and Stop *)

clientUnchanged == UNCHANGED <<job, victim, eaten>>

Notified(w) == pc' = [pc EXCEPT ![w] = "gate"]
Sleeping == {w \in Workers : pc[w] = "paused"}
NotifyAll == pc' = [w \in Threads |-> IF w \in Sleeping THEN "gate" ELSE pc[w]]

\* Each task is added once: DoTask consumes it.
Added == m_tasks \cup {job[w] : w \in Workers}

Add(t) == /\ client.at = "idle" /\ t \notin Added
          /\ calls < MaxCalls /\ calls' = calls + 1
          /\ m_tasks' = m_tasks \cup {t}
          /\ client' = Client("added", 0, m_num_of_threads, {})
          /\ clientUnchanged
          /\ UNCHANGED <<m_state_of_process, m_num_of_threads, apples, m_threads,
                         m_threads_to_kill, pc, interrupted, late>>

\* Add: m_paused.notify_one, without m_mutex.
AddNotify == /\ client.at = "added"
             /\ \/ Sleeping = {} /\ UNCHANGED pc
                \/ \E w \in Sleeping : Notified(w)
             /\ client' = ClientAt("poison")
             /\ clientUnchanged
             /\ UNCHANGED <<m_state_of_process, m_num_of_threads, apples, m_tasks,
                            m_threads, m_threads_to_kill, interrupted, calls, late>>

\* AddPoisonApple: its loop adds one apple a turn, with priority FIRST.
AddApple == /\ client.at = "poison" /\ client.left > 0
            /\ apples' = apples + 1
            /\ client' = Client("added", client.left - 1, client.target, client.passed)
            /\ clientUnchanged
            /\ UNCHANGED <<m_state_of_process, m_num_of_threads, m_tasks, m_threads,
                           m_threads_to_kill, pc, interrupted, calls, late>>

\* Run, Pause and Stop first store the state; Run and Stop then notify_all.
SetState(s, at) ==
  /\ client.at = "idle"
  /\ m_state_of_process' = s
  /\ client' = ClientAt(at)
  /\ clientUnchanged
  /\ UNCHANGED <<m_num_of_threads, apples, m_tasks, m_threads, m_threads_to_kill,
                 pc, interrupted>>

Run == /\ calls < MaxCalls /\ calls' = calls + 1
       /\ SetState("RUN", "running")
       /\ late' = [w \in Workers |-> 0]

Pause == /\ calls < MaxCalls /\ calls' = calls + 1
         /\ SetState("PAUSE", "idle")
         /\ late' = [w \in Workers |-> 0]

Stop == SetState("STOP", "stopping") /\ UNCHANGED <<calls, late>>

NotifyPaused == /\ client.at \in {"running", "stopping"}
                /\ NotifyAll
                /\ client' = IF client.at = "running" THEN IdleClient
                                                      ELSE Client("interrupting", 0, 0, {})
                /\ clientUnchanged
                /\ UNCHANGED <<m_state_of_process, m_num_of_threads, apples, m_tasks,
                               m_threads, m_threads_to_kill, interrupted, calls, late>>

\* Mutant of StopInterrupt: the last thread of the map is left out.
StopInterruptButOne ==
  /\ client.at = "interrupting"
  /\ \/ \E w \in m_threads \ client.passed :
           /\ interrupted' = interrupted \cup {w}
           /\ client' = ClientPasses(w)
     \/ /\ Cardinality(m_threads \ client.passed) = 1
        /\ client' = Client("joining", 0, 0, {})
        /\ UNCHANGED interrupted
  /\ clientUnchanged
  /\ UNCHANGED <<m_state_of_process, m_num_of_threads, apples, m_tasks, m_threads,
                 m_threads_to_kill, pc, calls, late>>

\* Stop's two loops over m_threads, in the map's order, which is arbitrary; a
\* thread that the killer has joined is done already.
StopInterrupt ==
  /\ client.at = "interrupting"
  /\ \/ \E w \in m_threads \ client.passed :
           /\ interrupted' = interrupted \cup {w}
           /\ client' = ClientPasses(w)
     \/ /\ m_threads \subseteq client.passed
        /\ client' = Client("joining", 0, 0, {})
        /\ UNCHANGED interrupted
  /\ clientUnchanged
  /\ UNCHANGED <<m_state_of_process, m_num_of_threads, apples, m_tasks, m_threads,
                 m_threads_to_kill, pc, calls, late>>

\* Mutant of StopJoin: it does not wait for the threads.
StopJoinNoWait ==
  /\ client.at = "joining"
  /\ client' = Client("stopped", 0, 0, {})
  /\ clientUnchanged
  /\ UNCHANGED <<m_state_of_process, m_num_of_threads, apples, m_tasks, m_threads,
                 m_threads_to_kill, pc, interrupted, calls, late>>

StopJoin ==
  /\ client.at = "joining"
  /\ \/ \E w \in m_threads \ client.passed :
           /\ pc[w] = "done"
           /\ client' = ClientPasses(w)
     \/ /\ m_threads \subseteq client.passed
        /\ client' = Client("stopped", 0, 0, {})
  /\ clientUnchanged
  /\ UNCHANGED <<m_state_of_process, m_num_of_threads, apples, m_tasks, m_threads,
                 m_threads_to_kill, pc, interrupted, calls, late>>

Resize(n) ==
  /\ client.at = "idle"
  /\ calls < MaxCalls /\ calls' = calls + 1
  /\ n > m_num_of_threads => Cardinality(Created) + n - m_num_of_threads <= MaxThreads
  /\ client' = IF n > m_num_of_threads
                 THEN Client("spawn", n - m_num_of_threads, n, {})
                 ELSE Client("poison", m_num_of_threads - n, n, {})
  /\ clientUnchanged
  /\ UNCHANGED <<m_state_of_process, m_num_of_threads, apples, m_tasks, m_threads,
                 m_threads_to_kill, pc, interrupted, late>>

\* ThreadInit: the thread runs before the map knows it.
SpawnThread == /\ client.at = "spawn" /\ client.left > 0
               /\ LET w == Cardinality(Created) + 1
                  IN  /\ pc' = [pc EXCEPT ![w] = "top"]
                      /\ client' = Client("insert", client.left, client.target, {w})
               /\ clientUnchanged
               /\ UNCHANGED <<m_state_of_process, m_num_of_threads, apples, m_tasks,
                              m_threads, m_threads_to_kill, interrupted, calls, late>>

InsertThread == /\ client.at = "insert"
                /\ m_threads' = m_threads \cup client.passed
                /\ client' = Client("spawn", client.left - 1, client.target, {})
                /\ clientUnchanged
                /\ UNCHANGED <<m_state_of_process, m_num_of_threads, apples, m_tasks,
                               m_threads_to_kill, pc, interrupted, calls, late>>

\* Resize: m_num_of_threads is set when its loop has ended.
ResizeEnd == /\ client.at \in {"spawn", "poison"} /\ client.left = 0
             /\ m_num_of_threads' = client.target
             /\ client' = IdleClient
             /\ clientUnchanged
             /\ UNCHANGED <<m_state_of_process, apples, m_tasks, m_threads,
                            m_threads_to_kill, pc, interrupted, calls, late>>

ClientStep == \/ AddNotify \/ AddApple \/ NotifyPaused \/ StopInterrupt \/ StopJoin
              \/ SpawnThread \/ InsertThread \/ ResizeEnd

ClientCall == \/ Run \/ Pause \/ Stop
              \/ \E t \in Tasks : Add(t)
              \/ \E n \in Workers : Resize(n)

Next == \/ ClientCall \/ ClientStep \/ KillerStep
        \/ \E w \in Workers : WorkerStep(w) \/ SpuriousWakeup(w)

(* Every thread runs on, and the client finishes the calls it has begun. *)
Fairness == /\ \A w \in Workers : WF_vars(WorkerStep(w))
            /\ WF_vars(KillerStep) /\ WF_vars(ClientStep)

Spec == Init /\ [][Next]_vars /\ Fairness

-----------------------------------------------------------------------------

(* Every variable of the pool is of its type. *)
TypeOK ==
  /\ m_state_of_process \in {"RUN", "PAUSE", "STOP"}
  /\ m_num_of_threads \in Workers /\ apples \in Nat /\ m_tasks \subseteq Tasks
  /\ m_threads \subseteq Threads /\ m_threads_to_kill \subseteq Workers
  /\ pc \in [Threads -> {"new", "top", "gate", "gate2", "gate3", "towait", "paused",
                         "pop", "popwait", "do", "poisoned", "join", "erase", "done"}]
  /\ job \in [Workers -> Tasks \cup {NoTask, Apple}]
  /\ interrupted \subseteq Threads /\ victim \in Threads
  /\ client \in [at : {"idle", "added", "poison", "running", "stopping", "interrupting",
                       "joining", "stopped", "spawn", "insert"},
                 left : 0 .. MaxThreads, target : 0 .. MaxThreads, passed : SUBSET Threads]
  /\ calls \in 0 .. MaxCalls /\ eaten \subseteq Workers
  /\ late \in [Workers -> Nat]

(***************************************************************************)
(* Poison apples and threads balance: between two calls, and until Stop,   *)
(* the workers that have not taken an apple are m_num_of_threads and one   *)
(* for each apple still in the queue.  A worker that took two apples, or   *)
(* an apple that got lost, would leave the pool larger than Resize asked.  *)
(***************************************************************************)
ResizeBalance ==
  client.at = "idle" /\ m_state_of_process # "STOP"
     => Cardinality(Created \ eaten) = m_num_of_threads + apples

(***************************************************************************)
(* When Stop returns, no thread of the pool runs any more: not a worker    *)
(* still in a task, not a poisoned one, not the killer.  The client may    *)
(* free what the tasks use.                                                *)
(***************************************************************************)
StoppedMeansDone ==
  client.at = "stopped" => \A w \in Created \cup {Killer} : pc[w] = "done"

(***************************************************************************)
(* After Pause a worker takes at most one more task, the one whose gate it *)
(* has passed already, whatever is added meanwhile.                        *)
(***************************************************************************)
OneTaskAfterPause == \A w \in Workers : late[w] <= 1

(***************************************************************************)
(* Stop returns, from any state of the pool: no thread it joins can miss   *)
(* its interruption, wherever it waits.                                    *)
(***************************************************************************)
StopReturns == (client.at = "stopping") ~> (client.at = "stopped")

(***************************************************************************)
(* A task added to a running pool is run, as the tests rely on when they   *)
(* call Add and Run and then sleep (thread_pool_test.cpp:145): a task does *)
(* not stay in the queue for ever while the pool runs.                     *)
(***************************************************************************)
RunningPoolWorks == \A t \in Tasks :
   (t \in m_tasks) ~> (t \notin m_tasks \/ m_state_of_process # "RUN")
=============================================================================
