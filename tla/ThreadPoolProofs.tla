-------------------------- MODULE ThreadPoolProofs --------------------------
(***************************************************************************)
(* What the pool promises, for any number of threads, tasks and calls.     *)
(***************************************************************************)
EXTENDS ThreadPool, FiniteSetTheorems, TLAPS

Pcs == {"new", "top", "gate", "gate2", "gate3", "towait", "paused", "pop", "popwait", "do",
        "poisoned", "join", "erase", "done"}

Calls == {"idle", "added", "poison", "running", "stopping", "interrupting", "joining", "stopped",
          "spawn", "insert"}
Clients == [at : Calls, left : 0 .. MaxThreads, target : 0 .. MaxThreads, passed : SUBSET Threads]

(* While Add, AddPoisonApple or Resize is in progress, the client knows the size it wants. *)
PoolClient ==
  /\ client.at \in {"added", "poison", "spawn", "insert"} => client.target \in Workers
  /\ client.at = "insert" => client.left > 0

(***************************************************************************)
(* A thread that runs, or has run, is in the map or about to be put there; *)
(* those that Stop has passed in its second loop are dead.                 *)
(***************************************************************************)
PoolDone ==
  /\ pc[Killer] # "new"
  /\ \A w \in Threads : pc[w] # "new" =>
       w \in m_threads \/ (client.at = "insert" /\ w \in client.passed)
  /\ pc[Killer] \in {"join", "erase"} => victim \in Workers
  /\ client.at = "joining" => \A w \in client.passed : pc[w] = "done"
  /\ client.at = "stopped" => \A w \in Threads : pc[w] \in {"new", "done"}

(* A worker that has taken a task since the Pause does not pass the gate again. *)
PoolPause ==
  \A w \in Workers :
    /\ late[w] <= 1
    /\ m_state_of_process = "RUN" => late[w] = 0
    /\ m_state_of_process = "PAUSE" /\ pc[w] \in {"gate2", "gate3", "pop", "popwait"} => late[w] = 0

(* A worker that has taken an apple is on its way to its end. *)
PoolEaten ==
  /\ eaten \subseteq Created
  /\ \A w \in eaten : \/ pc[w] = "do" /\ job[w] = Apple
                      \/ pc[w] \in {"poisoned", "top"} /\ w \in interrupted
                      \/ pc[w] = "done"

(* The balance of apples and threads, inside the client's calls too. *)
Uneaten == Cardinality(Created \ eaten)
PoolBalance ==
  /\ client.at \in {"added", "poison"} => Uneaten = client.target + client.left + apples
  /\ client.at = "spawn" => Uneaten + client.left = client.target + apples
  /\ client.at = "insert" => Uneaten + client.left = client.target + apples + 1
  /\ client.at \notin {"added", "poison", "spawn", "insert"} => Uneaten = m_num_of_threads + apples

(* The threads are numbered as they are made, and there is room for those to come. *)
PoolNumbers ==
  \E k \in 0 .. MaxThreads :
    /\ Created = 1 .. k
    /\ client.at = "spawn" => k + client.left <= MaxThreads
    /\ client.at = "insert" => k + client.left <= MaxThreads + 1

PoolInv == /\ TypeOK /\ PoolClient /\ PoolDone /\ PoolPause /\ PoolEaten /\ PoolBalance
           /\ PoolNumbers

(* The client's call, field by field. *)
LEMMA ClientFields ==
  /\ \A a, l, t, p : /\ Client(a, l, t, p).at = a /\ Client(a, l, t, p).left = l
                     /\ Client(a, l, t, p).target = t /\ Client(a, l, t, p).passed = p
  /\ \A a \in Calls, l \in 0 .. MaxThreads, t \in 0 .. MaxThreads, p \in SUBSET Threads :
       Client(a, l, t, p) \in Clients
BY DEF Client, Clients

(* The fields of the record the calling thread is described by. *)
LEMMA ClientTypes ==
  ASSUME TypeOK
  PROVE  /\ client \in Clients /\ client.at \in Calls /\ client.left \in 0 .. MaxThreads
         /\ client.target \in 0 .. MaxThreads /\ client.passed \in SUBSET Threads
BY DEF TypeOK, Clients, Calls

(* The killer is a thread and no worker. *)
LEMMA ThreadFacts ==
  /\ MaxThreads \in Nat /\ Killer \notin Workers /\ Killer \in Threads /\ Workers \subseteq Threads
  /\ \A w \in Threads : w = Killer \/ w \in Workers
BY PoolAssumption DEF Killer, Workers, Threads

(* No thread is made: the same ones are there. *)
LEMMA CreatedKept ==
  ASSUME \A w \in Workers : pc'[w] = "new" <=> pc[w] = "new"
  PROVE  Created' = Created
BY DEF Created, Workers

(* One thread's program counter. *)
LEMMA GotoFacts ==
  ASSUME TypeOK, NEW w \in Threads, NEW s \in Pcs, Goto(w, s)
  PROVE  /\ pc' \in [Threads -> Pcs] /\ pc'[w] = s
         /\ \A v \in Threads : v # w => pc'[v] = pc[v]
BY DEF TypeOK, Goto, Pcs

(* A worker moves on: nothing but its own part of the invariant is concerned. *)
LEMMA WorkerMoves ==
  ASSUME PoolInv, NEW w \in Workers, NEW s \in Pcs \ {"new"}, pc[w] # "new", pc[w] # "done",
         Goto(w, s), workerUnchanged
  PROVE  /\ pc' \in [Threads -> Pcs] /\ pc'[w] = s
         /\ \A v \in Threads : v # w => pc'[v] = pc[v]
         /\ PoolClient' /\ PoolDone' /\ Created' = Created /\ PoolNumbers'
<1>1. UNCHANGED <<m_state_of_process, m_num_of_threads, m_threads, victim, client, calls>>
    BY DEF workerUnchanged
<1>2. /\ pc' \in [Threads -> Pcs] /\ pc'[w] = s
      /\ \A v \in Threads : v # w => pc'[v] = pc[v]
    BY ThreadFacts, GotoFacts DEF PoolInv
<1>3. /\ \A v \in Threads : pc[v] = "done" => pc'[v] = "done"
      /\ \A v \in Threads : pc'[v] = "new" <=> pc[v] = "new"
      /\ pc'[Killer] = pc[Killer]
    BY <1>2, ThreadFacts
<1>4. Created' = Created
    BY <1>3, CreatedKept, ThreadFacts
<1>5. PoolClient'
    BY <1>1 DEF PoolInv, PoolClient
<1>6. PoolDone'
  <2>1. victim \in Threads /\ w \in Threads /\ client.passed \subseteq Threads
    BY ThreadFacts DEF PoolInv, TypeOK
  <2>2. client.at # "stopped"
    BY <2>1 DEF PoolInv, PoolDone
  <2> QED
    BY <1>1, <1>3, <2>1, <2>2 DEF PoolInv, PoolDone
<1>7. PoolNumbers'
    BY <1>1, <1>4 DEF PoolInv, PoolNumbers
<1> QED
    BY <1>2, <1>4, <1>5, <1>6, <1>7

(* A step at the gate, or on the way to it, changes nothing but the program counter. *)
LEMMA GateMoves ==
  ASSUME PoolInv, NEW w \in Workers, NEW s \in Pcs \ {"new"}, pc[w] # "new", pc[w] # "done",
         Goto(w, s), GateUnchanged, w \in eaten => s = "done",
         m_state_of_process = "PAUSE" /\ s \in {"gate2", "gate3", "pop", "popwait"} => late[w] = 0
  PROVE  PoolInv'
<1>1. /\ pc' \in [Threads -> Pcs] /\ pc'[w] = s
      /\ \A v \in Threads : v # w => pc'[v] = pc[v]
      /\ PoolClient' /\ PoolDone' /\ Created' = Created /\ PoolNumbers'
    BY WorkerMoves DEF GateUnchanged
<1>2. UNCHANGED <<m_state_of_process, m_num_of_threads, m_threads, victim, client, calls,
                  apples, m_tasks, m_threads_to_kill, job, interrupted, eaten, late>>
    BY DEF GateUnchanged, workerUnchanged
<1>3. TypeOK'
    BY <1>1, <1>2 DEF PoolInv, TypeOK, Pcs
<1>4. \A v \in Workers : v # w => pc'[v] = pc[v]
    BY <1>1, ThreadFacts
<1>5. PoolPause'
    BY <1>1, <1>2, <1>4 DEF PoolInv, PoolPause
<1>6. PoolEaten'
    BY <1>1, <1>2, <1>4 DEF PoolInv, PoolEaten, TypeOK
<1>7. PoolBalance'
    BY <1>1, <1>2 DEF PoolInv, PoolBalance, Uneaten
<1> QED
    BY <1>1, <1>3, <1>5, <1>6, <1>7 DEF PoolInv

(* A worker tests the loop, passes or waits at the gate. *)
LEMMA GateStep ==
  ASSUME PoolInv, NEW w \in Workers,
         \/ LoopTest(w) \/ GateState(w) \/ GateEmpty(w) \/ GateRunning(w) \/ EnterWait(w)
         \/ SpuriousWakeup(w) \/ InterruptedWait(w) \/ PopWait(w)
  PROVE  PoolInv'
<1>0. w \in eaten => \/ pc[w] \in {"do", "poisoned", "done"}
                     \/ pc[w] = "top" /\ w \in interrupted
    BY DEF PoolInv, PoolEaten
<1>1. m_state_of_process = "PAUSE" /\ pc[w] \in {"gate2", "gate3", "pop", "popwait"} => late[w] = 0
    BY DEF PoolInv, PoolPause
<1>2. CASE LoopTest(w)
  <2> DEFINE s == IF w \in interrupted THEN "done" ELSE "gate"
  <2>1. pc[w] = "top" /\ Goto(w, s) /\ GateUnchanged
    BY <1>2 DEF LoopTest
  <2>2. s \in Pcs \ {"new"} /\ s \notin {"gate2", "gate3", "pop", "popwait"}
    BY DEF Pcs
  <2>3. w \in eaten => s = "done"
    BY <1>0, <2>1
  <2> QED
    BY <2>1, <2>2, <2>3, GateMoves
<1>3. CASE GateState(w)
  <2> DEFINE s == IF m_state_of_process = "PAUSE" THEN "towait" ELSE "gate2"
  <2>1. pc[w] = "gate" /\ Goto(w, s) /\ GateUnchanged
    BY <1>3 DEF GateState
  <2>2. s \in Pcs \ {"new"} /\ w \notin eaten
    BY <1>0, <2>1 DEF Pcs
  <2>3. m_state_of_process = "PAUSE" => s \notin {"gate2", "gate3", "pop", "popwait"}
    OBVIOUS
  <2> QED
    BY <2>1, <2>2, <2>3, GateMoves
<1>4. CASE GateEmpty(w)
  <2> DEFINE s == IF QueueEmpty THEN "gate3" ELSE "pop"
  <2>1. pc[w] = "gate2" /\ Goto(w, s) /\ GateUnchanged
    BY <1>4 DEF GateEmpty
  <2>2. s \in Pcs \ {"new"} /\ w \notin eaten /\ (m_state_of_process = "PAUSE" => late[w] = 0)
    BY <1>0, <1>1, <2>1 DEF Pcs
  <2> QED
    BY <2>1, <2>2, GateMoves
<1>5. CASE GateRunning(w)
  <2> DEFINE s == IF m_state_of_process = "RUN" THEN "towait" ELSE "pop"
  <2>1. pc[w] = "gate3" /\ Goto(w, s) /\ GateUnchanged
    BY <1>5 DEF GateRunning
  <2>2. s \in Pcs \ {"new"} /\ w \notin eaten /\ (m_state_of_process = "PAUSE" => late[w] = 0)
    BY <1>0, <1>1, <2>1 DEF Pcs
  <2> QED
    BY <2>1, <2>2, GateMoves
<1>6. CASE EnterWait(w)
  <2> DEFINE s == IF w \in interrupted THEN "done" ELSE "paused"
  <2>1. pc[w] = "towait" /\ Goto(w, s) /\ GateUnchanged
    BY <1>6 DEF EnterWait
  <2>2. s \in Pcs \ {"new"} /\ w \notin eaten /\ s \notin {"gate2", "gate3", "pop", "popwait"}
    BY <1>0, <2>1 DEF Pcs
  <2> QED
    BY <2>1, <2>2, GateMoves
<1>7. CASE SpuriousWakeup(w)
  <2>1. pc[w] = "paused" /\ Goto(w, "gate") /\ GateUnchanged /\ "gate" \in Pcs \ {"new"}
    BY <1>7 DEF SpuriousWakeup, Pcs
  <2>2. w \notin eaten
    BY <1>0, <2>1
  <2> QED
    BY <2>1, <2>2, GateMoves
<1>8. CASE InterruptedWait(w)
  <2>1. /\ pc[w] \in {"paused", "popwait", "pop"} /\ Goto(w, "done") /\ GateUnchanged
        /\ "done" \in Pcs \ {"new"}
    BY <1>8 DEF InterruptedWait, Pcs
  <2> QED
    BY <2>1, GateMoves
<1>9. CASE PopWait(w)
  <2>1. pc[w] = "pop" /\ Goto(w, "popwait") /\ GateUnchanged /\ "popwait" \in Pcs \ {"new"}
    BY <1>9 DEF PopWait, Pcs
  <2>2. w \notin eaten /\ (m_state_of_process = "PAUSE" => late[w] = 0)
    BY <1>0, <1>1, <2>1
  <2> QED
    BY <2>1, <2>2, GateMoves
<1> QED
    BY <1>2, <1>3, <1>4, <1>5, <1>6, <1>7, <1>8, <1>9

(* One worker less has not eaten. *)
LEMMA EatsOne ==
  ASSUME PoolNumbers, NEW w \in Created, w \notin eaten
  PROVE  Cardinality(Created \ (eaten \cup {w})) = Uneaten - 1 /\ Uneaten \in Nat
<1>1. PICK k \in Nat : Created = 1 .. k
    BY ThreadFacts DEF PoolNumbers
<1>2. IsFiniteSet(Created \ eaten)
  <2>1. IsFiniteSet(Created)
    BY <1>1, FS_Interval
  <2> QED
    BY <2>1, FS_Difference
<1>3. Created \ (eaten \cup {w}) = (Created \ eaten) \ {w} /\ w \in Created \ eaten
    OBVIOUS
<1>4. Cardinality((Created \ eaten) \ {w}) = Cardinality(Created \ eaten) - 1
    BY <1>2, <1>3, FS_RemoveElement
<1> QED
    BY <1>2, <1>3, <1>4, FS_CardinalityType DEF Uneaten

(* A worker takes an apple or a task: at most one after a Pause, and one apple for ever. *)
LEMMA PopTaskStep ==
  ASSUME PoolInv, NEW w \in Workers, PopTask(w)
  PROVE  PoolInv'
<1>1. /\ pc[w] \in {"pop", "popwait"} /\ Goto(w, "do") /\ workerUnchanged
      /\ late' = IF m_state_of_process = "PAUSE" THEN [late EXCEPT ![w] = @ + 1] ELSE late
      /\ UNCHANGED <<m_threads_to_kill, interrupted>>
    BY DEF PopTask
<1>2. /\ pc' \in [Threads -> Pcs] /\ pc'[w] = "do"
      /\ \A v \in Threads : v # w => pc'[v] = pc[v]
      /\ PoolClient' /\ PoolDone' /\ Created' = Created /\ PoolNumbers'
  <2>1. "do" \in Pcs \ {"new"} /\ pc[w] # "new" /\ pc[w] # "done"
    BY <1>1 DEF Pcs
  <2> QED
    BY <1>1, <2>1, WorkerMoves
<1>3. UNCHANGED <<m_state_of_process, m_num_of_threads, m_threads, victim, client, calls>>
    BY <1>1 DEF workerUnchanged
<1>4. \A v \in Workers : v # w => pc'[v] = pc[v]
    BY <1>2, ThreadFacts
<1>5. w \notin eaten /\ w \in Created
    BY <1>1 DEF PoolInv, PoolEaten, Created
<1>6. /\ late' \in [Workers -> Nat]
      /\ \A v \in Workers : v # w => late'[v] = late[v]
      /\ m_state_of_process = "PAUSE" => late'[w] = late[w] + 1
      /\ m_state_of_process # "PAUSE" => late'[w] = late[w]
    BY <1>1 DEF PoolInv, TypeOK
<1>7. m_state_of_process = "PAUSE" => late[w] = 0
    BY <1>1 DEF PoolInv, PoolPause
<1>8. PoolPause'
  <2> SUFFICES ASSUME NEW v \in Workers
               PROVE  /\ late'[v] <= 1
                      /\ m_state_of_process = "RUN" => late'[v] = 0
                      /\ m_state_of_process = "PAUSE"
                           /\ pc'[v] \in {"gate2", "gate3", "pop", "popwait"} => late'[v] = 0
    BY <1>3 DEF PoolPause
  <2>1. CASE v = w
    <3>1. late'[w] <= 1
      BY <1>6, <1>7 DEF PoolInv, PoolPause
    <3>2. m_state_of_process = "RUN" => late'[w] = 0
      BY <1>6 DEF PoolInv, PoolPause
    <3> QED
      BY <1>2, <2>1, <3>1, <3>2
  <2>2. CASE v # w
    BY <1>4, <1>6, <2>2 DEF PoolInv, PoolPause
  <2> QED
    BY <2>1, <2>2
<1>9. CASE /\ apples > 0 /\ apples' = apples - 1 /\ job' = [job EXCEPT ![w] = Apple]
           /\ eaten' = eaten \cup {w} /\ UNCHANGED m_tasks
  <2>1. /\ job' \in [Workers -> Tasks \cup {NoTask, Apple}] /\ job'[w] = Apple
        /\ \A v \in Workers : v # w => job'[v] = job[v]
    BY <1>9 DEF PoolInv, TypeOK
  <2>2. apples' \in Nat
    BY <1>9 DEF PoolInv, TypeOK
  <2>3. TypeOK'
    BY <1>1, <1>2, <1>3, <1>6, <1>9, <2>1, <2>2 DEF PoolInv, TypeOK, Pcs
  <2>4. PoolEaten'
    BY <1>1, <1>2, <1>4, <1>5, <1>9, <2>1 DEF PoolInv, PoolEaten, TypeOK
  <2>5. Uneaten' = Uneaten - 1 /\ Uneaten \in Nat
    BY <1>2, <1>5, <1>9, EatsOne DEF PoolInv, Uneaten
  <2>6. client.target \in Nat /\ client.left \in Nat /\ m_num_of_threads \in Nat /\ apples \in Nat
    BY ThreadFacts DEF PoolInv, TypeOK, Workers
  <2>7. PoolBalance'
    <3>1. apples' = apples - 1 /\ UNCHANGED <<client, m_num_of_threads>>
      BY <1>3, <1>9
    <3>2. PoolBalance
      BY DEF PoolInv
    <3> QED
      BY <2>5, <2>6, <3>1, <3>2 DEF PoolBalance
  <2> QED
    BY <1>2, <1>8, <2>3, <2>4, <2>7 DEF PoolInv
<1>10. ASSUME NEW t \in Front, m_tasks' = m_tasks \ {t}, job' = [job EXCEPT ![w] = t],
              UNCHANGED <<apples, eaten>>
       PROVE  PoolInv'
  <2>1. t \in Tasks
    BY <1>10 DEF Front, PoolInv, TypeOK
  <2>2. /\ job' \in [Workers -> Tasks \cup {NoTask, Apple}]
        /\ \A v \in Workers : v # w => job'[v] = job[v]
    BY <1>10, <2>1 DEF PoolInv, TypeOK
  <2>3. TypeOK'
    BY <1>1, <1>2, <1>3, <1>6, <1>10, <2>2 DEF PoolInv, TypeOK, Pcs
  <2>4. PoolEaten'
    BY <1>1, <1>2, <1>4, <1>5, <1>10, <2>2 DEF PoolInv, PoolEaten, TypeOK
  <2>5. PoolBalance'
    BY <1>2, <1>3, <1>10 DEF PoolInv, PoolBalance, Uneaten
  <2> QED
    BY <1>2, <1>8, <2>3, <2>4, <2>5 DEF PoolInv
<1> QED
    BY <1>9, <1>10 DEF PopTask

(* A worker does its task, eats its apple, or asks to be buried. *)
LEMMA DoStep ==
  ASSUME PoolInv, NEW w \in Workers, DoTask(w) \/ DoApple(w) \/ PushToKill(w)
  PROVE  PoolInv'
<1>1. PICK s \in {"top", "poisoned"} :
        /\ pc[w] \in {"do", "poisoned"} /\ Goto(w, s) /\ workerUnchanged
        /\ UNCHANGED <<apples, m_tasks, eaten, late>>
        /\ job' = job \/ job' = [job EXCEPT ![w] = NoTask]
        /\ interrupted' = interrupted \/ interrupted' = interrupted \cup {w}
        /\ m_threads_to_kill' = m_threads_to_kill \/ m_threads_to_kill' = m_threads_to_kill \cup {w}
        /\ w \in interrupted' \/ (pc[w] = "do" /\ job[w] \in Tasks) \/ pc[w] = "poisoned"
    BY DEF DoTask, DoApple, PushToKill
<1>2. /\ pc' \in [Threads -> Pcs] /\ pc'[w] = s
      /\ \A v \in Threads : v # w => pc'[v] = pc[v]
      /\ PoolClient' /\ PoolDone' /\ Created' = Created /\ PoolNumbers'
  <2>1. s \in Pcs \ {"new"} /\ pc[w] # "new" /\ pc[w] # "done"
    BY <1>1 DEF Pcs
  <2> QED
    BY <1>1, <2>1, WorkerMoves
<1>3. UNCHANGED <<m_state_of_process, m_num_of_threads, m_threads, victim, client, calls>>
    BY <1>1 DEF workerUnchanged
<1>4. \A v \in Workers : v # w => pc'[v] = pc[v]
    BY <1>2, ThreadFacts
<1>5. /\ job' \in [Workers -> Tasks \cup {NoTask, Apple}]
      /\ \A v \in Workers : v # w => job'[v] = job[v]
    BY <1>1 DEF PoolInv, TypeOK
<1>6. /\ interrupted' \subseteq Threads /\ interrupted \subseteq interrupted'
      /\ m_threads_to_kill' \subseteq Workers
    BY <1>1, ThreadFacts DEF PoolInv, TypeOK
<1>7. TypeOK'
    BY <1>1, <1>2, <1>3, <1>5, <1>6 DEF PoolInv, TypeOK, Pcs
<1>8. PoolPause'
    BY <1>1, <1>2, <1>3, <1>4 DEF PoolInv, PoolPause
<1>9. PoolEaten'
  <2>1. ASSUME w \in eaten PROVE w \in interrupted'
    <3>1. Apple \notin Tasks
      BY PoolAssumption DEF Apple
    <3>2. \/ pc[w] = "do" /\ job[w] = Apple
          \/ pc[w] = "poisoned" /\ w \in interrupted
      BY <1>1, <2>1 DEF PoolInv, PoolEaten
    <3> QED
      BY <1>1, <1>6, <3>1, <3>2
  <2> QED
    BY <1>1, <1>2, <1>4, <1>5, <1>6, <2>1 DEF PoolInv, PoolEaten, TypeOK
<1>10. PoolBalance'
    BY <1>1, <1>2, <1>3 DEF PoolInv, PoolBalance, Uneaten
<1> QED
    BY <1>2, <1>7, <1>8, <1>9, <1>10 DEF PoolInv

(* The killer changes its own program counter and its victim. *)
LEMMA KillerMoves ==
  ASSUME PoolInv, NEW s \in Pcs \ {"new"}, pc[Killer] # "new", pc[Killer] # "done",
         Goto(Killer, s), killerUnchanged,
         m_threads' = m_threads, m_threads_to_kill' \subseteq m_threads_to_kill,
         victim' \in Threads, s \in {"join", "erase"} => victim' \in Workers
  PROVE  PoolInv'
<1>1. /\ pc' \in [Threads -> Pcs] /\ pc'[Killer] = s
      /\ \A v \in Workers : pc'[v] = pc[v]
    BY GotoFacts, ThreadFacts DEF PoolInv
<1>2. UNCHANGED <<m_state_of_process, m_num_of_threads, apples, m_tasks, job, interrupted, client,
                  calls, eaten, late>>
    BY DEF killerUnchanged
<1>3. TypeOK'
    BY <1>1, <1>2 DEF PoolInv, TypeOK, Pcs
<1>4. Created' = Created
    BY <1>1, CreatedKept
<1>5. PoolClient'
    BY <1>2 DEF PoolInv, PoolClient
<1>6. PoolDone'
  <2>1. /\ \A v \in Threads : pc[v] = "done" => pc'[v] = "done"
        /\ \A v \in Threads : pc'[v] = "new" <=> pc[v] = "new"
    BY <1>1, ThreadFacts
  <2>2. client.at # "stopped" /\ client.passed \subseteq Threads
    BY ThreadFacts, ClientTypes DEF PoolInv, PoolDone
  <2>3. \A w \in Threads : pc'[w] # "new" =>
          w \in m_threads' \/ (client.at = "insert" /\ w \in client.passed)
    BY <2>1 DEF PoolInv, PoolDone
  <2>5. client.at = "joining" => \A w \in client.passed : pc'[w] = "done"
    BY <2>1, <2>2 DEF PoolInv, PoolDone
  <2> QED
    BY <1>1, <1>2, <2>2, <2>3, <2>5 DEF PoolDone
<1>7. PoolPause'
    BY <1>1, <1>2 DEF PoolInv, PoolPause
<1>8. PoolEaten'
    BY <1>1, <1>2, <1>4 DEF PoolInv, PoolEaten, TypeOK
<1>9. PoolBalance' /\ PoolNumbers'
    BY <1>2, <1>4 DEF PoolInv, PoolBalance, Uneaten, PoolNumbers
<1> QED
    BY <1>3, <1>5, <1>6, <1>7, <1>8, <1>9 DEF PoolInv

(* The killer joins and erases. *)
LEMMA KillerSteps ==
  ASSUME PoolInv, KillerStep
  PROVE  PoolInv'
<1>0. /\ victim \in Threads /\ m_threads_to_kill \subseteq Workers
      /\ pc[Killer] \in {"join", "erase"} => victim \in Workers
    BY DEF PoolInv, TypeOK, PoolDone
<1>1. CASE KillerTest
  <2> DEFINE s == IF Killer \in interrupted THEN "done" ELSE "pop"
  <2>1. /\ pc[Killer] = "top" /\ Goto(Killer, s) /\ killerUnchanged
        /\ UNCHANGED <<m_threads, m_threads_to_kill, victim>>
    BY <1>1 DEF KillerTest
  <2>2. s \in Pcs \ {"new"} /\ s \notin {"join", "erase"}
    BY DEF Pcs
  <2> QED
    BY <1>0, <2>1, <2>2, KillerMoves
<1>2. CASE KillerPop
  <2>1. PICK w \in m_threads_to_kill :
          /\ victim' = w /\ m_threads_to_kill' = m_threads_to_kill \ {w}
          /\ pc[Killer] = "pop" /\ Goto(Killer, "join") /\ killerUnchanged
          /\ UNCHANGED m_threads
    BY <1>2 DEF KillerPop
  <2>2. "join" \in Pcs \ {"new"} /\ w \in Workers /\ w \in Threads
    BY <1>0, <2>1, ThreadFacts DEF Pcs
  <2> QED
    BY <1>0, <2>1, <2>2, KillerMoves
<1>3. CASE KillerJoin
  <2>1. /\ pc[Killer] = "join" /\ pc[victim] = "done" /\ Goto(Killer, "erase") /\ killerUnchanged
        /\ UNCHANGED <<m_threads, m_threads_to_kill, victim>>
        /\ "erase" \in Pcs \ {"new"}
    BY <1>3 DEF KillerJoin, Pcs
  <2> QED
    BY <1>0, <2>1, KillerMoves
<1>4. CASE KillerInterrupted
  <2>1. /\ pc[Killer] \in {"pop", "join"} /\ Goto(Killer, "done") /\ killerUnchanged
        /\ UNCHANGED <<m_threads, m_threads_to_kill, victim>>
        /\ "done" \in Pcs \ {"new"}
    BY <1>4 DEF KillerInterrupted, Pcs
  <2> QED
    BY <1>0, <2>1, KillerMoves
<1>5. CASE KillerErase
  <2>1. /\ pc[Killer] = "erase" /\ Goto(Killer, "top") /\ killerUnchanged
        /\ UNCHANGED <<m_threads, m_threads_to_kill, victim>>
        /\ "top" \in Pcs \ {"new"}
    BY <1>5 DEF KillerErase, Pcs
  <2> QED
    BY <1>0, <2>1, KillerMoves
<1> QED
    BY <1>1, <1>2, <1>3, <1>4, <1>5 DEF KillerStep

(***************************************************************************)
(* A step of the client that makes no thread: workers that sleep may be    *)
(* woken, the map may grow and threads may be interrupted.                 *)
(***************************************************************************)
LEMMA ClientMoves ==
  ASSUME PoolInv, pc' \in [Threads -> Pcs],
         \A w \in Threads : \/ pc'[w] = pc[w]
                            \/ w \in Workers /\ pc[w] = "paused" /\ pc'[w] = "gate",
         clientUnchanged, interrupted \subseteq interrupted', m_threads \subseteq m_threads',
         client.at = "insert" => client.passed \subseteq m_threads',
         client'.at # "insert", client'.passed \subseteq Threads,
         client'.at = "joining" => \A w \in client'.passed : pc[w] = "done",
         client'.at = "stopped" => \A w \in Threads : pc[w] \in {"new", "done"}
  PROVE  /\ PoolDone' /\ PoolEaten' /\ Created' = Created /\ Uneaten' = Uneaten
         /\ UNCHANGED <<m_state_of_process, late>> => PoolPause'
<1>1. UNCHANGED <<job, victim, eaten>>
    BY DEF clientUnchanged
<1>2. /\ \A v \in Threads : pc[v] = "done" => pc'[v] = "done"
      /\ \A v \in Threads : pc'[v] = "new" <=> pc[v] = "new"
      /\ pc'[Killer] = pc[Killer]
    BY ThreadFacts
<1>3. Created' = Created
    BY <1>2, ThreadFacts, CreatedKept
<1>4. PoolDone'
  <2>1. /\ pc[Killer] # "new" /\ pc'[Killer] # "new"
        /\ pc'[Killer] \in {"join", "erase"} => victim \in Workers
    BY <1>2, ThreadFacts DEF PoolInv, PoolDone
  <2>2. \A w \in Threads : pc'[w] # "new" => w \in m_threads'
    BY <1>2 DEF PoolInv, PoolDone
  <2>3. client'.at = "joining" => \A w \in client'.passed : pc'[w] = "done"
    BY <1>2
  <2>4. client'.at = "stopped" => \A w \in Threads : pc'[w] \in {"new", "done"}
    BY <1>2
  <2> QED
    BY <1>1, <2>1, <2>2, <2>3, <2>4 DEF PoolDone
<1>5. PoolEaten'
  <2>1. \A w \in eaten : pc'[w] = pc[w]
    BY ThreadFacts DEF PoolInv, PoolEaten, TypeOK
  <2> QED
    BY <1>1, <1>3, <2>1 DEF PoolInv, PoolEaten
<1>6. Uneaten' = Uneaten
    BY <1>1, <1>3 DEF Uneaten
<1>7. ASSUME UNCHANGED <<m_state_of_process, late>> PROVE PoolPause'
    BY <1>7, ThreadFacts DEF PoolInv, PoolPause
<1> QED
    BY <1>3, <1>4, <1>5, <1>6, <1>7

(* What the client's calls count with. *)
LEMMA CountTypes ==
  ASSUME PoolInv
  PROVE  /\ client.left \in Nat /\ client.target \in Nat /\ m_num_of_threads \in Nat
         /\ apples \in Nat /\ MaxThreads \in Nat /\ m_num_of_threads \in 1 .. MaxThreads
BY ClientTypes, ThreadFacts DEF PoolInv, TypeOK, Workers

(* Nobody is woken. *)
LEMMA PcStays ==
  ASSUME PoolInv, UNCHANGED pc
  PROVE  /\ pc' \in [Threads -> Pcs]
         /\ \A w \in Threads : \/ pc'[w] = pc[w]
                               \/ w \in Workers /\ pc[w] = "paused" /\ pc'[w] = "gate"
BY DEF PoolInv, TypeOK, Pcs

(* Add enqueues a task. *)
LEMMA AddStep ==
  ASSUME PoolInv, NEW t \in Tasks, Add(t)
  PROVE  PoolInv'
<1>1. /\ client.at = "idle" /\ calls < MaxCalls /\ calls' = calls + 1 /\ m_tasks' = m_tasks \cup {t}
      /\ client' = Client("added", 0, m_num_of_threads, {}) /\ clientUnchanged
      /\ UNCHANGED <<m_state_of_process, m_num_of_threads, apples, m_threads, m_threads_to_kill,
                     pc, interrupted, late, job, victim, eaten>>
    BY DEF Add, clientUnchanged
<1>2. /\ client'.at = "added" /\ client'.left = 0 /\ client'.target = m_num_of_threads
      /\ client'.passed = {} /\ client' \in Clients
    BY <1>1, ClientFields, CountTypes DEF Calls
<1>3. /\ PoolDone' /\ PoolEaten' /\ Created' = Created /\ Uneaten' = Uneaten /\ PoolPause'
    BY <1>1, <1>2, PcStays, ClientMoves
<1>4. TypeOK'
  <2>1. calls' \in 0 .. MaxCalls
    BY <1>1, PoolAssumption DEF PoolInv, TypeOK
  <2> QED
    BY <1>1, <1>2, <2>1 DEF PoolInv, TypeOK, Clients, Calls
<1>5. PoolClient'
    BY <1>1, <1>2 DEF PoolInv, PoolClient, TypeOK
<1>6. PoolBalance'
  <2>1. Uneaten = m_num_of_threads + apples
    BY <1>1 DEF PoolInv, PoolBalance
  <2>2. Uneaten' = client'.target + client'.left + apples'
    BY <1>1, <1>2, <1>3, <2>1, CountTypes
  <2> QED
    BY <1>2, <2>2 DEF PoolBalance
<1>7. PoolNumbers'
    BY <1>2, <1>3 DEF PoolInv, PoolNumbers
<1> QED
    BY <1>3, <1>4, <1>5, <1>6, <1>7 DEF PoolInv

(* Add wakes the workers. *)
LEMMA AddNotifyStep ==
  ASSUME PoolInv, AddNotify
  PROVE  PoolInv'
<1>1. /\ client.at = "added" /\ clientUnchanged
      /\ client' = Client("poison", client.left, client.target, client.passed)
      /\ UNCHANGED <<m_state_of_process, m_num_of_threads, apples, m_tasks, m_threads,
                     m_threads_to_kill, interrupted, calls, late, job, victim, eaten>>
    BY DEF AddNotify, clientUnchanged, ClientAt
<1>2. /\ client'.at = "poison" /\ client'.left = client.left /\ client'.target = client.target
      /\ client'.passed \subseteq Threads /\ client' \in Clients
    BY <1>1, ClientFields, ClientTypes DEF Calls, PoolInv
<1>3. /\ pc' \in [Threads -> Pcs]
      /\ \A w \in Threads : \/ pc'[w] = pc[w]
                            \/ w \in Workers /\ pc[w] = "paused" /\ pc'[w] = "gate"
  <2>1. CASE UNCHANGED pc
    BY <2>1, PcStays
  <2>2. ASSUME NEW v \in Sleeping, Notified(v)
        PROVE  /\ pc' \in [Threads -> Pcs]
               /\ \A w \in Threads : \/ pc'[w] = pc[w]
                                     \/ w \in Workers /\ pc[w] = "paused" /\ pc'[w] = "gate"
    <3>1. v \in Threads /\ v \in Workers /\ pc[v] = "paused" /\ Goto(v, "gate") /\ "gate" \in Pcs
      BY <2>2, ThreadFacts DEF Sleeping, Notified, Goto, Pcs
    <3> QED
      BY <3>1, GotoFacts DEF PoolInv
  <2> QED
    BY <2>1, <2>2 DEF AddNotify
<1>4. /\ PoolDone' /\ PoolEaten' /\ Created' = Created /\ Uneaten' = Uneaten /\ PoolPause'
    BY <1>1, <1>2, <1>3, ClientMoves
<1>5. TypeOK'
    BY <1>1, <1>2, <1>3 DEF PoolInv, TypeOK, Clients, Calls, Pcs
<1>6. PoolClient' /\ PoolBalance'
    BY <1>1, <1>2, <1>4 DEF PoolInv, PoolClient, PoolBalance
<1>7. PoolNumbers'
    BY <1>2, <1>4 DEF PoolInv, PoolNumbers
<1> QED
    BY <1>4, <1>5, <1>6, <1>7 DEF PoolInv

(* AddPoisonApple adds one apple. *)
LEMMA AddAppleStep ==
  ASSUME PoolInv, AddApple
  PROVE  PoolInv'
<1>1. /\ client.at = "poison" /\ client.left > 0 /\ clientUnchanged /\ apples' = apples + 1
      /\ client' = Client("added", client.left - 1, client.target, client.passed)
      /\ UNCHANGED <<m_state_of_process, m_num_of_threads, m_tasks, m_threads, m_threads_to_kill,
                     pc, interrupted, calls, late, job, victim, eaten>>
    BY DEF AddApple, clientUnchanged
<1>2. client.left - 1 \in 0 .. MaxThreads /\ apples' \in Nat
    BY <1>1, ClientTypes, CountTypes DEF PoolInv
<1>3. /\ client'.at = "added" /\ client'.left = client.left - 1 /\ client'.target = client.target
      /\ client'.passed \subseteq Threads /\ client' \in Clients
    BY <1>1, <1>2, ClientFields, ClientTypes DEF Calls, PoolInv
<1>4. /\ PoolDone' /\ PoolEaten' /\ Created' = Created /\ Uneaten' = Uneaten /\ PoolPause'
    BY <1>1, <1>3, PcStays, ClientMoves
<1>5. TypeOK'
    BY <1>1, <1>2, <1>3 DEF PoolInv, TypeOK, Clients, Calls
<1>6. PoolClient'
    BY <1>1, <1>3 DEF PoolInv, PoolClient
<1>7. PoolBalance'
  <2>1. Uneaten = client.target + client.left + apples
    BY <1>1 DEF PoolInv, PoolBalance
  <2>2. Uneaten' = client'.target + client'.left + apples'
    BY <1>1, <1>3, <1>4, <2>1, CountTypes
  <2> QED
    BY <1>3, <2>2 DEF PoolBalance
<1>8. PoolNumbers'
    BY <1>3, <1>4 DEF PoolInv, PoolNumbers
<1> QED
    BY <1>4, <1>5, <1>6, <1>7, <1>8 DEF PoolInv

(* Run, Pause and Stop store the state; Run and Pause begin to count anew. *)
LEMMA SetStateStep ==
  ASSUME PoolInv, Run \/ Pause \/ Stop
  PROVE  PoolInv'
<1>1. PICK s \in {"RUN", "PAUSE", "STOP"}, at \in {"running", "idle", "stopping"} :
        /\ client.at = "idle" /\ m_state_of_process' = s /\ clientUnchanged
        /\ client' = Client(at, client.left, client.target, client.passed)
        /\ calls' = calls \/ (calls < MaxCalls /\ calls' = calls + 1)
        /\ late' = [w \in Workers |-> 0] \/ (s = "STOP" /\ late' = late)
        /\ UNCHANGED <<m_num_of_threads, apples, m_tasks, m_threads, m_threads_to_kill, pc,
                       interrupted, job, victim, eaten>>
    BY DEF Run, Pause, Stop, SetState, ClientAt, clientUnchanged
<1>2. /\ client'.at = at /\ client'.passed \subseteq Threads /\ client' \in Clients
    BY <1>1, ClientFields, ClientTypes DEF Calls, PoolInv
<1>3. at \notin {"added", "poison", "spawn", "insert", "joining", "stopped"}
    BY <1>1
<1>4. /\ PoolDone' /\ PoolEaten' /\ Created' = Created /\ Uneaten' = Uneaten
    BY <1>1, <1>2, <1>3, PcStays, ClientMoves
<1>5. TypeOK'
  <2>1. calls' \in 0 .. MaxCalls
    BY <1>1, PoolAssumption DEF PoolInv, TypeOK
  <2>2. late' \in [Workers -> Nat]
    BY <1>1 DEF PoolInv, TypeOK
  <2> QED
    BY <1>1, <1>2, <2>1, <2>2 DEF PoolInv, TypeOK, Clients, Calls
<1>6. PoolPause'
  <2>1. CASE late' = [w \in Workers |-> 0]
    BY <2>1 DEF PoolPause
  <2>2. CASE s = "STOP" /\ late' = late
    BY <1>1, <2>2 DEF PoolInv, PoolPause
  <2> QED
    BY <1>1, <2>1, <2>2
<1>7. PoolClient' /\ PoolBalance'
    BY <1>1, <1>2, <1>3, <1>4 DEF PoolInv, PoolClient, PoolBalance
<1>8. PoolNumbers'
    BY <1>2, <1>3, <1>4 DEF PoolInv, PoolNumbers
<1> QED
    BY <1>4, <1>5, <1>6, <1>7, <1>8 DEF PoolInv

(* Run or Stop wakes the workers at the gate. *)
LEMMA NotifyPausedStep ==
  ASSUME PoolInv, NotifyPaused
  PROVE  PoolInv'
<1>1. PICK at \in {"idle", "interrupting"} :
        /\ client.at \in {"running", "stopping"} /\ client' = Client(at, 0, 0, {})
        /\ NotifyAll /\ clientUnchanged
        /\ UNCHANGED <<m_state_of_process, m_num_of_threads, apples, m_tasks, m_threads,
                       m_threads_to_kill, interrupted, calls, late, job, victim, eaten>>
    BY DEF NotifyPaused, clientUnchanged, IdleClient
<1>2. client'.at = at /\ client'.passed = {} /\ client' \in Clients
    BY <1>1, ClientFields, ThreadFacts DEF Calls
<1>3. /\ pc' \in [Threads -> Pcs]
      /\ \A w \in Threads : \/ pc'[w] = pc[w]
                            \/ w \in Workers /\ pc[w] = "paused" /\ pc'[w] = "gate"
    BY <1>1 DEF NotifyAll, Sleeping, PoolInv, TypeOK, Pcs
<1>4. /\ PoolDone' /\ PoolEaten' /\ Created' = Created /\ Uneaten' = Uneaten /\ PoolPause'
    BY <1>1, <1>2, <1>3, ClientMoves
<1>5. TypeOK'
    BY <1>1, <1>2, <1>3 DEF PoolInv, TypeOK, Clients, Calls, Pcs
<1>6. PoolClient' /\ PoolBalance'
    BY <1>1, <1>2, <1>4 DEF PoolInv, PoolClient, PoolBalance
<1>7. PoolNumbers'
    BY <1>1, <1>2, <1>4 DEF PoolInv, PoolNumbers
<1> QED
    BY <1>4, <1>5, <1>6, <1>7 DEF PoolInv

(* Stop's two loops: it has passed the threads that it has interrupted, then the dead. *)
LEMMA StopStep ==
  ASSUME PoolInv, StopInterrupt \/ StopJoin
  PROVE  PoolInv'
<1>0. m_threads \subseteq Threads /\ client.passed \subseteq Threads /\ interrupted \subseteq Threads
    BY ClientTypes DEF PoolInv, TypeOK
<1>1. /\ client.at \in {"interrupting", "joining"} /\ clientUnchanged
      /\ UNCHANGED <<m_state_of_process, m_num_of_threads, apples, m_tasks, m_threads,
                     m_threads_to_kill, pc, calls, late, job, victim, eaten>>
    BY DEF StopInterrupt, StopJoin, clientUnchanged
<1>2. interrupted \subseteq interrupted' /\ interrupted' \subseteq Threads
    BY <1>0 DEF StopInterrupt, StopJoin
<1>3. PICK at \in {"interrupting", "joining", "stopped"}, l \in 0 .. MaxThreads,
           t \in 0 .. MaxThreads, p \in SUBSET Threads : client' = Client(at, l, t, p)
  <2>1. ASSUME NEW w \in m_threads, client' = ClientPasses(w)
        PROVE  \E at \in {"interrupting", "joining", "stopped"}, l \in 0 .. MaxThreads,
                  t \in 0 .. MaxThreads, p \in SUBSET Threads : client' = Client(at, l, t, p)
    BY <1>0, <1>1, <2>1, ClientTypes DEF ClientPasses, PoolInv
  <2>2. ASSUME NEW a \in {"joining", "stopped"}, client' = Client(a, 0, 0, {})
        PROVE  \E at \in {"interrupting", "joining", "stopped"}, l \in 0 .. MaxThreads,
                  t \in 0 .. MaxThreads, p \in SUBSET Threads : client' = Client(at, l, t, p)
    BY <2>2, ThreadFacts
  <2> QED
    BY <2>1, <2>2 DEF StopInterrupt, StopJoin
<1>4. client'.at = at /\ client'.passed = p /\ client' \in Clients
    BY <1>3, ClientFields DEF Calls
<1>5. client'.at = "joining" => \A w \in client'.passed : pc[w] = "done"
  <2>1. CASE StopInterrupt
    <3>1. ASSUME NEW w, client' = ClientPasses(w) PROVE client'.at = "interrupting"
      BY <2>1, <3>1, ClientFields DEF StopInterrupt, ClientPasses
    <3>2. ASSUME client' = Client("joining", 0, 0, {}) PROVE client'.passed = {}
      BY <3>2, ClientFields
    <3> QED
      BY <2>1, <3>1, <3>2 DEF StopInterrupt
  <2>2. CASE StopJoin
    <3>1. ASSUME NEW w, pc[w] = "done", client' = ClientPasses(w)
          PROVE  \A v \in client'.passed : pc[v] = "done"
      <4>1. client'.passed = client.passed \cup {w}
        BY <3>1, ClientFields DEF ClientPasses
      <4> QED
        BY <2>2, <3>1, <4>1 DEF StopJoin, PoolInv, PoolDone
    <3>2. ASSUME client' = Client("stopped", 0, 0, {}) PROVE client'.at = "stopped"
      BY <3>2, ClientFields
    <3> QED
      BY <2>2, <3>1, <3>2 DEF StopJoin
  <2> QED
    BY <2>1, <2>2
<1>6. ASSUME client'.at = "stopped" PROVE \A w \in Threads : pc[w] \in {"new", "done"}
  <2>1. client.at = "joining" /\ m_threads \subseteq client.passed
    <3>1. \A w : ClientPasses(w).at = client.at
      BY ClientFields DEF ClientPasses
    <3>2. Client("joining", 0, 0, {}).at = "joining"
      BY ClientFields
    <3> QED
      BY <1>1, <1>6, <3>1, <3>2 DEF StopInterrupt, StopJoin
  <2> QED
    BY <2>1 DEF PoolInv, PoolDone
<1>7. client'.at # "insert" /\ client.at # "insert" /\ client'.passed \subseteq Threads
    BY <1>1, <1>3, <1>4
<1>8. /\ PoolDone' /\ PoolEaten' /\ Created' = Created /\ Uneaten' = Uneaten /\ PoolPause'
    BY <1>1, <1>2, <1>5, <1>6, <1>7, PcStays, ClientMoves
<1>9. TypeOK'
    BY <1>1, <1>2, <1>4 DEF PoolInv, TypeOK, Clients, Calls
<1>10. PoolClient' /\ PoolBalance'
    BY <1>1, <1>3, <1>4, <1>8 DEF PoolInv, PoolClient, PoolBalance
<1>11. PoolNumbers'
    BY <1>3, <1>4, <1>8 DEF PoolInv, PoolNumbers
<1> QED
    BY <1>8, <1>9, <1>10, <1>11 DEF PoolInv

(* Resize begins. *)
LEMMA ResizeStep ==
  ASSUME PoolInv, NEW n \in Workers, Resize(n)
  PROVE  PoolInv'
<1> DEFINE grow == n > m_num_of_threads
           at == IF grow THEN "spawn" ELSE "poison"
           l == IF grow THEN n - m_num_of_threads ELSE m_num_of_threads - n
<1>1. /\ client.at = "idle" /\ calls < MaxCalls /\ calls' = calls + 1 /\ clientUnchanged
      /\ grow => Cardinality(Created) + n - m_num_of_threads <= MaxThreads
      /\ client' = Client(at, l, n, {})
      /\ UNCHANGED <<m_state_of_process, m_num_of_threads, apples, m_tasks, m_threads,
                     m_threads_to_kill, pc, interrupted, late, job, victim, eaten>>
    BY DEF Resize, clientUnchanged
<1>2. l \in 0 .. MaxThreads /\ n \in 0 .. MaxThreads /\ n \in Nat
    BY CountTypes DEF Workers
<1>3. client'.at = at /\ client'.left = l /\ client'.target = n /\ client'.passed = {}
    BY <1>1, ClientFields
<1>4. client' \in Clients
  <2>1. at \in Calls /\ {} \in SUBSET Threads
    BY DEF Calls
  <2> QED
    BY <1>1, <1>2, <2>1, ClientFields
<1>5. at \notin {"insert", "joining", "stopped"}
    OBVIOUS
<1>6. /\ PoolDone' /\ PoolEaten' /\ Created' = Created /\ Uneaten' = Uneaten /\ PoolPause'
    BY <1>1, <1>3, <1>5, PcStays, ClientMoves
<1>7. TypeOK'
  <2>1. calls' \in 0 .. MaxCalls
    BY <1>1, PoolAssumption DEF PoolInv, TypeOK
  <2> QED
    BY <1>1, <1>4, <2>1 DEF PoolInv, TypeOK, Clients, Calls
<1>8. PoolClient'
    BY <1>3, <1>5 DEF PoolClient
<1>9. PoolBalance'
  <2>1. Uneaten = m_num_of_threads + apples
    BY <1>1 DEF PoolInv, PoolBalance
  <2>2. CASE grow
    <3>1. Uneaten' + client'.left = client'.target + apples' /\ client'.at = "spawn"
      BY <1>1, <1>2, <1>3, <1>6, <2>1, <2>2, CountTypes
    <3> QED
      BY <3>1 DEF PoolBalance
  <2>3. CASE ~grow
    <3>1. Uneaten' = client'.target + client'.left + apples' /\ client'.at = "poison"
      BY <1>1, <1>2, <1>3, <1>6, <2>1, <2>3, CountTypes
    <3> QED
      BY <3>1 DEF PoolBalance
  <2> QED
    BY <2>2, <2>3
<1>10. PoolNumbers'
  <2>1. PICK k \in 0 .. MaxThreads : Created = 1 .. k
    BY DEF PoolInv, PoolNumbers
  <2>2. Cardinality(Created) = k
    BY <2>1, CountTypes, FS_Interval
  <2>3. client'.at = "spawn" => k + client'.left <= MaxThreads
    BY <1>1, <1>2, <1>3, <2>1, <2>2, CountTypes
  <2> QED
    BY <1>3, <1>5, <1>6, <2>1, <2>3 DEF PoolNumbers
<1> QED
    BY <1>6, <1>7, <1>8, <1>9, <1>10 DEF PoolInv

(* ThreadInit makes the next thread, which has not eaten. *)
LEMMA SpawnThreadStep ==
  ASSUME PoolInv, SpawnThread
  PROVE  PoolInv'
<1> DEFINE w == Cardinality(Created) + 1
<1>1. /\ client.at = "spawn" /\ client.left > 0 /\ pc' = [pc EXCEPT ![w] = "top"]
      /\ client' = Client("insert", client.left, client.target, {w})
      /\ UNCHANGED <<m_state_of_process, m_num_of_threads, apples, m_tasks, m_threads,
                     m_threads_to_kill, interrupted, calls, late, job, victim, eaten>>
    BY DEF SpawnThread, clientUnchanged
<1>2. PICK k \in 0 .. MaxThreads : Created = 1 .. k /\ k + client.left <= MaxThreads
    BY <1>1 DEF PoolInv, PoolNumbers
<1>3. Cardinality(Created) = k
    BY <1>2, CountTypes, FS_Interval
<1>4. w = k + 1 /\ w \in Workers /\ w \in Threads /\ w \notin Created /\ w # Killer
    BY <1>1, <1>2, <1>3, CountTypes DEF Workers, Threads, Killer
<1> HIDE DEF w
<1>5. /\ pc' \in [Threads -> Pcs] /\ pc'[w] = "top" /\ pc[w] = "new"
      /\ \A v \in Threads : v # w => pc'[v] = pc[v]
  <2>1. Goto(w, "top") /\ "top" \in Pcs
    BY <1>1 DEF Goto, Pcs
  <2>2. pc[w] = "new"
    BY <1>4 DEF Created
  <2> QED
    BY <1>4, <2>1, <2>2, GotoFacts DEF PoolInv
<1>6. Created' = Created \cup {w} /\ Created' = 1 .. k + 1
  <2>1. Created' = Created \cup {w}
    BY <1>4, <1>5, ThreadFacts DEF Created, Workers
  <2> QED
    BY <1>2, <1>4, <2>1, CountTypes
<1>7. /\ client'.at = "insert" /\ client'.left = client.left /\ client'.target = client.target
      /\ client'.passed = {w} /\ client' \in Clients
    BY <1>1, <1>4, ClientFields, ClientTypes DEF PoolInv, Calls
<1>8. TypeOK'
    BY <1>1, <1>5, <1>7 DEF PoolInv, TypeOK, Pcs, Clients, Calls
<1>9. PoolClient'
    BY <1>1, <1>7 DEF PoolInv, PoolClient
<1>10. PoolDone'
  <2>1. pc'[Killer] = pc[Killer]
    BY <1>4, <1>5, ThreadFacts
  <2>3. \A v \in Threads : pc'[v] # "new" =>
          v \in m_threads \/ v \in client'.passed
    BY <1>1, <1>5, <1>7 DEF PoolInv, PoolDone
  <2> QED
    BY <1>1, <1>7, <2>1, <2>3 DEF PoolInv, PoolDone
<1>11. PoolPause'
  <2>1. \A v \in Workers : v # w => pc'[v] = pc[v]
    BY <1>5, ThreadFacts
  <2> QED
    BY <1>1, <1>5, <2>1 DEF PoolInv, PoolPause
<1>12. w \notin eaten
    BY <1>4 DEF PoolInv, PoolEaten
<1>13. PoolEaten'
  <2>1. \A v \in eaten : pc'[v] = pc[v]
    BY <1>5, <1>12, ThreadFacts DEF PoolInv, TypeOK
  <2> QED
    BY <1>1, <1>6, <2>1 DEF PoolInv, PoolEaten
<1>14. Uneaten' = Uneaten + 1 /\ Uneaten \in Nat
  <2>1. IsFiniteSet(Created)
    BY <1>2, FS_Interval
  <2>2. IsFiniteSet(Created \ eaten)
    BY <2>1, FS_Difference
  <2>3. Created' \ eaten = (Created \ eaten) \cup {w} /\ w \notin Created \ eaten
    BY <1>4, <1>6, <1>12
  <2>4. Cardinality((Created \ eaten) \cup {w}) = Cardinality(Created \ eaten) + 1
    BY <2>2, <2>3, FS_AddElement
  <2> QED
    BY <1>1, <2>2, <2>3, <2>4, FS_CardinalityType DEF Uneaten
<1>15. PoolBalance'
  <2>1. Uneaten + client.left = client.target + apples
    BY <1>1 DEF PoolInv, PoolBalance
  <2>2. Uneaten' + client'.left = client'.target + apples' + 1
    BY <1>1, <1>7, <1>14, <2>1, CountTypes
  <2> QED
    BY <1>7, <2>2 DEF PoolBalance
<1>16. PoolNumbers'
  <2>1. k + 1 \in 0 .. MaxThreads /\ (k + 1) + client'.left <= MaxThreads + 1
    BY <1>1, <1>2, <1>7, CountTypes
  <2> QED
    BY <1>6, <1>7, <2>1 DEF PoolNumbers
<1> QED
    BY <1>8, <1>9, <1>10, <1>11, <1>13, <1>15, <1>16 DEF PoolInv

(* The map knows the thread, and the loop goes on. *)
LEMMA InsertThreadStep ==
  ASSUME PoolInv, InsertThread
  PROVE  PoolInv'
<1>1. /\ client.at = "insert" /\ m_threads' = m_threads \cup client.passed /\ clientUnchanged
      /\ client' = Client("spawn", client.left - 1, client.target, {})
      /\ UNCHANGED <<m_state_of_process, m_num_of_threads, apples, m_tasks, m_threads_to_kill, pc,
                     interrupted, calls, late, job, victim, eaten>>
    BY DEF InsertThread, clientUnchanged
<1>2. client.left > 0 /\ client.left - 1 \in 0 .. MaxThreads
    BY <1>1, ClientTypes, CountTypes DEF PoolInv, PoolClient
<1>3. /\ client'.at = "spawn" /\ client'.left = client.left - 1 /\ client'.target = client.target
      /\ client'.passed = {} /\ client' \in Clients
    BY <1>1, <1>2, ClientFields, ClientTypes DEF Calls, PoolInv
<1>4. /\ PoolDone' /\ PoolEaten' /\ Created' = Created /\ Uneaten' = Uneaten /\ PoolPause'
    BY <1>1, <1>3, PcStays, ClientMoves
<1>5. TypeOK'
  <2>1. m_threads' \subseteq Threads
    BY <1>1, ClientTypes DEF PoolInv, TypeOK
  <2> QED
    BY <1>1, <1>3, <2>1 DEF PoolInv, TypeOK, Clients, Calls
<1>6. PoolClient'
    BY <1>1, <1>3 DEF PoolInv, PoolClient
<1>7. PoolBalance'
  <2>1. Uneaten + client.left = client.target + apples + 1
    BY <1>1 DEF PoolInv, PoolBalance
  <2>2. Uneaten \in Nat
    <3>1. PICK k \in 0 .. MaxThreads : Created = 1 .. k
      BY DEF PoolInv, PoolNumbers
    <3>2. IsFiniteSet(Created)
      BY <3>1, CountTypes, FS_Interval
    <3>3. IsFiniteSet(Created \ eaten)
      BY <3>2, FS_Difference
    <3> QED
      BY <3>3, FS_CardinalityType DEF Uneaten
  <2>3. Uneaten' + client'.left = client'.target + apples'
    BY <1>1, <1>2, <1>3, <1>4, <2>1, <2>2, CountTypes
  <2> QED
    BY <1>3, <2>3 DEF PoolBalance
<1>8. PoolNumbers'
  <2>1. PICK k \in 0 .. MaxThreads : Created = 1 .. k /\ k + client.left <= MaxThreads + 1
    BY <1>1 DEF PoolInv, PoolNumbers
  <2>2. k + client'.left <= MaxThreads
    BY <1>2, <1>3, <2>1, CountTypes
  <2> QED
    BY <1>3, <1>4, <2>1, <2>2 DEF PoolNumbers
<1> QED
    BY <1>4, <1>5, <1>6, <1>7, <1>8 DEF PoolInv

(* Resize stores the new number of threads. *)
LEMMA ResizeEndStep ==
  ASSUME PoolInv, ResizeEnd
  PROVE  PoolInv'
<1>1. /\ client.at \in {"spawn", "poison"} /\ client.left = 0 /\ clientUnchanged
      /\ m_num_of_threads' = client.target /\ client' = Client("idle", 0, 0, {})
      /\ UNCHANGED <<m_state_of_process, apples, m_tasks, m_threads, m_threads_to_kill, pc,
                     interrupted, calls, late, job, victim, eaten>>
    BY DEF ResizeEnd, clientUnchanged, IdleClient
<1>2. client'.at = "idle" /\ client'.passed = {} /\ client' \in Clients
    BY <1>1, ClientFields, ThreadFacts DEF Calls
<1>3. /\ PoolDone' /\ PoolEaten' /\ Created' = Created /\ Uneaten' = Uneaten /\ PoolPause'
    BY <1>1, <1>2, PcStays, ClientMoves
<1>4. m_num_of_threads' \in Workers
    BY <1>1 DEF PoolInv, PoolClient
<1>5. TypeOK'
    BY <1>1, <1>2, <1>4 DEF PoolInv, TypeOK, Clients, Calls
<1>6. PoolClient'
    BY <1>2 DEF PoolClient
<1>7. PoolBalance'
  <2>0. Uneaten \in Nat
    <3>1. PICK k \in 0 .. MaxThreads : Created = 1 .. k
      BY DEF PoolInv, PoolNumbers
    <3>2. IsFiniteSet(Created)
      BY <3>1, CountTypes, FS_Interval
    <3>3. IsFiniteSet(Created \ eaten)
      BY <3>2, FS_Difference
    <3> QED
      BY <3>3, FS_CardinalityType DEF Uneaten
  <2>1. CASE client.at = "spawn"
    <3>1. Uneaten + client.left = client.target + apples
      BY <2>1 DEF PoolInv, PoolBalance
    <3>2. Uneaten' = m_num_of_threads' + apples'
      BY <1>1, <1>3, <2>0, <3>1, CountTypes
    <3> QED
      BY <1>2, <3>2 DEF PoolBalance
  <2>2. CASE client.at = "poison"
    <3>1. Uneaten = client.target + client.left + apples
      BY <2>2 DEF PoolInv, PoolBalance
    <3>2. Uneaten' = m_num_of_threads' + apples'
      BY <1>1, <1>3, <3>1, CountTypes
    <3> QED
      BY <1>2, <3>2 DEF PoolBalance
  <2> QED
    BY <1>1, <2>1, <2>2
<1>8. PoolNumbers'
    BY <1>2, <1>3 DEF PoolInv, PoolNumbers
<1> QED
    BY <1>3, <1>5, <1>6, <1>7, <1>8 DEF PoolInv

(***************************************************************************)
(* The strengthening behind the pool's invariants holds in every state,    *)
(* for any number of threads, tasks and calls.                             *)
(***************************************************************************)
THEOREM PoolInvariance == Spec => []PoolInv
<1>1. Init => PoolInv
  <2> SUFFICES ASSUME Init PROVE PoolInv
    OBVIOUS
  <2>1. /\ InitThreads \in 1 .. MaxThreads /\ InitThreads \in Nat /\ MaxThreads \in Nat
        /\ MaxCalls \in Nat
    BY PoolAssumption
  <2>2. /\ client.at = "idle" /\ client.left = 0 /\ client.target = 0 /\ client.passed = {}
        /\ client \in Clients
    BY <2>1, ClientFields DEF Init, IdleClient, Calls
  <2>3. /\ pc \in [Threads -> Pcs]
        /\ \A w \in Threads : pc[w] = IF w <= InitThreads THEN "top" ELSE "new"
    BY DEF Init, Pcs
  <2>4. m_threads = 0 .. InitThreads /\ m_threads \subseteq Threads /\ InitThreads \in Workers
    BY <2>1 DEF Init, Threads, Workers, Killer
  <2>5. TypeOK
    <3>1. m_num_of_threads \in Workers /\ apples \in Nat /\ calls \in 0 .. MaxCalls
      BY <2>1, <2>4 DEF Init
    <3>2. job \in [Workers -> Tasks \cup {NoTask, Apple}]
      BY DEF Init
    <3>3. late \in [Workers -> Nat]
      BY DEF Init
    <3>4. victim \in Threads
      BY DEF Init, Threads
    <3>5. /\ m_state_of_process \in {"RUN", "PAUSE", "STOP"} /\ m_tasks \subseteq Tasks
          /\ m_threads_to_kill \subseteq Workers /\ interrupted \subseteq Threads
          /\ eaten \subseteq Workers
      BY DEF Init
    <3> QED
      BY <2>2, <2>3, <2>4, <3>1, <3>2, <3>3, <3>4, <3>5 DEF TypeOK, Pcs, Clients, Calls
  <2>6. \A w \in Threads : w \in Nat /\ (w <= InitThreads <=> w \in 0 .. InitThreads)
    BY <2>1 DEF Threads, Workers, Killer
  <2>7. PoolDone
    <3>1. pc[Killer] = "top"
      BY <2>1, <2>3 DEF Threads, Killer
    <3>2. \A w \in Threads : pc[w] # "new" => w \in m_threads
      BY <2>3, <2>4, <2>6
    <3> QED
      BY <2>2, <3>1, <3>2 DEF PoolDone
  <2>8. PoolPause /\ PoolClient
    BY <2>2 DEF Init, PoolPause, PoolClient
  <2>9. Created = 1 .. InitThreads
    <3>1. \A w \in Workers : pc[w] # "new" <=> w <= InitThreads
      BY <2>3, ThreadFacts
    <3>2. Workers = 1 .. MaxThreads /\ 1 .. InitThreads \subseteq Workers
      BY <2>1 DEF Workers
    <3>3. \A w \in Workers : w \in Created <=> w <= InitThreads
      BY <3>1 DEF Created
    <3>4. Created \subseteq Workers
      BY DEF Created
    <3>5. \A w \in Workers : w <= InitThreads <=> w \in 1 .. InitThreads
      BY <2>1, <3>2
    <3> QED
      BY <3>2, <3>3, <3>4, <3>5
  <2>10. PoolEaten /\ PoolNumbers
    BY <2>1, <2>2, <2>9 DEF Init, PoolEaten, PoolNumbers
  <2>11. PoolBalance
    <3>1. Created \ eaten = 1 .. InitThreads
      BY <2>9 DEF Init
    <3>2. Cardinality(1 .. InitThreads) = InitThreads
      <4>1. 1 \in Int /\ InitThreads \in Int /\ ~(1 > InitThreads)
        BY <2>1
      <4>2. Cardinality(1 .. InitThreads) = InitThreads - 1 + 1
        BY <4>1, FS_Interval
      <4> QED
        BY <2>1, <4>2
    <3>3. Uneaten = InitThreads
      BY <3>1, <3>2 DEF Uneaten
    <3> QED
      BY <2>1, <2>2, <3>3 DEF Init, PoolBalance
  <2> QED
    BY <2>5, <2>7, <2>8, <2>10, <2>11 DEF PoolInv
<1>2. PoolInv /\ [Next]_vars => PoolInv'
  <2> SUFFICES ASSUME PoolInv, [Next]_vars PROVE PoolInv'
    OBVIOUS
  <2>1. CASE ClientCall
    <3>1. ASSUME NEW t \in Tasks, Add(t) PROVE PoolInv'
      BY <3>1, AddStep
    <3>2. ASSUME NEW n \in Workers, Resize(n) PROVE PoolInv'
      BY <3>2, ResizeStep
    <3> QED
      BY <2>1, <3>1, <3>2, SetStateStep DEF ClientCall
  <2>2. CASE ClientStep
    BY <2>2, AddNotifyStep, AddAppleStep, NotifyPausedStep, StopStep, SpawnThreadStep,
       InsertThreadStep, ResizeEndStep DEF ClientStep
  <2>3. CASE KillerStep
    BY <2>3, KillerSteps
  <2>4. ASSUME NEW w \in Workers, WorkerStep(w) \/ SpuriousWakeup(w) PROVE PoolInv'
    BY <2>4, GateStep, PopTaskStep, DoStep DEF WorkerStep
  <2>5. CASE UNCHANGED vars
    <3>1. UNCHANGED <<m_state_of_process, m_num_of_threads, apples, m_tasks, m_threads,
                      m_threads_to_kill, pc, job, interrupted, victim, client, calls, eaten,
                      late>>
      BY <2>5 DEF vars
    <3>2. Created' = Created
      BY <3>1, CreatedKept
    <3>3. TypeOK' /\ PoolClient' /\ PoolDone' /\ PoolPause'
      BY <3>1 DEF PoolInv, TypeOK, PoolClient, PoolDone, PoolPause
    <3>4. PoolEaten' /\ PoolBalance' /\ PoolNumbers'
      BY <3>1, <3>2 DEF PoolInv, PoolEaten, PoolBalance, Uneaten, PoolNumbers
    <3> QED
      BY <3>3, <3>4 DEF PoolInv
  <2> QED
    BY <2>1, <2>2, <2>3, <2>4, <2>5 DEF Next
<1> QED
    BY <1>1, <1>2, PTL DEF Spec

(***************************************************************************)
(* Every variable of the pool is of its type, in particular the number of  *)
(* threads is one that Resize may have been asked for.                     *)
(***************************************************************************)
THEOREM PoolTypes == Spec => []TypeOK
<1>1. PoolInv => TypeOK
    BY DEF PoolInv
<1> QED
    BY <1>1, PoolInvariance, PTL

(***************************************************************************)
(* Resize leaves the pool with the threads it was asked for, once the      *)
(* apples are eaten, for any number of threads and calls.                  *)
(***************************************************************************)
THEOREM ApplesBalance == Spec => []ResizeBalance
<1>1. PoolInv => ResizeBalance
    BY DEF PoolInv, PoolBalance, ResizeBalance, Uneaten
<1> QED
    BY <1>1, PoolInvariance, PTL

(***************************************************************************)
(* When Stop returns no thread of the pool runs, however many there are    *)
(* and however the killer and the poisoned workers were interrupted.       *)
(***************************************************************************)
THEOREM StopLeavesNobody == Spec => []StoppedMeansDone
<1>1. PoolInv => StoppedMeansDone
    BY ThreadFacts DEF PoolInv, PoolDone, StoppedMeansDone, Created
<1> QED
    BY <1>1, PoolInvariance, PTL

(***************************************************************************)
(* A worker takes at most one task after a Pause, whatever the client adds *)
(* and however many workers there are.                                     *)
(***************************************************************************)
THEOREM PauseHolds == Spec => []OneTaskAfterPause
<1>1. PoolInv => OneTaskAfterPause
    BY DEF PoolInv, PoolPause, OneTaskAfterPause
<1> QED
    BY <1>1, PoolInvariance, PTL

=============================================================================
