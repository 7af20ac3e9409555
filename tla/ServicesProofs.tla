--------------------------- MODULE ServicesProofs ---------------------------
(***************************************************************************)
(* What the services of projects/ promise, for any number of threads,      *)
(* clients, callbacks, blocks and messages.                                *)
(***************************************************************************)
EXTENDS Logger, NbdProxy, DirMonitor, FiniteSetTheorems, SequenceTheorems, TLAPS

-----------------------------------------------------------------------------
(* Singleton and Handleton *)

SgInside == {"new", "store", "unlock"}

(* The instances are numbered as they are made. *)
SgTypes ==
  /\ sgKind \in {"Singleton", "Handleton"}
  /\ m_Instance \in Nat \cup {DeadBeef} /\ sgPtr \in Nat \cup {DeadBeef}
  /\ sgAt \in [SingletonThreads -> {"out", "has", "lock"} \cup SgInside]
  /\ sgTmp \in [SingletonThreads -> Nat \cup {DeadBeef}]
  /\ \E k \in Nat : sgMade = 1 .. k
  /\ sgExit \in {"no", "deleted", "replaced", "done"}
  /\ sgExit = "deleted" => sgKind = "Singleton"
  /\ sgExit = "replaced" => sgKind = "Handleton"

(* The mutex is held by the one thread between its lock and its unlock. *)
SgLocked == \A t \in SingletonThreads : sgAt[t] \in SgInside => sgMutex = t

(***************************************************************************)
(* Before the exit handler begins: the pointer is empty until the one      *)
(* instance is stored, and only the thread that holds the mutex and has    *)
(* found it empty makes one.                                               *)
(***************************************************************************)
SgBefore ==
  /\ sgDeleted = {}
  /\ m_Instance = NULL \/ (m_Instance = 1 /\ sgMade = {1})
  /\ \A t \in SingletonThreads :
       /\ sgAt[t] = "new" => m_Instance = NULL /\ sgMade = {}
       /\ sgAt[t] = "store" => m_Instance = NULL /\ sgMade = {1} /\ sgTmp[t] = 1
       /\ sgAt[t] \in {"has", "unlock"} => sgTmp[t] = 1 /\ m_Instance = 1
  /\ m_Instance = NULL /\ (\A t \in SingletonThreads : sgAt[t] # "store") => sgMade = {}

(* Handleton, once its handler has put an address that faults in place: nobody makes one. *)
SgReplaced ==
  /\ sgMade = {1} /\ m_Instance \in {1, DeadBeef}
  /\ sgPtr \in {NULL, 1}
  /\ m_Instance = 1 => sgPtr = NULL
  /\ \A t \in SingletonThreads :
       /\ sgAt[t] # "new"
       /\ sgAt[t] = "store" => sgTmp[t] = 1 /\ sgPtr = NULL
  /\ sgDeleted \subseteq {sgPtr} \ {NULL}

(* Singleton, between its handler's two steps and after them. *)
SgDeleted ==
  /\ 1 \in sgMade /\ sgDeleted = {1}
  /\ sgExit = "deleted" => /\ m_Instance = 1
                           /\ \A t \in SingletonThreads : sgAt[t] \notin {"new", "store"}
  /\ sgExit = "done" => /\ m_Instance # 1
                        /\ \A t \in SingletonThreads : sgAt[t] = "store" => sgTmp[t] # 1

SgInv == /\ SgTypes /\ SgLocked
         /\ sgExit = "no" => SgBefore
         /\ sgExit # "no" /\ sgKind = "Handleton" => SgReplaced
         /\ sgExit # "no" /\ sgKind = "Singleton" => SgDeleted

(* Each step keeps the types; a new instance has a number of its own. *)
LEMMA SgTypesStep ==
  ASSUME SgInv, SingletonNext
  PROVE  /\ SgTypes'
         /\ \A t \in SingletonThreads : NewInstance(t) =>
              \E k \in Nat : sgMade = 1 .. k /\ sgMade' = 1 .. k + 1 /\ sgTmp'[t] = k + 1
<1>1. PICK k \in Nat : sgMade = 1 .. k
    BY DEF SgInv, SgTypes
<1>2. Cardinality(sgMade) = k
    BY <1>1, FS_Interval
<1>3. \A t \in SingletonThreads : NewInstance(t) =>
        sgMade = 1 .. k /\ sgMade' = 1 .. k + 1 /\ sgTmp'[t] = k + 1
  <2>1. 1 .. k + 1 = (1 .. k) \cup {k + 1}
    OBVIOUS
  <2> QED
    BY <1>1, <1>2, <2>1 DEF NewInstance, SgInv, SgTypes
<1>4. ASSUME NEW t \in SingletonThreads, NewInstance(t) PROVE SgTypes'
  <2>1. k + 1 \in Nat
    OBVIOUS
  <2> QED
    BY <1>2, <1>3, <1>4, <2>1 DEF NewInstance, Goto, SgInside, SgInv, SgTypes
<1>5. ASSUME NEW t \in SingletonThreads, GetInstance(t), ~NewInstance(t) PROVE SgTypes'
  <2>1. sgMade' = sgMade /\ sgKind' = sgKind /\ sgExit' = sgExit /\ sgPtr' = sgPtr
    BY <1>5 DEF GetInstance, LoadFirst, LoadLocked, StoreInstance, Unlock
  <2>2. m_Instance' \in Nat \cup {DeadBeef} /\ sgTmp' \in [SingletonThreads -> Nat \cup {DeadBeef}]
    BY <1>5, Zenon DEF GetInstance, LoadFirst, LoadLocked, StoreInstance, Unlock, SgInv, SgTypes
  <2>3. sgAt' \in [SingletonThreads -> {"out", "has", "lock"} \cup SgInside]
    BY <1>5 DEF GetInstance, LoadFirst, LoadLocked, StoreInstance, Unlock, Goto, SgInside,
                SgInv, SgTypes
  <2> QED
    BY <2>1, <2>2, <2>3 DEF SgInv, SgTypes
<1>6. ASSUME DeleteInstance \/ DestroyInstance PROVE SgTypes'
  <2>1. sgMade' = sgMade /\ sgKind' = sgKind /\ sgAt' = sgAt /\ sgTmp' = sgTmp
    BY <1>6 DEF DeleteInstance, DestroyInstance
  <2>2. NULL \in Nat
    BY DEF NULL
  <2>3. m_Instance' \in Nat \cup {DeadBeef} /\ sgPtr' \in Nat \cup {DeadBeef}
    BY <1>6, <2>2, Zenon DEF DeleteInstance, DestroyInstance, SgInv, SgTypes
  <2>4. /\ sgExit' \in {"no", "deleted", "replaced", "done"}
        /\ sgExit' = "deleted" => sgKind = "Singleton"
        /\ sgExit' = "replaced" => sgKind = "Handleton"
    BY <1>6 DEF DeleteInstance, DestroyInstance, SgInv, SgTypes
  <2> QED
    BY <2>1, <2>3, <2>4 DEF SgInv, SgTypes
<1> QED
    BY <1>3, <1>4, <1>5, <1>6 DEF SingletonNext

(***************************************************************************)
(* The inductive invariant of both kinds.                                  *)
(***************************************************************************)
THEOREM SingletonInvariance == SingletonSpec => []SgInv
<1>1. SingletonStart => SgInv
  <2> SUFFICES ASSUME SingletonStart PROVE SgInv
    OBVIOUS
  <2>1. sgMade = 1 .. 0
    BY DEF SingletonStart
  <2> QED
    BY <2>1 DEF SingletonStart, SgInv, SgTypes, SgLocked, SgBefore, SgInside, NULL
<1>2. SgInv /\ [SingletonNext]_singletonVars => SgInv'
  <2> SUFFICES ASSUME SgInv, [SingletonNext]_singletonVars PROVE SgInv'
    OBVIOUS
  <2>1. CASE UNCHANGED singletonVars
    BY <2>1 DEF singletonVars, SgInv, SgTypes, SgLocked, SgBefore, SgReplaced, SgDeleted
  <2>2. ASSUME SingletonNext PROVE SgInv'
    <3>0. SgTypes'
      BY <2>2, SgTypesStep
    <3>1. ASSUME NEW t \in SingletonThreads, LoadFirst(t) PROVE SgInv'
      BY <3>0, <3>1 DEF LoadFirst, Goto, SgInside, SgInv, SgTypes, SgLocked, SgBefore,
                        SgReplaced, SgDeleted, NULL, DeadBeef
    <3>2. ASSUME NEW t \in SingletonThreads, LoadLocked(t) PROVE SgInv'
      <4>1. \A u \in SingletonThreads : sgAt[u] \notin SgInside
        BY <3>2, SingletonAssumption DEF LoadLocked, SgInv, SgLocked, Free
      <4>2. SgTypes /\ SgLocked'
        BY <3>2, <4>1 DEF LoadLocked, Goto, SgInside, SgInv, SgTypes, SgLocked
      <4>3. CASE sgExit = "no"
        <5>1. m_Instance = NULL => sgMade = {}
          BY <4>3, <4>1 DEF SgInv, SgBefore, SgInside
        <5>2. m_Instance # NULL => m_Instance = 1 /\ sgMade = {1}
          BY <4>3 DEF SgInv, SgBefore
        <5> QED
          BY <3>2, <4>1, <4>2, <4>3, <5>1, <5>2 DEF LoadLocked, Goto, SgInside, SgInv, SgTypes,
                                                  SgBefore, NULL
      <4>4. CASE sgExit # "no"
        BY <3>2, <4>2, <4>4 DEF LoadLocked, Goto, SgInside, SgInv, SgTypes, SgLocked, SgReplaced,
                                SgDeleted, NULL, DeadBeef
      <4>5. sgExit' = sgExit /\ sgKind' = sgKind
        BY <3>2 DEF LoadLocked
      <4> QED
        BY <3>0, <4>2, <4>3, <4>4, <4>5 DEF SgInv
    <3>3. ASSUME NEW t \in SingletonThreads, NewInstance(t) PROVE SgInv'
      <4>1. PICK k \in Nat : sgMade = 1 .. k /\ sgMade' = 1 .. k + 1 /\ sgTmp'[t] = k + 1
        BY <2>2, <3>3, SgTypesStep
      <4>2. /\ sgAt[t] = "new" /\ sgAt' = [sgAt EXCEPT ![t] = "store"]
            /\ \A u \in SingletonThreads : u # t => sgTmp'[u] = sgTmp[u]
            /\ UNCHANGED <<sgKind, m_Instance, sgMutex, sgDeleted, sgExit, sgPtr>>
            /\ sgAt \in [SingletonThreads -> {"out", "has", "lock"} \cup SgInside]
        BY <3>3 DEF NewInstance, Goto, SgInv, SgTypes
      <4>3. SgLocked'
        BY <4>2 DEF SgInside, SgInv, SgLocked
      <4>4. sgMade = {} => sgMade' = {1} /\ sgTmp'[t] = 1
        BY <4>1
      <4>5. sgExit = "no" => SgBefore'
        BY <4>2, <4>4 DEF SgInv, SgLocked, SgInside, SgBefore, NULL
      <4>6. 1 \in sgMade => 1 \in sgMade' /\ sgTmp'[t] # 1
        BY <4>1
      <4>7. sgExit # "no" /\ sgKind = "Singleton" => SgDeleted'
        BY <4>2, <4>6 DEF SgInv, SgDeleted
      <4>8. sgExit # "no" => sgKind = "Singleton"
        BY <4>2 DEF SgInv, SgTypes, SgReplaced
      <4> QED
        BY <3>0, <4>2, <4>3, <4>5, <4>7, <4>8 DEF SgInv
    <3>4. ASSUME NEW t \in SingletonThreads, StoreInstance(t) PROVE SgInv'
      BY <3>0, <3>4 DEF StoreInstance, Goto, SgInside, SgInv, SgTypes, SgLocked, SgBefore,
                        SgReplaced, SgDeleted, NULL, DeadBeef
    <3>5. ASSUME NEW t \in SingletonThreads, Unlock(t) PROVE SgInv'
      BY <3>0, <3>5 DEF Unlock, Goto, SgInside, SgInv, SgTypes, SgLocked, SgBefore, SgReplaced,
                        SgDeleted, NULL, DeadBeef
    <3>6. CASE DeleteInstance
      BY <3>0, <3>6 DEF DeleteInstance, SgInside, SgInv, SgTypes, SgLocked, SgBefore, SgReplaced,
                        SgDeleted, NULL, DeadBeef
    <3>7. CASE DestroyInstance
      BY <3>0, <3>7 DEF DestroyInstance, SgInside, SgInv, SgTypes, SgLocked, SgBefore, SgReplaced,
                        SgDeleted, NULL, DeadBeef
    <3> QED
      BY <2>2, <3>1, <3>2, <3>3, <3>4, <3>5, <3>6, <3>7 DEF SingletonNext, GetInstance
  <2> QED
    BY <2>1, <2>2
<1> QED
    BY <1>1, <1>2, PTL DEF SingletonSpec

(***************************************************************************)
(* However many threads race through the first load, they get one          *)
(* instance, and the pointer is not left on a deleted one.                 *)
(***************************************************************************)
THEOREM OneInstanceForAll == SingletonSpec => []OneInstance
<1>1. SgInv => OneInstance
  <2> SUFFICES ASSUME SgInv PROVE OneInstance
    OBVIOUS
  <2>1. Cardinality({}) = 0 /\ Cardinality({1}) = 1
    BY FS_EmptySet, FS_Singleton
  <2>2. sgExit = "no" => sgMade \in {{}, {1}}
    BY DEF SgInv, SgTypes, SgBefore
  <2>3. sgExit = "no" => /\ Cardinality(sgMade) <= 1
                         /\ \A t \in SingletonThreads : sgAt[t] = "has" => sgTmp[t] \in sgMade
    BY <2>1, <2>2 DEF SgInv, SgBefore, NULL
  <2>4. sgExit # "no" /\ sgKind = "Handleton" => /\ Cardinality(sgMade) <= 1
                                                 /\ m_Instance \notin sgDeleted
    BY <2>1 DEF SgInv, SgReplaced, NULL, DeadBeef
  <2>5. sgExit = "done" /\ sgKind = "Singleton" => m_Instance \notin sgDeleted
    BY DEF SgInv, SgDeleted
  <2> QED
    BY <2>3, <2>4, <2>5 DEF SgInv, SgTypes, OneInstance
<1> QED
    BY <1>1, SingletonInvariance, PTL

-----------------------------------------------------------------------------
(* Logger *)

Popped == Len(logPushed) - Len(m_message_q)
\* Outputs of the messages popped that are still to come.
Lag == IF logThread.at = "text" THEN 2 ELSE IF logThread.at = "newline" THEN 1 ELSE 0

LogTypes ==
  /\ m_message_q \in Seq(Nat) /\ logPushed \in Seq(Nat) /\ logFile \in Seq(Nat)
  /\ logThread \in [at : {"test", "pop", "text", "newline", "done"}, str : Nat]
  /\ logOpen \in BOOLEAN /\ logClient \in [LogClients -> Nat] /\ logCount \in Nat

(* The queue holds what was pushed and not popped, and the thread the last message popped. *)
LogQueue ==
  /\ Popped \in Nat
  /\ \A i \in 1 .. Len(m_message_q) : m_message_q[i] = logPushed[Popped + i]
  /\ logThread.at \in {"text", "newline"} => Popped > 0
  /\ logThread.at = "text" => logThread.str = logPushed[Popped]

(* The file holds the messages popped; a file that is not open has lost the last ones. *)
LogWritten ==
  /\ Len(logFile) <= 2 * Popped - Lag
  /\ logOpen => Len(logFile) = 2 * Popped - Lag
  /\ \A i \in 1 .. Len(logFile) :
       logFile[i] = IF i % 2 = 1 THEN logPushed[(i + 1) \div 2] ELSE Newline

(* Nobody logs before the constructor has opened the file. *)
LogStarting ==
  logLife = "starting" =>
    /\ m_message_q = <<>> /\ logPushed = <<>> /\ logFile = <<>>
    /\ \A c \in LogClients : logClient[c] = 0
    /\ logThread.at \notin {"text", "newline"}

LogInv == LogTypes /\ LogQueue /\ LogWritten /\ LogStarting

(* A message is pushed behind all others. *)
LEMMA LogPushStep ==
  ASSUME LogInv, NEW c \in LogClients, LogPush(c)
  PROVE  LogInv'
<1>1. /\ logClient[c] \in Nat \ {0} /\ logLife # "starting" /\ logLife' = logLife
      /\ m_message_q' = Append(m_message_q, logClient[c])
      /\ logPushed' = Append(logPushed, logClient[c])
      /\ UNCHANGED <<logFile, logThread, logOpen>>
    BY DEF LogPush, LogInv, LogTypes, LogStarting
<1>2. /\ Len(m_message_q) \in Nat /\ Len(logPushed) \in Nat /\ Len(logFile) \in Nat
      /\ Len(m_message_q') = Len(m_message_q) + 1 /\ Len(logPushed') = Len(logPushed) + 1
    BY <1>1 DEF LogInv, LogTypes
<1>3. Popped' = Popped /\ Popped \in Nat /\ Popped <= Len(logPushed)
    BY <1>2 DEF LogInv, LogQueue, Popped
<1>4. \A i \in 1 .. Len(logPushed) : logPushed'[i] = logPushed[i]
    BY <1>1 DEF LogInv, LogTypes
<1>5. LogTypes'
    BY <1>1 DEF LogInv, LogTypes, LogPush
<1>6. LogQueue'
  <2>1. ASSUME NEW i \in 1 .. Len(m_message_q') PROVE m_message_q'[i] = logPushed'[Popped' + i]
    <3>1. CASE i = Len(m_message_q) + 1
      BY <1>1, <1>2, <1>3, <3>1 DEF LogInv, LogTypes, Popped
    <3>2. CASE i # Len(m_message_q) + 1
      <4>1. i \in 1 .. Len(m_message_q) /\ Popped + i \in 1 .. Len(logPushed)
        BY <1>2, <1>3, <2>1, <3>2 DEF Popped
      <4>2. m_message_q'[i] = m_message_q[i]
        BY <1>1, <4>1 DEF LogInv, LogTypes
      <4> QED
        BY <1>3, <1>4, <4>1, <4>2 DEF LogInv, LogQueue
    <3> QED
      BY <3>1, <3>2
  <2>2. logThread'.at = "text" => logThread'.str = logPushed'[Popped']
    BY <1>1, <1>3, <1>4 DEF LogInv, LogQueue
  <2> QED
    BY <1>1, <1>3, <2>1, <2>2 DEF LogInv, LogQueue
<1>7. LogWritten'
  <2>1. ASSUME NEW i \in 1 .. Len(logFile), i % 2 = 1
        PROVE  (i + 1) \div 2 \in 1 .. Len(logPushed)
    <3>1. Len(logFile) <= 2 * Popped
      BY <1>2, <1>3 DEF LogInv, LogWritten, Lag
    <3> QED
      BY <1>2, <1>3, <2>1, <3>1
  <2> QED
    BY <1>1, <1>2, <1>3, <1>4, <2>1 DEF LogInv, LogWritten, Lag
<1> QED
    BY <1>1, <1>5, <1>6, <1>7 DEF LogInv, LogStarting

(* The thread takes the first message. *)
LEMMA LoggerPopStep ==
  ASSUME LogInv, LoggerPop
  PROVE  LogInv'
<1>1. CASE m_message_q = <<>>
  <2>1. /\ logThread' = [logThread EXCEPT !.at = "done"]  /\ logThread.at = "pop"
        /\ UNCHANGED <<m_message_q, logPushed, logFile, logOpen, logLife, logClient, logCount>>
    BY <1>1 DEF LoggerPop
  <2>2. LogTypes' /\ logThread'.at = "done" /\ Popped' = Popped
    BY <2>1 DEF LogInv, LogTypes, Popped
  <2> QED
    BY <2>1, <2>2 DEF LogInv, LogQueue, LogWritten, LogStarting, Lag
<1>2. CASE m_message_q # <<>>
  <2>1. /\ logThread' = [at |-> "text", str |-> Head(m_message_q)] /\ logThread.at = "pop"
        /\ m_message_q' = Tail(m_message_q) /\ logLife # "starting"
        /\ UNCHANGED <<logPushed, logFile, logOpen, logLife, logClient, logCount>>
    BY <1>2 DEF LoggerPop, LogInv, LogStarting
  <2>2. /\ Len(m_message_q) \in Nat \ {0} /\ Len(m_message_q') = Len(m_message_q) - 1
        /\ Head(m_message_q) = m_message_q[1] /\ Head(m_message_q) \in Nat
        /\ \A i \in 1 .. Len(m_message_q') : m_message_q'[i] = m_message_q[i + 1]
        /\ Len(logPushed) \in Nat /\ Len(logFile) \in Nat
    BY <1>2, <2>1 DEF LogInv, LogTypes
  <2>3. Popped' = Popped + 1 /\ Popped \in Nat
    BY <2>1, <2>2 DEF LogInv, LogQueue, Popped
  <2>4. LogTypes'
    BY <1>2, <2>1, <2>2 DEF LogInv, LogTypes
  <2>5. LogQueue'
    <3>1. ASSUME NEW i \in 1 .. Len(m_message_q') PROVE m_message_q'[i] = logPushed'[Popped' + i]
      <4>1. i + 1 \in 1 .. Len(m_message_q) /\ Popped' + i = Popped + (i + 1)
        BY <2>2, <2>3, <3>1
      <4> QED
        BY <2>1, <2>2, <4>1 DEF LogInv, LogQueue
    <3>2. logThread'.str = logPushed'[Popped']
      BY <2>1, <2>2, <2>3 DEF LogInv, LogQueue
    <3>3. Popped' \in Nat /\ Popped' > 0
      BY <2>3
    <3> QED
      BY <3>1, <3>2, <3>3 DEF LogQueue
  <2>6. LogWritten'
    <3>1. Lag = 0 /\ Lag' = 2
      BY <2>1 DEF Lag
    <3>2. 2 * Popped' - Lag' = 2 * Popped - Lag
      BY <2>3, <3>1
    <3> QED
      BY <2>1, <3>2 DEF LogInv, LogWritten
  <2> QED
    BY <2>1, <2>4, <2>5, <2>6 DEF LogInv, LogStarting
<1> QED
    BY <1>1, <1>2

(* The text, and then its newline, or neither. *)
LEMMA LoggerWriteStep ==
  ASSUME LogInv, LoggerWrite
  PROVE  LogInv'
<1>1. /\ logThread.at \in {"text", "newline"} /\ logLife # "starting"
      /\ logThread'.at = (IF logThread.at = "text" THEN "newline" ELSE "test")
      /\ logThread'.str = logThread.str
      /\ logThread' \in [at : {"test", "pop", "text", "newline", "done"}, str : Nat]
      /\ UNCHANGED <<m_message_q, logPushed, logOpen, logLife, logClient, logCount>>
    BY DEF LoggerWrite, LogInv, LogTypes, LogStarting
<1>2. /\ Popped' = Popped /\ Popped \in Nat \ {0} /\ Len(logFile) \in Nat
      /\ Lag \in {1, 2} /\ Lag' = Lag - 1
    BY <1>1 DEF LogInv, LogTypes, LogQueue, Popped, Lag
<1>3. LogQueue'
    BY <1>1, <1>2 DEF LogInv, LogQueue
<1>4. CASE ~logOpen
  <2>1. logFile' = logFile
    BY <1>4 DEF LoggerWrite
  <2> QED
    BY <1>1, <1>2, <1>3, <1>4, <2>1 DEF LogInv, LogTypes, LogWritten, LogStarting
<1>5. CASE logOpen
  <2> DEFINE out == IF logThread.at = "text" THEN logThread.str ELSE Newline
             n   == Len(logFile) + 1
  <2>1. logFile' = Append(logFile, out) /\ out \in Nat
    BY <1>5 DEF LoggerWrite, LogInv, LogTypes, Newline
  <2>2. /\ logFile' \in Seq(Nat) /\ Len(logFile') = n /\ logFile'[n] = out
        /\ \A i \in 1 .. Len(logFile) : logFile'[i] = logFile[i]
    BY <2>1 DEF LogInv, LogTypes
  <2>3. Len(logFile) = 2 * Popped - Lag
    BY <1>5 DEF LogInv, LogWritten
  <2>4. logFile'[n] = IF n % 2 = 1 THEN logPushed[(n + 1) \div 2] ELSE Newline
    <3>1. CASE logThread.at = "text"
      <4>1. n = 2 * Popped - 1
        BY <1>2, <2>3, <3>1 DEF Lag
      <4>2. n % 2 = 1 /\ (n + 1) \div 2 = Popped
        BY <1>2, <4>1
      <4> QED
        BY <2>2, <3>1, <4>2 DEF LogInv, LogQueue
    <3>2. CASE logThread.at = "newline"
      <4>1. n = 2 * Popped
        BY <1>2, <2>3, <3>2 DEF Lag
      <4>2. n % 2 = 0
        BY <1>2, <4>1
      <4> QED
        BY <2>2, <3>2, <4>2
    <3> QED
      BY <1>1, <3>1, <3>2
  <2>5. LogWritten'
    <3>1. Len(logFile') = 2 * Popped' - Lag'
      BY <1>2, <2>2, <2>3
    <3>2. ASSUME NEW i \in 1 .. Len(logFile')
          PROVE  logFile'[i] = IF i % 2 = 1 THEN logPushed[(i + 1) \div 2] ELSE Newline
      <4>1. CASE i = n
        BY <2>4, <4>1
      <4>2. CASE i # n
        <5>1. i \in 1 .. Len(logFile)
          BY <1>2, <2>2, <3>2, <4>2
        <5> QED
          BY <2>2, <5>1 DEF LogInv, LogWritten
      <4> QED
        BY <4>1, <4>2
    <3>3. Len(logFile') \in Nat
      BY <1>2, <2>2
    <3> QED
      BY <1>1, <3>1, <3>2, <3>3 DEF LogWritten
  <2> QED
    BY <1>1, <1>3, <2>2, <2>5 DEF LogInv, LogTypes, LogStarting
<1> QED
    BY <1>4, <1>5 DEF LogInv, LogTypes

(* The inductive invariant of the logger. *)
THEOREM LoggerInvariance == LoggerSpec => []LogInv
<1>1. LoggerStart => LogInv
  <2> SUFFICES ASSUME LoggerStart PROVE LogInv
    OBVIOUS
  <2>1. /\ m_message_q = <<>> /\ logPushed = <<>> /\ logFile = <<>> /\ logOpen = FALSE
        /\ logThread = [at |-> "test", str |-> 0] /\ logClient = [c \in LogClients |-> 0]
        /\ logCount = 0
    BY DEF LoggerStart
  <2>2. Popped = 0 /\ Lag = 0 /\ Len(logFile) = 0 /\ Len(m_message_q) = 0
    BY <2>1 DEF Popped, Lag
  <2>3. LogTypes
    <3>1. logThread \in [at : {"test", "pop", "text", "newline", "done"}, str : Nat]
      BY <2>1
    <3>2. logClient \in [LogClients -> Nat] /\ logCount \in Nat
      BY <2>1
    <3>3. logOpen \in BOOLEAN
      BY <2>1, Zenon
    <3>4. <<>> \in Seq(Nat)
      OBVIOUS
    <3> QED
      BY <2>1, <3>1, <3>2, <3>3, <3>4, Zenon DEF LogTypes
  <2>4. LogStarting
    BY <2>1 DEF LogStarting
  <2> QED
    BY <2>1, <2>2, <2>3, <2>4 DEF LogInv, LogQueue, LogWritten
<1>2. LogInv /\ [LoggerNext]_loggerVars => LogInv'
  <2> SUFFICES ASSUME LogInv, [LoggerNext]_loggerVars PROVE LogInv'
    OBVIOUS
  <2>1. CASE LoggerOpen
    <3>1. /\ logLife = "starting" /\ logLife' # "starting" /\ logOpen' \in BOOLEAN
          /\ UNCHANGED <<m_message_q, logPushed, logFile, logThread, logClient, logCount>>
      BY <2>1 DEF LoggerOpen, LogInv, LogTypes
    <3>2. Popped' = 0 /\ Popped = 0 /\ Lag' = 0 /\ Lag = 0 /\ Len(logFile) = 0
      BY <3>1 DEF LogInv, LogStarting, Popped, Lag
    <3> QED
      BY <3>1, <3>2 DEF LogInv, LogTypes, LogQueue, LogWritten, LogStarting
  <2>2. CASE LoggerTest
    <3>1. /\ logThread.at = "test" /\ logThread'.at \in {"pop", "done"}
          /\ logThread' \in [at : {"test", "pop", "text", "newline", "done"}, str : Nat]
          /\ UNCHANGED <<m_message_q, logPushed, logFile, logOpen, logLife, logClient, logCount>>
      BY <2>2 DEF LoggerTest, LogInv, LogTypes
    <3>2. Popped' = Popped /\ Lag' = Lag
      BY <3>1 DEF Popped, Lag
    <3> QED
      BY <3>1, <3>2 DEF LogInv, LogTypes, LogQueue, LogWritten, LogStarting
  <2>3. CASE LoggerPop
    BY <2>3, LoggerPopStep
  <2>4. CASE LoggerWrite
    BY <2>4, LoggerWriteStep
  <2>5. CASE LoggerDestroy
    <3>1. /\ logLife # "starting" /\ logLife' # "starting"
          /\ UNCHANGED <<m_message_q, logPushed, logFile, logThread, logClient, logCount>>
      BY <2>5 DEF LoggerDestroy
    <3>2. logOpen' = logOpen \/ logOpen' = FALSE
      BY <2>5 DEF LoggerDestroy
    <3>3. Popped' = Popped /\ Lag' = Lag
      BY <3>1 DEF Popped, Lag
    <3>4. CASE logOpen' = logOpen
      BY <3>1, <3>3, <3>4 DEF LogInv, LogTypes, LogQueue, LogWritten, LogStarting
    <3>5. CASE logOpen' = FALSE
      BY <3>1, <3>3, <3>5 DEF LogInv, LogTypes, LogQueue, LogWritten, LogStarting
    <3> QED
      BY <3>2, <3>4, <3>5
  <2>6. ASSUME NEW level \in LogLevels, SetLevel(level) PROVE LogInv'
    BY <2>6 DEF SetLevel, LogInv, LogTypes, LogQueue, LogWritten, LogStarting, Popped, Lag
  <2>7. ASSUME NEW level \in LogLevels, NEW c \in LogClients, Log(c, level) PROVE LogInv'
    <3>1. /\ logLife # "starting" /\ logClient' \in [LogClients -> Nat] /\ logCount' \in Nat
          /\ UNCHANGED <<m_message_q, logPushed, logFile, logThread, logOpen, logLife>>
      BY <2>7 DEF Log, LogInv, LogTypes
    <3> QED
      BY <3>1 DEF LogInv, LogTypes, LogQueue, LogWritten, LogStarting, Popped, Lag
  <2>8. ASSUME NEW c \in LogClients, LogPush(c) PROVE LogInv'
    BY <2>8, LogPushStep
  <2>9. CASE UNCHANGED loggerVars
    BY <2>9 DEF loggerVars, LogInv, LogTypes, LogQueue, LogWritten, LogStarting, Popped, Lag
  <2> QED
    BY <2>1, <2>2, <2>3, <2>4, <2>5, <2>6, <2>7, <2>8, <2>9 DEF LoggerNext, PopAndLog
<1> QED
    BY <1>1, <1>2, PTL DEF LoggerSpec

(***************************************************************************)
(* For any number of clients and messages, the file is a prefix of what    *)
(* was pushed, line by line, whenever the destructor closes it.            *)
(***************************************************************************)
THEOREM FileIsPrefix == LoggerSpec => []LogIsPrefix
<1>1. LogInv => LogIsPrefix
  <2> SUFFICES ASSUME LogInv PROVE LogIsPrefix
    OBVIOUS
  <2>1. /\ Len(m_message_q) \in Nat /\ Len(logPushed) \in Nat /\ Len(logFile) \in Nat
        /\ Lag \in {0, 1, 2}
    BY DEF LogInv, LogTypes, Lag
  <2>2. Popped \in Nat /\ Len(logFile) <= 2 * Popped - Lag
    BY DEF LogInv, LogQueue, LogWritten
  <2>3. Len(logFile) <= 2 * Len(logPushed)
    BY <2>1, <2>2 DEF Popped
  <2> QED
    BY <2>3 DEF LogInv, LogWritten, LogIsPrefix
<1> QED
    BY <1>1, LoggerInvariance, PTL

-----------------------------------------------------------------------------
(* NbdProxy *)

NbdReply == ({"reply"} \X Nat) \cup ({"data"} \X Int \X Int)

NbdTypes ==
  /\ nbdSent \in Seq([type : {"ReadCmd", "WriteCmd"}, key : NbdKeys])
  /\ nbdParsed \in 0 .. Len(nbdSent) /\ nbdTasks \subseteq 1 .. nbdParsed
  /\ nbdWorker \in [NbdWorkers -> [at : {"idle", "new", "lock", "reply", "delete"},
                                   handle : Nat, chunk : NbdChunks \cup {NoChunk}, want : Int]]
  /\ chunks_map \in [NbdKeys -> NbdChunks \cup {NoChunk}] /\ map_lock \in NbdWorkers \cup {None}
  /\ nbdMemory \in [NbdChunks -> Int] /\ nbdBlocks \in [NbdKeys -> Nat]
  /\ nbdReplies \in Seq(NbdReply) /\ nbdDeleted \in BOOLEAN

At(w, s) == nbdWorker[w].at \in s
Handle(w) == nbdWorker[w].handle
ReplyTo(i) == nbdReplies[i][1] = "reply"
IsReadReply(i) == ReplyTo(i) /\ Type(nbdReplies[i][2]) = "ReadCmd"

(* A request that waits, or whose worker has not replied yet, is the only one of its handle. *)
NbdHandles ==
  /\ \A w \in NbdWorkers : ~At(w, {"idle"}) => Handle(w) \in 1 .. nbdParsed
  /\ \A w \in NbdWorkers : At(w, {"new", "lock"}) => Handle(w) \notin nbdTasks
  /\ \A w, v \in NbdWorkers : w # v /\ At(w, {"new", "lock"}) /\ At(v, {"new", "lock"})
       => Handle(w) # Handle(v)
  /\ \A i \in 1 .. Len(nbdReplies) : ReplyTo(i) =>
       /\ nbdReplies[i][2] \in 1 .. nbdParsed /\ nbdReplies[i][2] \notin nbdTasks
       /\ \A w \in NbdWorkers : At(w, {"new", "lock"}) => Handle(w) # nbdReplies[i][2]
  /\ \A i, j \in 1 .. Len(nbdReplies) :
       ReplyTo(i) /\ ReplyTo(j) /\ nbdReplies[i][2] = nbdReplies[j][2] => i = j

(* The lock is held from a read's reply to its data, and nothing comes between. *)
NbdFrames ==
  /\ \A w \in NbdWorkers : At(w, {"reply"}) <=> map_lock = w
  /\ \A i \in 1 .. Len(nbdReplies) - 1 : IsReadReply(i) <=> nbdReplies[i + 1][1] = "data"
  /\ IF Len(nbdReplies) = 0 THEN map_lock = None
                            ELSE IsReadReply(Len(nbdReplies)) <=> map_lock # None

(* A chunk that is not in the map: of a command before its turn, or of a read that found none. *)
Own(w) == \/ At(w, {"lock"})
          \/ At(w, {"reply", "delete"}) /\ nbdWorker[w].want = NoData
Found(w) == At(w, {"reply", "delete"}) /\ nbdWorker[w].want # NoData

(***************************************************************************)
(* While no chunk that was found in the map has been deleted, the chunks   *)
(* have their data: the ones in the map, the ones reads have found there,  *)
(* and the ones that belong to one worker alone.                           *)
(***************************************************************************)
NbdContents ==
  /\ \A k \in NbdKeys : chunks_map[k] = NoChunk <=> nbdBlocks[k] = NoData
  /\ \A k \in NbdKeys : chunks_map[k] # NoChunk => nbdMemory[chunks_map[k]] = nbdBlocks[k]
  /\ \A w \in NbdWorkers : Own(w) =>
       /\ nbdWorker[w].chunk \in NbdChunks /\ nbdMemory[nbdWorker[w].chunk] # NoData
       /\ \A k \in NbdKeys : chunks_map[k] # nbdWorker[w].chunk
       /\ \A v \in NbdWorkers : v # w /\ (Own(v) \/ Found(v)) =>
            nbdWorker[v].chunk # nbdWorker[w].chunk
  /\ \A w \in NbdWorkers : At(w, {"lock"}) /\ Type(Handle(w)) = "WriteCmd" =>
       nbdMemory[nbdWorker[w].chunk] = Handle(w)
  /\ \A w \in NbdWorkers : Found(w) =>
       nbdWorker[w].chunk \in NbdChunks /\ nbdMemory[nbdWorker[w].chunk] = nbdWorker[w].want
  /\ LET n == Len(nbdReplies)
     IN  n > 0 /\ nbdReplies[n][1] = "data" /\ nbdReplies[n][3] # NoData
           => nbdReplies[n][2] = nbdReplies[n][3]

(* From operator new on, a command has a chunk. *)
NbdHasChunk ==
  \A w \in NbdWorkers : At(w, {"lock", "reply", "delete"}) => nbdWorker[w].chunk \in NbdChunks

NbdInv == NbdTypes /\ NbdHasChunk /\ NbdHandles /\ NbdFrames /\ (~nbdDeleted => NbdContents)

(* A worker's step changes that worker alone. *)
LEMMA NbdBecome ==
  ASSUME NbdTypes, NEW w \in NbdWorkers, NEW s, Become(w, s)
  PROVE  /\ nbdWorker'[w] = s
         /\ \A v \in NbdWorkers : v # w => nbdWorker'[v] = nbdWorker[v]
BY DEF NbdTypes, Become

(* A reply is written behind all others. *)
LEMMA NbdAppend ==
  ASSUME NbdTypes, NEW r \in NbdReply, nbdReplies' = Append(nbdReplies, r)
  PROVE  /\ Len(nbdReplies) \in Nat /\ Len(nbdReplies') = Len(nbdReplies) + 1
         /\ nbdReplies'[Len(nbdReplies) + 1] = r /\ nbdReplies' \in Seq(NbdReply)
         /\ \A i \in 1 .. Len(nbdReplies) : nbdReplies'[i] = nbdReplies[i]
BY DEF NbdTypes

(* The two parts of an answer, and their fields. *)
LEMMA NbdParts ==
  /\ \A h \in Nat : Reply(h) \in NbdReply /\ Reply(h)[1] = "reply" /\ Reply(h)[2] = h
  /\ \A a, b \in Int : /\ Data(a, b) \in NbdReply /\ Data(a, b)[1] = "data"
                       /\ Data(a, b)[2] = a /\ Data(a, b)[3] = b
BY DEF Reply, Data, NbdReply

(* What the types say of a worker and its request. *)
LEMMA NbdWorkerFacts ==
  ASSUME NbdInv, NEW w \in NbdWorkers
  PROVE  /\ nbdWorker[w].at \in {"idle", "new", "lock", "reply", "delete"}
         /\ Handle(w) \in Nat /\ nbdWorker[w].chunk \in NbdChunks \cup {NoChunk}
         /\ nbdWorker[w].want \in Int
         /\ nbdWorker[w].at # "idle" =>
              /\ Handle(w) \in 1 .. nbdParsed /\ Handle(w) \in 1 .. Len(nbdSent)
              /\ Type(Handle(w)) \in {"ReadCmd", "WriteCmd"} /\ Key(Handle(w)) \in NbdKeys
<1>1. /\ nbdWorker[w].at \in {"idle", "new", "lock", "reply", "delete"}
      /\ Handle(w) \in Nat /\ nbdWorker[w].chunk \in NbdChunks \cup {NoChunk}
      /\ nbdWorker[w].want \in Int
    BY DEF NbdInv, NbdTypes, Handle
<1>2. ASSUME nbdWorker[w].at # "idle" PROVE Handle(w) \in 1 .. nbdParsed
    BY <1>2 DEF NbdInv, NbdHandles, At
<1>3. Len(nbdSent) \in Nat /\ nbdParsed \in 0 .. Len(nbdSent)
    BY DEF NbdInv, NbdTypes
<1>4. ASSUME nbdWorker[w].at # "idle"
      PROVE  /\ Handle(w) \in 1 .. Len(nbdSent)
             /\ nbdSent[Handle(w)] \in [type : {"ReadCmd", "WriteCmd"}, key : NbdKeys]
  <2>1. Handle(w) \in 1 .. Len(nbdSent)
    BY <1>2, <1>3, <1>4
  <2> DEFINE R == [type : {"ReadCmd", "WriteCmd"}, key : NbdKeys]
  <2>2. nbdSent \in Seq(R)
    BY DEF NbdInv, NbdTypes
  <2> HIDE DEF R
  <2>3. nbdSent[Handle(w)] \in R
    BY <2>1, <2>2
  <2> QED
    BY <2>1, <2>3 DEF R
<1> QED
    BY <1>1, <1>2, <1>4 DEF Type, Key

(* The kernel sends a request: nothing that is under way is about it. *)
LEMMA SendRequestStep ==
  ASSUME NbdInv, NEW type \in {"ReadCmd", "WriteCmd"}, NEW key \in NbdKeys, SendRequest(type, key)
  PROVE  NbdInv'
<1>1. /\ nbdSent' = Append(nbdSent, [type |-> type, key |-> key])
      /\ UNCHANGED <<nbdParsed, nbdTasks, nbdWorker, chunks_map, map_lock, nbdMemory, nbdReplies,
                     nbdBlocks, nbdDeleted>>
    BY DEF SendRequest
<1>2. /\ Len(nbdSent) \in Nat /\ nbdParsed \in 0 .. Len(nbdSent)
      /\ Len(nbdSent') = Len(nbdSent) + 1
      /\ nbdSent' \in Seq([type : {"ReadCmd", "WriteCmd"}, key : NbdKeys])
      /\ \A h \in 1 .. Len(nbdSent) : nbdSent'[h] = nbdSent[h]
    BY <1>1 DEF NbdInv, NbdTypes
<1>3. \A h \in 1 .. nbdParsed : Type(h)' = Type(h) /\ Key(h)' = Key(h)
    BY <1>2 DEF Type, Key
<1>4. NbdTypes'
    BY <1>1, <1>2 DEF NbdInv, NbdTypes
<1>5. NbdHandles'
    BY <1>1 DEF NbdInv, NbdHandles, At, Handle, ReplyTo
<1>6. NbdFrames'
  <2>1. \A i \in 1 .. Len(nbdReplies) : IsReadReply(i)' <=> IsReadReply(i)
    BY <1>1, <1>3 DEF IsReadReply, ReplyTo, NbdInv, NbdHandles
  <2>2. Len(nbdReplies) \in Nat
    BY DEF NbdInv, NbdTypes
  <2> QED
    BY <1>1, <2>1, <2>2 DEF NbdInv, NbdFrames, At
<1>7. ~nbdDeleted => NbdContents'
  <2>1. \A w \in NbdWorkers : At(w, {"lock"}) => Type(Handle(w))' = Type(Handle(w))
    BY <1>1, <1>3 DEF NbdInv, NbdHandles, At, Handle
  <2> QED
    BY <1>1, <2>1 DEF NbdInv, NbdContents, Own, Found, At, Handle
<1>8. NbdHasChunk'
    BY <1>1 DEF NbdInv, NbdHasChunk, At
<1> QED
    BY <1>1, <1>4, <1>5, <1>6, <1>7, <1>8 DEF NbdInv

(* The reactor's thread makes a task of the next request. *)
LEMMA ParseDataStep ==
  ASSUME NbdInv, ParseData
  PROVE  NbdInv'
<1>1. /\ nbdParsed < Len(nbdSent) /\ nbdParsed' = nbdParsed + 1
      /\ nbdTasks' = nbdTasks \cup {nbdParsed + 1}
      /\ UNCHANGED <<nbdSent, nbdWorker, chunks_map, map_lock, nbdMemory, nbdReplies, nbdBlocks,
                     nbdDeleted>>
    BY DEF ParseData
<1>2. Len(nbdSent) \in Nat /\ nbdParsed \in 0 .. Len(nbdSent) /\ nbdTasks \subseteq 1 .. nbdParsed
    BY DEF NbdInv, NbdTypes
<1>3. /\ nbdParsed' \in 0 .. Len(nbdSent) /\ nbdTasks' \subseteq 1 .. nbdParsed'
      /\ \A h \in 1 .. nbdParsed : h \in 1 .. nbdParsed' /\ (h \in nbdTasks' <=> h \in nbdTasks)
    BY <1>1, <1>2
<1>4. NbdTypes'
    BY <1>1, <1>3 DEF NbdInv, NbdTypes
<1>5. NbdHandles'
    BY <1>1, <1>3 DEF NbdInv, NbdHandles, At, Handle, ReplyTo
<1>6. NbdFrames' /\ (~nbdDeleted => NbdContents')
    BY <1>1 DEF NbdInv, NbdFrames, NbdContents, Own, Found, At, Handle, IsReadReply, ReplyTo, Type
<1>7. NbdHasChunk'
    BY <1>1 DEF NbdInv, NbdHasChunk, At
<1> QED
    BY <1>1, <1>4, <1>5, <1>6, <1>7 DEF NbdInv

(* A worker takes a task, and its command is made or the program ends. *)
LEMMA CreateCmdStep ==
  ASSUME NbdInv, NEW w \in NbdWorkers, NEW h \in nbdTasks, CreateCmd(w, h)
  PROVE  NbdInv'
<1>1. /\ nbdWorker[w].at = "idle" /\ nbdTasks' = nbdTasks \ {h}
      /\ UNCHANGED <<nbdSent, nbdParsed, chunks_map, map_lock, nbdMemory, nbdReplies, nbdBlocks,
                     nbdDeleted>>
    BY DEF CreateCmd
<1>2. h \in Nat /\ h \in 1 .. nbdParsed
    BY DEF NbdInv, NbdTypes
<1>3. CASE nbdWorker' = nbdWorker
  <2>1. NbdTypes'
    BY <1>1, <1>3 DEF NbdInv, NbdTypes
  <2>2. NbdHandles'
    BY <1>1, <1>3 DEF NbdInv, NbdHandles, At, Handle, ReplyTo
  <2>3. NbdFrames'
    BY <1>1, <1>3 DEF NbdInv, NbdFrames, At, IsReadReply, ReplyTo, Type
  <2>4. ~nbdDeleted => NbdContents'
    BY <1>1, <1>3 DEF NbdInv, NbdContents, Own, Found, At, Handle, Type
  <2>5. NbdHasChunk'
    BY <1>3 DEF NbdInv, NbdHasChunk, At
  <2> QED
    BY <1>1, <2>1, <2>2, <2>3, <2>4, <2>5 DEF NbdInv
<1>4. CASE nbdWorker' # nbdWorker
  <2> DEFINE s == Worker("new", h, NoChunk, NoData)
  <2>1. Become(w, s)
    BY <1>4 DEF CreateCmd
  <2>2. /\ nbdWorker'[w] = s
        /\ \A v \in NbdWorkers : v # w => nbdWorker'[v] = nbdWorker[v]
    BY <2>1, NbdBecome DEF NbdInv
  <2>3. NbdTypes'
    <3>1. s \in [at : {"idle", "new", "lock", "reply", "delete"},
                 handle : Nat, chunk : NbdChunks \cup {NoChunk}, want : Int]
      BY <1>2 DEF Worker, NoChunk, NoData
    <3> QED
      BY <1>1, <2>1, <3>1 DEF NbdInv, NbdTypes, Become
  <2>4. NbdHandles'
    BY <1>1, <1>2, <2>2 DEF NbdInv, NbdHandles, At, Handle, ReplyTo, Worker
  <2>5. NbdFrames'
    BY <1>1, <2>2 DEF NbdInv, NbdFrames, At, IsReadReply, ReplyTo, Type, Worker
  <2>6. ~nbdDeleted => NbdContents'
    BY <1>1, <2>2 DEF NbdInv, NbdContents, Own, Found, At, Handle, Type, Worker
  <2>7. NbdHasChunk'
    BY <2>2 DEF NbdInv, NbdHasChunk, At, Worker
  <2> QED
    BY <1>1, <2>3, <2>4, <2>5, <2>6, <2>7 DEF NbdInv
<1> QED
    BY <1>3, <1>4

(* Operator new finds memory that nobody uses. *)
LEMMA NewChunkStep ==
  ASSUME NbdInv, NEW w \in NbdWorkers, NewChunk(w)
  PROVE  NbdInv'
<1>1. PICK c \in NbdChunks :
        /\ nbdWorker[w].at = "new" /\ nbdMemory[c] = NoData
        /\ nbdMemory' = [nbdMemory EXCEPT ![c] =
             IF Type(Handle(w)) = "WriteCmd" THEN Handle(w) ELSE Uninitialized]
        /\ Become(w, Worker("lock", Handle(w), c, NoData))
        /\ UNCHANGED <<nbdSent, nbdParsed, nbdTasks, chunks_map, map_lock, nbdReplies, nbdBlocks,
                       nbdDeleted>>
    BY DEF NewChunk, Handle
<1>2. /\ nbdWorker'[w] = Worker("lock", Handle(w), c, NoData)
      /\ \A v \in NbdWorkers : v # w => nbdWorker'[v] = nbdWorker[v]
    BY <1>1, NbdBecome DEF NbdInv
<1>3. Handle(w) \in Nat \ {0} /\ nbdWorker[w].at # "idle"
    BY <1>1, NbdWorkerFacts
<1>4. NbdTypes'
  <2>1. Worker("lock", Handle(w), c, NoData) \in
          [at : {"idle", "new", "lock", "reply", "delete"},
           handle : Nat, chunk : NbdChunks \cup {NoChunk}, want : Int]
    BY <1>3 DEF Worker, NoData
  <2>2. nbdMemory' \in [NbdChunks -> Int]
    BY <1>1, <1>3 DEF NbdInv, NbdTypes, Uninitialized
  <2> QED
    BY <1>1, <2>1, <2>2 DEF NbdInv, NbdTypes, Become
<1>5. NbdHandles'
    BY <1>1, <1>2 DEF NbdInv, NbdHandles, At, Handle, ReplyTo, Worker
<1>6. NbdFrames'
    BY <1>1, <1>2 DEF NbdInv, NbdFrames, At, IsReadReply, ReplyTo, Type, Worker
<1>7. ASSUME ~nbdDeleted PROVE NbdContents'
  <2>0. NbdContents
    BY <1>7 DEF NbdInv
  <2>1. /\ nbdMemory'[c] # NoData
        /\ Type(Handle(w)) = "WriteCmd" => nbdMemory'[c] = Handle(w)
        /\ \A d \in NbdChunks : d # c => nbdMemory'[d] = nbdMemory[d]
    BY <1>1, <1>3 DEF NbdInv, NbdTypes, Uninitialized, NoData
  <2>2. \A k \in NbdKeys : chunks_map[k] # c
    BY <1>1, <2>0, NbdAssumption DEF NbdContents, NoChunk
  <2>3. \A v \in NbdWorkers : Own(v) \/ Found(v) =>
          nbdWorker[v].chunk \in NbdChunks /\ nbdWorker[v].chunk # c
    BY <1>1, <2>0 DEF NbdContents, Found
  <2>4. /\ Own(w)' /\ ~Found(w)' /\ ~Own(w) /\ ~Found(w) /\ nbdWorker'[w].chunk = c
        /\ Handle(w)' = Handle(w)
    BY <1>1, <1>2 DEF Own, Found, At, Handle, Worker
  <2>5. \A v \in NbdWorkers : v # w =>
          /\ (Own(v)' <=> Own(v)) /\ (Found(v)' <=> Found(v)) /\ Handle(v)' = Handle(v)
          /\ nbdWorker'[v].chunk = nbdWorker[v].chunk /\ nbdWorker'[v].want = nbdWorker[v].want
          /\ (At(v, {"lock"})' <=> At(v, {"lock"}))
    BY <1>2 DEF Own, Found, At, Handle
  <2>6. \A k \in NbdKeys : chunks_map[k] # NoChunk => nbdMemory'[chunks_map[k]] = nbdMemory[chunks_map[k]]
    BY <2>1, <2>2 DEF NbdInv, NbdTypes
  <2>7. \A h : Type(h)' = Type(h)
    BY <1>1 DEF Type
  <2>8. ASSUME NEW v \in NbdWorkers, Own(v)'
        PROVE  /\ nbdWorker'[v].chunk \in NbdChunks /\ nbdMemory'[nbdWorker'[v].chunk] # NoData
               /\ \A k \in NbdKeys : chunks_map[k] # nbdWorker'[v].chunk
               /\ \A u \in NbdWorkers : u # v /\ (Own(u)' \/ Found(u)') =>
                    nbdWorker'[u].chunk # nbdWorker'[v].chunk
    <3>1. CASE v = w
      BY <2>1, <2>2, <2>3, <2>4, <2>5, <3>1
    <3>2. CASE v # w
      <4>1. Own(v) /\ nbdWorker[v].chunk \in NbdChunks /\ nbdWorker[v].chunk # c
        BY <2>3, <2>5, <2>8, <3>2
      <4>2. \A u \in NbdWorkers : u # v /\ (Own(u)' \/ Found(u)') =>
              nbdWorker'[u].chunk # nbdWorker[v].chunk
        BY <2>0, <2>4, <2>5, <4>1 DEF NbdContents
      <4> QED
        BY <2>0, <2>1, <2>5, <3>2, <4>1, <4>2 DEF NbdContents
    <3> QED
      BY <3>1, <3>2
  <2>9. ASSUME NEW v \in NbdWorkers, At(v, {"lock"})', Type(Handle(v))' = "WriteCmd"
        PROVE  nbdMemory'[nbdWorker'[v].chunk] = Handle(v)'
    <3>1. CASE v = w
      BY <2>1, <2>4, <2>7, <2>9, <3>1
    <3>2. CASE v # w
      <4>1. At(v, {"lock"}) /\ Own(v) /\ Type(Handle(v)) = "WriteCmd"
        BY <2>5, <2>7, <2>9, <3>2 DEF Own
      <4> QED
        BY <2>0, <2>1, <2>3, <2>5, <3>2, <4>1 DEF NbdContents
    <3> QED
      BY <3>1, <3>2
  <2>10. ASSUME NEW v \in NbdWorkers, Found(v)'
         PROVE  /\ nbdWorker'[v].chunk \in NbdChunks
                /\ nbdMemory'[nbdWorker'[v].chunk] = nbdWorker'[v].want
    BY <2>0, <2>1, <2>3, <2>4, <2>5, <2>10 DEF NbdContents
  <2> QED
    BY <1>1, <2>0, <2>6, <2>8, <2>9, <2>10 DEF NbdContents
<1>8. NbdHasChunk'
    BY <1>2 DEF NbdInv, NbdHasChunk, At, Worker
<1> QED
    BY <1>1, <1>4, <1>5, <1>6, <1>7, <1>8 DEF NbdInv

(* A worker under the lock writes its reply: the first for its request, behind a whole answer. *)
LEMMA ReplyStep ==
  ASSUME NbdInv, NEW w \in NbdWorkers, nbdWorker[w].at = "lock", map_lock = None,
         nbdReplies' = Append(nbdReplies, Reply(Handle(w))),
         \A v \in NbdWorkers : v # w => nbdWorker'[v] = nbdWorker[v],
         UNCHANGED <<nbdSent, nbdParsed, nbdTasks>>,
         \/ Type(Handle(w)) = "WriteCmd" /\ map_lock' = None /\ nbdWorker'[w].at = "idle"
         \/ /\ Type(Handle(w)) = "ReadCmd" /\ map_lock' = w
            /\ nbdWorker'[w].at = "reply" /\ nbdWorker'[w].handle = Handle(w)
  PROVE  NbdHandles' /\ NbdFrames' /\ nbdReplies' \in Seq(NbdReply)
         /\ nbdReplies'[Len(nbdReplies')][1] = "reply"
<1> DEFINE n == Len(nbdReplies)
           h == Handle(w)
<1>1. h \in Nat /\ h \in 1 .. nbdParsed /\ h \notin nbdTasks
    BY NbdWorkerFacts DEF NbdInv, NbdHandles, At
<1>2. Reply(h) \in NbdReply /\ Reply(h)[1] = "reply" /\ Reply(h)[2] = h
    BY <1>1, NbdParts
<1>3. /\ n \in Nat /\ Len(nbdReplies') = n + 1 /\ nbdReplies'[n + 1] = Reply(h)
      /\ nbdReplies' \in Seq(NbdReply) /\ \A i \in 1 .. n : nbdReplies'[i] = nbdReplies[i]
    BY <1>2, NbdAppend DEF NbdInv
<1>4. \A i \in 1 .. n : (ReplyTo(i)' <=> ReplyTo(i)) /\ (IsReadReply(i)' <=> IsReadReply(i))
    BY <1>3 DEF ReplyTo, IsReadReply, Type
<1>0. PICK m \in Nat : m = n + 1
    BY <1>3
<1>5. ReplyTo(m)' /\ (IsReadReply(m)' <=> Type(h) = "ReadCmd")
    BY <1>0, <1>2, <1>3 DEF ReplyTo, IsReadReply, Type
<1>6. \A v \in NbdWorkers : v # w => /\ Handle(v)' = Handle(v)
                                     /\ (At(v, {"new", "lock"})' <=> At(v, {"new", "lock"}))
                                     /\ (At(v, {"idle"})' <=> At(v, {"idle"}))
                                     /\ (At(v, {"reply"})' <=> At(v, {"reply"}))
    BY DEF At, Handle
<1>7. /\ ~At(w, {"new", "lock"})' /\ At(w, {"new", "lock"}) /\ ~At(w, {"reply"})
      /\ ~At(w, {"idle"})' => Handle(w)' = h
    BY DEF At, Handle
<1>8. NbdHandles'
  <2>1. \A i \in 1 .. n : ReplyTo(i) => nbdReplies[i][2] # h
    BY <1>7 DEF NbdInv, NbdHandles
  <2>2. \A v \in NbdWorkers : v # w /\ At(v, {"new", "lock"}) => Handle(v) # h
    BY <1>7 DEF NbdInv, NbdHandles
  <2>3. ASSUME NEW i \in 1 .. n + 1, ReplyTo(i)'
        PROVE  /\ nbdReplies'[i][2] \in 1 .. nbdParsed /\ nbdReplies'[i][2] \notin nbdTasks
               /\ \A v \in NbdWorkers : At(v, {"new", "lock"})' => Handle(v)' # nbdReplies'[i][2]
    <3>1. CASE i = n + 1
      BY <1>1, <1>2, <1>3, <1>6, <1>7, <2>2, <3>1
    <3>2. CASE i # n + 1
      <4>1. i \in 1 .. n
        BY <1>3, <3>2
      <4> QED
        BY <1>3, <1>4, <1>6, <1>7, <2>3, <4>1 DEF NbdInv, NbdHandles
    <3> QED
      BY <3>1, <3>2
  <2>4. ASSUME NEW i \in 1 .. n + 1, NEW j \in 1 .. n + 1, ReplyTo(i)', ReplyTo(j)',
               nbdReplies'[i][2] = nbdReplies'[j][2]
        PROVE  i = j
    <3>1. CASE i \in 1 .. n /\ j \in 1 .. n
      BY <1>3, <1>4, <2>4, <3>1 DEF NbdInv, NbdHandles
    <3>2. CASE i = n + 1 /\ j \in 1 .. n
      BY <1>2, <1>3, <1>4, <2>1, <2>4, <3>2
    <3>3. CASE j = n + 1 /\ i \in 1 .. n
      BY <1>2, <1>3, <1>4, <2>1, <2>4, <3>3
    <3> QED
      BY <1>3, <3>1, <3>2, <3>3
  <2>5. \A v \in NbdWorkers : ~At(v, {"idle"})' => Handle(v)' \in 1 .. nbdParsed
    BY <1>1, <1>6, <1>7 DEF NbdInv, NbdHandles
  <2>6. /\ \A v \in NbdWorkers : At(v, {"new", "lock"})' => Handle(v)' \notin nbdTasks
        /\ \A v, u \in NbdWorkers : v # u /\ At(v, {"new", "lock"})' /\ At(u, {"new", "lock"})'
             => Handle(v)' # Handle(u)'
    BY <1>6, <1>7 DEF NbdInv, NbdHandles
  <2> QED
    BY <1>3, <2>3, <2>4, <2>5, <2>6 DEF NbdHandles
<1>9. NbdFrames'
  <2>1. n > 0 => ~IsReadReply(n)
    BY <1>3 DEF NbdInv, NbdFrames
  <2>2. ASSUME NEW i \in 1 .. n PROVE IsReadReply(i)' <=> nbdReplies'[i + 1][1] = "data"
    <3>1. CASE i = n
      BY <1>2, <1>3, <1>4, <2>1, <3>1
    <3>2. CASE i # n
      <4>1. i \in 1 .. n - 1 /\ i + 1 \in 1 .. n
        BY <1>3, <3>2
      <4> QED
        BY <1>3, <1>4, <4>1 DEF NbdInv, NbdFrames
    <3> QED
      BY <3>1, <3>2
  <2>3. \A v \in NbdWorkers : v # None /\ ~At(v, {"reply"})
    BY NbdAssumption DEF NbdInv, NbdFrames, None
  <2>4. \A v \in NbdWorkers : At(v, {"reply"})' <=> map_lock' = v
    BY <1>6, <2>3 DEF At
  <2>5. IsReadReply(m)' <=> map_lock' # None
    BY <1>5, <2>3
  <2>6. Len(nbdReplies') = m /\ m # 0 /\ m - 1 = n
    BY <1>0, <1>3
  <2>7. IF Len(nbdReplies') = 0 THEN map_lock' = None
                                ELSE IsReadReply(Len(nbdReplies))' <=> map_lock' # None
    BY <2>5, <2>6
  <2> QED
    BY <2>2, <2>4, <2>6, <2>7 DEF NbdFrames
<1> QED
    BY <1>2, <1>3, <1>8, <1>9

(* A write: the worker's own chunk becomes the block's. *)
LEMMA WriteLockedStep ==
  ASSUME NbdInv, NEW w \in NbdWorkers, WriteLocked(w)
  PROVE  NbdInv'
<1> DEFINE h == Handle(w)
           c == nbdWorker[w].chunk
<1>1. /\ nbdWorker[w].at = "lock" /\ map_lock = None /\ Type(h) = "WriteCmd"
      /\ chunks_map' = [chunks_map EXCEPT ![Key(h)] = c]
      /\ nbdBlocks' = [nbdBlocks EXCEPT ![Key(h)] = h]
      /\ nbdReplies' = Append(nbdReplies, Reply(h)) /\ Become(w, Idle)
      /\ UNCHANGED <<nbdSent, nbdParsed, nbdTasks, map_lock, nbdMemory, nbdDeleted>>
    BY DEF WriteLocked, Handle
<1>2. /\ nbdWorker'[w] = Idle
      /\ \A v \in NbdWorkers : v # w => nbdWorker'[v] = nbdWorker[v]
    BY <1>1, NbdBecome DEF NbdInv
<1>3. h \in Nat \ {0} /\ Key(h) \in NbdKeys /\ c \in NbdChunks \cup {NoChunk}
    BY <1>1, NbdWorkerFacts
<1>4. NbdHandles' /\ NbdFrames' /\ nbdReplies' \in Seq(NbdReply)
      /\ nbdReplies'[Len(nbdReplies')][1] = "reply"
    BY <1>1, <1>2, ReplyStep DEF Idle, Worker
<1>5. NbdTypes'
  <2>1. Idle \in [at : {"idle", "new", "lock", "reply", "delete"},
                  handle : Nat, chunk : NbdChunks \cup {NoChunk}, want : Int]
    BY DEF Idle, Worker, NoData
  <2>2. chunks_map' \in [NbdKeys -> NbdChunks \cup {NoChunk}] /\ nbdBlocks' \in [NbdKeys -> Nat]
    BY <1>1, <1>3 DEF NbdInv, NbdTypes
  <2> QED
    BY <1>1, <1>4, <2>1, <2>2 DEF NbdInv, NbdTypes, Become
<1>6. ASSUME ~nbdDeleted PROVE NbdContents'
  <2>0. NbdContents
    BY <1>6 DEF NbdInv
  <2>1. Own(w) /\ ~Own(w)' /\ ~Found(w)' /\ ~At(w, {"lock"})' /\ At(w, {"lock"})
    BY <1>1, <1>2 DEF Own, Found, At, Idle, Worker
  <2>2. c \in NbdChunks /\ c # NoChunk /\ nbdMemory[c] = h
    BY <1>1, <2>0, <2>1, NbdAssumption DEF NbdContents, NoChunk
  <2>3. \A k \in NbdKeys : /\ k = Key(h) => chunks_map'[k] = c /\ nbdBlocks'[k] = h
                           /\ k # Key(h) => /\ chunks_map'[k] = chunks_map[k]
                                            /\ nbdBlocks'[k] = nbdBlocks[k]
    BY <1>1, <1>3 DEF NbdInv, NbdTypes
  <2>4. \A v \in NbdWorkers : v # w =>
          /\ (Own(v)' <=> Own(v)) /\ (Found(v)' <=> Found(v)) /\ Handle(v)' = Handle(v)
          /\ nbdWorker'[v].chunk = nbdWorker[v].chunk /\ nbdWorker'[v].want = nbdWorker[v].want
          /\ (At(v, {"lock"})' <=> At(v, {"lock"}))
    BY <1>2 DEF Own, Found, At, Handle
  <2>5. \A k \in NbdKeys : /\ chunks_map'[k] = NoChunk <=> nbdBlocks'[k] = NoData
                           /\ chunks_map'[k] # NoChunk => nbdMemory[chunks_map'[k]] = nbdBlocks'[k]
    BY <1>3, <2>0, <2>2, <2>3 DEF NbdContents, NoData
  <2>6. ASSUME NEW v \in NbdWorkers, Own(v)'
        PROVE  /\ nbdWorker'[v].chunk \in NbdChunks /\ nbdMemory[nbdWorker'[v].chunk] # NoData
               /\ \A k \in NbdKeys : chunks_map'[k] # nbdWorker'[v].chunk
               /\ \A u \in NbdWorkers : u # v /\ (Own(u)' \/ Found(u)') =>
                    nbdWorker'[u].chunk # nbdWorker'[v].chunk
    <3>1. v # w /\ Own(v) /\ nbdWorker[v].chunk # c
      BY <2>0, <2>1, <2>4, <2>6 DEF NbdContents
    <3> QED
      BY <2>0, <2>1, <2>3, <2>4, <3>1 DEF NbdContents
  <2>7. \A x : Type(x)' = Type(x)
    BY <1>1 DEF Type
  <2>8. /\ \A v \in NbdWorkers : At(v, {"lock"})' /\ Type(Handle(v))' = "WriteCmd" =>
             nbdMemory[nbdWorker'[v].chunk] = Handle(v)'
        /\ \A v \in NbdWorkers : Found(v)' =>
             /\ nbdWorker'[v].chunk \in NbdChunks
             /\ nbdMemory[nbdWorker'[v].chunk] = nbdWorker'[v].want
    BY <2>0, <2>1, <2>4, <2>7 DEF NbdContents
  <2> QED
    BY <1>1, <1>4, <2>5, <2>6, <2>8 DEF NbdContents
<1>7. NbdHasChunk'
    BY <1>2 DEF NbdInv, NbdHasChunk, At, Idle, Worker
<1> QED
    BY <1>1, <1>4, <1>5, <1>6, <1>7 DEF NbdInv

(* A read takes the lock: it answers from the block's chunk, or from its own. *)
LEMMA ReadLockedStep ==
  ASSUME NbdInv, NEW w \in NbdWorkers, ReadLocked(w)
  PROVE  NbdInv'
<1> DEFINE h == Handle(w)
           mapped == chunks_map[Key(h)]
           want == nbdBlocks[Key(h)]
           c == IF mapped = NoChunk THEN nbdWorker[w].chunk ELSE mapped
<1>1. /\ nbdWorker[w].at = "lock" /\ map_lock = None /\ Type(h) = "ReadCmd" /\ map_lock' = w
      /\ nbdReplies' = Append(nbdReplies, Reply(h)) /\ Become(w, Worker("reply", h, c, want))
      /\ UNCHANGED <<nbdSent, nbdParsed, nbdTasks, chunks_map, nbdMemory, nbdBlocks, nbdDeleted>>
    BY DEF ReadLocked, Handle
<1>2. /\ nbdWorker'[w] = Worker("reply", h, c, want)
      /\ \A v \in NbdWorkers : v # w => nbdWorker'[v] = nbdWorker[v]
    BY <1>1, NbdBecome DEF NbdInv
<1>3. /\ h \in Nat /\ Key(h) \in NbdKeys /\ nbdWorker[w].chunk \in NbdChunks \cup {NoChunk}
      /\ want \in Nat /\ mapped \in NbdChunks \cup {NoChunk}
    BY <1>1, NbdWorkerFacts DEF NbdInv, NbdTypes
<1>4. /\ nbdWorker'[w].at = "reply" /\ nbdWorker'[w].handle = h
      /\ nbdWorker'[w].chunk = c /\ nbdWorker'[w].want = want
    BY <1>2 DEF Worker
<1>5. NbdHandles' /\ NbdFrames' /\ nbdReplies' \in Seq(NbdReply)
      /\ nbdReplies'[Len(nbdReplies')][1] = "reply"
    BY <1>1, <1>2, <1>4, ReplyStep
<1>6. NbdTypes'
  <2>1. Worker("reply", h, c, want) \in
          [at : {"idle", "new", "lock", "reply", "delete"},
           handle : Nat, chunk : NbdChunks \cup {NoChunk}, want : Int]
    BY <1>3 DEF Worker
  <2> QED
    BY <1>1, <1>5, <2>1 DEF NbdInv, NbdTypes, Become
<1>7. ASSUME ~nbdDeleted PROVE NbdContents'
  <2>0. NbdContents
    BY <1>7 DEF NbdInv
  <2>1. /\ Own(w) /\ ~At(w, {"lock"})'
        /\ (Own(w)' <=> want = NoData) /\ (Found(w)' <=> want # NoData)
    BY <1>1, <1>4 DEF Own, Found, At
  <2>2. \A v \in NbdWorkers : v # w =>
          /\ (Own(v)' <=> Own(v)) /\ (Found(v)' <=> Found(v)) /\ Handle(v)' = Handle(v)
          /\ nbdWorker'[v].chunk = nbdWorker[v].chunk /\ nbdWorker'[v].want = nbdWorker[v].want
          /\ (At(v, {"lock"})' <=> At(v, {"lock"}))
    BY <1>2 DEF Own, Found, At, Handle
  <2>3. /\ want = NoData => c = nbdWorker[w].chunk
        /\ want # NoData => c = mapped /\ c \in NbdChunks /\ nbdMemory[c] = want
    BY <1>3, <2>0 DEF NbdContents
  <2>4. \A v \in NbdWorkers : v # w /\ Own(v) => nbdWorker[v].chunk # c
    BY <1>3, <2>0, <2>1, <2>3 DEF NbdContents
  <2>5. ASSUME NEW v \in NbdWorkers, Own(v)'
        PROVE  /\ nbdWorker'[v].chunk \in NbdChunks /\ nbdMemory[nbdWorker'[v].chunk] # NoData
               /\ \A k \in NbdKeys : chunks_map[k] # nbdWorker'[v].chunk
               /\ \A u \in NbdWorkers : u # v /\ (Own(u)' \/ Found(u)') =>
                    nbdWorker'[u].chunk # nbdWorker'[v].chunk
    <3>1. CASE v = w
      <4>1. want = NoData /\ nbdWorker'[v].chunk = nbdWorker[v].chunk /\ Own(v)
        BY <1>4, <2>1, <2>3, <2>5, <3>1
      <4> QED
        BY <2>0, <2>2, <3>1, <4>1 DEF NbdContents
    <3>2. CASE v # w
      <4>1. Own(v) /\ nbdWorker'[v].chunk = nbdWorker[v].chunk /\ nbdWorker[v].chunk # c
        BY <2>2, <2>4, <2>5, <3>2
      <4> QED
        BY <1>4, <2>0, <2>2, <3>2, <4>1 DEF NbdContents
    <3> QED
      BY <3>1, <3>2
  <2>6. \A x : Type(x)' = Type(x)
    BY <1>1 DEF Type
  <2>7. /\ \A v \in NbdWorkers : At(v, {"lock"})' /\ Type(Handle(v))' = "WriteCmd" =>
             nbdMemory[nbdWorker'[v].chunk] = Handle(v)'
        /\ \A v \in NbdWorkers : Found(v)' =>
             /\ nbdWorker'[v].chunk \in NbdChunks
             /\ nbdMemory[nbdWorker'[v].chunk] = nbdWorker'[v].want
    BY <1>4, <2>0, <2>1, <2>2, <2>3, <2>6 DEF NbdContents
  <2> QED
    BY <1>1, <1>5, <2>0, <2>5, <2>7 DEF NbdContents
<1>8. NbdHasChunk'
  <2>1. nbdWorker[w].chunk \in NbdChunks
    BY <1>1 DEF NbdInv, NbdHasChunk, At
  <2>2. c \in NbdChunks
    BY <1>3, <2>1
  <2> QED
    BY <1>2, <1>4, <2>2 DEF NbdInv, NbdHasChunk, At
<1> QED
    BY <1>1, <1>5, <1>6, <1>7, <1>8 DEF NbdInv

(* The data goes right behind its reply, and the lock is free again. *)
LEMMA ReadReplyStep ==
  ASSUME NbdInv, NEW w \in NbdWorkers, ReadReply(w)
  PROVE  NbdInv'
<1> DEFINE n == Len(nbdReplies)
           c == nbdWorker[w].chunk
           want == nbdWorker[w].want
           d == Data(nbdMemory[c], want)
<1>1. /\ nbdWorker[w].at = "reply" /\ map_lock' = None
      /\ nbdReplies' = Append(nbdReplies, d)
      /\ Become(w, [nbdWorker[w] EXCEPT !.at = "delete"])
      /\ UNCHANGED <<nbdSent, nbdParsed, nbdTasks, chunks_map, nbdMemory, nbdBlocks, nbdDeleted>>
    BY DEF ReadReply
<1>2. /\ nbdWorker'[w] = [nbdWorker[w] EXCEPT !.at = "delete"]
      /\ \A v \in NbdWorkers : v # w => nbdWorker'[v] = nbdWorker[v]
    BY <1>1, NbdBecome DEF NbdInv
<1>3. c \in NbdChunks /\ nbdMemory[c] \in Int /\ want \in Int /\ map_lock = w
    BY <1>1, NbdWorkerFacts DEF NbdInv, NbdTypes, NbdHasChunk, NbdFrames, At
<1>4. /\ nbdWorker'[w].at = "delete" /\ Handle(w)' = Handle(w)
      /\ nbdWorker'[w].chunk = c /\ nbdWorker'[w].want = want
    BY <1>2 DEF NbdInv, NbdTypes, Handle
<1>5. d \in NbdReply /\ d[1] = "data" /\ d[2] = nbdMemory[c] /\ d[3] = want
    BY <1>3, NbdParts
<1>6. /\ n \in Nat /\ Len(nbdReplies') = n + 1 /\ nbdReplies'[n + 1] = d
      /\ nbdReplies' \in Seq(NbdReply) /\ \A i \in 1 .. n : nbdReplies'[i] = nbdReplies[i]
    BY <1>1, <1>5, NbdAppend DEF NbdInv
<1>7. \A i \in 1 .. n : (ReplyTo(i)' <=> ReplyTo(i)) /\ (IsReadReply(i)' <=> IsReadReply(i))
    BY <1>1, <1>6 DEF ReplyTo, IsReadReply, Type
<1>8. PICK m \in Nat : m = n + 1
    BY <1>6
<1>9. ~ReplyTo(m)' /\ ~IsReadReply(m)' /\ Len(nbdReplies') = m /\ m - 1 = n /\ m # 0
    BY <1>5, <1>6, <1>8 DEF ReplyTo, IsReadReply
<1>10. \A v \in NbdWorkers : v # w =>
          /\ Handle(v)' = Handle(v)
          /\ (At(v, {"new", "lock"})' <=> At(v, {"new", "lock"}))
          /\ (At(v, {"idle"})' <=> At(v, {"idle"}))
          /\ (At(v, {"reply"})' <=> At(v, {"reply"}))
    BY <1>2 DEF At, Handle
<1>11. NbdTypes'
  <2>1. nbdWorker' \in [NbdWorkers -> [at : {"idle", "new", "lock", "reply", "delete"},
                                   handle : Nat, chunk : NbdChunks \cup {NoChunk}, want : Int]]
    BY <1>1 DEF NbdInv, NbdTypes, Become
  <2> QED
    BY <1>1, <1>6, <2>1 DEF NbdInv, NbdTypes
<1>12. NbdHasChunk'
    BY <1>2, <1>3, <1>4 DEF NbdInv, NbdHasChunk, At
<1>13. NbdHandles'
  <2>1. ~At(w, {"new", "lock"})' /\ ~At(w, {"idle"})
    BY <1>1, <1>4 DEF At
  <2>2. /\ \A v \in NbdWorkers : ~At(v, {"idle"})' => Handle(v)' \in 1 .. nbdParsed
        /\ \A v \in NbdWorkers : At(v, {"new", "lock"})' => Handle(v)' \notin nbdTasks
        /\ \A v, u \in NbdWorkers : v # u /\ At(v, {"new", "lock"})' /\ At(u, {"new", "lock"})'
             => Handle(v)' # Handle(u)'
    BY <1>4, <1>10, <2>1 DEF NbdInv, NbdHandles
  <2>3. \A i \in 1 .. m : ReplyTo(i)' => i \in 1 .. n
    BY <1>6, <1>8, <1>9
  <2>4. \A i \in 1 .. m : ReplyTo(i)' =>
          /\ nbdReplies'[i][2] \in 1 .. nbdParsed /\ nbdReplies'[i][2] \notin nbdTasks
          /\ \A v \in NbdWorkers : At(v, {"new", "lock"})' => Handle(v)' # nbdReplies'[i][2]
    BY <1>6, <1>7, <1>10, <2>1, <2>3 DEF NbdInv, NbdHandles
  <2>5. \A i, j \in 1 .. m :
          ReplyTo(i)' /\ ReplyTo(j)' /\ nbdReplies'[i][2] = nbdReplies'[j][2] => i = j
    BY <1>6, <1>7, <2>3 DEF NbdInv, NbdHandles
  <2> QED
    BY <1>1, <1>9, <2>2, <2>4, <2>5 DEF NbdHandles
<1>14. NbdFrames'
  <2>1. w # None /\ n > 0 /\ IsReadReply(n)
    BY <1>3, <1>6, NbdAssumption DEF NbdInv, NbdFrames, None
  <2>2. ASSUME NEW i \in 1 .. n PROVE IsReadReply(i)' <=> nbdReplies'[i + 1][1] = "data"
    <3>1. CASE i = n
      BY <1>5, <1>6, <1>7, <2>1, <3>1
    <3>2. CASE i # n
      <4>1. i \in 1 .. n - 1 /\ i + 1 \in 1 .. n
        BY <1>6, <3>2
      <4> QED
        BY <1>6, <1>7, <4>1 DEF NbdInv, NbdFrames
    <3> QED
      BY <3>1, <3>2
  <2>3. \A v \in NbdWorkers : ~At(v, {"reply"})' /\ v # None
    BY <1>3, <1>4, <1>10, NbdAssumption DEF NbdInv, NbdFrames, At, None
  <2>4. IF Len(nbdReplies') = 0 THEN map_lock' = None
                                ELSE IsReadReply(Len(nbdReplies))' <=> map_lock' # None
    BY <1>1, <1>9
  <2> QED
    BY <1>1, <1>9, <2>2, <2>3, <2>4 DEF NbdFrames
<1>15. ASSUME ~nbdDeleted PROVE NbdContents'
  <2>0. NbdContents
    BY <1>15 DEF NbdInv
  <2>1. \A v \in NbdWorkers :
          /\ (Own(v)' <=> Own(v)) /\ (Found(v)' <=> Found(v)) /\ Handle(v)' = Handle(v)
          /\ nbdWorker'[v].chunk = nbdWorker[v].chunk /\ nbdWorker'[v].want = nbdWorker[v].want
          /\ (At(v, {"lock"})' <=> At(v, {"lock"}))
    BY <1>1, <1>2, <1>4 DEF Own, Found, At, Handle
  <2>2. ASSUME want # NoData PROVE nbdMemory[c] = want
    BY <1>1, <2>0, <2>2 DEF NbdContents, Found, At
  <2>3. LET k == Len(nbdReplies')
        IN  k > 0 /\ nbdReplies'[k][1] = "data" /\ nbdReplies'[k][3] # NoData
              => nbdReplies'[k][2] = nbdReplies'[k][3]
    BY <1>5, <1>6, <2>2
  <2>4. \A x : Type(x)' = Type(x)
    BY <1>1 DEF Type
  <2>5. \A v \in NbdWorkers : Own(v)' =>
          /\ nbdWorker'[v].chunk \in NbdChunks /\ nbdMemory[nbdWorker'[v].chunk] # NoData
          /\ \A k \in NbdKeys : chunks_map[k] # nbdWorker'[v].chunk
          /\ \A u \in NbdWorkers : u # v /\ (Own(u)' \/ Found(u)') =>
               nbdWorker'[u].chunk # nbdWorker'[v].chunk
    BY <2>0, <2>1 DEF NbdContents
  <2>6. /\ \A v \in NbdWorkers : At(v, {"lock"})' /\ Type(Handle(v))' = "WriteCmd" =>
             nbdMemory[nbdWorker'[v].chunk] = Handle(v)'
        /\ \A v \in NbdWorkers : Found(v)' =>
             /\ nbdWorker'[v].chunk \in NbdChunks
             /\ nbdMemory[nbdWorker'[v].chunk] = nbdWorker'[v].want
    BY <2>0, <2>1, <2>4 DEF NbdContents
  <2> QED
    BY <1>1, <2>0, <2>3, <2>5, <2>6 DEF NbdContents
<1> QED
    BY <1>1, <1>11, <1>12, <1>13, <1>14, <1>15 DEF NbdInv

(* A read deletes its chunk: its own, or, and then all is lost, one of the map. *)
LEMMA DeleteChunkStep ==
  ASSUME NbdInv, NEW w \in NbdWorkers, DeleteChunk(w)
  PROVE  NbdInv'
<1> DEFINE c == nbdWorker[w].chunk
<1>1. /\ nbdWorker[w].at = "delete" /\ Become(w, Idle)
      /\ nbdDeleted' = (nbdDeleted \/ nbdWorker[w].want # NoData)
      /\ nbdMemory' = nbdMemory \/ nbdMemory' = [nbdMemory EXCEPT ![c] = NoData]
      /\ UNCHANGED <<nbdSent, nbdParsed, nbdTasks, chunks_map, map_lock, nbdReplies, nbdBlocks>>
    BY DEF DeleteChunk
<1>2. /\ nbdWorker'[w] = Idle
      /\ \A v \in NbdWorkers : v # w => nbdWorker'[v] = nbdWorker[v]
    BY <1>1, NbdBecome DEF NbdInv
<1>3. /\ nbdMemory' \in [NbdChunks -> Int]
      /\ \A x \in NbdChunks : x # c => nbdMemory'[x] = nbdMemory[x]
    BY <1>1 DEF NbdInv, NbdTypes, NoData
<1>4. NbdTypes'
  <2>1. Idle \in [at : {"idle", "new", "lock", "reply", "delete"},
                  handle : Nat, chunk : NbdChunks \cup {NoChunk}, want : Int]
    BY DEF Idle, Worker, NoData
  <2>2. nbdWorker' \in [NbdWorkers -> [at : {"idle", "new", "lock", "reply", "delete"},
                                   handle : Nat, chunk : NbdChunks \cup {NoChunk}, want : Int]]
    BY <1>1, <2>1 DEF NbdInv, NbdTypes, Become
  <2>3. nbdDeleted' \in BOOLEAN
    BY <1>1 DEF NbdInv, NbdTypes
  <2> QED
    BY <1>1, <1>3, <2>2, <2>3 DEF NbdInv, NbdTypes
<1>5. NbdHasChunk'
    BY <1>2 DEF NbdInv, NbdHasChunk, At, Idle, Worker
<1>6. NbdHandles'
    BY <1>1, <1>2 DEF NbdInv, NbdHandles, At, Handle, ReplyTo, Idle, Worker
<1>7. NbdFrames'
  <2>1. \A v \in NbdWorkers : At(v, {"reply"})' <=> At(v, {"reply"})
    BY <1>1, <1>2 DEF At, Idle, Worker
  <2> QED
    BY <1>1, <2>1 DEF NbdInv, NbdFrames, IsReadReply, ReplyTo, Type
<1>8. ASSUME ~nbdDeleted' PROVE NbdContents'
  <2>0. NbdContents /\ Own(w) /\ nbdWorker[w].want = NoData
    BY <1>1, <1>8 DEF NbdInv, Own, At
  <2>1. /\ c \in NbdChunks /\ \A k \in NbdKeys : chunks_map[k] # c
        /\ \A v \in NbdWorkers : v # w /\ (Own(v) \/ Found(v)) => nbdWorker[v].chunk # c
    BY <2>0 DEF NbdContents
  <2>2. ~Own(w)' /\ ~Found(w)' /\ ~At(w, {"lock"})'
    BY <1>2 DEF Own, Found, At, Idle, Worker
  <2>3. \A v \in NbdWorkers : v # w =>
          /\ (Own(v)' <=> Own(v)) /\ (Found(v)' <=> Found(v)) /\ Handle(v)' = Handle(v)
          /\ nbdWorker'[v].chunk = nbdWorker[v].chunk /\ nbdWorker'[v].want = nbdWorker[v].want
          /\ (At(v, {"lock"})' <=> At(v, {"lock"}))
    BY <1>2 DEF Own, Found, At, Handle
  <2>4. \A k \in NbdKeys : chunks_map[k] # NoChunk => nbdMemory'[chunks_map[k]] = nbdBlocks[k]
    BY <1>3, <2>0, <2>1 DEF NbdInv, NbdTypes, NbdContents
  <2>5. ASSUME NEW v \in NbdWorkers, Own(v)'
        PROVE  /\ nbdWorker'[v].chunk \in NbdChunks /\ nbdMemory'[nbdWorker'[v].chunk] # NoData
               /\ \A k \in NbdKeys : chunks_map[k] # nbdWorker'[v].chunk
               /\ \A u \in NbdWorkers : u # v /\ (Own(u)' \/ Found(u)') =>
                    nbdWorker'[u].chunk # nbdWorker'[v].chunk
    <3>1. v # w /\ Own(v) /\ nbdWorker[v].chunk # c
      BY <2>1, <2>2, <2>3, <2>5
    <3> QED
      BY <1>3, <2>0, <2>2, <2>3, <3>1 DEF NbdContents
  <2>6. \A x : Type(x)' = Type(x)
    BY <1>1 DEF Type
  <2>7. ASSUME NEW v \in NbdWorkers, At(v, {"lock"})', Type(Handle(v))' = "WriteCmd"
        PROVE  nbdMemory'[nbdWorker'[v].chunk] = Handle(v)'
    <3>1. v # w /\ Own(v) /\ nbdWorker[v].chunk # c /\ nbdWorker[v].chunk \in NbdChunks
      BY <2>0, <2>1, <2>2, <2>3, <2>7 DEF NbdContents, Own
    <3> QED
      BY <1>3, <2>0, <2>3, <2>6, <2>7, <3>1 DEF NbdContents
  <2>8. ASSUME NEW v \in NbdWorkers, Found(v)'
        PROVE  /\ nbdWorker'[v].chunk \in NbdChunks
               /\ nbdMemory'[nbdWorker'[v].chunk] = nbdWorker'[v].want
    BY <1>3, <2>0, <2>1, <2>2, <2>3, <2>8 DEF NbdContents
  <2> QED
    BY <1>1, <2>0, <2>4, <2>5, <2>7, <2>8 DEF NbdContents
<1> QED
    BY <1>4, <1>5, <1>6, <1>7, <1>8 DEF NbdInv

(***************************************************************************)
(* The strengthening behind RepliesFramed holds in every state of the      *)
(* block device, for any number of workers, blocks, requests and chunks.   *)
(***************************************************************************)
THEOREM NbdInvariance == NbdSpec => []NbdInv
<1>1. NbdStart => NbdInv
  <2> SUFFICES ASSUME NbdStart PROVE NbdInv
    OBVIOUS
  <2>1. \A w \in NbdWorkers : nbdWorker[w] = Idle /\ nbdWorker[w].at = "idle"
    BY DEF NbdStart, Idle, Worker
  <2>2. NbdTypes
    <3>1. Idle \in [at : {"idle", "new", "lock", "reply", "delete"},
                    handle : Nat, chunk : NbdChunks \cup {NoChunk}, want : Int]
      BY DEF Idle, Worker, NoData
    <3> DEFINE R == [at : {"idle", "new", "lock", "reply", "delete"},
                     handle : Nat, chunk : NbdChunks \cup {NoChunk}, want : Int]
    <3>2. nbdWorker \in [NbdWorkers -> R]
      <4>1. Idle \in R
        BY <3>1
      <4> HIDE DEF R
      <4>2. nbdWorker = [w \in NbdWorkers |-> Idle]
        BY DEF NbdStart
      <4> QED
        BY <4>1, <4>2
    <3>3. /\ chunks_map \in [NbdKeys -> NbdChunks \cup {NoChunk}]
          /\ nbdMemory \in [NbdChunks -> Int] /\ nbdBlocks \in [NbdKeys -> Nat]
      BY DEF NbdStart, NoData
    <3>4. /\ nbdSent \in Seq([type : {"ReadCmd", "WriteCmd"}, key : NbdKeys])
          /\ nbdReplies \in Seq(NbdReply) /\ nbdDeleted \in BOOLEAN
      <4>1. \A S : <<>> \in Seq(S)
        OBVIOUS
      <4> QED
        BY <4>1 DEF NbdStart
    <3>5. /\ nbdParsed \in 0 .. Len(nbdSent) /\ nbdTasks \subseteq 1 .. nbdParsed
          /\ map_lock \in NbdWorkers \cup {None}
      BY DEF NbdStart
    <3> QED
      BY <3>2, <3>3, <3>4, <3>5 DEF NbdTypes
  <2>3. NbdHasChunk /\ NbdHandles
    BY <2>1 DEF NbdStart, NbdHasChunk, NbdHandles, At
  <2>4. NbdFrames
    BY <2>1, NbdAssumption DEF NbdStart, NbdFrames, At, None
  <2>5. NbdContents
    BY <2>1 DEF NbdStart, NbdContents, Own, Found, At, NoChunk, NoData
  <2> QED
    BY <2>2, <2>3, <2>4, <2>5 DEF NbdInv
<1>2. NbdInv /\ [NbdNext]_nbdVars => NbdInv'
  <2> SUFFICES ASSUME NbdInv, [NbdNext]_nbdVars PROVE NbdInv'
    OBVIOUS
  <2>1. ASSUME RegisterCmd \/ UNCHANGED nbdVars PROVE NbdInv'
    <3>1. UNCHANGED <<nbdSent, nbdParsed, nbdTasks, nbdWorker, chunks_map, map_lock, nbdMemory,
                      nbdReplies, nbdBlocks, nbdDeleted>>
      BY <2>1 DEF RegisterCmd, nbdVars
    <3>2. NbdTypes' /\ NbdHasChunk' /\ NbdHandles'
      BY <3>1 DEF NbdInv, NbdTypes, NbdHasChunk, NbdHandles, At, Handle, ReplyTo
    <3>3. NbdFrames'
      BY <3>1 DEF NbdInv, NbdFrames, At, IsReadReply, ReplyTo, Type
    <3>4. ~nbdDeleted => NbdContents'
      BY <3>1 DEF NbdInv, NbdContents, Own, Found, At, Handle, Type
    <3> QED
      BY <3>1, <3>2, <3>3, <3>4 DEF NbdInv
  <2>2. ASSUME NEW type \in {"ReadCmd", "WriteCmd"}, NEW key \in NbdKeys, SendRequest(type, key)
        PROVE  NbdInv'
    BY <2>2, SendRequestStep
  <2>3. CASE ParseData
    BY <2>3, ParseDataStep
  <2>4. ASSUME NEW w \in NbdWorkers, RunCmd(w) PROVE NbdInv'
    <3>1. ASSUME NEW h \in nbdTasks, CreateCmd(w, h) PROVE NbdInv'
      BY <3>1, CreateCmdStep
    <3> QED
      BY <2>4, <3>1, NewChunkStep, WriteLockedStep, ReadLockedStep, ReadReplyStep, DeleteChunkStep
         DEF RunCmd
  <2> QED
    BY <2>1, <2>2, <2>3, <2>4 DEF NbdNext
<1> QED
    BY <1>1, <1>2, PTL DEF NbdSpec

(***************************************************************************)
(* The answers on the block device's socket are framed, one for each       *)
(* request, and the data is that of the last write until the first chunk   *)
(* of the map is deleted, for any number of workers, blocks and requests.  *)
(***************************************************************************)
THEOREM RepliesAreFramed == NbdSpec => []RepliesFramed
<1>1. NbdInv => RepliesFramed
  <2> SUFFICES ASSUME NbdInv PROVE RepliesFramed
    OBVIOUS
  <2>1. Len(nbdReplies) \in Nat
    BY DEF NbdInv, NbdTypes
  <2> QED
    BY <2>1 DEF NbdInv, NbdHandles, NbdFrames, NbdContents, RepliesFramed, IsReadReply, ReplyTo
<1> QED
    BY <1>1, NbdInvariance, PTL

-----------------------------------------------------------------------------
(* DirMonitor *)

InList(c) == \E i \in 1 .. Len(m_subscribers) : m_subscribers[i] = c
Precedes(c, d) ==
  \E i, j \in 1 .. Len(m_subscribers) : i < j /\ m_subscribers[i] = c /\ m_subscribers[j] = d

DirEvents == {"MODIFIED", "REMOVE", "ADD", NoEvent}
Due(c) == SubSeq(broadcasts, since[c] + 1, Len(broadcasts))
Passed(c) == iter = End \/ Precedes(c, iter) \/ (c = iter /\ inCallback)

DispatcherTypes ==
  /\ m_subscribers \in Seq(Callbacks) /\ m_dispatcher \in [Callbacks -> BOOLEAN]
  /\ callbacksAlive \subseteq Callbacks /\ iter \in Callbacks \cup {End, Dangling}
  /\ walk \in {"none", "broadcast", "death"}
  /\ walkEvent \in DirEvents /\ broadcasts \in Seq(DirEvents)
  /\ since \in [Callbacks -> Nat] /\ seen \in [Callbacks -> Seq(DirEvents)]

(* A callback is in the list once, and the iterator's node is in the list. *)
DirList ==
  /\ \A c : ~Precedes(c, c)
  /\ iter \in Callbacks => InList(iter)
  /\ walk = "none" => iter = End
  /\ iter = End => ~inCallback

(* Who is in the list lives and points to the dispatcher, until the destructor has told it. *)
DirPointers ==
  /\ walk # "death" => \A c \in Callbacks : InList(c) => c \in callbacksAlive /\ m_dispatcher[c]
  /\ \A c \in callbacksAlive : m_dispatcher[c] => dispatcherAlive /\ InList(c)
  /\ walk = "death" /\ iter # Dangling =>
       \A c \in callbacksAlive : m_dispatcher[c] => iter # End /\ ~Precedes(c, iter)

(* What a callback has seen, before and after the iterator has passed it. *)
DirSeen ==
  /\ walk # "death" /\ dispatcherAlive =>
       \A c \in callbacksAlive : ~m_dispatcher[c] => seen[c] = <<>>
  /\ walk # "broadcast" => \A c \in Callbacks : InList(c) =>
       since[c] <= Len(broadcasts) /\ seen[c] = Due(c)
  /\ walk = "broadcast" /\ iter # Dangling => \A c \in Callbacks : InList(c) =>
       \/ /\ since[c] <= Len(broadcasts)
          /\ seen[c] = IF Passed(c) THEN Append(Due(c), walkEvent) ELSE Due(c)
       \/ since[c] = Len(broadcasts) + 1 /\ seen[c] = <<>> /\ Passed(c) /\ c # iter
  /\ walk = "broadcast" /\ iter = Dangling => \A c \in Callbacks : InList(c) =>
       \/ seen[c] = Due(c)
       \/ since[c] <= Len(broadcasts) /\ seen[c] = Append(Due(c), walkEvent)

DispatcherInv == DispatcherTypes /\ (~undefined => DirList /\ DirPointers /\ DirSeen)
DirInv == DispatcherInv /\ dirBuffer \in Seq(Masks) /\ dirQueue \in Seq(Masks)

(* A subscriber goes to the front of the list. *)
LEMMA ListSubscribe ==
  ASSUME m_subscribers \in Seq(Callbacks), NEW c \in Callbacks,
         m_subscribers' = <<c>> \o m_subscribers
  PROVE  /\ m_subscribers' \in Seq(Callbacks)
         /\ \A x : InList(x)' <=> x = c \/ InList(x)
         /\ \A x, y : Precedes(x, y)' <=> Precedes(x, y) \/ (x = c /\ InList(y))
<1> DEFINE n == Len(m_subscribers)
<1>1. /\ n \in Nat /\ m_subscribers' \in Seq(Callbacks) /\ Len(m_subscribers') = n + 1
      /\ m_subscribers'[1] = c
      /\ \A i \in 1 .. n : m_subscribers'[i + 1] = m_subscribers[i]
    OBVIOUS
<1>2. \A i \in 1 .. n + 1 : i = 1 \/ (i - 1 \in 1 .. n /\ m_subscribers'[i] = m_subscribers[i - 1])
  <2> SUFFICES ASSUME NEW i \in 1 .. n + 1, i # 1
               PROVE  i - 1 \in 1 .. n /\ m_subscribers'[i] = m_subscribers[i - 1]
    OBVIOUS
  <2>1. i - 1 \in 1 .. n /\ (i - 1) + 1 = i
    BY <1>1
  <2> QED
    BY <1>1, <2>1
<1>3. ASSUME NEW x PROVE InList(x)' <=> x = c \/ InList(x)
  <2>1. ASSUME InList(x)' PROVE x = c \/ InList(x)
    BY <1>1, <1>2, <2>1 DEF InList
  <2>2. ASSUME InList(x) PROVE InList(x)'
    <3>1. PICK i \in 1 .. n : m_subscribers[i] = x
      BY <2>2 DEF InList
    <3>2. i + 1 \in 1 .. n + 1 /\ m_subscribers'[i + 1] = x
      BY <1>1, <3>1
    <3> QED
      BY <1>1, <3>2 DEF InList
  <2>3. InList(c)'
    BY <1>1 DEF InList
  <2> QED
    BY <2>1, <2>2, <2>3
<1>4. ASSUME NEW x, NEW y PROVE Precedes(x, y)' <=> Precedes(x, y) \/ (x = c /\ InList(y))
  <2>1. ASSUME Precedes(x, y)' PROVE Precedes(x, y) \/ (x = c /\ InList(y))
    <3>1. PICK i \in 1 .. n + 1, j \in 1 .. n + 1 :
            i < j /\ m_subscribers'[i] = x /\ m_subscribers'[j] = y
      BY <1>1, <2>1 DEF Precedes
    <3>2. j - 1 \in 1 .. n /\ m_subscribers[j - 1] = y
      BY <1>1, <1>2, <3>1
    <3>3. CASE i = 1
      BY <1>1, <3>1, <3>2, <3>3 DEF InList
    <3>4. CASE i # 1
      <4>1. i - 1 \in 1 .. n /\ m_subscribers[i - 1] = x /\ i - 1 < j - 1
        BY <1>1, <1>2, <3>1, <3>4
      <4> QED
        BY <3>2, <4>1 DEF Precedes
    <3> QED
      BY <3>3, <3>4
  <2>2. ASSUME Precedes(x, y) PROVE Precedes(x, y)'
    <3>1. PICK i \in 1 .. n, j \in 1 .. n :
            i < j /\ m_subscribers[i] = x /\ m_subscribers[j] = y
      BY <2>2 DEF Precedes
    <3>2. /\ i + 1 \in 1 .. n + 1 /\ j + 1 \in 1 .. n + 1 /\ i + 1 < j + 1
          /\ m_subscribers'[i + 1] = x /\ m_subscribers'[j + 1] = y
      BY <1>1, <3>1
    <3> QED
      BY <1>1, <3>2 DEF Precedes
  <2>3. ASSUME x = c, InList(y) PROVE Precedes(x, y)'
    <3>1. PICK j \in 1 .. n : m_subscribers[j] = y
      BY <2>3 DEF InList
    <3>2. /\ 1 \in 1 .. n + 1 /\ j + 1 \in 1 .. n + 1 /\ 1 < j + 1
          /\ m_subscribers'[1] = x /\ m_subscribers'[j + 1] = y
      BY <1>1, <2>3, <3>1
    <3> QED
      BY <1>1, <3>2 DEF Precedes
  <2> QED
    BY <2>1, <2>2, <2>3
<1> QED
    BY <1>1, <1>3, <1>4

(* The elements of a list without its p-th. *)
LEMMA ListWithout ==
  ASSUME NEW S, NEW s \in Seq(S), NEW p \in 1 .. Len(s)
  PROVE  /\ RemoveAt(s, p) \in Seq(S) /\ Len(RemoveAt(s, p)) = Len(s) - 1
         /\ \A k \in 1 .. Len(s) - 1 : RemoveAt(s, p)[k] = IF k < p THEN s[k] ELSE s[k + 1]
<1> DEFINE a == SubSeq(s, 1, p - 1)
           b == SubSeq(s, p + 1, Len(s))
<1>0. Len(s) \in Nat /\ p \in Nat
    OBVIOUS
<1>1. /\ a \in Seq(S) /\ Len(a) = p - 1 /\ \A k \in 1 .. p - 1 : a[k] = s[k]
    BY SubSeqProperties
<1>2. b \in Seq(S) /\ Len(b) = Len(s) - p /\ \A k \in 1 .. Len(s) - p : b[k] = s[p + k]
    BY SubSeqProperties
<1>3. RemoveAt(s, p) = a \o b
    BY DEF RemoveAt
<1> HIDE DEF a, b
<1>4. /\ a \o b \in Seq(S) /\ Len(a \o b) = Len(a) + Len(b)
      /\ \A k \in 1 .. Len(a) + Len(b) :
           (a \o b)[k] = IF k <= Len(a) THEN a[k] ELSE b[k - Len(a)]
    BY <1>1, <1>2, ConcatProperties
<1>5. ASSUME NEW k \in 1 .. Len(s) - 1
      PROVE  (a \o b)[k] = IF k < p THEN s[k] ELSE s[k + 1]
  <2>1. CASE k < p
    BY <1>1, <1>2, <1>4, <2>1
  <2>2. CASE p <= k
    <3>1. PICK j \in 1 .. Len(s) - p : k = j + Len(a) /\ p + j = k + 1
      <4>1. k - (p - 1) \in 1 .. Len(s) - p /\ k = (k - (p - 1)) + (p - 1) /\ p + (k - (p - 1)) = k + 1
        BY <1>0, <2>2
      <4> QED
        BY <1>1, <4>1
    <3>2. (a \o b)[k] = b[j]
      <4>1. Len(a) \in Nat /\ Len(a) + Len(b) = Len(s) - 1 /\ k \in Nat /\ j \in Nat \ {0}
        BY <1>0, <1>1, <1>2
      <4>2. k \in 1 .. Len(a) + Len(b) /\ ~(k <= Len(a)) /\ k - Len(a) = j
        BY <1>0, <3>1, <4>1
      <4> QED
        BY <1>4, <4>2
    <3> QED
      BY <1>0, <1>2, <2>2, <3>1, <3>2
  <2>3. k < p \/ p <= k
    BY <1>0
  <2> QED
    BY <2>1, <2>2, <2>3
<1> QED
    BY <1>1, <1>2, <1>3, <1>4, <1>5

(* list::remove takes out the one node of a callback and keeps the order of the others. *)
LEMMA ListRemove ==
  ASSUME m_subscribers \in Seq(Callbacks), \A x : ~Precedes(x, x), NEW c, InList(c),
         m_subscribers' = RemoveAt(m_subscribers, Position(c))
  PROVE  /\ m_subscribers' \in Seq(Callbacks)
         /\ \A x : InList(x)' <=> x # c /\ InList(x)
         /\ \A x, y : Precedes(x, y)' <=> x # c /\ y # c /\ Precedes(x, y)
<1> DEFINE n == Len(m_subscribers)
           p == Position(c)
<1>1. n \in Nat /\ p \in 1 .. n /\ m_subscribers[p] = c
    BY DEF InList, Position
<1>2. ASSUME NEW i \in 1 .. n, m_subscribers[i] = c PROVE i = p
  <2>1. ~Precedes(c, c)
    OBVIOUS
  <2>2. ~(i < p) /\ ~(p < i)
    BY <1>1, <1>2, <2>1 DEF Precedes
  <2> QED
    BY <1>1, <2>2
<1>3. /\ m_subscribers' \in Seq(Callbacks) /\ Len(m_subscribers') = n - 1
      /\ \A k \in 1 .. n - 1 :
           m_subscribers'[k] = IF k < p THEN m_subscribers[k] ELSE m_subscribers[k + 1]
    BY <1>1, ListWithout
<1> HIDE DEF p
<1> DEFINE Old(k) == IF k < p THEN k ELSE k + 1
           New(k) == IF k < p THEN k ELSE k - 1
<1>4. /\ \A k \in 1 .. n - 1 : Old(k) \in 1 .. n /\ Old(k) # p
      /\ \A j, k \in 1 .. n - 1 : j < k => Old(j) < Old(k)
      /\ \A k \in 1 .. n : k # p => New(k) \in 1 .. n - 1 /\ Old(New(k)) = k
      /\ \A j, k \in 1 .. n : j # p /\ k # p /\ j < k => New(j) < New(k)
    BY <1>1
<1>5. \A k \in 1 .. n - 1 : m_subscribers'[k] = m_subscribers[Old(k)]
    BY <1>3
<1> HIDE DEF Old, New
<1>6. ASSUME NEW x PROVE InList(x)' <=> x # c /\ InList(x)
  <2>1. ASSUME InList(x)' PROVE x # c /\ InList(x)
    <3>1. PICK k \in 1 .. n - 1 : m_subscribers'[k] = x
      BY <1>3, <2>1 DEF InList
    <3> QED
      BY <1>2, <1>4, <1>5, <3>1 DEF InList
  <2>2. ASSUME x # c, InList(x) PROVE InList(x)'
    <3>1. PICK i \in 1 .. n : m_subscribers[i] = x
      BY <2>2 DEF InList
    <3>2. New(i) \in 1 .. n - 1 /\ m_subscribers'[New(i)] = x
      BY <1>1, <1>4, <1>5, <2>2, <3>1
    <3> QED
      BY <1>3, <3>2 DEF InList
  <2> QED
    BY <2>1, <2>2
<1>7. ASSUME NEW x, NEW y PROVE Precedes(x, y)' <=> x # c /\ y # c /\ Precedes(x, y)
  <2>1. ASSUME Precedes(x, y)' PROVE x # c /\ y # c /\ Precedes(x, y)
    <3>1. PICK i \in 1 .. n - 1, j \in 1 .. n - 1 :
            i < j /\ m_subscribers'[i] = x /\ m_subscribers'[j] = y
      BY <1>3, <2>1 DEF Precedes
    <3> QED
      BY <1>2, <1>4, <1>5, <3>1 DEF Precedes
  <2>2. ASSUME x # c, y # c, Precedes(x, y) PROVE Precedes(x, y)'
    <3>1. PICK i \in 1 .. n, j \in 1 .. n :
            i < j /\ m_subscribers[i] = x /\ m_subscribers[j] = y
      BY <2>2 DEF Precedes
    <3>2. /\ New(i) \in 1 .. n - 1 /\ New(j) \in 1 .. n - 1 /\ New(i) < New(j)
          /\ m_subscribers'[New(i)] = x /\ m_subscribers'[New(j)] = y
      BY <1>1, <1>4, <1>5, <2>2, <3>1
    <3> QED
      BY <1>3, <3>2 DEF Precedes
  <2> QED
    BY <2>1, <2>2
<1> QED
    BY <1>3, <1>6, <1>7

(* A walk begins at a node nothing precedes. *)
LEMMA ListBegin ==
  ASSUME m_subscribers \in Seq(Callbacks), \A x : ~Precedes(x, x)
  PROVE  /\ Begin = End => \A x : ~InList(x)
         /\ Begin # End => Begin \in Callbacks /\ InList(Begin) /\ \A x : ~Precedes(x, Begin)
<1>1. CASE m_subscribers = <<>>
    BY <1>1 DEF Begin, InList
<1>2. CASE m_subscribers # <<>>
  <2>1. /\ Begin = m_subscribers[1] /\ 1 \in 1 .. Len(m_subscribers) /\ Len(m_subscribers) \in Nat
        /\ Begin \in Callbacks
    BY <1>2 DEF Begin
  <2>2. Begin # End /\ InList(Begin)
    BY <2>1, CallbacksAssumption DEF InList, End
  <2>3. \A x : ~Precedes(x, Begin)
    BY <2>1 DEF Precedes
  <2> QED
    BY <2>1, <2>2, <2>3
<1> QED
    BY <1>1, <1>2

(* It goes on to the next node, which only the nodes up to the last one precede. *)
LEMMA ListAfter ==
  ASSUME m_subscribers \in Seq(Callbacks), \A x : ~Precedes(x, x), NEW d, InList(d)
  PROVE  /\ After(d) = End => \A x : InList(x) => x = d \/ Precedes(x, d)
         /\ After(d) # End => /\ After(d) \in Callbacks /\ InList(After(d))
                              /\ \A x : Precedes(x, After(d)) <=> x = d \/ Precedes(x, d)
<1> DEFINE n == Len(m_subscribers)
           p == Position(d)
<1>1. n \in Nat /\ p \in 1 .. n /\ m_subscribers[p] = d
    BY DEF InList, Position
<1>2. ASSUME NEW i \in 1 .. n, NEW j \in 1 .. n, m_subscribers[i] = m_subscribers[j] PROVE i = j
  <2>1. ~Precedes(m_subscribers[i], m_subscribers[i])
    OBVIOUS
  <2>2. ~(i < j) /\ ~(j < i)
    BY <1>2, <2>1 DEF Precedes
  <2> QED
    BY <1>1, <2>2
<1>3. After(d) = IF p = n THEN End ELSE m_subscribers[p + 1]
    BY DEF After
<1> HIDE DEF p
<1>4. \A x : Precedes(x, d) <=> \E i \in 1 .. n : i < p /\ m_subscribers[i] = x
    BY <1>1, <1>2 DEF Precedes
<1>5. CASE p = n
  <2>1. After(d) = End
    BY <1>3, <1>5
  <2>2. ASSUME NEW x, InList(x) PROVE x = d \/ Precedes(x, d)
    <3>1. PICK i \in 1 .. n : m_subscribers[i] = x
      BY <2>2 DEF InList
    <3> QED
      BY <1>1, <1>4, <1>5, <3>1
  <2> QED
    BY <2>1, <2>2
<1>6. CASE p # n
  <2>1. /\ p + 1 \in 1 .. n /\ After(d) = m_subscribers[p + 1] /\ After(d) \in Callbacks
    BY <1>1, <1>3, <1>6
  <2>2. After(d) # End /\ InList(After(d))
    BY <2>1, CallbacksAssumption DEF InList, End
  <2>3. \A x : Precedes(x, After(d)) <=> \E i \in 1 .. n : i < p + 1 /\ m_subscribers[i] = x
    BY <1>1, <1>2, <2>1 DEF Precedes
  <2>4. \A x : Precedes(x, After(d)) <=> x = d \/ Precedes(x, d)
    BY <1>1, <1>4, <2>3
  <2> QED
    BY <2>1, <2>2, <2>4
<1> QED
    BY <1>5, <1>6

(* Nothing is due to whom comes now, or comes too late for the broadcast in progress. *)
LEMMA NothingDue ==
  ASSUME NEW S, NEW s \in Seq(S), NEW n \in Nat, n >= Len(s)
  PROVE  SubSeq(s, n + 1, Len(s)) = <<>>
<1>1. Len(s) \in Nat
    OBVIOUS
<1> QED
    BY <1>1, SubSeqProperties, EmptySeq

(* What is due grows with each broadcast. *)
LEMMA DueGrows ==
  ASSUME NEW S, NEW s \in Seq(S), NEW e \in S, NEW n \in Nat, n <= Len(s)
  PROVE  SubSeq(Append(s, e), n + 1, Len(s) + 1) = Append(SubSeq(s, n + 1, Len(s)), e)
<1>1. Len(s) \in Nat /\ Append(s, e) \in Seq(S) /\ Len(Append(s, e)) = Len(s) + 1
      /\ Append(s, e)[Len(s) + 1] = e /\ \A k \in 1 .. Len(s) : Append(s, e)[k] = s[k]
    OBVIOUS
<1> DEFINE l == SubSeq(Append(s, e), n + 1, Len(s) + 1)
           q == SubSeq(s, n + 1, Len(s))
<1>2. /\ l \in Seq(S) /\ Len(l) = Len(s) + 1 - n
      /\ \A k \in 1 .. Len(s) + 1 - n : l[k] = Append(s, e)[n + k]
  BY <1>1, SubSeqProperties
<1>3. /\ q \in Seq(S) /\ Len(q) = Len(s) - n
      /\ \A k \in 1 .. Len(s) - n : q[k] = s[n + k]
  BY <1>1, SubSeqProperties
<1> HIDE DEF l, q
<1>4. /\ Append(q, e) \in Seq(S) /\ Len(Append(q, e)) = Len(q) + 1
      /\ Append(q, e)[Len(q) + 1] = e /\ \A k \in 1 .. Len(q) : Append(q, e)[k] = q[k]
  BY <1>3
<1>5. Len(l) = Len(s) + 1 - n /\ Len(q) = Len(s) - n /\ Len(s) \in Nat /\ Len(q) \in Nat
  BY <1>1, <1>2, <1>3
<1>6. ASSUME NEW k \in 1 .. Len(l) PROVE l[k] = Append(q, e)[k]
  <2>1. CASE k = Len(l)
    <3>1. n + k = Len(s) + 1 /\ k = Len(q) + 1 /\ k \in 1 .. Len(s) + 1 - n
      BY <1>5, <2>1
    <3> QED
      BY <1>1, <1>2, <1>4, <3>1
  <2>2. CASE k # Len(l)
    <3>1. n + k \in 1 .. Len(s) /\ k \in 1 .. Len(q) /\ k \in 1 .. Len(s) + 1 - n
      BY <1>5, <2>2
    <3> QED
      BY <1>1, <1>2, <1>3, <1>4, <3>1
  <2> QED
    BY <2>1, <2>2
<1> QED
  <2>1. Len(l) = Len(Append(q, e))
    BY <1>4, <1>5
  <2>2. l = Append(q, e)
    BY <1>2, <1>4, <1>6, <2>1, SeqEqual
  <2> QED
    BY <2>2 DEF l, q

(* A callback subscribes, at the front, where the iterator has been already. *)
LEMMA SubscribeStep ==
  ASSUME DispatcherInv, ~undefined, NEW c \in Callbacks, Subscribe(c)
  PROVE  DispatcherInv'
<1> USE DEF DispatcherInv
<1>1. /\ dispatcherAlive /\ walk # "death" /\ c \in callbacksAlive /\ ~m_dispatcher[c]
      /\ m_dispatcher' = [m_dispatcher EXCEPT ![c] = TRUE] /\ m_subscribers' = <<c>> \o m_subscribers
      /\ since' = [since EXCEPT ![c] = Len(broadcasts) + (IF walk = "broadcast" THEN 1 ELSE 0)]
      /\ UNCHANGED <<callbacksAlive, dispatcherAlive, walk, iter, inCallback, walkEvent,
                     broadcasts, seen, undefined>>
    BY DEF Subscribe
<1>2. /\ m_subscribers' \in Seq(Callbacks)
      /\ \A x : InList(x)' <=> x = c \/ InList(x)
      /\ \A x, y : Precedes(x, y)' <=> Precedes(x, y) \/ (x = c /\ InList(y))
    BY <1>1, ListSubscribe DEF DispatcherTypes
<1>3. Len(broadcasts) \in Nat
    BY DEF DispatcherTypes
<1>4. /\ m_dispatcher' \in [Callbacks -> BOOLEAN] /\ m_dispatcher'[c]
      /\ \A x \in Callbacks : x # c => m_dispatcher'[x] = m_dispatcher[x]
    BY <1>1 DEF DispatcherTypes
<1>5. /\ since' \in [Callbacks -> Nat]
      /\ since'[c] = Len(broadcasts) + (IF walk = "broadcast" THEN 1 ELSE 0)
      /\ \A x \in Callbacks : x # c => since'[x] = since[x]
    BY <1>1, <1>3 DEF DispatcherTypes
<1>6. ~InList(c) /\ ~InList(End) /\ ~InList(Dangling)
  <2>1. ~InList(c)
    BY <1>1 DEF DirPointers
  <2>2. \A x : InList(x) => x \in Callbacks
    BY DEF InList, DispatcherTypes
  <2> QED
    BY <2>1, <2>2, CallbacksAssumption DEF End, Dangling
<1>7. DispatcherTypes'
    BY <1>1, <1>2, <1>4, <1>5 DEF DispatcherTypes
<1>8. DirList'
    BY <1>1, <1>2, <1>6 DEF DirList
<1>9. DirPointers'
    BY <1>1, <1>2, <1>4 DEF DirPointers, DispatcherTypes
<1>10. DirSeen'
  <2>1. seen[c] = <<>>
    BY <1>1 DEF DirSeen
  <2>2. \A x \in Callbacks : x # c => Due(x)' = Due(x)
    BY <1>1, <1>5 DEF Due
  <2>3. Due(c)' = <<>>
    <3>1. since'[c] \in Nat /\ since'[c] >= Len(broadcasts)
      BY <1>3, <1>5
    <3> QED
      BY <1>1, <3>1, NothingDue DEF Due, DispatcherTypes
  <2>4. \A x : x # c => (Passed(x)' <=> Passed(x))
    BY <1>1, <1>2 DEF Passed
  <2>5. ASSUME walk = "broadcast", iter # Dangling PROVE Passed(c)' /\ c # iter
    <3>1. iter = End \/ InList(iter)
      BY <2>5 DEF DirList, DispatcherTypes
    <3> QED
      BY <1>1, <1>2, <1>6, <3>1, CallbacksAssumption DEF Passed, End
  <2>6. walk = "broadcast" => since'[c] = Len(broadcasts) + 1
    BY <1>5
  <2>7. walk # "broadcast" => since'[c] <= Len(broadcasts)
    BY <1>3, <1>5
  <2>8. ASSUME walk # "broadcast", NEW x \in Callbacks, InList(x)'
        PROVE  since'[x] <= Len(broadcasts) /\ seen[x] = Due(x)'
    BY <1>2, <1>5, <2>1, <2>2, <2>3, <2>7, <2>8 DEF DirSeen
  <2>9. ASSUME walk = "broadcast", iter # Dangling, NEW x \in Callbacks, InList(x)'
        PROVE  \/ /\ since'[x] <= Len(broadcasts)
                  /\ seen[x] = IF Passed(x)' THEN Append(Due(x)', walkEvent) ELSE Due(x)'
               \/ since'[x] = Len(broadcasts) + 1 /\ seen[x] = <<>> /\ Passed(x)' /\ x # iter
    <3>1. CASE x = c
      BY <2>1, <2>5, <2>6, <2>9, <3>1
    <3>2. CASE x # c
      BY <1>2, <1>5, <2>2, <2>4, <2>9, <3>2 DEF DirSeen
    <3> QED
      BY <3>1, <3>2
  <2>10. ASSUME walk = "broadcast", iter = Dangling, NEW x \in Callbacks, InList(x)'
         PROVE  \/ seen[x] = Due(x)'
                \/ since'[x] <= Len(broadcasts) /\ seen[x] = Append(Due(x)', walkEvent)
    BY <1>2, <1>5, <2>1, <2>2, <2>3, <2>10 DEF DirSeen
  <2>11. walk # "death" /\ dispatcherAlive =>
           \A x \in callbacksAlive : ~m_dispatcher'[x] => seen[x] = <<>>
    BY <1>4 DEF DirSeen, DispatcherTypes
  <2> QED
    BY <1>1, <2>8, <2>9, <2>10, <2>11 DEF DirSeen
<1> QED
    BY <1>7, <1>8, <1>9, <1>10

(* A callback dies: its node goes, and the iterator dangles when it was there. *)
LEMMA CallbackDeathStep ==
  ASSUME DispatcherInv, ~undefined, NEW c \in Callbacks, CallbackDeath(c)
  PROVE  DispatcherInv'
<1> USE DEF DispatcherInv
<1>1. /\ c \in callbacksAlive /\ callbacksAlive' = callbacksAlive \ {c}
      /\ UNCHANGED <<m_dispatcher, dispatcherAlive, walk, inCallback, walkEvent, broadcasts,
                     since, seen>>
    BY DEF CallbackDeath
<1>2. \A x : Due(x)' = Due(x)
    BY <1>1 DEF Due
<1>3. CASE ~m_dispatcher[c]
  <2>1. UNCHANGED <<m_subscribers, iter, undefined>>
    BY <1>3 DEF CallbackDeath
  <2>2. (\A x : InList(x)' <=> InList(x)) /\ (\A x, y : Precedes(x, y)' <=> Precedes(x, y))
    BY <2>1 DEF InList, Precedes
  <2>3. \A x : Passed(x)' <=> Passed(x)
    BY <1>1, <2>1, <2>2 DEF Passed
  <2>4. DispatcherTypes'
    BY <1>1, <2>1 DEF DispatcherTypes
  <2>5. DirList'
    BY <1>1, <2>1, <2>2 DEF DirList
  <2>6. DirPointers'
    BY <1>1, <1>3, <2>1, <2>2 DEF DirPointers
  <2>7. DirSeen'
    BY <1>1, <1>2, <2>1, <2>2, <2>3 DEF DirSeen
  <2> QED
    BY <2>4, <2>5, <2>6, <2>7
<1>4. CASE m_dispatcher[c]
  <2>1. /\ m_subscribers' = RemoveAt(m_subscribers, Position(c))
        /\ iter' = IF iter = c THEN Dangling ELSE iter
    BY <1>4 DEF CallbackDeath
  <2>2. InList(c) /\ dispatcherAlive
    BY <1>1, <1>4 DEF DirPointers
  <2>3. /\ m_subscribers' \in Seq(Callbacks)
        /\ \A x : InList(x)' <=> x # c /\ InList(x)
        /\ \A x, y : Precedes(x, y)' <=> x # c /\ y # c /\ Precedes(x, y)
    BY <2>1, <2>2, ListRemove DEF DispatcherTypes, DirList
  <2>4. DispatcherTypes'
    BY <1>1, <2>1, <2>3 DEF DispatcherTypes
  <2>5. c # End /\ c # Dangling /\ End # Dangling /\ Dangling \notin Callbacks /\ End \notin Callbacks
    BY CallbacksAssumption DEF End, Dangling
  <2>6. DirList'
    BY <1>1, <2>1, <2>3, <2>5 DEF DirList
  <2>7. DirPointers'
    BY <1>1, <2>1, <2>3, <2>5 DEF DirPointers, DispatcherTypes
  <2>8. ASSUME NEW x, x # c, iter # c PROVE Passed(x)' <=> Passed(x)
    BY <1>1, <2>1, <2>3, <2>8 DEF Passed
  <2>9. DirSeen'
    <3>1. CASE iter = c
      <4>1. iter' = Dangling /\ iter # Dangling
        BY <2>1, <2>5, <3>1
      <4>2. ASSUME walk = "broadcast", NEW x \in Callbacks, InList(x)'
            PROVE  \/ seen[x] = Due(x)
                   \/ since[x] <= Len(broadcasts) /\ seen[x] = Append(Due(x), walkEvent)
        <5>1. InList(x)
          BY <2>3, <4>2
        <5>2. CASE since[x] <= Len(broadcasts)
          <6>1. since[x] \in Nat /\ Len(broadcasts) \in Nat
            BY DEF DispatcherTypes
          <6>2. since[x] # Len(broadcasts) + 1
            BY <5>2, <6>1
          <6> QED
            BY <4>1, <4>2, <5>1, <5>2, <6>2 DEF DirSeen
        <5>3. CASE since[x] = Len(broadcasts) + 1 /\ seen[x] = <<>>
          <6>1. since[x] \in Nat /\ since[x] >= Len(broadcasts) /\ Len(broadcasts) \in Nat
            BY <5>3 DEF DispatcherTypes
          <6> QED
            BY <5>3, <6>1, NothingDue DEF Due, DispatcherTypes
        <5> QED
          BY <4>1, <4>2, <5>1, <5>2, <5>3 DEF DirSeen
      <4> QED
        BY <1>1, <1>2, <2>3, <4>1, <4>2 DEF DirSeen
    <3>2. CASE iter # c
      BY <1>1, <1>2, <2>1, <2>3, <2>8, <3>2 DEF DirSeen
    <3> QED
      BY <3>1, <3>2
  <2> QED
    BY <2>4, <2>6, <2>7, <2>9
<1> QED
    BY <1>3, <1>4

(* A broadcast, or the destructor's loop, begins at the front. *)
LEMMA WalkBegins ==
  ASSUME DispatcherInv, ~undefined, walk = "none", iter' = Begin,
         \/ walk' = "broadcast" /\ walkEvent' \in DirEvents
         \/ walk' = "death" /\ walkEvent' = walkEvent,
         UNCHANGED <<m_subscribers, m_dispatcher, callbacksAlive, dispatcherAlive, inCallback,
                     broadcasts, since, seen, undefined>>
  PROVE  DispatcherInv'
<1> USE DEF DispatcherInv
<1>1. /\ iter' = End => \A x : ~InList(x)
      /\ iter' # End => iter' \in Callbacks /\ InList(iter') /\ \A x : ~Precedes(x, iter')
    BY ListBegin DEF DispatcherTypes, DirList
<1>2. (\A x : InList(x)' <=> InList(x)) /\ (\A x, y : Precedes(x, y)' <=> Precedes(x, y))
    BY DEF InList, Precedes
<1>3. ~inCallback /\ iter' # Dangling
    BY <1>1, CallbacksAssumption DEF DirList, Dangling, End
<1>4. DispatcherTypes'
    BY <1>1 DEF DispatcherTypes
<1>5. DirList'
    BY <1>1, <1>2, <1>3 DEF DirList
<1>6. DirPointers'
    BY <1>1, <1>2, <1>3 DEF DirPointers
<1>7. \A x : InList(x) => ~Passed(x)'
    BY <1>1, <1>2, <1>3 DEF Passed
<1>8. \A x : Due(x)' = Due(x)
    BY DEF Due
<1>9. DirSeen'
    BY <1>2, <1>3, <1>7, <1>8 DEF DirSeen
<1> QED
    BY <1>4, <1>5, <1>6, <1>9

(* The callback at the iterator is notified, or told of the death. *)
LEMMA CallThroughStep ==
  ASSUME DispatcherInv, ~undefined, CallThroughIter
  PROVE  DispatcherInv'
<1> USE DEF DispatcherInv
<1>1. /\ walk # "none" /\ ~inCallback /\ iter # End
      /\ UNCHANGED <<m_subscribers, m_dispatcher, callbacksAlive, dispatcherAlive, walk, iter,
                     walkEvent, broadcasts, since>>
    BY DEF CallThroughIter
<1>2. CASE iter = Dangling
  <2>1. undefined' /\ seen' = seen
    BY <1>2 DEF CallThroughIter
  <2> QED
    BY <1>1, <2>1 DEF DispatcherTypes
<1>3. CASE iter # Dangling
  <2>1. /\ inCallback'
        /\ seen' = IF walk = "broadcast" THEN [seen EXCEPT ![iter] = Append(@, walkEvent)] ELSE seen
    BY <1>3 DEF CallThroughIter
  <2>2. iter \in Callbacks /\ InList(iter) /\ ~Precedes(iter, iter)
    BY <1>1, <1>3 DEF DispatcherTypes, DirList
  <2>3. (\A x : InList(x)' <=> InList(x)) /\ (\A x, y : Precedes(x, y)' <=> Precedes(x, y))
    BY <1>1 DEF InList, Precedes
  <2>4. \A x : Due(x)' = Due(x)
    BY <1>1 DEF Due
  <2>5. /\ seen' \in [Callbacks -> Seq(DirEvents)]
        /\ walk = "broadcast" => seen'[iter] = Append(seen[iter], walkEvent)
        /\ \A x \in Callbacks : x # iter \/ walk # "broadcast" => seen'[x] = seen[x]
    <3>1. seen[iter] \in Seq(DirEvents) /\ Append(seen[iter], walkEvent) \in Seq(DirEvents)
      BY <2>2 DEF DispatcherTypes
    <3> QED
      BY <2>1, <2>2, <3>1 DEF DispatcherTypes
  <2>6. ~Passed(iter) /\ Passed(iter)' /\ \A x : x # iter => (Passed(x)' <=> Passed(x))
    BY <1>1, <2>1, <2>2, <2>3 DEF Passed
  <2>7. DispatcherTypes'
    BY <1>1, <2>5 DEF DispatcherTypes
  <2>8. DirList' /\ DirPointers'
    BY <1>1, <2>3 DEF DirList, DirPointers
  <2>9. DirSeen'
    <3>1. ASSUME walk = "broadcast", NEW x \in Callbacks, InList(x)
          PROVE  \/ /\ since[x] <= Len(broadcasts)
                    /\ seen'[x] = IF Passed(x)' THEN Append(Due(x), walkEvent) ELSE Due(x)
                 \/ since[x] = Len(broadcasts) + 1 /\ seen'[x] = <<>> /\ Passed(x)' /\ x # iter
      <4>1. CASE x = iter
        <5>1. ~Passed(x)
          BY <2>6, <4>1
        <5>2. since[x] <= Len(broadcasts) /\ seen[x] = Due(x)
          BY <1>3, <3>1, <5>1 DEF DirSeen
        <5> QED
          BY <1>1, <2>5, <2>6, <3>1, <4>1, <5>2
      <4>2. CASE x # iter
        BY <1>3, <2>5, <2>6, <3>1, <4>2 DEF DirSeen
      <4> QED
        BY <4>1, <4>2
    <3>2. walk # "death" /\ dispatcherAlive =>
            \A x \in callbacksAlive : ~m_dispatcher[x] => seen'[x] = <<>>
      <4>1. walk # "death" => m_dispatcher[iter]
        BY <2>2 DEF DirPointers
      <4> QED
        BY <2>5, <4>1 DEF DirSeen, DispatcherTypes
    <3>3. walk # "broadcast" => \A x \in Callbacks : InList(x) =>
            since[x] <= Len(broadcasts) /\ seen'[x] = Due(x)
      BY <2>5 DEF DirSeen
    <3> QED
      BY <1>1, <1>3, <2>3, <2>4, <3>1, <3>2, <3>3 DEF DirSeen
  <2> QED
    BY <2>7, <2>8, <2>9
<1> QED
    BY <1>2, <1>3

(* Notify returns: Broadcast goes to the next node. *)
LEMMA NotifyReturnsStep ==
  ASSUME DispatcherInv, ~undefined, NotifyReturns
  PROVE  DispatcherInv'
<1> USE DEF DispatcherInv
<1>1. /\ walk = "broadcast" /\ inCallback /\ ~inCallback'
      /\ iter' = IF m_subscribers = <<>> THEN End ELSE IF iter = Dangling THEN iter ELSE After(iter)
      /\ undefined' = (iter = Dangling /\ m_subscribers # <<>>)
      /\ UNCHANGED <<m_subscribers, m_dispatcher, callbacksAlive, dispatcherAlive, walk,
                     walkEvent, broadcasts, since, seen>>
    BY DEF NotifyReturns
<1>2. (\A x : InList(x)' <=> InList(x)) /\ (\A x, y : Precedes(x, y)' <=> Precedes(x, y))
    BY <1>1 DEF InList, Precedes
<1>3. \A x : Due(x)' = Due(x)
    BY <1>1 DEF Due
<1>4. End \notin Callbacks /\ Dangling \notin Callbacks /\ End # Dangling
    BY CallbacksAssumption DEF End, Dangling
<1>5. CASE m_subscribers = <<>>
  <2>1. iter' = End /\ \A x : ~InList(x)
    BY <1>1, <1>5 DEF InList
  <2>2. DispatcherTypes'
    BY <1>1, <2>1 DEF DispatcherTypes
  <2>3. DirList'
    BY <1>1, <1>2, <1>4, <2>1 DEF DirList
  <2>4. DirPointers'
    BY <1>1, <1>2, <2>1 DEF DirPointers
  <2>5. DirSeen'
    BY <1>1, <1>2, <2>1 DEF DirSeen
  <2> QED
    BY <2>2, <2>3, <2>4, <2>5
<1>6. CASE m_subscribers # <<>> /\ iter = Dangling
  <2>1. undefined' /\ iter' = iter
    BY <1>1, <1>6
  <2> QED
    BY <1>1, <2>1 DEF DispatcherTypes
<1>7. CASE m_subscribers # <<>> /\ iter # Dangling
  <2>1. iter \in Callbacks /\ InList(iter) /\ iter' = After(iter)
    BY <1>1, <1>7 DEF DispatcherTypes, DirList
  <2>2. /\ iter' = End => \A x : InList(x) => x = iter \/ Precedes(x, iter)
        /\ iter' # End => /\ iter' \in Callbacks /\ InList(iter')
                          /\ \A x : Precedes(x, iter') <=> x = iter \/ Precedes(x, iter)
    BY <2>1, ListAfter DEF DispatcherTypes, DirList
  <2>3. ASSUME NEW x, InList(x) PROVE Passed(x)' <=> Passed(x)
    <3>1. Passed(x) <=> x = iter \/ Precedes(x, iter)
      BY <1>1, <1>4, <2>1 DEF Passed
    <3>2. Passed(x)' <=> iter' = End \/ Precedes(x, iter')
      BY <1>1, <1>2 DEF Passed
    <3> QED
      BY <2>2, <2>3, <3>1, <3>2
  <2>4. ASSUME NEW x, InList(x), x # iter, Passed(x) PROVE x # iter'
    <3>1. x \in Callbacks
      BY <2>4 DEF InList, DispatcherTypes
    <3>2. Precedes(x, iter) /\ ~Precedes(x, x)
      BY <1>4, <2>1, <2>4 DEF Passed, DirList
    <3> QED
      BY <1>4, <2>2, <3>1, <3>2
  <2>5. DispatcherTypes'
    BY <1>1, <2>2 DEF DispatcherTypes
  <2>6. DirList'
    BY <1>1, <1>2, <1>4, <2>2 DEF DirList
  <2>7. DirPointers'
    BY <1>1, <1>2 DEF DirPointers
  <2>8. DirSeen'
    <3>1. iter' # Dangling
      BY <1>4, <2>2
    <3> QED
      BY <1>1, <1>2, <1>3, <1>7, <2>3, <2>4, <3>1 DEF DirSeen
  <2> QED
    BY <2>5, <2>6, <2>7, <2>8
<1> QED
    BY <1>5, <1>6, <1>7

(* The broadcast ends: everyone in the list has the event, or came during it. *)
LEMMA BroadcastEndsStep ==
  ASSUME DispatcherInv, ~undefined, BroadcastEnds
  PROVE  DispatcherInv'
<1> USE DEF DispatcherInv
<1>1. /\ walk = "broadcast" /\ ~inCallback /\ iter = End /\ walk' = "none"
      /\ broadcasts' = Append(broadcasts, walkEvent) /\ walkEvent' = NoEvent
      /\ UNCHANGED <<m_subscribers, m_dispatcher, callbacksAlive, dispatcherAlive, iter,
                     inCallback, since, seen, undefined>>
    BY DEF BroadcastEnds
<1>2. (\A x : InList(x)' <=> InList(x)) /\ (\A x, y : Precedes(x, y)' <=> Precedes(x, y))
    BY <1>1 DEF InList, Precedes
<1>3. broadcasts \in Seq(DirEvents) /\ walkEvent \in DirEvents
    BY DEF DispatcherTypes
<1>4. /\ Len(broadcasts) \in Nat /\ broadcasts' \in Seq(DirEvents)
      /\ Len(broadcasts') = Len(broadcasts) + 1
    BY <1>1, <1>3
<1>5. DispatcherTypes'
    BY <1>1, <1>4 DEF DispatcherTypes, DirEvents
<1>6. DirList'
    BY <1>1, <1>2 DEF DirList
<1>7. DirPointers'
    BY <1>1, <1>2 DEF DirPointers
<1>8. ASSUME NEW x \in Callbacks, InList(x)
      PROVE  since[x] <= Len(broadcasts') /\ seen[x] = Due(x)'
  <2>0. since[x] \in Nat /\ iter # Dangling /\ Passed(x)
    BY <1>1 DEF DispatcherTypes, Passed, End, Dangling
  <2>1. CASE since[x] <= Len(broadcasts)
    <3>0. since[x] # Len(broadcasts) + 1
      BY <1>4, <2>0, <2>1
    <3>1. seen[x] = Append(Due(x), walkEvent)
      BY <1>1, <1>8, <2>0, <3>0 DEF DirSeen
    <3>2. Due(x)' = Append(Due(x), walkEvent)
      BY <1>1, <1>3, <1>4, <2>0, <2>1, DueGrows DEF Due
    <3> QED
      BY <1>4, <2>0, <2>1, <3>1, <3>2
  <2>2. CASE since[x] = Len(broadcasts) + 1 /\ seen[x] = <<>>
    <3>1. Due(x)' = <<>>
      BY <1>1, <1>4, <2>0, <2>2, NothingDue DEF Due
    <3> QED
      BY <1>4, <2>2, <3>1
  <2> QED
    BY <1>1, <1>8, <2>0, <2>1, <2>2 DEF DirSeen
<1>9. DirSeen'
    BY <1>1, <1>2, <1>8 DEF DirSeen
<1> QED
    BY <1>5, <1>6, <1>7, <1>9

(* The destructor has told a callback, and goes to the next one. *)
LEMMA DeathReturnsStep ==
  ASSUME DispatcherInv, ~undefined, DeathReturns
  PROVE  DispatcherInv'
<1> USE DEF DispatcherInv
<1>1. /\ walk = "death" /\ inCallback /\ ~inCallback'
      /\ UNCHANGED <<m_subscribers, callbacksAlive, dispatcherAlive, walk, walkEvent,
                     broadcasts, since, seen>>
    BY DEF DeathReturns
<1>2. (\A x : InList(x)' <=> InList(x)) /\ (\A x, y : Precedes(x, y)' <=> Precedes(x, y))
    BY <1>1 DEF InList, Precedes
<1>3. \A x : Due(x)' = Due(x)
    BY <1>1 DEF Due
<1>4. CASE iter = Dangling
  <2>1. undefined' /\ UNCHANGED <<m_dispatcher, iter>>
    BY <1>4 DEF DeathReturns
  <2> QED
    BY <1>1, <2>1 DEF DispatcherTypes
<1>5. CASE iter # Dangling
  <2>1. m_dispatcher' = [m_dispatcher EXCEPT ![iter] = FALSE] /\ iter' = After(iter)
    BY <1>5 DEF DeathReturns
  <2>2. iter \in Callbacks /\ InList(iter)
    BY <1>1, <1>5 DEF DispatcherTypes, DirList
  <2>3. /\ iter' = End => \A x : InList(x) => x = iter \/ Precedes(x, iter)
        /\ iter' # End => /\ iter' \in Callbacks /\ InList(iter')
                          /\ \A x : Precedes(x, iter') <=> x = iter \/ Precedes(x, iter)
    BY <2>1, <2>2, ListAfter DEF DispatcherTypes, DirList
  <2>4. /\ m_dispatcher' \in [Callbacks -> BOOLEAN] /\ ~m_dispatcher'[iter]
        /\ \A x \in Callbacks : x # iter => m_dispatcher'[x] = m_dispatcher[x]
    BY <2>1, <2>2 DEF DispatcherTypes
  <2>5. DispatcherTypes'
    <3>1. iter' \in Callbacks \cup {End, Dangling}
      BY <2>3
    <3> QED
      BY <1>1, <2>4, <3>1 DEF DispatcherTypes
  <2>6. DirList'
    BY <1>1, <1>2, <2>3, CallbacksAssumption DEF DirList, End
  <2>7. ASSUME NEW x \in callbacksAlive, m_dispatcher'[x]
        PROVE  dispatcherAlive /\ InList(x) /\ iter' # End /\ ~Precedes(x, iter')
    <3>1. x # iter /\ m_dispatcher[x]
      BY <2>4, <2>7 DEF DispatcherTypes
    <3>2. dispatcherAlive /\ InList(x) /\ ~Precedes(x, iter)
      BY <1>1, <1>5, <3>1 DEF DirPointers
    <3> QED
      BY <2>3, <3>1, <3>2
  <2>8. DirPointers'
    BY <1>1, <1>2, <2>7 DEF DirPointers
  <2>9. DirSeen'
    BY <1>1, <1>2, <1>3 DEF DirSeen
  <2> QED
    BY <2>5, <2>6, <2>8, <2>9
<1> QED
    BY <1>4, <1>5

(* The dispatcher is gone, and no callback points to it. *)
LEMMA DestroyedStep ==
  ASSUME DispatcherInv, ~undefined, DispatcherDestroyed
  PROVE  DispatcherInv'
<1> USE DEF DispatcherInv
<1>1. /\ walk = "death" /\ ~inCallback /\ iter = End /\ walk' = "none" /\ ~dispatcherAlive'
      /\ m_subscribers' = <<>>
      /\ UNCHANGED <<m_dispatcher, callbacksAlive, iter, inCallback, walkEvent, broadcasts,
                     since, seen, undefined>>
    BY DEF DispatcherDestroyed
<1>2. m_subscribers' \in Seq(Callbacks) /\ Len(m_subscribers') = 0
    BY <1>1
<1>3. (\A x : ~InList(x)') /\ (\A x, y : ~Precedes(x, y)')
    BY <1>2 DEF InList, Precedes
<1>4. \A x \in callbacksAlive : ~m_dispatcher[x]
    BY <1>1 DEF DirPointers, End, Dangling
<1>5. DispatcherTypes'
    BY <1>1, <1>2 DEF DispatcherTypes
<1>6. DirList'
    BY <1>1, <1>3, CallbacksAssumption DEF DirList, End
<1>7. DirPointers'
    BY <1>1, <1>3, <1>4 DEF DirPointers
<1>8. DirSeen'
    BY <1>1, <1>3 DEF DirSeen
<1> QED
    BY <1>5, <1>6, <1>7, <1>8

(***************************************************************************)
(* The strengthening behind EveryEventOnce holds in every state of the     *)
(* directory's monitor, for any set of callbacks and number of changes.    *)
(***************************************************************************)
THEOREM DirInvariance == DirMonitorSpec => []DirInv
<1>1. DirMonitorStart => DirInv
  <2> SUFFICES ASSUME DirMonitorStart PROVE DirInv
    OBVIOUS
  <2>1. m_subscribers = <<>> /\ iter = End /\ walk = "none" /\ ~inCallback /\ broadcasts = <<>>
    BY DEF DirMonitorStart, DispatcherStart
  <2>2. (\A x : ~InList(x)) /\ (\A x, y : ~Precedes(x, y))
    BY <2>1 DEF InList, Precedes
  <2>3. \A S : <<>> \in Seq(S)
    OBVIOUS
  <2>4. DispatcherTypes
    BY <2>3 DEF DirMonitorStart, DispatcherStart, DispatcherTypes, DirEvents
  <2>5. DirList
    BY <2>1, <2>2, CallbacksAssumption DEF DirList, End
  <2>6. DirPointers /\ DirSeen
    BY <2>1, <2>2 DEF DirMonitorStart, DispatcherStart, DirPointers, DirSeen
  <2> QED
    BY <2>3, <2>4, <2>5, <2>6 DEF DirMonitorStart, DirInv, DispatcherInv
<1>2. DirInv /\ [DirMonitorNext]_dirVars => DirInv'
  <2> SUFFICES ASSUME DirInv, [DirMonitorNext]_dirVars PROVE DirInv'
    OBVIOUS
  <2>1. DispatcherInv /\ dirBuffer \in Seq(Masks) /\ dirQueue \in Seq(Masks)
    BY DEF DirInv
  <2>2. ASSUME UNCHANGED dispatcherVars PROVE DispatcherInv'
    <3>1. UNCHANGED <<m_subscribers, m_dispatcher, callbacksAlive, dispatcherAlive, walk,
                      iter, inCallback, walkEvent, broadcasts, since, seen, undefined>>
      BY <2>2 DEF dispatcherVars
    <3>2. (\A x : InList(x)' <=> InList(x)) /\ (\A x, y : Precedes(x, y)' <=> Precedes(x, y))
      BY <3>1 DEF InList, Precedes
    <3>3. \A x : Due(x)' = Due(x) /\ (Passed(x)' <=> Passed(x))
      BY <3>1, <3>2 DEF Due, Passed
    <3>4. DispatcherTypes' = DispatcherTypes
      BY <3>1 DEF DispatcherTypes
    <3>5. (DirList <=> DirList') /\ (DirPointers <=> DirPointers')
      BY <3>1, <3>2 DEF DirList, DirPointers
    <3>6. DirSeen => DirSeen'
      BY <3>1, <3>2, <3>3 DEF DirSeen
    <3> QED
      BY <2>1, <3>1, <3>4, <3>5, <3>6 DEF DispatcherInv
  <2>3. ASSUME ~undefined, WalkStep PROVE DispatcherInv'
    BY <2>1, <2>3, CallThroughStep, NotifyReturnsStep, BroadcastEndsStep, DeathReturnsStep,
       DestroyedStep DEF WalkStep
  <2>4. ASSUME ~undefined, NEW e \in DirEvents, Broadcast(e) PROVE DispatcherInv'
    BY <2>1, <2>4, WalkBegins DEF Broadcast
  <2>5. ASSUME ~undefined, DispatcherDestroy PROVE DispatcherInv'
    BY <2>1, <2>5, WalkBegins DEF DispatcherDestroy
  <2>6. ASSUME ~undefined, MonitorEvent PROVE DirInv'
    <3>1. CASE UNCHANGED dispatcherVars /\ dirBuffer' = <<>>
      BY <2>1, <2>2, <2>6, <3>1 DEF MonitorEvent, DirInv
    <3>2. CASE /\ dirBuffer # <<>> /\ dirBuffer' = Tail(dirBuffer)
               /\ Broadcast(TranslateINotifyToEvent(Head(dirBuffer)))
      <4>1. Head(dirBuffer) \in Masks /\ Tail(dirBuffer) \in Seq(Masks)
        BY <2>1, <3>2
      <4>2. TranslateINotifyToEvent(Head(dirBuffer)) \in DirEvents
        BY <4>1 DEF TranslateINotifyToEvent, DirEvents, Masks
      <4> QED
        BY <2>1, <2>4, <2>6, <3>2, <4>1, <4>2 DEF MonitorEvent, DirInv
    <3> QED
      BY <2>6, <3>1, <3>2 DEF MonitorEvent
  <2>7. ASSUME NEW mask \in Masks, DirChange(mask) PROVE DirInv'
    BY <2>1, <2>2, <2>7 DEF DirChange, DirInv
  <2>8. CASE MonitorTest \/ MonitorReadFails
    BY <2>1, <2>2, <2>8 DEF MonitorTest, MonitorReadFails, DirInv
  <2>9. CASE MonitorRead
    BY <2>1, <2>2, <2>9 DEF MonitorRead, DirInv
  <2>10. CASE StopMonitor
    <3>1. dirQueue' \in Seq(Masks)
      BY <2>1, <2>10 DEF StopMonitor, Masks
    <3> QED
      BY <2>1, <2>2, <2>10, <3>1 DEF StopMonitor, DirInv
  <2>11. ASSUME ~undefined, StopJoin PROVE DirInv'
    BY <2>1, <2>5, <2>11 DEF StopJoin, DirInv
  <2>12. ASSUME ~undefined, DirWalk PROVE DirInv'
    BY <2>1, <2>3, <2>12 DEF DirWalk, DirInv
  <2>13. ASSUME ~undefined, NEW c \in Callbacks, DllLoaderCalls(c) PROVE DirInv'
    BY <2>1, <2>13, SubscribeStep, CallbackDeathStep DEF DllLoaderCalls, DirInv
  <2>14. CASE UNCHANGED dirVars
    BY <2>1, <2>2, <2>14 DEF dirVars, DirInv
  <2> QED
    BY <2>6, <2>7, <2>8, <2>9, <2>10, <2>11, <2>12, <2>13, <2>14
       DEF DirMonitorNext, MonitorStep, StopStep, DirGoesOn
<1> QED
    BY <1>1, <1>2, PTL DEF DirMonitorSpec

(***************************************************************************)
(* A callback gets each event once and in order, and none that outlives    *)
(* the dispatcher points to it, for any set of callbacks, until the node   *)
(* under the iterator is erased.                                           *)
(***************************************************************************)
THEOREM EventsReachEveryone == DirMonitorSpec => []EveryEventOnce
<1>1. DirInv => EveryEventOnce
  <2> SUFFICES ASSUME DirInv, ~undefined PROVE EveryEventOnce
    BY DEF EveryEventOnce
  <2>1. DispatcherTypes /\ DirList /\ DirPointers /\ DirSeen
    BY DEF DirInv, DispatcherInv
  <2>2. ASSUME NEW i \in 1 .. Len(m_subscribers)
        PROVE  LET c == m_subscribers[i]
               IN  /\ c \in callbacksAlive \/ walk = "death"
                   /\ \/ seen[c] = Due(c)
                      \/ /\ walk = "broadcast" /\ since[c] <= Len(broadcasts)
                         /\ seen[c] = Append(Due(c), walkEvent)
    <3> DEFINE c == m_subscribers[i]
    <3>1. c \in Callbacks /\ InList(c)
      BY <2>1 DEF DispatcherTypes, InList
    <3> HIDE DEF c
    <3>2. c \in callbacksAlive \/ walk = "death"
      BY <2>1, <3>1 DEF DirPointers
    <3>3. ASSUME since[c] = Len(broadcasts) + 1, seen[c] = <<>> PROVE seen[c] = Due(c)
      <4>1. since[c] \in Nat /\ since[c] >= Len(broadcasts) /\ Len(broadcasts) \in Nat
        BY <2>1, <3>1, <3>3 DEF DispatcherTypes
      <4> QED
        BY <2>1, <3>3, <4>1, NothingDue DEF Due, DispatcherTypes
    <3>4. \/ seen[c] = Due(c)
          \/ walk = "broadcast" /\ since[c] <= Len(broadcasts) /\ seen[c] = Append(Due(c), walkEvent)
      BY <2>1, <3>1, <3>3 DEF DirSeen
    <3> QED
      BY <3>2, <3>4 DEF c
  <2> QED
    BY <2>1, <2>2 DEF EveryEventOnce, Due, DirPointers
<1> QED
    BY <1>1, DirInvariance, PTL
=============================================================================
