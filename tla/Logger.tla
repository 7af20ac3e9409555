------------------------------- MODULE Logger -------------------------------
(***************************************************************************)
(* The logger, and the two ways to have one instance of something like it. *)
(***************************************************************************)
EXTENDS Integers, Sequences, FiniteSets

-----------------------------------------------------------------------------
(***************************************************************************)
(* Singleton (projects/singleton) and Handleton (projects/handleton): an   *)
(* instance made at its first use, under a mutex that is only taken while  *)
(* the pointer looks empty, and deleted by an exit handler while other     *)
(* threads may still run.  Singleton deletes and then clears the pointer,  *)
(* so that a late call makes a new instance; Handleton first replaces the  *)
(* pointer by an address that faults.                                      *)
(***************************************************************************)

CONSTANTS SingletonThreads,
          MaxInstances  \* bound: instances ever made

ASSUME SingletonAssumption == "free" \notin SingletonThreads

VARIABLES sgKind,       \* "Singleton" or "Handleton"
          m_Instance, sgMutex,
          sgAt, sgTmp,  \* where each thread is in GetInstance, and its tmp
          sgMade, sgDeleted,  \* instances
          sgExit,       \* where the exit handler is
          sgPtr         \* the pointer Handleton's handler has read

singletonVars == <<sgKind, m_Instance, sgMutex, sgAt, sgTmp, sgMade, sgDeleted, sgExit, sgPtr>>

NULL == 0
DeadBeef == -1
Free == "free"

SingletonStart == /\ sgKind \in {"Singleton", "Handleton"}
                  /\ m_Instance = NULL /\ sgMutex = Free
                  /\ sgAt = [t \in SingletonThreads |-> "out"]
                  /\ sgTmp = [t \in SingletonThreads |-> NULL]
                  /\ sgMade = {} /\ sgDeleted = {} /\ sgExit = "no" /\ sgPtr = NULL

Goto(t, at) == sgAt' = [sgAt EXCEPT ![t] = at]

\* The load without the mutex: most calls end here.
LoadFirst(t) == /\ sgAt[t] \in {"out", "has"}
                /\ sgTmp' = [sgTmp EXCEPT ![t] = m_Instance]
                /\ Goto(t, IF m_Instance = NULL THEN "lock" ELSE "has")
                /\ UNCHANGED <<sgKind, m_Instance, sgMutex, sgMade, sgDeleted, sgExit, sgPtr>>

\* Mutant of LoadLocked: the pointer is not loaded again under the mutex.
LoadLockedNever(t) == /\ sgAt[t] = "lock" /\ sgMutex = Free /\ sgMutex' = t
                      /\ Goto(t, "new") /\ UNCHANGED sgTmp
                      /\ UNCHANGED <<sgKind, m_Instance, sgMade, sgDeleted, sgExit, sgPtr>>

LoadLocked(t) == /\ sgAt[t] = "lock" /\ sgMutex = Free /\ sgMutex' = t
                 /\ sgTmp' = [sgTmp EXCEPT ![t] = m_Instance]
                 /\ Goto(t, IF m_Instance = NULL THEN "new" ELSE "unlock")
                 /\ UNCHANGED <<sgKind, m_Instance, sgMade, sgDeleted, sgExit, sgPtr>>

NewInstance(t) == LET made == Cardinality(sgMade) + 1 IN
                  /\ sgAt[t] = "new" /\ made <= MaxInstances
                  /\ sgMade' = sgMade \cup {made}
                  /\ sgTmp' = [sgTmp EXCEPT ![t] = made]
                  /\ Goto(t, "store")
                  /\ UNCHANGED <<sgKind, m_Instance, sgMutex, sgDeleted, sgExit, sgPtr>>

\* Singleton calls atexit after the store, Handleton before it.
StoreInstance(t) == /\ sgAt[t] = "store" /\ m_Instance' = sgTmp[t]
                    /\ Goto(t, "unlock")
                    /\ UNCHANGED <<sgKind, sgMutex, sgTmp, sgMade, sgDeleted, sgExit, sgPtr>>

Unlock(t) == /\ sgAt[t] = "unlock" /\ sgMutex' = Free /\ Goto(t, "has")
             /\ UNCHANGED <<sgKind, m_Instance, sgTmp, sgMade, sgDeleted, sgExit, sgPtr>>

GetInstance(t) == \/ LoadFirst(t) \/ LoadLocked(t) \/ NewInstance(t) \/ StoreInstance(t)
                  \/ Unlock(t)

\* Singleton's exit handler, in two steps.
DeleteInstance ==
  /\ sgKind = "Singleton"
  /\ \/ /\ sgExit = "no" /\ m_Instance # NULL /\ sgExit' = "deleted"
        /\ sgDeleted' = sgDeleted \cup {m_Instance} /\ UNCHANGED m_Instance
     \/ /\ sgExit = "deleted" /\ sgExit' = "done"
        /\ m_Instance' = NULL /\ UNCHANGED sgDeleted
  /\ UNCHANGED <<sgKind, sgMutex, sgAt, sgTmp, sgMade, sgPtr>>

\* Handleton's, which is registered before the instance is stored: it deletes
\* the instance that it has read, if there was one.
DestroyInstance ==
  /\ sgKind = "Handleton"
  /\ \/ /\ sgExit = "no" /\ sgExit' = "replaced"
        /\ m_Instance # NULL \/ \E t \in SingletonThreads : sgAt[t] = "store"
        /\ sgPtr' = m_Instance /\ m_Instance' = DeadBeef /\ UNCHANGED sgDeleted
     \/ /\ sgExit = "replaced" /\ sgExit' = "done"
        /\ sgDeleted' = {sgPtr} \ {NULL} /\ UNCHANGED <<m_Instance, sgPtr>>
  /\ UNCHANGED <<sgKind, sgMutex, sgAt, sgTmp, sgMade>>

SingletonNext == \/ DeleteInstance \/ DestroyInstance
                 \/ \E t \in SingletonThreads : GetInstance(t)

SingletonSpec == SingletonStart /\ [][SingletonNext]_singletonVars

-----------------------------------------------------------------------------

(***************************************************************************)
(* Until the exit handler begins there is one instance, and every thread   *)
(* that leaves GetInstance has it, however many raced through the first    *)
(* load; Handleton never makes a second one, and a pointer of a Singleton  *)
(* that is loaded when the handler is done is not the deleted one.         *)
(***************************************************************************)
OneInstance ==
  /\ sgExit = "no" => /\ Cardinality(sgMade) <= 1
                      /\ \A t \in SingletonThreads : sgAt[t] = "has" => sgTmp[t] \in sgMade
  /\ sgKind = "Handleton" => Cardinality(sgMade) <= 1
  /\ sgExit = "done" => m_Instance \notin sgDeleted

-----------------------------------------------------------------------------
(***************************************************************************)
(* Logger (projects/logger): clients put messages in a WaitableQueue, one  *)
(* thread takes them and writes them to a file, the text and the newline   *)
(* apart.  The queue is used by what WaitableQueue promises; its wait is   *)
(* one of Boost's interruption points.                                     *)
(***************************************************************************)

CONSTANTS LogClients,
          LogLevels,   \* the levels used: 0 .. 4 for NONE .. DEBUG
          LogMessages  \* bound: messages logged

VARIABLES m_current_level, m_message_q, m_stop_flag,
          logOpen,      \* m_log_fd is open
          logFile,      \* what the file holds
          logThread,    \* where PopAndLog is, and the message it has
          logInterrupted,
          logClient,    \* the message a client is about to push, or 0
          logLife,      \* where the constructor or the destructor is
          logCount,     \* messages so far, for the bound
          logPushed     \* history: the messages pushed

loggerVars == <<m_current_level, m_message_q, m_stop_flag, logOpen, logFile, logThread,
                logInterrupted, logClient, logLife, logCount, logPushed>>

Newline == 0
NONE == 0

LoggerStart == /\ m_current_level = NONE /\ m_message_q = <<>> /\ m_stop_flag = FALSE
               /\ logOpen = FALSE /\ logFile = <<>> /\ logInterrupted = FALSE
               /\ logThread = [at |-> "test", str |-> 0]
               /\ logClient = [c \in LogClients |-> 0]
               /\ logLife = "starting" /\ logCount = 0 /\ logPushed = <<>>

\* The rest of the constructor: the thread runs already.  Without LOG_PATH it
\* is interrupted and joined; open may fail, and nobody looks.
LoggerOpen == /\ logLife = "starting"
              /\ \/ logLife' = "open" /\ logOpen' \in BOOLEAN /\ UNCHANGED logInterrupted
                 \/ logLife' = "joining" /\ logInterrupted' = TRUE /\ UNCHANGED logOpen
              /\ UNCHANGED <<m_current_level, m_message_q, m_stop_flag, logFile, logThread,
                             logClient, logCount, logPushed>>

SetLevel(level) == /\ logLife = "open" /\ m_current_level' = level
                   /\ UNCHANGED <<m_message_q, m_stop_flag, logOpen, logFile, logThread,
                                  logInterrupted, logClient, logLife, logCount, logPushed>>

\* Log: the level is read first, the message pushed later.
Log(c, level) ==
  /\ logLife = "open" /\ logClient[c] = 0 /\ logCount < LogMessages
  /\ logCount' = logCount + 1
  /\ logClient' = IF level <= m_current_level THEN [logClient EXCEPT ![c] = logCount + 1]
                                              ELSE logClient
  /\ UNCHANGED <<m_current_level, m_message_q, m_stop_flag, logOpen, logFile, logThread,
                 logInterrupted, logLife, logPushed>>

LogPush(c) ==
  /\ logClient[c] # 0 /\ logClient' = [logClient EXCEPT ![c] = 0]
  /\ m_message_q' = Append(m_message_q, logClient[c])
  /\ logPushed' = Append(logPushed, logClient[c])
  /\ UNCHANGED <<m_current_level, m_stop_flag, logOpen, logFile, logThread, logInterrupted,
                 logLife, logCount>>

LoggerTest ==
  /\ logThread.at = "test"
  /\ logThread' = [logThread EXCEPT !.at = IF m_stop_flag THEN "done" ELSE "pop"]
  /\ UNCHANGED <<m_current_level, m_message_q, m_stop_flag, logOpen, logFile,
                 logInterrupted, logClient, logLife, logCount, logPushed>>

\* Pop takes a message, or waits, where an interruption ends the thread.
LoggerPop ==
  /\ logThread.at = "pop"
  /\ \/ /\ m_message_q # <<>>
        /\ logThread' = [at |-> "text", str |-> Head(m_message_q)]
        /\ m_message_q' = Tail(m_message_q)
     \/ /\ m_message_q = <<>> /\ logInterrupted
        /\ logThread' = [logThread EXCEPT !.at = "done"] /\ UNCHANGED m_message_q
  /\ UNCHANGED <<m_current_level, m_stop_flag, logOpen, logFile, logInterrupted, logClient,
                 logLife, logCount, logPushed>>

\* Mutant of LoggerWrite: a file that was closed is written to all the same.
LoggerWriteClosed ==
  /\ logThread.at \in {"text", "newline"}
  /\ logFile' = IF logOpen \/ logThread.at = "newline"
                THEN Append(logFile, IF logThread.at = "text" THEN logThread.str ELSE Newline)
                ELSE logFile
  /\ logThread' = [logThread EXCEPT !.at = IF @ = "text" THEN "newline" ELSE "test"]
  /\ UNCHANGED <<m_current_level, m_message_q, m_stop_flag, logOpen, logInterrupted,
                 logClient, logLife, logCount, logPushed>>

\* The two outputs; a closed stream drops them.
LoggerWrite ==
  /\ logThread.at \in {"text", "newline"}
  /\ logFile' = IF logOpen
                THEN Append(logFile, IF logThread.at = "text" THEN logThread.str ELSE Newline)
                ELSE logFile
  /\ logThread' = [logThread EXCEPT !.at = IF @ = "text" THEN "newline" ELSE "test"]
  /\ UNCHANGED <<m_current_level, m_message_q, m_stop_flag, logOpen, logInterrupted,
                 logClient, logLife, logCount, logPushed>>

PopAndLog == LoggerTest \/ LoggerPop \/ LoggerWrite

\* The destructor: flag, close, interrupt, join.  No client is in Log any more.
LoggerDestroy ==
  /\ \/ /\ logLife = "open" /\ \A c \in LogClients : logClient[c] = 0
        /\ logLife' = "flagged" /\ m_stop_flag' = TRUE /\ UNCHANGED <<logOpen, logInterrupted>>
     \/ /\ logLife = "flagged" /\ logLife' = "closed" /\ logOpen' = FALSE
        /\ UNCHANGED <<m_stop_flag, logInterrupted>>
     \/ /\ logLife = "closed" /\ logLife' = "joining" /\ logInterrupted' = TRUE
        /\ UNCHANGED <<m_stop_flag, logOpen>>
     \/ /\ logLife = "joining" /\ logThread.at = "done" /\ logLife' = "gone"
        /\ UNCHANGED <<m_stop_flag, logOpen, logInterrupted>>
  /\ UNCHANGED <<m_current_level, m_message_q, logFile, logThread, logClient, logCount, logPushed>>

LoggerNext == \/ LoggerOpen \/ PopAndLog \/ LoggerDestroy
              \/ \E level \in LogLevels : SetLevel(level) \/ \E c \in LogClients : Log(c, level)
              \/ \E c \in LogClients : LogPush(c)

LoggerSpec == LoggerStart /\ [][LoggerNext]_loggerVars

-----------------------------------------------------------------------------

(***************************************************************************)
(* The file holds the first of the messages that were pushed, in order,    *)
(* each with its newline, and a destructor that closes the file under the  *)
(* thread's hands cuts it off cleanly: nothing is missing in between and   *)
(* no line is written without its text (logger.cpp:23-29, 53-58).          *)
(***************************************************************************)
LogIsPrefix ==
  /\ Len(logFile) <= 2 * Len(logPushed)
  /\ \A i \in 1 .. Len(logFile) :
       logFile[i] = IF i % 2 = 1 THEN logPushed[(i + 1) \div 2] ELSE Newline

(***************************************************************************)
(* The destructor, and a constructor that throws, return: the interruption *)
(* reaches the thread where it waits, or the flag stops it, whenever they  *)
(* come (logger.cpp:16-17, 25-28).                                         *)
(***************************************************************************)
LoggerWaits == logLife \in {"flagged", "joining"}
LoggerJoined == logLife = "gone"
=============================================================================
