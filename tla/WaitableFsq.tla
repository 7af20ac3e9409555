---------------------------- MODULE WaitableFsq ----------------------------
(***************************************************************************)
(* The waitable fixed-size queue (quizzes/waitable_fsq.cpp): a ring whose  *)
(* writers share one mutex and whose readers share another.  Each end      *)
(* reads the index of the other end without a lock, so the ring is right   *)
(* only if an index moves after its cell was used.  A notification may     *)
(* come between a test and its wait and be lost.  The steps are the        *)
(* program's loads and stores in program order, as an x86 build without    *)
(* optimisation performs them.                                             *)
(***************************************************************************)
EXTENDS Naturals, Sequences, FiniteSets

CONSTANTS FsqWriters, FsqReaders,  \* the threads that call Push, Pop
          FsqItem,                 \* what is pushed
          FsqSize,                 \* m_size
          FsqPushes                \* bound: calls of Push; Pop is not bounded

\* With no cell at all the indices would be taken modulo 0.
ASSUME FsqAssumption == /\ FsqSize \in Nat \ {0} /\ FsqPushes \in Nat
                        /\ FsqWriters \cap FsqReaders = {}

VARIABLES m_fsq, m_write, m_read,
          fsqAt,        \* where each thread is in its call
          fsqTimed,     \* the threads whose call has a timeout
          fsqData,      \* per thread: data_
          fsqCalls,     \* calls of Push so far
          fsqSent, fsqReceived  \* history: what the indices have moved over

fsqVars == <<m_fsq, m_write, m_read, fsqAt, fsqTimed, fsqData, fsqCalls, fsqSent, fsqReceived>>

FsqThreads == FsqWriters \cup FsqReaders

FsqStart == /\ m_fsq \in [0 .. FsqSize - 1 -> FsqItem]
            /\ \A i \in 0 .. FsqSize - 1 : m_fsq[i] = m_fsq[0]
            /\ m_write = 0 /\ m_read = 0 /\ fsqTimed = {} /\ fsqCalls = 0
            /\ fsqAt = [t \in FsqThreads |-> "idle"]
            /\ fsqData = [t \in FsqThreads |-> m_fsq[0]]
            /\ fsqSent = <<>> /\ fsqReceived = <<>>

IsEmpty == m_read = m_write

IsFull == m_read = (m_write + 1) % FsqSize

FsqEnd(t) == IF t \in FsqWriters THEN FsqWriters ELSE FsqReaders
Holding == {"test", "toWait", "copy", "advance", "notify"}
FsqGoto(t, at) == fsqAt' = [fsqAt EXCEPT ![t] = at]

-----------------------------------------------------------------------------

FsqCall(t, v, timed) ==
  /\ fsqAt[t] = "idle" /\ FsqGoto(t, "lock")
  /\ fsqTimed' = IF timed THEN fsqTimed \cup {t} ELSE fsqTimed
  /\ IF t \in FsqWriters
     THEN /\ fsqCalls < FsqPushes /\ fsqCalls' = fsqCalls + 1
          /\ fsqData' = [fsqData EXCEPT ![t] = v]
     ELSE UNCHANGED <<fsqCalls, fsqData>>
  /\ UNCHANGED <<m_fsq, m_write, m_read, fsqSent, fsqReceived>>

\* unique_lock, and the end of a wait; a call that has timed out returns.
FsqLock(t) ==
  /\ \A u \in FsqEnd(t) : fsqAt[u] \notin Holding
  /\ \/ fsqAt[t] = "lock" /\ FsqGoto(t, "test")
     \/ fsqAt[t] = "timeout" /\ FsqGoto(t, "idle")
  /\ fsqTimed' = IF fsqAt[t] = "timeout" THEN fsqTimed \ {t} ELSE fsqTimed
  /\ UNCHANGED <<m_fsq, m_write, m_read, fsqData, fsqCalls, fsqSent, fsqReceived>>

FsqTest(t) ==
  /\ fsqAt[t] = "test"
  /\ FsqGoto(t, IF (IF t \in FsqWriters THEN IsFull ELSE IsEmpty) THEN "toWait" ELSE "copy")
  /\ UNCHANGED <<m_fsq, m_write, m_read, fsqTimed, fsqData, fsqCalls, fsqSent, fsqReceived>>

\* wait and wait_for: the mutex is given back; the wait may end for no
\* reason, and wait_for when its time is over.
FsqWait(t) ==
  /\ \/ fsqAt[t] = "toWait" /\ FsqGoto(t, "waiting")
     \/ fsqAt[t] = "waiting" /\ FsqGoto(t, "lock")
     \/ fsqAt[t] = "waiting" /\ t \in fsqTimed /\ FsqGoto(t, "timeout")
  /\ UNCHANGED <<m_fsq, m_write, m_read, fsqTimed, fsqData, fsqCalls, fsqSent, fsqReceived>>

\* Mutant of FsqPush: the index moves before its cell is written.
FsqPushIndexFirst(t) ==
  /\ t \in FsqWriters
  /\ \/ /\ fsqAt[t] = "copy" /\ FsqGoto(t, "advance")
        /\ m_write' = (m_write + 1) % FsqSize /\ fsqSent' = Append(fsqSent, fsqData[t])
        /\ UNCHANGED m_fsq
     \/ /\ fsqAt[t] = "advance" /\ FsqGoto(t, "notify")
        /\ m_fsq' = [m_fsq EXCEPT ![(m_write + FsqSize - 1) % FsqSize] = fsqData[t]]
        /\ UNCHANGED <<m_write, fsqSent>>
  /\ UNCHANGED <<m_read, fsqTimed, fsqData, fsqCalls, fsqReceived>>

FsqPush(t) ==
  /\ t \in FsqWriters
  /\ \/ /\ fsqAt[t] = "copy" /\ FsqGoto(t, "advance")
        /\ m_fsq' = [m_fsq EXCEPT ![m_write] = fsqData[t]] /\ UNCHANGED <<m_write, fsqSent>>
     \/ /\ fsqAt[t] = "advance" /\ FsqGoto(t, "notify")
        /\ m_write' = (m_write + 1) % FsqSize /\ fsqSent' = Append(fsqSent, fsqData[t])
        /\ UNCHANGED m_fsq
  /\ UNCHANGED <<m_read, fsqTimed, fsqData, fsqCalls, fsqReceived>>

FsqPop(t) ==
  /\ t \in FsqReaders
  /\ \/ /\ fsqAt[t] = "copy" /\ FsqGoto(t, "advance")
        /\ fsqData' = [fsqData EXCEPT ![t] = m_fsq[m_read]] /\ UNCHANGED <<m_read, fsqReceived>>
     \/ /\ fsqAt[t] = "advance" /\ FsqGoto(t, "notify")
        /\ m_read' = (m_read + 1) % FsqSize
        /\ fsqReceived' = Append(fsqReceived, fsqData[t]) /\ UNCHANGED fsqData
  /\ UNCHANGED <<m_fsq, m_write, fsqTimed, fsqCalls, fsqSent>>

\* notify_one on the other end's condition variable, and the mutex.
FsqNotify(t) ==
  LET sleepers == {u \in FsqThreads \ FsqEnd(t) : fsqAt[u] = "waiting"} IN
  /\ fsqAt[t] = "notify"
  /\ IF sleepers = {} THEN FsqGoto(t, "idle")
     ELSE \E u \in sleepers : fsqAt' = [fsqAt EXCEPT ![t] = "idle", ![u] = "lock"]
  /\ fsqTimed' = fsqTimed \ {t}
  /\ UNCHANGED <<m_fsq, m_write, m_read, fsqData, fsqCalls, fsqSent, fsqReceived>>

\* What a thread does once it is in a call.
FsqStep(t) == FsqLock(t) \/ FsqTest(t) \/ FsqPush(t) \/ FsqPop(t) \/ FsqNotify(t)

FsqNext == \E t \in FsqThreads :
             \/ FsqStep(t) \/ FsqWait(t)
             \/ \E v \in FsqItem, timed \in BOOLEAN : FsqCall(t, v, timed)

FsqSpec == FsqStart /\ [][FsqNext]_fsqVars

-----------------------------------------------------------------------------

FsqFifo == INSTANCE FifoQueue WITH Item <- FsqItem, sent <- fsqSent, received <- fsqReceived

(***************************************************************************)
(* The two mutexes are enough for the order: what is popped is what was    *)
(* pushed, once and in order, although Push and Pop overlap and each reads *)
(* the other's index as it moves (waitable_fsq.cpp:45-52, 76-83).  It is   *)
(* about the order only: a notification may be lost, and a Pop without a   *)
(* timeout then sleeps beside an item until the next Push.                 *)
(***************************************************************************)
FsqImplementsFifo == FsqFifo!FifoSpec
=============================================================================
