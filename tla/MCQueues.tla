------------------------------ MODULE MCQueues ------------------------------
(***************************************************************************)
(* The four queues between threads: the WaitableQueue of the framework,    *)
(* the waitable fixed-size queue of quizzes/ and the two lock-free queues  *)
(* of prepare_for_interview/circle_q.  One behaviour uses one of them.     *)
(***************************************************************************)
EXTENDS WaitableQueue, WaitableFsq, CircularQueue, MPMCQueue

VARIABLE inUse  \* the queue that is used

queuesVars == <<inUse, vars, fsqVars, cqVars, mpmcVars>>

QueuesInit == /\ inUse \in {"waitable", "fsq", "circular", "mpmc"}
              /\ Init /\ FsqStart /\ CqInit /\ MpmcStart
              /\ inUse # "fsq" => m_fsq[0] = CHOOSE v \in FsqItem : TRUE

QueuesNext ==
  /\ UNCHANGED inUse
  /\ \/ inUse = "waitable" /\ Next /\ UNCHANGED <<fsqVars, cqVars, mpmcVars>>
     \/ inUse = "fsq" /\ FsqNext /\ UNCHANGED <<vars, cqVars, mpmcVars>>
     \/ inUse = "circular" /\ CqNext /\ UNCHANGED <<vars, fsqVars, mpmcVars>>
     \/ inUse = "mpmc" /\ MpmcNext /\ UNCHANGED <<vars, fsqVars, cqVars>>

\* Fairness is WaitableQueue's; its steps are not enabled while another queue
\* is used.  The two threads of CircularQueue try again until they succeed.
QueuesSpec == /\ QueuesInit /\ [][QueuesNext]_queuesVars
              /\ Fairness
              /\ WF_cqVars(inUse = "circular" /\ CqProducerStep)
              /\ WF_cqVars(inUse = "circular" /\ CqConsumerStep)

(***************************************************************************)
(* Nobody waits for ever beside an item: a thread in WaitableQueue's Pop   *)
(* is served, and every item of CircularQueue comes through although both  *)
(* threads only look at each other's index.                                *)
(***************************************************************************)
ItemsArrive == WaiterServed /\ (inUse = "circular" => AllReceived)
=============================================================================
