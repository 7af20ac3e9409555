----------------------------- MODULE DirMonitor -----------------------------
(***************************************************************************)
(* The monitor of a directory, and the dispatcher it broadcasts its events *)
(* with.                                                                   *)
(***************************************************************************)
EXTENDS Naturals, Sequences, SequencesExt

-----------------------------------------------------------------------------
(***************************************************************************)
(* Dispatcher, CallbackBase and Callback (projects/dispatcher): a list of  *)
(* callbacks that Broadcast walks while observers, from inside Notify or   *)
(* from another thread, subscribe and die.  The list has no lock, and an   *)
(* iterator whose node is erased is dangling: using it is undefined, and   *)
(* nothing is said about what comes after.  A callback is subscribed once. *)
(***************************************************************************)

CONSTANT Callbacks

ASSUME CallbacksAssumption == Callbacks \cap {"end", "dangling"} = {}

VARIABLES m_subscribers, m_dispatcher,  \* the list; m_dispatcher[c]: not NULL
          callbacksAlive, dispatcherAlive,
          walk,        \* the loop in progress: "none", "broadcast" or "death"
          iter,        \* its iterator: a callback's node, End or Dangling
          inCallback,  \* the call through the iterator has not returned
          walkEvent,   \* the event that is broadcast
          broadcasts,  \* history: the events broadcast to the end
          since, seen, \* history: per callback, broadcasts it came too late for, events got
          undefined    \* a dangling iterator was used

dispatcherVars == <<m_subscribers, m_dispatcher, callbacksAlive, dispatcherAlive, walk,
                    iter, inCallback, walkEvent, broadcasts, since, seen, undefined>>

End == "end"
Dangling == "dangling"
NoEvent == "no event"

DispatcherStart ==
  /\ m_subscribers = <<>> /\ m_dispatcher = [c \in Callbacks |-> FALSE]
  /\ callbacksAlive = Callbacks /\ dispatcherAlive = TRUE
  /\ walk = "none" /\ iter = End /\ inCallback = FALSE /\ walkEvent = NoEvent
  /\ broadcasts = <<>> /\ undefined = FALSE
  /\ since = [c \in Callbacks |-> 0] /\ seen = [c \in Callbacks |-> <<>>]

Begin == IF m_subscribers = <<>> THEN End ELSE Head(m_subscribers)

Position(c) == CHOOSE k \in 1 .. Len(m_subscribers) : m_subscribers[k] = c

After(node) == LET i == Position(node)
               IN  IF i = Len(m_subscribers) THEN End ELSE m_subscribers[i + 1]

\* Mutant of Subscribe: the callback is put at the end of the list.
SubscribeBack(c) ==
  /\ dispatcherAlive /\ walk # "death" /\ c \in callbacksAlive /\ ~m_dispatcher[c]
  /\ m_dispatcher' = [m_dispatcher EXCEPT ![c] = TRUE]
  /\ m_subscribers' = Append(m_subscribers, c)
  /\ since' = [since EXCEPT ![c] = Len(broadcasts) + (IF walk = "broadcast" THEN 1 ELSE 0)]
  /\ UNCHANGED <<callbacksAlive, dispatcherAlive, walk, iter, inCallback, walkEvent,
                 broadcasts, seen, undefined>>

\* Not during the destructor's loop: such a callback would keep its pointer.
Subscribe(c) ==
  /\ dispatcherAlive /\ walk # "death" /\ c \in callbacksAlive /\ ~m_dispatcher[c]
  /\ m_dispatcher' = [m_dispatcher EXCEPT ![c] = TRUE]
  /\ m_subscribers' = <<c>> \o m_subscribers
  /\ since' = [since EXCEPT ![c] = Len(broadcasts) + (IF walk = "broadcast" THEN 1 ELSE 0)]
  /\ UNCHANGED <<callbacksAlive, dispatcherAlive, walk, iter, inCallback, walkEvent,
                 broadcasts, seen, undefined>>

\* CallbackBase's destructor, which unsubscribes: list::remove, which finds
\* one node, for a callback is subscribed once.
CallbackDeath(c) ==
  /\ c \in callbacksAlive /\ callbacksAlive' = callbacksAlive \ {c}
  /\ IF m_dispatcher[c]
     THEN /\ m_subscribers' = RemoveAt(m_subscribers, Position(c))
          /\ iter' = IF iter = c THEN Dangling ELSE iter
          /\ undefined' = (undefined \/ ~dispatcherAlive)
     ELSE UNCHANGED <<m_subscribers, iter, undefined>>
  /\ UNCHANGED <<m_dispatcher, dispatcherAlive, walk, inCallback, walkEvent, broadcasts,
                 since, seen>>

Broadcast(event) ==
  /\ walk = "none" /\ dispatcherAlive
  /\ walk' = "broadcast" /\ iter' = Begin /\ walkEvent' = event
  /\ UNCHANGED <<m_subscribers, m_dispatcher, callbacksAlive, dispatcherAlive, inCallback,
                 broadcasts, since, seen, undefined>>

\* The body of either loop up to the call through the iterator.
CallThroughIter ==
  /\ walk # "none" /\ ~inCallback /\ iter # End
  /\ IF iter = Dangling
     THEN undefined' = TRUE /\ UNCHANGED <<inCallback, seen>>
     ELSE /\ inCallback' = TRUE
          /\ seen' = IF walk = "broadcast" THEN [seen EXCEPT ![iter] = Append(@, walkEvent)]
                                           ELSE seen
          /\ UNCHANGED undefined
  /\ UNCHANGED <<m_subscribers, m_dispatcher, callbacksAlive, dispatcherAlive, walk, iter,
                 walkEvent, broadcasts, since>>

\* Broadcast goes on, or leaves its loop when no callback is left.
NotifyReturns ==
  /\ walk = "broadcast" /\ inCallback /\ inCallback' = FALSE
  /\ iter' = IF m_subscribers = <<>> THEN End ELSE IF iter = Dangling THEN iter ELSE After(iter)
  /\ undefined' = (iter = Dangling /\ m_subscribers # <<>>)
  /\ UNCHANGED <<m_subscribers, m_dispatcher, callbacksAlive, dispatcherAlive, walk,
                 walkEvent, broadcasts, since, seen>>

BroadcastEnds ==
  /\ walk = "broadcast" /\ ~inCallback /\ iter = End
  /\ walk' = "none" /\ broadcasts' = Append(broadcasts, walkEvent) /\ walkEvent' = NoEvent
  /\ UNCHANGED <<m_subscribers, m_dispatcher, callbacksAlive, dispatcherAlive, iter,
                 inCallback, since, seen, undefined>>

\* The destructor's loop.
DispatcherDestroy ==
  /\ walk = "none" /\ dispatcherAlive /\ walk' = "death" /\ iter' = Begin
  /\ UNCHANGED <<m_subscribers, m_dispatcher, callbacksAlive, dispatcherAlive, inCallback,
                 walkEvent, broadcasts, since, seen, undefined>>

DeathReturns ==
  /\ walk = "death" /\ inCallback /\ inCallback' = FALSE
  /\ IF iter = Dangling THEN undefined' = TRUE /\ UNCHANGED <<m_dispatcher, iter>>
     ELSE /\ m_dispatcher' = [m_dispatcher EXCEPT ![iter] = FALSE]
          /\ iter' = After(iter) /\ UNCHANGED undefined
  /\ UNCHANGED <<m_subscribers, callbacksAlive, dispatcherAlive, walk, walkEvent,
                 broadcasts, since, seen>>

DispatcherDestroyed ==
  /\ walk = "death" /\ ~inCallback /\ iter = End
  /\ walk' = "none" /\ dispatcherAlive' = FALSE /\ m_subscribers' = <<>>
  /\ UNCHANGED <<m_dispatcher, callbacksAlive, iter, inCallback, walkEvent, broadcasts,
                 since, seen, undefined>>

\* The steps of the thread that is in Broadcast, or in the destructor.
WalkStep == \/ CallThroughIter \/ NotifyReturns \/ BroadcastEnds
            \/ DeathReturns \/ DispatcherDestroyed

-----------------------------------------------------------------------------

(***************************************************************************)
(* Whoever subscribes and dies meanwhile, a callback gets each event whose *)
(* Broadcast began after it was subscribed once and in order, and none     *)
(* from before; nobody Broadcast could call is dead, and no callback that  *)
(* outlives the dispatcher points to it.  This ends where the code does:   *)
(* when the iterator's node is erased (dispatcher_callback_impl.hpp:109).  *)
(***************************************************************************)
EveryEventOnce ==
  ~undefined =>
    /\ \A i \in 1 .. Len(m_subscribers) :
         LET c == m_subscribers[i]
             due == SubSeq(broadcasts, since[c] + 1, Len(broadcasts))
         IN  /\ c \in callbacksAlive \/ walk = "death"
             /\ \/ seen[c] = due
                \/ walk = "broadcast" /\ since[c] <= Len(broadcasts)
                   /\ seen[c] = Append(due, walkEvent)
    /\ \A c \in callbacksAlive : m_dispatcher[c] => dispatcherAlive

-----------------------------------------------------------------------------
(***************************************************************************)
(* DirMonitor and DllLoader (projects/dir_monitor): a thread reads inotify *)
(* events of a directory and broadcasts them; StopMonitor clears a flag,   *)
(* wakes the thread by making and removing a file, joins it and destroys   *)
(* the dispatcher.  The callbacks are the DllLoaders'.                     *)
(***************************************************************************)

CONSTANT DirChanges  \* bound: changes of the directory by others

VARIABLES m_to_run_monitor,
          dirQueue,     \* inotify's queue: the masks of the events
          dirBuffer,    \* the events of the last read still to be broadcast
          dirMonitor,   \* where the monitor's thread is
          dirStopper,   \* where StopMonitor is
          dirChanged    \* changes so far, for the bound

dirVars == <<dispatcherVars, m_to_run_monitor, dirQueue, dirBuffer, dirMonitor, dirStopper,
             dirChanged>>

\* InitMonitor makes the dispatcher before the thread.
DirMonitorStart ==
  /\ DispatcherStart
  /\ m_to_run_monitor = TRUE /\ dirQueue = <<>> /\ dirBuffer = <<>>
  /\ dirMonitor = "test" /\ dirStopper = "running" /\ dirChanged = 0

Masks == {"MODIFY", "DELETE", "MOVED_FROM", "CREATE", "MOVED_TO"}

TranslateINotifyToEvent(mask) == CASE mask = "MODIFY" -> "MODIFIED"
                                   [] mask \in {"DELETE", "MOVED_FROM"} -> "REMOVE"
                                   [] mask \in {"CREATE", "MOVED_TO"} -> "ADD"

DirChange(mask) ==
  /\ dirChanged < DirChanges /\ dirChanged' = dirChanged + 1
  /\ dirQueue' = Append(dirQueue, mask)
  /\ UNCHANGED <<dispatcherVars, m_to_run_monitor, dirBuffer, dirMonitor, dirStopper>>

MonitorTest ==
  /\ dirMonitor = "test"
  /\ dirMonitor' = IF m_to_run_monitor THEN "read" ELSE "done"
  /\ UNCHANGED <<dispatcherVars, m_to_run_monitor, dirQueue, dirBuffer, dirStopper, dirChanged>>

MonitorRead ==
  /\ dirMonitor = "read" /\ dirQueue # <<>>
  /\ dirBuffer' = dirQueue /\ dirQueue' = <<>> /\ dirMonitor' = "events"
  /\ UNCHANGED <<dispatcherVars, m_to_run_monitor, dirStopper, dirChanged>>

\* read fails: the thread closes the monitor and throws, and nobody catches.
MonitorReadFails ==
  /\ dirMonitor = "read" /\ dirMonitor' = "terminated"
  /\ UNCHANGED <<dispatcherVars, m_to_run_monitor, dirQueue, dirBuffer, dirStopper, dirChanged>>

MonitorEvent ==
  /\ dirMonitor = "events" /\ walk = "none"
  /\ IF dirBuffer = <<>> \/ ~m_to_run_monitor
     THEN dirMonitor' = "test" /\ dirBuffer' = <<>> /\ UNCHANGED dispatcherVars
     ELSE /\ Broadcast(TranslateINotifyToEvent(Head(dirBuffer)))
          /\ dirBuffer' = Tail(dirBuffer) /\ UNCHANGED dirMonitor
  /\ UNCHANGED <<m_to_run_monitor, dirQueue, dirStopper, dirChanged>>

\* Mutant of StopMonitor: the flag is cleared after the file was made and removed.
StopMonitorLate ==
  /\ \/ /\ dirStopper = "running" /\ dirStopper' = "flagged"
        /\ dirQueue' = Append(dirQueue, "CREATE") /\ UNCHANGED m_to_run_monitor
     \/ /\ dirStopper = "flagged" /\ dirStopper' = "created"
        /\ dirQueue' = Append(dirQueue, "DELETE") /\ UNCHANGED m_to_run_monitor
     \/ /\ dirStopper = "created" /\ dirStopper' = "removed"
        /\ m_to_run_monitor' = FALSE /\ UNCHANGED dirQueue
  /\ UNCHANGED <<dispatcherVars, dirBuffer, dirMonitor, dirChanged>>

\* StopMonitor up to the join: the flag, the file and its removal.
StopMonitor ==
  /\ \/ /\ dirStopper = "running" /\ dirStopper' = "flagged"
        /\ m_to_run_monitor' = FALSE /\ UNCHANGED dirQueue
     \/ /\ dirStopper = "flagged" /\ dirStopper' = "created"
        /\ dirQueue' = Append(dirQueue, "CREATE") /\ UNCHANGED m_to_run_monitor
     \/ /\ dirStopper = "created" /\ dirStopper' = "removed"
        /\ dirQueue' = Append(dirQueue, "DELETE") /\ UNCHANGED m_to_run_monitor
  /\ UNCHANGED <<dispatcherVars, dirBuffer, dirMonitor, dirChanged>>

StopJoin == /\ dirStopper = "removed" /\ dirMonitor = "done"
            /\ dirStopper' = "joined" /\ DispatcherDestroy
            /\ UNCHANGED <<m_to_run_monitor, dirQueue, dirBuffer, dirMonitor, dirChanged>>

DirWalk == /\ WalkStep
           /\ UNCHANGED <<m_to_run_monitor, dirQueue, dirBuffer, dirMonitor, dirStopper, dirChanged>>

\* A DllLoader subscribes when it is made and deletes its callback at its end.
DllLoaderCalls(c) ==
  /\ Subscribe(c) \/ CallbackDeath(c)
  /\ UNCHANGED <<m_to_run_monitor, dirQueue, dirBuffer, dirMonitor, dirStopper, dirChanged>>

DirGoesOn == ~undefined /\ dirMonitor # "terminated"

MonitorStep == DirGoesOn /\ (MonitorTest \/ MonitorRead \/ MonitorEvent \/ DirWalk)
StopStep == DirGoesOn /\ ((dirStopper # "running" /\ StopMonitor) \/ StopJoin)

DirMonitorNext ==
  \/ MonitorStep \/ StopStep
  \/ DirGoesOn /\ (\/ MonitorReadFails \/ StopMonitor
                   \/ \E mask \in Masks : DirChange(mask)
                   \/ \E c \in Callbacks : DllLoaderCalls(c))

DirMonitorSpec == DirMonitorStart /\ [][DirMonitorNext]_dirVars

-----------------------------------------------------------------------------

(***************************************************************************)
(* StopMonitor returns once it waits: the thread that has tested the flag  *)
(* before it was cleared finds the event of the file it is woken by,       *)
(* however the file's two events and other ones are read together          *)
(* (dir_monitor.cpp:122-130).                                              *)
(***************************************************************************)
StopMonitorWaits == dirStopper = "flagged"
StopMonitorReturned == ~dispatcherAlive \/ ~DirGoesOn
=============================================================================
