------------------------------ MODULE Reactor ------------------------------
(***************************************************************************)
(* Reactor and its Select_Listener (infinity/projects/reactor): one thread *)
(* registers handlers, runs the loop over select, and the handlers call    *)
(* Add, Remove and Stop from inside the loop.                              *)
(*                                                                         *)
(* A registration is a pair <<fd, mode>>.  The three fd_sets of the        *)
(* listener are one set of such pairs; a handler is left out, only whether *)
(* m_map has one matters.  Run's vector of ready registrations holds one   *)
(* entry for a descriptor, in ascending order, and is consumed from its    *)
(* end: it is a set whose entry of the largest descriptor is next.         *)
(***************************************************************************)
EXTENDS Naturals

CONSTANTS MaxFd,     \* file descriptors are 0 .. MaxFd
          Always,    \* registrations whose descriptor is always ready
          MaxCalls   \* bound: calls of Add, Remove and Run

STDIN == 0
Fd == 0 .. MaxFd
Mode == {"READ", "WRITE", "EXCEPTION"}
Registration == Fd \X Mode

ASSUME ReactorAssumption == /\ MaxFd \in Nat /\ MaxCalls \in Nat
                            /\ Always \subseteq Registration

VARIABLES m_map,        \* registrations that have a handler
          master,       \* registrations in the master fd_sets
          m_max_fd,
          m_stop_flag,
          ready_fd,     \* Run's batch of ready registrations
          at,           \* where the reactor's thread is
          calls,        \* calls made so far, for the bound
          taken         \* history: what handlers have removed from under the
                        \* batch, other than their own, and not added again

vars == <<m_map, master, m_max_fd, m_stop_flag, ready_fd, at, calls, taken>>

\* STDIN is watched from the start, without a handler.
Init == /\ m_map = {}
        /\ master = {<<STDIN, "READ">>}
        /\ m_max_fd = 0
        /\ m_stop_flag = FALSE
        /\ ready_fd = {}
        /\ at = "outside"
        /\ calls = 0
        /\ taken = {}

\* ready_fd.back()
Back == CHOOSE r \in ready_fd : \A s \in ready_fd : s[1] <= r[1]

\* Callers: code outside Run, and the handler Run has called.
Calling == at \in {"outside", "handler"}
Running == at \in {"loop", "batch", "handler"}

Call == /\ Calling
        /\ calls < MaxCalls
        /\ calls' = calls + 1

\* AddFd and RemoveFd of the listener.
AddFd(r) == /\ master' = master \cup {r}
            /\ m_max_fd' = IF r[1] > m_max_fd THEN r[1] ELSE m_max_fd

RemoveFd(r) == master' = master \ {r} /\ UNCHANGED m_max_fd

Add(r) == /\ Call
          /\ AddFd(r)
          /\ m_map' = m_map \cup {r}
          /\ taken' = taken \ {r}
          /\ UNCHANGED <<m_stop_flag, ready_fd, at>>

Took(r) == taken' = IF at = "handler" /\ r # Back THEN taken \cup {r} ELSE taken

\* Mutant of Remove: the descriptor stays in the master set.
RemoveNoClear(r) == /\ Call
                    /\ r \in m_map
                    /\ m_map' = m_map \ {r} /\ Took(r)
                    /\ UNCHANGED <<master, m_max_fd, m_stop_flag, ready_fd, at>>

(***************************************************************************)
(* Remove clears the fd_set and then looks the handler up with at(), which *)
(* throws when there is none: the exception leaves the handler and Run,    *)
(* and the batch is destroyed with Run's frame.                            *)
(***************************************************************************)
Remove(r) == /\ Call
             /\ RemoveFd(r)
             /\ \/ /\ r \in m_map
                   /\ m_map' = m_map \ {r} /\ Took(r)
                   /\ UNCHANGED <<ready_fd, at>>
                \/ /\ r \notin m_map
                   /\ at' = "outside" /\ ready_fd' = {}
                   /\ UNCHANGED <<m_map, taken>>
             /\ UNCHANGED m_stop_flag

Stop == /\ Calling
        /\ m_stop_flag' = TRUE
        /\ UNCHANGED <<m_map, master, m_max_fd, ready_fd, at, calls, taken>>

\* Run: it clears the flag before its first test of it.
EnterRun == /\ at = "outside"
            /\ m_stop_flag' = FALSE
            /\ at' = "loop"
            /\ UNCHANGED <<m_map, master, m_max_fd, ready_fd, taken>>

Run == EnterRun /\ calls < MaxCalls /\ calls' = calls + 1

\* What select can see, and what it must report when it succeeds.
Watched == {r \in master : r[1] <= m_max_fd}

\* Of one descriptor the first ready mode only, in the order of the else-ifs.
Batched(ready, fd) ==
  LET ready_modes == {m \in Mode : <<fd, m>> \in ready}
  IN  IF "READ" \in ready_modes THEN {<<fd, "READ">>}
      ELSE IF "WRITE" \in ready_modes THEN {<<fd, "WRITE">>}
      ELSE {<<fd, m>> : m \in ready_modes}

\* Mutant of Batch: only the last ready descriptor is kept.
BatchOfOne(ready) == UNION {Batched(ready, fd) :
                            fd \in {f \in Fd : \A r \in ready : r[1] <= f}}

Batch(ready) == UNION {Batched(ready, fd) : fd \in Fd}

TakeBatch(ready) == /\ at = "loop" /\ ready # {}
                    /\ ready_fd' = Batch(ready) /\ taken' = {}
                    /\ at' = "batch"
                    /\ UNCHANGED <<m_map, master, m_max_fd, m_stop_flag, calls>>

\* RunFd when select reports ready; nobody else runs meanwhile.  When it times
\* out or fails the batch stays empty and nothing changes.
Select(ready) == ~m_stop_flag /\ TakeBatch(ready)

RunFd == \E ready \in SUBSET Watched : Always \cap Watched \subseteq ready /\ Select(ready)

\* Mutant of LoopEnd: Stop is honoured only when nothing is registered.
LoopEndIfEmpty == /\ at = "loop" /\ m_stop_flag /\ m_map = {}
                  /\ at' = "outside"
                  /\ UNCHANGED <<m_map, master, m_max_fd, m_stop_flag, ready_fd, calls, taken>>

LoopEnd == /\ at = "loop" /\ m_stop_flag
           /\ at' = "outside"
           /\ UNCHANGED <<m_map, master, m_max_fd, m_stop_flag, ready_fd, calls, taken>>

\* Mutant of Dispatch: it takes the front of the batch, HandlerReturn its back.
DispatchFront == /\ at = "batch" /\ ready_fd # {}
                 /\ \E r \in ready_fd :
                       /\ \A s \in ready_fd : r[1] <= s[1]
                       /\ at' = IF r \in m_map THEN "handler" ELSE "undefined"
                 /\ UNCHANGED <<m_map, master, m_max_fd, m_stop_flag, ready_fd, calls, taken>>

\* The last of the batch first; find() is dereferenced without a test.
Dispatch == /\ at = "batch" /\ ready_fd # {}
            /\ at' = IF Back \in m_map THEN "handler" ELSE "undefined"
            /\ UNCHANGED <<m_map, master, m_max_fd, m_stop_flag, ready_fd, calls, taken>>

HandlerReturn == /\ at = "handler"
                 /\ ready_fd' = ready_fd \ {Back}
                 /\ at' = "batch"
                 /\ UNCHANGED <<m_map, master, m_max_fd, m_stop_flag, calls, taken>>

BatchEnd == /\ at = "batch" /\ ready_fd = {}
            /\ at' = "loop"
            /\ UNCHANGED <<m_map, master, m_max_fd, m_stop_flag, ready_fd, calls, taken>>

LoopStep == RunFd \/ LoopEnd \/ Dispatch \/ HandlerReturn \/ BatchEnd

Next == \/ Run \/ Stop \/ LoopStep
        \/ \E r \in Registration : Add(r) \/ Remove(r)

(***************************************************************************)
(* The loop goes on, handlers return, and select does not fail for ever:   *)
(* it reports a descriptor that is always ready.  Nothing obliges a        *)
(* descriptor that is not to become ready.                                 *)
(***************************************************************************)
Fairness == /\ WF_vars(LoopEnd \/ Dispatch \/ HandlerReturn \/ BatchEnd)
            /\ WF_vars(RunFd /\ Always \cap Watched # {})

Spec == Init /\ [][Next]_vars /\ Fairness

-----------------------------------------------------------------------------

(* The reactor's variables are of their types. *)
TypeOK == /\ m_map \subseteq Registration
          /\ master \subseteq Registration
          /\ m_max_fd \in Fd
          /\ m_stop_flag \in BOOLEAN
          /\ ready_fd \subseteq Registration
          /\ at \in {"outside", "loop", "batch", "handler", "undefined"}
          /\ calls \in 0 .. MaxCalls
          /\ taken \subseteq Registration

(***************************************************************************)
(* The map of handlers and the sets given to select agree: every handler's *)
(* descriptor is watched and within select's bound, and nothing but STDIN  *)
(* is watched without a handler.  An exception thrown by Remove, and calls *)
(* from inside a batch, must not separate the two.                         *)
(***************************************************************************)
MapMatchesSets == /\ m_map \subseteq Watched
                  /\ master \subseteq m_map \cup {<<STDIN, "READ">>}

(***************************************************************************)
(* Every entry of the batch still has its handler when its turn comes,     *)
(* although the batch was taken before the handlers ran and they add,      *)
(* remove and throw meanwhile.  Run goes through map::end()                *)
(* (reactor.cpp:44) for two reasons only: STDIN, which is watched without  *)
(* a handler, and a handler that removed the registration of another one   *)
(* of the batch, which nothing forbids.                                    *)
(***************************************************************************)
Missing(r) == r = <<STDIN, "READ">> \/ r \in taken

BatchHasHandlers ==
  /\ at \in {"batch", "handler"} =>
       \A r \in ready_fd : \/ r \in m_map \/ Missing(r)
                           \/ at = "handler" /\ r = Back
  /\ at = "undefined" => Missing(Back)

(* Stop, called by a handler, ends Run once the batch is dispatched. *)
StopEndsRun == (Running /\ m_stop_flag) ~> ~Running

(***************************************************************************)
(* A handler whose descriptor is always ready to read is called again and  *)
(* again: batches and other handlers do not starve it.                     *)
(***************************************************************************)
Called(r) == at = "handler" /\ Back = r

ReadyReadIsCalled ==
  \A r \in Always : r[2] = "READ" =>
     ((Running /\ r \in m_map) ~> (Called(r) \/ ~Running \/ r \notin m_map))
=============================================================================
