------------------------------ MODULE Mediator ------------------------------
(***************************************************************************)
(* Mediator (infinity/projects/mediator): it owns a Reactor, runs it in a  *)
(* thread of its own that the constructor starts, and registers proxies    *)
(* from the framework's thread while that thread is in Reactor::Run.  A    *)
(* ready descriptor becomes a task of the ThreadPool.                      *)
(*                                                                         *)
(* Neither class locks anything.  The reactor's thread takes the steps of  *)
(* the module Reactor, with select split in two: it waits on a copy of the *)
(* sets.  The framework's thread changes the same containers one statement *)
(* at a time, and a lookup of the other thread that meets a container in   *)
(* the middle of a change may go wrong.  Nothing is typed on STDIN, which  *)
(* the reactor watches without a handler.                                  *)
(***************************************************************************)
EXTENDS Reactor

CONSTANT MaxRequests \* bound: requests that arrive on all descriptors

ASSUME MediatorAssumption == Always = {} /\ MaxRequests \in Nat

VARIABLES m_proxy_map, \* descriptors that have a proxy
          owner,       \* the framework's thread: its statement and descriptor
          started,     \* the reactor's thread has entered Run
          select_sets, \* the copies select waits on; {} outside select
          parsing,     \* the handler has found its proxy and is in ParseData
          waiting,     \* waiting[fd]: requests to read on fd
          arrived,     \* requests that have arrived so far
          tasks,       \* requests handed to the pool
          touched      \* history: descriptors registered or unregistered since
                       \* the sets were copied, the call under way included

mediatorVars == <<m_proxy_map, owner, started, select_sets, parsing, waiting, arrived,
                  tasks, touched>>
allVars == <<vars, mediatorVars>>

Peers == Fd \ {STDIN}
Read(fd) == <<fd, "READ">>
Owner(pc, fd) == [pc |-> pc, fd |-> fd]
OwnerIdle == Owner("idle", STDIN)

MInit == /\ Init
         /\ m_proxy_map = {} /\ owner = OwnerIdle /\ started = FALSE
         /\ select_sets = {} /\ parsing = FALSE
         /\ waiting = [fd \in Peers |-> 0] /\ arrived = 0 /\ tasks = 0
         /\ touched = {}

reactorUnchanged == UNCHANGED <<m_stop_flag, ready_fd, at, taken, started, select_sets,
                                parsing>>
requestsUnchanged == UNCHANGED <<waiting, arrived, tasks>>
restUnchanged == reactorUnchanged /\ requestsUnchanged

-----------------------------------------------------------------------------
(* The framework's thread *)

BeginCall(pc, fd) == /\ owner.pc = "idle" /\ calls < MaxCalls /\ calls' = calls + 1
                     /\ owner' = Owner(pc, fd)
                     /\ touched' = touched \cup {fd}
                     /\ restUnchanged /\ UNCHANGED <<m_map, master, m_max_fd, m_proxy_map>>

RegisterProxy(fd) == BeginCall("addproxy", fd)

\* The proxy that ParseData runs on is freed with the last pointer to it.
FreeProxy == \/ restUnchanged
             \/ /\ parsing /\ Back[1] = owner.fd
                /\ at' = "undefined"
                /\ requestsUnchanged
                /\ UNCHANGED <<m_stop_flag, ready_fd, taken, started, select_sets, parsing>>

\* RegisterProxy overwrites; then Reactor::Add, statement by statement.
RegisterInsert == /\ owner.pc = "addproxy"
                  /\ m_proxy_map' = m_proxy_map \cup {owner.fd}
                  /\ owner' = Owner("addfd", owner.fd)
                  /\ FreeProxy /\ UNCHANGED <<m_map, master, m_max_fd, calls, touched>>

\* Mutant of RegisterAddFd: select's bound is not raised.
RegisterNoMax == /\ owner.pc = "addfd"
                 /\ master' = master \cup {Read(owner.fd)}
                 /\ owner' = Owner("addmap", owner.fd)
                 /\ restUnchanged
                 /\ UNCHANGED <<m_map, m_max_fd, calls, m_proxy_map, touched>>

\* One step: a copy taken before the bound is raised has a bit too many, which
\* select clears as it does the whole words up to the old bound (fd below 64).
RegisterAddFd == /\ owner.pc = "addfd"
                 /\ AddFd(Read(owner.fd))
                 /\ owner' = Owner("addmap", owner.fd)
                 /\ restUnchanged /\ UNCHANGED <<m_map, calls, m_proxy_map, touched>>

RegisterMap == /\ owner.pc = "addmap"
               /\ m_map' = m_map \cup {Read(owner.fd)}
               /\ owner' = OwnerIdle
               /\ restUnchanged /\ UNCHANGED <<master, m_max_fd, calls, m_proxy_map, touched>>

\* UnRegisterProxy: at() throws when there is no proxy, else Reactor::Remove.
UnRegisterProxy(fd) == fd \in m_proxy_map /\ BeginCall("rmproxy", fd)

\* Mutant of UnRegisterErase: the reactor is not told.
UnRegisterEraseOnly == /\ owner.pc = "rmproxy"
                       /\ m_proxy_map' = m_proxy_map \ {owner.fd}
                       /\ owner' = OwnerIdle
                       /\ FreeProxy /\ UNCHANGED <<m_map, master, m_max_fd, calls, touched>>

UnRegisterErase == /\ owner.pc = "rmproxy"
                   /\ m_proxy_map' = m_proxy_map \ {owner.fd}
                   /\ owner' = Owner("clrfd", owner.fd)
                   /\ FreeProxy /\ UNCHANGED <<m_map, master, m_max_fd, calls, touched>>

\* Mutant of UnRegisterClrFd: the descriptor goes on being watched.
UnRegisterNoClr == /\ owner.pc = "clrfd"
                   /\ owner' = Owner("erase", owner.fd)
                   /\ restUnchanged
                   /\ UNCHANGED <<m_map, master, m_max_fd, calls, m_proxy_map, touched>>

UnRegisterClrFd == /\ owner.pc = "clrfd"
                   /\ RemoveFd(Read(owner.fd))
                   /\ owner' = Owner("erase", owner.fd)
                   /\ restUnchanged /\ UNCHANGED <<m_map, calls, m_proxy_map, touched>>

UnRegisterMap == /\ owner.pc = "erase"
                 /\ m_map' = m_map \ {Read(owner.fd)}
                 /\ owner' = OwnerIdle
                 /\ restUnchanged
                 /\ UNCHANGED <<master, m_max_fd, calls, m_proxy_map, touched>>

\* ~Mediator: Stop, then join.
Destroy == /\ owner.pc = "idle"
           /\ m_stop_flag' = TRUE
           /\ owner' = Owner("join", STDIN)
           /\ requestsUnchanged
           /\ UNCHANGED <<m_map, master, m_max_fd, ready_fd, at, calls, taken, m_proxy_map,
                          started, select_sets, parsing, touched>>

Join == /\ owner.pc = "join" /\ started /\ at = "outside"
        /\ owner' = Owner("destroyed", STDIN)
        /\ restUnchanged /\ UNCHANGED <<m_map, master, m_max_fd, calls, m_proxy_map, touched>>

OwnerStep == \/ RegisterInsert \/ RegisterAddFd \/ RegisterMap
             \/ UnRegisterErase \/ UnRegisterClrFd \/ UnRegisterMap \/ Join

-----------------------------------------------------------------------------
(* The reactor's thread *)

ownerUnchanged == UNCHANGED <<m_proxy_map, owner, started>>

StartRun == /\ ~started /\ started' = TRUE
            /\ EnterRun /\ requestsUnchanged
            /\ UNCHANGED <<calls, m_proxy_map, owner, select_sets, parsing, touched>>

\* The test of the flag and RunFd's copies, which are never empty: STDIN is there.
CopySets == /\ started /\ at = "loop" /\ ~m_stop_flag /\ select_sets = {}
            /\ select_sets' = Watched
            /\ touched' = {owner.fd} \ {STDIN}
            /\ ownerUnchanged /\ requestsUnchanged /\ UNCHANGED <<vars, parsing>>

Readable == {r \in select_sets : r[1] \in Peers /\ waiting[r[1]] > 0}

\* select waits on the copies, whatever is registered and removed meanwhile,
\* until one of their descriptors can be read or five seconds are over.
LoopSelect == /\ select_sets # {} /\ select_sets' = {}
              /\ \/ TakeBatch(Readable)
                 \/ Readable = {} /\ UNCHANGED vars
              /\ ownerUnchanged /\ requestsUnchanged /\ UNCHANGED <<parsing, touched>>

\* A lookup in m_map, or in m_proxy_map, meets it in the middle of a change;
\* the assignment to a value that is there disturbs only that value.
HandlersTorn == \/ owner.pc = "erase"
                \/ owner.pc = "addmap" /\ (owner.fd = Back[1] \/ Read(owner.fd) \notin m_map)
ProxiesTorn == \/ owner.pc = "rmproxy"
               \/ owner.pc = "addproxy" /\ (owner.fd = Back[1] \/ owner.fd \notin m_proxy_map)

DispatchTorn == /\ at = "batch" /\ ready_fd # {} /\ HandlersTorn
                /\ at' \in {"undefined"} \cup (IF owner.fd = Back[1] THEN {"handler"} ELSE {})
                /\ UNCHANGED <<m_map, master, m_max_fd, m_stop_flag, ready_fd, calls, taken>>

LoopOther == /\ started
             /\ \/ LoopEnd /\ select_sets = {}
                \/ Dispatch \/ DispatchTorn \/ BatchEnd
             /\ UNCHANGED mediatorVars

\* GetCmdData looks the proxy up with operator[], which makes an empty one if
\* there is none, and calls it.
GetCmdData == /\ at = "handler" /\ ~parsing
              /\ \/ /\ Back[1] \in m_proxy_map \/ (ProxiesTorn /\ owner.fd = Back[1])
                    /\ parsing' = TRUE /\ UNCHANGED at
                 \/ /\ Back[1] \notin m_proxy_map \/ ProxiesTorn
                    /\ at' = "undefined" /\ UNCHANGED parsing
              /\ ownerUnchanged /\ requestsUnchanged
              /\ UNCHANGED <<m_map, master, m_max_fd, m_stop_flag, ready_fd, calls, taken,
                             select_sets, touched>>

Pop == /\ at = "handler" /\ parsing /\ parsing' = FALSE
       /\ HandlerReturn
       /\ ownerUnchanged /\ UNCHANGED <<arrived, select_sets, touched>>

\* Mutant of GetTaskAddToPool: two requests become one task.
GetAllAddOne == Pop /\ waiting' = [waiting EXCEPT ![Back[1]] = 0] /\ tasks' = tasks + 1

\* ParseData reads a request, the task made of it is added to the pool, and
\* Run pops the entry.
GetTaskAddToPool == Pop /\ waiting' = [waiting EXCEPT ![Back[1]] = @ - 1] /\ tasks' = tasks + 1

ReactorStep == StartRun \/ CopySets \/ LoopSelect \/ LoopOther \/ GetCmdData \/ GetTaskAddToPool

-----------------------------------------------------------------------------
(* The peers *)

Registered(fd) == fd \in m_proxy_map /\ Read(fd) \in m_map

\* A peer may send whether or not anybody listens.
Arrive(fd) == /\ arrived < MaxRequests
              /\ arrived' = arrived + 1
              /\ waiting' = [waiting EXCEPT ![fd] = @ + 1]
              /\ UNCHANGED <<vars, m_proxy_map, owner, started, select_sets, parsing, tasks,
                             touched>>

\* Once a thread is undefined there is no next statement to speak of.
MNext == /\ at # "undefined"
         /\ \/ OwnerStep \/ ReactorStep \/ Destroy
            \/ \E fd \in Peers : RegisterProxy(fd) \/ UnRegisterProxy(fd) \/ Arrive(fd)

\* Both threads run on; select reports a descriptor that can be read, or times out.
MSpec == /\ MInit /\ [][MNext]_allVars
         /\ WF_allVars(at # "undefined" /\ OwnerStep)
         /\ WF_allVars(at # "undefined" /\ ReactorStep)

-----------------------------------------------------------------------------

(* The mediator's variables are of their types, the reactor's included. *)
MTypeOK == /\ TypeOK
           /\ m_proxy_map \subseteq Peers
           /\ owner.pc \in {"idle", "addproxy", "addfd", "addmap", "rmproxy", "clrfd",
                            "erase", "join", "destroyed"}
           /\ select_sets \subseteq Registration /\ parsing \in BOOLEAN
           /\ waiting \in [Peers -> 0 .. MaxRequests]
           /\ arrived \in 0 .. MaxRequests /\ tasks \in 0 .. MaxRequests
           /\ touched \subseteq Peers

(***************************************************************************)
(* The reactor's thread calls a missing handler, or a missing or a freed   *)
(* proxy, for two reasons only: its own descriptor has been registered or  *)
(* unregistered since select's sets were copied, or its lookup has met a   *)
(* map that the other thread was changing (mediator.cpp:31, 42, 58;        *)
(* reactor.cpp:19, 28, 44).  A batch, however old, holds no other entry    *)
(* without a handler, and no proxy goes while another descriptor's call    *)
(* changes three containers one after the other.                           *)
(***************************************************************************)
NoMissingHandler ==
  [][at # "undefined" /\ at' = "undefined" =>
       \/ Back[1] \in touched
       \/ at = "batch" /\ HandlersTorn
       \/ at = "handler" /\ ProxiesTorn]_allVars

(***************************************************************************)
(* Between two calls the proxies, the handlers and the watched descriptors *)
(* are the same, whatever the peers do.                                    *)
(***************************************************************************)
MapsAgree == owner.pc = "idle" => /\ m_map = {Read(fd) : fd \in m_proxy_map}
                                  /\ master = m_map \cup {Read(STDIN)}

(* Each request becomes one task: none is lost in a batch, none doubled. *)
RequestsConserved ==
  (\A fd \in Peers : waiting[fd] = 0) => tasks = arrived

(***************************************************************************)
(* A request that waits on a registered descriptor becomes a task, though  *)
(* the descriptor may have been added during a select that does not look   *)
(* at it, and others are registered, removed and served meanwhile; unless  *)
(* the descriptor is unregistered, the mediator destroyed, or a call of a  *)
(* missing handler ends everything (NoMissingHandler).                     *)
(***************************************************************************)
RequestServed ==
  \A fd \in Peers :
     (waiting[fd] > 0 /\ Registered(fd)) ~>
        (\/ waiting[fd] = 0 \/ fd \notin m_proxy_map
         \/ owner.pc \in {"join", "destroyed"} \/ at = "undefined")

(***************************************************************************)
(* Reactor::Run blocks "until all FD's are removed or Stop() called"       *)
(* (reactor.hpp:31), and the destructor, which calls Stop and joins,       *)
(* returns.  A call of a missing handler is not held against it.           *)
(***************************************************************************)
DestructorReturns == (owner.pc = "join") ~> (owner.pc = "destroyed" \/ at = "undefined")
=============================================================================
