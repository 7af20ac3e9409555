----------------------------- MODULE MCServices -----------------------------
(***************************************************************************)
(* The services of projects/ beside the framework's core, the DHCP server  *)
(* of ds/, and the programs of system_programming/ in which threads or     *)
(* processes share something.  None of them shares state with another that *)
(* is modelled, so a behaviour drives one of them and leaves the others at *)
(* rest.                                                                   *)
(***************************************************************************)
EXTENDS NbdProxy, DirMonitor, Logger, Dhcp, ProdCons, PingPong, ThreadExercises, NetGames

\* One client with two pings, so that an answer to the first may be taken for
\* one to the second; the others ping once.
MCPings == [c \in TcpClients \cup UdpClients |->
              IF c = CHOOSE t \in TcpClients : TRUE THEN 2 ELSE 1]

VARIABLE service  \* the one that is driven

serviceVars == <<service, nbdVars, dirVars, loggerVars, singletonVars, dhcpVars, pcVars,
                 handVars, barrierVars, stVars, ppVars, playVars, pipeVars, threadVars, netVars>>

Init == /\ service \in {"nbd", "monitor", "logger", "singleton", "dhcp", "producers",
                        "hand", "barrier", "sorting", "select", "signals", "pipes",
                        "threads", "net"}
        /\ SingletonStart /\ (service # "singleton" => sgKind = "Singleton")
        /\ ProdConsStart /\ (service # "producers" => exercise = "ex2_1")
        /\ StStart /\ (service # "sorting" => stProgram = "mt_c_sort")
        /\ PlayStart /\ (service # "signals" => ppgProgram = "ex1")
        /\ NamedPipesStart /\ (service # "pipes" => npPipe.named)
        /\ ThreadsStart /\ (service # "threads" => teProgram = <<"ex1", 0>>)
        /\ NetStart /\ (service # "net" => netProgram = "tcp")
        /\ NbdStart /\ DirMonitorStart /\ LoggerStart /\ DhcpInit /\ HandStart /\ BarrierStart
        /\ PpStart

\* A step of service s: the others stay as they are.
Only(s) == /\ service = s /\ UNCHANGED service
           /\ s # "nbd" => UNCHANGED nbdVars
           /\ s # "monitor" => UNCHANGED dirVars
           /\ s # "logger" => UNCHANGED loggerVars
           /\ s # "singleton" => UNCHANGED singletonVars
           /\ s # "dhcp" => UNCHANGED dhcpVars
           /\ s # "producers" => UNCHANGED pcVars
           /\ s # "hand" => UNCHANGED handVars
           /\ s # "barrier" => UNCHANGED barrierVars
           /\ s # "sorting" => UNCHANGED stVars
           /\ s # "select" => UNCHANGED ppVars
           /\ s # "signals" => UNCHANGED playVars
           /\ s # "pipes" => UNCHANGED pipeVars
           /\ s # "threads" => UNCHANGED threadVars
           /\ s # "net" => UNCHANGED netVars

Next == \/ Only("nbd") /\ NbdNext
        \/ Only("monitor") /\ DirMonitorNext
        \/ Only("logger") /\ LoggerNext
        \/ Only("singleton") /\ SingletonNext
        \/ Only("dhcp") /\ DhcpNext
        \/ Only("producers") /\ ProdConsNext
        \/ Only("hand") /\ HandNext
        \/ Only("barrier") /\ BarrierNext
        \/ Only("sorting") /\ StNext
        \/ Only("select") /\ PpNext
        \/ Only("signals") /\ PlayNext
        \/ Only("pipes") /\ NamedPipesNext
        \/ Only("threads") /\ ThreadsNext
        \/ Only("net") /\ NetNext

\* What the threads and processes do that have to go on when they can: the
\* one that does the service's work, the one that asks it to stop or answers
\* it, and the one of each client c.
WorkerStep ==
  \/ service = "monitor" /\ MonitorStep /\ Only("monitor")
  \/ service = "logger" /\ PopAndLog /\ Only("logger")
  \/ service = "producers" /\ ProdConsNext /\ Only("producers")
  \/ service = "hand" /\ HandNext /\ Only("hand")
  \/ service = "barrier" /\ BarrierProducerStep /\ Only("barrier")
  \/ service = "select" /\ RunServer /\ Only("select")
  \/ service = "pipes" /\ PipeStep("ping") /\ Only("pipes")
  \/ service = "net" /\ PlayerStep("server") /\ Only("net")
OtherStep ==
  \/ service = "monitor" /\ StopStep /\ Only("monitor")
  \/ service = "logger" /\ logLife # "open" /\ LoggerDestroy /\ Only("logger")
  \/ service = "pipes" /\ PipeStep("pong") /\ Only("pipes")
  \/ service = "net" /\ PlayerStep("client") /\ Only("net")
ClientStep(c) ==
  \/ service = "barrier" /\ c \in RoundConsumers /\ BarrierConsumerStep(c) /\ Only("barrier")
  \/ service = "select" /\ c \in TcpClients /\ TcpStep(c) /\ Only("select")

\* Each of them goes on; nobody has to change a directory, to call Log, to
\* type a line or to begin to stop anything.
Fairness == /\ WF_serviceVars(WorkerStep)
            /\ WF_serviceVars(OtherStep)
            /\ \A c \in RoundConsumers \cup TcpClients : WF_serviceVars(ClientStep(c))

Spec == Init /\ [][Next]_serviceVars /\ Fairness

(***************************************************************************)
(* The programs that promise to hand items over do so: the semaphores and  *)
(* mutexes of ex2 to ex4, the flag of ex1 and the barrier of ex5           *)
(* (ItemsOnce and RoundsComplete of ProdCons); the threads that divide an  *)
(* array or a range do so without a gap (RangesMerged and ThreadsAgree of  *)
(* ThreadExercises); the processes that play ping and pong lose a turn     *)
(* only where a signal can miss pause, never take their own message for    *)
(* the other's, and stay in step while every read gives a whole message    *)
(* (StopsOnlyByAMiss and ReadsTheOther of PingPong, InStep of NetGames);   *)
(* and the server that select drives never waits anywhere else             *)
(* (ServerNeverBlocks of NetGames).                                        *)
(***************************************************************************)
HandedOverOnce == /\ ItemsOnce /\ RoundsComplete /\ RangesMerged
                  /\ StopsOnlyByAMiss /\ ReadsTheOther /\ ServerNeverBlocks /\ ThreadsAgree
                  /\ InStep

\* A service that was told to stop, or a program that has an end.
HasToEnd == \/ service = "monitor" /\ StopMonitorWaits
            \/ service = "logger" /\ LoggerWaits
            \/ service \in {"producers", "hand", "barrier", "select", "pipes", "net"}

HasEnded == \/ service = "monitor" /\ StopMonitorReturned
            \/ service = "logger" /\ LoggerJoined
            \/ service = "producers" /\ (ThreadsEnd \/ pcFault)
            \/ service = "hand" /\ handConsumer.round = RoundsNum
            \/ service = "barrier" /\ RoundsEnd
            \/ service = "select" /\ TcpClientsEnd
            \/ service = "pipes" /\ PingEnds
            \/ service = "net" /\ NetEnds

(***************************************************************************)
(* Whoever is told to stop, stops, and programs that have an end reach it: *)
(* StopMonitor and the logger's destructor return from their joins, the    *)
(* threads of the producer and consumer programs end, unless ex2_2 pops    *)
(* from its empty list, and so do the server's TCP clients (TcpClientsEnd  *)
(* of NetGames), the program that plays ping over a pipe, unless its       *)
(* semaphore is set too late (PingEnds of PingPong), and both players      *)
(* over a stream or by datagrams that arrive (NetEnds of NetGames).  No    *)
(* wakeup, interruption, flag or reported descriptor is missed.            *)
(***************************************************************************)
EverythingEnds == HasToEnd ~> HasEnded
=============================================================================
