------------------------------ MODULE PingPong ------------------------------
(***************************************************************************)
(* Two processes that play ping pong by signals and over a named pipe.     *)
(***************************************************************************)
EXTENDS Integers, Sequences, Functions

-----------------------------------------------------------------------------
(***************************************************************************)
(* system_programming/ping_pong: two processes that wake each other by     *)
(* signals, kill and then pause, as parent and child (ex1), as a parent    *)
(* that runs the other program once a round (ex2) and as two programs      *)
(* started by hand (ex3).                                                  *)
(*                                                                         *)
(* A process is the list of the calls it makes; from its last one it goes  *)
(* back to the first one of its loop.  A signal that was sent is pending   *)
(* (once, however often it was sent) until it is delivered: then the       *)
(* handler of the process runs, and a pause that it interrupts returns     *)
(* after it.  A handler that runs at any other moment wakes nobody: that   *)
(* signal is missed.  Without a handler the signal ends the process.       *)
(***************************************************************************)

CONSTANT PlayRounds    \* rounds of a loop, 10 in the source; ex3 has no end

VARIABLES ppgProgram,  \* "ex1", "ex2" or "ex3"
          ppgProc,     \* the processes
          ppgMissed    \* those that a signal came to outside of pause, or came
                       \* to while one was pending

playVars == <<ppgProgram, ppgProc, ppgMissed>>

\* Ping is the parent in ex1 and ex2.  In ex2 the others are the children
\* of its rounds, in ex1 and ex3 number 1 is the other process.
Children == 1 .. PlayRounds
Ping == 0
Players == {Ping} \cup Children

\* Mutant of Ex1Calls: wait first and answer then.
Ex1CallsPauseFirst == <<"pause", "kill">>

\* main of each program: its calls in their order.  The sleep of ex2 is there
\* to be interrupted and makes no difference here.
Ex1Calls == <<"kill", "pause">>
Ex2PingCalls == <<"fork", "kill", "wait">>
Ex2PongCalls == <<"sigaction", "kill", "pause">>
Ex3PingCalls == <<"sigaction", "pause", "kill">>
Ex3PongCalls == <<"kill", "pause">>

Script(p) ==
  CASE ppgProgram = "ex1" -> Ex1Calls
    [] ppgProgram = "ex2" -> IF p = Ping THEN Ex2PingCalls ELSE Ex2PongCalls
    [] ppgProgram = "ex3" -> IF p = Ping THEN Ex3PingCalls ELSE Ex3PongCalls

\* Where the loop of p begins.
LoopsTo(p) == IF ppgProgram = "ex3" /\ p = Ping THEN 2 ELSE 1
RoundsOf(p) == CASE ppgProgram = "ex1" -> PlayRounds
                 [] ppgProgram = "ex2" -> IF p = Ping THEN PlayRounds ELSE 1
                 [] ppgProgram = "ex3" -> 0

\* The handlers of ex1 are installed before the fork, those of ex2's ping and
\* ex3's pong before their loops; pong of ex3 is started with the pid that
\* ping prints before it installs its own.
Alive(p) == [life |-> "on", at |-> 1, round |-> 1, handles |-> Script(p)[1] # "sigaction",
             pending |-> FALSE, waiting |-> FALSE, handler |-> FALSE]

PlayStart ==
  /\ ppgProgram \in {"ex1", "ex2", "ex3"}
  /\ ppgProc = [p \in Players |->
                  IF p = Ping \/ (p = 1 /\ ppgProgram # "ex2") THEN Alive(p)
                  ELSE [Alive(p) EXCEPT !.life = "not yet"]]
  /\ ppgMissed = {}

Runs(p) == ppgProc[p].life = "on" /\ ~ppgProc[p].handler

\* p is about to make the call; the handler may still run before it does.
Calls(p, call) == Runs(p) /\ ~ppgProc[p].waiting /\ Script(p)[ppgProc[p].at] = call

\* The next call of p, or its end.
Onward(q, p) ==
  LET last == q.at = Len(Script(p))
  IN  IF last /\ q.round = RoundsOf(p) THEN [q EXCEPT !.life = "ended"]
      ELSE [q EXCEPT !.waiting = FALSE, !.at = IF last THEN LoopsTo(p) ELSE @ + 1,
                     !.round = IF last /\ RoundsOf(p) > 0 THEN @ + 1 ELSE @]

\* A signal was of no use to p.  Ping of ex2 has no use for any.
Missed(p) == IF "pause" \in Range(Script(p)) THEN ppgMissed \cup {p} ELSE ppgMissed

\* Whom p signals: ex2's ping the child of this round (pid2).
Target(p) == CASE p # Ping -> Ping
               [] p = Ping /\ ppgProgram = "ex2" -> ppgProc[p].round
               [] p = Ping /\ ppgProgram # "ex2" -> 1

\* kill(): a process that has ended gets nothing.
Kill(p) ==
  /\ Calls(p, "kill")
  /\ LET t == Target(p)
         lives == ppgProc[t].life = "on"
     IN  /\ ppgProc' = [ppgProc EXCEPT ![p] = Onward(@, p), ![t].pending = @ \/ lives]
         /\ ppgMissed' = IF lives /\ ppgProc[t].pending THEN Missed(t) ELSE ppgMissed
  /\ UNCHANGED ppgProgram

\* pause(), or wait() of ex2: from here on the handler interrupts it.
Pause(p) ==
  /\ Calls(p, "pause") \/ Calls(p, "wait")
  /\ ppgProc' = [ppgProc EXCEPT ![p].waiting = TRUE]
  /\ UNCHANGED <<ppgProgram, ppgMissed>>

\* wait() of ex2 returns when some child has ended.
Reap(p) ==
  /\ p = Ping /\ ppgProgram = "ex2" /\ Runs(p) /\ ppgProc[p].waiting
  /\ \E c \in Children :
       /\ ppgProc[c].life = "ended"
       /\ ppgProc' = [ppgProc EXCEPT ![c].life = "reaped", ![p] = Onward(@, p)]
  /\ UNCHANGED <<ppgProgram, ppgMissed>>

\* fork() and execv() of ex2.
Fork(p) ==
  /\ Calls(p, "fork")
  /\ LET c == ppgProc[p].round
     IN  ppgProc' = [ppgProc EXCEPT ![p] = Onward(@, p), ![c] = Alive(c)]
  /\ UNCHANGED <<ppgProgram, ppgMissed>>

Sigaction(p) ==
  /\ Calls(p, "sigaction")
  /\ ppgProc' = [ppgProc EXCEPT ![p] = [Onward(@, p) EXCEPT !.handles = TRUE]]
  /\ UNCHANGED <<ppgProgram, ppgMissed>>

\* The pending signal is delivered.  While a handler runs it stays pending,
\* except in ex3's pong (SA_NODEFER), where one handler interrupts the other
\* and pause returns once for both.
Deliver(p) ==
  LET q == ppgProc[p]
      nested == q.handler /\ ppgProgram = "ex3" /\ p # Ping
  IN  /\ q.life = "on" /\ q.pending
      /\ ~q.handler \/ nested
      /\ ppgProc' = [ppgProc EXCEPT ![p] =
                       IF q.handles THEN [q EXCEPT !.pending = FALSE, !.handler = TRUE]
                       ELSE [q EXCEPT !.pending = FALSE, !.life = "ended"]]
      /\ ppgMissed' = IF ~q.waiting \/ nested THEN Missed(p) ELSE ppgMissed
      /\ UNCHANGED ppgProgram

\* PingHandler, PongHandler: the print and the second of sleep end, and so
\* does the call they interrupted (without SA_RESTART also wait).
HandlerReturns(p) ==
  /\ ppgProc[p].life = "on" /\ ppgProc[p].handler
  /\ ppgProc' = [ppgProc EXCEPT ![p] =
                   LET q == [@ EXCEPT !.handler = FALSE]
                   IN  IF q.waiting THEN Onward(q, p) ELSE q]
  /\ UNCHANGED <<ppgProgram, ppgMissed>>

PlayStep(p) == \/ Kill(p) \/ Pause(p) \/ Reap(p) \/ Fork(p) \/ Sigaction(p)
               \/ Deliver(p) \/ HandlerReturns(p)

PlayNext == \E p \in Players : PlayStep(p)

-----------------------------------------------------------------------------
Sleeps(p) == ppgProc[p].waiting /\ Runs(p) /\ ~ppgProc[p].pending

(***************************************************************************)
(* The game stops before its end only because of the moment between kill   *)
(* and pause: whenever nobody can go on, each in a pause or a wait that    *)
(* nothing will end, a signal was missed before.  Not one round is lost    *)
(* in any other way, to the other's exit or to two signals that became one *)
(* (while loops of ping_pong.c 42-63, ex2/ping.c 34-54, ex3/ping.c 44-48). *)
(***************************************************************************)
StopsOnlyByAMiss ==
  (/\ \E p \in Players : Sleeps(p)
   /\ \A p \in Players : Sleeps(p) \/ ppgProc[p].life # "on"
   /\ ~\E c \in Children : ppgProgram = "ex2" /\ ppgProc[c].life = "ended")
  => ppgMissed # {}

-----------------------------------------------------------------------------
(***************************************************************************)
(* system_programming/ipc/ex2: named_pipe_ping and named_pipe_pong, two    *)
(* programs that send ping and pong to each other over ONE named pipe, by  *)
(* turns its writer and its reader, and the System V semaphore by which    *)
(* pong waits until ping has made the pipe (include/ssemaphore.c).         *)
(*                                                                         *)
(* The kernel's side: opening one end of a named pipe waits for somebody   *)
(* who opens the other; who is waiting counts as having it open.  Reading  *)
(* waits while the pipe is empty and has a writer, and gives the end of    *)
(* the file when it has none.  A pipe whose name was removed is still      *)
(* there for those who have it.                                            *)
(***************************************************************************)

CONSTANT PipeRounds    \* rounds of ping, 10 in the source

VARIABLES npProg,      \* [at, round, got] of each program: the call it makes,
                       \* rounds begun, and what it has read last
          npPipe,      \* the pipe: has its name, ends that are open, content
          npSem,       \* the semaphore
          npUnset      \* it was counted up before it got its first value

pipeVars == <<npProg, npPipe, npSem, npUnset>>

\* A pipe may be left over from an earlier run.
NamedPipesStart ==
  /\ npProg = [me \in {"ping", "pong"} |-> [at |-> "semget", round |-> 1, got |-> "nothing"]]
  /\ \E named \in BOOLEAN :
       npPipe = [named |-> named, open |-> [r |-> {}, w |-> {}], content |-> <<>>]
  /\ npSem = [exists |-> FALSE, val |-> 0] /\ npUnset = FALSE

-----------------------------------------------------------------------------
(* The two mains: the calls and their order *)

Other(me) == IF me = "ping" THEN "pong" ELSE "ping"

PingAfter(call) ==
  CASE call = "semget" -> "mkfifo"
    [] call = "mkfifo" -> "semop"
    [] call = "semop" -> "open w"
    [] call = "open w" -> "write"
    [] call = "write" -> "open r"
    [] call = "open r" -> "read"
    [] call = "read" -> IF npProg["ping"].round = PipeRounds THEN "unlink" ELSE "open w"
    [] call = "unlink" -> "ended"

PongAfter(call) ==
  CASE call = "semget" -> "semop"
    [] call = "semop" -> "open r"
    [] call = "open r" -> "read"
    [] call = "read" -> "open w"
    [] call = "open w" -> "write"
    [] call = "write" -> "open r"

\* The program me goes on behind the call.
Past(me, call) ==
  [npProg[me] EXCEPT !.at = IF me = "ping" THEN PingAfter(call) ELSE PongAfter(call),
                     !.round = IF me = "ping" /\ call = "read" /\ @ < PipeRounds
                                 THEN @ + 1 ELSE @]
Goes(me, call) == npProg' = [npProg EXCEPT ![me] = Past(me, call)]
At(me, call) == npProg[me].at = call

-----------------------------------------------------------------------------
(* ssemaphore.c *)

\* SemIdCreate: who makes the semaphore gives it its value, 0, in a call of
\* its own; the other one takes it as it is.
PipeSemIdCreate(me) ==
  \/ /\ At(me, "semget") /\ npSem.exists
     /\ Goes(me, "semget")
     /\ UNCHANGED <<npSem, npPipe, npUnset>>
  \/ /\ At(me, "semget") /\ ~npSem.exists
     /\ npSem' = [exists |-> TRUE, val |-> 0]
     /\ npProg' = [npProg EXCEPT ![me].at = "setval"]
     /\ UNCHANGED <<npPipe, npUnset>>
  \/ /\ At(me, "setval")
     /\ npSem' = [npSem EXCEPT !.val = 0]
     /\ npUnset' = (npSem.val > 0)
     /\ Goes(me, "semget")
     /\ UNCHANGED npPipe

\* Mutant of IncDecSem: pong does not wait.
IncDecSemAtOnce(me) ==
  /\ At(me, "semop") /\ Goes(me, "semop")
  /\ UNCHANGED <<npSem, npPipe, npUnset>>

\* IncDecSem: ping counts up once the pipe is there, pong waits for that.
IncDecSem(me) ==
  LET oper == IF me = "ping" THEN 1 ELSE -1
  IN  /\ At(me, "semop") /\ npSem.val + oper >= 0
      /\ npSem' = [npSem EXCEPT !.val = @ + oper]
      /\ Goes(me, "semop")
      /\ UNCHANGED <<npPipe, npUnset>>

-----------------------------------------------------------------------------
(* The pipe *)

\* mkfifo; that the pipe is there already is no reason to stop.
Mkfifo ==
  /\ At("ping", "mkfifo") /\ Goes("ping", "mkfifo")
  /\ npPipe' = [npPipe EXCEPT !.named = TRUE]
  /\ UNCHANGED <<npSem, npUnset>>

Call(end) == IF end = "w" THEN "open w" ELSE "open r"
Facing(end) == IF end = "w" THEN "r" ELSE "w"

\* open: me goes on when the facing end is open; otherwise it waits, and goes
\* on with the other program's open of it.
OpenPipe(me, end) ==
  /\ At(me, Call(end)) /\ npPipe.named /\ me \notin npPipe.open[end]
  /\ npPipe' = [npPipe EXCEPT !.open[end] = @ \cup {me}]
  /\ LET waits == npPipe.open[Facing(end)] = {}
         partner == Other(me)
         released == partner \in npPipe.open[Facing(end)] /\ At(partner, Call(Facing(end)))
     IN  npProg' = [npProg EXCEPT
                      ![me] = IF waits THEN @ ELSE Past(me, Call(end)),
                      ![partner] = IF released THEN Past(partner, Call(Facing(end))) ELSE @]
  /\ UNCHANGED <<npSem, npUnset>>

\* The pipe has no name any more: "failed open fifo", exit(1).
OpenFails(me, end) ==
  /\ At(me, Call(end)) /\ ~npPipe.named /\ me \notin npPipe.open[end]
  /\ npProg' = [npProg EXCEPT ![me].at = "failed"]
  /\ UNCHANGED <<npPipe, npSem, npUnset>>

\* Mutant of WritePipe: the end stays open.
WritePipeOpen(me) ==
  /\ At(me, "write") /\ Goes(me, "write")
  /\ npPipe' = [npPipe EXCEPT !.content = Append(@, me)]
  /\ UNCHANGED <<npSem, npUnset>>

\* write and close.
WritePipe(me) ==
  /\ At(me, "write") /\ Goes(me, "write")
  /\ npPipe' = [npPipe EXCEPT !.content = Append(@, me), !.open["w"] = @ \ {me}]
  /\ UNCHANGED <<npSem, npUnset>>

\* read and close.
ReadPipe(me) ==
  /\ At(me, "read") /\ (npPipe.content # <<>> \/ npPipe.open["w"] = {})
  /\ npProg' = [npProg EXCEPT ![me] = [Past(me, "read") EXCEPT
                  !.got = IF npPipe.content = <<>> THEN "end" ELSE Head(npPipe.content)]]
  /\ npPipe' = [npPipe EXCEPT !.open["r"] = @ \ {me},
                              !.content = IF @ = <<>> THEN @ ELSE Tail(@)]
  /\ UNCHANGED <<npSem, npUnset>>

\* ping's end: unlink and SemDestroy.
Unlink ==
  /\ At("ping", "unlink") /\ Goes("ping", "unlink")
  /\ npPipe' = [npPipe EXCEPT !.named = FALSE]
  /\ npSem' = [exists |-> FALSE, val |-> 0]
  /\ UNCHANGED npUnset

PipeStep(me) == \/ PipeSemIdCreate(me) \/ IncDecSem(me)
                \/ \E end \in {"r", "w"} : OpenPipe(me, end) \/ OpenFails(me, end)
                \/ WritePipe(me) \/ ReadPipe(me)
                \/ me = "ping" /\ (Mkfifo \/ Unlink)

NamedPipesNext == \E me \in {"ping", "pong"} : PipeStep(me)

-----------------------------------------------------------------------------
(***************************************************************************)
(* With one pipe for both directions neither program ever reads what it    *)
(* has written itself, nor the end of the file: opening and closing for    *)
(* every message keeps their turns apart (named_pipe_ping.c 34-65,         *)
(* named_pipe_pong.c 25-62).                                               *)
(***************************************************************************)
ReadsTheOther ==
  \A me \in {"ping", "pong"} : npProg[me].got \in {"nothing", Other(me)}

(***************************************************************************)
(* In the end ping has done all its rounds and removed the pipe, if the    *)
(* semaphore was not counted up before its maker had given it its value:   *)
(* SemIdCreate makes and sets it in two calls (ssemaphore.c 38-46), and    *)
(* the 0 that comes late leaves both programs waiting for each other.      *)
(***************************************************************************)
PingEnds == npProg["ping"].at = "ended" \/ npUnset
=============================================================================
