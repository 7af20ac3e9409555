------------------------------ MODULE NetGames ------------------------------
(***************************************************************************)
(* Ping and pong over the network: the programs of tcp_udp, and the server *)
(* of p_p_server with its clients.                                         *)
(***************************************************************************)
EXTENDS Integers, Sequences, FiniteSets, SequencesExt, FiniteSetsExt

-----------------------------------------------------------------------------
(***************************************************************************)
(* system_programming/tcp_udp: the client and the server that send ping    *)
(* and pong to each other over a stream (ex2, ex5_ex6) or by datagrams     *)
(* (ex1, ex5_ex6), and the broadcaster and its receiver (ex3).             *)
(*                                                                         *)
(* A stream knows no messages: a read may give any part of what is there,  *)
(* and no program looks at the number it returns.  When a process ends, a  *)
(* read of its partner gives what is left and then the end of the file;    *)
(* writing to it once is answered by a reset, and writing again fails or   *)
(* kills the writer (SIGPIPE).  A datagram may be lost, also because       *)
(* nobody has bound the port yet.                                          *)
(***************************************************************************)

CONSTANTS NetRounds,   \* turns of a game, 10 in the source, and 5 broadcasts
          NetLine      \* MAXLINE: bytes of a message on the stream

VARIABLES netProgram,  \* "tcp", "udp" or "broadcast"
          netAt,       \* the call each process makes next
          netTurn,     \* turns it has finished
          netText,     \* what it printed last
          netBytes,    \* the bytes sent to it and not read, by whose word each
                       \* begins: "word" for the first of a message, "rest"
          netReset,    \* those whose stream was reset
          netShort,    \* some read gave less than a message
          netLen,      \* the udp client's len, which it does not initialise, is
                       \* one that recvfrom takes
          netLost      \* datagrams lost

netVars == <<netProgram, netAt, netTurn, netText, netBytes, netReset, netShort, netLen, netLost>>

NetPlayers == {"client", "server"}
Partner(me) == IF me = "client" THEN "server" ELSE "client"
Gone(me) == netAt[me] \in {"ended", "killed"}

\* The sockets are there.  The client of a stream is connected, as connect
\* fails and ends it otherwise; a server of datagrams may not have bound yet.
NetStart ==
  /\ netProgram \in {"tcp", "udp", "broadcast"}
  /\ netAt = [me \in NetPlayers |->
                CASE me = "client" /\ netProgram = "broadcast" -> "bind"
                  [] me = "client" -> "write"
                  [] netProgram = "tcp" -> "read"
                  [] netProgram = "udp" -> "bind"
                  [] netProgram = "broadcast" -> "write"]
  /\ netTurn = [me \in NetPlayers |-> 0]
  /\ netText = [me \in NetPlayers |-> "none"]
  /\ netBytes = [me \in NetPlayers |-> <<>>]
  /\ netReset = {} /\ netShort = FALSE /\ netLost = 0
  /\ netLen \in (IF netProgram = "udp" THEN BOOLEAN ELSE {TRUE})

\* me has finished a turn when it has made both calls of the loop's body: the
\* client writes first, the server reads first.
LastOfTurn(me, call) == call = IF me = "client" THEN "read" ELSE "write"
AfterCall(me, call) ==
  CASE LastOfTurn(me, call) /\ netTurn[me] + 1 = NetRounds -> "ended"
    [] call = "write" -> "read"
    [] call = "read" -> "write"

\* me goes on behind the call; a stream that ends with bytes unread is reset.
GoesOn(me, call, unread) ==
  /\ netAt' = [netAt EXCEPT ![me] = AfterCall(me, call)]
  /\ netTurn' = [netTurn EXCEPT ![me] = @ + (IF LastOfTurn(me, call) THEN 1 ELSE 0)]
  /\ netReset' = netReset \cup (IF AfterCall(me, call) = "ended" /\ unread # <<>>
                                  THEN {Partner(me)} ELSE {})

-----------------------------------------------------------------------------
(* tcpc.c and tcps.c: play *)

\* write: always the whole buffer.
TcpWrite(me) ==
  /\ netProgram = "tcp" /\ netAt[me] = "write" /\ ~Gone(Partner(me))
  /\ netBytes' = [netBytes EXCEPT ![Partner(me)] =
                    @ \o [i \in 1 .. NetLine |-> IF i = 1 THEN "word" ELSE "rest"]]
  /\ GoesOn(me, "write", netBytes[me])
  /\ UNCHANGED <<netProgram, netText, netShort, netLen, netLost>>

\* The partner has gone: the first write is answered by a reset.
TcpWriteToNobody(me) ==
  /\ netProgram = "tcp" /\ netAt[me] = "write" /\ Gone(Partner(me))
  /\ \/ /\ netAt' = [netAt EXCEPT ![me] = AfterCall(me, "write")]
        /\ netTurn' = [netTurn EXCEPT ![me] = @ + (IF LastOfTurn(me, "write") THEN 1 ELSE 0)]
        /\ netReset' = netReset \cup {me}
     \/ /\ me \in netReset
        /\ netAt' = [netAt EXCEPT ![me] = "killed"]
        /\ UNCHANGED <<netTurn, netReset>>
  /\ UNCHANGED <<netProgram, netText, netBytes, netShort, netLen, netLost>>

\* The client has cleared its buffer, the server's still holds its own answer.
OldText(me) == IF me = "client" \/ netTurn[me] = 0 THEN "nothing" ELSE "own"

\* Mutant of TcpRead: the server answers only a whole message.
TcpReadWhole(me) ==
  /\ netProgram = "tcp" /\ netAt[me] = "read" /\ netBytes[me] # <<>>
  /\ \E n \in 1 .. NetLine :
       /\ n <= Len(netBytes[me])
       /\ netBytes' = [netBytes EXCEPT ![me] = SubSeq(@, n + 1, Len(@))]
       /\ netText' = [netText EXCEPT ![me] = IF netBytes[me][1] = "word" THEN "word" ELSE "nothing"]
       /\ netShort' = (netShort \/ n < NetLine)
       /\ IF me = "server" /\ n < NetLine THEN UNCHANGED <<netAt, netTurn, netReset>>
          ELSE GoesOn(me, "read", netBytes'[me])
  /\ UNCHANGED <<netProgram, netLen, netLost>>

\* read: some of what is there, up to the size of the buffer.
TcpRead(me) ==
  /\ netProgram = "tcp" /\ netAt[me] = "read" /\ netBytes[me] # <<>>
  /\ \E n \in 1 .. NetLine :
       /\ n <= Len(netBytes[me])
       /\ netBytes' = [netBytes EXCEPT ![me] = SubSeq(@, n + 1, Len(@))]
       /\ netText' = [netText EXCEPT ![me] = IF netBytes[me][1] = "word" THEN "word" ELSE "nothing"]
       /\ netShort' = (netShort \/ n < NetLine)
       /\ GoesOn(me, "read", netBytes'[me])
  /\ UNCHANGED <<netProgram, netLen, netLost>>

\* Nothing is left of a partner that has gone: 0 or an error, and the text
\* printed is the one in the buffer.
TcpReadEnd(me) ==
  /\ netProgram = "tcp" /\ netAt[me] = "read" /\ netBytes[me] = <<>> /\ Gone(Partner(me))
  /\ netText' = [netText EXCEPT ![me] = OldText(me)]
  /\ GoesOn(me, "read", <<>>)
  /\ UNCHANGED <<netProgram, netBytes, netShort, netLen, netLost>>

-----------------------------------------------------------------------------
(* udpc.c and udps.c *)

\* The server binds its port, as the receiver of broadcasts does.
UdpBind(me) ==
  /\ netAt[me] = "bind"
  /\ netAt' = [netAt EXCEPT ![me] = "read"]
  /\ UNCHANGED <<netProgram, netTurn, netText, netBytes, netReset, netShort, netLen, netLost>>

\* sendto: the datagram arrives, or it is lost; who has gone misses nothing.
Datagram(to) ==
  \/ /\ netAt[to] # "bind" /\ ~Gone(to)
     /\ netBytes' = [netBytes EXCEPT ![to] = Append(@, "word")]
     /\ UNCHANGED netLost
  \/ ~Gone(to) /\ netLost' = netLost + 1 /\ UNCHANGED netBytes
  \/ Gone(to) /\ UNCHANGED <<netBytes, netLost>>

UdpSend(me) ==
  /\ netProgram = "udp" /\ netAt[me] = "write"
  /\ Datagram(Partner(me)) /\ GoesOn(me, "write", <<>>)
  /\ UNCHANGED <<netProgram, netText, netShort, netLen>>

\* Mutant of UdpReceive: recvfrom does not wait.
UdpReceiveNoWait(me) ==
  /\ netProgram = "udp" /\ netAt[me] = "read"
  /\ netBytes' = [netBytes EXCEPT ![me] = IF @ = <<>> THEN @ ELSE Tail(@)]
  /\ netText' = [netText EXCEPT ![me] = IF netBytes[me] = <<>> THEN "nothing" ELSE "word"]
  /\ GoesOn(me, "read", <<>>)
  /\ UNCHANGED <<netProgram, netShort, netLen, netLost>>

\* recvfrom waits for a datagram; with a length that it does not take it
\* fails, and the client, which does not test it, goes on.
UdpReceive(me) ==
  /\ netProgram = "udp" /\ netAt[me] = "read"
  /\ \/ /\ me = "server" \/ netLen
        /\ netBytes[me] # <<>>
        /\ netBytes' = [netBytes EXCEPT ![me] = Tail(@)]
        /\ netText' = [netText EXCEPT ![me] = Head(netBytes[me])]
     \/ /\ me = "client" /\ ~netLen
        /\ netText' = [netText EXCEPT ![me] = "nothing"]
        /\ UNCHANGED netBytes
  /\ GoesOn(me, "read", <<>>)
  /\ UNCHANGED <<netProgram, netShort, netLen, netLost>>

-----------------------------------------------------------------------------
(* broadcaster.c, udp_brcast.c and receiver.c *)

\* Nobody is waited for: 5 messages, 3 seconds apart.
BroadcastSend ==
  /\ netProgram = "broadcast" /\ netAt["server"] = "write"
  /\ Datagram("client")
  /\ netTurn' = [netTurn EXCEPT !["server"] = @ + 1]
  /\ netAt' = [netAt EXCEPT !["server"] = IF netTurn["server"] + 1 = NetRounds THEN "ended" ELSE @]
  /\ UNCHANGED <<netProgram, netText, netReset, netShort, netLen>>

\* A sendto that fails ends the broadcaster.
BroadcastFails ==
  /\ netProgram = "broadcast" /\ netAt["server"] = "write"
  /\ netAt' = [netAt EXCEPT !["server"] = "ended"]
  /\ UNCHANGED <<netProgram, netTurn, netText, netBytes, netReset, netShort, netLen, netLost>>

\* The receiver takes one message and ends.
Receiver ==
  /\ netProgram = "broadcast" /\ netAt["client"] = "read" /\ netBytes["client"] # <<>>
  /\ netText' = [netText EXCEPT !["client"] = "word"]
  /\ netAt' = [netAt EXCEPT !["client"] = "ended"]
  /\ UNCHANGED <<netProgram, netTurn, netBytes, netReset, netShort, netLen, netLost>>

PlayerStep(me) == \/ TcpWrite(me) \/ TcpWriteToNobody(me) \/ TcpRead(me) \/ TcpReadEnd(me)
                  \/ UdpBind(me) \/ UdpSend(me) \/ UdpReceive(me)
                  \/ me = "client" /\ Receiver
                  \/ me = "server" /\ (BroadcastSend \/ BroadcastFails)

NetNext == \E me \in NetPlayers : PlayerStep(me)

-----------------------------------------------------------------------------
(***************************************************************************)
(* As long as every read gives a whole message and no datagram is lost,    *)
(* the two are never more than one turn apart, and neither prints anything *)
(* but the other's word before the other has gone; short reads alone put   *)
(* the server ahead of the client, which is then killed in the middle of   *)
(* its game (tcps.c 15-31, tcpc.c 13-33, udps.c 50-58, udpc.c 33-42).      *)
(***************************************************************************)
InStep ==
  (netProgram \in {"tcp", "udp"} /\ ~netShort /\ netLost = 0 /\ netLen) =>
    /\ netTurn["server"] - netTurn["client"] \in {0, 1}
    /\ \A me \in NetPlayers : netText[me] \in {"none", "word"} /\ netAt[me] # "killed"

(***************************************************************************)
(* Both come to an end of their own or are killed, unless a datagram was   *)
(* lost: however a stream divides the messages, there is always one who    *)
(* has something to read.  The receiver of broadcasts waits for ever if it *)
(* has missed them all.                                                    *)
(***************************************************************************)
NetEnds ==
  \/ \A me \in NetPlayers : Gone(me)
  \/ netProgram = "udp" /\ netLost > 0
  \/ netProgram = "broadcast" /\ Gone("server") /\ netBytes["client"] = <<>>

-----------------------------------------------------------------------------
(***************************************************************************)
(* system_programming/p_p_server: a server that one select() makes answer  *)
(* TCP connections, UDP datagrams and the keyboard, with its two clients,  *)
(* tcpc.c and udpc.c.                                                      *)
(*                                                                         *)
(* The kernel's side is modelled from how the programs use it.  A TCP      *)
(* connection is what its two queues hold: a ping of 1024 bytes may reach  *)
(* the server in one part or two, for TCP keeps no boundaries; a client    *)
(* that closes with a pong unread resets the connection, one that has read *)
(* everything ends it in order.  The answer to a client that has closed is *)
(* a reset too, and one more write is a SIGPIPE, for which the server has  *)
(* no handler.  A datagram may be lost on either way.                      *)
(***************************************************************************)

CONSTANTS TcpClients,   \* runs of tcpc.c
          UdpClients,   \* runs of udpc.c
          PpPings,      \* pings that each client has to do: 3 to 10, by rand
          PpEvents      \* bound: lines typed at the server, and clients killed

VARIABLES ppServer,     \* RunServer: where it is, master, fdmax, the rest of read_fds
          ppConn,       \* the connections, one for each TCP client
          ppTcp,        \* play: what each TCP client does, and its pings done
          ppUdp,        \* the same of the UDP clients
          ppDatagrams,  \* datagrams that the server's UDP socket holds
          ppStdin,      \* the line that waits at the terminal, or its end
          ppEvents      \* typed and killed so far

ppVars == <<ppServer, ppConn, ppTcp, ppUdp, ppDatagrams, ppStdin, ppEvents>>

Stdin == 0
UdpFd == 3              \* the first free descriptor, UDPSetAndBind's
Listened == 4           \* TCPSetBindAndlisten's
NoFd == -1              \* no connection, or one that the server has closed
InBacklog == 0          \* a connection that nobody has accepted

PpStart ==
  /\ ppServer = [at |-> "start", master |-> {}, fdmax |-> 0, batch |-> {}]
  /\ ppConn = [c \in TcpClients |-> [fd |-> NoFd, parts |-> 0, end |-> "no", pongs |-> 0]]
  /\ ppTcp = [c \in TcpClients |-> [at |-> "out", done |-> 0]]
  /\ ppUdp = [u \in UdpClients |-> [at |-> "send", done |-> 0]]
  /\ ppDatagrams = <<>> /\ ppStdin = "none"
  /\ ppEvents = 0

Running == ppServer.at \in {"select", "scan"}

Backlog == {c \in TcpClients : ppConn[c].fd = InBacklog}
Accepted == {c \in TcpClients : ppConn[c].fd > 0}
OfFd(fd) == CHOOSE c \in Accepted : ppConn[c].fd = fd

\* read or accept of descriptor fd would not block.
Ready(fd) ==
  CASE fd = Stdin -> ppStdin # "none"
    [] fd = UdpFd -> ppDatagrams # <<>>
    [] fd = Listened -> Backlog # {}
    [] OTHER -> LET c == ppConn[OfFd(fd)] IN c.parts > 0 \/ c.end # "no"

\* The process is gone, and with it all its descriptors.
ServerEnds(how) ==
  ppServer' = [at |-> how, master |-> {}, fdmax |-> 0, batch |-> {}]

-----------------------------------------------------------------------------
(* The server *)

\* The sockets take the first free descriptors.  Either port may be taken, and
\* then the server ends.
UDPSetAndBind ==
  /\ ppServer.at = "start"
  /\ ppServer' = [ppServer EXCEPT !.at = "bound"] \/ ServerEnds("failed")
  /\ UNCHANGED <<ppConn, ppTcp, ppUdp, ppDatagrams, ppStdin, ppEvents>>

\* ... and the sets before the loop of RunServer.
TCPSetBindAndlisten ==
  /\ ppServer.at = "bound"
  /\ \/ ppServer' = [at |-> "select", master |-> {Listened, UdpFd, Stdin},
                     fdmax |-> IF Listened > UdpFd THEN Listened ELSE UdpFd, batch |-> {}]
     \/ ServerEnds("failed")
  /\ UNCHANGED <<ppConn, ppTcp, ppUdp, ppDatagrams, ppStdin, ppEvents>>

\* select on a copy of master.  When nothing is ready in 7 seconds the loop
\* begins again and nothing has changed.
Select ==
  /\ ppServer.at = "select"
  /\ LET ready == {fd \in ppServer.master : fd <= ppServer.fdmax /\ Ready(fd)}
     IN  ready # {} /\ ppServer' = [ppServer EXCEPT !.at = "scan", !.batch = ready]
  /\ UNCHANGED <<ppConn, ppTcp, ppUdp, ppDatagrams, ppStdin, ppEvents>>

\* The loop over read_fds comes to fd.
Reaches(fd) == /\ ppServer.at = "scan" /\ fd = Min(ppServer.batch)

\* ... and goes on behind it, or to the next select.
Passed(fd) ==
  LET rest == ppServer.batch \ {fd}
  IN  [ppServer EXCEPT !.batch = rest, !.at = IF rest = {} THEN "select" ELSE "scan"]

\* The least descriptor that is free.
FreeFd == Min((Listened + 1) .. (Listened + 1 + Cardinality(TcpClients))
                \ {ppConn[c].fd : c \in Accepted})

\* Mutant of TCPHandler: fdmax is not raised.
TCPHandlerLow ==
  /\ Reaches(Listened)
  /\ \E c \in Backlog :
       /\ ppConn' = [ppConn EXCEPT ![c].fd = FreeFd]
       /\ ppServer' = [Passed(Listened) EXCEPT !.master = @ \cup {FreeFd}]
  /\ UNCHANGED <<ppTcp, ppUdp, ppDatagrams, ppStdin, ppEvents>>

\* accept; the longest waiting connection is any of them.
TCPHandler ==
  /\ Reaches(Listened)
  /\ \E c \in Backlog :
       /\ ppConn' = [ppConn EXCEPT ![c].fd = FreeFd]
       /\ ppServer' = [Passed(Listened) EXCEPT
                         !.fdmax = IF @ > FreeFd THEN @ ELSE FreeFd,
                         !.master = @ \cup {FreeFd}]
  /\ UNCHANGED <<ppTcp, ppUdp, ppDatagrams, ppStdin, ppEvents>>

\* recvfrom and sendto; the pong may be lost.
UDPHandler ==
  /\ Reaches(UdpFd)
  /\ LET u == Head(ppDatagrams)
     IN  \/ ppUdp' = [ppUdp EXCEPT ![u].at = "answered"]
         \/ UNCHANGED ppUdp
  /\ ppDatagrams' = Tail(ppDatagrams)
  /\ ppServer' = Passed(UdpFd)
  /\ UNCHANGED <<ppConn, ppTcp, ppStdin, ppEvents>>

\* strncmp stops at the length of the line: a line "quit" stands for every
\* beginning of that word, the empty line too, and ends the server.  At the end of the input the length is -1 as
\* an unsigned number, nothing is equal, and descriptor 0 stays ready.
StdInHandler ==
  /\ Reaches(Stdin)
  /\ IF ppStdin = "quit"
       THEN ServerEnds("quit")
       ELSE ppServer' = Passed(Stdin)
  /\ ppStdin' = IF ppStdin = "eof" THEN "eof" ELSE "none"
  /\ UNCHANGED <<ppConn, ppTcp, ppUdp, ppDatagrams, ppEvents>>

\* What the write of a pong makes of a connection: nothing is wrong with it,
\* the client has closed it (its kernel answers with a reset), or it is reset
\* and the write fails.
AfterWrite(k) ==
  CASE k.end = "no" -> [k EXCEPT !.pongs = @ + 1]
    [] k.end = "fin" -> [k EXCEPT !.end = "broken"]
    [] k.end = "reset" -> [k EXCEPT !.end = "gone"]

\* RespondHandler on the connection of c: the read takes n parts.  A read of
\* nothing closes the descriptor; a read that fails, of a reset connection,
\* leaves it where it is, and the next one finds the end.
Answer(c, n) ==
  LET k == ppConn[c]
  IN  CASE k.parts > 0 /\ k.end \in {"broken", "gone"} ->
             ServerEnds("killed") /\ UNCHANGED ppConn
        [] k.parts > 0 /\ k.end \notin {"broken", "gone"} ->
             /\ ppConn' = [ppConn EXCEPT ![c] = AfterWrite([k EXCEPT !.parts = @ - n])]
             /\ ppServer' = Passed(k.fd)
        [] k.parts = 0 /\ k.end \in {"reset", "broken"} ->
             ppConn' = [ppConn EXCEPT ![c].end = "gone"] /\ ppServer' = Passed(k.fd)
        [] k.parts = 0 /\ k.end \notin {"reset", "broken"} ->
             /\ ppConn' = [ppConn EXCEPT ![c].fd = NoFd]
             /\ ppServer' = [Passed(k.fd) EXCEPT !.master = @ \ {k.fd}]

RespondHandler ==
  /\ \E c \in Accepted :
       /\ Reaches(ppConn[c].fd)
       /\ \E n \in 0 .. ppConn[c].parts : (ppConn[c].parts > 0 => n > 0) /\ Answer(c, n)
  /\ UNCHANGED <<ppTcp, ppUdp, ppDatagrams, ppStdin, ppEvents>>

RunServer == \/ UDPSetAndBind \/ TCPSetBindAndlisten
             \/ Select \/ TCPHandler \/ UDPHandler \/ StdInHandler \/ RespondHandler

-----------------------------------------------------------------------------
(* The clients and the terminal *)

\* main of tcpc.c: without a server connect fails and the program ends.
Connect(c) ==
  /\ ppTcp[c].at = "out"
  /\ ppTcp' = [ppTcp EXCEPT ![c].at = IF Running THEN "write" ELSE "closed"]
  /\ ppConn' = [ppConn EXCEPT ![c].fd = IF Running THEN InBacklog ELSE NoFd]
  /\ UNCHANGED <<ppServer, ppUdp, ppDatagrams, ppStdin, ppEvents>>

\* play: write a ping.  When the server is gone it goes nowhere.
WritePing(c) ==
  /\ ppTcp[c].at = "write"
  /\ ppTcp' = [ppTcp EXCEPT ![c].at = "read"]
  /\ \E n \in {1, 2} : ppConn' = [ppConn EXCEPT ![c].parts = IF Running THEN @ + n ELSE @]
  /\ UNCHANGED <<ppServer, ppUdp, ppDatagrams, ppStdin, ppEvents>>

\* close, at the end of play or because the client was killed.
CloseSocket(c) ==
  ppConn' = [ppConn EXCEPT ![c].end = IF ppConn[c].pongs = 0 THEN "fin" ELSE "reset",
                           ![c].pongs = 0]

\* play: the read, of all the pongs there are, or of the end of a connection
\* whose server is gone; after the last round main closes.
ReadPong(c) ==
  /\ ppTcp[c].at = "read"
  /\ ppConn[c].pongs > 0 \/ ~Running
  /\ LET done == ppTcp[c].done + 1
     IN  ppTcp' = [ppTcp EXCEPT ![c] = [at |-> IF done = PpPings[c] THEN "close" ELSE "write",
                                        done |-> done]]
  /\ ppConn' = [ppConn EXCEPT ![c].pongs = 0]
  /\ UNCHANGED <<ppServer, ppUdp, ppDatagrams, ppStdin, ppEvents>>

Close(c) ==
  /\ ppTcp[c].at = "close"
  /\ ppTcp' = [ppTcp EXCEPT ![c].at = "closed"]
  /\ CloseSocket(c)
  /\ UNCHANGED <<ppServer, ppUdp, ppDatagrams, ppStdin, ppEvents>>

\* The client is killed while it sleeps between its write and its read.
KillClient(c) ==
  /\ ppTcp[c].at = "read" /\ ppEvents < PpEvents
  /\ ppTcp' = [ppTcp EXCEPT ![c].at = "closed"]
  /\ ppEvents' = ppEvents + 1
  /\ CloseSocket(c)
  /\ UNCHANGED <<ppServer, ppUdp, ppDatagrams, ppStdin>>

\* main of udpc.c: sendto, which may be lost, and recvfrom, which has no time
\* limit; then the next ping or the end.
UdpPing(u) ==
  /\ ppUdp[u].at = "send"
  /\ ppUdp' = [ppUdp EXCEPT ![u].at = "wait"]
  /\ ppDatagrams' \in {ppDatagrams} \cup (IF Running \/ ppServer.at = "bound" THEN {Append(ppDatagrams, u)} ELSE {})
  /\ UNCHANGED <<ppServer, ppConn, ppTcp, ppStdin, ppEvents>>

UdpPong(u) ==
  /\ ppUdp[u].at = "answered"
  /\ LET done == ppUdp[u].done + 1
     IN  ppUdp' = [ppUdp EXCEPT ![u] = [at |-> IF done = PpPings[u] THEN "closed" ELSE "send",
                                        done |-> done]]
  /\ UNCHANGED <<ppServer, ppConn, ppTcp, ppDatagrams, ppStdin, ppEvents>>

TypeLine ==
  /\ ppStdin = "none" /\ ppEvents < PpEvents
  /\ ppStdin' \in {"quit", "other", "eof"}
  /\ ppEvents' = ppEvents + 1
  /\ UNCHANGED <<ppServer, ppConn, ppTcp, ppUdp, ppDatagrams>>

TcpStep(c) == Connect(c) \/ WritePing(c) \/ ReadPong(c) \/ Close(c)

PpNext == \/ RunServer
          \/ \E c \in TcpClients : TcpStep(c) \/ KillClient(c)
          \/ \E u \in UdpClients : UdpPing(u) \/ UdpPong(u)
          \/ TypeLine

-----------------------------------------------------------------------------
(***************************************************************************)
(* The server never blocks outside select: every descriptor of the copy    *)
(* that RunServer still walks over is open and can be read without waiting *)
(* although clients write, close and die and the handlers accept and close *)
(* while it walks.  For that master has to hold the two sockets, the       *)
(* keyboard and exactly the connections that are open, none of them above  *)
(* fdmax (ppserver.c 56-85, TCPHandler and RespondHandler).                *)
(***************************************************************************)
ServerNeverBlocks ==
  Running =>
    /\ ppServer.master = {Stdin, UdpFd, Listened} \cup {ppConn[c].fd : c \in Accepted}
    /\ \A c, d \in Accepted : c # d => ppConn[c].fd # ppConn[d].fd
    /\ \A fd \in ppServer.master : fd <= ppServer.fdmax
    /\ \A fd \in ppServer.batch : fd \in ppServer.master /\ Ready(fd)

(***************************************************************************)
(* In the end every TCP client has done all its pings, also when other     *)
(* clients die, the keyboard's input ends or the server is stopped: no     *)
(* ping waits for ever in a socket that select has reported (ppserver.c    *)
(* 39-85, play of tcpc.c).  A client of UDP has no such promise.           *)
(***************************************************************************)
TcpClientsEnd == \A c \in TcpClients : ppTcp[c].at = "closed"
=============================================================================
