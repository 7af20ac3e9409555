------------------------------ MODULE NbdProxy ------------------------------
(***************************************************************************)
(* The block device (projects/nbd_proxy) on the framework: the kernel      *)
(* sends requests through a socket, the reactor's thread parses them, the  *)
(* pool's workers have the factory create the commands and run them, and   *)
(* the commands answer on the same socket.  The chunks of minion_manger    *)
(* are memory: ReadCmd deletes the chunk it has sent, the one in the map   *)
(* too, and operator new may hand out that memory again.                   *)
(***************************************************************************)
EXTENDS Integers, Sequences, FiniteSets

CONSTANTS NbdKeys,     \* the blocks
          NbdRequests, \* bound: requests the kernel sends
          NbdWorkers,  \* the pool's threads
          NbdChunks    \* bound: the chunks memory has room for

ASSUME NbdAssumption == 0 \notin NbdChunks /\ "none" \notin NbdWorkers

VARIABLES m_map,       \* of the factory: the commands that are registered
          nbdSent,     \* the requests, in the order of their handles
          nbdParsed,   \* how many the reactor has taken from the socket
          nbdTasks,    \* handles of the tasks in the pool
          nbdWorker,   \* what each worker is at, its handle, chunk and answer
          chunks_map, map_lock,
          nbdMemory,   \* the contents of a chunk; NoData when it is not allocated
          nbdReplies,  \* what was written to the socket
          nbdFault,    \* "terminated" by WrongKey, "corrupt" after a double delete
          nbdBlocks,   \* history: the last data written to each block
          nbdDeleted   \* history: a chunk that was found in the map was deleted

nbdVars == <<m_map, nbdSent, nbdParsed, nbdTasks, nbdWorker, chunks_map, map_lock,
             nbdMemory, nbdReplies, nbdFault, nbdBlocks, nbdDeleted>>

None == "none"
NoData == 0
Uninitialized == -1

NoChunk == 0

Worker(at, handle, chunk, want) ==
  [at |-> at, handle |-> handle, chunk |-> chunk, want |-> want]
Idle == Worker("idle", 0, NoChunk, NoData)

NbdStart == /\ m_map = {} /\ nbdSent = <<>> /\ nbdParsed = 0 /\ nbdTasks = {}
            /\ nbdWorker = [w \in NbdWorkers |-> Idle]
            /\ chunks_map = [k \in NbdKeys |-> NoChunk] /\ map_lock = None
            /\ nbdMemory = [c \in NbdChunks |-> NoData]
            /\ nbdReplies = <<>> /\ nbdFault = None
            /\ nbdBlocks = [k \in NbdKeys |-> NoData] /\ nbdDeleted = FALSE

\* ConfigAndRegister registers the proxy, and with it the socket, before the
\* two commands: requests may come in between.
RegisterCmd == /\ \/ m_map = {} /\ m_map' = {"WriteCmd"}
                  \/ m_map = {"WriteCmd"} /\ m_map' = {"WriteCmd", "ReadCmd"}
               /\ UNCHANGED <<nbdSent, nbdParsed, nbdTasks, nbdWorker, chunks_map, map_lock,
                              nbdMemory, nbdReplies, nbdFault, nbdBlocks, nbdDeleted>>

\* The kernel; a write carries the number of its request as data.
SendRequest(type, key) ==
  /\ Len(nbdSent) < NbdRequests
  /\ nbdSent' = Append(nbdSent, [type |-> type, key |-> key])
  /\ UNCHANGED <<m_map, nbdParsed, nbdTasks, nbdWorker, chunks_map, map_lock, nbdMemory,
                 nbdReplies, nbdFault, nbdBlocks, nbdDeleted>>

\* ParseData, called by the mediator, which adds the task to the pool.
ParseData == /\ nbdParsed < Len(nbdSent)
             /\ nbdParsed' = nbdParsed + 1
             /\ nbdTasks' = nbdTasks \cup {nbdParsed + 1}
             /\ UNCHANGED <<m_map, nbdSent, nbdWorker, chunks_map, map_lock, nbdMemory,
                            nbdReplies, nbdFault, nbdBlocks, nbdDeleted>>

Type(h) == nbdSent[h].type
Key(h) == nbdSent[h].key
Become(w, state) == nbdWorker' = [nbdWorker EXCEPT ![w] = state]

\* CmdFactoryTask::Do, on any task: Factory::Create throws WrongKey, which
\* nobody catches, or makes the command.
CreateCmd(w, h) ==
  /\ nbdWorker[w].at = "idle" /\ h \in nbdTasks
  /\ nbdTasks' = nbdTasks \ {h}
  /\ IF Type(h) \in m_map
     THEN Become(w, Worker("new", h, NoChunk, NoData)) /\ UNCHANGED nbdFault
     ELSE nbdFault' = "terminated" /\ UNCHANGED nbdWorker
  /\ UNCHANGED <<m_map, nbdSent, nbdParsed, chunks_map, map_lock, nbdMemory, nbdReplies,
                 nbdBlocks, nbdDeleted>>

\* Both commands begin with operator new; WriteCmd copies its block.
NewChunk(w) ==
  /\ nbdWorker[w].at = "new"
  /\ \E c \in {x \in NbdChunks : nbdMemory[x] = NoData} :
       /\ nbdMemory' = [nbdMemory EXCEPT ![c] =
            IF Type(nbdWorker[w].handle) = "WriteCmd" THEN nbdWorker[w].handle ELSE Uninitialized]
       /\ Become(w, Worker("lock", nbdWorker[w].handle, c, NoData))
  /\ UNCHANGED <<m_map, nbdSent, nbdParsed, nbdTasks, chunks_map, map_lock, nbdReplies,
                 nbdFault, nbdBlocks, nbdDeleted>>

Reply(h) == <<"reply", h>>
Data(value, want) == <<"data", value, want>>

\* WriteCmd::Run under the lock: the chunk that was in the map is forgotten.
WriteLocked(w) ==
  LET h == nbdWorker[w].handle IN
  /\ nbdWorker[w].at = "lock" /\ map_lock = None /\ Type(h) = "WriteCmd"
  /\ chunks_map' = [chunks_map EXCEPT ![Key(h)] = nbdWorker[w].chunk]
  /\ nbdBlocks' = [nbdBlocks EXCEPT ![Key(h)] = h]
  /\ nbdReplies' = Append(nbdReplies, Reply(h))
  /\ Become(w, Idle)
  /\ UNCHANGED <<m_map, nbdSent, nbdParsed, nbdTasks, map_lock, nbdMemory, nbdFault, nbdDeleted>>

\* Mutant of ReadLocked: the lock is given up before the data is sent.
ReadUnlocked(w) ==
  LET h == nbdWorker[w].handle
      mapped == chunks_map[Key(h)]
  IN  /\ nbdWorker[w].at = "lock" /\ map_lock = None /\ Type(h) = "ReadCmd"
      /\ nbdReplies' = Append(nbdReplies, Reply(h))
      /\ Become(w, Worker("reply", h, IF mapped = NoChunk THEN nbdWorker[w].chunk ELSE mapped,
                          nbdBlocks[Key(h)]))
      /\ UNCHANGED <<m_map, nbdSent, nbdParsed, nbdTasks, chunks_map, map_lock, nbdMemory,
                     nbdFault, nbdBlocks, nbdDeleted>>

\* ReadCmd::Run takes the lock, finds its chunk and sends the first half of
\* the answer; its own new chunk is forgotten when the map has one.
ReadLocked(w) ==
  LET h == nbdWorker[w].handle
      mapped == chunks_map[Key(h)]
  IN  /\ nbdWorker[w].at = "lock" /\ map_lock = None /\ Type(h) = "ReadCmd"
      /\ map_lock' = w
      /\ nbdReplies' = Append(nbdReplies, Reply(h))
      /\ Become(w, Worker("reply", h, IF mapped = NoChunk THEN nbdWorker[w].chunk ELSE mapped,
                          nbdBlocks[Key(h)]))
      /\ UNCHANGED <<m_map, nbdSent, nbdParsed, nbdTasks, chunks_map, nbdMemory, nbdFault,
                     nbdBlocks, nbdDeleted>>

\* The second half, from memory that another worker may have deleted, and unlock.
ReadReply(w) ==
  /\ nbdWorker[w].at = "reply"
  /\ nbdReplies' = Append(nbdReplies, Data(nbdMemory[nbdWorker[w].chunk], nbdWorker[w].want))
  /\ map_lock' = None
  /\ Become(w, [nbdWorker[w] EXCEPT !.at = "delete"])
  /\ UNCHANGED <<m_map, nbdSent, nbdParsed, nbdTasks, chunks_map, nbdMemory, nbdFault,
                 nbdBlocks, nbdDeleted>>

DeleteChunk(w) ==
  LET c == nbdWorker[w].chunk IN
  /\ nbdWorker[w].at = "delete"
  /\ IF nbdMemory[c] = NoData
     THEN nbdFault' = "corrupt" /\ UNCHANGED nbdMemory
     ELSE nbdMemory' = [nbdMemory EXCEPT ![c] = NoData] /\ UNCHANGED nbdFault
  /\ nbdDeleted' = (nbdDeleted \/ nbdWorker[w].want # NoData)
  /\ Become(w, Idle)
  /\ UNCHANGED <<m_map, nbdSent, nbdParsed, nbdTasks, chunks_map, map_lock, nbdReplies, nbdBlocks>>

RunCmd(w) == \/ NewChunk(w) \/ WriteLocked(w) \/ ReadLocked(w) \/ ReadReply(w)
             \/ DeleteChunk(w) \/ \E h \in nbdTasks : CreateCmd(w, h)

NbdNext == /\ nbdFault = None
           /\ \/ RegisterCmd \/ ParseData
              \/ \E type \in {"ReadCmd", "WriteCmd"}, key \in NbdKeys : SendRequest(type, key)
              \/ \E w \in NbdWorkers : RunCmd(w)

NbdSpec == NbdStart /\ [][NbdNext]_nbdVars

-----------------------------------------------------------------------------

(***************************************************************************)
(* What the workers write to the one socket can be read by the kernel: one *)
(* reply for each request, and the data of a read right behind its reply,  *)
(* whichever workers answer at the same time.  And until the first chunk   *)
(* that a read has found in the map is deleted, the data is that of the    *)
(* last write of the block, in the order in which the workers take the     *)
(* lock (nbdproxy.cpp:89-101).                                             *)
(***************************************************************************)
RepliesFramed ==
  LET n == Len(nbdReplies)
      IsRead(i) == nbdReplies[i][1] = "reply" /\ Type(nbdReplies[i][2]) = "ReadCmd"
  IN  /\ \A i \in 1 .. n - 1 : IsRead(i) <=> nbdReplies[i + 1][1] = "data"
      /\ \A i, j \in 1 .. n :
           nbdReplies[i][1] = "reply" /\ nbdReplies[i] = nbdReplies[j] => i = j
      /\ n > 0 /\ nbdReplies[n][1] = "data" /\ nbdReplies[n][3] # NoData /\ ~nbdDeleted
           => nbdReplies[n][2] = nbdReplies[n][3]
=============================================================================
