# TLA+ models of the framework, the watch dog and the programs around them

The repository is a collection of C, C++, Python and shell work. Three groups of code are
systems of their own, with threads, processes and callbacks, and get the most detail here:

- the **framework** (`infinity/projects`): a `Reactor` over `select`, a `Mediator` that turns
  readable descriptors into tasks, a `ThreadPool` that runs them, the `WaitableQueue` between
  threads, and around them `NbdProxy`, `Factory`, `Logger`, `Singleton`, `Dispatcher` and
  `DirMonitor`;
- the **watch dog** (`infinity/projects/watch_dog`): two processes that watch each other with
  signals, each with a `Scheduler` over a priority queue;
- **queues without, or with several, locks** (`prepare_for_interview/circle_q`,
  `infinity/quizzes/waitable_fsq.cpp`).

Beside them stand small programs of threads and processes (`infinity/system_programming`),
sequential allocators, containers and algorithms (`infinity/ds`, `infinity/c`, `infinity/cpp_fs`),
and programs that must survive being interrupted (`test_dir/python_tries`: a BIOS update
service and a script that reconfigures a cluster; `homeassistant_script`). They are modelled too,
more briefly.

All paths are relative to `src/`. `PROJECT.json` gives for each definition the lines it models, for
each property mutants of the code that break it, and the hazards the properties are about.

## 1. Inventory

| component | state | operations | who calls it | what is hard |
|---|---|---|---|---|
| `WaitableQueue` | container, mutex, condition variable | `Push`, `Pop`, timed `Pop`, `IsEmpty` | pool workers, killer, logger | notification outside the lock, newcomers overtaking woken threads, timeouts |
| `ThreadPool` | state, task queue, map of threads, queue of threads to bury, `m_paused` | `Add`, `Run`, `Pause`, `Resize`, `Stop` | mediator (tasks), framework | notifications without the mutex, poison apples, interruption points, threads that die while `Stop` walks the map |
| `Reactor` | handlers, `fd_set`s, stop flag, batch of ready descriptors | `Add`, `Remove`, `Run`, `Stop` | mediator; handlers call back | a batch that handlers make stale, exceptions out of handlers |
| `Mediator` | proxies, the reactor and its thread | `RegisterProxy`, `UnRegisterProxy`, destructor | framework, reactor's thread | three unlocked containers changed one after the other under a running reactor, which selects on a copy of one of them; Stop before Run |
| `NbdProxy`, `ReadCmd`, `WriteCmd`, `Factory` | chunks under a lock, creators, a socket | `ParseData`, `operator()`, `Add`, `Create` | reactor's thread, workers | replies of several workers on one socket, chunks deleted while they are in the map |
| `Logger` | queue of messages, file, thread | `Log`, destructor | every thread | the destructor closes the file under a thread that writes |
| `Singleton`, `Handleton` | the instance | `GetInstance`, `DeleteInstance` | every thread, the exit handler | construction by two, use after destruction |
| `Dispatcher`, `Callback`, `DirMonitor`, `DllLoader` | list of callbacks; inotify thread | `Subscribe`, `Broadcast`, deaths; `StopMonitor` | monitor thread | callbacks that die during a broadcast; a thread that sleeps in `read` |
| `Scheduler` | priority queue of tasks, stop flag | `Add`, `Remove`, `Clear`, `Run`, `Pause` | both sides of the watch dog, task functions, signal handlers | sleeps cut short, tasks that change the queue, an ordering off by one second |
| watch dog | per process: scheduler, counter, end flag, pid of the other side; two System V semaphores | `StartWatchdog`, `StopWatchdog`, tasks and signal handlers | user program, kernel | crashes and revivals, asynchronous signals, `EINTR`, a shutdown protocol on shared semaphores |
| `CircularQueue`, `MPMCQueue`, `Waitable_FSQ` | buffer and indices; cells with sequence numbers; ring with two mutexes | enqueue, dequeue; `Push`, `Pop` | any threads | order of accesses, modular indices, stale reads, two locks for one condition |
| producers and consumers, threads that sort and count, thread exercises | semaphores, mutexes, condition variables, shared arrays | thread functions | `main` | semaphores that outlive the program, state read after an unlock, ranges with gaps or overlaps |
| select server, ping pong by signals, over a pipe and over sockets | descriptors, pending signals, a pipe, streams and datagrams | handlers, loops of the two sides | clients, the terminal | stale batches, signals that miss `pause`, short reads, lost datagrams |
| allocators, DHCP, containers, algorithms | memory, trie, nodes, arrays | their interfaces | one caller | boundaries, failed allocations, long sequences of calls |
| BIOS update service | state file, installed version, password | plan actions, update, password changes | init system | power lost at any step |
| `interface_cfg.py` | the cluster's resources | one run per configuration | CLI | runs that die between writes, values from pools |
| Home Assistant scripts | pods, containers, units, files | set-up, remove, backup | administrator | `set -e` at any command, scripts mixed |

Interactions: the mediator's reactor thread calls `GetTaskAddToPool`, which calls a proxy's
`ParseData`, makes a command with the factory and calls `ThreadPool::Add`; pool workers take
tasks through a `WaitableQueue` over a priority queue, and `NbdProxy`'s commands answer on the
socket the reactor watches. The logger's thread takes messages through a `WaitableQueue`; the
directory monitor's thread broadcasts through a `Dispatcher`. In the watch dog the two processes
interact only through `SIGUSR1`, `SIGUSR2`, the semaphores and `fork`.

What makes each correct: a queue delivers each item once, in order, and no thread waits beside an
item; a pool ends with no thread left and as many workers as asked for; the reactor calls only
handlers that exist, but for what its callers take from under it; the mediator's maps agree and each request is one task; replies are whole; an
event reaches every callback once; the log is a prefix of what was said; the scheduler loses no
task and starves none; the watch dog raises no false alarm, revives a side that died and can be
stopped; an allocator's blocks tile its memory as long as it writes only where it has headers; a container holds what was put into it; an
interrupted update or reconfiguration doubles nothing and skips nothing when it goes on.

## 2. Modules

### The core

| module | models | composed of |
|---|---|---|
| `FifoQueue` | what a queue promises: an abstract specification, `sent` and `received` | - |
| `WaitableQueue`, `WaitableQueueProofs` | `waitable_queue_impl.hpp` | implements `FifoQueue` |
| `CircularQueue` | `circle_q.hpp` | implements `FifoQueue` |
| `WaitableFsq` | `quizzes/waitable_fsq.cpp` | implements `FifoQueue` |
| `MPMCQueue` | `mpmc_q.hpp` | - |
| `RingProofs` | theorems about the three rings | extends `CircularQueue`, `WaitableFsq`, `MPMCQueue` |
| `MCQueues` | the four queues for TLC, one driven at a time | extends `WaitableQueue`, `WaitableFsq`, `CircularQueue`, `MPMCQueue` |
| `ThreadPool`, `ThreadPoolProofs`, `MCThreadPool` | `thread_pool.cpp` | uses the queues through what `FifoQueue` promises |
| `Reactor`, `MCReactor` | `reactor.cpp` | - |
| `Mediator` | `mediator.cpp` | extends `Reactor`: both threads on the same variables |
| `ReactorProofs` | theorems about reactor and mediator | extends `Mediator` |
| `TaskQueue` | `ComparFunc`, `SortedListInsert` | - |
| `Scheduler`, `SchedulerProofs` | `watch_dog/include/scheduler.c`, `task.c`, `pqueue.c` | extends `TaskQueue` |
| `WatchDog`, `WatchDogProofs` | `watch_dog.c`, `wd_app/watch_dog_app.c`, `ssemaphore.c` | extends `TaskQueue`; two schedulers |

A step is a stretch of code that no other thread can see the inside of.

- **WaitableQueue.** The lock is held through a call except in a wait, so a step is one stretch under
  the lock; `notify_one`, which `Push` calls without the lock, is a step of its own (`NotifyOne`), and
  a woken thread takes the lock again in another (`Resume`). `Expire` and `ReturnFalse` are the
  timeout, `SpuriousWakeup` the freedom of condition variables. `pushing` and `popping` are the program
  counters; `popped` is a history of what came out.
- **ThreadPool.** Workers go through the gate (three reads of shared state under `m_mutex`), the wait
  on `m_paused`, `Pop` and the task. `Add`, `Run` and `Stop` store first and notify afterwards, as
  two steps, because they do not hold the mutex. An apple (`DoApple`) interrupts its own worker and
  hands it to the killer, which joins it. What the killer erases afterwards is the entry of the default
  id, since a joined `boost::thread` has none (thread_pool.cpp:117-118): a dead thread stays in the map, and
  `Stop` joins it again, which returns at once. `Stop`'s two loops over the map take one thread a
  step. A wait, a join and a `Pop` are interruption points. `late` and `eaten` are history. The accesses to
  `m_threads` are single steps: a tree torn by `operator[]` of a worker beside an insertion is not modelled.
- **Reactor.** A registration is a pair of descriptor and mode; the three `fd_set`s are one set of
  pairs. The vector of ready descriptors is a set whose largest descriptor is taken next, which is
  what `back()` of an ascending vector is. Handlers are calls of `Add`, `Remove` and `Stop` between
  `Dispatch` and `HandlerReturn`, of any registration; `Remove` of something unknown throws, out of the
  handler and of `Run`. `find()` without a test, for a registration that is gone, is the state `undefined`;
  `taken` is the history of what handlers removed from under the batch.
- **Mediator.** The reactor's thread takes the steps of `Reactor`, with its `select` in two: it copies the sets
  (`CopySets`) and waits on the copies, for up to five seconds, until one of them is ready or time is up
  (`LoopSelect`), while the framework's thread goes on. That one runs `Reactor::Add` and `Remove` statement by
  statement, as nothing is locked (`AddFd` with its bound is one, as a descriptor's bit is). A lookup by the
  reactor's thread in a map that the other one is changing may find what is there or go wrong
  (`HandlersTorn`, `ProxiesTorn`). Peers send whenever they like, registered or not: the block device of
  nbdproxy.cpp:157-166 starts before it is registered at 294. `touched` remembers the descriptors whose
  registration changed since the copy of the sets.
- **Queues without locks.** One step for each atomic access and each access to the buffer. Atomic
  accesses are sequentially consistent in the model; the code's acquire and release pairs are
  those a cell needs. `MPMCQueue`'s positions do not wrap. `WaitableFsq` has a mutex for each end
  and loads the other end's index without one; its steps are loads and stores in program order.
- **Scheduler.** Only differences of times matter: `left` is `time_to_execute` less the clock. `Tick`
  may happen between any two steps, so the two calls of `time` in `SchedulerRun` can differ, and the
  unsigned argument of `sleep` wraps (`oversleep`). A signal ends a sleep and may pause the scheduler.
  `stop_flag` is arbitrary at first, as `malloc` leaves it.
- **WatchDog.** Two sides, each with its program counter, queue, counter and flags, and the user's main
  thread. Signals are pending sets (standard signals do not queue); one that arrives before `sigaction`
  kills. A user handler runs in either thread, and ends the semaphore wait or sleep it interrupts.
  Each task is taken statement by statement (`SendSigusr1Task`, `TestEndFlag`, `RaiseCounter`, `TaskReturns`; the
  check likewise), and a handler may run between any two. `Crash` may strike a side at any step. A second
  passes when nothing else can happen, or, up to `MaxFaults` times, while somebody has a step to do (`late`).
  `fork` and `exec` succeed. When a side is forked that still
  lives, or the program after it has stopped the watch dog, `astray` is set and the model ends,
  since the code has no state for two of a kind.

### Services and programs of threads and processes (`MCServices`)

| module | models | state and steps |
|---|---|---|
| `NbdProxy` | `nbd_proxy/nbdproxy.cpp`, `factory_impl.hpp` | requests on the socket, the parsed ones, the worker running each; `minion_manger`'s map of chunks and which memory is allocated. Header and data of a reply are written in two calls under the lock; `ReadCmd` deletes what it has sent |
| `DirMonitor` | `dispatcher_callback_impl.hpp`, `dir_monitor.cpp` | the dispatcher's list, Broadcast's iterator, deaths of callbacks from inside and outside `Notify`; on it the inotify thread and `StopMonitor`'s flag, file and join |
| `Logger` | `logger.cpp`, `singleton_impl.hpp`, `handleton` | queue, file, the half-written message, destructor statement by statement; each load, lock and store of `GetInstance` by three threads, the exit handler |
| `Dhcp`, `AddressPool` | `dhcp.c`; `dhcp.h` | the trie with its `is_full` flags; each call is a step of `AddressPool`, which is what `dhcp.h` promises of a set of leased addresses, or one of the steps that `Deviates` names |
| `ProdCons` | `producers_consumers/ex1` to `ex5` | threads that each move an item; counts left in semaphores by an earlier run; a flag two threads spin on; the barrier under a condition variable |
| `NetGames` | `p_p_server` | `select`'s answer worked off descriptor by descriptor; TCP clients that close, die or reset, split pings, datagrams, the terminal |
| `PingPong` | `ping_pong/ex1` to `ex3`, `ipc/ex2` | by signals: each process a list of calls, pending signals, a handler that runs outside `pause` is a miss; over a named pipe: one pipe for both directions, opened and closed for every message, and the semaphore made in two calls |
| `NetGames` | `tcp_udp`, as a machine of its own | turns over a stream that divides messages as it likes, resets and `SIGPIPE`; datagrams that get lost; broadcasts |
| `ThreadExercises` | `threads/ex1` to `ex6`, `s_s_dictionary.c`, `mt_c_sort` | threads over an array, joined or detached; divisors summed over ranges; ranges sorted or counted by threads, merged while others still sort |

`ServicesProofs` holds the theorems about `Logger` and the singleton, `NbdProxy` and `DirMonitor`; those about `Dhcp` are in
`SequentialProofs`.

They share no state with each other, so a behaviour of `MCServices` drives one of them (`service`)
and leaves the others at rest.

### Programs without threads (`MCSequential`)

| module | models | state and steps |
|---|---|---|
| `Allocators` | `fsa.c`, `vsa.c` | the memory with the free list in it, or the headers in it; the second merges free blocks on its way and steps over a small one by its size without its header, as the code does, and from there reads on whatever lies there (`Strays`) |
| `Containers` | `ds/stack`, `ds/circular_buffer`, `ds/hash`, `ds/bit_array`, `cpp_fs/bit_array` | arrays, words and chains; a history of what should be in them, kept apart from what the code leaves there |
| `Lists` | `ds/dlist`, `ds/slist`, `ds/queue`, `ds/sorted_list`, `ds/pqueue` | nodes with their links; the sorted list as a sequence, for both clients' comparison functions |
| `Trees` | `ds/avl`, `ds/bst`, `ds/avl/review`, `ds/dhcp/review` | nodes, balance fields (stale ones included), iterators; of the versions under review the tree that balances by heights and the trie that counts from its full nodes |
| `Heaps` | `ds/dynamic_vector`, `ds/heap`, `heap_PQ.c`, `min_heap.cpp` | the vector, sifts, both clients' comparison functions, the priority queue on the heap |
| `RefCount` | `rcstring.cpp`, `shared_pointer`, `cpp2c` | objects and the blocks they share, copied, assigned, written and destroyed in any order; the classes of `cpp2c` by the rules of C++ and by the calls of their translations to C, and what each prints |
| `Algorithms` | `ds/utils`, `ds/knight_tour` | a call replaces the array; the calculator's two stacks token by token; the knight's path on the board, by both versions of Warnsdorff's walk, and what is printed of it |
| `WorkSheets` | `c/ws2`, `c/recursion`, `slist/part 2`, `c/ws3`, `c/ws6`, `c/ws9` | a buffer whose bytes behind a terminator stay; nodes linked in every way; numbers and words |
| `BiosPlan`, `BiosUpdate`, `MCBiosPlan` | `bios_update_tools.py`, `bios-update.py` | the state file (also half written), the action under way, version and password; power lost at any step |
| `InterfaceCfg` | `interface_cfg.py` | the cluster's resources and a run's plan; a run may die at every call of the cluster |
| `HomeAssistant` | `homeassistant_script` | pods, containers, unit and files of the user and of root; every command may fail and end its script |

One behaviour of `MCSequential` drives one of them (`structure`). `SequentialProofs` holds the theorems about `Allocators`,
`BiosUpdate` and `Dhcp`; their loops and descents are recursive functions rather than `RECURSIVE` operators, so that
the prover can reason about them.

## 3. Runs

| run | question and result |
|---|---|
| `queues` | the four queues, one at a time. `WaitableQueue` with 2 producers of 2 items and 3 consumers: no wakeup is lost (`NoLostWakeup`). `CircularQueue` with 3 cells and 12 items: producer and consumer are never in one cell (`CellsDisjoint`). `MPMCQueue` with 2 producers, 2 consumers, 2 cells: one thread in a cell, and it reads the item of its position (`MpmcExact`). `WaitableFsq` with 3 cells, three calls of Push by 2 writers, and 2 readers. Three of them are FIFO queues (`ImplementsFifo`, `CqImplementsFifo`, `FsqImplementsFifo`), and no item stays in the `WaitableQueue` beside somebody who waits for it (`ItemsArrive`); `WaitableFsq` has no such promise, since it loses notifications |
| `thread_pool` | 2 workers growing to 3, three calls: `ResizeBalance`, `StoppedMeansDone`, `OneTaskAfterPause`, `StopReturns` |
| `thread_pool_lost_wakeup` | **violated**: `Run` stores and notifies between a worker's test and its wait; the added task is never run (`RunningPoolWorks`) |
| `reactor` | handlers that add, remove (their own or another's registration), throw and stop: `MapMatchesSets`, `BatchHasHandlers`, `StopEndsRun`, `ReadyReadIsCalled` |
| `mediator` | registration, overwriting and removal beside a reactor that waits, looks up and calls: `NoMissingHandler`, `MapsAgree`, `RequestsConserved`, `RequestServed` |
| `mediator_destructor` | **violated**: `Stop` before the thread has entered `Run` is forgotten, and the join does not return |
| `scheduler` | 3 tasks of intervals 0 to 2: `NearlySorted`, `SleepsOverNothing`, `TasksConserved`, `TaskGetsItsTurn`, `PauseStopsRun` |
| `watch_dog` | one crash or one second of lateness at any step: `NoFalseAlarm`, `HeartbeatOnTime`, `CrashedSideComesBack`, `StopReturns` |
| `watch_dog_heartbeat` | **violated**, without crash or lateness: the queue's order puts the heartbeat behind the check, and it goes out every two seconds, where the diagram says "every second" (`HeartbeatEverySecond`) |
| `services` | the replies of the block device stay whole (`RepliesFramed`), every callback gets every event once (`EveryEventOnce`), the log is a prefix of what was said (`LogIsPrefix`), nobody gets two instances (`OneInstance`), what is handed over arrives once (`HandedOverOnce`), every call of DHCP is one of `AddressPool` or a named deviation (`DhcpImplementsPool`), and what is told to stop or has an end gets there (`EverythingEnds`) |
| `sequential` | the blocks of the allocators tile their memory until one writes where no header is (`AllocatorsTile`), containers hold what was put into them (`ContainersAgree`), algorithms agree with their definitions and headers (`AlgorithmsAgree`), the BIOS service knows the password that is set, and without force no version it left comes back (`BiosKeepsTrack`), and runs that die at any step double and skip nothing: no value of a pool is given out twice, plans of BIOS actions are executed in their order, a script that ends has done its work (`ReconfigurationSound`). The last is about safety: that a later run repairs what an earlier one left is not claimed, and not always so (see below) |
| `bios_retry_limit` | **violated**: an attempt interrupted by a loss of power is not counted, so an action is tried more often than its limit, where SRD.md:153 says that "failure limits survive interruption" (`RetryLimitSurvives`) |

The conjunctions of `services` and `sequential` are made of one named part for each program,
defined in its module with a comment that says what it is about.

Some properties hold under a condition that the code does not enforce, or name the case in which it departs
from its header, and say so in their comments:

- `BatchHasHandlers` excepts STDIN and the registrations another handler removed from under the batch;
  `NoMissingHandler` the descriptor that is being (un)registered and lookups in a map under change, and
  `RequestServed` what comes after such a call;
- `SleepsOverNothing` and the scheduler's two liveness properties except the sleep of 2^32 seconds (`oversleep`),
  which the first shows to need two seconds between two readings of the clock;
- `NoFalseAlarm` allows one second of lateness; with two a false alarm is reachable. `CrashedSideComesBack`
  excepts a crash before the side has posted its semaphore. `StopReturns` excepts crashes, calls before both sides
  were in their schedulers (`early`), and runs in which a second process is forked (`astray`);
- `AllocatorsTile` ends where `VSAAlloc` writes at an address without a header (`vsaLost`);
  `ContainersAgree` excepts lists that lost their elements (`slLost`), tables that could not be made
  (`hashState`) and bit arrays after a faulty call (`bitArrayFlaw`); `StringsAgree` lists the calls in which
  `string.c` departs from `string.h`; `DhcpImplementsPool` those of `Deviates`;
- `BiosKeepsTrack` excepts a loss of power in the middle of the change of a password (`pwSmooth`), and `PlanResumes`
  counts as many additional attempts as results were lost (`lostRuns`);
- `RepliesFramed` promises data until a chunk in the map is deleted, `EveryEventOnce` up to an erase under the iterator;
- the programs that play ping pong go on as long as no signal misses its `pause`, no datagram is lost, every
  read gives a whole message and the semaphore is not set too late.

The inputs of the sequential programs are those for which the code is defined; where it is not, section 6 says so.

### What the models show beside the violated properties

- **ThreadPool.** `KillerThread` joins a poisoned worker and then erases `get_id()` of it (thread_pool.cpp:117-118),
  which after a join is the id of no thread: nothing is erased, and `m_threads` keeps the dead until `Stop`.
- **WaitableFsq.** Push notifies under the write mutex, Pop tests and waits under the read mutex: a notification
  between test and wait is lost, and a Pop without timeout may sleep beside an item until the next Push.
- **Reactor.** `Run` blocks "until all FD's are removed or Stop() called" (reactor.hpp:31), but its loop
  tests only the flag (reactor.cpp:37): it goes on without descriptors. A handler that removes a registration that is
  ready in the same batch makes `Run` call through `map::end()` (reactor.cpp:44), and so does a line typed on STDIN.
- **Mediator.** A descriptor is watched before its handler is in the map and its proxy freed before its handler
  goes, so one that sends early, or is unregistered while it sends, ends the reactor's thread the same way.
- **Scheduler.** A task may stand in the queue behind one that is due a second later, because `ComparFunc`
  adds one while `SortedListInsert` passes equal tasks already. When two seconds pass between the two calls
  of `time`, the argument of `sleep` wraps.
- **Watch dog.** The same order makes the heartbeat go out every two seconds (`watch_dog_heartbeat`). The counters
  tolerate that and one second of lateness; two late seconds can make a side fork the other one while it lives.
  A side that dies before it has posted its semaphore leaves the other waiting for ever. `StopWatchdog` need not
  return if the watch dog dies meanwhile: nobody answers its SIGUSR2. While the watch dog is being stopped the check
  task may see a counter that nobody clears any more and fork another one (`astray`).
- **DHCP.** An address whose leaf alone is missing counts as occupied (dhcp.c:236): who names it gets the smallest
  one although dhcp.h:43 promises it while it is free, and giving it back dereferences NULL (dhcp.c:366-372) where
  dhcp.h:98 has `DOUBLE_FREE`. The neighbour, in the last bit, of every address that was leased first
  of the two is such an address, and an allocation that runs out of memory leaves one behind. The network's number in a call is shifted away (dhcp.c:165, 347): who
  names an address of another network gets, or gives back, the one with its host bits (dhcp.h:45 promises the smallest).
- **Variable-size allocator.** A search for more than there is steps over the free block by its size without its
  header (vsa.c:170) and reads on inside it, already in a new allocator. Depending on what lies there it returns NULL, as
  vsa.h:37-38 promises, goes on elsewhere, merges or hands out memory that belongs to others.
- **Containers.** `SlistRemove` of the last element by its iterator sets the head to it, so that a longer list loses its
  other elements (slist.c:146-150; slist.h:119-125 promises to remove one). A `HashCreate` that runs out of memory returns
  a table without its array or one already freed (hash.h:59: NULL), and `HashInsert` returns 1 on success and 0
  on failure, the reverse of hash.h:104. With N a multiple of 64, which is the default of bit_array.hpp:12,
  `Set()` and `Flip()` write the word behind the vector and shift by the whole width (bit_array_impl.hpp:226-231);
  `CheckPos` lets N itself through (:239-246); `BitProxy::Flip` negates the word whose number is the bit's position
  (:310-314); `operator^=` returns nothing (:70-74).
- **Sorted list.** `SortedListMerge` puts equal elements of the source in front of those of the destination.
- **Home Assistant.** A failing `tar` ends backup.sh at line 82, under `set -e`, with the pod stopped: the
  `else` branch (88-90) is not reached, and the next backup takes the pod for one that was not running.
  `print_error` of the gemini script (20-28) calls itself without end as root, and the file it installs as a
  unit holds the names that `podman generate systemd --files` prints. `print_error` of ha-create-root.sh
  (18-25) removes a working pod when only the dongle is missing. An install rewrites the password file blank
  first, so dying there leaves a broker without users; one made by root makes a later install by the
  user fail. Removal by one script leaves the other's unit. None of this is made good by running the scripts again.
- **interface_cfg.py.** A run that dies between the writes of OLTs and applications (1120-1121) leaves OLTs
  that name an application which does not exist. `get_new_spa_pods` uses the old load again in each attempt,
  so too many pods are asked for and a `KeyError` comes after the OLTs were written. A failed OLT is listed twice
  after the next run; an external-traffic OLT with global tunnel data ends the next run with a `TypeError`; values
  of protected OLTs are not reserved; `apply_module_mgmt` deletes from what it enumerates; a workload created
  before a crash never gets its protection group. What a run of the SPA balancing leaves that dies between its writes is repaired by no
  later run, so the model does not follow it further (`SpaDies`).
- **Ping pong.** A signal between `kill` and `pause` stops the game. In ex3 ping is killed if the answer comes before
  its `sigaction`; in ex2 a failing `execv` makes the child go on as a parent. Over the pipe, `SETVAL` after the other
  side's `semop` makes both wait, and so does opening the old pipe before it is unlinked. Over a stream a
  short read puts the server ahead, and `SIGPIPE` ends the client; a lost datagram leaves both waiting, and
  an uninitialised `len` of `recvfrom` may make every turn fail. The select server takes an empty line for
  "quit" (any prefix will do), spins when the terminal is at its end, and is ended by `SIGPIPE` at the second
  write to a client that has closed.
- **Threads.** The ranges of the divisor exercises overlap by one, and the rest of a range that is no multiple
  of the number of threads is left out; ex6 sums without a lock; ex3 joins threads it has detached.
- **BIOS plans.** A loss of power while the state file is written leaves it empty or half written, and every later
  run ends in `json.load` before its first action (bios_update_tools.py:55, 541-543), where SRD.md:13 and 151 promise
  to start the plan's state anew. A state file that cannot be opened for writing keeps the old state: that attempt, too, is
  not counted.
- **C work sheets.** `Strcat` and `Strncat` put the terminator one byte too far, `Strdup` puts none (string.h:63-107);
  `Strncpy` does not pad (string.h:27); `Strspn` gives 0 when every character is accepted (string.h:122-129),
  `Strcasecmp` 0 when the first text is a prefix of the second (string.h:46), `Strstr` does not find the empty text in the
  empty one, `RemoveExtraWS` loses a single letter and keeps tabs behind blanks. `Strchr` of the terminator gives the
  beginning. `FindIntersection` gives the end of the second list when there is none. `FibonacciIteratively(0)` is 1, its
  recursive twin 0. `Itoa` terminates only negative numbers and has no digit for 0.
- **Producers and consumers.** The consumer of ex4 reads the semaphore's value and sets it in two calls (ex4.c:127,132): what
  is posted in between is lost.
- **RCString.** A `char&` kept from `operator[]` writes into all copies made afterwards.

### Bounds, and why they are enough

- Threads: a lost wakeup needs a waiter, a newcomer and a notifier; three consumers give one more.
  A pool of three has a worker that is poisoned, one that works and one that is new. Three threads that
  want one instance are a maker, one that waits for the lock and one that sees the pointer.
- Queue cells and items: 12 items in 3 cells go round four times. Three cells of `WaitableFsq` hold two items, so that
  Push and Pop overlap, order matters, and three items bring both indices round the ring once; 2 readers and
  2 writers queue for each end's mutex. 2 cells and 4 items of `MPMCQueue` let every producer and consumer go
  round once beside a stalled thread.
- Descriptors: STDIN and two more let a handler run before and after another in one batch.
- Calls (`MaxCalls`): three or four reach every order of add, remove, stop, resize and run that differ.
- Scheduler: three tasks are the least with which a queue can be out of order by insertion next to
  a third; intervals 0, 1, 2 are the ones within and beyond the one-second slack. `MaxLate` bounds only
  how long user code may take.
- Watch dog: one fault, a crash or a second of lateness (`MaxFaults`), since a crash while another is repaired leaves
  nobody to repair it, and two late seconds make a false alarm (`NoFalseAlarm` allows for one). `StopFaults = 0`: the
  fault does not come before the call of `StopWatchdog`, but may come during it.
  Semaphores saturate at `MaxSem = 2` instead of 32767: two tokens are already more than the protocol
  needs. Counts above 3 and lateness above 3 seconds are not told apart.
- Block device: three requests of two blocks by two workers: one is answered while another writes and
  a third waits in the map. Three callbacks: the one before, at and behind the iterator.
- DHCP: addresses of 4 bits, of which 1 is the subnet: a trie of three levels, filled, emptied and refilled, with
  calls for the addresses of the other network too.
- Programs of rounds: three rounds (four over sockets) are a first, a middle and a last one; leftovers 0 and 2
  in a semaphore are a clean start and one that lets two threads through.
- Bit arrays: one of exactly a word, which is the default, and one of a bit more.
- Allocators: 13 words hold three smallest blocks, so that a free one has a used or free one on each side.
- Trees of 5 and 6 keys have every rotation and every kind of removal; heaps of 6 have nodes with none, one and two
  sons on two levels; lists of 4 or 5 nodes have ends and a middle when a splice takes some of them.
- Sorts: all sequences of up to 5 of five numbers of both signs and of one and two digits, which includes
  equal ones; integers are 8 and sizes 16 bits wide (`SortIntBits`, `SortSizeBits`), where the code has 32 and 64.
- BIOS: two lost results (`BiosLosses`: the power goes, or the state file cannot be opened), of which the second may
  strike the recovery from the first; plans of up to three
  actions, one with a reset.
- Scripts: three runs are one that dies, one that finds what it left, and one that finds what the second made of it.

- The reviewed trie has 3 bits of host and bytes of 4 values: all addresses, and all texts of addresses, are read.
  The reviewed Warnsdorff walk is started on boards where it gets stuck as well as on the 8 by 8 board of the call.

Two things the sequential modules state as the code has them, without a promise that is broken by it: in
`ds/dhcp/review/dhcp.c` a requested address is looked up by other bits than the first free one (`LeafAsked`), so what
`RvTrieCounts` says is of numbers of leaves, not of addresses; the walk of `review/knight_tour.c` that gets stuck calls
itself until the stack ends (`"overflow"`), which on the 8 by 8 board it never does.

### Fairness, and why the code justifies it

Threads and processes are scheduled, so a thread that can take a step inside a call takes one (weak
fairness on the steps of each thread). Nobody is obliged to call: calls of `Push`, `Add`, `Stop` and
so on have no fairness. Tasks and handlers return. Time passes, and pending signals are delivered.
`select` reports a descriptor that can be read. Signals, crashes, spurious wakeups, timeouts, late
wake-ups, losses of power and commands that fail have none. In `services` the fairness is that of the
thread which does the work, of the one that stops or answers it, and of each client.

Deadlock is checked in the run `scheduler`. The others may stop: calls and items are bounded, and
after `Stop`, a destructor, `astray` or the end of a program nothing is left to do; there the liveness
properties take the place of the deadlock check.

## 4. Proofs

Each theorem is `Spec => []P` or a refinement, for every value of the constants: any numbers of
threads, items, calls, requests, callbacks. Where the property is not inductive the module states
the invariant that is, as a conjunction of named parts, with one lemma per action below it.

| theorem | for every | the inductive invariant, and why it is needed |
|---|---|---|
| `WaitableQueueProofs!TypeCorrect` | finite sets of threads, any number of calls | inductive as it stands |
| `WaitableQueueProofs!NoWakeupIsLost` | same | `NoLostWakeup` is not inductive: when the last woken thread takes the first of two items nothing says that another wakeup is under way. `EnoughWakeups` counts: while a thread waits there are at most as many items as notifications to come and woken threads together |
| `WaitableQueueProofs!FifoRefinement` | same | `Push` is `Send`, a `Pop` that finds an item is `Receive`, every other step stutters |
| `RingProofs!Invariance` | `CqCapacity > 0`, any number of items | the cells from head to tail hold the items in transit, in order; a thread inside a call has seen room, or an item, that the other cannot take away |
| `RingProofs!NoTornRead` | same | from the invariant: a producer about to write has `Succ(tail) # head`, a consumer about to read has `head # tail` |
| `RingProofs!FifoRefinement` | same | the stores of tail and head are `Send` and `Receive` |
| `RingProofs!FsqInvariance` | `FsqSize > 0`, any disjoint sets of writers and readers | `FsqInv`: each end's mutex has one holder (`FsqMutex`), the cells between the indices hold what was sent and not received (`FsqCells`), and what a thread has seen past its test stays true although the other end moves its index without a common lock (`FsqPassed`) |
| `RingProofs!FsqRefinement` | same | the store of `m_write` is `Send`, that of `m_read` is `Receive` |
| `RingProofs!MpmcInvariance` | capacity of at least two, any disjoint sets of threads | `MpmcInv` relates a cell's sequence number to the position it stands for: a claimed position has one owner, a thread that compares has a position whose cell no one else can be in, and a published cell holds the item claimed for it. Positions that share a cell are a multiple of the capacity apart (`ModSucc`, `ModPlus`) |
| `RingProofs!MpmcHandsOverOnce` | same | from the owners: two threads in one cell would own one position, or positions a round apart, of which the later cannot be claimed yet |
| `ReactorProofs!MapAgrees` | any descriptors and calls | `MapMatchesSets` with the types is inductive; the exception of `Remove` leaves both without the registration |
| `ReactorProofs!NoStaleDispatch` | same, whatever handlers remove | inductive on the first; `Back` is the largest entry of the batch (`BackInBatch`), so an entry loses its handler only while it is in hand or by another's `Remove`, which `taken` records until it is added again |
| `ReactorProofs!MediatorInvariance` | any descriptors, calls and requests, peers that send at any time | `MInv`: what the three containers hold after each statement of the two calls, that batch entries have unread requests, that a batch entry whose descriptor was not touched since the copy of the sets has its handler and proxy, and the sum of what waits |
| `ReactorProofs!MediatorTypes`, `ProxiesMatchHandlers`, `OnlyTouchedIsMissing`, `OneTaskPerRequest` | same | from its parts. `NoMissingHandler` speaks of the step into `undefined`. The sum over descriptors is a function of partial sums; facts about it take a smallest counterexample instead of an induction |
| `ThreadPoolProofs!PoolInvariance` | any `InitThreads <= MaxThreads`, tasks and calls | `PoolInv`: a thread that runs is in the map or about to be put there (`PoolDone`); a worker that took a task since the pause is not past the gate (`PoolPause`); one that ate an apple is on its way out (`PoolEaten`); the balance in the middle of `Resize` and `AddPoisonApple` (`PoolBalance`); threads are numbered as they are made (`PoolNumbers`) |
| `ThreadPoolProofs!PoolTypes`, `ApplesBalance`, `StopLeavesNobody`, `PauseHolds` | same | `ResizeBalance` is not inductive: it speaks of the time between calls, `PoolBalance` of every step. For `StoppedMeansDone` the threads `Stop` has passed must stay dead |
| `SchedulerProofs!Invariance` | any set of intervals, any number of tasks | types, `NearlySorted`, and that the task taken is due at most a second after every other (`TakenFirst`), which sleeping over a task is about |
| `SchedulerProofs!OrderUpToASecond` | same | insertion at the place `SortedListInsert` finds keeps the slack at one second (`InsertKeepsOrder`), removal and the passing of time keep it |
| `SchedulerProofs!NoTaskSleptOver` | same | from `TakenFirst`, and from `Stalled`: a task whose time was to come at the test is late at the second reading of the clock only by what went by between the two |
| `SchedulerProofs!EveryTaskInOnePlace` | same | inductive with the types; insertion adds one uid (`InsertAddsOne`), removal takes one (`RemoveTakesOne`), time changes none |
| `ServicesProofs!SingletonInvariance`, `OneInstanceForAll` | any set of threads | `SgInv`: the mutex has one holder, and only a thread that holds it and has seen no instance makes one; after the exit handler began the two classes differ (`SgReplaced`, `SgDeleted`) |
| `ServicesProofs!LoggerInvariance`, `FileIsPrefix` | any clients and messages | `LogInv`: what was pushed is what the file has, what the thread holds and the queue, in this order |
| `ServicesProofs!NbdInvariance`, `RepliesAreFramed` | any workers, chunks, blocks and requests | `NbdInv`: a request is in one place (socket, tasks, one worker, answered), between header and data a worker holds the lock, and, until the first chunk in the map is deleted, a chunk in the map holds its block's data |
| `ServicesProofs!DirInvariance`, `EventsReachEveryone` | any set of callbacks, any number of changes | `DirInv`: the list has no callback twice, the iterator stands on a node or at the end, and a callback has seen the event in hand exactly if the iterator has passed it |
| `WatchDogProofs!WatchDogTypes` | any number of crashes and late seconds, any range of the semaphores | types, and that a side which holds a task has at most one other in its queue |
| `SequentialProofs!TrieInvariance` | any numbers of bits, at least two of them for hosts, and any network | `DhcpInv`: with a node the trie has the nodes above it, and an inner node is full exactly if both nodes below it are. `Occupy` marks level by level on the way back (`Marked`) |
| `SequentialProofs!TrieIsAPool` | same | the set of leased addresses is that of the full leaves; the descent of `SmallestIp` passes only addresses that are taken (`Descended`), so a free leaf it finds is the smallest, a full node on its way means that there is none, and an address that counts as occupied without being leased is one of `Deviates` |
| `SequentialProofs!UpdateInvariance`, `UpdateKeepsTrack` | any set of versions | from the first call of `syscfg` on, the password in use is the one that is set, and where it is being changed a run without failures ends with one the next run tries (`PasswordInHand`); without force, versions go up (`VersionsGoUp`) in the order that `compare_bios_versions` defines (`Earlier`: irreflexive and transitive, over versions of different lengths too), so one that was left cannot come back |
| `SequentialProofs!AllocatorsInvariance` | any memory and block sizes | `FsaInv`: the list from `next_free` has each free block once and 0 behind the last. `VsaInv`, as long as nothing was written where no header is: headers are where the block before ends and nowhere inside one (`Tiled`), and a block handed out is marked used and at least as large as was asked for, every other one free (`MarkedAs`); a search may start at any header and merge from there (`TakesKeeps`), as one does that read where none is. The loops take their turns for fewer than `VsaMemory` times, because each turn moves the end of the block in hand |
| `SequentialProofs!AllocatorsDivideTheMemory` | same | from the invariant; when nobody has a block the walk merges everything into one (`MergesAll`) |

The prover has no induction over data. What a recursive function computes is proved from two lemmas of
`SequentialProofs`: a function defined by a first value and a step exists (`Recursion`),
and a set of numbers that is not empty has a smallest one (`Smallest`), so a counterexample would have a smallest one.

The assumptions are stated in the modules with the constants, and TLC evaluates them in the runs:
finite sets of threads (`ThreadsAssumption`), natural bounds, positive capacities (for `MPMCQueue` at least
two: with one cell the sequence numbers of a full and an empty cell are the same), threads of the
two ends that are not the same (`FsqAssumption`, `MpmcAssumption`), and that no thread, task or callback
is one of the values that stand for "nobody" (`SingletonAssumption`, `CallbacksAssumption`,
`NbdAssumption`, `PoolAssumption`). Semaphores can be raised at all (`WatchDogAssumption`). Versions are sequences of pairs
of numbers (`VersionsAssumption`), blocks of the fixed-size allocator are not empty (`FsaAssumption`). Two assumptions
exclude what the code accepts and does not serve: with a single host bit both addresses are reserved, `DhcpInit`
leaves the root without `is_full`, and every call ends at a full leaf (`DhcpAssumption`); a memory of exactly
two headers passes `VSAInit`, whose first header then reads as the end (`VsaAssumption`). The bounds on calls, items and lateness are constants, so the
theorems hold for all of them. The exceptions that some of the properties name (section 3) are part of what is proved.

One proof changed what is claimed. `RepliesFramed` promised the data of a read until a worker
deleted a chunk *it had replied with*; the attempt to prove it showed that with three workers a chunk that is in
the map can be deleted, allocated again and filled by somebody else before the first reader replies.
The property now ends with the first delete of a chunk that is in the map (`nbdDeleted`).

Only model-checked:

- liveness (`ItemsArrive`, `StopReturns`, `StopEndsRun`, `ReadyReadIsCalled`, `RequestServed`, `TaskGetsItsTurn`,
  `PauseStopsRun`, `CrashedSideComesBack`, `EverythingEnds`): the prover has no fairness and no `ENABLED`;
- `NoFalseAlarm` and `HeartbeatOnTime`: with the statements of the tasks, handlers between them and lateness, the
  places of the two processes in a second are too many to write down as an invariant;
- `ContainersAgree`, `AlgorithmsAgree`, `ReconfigurationSound` and `HandedOverOnce`: each is a conjunction over many programs,
  some of which walk trees, lists and ranges with `RECURSIVE` operators or compare a computed sequence with its definition
  (a sort, a calculator), which takes an induction over data for each of them.

## 5. Plan

Done: the models of all parts listed in section 1, and the theorems above. Left for later:
the programs of threads in `HandedOverOnce` one by one, the plans of BIOS actions (`PlanResumes`), the heartbeats of the watch dog, and the containers,
with their walks written as recursive functions as those of the allocators are.

## 6. Not modelled

- `FrameWork`: its constructor does not compile, its methods forward to the mediator and the factory.
- `Xml`, `Nbd`, `PQWrapper`: a library's reading of a file, one thread in a loop of the kernel, three calls of
  `std::priority_queue`.
- The promise of `FutureTask`: a task is opaque to the pool. A closed peer, whose null command the mediator dereferences.
- A tree of `std::map` torn by two threads (`ThreadPool::m_threads`, the maps of the mediator beyond the failing lookup);
  a variable-size allocator after it has written where no header is.
- Weak memory orders. Failure of `fork`, of the semaphores' creation and, except where named above, of `exec`.
- Pipes, message queues and shared memory of `ipc/ex1`, `ex3`, `ex4`; the simple watch dogs: one message or one
  process, no answer.
- The parts of `interface_cfg.py` that translate one configuration into another without choosing or keeping anything.
- Work sheets that print, read keys or define a value class; `IsPowLoop` and `Atoi`, which do not compile or
  link; `INT_MIN` in `Itoa`, `AddOneLoop(-1)`, `IsThreeOn` of negative numbers and `Josephus` of fewer than
  two, for which the code overflows, runs off its array or does not end. For the same reason
  `HasLoop` of a list of one node, `RemoveExtraWS` of blanks only, and `extractMin` of the last element's message are left out.
- `dhcp_daher.c` and the scheduler and heap scheduler of `ds/scheduler`, which are modelled in their later versions;
  experiments in `test_dir` and `prepare_for_interview`, generators, scripts that run a fixed list of commands: no state
  of their own, or the same code again.
