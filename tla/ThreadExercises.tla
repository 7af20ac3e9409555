-------------------------- MODULE ThreadExercises ---------------------------
(***************************************************************************)
(* The programs in which threads share an array: the exercises of threads/ *)
(* and the sorts by threads.                                               *)
(***************************************************************************)
EXTENDS Integers, Sequences, FiniteSets, SequencesExt, FiniteSetsExt

-----------------------------------------------------------------------------
(***************************************************************************)
(* system_programming/threads: an array whose elements threads fill and    *)
(* print, one thread for each (ex1 and ex2 in one file, and ex3, where the *)
(* threads detach themselves), and the divisors of a number summed by      *)
(* threads that have a range of candidates each (ex4, ex5, and ex6 with    *)
(* OpenMP inside each thread).                                             *)
(***************************************************************************)

CONSTANTS SIZE_OF_ARR,     \* 100000 in the source
          PROCESS_LIMIT,   \* 32000 in ex4, 8 in ex5 and ex6
          DivNumbers       \* the numbers to take apart; 3200000000

VARIABLES teProgram,   \* "ex1", "ex3", or <<"ex4", number>> and so on
          teMain,      \* main: what it does and its i
          teThreads,   \* threads that were created and have not run yet
          teArr,         \* the array; 0 where nobody was
          tePrinted,   \* what was printed: <<index, value>>
          teSum        \* sum_of_divisors_atomic, and the threads' results

threadVars == <<teProgram, teMain, teThreads, teArr, tePrinted, teSum>>

Indexes == 0 .. SIZE_OF_ARR - 1
Workers == 0 .. PROCESS_LIMIT - 1
Summing == teProgram[1] \in {"ex4", "ex5", "ex6"}

ThreadsStart ==
  /\ teProgram \in {<<"ex1", 0>>, <<"ex3", 0>>} \cup ({"ex4", "ex5", "ex6"} \X DivNumbers)
  /\ teMain = [at |-> "update", i |-> 0]
  /\ teThreads = {} /\ tePrinted = <<>>
  /\ teArr = [i \in Indexes |-> 0]
  /\ teSum = [total |-> 0, of |-> [k \in Workers |-> 0]]

-----------------------------------------------------------------------------
(* The array *)

\* Mutant of CreateUpdates: nobody is joined.
CreateUpdatesNoJoin ==
  /\ teProgram[1] = "ex1" /\ teMain.at = "update"
  /\ \/ /\ teMain.i < SIZE_OF_ARR
        /\ teMain' = [teMain EXCEPT !.i = @ + 1]
        /\ teThreads' \in {teThreads, teThreads \cup {<<"update", teMain.i>>}}
     \/ /\ teMain.i = SIZE_OF_ARR
        /\ teMain' = [at |-> "print", i |-> 0]
        /\ UNCHANGED teThreads
  /\ UNCHANGED <<teProgram, teArr, tePrinted, teSum>>

\* The first loop of main.  Where ex1 cannot have a thread it goes on.  Behind
\* the loop it joins the last one; when that could not be created the join
\* has nothing to wait for.
CreateUpdates ==
  /\ teProgram[1] = "ex1" /\ teMain.at = "update"
  /\ \/ /\ teMain.i < SIZE_OF_ARR
        /\ teMain' = [teMain EXCEPT !.i = @ + 1]
        /\ teThreads' \in {teThreads, teThreads \cup {<<"update", teMain.i>>}}
     \/ /\ teMain.i = SIZE_OF_ARR /\ <<"update", SIZE_OF_ARR - 1>> \notin teThreads
        /\ teMain' = [at |-> "print", i |-> 0]
        /\ UNCHANGED teThreads
  /\ UNCHANGED <<teProgram, teArr, tePrinted, teSum>>

\* The second loop: each thread is joined before the next is created.
CreatePrints ==
  /\ teProgram[1] = "ex1" /\ teMain.at = "print"
  /\ ~\E i \in Indexes : <<"print", i>> \in teThreads
  /\ \/ /\ teMain.i < SIZE_OF_ARR
        /\ teMain' = [teMain EXCEPT !.i = @ + 1]
        /\ teThreads' = teThreads \cup {<<"print", teMain.i>>}
     \/ /\ teMain.i = SIZE_OF_ARR
        /\ teMain' = [teMain EXCEPT !.at = "ended"]
        /\ teThreads' = {}
  /\ UNCHANGED <<teProgram, teArr, tePrinted, teSum>>

\* Both loops of ex3: a thread is created by as many attempts as it takes, and
\* detaches itself, so that the join may come back without it.  When main
\* returns the threads that are left are gone.
CreateDetached ==
  /\ teProgram[1] = "ex3"
  /\ \/ /\ teMain.at # "ended" /\ teMain.i < SIZE_OF_ARR
        /\ teMain' = [teMain EXCEPT !.i = @ + 1]
        /\ teThreads' = teThreads \cup {<<teMain.at, teMain.i>>}
     \/ /\ teMain.at = "update" /\ teMain.i = SIZE_OF_ARR
        /\ teMain' = [at |-> "print", i |-> 0]
        /\ UNCHANGED teThreads
     \/ /\ teMain.at = "print" /\ teMain.i = SIZE_OF_ARR
        /\ teMain' = [teMain EXCEPT !.at = "ended"]
        /\ teThreads' = {}
  /\ UNCHANGED <<teProgram, teArr, tePrinted, teSum>>

\* UpdateTheArrayByIndex, PrintTheArrayByIndex.
RunThread(t) ==
  /\ t \in teThreads /\ teThreads' = teThreads \ {t}
  /\ teArr' = IF t[1] = "update" THEN [teArr EXCEPT ![t[2]] = t[2]] ELSE teArr
  /\ tePrinted' = IF t[1] = "print" THEN Append(tePrinted, <<t[2], teArr[t[2]]>>) ELSE tePrinted
  /\ UNCHANGED <<teProgram, teMain, teSum>>

-----------------------------------------------------------------------------
(* The divisors *)

RANGE_OF_THREAD(number) == number \div PROCESS_LIMIT

\* Mutant of DivisorsOf: the ranges begin one too early.
DivisorsOfFromZero(number, index) ==
  LET start == RANGE_OF_THREAD(number) * index
  IN  {i \in start .. (start + RANGE_OF_THREAD(number)) : i > 0 /\ number % i = 0}

\* ThreadNumOfDivisors: both ends of the range belong to it.
DivisorsOf(number, index) ==
  LET start == RANGE_OF_THREAD(number) * index + 1
  IN  {i \in start .. (start + RANGE_OF_THREAD(number)) : number % i = 0}

\* OneHundredKArr: all threads are created, each by as many attempts as it
\* takes.
CreateWorkers ==
  /\ Summing /\ teMain.at = "update"
  /\ teMain' = [at |-> "join", i |-> 0]
  /\ teThreads' = Workers
  /\ UNCHANGED <<teProgram, teArr, tePrinted, teSum>>

\* A thread adds up its range.  With OpenMP, in ex6, threads of its own add to
\* one variable without a lock, and any of the additions may be lost.
ThreadNumOfDivisors(k) ==
  /\ k \in teThreads /\ teThreads' = teThreads \ {k}
  /\ LET all == DivisorsOf(teProgram[2], k)
     IN  \E added \in (IF teProgram[1] = "ex6" THEN SUBSET all ELSE {all}) :
           teSum' = [teSum EXCEPT !.of[k] = SumSet(added)]
  /\ UNCHANGED <<teProgram, teMain, teArr, tePrinted>>

\* pthread_join, in the order of the threads, and the addition.
JoinAndAdd ==
  /\ Summing /\ teMain.at = "join" /\ teMain.i \notin teThreads
  /\ teSum' = [teSum EXCEPT !.total = @ + teSum.of[teMain.i]]
  /\ teMain' = IF teMain.i + 1 = PROCESS_LIMIT THEN [at |-> "ended", i |-> 0]
               ELSE [teMain EXCEPT !.i = @ + 1]
  /\ UNCHANGED <<teProgram, teThreads, teArr, tePrinted>>

ThreadsNext == \/ CreateUpdates \/ CreatePrints \/ CreateDetached
               \/ ~Summing /\ \E t \in teThreads : RunThread(t)
               \/ CreateWorkers \/ JoinAndAdd
               \/ Summing /\ \E k \in teThreads : ThreadNumOfDivisors(k)

-----------------------------------------------------------------------------
(***************************************************************************)
(* What the threads share comes out right where they are joined: the sum   *)
(* of ex4 and ex5 is the sum of all divisors, although neighbouring ranges *)
(* overlap by one candidate and the ranges end at a multiple of the number *)
(* of threads, for numbers that this number divides into parts that are    *)
(* not smaller than it (threads.c, ThreadNumOfDivisors); and ex1 prints    *)
(* every element once and in order, a filled one or one that its thread    *)
(* has not reached yet, the last one filled if it could have its thread    *)
(* (ex1 ex2/threads.c 37-56).                                              *)
(***************************************************************************)
ThreadsAgree ==
  /\ (/\ teMain.at = "ended" /\ teProgram[1] \in {"ex4", "ex5"}
      /\ teProgram[2] % PROCESS_LIMIT = 0 /\ RANGE_OF_THREAD(teProgram[2]) >= PROCESS_LIMIT)
       => teSum.total = SumSet({i \in 1 .. teProgram[2] : teProgram[2] % i = 0})
  /\ teProgram[1] = "ex1" =>
       \A k \in 1 .. Len(tePrinted) :
          /\ tePrinted[k][1] = k - 1 /\ tePrinted[k][2] \in {0, k - 1}
          /\ k = SIZE_OF_ARR => tePrinted[k][2] = teArr[SIZE_OF_ARR - 1]

-----------------------------------------------------------------------------
(***************************************************************************)
(* Two programs of system_programming that divide an array among threads.  *)
(* s_s_dictionary.c shuffles pointers to the words of several copies of a  *)
(* dictionary, sorts a range in each thread and merges the ranges.         *)
(* mt_c_sort.c counts letters, a range in each thread, and adds the counts *)
(* as it joins the threads; its CR/ version has other ranges.  A pointer   *)
(* is a number, its order in memory; MergeBySize reads the two runs in one *)
(* step and copies the merged one back in another.                         *)
(***************************************************************************)

CONSTANTS StThreads,  \* NUM_OF_THREADS
          StCopies,   \* NUM_OF_COPIES
          StLines,    \* lines of the dictionary to try
          StLetters,  \* letters, and
          StLengths   \* lengths of the text to try

ASSUME StAssumption == StThreads \in Nat \ {0, 1} /\ StCopies \in Nat \ {0}

VARIABLES stProgram,
          stAt,      \* where main is, or the error it exits with
          stArr,     \* big_dictionary
          stThread,  \* per thread: its merges or letters still to do, its buffer
          stJoined,  \* threads joined, and then ranges merged
          stCount,   \* the global arr of mt_c_sort
          stShort,   \* malloc failed, or MergeArr returned early
          stInput    \* history: stArr as it was before the threads

stVars == <<stProgram, stAt, stArr, stThread, stJoined, stCount, stShort, stInput>>

StIndexes == 0 .. StThreads - 1
StSize == Cardinality(DOMAIN stArr)
Uninit == 0  \* a pointer that SplitAndPoint has not set
Foreign == "beyond the text"
OutOfStack == "out of stack"
StRunning == <<>>  \* a thread that has not returned its counts

StStart == /\ stProgram \in {"s_s_dictionary", "mt_c_sort", "CR"}
           /\ stAt = "start" /\ stArr = <<>> /\ stInput = <<>> /\ stJoined = 0
           /\ stThread = <<>> /\ stShort = FALSE
           /\ stCount = [l \in StLetters \cup {Foreign} |-> 0]

\* The CR version goes on with what GetDictionary or malloc returned.
GetDictionaryCR == {"strlen or memcpy of NULL"}

\* open, fstat, mmap or malloc fails
GetDictionary ==
  /\ stAt = "start"
  /\ stAt' \in IF stProgram = "CR" THEN GetDictionaryCR
               ELSE {"DICT_OPEN_ERR", "DICT_FSTAT_ERR", "DICT_MMAP_ERR", "MALLOC_ERR"}
  /\ UNCHANGED <<stProgram, stArr, stThread, stJoined, stCount, stShort, stInput>>

-----------------------------------------------------------------------------
(* s_s_dictionary                                                          *)

StRange(i) == LET n == StSize IN n \div StThreads + (IF i + 1 = StThreads THEN n % StThreads ELSE 0)
StStartOf(i) == i * (StSize \div StThreads)

\* The merges of MergeSort in their order.  Of no element it has no end.
RECURSIVE StMergeSort(_, _)
StMergeSort(lo, n) ==
  IF n = 1 THEN <<>>
  ELSE LET half == n \div 2
       IN  StMergeSort(lo, half) \o StMergeSort(lo + half, half + (n % 2))
             \o <<[lo |-> lo, mid |-> lo + half, hi |-> lo + n]>>

\* CountLines counts newlines and one more; strtok gives a word for each line
\* that is not empty, so that the last pointers may never be set.
SplitAndPoint(lines, words) == [i \in 0 .. lines - 1 |-> IF i < words THEN i + 1 ELSE Uninit]

PointersArrDuplicate(small, lines) ==
  [i \in 0 .. lines * StCopies - 1 |-> small[i % lines]]

\* qsort with a random comparison: any order.
ShufflePointers(arr) == {[i \in DOMAIN arr |-> arr[p[i]]] : p \in Permutations(DOMAIN arr)}

StRead ==
  /\ stProgram = "s_s_dictionary" /\ stAt = "start" /\ stAt' = "create"
  /\ \E lines \in StLines : \E words \in {lines - 1, lines} :
       stArr' \in ShufflePointers(PointersArrDuplicate(SplitAndPoint(lines, words), lines))
  /\ stInput' = stArr'
  /\ UNCHANGED <<stProgram, stThread, stJoined, stCount, stShort>>

MtShuffleSorting ==
  /\ stProgram = "s_s_dictionary" /\ stAt = "create"
  /\ IF StSize \div StThreads = 0
     THEN stAt' = OutOfStack /\ UNCHANGED stThread
     ELSE /\ stAt' = "join"
          /\ stThread' = [i \in StIndexes |-> [todo |-> StMergeSort(StStartOf(i), StRange(i)),
                                               buffer |-> <<>>]]
  /\ UNCHANGED <<stProgram, stArr, stJoined, stCount, stShort, stInput>>

RECURSIVE StMerged(_, _)
StMerged(s, t) ==
  IF s = <<>> \/ t = <<>> THEN s \o t
  ELSE IF Head(s) < Head(t) THEN <<Head(s)>> \o StMerged(Tail(s), t)
                            ELSE <<Head(t)>> \o StMerged(s, Tail(t))

StPart(lo, hi) == [k \in 1 .. hi - lo |-> stArr[lo + k - 1]]
StInOrder(m) == stArr[m.mid] > stArr[m.mid - 1]
StWith(lo, part) == [i \in DOMAIN stArr |->
                       IF i - lo + 1 \in DOMAIN part THEN part[i - lo + 1] ELSE stArr[i]]

\* The thread has a merge to begin.
StMergesNext(i) == stThread[i].todo # <<>> /\ stThread[i].buffer = <<>>

\* ThreadSort up to the memcpy of its next merge, if there is anything to merge.
StMergeBySize(i) ==
  /\ stAt = "join" /\ StMergesNext(i)
  /\ LET m == Head(stThread[i].todo) IN
     \/ /\ ~StInOrder(m)
        /\ stThread' = [stThread EXCEPT ![i].buffer =
                          StMerged(StPart(m.lo, m.mid), StPart(m.mid, m.hi))]
        /\ UNCHANGED stShort
     \/ /\ stThread' = [stThread EXCEPT ![i].todo = Tail(@)]
        /\ stShort' = (stShort \/ ~StInOrder(m))  \* no memory for the buffer
  /\ UNCHANGED <<stProgram, stAt, stArr, stJoined, stCount, stInput>>

StCopyBack(i) ==
  /\ stAt = "join" /\ stThread[i].buffer # <<>>
  /\ stArr' = StWith(Head(stThread[i].todo).lo, stThread[i].buffer)
  /\ stThread' = [stThread EXCEPT ![i] = [todo |-> Tail(@.todo), buffer |-> <<>>]]
  /\ UNCHANGED <<stProgram, stAt, stJoined, stCount, stShort, stInput>>

StJoin ==
  /\ stProgram = "s_s_dictionary" /\ stAt = "join" /\ stThread[stJoined].todo = <<>>
  /\ stJoined' = (stJoined + 1) % StThreads
  /\ stAt' = IF stJoined' = 0 THEN "merge" ELSE "join"
  /\ UNCHANGED <<stProgram, stArr, stThread, stCount, stShort, stInput>>

\* One merge of MergeArr: of what is merged already and of the next range.
MergeArr ==
  LET i == stJoined + 1
      m == [lo |-> 0, mid |-> StStartOf(i),
            hi |-> IF i = StThreads - 1 THEN StSize ELSE StStartOf(i + 1)]
  IN  /\ stAt = "merge"
      /\ \/ /\ ~StInOrder(m)
            /\ stArr' = StWith(0, StMerged(StPart(0, m.mid), StPart(m.mid, m.hi)))
            /\ stAt' = IF i = StThreads - 1 THEN "print" ELSE "merge"
            /\ stJoined' = i /\ UNCHANGED stShort
         \/ /\ stAt' = "print" /\ stShort' = TRUE  \* in order already, or no memory
            /\ UNCHANGED <<stArr, stJoined>>
      /\ UNCHANGED <<stProgram, stThread, stCount, stInput>>

-----------------------------------------------------------------------------
(* mt_c_sort; big_dictionary has no terminating 0, so that strlen may find *)
(* a few bytes more than the text                                          *)

GetBigDictionary ==
  /\ stProgram # "s_s_dictionary" /\ stAt = "start" /\ stAt' = "create"
  /\ \E n \in StLengths, more \in 0 .. StThreads : \E text \in [0 .. n - 1 -> StLetters] :
       stArr' = [i \in 0 .. n * StCopies + more - 1 |->
                   IF i < n * StCopies THEN text[i % n] ELSE Foreign]
  /\ stInput' = stArr'
  /\ UNCHANGED <<stProgram, stThread, stJoined, stCount, stShort>>

\* START_OF_RANGE and the loop's end in the CR version.
RangeOfThreadCR(i) ==
  LET r == StSize \div StThreads
      start == IF i = 0 THEN 0 ELSE r * i + 1
  IN  start .. start + r

RangeOfThread(i) ==
  LET r == StSize \div StThreads
  IN  IF stProgram = "CR" THEN RangeOfThreadCR(i) ELSE r * i .. r * i + r - 1

StLetter(k) == IF k \in DOMAIN stArr THEN stArr[k] ELSE Foreign

MT_C_Sorting ==
  /\ stProgram # "s_s_dictionary" /\ stAt = "create" /\ stAt' = "join"
  /\ stThread' = [i \in StIndexes |-> StRunning]
  /\ UNCHANGED <<stProgram, stArr, stJoined, stCount, stShort, stInput>>

\* The counts are the thread's own.
ThreadLettersCounter(i) ==
  /\ stProgram # "s_s_dictionary" /\ stAt = "join" /\ stThread[i] = StRunning
  /\ stThread' = [stThread EXCEPT ![i] =
       [l \in StLetters \cup {Foreign} |-> Cardinality({k \in RangeOfThread(i) : StLetter(k) = l})]]
  /\ UNCHANGED <<stProgram, stAt, stArr, stJoined, stCount, stShort, stInput>>

AddCounters ==
  /\ stProgram # "s_s_dictionary" /\ stAt = "join" /\ stThread[stJoined] # StRunning
  /\ stCount' = [l \in DOMAIN stCount |-> stCount[l] + stThread[stJoined][l]]
  /\ stJoined' = (stJoined + 1) % StThreads
  /\ stAt' = IF stJoined' = 0 THEN "print" ELSE "join"
  /\ UNCHANGED <<stProgram, stArr, stThread, stShort, stInput>>

StNext == \/ GetDictionary \/ StRead \/ MtShuffleSorting \/ StJoin \/ MergeArr
          \/ GetBigDictionary \/ MT_C_Sorting \/ AddCounters
          \/ stProgram = "s_s_dictionary" /\ stAt = "join"
               /\ \E i \in StIndexes : StMergeBySize(i) \/ StCopyBack(i)
          \/ stAt = "join" /\ \E i \in StIndexes : ThreadLettersCounter(i)

-----------------------------------------------------------------------------

StBag(arr) == [v \in {arr[i] : i \in DOMAIN arr} |-> Cardinality({i \in DOMAIN arr : arr[i] = v})]
StSorted(lo, hi) == \A i \in lo .. hi - 2 : stArr[i] <= stArr[i + 1]

(***************************************************************************)
(* No pointer is lost or doubled while threads sort their ranges beside    *)
(* each other (s_s_dictionary.c:242-253); a thread that is done leaves its *)
(* range sorted, the last one with the remainder; and when no merge was    *)
(* given up the printed array is sorted.  mt_c_sort counts each letter     *)
(* once, up to the remainder of the division, in whatever order the        *)
(* threads end; the ranges of its CR version leave none out.               *)
(***************************************************************************)
RangesMerged ==
  /\ stProgram = "s_s_dictionary" =>
       /\ StBag(stArr) = StBag(stInput)
       /\ stAt = "join" /\ ~stShort =>
            \A i \in StIndexes :
              stThread[i].todo = <<>> => StSorted(StStartOf(i), StStartOf(i) + StRange(i))
       /\ stAt = "print" /\ ~stShort => StSorted(0, StSize)
  /\ stProgram # "s_s_dictionary" /\ stAt = "print" =>
       LET counted == 0 .. StThreads * (StSize \div StThreads) - 1
           Occurs(l) == Cardinality({k \in counted : stArr[k] = l})
       IN  \A l \in StLetters : IF stProgram = "mt_c_sort" THEN stCount[l] = Occurs(l)
                                                           ELSE stCount[l] >= Occurs(l)
=============================================================================
