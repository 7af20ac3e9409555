------------------------------- MODULE Lists --------------------------------
(***************************************************************************)
(* The linked lists of ds, by their pointers, and the sorted list on them  *)
(* with its priority queue.                                                *)
(***************************************************************************)
EXTENDS Integers, Sequences, FiniteSets, SequencesExt, Functions

-----------------------------------------------------------------------------
(***************************************************************************)
(* The doubly linked list (ds/dlist/dlist.c), the singly linked list       *)
(* (ds/slist/slist.c) and the queue on it (ds/queue/queue.c), at the level *)
(* of their pointers.  There are two lists of each kind, so that elements  *)
(* can be spliced and appended from one to the other.  malloc may fail:    *)
(* the operation then changes nothing, and is left out.                    *)
(***************************************************************************)

CONSTANTS DlistNodes, SlistNodes,  \* what malloc may return: positive numbers
          DlistData                \* what the lists hold

VARIABLES dlNext, dlPrev,  \* next_node and prev_node of the nodes in use
          dlData,          \* their data
          dlSeq,           \* what the two lists should hold
          slNext, slData, slHead, slTail,
          slSeq,           \* what the two lists should hold
          slLost           \* the lists whose head skipped their elements

dlVars == <<dlNext, dlPrev, dlData, dlSeq>>
slVars == <<slNext, slData, slHead, slTail, slSeq, slLost>>

TheLists == {"a", "b"}
NULLp == 0
begin_dummy == [a |-> -1, b |-> -2]
end_dummy == [a |-> -3, b |-> -4]

-----------------------------------------------------------------------------
(* The doubly linked list *)

DlistCreate ==
  /\ dlNext = [n \in {-1, -2, -3, -4} |-> CASE n = -1 -> -3 [] n = -2 -> -4 [] OTHER -> NULLp]
  /\ dlPrev = [n \in {-1, -2, -3, -4} |-> CASE n = -3 -> -1 [] n = -4 -> -2 [] OTHER -> NULLp]
  /\ dlData = <<>> /\ dlSeq = [l \in TheLists |-> <<>>]

DlistBegin(l) == dlNext[begin_dummy[l]]
DlistEnd(l) == end_dummy[l]
DlistIsEmpty(l) == DlistBegin(l) = DlistEnd(l)

Fresh(nodes, used) == CHOOSE n \in nodes \ used : TRUE

\* The place of a node in its list; the end is one behind the last.
Place(l, n) == IF n = DlistEnd(l) THEN Len(dlSeq[l]) + 1
               ELSE CHOOSE i \in 1 .. Len(dlSeq[l]) : dlSeq[l][i] = n
DlistIters(l) == Range(dlSeq[l]) \cup {DlistEnd(l)}

\* The links with new_node hung before where.
InsertLinks(links, where, new_node) ==
  LET before == links.prev[where] IN
  [next |-> [n \in DOMAIN links.next \cup {new_node} |->
               IF n = new_node THEN where ELSE IF n = before THEN new_node ELSE links.next[n]],
   prev |-> [n \in DOMAIN links.prev \cup {new_node} |->
               IF n = new_node THEN before ELSE IF n = where THEN new_node ELSE links.prev[n]]]

DlistInsert(l, where, data) ==
  LET new_node == Fresh(DlistNodes, DOMAIN dlNext)
      links == InsertLinks([next |-> dlNext, prev |-> dlPrev], where, new_node)
  IN  /\ ~(DlistNodes \subseteq DOMAIN dlNext)
      /\ dlNext' = links.next /\ dlPrev' = links.prev
      /\ dlData' = [n \in DOMAIN dlData \cup {new_node} |-> IF n = new_node THEN data ELSE dlData[n]]
      /\ dlSeq' = [dlSeq EXCEPT ![l] = InsertAt(@, Place(l, where), new_node)]

DlistPushFront(l, data) == DlistInsert(l, DlistBegin(l), data)
DlistPushBack(l, data) == DlistInsert(l, DlistEnd(l), data)

DlistRemove(l, iter) ==
  LET rest == DOMAIN dlNext \ {iter} IN
  /\ iter # DlistEnd(l)
  /\ dlPrev' = Restrict([dlPrev EXCEPT ![dlNext[iter]] = dlPrev[iter]], rest)
  /\ dlNext' = Restrict([dlNext EXCEPT ![dlPrev[iter]] = dlNext[iter]], rest)
  /\ dlData' = Restrict(dlData, DOMAIN dlData \cap rest)
  /\ dlSeq' = [dlSeq EXCEPT ![l] = RemoveAt(@, Place(l, iter))]

DlistPopFront(l) == ~DlistIsEmpty(l) /\ DlistRemove(l, DlistBegin(l))
DlistPopBack(l) == ~DlistIsEmpty(l) /\ DlistRemove(l, dlPrev[DlistEnd(l)])

\* Mutant of SpliceLinks: the gap is not closed backwards.
SpliceLinksGap(where, src_from, src_to) ==
  /\ dlNext' = [dlNext EXCEPT ![dlPrev[src_to]] = where, ![dlPrev[where]] = src_from,
                              ![dlPrev[src_from]] = src_to]
  /\ dlPrev' = [dlPrev EXCEPT ![src_from] = dlPrev[where], ![where] = dlPrev[src_to]]

\* The six assignments of DlistSplice, in their order.
SpliceLinks(where, src_from, src_to) ==
  /\ dlNext' = [dlNext EXCEPT ![dlPrev[src_to]] = where, ![dlPrev[where]] = src_from,
                              ![dlPrev[src_from]] = src_to]
  /\ dlPrev' = [dlPrev EXCEPT ![src_from] = dlPrev[where], ![where] = dlPrev[src_to],
                              ![src_to] = dlPrev[src_from]]

\* Moves [src_from, src_to), not empty, before where, which lies outside it
\* and is not src_to: there the first two assignments would make a cycle.
DlistSplice(l, where, src, src_from, src_to) ==
  LET i == Place(src, src_from)
      j == Place(src, src_to)
      moved == SubSeq(dlSeq[src], i, j - 1)
      left == SubSeq(dlSeq[src], 1, i - 1) \o SubSeq(dlSeq[src], j, Len(dlSeq[src]))
      k == Place(l, where)
      at == IF l = src /\ k > j THEN k - (j - i) ELSE k
      into == IF l = src THEN left ELSE dlSeq[l]
  IN  /\ i < j /\ (l = src => k < i \/ k > j)
      /\ SpliceLinks(where, src_from, src_to) /\ UNCHANGED dlData
      /\ dlSeq' = [dlSeq EXCEPT ![src] = left,
                                ![l] = SubSeq(into, 1, at - 1) \o moved
                                         \o SubSeq(into, at, Len(into))]

\* The nodes from one iterator to another by next_node, and the first of them
\* that holds the data.
RECURSIVE DlistFromTo(_, _)
DlistFromTo(from, to) == IF from = to THEN <<>> ELSE <<from>> \o DlistFromTo(dlNext[from], to)

RECURSIVE DlistFind(_, _, _)
DlistFind(runner, to, data) == IF runner = to \/ dlData[runner] = data THEN runner
                               ELSE DlistFind(dlNext[runner], to, data)

DlistSize(l) == Len(DlistFromTo(DlistBegin(l), DlistEnd(l)))

\* How many elements action_func is called for when it fails at data.
DlistForEach(from, to, data) ==
  Len(DlistFromTo(from, DlistFind(from, to, data))) + (IF DlistFind(from, to, data) = to THEN 0 ELSE 1)

\* A node with the data of each match in src is pushed to the other list, until
\* there is no memory.  (Within one list runner would never come to its end.)
DlistMultiFind(src, data) ==
  LET dest == CHOOSE l \in TheLists : l # src
      found == SelectSeq(DlistFromTo(DlistBegin(src), DlistEnd(src)), LAMBDA n : dlData[n] = data)
      room == SetToSeq(DlistNodes \ DOMAIN dlNext)
      pushed == SubSeq(room, 1, IF Len(found) < Len(room) THEN Len(found) ELSE Len(room))
      links == FoldLeft(LAMBDA k, x : InsertLinks(k, DlistEnd(dest), x),
                        [next |-> dlNext, prev |-> dlPrev], pushed)
  IN  /\ pushed # <<>>
      /\ dlNext' = links.next /\ dlPrev' = links.prev
      /\ dlData' = [n \in DOMAIN dlData \cup Range(pushed) |-> IF n \in Range(pushed) THEN data ELSE dlData[n]]
      /\ dlSeq' = [dlSeq EXCEPT ![dest] = @ \o pushed]

\* A new list is created in the place of the one destroyed.
DlistDestroy(l) ==
  LET rest == DOMAIN dlNext \ Range(DlistFromTo(DlistBegin(l), DlistEnd(l))) IN
  /\ dlNext' = Restrict([dlNext EXCEPT ![begin_dummy[l]] = end_dummy[l]], rest)
  /\ dlPrev' = Restrict([dlPrev EXCEPT ![end_dummy[l]] = begin_dummy[l]], rest)
  /\ dlData' = Restrict(dlData, DOMAIN dlData \cap rest) /\ dlSeq' = [dlSeq EXCEPT ![l] = <<>>]

DlistSetData(iter, data) ==
  dlData' = [dlData EXCEPT ![iter] = data] /\ UNCHANGED <<dlNext, dlPrev, dlSeq>>

DlistNext ==
  \/ \E l \in TheLists, data \in DlistData :
       \/ DlistPushFront(l, data) \/ DlistPushBack(l, data) \/ DlistMultiFind(l, data)
       \/ \E n \in DlistIters(l) : DlistInsert(l, n, data)
       \/ \E n \in Range(dlSeq[l]) : DlistSetData(n, data)
  \/ \E l \in TheLists :
       \/ DlistPopFront(l) \/ DlistPopBack(l) \/ DlistDestroy(l)
       \/ \E n \in DlistIters(l) : DlistRemove(l, n)
  \/ \E l, src \in TheLists :
       \E n \in DlistIters(l), from, to \in DlistIters(src) : DlistSplice(l, n, src, from, to)

-----------------------------------------------------------------------------
(* The singly linked list: data and place are moved, not nodes.  The last  *)
(* node is a dummy whose data is the list itself.                          *)

ListPtr == [a |-> -1, b |-> -2]
ListOf(p) == IF p = -1 THEN "a" ELSE "b"

SlistCreate == /\ slNext = [n \in {1, 2} |-> NULLp]
               /\ slData = [n \in {1, 2} |-> IF n = 1 THEN ListPtr["a"] ELSE ListPtr["b"]]
               /\ slHead = [a |-> 1, b |-> 2] /\ slTail = [a |-> 1, b |-> 2]
               /\ slSeq = [l \in TheLists |-> <<>>] /\ slLost = {}

\* The nodes of a list up to its dummy.
RECURSIVE NodesFrom(_)
NodesFrom(n) == IF slNext[n] = NULLp THEN <<n>> ELSE <<n>> \o NodesFrom(slNext[n])
SlistIters(l) == Range(NodesFrom(slHead[l]))
PlaceOf(l, n) == CHOOSE i \in 1 .. Len(NodesFrom(slHead[l])) : NodesFrom(slHead[l])[i] = n

SlistInsert(l, where, data) ==
  LET new_node == Fresh(SlistNodes, DOMAIN slNext) IN
  /\ ~(SlistNodes \subseteq DOMAIN slNext)
  /\ slNext' = [n \in DOMAIN slNext \cup {new_node} |->
                  IF n = new_node THEN slNext[where]
                  ELSE IF n = where THEN new_node ELSE slNext[n]]
  /\ slData' = [n \in DOMAIN slData \cup {new_node} |->
                  IF n = new_node THEN slData[where] ELSE IF n = where THEN data ELSE slData[n]]
  /\ slTail' = IF slNext[where] = NULLp
               THEN [slTail EXCEPT ![ListOf(slData[where])] = new_node] ELSE slTail
  /\ slSeq' = [slSeq EXCEPT ![l] = InsertAt(@, PlaceOf(l, where), data)]
  /\ UNCHANGED <<slHead, slLost>>

\* Removing the element in front of the dummy moves tail, and head too.
SlistRemove(l, iter) ==
  LET next == slNext[iter]
      last == slNext[next] = NULLp
  IN  /\ next # NULLp
      /\ slData' = Restrict([slData EXCEPT ![iter] = slData[next]], DOMAIN slData \ {next})
      /\ slNext' = Restrict([slNext EXCEPT ![iter] = slNext[next]], DOMAIN slNext \ {next})
      /\ slTail' = IF last THEN [slTail EXCEPT ![ListOf(slData[next])] = iter] ELSE slTail
      /\ slHead' = IF last THEN [slHead EXCEPT ![ListOf(slData[next])] = iter] ELSE slHead
      /\ slLost' = IF last /\ iter # slHead[l] THEN slLost \cup {l} ELSE slLost
      /\ slSeq' = [slSeq EXCEPT ![l] = RemoveAt(@, PlaceOf(l, iter))]

\* Mutant of SlistAppend: the dummy of src keeps pointing to src.
SlistAppendKeepsOwner(dest, src) ==
  LET d == slTail[dest]
      s == slHead[src]
  IN  /\ dest # src /\ slNext[s] # NULLp
      /\ slData' = [slData EXCEPT ![d] = slData[s], ![s] = ListPtr[src]]
      /\ slNext' = [slNext EXCEPT ![d] = slNext[s], ![s] = NULLp]
      /\ slTail' = [slTail EXCEPT ![dest] = slTail[src], ![src] = s]
      /\ slSeq' = [slSeq EXCEPT ![dest] = @ \o slSeq[src], ![src] = <<>>]
      /\ slLost' = IF src \in slLost THEN slLost \cup {dest} ELSE slLost
      /\ UNCHANGED slHead

SlistAppend(dest, src) ==
  LET d == slTail[dest]
      s == slHead[src]
  IN  /\ dest # src /\ slNext[s] # NULLp
      /\ slData' = [slData EXCEPT ![slTail[src]] = slData[d], ![d] = slData[s],
                                  ![s] = ListPtr[src]]
      /\ slNext' = [slNext EXCEPT ![d] = slNext[s], ![s] = NULLp]
      /\ slTail' = [slTail EXCEPT ![dest] = slTail[src], ![src] = s]
      /\ slSeq' = [slSeq EXCEPT ![dest] = @ \o slSeq[src], ![src] = <<>>]
      /\ slLost' = IF src \in slLost THEN slLost \cup {dest} ELSE slLost
      /\ UNCHANGED slHead

SlistIsSameIter(one, two) == slNext[one] = slNext[two]

\* The data action_func is called with from one iterator to another.  It is the
\* first one's each time, and what action_func returns gets lost.
RECURSIVE ForEachFrom(_, _, _)
ForEachFrom(from, runner, to) == IF SlistIsSameIter(runner, to) THEN <<>>
                                 ELSE <<slData[from]>> \o ForEachFrom(from, slNext[runner], to)
SlistForEach(from, to) == ForEachFrom(from, from, to)

SlistCount(l) == Len(SlistForEach(slHead[l], slTail[l]))

RECURSIVE SlistFind(_, _, _)
SlistFind(runner, to, data) == IF SlistIsSameIter(runner, to) \/ slData[runner] = data THEN runner
                               ELSE SlistFind(slNext[runner], to, data)

\* What SlistInsert returns without memory.
RECURSIVE GetEndByNext(_)
GetEndByNext(node_runner) == IF slNext[node_runner] = NULLp THEN node_runner
                             ELSE GetEndByNext(slNext[node_runner])

\* Every node goes, the dummy too, and a new list takes the place.
SlistDestroy(l) ==
  LET gone == Range(NodesFrom(slHead[l]))
      dummy == CHOOSE n \in gone : TRUE
      kept == (DOMAIN slNext \ gone) \cup {dummy}
  IN  /\ slNext' = [n \in kept |-> IF n = dummy THEN NULLp ELSE slNext[n]]
      /\ slData' = [n \in kept |-> IF n = dummy THEN ListPtr[l] ELSE slData[n]]
      /\ slHead' = [slHead EXCEPT ![l] = dummy] /\ slTail' = [slTail EXCEPT ![l] = dummy]
      /\ slSeq' = [slSeq EXCEPT ![l] = <<>>] /\ UNCHANGED slLost

SlistSetData(l, iter, data) ==
  /\ slData' = [slData EXCEPT ![iter] = data]
  /\ slSeq' = [slSeq EXCEPT ![l][PlaceOf(l, iter)] = data]
  /\ UNCHANGED <<slNext, slHead, slTail, slLost>>

\* The queue's calls.
QCreate == SlistCreate
QDestroy(l) == SlistDestroy(l)
QSize(l) == SlistCount(l)
QueueIsEmpty(l) == SlistCount(l) = 0
QPeek(l) == slData[slHead[l]]
QEnqueue(l, data) == SlistInsert(l, slTail[l], data)
QDequeue(l) == SlistRemove(l, slHead[l])
QAppend(dest, src) == SlistAppend(dest, src)

SlistNext ==
  \/ \E l \in TheLists \ slLost :
       \/ \E n \in SlistIters(l), data \in {1, 2} : SlistInsert(l, n, data)
       \/ \E n \in SlistIters(l) : SlistRemove(l, n)
       \/ \E data \in {1, 2} : QEnqueue(l, data)
       \/ QDequeue(l) \/ QDestroy(l)
       \/ \E n \in SlistIters(l) \ {slTail[l]}, data \in {1, 2} : SlistSetData(l, n, data)
  \/ \E dest, src \in TheLists \ slLost : QAppend(dest, src)

-----------------------------------------------------------------------------

Behind(s, i, end) == IF i = Len(s) THEN end ELSE s[i + 1]

(***************************************************************************)
(* Both chains of pointers of a doubly linked list, forwards and back, are *)
(* the sequence that its insertions, removals and splices, within a list   *)
(* and across two, should have made; DlistFind stops at the first match    *)
(* and DlistForEach right behind it.                                       *)
(***************************************************************************)
DlistIsSequence ==
  \A l \in TheLists :
    LET s == <<begin_dummy[l]>> \o dlSeq[l] IN
    /\ \A i \in 1 .. Len(s) : /\ dlNext[s[i]] = Behind(s, i, DlistEnd(l))
                              /\ dlPrev[Behind(s, i, DlistEnd(l))] = s[i]
    /\ DlistSize(l) = Len(dlSeq[l])
    /\ \A data \in DlistData :
         LET at == DlistFind(DlistBegin(l), DlistEnd(l), data)
             hits == SelectSeq(dlSeq[l], LAMBDA n : dlData[n] = data)
         IN  /\ at = IF hits = <<>> THEN DlistEnd(l) ELSE hits[1]
             /\ DlistForEach(DlistBegin(l), DlistEnd(l), data)
                  = IF hits = <<>> THEN Len(dlSeq[l]) ELSE Place(l, at)

(***************************************************************************)
(* A singly linked list holds its elements in order, its tail is the dummy *)
(* at the end of the chain and the dummy's data is the list, also after    *)
(* QAppend has moved another list's nodes behind it; it counts its         *)
(* elements, finds the first match and peeks at the front.  Excepted is a  *)
(* list of several elements whose last one was removed by its iterator:    *)
(* SlistRemove makes its head skip the others.                             *)
(***************************************************************************)
SlistIsSequence ==
  \A l \in TheLists \ slLost :
    LET nodes == NodesFrom(slHead[l]) IN
    /\ [i \in 1 .. Len(nodes) - 1 |-> slData[nodes[i]]] = slSeq[l]
    /\ slTail[l] = Last(nodes) /\ slData[slTail[l]] = ListPtr[l]
    /\ GetEndByNext(slHead[l]) = slTail[l] /\ QSize(l) = Len(slSeq[l])
    /\ ~QueueIsEmpty(l) => QPeek(l) = slSeq[l][1]
    /\ \A data \in {1, 2} :
         LET at == PlaceOf(l, SlistFind(slHead[l], slTail[l], data)) IN
         /\ at <= Len(slSeq[l]) => slSeq[l][at] = data
         /\ \A i \in 1 .. at - 1 : slSeq[l][i] # data

-----------------------------------------------------------------------------
(***************************************************************************)
(* The sorted list (ds/sorted_list/sorted_list.c) and the priority queue   *)
(* on it (ds/pqueue/pqueue.c), for the two kinds of client: the tests,     *)
(* whose compare function is 0 for equal elements, and the scheduler,      *)
(* whose ComparFunc adds 1.  Dlist is a sequence here (its pointers are    *)
(* above): an iterator is a position and End is one behind the last.       *)
(***************************************************************************)

CONSTANTS SortedKeys,  \* what the elements are sorted by
          SortedMax    \* bound: elements ever inserted

VARIABLES sdList,    \* the two lists; the queue's is "a"
          sdClient,  \* whose sort_func they have
          sdCount,   \* elements inserted so far: their identities
          sdTaken,   \* history: identities of the elements taken out
          sdMerged   \* history: lists were merged

sdVars == <<sdList, sdClient, sdCount, sdTaken, sdMerged>>

OtherList == [a |-> "b", b |-> "a"]

\* sort_func(x, data): positive if x comes first.
sort_func(x, data) == x.key - data.key + (IF sdClient = "scheduler" THEN 1 ELSE 0)

\* Runs from one iterator to another, up to the first element that stops it.
Runner(s, from, to, stops(_)) ==
  LET at == {i \in from .. to - 1 : stops(s[i])}
  IN  IF at = {} THEN to ELSE CHOOSE i \in at : \A j \in at : i <= j

SortedListEnd(s) == Len(s) + 1

SortedListCreate(client) ==
  /\ sdList = [l \in {"a", "b"} |-> <<>>] /\ sdClient = client
  /\ sdCount = 0 /\ sdTaken = {} /\ sdMerged = FALSE

InsertPlace(s, data) == Runner(s, 1, SortedListEnd(s), LAMBDA x : sort_func(x, data) < 0)

SortedListInsert(l, key) ==
  LET data == [key |-> key, id |-> sdCount + 1] IN
  /\ sdCount < SortedMax /\ sdCount' = sdCount + 1
  /\ sdList' = [sdList EXCEPT ![l] = InsertAt(@, InsertPlace(@, data), data)]
  /\ UNCHANGED <<sdClient, sdTaken, sdMerged>>

SortedListRemove(l, iter) ==
  /\ iter \in DOMAIN sdList[l]
  /\ sdList' = [sdList EXCEPT ![l] = RemoveAt(@, iter)]
  /\ sdTaken' = sdTaken \cup {sdList[l][iter].id}
  /\ UNCHANGED <<sdClient, sdCount, sdMerged>>

SortedListIsEmpty(s) == s = <<>>
SortedListSize(s) == Len(s)

\* An empty list takes the place.
SortedListDestroy(l) == /\ sdList' = [sdList EXCEPT ![l] = <<>>]
                        /\ sdTaken' = sdTaken \cup {x.id : x \in Range(sdList[l])}
                        /\ UNCHANGED <<sdClient, sdCount, sdMerged>>

SortedListPopFront(l) == SortedListRemove(l, 1)
SortedListPopBack(l) == SortedListRemove(l, Len(sdList[l]))

\* The first element in [from, to) that compares 0, or for which search_func
\* is 0 (here: one with the identity asked for), or to.
SortedListFind(s, from, to, key) == Runner(s, from, to, LAMBDA x : sort_func(x, [key |-> key]) = 0)
SortedListFindIf(s, id) == Runner(s, 1, SortedListEnd(s), LAMBDA x : x.id = id)

\* action_func fails at an element that has the key: the elements it is called for.
SortedListForEach(s, key) ==
  {s[i] : i \in DOMAIN s \cap (1 .. Runner(s, 1, SortedListEnd(s), LAMBDA x : x.key = key))}

\* Mutant of MergeOne: dest_runner is behind the next element of dest.
MergeOneSkips(m, data) ==
  LET place == Runner(m.dest, m.runner, SortedListEnd(m.dest), LAMBDA x : sort_func(x, data) <= 0)
  IN  [dest |-> InsertAt(m.dest, place, data), runner |-> place + 2]

\* One splice: the first of src goes before dest_runner, which stays where it
\* is: one place further.
MergeOne(m, data) ==
  LET place == Runner(m.dest, m.runner, SortedListEnd(m.dest), LAMBDA x : sort_func(x, data) <= 0)
  IN  [dest |-> InsertAt(m.dest, place, data), runner |-> place + 1]

SortedListMerge(dest) ==
  LET src == OtherList[dest] IN
  /\ sdList' = [sdList EXCEPT ![dest] = FoldLeft(MergeOne, [dest |-> @, runner |-> 1],
                                                 sdList[src]).dest,
                              ![src] = <<>>]
  /\ sdMerged' = TRUE /\ UNCHANGED <<sdClient, sdCount, sdTaken>>

PQCreate(client) == SortedListCreate(client)
PQDestroy == SortedListDestroy("a")
PQSize == SortedListSize(sdList["a"])
PQIsEmpty == SortedListIsEmpty(sdList["a"])

\* The result says whether the list returned its end, for want of memory.
PQEnpqueue(key) == SortedListInsert("a", key)

PQPeek == sdList["a"][1]

\* Returns PQPeek.
PQDepqueue == SortedListPopFront("a")

PQClear == /\ sdList["a"] # <<>> /\ sdList' = [sdList EXCEPT !["a"] = <<>>]
           /\ sdTaken' = sdTaken \cup {x.id : x \in Range(sdList["a"])}
           /\ UNCHANGED <<sdClient, sdCount, sdMerged>>

\* WrapIsMatch negates is_match for SortedListFindIf.  NULL if there is none.
PQErase(id) ==
  LET iter == SortedListFindIf(sdList["a"], id)
  IN  iter # SortedListEnd(sdList["a"]) /\ SortedListRemove("a", iter)

SortedNext ==
  \/ \E l \in {"a", "b"} :
       \/ \E k \in SortedKeys : SortedListInsert(l, k)
       \/ SortedListPopFront(l) \/ SortedListPopBack(l)
  \/ \E dest \in {"a", "b"} : SortedListMerge(dest)
  \/ SortedListDestroy("b") \/ PQDestroy
  \/ PQDepqueue \/ PQClear \/ \E key \in SortedKeys : PQEnpqueue(key)
  \/ \E id \in 1 .. SortedMax : PQErase(id)

-----------------------------------------------------------------------------

Ids(s) == {x.id : x \in Range(s)}

(***************************************************************************)
(* Every element inserted is in one of the lists or was taken out, once.   *)
(* The tests' lists are sorted, also after merges and removals, so that    *)
(* PQPeek is an element no other comes before and Find and ForEach reach   *)
(* what they look for; elements with one key leave the queue in the order  *)
(* they came, with the scheduler's compare function too, as long as no     *)
(* list was merged: SortedListMerge puts src's equal elements in front.    *)
(***************************************************************************)
SortedListsHold ==
  /\ PQSize = Cardinality(Ids(sdList["a"])) /\ (PQIsEmpty <=> PQSize = 0)
  /\ Ids(sdList["a"]) \cap Ids(sdList["b"]) = {}
  /\ Ids(sdList["a"]) \cup Ids(sdList["b"]) = (1 .. sdCount) \ sdTaken
  /\ \A l \in {"a", "b"} :
       LET s == sdList[l] IN
       /\ Cardinality(Ids(s)) = SortedListSize(s)
       /\ \A i, j \in DOMAIN s :
            /\ i < j /\ sdClient = "test" => s[i].key >= s[j].key
            /\ i < j /\ ~sdMerged /\ s[i].key = s[j].key => s[i].id < s[j].id
       /\ sdClient = "test" => \A k \in SortedKeys :
            LET found == SortedListFind(s, 1, SortedListEnd(s), k) IN
            /\ found # SortedListEnd(s) <=> \E x \in Range(s) : x.key = k
            /\ \A x \in SortedListForEach(s, k) : x.key >= k \/ found = SortedListEnd(s)
=============================================================================
