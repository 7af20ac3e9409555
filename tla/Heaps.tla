------------------------------- MODULE Heaps --------------------------------
(***************************************************************************)
(* The dynamic vector of ds, the heap on it with its clients, and the      *)
(* MinHeap of prepare_for_interview.                                       *)
(***************************************************************************)
EXTENDS Integers, Sequences, FiniteSets, Bags, SequencesExt, BagsExt

-----------------------------------------------------------------------------
(***************************************************************************)
(* The dynamic vector (ds/dynamic_vector/vector.c), as operators on its    *)
(* value: the heap keeps its elements in one.  An operation that may fail  *)
(* is the set of the vectors it may leave.                                 *)
(***************************************************************************)

GROWTH_FACTOR == 2

VectorCreate(capacity) == [elements |-> <<>>, capacity |-> capacity, freed |-> FALSE]

VectorSize(v) == Len(v.elements)
VectorIsFull(v) == VectorSize(v) = v.capacity

\* realloc fails and changes nothing, or succeeds; realloc to 0 bytes frees
\* the elements and returns NULL, which VectorReserve takes for a failure.
VectorReserve(v, new_capacity) ==
  IF new_capacity = 0 THEN {[v EXCEPT !.freed = TRUE]}
  ELSE {v, [v EXCEPT !.capacity = new_capacity]}

\* Mutant of VectorPushBack: a full vector is not noticed.
VectorPushBackFull(v, x) == {[v EXCEPT !.elements = Append(@, x)]}

VectorPushBack(v, x) ==
  IF VectorIsFull(v)
  THEN {IF VectorIsFull(r) THEN r ELSE [r EXCEPT !.elements = Append(@, x)] :
          r \in VectorReserve(v, v.capacity * GROWTH_FACTOR)}
  ELSE {[v EXCEPT !.elements = Append(@, x)]}

VectorPopBack(v) == [v EXCEPT !.elements = SubSeq(@, 1, Len(@) - 1)]
VectorGetElement(v, index) == v.elements[index]
VectorSetElement(v, x, index) == [v EXCEPT !.elements[index] = x]
VectorShrinkToFit(v) == VectorReserve(v, VectorSize(v))

-----------------------------------------------------------------------------
(***************************************************************************)
(* The heap (ds/heap/heap.c), the priority queue on it (ds/pqueue/         *)
(* heap_PQ.c) and the two kinds of client it has: the heap's test, whose   *)
(* compare function returns 0 for equal elements and serves as the match   *)
(* function too, and the scheduler (ds/scheduler/heap_SCH.c), whose        *)
(* ComparFunc adds 1 and whose ComparUID returns 1 for the element sought. *)
(***************************************************************************)

CONSTANTS HeapKeys,      \* what the elements are compared by
          HeapMaxSize,   \* bound: elements in the heap
          HeapCapacity   \* what HeapCreate gives VectorCreate: 7 in the code

VARIABLES heapV,       \* heap->vector
          heapClient,  \* who uses it
          heapBag,     \* history: the elements pushed and not yet returned
          heapState    \* "pushed and popped", "removed from", "hung" or "destroyed"

heapVars == <<heapV, heapClient, heapBag, heapState>>

\* compare_func: for the scheduler a key is minus the time to execute.
CompareFunc(x, y) == x - y + (IF heapClient = "scheduler" THEN 1 ELSE 0)

\* match_func returns 0, at which HeapRemove stops.
MatchIsZero(x, data) == IF heapClient = "scheduler" THEN x # data ELSE x = data

At(v, index) == VectorGetElement(v, index + 1)

SwapByIndex(v, i, j) == VectorSetElement(VectorSetElement(v, At(v, j), i + 1), At(v, i), j + 1)

GetParent(index) == IF index = 0 THEN 0 ELSE (index - 1) \div 2

RECURSIVE HeapIfyUp(_, _, _)
HeapIfyUp(v, index, data) ==
  LET parent == GetParent(index)
  IN  IF index # 0 /\ CompareFunc(At(v, parent), data) < 0
      THEN HeapIfyUp(SwapByIndex(v, parent, index), parent, data) ELSE v

\* Mutant of GetBigChild: the second child is never looked at.
GetBigChildFirst(v, index) ==
  LET child1 == 2 * index + 1 IN IF child1 >= VectorSize(v) THEN index ELSE child1

\* A leaf is its own big child.
GetBigChild(v, index) ==
  LET child1 == 2 * index + 1
      child2 == 2 * index + 2
  IN  IF child1 >= VectorSize(v) THEN index
      ELSE IF child2 >= VectorSize(v) \/ CompareFunc(At(v, child1), At(v, child2)) > 0
      THEN child1 ELSE child2

\* The loop does not end at a leaf that compares larger than itself.
HUNG == [elements |-> <<>>, capacity |-> 0, freed |-> TRUE]

RECURSIVE HeapIfyDown(_, _, _)
HeapIfyDown(v, index, data) ==
  LET big_child == GetBigChild(v, index) IN
  IF ~(index + 1 < VectorSize(v) /\ CompareFunc(At(v, big_child), data) > 0) THEN v
  ELSE IF big_child = index THEN HUNG
  ELSE HeapIfyDown(SwapByIndex(v, index, big_child), big_child, data)

HeapCreate(client) ==
            /\ heapV = VectorCreate(HeapCapacity)
            /\ heapClient = client
            /\ heapBag = EmptyBag /\ heapState = "pushed and popped"

HeapPush(data) ==
  /\ VectorSize(heapV) < HeapMaxSize
  /\ \E v \in VectorPushBack(heapV, data) :
       IF VectorSize(v) = VectorSize(heapV) THEN heapV' = v /\ UNCHANGED heapBag
       ELSE /\ heapV' = HeapIfyUp(v, VectorSize(v) - 1, data)
            /\ heapBag' = heapBag (+) SetToBag({data})
  /\ UNCHANGED <<heapClient, heapState>>

\* HeapPeek, and PQDepqueue, which returns what HeapPeek did.
HeapPeek == VectorGetElement(heapV, 1)

HeapSize == VectorSize(heapV)
HeapIsEmpty == 0 = HeapSize

\* The last element takes the place of the one at index.
FillWithLast(v, index) ==
  LET last == VectorGetElement(v, VectorSize(v))
  IN  HeapIfyDown(VectorPopBack(VectorSetElement(v, last, index)), index - 1, last)

HeapPop ==
  /\ VectorSize(heapV) > 0
  /\ heapV' = FillWithLast(heapV, 1)
  /\ heapBag' = heapBag (-) SetToBag({HeapPeek})
  /\ heapState' = IF heapV' = HUNG THEN "hung" ELSE heapState
  /\ UNCHANGED heapClient

\* The search ends at the last element whether it matches or not, and then
\* HeapRemove returns NULL.
HeapRemove(data) ==
  LET size == VectorSize(heapV)
      found == {i \in 1 .. size : MatchIsZero(heapV.elements[i], data)}
      runner == IF found = {} THEN size ELSE CHOOSE i \in found : \A j \in found : i <= j
  IN  /\ size > 0 /\ runner # size
      /\ heapV' = FillWithLast(heapV, runner)
      /\ heapBag' = heapBag (-) SetToBag({heapV.elements[runner]})
      /\ heapState' = IF heapV' = HUNG THEN "hung" ELSE "removed from"
      /\ UNCHANGED heapClient

\* VectorDestroy, and the heap itself.
HeapDestroy == /\ heapV' = [VectorCreate(0) EXCEPT !.freed = TRUE]
               /\ heapBag' = EmptyBag /\ heapState' = "destroyed"
               /\ UNCHANGED heapClient

\* The priority queue on the heap, which the scheduler uses.
HpqCreate == HeapCreate("scheduler")
HpqDestroy == HeapDestroy
HpqSize == HeapSize
HpqIsEmpty == HeapIsEmpty
HpqPeek == HeapPeek
HpqEnpqueue(data) == HeapPush(data)
HpqDepqueue == HeapPop
HpqErase(data_to_compare) == HeapRemove(data_to_compare)

\* The loop of PQDepqueue over a vector; it hangs where HeapPop does.
RECURSIVE HpqCleared(_)
HpqCleared(v) == IF v = HUNG \/ VectorSize(v) = 0 THEN v ELSE HpqCleared(FillWithLast(v, 1))

HpqClear == /\ ~HpqIsEmpty
            /\ heapV' = HpqCleared(heapV)
            /\ heapBag' = EmptyBag
            /\ heapState' = IF heapV' = HUNG THEN "hung" ELSE heapState
            /\ UNCHANGED heapClient

HeapNext ==
  /\ heapState \notin {"hung", "destroyed"}
  /\ \/ /\ heapClient = "test"
        /\ HeapPop \/ HeapDestroy \/ \E k \in HeapKeys : HeapPush(k) \/ HeapRemove(k)
     \/ /\ heapClient = "scheduler"
        /\ \/ HpqDepqueue \/ HpqClear \/ HpqDestroy
           \/ \E k \in HeapKeys : HpqEnpqueue(k) \/ HpqErase(k)

-----------------------------------------------------------------------------

BagOf(s) == [x \in {s[i] : i \in 1 .. Len(s)} |-> Cardinality({i \in 1 .. Len(s) : s[i] = x})]

(***************************************************************************)
(* A heap that is only pushed to and popped keeps the largest element at   *)
(* its root, through ties and through the growth of its vector, and no     *)
(* operation, HeapRemove with its repair from above alone included, loses, *)
(* duplicates or replaces an element, of which the queue on the heap says  *)
(* how many there are and hands the first to its client.  With the         *)
(* scheduler's compare function HeapPop need not return, but a queue of    *)
(* one element still gives it back and is empty.  And shrinking the vector *)
(* frees the elements exactly when there are none, and the vector goes on  *)
(* pointing to them (vector.c:92-118).                                     *)
(***************************************************************************)
HeapHolds ==
  heapState # "hung" =>
    /\ BagOf(heapV.elements) = heapBag
    /\ VectorSize(heapV) <= heapV.capacity
    /\ HpqSize = BagCardinality(heapBag) /\ (HpqIsEmpty <=> heapBag = EmptyBag)
    /\ ~HpqIsEmpty => BagIn(HpqPeek, heapBag)
    /\ HpqSize = 1 => VectorSize(HpqCleared(heapV)) = 0 /\ HpqCleared(heapV) # HUNG
    /\ \A v \in VectorShrinkToFit(heapV) : v.freed <=> VectorSize(heapV) = 0
    /\ heapState = "pushed and popped" /\ heapClient = "test" =>
         \A i \in 1 .. VectorSize(heapV) - 1 : At(heapV, i) <= At(heapV, GetParent(i))

-----------------------------------------------------------------------------
(***************************************************************************)
(* MinHeap (prepare_for_interview/min_heap/min_heap.cpp): a vector with    *)
(* two ways to repair it upwards and two downwards, of which insert and    *)
(* extractMin use one each.                                                *)
(***************************************************************************)

CONSTANTS MinHeapKeys, MinHeapMax  \* bound: elements in the heap

VARIABLES mhHeap,  \* heap, from 1
          mhBag    \* history: keys inserted and not yet extracted

mhVars == <<mhHeap, mhBag>>

\* Positions count from 1.
mhParent(i) == i \div 2
leftChild(i) == 2 * i
rightChild(i) == 2 * i + 1
mhSwap(h, i, j) == [h EXCEPT ![i] = h[j], ![j] = h[i]]

RECURSIVE heapifyUp(_, _)
heapifyUp(h, index) ==
  IF index > 1 /\ h[mhParent(index)] > h[index]
  THEN heapifyUp(mhSwap(h, mhParent(index), index), mhParent(index)) ELSE h

\* Parents move down into the hole that the element leaves.
RECURSIVE siftUp(_, _, _)
siftUp(h, index, currentValue) ==
  IF index > 1 /\ h[mhParent(index)] > currentValue
  THEN siftUp([h EXCEPT ![index] = h[mhParent(index)]], mhParent(index), currentValue)
  ELSE [h EXCEPT ![index] = currentValue]

Smaller(h, i, child) == IF child <= Len(h) /\ h[child] < h[i] THEN child ELSE i

\* Mutant of smallest: the children are not compared with each other.
smallestOfOne(h, index) ==
  LET left == Smaller(h, index, leftChild(index))
  IN  IF left # index THEN left ELSE Smaller(h, index, rightChild(index))

smallest(h, index) == Smaller(h, Smaller(h, index, leftChild(index)), rightChild(index))

\* heapifyDown and heapifyDownNoRecursive: a call, or another turn of the loop.
RECURSIVE heapifyDown(_, _)
heapifyDown(h, index) ==
  LET s == smallest(h, index)
  IN  IF s = index THEN h ELSE heapifyDown(mhSwap(h, index, s), s)

MinHeapStart == mhHeap = <<>> /\ mhBag = EmptyBag

mhInsert(key) ==
  /\ Len(mhHeap) < MinHeapMax
  /\ mhHeap' = heapifyUp(Append(mhHeap, key), Len(mhHeap) + 1)
  /\ mhBag' = BagAdd(mhBag, key)

getMin == mhHeap[1]

\* It throws on an empty heap.
extractMin ==
  /\ mhHeap # <<>>
  /\ LET rest == Front([mhHeap EXCEPT ![1] = Last(mhHeap)])
     IN  mhHeap' = IF rest = <<>> THEN rest ELSE heapifyDown(rest, 1)
  /\ mhBag' = BagRemove(mhBag, getMin)

MinHeapNext == extractMin \/ \E key \in MinHeapKeys : mhInsert(key)

(***************************************************************************)
(* The heap holds what was inserted and not extracted, getMin is the       *)
(* smallest of it, through ties, and siftUp, which insert could have used, *)
(* makes the same heap.                                                    *)
(***************************************************************************)
MinHeapHolds ==
  /\ \A k \in MinHeapKeys : Len(SelectSeq(mhHeap, LAMBDA x : x = k)) = CopiesIn(k, mhBag)
  /\ mhHeap # <<>> => \A k \in BagToSet(mhBag) : getMin <= k
  /\ \A k \in MinHeapKeys :
       LET pushed == Append(mhHeap, k)
       IN  siftUp(pushed, Len(pushed), k) = heapifyUp(pushed, Len(pushed))
=============================================================================
