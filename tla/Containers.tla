----------------------------- MODULE Containers -----------------------------
(***************************************************************************)
(* The small containers: stacks, the circular buffer, the hash table and   *)
(* the two bit arrays.                                                     *)
(***************************************************************************)
EXTENDS Integers, Sequences, FiniteSets, SequencesExt, FiniteSetsExt

-----------------------------------------------------------------------------
(***************************************************************************)
(* The two stacks of ds/stack.  stack.c keeps a record with a separate     *)
(* array and a pointer that starts at -1; stack_advanced.c keeps capacity  *)
(* and pointer in the first two words of the array itself, and the pointer *)
(* starts at 1.  A push on a full stack and a pop from an empty one are    *)
(* stopped by assertions.  Both are driven by the same calls.              *)
(***************************************************************************)

CONSTANTS StackElements,   \* numbers, none of them 0
          StackCapacities

VARIABLES stack_pointer, stack_elements,  \* of stack.c
          advStack,                       \* the words of stack_advanced.c
          stackSeq                        \* what both should hold

stackVars == <<stack_pointer, stack_elements, advStack, stackSeq>>

Garbage == 0  \* what malloc leaves in a word

\* The two words and the elements of stack_advanced.c.
AdvCreate(capacity) ==
    [i \in 0 .. capacity + 1 |-> IF i = 0 THEN capacity ELSE IF i = 1 THEN 1 ELSE Garbage]

StackCreate == \E capacity \in StackCapacities :
    /\ stack_pointer = -1
    /\ stack_elements = [i \in 0 .. capacity - 1 |-> Garbage]
    /\ advStack = AdvCreate(capacity)
    /\ stackSeq = <<>>

STACK_CAPACITY == advStack[0]
STACK_POINTER == advStack[1]

AdvPush(element) ==
    /\ STACK_POINTER # STACK_CAPACITY + 1
    /\ advStack' = [advStack EXCEPT ![1] = @ + 1, ![STACK_POINTER + 1] = element]

AdvPop == STACK_POINTER # 1 /\ advStack' = [advStack EXCEPT ![1] = @ - 1]

StackPush(element) ==
    /\ stack_pointer + 1 \in DOMAIN stack_elements
    /\ stack_pointer' = stack_pointer + 1
    /\ stack_elements' = [stack_elements EXCEPT ![stack_pointer + 1] = element]
    /\ AdvPush(element)
    /\ stackSeq' = Append(stackSeq, element)

StackPop == /\ stack_pointer # -1
            /\ stack_pointer' = stack_pointer - 1
            /\ AdvPop
            /\ stackSeq' = Front(stackSeq)
            /\ UNCHANGED stack_elements

\* The two implementations of what only looks at the stack.
StackSize == stack_pointer + 1
StackIsEmpty == stack_pointer = -1
StackTop == stack_elements[stack_pointer]
StackCapacity == Cardinality(DOMAIN stack_elements)
AdvSize == STACK_POINTER - 1
AdvIsEmpty == STACK_POINTER = 1
AdvPeek == advStack[STACK_POINTER]
AdvCapacity == STACK_CAPACITY

StackNext == StackPop \/ \E element \in StackElements : StackPush(element)

-----------------------------------------------------------------------------
\* Both stacks hold the same elements in the same order, and one has room
\* exactly when the other has: the pointer in the array itself, two words
\* further on, is never taken for an element nor overwritten by one
\* (stack_advanced.c:38-52), and Size, Peek and Capacity agree (stack.c:56-78).
StacksAgree ==
    /\ StackSize = Len(stackSeq) /\ AdvSize = StackSize
    /\ StackIsEmpty <=> stackSeq = <<>>
    /\ AdvIsEmpty <=> StackIsEmpty
    /\ AdvCapacity = StackCapacity
    /\ ~StackIsEmpty => StackTop = Last(stackSeq) /\ AdvPeek = StackTop
    /\ \A i \in 1 .. StackSize : /\ stack_elements[i - 1] = stackSeq[i]
                                 /\ advStack[i + 1] = stackSeq[i]

-----------------------------------------------------------------------------
(***************************************************************************)
(* The circular byte buffer (ds/circular_buffer/circular_buffer.c).  One   *)
(* byte of the array stays free, and a read or a write that passes the end *)
(* of the array is done in two copies.                                     *)
(***************************************************************************)

CONSTANTS CBufferCapacities,  \* what CBufferCreate may be called with
          CBufferStream       \* bound: bytes written in all

VARIABLES cbuffer,      \* capacity, read_index, write_index
          buffer_array,
          cbufWritten,  \* history: the bytes written, and those read
          cbufRead

cbufVars == <<cbuffer, buffer_array, cbufWritten, cbufRead>>

MIN(x, y) == IF x > y THEN y ELSE x

CBufferStart == /\ cbuffer = [capacity |-> 1, read_index |-> 0, write_index |-> 0]
                /\ buffer_array = [i \in {0} |-> 0]
                /\ cbufWritten = <<>> /\ cbufRead = <<>>

CBufferCreate(capacity) ==
  /\ cbuffer' = [capacity |-> capacity + 1, read_index |-> 0, write_index |-> 0]
  /\ buffer_array' = [i \in 0 .. capacity |-> 0]
  /\ cbufWritten' = <<>> /\ cbufRead' = <<>>

CBufferSize == (cbuffer.write_index - cbuffer.read_index + cbuffer.capacity) % cbuffer.capacity
CBufferIsEmpty == CBufferSize = 0
CBufferFreeSpace == cbuffer.capacity - 1 - CBufferSize

\* Mutant of Copies: the copies are split one byte before the end.
CopiesShort(index, count) == LET first == MIN(count, cbuffer.capacity - index - 1)
                             IN  [first |-> first, second |-> count - first]

\* The lengths of the two copies of count bytes from or to index.
Copies(index, count) == LET first == MIN(count, cbuffer.capacity - index)
                        IN  [first |-> first, second |-> count - first]

CBufferRead(count_bytes) ==
  LET count == MIN(CBufferSize, count_bytes)
      c == Copies(cbuffer.read_index, count)
      output == [i \in 1 .. count |->
                   buffer_array[IF i <= c.first THEN cbuffer.read_index + i - 1
                                ELSE i - c.first - 1]]
  IN  /\ cbuffer' = [cbuffer EXCEPT !.read_index = (@ + count) % cbuffer.capacity]
      /\ cbufRead' = cbufRead \o output
      /\ UNCHANGED <<buffer_array, cbufWritten>>

\* The caller's bytes are numbered through.
CBufferWrite(count_bytes) ==
  LET count == MIN(CBufferFreeSpace, count_bytes)
      c == Copies(cbuffer.write_index, count)
      input == [i \in 1 .. count |-> Len(cbufWritten) + i]
  IN  /\ Len(cbufWritten) + count <= CBufferStream
      /\ buffer_array' =
           [i \in DOMAIN buffer_array |->
              IF i - cbuffer.write_index \in 0 .. c.first - 1
              THEN input[i - cbuffer.write_index + 1]
              ELSE IF i < c.second THEN input[c.first + i + 1] ELSE buffer_array[i]]
      /\ cbuffer' = [cbuffer EXCEPT !.write_index = (@ + count) % cbuffer.capacity]
      /\ cbufWritten' = cbufWritten \o input
      /\ UNCHANGED cbufRead

CBufferNext == \/ \E c \in CBufferCapacities : CBufferCreate(c)
               \/ \E n \in 1 .. cbuffer.capacity : CBufferRead(n) \/ CBufferWrite(n)

-----------------------------------------------------------------------------

(***************************************************************************)
(* The bytes come out as they went in, through any mixture of partial and  *)
(* wrapping reads and writes: what was read, followed by what lies between *)
(* the two indices, is what was written, and a full buffer is never taken  *)
(* for an empty one (circular_buffer.c:46-67).                             *)
(***************************************************************************)
CBufferIsStream ==
  /\ cbufWritten = cbufRead \o [i \in 1 .. CBufferSize |->
                                  buffer_array[(cbuffer.read_index + i - 1) % cbuffer.capacity]]
  /\ CBufferIsEmpty <=> cbufRead = cbufWritten

-----------------------------------------------------------------------------
(***************************************************************************)
(* The hash table of ds/hash: an array of doubly linked lists, hash_func   *)
(* choosing the list and match_func the element in it.  An element is a    *)
(* key, which both look at, with a value.  The lists are those of the      *)
(* module Lists, by what they hold.                                        *)
(***************************************************************************)

CONSTANTS HashKeys, HashValues,
          HashCapacity

VARIABLES hash_arr,    \* the lists
          hashState,   \* what HashCreate left: "none", "ready", "no array", "freed"
          hashed       \* what the table should hold: a value, or none, for each key

hashVars == <<hash_arr, hashState, hashed>>

hash_func(key) == key % HashCapacity

NoValue == 0

EmptyLists == [i \in 0 .. HashCapacity - 1 |-> <<>>]
NothingHashed == [k \in HashKeys |-> NoValue]

HashStart == hash_arr = EmptyLists /\ hashState = "none" /\ hashed = NothingHashed

\* HashCreate does not look at what InitHashArray returns: when an allocation
\* fails the caller gets a table without its array, or one that is freed.
InitHashArray == {"ready", "no array", "freed"}

HashCreate == /\ hashState = "none"
              /\ hashState' \in InitHashArray
              /\ UNCHANGED <<hash_arr, hashed>>

\* DlistFind with match_func: the place of the element, 0 for the end.
FindData(bucket, key) ==
    SelectInSeq(bucket, LAMBDA e : e[1] = key)

\* A mutant: the element is appended although its key is there.
HashInsertAppends(data) ==
    /\ hashState = "ready"
    /\ hash_arr' = [hash_arr EXCEPT ![hash_func(data[1])] = Append(@, data)]
    /\ hashed' = [hashed EXCEPT ![data[1]] = data[2]]
    /\ UNCHANGED hashState

HashInsert(data) ==
    /\ hashState = "ready"
    /\ LET i  == hash_func(data[1])
           at == FindData(hash_arr[i], data[1])
       IN  hash_arr' = [hash_arr EXCEPT ![i] =
                           IF at # 0 THEN [@ EXCEPT ![at] = data] ELSE Append(@, data)]
    /\ hashed' = [hashed EXCEPT ![data[1]] = data[2]]
    /\ UNCHANGED hashState

\* DlistPushBack finds no memory: HashInsert returns 0 and the table is as before.
HashInsertFails(key) == /\ hashState = "ready"
                        /\ FindData(hash_arr[hash_func(key)], key) = 0
                        /\ UNCHANGED hashVars

HashRemove(key) ==
    /\ hashState = "ready"
    /\ LET i  == hash_func(key)
           at == FindData(hash_arr[i], key)
       IN  hash_arr' = [hash_arr EXCEPT ![i] = IF at = 0 THEN @ ELSE RemoveAt(@, at)]
    /\ hashed' = [hashed EXCEPT ![key] = NoValue]
    /\ UNCHANGED hashState

HashFind(key) == LET bucket == hash_arr[hash_func(key)]
                     at     == FindData(bucket, key)
                 IN  IF at = 0 THEN NoValue ELSE bucket[at][2]

\* HashForEach with an action_func that fails for these keys: the elements it
\* is called with, list by list up to the first failure, and what is returned.
HashForEach(fails) ==
    LET Failing(e) == e[1] \in fails
        Bucket(done, i) ==
            LET bucket == hash_arr[i - 1]
                at     == SelectInSeq(bucket, Failing)
            IN  IF done.res # 0 THEN done
                ELSE [visited |-> done.visited \o SubSeq(bucket, 1, IF at = 0 THEN Len(bucket) ELSE at),
                      res |-> IF at = 0 THEN 0 ELSE 1]
    IN  FoldLeft(Bucket, [visited |-> <<>>, res |-> 0], [i \in 1 .. HashCapacity |-> i])

HashSize == MapThenSumSet(LAMBDA i : Len(hash_arr[i]), DOMAIN hash_arr)
HashIsEmpty == HashSize = 0

HashDestroy == /\ hashState = "ready" /\ hashState' = "none"
               /\ hash_arr' = EmptyLists /\ hashed' = NothingHashed

HashNext == \/ HashCreate
            \/ \E data \in HashKeys \X HashValues : HashInsert(data)
            \/ \E key \in HashKeys : HashInsertFails(key) \/ HashRemove(key)
            \/ HashDestroy

-----------------------------------------------------------------------------
\* The table is the function from keys to values that the calls have made of
\* it: HashFind finds the last value inserted under each key and nothing under
\* a key that was removed, HashSize counts every key once, and HashForEach meets
\* every key once, up to the first on which action_func fails.  A second element
\* of one key, in the list of the key or in another one, would come back to life
\* when the first is removed (hash.c:126-165).  Excepted is a table that could
\* not be made: HashCreate returns it, where hash.h:59 promises NULL, and no
\* call can use it.
HashIsMap ==
    LET kept == {k \in HashKeys : hashed[k] # NoValue} IN
    /\ \A k \in HashKeys : HashFind(k) = hashed[k]
    /\ HashSize = Cardinality(kept)
    /\ HashIsEmpty <=> hashed = NothingHashed
    /\ \A fails \in SUBSET HashKeys :
          LET each == HashForEach(fails)
              met  == {each.visited[i][1] : i \in DOMAIN each.visited}
          IN  /\ \A i \in DOMAIN each.visited :
                    /\ each.visited[i][2] = hashed[each.visited[i][1]]
                    /\ i < Len(each.visited) => each.visited[i][1] \notin fails
              /\ Len(each.visited) = Cardinality(met)
              /\ IF kept \cap fails = {} THEN met = kept /\ each.res = 0
                 ELSE Last(each.visited)[1] \in fails /\ each.res # 0

-----------------------------------------------------------------------------
(***************************************************************************)
(* BitArray<N> of cpp_fs/bit_array: N bits in a vector of words, with the  *)
(* proxy that stands for one of them.  A word is the set of its bits that  *)
(* are on.  Two arrays are driven, as the operators need.                  *)
(***************************************************************************)

CONSTANTS BitArrayNs,     \* the template's arguments
          WORD_BIT_SIZE   \* 64 in the code, which is the default N too

ASSUME BitArrayAssumption == BitArrayNs \subseteq Nat /\ WORD_BIT_SIZE \in Nat \ {0}

VARIABLES bitArrayN,    \* N
          m_bitarray,   \* the words of the two arrays
          bitArrayBits, \* which bits should be on
          bitArrayFlaw  \* a call has not done what it should; the model ends there

bitArrayVars == <<bitArrayN, m_bitarray, bitArrayBits, bitArrayFlaw>>

Arrays == 1 .. 2
WordBits == 0 .. WORD_BIT_SIZE - 1
GetIndex(pos) == pos \div WORD_BIT_SIZE
GetShiftNum(pos) == pos % WORD_BIT_SIZE
GetSize == GetIndex(bitArrayN) + (IF bitArrayN % WORD_BIT_SIZE = 0 THEN 0 ELSE 1)
Words == 0 .. GetSize - 1

BitArrayStart == /\ bitArrayN \in BitArrayNs /\ bitArrayFlaw = "none"
                 /\ m_bitarray = [a \in Arrays |-> [w \in Words |-> {}]]
                 /\ bitArrayBits = [a \in Arrays |-> {}]

\* CheckPos lets N itself through; the calls here are for the bits there are.
Positions == 0 .. bitArrayN - 1

\* The bits of the last word behind bit N - 1 are cleared.  With N a multiple of
\* the word the shift is by the whole width and the word is the one behind the
\* vector, whose own words stay as they are.
SetLastIndex(words) ==
    IF GetIndex(bitArrayN) \in Words
    THEN [words EXCEPT ![GetIndex(bitArrayN)] = @ \cap (0 .. GetShiftNum(bitArrayN) - 1)]
    ELSE words
WritesBehind == bitArrayFlaw' = IF GetIndex(bitArrayN) \in Words THEN bitArrayFlaw
                                ELSE "behind the vector"

\* BitProxy's operator= , operator bool and operator!
Assign(words, pos, value) ==
    [words EXCEPT ![GetIndex(pos)] = (@ \ {GetShiftNum(pos)}) \cup (IF value THEN {GetShiftNum(pos)} ELSE {})]
Test(words, pos) == GetShiftNum(pos) \in words[GetIndex(pos)]
ProxyBool(words, pos) == Test(words, pos)
ProxyNot(words, pos) == GetShiftNum(pos) \notin words[GetIndex(pos)]

SetAll(a) == /\ m_bitarray' = [m_bitarray EXCEPT ![a] = SetLastIndex([w \in Words |-> WordBits])]
             /\ bitArrayBits' = [bitArrayBits EXCEPT ![a] = Positions]
             /\ WritesBehind /\ UNCHANGED bitArrayN

Set(a, pos, value) ==
    /\ m_bitarray' = [m_bitarray EXCEPT ![a] = Assign(@, pos, value)]
    /\ bitArrayBits' = [bitArrayBits EXCEPT ![a] = IF value THEN @ \cup {pos} ELSE @ \ {pos}]

FlipAll(a) ==
    /\ m_bitarray' = [m_bitarray EXCEPT ![a] = SetLastIndex([w \in Words |-> WordBits \ @[w]])]
    /\ bitArrayBits' = [bitArrayBits EXCEPT ![a] = Positions \ @]
    /\ WritesBehind /\ UNCHANGED bitArrayN

Flip(a, pos) ==
    /\ m_bitarray' = [m_bitarray EXCEPT ![a] = Assign(@, pos, ~Test(@, pos))]
    /\ bitArrayBits' = [bitArrayBits EXCEPT ![a] = IF pos \in @ THEN @ \ {pos} ELSE @ \cup {pos}]

\* b[pos] = c[from], through two proxies
AssignBit(a, pos, from) ==
    /\ m_bitarray' = [m_bitarray EXCEPT ![a] = Assign(@, pos, ProxyBool(m_bitarray[3 - a], from))]
    /\ bitArrayBits' = [bitArrayBits EXCEPT ![a] = IF from \in bitArrayBits[3 - a] THEN @ \cup {pos}
                                                                                  ELSE @ \ {pos}]

\* BitProxy's Flip takes the position of its bit for that of a word and negates
\* the word, which may be one behind the vector.
ProxyFlip(a, pos) ==
    /\ m_bitarray' = IF pos \in Words
                     THEN [m_bitarray EXCEPT ![a][pos] = IF @ = {} THEN {0} ELSE {}]
                     ELSE m_bitarray
    /\ bitArrayBits' = [bitArrayBits EXCEPT ![a] = IF pos \in @ THEN @ \ {pos} ELSE @ \cup {pos}]
    /\ bitArrayFlaw' = "proxy's Flip"
    /\ UNCHANGED bitArrayN

\* std::transform over the words with bit_and, bit_or and bit_xor
AndWith(a) == /\ m_bitarray' = [m_bitarray EXCEPT ![a] = [w \in Words |-> @[w] \cap m_bitarray[3 - a][w]]]
              /\ bitArrayBits' = [bitArrayBits EXCEPT ![a] = @ \cap bitArrayBits[3 - a]]
OrWith(a) == /\ m_bitarray' = [m_bitarray EXCEPT ![a] = [w \in Words |-> @[w] \cup m_bitarray[3 - a][w]]]
             /\ bitArrayBits' = [bitArrayBits EXCEPT ![a] = @ \cup bitArrayBits[3 - a]]
Xor(x, y) == (x \ y) \cup (y \ x)
XorWith(a) == /\ m_bitarray' = [m_bitarray EXCEPT ![a] = [w \in Words |-> Xor(@[w], m_bitarray[3 - a][w])]]
              /\ bitArrayBits' = [bitArrayBits EXCEPT ![a] = Xor(@, bitArrayBits[3 - a])]

BitArrayCalls(a) ==
    \/ AndWith(a) \/ OrWith(a) \/ XorWith(a)
    \/ \E pos \in Positions : \/ Flip(a, pos)
                              \/ \E value \in BOOLEAN : Set(a, pos, value)
                              \/ \E from \in Positions : AssignBit(a, pos, from)

BitArrayNext ==
    /\ bitArrayFlaw = "none"
    /\ \E a \in Arrays : \/ SetAll(a) \/ FlipAll(a)
                        \/ \E pos \in Positions : ProxyFlip(a, pos)
                        \/ (BitArrayCalls(a) /\ UNCHANGED <<bitArrayN, bitArrayFlaw>>)

\* The counts of the bytes of the words, taken from the table, and summed.
Count(words) == Cardinality({p \in Words \X WordBits : p[2] \in words[p[1]]})
BitsToString(words) == [i \in Positions |-> Test(words, i)]
Equals == m_bitarray[1] = m_bitarray[2]
Differs == m_bitarray[1] # m_bitarray[2]

-----------------------------------------------------------------------------
\* The words are the N bits and nothing else: no call leaves a bit on behind
\* bit N - 1, where Count would count it and operator== would see two arrays
\* of the same bits as different (bit_array_impl.hpp:78-122, 178-231).  Excepted
\* is what comes after two calls that do not do what they should: the proxy's
\* Flip, and the Set() and Flip() that write behind the vector.
BitArrayHolds == bitArrayFlaw = "none" =>
    /\ \A a \in Arrays : /\ {i \in Positions : BitsToString(m_bitarray[a])[i]} = bitArrayBits[a]
                         /\ Count(m_bitarray[a]) = Cardinality(bitArrayBits[a])
    /\ Equals <=> bitArrayBits[1] = bitArrayBits[2]
    /\ Differs <=> \E i \in Positions : ProxyNot(m_bitarray[1], i) <=> ProxyBool(m_bitarray[2], i)

-----------------------------------------------------------------------------
(***************************************************************************)
(* The bit array of ds/bit_array: one machine word, here the set of its    *)
(* bits that are on, numbered from 0.  The callers number them from 1.     *)
(***************************************************************************)

CONSTANT BitsWidth  \* SIZE_OF_BIT_ARRAY: 64 in the code, a power of 2

ASSUME BitsWidthAssumption == BitsWidth \in {8, 16, 32, 64}

VARIABLE bits_arr  \* the word of the caller

BitIndexes == 0 .. BitsWidth - 1
ShiftLeft(arr, n) == {i + n : i \in arr} \cap BitIndexes
ShiftRight(arr, n) == {i - n : i \in arr} \cap BitIndexes

BitsArrSetOn(arr, idx) == arr \cup {idx - 1}
BitsArrSetOff(arr, idx) == arr \ {idx - 1}
BitsArrSetBit(arr, idx, boolean_val) ==
    IF boolean_val = 1 THEN BitsArrSetOn(arr, idx) ELSE BitsArrSetOff(arr, idx)
BitsArrGetVal(arr, idx) == idx - 1 \in arr
BitsArrFlip(arr) == BitIndexes \ arr

\* A shift by the whole width is undefined: the word as it was, or 0.
ShiftsLeft(arr, n) == IF n = BitsWidth THEN {arr, {}} ELSE {ShiftLeft(arr, n)}
ShiftsRight(arr, n) == IF n = BitsWidth THEN {arr, {}} ELSE {ShiftRight(arr, n)}

BitsArrRotR(arr, steps) ==
    LET s == steps % BitsWidth IN {w \cup ShiftRight(arr, s) : w \in ShiftsLeft(arr, BitsWidth - s)}
BitsArrRotL(arr, steps) ==
    LET s == steps % BitsWidth IN {w \cup ShiftLeft(arr, s) : w \in ShiftsRight(arr, BitsWidth - s)}

\* arr & (arr - 1) clears the lowest bit that is on.
RECURSIVE BitsArrCountOn(_)
BitsArrCountOn(arr) == IF arr = {} THEN 0 ELSE 1 + BitsArrCountOn(arr \ {Min(arr)})
BitsArrCountOff(arr) == BitsWidth - BitsArrCountOn(arr)

\* The tables are indexed by a nibble, which is the number its bits make.
arr_lut_count == <<0, 1, 1, 2, 1, 2, 2, 3, 1, 2, 2, 3, 2, 3, 3, 4>>
arr_lut_mirror == <<0, 8, 4, 12, 2, 10, 6, 14, 1, 9, 5, 13, 3, 11, 7, 15>>

Nibbles == BitsWidth \div 4
NibbleOf(arr, i) == MapThenSumSet(LAMBDA b : 2 ^ b, {b \in 0 .. 3 : 4 * i + b \in arr})
BitsOf(n) == {b \in 0 .. 3 : (n \div (2 ^ b)) % 2 = 1}

BitsArrCountOnLut(arr) ==
    MapThenSumSet(LAMBDA i : arr_lut_count[NibbleOf(arr, i) + 1], 0 .. Nibbles - 1)

\* Each nibble of arr, mirrored, is shifted into the result from the right.
BitsArrMirrorLut(arr) ==
    LET Step(m, i) == ShiftLeft(m, 4) \cup BitsOf(arr_lut_mirror[NibbleOf(arr, i - 1) + 1])
    IN  FoldLeft(Step, {}, [i \in 1 .. Nibbles |-> i])

\* One line of BitsArrMirror: the two halves of every block of 2 * n bits
\* change places, under the masks of the line.
SwapHalves(arr, n) == {IF (i \div n) % 2 = 0 THEN i + n ELSE i - n : i \in arr}

BitsArrMirror(arr) ==
    LET blocks == SelectSeq(<<32, 16, 8, 4, 2, 1>>, LAMBDA n : n < BitsWidth)
    IN  FoldLeft(SwapHalves, arr, blocks)

BitsArrToString(arr) ==
    [k \in 1 .. BitsWidth |-> IF BitsWidth - k \in arr THEN 1 ELSE 0]

BitsStart == bits_arr = {}

BitsNext == \/ \E idx \in 1 .. BitsWidth, val \in {0, 1} : bits_arr' = BitsArrSetBit(bits_arr, idx, val)
            \/ bits_arr' \in {BitsArrFlip(bits_arr), BitsArrMirror(bits_arr),
                              BitsArrMirrorLut(bits_arr)}
            \/ \E steps \in 0 .. BitsWidth : \/ bits_arr' \in BitsArrRotR(bits_arr, steps)
                                            \/ bits_arr' \in BitsArrRotL(bits_arr, steps)

-----------------------------------------------------------------------------
\* What a word is turned into: the rotations move every bit by the same
\* distance round the word, for every number of steps, 0 and the width
\* included, whatever an undefined shift gives; mirroring by masks and by table
\* is the same reflection, and counting by clearing bits and by table the same
\* number (bit_array.c:54-146).
BitsAgree ==
    /\ \A steps \in 0 .. BitsWidth + 1 :
          /\ BitsArrRotR(bits_arr, steps) = {{(i - steps) % BitsWidth : i \in bits_arr}}
          /\ BitsArrRotL(bits_arr, steps) = {{(i + steps) % BitsWidth : i \in bits_arr}}
    /\ \A i, j \in 1 .. BitsWidth, value \in {0, 1} :
          BitsArrGetVal(BitsArrSetBit(bits_arr, i, value), j)
            = IF i = j THEN value = 1 ELSE BitsArrGetVal(bits_arr, j)
    /\ BitsArrMirror(bits_arr) = {BitsWidth - 1 - i : i \in bits_arr}
    /\ BitsArrMirrorLut(bits_arr) = BitsArrMirror(bits_arr)
    /\ BitsArrCountOn(bits_arr) = Cardinality(bits_arr)
    /\ BitsArrCountOnLut(bits_arr) = BitsArrCountOn(bits_arr)
    /\ BitsArrCountOff(bits_arr) = BitsArrCountOn(BitsArrFlip(bits_arr))
    /\ BitsArrToString(BitsArrMirror(bits_arr)) = Reverse(BitsArrToString(bits_arr))
=============================================================================
