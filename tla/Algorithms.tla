----------------------------- MODULE Algorithms -----------------------------
(***************************************************************************)
(* The sorts and searches, the calculator and the knight's tour of ds.     *)
(***************************************************************************)
EXTENDS Integers, Sequences, FiniteSets, SequencesExt, FiniteSetsExt

-----------------------------------------------------------------------------
(***************************************************************************)
(* The sorts and searches of ds/utils/sorts: sorts.c, and the versions of  *)
(* them in binary search/binarysearch.c.  An array is a function on        *)
(* 0 .. length - 1, a call replaces it as a whole, and a loop of the code  *)
(* is a fold over its index or a recursion.  Every call is for an array of *)
(* at least one element: length - 1 is unsigned.                           *)
(***************************************************************************)

CONSTANTS SortValues,    \* the elements
          SortMaxLength, \* bound: of the arrays
          SortIntBits,   \* the widths of int, and of size_t
          SortSizeBits

VARIABLES sortInput,  \* the array of the caller
          sortBy,     \* who sorted it
          sortArr

sortVars == <<sortInput, sortBy, sortArr>>

Length(arr) == Cardinality(DOMAIN arr)

\* for (i = first; i <= last; ++i) acc = body(acc, i)
For(first, last, body(_, _), acc) ==
    FoldLeft(body, acc, [k \in 1 .. last - first + 1 |-> first + k - 1])

SwapInt(arr, i, j) == [arr EXCEPT ![i] = arr[j], ![j] = arr[i]]

BubbleSort(arr) ==
    LET Step(a, i)       == IF a[i] > a[i + 1] THEN SwapInt(a, i, i + 1) ELSE a
        Pass(a, runner)  == For(0, Length(arr) - runner - 2, Step, a)
    IN  For(0, Length(arr) - 2, Pass, arr)

SelectionSort(arr) ==
    LET Pass(a, sort_index) ==
            LET Least(m, runner) == IF a[runner] < a[m] THEN runner ELSE m
            IN  SwapInt(a, sort_index, For(sort_index, Length(arr) - 1, Least, sort_index))
    IN  For(0, Length(arr) - 2, Pass, arr)

RECURSIVE SinkDown(_, _)
SinkDown(arr, i) == IF i > 0 /\ arr[i - 1] > arr[i] THEN SinkDown(SwapInt(arr, i, i - 1), i - 1)
                                                    ELSE arr

InsertionSort(arr) == For(1, Length(arr) - 1, SinkDown, arr)

\* C's division and remainder, the conversion of int to size_t and back.
CDiv(a, b) == IF a < 0 THEN -((-a) \div b) ELSE a \div b
CRem(a, b) == a - b * CDiv(a, b)
ToInt(n) == LET m == n % (2 ^ SortIntBits)
            IN  IF m < 2 ^ (SortIntBits - 1) THEN m ELSE m - 2 ^ SortIntBits

\* num /= *param divides the size_t that num is converted to.
GetKey(num, param) ==
    IF param = 0 THEN num ELSE CRem(ToInt((num % (2 ^ SortSizeBits)) \div param), 10)

RECURSIVE GetNumOfDigit(_)
GetNumOfDigit(num) == IF num = 0 THEN 0 ELSE 1 + GetNumOfDigit(CDiv(num, 10))

\* digit_array holds, for each key, how many elements have that key or a
\* smaller one; the elements are then placed from the last to the first.
CountingSort1(arr, param) ==
    LET Key(i)     == GetKey(arr[i], param)
        Place(s, k) ==
            LET i == Length(arr) - 1 - k
            IN  [s EXCEPT !.arr[s.digit_array[Key(i)] - 1] = arr[i], !.digit_array[Key(i)] = @ - 1]
        counts     == [d \in {Key(i) : i \in DOMAIN arr} |->
                         Cardinality({i \in DOMAIN arr : Key(i) <= d})]
    IN  For(0, Length(arr) - 1, Place, [arr |-> arr, digit_array |-> counts]).arr

CountingSort(arr) == CountingSort1(arr, 0)

RadixSort(arr) ==
    LET values     == {arr[i] : i \in DOMAIN arr}
        max_digits == Max({GetNumOfDigit(Max(values)), GetNumOfDigit(Min(values))})
        Pass(a, d) == CountingSort1(a, 10 ^ d)
    IN  For(0, max_digits - 1, Pass, arr)

-----------------------------------------------------------------------------
(* MergeSort.  MergeBySize merges arr[lo .. mid - 1] and arr[mid .. hi - 1] *)
(* through a second array, MergBySize in place, with the same outcome.     *)

Part(arr, lo, hi) == [k \in 1 .. hi - lo |-> arr[lo + k - 1]]

RECURSIVE MergeRuns(_, _)
MergeRuns(s, t) ==
    IF s = <<>> \/ t = <<>> THEN s \o t
    ELSE IF Head(s) < Head(t) THEN <<Head(s)>> \o MergeRuns(Tail(s), t)
                              ELSE <<Head(t)>> \o MergeRuns(s, Tail(t))

MergeBySize(arr, lo, mid, hi) ==
    IF arr[mid] > arr[mid - 1] THEN arr
    ELSE LET merged == MergeRuns(Part(arr, lo, mid), Part(arr, mid, hi))
         IN  [i \in DOMAIN arr |-> IF i \in lo .. hi - 1 THEN merged[i - lo + 1] ELSE arr[i]]

\* while (runner1 <= runner2 && runner2 < arr1 + length), from i and j
RECURSIVE MergBySize(_, _, _, _)
MergBySize(arr, i, j, hi) ==
    IF i > j \/ j >= hi THEN arr
    ELSE IF arr[i] < arr[j] THEN MergBySize(arr, i + 1, j, hi)
    ELSE MergBySize([k \in DOMAIN arr |-> CASE k = i -> arr[j]
                                            [] k \in i + 1 .. j -> arr[k - 1]
                                            [] OTHER -> arr[k]], i + 1, j + 1, hi)

RECURSIVE MergeSortFrom(_, _, _)
MergeSortFrom(arr, lo, n) ==
    IF n = 1 THEN arr
    ELSE LET half  == n \div 2
             left  == MergeSortFrom(arr, lo, half)
             right == MergeSortFrom(left, lo + half, half + (n % 2))
         IN  MergeBySize(right, lo, lo + half, lo + n)

MergeSort(arr) == MergeSortFrom(arr, 0, Length(arr))

SwapIfGreater(arr, i) == IF arr[i] > arr[i + 1] THEN SwapInt(arr, i, i + 1) ELSE arr

\* Two or three elements; one element is compared with what lies behind it.
SwapIfNeed(arr, lo, n) ==
    LET two == SwapIfGreater(arr, lo)
    IN  IF n = 3 THEN SwapIfGreater(SwapIfGreater(two, lo + 1), lo) ELSE two

RECURSIVE MergeSortThree(_, _, _)
MergeSortThree(arr, lo, n) ==
    IF n <= 3 THEN SwapIfNeed(arr, lo, n)
    ELSE LET half  == n \div 2
             left  == MergeSortThree(arr, lo, half)
             right == MergeSortThree(left, lo + half, half + (n % 2))
         IN  IF right[lo + half] > right[lo + half - 1] THEN right
                                                        ELSE MergBySize(right, lo, lo + half, lo + n)

-----------------------------------------------------------------------------
(* QuickSort around the first element.  The three versions differ in where *)
(* runner and back_runner stop: at each other, or at the ends of the part. *)

RECURSIVE Forward(_, _, _, _)
Forward(arr, pivot, runner, end) ==
    IF runner < end /\ arr[pivot] >= arr[runner] THEN Forward(arr, pivot, runner + 1, end)
                                                 ELSE runner

RECURSIVE Backward(_, _, _, _)
Backward(arr, pivot, back_runner, end) ==
    IF arr[back_runner] > arr[pivot] /\ back_runner >= end
    THEN Backward(arr, pivot, back_runner - 1, end) ELSE back_runner

RECURSIVE Partition(_, _, _, _, _, _)
Partition(version, arr, first, last, runner, back_runner) ==
    IF runner >= back_runner THEN [arr |-> arr, at |-> back_runner]
    ELSE LET up   == Forward(arr, first, runner,
                             CASE version = "sorts.c" -> back_runner
                               [] version = "binarysearch.c" -> last
                               [] version = "partition" -> last + 1)
             down == Backward(arr, first, back_runner,
                              IF version = "sorts.c" THEN up ELSE first)
         IN  Partition(version, IF up < down THEN SwapInt(arr, up, down) ELSE arr,
                       first, last, up, down)

RECURSIVE QuickSortByIndexes(_, _, _, _)
QuickSortByIndexes(version, arr, first, last) ==
    IF first >= last THEN arr
    ELSE LET p == Partition(version, arr, first, last, first, last)
             a == SwapInt(p.arr, first, p.at)
         IN  QuickSortByIndexes(version,
                 QuickSortByIndexes(version, a, first, p.at - 1), p.at + 1, last)

QuickSort(version, arr) == QuickSortByIndexes(version, arr, 0, Length(arr) - 1)

-----------------------------------------------------------------------------
(* The searches, on a sorted array.  Positions of the generic ones are in  *)
(* bytes; the answer is the index found, or NotFound.                      *)

NotFound == -1
Hangs == -2

\* (bytes / 2) - (bytes / 2) % size_of_element
HalfDown(bytes, size) == (bytes \div 2) - ((bytes \div 2) % size)

RECURSIVE BinarySearchLoop(_, _, _, _, _, _)
BinarySearchLoop(arr, data, size, first, mid, last) ==
    LET at == arr[mid \div size]
    IN  IF at = data \/ first >= mid THEN IF at = data THEN mid \div size ELSE NotFound
        ELSE LET f == IF at > data THEN first ELSE mid
                 l == IF at > data THEN mid ELSE last
             IN  BinarySearchLoop(arr, data, size, f,
                     l - (l - f) \div 2 - (((l - f) \div 2) % size), l)

BinarySearchIterative(arr, data, size) ==
    LET bytes == Length(arr) * size
    IN  BinarySearchLoop(arr, data, size, 0, HalfDown(bytes, size), bytes)

RECURSIVE BinarySearchRecursive(_, _, _, _)
BinarySearchRecursive(arr, lo, data, n) ==
    LET mid == lo + n \div 2
    IN  CASE arr[mid] = data -> mid
          [] arr[mid] # data /\ n = 1 -> NotFound
          [] arr[mid] # data /\ n # 1 ->
                BinarySearchRecursive(arr, IF arr[mid] > data THEN lo ELSE mid, data,
                                      (n \div 2) + (n % 2))

RECURSIVE BinSearchRecursive(_, _, _, _)
BinSearchRecursive(arr, left, right, data) ==
    LET mid == (left + right) \div 2
    IN  CASE left > right -> NotFound
          [] left <= right /\ arr[mid] = data -> mid
          [] left <= right /\ arr[mid] < data -> BinSearchRecursive(arr, mid + 1, right, data)
          [] left <= right /\ arr[mid] > data -> BinSearchRecursive(arr, left, mid - 1, data)

\* IsFound looks at three places, then narrows the part.  On the right side of
\* mid it moves mid by half of what is left of the part, not from the new first:
\* mid stays in front of a short part, which then never gets shorter.
RECURSIVE IsFound(_, _, _, _, _)
IsFound(arr, num, first, mid, last) ==
    CASE arr[first] = num -> first
      [] arr[mid] = num /\ arr[first] # num -> mid
      [] arr[last] = num /\ num \notin {arr[first], arr[mid]} -> last
      [] OTHER ->
            IF num < arr[first] \/ num > arr[last] THEN NotFound
            ELSE IF num < arr[mid] THEN IsFound(arr, num, first, mid - 1 - CDiv(mid - 1 - first, 2), mid - 1)
            ELSE LET m == mid + CDiv(last - mid - 1, 2)
                 IN  IF first = mid + 1 /\ m = mid THEN Hangs
                                                   ELSE IsFound(arr, num, mid + 1, m, last)

IterativeBinarySearch(arr, num) == IsFound(arr, num, 0, Length(arr) \div 2, Length(arr) - 1)

-----------------------------------------------------------------------------
SortArrays == UNION {[0 .. n - 1 -> SortValues] : n \in 1 .. SortMaxLength}

SortStart == sortInput \in SortArrays /\ sortArr = sortInput /\ sortBy = "none"

SortWith(name, arr) == sortArr' = arr /\ sortBy' = name /\ UNCHANGED sortInput

SortNext ==
    /\ sortBy = "none"
    /\ \/ SortWith("BubbleSort", BubbleSort(sortArr))
       \/ SortWith("SelectionSort", SelectionSort(sortArr))
       \/ SortWith("InsertionSort", InsertionSort(sortArr))
       \/ SortWith("CountingSort", CountingSort(sortArr))
       \/ SortWith("RadixSort", RadixSort(sortArr))
       \/ SortWith("MergeSort", MergeSort(sortArr))
       \/ Length(sortArr) > 1 /\ SortWith("MergeSortThree", MergeSortThree(sortArr, 0, Length(sortArr)))
       \/ \E version \in {"sorts.c", "binarysearch.c", "partition"} :
             SortWith("QuickSort", QuickSort(version, sortArr))

\* The array is the same elements in ascending order, whichever function has
\* sorted it; RadixSort only when none of them is negative, since its keys are
\* digits of the size_t that the element becomes (sorts.c:486).
SortsSort ==
    sortBy # "none" =>
        /\ \A v \in SortValues : Cardinality({i \in DOMAIN sortArr : sortArr[i] = v})
                               = Cardinality({i \in DOMAIN sortInput : sortInput[i] = v})
        /\ (sortBy # "RadixSort" \/ \A i \in DOMAIN sortInput : sortInput[i] >= 0)
              => \A i, j \in DOMAIN sortArr : i < j => sortArr[i] <= sortArr[j]

IsAnswer(arr, data, at) ==
    IF \E i \in DOMAIN arr : arr[i] = data THEN at \in DOMAIN arr /\ arr[at] = data
                                           ELSE at = NotFound

\* In a sorted array the searches find an element that is there, and say so
\* when it is not (sorts.c:208-262).  BinarySearchIterative does so for elements
\* of an even size: it halves a number of bytes, and for elements of one byte
\* mid stops at last.  IterativeBinarySearch finds what is there, and may hang
\* otherwise (binarysearch.c:187).
SearchesFind ==
    sortBy = "InsertionSort" =>
        \A data \in (Min(SortValues) - 1) .. (Max(SortValues) + 1) :
            /\ \A size \in {2, 4, 6} :
                  IsAnswer(sortArr, data, BinarySearchIterative(sortArr, data, size))
            /\ IsAnswer(sortArr, data, BinarySearchRecursive(sortArr, 0, data, Length(sortArr)))
            /\ IsAnswer(sortArr, data, BinSearchRecursive(sortArr, 0, Length(sortArr) - 1, data))
            /\ IsAnswer(sortArr, data, IterativeBinarySearch(sortArr, data))
                  \/ IterativeBinarySearch(sortArr, data) = Hangs

-----------------------------------------------------------------------------
(***************************************************************************)
(* Calculate of ds/utils/calc: an expression is read once, from left to    *)
(* right, with a stack of numbers and a stack of operators.  The           *)
(* expression is a sequence of tokens, chosen one at a time as the code    *)
(* reads them.  "n" is whatever strtod takes for a number, its sign        *)
(* included; minus is read as plus and the division as the product, and    *)
(* braces as brackets: they have the same priority and the same functions  *)
(* in the tables.  A number is the tree of the operations that made it,    *)
(* since the parsing does not depend on its value.                         *)
(***************************************************************************)

CONSTANTS CalcMaxLength,               \* bound: tokens of the expression
          CalcNumStack, CalcOpStack    \* the capacities: 100 and 1000 in the code

VARIABLES calcExp,       \* the tokens that have been seen
          math_exp,      \* how many of them have been consumed
          curren_state,
          num_stack, op_stack,
          parantheses_counter,
          exit_status,   \* "SUCCESS", an error, or "ABORT": an assertion of the stack
          calcResult

calcVars == <<calcExp, math_exp, curren_state, num_stack, op_stack, parantheses_counter,
              exit_status, calcResult>>

End == "\\0"
CalcOperators == {"+", "*", "^"}
Openers == {"(", "["}
Opener(closer) == IF closer = ")" THEN "(" ELSE "["

\* operators_lut[..][1]; the entries of the other characters are 0.
GetOperatorPriority(operator) == CASE operator = "+" -> 1
                                   [] operator = "*" -> 2
                                   [] operator = "^" -> 3
                                   [] OTHER -> 0

StackPeek(s) == s[Len(s)]

CalcInit == /\ calcExp = <<>> /\ math_exp = 0
            /\ curren_state = "WAIT_FOR_NUM"
            /\ num_stack = <<>> /\ op_stack = <<"#">>
            /\ parantheses_counter = 0
            /\ exit_status = "SUCCESS"
            /\ calcResult = <<>>

\* The token in front of the parser is t: it has been seen before, or it is new.
Reads(t) == \/ /\ Len(calcExp) > math_exp
               /\ calcExp[math_exp + 1] = t
               /\ UNCHANGED calcExp
            \/ /\ Len(calcExp) = math_exp
               /\ Len(calcExp) < CalcMaxLength \/ t = End
               /\ calcExp' = Append(calcExp, t)

Fails(error) == /\ exit_status' = error
                /\ curren_state' = "done"
                /\ UNCHANGED <<num_stack, op_stack, parantheses_counter, calcResult>>

\* GetNum consumes an opening parenthesis or a number, or nothing.
WaitForNum(t) ==
    /\ curren_state = "WAIT_FOR_NUM"
    /\ Reads(t)
    /\ math_exp' = math_exp + 1
    /\ IF t \in Openers
       THEN IF Len(op_stack) = CalcOpStack THEN Fails("ABORT")
            ELSE /\ op_stack' = Append(op_stack, t)
                 /\ parantheses_counter' = parantheses_counter + 1
                 /\ UNCHANGED <<curren_state, num_stack, exit_status, calcResult>>
       ELSE IF t # "n" THEN Fails("SYNTAX_ERROR")
       ELSE IF Len(num_stack) = CalcNumStack THEN Fails("ABORT")
       ELSE /\ num_stack' = Append(num_stack, <<math_exp + 1>>)
            /\ curren_state' = "WAIT_FOR_OP"
            /\ UNCHANGED <<op_stack, parantheses_counter, exit_status, calcResult>>

\* A mutant: the operands come off the stack the other way round.
CalcOperationSwapped(stacks) ==
    LET n == Len(stacks.nums)
    IN  [nums |-> Append(SubSeq(stacks.nums, 1, n - 2),
                         <<StackPeek(stacks.ops), stacks.nums[n], stacks.nums[n - 1]>>),
         ops  |-> Front(stacks.ops)]

CalcOperation(stacks) ==
    LET n == Len(stacks.nums)
    IN  [nums |-> Append(SubSeq(stacks.nums, 1, n - 2),
                         <<StackPeek(stacks.ops), stacks.nums[n - 1], stacks.nums[n]>>),
         ops  |-> Front(stacks.ops)]

RECURSIVE CalcUntil(_, _)
CalcUntil(stops, stacks) ==
    IF StackPeek(stacks.ops) \in stops THEN stacks ELSE CalcUntil(stops, CalcOperation(stacks))

Stacks == [nums |-> num_stack, ops |-> op_stack]

\* Divide and Power refuse some numbers: any operation of these may fail.
MayFail(before, after) ==
    \E i \in Len(after.ops) + 1 .. Len(before.ops) : before.ops[i] \in {"*", "^"}

MathError(before, after) == MayFail(before, after) /\ Fails("MATH_ERROR")

\* TwoPowerInRow: a power after a power waits for its own exponent.
Pushes(operator) == \/ operator = "^" /\ StackPeek(op_stack) = "^"
                    \/ GetOperatorPriority(operator) > GetOperatorPriority(StackPeek(op_stack))

CorrectOperator(operator) ==
    \/ /\ Pushes(operator)
       /\ math_exp' = math_exp + 1
       /\ IF Len(op_stack) = CalcOpStack THEN Fails("ABORT")
          ELSE /\ op_stack' = Append(op_stack, operator)
               /\ curren_state' = "WAIT_FOR_NUM"
               /\ UNCHANGED <<num_stack, parantheses_counter, exit_status, calcResult>>
    \/ /\ ~Pushes(operator)
       /\ UNCHANGED math_exp  \* the operator is read again
       /\ LET s == CalcOperation(Stacks)
          IN  \/ MathError(Stacks, s)
              \/ /\ num_stack' = s.nums /\ op_stack' = s.ops
                 /\ UNCHANGED <<curren_state, parantheses_counter, exit_status, calcResult>>

Parantheses(closer) ==
    LET s == CalcUntil(Openers \cup {"#"}, Stacks)
    IN  /\ math_exp' = math_exp + 1
        /\ IF StackPeek(s.ops) # Opener(closer) THEN Fails("SYNTAX_ERROR")
           ELSE \/ MathError(Stacks, s)
                \/ /\ num_stack' = s.nums /\ op_stack' = Front(s.ops)
                   /\ parantheses_counter' = parantheses_counter - 1
                   /\ UNCHANGED <<curren_state, exit_status, calcResult>>

\* The end of the expression: Calculate looks at parantheses_counter first.
EndOfEx ==
    LET s == CalcUntil({"#"}, Stacks)
    IN  /\ UNCHANGED math_exp
        /\ IF parantheses_counter # 0 THEN Fails("SYNTAX_ERROR")
           ELSE \/ MathError(Stacks, s)
                \/ /\ calcResult' = StackPeek(s.nums)
                   /\ curren_state' = "done"
                   /\ num_stack' = s.nums /\ op_stack' = s.ops
                   /\ UNCHANGED <<parantheses_counter, exit_status>>

NotCorrectOperator == math_exp' = math_exp + 1 /\ Fails("SYNTAX_ERROR")

WaitForOp(t) ==
    /\ curren_state = "WAIT_FOR_OP"
    /\ Reads(t)
    /\ \/ t \in CalcOperators /\ CorrectOperator(t)
       \/ t \in {")", "]"} /\ Parantheses(t)
       \/ t = End /\ EndOfEx
       \/ t \in Openers \cup {"n"} /\ NotCorrectOperator

CalcNext == \E t \in CalcOperators \cup Openers \cup {")", "]", "n", End} :
                WaitForNum(t) \/ WaitForOp(t)

-----------------------------------------------------------------------------
(* The grammar: sums of products of powers, powers from the right.  The    *)
(* trees of the tokens lo .. hi at each level.                             *)
RECURSIVE TreesOf(_, _, _, _)
TreesOf(level, s, lo, hi) ==
    CASE level = "atom" ->
            IF lo = hi /\ s[lo] = "n" THEN {<<lo>>}
            ELSE IF lo < hi /\ s[lo] \in Openers /\ s[hi] \in {")", "]"} /\ Opener(s[hi]) = s[lo]
                 THEN TreesOf("+", s, lo + 1, hi - 1) ELSE {}
      [] level = "^" ->
            TreesOf("atom", s, lo, hi) \cup
            UNION {{<<"^", a, b>> : a \in TreesOf("atom", s, lo, i - 1), b \in TreesOf("^", s, i + 1, hi)} :
                       i \in {k \in lo + 1 .. hi - 1 : s[k] = "^"}}
      [] level \in {"*", "+"} ->
            LET tighter == IF level = "*" THEN "^" ELSE "*"
            IN  TreesOf(tighter, s, lo, hi) \cup
                UNION {{<<level, a, b>> : a \in TreesOf(level, s, lo, i - 1),
                                          b \in TreesOf(tighter, s, i + 1, hi)} :
                           i \in {k \in lo + 1 .. hi - 1 : s[k] = level}}

\* When Calculate has read an expression to its end it answers with the one
\* tree that the grammar gives it, and with SYNTAX_ERROR when there is none;
\* an expression with a prefix that cannot go on is refused there.  It takes
\* an operator read twice, a pair of powers or a parenthesis of the wrong
\* kind, several tokens back, to break this (calc.c:208-300).
CalcParses ==
    curren_state = "done" =>
        LET n == Len(calcExp) - (IF Len(calcExp) > 0 /\ Last(calcExp) = End THEN 1 ELSE 0)
            trees == TreesOf("+", calcExp, 1, n)
        IN  /\ exit_status = "SUCCESS" => trees = {calcResult} /\ Last(calcExp) = End
            /\ exit_status = "SYNTAX_ERROR" => trees = {}

-----------------------------------------------------------------------------
(***************************************************************************)
(* The knight's tour of ds/knight_tour.  The board has KnightSide rows     *)
(* (8 in the code); a square is its index.  is_visited is a set of squares *)
(* and the vector the path.  The recursion of the backtracking is a stack  *)
(* of the moves tried so far on each square of the path.                   *)
(***************************************************************************)

CONSTANTS KnightGames  \* what is played: <<walk, side, start>>

VARIABLES knightGame,
          knightPath,   \* the vector
          is_visited,
          knightTried,  \* i of every activation of the backtracking
          knightDegree, \* possible_moves_idx_lut[8]
          knightDone    \* "no", "tour" or "none": what the walk returned; or "overflow"

knightVars == <<knightGame, knightPath, is_visited, knightTried, knightDegree, knightDone>>

MAX_POS_MOVE == 8
KnightMoves == <<<<-2, -1>>, <<-1, -2>>, <<1, -2>>, <<2, -1>>, <<2, 1>>, <<1, 2>>, <<-1, 2>>, <<-2, 1>>>>

Walk == knightGame[1]
Side == knightGame[2]
Board == 0 .. (Side * Side) - 1

\* LEGIT_ROW and LEGIT_COL
Legit(side, move, square) ==
    /\ (square \div side) + KnightMoves[move][1] \in 0 .. side - 1
    /\ (square % side) + KnightMoves[move][2] \in 0 .. side - 1

\* possible_moves_idx_lut[move - 1][square]: 0 when the move leaves the board.
possible_move(side, move, square) ==
    IF Legit(side, move, square) THEN KnightMoves[move][1] * side + KnightMoves[move][2] ELSE 0

InitPossibleMoves(side) ==
    [square \in 0 .. (side * side) - 1 |->
        Cardinality({m \in 1 .. MAX_POS_MOVE : Legit(side, m, square)})]

KnightStart == /\ knightGame \in KnightGames
               /\ knightPath = <<knightGame[3]>>
               /\ is_visited = {knightGame[3]}
               /\ knightTried = <<0>>
               /\ knightDegree = InitPossibleMoves(knightGame[2])
               /\ knightDone = "no"

Here == Last(knightPath)
CanMove(move) == LET step == possible_move(Side, move, Here)
                 IN  step # 0 /\ Here + step \notin is_visited

Finish == /\ knightDone = "no" /\ is_visited = Board
          /\ knightDone' = "tour"
          /\ UNCHANGED <<knightGame, knightPath, is_visited, knightTried, knightDegree>>

\* One pass of the loop of WalkThrowChessBackTracking, with the call it makes.
TryMove ==
    LET i == Last(knightTried) + 1
    IN  /\ Walk = "BackTracking" /\ knightDone = "no" /\ is_visited # Board
        /\ i <= MAX_POS_MOVE
        /\ IF CanMove(i)
           THEN LET next == Here + possible_move(Side, i, Here)
                IN  /\ knightPath' = Append(knightPath, next)
                    /\ is_visited' = is_visited \cup {next}
                    /\ knightTried' = Append([knightTried EXCEPT ![Len(knightTried)] = i], 0)
           ELSE /\ knightTried' = [knightTried EXCEPT ![Len(knightTried)] = i]
                /\ UNCHANGED <<knightPath, is_visited>>
        /\ UNCHANGED <<knightGame, knightDegree, knightDone>>

\* No move is left: the square is popped and the caller, whose is_visited is a
\* copy without it, goes on.
GiveUp ==
    /\ Walk = "BackTracking" /\ knightDone = "no" /\ is_visited # Board
    /\ Last(knightTried) = MAX_POS_MOVE
    /\ knightPath' = Front(knightPath)
    /\ is_visited' = is_visited \ {Here}
    /\ knightTried' = Front(knightTried)
    /\ knightDone' = IF Len(knightTried) = 1 THEN "none" ELSE "no"
    /\ UNCHANGED <<knightGame, knightDegree>>

\* The loop of WalkThrowChessWarnsdorff over the moves: every square that can
\* be reached loses one from its count, and min is the count after that of the
\* square chosen, so a square with one move fewer than it does not replace it.
LookAround ==
    LET Look(s, move) ==
            LET next == Here + possible_move(Side, move, Here)
            IN  IF ~CanMove(move) THEN s
                ELSE [degree |-> [s.degree EXCEPT ![next] = @ - 1],
                      min    |-> IF s.min > s.degree[next] THEN s.degree[next] - 1 ELSE s.min,
                      next   |-> IF s.min > s.degree[next] THEN next ELSE s.next]
    IN  FoldLeft(Look, [degree |-> knightDegree, min |-> 9, next |-> Here],
                 [m \in 1 .. MAX_POS_MOVE |-> m])

Warnsdorff ==
    LET end == LookAround
    IN  /\ Walk = "Warnsdorff" /\ knightDone = "no" /\ is_visited # Board
        /\ knightDegree' = end.degree
        /\ IF end.next = Here
           THEN knightDone' = "none" /\ UNCHANGED <<knightPath, is_visited>>
           ELSE /\ knightPath' = Append(knightPath, end.next)
                /\ is_visited' = is_visited \cup {end.next}
                /\ UNCHANGED knightDone
        /\ UNCHANGED <<knightGame, knightTried>>

\* The walk of review/knight_tour.c does not look whether a move was found: on a
\* square without one it calls itself for that square, which is pushed again,
\* until the stack ends ("overflow").
RvWarnsdorff ==
    LET end == LookAround
    IN  /\ Walk = "RvWarnsdorff" /\ knightDone = "no" /\ is_visited # Board
        /\ knightDegree' = end.degree
        /\ knightPath' = Append(knightPath, end.next)
        /\ is_visited' = is_visited \cup {end.next}
        /\ knightDone' = IF end.next = Here THEN "overflow" ELSE "no"
        /\ UNCHANGED <<knightGame, knightTried>>

\* What the calls print once the vector is full: a frame for every square of the
\* path, the squares coloured in it being those that were reached so far, and
\* the moves.
IsColoured(arr, square) == \E i \in DOMAIN arr : arr[i] = square
PrintTheProgress(vector) ==
    [i \in DOMAIN vector |-> {j \in Board : IsColoured(SubSeq(vector, 1, i), j)}]
PrintThePath(vector) == [i \in 1 .. Len(vector) - 1 |-> <<vector[i], vector[i + 1]>>]

KnightNext == Finish \/ TryMove \/ GiveUp \/ Warnsdorff \/ RvWarnsdorff

-----------------------------------------------------------------------------
\* The path is a knight's walk over different squares, exactly those that
\* is_visited holds, and each activation of the backtracking stands for one of
\* its squares; a walk that returns with all bits on has left the whole board
\* on the path, and a backtracking that fails has left nothing on it
\* (knight_tour.c:181-283).  The calls the program makes do find a tour, and
\* what they print of it colours one square more in every frame and all of them
\* in the last.  Only the reviewed walk can run out of stack, and only on a
\* square from which no move is left (review/knight_tour.c:303).
KnightWalks ==
    /\ ToSet(knightPath) = is_visited
    /\ Cardinality(is_visited) = Len(knightPath) - IF knightDone = "overflow" THEN 1 ELSE 0
    /\ \A i \in 1 .. Cardinality(is_visited) - 1 :
          LET move == PrintThePath(knightPath)[i]
              rows == (move[1] \div Side) - (move[2] \div Side)
              cols == (move[1] % Side) - (move[2] % Side)
          IN  rows * rows + cols * cols = 5
    /\ Walk = "BackTracking" => Len(knightTried) = Len(knightPath)
    /\ knightDone = "tour" =>
          LET frames == PrintTheProgress(knightPath)
          IN  /\ is_visited = Board /\ frames[Cardinality(Board)] = Board
              /\ \A i \in DOMAIN frames : Cardinality(frames[i]) = i
    /\ knightDone = "none" =>
          /\ Side # 8
          /\ IF Walk = "BackTracking" THEN is_visited = {}
             ELSE \A m \in 1 .. MAX_POS_MOVE : ~CanMove(m)
    /\ knightDone = "overflow" =>
          Walk = "RvWarnsdorff" /\ Side # 8 /\ \A m \in 1 .. MAX_POS_MOVE : ~CanMove(m)
=============================================================================
