----------------------------- MODULE WorkSheets -----------------------------
(***************************************************************************)
(* The exercises of the work sheets: on linked nodes, on numbers and bits, *)
(* and on strings.                                                         *)
(***************************************************************************)
EXTENDS Integers, Sequences, FiniteSets, SequencesExt, FiniteSetsExt
LOCAL INSTANCE Bitwise

-----------------------------------------------------------------------------
(***************************************************************************)
(* The exercises on bare nodes of ds/slist/part 2/slist_ex.c and of c/     *)
(* recursion/recursion.c, and the latter's SortStack and Fibonacci.  The   *)
(* nodes are linked in every way, with loops and with tails that two lists *)
(* share.                                                                  *)
(***************************************************************************)

CONSTANTS PuzzleNodes,   \* 1 .. n; lists start at nodes 1 and 2
          PuzzleElements \* elements of stacks, which have up to 4, bottom first

VARIABLES puzNext,  \* next of every node, 0 for NULL
          puzHead,  \* the head of the first list
          puzData,  \* nodes that FindIntersection has marked: data is -1
          puzBefore \* history: puzNext before the call

puzVars == <<puzNext, puzHead, puzData, puzBefore>>

\* Where n steps lead from a node.
RECURSIVE After(_, _, _)
After(next, node, n) == IF n = 0 \/ node = 0 THEN node ELSE After(next, next[node], n - 1)
Reach(next, node) == {After(next, node, k) : k \in 0 .. Cardinality(PuzzleNodes)} \ {0}
Ends(next, node) == After(next, node, Cardinality(PuzzleNodes)) = 0
LastOf(next, node) == CHOOSE n \in Reach(next, node) : next[n] = 0

\* The loop of Flip: next_one, head and previus_one go along the list.
RECURSIVE FlipLoop(_, _, _)
FlipLoop(next, head, previus_one) ==
  IF head = 0 THEN [next |-> next, head |-> previus_one]
  ELSE FlipLoop([next EXCEPT ![head] = previus_one], next[head], head)
FlipNodes(next, head) == FlipLoop(next, head, 0)

RECURSIVE FlipList(_, _)
FlipList(next, node) ==
  IF next[node] = 0 THEN [next |-> next, head |-> node]
  ELSE LET flipped == FlipList(next, next[node])
       IN  [next |-> [flipped.next EXCEPT ![flipped.next[node]] = node, ![node] = 0],
            head |-> flipped.head]

\* slow_runner goes one step and usain_runner two.  A list of one node makes
\* it read through NULL.
RECURSIVE RunnersMeet(_, _, _)
RunnersMeet(next, slow_runner, usain_runner) ==
  IF slow_runner = usain_runner \/ next[usain_runner] = 0 \/ next[next[usain_runner]] = 0
  THEN slow_runner = usain_runner
  ELSE RunnersMeet(next, next[slow_runner], next[next[usain_runner]])
HasLoop(next, head) == RunnersMeet(next, head, next[head])

\* All nodes of the first list but the last are marked; then the second list
\* is walked to a mark, or to its end.
Marked == Reach(puzNext, puzHead) \ {LastOf(puzNext, puzHead)}
RECURSIVE ToMark(_, _, _)
ToMark(next, marks, node) == IF next[node] = 0 \/ node \in marks THEN node
                             ELSE ToMark(next, marks, next[node])
FindIntersection == ToMark(puzNext, Marked, 2)

\* Mutant of SortElemnt: the element taken off is not pushed again.
SortElemntLoses(stack, element) ==
  IF stack = <<>> \/ element >= Last(stack) THEN Append(stack, element)
  ELSE Append(Front(stack), element)

RECURSIVE SortElemnt(_, _)
SortElemnt(stack, element) ==
  IF stack = <<>> \/ element >= Last(stack) THEN Append(stack, element)
  ELSE Append(SortElemnt(Front(stack), element), Last(stack))

RECURSIVE SortStack(_)
SortStack(stack) == IF stack = <<>> THEN <<>> ELSE SortElemnt(SortStack(Front(stack)), Last(stack))

RECURSIVE FibLoop(_, _, _)
FibLoop(first, second, n) == IF n <= 0 THEN second ELSE FibLoop(second, first + second, n - 1)
FibonacciIteratively(element_index) == FibLoop(1, 1, element_index - 2)

RECURSIVE FibonacciRecursively(_)
FibonacciRecursively(n) ==
  IF n \in {0, 1} THEN n ELSE FibonacciRecursively(n - 2) + FibonacciRecursively(n - 1)

-----------------------------------------------------------------------------

PuzzleStart ==
  /\ puzNext \in [PuzzleNodes -> PuzzleNodes \cup {0}] /\ puzHead = 1 /\ puzData = {}
  /\ puzBefore = puzNext

Untouched == puzData = {} /\ puzNext = puzBefore

CallFlip(flipped) ==
  /\ Untouched /\ Ends(puzNext, 1)
  /\ puzNext' = flipped.next /\ puzHead' = flipped.head
  /\ UNCHANGED <<puzData, puzBefore>>

CallFindIntersection ==
  /\ Untouched /\ Ends(puzNext, 1) /\ Ends(puzNext, 2) /\ puzData' = Marked
  /\ UNCHANGED <<puzNext, puzHead, puzBefore>>

PuzzleNext ==
  \/ Ends(puzNext, 1) /\ (CallFlip(FlipNodes(puzNext, 1)) \/ CallFlip(FlipList(puzNext, 1)))
  \/ CallFindIntersection

-----------------------------------------------------------------------------

ListFrom(next, node) == [i \in 1 .. Cardinality(Reach(next, node)) |-> After(next, node, i - 1)]

(***************************************************************************)
(* Flipping, with a loop or by recursion, reverses the list and leaves the *)
(* nodes outside it alone; HasLoop is right about every list of two nodes  *)
(* or more; FindIntersection finds the first common node where there is    *)
(* one (and otherwise answers the end of the second list); SortStack sorts *)
(* every stack; both Fibonaccis agree from 1 on.                           *)
(***************************************************************************)
PuzzlesSolved ==
  LET before == puzBefore
      common == Reach(before, 1) \cap Reach(before, 2)
  IN  /\ puzNext # before \/ puzHead # 1 =>
           /\ ListFrom(puzNext, puzHead) = Reverse(ListFrom(before, 1))
           /\ \A n \in PuzzleNodes \ Reach(before, 1) : puzNext[n] = before[n]
           /\ FlipNodes(before, 1) = FlipList(before, 1)
      /\ before[1] # 0 => (HasLoop(before, 1) <=> ~Ends(before, 1))
      /\ Untouched /\ Ends(before, 1) /\ Ends(before, 2) =>
           IF common = {} THEN FindIntersection = LastOf(before, 2)
           ELSE FindIntersection = ListFrom(before, 2)[Min({i \in DOMAIN ListFrom(before, 2) :
                                                              ListFrom(before, 2)[i] \in common})]
      /\ (\A n \in PuzzleNodes : before[n] = 0) =>
           \A stack \in SeqOf(PuzzleElements, 4) : SortStack(stack) = SortSeq(stack, LAMBDA x, y : x < y)
      /\ \A n \in 1 .. 8 : FibonacciIteratively(n) = FibonacciRecursively(n)

-----------------------------------------------------------------------------
(***************************************************************************)
(* The functions on numbers of the work sheets: the conversions of         *)
(* c/ws9/ws9_itoa.c between a number and its text, which a program writes  *)
(* into one buffer again and again, the tricks with bits of c/ws6/ws6.c,   *)
(* and Josephus of c/ws3/ws3.c.  A text in the buffer ends at its first    *)
(* NUL; '-' is MINUS, and the digit d is the character DIGIT + d (the      *)
(* letters that stand for the digits from 10 on are told from the others   *)
(* by AtoiAnyBase as they are made by ItoaAnyBase).                        *)
(***************************************************************************)

CONSTANTS WsNumbers,   \* the numbers that are converted; not INT_MIN, whose
                       \* negation is undefined
          WsBases,     \* bases, from 2 on: with 1 DigitCounter does not end
          WsBytes,     \* bytes of the buffer
          WsBits       \* width of the words of ws6: 8 and 32 in the source

VARIABLES wsText,      \* the buffer
          wsNum,       \* the number whose text it should hold, and its base
          wsBase,
          wsCovered,   \* history: no byte of an earlier text stands right behind it
          wsWord       \* a word for the functions of ws6

wsVars == <<wsText, wsNum, wsBase, wsCovered, wsWord>>

WS_NUL == 0
MINUS == 1
DIGIT == 2

WsStart ==
  /\ wsText = [i \in 0 .. WsBytes - 1 |-> WS_NUL]
  /\ wsNum = 0 /\ wsBase = 10 /\ wsCovered = TRUE
  /\ wsWord \in 0 .. 2^WsBits - 1

-----------------------------------------------------------------------------
(* ws9_itoa.c *)

Magnitude(num) == IF num < 0 THEN -num ELSE num

\* The division of C goes towards 0.
RECURSIVE DigitCounter(_, _)
DigitCounter(num, base) ==
  IF num = 0 THEN 0 ELSE 1 + DigitCounter(Magnitude(num) \div base, base)

\* The digits are written from the last one on.
RECURSIVE WriteDigits(_, _, _, _)
WriteDigits(str, num, count, base) ==
  IF num = 0 THEN str
  ELSE WriteDigits([str EXCEPT ![count - 1] = DIGIT + (num % base)], num \div base, count - 1, base)

\* Mutant of ItoaAnyBase: the sign is not counted.
ItoaAnyBaseNoSign(num, str, base) ==
  LET count == DigitCounter(num, base)
  IN  IF num < 0
        THEN WriteDigits([str EXCEPT ![0] = MINUS, ![count + 1] = WS_NUL], -num, count, base)
        ELSE WriteDigits(str, num, count, base)

\* Only a negative number gets a terminator, and 0 gets no digit.  Itoa is the
\* same with base 10.
ItoaAnyBase(num, str, base) ==
  LET count == DigitCounter(num, base)
  IN  IF num < 0
        THEN WriteDigits([str EXCEPT ![0] = MINUS, ![count + 1] = WS_NUL], -num, count + 1, base)
        ELSE WriteDigits(str, num, count, base)
Itoa(num, str) == ItoaAnyBase(num, str, 10)

\* AtoiAnyBase: every character up to the terminator counts as a digit.
RECURSIVE ReadDigits(_, _, _, _)
ReadDigits(str, at, num, base) ==
  IF str[at] = WS_NUL THEN num
  ELSE ReadDigits(str, at + 1, num * base + (str[at] - DIGIT), base)
AtoiAnyBase(str, base) ==
  IF str[0] = MINUS THEN -ReadDigits(str, 1, 0, base) ELSE ReadDigits(str, 0, 0, base)

Convert(num, base) ==
  /\ wsNum' = num /\ wsBase' = base
  /\ \/ wsText' = ItoaAnyBase(num, wsText, base)
     \/ base = 10 /\ wsText' = Itoa(num, wsText)
  /\ wsCovered' = (num < 0 \/ wsText[DigitCounter(num, base)] = WS_NUL)
  /\ UNCHANGED wsWord

WsNext == \E num \in WsNumbers, base \in WsBases : Convert(num, base)

-----------------------------------------------------------------------------
(* ws6.c, on words of WsBits bits; a negative int is its two's complement *)

WordRange == 2^WsBits
Endless == -1   \* a loop that does not end

\* n & (n - 1) clears the lowest bit that is on.
IsPow(n) == n >= 1 /\ (n & (n - 1)) = 0

AddOne(num) == (WordRange - (WordRange - 1 - num)) % WordRange

\* power2 becomes 0 when the last bit is shifted out, and stays there.
RECURSIVE AddOneLoop(_, _)
AddOneLoop(num, power2) ==
  IF power2 = 0 THEN Endless
  ELSE IF power2 = (num & power2) THEN AddOneLoop(num ^^ power2, (2 * power2) % WordRange)
  ELSE num ^^ power2

\* >> of a negative int brings the sign in again.
RECURSIVE IsThreeOn(_, _)
IsThreeOn(num, count) ==
  IF num = 0 THEN (IF count = 3 THEN 1 ELSE 0)
  ELSE IF num >= WordRange \div 2 THEN Endless
  ELSE IsThreeOn(num \div 2, count + (num % 2))

\* The masks 204, 51, 170 and 85.  Mutant: without the last exchange.
ByteMirrorShort(byte) ==
  LET b == ((byte \div 16) | (16 * byte)) % 256
  IN  (((b & 204) \div 4) | (4 * (b & 51))) % 256
ByteMirror(byte) ==
  LET b4 == ((byte \div 16) | (16 * byte)) % 256
      b2 == (((b4 & 204) \div 4) | (4 * (b4 & 51))) % 256
  IN  (((b2 & 170) \div 2) | (2 * (b2 & 85))) % 256

RECURSIVE ByteMirrorLoop(_, _, _)
ByteMirrorLoop(byte, result, i) ==
  IF i = 8 THEN result % 256
  ELSE ByteMirrorLoop(byte \div 2, (2 * result) | (byte & 1), i + 1)

Is2And6BitsOn(byte) == ((byte & 32) \div 32) & ((byte & 2) \div 2)
Is2Or6BitsOn(byte) == ((byte & 32) \div 32) | ((byte & 2) \div 2)
Swap3And5Bits(byte) ==
  ((byte & (255 - 20)) | ((byte & 16) \div 4)) | (4 * (byte & 4))
FindClosestDivisibleBy16(num) == num & (WordRange - 1 - 15)

\* The two numbers after the three assignments; of a number with itself 0.
SwapWithOnly2Var(num1, num2, same) ==
  IF same THEN <<0, 0>>
  ELSE LET a == num1 ^^ num2
           b == a ^^ num2
       IN  <<a ^^ b, b>>

CountSetBits(num) ==
  LET Bit(i) == (num \div 2^i) & 1
      sum[i \in 0 .. WsBits] == IF i = 0 THEN 0 ELSE sum[i - 1] + Bit(i - 1)
  IN  sum[WsBits]

RECURSIVE CountSetBitsLoop(_, _)
CountSetBitsLoop(num, power2) ==
  IF power2 = 0 THEN 0
  ELSE (IF power2 = (num & power2) THEN 1 ELSE 0)
         + CountSetBitsLoop(num, (2 * power2) % WordRange)

-----------------------------------------------------------------------------
(* ws3.c *)

\* players[i] is the next one who stands: each kills him and hands on.  The
\* loop that fills it ends for 2 players and more.
RECURSIVE KillNext(_, _)
KillNext(players, i) ==
  IF players[i] = i THEN i
  ELSE LET after == players[players[i]]
       IN  KillNext([players EXCEPT ![i] = after], after)
Josephus(length) ==
  KillNext([i \in 0 .. length - 1 |-> (i + 1) % length], 0) + 1

-----------------------------------------------------------------------------
(***************************************************************************)
(* What ItoaAnyBase writes AtoiAnyBase reads back, in every base, if the   *)
(* buffer holds no byte of an earlier text right behind it: for a number   *)
(* that is not negative no terminator is written, and what is left of a    *)
(* longer text is read as more digits (ws9_itoa.c 108-165).                *)
(***************************************************************************)
TextsReadBack == wsCovered => AtoiAnyBase(wsText, wsBase) = wsNum

(***************************************************************************)
(* Each pair of functions of ws6.c for one thing agrees with the other and *)
(* with the bits of the word: the mirror with and without a loop, counts,  *)
(* exchanges and increments, except where a loop does not end (AddOneLoop  *)
(* of -1, IsThreeOn of a negative number).  Josephus' survivor is the one  *)
(* of the closed formula (ws3.c 32-54).                                    *)
(***************************************************************************)
WordsAgree ==
  LET On(w) == {i \in 0 .. WsBits - 1 : (w \div 2^i) % 2 = 1}
      Flip35(i) == CASE i = 2 -> 4 [] i = 4 -> 2 [] OTHER -> i
      w == wsWord
      n == On(w)
  IN  /\ IsPow(w) <=> \E k \in 0 .. WsBits - 1 : w = 2^k
      /\ AddOne(w) = (w + 1) % WordRange
      /\ AddOneLoop(w, 1) \in {AddOne(w), Endless}
      /\ AddOneLoop(w, 1) = Endless <=> w = WordRange - 1
      /\ CountSetBitsLoop(w, 1) = Cardinality(n) /\ CountSetBits(w) = Cardinality(n)
      /\ IsThreeOn(w, 0) = CASE w >= WordRange \div 2 -> Endless
                               [] w < WordRange \div 2 /\ Cardinality(n) = 3 -> 1
                               [] OTHER -> 0
      /\ On(ByteMirror(w)) = {7 - i : i \in n}
      /\ ByteMirrorLoop(w, 0, 0) = ByteMirror(w)
      /\ Is2And6BitsOn(w) = 1 <=> {1, 5} \subseteq n
      /\ Is2Or6BitsOn(w) = 1 <=> {1, 5} \cap n # {}
      /\ On(Swap3And5Bits(w)) = {Flip35(i) : i \in n}
      /\ FindClosestDivisibleBy16(w) % 16 = 0 /\ w - FindClosestDivisibleBy16(w) \in 0 .. 15
      /\ \A v \in {0, 1, 170, w} : SwapWithOnly2Var(w, v, FALSE) = <<v, w>>
      /\ (w \in 2 .. 40) =>
           LET p == CHOOSE p \in {2, 4, 8, 16, 32} : p <= w /\ w < 2 * p
           IN  Josephus(w) = 2 * (w - p) + 1

-----------------------------------------------------------------------------
(***************************************************************************)
(* The string functions of c/ws2/string.c and, where they have the same    *)
(* name there, of c/recursion/recursion.c.  A program copies and appends   *)
(* texts into one buffer, whose bytes behind a terminator stay as they     *)
(* were.  A text is its sequence of characters without the terminator.     *)
(***************************************************************************)

CONSTANTS StrSize,    \* bytes of the buffer
          StrChars,   \* characters, as their codes
          StrMaxSrc   \* bound: length of a source text

VARIABLES strDest,    \* the buffer
          strValue,   \* history: the text the buffer should hold
          strSound    \* history: since the last copy no call met a stale byte

strVars == <<strDest, strValue, strSound>>

NUL == 0
SPACE == 32
TAB == 9
StrTexts == SeqOf(StrChars, StrMaxSrc)

\* The first of the positions that satisfies stops, one of them does.
FirstPos(from, to, stops(_)) == CHOOSE i \in from .. to : stops(i) /\ \A j \in from .. i - 1 : ~stops(j)

\* s[i], from 0
C(s, i) == IF i < Len(s) THEN s[i + 1] ELSE NUL

-----------------------------------------------------------------------------
(* Functions that write *)

Strlen(dest) == FirstPos(0, StrSize - 1, LAMBDA i : dest[i] = NUL)
Text(dest) == [i \in 1 .. Strlen(dest) |-> dest[i - 1]]

\* The bytes of src and then a terminator at end, from position at.
Write(dest, at, src, end) ==
  [i \in 0 .. StrSize - 1 |-> IF at <= i /\ i < at + Len(src) THEN src[i - at + 1]
                              ELSE IF i = end THEN NUL ELSE dest[i]]

Strcpy(dest, src) == Write(dest, 0, src, Len(src))
Strncpy(dest, src, n) == Write(dest, 0, SubSeq(src, 1, Min({n, Len(src)})), Min({n, Len(src)}))

\* Mutant of Strncat: as many bytes as src has.
StrncatAll(dest, src, n) == Write(dest, Strlen(dest), src, Strlen(dest) + Len(src))

\* The terminator is written one byte too far: the byte in front of it stays.
Strcat(dest, src) == Write(dest, Strlen(dest), src, Strlen(dest) + Len(src) + 1)
Strncat(dest, src, n) ==
  Write(dest, Strlen(dest), SubSeq(src, 1, Min({n, Len(src)})),
        Strlen(dest) + Min({n, Len(src)}) + 1)

\* Strcat of recursion.c: a terminator goes ahead of every character.
RECURSIVE StrcatRec(_, _, _, _)
StrcatRec(dest, at, src, j) ==
  IF dest[at] # NUL THEN StrcatRec(dest, at + 1, src, j)
  ELSE IF C(src, j) = NUL THEN [dest EXCEPT ![at] = NUL, ![at + 1] = NUL]
  ELSE StrcatRec([dest EXCEPT ![at] = C(src, j), ![at + 1] = NUL], at + 1, src, j + 1)

\* No terminator is written: it is there if the memory c was 0.
Strdup(src, c) == [i \in 0 .. StrSize - 1 |-> IF i < Len(src) THEN src[i + 1] ELSE c]

IsBlank(c) == c = SPACE \/ c = TAB

\* Behind a blank, the spaces that follow it are closed up; str then skips
\* the character behind the blank.
RECURSIVE within_Space_remove(_, _)
within_Space_remove(s, at) ==
  IF C(s, at) = NUL THEN s
  ELSE IF ~IsBlank(C(s, at)) THEN within_Space_remove(s, at + 1)
  ELSE LET count == FirstPos(0, Len(s), LAMBDA k : C(s, at + 1 + k) # SPACE)
           closed == SubSeq(s, 1, at + 1) \o SubSeq(s, at + 2 + count, Len(s))
       IN  within_Space_remove(closed, at + 2)

\* The text without the blanks around it; NULL (<<>> here) if one character
\* is left.  Without any, str_end runs out of the text.
RemoveExtraWS(s) ==
  LET from == FirstPos(0, Len(s) - 1, LAMBDA i : i = Len(s) - 1 \/ ~IsBlank(C(s, i)))
      to == Len(s) - 1 - FirstPos(0, Len(s) - 1, LAMBDA i : ~IsBlank(C(s, Len(s) - 1 - i)))
  IN  IF to <= from THEN <<>> ELSE within_Space_remove(SubSeq(s, from + 1, to + 1), 0)

-----------------------------------------------------------------------------
(* Functions that read *)

Strcmp(s, t) == LET i == FirstPos(0, Len(s), LAMBDA k : C(s, k) = NUL \/ C(s, k) # C(t, k))
                IN  C(s, i) - C(t, i)

RECURSIVE StrcmpRec(_, _)
StrcmpRec(s, t) == IF s = <<>> \/ Head(s) # C(t, 0) THEN C(s, 0) - C(t, 0)
                   ELSE StrcmpRec(Tail(s), Tail(t))

Case_Char(c1, c2) == IF c1 = c2 \/ (c1 \in 65 .. 90 /\ c1 = c2 - 32)
                                \/ (c1 \in 97 .. 122 /\ c1 = c2 + 32) THEN 0 ELSE 1

tolower(c) == IF c \in 65 .. 90 THEN c + 32 ELSE c

\* The result is 0 at the end of str1, however long str2 is.
Strcasecmp(s, t) ==
  LET i == FirstPos(0, Len(s), LAMBDA k : C(s, k) = NUL \/ Case_Char(C(s, k), C(t, k)) = 1)
  IN  IF C(s, i) # NUL THEN tolower(C(s, i)) - tolower(C(t, i)) ELSE 0

\* A position, or -1 for NULL; for '\0' the beginning.
Strchr(s, c) == IF c = NUL THEN 0
                ELSE LET i == FirstPos(0, Len(s), LAMBDA k : C(s, k) \in {NUL, c})
                     IN  IF C(s, i) = NUL THEN -1 ELSE i

\* How far the two agree, up to the end of either.
Match(s, at, needle) ==
  FirstPos(0, Len(needle), LAMBDA k : C(needle, k) = NUL \/ C(s, at + k) = NUL
                                        \/ C(needle, k) # C(s, at + k))

\* Every position but the terminator's is tried.
Strstr(s, needle) ==
  LET i == FirstPos(0, Len(s), LAMBDA k : k = Len(s) \/ Match(s, k, needle) = Len(needle))
  IN  IF i = Len(s) THEN -1 ELSE i

\* Strstr of recursion.c tries it too.
StrstrRec(s, needle) ==
  LET i == FirstPos(0, Len(s) + 1, LAMBDA k : k > Len(s) \/ Match(s, k, needle) = Len(needle))
  IN  IF i > Len(s) THEN -1 ELSE i

\* 0 also when all of str is accepted.
Strspn(s, accept) ==
  LET i == FirstPos(0, Len(s), LAMBDA k : C(s, k) = NUL \/ C(s, k) \notin Range(accept))
  IN  IF i = Len(s) THEN 0 ELSE i

RECURSIVE IsPalindrom(_)
IsPalindrom(s) == Len(s) <= 1 \/ (Head(s) = Last(s) /\ IsPalindrom(SubSeq(s, 2, Len(s) - 1)))

RECURSIVE DigitSeven(_)
DigitSeven(num) == num # 0 /\ (num % 10 = 7 \/ DigitSeven(num \div 10))

SevenBoom(num1, num2) == {n \in num1 .. num2 : n % 7 = 0 \/ DigitSeven(n)}

-----------------------------------------------------------------------------
(* A program that uses them *)

\* Static storage, or what malloc returned.
StrStart == /\ \E c \in {NUL} \cup StrChars : strDest = [i \in 0 .. StrSize - 1 |-> c]
            /\ strValue = <<>> /\ strSound = (strDest[0] = NUL)

Terminated == \E i \in 0 .. StrSize - 1 : strDest[i] = NUL

StrCopies(src, n) ==
  /\ strDest' = IF n = Len(src) THEN Strcpy(strDest, src) ELSE Strncpy(strDest, src, n)
  /\ strValue' = SubSeq(src, 1, Min({n, Len(src)})) /\ strSound' = TRUE

\* There has to be room for the text and two bytes.
StrAppends(src, n) ==
  LET end == Strlen(strDest) + Min({n, Len(src)}) IN
  /\ Terminated /\ end + 1 < StrSize
  /\ strDest' = IF n = Len(src) THEN Strcat(strDest, src) ELSE Strncat(strDest, src, n)
  /\ strValue' = strValue \o SubSeq(src, 1, Min({n, Len(src)}))
  /\ strSound' = (strSound /\ strDest[end] = NUL)

StrAppendsRec(src) ==
  /\ Terminated /\ Strlen(strDest) + Len(src) + 1 < StrSize
  /\ strDest' = StrcatRec(strDest, 0, src, 0)
  /\ strValue' = strValue \o src /\ UNCHANGED strSound

StrDuplicates(src, c) ==
  /\ strDest' = Strdup(src, c) /\ strValue' = src /\ strSound' = (c = NUL)

StrNext == \E src \in StrTexts : \/ StrAppendsRec(src) \/ \E c \in {NUL} \cup StrChars : StrDuplicates(src, c)
                                 \/ \E n \in 0 .. StrMaxSrc : StrCopies(src, n) \/ StrAppends(src, n)

-----------------------------------------------------------------------------

(* What string.h promises, and the calls for which string.c departs from it *)

Lower(s) == [i \in DOMAIN s |-> tolower(s[i])]

\* The order of texts by their first difference.
Before(s, t) ==
  IsStrictPrefix(s, t) \/ \E i \in DOMAIN s \cap DOMAIN t :
                            SubSeq(s, 1, i - 1) = SubSeq(t, 1, i - 1) /\ s[i] < t[i]

Sign(n) == IF n = 0 THEN 0 ELSE IF n < 0 THEN -1 ELSE 1
Order(s, t) == IF s = t THEN 0 ELSE IF Before(s, t) THEN -1 ELSE 1

\* No white space around the text, and of each sequence in it the first.
WSRemoved(s) ==
  LET letters == {i \in DOMAIN s : ~IsBlank(s[i])}
      kept == letters \cup {i \in DOMAIN s : i - 1 \in letters /\ \E j \in letters : j > i}
  IN  [k \in 1 .. Cardinality(kept) |-> s[SetToSortSeq(kept, <)[k]]]

\* Strspn counts for nothing a text that is accepted to its end.
AllAccepted(s, t) == s # <<>> /\ Range(s) \subseteq Range(t)

\* Strcasecmp stops at the end of the first text and finds nothing less.
CaseBegins(s, t) == IsStrictPrefix(Lower(s), Lower(t))

\* RemoveExtraWS returns NULL for a single letter, runs out of a text without
\* any, and closes up spaces only: a tab behind another blank stays.
WSMissed(s) ==
  \/ Len(WSRemoved(s)) <= 1
  \/ \E i \in 2 .. Len(s) : /\ s[i] = TAB /\ IsBlank(s[i - 1])
                            /\ \E j \in 1 .. i : ~IsBlank(s[j])
                            /\ \E j \in i .. Len(s) : ~IsBlank(s[j])

(***************************************************************************)
(* The functions of string.c return what string.h says (string.h:12-188),  *)
(* but for these calls, in which the code departs from it:                 *)
(*   - Strcat and Strncat terminate the text one byte too late, and Strdup *)
(*     not at all: the text is right only if the byte there was 0 already  *)
(*     (strSound; string.c:105,121,84-87 against string.h:63-107);         *)
(*   - Strspn returns 0 when it accepts all of the text (string.c:171);    *)
(*   - Strcasecmp finds equal a text with which the other begins (:52-58); *)
(*   - Strstr does not find the empty needle in the empty text (:129);     *)
(*   - RemoveExtraWS: WSMissed (:212-238, :283-320).                       *)
(* Strncpy's padding (string.h:27) is not looked at: no byte behind the    *)
(* terminator is, and the code leaves them as they were.  Both Strcmp and  *)
(* both Strstr agree; IsPalindrom compares with the reverse; and SevenBoom *)
(* finds the multiples of 7 and the numbers with a digit 7.                *)
(***************************************************************************)
StringsAgree ==
  /\ strSound => Text(strDest) = strValue
  /\ \A t \in StrTexts :
       LET s == strValue
           at == {p \in 0 .. Len(s) - Len(t) : SubSeq(s, p + 1, p + Len(t)) = t}
           first == IF at = {} THEN -1 ELSE Min(at)
       IN  /\ Sign(Strcmp(s, t)) = Order(s, t) /\ StrcmpRec(s, t) = Strcmp(s, t)
           /\ ~CaseBegins(s, t) => Sign(Strcasecmp(s, t)) = Order(Lower(s), Lower(t))
           /\ StrstrRec(s, t) = first /\ (<<s, t>> # <<<<>>, <<>>>> => Strstr(s, t) = first)
           /\ ~AllAccepted(s, t) =>
                Strspn(s, t) = Max({k \in 0 .. Len(s) : Range(SubSeq(s, 1, k)) \subseteq Range(t)})
           /\ Len(t) = 1 => Strchr(s, t[1]) = first
  /\ IsPalindrom(strValue) <=> Reverse(strValue) = strValue
  /\ \A s \in {strValue} \cup (IF strValue = <<>> THEN SeqOf({97, SPACE, TAB}, 5) ELSE {}) :
       ~WSMissed(s) => RemoveExtraWS(s) = WSRemoved(s)
  /\ strValue = <<>> => \A n \in 0 .. 200 :
       n \in SevenBoom(0, 200) <=> n % 7 = 0 \/ \E k \in {1, 10, 100} : (n \div k) % 10 = 7
=============================================================================
