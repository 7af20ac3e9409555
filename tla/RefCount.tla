------------------------------ MODULE RefCount ------------------------------
(***************************************************************************)
(* RCString (cpp_fs/rcstring/rcstring.cpp), a string that shares its text  *)
(* with its copies until one of them is written, and SharedPtr (cpp_fs/    *)
(* shared_pointer).  An object is constructed, copied, assigned, changed   *)
(* and destroyed in any order.  Memory that is deleted is gone: what reads *)
(* it fails in the model as well.  Last the classes of cpp_fs/cpp2c, whose *)
(* objects live by the rules of C++ in one program and by calls written    *)
(* out in its translations to C.                                           *)
(***************************************************************************)
EXTENDS Integers, Sequences, FiniteSets, SequencesExt, Functions

CONSTANTS RcObjects,  \* the objects of a program
          RcBlocks,   \* addresses new may return, more than there are objects
          RcLetters, RcMaxLength  \* what a text is made of

VARIABLES rcData,    \* of the objects alive: the block of m_data
          rcBlock,   \* of the blocks allocated: m_count and m_ref_str
          rcValue,   \* history: what each string should be
          spPtr,     \* of the pointers alive: m_ptr, m_counter
          spCounter, \* the counters allocated
          spObject,  \* history: objects pointed to that were not deleted
          trProgram, \* which of the two programs of cpp2c
          trCpp, trC \* the worlds of the program and of its translation

rcVars == <<rcData, rcBlock, rcValue>>
sptrVars == <<spPtr, spCounter, spObject>>
trVars == <<trProgram, trCpp, trC>>

Dropped(f, x) == Restrict(f, DOMAIN f \ {x})
Stored(f, x, v) == [y \in DOMAIN f \cup {x} |-> IF y = x THEN v ELSE f[y]]
FreeBlock(used) == CHOOSE b \in RcBlocks \ used : TRUE

-----------------------------------------------------------------------------
(* RCString *)

Texts == SeqOf(RcLetters, RcMaxLength) \ {<<>>}

IsShared(b) == rcBlock[b].m_count > 1
SharedInit(text) == [m_count |-> 1, m_ref_str |-> text]
ToCStr(o) == rcBlock[rcData[o]].m_ref_str
RCLength(o) == Len(ToCStr(o))

\* The sign of strcmp: the first letters that differ, or the end of one text.
strcmp(s, t) ==
  LET Below(a, b) == \E k \in 1 .. Len(b) : /\ SubSeq(a, 1, k - 1) = SubSeq(b, 1, k - 1)
                                            /\ k <= Len(a) => a[k] < b[k]
  IN  IF Below(s, t) THEN -1 ELSE IF Below(t, s) THEN 1 ELSE 0

RCEquals(lhs, rhs) == strcmp(ToCStr(lhs), ToCStr(rhs)) = 0
RCGreater(lhs, rhs) == strcmp(ToCStr(lhs), ToCStr(rhs)) > 0
RCLess(lhs, rhs) == strcmp(ToCStr(lhs), ToCStr(rhs)) < 0

\* The const operator[], which copies nothing: <<>> where it throws.
RCGet(o, pos) == IF pos > RCLength(o) THEN <<>> ELSE <<ToCStr(o)[pos]>>

\* Mutant of LetGo: the last one leaves the block behind.
LetGoKeeps(blocks, b) == [blocks EXCEPT ![b].m_count = @ - 1]

\* One object less points to block b.
LetGo(blocks, b) == IF blocks[b].m_count > 1 THEN [blocks EXCEPT ![b].m_count = @ - 1]
                    ELSE Dropped(blocks, b)

RCString(o, text) ==
  LET b == FreeBlock(DOMAIN rcBlock) IN
  /\ o \notin DOMAIN rcData
  /\ rcData' = Stored(rcData, o, b) /\ rcBlock' = Stored(rcBlock, b, SharedInit(text))
  /\ rcValue' = Stored(rcValue, o, text)

RCCopy(o, other) ==
  /\ o \notin DOMAIN rcData
  /\ rcData' = Stored(rcData, o, rcData[other])
  /\ rcBlock' = [rcBlock EXCEPT ![rcData[other]].m_count = @ + 1]
  /\ rcValue' = Stored(rcValue, o, rcValue[other])

\* The new block is counted before the old one is let go.
RCAssign(o, other) ==
  /\ rcData' = [rcData EXCEPT ![o] = rcData[other]]
  /\ rcBlock' = LetGo([rcBlock EXCEPT ![rcData[other]].m_count = @ + 1], rcData[o])
  /\ rcValue' = [rcValue EXCEPT ![o] = rcValue[other]]

RCDestroy(o) ==
  /\ rcData' = Dropped(rcData, o) /\ rcBlock' = LetGo(rcBlock, rcData[o])
  /\ rcValue' = Dropped(rcValue, o)

\* s[pos] = c: operator[] gives the string a text of its own first.  Past the
\* end it throws.
RCWrite(o, pos, c) ==
  LET b == rcData[o]
      own == IF IsShared(b) THEN FreeBlock(DOMAIN rcBlock) ELSE b
      text == [rcBlock[b].m_ref_str EXCEPT ![pos] = c]
      rest == IF IsShared(b) THEN LetGo(rcBlock, b) ELSE rcBlock
  IN  /\ pos <= RCLength(o)
      /\ rcData' = [rcData EXCEPT ![o] = own] /\ rcBlock' = Stored(rest, own, SharedInit(text))
      /\ rcValue' = [rcValue EXCEPT ![o][pos] = c]

\* The texts are put together in a new block before the old one is let go.
ConcatTwoRcstings(o, other) == ToCStr(o) \o ToCStr(other)

RCConcat(o, other) ==
  LET b == FreeBlock(DOMAIN rcBlock) IN
  /\ Len(ConcatTwoRcstings(o, other)) <= RcMaxLength
  /\ rcData' = [rcData EXCEPT ![o] = b]
  /\ rcBlock' = Stored(LetGo(rcBlock, rcData[o]), b, SharedInit(ConcatTwoRcstings(o, other)))
  /\ rcValue' = [rcValue EXCEPT ![o] = rcValue[o] \o rcValue[other]]

\* o = lhs + rhs: the result is a copy of lhs until Concat.
RCPlus(o, lhs, rhs) ==
  LET b == FreeBlock(DOMAIN rcBlock) IN
  /\ o \notin DOMAIN rcData /\ Len(ConcatTwoRcstings(lhs, rhs)) <= RcMaxLength
  /\ rcData' = Stored(rcData, o, b)
  /\ rcBlock' = Stored(rcBlock, b, SharedInit(ConcatTwoRcstings(lhs, rhs)))
  /\ rcValue' = Stored(rcValue, o, rcValue[lhs] \o rcValue[rhs])

\* is >> s: a string made of the buffer is assigned, and destroyed.
RCRead(o, text) ==
  LET b == FreeBlock(DOMAIN rcBlock) IN
  /\ rcData' = [rcData EXCEPT ![o] = b]
  /\ rcBlock' = Stored(LetGo(rcBlock, rcData[o]), b, SharedInit(text))
  /\ rcValue' = [rcValue EXCEPT ![o] = text]

RcStart == rcData = <<>> /\ rcBlock = <<>> /\ rcValue = <<>>

RcNext ==
  \/ \E o \in RcObjects : \/ \E text \in Texts : RCString(o, text)
                          \/ \E other \in DOMAIN rcData : RCCopy(o, other)
                          \/ \E lhs, rhs \in DOMAIN rcData : RCPlus(o, lhs, rhs)
  \/ \E o \in DOMAIN rcData : \/ RCDestroy(o)
                              \/ \E other \in DOMAIN rcData : RCAssign(o, other) \/ RCConcat(o, other)
                              \/ \E pos \in 1 .. RcMaxLength, c \in RcLetters : RCWrite(o, pos, c)
                              \/ \E text \in Texts : RCRead(o, text)

-----------------------------------------------------------------------------
(* SharedPtr: what it points to has the address of its counter, or is NULL *)

SpDrop(counters, c) == [counters EXCEPT ![c] = @ - 1]

\* The counter at 0 is deleted, with the object.
SpDelete(counters, objects, c) ==
  IF counters[c] = 0 THEN spCounter' = Dropped(counters, c) /\ spObject' = objects \ {c}
  ELSE spCounter' = counters /\ spObject' = objects

SharedPtr(p, null) ==
  LET c == FreeBlock(DOMAIN spCounter) IN
  /\ p \notin DOMAIN spPtr
  /\ spPtr' = Stored(spPtr, p, [m_ptr |-> IF null THEN 0 ELSE c, m_counter |-> c])
  /\ spCounter' = Stored(spCounter, c, 1)
  /\ spObject' = IF null THEN spObject ELSE spObject \cup {c}

\* There is no memory for the counter: the object is deleted and nothing left.
SharedPtrThrows(p) == p \notin DOMAIN spPtr /\ UNCHANGED sptrVars

SpCopy(p, other) ==
  /\ p \notin DOMAIN spPtr
  /\ spPtr' = Stored(spPtr, p, spPtr[other])
  /\ spCounter' = [spCounter EXCEPT ![spPtr[other].m_counter] = @ + 1]
  /\ UNCHANGED spObject

\* A pointer to a derived class is converted: m_ptr is cast, the counter shared.
SpConvert(p, other) == SpCopy(p, other)

\* operator*, where operator-> is not NULL.
SpArrow(p) == spPtr[p].m_ptr
SpDeref(p) == CHOOSE c \in spObject : c = SpArrow(p)

\* The old counter is tested after the new one was counted.
SpAssign(p, other) ==
  LET old == spPtr[p].m_counter
      counted == [SpDrop(spCounter, old) EXCEPT ![spPtr[other].m_counter] = @ + 1]
  IN  spPtr' = [spPtr EXCEPT ![p] = spPtr[other]] /\ SpDelete(counted, spObject, old)

SpDestroy(p) ==
  LET c == spPtr[p].m_counter
  IN  spPtr' = Dropped(spPtr, p) /\ SpDelete(SpDrop(spCounter, c), spObject, c)

SpStart == spPtr = <<>> /\ spCounter = <<>> /\ spObject = {}

SharedPtrNext ==
  \/ \E p \in RcObjects, null \in BOOLEAN : SharedPtr(p, null)
  \/ \E p \in RcObjects : SharedPtrThrows(p)
  \/ \E p \in RcObjects, other \in DOMAIN spPtr : SpCopy(p, other) \/ SpConvert(p, other)
  \/ \E p \in DOMAIN spPtr : SpDestroy(p) \/ \E other \in DOMAIN spPtr : SpAssign(p, other)

-----------------------------------------------------------------------------
(***************************************************************************)
(* cpp_fs/cpp2c: cpp2csrc.cpp and cpp2c/cpp2csrc.cpp, which has a convoy,  *)
(* and their translations cpp2cdst.c and cpp2c2.c.  A program is a         *)
(* sequence of statements, its output a sequence of events (of the texts   *)
(* the layout is left out), and of an object the class of its virtual      *)
(* table, its licence plate and its seats are kept.                        *)
(***************************************************************************)

World == [at |-> 1, s_count |-> 0, obj |-> <<>>, scope |-> <<>>, heap |-> {}, out |-> <<>>]

Say(w, event) == [w EXCEPT !.out = Append(@, event)]
Typed(w, x, class, seats) == [w EXCEPT !.obj[x].class = class, !.obj[x].m_numSeats = seats]
Allocate(w, x) == [w EXCEPT !.heap = @ \cup {x}]
Release(w, x) == [w EXCEPT !.heap = @ \ {x}]
Plate(w, x) == w.obj[x].m_license_plate

\* A PublicTransport is born, by a constructor or as a copy.
Born(w, x, event) ==
  LET plate == w.s_count + 1
      new == [class |-> "PublicTransport", m_license_plate |-> plate, m_numSeats |-> 0]
  IN  Say([w EXCEPT !.s_count = plate, !.obj = Stored(@, x, new)], <<"PublicTransport", event, plate>>)

\* The four members of a convoy: the first two are pointers.
Members(x) == <<x \o <<"m_pt1">>, x \o <<"m_pt2">>, x \o <<"m_m">>, x \o <<"m_t">>>>

\* The objects of main.
Arr(i) == <<"array", i>>
Arr2(i) == <<"arr2", i>>
Arr3(i) == <<"arr3", i>>
Arr4(i) == <<"arr4", i>>

max_func(t1, t2) == IF t1 > t2 THEN t1 ELSE t2

\* C++: bases before members before the body, and backwards at the end.
Base == [Minibus |-> "PublicTransport", Taxi |-> "PublicTransport", SpecialTaxi |-> "Taxi",
         PublicConvoy |-> "PublicTransport"]
MemberClass == <<"Minibus", "Taxi", "Minibus", "Taxi">>

RECURSIVE Construct(_, _, _)
Construct(w, class, x) ==
  IF class = "PublicTransport" THEN Born(w, x, "Ctor")
  ELSE LET base == Typed(Construct(w, Base[class], x), x, class, IF class = "Minibus" THEN 20 ELSE 0)
       IN  IF class # "PublicConvoy" THEN Say(base, <<class, "Ctor">>)
           ELSE FoldLeft(LAMBDA v, i : Construct(IF i <= 2 THEN Allocate(v, Members(x)[i]) ELSE v,
                                                 MemberClass[i], Members(x)[i]), base, <<1, 2, 3, 4>>)

\* The copy of a convoy has a base made anew.
RECURSIVE CopyConstruct(_, _, _, _)
CopyConstruct(w, class, x, other) ==
  IF class = "PublicTransport" THEN Born(w, x, "CCtor")
  ELSE IF class = "PublicConvoy"
  THEN FoldLeft(LAMBDA v, i : CopyConstruct(IF i <= 2 THEN Allocate(v, Members(x)[i]) ELSE v,
                                            MemberClass[i], Members(x)[i], Members(other)[i]),
                Typed(Born(w, x, "Ctor"), x, class, 0), <<1, 2, 3, 4>>)
  ELSE Say(Typed(CopyConstruct(w, Base[class], x, other), x, class, w.obj[other].m_numSeats),
           <<class, "CCtor">>)

RECURSIVE Destroy(_, _, _)
Destroy(w, class, x) ==
  LET DeleteMember(v, i) == Release(Destroy(v, v.obj[Members(x)[i]].class, Members(x)[i]), Members(x)[i])
  IN  CASE class = "PublicTransport" ->
             [Say(w, <<class, "Dtor", Plate(w, x)>>) EXCEPT !.s_count = @ - 1, !.obj = Dropped(@, x)]
        [] class = "PublicConvoy" ->
             Destroy(FoldLeft(DeleteMember, w, <<1, 2, 4, 3>>), "PublicTransport", x)
        [] OTHER -> Destroy(Say(w, <<class, "Dtor">>), Base[class], x)

RECURSIVE Display(_, _)
Display(w, x) ==
  LET class == w.obj[x].class IN
  CASE class = "PublicConvoy" -> FoldLeft(Display, w, Members(x))
    [] class = "Minibus" -> Say(w, <<class, "display", Plate(w, x), w.obj[x].m_numSeats>>)
    [] OTHER -> Say(w, <<class, "display", Plate(w, x)>>)

InScope(w, x) == [w EXCEPT !.scope = <<x>> \o @]

\* print_info(int i), its result displayed and destroyed with the statement.
PrintInfoInt(w) ==
  LET made == Say(Construct(w, "Minibus", <<"ret">>), <<"print_info(int i)">>)
      copied == CopyConstruct(Display(made, <<"ret">>), "PublicTransport", <<"tmp">>, <<"ret">>)
  IN  Destroy(Display(Destroy(copied, "Minibus", <<"ret">>), <<"tmp">>), "PublicTransport", <<"tmp">>)

\* The argument of taxi_display is a Taxi, whatever it is copied from.
TaxiDisplay(w, x) ==
  Destroy(Display(CopyConstruct(w, "Taxi", <<"s">>, x), <<"s">>), "Taxi", <<"s">>)

\* PublicTransport x = class(): the temporary is sliced and destroyed.
Sliced(w, class, x) ==
  LET made == Construct(w, class, <<"tmp">>)
  IN  InScope(Destroy(CopyConstruct(made, "PublicTransport", x, <<"tmp">>), class, <<"tmp">>), x)

CppDo(w, s) ==
  CASE s[1] = "auto" -> InScope(Construct(w, s[3], s[2]), s[2])
    [] s[1] = "sliced" -> Sliced(w, s[3], s[2])
    [] s[1] = "new" -> Construct(Allocate(w, s[2]), s[3], s[2])
    [] s[1] = "new copy" -> CopyConstruct(Allocate(w, s[2]), s[3], s[2], s[4])
    [] s[1] = "delete" -> Release(Destroy(w, w.obj[s[2]].class, s[2]), s[2])
    [] s[1] = "display" -> Display(w, s[2])
    [] s[1] = "wash" -> Say(w, <<"Minibus", "wash", 3, Plate(w, s[2])>>)
    [] s[1] = "print_info(3).display" -> PrintInfoInt(w)
    [] s[1] = "print_count" -> Say(w, <<"s_count", w.s_count>>)
    [] s[1] = "max_func" -> Say(w, <<max_func(1, 2)>>)
    [] s[1] = "taxi_display" -> TaxiDisplay(w, s[2])
    [] s[1] = "return" -> FoldLeft(LAMBDA v, x : Destroy(v, v.obj[x].class, x), w, w.scope)

CppMain ==
  <<<<"auto", <<"m">>, "Minibus">>, <<"wash", <<"m">>>>, <<"print_info(3).display">>,
    <<"new", Arr(1), "Minibus">>, <<"new", Arr(2), "Taxi">>, <<"new", Arr(3), "Minibus">>>>
  \o [i \in 1 .. 3 |-> <<"display", Arr(i)>>] \o [i \in 1 .. 3 |-> <<"delete", Arr(i)>>]
  \o <<<<"sliced", Arr2(1), "Minibus">>, <<"sliced", Arr2(2), "Taxi">>,
       <<"auto", Arr2(3), "PublicTransport">>>>
  \o [i \in 1 .. 3 |-> <<"display", Arr2(i)>>]
  \o <<<<"display", Arr2(1)>>, <<"print_count">>, <<"auto", <<"m2">>, "Minibus">>, <<"print_count">>>>
  \o [i \in 1 .. 4 |-> <<"auto", Arr3(i), "Minibus">>]
  \o [i \in 1 .. 4 |-> <<"new", Arr4(i), "Taxi">>] \o [i \in 1 .. 4 |-> <<"delete", Arr4(5 - i)>>]
  \o <<<<"max_func">>, <<"max_func">>, <<"auto", <<"st">>, "SpecialTaxi">>, <<"taxi_display", <<"st">>>>>>

CppConvoy ==
  <<<<"new", <<"ts1">>, "PublicConvoy">>, <<"new copy", <<"ts2">>, "PublicConvoy", <<"ts1">>>>,
    <<"display", <<"ts1">>>>, <<"display", <<"ts2">>>>, <<"delete", <<"ts1">>>>,
    <<"display", <<"ts2">>>>, <<"delete", <<"ts2">>>>>>

CppProgram ==
  CppMain \o (IF trProgram = "convoy" THEN CppConvoy ELSE <<>>) \o <<<<"return">>>>

\* The translations.  Each has these functions.
PTCtor(w, this) == Born(w, this, "Ctor")
PTCCtor(w, this, other) == Born(w, this, "CCtor")
PTDtor(w, this) == [Say(w, <<"PublicTransport", "Dtor", Plate(w, this)>>)
                      EXCEPT !.s_count = @ - 1, !.obj = Dropped(@, this)]
PTPrintCount(w) == Say(w, <<"s_count", w.s_count>>)
PTDisplay(w, this) == Say(w, <<"PublicTransport", "display", Plate(w, this)>>)

MBCtor(w, this) == Say(Typed(PTCtor(w, this), this, "Minibus", 20), <<"Minibus", "Ctor">>)
MBDtor(w, this) == PTDtor(Say(w, <<"Minibus", "Dtor">>), this)
MBCCtor(w, this, other) ==
  Say(Typed(PTCCtor(w, this, other), this, "Minibus", w.obj[other].m_numSeats), <<"Minibus", "CCtor">>)
MBDisplay(w, this) == Say(w, <<"Minibus", "display", Plate(w, this), w.obj[this].m_numSeats>>)
Wash(w, this) == Say(w, <<"Minibus", "wash", 3, Plate(w, this)>>)

TACtor(w, this) == Say(Typed(PTCtor(w, this), this, "Taxi", 0), <<"Taxi", "Ctor">>)
TADtor(w, this) == PTDtor(Say(w, <<"Taxi", "Dtor">>), this)
TACCtor(w, this, other) == Say(Typed(PTCCtor(w, this, other), this, "Taxi", 0), <<"Taxi", "CCtor">>)
TADisplay(w, this) == Say(w, <<"Taxi", "display", Plate(w, this)>>)

STACtor(w, this) == Say(Typed(TACtor(w, this), this, "SpecialTaxi", 0), <<"SpecialTaxi", "Ctor">>)
STADtor(w, this) == TADtor(Say(w, <<"SpecialTaxi", "Dtor">>), this)

\* v_ptr->pt_dtor and v_ptr->pt_display, but for the convoy, which holds these.
VDtor(w, this) == CASE w.obj[this].class = "PublicTransport" -> PTDtor(w, this)
                    [] w.obj[this].class = "Minibus" -> MBDtor(w, this)
                    [] w.obj[this].class = "Taxi" -> TADtor(w, this)
                    [] w.obj[this].class = "SpecialTaxi" -> STADtor(w, this)
VDisplay(w, this) == CASE w.obj[this].class = "PublicTransport" -> PTDisplay(w, this)
                       [] w.obj[this].class = "Minibus" -> MBDisplay(w, this)
                       [] w.obj[this].class = "Taxi" -> TADisplay(w, this)

PCCtor(w, this) ==
  LET m == Members(this)
      first == Typed(PTCtor(w, this), this, "PublicConvoy", 0)
      pointed == TACtor(Allocate(MBCtor(Allocate(first, m[1]), m[1]), m[2]), m[2])
  IN  TACtor(MBCtor(pointed, m[3]), m[4])

PCCctor(w, this, other) ==
  LET m == Members(this)
      o == Members(other)
      pointed == TACCtor(Allocate(MBCCtor(Allocate(PTCtor(w, this), m[1]), m[1], o[1]), m[2]), m[2], o[2])
  IN  TACCtor(MBCCtor(Typed(pointed, this, "PublicConvoy", 0), m[3], o[3]), m[4], o[4])

PCDtor(w, this) ==
  LET m == Members(this)
      pointed == Release(VDtor(Release(VDtor(w, m[1]), m[1]), m[2]), m[2])
  IN  PTDtor(MBDtor(TADtor(pointed, m[4]), m[3]), this)

PCDisplay(w, this) ==
  LET m == Members(this)
  IN  TADisplay(MBDisplay(VDisplay(VDisplay(w, m[1]), m[2]), m[3]), m[4])

\* print_info for an int: the result is where the caller wants it.
PrintInfo(w, ret) ==
  MBDtor(PTCCtor(MBDisplay(Say(MBCtor(w, <<"m1">>), <<"print_info(int i)">>), <<"m1">>), ret, <<"m1">>),
         <<"m1">>)

Taxi_Display(w, s) == TADtor(TADisplay(TACCtor(w, <<"t_st">>, s), <<"t_st">>), <<"t_st">>)

MAX(a, b) == IF a > b THEN a ELSE b

CDo(w, s) ==
  CASE s[1] = "PTCtor" -> PTCtor(w, s[2]) [] s[1] = "MBCtor" -> MBCtor(w, s[2])
    [] s[1] = "TACtor" -> TACtor(w, s[2]) [] s[1] = "STACtor" -> STACtor(w, s[2])
    [] s[1] = "PCCtor" -> PCCtor(w, s[2]) [] s[1] = "PCCctor" -> PCCctor(w, s[2], s[3])
    [] s[1] = "PTCCtor" -> PTCCtor(w, s[2], s[3])
    [] s[1] = "MBCtorAl" -> MBCtor(Allocate(w, s[2]), s[2])
    [] s[1] = "TACtorAl" -> TACtor(Allocate(w, s[2]), s[2])
    [] s[1] = "dtor" -> VDtor(w, s[2]) [] s[1] = "dtordl" -> Release(VDtor(w, s[2]), s[2])
    [] s[1] = "display" -> VDisplay(w, s[2])
    [] s[1] = "PCDtor" -> PCDtor(w, s[2]) [] s[1] = "PCDisplay" -> PCDisplay(w, s[2])
    [] s[1] = "malloc" -> Allocate(w, s[2]) [] s[1] = "free" -> Release(w, s[2])
    [] s[1] = "Wash" -> Wash(w, s[2]) [] s[1] = "PTDisplay" -> PTDisplay(w, s[2])
    [] s[1] = "PrintInfo" -> PrintInfo(w, s[2])
    [] s[1] = "PTPrintCount" -> PTPrintCount(w)
    [] s[1] = "MAX" -> Say(w, <<MAX(1, 2)>>)
    [] s[1] = "Taxi_Display" -> Taxi_Display(w, s[2])

\* main up to the special taxi.
CMain ==
  <<<<"MBCtor", <<"m">>>>, <<"Wash", <<"m">>>>, <<"PrintInfo", <<"p">>>>, <<"PTDisplay", <<"p">>>>,
    <<"dtor", <<"p">>>>, <<"MBCtorAl", Arr(1)>>, <<"TACtorAl", Arr(2)>>, <<"MBCtorAl", Arr(3)>>>>
  \o [i \in 1 .. 3 |-> <<"display", Arr(i)>>] \o [i \in 1 .. 3 |-> <<"dtordl", Arr(i)>>]
  \o <<<<"MBCtor", <<"m_a2">>>>, <<"PTCCtor", Arr2(1), <<"m_a2">>>>, <<"dtor", <<"m_a2">>>>,
       <<"TACtor", <<"t_a2">>>>, <<"PTCCtor", Arr2(2), <<"t_a2">>>>, <<"dtor", <<"t_a2">>>>,
       <<"PTCtor", Arr2(3)>>>>
  \o [i \in 1 .. 3 |-> <<"display", Arr2(i)>>]
  \o <<<<"display", Arr2(1)>>, <<"PTPrintCount">>, <<"MBCtor", <<"m2">>>>, <<"PTPrintCount">>>>
  \o [i \in 1 .. 4 |-> <<"MBCtor", Arr3(i)>>] \o <<<<"malloc", <<"arr4">>>>>>
  \o [i \in 1 .. 4 |-> <<"TACtor", Arr4(i)>>] \o [i \in 1 .. 4 |-> <<"dtor", Arr4(5 - i)>>]
  \o <<<<"free", <<"arr4">>>>, <<"MAX">>, <<"MAX">>, <<"STACtor", <<"st">>>>, <<"Taxi_Display", <<"st">>>>>>

CConvoy ==
  <<<<"malloc", <<"ts1">>>>, <<"PCCtor", <<"ts1">>>>, <<"malloc", <<"ts2">>>>,
    <<"PCCctor", <<"ts2">>, <<"ts1">>>>, <<"PCDisplay", <<"ts1">>>>, <<"PCDisplay", <<"ts2">>>>,
    <<"PCDtor", <<"ts1">>>>, <<"free", <<"ts1">>>>, <<"PCDisplay", <<"ts2">>>>,
    <<"PCDtor", <<"ts2">>>>, <<"free", <<"ts2">>>>>>

CReturn ==
  <<<<"dtor", <<"st">>>>>> \o [i \in 1 .. 4 |-> <<"dtor", Arr3(5 - i)>>] \o <<<<"dtor", <<"m2">>>>>>
  \o [i \in 1 .. 3 |-> <<"dtor", Arr2(4 - i)>>] \o <<<<"dtor", <<"m">>>>>>

CProgram == CMain \o (IF trProgram = "convoy" THEN CConvoy ELSE <<>>) \o CReturn

\* cpp2c2.c tests what malloc returns in main, and exits.
CExits == 1000
MayExit(s) == trProgram = "convoy" /\ s[1] \in {"malloc", "MBCtorAl", "TACtorAl"}

TranslationStart == trProgram \in {"plain", "convoy"} /\ trCpp = World /\ trC = World

CppStep == /\ trCpp.at <= Len(CppProgram)
           /\ trCpp' = [CppDo(trCpp, CppProgram[trCpp.at]) EXCEPT !.at = @ + 1]
           /\ UNCHANGED <<trProgram, trC>>

CStep == /\ trCpp.at > Len(CppProgram) /\ trC.at <= Len(CProgram)
         /\ \/ trC' = [CDo(trC, CProgram[trC.at]) EXCEPT !.at = @ + 1]
            \/ MayExit(CProgram[trC.at]) /\ trC' = [trC EXCEPT !.at = CExits]
         /\ UNCHANGED <<trProgram, trCpp>>

TranslationNext == CppStep \/ CStep

-----------------------------------------------------------------------------

(***************************************************************************)
(* A string is what was done to it, whatever was done to its copies (the   *)
(* value of every RCString), its operators read that value, and a block is *)
(* there, and an object of a SharedPtr not deleted, exactly as long as     *)
(* something points to it, also when an object is assigned or concatenated *)
(* to itself.                                                              *)
(***************************************************************************)
CountsAreRight ==
  /\ \A o \in DOMAIN rcData :
       /\ ToCStr(o) = rcValue[o]
       /\ \A pos \in 1 .. RcMaxLength + 1 : RCGet(o, pos) = SubSeq(rcValue[o], pos, Min({pos, Len(rcValue[o])}))
       /\ \A other \in DOMAIN rcData :
            /\ RCEquals(o, other) <=> rcValue[o] = rcValue[other]
            /\ RCLess(o, other) <=> RCGreater(other, o)
            /\ IsStrictPrefix(rcValue[o], rcValue[other]) => RCLess(o, other)
  /\ DOMAIN rcBlock = Range(rcData)
  /\ \A b \in DOMAIN rcBlock :
       rcBlock[b].m_count = Cardinality({o \in DOMAIN rcData : rcData[o] = b})
  /\ DOMAIN spCounter = {spPtr[p].m_counter : p \in DOMAIN spPtr}
  /\ \A c \in DOMAIN spCounter :
       spCounter[c] = Cardinality({p \in DOMAIN spPtr : spPtr[p].m_counter = c})
  /\ spObject = {SpArrow(p) : p \in DOMAIN spPtr} \ {0}
  /\ \A p \in DOMAIN spPtr : SpArrow(p) # 0 => SpDeref(p) = spPtr[p].m_counter

(***************************************************************************)
(* The C translation prints what the C++ program prints, in its order,     *)
(* with the plates s_count hands out, up to where it exits for want of     *)
(* memory: objects are constructed from the base up, destroyed backwards   *)
(* and where C++ destroys its temporaries, sliced copies behave as their   *)
(* base, a convoy's copy has members of its own, and at the end nothing    *)
(* is alive, counted or allocated.                                         *)
(***************************************************************************)
TranslationPrintsTheSame ==
  /\ trC.out # <<>> => IsPrefix(trC.out, trCpp.out)
  /\ trCpp.at > Len(CppProgram) => trCpp.obj = <<>> /\ trCpp.heap = {} /\ trCpp.s_count = 0
  /\ trC.at = Len(CProgram) + 1 => /\ trC.out = trCpp.out
                                   /\ trC.obj = <<>> /\ trC.heap = {} /\ trC.s_count = 0
=============================================================================
