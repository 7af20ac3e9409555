------------------------------- MODULE Trees --------------------------------
(***************************************************************************)
(* The trees of ds: the balanced recursive one and the one with parent     *)
(* pointers and iterators, and of the copies under review the balanced one *)
(* and the trie of the DHCP server.                                        *)
(***************************************************************************)
EXTENDS Integers, Sequences, FiniteSets, FiniteSetsExt, SequencesExt, Functions

-----------------------------------------------------------------------------
(***************************************************************************)
(* The recursive AVL tree (ds/avl/avl.c).  A tree is Nil or a node with    *)
(* two trees.  The field height holds a balance factor after an insertion  *)
(* and a height after a rotation, and a removal leaves some of them stale: *)
(* BalanceTreeIfNeeded trusts them all the same, and so does the model.    *)
(***************************************************************************)

CONSTANT AvlKeys

VARIABLES avl,        \* the tree from root
          avlRemoved  \* AVLRemove has been called, or an insertion has failed

avlVars == <<avl, avlRemoved>>

Nil == <<>>
LEFT == "left"
RIGHT == "right"

NodeCreate(data) == [data |-> data, left |-> Nil, right |-> Nil, height |-> 0]
NodeIsLeaf(t) == t.left = Nil /\ t.right = Nil

RECURSIVE NodeHeigth(_)
NodeHeigth(t) == IF t = Nil THEN 0
                 ELSE LET l == 1 + NodeHeigth(t.left)
                          r == 1 + NodeHeigth(t.right)
                      IN  IF l > r THEN l ELSE r

\* What a rotation makes of a node without the son it needs: the code
\* dereferences NULL, and nothing happens to the tree after that.
Fault == NodeCreate(-1)

\* Mutant of GetDirection: equal and smaller data are swapped.
GetDirectionReversed(data, insert_data) == IF data > insert_data THEN RIGHT ELSE LEFT

GetDirection(data, insert_data) == IF data > insert_data THEN LEFT ELSE RIGHT

Balance(t) == NodeHeigth(t.left) - NodeHeigth(t.right)
WithFactor(t) == [t EXCEPT !.height = Balance(t)]
WithHeight(t) == [t EXCEPT !.height = NodeHeigth(t)]

RotateRight(t) ==
  LET down == WithHeight([t EXCEPT !.left = t.left.right])
  IN  IF t.left = Nil THEN Fault ELSE WithHeight([t.left EXCEPT !.right = down])

RotateLeft(t) ==
  LET down == WithHeight([t EXCEPT !.right = t.right.left])
  IN  IF t.right = Nil THEN Fault ELSE WithHeight([t.right EXCEPT !.left = down])

BalanceTreeIfNeeded(t) ==
  IF t.height > 1
  THEN RotateRight(IF t.left.height > -1 THEN t ELSE [t EXCEPT !.left = RotateLeft(@)])
  ELSE IF t.height < -1
  THEN RotateLeft(IF t.right.height < 1 THEN t ELSE [t EXCEPT !.right = RotateRight(@)])
  ELSE t

RECURSIVE BalancedInsert(_, _)
BalancedInsert(t, data) ==
  IF t = Nil THEN NodeCreate(data)
  ELSE LET side == GetDirection(t.data, data)
       IN  BalanceTreeIfNeeded(WithFactor([t EXCEPT ![side] = BalancedInsert(@, data)]))

AVLInsert(data) == /\ avl' = BalancedInsert(avl, data)
                   /\ UNCHANGED avlRemoved

\* NodeCreate returns NULL, every BalancedInsert on the way back up returns
\* NULL, and AVLInsert stores it in root: the whole tree is dropped.
AVLInsertFails == avl' = Nil /\ avlRemoved' = TRUE

RECURSIVE MostLeftNode(_)
MostLeftNode(t) == IF t.left = Nil THEN t ELSE MostLeftNode(t.left)

RECURSIVE WithoutMostLeft(_)
WithoutMostLeft(t) == IF t.left = Nil THEN t.right
                      ELSE [t EXCEPT !.left = WithoutMostLeft(@)]

\* The sons that t has.
GetNumOfSons(t) == {side \in {LEFT, RIGHT} : t[side] # Nil}

\* RemoveNode, below a parent: what takes the place of t in it.
RemoveNode(t) ==
  CASE GetNumOfSons(t) = {} -> Nil
    [] GetNumOfSons(t) = {LEFT} -> t.left
    [] GetNumOfSons(t) = {RIGHT} -> t.right
    [] GetNumOfSons(t) = {LEFT, RIGHT} ->
         [t EXCEPT !.data = MostLeftNode(t.right).data, !.right = WithoutMostLeft(@)]

\* ... and at the root, whose node stays and takes over its only son's fields.
RemoveRoot(t) ==
  LET son == IF t.left = Nil THEN t.right ELSE t.left IN
  IF t.left # Nil /\ t.right # Nil THEN RemoveNode(t)
  ELSE IF son = Nil THEN Nil
  ELSE [son EXCEPT !.height = t.height]

(***************************************************************************)
(* FindToRemove(t, data): the node that the call for t returns.  A caller  *)
(* rebalances the node it gets and returns it in turn: it is not hung back *)
(* into the node above, and AVLRemove makes it the root.                   *)
(***************************************************************************)
RECURSIVE FindToRemove(_, _)
FindToRemove(t, data) ==
  LET side == GetDirection(t.data, data)
      found == IF t[side] = Nil THEN avl
               ELSE IF t[side].data = data THEN [t EXCEPT ![side] = RemoveNode(@)]
               ELSE FindToRemove(t[side], data)
  IN  BalanceTreeIfNeeded(WithFactor(found))

AVLRemove(data) == /\ avl # Nil
                   /\ avlRemoved' = TRUE
                   /\ avl' = IF avl.data = data THEN RemoveRoot(avl)
                             ELSE FindToRemove(avl, data)

RECURSIVE NodeFind(_, _)
NodeFind(t, key) == /\ t # Nil
                    /\ t.data = key \/ NodeFind(t[GetDirection(t.data, key)], key)

AVLFind(key) == NodeFind(avl, key)

\* The three orders of AVLForEach.
RECURSIVE PreOrder(_), InOrder(_), PostOrder(_)
PreOrder(t) == IF t = Nil THEN <<>> ELSE <<t.data>> \o PreOrder(t.left) \o PreOrder(t.right)
InOrder(t) == IF t = Nil THEN <<>> ELSE InOrder(t.left) \o <<t.data>> \o InOrder(t.right)
PostOrder(t) == IF t = Nil THEN <<>> ELSE PostOrder(t.left) \o PostOrder(t.right) \o <<t.data>>

\* What AVLForEach calls operation with, when that fails at the data fails.
AVLForEach(travesal_type, fails) ==
  LET all == CASE travesal_type = "PRE_ORDER" -> PreOrder(avl)
               [] travesal_type = "In_ORDER" -> InOrder(avl)
               [] travesal_type = "POST_ORDER" -> PostOrder(avl)
      upto == {i \in 1 .. Len(all) : \A j \in 1 .. i - 1 : all[j] # fails}
  IN  [i \in upto |-> all[i]]

RECURSIVE NodeTreeSize(_)
NodeTreeSize(t) == IF t = Nil THEN 0 ELSE 1 + NodeTreeSize(t.left) + NodeTreeSize(t.right)

AVLSize == NodeTreeSize(avl)
AVLHeight == NodeHeigth(avl)
AVLIsEmpty == avl = Nil

\* The nodes below t in the order in which AVLDestroyByElement frees them: a
\* son goes after the nodes below it.
RECURSIVE AVLDestroyByElement(_)
AVLDestroyByElement(t) ==
  LET Side(son) == IF son = Nil THEN <<>> ELSE Append(AVLDestroyByElement(son), son.data)
  IN  Side(t.left) \o Side(t.right)

AVLFreed == IF AVLIsEmpty THEN <<>> ELSE Append(AVLDestroyByElement(avl), avl.data)

AVLDestroy == avl' = Nil /\ avlRemoved' = FALSE

\* print2D writes the tree from right to left: each node's depth and data.
RECURSIVE print2DUtil(_, _)
print2DUtil(t, space) ==
  IF t = Nil THEN <<>>
  ELSE print2DUtil(t.right, space + 1) \o <<<<space, t.data>>>> \o print2DUtil(t.left, space + 1)
print2D == print2DUtil(avl, 0)

KeysIn(t) == {InOrder(t)[i] : i \in 1 .. Len(InOrder(t))}
AvlFaulted == Fault.data \in KeysIn(avl)

AvlInit == avl = Nil /\ avlRemoved = FALSE

\* The keys in a tree are distinct: AVLFind could not tell equal ones apart.
AvlNext == /\ ~AvlFaulted
           /\ \/ \E k \in AvlKeys : ~AVLFind(k) /\ AVLInsert(k)
              \/ \E k \in AvlKeys : AVLRemove(k)
              \/ AVLInsertFails
              \/ AVLDestroy

-----------------------------------------------------------------------------

RECURSIVE Balanced(_)
Balanced(t) == t # Nil => /\ Balance(t) \in -1 .. 1
                          /\ Balanced(t.left) /\ Balanced(t.right)


(***************************************************************************)
(* Rotations and removals keep the search order: AVLFind finds exactly the *)
(* keys in the tree, and an in-order pass visits each once and in order.   *)
(* A tree that was only inserted into is balanced and its rotations always *)
(* have the sons they need, although the field they are decided on holds   *)
(* a balance factor in some nodes and a height in others.  AVLDestroy      *)
(* frees every node once and after its sons, what is printed is the tree   *)
(* mirrored, and its height bounds the depths.                             *)
(***************************************************************************)
AvlSearchable ==
  /\ ~AvlFaulted => /\ \A k \in AvlKeys : AVLFind(k) <=> k \in KeysIn(avl)
                    /\ \A i \in 1 .. AVLSize - 1 : InOrder(avl)[i] < InOrder(avl)[i + 1]
  /\ ~avlRemoved => Balanced(avl) /\ ~AvlFaulted
  /\ AVLFreed = PostOrder(avl) /\ AVLSize = Len(AVLFreed)
  /\ \A i \in 1 .. AVLSize : /\ print2D[i][2] = InOrder(avl)[AVLSize + 1 - i]
                             /\ print2D[i][1] < AVLHeight
  /\ \A k \in KeysIn(avl), order \in {"PRE_ORDER", "In_ORDER", "POST_ORDER"} :
       LET calls == AVLForEach(order, k) IN \A i \in DOMAIN calls : calls[i] = k <=> i = Len(calls)

-----------------------------------------------------------------------------
(***************************************************************************)
(* The binary search tree with parent pointers and iterators               *)
(* (ds/bst/bst.c).  A node is known by its key.  The dummy root's left     *)
(* relative is the root, its data the node that BSTBegin returns.          *)
(***************************************************************************)

CONSTANT BstKeys  \* positive

VARIABLES bst,      \* the relatives of each node and of the dummy root
          bstBegin, \* dummy_root.data
          bstLost,  \* the node that bstBegin stood for has been freed
          bstRunner \* the runner of BSTDestroy

bstVars == <<bst, bstBegin, bstLost, bstRunner>>

Dummy == 0
NULL == -1

BSTCreate == /\ bst = [n \in {Dummy} |-> [parent |-> NULL, left |-> NULL, right |-> NULL]]
             /\ bstBegin = NULL /\ bstLost = FALSE /\ bstRunner = NULL

BSTBegin == bstBegin
BSTEnd == Dummy
BSTIsEmpty == bst[Dummy].left = NULL
BstNodes == DOMAIN bst \ {Dummy}

\* The node below which a key goes, and the side.
RECURSIVE FindWhereToInsert(_, _)
FindWhereToInsert(n, key) ==
  LET side == IF n = Dummy \/ n > key THEN "left" ELSE "right"
  IN  IF bst[n][side] = NULL THEN <<n, side>> ELSE FindWhereToInsert(bst[n][side], key)

\* UpdateBeginByData compares with the node bstBegin points to, freed or not.
BSTInsert(key) ==
  LET where == FindWhereToInsert(Dummy, key) IN
  /\ bst' = [n \in DOMAIN bst \cup {key} |->
               IF n = key THEN [parent |-> where[1], left |-> NULL, right |-> NULL]
               ELSE IF n = where[1] THEN [bst[n] EXCEPT ![where[2]] = key]
               ELSE bst[n]]
  /\ \/ BSTIsEmpty /\ bstBegin' = key /\ bstLost' = FALSE
     \/ /\ ~BSTIsEmpty /\ ~bstLost
        /\ bstBegin' = IF bstBegin > key THEN key ELSE bstBegin
        /\ UNCHANGED bstLost
     \/ ~BSTIsEmpty /\ bstLost /\ bstBegin' \in {bstBegin, key} /\ UNCHANGED bstLost

RECURSIVE MostLeft(_), MostRight(_), ClimbRight(_), ClimbLeft(_)
MostLeft(n) == IF bst[n].left = NULL THEN n ELSE MostLeft(bst[n].left)
MostRight(n) == IF bst[n].right = NULL THEN n ELSE MostRight(bst[n].right)
ClimbRight(n) == LET p == bst[n].parent IN IF n = bst[p].right THEN ClimbRight(p) ELSE p
ClimbLeft(n) == LET p == bst[n].parent IN IF n = bst[p].left THEN ClimbLeft(p) ELSE p

BSTIterNext(n) == IF bst[n].right = NULL THEN ClimbRight(n) ELSE MostLeft(bst[n].right)
BSTIterPrev(n) == IF bst[n].left = NULL THEN ClimbLeft(n) ELSE MostRight(bst[n].left)

\* The parent of n takes son in its place.
Relink(tree, n, son) ==
  LET p == tree[n].parent
      side == IF tree[p].left = n THEN "left" ELSE "right"
      above == [tree EXCEPT ![p][side] = son]
  IN  IF son = NULL THEN above ELSE [above EXCEPT ![son].parent = p]

\* RemoveWithTwoSons: the left son goes below the node that follows n.
HangLeft(n) == LET next == BSTIterNext(n)
               IN  [bst EXCEPT ![next].left = bst[n].left, ![bst[n].left].parent = next]

BSTRemove(n) ==
  LET sons == bst[n]
      linked == IF sons.right = NULL THEN Relink(bst, n, sons.left)
                ELSE IF sons.left = NULL THEN Relink(bst, n, sons.right)
                ELSE Relink(HangLeft(n), n, sons.right)
  IN  /\ bst' = Restrict(linked, DOMAIN bst \ {n})
      /\ bstLost' = (bstLost \/ bstBegin = n)
      /\ UNCHANGED bstBegin

\* BSTDestroy takes the next iterator, removes the node and goes on.  It starts
\* where BSTBegin says, which must not have been freed.
BSTDestroy == /\ ~BSTIsEmpty /\ ~bstLost /\ bstRunner = NULL
              /\ bstRunner' = BSTBegin /\ UNCHANGED <<bst, bstBegin, bstLost>>

BSTDestroyStep == /\ bstRunner # NULL /\ ~BSTIsEmpty
                  /\ bstRunner' = BSTIterNext(bstRunner) /\ BSTRemove(bstRunner)

BSTDestroyed == /\ bstRunner # NULL /\ BSTIsEmpty
                /\ bstBegin' = NULL /\ bstLost' = FALSE /\ bstRunner' = NULL /\ UNCHANGED bst

BstNext == \/ /\ bstRunner = NULL /\ UNCHANGED bstRunner
              /\ \E k \in BstKeys : \/ k \notin BstNodes /\ BSTInsert(k)
                                    \/ k \in BstNodes /\ BSTRemove(k)
           \/ BSTDestroy \/ BSTDestroyStep \/ BSTDestroyed

\* The nodes that operation is called for from one iterator to another, when it
\* fails at the node fails.
RECURSIVE BSTForEach(_, _, _)
BSTForEach(runner, to, fails) ==
  IF runner = to THEN <<>>
  ELSE <<runner>> \o (IF runner = fails THEN <<>> ELSE BSTForEach(BSTIterNext(runner), to, fails))

RECURSIVE CountFrom(_), SearchFrom(_, _)
CountFrom(runner) == IF runner = BSTEnd THEN 0 ELSE 1 + CountFrom(BSTIterNext(runner))
SearchFrom(runner, data) == IF runner = BSTEnd \/ runner = data THEN runner
                            ELSE SearchFrom(BSTIterNext(runner), data)

BSTSize == CountFrom(BSTBegin)
BSTSearch(data_to_match) == SearchFrom(BSTBegin, data_to_match)

-----------------------------------------------------------------------------

\* The node that follows n in the order of the keys.
Follows(n) == LET larger == {m \in BstNodes : m > n}
              IN  IF larger = {} THEN BSTEnd ELSE Min(larger)

(***************************************************************************)
(* However nodes are inserted and removed, a walk with BSTIterNext passes  *)
(* every node in the order of the keys and ends at BSTEnd, BSTIterPrev     *)
(* walks back, and BSTBegin is the first, until the node it returns has    *)
(* been removed: nothing moves dummy_root.data on, and it points to freed  *)
(* memory until the tree has been empty.  Where it is the first, BSTSize   *)
(* and BSTForEach meet every node and BSTSearch finds each, and BSTDestroy *)
(* never stands on a node that it has freed.                               *)
(***************************************************************************)
BstWalksInOrder ==
  /\ \A n \in BstNodes : BSTIterNext(n) = Follows(n)
  /\ \A n \in BstNodes : Follows(n) # BSTEnd => BSTIterPrev(Follows(n)) = n
  /\ ~BSTIsEmpty => BSTIterPrev(BSTEnd) = Max(BstNodes)
  /\ ~BSTIsEmpty /\ ~bstLost =>
       /\ bstBegin = Min(BstNodes) /\ BSTSize = Cardinality(BstNodes)
       /\ \A k \in BstKeys : BSTSearch(k) = IF k \in BstNodes THEN k ELSE BSTEnd
       /\ \A k \in BstNodes : Range(BSTForEach(BSTBegin, BSTEnd, k)) = {n \in BstNodes : n <= k}
  /\ bstRunner # NULL => bstRunner = IF BSTIsEmpty THEN BSTEnd ELSE Min(BstNodes)
-----------------------------------------------------------------------------
(***************************************************************************)
(* The AVL tree as it was handed in for review (ds/avl/review/avl.c): an   *)
(* AVLInsert that does not balance, an AVLInsertBalanced that reads the    *)
(* heights of sons a node may not have, and an AVLRemove that stays on the *)
(* path.  The height of a leaf is 1 here, and AVLHeight reads the root's.  *)
(***************************************************************************)

CONSTANT RvKeys

VARIABLE rvAvl  \* the tree from root

RvNodeCreat(data) == [data |-> data, left |-> Nil, right |-> Nil, height |-> 1]

UpdateHeight(t) == LET Height(son) == IF son = Nil THEN 0 ELSE son.height
                   IN  Max({Height(t.left), Height(t.right)})
Heightened(t) == [t EXCEPT !.height = 1 + UpdateHeight(t)]

\* The height is brought up to date of the son, not of the node itself: the
\* root keeps the height it was created with.
RECURSIVE FindAndInsert(_, _)
FindAndInsert(t, data) ==
  LET side == GetDirection(t.data, data) IN
  IF t[side] = Nil THEN [t EXCEPT ![side] = RvNodeCreat(data)]
  ELSE [t EXCEPT ![side] = Heightened(FindAndInsert(@, data))]

RvInsert(data) == rvAvl' = IF rvAvl = Nil THEN RvNodeCreat(data) ELSE FindAndInsert(rvAvl, data)

\* GetBalanceFactor dereferences both sons: without one of them it is a fault.
RvHasFactor(t) == t.left # Nil /\ t.right # Nil
GetBalanceFactor(t) == t.left.height - t.right.height

\* The heights are left as they are.
RvRotateRight(t) == [t.left EXCEPT !.right = [t EXCEPT !.left = t.left.right]]
RvRotateLeft(t) == [t.right EXCEPT !.left = [t EXCEPT !.right = t.right.left]]

\* A son that is neither left nor right heavy is not rotated about.
RvBalance(t) ==
  LET factor == GetBalanceFactor(t)
      heavy == IF factor > 1 THEN LEFT ELSE RIGHT
      inner == GetBalanceFactor(t[heavy])
  IN  IF ~RvHasFactor(t) THEN Fault
      ELSE IF factor \in -1 .. 1 THEN t
      ELSE IF ~RvHasFactor(t[heavy]) THEN Fault
      ELSE CASE factor > 1 /\ inner > 0 -> RvRotateRight(t)
             [] factor < -1 /\ inner < 0 -> RvRotateLeft(t)
             [] factor > 1 /\ inner < 0 -> RvRotateRight([t EXCEPT !.left = RvRotateLeft(@)])
             [] factor < -1 /\ inner > 0 -> RvRotateLeft([t EXCEPT !.right = RvRotateRight(@)])
             [] inner = 0 -> t

RECURSIVE RvBalancedInsert(_, _)
RvBalancedInsert(t, data) ==
  IF t = Nil THEN RvNodeCreat(data)
  ELSE LET side == GetDirection(t.data, data)
           son == RvBalancedInsert(t[side], data)
       IN  IF son = Fault THEN Fault ELSE RvBalance(Heightened([t EXCEPT ![side] = son]))

AVLInsertBalanced(data) == rvAvl' = RvBalancedInsert(rvAvl, data)

\* The four RemoveWith functions: what takes the place of t.  The node of the
\* root stays and takes over the data and the sons of its only son.
RvRemoveWith(t, isRoot) ==
  LET sons == GetNumOfSons(t)
      only == IF sons = {LEFT} THEN t.left ELSE t.right
  IN  CASE sons = {LEFT, RIGHT} ->
             [t EXCEPT !.data = MostLeftNode(t.right).data, !.right = WithoutMostLeft(@)]
        [] sons # {LEFT, RIGHT} /\ isRoot /\ sons # {} -> [only EXCEPT !.height = t.height]
        [] OTHER -> only

\* AVLRemove below the root: FindToRemove's way down to the parent of the node.
RECURSIVE RvFindToRemove(_, _)
RvFindToRemove(t, data) ==
  LET at == {side \in {LEFT, RIGHT} : t[side] # Nil /\ t[side].data = data}
      way == GetDirection(t.data, data)
  IN  IF LEFT \in at THEN [t EXCEPT !.left = RvRemoveWith(@, FALSE)]
      ELSE IF RIGHT \in at THEN [t EXCEPT !.right = RvRemoveWith(@, FALSE)]
      ELSE IF t[way] = Nil THEN t
      ELSE [t EXCEPT ![way] = RvFindToRemove(@, data)]

RvRemove(data) == /\ rvAvl # Nil
                  /\ rvAvl' = IF rvAvl.data = data THEN RvRemoveWith(rvAvl, TRUE)
                              ELSE RvFindToRemove(rvAvl, data)

RvDestroy == rvAvl' = Nil

RECURSIVE RvFind(_, _), RvForEach(_, _), RvSize(_)
RvFind(t, key) == IF t = Nil \/ NodeIsLeaf(t) THEN t # Nil /\ t.data = key
                  ELSE t.data = key \/ RvFind(t[GetDirection(t.data, key)], key)
\* No failure of operation ends a pass.
RvForEach(t, travesal_type) ==
  LET left == RvForEach(t.left, travesal_type)
      right == RvForEach(t.right, travesal_type)
  IN  IF t = Nil THEN <<>>
      ELSE CASE travesal_type = "PRE_ORDER" -> <<t.data>> \o left \o right
             [] travesal_type = "In_ORDER" -> left \o <<t.data>> \o right
             [] travesal_type = "POST_ORDER" -> left \o right \o <<t.data>>
RvSize(t) == IF t = Nil THEN 0 ELSE 1 + RvSize(t.left) + RvSize(t.right)
RvHeight == IF rvAvl = Nil THEN 0 ELSE rvAvl.height

RvAvlStart == rvAvl = Nil

RvAvlNext == /\ rvAvl # Fault
             /\ \/ \E k \in RvKeys : \/ ~RvFind(rvAvl, k) /\ (RvInsert(k) \/ AVLInsertBalanced(k))
                                     \/ RvRemove(k)
                \/ RvDestroy

(***************************************************************************)
(* The reviewed tree stays a search tree through insertions with and       *)
(* without balancing, on heights that no rotation and no removal brings up *)
(* to date, and removals: RvFind finds exactly its keys, which a pass      *)
(* meets in order.  Of AVLHeight only its 0 can be relied on:              *)
(* FindAndInsert never touches the root's height.                          *)
(***************************************************************************)
RvAvlSearchable ==
  rvAvl # Fault =>
    LET walk == RvForEach(rvAvl, "In_ORDER") IN
    /\ \A k \in RvKeys : RvFind(rvAvl, k) <=> k \in Range(walk)
    /\ \A i \in 1 .. Len(walk) - 1 : walk[i] < walk[i + 1]
    /\ RvSize(rvAvl) = Len(walk)
    /\ walk # <<>> => /\ RvForEach(rvAvl, "PRE_ORDER")[1] = rvAvl.data
                      /\ RvForEach(rvAvl, "POST_ORDER")[Len(walk)] = rvAvl.data
    /\ RvHeight = 0 <=> walk = <<>>

-----------------------------------------------------------------------------
(***************************************************************************)
(* The DHCP server under review (ds/dhcp/review/dhcp.c, and what came of   *)
(* the review, "dhcp after check.c"): a trie whose nodes <<level, prefix>> *)
(* are full when both relatives are.  A requested address is looked up by  *)
(* its bits height .. 1, where the bits of a host are height - 1 .. 0: the *)
(* leaf that is marked for it is another one than AllocFirstFreeIpImp      *)
(* marks for the same address.                                             *)
(***************************************************************************)

CONSTANTS RvHostBits, RvByte  \* values of a byte: 256

VARIABLES rvTrie,   \* the nodes created, and those with is_full set
          rvLeases  \* history: addresses handed out and not taken back

rvDhcpVars == <<rvTrie, rvLeases>>

sub_net == 2^RvHostBits
RvBroadcast == sub_net + 2^RvHostBits - 1

NodeAt(h, level) == <<level, h \div 2^(RvHostBits - level)>>
WayTo(h, level) == {NodeAt(h, l) : l \in 0 .. level}
Relatives(n) == {<<n[1] + 1, 2 * n[2]>>, <<n[1] + 1, 2 * n[2] + 1>>}
LeafAsked(ip) == (ip \div 2) % 2^RvHostBits

\* DhcpCreate: the leaves of the network's own and the broadcast address.
InitSavedAddressesImp ==
  LET last == 2^RvHostBits - 1 IN
  /\ rvTrie = [nodes |-> WayTo(0, RvHostBits) \cup WayTo(last, RvHostBits),
               full |-> {NodeAt(0, RvHostBits), NodeAt(last, RvHostBits)}]
  /\ rvLeases = 0

UpdateFullnessImp(trie, n) ==
  [trie EXCEPT !.full = IF Relatives(n) \subseteq trie.full THEN @ \cup {n} ELSE @ \ {n}]

\* Back from the node of h at a level to the root.
BackUp(trie, h, level) ==
  FoldLeft(LAMBDA t, i : UpdateFullnessImp(t, NodeAt(h, level - i)), trie, [i \in 1 .. level |-> i])

GetNextStepImp(trie, n) == IF <<n[1] + 1, 2 * n[2]>> \in trie.full THEN 1 ELSE 0

FirstFree(trie) ==
  FoldLeft(LAMBDA h, i : 2 * h + GetNextStepImp(trie, <<i - 1, h>>), 0, [i \in 1 .. RvHostBits |-> i])

\* AllocRequestedIpImp and AllocFirstFreeIpImp once they know the leaf h: it
\* is marked, or was full before, or there is no memory for a node below a
\* level, which keeps the nodes above it.
AllocIpImp(trie, h) ==
  LET leaf == NodeAt(h, RvHostBits)
      All == [nodes |-> trie.nodes \cup WayTo(h, RvHostBits), full |-> trie.full \cup {leaf}]
      Part(level) == [trie EXCEPT !.nodes = @ \cup WayTo(h, level)]
  IN  {[trie |-> BackUp(All, h, RvHostBits), res |-> IF leaf \in trie.full THEN -1 ELSE 0]}
        \cup {[trie |-> BackUp(Part(level), h, level), res |-> -1] :
                level \in {l \in 0 .. RvHostBits - 1 : NodeAt(h, l + 1) \notin trie.nodes}}

\* What could not be had is replaced by the first that is free.
RvAllocateIp(requested_ip) ==
  /\ <<0, 0>> \notin rvTrie.full
  /\ \E asked \in IF requested_ip = 0 THEN {[trie |-> rvTrie, res |-> -1]}
                  ELSE AllocIpImp(rvTrie, LeafAsked(requested_ip)) :
       \E got \in IF asked.res = 0 THEN {asked}
                  ELSE AllocIpImp(asked.trie, FirstFree(asked.trie)) :
         rvTrie' = got.trie /\ rvLeases' = rvLeases + 1 + got.res

FreeIpImp(ip) ==
  LET h == LeafAsked(ip)
      leaf == NodeAt(h, RvHostBits)
      missing == \E level \in 0 .. RvHostBits : NodeAt(h, level) \notin rvTrie.nodes
  IN  IF missing THEN "FREE_FAILURE" ELSE IF leaf \in rvTrie.full THEN "SUCCESS" ELSE "DOUBLE_FREE"

RvFreeIp(ip) ==
  LET h == LeafAsked(ip) IN
  /\ ip \notin {sub_net, RvBroadcast} /\ FreeIpImp(ip) = "SUCCESS"
  /\ rvTrie' = BackUp([rvTrie EXCEPT !.full = @ \ {NodeAt(h, RvHostBits)}], h, RvHostBits)
  /\ rvLeases' = rvLeases - 1

\* A full node is not looked into.
RECURSIVE CountTakenHostsImp(_, _)
CountTakenHostsImp(n, height) ==
  IF n \notin rvTrie.nodes THEN 0 ELSE IF n \in rvTrie.full THEN 2^height
  ELSE MapThenSumSet(LAMBDA r : CountTakenHostsImp(r, height - 1), Relatives(n))

RvCountFree == 2^RvHostBits - CountTakenHostsImp(<<0, 0>>, RvHostBits)

\* RecDestoryImp: every node goes.
RvDhcpDestroy == rvTrie.nodes # {} /\ rvTrie' = [nodes |-> {}, full |-> {}] /\ rvLeases' = 0

\* An address and its text, four numbers, in the server and under review.
IPToString(ip) == [k \in 1 .. 4 |-> (ip \div RvByte^(4 - k)) % RvByte]
StringToIp(text) == FoldLeft(LAMBDA ip_num, byte_num : ip_num * RvByte + byte_num, 0, text)
RvStringToIp(text) ==
  FoldLeft(LAMBDA ip_num, k : ip_num + text[k] * RvByte^(4 - k), 0, <<1, 2, 3, 4>>)

IpTextsReadBack == \A ip \in 0 .. RvByte^4 - 1 :
                     StringToIp(IPToString(ip)) = ip /\ RvStringToIp(IPToString(ip)) = ip

RvDhcpNext == \/ \E ip \in 0 .. 2^(RvHostBits + 1) - 1 :
                   rvTrie.nodes # {} /\ (RvAllocateIp(ip) \/ RvFreeIp(ip))
              \/ RvDhcpDestroy

(***************************************************************************)
(* Whatever was requested and given back, and wherever memory ran out, a   *)
(* node of the trie under review is full when both its relatives are,      *)
(* CountTakenHostsImp, which trusts full nodes, counts the leaves, they    *)
(* are as many as leases and reserved addresses, and while a leaf is free  *)
(* AllocFirstFreeIpImp comes to a free one.  An address is read back from  *)
(* its text by both servers.                                               *)
(***************************************************************************)
RvTrieCounts ==
  LET leaves == {n \in rvTrie.full : n[1] = RvHostBits} IN
  /\ \A n \in rvTrie.nodes : n[1] < RvHostBits => (n \in rvTrie.full <=> Relatives(n) \subseteq rvTrie.full)
  /\ 2^RvHostBits - RvCountFree = Cardinality(leaves)
  /\ rvTrie.nodes # {} => Cardinality(leaves) = rvLeases + 2
  /\ RvCountFree > 0 => NodeAt(FirstFree(rvTrie), RvHostBits) \notin leaves
  /\ IpTextsReadBack
=============================================================================
