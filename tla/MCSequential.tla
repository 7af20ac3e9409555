---------------------------- MODULE MCSequential ----------------------------
(***************************************************************************)
(* The programs without threads: the allocators and containers of ds/,     *)
(* system_programming/ and cpp_fs/, the algorithms of ds/utils,            *)
(* ds/knight_tour and c/, and the BIOS update service and the scripts for  *)
(* reconfiguration of test_dir/python_tries and homeassistant_script.      *)
(* They share nothing, so one run drives one of them at a time: a          *)
(* container through the calls of its interface, an algorithm over its     *)
(* inputs, a script through its steps and the runs after it has died.      *)
(***************************************************************************)
EXTENDS Allocators, Containers, Trees, Heaps, Lists, Algorithms, RefCount, WorkSheets, MCBiosPlan,
        BiosUpdate, InterfaceCfg, HomeAssistant, TLC

\* 1.2, 1.2.1, 1.a2.1 and 1.1.a3: fields with and without letters, versions
\* of two lengths.
MCVersions == { <<<<0,1>>, <<0,2>>>>, <<<<0,1>>, <<0,2>>, <<0,1>>>>,
                <<<<0,1>>, <<1,2>>, <<0,1>>>>, <<<<0,1>>, <<0,1>>, <<1,3>>>> }

\* Configurations of OLTs: tunnels and s-tags to be filled in, all or some set,
\* external traffic, no PON; 1 and 2 are OLTs of one module.
MCOltModule == [o \in {1, 2} |-> 1]
MCOlt(mgmt, data, stag) ==
  [tunnel |-> [t \in 0 .. Len(data) |-> IF t = 0 THEN mgmt ELSE data[t]],
   stag |-> [p \in 1 .. Len(data) |-> stag], protected |-> FALSE]
MCFixed(v, i) == [vni |-> v, ip |-> i, rest |-> "set"]
MCDynamic == MCOlt(EmptyTunnel, <<EmptyTunnel>>, Unset)
MCExternal == MCOlt(EmptyTunnel, <<NoTunnel>>, Unset)
MCBare == MCOlt(EmptyTunnel, <<>>, Unset)
MCStatic == MCOlt(MCFixed(1, 1), <<MCFixed(3, 1)>>, 1)
MCMixed == MCOlt(MCFixed(2, 2), <<EmptyTunnel>>, Unset)
MCOltInputs ==
  LET Cc(o, g, m, d, c) == [olts |-> o, managed |-> g, mgmt |-> m, data |-> d, core |-> c]
  IN  {Cc(1 :> MCDynamic @@ 2 :> MCDynamic, TRUE, 1, 1, {}), Cc(2 :> MCDynamic, TRUE, 1, 1, {}),
       Cc(1 :> MCStatic @@ 2 :> MCDynamic, TRUE, 1, 1, {}),
       Cc(1 :> MCBare @@ 2 :> MCMixed, TRUE, 1, 1, {1}),
       Cc(1 :> MCDynamic @@ 2 :> MCExternal, TRUE, 2, 0, {}),
       Cc(1 :> MCBare @@ 2 :> MCBare, TRUE, 3, 1, {}), Cc(1 :> MCStatic, FALSE, 0, 0, {}),
       Cc(1 :> MCStatic @@ 2 :> MCBare, FALSE, 1, 1, {})}

\* Balanced applications, one, another one and none, over OLTs of 3, 2 and 2
\* PON ports.
MCSpaPorts == <<3, 2, 2>>
MCSpaInputs == [spa : {"lb"}, id : {1}, olts : {{1}, {1, 2, 3}, {2, 3}}]
                 \cup [spa : {"single"}, id : {1}, olts : {{1, 2, 3}, {}}]
                 \cup [spa : {"none", "single"}, id : {2}, olts : {{1, 2}}]

\* Workloads that come and go, change their pool, get and lose a static
\* address that another one has, and a pool too small for them.
MCNsiInputs ==
  LET Static(a) == [v4 |-> a, v6 |-> NoIp]
      Use(p, ip) == [pool |-> p, ip |-> ip, mode |-> "both"]
      Dyn(p) == Use(p, NoStatic)
      Bng(n, uses) == <<"bng", n>> :> uses
      Spa(n, p, ip, m) == <<"spa", n>> :> <<[pool |-> p, ip |-> ip, mode |-> m]>>
      Pools(n) == 1 :> [has |-> [v4 |-> TRUE, v6 |-> TRUE], count |-> n]
                    @@ 2 :> [has |-> [v4 |-> TRUE, v6 |-> FALSE], count |-> n]
      Nsi(uses, n, docsis) == [use |-> uses, pool |-> Pools(n), docsis |-> docsis]
  IN  {Nsi(Bng(1, <<Dyn(1), Dyn(2)>>) @@ Bng(2, <<Dyn(1)>>) @@ Bng(3, <<Dyn(1)>>)
             @@ Spa(1, 1, NoStatic, "ipv4-only"), 5, 1),
       Nsi(Bng(2, <<Dyn(1)>>) @@ Bng(3, <<Dyn(2)>>) @@ Spa(1, 1, NoStatic, "ipv6-only"), 5, 1),
       Nsi(Bng(1, <<Use(1, Static(5)), Dyn(2)>>) @@ Bng(2, <<Dyn(1)>>) @@ Bng(3, <<Dyn(1)>>), 5, 2),
       Nsi(Bng(1, <<Dyn(1), Dyn(2)>>) @@ Bng(2, <<Dyn(1), Dyn(2)>>)
             @@ Bng(3, <<Dyn(1), Use(2, Static(1))>>) @@ Bng(4, <<Dyn(2)>>), 4, 1),
       Nsi(Bng(2, <<Dyn(1), Dyn(2)>>) @@ Spa(1, 2, Static(4), "ipv4-only")
             @@ Spa(2, 2, NoStatic, "ipv4-only"), 4, 2),
       Nsi(Bng(1, <<Dyn(1)>>) @@ Bng(2, <<Dyn(1)>>) @@ Bng(3, <<Dyn(1)>>), 3, 1)}

VARIABLE structure  \* the one that is driven

structureVars == <<structure, vsaVars, fsaVars, cbufVars, avlVars, rvAvl, rvDhcpVars, bstVars, heapVars, dlVars,
                   slVars, hashVars, stackVars, sortVars, calcVars, knightVars, bitArrayVars,
                   bits_arr, sdVars, mhVars, rcVars, sptrVars, trVars, strVars, puzVars, wsVars,
                   biosVars, updateVars, olVars, spVars, nsVars, haVars>>

\* Of one and of two digits, two of them alike in one digit, and a negative one.
MCSortValues == {-12, 0, 3, 10, 11}

\* Numbers of one to three digits in base 2, of both signs, and 0.
MCWsNumbers == {-7, -4, -1, 0, 1, 3, 6, 7}

\* Warnsdorff's rule on the real board, back-tracking on small ones.
MCKnightGames == {<<"Warnsdorff", 8, 63>>, <<"RvWarnsdorff", 8, 63>>, <<"Warnsdorff", 4, 0>>,
                  <<"RvWarnsdorff", 4, 0>>, <<"BackTracking", 5, 4>>, <<"BackTracking", 3, 0>>,
                  <<"BackTracking", 3, 4>>}

Init == /\ structure \in {"vsa", "fsa", "cbuffer", "avl", "review", "lease", "bst", "heap", "dlist", "slist",
                          "hash", "stack", "sorts", "calc", "knight", "bitarray", "bits",
                          "sorted", "minheap", "rcstring", "sharedptr", "translation", "strings", "puzzles",
                          "conversions", "words",
                          "plan", "update", "olt", "spa", "nsi", "homeassistant"}
        /\ VSAInit /\ FsaStart /\ CBufferStart /\ AvlInit /\ RvAvlStart
        /\ InitSavedAddressesImp /\ BSTCreate
        /\ HeapCreate("test") \/ (structure = "heap" /\ HpqCreate)
        /\ DlistCreate /\ QCreate /\ HashStart
        /\ StackCreate /\ (structure # "stack" => stack_elements = <<>>)
        /\ SortStart /\ (structure # "sorts" => sortInput = [i \in 0 .. 0 |-> 0])
        /\ CalcInit /\ BitsStart
        /\ BitArrayStart /\ (structure # "bitarray" => bitArrayN = 5)
        /\ KnightStart /\ (structure # "knight" => knightGame = <<"BackTracking", 3, 0>>)
        /\ PQCreate("test") \/ (structure = "sorted" /\ PQCreate("scheduler"))
        /\ MinHeapStart /\ RcStart /\ SpStart
        /\ TranslationStart /\ (structure # "translation" => trProgram = "plain")
        /\ StrStart /\ (structure # "strings" => strDest[0] = NUL)
        /\ PuzzleStart /\ (structure # "puzzles" => \A n \in PuzzleNodes : puzNext[n] = 0)
        /\ WsStart /\ (structure # "words" => wsWord = 0)
        /\ UpdateStart /\ (structure # "update" => /\ fcpBoard /\ customPassword
                                                   /\ password = Default /\ installed = candidate
                                                   /\ installed = CHOOSE v \in BiosVersions : TRUE)
        /\ BiosStart /\ OltStart /\ SpaStart /\ NsiStart /\ HaStart

\* A call on s: the others stay as they are.
Only(s) == /\ structure = s /\ UNCHANGED structure
           /\ s # "vsa" => UNCHANGED vsaVars
           /\ s # "fsa" => UNCHANGED fsaVars
           /\ s # "cbuffer" => UNCHANGED cbufVars
           /\ s # "avl" => UNCHANGED avlVars
           /\ s # "review" => UNCHANGED rvAvl
           /\ s # "lease" => UNCHANGED rvDhcpVars
           /\ s # "bst" => UNCHANGED bstVars
           /\ s # "heap" => UNCHANGED heapVars
           /\ s # "dlist" => UNCHANGED dlVars
           /\ s # "slist" => UNCHANGED slVars
           /\ s # "hash" => UNCHANGED hashVars
           /\ s # "stack" => UNCHANGED stackVars
           /\ s # "sorts" => UNCHANGED sortVars
           /\ s # "calc" => UNCHANGED calcVars
           /\ s # "knight" => UNCHANGED knightVars
           /\ s # "bitarray" => UNCHANGED bitArrayVars
           /\ s # "bits" => UNCHANGED bits_arr
           /\ s # "sorted" => UNCHANGED sdVars
           /\ s # "minheap" => UNCHANGED mhVars
           /\ s # "rcstring" => UNCHANGED rcVars
           /\ s # "sharedptr" => UNCHANGED sptrVars
           /\ s # "translation" => UNCHANGED trVars
           /\ s # "strings" => UNCHANGED strVars
           /\ s # "puzzles" => UNCHANGED puzVars
           /\ s # "conversions" => UNCHANGED wsVars
           /\ s # "homeassistant" => UNCHANGED haVars
           /\ s # "nsi" => UNCHANGED nsVars
           /\ s # "spa" => UNCHANGED spVars
           /\ s # "olt" => UNCHANGED olVars
           /\ s # "update" => UNCHANGED updateVars
           /\ s # "plan" => UNCHANGED biosVars

Next == \/ Only("vsa") /\ VsaNext
        \/ Only("fsa") /\ FsaNext
        \/ Only("cbuffer") /\ CBufferNext
        \/ Only("avl") /\ AvlNext
        \/ Only("review") /\ RvAvlNext
        \/ Only("lease") /\ RvDhcpNext
        \/ Only("bst") /\ BstNext
        \/ Only("heap") /\ HeapNext
        \/ Only("dlist") /\ DlistNext
        \/ Only("slist") /\ SlistNext
        \/ Only("hash") /\ HashNext
        \/ Only("stack") /\ StackNext
        \/ Only("sorts") /\ SortNext
        \/ Only("calc") /\ CalcNext
        \/ Only("knight") /\ KnightNext
        \/ Only("bitarray") /\ BitArrayNext
        \/ Only("bits") /\ BitsNext
        \/ Only("sorted") /\ SortedNext
        \/ Only("minheap") /\ MinHeapNext
        \/ Only("rcstring") /\ RcNext
        \/ Only("sharedptr") /\ SharedPtrNext
        \/ Only("translation") /\ TranslationNext
        \/ Only("strings") /\ StrNext
        \/ Only("puzzles") /\ PuzzleNext
        \/ Only("conversions") /\ WsNext
        \/ Only("homeassistant") /\ HaNext
        \/ Only("nsi") /\ NsiNext
        \/ Only("spa") /\ SpaNext
        \/ Only("olt") /\ OltNext
        \/ Only("update") /\ BiosUpdateNext
        \/ Only("plan") /\ BiosPlanNext

Spec == Init /\ [][Next]_structureVars

(***************************************************************************)
(* After every sequence of calls a container holds what was put into it    *)
(* and not taken out, where its interface looks for it: the trees stay     *)
(* search trees and walk in order, the heaps heaps, the linked nodes of    *)
(* the lists one chain in the order of the insertions, the buckets of the  *)
(* hash table a map, both stacks the same stack, the buffer a stream, the  *)
(* sorted list sorted, and counted references count what refers.           *)
(***************************************************************************)
ContainersAgree == /\ AvlSearchable /\ RvAvlSearchable /\ BstWalksInOrder
                   /\ (structure = "lease" => RvTrieCounts) /\ HeapHolds
                   /\ DlistIsSequence /\ SlistIsSequence
                   /\ (structure = "hash" => HashIsMap) /\ StacksAgree /\ CBufferIsStream
                   /\ (structure = "bitarray" => BitArrayHolds)
                   /\ SortedListsHold /\ MinHeapHolds /\ CountsAreRight

(***************************************************************************)
(* The algorithms compute what their definitions say: sorted permutations  *)
(* and the elements sought, the value of an expression by its grammar, a   *)
(* knight's walk over the board, the reflections and rotations of a word,  *)
(* texts copied, appended and searched, lists flipped and intersected,     *)
(* numbers read back from their texts, and bits mirrored and counted.      *)
(***************************************************************************)
AlgorithmsAgree == /\ SortsSort /\ SearchesFind
                   /\ CalcParses /\ KnightWalks
                   /\ BitsAgree
                   /\ (structure = "translation" => TranslationPrintsTheSame)
                   /\ (structure = "strings" => StringsAgree)
                   /\ (structure = "puzzles" => PuzzlesSolved)
                   /\ (structure = "conversions" => TextsReadBack)
                   /\ (structure = "words" => WordsAgree)

(***************************************************************************)
(* What scripts that may die at any step and are run again never leave     *)
(* behind, and what one that comes to its end has achieved:                *)
(* interface_cfg.py gives no value of a pool to two (PoolsHandOutOnce and  *)
(* AddressesHeldOnce), and as long as no run dies who names somebody as    *)
(* its handler is handled by it (OltsHandledOnce of InterfaceCfg); a       *)
(* script of homeassistant_script that comes to its end has done all its   *)
(* work (SetupConverges of HomeAssistant); and the BIOS service executes a *)
(* plan in its order and believes its state file rightly (PlanResumes of   *)
(* BiosPlan). Not that a later run makes good what an earlier one left:    *)
(* SpaDies, a failing tar in backup.sh and a torn state file are followed  *)
(* by runs that do not.                                                    *)
(***************************************************************************)
ReconfigurationSound ==
  PoolsHandOutOnce /\ OltsHandledOnce /\ AddressesHeldOnce /\ SetupConverges /\ PlanResumes
=============================================================================
