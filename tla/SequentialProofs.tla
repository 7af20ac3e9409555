-------------------------- MODULE SequentialProofs --------------------------
(***************************************************************************)
(* What programs without threads promise: the DHCP server's trie for any   *)
(* number of host bits, the BIOS update for any versions, and the two      *)
(* allocators for any memory.                                              *)
(***************************************************************************)
EXTENDS Dhcp, BiosUpdate, Allocators, FiniteSetTheorems, FunctionTheorems, SequenceTheorems,
        NaturalsInduction, WellFoundedInduction, TLAPS

-----------------------------------------------------------------------------
(* Induction and recursion *)

\* A set of natural numbers that is not empty has a smallest element: the
\* form of induction the proofs below use.
LEMMA Smallest ==
  ASSUME NEW S, S \subseteq Nat, S # {}
  PROVE  \E n \in S : \A m \in S : n <= m
<1>1. PICK n \in S : \A m \in S : ~(<<m, n>> \in OpToRel(<, Nat))
  BY NatLessThanWellFounded, WFMin
<1>2. \A m \in S : ~(m < n)
  BY <1>1 DEF OpToRel
<1> QED BY <1>2

\* The first n + 1 values of the function that begins with b and goes on by st.
Begins(S, b, st, n) == {g \in [0 .. n -> S] :
                          g[0] = b /\ \A i \in 0 .. n - 1 : g[i + 1] = st[<<i, g[i]>>]}

\* They exist, as far as one likes.
LEMMA BeginsExist ==
  ASSUME NEW S, NEW b \in S, NEW st \in [Nat \X S -> S], NEW n \in Nat
  PROVE  Begins(S, b, st, n) # {}
<1> DEFINE Bad == {m \in Nat : Begins(S, b, st, m) = {}}
<1> SUFFICES ASSUME Bad # {} PROVE FALSE
  OBVIOUS
<1>1. PICK m \in Bad : \A k \in Bad : m <= k
  <2>1. Bad \subseteq Nat
    OBVIOUS
  <2> HIDE DEF Bad
  <2> QED BY <2>1, Smallest
<1>2. m \in Nat /\ Begins(S, b, st, m) = {}
  OBVIOUS
<1>3. CASE m = 0
  <2>1. [i \in 0 .. 0 |-> b] \in Begins(S, b, st, 0)
    BY DEF Begins
  <2> QED BY <1>2, <1>3, <2>1
<1>4. CASE m # 0
  <2>1. m - 1 \in Nat /\ m - 1 \notin Bad
    BY <1>1, <1>2, <1>4
  <2>2. PICK g : g \in Begins(S, b, st, m - 1)
    BY <2>1
  <2> DEFINE k == [i \in 0 .. m |-> IF i = m THEN st[<<m - 1, g[m - 1]>>] ELSE g[i]]
  <2>3. /\ g \in [0 .. m - 1 -> S] /\ g[0] = b
        /\ \A i \in 0 .. m - 2 : g[i + 1] = st[<<i, g[i]>>]
    BY <2>1, <2>2 DEF Begins
  <2>4. \A i \in 0 .. m : k[i] \in S
    <3>1. <<m - 1, g[m - 1]>> \in Nat \X S
      BY <1>2, <2>1, <2>3
    <3>2. st[<<m - 1, g[m - 1]>>] \in S
      BY <3>1
    <3> QED BY <1>2, <2>1, <2>3, <3>2
  <2>5. k \in [0 .. m -> S]
    BY <2>4
  <2>6. k[0] = b
    BY <1>2, <1>4, <2>3
  <2>7. \A i \in 0 .. m - 1 : k[i + 1] = st[<<i, k[i]>>]
    <3> SUFFICES ASSUME NEW i \in 0 .. m - 1 PROVE k[i + 1] = st[<<i, k[i]>>]
      OBVIOUS
    <3>1. k[i] = g[i]
      BY <1>2
    <3>2. CASE i = m - 1
      BY <1>2, <3>1, <3>2
    <3>3. CASE i # m - 1
      BY <1>2, <2>3, <3>1, <3>3
    <3> QED BY <3>2, <3>3
  <2> HIDE DEF k
  <2>8. k \in Begins(S, b, st, m)
    BY <2>5, <2>6, <2>7 DEF Begins
  <2> QED BY <1>2, <2>8
<1> QED BY <1>3, <1>4

\* Two of them agree as far as both go.
LEMMA BeginsAgree ==
  ASSUME NEW S, NEW b \in S, NEW st \in [Nat \X S -> S], NEW n \in Nat, NEW m \in Nat,
         NEW g \in Begins(S, b, st, n), NEW k \in Begins(S, b, st, m),
         NEW j \in 0 .. n, j <= m
  PROVE  g[j] = k[j]
<1> DEFINE Bad == {i \in 0 .. n : i <= m /\ g[i] # k[i]}
<1> SUFFICES ASSUME Bad # {} PROVE FALSE
  OBVIOUS
<1>1. PICK i \in Bad : \A l \in Bad : i <= l
  <2>1. Bad \subseteq Nat
    OBVIOUS
  <2> HIDE DEF Bad
  <2> QED BY <2>1, Smallest
<1>2. i \in 0 .. n /\ i <= m /\ g[i] # k[i]
  OBVIOUS
<1>3. i # 0
  BY <1>2 DEF Begins
<1>4. i - 1 \in 0 .. n - 1 /\ i - 1 \in 0 .. m - 1 /\ i - 1 \in 0 .. n /\ i - 1 <= m
      /\ i - 1 \notin Bad /\ i = (i - 1) + 1
  BY <1>1, <1>2, <1>3
<1>5. g[i - 1] = k[i - 1]
  BY <1>4
<1>6. g[i] = st[<<i - 1, g[i - 1]>>] /\ k[i] = st[<<i - 1, k[i - 1]>>]
  BY <1>4 DEF Begins
<1> QED BY <1>2, <1>5, <1>6

\* So a function on the natural numbers can be defined by a first value and a step.
GoesOn(S, b, st) == {f \in [Nat -> S] :
                       f[0] = b /\ \A n \in Nat : f[n + 1] = st[<<n, f[n]>>]}

LEMMA Recursion ==
  ASSUME NEW S, NEW b \in S, NEW st \in [Nat \X S -> S]
  PROVE  GoesOn(S, b, st) # {}
<1> DEFINE beg(n) == CHOOSE g : g \in Begins(S, b, st, n)
           f == [n \in Nat |-> beg(n)[n]]
<1>1. \A n \in Nat : beg(n) \in Begins(S, b, st, n)
  BY BeginsExist
<1>2. \A n \in Nat : f[n] = beg(n)[n]
  OBVIOUS
<1> HIDE DEF beg
<1>3. \A n \in Nat : f[n] \in S
  BY <1>1, <1>2 DEF Begins
<1>4. f \in [Nat -> S]
  BY <1>3
<1>5. f[0] = b
  BY <1>1, <1>2 DEF Begins
<1>6. ASSUME NEW n \in Nat PROVE f[n + 1] = st[<<n, f[n]>>]
  <2>1. /\ n + 1 \in Nat /\ n \in 0 .. n /\ n <= n + 1 /\ n \in 0 .. (n + 1) - 1
        /\ n \in 0 .. n + 1 /\ n <= n
    OBVIOUS
  <2>2. beg(n) \in Begins(S, b, st, n) /\ beg(n + 1) \in Begins(S, b, st, n + 1)
    BY <1>1, <2>1
  <2>3. beg(n)[n] = beg(n + 1)[n]
    BY <2>1, <2>2, BeginsAgree
  <2>4. beg(n + 1)[n + 1] = st[<<n, beg(n + 1)[n]>>]
    BY <2>1, <2>2 DEF Begins
  <2>5. f[n + 1] = beg(n + 1)[n + 1]
    BY <1>2, <2>1
  <2>6. f[n] = beg(n)[n]
    BY <1>2
  <2> QED BY <2>3, <2>4, <2>5, <2>6
<1> HIDE DEF f
<1> QED BY <1>4, <1>5, <1>6 DEF GoesOn

-----------------------------------------------------------------------------
(* The DHCP server's trie *)

\* The powers of two.
LEMMA PowersOfTwo ==
  /\ Pow2[0] = 1
  /\ \A n \in Nat : Pow2[n] \in Nat \ {0} /\ Pow2[n + 1] = 2 * Pow2[n]
<1> DEFINE st == [p \in Nat \X Nat |-> 2 * p[2]]
<1>1. st \in [Nat \X Nat -> Nat]
  OBVIOUS
<1>2. \A n, x \in Nat : st[<<n, x>>] = 2 * x
  OBVIOUS
<1> HIDE DEF st
<1>3. PICK f : f \in GoesOn(Nat, 1, st)
  BY <1>1, Recursion
<1>a. f \in [Nat -> Nat] /\ f[0] = 1 /\ \A n \in Nat : f[n + 1] = st[<<n, f[n]>>]
  BY <1>3 DEF GoesOn
<1>4. \A n \in Nat : f[n + 1] = 2 * f[n]
  BY <1>2, <1>a
<1>5. f = [n \in Nat |-> IF n = 0 THEN 1 ELSE 2 * f[n - 1]]
  <2>1. \A n \in Nat : f[n] = IF n = 0 THEN 1 ELSE 2 * f[n - 1]
    <3> SUFFICES ASSUME NEW n \in Nat PROVE f[n] = IF n = 0 THEN 1 ELSE 2 * f[n - 1]
      OBVIOUS
    <3>1. CASE n = 0
      BY <1>a, <3>1
    <3>2. CASE n # 0
      <4>1. n - 1 \in Nat /\ (n - 1) + 1 = n
        BY <3>2
      <4>2. f[(n - 1) + 1] = 2 * f[n - 1]
        BY <1>4, <4>1
      <4> QED BY <3>2, <4>1, <4>2
    <3> QED BY <3>1, <3>2
  <2> QED BY <1>a, <2>1
<1>6. Pow2 = [n \in Nat |-> IF n = 0 THEN 1 ELSE 2 * Pow2[n - 1]]
  BY <1>5 DEF Pow2
<1>7. Pow2[0] = 1 /\ \A n \in Nat : Pow2[n + 1] = 2 * Pow2[n]
  <2>1. \A n \in Nat : Pow2[n] = IF n = 0 THEN 1 ELSE 2 * Pow2[n - 1]
    BY <1>6, Zenon
  <2>2. \A n \in Nat : n + 1 \in Nat /\ n + 1 # 0 /\ (n + 1) - 1 = n
    OBVIOUS
  <2>3. \A n \in Nat : Pow2[n + 1] = 2 * Pow2[n]
    BY <2>1, <2>2, Zenon
  <2> QED BY <2>1, <2>3
<1>8. ASSUME NEW n \in Nat PROVE Pow2[n] \in Nat \ {0}
  <2> DEFINE Bad == {m \in Nat : Pow2[m] \notin Nat \ {0}}
  <2> SUFFICES ASSUME Bad # {} PROVE FALSE
    OBVIOUS
  <2>1. PICK m \in Bad : \A k \in Bad : m <= k
    <3>1. Bad \subseteq Nat
      OBVIOUS
    <3> HIDE DEF Bad
    <3> QED BY <3>1, Smallest
  <2>2. m \in Nat /\ Pow2[m] \notin Nat \ {0}
    OBVIOUS
  <2>3. m # 0
    BY <1>7, <2>2
  <2>4. m - 1 \in Nat /\ m - 1 \notin Bad /\ m = (m - 1) + 1
    BY <2>1, <2>2, <2>3
  <2>5. Pow2[m - 1] \in Nat \ {0}
    BY <2>4
  <2>6. Pow2[m] = 2 * Pow2[m - 1]
    BY <1>7, <2>4
  <2> QED BY <2>2, <2>5, <2>6
<1> QED BY <1>7, <1>8

-----------------------------------------------------------------------------
(* Hosts, prefixes and paths *)

Prefix(h, l) == h \div Pow2[HostBits - l]

\* The host numbers: at least four, the first and the last of them reserved.
LEMMA HostFacts ==
  /\ HostBits \in Nat /\ HostBits - 1 \in Nat /\ Pow2[HostBits] \in Nat /\ Pow2[HostBits] >= 4
  /\ broadcast \in DhcpHosts /\ 0 \in DhcpHosts /\ broadcast # 0
  /\ \A h : h \in DhcpHosts <=> h \in Nat /\ h < Pow2[HostBits]
  /\ \A ip \in Nat : ReqIp(ip) \in DhcpHosts
<1>1. HostBits - 2 \in Nat /\ (HostBits - 2) + 1 = HostBits - 1 /\ (HostBits - 1) + 1 = HostBits
      /\ HostBits - 1 \in Nat /\ HostBits \in Nat
  BY DhcpAssumption DEF HostBits
<1>2. /\ Pow2[HostBits - 2] \in Nat \ {0} /\ Pow2[HostBits - 1] = 2 * Pow2[HostBits - 2]
      /\ Pow2[HostBits] = 2 * Pow2[HostBits - 1]
  <2>1. \A n \in Nat : Pow2[n] \in Nat \ {0} /\ Pow2[n + 1] = 2 * Pow2[n]
    BY PowersOfTwo
  <2>2. Pow2[(HostBits - 2) + 1] = 2 * Pow2[HostBits - 2] /\ Pow2[HostBits - 2] \in Nat \ {0}
    BY <1>1, <2>1
  <2>3. Pow2[(HostBits - 1) + 1] = 2 * Pow2[HostBits - 1]
    BY <1>1, <2>1
  <2> QED BY <1>1, <2>2, <2>3
<1>3. Pow2[HostBits] \in Nat /\ Pow2[HostBits] >= 4
  BY <1>2
<1>4. \A h : h \in DhcpHosts <=> h \in Nat /\ h < Pow2[HostBits]
  BY <1>3 DEF DhcpHosts
<1>5. broadcast \in Nat /\ broadcast < Pow2[HostBits] /\ broadcast # 0
  BY <1>3 DEF broadcast
<1>6. \A ip \in Nat : ReqIp(ip) \in Nat /\ ReqIp(ip) < Pow2[HostBits]
  BY <1>3 DEF ReqIp
<1> QED BY <1>1, <1>3, <1>4, <1>5, <1>6

\* A prefix is half of the one that is a bit longer; the longest is the
\* number itself and the shortest is nothing.
LEMMA PrefixFacts ==
  ASSUME NEW h \in DhcpHosts
  PROVE  /\ \A l \in 0 .. HostBits : Prefix(h, l) \in Nat /\ TrieNode(h, l) = <<l, Prefix(h, l)>>
         /\ \A l \in 0 .. HostBits - 1 : \/ Prefix(h, l + 1) = 2 * Prefix(h, l)
                                         \/ Prefix(h, l + 1) = 2 * Prefix(h, l) + 1
         /\ Prefix(h, HostBits) = h /\ TrieLeaf(h) = <<HostBits, h>>
         /\ Prefix(h, 0) = 0 /\ TrieNode(h, 0) = <<0, 0>>
<1>1. h \in Nat /\ h < Pow2[HostBits] /\ HostBits \in Nat /\ HostBits \in 0 .. HostBits
      /\ 0 \in 0 .. HostBits
  BY HostFacts
<1>2. ASSUME NEW l \in 0 .. HostBits
      PROVE  Prefix(h, l) \in Nat /\ TrieNode(h, l) = <<l, Prefix(h, l)>>
  <2>1. HostBits - l \in Nat
    BY <1>1
  <2>2. Pow2[HostBits - l] \in Nat \ {0}
    BY <2>1, PowersOfTwo
  <2> QED BY <1>1, <2>2 DEF Prefix, TrieNode
<1>3. ASSUME NEW l \in 0 .. HostBits - 1
      PROVE  Prefix(h, l + 1) = 2 * Prefix(h, l) \/ Prefix(h, l + 1) = 2 * Prefix(h, l) + 1
  <2> DEFINE b == Pow2[HostBits - (l + 1)]
  <2>1. HostBits - (l + 1) \in Nat /\ (HostBits - (l + 1)) + 1 = HostBits - l
    BY <1>1
  <2>2. b \in Nat \ {0} /\ Pow2[HostBits - l] = 2 * b
    BY <2>1, PowersOfTwo
  <2> HIDE DEF b
  <2>3. (h \div b) \div 2 = h \div (2 * b)
    BY <1>1, <2>2
  <2>4. h \div b \in Nat
    BY <1>1, <2>2
  <2>5. h \div b = 2 * ((h \div b) \div 2) \/ h \div b = 2 * ((h \div b) \div 2) + 1
    BY <2>4
  <2>6. Prefix(h, l + 1) = h \div b /\ Prefix(h, l) = h \div (2 * b)
    BY <2>2 DEF Prefix, b
  <2> QED BY <2>3, <2>5, <2>6
<1>4. Prefix(h, HostBits) = h
  <2>1. HostBits - HostBits = 0
    BY <1>1
  <2> QED BY <1>1, <2>1, PowersOfTwo DEF Prefix
<1>5. Prefix(h, 0) = 0
  <2>1. HostBits - 0 = HostBits
    BY <1>1
  <2>2. h \div Pow2[HostBits] = 0
    BY <1>1, HostFacts
  <2> QED BY <2>1, <2>2 DEF Prefix
<1>6. TrieLeaf(h) = <<HostBits, h>> /\ TrieNode(h, 0) = <<0, 0>>
  BY <1>1, <1>2, <1>4, <1>5 DEF TrieLeaf
<1> QED BY <1>2, <1>3, <1>4, <1>5, <1>6

\* Two numbers with a prefix in common have every shorter one in common.
LEMMA SamePath ==
  ASSUME NEW h \in DhcpHosts, NEW g \in DhcpHosts, NEW l \in 0 .. HostBits, NEW m \in 0 .. l,
         Prefix(h, l) = Prefix(g, l)
  PROVE  Prefix(h, m) = Prefix(g, m)
<1> DEFINE Bad == {k \in 0 .. l : Prefix(h, l - k) # Prefix(g, l - k)}
<1>0. HostBits \in Nat /\ l \in Nat /\ m \in Nat /\ m <= l /\ l <= HostBits
  BY HostFacts
<1>1. SUFFICES ASSUME Bad # {} PROVE FALSE
  <2>1. l - m \in 0 .. l /\ l - (l - m) = m
    BY <1>0
  <2>2. l - m \notin Bad
    BY <1>1
  <2> QED BY <2>1, <2>2
<1>2. PICK k \in Bad : \A i \in Bad : k <= i
  <2>1. Bad \subseteq Nat
    BY <1>0
  <2> HIDE DEF Bad
  <2> QED BY <1>1, <2>1, Smallest
<1>3. k \in 0 .. l /\ Prefix(h, l - k) # Prefix(g, l - k)
  OBVIOUS
<1>4. k # 0
  <2>1. l - 0 = l
    BY <1>0
  <2> QED BY <1>3, <2>1
<1>5. k - 1 \in 0 .. l /\ k - 1 \notin Bad /\ l - k \in 0 .. HostBits - 1
      /\ l - (k - 1) = (l - k) + 1
  BY <1>0, <1>2, <1>3, <1>4
<1>6. Prefix(h, (l - k) + 1) = Prefix(g, (l - k) + 1)
  BY <1>5
<1>7. l - k \in 0 .. HostBits /\ Prefix(h, l - k) \in Nat /\ Prefix(g, l - k) \in Nat
  BY <1>0, <1>5, PrefixFacts
<1> QED BY <1>3, <1>5, <1>6, <1>7, PrefixFacts

-----------------------------------------------------------------------------
(* is_full *)

\* An inner node is full exactly if both its relatives are.
Fullness(F) == \A l \in 0 .. HostBits - 1, k \in Nat :
                 <<l, k>> \in F <=> <<l + 1, 2 * k>> \in F /\ <<l + 1, 2 * k + 1>> \in F

\* Under a full node every address is leased.
LEMMA FullBelow ==
  ASSUME NEW F, Fullness(F), NEW h \in DhcpHosts, NEW l \in 0 .. HostBits, TrieNode(h, l) \in F
  PROVE  TrieLeaf(h) \in F
<1> DEFINE Bad == {k \in 0 .. HostBits - l : TrieNode(h, l + k) \notin F}
<1>0. HostBits \in Nat /\ l \in Nat /\ l <= HostBits
  BY HostFacts
<1>1. SUFFICES ASSUME Bad # {} PROVE FALSE
  <2>1. HostBits - l \in 0 .. HostBits - l /\ l + (HostBits - l) = HostBits
    BY <1>0
  <2>2. HostBits - l \notin Bad
    BY <1>1
  <2> QED BY <2>1, <2>2 DEF TrieLeaf
<1>2. PICK k \in Bad : \A i \in Bad : k <= i
  <2>1. Bad \subseteq Nat
    BY <1>0
  <2> HIDE DEF Bad
  <2> QED BY <1>1, <2>1, Smallest
<1>3. k \in 0 .. HostBits - l /\ TrieNode(h, l + k) \notin F
  OBVIOUS
<1>4. k # 0
  <2>1. l + 0 = l
    BY <1>0
  <2> QED BY <1>3, <2>1
<1> DEFINE m == l + (k - 1)
<1>5. k - 1 \in 0 .. HostBits - l /\ k - 1 \notin Bad /\ m \in 0 .. HostBits - 1
      /\ m \in 0 .. HostBits /\ m + 1 = l + k /\ m + 1 \in 0 .. HostBits
  BY <1>0, <1>2, <1>3, <1>4
<1>6. TrieNode(h, m) \in F /\ TrieNode(h, m + 1) \notin F
  BY <1>3, <1>5
<1> HIDE DEF m, Bad
<1>7. /\ TrieNode(h, m) = <<m, Prefix(h, m)>> /\ TrieNode(h, m + 1) = <<m + 1, Prefix(h, m + 1)>>
      /\ Prefix(h, m) \in Nat
      /\ Prefix(h, m + 1) = 2 * Prefix(h, m) \/ Prefix(h, m + 1) = 2 * Prefix(h, m) + 1
  BY <1>5, PrefixFacts
<1>8. /\ <<m + 1, 2 * Prefix(h, m)>> \in F /\ <<m + 1, 2 * Prefix(h, m) + 1>> \in F
  BY <1>5, <1>6, <1>7 DEF Fullness
<1> QED BY <1>6, <1>7, <1>8

-----------------------------------------------------------------------------
(* Occupy: the marking of the nodes on the way back up *)

\* What has been marked when the way up has come to level l.
Marked(h, l, F, U) ==
  /\ F \subseteq U /\ U \subseteq F \cup {TrieNode(h, m) : m \in l .. HostBits}
  /\ TrieLeaf(h) \in U
  /\ \A m \in l .. HostBits - 1, k \in Nat :
       <<m, k>> \in U <=> <<m + 1, 2 * k>> \in U /\ <<m + 1, 2 * k + 1>> \in U

\* The way up begins at the leaf.
LEMMA MarkLeaf ==
  ASSUME NEW F, NEW h \in DhcpHosts
  PROVE  Marked(h, HostBits, F, F \cup {TrieLeaf(h)})
<1>1. HostBits \in Nat /\ HostBits .. HostBits - 1 = {} /\ HostBits \in HostBits .. HostBits
  BY HostFacts
<1> QED BY <1>1 DEF Marked, TrieLeaf

\* UpdateFullness marks one level more.
LEMMA MarkLevel ==
  ASSUME NEW F, Fullness(F), NEW h \in DhcpHosts, NEW l \in 0 .. HostBits - 1, NEW U,
         Marked(h, l + 1, F, U)
  PROVE  Marked(h, l, F, UpdateFullness(U, TrieNode(h, l)))
<1> DEFINE p == Prefix(h, l)
           V == UpdateFullness(U, TrieNode(h, l))
<1>0. /\ HostBits \in Nat /\ l \in 0 .. HostBits /\ l + 1 \in 0 .. HostBits
      /\ l \in l .. HostBits /\ l \in Nat
  BY HostFacts
<1>1. /\ TrieNode(h, l) = <<l, p>> /\ p \in Nat
      /\ Prefix(h, l + 1) = 2 * p \/ Prefix(h, l + 1) = 2 * p + 1
      /\ \A m \in 0 .. HostBits : TrieNode(h, m) = <<m, Prefix(h, m)>>
  BY <1>0, PrefixFacts
<1>2. V = IF <<l + 1, 2 * p>> \in U /\ <<l + 1, 2 * p + 1>> \in U THEN U \cup {<<l, p>>} ELSE U
  <2>1. <<l, p>>[1] = l /\ <<l, p>>[2] = p
    OBVIOUS
  <2>2. relatives(<<l, p>>) = {<<l + 1, 2 * p>>, <<l + 1, 2 * p + 1>>}
    BY <2>1 DEF relatives
  <2> QED BY <1>1, <2>2 DEF UpdateFullness
<1> HIDE DEF p, V
<1>3. /\ F \subseteq U /\ TrieLeaf(h) \in U
      /\ \A x \in U : x \in F \/ \E m \in l + 1 .. HostBits : x = TrieNode(h, m)
      /\ \A m \in l + 1 .. HostBits - 1, k \in Nat :
           <<m, k>> \in U <=> <<m + 1, 2 * k>> \in U /\ <<m + 1, 2 * k + 1>> \in U
  BY DEF Marked
<1>4. F \subseteq V /\ TrieLeaf(h) \in V /\ U \subseteq V
  BY <1>2, <1>3
<1>5. V \subseteq F \cup {TrieNode(h, m) : m \in l .. HostBits}
  <2>1. \A m \in l + 1 .. HostBits : m \in l .. HostBits
    BY <1>0
  <2> QED BY <1>0, <1>1, <1>2, <1>3, <2>1
<1>6. \A m, k : <<m, k>> \in V <=> <<m, k>> \in U \/ (m = l /\ k = p /\ <<l, p>> \in V)
  BY <1>2
<1>7. \A k : <<l, k>> \in U <=> <<l, k>> \in F
  <2>1. \A m \in l + 1 .. HostBits : m # l /\ m \in 0 .. HostBits
    BY <1>0
  <2>2. \A m \in l + 1 .. HostBits : \A k : <<l, k>> # TrieNode(h, m)
    BY <1>1, <2>1
  <2> QED BY <1>3, <2>2
<1>8. ASSUME NEW k \in Nat, k # p
      PROVE  <<l, k>> \in V <=> <<l + 1, 2 * k>> \in V /\ <<l + 1, 2 * k + 1>> \in V
  <2>1. l + 1 # l
    BY <1>0
  <2>2. <<l, k>> \in V <=> <<l, k>> \in F
    BY <1>6, <1>7, <1>8
  <2>3. \A j : <<l + 1, j>> \in V <=> <<l + 1, j>> \in U
    BY <1>6, <2>1
  <2>4. Prefix(h, l + 1) # 2 * k /\ Prefix(h, l + 1) # 2 * k + 1
    BY <1>1, <1>8
  <2>5. \A m \in l + 1 .. HostBits : m \in 0 .. HostBits
    BY <1>0
  <2>6. \A j : j # Prefix(h, l + 1) => (<<l + 1, j>> \in U <=> <<l + 1, j>> \in F)
    BY <1>1, <1>3, <2>5
  <2>7. /\ <<l + 1, 2 * k>> \in V <=> <<l + 1, 2 * k>> \in F
        /\ <<l + 1, 2 * k + 1>> \in V <=> <<l + 1, 2 * k + 1>> \in F
    BY <2>3, <2>4, <2>6
  <2>8. <<l, k>> \in F <=> <<l + 1, 2 * k>> \in F /\ <<l + 1, 2 * k + 1>> \in F
    BY DEF Fullness
  <2> QED BY <2>2, <2>7, <2>8
<1>9. <<l, p>> \in V <=> <<l + 1, 2 * p>> \in V /\ <<l + 1, 2 * p + 1>> \in V
  <2>1. l + 1 # l
    BY <1>0
  <2>2. \A j : <<l + 1, j>> \in V <=> <<l + 1, j>> \in U
    BY <1>6, <2>1
  <2>3. <<l, p>> \in F => <<l + 1, 2 * p>> \in F /\ <<l + 1, 2 * p + 1>> \in F
    BY <1>1 DEF Fullness
  <2>4. <<l, p>> \in U => <<l + 1, 2 * p>> \in U /\ <<l + 1, 2 * p + 1>> \in U
    BY <1>3, <1>7, <2>3
  <2> QED BY <1>2, <2>2, <2>4
<1>10. ASSUME NEW m \in l + 1 .. HostBits - 1, NEW k \in Nat
       PROVE  <<m, k>> \in V <=> <<m + 1, 2 * k>> \in V /\ <<m + 1, 2 * k + 1>> \in V
  <2>1. m # l /\ m + 1 # l
    BY <1>0
  <2> QED BY <1>3, <1>6, <2>1
<1>11. \A m \in l .. HostBits - 1 : m = l \/ m \in l + 1 .. HostBits - 1
  BY <1>0
<1>12. \A m \in l .. HostBits - 1, k \in Nat :
         <<m, k>> \in V <=> <<m + 1, 2 * k>> \in V /\ <<m + 1, 2 * k + 1>> \in V
  BY <1>8, <1>9, <1>10, <1>11
<1> QED BY <1>4, <1>5, <1>12 DEF Marked, V

\* What Occupy computes, level by level.
Rises(h, up) ==
  up = [level \in 0 .. HostBits |->
          IF level = HostBits THEN dhcpFull \cup {TrieLeaf(h)}
          ELSE UpdateFullness(up[level + 1], TrieNode(h, level))]

\* The recursion from the leaf to the root has a value.
LEMMA RisesExists ==
  ASSUME NEW h \in DhcpHosts, dhcpFull \subseteq Nat \X Nat
  PROVE  \E up : Rises(h, up) /\ Occupy(h) = up[0]
<1> DEFINE S == SUBSET (Nat \X Nat)
           b == dhcpFull \cup {TrieLeaf(h)}
           st == [q \in Nat \X S |->
                    IF q[1] < HostBits THEN UpdateFullness(q[2], TrieNode(h, HostBits - 1 - q[1]))
                    ELSE q[2]]
<1>0. HostBits \in Nat /\ HostBits \in 0 .. HostBits
  BY HostFacts
<1>1. \A l \in 0 .. HostBits : TrieNode(h, l) \in Nat \X Nat
  <2>1. \A l \in 0 .. HostBits : l \in Nat
    BY <1>0
  <2> QED BY <2>1, PrefixFacts
<1>2. b \in S
  BY <1>0, <1>1 DEF TrieLeaf
<1>3. \A n \in Nat, U \in S : /\ st[<<n, U>>] \in S
                              /\ n < HostBits => st[<<n, U>>] =
                                   UpdateFullness(U, TrieNode(h, HostBits - 1 - n))
  <2> SUFFICES ASSUME NEW n \in Nat, NEW U \in S
               PROVE  /\ st[<<n, U>>] \in S
                      /\ n < HostBits => st[<<n, U>>] =
                           UpdateFullness(U, TrieNode(h, HostBits - 1 - n))
    OBVIOUS
  <2>1. st[<<n, U>>] = IF n < HostBits THEN UpdateFullness(U, TrieNode(h, HostBits - 1 - n)) ELSE U
    <3>1. <<n, U>> \in Nat \X S /\ <<n, U>>[1] = n /\ <<n, U>>[2] = U
      OBVIOUS
    <3> HIDE DEF S
    <3> QED BY <3>1
  <2>2. n < HostBits => HostBits - 1 - n \in 0 .. HostBits
    BY <1>0
  <2>3. n < HostBits => UpdateFullness(U, TrieNode(h, HostBits - 1 - n)) \in S
    BY <1>1, <2>2 DEF UpdateFullness
  <2> QED BY <2>1, <2>3
<1>4. st \in [Nat \X S -> S]
  <2>1. \A q \in Nat \X S : q = <<q[1], q[2]>> /\ q[1] \in Nat /\ q[2] \in S
    OBVIOUS
  <2>2. \A q \in Nat \X S : st[q] \in S
    <3> HIDE DEF S, st
    <3> QED BY <1>3, <2>1
  <2>3. st = [q \in Nat \X S |-> st[q]]
    OBVIOUS
  <2> HIDE DEF S, st
  <2> QED BY <2>2, <2>3
<1> HIDE DEF S, st
<1>5. PICK f : f \in GoesOn(S, b, st)
  BY <1>2, <1>4, Recursion
<1>6. f \in [Nat -> S] /\ f[0] = b /\ \A n \in Nat : f[n + 1] = st[<<n, f[n]>>]
  BY <1>5 DEF GoesOn
<1> HIDE DEF b
<1> DEFINE up == [level \in 0 .. HostBits |-> f[HostBits - level]]
<1>7. \A level \in 0 .. HostBits :
        up[level] = IF level = HostBits THEN b
                    ELSE UpdateFullness(up[level + 1], TrieNode(h, level))
  <2> SUFFICES ASSUME NEW level \in 0 .. HostBits
               PROVE  up[level] = IF level = HostBits THEN b
                                  ELSE UpdateFullness(up[level + 1], TrieNode(h, level))
    OBVIOUS
  <2>1. CASE level = HostBits
    <3>1. HostBits - level = 0
      BY <1>0, <2>1
    <3> QED BY <1>6, <2>1, <3>1
  <2>2. CASE level # HostBits
    <3> DEFINE n == HostBits - (level + 1)
    <3>1. /\ n \in Nat /\ n + 1 = HostBits - level /\ n < HostBits /\ HostBits - 1 - n = level
          /\ level + 1 \in 0 .. HostBits
      BY <1>0, <2>2
    <3>2. up[level + 1] = f[n] /\ up[level] = f[n + 1] /\ f[n] \in S
      BY <1>6, <3>1
    <3> HIDE DEF n, up
    <3>3. f[n + 1] = UpdateFullness(f[n], TrieNode(h, level))
      BY <1>3, <1>6, <3>1, <3>2
    <3> QED BY <2>2, <3>2, <3>3
  <2> QED BY <2>1, <2>2
<1>8. Rises(h, up)
  <2>1. up = [level \in 0 .. HostBits |-> up[level]]
    OBVIOUS
  <2> HIDE DEF up
  <2> QED BY <1>7, <2>1 DEF Rises, b
<1> HIDE DEF up
<1> QED BY <1>8 DEF Rises, Occupy

\* Occupy marks the leaf, what becomes full with it, and nothing else.
LEMMA OccupyFacts ==
  ASSUME NEW h \in DhcpHosts, dhcpFull \subseteq Nat \X Nat, Fullness(dhcpFull)
  PROVE  Marked(h, 0, dhcpFull, Occupy(h))
<1>0. HostBits \in Nat
  BY HostFacts
<1>1. PICK up : Rises(h, up) /\ Occupy(h) = up[0]
  BY RisesExists
<1>2. \A level \in 0 .. HostBits :
        up[level] = IF level = HostBits THEN dhcpFull \cup {TrieLeaf(h)}
                    ELSE UpdateFullness(up[level + 1], TrieNode(h, level))
  BY <1>1 DEF Rises
<1> DEFINE Bad == {k \in 0 .. HostBits : ~Marked(h, HostBits - k, dhcpFull, up[HostBits - k])}
<1>3. SUFFICES ASSUME Bad # {} PROVE FALSE
  <2>1. HostBits \in 0 .. HostBits /\ HostBits - HostBits = 0
    BY <1>0
  <2>2. HostBits \notin Bad
    BY <1>3
  <2> QED BY <1>1, <2>1, <2>2
<1>4. PICK k \in Bad : \A i \in Bad : k <= i
  <2>1. Bad \subseteq Nat
    BY <1>0
  <2> HIDE DEF Bad
  <2> QED BY <1>3, <2>1, Smallest
<1>5. k \in 0 .. HostBits /\ ~Marked(h, HostBits - k, dhcpFull, up[HostBits - k])
  OBVIOUS
<1>6. k # 0
  <2>1. HostBits - 0 = HostBits /\ HostBits \in 0 .. HostBits
    BY <1>0
  <2>2. up[HostBits] = dhcpFull \cup {TrieLeaf(h)}
    BY <1>2, <2>1
  <2> QED BY <1>5, <2>1, <2>2, MarkLeaf
<1> DEFINE l == HostBits - k
<1>7. /\ k - 1 \in 0 .. HostBits /\ k - 1 \notin Bad /\ l \in 0 .. HostBits - 1 /\ l \in 0 .. HostBits
      /\ HostBits - (k - 1) = l + 1 /\ l # HostBits
  BY <1>0, <1>4, <1>5, <1>6
<1>8. Marked(h, l + 1, dhcpFull, up[l + 1])
  BY <1>7
<1>9. up[l] = UpdateFullness(up[l + 1], TrieNode(h, l))
  BY <1>2, <1>7
<1> HIDE DEF Bad, l
<1>10. Marked(h, l, dhcpFull, UpdateFullness(up[l + 1], TrieNode(h, l)))
  BY <1>7, <1>8, MarkLevel
<1> QED BY <1>5, <1>9, <1>10 DEF l

-----------------------------------------------------------------------------
(* AllocateSmallestIp: the descent to the smallest free address *)

\* The descent has come to node d of level l: it is not full, and every
\* address before it is leased.
Descended(l, d) == /\ d \in Nat /\ d < Pow2[l] /\ <<l, d>> \notin dhcpFull
                   /\ \A h \in DhcpHosts : Prefix(h, l) < d => TrieLeaf(h) \in dhcpFull

\* What Descent computes, level by level.
Descends(down) ==
  down = [level \in 0 .. HostBits |->
            IF level = 0 THEN 0
            ELSE 2 * down[level - 1] + GetDirection(<<level - 1, down[level - 1]>>)]

\* The recursion from the root to a leaf has a value.
LEMMA DescendsExists == Descends(Descent)
<1> DEFINE st == [q \in Nat \X Nat |-> 2 * q[2] + GetDirection(<<q[1], q[2]>>)]
<1>0. HostBits \in Nat
  BY HostFacts
<1>1. \A v : GetDirection(v) \in Nat
  BY DEF GetDirection
<1>2. \A n, d \in Nat : st[<<n, d>>] = 2 * d + GetDirection(<<n, d>>)
  OBVIOUS
<1>3. st \in [Nat \X Nat -> Nat]
  BY <1>1
<1> HIDE DEF st
<1>4. PICK f : f \in GoesOn(Nat, 0, st)
  BY <1>3, Recursion
<1>5. f \in [Nat -> Nat] /\ f[0] = 0 /\ \A n \in Nat : f[n + 1] = st[<<n, f[n]>>]
  BY <1>4 DEF GoesOn
<1> DEFINE down == [level \in 0 .. HostBits |-> f[level]]
<1>6. \A level \in 0 .. HostBits :
        down[level] = IF level = 0 THEN 0
                      ELSE 2 * down[level - 1] + GetDirection(<<level - 1, down[level - 1]>>)
  <2> SUFFICES ASSUME NEW level \in 0 .. HostBits
               PROVE  down[level] = IF level = 0 THEN 0
                                    ELSE 2 * down[level - 1] + GetDirection(<<level - 1, down[level - 1]>>)
    OBVIOUS
  <2>1. CASE level = 0
    BY <1>5, <2>1
  <2>2. CASE level # 0
    <3> DEFINE n == level - 1
    <3>1. n \in Nat /\ n + 1 = level /\ n \in 0 .. HostBits
      BY <1>0, <2>2
    <3>2. down[n] = f[n] /\ down[level] = f[n + 1] /\ f[n] \in Nat
      BY <1>5, <3>1
    <3> HIDE DEF n, down
    <3>3. f[n + 1] = 2 * f[n] + GetDirection(<<n, f[n]>>)
      BY <1>2, <1>5, <3>1, <3>2
    <3>4. down[level] = 2 * down[n] + GetDirection(<<n, down[n]>>)
      BY <3>2, <3>3
    <3> QED BY <2>2, <3>4 DEF n
  <2> QED BY <2>1, <2>2
<1>7. Descends(down)
  <2>1. down = [level \in 0 .. HostBits |-> down[level]]
    OBVIOUS
  <2> HIDE DEF down
  <2> QED BY <1>6, <2>1 DEF Descends
<1> HIDE DEF down
<1> QED BY <1>7 DEF Descends, Descent

\* GetDirection goes one level down.
LEMMA DescendLevel ==
  ASSUME Fullness(dhcpFull), NEW l \in 0 .. HostBits - 1, NEW d, Descended(l, d)
  PROVE  Descended(l + 1, 2 * d + GetDirection(<<l, d>>))
<1>0. /\ HostBits \in Nat /\ l \in Nat /\ l \in 0 .. HostBits /\ l + 1 \in 0 .. HostBits
      /\ d \in Nat /\ d < Pow2[l] /\ <<l, d>> \notin dhcpFull
      /\ Pow2[l] \in Nat /\ Pow2[l + 1] = 2 * Pow2[l]
  BY HostFacts, PowersOfTwo DEF Descended
<1>1. \A h \in DhcpHosts : Prefix(h, l) < d => TrieLeaf(h) \in dhcpFull
  BY DEF Descended
<1>2. ~(<<l + 1, 2 * d>> \in dhcpFull /\ <<l + 1, 2 * d + 1>> \in dhcpFull)
  BY <1>0 DEF Fullness
<1>3. GetDirection(<<l, d>>) = IF <<l + 1, 2 * d>> \in dhcpFull THEN 1 ELSE 0
  <2>1. <<l, d>>[1] = l /\ <<l, d>>[2] = d
    OBVIOUS
  <2> QED BY <2>1 DEF GetDirection
<1>4. \A h \in DhcpHosts : /\ TrieNode(h, l + 1) = <<l + 1, Prefix(h, l + 1)>>
                           /\ Prefix(h, l) \in Nat
                           /\ \/ Prefix(h, l + 1) = 2 * Prefix(h, l)
                              \/ Prefix(h, l + 1) = 2 * Prefix(h, l) + 1
  BY <1>0, PrefixFacts
<1>5. CASE <<l + 1, 2 * d>> \in dhcpFull
  <2>1. ASSUME NEW h \in DhcpHosts, Prefix(h, l + 1) < 2 * d + 1 PROVE TrieLeaf(h) \in dhcpFull
    <3>1. Prefix(h, l) < d \/ Prefix(h, l + 1) = 2 * d
      BY <1>0, <1>4, <2>1
    <3>2. CASE Prefix(h, l) < d
      BY <1>1, <3>2
    <3>3. CASE Prefix(h, l + 1) = 2 * d
      <4>1. TrieNode(h, l + 1) \in dhcpFull
        BY <1>4, <1>5, <3>3
      <4> QED BY <1>0, <4>1, FullBelow
    <3> QED BY <3>1, <3>2, <3>3
  <2>2. 2 * d + 1 \in Nat /\ 2 * d + 1 < Pow2[l + 1]
    BY <1>0
  <2> QED BY <1>2, <1>3, <1>5, <2>1, <2>2 DEF Descended
<1>6. CASE <<l + 1, 2 * d>> \notin dhcpFull
  <2>1. ASSUME NEW h \in DhcpHosts, Prefix(h, l + 1) < 2 * d PROVE TrieLeaf(h) \in dhcpFull
    <3>1. Prefix(h, l) < d
      BY <1>0, <1>4, <2>1
    <3> QED BY <1>1, <3>1
  <2>2. 2 * d \in Nat /\ 2 * d < Pow2[l + 1] /\ 2 * d + 0 = 2 * d
    BY <1>0
  <2> QED BY <1>3, <1>6, <2>1, <2>2 DEF Descended
<1> QED BY <1>5, <1>6

\* No node on the descent is full, SmallestIp is free, and every smaller
\* address is leased.
LEMMA SmallestIpFacts ==
  ASSUME Fullness(dhcpFull), <<0, 0>> \notin dhcpFull
  PROVE  /\ \A level \in 0 .. HostBits : <<level, Descent[level]>> \notin dhcpFull
         /\ SmallestIp \in DhcpHosts /\ TrieLeaf(SmallestIp) \notin dhcpFull
         /\ \A h \in DhcpHosts : h < SmallestIp => TrieLeaf(h) \in dhcpFull
<1>0. HostBits \in Nat
  BY HostFacts
<1> DEFINE down == Descent
<1>1. Descends(down) /\ SmallestIp = down[HostBits]
  BY DescendsExists DEF SmallestIp
<1> HIDE DEF down
<1>2. \A level \in 0 .. HostBits :
        down[level] = IF level = 0 THEN 0
                      ELSE 2 * down[level - 1] + GetDirection(<<level - 1, down[level - 1]>>)
  BY <1>1 DEF Descends
<1> DEFINE Bad == {k \in 0 .. HostBits : ~Descended(k, down[k])}
<1>3. Bad = {}
  <2> SUFFICES ASSUME Bad # {} PROVE FALSE
    OBVIOUS
  <2>1. PICK k \in Bad : \A i \in Bad : k <= i
    <3>1. Bad \subseteq Nat
      BY <1>0
    <3> HIDE DEF Bad
    <3> QED BY <3>1, Smallest
  <2>2. k \in 0 .. HostBits /\ ~Descended(k, down[k])
    OBVIOUS
  <2>3. k # 0
    <3>0. 0 \in 0 .. HostBits
      BY <1>0
    <3>1. down[0] = 0
      <4> HIDE DEF Bad
      <4> QED BY <1>2, <3>0
    <3>2. Descended(0, 0)
      BY <3>1, PowersOfTwo, PrefixFacts DEF Descended
    <3> QED BY <2>2, <3>1, <3>2
  <2>4. k - 1 \in 0 .. HostBits - 1 /\ k - 1 \in 0 .. HostBits /\ k - 1 \notin Bad /\ (k - 1) + 1 = k
    BY <1>0, <2>1, <2>2, <2>3
  <2>5. Descended(k - 1, down[k - 1])
    BY <2>4
  <2>6. Descended((k - 1) + 1, 2 * down[k - 1] + GetDirection(<<k - 1, down[k - 1]>>))
    BY <2>4, <2>5, DescendLevel
  <2>7. down[k] = 2 * down[k - 1] + GetDirection(<<k - 1, down[k - 1]>>)
    BY <1>2, <2>2, <2>3
  <2> QED BY <2>2, <2>4, <2>6, <2>7
<1>4. Descended(HostBits, SmallestIp)
  <2>1. HostBits \in 0 .. HostBits /\ HostBits \notin Bad
    BY <1>0, <1>3
  <2> QED BY <1>1, <2>1
<1>5. SmallestIp \in DhcpHosts
  BY <1>4, HostFacts DEF Descended
<1>6. TrieLeaf(SmallestIp) = <<HostBits, SmallestIp>> /\ \A h \in DhcpHosts : Prefix(h, HostBits) = h
  BY <1>5, PrefixFacts
<1>7. \A level \in 0 .. HostBits : <<level, down[level]>> \notin dhcpFull
  BY <1>3 DEF Descended
<1> QED BY <1>4, <1>5, <1>6, <1>7 DEF Descended, down

-----------------------------------------------------------------------------
(* The inductive invariant *)

\* A node has every node above it.
Whole(V) == \A h \in DhcpHosts, l \in 0 .. HostBits :
              TrieNode(h, l) \in V => \A m \in 0 .. l : TrieNode(h, m) \in V

DhcpInv == /\ dhcpNodes \subseteq Nat \X Nat /\ dhcpFull \subseteq dhcpNodes
           /\ Fullness(dhcpFull) /\ Whole(dhcpNodes)
           /\ TrieLeaf(0) \in dhcpFull /\ TrieLeaf(broadcast) \in dhcpFull

\* The nodes created on the way to a leaf, or to where memory ended.
LEMMA WholeGrows ==
  ASSUME NEW V, Whole(V), V \subseteq Nat \X Nat, NEW h \in DhcpHosts, NEW n \in 0 .. HostBits,
         NEW W, W = V \cup {TrieNode(h, l) : l \in 0 .. n}
  PROVE  Whole(W) /\ W \subseteq Nat \X Nat
<1>0. HostBits \in Nat /\ \A l \in 0 .. n : l \in 0 .. HostBits /\ l \in Nat
  BY HostFacts
<1>1. \A g \in DhcpHosts, l \in 0 .. HostBits :
        Prefix(g, l) \in Nat /\ TrieNode(g, l) = <<l, Prefix(g, l)>>
  BY PrefixFacts
<1>2. W \subseteq Nat \X Nat
  BY <1>0, <1>1
<1>3. ASSUME NEW g \in DhcpHosts, NEW l \in 0 .. HostBits, TrieNode(g, l) \in W, NEW m \in 0 .. l
      PROVE  TrieNode(g, m) \in W
  <2>1. CASE TrieNode(g, l) \in V
    BY <2>1 DEF Whole
  <2>2. ASSUME NEW k \in 0 .. n, TrieNode(g, l) = TrieNode(h, k) PROVE TrieNode(g, m) \in W
    <3>1. k = l /\ Prefix(g, l) = Prefix(h, l)
      BY <1>0, <1>1, <2>2
    <3>2. Prefix(g, m) = Prefix(h, m)
      BY <3>1, SamePath
    <3>3. m \in 0 .. HostBits /\ m \in 0 .. n
      BY <1>0, <3>1
    <3>4. TrieNode(g, m) = TrieNode(h, m)
      BY <1>1, <3>2, <3>3
    <3> QED BY <3>3, <3>4
  <2> QED BY <1>3, <2>1, <2>2
<1>4. Whole(W)
  BY <1>3 DEF Whole
<1> QED BY <1>2, <1>4

\* A leaf is on no path but its own.
LEMMA LeafOnPath ==
  ASSUME NEW h \in DhcpHosts, NEW g \in DhcpHosts, NEW m \in 0 .. HostBits,
         TrieLeaf(g) = TrieNode(h, m)
  PROVE  g = h
<1>1. TrieLeaf(g) = <<HostBits, g>> /\ TrieNode(h, m) = <<m, Prefix(h, m)>>
  BY PrefixFacts
<1>2. <<HostBits, g>> = <<m, Prefix(h, m)>>
  BY <1>1
<1>3. HostBits = m /\ g = Prefix(h, m)
  BY <1>2, Zenon
<1> QED BY <1>3, PrefixFacts

\* The trie of a new server: the paths of the two reserved addresses.
LEMMA DhcpInitInv == DhcpInit => DhcpInv /\ Pool!PoolInit
<1> SUFFICES ASSUME DhcpInit PROVE DhcpInv /\ Pool!PoolInit
  OBVIOUS
<1>0. /\ HostBits \in Nat /\ HostBits \in 0 .. HostBits /\ 0 \in DhcpHosts /\ broadcast \in DhcpHosts
      /\ broadcast \in Nat /\ broadcast >= 3
  BY HostFacts DEF broadcast
<1>1. dhcpFull = {<<HostBits, 0>>, <<HostBits, broadcast>>}
  BY <1>0, PrefixFacts DEF DhcpInit
<1>2. dhcpNodes = TriePath(0) \cup TriePath(broadcast)
  BY DEF DhcpInit
<1>3. Whole(TriePath(0)) /\ TriePath(0) \subseteq Nat \X Nat
  <2>1. Whole({}) /\ {} \subseteq Nat \X Nat
    BY DEF Whole
  <2>2. TriePath(0) = {} \cup {TrieNode(0, l) : l \in 0 .. HostBits}
    BY DEF TriePath
  <2> QED BY <1>0, <2>1, <2>2, WholeGrows
<1>4. Whole(dhcpNodes) /\ dhcpNodes \subseteq Nat \X Nat
  <2>1. dhcpNodes = TriePath(0) \cup {TrieNode(broadcast, l) : l \in 0 .. HostBits}
    BY <1>2 DEF TriePath
  <2> QED BY <1>0, <1>3, <2>1, WholeGrows
<1>5. dhcpFull = {TrieLeaf(0), TrieLeaf(broadcast)}
  BY DEF DhcpInit
<1>6. dhcpFull \subseteq dhcpNodes
  BY <1>0, <1>2, <1>5 DEF TriePath, TrieLeaf
<1>7. Fullness(dhcpFull)
  <2> SUFFICES ASSUME NEW l \in 0 .. HostBits - 1, NEW k \in Nat
               PROVE  /\ <<l, k>> \notin dhcpFull
                      /\ ~(<<l + 1, 2 * k>> \in dhcpFull /\ <<l + 1, 2 * k + 1>> \in dhcpFull)
    BY DEF Fullness
  <2>1. l # HostBits
    BY <1>0
  <2>2. \A j : <<l + 1, j>> \in dhcpFull => j = 0 \/ j = broadcast
    BY <1>1
  <2> QED BY <1>0, <1>1, <2>1, <2>2
<1>8. dhcpLeased = {0, broadcast}
  <2>1. \A h \in DhcpHosts : TrieLeaf(h) = <<HostBits, h>>
    BY PrefixFacts
  <2>2. \A h \in DhcpHosts : TrieLeaf(h) \in dhcpFull <=> h = 0 \/ h = broadcast
    <3>1. \A h : <<HostBits, h>> \in dhcpFull <=> h = 0 \/ h = broadcast
      BY <1>1, Zenon
    <3> QED BY <2>1, <3>1
  <2>3. \A h : h \in dhcpLeased <=> h = 0 \/ h = broadcast
    BY <1>0, <2>2 DEF dhcpLeased
  <2> QED BY <2>3
<1>9. Pool!PoolInit
  BY <1>8 DEF DhcpInit, Pool!PoolInit
<1> QED BY <1>4, <1>5, <1>6, <1>7, <1>9 DEF DhcpInv

\* AllocateSpecificIp with memory: one lease more.
LEMMA TakeStep ==
  ASSUME DhcpInv, NEW h \in DhcpHosts, TakeIp(h)
  PROVE  DhcpInv' /\ dhcpLeased' = dhcpLeased \cup {h}
<1>0. HostBits \in Nat /\ HostBits \in 0 .. HostBits
  BY HostFacts
<1>1. /\ dhcpNodes' = dhcpNodes \cup {TrieNode(h, l) : l \in 0 .. HostBits}
      /\ dhcpFull' = Occupy(h)
  BY DEF TakeIp, TriePath
<1>2. Whole(dhcpNodes') /\ dhcpNodes' \subseteq Nat \X Nat
  BY <1>0, <1>1, WholeGrows DEF DhcpInv
<1>3. Marked(h, 0, dhcpFull, dhcpFull')
  BY <1>1, OccupyFacts DEF DhcpInv
<1>4. /\ dhcpFull \subseteq dhcpFull' /\ TrieLeaf(h) \in dhcpFull'
      /\ dhcpFull' \subseteq dhcpFull \cup {TrieNode(h, m) : m \in 0 .. HostBits}
      /\ Fullness(dhcpFull')
  BY <1>3 DEF Marked, Fullness
<1>5. dhcpFull' \subseteq dhcpNodes'
  BY <1>1, <1>4 DEF DhcpInv
<1>6. DhcpInv'
  BY <1>2, <1>4, <1>5 DEF DhcpInv, Whole, Fullness, TrieLeaf, TrieNode, broadcast, DhcpHosts
<1>7. ASSUME NEW g \in DhcpHosts
      PROVE  TrieLeaf(g) \in dhcpFull' <=> TrieLeaf(g) \in dhcpFull \/ g = h
  BY <1>4, LeafOnPath
<1>8. dhcpLeased' = {g \in DhcpHosts : TrieLeaf(g) \in dhcpFull'}
  BY DEF dhcpLeased
<1> QED BY <1>6, <1>7, <1>8 DEF dhcpLeased

\* AllocateSpecificIp without: what was created stays, nothing is leased.
LEMMA FailStep ==
  ASSUME DhcpInv, NEW h \in DhcpHosts, AllocateFails(h)
  PROVE  DhcpInv' /\ dhcpLeased' = dhcpLeased
<1>0. HostBits \in Nat
  BY HostFacts
<1>1. PICK n \in 0 .. HostBits - 1 : dhcpNodes' = dhcpNodes \cup {TrieNode(h, l) : l \in 0 .. n}
  BY DEF AllocateFails
<1>2. n \in 0 .. HostBits /\ dhcpFull' = dhcpFull
  <2>1. n \in 0 .. HostBits
    BY <1>0
  <2>2. dhcpFull' = dhcpFull
    BY DEF AllocateFails
  <2> QED BY <2>1, <2>2
<1>3. Whole(dhcpNodes') /\ dhcpNodes' \subseteq Nat \X Nat
  BY <1>1, <1>2, WholeGrows DEF DhcpInv
<1>4. dhcpFull' \subseteq dhcpNodes' /\ Fullness(dhcpFull')
  BY <1>1, <1>2 DEF DhcpInv
<1>5. DhcpInv'
  BY <1>2, <1>3, <1>4 DEF DhcpInv, Whole, Fullness, TrieLeaf, TrieNode, broadcast, DhcpHosts
<1> QED BY <1>2, <1>5 DEF dhcpLeased

\* FreeIp: nothing on the path is full any more, and one lease ends.
LEMMA FreeStep ==
  ASSUME DhcpInv, NEW h \in DhcpHosts \ {0, broadcast}, FreeIp(h), dhcpNodes' = dhcpNodes
  PROVE  DhcpInv' /\ dhcpLeased' = dhcpLeased \ {h}
<1>0. HostBits \in Nat /\ HostBits \in 0 .. HostBits /\ 0 \in DhcpHosts /\ broadcast \in DhcpHosts
  BY HostFacts
<1>1. dhcpFull' = dhcpFull \ {TrieNode(h, m) : m \in 0 .. HostBits}
  BY DEF FreeIp, TriePath
<1>2. \A m \in 0 .. HostBits : TrieNode(h, m) = <<m, Prefix(h, m)>> /\ Prefix(h, m) \in Nat
  BY PrefixFacts
<1>3. \A m \in 0 .. HostBits : \A j : <<m, j>> \in dhcpFull' <=> <<m, j>> \in dhcpFull /\ j # Prefix(h, m)
  BY <1>1, <1>2
<1>4. Fullness(dhcpFull')
  <2> SUFFICES ASSUME NEW l \in 0 .. HostBits - 1, NEW k \in Nat
               PROVE  <<l, k>> \in dhcpFull' <=> /\ <<l + 1, 2 * k>> \in dhcpFull'
                                                 /\ <<l + 1, 2 * k + 1>> \in dhcpFull'
    BY DEF Fullness
  <2>1. l \in 0 .. HostBits /\ l + 1 \in 0 .. HostBits
    BY <1>0
  <2>2. <<l, k>> \in dhcpFull <=> <<l + 1, 2 * k>> \in dhcpFull /\ <<l + 1, 2 * k + 1>> \in dhcpFull
    BY DEF DhcpInv, Fullness
  <2>3. /\ Prefix(h, l) \in Nat
        /\ Prefix(h, l + 1) = 2 * Prefix(h, l) \/ Prefix(h, l + 1) = 2 * Prefix(h, l) + 1
    BY <2>1, PrefixFacts
  <2>4. k = Prefix(h, l) <=> 2 * k = Prefix(h, l + 1) \/ 2 * k + 1 = Prefix(h, l + 1)
    BY <2>3
  <2> QED BY <1>3, <2>1, <2>2, <2>4
<1>5. ASSUME NEW g \in DhcpHosts
      PROVE  TrieLeaf(g) \in dhcpFull' <=> TrieLeaf(g) \in dhcpFull /\ g # h
  <2>1. TrieLeaf(h) = TrieNode(h, HostBits)
    BY DEF TrieLeaf
  <2> QED BY <1>0, <1>1, <2>1, LeafOnPath
<1>6. dhcpFull' \subseteq dhcpNodes'
  BY <1>1 DEF DhcpInv
<1>7. TrieLeaf(0) \in dhcpFull' /\ TrieLeaf(broadcast) \in dhcpFull'
  BY <1>0, <1>5 DEF DhcpInv
<1>8. DhcpInv'
  BY <1>4, <1>6, <1>7 DEF DhcpInv, Whole, Fullness, TrieLeaf, TrieNode, broadcast, DhcpHosts
<1>9. dhcpLeased' = {g \in DhcpHosts : TrieLeaf(g) \in dhcpFull'}
  BY DEF dhcpLeased
<1> QED BY <1>5, <1>8, <1>9 DEF dhcpLeased

\* IsOccupied finds every lease, and mistakes only addresses whose leaf is missing.
LEMMA OccupiedFacts ==
  ASSUME DhcpInv, NEW h \in DhcpHosts
  PROVE  /\ TrieLeaf(h) \in dhcpFull => IsOccupied(h)
         /\ IsOccupied(h) /\ TrieLeaf(h) \in dhcpNodes => TrieLeaf(h) \in dhcpFull
<1>0. HostBits \in Nat /\ HostBits \in 0 .. HostBits
  BY HostFacts
<1>1. ASSUME TrieLeaf(h) \in dhcpFull PROVE IsOccupied(h)
  <2>1. TrieNode(h, HostBits) \in dhcpFull /\ TrieNode(h, HostBits) \in dhcpNodes
    BY <1>1 DEF DhcpInv, TrieLeaf
  <2>2. \A l \in 0 .. HostBits : TrieNode(h, l) \in dhcpNodes
    BY <1>0, <2>1 DEF DhcpInv, Whole
  <2> QED BY <1>0, <2>1, <2>2 DEF IsOccupied
<1>2. ASSUME IsOccupied(h), TrieLeaf(h) \in dhcpNodes PROVE TrieLeaf(h) \in dhcpFull
  <2>1. PICK l \in 0 .. HostBits : TrieNode(h, l) \in dhcpFull
    BY <1>2 DEF IsOccupied
  <2> QED BY <2>1, FullBelow DEF DhcpInv
<1> QED BY <1>1, <1>2

\* AllocateSmallestIp leases the smallest free address, or finds that there is
\* none, or has no memory.
LEMMA AllocateSmallestStep ==
  ASSUME DhcpInv, AllocateSmallestIp
  PROVE  DhcpInv' /\ (Pool!LeaseLeast \/ Pool!Exhausted \/ Pool!OutOfMemory)
<1>0. HostBits \in Nat /\ 0 \in 0 .. HostBits
  BY HostFacts
<1>1. CASE <<0, 0>> \in dhcpFull
  <2>1. Descent[0] = 0
    BY <1>0, DescendsExists DEF Descends
  <2>2. dhcpAnswer' = <<"MALLOC_FAILURE", 0>> /\ dhcpNodes' = dhcpNodes /\ dhcpFull' = dhcpFull
    BY <1>0, <1>1, <2>1 DEF AllocateSmallestIp
  <2>3. \A h \in DhcpHosts : TrieNode(h, 0) = <<0, 0>>
    BY PrefixFacts
  <2>4. \A h \in DhcpHosts : TrieLeaf(h) \in dhcpFull
    BY <1>0, <1>1, <2>3, FullBelow DEF DhcpInv
  <2>5. Pool!Free = {}
    BY <2>4 DEF Pool!Free, dhcpLeased
  <2>6. DhcpInv' /\ dhcpLeased' = dhcpLeased
    BY <2>2 DEF DhcpInv, dhcpLeased, Whole, Fullness
  <2>7. dhcpAnswer'[1] = "MALLOC_FAILURE"
    BY <2>2
  <2> QED BY <2>5, <2>6, <2>7 DEF Pool!Exhausted
<1>2. CASE <<0, 0>> \notin dhcpFull
  <2> DEFINE h == SmallestIp
  <2>1. TakeIp(h) \/ AllocateFails(h)
    BY <1>2, SmallestIpFacts DEF AllocateSmallestIp, DhcpInv
  <2>2. /\ h \in DhcpHosts /\ TrieLeaf(h) \notin dhcpFull
        /\ \A g \in DhcpHosts : g < h => TrieLeaf(g) \in dhcpFull
    BY <1>2, SmallestIpFacts DEF DhcpInv
  <2> HIDE DEF h
  <2>3. /\ h \in Pool!Free /\ h \in Nat
        /\ \A g \in Pool!Free : g \in Nat /\ ~(g < h)
    BY <2>2, HostFacts DEF Pool!Free, dhcpLeased
  <2>4. Pool!Min(Pool!Free) = h
    <3>1. \A g \in Pool!Free : h <= g
      BY <2>3
    <3>2. \A x \in Pool!Free : (\A g \in Pool!Free : x <= g) => x = h
      BY <2>3
    <3> HIDE DEF Pool!Free
    <3> QED BY <2>3, <3>1, <3>2 DEF Pool!Min
  <2>5. CASE TakeIp(h)
    <3>1. DhcpInv' /\ dhcpLeased' = dhcpLeased \cup {h}
      BY <2>2, <2>5, TakeStep
    <3>2. dhcpAnswer' = <<"SUCCESS", h>>
      BY <2>5 DEF TakeIp
    <3> QED BY <2>3, <2>4, <3>1, <3>2 DEF Pool!LeaseLeast, Pool!Lease
  <2>6. CASE AllocateFails(h)
    <3>1. DhcpInv' /\ dhcpLeased' = dhcpLeased
      BY <2>2, <2>6, FailStep
    <3>2. dhcpAnswer'[1] = "no memory"
      BY <2>6 DEF AllocateFails
    <3> QED BY <3>1, <3>2 DEF Pool!OutOfMemory
  <2> QED BY <2>1, <2>5, <2>6
<1> QED BY <1>1, <1>2

\* A number that IsOccupied holds for is leased, or its leaf alone is missing.
LEMMA OccupiedMeans ==
  ASSUME DhcpInv, NEW h \in DhcpHosts, IsOccupied(h)
  PROVE  h \in dhcpLeased \/ OnlyLeafMissing(h)
<1>1. CASE TrieLeaf(h) \in dhcpNodes
  BY <1>1, OccupiedFacts DEF dhcpLeased
<1>2. CASE TrieLeaf(h) \notin dhcpNodes
  <2>1. ASSUME NEW l \in 0 .. HostBits, TrieNode(h, l) \in dhcpFull PROVE FALSE
    BY <1>2, <2>1, FullBelow DEF DhcpInv
  <2> QED BY <2>1 DEF IsOccupied, OnlyLeafMissing
<1> QED BY <1>1, <1>2

\* The number that is called by its network's name.
LEMMA NamedFacts ==
  ASSUME NEW ip \in Nat
  PROVE  /\ ReqIp(ip) \in DhcpHosts /\ NoHost \notin DhcpHosts
         /\ Named(ip) = ReqIp(ip) \/ Named(ip) = NoHost
BY HostFacts DEF Named, NoHost

\* DhcpAllocateIp is a step of the pool, or deviates from it.
LEMMA AllocateStep ==
  ASSUME DhcpInv, NEW ip \in Nat, DhcpAllocateIp(ip)
  PROVE  DhcpInv' /\ (Pool!PoolNext \/ Deviates)
<1> DEFINE h == ReqIp(ip)
<1>1. /\ h \in DhcpHosts /\ NoHost \notin DhcpHosts
      /\ dhcpAsked' = h \/ dhcpAsked' = NoHost
  BY NamedFacts DEF DhcpAllocateIp
<1>2. \/ AllocateSmallestIp /\ (ip = 0 \/ IsOccupied(h))
      \/ ~IsOccupied(h) /\ (TakeIp(h) \/ AllocateFails(h))
  BY DEF DhcpAllocateIp, AllocateSpecificIp
<1>3. ip = 0 => h = 0
  BY HostFacts DEF ReqIp
<1> HIDE DEF h
<1>4. CASE AllocateSmallestIp /\ (ip = 0 \/ IsOccupied(h))
  <2>1. DhcpInv' /\ (Pool!LeaseLeast \/ Pool!Exhausted \/ Pool!OutOfMemory)
    BY <1>4, AllocateSmallestStep
  <2>2. h \in dhcpLeased \/ OnlyLeafMissing(h)
    BY <1>1, <1>3, <1>4, OccupiedMeans DEF DhcpInv, dhcpLeased
  <2>3. CASE dhcpAsked' \notin Pool!Free
    BY <2>1, <2>3 DEF Pool!PoolNext, Pool!LeaseSmallest
  <2>4. CASE dhcpAsked' \in Pool!Free
    <3>1. dhcpAsked' = h /\ h \notin dhcpLeased
      BY <1>1, <2>4 DEF Pool!Free
    <3>2. OnlyLeafMissing(dhcpAsked')
      BY <2>2, <3>1
    <3> QED BY <1>1, <2>1, <3>1, <3>2 DEF Deviates, Pool!PoolNext
  <2> QED BY <2>3, <2>4
<1>5. CASE ~IsOccupied(h) /\ TakeIp(h)
  <2>1. h \in Pool!Free
    BY <1>1, <1>5, OccupiedFacts DEF Pool!Free, dhcpLeased
  <2>2. DhcpInv' /\ dhcpLeased' = dhcpLeased \cup {h}
    BY <1>1, <1>5, TakeStep
  <2>3. dhcpAnswer' = <<"SUCCESS", h>>
    BY <1>5 DEF TakeIp
  <2>4. Pool!Lease(h)
    BY <2>1, <2>2, <2>3 DEF Pool!Lease
  <2>5. CASE dhcpAsked' = h
    BY <2>1, <2>2, <2>4, <2>5 DEF Pool!PoolNext, Pool!LeaseNamed
  <2>6. CASE dhcpAsked' = NoHost
    BY <1>1, <2>2, <2>4, <2>6 DEF Deviates
  <2> QED BY <1>1, <2>5, <2>6
<1>6. CASE AllocateFails(h)
  <2>1. DhcpInv' /\ dhcpLeased' = dhcpLeased
    BY <1>1, <1>6, FailStep
  <2>2. dhcpAnswer'[1] = "no memory"
    BY <1>6 DEF AllocateFails
  <2>3. Pool!OutOfMemory
    BY <2>1, <2>2 DEF Pool!OutOfMemory
  <2> QED BY <2>1, <2>3 DEF Pool!PoolNext
<1> QED BY <1>2, <1>4, <1>5, <1>6

\* DhcpFreeIp is a step of the pool, or deviates from it.
LEMMA DhcpFreeStep ==
  ASSUME DhcpInv, NEW ip \in Nat, DhcpFreeIp(ip)
  PROVE  DhcpInv' /\ (Pool!PoolNext \/ Deviates)
<1> DEFINE h == ReqIp(ip)
<1>1. /\ h \in DhcpHosts /\ NoHost \notin DhcpHosts /\ dhcpNodes' = dhcpNodes
      /\ dhcpAsked' = h \/ dhcpAsked' = NoHost
  BY NamedFacts DEF DhcpFreeIp
<1>2. \/ h \in {0, broadcast} /\ dhcpAnswer' = <<"FREE_FAILURE", 0>> /\ dhcpFull' = dhcpFull
      \/ ~IsOccupied(h) /\ dhcpAnswer' = <<"DOUBLE_FREE", 0>> /\ dhcpFull' = dhcpFull
      \/ /\ h \notin {0, broadcast} /\ IsOccupied(h) /\ TrieLeaf(h) \in dhcpNodes
         /\ FreeIp(h) /\ dhcpAnswer' = <<"freed", h>>
      \/ /\ IsOccupied(h) /\ TrieLeaf(h) \notin dhcpNodes
         /\ dhcpAnswer' = <<"crash", 0>> /\ dhcpFull' = dhcpFull
  BY DEF DhcpFreeIp
<1> HIDE DEF h
<1>3. ASSUME dhcpFull' = dhcpFull PROVE DhcpInv' /\ dhcpLeased' = dhcpLeased
  BY <1>1, <1>3 DEF DhcpInv, dhcpLeased, Whole, Fullness
<1>4. CASE h \in {0, broadcast} /\ dhcpAnswer' = <<"FREE_FAILURE", 0>> /\ dhcpFull' = dhcpFull
  <2>1. dhcpAnswer'[1] = "FREE_FAILURE" /\ dhcpAsked' \notin DhcpHosts \ {0, broadcast}
    BY <1>1, <1>4
  <2>2. Pool!ReleaseOther
    BY <1>3, <1>4, <2>1 DEF Pool!ReleaseOther
  <2> QED BY <1>3, <1>4, <2>2 DEF Pool!PoolNext
<1>5. CASE ~IsOccupied(h) /\ dhcpAnswer' = <<"DOUBLE_FREE", 0>> /\ dhcpFull' = dhcpFull
  <2>1. dhcpAnswer'[1] = "DOUBLE_FREE" /\ h \in Pool!Free /\ dhcpLeased' = dhcpLeased
    BY <1>1, <1>3, <1>5, OccupiedFacts DEF Pool!Free, dhcpLeased
  <2>2. CASE dhcpAsked' = h
    BY <1>3, <1>5, <2>1, <2>2 DEF Pool!PoolNext, Pool!ReleaseFree
  <2>3. CASE dhcpAsked' = NoHost
    BY <1>3, <1>5, <2>1, <2>3 DEF Deviates
  <2> QED BY <1>1, <2>2, <2>3
<1>6. CASE /\ h \notin {0, broadcast} /\ IsOccupied(h) /\ TrieLeaf(h) \in dhcpNodes
           /\ FreeIp(h) /\ dhcpAnswer' = <<"freed", h>>
  <2>1. h \in dhcpLeased \ {0, broadcast}
    BY <1>1, <1>6, OccupiedFacts DEF dhcpLeased
  <2>2. DhcpInv' /\ dhcpLeased' = dhcpLeased \ {h}
    BY <1>1, <1>6, FreeStep
  <2>3. Pool!GiveBack(h)
    BY <1>6, <2>1, <2>2 DEF Pool!GiveBack
  <2>4. CASE dhcpAsked' = h
    BY <2>2, <2>3, <2>4 DEF Pool!PoolNext, Pool!Release
  <2>5. CASE dhcpAsked' = NoHost
    BY <1>1, <2>2, <2>3, <2>5 DEF Deviates
  <2> QED BY <1>1, <2>4, <2>5
<1>7. CASE /\ IsOccupied(h) /\ TrieLeaf(h) \notin dhcpNodes
           /\ dhcpAnswer' = <<"crash", 0>> /\ dhcpFull' = dhcpFull
  <2>1. h \notin dhcpLeased
    BY <1>7 DEF DhcpInv, dhcpLeased
  <2>2. OnlyLeafMissing(h)
    BY <1>1, <1>7, <2>1, OccupiedMeans
  <2>3. dhcpAnswer'[1] = "crash"
    BY <1>7
  <2>4. Crashes
    BY <1>3, <1>7, <2>3 DEF Crashes
  <2>5. CASE dhcpAsked' = h
    BY <1>1, <1>3, <1>7, <2>2, <2>4, <2>5 DEF Deviates
  <2>6. CASE dhcpAsked' = NoHost
    BY <1>1, <1>3, <1>7, <2>2, <2>4, <2>6 DEF Deviates
  <2> QED BY <1>1, <2>5, <2>6
<1> QED BY <1>2, <1>4, <1>5, <1>6, <1>7

\* Every step of the trie keeps its invariant, and is a step of the pool or deviates.
LEMMA DhcpStep ==
  DhcpInv /\ [DhcpNext]_dhcpVars =>
    DhcpInv' /\ [Pool!PoolNext \/ Deviates]_<<dhcpLeased, dhcpAsked, dhcpAnswer>>
<1> SUFFICES ASSUME DhcpInv, [DhcpNext]_dhcpVars
             PROVE  DhcpInv' /\ [Pool!PoolNext \/ Deviates]_<<dhcpLeased, dhcpAsked, dhcpAnswer>>
  OBVIOUS
<1>1. CASE DhcpNext
  <2>1. Pow2[IP_LENGTH] \in Nat
    BY DhcpAssumption, PowersOfTwo
  <2>2. PICK ip \in 0 .. Pow2[IP_LENGTH] - 1 : DhcpAllocateIp(ip) \/ DhcpFreeIp(ip)
    BY <1>1 DEF DhcpNext
  <2>3. ip \in Nat
    BY <2>1
  <2> QED BY <2>2, <2>3, AllocateStep, DhcpFreeStep
<1>2. CASE UNCHANGED dhcpVars
  BY <1>2 DEF dhcpVars, DhcpInv, dhcpLeased, Whole, Fullness
<1> QED BY <1>1, <1>2

(***************************************************************************)
(* The inductive invariant of the trie (ds/dhcp/dhcp.c): a node is there   *)
(* with every node above it, and is_full of an inner node is set exactly   *)
(* if it is set in both its relatives, for any number of host bits and     *)
(* after any allocations, releases and failures of malloc.                 *)
(***************************************************************************)
THEOREM TrieInvariance == DhcpSpec => []DhcpInv
<1>1. DhcpInit => DhcpInv
  BY DhcpInitInv
<1>2. DhcpInv /\ [DhcpNext]_dhcpVars => DhcpInv'
  BY DhcpStep
<1> QED BY <1>1, <1>2, PTL DEF DhcpSpec

(***************************************************************************)
(* For any number of host bits and after any calls and failures of malloc  *)
(* the trie does what dhcp.h promises of a pool of addresses, or takes one *)
(* of the steps that Deviates names: a free address whose leaf alone is    *)
(* missing is refused and its release crashes (dhcp.c:236, 366-372), and   *)
(* the network's number of an address is not looked at (dhcp.c:165, 347).  *)
(* So the descent of AllocateSmallestIp ends at the smallest address that  *)
(* is free, no address is leased twice, and none is refused while one is   *)
(* free.                                                                   *)
(***************************************************************************)
THEOREM TrieIsAPool == DhcpSpec => DhcpImplementsPool
<1>1. DhcpInit => Pool!PoolInit
  BY DhcpInitInv
<1>2. DhcpInv /\ [DhcpNext]_dhcpVars =>
        [Pool!PoolNext \/ Deviates]_<<dhcpLeased, dhcpAsked, dhcpAnswer>>
  BY DhcpStep
<1> QED BY <1>1, <1>2, TrieInvariance, PTL DEF DhcpSpec, DhcpImplementsPool

-----------------------------------------------------------------------------
(* The BIOS update *)

\* What compare_bios_versions calls an update is an order: by the first field
\* that differs, or of a version before the longer ones it begins.
Earlier(a, b) ==
  \/ \E p \in 1 .. Len(a) : /\ p <= Len(b) /\ lower_than(a[p], b[p])
                            /\ \A i \in 1 .. p - 1 : a[i] = b[i]
  \/ Len(a) < Len(b) /\ \A i \in 1 .. Len(a) : a[i] = b[i]

\* An update is to a later version.
LEMMA UpdateIsLater ==
  ASSUME NEW a \in BiosVersions, NEW b \in BiosVersions, compare_bios_versions(a, b) = 1
  PROVE  Earlier(a, b)
<1> DEFINE differ == {i \in 1 .. Len(a) : a[i] # b[i]}
           first == CHOOSE i \in differ : \A j \in differ : i <= j
<1>0. Len(a) \in Nat /\ Len(b) \in Nat
  <2>1. a \in Seq(Nat \X Nat) /\ b \in Seq(Nat \X Nat)
    BY VersionsAssumption
  <2> QED BY <2>1, LenProperties
<1>1. /\ Len(a) <= Len(b)
      /\ differ = {} => Len(a) < Len(b)
      /\ differ # {} => lower_than(a[first], b[first])
  <2> DEFINE C == compare_bios_versions(a, b)
  <2>1. C = CASE Len(a) > Len(b) -> 2
              [] Len(a) <= Len(b) /\ differ = {} -> IF Len(a) < Len(b) THEN 1 ELSE 0
              [] OTHER -> IF ~Comparable(a[first], b[first]) THEN 3
                          ELSE IF lower_than(a[first], b[first]) THEN 1 ELSE -1
    BY DEF compare_bios_versions
  <2>2. C = 1
    OBVIOUS
  <2> HIDE DEF C, differ, first
  <2>3. CASE Len(a) > Len(b)
    BY <1>0, <2>1, <2>2, <2>3
  <2>4. CASE Len(a) <= Len(b) /\ differ = {}
    <3>1. C = IF Len(a) < Len(b) THEN 1 ELSE 0
      BY <1>0, <2>1, <2>4
    <3> QED BY <2>2, <2>4, <3>1
  <2>5. CASE Len(a) <= Len(b) /\ differ # {}
    <3>1. C = IF ~Comparable(a[first], b[first]) THEN 3
              ELSE IF lower_than(a[first], b[first]) THEN 1 ELSE -1
      BY <1>0, <2>1, <2>5
    <3> QED BY <2>2, <2>5, <3>1
  <2> QED BY <1>0, <2>3, <2>4, <2>5
<1>2. CASE differ = {}
  BY <1>1, <1>2 DEF Earlier
<1>3. CASE differ # {}
  <2>1. \E i \in differ : \A j \in differ : i <= j
    <3>1. differ \subseteq Nat
      BY <1>0
    <3> HIDE DEF differ
    <3> QED BY <1>3, <3>1, Smallest
  <2>2. first \in differ /\ \A j \in differ : first <= j
    <3> HIDE DEF differ
    <3> QED BY <2>1
  <2>3. first \in 1 .. Len(a) /\ first <= Len(b)
    BY <1>0, <1>1, <2>2
  <2>4. \A i \in 1 .. first - 1 : a[i] = b[i]
    <3> SUFFICES ASSUME NEW i \in 1 .. first - 1, a[i] # b[i] PROVE FALSE
      OBVIOUS
    <3>1. i \in 1 .. Len(a) /\ ~(first <= i)
      BY <1>0, <2>3
    <3>2. i \in differ
      BY <3>1
    <3> QED BY <2>2, <3>1, <3>2
  <2> HIDE DEF differ, first
  <2> QED BY <1>1, <1>3, <2>3, <2>4 DEF Earlier
<1> QED BY <1>2, <1>3

\* The fields of a version.
LEMMA FieldFacts ==
  ASSUME NEW a \in BiosVersions
  PROVE  Len(a) \in Nat /\ \A i \in 1 .. Len(a) : a[i] \in Nat \X Nat
<1>1. a \in Seq(Nat \X Nat)
  BY VersionsAssumption
<1> QED BY <1>1, ElementOfSeq, LenProperties

\* The order has no cycles.
LEMMA LaterIsAnOrder ==
  ASSUME NEW a \in BiosVersions
  PROVE  /\ ~Earlier(a, a)
         /\ \A b, c \in BiosVersions : Earlier(a, b) /\ Earlier(b, c) => Earlier(a, c)
<1>1. /\ \A x \in Nat \X Nat : ~lower_than(x, x)
      /\ \A x, y, z \in Nat \X Nat : lower_than(x, y) /\ lower_than(y, z) => lower_than(x, z)
  BY DEF lower_than
<1>2. ~Earlier(a, a)
  <2>1. Len(a) \in Nat /\ \A i \in 1 .. Len(a) : a[i] \in Nat \X Nat
    BY FieldFacts
  <2> QED BY <1>1, <2>1 DEF Earlier
<1>3. ASSUME NEW b \in BiosVersions, NEW c \in BiosVersions, Earlier(a, b), Earlier(b, c)
      PROVE  Earlier(a, c)
  <2>0. /\ Len(a) \in Nat /\ Len(b) \in Nat /\ Len(c) \in Nat
        /\ \A i \in 1 .. Len(a) : a[i] \in Nat \X Nat
        /\ \A i \in 1 .. Len(b) : b[i] \in Nat \X Nat
        /\ \A i \in 1 .. Len(c) : c[i] \in Nat \X Nat
    BY FieldFacts
  <2>1. CASE Len(a) < Len(b) /\ \A i \in 1 .. Len(a) : a[i] = b[i]
    <3>1. CASE Len(b) < Len(c) /\ \A i \in 1 .. Len(b) : b[i] = c[i]
      BY <2>0, <2>1, <3>1 DEF Earlier
    <3>2. ASSUME NEW q \in 1 .. Len(b), q <= Len(c), lower_than(b[q], c[q]),
                 \A i \in 1 .. q - 1 : b[i] = c[i]
          PROVE  Earlier(a, c)
      <4>1. CASE q <= Len(a)
        <5>1. q \in 1 .. Len(a) /\ lower_than(a[q], c[q])
          BY <2>0, <2>1, <3>2, <4>1
        <5>2. \A i \in 1 .. q - 1 : a[i] = c[i]
          BY <2>0, <2>1, <3>2, <4>1
        <5> QED BY <3>2, <5>1, <5>2 DEF Earlier
      <4>2. CASE Len(a) < q
        <5>1. Len(a) < Len(c) /\ \A i \in 1 .. Len(a) : a[i] = c[i]
          BY <2>0, <2>1, <3>2, <4>2
        <5> QED BY <5>1 DEF Earlier
      <4> QED BY <2>0, <4>1, <4>2
    <3> QED BY <1>3, <3>1, <3>2 DEF Earlier
  <2>2. ASSUME NEW p \in 1 .. Len(a), p <= Len(b), lower_than(a[p], b[p]),
               \A i \in 1 .. p - 1 : a[i] = b[i]
        PROVE  Earlier(a, c)
    <3>1. CASE Len(b) < Len(c) /\ \A i \in 1 .. Len(b) : b[i] = c[i]
      <4>1. p <= Len(c) /\ lower_than(a[p], c[p]) /\ \A i \in 1 .. p - 1 : a[i] = c[i]
        BY <2>0, <2>2, <3>1
      <4> QED BY <4>1 DEF Earlier
    <3>2. ASSUME NEW q \in 1 .. Len(b), q <= Len(c), lower_than(b[q], c[q]),
                 \A i \in 1 .. q - 1 : b[i] = c[i]
          PROVE  Earlier(a, c)
      <4>1. CASE p < q
        <5>1. p <= Len(c) /\ lower_than(a[p], c[p]) /\ \A i \in 1 .. p - 1 : a[i] = c[i]
          BY <2>0, <2>2, <3>2, <4>1
        <5> QED BY <5>1 DEF Earlier
      <4>2. CASE p = q
        <5>1. p \in 1 .. Len(b) /\ p \in 1 .. Len(c)
          BY <2>0, <2>2, <3>2, <4>2
        <5>2. a[p] \in Nat \X Nat /\ b[p] \in Nat \X Nat /\ c[p] \in Nat \X Nat
          BY <2>0, <5>1
        <5>3. lower_than(a[p], c[p])
          BY <1>1, <2>2, <3>2, <4>2, <5>2
        <5>4. \A i \in 1 .. p - 1 : a[i] = c[i]
          BY <2>2, <3>2, <4>2
        <5> QED BY <3>2, <4>2, <5>3, <5>4 DEF Earlier
      <4>3. CASE q < p
        <5>1. q \in 1 .. Len(a) /\ lower_than(a[q], c[q]) /\ \A i \in 1 .. q - 1 : a[i] = c[i]
          BY <2>0, <2>2, <3>2, <4>3
        <5> QED BY <3>2, <5>1 DEF Earlier
      <4> QED BY <2>0, <4>1, <4>2, <4>3
    <3> QED BY <1>3, <3>1, <3>2 DEF Earlier
  <2> QED BY <1>3, <2>1, <2>2 DEF Earlier
<1> QED BY <1>2, <1>3

\* A password the next run will find.
PasswordKnown == password \in {Default, Blank} \/ (customPassword /\ password = Custom)

\* The service has the right password in hand from the check on, and only in
\* the middle of changing it may the machine have one that no run knows.
PasswordInHand ==
  /\ updateAt \in {"off", "password", "finally", "flash", "dance", "default"}
  /\ updateAt \in {"flash", "dance", "default"} => password = biosPasswordInUse
  /\ updateAt \notin {"dance", "default"} /\ pwSmooth /\ pwStart # Unknown => PasswordKnown

\* What was installed without force goes up, and an update that is under way
\* without force goes further up.
VersionsGoUp ==
  /\ installed \in BiosVersions /\ candidate \in BiosVersions
  /\ seenVersions \in Seq(BiosVersions)
  /\ \A i, j \in 1 .. Len(seenVersions) : i < j => Earlier(seenVersions[i], seenVersions[j])
  /\ seenVersions # <<>> => seenVersions[Len(seenVersions)] = installed
  /\ updateAt \in {"password", "flash"} /\ seenVersions # <<>> =>
       compare_bios_versions(installed, candidate) = 1

UpdateInv == PasswordInHand /\ VersionsGoUp

\* The service starts right.
LEMMA UpdateStartsRight == UpdateStart => UpdateInv
<1> SUFFICES ASSUME UpdateStart PROVE UpdateInv
  OBVIOUS
<1>1. PasswordInHand
  BY DEF UpdateStart, PasswordInHand, Unknown
<1>2. VersionsGoUp
  <2>1. installed \in BiosVersions /\ candidate \in BiosVersions
        /\ seenVersions = <<installed>> /\ updateAt = "off"
    BY DEF UpdateStart
  <2>2. seenVersions \in Seq(BiosVersions) /\ Len(seenVersions) = 1 /\ seenVersions[1] = installed
    BY <2>1
  <2> QED BY <2>1, <2>2 DEF VersionsGoUp
<1> QED BY <1>1, <1>2 DEF UpdateInv

\* Every step keeps the password in hand.
LEMMA PasswordStays ==
  ASSUME PasswordInHand, [BiosUpdateNext]_updateVars
  PROVE  PasswordInHand'
<1>1. CASE is_update_available
  BY <1>1 DEF PasswordInHand, PasswordKnown, is_update_available, KeepsPassword, UpdGoto
<1>2. CASE check_bios_password
  BY <1>2 DEF PasswordInHand, PasswordKnown, check_bios_password, KeepsVersions, UpdGoto
<1>3. CASE UpdateFails
  BY <1>3 DEF PasswordInHand, PasswordKnown, UpdateFails, KeepsVersions, KeepsPassword, UpdGoto
<1>4. CASE UpdateSucceeds
  <2>1. updateAt' \in {"finally", "dance", "default"}
    BY <1>4 DEF UpdateSucceeds, UpdGoto
  <2> QED BY <1>4, <2>1 DEF PasswordInHand, PasswordKnown, UpdateSucceeds, KeepsPassword
<1>5. CASE preparing_to_set_password
  <2>1. updateAt' \in {"dance", "default"}
    BY <1>5 DEF preparing_to_set_password, UpdGoto
  <2>2. ASSUME NEW new, SetPassword(new)
        PROVE  password' = biosPasswordInUse'
    BY <1>5, <2>2 DEF PasswordInHand, preparing_to_set_password, SetPassword, Works
  <2>3. password' = biosPasswordInUse'
    BY <1>5, <2>2 DEF PasswordInHand, preparing_to_set_password
  <2> QED BY <2>1, <2>3 DEF PasswordInHand
<1>6. CASE SetDefaultPassword
  BY <1>6 DEF PasswordInHand, PasswordKnown, SetDefaultPassword, KeepsVersions, UpdGoto
<1>7. CASE PowerGoes
  BY <1>7 DEF PasswordInHand, PasswordKnown, PowerGoes, UpdGoto
<1>8. CASE UNCHANGED updateVars
  BY <1>8 DEF PasswordInHand, PasswordKnown, updateVars
<1> QED BY <1>1, <1>2, <1>3, <1>4, <1>5, <1>6, <1>7, <1>8 DEF BiosUpdateNext

\* An update adds a version after all those that were there.
LEMMA UpdateGoesUp ==
  ASSUME VersionsGoUp, UpdateSucceeds
  PROVE  VersionsGoUp'
<1> DEFINE past == seenVersions  n == Len(past)
<1>1. /\ installed \in BiosVersions /\ candidate \in BiosVersions
      /\ past \in Seq(BiosVersions)
      /\ \A i, j \in 1 .. n : i < j => Earlier(past[i], past[j])
      /\ past # <<>> => past[n] = installed /\ compare_bios_versions(installed, candidate) = 1
  BY DEF VersionsGoUp, UpdateSucceeds
<1>2. /\ installed' = candidate /\ candidate' = candidate
      /\ seenVersions' = Append(past, candidate)
      /\ updateAt' \in {"finally", "dance", "default"}
  BY DEF UpdateSucceeds, UpdGoto
<1>3. /\ n \in Nat /\ \A i \in 1 .. n : past[i] \in BiosVersions
      /\ past # <<>> => n \in 1 .. n
  BY <1>1, LenProperties, ElementOfSeq, EmptySeq
<1>4. /\ seenVersions' \in Seq(BiosVersions) /\ Len(seenVersions') = n + 1
      /\ \A i \in 1 .. n : seenVersions'[i] = past[i]
      /\ seenVersions'[n + 1] = candidate
  BY <1>1, <1>2, AppendProperties
<1>5. ASSUME NEW i \in 1 .. n
      PROVE  Earlier(past[i], candidate)
  <2>1. past # <<>> /\ n \in 1 .. n
    BY <1>1, <1>3
  <2>2. Earlier(installed, candidate)
    BY <1>1, <2>1, UpdateIsLater
  <2>3. CASE i = n
    BY <1>1, <2>1, <2>2, <2>3
  <2>4. CASE i # n
    <3>1. Earlier(past[i], installed) /\ past[i] \in BiosVersions
      BY <1>1, <1>3, <2>1, <2>4
    <3> QED BY <1>1, <2>2, <3>1, LaterIsAnOrder
  <2> QED BY <2>3, <2>4
<1>6. ASSUME NEW i \in 1 .. n + 1, NEW j \in 1 .. n + 1, i < j
      PROVE  Earlier(seenVersions'[i], seenVersions'[j])
  <2>1. i \in 1 .. n /\ seenVersions'[i] = past[i]
    BY <1>3, <1>4, <1>6
  <2>2. CASE j = n + 1
    BY <1>4, <1>5, <2>1, <2>2
  <2>3. CASE j # n + 1
    <3>1. j \in 1 .. n /\ seenVersions'[j] = past[j]
      BY <1>3, <1>4, <2>3
    <3> QED BY <1>1, <1>6, <2>1, <3>1
  <2> QED BY <2>2, <2>3
<1> HIDE DEF n, past
<1> QED BY <1>1, <1>2, <1>4, <1>6 DEF VersionsGoUp

\* Every step keeps what was installed in order.
LEMMA VersionsStayInOrder ==
  ASSUME VersionsGoUp, [BiosUpdateNext]_updateVars
  PROVE  VersionsGoUp'
<1>1. CASE is_update_available
  <2>1. /\ UNCHANGED <<installed, candidate>>
        /\ seenVersions' \in {<<>>, seenVersions}
        /\ updateAt' \in {"password", "finally"}
        /\ updateAt' = "password" /\ seenVersions' # <<>> =>
             compare_bios_versions(installed, candidate) = 1
    BY <1>1 DEF is_update_available, UpdGoto
  <2>2. <<>> \in Seq(BiosVersions) /\ Len(<<>>) = 0
    BY EmptySeq
  <2>3. CASE seenVersions' = <<>>
    BY <2>1, <2>2, <2>3 DEF VersionsGoUp
  <2>4. CASE seenVersions' = seenVersions
    BY <2>1, <2>4 DEF VersionsGoUp
  <2> QED BY <2>1, <2>3, <2>4
<1>2. CASE check_bios_password
  <2>1. updateAt = "password"
    BY <1>2 DEF check_bios_password
  <2>2. UNCHANGED <<installed, candidate, seenVersions>>
    BY <1>2 DEF check_bios_password, KeepsVersions
  <2> QED BY <2>1, <2>2 DEF VersionsGoUp
<1>3. CASE UpdateFails
  BY <1>3 DEF VersionsGoUp, UpdateFails, KeepsVersions, UpdGoto
<1>4. CASE UpdateSucceeds
  BY <1>4, UpdateGoesUp
<1>5. CASE preparing_to_set_password
  <2>1. updateAt' \in {"dance", "default"}
    BY <1>5 DEF preparing_to_set_password, UpdGoto
  <2>2. UNCHANGED <<installed, candidate, seenVersions>>
    BY <1>5 DEF preparing_to_set_password, KeepsVersions
  <2> QED BY <2>1, <2>2 DEF VersionsGoUp
<1>6. CASE SetDefaultPassword
  BY <1>6 DEF VersionsGoUp, SetDefaultPassword, KeepsVersions, UpdGoto
<1>7. CASE PowerGoes
  BY <1>7 DEF VersionsGoUp, PowerGoes, UpdGoto
<1>8. CASE UNCHANGED updateVars
  BY <1>8 DEF VersionsGoUp, updateVars
<1> QED BY <1>1, <1>2, <1>3, <1>4, <1>5, <1>6, <1>7, <1>8 DEF BiosUpdateNext

(***************************************************************************)
(* The inductive invariant of the BIOS update service: the password in     *)
(* hand is the one that is set, and the versions go up.                    *)
(***************************************************************************)
THEOREM UpdateInvariance == BiosUpdateSpec => []UpdateInv
<1>1. UpdateInv /\ [BiosUpdateNext]_updateVars => UpdateInv'
  BY PasswordStays, VersionsStayInOrder DEF UpdateInv
<1> QED BY UpdateStartsRight, <1>1, PTL DEF BiosUpdateSpec

(***************************************************************************)
(* Whichever call fails and whenever the power goes, the service gives     *)
(* syscfg the password that is set and never leaves an unknown one behind  *)
(* by itself, and without force no version of any length and with any      *)
(* letters is installed twice (bios-update.py, compare_bios_versions).     *)
(***************************************************************************)
THEOREM UpdateKeepsTrack == BiosUpdateSpec => []BiosKeepsTrack
<1>1. ASSUME UpdateInv PROVE PasswordTracked
  BY <1>1 DEF UpdateInv, PasswordInHand, PasswordKnown, PasswordTracked
<1>2. ASSUME UpdateInv PROVE NeverComesBack
  <2>1. /\ seenVersions \in Seq(BiosVersions)
        /\ \A i, j \in 1 .. Len(seenVersions) :
             i < j => Earlier(seenVersions[i], seenVersions[j])
    BY <1>2 DEF UpdateInv, VersionsGoUp
  <2>2. /\ Len(seenVersions) \in Nat
        /\ \A i \in 1 .. Len(seenVersions) : seenVersions[i] \in BiosVersions
    BY <2>1, LenProperties, ElementOfSeq
  <2>3. ASSUME NEW i \in 1 .. Len(seenVersions), NEW j \in 1 .. Len(seenVersions),
               i < j, seenVersions[i] = seenVersions[j]
        PROVE  FALSE
    <3>1. Earlier(seenVersions[i], seenVersions[i]) /\ seenVersions[i] \in BiosVersions
      BY <2>1, <2>2, <2>3
    <3> QED BY <3>1, LaterIsAnOrder
  <2>4. ASSUME NEW i \in 1 .. Len(seenVersions), NEW j \in 1 .. Len(seenVersions),
               seenVersions[i] = seenVersions[j]
        PROVE  i = j
    <3>1. ~(i < j) /\ ~(j < i)
      BY <2>3, <2>4
    <3> QED BY <2>2, <3>1
  <2> QED BY <2>4 DEF NeverComesBack
<1> QED BY UpdateInvariance, <1>1, <1>2, PTL DEF BiosKeepsTrack

-----------------------------------------------------------------------------
(* The fixed-size allocator *)

\* The list of the free blocks, and 0 after its end.
ListFrom(l) == /\ l[0] = fsa.next_free
               /\ \A n \in Nat : l[n + 1] = IF l[n] \in Blocks THEN fsaLink[l[n]]
                                            ELSE END_OF_FREE_LIST

\* Its first blocks are the free ones, each once.
HoldsTheFree(l) ==
  /\ \A n \in Nat : n < FSACountFree => l[n] \in Blocks \ fsaLive
  /\ \A n \in Nat : n >= FSACountFree => l[n] = END_OF_FREE_LIST
  /\ \A n, m \in Nat : n < FSACountFree /\ m < FSACountFree /\ l[n] = l[m] => n = m
  /\ \A b \in Blocks \ fsaLive : \E n \in Nat : n < FSACountFree /\ l[n] = b

FsaTypes == /\ fsa \in [block_size : Nat, num_of_free_blocks : Nat, next_free : Int]
            /\ Blocks \subseteq Nat \ {0} /\ fsaLink \in [Blocks -> Int]
            /\ fsaLive \subseteq Blocks

FsaInv == FsaTypes /\ \E l \in [Nat -> Int] : ListFrom(l) /\ HoldsTheFree(l)

\* Before FSAInit there is no block.
LEMMA FsaStartsRight == FsaStart => FsaInv
<1> SUFFICES ASSUME FsaStart PROVE FsaInv
  OBVIOUS
<1> DEFINE l == [n \in Nat |-> 0]
<1>1. Blocks = {} /\ fsaLink \in [{} -> Int]
  BY DEF FsaStart, Blocks
<1>2. FsaTypes
  BY <1>1 DEF FsaStart, FsaTypes, END_OF_FREE_LIST
<1>3. l \in [Nat -> Int] /\ ListFrom(l) /\ HoldsTheFree(l)
  BY <1>1 DEF FsaStart, ListFrom, HoldsTheFree, FSACountFree, END_OF_FREE_LIST
<1> HIDE DEF l
<1> QED BY <1>2, <1>3 DEF FsaInv

\* The blocks of a new allocator: apart, and each linked to the next.
LEMMA NewList ==
  ASSUME NEW size \in Nat \ {0}, NEW blocks \in Nat \ {0}
  PROVE  LET link == CreatFreeList(size, blocks) IN
         /\ DOMAIN link = {Block(size, i) : i \in 1 .. blocks}
         /\ DOMAIN link \subseteq Nat \ {0} /\ link \in [DOMAIN link -> Int]
         /\ \A i, j \in 1 .. blocks : Block(size, i) = Block(size, j) => i = j
         /\ \A i \in 1 .. blocks : link[Block(size, i)] =
              IF i = blocks THEN END_OF_FREE_LIST ELSE Block(size, i + 1)
<1> DEFINE link == CreatFreeList(size, blocks)
           D == {Block(size, i) : i \in 1 .. blocks}
<1>0. sizeofFsa \in Nat \ {0}
  BY FsaAssumption DEF sizeofFsa
<1>1. \A i \in 1 .. blocks + 1 : /\ size * (i - 1) \in Nat
                                 /\ size * ((i + 1) - 1) = size * (i - 1) + size
  <2> SUFFICES ASSUME NEW i \in 1 .. blocks + 1
               PROVE  size * (i - 1) \in Nat /\ size * ((i + 1) - 1) = size * (i - 1) + size
    OBVIOUS
  <2>1. i - 1 \in Nat
    OBVIOUS
  <2>2. size * (i - 1) \in Nat
    BY <2>1
  <2>3. size * ((i + 1) - 1) = size * (i - 1) + size
    OBVIOUS
  <2> QED BY <2>2, <2>3
<1>2. \A i \in 1 .. blocks + 1 : Block(size, i) \in Nat \ {0}
  BY <1>0, <1>1 DEF Block
<1>3. \A i \in 1 .. blocks : Block(size, i + 1) = Block(size, i) + size
  BY <1>0, <1>1 DEF Block
<1>4. ASSUME NEW i \in 1 .. blocks, NEW j \in 1 .. blocks, Block(size, i) = Block(size, j)
      PROVE  i = j
  <2>1. i - 1 \in Nat /\ j - 1 \in Nat
    OBVIOUS
  <2>2. size * (i - 1) = size * (j - 1)
    BY <1>0, <1>1, <1>4 DEF Block
  <2>3. ASSUME NEW x \in Nat, NEW y \in Nat, x < y PROVE size * x # size * y
    <3>1. size * y = size * x + size * (y - x)
      BY <2>3
    <3>2. y - x \in Nat \ {0}
      BY <2>3
    <3>3. size * (y - x) > 0
      BY <3>2
    <3>4. size * x \in Nat /\ size * (y - x) \in Nat
      BY <3>2
    <3> QED BY <3>1, <3>3, <3>4
  <2>4. ~(i - 1 < j - 1) /\ ~(j - 1 < i - 1)
    BY <2>1, <2>2, <2>3
  <2> QED BY <2>1, <2>4
<1>5. link = [b \in D |-> IF b = Block(size, blocks) THEN END_OF_FREE_LIST ELSE b + size]
  BY DEF CreatFreeList
<1>6. blocks \in 1 .. blocks
  OBVIOUS
<1>7. \A i \in 1 .. blocks : link[Block(size, i)] =
              IF i = blocks THEN END_OF_FREE_LIST ELSE Block(size, i + 1)
  <2> SUFFICES ASSUME NEW i \in 1 .. blocks
               PROVE  link[Block(size, i)] =
                        IF i = blocks THEN END_OF_FREE_LIST ELSE Block(size, i + 1)
    OBVIOUS
  <2>1. Block(size, i) \in D
    OBVIOUS
  <2>2. link[Block(size, i)] = IF Block(size, i) = Block(size, blocks) THEN END_OF_FREE_LIST
                               ELSE Block(size, i) + size
    <3> HIDE DEF link, D
    <3> QED BY <1>5, <2>1
  <2>3. Block(size, i) = Block(size, blocks) <=> i = blocks
    BY <1>4, <1>6
  <2> HIDE DEF link, D
  <2> QED BY <1>3, <2>2, <2>3
<1>8. DOMAIN link = D
  <2> HIDE DEF link, D
  <2> QED BY <1>5
<1>9. D \subseteq Nat \ {0}
  BY <1>2
<1>10. link \in [D -> Int]
  <2>1. \A b \in D : b \in Int /\ b + size \in Int
    BY <1>9
  <2> HIDE DEF link, D
  <2> QED BY <1>5, <2>1 DEF END_OF_FREE_LIST
<1> HIDE DEF link
<1> QED BY <1>4, <1>7, <1>8, <1>9, <1>10 DEF link

\* FSAInit makes a list of all blocks.
LEMMA InitListsAll ==
  ASSUME FsaInv, NEW memory_size \in FsaMemorySizes, NEW bytes \in FsaBlockSizes,
         FSAInit(memory_size, bytes)
  PROVE  FsaInv'
<1> DEFINE size == CALCULATE_BLOCK_SIZE(bytes)
           blocks == (memory_size - sizeofFsa) \div size
           link == CreatFreeList(size, blocks)
           l == [n \in Nat |-> IF n < blocks THEN Block(size, n + 1) ELSE 0]
<1>1. size \in Nat \ {0} /\ sizeofFsa \in Nat /\ memory_size \in Nat
  <2>1. bytes \in Nat \ {0} /\ memory_size \in Nat /\ FsaWord \in Nat \ {0}
    BY FsaAssumption
  <2>2. bytes % FsaWord \in 0 .. FsaWord - 1
    BY <2>1
  <2> QED BY <2>1, <2>2 DEF CALCULATE_BLOCK_SIZE, sizeofFsa
<1>2. memory_size >= sizeofFsa + size
  <2>1. memory_size >= sizeofFsa + size * 1
    BY DEF FSAInit, FSASuggestSize
  <2> HIDE DEF size
  <2> QED BY <1>1, <2>1
<1>3. blocks \in Nat \ {0}
  <2> HIDE DEF size
  <2>1. memory_size - sizeofFsa \in Nat /\ memory_size - sizeofFsa >= size
    BY <1>1, <1>2
  <2>2. \A m \in Nat : m >= size => m \div size \in Nat \ {0}
    BY <1>1
  <2> QED BY <2>1, <2>2
<1>4. /\ fsa' = [block_size |-> size, num_of_free_blocks |-> blocks, next_free |-> sizeofFsa]
      /\ fsaLink' = link /\ fsaLive' = fsaLive
  BY DEF FSAInit
<1>5. fsaLive' = {}
  <2>1. fsaLink = <<>>
    BY DEF FSAInit
  <2>2. Blocks = {}
    BY <2>1 DEF Blocks
  <2> QED BY <1>4, <2>2 DEF FsaInv, FsaTypes
<1> HIDE DEF size, blocks
<1>6. /\ DOMAIN link = {Block(size, i) : i \in 1 .. blocks}
      /\ DOMAIN link \subseteq Nat \ {0} /\ link \in [DOMAIN link -> Int]
      /\ \A i, j \in 1 .. blocks : Block(size, i) = Block(size, j) => i = j
      /\ \A i \in 1 .. blocks : link[Block(size, i)] =
           IF i = blocks THEN END_OF_FREE_LIST ELSE Block(size, i + 1)
  BY <1>1, <1>3, NewList
<1> HIDE DEF link
<1>7. Blocks' = DOMAIN link
  BY <1>4 DEF Blocks
<1>8. FsaTypes'
  BY <1>1, <1>3, <1>4, <1>5, <1>6, <1>7 DEF FsaTypes
<1>9. \A n \in Nat : l[n] = IF n < blocks THEN Block(size, n + 1) ELSE 0
  OBVIOUS
<1>10. \A n \in Nat : n < blocks => n + 1 \in 1 .. blocks /\ l[n] \in DOMAIN link
  BY <1>3, <1>6, <1>9
<1>11. l \in [Nat -> Int]
  <2>1. \A n \in Nat : l[n] \in Int
    BY <1>6, <1>9, <1>10
  <2>2. l = [n \in Nat |-> l[n]]
    OBVIOUS
  <2> HIDE DEF l
  <2> QED BY <2>1, <2>2
<1> HIDE DEF l
<1>12. ListFrom(l)'
  <2>1. l[0] = sizeofFsa
    <3>1. l[0] = Block(size, 1)
      BY <1>3, <1>9
    <3> QED BY <1>1, <3>1 DEF Block
  <2>2. ASSUME NEW n \in Nat
        PROVE  l[n + 1] = IF l[n] \in DOMAIN link THEN link[l[n]] ELSE END_OF_FREE_LIST
    <3>1. CASE n < blocks
      <4>1. n + 1 \in 1 .. blocks /\ l[n] \in DOMAIN link /\ l[n] = Block(size, n + 1)
        BY <1>9, <1>10, <3>1
      <4>2. link[l[n]] = IF n + 1 = blocks THEN END_OF_FREE_LIST ELSE Block(size, (n + 1) + 1)
        BY <1>6, <4>1
      <4>3. n + 1 < blocks <=> n + 1 # blocks
        BY <1>3, <3>1
      <4> QED BY <1>9, <4>1, <4>2, <4>3 DEF END_OF_FREE_LIST
    <3>2. CASE ~(n < blocks)
      <4>1. l[n] = 0 /\ l[n + 1] = 0
        BY <1>3, <1>9, <3>2
      <4> QED BY <1>6, <4>1 DEF END_OF_FREE_LIST
    <3> QED BY <3>1, <3>2
  <2> QED BY <1>4, <1>7, <2>1, <2>2 DEF ListFrom
<1>13. HoldsTheFree(l)'
  <2>1. FSACountFree' = blocks
    BY <1>4 DEF FSACountFree
  <2>2. \A n, m \in Nat : n < blocks /\ m < blocks /\ l[n] = l[m] => n = m
    <3> SUFFICES ASSUME NEW n \in Nat, NEW m \in Nat, n < blocks, m < blocks, l[n] = l[m]
                 PROVE  n = m
      OBVIOUS
    <3>1. n + 1 \in 1 .. blocks /\ m + 1 \in 1 .. blocks /\ Block(size, n + 1) = Block(size, m + 1)
      BY <1>9, <1>10
    <3>2. n + 1 = m + 1
      BY <1>6, <3>1
    <3> QED BY <3>2
  <2>3. \A b \in DOMAIN link : \E n \in Nat : n < blocks /\ l[n] = b
    <3> SUFFICES ASSUME NEW b \in DOMAIN link PROVE \E n \in Nat : n < blocks /\ l[n] = b
      OBVIOUS
    <3>1. PICK i \in 1 .. blocks : b = Block(size, i)
      BY <1>6
    <3>2. i - 1 \in Nat /\ i - 1 < blocks /\ (i - 1) + 1 = i
      BY <1>3
    <3>3. l[i - 1] = b
      BY <1>9, <3>1, <3>2
    <3> QED BY <3>2, <3>3
  <2>4. \A n \in Nat : n >= blocks => l[n] = 0
    BY <1>3, <1>9
  <2> QED BY <1>5, <1>7, <1>10, <2>1, <2>2, <2>3, <2>4 DEF HoldsTheFree, END_OF_FREE_LIST
<1> QED BY <1>8, <1>11, <1>12, <1>13 DEF FsaInv

\* The allocator's fields stay of their types.
LEMMA FsaFields ==
  ASSUME NEW r \in [block_size : Nat, num_of_free_blocks : Nat, next_free : Int],
         NEW x \in Int, NEW y \in Nat
  PROVE  [r EXCEPT !.next_free = x, !.num_of_free_blocks = y]
           \in [block_size : Nat, num_of_free_blocks : Nat, next_free : Int]
<1>1. [r EXCEPT !.next_free = x] \in [block_size : Nat, num_of_free_blocks : Nat, next_free : Int]
  OBVIOUS
<1> QED BY <1>1

\* FSAAlloc takes the first block of the list.
LEMMA AllocTakesFirst ==
  ASSUME FsaInv, FSAAlloc
  PROVE  FsaInv'
<1>1. PICK l \in [Nat -> Int] : ListFrom(l) /\ HoldsTheFree(l)
  BY DEF FsaInv
<1> DEFINE k == FSACountFree
           m == [n \in Nat |-> l[n + 1]]
<1>2. k \in Nat /\ k > 0 /\ FSACountFree' = k - 1
  BY DEF FsaInv, FsaTypes, FSAAlloc, FSACountFree
<1>3. fsa.next_free = l[0] /\ l[0] \in Blocks \ fsaLive /\ l[1] = fsaLink[l[0]]
  <2>1. l[0 + 1] = IF l[0] \in Blocks THEN fsaLink[l[0]] ELSE END_OF_FREE_LIST
    BY <1>1 DEF ListFrom
  <2> QED BY <1>1, <1>2, <2>1 DEF ListFrom, HoldsTheFree
<1>4. /\ fsaLink' = [fsaLink EXCEPT ![l[0]] = -1] /\ fsaLive' = fsaLive \cup {l[0]}
      /\ fsa'.next_free = l[1]
  BY <1>3 DEF FSAAlloc, FsaInv, FsaTypes
<1>5. /\ Blocks' = Blocks /\ fsaLink' \in [Blocks -> Int]
      /\ \A b \in Blocks : b # l[0] => fsaLink'[b] = fsaLink[b]
  <2>1. fsaLink \in [Blocks -> Int] /\ -1 \in Int
    BY DEF FsaInv, FsaTypes
  <2>2. fsaLink' \in [Blocks -> Int]
    BY <1>4, <2>1
  <2>3. Blocks' = Blocks
    BY <2>2 DEF Blocks
  <2> QED BY <1>4, <2>1, <2>2, <2>3
<1>6. FsaTypes'
  <2>1. fsaLink[l[0]] \in Int
    BY <1>3 DEF FsaInv, FsaTypes
  <2>2. fsa' \in [block_size : Nat, num_of_free_blocks : Nat, next_free : Int]
    <3>1. fsa.num_of_free_blocks - 1 \in Nat
      BY <1>2 DEF FSACountFree
    <3> QED BY <1>3, <2>1, <3>1, FsaFields DEF FSAAlloc, FsaInv, FsaTypes
  <2> QED BY <1>3, <1>4, <1>5, <2>2 DEF FsaInv, FsaTypes
<1>7. m \in [Nat -> Int] /\ \A n \in Nat : m[n] = l[n + 1]
  OBVIOUS
<1> HIDE DEF m, k
<1>8. ListFrom(m)'
  <2>1. m[0] = fsa'.next_free
    BY <1>4, <1>7
  <2>2. ASSUME NEW n \in Nat
        PROVE  m[n + 1] = IF m[n] \in Blocks THEN fsaLink'[m[n]] ELSE END_OF_FREE_LIST
    <3>1. n + 1 \in Nat /\ m[n] = l[n + 1] /\ m[n + 1] = l[(n + 1) + 1]
      BY <1>7
    <3>2. l[(n + 1) + 1] = IF l[n + 1] \in Blocks THEN fsaLink[l[n + 1]] ELSE END_OF_FREE_LIST
      BY <1>1, <3>1 DEF ListFrom
    <3>3. l[n + 1] \in Blocks => l[n + 1] # l[0]
      <4>1. CASE n + 1 < k
        <5>1. 0 \in Nat /\ 0 < k /\ n + 1 # 0
          BY <1>2
        <5> QED BY <1>1, <3>1, <4>1, <5>1 DEF HoldsTheFree, k
      <4>2. CASE n + 1 >= k
        <5>1. l[n + 1] = 0
          BY <1>1, <3>1, <4>2 DEF HoldsTheFree, k, END_OF_FREE_LIST
        <5> QED BY <5>1 DEF FsaInv, FsaTypes
      <4> QED BY <1>2, <3>1, <4>1, <4>2
    <3> QED BY <1>5, <3>1, <3>2, <3>3
  <2> QED BY <1>5, <2>1, <2>2 DEF ListFrom
<1>9. HoldsTheFree(m)'
  <2>1. \A n \in Nat : n < k - 1 => m[n] \in Blocks \ (fsaLive \cup {l[0]})
    <3> SUFFICES ASSUME NEW n \in Nat, n < k - 1 PROVE m[n] \in Blocks \ (fsaLive \cup {l[0]})
      OBVIOUS
    <3>1. 0 \in Nat /\ 0 < k /\ n + 1 \in Nat /\ n + 1 < k /\ n + 1 # 0
      BY <1>2
    <3>2. l[n + 1] \in Blocks \ fsaLive /\ l[n + 1] # l[0]
      BY <1>1, <3>1 DEF HoldsTheFree, k
    <3> QED BY <1>7, <3>2
  <2>2. \A n \in Nat : n >= k - 1 => m[n] = END_OF_FREE_LIST
    <3> SUFFICES ASSUME NEW n \in Nat, n >= k - 1 PROVE m[n] = END_OF_FREE_LIST
      OBVIOUS
    <3>1. n + 1 \in Nat /\ n + 1 >= k
      BY <1>2
    <3> QED BY <1>1, <1>7, <3>1 DEF HoldsTheFree, k
  <2>3. \A n, j \in Nat : n < k - 1 /\ j < k - 1 /\ m[n] = m[j] => n = j
    <3> SUFFICES ASSUME NEW n \in Nat, NEW j \in Nat, n < k - 1, j < k - 1, m[n] = m[j]
                 PROVE  n = j
      OBVIOUS
    <3>1. n + 1 \in Nat /\ n + 1 < k /\ j + 1 \in Nat /\ j + 1 < k
      BY <1>2
    <3>2. n + 1 = j + 1
      BY <1>1, <1>7, <3>1 DEF HoldsTheFree, k
    <3> QED BY <3>2
  <2>4. \A b \in Blocks \ (fsaLive \cup {l[0]}) : \E n \in Nat : n < k - 1 /\ m[n] = b
    <3> SUFFICES ASSUME NEW b \in Blocks \ (fsaLive \cup {l[0]})
                 PROVE  \E n \in Nat : n < k - 1 /\ m[n] = b
      OBVIOUS
    <3>1. PICK n \in Nat : n < k /\ l[n] = b
      BY <1>1 DEF HoldsTheFree, k
    <3>2. n # 0
      BY <3>1
    <3>3. n - 1 \in Nat /\ n - 1 < k - 1 /\ (n - 1) + 1 = n
      BY <1>2, <3>1, <3>2
    <3> QED BY <1>7, <3>1, <3>3
  <2> QED BY <1>2, <1>4, <1>5, <2>1, <2>2, <2>3, <2>4 DEF HoldsTheFree
<1> QED BY <1>6, <1>7, <1>8, <1>9 DEF FsaInv

\* FSAFree puts the block in front of the list.
LEMMA FreePutsFirst ==
  ASSUME FsaInv, NEW b \in fsaLive, FSAFree(b)
  PROVE  FsaInv'
<1>1. PICK l \in [Nat -> Int] : ListFrom(l) /\ HoldsTheFree(l)
  BY DEF FsaInv
<1> DEFINE k == FSACountFree
           m == [n \in Nat |-> IF n = 0 THEN b ELSE l[n - 1]]
<1>2. k \in Nat /\ FSACountFree' = k + 1
  BY DEF FsaInv, FsaTypes, FSAFree, FSACountFree
<1>3. b \in Blocks /\ b \in Nat \ {0} /\ fsa.next_free = l[0]
  BY <1>1 DEF FsaInv, FsaTypes, ListFrom
<1>4. /\ fsaLink' = [fsaLink EXCEPT ![b] = l[0]] /\ fsaLive' = fsaLive \ {b}
      /\ fsa'.next_free = b
  BY <1>3 DEF FSAFree, FsaInv, FsaTypes
<1>5. /\ Blocks' = Blocks /\ fsaLink' \in [Blocks -> Int] /\ fsaLink'[b] = l[0]
      /\ \A c \in Blocks : c # b => fsaLink'[c] = fsaLink[c]
  BY <1>3, <1>4 DEF Blocks, FsaInv, FsaTypes
<1>6. FsaTypes'
  <2>1. fsa' \in [block_size : Nat, num_of_free_blocks : Nat, next_free : Int]
    <3>1. b \in Int /\ fsa.num_of_free_blocks + 1 \in Nat
      BY <1>2, <1>3 DEF FSACountFree, k
    <3> QED BY <3>1, FsaFields DEF FSAFree, FsaInv, FsaTypes
  <2> QED BY <1>4, <1>5, <2>1 DEF FsaInv, FsaTypes
<1>7. m \in [Nat -> Int] /\ m[0] = b /\ \A n \in Nat : m[n + 1] = l[n]
  BY <1>3
<1> HIDE DEF m, k
<1>8. \A n \in Nat : l[n] # b
  <2> SUFFICES ASSUME NEW n \in Nat PROVE l[n] # b
    OBVIOUS
  <2>1. CASE n < k
    BY <1>1, <2>1 DEF HoldsTheFree, k
  <2>2. CASE n >= k
    BY <1>1, <1>3, <2>2 DEF HoldsTheFree, k, END_OF_FREE_LIST
  <2> QED BY <1>2, <2>1, <2>2
<1>9. \A n \in Nat : n = 0 \/ (n - 1 \in Nat /\ m[n] = l[n - 1])
  <2> SUFFICES ASSUME NEW n \in Nat, n # 0 PROVE n - 1 \in Nat /\ m[n] = l[n - 1]
    OBVIOUS
  <2>1. n - 1 \in Nat /\ (n - 1) + 1 = n
    OBVIOUS
  <2> QED BY <1>7, <2>1
<1>10. ListFrom(m)'
  <2>1. ASSUME NEW n \in Nat
        PROVE  m[n + 1] = IF m[n] \in Blocks THEN fsaLink'[m[n]] ELSE END_OF_FREE_LIST
    <3>1. CASE n = 0
      BY <1>3, <1>5, <1>7, <3>1
    <3>2. CASE n # 0
      <4>1. n - 1 \in Nat /\ m[n] = l[n - 1] /\ (n - 1) + 1 = n /\ m[n + 1] = l[n]
        BY <1>7, <1>9, <3>2
      <4>2. l[(n - 1) + 1] = IF l[n - 1] \in Blocks THEN fsaLink[l[n - 1]] ELSE END_OF_FREE_LIST
        BY <1>1, <4>1 DEF ListFrom
      <4> QED BY <1>5, <1>8, <4>1, <4>2
    <3> QED BY <3>1, <3>2
  <2> QED BY <1>4, <1>5, <1>7, <2>1 DEF ListFrom
<1>11. HoldsTheFree(m)'
  <2>1. \A n \in Nat : n < k + 1 => m[n] \in Blocks \ (fsaLive \ {b})
    <3> SUFFICES ASSUME NEW n \in Nat, n < k + 1 PROVE m[n] \in Blocks \ (fsaLive \ {b})
      OBVIOUS
    <3>1. n # 0 => n - 1 < k
      BY <1>2
    <3> QED BY <1>1, <1>3, <1>7, <1>9, <3>1 DEF HoldsTheFree, k
  <2>2. \A n \in Nat : n >= k + 1 => m[n] = END_OF_FREE_LIST
    <3> SUFFICES ASSUME NEW n \in Nat, n >= k + 1 PROVE m[n] = END_OF_FREE_LIST
      OBVIOUS
    <3>1. n # 0 /\ n - 1 >= k
      BY <1>2
    <3> QED BY <1>1, <1>9, <3>1 DEF HoldsTheFree, k
  <2>3. \A n, j \in Nat : n < k + 1 /\ j < k + 1 /\ m[n] = m[j] => n = j
    <3> SUFFICES ASSUME NEW n \in Nat, NEW j \in Nat, n < k + 1, j < k + 1, m[n] = m[j]
                 PROVE  n = j
      OBVIOUS
    <3>1. n = 0 <=> j = 0
      BY <1>7, <1>8, <1>9
    <3>2. CASE n # 0
      <4>1. n - 1 \in Nat /\ j - 1 \in Nat /\ n - 1 < k /\ j - 1 < k /\ l[n - 1] = l[j - 1]
        BY <1>2, <1>9, <3>1, <3>2
      <4>2. n - 1 = j - 1
        BY <1>1, <4>1 DEF HoldsTheFree, k
      <4> QED BY <4>2
    <3> QED BY <3>1, <3>2
  <2>4. \A c \in Blocks \ (fsaLive \ {b}) : \E n \in Nat : n < k + 1 /\ m[n] = c
    <3> SUFFICES ASSUME NEW c \in Blocks \ (fsaLive \ {b})
                 PROVE  \E n \in Nat : n < k + 1 /\ m[n] = c
      OBVIOUS
    <3>1. CASE c = b
      <4>1. 0 \in Nat /\ 0 < k + 1
        BY <1>2
      <4> QED BY <1>7, <3>1, <4>1
    <3>2. CASE c # b
      <4>1. PICK n \in Nat : n < k /\ l[n] = c
        BY <1>1, <3>2 DEF HoldsTheFree, k
      <4>2. n + 1 \in Nat /\ n + 1 < k + 1
        BY <1>2, <4>1
      <4> QED BY <1>7, <4>1, <4>2
    <3> QED BY <3>1, <3>2
  <2> QED BY <1>2, <1>4, <1>5, <2>1, <2>2, <2>3, <2>4 DEF HoldsTheFree
<1> QED BY <1>6, <1>7, <1>10, <1>11 DEF FsaInv

\* Every call keeps the list.
LEMMA FsaStaysRight ==
  ASSUME FsaInv, FsaNext \/ UNCHANGED fsaVars
  PROVE  FsaInv'
<1>1. CASE FsaNext
  BY <1>1, InitListsAll, AllocTakesFirst, FreePutsFirst DEF FsaNext
<1>2. CASE UNCHANGED fsaVars
  <2>1. PICK l \in [Nat -> Int] : ListFrom(l) /\ HoldsTheFree(l)
    BY DEF FsaInv
  <2>2. fsa' = fsa /\ fsaLink' = fsaLink /\ fsaLive' = fsaLive
    BY <1>2 DEF fsaVars
  <2>3. ListFrom(l)' /\ HoldsTheFree(l)' /\ FsaTypes'
    BY <2>1, <2>2 DEF ListFrom, HoldsTheFree, FsaTypes, FSACountFree, Blocks, FsaInv
  <2> QED BY <2>3 DEF FsaInv
<1> QED BY <1>1, <1>2

\* The list the invariant speaks of is the one FreeListIsTheRest walks.
LEMMA FsaInvMeans == FsaInv => FreeListIsTheRest
<1> SUFFICES ASSUME FsaInv PROVE FreeListIsTheRest
  OBVIOUS
<1>1. PICK l \in [Nat -> Int] : ListFrom(l) /\ HoldsTheFree(l)
  BY DEF FsaInv
<1>2. l = [n \in Nat |-> IF n = 0 THEN fsa.next_free
                         ELSE IF l[n - 1] \in Blocks THEN fsaLink[l[n - 1]]
                         ELSE END_OF_FREE_LIST]
  <2>1. \A n \in Nat : l[n] = IF n = 0 THEN fsa.next_free
                              ELSE IF l[n - 1] \in Blocks THEN fsaLink[l[n - 1]]
                              ELSE END_OF_FREE_LIST
    <3> SUFFICES ASSUME NEW n \in Nat
                 PROVE  l[n] = IF n = 0 THEN fsa.next_free
                               ELSE IF l[n - 1] \in Blocks THEN fsaLink[l[n - 1]]
                               ELSE END_OF_FREE_LIST
      OBVIOUS
    <3>1. CASE n = 0
      BY <1>1, <3>1 DEF ListFrom
    <3>2. CASE n # 0
      <4>1. n - 1 \in Nat /\ (n - 1) + 1 = n
        BY <3>2
      <4> QED BY <1>1, <3>2, <4>1 DEF ListFrom
    <3> QED BY <3>1, <3>2
  <2> QED BY <2>1
<1>3. ListBlock = [n \in Nat |-> IF n = 0 THEN fsa.next_free
                                 ELSE IF ListBlock[n - 1] \in Blocks THEN fsaLink[ListBlock[n - 1]]
                                 ELSE END_OF_FREE_LIST]
  BY <1>2 DEF ListBlock
<1> DEFINE k == FSACountFree
<1>4. k \in Nat
  BY DEF FsaInv, FsaTypes, FSACountFree
<1>5. \A n \in Nat : ListBlock[n] = l[n]
  <2> DEFINE Bad == {n \in Nat : ListBlock[n] # l[n]}
  <2> SUFFICES ASSUME Bad # {} PROVE FALSE
    OBVIOUS
  <2>1. PICK n \in Bad : \A j \in Bad : n <= j
    <3>1. Bad \subseteq Nat
      OBVIOUS
    <3> HIDE DEF Bad
    <3> QED BY <3>1, Smallest
  <2>2. n \in Nat /\ ListBlock[n] # l[n]
    OBVIOUS
  <2>3. CASE n = 0
    BY <1>2, <1>3, <2>2, <2>3
  <2>4. CASE n # 0
    <3>1. n - 1 \in Nat /\ n - 1 \notin Bad
      BY <2>1, <2>2, <2>4
    <3>2. ListBlock[n - 1] = l[n - 1]
      BY <3>1
    <3>3. ListBlock[n] = IF ListBlock[n - 1] \in Blocks THEN fsaLink[ListBlock[n - 1]]
                         ELSE END_OF_FREE_LIST
      BY <1>3, <2>2, <2>4
    <3>4. l[n] = IF l[n - 1] \in Blocks THEN fsaLink[l[n - 1]] ELSE END_OF_FREE_LIST
      BY <1>2, <2>2, <2>4
    <3> QED BY <2>2, <3>2, <3>3, <3>4
  <2> QED BY <2>3, <2>4
<1> HIDE DEF k
<1>6. \A n \in 0 .. k - 1 : n \in Nat /\ n < k
  BY <1>4
<1>7. \A n \in Nat : n < k => n \in 0 .. k - 1
  BY <1>4
<1>8. {ListBlock[n] : n \in 0 .. k - 1} = Blocks \ fsaLive
  BY <1>1, <1>5, <1>6, <1>7 DEF HoldsTheFree, k
<1>9. k = Cardinality(Blocks \ fsaLive)
  <2> DEFINE f == [n \in 0 .. k - 1 |-> l[n]]
             T == Blocks \ fsaLive
  <2>1. f \in [0 .. k - 1 -> T]
    BY <1>1, <1>6 DEF HoldsTheFree, k
  <2>2. \A i, j \in 0 .. k - 1 : f[i] = f[j] => i = j
    BY <1>1, <1>6 DEF HoldsTheFree, k
  <2>3. \A t \in T : \E i \in 0 .. k - 1 : f[i] = t
    BY <1>1, <1>7 DEF HoldsTheFree, k
  <2> HIDE DEF f, T
  <2>4. f \in Bijection(0 .. k - 1, T)
    BY <2>1, <2>2, <2>3, Fun_IsBij
  <2>5. ExistsBijection(0 .. k - 1, T)
    BY <2>4 DEF ExistsBijection
  <2>6. IsFiniteSet(0 .. k - 1) /\ Cardinality(0 .. k - 1) = k
    <3>1. 0 \in Int /\ k - 1 \in Int
      BY <1>4
    <3>2. IsFiniteSet(0 .. k - 1) /\ Cardinality(0 .. k - 1) = IF 0 > k - 1 THEN 0 ELSE (k - 1) - 0 + 1
      BY <3>1, FS_Interval
    <3> QED BY <1>4, <3>2
  <2>7. Cardinality(T) = k
    BY <2>5, <2>6, FS_Bijection
  <2> QED BY <2>7 DEF T
<1>10. ListBlock[k] = END_OF_FREE_LIST
  BY <1>1, <1>4, <1>5 DEF HoldsTheFree, k
<1> QED BY <1>8, <1>9, <1>10 DEF FreeListIsTheRest, k

-----------------------------------------------------------------------------
(* The variable-size allocator *)

VsaEnd == VsaMemory - VsaHeader

\* The headers from 0 to the end: none stands inside a block, and the next one
\* is where the block ends.
Tiled(size) ==
  /\ DOMAIN size \subseteq 0 .. VsaEnd /\ size \in [DOMAIN size -> Int]
  /\ 0 \in DOMAIN size /\ VsaEnd \in DOMAIN size /\ size[VsaEnd] = 0
  /\ \A b \in DOMAIN size : b # VsaEnd =>
       /\ size[b] # 0 /\ GetNextBlock(size, b) \in DOMAIN size
       /\ \A c \in DOMAIN size : c <= b \/ c >= GetNextBlock(size, b)

\* A block somebody has is marked and large enough, every other one is free.
MarkedAs(size, live) ==
  /\ \A b \in DOMAIN live : /\ b \in DOMAIN size /\ b # VsaEnd
                            /\ live[b] \in Nat \ {0} /\ -size[b] >= live[b]
  /\ \A b \in DOMAIN size : b # VsaEnd /\ b \notin DOMAIN live => size[b] > 0

Memory(size, live) == Tiled(size) /\ MarkedAs(size, live)

\* The end lies behind the first header.
LEMMA EndFacts == /\ VsaEnd \in Nat \ {0} /\ VsaEnd > VsaHeader /\ VsaHeader \in Nat \ {0}
                  /\ VsaMemory \in Nat /\ VsaEnd < VsaMemory
BY VsaAssumption DEF VsaEnd

\* Where the next header is.
LEMMA NextFacts ==
  ASSUME NEW size, NEW b \in DOMAIN size, Tiled(size)
  PROVE  /\ b \in Nat /\ size[b] \in Int /\ b <= VsaEnd
         /\ GetNextBlock(size, b) \in Nat /\ GetNextBlock(size, b) > b
         /\ size[b] > 0 => GetNextBlock(size, b) = b + size[b] + VsaHeader
         /\ size[b] < 0 => GetNextBlock(size, b) = b - size[b] + VsaHeader
         /\ size[b] = 0 <=> b = VsaEnd
<1>1. b \in Nat /\ size[b] \in Int /\ b <= VsaEnd /\ (size[b] = 0 <=> b = VsaEnd)
  BY EndFacts DEF Tiled
<1>2. /\ size[b] >= 0 => GetNextBlock(size, b) = b + size[b] + VsaHeader
      /\ size[b] < 0 => GetNextBlock(size, b) = b + (-size[b]) + VsaHeader
  BY <1>1 DEF GetNextBlock, Abs
<1> QED BY <1>1, <1>2, EndFacts

\* The free block b takes in the free block behind it.
LEMMA MergeKeeps ==
  ASSUME NEW size, NEW live, NEW b \in DOMAIN size, Memory(size, live),
         size[b] > 0, NextIsFree(size, b)
  PROVE  /\ Memory(Merge(size, b), live) /\ b \in DOMAIN Merge(size, b)
         /\ DOMAIN Merge(size, b) \subseteq DOMAIN size
         /\ Merge(size, b)[b] > 0
         /\ GetNextBlock(Merge(size, b), b) > GetNextBlock(size, b)
<1> DEFINE next == GetNextBlock(size, b)
           m == Merge(size, b)
           D == DOMAIN size
<1>0. Tiled(size) /\ MarkedAs(size, live)
  BY DEF Memory
<1>1. /\ b \in Nat /\ size[b] \in Int /\ b # VsaEnd
      /\ next \in Nat /\ next > b /\ next = b + size[b] + VsaHeader
  BY <1>0, NextFacts
<1>2. next \in D /\ size[next] > 0 /\ size[next] \in Int /\ next # VsaEnd
  BY <1>0, <1>1, NextFacts DEF Tiled, NextIsFree
<1>3. /\ DOMAIN m = D \ {next} /\ m[b] = size[b] + size[next] + VsaHeader
      /\ \A c \in D \ {next} : c # b => m[c] = size[c]
      /\ m \in [D \ {next} -> Int]
  <2> DEFINE e == [size EXCEPT ![b] = MergeFreeBlocks(@, size[next])]
  <2>1. m = [c \in D \ {next} |-> e[c]]
    BY DEF Merge, Restrict
  <2>2. size \in [D -> Int]
    BY <1>0 DEF Tiled
  <2>3. e[b] = size[b] + size[next] + VsaHeader /\ \A c \in D : c # b => e[c] = size[c]
    BY <2>2 DEF MergeFreeBlocks
  <2>4. e[b] \in Int
    BY <1>1, <1>2, <2>3, EndFacts
  <2>5. \A c \in D : size[c] \in Int
    BY <2>2
  <2> HIDE DEF e, m, D
  <2>6. b \in D \ {next} /\ m[b] = e[b]
    BY <1>1, <2>1 DEF D
  <2> QED BY <2>1, <2>3, <2>4, <2>5, <2>6
<1> HIDE DEF m, next
<1>4. b \in DOMAIN m
  BY <1>1, <1>3
<1>5. m[b] \in Int /\ m[b] > 0 /\ m[b] = size[b] + size[next] + VsaHeader
  BY <1>1, <1>2, <1>3, EndFacts
<1>6. /\ GetNextBlock(m, b) = b + m[b] + VsaHeader
      /\ GetNextBlock(size, next) = next + size[next] + VsaHeader
      /\ GetNextBlock(m, b) = GetNextBlock(size, next)
      /\ GetNextBlock(m, b) > next
  <2>1. GetNextBlock(m, b) = b + m[b] + VsaHeader
    BY <1>5 DEF GetNextBlock, Abs
  <2>2. GetNextBlock(size, next) = next + size[next] + VsaHeader
    BY <1>2 DEF GetNextBlock, Abs
  <2> QED BY <1>1, <1>2, <1>5, <2>1, <2>2, EndFacts
<1>7. \A c \in D \ {next} : c # b => GetNextBlock(m, c) = GetNextBlock(size, c)
  BY <1>3 DEF GetNextBlock
<1>8. Tiled(m)
  <2>1. DOMAIN m \subseteq 0 .. VsaEnd /\ m \in [DOMAIN m -> Int]
    BY <1>0, <1>3 DEF Tiled
  <2>2. 0 \in DOMAIN m /\ VsaEnd \in DOMAIN m /\ m[VsaEnd] = 0
    BY <1>0, <1>1, <1>2, <1>3 DEF Tiled
  <2>3. ASSUME NEW c \in D \ {next}, c # VsaEnd
        PROVE  /\ m[c] # 0 /\ GetNextBlock(m, c) \in D \ {next}
               /\ \A d \in D \ {next} : d <= c \/ d >= GetNextBlock(m, c)
    <3>1. CASE c = b
      <4>1. /\ GetNextBlock(size, next) \in D
            /\ \A d \in D : d <= next \/ d >= GetNextBlock(size, next)
        BY <1>0, <1>2 DEF Tiled
      <4>2. \A d \in D : d <= b \/ d >= next
        BY <1>0, <1>1 DEF Tiled, next
      <4>3. \A d \in D : d \in Int
        BY <1>0 DEF Tiled
      <4>4. \A d \in D \ {next} : d <= b \/ d >= GetNextBlock(size, next)
        BY <1>1, <4>1, <4>2, <4>3
      <4>5. GetNextBlock(size, next) # next
        BY <1>1, <1>2, <1>6, EndFacts
      <4> QED BY <1>5, <1>6, <3>1, <4>1, <4>4, <4>5
    <3>2. CASE c # b
      <4>1. /\ size[c] # 0 /\ GetNextBlock(size, c) \in D
            /\ \A d \in D : d <= c \/ d >= GetNextBlock(size, c)
        BY <1>0, <2>3 DEF Tiled
      <4>2. GetNextBlock(size, c) # next
        <5>1. c \in Nat /\ GetNextBlock(size, c) \in Nat /\ GetNextBlock(size, c) > c
          BY <1>0, NextFacts
        <5>2. b <= c \/ b >= GetNextBlock(size, c)
          BY <4>1
        <5>3. c <= b \/ c >= next
          BY <1>0, <1>1 DEF Tiled, next
        <5> QED BY <1>1, <3>2, <5>1, <5>2, <5>3
      <4> QED BY <1>3, <1>7, <3>2, <4>1, <4>2
    <3> QED BY <3>1, <3>2
  <2> QED BY <1>3, <2>1, <2>2, <2>3 DEF Tiled
<1>9. MarkedAs(m, live)
  <2>1. next \notin DOMAIN live /\ b \notin DOMAIN live
    <3>1. \A c \in DOMAIN live : live[c] \in Nat \ {0} /\ -size[c] >= live[c]
      BY <1>0 DEF MarkedAs
    <3> QED BY <1>1, <1>2, <3>1
  <2>2. ASSUME NEW c \in DOMAIN live
        PROVE  /\ c \in DOMAIN m /\ c # VsaEnd
               /\ live[c] \in Nat \ {0} /\ -m[c] >= live[c]
    BY <1>0, <1>3, <2>1 DEF MarkedAs
  <2>3. ASSUME NEW c \in DOMAIN m, c # VsaEnd, c \notin DOMAIN live
        PROVE  m[c] > 0
    <3>1. CASE c = b
      BY <1>5, <3>1
    <3>2. CASE c # b
      BY <1>0, <1>3, <2>3, <3>2 DEF MarkedAs
    <3> QED BY <3>1, <3>2
  <2> QED BY <2>2, <2>3 DEF MarkedAs
<1> QED BY <1>3, <1>4, <1>5, <1>6, <1>8, <1>9 DEF Memory, m, next

\* Where the loops can be: headers that are right, and an address.
HeaderMaps == UNION {[D -> Int] : D \in SUBSET (0 .. VsaEnd)}
Walks(live) == {at \in HeaderMaps \X Nat : Memory(at[1], live)}

\* What that says of a pair.
LEMMA WalkFacts ==
  ASSUME NEW live
  PROVE  /\ \A size, b : Memory(size, live) /\ b \in Nat => <<size, b>> \in Walks(live)
         /\ \A at \in Walks(live) : /\ at = <<at[1], at[2]>> /\ at[2] \in Nat
                                    /\ Memory(at[1], live)
<1>1. ASSUME NEW size, NEW b \in Nat, Memory(size, live)
      PROVE  <<size, b>> \in Walks(live)
  <2>1. DOMAIN size \in SUBSET (0 .. VsaEnd) /\ size \in [DOMAIN size -> Int]
    BY <1>1 DEF Memory, Tiled
  <2>2. size \in HeaderMaps
    BY <2>1 DEF HeaderMaps
  <2> QED BY <1>1, <2>2 DEF Walks
<1>2. ASSUME NEW at \in Walks(live)
      PROVE  at = <<at[1], at[2]>> /\ at[2] \in Nat /\ Memory(at[1], live)
  BY DEF Walks
<1> QED BY <1>1, <1>2

\* The search for n units ends at such a place.
SearchEnds(at, n) == at[2] \notin DOMAIN at[1] \/ n <= at[1][at[2]] \/ at[1][at[2]] = END_OF_VSA

\* A turn of the search keeps the memory and takes the end of the block in
\* hand further on.
LEMMA FindTurns ==
  ASSUME NEW live, NEW at \in Walks(live), NEW n \in Nat \ {0}
  PROVE  LET on == FindTurn(at, n) IN
         /\ on \in Walks(live)
         /\ SearchEnds(at, n) => on = at
         /\ ~SearchEnds(at, n) =>
              \/ SearchEnds(on, n)
              \/ on[2] \in DOMAIN on[1] /\ at[2] \in DOMAIN at[1]
                 /\ GetNextBlock(on[1], on[2]) > GetNextBlock(at[1], at[2])
<1> DEFINE size == at[1]
           b == at[2]
           on == FindTurn(at, n)
           next == GetNextBlock(size, b)
<1>0. b \in Nat /\ Memory(size, live) /\ Tiled(size) /\ at \in Walks(live)
  BY WalkFacts DEF Memory
<1>1. SearchEnds(at, n) => on = at
  BY DEF SearchEnds, FindTurn
<1>2. CASE SearchEnds(at, n)
  <2> HIDE DEF on
  <2> QED BY <1>0, <1>1, <1>2 DEF on
<1>3. CASE ~SearchEnds(at, n)
  <2>1. b \in DOMAIN size /\ ~(n <= size[b]) /\ size[b] # 0
    BY <1>3 DEF SearchEnds, END_OF_VSA
  <2>2. /\ size[b] \in Int /\ b # VsaEnd /\ next \in Nat /\ next > b
        /\ size[b] > 0 => next = b + size[b] + VsaHeader
    BY <1>0, <2>1, NextFacts
  <2>3. next \in DOMAIN size /\ \A c \in DOMAIN size : c <= b \/ c >= next
    BY <1>0, <2>1, <2>2 DEF Tiled
  <2>4. on = IF size[b] < 0 THEN <<size, next>>
             ELSE IF NextIsFree(size, b) THEN <<Merge(size, b), b>>
             ELSE <<size, b + size[b]>>
    BY <2>1 DEF FindTurn, END_OF_VSA
  <2> HIDE DEF on, next, size, b
  <2>5. CASE size[b] < 0
    <3>1. on = <<size, next>> /\ on[1] = size /\ on[2] = next
      BY <2>4, <2>5
    <3>2. on \in Walks(live)
      BY <1>0, <2>2, <3>1, WalkFacts
    <3>3. GetNextBlock(size, next) > next
      BY <1>0, <2>3, NextFacts
    <3> QED BY <1>3, <2>1, <2>3, <3>1, <3>2, <3>3 DEF on, next, size, b
  <2>6. CASE ~(size[b] < 0) /\ NextIsFree(size, b)
    <3>1. on = <<Merge(size, b), b>> /\ on[1] = Merge(size, b) /\ on[2] = b
      BY <2>4, <2>6
    <3>2. size[b] > 0
      BY <2>1, <2>2, <2>6
    <3>3. /\ Memory(Merge(size, b), live) /\ b \in DOMAIN Merge(size, b)
          /\ GetNextBlock(Merge(size, b), b) > next
      BY <1>0, <2>1, <2>6, <3>2, MergeKeeps DEF next
    <3>4. on \in Walks(live)
      BY <1>0, <3>1, <3>3, WalkFacts
    <3> QED BY <1>3, <2>1, <3>1, <3>3, <3>4 DEF on, next, size, b
  <2>7. CASE ~(size[b] < 0) /\ ~NextIsFree(size, b)
    <3>1. on = <<size, b + size[b]>> /\ on[1] = size /\ on[2] = b + size[b]
      BY <2>4, <2>7
    <3>2. size[b] > 0 /\ b + size[b] \in Nat
      BY <1>0, <2>1, <2>2, <2>7
    <3>3. b + size[b] > b /\ b + size[b] < next
      BY <1>0, <2>2, <3>2, EndFacts
    <3>4. b + size[b] \notin DOMAIN size
      BY <1>0, <2>2, <2>3, <3>2, <3>3
    <3>5. SearchEnds(on, n)
      BY <3>1, <3>4 DEF SearchEnds
    <3>6. on \in Walks(live)
      BY <1>0, <3>1, <3>2, WalkFacts
    <3> QED BY <1>3, <3>5, <3>6 DEF on
  <2> QED BY <2>5, <2>6, <2>7
<1> QED BY <1>2, <1>3

\* What FindEnoughBlockSize computes, turn by turn.
Search(size, from, n, turn) ==
  turn = [k \in Nat |-> IF k = 0 THEN <<size, from>> ELSE FindTurn(turn[k - 1], n)]

\* The loop of FindEnoughBlockSize has a value.
LEMMA SearchExists ==
  ASSUME NEW size, NEW live, Memory(size, live), NEW n \in Nat \ {0},
         NEW from \in DOMAIN size
  PROVE  \E turn : Search(size, from, n, turn) /\ FindEnoughBlockSize(size, from, n) = turn[VsaMemory]
<1> DEFINE S == Walks(live)
           st == [q \in Nat \X S |-> FindTurn(q[2], n)]
<1>1. <<size, from>> \in S
  BY WalkFacts, NextFacts DEF Memory
<1>2. \A at \in S : FindTurn(at, n) \in S
  BY FindTurns
<1> HIDE DEF S
<1>3. st \in [Nat \X S -> S]
  BY <1>2
<1>4. \A k \in Nat, at \in S : st[<<k, at>>] = FindTurn(at, n)
  OBVIOUS
<1> HIDE DEF st
<1>5. PICK f : f \in GoesOn(S, <<size, from>>, st)
  BY <1>1, <1>3, Recursion
<1>6. f \in [Nat -> S] /\ f[0] = <<size, from>> /\ \A k \in Nat : f[k + 1] = FindTurn(f[k], n)
  <2>1. f \in [Nat -> S] /\ f[0] = <<size, from>> /\ \A k \in Nat : f[k + 1] = st[<<k, f[k]>>]
    BY <1>5 DEF GoesOn
  <2> QED BY <1>4, <2>1
<1>7. \A k \in Nat : f[k] = IF k = 0 THEN <<size, from>> ELSE FindTurn(f[k - 1], n)
  <2> SUFFICES ASSUME NEW k \in Nat, k # 0 PROVE f[k] = FindTurn(f[k - 1], n)
    BY <1>6
  <2>1. k - 1 \in Nat /\ (k - 1) + 1 = k
    OBVIOUS
  <2> QED BY <1>6, <2>1
<1>8. f = [k \in Nat |-> IF k = 0 THEN <<size, from>> ELSE FindTurn(f[k - 1], n)]
  BY <1>6, <1>7
<1>9. Search(size, from, n, f)
  BY <1>8 DEF Search
<1> QED BY <1>9 DEF Search, FindEnoughBlockSize

\* The search ends in time, with the memory in order.
LEMMA SearchFinds ==
  ASSUME NEW size, NEW live, Memory(size, live), NEW n \in Nat \ {0},
         NEW from \in DOMAIN size
  PROVE  /\ FindEnoughBlockSize(size, from, n) \in Walks(live)
         /\ SearchEnds(FindEnoughBlockSize(size, from, n), n)
<1>1. PICK turn : Search(size, from, n, turn) /\ FindEnoughBlockSize(size, from, n) = turn[VsaMemory]
  BY SearchExists
<1>2. /\ turn[0] = <<size, from>>
      /\ \A k \in Nat : k # 0 => turn[k] = FindTurn(turn[k - 1], n)
  BY <1>1 DEF Search
<1> DEFINE Far(k) == /\ turn[k] \in Walks(live)
                     /\ \/ SearchEnds(turn[k], n)
                        \/ /\ turn[k][2] \in DOMAIN turn[k][1]
                           /\ GetNextBlock(turn[k][1], turn[k][2]) > k
<1>3. Far(0)
  <2>1. from \in Nat /\ (from = VsaEnd \/ GetNextBlock(size, from) > 0)
    BY NextFacts DEF Memory
  <2>2. turn[0] \in Walks(live) /\ turn[0][1] = size /\ turn[0][2] = from
    BY <1>2, <2>1, WalkFacts
  <2>3. from = VsaEnd => SearchEnds(turn[0], n)
    BY <2>2 DEF SearchEnds, END_OF_VSA, Memory, Tiled
  <2> QED BY <2>1, <2>2, <2>3
<1>4. ASSUME NEW k \in Nat, k # 0, Far(k - 1) PROVE Far(k)
  <2> DEFINE at == turn[k - 1]
             on == turn[k]
  <2>1. at \in Walks(live) /\ on = FindTurn(at, n)
    BY <1>2, <1>4
  <2>2. /\ on \in Walks(live)
        /\ SearchEnds(at, n) => on = at
        /\ ~SearchEnds(at, n) =>
             \/ SearchEnds(on, n)
             \/ on[2] \in DOMAIN on[1] /\ at[2] \in DOMAIN at[1]
                /\ GetNextBlock(on[1], on[2]) > GetNextBlock(at[1], at[2])
    BY <2>1, FindTurns
  <2>3. CASE SearchEnds(at, n)
    BY <2>2, <2>3
  <2>4. CASE ~SearchEnds(at, n)
    <3>1. CASE SearchEnds(on, n)
      BY <2>2, <3>1
    <3>2. CASE ~SearchEnds(on, n)
      <4>1. /\ on[2] \in DOMAIN on[1] /\ at[2] \in DOMAIN at[1]
            /\ GetNextBlock(on[1], on[2]) > GetNextBlock(at[1], at[2])
            /\ GetNextBlock(at[1], at[2]) > k - 1
        BY <1>4, <2>2, <2>4, <3>2
      <4>2. GetNextBlock(on[1], on[2]) \in Nat /\ GetNextBlock(at[1], at[2]) \in Nat
        BY <2>1, <2>2, <4>1, WalkFacts, NextFacts DEF Memory
      <4> QED BY <2>2, <4>1, <4>2
    <3> QED BY <3>1, <3>2
  <2> QED BY <2>3, <2>4
<1>5. Far(VsaMemory)
  <2> DEFINE Bad == {k \in Nat : ~Far(k)}
  <2> SUFFICES ASSUME Bad # {} PROVE FALSE
    BY EndFacts
  <2>1. PICK k \in Bad : \A j \in Bad : k <= j
    <3>1. Bad \subseteq Nat
      OBVIOUS
    <3> HIDE DEF Bad
    <3> QED BY <3>1, Smallest
  <2> HIDE DEF Far
  <2>2. k \in Nat /\ ~Far(k)
    OBVIOUS
  <2>3. k # 0
    BY <1>3, <2>2
  <2>4. k - 1 \in Nat /\ k - 1 \notin Bad
    BY <2>1, <2>2, <2>3
  <2>5. Far(k - 1)
    BY <2>4
  <2> QED BY <1>4, <2>2, <2>3, <2>5
<1>6. SearchEnds(turn[VsaMemory], n)
  <2> DEFINE at == turn[VsaMemory]
  <2> SUFFICES ASSUME ~SearchEnds(at, n) PROVE FALSE
    OBVIOUS
  <2>1. at \in Walks(live) /\ at[2] \in DOMAIN at[1] /\ GetNextBlock(at[1], at[2]) > VsaMemory
    BY <1>5
  <2>2. Tiled(at[1])
    BY <2>1, WalkFacts DEF Memory
  <2> HIDE DEF at
  <2>3. at[2] # VsaEnd
    <3>1. at[1][at[2]] # 0
      BY DEF SearchEnds, END_OF_VSA
    <3> QED BY <2>1, <2>2, <3>1, NextFacts
  <2>4. GetNextBlock(at[1], at[2]) \in 0 .. VsaEnd
    BY <2>1, <2>2, <2>3 DEF Tiled
  <2> QED BY <2>1, <2>4, EndFacts
<1> QED BY <1>1, <1>5, <1>6

\* A turn of VSALargestChunkAvailable: the same, and always from header to header.
MergeEnds(at) == at[1][at[2]] = END_OF_VSA

\* While nobody has a block, it stays at the first header until that is all.
MergesAll(at) == \/ at[2] = 0
                 \/ at[2] = VsaEnd /\ GetNextBlock(at[1], 0) = VsaEnd

LEMMA MergeTurns ==
  ASSUME NEW live, NEW at \in Walks(live), at[2] \in DOMAIN at[1]
  PROVE  LET on == MergeTurn(at) IN
         /\ on \in Walks(live) /\ on[2] \in DOMAIN on[1]
         /\ MergeEnds(at) => on = at
         /\ ~MergeEnds(at) => GetNextBlock(on[1], on[2]) > GetNextBlock(at[1], at[2])
         /\ DOMAIN live = {} /\ MergesAll(at) => MergesAll(on)
<1> DEFINE size == at[1]
           b == at[2]
           on == MergeTurn(at)
           next == GetNextBlock(size, b)
<1>0. /\ b \in Nat /\ Memory(size, live) /\ Tiled(size) /\ MarkedAs(size, live)
      /\ b \in DOMAIN size
  BY WalkFacts DEF Memory
<1>1. CASE MergeEnds(at)
  <2>1. on = at
    BY <1>1 DEF MergeEnds, MergeTurn
  <2> HIDE DEF on
  <2> QED BY <1>1, <2>1 DEF on
<1>2. CASE ~MergeEnds(at)
  <2>1. size[b] # 0
    BY <1>2 DEF MergeEnds, END_OF_VSA
  <2>2. size[b] \in Int /\ b # VsaEnd /\ next \in Nat /\ next > b
    BY <1>0, <2>1, NextFacts
  <2>3. next \in DOMAIN size
    BY <1>0, <2>2 DEF Tiled
  <2>4. on = IF size[b] > 0 /\ NextIsFree(size, b) THEN <<Merge(size, b), b>> ELSE <<size, next>>
    BY <2>1 DEF MergeTurn, END_OF_VSA
  <2> HIDE DEF on, next, size, b
  <2>5. CASE size[b] > 0 /\ NextIsFree(size, b)
    <3>1. on = <<Merge(size, b), b>> /\ on[1] = Merge(size, b) /\ on[2] = b
      BY <2>4, <2>5
    <3>2. /\ Memory(Merge(size, b), live) /\ b \in DOMAIN Merge(size, b)
          /\ GetNextBlock(Merge(size, b), b) > next
      BY <1>0, <2>5, MergeKeeps DEF next
    <3>3. on \in Walks(live)
      BY <1>0, <3>1, <3>2, WalkFacts
    <3>4. MergesAll(at) => MergesAll(on)
      BY <2>2, <3>1 DEF MergesAll, b
    <3> QED BY <1>2, <3>1, <3>2, <3>3, <3>4 DEF on, next, size, b
  <2>6. CASE ~(size[b] > 0 /\ NextIsFree(size, b))
    <3>1. on = <<size, next>> /\ on[1] = size /\ on[2] = next
      BY <2>4, <2>6
    <3>2. on \in Walks(live)
      BY <1>0, <2>2, <3>1, WalkFacts
    <3>3. GetNextBlock(size, next) > next
      BY <1>0, <2>3, NextFacts
    <3>4. ASSUME DOMAIN live = {}, MergesAll(at) PROVE MergesAll(on)
      <4>1. b = 0
        BY <2>2, <3>4 DEF MergesAll, b
      <4>2. size[b] > 0
        BY <1>0, <2>2, <3>4 DEF MarkedAs
      <4>3. ~(size[next] > 0)
        BY <2>6, <4>2 DEF NextIsFree, next
      <4>4. next = VsaEnd
        BY <1>0, <2>3, <3>4, <4>3 DEF MarkedAs
      <4> QED BY <3>1, <4>1, <4>4 DEF MergesAll, next
    <3> QED BY <1>2, <2>3, <3>1, <3>2, <3>3, <3>4 DEF on, next, size, b
  <2> QED BY <2>5, <2>6
<1> QED BY <1>1, <1>2

\* What MergeWalk computes, turn by turn.
Merging(size, turn) ==
  turn = [k \in Nat |-> IF k = 0 THEN <<size, 0>> ELSE MergeTurn(turn[k - 1])]

\* The loop of VSALargestChunkAvailable has a value.
LEMMA MergingExists ==
  ASSUME NEW size, NEW live, Memory(size, live)
  PROVE  \E turn : Merging(size, turn) /\ MergeWalk(size) = turn[VsaMemory][1]
<1> DEFINE S == {at \in Walks(live) : at[2] \in DOMAIN at[1]}
           st == [q \in Nat \X S |-> MergeTurn(q[2])]
<1>1. <<size, 0>> \in S
  <2>1. <<size, 0>> \in Walks(live)
    BY WalkFacts
  <2>2. 0 \in DOMAIN size
    BY DEF Memory, Tiled
  <2> QED BY <2>1, <2>2
<1>2. \A at \in S : MergeTurn(at) \in S
  BY MergeTurns
<1> HIDE DEF S
<1>3. st \in [Nat \X S -> S]
  BY <1>2
<1>4. \A k \in Nat, at \in S : st[<<k, at>>] = MergeTurn(at)
  OBVIOUS
<1> HIDE DEF st
<1>5. PICK f : f \in GoesOn(S, <<size, 0>>, st)
  BY <1>1, <1>3, Recursion
<1>6. f \in [Nat -> S] /\ f[0] = <<size, 0>> /\ \A k \in Nat : f[k + 1] = MergeTurn(f[k])
  <2>1. f \in [Nat -> S] /\ f[0] = <<size, 0>> /\ \A k \in Nat : f[k + 1] = st[<<k, f[k]>>]
    BY <1>5 DEF GoesOn
  <2> QED BY <1>4, <2>1
<1>7. \A k \in Nat : f[k] = IF k = 0 THEN <<size, 0>> ELSE MergeTurn(f[k - 1])
  <2> SUFFICES ASSUME NEW k \in Nat, k # 0 PROVE f[k] = MergeTurn(f[k - 1])
    BY <1>6
  <2>1. k - 1 \in Nat /\ (k - 1) + 1 = k
    OBVIOUS
  <2> QED BY <1>6, <2>1
<1>8. f = [k \in Nat |-> IF k = 0 THEN <<size, 0>> ELSE MergeTurn(f[k - 1])]
  BY <1>6, <1>7
<1>9. Merging(size, f)
  BY <1>8 DEF Merging
<1> QED BY <1>9 DEF Merging, MergeWalk

\* It keeps the memory in order, and what nobody has becomes one block.
LEMMA MergingMerges ==
  ASSUME NEW size, NEW live, Memory(size, live)
  PROVE  /\ Memory(MergeWalk(size), live)
         /\ DOMAIN live = {} => GetNextBlock(MergeWalk(size), 0) = VsaEnd
<1>1. PICK turn : Merging(size, turn) /\ MergeWalk(size) = turn[VsaMemory][1]
  BY MergingExists
<1>2. /\ turn[0] = <<size, 0>>
      /\ \A k \in Nat : k # 0 => turn[k] = MergeTurn(turn[k - 1])
  BY <1>1 DEF Merging
<1> DEFINE Far(k) == /\ turn[k] \in Walks(live) /\ turn[k][2] \in DOMAIN turn[k][1]
                     /\ MergeEnds(turn[k]) \/ GetNextBlock(turn[k][1], turn[k][2]) > k
                     /\ DOMAIN live = {} => MergesAll(turn[k])
<1>3. Far(0)
  <2>1. turn[0] \in Walks(live) /\ turn[0][1] = size /\ turn[0][2] = 0
    BY <1>2, WalkFacts
  <2>2. 0 \in DOMAIN size /\ GetNextBlock(size, 0) > 0
    BY NextFacts DEF Memory, Tiled
  <2> QED BY <2>1, <2>2 DEF MergesAll
<1>4. ASSUME NEW k \in Nat, k # 0, Far(k - 1) PROVE Far(k)
  <2> DEFINE at == turn[k - 1]
             on == turn[k]
  <2>1. at \in Walks(live) /\ at[2] \in DOMAIN at[1] /\ on = MergeTurn(at)
    BY <1>2, <1>4
  <2>2. /\ on \in Walks(live) /\ on[2] \in DOMAIN on[1]
        /\ MergeEnds(at) => on = at
        /\ ~MergeEnds(at) => GetNextBlock(on[1], on[2]) > GetNextBlock(at[1], at[2])
        /\ DOMAIN live = {} /\ MergesAll(at) => MergesAll(on)
    BY <2>1, MergeTurns
  <2>3. MergeEnds(on) \/ GetNextBlock(on[1], on[2]) > k
    <3>1. CASE MergeEnds(at)
      BY <2>2, <3>1
    <3>2. CASE ~MergeEnds(at)
      <4>1. /\ GetNextBlock(on[1], on[2]) > GetNextBlock(at[1], at[2])
            /\ GetNextBlock(at[1], at[2]) > k - 1
        BY <1>4, <2>2, <3>2
      <4>2. GetNextBlock(on[1], on[2]) \in Nat /\ GetNextBlock(at[1], at[2]) \in Nat
        BY <2>1, <2>2, WalkFacts, NextFacts DEF Memory
      <4> QED BY <4>1, <4>2
    <3> QED BY <3>1, <3>2
  <2> QED BY <1>4, <2>2, <2>3
<1>5. Far(VsaMemory)
  <2> DEFINE Bad == {k \in Nat : ~Far(k)}
  <2> SUFFICES ASSUME Bad # {} PROVE FALSE
    BY EndFacts
  <2>1. PICK k \in Bad : \A j \in Bad : k <= j
    <3>1. Bad \subseteq Nat
      OBVIOUS
    <3> HIDE DEF Bad
    <3> QED BY <3>1, Smallest
  <2> HIDE DEF Far
  <2>2. k \in Nat /\ ~Far(k)
    OBVIOUS
  <2>3. k # 0
    BY <1>3, <2>2
  <2>4. k - 1 \in Nat /\ k - 1 \notin Bad
    BY <2>1, <2>2, <2>3
  <2>5. Far(k - 1)
    BY <2>4
  <2> QED BY <1>4, <2>2, <2>3, <2>5
<1> DEFINE at == turn[VsaMemory]
<1>6. /\ Memory(at[1], live) /\ Tiled(at[1]) /\ at[2] \in DOMAIN at[1]
      /\ MergeEnds(at) \/ GetNextBlock(at[1], at[2]) > VsaMemory
      /\ DOMAIN live = {} => MergesAll(at)
  BY <1>5, WalkFacts DEF Memory
<1> HIDE DEF at
<1>7. at[2] = VsaEnd
  <2> SUFFICES ASSUME at[2] # VsaEnd PROVE FALSE
    OBVIOUS
  <2>1. ~MergeEnds(at)
    BY <1>6, NextFacts DEF MergeEnds, END_OF_VSA
  <2>2. GetNextBlock(at[1], at[2]) \in 0 .. VsaEnd
    BY <1>6 DEF Tiled
  <2> QED BY <1>6, <2>1, <2>2, EndFacts
<1>8. DOMAIN live = {} => GetNextBlock(at[1], 0) = VsaEnd
  BY <1>6, <1>7, EndFacts DEF MergesAll
<1> QED BY <1>1, <1>6, <1>8 DEF at

\* When nobody has a block, the largest one is all there was at first.
LEMMA NothingIsLost ==
  ASSUME NEW size, NEW live, Memory(size, live), DOMAIN live = {}
  PROVE  LargestChunk(size) = VsaMemory - 2 * VsaHeader
<1> DEFINE m == MergeWalk(size)
           R == Range(m)
           all == VsaMemory - 2 * VsaHeader
<1>1. Tiled(m) /\ MarkedAs(m, live) /\ GetNextBlock(m, 0) = VsaEnd
  BY MergingMerges DEF Memory
<1> HIDE DEF m
<1>2. 0 \in DOMAIN m /\ 0 # VsaEnd /\ m[0] \in Int /\ m[0] > 0
  BY <1>1, EndFacts DEF Tiled, MarkedAs
<1>3. m[0] = all
  <2>1. GetNextBlock(m, 0) = 0 + m[0] + VsaHeader
    BY <1>1, <1>2, NextFacts
  <2> QED BY <1>1, <1>2, <2>1, EndFacts DEF VsaEnd
<1>4. \A b \in DOMAIN m : b = 0 \/ b = VsaEnd
  <2> SUFFICES ASSUME NEW b \in DOMAIN m PROVE b = 0 \/ b = VsaEnd
    OBVIOUS
  <2>1. b <= 0 \/ b >= VsaEnd
    BY <1>1, <1>2 DEF Tiled
  <2>2. b \in 0 .. VsaEnd
    BY <1>1 DEF Tiled
  <2> QED BY <2>1, <2>2, EndFacts
<1>5. m[VsaEnd] = 0 /\ all \in Int /\ all > 0
  BY <1>1, <1>2, <1>3 DEF Tiled
<1>6. all \in R /\ \A y \in R : y = all \/ y = 0
  BY <1>2, <1>3, <1>4, <1>5 DEF Range
<1> HIDE DEF R, all
<1>7. \E x \in R : \A y \in R : x >= y
  BY <1>5, <1>6
<1>8. Max(R) \in R /\ \A y \in R : Max(R) >= y
  BY <1>7 DEF Max
<1>9. Max(R) = all
  <2>1. Max(R) = all \/ Max(R) = 0
    BY <1>6, <1>8
  <2>2. Max(R) >= all
    BY <1>6, <1>8
  <2>3. ~(0 >= all)
    BY <1>5
  <2> QED BY <2>1, <2>2, <2>3
<1> QED BY <1>9 DEF LargestChunk, R, m, all

\* AllocateBlock marks a free block that is large enough, or a part of it.
LEMMA AllocateKeeps ==
  ASSUME NEW size, NEW live, NEW b \in DOMAIN size, NEW n \in Nat \ {0},
         Memory(size, live), n <= size[b]
  PROVE  Memory(AllocateBlock(size, b, n),
                [x \in DOMAIN live \cup {b} |-> IF x = b THEN n ELSE live[x]])
<1> DEFINE m == AllocateBlock(size, b, n)
           L == [x \in DOMAIN live \cup {b} |-> IF x = b THEN n ELSE live[x]]
           D == DOMAIN size
           next == GetNextBlock(size, b)
<1>0. Tiled(size) /\ MarkedAs(size, live) /\ size \in [D -> Int] /\ D \subseteq 0 .. VsaEnd
  BY DEF Memory, Tiled
<1>1. size[b] \in Int /\ size[b] > 0 /\ b \in Nat
  BY <1>0, NextFacts
<1>2. b # VsaEnd /\ next \in Nat /\ next = b + size[b] + VsaHeader /\ next > b
  BY <1>0, <1>1, NextFacts
<1>3. next \in D /\ \A c \in D : c <= b \/ c >= next
  BY <1>0, <1>2 DEF Tiled
<1>4. b \notin DOMAIN live
  <2>1. \A c \in DOMAIN live : live[c] \in Nat \ {0} /\ -size[c] >= live[c]
    BY <1>0 DEF MarkedAs
  <2> QED BY <1>1, <2>1
<1>5. /\ DOMAIN L = DOMAIN live \cup {b} /\ L[b] = n
      /\ \A c \in DOMAIN live : L[c] = live[c]
  BY <1>4
<1> HIDE DEF L, D, next, m
<1>6. CASE n + VsaHeader >= size[b]
  <2>1. m = [size EXCEPT ![b] = -size[b]]
    BY <1>6 DEF AllocateBlock, m
  <2>2. /\ DOMAIN m = D /\ m[b] = -size[b] /\ m \in [D -> Int]
        /\ \A c \in D : c # b => m[c] = size[c]
    BY <1>0, <1>1, <2>1 DEF D
  <2>3. \A c \in D : GetNextBlock(m, c) = GetNextBlock(size, c)
    <3>1. GetNextBlock(m, b) = GetNextBlock(size, b)
      BY <1>1, <2>2 DEF GetNextBlock, Abs
    <3>2. \A c \in D : c # b => GetNextBlock(m, c) = GetNextBlock(size, c)
      BY <2>2 DEF GetNextBlock
    <3> QED BY <3>1, <3>2
  <2>4. m[b] # 0
    BY <1>1, <2>2
  <2>5. Tiled(m)
    BY <1>0, <1>2, <2>2, <2>3, <2>4 DEF Tiled, D
  <2>6. MarkedAs(m, L)
    <3>1. -m[b] >= n
      BY <1>1, <2>2
    <3> QED BY <1>0, <1>2, <1>5, <2>2, <3>1 DEF MarkedAs, D
  <2> QED BY <2>5, <2>6 DEF Memory, m, L
<1>7. CASE ~(n + VsaHeader >= size[b])
  <2> DEFINE r == b + n + VsaHeader
  <2>1. r \in Nat /\ r > b /\ r < next
    BY <1>1, <1>2, <1>7, EndFacts
  <2>2. r \notin D
    BY <1>1, <1>2, <1>3, <2>1
  <2>3. m = [x \in D \cup {r} |-> IF x = b THEN -n
                                  ELSE IF x = r THEN size[b] - n - VsaHeader ELSE size[x]]
    BY <1>7 DEF AllocateBlock, m, D
  <2> HIDE DEF r
  <2>4. b # r /\ b \in D /\ b \in D \cup {r} /\ r \in D \cup {r} /\ \A c \in D : c # r /\ size[c] \in Int
    BY <1>0, <1>1, <2>1, <2>2 DEF D
  <2>5. -n \in Int /\ size[b] - n - VsaHeader \in Int /\ size[b] - n - VsaHeader > 0 /\ -n # 0
    BY <1>1, <1>7, EndFacts
  <2>6. /\ DOMAIN m = D \cup {r} /\ m[b] = -n /\ m[r] = size[b] - n - VsaHeader
        /\ \A c \in D : c # b => m[c] = size[c]
        /\ m \in [D \cup {r} -> Int]
    BY <2>3, <2>4, <2>5
  <2>7. /\ GetNextBlock(m, b) = r /\ GetNextBlock(m, r) = next
        /\ \A c \in D : c # b => GetNextBlock(m, c) = GetNextBlock(size, c)
    <3>1. GetNextBlock(m, b) = r
      BY <1>1, <2>6, EndFacts DEF GetNextBlock, Abs, r
    <3>2. GetNextBlock(m, r) = r + (size[b] - n - VsaHeader) + VsaHeader
      BY <2>5, <2>6 DEF GetNextBlock, Abs
    <3>3. r + (size[b] - n - VsaHeader) + VsaHeader = next
      BY <1>1, <1>2, EndFacts DEF r
    <3>4. \A c \in D : c # b => GetNextBlock(m, c) = GetNextBlock(size, c)
      BY <2>6 DEF GetNextBlock
    <3> QED BY <3>1, <3>2, <3>3, <3>4
  <2>8. Tiled(m)
    <3>1. next \in 0 .. VsaEnd
      BY <1>0, <1>3
    <3>2. D \cup {r} \subseteq 0 .. VsaEnd /\ r # VsaEnd
      BY <1>0, <2>1, <3>1, EndFacts
    <3>3. 0 \in D /\ VsaEnd \in D /\ m[VsaEnd] = 0
      BY <1>0, <1>2, <2>6 DEF Tiled, D
    <3>4. ASSUME NEW c \in D \cup {r}, c # VsaEnd
          PROVE  /\ m[c] # 0 /\ GetNextBlock(m, c) \in D \cup {r}
                 /\ \A d \in D \cup {r} : d <= c \/ d >= GetNextBlock(m, c)
      <4>0. \A d \in D \cup {r} : d \in Nat
        BY <3>2
      <4>1. CASE c = b
        <5>1. \A d \in D \cup {r} : d <= b \/ d >= r
          BY <1>1, <1>2, <1>3, <2>1, <4>0
        <5> QED BY <2>5, <2>6, <2>7, <4>1, <5>1
      <4>2. CASE c = r
        <5>1. \A d \in D \cup {r} : d <= r \/ d >= next
          BY <1>1, <1>2, <1>3, <2>1, <4>0
        <5> QED BY <1>3, <2>5, <2>6, <2>7, <4>2, <5>1
      <4>3. CASE c # b /\ c # r
        <5>1. /\ c \in D /\ size[c] # 0 /\ GetNextBlock(size, c) \in D
              /\ \A d \in D : d <= c \/ d >= GetNextBlock(size, c)
          BY <1>0, <3>4, <4>3 DEF Tiled, D
        <5>2. r <= c \/ r >= GetNextBlock(size, c)
          <6>1. GetNextBlock(size, c) \in Nat /\ GetNextBlock(size, c) > c
            BY <1>0, <5>1, NextFacts DEF D
          <6>2. b <= c \/ b >= GetNextBlock(size, c)
            BY <2>4, <5>1
          <6>3. c <= b \/ c >= next
            BY <1>3, <5>1
          <6> QED BY <1>1, <1>2, <2>1, <4>0, <4>3, <6>1, <6>2, <6>3
        <5> QED BY <2>6, <2>7, <4>3, <5>1, <5>2
      <4> QED BY <4>1, <4>2, <4>3
    <3> QED BY <2>6, <3>2, <3>3, <3>4 DEF Tiled
  <2>9. MarkedAs(m, L)
    <3>1. -m[b] >= n
      BY <2>6
    <3>2. \A c \in DOMAIN live : /\ c \in D /\ c # VsaEnd /\ c # b
                                 /\ live[c] \in Nat \ {0} /\ -size[c] >= live[c]
      BY <1>0, <1>4 DEF MarkedAs, D
    <3>3. \A c \in D : c # VsaEnd /\ c \notin DOMAIN live => size[c] > 0
      BY <1>0 DEF MarkedAs, D
    <3>4. ASSUME NEW c \in DOMAIN L
          PROVE  c \in DOMAIN m /\ c # VsaEnd /\ L[c] \in Nat \ {0} /\ -m[c] >= L[c]
      <4>1. CASE c = b
        BY <1>2, <1>5, <2>4, <2>6, <3>1, <4>1
      <4>2. CASE c # b
        BY <1>5, <2>6, <3>2, <3>4, <4>2
      <4> QED BY <4>1, <4>2
    <3>5. ASSUME NEW c \in DOMAIN m, c # VsaEnd, c \notin DOMAIN L
          PROVE  m[c] > 0
      <4>1. c # b /\ c \notin DOMAIN live
        BY <1>5, <3>5
      <4> QED BY <2>5, <2>6, <3>3, <3>5, <4>1
    <3> QED BY <3>4, <3>5 DEF MarkedAs
  <2> QED BY <2>8, <2>9 DEF Memory, m, L
<1> QED BY <1>6, <1>7

\* VSAFree makes a block free where it is.
LEMMA FreeKeeps ==
  ASSUME NEW size, NEW live, NEW b \in DOMAIN live, Memory(size, live)
  PROVE  Memory([size EXCEPT ![b] = Abs(@)], Restrict(live, DOMAIN live \ {b}))
<1> DEFINE m == [size EXCEPT ![b] = Abs(size[b])]
           L == Restrict(live, DOMAIN live \ {b})
           D == DOMAIN size
<1>0. Tiled(size) /\ MarkedAs(size, live) /\ size \in [D -> Int]
  BY DEF Memory, Tiled
<1>1. b \in D /\ b # VsaEnd /\ size[b] \in Int /\ size[b] < 0
  BY <1>0 DEF MarkedAs
<1>2. Abs(size[b]) = -size[b] /\ -size[b] \in Int /\ -size[b] > 0
  BY <1>1 DEF Abs
<1>3. /\ DOMAIN m = D /\ m[b] = -size[b] /\ m \in [D -> Int]
      /\ \A c \in D : c # b => m[c] = size[c]
  BY <1>0, <1>1, <1>2
<1>4. DOMAIN L = DOMAIN live \ {b} /\ \A c \in DOMAIN live \ {b} : L[c] = live[c]
  BY DEF Restrict
<1> HIDE DEF m, L
<1>5. \A c \in D : GetNextBlock(m, c) = GetNextBlock(size, c)
  <2>1. GetNextBlock(m, b) = GetNextBlock(size, b)
    BY <1>1, <1>3 DEF GetNextBlock, Abs
  <2>2. \A c \in D : c # b => GetNextBlock(m, c) = GetNextBlock(size, c)
    BY <1>3 DEF GetNextBlock
  <2> QED BY <2>1, <2>2
<1> HIDE DEF D
<1>6. Tiled(m)
  <2>1. m[b] # 0
    BY <1>1, <1>3
  <2> QED BY <1>0, <1>1, <1>3, <1>5, <2>1 DEF Tiled, D
<1>7. MarkedAs(m, L)
  <2>1. ASSUME NEW c \in DOMAIN L
        PROVE  c \in DOMAIN m /\ c # VsaEnd /\ L[c] \in Nat \ {0} /\ -m[c] >= L[c]
    BY <1>0, <1>3, <1>4 DEF MarkedAs, D
  <2>2. ASSUME NEW c \in DOMAIN m, c # VsaEnd, c \notin DOMAIN L
        PROVE  m[c] > 0
    <3>1. CASE c = b
      BY <1>2, <1>3, <3>1
    <3>2. CASE c # b
      BY <1>0, <1>3, <1>4, <2>2, <3>2 DEF MarkedAs, D
    <3> QED BY <3>1, <3>2
  <2> QED BY <2>1, <2>2 DEF MarkedAs
<1>8. Memory(m, L)
  BY <1>6, <1>7 DEF Memory
<1> QED BY <1>8 DEF m, L

VsaInv == ~vsaLost => Memory(vsaSize, vsaLive)

\* VSAInit makes one free block.
LEMMA VsaStartsRight == VSAInit => VsaInv
<1> SUFFICES ASSUME VSAInit PROVE VsaInv
  OBVIOUS
<1> DEFINE D == {0, VsaEnd}
           largest == VsaMemory - 2 * VsaHeader
<1>1. largest \in Int /\ largest > 0 /\ largest + VsaHeader = VsaEnd /\ VsaEnd # 0
  BY EndFacts, VsaAssumption DEF VsaEnd
<1>2. /\ vsaSize = [b \in D |-> IF b = 0 THEN largest ELSE 0]
      /\ DOMAIN vsaLive = {}
  BY <1>1 DEF VSAInit, END_OF_VSA
<1> HIDE DEF largest
<1>3. /\ DOMAIN vsaSize = D /\ vsaSize[0] = largest /\ vsaSize[VsaEnd] = 0
      /\ vsaSize \in [D -> Int]
  BY <1>1, <1>2
<1>4. GetNextBlock(vsaSize, 0) = VsaEnd
  BY <1>1, <1>3, EndFacts DEF GetNextBlock, Abs
<1>5. Tiled(vsaSize)
  <2>1. D \subseteq 0 .. VsaEnd
    BY EndFacts
  <2>2. \A c \in D : c <= 0 \/ c >= VsaEnd
    BY EndFacts
  <2> QED BY <1>1, <1>3, <1>4, <2>1, <2>2 DEF Tiled
<1>6. MarkedAs(vsaSize, vsaLive)
  BY <1>1, <1>2, <1>3 DEF MarkedAs
<1> QED BY <1>5, <1>6 DEF VsaInv, Memory

\* What a search from a header finds is handed out in order.
LEMMA TakesKeeps ==
  ASSUME NEW size, Memory(size, vsaLive), NEW from \in DOMAIN size, NEW n \in Nat \ {0},
         Takes(FindEnoughBlockSize(size, from, n), n)
  PROVE  Memory(vsaSize', vsaLive')
<1> DEFINE found == FindEnoughBlockSize(size, from, n)
           new == found[1]
           b == found[2]
<1>1. found \in Walks(vsaLive) /\ SearchEnds(found, n)
  BY SearchFinds
<1>2. Memory(new, vsaLive)
  BY <1>1, WalkFacts
<1>3. \/ vsaSize' = new /\ vsaLive' = vsaLive
      \/ /\ b \in DOMAIN new /\ new[b] # 0
         /\ vsaSize' = AllocateBlock(new, b, n)
         /\ vsaLive' = [x \in DOMAIN vsaLive \cup {b} |-> IF x = b THEN n ELSE vsaLive[x]]
  BY DEF Takes, END_OF_VSA
<1> HIDE DEF found
<1>4. CASE vsaSize' = new /\ vsaLive' = vsaLive
  BY <1>2, <1>4
<1>5. CASE /\ b \in DOMAIN new /\ new[b] # 0
           /\ vsaSize' = AllocateBlock(new, b, n)
           /\ vsaLive' = [x \in DOMAIN vsaLive \cup {b} |-> IF x = b THEN n ELSE vsaLive[x]]
  <2>1. n <= new[b]
    BY <1>1, <1>5 DEF SearchEnds, END_OF_VSA
  <2> QED BY <1>2, <1>5, <2>1, AllocateKeeps
<1> QED BY <1>3, <1>4, <1>5

\* Every call keeps the memory in order, or is the one that strays.
LEMMA VsaStaysRight ==
  ASSUME VsaInv, VsaNext \/ UNCHANGED vsaVars
  PROVE  VsaInv'
<1>1. ASSUME NEW n \in 1 .. VsaMemory, VSAAlloc(n) PROVE VsaInv'
  <2> DEFINE found == FindEnoughBlockSize(vsaSize, 0, n)
  <2>1. n \in Nat \ {0}
    BY EndFacts
  <2>2. Memory(vsaSize, vsaLive) /\ 0 \in DOMAIN vsaSize
    BY <1>1 DEF VSAAlloc, VsaInv, Memory, Tiled
  <2>3. CASE Takes(found, n)
    BY <2>1, <2>2, <2>3, TakesKeeps DEF VsaInv
  <2>4. CASE Strays(found[1], n)
    <3>1. Memory(found[1], vsaLive)
      BY <2>1, <2>2, SearchFinds, WalkFacts
    <3> HIDE DEF found
    <3>2. CASE vsaSize' = found[1] /\ UNCHANGED <<vsaLive, vsaLost>>
      BY <3>1, <3>2 DEF VsaInv
    <3>3. ASSUME NEW x \in DOMAIN found[1],
                 Takes(FindEnoughBlockSize(found[1], x, n), n)
          PROVE  VsaInv'
      BY <2>1, <3>1, <3>3, TakesKeeps DEF VsaInv
    <3>4. CASE vsaLost' = TRUE
      BY <3>4 DEF VsaInv
    <3> QED BY <2>4, <3>2, <3>3, <3>4 DEF Strays
  <2> QED BY <1>1, <2>3, <2>4 DEF VSAAlloc
<1>2. ASSUME NEW b \in DOMAIN vsaLive, VSAFree(b) PROVE VsaInv'
  <2>1. Memory(vsaSize', vsaLive')
    BY <1>2, FreeKeeps DEF VSAFree, VsaInv
  <2> QED BY <2>1 DEF VsaInv
<1>3. CASE VSALargestChunkAvailable
  BY <1>3, MergingMerges DEF VSALargestChunkAvailable, VsaInv
<1>4. CASE UNCHANGED vsaVars
  BY <1>4 DEF vsaVars, VsaInv
<1> QED BY <1>1, <1>2, <1>3, <1>4 DEF VsaNext

\* No two blocks end at the same place.
LEMMA EndsDiffer ==
  ASSUME NEW size, Tiled(size)
  PROVE  Cardinality({GetNextBlock(size, b) : b \in DOMAIN size \ {VsaEnd}})
           = Cardinality(DOMAIN size) - 1
<1> DEFINE D == DOMAIN size
           S == D \ {VsaEnd}
           T == {GetNextBlock(size, b) : b \in S}
           f == [b \in S |-> GetNextBlock(size, b)]
<1>1. IsFiniteSet(D)
  <2>1. IsFiniteSet(0 .. VsaEnd)
    BY EndFacts, FS_Interval
  <2>2. D \in SUBSET (0 .. VsaEnd)
    BY DEF Tiled
  <2> QED BY <2>1, <2>2, FS_Subset
<1>2. IsFiniteSet(S) /\ Cardinality(S) = Cardinality(D) - 1
  <2>1. VsaEnd \in D
    BY DEF Tiled
  <2> QED BY <1>1, <2>1, FS_RemoveElement
<1>3. \A a, b \in S : GetNextBlock(size, a) = GetNextBlock(size, b) => a = b
  <2> SUFFICES ASSUME NEW a \in S, NEW b \in S, GetNextBlock(size, a) = GetNextBlock(size, b)
               PROVE  a = b
    OBVIOUS
  <2>1. /\ a \in Nat /\ b \in Nat /\ GetNextBlock(size, a) \in Nat
        /\ GetNextBlock(size, a) > a /\ GetNextBlock(size, b) > b
    BY NextFacts
  <2>2. (b <= a \/ b >= GetNextBlock(size, a)) /\ (a <= b \/ a >= GetNextBlock(size, b))
    BY DEF Tiled
  <2> QED BY <2>1, <2>2
<1>4. /\ f \in [S -> T] /\ \A b \in S : f[b] = GetNextBlock(size, b)
      /\ \A t \in T : \E b \in S : f[b] = t
  OBVIOUS
<1> HIDE DEF f, S, T
<1>5. f \in Bijection(S, T)
  BY <1>3, <1>4, Fun_IsBij
<1>6. Cardinality(T) = Cardinality(S)
  BY <1>2, <1>5, FS_Bijection DEF ExistsBijection
<1> QED BY <1>2, <1>6 DEF S, T, D

\* What the invariant says of the memory.
LEMMA VsaInvMeans == VsaInv => (~vsaLost => VsaTiles)
<1> SUFFICES ASSUME VsaInv, ~vsaLost PROVE VsaTiles
  OBVIOUS
<1>0. Memory(vsaSize, vsaLive) /\ Tiled(vsaSize) /\ MarkedAs(vsaSize, vsaLive)
  BY DEF VsaInv, Memory
<1>1. /\ VsaEnd \in DOMAIN vsaSize /\ vsaSize[VsaEnd] = END_OF_VSA
      /\ \A b \in DOMAIN vsaSize \ {VsaEnd} : GetNextBlock(vsaSize, b) \in DOMAIN vsaSize
  BY <1>0 DEF Tiled, END_OF_VSA
<1>2. Cardinality({GetNextBlock(vsaSize, b) : b \in DOMAIN vsaSize \ {VsaEnd}})
        = Cardinality(DOMAIN vsaSize) - 1
  BY <1>0, EndsDiffer
<1>3. /\ \A b \in DOMAIN vsaSize \ {VsaEnd} :
           IF b \in DOMAIN vsaLive THEN -vsaSize[b] >= vsaLive[b] ELSE vsaSize[b] > 0
      /\ DOMAIN vsaLive \subseteq DOMAIN vsaSize
  BY <1>0 DEF MarkedAs
<1>4. vsaLive = <<>> => LargestChunk(vsaSize) = VsaMemory - 2 * VsaHeader
  <2>1. vsaLive = <<>> => DOMAIN vsaLive = {}
    OBVIOUS
  <2> QED BY <1>0, <2>1, NothingIsLost
<1> QED BY <1>1, <1>2, <1>3, <1>4 DEF VsaTiles, VsaEnd

(***************************************************************************)
(* The inductive invariant of the two allocators: a list of all free       *)
(* blocks, and headers that tile the memory as long as no block was handed *)
(* out where no header is (fsa.c, vsa.c).                                  *)
(***************************************************************************)
THEOREM AllocatorsInvariance == AllocatorsSpec => [](FsaInv /\ VsaInv)
<1>1. FsaStart /\ VSAInit => FsaInv /\ VsaInv
  BY FsaStartsRight, VsaStartsRight
<1> DEFINE Step == \/ FsaNext /\ UNCHANGED vsaVars
                   \/ VsaNext /\ UNCHANGED fsaVars
<1>2. FsaInv /\ VsaInv /\ [Step]_<<fsaVars, vsaVars>> => (FsaInv /\ VsaInv)'
  BY FsaStaysRight, VsaStaysRight
<1> QED BY <1>1, <1>2, PTL DEF AllocatorsSpec

(***************************************************************************)
(* For every memory, header and size of block, whatever is allocated,      *)
(* freed and merged in which order: what is allocated and what is free     *)
(* divide the memory between them (FSAAlloc, FSAFree, VSAAlloc, VSAFree).  *)
(* For the variable-size allocator it is so until VSAAlloc, stepping over  *)
(* a free block without its header, hands out what it takes for one; a     *)
(* search that strays and returns NULL, or comes back to a header, does no *)
(* harm.                                                                   *)
(***************************************************************************)
THEOREM AllocatorsDivideTheMemory == AllocatorsSpec => []AllocatorsTile
BY AllocatorsInvariance, FsaInvMeans, VsaInvMeans, PTL DEF AllocatorsTile
=============================================================================
