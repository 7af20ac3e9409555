-------------------------------- MODULE Dhcp --------------------------------
(***************************************************************************)
(* The DHCP server (ds/dhcp/dhcp.c): a binary trie over the host bits of   *)
(* the addresses.  A node that exists has no address of its own in the     *)
(* model: it is the pair <<level, prefix>> of the bits that lead to it.    *)
(***************************************************************************)
EXTENDS Integers, FiniteSets

CONSTANTS IP_LENGTH,      \* bits of an address: 32 in the code
          SUBNET_LENGTH,  \* bits of the network's number
          SubNet          \* the network's number

\* Two host bits at least: with one, both addresses are reserved, and every
\* call finds the leaf full below a root that DhcpInit does not mark.
ASSUME DhcpAssumption == /\ IP_LENGTH \in Nat /\ SUBNET_LENGTH \in Nat
                         /\ SUBNET_LENGTH + 2 <= IP_LENGTH /\ SubNet \in Nat

VARIABLES dhcpNodes,   \* the nodes that have been created
          dhcpFull,    \* those with is_full set
          dhcpAsked,   \* history: the host number the last call named, or NoHost
          dhcpAnswer   \* the status it returned and the host number it gave

dhcpVars == <<dhcpNodes, dhcpFull, dhcpAsked, dhcpAnswer>>

\* pow(2, n)
Pow2[n \in Nat] == IF n = 0 THEN 1 ELSE 2 * Pow2[n - 1]

HostBits == IP_LENGTH - SUBNET_LENGTH
DhcpHosts == 0 .. Pow2[HostBits] - 1
broadcast == Pow2[HostBits] - 1

\* ip << SUBNET_LENGTH >> SUBNET_LENGTH
ReqIp(ip) == ip % Pow2[HostBits]

NoHost == -1
Named(ip) == IF ip \div Pow2[HostBits] = SubNet THEN ReqIp(ip) ELSE NoHost

TrieNode(h, level) == <<level, h \div Pow2[HostBits - level]>>
TrieLeaf(h) == TrieNode(h, HostBits)
TriePath(h) == {TrieNode(h, level) : level \in 0 .. HostBits}
relatives(n) == {<<n[1] + 1, 2 * n[2]>>, <<n[1] + 1, 2 * n[2] + 1>>}

\* DhcpInit: the paths of the network's own and of the broadcast address.
DhcpInit == /\ dhcpNodes = TriePath(0) \cup TriePath(broadcast)
            /\ dhcpFull = {TrieLeaf(0), TrieLeaf(broadcast)}
            /\ dhcpAsked = 0 /\ dhcpAnswer = <<"none", 0>>

\* Mutant of UpdateFullness: one full relative is enough.
UpdateFullnessOne(full, n) == IF relatives(n) \cap full # {} THEN full \cup {n} ELSE full

UpdateFullness(full, n) == IF relatives(n) \subseteq full THEN full \cup {n} ELSE full

\* The leaf becomes full, and on the way back up the nodes above it may.
Occupy(h) ==
  LET Up[level \in 0 .. HostBits] ==
        IF level = HostBits THEN dhcpFull \cup {TrieLeaf(h)}
        ELSE UpdateFullness(Up[level + 1], TrieNode(h, level))
  IN  Up[0]

(***************************************************************************)
(* The loop stops at a full node or where a node is missing.  The answer   *)
(* then depends on the bits left: none are left where only the leaf is     *)
(* missing, and such an address counts as occupied.                        *)
(***************************************************************************)
IsOccupied(h) ==
  \/ \E level \in 0 .. HostBits : /\ TrieNode(h, level) \in dhcpFull
                              /\ \A l \in 0 .. level : TrieNode(h, l) \in dhcpNodes
  \/ TrieNode(h, HostBits - 1) \in dhcpNodes /\ TrieLeaf(h) \notin dhcpNodes

GetDirection(n) == IF <<n[1] + 1, 2 * n[2]>> \in dhcpFull THEN 1 ELSE 0

\* The prefixes that GetDirection leads to from the root.
Descent[level \in 0 .. HostBits] ==
  IF level = 0 THEN 0
  ELSE 2 * Descent[level - 1] + GetDirection(<<level - 1, Descent[level - 1]>>)

SmallestIp == Descent[HostBits]

\* NodeCreate may fail below any level: what was created above it stays.
AllocateFails(h) ==
  /\ \E level \in 0 .. HostBits - 1 :
       /\ TrieNode(h, level + 1) \notin dhcpNodes
       /\ dhcpNodes' = dhcpNodes \cup {TrieNode(h, l) : l \in 0 .. level}
  /\ dhcpAnswer' = <<"no memory", 0>> /\ UNCHANGED dhcpFull

TakeIp(h) == /\ dhcpNodes' = dhcpNodes \cup TriePath(h)
               /\ dhcpFull' = Occupy(h) /\ dhcpAnswer' = <<"SUCCESS", h>>

AllocateSpecificIp(h) == TakeIp(h) \/ AllocateFails(h)

\* Every node of the descent is tested; below a full one none is created.
AllocateSmallestIp ==
  IF \E level \in 0 .. HostBits : <<level, Descent[level]>> \in dhcpFull
  THEN dhcpAnswer' = <<"MALLOC_FAILURE", 0>> /\ UNCHANGED <<dhcpNodes, dhcpFull>>
  ELSE TakeIp(SmallestIp) \/ AllocateFails(SmallestIp)

DhcpAllocateIp(requested_ip) ==
  /\ dhcpAnswer[1] # "crash"
  /\ dhcpAsked' = Named(requested_ip)
  /\ IF requested_ip = 0 \/ IsOccupied(ReqIp(requested_ip))
     THEN AllocateSmallestIp ELSE AllocateSpecificIp(ReqIp(requested_ip))

\* Mutant of FreeIp: only the leaf is marked as not full.
FreeIpLeafOnly(h) == dhcpFull' = dhcpFull \ {TrieLeaf(h)}

FreeIp(h) == dhcpFull' = dhcpFull \ TriePath(h)

DhcpFreeIp(ip) ==
  LET h == ReqIp(ip) IN
  /\ dhcpAnswer[1] # "crash"
  /\ dhcpAsked' = Named(ip) /\ UNCHANGED dhcpNodes
  /\ \/ /\ h \in {0, broadcast}
        /\ dhcpAnswer' = <<"FREE_FAILURE", 0>> /\ UNCHANGED dhcpFull
     \/ /\ h \notin {0, broadcast} /\ ~IsOccupied(h)
        /\ dhcpAnswer' = <<"DOUBLE_FREE", 0>> /\ UNCHANGED dhcpFull
     \/ /\ h \notin {0, broadcast} /\ IsOccupied(h) /\ TrieLeaf(h) \in dhcpNodes
        /\ FreeIp(h) /\ dhcpAnswer' = <<"freed", h>>
     \/ \* the leaf is NULL, and FreeIp dereferences it
        /\ h \notin {0, broadcast} /\ IsOccupied(h) /\ TrieLeaf(h) \notin dhcpNodes
        /\ dhcpAnswer' = <<"crash", 0>> /\ UNCHANGED dhcpFull

CountOccupied == Cardinality({n \in dhcpFull : n[1] = HostBits})
DhcpCountFree == Pow2[HostBits] - CountOccupied

DhcpNext == \E ip \in 0 .. Pow2[IP_LENGTH] - 1 : DhcpAllocateIp(ip) \/ DhcpFreeIp(ip)

DhcpSpec == DhcpInit /\ [][DhcpNext]_dhcpVars

-----------------------------------------------------------------------------

dhcpLeased == {h \in DhcpHosts : TrieLeaf(h) \in dhcpFull}

Pool == INSTANCE AddressPool WITH
          Hosts <- DhcpHosts, Reserved <- {0, broadcast},
          leased <- dhcpLeased, asked <- dhcpAsked, answer <- dhcpAnswer

OnlyLeafMissing(h) == TrieNode(h, HostBits - 1) \in dhcpNodes /\ TrieLeaf(h) \notin dhcpNodes

(***************************************************************************)
(* The steps in which the code does not do what dhcp.h says:               *)
(*   - a free address whose leaf alone is missing counts as occupied       *)
(*     (dhcp.c:236): who names it gets the smallest instead (against       *)
(*     dhcp.h:43), and giving it back dereferences NULL (dhcp.c:366-372)   *)
(*     instead of returning DOUBLE_FREE (dhcp.h:98);                       *)
(*   - the network's number in a call is not looked at (dhcp.c:165,347):   *)
(*     who names an address of another network gets or gives back the one  *)
(*     with its host number (against dhcp.h:45,99).                        *)
(***************************************************************************)
Crashes == dhcpAnswer'[1] = "crash" /\ UNCHANGED dhcpLeased

Deviates ==
  \/ dhcpAsked' \in DhcpHosts /\ OnlyLeafMissing(dhcpAsked') /\ (Pool!LeaseLeast \/ Crashes)
  \/ /\ dhcpAsked' = NoHost
     /\ \/ \E h \in DhcpHosts : Pool!Lease(h) \/ Pool!GiveBack(h)
        \/ dhcpAnswer'[1] = "DOUBLE_FREE" /\ UNCHANGED dhcpLeased
        \/ (\E h \in DhcpHosts : OnlyLeafMissing(h)) /\ Crashes

(***************************************************************************)
(* The trie is a pool of addresses, but for the steps of Deviates: what-   *)
(* ever was leased and given back before, is_full on the inner nodes       *)
(* neither hides a free address from AllocateSmallestIp nor leads it to    *)
(* one that is leased, the smallest free address is the one it finds, and  *)
(* even a deviating step leases no address twice.                          *)
(***************************************************************************)
DhcpImplementsPool ==
  Pool!PoolInit /\ [][Pool!PoolNext \/ Deviates]_<<dhcpLeased, dhcpAsked, dhcpAnswer>>

=============================================================================
