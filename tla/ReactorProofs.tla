--------------------------- MODULE ReactorProofs ---------------------------
(***************************************************************************)
(* For every number of descriptors and of calls: the reactor's map of      *)
(* handlers and its fd_sets agree, and Run calls a missing handler only    *)
(* for STDIN and for what another handler of the batch removed.  The       *)
(* Mediator's proxies agree with both between calls, its thread meets a    *)
(* missing handler or proxy only where the other thread is registering or  *)
(* unregistering, and each request becomes one task, although the two      *)
(* threads share all of it unlocked.                                       *)
(***************************************************************************)
EXTENDS Mediator, WellFoundedInduction, TLAPS

-----------------------------------------------------------------------------
(* The reactor *)

(***************************************************************************)
(* A set of naturals that is not empty has a smallest element.  Proofs     *)
(* that would be by induction take the smallest counterexample instead.    *)
(***************************************************************************)
LEMMA Smallest ==
  ASSUME NEW S, S \subseteq Nat, S # {}
  PROVE  \E n \in S : \A m \in S : n <= m
<1>1. PICK n \in S : \A m \in S : ~(<<m, n>> \in OpToRel(<, Nat))
    BY NatLessThanWellFounded, WFMin
<1>2. \A m \in S : ~(m < n)
    BY <1>1 DEF OpToRel
<1> QED
    BY <1>2

(***************************************************************************)
(* ready_fd.back() is an entry of a batch that is not empty.               *)
(***************************************************************************)
LEMMA BackInBatch ==
  ASSUME ready_fd \subseteq Registration, ready_fd # {}
  PROVE  Back \in ready_fd /\ \A s \in ready_fd : s[1] <= Back[1]
<1> DEFINE S == {n \in Nat : \E r \in ready_fd : n + r[1] = MaxFd}
<1>0. \A r \in ready_fd : r[1] \in Nat /\ r[1] <= MaxFd
    BY ReactorAssumption DEF Registration, Fd
<1>1. S \subseteq Nat /\ S # {}
  <2>1. PICK r \in ready_fd : TRUE
    OBVIOUS
  <2>2. MaxFd - r[1] \in Nat /\ MaxFd - r[1] + r[1] = MaxFd
    BY <1>0, ReactorAssumption
  <2> QED
    BY <2>2
<1> HIDE DEF S
<1>2. PICK n \in S : \A m \in S : n <= m
    BY <1>1, Smallest
<1>3. PICK r \in ready_fd : n + r[1] = MaxFd /\ n \in Nat
    BY <1>2 DEF S
<1>4. \A s \in ready_fd : s[1] <= r[1]
  <2> SUFFICES ASSUME NEW s \in ready_fd PROVE s[1] <= r[1]
    OBVIOUS
  <2>1. s[1] \in Nat /\ s[1] <= MaxFd /\ r[1] \in Nat
    BY <1>0
  <2>2. MaxFd - s[1] \in Nat /\ (MaxFd - s[1]) + s[1] = MaxFd
    BY <2>1, ReactorAssumption
  <2>3. MaxFd - s[1] \in S
    BY <2>2 DEF S
  <2>4. n <= MaxFd - s[1]
    BY <1>2, <2>3
  <2> QED
    BY <1>3, <2>1, <2>4, ReactorAssumption
<1> QED
    BY <1>4 DEF Back

(***************************************************************************)
(* What Run takes of the ready registrations is among them.                *)
(***************************************************************************)
LEMMA BatchOfReady ==
  ASSUME NEW ready \in SUBSET Registration
  PROVE  Batch(ready) \subseteq ready
<1>1. ASSUME NEW fd \in Fd PROVE Batched(ready, fd) \subseteq ready
    BY DEF Batched
<1> QED
    BY <1>1 DEF Batch

(***************************************************************************)
(* The inductive invariant of the reactor's own state.                     *)
(***************************************************************************)
RInv == TypeOK /\ MapMatchesSets

(* The invariant holds before a call was made. *)
LEMMA RInvInit == Init => RInv
<1>1. 0 \in Fd /\ <<STDIN, "READ">> \in Registration
    BY ReactorAssumption DEF Fd, STDIN, Registration, Mode
<1>2. Init => TypeOK
  <2>1. 0 \in 0 .. MaxCalls
    BY ReactorAssumption
  <2> QED
    BY <1>1, <2>1, Zenon DEF Init, TypeOK
<1>3. Init => MapMatchesSets
    BY DEF Init, MapMatchesSets
<1> QED
    BY <1>2, <1>3 DEF RInv

(***************************************************************************)
(* A call of Add or Remove, from a handler or not, keeps it.  Remove       *)
(* clears the fd_set before its at() can throw, and of a registration that *)
(* has no handler there is nothing to clear but STDIN's.                   *)
(***************************************************************************)
LEMMA CallKeepsRInv ==
  ASSUME RInv, NEW r \in Registration, Add(r) \/ Remove(r)
  PROVE  RInv'
<1>0. /\ r[1] \in Fd /\ m_max_fd \in Fd /\ Fd \subseteq Nat
      /\ \A s \in Registration : s[1] \in Nat
    BY ReactorAssumption DEF RInv, TypeOK, Registration, Fd
<1>1. CASE Add(r)
  <2>1. TypeOK'
    BY <1>0, <1>1, ReactorAssumption DEF RInv, TypeOK, Add, AddFd, Call
  <2>2. /\ master' = master \cup {r} /\ m_map' = m_map \cup {r}
        /\ m_max_fd' = IF r[1] > m_max_fd THEN r[1] ELSE m_max_fd
    BY <1>1 DEF Add, AddFd
  <2>3. m_max_fd' \in Nat /\ r[1] <= m_max_fd' /\ m_max_fd <= m_max_fd'
    BY <1>0, <2>2
  <2>4. \A s \in Registration : s[1] <= m_max_fd => s[1] <= m_max_fd'
    BY <1>0, <2>3
  <2>5. MapMatchesSets'
    BY <2>2, <2>3, <2>4 DEF RInv, TypeOK, MapMatchesSets, Watched
  <2> QED
    BY <2>1, <2>5 DEF RInv
<1>2. CASE Remove(r)
  <2>1. TypeOK'
    BY <1>2, ReactorAssumption DEF RInv, TypeOK, Remove, RemoveFd, Call, Took
  <2>2. MapMatchesSets'
    BY <1>2 DEF RInv, MapMatchesSets, Watched, Remove, RemoveFd
  <2> QED
    BY <2>1, <2>2 DEF RInv
<1> QED
    BY <1>1, <1>2

(***************************************************************************)
(* The steps of Run and Stop leave the map and the sets alone.             *)
(***************************************************************************)
LEMMA LoopKeepsRInv ==
  ASSUME RInv, Run \/ Stop \/ LoopStep \/ UNCHANGED vars
  PROVE  RInv'
<1>1. m_map' = m_map /\ master' = master /\ m_max_fd' = m_max_fd
    BY DEF Run, EnterRun, Stop, LoopStep, RunFd, Select, TakeBatch, LoopEnd, Dispatch, HandlerReturn,
           BatchEnd, vars
<1>2. TypeOK'
  <2>1. CASE RunFd
    <3>1. PICK ready \in SUBSET Watched : Select(ready)
      BY <2>1 DEF RunFd
    <3>2. Batch(ready) \subseteq Registration
      BY BatchOfReady DEF RInv, TypeOK, Watched
    <3> QED
      BY <3>1, <3>2 DEF RInv, TypeOK, Select, TakeBatch
  <2>2. CASE Run
    <3>1. calls' \in 0 .. MaxCalls
      BY <2>2, ReactorAssumption DEF RInv, TypeOK, Run
    <3> QED
      BY <2>2, <3>1, Zenon DEF RInv, TypeOK, Run, EnterRun
  <2>3. CASE Stop \/ UNCHANGED vars
    BY <2>3 DEF RInv, TypeOK, Stop, vars
  <2>4. CASE LoopEnd \/ Dispatch \/ BatchEnd
    BY <2>4 DEF RInv, TypeOK, LoopEnd, Dispatch, BatchEnd
  <2>5. CASE HandlerReturn
    BY <2>5 DEF RInv, TypeOK, HandlerReturn
  <2> QED
    BY <2>1, <2>2, <2>3, <2>4, <2>5 DEF LoopStep
<1> QED
    BY <1>1, <1>2 DEF RInv, MapMatchesSets, Watched

(***************************************************************************)
(* The reactor's variables keep their types, and its map of handlers and   *)
(* the sets given to select agree in every reachable state: neither the    *)
(* exception that Remove throws nor calls from inside a batch separate     *)
(* them.                                                                   *)
(***************************************************************************)
THEOREM MapAgrees == Spec => [](TypeOK /\ MapMatchesSets)
<1>1. RInv /\ [Next]_vars => RInv'
    BY CallKeepsRInv, LoopKeepsRInv DEF Next
<1> QED
    BY <1>1, RInvInit, PTL DEF Spec, RInv

(***************************************************************************)
(* Whatever the handlers add and remove, each entry of a batch has its     *)
(* handler when Run dispatches it, except STDIN's and those that another   *)
(* handler of the batch removed and nobody added again.                    *)
(***************************************************************************)
THEOREM NoStaleDispatch == Spec => []BatchHasHandlers
<1>1. Init => BatchHasHandlers
    BY DEF Init, BatchHasHandlers
<1>2. RInv /\ BatchHasHandlers /\ [Next]_vars => BatchHasHandlers'
  <2> SUFFICES ASSUME RInv, BatchHasHandlers, [Next]_vars
               PROVE  BatchHasHandlers'
    OBVIOUS
  <2>0. ready_fd' = ready_fd => Back' = Back
    BY DEF Back
  <2>1. ASSUME NEW r \in Registration, Add(r) PROVE BatchHasHandlers'
    <3>1. /\ at' = at /\ ready_fd' = ready_fd /\ at \in {"outside", "handler"}
          /\ m_map' = m_map \cup {r} /\ taken' = taken \ {r}
      BY <2>1 DEF Add, Call, Calling
    <3> QED
      BY <2>0, <3>1 DEF BatchHasHandlers, Missing
  <2>2. ASSUME NEW r \in Registration, Remove(r) PROVE BatchHasHandlers'
    <3>1. CASE r \in m_map
      <4>1. /\ at' = at /\ ready_fd' = ready_fd /\ at \in {"outside", "handler"}
            /\ m_map' = m_map \ {r} /\ Took(r)
        BY <2>2, <3>1 DEF Remove, Call, Calling
      <4> QED
        BY <2>0, <4>1 DEF BatchHasHandlers, Missing, Took
    <3>2. CASE r \notin m_map
      BY <2>2, <3>2 DEF BatchHasHandlers, Remove
    <3> QED
      BY <3>1, <3>2
  <2>3. CASE RunFd
    <3>1. PICK ready \in SUBSET Watched : Select(ready)
      BY <2>3 DEF RunFd
    <3>2. ready_fd' \subseteq Watched
      BY <3>1, BatchOfReady DEF RInv, TypeOK, Watched, Select, TakeBatch
    <3>3. at' = "batch" /\ m_map' = m_map
      BY <3>1 DEF Select, TakeBatch
    <3>4. \A r \in Watched : r \in m_map \/ r = <<STDIN, "READ">>
      BY DEF RInv, MapMatchesSets, Watched
    <3> QED
      BY <3>2, <3>3, <3>4 DEF BatchHasHandlers, Missing
  <2>4. CASE Dispatch
    <3>1. Back \in ready_fd
      BY <2>4, BackInBatch DEF RInv, TypeOK, Dispatch
    <3>2. /\ at = "batch" /\ at' \in {"handler", "undefined"}
          /\ at' = "undefined" => Back \notin m_map
          /\ ready_fd' = ready_fd /\ m_map' = m_map /\ taken' = taken
      BY <2>4 DEF Dispatch
    <3>3. Back \notin m_map => Missing(Back)
      BY <3>1, <3>2 DEF BatchHasHandlers
    <3> QED
      BY <2>0, <3>2, <3>3 DEF BatchHasHandlers, Missing
  <2>5. CASE HandlerReturn
    BY <2>5 DEF HandlerReturn, BatchHasHandlers, Missing
  <2>6. CASE Run \/ Stop \/ LoopEnd \/ BatchEnd \/ UNCHANGED vars
    <3>1. UNCHANGED <<m_map, ready_fd, taken>>
      BY <2>6 DEF Run, EnterRun, Stop, LoopEnd, BatchEnd, vars
    <3>2. at' = at \/ at' \in {"loop", "outside"}
      BY <2>6 DEF Run, EnterRun, Stop, LoopEnd, BatchEnd, vars
    <3> QED
      BY <2>0, <3>1, <3>2 DEF BatchHasHandlers, Missing
  <2> QED
    BY <2>1, <2>2, <2>3, <2>4, <2>5, <2>6 DEF Next, LoopStep
<1> QED
    BY <1>1, <1>2, MapAgrees, PTL DEF Spec, RInv

-----------------------------------------------------------------------------
(* The mediator *)

InCall == {"addproxy", "addfd", "addmap", "rmproxy", "clrfd", "erase"}
OwnerPc == {"idle", "join", "destroyed"} \cup InCall
Reads(fds) == {Read(fd) : fd \in fds}

\* Types; waiting and tasks are bounded by arrived, which Conserved implies.
Types == /\ TypeOK
         /\ m_proxy_map \subseteq Peers
         /\ owner \in [pc : OwnerPc, fd : Fd]
         /\ owner.pc \in InCall => owner.fd \in Peers
         /\ select_sets \subseteq Registration /\ parsing \in BOOLEAN
         /\ waiting \in [Peers -> Nat]
         /\ arrived \in 0 .. MaxRequests /\ tasks \in Nat
         /\ touched \subseteq Peers

(***************************************************************************)
(* What the three containers hold after each statement of RegisterProxy    *)
(* and UnRegisterProxy.                                                    *)
(***************************************************************************)
MapsInv ==
  /\ owner.pc \in {"idle", "join", "destroyed", "addproxy", "rmproxy"} =>
       m_map = Reads(m_proxy_map) /\ master = m_map \cup {Read(STDIN)}
  /\ owner.pc = "rmproxy" => owner.fd \in m_proxy_map
  /\ owner.pc \in {"addfd", "addmap"} =>
       owner.fd \in m_proxy_map /\ m_map \cup {Read(owner.fd)} = Reads(m_proxy_map)
  /\ owner.pc = "addfd" => master = m_map \cup {Read(STDIN)}
  /\ owner.pc = "addmap" => master = m_map \cup {Read(owner.fd), Read(STDIN)}
  /\ owner.pc \in {"clrfd", "erase"} =>
       owner.fd \notin m_proxy_map /\ m_map = Reads(m_proxy_map) \cup {Read(owner.fd)}
  /\ owner.pc = "clrfd" => master = m_map \cup {Read(STDIN)}
  /\ owner.pc = "erase" => master = Reads(m_proxy_map) \cup {Read(STDIN)}

(* Every entry of a batch is a peer's, and its request is still unread. *)
BatchInv ==
  /\ at \in {"batch", "handler"} =>
       /\ ready_fd \subseteq Reads(Peers)
       /\ \A r \in ready_fd : waiting[r[1]] > 0
  /\ at = "handler" => ready_fd # {}
  /\ select_sets # {} => at = "loop"
  /\ parsing => at \in {"handler", "undefined"}
  /\ select_sets \subseteq Reads(Fd)

\* The descriptor has its handler and its proxy, or a call has touched it.
Known(fd) == fd \in touched \/ Registered(fd)

(***************************************************************************)
(* What select waits for and what the batch holds was registered when the  *)
(* sets were copied; since then a call can have taken it away only by      *)
(* touching it.                                                            *)
(***************************************************************************)
FreshInv ==
  /\ owner.pc \in InCall => owner.fd \in touched
  /\ \A fd \in Peers : Read(fd) \in select_sets => Known(fd)
  /\ at \in {"batch", "handler"} => \A fd \in Peers : Read(fd) \in ready_fd => Known(fd)

(***************************************************************************)
(* The requests that wait, summed up by descriptor: s[n] is the number on  *)
(* the descriptors 1 .. n.                                                 *)
(***************************************************************************)
Sums(s) == /\ s \in [Fd -> Int] /\ s[0] = 0
           /\ \A n \in 1 .. MaxFd : s[n] = s[n - 1] + waiting[n]

Conserved == \E s : Sums(s) /\ tasks + s[MaxFd] = arrived

MInv == Types /\ MapsInv /\ BatchInv /\ FreshInv /\ Conserved

-----------------------------------------------------------------------------

(***************************************************************************)
(* Peers are the descriptors from 1, and Read is one to one.               *)
(***************************************************************************)
LEMMA PeerFacts ==
  /\ Peers = 1 .. MaxFd /\ Peers \subseteq Fd /\ 0 \in Fd /\ MaxFd \in Fd
  /\ \A fd \in Fd : Read(fd) \in Registration /\ Read(fd)[1] = fd
  /\ \A fd, gd \in Fd : Read(fd) = Read(gd) => fd = gd
BY ReactorAssumption DEF Peers, Fd, STDIN, Read, Registration, Mode

(***************************************************************************)
(* The sums are not negative, none is less than a summand, and they are    *)
(* zero when nothing waits: a smallest counterexample is refuted by the    *)
(* sum before it.                                                          *)
(***************************************************************************)
LEMMA SumBounds ==
  ASSUME NEW s, Sums(s), waiting \in [Peers -> Nat]
  PROVE  /\ \A n \in Fd : s[n] >= 0
         /\ \A fd \in Peers : waiting[fd] <= s[MaxFd]
         /\ (\A fd \in Peers : waiting[fd] = 0) => s[MaxFd] = 0
<1>0. /\ MaxFd \in Nat /\ Fd = 0 .. MaxFd /\ Peers = 1 .. MaxFd
      /\ \A n \in Fd : s[n] \in Int
      /\ \A n \in Peers : waiting[n] \in Nat /\ s[n] = s[n - 1] + waiting[n] /\ n - 1 \in Fd
      /\ s[0] = 0
    BY ReactorAssumption, PeerFacts DEF Fd, Sums
<1>1. \A n \in Fd : s[n] >= 0
  <2> DEFINE Bad == {n \in Fd : ~(s[n] >= 0)}
  <2> SUFFICES ASSUME Bad # {} PROVE FALSE
    OBVIOUS
  <2>1. PICK n \in Bad : \A m \in Bad : n <= m
    <3>1. Bad \subseteq Nat
      BY <1>0
    <3> HIDE DEF Bad
    <3> QED
      BY <3>1, Smallest
  <2>2. n \in Fd /\ n # 0 /\ ~(s[n] >= 0)
    BY <1>0
  <2>3. n \in Peers /\ n \in Nat /\ n - 1 \in Fd
    BY <1>0, <2>2
  <2>4. n - 1 \notin Bad
    BY <2>1, <2>3
  <2>5. s[n - 1] >= 0
    BY <2>3, <2>4
  <2> QED
    BY <1>0, <2>2, <2>3, <2>5
<1>2. ASSUME NEW fd \in Peers PROVE waiting[fd] <= s[MaxFd]
  <2> DEFINE Bad == {n \in fd .. MaxFd : ~(waiting[fd] <= s[n])}
  <2>0. fd \in Nat /\ fd <= MaxFd /\ fd >= 1 /\ MaxFd \in fd .. MaxFd
    BY <1>0
  <2> SUFFICES ASSUME Bad # {} PROVE FALSE
    BY <2>0
  <2>1. PICK n \in Bad : \A m \in Bad : n <= m
    <3>1. Bad \subseteq Nat
      BY <2>0, <1>0
    <3> HIDE DEF Bad
    <3> QED
      BY <3>1, Smallest
  <2>2. /\ n \in fd .. MaxFd /\ ~(waiting[fd] <= s[n])
        /\ n \in Peers /\ n \in Nat /\ fd <= n /\ n \in Fd
    BY <1>0, <2>0
  <2>3. s[n] = s[n - 1] + waiting[n] /\ s[n - 1] \in Int /\ s[n - 1] >= 0
    BY <1>0, <1>1, <2>2
  <2>4. n # fd
    BY <1>0, <2>2, <2>3
  <2>5. n - 1 \in fd .. MaxFd
    BY <1>0, <2>0, <2>2, <2>4
  <2>6. n - 1 \notin Bad
    BY <2>1, <2>2
  <2>7. waiting[fd] <= s[n - 1]
    BY <2>5, <2>6
  <2> QED
    BY <1>0, <2>2, <2>3, <2>7
<1>3. ASSUME \A fd \in Peers : waiting[fd] = 0 PROVE s[MaxFd] = 0
  <2> DEFINE Bad == {n \in Fd : s[n] # 0}
  <2> SUFFICES ASSUME Bad # {} PROVE FALSE
    BY <1>0
  <2>1. PICK n \in Bad : \A m \in Bad : n <= m
    <3>1. Bad \subseteq Nat
      BY <1>0
    <3> HIDE DEF Bad
    <3> QED
      BY <3>1, Smallest
  <2>2. n \in Fd /\ n # 0 /\ s[n] # 0
    BY <1>0
  <2>3. n \in Peers /\ n \in Nat /\ n - 1 \in Fd
    BY <1>0, <2>2
  <2>4. n - 1 \notin Bad
    BY <2>1, <2>3
  <2>5. s[n - 1] = 0 /\ waiting[n] = 0
    BY <1>3, <2>3, <2>4
  <2> QED
    BY <1>0, <2>2, <2>3, <2>5
<1> QED
    BY <1>1, <1>2, <1>3

(***************************************************************************)
(* One request more, or less, on a descriptor moves the sums from there on.*)
(***************************************************************************)
LEMMA SumsMove ==
  ASSUME NEW s, Sums(s), waiting \in [Peers -> Nat], NEW fd \in Peers, NEW d \in Int,
         \A n \in Peers : waiting'[n] = IF n = fd THEN waiting[n] + d ELSE waiting[n]
  PROVE  \E u : Sums(u)' /\ u[MaxFd] = s[MaxFd] + d
<1> DEFINE u == [n \in Fd |-> IF n >= fd THEN s[n] + d ELSE s[n]]
<1>0. /\ MaxFd \in Nat /\ Fd = 0 .. MaxFd /\ Peers = 1 .. MaxFd /\ fd \in 1 .. MaxFd
      /\ \A n \in Fd : s[n] \in Int
    BY ReactorAssumption, PeerFacts DEF Fd, Sums
<1>1. u \in [Fd -> Int] /\ u[0] = 0 /\ u[MaxFd] = s[MaxFd] + d
    BY <1>0 DEF Sums
<1>2. ASSUME NEW n \in 1 .. MaxFd PROVE u[n] = u[n - 1] + waiting'[n]
  <2>1. /\ n \in Nat /\ n \in Fd /\ n - 1 \in Fd /\ s[n] \in Int /\ s[n - 1] \in Int
        /\ waiting[n] \in Nat /\ s[n] = s[n - 1] + waiting[n]
    BY <1>0 DEF Sums
  <2>2. waiting'[n] = IF n = fd THEN waiting[n] + d ELSE waiting[n]
    BY <1>0
  <2>3. CASE n < fd
    BY <1>0, <2>1, <2>2, <2>3
  <2>4. CASE n = fd
    BY <1>0, <2>1, <2>2, <2>4
  <2>5. CASE n > fd
    BY <1>0, <2>1, <2>2, <2>5
  <2> QED
    BY <1>0, <2>1, <2>3, <2>4, <2>5
<1> HIDE DEF u
<1> QED
    BY <1>1, <1>2 DEF Sums

-----------------------------------------------------------------------------

(***************************************************************************)
(* In a batch, or in a handler, the entry Run is at is a peer's, and it    *)
(* has a request unread.                                                   *)
(***************************************************************************)
LEMMA BackIsServed ==
  ASSUME Types, BatchInv, at \in {"batch", "handler"}, ready_fd # {}
  PROVE  /\ Back \in ready_fd /\ Back[1] \in Peers /\ Back = Read(Back[1])
         /\ waiting[Back[1]] > 0
         /\ \A r \in ready_fd : r # Back => r[1] # Back[1]
<1>1. Back \in ready_fd
    BY BackInBatch DEF Types, TypeOK
<1>2. \A r \in ready_fd : r[1] \in Peers /\ r = Read(r[1])
    BY PeerFacts DEF BatchInv, Reads, Read
<1>3. waiting[Back[1]] > 0
    BY <1>1 DEF BatchInv
<1> QED
    BY <1>1, <1>2, <1>3

(***************************************************************************)
(* The containers follow the owner's statements; nobody else changes them. *)
(***************************************************************************)
LEMMA MapsStep ==
  ASSUME Types, MapsInv, [MNext]_allVars
  PROVE  MapsInv'
<1>0. /\ owner.pc \in OwnerPc /\ owner.fd \in Fd /\ m_proxy_map \subseteq Fd
      /\ \A fd, gd \in Fd : Read(fd) = Read(gd) => fd = gd
    BY PeerFacts DEF Types
<1>1. ASSUME NEW fd \in Peers, RegisterProxy(fd) \/ UnRegisterProxy(fd) PROVE MapsInv'
  <2>1. /\ UNCHANGED <<m_proxy_map, master, m_map>> /\ owner.pc = "idle"
        /\ \/ owner'.pc = "addproxy"
           \/ owner'.pc = "rmproxy" /\ owner'.fd = fd /\ fd \in m_proxy_map
    BY <1>1 DEF RegisterProxy, UnRegisterProxy, BeginCall, Owner
  <2> QED
    BY <2>1 DEF MapsInv
<1>2. CASE RegisterInsert
  <2>1. /\ m_proxy_map' = m_proxy_map \cup {owner.fd} /\ master' = master /\ m_map' = m_map
        /\ owner'.pc = "addfd" /\ owner'.fd = owner.fd /\ owner.pc = "addproxy"
    BY <1>2 DEF RegisterInsert, Owner
  <2>2. Reads(m_proxy_map') = Reads(m_proxy_map) \cup {Read(owner.fd)}
    BY <2>1 DEF Reads
  <2>3. m_map = Reads(m_proxy_map) /\ master = m_map \cup {Read(STDIN)}
    BY <2>1 DEF MapsInv
  <2> QED
    BY <2>1, <2>2, <2>3 DEF MapsInv
<1>3. CASE RegisterAddFd
  <2>1. /\ m_proxy_map' = m_proxy_map /\ master' = master \cup {Read(owner.fd)} /\ m_map' = m_map
        /\ owner'.pc = "addmap" /\ owner'.fd = owner.fd /\ owner.pc = "addfd"
    BY <1>3 DEF RegisterAddFd, Owner, AddFd
  <2>2. /\ owner.fd \in m_proxy_map /\ m_map \cup {Read(owner.fd)} = Reads(m_proxy_map)
        /\ master = m_map \cup {Read(STDIN)}
    BY <2>1 DEF MapsInv
  <2>3. master' = m_map \cup {Read(owner.fd), Read(STDIN)}
    BY <2>1, <2>2
  <2> QED
    BY <2>1, <2>2, <2>3 DEF MapsInv
<1>4. CASE RegisterMap
  <2>1. /\ m_proxy_map' = m_proxy_map /\ master' = master /\ m_map' = m_map \cup {Read(owner.fd)}
        /\ owner'.pc = "idle" /\ owner.pc = "addmap"
    BY <1>4 DEF RegisterMap, OwnerIdle, Owner
  <2>2. /\ m_map \cup {Read(owner.fd)} = Reads(m_proxy_map)
        /\ master = m_map \cup {Read(owner.fd), Read(STDIN)}
    BY <2>1 DEF MapsInv
  <2>3. master' = m_map' \cup {Read(STDIN)}
    BY <2>1, <2>2
  <2> QED
    BY <2>1, <2>2, <2>3 DEF MapsInv
<1>5. CASE UnRegisterErase
  <2>1. /\ m_proxy_map' = m_proxy_map \ {owner.fd} /\ master' = master /\ m_map' = m_map
        /\ owner'.pc = "clrfd" /\ owner'.fd = owner.fd /\ owner.pc = "rmproxy"
    BY <1>5 DEF UnRegisterErase, Owner
  <2>2. owner.fd \in m_proxy_map /\ m_map = Reads(m_proxy_map) /\ master = m_map \cup {Read(STDIN)}
    BY <2>1 DEF MapsInv
  <2>3. Reads(m_proxy_map) = Reads(m_proxy_map') \cup {Read(owner.fd)}
    BY <2>1, <2>2 DEF Reads
  <2> QED
    BY <2>1, <2>2, <2>3 DEF MapsInv
<1>6. CASE UnRegisterClrFd
  <2>1. /\ m_proxy_map' = m_proxy_map /\ master' = master \ {Read(owner.fd)} /\ m_map' = m_map
        /\ owner'.pc = "erase" /\ owner'.fd = owner.fd /\ owner.pc = "clrfd"
    BY <1>6 DEF UnRegisterClrFd, Owner, RemoveFd
  <2>2. /\ owner.fd \notin m_proxy_map /\ m_map = Reads(m_proxy_map) \cup {Read(owner.fd)}
        /\ master = m_map \cup {Read(STDIN)} /\ owner.fd \in Peers
    BY <2>1 DEF MapsInv, Types, InCall
  <2>3. Read(owner.fd) \notin Reads(m_proxy_map) /\ Read(owner.fd) # Read(STDIN)
    BY <1>0, <2>2, PeerFacts DEF Reads, Peers, STDIN
  <2>4. master' = Reads(m_proxy_map) \cup {Read(STDIN)}
    BY <2>1, <2>2, <2>3
  <2> QED
    BY <2>1, <2>2, <2>4 DEF MapsInv
<1>7. CASE UnRegisterMap
  <2>1. /\ m_proxy_map' = m_proxy_map /\ master' = master /\ m_map' = m_map \ {Read(owner.fd)}
        /\ owner'.pc = "idle" /\ owner.pc = "erase"
    BY <1>7 DEF UnRegisterMap, OwnerIdle, Owner
  <2>2. /\ owner.fd \notin m_proxy_map /\ m_map = Reads(m_proxy_map) \cup {Read(owner.fd)}
        /\ master = Reads(m_proxy_map) \cup {Read(STDIN)}
    BY <2>1 DEF MapsInv
  <2>3. Read(owner.fd) \notin Reads(m_proxy_map)
    BY <1>0, <2>2 DEF Reads
  <2>4. m_map' = Reads(m_proxy_map)
    BY <2>1, <2>2, <2>3
  <2> QED
    BY <2>1, <2>2, <2>4 DEF MapsInv
<1>8. CASE Destroy \/ Join
  <2>1. /\ owner.pc \in {"idle", "join"} /\ owner'.pc \in {"join", "destroyed"}
        /\ UNCHANGED <<m_map, master, m_proxy_map>>
    BY <1>8 DEF Destroy, Join, Owner
  <2> QED
    BY <2>1 DEF MapsInv
<1>9. CASE UNCHANGED <<m_map, master, m_proxy_map, owner>>
    BY <1>9 DEF MapsInv
<1>10. ReactorStep => UNCHANGED <<m_map, master, m_proxy_map, owner>>
    BY DEF ReactorStep, StartRun, EnterRun, CopySets, LoopSelect, TakeBatch, LoopOther, LoopEnd,
           Dispatch, DispatchTorn, BatchEnd, GetCmdData, GetTaskAddToPool, Pop, HandlerReturn,
           ownerUnchanged, vars, mediatorVars
<1>11. ASSUME NEW fd \in Peers, Arrive(fd)
       PROVE  UNCHANGED <<m_map, master, m_proxy_map, owner>>
    BY <1>11 DEF Arrive, vars
<1>12. UNCHANGED allVars => UNCHANGED <<m_map, master, m_proxy_map, owner>>
    BY DEF allVars, vars, mediatorVars
<1> QED
    BY <1>1, <1>2, <1>3, <1>4, <1>5, <1>6, <1>7, <1>8, <1>9, <1>10, <1>11, <1>12
       DEF MNext, OwnerStep

(***************************************************************************)
(* What a statement of the framework's thread does to the reactor's: it    *)
(* may free the proxy that a handler is using.                             *)
(***************************************************************************)
LEMMA OwnerLeavesReactor ==
  ASSUME OwnerStep \/ Destroy \/ \E fd \in Peers : RegisterProxy(fd) \/ UnRegisterProxy(fd)
  PROVE  /\ UNCHANGED <<ready_fd, taken, started, select_sets, parsing>> /\ requestsUnchanged
         /\ \/ at' = at
            \/ parsing /\ Back[1] = owner.fd /\ at' = "undefined" /\ owner.pc \in InCall
<1>1. CASE RegisterInsert \/ UnRegisterErase
    BY <1>1 DEF RegisterInsert, UnRegisterErase, FreeProxy, restUnchanged, reactorUnchanged,
                requestsUnchanged, InCall
<1>2. CASE RegisterAddFd \/ RegisterMap \/ UnRegisterClrFd \/ UnRegisterMap \/ Join
    BY <1>2 DEF RegisterAddFd, RegisterMap, UnRegisterClrFd, UnRegisterMap, Join,
                restUnchanged, reactorUnchanged
<1>3. CASE Destroy
    BY <1>3 DEF Destroy
<1>4. CASE \E fd \in Peers : RegisterProxy(fd) \/ UnRegisterProxy(fd)
    BY <1>4 DEF RegisterProxy, UnRegisterProxy, BeginCall, restUnchanged, reactorUnchanged
<1> QED
    BY <1>1, <1>2, <1>3, <1>4 DEF OwnerStep

(***************************************************************************)
(* The sets that are copied hold descriptors to read.                      *)
(***************************************************************************)
LEMMA WatchedReads ==
  ASSUME Types, MapsInv
  PROVE  Watched \subseteq Reads(Fd)
<1>1. Reads(m_proxy_map) \subseteq Reads(Fd) /\ Read(STDIN) \in Reads(Fd)
    BY PeerFacts DEF Reads, Types, STDIN
<1>2. owner.fd \in Fd /\ Read(owner.fd) \in Reads(Fd) /\ owner.pc \in OwnerPc
    BY DEF Types, Reads
<1>3. m_map \subseteq Reads(Fd)
    BY <1>1, <1>2 DEF MapsInv, OwnerPc, InCall
<1>4. master \subseteq Reads(Fd)
    BY <1>1, <1>2, <1>3 DEF MapsInv, OwnerPc, InCall
<1> QED
    BY <1>4 DEF Watched

(***************************************************************************)
(* A batch is taken of what can be read, and what can be read stays so     *)
(* until its own handler reads it.                                         *)
(***************************************************************************)
LEMMA BatchStep ==
  ASSUME Types, MapsInv, BatchInv, [MNext]_allVars
  PROVE  BatchInv'
<1>1. CASE UNCHANGED allVars
    BY <1>1 DEF allVars, vars, mediatorVars, BatchInv
<1>2. CASE OwnerStep \/ Destroy \/ \E fd \in Peers : RegisterProxy(fd) \/ UnRegisterProxy(fd)
  <2>1. /\ UNCHANGED <<ready_fd, waiting, select_sets, parsing>>
        /\ at' = at \/ (parsing /\ at' = "undefined")
    BY <1>2, OwnerLeavesReactor DEF requestsUnchanged
  <2> QED
    BY <2>1 DEF BatchInv
<1>3. ASSUME NEW fd \in Peers, Arrive(fd) PROVE BatchInv'
  <2>1. /\ UNCHANGED <<at, ready_fd, select_sets, parsing>>
        /\ waiting' = [waiting EXCEPT ![fd] = @ + 1] /\ waiting \in [Peers -> Nat]
    BY <1>3 DEF Arrive, vars, Types
  <2>2. \A gd \in Peers : waiting[gd] > 0 => waiting'[gd] > 0
    BY <2>1
  <2>3. \A r \in Reads(Peers) : r[1] \in Peers
    BY PeerFacts DEF Reads
  <2> QED
    BY <2>1, <2>2, <2>3 DEF BatchInv
<1>4. CASE StartRun
    BY <1>4 DEF StartRun, EnterRun, BatchInv
<1>5. CASE CopySets
    BY <1>5, WatchedReads DEF CopySets, vars, requestsUnchanged, BatchInv
<1>6. CASE LoopSelect
  <2>1. /\ select_sets # {} /\ select_sets' = {} /\ at = "loop"
        /\ waiting' = waiting /\ parsing' = parsing
    BY <1>6 DEF LoopSelect, requestsUnchanged, BatchInv
  <2>2. CASE UNCHANGED vars
    BY <2>1, <2>2 DEF vars, BatchInv
  <2>3. CASE TakeBatch(Readable)
    <3>1. ready_fd' \subseteq Readable /\ at' = "batch"
      BY <2>3, BatchOfReady DEF TakeBatch, Readable, Types
    <3>2. ASSUME NEW r \in Readable PROVE r \in Reads(Peers) /\ waiting[r[1]] > 0
      BY PeerFacts DEF Readable, Reads, BatchInv
    <3> QED
      BY <2>1, <3>1, <3>2 DEF BatchInv
  <2> QED
    BY <1>6, <2>2, <2>3 DEF LoopSelect
<1>7. CASE LoopOther
  <2>1. /\ UNCHANGED <<ready_fd, waiting, select_sets, parsing>>
        /\ \/ at' = "outside" /\ select_sets = {} /\ at = "loop"
           \/ at = "batch" /\ at' = "loop"
           \/ at = "batch" /\ ready_fd # {} /\ at' \in {"handler", "undefined"}
    BY <1>7 DEF LoopOther, LoopEnd, Dispatch, DispatchTorn, BatchEnd, mediatorVars
  <2> QED
    BY <2>1 DEF BatchInv
<1>8. CASE GetCmdData
  <2>1. /\ UNCHANGED <<ready_fd, waiting, select_sets>> /\ at = "handler"
        /\ at' \in {"handler", "undefined"} /\ parsing' \in BOOLEAN
    BY <1>8 DEF GetCmdData, requestsUnchanged, Types
  <2> QED
    BY <2>1 DEF BatchInv
<1>9. CASE GetTaskAddToPool
  <2>1. /\ ready_fd' = ready_fd \ {Back} /\ at' = "batch" /\ at = "handler" /\ ~parsing'
        /\ select_sets' = select_sets
        /\ waiting' = [waiting EXCEPT ![Back[1]] = @ - 1] /\ waiting \in [Peers -> Nat]
    BY <1>9 DEF GetTaskAddToPool, Pop, HandlerReturn, Types
  <2>2. \A r \in ready_fd' : r[1] # Back[1] /\ waiting[r[1]] > 0 /\ r[1] \in Peers
    BY <2>1, BackIsServed, PeerFacts DEF BatchInv, Reads
  <2> QED
    BY <2>1, <2>2 DEF BatchInv
<1> QED
    BY <1>1, <1>2, <1>3, <1>4, <1>5, <1>6, <1>7, <1>8, <1>9 DEF MNext, ReactorStep

(***************************************************************************)
(* The statements that take a proxy or a handler away.                     *)
(***************************************************************************)
LEMMA LosesOnlyOwn ==
  ASSUME Types, [MNext]_allVars, NEW fd \in Peers, Registered(fd), ~Registered(fd)'
  PROVE  fd = owner.fd /\ owner.pc \in InCall
<1>1. \/ RegisterInsert \/ RegisterMap \/ UnRegisterErase \/ UnRegisterMap
      \/ UNCHANGED <<m_map, m_proxy_map>>
  <2>1. CASE \E gd \in Peers : RegisterProxy(gd) \/ UnRegisterProxy(gd) \/ Arrive(gd)
    BY <2>1 DEF RegisterProxy, UnRegisterProxy, Arrive, BeginCall, vars
  <2>2. CASE RegisterAddFd \/ UnRegisterClrFd \/ Join \/ Destroy
    BY <2>2 DEF RegisterAddFd, UnRegisterClrFd, Join, Destroy
  <2>3. CASE ReactorStep
    BY <2>3 DEF ReactorStep, StartRun, EnterRun, CopySets, LoopSelect, TakeBatch, LoopOther,
           LoopEnd, Dispatch, DispatchTorn, BatchEnd, GetCmdData, GetTaskAddToPool, Pop,
           HandlerReturn, ownerUnchanged, vars, mediatorVars
  <2>4. CASE UNCHANGED allVars
    BY <2>4 DEF allVars, vars, mediatorVars
  <2> QED
    BY <2>1, <2>2, <2>3, <2>4 DEF MNext, OwnerStep
<1>2. CASE RegisterInsert \/ RegisterMap
    BY <1>2 DEF RegisterInsert, RegisterMap, Registered
<1>3. CASE UnRegisterErase
    BY <1>3 DEF UnRegisterErase, Registered, InCall
<1>4. CASE UnRegisterMap
  <2>1. Read(fd) = Read(owner.fd)
    BY <1>4 DEF UnRegisterMap, Registered
  <2> QED
    BY <1>4, <2>1, PeerFacts DEF UnRegisterMap, InCall, Types
<1> QED
    BY <1>1, <1>2, <1>3, <1>4 DEF Registered

(***************************************************************************)
(* What select looks at and what the batch holds stays known: it is        *)
(* registered until a call touches it.                                     *)
(***************************************************************************)
LEMMA FreshStep ==
  ASSUME Types, MapsInv, BatchInv, FreshInv, [MNext]_allVars
  PROVE  FreshInv'
<1>0. /\ Peers \subseteq Fd /\ \A fd, gd \in Fd : Read(fd) = Read(gd) => fd = gd
      /\ \A fd \in Peers : fd # STDIN
    BY PeerFacts DEF Peers
<1>1. ASSUME touched \subseteq touched', NEW fd \in Peers, Known(fd) PROVE Known(fd)'
    BY <1>1, LosesOnlyOwn DEF Known, FreshInv
<1>2. CASE OwnerStep \/ Destroy \/ \E fd \in Peers : RegisterProxy(fd) \/ UnRegisterProxy(fd)
  <2>1. /\ UNCHANGED <<ready_fd, select_sets>>
        /\ at' = at \/ at' = "undefined"
    BY <1>2, OwnerLeavesReactor
  <2>2. touched \subseteq touched' /\ (owner'.pc \in InCall => owner'.fd \in touched')
    <3>1. CASE \E fd \in Peers : RegisterProxy(fd) \/ UnRegisterProxy(fd)
      BY <3>1 DEF RegisterProxy, UnRegisterProxy, BeginCall, Owner
    <3>2. CASE OwnerStep \/ Destroy
      BY <3>2 DEF OwnerStep, Destroy, RegisterInsert, RegisterAddFd, RegisterMap, UnRegisterErase,
                  UnRegisterClrFd, UnRegisterMap, Join, Owner, OwnerIdle, InCall, FreshInv
    <3> QED
      BY <1>2, <3>1, <3>2
  <2> QED
    BY <1>1, <2>1, <2>2 DEF FreshInv
<1>3. CASE CopySets
  <2>1. /\ select_sets' = Watched /\ touched' = {owner.fd} \ {STDIN} /\ at' = "loop"
        /\ UNCHANGED <<owner, m_map, m_proxy_map>>
    BY <1>3 DEF CopySets, ownerUnchanged, vars
  <2>2. owner.pc \in InCall => owner.fd \in touched'
    BY <1>0, <2>1 DEF Types
  <2>3. ASSUME NEW fd \in Peers, Read(fd) \in Watched PROVE Known(fd)'
    <3>1. Read(fd) \in master /\ Read(fd) # Read(STDIN) /\ fd \in Fd
      BY <1>0, <2>3, PeerFacts DEF Watched, STDIN
    <3>2. owner.pc \in OwnerPc /\ owner.fd \in Fd
      BY DEF Types
    <3>3. fd = owner.fd => fd \in touched'
      BY <1>0, <2>1
    <3>4. fd # owner.fd => Read(fd) # Read(owner.fd)
      BY <1>0, <3>1, <3>2
    <3>5. fd # owner.fd => Read(fd) \in Reads(m_proxy_map) /\ Read(fd) \in m_map
      BY <3>1, <3>2, <3>4 DEF MapsInv, OwnerPc, InCall
    <3>6. Read(fd) \in Reads(m_proxy_map) => fd \in m_proxy_map
      BY <1>0, <3>1 DEF Reads, Types
    <3> QED
      BY <2>1, <3>3, <3>5, <3>6 DEF Known, Registered
  <2> QED
    BY <2>1, <2>2, <2>3 DEF FreshInv
<1>4. CASE LoopSelect
  <2>1. /\ select_sets' = {} /\ UNCHANGED <<owner, touched>> /\ at = "loop"
        /\ \/ at' = "batch" /\ ready_fd' = Batch(Readable)
           \/ at' = at
    BY <1>4 DEF LoopSelect, ownerUnchanged, TakeBatch, vars, BatchInv
  <2>2. Batch(Readable) \subseteq select_sets
    BY BatchOfReady DEF Readable, Types
  <2> QED
    BY <1>1, <2>1, <2>2 DEF FreshInv
<1>5. CASE StartRun \/ LoopOther \/ GetCmdData \/ GetTaskAddToPool
  <2>1. /\ UNCHANGED <<owner, select_sets, touched>> /\ ready_fd' \subseteq ready_fd
        /\ at' \in {"batch", "handler"} => at \in {"batch", "handler"}
    BY <1>5 DEF StartRun, EnterRun, LoopOther, LoopEnd, Dispatch, DispatchTorn, BatchEnd,
                GetCmdData, GetTaskAddToPool, Pop, HandlerReturn, ownerUnchanged, mediatorVars
  <2> QED
    BY <1>1, <2>1 DEF FreshInv
<1>6. CASE (\E fd \in Peers : Arrive(fd)) \/ UNCHANGED allVars
  <2>1. UNCHANGED <<owner, select_sets, touched, ready_fd, at>>
    BY <1>6 DEF Arrive, allVars, vars, mediatorVars
  <2> QED
    BY <1>1, <2>1 DEF FreshInv
<1> QED
    BY <1>2, <1>3, <1>4, <1>5, <1>6 DEF MNext, ReactorStep

(***************************************************************************)
(* A request that arrives waits; one that a handler reads is a task.       *)
(***************************************************************************)
LEMMA ConservedStep ==
  ASSUME Types, BatchInv, Conserved, [MNext]_allVars
  PROVE  Conserved'
<1>0. /\ waiting \in [Peers -> Nat] /\ tasks \in Nat /\ arrived \in Nat /\ MaxFd \in Fd
    BY PeerFacts, MediatorAssumption DEF Types
<1>1. PICK s : Sums(s) /\ tasks + s[MaxFd] = arrived
    BY DEF Conserved
<1>2. s[MaxFd] \in Int
    BY <1>0, <1>1 DEF Sums
<1>3. CASE UNCHANGED <<waiting, tasks, arrived>>
    BY <1>1, <1>3 DEF Conserved, Sums
<1>4. ASSUME NEW fd \in Peers, Arrive(fd) PROVE Conserved'
  <2>1. /\ waiting' = [waiting EXCEPT ![fd] = @ + 1] /\ arrived' = arrived + 1
        /\ tasks' = tasks
    BY <1>4 DEF Arrive
  <2>2. \A n \in Peers : waiting'[n] = IF n = fd THEN waiting[n] + 1 ELSE waiting[n]
    BY <1>0, <2>1
  <2>3. PICK u : Sums(u)' /\ u[MaxFd] = s[MaxFd] + 1
    BY <1>0, <1>1, <2>2, SumsMove
  <2>4. tasks' + u[MaxFd] = arrived'
    BY <1>0, <1>1, <1>2, <2>1, <2>3
  <2> QED
    BY <2>3, <2>4 DEF Conserved
<1>5. CASE GetTaskAddToPool
  <2>1. /\ waiting' = [waiting EXCEPT ![Back[1]] = @ - 1] /\ arrived' = arrived
        /\ tasks' = tasks + 1 /\ at = "handler"
    BY <1>5 DEF GetTaskAddToPool, Pop
  <2>2. Back[1] \in Peers
    BY <2>1, BackIsServed DEF BatchInv
  <2>3. \A n \in Peers : waiting'[n] = IF n = Back[1] THEN waiting[n] + (0 - 1) ELSE waiting[n]
    BY <1>0, <2>1
  <2>4. PICK u : Sums(u)' /\ u[MaxFd] = s[MaxFd] + (0 - 1)
    BY <1>0, <1>1, <2>2, <2>3, SumsMove
  <2>5. tasks' + u[MaxFd] = arrived'
    BY <1>0, <1>1, <1>2, <2>1, <2>4
  <2> QED
    BY <2>4, <2>5 DEF Conserved
<1>6. OwnerStep \/ Destroy \/ (\E fd \in Peers : RegisterProxy(fd) \/ UnRegisterProxy(fd))
        => UNCHANGED <<waiting, tasks, arrived>>
    BY OwnerLeavesReactor DEF requestsUnchanged
<1>7. StartRun \/ CopySets \/ LoopSelect \/ LoopOther \/ GetCmdData \/ UNCHANGED allVars
        => UNCHANGED <<waiting, tasks, arrived>>
    BY DEF StartRun, CopySets, LoopSelect, LoopOther, GetCmdData, requestsUnchanged, allVars,
           mediatorVars
<1> QED
    BY <1>3, <1>4, <1>5, <1>6, <1>7 DEF MNext, ReactorStep

(***************************************************************************)
(* The types, of the reactor's variables too.                              *)
(***************************************************************************)
LEMMA TypesStep ==
  ASSUME Types, MapsInv, BatchInv, [MNext]_allVars
  PROVE  Types'
<1>0. /\ \A fd \in Fd : Read(fd) \in Registration /\ Read(fd)[1] = fd
      /\ Peers \subseteq Fd /\ 0 \in Fd /\ Fd \subseteq Nat
      /\ \A fd \in Fd : fd # STDIN => fd \in Peers
    BY PeerFacts, ReactorAssumption DEF Fd, Peers
<1>1. CASE \E fd \in Peers : RegisterProxy(fd) \/ UnRegisterProxy(fd)
  <2>1. PICK fd \in Peers : BeginCall("addproxy", fd) \/ BeginCall("rmproxy", fd)
    BY <1>1 DEF RegisterProxy, UnRegisterProxy
  <2>2. calls' \in 0 .. MaxCalls
    BY <2>1, ReactorAssumption DEF BeginCall, Types, TypeOK
  <2>3. /\ UNCHANGED <<m_map, master, m_max_fd, m_stop_flag, ready_fd, at, taken, started,
                       select_sets, parsing, waiting, arrived, tasks, m_proxy_map>>
        /\ touched' = touched \cup {fd}
        /\ owner' = Owner("addproxy", fd) \/ owner' = Owner("rmproxy", fd)
    BY <2>1 DEF BeginCall, restUnchanged, reactorUnchanged, requestsUnchanged
  <2>4. owner' \in [pc : OwnerPc, fd : Fd] /\ owner'.fd \in Peers
    BY <1>0, <2>3 DEF Owner, OwnerPc, InCall
  <2> QED
    BY <2>2, <2>3, <2>4 DEF Types, TypeOK
<1>2. CASE RegisterInsert \/ UnRegisterErase \/ RegisterAddFd \/ RegisterMap \/ UnRegisterClrFd
           \/ UnRegisterMap
  <2>0. owner.fd \in Peers /\ Read(owner.fd) \in Registration /\ Read(owner.fd)[1] = owner.fd
    BY <1>0, <1>2 DEF RegisterInsert, UnRegisterErase, RegisterAddFd, RegisterMap,
                      UnRegisterClrFd, UnRegisterMap, Types, InCall
  <2>1. /\ UNCHANGED <<calls, touched, m_stop_flag>>
        /\ \/ owner' = OwnerIdle
           \/ \E pc \in {"addfd", "addmap", "clrfd", "erase"} : owner' = Owner(pc, owner.fd)
    BY <1>2 DEF RegisterInsert, UnRegisterErase, RegisterAddFd, RegisterMap, UnRegisterClrFd,
                UnRegisterMap, FreeProxy, restUnchanged, reactorUnchanged
  <2>2. /\ m_map' \subseteq m_map \cup {Read(owner.fd)}
        /\ master' \subseteq master \cup {Read(owner.fd)}
        /\ m_max_fd' \in Fd /\ m_proxy_map' \subseteq m_proxy_map \cup {owner.fd}
    BY <1>0, <1>2, <2>0 DEF RegisterInsert, UnRegisterErase, RegisterAddFd, RegisterMap,
                            UnRegisterClrFd, UnRegisterMap, AddFd, RemoveFd, Types, TypeOK
  <2>3. /\ owner' \in [pc : OwnerPc, fd : Fd]
        /\ owner'.pc \in InCall => owner'.fd \in Peers
    <3>1. CASE owner' = OwnerIdle
      BY <1>0, <3>1 DEF Owner, OwnerIdle, OwnerPc, STDIN, InCall
    <3>2. ASSUME NEW pc \in {"addfd", "addmap", "clrfd", "erase"}, owner' = Owner(pc, owner.fd)
          PROVE  owner' \in [pc : OwnerPc, fd : Fd] /\ owner'.fd \in Peers
      BY <1>0, <2>0, <3>2 DEF Owner, OwnerPc, InCall
    <3> QED
      BY <2>1, <3>1, <3>2
  <2>4. /\ UNCHANGED <<ready_fd, taken, started, select_sets, parsing>> /\ requestsUnchanged
        /\ at' = at \/ at' = "undefined"
    BY <1>2, OwnerLeavesReactor DEF OwnerStep
  <2> QED
    BY <2>0, <2>1, <2>2, <2>3, <2>4 DEF Types, TypeOK, requestsUnchanged
<1>3. CASE Destroy \/ Join
  <2>1. /\ UNCHANGED <<m_map, master, m_max_fd, ready_fd, at, calls, taken, m_proxy_map,
                       select_sets, parsing, waiting, arrived, tasks, touched>>
        /\ m_stop_flag' \in BOOLEAN
        /\ owner' = Owner("join", STDIN) \/ owner' = Owner("destroyed", STDIN)
    BY <1>3 DEF Destroy, Join, restUnchanged, reactorUnchanged, requestsUnchanged, Types, TypeOK
  <2>2. owner' \in [pc : OwnerPc, fd : Fd] /\ owner'.pc \in {"join", "destroyed"}
    BY <1>0, <2>1 DEF Owner, OwnerPc, STDIN
  <2> QED
    BY <2>1, <2>2 DEF Types, TypeOK, InCall
<1>4. CASE StartRun \/ CopySets \/ LoopSelect \/ LoopOther \/ GetCmdData
  <2>1. /\ UNCHANGED <<m_map, master, m_max_fd, calls, m_proxy_map, owner, waiting, arrived,
                       tasks>>
        /\ m_stop_flag' \in BOOLEAN /\ at' \in {"outside", "loop", "batch", "handler", "undefined"}
        /\ taken' \in {taken, {}} /\ parsing' \in BOOLEAN
    BY <1>4 DEF StartRun, EnterRun, CopySets, LoopSelect, TakeBatch, LoopOther, LoopEnd, Dispatch,
                DispatchTorn, BatchEnd, GetCmdData, ownerUnchanged, requestsUnchanged, vars,
                mediatorVars, Types, TypeOK
  <2>2. select_sets' \subseteq Registration
    BY <1>4 DEF StartRun, EnterRun, CopySets, LoopSelect, LoopOther, GetCmdData, Watched,
                mediatorVars, Types, TypeOK
  <2>3. touched' \subseteq Peers
    BY <1>0, <1>4 DEF StartRun, CopySets, LoopSelect, LoopOther, GetCmdData, mediatorVars, Types
  <2>4. ready_fd' \subseteq Registration
    BY <1>4, BatchOfReady DEF StartRun, EnterRun, CopySets, LoopSelect, TakeBatch, LoopOther,
                LoopEnd, Dispatch, DispatchTorn, BatchEnd, GetCmdData, Readable, vars, Types, TypeOK
  <2> QED
    BY <2>1, <2>2, <2>3, <2>4 DEF Types, TypeOK
<1>5. CASE GetTaskAddToPool
  <2>1. /\ UNCHANGED <<m_map, master, m_max_fd, m_stop_flag, calls, m_proxy_map, owner,
                       arrived, taken, select_sets, touched>>
        /\ at = "handler" /\ at' = "batch" /\ parsing' = FALSE
        /\ ready_fd' \subseteq ready_fd /\ tasks' \in Nat
    BY <1>5 DEF GetTaskAddToPool, Pop, HandlerReturn, ownerUnchanged, Types
  <2>2. waiting' \in [Peers -> Nat]
    <3>1. Back[1] \in Peers /\ waiting[Back[1]] - 1 \in Nat
      BY <2>1, BackIsServed DEF BatchInv, Types
    <3> QED
      BY <1>5, <3>1 DEF GetTaskAddToPool, Types
  <2> QED
    BY <2>1, <2>2 DEF Types, TypeOK
<1>6. CASE \E fd \in Peers : Arrive(fd)
  <2>1. PICK fd \in Peers : Arrive(fd)
    BY <1>6
  <2>2. UNCHANGED <<vars, m_proxy_map, owner, select_sets, parsing, tasks, touched>>
    BY <2>1 DEF Arrive
  <2>3. arrived' \in 0 .. MaxRequests
    BY <2>1, MediatorAssumption DEF Arrive, Types
  <2>4. waiting' \in [Peers -> Nat]
    BY <2>1 DEF Arrive, Types
  <2> QED
    BY <2>2, <2>3, <2>4 DEF Types, TypeOK, vars
<1>7. CASE UNCHANGED allVars
    BY <1>7 DEF Types, TypeOK, allVars, vars, mediatorVars
<1> QED
    BY <1>1, <1>2, <1>3, <1>4, <1>5, <1>6, <1>7 DEF MNext, OwnerStep, ReactorStep

-----------------------------------------------------------------------------

(***************************************************************************)
(* The inductive invariant holds in every reachable state of the Mediator. *)
(***************************************************************************)
THEOREM MediatorInvariance == MSpec => []MInv
<1>1. MInit => MInv
  <2> SUFFICES ASSUME MInit PROVE MInv
    OBVIOUS
  <2>1. Types
    <3>1. TypeOK
      BY RInvInit DEF MInit, RInv
    <3>2. OwnerIdle \in [pc : OwnerPc, fd : Fd] /\ OwnerIdle.pc = "idle"
      BY PeerFacts DEF OwnerIdle, Owner, OwnerPc, STDIN
    <3>3. 0 \in 0 .. MaxRequests
      BY MediatorAssumption
    <3> QED
      BY <3>1, <3>2, <3>3 DEF MInit, Types, InCall
  <2>2. MapsInv
    BY DEF MInit, Init, MapsInv, OwnerIdle, Owner, Reads, Read
  <2>3. BatchInv /\ FreshInv
    BY DEF MInit, Init, BatchInv, FreshInv, OwnerIdle, Owner, InCall
  <2>4. Conserved
    <3> DEFINE s == [n \in Fd |-> 0]
    <3>1. \A n \in 1 .. MaxFd : n \in Fd /\ n - 1 \in Fd /\ n \in Peers
      BY ReactorAssumption, PeerFacts DEF Fd
    <3>2. Sums(s) /\ tasks + s[MaxFd] = arrived
      BY <3>1, PeerFacts DEF Sums, MInit
    <3> QED
      BY <3>2 DEF Conserved
  <2> QED
    BY <2>1, <2>2, <2>3, <2>4 DEF MInv
<1>2. MInv /\ [MNext]_allVars => MInv'
    BY MapsStep, BatchStep, FreshStep, ConservedStep, TypesStep DEF MInv
<1> QED
    BY <1>1, <1>2, PTL DEF MSpec

(***************************************************************************)
(* The Mediator's variables keep their types: no descriptor has more       *)
(* requests than arrived, and no more tasks are made than requests came.   *)
(***************************************************************************)
THEOREM MediatorTypes == MSpec => []MTypeOK
<1>1. MInv => MTypeOK
  <2> SUFFICES ASSUME MInv PROVE MTypeOK
    OBVIOUS
  <2>1. PICK s : Sums(s) /\ tasks + s[MaxFd] = arrived
    BY DEF MInv, Conserved
  <2>2. /\ waiting \in [Peers -> Nat] /\ tasks \in Nat /\ arrived \in 0 .. MaxRequests
        /\ MaxRequests \in Nat /\ s[MaxFd] \in Int
    BY <2>1, PeerFacts, MediatorAssumption DEF MInv, Types, Sums
  <2>3. /\ \A fd \in Peers : waiting[fd] <= s[MaxFd]
        /\ s[MaxFd] >= 0
    BY <2>1, <2>2, SumBounds, PeerFacts
  <2>4. tasks \in 0 .. MaxRequests /\ waiting \in [Peers -> 0 .. MaxRequests]
    BY <2>1, <2>2, <2>3
  <2> QED
    BY <2>4 DEF MInv, Types, MTypeOK, OwnerPc, InCall
<1> QED
    BY <1>1, MediatorInvariance, PTL

(***************************************************************************)
(* Between two calls the proxies, the handlers and the watched descriptors *)
(* are the same.                                                           *)
(***************************************************************************)
THEOREM ProxiesMatchHandlers == MSpec => []MapsAgree
<1>1. MInv => MapsAgree
    BY DEF MInv, MapsInv, MapsAgree, Reads
<1> QED
    BY <1>1, MediatorInvariance, PTL

(***************************************************************************)
(* The reactor's thread meets a missing handler, or a missing or freed     *)
(* proxy, only for a descriptor that was registered or unregistered since  *)
(* select's sets were copied, or where the map it looks into is being      *)
(* changed at that moment: for any number of descriptors, calls and        *)
(* requests, and however peers send.                                       *)
(***************************************************************************)
THEOREM OnlyTouchedIsMissing == MSpec => NoMissingHandler
<1> DEFINE Excused == \/ Back[1] \in touched
                      \/ at = "batch" /\ HandlersTorn
                      \/ at = "handler" /\ ProxiesTorn
<1>1. ASSUME MInv, MNext, at # "undefined", at' = "undefined" PROVE Excused
  <2>1. CASE OwnerStep \/ Destroy \/ \E fd \in Peers : RegisterProxy(fd) \/ UnRegisterProxy(fd)
    <3>1. Back[1] = owner.fd /\ owner.pc \in InCall
      BY <1>1, <2>1, OwnerLeavesReactor
    <3> QED
      BY <1>1, <3>1 DEF MInv, FreshInv
  <2>2. CASE LoopOther \/ GetCmdData
    <3>1. /\ at \in {"batch", "handler"} /\ ready_fd # {}
          /\ \/ Excused
             \/ at = "batch" /\ Back \notin m_map
             \/ at = "handler" /\ Back[1] \notin m_proxy_map
      BY <1>1, <2>2 DEF LoopOther, LoopEnd, Dispatch, DispatchTorn, BatchEnd, GetCmdData, MInv,
                        BatchInv
    <3>2. Back \in ready_fd /\ Back[1] \in Peers /\ Back = Read(Back[1])
      BY <1>1, <3>1, BackIsServed DEF MInv
    <3>3. Known(Back[1])
      BY <1>1, <3>1, <3>2, Zenon DEF MInv, FreshInv
    <3> QED
      BY <3>1, <3>2, <3>3 DEF Known, Registered
  <2>3. CASE StartRun \/ CopySets \/ LoopSelect \/ GetTaskAddToPool
    BY <1>1, <2>3 DEF StartRun, EnterRun, CopySets, LoopSelect, TakeBatch, GetTaskAddToPool, Pop,
                      HandlerReturn, vars
  <2>4. CASE \E fd \in Peers : Arrive(fd)
    BY <1>1, <2>4 DEF Arrive, vars
  <2> QED
    BY <1>1, <2>1, <2>2, <2>3, <2>4 DEF MNext, ReactorStep
<1>2. MInv /\ [MNext]_allVars => [at # "undefined" /\ at' = "undefined" => Excused]_allVars
    BY <1>1
<1> QED
    BY <1>2, MediatorInvariance, PTL DEF MSpec, NoMissingHandler

(***************************************************************************)
(* Each request becomes one task: when nothing waits there are as many     *)
(* tasks as requests have arrived, however they were batched.              *)
(***************************************************************************)
THEOREM OneTaskPerRequest == MSpec => []RequestsConserved
<1>1. MInv => RequestsConserved
  <2> SUFFICES ASSUME MInv, \A fd \in Peers : waiting[fd] = 0 PROVE tasks = arrived
    BY DEF RequestsConserved
  <2>1. PICK s : Sums(s) /\ tasks + s[MaxFd] = arrived
    BY DEF MInv, Conserved
  <2>2. s[MaxFd] = 0 /\ tasks \in Nat
    BY <2>1, SumBounds DEF MInv, Types
  <2> QED
    BY <2>1, <2>2
<1> QED
    BY <1>1, MediatorInvariance, PTL
=============================================================================
