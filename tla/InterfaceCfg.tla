---------------------------- MODULE InterfaceCfg ----------------------------
(***************************************************************************)
(* The interface configuration script (interface_cfg.py), in three parts:  *)
(* the OLTs and their pools, which application handles which OLT, and the  *)
(* workloads of the BNGs with their pools.                                 *)
(***************************************************************************)
EXTENDS Integers, Sequences, FiniteSets, SequencesExt, FiniteSetsExt, Functions

-----------------------------------------------------------------------------
(***************************************************************************)
(* interface_cfg.py, its OLTs: each run takes a configuration from the CLI *)
(* and brings the olt-control resources of the cluster into line with it.  *)
(* A tunnel or an s-tag the configuration leaves empty gets its values     *)
(* from pools, the ones it had before if they are still free.  The loops   *)
(* over Python sets take their elements in any order.  A run may die at    *)
(* any call of the cluster, and nothing but the cluster is remembered.     *)
(* Tunnel 0 is tunnel-mgmt, tunnel p the tunnel-data of PON port p.        *)
(***************************************************************************)

CONSTANTS Olts,       \* v-chassis, v-slot and v-slot-port, as positive numbers
          OltModule,  \* the module (v-chassis and v-slot) of an OLT
          PoolSize,   \* 100 VNIs and s-tags per module in the code
          LastHost,   \* last address of a tunnel source network
          OltInputs,  \* configurations to try
          OltRuns     \* bound on the runs of the script

VARIABLES olCluster,  \* olt-control resources: OLT to its specification
          olMgmt,     \* OLTs in the specification of module-mgmt, in order
          olAt,       \* where the run is
          olConfig,   \* what it was given
          olSpecs,    \* olt_control_specs
          olFailed,   \* failed_olt_specs
          olTodo,     \* OLTs still to delete or to write
          olBefore,   \* k8s_software_controls, read when the run began
          olDone,     \* history: the last run came to its end
          olRuns      \* history: runs begun

olVars == <<olCluster, olMgmt, olAt, olConfig, olSpecs, olFailed, olTodo, olBefore, olDone,
            olRuns>>

Unset == 0
NoTunnel == [vni |-> Unset, ip |-> Unset, rest |-> "null"]      \* None, of external traffic
EmptyTunnel == [vni |-> Unset, ip |-> Unset, rest |-> "empty"]  \* {'vxlan': {}}
NoConfig == [olts |-> <<>>, managed |-> FALSE, mgmt |-> Unset, data |-> Unset, core |-> {}]

\* rest stands for gateway, peer-ip and dsi-vlan.
is_vxlan_tunnel_configured(t) == t.vni # Unset /\ t.ip # Unset /\ t.rest = "set"

\* OLTs of a module that tunnel-config gives to module-mgmt.
Managable(c) == IF c.managed THEN DOMAIN c.olts ELSE {}

\* Every tunnel of S, a set of OLTs of c, and every PON.
TunnelsOf(specs, S) == UNION {{<<o, t>> : t \in DOMAIN specs[o].tunnel} : o \in S}
PonsOf(o, specs) == DOMAIN specs[o].tunnel \ {0}

-----------------------------------------------------------------------------
(* Pools: what is free of each                                             *)

VniPool(o) == <<"vni", OltModule[o]>>
StagPool(o) == <<"stag", OltModule[o]>>
IpPool(t) == <<"ip", IF t = 0 THEN "mgmt" ELSE "data">>
PoolNames == {VniPool(o) : o \in Olts} \cup {StagPool(o) : o \in Olts} \cup {IpPool(0), IpPool(1)}

\* The first size numbers that are not reserved.
create_integer_pool(size, reserved) ==
  LET range == (1 .. size + Cardinality(reserved)) \ reserved
  IN  {v \in range : Cardinality({w \in range : w <= v}) <= size}

\* Nothing of a tunnel the CLI did not configure globally.
create_ip_pool(start, reserved) == IF start = Unset THEN {} ELSE (start .. LastHost) \ reserved

\* Values the configuration sets: they are not given out.
Reserved(c, kind, m) ==
  LET fixed(S) == {x \in TunnelsOf(c.olts, S) :
                     is_vxlan_tunnel_configured(c.olts[x[1]].tunnel[x[2]])}
      managed == {o \in Managable(c) : OltModule[o] = m}
  IN  CASE kind = "vni" -> {c.olts[x[1]].tunnel[x[2]].vni : x \in fixed(managed)}
        [] kind = "stag" -> UNION {{c.olts[o].stag[p] : p \in PonsOf(o, c.olts)} : o \in managed}
                              \ {Unset}
        [] kind = "ip" -> LET all == {x \in fixed(DOMAIN c.olts) : IpPool(x[2])[2] = m}
                          IN  {c.olts[x[1]].tunnel[x[2]].ip : x \in all}
                                \cup (IF m = "mgmt" THEN c.core ELSE {})

init_pools(c) ==
  [n \in PoolNames |->
     IF n[1] # "ip" THEN create_integer_pool(PoolSize, Reserved(c, n[1], n[2]))
     ELSE create_ip_pool(IF n[2] = "mgmt" THEN c.mgmt ELSE c.data, Reserved(c, "ip", n[2]))]

\* gather_pool_meta raises: of an OLT that nobody manages the CLI must say all.
Incomplete(c) ==
  \E o \in DOMAIN c.olts \ Managable(c) :
     \/ \E t \in DOMAIN c.olts[o].tunnel : ~is_vxlan_tunnel_configured(c.olts[o].tunnel[t])
     \/ \E p \in PonsOf(o, c.olts) : c.olts[o].stag[p] = Unset

-----------------------------------------------------------------------------
(* What the loops of apply_olt_control do to                               *)
(* st == [specs, free, raised, failed]                                     *)

GlobalOf(t) == IF t = 0 THEN olConfig.mgmt ELSE olConfig.data

\* Mutant of ReuseTunnelField: the value stays free in the pool.
ReuseTunnelFieldUnmarked(st, o, t, f, pool) ==
  LET v == olBefore[o].tunnel[t][f]
  IN  IF v \notin st.free[pool] THEN st
      ELSE [st EXCEPT !.specs[o].tunnel[t][f] = v,
                      !.raised = @ \/ st.specs[o].tunnel[t] = NoTunnel]

ReuseTunnelField(st, o, t, f, pool) ==
  LET v == olBefore[o].tunnel[t][f]
  IN  IF v \notin st.free[pool] THEN st
      ELSE [st EXCEPT !.specs[o].tunnel[t][f] = v, !.free[pool] = @ \ {v},
                      !.raised = @ \/ st.specs[o].tunnel[t] = NoTunnel]

\* update_tunnel_from_global_vxlan_cfg
FillTunnel(st, o, t) ==
  IF GlobalOf(t) = Unset \/ st.specs[o].tunnel[t].rest = "null" THEN [st EXCEPT !.raised = TRUE]
  ELSE [st EXCEPT !.specs[o].tunnel[t].rest = "set"]

\* A tunnel that the configuration leaves empty and the cluster knows.
ReuseTunnel(st, o, t) ==
  LET known == is_vxlan_tunnel_configured(olBefore[o].tunnel[t])
      vni == ReuseTunnelField(st, o, t, "vni", VniPool(o))
      found == IF known THEN ReuseTunnelField(vni, o, t, "ip", IpPool(t)) ELSE st
  IN  IF st.raised \/ is_vxlan_tunnel_configured(st.specs[o].tunnel[t]) THEN st
      ELSE IF found.raised \/ (t # 0 /\ GlobalOf(t) = Unset) THEN found
      ELSE FillTunnel(found, o, t)

ReuseStag(st, o, p) ==
  LET v == olBefore[o].stag[p]
  IN  IF st.raised \/ st.specs[o].stag[p] # Unset \/ v \notin st.free[StagPool(o)] THEN st
      ELSE [st EXCEPT !.specs[o].stag[p] = v, !.free[StagPool(o)] = @ \ {v}]

\* First loop, of an OLT that is to be updated.
ReuseAssigned(st, o) ==
  IF o \notin Managable(olConfig) THEN st
  ELSE LET Pon(s, p) == ReuseStag(ReuseTunnel(s, o, p), o, p)
           both == PonsOf(o, st.specs) \cap PonsOf(o, olBefore)
       IN  FoldLeft(Pon, ReuseTunnel(st, o, 0), SetToSortSeq(both, <))

\* Second loop: a value from the pool, or the OLT fails with what it has taken.
AssignField(st, o, t, f, pool) ==
  IF o \in st.failed \/ st.specs[o].tunnel[t][f] # Unset THEN st
  ELSE IF st.free[pool] = {} THEN [st EXCEPT !.failed = @ \cup {o}]
  ELSE LET v == Min(st.free[pool])
       IN  [st EXCEPT !.specs[o].tunnel[t][f] = v, !.free[pool] = @ \ {v}]

AssignTunnel(st, o, t) ==
  LET tunnel == st.specs[o].tunnel[t]
      taken == AssignField(AssignField(st, o, t, "vni", VniPool(o)), o, t, "ip", IpPool(t))
  IN  IF is_vxlan_tunnel_configured(tunnel) \/ (t # 0 /\ tunnel.rest = "null") THEN st
      ELSE IF o \in taken.failed \/ (t # 0 /\ GlobalOf(t) = Unset) THEN taken
      ELSE IF GlobalOf(t) = Unset THEN [taken EXCEPT !.failed = @ \cup {o}]
      ELSE FillTunnel(taken, o, t)

AssignStag(st, o, p) ==
  IF o \in st.failed \/ st.specs[o].stag[p] # Unset \/ st.specs[o].tunnel[p].rest = "null" THEN st
  ELSE IF st.free[StagPool(o)] = {} THEN [st EXCEPT !.failed = @ \cup {o}]
  ELSE LET v == Min(st.free[StagPool(o)])
       IN  [st EXCEPT !.specs[o].stag[p] = v, !.free[StagPool(o)] = @ \ {v}]

AssignFromPools(st, o) ==
  IF o \notin Managable(olConfig) THEN st
  ELSE LET Pon(s, p) == AssignStag(AssignTunnel(s, o, p), o, p)
       IN  FoldLeft(Pon, AssignTunnel(st, o, 0), SetToSortSeq(PonsOf(o, st.specs), <))

-----------------------------------------------------------------------------

OltStart ==
  /\ olCluster = <<>> /\ olMgmt = <<>> /\ olAt = "idle" /\ olConfig = NoConfig /\ olSpecs = <<>>
  /\ olFailed = {} /\ olTodo = {} /\ olBefore = <<>> /\ olDone = TRUE /\ olRuns = 0

\* The process ends without having done it all.
OltGone == /\ olAt' = "idle" /\ olConfig' = NoConfig /\ olSpecs' = <<>> /\ olFailed' = {}
           /\ olTodo' = {} /\ olBefore' = <<>>

\* main reads the configuration and the cluster; split makes the
\* specifications; the pools are made, or gather_pool_meta raises.
OltBegin(c) ==
  /\ olAt = "idle" /\ olRuns < OltRuns /\ olRuns' = olRuns + 1 /\ olDone' = FALSE
  /\ IF Incomplete(c) THEN OltGone
     ELSE /\ olAt' = "delete" /\ olConfig' = c /\ olBefore' = olCluster
          /\ olTodo' = {o \in DOMAIN olCluster \ DOMAIN c.olts : ~olCluster[o].protected}
          /\ olSpecs' = c.olts /\ olFailed' = {}
  /\ UNCHANGED <<olCluster, olMgmt>>

OltWithout(o) == [p \in DOMAIN olCluster \ {o} |-> olCluster[p]]

OltDelete(o) ==
  /\ olAt = "delete" /\ o \in olTodo
  /\ olCluster' = OltWithout(o) /\ olTodo' = olTodo \ {o}
  /\ UNCHANGED <<olMgmt, olAt, olConfig, olSpecs, olFailed, olBefore, olDone, olRuns>>

\* The two loops over update and over update and create.
OltAssign ==
  /\ olAt = "delete" /\ olTodo = {}
  /\ \E o1 \in SetToSeqs(DOMAIN olConfig.olts \cap DOMAIN olBefore),
        o2 \in SetToSeqs(DOMAIN olConfig.olts) :
       LET st == [specs |-> olSpecs, free |-> init_pools(olConfig), raised |-> FALSE, failed |-> {}]
           reused == FoldLeft(ReuseAssigned, st, o1)
           all == FoldLeft(AssignFromPools, reused, o2)
       IN  IF reused.raised
           THEN OltGone
           ELSE /\ olAt' = "write" /\ olTodo' = DOMAIN olConfig.olts
                /\ olSpecs' = all.specs /\ olFailed' = all.failed
                /\ UNCHANGED <<olConfig, olBefore>>
  /\ UNCHANGED <<olCluster, olMgmt, olDone, olRuns>>

\* Updates come before creations, each in any order.
OltWrite(o) ==
  /\ olAt = "write" /\ o \in olTodo
  /\ o \in DOMAIN olBefore \/ olTodo \cap DOMAIN olBefore = {}
  /\ olTodo' = olTodo \ {o}
  /\ olCluster' = IF o \in olFailed THEN OltWithout(o)
                  ELSE [p \in DOMAIN olCluster \cup {o} |->
                          IF p = o THEN olSpecs[o] ELSE olCluster[p]]
  /\ UNCHANGED <<olMgmt, olAt, olConfig, olSpecs, olFailed, olBefore, olDone, olRuns>>

\* The list is changed while it is enumerated: the one after an OLT that is
\* taken out is not looked at.
RECURSIVE MgmtList(_, _)
MgmtList(list, i) ==
  IF i > Len(list) THEN list
  ELSE IF list[i].olt \in olFailed THEN MgmtList(RemoveAt(list, i), i + 1)
  ELSE MgmtList([list EXCEPT ![i].spec = olSpecs[list[i].olt]], i + 1)

\* module-mgmt has copies that split made before anything was assigned.
ApplyModuleMgmt ==
  /\ olAt = "write" /\ olTodo = {} /\ olAt' = "idle" /\ olDone' = TRUE
  /\ LET order == SetToSortSeq(Managable(olConfig), <)
         copies == [i \in DOMAIN order |-> [olt |-> order[i], spec |-> olConfig.olts[order[i]]]]
     IN  olMgmt' = MgmtList(copies, 1)
  /\ UNCHANGED <<olCluster, olConfig, olSpecs, olFailed, olTodo, olBefore, olRuns>>

\* A call raises or the process is killed.
OltDies ==
  /\ olAt # "idle"
  /\ OltGone /\ UNCHANGED <<olCluster, olMgmt, olDone, olRuns>>

\* Somebody sets protected-from-deletion.
OltProtect(o) ==
  /\ olAt = "idle" /\ o \in DOMAIN olCluster /\ ~olCluster[o].protected
  /\ olCluster' = [olCluster EXCEPT ![o].protected = TRUE]
  /\ UNCHANGED <<olMgmt, olAt, olConfig, olSpecs, olFailed, olTodo, olBefore, olDone, olRuns>>

OltNext ==
  \/ olAt = "idle" /\ \E c \in OltInputs : OltBegin(c)
  \/ \E o \in Olts : OltDelete(o) \/ OltWrite(o) \/ OltProtect(o)
  \/ OltAssign \/ ApplyModuleMgmt \/ OltDies

-----------------------------------------------------------------------------

\* OLTs of the configuration that the cluster has.
Present == DOMAIN olConfig.olts \cap DOMAIN olCluster

\* No two of the uses in S have a value in common.
AllDistinct(S, Value(_)) == \A x, y \in S : x # y /\ Value(x) # Unset => Value(x) # Value(y)

\* What x, an OLT and one of its tunnels, had before and may have again.
MayKeep(x, f, pool) ==
  LET had == {y \in TunnelsOf(olBefore, DOMAIN olBefore \cap DOMAIN olConfig.olts) :
                is_vxlan_tunnel_configured(olBefore[y[1]].tunnel[y[2]])}
      v == olBefore[x[1]].tunnel[x[2]][f]
  IN  /\ x \in had /\ olConfig.olts[x[1]].tunnel[x[2]] = EmptyTunnel
      /\ v \in init_pools(olConfig)[pool]
      /\ \A y \in had \ {x} : olBefore[y[1]].tunnel[y[2]][f] # v

(***************************************************************************)
(* When a run has come to its end, whatever runs before it died in the     *)
(* middle and in whichever order the sets were walked: the tunnels and the *)
(* PONs of one module have different VNIs and s-tags (rules 1 and 2 at     *)
(* interface_cfg.py:1439), source addresses of one kind of tunnel differ,  *)
(* the ones the CLI set included, and no tunnel is half configured; a      *)
(* value that is still in its pool and was nobody else's is kept; and      *)
(* module-mgmt knows each OLT as the cluster does, unless some OLT failed. *)
(***************************************************************************)
PoolsHandOutOnce ==
  olAt = "idle" /\ olDone =>
    LET uses == TunnelsOf(olCluster, Present)
        managed(m) == {x \in uses : x[1] \in Managable(olConfig) /\ OltModule[x[1]] = m}
        TunnelOf(x) == olCluster[x[1]].tunnel[x[2]]
    IN  /\ \A o \in Olts :
             /\ AllDistinct(managed(OltModule[o]), LAMBDA x : TunnelOf(x).vni)
             /\ AllDistinct({x \in managed(OltModule[o]) : x[2] # 0},
                            LAMBDA x : olCluster[x[1]].stag[x[2]])
        /\ AllDistinct({x \in uses : x[2] = 0}, LAMBDA x : TunnelOf(x).ip)
        /\ AllDistinct({x \in uses : x[2] # 0}, LAMBDA x : TunnelOf(x).ip)
        /\ \A x \in uses : TunnelOf(x) # NoTunnel => is_vxlan_tunnel_configured(TunnelOf(x))
        /\ \A x \in uses : x[2] = 0 => TunnelOf(x).ip \notin olConfig.core
        /\ \A x \in uses \cap TunnelsOf(olBefore, DOMAIN olBefore) :
             /\ MayKeep(x, "vni", VniPool(x[1])) => TunnelOf(x).vni = olBefore[x[1]].tunnel[x[2]].vni
             /\ MayKeep(x, "ip", IpPool(x[2])) => TunnelOf(x).ip = olBefore[x[1]].tunnel[x[2]].ip
        /\ olFailed = {} => \A i \in DOMAIN olMgmt : olMgmt[i].spec = olSpecs[olMgmt[i].olt]

-----------------------------------------------------------------------------
(***************************************************************************)
(* interface_cfg.py, its service provisioning applications: which of them  *)
(* handles which OLT.  An OLT's specification names its application, and   *)
(* an application's specification lists the OLTs it handles (handled-olts).*)
(* A run computes both from the cluster and the configuration, writes the  *)
(* OLTs and then the applications.  It may die between any two writes, and *)
(* an OLT may fail for want of a value from a pool (see above).           *)
(***************************************************************************)

CONSTANTS SpaPorts,    \* get_olt_max_pon_port_count of OLTs 1, 2, ...
          SpaModules,  \* OLTs that come from a module: only these are in module_types
          MaxPods,     \* max_spa_pods
          MaxPorts,    \* max_pon_ports_per_pod
          SpaInputs,   \* configurations to try
          SpaRuns,     \* bounds on the runs of the script and on
          SpaFails     \* the OLTs that fail in one

VARIABLES spOlt,     \* cluster: OLT to the application its specification names
          spApp,     \* cluster: application to its flag load-balance and handled-olts
          spAt,      \* where the run is
          spConfig,  \* what it was given
          spNewOlt,  \* specifications to write: of OLTs
          spNewApp,  \* and of applications
          spTodo,    \* OLTs or applications still to write
          spMoved,   \* history: OLTs that balancing takes from their application
          spRuns,    \* history: runs begun
          spClean    \* history: no OLT has failed

spVars == <<spOlt, spApp, spAt, spConfig, spNewOlt, spNewApp, spTodo, spMoved, spRuns, spClean>>

NoApp == 0  \* svc-prov-app-name is None
SpaIdle == [spa |-> "none", id |-> NoApp, olts |-> {}]

SpaCeil(n, d) == (n + d - 1) \div d
SpaSum(W(_), olts) == FoldLeft(LAMBDA n, o : n + W(o), 0, olts)

Without(f, x) == [y \in DOMAIN f \ {x} |-> f[y]]
With(f, x, v) == [y \in DOMAIN f \cup {x} |-> IF y = x THEN v ELSE f[y]]

\* list.sort of Python, which is stable.
SpaSorted(olts, Before(_, _)) ==
  LET rank(i) == Cardinality({j \in DOMAIN olts :
                   Before(olts[j], olts[i]) \/ (~Before(olts[i], olts[j]) /\ j <= i)})
  IN  [k \in DOMAIN olts |-> olts[CHOOSE i \in DOMAIN olts : rank(i) = k]]

\* PON ports of an OLT as create_lb_spa_specs and as distribute_olts_between_spa
\* count them; an OLT they do not know counts 1.
LbPorts(c, o) == IF o \in c.olts \cap SpaModules THEN SpaPorts[o] ELSE 1
PodPorts(c, o) == IF o \in c.olts THEN SpaPorts[o] ELSE 1

delete_olt(c) == DOMAIN spOlt \ c.olts
StillHandled(c, a) == SelectSeq(spApp[a].olts, LAMBDA o : o \notin delete_olt(c))
OldApps == SetToSortSeq(DOMAIN spApp, <)

\* An application that keeps its OLT keeps it.
ToAssign(c) ==
  LET needs(o) == \/ o \notin DOMAIN spOlt \/ spOlt[o] = NoApp
                  \/ c.spa = "single" /\ spOlt[o] # c.id
  IN  IF c.spa = "none" THEN <<>> ELSE SetToSortSeq({o \in c.olts : needs(o)}, <)

create_single_spa_spec(c) ==
  [app |-> <<[id |-> c.id, olts |-> IF c.id \in DOMAIN spApp THEN StillHandled(c, c.id) ELSE <<>>]>>,
   assign |-> ToAssign(c)]

-----------------------------------------------------------------------------
(* create_lb_spa_specs                                                     *)

\* The PON ports of several OLTs.
PortsOf(c, olts) == SpaSum(LAMBDA o : LbPorts(c, o), olts)

\* The first application the cluster lists is not one of a load balance.
is_transition_to_load_balance == spApp = <<>> \/ ~spApp[OldApps[1]].lb

get_max_pon_ports_per_pod(c, new) ==
  LET all == new + PortsOf(c, FlattenSeq([i \in DOMAIN OldApps |-> StillHandled(c, OldApps[i])]))
  IN  IF all > MaxPorts * MaxPods THEN SpaCeil(all, MaxPods) ELSE MaxPorts

\* From the largest, OLTs leave an application as long as it stays full.
RECURSIVE TakeOff(_, _, _, _)
TakeOff(c, olts, i, max) ==
  IF i = 0 THEN [kept |-> olts, off |-> <<>>]
  ELSE IF PortsOf(c, olts) - LbPorts(c, olts[i]) >= max
       THEN LET rest == TakeOff(c, RemoveAt(olts, i), i - 1, max)
            IN  [rest EXCEPT !.off = <<olts[i]>> \o @]
       ELSE TakeOff(c, olts, i - 1, max)

\* An application of before, [kept, off]
Rebalanced(c, a, max) ==
  LET olts == StillHandled(c, a)
  IN  IF PortsOf(c, olts) > max /\ is_transition_to_load_balance
      THEN LET s == SpaSorted(olts, LAMBDA o, p : LbPorts(c, o) < LbPorts(c, p))
           IN  TakeOff(c, s, Len(s), max)
      ELSE [kept |-> olts, off |-> <<>>]

\* The first of the smallest, as min of a dictionary finds it.
LeastLoaded(load) == CHOOSE i \in DOMAIN load : \A j \in DOMAIN load :
                       load[i] < load[j] \/ (load[i] = load[j] /\ i <= j)

\* One attempt of get_new_spa_pods_for_olts_distribution with more new pods.
\* load begins with the old applications, and the next attempt goes on with it.
RECURSIVE Attempt(_, _, _, _)
Attempt(c, load, olts, max) ==
  IF olts = <<>> THEN [fits |-> TRUE, load |-> load]
  ELSE LET i == LeastLoaded(load)
           ports == load[i] + LbPorts(c, Head(olts))
       IN  IF ports > max THEN [fits |-> FALSE, load |-> load]
           ELSE Attempt(c, [load EXCEPT ![i] = ports], Tail(olts), max)

RECURSIVE NewPods(_, _, _, _, _, _)
NewPods(c, pods, available, load, olts, max) ==
  IF pods >= available THEN available
  ELSE LET old == Len(OldApps)
           fresh == [i \in 1 .. old + pods |-> IF i <= old THEN load[i] ELSE 0]
           tried == Attempt(c, fresh, olts, max)
       IN  IF tried.fits THEN pods ELSE NewPods(c, pods + 1, available, tried.load, olts, max)

\* How many ports the old applications still take, but those that had none.
FreeSlots(max, load) ==
  FoldLeft(LAMBDA n, i : n + (IF spApp[OldApps[i]].olts = <<>> THEN 0 ELSE Max({0, max - load[i]})),
           0, [i \in DOMAIN load |-> i])

\* The fewest new pods that could take what the old ones do not.
LeastPods(wanted, slots, free, max) ==
  IF slots < wanted THEN Min({SpaCeil(wanted - slots, max), free}) ELSE 0

\* The old applications with what they keep, and the pods that are added.
WithNewPods(c, old, sorted, pods) ==
  LET ids == SetToSortSeq((c.id .. c.id + MaxPods - 1) \ DOMAIN spApp, <)
  IN  [app |-> [i \in DOMAIN old |-> [id |-> OldApps[i], olts |-> old[i].kept]]
                 \o [i \in 1 .. pods |-> [id |-> ids[i], olts |-> <<>>]],
       assign |-> sorted]

LargeFirst(c, least, free, assign) ==
  IF least = free THEN assign
  ELSE SpaSorted(assign, LAMBDA o, p : LbPorts(c, o) > LbPorts(c, p))

AddPods(c, max, old, load, least, sorted) ==
  WithNewPods(c, old, sorted,
              NewPods(c, least, MaxPods - Cardinality(DOMAIN spApp), load, sorted, max))

\* max, the applications of before, their load, and what left them.
DistributeLb(c, max, old, load, off) ==
  LET assign == ToAssign(c) \o off
      free == MaxPods - Cardinality(DOMAIN spApp)
      least == LeastPods(PortsOf(c, assign), FreeSlots(max, load), free, max)
  IN  AddPods(c, max, old, load, least, LargeFirst(c, least, free, assign))

RebalanceOld(c, max, old) ==
  DistributeLb(c, max, old, [i \in DOMAIN old |-> PortsOf(c, old[i].kept)],
               FlattenSeq([i \in DOMAIN old |-> old[i].off]))

\* max: the ports that a pod may have.
SpecsFor(c, max) ==
  RebalanceOld(c, max, [i \in DOMAIN OldApps |-> Rebalanced(c, OldApps[i], max)])

create_lb_spa_specs(c) ==
  SpecsFor(c, IF is_transition_to_load_balance
              THEN get_max_pon_ports_per_pod(c, PortsOf(c, ToAssign(c))) ELSE MaxPorts)

-----------------------------------------------------------------------------

\* Mutant of distribute_olts_between_spa: OLTs without an application go to
\* the first one as well, but are not listed.
distribute_unlisted(c, apps, assign) ==
  [app |-> apps, olt |-> [o \in ToSet(assign) |-> IF apps = <<>> THEN NoApp ELSE apps[1].id]]

\* Large OLTs first, each to the application with the fewest ports: its
\* handled-olts, and what the OLT names.
distribute_olts_between_spa(c, apps, assign) ==
  LET load(as) == [i \in DOMAIN as |-> SpaSum(LAMBDA o : PodPorts(c, o), as[i].olts)]
      Give(st, o) == LET i == LeastLoaded(load(st.app))
                     IN  [app |-> [st.app EXCEPT ![i].olts = Append(@, o)],
                          olt |-> With(st.olt, o, st.app[i].id)]
  IN  IF apps = <<>> THEN [app |-> apps, olt |-> [o \in ToSet(assign) |-> NoApp]]
      ELSE FoldLeft(Give, [app |-> apps, olt |-> <<>>],
                    SpaSorted(assign, LAMBDA o, p : PodPorts(c, o) > PodPorts(c, p)))

SpaSpecs(c) == CASE c.spa = "lb" -> create_lb_spa_specs(c)
                 [] c.spa = "single" -> create_single_spa_spec(c)
                 [] OTHER -> [app |-> <<>>, assign |-> <<>>]

Spread(c, assign, spread) ==
  [app |-> [a \in {spread.app[i].id : i \in DOMAIN spread.app} |->
              [lb |-> c.spa = "lb",
               olts |-> spread.app[CHOOSE i \in DOMAIN spread.app : spread.app[i].id = a].olts]],
   olt |-> [o \in c.olts |-> IF o \in DOMAIN spread.olt THEN spread.olt[o]
                             ELSE IF c.spa = "none" THEN NoApp ELSE spOlt[o]],
   moved |-> ToSet(assign) \ ToSet(ToAssign(c))]

SpreadSpecs(c, made) ==
  Spread(c, made.assign, distribute_olts_between_spa(c, made.app, made.assign))

\* What split makes of a configuration: the applications, and of each OLT the
\* application it is given or had.
SpaSplit(c) == SpreadSpecs(c, SpaSpecs(c))

-----------------------------------------------------------------------------

SpaStart ==
  /\ spOlt = <<>> /\ spApp = <<>> /\ spAt = "idle" /\ spConfig = SpaIdle
  /\ spNewOlt = <<>> /\ spNewApp = <<>> /\ spTodo = {} /\ spMoved = {}
  /\ spRuns = 0 /\ spClean = TRUE

SpaBegin(c) ==
  /\ spAt = "idle" /\ spRuns < SpaRuns /\ spRuns' = spRuns + 1
  /\ \E made \in {SpaSplit(c)} :
       spNewOlt' = made.olt /\ spNewApp' = made.app /\ spMoved' = made.moved
  /\ spAt' = "olts" /\ spConfig' = c
  /\ UNCHANGED <<spOlt, spApp, spTodo, spClean>>

\* Applications without an OLT go as well, but the only one of no balance.
SpaToDelete ==
  LET non_lb_spa(a) == ~spNewApp[a].lb /\ a = 1
  IN  (DOMAIN spApp \ DOMAIN spNewApp)
        \cup {a \in DOMAIN spNewApp : spNewApp[a].olts = <<>> /\ ~non_lb_spa(a)}

\* apply_olt_control (its steps are above): an OLT that fails
\* is deleted.
SpaWriteOlts ==
  /\ spAt = "olts" /\ spAt' = "delete" /\ spTodo' = SpaToDelete
  /\ \E failed \in SUBSET spConfig.olts :
       /\ Cardinality(failed) <= SpaFails
       /\ spOlt' = [o \in spConfig.olts \ failed |-> spNewOlt[o]]
       /\ spClean' = (spClean /\ failed = {})
  /\ UNCHANGED <<spApp, spConfig, spNewOlt, spNewApp, spMoved, spRuns>>

\* One that the cluster does not have yet makes the run raise.
SpaDelete(a) ==
  /\ spAt = "delete" /\ a \in spTodo \cap DOMAIN spApp
  /\ spApp' = Without(spApp, a) /\ spTodo' = spTodo \ {a}
  /\ UNCHANGED <<spOlt, spAt, spConfig, spNewOlt, spNewApp, spMoved, spRuns, spClean>>

SpaDeleted ==
  /\ spAt = "delete" /\ spTodo = {} /\ spAt' = "write" /\ spTodo' = DOMAIN spNewApp \ SpaToDelete
  /\ UNCHANGED <<spOlt, spApp, spConfig, spNewOlt, spNewApp, spMoved, spRuns, spClean>>

SpaWrite(a) ==
  /\ spAt = "write" /\ a \in spTodo /\ spTodo' = spTodo \ {a}
  /\ a \in DOMAIN spApp \/ spTodo \cap DOMAIN spApp = {}  \* updates first
  /\ spApp' = With(spApp, a, spNewApp[a])
  /\ UNCHANGED <<spOlt, spAt, spConfig, spNewOlt, spNewApp, spMoved, spRuns, spClean>>

SpaFinished ==
  /\ spAt = "write" /\ spTodo = {} /\ spAt' = "idle"
  /\ UNCHANGED <<spOlt, spApp, spConfig, spNewOlt, spNewApp, spTodo, spMoved, spRuns, spClean>>

\* A call raises or the process is killed.  No later run repairs what this
\* leaves in the cluster, so it is not followed any further.
SpaDies ==
  /\ spAt \notin {"idle", "dead"} /\ spAt' = "dead"
  /\ spConfig' = SpaIdle /\ spNewOlt' = <<>> /\ spNewApp' = <<>> /\ spTodo' = {} /\ spMoved' = {}
  /\ UNCHANGED <<spOlt, spApp, spRuns, spClean>>

SpaNext ==
  \/ spAt = "idle" /\ \E c \in SpaInputs : SpaBegin(c)
  \/ \E a \in DOMAIN spApp \cup DOMAIN spNewApp : SpaDelete(a) \/ SpaWrite(a)
  \/ SpaWriteOlts \/ SpaDeleted \/ SpaFinished \/ SpaDies

-----------------------------------------------------------------------------

HandlersOf(o) == {a \in DOMAIN spApp : Contains(spApp[a].olts, o)}

(***************************************************************************)
(* As long as no run dies: between runs the application an OLT names       *)
(* handles it.  If no OLT ever failed either, no other does, it is listed  *)
(* once and none that is gone is, over changes from one application to     *)
(* balanced ones and back; with balancing no application is idle; and once *)
(* there is a balance an OLT that stays is not moved (no rebalance should  *)
(* be done, interface_cfg.py:1121).                                        *)
(***************************************************************************)
OltsHandledOnce ==
  /\ spAt = "idle" => \A o \in DOMAIN spOlt : spOlt[o] \in HandlersOf(o) \cup {NoApp}
  /\ spAt = "idle" /\ spClean =>
       /\ \A o \in DOMAIN spOlt : HandlersOf(o) = {spOlt[o]} \ {NoApp}
       /\ \A a \in DOMAIN spApp : /\ IsInjective(spApp[a].olts)
                                  /\ ToSet(spApp[a].olts) \subseteq DOMAIN spOlt
       /\ spConfig.spa = "lb" => /\ \A o \in DOMAIN spOlt : spOlt[o] # NoApp
                                 /\ \A a \in DOMAIN spApp : spApp[a].olts # <<>>
  /\ spAt = "olts" /\ spClean /\ spConfig.spa = "lb" /\ ~is_transition_to_load_balance =>
       /\ spMoved = {}
       /\ \A o \in DOMAIN spOlt \cap spConfig.olts : spOlt[o] # NoApp => spNewOlt[o] = spOlt[o]

-----------------------------------------------------------------------------
(***************************************************************************)
(* interface_cfg.py, its workloads: BNGs, each with the interface of its   *)
(* bundle and one per sub-bundle, and service provisioning applications.   *)
(* An interface without a static address gets one per family from the pool *)
(* of its bundle, the one it had before if that is still free; and every   *)
(* BNG workload belongs to a protection group of limited size.  A run      *)
(* computes the specifications first, then writes them one by one, and     *)
(* may die between two writes; nothing but the cluster is remembered.      *)
(***************************************************************************)

CONSTANTS PgLimit,    \* apollo_wl_per_pg_limit
          NsiInputs,  \* configurations to try
          NsiRuns     \* bound on the runs of the script

VARIABLES nsCluster,  \* workload to its interfaces, each with pool and addresses
          nsGroups,   \* protection group to its workloads
          nsAt,       \* where the run is
          nsConfig,   \* what it was given
          nsSpecs,    \* bng_workload_specs and svc_prov_app_specs
          nsTodo,     \* workloads still to delete, update or create
          nsChanged,  \* numbers of the workloads it creates and deletes
          nsPlan,     \* protection groups still to write
          nsLast,     \* history: the configuration of the last run, if it came to its end
          nsClean,    \* history: no run has died
          nsRuns      \* history: runs begun

nsVars == <<nsCluster, nsGroups, nsAt, nsConfig, nsSpecs, nsTodo, nsChanged, nsPlan, nsLast,
            nsClean, nsRuns>>

Families == {"v4", "v6"}
NoIp == 0
NoStatic == [f \in Families |-> NoIp]
NoNsi == [use |-> <<>>, pool |-> <<>>, docsis |-> 0]
NoChange == [created |-> {}, deleted |-> {}]

\* Workloads are <<kind, number>>, BNGs before applications, as the script
\* takes them.
InBngSpaOrder(S) ==
  SetToSortSeq(S, LAMBDA a, b : \/ a[1] = "bng" /\ b[1] = "spa"
                                \/ a[1] = b[1] /\ a[2] < b[2])

\* All interfaces of some specifications: <<workload, position>>.
InterfacesOf(specs, S) ==
  FlattenSeq([k \in 1 .. Cardinality(S) |->
    LET w == InBngSpaOrder(S)[k] IN [i \in DOMAIN specs[w] |-> <<w, i>>]])

-----------------------------------------------------------------------------
(* Pools: of each what is free and who holds what, by family               *)

\* The first addresses are left to DOCSIS.
create_nsi_ip_pool(c, p) ==
  [free |-> [f \in Families |-> IF c.pool[p].has[f] THEN c.docsis + 1 .. c.pool[p].count ELSE {}],
   held |-> <<>>]

Holds(pool, w, f) == <<w, f>> \in DOMAIN pool.held
Hold(pool, w, f, ip) ==
  [free |-> [pool.free EXCEPT ![f] = @ \ {ip}],
   held |-> [x \in DOMAIN pool.held \cup {<<w, f>>} |-> IF x = <<w, f>> THEN ip ELSE pool.held[x]]]

\* A static address need not be one of the pool's.
store_ip(c, pools, p, w, f, ip, is_static) ==
  IF ip # NoIp /\ c.pool[p].has[f] /\ (ip \in pools[p].free[f] \/ is_static)
  THEN [pools EXCEPT ![p] = Hold(@, w, f, ip)]
  ELSE pools

StoreBoth(c, pools, p, w, ip, is_static) ==
  store_ip(c, store_ip(c, pools, p, w, "v4", ip.v4, is_static), p, w, "v6", ip.v6, is_static)

\* The pools of split, with the addresses the configuration sets.
Configured(c) ==
  FoldLeft(LAMBDA pools, x : LET u == c.use[x[1]][x[2]]
                             IN  StoreBoth(c, pools, u.pool, x[1], u.ip, TRUE),
           [p \in DOMAIN c.pool |-> create_nsi_ip_pool(c, p)],
           InterfacesOf(c.use, DOMAIN c.use))

\* Mutant of Remembered: an address of before is kept although a static one
\* has taken it.
RememberedAnyway(c) ==
  FoldLeft(LAMBDA pools, x : LET u == nsCluster[x[1]][x[2]]
                             IN  IF u.pool \in DOMAIN pools
                                 THEN StoreBoth(c, pools, u.pool, x[1], u.ip, TRUE) ELSE pools,
           Configured(c), InterfacesOf(nsCluster, DOMAIN nsCluster \cap DOMAIN c.use))

\* And what the cluster says of the workloads that stay: who has a static
\* address in a pool keeps nothing else there.
Remembered(c) ==
  FoldLeft(LAMBDA pools, x :
             LET u == nsCluster[x[1]][x[2]]
             IN  IF u.pool \in DOMAIN pools
                    /\ ~(\E f \in Families : Holds(pools[u.pool], x[1], f))
                 THEN StoreBoth(c, pools, u.pool, x[1], u.ip, FALSE) ELSE pools,
           Configured(c), InterfacesOf(nsCluster, DOMAIN nsCluster \cap DOMAIN c.use))

\* One address; no pool of the family, no address; an empty pool is an error.
\* DOCSIS takes addresses from the front, this script from the end.
get_ip_address(c, st, x, f) ==
  LET w == x[1]
      p == c.use[w][x[2]].pool
      give(ip) == [st EXCEPT !.pools[p] = Hold(@, w, f, ip), !.specs[w][x[2]].ip[f] = ip]
  IN  IF Holds(st.pools[p], w, f) THEN give(st.pools[p].held[<<w, f>>])
      ELSE IF ~c.pool[p].has[f] THEN st
      ELSE IF st.pools[p].free[f] = {} THEN [st EXCEPT !.ok = FALSE]
      ELSE give(Max(st.pools[p].free[f]))

\* A BNG needs both families, an application the one of its mode, neither
\* has any when it has a static address.
allocate_nsi_ips(c) ==
  LET one(st, x) ==
        LET u == c.use[x[1]][x[2]]
            v4 == IF u.mode \in {"both", "ipv4-only"} THEN get_ip_address(c, st, x, "v4") ELSE st
        IN  IF u.ip # NoStatic THEN st
            ELSE IF u.mode \in {"both", "ipv6-only"} THEN get_ip_address(c, v4, x, "v6") ELSE v4
  IN  FoldLeft(one, [pools |-> Remembered(c), ok |-> TRUE,
                     specs |-> [w \in DOMAIN c.use |-> [i \in DOMAIN c.use[w] |->
                                 [pool |-> c.use[w][i].pool, ip |-> c.use[w][i].ip]]]],
               InterfacesOf(c.use, DOMAIN c.use))

-----------------------------------------------------------------------------
(* apply_bng_pgs                                                           *)

\* The n smallest.
First(S, n) == {w \in S : Cardinality({v \in S : v <= w}) <= n}

\* Groups lose the workloads that are gone and are filled up with new ones;
\* the rest go into new groups, in the gaps first.  A group without any is
\* to be deleted.  A sequence of writes <<group, workloads>>.
apply_bng_pgs(created, deleted) ==
  LET old == SetToSortSeq(DOMAIN nsGroups, <)
      fill(st, g) == LET kept == nsGroups[g] \ deleted
                         more == First(st.left, PgLimit - Cardinality(kept))
                     IN  [left |-> st.left \ more,
                          plan |-> IF kept \cup more = nsGroups[g] THEN st.plan
                                   ELSE Append(st.plan, <<g, kept \cup more>>)]
      filled == FoldLeft(fill, [left |-> created, plan |-> <<>>], old)
      max == IF old = <<>> THEN 0 ELSE Last(old)
      gaps == SetToSortSeq((0 .. max) \ DOMAIN nsGroups, <)
      left == SetToSortSeq(filled.left, <)
      index(k) == IF k <= Len(gaps) THEN gaps[k] ELSE max + k - Len(gaps)
  IN  filled.plan \o
        [k \in 1 .. (Len(left) + PgLimit - 1) \div PgLimit |->
           <<index(k), ToSet(SubSeq(left, PgLimit * (k - 1) + 1, Min({PgLimit * k, Len(left)})))>>]

-----------------------------------------------------------------------------

NsiStart ==
  /\ nsCluster = <<>> /\ nsGroups = <<>> /\ nsAt = "idle" /\ nsConfig = NoNsi /\ nsSpecs = <<>>
  /\ nsTodo = {} /\ nsChanged = NoChange /\ nsPlan = <<>> /\ nsLast = NoNsi /\ nsClean = TRUE
  /\ nsRuns = 0

OfKind(k, S) == {w \in S : w[1] = k}

\* What apply_bng_workload and apply_svc_prov_app find to do.
Different(k, specs) ==
  {w \in OfKind(k, DOMAIN nsCluster \cup DOMAIN specs) :
     w \in DOMAIN nsCluster /\ w \in DOMAIN specs => nsCluster[w] # specs[w]}

\* split, and the lists apply_bng_workload begins with.  An exhausted pool
\* makes split raise: nothing is written.
NsiBegin(c) ==
  /\ nsAt = "idle" /\ nsRuns < NsiRuns /\ nsRuns' = nsRuns + 1
  /\ LET made == allocate_nsi_ips(c)
         Numbers(S) == {w[2] : w \in OfKind("bng", S)}
     IN  IF made.ok
         THEN /\ nsAt' = "bng" /\ nsConfig' = c /\ nsSpecs' = made.specs
              /\ nsTodo' = Different("bng", made.specs)
              /\ nsChanged' = [created |-> Numbers(DOMAIN c.use \ DOMAIN nsCluster),
                               deleted |-> Numbers(DOMAIN nsCluster \ DOMAIN c.use)]
         ELSE UNCHANGED <<nsAt, nsConfig, nsSpecs, nsTodo, nsChanged>>
  /\ nsLast' = NoNsi
  /\ UNCHANGED <<nsCluster, nsGroups, nsPlan, nsClean>>

\* Deletions first, then updates, then creations.
Turn(w) == IF w \notin DOMAIN nsSpecs THEN 1 ELSE IF w \in DOMAIN nsCluster THEN 2 ELSE 3

NsiApply(w) ==
  /\ nsAt \in {"bng", "spa"} /\ w \in nsTodo /\ \A v \in nsTodo : Turn(w) <= Turn(v)
  /\ nsTodo' = nsTodo \ {w}
  /\ nsCluster' = [v \in (DOMAIN nsCluster \ {w}) \cup ({w} \cap DOMAIN nsSpecs) |->
                     IF v = w THEN nsSpecs[v] ELSE nsCluster[v]]
  /\ UNCHANGED <<nsGroups, nsAt, nsConfig, nsSpecs, nsChanged, nsPlan, nsLast, nsClean, nsRuns>>

apply_bng_workload ==
  /\ nsAt = "bng" /\ nsTodo = {} /\ nsAt' = "pgs"
  /\ nsPlan' = apply_bng_pgs(nsChanged.created, nsChanged.deleted)
  /\ UNCHANGED <<nsCluster, nsGroups, nsConfig, nsSpecs, nsTodo, nsChanged, nsLast, nsClean,
                 nsRuns>>

\* The next write of a protection group
NsiGroup ==
  /\ nsAt = "pgs" /\ nsPlan # <<>> /\ nsPlan' = Tail(nsPlan)
  /\ LET g == Head(nsPlan)[1]
         ws == Head(nsPlan)[2]
     IN  nsGroups' = [h \in (DOMAIN nsGroups \ {g}) \cup (IF ws = {} THEN {} ELSE {g}) |->
                        IF h = g THEN ws ELSE nsGroups[h]]
  /\ UNCHANGED <<nsCluster, nsAt, nsConfig, nsSpecs, nsTodo, nsChanged, nsLast, nsClean, nsRuns>>

NsiGroupsDone ==
  /\ nsAt = "pgs" /\ nsPlan = <<>> /\ nsAt' = "spa" /\ nsTodo' = Different("spa", nsSpecs)
  /\ UNCHANGED <<nsCluster, nsGroups, nsConfig, nsSpecs, nsChanged, nsPlan, nsLast, nsClean, nsRuns>>

\* What a run knew is gone when it ends, however it ends.
NsiForget ==
  /\ nsAt' = "idle" /\ nsConfig' = NoNsi /\ nsSpecs' = <<>> /\ nsTodo' = {}
  /\ nsChanged' = NoChange /\ nsPlan' = <<>>
  /\ UNCHANGED <<nsCluster, nsGroups, nsRuns>>

NsiFinished == nsAt = "spa" /\ nsTodo = {} /\ nsLast' = nsConfig /\ UNCHANGED nsClean /\ NsiForget

\* A call of the cluster raises, or the process is killed.
NsiDies == nsAt # "idle" /\ nsClean' = FALSE /\ UNCHANGED nsLast /\ NsiForget

NsiNext ==
  \/ nsAt = "idle" /\ \E c \in NsiInputs : NsiBegin(c)
  \/ \E w \in nsTodo : NsiApply(w)
  \/ apply_bng_workload \/ NsiGroup \/ NsiGroupsDone \/ NsiFinished \/ NsiDies

-----------------------------------------------------------------------------

AddressesIn(w, p, f) == {nsCluster[w][i].ip[f] :
                           i \in {j \in DOMAIN nsCluster[w] : nsCluster[w][j].pool = p}} \ {NoIp}

(***************************************************************************)
(* After a run that came to its end no two workloads have one address of   *)
(* a pool, whatever runs died before it; and as long as none has died,     *)
(* every BNG workload is in one protection group, of at most PgLimit, and  *)
(* groups name nobody who is gone.  The same configuration again leaves    *)
(* everything as it is, and an address of the pool that no static one      *)
(* takes is kept (avoid reconfiguration when pods count changed,           *)
(* interface_cfg.py:768).                                                  *)
(***************************************************************************)
AddressesHeldOnce ==
  /\ nsLast # NoNsi =>
       \A p \in DOMAIN nsLast.pool, f \in Families, v, w \in DOMAIN nsCluster :
         v # w => AddressesIn(v, p, f) \cap AddressesIn(w, p, f) = {}
  /\ nsLast # NoNsi /\ nsClean =>
       /\ \A w \in OfKind("bng", DOMAIN nsCluster) :
            Cardinality({g \in DOMAIN nsGroups : w[2] \in nsGroups[g]}) = 1
       /\ \A g \in DOMAIN nsGroups :
            /\ Cardinality(nsGroups[g]) \in 1 .. PgLimit
            /\ \A n \in nsGroups[g] : <<"bng", n>> \in DOMAIN nsCluster
  /\ nsLast # NoNsi => /\ allocate_nsi_ips(nsLast).ok
                       /\ allocate_nsi_ips(nsLast).specs = nsCluster
  /\ nsAt = "bng" =>
       \A w \in DOMAIN nsSpecs \cap DOMAIN nsCluster, f \in Families :
         \A i \in DOMAIN nsSpecs[w], j \in DOMAIN nsCluster[w] :
           LET p == nsSpecs[w][i].pool
               static == {nsConfig.use[x[1]][x[2]].ip[f] :
                            x \in ToSet(InterfacesOf(nsConfig.use, DOMAIN nsConfig.use))}
               ip == nsCluster[w][j].ip[f]
           IN  (/\ nsCluster[w][j].pool = p /\ nsClean
                /\ \A k \in DOMAIN nsConfig.use[w] : nsConfig.use[w][k].ip = NoStatic
                /\ nsSpecs[w][i].ip[f] # NoIp
                /\ ip \in (nsConfig.docsis + 1 .. nsConfig.pool[p].count) \ static)
               => nsSpecs[w][i].ip[f] = ip
=============================================================================
