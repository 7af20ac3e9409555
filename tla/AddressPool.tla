---------------------------- MODULE AddressPool ----------------------------
(***************************************************************************)
(* What ds/dhcp/dhcp.h promises of the addresses of one network            *)
(* (dhcp.h:41-56, 85-101): an address is leased to one client at a time, a *)
(* client gets the address it names if that is free and the smallest free  *)
(* one if it is taken or none of the network, no client is refused while   *)
(* one is free, and only a leased address can be given back.               *)
(***************************************************************************)
EXTENDS FiniteSetsExt, Naturals

CONSTANTS Hosts,    \* the host numbers of the network
          Reserved  \* those that are never leased

VARIABLES leased,   \* the host numbers in use
          asked,    \* the host number the last call named, if it is of this network
          answer    \* the status it returned, and the host number it gave

PoolInit == leased = Reserved /\ asked = 0 /\ answer = <<"none", 0>>

Free == Hosts \ leased

Lease(h) == /\ h \in Free
            /\ leased' = leased \cup {h} /\ answer' = <<"SUCCESS", h>>

LeaseLeast == Free # {} /\ Lease(Min(Free))

LeaseNamed == asked' \in Free /\ Lease(asked')
LeaseSmallest == asked' \notin Free /\ LeaseLeast
Exhausted == Free = {} /\ answer'[1] = "MALLOC_FAILURE" /\ UNCHANGED leased

\* There is no memory to note the lease down.
OutOfMemory == answer'[1] = "no memory" /\ UNCHANGED leased

GiveBack(h) == /\ h \in leased \ Reserved
               /\ leased' = leased \ {h} /\ answer' = <<"freed", h>>

Release == GiveBack(asked')
ReleaseFree == asked' \in Free /\ answer'[1] = "DOUBLE_FREE" /\ UNCHANGED leased
ReleaseOther == asked' \notin Hosts \ Reserved /\ answer'[1] = "FREE_FAILURE" /\ UNCHANGED leased

PoolNext == \/ LeaseNamed \/ LeaseSmallest \/ Exhausted \/ OutOfMemory
            \/ Release \/ ReleaseFree \/ ReleaseOther
PoolSpec == PoolInit /\ [][PoolNext]_<<leased, asked, answer>>
=============================================================================
