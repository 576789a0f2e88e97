------------------------------ MODULE PathCost ------------------------------
(***************************************************************************)
(* The cost lsa_path_cost() (loc_rib.c) gives an advertised path, stated   *)
(* over the hops of the path.  A hop holds what lsa_get_peer_info() says   *)
(* of its far end in the near end's LSA (fwd) and the other way round      *)
(* (rev): a metric and flags, or NULL when the peer is not listed.         *)
(***************************************************************************)
EXTENDS Sequences, Sums

CONSTANTS
    Metrics,                \* values of the METRIC attribute of a PEER
    RIB_COST_UNREACHABLE,
    NULL

RIB_COST_INELIGIBLE == RIB_COST_UNREACHABLE + 1
Flags == {"TRANSIT", "CUSTOMER"}
PeerInfo == [metric : Metrics, flags : SUBSET Flags]
Hop == [fwd : PeerInfo \cup {NULL}, rev : PeerInfo \cup {NULL}]

ASSUME CostValueAssumption ==
    /\ RIB_COST_UNREACHABLE \in Nat
    /\ Metrics \subseteq Nat
    /\ NULL \notin PeerInfo

Linked(h) == h.fwd # NULL /\ h.rev # NULL
Uphill(h) == "TRANSIT" \in h.fwd.flags /\ "CUSTOMER" \in h.rev.flags
Downhill(h) == "CUSTOMER" \in h.fwd.flags /\ "TRANSIT" \in h.rev.flags

(* After the first hop that is not uphill, every hop is downhill. *)
ValleyFree(hops) ==
    \A j, k \in DOMAIN hops : j < k /\ ~ Uphill(hops[j]) => Downhill(hops[k])

WalkCost(hops) ==
    IF (\A k \in DOMAIN hops : Linked(hops[k])) /\ ValleyFree(hops)
    THEN Sum([k \in DOMAIN hops |-> hops[k].fwd.metric])
    ELSE RIB_COST_UNREACHABLE
=============================================================================
