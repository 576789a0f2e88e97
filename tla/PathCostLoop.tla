---------------------------- MODULE PathCostLoop ----------------------------
(***************************************************************************)
(* The loop of lsa_path_cost() (loc_rib.c), one iteration per action, over *)
(* every sequence of at most MaxHops hops.  PathCost states its result     *)
(* without a loop; the RIB model uses that statement.                      *)
(***************************************************************************)
EXTENDS PathCost

CONSTANTS
    HopSet,     \* the hops paths are made of
    MaxHops     \* bound on the length of a path

ASSUME HopAssumption == HopSet \subseteq Hop /\ MaxHops \in Nat

VARIABLES
    hops,                   \* the path
    ith,                    \* index of the next hop
    traversing_transits,
    cost,
    result                  \* NULL until the function returns

loopvars == <<hops, ith, traversing_transits, cost, result>>

LoopInit ==
    /\ hops \in UNION {[1..n -> HopSet] : n \in 0..MaxHops}
    /\ ith = 1
    /\ traversing_transits = TRUE
    /\ cost = 0
    /\ result = NULL

(* The hop's two ends list each other, and it does not climb again. *)
Passes(h) ==
    /\ h.fwd # NULL /\ h.rev # NULL
    /\ ~ traversing_transits => /\ "CUSTOMER" \in h.fwd.flags
                                /\ "TRANSIT" \in h.rev.flags

Return_Unreachable ==
    /\ result = NULL /\ ith <= Len(hops)
    /\ ~ Passes(hops[ith])
    /\ result' = RIB_COST_UNREACHABLE
    /\ UNCHANGED <<hops, ith, traversing_transits, cost>>

(* Mutant: one end's word is enough for a hop to count as uphill. *)
IterateOneSided ==
    /\ result = NULL /\ ith <= Len(hops)
    /\ Passes(hops[ith])
    /\ traversing_transits' = (traversing_transits /\ "TRANSIT" \in hops[ith].fwd.flags)
    /\ cost' = cost + hops[ith].fwd.metric
    /\ ith' = ith + 1
    /\ UNCHANGED <<hops, result>>

(* An iteration that gets to the end of the loop body. *)
Iterate ==
    /\ result = NULL /\ ith <= Len(hops)
    /\ Passes(hops[ith])
    /\ traversing_transits' = (/\ traversing_transits
                               /\ "TRANSIT" \in hops[ith].fwd.flags
                               /\ "CUSTOMER" \in hops[ith].rev.flags)
    /\ cost' = cost + hops[ith].fwd.metric
    /\ ith' = ith + 1
    /\ UNCHANGED <<hops, result>>

Return_Cost ==
    /\ result = NULL /\ ith > Len(hops)
    /\ result' = cost
    /\ UNCHANGED <<hops, ith, traversing_transits, cost>>

LoopNext == Return_Unreachable \/ Iterate \/ Return_Cost

LoopSpec == LoopInit /\ [][LoopNext]_loopvars

---------------------------------------------------------------------------
(* What lsa_path_cost() returns is the cost PathCost states. *)
LoopComputesWalkCost == result # NULL => result = WalkCost(hops)
=============================================================================
