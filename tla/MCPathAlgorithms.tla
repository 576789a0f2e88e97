-------------------------- MODULE MCPathAlgorithms --------------------------
(* The loop of lsa_path_cost() over every path of three hops, with every   *)
(* combination of flags on both sides of a hop, both ends listed or not,   *)
(* two metrics; or cspf.c over every graph of four nodes with some peer    *)
(* type, or none, on each of the six links, at costs that tie often.       *)
EXTENDS PathCostLoop, Cspf

MCHopSet == {h \in Hop : h.rev = NULL \/ h.rev.metric = 1}

Back(t) == CASE t = "CUSTOMER" -> "TRANSIT" [] t = "TRANSIT" -> "CUSTOMER" [] OTHER -> t
Types == {"EPEER", "CUSTOMER", "TRANSIT", "IPEER"}
Links == <<<<1, 2>>, <<1, 3>>, <<2, 3>>, <<3, 4>>, <<2, 4>>, <<1, 4>>>>
Costs == <<1, 2, 1, 1, 2, 4>>

Edges(k, t) ==
    LET m == Links[k][1]
        n == Links[k][2]
    IN  IF t = NULL THEN <<>>
        ELSE <<[from |-> m, to |-> n, type |-> t, cost |-> Costs[k]],
               [from |-> n, to |-> m, type |-> Back(t), cost |-> Costs[k]]>>

MCGraphs == {FlattenSeq([k \in 1..6 |-> Edges(k, f[k])]) : f \in [1..6 -> Types \cup {NULL}]}

MCInit ==
    \/ LoopInit /\ graph = <<>> /\ spf = [heap |-> <<>>, node |-> [v \in SpfNodes |-> Fresh],
                                      aborted |-> FALSE]
    \/ CspfInit /\ hops = <<>> /\ ith = 1 /\ traversing_transits = TRUE /\ cost = 0
       /\ result = 0

MCNext ==
    \/ LoopNext /\ UNCHANGED cspfvars
    \/ result = 0 /\ hops = <<>> /\ CspfNext /\ UNCHANGED loopvars

MCSpec == MCInit /\ [][MCNext]_<<loopvars, cspfvars>>
=============================================================================
