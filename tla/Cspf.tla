-------------------------------- MODULE Cspf --------------------------------
(***************************************************************************)
(* Shortest paths over a graph whose edges have peer types: cspf.c splits  *)
(* every node in two, `a' while the path may still climb and `b' once it   *)
(* may not, and spf.c runs Dijkstra's algorithm with a binary heap.        *)
(*                                                                         *)
(* A graph is the sequence of its edges in the order they were added.  The *)
(* source and the graph are chosen by the caller, who may take edges out   *)
(* between two runs; there is at most one edge from one node to another,   *)
(* and for every edge one of the opposite type back.                       *)
(***************************************************************************)
EXTENDS PathCost, SequencesExt

CONSTANTS
    Nodes,      \* ids, which memcmp() orders as numbers
    Source,
    Graphs      \* the graphs to start from

VARIABLES
    graph,
    spf         \* heap: its first heapsize members; node[v]: heapidx,
                \* counted from 1, cost and parent; aborted

cspfvars == <<graph, spf>>

INT_MAX == RIB_COST_UNREACHABLE     \* above every cost

SpfNodes == Nodes \X {"a", "b"}
Fresh == [idx |-> 0, cost |-> INT_MAX, parent |-> NULL]

(* Mutant: an ipeer edge is not added to the lower halves. *)
JoinsUpper(type) ==
    CASE type = "EPEER"    -> {<<"a", "b">>}
      [] type = "CUSTOMER" -> {<<"b", "b">>}
      [] type = "TRANSIT"  -> {<<"a", "a">>}
      [] type = "IPEER"    -> {<<"a", "a">>}

(* cspf_edge_add(): the halves of the two nodes an edge of a type joins. *)
Joins(type) ==
    CASE type = "EPEER"    -> {<<"a", "b">>}
      [] type = "CUSTOMER" -> {<<"b", "b">>}
      [] type = "TRANSIT"  -> {<<"a", "a">>}
      [] type = "IPEER"    -> {<<"a", "a">>, <<"b", "b">>}

(* The list of edges of a node; cspf_node_add() puts `ab' first. *)
EdgesOf(v) ==
    LET n == v[1]
        p == v[2]
        own == SelectSeq(graph, LAMBDA e : e.from = n /\ \E j \in Joins(e.type) : j[1] = p)
        half(e) == CHOOSE q \in {"a", "b"} : <<p, q>> \in Joins(e.type)
    IN  (IF p = "a" THEN <<[to |-> <<n, "b">>, cost |-> 0]>> ELSE <<>>)
            \o [k \in DOMAIN own |-> [to |-> <<own[k].to, half(own[k])>>,
                                      cost |-> own[k].cost]]

---------------------------------------------------------------------------
Cost(s, k) == s.node[s.heap[k]].cost

Swap(s, j, k) ==
    [s EXCEPT !.heap[j] = s.heap[k], !.heap[k] = s.heap[j],
              !.node[s.heap[k]].idx = j, !.node[s.heap[j]].idx = k]

Smaller(s, j, k) ==
    IF k <= Len(s.heap) /\ Cost(s, j) > Cost(s, k) THEN k ELSE j

RECURSIVE push_down(_, _)
push_down(s, k) ==
    LET min == Smaller(s, Smaller(s, k, 2 * k), 2 * k + 1)
    IN  IF min = k THEN s ELSE push_down(Swap(s, k, min), min)

RECURSIVE pull_up(_, _)
pull_up(s, k) ==
    IF k = 1 \/ Cost(s, k \div 2) <= Cost(s, k) THEN s
    ELSE pull_up(Swap(s, k, k \div 2), k \div 2)

(* One edge of the node `from'.  nl() calls abort() for two nodes with the *)
(* same id, and the source has no parent to compare with.                  *)
Relax(s, from, edge) ==
    LET to == edge.to
        old == s.node[to]
        c == s.node[from].cost + edge.cost
        k == IF old.cost = INT_MAX THEN Len(s.heap) + 1 ELSE old.idx
    IN  IF c < old.cost
        THEN pull_up([s EXCEPT !.heap = IF old.cost = INT_MAX THEN Append(@, to) ELSE @,
                               !.node[to] = [idx |-> k, cost |-> c, parent |-> from]], k)
        ELSE IF c > old.cost THEN s
        ELSE IF old.parent = NULL \/ old.parent[1] = from[1]
        THEN [s EXCEPT !.aborted = TRUE]
        ELSE IF from[1] < old.parent[1]
        THEN [s EXCEPT !.node[to].parent = from]
        ELSE s

---------------------------------------------------------------------------
CspfIdle == spf.heap = <<>>

CspfInit ==
    /\ graph \in Graphs
    /\ spf = [heap |-> <<>>, node |-> [v \in SpfNodes |-> Fresh], aborted |-> FALSE]

(* spf_run() up to its main loop, from the upper half of the source. *)
cspf_run ==
    /\ CspfIdle
    /\ spf' = [spf EXCEPT
                  !.heap = <<<<Source, "a">>>>,
                  !.node = [v \in SpfNodes |-> IF v = <<Source, "a">>
                                               THEN [Fresh EXCEPT !.idx = 1, !.cost = 0]
                                               ELSE Fresh]]
    /\ UNCHANGED graph

(* The cheapest node leaves the heap, the last one takes its place. *)
Popped ==
    LET s == [spf EXCEPT !.node[spf.heap[1]].idx = 0]
        last == Last(spf.heap)
    IN  IF Len(spf.heap) = 1 THEN [s EXCEPT !.heap = <<>>]
        ELSE push_down([s EXCEPT !.heap = [Front(@) EXCEPT ![1] = last],
                                 !.node[last].idx = 1], 1)

(* An iteration of the main loop: the cheapest node's edges are followed. *)
Iteration ==
    /\ ~ CspfIdle /\ ~ spf.aborted
    /\ spf' = LET from == spf.heap[1]
              IN  FoldLeft(LAMBDA s, e : Relax(s, from, e), Popped, EdgesOf(from))
    /\ UNCHANGED graph

(* cspf_edge_del(): a link is taken out, in both directions.  The results  *)
(* of the last run are not read after that.                                *)
DelLink(m, n) ==
    /\ CspfIdle
    /\ graph' = SelectSeq(graph, LAMBDA e : {e.from, e.to} # {m, n})
    /\ graph' # graph
    /\ spf' = [spf EXCEPT !.node = [v \in SpfNodes |-> Fresh]]

CspfNext ==
    \/ cspf_run \/ Iteration
    \/ \E m, n \in Nodes : DelLink(m, n)

---------------------------------------------------------------------------
cspf_node_cost(n) == spf.node[<<n, "b">>].cost

cspf_node_parent(n) ==
    LET p == spf.node[<<n, "b">>].parent
        q == IF p = <<n, "a">> THEN spf.node[p].parent ELSE p
    IN  IF q = NULL THEN NULL ELSE q[1]

(* conf_peer_type_to_lsa_peer_flags() (dvpn.c) *)
FlagsOf(type) ==
    CASE type = "EPEER"    -> {}
      [] type = "CUSTOMER" -> {"CUSTOMER"}
      [] type = "TRANSIT"  -> {"TRANSIT"}
      [] type = "IPEER"    -> {"CUSTOMER", "TRANSIT"}

(* What lsa_path_cost() sees of a path through the graph. *)
InfoOf(m, n) ==
    LET E == {e \in Range(graph) : e.from = m /\ e.to = n}
    IN  IF E = {} THEN NULL
        ELSE LET e == CHOOSE e \in E : TRUE
             IN  [metric |-> e.cost, flags |-> FlagsOf(e.type)]

CostOf(path) ==
    WalkCost([k \in 1..Len(path) - 1 |->
                 [fwd |-> InfoOf(path[k], path[k + 1]),
                  rev |-> InfoOf(path[k + 1], path[k])]])

(* The paths without a loop from the source to n. *)
PathsTo(n) ==
    {<<Source>> \o p \o <<n>> :
        p \in UNION {SetToSeqs(S) : S \in SUBSET (Nodes \ {Source, n})}}

(* After a run every node has the cost lsa_path_cost() gives the cheapest  *)
(* path to it, and its parent is the last hop of such a path: the two ways *)
(* this repository knows of choosing a path, Dijkstra's algorithm on the   *)
(* split graph and the valley-free walk, agree.  On the way nl() was not   *)
(* asked to tell a node from itself, and no node is left in the heap.      *)
CspfFindsBestPath ==
    /\ ~ spf.aborted
    /\ CspfIdle /\ spf.node[<<Source, "a">>].cost = 0 =>
        \A n \in Nodes \ {Source} :
            LET best == {p \in PathsTo(n) : \A q \in PathsTo(n) : CostOf(p) <= CostOf(q)}
            IN  \A p \in best :
                    /\ CostOf(p) = cspf_node_cost(n)
                    /\ CostOf(p) < INT_MAX =>
                           \E q \in best : q[Len(q) - 1] = cspf_node_parent(n)
=============================================================================
