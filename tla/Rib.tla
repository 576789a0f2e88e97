-------------------------------- MODULE Rib --------------------------------
(***************************************************************************)
(* The routing information base of one node: the adj_rib_in of every DGP   *)
(* session (adj_rib_in.c), the loc_rib they feed through                   *)
(* rib_listener_to_loc.c (loc_rib.c), and the listeners of the loc_rib:    *)
(* the dgp_writer of every session (dgp_writer.c) and the rt_builder       *)
(* (rt_builder.c).                                                         *)
(*                                                                         *)
(* The daemon is one event loop, so a handler is one action, with one      *)
(* exception: recompute_rib is a task that visits the ids one after the    *)
(* other and calls every listener for each, and a writer whose write fails *)
(* tears its session down from inside that loop.  The pass is therefore    *)
(* split at the ids; no other handler is enabled while `todo' is not empty.*)
(*                                                                         *)
(* Not told apart: an id that has no loc_rib_id yet and one whose          *)
(* loc_rib_id is as get_id made it (no LSA, version 0, best NULL): every   *)
(* operation treats the two alike, once the aborts are ruled out.          *)
(***************************************************************************)
EXTENDS PathCost

CONSTANTS
    Ids,                \* node ids (NODE_ID_LEN byte strings), ordered
    Me,                 \* rib->myid, or NoId in the monitors (myid == NULL)
    Peers,              \* the ids sessions with a remoteid are made to
    Monitors,           \* sessions with remoteid == NULL (readonly listeners)
    Versions,           \* values of the signed VERSION attribute
    Paths,              \* values of the ADV_PATH attribute
    Sizes,              \* values of lsa->bytes
    Wire,               \* the LSAs the remote ends may send
    Mine,               \* the LSAs this node originates, one per version
    Links,              \* Links[i][v]: the signed PEER attributes of i's
                        \* LSA of version v, a function on the peers named
    LSA_MAX_BYTES, ADJ_RIB_IN_MAX_BYTES, NODE_ID_LEN

NoId == 0
Sessions == Peers \cup Monitors

(* An LSA.  `genuine' says whether its PUBKEY attribute hashes to its id   *)
(* and its SIGNATURE verifies.  What is signed is a function of id and     *)
(* version (Links): an originator bumps the version with every change.     *)
LSA == [id : Ids, ver : Versions, path : Paths, genuine : BOOLEAN, bytes : Sizes]

ASSUME IdAssumption ==
    /\ Ids \subseteq Nat \ {NoId} /\ IsFiniteSet(Ids)
    /\ Me \in Ids \cup {NoId}
    /\ Peers \subseteq Ids \ {Me}
    /\ Monitors \cap Ids = {}
    /\ NULL \notin LSA /\ NULL \notin Ids

ASSUME LsaAssumption ==
    /\ Versions \subseteq Nat
    /\ Sizes \subseteq Nat
    /\ Paths \subseteq Seq(Ids)
    /\ Wire \subseteq LSA
    /\ Mine \subseteq {l \in LSA : l.id = Me /\ l.path = <<>>}
    /\ Me # NoId => Mine # {}

ASSUME LinkAssumption ==
    \A i \in Ids, v \in Versions :
        \A j \in DOMAIN Links[i][v] : Links[i][v][j] \in PeerInfo

ASSUME LimitAssumption ==
    /\ LSA_MAX_BYTES \in Nat
    /\ ADJ_RIB_IN_MAX_BYTES \in Nat
    /\ NODE_ID_LEN \in Nat

VARIABLES
    up,         \* sessions whose reader and writer are registered
    adj,        \* adj[p][i]: the LSA for id i in the adj_rib_in of peer p
    size,       \* adj_rib_in.size
    me,         \* dvpn.c's own LSA
    lsas,       \* loc_rib_id.lsas
    hvs,        \* loc_rib_id.highest_version_seen
    best,       \* loc_rib_id.best
    bestcost,   \* loc_rib_id.bestcost
    detached,   \* ids whose best is an object no longer in lsas
    pending,    \* the recompute task is registered
    todo,       \* ids the running recompute_rib has yet to visit
    sent,       \* sent[s][i]: what the bytes written to s say about i
    rt          \* rt[i]: next hop of the route rt_builder has installed

vars == <<up, adj, size, me, lsas, hvs, best, bestcost, detached, pending,
          todo, sent, rt>>

---------------------------------------------------------------------------
(* What the listeners make of an LSA.                                      *)

Contains(path, i) == \E k \in 1..Len(path) : path[k] = i

(* Mutant: map() does not ask whether the sender is first on the path. *)
MapInAnySender(p, l) ==
    IF /\ l # NULL
       /\ l.bytes + NODE_ID_LEN <= LSA_MAX_BYTES
       /\ Len(l.path) >= 1
       /\ ~ Contains(l.path, Me)
       /\ l.genuine
    THEN l ELSE NULL

(* adj_rib_in.c map(): NULL unless the LSA may be used. *)
MapIn(p, l) ==
    IF /\ l # NULL
       /\ l.bytes + NODE_ID_LEN <= LSA_MAX_BYTES
       /\ Len(l.path) >= 1
       /\ l.path[1] = p
       /\ ~ Contains(l.path, Me)
       /\ l.genuine
    THEN l ELSE NULL

(* dgp_writer.c map(): an LSA is not told to a node on its path. *)
MapOut(s, l) ==
    IF l # NULL /\ ~ (s \in Peers /\ Contains(l.path, s)) THEN l ELSE NULL

(* The node over whose interface dvpn.c's rt_add() leads a route: the      *)
(* first one behind myid or, when that is the last and getnh() returns     *)
(* NULL, the destination, whatever the path says.                          *)
NextHop(l) ==
    LET hops == IF l.path[1] = Me THEN Tail(l.path) ELSE l.path
    IN  IF Len(hops) = 1 THEN l.id ELSE hops[1]

(* rt_builder.c map() and getnh(). *)
RtMap(l, cost) ==
    IF /\ l # NULL
       /\ cost # RIB_COST_UNREACHABLE
       /\ Len(l.path) > 0
       /\ l.path # <<Me>>
    THEN NextHop(l)
    ELSE NULL

---------------------------------------------------------------------------
(* The cost of an LSA, and the choice between the LSAs of one id.          *)

(* find_recent_lsa(): the version of the newest LSA held for i, if it is   *)
(* not older than the highest version seen.                                *)
Recent(L, h, i) ==
    {l.ver : l \in {x \in L[i] : x.ver >= h[i] /\ \A y \in L[i] : y.ver <= x.ver}}

(* The nodes lsa_path_cost() walks: from myid, or from the first node of   *)
(* the path when there is no myid.                                         *)
Walk(path) == IF Me = NoId THEN path ELSE <<Me>> \o path

(* The cost of a walk fits below the two special values: a path has at     *)
(* most LSA_MAX_BYTES / NODE_ID_LEN nodes and a metric 16 bits.            *)
ASSUME CostAssumption ==
    \A p \in Paths : \A f \in [1..(Len(Walk(p)) - 1) -> Metrics] :
        Sum(f) \in 0..(RIB_COST_UNREACHABLE - 1)

(* lsa_get_peer_info() of peer j in the LSA of i of version v. *)
GetPeerInfo(i, v, j) == IF j \in DOMAIN Links[i][v] THEN Links[i][v][j] ELSE NULL

(* v[k] is the version of the recent LSA of the k-th node. *)
HopsOf(w, v) ==
    [k \in 1..(Len(w) - 1) |-> [fwd |-> GetPeerInfo(w[k], v[k], w[k+1]),
                               rev |-> GetPeerInfo(w[k+1], v[k+1], w[k])]]

PathCost(L, h, l) ==
    LET w == Walk(l.path) IN
    IF l.ver < h[l.id] THEN RIB_COST_INELIGIBLE
    ELSE IF \E k \in 1..Len(w) : Recent(L, h, w[k]) = {} THEN RIB_COST_UNREACHABLE
    ELSE WalkCost(HopsOf(w, [k \in 1..Len(w) |-> CHOOSE x \in Recent(L, h, w[k]) : TRUE]))

(* Mutant: the loop of recompute_rid() lets ineligible LSAs win. *)
CandidatesOfAnyCost(L, h, i) == {l \in L[i] : PathCost(L, h, l) <= RIB_COST_INELIGIBLE}

Candidates(L, h, i) == {l \in L[i] : PathCost(L, h, l) < RIB_COST_INELIGIBLE}

(* The loop of recompute_rid() keeps the cheaper LSA, then the one with    *)
(* the shorter path, then the one it met first, in order of version and    *)
(* address.                                                                *)
Preferred(L, h, a, b) ==
    \/ PathCost(L, h, a) < PathCost(L, h, b)
    \/ /\ PathCost(L, h, a) = PathCost(L, h, b)
       /\ \/ Len(a.path) < Len(b.path)
          \/ Len(a.path) = Len(b.path) /\ a.ver <= b.ver

(* The LSAs that may win; which of several that tie does is decided by     *)
(* their addresses.                                                        *)
Winners(L, h, i) ==
    {a \in Candidates(L, h, i) : \A b \in Candidates(L, h, i) : Preferred(L, h, a, b)}

(* Mutant: -1 is the cost of nothing. *)
OutcomesSigned(L, h, i) ==
    IF Candidates(L, h, i) = {}
    THEN {[lsa |-> NULL, cost |-> -1]}
    ELSE {[lsa |-> l, cost |-> PathCost(L, h, l)] : l \in Winners(L, h, i)}

Outcomes(L, h, i) ==
    IF Candidates(L, h, i) = {}
    THEN {[lsa |-> NULL, cost |-> RIB_COST_INELIGIBLE]}
    ELSE {[lsa |-> l, cost |-> PathCost(L, h, l)] : l \in Winners(L, h, i)}

---------------------------------------------------------------------------
(* adj_rib_in_del_lsa() for every entry of the sessions S, each of which   *)
(* ends in loc_rib_del_lsa() when the entry was mapped.  adj_rib_in_init() *)
(* makes size 0 before it is read again.                                   *)
Held(S, i) == {MapIn(p, adj[p][i]) : p \in S \cap Peers} \ {NULL}

(* Mutant: the loc_rib is not told. *)
TruncateSilently(S) ==
    /\ adj' = [p \in Peers |-> IF p \in S THEN [i \in Ids |-> NULL] ELSE adj[p]]
    /\ size' = [p \in Peers |-> IF p \in S THEN 0 ELSE size[p]]
    /\ lsas' = lsas

Truncate(S) ==
    /\ adj' = [p \in Peers |-> IF p \in S THEN [i \in Ids |-> NULL] ELSE adj[p]]
    /\ size' = [p \in Peers |-> IF p \in S THEN 0 ELSE size[p]]
    /\ lsas' = [i \in Ids |-> lsas[i] \ Held(S, i)]

(* Mutant: loc_rib_del_lsa() does not register the recompute task. *)
FeedDelUnnoticed(i, old, new) ==
    /\ lsas' = [lsas EXCEPT ![i] = (@ \ {old}) \cup ({new} \ {NULL})]
    /\ hvs' = [hvs EXCEPT ![i] =
                  IF old = NULL /\ new # NULL /\ new.ver > @ THEN new.ver ELSE @]
    /\ detached' = IF old # NULL /\ old = best[i]
                   THEN detached \cup {i} ELSE detached
    /\ pending' = (pending \/ new # NULL)

(* loc_rib_add_lsa(), loc_rib_mod_lsa() and loc_rib_del_lsa(), as notify() *)
(* calls them for a change from old to new of id i.                        *)
Feed(i, old, new) ==
    /\ lsas' = [lsas EXCEPT ![i] = (@ \ {old}) \cup ({new} \ {NULL})]
    /\ hvs' = [hvs EXCEPT ![i] =
                  IF old = NULL /\ new # NULL /\ new.ver > @ THEN new.ver ELSE @]
    /\ detached' = IF old # NULL /\ old = best[i]
                   THEN detached \cup {i} ELSE detached
    /\ pending' = (pending \/ old # NULL \/ new # NULL)

Bytes(l) == IF l = NULL THEN 0 ELSE l.bytes

(* Mutant: the bytes of the LSA replaced stay in the account. *)
ReplaceAddsOnly(p, i, new) ==
    LET old == MapIn(p, adj[p][i])
        use == MapIn(p, new)
    IN  /\ adj' = [adj EXCEPT ![p][i] = new]
        /\ size' = [size EXCEPT ![p] = @ + Bytes(use)]
        /\ Feed(i, old, use)

(* adj_rib_in.c notify(), and the store of the new LSA that follows it. *)
Replace(p, i, new) ==
    LET old == MapIn(p, adj[p][i])
        use == MapIn(p, new)
    IN  /\ adj' = [adj EXCEPT ![p][i] = new]
        /\ size' = [size EXCEPT ![p] = @ - Bytes(old) + Bytes(use)]
        /\ Feed(i, old, use)

Idle == todo = {}

(* lsa_diff() may find no difference: it compares data, and what is signed *)
(* only below the top level, on which alone a signature may depend.        *)
Alike(old, l) == old # NULL /\ [old EXCEPT !.genuine = l.genuine] = l

(* Mutant: the limit is checked before the new LSA is counted. *)
ReceiveOverLimit(p, l) ==
    /\ Idle /\ p \in up
    /\ LET old == adj[p][l.id]
           over == size[p] > ADJ_RIB_IN_MAX_BYTES
       IN  \/ over /\ Replace(p, l.id, NULL)
           \/ ~ over /\ old # l /\ Replace(p, l.id, l)
           \/ ~ over /\ Alike(old, l) /\ UNCHANGED <<adj, size, lsas, hvs, detached, pending>>
    /\ UNCHANGED <<up, me, best, bestcost, todo, sent, rt>>

(* adj_rib_in_add_lsa() of an LSA with attributes.  The old LSA still      *)
(* counts when the limit is checked, and goes with the new one when that   *)
(* is dropped.                                                             *)
Receive(p, l) ==
    /\ Idle /\ p \in up
    /\ LET old == adj[p][l.id]
           over == size[p] + l.bytes > ADJ_RIB_IN_MAX_BYTES
       IN  \/ over /\ Replace(p, l.id, NULL)
           \/ ~ over /\ old # l /\ Replace(p, l.id, l)
           \/ ~ over /\ Alike(old, l) /\ UNCHANGED <<adj, size, lsas, hvs, detached, pending>>
    /\ UNCHANGED <<up, me, best, bestcost, todo, sent, rt>>

(* adj_rib_in_add_lsa() of an LSA without attributes. *)
ReceiveWithdrawal(p, i) ==
    /\ Idle /\ p \in up
    /\ adj[p][i] # NULL
    /\ Replace(p, i, NULL)
    /\ UNCHANGED <<up, me, best, bestcost, todo, sent, rt>>

(* dgp_reader_register(), dgp_writer_register() and the dump.  A dump that *)
(* fails ends in io_error() and leaves the RIBs as they were.              *)
SessionUp(s) ==
    /\ Idle /\ s \notin up
    /\ up' = up \cup {s}
    /\ sent' = [sent EXCEPT ![s] = [i \in Ids |-> MapOut(s, best[i])]]
    /\ UNCHANGED <<adj, size, me, lsas, hvs, best, bestcost, detached, pending,
                   todo, rt>>

(* io_error(), stop or kill of a session: the writer stops listening, the  *)
(* reader truncates its adj_rib_in.                                        *)
SessionDown(s) ==
    /\ Idle /\ s \in up
    /\ up' = up \ {s}
    /\ Truncate({s})
    /\ detached' = detached \cup {i \in Ids : best[i] \in Held({s}, i)}
    /\ pending' = (pending \/ \E i \in Ids : Held({s}, i) # {})
    /\ sent' = [sent EXCEPT ![s] = [i \in Ids |-> NULL]]
    /\ UNCHANGED <<me, hvs, best, bestcost, todo, rt>>

(* mylsa_add_peer() and mylsa_del_peer(): a new own LSA, of a higher       *)
(* version, replaces the old one in the loc_rib.                           *)
ModifyMyLsa(new) ==
    /\ Idle
    /\ me # NULL
    /\ new.ver > me.ver
    /\ me' = new
    /\ Feed(Me, me, new)
    /\ UNCHANGED <<up, adj, size, best, bestcost, todo, sent, rt>>

(* The task runs: ivykis unregisters it before it calls recompute_rib(). *)
BeginRecompute ==
    /\ Idle /\ pending
    /\ pending' = FALSE
    /\ todo' = Ids
    /\ UNCHANGED <<up, adj, size, me, lsas, hvs, best, bestcost, detached, sent, rt>>

(* recompute_rid()'s early return. *)
Unchanged(i, new) ==
    new.lsa = best[i] /\ new.cost = bestcost[i] /\ i \notin detached

(* Mutant: a writer says nothing when there is no LSA to send any more. *)
ToldNews(i, new) ==
    {s \in up : ~ Unchanged(i, new) /\ MapOut(s, new.lsa) # NULL}

(* The sessions whose writer has something to write when recompute_rid()   *)
(* calls its listeners: dgp_writer_output_lsa().                           *)
Told(i, new) ==
    {s \in up : /\ ~ Unchanged(i, new)
               /\ (MapOut(s, best[i]) # NULL \/ MapOut(s, new.lsa) # NULL)}

(* Mutant: a route is added and modified, but not deleted. *)
RouteNeverDeleted(i, new) ==
    IF RtMap(new.lsa, new.cost) = NULL THEN rt[i] ELSE RtMap(new.lsa, new.cost)

(* rt_builder.c lsa_add(), lsa_mod() and lsa_del(). *)
Route(i, new) ==
    IF RtMap(best[i], bestcost[i]) = RtMap(new.lsa, new.cost)
    THEN rt[i] ELSE RtMap(new.lsa, new.cost)

(* recompute_rid() for the next id in order.  `fail' are the sessions      *)
(* whose write fails; their io_error() truncates their adj_rib_in before   *)
(* the next id is visited.                                                 *)
RecomputeRid(i, new, fail) ==
    /\ \A j \in todo : i <= j
    /\ todo' = todo \ {i}
    /\ best' = [best EXCEPT ![i] = new.lsa]
    /\ bestcost' = [bestcost EXCEPT ![i] = new.cost]
    /\ rt' = [rt EXCEPT ![i] = Route(i, new)]
    /\ up' = up \ fail
    /\ sent' = [s \in Sessions |->
                   IF s \in fail THEN [j \in Ids |-> NULL]
                   ELSE IF s \in Told(i, new)
                   THEN [sent[s] EXCEPT ![i] = MapOut(s, new.lsa)]
                   ELSE sent[s]]
    /\ Truncate(fail)
    /\ detached' = (detached \ {i}) \cup {j \in Ids : best'[j] \in Held(fail, j)}
    /\ pending' = (pending \/ \E j \in Ids : Held(fail, j) # {})
    /\ UNCHANGED <<me, hvs>>

VisitRid ==
    \E i \in todo : \E new \in Outcomes(lsas, hvs, i) :
        \E fail \in SUBSET Told(i, new) : RecomputeRid(i, new, fail)

---------------------------------------------------------------------------
(* main(): the loc_rib with the node's own LSA, no session.  A monitor     *)
(* starts with an empty loc_rib.                                           *)
Init ==
    /\ me \in IF Me = NoId THEN {NULL}
              ELSE {l \in Mine : \A m \in Mine : l.ver <= m.ver}
    /\ up = {}
    /\ adj = [p \in Peers |-> [i \in Ids |-> NULL]]
    /\ size = [p \in Peers |-> 0]
    /\ lsas = [i \in Ids |-> IF i = Me THEN {me} ELSE {}]
    /\ hvs = [i \in Ids |-> IF i = Me THEN me.ver ELSE 0]
    /\ best = [i \in Ids |-> NULL]
    /\ bestcost = [i \in Ids |-> RIB_COST_INELIGIBLE]
    /\ detached = {}
    /\ pending = (me # NULL)
    /\ todo = {}
    /\ sent = [s \in Sessions |-> [i \in Ids |-> NULL]]
    /\ rt = [i \in Ids |-> NULL]

Next ==
    \/ \E p \in Peers, l \in Wire : Receive(p, l)
    \/ \E p \in Peers, i \in Ids : ReceiveWithdrawal(p, i)
    \/ \E s \in Sessions : SessionUp(s) \/ SessionDown(s)
    \/ \E l \in Mine : ModifyMyLsa(l)
    \/ BeginRecompute
    \/ VisitRid

(* ivykis runs every registered task, and recompute_rib() visits every id. *)
Fairness == WF_vars(BeginRecompute) /\ WF_vars(VisitRid)

Spec == Init /\ [][Next]_vars /\ Fairness

---------------------------------------------------------------------------
Lsa0 == LSA \cup {NULL}

(* Types; every cost lsa_path_cost() computes fits below the special       *)
(* values of rib_listener.h, and every next hop is a node.                 *)
TypeOK ==
    /\ up \subseteq Sessions
    /\ adj \in [Peers -> [Ids -> Lsa0]]
    /\ size \in [Peers -> Int]
    /\ me \in IF Me = NoId THEN {NULL} ELSE Mine
    /\ lsas \in [Ids -> SUBSET LSA]
    /\ hvs \in [Ids -> Nat]
    /\ best \in [Ids -> Lsa0]
    /\ bestcost \in [Ids -> 0..RIB_COST_INELIGIBLE]
    /\ detached \subseteq Ids
    /\ pending \in BOOLEAN
    /\ todo \subseteq Ids
    /\ sent \in [Sessions -> [Ids -> Lsa0]]
    /\ rt \in [Ids -> Ids \cup {NULL}]

(* The loc_rib holds exactly the usable LSAs of the adj_rib_ins and the    *)
(* node's own: loc_rib_mod_lsa() and loc_rib_del_lsa() always find what    *)
(* they are asked to replace or remove, and loc_rib_add_lsa() never gets   *)
(* what is there (the abort()s of loc_rib.c).                              *)
Own(i) == IF i = Me THEN {me} ELSE {}
LocRibIsUnion == \A i \in Ids : lsas[i] = Held(Peers, i) \cup Own(i)

(* A session that is down contributes nothing: its LSAs were all removed   *)
(* by adj_rib_in_truncate(), also when it died inside recompute_rib().     *)
DownIsEmpty == \A p \in Peers \ up : adj[p] = [i \in Ids |-> NULL] /\ size[p] = 0

(* Incremental accounting agrees with the LSAs held. *)
SizeExact ==
    \A p \in Peers : size[p] = Sum([i \in Ids |-> Bytes(MapIn(p, adj[p][i]))])

(* What an adj_rib_in counts of its peer's LSAs keeps to the limit, though *)
(* adj_rib_in_add_lsa() checks the limit before it knows whether the old   *)
(* LSA goes.                                                               *)
SizeBounded == \A p \in Peers : size[p] <= ADJ_RIB_IN_MAX_BYTES

(* An id has a best LSA exactly when its cost is not INELIGIBLE: the       *)
(* abort() of rt_builder.c map() is never reached.                         *)
BestHasCost ==
    \A i \in Ids : IF best[i] = NULL THEN bestcost[i] = RIB_COST_INELIGIBLE
                   ELSE bestcost[i] < RIB_COST_INELIGIBLE

(* Unless a recompute is registered, what recompute_rid() would choose for *)
(* an id it need not visit any more is what it has chosen.                 *)
Current(i) == [lsa |-> best[i], cost |-> bestcost[i]] \in Outcomes(lsas, hvs, i)
ChoiceIsCurrent == ~ pending => \A i \in Ids \ todo : Current(i)

(* Whatever comes in, and whichever writers fail in the middle of a pass,  *)
(* no choice stays out of date for good.                                   *)
ChoiceCatchesUp == \A i \in Ids : []<>Current(i)

(* What was written to a session amounts to the best LSAs it may see. *)
PeersAreTold == \A s \in up, i \in Ids : sent[s][i] = MapOut(s, best[i])

(* The installed routes are those of the best LSAs. *)
RoutesFollowBest == \A i \in Ids : rt[i] = RtMap(best[i], bestcost[i])

(* Once the recompute is done, no route leads over a session that is down, *)
(* also when the session died while the routes were being recomputed.      *)
(* This is said of LSAs whose path ends at the node they are of, as it     *)
(* does when every node on it has put itself in front: a path of one node  *)
(* that is another one makes rt_add() take the interface of the node the   *)
(* LSA is of, whose session may be down.                                   *)
EndsAtItsNode(l) == l # NULL => l.path[Len(l.path)] = l.id
RoutesUseLiveSessions ==
    ~ pending =>
        \A i \in Ids \ todo : rt[i] # NULL /\ EndsAtItsNode(best[i]) => rt[i] \in up
=============================================================================
