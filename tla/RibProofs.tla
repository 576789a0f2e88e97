----------------------------- MODULE RibProofs -----------------------------
(***************************************************************************)
(* Proofs about module Rib, for every set of nodes, sessions and LSAs.     *)
(***************************************************************************)
EXTENDS Rib, PathCostLoop, SumProofs, TLAPS

---------------------------------------------------------------------------
(* The operators.                                                          *)

(* An LSA adj_rib_in.c's map() lets through came from the peer that is     *)
(* first on its path.                                                      *)
LEMMA MapInProps ==
    ASSUME NEW p \in Peers, NEW l \in Lsa0
    PROVE  /\ MapIn(p, l) \in Lsa0
           /\ MapIn(p, l) # NULL => /\ MapIn(p, l) = l
                                    /\ l \in LSA
                                    /\ Len(l.path) >= 1
                                    /\ l.path[1] = p
                                    /\ ~ Contains(l.path, Me)
BY DEF MapIn, Lsa0

(* Nothing comes from an empty slot of an adj_rib_in. *)
LEMMA MapInNull == \A p \in Peers : MapIn(p, NULL) = NULL
BY DEF MapIn

(* notify() counts a number of bytes, 0 for no LSA. *)
LEMMA BytesType == \A l \in Lsa0 : Bytes(l) \in Nat
<1> SUFFICES ASSUME NEW l \in Lsa0 PROVE Bytes(l) \in Nat
  OBVIOUS
<1>1. CASE l = NULL
  BY <1>1 DEF Bytes
<1>2. CASE l # NULL
  BY <1>2, LsaAssumption DEF Bytes, Lsa0, LSA
<1> QED BY <1>1, <1>2

(* dgp_writer.c's map() yields an LSA or NULL. *)
LEMMA MapOutType ==
    ASSUME NEW s, NEW l \in Lsa0
    PROVE  MapOut(s, l) \in Lsa0
BY DEF MapOut, Lsa0

(* A route leads over the interface of a node, or there is none. *)
LEMMA RtMapType ==
    ASSUME NEW l \in Lsa0, NEW c
    PROVE  RtMap(l, c) \in Ids \cup {NULL}
<1>1. CASE RtMap(l, c) = NULL
  BY <1>1
<1>2. CASE RtMap(l, c) # NULL
  <2>1. /\ l \in LSA /\ l.path \in Seq(Ids)
        /\ Len(l.path) > 0 /\ l.path # <<Me>>
        /\ l.id \in Ids
        /\ RtMap(l, c) = NextHop(l)
    BY <1>2, LsaAssumption DEF RtMap, Lsa0, LSA
  <2> DEFINE rest == IF l.path[1] = Me THEN Tail(l.path) ELSE l.path
  <2>2. l.path[1] = Me => Len(l.path) >= 2
    BY <2>1
  <2>3. rest \in Seq(Ids) /\ Len(rest) >= 1
    BY <2>1, <2>2
  <2>4. NextHop(l) = IF Len(rest) = 1 THEN l.id ELSE rest[1]
    BY DEF NextHop
  <2> HIDE DEF rest
  <2> QED
    BY <2>1, <2>3, <2>4
<1> QED BY <1>1, <1>2

(* What lsa_path_cost() returns is a cost or one of the two special        *)
(* values.                                                                 *)
LEMMA PathCostType ==
    ASSUME NEW L \in [Ids -> SUBSET LSA], NEW h \in [Ids -> Nat], NEW l \in LSA
    PROVE  PathCost(L, h, l) \in 0..RIB_COST_INELIGIBLE
<1> DEFINE w == Walk(l.path)
           v == [k \in 1..Len(w) |-> CHOOSE x \in Recent(L, h, w[k]) : TRUE]
           f == [k \in DOMAIN HopsOf(w, v) |-> HopsOf(w, v)[k].fwd.metric]
<1>1. l.path \in Paths /\ l.path \in Seq(Ids)
  BY LsaAssumption DEF LSA
<1>2. w \in Seq(Ids)
  BY <1>1, IdAssumption DEF Walk
<1>3. CASE /\ ~ (l.ver < h[l.id])
           /\ ~ \E k \in 1..Len(w) : Recent(L, h, w[k]) = {}
           /\ \A k \in DOMAIN HopsOf(w, v) : Linked(HopsOf(w, v)[k])
           /\ ValleyFree(HopsOf(w, v))
  <2>1. ASSUME NEW k \in 1..Len(w) PROVE v[k] \in Versions
    <3>1. Recent(L, h, w[k]) # {}
      BY <1>3
    <3>2. Recent(L, h, w[k]) \subseteq Versions
      BY <1>2 DEF Recent, LSA
    <3> QED BY <3>1, <3>2
  <2>2. DOMAIN HopsOf(w, v) = 1..(Len(w) - 1)
    BY DEF HopsOf
  <2>3. ASSUME NEW k \in 1..(Len(w) - 1) PROVE f[k] \in Metrics
    <3> HIDE DEF v, w
    <3>1. w[k] \in Ids /\ w[k+1] \in Ids /\ v[k] \in Versions
      BY <1>2, <2>1
    <3>2. HopsOf(w, v)[k].fwd = GetPeerInfo(w[k], v[k], w[k+1])
      BY DEF HopsOf
    <3>3. HopsOf(w, v)[k].fwd # NULL
      BY <1>3, <2>2 DEF Linked
    <3>4. HopsOf(w, v)[k].fwd \in PeerInfo
      BY <3>1, <3>2, <3>3, LinkAssumption DEF GetPeerInfo
    <3> QED BY <3>4, <2>2 DEF PeerInfo
  <2>4. f \in [1..(Len(w) - 1) -> Metrics]
    <3> HIDE DEF v, w
    <3> QED BY <2>2, <2>3
  <2>5. Sum(f) \in 0..(RIB_COST_UNREACHABLE - 1)
    BY <1>1, <2>4, CostAssumption
  <2>6. PathCost(L, h, l) = Sum(f)
    BY <1>3 DEF PathCost, WalkCost
  <2>7. \A c \in 0..(RIB_COST_UNREACHABLE - 1) : c \in 0..RIB_COST_INELIGIBLE
    BY CostValueAssumption DEF RIB_COST_INELIGIBLE
  <2> HIDE DEF f
  <2> QED BY ONLY <2>5, <2>6, <2>7
<1>4. CASE ~ (/\ ~ (l.ver < h[l.id])
              /\ ~ \E k \in 1..Len(w) : Recent(L, h, w[k]) = {}
              /\ \A k \in DOMAIN HopsOf(w, v) : Linked(HopsOf(w, v)[k])
              /\ ValleyFree(HopsOf(w, v)))
  <2>1. PathCost(L, h, l) \in {RIB_COST_INELIGIBLE, RIB_COST_UNREACHABLE}
    BY <1>4 DEF PathCost, WalkCost
  <2> QED BY <2>1, CostValueAssumption DEF RIB_COST_INELIGIBLE
<1> QED BY <1>3, <1>4

(* What the loop of recompute_rid() may end with. *)
LEMMA OutcomeProps ==
    ASSUME NEW L \in [Ids -> SUBSET LSA], NEW h \in [Ids -> Nat], NEW i \in Ids,
           NEW o \in Outcomes(L, h, i)
    PROVE  /\ o = [lsa |-> o.lsa, cost |-> o.cost]
           /\ o.cost \in 0..RIB_COST_INELIGIBLE
           /\ \/ o.lsa = NULL /\ o.cost = RIB_COST_INELIGIBLE
              \/ /\ o.lsa \in L[i] /\ o.lsa \in LSA /\ o.lsa # NULL
                 /\ o.cost < RIB_COST_INELIGIBLE
<1>1. CASE Candidates(L, h, i) = {}
  BY <1>1, CostValueAssumption DEF Outcomes, RIB_COST_INELIGIBLE
<1>2. CASE Candidates(L, h, i) # {}
  <2>1. PICK l \in Winners(L, h, i) : o = [lsa |-> l, cost |-> PathCost(L, h, l)]
    BY <1>2 DEF Outcomes
  <2>2. l \in L[i] /\ PathCost(L, h, l) < RIB_COST_INELIGIBLE
    BY DEF Winners, Candidates
  <2>3. l \in LSA /\ l # NULL
    BY <2>2, IdAssumption
  <2> QED BY <2>1, <2>2, <2>3, PathCostType
<1> QED BY <1>1, <1>2

---------------------------------------------------------------------------
(* The inductive invariant.  None of its parts is inductive alone: that    *)
(* the loc_rib is the union of the adj_rib_ins needs that no LSA comes     *)
(* from two peers, that the choices are current needs that whatever moves  *)
(* the loc_rib registers the task, and the mirrors need the choices'       *)
(* costs.                                                                  *)
IInv ==
    /\ TypeOK
    /\ LocRibIsUnion
    /\ DownIsEmpty
    /\ SizeBounded
    /\ BestHasCost
    /\ ChoiceIsCurrent
    /\ PeersAreTold
    /\ RoutesFollowBest

(* What main() sets up. *)
LEMMA InitIInv == Init => IInv
<1> SUFFICES ASSUME Init PROVE IInv
  OBVIOUS
<1>1. me \in IF Me = NoId THEN {NULL} ELSE Mine
  BY DEF Init
<1>2. ASSUME NEW i \in Ids, i = Me PROVE me \in LSA /\ me.ver \in Nat
  BY <1>1, <1>2, IdAssumption, LsaAssumption DEF LSA
<1>3. TypeOK
  <2>1. bestcost \in [Ids -> 0..RIB_COST_INELIGIBLE]
    BY CostValueAssumption DEF Init, RIB_COST_INELIGIBLE
  <2>2. lsas \in [Ids -> SUBSET LSA] /\ hvs \in [Ids -> Nat]
    BY <1>2 DEF Init
  <2> QED BY <1>1, <2>1, <2>2 DEF Init, TypeOK, Lsa0
<1>4. LocRibIsUnion
  BY MapInNull DEF Init, LocRibIsUnion, Held, Own
<1>5. DownIsEmpty /\ SizeBounded
  BY LimitAssumption DEF Init, DownIsEmpty, SizeBounded
<1>6. BestHasCost /\ PeersAreTold /\ RoutesFollowBest
  BY DEF Init, BestHasCost, PeersAreTold, RoutesFollowBest, RtMap
<1>7. ChoiceIsCurrent
  <2> SUFFICES ASSUME ~ pending, NEW i \in Ids PROVE Current(i)
    BY DEF ChoiceIsCurrent
  <2>1. i # Me
    BY <1>2, IdAssumption DEF Init
  <2>2. lsas[i] = {}
    BY <2>1 DEF Init
  <2> QED BY <2>2 DEF Init, Current, Outcomes, Candidates
<1> QED BY <1>3, <1>4, <1>5, <1>6, <1>7 DEF IInv

(* An LSA held from one peer is neither held from another nor the node's   *)
(* own.                                                                    *)
LEMMA HeldOnce ==
    ASSUME TypeOK, NEW p \in Peers, NEW q \in Peers, NEW i \in Ids,
           MapIn(p, adj[p][i]) # NULL
    PROVE  /\ MapIn(p, adj[p][i]) \notin Own(i)
           /\ MapIn(p, adj[p][i]) = MapIn(q, adj[q][i]) => p = q
<1>1. adj[p][i] \in Lsa0 /\ adj[q][i] \in Lsa0
  BY DEF TypeOK
<1>2. MapIn(p, adj[p][i]) \notin Own(i)
  <2> SUFFICES ASSUME i = Me, MapIn(p, adj[p][i]) = me PROVE FALSE
    BY DEF Own
  <2>1. me \in Mine
    BY IdAssumption DEF TypeOK
  <2> QED BY <1>1, <2>1, MapInProps, LsaAssumption
<1> QED BY <1>1, <1>2, MapInProps

(* Entries of the sessions in S, and only those, leave the loc_rib. *)
LEMMA TruncateKeepsUnion ==
    ASSUME TypeOK, LocRibIsUnion, NEW S, Truncate(S), me' = me
    PROVE  /\ LocRibIsUnion'
           /\ lsas' \in [Ids -> SUBSET LSA]
           /\ adj' \in [Peers -> [Ids -> Lsa0]]
           /\ size' \in [Peers -> Int]
           /\ (\A i \in Ids : Held(S, i) = {}) => lsas' = lsas
<1>1. /\ lsas' \in [Ids -> SUBSET LSA]
      /\ adj' \in [Peers -> [Ids -> Lsa0]]
      /\ size' \in [Peers -> Int]
  BY DEF Truncate, TypeOK, Lsa0
<1>2. (\A i \in Ids : Held(S, i) = {}) => lsas' = lsas
  BY DEF Truncate, TypeOK
<1>3. ASSUME NEW i \in Ids PROVE lsas'[i] = Held(Peers, i)' \cup Own(i)'
  <2>1. Own(i)' = Own(i)
    BY DEF Own
  <2>2. lsas'[i] = (Held(Peers, i) \cup Own(i)) \ Held(S, i)
    BY DEF Truncate, LocRibIsUnion
  <2>3. Held(S, i) \cap Own(i) = {}
    BY HeldOnce DEF Held
  <2>4. Held(Peers, i)' = Held(Peers, i) \ Held(S, i)
    <3>1. ASSUME NEW p \in Peers, p \in S PROVE MapIn(p, adj[p][i])' = NULL
      <4>1. adj'[p][i] = NULL
        BY <3>1 DEF Truncate
      <4>2. MapIn(p, adj[p][i])' = MapIn(p, adj'[p][i])
        BY DEF MapIn
      <4> QED BY <4>1, <4>2, MapInNull
    <3>2. ASSUME NEW p \in Peers, p \notin S PROVE MapIn(p, adj[p][i])' = MapIn(p, adj[p][i])
      <4>1. adj'[p][i] = adj[p][i]
        BY <3>2 DEF Truncate
      <4> QED BY <4>1 DEF MapIn
    <3> QED BY <3>1, <3>2, HeldOnce DEF Held
  <2> QED BY <2>1, <2>2, <2>3, <2>4
<1> QED BY <1>1, <1>2, <1>3 DEF LocRibIsUnion

(* A change of one slot of one adj_rib_in, fed into the loc_rib. *)
LEMMA ReplaceKeepsUnion ==
    ASSUME TypeOK, LocRibIsUnion, NEW p \in Peers, NEW i \in Ids, NEW new \in Lsa0,
           Replace(p, i, new), me' = me
    PROVE  /\ LocRibIsUnion'
           /\ lsas' \in [Ids -> SUBSET LSA]
           /\ hvs' \in [Ids -> Nat]
           /\ adj' \in [Peers -> [Ids -> Lsa0]]
           /\ size' \in [Peers -> Int]
           /\ detached' \subseteq Ids
           /\ pending' \in BOOLEAN
           /\ ~ pending' => ~ pending /\ lsas' = lsas /\ hvs' = hvs
<1> DEFINE old == MapIn(p, adj[p][i])
           use == MapIn(p, new)
<1>1. old \in Lsa0 /\ use \in Lsa0 /\ (use # NULL => use = new)
  BY MapInProps DEF TypeOK
<1>2. Feed(i, old, use) /\ adj' = [adj EXCEPT ![p][i] = new]
      /\ size' = [size EXCEPT ![p] = @ - Bytes(old) + Bytes(use)]
  BY DEF Replace
<1>3. Bytes(old) \in Int /\ Bytes(use) \in Int
  BY <1>1, BytesType
<1>4. /\ adj' \in [Peers -> [Ids -> Lsa0]] /\ size' \in [Peers -> Int]
  <2> HIDE DEF old, use
  <2> QED BY <1>2, <1>3 DEF TypeOK
<1>5. lsas' \in [Ids -> SUBSET LSA] /\ hvs' \in [Ids -> Nat] /\ detached' \subseteq Ids
      /\ pending' \in BOOLEAN
  <2>1. use # NULL => use \in LSA /\ use.ver \in Nat
    BY <1>1, LsaAssumption DEF Lsa0, LSA
  <2> HIDE DEF old, use
  <2>2. lsas' \in [Ids -> SUBSET LSA] /\ hvs' \in [Ids -> Nat]
    BY <1>2, <2>1 DEF Feed, TypeOK
  <2>3. detached' \subseteq Ids /\ pending' \in BOOLEAN
    BY <1>2 DEF Feed, TypeOK
  <2> QED BY <2>2, <2>3
<1>6. ~ pending' => ~ pending /\ lsas' = lsas /\ hvs' = hvs
  <2> SUFFICES ASSUME ~ pending' PROVE ~ pending /\ lsas' = lsas /\ hvs' = hvs
    OBVIOUS
  <2>1. ~ pending /\ old = NULL /\ use = NULL
    BY <1>2 DEF Feed
  <2>2. NULL \notin lsas[i]
    BY IdAssumption DEF TypeOK
  <2> HIDE DEF old, use
  <2> QED BY <1>2, <2>1, <2>2 DEF Feed, TypeOK
<1>7. ASSUME NEW j \in Ids PROVE lsas'[j] = Held(Peers, j)' \cup Own(j)'
  <2>1. Own(j)' = Own(j)
    BY DEF Own
  <2>2. ASSUME NEW q \in Peers
        PROVE  MapIn(q, adj[q][j])' = IF q = p /\ j = i THEN use ELSE MapIn(q, adj[q][j])
    <3>1. adj'[q][j] = IF q = p /\ j = i THEN new ELSE adj[q][j]
      BY <1>2 DEF TypeOK
    <3>2. MapIn(q, adj[q][j])' = MapIn(q, adj'[q][j])
      BY DEF MapIn
    <3> QED BY <3>1, <3>2
  <2>3. CASE j # i
    <3>1. Held(Peers, j)' = Held(Peers, j)
      BY <2>2, <2>3 DEF Held
    <3>2. lsas'[j] = lsas[j]
      BY <1>2, <2>3 DEF Feed, TypeOK
    <3> QED BY <2>1, <3>1, <3>2 DEF LocRibIsUnion
  <2>4. CASE j = i
    <3> DEFINE others == {MapIn(q, adj[q][i]) : q \in Peers \ {p}} \ {NULL}
    <3>1. Held(Peers, i) = others \cup ({old} \ {NULL})
      BY DEF Held
    <3>2. Held(Peers, i)' = others \cup ({use} \ {NULL})
      BY <2>2, <2>4 DEF Held
    <3>3. old # NULL => old \notin others /\ old \notin Own(i)
      BY HeldOnce
    <3>4. lsas'[i] = (lsas[i] \ {old}) \cup ({use} \ {NULL})
      <4> HIDE DEF old, use
      <4> QED BY <1>2 DEF Feed, TypeOK
    <3>5. NULL \notin Own(i)
      BY IdAssumption, LsaAssumption DEF Own, TypeOK
    <3>6. lsas[i] = Held(Peers, i) \cup Own(i)
      BY DEF LocRibIsUnion
    <3>7. NULL \notin others
      OBVIOUS
    <3> HIDE DEF old, use, others
    <3> QED BY <2>1, <2>4, <3>1, <3>2, <3>3, <3>4, <3>5, <3>6, <3>7
  <2> QED BY <2>3, <2>4
<1> QED BY <1>4, <1>5, <1>6, <1>7 DEF LocRibIsUnion

(* Whatever keeps the loc_rib, or registers the task when it does not,     *)
(* keeps the choices current, as long as it leaves the choices alone.      *)
LEMMA ChoiceStaysCurrent ==
    ASSUME ChoiceIsCurrent, UNCHANGED <<best, bestcost, todo>>,
           ~ pending' => ~ pending /\ lsas' = lsas /\ hvs' = hvs
    PROVE  ChoiceIsCurrent'
<1> SUFFICES ASSUME ~ pending', NEW i \in Ids \ todo' PROVE Current(i)'
  BY DEF ChoiceIsCurrent
<1>1. Current(i)
  BY DEF ChoiceIsCurrent
<1> QED BY <1>1 DEF Current

(* The listeners' views do not move when neither they nor the choices do. *)
LEMMA ViewsStay ==
    ASSUME UNCHANGED <<best, bestcost, sent, rt, up>>,
           BestHasCost, PeersAreTold, RoutesFollowBest
    PROVE  BestHasCost' /\ PeersAreTold' /\ RoutesFollowBest'
BY DEF BestHasCost, PeersAreTold, RoutesFollowBest

---------------------------------------------------------------------------
(* One step of each handler.                                               *)

(* adj_rib_in_add_lsa() of an LSA with attributes. *)
LEMMA ReceiveIInv ==
    ASSUME IInv, NEW p \in Peers, NEW l \in Wire, Receive(p, l)
    PROVE  IInv'
<1> USE DEF IInv
<1>1. l \in LSA /\ l.id \in Ids /\ l.bytes \in Nat /\ NULL \in Lsa0 /\ l \in Lsa0
  BY LsaAssumption DEF LSA, Lsa0
<1>2. UNCHANGED <<up, me, best, bestcost, todo, sent, rt>> /\ p \in up
  BY DEF Receive
<1>3. CASE UNCHANGED <<adj, size, lsas, hvs, detached, pending>>
  BY <1>2, <1>3 DEF TypeOK, LocRibIsUnion, Held, Own, DownIsEmpty, SizeBounded, BestHasCost,
     ChoiceIsCurrent, Current, PeersAreTold, RoutesFollowBest
<1>4. ASSUME NEW new \in {NULL, l}, Replace(p, l.id, new),
             new = NULL \/ size[p] + l.bytes <= ADJ_RIB_IN_MAX_BYTES
      PROVE  IInv'
  <2>1. new \in Lsa0
    BY <1>1
  <2>2. /\ LocRibIsUnion'
        /\ lsas' \in [Ids -> SUBSET LSA] /\ hvs' \in [Ids -> Nat]
        /\ adj' \in [Peers -> [Ids -> Lsa0]] /\ size' \in [Peers -> Int]
        /\ detached' \subseteq Ids /\ pending' \in BOOLEAN
        /\ ~ pending' => ~ pending /\ lsas' = lsas /\ hvs' = hvs
    BY <1>1, <1>2, <1>4, <2>1, ReplaceKeepsUnion
  <2>3. TypeOK'
    BY <1>2, <2>2 DEF TypeOK
  <2>4. ChoiceIsCurrent'
    BY <1>2, <2>2, ChoiceStaysCurrent
  <2>5. BestHasCost' /\ PeersAreTold' /\ RoutesFollowBest'
    BY <1>2, ViewsStay
  <2>6. DownIsEmpty'
    BY <1>2, <1>4 DEF DownIsEmpty, Replace, TypeOK
  <2>7. SizeBounded'
    <3> DEFINE old == MapIn(p, adj[p][l.id])
               use == MapIn(p, new)
    <3>1. old \in Lsa0 /\ use \in Lsa0 /\ (use # NULL => use = new)
      BY <1>1, <2>1, MapInProps DEF TypeOK
    <3>2. Bytes(old) \in Nat
      BY <3>1, BytesType
    <3>3. \/ Bytes(use) = 0
          \/ Bytes(use) = l.bytes /\ size[p] + l.bytes <= ADJ_RIB_IN_MAX_BYTES
      BY <1>4, <3>1, MapInNull DEF Bytes
    <3>4. size' = [size EXCEPT ![p] = @ - Bytes(old) + Bytes(use)]
      BY <1>4 DEF Replace
    <3> HIDE DEF old, use
    <3>5. size'[p] <= ADJ_RIB_IN_MAX_BYTES
      BY <1>1, <3>2, <3>3, <3>4, LimitAssumption DEF SizeBounded, TypeOK
    <3> QED BY <3>4, <3>5 DEF SizeBounded, TypeOK
  <2> QED BY <2>2, <2>3, <2>4, <2>5, <2>6, <2>7
<1>5. \/ Replace(p, l.id, NULL)
      \/ Replace(p, l.id, l) /\ size[p] + l.bytes <= ADJ_RIB_IN_MAX_BYTES
      \/ UNCHANGED <<adj, size, lsas, hvs, detached, pending>>
  <2>1. size[p] \in Int /\ l.bytes \in Nat
    BY <1>1, LsaAssumption DEF TypeOK, LSA
  <2> QED BY <2>1, LimitAssumption DEF Receive
<1> QED BY <1>3, <1>4, <1>5

(* adj_rib_in_add_lsa() of a withdrawal. *)
LEMMA ReceiveWithdrawalIInv ==
    ASSUME IInv, NEW p \in Peers, NEW i \in Ids, ReceiveWithdrawal(p, i)
    PROVE  IInv'
<1> USE DEF IInv
<1>1. UNCHANGED <<up, me, best, bestcost, todo, sent, rt>> /\ p \in up /\ Replace(p, i, NULL)
  BY DEF ReceiveWithdrawal
<1>2. NULL \in Lsa0
  BY DEF Lsa0
<1>3. /\ LocRibIsUnion'
      /\ lsas' \in [Ids -> SUBSET LSA] /\ hvs' \in [Ids -> Nat]
      /\ adj' \in [Peers -> [Ids -> Lsa0]] /\ size' \in [Peers -> Int]
      /\ detached' \subseteq Ids /\ pending' \in BOOLEAN
      /\ ~ pending' => ~ pending /\ lsas' = lsas /\ hvs' = hvs
  BY <1>1, <1>2, ReplaceKeepsUnion
<1>4. TypeOK'
  BY <1>1, <1>3 DEF TypeOK
<1>5. ChoiceIsCurrent'
  BY <1>1, <1>3, ChoiceStaysCurrent
<1>6. BestHasCost' /\ PeersAreTold' /\ RoutesFollowBest'
  BY <1>1, ViewsStay
<1>7. DownIsEmpty'
  BY <1>1 DEF DownIsEmpty, Replace, TypeOK
<1>8. SizeBounded'
  <2>1. MapIn(p, adj[p][i]) \in Lsa0
    BY MapInProps DEF TypeOK
  <2>2. Bytes(MapIn(p, adj[p][i])) \in Nat /\ Bytes(MapIn(p, NULL)) = 0
    BY <2>1, BytesType, MapInNull DEF Bytes
  <2>3. size' = [size EXCEPT ![p] = @ - Bytes(MapIn(p, adj[p][i])) + Bytes(MapIn(p, NULL))]
    BY <1>1 DEF Replace
  <2> QED BY <2>2, <2>3, LimitAssumption DEF SizeBounded, TypeOK
<1> QED BY <1>3, <1>4, <1>5, <1>6, <1>7, <1>8

(* A session comes up: what the dump writes is all it may see. *)
LEMMA SessionUpIInv ==
    ASSUME IInv, NEW s \in Sessions, SessionUp(s)
    PROVE  IInv'
<1> USE DEF IInv
<1>1. /\ UNCHANGED <<adj, size, me, lsas, hvs, best, bestcost, detached, pending, todo, rt>>
      /\ up' = up \cup {s}
      /\ sent' = [sent EXCEPT ![s] = [i \in Ids |-> MapOut(s, best[i])]]
  BY DEF SessionUp
<1>2. TypeOK'
  <2>1. [i \in Ids |-> MapOut(s, best[i])] \in [Ids -> Lsa0]
    BY MapOutType DEF TypeOK
  <2>2. sent' \in [Sessions -> [Ids -> Lsa0]]
    BY <1>1, <2>1 DEF TypeOK
  <2> QED BY <1>1, <2>2 DEF TypeOK
<1>3. LocRibIsUnion' /\ DownIsEmpty' /\ SizeBounded' /\ BestHasCost' /\ RoutesFollowBest'
  BY <1>1 DEF LocRibIsUnion, Held, Own, DownIsEmpty, SizeBounded, BestHasCost, RoutesFollowBest
<1>4. ChoiceIsCurrent'
  BY <1>1, ChoiceStaysCurrent
<1>5. PeersAreTold'
  <2> SUFFICES ASSUME NEW t \in up', NEW i \in Ids PROVE sent'[t][i] = MapOut(t, best'[i])
    BY DEF PeersAreTold, MapOut
  <2>1. CASE t = s
    BY <1>1, <2>1 DEF TypeOK
  <2>2. CASE t # s
    BY <1>1, <2>2 DEF TypeOK, PeersAreTold
  <2> QED BY <2>1, <2>2
<1> QED BY <1>2, <1>3, <1>4, <1>5

(* A session goes down outside of recompute_rib(). *)
LEMMA SessionDownIInv ==
    ASSUME IInv, NEW s \in Sessions, SessionDown(s)
    PROVE  IInv'
<1> USE DEF IInv
<1>1. /\ UNCHANGED <<me, hvs, best, bestcost, todo, rt>>
      /\ up' = up \ {s}
      /\ Truncate({s})
      /\ detached' = detached \cup {i \in Ids : best[i] \in Held({s}, i)}
      /\ pending' = (pending \/ \E i \in Ids : Held({s}, i) # {})
      /\ sent' = [sent EXCEPT ![s] = [i \in Ids |-> NULL]]
  BY DEF SessionDown
<1>2. /\ LocRibIsUnion'
      /\ lsas' \in [Ids -> SUBSET LSA]
      /\ adj' \in [Peers -> [Ids -> Lsa0]] /\ size' \in [Peers -> Int]
      /\ (\A i \in Ids : Held({s}, i) = {}) => lsas' = lsas
  BY <1>1, TruncateKeepsUnion
<1>3. TypeOK'
  <2>1. sent' \in [Sessions -> [Ids -> Lsa0]]
    BY <1>1 DEF TypeOK, Lsa0
  <2>2. pending' \in BOOLEAN
    BY <1>1 DEF TypeOK
  <2> QED BY <1>1, <1>2, <2>1, <2>2 DEF TypeOK
<1>4. DownIsEmpty' /\ SizeBounded'
  BY <1>1, LimitAssumption DEF DownIsEmpty, SizeBounded, Truncate
<1>5. ChoiceIsCurrent'
  <2>1. ~ pending' => ~ pending /\ lsas' = lsas /\ hvs' = hvs
    BY <1>1, <1>2
  <2> QED BY <1>1, <2>1, ChoiceStaysCurrent
<1>6. BestHasCost' /\ RoutesFollowBest'
  BY <1>1 DEF BestHasCost, RoutesFollowBest
<1>7. PeersAreTold'
  <2> SUFFICES ASSUME NEW t \in up', NEW i \in Ids PROVE sent'[t][i] = MapOut(t, best'[i])
    BY DEF PeersAreTold, MapOut
  <2> QED BY <1>1 DEF TypeOK, PeersAreTold
<1> QED BY <1>2, <1>3, <1>4, <1>5, <1>6, <1>7

(* mylsa_add_peer() and mylsa_del_peer(). *)
LEMMA ModifyMyLsaIInv ==
    ASSUME IInv, NEW new \in Mine, ModifyMyLsa(new)
    PROVE  IInv'
<1> USE DEF IInv
<1>1. /\ UNCHANGED <<up, adj, size, best, bestcost, todo, sent, rt>>
      /\ me' = new /\ me # NULL /\ Feed(Me, me, new)
  BY DEF ModifyMyLsa
<1>2. new \in LSA /\ new # NULL /\ me \in Mine /\ me \in LSA /\ Me # NoId /\ Me \in Ids
  BY <1>1, IdAssumption, LsaAssumption DEF TypeOK
<1>3. /\ lsas' = [lsas EXCEPT ![Me] = (@ \ {me}) \cup {new}]
      /\ hvs' = hvs /\ pending'
      /\ detached' \subseteq Ids
  BY <1>1, <1>2 DEF Feed, TypeOK
<1>4. TypeOK'
  BY <1>1, <1>2, <1>3 DEF TypeOK, Feed
<1>5. LocRibIsUnion'
  <2> SUFFICES ASSUME NEW i \in Ids PROVE lsas'[i] = Held(Peers, i)' \cup Own(i)'
    BY DEF LocRibIsUnion
  <2>1. Held(Peers, i)' = Held(Peers, i)
    BY <1>1 DEF Held
  <2>2. lsas[i] = Held(Peers, i) \cup Own(i)
    BY DEF LocRibIsUnion
  <2>3. i = Me => me \notin Held(Peers, i)
    BY HeldOnce DEF Held, Own
  <2> QED BY <1>1, <1>3, <2>1, <2>2, <2>3 DEF Own, TypeOK
<1>6. DownIsEmpty' /\ SizeBounded'
  BY <1>1 DEF DownIsEmpty, SizeBounded
<1>7. ChoiceIsCurrent'
  BY <1>3 DEF ChoiceIsCurrent
<1>8. BestHasCost' /\ PeersAreTold' /\ RoutesFollowBest'
  BY <1>1, ViewsStay
<1> QED BY <1>4, <1>5, <1>6, <1>7, <1>8

(* The recompute task starts: every id is to be visited. *)
LEMMA BeginRecomputeIInv ==
    ASSUME IInv, BeginRecompute
    PROVE  IInv'
<1> USE DEF IInv
<1>1. /\ UNCHANGED <<up, adj, size, me, lsas, hvs, best, bestcost, detached, sent, rt>>
      /\ todo' = Ids /\ pending' = FALSE
  BY DEF BeginRecompute
<1>2. TypeOK'
  BY <1>1 DEF TypeOK
<1>3. LocRibIsUnion' /\ DownIsEmpty' /\ SizeBounded'
  BY <1>1 DEF LocRibIsUnion, Held, Own, DownIsEmpty, SizeBounded
<1>4. ChoiceIsCurrent'
  BY <1>1 DEF ChoiceIsCurrent
<1>5. BestHasCost' /\ PeersAreTold' /\ RoutesFollowBest'
  BY <1>1, ViewsStay
<1> QED BY <1>2, <1>3, <1>4, <1>5

(* The writers that are told, and the routes, follow the new choice. *)
LEMMA RecomputeRidIInv ==
    ASSUME IInv, NEW i \in todo, NEW new \in Outcomes(lsas, hvs, i),
           NEW fail \in SUBSET Told(i, new), RecomputeRid(i, new, fail)
    PROVE  IInv'
<1> USE DEF IInv
<1>1. /\ UNCHANGED <<me, hvs>>
      /\ todo' = todo \ {i}
      /\ best' = [best EXCEPT ![i] = new.lsa]
      /\ bestcost' = [bestcost EXCEPT ![i] = new.cost]
      /\ rt' = [rt EXCEPT ![i] = Route(i, new)]
      /\ up' = up \ fail
      /\ Truncate(fail)
      /\ detached' = (detached \ {i}) \cup {j \in Ids : best'[j] \in Held(fail, j)}
      /\ pending' = (pending \/ \E j \in Ids : Held(fail, j) # {})
  BY DEF RecomputeRid
<1>2. sent' = [s \in Sessions |->
                  IF s \in fail THEN [j \in Ids |-> NULL]
                  ELSE IF s \in Told(i, new)
                  THEN [sent[s] EXCEPT ![i] = MapOut(s, new.lsa)]
                  ELSE sent[s]]
  BY DEF RecomputeRid
<1>3. i \in Ids /\ todo \subseteq Ids
      /\ lsas \in [Ids -> SUBSET LSA] /\ hvs \in [Ids -> Nat]
  BY DEF TypeOK
<1>4. /\ new = [lsa |-> new.lsa, cost |-> new.cost]
      /\ new.cost \in 0..RIB_COST_INELIGIBLE
      /\ new.lsa \in Lsa0
      /\ \/ new.lsa = NULL /\ new.cost = RIB_COST_INELIGIBLE
         \/ new.lsa # NULL /\ new.cost < RIB_COST_INELIGIBLE
  BY <1>3, OutcomeProps DEF Lsa0
<1>5. /\ LocRibIsUnion'
      /\ lsas' \in [Ids -> SUBSET LSA]
      /\ adj' \in [Peers -> [Ids -> Lsa0]] /\ size' \in [Peers -> Int]
      /\ (\A j \in Ids : Held(fail, j) = {}) => lsas' = lsas
  BY <1>1, TruncateKeepsUnion
<1>6. TypeOK'
  <2>1. best' \in [Ids -> Lsa0] /\ bestcost' \in [Ids -> 0..RIB_COST_INELIGIBLE]
    BY <1>1, <1>3, <1>4 DEF TypeOK
  <2>2. rt' \in [Ids -> Ids \cup {NULL}]
    <3>1. Route(i, new) \in Ids \cup {NULL}
      BY <1>3, <1>4, RtMapType DEF Route, TypeOK
    <3> QED BY <1>1, <3>1 DEF TypeOK
  <2>3. sent' \in [Sessions -> [Ids -> Lsa0]]
    <3>1. \A s \in Sessions : MapOut(s, new.lsa) \in Lsa0
      BY <1>4, MapOutType
    <3>2. ASSUME NEW s \in Sessions PROVE sent'[s] \in [Ids -> Lsa0]
      BY <1>2, <3>1 DEF TypeOK, Lsa0
    <3> QED BY <1>2, <3>2
  <2>4. detached' \subseteq Ids /\ up' \subseteq Sessions /\ todo' \subseteq Ids /\ pending' \in BOOLEAN
    BY <1>1 DEF TypeOK
  <2> QED BY <1>1, <1>5, <2>1, <2>2, <2>3, <2>4 DEF TypeOK
<1>7. DownIsEmpty' /\ SizeBounded'
  BY <1>1, LimitAssumption DEF DownIsEmpty, SizeBounded, Truncate
<1>8. BestHasCost'
  BY <1>1, <1>3, <1>4 DEF BestHasCost, TypeOK
<1>9. ChoiceIsCurrent'
  <2> SUFFICES ASSUME ~ pending', NEW j \in Ids \ todo' PROVE Current(j)'
    BY DEF ChoiceIsCurrent
  <2>1. ~ pending /\ lsas' = lsas /\ hvs' = hvs
    BY <1>1, <1>5
  <2>2. CASE j = i
    <3>1. best'[j] = new.lsa /\ bestcost'[j] = new.cost
      BY <1>1, <2>2 DEF TypeOK
    <3> QED BY <1>4, <2>1, <2>2, <3>1 DEF Current
  <2>3. CASE j # i
    <3>1. best'[j] = best[j] /\ bestcost'[j] = bestcost[j] /\ j \notin todo
      BY <1>1, <2>3 DEF TypeOK
    <3>2. Current(j)
      BY <2>1, <3>1 DEF ChoiceIsCurrent
    <3> QED BY <2>1, <3>1, <3>2 DEF Current
  <2> QED BY <2>2, <2>3
<1>10. PeersAreTold'
  <2> SUFFICES ASSUME NEW s \in up', NEW j \in Ids PROVE sent'[s][j] = MapOut(s, best'[j])
    BY DEF PeersAreTold, MapOut
  <2>1. s \in up /\ s \notin fail /\ s \in Sessions /\ sent[s][j] = MapOut(s, best[j])
    BY <1>1 DEF TypeOK, PeersAreTold
  <2>2. CASE j # i
    BY <1>1, <1>2, <2>1, <2>2 DEF TypeOK
  <2>3. CASE j = i /\ s \in Told(i, new)
    BY <1>1, <1>2, <2>1, <2>3 DEF TypeOK
  <2>4. CASE j = i /\ s \notin Told(i, new)
    <3>1. sent'[s] = sent[s] /\ best'[i] = new.lsa
      BY <1>1, <1>2, <1>3, <2>1, <2>4 DEF TypeOK
    <3>2. MapOut(s, best[i]) = MapOut(s, new.lsa)
      BY <2>1, <2>4 DEF Told, Unchanged
    <3> QED BY <2>1, <2>4, <3>1, <3>2
  <2> QED BY <2>2, <2>3, <2>4
<1>11. RoutesFollowBest'
  <2> SUFFICES ASSUME NEW j \in Ids PROVE rt'[j] = RtMap(best'[j], bestcost'[j])
    BY DEF RoutesFollowBest, RtMap
  <2>1. CASE j # i
    BY <1>1, <2>1 DEF TypeOK, RoutesFollowBest
  <2>2. CASE j = i
    BY <1>1, <2>2 DEF TypeOK, RoutesFollowBest, Route
  <2> QED BY <2>1, <2>2
<1> QED BY <1>5, <1>6, <1>7, <1>8, <1>9, <1>10, <1>11

(* Every step preserves the invariant. *)
LEMMA NextIInv == IInv /\ [Next]_vars => IInv'
<1> SUFFICES ASSUME IInv, [Next]_vars PROVE IInv'
  OBVIOUS
<1>1. ASSUME NEW p \in Peers, NEW l \in Wire, Receive(p, l) PROVE IInv'
  BY <1>1, ReceiveIInv
<1>2. ASSUME NEW p \in Peers, NEW i \in Ids, ReceiveWithdrawal(p, i) PROVE IInv'
  BY <1>2, ReceiveWithdrawalIInv
<1>3. ASSUME NEW s \in Sessions, SessionUp(s) \/ SessionDown(s) PROVE IInv'
  BY <1>3, SessionUpIInv, SessionDownIInv
<1>4. ASSUME NEW l \in Mine, ModifyMyLsa(l) PROVE IInv'
  BY <1>4, ModifyMyLsaIInv
<1>5. CASE BeginRecompute
  BY <1>5, BeginRecomputeIInv
<1>6. CASE VisitRid
  BY <1>6, RecomputeRidIInv DEF VisitRid
<1>7. CASE UNCHANGED vars
  BY <1>7 DEF vars, IInv, TypeOK, LocRibIsUnion, Held, Own, DownIsEmpty, SizeBounded,
     BestHasCost, ChoiceIsCurrent, Current, PeersAreTold, RoutesFollowBest
<1> QED BY <1>1, <1>2, <1>3, <1>4, <1>5, <1>6, <1>7 DEF Next

(* The invariant holds throughout. *)
LEMMA IInvAlways == Spec => []IInv
BY InitIInv, NextIInv, PTL DEF Spec

---------------------------------------------------------------------------
(* The state keeps its types: in particular every cost lsa_path_cost()     *)
(* computes fits below RIB_COST_INELIGIBLE, and every next hop is a node.  *)
THEOREM TypeCorrect == Spec => []TypeOK
BY IInvAlways, PTL DEF IInv

(* The abort()s of loc_rib_mod_lsa(), loc_rib_del_lsa() and                *)
(* loc_rib_add_lsa() are not reached: the loc_rib always holds exactly     *)
(* what the adj_rib_ins and the node itself put there.                     *)
THEOREM LocRibUnion == Spec => [](LocRibIsUnion /\ DownIsEmpty)
BY IInvAlways, PTL DEF IInv

(* ADJ_RIB_IN_MAX_BYTES bounds what the accounting of an adj_rib_in says. *)
THEOREM SizeLimit == Spec => []SizeBounded
BY IInvAlways, PTL DEF IInv

(* rt_builder.c's abort() on an INELIGIBLE cost is not reached. *)
THEOREM BestCost == Spec => []BestHasCost
BY IInvAlways, PTL DEF IInv

(* No change of the RIBs is forgotten by recompute_rib(), also not one     *)
(* made by a session that dies while it runs.                              *)
THEOREM Choice == Spec => []ChoiceIsCurrent
BY IInvAlways, PTL DEF IInv

(* What each session was told is what it may know of the best LSAs. *)
THEOREM Mirror == Spec => []PeersAreTold
BY IInvAlways, PTL DEF IInv

(* The installed routes are those of the best LSAs. *)
THEOREM Routes == Spec => []RoutesFollowBest
BY IInvAlways, PTL DEF IInv

(* A next hop heads a path held from the peer it names, whose RIB in is    *)
(* empty when its session is down.  That goes for a path of one node too,  *)
(* when this is the node the LSA is of.                                    *)
LEMMA LiveRoutes == IInv => RoutesUseLiveSessions
<1> SUFFICES ASSUME IInv, ~ pending, NEW i \in Ids \ todo, rt[i] # NULL,
                    EndsAtItsNode(best[i])
             PROVE  rt[i] \in up
  BY DEF RoutesUseLiveSessions
<1> USE DEF IInv
<1>1. /\ best[i] # NULL /\ Len(best[i].path) > 0
      /\ rt[i] = NextHop(best[i])
  BY DEF RoutesFollowBest, RtMap
<1>2. best[i] \in lsas[i]
  <2>1. Current(i)
    BY DEF ChoiceIsCurrent
  <2> DEFINE o == [lsa |-> best[i], cost |-> bestcost[i]]
  <2>2. o \in Outcomes(lsas, hvs, i) /\ o.lsa = best[i]
    BY <2>1 DEF Current
  <2> QED BY <1>1, <2>2, OutcomeProps DEF TypeOK
<1>3. best[i] \notin Own(i)
  <2>1. ASSUME i = Me, best[i] = me PROVE FALSE
    <3>1. me \in Mine
      BY <2>1, IdAssumption DEF TypeOK
    <3>2. Len(me.path) = 0
      BY <3>1, LsaAssumption
    <3> QED BY <1>1, <2>1, <3>2
  <2> QED BY <2>1 DEF Own
<1>4. PICK p \in Peers : best[i] = MapIn(p, adj[p][i])
  BY <1>2, <1>3 DEF LocRibIsUnion, Held
<1>5. adj[p][i] \in Lsa0
  BY DEF TypeOK
<1>6. /\ best[i].path[1] = p /\ adj[p][i] # NULL
      /\ ~ Contains(best[i].path, Me) /\ best[i].path \in Seq(Ids)
  BY <1>1, <1>4, <1>5, MapInProps, MapInNull, LsaAssumption DEF LSA
<1>7. best[i].path[1] # Me
  BY <1>1, <1>6 DEF Contains
<1>8. p \in up
  BY <1>6 DEF DownIsEmpty
<1>9. NextHop(best[i]) = best[i].path[1]
  <2>1. CASE Len(best[i].path) = 1
    BY <1>1, <1>6, <1>7, <2>1 DEF NextHop, EndsAtItsNode
  <2>2. CASE Len(best[i].path) # 1
    BY <1>7, <2>2 DEF NextHop
  <2> QED BY <2>1, <2>2
<1> QED BY <1>1, <1>6, <1>8, <1>9

(* When the recompute has run, no route for an LSA whose path ends at the  *)
(* node it is of leads over a session that is down.                        *)
THEOREM RoutesLive == Spec => []RoutesUseLiveSessions
BY IInvAlways, LiveRoutes, PTL

---------------------------------------------------------------------------
(* The bytes of the usable LSAs of peer p, id by id. *)
Counted(p) == [i \in Ids |-> Bytes(MapIn(p, adj[p][i]))]

(* They are numbers. *)
LEMMA CountedType ==
    ASSUME TypeOK, NEW p \in Peers
    PROVE  Counted(p) \in [Ids -> Int]
<1>1. ASSUME NEW i \in Ids PROVE Bytes(MapIn(p, adj[p][i])) \in Int
  <2>1. MapIn(p, adj[p][i]) \in Lsa0
    BY MapInProps DEF TypeOK
  <2> QED BY <2>1, BytesType
<1> QED BY <1>1 DEF Counted

(* An empty adj_rib_in counts for nothing. *)
LEMMA NothingCounted ==
    ASSUME NEW p \in Peers, adj[p] = [i \in Ids |-> NULL]
    PROVE  Sum(Counted(p)) = 0
<1>1. Counted(p) = [i \in Ids |-> 0]
  BY MapInNull DEF Counted, Bytes
<1> QED BY <1>1, SumOfZeroes, IdAssumption

(* notify() accounts for the one LSA that changes, adj_rib_in_truncate()   *)
(* for all of them.                                                        *)
LEMMA ReplaceCounts ==
    ASSUME TypeOK, SizeExact, NEW p \in Peers, NEW i \in Ids, NEW new \in Lsa0, Replace(p, i, new)
    PROVE  SizeExact'
<1> DEFINE old == MapIn(p, adj[p][i])
           use == MapIn(p, new)
<1>1. /\ adj' = [adj EXCEPT ![p][i] = new]
      /\ size' = [size EXCEPT ![p] = @ - Bytes(old) + Bytes(use)]
  BY DEF Replace
<1>2. ASSUME NEW q \in Peers
      PROVE  size'[q] = Sum(Counted(q)')
  <2>1. size[q] = Sum(Counted(q))
    BY DEF SizeExact, Counted
  <2>2. CASE q # p
    <3>1. size'[q] = size[q] /\ adj'[q] = adj[q]
      BY <1>1, <2>2 DEF TypeOK
    <3>2. Counted(q)' = Counted(q)
      BY <3>1 DEF Counted
    <3> QED BY <2>1, <3>1, <3>2
  <2>3. CASE q = p
    <3>1. /\ size'[p] = size[p] - Bytes(old) + Bytes(use)
          /\ adj'[p] = [adj[p] EXCEPT ![i] = new]
      BY <1>1 DEF TypeOK
    <3>2. /\ Counted(p)' = [Counted(p) EXCEPT ![i] = Bytes(use)]
          /\ Counted(p)[i] = Bytes(old)
      BY <3>1 DEF Counted, TypeOK
    <3>3. Bytes(use) \in Int
      BY MapInProps, BytesType
    <3>4. Sum([Counted(p) EXCEPT ![i] = Bytes(use)]) = Sum(Counted(p)) - Counted(p)[i] + Bytes(use)
      <4> DEFINE f == Counted(p)
      <4>1. f \in [Ids -> Int] /\ IsFiniteSet(Ids)
        BY CountedType, IdAssumption
      <4> HIDE DEF f, use
      <4>2. Sum([f EXCEPT ![i] = Bytes(use)]) = Sum(f) - f[i] + Bytes(use)
        BY <3>3, <4>1, SumChange
      <4> QED BY <4>2 DEF f
    <3> QED BY <2>1, <2>3, <3>1, <3>2, <3>4
  <2> QED BY <2>2, <2>3
<1> QED BY <1>2 DEF SizeExact, Counted

(* adj_rib_in_truncate() *)
LEMMA TruncateCounts ==
    ASSUME SizeExact, NEW S, Truncate(S)
    PROVE  SizeExact'
<1>1. ASSUME NEW p \in Peers
      PROVE  size'[p] = Sum(Counted(p)')
  <2>1. CASE p \in S
    <3>1. size'[p] = 0 /\ adj'[p] = [i \in Ids |-> NULL]
      BY <2>1 DEF Truncate
    <3>2. Counted(p)' = [i \in Ids |-> 0]
      BY <3>1, MapInNull DEF Counted, Bytes
    <3> QED BY <3>1, <3>2, SumOfZeroes, IdAssumption
  <2>2. CASE p \notin S
    <3>1. size'[p] = size[p] /\ adj'[p] = adj[p]
      BY <2>2 DEF Truncate
    <3>2. Counted(p)' = Counted(p)
      BY <3>1 DEF Counted
    <3> QED BY <3>1, <3>2 DEF SizeExact, Counted
  <2> QED BY <2>1, <2>2
<1> QED BY <1>1 DEF SizeExact, Counted

(* No step takes the account away from what it counts. *)
LEMMA SizeStaysExact == TypeOK /\ SizeExact /\ [Next]_vars => SizeExact'
<1> SUFFICES ASSUME TypeOK, SizeExact, [Next]_vars PROVE SizeExact'
  OBVIOUS
<1>1. CASE UNCHANGED <<adj, size>>
  BY <1>1 DEF SizeExact
<1>2. ASSUME NEW p \in Peers, NEW l \in Wire, Receive(p, l) PROVE SizeExact'
  <2>1. l \in LSA /\ l.id \in Ids /\ l \in Lsa0 /\ NULL \in Lsa0
    BY LsaAssumption DEF LSA, Lsa0
  <2>2. Replace(p, l.id, NULL) \/ Replace(p, l.id, l) \/ UNCHANGED <<adj, size>>
    BY <1>2 DEF Receive
  <2> QED BY <1>1, <2>1, <2>2, ReplaceCounts
<1>3. ASSUME NEW p \in Peers, NEW i \in Ids, ReceiveWithdrawal(p, i) PROVE SizeExact'
  <2>1. Replace(p, i, NULL) /\ NULL \in Lsa0
    BY <1>3 DEF ReceiveWithdrawal, Lsa0
  <2> QED BY <2>1, ReplaceCounts
<1>4. ASSUME NEW s \in Sessions, SessionUp(s) \/ SessionDown(s) PROVE SizeExact'
  BY <1>1, <1>4, TruncateCounts DEF SessionUp, SessionDown
<1>5. ASSUME NEW l \in Mine, ModifyMyLsa(l) PROVE SizeExact'
  BY <1>1, <1>5 DEF ModifyMyLsa
<1>6. CASE BeginRecompute
  BY <1>1, <1>6 DEF BeginRecompute
<1>7. CASE VisitRid
  BY <1>7, TruncateCounts DEF VisitRid, RecomputeRid
<1> QED BY <1>1, <1>2, <1>3, <1>4, <1>5, <1>6, <1>7 DEF Next, vars

(* adj_rib_in.size, which notify() updates LSA by LSA and                  *)
(* adj_rib_in_truncate() leaves at 0, is always the number of bytes of     *)
(* the usable LSAs held: the limit is on what is really there.             *)
THEOREM Accounting == Spec => []SizeExact
<1>1. Init => SizeExact
  <2> SUFFICES ASSUME Init, NEW p \in Peers PROVE size[p] = Sum(Counted(p))
    BY DEF SizeExact, Counted
  <2>1. size[p] = 0 /\ adj[p] = [i \in Ids |-> NULL]
    BY DEF Init
  <2> QED BY <2>1, NothingCounted
<1>2. IInv => TypeOK
  BY DEF IInv
<1> QED BY <1>1, <1>2, IInvAlways, SizeStaysExact, PTL DEF Spec

---------------------------------------------------------------------------
(* The loop of lsa_path_cost() computes the cost the RIB model uses, for   *)
(* paths of any length over any hops.                                      *)

(* The metrics of the first n hops. *)
MetricsUpTo(n) == [k \in 1..n |-> hops[k].fwd.metric]

(* The loop has passed the hops before ith, and traversing_transits tells  *)
(* whether all of them went uphill.                                        *)
LoopInv ==
    /\ hops \in Seq(HopSet)
    /\ ith \in 1..(Len(hops) + 1)
    /\ \A k \in 1..(ith - 1) : Linked(hops[k])
    /\ \A j, k \in 1..(ith - 1) : j < k /\ ~ Uphill(hops[j]) => Downhill(hops[k])
    /\ traversing_transits <=> \A k \in 1..(ith - 1) : Uphill(hops[k])
    /\ cost = Sum(MetricsUpTo(ith - 1))
    /\ LoopComputesWalkCost

(* The metric of a hop both ends of which list the other is a number. *)
LEMMA MetricType ==
    ASSUME NEW h \in HopSet, Linked(h)
    PROVE  h.fwd.metric \in Int
<1>1. h.fwd \in PeerInfo
  BY HopAssumption DEF Hop, Linked
<1>2. h.fwd.metric \in Metrics
  BY <1>1 DEF PeerInfo
<1>3. \A m \in Metrics : m \in Int
  BY CostValueAssumption
<1> QED BY <1>2, <1>3, Zenon

(* Intervals are finite. *)
LEMMA IntervalsFinite == \A a, b \in Int : IsFiniteSet(a..b)
BY FS_Interval

(* One more hop adds its metric. *)
LEMMA SumOfOneMore ==
    ASSUME LoopInv, ith <= Len(hops), Linked(hops[ith])
    PROVE  Sum(MetricsUpTo(ith)) = cost + hops[ith].fwd.metric
<1> DEFINE f == MetricsUpTo(ith)
<1>1. ith \in Nat /\ ith \in 1..ith /\ IsFiniteSet(1..ith) /\ (1..ith) \ {ith} = 1..(ith - 1)
  <2>1. ith \in Nat \ {0}
    BY DEF LoopInv
  <2>2. IsFiniteSet(1..ith)
    BY <2>1, IntervalsFinite
  <2> QED BY <2>1, <2>2
<1>2. f \in [1..ith -> Int] /\ f[ith] = hops[ith].fwd.metric
  <2>1. ASSUME NEW k \in 1..ith PROVE hops[k].fwd.metric \in Int
    <3>1. hops[k] \in HopSet /\ Linked(hops[k])
      BY DEF LoopInv
    <3> QED BY <3>1, MetricType
  <2> QED BY <1>1, <2>1 DEF MetricsUpTo
<1>3. [k \in 1..(ith - 1) |-> f[k]] = MetricsUpTo(ith - 1)
  BY <1>1 DEF MetricsUpTo
<1> HIDE DEF f
<1>4. Sum(f) = f[ith] + Sum([k \in (1..ith) \ {ith} |-> f[k]]) /\ Sum([k \in (1..ith) \ {ith} |-> f[k]]) \in Int
  BY <1>1, <1>2, SumSplit
<1>5. Sum(f) = f[ith] + cost /\ cost \in Int
  BY <1>1, <1>3, <1>4 DEF LoopInv
<1>6. f[ith] \in Int
  BY <1>1, <1>2
<1> QED BY <1>2, <1>5, <1>6 DEF f

(* The function starts with no hop passed. *)
LEMMA InitLoopInv == LoopInit => LoopInv
<1> SUFFICES ASSUME LoopInit PROVE LoopInv
  OBVIOUS
<1>1. PICK n \in 0..MaxHops : hops \in [1..n -> HopSet]
  BY DEF LoopInit
<1>2. n \in Nat
  BY HopAssumption
<1>3. hops \in Seq(HopSet) /\ Len(hops) = n
  BY <1>1, <1>2
<1>4. ith = 1 /\ cost = 0 /\ result = NULL /\ traversing_transits = TRUE
  BY DEF LoopInit
<1>5. Sum(MetricsUpTo(0)) = 0
  <2>1. MetricsUpTo(0) = [k \in 1..0 |-> 0]
    BY DEF MetricsUpTo
  <2>2. IsFiniteSet(1..0)
    BY IntervalsFinite
  <2> QED BY <2>1, <2>2, SumOfZeroes
<1>6. cost = Sum(MetricsUpTo(ith - 1))
  BY <1>4, <1>5
<1>7. 1..(ith - 1) = {} /\ ith \in 1..(Len(hops) + 1)
  BY <1>2, <1>3, <1>4
<1> QED BY <1>3, <1>4, <1>6, <1>7 DEF LoopInv, LoopComputesWalkCost

(* A hop the loop passes extends what it has established. *)
LEMMA IterateLoopInv ==
    ASSUME LoopInv, Iterate
    PROVE  LoopInv'
<1>1. /\ ith <= Len(hops) /\ ith' = ith + 1 /\ UNCHANGED <<hops, result>>
      /\ Linked(hops[ith]) /\ (~ traversing_transits => Downhill(hops[ith]))
      /\ traversing_transits' <=> traversing_transits /\ Uphill(hops[ith])
      /\ cost' = cost + hops[ith].fwd.metric
  BY DEF Iterate, Passes, Linked, Downhill, Uphill
<1>2. ith \in Nat \ {0} /\ ith' - 1 = ith /\ ith' \in 1..(Len(hops') + 1)
  BY <1>1 DEF LoopInv
<1>3. \A k \in 1..ith : k = ith \/ k \in 1..(ith - 1)
  BY <1>2
<1>4. \A k \in 1..(ith' - 1) : Linked(hops'[k])
  BY <1>1, <1>2, <1>3 DEF LoopInv
<1>5. \A j, k \in 1..(ith' - 1) : j < k /\ ~ Uphill(hops'[j]) => Downhill(hops'[k])
  <2> SUFFICES ASSUME NEW j \in 1..ith, NEW k \in 1..ith, j < k, ~ Uphill(hops[j])
               PROVE  Downhill(hops[k])
    BY <1>1, <1>2
  <2>1. j \in 1..(ith - 1)
    BY <1>2
  <2>2. CASE k = ith
    BY <1>1, <2>1, <2>2 DEF LoopInv
  <2>3. CASE k \in 1..(ith - 1)
    BY <2>1, <2>3 DEF LoopInv
  <2> QED BY <1>3, <2>2, <2>3
<1>6. traversing_transits' <=> \A k \in 1..(ith' - 1) : Uphill(hops'[k])
  <2>1. (\A k \in 1..ith : Uphill(hops[k])) <=> Uphill(hops[ith]) /\ \A k \in 1..(ith - 1) : Uphill(hops[k])
    <3>1. ith \in 1..ith /\ \A k \in 1..(ith - 1) : k \in 1..ith
      BY <1>2
    <3> QED BY <1>3, <3>1
  <2> QED BY <1>1, <1>2, <2>1 DEF LoopInv
<1>7. (cost = Sum(MetricsUpTo(ith - 1)))'
  <2>1. MetricsUpTo(ith - 1)' = MetricsUpTo(ith)
    BY <1>1, <1>2 DEF MetricsUpTo
  <2> QED BY <1>1, <2>1, SumOfOneMore
<1>8. LoopComputesWalkCost'
  BY <1>1 DEF LoopInv, LoopComputesWalkCost, Iterate
<1> QED BY <1>1, <1>2, <1>4, <1>5, <1>6, <1>7, <1>8 DEF LoopInv

(* The two ways out agree with WalkCost. *)
LEMMA ReturnLoopInv ==
    ASSUME LoopInv, Return_Unreachable \/ Return_Cost
    PROVE  LoopInv'
<1>1. UNCHANGED <<hops, ith, traversing_transits, cost>>
  BY DEF Return_Unreachable, Return_Cost
<1>2. result' = WalkCost(hops)
  <2>1. hops \in Seq(HopSet) /\ DOMAIN hops = 1..Len(hops) /\ Len(hops) \in Nat
    BY DEF LoopInv
  <2>2. CASE Return_Unreachable
    <3>1. /\ result' = RIB_COST_UNREACHABLE /\ ith \in 1..Len(hops)
          /\ ~ Linked(hops[ith]) \/ (~ traversing_transits /\ ~ Downhill(hops[ith]))
      BY <2>1, <2>2 DEF Return_Unreachable, Passes, Linked, Downhill, LoopInv
    <3>2. CASE ~ Linked(hops[ith])
      BY <2>1, <3>1, <3>2 DEF WalkCost
    <3>3. CASE ~ traversing_transits /\ ~ Downhill(hops[ith])
      <4>1. PICK j \in 1..(ith - 1) : ~ Uphill(hops[j])
        BY <3>3 DEF LoopInv
      <4>2. j \in DOMAIN hops /\ ith \in DOMAIN hops /\ j < ith
        BY <2>1, <3>1
      <4>3. ~ ValleyFree(hops)
        BY <3>3, <4>1, <4>2 DEF ValleyFree
      <4> QED BY <3>1, <4>3 DEF WalkCost
    <3> QED BY <3>1, <3>2, <3>3
  <2>3. CASE Return_Cost
    <3>1. result' = cost /\ ith - 1 = Len(hops)
      BY <2>1, <2>3 DEF Return_Cost, LoopInv
    <3>2. (\A k \in DOMAIN hops : Linked(hops[k])) /\ ValleyFree(hops)
      BY <2>1, <3>1 DEF LoopInv, ValleyFree
    <3>3. cost = Sum([k \in DOMAIN hops |-> hops[k].fwd.metric])
      BY <2>1, <3>1 DEF LoopInv, MetricsUpTo
    <3> QED BY <3>1, <3>2, <3>3 DEF WalkCost
  <2> QED BY <2>2, <2>3
<1>3. (cost = Sum(MetricsUpTo(ith - 1)))'
  BY <1>1 DEF LoopInv, MetricsUpTo
<1> QED BY <1>1, <1>2, <1>3 DEF LoopInv, LoopComputesWalkCost

(* lsa_path_cost(), which decides hop by hop with one flag of memory,      *)
(* returns the cost PathCost states of the path as a whole: the sum of the *)
(* metrics of a path whose hops are all listed at both ends and that does  *)
(* not climb again once it has stopped climbing, and UNREACHABLE for any   *)
(* other.                                                                  *)
THEOREM LoopIsWalkCost == LoopSpec => []LoopComputesWalkCost
<1>1. LoopInv /\ [LoopNext]_loopvars => LoopInv'
  <2> SUFFICES ASSUME LoopInv, [LoopNext]_loopvars PROVE LoopInv'
    OBVIOUS
  <2>1. CASE UNCHANGED loopvars
    BY <2>1 DEF loopvars, LoopInv, LoopComputesWalkCost, MetricsUpTo
  <2> QED BY <2>1, IterateLoopInv, ReturnLoopInv DEF LoopNext
<1>2. LoopInv => LoopComputesWalkCost
  BY DEF LoopInv
<1> QED BY InitLoopInv, <1>1, <1>2, PTL DEF LoopSpec
=============================================================================
