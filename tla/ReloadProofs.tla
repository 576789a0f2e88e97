----------------------------- MODULE ReloadProofs -----------------------------
(***************************************************************************)
(* Between two reloads what is registered is what the configuration in     *)
(* force holds, and a reload does what ConfigSwitch says (module Reload),  *)
(* for every set of files.                                                 *)
(***************************************************************************)
EXTENDS Reload, WellFoundedInduction, TLAPS

(* The peer an entry stands for. *)
ConnectPeer(a) == [at |-> NULL, name |-> a.name, val |-> a.val]
ListenPeer(a) == [at |-> a.cls.addr, name |-> a.name, val |-> a.val]

(* A configuration is three trees: names are told apart in the tree of     *)
(* connect entries, addresses in that of the sockets, and names again in   *)
(* the tree of each socket.                                                *)
IsConnectEntry(a) ==
    /\ a = [name |-> a.name, gen |-> a.gen, val |-> a.val]
    /\ a.val = [host |-> a.val.host, port |-> a.val.port, fp |-> a.val.fp,
                type |-> a.val.type, itf |-> a.val.itf, cost |-> a.val.cost]

IsListenEntry(a) ==
    /\ a = [name |-> a.name, gen |-> a.gen, cls |-> a.cls, val |-> a.val]
    /\ a.val = [fp |-> a.val.fp, type |-> a.val.type, itf |-> a.val.itf,
                cost |-> a.val.cost, limit |-> a.val.limit]
    /\ a.name \in Nat

ConnectTree(S) ==
    /\ \A a \in S : IsConnectEntry(a)
    /\ \A a, b \in S : a.name = b.name => a = b

SocketTrees(C, E) ==
    /\ \A s \in C : s.addr # NULL
    /\ \A r, s \in C : r.addr = s.addr => r = s
    /\ \A a \in E : IsListenEntry(a) /\ a.cls \in C
    /\ \A a, b \in E : a.cls = b.cls /\ a.name = b.name => a = b

IsConf(c) ==
    /\ c = [cce |-> c.cce, cls |-> c.cls, cle |-> c.cle]
    /\ ConnectTree(c.cce) /\ SocketTrees(c.cls, c.cle)

(* Nothing is left of a daemon that is gone, and of a walk that is over. *)
Phases ==
    /\ state \in {"off", "idle", "connect_entries", "listening_sockets", "aborted", "crashed"}
    /\ state \in {"off", "aborted", "crashed"} =>
           conf = Empty /\ goal = {} /\ refused = {}
    /\ state \notin {"connect_entries", "listening_sockets"} => newconf = Empty
    /\ state # "listening_sockets" => sock = NULL /\ inner = {}
    /\ sock = NULL => inner = {}

(* What is registered lies in conf. *)
Registered == tcs = conf.cce /\ tls = conf.cls /\ tles \subseteq conf.cle

(* The keys the walk has not come to yet. *)
ConnectPending(n) == state = "connect_entries" /\ n \in todo
AddrPending(k) ==
    \/ state = "connect_entries"
    \/ state = "listening_sockets" /\ k \in todo
ListenPending(k, n) ==
    \/ AddrPending(k)
    \/ state = "listening_sockets" /\ k = sock /\ n \in inner

(* Where the walk has been conf has the peers of the file, and where it    *)
(* has not newconf has them.                                               *)
ConnectsWalked ==
    /\ \A a \in conf.cce : ConnectPending(a.name) \/ ConnectPeer(a) \in goal
    /\ \A b \in newconf.cce : ConnectPending(b.name) => ConnectPeer(b) \in goal
    /\ \A e \in goal :
           e.at = NULL => IF ConnectPending(e.name)
                          THEN \E b \in newconf.cce : e = ConnectPeer(b)
                          ELSE \E a \in conf.cce : e = ConnectPeer(a)

ListensWalked ==
    /\ \A a \in conf.cle : ListenPending(a.cls.addr, a.name) \/ ListenPeer(a) \in goal
    /\ \A b \in newconf.cle : ListenPending(b.cls.addr, b.name) => ListenPeer(b) \in goal
    /\ \A e \in goal :
           e.at # NULL => IF ListenPending(e.at, e.name)
                          THEN \E b \in newconf.cle : e = ListenPeer(b)
                          ELSE \/ \E a \in conf.cle : e = ListenPeer(a)
                               \/ e \in refused /\ e.at \notin Addrs(conf.cls)

(* refused is what of the file is not served where the walk has been, or   *)
(* could not be served before.                                             *)
Refused ==
    /\ \A e \in refused : e \in goal /\ e.at # NULL
    /\ \A e \in refused :
           e.at \in Addrs(conf.cls) \/ AddrPending(e.at) => \E a \in conf.cle : e = ListenPeer(a)
    /\ \A a \in tles : ListenPeer(a) \notin refused
    /\ \A a \in conf.cle \ tles : ListenPeer(a) \in goal => ListenPeer(a) \in refused

(* The socket in hand has been taken off the list. *)
InHand == sock # NULL => ~ AddrPending(sock) /\ sock \in Addrs(conf.cls)

Trees == IsConf(conf) /\ IsConf(newconf)

IInv ==
    /\ Trees /\ Phases /\ Registered /\ InHand
    /\ ConnectsWalked /\ ListensWalked /\ Refused

---------------------------------------------------------------------------
(* Facts about names, entries and configurations.                          *)

(* Of several names one is the first. *)
LEMMA FirstName ==
    ASSUME NEW S, S \subseteq Nat, S # {}
    PROVE  \E n \in S : \A m \in S : n <= m
<1>1. PICK n \in S : \A m \in S : ~ (<<m, n>> \in OpToRel(<, Nat))
  BY NatLessThanWellFounded, WFMin
<1>2. ASSUME NEW m \in S PROVE n <= m
  <2>1. m \in Nat /\ n \in Nat
    OBVIOUS
  <2>2. ~ (m < n)
    BY <1>1, <2>1 DEF OpToRel
  <2> QED BY <2>1, <2>2
<1> QED BY <1>2

(* Changing one tree of a configuration leaves the others. *)
LEMMA ConfFields ==
    ASSUME NEW c, IsConf(c), NEW X, NEW Z
    PROVE  /\ [c EXCEPT !.cce = X] = [cce |-> X, cls |-> c.cls, cle |-> c.cle]
           /\ [c EXCEPT !.cle = Z] = [cce |-> c.cce, cls |-> c.cls, cle |-> Z]
<1>1. PICK x, y, z : c = [cce |-> x, cls |-> y, cle |-> z]
  BY DEF IsConf
<1>2. c.cce = x /\ c.cls = y /\ c.cle = z
  BY <1>1
<1>3. [c EXCEPT !.cce = X] = [cce |-> X, cls |-> y, cle |-> z]
  BY <1>1
<1>4. [c EXCEPT !.cle = Z] = [cce |-> x, cls |-> y, cle |-> Z]
  BY <1>1
<1> QED BY <1>2, <1>3, <1>4

(* An entry that has been moved to the tree of another socket. *)
LEMMA EntryFields ==
    ASSUME NEW a, IsListenEntry(a), NEW s
    PROVE  /\ IsListenEntry([a EXCEPT !.cls = s])
           /\ [a EXCEPT !.cls = s].name = a.name
           /\ [a EXCEPT !.cls = s].val = a.val
           /\ [a EXCEPT !.cls = s].cls = s
<1>1. PICK n, g, t, v : a = [name |-> n, gen |-> g, cls |-> t, val |-> v]
  BY DEF IsListenEntry
<1>2. [a EXCEPT !.cls = s] = [name |-> n, gen |-> g, cls |-> s, val |-> v]
  BY <1>1
<1> QED BY <1>1, <1>2 DEF IsListenEntry

(* Entries for which cle_mod() and cce_mod() do nothing have one value. *)
LEMMA SameListenVal ==
    ASSUME NEW a, IsListenEntry(a), NEW b, IsListenEntry(b)
    PROVE  SameListen(a, b) <=> a.val = b.val
BY DEF IsListenEntry, SameListen

LEMMA SameConnectVal ==
    ASSUME NEW a, IsConnectEntry(a), NEW b, IsConnectEntry(b)
    PROVE  SameConnect(a, b) <=> a.val = b.val
BY DEF IsConnectEntry, SameConnect

(* The peer an entry stands for tells what it is compared by. *)
LEMMA ConnectFields ==
    \A a : ConnectPeer(a).at = NULL /\ ConnectPeer(a).name = a.name /\ ConnectPeer(a).val = a.val
BY DEF ConnectPeer

LEMMA ListenFields ==
    \A a : ListenPeer(a).at = a.cls.addr /\ ListenPeer(a).name = a.name /\ ListenPeer(a).val = a.val
BY DEF ListenPeer

LEMMA PeersEqual ==
    ASSUME NEW a, NEW b
    PROVE  /\ ConnectPeer(a) = ConnectPeer(b) <=> a.name = b.name /\ a.val = b.val
           /\ ListenPeer(a) = ListenPeer(b) <=>
                  a.cls.addr = b.cls.addr /\ a.name = b.name /\ a.val = b.val
BY DEF ConnectPeer, ListenPeer

(* Connecting and Listening by these names. *)
LEMMA PeerSets ==
    ASSUME NEW S
    PROVE  /\ Connecting(S) = {ConnectPeer(a) : a \in S}
           /\ Listening(S) = {ListenPeer(a) : a \in S}
BY DEF Connecting, Listening, ConnectPeer, ListenPeer

(* parse_config() makes a configuration. *)
LEMMA ParseIsConf ==
    ASSUME NEW f \in Files, NEW g
    PROVE  IsConf(parse_config(f, g))
<1> DEFINE c == parse_config(f, g)
<1>1. c = [cce |-> c.cce, cls |-> c.cls, cle |-> c.cle]
  BY DEF parse_config
<1>2. /\ c.cce = {add_connect_peer(f, n, g) : n \in Connects(f)}
      /\ c.cls = {get_listening_socket(f, f.peers[n], g) : n \in Listens(f)}
      /\ c.cle = {add_listen_peer(f, n, g) : n \in Listens(f)}
  BY DEF parse_config
<1>3. /\ Connects(f) \subseteq Nat /\ Listens(f) \subseteq Nat
      /\ \A n \in Listens(f) : ListenAddr(f, f.peers[n]) # NULL
  BY FileAssumption DEF Connects, Listens
<1>4. \A n : /\ IsConnectEntry(add_connect_peer(f, n, g))
             /\ add_connect_peer(f, n, g).name = n
  BY DEF IsConnectEntry, add_connect_peer
<1>5. \A n : /\ n \in Nat => IsListenEntry(add_listen_peer(f, n, g))
             /\ add_listen_peer(f, n, g).name = n
             /\ add_listen_peer(f, n, g).cls = get_listening_socket(f, f.peers[n], g)
  BY DEF IsListenEntry, add_listen_peer
<1>6. \A s : /\ get_listening_socket(f, s, g).addr = ListenAddr(f, s)
             /\ get_listening_socket(f, s, g) = [addr |-> ListenAddr(f, s), gen |-> g]
  BY DEF get_listening_socket
<1> HIDE DEF c
<1>7. ConnectTree(c.cce)
  BY <1>2, <1>4 DEF ConnectTree
<1>8. SocketTrees(c.cls, c.cle)
  <2>1. \A s \in c.cls : s.addr # NULL
    BY <1>2, <1>3, <1>6
  <2>2. \A r, s \in c.cls : r.addr = s.addr => r = s
    BY <1>2, <1>6
  <2>3. \A a \in c.cle : IsListenEntry(a) /\ a.cls \in c.cls
    BY <1>2, <1>3, <1>5
  <2>4. \A a, b \in c.cle : a.cls = b.cls /\ a.name = b.name => a = b
    BY <1>2, <1>5
  <2> QED BY <2>1, <2>2, <2>3, <2>4 DEF SocketTrees
<1>9. IsConf(c)
  BY <1>1, <1>7, <1>8 DEF IsConf
<1> QED BY <1>9 DEF c

LEMMA EmptyIsConf == IsConf(Empty) /\ Empty.cce = {} /\ Empty.cls = {} /\ Empty.cle = {}
BY DEF Empty, IsConf, ConnectTree, SocketTrees

(* The trees after a step. *)
LEMMA TreesPrime ==
    ASSUME conf' = [cce |-> conf'.cce, cls |-> conf'.cls, cle |-> conf'.cle],
           newconf' = [cce |-> newconf'.cce, cls |-> newconf'.cls, cle |-> newconf'.cle],
           ConnectTree(conf'.cce), SocketTrees(conf'.cls, conf'.cle),
           ConnectTree(newconf'.cce), SocketTrees(newconf'.cls, newconf'.cle)
    PROVE  Trees'
<1>1. IsConf(conf') /\ IsConf(newconf')
  BY DEF IsConf
<1>2. IsConf(conf)' <=> IsConf(conf')
  BY DEF IsConf, ConnectTree, SocketTrees, IsConnectEntry, IsListenEntry
<1>3. IsConf(newconf)' <=> IsConf(newconf')
  BY DEF IsConf, ConnectTree, SocketTrees, IsConnectEntry, IsListenEntry
<1> QED BY <1>1, <1>2, <1>3 DEF Trees

---------------------------------------------------------------------------
(* What ConfigSwitch sees of a step.                                       *)

Running == Connecting(tcs) \cup Listening(tles)

(* A peer is served when an entry for it is registered. *)
LEMMA RunningPeers ==
    ASSUME NEW e
    PROVE  e \in Running <=> \/ \E a \in tcs : e = ConnectPeer(a)
                             \/ \E a \in tles : e = ListenPeer(a)
BY PeerSets DEF Running

LEMMA RunningPeersPrime ==
    ASSUME NEW e
    PROVE  e \in Running' <=> \/ \E a \in tcs' : e = ConnectPeer(a)
                              \/ \E a \in tles' : e = ListenPeer(a)
<1>1. Running' = Connecting(tcs') \cup Listening(tles')
  BY DEF Running, Connecting, Listening
<1> QED BY <1>1, PeerSets

SwitchStep == [Switch!Next]_(Switch!vars)

LEMMA IsChange ==
    ASSUME state \in {"connect_entries", "listening_sockets"}, state' = state, goal' = goal,
           \A e \in Running : e \in goal => e \in Running',
           \A e \in Running' : e \in Running \/ e \in goal,
           refused \subseteq refused',
           \A e \in refused' : e \in goal /\ e \notin Running',
           \A e \in refused' \ refused : Switch!CannotStart(e, Running')
    PROVE  SwitchStep
BY DEF SwitchStep, Switch!Next, Switch!Change, Switch!Refusals, Running, Connecting, Listening

LEMMA IsExit ==
    ASSUME state' \notin {"connect_entries", "listening_sockets"},
           tcs' = {}, tles' = {}, goal' = {}, refused' = {}
    PROVE  SwitchStep
BY DEF SwitchStep, Switch!Next, Switch!Exit, Connecting, Listening

---------------------------------------------------------------------------
(* The walk over the connect entries.                                      *)

(* It leaves what concerns listening as it is. *)
LEMMA ListensFrame ==
    ASSUME IInv, state = "connect_entries", UNCHANGED <<state, sock, inner, tls, tles, goal, refused>>,
           conf'.cls = conf.cls, conf'.cle = conf.cle,
           newconf'.cls = newconf.cls, newconf'.cle = newconf.cle
    PROVE  /\ ListensWalked' /\ Refused' /\ InHand'
           /\ tls' = conf'.cls /\ tles' \subseteq conf'.cle
<1>1. /\ \A k : AddrPending(k) /\ AddrPending(k)'
      /\ \A k, n : ListenPending(k, n) /\ ListenPending(k, n)'
  BY DEF AddrPending, ListenPending
<1>2. Addrs(conf'.cls) = Addrs(conf.cls) /\ Addrs(conf.cls)' = Addrs(conf'.cls)
  BY DEF Addrs
<1>3. ListensWalked'
  BY <1>1, <1>2 DEF IInv, ListensWalked, ListenPeer
<1>4. Refused'
  BY <1>1, <1>2 DEF IInv, Refused, ListenPeer
<1>5. InHand'
  BY DEF IInv, InHand, Phases
<1> QED BY <1>3, <1>4, <1>5 DEF IInv, Registered

(* What the three callbacks have in common: the entries of one name in the *)
(* two trees, if they differ, change places.                               *)
ConnectSwap(n, old, new) ==
    /\ state = "connect_entries" /\ n \in todo /\ todo' = todo \ {n}
    /\ UNCHANGED <<state, sock, inner, tls, tles, goal, refused>>
    /\ old = {a \in conf.cce : a.name = n} /\ new = {b \in newconf.cce : b.name = n}
    /\ \A a \in old, b \in new : a.val # b.val
    /\ conf' = [cce |-> (conf.cce \ old) \cup new, cls |-> conf.cls, cle |-> conf.cle]
    /\ newconf' = [cce |-> (newconf.cce \ new) \cup old, cls |-> newconf.cls, cle |-> newconf.cle]
    /\ tcs' = (tcs \ old) \cup new

LEMMA SwapEffect ==
    ASSUME NEW n, NEW old, NEW new, ConnectSwap(n, old, new)
    PROVE  /\ conf' = [cce |-> conf'.cce, cls |-> conf'.cls, cle |-> conf'.cle]
           /\ newconf' = [cce |-> newconf'.cce, cls |-> newconf'.cls, cle |-> newconf'.cle]
           /\ conf'.cce = (conf.cce \ old) \cup new
           /\ conf'.cls = conf.cls /\ conf'.cle = conf.cle
           /\ newconf'.cce = (newconf.cce \ new) \cup old
           /\ newconf'.cls = newconf.cls /\ newconf'.cle = newconf.cle
BY DEF ConnectSwap

LEMMA SwapTrees ==
    ASSUME IInv, NEW n, NEW old, NEW new, ConnectSwap(n, old, new)
    PROVE  Trees'
<1>1. ConnectTree(conf.cce) /\ ConnectTree(newconf.cce)
  BY DEF IInv, Trees, IsConf
<1>2. old = {a \in conf.cce : a.name = n} /\ new = {b \in newconf.cce : b.name = n}
  BY DEF ConnectSwap
<1>3. ConnectTree((conf.cce \ old) \cup new) /\ ConnectTree((newconf.cce \ new) \cup old)
  BY <1>1, <1>2 DEF ConnectTree
<1>4. SocketTrees(conf.cls, conf.cle) /\ SocketTrees(newconf.cls, newconf.cle)
  BY DEF IInv, Trees, IsConf
<1>5. /\ conf' = [cce |-> conf'.cce, cls |-> conf'.cls, cle |-> conf'.cle]
      /\ newconf' = [cce |-> newconf'.cce, cls |-> newconf'.cls, cle |-> newconf'.cle]
  BY SwapEffect
<1>6. /\ conf'.cce = (conf.cce \ old) \cup new /\ newconf'.cce = (newconf.cce \ new) \cup old
      /\ conf'.cls = conf.cls /\ conf'.cle = conf.cle
      /\ newconf'.cls = newconf.cls /\ newconf'.cle = newconf.cle
  BY SwapEffect
<1>7. /\ ConnectTree(conf'.cce) /\ SocketTrees(conf'.cls, conf'.cle)
      /\ ConnectTree(newconf'.cce) /\ SocketTrees(newconf'.cls, newconf'.cle)
  BY <1>3, <1>4, <1>6
<1> QED BY <1>5, <1>7, TreesPrime

(* Of the name in hand goal has what newconf has. *)
LEMMA SwapGoal ==
    ASSUME IInv, NEW n, NEW old, NEW new, ConnectSwap(n, old, new)
    PROVE  /\ \A e \in goal : e.at = NULL /\ e.name = n => \E b \in new : e = ConnectPeer(b)
           /\ \A b \in new : ConnectPeer(b) \in goal /\ b.name = n
<1>1. /\ n \in todo /\ \A m : ConnectPending(m) <=> m \in todo
      /\ new = {b \in newconf.cce : b.name = n}
  BY DEF ConnectSwap, ConnectPending
<1>2. \A b \in new : b.name = n /\ ConnectPeer(b) \in goal
  BY <1>1 DEF IInv, ConnectsWalked
<1>3. ASSUME NEW e \in goal, e.at = NULL, e.name = n
      PROVE  \E b \in new : e = ConnectPeer(b)
  <2>1. PICK b \in newconf.cce : e = ConnectPeer(b)
    BY <1>1, <1>3 DEF IInv, ConnectsWalked
  <2>2. b.name = n
    BY <1>3, <2>1, ConnectFields
  <2> QED BY <1>1, <2>1, <2>2
<1> QED BY <1>2, <1>3

LEMMA SwapWalked ==
    ASSUME IInv, NEW n, NEW old, NEW new, ConnectSwap(n, old, new)
    PROVE  ConnectsWalked'
<1>1. /\ \A m : ConnectPending(m) <=> m \in todo
      /\ \A m : ConnectPending(m)' <=> m \in todo /\ m # n
      /\ old = {a \in conf.cce : a.name = n} /\ new = {b \in newconf.cce : b.name = n}
      /\ goal' = goal
  BY DEF ConnectSwap, ConnectPending
<1>2. conf'.cce = (conf.cce \ old) \cup new /\ newconf'.cce = (newconf.cce \ new) \cup old
  BY SwapEffect
<1>3. ASSUME NEW a \in conf'.cce PROVE ConnectPending(a.name)' \/ ConnectPeer(a) \in goal
  BY <1>1, <1>2, SwapGoal DEF IInv, ConnectsWalked
<1>4. ASSUME NEW b \in newconf'.cce, ConnectPending(b.name)' PROVE ConnectPeer(b) \in goal
  BY <1>1, <1>2, <1>4 DEF IInv, ConnectsWalked
<1>5. ASSUME NEW e \in goal, e.at = NULL, ConnectPending(e.name)'
      PROVE  \E b \in newconf'.cce : e = ConnectPeer(b)
  <2>1. PICK b \in newconf.cce : e = ConnectPeer(b)
    BY <1>1, <1>5 DEF IInv, ConnectsWalked
  <2>2. b.name # n
    BY <1>1, <1>5, <2>1, ConnectFields
  <2> QED BY <1>1, <1>2, <2>1, <2>2
<1>6. ASSUME NEW e \in goal, e.at = NULL, ~ ConnectPending(e.name)'
      PROVE  \E a \in conf'.cce : e = ConnectPeer(a)
  <2>1. CASE e.name = n
    BY <1>2, <1>6, <2>1, SwapGoal
  <2>2. CASE e.name # n
    <3>1. PICK a \in conf.cce : e = ConnectPeer(a)
      BY <1>1, <1>6, <2>2 DEF IInv, ConnectsWalked
    <3>2. a.name # n
      BY <2>2, <3>1, ConnectFields
    <3> QED BY <1>1, <1>2, <3>1, <3>2
  <2> QED BY <2>1, <2>2
<1> QED BY <1>1, <1>3, <1>4, <1>5, <1>6 DEF ConnectsWalked, ConnectPeer

LEMMA SwapSwitch ==
    ASSUME IInv, NEW n, NEW old, NEW new, ConnectSwap(n, old, new)
    PROVE  SwitchStep
<1>1. /\ state = "connect_entries" /\ UNCHANGED <<state, goal, refused>> /\ tles' = tles
      /\ tcs' = (tcs \ old) \cup new
      /\ \A a \in old : a.name = n /\ \A b \in new : a.val # b.val
  BY DEF ConnectSwap
<1>2. ASSUME NEW e \in Running, e \in goal PROVE e \in Running'
  <2>1. CASE \E a \in tles : e = ListenPeer(a)
    BY <1>1, <2>1, RunningPeersPrime
  <2>2. CASE \E a \in tcs : e = ConnectPeer(a)
    <3>1. PICK a \in tcs : e = ConnectPeer(a)
      BY <2>2
    <3>2. CASE a \in old
      <4>1. PICK b \in new : e = ConnectPeer(b)
        BY <1>1, <1>2, <3>1, <3>2, SwapGoal, ConnectFields
      <4>2. a.val = b.val
        BY <3>1, <4>1, PeersEqual
      <4> QED BY <1>1, <3>2, <4>2
    <3>3. CASE a \notin old
      BY <1>1, <3>1, <3>3, RunningPeersPrime
    <3> QED BY <3>2, <3>3
  <2> QED BY <2>1, <2>2, RunningPeers
<1>3. ASSUME NEW e \in Running' PROVE e \in Running \/ e \in goal
  BY <1>1, SwapGoal, RunningPeers, RunningPeersPrime
<1>4. ASSUME NEW e \in refused PROVE e \in goal /\ e \notin Running'
  <2>1. e \in goal /\ e.at # NULL /\ \A a \in tles : e # ListenPeer(a)
    BY DEF IInv, Refused
  <2> QED BY <1>1, <2>1, RunningPeersPrime, ConnectFields
<1> QED BY <1>1, <1>2, <1>3, <1>4, IsChange

LEMMA SwapIInv ==
    ASSUME IInv, NEW n, NEW old, NEW new, ConnectSwap(n, old, new)
    PROVE  IInv'
<1>1. /\ state = "connect_entries" /\ UNCHANGED <<state, sock, inner, tls, tles, goal, refused>>
      /\ tcs' = (tcs \ old) \cup new
  BY DEF ConnectSwap
<1>2. /\ conf'.cce = (conf.cce \ old) \cup new
      /\ conf'.cls = conf.cls /\ conf'.cle = conf.cle
      /\ newconf'.cls = newconf.cls /\ newconf'.cle = newconf.cle
  BY SwapEffect
<1>3. ListensWalked' /\ Refused' /\ InHand' /\ tls' = conf'.cls /\ tles' \subseteq conf'.cle
  BY <1>1, <1>2, ListensFrame
<1>4. Phases'
  BY <1>1 DEF IInv, Phases
<1>5. Registered'
  BY <1>1, <1>2, <1>3 DEF IInv, Registered
<1> QED BY <1>3, <1>4, <1>5, SwapTrees, SwapWalked DEF IInv

(* cce_mod() of two equal entries: the key is done. *)
LEMMA ConnectKept ==
    ASSUME IInv, state = "connect_entries", NEW n \in todo, todo' = todo \ {n},
           UNCHANGED <<state, conf, newconf, sock, inner, regs, goal, refused>>,
           NEW a \in conf.cce, a.name = n, NEW b \in newconf.cce, b.name = n, a.val = b.val
    PROVE  IInv' /\ SwitchStep
<1>1. UNCHANGED <<state, conf, newconf, sock, inner, tcs, tls, tles, goal, refused>>
  BY DEF regs
<1>2. /\ \A m : ConnectPending(m) <=> m \in todo
      /\ \A m : ConnectPending(m)' <=> m \in todo /\ m # n
  BY DEF ConnectPending
<1>3. ConnectPeer(a) \in goal /\ ConnectPeer(a) = ConnectPeer(b)
  BY <1>2, PeersEqual DEF IInv, ConnectsWalked
<1>4. \A c \in conf.cce : c.name = n => c = a
  BY DEF IInv, Trees, IsConf, ConnectTree
<1>5. \A c \in newconf.cce : c.name = n => c = b
  BY DEF IInv, Trees, IsConf, ConnectTree
<1>6. ConnectsWalked'
  <2>1. ASSUME NEW c \in conf.cce PROVE ConnectPending(c.name)' \/ ConnectPeer(c) \in goal
    BY <1>2, <1>3, <1>4 DEF IInv, ConnectsWalked
  <2>2. ASSUME NEW c \in newconf.cce, ConnectPending(c.name)' PROVE ConnectPeer(c) \in goal
    BY <1>2, <2>2 DEF IInv, ConnectsWalked
  <2>3. ASSUME NEW e \in goal, e.at = NULL, ConnectPending(e.name)'
        PROVE  \E c \in newconf.cce : e = ConnectPeer(c)
    BY <1>2, <2>3 DEF IInv, ConnectsWalked
  <2>4. ASSUME NEW e \in goal, e.at = NULL, ~ ConnectPending(e.name)'
        PROVE  \E c \in conf.cce : e = ConnectPeer(c)
    <3>1. CASE e.name = n
      <4>1. PICK c \in newconf.cce : e = ConnectPeer(c)
        BY <1>2, <2>4, <3>1 DEF IInv, ConnectsWalked
      <4>2. c = b
        BY <1>5, <3>1, <4>1, ConnectFields
      <4> QED BY <1>3, <4>1, <4>2
    <3>2. CASE e.name # n
      BY <1>2, <2>4, <3>2 DEF IInv, ConnectsWalked
    <3> QED BY <3>1, <3>2
  <2>5. UNCHANGED <<conf, newconf, goal>>
    BY <1>1
  <2> QED BY <2>1, <2>2, <2>3, <2>4, <2>5 DEF ConnectsWalked, ConnectPeer
<1>7. ListensWalked' /\ Refused' /\ InHand'
  BY <1>1, ListensFrame
<1>8. Trees' /\ Phases' /\ Registered'
  BY <1>1 DEF IInv, Trees, Phases, Registered, IsConf, ConnectTree, SocketTrees,
              IsConnectEntry, IsListenEntry
<1>9. SwitchStep
  BY <1>1 DEF SwitchStep, Switch!vars, Connecting, Listening
<1> QED BY <1>6, <1>7, <1>8, <1>9 DEF IInv

LEMMA DiffConnectStep ==
    ASSUME IInv, DiffConnect
    PROVE  IInv' /\ SwitchStep
<1>1. PICK n \in todo :
        /\ todo' = todo \ {n}
        /\ \/ \E b \in newconf.cce : b.name = n /\ n \notin Names(conf.cce) /\ cce_add(b)
           \/ \E a \in conf.cce, b \in newconf.cce : a.name = n /\ b.name = n /\ cce_mod(a, b)
           \/ \E a \in conf.cce : a.name = n /\ n \notin Names(newconf.cce) /\ cce_del(a)
  BY DEF DiffConnect
<1>2. state = "connect_entries" /\ UNCHANGED <<state, sock, inner, tls, tles, goal, refused>>
  BY DEF DiffConnect
<1>3. IsConf(conf) /\ IsConf(newconf)
  BY DEF IInv, Trees
<1>4. /\ \A a, b \in conf.cce : a.name = b.name => a = b
      /\ \A a, b \in newconf.cce : a.name = b.name => a = b
      /\ \A a \in conf.cce : IsConnectEntry(a)
      /\ \A a \in newconf.cce : IsConnectEntry(a)
  BY <1>3 DEF IsConf, ConnectTree
<1>5. /\ \A a \in conf.cce : a.name \in Names(conf.cce)
      /\ \A a \in newconf.cce : a.name \in Names(newconf.cce)
  BY DEF Names
<1>6. \A c, X : IsConf(c) =>
        [c EXCEPT !.cce = X] = [cce |-> X, cls |-> c.cls, cle |-> c.cle]
  BY ConfFields
<1>7. ASSUME NEW b \in newconf.cce, b.name = n, n \notin Names(conf.cce), cce_add(b)
      PROVE  ConnectSwap(n, {}, {b})
  <2>1. {} = {a \in conf.cce : a.name = n} /\ {b} = {c \in newconf.cce : c.name = n}
    BY <1>4, <1>5, <1>7
  <2>2. conf' = [cce |-> (conf.cce \ {}) \cup {b}, cls |-> conf.cls, cle |-> conf.cle]
    <3>1. conf' = [conf EXCEPT !.cce = conf.cce \cup {b}]
      BY <1>7 DEF cce_add
    <3>2. conf.cce \cup {b} = (conf.cce \ {}) \cup {b}
      OBVIOUS
    <3> QED BY <1>3, <1>6, <3>1, <3>2
  <2>3. newconf' = [cce |-> (newconf.cce \ {b}) \cup {}, cls |-> newconf.cls, cle |-> newconf.cle]
    <3>1. newconf' = [newconf EXCEPT !.cce = newconf.cce \ {b}]
      BY <1>7 DEF cce_add
    <3>2. newconf.cce \ {b} = (newconf.cce \ {b}) \cup {}
      OBVIOUS
    <3> QED BY <1>3, <1>6, <3>1, <3>2
  <2>4. tcs' = (tcs \ {}) \cup {b}
    BY <1>7 DEF cce_add
  <2> QED BY <1>1, <1>2, <2>1, <2>2, <2>3, <2>4 DEF ConnectSwap
<1>8. ASSUME NEW a \in conf.cce, NEW b \in newconf.cce, a.name = n, b.name = n,
             cce_mod(a, b), ~ SameConnect(a, b)
      PROVE  ConnectSwap(n, {a}, {b})
  <2>1. {a} = {c \in conf.cce : c.name = n} /\ {b} = {c \in newconf.cce : c.name = n}
    BY <1>4, <1>8
  <2>2. conf' = [cce |-> (conf.cce \ {a}) \cup {b}, cls |-> conf.cls, cle |-> conf.cle]
    <3>1. conf' = [conf EXCEPT !.cce = (conf.cce \ {a}) \cup {b}]
      BY <1>8 DEF cce_mod
    <3> QED BY <1>3, <1>6, <3>1
  <2>3. newconf' = [cce |-> (newconf.cce \ {b}) \cup {a}, cls |-> newconf.cls, cle |-> newconf.cle]
    <3>1. newconf' = [newconf EXCEPT !.cce = (newconf.cce \ {b}) \cup {a}]
      BY <1>8 DEF cce_mod
    <3> QED BY <1>3, <1>6, <3>1
  <2>4. tcs' = (tcs \ {a}) \cup {b}
    BY <1>8 DEF cce_mod
  <2>5. a.val # b.val
    BY <1>4, <1>8, SameConnectVal
  <2> QED BY <1>1, <1>2, <2>1, <2>2, <2>3, <2>4, <2>5 DEF ConnectSwap
<1>9. ASSUME NEW a \in conf.cce, a.name = n, n \notin Names(newconf.cce), cce_del(a)
      PROVE  ConnectSwap(n, {a}, {})
  <2>1. {a} = {c \in conf.cce : c.name = n} /\ {} = {c \in newconf.cce : c.name = n}
    BY <1>4, <1>5, <1>9
  <2>2. conf' = [cce |-> (conf.cce \ {a}) \cup {}, cls |-> conf.cls, cle |-> conf.cle]
    <3>1. conf' = [conf EXCEPT !.cce = conf.cce \ {a}]
      BY <1>9 DEF cce_del
    <3>2. conf.cce \ {a} = (conf.cce \ {a}) \cup {}
      OBVIOUS
    <3> QED BY <1>3, <1>6, <3>1, <3>2
  <2>3. newconf' = [cce |-> (newconf.cce \ {}) \cup {a}, cls |-> newconf.cls, cle |-> newconf.cle]
    <3>1. newconf' = [newconf EXCEPT !.cce = newconf.cce \cup {a}]
      BY <1>9 DEF cce_del
    <3>2. newconf.cce \cup {a} = (newconf.cce \ {}) \cup {a}
      OBVIOUS
    <3> QED BY <1>3, <1>6, <3>1, <3>2
  <2>4. tcs' = (tcs \ {a}) \cup {}
    BY <1>9 DEF cce_del
  <2> QED BY <1>1, <1>2, <2>1, <2>2, <2>3, <2>4 DEF ConnectSwap
<1>10. ASSUME NEW a \in conf.cce, NEW b \in newconf.cce, a.name = n, b.name = n,
              cce_mod(a, b), SameConnect(a, b)
       PROVE  IInv' /\ SwitchStep
  <2>1. UNCHANGED <<state, conf, newconf, sock, inner, regs, goal, refused>>
    BY <1>2, <1>10 DEF cce_mod, regs
  <2>2. a.val = b.val
    BY <1>4, <1>10, SameConnectVal
  <2> QED BY <1>1, <1>2, <1>10, <2>1, <2>2, ConnectKept
<1> QED BY <1>1, <1>7, <1>8, <1>9, <1>10, SwapIInv, SwapSwitch

(* diff_configs() goes on to the sockets. *)
LEMMA ConnectsDoneStep ==
    ASSUME IInv, ConnectsDone
    PROVE  IInv' /\ SwitchStep
<1>1. /\ state = "connect_entries" /\ todo = {} /\ state' = "listening_sockets"
      /\ todo' = Addrs(conf.cls) \cup Addrs(newconf.cls)
      /\ UNCHANGED <<conf, newconf, sock, inner, tcs, tls, tles, goal, refused>>
  BY DEF ConnectsDone, regs
<1>2. /\ \A n : ~ ConnectPending(n) /\ ~ ConnectPending(n)'
      /\ \A k : AddrPending(k) /\ (AddrPending(k)' <=> k \in todo')
      /\ \A k, n : ListenPending(k, n) /\ (k \in todo' => ListenPending(k, n)')
      /\ sock = NULL /\ inner = {}
      /\ \A k, n : ListenPending(k, n)' => k \in todo'
  BY <1>1 DEF IInv, Phases, ConnectPending, AddrPending, ListenPending
<1>3. /\ \A a \in conf.cle : a.cls.addr \in todo'
      /\ \A a \in newconf.cle : a.cls.addr \in todo'
  BY <1>1 DEF IInv, Trees, IsConf, SocketTrees, Addrs
<1>4. ConnectsWalked'
  BY <1>1, <1>2 DEF IInv, ConnectsWalked, ConnectPeer
<1>5. ListensWalked'
  <2>1. \A a \in conf.cle : ListenPending(a.cls.addr, a.name)' \/ ListenPeer(a) \in goal
    BY <1>2, <1>3
  <2>2. \A b \in newconf.cle : ListenPeer(b) \in goal
    BY <1>2 DEF IInv, ListensWalked
  <2>3. ASSUME NEW e \in goal, e.at # NULL
        PROVE  ListenPending(e.at, e.name)' /\ \E b \in newconf.cle : e = ListenPeer(b)
    <3>1. PICK b \in newconf.cle : e = ListenPeer(b)
      BY <1>2, <2>3 DEF IInv, ListensWalked
    <3> QED BY <1>2, <1>3, <3>1, ListenFields
  <2> QED BY <1>1, <2>1, <2>2, <2>3 DEF ListensWalked, ListenPeer
<1>6. Refused'
  <2>1. \A e \in refused : \E a \in conf.cle : e = ListenPeer(a)
    BY <1>2 DEF IInv, Refused
  <2> QED BY <1>1, <2>1 DEF IInv, Refused, ListenPeer
<1>7. Phases' /\ Registered' /\ InHand'
  BY <1>1, <1>2 DEF IInv, Phases, Registered, InHand
<1>8. Trees'
  BY <1>1 DEF IInv, Trees, IsConf, ConnectTree, SocketTrees, IsConnectEntry, IsListenEntry
<1>9. SwitchStep
  BY <1>1 DEF SwitchStep, Switch!vars, Connecting, Listening
<1> QED BY <1>4, <1>5, <1>6, <1>7, <1>8, <1>9 DEF IInv

---------------------------------------------------------------------------
(* The walk over the listening sockets.                                    *)

(* It leaves what concerns connecting as it is. *)
LEMMA ConnectsFrame ==
    ASSUME IInv, state = "listening_sockets", UNCHANGED <<state, goal>>,
           conf'.cce = conf.cce, newconf'.cce = newconf.cce
    PROVE  ConnectsWalked' /\ ConnectTree(conf'.cce) /\ ConnectTree(newconf'.cce)
<1>1. \A n : ~ ConnectPending(n) /\ ~ ConnectPending(n)'
  BY DEF ConnectPending
<1>2. ConnectsWalked'
  BY <1>1 DEF IInv, ConnectsWalked, ConnectPeer
<1>3. ConnectTree(conf'.cce) /\ ConnectTree(newconf'.cce)
  BY DEF IInv, Trees, IsConf
<1> QED BY <1>2, <1>3

(* The keys in the two configurations while no socket is in hand. *)
LEMMA BetweenSockets ==
    ASSUME IInv, state = "listening_sockets", sock = NULL
    PROVE  /\ inner = {}
           /\ \A k : AddrPending(k) <=> k \in todo
           /\ \A k, n : ListenPending(k, n) <=> k \in todo
BY DEF IInv, Phases, AddrPending, ListenPending

LEMMA BetweenSocketsPrime ==
    ASSUME state' = "listening_sockets", inner' = {}
    PROVE  /\ \A k : AddrPending(k)' <=> k \in todo'
           /\ \A k, n : ListenPending(k, n)' <=> k \in todo'
BY DEF AddrPending, ListenPending

(* What the trees of sockets say of the entries. *)
LEMMA SocketFacts ==
    ASSUME NEW c, IsConf(c)
    PROVE  /\ \A r, s \in c.cls : r.addr = s.addr => r = s
           /\ \A s \in c.cls : s.addr # NULL
           /\ \A a \in c.cle : IsListenEntry(a) /\ a.cls \in c.cls
           /\ \A a, b \in c.cle : a.cls = b.cls /\ a.name = b.name => a = b
BY DEF IsConf, SocketTrees

(* Every entry of a tree has the fingerprint of one that is first. *)
LEMMA FirstExists ==
    ASSUME NEW E, \A a \in E : a.name \in Nat, NEW a \in E
    PROVE  \E b \in FirstOfFp(E) : b.val.fp = a.val.fp
<1> DEFINE S == {b.name : b \in {c \in E : c.val.fp = a.val.fp}}
<1>1. S \subseteq Nat /\ S # {}
  OBVIOUS
<1>2. PICK n \in S : \A m \in S : n <= m
  <2> HIDE DEF S
  <2> QED BY <1>1, FirstName
<1>3. PICK b \in E : b.val.fp = a.val.fp /\ b.name = n
  OBVIOUS
<1>4. \A c \in E : b.val.fp = c.val.fp => b.name <= c.name
  BY <1>2, <1>3
<1> QED BY <1>3, <1>4 DEF FirstOfFp

(* cls_add() of a socket that opens. *)
SocketOpened(k, b, E) ==
    /\ state = "listening_sockets" /\ sock = NULL /\ k \in todo /\ todo' = todo \ {k}
    /\ b \in newconf.cls /\ b.addr = k /\ \A a \in conf.cls : a.addr # k
    /\ E = {a \in newconf.cle : a.cls = b}
    /\ conf' = [cce |-> conf.cce, cls |-> conf.cls \cup {b}, cle |-> conf.cle \cup E]
    /\ newconf' = [cce |-> newconf.cce, cls |-> newconf.cls \ {b}, cle |-> newconf.cle \ E]
    /\ tls' = tls \cup {b} /\ tles' = tles \cup FirstOfFp(E)
    /\ refused' = refused \cup {ListenPeer(a) : a \in E \ FirstOfFp(E)}
    /\ UNCHANGED <<state, sock, inner, tcs, goal>>

LEMMA OpenedEffect ==
    ASSUME NEW k, NEW b, NEW E, SocketOpened(k, b, E)
    PROVE  /\ conf' = [cce |-> conf'.cce, cls |-> conf'.cls, cle |-> conf'.cle]
           /\ newconf' = [cce |-> newconf'.cce, cls |-> newconf'.cls, cle |-> newconf'.cle]
           /\ conf'.cce = conf.cce /\ newconf'.cce = newconf.cce
           /\ conf'.cls = conf.cls \cup {b} /\ conf'.cle = conf.cle \cup E
           /\ newconf'.cls = newconf.cls \ {b} /\ newconf'.cle = newconf.cle \ E
BY DEF SocketOpened

(* The peers of the socket are those goal has at its address, and conf has *)
(* none there.                                                             *)
LEMMA OpenedGoal ==
    ASSUME IInv, NEW k, NEW b, NEW E, SocketOpened(k, b, E)
    PROVE  /\ \A a \in E : ListenPeer(a) \in goal /\ a.cls = b /\ a.cls.addr = k /\ a.name \in Nat
           /\ \A e \in goal : e.at = k => \E a \in E : e = ListenPeer(a)
           /\ \A a \in conf.cle : a.cls.addr # k
           /\ \A e \in refused : e.at # k
           /\ k # NULL
<1>1. /\ IsConf(conf) /\ IsConf(newconf)
      /\ k \in todo /\ b \in newconf.cls /\ b.addr = k /\ \A a \in conf.cls : a.addr # k
      /\ E = {a \in newconf.cle : a.cls = b}
      /\ state = "listening_sockets" /\ sock = NULL
  BY DEF IInv, Trees, SocketOpened
<1>2. \A n : AddrPending(k) /\ ListenPending(k, n)
  BY <1>1, BetweenSockets
<1>3. k # NULL /\ \A a \in conf.cle : a.cls.addr # k
  BY <1>1, SocketFacts
<1>4. \A a \in E : ListenPeer(a) \in goal /\ a.cls = b /\ a.cls.addr = k
  BY <1>1, <1>2 DEF IInv, ListensWalked
<1>5. \A a \in E : a.name \in Nat
  BY <1>1, SocketFacts DEF IsListenEntry
<1>6. ASSUME NEW e \in goal, e.at = k
      PROVE  \E a \in E : e = ListenPeer(a)
  <2>1. PICK a \in newconf.cle : e = ListenPeer(a)
    BY <1>2, <1>3, <1>6 DEF IInv, ListensWalked
  <2>2. a.cls \in newconf.cls /\ a.cls.addr = b.addr
    BY <1>1, <1>6, <2>1, SocketFacts, ListenFields
  <2>3. a.cls = b
    BY <1>1, <2>2, SocketFacts
  <2> QED BY <1>1, <2>1, <2>3
<1>7. ASSUME NEW e \in refused, e.at = k PROVE FALSE
  <2>1. PICK a \in conf.cle : e = ListenPeer(a)
    BY <1>2, <1>7 DEF IInv, Refused
  <2> QED BY <1>3, <1>7, <2>1, ListenFields
<1> QED BY <1>3, <1>4, <1>5, <1>6, <1>7

LEMMA OpenedTrees ==
    ASSUME IInv, NEW k, NEW b, NEW E, SocketOpened(k, b, E)
    PROVE  Trees'
<1>1. /\ b \in newconf.cls /\ \A a \in conf.cls : a.addr # b.addr
      /\ E = {a \in newconf.cle : a.cls = b}
      /\ state = "listening_sockets" /\ UNCHANGED <<state, goal>>
  BY DEF SocketOpened
<1>2. SocketTrees(conf.cls, conf.cle) /\ SocketTrees(newconf.cls, newconf.cle)
  BY DEF IInv, Trees, IsConf
<1>3. SocketTrees(conf.cls \cup {b}, conf.cle \cup E)
  BY <1>1, <1>2 DEF SocketTrees
<1>4. SocketTrees(newconf.cls \ {b}, newconf.cle \ E)
  BY <1>1, <1>2 DEF SocketTrees
<1>5. /\ conf' = [cce |-> conf'.cce, cls |-> conf'.cls, cle |-> conf'.cle]
      /\ newconf' = [cce |-> newconf'.cce, cls |-> newconf'.cls, cle |-> newconf'.cle]
  BY OpenedEffect
<1>6. /\ conf'.cls = conf.cls \cup {b} /\ conf'.cle = conf.cle \cup E
      /\ newconf'.cls = newconf.cls \ {b} /\ newconf'.cle = newconf.cle \ E
      /\ conf'.cce = conf.cce /\ newconf'.cce = newconf.cce
  BY OpenedEffect
<1>7. ConnectTree(conf'.cce) /\ ConnectTree(newconf'.cce)
  BY <1>1, <1>6, ConnectsFrame
<1>8. SocketTrees(conf'.cls, conf'.cle) /\ SocketTrees(newconf'.cls, newconf'.cle)
  BY <1>3, <1>4, <1>6
<1> QED BY <1>5, <1>7, <1>8, TreesPrime

LEMMA OpenedWalked ==
    ASSUME IInv, NEW k, NEW b, NEW E, SocketOpened(k, b, E)
    PROVE  ListensWalked'
<1>1. /\ state = "listening_sockets" /\ sock = NULL /\ state' = state /\ inner' = inner
      /\ todo' = todo \ {k} /\ goal' = goal /\ refused \subseteq refused' /\ b.addr = k
  BY DEF SocketOpened
<1>2. /\ \A j, n : ListenPending(j, n) <=> j \in todo
      /\ \A j, n : ListenPending(j, n)' <=> j \in todo /\ j # k
  BY <1>1, BetweenSockets, BetweenSocketsPrime
<1>3. /\ conf'.cls = conf.cls \cup {b} /\ conf'.cle = conf.cle \cup E
      /\ newconf'.cle = newconf.cle \ E
  BY OpenedEffect
<1>4. ASSUME NEW a \in conf'.cle
      PROVE  ListenPending(a.cls.addr, a.name)' \/ ListenPeer(a) \in goal
  <2>1. CASE a \in E
    BY <2>1, OpenedGoal
  <2>2. CASE a \in conf.cle
    BY <1>2, <2>2, OpenedGoal DEF IInv, ListensWalked
  <2> QED BY <1>3, <2>1, <2>2
<1>5. ASSUME NEW a \in newconf'.cle, ListenPending(a.cls.addr, a.name)'
      PROVE  ListenPeer(a) \in goal
  BY <1>2, <1>3, <1>5 DEF IInv, ListensWalked
<1>6. ASSUME NEW e \in goal, e.at # NULL, ListenPending(e.at, e.name)'
      PROVE  \E a \in newconf'.cle : e = ListenPeer(a)
  <2>1. PICK a \in newconf.cle : e = ListenPeer(a)
    BY <1>2, <1>6 DEF IInv, ListensWalked
  <2>2. a.cls.addr # k
    BY <1>2, <1>6, <2>1, ListenFields
  <2> QED BY <1>3, <2>1, <2>2, OpenedGoal
<1>7. ASSUME NEW e \in goal, e.at # NULL, ~ ListenPending(e.at, e.name)'
      PROVE  \/ \E a \in conf'.cle : e = ListenPeer(a)
             \/ e \in refused' /\ e.at \notin Addrs(conf'.cls)
  <2>1. CASE e.at = k
    BY <1>3, <2>1, OpenedGoal
  <2>2. CASE e.at # k
    <3>1. \/ \E a \in conf.cle : e = ListenPeer(a)
          \/ e \in refused /\ e.at \notin Addrs(conf.cls)
      BY <1>2, <1>7, <2>2 DEF IInv, ListensWalked
    <3>2. e.at \notin Addrs(conf.cls) => e.at \notin Addrs(conf'.cls)
      BY <1>1, <1>3, <2>2 DEF Addrs
    <3> QED BY <1>1, <1>3, <3>1, <3>2
  <2> QED BY <2>1, <2>2
<1>8. Addrs(conf.cls)' = Addrs(conf'.cls)
  BY DEF Addrs
<1> QED BY <1>1, <1>4, <1>5, <1>6, <1>7, <1>8 DEF ListensWalked, ListenPeer

LEMMA OpenedRefused ==
    ASSUME IInv, NEW k, NEW b, NEW E, SocketOpened(k, b, E)
    PROVE  Refused'
<1>1. /\ state = "listening_sockets" /\ sock = NULL /\ state' = state /\ inner' = inner
      /\ todo' = todo \ {k} /\ goal' = goal /\ b.addr = k
      /\ tles' = tles \cup FirstOfFp(E)
      /\ refused' = refused \cup {ListenPeer(a) : a \in E \ FirstOfFp(E)}
      /\ E \subseteq newconf.cle
  BY DEF SocketOpened
<1>2. /\ \A j : AddrPending(j) <=> j \in todo
      /\ \A j : AddrPending(j)' <=> j \in todo /\ j # k
  BY <1>1, BetweenSockets, BetweenSocketsPrime
<1>3. conf'.cls = conf.cls \cup {b} /\ conf'.cle = conf.cle \cup E
  BY OpenedEffect
<1>4. FirstOfFp(E) \subseteq E
  BY DEF FirstOfFp
<1>5. \A a, c \in E : ListenPeer(a) = ListenPeer(c) => a = c
  <2>1. \A a, c \in E : a.name = c.name => a = c
    BY <1>1, SocketFacts, OpenedGoal DEF IInv, Trees
  <2> QED BY <2>1, PeersEqual
<1>6. \A e \in refused' : e \in goal /\ e.at # NULL
  BY <1>1, OpenedGoal, ListenFields DEF IInv, Refused
<1>7. ASSUME NEW e \in refused', e.at \in Addrs(conf'.cls) \/ AddrPending(e.at)'
      PROVE  \E a \in conf'.cle : e = ListenPeer(a)
  <2>1. CASE e \in refused
    <3>1. e.at # k
      BY <2>1, OpenedGoal
    <3>2. e.at \in Addrs(conf'.cls) => e.at \in Addrs(conf.cls)
      BY <1>1, <1>3, <3>1 DEF Addrs
    <3> QED BY <1>2, <1>3, <1>7, <2>1, <3>2 DEF IInv, Refused
  <2>2. CASE e \notin refused
    BY <1>1, <1>3, <2>2
  <2> QED BY <2>1, <2>2
<1>8. ASSUME NEW a \in tles', ListenPeer(a) \in refused' PROVE FALSE
  <2>1. CASE a \in tles
    <3>1. ListenPeer(a) \notin refused /\ ListenPeer(a).at # k
      BY <2>1, OpenedGoal, ListenFields DEF IInv, Refused, Registered
    <3> QED BY <1>1, <1>8, <3>1, OpenedGoal, ListenFields
  <2>2. CASE a \in FirstOfFp(E)
    <3>1. a \in E /\ ListenPeer(a).at = k
      BY <1>4, <2>2, OpenedGoal, ListenFields
    <3>2. ListenPeer(a) \notin refused
      BY <3>1, OpenedGoal
    <3> QED BY <1>1, <1>5, <1>8, <2>2, <3>1, <3>2
  <2> QED BY <1>1, <1>8, <2>1, <2>2
<1>9. ASSUME NEW a \in conf'.cle \ tles', ListenPeer(a) \in goal PROVE ListenPeer(a) \in refused'
  BY <1>1, <1>3, <1>9 DEF IInv, Refused
<1>10. Addrs(conf.cls)' = Addrs(conf'.cls)
  BY DEF Addrs
<1> QED BY <1>1, <1>6, <1>7, <1>8, <1>9, <1>10 DEF Refused, ListenPeer

LEMMA OpenedSwitch ==
    ASSUME IInv, NEW k, NEW b, NEW E, SocketOpened(k, b, E)
    PROVE  SwitchStep
<1>1. /\ state = "listening_sockets" /\ UNCHANGED <<state, goal, tcs>>
      /\ tles' = tles \cup FirstOfFp(E)
      /\ refused' = refused \cup {ListenPeer(a) : a \in E \ FirstOfFp(E)}
  BY DEF SocketOpened
<1>2. FirstOfFp(E) \subseteq E
  BY DEF FirstOfFp
<1>3. \A e \in Running : e \in Running'
  BY <1>1, RunningPeers, RunningPeersPrime
<1>4. \A e \in Running' : e \in Running \/ e \in goal
  BY <1>1, <1>2, OpenedGoal, RunningPeers, RunningPeersPrime
<1>5. ASSUME NEW e \in refused' PROVE e \in goal /\ e \notin Running'
  <2>1. /\ e \in goal /\ e.at # NULL /\ \A a \in tles' : e # ListenPeer(a)
    <3>1. Refused'
      BY OpenedRefused
    <3> QED BY <1>1, <3>1 DEF Refused, ListenPeer
  <2> QED BY <2>1, RunningPeersPrime, ConnectFields
<1>6. ASSUME NEW e \in refused' \ refused PROVE Switch!CannotStart(e, Running')
  <2>1. PICK a \in E : e = ListenPeer(a)
    BY <1>1, <1>6
  <2>2. PICK c \in FirstOfFp(E) : c.val.fp = a.val.fp
    BY OpenedGoal, FirstExists
  <2>3. ListenPeer(c) \in Running'
    BY <1>1, RunningPeersPrime
  <2>4. e.at # NULL /\ ListenPeer(c).at = e.at /\ ListenPeer(c).val.fp = e.val.fp
    BY <1>2, <2>1, <2>2, OpenedGoal, ListenFields
  <2> QED BY <2>3, <2>4 DEF Switch!CannotStart
<1> QED BY <1>1, <1>3, <1>4, <1>5, <1>6, IsChange

LEMMA OpenedIInv ==
    ASSUME IInv, NEW k, NEW b, NEW E, SocketOpened(k, b, E)
    PROVE  IInv'
<1>1. /\ state = "listening_sockets" /\ UNCHANGED <<state, sock, inner, tcs, goal>> /\ sock = NULL
      /\ tls' = tls \cup {b} /\ tles' = tles \cup FirstOfFp(E)
  BY DEF SocketOpened
<1>2. /\ conf'.cls = conf.cls \cup {b} /\ conf'.cle = conf.cle \cup E
      /\ conf'.cce = conf.cce /\ newconf'.cce = newconf.cce
  BY OpenedEffect
<1>3. Phases' /\ InHand'
  BY <1>1 DEF IInv, Phases, InHand
<1>4. Registered'
  BY <1>1, <1>2 DEF IInv, Registered, FirstOfFp
<1>5. ConnectsWalked'
  BY <1>1, <1>2, ConnectsFrame
<1> QED BY <1>3, <1>4, <1>5, OpenedTrees, OpenedWalked, OpenedRefused DEF IInv

(* cls_add() of a socket that does not open. *)
SocketLeft(k, b, E) ==
    /\ state = "listening_sockets" /\ sock = NULL /\ k \in todo /\ todo' = todo \ {k}
    /\ b \in newconf.cls /\ b.addr = k /\ \A a \in conf.cls : a.addr # k
    /\ E = {a \in newconf.cle : a.cls = b}
    /\ refused' = refused \cup {ListenPeer(a) : a \in E}
    /\ UNCHANGED <<state, conf, newconf, sock, inner, tcs, tls, tles, goal>>

LEMMA LeftGoal ==
    ASSUME IInv, NEW k, NEW b, NEW E, SocketLeft(k, b, E)
    PROVE  /\ \A a \in E : ListenPeer(a) \in goal /\ a.cls.addr = k
           /\ \A e \in goal : e.at = k => \E a \in E : e = ListenPeer(a)
           /\ \A a \in conf.cle : a.cls.addr # k
           /\ k # NULL
<1>1. /\ IsConf(conf) /\ IsConf(newconf)
      /\ k \in todo /\ b \in newconf.cls /\ b.addr = k /\ \A a \in conf.cls : a.addr # k
      /\ E = {a \in newconf.cle : a.cls = b}
      /\ state = "listening_sockets" /\ sock = NULL
  BY DEF IInv, Trees, SocketLeft
<1>2. \A n : ListenPending(k, n)
  BY <1>1, BetweenSockets
<1>3. k # NULL /\ \A a \in conf.cle : a.cls.addr # k
  BY <1>1, SocketFacts
<1>4. \A a \in E : ListenPeer(a) \in goal /\ a.cls.addr = k
  BY <1>1, <1>2 DEF IInv, ListensWalked
<1>5. ASSUME NEW e \in goal, e.at = k
      PROVE  \E a \in E : e = ListenPeer(a)
  <2>1. PICK a \in newconf.cle : e = ListenPeer(a)
    BY <1>2, <1>3, <1>5 DEF IInv, ListensWalked
  <2>2. a.cls \in newconf.cls /\ a.cls.addr = b.addr
    BY <1>1, <1>5, <2>1, SocketFacts, ListenFields
  <2>3. a.cls = b
    BY <1>1, <2>2, SocketFacts
  <2> QED BY <1>1, <2>1, <2>3
<1> QED BY <1>3, <1>4, <1>5

LEMMA LeftWalked ==
    ASSUME IInv, NEW k, NEW b, NEW E, SocketLeft(k, b, E)
    PROVE  ListensWalked' /\ Refused'
<1>1. /\ state = "listening_sockets" /\ sock = NULL /\ state' = state /\ inner' = inner
      /\ todo' = todo \ {k} /\ goal' = goal /\ conf' = conf /\ newconf' = newconf /\ tles' = tles
      /\ refused' = refused \cup {ListenPeer(a) : a \in E}
  BY DEF SocketLeft
<1>2. /\ \A j : AddrPending(j) <=> j \in todo
      /\ \A j : AddrPending(j)' <=> j \in todo /\ j # k
      /\ \A j, n : ListenPending(j, n) <=> j \in todo
      /\ \A j, n : ListenPending(j, n)' <=> j \in todo /\ j # k
  BY <1>1, BetweenSockets, BetweenSocketsPrime
<1>3. k \notin Addrs(conf.cls)
  BY DEF SocketLeft, Addrs
<1>4. \A a \in conf.cle : ListenPending(a.cls.addr, a.name)' \/ ListenPeer(a) \in goal
  BY <1>2, LeftGoal DEF IInv, ListensWalked
<1>5. \A a \in newconf.cle : ListenPending(a.cls.addr, a.name)' => ListenPeer(a) \in goal
  BY <1>2 DEF IInv, ListensWalked
<1>6. ASSUME NEW e \in goal, e.at # NULL, ListenPending(e.at, e.name)'
      PROVE  \E a \in newconf.cle : e = ListenPeer(a)
  BY <1>2, <1>6 DEF IInv, ListensWalked
<1>7. ASSUME NEW e \in goal, e.at # NULL, ~ ListenPending(e.at, e.name)'
      PROVE  \/ \E a \in conf.cle : e = ListenPeer(a)
             \/ e \in refused' /\ e.at \notin Addrs(conf.cls)
  <2>1. CASE e.at = k
    BY <1>1, <1>3, <2>1, LeftGoal
  <2>2. CASE e.at # k
    BY <1>1, <1>2, <1>7, <2>2 DEF IInv, ListensWalked
  <2> QED BY <2>1, <2>2
<1>8. \A e \in refused' : e \in goal /\ e.at # NULL
  BY <1>1, LeftGoal, ListenFields DEF IInv, Refused
<1>9. ASSUME NEW e \in refused', e.at \in Addrs(conf.cls) \/ AddrPending(e.at)'
      PROVE  \E a \in conf.cle : e = ListenPeer(a)
  <2>1. e.at # k
    BY <1>2, <1>3, <1>9
  <2>2. e \in refused
    BY <1>1, <2>1, LeftGoal, ListenFields
  <2> QED BY <1>2, <1>9, <2>2 DEF IInv, Refused
<1>10. ASSUME NEW a \in tles PROVE ListenPeer(a) \notin refused'
  <2>1. ListenPeer(a) \notin refused /\ ListenPeer(a).at # k
    BY LeftGoal, ListenFields DEF IInv, Refused, Registered
  <2> QED BY <1>1, <2>1, LeftGoal, ListenFields
<1>11. \A a \in conf.cle \ tles : ListenPeer(a) \in goal => ListenPeer(a) \in refused'
  BY <1>1 DEF IInv, Refused
<1>12. Addrs(conf.cls)' = Addrs(conf.cls)
  BY <1>1 DEF Addrs
<1>13. ListensWalked'
  BY <1>1, <1>4, <1>5, <1>6, <1>7, <1>12 DEF ListensWalked, ListenPeer
<1>14. Refused'
  BY <1>1, <1>8, <1>9, <1>10, <1>11, <1>12 DEF Refused, ListenPeer
<1> QED BY <1>13, <1>14

LEMMA LeftIInv ==
    ASSUME IInv, NEW k, NEW b, NEW E, SocketLeft(k, b, E)
    PROVE  IInv' /\ SwitchStep
<1>1. /\ state = "listening_sockets" /\ sock = NULL
      /\ refused' = refused \cup {ListenPeer(a) : a \in E}
      /\ UNCHANGED <<state, conf, newconf, sock, inner, tcs, tls, tles, goal>>
  BY DEF SocketLeft
<1>2. Trees'
  BY <1>1 DEF IInv, Trees, IsConf, ConnectTree, SocketTrees, IsConnectEntry, IsListenEntry
<1>3. Phases' /\ InHand' /\ Registered'
  BY <1>1 DEF IInv, Phases, InHand, Registered
<1>4. ConnectsWalked'
  BY <1>1, ConnectsFrame
<1>5. Running' = Running
  BY <1>1 DEF Running, Connecting, Listening
<1>6. ASSUME NEW e \in refused' PROVE e \in goal /\ e \notin Running'
  <2>1. e \in goal /\ e.at # NULL /\ \A a \in tles : e # ListenPeer(a)
    <3>1. Refused'
      BY LeftWalked
    <3> QED BY <1>1, <3>1 DEF Refused, ListenPeer
  <2> QED BY <1>5, <2>1, RunningPeers, ConnectFields
<1>7. ASSUME NEW e \in refused' \ refused PROVE Switch!CannotStart(e, Running')
  <2>1. PICK a \in E : e = ListenPeer(a)
    BY <1>1, <1>7
  <2>2. e.at = k /\ e.at # NULL
    BY <2>1, LeftGoal, ListenFields
  <2>3. ASSUME NEW d \in Running' PROVE d.at # e.at
    <3>1. CASE \E c \in tcs : d = ConnectPeer(c)
      BY <2>2, <3>1, ConnectFields
    <3>2. CASE \E c \in tles : d = ListenPeer(c)
      <4>1. PICK c \in conf.cle : d = ListenPeer(c)
        BY <3>2 DEF IInv, Registered
      <4>2. c.cls.addr # k /\ d.at = c.cls.addr
        BY <4>1, LeftGoal, ListenFields
      <4> QED BY <2>2, <4>2
    <3> QED BY <1>5, <3>1, <3>2, RunningPeers
  <2> QED BY <2>2, <2>3 DEF Switch!CannotStart
<1>8. SwitchStep
  BY <1>1, <1>5, <1>6, <1>7, IsChange
<1> QED BY <1>2, <1>3, <1>4, <1>8, LeftWalked DEF IInv

(* cls_mod() takes a socket in hand. *)
SocketTaken(k, a, b) ==
    /\ state = "listening_sockets" /\ sock = NULL /\ k \in todo /\ todo' = todo \ {k}
    /\ a \in conf.cls /\ a.addr = k /\ b \in newconf.cls /\ b.addr = k
    /\ sock' = k
    /\ inner' = Names(EntriesIn(conf, a)) \cup Names(EntriesIn(newconf, b))
    /\ UNCHANGED <<state, conf, newconf, tcs, tls, tles, goal, refused>>

LEMMA TakenIInv ==
    ASSUME IInv, NEW k, NEW a, NEW b, SocketTaken(k, a, b)
    PROVE  IInv' /\ SwitchStep
<1>1. /\ state = "listening_sockets" /\ sock = NULL /\ sock' = k /\ k \in todo
      /\ a \in conf.cls /\ a.addr = k /\ b \in newconf.cls /\ b.addr = k
      /\ todo' = todo \ {k}
      /\ UNCHANGED <<state, conf, newconf, tcs, tls, tles, goal, refused>>
  BY DEF SocketTaken
<1>2. IsConf(conf) /\ IsConf(newconf)
  BY DEF IInv, Trees
<1>3. k # NULL /\ k \in Addrs(conf.cls)
  BY <1>1, <1>2, SocketFacts DEF Addrs
<1>4. \A c \in conf.cle : c.cls.addr = k => c.name \in inner'
  <2>1. \A c \in conf.cle : c.cls.addr = k => c.cls = a
    BY <1>1, <1>2, SocketFacts
  <2> QED BY <2>1 DEF SocketTaken, Names, EntriesIn
<1>5. \A c \in newconf.cle : c.cls.addr = k => c.name \in inner'
  <2>1. \A c \in newconf.cle : c.cls.addr = k => c.cls = b
    BY <1>1, <1>2, SocketFacts
  <2> QED BY <2>1 DEF SocketTaken, Names, EntriesIn
<1>6. /\ \A j : AddrPending(j) <=> j \in todo
      /\ \A j, n : ListenPending(j, n) <=> j \in todo
  BY <1>1, BetweenSockets
<1>7. /\ \A j : AddrPending(j)' <=> j \in todo /\ j # k
      /\ \A j, n : ListenPending(j, n)' <=> (j \in todo /\ j # k) \/ (j = k /\ n \in inner')
  BY <1>1 DEF AddrPending, ListenPending
<1>8. ListensWalked'
  <2>1. \A c \in conf.cle : ListenPending(c.cls.addr, c.name)' \/ ListenPeer(c) \in goal
    BY <1>1, <1>4, <1>6, <1>7 DEF IInv, ListensWalked
  <2>2. \A c \in newconf.cle : ListenPending(c.cls.addr, c.name)' => ListenPeer(c) \in goal
    BY <1>1, <1>6, <1>7 DEF IInv, ListensWalked
  <2>3. ASSUME NEW e \in goal, e.at # NULL, ListenPending(e.at, e.name)'
        PROVE  \E c \in newconf.cle : e = ListenPeer(c)
    BY <1>1, <1>6, <1>7, <2>3 DEF IInv, ListensWalked
  <2>4. ASSUME NEW e \in goal, e.at # NULL, ~ ListenPending(e.at, e.name)'
        PROVE  \/ \E c \in conf.cle : e = ListenPeer(c)
               \/ e \in refused /\ e.at \notin Addrs(conf.cls)
    <3>1. CASE e.at = k
      <4>1. PICK c \in newconf.cle : e = ListenPeer(c)
        BY <1>1, <1>6, <2>4, <3>1 DEF IInv, ListensWalked
      <4> QED BY <1>5, <1>7, <2>4, <3>1, <4>1, ListenFields
    <3>2. CASE e.at # k
      BY <1>6, <1>7, <2>4, <3>2 DEF IInv, ListensWalked
    <3> QED BY <3>1, <3>2
  <2>5. Addrs(conf.cls)' = Addrs(conf.cls)
    BY <1>1 DEF Addrs
  <2> QED BY <1>1, <2>1, <2>2, <2>3, <2>4, <2>5 DEF ListensWalked, ListenPeer
<1>9. Refused'
  <2>1. Addrs(conf.cls)' = Addrs(conf.cls)
    BY <1>1 DEF Addrs
  <2>2. \A e \in refused : AddrPending(e.at)' => AddrPending(e.at)
    BY <1>6, <1>7
  <2> QED BY <1>1, <2>1, <2>2 DEF IInv, Refused, ListenPeer
<1>10. Trees'
  BY <1>1 DEF IInv, Trees, IsConf, ConnectTree, SocketTrees, IsConnectEntry, IsListenEntry
<1>11. Phases' /\ Registered'
  BY <1>1, <1>3 DEF IInv, Phases, Registered
<1>12. InHand'
  <2>1. Addrs(conf.cls)' = Addrs(conf.cls)
    BY <1>1 DEF Addrs
  <2>2. ~ AddrPending(sock)'
    BY <1>1 DEF AddrPending
  <2> QED BY <1>1, <1>3, <2>1, <2>2 DEF InHand
<1>13. ConnectsWalked'
  BY <1>1, ConnectsFrame
<1>14. SwitchStep
  BY <1>1 DEF SwitchStep, Switch!vars, Connecting, Listening
<1> QED BY <1>8, <1>9, <1>10, <1>11, <1>12, <1>13, <1>14 DEF IInv

(* cls_del() *)
SocketClosed(k, a, E) ==
    /\ state = "listening_sockets" /\ sock = NULL /\ k \in todo /\ todo' = todo \ {k}
    /\ a \in conf.cls /\ a.addr = k /\ \A b \in newconf.cls : b.addr # k
    /\ E = {c \in conf.cle : c.cls = a}
    /\ conf' = [cce |-> conf.cce, cls |-> conf.cls \ {a}, cle |-> conf.cle \ E]
    /\ newconf' = [cce |-> newconf.cce, cls |-> newconf.cls \cup {a}, cle |-> newconf.cle \cup E]
    /\ tls' = tls \ {a} /\ tles' = tles \ {t \in tles : t.cls = a}
    /\ UNCHANGED <<state, sock, inner, tcs, goal, refused>>

LEMMA ClosedEffect ==
    ASSUME NEW k, NEW a, NEW E, SocketClosed(k, a, E)
    PROVE  /\ conf' = [cce |-> conf'.cce, cls |-> conf'.cls, cle |-> conf'.cle]
           /\ newconf' = [cce |-> newconf'.cce, cls |-> newconf'.cls, cle |-> newconf'.cle]
           /\ conf'.cce = conf.cce /\ newconf'.cce = newconf.cce
           /\ conf'.cls = conf.cls \ {a} /\ conf'.cle = conf.cle \ E
           /\ newconf'.cls = newconf.cls \cup {a} /\ newconf'.cle = newconf.cle \cup E
BY DEF SocketClosed

(* The new file has no peers at the address. *)
LEMMA ClosedGoal ==
    ASSUME IInv, NEW k, NEW a, NEW E, SocketClosed(k, a, E)
    PROVE  /\ \A e \in goal : e.at # k
           /\ \A c \in conf.cle : c \in E <=> c.cls.addr = k
           /\ \A c \in conf.cle : c \in E <=> c.cls = a
           /\ \A c \in E : c.cls.addr = k
           /\ k # NULL
<1>1. /\ IsConf(conf) /\ IsConf(newconf)
      /\ k \in todo /\ a \in conf.cls /\ a.addr = k /\ \A b \in newconf.cls : b.addr # k
      /\ E = {c \in conf.cle : c.cls = a}
      /\ state = "listening_sockets" /\ sock = NULL
  BY DEF IInv, Trees, SocketClosed
<1>2. \A n : ListenPending(k, n)
  BY <1>1, BetweenSockets
<1>3. k # NULL
  BY <1>1, SocketFacts
<1>4. /\ \A c \in conf.cle : c \in E <=> c.cls.addr = k
      /\ \A c \in conf.cle : c \in E <=> c.cls = a
  BY <1>1, SocketFacts
<1>5. ASSUME NEW e \in goal, e.at = k PROVE FALSE
  <2>1. PICK b \in newconf.cle : e = ListenPeer(b)
    BY <1>2, <1>3, <1>5 DEF IInv, ListensWalked
  <2>2. b.cls \in newconf.cls /\ b.cls.addr = k
    BY <1>1, <1>5, <2>1, SocketFacts, ListenFields
  <2> QED BY <1>1, <2>2
<1> QED BY <1>1, <1>3, <1>4, <1>5

LEMMA ClosedTrees ==
    ASSUME IInv, NEW k, NEW a, NEW E, SocketClosed(k, a, E)
    PROVE  Trees'
<1>1. /\ a \in conf.cls /\ \A b \in newconf.cls : b.addr # a.addr
      /\ E = {c \in conf.cle : c.cls = a}
      /\ state = "listening_sockets" /\ UNCHANGED <<state, goal>>
  BY DEF SocketClosed
<1>2. SocketTrees(conf.cls, conf.cle) /\ SocketTrees(newconf.cls, newconf.cle)
  BY DEF IInv, Trees, IsConf
<1>3. SocketTrees(newconf.cls \cup {a}, newconf.cle \cup E)
  BY <1>1, <1>2 DEF SocketTrees
<1>4. SocketTrees(conf.cls \ {a}, conf.cle \ E)
  BY <1>1, <1>2 DEF SocketTrees
<1>5. /\ conf' = [cce |-> conf'.cce, cls |-> conf'.cls, cle |-> conf'.cle]
      /\ newconf' = [cce |-> newconf'.cce, cls |-> newconf'.cls, cle |-> newconf'.cle]
  BY ClosedEffect
<1>6. /\ conf'.cls = conf.cls \ {a} /\ conf'.cle = conf.cle \ E
      /\ newconf'.cls = newconf.cls \cup {a} /\ newconf'.cle = newconf.cle \cup E
      /\ conf'.cce = conf.cce /\ newconf'.cce = newconf.cce
  BY ClosedEffect
<1>7. ConnectTree(conf'.cce) /\ ConnectTree(newconf'.cce)
  BY <1>1, <1>6, ConnectsFrame
<1>8. SocketTrees(conf'.cls, conf'.cle) /\ SocketTrees(newconf'.cls, newconf'.cle)
  BY <1>3, <1>4, <1>6
<1> QED BY <1>5, <1>7, <1>8, TreesPrime

LEMMA ClosedWalked ==
    ASSUME IInv, NEW k, NEW a, NEW E, SocketClosed(k, a, E)
    PROVE  ListensWalked' /\ Refused'
<1>1. /\ state = "listening_sockets" /\ sock = NULL /\ state' = state /\ inner' = inner
      /\ todo' = todo \ {k} /\ goal' = goal /\ refused' = refused /\ a.addr = k
      /\ tles' = tles \ {t \in tles : t.cls = a}
  BY DEF SocketClosed
<1>2. /\ \A j : AddrPending(j) <=> j \in todo
      /\ \A j : AddrPending(j)' <=> j \in todo /\ j # k
      /\ \A j, n : ListenPending(j, n) <=> j \in todo
      /\ \A j, n : ListenPending(j, n)' <=> j \in todo /\ j # k
  BY <1>1, BetweenSockets, BetweenSocketsPrime
<1>3. /\ conf'.cls = conf.cls \ {a} /\ conf'.cle = conf.cle \ E
      /\ newconf'.cle = newconf.cle \cup E
  BY ClosedEffect
<1>4. Addrs(conf'.cls) \subseteq Addrs(conf.cls) /\ Addrs(conf.cls)' = Addrs(conf'.cls)
  BY <1>3 DEF Addrs
<1>5. \A c \in conf'.cle : ListenPending(c.cls.addr, c.name)' \/ ListenPeer(c) \in goal
  BY <1>2, <1>3, ClosedGoal DEF IInv, ListensWalked
<1>6. \A c \in newconf'.cle : ListenPending(c.cls.addr, c.name)' => ListenPeer(c) \in goal
  BY <1>2, <1>3, ClosedGoal DEF IInv, ListensWalked
<1>7. ASSUME NEW e \in goal, e.at # NULL, ListenPending(e.at, e.name)'
      PROVE  \E c \in newconf'.cle : e = ListenPeer(c)
  BY <1>2, <1>3, <1>7 DEF IInv, ListensWalked
<1>8. ASSUME NEW e \in goal, \E c \in conf.cle : e = ListenPeer(c)
      PROVE  \E c \in conf'.cle : e = ListenPeer(c)
  <2>1. PICK c \in conf.cle : e = ListenPeer(c)
    BY <1>8
  <2>2. c.cls.addr # k
    BY <2>1, ClosedGoal, ListenFields
  <2> QED BY <1>3, <2>1, <2>2, ClosedGoal
<1>9. ASSUME NEW e \in goal, e.at # NULL, ~ ListenPending(e.at, e.name)'
      PROVE  \/ \E c \in conf'.cle : e = ListenPeer(c)
             \/ e \in refused /\ e.at \notin Addrs(conf'.cls)
  <2>1. ~ ListenPending(e.at, e.name)
    BY <1>2, <1>9, ClosedGoal
  <2>2. \/ \E c \in conf.cle : e = ListenPeer(c)
        \/ e \in refused /\ e.at \notin Addrs(conf.cls)
    BY <1>9, <2>1 DEF IInv, ListensWalked
  <2> QED BY <1>4, <1>8, <2>2
<1>10. ListensWalked'
  BY <1>1, <1>4, <1>5, <1>6, <1>7, <1>9 DEF ListensWalked, ListenPeer
<1>11. \A e \in refused : e \in goal /\ e.at # NULL
  BY DEF IInv, Refused
<1>12. ASSUME NEW e \in refused, e.at \in Addrs(conf'.cls) \/ AddrPending(e.at)'
       PROVE  \E c \in conf'.cle : e = ListenPeer(c)
  <2>1. \E c \in conf.cle : e = ListenPeer(c)
    BY <1>2, <1>4, <1>12 DEF IInv, Refused
  <2> QED BY <1>8, <1>11, <2>1
<1>13. \A c \in tles' : ListenPeer(c) \notin refused
  BY <1>1 DEF IInv, Refused
<1>14. \A c \in conf'.cle \ tles' : ListenPeer(c) \in goal => ListenPeer(c) \in refused
  BY <1>1, <1>3, ClosedGoal DEF IInv, Refused
<1>15. Refused'
  BY <1>1, <1>4, <1>11, <1>12, <1>13, <1>14 DEF Refused, ListenPeer
<1> QED BY <1>10, <1>15

LEMMA ClosedIInv ==
    ASSUME IInv, NEW k, NEW a, NEW E, SocketClosed(k, a, E)
    PROVE  IInv' /\ SwitchStep
<1>1. /\ state = "listening_sockets" /\ sock = NULL
      /\ tls' = tls \ {a} /\ tles' = tles \ {t \in tles : t.cls = a}
      /\ UNCHANGED <<state, sock, inner, tcs, goal, refused>>
  BY DEF SocketClosed
<1>2. /\ conf'.cls = conf.cls \ {a} /\ conf'.cle = conf.cle \ E
      /\ conf'.cce = conf.cce /\ newconf'.cce = newconf.cce
  BY ClosedEffect
<1>3. Phases' /\ InHand'
  BY <1>1 DEF IInv, Phases, InHand
<1>4. Registered'
  BY <1>1, <1>2, ClosedGoal DEF IInv, Registered
<1>5. ConnectsWalked'
  BY <1>1, <1>2, ConnectsFrame
<1>6. SwitchStep
  <2>1. ASSUME NEW e \in Running, e \in goal PROVE e \in Running'
    <3>1. CASE \E c \in tcs : e = ConnectPeer(c)
      BY <1>1, <3>1, RunningPeersPrime
    <3>2. CASE \E c \in tles : e = ListenPeer(c)
      <4>1. PICK c \in tles : e = ListenPeer(c)
        BY <3>2
      <4>2. c.cls.addr # k
        BY <2>1, <4>1, ClosedGoal, ListenFields
      <4>3. c.cls # a
        BY <4>2 DEF SocketClosed
      <4> QED BY <1>1, <4>1, <4>3, RunningPeersPrime
    <3> QED BY <3>1, <3>2, RunningPeers
  <2>2. \A e \in Running' : e \in Running
    BY <1>1, RunningPeers, RunningPeersPrime
  <2>3. ASSUME NEW e \in refused PROVE e \in goal /\ e \notin Running
    <3>1. e \in goal /\ e.at # NULL /\ \A c \in tles : e # ListenPeer(c)
      BY DEF IInv, Refused
    <3> QED BY <3>1, RunningPeers, ConnectFields
  <2> QED BY <1>1, <2>1, <2>2, <2>3, IsChange
<1> QED BY <1>3, <1>4, <1>5, <1>6, ClosedTrees, ClosedWalked DEF IInv

(* A daemon that dies leaves nothing. *)
LEMMA DieStep ==
    ASSUME NEW how \in {"aborted", "crashed"}, Die(how)
    PROVE  IInv' /\ SwitchStep
<1>1. /\ state' \in {"aborted", "crashed"} /\ conf' = Empty /\ newconf' = Empty
      /\ sock' = NULL /\ inner' = {} /\ tcs' = {} /\ tls' = {} /\ tles' = {}
      /\ goal' = {} /\ refused' = {}
  BY DEF Die
<1>2. /\ conf'.cce = {} /\ conf'.cls = {} /\ conf'.cle = {}
      /\ newconf'.cce = {} /\ newconf'.cls = {} /\ newconf'.cle = {}
  BY <1>1 DEF Empty
<1>3. Trees'
  <2>1. /\ conf' = [cce |-> conf'.cce, cls |-> conf'.cls, cle |-> conf'.cle]
        /\ newconf' = [cce |-> newconf'.cce, cls |-> newconf'.cls, cle |-> newconf'.cle]
    BY <1>1 DEF Empty
  <2>2. /\ ConnectTree(conf'.cce) /\ SocketTrees(conf'.cls, conf'.cle)
        /\ ConnectTree(newconf'.cce) /\ SocketTrees(newconf'.cls, newconf'.cle)
    BY <1>2 DEF ConnectTree, SocketTrees
  <2> QED BY <2>1, <2>2, TreesPrime
<1>4. Phases' /\ Registered' /\ InHand'
  BY <1>1, <1>2 DEF Phases, Registered, InHand, Empty
<1>5. ConnectsWalked' /\ ListensWalked' /\ Refused'
  BY <1>1, <1>2 DEF ConnectsWalked, ListensWalked, Refused
<1>6. SwitchStep
  BY <1>1, IsExit
<1> QED BY <1>3, <1>4, <1>5, <1>6 DEF IInv

LEMMA DiffSocketsStep ==
    ASSUME IInv, DiffSockets
    PROVE  IInv' /\ SwitchStep
<1>1. PICK k \in todo :
        LET as == {a \in conf.cls : a.addr = k}
            bs == {b \in newconf.cls : b.addr = k}
        IN  \/ /\ todo' = todo \ {k}
               /\ \/ as = {} /\ \E b \in bs : cls_add(b)
                  \/ \E a \in as, b \in bs : cls_mod(a, b)
                  \/ bs = {} /\ \E a \in as : CanStop(EntriesIn(conf, a)) /\ cls_del(a)
            \/ bs = {} /\ \E a \in as : ~ CanStop(EntriesIn(conf, a)) /\ Die("crashed")
  BY DEF DiffSockets
<1>2. state = "listening_sockets" /\ sock = NULL
  BY DEF DiffSockets
<1>3. CASE Die("crashed")
  BY <1>3, DieStep
<1>4. ASSUME todo' = todo \ {k}, NEW b \in newconf.cls, b.addr = k, \A a \in conf.cls : a.addr # k,
             cls_add(b)
      PROVE  IInv' /\ SwitchStep
  <2> DEFINE E == {a \in newconf.cle : a.cls = b}
  <2>1. EntriesIn(newconf, b) = E
    BY DEF EntriesIn
  <2>2. \A S : Listening(S) = {ListenPeer(a) : a \in S}
    BY PeerSets
  <2>3. SocketOpened(k, b, E) \/ SocketLeft(k, b, E)
    <3> HIDE DEF E
    <3>1. CASE /\ conf' = Give(conf, b, E) /\ newconf' = Take(newconf, b, E)
               /\ tls' = tls \cup {b} /\ tles' = tles \cup FirstOfFp(E)
               /\ refused' = refused \cup Listening(E \ FirstOfFp(E))
               /\ UNCHANGED <<state, sock, inner, tcs, goal>>
      BY <1>2, <1>4, <2>2, <3>1 DEF SocketOpened, Give, Take, E
    <3>2. CASE /\ refused' = refused \cup Listening(E)
               /\ UNCHANGED <<state, conf, newconf, sock, inner, regs, goal>>
      BY <1>2, <1>4, <2>2, <3>2 DEF SocketLeft, E, regs
    <3> QED BY <1>4, <2>1, <3>1, <3>2 DEF cls_add
  <2> QED BY <2>3, OpenedIInv, OpenedSwitch, LeftIInv
<1>5. ASSUME todo' = todo \ {k}, NEW a \in conf.cls, a.addr = k, NEW b \in newconf.cls, b.addr = k,
             cls_mod(a, b)
      PROVE  IInv' /\ SwitchStep
  <2>1. SocketTaken(k, a, b)
    BY <1>2, <1>5 DEF cls_mod, SocketTaken, regs
  <2> QED BY <2>1, TakenIInv
<1>6. ASSUME todo' = todo \ {k}, NEW a \in conf.cls, a.addr = k,
             \A b \in newconf.cls : b.addr # k, cls_del(a)
      PROVE  IInv' /\ SwitchStep
  <2>1. SocketClosed(k, a, EntriesIn(conf, a))
    BY <1>2, <1>6 DEF cls_del, SocketClosed, Give, Take, EntriesIn
  <2> QED BY <2>1, ClosedIInv
<1> QED BY <1>1, <1>3, <1>4, <1>5, <1>6

---------------------------------------------------------------------------
(* The walk over the entries of the socket in hand.                        *)

(* What the three callbacks have in common, when the daemon survives them. *)
EntrySwap(A, B, n, old, new, moved, back, clash) ==
    /\ state = "listening_sockets" /\ sock # NULL /\ n \in inner /\ inner' = inner \ {n}
    /\ A \in conf.cls /\ A.addr = sock /\ B \in newconf.cls /\ B.addr = sock
    /\ old = {a \in conf.cle : a.cls = A /\ a.name = n}
    /\ new = {b \in newconf.cle : b.cls = B /\ b.name = n}
    /\ \A a \in old, b \in new : a.val # b.val
    /\ moved = {[b EXCEPT !.cls = A] : b \in new} /\ back = {[a EXCEPT !.cls = B] : a \in old}
    /\ old \subseteq tles /\ clash \subseteq moved
    /\ \A b \in clash : \E t \in tles \ old : t.cls = b.cls /\ t.val.fp = b.val.fp
    /\ conf' = [cce |-> conf.cce, cls |-> conf.cls, cle |-> (conf.cle \ old) \cup moved]
    /\ newconf' = [cce |-> newconf.cce, cls |-> newconf.cls, cle |-> (newconf.cle \ new) \cup back]
    /\ tles' = (tles \ old) \cup (moved \ clash)
    /\ refused' = refused \cup {ListenPeer(a) : a \in clash}
    /\ UNCHANGED <<state, todo, sock, tcs, tls, goal>>

LEMMA EntryEffect ==
    ASSUME NEW A, NEW B, NEW n, NEW old, NEW new, NEW moved, NEW back, NEW clash,
           EntrySwap(A, B, n, old, new, moved, back, clash)
    PROVE  /\ conf' = [cce |-> conf'.cce, cls |-> conf'.cls, cle |-> conf'.cle]
           /\ newconf' = [cce |-> newconf'.cce, cls |-> newconf'.cls, cle |-> newconf'.cle]
           /\ conf'.cce = conf.cce /\ newconf'.cce = newconf.cce
           /\ conf'.cls = conf.cls /\ conf'.cle = (conf.cle \ old) \cup moved
           /\ newconf'.cls = newconf.cls /\ newconf'.cle = (newconf.cle \ new) \cup back
BY DEF EntrySwap

(* The entries that change places. *)
LEMMA EntryMoves ==
    ASSUME IInv, NEW A, NEW B, NEW n, NEW old, NEW new, NEW moved, NEW back, NEW clash,
           EntrySwap(A, B, n, old, new, moved, back, clash)
    PROVE  /\ \A m \in moved : IsListenEntry(m) /\ m.cls = A /\ m.name = n
                                 /\ \E b \in new : m.val = b.val
           /\ \A m \in back : IsListenEntry(m) /\ m.cls = B /\ m.name = n
           /\ \A m, p \in moved : m = p
           /\ \A m, p \in back : m = p
           /\ \A b \in new : \E m \in moved : m.val = b.val
           /\ \A a \in conf.cle : a \in old <=> a.cls.addr = sock /\ a.name = n
           /\ \A b \in newconf.cle : b \in new <=> b.cls.addr = sock /\ b.name = n
<1>1. /\ IsConf(conf) /\ IsConf(newconf)
      /\ A \in conf.cls /\ A.addr = sock /\ B \in newconf.cls /\ B.addr = sock
      /\ old = {a \in conf.cle : a.cls = A /\ a.name = n}
      /\ new = {b \in newconf.cle : b.cls = B /\ b.name = n}
  BY DEF IInv, Trees, EntrySwap
<1>2. moved = {[b EXCEPT !.cls = A] : b \in new} /\ back = {[a EXCEPT !.cls = B] : a \in old}
  BY DEF EntrySwap
<1>3. /\ \A a \in old : IsListenEntry(a) /\ a.name = n
      /\ \A b \in new : IsListenEntry(b) /\ b.name = n
      /\ \A a, c \in old : a = c
      /\ \A a, c \in new : a = c
  BY <1>1, SocketFacts
<1>4. \A a, s : IsListenEntry(a) =>
        /\ IsListenEntry([a EXCEPT !.cls = s])
        /\ [a EXCEPT !.cls = s].name = a.name
        /\ [a EXCEPT !.cls = s].val = a.val
        /\ [a EXCEPT !.cls = s].cls = s
  BY EntryFields
<1>5. ASSUME NEW m \in moved
      PROVE  IsListenEntry(m) /\ m.cls = A /\ m.name = n /\ \E b \in new : m.val = b.val
  <2>1. PICK b \in new : m = [b EXCEPT !.cls = A]
    BY <1>2
  <2> QED BY <1>3, <1>4, <2>1
<1>6. ASSUME NEW m \in back PROVE IsListenEntry(m) /\ m.cls = B /\ m.name = n
  <2>1. PICK a \in old : m = [a EXCEPT !.cls = B]
    BY <1>2
  <2> QED BY <1>3, <1>4, <2>1
<1>7. (\A m, p \in moved : m = p) /\ (\A m, p \in back : m = p)
  BY <1>2, <1>3
<1>8. ASSUME NEW b \in new PROVE \E m \in moved : m.val = b.val
  <2>1. [b EXCEPT !.cls = A] \in moved
    BY <1>2
  <2> QED BY <1>3, <1>4, <2>1
<1>9. /\ \A a \in conf.cle : a \in old <=> a.cls.addr = sock /\ a.name = n
      /\ \A b \in newconf.cle : b \in new <=> b.cls.addr = sock /\ b.name = n
  <2>1. \A a \in conf.cle : a.cls.addr = sock <=> a.cls = A
    BY <1>1, SocketFacts
  <2>2. \A b \in newconf.cle : b.cls.addr = sock <=> b.cls = B
    BY <1>1, SocketFacts
  <2> QED BY <1>1, <2>1, <2>2
<1> QED BY <1>5, <1>6, <1>7, <1>8, <1>9

LEMMA EntryKeys ==
    ASSUME IInv, NEW A, NEW B, NEW n, NEW old, NEW new, NEW moved, NEW back, NEW clash,
           EntrySwap(A, B, n, old, new, moved, back, clash)
    PROVE  /\ sock \notin todo /\ n \in inner
           /\ \A j : AddrPending(j) <=> j \in todo
           /\ \A j : AddrPending(j)' <=> j \in todo
           /\ \A j, m : ListenPending(j, m) <=> j \in todo \/ (j = sock /\ m \in inner)
           /\ \A j, m : ListenPending(j, m)' <=> j \in todo \/ (j = sock /\ m \in inner /\ m # n)
<1>1. /\ state = "listening_sockets" /\ sock # NULL /\ n \in inner /\ inner' = inner \ {n}
      /\ UNCHANGED <<state, todo, sock>>
  BY DEF EntrySwap
<1>2. sock \notin todo
  BY <1>1 DEF IInv, InHand, AddrPending
<1> QED BY <1>1, <1>2 DEF AddrPending, ListenPending

(* Of the key in hand goal has what newconf has, and nothing was refused. *)
LEMMA EntryGoal ==
    ASSUME IInv, NEW A, NEW B, NEW n, NEW old, NEW new, NEW moved, NEW back, NEW clash,
           EntrySwap(A, B, n, old, new, moved, back, clash)
    PROVE  /\ \A m \in moved : ListenPeer(m) \in goal /\ m.cls.addr = sock
           /\ \A e \in goal : e.at = sock /\ e.name = n => \E m \in moved : e = ListenPeer(m)
           /\ \A a \in old : ListenPeer(a) \notin goal
           /\ \A e \in refused : ~ (e.at = sock /\ e.name = n)
<1>1. /\ sock # NULL /\ A.addr = sock /\ B.addr = sock
      /\ \A a \in old, b \in new : a.val # b.val
      /\ new \subseteq newconf.cle /\ old \subseteq conf.cle
      /\ \A b \in new : b.cls = B
  BY DEF EntrySwap
<1>2. ListenPending(sock, n)
  BY EntryKeys
<1>3. ASSUME NEW m \in moved PROVE ListenPeer(m) \in goal /\ m.cls.addr = sock
  <2>1. PICK b \in new : m.val = b.val
    BY EntryMoves
  <2>2. m.cls = A /\ m.name = n /\ b.name = n /\ b.cls.addr = sock
    BY <1>1, EntryMoves
  <2>3. ListenPeer(b) \in goal
    BY <1>1, <1>2, <2>2 DEF IInv, ListensWalked
  <2>4. ListenPeer(m) = ListenPeer(b)
    BY <1>1, <2>1, <2>2, PeersEqual
  <2> QED BY <1>1, <2>2, <2>3, <2>4
<1>4. ASSUME NEW e \in goal, e.at = sock, e.name = n
      PROVE  \E b \in new : e = ListenPeer(b)
  <2>1. PICK b \in newconf.cle : e = ListenPeer(b)
    BY <1>1, <1>2, <1>4 DEF IInv, ListensWalked
  <2>2. b.cls.addr = sock /\ b.name = n
    BY <1>4, <2>1, ListenFields
  <2> QED BY <2>1, <2>2, EntryMoves
<1>5. ASSUME NEW e \in goal, e.at = sock, e.name = n
      PROVE  \E m \in moved : e = ListenPeer(m)
  <2>1. PICK b \in new : e = ListenPeer(b)
    BY <1>4, <1>5
  <2>2. PICK m \in moved : m.val = b.val
    BY EntryMoves
  <2>3. m.cls = A /\ m.name = n /\ b.name = n /\ b.cls.addr = sock
    BY <1>1, EntryMoves
  <2> QED BY <1>1, <2>1, <2>2, <2>3, PeersEqual
<1>6. ASSUME NEW a \in old, ListenPeer(a) \in goal PROVE FALSE
  <2>1. ListenPeer(a).at = sock /\ ListenPeer(a).name = n
    BY <1>1, EntryMoves, ListenFields
  <2>2. PICK b \in new : ListenPeer(a) = ListenPeer(b)
    BY <1>4, <1>6, <2>1
  <2>3. a.val = b.val
    BY <2>2, PeersEqual
  <2> QED BY <1>1, <2>3
<1>7. ASSUME NEW e \in refused, e.at = sock, e.name = n PROVE FALSE
  <2>1. sock \in Addrs(conf.cls)
    BY <1>1 DEF IInv, InHand
  <2>2. PICK a \in conf.cle : e = ListenPeer(a)
    BY <1>7, <2>1 DEF IInv, Refused
  <2>3. a \in old
    BY <1>7, <2>2, EntryMoves, ListenFields
  <2>4. e \in goal
    BY DEF IInv, Refused
  <2> QED BY <1>6, <2>2, <2>3, <2>4
<1> QED BY <1>3, <1>5, <1>6, <1>7

LEMMA EntryTrees ==
    ASSUME IInv, NEW A, NEW B, NEW n, NEW old, NEW new, NEW moved, NEW back, NEW clash,
           EntrySwap(A, B, n, old, new, moved, back, clash)
    PROVE  Trees'
<1>1. /\ state = "listening_sockets" /\ UNCHANGED <<state, goal>>
      /\ A \in conf.cls /\ B \in newconf.cls
      /\ old = {a \in conf.cle : a.cls = A /\ a.name = n}
      /\ new = {b \in newconf.cle : b.cls = B /\ b.name = n}
  BY DEF EntrySwap
<1>2. SocketTrees(conf.cls, conf.cle) /\ SocketTrees(newconf.cls, newconf.cle)
  BY DEF IInv, Trees, IsConf
<1>3. /\ \A m \in moved : IsListenEntry(m) /\ m.cls = A /\ m.name = n
      /\ \A m, p \in moved : m = p
      /\ \A m \in back : IsListenEntry(m) /\ m.cls = B /\ m.name = n
      /\ \A m, p \in back : m = p
  BY EntryMoves
<1>4. SocketTrees(conf.cls, (conf.cle \ old) \cup moved)
  BY <1>1, <1>2, <1>3 DEF SocketTrees
<1>5. SocketTrees(newconf.cls, (newconf.cle \ new) \cup back)
  BY <1>1, <1>2, <1>3 DEF SocketTrees
<1>6. /\ conf' = [cce |-> conf'.cce, cls |-> conf'.cls, cle |-> conf'.cle]
      /\ newconf' = [cce |-> newconf'.cce, cls |-> newconf'.cls, cle |-> newconf'.cle]
  BY EntryEffect
<1>7. /\ conf'.cls = conf.cls /\ conf'.cle = (conf.cle \ old) \cup moved
      /\ newconf'.cls = newconf.cls /\ newconf'.cle = (newconf.cle \ new) \cup back
      /\ conf'.cce = conf.cce /\ newconf'.cce = newconf.cce
  BY EntryEffect
<1>8. ConnectTree(conf'.cce) /\ ConnectTree(newconf'.cce)
  BY <1>1, <1>7, ConnectsFrame
<1>9. SocketTrees(conf'.cls, conf'.cle) /\ SocketTrees(newconf'.cls, newconf'.cle)
  BY <1>4, <1>5, <1>7
<1> QED BY <1>6, <1>8, <1>9, TreesPrime

LEMMA EntryWalked ==
    ASSUME IInv, NEW A, NEW B, NEW n, NEW old, NEW new, NEW moved, NEW back, NEW clash,
           EntrySwap(A, B, n, old, new, moved, back, clash)
    PROVE  ListensWalked'
<1>1. goal' = goal /\ refused \subseteq refused'
  BY DEF EntrySwap
<1>2. /\ sock \notin todo /\ n \in inner
      /\ \A j, m : ListenPending(j, m) <=> j \in todo \/ (j = sock /\ m \in inner)
      /\ \A j, m : ListenPending(j, m)' <=> j \in todo \/ (j = sock /\ m \in inner /\ m # n)
  BY EntryKeys
<1>3. /\ conf'.cls = conf.cls /\ conf'.cle = (conf.cle \ old) \cup moved
      /\ newconf'.cle = (newconf.cle \ new) \cup back
  BY EntryEffect
<1>4. Addrs(conf.cls)' = Addrs(conf.cls)
  BY <1>3 DEF Addrs
<1>5. ASSUME NEW a \in conf'.cle
      PROVE  ListenPending(a.cls.addr, a.name)' \/ ListenPeer(a) \in goal
  <2>1. CASE a \in moved
    BY <2>1, EntryGoal
  <2>2. CASE a \in conf.cle /\ a \notin old
    <3>1. ~ (a.cls.addr = sock /\ a.name = n)
      BY <2>2, EntryMoves
    <3> QED BY <1>2, <2>2, <3>1 DEF IInv, ListensWalked
  <2> QED BY <1>3, <2>1, <2>2
<1>6. ASSUME NEW b \in newconf'.cle, ListenPending(b.cls.addr, b.name)'
      PROVE  ListenPeer(b) \in goal
  <2>1. CASE b \in back
    <3>1. b.cls.addr = sock /\ b.name = n
      <4>1. B.addr = sock
        BY DEF EntrySwap
      <4> QED BY <2>1, <4>1, EntryMoves
    <3> QED BY <1>2, <1>6, <3>1
  <2>2. CASE b \in newconf.cle
    BY <1>2, <1>6, <2>2 DEF IInv, ListensWalked
  <2> QED BY <1>3, <2>1, <2>2
<1>7. ASSUME NEW e \in goal, e.at # NULL, ListenPending(e.at, e.name)'
      PROVE  \E b \in newconf'.cle : e = ListenPeer(b)
  <2>1. PICK b \in newconf.cle : e = ListenPeer(b)
    BY <1>2, <1>7 DEF IInv, ListensWalked
  <2>2. ~ (b.cls.addr = sock /\ b.name = n)
    BY <1>2, <1>7, <2>1, ListenFields
  <2> QED BY <1>3, <2>1, <2>2, EntryMoves
<1>8. ASSUME NEW e \in goal, e.at # NULL, ~ ListenPending(e.at, e.name)'
      PROVE  \/ \E a \in conf'.cle : e = ListenPeer(a)
             \/ e \in refused' /\ e.at \notin Addrs(conf.cls)
  <2>1. CASE e.at = sock /\ e.name = n
    BY <1>3, <2>1, EntryGoal
  <2>2. CASE ~ (e.at = sock /\ e.name = n)
    <3>1. ~ ListenPending(e.at, e.name)
      BY <1>2, <1>8, <2>2
    <3>2. CASE \E a \in conf.cle : e = ListenPeer(a)
      <4>1. PICK a \in conf.cle : e = ListenPeer(a)
        BY <3>2
      <4>2. a \notin old
        BY <2>2, <4>1, EntryMoves, ListenFields
      <4> QED BY <1>3, <4>1, <4>2
    <3>3. CASE e \in refused /\ e.at \notin Addrs(conf.cls)
      BY <1>1, <3>3
    <3> QED BY <1>8, <3>1, <3>2, <3>3 DEF IInv, ListensWalked
  <2> QED BY <2>1, <2>2
<1> QED BY <1>1, <1>4, <1>5, <1>6, <1>7, <1>8 DEF ListensWalked, ListenPeer

LEMMA EntryRefused ==
    ASSUME IInv, NEW A, NEW B, NEW n, NEW old, NEW new, NEW moved, NEW back, NEW clash,
           EntrySwap(A, B, n, old, new, moved, back, clash)
    PROVE  Refused'
<1>1. /\ goal' = goal /\ refused' = refused \cup {ListenPeer(a) : a \in clash}
      /\ clash \subseteq moved /\ tles' = (tles \ old) \cup (moved \ clash)
      /\ sock # NULL
  BY DEF EntrySwap
<1>2. (\A j : AddrPending(j) <=> j \in todo) /\ (\A j : AddrPending(j)' <=> j \in todo)
  BY EntryKeys
<1>3. conf'.cls = conf.cls /\ conf'.cle = (conf.cle \ old) \cup moved
  BY EntryEffect
<1>4. Addrs(conf.cls)' = Addrs(conf.cls)
  BY <1>3 DEF Addrs
<1>5. \A m \in moved : ListenPeer(m).at = sock /\ ListenPeer(m).name = n /\ ListenPeer(m) \in goal
  BY EntryMoves, EntryGoal, ListenFields
<1>6. \A e \in refused' : e \in goal /\ e.at # NULL
  BY <1>1, <1>5 DEF IInv, Refused
<1>7. ASSUME NEW e \in refused', e.at \in Addrs(conf.cls) \/ AddrPending(e.at)'
      PROVE  \E a \in conf'.cle : e = ListenPeer(a)
  <2>1. CASE e \in refused
    <3>1. PICK a \in conf.cle : e = ListenPeer(a)
      BY <1>2, <1>7, <2>1 DEF IInv, Refused
    <3>2. a \notin old
      BY <2>1, <3>1, EntryMoves, EntryGoal, ListenFields
    <3> QED BY <1>3, <3>1, <3>2
  <2>2. CASE e \notin refused
    BY <1>1, <1>3, <2>2
  <2> QED BY <2>1, <2>2
<1>8. ASSUME NEW a \in tles', ListenPeer(a) \in refused' PROVE FALSE
  <2>1. CASE a \in tles /\ a \notin old
    <3>1. ListenPeer(a) \notin refused /\ a \in conf.cle
      BY <2>1 DEF IInv, Refused, Registered
    <3>2. ~ (ListenPeer(a).at = sock /\ ListenPeer(a).name = n)
      BY <2>1, <3>1, EntryMoves, ListenFields
    <3> QED BY <1>1, <1>5, <1>8, <3>1, <3>2
  <2>2. CASE a \in moved /\ a \notin clash
    <3>1. \A m \in clash : m = a
      BY <1>1, <2>2, EntryMoves
    <3>2. ListenPeer(a) \in refused
      BY <1>1, <1>8, <2>2, <3>1
    <3> QED BY <1>5, <2>2, <3>2, EntryGoal
  <2> QED BY <1>1, <1>8, <2>1, <2>2
<1>9. ASSUME NEW a \in conf'.cle \ tles', ListenPeer(a) \in goal
      PROVE  ListenPeer(a) \in refused'
  BY <1>1, <1>3, <1>9 DEF IInv, Refused
<1> QED BY <1>1, <1>4, <1>6, <1>7, <1>8, <1>9 DEF Refused, ListenPeer

LEMMA EntrySwitch ==
    ASSUME IInv, NEW A, NEW B, NEW n, NEW old, NEW new, NEW moved, NEW back, NEW clash,
           EntrySwap(A, B, n, old, new, moved, back, clash)
    PROVE  SwitchStep
<1>1. /\ state = "listening_sockets" /\ UNCHANGED <<state, goal, tcs>>
      /\ refused' = refused \cup {ListenPeer(a) : a \in clash}
      /\ clash \subseteq moved /\ tles' = (tles \ old) \cup (moved \ clash)
      /\ \A b \in clash : \E t \in tles \ old : t.cls = b.cls /\ t.val.fp = b.val.fp
      /\ sock # NULL
  BY DEF EntrySwap
<1>2. ASSUME NEW e \in Running, e \in goal PROVE e \in Running'
  <2>1. CASE \E a \in tcs : e = ConnectPeer(a)
    BY <1>1, <2>1, RunningPeersPrime
  <2>2. CASE \E a \in tles : e = ListenPeer(a)
    <3>1. PICK a \in tles : e = ListenPeer(a)
      BY <2>2
    <3>2. a \notin old
      BY <1>2, <3>1, EntryGoal
    <3> QED BY <1>1, <3>1, <3>2, RunningPeersPrime
  <2> QED BY <2>1, <2>2, RunningPeers
<1>3. ASSUME NEW e \in Running' PROVE e \in Running \/ e \in goal
  BY <1>1, EntryGoal, RunningPeers, RunningPeersPrime
<1>4. ASSUME NEW e \in refused' PROVE e \in goal /\ e \notin Running'
  <2>1. e \in goal /\ e.at # NULL /\ \A a \in tles' : e # ListenPeer(a)
    <3>1. Refused'
      BY EntryRefused
    <3> QED BY <1>1, <3>1 DEF Refused, ListenPeer
  <2> QED BY <2>1, RunningPeersPrime, ConnectFields
<1>5. ASSUME NEW e \in refused' \ refused PROVE Switch!CannotStart(e, Running')
  <2>1. PICK b \in clash : e = ListenPeer(b)
    BY <1>1, <1>5
  <2>2. PICK t \in tles \ old : t.cls = b.cls /\ t.val.fp = b.val.fp
    BY <1>1
  <2>3. ListenPeer(t) \in Running'
    BY <1>1, RunningPeersPrime
  <2>4. b.cls.addr = sock
    BY <1>1, EntryGoal
  <2>5. e.at # NULL /\ ListenPeer(t).at = e.at /\ ListenPeer(t).val.fp = e.val.fp
    BY <1>1, <2>1, <2>2, <2>4, ListenFields
  <2> QED BY <2>3, <2>5 DEF Switch!CannotStart
<1> QED BY <1>1, <1>2, <1>3, <1>4, <1>5, IsChange

LEMMA EntryIInv ==
    ASSUME IInv, NEW A, NEW B, NEW n, NEW old, NEW new, NEW moved, NEW back, NEW clash,
           EntrySwap(A, B, n, old, new, moved, back, clash)
    PROVE  IInv'
<1>1. /\ state = "listening_sockets" /\ UNCHANGED <<state, todo, sock, tcs, tls, goal>> /\ sock # NULL
      /\ clash \subseteq moved /\ tles' = (tles \ old) \cup (moved \ clash)
  BY DEF EntrySwap
<1>2. /\ conf'.cls = conf.cls /\ conf'.cle = (conf.cle \ old) \cup moved
      /\ conf'.cce = conf.cce /\ newconf'.cce = newconf.cce
  BY EntryEffect
<1>3. Phases'
  BY <1>1 DEF IInv, Phases
<1>4. InHand'
  BY <1>1, <1>2 DEF IInv, InHand, AddrPending, Addrs
<1>5. Registered'
  BY <1>1, <1>2 DEF IInv, Registered
<1>6. ConnectsWalked'
  BY <1>1, <1>2, ConnectsFrame
<1> QED BY <1>3, <1>4, <1>5, <1>6, EntryTrees, EntryWalked, EntryRefused DEF IInv

(* cle_mod() of two equal entries: the key is done. *)
EntryKept(A, B, n, a, b) ==
    /\ state = "listening_sockets" /\ sock # NULL /\ n \in inner /\ inner' = inner \ {n}
    /\ A \in conf.cls /\ A.addr = sock /\ B \in newconf.cls /\ B.addr = sock
    /\ a \in conf.cle /\ a.cls = A /\ a.name = n
    /\ b \in newconf.cle /\ b.cls = B /\ b.name = n /\ a.val = b.val
    /\ UNCHANGED <<state, conf, newconf, todo, sock, tcs, tls, tles, goal, refused>>

LEMMA KeptIInv ==
    ASSUME IInv, NEW A, NEW B, NEW n, NEW a, NEW b, EntryKept(A, B, n, a, b)
    PROVE  IInv' /\ SwitchStep
<1>1. /\ state = "listening_sockets" /\ sock # NULL /\ n \in inner /\ inner' = inner \ {n}
      /\ UNCHANGED <<state, conf, newconf, todo, sock, tcs, tls, tles, goal, refused>>
  BY DEF EntryKept
<1>2. /\ A \in conf.cls /\ A.addr = sock /\ B \in newconf.cls /\ B.addr = sock
      /\ a \in conf.cle /\ a.cls = A /\ a.name = n
      /\ b \in newconf.cle /\ b.cls = B /\ b.name = n /\ a.val = b.val
      /\ IsConf(conf) /\ IsConf(newconf)
  BY DEF EntryKept, IInv, Trees
<1>3. /\ \A j : AddrPending(j)' <=> AddrPending(j)
      /\ \A j, m : ListenPending(j, m) <=> AddrPending(j) \/ (j = sock /\ m \in inner)
      /\ \A j, m : ListenPending(j, m)' <=> AddrPending(j) \/ (j = sock /\ m \in inner /\ m # n)
  BY <1>1 DEF AddrPending, ListenPending
<1>4. ListenPeer(a) = ListenPeer(b) /\ ListenPeer(b) \in goal
  <2>1. ListenPeer(a) = ListenPeer(b)
    BY <1>2, PeersEqual
  <2>2. ListenPending(b.cls.addr, b.name)
    BY <1>1, <1>2, <1>3
  <2> QED BY <1>2, <2>1, <2>2 DEF IInv, ListensWalked
<1>5. /\ \A c \in conf.cle : c.cls.addr = sock /\ c.name = n => c = a
      /\ \A c \in newconf.cle : c.cls.addr = sock /\ c.name = n => c = b
  <2>1. \A c \in conf.cle : c.cls.addr = sock => c.cls = A
    BY <1>2, SocketFacts
  <2>2. \A c \in newconf.cle : c.cls.addr = sock => c.cls = B
    BY <1>2, SocketFacts
  <2> QED BY <1>2, <2>1, <2>2, SocketFacts
<1>6. Addrs(conf.cls)' = Addrs(conf.cls)
  BY <1>1 DEF Addrs
<1>7. ListensWalked'
  <2>1. \A c \in conf.cle : ListenPending(c.cls.addr, c.name)' \/ ListenPeer(c) \in goal
    BY <1>3, <1>4, <1>5 DEF IInv, ListensWalked
  <2>2. \A c \in newconf.cle : ListenPending(c.cls.addr, c.name)' => ListenPeer(c) \in goal
    BY <1>3 DEF IInv, ListensWalked
  <2>3. ASSUME NEW e \in goal, e.at # NULL, ListenPending(e.at, e.name)'
        PROVE  \E c \in newconf.cle : e = ListenPeer(c)
    BY <1>3, <2>3 DEF IInv, ListensWalked
  <2>4. ASSUME NEW e \in goal, e.at # NULL, ~ ListenPending(e.at, e.name)'
        PROVE  \/ \E c \in conf.cle : e = ListenPeer(c)
               \/ e \in refused /\ e.at \notin Addrs(conf.cls)
    <3>1. CASE e.at = sock /\ e.name = n
      <4>1. ListenPending(e.at, e.name)
        BY <1>1, <1>3, <3>1
      <4>2. PICK c \in newconf.cle : e = ListenPeer(c)
        BY <2>4, <4>1 DEF IInv, ListensWalked
      <4>3. c = b
        BY <1>5, <3>1, <4>2, ListenFields
      <4> QED BY <1>2, <1>4, <4>2, <4>3
    <3>2. CASE ~ (e.at = sock /\ e.name = n)
      <4>1. ~ ListenPending(e.at, e.name)
        BY <1>3, <2>4, <3>2
      <4> QED BY <2>4, <4>1 DEF IInv, ListensWalked
    <3> QED BY <3>1, <3>2
  <2> QED BY <1>1, <1>6, <2>1, <2>2, <2>3, <2>4 DEF ListensWalked, ListenPeer
<1>8. Refused'
  BY <1>1, <1>3, <1>6 DEF IInv, Refused, ListenPeer
<1>9. Trees'
  BY <1>1 DEF IInv, Trees, IsConf, ConnectTree, SocketTrees, IsConnectEntry, IsListenEntry
<1>10. Phases' /\ Registered'
  BY <1>1 DEF IInv, Phases, Registered
<1>11. InHand'
  BY <1>1, <1>6 DEF IInv, InHand, AddrPending
<1>12. ConnectsWalked'
  BY <1>1, ConnectsFrame
<1>13. SwitchStep
  BY <1>1 DEF SwitchStep, Switch!vars, Connecting, Listening
<1> QED BY <1>7, <1>8, <1>9, <1>10, <1>11, <1>12, <1>13 DEF IInv

(* Exchange() of the entries of a name. *)
KeyInHand(A, B, n, old, new) ==
    /\ sock # NULL /\ n \in inner
    /\ A \in conf.cls /\ A.addr = sock /\ B \in newconf.cls /\ B.addr = sock
    /\ old = {a \in conf.cle : a.cls = A /\ a.name = n}
    /\ new = {b \in newconf.cle : b.cls = B /\ b.name = n}
    /\ \A a \in old, b \in new : a.val # b.val
    /\ old \cup new # {}

LEMMA ExchangeStep ==
    ASSUME IInv, NEW A, NEW B, NEW n, NEW old, NEW new,
           KeyInHand(A, B, n, old, new), Exchange(A, B, old, new)
    PROVE  IInv' /\ SwitchStep
<1> DEFINE moved == {[b EXCEPT !.cls = A] : b \in new}
           back == {[a EXCEPT !.cls = B] : a \in old}
           clash == {b \in moved : Clashes(tles \ old, b)}
<1>1. CASE Die("crashed") \/ Die("aborted")
  BY <1>1, DieStep
<1>2. CASE /\ old \subseteq tles
           /\ conf' = [conf EXCEPT !.cle = (conf.cle \ old) \cup moved]
           /\ newconf' = [newconf EXCEPT !.cle = (newconf.cle \ new) \cup back]
           /\ tles' = (tles \ old) \cup (moved \ clash)
           /\ refused' = refused \cup Listening(clash)
           /\ inner' = inner \ Names(old \cup new)
           /\ UNCHANGED <<state, todo, sock, tcs, tls, goal>>
  <2>1. state = "listening_sockets"
    BY DEF KeyInHand, IInv, Phases
  <2>2. Names(old \cup new) = {n}
    BY DEF KeyInHand, Names
  <2>3. \A c, X : IsConf(c) => [c EXCEPT !.cle = X] = [cce |-> c.cce, cls |-> c.cls, cle |-> X]
    BY ConfFields
  <2>4. /\ conf' = [cce |-> conf.cce, cls |-> conf.cls, cle |-> (conf.cle \ old) \cup moved]
        /\ newconf' = [cce |-> newconf.cce, cls |-> newconf.cls, cle |-> (newconf.cle \ new) \cup back]
    <3> HIDE DEF moved, back, clash
    <3> QED BY <1>2, <2>3 DEF IInv, Trees
  <2>5. refused' = refused \cup {ListenPeer(a) : a \in clash}
    <3> HIDE DEF moved, back, clash
    <3> QED BY <1>2, PeerSets
  <2>6. clash \subseteq moved /\ \A b \in clash : \E t \in tles \ old : t.cls = b.cls /\ t.val.fp = b.val.fp
    BY DEF Clashes
  <2>7. EntrySwap(A, B, n, old, new, moved, back, clash)
    <3>1. moved = {[b EXCEPT !.cls = A] : b \in new} /\ back = {[a EXCEPT !.cls = B] : a \in old}
      OBVIOUS
    <3> HIDE DEF moved, back, clash
    <3> QED BY <1>2, <2>1, <2>2, <2>4, <2>5, <2>6, <3>1 DEF KeyInHand, EntrySwap
  <2> HIDE DEF moved, back, clash
  <2> QED BY <2>7, EntryIInv, EntrySwitch
<1> QED BY <1>1, <1>2 DEF Exchange, CanStop

LEMMA DiffListenStep ==
    ASSUME IInv, DiffListen
    PROVE  IInv' /\ SwitchStep
<1>1. PICK A \in conf.cls, B \in newconf.cls, n \in inner :
        /\ A.addr = sock /\ B.addr = sock
        /\ LET as == {a \in EntriesIn(conf, A) : a.name = n}
               bs == {b \in EntriesIn(newconf, B) : b.name = n}
           IN  \/ as = {} /\ \E b \in bs : cle_add(A, B, b)
               \/ \E a \in as, b \in bs : cle_mod(A, B, a, b)
               \/ bs = {} /\ \E a \in as : cle_del(A, B, a)
  BY DEF DiffListen
<1> DEFINE as == {a \in conf.cle : a.cls = A /\ a.name = n}
           bs == {b \in newconf.cle : b.cls = B /\ b.name = n}
<1>2. /\ as = {a \in EntriesIn(conf, A) : a.name = n}
      /\ bs = {b \in EntriesIn(newconf, B) : b.name = n}
  BY DEF EntriesIn
<1>3. sock # NULL /\ state = "listening_sockets"
  BY DEF DiffListen, IInv, Phases
<1>4. ASSUME Exchange(A, B, as, bs), \A a \in as, b \in bs : a.val # b.val, as \cup bs # {}
      PROVE  IInv' /\ SwitchStep
  <2>1. KeyInHand(A, B, n, as, bs)
    BY <1>1, <1>3, <1>4 DEF KeyInHand
  <2> HIDE DEF as, bs
  <2> QED BY <1>4, <2>1, ExchangeStep
<1>5. /\ \A a, c \in as : a = c
      /\ \A b, c \in bs : b = c
      /\ \A a \in as : IsListenEntry(a)
      /\ \A b \in bs : IsListenEntry(b)
  BY SocketFacts DEF IInv, Trees
<1>6. ASSUME as = {}, NEW b \in bs, cle_add(A, B, b) PROVE IInv' /\ SwitchStep
  <2>1. bs = {b}
    BY <1>5
  <2>2. Exchange(A, B, as, bs)
    BY <1>6, <2>1 DEF cle_add
  <2> QED BY <1>6, <1>4, <2>1, <2>2
<1>7. ASSUME bs = {}, NEW a \in as, cle_del(A, B, a) PROVE IInv' /\ SwitchStep
  <2>1. as = {a}
    BY <1>5
  <2>2. Exchange(A, B, as, bs)
    BY <1>7, <2>1 DEF cle_del
  <2> QED BY <1>7, <1>4, <2>1, <2>2
<1>8. ASSUME NEW a \in as, NEW b \in bs, cle_mod(A, B, a, b) PROVE IInv' /\ SwitchStep
  <2>1. as = {a} /\ bs = {b}
    BY <1>5
  <2>2. CASE SameListen(a, b)
    <3>1. a.val = b.val
      BY <1>5, <2>2, SameListenVal
    <3>2. /\ inner' = inner \ {n}
          /\ UNCHANGED <<state, conf, newconf, todo, sock, tcs, tls, tles, goal, refused>>
      BY <1>8, <2>2 DEF cle_mod, regs
    <3>3. EntryKept(A, B, n, a, b)
      BY <1>1, <1>3, <3>1, <3>2 DEF EntryKept
    <3> QED BY <3>3, KeptIInv
  <2>3. CASE ~ SameListen(a, b)
    <3>1. a.val # b.val
      BY <1>5, <2>3, SameListenVal
    <3>2. Exchange(A, B, as, bs)
      BY <1>8, <2>1, <2>3 DEF cle_mod
    <3>3. \A c \in as, d \in bs : c.val # d.val
      BY <2>1, <3>1
    <3> QED BY <1>4, <2>1, <3>2, <3>3
  <2> QED BY <2>2, <2>3
<1> QED BY <1>1, <1>2, <1>6, <1>7, <1>8

(* cls_mod() returns. *)
LEMMA ListensDoneStep ==
    ASSUME IInv, ListensDone
    PROVE  IInv' /\ SwitchStep
<1>1. /\ sock # NULL /\ inner = {} /\ sock' = NULL
      /\ UNCHANGED <<state, conf, newconf, todo, inner, tcs, tls, tles, goal, refused>>
  BY DEF ListensDone, regs
<1>2. state = "listening_sockets"
  BY <1>1 DEF IInv, Phases
<1>3. /\ \A j : AddrPending(j)' <=> AddrPending(j)
      /\ \A j, m : ListenPending(j, m)' <=> ListenPending(j, m)
  BY <1>1 DEF AddrPending, ListenPending
<1>4. Addrs(conf.cls)' = Addrs(conf.cls)
  BY <1>1 DEF Addrs
<1>5. ListensWalked'
  BY <1>1, <1>3, <1>4 DEF IInv, ListensWalked, ListenPeer
<1>6. Refused'
  BY <1>1, <1>3, <1>4 DEF IInv, Refused, ListenPeer
<1>7. ConnectsWalked'
  BY <1>1, <1>2, ConnectsFrame
<1>8. Trees'
  BY <1>1 DEF IInv, Trees, IsConf, ConnectTree, SocketTrees, IsConnectEntry, IsListenEntry
<1>9. Phases' /\ Registered' /\ InHand'
  BY <1>1, <1>2 DEF IInv, Phases, Registered, InHand
<1>10. SwitchStep
  BY <1>1 DEF SwitchStep, Switch!vars, Connecting, Listening
<1> QED BY <1>5, <1>6, <1>7, <1>8, <1>9, <1>10 DEF IInv

(* When nothing is pending what runs is the file less what was refused. *)
LEMMA WalkedAll ==
    ASSUME IInv, \A n : ~ ConnectPending(n), \A k, n : ~ ListenPending(k, n)
    PROVE  Running = goal \ refused
<1>1. ASSUME NEW e \in Running PROVE e \in goal /\ e \notin refused
  <2>1. CASE \E a \in tcs : e = ConnectPeer(a)
    BY <2>1, ConnectFields DEF IInv, Registered, ConnectsWalked, Refused
  <2>2. CASE \E a \in tles : e = ListenPeer(a)
    BY <2>2 DEF IInv, Registered, ListensWalked, Refused
  <2> QED BY <2>1, <2>2, RunningPeers
<1>2. ASSUME NEW e \in goal, e \notin refused PROVE e \in Running
  <2>1. CASE e.at = NULL
    BY <2>1, RunningPeers DEF IInv, Registered, ConnectsWalked
  <2>2. CASE e.at # NULL
    <3>1. PICK a \in conf.cle : e = ListenPeer(a)
      BY <1>2, <2>2 DEF IInv, ListensWalked
    <3>2. a \in tles
      BY <1>2, <3>1 DEF IInv, Refused
    <3> QED BY <3>1, <3>2, RunningPeers
  <2> QED BY <2>1, <2>2
<1> QED BY <1>1, <1>2

(* The end of got_sighup(). *)
LEMMA SocketsDoneStep ==
    ASSUME IInv, SocketsDone
    PROVE  IInv' /\ SwitchStep
<1>1. /\ state = "listening_sockets" /\ sock = NULL /\ todo = {} /\ state' = "idle"
      /\ newconf' = Empty
      /\ UNCHANGED <<conf, todo, sock, inner, tcs, tls, tles, goal, refused>>
  BY DEF SocketsDone, regs, walk
<1>2. /\ \A n : ~ ConnectPending(n) /\ ~ ConnectPending(n)'
      /\ \A k : ~ AddrPending(k) /\ ~ AddrPending(k)'
      /\ \A k, n : ~ ListenPending(k, n) /\ ~ ListenPending(k, n)'
  <2>1. inner = {}
    BY <1>1, BetweenSockets
  <2> QED BY <1>1, <2>1 DEF ConnectPending, AddrPending, ListenPending
<1>3. newconf'.cce = {} /\ newconf'.cls = {} /\ newconf'.cle = {}
  BY <1>1 DEF Empty
<1>4. Trees'
  <2>1. /\ conf' = [cce |-> conf'.cce, cls |-> conf'.cls, cle |-> conf'.cle]
        /\ ConnectTree(conf'.cce) /\ SocketTrees(conf'.cls, conf'.cle)
    BY <1>1 DEF IInv, Trees, IsConf
  <2>2. newconf' = [cce |-> newconf'.cce, cls |-> newconf'.cls, cle |-> newconf'.cle]
    BY <1>1 DEF Empty
  <2>3. ConnectTree(newconf'.cce) /\ SocketTrees(newconf'.cls, newconf'.cle)
    BY <1>3 DEF ConnectTree, SocketTrees
  <2> QED BY <2>1, <2>2, <2>3, TreesPrime
<1>5. Phases' /\ Registered' /\ InHand'
  BY <1>1 DEF IInv, Phases, Registered, InHand
<1>6. Addrs(conf.cls)' = Addrs(conf.cls)
  BY <1>1 DEF Addrs
<1>7. ConnectsWalked'
  BY <1>1, <1>2, <1>3 DEF IInv, ConnectsWalked, ConnectPeer
<1>8. ListensWalked'
  BY <1>1, <1>2, <1>3, <1>6 DEF IInv, ListensWalked, ListenPeer
<1>9. Refused'
  BY <1>1, <1>2, <1>6 DEF IInv, Refused, ListenPeer
<1>10. SwitchStep
  <2>1. Running = goal \ refused
    BY <1>2, WalkedAll
  <2> QED BY <1>1, <2>1 DEF SwitchStep, Running, Switch!Next, Switch!Finish, Connecting, Listening
<1> QED BY <1>4, <1>5, <1>7, <1>8, <1>9, <1>10 DEF IInv

---------------------------------------------------------------------------
(* Start, stop, and the beginning of a reload.                             *)

(* Between reloads, and when the daemon is gone, nothing is pending. *)
LEMMA NothingPending ==
    ASSUME state \notin {"connect_entries", "listening_sockets"}
    PROVE  /\ \A n : ~ ConnectPending(n)
           /\ \A k : ~ AddrPending(k)
           /\ \A k, n : ~ ListenPending(k, n)
BY DEF ConnectPending, AddrPending, ListenPending

LEMMA NothingPendingPrime ==
    ASSUME state' \notin {"connect_entries", "listening_sockets"}
    PROVE  /\ \A n : ~ ConnectPending(n)'
           /\ \A k : ~ AddrPending(k)'
           /\ \A k, n : ~ ListenPending(k, n)'
BY DEF ConnectPending, AddrPending, ListenPending

(* Of a daemon that is gone there is nothing. *)
LEMMA Gone ==
    ASSUME IInv, state \in {"off", "aborted", "crashed"}
    PROVE  /\ conf = Empty /\ newconf = Empty /\ goal = {} /\ refused = {}
           /\ sock = NULL /\ inner = {} /\ tcs = {} /\ tls = {} /\ tles = {}
           /\ conf.cce = {} /\ conf.cls = {} /\ conf.cle = {}
           /\ newconf.cce = {} /\ newconf.cls = {} /\ newconf.cle = {}
<1>1. /\ conf = Empty /\ newconf = Empty /\ goal = {} /\ refused = {} /\ sock = NULL /\ inner = {}
  BY DEF IInv, Phases
<1>2. /\ conf.cce = {} /\ conf.cls = {} /\ conf.cle = {}
      /\ newconf.cce = {} /\ newconf.cls = {} /\ newconf.cle = {}
  BY <1>1, EmptyIsConf
<1>3. tcs = {} /\ tls = {} /\ tles = {}
  BY <1>2 DEF IInv, Registered
<1> QED BY <1>1, <1>2, <1>3

LEMMA EmptyIInvPrime ==
    ASSUME state' \in {"off", "aborted", "crashed"}, conf' = Empty, newconf' = Empty,
           goal' = {}, refused' = {}, sock' = NULL, inner' = {}, tcs' = {}, tls' = {}, tles' = {}
    PROVE  IInv'
<1>1. /\ conf'.cce = {} /\ conf'.cls = {} /\ conf'.cle = {}
      /\ newconf'.cce = {} /\ newconf'.cls = {} /\ newconf'.cle = {}
  BY EmptyIsConf
<1>2. Trees'
  <2>1. /\ conf' = [cce |-> conf'.cce, cls |-> conf'.cls, cle |-> conf'.cle]
        /\ newconf' = [cce |-> newconf'.cce, cls |-> newconf'.cls, cle |-> newconf'.cle]
    BY DEF Empty
  <2>2. /\ ConnectTree(conf'.cce) /\ SocketTrees(conf'.cls, conf'.cle)
        /\ ConnectTree(newconf'.cce) /\ SocketTrees(newconf'.cls, newconf'.cle)
    BY <1>1 DEF ConnectTree, SocketTrees
  <2> QED BY <2>1, <2>2, TreesPrime
<1>3. Phases' /\ Registered' /\ InHand'
  BY <1>1 DEF Phases, Registered, InHand, Empty
<1>4. ConnectsWalked' /\ ListensWalked' /\ Refused'
  BY <1>1 DEF ConnectsWalked, ListensWalked, Refused
<1> QED BY <1>2, <1>3, <1>4 DEF IInv

(* The peers of a configuration. *)
LEMMA PeersOfConf ==
    ASSUME NEW c, NEW e
    PROVE  e \in PeersOf(c) <=> \/ \E a \in c.cce : e = ConnectPeer(a)
                                \/ \E a \in c.cle : e = ListenPeer(a)
BY PeerSets DEF PeersOf

(* start_config(): what it registers and what it does not. *)
Started(c) ==
    /\ IsConf(c) /\ state = "off" /\ state' = "idle"
    /\ conf' = c /\ tcs' = c.cce /\ tls' = c.cls
    /\ tles' = UNION {FirstOfFp(EntriesIn(c, s)) : s \in c.cls}
    /\ goal' = PeersOf(c)
    /\ refused' = {ListenPeer(a) : a \in c.cle \ tles'}
    /\ UNCHANGED <<newconf, todo, sock, inner>>

LEMMA StartedEntries ==
    ASSUME NEW c, Started(c)
    PROVE  /\ tles' \subseteq c.cle
           /\ \A a \in c.cle : \E b \in tles' : b.cls = a.cls /\ b.val.fp = a.val.fp
           /\ \A a, b \in c.cle : ListenPeer(a) = ListenPeer(b) => a = b
           /\ \A a \in c.cle : a.cls.addr # NULL
<1>1. IsConf(c) /\ tles' = UNION {FirstOfFp(EntriesIn(c, s)) : s \in c.cls}
  BY DEF Started
<1>2. tles' \subseteq c.cle
  BY <1>1 DEF FirstOfFp, EntriesIn
<1>3. ASSUME NEW a \in c.cle PROVE \E b \in tles' : b.cls = a.cls /\ b.val.fp = a.val.fp
  <2>1. a.cls \in c.cls /\ a \in EntriesIn(c, a.cls)
    BY <1>1, SocketFacts DEF EntriesIn
  <2>2. \A b \in EntriesIn(c, a.cls) : b.name \in Nat /\ b.cls = a.cls
    BY <1>1, SocketFacts DEF EntriesIn, IsListenEntry
  <2>3. PICK b \in FirstOfFp(EntriesIn(c, a.cls)) : b.val.fp = a.val.fp
    BY <2>1, <2>2, FirstExists
  <2>4. b \in tles' /\ b \in EntriesIn(c, a.cls)
    BY <1>1, <2>1 DEF FirstOfFp
  <2> QED BY <2>2, <2>3, <2>4
<1>4. \A a, b \in c.cle : ListenPeer(a) = ListenPeer(b) => a = b
  BY <1>1, SocketFacts, PeersEqual
<1>5. \A a \in c.cle : a.cls.addr # NULL
  BY <1>1, SocketFacts
<1> QED BY <1>2, <1>3, <1>4, <1>5

LEMMA StartedIInv ==
    ASSUME IInv, NEW c, Started(c)
    PROVE  IInv'
<1>1. /\ IsConf(c) /\ state = "off" /\ state' = "idle"
      /\ conf' = c /\ tcs' = c.cce /\ tls' = c.cls /\ goal' = PeersOf(c)
      /\ refused' = {ListenPeer(a) : a \in c.cle \ tles'}
      /\ newconf' = newconf /\ sock' = sock /\ inner' = inner
  BY DEF Started
<1>2. /\ newconf' = Empty /\ sock' = NULL /\ inner' = {}
      /\ newconf'.cce = {} /\ newconf'.cls = {} /\ newconf'.cle = {}
  BY <1>1, Gone
<1>3. /\ \A n : ~ ConnectPending(n)'
      /\ \A k : ~ AddrPending(k)'
      /\ \A k, n : ~ ListenPending(k, n)'
  BY <1>1, NothingPendingPrime
<1>4. Trees'
  <2>1. /\ conf' = [cce |-> conf'.cce, cls |-> conf'.cls, cle |-> conf'.cle]
        /\ ConnectTree(conf'.cce) /\ SocketTrees(conf'.cls, conf'.cle)
    BY <1>1 DEF IsConf
  <2>2. newconf' = [cce |-> newconf'.cce, cls |-> newconf'.cls, cle |-> newconf'.cle]
    BY <1>2 DEF Empty
  <2>3. ConnectTree(newconf'.cce) /\ SocketTrees(newconf'.cls, newconf'.cle)
    BY <1>2 DEF ConnectTree, SocketTrees
  <2> QED BY <2>1, <2>2, <2>3, TreesPrime
<1>5. Phases' /\ Registered' /\ InHand'
  BY <1>1, <1>2, StartedEntries DEF Phases, Registered, InHand
<1>6. ConnectsWalked'
  <2>1. \A a \in c.cce : ConnectPeer(a) \in goal'
    BY <1>1, PeersOfConf
  <2>2. ASSUME NEW e \in goal', e.at = NULL PROVE \E a \in c.cce : e = ConnectPeer(a)
    <3>1. \A a \in c.cle : ListenPeer(a).at # NULL
      BY StartedEntries, ListenFields
    <3> QED BY <1>1, <2>2, <3>1, PeersOfConf
  <2> QED BY <1>1, <1>2, <1>3, <2>1, <2>2 DEF ConnectsWalked, ConnectPeer
<1>7. ListensWalked'
  <2>1. \A a \in c.cle : ListenPeer(a) \in goal'
    BY <1>1, PeersOfConf
  <2>2. ASSUME NEW e \in goal', e.at # NULL PROVE \E a \in c.cle : e = ListenPeer(a)
    BY <1>1, <2>2, PeersOfConf, ConnectFields
  <2> QED BY <1>1, <1>2, <1>3, <2>1, <2>2 DEF ListensWalked, ListenPeer
<1>8. Refused'
  <2>1. \A e \in refused' : e \in goal' /\ e.at # NULL /\ \E a \in c.cle : e = ListenPeer(a)
    <3>1. \A a \in c.cle : ListenPeer(a).at # NULL
      BY StartedEntries, ListenFields
    <3> QED BY <1>1, <3>1, PeersOfConf
  <2>2. \A a \in tles' : ListenPeer(a) \notin refused'
    BY <1>1, StartedEntries
  <2>3. \A a \in c.cle \ tles' : ListenPeer(a) \in refused'
    BY <1>1
  <2> QED BY <1>1, <2>1, <2>2, <2>3 DEF Refused, ListenPeer
<1> QED BY <1>4, <1>5, <1>6, <1>7, <1>8 DEF IInv

LEMMA StartedSwitch ==
    ASSUME IInv, NEW c, Started(c)
    PROVE  SwitchStep
<1>1. /\ IsConf(c) /\ state = "off" /\ state' = "idle"
      /\ conf' = c /\ tcs' = c.cce /\ goal' = PeersOf(c)
      /\ refused' = {ListenPeer(a) : a \in c.cle \ tles'}
  BY DEF Started
<1>2. Running = {}
  BY <1>1, Gone DEF Running, Connecting, Listening
<1>3. ASSUME NEW e \in Running' PROVE e \in goal' /\ e \notin refused'
  <2>1. CASE \E a \in tcs' : e = ConnectPeer(a)
    <3>1. e \in goal' /\ e.at = NULL
      BY <1>1, <2>1, PeersOfConf, ConnectFields
    <3>2. \A a \in c.cle : ListenPeer(a).at # NULL
      BY StartedEntries, ListenFields
    <3> QED BY <1>1, <3>1, <3>2
  <2>2. CASE \E a \in tles' : e = ListenPeer(a)
    BY <1>1, <2>2, PeersOfConf, StartedEntries
  <2> QED BY <2>1, <2>2, RunningPeersPrime
<1>4. ASSUME NEW e \in goal', e \notin refused' PROVE e \in Running'
  <2>1. CASE \E a \in c.cce : e = ConnectPeer(a)
    BY <1>1, <2>1, RunningPeersPrime
  <2>2. CASE \E a \in c.cle : e = ListenPeer(a)
    BY <1>1, <1>4, <2>2, RunningPeersPrime
  <2> QED BY <1>1, <2>1, <2>2, PeersOfConf
<1>5. Running' = goal' \ refused'
  BY <1>3, <1>4
<1>6. ASSUME NEW e \in refused'
      PROVE  e \in goal' /\ e \notin Running' /\ Switch!CannotStart(e, Running')
  <2>1. PICK a \in c.cle : e = ListenPeer(a)
    BY <1>1
  <2>2. PICK b \in tles' : b.cls = a.cls /\ b.val.fp = a.val.fp
    BY StartedEntries
  <2>3. ListenPeer(b) \in Running'
    BY RunningPeersPrime
  <2>4. e.at # NULL /\ ListenPeer(b).at = e.at /\ ListenPeer(b).val.fp = e.val.fp
    <3>1. a.cls.addr # NULL
      BY StartedEntries
    <3> QED BY <2>1, <2>2, <3>1, ListenFields
  <2>5. Switch!CannotStart(e, Running')
    BY <2>3, <2>4 DEF Switch!CannotStart
  <2>6. e \in goal'
    BY <1>1, <2>1, PeersOfConf
  <2> QED BY <1>5, <2>5, <2>6
<1>7. Switch!Boot
  <2>1. /\ {} \subseteq refused' /\ refused' \subseteq goal' \ Running'
        /\ \A e \in refused' \ {} : Switch!CannotStart(e, Running')
    BY <1>6
  <2>2. /\ ~ (state \in {"connect_entries", "listening_sockets"})
        /\ (state' \in {"connect_entries", "listening_sockets"}) = FALSE
    BY <1>1
  <2> QED BY <1>2, <1>5, <2>1, <2>2 DEF Switch!Boot, Switch!Refusals, Running
<1> QED BY <1>7 DEF SwitchStep, Switch!Next

LEMMA StartStep ==
    ASSUME IInv, NEW f \in Files, Start(f)
    PROVE  IInv' /\ SwitchStep
<1> DEFINE c == parse_config(f, FreeGen)
<1>1. IsConf(c)
  BY ParseIsConf
<1>2. /\ state = "off" /\ state' = "idle"
      /\ conf' = c /\ tcs' = c.cce /\ tls' = c.cls
      /\ tles' = UNION {FirstOfFp(EntriesIn(c, s)) : s \in c.cls}
      /\ goal' = PeersOf(c)
      /\ refused' = Listening(c.cle \ tles')
      /\ UNCHANGED <<newconf, todo, sock, inner>>
  BY DEF Start, walk
<1> HIDE DEF c
<1>3. Started(c)
  BY <1>1, <1>2, PeerSets DEF Started
<1> QED BY <1>3, StartedIInv, StartedSwitch

LEMMA RestartStep ==
    ASSUME IInv, Restart
    PROVE  IInv' /\ SwitchStep
<1>1. /\ state \in {"aborted", "crashed"} /\ state' = "off"
      /\ UNCHANGED <<conf, newconf, sock, inner, tcs, tls, tles, goal, refused>>
  BY DEF Restart, walk, regs
<1>2. IInv'
  BY <1>1, Gone, EmptyIInvPrime
<1>3. SwitchStep
  BY <1>1, Gone, IsExit
<1> QED BY <1>2, <1>3

LEMMA SigintStep ==
    ASSUME IInv, got_sigint
    PROVE  IInv' /\ SwitchStep
<1>1. CASE Die("crashed")
  BY <1>1, DieStep
<1>2. CASE /\ state' = "off"
           /\ tcs' = tcs \ conf.cce
           /\ tls' = tls \ conf.cls
           /\ tles' = (tles \ conf.cle) \ {t \in tles : t.cls \in conf.cls}
           /\ conf' = Empty /\ goal' = {} /\ refused' = {}
           /\ UNCHANGED <<newconf, walk>>
  <2>1. tcs' = {} /\ tls' = {} /\ tles' = {}
    BY <1>2 DEF IInv, Registered
  <2>2. newconf' = Empty /\ sock' = NULL /\ inner' = {}
    BY <1>2 DEF got_sigint, IInv, Phases, walk
  <2>3. IInv'
    BY <1>2, <2>1, <2>2, EmptyIInvPrime
  <2>4. SwitchStep
    BY <1>2, <2>1, IsExit
  <2> QED BY <2>3, <2>4
<1> QED BY <1>1, <1>2 DEF got_sigint

(* got_sighup() has read the file. *)
Loaded(c) ==
    /\ IsConf(c) /\ state = "idle" /\ state' = "connect_entries"
    /\ newconf' = c /\ todo' = Names(conf.cce) \cup Names(c.cce)
    /\ goal' = PeersOf(c)
    /\ refused' = {ListenPeer(a) : a \in conf.cle \ tles} \cap goal'
    /\ UNCHANGED <<conf, sock, inner, tcs, tls, tles>>

LEMMA LoadedIInv ==
    ASSUME IInv, NEW c, Loaded(c)
    PROVE  IInv' /\ SwitchStep
<1>1. /\ IsConf(c) /\ state = "idle" /\ state' = "connect_entries" /\ newconf' = c
      /\ todo' = Names(conf.cce) \cup Names(c.cce) /\ goal' = PeersOf(c)
      /\ refused' = {ListenPeer(a) : a \in conf.cle \ tles} \cap goal'
      /\ UNCHANGED <<conf, sock, inner, tcs, tls, tles>>
  BY DEF Loaded
<1>2. /\ \A n : ConnectPending(n)' <=> n \in todo'
      /\ \A k : AddrPending(k)'
      /\ \A k, n : ListenPending(k, n)'
  BY <1>1 DEF ConnectPending, AddrPending, ListenPending
<1>3. /\ \A a \in conf.cce : a.name \in todo'
      /\ \A a \in c.cce : a.name \in todo'
  BY <1>1 DEF Names
<1>4. \A a \in c.cle : a.cls.addr # NULL
  BY <1>1, SocketFacts
<1>5. \A a \in conf.cle : a.cls.addr # NULL
  BY SocketFacts DEF IInv, Trees
<1>6. Trees'
  <2>1. /\ conf' = [cce |-> conf'.cce, cls |-> conf'.cls, cle |-> conf'.cle]
        /\ ConnectTree(conf'.cce) /\ SocketTrees(conf'.cls, conf'.cle)
    BY <1>1 DEF IInv, Trees, IsConf
  <2>2. /\ newconf' = [cce |-> newconf'.cce, cls |-> newconf'.cls, cle |-> newconf'.cle]
        /\ ConnectTree(newconf'.cce) /\ SocketTrees(newconf'.cls, newconf'.cle)
    BY <1>1 DEF IsConf
  <2> QED BY <2>1, <2>2, TreesPrime
<1>7. Phases' /\ Registered' /\ InHand'
  BY <1>1 DEF IInv, Phases, Registered, InHand
<1>8. ConnectsWalked'
  <2>1. \A a \in conf.cce : ConnectPending(a.name)'
    BY <1>2, <1>3
  <2>2. \A b \in c.cce : ConnectPeer(b) \in goal'
    BY <1>1, PeersOfConf
  <2>3. ASSUME NEW e \in goal', e.at = NULL
        PROVE  ConnectPending(e.name)' /\ \E b \in c.cce : e = ConnectPeer(b)
    <3>1. PICK b \in c.cce : e = ConnectPeer(b)
      BY <1>1, <1>4, <2>3, PeersOfConf, ListenFields
    <3> QED BY <1>2, <1>3, <3>1, ConnectFields
  <2> QED BY <1>1, <2>1, <2>2, <2>3 DEF ConnectsWalked, ConnectPeer
<1>9. ListensWalked'
  <2>1. \A b \in c.cle : ListenPeer(b) \in goal'
    BY <1>1, PeersOfConf
  <2>2. ASSUME NEW e \in goal', e.at # NULL PROVE \E b \in c.cle : e = ListenPeer(b)
    BY <1>1, <2>2, PeersOfConf, ConnectFields
  <2> QED BY <1>1, <1>2, <2>1, <2>2 DEF ListensWalked, ListenPeer
<1>10. Refused'
  <2>1. \A e \in refused' : e \in goal' /\ e.at # NULL /\ \E a \in conf.cle : e = ListenPeer(a)
    BY <1>1, <1>5, ListenFields
  <2>2. \A a, b \in conf.cle : ListenPeer(a) = ListenPeer(b) => a = b
    <3>1. \A a, b \in conf.cle : a.cls.addr = b.cls.addr /\ a.name = b.name => a = b
      BY SocketFacts DEF IInv, Trees
    <3> QED BY <3>1, PeersEqual
  <2>3. \A a \in tles : a \in conf.cle
    BY DEF IInv, Registered
  <2>4. \A a \in tles : ListenPeer(a) \notin refused'
    BY <1>1, <2>2, <2>3
  <2>5. \A a \in conf.cle \ tles : ListenPeer(a) \in goal' => ListenPeer(a) \in refused'
    BY <1>1
  <2> QED BY <1>1, <2>1, <2>4, <2>5 DEF Refused, ListenPeer
<1>11. SwitchStep
  <2>1. \A a \in conf.cle \ tles : ListenPeer(a) \in refused
    BY <1>1, NothingPending DEF IInv, ListensWalked, Refused
  <2>2. refused' \subseteq refused \cap goal'
    BY <1>1, <2>1
  <2>3. Switch!Load
    BY <1>1, <2>2 DEF Switch!Load, Connecting, Listening
  <2> QED BY <2>3 DEF SwitchStep, Switch!Next
<1> QED BY <1>6, <1>7, <1>8, <1>9, <1>10, <1>11 DEF IInv

LEMMA SighupStep ==
    ASSUME IInv, NEW f \in Files, got_sighup(f)
    PROVE  IInv' /\ SwitchStep
<1> DEFINE c == parse_config(f, FreeGen)
<1>1. IsConf(c)
  BY ParseIsConf
<1>2. /\ state = "idle" /\ state' = "connect_entries" /\ newconf' = c
      /\ todo' = Names(conf.cce) \cup Names(newconf'.cce)
      /\ goal' = PeersOf(newconf') /\ refused' = Listening(conf.cle \ tles) \cap goal'
      /\ UNCHANGED <<conf, sock, inner, tcs, tls, tles>>
  BY DEF got_sighup, regs
<1> HIDE DEF c
<1>3. Loaded(c)
  BY <1>1, <1>2, PeerSets DEF Loaded
<1> QED BY <1>3, LoadedIInv

---------------------------------------------------------------------------
LEMMA InitIInv == Init => IInv
<1> SUFFICES ASSUME Init PROVE IInv
  OBVIOUS
<1>1. /\ state = "off" /\ conf = Empty /\ newconf = Empty /\ sock = NULL /\ inner = {}
      /\ tcs = {} /\ tls = {} /\ tles = {} /\ goal = {} /\ refused = {}
  BY DEF Init
<1>2. /\ conf.cce = {} /\ conf.cls = {} /\ conf.cle = {}
      /\ newconf.cce = {} /\ newconf.cls = {} /\ newconf.cle = {}
  BY <1>1, EmptyIsConf
<1>3. Trees
  BY <1>1, EmptyIsConf DEF Trees
<1>4. Phases /\ Registered /\ InHand
  BY <1>1, <1>2 DEF Phases, Registered, InHand
<1>5. ConnectsWalked /\ ListensWalked /\ Refused
  BY <1>1, <1>2 DEF ConnectsWalked, ListensWalked, Refused
<1> QED BY <1>3, <1>4, <1>5 DEF IInv

LEMMA NextStep == IInv /\ [Next]_vars => IInv' /\ SwitchStep
<1> SUFFICES ASSUME IInv, [Next]_vars PROVE IInv' /\ SwitchStep
  OBVIOUS
<1>1. CASE UNCHANGED vars
  <2>1. UNCHANGED <<state, conf, newconf, todo, sock, inner, tcs, tls, tles, goal, refused>>
    BY <1>1 DEF vars, walk, regs
  <2>2. Trees'
    BY <2>1 DEF IInv, Trees, IsConf, ConnectTree, SocketTrees, IsConnectEntry, IsListenEntry
  <2>3. Phases' /\ Registered' /\ InHand'
    BY <2>1 DEF IInv, Phases, Registered, InHand, AddrPending, Addrs
  <2>4. ConnectsWalked'
    BY <2>1 DEF IInv, ConnectsWalked, ConnectPeer, ConnectPending
  <2>5. ListensWalked' /\ Refused'
    <3>1. Addrs(conf.cls)' = Addrs(conf.cls)
      BY <2>1 DEF Addrs
    <3>2. /\ \A k : AddrPending(k)' <=> AddrPending(k)
          /\ \A k, n : ListenPending(k, n)' <=> ListenPending(k, n)
      BY <2>1 DEF AddrPending, ListenPending
    <3>3. ListensWalked'
      BY <2>1, <3>1, <3>2 DEF IInv, ListensWalked, ListenPeer
    <3>4. Refused'
      BY <2>1, <3>1, <3>2 DEF IInv, Refused, ListenPeer
    <3> QED BY <3>3, <3>4
  <2>6. SwitchStep
    BY <2>1 DEF SwitchStep, Switch!vars, Connecting, Listening
  <2> QED BY <2>2, <2>3, <2>4, <2>5, <2>6 DEF IInv
<1>2. CASE \E f \in Files : Start(f) \/ got_sighup(f)
  BY <1>2, StartStep, SighupStep
<1>3. CASE Restart
  BY <1>3, RestartStep
<1>4. CASE got_sigint
  BY <1>4, SigintStep
<1>5. CASE DiffConnect
  BY <1>5, DiffConnectStep
<1>6. CASE ConnectsDone
  BY <1>6, ConnectsDoneStep
<1>7. CASE DiffSockets
  BY <1>7, DiffSocketsStep
<1>8. CASE DiffListen
  BY <1>8, DiffListenStep
<1>9. CASE ListensDone
  BY <1>9, ListensDoneStep
<1>10. CASE SocketsDone
  BY <1>10, SocketsDoneStep
<1> QED BY <1>1, <1>2, <1>3, <1>4, <1>5, <1>6, <1>7, <1>8, <1>9, <1>10 DEF Next

LEMMA IInvRegistered == IInv => RegisteredIsConf
<1> SUFFICES ASSUME IInv, state \in {"off", "idle"} PROVE RegisteredIsConf
  BY DEF RegisteredIsConf
<1>1. /\ \A k : ~ AddrPending(k)
      /\ \A k, n : ~ ListenPending(k, n)
  BY NothingPending
<1>2. tcs = conf.cce /\ tls = conf.cls /\ tles \subseteq conf.cle
  BY DEF IInv, Registered
<1>3. \A a \in conf.cle \ tles : ListenPeer(a) \in refused
  BY <1>1 DEF IInv, ListensWalked, Refused
<1>4. \A e \in refused : e.at \in Addrs(conf.cls) => \E a \in conf.cle : e = ListenPeer(a)
  BY DEF IInv, Refused
<1> QED BY <1>2, <1>3, <1>4, PeerSets DEF RegisteredIsConf

(* Whatever files are written and however often the daemon is told to read *)
(* one, between two events exactly the objects of the configuration in     *)
(* force are registered (got_sighup(), diff_configs(), avl_diff()), less   *)
(* the entries start_conf_listen_entry() could not register.               *)
THEOREM ReloadKeepsBooks == Spec => []RegisteredIsConf
<1>1. Init => IInv
  BY InitIInv
<1>2. IInv /\ [Next]_vars => IInv'
  BY NextStep
<1>3. IInv => RegisteredIsConf
  BY IInvRegistered
<1> QED BY <1>1, <1>2, <1>3, PTL DEF Spec

(* A reload takes the daemon from the peers it serves to those of the new  *)
(* file as ConfigSwitch says: it interrupts none that both files have,     *)
(* starts none that the new one lacks, and at its end serves all of the    *)
(* new file but those it had a reason to refuse.                           *)
THEOREM ReloadIsSwitch == Spec => ImplementsSwitch
<1>1. Init => IInv /\ Switch!Init
  <2>1. Init => Switch!Init
    BY DEF Init, Switch!Init, Connecting, Listening
  <2> QED BY <2>1, InitIInv
<1>2. IInv /\ [Next]_vars => IInv' /\ [Switch!Next]_(Switch!vars)
  BY NextStep DEF SwitchStep
<1> QED BY <1>1, <1>2, PTL DEF Spec, ImplementsSwitch, Switch!Spec
=============================================================================
