---------------------------- MODULE DirectPeers ----------------------------
(***************************************************************************)
(* The peers a node is directly connected to: the incoming TLS connections *)
(* of one listening socket (tconn_listen.c), the listen_entry_conn and     *)
(* connect_entry_conn objects dvpn.c makes for connections that are up,    *)
(* the direct_peers tree, and the PEER attributes of the node's own LSA.   *)
(*                                                                         *)
(* The TLS handshake (module Tconn) and the outgoing connections (module   *)
(* TconnConnect) are the environment.  Everything runs in one thread, but  *)
(* a client_conn goes through three states in three callbacks, and in      *)
(* between its listen entry may be unregistered, or the limit on its       *)
(* entry's connections be reached by others.  Timers are left out: every   *)
(* way a connection can fail is ConnLost.                                  *)
(***************************************************************************)
EXTENDS Integers, Sequences, FiniteSets

CONSTANTS
    Me,         \* keyid
    KeyIds,     \* key ids peers prove
    Presented,  \* the lists of key ids a peer may prove
    Entries,    \* the listen entries of the configuration
    Fp,         \* Fp[e]: the fingerprint of entry e, or ANY
    Limit,      \* Limit[e]: cle->conn_limit
    Outgoing,   \* the connect entries of the configuration
    DbOnly,     \* the entries with PeerType dbonly
    Conns,      \* client_conns that can exist at one time
    ANY, NULL

(* conf.c refuses a limit below 1 and a second wildcard entry; that no two *)
(* entries have the same fingerprint is left to whoever writes the file.   *)
ASSUME ConfAssumption ==
    /\ Fp \in [Entries -> KeyIds \cup {ANY}]
    /\ \A e, f \in Entries : Fp[e] = Fp[f] => e = f
    /\ Limit \in [Entries -> Nat \ {0}]
    /\ DbOnly \subseteq Entries \cup Outgoing

ASSUME KeyAssumption ==
    /\ Presented \subseteq Seq(KeyIds) \ {<<>>}
    /\ ANY \notin KeyIds /\ NULL \notin KeyIds \cup Entries \cup Conns
    /\ IsFiniteSet(Conns)

VARIABLES
    listening,      \* the tconn_listen_socket is registered
    registered,     \* the entries in tls->listen_entries
    st,             \* st[c]: client_conn.state, FREE when there is none
    tle,            \* client_conn.tle
    id,             \* client_conn.id
    lecs,           \* lecs[e]: cle->connections, by their client_conn
    num,            \* num[e]: cle->num_connections
    cec,            \* cec[k]: the peerid of k's connect_entry_conn, or NULL
    direct_peers,   \* the ids whose address is in direct_peers
    mypeers,        \* the PEER attributes of me
    aborted         \* insertion of a key that is there: abort()

cvars == <<st, tle, id>>
pvars == <<direct_peers, mypeers, aborted>>
vars == <<listening, registered, cvars, lecs, num, cec, pvars>>

---------------------------------------------------------------------------
(* tconn_listen.c: verify_key_ids(), find_listen_entry() and               *)
(* find_wildcard_listen_entry().  The first id that an entry names decides,*)
(* the wildcard entry comes last.                                          *)
Matches(ids) ==
    LET Named(n) == {e \in registered : Fp[e] = ids[n]}
        first == {n \in 1..Len(ids) : Named(n) # {} /\ \A m \in 1..(n-1) : Named(m) = {}}
    IN  IF first # {} THEN UNION {Named(n) : n \in first}
        ELSE {e \in registered : Fp[e] = ANY}

(* The conns C are freed, the listen_entry_conns of those that are         *)
(* CONNECTED destroyed first: lec_destroy() and client_conn_kill(),        *)
(* whichever calls the other.  The lists are left to the actions.          *)
Up(C) == {c \in C : st[c] = "CONNECTED"}
Ids(C) == {id[c] : c \in C}

Freed(C) == st' = [c \in Conns |-> IF c \in C THEN "FREE" ELSE st[c]]

(* Mutants: a conn that never got to CONNECTED counts, too; the count is   *)
(* kept; the LSA keeps the PEER attribute.                                 *)
FewerForAll(C) ==
    [e \in Entries |->
        num[e] - Cardinality({c \in C : st[c] # "TLS_HANDSHAKE" /\ tle[c] = e})]
FewerNever(C) == num
MyPeersKept(C) == mypeers

(* iv_list_del() of c's element, if it is on the list s. *)
Unlink(s, c) ==
    IF \E n \in 1..Len(s) : s[n] = c
    THEN LET m == CHOOSE n \in 1..Len(s) : s[n] = c
         IN  [n \in 1..(Len(s) - 1) |-> s[IF n < m THEN n ELSE n + 1]]
    ELSE s

Without(c) == [e \in Entries |-> Unlink(lecs[e], c)]
Fewer(C) == [e \in Entries |-> num[e] - Cardinality({c \in Up(C) : tle[c] = e})]
PeersWithout(C) == direct_peers \ Ids(Up(C))
MyPeersWithout(C) == mypeers \ Ids({c \in Up(C) : tle[c] \notin DbOnly})

Drop(C) ==
    /\ Freed(C)
    /\ num' = Fewer(C)
    /\ direct_peers' = PeersWithout(C)
    /\ mypeers' = MyPeersWithout(C)
    /\ UNCHANGED <<tle, id, aborted>>

(* mylsa_add_peer(), unless the entry is dbonly, and the insertion into    *)
(* direct_peers.  Both abort when the peer is there already.               *)
AddPeer(dp, my, i, dbonly) ==
    /\ aborted' = (i \in dp \/ (~ dbonly /\ i \in my))
    /\ direct_peers' = dp \cup {i}
    /\ mypeers' = IF dbonly THEN my ELSE my \cup {i}

---------------------------------------------------------------------------
(* start_conf_listening_socket(), up to its entries. *)
SocketRegister ==
    /\ ~ aborted /\ ~ listening
    /\ listening' = TRUE
    /\ UNCHANGED <<registered, cvars, lecs, num, cec, pvars>>

(* start_conf_listen_entry() *)
EntryRegister(e) ==
    /\ ~ aborted /\ listening /\ e \notin registered
    /\ registered' = registered \cup {e}
    /\ num' = [num EXCEPT ![e] = 0]
    /\ lecs' = [lecs EXCEPT ![e] = <<>>]
    /\ UNCHANGED <<listening, cvars, cec, pvars>>

(* stop_conf_listen_entry(): its lecs are destroyed with their             *)
(* connections, then the connections still in the handshake.               *)
(* Mutant: connections in the handshake are not the entry's yet. *)
OfEntryConnected(e) == {c \in Conns : st[c] = "CONNECTED" /\ tle[c] = e}

OfEntry(e) ==
    {c \in Conns : st[c] \in {"KEY_ID_VERIFIED", "CONNECTED"} /\ tle[c] = e}

EntryUnregister(e) ==
    /\ ~ aborted /\ e \in registered
    /\ registered' = registered \ {e}
    /\ Drop(OfEntry(e))
    /\ lecs' = [lecs EXCEPT ![e] = <<>>]
    /\ UNCHANGED <<listening, cec>>

(* stop_conf_listening_socket() *)
SocketUnregister ==
    /\ ~ aborted /\ listening
    /\ listening' = FALSE
    /\ registered' = {}
    /\ Drop({c \in Conns : st[c] = "TLS_HANDSHAKE"} \cup UNION {OfEntry(e) : e \in registered})
    /\ lecs' = [e \in Entries |-> IF e \in registered THEN <<>> ELSE lecs[e]]
    /\ UNCHANGED cec

(* got_connection() *)
GotConnection(c) ==
    /\ ~ aborted /\ listening /\ st[c] = "FREE"
    /\ st' = [st EXCEPT ![c] = "TLS_HANDSHAKE"]
    /\ UNCHANGED <<listening, registered, tle, id, lecs, num, cec, pvars>>

(* verify_key_ids(); when it refuses, the handshake fails (ConnLost). *)
VerifyKeyIds(c, ids) ==
    /\ ~ aborted /\ st[c] = "TLS_HANDSHAKE"
    /\ \E e \in Matches(ids) :
        /\ st' = [st EXCEPT ![c] = "KEY_ID_VERIFIED"]
        /\ tle' = [tle EXCEPT ![c] = e]
        /\ id' = [id EXCEPT ![c] = ids[1]]
    /\ UNCHANGED <<listening, registered, lecs, num, cec, pvars>>

(* handshake_done(), with cle_new_conn(): refused when the peer is there   *)
(* already or the tun interface cannot be had; otherwise the entry's       *)
(* newest connection makes room if the limit is reached.                   *)
HandshakeDone(c) ==
    /\ ~ aborted /\ st[c] = "KEY_ID_VERIFIED"
    /\ UNCHANGED <<listening, registered, cec>>
    /\ \/ Drop({c}) /\ lecs' = Without(c)
       \/ LET e == tle[c]
              newest == lecs[e][Len(lecs[e])]
              old == IF Limit[e] = num[e] THEN {newest} ELSE {}
          IN /\ id[c] \notin direct_peers
             /\ st' = [d \in Conns |-> IF d = c THEN "CONNECTED"
                                      ELSE IF d \in old THEN "FREE" ELSE st[d]]
             /\ lecs' = [IF old = {} THEN lecs ELSE Without(newest) EXCEPT ![e] = Append(@, c)]
             /\ num' = [Fewer(old) EXCEPT ![e] = @ + 1]
             /\ AddPeer(PeersWithout(old), MyPeersWithout(old), id[c], e \in DbOnly)
             /\ UNCHANGED <<tle, id>>

(* connection_lost(), rx_timeout(), a keepalive or a record that cannot be *)
(* sent: client_conn_kill().                                               *)
ConnLost(c) ==
    /\ ~ aborted /\ st[c] # "FREE"
    /\ Drop({c})
    /\ lecs' = Without(c)
    /\ UNCHANGED <<listening, registered, cec>>

(* cce_new_conn() for a peer that has proved i, when it does not refuse.   *)
CceNewConn(k, i) ==
    /\ ~ aborted /\ cec[k] = NULL
    /\ Me \notin direct_peers
    /\ cec' = [cec EXCEPT ![k] = i]
    /\ AddPeer(direct_peers, mypeers, i, k \in DbOnly)
    /\ UNCHANGED <<listening, registered, cvars, lecs, num>>

(* cec_destroy() *)
CecDestroy(k) ==
    /\ ~ aborted /\ cec[k] # NULL
    /\ cec' = [cec EXCEPT ![k] = NULL]
    /\ direct_peers' = direct_peers \ {cec[k]}
    /\ mypeers' = IF k \in DbOnly THEN mypeers ELSE mypeers \ {cec[k]}
    /\ UNCHANGED <<listening, registered, cvars, lecs, num, aborted>>

Init ==
    /\ listening = FALSE /\ registered = {}
    /\ st = [c \in Conns |-> "FREE"]
    /\ tle = [c \in Conns |-> NULL] /\ id = [c \in Conns |-> NULL]
    /\ lecs = [e \in Entries |-> <<>>] /\ num = [e \in Entries |-> 0]
    /\ cec = [k \in Outgoing |-> NULL]
    /\ direct_peers = {} /\ mypeers = {} /\ aborted = FALSE

Next ==
    \/ SocketRegister \/ SocketUnregister
    \/ \E e \in Entries : EntryRegister(e) \/ EntryUnregister(e)
    \/ \E c \in Conns : GotConnection(c) \/ HandshakeDone(c) \/ ConnLost(c)
    \/ \E c \in Conns, ids \in Presented : VerifyKeyIds(c, ids)
    \/ \E k \in Outgoing, i \in KeyIds : CceNewConn(k, i)
    \/ \E k \in Outgoing : CecDestroy(k)

Spec == Init /\ [][Next]_vars

---------------------------------------------------------------------------
(* cle->connections has exactly the client_conns that are CONNECTED for    *)
(* the entry, each once, and num_connections counts them.                  *)
LecsMatchConns ==
    \A e \in Entries :
        /\ {lecs[e][n] : n \in 1..Len(lecs[e])} = {c \in Up(Conns) : tle[c] = e}
        /\ num[e] = Len(lecs[e])
        /\ num[e] = Cardinality({c \in Up(Conns) : tle[c] = e})

(* No entry has more connections than its ConnectionLimit, although        *)
(* cle_new_conn() only ever makes room for one, by an equality test.       *)
LimitKept == \A e \in Entries : Len(lecs[e]) <= Limit[e]

(* A client_conn that has been given an entry never outlives the entry's   *)
(* registration, nor any client_conn the socket's.                         *)
NoStaleEntry ==
    /\ ~ listening => registered = {} /\ \A c \in Conns : st[c] = "FREE"
    /\ \A c \in Conns :
        st[c] \in {"KEY_ID_VERIFIED", "CONNECTED"} => tle[c] \in registered

(* A peer is never connected twice, and direct_peers and the node's LSA    *)
(* list exactly the peers that are connected (the LSA without the dbonly   *)
(* ones), so that the node advertises no link it has lost.                 *)
Outs == {k \in Outgoing : cec[k] # NULL}
PeersMatchConns ==
    ~ aborted =>
        /\ \A c, d \in Up(Conns) : id[c] = id[d] => c = d
        /\ \A c \in Up(Conns), k \in Outs : id[c] # cec[k]
        /\ \A j, k \in Outs : cec[j] = cec[k] => j = k
        /\ direct_peers = Ids(Up(Conns)) \cup {cec[k] : k \in Outs}
        /\ mypeers = Ids({c \in Up(Conns) : tle[c] \notin DbOnly})
                       \cup {cec[k] : k \in Outs \ DbOnly}

(* The insertions that abort() when they fail never do. *)
NoDuplicatePeer == ~ aborted
=============================================================================
