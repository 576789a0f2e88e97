------------------------------- MODULE Reload -------------------------------
(***************************************************************************)
(* The configuration: what conf.c reads, how confdiff.c and avl_diff() of  *)
(* util.c carry a new one over into the one that is in force, and what     *)
(* dvpn.c starts and stops meanwhile.                                      *)
(*                                                                         *)
(* A configuration holds objects by their trees: connect entries (cce),    *)
(* listening sockets (cls), and listen entries (cle), each in the tree of  *)
(* the socket its field `cls' names.  An object is told from another with  *)
(* the same contents by gen, which stands for its address in memory.       *)
(* tcs, tls and tles are what is registered with tconn_connect.c and       *)
(* tconn_listen.c; a member of tles lies in the tree of the socket its     *)
(* field `cls' (tle->tls) points to.                                       *)
(*                                                                         *)
(* got_sighup() runs without a break; its walk over the two configurations *)
(* takes a step per visited key, since a visit may end the daemon.         *)
(***************************************************************************)
EXTENDS Integers, FiniteSets, FiniteSetsExt

CONSTANTS
    Files,          \* the configuration files that are ever written
    EmbeddedFp,     \* EmbeddedFp[h]: parse_hostname_fingerprint(), or NULL
    Fps,            \* fingerprints
    ANY, CNAME,     \* the other two fp_types
    Overlap(_, _),  \* one address cannot be bound while the other is
    Gens,           \* addresses of objects
    NULL, BAD       \* no value; a value that does not parse

VARIABLES
    state,      \* "off", "idle", the tree being compared, or how it died
    conf, newconf,
    todo,       \* the keys avl_diff() has yet to visit
    sock,       \* the address cls_mod() was called for, or NULL
    inner,      \* the keys the avl_diff() it calls has yet to visit
    tcs, tls, tles,
    goal,       \* history: the peers of the file read last
    refused     \* history: those of them that could not be started

regs == <<tcs, tls, tles>>
walk == <<todo, sock, inner>>
vars == <<state, conf, newconf, walk, regs, goal, refused>>

Empty == [cce |-> {}, cls |-> {}, cle |-> {}]

---------------------------------------------------------------------------
(* conf.c *)

Default(v, d) == IF v = NULL THEN d ELSE v

(* The fingerprint a section asks for: PeerFingerprint, or the one in the  *)
(* host name.                                                              *)
EmbeddedIn(s) == IF s.connect = NULL THEN NULL ELSE EmbeddedFp[s.connect.host]
Fingerprint(s) == Default(s.fp, EmbeddedIn(s))

(* parse_config_peer() up to the calls at its end, parse_listen_addr() and *)
(* the port number in add_connect_peer().                                  *)
SectionParses(s) ==
    /\ (s.connect = NULL) # (s.listen = NULL)
    /\ s.fp # BAD
    /\ s.fp = CNAME => s.connect # NULL
    /\ Fingerprint(s) # NULL
    /\ s.fp \in Fps /\ EmbeddedIn(s) # NULL => s.fp = EmbeddedIn(s)
    /\ s.type # BAD
    /\ s.cost # NULL => s.cost \in 1..32767
    /\ s.limit # NULL => s.limit >= 1
    /\ s.connect # NULL => s.connect.port # BAD
    /\ s.listen # NULL => s.listen.addr # BAD /\ s.listen.port # BAD

ListenAddr(f, s) == <<s.listen.addr, Default(s.listen.port, f.default_port)>>

(* parse_config(); objects get the address g. *)
Connects(f) == {n \in DOMAIN f.peers : f.peers[n].connect # NULL}
Listens(f) == {n \in DOMAIN f.peers : f.peers[n].listen # NULL}

FileParses(f) ==
    /\ f.ok
    /\ \A n \in DOMAIN f.peers : SectionParses(f.peers[n])
    /\ \A m, n \in Listens(f) :
           /\ ListenAddr(f, f.peers[m]) = ListenAddr(f, f.peers[n])
           /\ f.peers[m].fp = ANY /\ f.peers[n].fp = ANY
           => m = n

(* Names are numbers that stand in the order of strcmp(), and NULL is not  *)
(* an address.                                                             *)
ASSUME FileAssumption ==
    \A f \in Files :
        /\ DOMAIN f.peers \subseteq Nat
        /\ \A n \in Listens(f) : ListenAddr(f, f.peers[n]) # NULL

add_connect_peer(f, n, g) ==
    LET s == f.peers[n]
    IN  [name |-> n, gen |-> g,
         val |-> [host |-> s.connect.host,
                  port |-> Default(s.connect.port, f.default_port),
                  fp |-> Fingerprint(s), type |-> Default(s.type, "TRANSIT"),
                  itf |-> Default(s.itf, "dvpn%d"), cost |-> Default(s.cost, 0)]]

get_listening_socket(f, s, g) == [addr |-> ListenAddr(f, s), gen |-> g]

add_listen_peer(f, n, g) ==
    LET s == f.peers[n]
    IN  [name |-> n, gen |-> g, cls |-> get_listening_socket(f, s, g),
         val |-> [fp |-> s.fp, type |-> Default(s.type, "CUSTOMER"),
                  itf |-> Default(s.itf, "dvpn%d"), cost |-> Default(s.cost, 0),
                  limit |-> Default(s.limit, 1)]]

parse_config(f, g) ==
    [cce |-> {add_connect_peer(f, n, g) : n \in Connects(f)},
     cls |-> {get_listening_socket(f, f.peers[n], g) : n \in Listens(f)},
     cle |-> {add_listen_peer(f, n, g) : n \in Listens(f)}]

Objects(c) == c.cce \cup c.cls \cup c.cle
FreeGen == Min({g \in Gens : \A o \in Objects(conf) : o.gen # g})

---------------------------------------------------------------------------
(* What ConfigSwitch calls the peers of a set of entries. *)
Connecting(S) == {[at |-> NULL, name |-> a.name, val |-> a.val] : a \in S}
Listening(S) == {[at |-> a.cls.addr, name |-> a.name, val |-> a.val] : a \in S}
PeersOf(c) == Connecting(c.cce) \cup Listening(c.cle)

EntriesIn(c, s) == {a \in c.cle : a.cls = s}

---------------------------------------------------------------------------
(* dvpn.c: starting and stopping.  start_conf_listen_entry() ignores the   *)
(* result of tconn_listen_entry_register(), which fails when the socket    *)
(* has the fingerprint already; for a second wildcard compare_listen_      *)
(* entries() of tconn_listen.c calls abort().  Entries of a new socket are *)
(* started in the order of their names.                                    *)
Clashes(R, a) == \E t \in R : t.cls = a.cls /\ t.val.fp = a.val.fp

FirstOfFp(S) ==
    {a \in S : \A b \in S : a.val.fp = b.val.fp => a.name <= b.name}

(* tconn_listen_socket_register(): bind() fails when an address that       *)
(* overlaps is bound, or for a reason of the system's.                     *)
MayBind(a) == \A s \in tls : ~ Overlap(s.addr, a.addr)

(* stop_conf_listen_entry(): tconn_listen_entry_unregister() walks         *)
(* tle->connections, which only a successful registration initialises.     *)
CanStop(S) == S \subseteq tles

(* The process is gone, and everything it had registered with it. *)
Die(how) ==
    /\ state' = how
    /\ conf' = Empty /\ newconf' = Empty
    /\ todo' = {} /\ sock' = NULL /\ inner' = {}
    /\ tcs' = {} /\ tls' = {} /\ tles' = {}
    /\ goal' = {} /\ refused' = {}

---------------------------------------------------------------------------
(* dvpn() and start_config(): when a socket cannot be opened stop_config() *)
(* stops what was started and the daemon exits, as it does when the file   *)
(* does not parse.                                                         *)
Start(f) ==
    /\ state = "off"
    /\ FileParses(f)
    /\ LET c == parse_config(f, FreeGen)
       IN  /\ \A r, s \in c.cls : r # s => ~ Overlap(r.addr, s.addr)
           /\ conf' = c
           /\ tcs' = c.cce /\ tls' = c.cls
           /\ tles' = UNION {FirstOfFp(EntriesIn(c, s)) : s \in c.cls}
           /\ goal' = PeersOf(c)
           /\ refused' = Listening(c.cle \ tles')
    /\ state' = "idle"
    /\ UNCHANGED <<newconf, walk>>

(* systemd starts the daemon again after a failure (dvpn.service). *)
Restart ==
    /\ state \in {"aborted", "crashed"}
    /\ state' = "off"
    /\ UNCHANGED <<conf, newconf, walk, regs, goal, refused>>

(* got_sigint() and stop_config(): what is in conf is stopped. *)
got_sigint ==
    /\ state = "idle"
    /\ \/ ~ CanStop(conf.cle) /\ Die("crashed")
       \/ /\ CanStop(conf.cle)
          /\ state' = "off"
          /\ tcs' = tcs \ conf.cce
          /\ tls' = tls \ conf.cls
          /\ tles' = (tles \ conf.cle) \ {t \in tles : t.cls \in conf.cls}
          /\ conf' = Empty /\ goal' = {} /\ refused' = {}
          /\ UNCHANGED <<newconf, walk>>

---------------------------------------------------------------------------
(* The keys two trees hold, and the next one avl_diff() visits.            *)
Names(S) == {a.name : a \in S}
Addrs(S) == {a.addr : a \in S}

(* addrcmp() *)
AddrLess(a, b) == a[1] < b[1] \/ (a[1] = b[1] /\ a[2] < b[2])

NextName(n, T) == n \in T /\ \A m \in T : n <= m
NextAddr(a) == a \in todo /\ \A b \in todo \ {a} : AddrLess(a, b)

(* got_sighup(): a file that does not parse changes nothing. *)
got_sighup(f) ==
    /\ state = "idle"
    /\ FileParses(f)
    /\ newconf' = parse_config(f, FreeGen)
    /\ state' = "connect_entries"
    /\ todo' = Names(conf.cce) \cup Names(newconf'.cce)
    /\ goal' = PeersOf(newconf')
    /\ refused' = Listening(conf.cle \ tles) \cap goal'
    /\ UNCHANGED <<conf, sock, inner, regs>>

SameConnect(a, b) ==
    \A k \in {"host", "port", "fp", "type", "itf", "cost"} : a.val[k] = b.val[k]

cce_add(b) ==
    /\ newconf' = [newconf EXCEPT !.cce = @ \ {b}]
    /\ conf' = [conf EXCEPT !.cce = @ \cup {b}]
    /\ tcs' = tcs \cup {b}

cce_mod(a, b) ==
    IF SameConnect(a, b) THEN UNCHANGED <<conf, newconf, tcs>>
    ELSE /\ conf' = [conf EXCEPT !.cce = (@ \ {a}) \cup {b}]
         /\ newconf' = [newconf EXCEPT !.cce = (@ \ {b}) \cup {a}]
         /\ tcs' = (tcs \ {a}) \cup {b}

cce_del(a) ==
    /\ conf' = [conf EXCEPT !.cce = @ \ {a}]
    /\ newconf' = [newconf EXCEPT !.cce = @ \cup {a}]
    /\ tcs' = tcs \ {a}

(* One iteration of avl_diff() over the connect entries. *)
DiffConnect ==
    /\ state = "connect_entries"
    /\ \E n \in todo :
        /\ NextName(n, todo)
        /\ todo' = todo \ {n}
        /\ \/ \E b \in newconf.cce : b.name = n /\ n \notin Names(conf.cce) /\ cce_add(b)
           \/ \E a \in conf.cce, b \in newconf.cce : a.name = n /\ b.name = n /\ cce_mod(a, b)
           \/ \E a \in conf.cce : a.name = n /\ n \notin Names(newconf.cce) /\ cce_del(a)
    /\ UNCHANGED <<state, sock, inner, tls, tles, goal, refused>>

(* diff_configs() goes on to the sockets. *)
ConnectsDone ==
    /\ state = "connect_entries" /\ todo = {}
    /\ state' = "listening_sockets"
    /\ todo' = Addrs(conf.cls) \cup Addrs(newconf.cls)
    /\ UNCHANGED <<conf, newconf, sock, inner, regs, goal, refused>>

---------------------------------------------------------------------------
(* Mutant: a new ConnectionLimit alone does not count as a change. *)
SameListenButLimit(a, b) ==
    \A k \in {"fp", "type", "itf", "cost"} : a.val[k] = b.val[k]

SameListen(a, b) ==
    \A k \in {"fp", "type", "itf", "cost", "limit"} : a.val[k] = b.val[k]

(* removed_listen_entry() and new_listen_entry(), called for at most one   *)
(* entry each: the one in `old' leaves socket A for B, the one in `new'    *)
(* comes the other way.                                                    *)
Exchange(A, B, old, new) ==
    LET moved == {[b EXCEPT !.cls = A] : b \in new}
        left == tles \ old
        clash == {b \in moved : Clashes(left, b)}
    IN  \/ ~ CanStop(old) /\ Die("crashed")
        \/ CanStop(old) /\ (\E b \in clash : b.val.fp = ANY) /\ Die("aborted")
        \/ /\ CanStop(old) /\ \A b \in clash : b.val.fp # ANY
           /\ conf' = [conf EXCEPT !.cle = (@ \ old) \cup moved]
           /\ newconf' = [newconf EXCEPT
                             !.cle = (@ \ new) \cup {[a EXCEPT !.cls = B] : a \in old}]
           /\ tles' = left \cup (moved \ clash)
           /\ refused' = refused \cup Listening(clash)
           /\ inner' = inner \ Names(old \cup new)
           /\ UNCHANGED <<state, todo, sock, tcs, tls, goal>>

cle_add(A, B, b) == Exchange(A, B, {}, {b})

cle_mod(A, B, a, b) ==
    IF SameListen(a, b)
    THEN /\ inner' = inner \ {a.name}
         /\ UNCHANGED <<state, conf, newconf, todo, sock, regs, goal, refused>>
    ELSE Exchange(A, B, {a}, {b})

cle_del(A, B, a) == Exchange(A, B, {a}, {})

(* One iteration of the avl_diff() that cls_mod() calls. *)
DiffListen ==
    /\ sock # NULL
    /\ \E A \in conf.cls, B \in newconf.cls, n \in inner :
        /\ A.addr = sock /\ B.addr = sock
        /\ NextName(n, inner)
        /\ LET as == {a \in EntriesIn(conf, A) : a.name = n}
               bs == {b \in EntriesIn(newconf, B) : b.name = n}
           IN  \/ as = {} /\ \E b \in bs : cle_add(A, B, b)
               \/ \E a \in as, b \in bs : cle_mod(A, B, a, b)
               \/ bs = {} /\ \E a \in as : cle_del(A, B, a)

(* cls_mod() returns to the walk over the sockets. *)
ListensDone ==
    /\ sock # NULL /\ inner = {}
    /\ sock' = NULL
    /\ UNCHANGED <<state, conf, newconf, todo, inner, regs, goal, refused>>

---------------------------------------------------------------------------
Give(c, s, E) == [cce |-> c.cce, cls |-> c.cls \cup {s}, cle |-> c.cle \cup E]
Take(c, s, E) == [cce |-> c.cce, cls |-> c.cls \ {s}, cle |-> c.cle \ E]

(* Mutant: cls_add() leaves a socket that cannot be opened where it is. *)
cls_add_stays(b) ==
    LET E == EntriesIn(newconf, b)
        opened == MayBind(b)
    IN  /\ conf' = Give(conf, b, E) /\ newconf' = Take(newconf, b, E)
        /\ tls' = IF opened THEN tls \cup {b} ELSE tls
        /\ tles' = IF opened THEN tles \cup FirstOfFp(E) ELSE tles
        /\ refused' = refused \cup Listening(E \ tles')
        /\ UNCHANGED <<state, sock, inner, tcs, goal>>

(* start_conf_listening_socket() and the entries it starts; a socket that  *)
(* cannot be opened stays in the configuration that will be freed.         *)
cls_add(b) ==
    LET E == EntriesIn(newconf, b)
    IN  \/ /\ MayBind(b)
           /\ conf' = Give(conf, b, E) /\ newconf' = Take(newconf, b, E)
           /\ tls' = tls \cup {b}
           /\ tles' = tles \cup FirstOfFp(E)
           /\ refused' = refused \cup Listening(E \ FirstOfFp(E))
           /\ UNCHANGED <<state, sock, inner, tcs, goal>>
        \/ /\ refused' = refused \cup Listening(E)
           /\ UNCHANGED <<state, conf, newconf, sock, inner, regs, goal>>

cls_mod(a, b) ==
    /\ sock' = a.addr
    /\ inner' = Names(EntriesIn(conf, a)) \cup Names(EntriesIn(newconf, b))
    /\ UNCHANGED <<state, conf, newconf, regs, goal, refused>>

(* stop_conf_listening_socket() and the entries it stops. *)
cls_del(a) ==
    LET E == EntriesIn(conf, a)
    IN  /\ conf' = Take(conf, a, E) /\ newconf' = Give(newconf, a, E)
        /\ tls' = tls \ {a}
        /\ tles' = tles \ {t \in tles : t.cls = a}
        /\ UNCHANGED <<state, sock, inner, tcs, goal, refused>>

(* One iteration of avl_diff() over the listening sockets. *)
DiffSockets ==
    /\ state = "listening_sockets" /\ sock = NULL
    /\ \E k \in todo :
        /\ NextAddr(k)
        /\ LET as == {a \in conf.cls : a.addr = k}
               bs == {b \in newconf.cls : b.addr = k}
           IN  \/ /\ todo' = todo \ {k}
                  /\ \/ as = {} /\ \E b \in bs : cls_add(b)
                     \/ \E a \in as, b \in bs : cls_mod(a, b)
                     \/ bs = {} /\ \E a \in as : CanStop(EntriesIn(conf, a)) /\ cls_del(a)
               \/ bs = {} /\ \E a \in as : ~ CanStop(EntriesIn(conf, a)) /\ Die("crashed")

(* free_config(newconf) and the end of got_sighup(). *)
SocketsDone ==
    /\ state = "listening_sockets" /\ sock = NULL /\ todo = {}
    /\ state' = "idle"
    /\ newconf' = Empty
    /\ UNCHANGED <<conf, walk, regs, goal, refused>>

---------------------------------------------------------------------------
Init ==
    /\ state = "off"
    /\ conf = Empty /\ newconf = Empty
    /\ todo = {} /\ sock = NULL /\ inner = {}
    /\ tcs = {} /\ tls = {} /\ tles = {}
    /\ goal = {} /\ refused = {}

Next ==
    \/ \E f \in Files : Start(f) \/ got_sighup(f)
    \/ Restart \/ got_sigint
    \/ DiffConnect \/ ConnectsDone
    \/ DiffSockets \/ DiffListen \/ ListensDone \/ SocketsDone

Spec == Init /\ [][Next]_vars

---------------------------------------------------------------------------
(* Between two events what is registered is what the configuration in      *)
(* force holds, object by object: free_config(newconf) has freed nothing   *)
(* that is registered or that a registered entry points to, and no entry   *)
(* was lost on the way from one configuration to the other.  Only the      *)
(* entries that could not be registered are missing, and a socket that     *)
(* could not be opened is not there, so that the next reload tries again.  *)
RegisteredIsConf ==
    state \in {"off", "idle"} =>
        /\ tcs = conf.cce /\ tls = conf.cls
        /\ tles \subseteq conf.cle
        /\ Listening(conf.cle \ tles) \subseteq refused
        /\ \A e \in refused : e.at \in Addrs(conf.cls) => e \in Listening(conf.cle)

(* A reload does what ConfigSwitch says. *)
Switch == INSTANCE ConfigSwitch WITH
    running <- Connecting(tcs) \cup Listening(tles),
    target <- goal,
    busy <- state \in {"connect_entries", "listening_sockets"}

ImplementsSwitch == Switch!Spec

(* A socket never has two wildcard entries: compare_listen_entries() of    *)
(* tconn_listen.c calls abort() when it meets them.                        *)
WildcardsNeverMeet == state # "aborted"
=============================================================================
