# A formal model of dvpn

dvpn builds a mesh VPN: nodes make TLS connections to configured peers, put an
IPv6 tun interface on each connection, and run a path vector protocol (DGP) over
TCP inside the tunnels.  Each node originates one signed LSA (link state
advertisement) that lists its peers; LSAs are flooded with the path they have
taken, every node chooses the best LSA per origin, and installs routes from its
choices.  The daemon is one ivykis event loop.  Only `getaddrinfo()` runs in
worker threads.

This directory models the state machines of the daemon in TLA+, checks them with
TLC and proves with TLAPS the safety properties of all of them but the shortest
paths.  All definitions are translated from the C code;
`PROJECT.json` names for each the lines it stands for.

## 1. The system

| part | files | state | operations |
|---|---|---|---|
| RIB in | `adj_rib_in.c` | LSAs of one peer by origin, bytes accounted | add, withdraw, truncate; tells listeners |
| RIB | `loc_rib.c`, `rib_listener_to_loc.c` | per origin: LSAs held, highest version seen, best LSA and cost; the recompute task | add, mod, del, recompute; tells listeners |
| path cost | `lsa_path.c`, `lsa_peer.c`, `loc_rib.c` | none | cost of an advertised path, valley-free over transit and customer links |
| DGP writer | `dgp_writer.c` | registration as RIB listener, keepalive timer | dump, write a changed LSA, keepalive |
| DGP reader | `dgp_reader.c` | receive buffer, its RIB in, keepalive timeout | read, hand over LSAs |
| DGP session | `dgp_connect.c`, `dgp_listen.c` | connection state, timers, current connection of a listen entry, readonly connections | connect, retry, accept, replace, kill |
| routes | `rt_builder.c`, `dvpn.c` | installed routes | add, change, delete |
| TLS connection | `tconn.c` | two buffers, poll handlers, two tasks, state | handshake, receive, send, flush, destroy |
| outgoing | `tconn_connect.c`, `tconn_connect_one.c`, `iv_getaddrinfo.c` | state, timers, address list, request, TLS connection | resolve, try addresses, handshake, keepalive, retry |
| incoming | `tconn_listen.c` | listening sockets, entries, client connections in three states | accept, match key ids, hand over, kill |
| daemon | `dvpn.c` | listen/connect entry connections, `direct_peers`, own LSA | new connection, disconnect, packets, start and stop |
| configuration | `conf.c`, `confdiff.c`, `util.c` | connect entries, listening sockets and their listen entries, in force and newly read | parse, compare, move from one to the other, start and stop what differs |
| LSA objects | `lsa*.c` | reference counts, attribute trees, bytes | build, clone, (de)serialise |
| shortest paths | `spf.c`, `cspf.c` | a graph, a heap | run; built by no target of the Makefile |
| tools | `mkgraph.c`, `mkhosts.c`, `*mon.c`, ... | none of the daemon's | print, write files |

How they interact: a TLS connection that comes up (outgoing or incoming) makes a
connection object in `dvpn.c`, which adds the peer to the node's own LSA and to
`direct_peers` and starts one end of a DGP session on the tun interface.  The
session's reader feeds its RIB in, that feeds the RIB, which registers a task;
the task chooses best LSAs and calls its listeners: the writers of all sessions
and the route builder.  All calls are synchronous, so failures surface inside
other handlers: a writer that cannot write tears its session down in the middle
of the recompute pass; a record that cannot be sent destroys the connection
whose packet it was.

What is hard, and what would make it right:

* *RIB*: changes from inside the recompute pass; incremental bookkeeping of
  bytes, of what each peer was told, and of routes.  Right when the RIB is the
  union of its inputs, no change is forgotten, and listeners agree with choices.
* *Connections*: each state owns a set of timers and descriptors; a timeout may
  race a completion; cancelled requests complete later; a connection may be
  refused after the handshake.  Right when every state holds exactly what it
  owns and the machine never waits for something that will not happen.
* *TLS*: wakeups.  Right when handlers and tasks are registered exactly when
  they can make progress.
* *Sessions*: half-open TCP connections and replacement.  Right when a peer feeds
  the RIB at most once, both ends come to agree, and sessions come back.
* *Bytes*: TCP cuts LSAs anywhere; the account of an LSA's bytes is kept
  incrementally; every hop rewrites the path of an LSA whose other attributes are
  signed; versions are made from the clock and must survive a restart.  Right when
  a session is a channel of LSAs, the account bounds what is written, signatures
  stay valid, and versions grow.
* *Reload*: two configurations are walked in parallel while objects move from one
  to the other, are started and stopped, and may fail to start.  Right when only
  what differs is touched and nothing that runs belongs to what is freed.
* *Peers*: entries are unregistered under connections in the handshake, limits
  are enforced by evicting.  Right when lists, counts, `direct_peers` and the LSA
  follow the connections.

`PROJECT.json` lists the hazards line by line with the properties that watch them.

## 2. The modules

`PathCost` states the cost of a path over its hops; `PathCostLoop` is the loop of
`lsa_path_cost()`, one iteration per step, and is checked to compute it.  `Sums` has
the sum of a function over a finite set, which path costs, the sizes of RIBs and
the byte account of an LSA are.

`Rib` (extends `PathCost`) is the core: all `adj_rib_in`s of a node, its
`loc_rib`, its writers and its routes.  `adj`, `size` are the RIBs in; `lsas`,
`hvs`, `best`, `bestcost`, `pending` the loc_rib; `sent[s]` is what the bytes
written to session `s` amount to; `rt` the routes.  `detached` marks ids whose
best LSA is an object that has been replaced or removed since, which is what the
pointer comparison in `recompute_rid()` sees.  Handlers are single actions, with
the exception the code forces: `recompute_rib()` is split at the ids (`todo`),
since each visit may end with any subset of the writers it used failing
(`RecomputeRid`), each truncating its RIB in before the next visit.  An LSA is a
record of origin, version, path, size and whether key and signature are genuine;
its signed links are a function of origin and version (`Links`).
`adj_rib_in_add_lsa()` leaves things as they are when `lsa_diff()` finds no difference,
which it may do between LSAs that differ in what is marked as signed (`Alike`).  A
route is kept as the node over whose interface `dvpn.c` leads it (`NextHop`): the first
behind the node itself on the path or, when that is the last on it, so that `getnh()`
returns NULL, the node the LSA is of.  On a path that ends at that node the two are
the same.  The code accepts a path of one node that is another one; its route then
leads over the interface of the LSA's node, if there is one.
`RoutesUseLiveSessions` therefore speaks of paths that end at their node
(`EndsAtItsNode`), as all do that nodes of this code write.  Ties between
LSAs of equal cost, path length and version are broken by address in the code
and nondeterministically here.

`TconnConnect` is an outgoing connection.  `held[r]` counts how often each timer,
descriptor or object is registered, so that double registration and release of
what is not there are states and can be excluded by an invariant.
`cancelled`/`num_requests`/`pool` are `iv_getaddrinfo.c`.

`Tconn` is a TLS connection with its buffers as byte counts; gnutls is external
and may pull any number of the bytes received and push any number of bytes up to
`MaxMsg` per call.  `verify_state()` is translated as four predicates that are
also the properties, and `Aborted` stops the model where the daemon would abort.
`VerifyState` says where that can be: the first three never fail, the one about
`tx_task` only at end of file with a full transmit buffer.

`DgpSession` is both ends of a session, the backlog between them and the objects
each end registers.  `permit_readonly` chooses between a socket with an entry
for one peer and the socket without entries that serves the monitors.  `Rib`
assumes at most one session per peer, which is what is checked here.

`DirectPeers` is `tconn_listen.c` together with the connection objects,
`direct_peers` and the peer attributes of the own LSA in `dvpn.c`.  `lecs[e]` is
the list of connections of entry `e` in its order, which decides who is evicted at
the limit, and `num[e]` the separate count the limit is tested against.

`Lsa` is an LSA object, the integers of the wire format and the frame an LSA is sent
in, over sequences of bytes.  An LSA is the flat set of its attributes, each with
its place in the tree (`at`), so that the byte account is a sum over a set.
What `lsa_serialise()` writes of it is also a set (`Written`: the attributes it
does not skip, with the id in front of the path); how a set of attributes becomes
bytes and is read back are two operators the module takes as constants.  `LsaWire`
is these two: attributes in the order of the AVL tree, sets inside sets, every
check of `lsa_deserialise_attr_set()`.  The base of the variable-length integers
(128 in the code) and all limits are constants, so that in a small instance
integers have several bytes and buffers fill up.  An `abort()` is the value
`ABORT`.

`DgpStream` (extends `Lsa`) is the node's own LSA (`mylsa_add_peer()` and what it
calls, restarts of the daemon, the clock) and one session down to its bytes: `net`
is what TCP holds, `buf` the reader's buffer, and a read returns one byte or all
there is.  `mylsa_add_peer()` does not look whether the LSA has the peer, as in the
code, and its caller may add one twice (finding `direct_peers_dup`); that a peer which
is removed is one that was added is `PeersMatchConns` of `DirectPeers`.  After an
`abort()` the kernel closes the connections (`Exit`) and the service manager starts the
daemon again (`Restart`: `dvpn.service` has `Restart=on-failure`), possibly within the same
second, since it does not set `RestartSec` and the default is 100 ms.  The other end may
also give up in the middle of the stream: `read()` fails or the keepalive timeout
expires (`ReadFails`, where `rd` becomes "failed").  `dgp_reader_read()` is the read and then its loop, one iteration per
step (`Loop`), with its local variable `off`; in between the other end may write.
One session stands for every hop: what was received may be forwarded on it again
under another id.  `signed` records what was ever signed.

`MsgChannel` says what a session promises: whole messages, in order, once, and unless
reading fails (`Fail`) an end only after the last.  `DgpStream` implements it (`ImplementsChannel`): `sent` and
`rcvd` are the messages written whole and handed over, and the bytes are hidden.

`Reload` is the configuration.  A file is a function from peer names to sections
whose values parse or do not (`SectionParses`, `FileParses`).  `conf` and `newconf` are
the two configurations; an object carries a number `gen` for its address in
memory, so that an object and its equal in the other configuration differ.
`tcs`, `tls`, `tles` are what is registered.  `got_sighup()` is split at the keys
that `avl_diff()` visits; nothing else runs in between, but a visit may end the
process, and the order of the visits decides which entries meet.

`ConfigSwitch` says what a reload promises: from the peers that run to those of
the new file, touching only those that differ, and a peer that is missing in the
end is one that could not be started: no socket at its address, or another peer
with the same fingerprint there.  The process may end at any time (`Exit`), as the
findings show it does.  `Reload` implements it (`ImplementsSwitch`) with `running` the
registered entries and `busy` the states of the walk.

`Cspf` is `cspf.c` and `spf.c`, heap, tie-break and all, one iteration of Dijkstra's
loop per step.

The `MC*` modules give values to constants.  Definitions commented as mutants
are plausible mistakes in the definition that follows them; substituted for it,
each makes a property fail, which shows that the property depends on the code.

## 3. Runs

| run | shows | bounds |
|---|---|---|
| `rib_safety` | the invariants of `Rib` | 3 nodes, 2 peers, 2 versions, 7 LSAs on the wire including an unsigned one with a signed twin, a looping one and one whose path does not end at its node, limit of 4 bytes against LSAs of 2 and 3 so that overflow, replacement at the limit and refusal happen |
| `rib_liveness` | `ChoiceCatchesUp` | 5 LSAs, a readonly listener |
| `path_algorithms` | the loop computes `WalkCost`; `cspf.c` finds the paths it is least for | all paths of at most 3 hops over all flag combinations: a second and third hop after an uphill, a flat and a downhill one; all graphs of 4 nodes with some type or none on each of 6 links, costs that tie often, links taken out between runs |
| `dgp_stream` | the session is a channel; byte accounts, signatures, versions, no abort but one; the wire format of attribute sets satisfies `CodecAssumption` | 9 values to a byte, so lengths take 1 or 2 bytes; a buffer of 65 bytes, just what the longest LSA needs; paths of up to 3 ids; 2 LSAs and keepalives per session, reads of one byte or all, reads that fail anywhere, failing writes that take nothing or 20 bytes, the middle of an LSA; 3 seconds with 2 changes of the own LSA in each, the most that 5 versions per second allow, so that versions run ahead of the clock from one second into the next; any number of restarts, within a second and after an abort too; sessions in the first of the seconds only (`MCNext`), since they do not depend on the time; a node with a name |
| `tconn_connect` | ownership, agreement of the two machines, the request pool, progress | 2 addresses (fail and go on, fail for good), 2 cancelled requests, all three fingerprint types |
| `tconn` | registration of handlers and tasks, no byte or wakeup lost | `tx_buf` of 4, messages up to 3: full, partly drained and empty buffers with a message left over |
| `dgp_session` | ownership, at most one registered connection, agreement and return | 3 connections: one current, one replacing it, one being made; both kinds of socket |
| `direct_peers` | lists, counts, limit, `direct_peers` and own LSA | 3 incoming and 2 outgoing connections, an entry of limit 1 and a wildcard of limit 2, 3 key ids, one presented with a role |
| `reload` | registered is configured; a reload is a `ConfigSwitch` | any sequence of files of at most 2 peers from 7 sections (2 connect, 4 at one address, 1 at an address that overlaps it) and a file for each check of `conf.c` that fails it; 5 object addresses, one more than two peers can keep alive |

Three runs report disagreements between the code and what it says of itself; the
findings in `PROJECT.json` quote the lines:

* `tconn_eof`: end of file while the transmit buffer is full trips the assertion
  in `verify_state()`.
* `direct_peers_dup`: an outgoing connection to a peer that is already connected
  is not refused and trips an assertion.
* `reload_wildcard`: a wildcard listen entry renamed to a name that sorts earlier
  meets its old self in the tree of entries, which aborts.

Five more defects were met while modelling.  The models contain the steps that
lead to them, and the properties say what holds up to there:

* A new connection that is refused after the handshake ends in `disconnect(NULL)`
  (`tconn_connect.c:75`), and a record that cannot be sent registers `retry_wait`
  twice (`tconn_connect.c:280`).  Both leave `Intact` in `TconnConnect`.
* Peers configured as `any` or by CNAME are handed on under an id that was never
  set (`tconn_connect_one.c:135`); `MatchGivesPeerId` speaks of the others.
* An entry that could not be registered, since another has its fingerprint, is
  marked registered all the same; stopping it walks a list that was never
  initialised (`dvpn.c:678`, `tconn_listen.c:441`).  This is `Die("crashed")` in
  `Reload`, reached by swapping the fingerprints of two entries in a reload.
* A daemon that is started twice within a second gives its LSA the same version twice
  (`dvpn.c:189-195`), and whoever holds the LSA of the first run does not see that of the
  second as newer.  `rushed` marks such a run in `DgpStream`, and `VersionsGrow` leaves it
  out; the next run that starts in a second of its own is again above them all.

The passing runs of the same modules go on up to these points and exclude what
follows (`Intact`, `Aborted`, `aborted`), since after them the C program has no
defined behaviour.  In `DgpStream` the abort of a peer that is added twice is a state
like others, which the daemon leaves by being restarted; `AbortsOnlyOnDuplicate` says
that no other step leads there.

### Fairness

Weak fairness is assumed of tasks and expired timers, which ivykis runs, and of
completions of `getaddrinfo()`, which returns.  In `Tconn` the remote end is
assumed to read (`HandlerOut`).  Strong fairness is assumed of two things only:
a retry finds memory for its request in the end (`TconnConnect`), and of
infinitely many attempts to connect to a listening peer one succeeds
(`DgpSession`).  In `DgpStream` the reader is called as long as there is something
to read (`Drain`: level-triggered polling), its loop goes on by itself (`Turn`), and it
sees the end of the stream (`ReadEof`); nothing is assumed of how much a read
returns, and a read may always fail instead, which `WrittenIsRead` allows for.  `Reload` and `Cspf` need no
fairness, only safety is stated.  Nothing is assumed of sessions staying up, of input arriving,
or of connections being accepted by the TLS layer.  `CHECK_DEADLOCK FALSE`
appears where the modelled daemon may stop: a connection object destroyed, an
abort, a returned function.

## 4. Proofs

TLC checks small instances; the following hold for every value of the constants
that satisfies the named assumptions.  Every module has one inductive invariant
(`IInv`; `LoopInv` for the loop of `lsa_path_cost()`, `Inv` in `DgpStreamProofs`),
lemmas for the actions that it is preserved, and theorems that draw the checked
properties from it.

| module | theorem: property |
|---|---|
| `RibProofs` | `TypeCorrect`: `TypeOK`, `LocRibUnion`: `LocRibIsUnion`, `Accounting`: `SizeExact`, `SizeLimit`: `SizeBounded`, `BestCost`: `BestHasCost`, `Choice`: `ChoiceIsCurrent`, `Mirror`: `PeersAreTold`, `Routes`: `RoutesFollowBest`, `RoutesLive`: `RoutesUseLiveSessions`; of `PathCostLoop`, `LoopIsWalkCost`: `LoopComputesWalkCost` |
| `TconnConnectProofs` | `TypeCorrect`: `TypeOK`, `Ownership`: `HeldMatchesState`, `Agreement`: `StatesAgree`, `Pool`: `PoolMatchesRequests`, `PeerId`: `MatchGivesPeerId` |
| `TconnProofs` | `TypeCorrect`: `TypeOK`, `Verification`: `VerifyState`, `Waiting`: `NothingUnsent` |
| `DgpSessionProofs` | `ConnectingEnd`: `ConnectHoldsItsState`, `ListeningEnd`: `ConnsAreReachable` |
| `DirectPeersProofs` | `ListsFollow`: `LecsMatchConns`, `ConnectionLimit`: `LimitKept`, `EntriesOutlive`: `NoStaleEntry`, `PeersFollow`: `PeersMatchConns` |
| `ReloadProofs` | `ReloadKeepsBooks`: `RegisteredIsConf`, `ReloadIsSwitch`: `ImplementsSwitch` |
| `DgpStreamProofs` | `NoOtherAbort`: `AbortsOnlyOnDuplicate`, `BytesExact`: `BytesBoundLength`, `SignaturesHold`: `SignaturesVerify`, `VersionsIncrease`: `VersionsGrow`, `StreamIsChannel`: `ImplementsChannel` |

`RibProofs`: the invariant is the conjunction of the properties themselves: they
lean on each other.  That the RIB is the union of its inputs (`LocRibIsUnion`)
needs that an LSA held from one peer is not held from another, which follows
from `MapIn`: a usable LSA has its sender first on its path (`HeldOnce`).  That
choices are current (`ChoiceIsCurrent`) needs that whatever changes the RIB sets
`pending`, also when a writer fails in the middle of the pass; the ids in `todo`
are exempt, and `RecomputeRidIInv` moves one out of it.  `RoutesLive` is then a
consequence: a route's next hop heads a path held from that peer, also a path of one
node when it ends at the node of the LSA, and a peer that is down holds nothing.  `Accounting` rests on `SumProofs`: every operation
changes the LSA of one id, and the sum changes by what that LSA changes
(`truncate` sets all to nothing and the account to zero).  Assumptions: ids are
finitely many numbers and the node is not its own peer (`IdAssumption`), LSAs are
records of their types and the node's own have an empty path (`LsaAssumption`),
`LinkAssumption`, the limits are numbers (`LimitAssumption`), and the cost of a
walk stays below the special values (`CostAssumption`), which `LSA_MAX_BYTES`
and 16-bit metrics guarantee in the code.

`SumProofs` has what the other proofs need to know of sums over finite sets: that
a sum does not depend on the order in which the fold takes the elements, and how
it changes when one value does.  The provers cannot instantiate an induction rule,
so each induction is written out: the set of counterexamples, ordered by strict
inclusion, which is well-founded on finite sets, would have a smallest element.

`PathCostLoop` (proved in `RibProofs`): before iteration `ith` the hops before it are linked, none of them
climbs after one that did not, `traversing_transits` says whether all of them
climbed, and `cost` is the sum of their metrics.  The property itself speaks of the
return value only.  Assumption: hops are records of their types
(`HopAssumption`); the length of the path is arbitrary, since `MaxHops` is any
number.

`TconnConnectProofs`: counts are treated as sets: `ReleaseExactly` and
`AcquireExactly` turn registering and unregistering into set algebra as long as
nothing is there twice, `StateDestroyExactly` does so for `state_destroy()`, and
each action is then an equation between sets of objects.  The invariant adds
`PeerKnown` (where a proved key id exists, and that it is already stored when
the fingerprint matched) to the checked properties; `MatchGivesPeerId` alone is
not inductive.  The two ways out of `Intact` (the findings above) are part of
the proof: they are shown to leave `Intact`, not to be impossible.

`TconnProofs`: the calls into gnutls push and pull any number of bytes, so the
transmit side is treated first, as an operation on a buffer, its handler, its error
and what did not fit (`PushProps`, `FlushProps`, `SentProps`): nobody waits to
write nothing, and something left over means a full buffer.  The invariant adds to
the three properties that nothing is set in a connection that is gone (`GoneIsReset`)
and that once end of file was seen the receive buffer is empty (`EofEmpty`), which
the predicates of `verify_state()` do not say and the pull function relies on.  A handler starts from `Verified`, since a connection for which
`verify_state()` failed takes no step any more.  Assumption: buffers are not empty
and what gnutls writes at a time fits into the transmit buffer
(`BufferAssumption`), as the sizes in `tconn.c` have it.

`DgpSessionProofs`: as in `TconnConnectProofs` counts are sets.  That an accepted conn
holds exactly its objects is not inductive: accepting must find a conn that
holds nothing.  `ConnsAreNew` supplies it: a connection is on its way, in the backlog
once, or accepted, and only one of these.  Assumption: connections are numbers
other than the one for none (`ConnAssumption`).

`DirectPeersProofs`: `LecsMatchConns` speaks of the elements of a list.  The
invariant needs that none is in it twice (`Lists`), or unlinking would leave one
behind; `ListOfUnlinked` and `ListOfAppended` are the two facts about lists everything
uses.  `LimitKept` then follows although `cle_new_conn()` tests for equality: the
count is exact and grows by one.  `PeersMatchConns` needs that no two connections
have one id, which the lookup in `direct_peers` ensures for incoming connections and
the abort of the finding for outgoing ones.  Assumptions: limits are positive and no
two entries have one fingerprint (`ConfAssumption`; two that do are the subject of
`Reload`), a client presents at least one key id, and connections are finitely
many (`KeyAssumption`).

`ReloadProofs`: the difficulty is the middle of the walk, when neither configuration
is that of a file.  `ConnectPending` and `ListenPending` say which keys the walk has not
come to; for the others `conf` has the peers of the new file, for these `newconf`
has (`ConnectsWalked`, `ListensWalked`), and what is registered always lies in `conf`
(`Registered`).  `Refused` does the same for the entries that could not be started.
Each lemma about an action proves at once that the invariant is kept and that the
step is one of `ConfigSwitch` or none, so that both theorems follow from the same
argument.  The hardest step is that an entry is refused for a reason: when all
entries of a new socket are started in the order of their names, an entry that
clashes does so with the first of its fingerprint, which is served (`FirstName`:
there is a first).  TLC has checked `IInv` on the instance of run `reload`.  Assumption:
names are numbers in the order of `strcmp()` and a listen address is not NULL
(`FileAssumption`).

`DgpStreamProofs`: the invariant has three parts, each a description of what the
values look like rather than one of the properties.

* `NodeInv`: the own LSA, unless the daemon has aborted, is what adding the attributes
  of some set of peers to a new one makes, held twice, and signed versions including
  its own are on record.  Its version is at most `Limit`: (t+1) V + u in the second t in
  which the run began, t V + M + u in a later second t, where V is
  `VERSIONS_PER_SECOND`, u the changes in this second so far and M the most there may be;
  so a version lags behind the clock again as soon as a second passes, however long the
  run is.  All versions ever signed are at most the limit of a run with M changes in
  this second; as 2 M < V this is below what a start gives out in any second but that
  of the last start.  Within a run that is not `rushed` they are at most the current one.
  `AbortsOnlyOnDuplicate`, the byte account and `VersionsGrow` follow.
* `MessagesInv`: every LSA written in the session is a withdrawal or the own LSA of some
  version, with some path, and signed.  As a hop changes the path only and the path
  is not signed, the signed bytes are those of the original (`SignaturesVerify`).
* `SessionInv`: the bytes not yet read, in `buf` after `off` and in `net`, are the frames of
  the messages after those handed over, with keepalives between them, and, when the
  writer is closed, perhaps the beginning of one more.  One turn of the loop takes
  one frame off the front; a frame that is not complete yet makes
  `lsa_deserialise()` return 0; and a frame always fits the buffer, so the reader never
  gives up on one.  `ImplementsChannel` follows.

Below that are lemmas about the definitions of `Lsa`: an integer written is read back
with the same length, whatever follows it, and any proper beginning of it is short;
`lsa_serialise_length()` is at most what `lsa->bytes` allows, which needs that the length
of a set inside a set is bounded by the sizes of its attributes; and a frame is
read as it was written.  Both values the code computes by recursion, the digits
of an integer and the lengths of nested sets, are recursive functions over a finite
domain here, and their inductions are written out.

Assumptions: the sizes of buffers and integers are related as in the code, and the
LSA changes fewer than `VERSIONS_PER_SECOND / 2`, that is 128, times in each second,
which is a rate and leaves the number of changes in a run open
(`WireAssumption`, `StreamAssumption`); ids have their length (`NodeAssumption`); paths grow
by ids not on them (`PathsAssumption`); the LSA of all configured peers fits
`MAX_SERLEN` (`OwnFitsAssumption`: `lsa_sign()` aborts otherwise, and nothing in `conf.c`
prevents it); and the attributes of an own LSA are read as they were written, in as
many bytes as `lsa_attr_set_serialise_length()` says (`CodecAssumption`).  The last is the only
one about code rather than about numbers.  TLC evaluates it with `LsaWire` for every
version, set of peers and path of the instance; the order of an AVL tree and the
recursion over nested sets keep it out of a proof.

Only model-checked: the liveness properties (`ChoiceCatchesUp`, `KeepsTrying`,
`CongestionEnds`, `ReceivedIsRead`, `ErrorEndsConnection`, `EndsAgree`,
`SessionComesBack`, `WrittenIsRead`), which the proof system does not cover;
`CodecAssumption`; and `CspfFindsBestPath`, which speaks of a heap, where operators recur,
and of all paths of a graph, an induction over data.  `DownIsEmpty` of `Rib` (a session
that is down holds nothing) is a step of the proof and not checked by a run of its
own.

## 5. What is left out

* `Rib` uses LSAs as values that arrive whole, which `DgpStream` justifies.
  Messages no dvpn writes (wrong lengths, repeated attributes, sets nested too
  deeply or empty) are decoded by `LsaWire` but not generated by any run; so
  `attr_tree_free()` of an empty set (`lsa.c:106`) is listed as a hazard only, and
  `AbortsOnlyOnDuplicate` says nothing of reading an attribute that is repeated
  (`lsa.c:304`).  What `lsa_diff()` prints by its callbacks is left out.
* `DgpStream` assumes that the clock does not go back, that an LSA changes fewer than 128
  times in any second (a peer takes a TLS handshake to come and go), and that the
  configured peers fit into one LSA.
* The ini syntax, the `[default]` section apart from `DefaultPort`, and how addresses and
  fingerprints are written: a value parses or does not.
* `cspf.c` and `spf.c` are checked although no program links them.
* `loc_rib_mod_lsa()` does not raise `highest_version_seen`, unlike
  `loc_rib_add_lsa()`.  `Rib` has it that way; since nothing in the repository says
  which of two LSAs of different version should win, there is no property.
* The contents of certificates, signatures and key files; gnutls, ivykis and TCP
  are external and modelled from how they are used.
* The branch of `dgp_connect.c` where a nonblocking `connect()` succeeds at once
  unregisters a timer that is not registered.  It is in `DgpSession`, and the
  properties say nothing of what follows it.
* Timing: timers expire at any time, keepalives are not counted.  Failing memory
  allocation is modelled where the code goes on after it.
* Packets, interface set-up (`tun.c`, `itf.c`), keys and certificates (`x509.c`),
  printing and the tools: system calls, library calls and formatting without
  state that outlives a call.

## 6. Plan

Done: the RIB, path cost and shortest paths, outgoing connections, TLS
connections, DGP sessions and their bytes, LSA objects, incoming connections and
peers, the configuration and its reload; and proofs for all of them except the
shortest paths.

Next, in order:

1. `CodecAssumption` for every set of attributes, in two halves: one attribute, which is
   arithmetic on positions, and the loop over a set.
2. A network of several `Rib`s connected by `MsgChannel`s: choices converge once
   links stop changing.
3. `tun.c` and the packet handlers of `dvpn.c`, for the connection that is destroyed
   under its own handler (`dvpn.c:326`).
