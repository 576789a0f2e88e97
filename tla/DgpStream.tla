----------------------------- MODULE DgpStream -----------------------------
(***************************************************************************)
(* A node's own LSA (dvpn.c), and one DGP session between two nodes down   *)
(* to its bytes: dgp_writer.c serialises LSAs into a TCP connection,       *)
(* dgp_reader.c cuts them out of whatever pieces arrive.                   *)
(*                                                                         *)
(* One session stands for every hop: what has been received may be         *)
(* forwarded on it again, under the id of a further node.  Clocks count    *)
(* seconds; versions are seconds times VERSIONS_PER_SECOND (256).          *)
(***************************************************************************)
EXTENDS Lsa

CONSTANTS
    Me,                     \* the node's id, a sequence of NODE_ID_LEN bytes
    Others,                 \* ids of other nodes
    Peers,                  \* those the node may connect to
    NodeName,               \* data of an attribute of the node, or NULL
    PubKey,                 \* data of another
    Metric, PeerFlags,      \* and, by peer, of its attributes
    Paths,                  \* the values a path can take, as bytes
    BUFSIZE,                \* sizeof(dr->buf)
    MAX_SERLEN,             \* 65536 - 128
    LSA_MAX_BYTES,
    VERSIONS_PER_SECOND,
    MaxTime,                \* bound: seconds
    MaxUpdates,             \* changes of the LSA in a second of a run
    MaxSent, MaxNet,        \* bounds: LSAs per session, bytes under way
    MaxNetKeepalive,        \* bound: bytes under way when a keepalive is sent
    ReadSizes,              \* read() returns one of these, or all there is
    WriteSizes              \* what a failing write() may have taken

ASSUME StreamAssumption ==
    /\ BUFSIZE \in Nat /\ MAX_SERLEN \in Nat /\ LSA_MAX_BYTES \in Nat
    /\ MAX_SERLEN + MAX_SERIALISED_INT_LEN <= BUFSIZE
    /\ MAX_SERLEN + MAX_SERIALISED_INT_LEN <= SSIZE_MAX
    /\ MAX_SERLEN < UINT_RANGE
    /\ LSA_MAX_BYTES <= MAX_SERLEN
    /\ MaxTime \in Nat /\ MaxUpdates \in Nat /\ VERSIONS_PER_SECOND \in Nat
    /\ 2 * MaxUpdates < VERSIONS_PER_SECOND
    /\ ReadSizes \subseteq Nat /\ WriteSizes \subseteq Nat
    /\ NULL \notin Nat

ASSUME NodeAssumption ==
    /\ {Me} \cup Others \cup Peers \subseteq {i \in Bytes : Len(i) = NODE_ID_LEN}
    /\ IsFiniteSet(Peers)
    /\ NodeName \in Bytes \cup {NULL} /\ PubKey \in Bytes
    /\ Metric \in [Peers -> Bytes] /\ PeerFlags \in [Peers -> Bytes]

VARIABLES
    me,             \* the node's own LSA
    now, boot,      \* the time, and when the daemon started
    updates,        \* changes of the LSA in this second since then
    rushed,         \* history: an earlier run has started in the same second
    signed,         \* history: signature and data of every signing
    wr, rd,         \* the two ends: "open", "closed", the reader's "failed"
    net,            \* bytes written and not yet read
    buf,            \* the first dr->bytes bytes of dr->buf
    off,            \* of dgp_reader_read(), NULL while it is not running
    sent, rcvd      \* history: LSAs written whole, LSAs handed to the RIB

vars == <<me, now, boot, updates, rushed, signed, wr, rd, net, buf, off, sent, rcvd>>
session == <<wr, rd, net, buf, off, sent, rcvd>>
node == <<me, now, boot, updates, rushed, signed>>

---------------------------------------------------------------------------
(* The own LSA.                                                            *)

Version(l) == Data(l, LSA_ATTR_TYPE.VERSION)[1]

lsa_add_version(l, v) == lsa_add_attr(l, LSA_ATTR_TYPE.VERSION, TRUE, <<>>, <<v>>)

lsa_update_version(l) ==
    IF l = ABORT THEN ABORT
    ELSE LET curver == Version(l)
             t64 == now * VERSIONS_PER_SECOND
         IN  lsa_add_version(lsa_del_attr_bykey(l, LSA_ATTR_TYPE.VERSION, <<>>),
                             IF t64 <= curver THEN curver + 1 ELSE t64)

(* Mutant: the first version leaves no room for the second that is running. *)
lsa_initial_version_now(l, t) == lsa_add_version(l, t * VERSIONS_PER_SECOND)

lsa_initial_version(l, t) == lsa_add_version(l, (t + 1) * VERSIONS_PER_SECOND)

SignedData(l) == lsa_serialise(l, TRUE, <<>>)
Signature(l) == Data(l, LSA_ATTR_TYPE.SIGNATURE)

(* The signature itself is outside the model: the version stands for it,   *)
(* and "signed" says what was signed by it.                                *)
lsa_sign(l) ==
    IF l = ABORT THEN ABORT
    ELSE LET bare == IF Has(l, LSA_ATTR_TYPE.SIGNATURE)
                     THEN lsa_del_attr_bykey(l, LSA_ATTR_TYPE.SIGNATURE, <<>>) ELSE l
         IN  IF lsa_serialise_length(bare, TRUE, <<>>) > MAX_SERLEN THEN ABORT
             ELSE lsa_add_attr(bare, LSA_ATTR_TYPE.SIGNATURE, FALSE, <<>>, <<Version(l)>>)

(* The part of dvpn() that makes the LSA. *)
FirstLsa(t) ==
    LET l1 == lsa_add_attr(lsa_alloc(Me), LSA_ATTR_TYPE.ADV_PATH, FALSE, <<>>, <<>>)
        l2 == IF NodeName = NULL THEN l1
              ELSE lsa_add_attr(l1, LSA_ATTR_TYPE.NODE_NAME, TRUE, <<>>, NodeName)
        l3 == lsa_initial_version(l2, t)
    IN  lsa_sign(lsa_add_attr(l3, LSA_ATTR_TYPE.PUBKEY, TRUE, <<>>, PubKey))

(* The loc_rib holds a reference to the LSA given to it. *)
Held(l) == IF l = ABORT THEN ABORT ELSE [l EXCEPT !.refcount = @ + 1]

(* A PEER attribute, with METRIC and PEER_FLAGS in its set. *)
PeerAttr(p) == Node(<<>>, LSA_ATTR_TYPE.PEER, TRUE, p)
MetricAttr(p) == Leaf(Where(PeerAttr(p)), LSA_PEER_ATTR_TYPE.METRIC, TRUE, <<>>, Metric[p])
FlagsAttr(p) == Leaf(Where(PeerAttr(p)), LSA_PEER_ATTR_TYPE.PEER_FLAGS, TRUE, <<>>, PeerFlags[p])

WithPeer(l, p) == AddAttr(AddAttr(AddAttr(l, PeerAttr(p)), MetricAttr(p)), FlagsAttr(p))
WithoutPeer(l, p) == lsa_del_attr_bykey(l, LSA_ATTR_TYPE.PEER, p)
IsPeer(p) == lsa_find_attr(me, LSA_ATTR_TYPE.PEER, p) # {}

(* The rest of mylsa_add_peer() and mylsa_del_peer().  That a node has no  *)
(* more than MaxUpdates peers come and go in a second is an assumption,    *)
(* not a bound: a run may have any number of them.                         *)
Publish(l) ==
    LET newme == lsa_sign(lsa_update_version(l))
    IN  /\ updates < MaxUpdates
        /\ me' = Held(newme)
        /\ signed' = IF newme = ABORT THEN signed
                     ELSE signed \cup {<<Signature(newme), SignedData(newme)>>}
        /\ updates' = updates + 1
        /\ UNCHANGED <<now, boot, rushed, session>>

(* Mutant: the LSA the loc_rib holds is changed in place. *)
mylsa_add_peer_inplace(p) ==
    /\ me # ABORT
    /\ Publish(WithPeer(me, p))

(* The caller does not look whether the LSA has p already (DirectPeers). *)
mylsa_add_peer(p) ==
    /\ me # ABORT
    /\ Publish(WithPeer(lsa_clone(me), p))

(* A peer that goes is one that came: PeersMatchConns of DirectPeers. *)
mylsa_del_peer(p) ==
    /\ me # ABORT
    /\ IsPeer(p)
    /\ Publish(WithoutPeer(lsa_clone(me), p))

Tick ==
    /\ now < MaxTime
    /\ now' = now + 1
    /\ updates' = 0
    /\ UNCHANGED <<me, boot, rushed, signed, session>>

(* The kernel closes the connections of a daemon that called abort(). *)
Exit ==
    /\ me = ABORT
    /\ wr = "open" /\ wr' = "closed"
    /\ UNCHANGED <<node, rd, net, buf, off, sent, rcvd>>

(* The daemon goes down, if it has not aborted, and is started again, by   *)
(* its service manager maybe within the same second.                       *)
Restart ==
    /\ boot' = now
    /\ rushed' = (now = boot)
    /\ updates' = 0
    /\ me' = Held(FirstLsa(now))
    /\ signed' = signed \cup {<<Signature(FirstLsa(now)), SignedData(FirstLsa(now))>>}
    /\ wr' = "closed" /\ rd' = "closed"
    /\ net' = <<>> /\ buf' = <<>> /\ off' = NULL
    /\ sent' = <<>> /\ rcvd' = <<>>
    /\ UNCHANGED now

---------------------------------------------------------------------------
(* The writer.                                                             *)

Path(l) == Data(l, LSA_ATTR_TYPE.ADV_PATH)

lsa_path_contains(path, id) ==
    \E k \in {k \in 0..Len(path) : (k + 1) * NODE_ID_LEN <= Len(path)} :
        SubSeq(path, (k * NODE_ID_LEN) + 1, (k + 1) * NODE_ID_LEN) = id

(* What a reader is to make of an LSA written under the id preid. *)
Forwarded(l, preid) == FreshLsa(l.id, Prepended(l.attrs, preid))

(* adj_rib_in.c's map() of a node i lets l through.  The first id of the   *)
(* path is the sender's, who has put it there (Forwarded).                 *)
Usable(l, i) ==
    /\ l.bytes + NODE_ID_LEN <= LSA_MAX_BYTES
    /\ Has(l, LSA_ATTR_TYPE.ADV_PATH)
    /\ Len(Path(l)) >= NODE_ID_LEN /\ Len(Path(l)) % NODE_ID_LEN = 0
    /\ ~ lsa_path_contains(Path(l), i)

(* The LSAs a loc_rib may choose as best, the own one and usable ones,     *)
(* each with the id of the node that writes it.                            *)
Outgoing ==
    {<<me, Me>>} \cup {o \in {rcvd[k] : k \in DOMAIN rcvd} \X Others : Usable(o[1], o[2])}

(* The dummy LSA that withdraws an id. *)
Withdrawal(id) == lsa_alloc(id)

Room(b) == Len(net) + Len(b) <= MaxNet

(* dgp_writer_output_lsa() of an LSA or a withdrawal. *)
Output(l, preid) ==
    LET b == lsa_serialise(l, FALSE, preid)
    IN  /\ me # ABORT
        /\ wr = "open"
        /\ Len(sent) < MaxSent /\ Room(b)
        /\ IF lsa_serialise_length(l, FALSE, preid) > MAX_SERLEN
           THEN me' = ABORT /\ UNCHANGED <<net, sent>>
           ELSE /\ net' = net \o b
                /\ sent' = Append(sent, Forwarded(l, preid))
                /\ UNCHANGED me
        /\ UNCHANGED <<now, boot, updates, rushed, signed, wr, rd, buf, off, rcvd>>

OutputLsa == \E o \in Outgoing : Output(o[1], o[2])

OutputWithdrawal == Output(Withdrawal(Me), Me)

(* write() takes some of the bytes and io_error() closes the connection. *)
WriteFails ==
    \E o \in Outgoing \cup {<<Withdrawal(Me), Me>>} :
        LET b == lsa_serialise(o[1], FALSE, o[2])
        IN  /\ me # ABORT
            /\ wr = "open"
            /\ Room(b)
            /\ \E n \in WriteSizes : n < Len(b) /\ net' = net \o SubSeq(b, 1, n)
            /\ wr' = "closed"
            /\ UNCHANGED <<node, rd, buf, off, sent, rcvd>>

dgp_writer_send_keepalive ==
    /\ me # ABORT
    /\ wr = "open"
    /\ Len(net) <= MaxNetKeepalive
    /\ net' = Append(net, 0)
    /\ UNCHANGED <<node, wr, rd, buf, off, sent, rcvd>>

---------------------------------------------------------------------------
(* The reader.                                                             *)

(* dgp_reader_register(), with the writer's end. *)
Open ==
    /\ me # ABORT
    /\ wr = "closed" /\ rd # "open"
    /\ wr' = "open" /\ rd' = "open"
    /\ net' = <<>> /\ buf' = <<>> /\ off' = NULL
    /\ sent' = <<>> /\ rcvd' = <<>>
    /\ UNCHANGED node

Available == Min({Len(net), BUFSIZE - Len(buf)})

(* dgp_reader_read(): read() returns k bytes and the loop begins. *)
dgp_reader_read(k) ==
    /\ rd = "open" /\ off = NULL
    /\ k <= Available
    /\ net' = Drop(net, k)
    /\ buf' = buf \o SubSeq(net, 1, k)
    /\ off' = 0
    /\ UNCHANGED <<node, wr, rd, sent, rcvd>>

(* What the next iteration gets from lsa_deserialise(), if there is one. *)
NextLsa == IF off < Len(buf) THEN lsa_deserialise(Drop(buf, off)) ELSE Answer(0, NULL)

(* A message that is not one, or does not fit the buffer. *)
Refused == off < Len(buf) /\ (NextLsa.ret < 0 \/ (NextLsa.ret = 0 /\ off = 0 /\ Len(buf) = BUFSIZE))

HandOver(l) == rcvd' = IF l = NULL THEN rcvd ELSE Append(rcvd, l)

(* Mutant: what is left of the buffer is dropped. *)
LoopDropping ==
    /\ off # NULL
    /\ IF NextLsa.ret > 0
       THEN off' = off + NextLsa.ret /\ HandOver(NextLsa.lsa) /\ UNCHANGED <<buf, rd>>
       ELSE /\ off' = NULL
            /\ buf' = IF off > 0 THEN <<>> ELSE buf
            /\ rd' = IF Refused THEN "closed" ELSE rd
            /\ UNCHANGED rcvd
    /\ UNCHANGED <<node, wr, net, sent>>

(* Mutant: an LSA is handed over only when it is the last in the buffer. *)
LoopWaiting ==
    /\ off # NULL
    /\ IF NextLsa.ret > 0 /\ off + NextLsa.ret = Len(buf)
       THEN off' = off + NextLsa.ret /\ HandOver(NextLsa.lsa) /\ UNCHANGED <<buf, rd>>
       ELSE /\ off' = NULL
            /\ buf' = Drop(buf, off)
            /\ rd' = IF Refused THEN "closed" ELSE rd
            /\ UNCHANGED rcvd
    /\ UNCHANGED <<node, wr, net, sent>>

(* An iteration of the loop, or its end and what comes after it. *)
Loop ==
    /\ off # NULL
    /\ IF NextLsa.ret > 0
       THEN off' = off + NextLsa.ret /\ HandOver(NextLsa.lsa) /\ UNCHANGED <<buf, rd>>
       ELSE /\ off' = NULL
            /\ buf' = Drop(buf, off)
            /\ rd' = IF Refused THEN "closed" ELSE rd
            /\ UNCHANGED rcvd
    /\ UNCHANGED <<node, wr, net, sent>>

(* read() returns 0: end of file, or no space left in the buffer. *)
ReadEof ==
    /\ rd = "open" /\ off = NULL
    /\ (net = <<>> /\ wr = "closed") \/ Len(buf) = BUFSIZE
    /\ rd' = "closed"
    /\ UNCHANGED <<node, wr, net, buf, off, sent, rcvd>>

(* read() fails, or nothing has come for KEEPALIVE_TIMEOUT: the reader     *)
(* gives the session up wherever the stream is, and closing its socket     *)
(* loses what has not been read.                                           *)
ReadFails ==
    /\ rd = "open" /\ off = NULL
    /\ rd' = "failed"
    /\ net' = <<>> /\ buf' = <<>>
    /\ UNCHANGED <<node, wr, off, sent, rcvd>>

ReadSome ==
    /\ Available > 0
    /\ \E k \in ReadSizes \cup {Available} : dgp_reader_read(k)

---------------------------------------------------------------------------
Init ==
    /\ now = 0 /\ boot = 0 /\ updates = 0 /\ rushed = FALSE
    /\ me = Held(FirstLsa(0))
    /\ signed = {<<Signature(FirstLsa(0)), SignedData(FirstLsa(0))>>}
    /\ wr = "closed" /\ rd = "closed"
    /\ net = <<>> /\ buf = <<>> /\ off = NULL /\ sent = <<>> /\ rcvd = <<>>

Next ==
    \/ \E p \in Peers : mylsa_add_peer(p) \/ mylsa_del_peer(p)
    \/ Tick \/ Exit \/ Restart
    \/ Open \/ OutputLsa \/ OutputWithdrawal \/ dgp_writer_send_keepalive
    \/ WriteFails \/ ReadSome \/ Loop \/ ReadEof \/ ReadFails

(* The event loop calls the reader as long as there is something to read,  *)
(* and the reader's own loop goes on by itself.  A read is told by what it *)
(* takes from the connection, a turn of the loop by off.                   *)
Drain ==
    /\ rd = "open" /\ off = NULL
    /\ \E k \in 1..Available : net' = Drop(net, k)

Turn == off # NULL /\ \E n \in {NULL} \cup 1..Len(buf) : off' = n

Fairness == WF_net(Drain) /\ WF_off(Turn) /\ WF_vars(ReadEof)

Spec == Init /\ [][Next]_vars /\ Fairness

---------------------------------------------------------------------------
(* The attributes the node's LSA of version v has, with the peers S, where *)
(* it has come by path.                                                    *)
Versions == 0..(((MaxTime + 1) * VERSIONS_PER_SECOND) + MaxUpdates)

OwnAttrs(v, S, path) ==
    {Leaf(<<>>, LSA_ATTR_TYPE.ADV_PATH, FALSE, <<>>, path),
     Leaf(<<>>, LSA_ATTR_TYPE.VERSION, TRUE, <<>>, <<v>>),
     Leaf(<<>>, LSA_ATTR_TYPE.PUBKEY, TRUE, <<>>, PubKey),
     Leaf(<<>>, LSA_ATTR_TYPE.SIGNATURE, FALSE, <<>>, <<v>>)}
    \cup (IF NodeName = NULL THEN {}
          ELSE {Leaf(<<>>, LSA_ATTR_TYPE.NODE_NAME, TRUE, <<>>, NodeName)})
    \cup UNION {{PeerAttr(p), MetricAttr(p), FlagsAttr(p)} : p \in S}

(* A path grows by ids that are not on it. *)
ASSUME PathsAssumption ==
    /\ <<>> \in Paths /\ Me \in Paths /\ Paths \subseteq Bytes
    /\ \A p \in Paths, i \in Others : ~ lsa_path_contains(p, i) => i \o p \in Paths

(* The daemon is not configured with more peers than its LSA has room for. *)
ASSUME OwnFitsAssumption ==
    \A v \in Versions, S \in SUBSET Peers :
        FreshLsa(Me, OwnAttrs(v, S, <<>>)).bytes + NODE_ID_LEN <= MAX_SERLEN

(* What is asked of the wire format of attribute sets: it is as long as    *)
(* lsa_attr_set_serialise_length() says, or lsa_serialise() would abort(), *)
(* and it is read as it was written.                                       *)
ASSUME CodecAssumption ==
    \A A \in {{}} \cup {OwnAttrs(v, S, p) : v \in Versions, S \in SUBSET Peers, p \in Paths} :
        AttrsSize(A) <= MAX_SERLEN =>
            /\ lsa_attrs_serialise(A) \in Bytes
            /\ Len(lsa_attrs_serialise(A)) = lsa_attr_set_serialise_length(A)
            /\ lsa_deserialise_attr_set(lsa_alloc(Me), lsa_attrs_serialise(A)) = FreshLsa(Me, A)

---------------------------------------------------------------------------
Channel == INSTANCE MsgChannel

(* The session implements a channel of LSAs: wherever TCP cuts the bytes,  *)
(* dgp_reader_read() hands over exactly what dgp_writer_output_lsa()       *)
(* wrote, with the writer's id in front of the path, in order and once,    *)
(* ends the session by itself only after the last of them, and a message   *)
(* cut off by a failing write() is never handed over.                      *)
ImplementsChannel == Channel!Spec

(* The one abort() of lsa.c, dvpn.c and dgp_writer.c that is reached is    *)
(* that of lsa_attr_set_add_attr_set() when mylsa_add_peer() is called for *)
(* a peer the LSA has: no start and no other change of the own LSA, no     *)
(* writing of an LSA and no LSA that a node of this code has written runs  *)
(* into one, so that a shared object is never changed, nothing else is     *)
(* added twice, and nothing too long for the reader's buffer is written.   *)
AbortsOnlyOnDuplicate ==
    /\ me # ABORT
    /\ [][/\ me' = ABORT /\ (me # ABORT \/ Restart)
              => me # ABORT /\ \E p \in Peers : IsPeer(p) /\ mylsa_add_peer(p)
          /\ \A k \in DOMAIN rcvd' : rcvd'[k] # ABORT]_vars

LsasAround == {me} \cup {rcvd[k] : k \in DOMAIN rcvd}

(* lsa->bytes, kept by adding and subtracting, is what the attributes      *)
(* amount to, and an LSA written on by the next node is no longer than     *)
(* that and one id: what adj_rib_in.c accepts by looking at bytes alone    *)
(* never becomes too long for the writer or the next reader.               *)
BytesBoundLength ==
    \A l \in LsasAround \ {ABORT} :
        /\ l.bytes = FreshLsa(l.id, l.attrs).bytes
        /\ \A i \in Others :
               LET n == lsa_serialise_length(l, FALSE, i)
               IN  IntLen(n) + n <= l.bytes + NODE_ID_LEN

(* The signed part of an LSA is the same bytes on every node it reaches,   *)
(* so that adj_rib_in.c's check of the signature succeeds after any number *)
(* of hops, although each hop rewrites the path.                           *)
SignaturesVerify ==
    \A k \in DOMAIN rcvd :
        rcvd[k] # ABORT /\ Has(rcvd[k], LSA_ATTR_TYPE.SIGNATURE)
            => <<Signature(rcvd[k]), SignedData(rcvd[k])>> \in signed

(* Every LSA the node makes of itself has a higher version than all it has *)
(* ever made, in this run of the daemon or an earlier one, although they   *)
(* are made from the time of day: others take the newest.  Left out are    *)
(* runs that start in the second in which another has started.             *)
VersionsGrow ==
    [][me' # me /\ me' # ABORT /\ ~ rushed' => \A s \in signed : s[1][1] < Version(me')]_vars

(* An LSA that was written is read in the end, unless the session is lost  *)
(* or reading fails.                                                       *)
WrittenIsRead ==
    \A n \in 1..MaxSent :
        (Len(sent) >= n) ~> (Len(rcvd) >= n \/ Len(sent) < n \/ rd = "failed")
=============================================================================
