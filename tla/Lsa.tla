-------------------------------- MODULE Lsa --------------------------------
(***************************************************************************)
(* LSA objects (lsa.c), the integers of their wire format and the frame an *)
(* LSA is sent in (lsa_serialise.c, lsa_deserialise.c), over real          *)
(* sequences of bytes.  What an attribute set is on the wire is a          *)
(* parameter here, given by module LsaWire.                                *)
(*                                                                         *)
(* An integer is written most significant digit first, Base values to a    *)
(* byte, all bytes but the last marked by adding Base (0x80 in the code).  *)
(* Base and the limits are parameters, so that small instances have        *)
(* integers of several bytes.                                              *)
(***************************************************************************)
EXTENDS Integers, Sequences, SequencesExt, Sums

CONSTANTS
    Base,                       \* 128
    MAX_SERIALISED_INT_LEN,     \* 10
    UINT_RANGE,                 \* 2^64
    SSIZE_MAX,
    NODE_ID_LEN,
    NULL,
    ABORT,                      \* the program called abort()
    ERROR,                      \* a function returned -1
    lsa_attrs_serialise(_),     \* the bytes of a set of attributes
    lsa_deserialise_attr_set(_, _)  \* an LSA with the attributes of some bytes added

LSA_ATTR_TYPE == [ADV_PATH |-> 1, PEER |-> 2, NODE_NAME |-> 3, VERSION |-> 4,
                  PUBKEY |-> 5, SIGNATURE |-> 6]
LSA_PEER_ATTR_TYPE == [METRIC |-> 1, PEER_FLAGS |-> 2]

---------------------------------------------------------------------------
(* Attributes.  An LSA is the set of its attributes, those inside the set  *)
(* of another one included: each says in which set it lies (at), by the    *)
(* types and keys that lead there from the root, <<>>.                     *)

Bytes == Seq(Nat)
Attribute ==
    [at : Seq(Nat \X Bytes), type : Nat, key : Bytes, sign : BOOLEAN, set : BOOLEAN, data : Bytes]

Lsas == [refcount : Nat, bytes : Int, id : Bytes, attrs : SUBSET Attribute]

Where(a) == Append(a.at, <<a.type, a.key>>)

(* An upper bound on what an attribute takes on the wire, its children     *)
(* apart.                                                                  *)
lsa_attr_size(a) ==
    3 * MAX_SERIALISED_INT_LEN
      + (IF a.key # <<>> THEN MAX_SERIALISED_INT_LEN + Len(a.key) ELSE 0)
      + (IF a.set THEN 0 ELSE Len(a.data))

AttrsSize(A) == Sum([a \in A |-> lsa_attr_size(a)])

lsa_alloc(id) ==
    [refcount |-> 1, bytes |-> MAX_SERIALISED_INT_LEN + NODE_ID_LEN, id |-> id, attrs |-> {}]

(* The attribute of that type and key in the set at, or none. *)
lsa_attr_set_find_attr(l, at, type, key) ==
    {a \in l.attrs : a.at = at /\ a.type = type /\ a.key = key}
lsa_find_attr(l, type, key) == lsa_attr_set_find_attr(l, <<>>, type, key)

Has(l, type) == lsa_find_attr(l, type, <<>>) # {}
Data(l, type) == (CHOOSE a \in lsa_find_attr(l, type, <<>>) : TRUE).data

Leaf(at, type, sign, key, data) ==
    [at |-> at, type |-> type, key |-> key, sign |-> sign, set |-> FALSE, data |-> data]
Node(at, type, sign, key) ==
    [at |-> at, type |-> type, key |-> key, sign |-> sign, set |-> TRUE, data |-> <<>>]

(* lsa_attr_set_add_attr() and lsa_attr_set_add_attr_set(). *)
AddAttr(l, a) ==
    IF l = ABORT THEN ABORT
    ELSE IF l.refcount # 1 \/ lsa_attr_set_find_attr(l, a.at, a.type, a.key) # {} THEN ABORT
    ELSE [l EXCEPT !.attrs = @ \cup {a}, !.bytes = @ + lsa_attr_size(a)]

lsa_add_attr(l, type, sign, key, data) == AddAttr(l, Leaf(<<>>, type, sign, key, data))

(* Mutant: the children of a deleted attribute stay in the byte count. *)
lsa_del_attr_bykey_shallow(l, type, key) ==
    LET found == lsa_find_attr(l, type, key)
        gone == {a \in l.attrs : Where(a)[1] = <<type, key>>}
    IN  IF l.refcount # 1 \/ found = {} THEN ABORT
        ELSE [l EXCEPT !.attrs = @ \ gone, !.bytes = @ - AttrsSize(found)]

lsa_del_attr_bykey(l, type, key) ==
    LET found == lsa_find_attr(l, type, key)
        gone == {a \in l.attrs : Where(a)[1] = <<type, key>>}
    IN  IF l.refcount # 1 \/ found = {} THEN ABORT
        ELSE [l EXCEPT !.attrs = @ \ gone, !.bytes = @ - AttrsSize(gone)]

(* What adding the attributes A one by one to a new LSA makes. *)
FreshLsa(id, A) ==
    [refcount |-> 1, bytes |-> lsa_alloc(id).bytes + AttrsSize(A), id |-> id, attrs |-> A]

lsa_clone(l) == FreshLsa(l.id, l.attrs)

---------------------------------------------------------------------------
(* Integers.                                                               *)

(* v shifted right by k digits. *)
Shift(v) ==
    LET q[k \in 0..MAX_SERIALISED_INT_LEN] == IF k = 0 THEN v ELSE q[k - 1] \div Base
    IN  q

ASSUME WireAssumption ==
    /\ Base \in Nat /\ Base > 1
    /\ MAX_SERIALISED_INT_LEN \in Nat \ {0}
    /\ UINT_RANGE \in Nat /\ SSIZE_MAX \in Nat
    /\ NODE_ID_LEN \in Nat \ {0}
    /\ \A v \in 0..(UINT_RANGE - 1) : Shift(v)[MAX_SERIALISED_INT_LEN] = 0
    /\ ABORT \notin Lsas /\ NULL \notin Lsas /\ ERROR \notin Lsas
    /\ NULL # ABORT /\ NULL # ERROR /\ ABORT # ERROR

(* The shortest form, at least one byte. *)
IntLen(v) ==
    LET q == Shift(v)
    IN  Min({n \in 1..MAX_SERIALISED_INT_LEN : n = MAX_SERIALISED_INT_LEN \/ q[n] = 0})

(* dst_append_int() *)
WriteInt(v) ==
    LET n == IntLen(v)
        q == Shift(v)
    IN  [k \in 1..n |-> (q[n - k] % Base) + (IF k < n THEN Base ELSE 0)]

IntValue(b) ==
    LET v[k \in 0..Len(b)] ==
            IF k = 0 THEN 0 ELSE ((v[k - 1] * Base) + (b[k] % Base)) % UINT_RANGE
    IN  v[Len(b)]

(* SRC_READ_UINT64_T: st is "ok", "short" or "error", n the bytes used.    *)
(* Of the bytes looked at, those that can end the integer are ends.        *)
ReadInt(b) ==
    LET seen == Min({Len(b), MAX_SERIALISED_INT_LEN})
        ends == {k \in 1..seen : b[k] < Base}
    IN  IF seen > 0 /\ b[1] = Base THEN [st |-> "error", v |-> 0, n |-> 0]
        ELSE IF ends # {}
        THEN [st |-> "ok", v |-> IntValue(SubSeq(b, 1, Min(ends))), n |-> Min(ends)]
        ELSE [st |-> IF seen = MAX_SERIALISED_INT_LEN THEN "error" ELSE "short", v |-> 0, n |-> 0]

---------------------------------------------------------------------------
(* Writing an LSA.                                                         *)

(* Mutant: the path is signed with the rest. *)
VisibleLoosely(A, signed_only) ==
    {a \in A : signed_only => a.sign \/ a.type = LSA_ATTR_TYPE.ADV_PATH}

(* The attributes lsa_attrs_serialise() writes: with signed_only, none     *)
(* that is not signed and none inside such a one.                          *)
Visible(A, signed_only) ==
    {a \in A : signed_only => \A b \in A : IsPrefix(Where(b), Where(a)) => b.sign}

IsPath(a) == a.at = <<>> /\ a.type = LSA_ATTR_TYPE.ADV_PATH /\ ~ a.set

(* The id preid goes in front of the path; <<>> is none. *)
Prepended(A, preid) == {IF IsPath(a) THEN [a EXCEPT !.data = preid \o @] ELSE a : a \in A}

AttrFlags(a) ==
    (IF a.key # <<>> THEN 1 ELSE 0) + (IF a.set THEN 2 ELSE 0) + (IF a.sign THEN 4 ELSE 0)

(* What type, flags and key take. *)
HeadLength(a) ==
    IntLen(a.type) + IntLen(AttrFlags(a)) + (IF a.key # <<>> THEN IntLen(Len(a.key)) + Len(a.key) ELSE 0)

(* The length of the data of each attribute of A; of a set, that of its    *)
(* attributes with their heads.                                            *)
DataLengths(A) ==
    LET d[a \in A] ==
            IF ~ a.set THEN Len(a.data)
            ELSE Sum([c \in {c \in A : c.at = Where(a)} |-> HeadLength(c) + IntLen(d[c]) + d[c]])
    IN  d

(* The bytes of A, each counted with the attribute it is written for. *)
lsa_attr_set_serialise_length(A) ==
    LET d == DataLengths(A)
    IN  Sum([a \in A |-> HeadLength(a) + IntLen(d[a]) + (IF a.set THEN 0 ELSE Len(a.data))])

Written(l, signed_only, preid) == Prepended(Visible(l.attrs, signed_only), preid)

lsa_serialise_length(l, signed_only, preid) ==
    NODE_ID_LEN + lsa_attr_set_serialise_length(Written(l, signed_only, preid))

lsa_serialise(l, signed_only, preid) ==
    WriteInt(lsa_serialise_length(l, signed_only, preid))
        \o l.id \o lsa_attrs_serialise(Written(l, signed_only, preid))

---------------------------------------------------------------------------
(* Reading an LSA.                                                         *)

Drop(s, n) == SubSeq(s, n + 1, Len(s))

(* ret is the number of bytes used, 0 when more are needed. *)
Answer(ret, l) ==
    IF l = ERROR THEN [ret |-> -1, lsa |-> NULL] ELSE [ret |-> ret, lsa |-> l]

(* The rest of lsa_deserialise(), once the length r has been read. *)
Framed(buf, r) ==
    LET len == r.v + r.n
        body == SubSeq(buf, r.n + 1, len)
    IN  IF r.st = "short" THEN Answer(0, NULL)
        ELSE IF r.st = "error" THEN Answer(-1, NULL)
        ELSE IF r.v = 0 THEN Answer(r.n, NULL)
        ELSE IF r.v > SSIZE_MAX - r.n THEN Answer(-1, NULL)
        ELSE IF len > Len(buf) \/ r.v < NODE_ID_LEN THEN Answer(0, NULL)
        ELSE Answer(len, lsa_deserialise_attr_set(lsa_alloc(SubSeq(body, 1, NODE_ID_LEN)),
                                                  Drop(body, NODE_ID_LEN)))

lsa_deserialise(buf) == Framed(buf, ReadInt(buf))
=============================================================================
