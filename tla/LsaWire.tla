------------------------------ MODULE LsaWire ------------------------------
(***************************************************************************)
(* What an attribute set is on the wire (lsa_serialise.c,                  *)
(* lsa_deserialise.c): type, flags, key and data of each attribute in the  *)
(* order of the AVL tree, the data of a set being its attributes.          *)
(***************************************************************************)
EXTENDS Lsa

CONSTANTS
    INT_MAX,
    MaxDepth                    \* 8

BytesLess(a, b) ==
    \/ IsStrictPrefix(a, b)
    \/ \E k \in DOMAIN a \cap DOMAIN b :
           a[k] < b[k] /\ \A j \in 1..(k - 1) : a[j] = b[j]

lsa_attr_compare_keys(a, b) ==
    a.type < b.type \/ (a.type = b.type /\ BytesLess(a.key, b.key))

(* iv_avl_tree_for_each over a set. *)
InOrder(S) ==
    [k \in 1..Cardinality(S) |->
        CHOOSE a \in S : Cardinality({b \in S : lsa_attr_compare_keys(b, a)}) = k - 1]

RECURSIVE SetSerialise(_, _)

(* __lsa_attr_serialise() of an attribute of A. *)
AttrSerialise(A, a) ==
    LET body == IF a.set THEN SetSerialise(A, Where(a)) ELSE a.data
    IN  WriteInt(a.type) \o WriteInt(AttrFlags(a))
          \o (IF a.key # <<>> THEN WriteInt(Len(a.key)) \o a.key ELSE <<>>)
          \o WriteInt(Len(body)) \o body

(* The attributes of A in the set at. *)
SetSerialise(A, at) ==
    FoldLeft(LAMBDA out, a : out \o AttrSerialise(A, a), <<>>, InOrder({a \in A : a.at = at}))

AttrsSerialise(A) == SetSerialise(A, <<>>)

---------------------------------------------------------------------------
(* SRC_READ_INT, or SRC_READ_SIZE_T and SRC_GET_PTR, where r is what the   *)
(* cursor c has next.                                                      *)
Field(c, field, r) ==
    LET rest == Drop(c.rest, r.n)
    IN  IF field = "key" /\ Last(c.out) % 2 = 0      \* flags without HAS_KEY
        THEN [c EXCEPT !.out = Append(@, <<>>)]
        ELSE IF r.st # "ok" THEN ERROR
        ELSE IF field = "int"
        THEN IF r.v > INT_MAX THEN ERROR
             ELSE [rest |-> rest, out |-> Append(c.out, r.v)]
        ELSE IF Len(rest) < r.v THEN ERROR
        ELSE [rest |-> Drop(rest, r.v), out |-> Append(c.out, SubSeq(rest, 1, r.v))]

(* A cursor inside one LSA is the bytes left and the values read so far; a *)
(* short read there is an error.                                           *)
ReadField(c, field) == IF c = ERROR THEN ERROR ELSE Field(c, field, ReadInt(c.rest))

(* Type, flags, key and data of the next attribute. *)
ReadAttr(b) ==
    LET flags == ReadField(ReadField([rest |-> b, out |-> <<>>], "int"), "int")
    IN  ReadField(ReadField(flags, "key"), "data")

IsSet(c) == (c.out[2] \div 2) % 2 = 1

AttrOf(c, at) ==
    LET sign == (c.out[2] \div 4) % 2 = 1
    IN  IF IsSet(c) THEN Node(at, c.out[1], sign, c.out[3])
        ELSE Leaf(at, c.out[1], sign, c.out[3], c.out[4])

RECURSIVE SetDeserialise(_, _, _, _)

(* The attribute read to c becomes one of the set at, then its children. *)
AddRead(l, at, c, maxdepth) ==
    LET a == AttrOf(c, at)
    IN  IF ~ a.set THEN AddAttr(l, a)
        ELSE IF maxdepth = 0 THEN ERROR
        ELSE SetDeserialise(AddAttr(l, a), Where(a), c.out[4], maxdepth - 1)

AddNext(l, at, c, maxdepth) ==
    IF c = ERROR THEN ERROR
    ELSE SetDeserialise(AddRead(l, at, c, maxdepth), at, c.rest, maxdepth)

(* The loop of lsa_deserialise_attr_set(). *)
SetDeserialise(l, at, b, maxdepth) ==
    IF l \in {ERROR, ABORT} \/ b = <<>> THEN l
    ELSE AddNext(l, at, ReadAttr(b), maxdepth)

AttrSetDeserialise(l, b) == SetDeserialise(l, <<>>, b, MaxDepth)
=============================================================================
