-------------------------- MODULE DgpStreamProofs --------------------------
(***************************************************************************)
(* Proofs about module DgpStream, for every length of integers, ids and    *)
(* buffers, every set of peers, and wherever the connection cuts the bytes.*)
(***************************************************************************)
EXTENDS DgpStream, SequenceTheorems, SumProofs, TLAPS

---------------------------------------------------------------------------
(* Induction over the natural numbers, and functions defined by it.        *)

(* Of several numbers one is the smallest. *)
LEMMA SmallestNumber ==
    ASSUME NEW S, S \subseteq Nat, S # {}
    PROVE  \E n \in S : \A m \in S : n <= m
<1>1. PICK n \in S : \A m \in S : ~ (<<m, n>> \in OpToRel(<, Nat))
  BY NatLessThanWellFounded, WFMin
<1>2. ASSUME NEW m \in S PROVE n <= m
  <2>1. m \in Nat /\ n \in Nat
    OBVIOUS
  <2>2. ~ (m < n)
    BY <1>1, <2>1 DEF OpToRel
  <2> QED BY <2>1, <2>2
<1> QED BY <1>2

(* The smallest of them is what Min picks. *)
LEMMA MinProps ==
    ASSUME NEW S, S \subseteq Nat, S # {}
    PROVE  Min(S) \in S /\ \A m \in S : Min(S) <= m
BY SmallestNumber DEF Min

(* A set that has 0 and with each number the next has them all. *)
LEMMA Induction ==
    ASSUME NEW B, 0 \in B, \A n \in Nat : n \in B => n + 1 \in B
    PROVE  Nat \subseteq B
<1> DEFINE C == Nat \ B
<1> SUFFICES ASSUME C # {} PROVE FALSE
  OBVIOUS
<1>1. PICK n \in C : \A m \in C : n <= m
  <2>1. C \subseteq Nat
    OBVIOUS
  <2> HIDE DEF C
  <2> QED BY <2>1, SmallestNumber
<1>2. n \in Nat /\ n # 0
  OBVIOUS
<1>3. n - 1 \in Nat /\ (n - 1) + 1 = n /\ ~ (n <= n - 1)
  BY <1>2
<1>4. n - 1 \in B
  BY <1>1, <1>3
<1>5. n \in B
  BY <1>3, <1>4
<1> QED BY <1>5

---------------------------------------------------------------------------
(* Integers.                                                               *)

(* Division, as far as it is needed here. *)
LEMMA DivMod ==
    ASSUME NEW v \in Nat
    PROVE  /\ v \div Base \in Nat /\ v % Base \in 0..(Base - 1)
           /\ v = ((v \div Base) * Base) + (v % Base)
           /\ v \div Base <= v
BY WireAssumption

(* A digit, marked or not, is the digit again without its mark. *)
LEMMA Unmarked ==
    ASSUME NEW d \in 0..(Base - 1)
    PROVE  d % Base = d /\ (d + Base) % Base = d
BY WireAssumption

(* Numbers within the range of the type are not reduced. *)
LEMMA NotReduced ==
    ASSUME NEW v \in 0..(UINT_RANGE - 1)
    PROVE  v % UINT_RANGE = v
BY WireAssumption

(* q gives the shifts of v by up to n digits. *)
IsShift(q, v, n) == q = [k \in 0..n |-> IF k = 0 THEN v ELSE q[k - 1] \div Base]

(* There are such functions. *)
LEMMA ShiftsExist == \A n \in Nat : \A v : \E q : IsShift(q, v, n)
<1> DEFINE B == {n \in Nat : \A v : \E q : IsShift(q, v, n)}
<1>1. 0 \in B
  <2> SUFFICES ASSUME NEW v PROVE \E q : IsShift(q, v, 0)
    OBVIOUS
  <2>1. IsShift([k \in 0..0 |-> v], v, 0)
    BY DEF IsShift
  <2> QED BY <2>1
<1>2. ASSUME NEW n \in Nat, n \in B PROVE n + 1 \in B
  <2> SUFFICES ASSUME NEW v PROVE \E q : IsShift(q, v, n + 1)
    OBVIOUS
  <2>1. PICK q : IsShift(q, v, n)
    BY <1>2
  <2> DEFINE r == [k \in 0..(n + 1) |-> IF k = n + 1 THEN q[n] \div Base ELSE q[k]]
  <2>2. ASSUME NEW k \in 0..(n + 1)
        PROVE  r[k] = IF k = 0 THEN v ELSE r[k - 1] \div Base
    <3>1. CASE k = n + 1
      BY <3>1
    <3>2. CASE k \in 0..n
      <4>1. q[k] = IF k = 0 THEN v ELSE q[k - 1] \div Base
        BY <2>1, <3>2 DEF IsShift
      <4> QED BY <3>2, <4>1
    <3> QED BY <3>1, <3>2
  <2>3. r = [k \in 0..(n + 1) |-> r[k]]
    OBVIOUS
  <2>4. IsShift(r, v, n + 1)
    <3> HIDE DEF r
    <3> QED BY <2>2, <2>3 DEF IsShift
  <2> QED BY <2>4
<1>3. Nat \subseteq B
  <2> HIDE DEF B
  <2> QED BY <1>1, <1>2, Induction
<1> QED BY <1>3

(* What Shift gives. *)
LEMMA ShiftAt ==
    ASSUME NEW v
    PROVE  /\ Shift(v)[0] = v
           /\ \A k \in 1..MAX_SERIALISED_INT_LEN : Shift(v)[k] = Shift(v)[k - 1] \div Base
<1> DEFINE n == MAX_SERIALISED_INT_LEN
           q == Shift(v)
<1>1. n \in Nat
  BY WireAssumption
<1>2. IsShift(q, v, n)
  <2>1. \E r : IsShift(r, v, n)
    BY <1>1, ShiftsExist
  <2>2. q = CHOOSE r : IsShift(r, v, n)
    BY DEF Shift, IsShift
  <2> HIDE DEF q, n
  <2> QED BY <2>1, <2>2
<1> HIDE DEF q, n
<1>3. q[0] = v /\ \A k \in 1..n : q[k] = q[k - 1] \div Base
  BY <1>1, <1>2 DEF IsShift
<1> QED BY <1>3 DEF q, n

(* A number shifted is a number, and not a larger one. *)
LEMMA ShiftType ==
    ASSUME NEW v \in Nat
    PROVE  \A k \in 0..MAX_SERIALISED_INT_LEN : Shift(v)[k] \in Nat /\ Shift(v)[k] <= v
<1> DEFINE n == MAX_SERIALISED_INT_LEN
           q == Shift(v)
           B == {k \in Nat : k <= n => q[k] \in Nat /\ q[k] <= v}
<1>1. n \in Nat /\ q[0] = v /\ \A k \in 1..n : q[k] = q[k - 1] \div Base
  BY ShiftAt, WireAssumption
<1> HIDE DEF q, n
<1>2. 0 \in B
  BY <1>1
<1>3. ASSUME NEW k \in Nat, k \in B PROVE k + 1 \in B
  <2> SUFFICES ASSUME k + 1 <= n PROVE q[k + 1] \in Nat /\ q[k + 1] <= v
    OBVIOUS
  <2>1. q[k] \in Nat /\ q[k] <= v
    BY <1>1, <1>3
  <2>2. q[k + 1] = q[k] \div Base
    BY <1>1
  <2> QED BY <2>1, <2>2, DivMod
<1>4. Nat \subseteq B
  <2> HIDE DEF B
  <2> QED BY <1>2, <1>3, Induction
<1> QED BY <1>1, <1>4 DEF q, n

(* The length of an integer, whatever the integer is. *)
LEMMA IntLenType ==
    ASSUME NEW v
    PROVE  /\ IntLen(v) \in 1..MAX_SERIALISED_INT_LEN
           /\ IntLen(v) = MAX_SERIALISED_INT_LEN \/ Shift(v)[IntLen(v)] = 0
           /\ \A n \in 1..(IntLen(v) - 1) : Shift(v)[n] # 0
<1> DEFINE N == MAX_SERIALISED_INT_LEN
           q == Shift(v)
           S == {n \in 1..N : n = N \/ q[n] = 0}
<1>1. N \in Nat \ {0}
  BY WireAssumption
<1>2. IntLen(v) = Min(S)
  BY DEF IntLen
<1> HIDE DEF N, q
<1>3. S \subseteq Nat /\ N \in S
  BY <1>1
<1>4. Min(S) \in S /\ \A m \in S : Min(S) <= m
  <2> HIDE DEF S
  <2> QED BY <1>3, MinProps
<1>5. Min(S) \in 1..N /\ (Min(S) = N \/ q[Min(S)] = 0)
  BY <1>4
<1>6. ASSUME NEW n \in 1..(Min(S) - 1) PROVE q[n] # 0
  <2>1. n \in 1..N /\ ~ (Min(S) <= n)
    BY <1>1, <1>5
  <2> QED BY <1>4, <2>1
<1> QED BY <1>2, <1>5, <1>6 DEF N, q

(* What dst_append_int() writes. *)
LEMMA WriteIntProps ==
    ASSUME NEW v \in 0..(UINT_RANGE - 1)
    PROVE  LET n == IntLen(v)
               w == WriteInt(v)
           IN  /\ n \in 1..MAX_SERIALISED_INT_LEN /\ Shift(v)[n] = 0
               /\ w \in Bytes /\ Len(w) = n
               /\ \A k \in 1..n : w[k] % Base = Shift(v)[n - k] % Base
               /\ \A k \in 1..(n - 1) : w[k] >= Base
               /\ w[n] < Base /\ w[1] # Base
<1> DEFINE n == IntLen(v)
           w == WriteInt(v)
           q == Shift(v)
           N == MAX_SERIALISED_INT_LEN
<1>1. v \in Nat /\ N \in Nat \ {0} /\ n \in 1..N /\ q[N] = 0 /\ Base \in Nat /\ Base > 1
  BY IntLenType, WireAssumption
<1>2. q[n] = 0 /\ \A k \in 1..(n - 1) : q[k] # 0
  BY <1>1, IntLenType
<1>3. q[0] = v /\ \A k \in 1..N : q[k] = q[k - 1] \div Base
  BY ShiftAt
<1>4. \A k \in 0..N : q[k] \in Nat
  BY <1>1, ShiftType
<1>5. w = [k \in 1..n |-> (q[n - k] % Base) + (IF k < n THEN Base ELSE 0)]
  BY DEF WriteInt
<1> HIDE DEF n, w, q, N
<1>6. ASSUME NEW k \in 1..n
      PROVE  /\ w[k] \in Nat /\ w[k] % Base = q[n - k] % Base
             /\ w[k] = (q[n - k] % Base) + (IF k < n THEN Base ELSE 0)
             /\ q[n - k] % Base \in 0..(Base - 1)
  <2>1. q[n - k] % Base \in 0..(Base - 1)
    BY <1>1, <1>4, DivMod
  <2>2. w[k] = (q[n - k] % Base) + (IF k < n THEN Base ELSE 0)
    BY <1>5
  <2> DEFINE d == q[n - k] % Base
  <2>3. d % Base = d /\ (d + Base) % Base = d
    BY <2>1, Unmarked
  <2> HIDE DEF d
  <2>4. w[k] = d + (IF k < n THEN Base ELSE 0) /\ d \in 0..(Base - 1)
    BY <2>1, <2>2 DEF d
  <2>5. w[k] \in Nat /\ w[k] % Base = d
    BY <1>1, <2>3, <2>4
  <2> QED BY <2>1, <2>2, <2>5 DEF d
<1>7. w \in Bytes /\ Len(w) = n
  <2>1. w \in [1..n -> Nat]
    BY <1>5, <1>6
  <2> QED BY <1>1, <2>1, IsASeq DEF Bytes
<1>8. \A k \in 1..(n - 1) : w[k] >= Base
  BY <1>1, <1>6
<1>9. w[n] < Base
  BY <1>1, <1>6
<1>10. w[1] # Base
  <2>1. CASE n = 1
    BY <1>1, <1>9, <2>1
  <2>2. CASE n > 1
    <3>1. n - 1 \in 1..(n - 1) /\ n - 1 \in 0..N /\ n \in 1..N /\ 1 \in 1..n
      BY <1>1, <2>2
    <3>2. q[n - 1] # 0 /\ q[n] = q[n - 1] \div Base /\ q[n - 1] \in Nat
      BY <1>2, <1>3, <1>4, <3>1
    <3>3. q[n - 1] % Base # 0
      <4>1. q[n - 1] = (q[n] * Base) + (q[n - 1] % Base) /\ q[n - 1] % Base \in 0..(Base - 1)
        BY <3>2, DivMod
      <4>2. q[n] * Base = 0
        BY <1>1, <1>2
      <4> QED BY <3>2, <4>1, <4>2
    <3>4. w[1] = (q[n - 1] % Base) + Base /\ q[n - 1] % Base \in 0..(Base - 1)
      BY <1>6, <2>2, <3>1
    <3> QED BY <1>1, <3>3, <3>4
  <2> QED BY <1>1, <2>1, <2>2
<1> QED BY <1>1, <1>2, <1>6, <1>7, <1>8, <1>9, <1>10 DEF n, w, q, N

(* The values of the first k digits of b, for k up to n. *)
IsValue(g, b, n) ==
    g = [k \in 0..n |-> IF k = 0 THEN 0 ELSE ((g[k - 1] * Base) + (b[k] % Base)) % UINT_RANGE]

(* The digits of v in front of the last j make v without the last j. *)
LEMMA DigitsOf ==
    ASSUME NEW v \in 0..(UINT_RANGE - 1), NEW b, Len(b) = IntLen(v),
           \A k \in 1..IntLen(v) : b[k] % Base = Shift(v)[IntLen(v) - k] % Base
    PROVE  IntValue(b) = v
<1> DEFINE n == IntLen(v)
           q == Shift(v)
           N == MAX_SERIALISED_INT_LEN
           g == [k \in 0..n |-> q[n - k]]
<1>1. n \in 1..N /\ N \in Nat \ {0} /\ q[n] = 0 /\ q[0] = v /\ Base \in Nat /\ UINT_RANGE \in Nat
  BY WriteIntProps, ShiftAt, WireAssumption
<1>2. \A k \in 1..N : q[k] = q[k - 1] \div Base
  BY ShiftAt
<1>3. \A k \in 0..N : q[k] \in Nat /\ q[k] <= v
  BY ShiftType
<1>4. \A k \in 1..n : b[k] % Base = q[n - k] % Base
  OBVIOUS
<1>5. Len(b) = n
  OBVIOUS
<1>6. IntValue(b) = (CHOOSE f : IsValue(f, b, n))[n]
  BY <1>5 DEF IntValue, IsValue
<1> HIDE DEF n, q, N
<1>7. ASSUME NEW k \in 1..n
      PROVE  q[n - k] = ((q[n - (k - 1)] * Base) + (b[k] % Base)) % UINT_RANGE
  <2>1. n - k \in 0..N /\ n - (k - 1) \in 1..N /\ (n - (k - 1)) - 1 = n - k
    BY <1>1
  <2>2. q[n - k] \in 0..(UINT_RANGE - 1)
    BY <1>1, <1>3, <2>1
  <2>3. q[n - (k - 1)] = q[n - k] \div Base
    BY <1>2, <2>1
  <2>4. q[n - k] = (q[n - (k - 1)] * Base) + (b[k] % Base)
    <3>1. q[n - k] \in Nat
      BY <1>3, <2>1
    <3>2. q[n - k] = ((q[n - k] \div Base) * Base) + (q[n - k] % Base)
      BY <3>1, DivMod
    <3> QED BY <1>4, <2>3, <3>2
  <2> QED BY <2>2, <2>4, NotReduced
<1>8. ASSUME NEW k \in 0..n
      PROVE  g[k] = IF k = 0 THEN 0 ELSE ((g[k - 1] * Base) + (b[k] % Base)) % UINT_RANGE
  <2>1. CASE k = 0
    BY <1>1, <2>1
  <2>2. CASE k \in 1..n
    <3>1. k - 1 \in 0..n /\ g[k] = q[n - k] /\ g[k - 1] = q[n - (k - 1)]
      BY <1>1, <2>2
    <3> HIDE DEF g
    <3> QED BY <1>7, <2>2, <3>1
  <2> QED BY <1>1, <2>1, <2>2
<1>9. IsValue(g, b, n)
  <2>1. g = [k \in 0..n |-> g[k]]
    OBVIOUS
  <2> HIDE DEF g
  <2> QED BY <1>8, <2>1 DEF IsValue
<1>10. g[n] = v
  BY <1>1
<1>11. ASSUME NEW f, IsValue(f, b, n) PROVE f[n] = v
  <2> DEFINE B == {k \in Nat : k <= n => f[k] = g[k]}
  <2>1. 0 \in B
    BY <1>1, <1>8, <1>11 DEF IsValue
  <2>2. ASSUME NEW k \in Nat, k \in B PROVE k + 1 \in B
    <3> SUFFICES ASSUME k + 1 <= n PROVE f[k + 1] = g[k + 1]
      OBVIOUS
    <3>1. k + 1 \in 0..n /\ (k + 1) - 1 = k /\ k + 1 # 0
      BY <1>1
    <3>2. f[k + 1] = ((f[k] * Base) + (b[k + 1] % Base)) % UINT_RANGE
      BY <1>11, <3>1 DEF IsValue
    <3>3. g[k + 1] = ((g[k] * Base) + (b[k + 1] % Base)) % UINT_RANGE
      <4> HIDE DEF g
      <4> QED BY <1>8, <3>1
    <3>4. f[k] = g[k]
      BY <2>2, <1>1
    <3> HIDE DEF g
    <3> QED BY <3>2, <3>3, <3>4
  <2>3. Nat \subseteq B
    <3> HIDE DEF B
    <3> QED BY <2>1, <2>2, Induction
  <2>4. f[n] = g[n]
    <3>1. n \in Nat /\ n <= n
      BY <1>1
    <3> HIDE DEF g
    <3> QED BY <2>3, <3>1
  <2> HIDE DEF g
  <2> QED BY <1>10, <2>4
<1>12. IsValue(CHOOSE f : IsValue(f, b, n), b, n)
  <2> HIDE DEF g
  <2> QED BY <1>9
<1> QED BY <1>6, <1>11, <1>12

(* The smaller of two. *)
LEMMA MinOfTwo ==
    ASSUME NEW a \in Nat, NEW b \in Nat
    PROVE  Min({a, b}) = IF a <= b THEN a ELSE b
<1>1. Min({a, b}) \in {a, b} /\ \A m \in {a, b} : Min({a, b}) <= m
  BY MinProps
<1> QED BY <1>1

(* SRC_READ_UINT64_T reads what dst_append_int() has written, whatever     *)
(* comes after it.                                                         *)
LEMMA ReadsWhatWasWritten ==
    ASSUME NEW v \in 0..(UINT_RANGE - 1), NEW b \in Bytes, IntLen(v) <= Len(b),
           \A k \in 1..IntLen(v) : b[k] = WriteInt(v)[k]
    PROVE  ReadInt(b) = [st |-> "ok", v |-> v, n |-> IntLen(v)]
<1> DEFINE n == IntLen(v)
           w == WriteInt(v)
           N == MAX_SERIALISED_INT_LEN
           seen == Min({Len(b), N})
           ends == {k \in 1..seen : b[k] < Base}
<1>1. /\ n \in 1..N /\ N \in Nat \ {0} /\ Base \in Nat
      /\ w \in Bytes /\ Len(w) = n
      /\ \A k \in 1..n : w[k] % Base = Shift(v)[n - k] % Base
      /\ \A k \in 1..(n - 1) : w[k] >= Base
      /\ w[n] < Base /\ w[1] # Base
  BY WriteIntProps, WireAssumption
<1>2. Len(b) \in Nat /\ n <= Len(b) /\ \A k \in 1..n : b[k] = w[k]
  BY LenProperties DEF Bytes
<1>3. ReadInt(b) = IF seen > 0 /\ b[1] = Base THEN [st |-> "error", v |-> 0, n |-> 0]
                   ELSE IF ends # {}
                   THEN [st |-> "ok", v |-> IntValue(SubSeq(b, 1, Min(ends))), n |-> Min(ends)]
                   ELSE [st |-> IF seen = MAX_SERIALISED_INT_LEN THEN "error" ELSE "short",
                         v |-> 0, n |-> 0]
  BY DEF ReadInt
<1>4. seen \in Nat /\ n <= seen
  BY <1>1, <1>2, MinOfTwo
<1>5. \A k \in 1..n : b[k] \in Nat
  BY <1>1, <1>2, ElementOfSeq DEF Bytes
<1> HIDE DEF n, w, N, seen
<1>6. n \in ends /\ b[1] # Base
  BY <1>1, <1>2, <1>4
<1>7. Min(ends) = n
  <2>1. ends \subseteq Nat /\ ends # {}
    BY <1>4, <1>6
  <2>2. Min(ends) \in ends /\ Min(ends) <= n
    <3> HIDE DEF ends
    <3> QED BY <1>6, <2>1, MinProps
  <2>3. Min(ends) \in 1..n /\ b[Min(ends)] < Base
    BY <1>1, <1>4, <2>2
  <2>4. ~ (Min(ends) \in 1..(n - 1))
    <3>1. ASSUME NEW k \in 1..(n - 1) PROVE ~ (b[k] < Base)
      <4>1. k \in 1..n /\ b[k] = w[k] /\ b[k] \in Nat /\ w[k] >= Base
        BY <1>1, <1>2, <1>5
      <4> QED BY <1>1, <4>1
    <3> HIDE DEF ends
    <3> QED BY <2>3, <3>1
  <2> HIDE DEF ends
  <2> QED BY <1>1, <2>3, <2>4
<1> DEFINE t == SubSeq(b, 1, n)
<1>8. Len(t) = n /\ \A k \in 1..n : t[k] = b[k]
  <2>1. 1 \in Int /\ n \in Int /\ n >= 1
    BY <1>1
  <2>2. /\ Len(t) = IF 1 <= n THEN n - 1 + 1 ELSE 0
        /\ \A k \in 1..(n - 1 + 1) : t[k] = b[1 + k - 1]
    <3> HIDE DEF t
    <3> QED BY <1>5, <2>1, SubSeqProperties DEF t
  <2> HIDE DEF t
  <2>3. \A k \in 1..n : 1 + k - 1 = k /\ k \in 1..(n - 1 + 1)
    BY <2>1
  <2> QED BY <2>1, <2>2, <2>3
<1>9. IntValue(t) = v
  <2>1. \A k \in 1..n : t[k] % Base = Shift(v)[n - k] % Base
    BY <1>1, <1>2, <1>8
  <2> HIDE DEF t
  <2> QED BY <1>8, <2>1, DigitsOf DEF n
<1> HIDE DEF ends
<1>10. ReadInt(b) = [st |-> "ok", v |-> IntValue(t), n |-> n]
  BY <1>3, <1>6, <1>7
<1> QED BY <1>9, <1>10 DEF n

(* Of an integer that has not arrived whole it says so. *)
LEMMA ReadsShort ==
    ASSUME NEW v \in 0..(UINT_RANGE - 1), NEW b \in Bytes, Len(b) < IntLen(v),
           \A k \in 1..Len(b) : b[k] = WriteInt(v)[k]
    PROVE  ReadInt(b) = [st |-> "short", v |-> 0, n |-> 0]
<1> DEFINE n == IntLen(v)
           w == WriteInt(v)
           N == MAX_SERIALISED_INT_LEN
           seen == Min({Len(b), N})
           ends == {k \in 1..seen : b[k] < Base}
<1>1. /\ n \in 1..N /\ N \in Nat \ {0} /\ Base \in Nat
      /\ w \in Bytes /\ Len(w) = n
      /\ \A k \in 1..(n - 1) : w[k] >= Base
      /\ w[1] # Base
  BY WriteIntProps, WireAssumption
<1>2. Len(b) \in Nat /\ Len(b) < n /\ \A k \in 1..Len(b) : b[k] = w[k]
  BY LenProperties DEF Bytes
<1>3. ReadInt(b) = IF seen > 0 /\ b[1] = Base THEN [st |-> "error", v |-> 0, n |-> 0]
                   ELSE IF ends # {}
                   THEN [st |-> "ok", v |-> IntValue(SubSeq(b, 1, Min(ends))), n |-> Min(ends)]
                   ELSE [st |-> IF seen = MAX_SERIALISED_INT_LEN THEN "error" ELSE "short",
                         v |-> 0, n |-> 0]
  BY DEF ReadInt
<1>4. seen = Len(b)
  BY <1>1, <1>2, MinOfTwo
<1>5. \A k \in 1..Len(b) : b[k] \in Nat
  BY <1>1, <1>2, ElementOfSeq DEF Bytes
<1>6. seen # MAX_SERIALISED_INT_LEN
  BY <1>1, <1>2, <1>4
<1> HIDE DEF n, w, N, seen
<1>7. ends = {}
  <2>1. ASSUME NEW k \in 1..Len(b) PROVE ~ (b[k] < Base)
    <3>1. k \in 1..(n - 1) /\ b[k] = w[k] /\ b[k] \in Nat /\ w[k] >= Base
      BY <1>1, <1>2, <1>5
    <3> QED BY <1>1, <3>1
  <2> QED BY <1>4, <2>1
<1>8. ~ (seen > 0 /\ b[1] = Base)
  <2>1. seen > 0 => b[1] = w[1]
    BY <1>2, <1>4
  <2> QED BY <1>1, <2>1
<1> HIDE DEF ends
<1> QED BY <1>3, <1>6, <1>7, <1>8

---------------------------------------------------------------------------
(* Frames.                                                                 *)

(* A piece of a sequence. *)
LEMMA Slice ==
    ASSUME NEW S, NEW s \in Seq(S), NEW m \in 0..Len(s), NEW n \in m..Len(s)
    PROVE  /\ SubSeq(s, m + 1, n) \in Seq(S)
           /\ Len(SubSeq(s, m + 1, n)) = n - m
           /\ \A k \in 1..(n - m) : SubSeq(s, m + 1, n)[k] = s[m + k]
<1>1. Len(s) \in Nat /\ m \in Int /\ n \in Int /\ m + 1 \in Int
  BY LenProperties
<1>2. \A k \in (m + 1)..n : s[k] \in S
  BY <1>1, ElementOfSeq
<1> DEFINE t == SubSeq(s, m + 1, n)
<1>3. /\ t \in Seq(S)
      /\ Len(t) = IF m + 1 <= n THEN n - (m + 1) + 1 ELSE 0
      /\ \A k \in 1..(n - (m + 1) + 1) : t[k] = s[m + 1 + k - 1]
  <2> HIDE DEF t
  <2> QED BY <1>1, <1>2, SubSeqProperties DEF t
<1>4. \A k \in 1..(n - m) : k \in 1..(n - (m + 1) + 1) /\ m + 1 + k - 1 = m + k
  BY <1>1
<1> HIDE DEF t
<1>5. \A k \in 1..(n - m) : t[k] = s[m + k]
  BY <1>3, <1>4
<1>6. Len(t) = n - m
  BY <1>1, <1>3
<1> QED BY <1>3, <1>5, <1>6 DEF t

(* What is left of a sequence. *)
LEMMA Rest ==
    ASSUME NEW S, NEW s \in Seq(S), NEW m \in 0..Len(s)
    PROVE  /\ Drop(s, m) \in Seq(S)
           /\ Len(Drop(s, m)) = Len(s) - m
           /\ \A k \in 1..(Len(s) - m) : Drop(s, m)[k] = s[m + k]
<1>1. Len(s) \in m..Len(s)
  BY LenProperties
<1> QED BY <1>1, Slice DEF Drop

(* One sequence lies at the front of another. *)
Starts(b, d) == Len(b) <= Len(d) /\ \A k \in 1..Len(b) : d[k] = b[k]

(* A frame: a length and as many bytes, which are none or an LSA.  m is    *)
(* what is to be handed over.                                              *)
IsFrame(b, m) ==
    \E body \in Bytes :
        /\ Len(body) <= MAX_SERLEN
        /\ b = WriteInt(Len(body)) \o body
        /\ \/ Len(body) = 0 /\ m = NULL
           \/ /\ Len(body) >= NODE_ID_LEN
              /\ m = lsa_deserialise_attr_set(lsa_alloc(SubSeq(body, 1, NODE_ID_LEN)),
                                              Drop(body, NODE_ID_LEN))
              /\ m # ERROR

(* A frame fits the reader's buffer. *)
LEMMA FrameSize ==
    ASSUME NEW b, NEW m, IsFrame(b, m)
    PROVE  b \in Bytes /\ Len(b) \in Nat \ {0} /\ Len(b) <= BUFSIZE
<1>1. PICK body \in Bytes : Len(body) <= MAX_SERLEN /\ b = WriteInt(Len(body)) \o body
  BY DEF IsFrame
<1>2. Len(body) \in 0..(UINT_RANGE - 1)
  BY <1>1, LenProperties, StreamAssumption, WireAssumption DEF Bytes
<1> DEFINE w == WriteInt(Len(body))
<1>3. w \in Bytes /\ Len(w) \in 1..MAX_SERIALISED_INT_LEN
  BY <1>2, WriteIntProps
<1>4. b \in Bytes /\ Len(b) = Len(w) + Len(body)
  <2> HIDE DEF w
  <2> QED BY <1>1, <1>3, ConcatProperties DEF w, Bytes
<1> HIDE DEF w
<1> QED BY <1>1, <1>2, <1>3, <1>4, StreamAssumption, WireAssumption

(* The parts of a frame, in terms of what lies where it does. *)
LEMMA FrameParts ==
    ASSUME NEW body \in Bytes, Len(body) <= MAX_SERLEN, NEW b, b = WriteInt(Len(body)) \o body
    PROVE  LET n == IntLen(Len(body))
           IN  /\ Len(body) \in 0..(UINT_RANGE - 1)
               /\ n \in 1..MAX_SERIALISED_INT_LEN
               /\ Len(b) = n + Len(body)
               /\ \A k \in 1..n : b[k] = WriteInt(Len(body))[k]
               /\ \A k \in 1..Len(body) : b[n + k] = body[k]
<1> DEFINE n == IntLen(Len(body))
           w == WriteInt(Len(body))
<1>1. Len(body) \in 0..(UINT_RANGE - 1)
  BY LenProperties, StreamAssumption, WireAssumption DEF Bytes
<1>2. w \in Bytes /\ Len(w) = n /\ n \in 1..MAX_SERIALISED_INT_LEN
  BY <1>1, WriteIntProps
<1>3. b = w \o body
  OBVIOUS
<1> HIDE DEF w, n
<1>4. /\ Len(b) = Len(w) + Len(body)
      /\ \A k \in 1..(Len(w) + Len(body)) : b[k] = IF k <= Len(w) THEN w[k] ELSE body[k - Len(w)]
  <2>1. w \in Seq(Nat) /\ body \in Seq(Nat)
    BY <1>2 DEF Bytes
  <2>2. /\ Len(w \o body) = Len(w) + Len(body)
        /\ \A k \in 1..(Len(w) + Len(body)) :
               (w \o body)[k] = IF k <= Len(w) THEN w[k] ELSE body[k - Len(w)]
    BY <2>1, ConcatProperties
  <2> QED BY <1>3, <2>2
<1>5. Len(body) \in Nat /\ n \in Nat
  BY <1>1, <1>2, WireAssumption
<1>6. \A k \in 1..n : b[k] = w[k]
  BY <1>2, <1>4, <1>5
<1>7. ASSUME NEW k \in 1..Len(body) PROVE b[n + k] = body[k]
  <2>1. n + k \in 1..(Len(w) + Len(body)) /\ ~ (n + k <= Len(w)) /\ (n + k) - Len(w) = k
    BY <1>2, <1>5
  <2> QED BY <1>4, <2>1
<1> QED BY <1>1, <1>2, <1>4, <1>6, <1>7 DEF n, w

(* lsa_deserialise() takes the frame at the front of the bytes it is given.*)
LEMMA FrameIsRead ==
    ASSUME NEW b, NEW m, IsFrame(b, m), NEW d \in Bytes, Starts(b, d)
    PROVE  lsa_deserialise(d) = [ret |-> Len(b), lsa |-> m]
<1>1. PICK body \in Bytes :
        /\ Len(body) <= MAX_SERLEN
        /\ b = WriteInt(Len(body)) \o body
        /\ \/ Len(body) = 0 /\ m = NULL
           \/ /\ Len(body) >= NODE_ID_LEN
              /\ m = lsa_deserialise_attr_set(lsa_alloc(SubSeq(body, 1, NODE_ID_LEN)),
                                              Drop(body, NODE_ID_LEN))
              /\ m # ERROR
  BY DEF IsFrame
<1> DEFINE v == Len(body)
           n == IntLen(v)
           r == [st |-> "ok", v |-> v, n |-> n]
           B == SubSeq(d, n + 1, v + n)
<1>2. /\ v \in 0..(UINT_RANGE - 1) /\ n \in 1..MAX_SERIALISED_INT_LEN
      /\ Len(b) = n + v
      /\ \A k \in 1..n : b[k] = WriteInt(v)[k]
      /\ \A k \in 1..v : b[n + k] = body[k]
  BY <1>1, FrameParts
<1>3. /\ Len(d) \in Nat /\ v \in Nat /\ n \in Nat /\ n >= 1 /\ Len(b) <= Len(d)
      /\ v + n <= SSIZE_MAX /\ SSIZE_MAX \in Nat /\ n <= Len(d) /\ v + n <= Len(d)
      /\ n \in 0..Len(d) /\ v + n \in n..Len(d)
  <2>1. Len(d) \in Nat
    BY LenProperties DEF Bytes
  <2>2. v \in Nat /\ n \in Nat /\ n >= 1 /\ v <= MAX_SERLEN /\ n <= MAX_SERIALISED_INT_LEN
    BY <1>1, <1>2, WireAssumption
  <2>3. Len(b) <= Len(d) /\ Len(b) = n + v
    BY <1>2 DEF Starts
  <2> HIDE DEF v, n
  <2> QED BY <2>1, <2>2, <2>3, StreamAssumption, WireAssumption
<1>4. ReadInt(d) = r
  <2>1. \A k \in 1..n : d[k] = WriteInt(v)[k]
    <3>1. \A k \in 1..n : k \in 1..Len(b)
      BY <1>2, <1>3
    <3> HIDE DEF v, n
    <3> QED BY <1>2, <3>1 DEF Starts
  <2> QED BY <1>2, <1>3, <2>1, ReadsWhatWasWritten
<1>5. B = body
  <2>1. B \in Bytes /\ Len(B) = v /\ \A k \in 1..v : B[k] = d[n + k]
    <3>1. /\ SubSeq(d, n + 1, v + n) \in Seq(Nat)
          /\ Len(SubSeq(d, n + 1, v + n)) = (v + n) - n
          /\ \A k \in 1..((v + n) - n) : SubSeq(d, n + 1, v + n)[k] = d[n + k]
      <4> HIDE DEF v, n
      <4> QED BY <1>3, Slice DEF Bytes
    <3>2. (v + n) - n = v
      BY <1>3
    <3> HIDE DEF v, n
    <3> QED BY <3>1, <3>2 DEF Bytes
  <2>2. \A k \in 1..v : d[n + k] = body[k]
    <3>1. \A k \in 1..v : n + k \in 1..Len(b)
      BY <1>2, <1>3
    <3> HIDE DEF v, n
    <3> QED BY <1>2, <3>1 DEF Starts
  <2> HIDE DEF B, n
  <2> QED BY <2>1, <2>2, SeqEqual DEF Bytes
<1>6. r.st = "ok" /\ r.v = v /\ r.n = n
  OBVIOUS
<1>7. lsa_deserialise(d) =
        IF v = 0 THEN Answer(n, NULL)
        ELSE IF v > SSIZE_MAX - n THEN Answer(-1, NULL)
        ELSE IF v + n > Len(d) \/ v < NODE_ID_LEN THEN Answer(0, NULL)
        ELSE Answer(v + n, lsa_deserialise_attr_set(lsa_alloc(SubSeq(B, 1, NODE_ID_LEN)),
                                                    Drop(B, NODE_ID_LEN)))
  <2> HIDE DEF v, n, r
  <2> QED BY <1>4, <1>6, Zenon DEF lsa_deserialise, Framed, B
<1>8. CASE v = 0
  <2>1. m = NULL /\ Len(b) = n
    BY <1>1, <1>2, <1>3, <1>8, WireAssumption
  <2>2. lsa_deserialise(d) = Answer(n, NULL)
    BY <1>7, <1>8
  <2> QED BY <2>1, <2>2, WireAssumption DEF Answer
<1>9. CASE v # 0
  <2>1. /\ v >= NODE_ID_LEN /\ m # ERROR
        /\ m = lsa_deserialise_attr_set(lsa_alloc(SubSeq(body, 1, NODE_ID_LEN)), Drop(body, NODE_ID_LEN))
    BY <1>1, <1>9
  <2>2. ~ (v > SSIZE_MAX - n) /\ ~ (v + n > Len(d)) /\ ~ (v < NODE_ID_LEN) /\ v + n = Len(b)
    <3> HIDE DEF v, n
    <3> QED BY <1>2, <1>3, <2>1, WireAssumption
  <2> HIDE DEF v, n, B
  <2>3. lsa_deserialise(d) = Answer(v + n, m)
    BY <1>5, <1>7, <1>9, <2>1, <2>2
  <2> QED BY <2>1, <2>2, <2>3 DEF Answer
<1> QED BY <1>8, <1>9

(* Of a frame that has not arrived whole it takes nothing. *)
LEMMA FrameIsAwaited ==
    ASSUME NEW b, NEW m, IsFrame(b, m), NEW d \in Bytes, Starts(d, b), Len(d) < Len(b)
    PROVE  lsa_deserialise(d) = [ret |-> 0, lsa |-> NULL]
<1>1. PICK body \in Bytes : Len(body) <= MAX_SERLEN /\ b = WriteInt(Len(body)) \o body
  BY DEF IsFrame
<1> DEFINE v == Len(body)
           n == IntLen(v)
<1>2. /\ v \in 0..(UINT_RANGE - 1) /\ n \in 1..MAX_SERIALISED_INT_LEN
      /\ Len(b) = n + v
      /\ \A k \in 1..n : b[k] = WriteInt(v)[k]
  BY <1>1, FrameParts
<1>3. /\ Len(d) \in Nat /\ v \in Nat /\ n \in Nat /\ Len(d) < n + v
      /\ v + n <= SSIZE_MAX /\ SSIZE_MAX \in Nat
  <2>1. Len(d) \in Nat
    BY LenProperties DEF Bytes
  <2>2. v \in Nat /\ n \in Nat /\ n >= 1 /\ v <= MAX_SERLEN /\ n <= MAX_SERIALISED_INT_LEN
    BY <1>1, <1>2, WireAssumption
  <2>3. Len(d) < n + v
    BY <1>2
  <2> HIDE DEF v, n
  <2> QED BY <2>1, <2>2, <2>3, StreamAssumption, WireAssumption
<1>4. \A k \in 1..Len(d) : d[k] = b[k]
  BY DEF Starts
<1>5. CASE Len(d) < n
  <2>1. \A k \in 1..Len(d) : d[k] = WriteInt(v)[k]
    <3> HIDE DEF v, n
    <3> QED BY <1>2, <1>3, <1>4, <1>5
  <2>2. ReadInt(d) = [st |-> "short", v |-> 0, n |-> 0]
    BY <1>2, <1>5, <2>1, ReadsShort
  <2>3. lsa_deserialise(d) = Answer(0, NULL)
    <3> DEFINE r == [st |-> "short", v |-> 0, n |-> 0]
    <3>1. r.st = "short"
      OBVIOUS
    <3> HIDE DEF r
    <3> QED BY <2>2, <3>1 DEF lsa_deserialise, Framed, r
  <2> QED BY <2>3, WireAssumption DEF Answer
<1>6. CASE n <= Len(d)
  <2> DEFINE r == [st |-> "ok", v |-> v, n |-> n]
  <2>1. \A k \in 1..n : d[k] = WriteInt(v)[k]
    <3>1. \A k \in 1..n : k \in 1..Len(d)
      BY <1>3, <1>6
    <3> HIDE DEF v, n
    <3> QED BY <1>2, <1>4, <3>1
  <2>2. ReadInt(d) = r
    BY <1>2, <1>6, <2>1, ReadsWhatWasWritten
  <2>3. r.st = "ok" /\ r.v = v /\ r.n = n
    OBVIOUS
  <2>4. v # 0 /\ ~ (v > SSIZE_MAX - n) /\ v + n > Len(d)
    <3> HIDE DEF v, n
    <3> QED BY <1>3, <1>6
  <2>5. lsa_deserialise(d) = Answer(0, NULL)
    <3> HIDE DEF v, n, r
    <3> QED BY <2>2, <2>3, <2>4, Zenon DEF lsa_deserialise, Framed
  <2> QED BY <2>5, WireAssumption DEF Answer
<1> QED BY <1>3, <1>5, <1>6

(* A keepalive is a frame. *)
LEMMA KeepaliveFrame == IsFrame(<<0>>, NULL)
<1>1. 0 \in 0..(UINT_RANGE - 1) /\ 0 <= MAX_SERLEN
  BY StreamAssumption, WireAssumption
<1>2. Shift(0)[0] = 0 /\ \A k \in 1..MAX_SERIALISED_INT_LEN : Shift(0)[k] = Shift(0)[k - 1] \div Base
  BY ShiftAt
<1>3. IntLen(0) = 1
  <2>1. IntLen(0) \in 1..MAX_SERIALISED_INT_LEN /\ \A n \in 1..(IntLen(0) - 1) : Shift(0)[n] # 0
    BY IntLenType
  <2>2. 1 \in 1..MAX_SERIALISED_INT_LEN
    BY WireAssumption
  <2>3. Shift(0)[1] = 0
    <3>1. Shift(0)[1] = Shift(0)[1 - 1] \div Base
      BY <1>2, <2>2
    <3>2. 0 \div Base = 0
      BY WireAssumption
    <3> QED BY <1>2, <3>1, <3>2
  <2> QED BY <2>1, <2>3, WireAssumption
<1>4. WriteInt(0) = <<0>>
  <2>1. WriteInt(0) = [k \in 1..1 |-> (Shift(0)[1 - k] % Base) + (IF k < 1 THEN Base ELSE 0)]
    BY <1>3 DEF WriteInt
  <2>2. 0 % Base = 0
    BY WireAssumption
  <2>3. \A k \in 1..1 : (Shift(0)[1 - k] % Base) + (IF k < 1 THEN Base ELSE 0) = 0
    BY <1>2, <2>2
  <2>4. WriteInt(0) = [k \in 1..1 |-> 0]
    BY <2>1, <2>3
  <2> QED BY <2>4
<1>5. <<>> \in Bytes /\ Len(<<>>) = 0
  BY DEF Bytes
<1>6. <<0>> = WriteInt(Len(<<>>)) \o <<>>
  BY <1>4, <1>5
<1> QED BY <1>1, <1>5, <1>6 DEF IsFrame

---------------------------------------------------------------------------
(* A stream of frames.                                                     *)

(* The piece of the bytes P between two cuts is a keepalive or the next    *)
(* message of S; x counts messages.                                        *)
Piece(P, S, c, x, j) ==
    /\ c[j] <= c[j + 1]
    /\ \/ x[j + 1] = x[j] /\ IsFrame(SubSeq(P, c[j] + 1, c[j + 1]), NULL)
       \/ x[j + 1] = x[j] + 1 /\ IsFrame(SubSeq(P, c[j] + 1, c[j + 1]), S[x[j] + 1])

(* P begins with n frames, which hold the messages of S after the first r. *)
InFrames(P, S, r, n, c, x) ==
    /\ n \in Nat /\ c \in [0..n -> Nat] /\ x \in [0..n -> Nat]
    /\ c[0] = 0 /\ x[0] = r /\ x[n] = Len(S)
    /\ \A j \in 0..n : c[j] <= Len(P) /\ x[j] <= Len(S)
    /\ \A j \in 0..(n - 1) : Piece(P, S, c, x, j)

(* More bytes and more messages behind change no piece. *)
LEMMA PieceStays ==
    ASSUME NEW T, NEW P \in Bytes, NEW Q \in Bytes, Starts(P, Q), NEW S \in Seq(T), NEW R \in Seq(T), Starts(S, R),
           NEW c, NEW x, NEW d, NEW y, NEW j \in Nat,
           c[j] \in Nat, c[j + 1] \in Nat, x[j] \in Nat, x[j + 1] \in Nat,
           d[j] = c[j], d[j + 1] = c[j + 1], y[j] = x[j], y[j + 1] = x[j + 1],
           c[j + 1] <= Len(P), x[j + 1] <= Len(S), Piece(P, S, c, x, j)
    PROVE  Piece(Q, R, d, y, j)
<1> DEFINE a == c[j]
           b == c[j + 1]
           f == SubSeq(P, a + 1, b)
           g == SubSeq(Q, a + 1, b)
<1>1. /\ Len(P) \in Nat /\ Len(Q) \in Nat /\ Len(P) <= Len(Q)
      /\ a \in Nat /\ b \in Nat /\ a <= b /\ b <= Len(P)
  BY LenProperties DEF Piece, Starts, Bytes
<1>2. f = g
  <2> HIDE DEF a, b
  <2>1. a \in 0..Len(P) /\ b \in a..Len(P) /\ a \in 0..Len(Q) /\ b \in a..Len(Q)
    BY <1>1
  <2>2. f \in Bytes /\ Len(f) = b - a /\ \A k \in 1..(b - a) : f[k] = P[a + k]
    BY <2>1, Slice, SMTT(30) DEF Bytes
  <2>3. g \in Bytes /\ Len(g) = b - a /\ \A k \in 1..(b - a) : g[k] = Q[a + k]
    BY <2>1, Slice, SMTT(30) DEF Bytes
  <2>4. \A k \in 1..(b - a) : P[a + k] = Q[a + k]
    BY <1>1 DEF Starts
  <2> HIDE DEF f, g
  <2>5. Len(f) = Len(g) /\ \A k \in 1..Len(f) : f[k] = g[k]
    <3>1. Len(f) = b - a /\ Len(g) = b - a
      BY <2>2, <2>3
    <3>2. ASSUME NEW k \in 1..(b - a) PROVE f[k] = g[k]
      BY <2>2, <2>3, <2>4
    <3> QED BY <3>1, <3>2
  <2> HIDE DEF Bytes
  <2>6. f \in Seq(Nat) /\ g \in Seq(Nat)
    BY <2>2, <2>3 DEF Bytes
  <2> QED BY <2>5, <2>6, SeqEqual
<1>3. x[j + 1] = x[j] + 1 => S[x[j] + 1] = R[x[j] + 1]
  <2> SUFFICES ASSUME x[j + 1] = x[j] + 1 PROVE S[x[j] + 1] = R[x[j] + 1]
    OBVIOUS
  <2>1. x[j] + 1 \in 1..Len(S)
    BY LenProperties
  <2> QED BY <2>1 DEF Starts
<1> HIDE DEF f, g
<1>4. Piece(P, S, c, x, j) = (/\ a <= b
                              /\ \/ x[j + 1] = x[j] /\ IsFrame(f, NULL)
                                 \/ x[j + 1] = x[j] + 1 /\ IsFrame(f, S[x[j] + 1]))
  BY DEF Piece, f
<1>5. Piece(Q, R, d, y, j) = (/\ a <= b
                              /\ \/ x[j + 1] = x[j] /\ IsFrame(g, NULL)
                                 \/ x[j + 1] = x[j] + 1 /\ IsFrame(g, R[x[j] + 1]))
  BY DEF Piece, g
<1> QED BY <1>2, <1>3, <1>4, <1>5

(* One sequence in front of another. *)
LEMMA Joined ==
    ASSUME NEW S, NEW s \in Seq(S), NEW t \in Seq(S)
    PROVE  /\ s \o t \in Seq(S) /\ Len(s \o t) = Len(s) + Len(t)
           /\ \A k \in 1..Len(s) : (s \o t)[k] = s[k]
           /\ \A k \in 1..Len(t) : (s \o t)[Len(s) + k] = t[k]
           /\ Starts(s, s \o t)
<1> DEFINE u == s \o t
<1>1. /\ u \in Seq(S) /\ Len(u) = Len(s) + Len(t)
      /\ \A k \in 1..(Len(s) + Len(t)) : u[k] = IF k <= Len(s) THEN s[k] ELSE t[k - Len(s)]
  <2> HIDE DEF u
  <2> QED BY ConcatProperties DEF u
<1>2. Len(s) \in Nat /\ Len(t) \in Nat
  BY LenProperties
<1> HIDE DEF u
<1>3. \A k \in 1..Len(s) : u[k] = s[k]
  BY <1>1, <1>2
<1>4. ASSUME NEW k \in 1..Len(t) PROVE u[Len(s) + k] = t[k]
  <2>1. Len(s) + k \in 1..(Len(s) + Len(t)) /\ ~ (Len(s) + k <= Len(s)) /\ (Len(s) + k) - Len(s) = k
    BY <1>2
  <2> QED BY <1>1, <2>1
<1>5. Starts(s, u)
  BY <1>1, <1>2, <1>3 DEF Starts
<1> QED BY <1>1, <1>3, <1>4, <1>5 DEF u

(* Bytes that are not a whole frame behind the frames. *)
LEMMA FramesStay ==
    ASSUME NEW T, NEW P \in Bytes, NEW t \in Bytes, NEW S \in Seq(T), NEW r, NEW n, NEW c, NEW x,
           InFrames(P, S, r, n, c, x)
    PROVE  InFrames(P \o t, S, r, n, c, x)
<1> DEFINE Q == P \o t
<1>1. Q \in Bytes /\ Starts(P, Q) /\ Len(P) <= Len(Q) /\ Len(P) \in Nat /\ Len(Q) \in Nat
  <2>1. Q \in Bytes /\ Starts(P, Q)
    BY Joined DEF Bytes
  <2> HIDE DEF Q
  <2> QED BY <2>1, LenProperties DEF Bytes, Starts
<1>2. Len(S) \in Nat /\ Starts(S, S)
  BY LenProperties DEF Starts
<1>3. /\ n \in Nat /\ c \in [0..n -> Nat] /\ x \in [0..n -> Nat]
      /\ c[0] = 0 /\ x[0] = r /\ x[n] = Len(S)
      /\ \A j \in 0..n : c[j] <= Len(P) /\ x[j] <= Len(S)
      /\ \A j \in 0..(n - 1) : Piece(P, S, c, x, j)
  BY DEF InFrames
<1> HIDE DEF Q
<1>4. ASSUME NEW j \in 0..(n - 1) PROVE Piece(Q, S, c, x, j)
  <2>1. j \in Nat /\ j \in 0..n /\ j + 1 \in 0..n
    BY <1>3
  <2>2. /\ c[j] \in Nat /\ c[j + 1] \in Nat /\ x[j] \in Nat /\ x[j + 1] \in Nat
        /\ c[j + 1] <= Len(P) /\ x[j + 1] <= Len(S) /\ Piece(P, S, c, x, j)
    BY <1>3, <2>1
  <2> QED BY <1>1, <1>2, <2>1, <2>2, PieceStays
<1>5. \A j \in 0..n : c[j] <= Len(Q) /\ x[j] <= Len(S)
  BY <1>1, <1>3
<1>6. InFrames(Q, S, r, n, c, x)
  BY <1>3, <1>4, <1>5 DEF InFrames
<1> QED BY <1>6 DEF Q

(* A whole frame behind the frames. *)
LEMMA FrameAdded ==
    ASSUME NEW T, NEW P \in Bytes, NEW b, NEW m, IsFrame(b, m), NEW S \in Seq(T), NEW R \in Seq(T),
           NEW r, NEW n, NEW c, NEW x, InFrames(P, S, r, n, c, x), c[n] = Len(P),
           \/ R = S /\ m = NULL
           \/ Len(R) = Len(S) + 1 /\ Starts(S, R) /\ R[Len(S) + 1] = m
    PROVE  \E d, y : /\ InFrames(P \o b, R, r, n + 1, d, y) /\ d[n + 1] = Len(P \o b)
                     /\ d[1] = IF n = 0 THEN Len(P \o b) ELSE c[1]
<1> DEFINE Q == P \o b
           d == [j \in 0..(n + 1) |-> IF j = n + 1 THEN Len(P) + Len(b) ELSE c[j]]
           y == [j \in 0..(n + 1) |-> IF j = n + 1 THEN Len(R) ELSE x[j]]
<1>1. b \in Bytes /\ Len(b) \in Nat \ {0}
  BY FrameSize
<1>2. /\ Q \in Bytes /\ Starts(P, Q) /\ Len(Q) = Len(P) + Len(b) /\ Len(P) \in Nat
      /\ \A k \in 1..Len(b) : Q[Len(P) + k] = b[k]
  BY <1>1, Joined, LenProperties DEF Bytes
<1>3. Len(S) \in Nat /\ Len(R) \in Nat /\ Starts(S, R) /\ Len(S) <= Len(R)
  BY LenProperties DEF Starts
<1>4. /\ n \in Nat /\ c \in [0..n -> Nat] /\ x \in [0..n -> Nat]
      /\ c[0] = 0 /\ x[0] = r /\ x[n] = Len(S) /\ c[n] = Len(P)
      /\ \A j \in 0..n : c[j] <= Len(P) /\ x[j] <= Len(S)
      /\ \A j \in 0..(n - 1) : Piece(P, S, c, x, j)
  BY DEF InFrames
<1>5. /\ d \in [0..(n + 1) -> Nat] /\ y \in [0..(n + 1) -> Nat]
      /\ \A j \in 0..n : d[j] = c[j] /\ y[j] = x[j]
      /\ d[n + 1] = Len(P) + Len(b) /\ y[n + 1] = Len(R)
  BY <1>1, <1>2, <1>3, <1>4
<1> HIDE DEF Q, d, y
<1>6. ASSUME NEW j \in 0..(n - 1) PROVE Piece(Q, R, d, y, j)
  <2>1. j \in Nat /\ j \in 0..n /\ j + 1 \in 0..n
    BY <1>4
  <2>2. /\ c[j] \in Nat /\ c[j + 1] \in Nat /\ x[j] \in Nat /\ x[j + 1] \in Nat
        /\ c[j + 1] <= Len(P) /\ x[j + 1] <= Len(S) /\ Piece(P, S, c, x, j)
        /\ d[j] = c[j] /\ d[j + 1] = c[j + 1] /\ y[j] = x[j] /\ y[j + 1] = x[j + 1]
    BY <1>4, <1>5, <2>1
  <2> QED BY <1>2, <1>3, <2>1, <2>2, PieceStays
<1>7. Piece(Q, R, d, y, n)
  <2>1. d[n] = Len(P) /\ d[n + 1] = Len(P) + Len(b) /\ y[n] = Len(S) /\ y[n + 1] = Len(R)
    BY <1>4, <1>5
  <2> DEFINE f == SubSeq(Q, Len(P) + 1, Len(P) + Len(b))
  <2>2. f = b
    <3>1. Len(P) \in 0..Len(Q) /\ Len(P) + Len(b) \in Len(P)..Len(Q) /\ (Len(P) + Len(b)) - Len(P) = Len(b)
      BY <1>1, <1>2
    <3>2. f \in Bytes /\ Len(f) = Len(b) /\ \A k \in 1..Len(b) : f[k] = Q[Len(P) + k]
      <4> DEFINE p == Len(P)
                 e == Len(P) + Len(b)
      <4>1. Q \in Seq(Nat) /\ p \in 0..Len(Q) /\ e \in p..Len(Q) /\ e - p = Len(b)
        BY <1>2, <3>1 DEF Bytes
      <4>2. f = SubSeq(Q, p + 1, e)
        OBVIOUS
      <4> HIDE DEF p, e, f
      <4>3. f \in Seq(Nat) /\ Len(f) = e - p /\ \A k \in 1..(e - p) : f[k] = Q[p + k]
        BY <4>1, <4>2, Slice, SMTT(30)
      <4> QED BY <4>1, <4>3 DEF p, Bytes
    <3> HIDE DEF f
    <3>3. f \in Seq(Nat) /\ b \in Seq(Nat) /\ Len(f) = Len(b) /\ \A k \in 1..Len(f) : f[k] = b[k]
      BY <1>1, <1>2, <3>2 DEF Bytes
    <3> QED BY <3>3, SeqEqual
  <2>3. Len(P) <= Len(P) + Len(b)
    BY <1>1, <1>2
  <2>4. SubSeq(Q, d[n] + 1, d[n + 1]) = b
    BY <2>1, <2>2
  <2> HIDE DEF f
  <2> QED BY <2>1, <2>3, <2>4 DEF Piece
<1>8. \A j \in 0..((n + 1) - 1) : Piece(Q, R, d, y, j)
  <2>1. \A j \in 0..((n + 1) - 1) : j \in 0..(n - 1) \/ j = n
    BY <1>4
  <2> QED BY <1>6, <1>7, <2>1
<1>9. \A j \in 0..(n + 1) : d[j] <= Len(Q) /\ y[j] <= Len(R)
  <2>1. \A j \in 0..(n + 1) : j \in 0..n \/ j = n + 1
    BY <1>4
  <2>2. \A j \in 0..n : d[j] <= Len(Q) /\ y[j] <= Len(R)
    BY <1>1, <1>2, <1>3, <1>4, <1>5, SMTT(30)
  <2>3. d[n + 1] <= Len(Q) /\ y[n + 1] <= Len(R)
    BY <1>1, <1>2, <1>3, <1>5
  <2> QED BY <2>1, <2>2, <2>3
<1>10. d[0] = 0 /\ y[0] = r /\ n + 1 \in Nat
  BY <1>4, <1>5
<1>11. InFrames(Q, R, r, n + 1, d, y) /\ d[n + 1] = Len(Q)
  BY <1>2, <1>5, <1>8, <1>9, <1>10 DEF InFrames
<1>12. d[1] = IF n = 0 THEN Len(Q) ELSE c[1]
  <2>1. n = 0 \/ 1 \in 0..n
    BY <1>4
  <2>2. n = 0 => n + 1 = 1
    OBVIOUS
  <2> QED BY <1>2, <1>5, <2>1, <2>2
<1> QED BY <1>11, <1>12 DEF Q

(* The first frame, and the stream behind it. *)
LEMMA FrameTaken ==
    ASSUME NEW T, NEW P \in Bytes, NEW S \in Seq(T),
           NEW r, NEW n, NEW c, NEW x, InFrames(P, S, r, n, c, x), n # 0
    PROVE  /\ c[1] \in 0..Len(P) /\ c[n] \in c[1]..Len(P) /\ r \in Nat /\ x[1] \in Nat /\ x[1] <= Len(S)
           /\ \E d, y : InFrames(Drop(P, c[1]), S, x[1], n - 1, d, y) /\ d[n - 1] = c[n] - c[1]
           /\ \/ x[1] = r /\ IsFrame(SubSeq(P, 1, c[1]), NULL)
              \/ x[1] = r + 1 /\ IsFrame(SubSeq(P, 1, c[1]), S[r + 1])
<1> DEFINE e == c[1]
           Q == Drop(P, e)
           d == [j \in 0..(n - 1) |-> c[j + 1] - e]
           y == [j \in 0..(n - 1) |-> x[j + 1]]
<1>1. /\ n \in Nat /\ c \in [0..n -> Nat] /\ x \in [0..n -> Nat]
      /\ c[0] = 0 /\ x[0] = r /\ x[n] = Len(S)
      /\ \A j \in 0..n : c[j] <= Len(P) /\ x[j] <= Len(S)
      /\ \A j \in 0..(n - 1) : Piece(P, S, c, x, j)
  BY DEF InFrames
<1>2. 1 \in 0..n /\ 0 \in 0..n /\ n \in 0..n /\ n - 1 \in Nat /\ n - 1 \in 0..(n - 1) /\ 0 \in 0..(n - 1) /\ (n - 1) + 1 = n
  BY <1>1
<1>3. Len(P) \in Nat /\ Len(S) \in Nat /\ P \in Seq(Nat)
  BY LenProperties DEF Bytes
<1>4. e \in 0..Len(P) /\ x[1] \in Nat /\ r \in Nat
  BY <1>1, <1>2, <1>3
<1>5. \A j \in 1..n : e <= c[j]
  <2> DEFINE B == {j \in Nat : j + 1 <= n => e <= c[j + 1]}
  <2>1. 0 \in B
    BY <1>3, <1>4
  <2>2. ASSUME NEW j \in Nat, j \in B PROVE j + 1 \in B
    <3> SUFFICES ASSUME (j + 1) + 1 <= n PROVE e <= c[(j + 1) + 1]
      OBVIOUS
    <3>1. j + 1 \in 0..(n - 1) /\ j + 1 \in 0..n /\ (j + 1) + 1 \in 0..n /\ j + 1 <= n
      BY <1>1
    <3>2. c[j + 1] <= c[(j + 1) + 1]
      BY <1>1, <3>1 DEF Piece
    <3>3. c[j + 1] \in Nat /\ c[(j + 1) + 1] \in Nat /\ e \in Nat /\ e <= c[j + 1]
      BY <1>1, <1>3, <1>4, <2>2, <3>1
    <3> HIDE DEF e
    <3> QED BY <3>2, <3>3
  <2>3. Nat \subseteq B
    <3> HIDE DEF B
    <3> QED BY <2>1, <2>2, Induction
  <2>4. \A j \in 1..n : j - 1 \in Nat /\ (j - 1) + 1 = j /\ j <= n
    BY <1>1
  <2> HIDE DEF e
  <2> QED BY <2>3, <2>4
<1>6. Q \in Seq(Nat) /\ Len(Q) = Len(P) - e /\ \A k \in 1..(Len(P) - e) : Q[k] = P[e + k]
  <2> HIDE DEF e
  <2> QED BY <1>3, <1>4, Rest
<1> HIDE DEF e, Q
<1>7. \A j \in 0..(n - 1) : /\ j + 1 \in 0..n /\ c[j + 1] \in e..Len(P)
                            /\ d[j] = c[j + 1] - e /\ y[j] = x[j + 1]
                            /\ d[j] \in Nat /\ y[j] \in Nat /\ d[j] <= Len(Q) /\ y[j] <= Len(S)
  <2>1. ASSUME NEW j \in 0..(n - 1)
        PROVE  /\ j + 1 \in 0..n /\ c[j + 1] \in e..Len(P)
               /\ d[j] = c[j + 1] - e /\ y[j] = x[j + 1]
               /\ d[j] \in Nat /\ y[j] \in Nat /\ d[j] <= Len(Q) /\ y[j] <= Len(S)
    <3>1. j + 1 \in 0..n /\ j + 1 \in 1..n
      BY <1>1
    <3>2. c[j + 1] \in Nat /\ e <= c[j + 1] /\ c[j + 1] <= Len(P) /\ x[j + 1] \in Nat /\ x[j + 1] <= Len(S)
      BY <1>1, <1>5, <3>1
    <3>3. d[j] = c[j + 1] - e /\ y[j] = x[j + 1]
      OBVIOUS
    <3> HIDE DEF d, y
    <3> QED BY <1>3, <1>4, <1>6, <3>1, <3>2, <3>3
  <2> QED BY <2>1
<1>8. d \in [0..(n - 1) -> Nat] /\ y \in [0..(n - 1) -> Nat]
  BY <1>7
<1> HIDE DEF d, y
<1>9. ASSUME NEW j \in 0..((n - 1) - 1) PROVE Piece(Q, S, d, y, j)
  <2>1. j \in 0..(n - 1) /\ j + 1 \in 0..(n - 1) /\ j \in Nat
    BY <1>1
  <2>2. Piece(P, S, c, x, j + 1)
    BY <1>1, <2>1
  <2> DEFINE a == c[j + 1]
             b == c[(j + 1) + 1]
             f == SubSeq(P, a + 1, b)
             g == SubSeq(Q, (a - e) + 1, b - e)
  <2>3. a \in e..Len(P) /\ b \in e..Len(P) /\ a <= b /\ d[j] = a - e /\ d[j + 1] = b - e
    BY <1>7, <2>1, <2>2 DEF Piece
  <2>4. f = g
    <3> HIDE DEF a, b
    <3>1. a \in 0..Len(P) /\ b \in a..Len(P) /\ a - e \in 0..Len(Q) /\ b - e \in (a - e)..Len(Q)
      BY <1>3, <1>4, <1>6, <2>3
    <3>2. f \in Seq(Nat) /\ Len(f) = b - a /\ \A k \in 1..(b - a) : f[k] = P[a + k]
      BY <1>3, <3>1, Slice
    <3>3. g \in Seq(Nat) /\ Len(g) = (b - e) - (a - e) /\ \A k \in 1..((b - e) - (a - e)) : g[k] = Q[(a - e) + k]
      <4> DEFINE aa == a - e
                 bb == b - e
      <4>1. Q \in Seq(Nat) /\ aa \in 0..Len(Q) /\ bb \in aa..Len(Q)
        BY <1>6, <3>1
      <4>2. g = SubSeq(Q, aa + 1, bb)
        OBVIOUS
      <4> HIDE DEF aa, bb, g
      <4>3. g \in Seq(Nat) /\ Len(g) = bb - aa /\ \A k \in 1..(bb - aa) : g[k] = Q[aa + k]
        BY <4>1, <4>2, Slice
      <4> QED BY <4>3 DEF aa, bb
    <3> HIDE DEF f, g
    <3>4. (b - e) - (a - e) = b - a /\ b - a \in Nat
      BY <1>3, <1>4, <2>3
    <3>5. ASSUME NEW k \in 1..(b - a) PROVE f[k] = g[k]
      <4>1. (a - e) + k \in 1..(Len(P) - e) /\ e + ((a - e) + k) = a + k
        BY <1>3, <1>4, <2>3
      <4>2. Q[(a - e) + k] = P[e + ((a - e) + k)]
        BY <1>6, <4>1
      <4>3. g[k] = Q[(a - e) + k]
        BY <3>3, <3>4
      <4> QED BY <3>2, <4>1, <4>2, <4>3
    <3>6. Len(f) = Len(g) /\ Len(f) = b - a
      BY <3>2, <3>3, <3>4
    <3> QED BY <3>2, <3>3, <3>5, <3>6, SeqEqual
  <2>5. SubSeq(Q, d[j] + 1, d[j + 1]) = f
    <3> HIDE DEF a, b, f
    <3> QED BY <2>3, <2>4
  <2>6. d[j] <= d[j + 1]
    <3> HIDE DEF a, b, f
    <3> QED BY <1>4, <2>3
  <2>7. y[j] = x[j + 1] /\ y[j + 1] = x[(j + 1) + 1]
    BY <1>7, <2>1
  <2> QED BY <2>2, <2>5, <2>6, <2>7 DEF Piece
<1>10. d[0] = 0 /\ y[0] = x[1] /\ d[n - 1] = c[n] - e /\ y[n - 1] = Len(S)
  <2>1. d[0] = c[0 + 1] - e /\ y[0] = x[0 + 1] /\ d[n - 1] = c[(n - 1) + 1] - e /\ y[n - 1] = x[(n - 1) + 1]
    BY <1>2, <1>7
  <2>2. 0 + 1 = 1 /\ c[1] - e = 0
    BY <1>4 DEF e
  <2> QED BY <1>1, <1>2, <2>1, <2>2
<1>11. InFrames(Q, S, x[1], n - 1, d, y)
  BY <1>2, <1>7, <1>8, <1>9, <1>10 DEF InFrames
<1>12. \/ x[1] = r /\ IsFrame(SubSeq(P, 1, e), NULL)
       \/ x[1] = r + 1 /\ IsFrame(SubSeq(P, 1, e), S[r + 1])
  <2>1. Piece(P, S, c, x, 0)
    BY <1>1, <1>2
  <2>2. 0 + 1 = 1
    OBVIOUS
  <2> QED BY <1>1, <2>1, <2>2 DEF Piece, e
<1>13. x[1] <= Len(S) /\ c[n] \in e..Len(P)
  BY <1>1, <1>2, <1>7
<1>14. \E dd, yy : InFrames(Q, S, x[1], n - 1, dd, yy) /\ dd[n - 1] = c[n] - e
  BY <1>10, <1>11
<1> QED BY <1>4, <1>12, <1>13, <1>14 DEF e, Q

(* What lies behind the frames: nothing, or the beginning of a frame that  *)
(* a failing write() cut off.                                              *)
Ends(w, P, e) ==
    \/ e = Len(P)
    \/ /\ w = "closed"
       /\ \E b, m : IsFrame(b, m) /\ Starts(Drop(P, e), b) /\ Len(Drop(P, e)) < Len(b)

(* Nothing dropped. *)
LEMMA DropNothing ==
    ASSUME NEW S, NEW s \in Seq(S)
    PROVE  Drop(s, 0) = s
<1> DEFINE d == Drop(s, 0)
<1>1. 0 \in 0..Len(s) /\ Len(s) \in Nat
  BY LenProperties
<1>2. d \in Seq(S) /\ Len(d) = Len(s) - 0 /\ \A k \in 1..(Len(s) - 0) : d[k] = s[0 + k]
  BY <1>1, Rest
<1> HIDE DEF d
<1>3. Len(d) = Len(s) /\ \A k \in 1..Len(d) : d[k] = s[k]
  <2>1. Len(s) - 0 = Len(s) /\ \A k \in 1..Len(s) : 0 + k = k
    BY <1>1
  <2> QED BY <1>2, <2>1
<1> QED BY <1>2, <1>3, SeqEqual DEF d

(* Dropping twice. *)
LEMMA DropDrop ==
    ASSUME NEW S, NEW s \in Seq(S), NEW a \in 0..Len(s), NEW b \in a..Len(s)
    PROVE  Drop(Drop(s, a), b - a) = Drop(s, b)
<1> DEFINE t == Drop(s, a)
           k == b - a
           u == Drop(t, k)
           w == Drop(s, b)
<1>1. Len(s) \in Nat /\ a \in Nat /\ b \in Nat /\ b \in 0..Len(s)
  BY LenProperties
<1>2. t \in Seq(S) /\ Len(t) = Len(s) - a /\ \A i \in 1..(Len(s) - a) : t[i] = s[a + i]
  BY Rest
<1> HIDE DEF t
<1>3. k \in 0..Len(t) /\ k \in Nat /\ a + k = b
  BY <1>1, <1>2
<1> HIDE DEF k
<1>4. u \in Seq(S) /\ Len(u) = Len(t) - k /\ \A i \in 1..(Len(t) - k) : u[i] = t[k + i]
  BY <1>2, <1>3, Rest, ZenonT(60)
<1>5. w \in Seq(S) /\ Len(w) = Len(s) - b /\ \A i \in 1..(Len(s) - b) : w[i] = s[b + i]
  BY <1>1, Rest
<1> HIDE DEF u, w
<1>6. Len(t) - k = Len(s) - b /\ Len(u) = Len(w)
  <2>1. Len(t) = Len(s) - a /\ Len(u) = Len(t) - k /\ Len(w) = Len(s) - b
    BY <1>2, <1>4, <1>5
  <2> QED BY <1>1, <1>3, <2>1
<1>7. ASSUME NEW i \in 1..Len(u) PROVE u[i] = w[i]
  <2>1. i \in 1..(Len(t) - k) /\ i \in 1..(Len(s) - b) /\ k + i \in 1..(Len(s) - a) /\ a + (k + i) = b + i
    BY <1>1, <1>2, <1>3, <1>4, <1>6
  <2> QED BY <1>2, <1>4, <1>5, <2>1
<1> QED BY <1>4, <1>5, <1>6, <1>7, SeqEqual DEF u, w, t, k

(* Dropping from the front of two. *)
LEMMA DropJoined ==
    ASSUME NEW S, NEW s \in Seq(S), NEW t \in Seq(S), NEW k \in 0..Len(s)
    PROVE  Drop(s \o t, k) = Drop(s, k) \o t
<1> DEFINE u == s \o t
           d == Drop(s, k)
           l == Drop(u, k)
           w == d \o t
<1>1. Len(s) \in Nat /\ Len(t) \in Nat /\ k \in Nat
  BY LenProperties
<1>2. /\ u \in Seq(S) /\ Len(u) = Len(s) + Len(t)
      /\ \A i \in 1..Len(s) : u[i] = s[i]
      /\ \A i \in 1..Len(t) : u[Len(s) + i] = t[i]
  BY Joined
<1>3. d \in Seq(S) /\ Len(d) = Len(s) - k /\ \A i \in 1..(Len(s) - k) : d[i] = s[k + i]
  BY Rest
<1> HIDE DEF u, d
<1>4. k \in 0..Len(u)
  BY <1>1, <1>2
<1>5. l \in Seq(S) /\ Len(l) = Len(u) - k /\ \A i \in 1..(Len(u) - k) : l[i] = u[k + i]
  BY <1>2, <1>4, Rest
<1>6. /\ w \in Seq(S) /\ Len(w) = Len(d) + Len(t)
      /\ \A i \in 1..Len(d) : w[i] = d[i]
      /\ \A i \in 1..Len(t) : w[Len(d) + i] = t[i]
  <2>1. d \in Seq(S)
    BY <1>3
  <2> QED BY <2>1, Joined
<1> HIDE DEF l, w
<1>7. Len(l) = Len(w)
  BY <1>1, <1>2, <1>3, <1>5, <1>6
<1>8. ASSUME NEW i \in 1..Len(l) PROVE l[i] = w[i]
  <2>1. l[i] = u[k + i] /\ i \in Nat
    BY <1>1, <1>2, <1>5
  <2>2. CASE i <= Len(d)
    <3>1. i \in 1..Len(d) /\ i \in 1..(Len(s) - k) /\ k + i \in 1..Len(s)
      BY <1>1, <1>3, <2>1, <2>2
    <3> QED BY <1>2, <1>3, <1>6, <2>1, <3>1
  <2>3. CASE i > Len(d)
    <3> DEFINE j == i - Len(d)
    <3>1. j \in 1..Len(t) /\ Len(d) + j = i /\ Len(s) + j = k + i
      BY <1>1, <1>2, <1>3, <1>5, <2>1, <2>3
    <3> HIDE DEF j
    <3>2. w[Len(d) + j] = t[j] /\ u[Len(s) + j] = t[j]
      BY <1>2, <1>6, <3>1
    <3> QED BY <2>1, <3>1, <3>2
  <2> QED BY <1>1, <1>3, <2>1, <2>2, <2>3
<1> QED BY <1>5, <1>6, <1>7, <1>8, SeqEqual DEF l, w, u, d

(* What lies in front of a cut, and what behind. *)
LEMMA CutInTwo ==
    ASSUME NEW S, NEW s \in Seq(S), NEW k \in 0..Len(s)
    PROVE  SubSeq(s, 1, k) \o Drop(s, k) = s
<1> DEFINE f == SubSeq(s, 1, k)
           d == Drop(s, k)
           w == f \o d
<1>1. Len(s) \in Nat /\ k \in Nat /\ 0 \in 0..Len(s) /\ k - 0 = k /\ 0 + 1 = 1
  BY LenProperties
<1>2. f \in Seq(S) /\ Len(f) = k /\ \A i \in 1..k : f[i] = s[i]
  <2>1. k \in 0..Len(s) /\ f = SubSeq(s, 0 + 1, k)
    BY <1>1
  <2> HIDE DEF f
  <2>2. f \in Seq(S) /\ Len(f) = k - 0 /\ \A i \in 1..(k - 0) : f[i] = s[0 + i]
    BY <1>1, <2>1, Slice
  <2>3. \A i \in 1..k : 0 + i = i
    BY <1>1
  <2> QED BY <1>1, <2>2, <2>3
<1>3. d \in Seq(S) /\ Len(d) = Len(s) - k /\ \A i \in 1..(Len(s) - k) : d[i] = s[k + i]
  BY Rest
<1> HIDE DEF f, d
<1>4. /\ w \in Seq(S) /\ Len(w) = Len(f) + Len(d)
      /\ \A i \in 1..Len(f) : w[i] = f[i]
      /\ \A i \in 1..Len(d) : w[Len(f) + i] = d[i]
  BY <1>2, <1>3, Joined
<1> HIDE DEF w
<1>5. Len(w) = Len(s)
  BY <1>1, <1>2, <1>3, <1>4
<1>6. ASSUME NEW i \in 1..Len(w) PROVE w[i] = s[i]
  <2>1. CASE i <= k
    <3>1. i \in 1..k /\ i \in 1..Len(f)
      BY <1>1, <1>2, <1>5, <2>1
    <3> QED BY <1>2, <1>4, <3>1
  <2>2. CASE i > k
    <3> DEFINE j == i - k
    <3>1. j \in 1..Len(d) /\ j \in 1..(Len(s) - k) /\ Len(f) + j = i /\ k + j = i
      BY <1>1, <1>2, <1>3, <1>5, <2>2
    <3> HIDE DEF j
    <3> QED BY <1>3, <1>4, <3>1
  <2> QED BY <1>1, <1>5, <2>1, <2>2
<1> QED BY <1>4, <1>5, <1>6, SeqEqual DEF w, f, d

(* The bytes q that have arrived of P: its first frame is among them, or   *)
(* lsa_deserialise() waits for the rest of it.                             *)
LEMMA NextIsRead ==
    ASSUME NEW T, NEW P \in Bytes, NEW q \in Bytes, Starts(q, P), NEW S \in Seq(T), NEW w,
           NEW r, NEW n, NEW c, NEW x, InFrames(P, S, r, n, c, x), Ends(w, P, c[n])
    PROVE  \/ /\ n # 0 /\ c[1] \in 1..Len(q)
              /\ \/ x[1] = r /\ lsa_deserialise(q) = [ret |-> c[1], lsa |-> NULL]
                 \/ x[1] = r + 1 /\ lsa_deserialise(q) = [ret |-> c[1], lsa |-> S[r + 1]]
           \/ /\ n # 0 => Len(q) < c[1]
              /\ Len(q) < BUFSIZE
              /\ Len(q) # 0 => lsa_deserialise(q) = [ret |-> 0, lsa |-> NULL]
<1>1. /\ Len(P) \in Nat /\ Len(q) \in Nat /\ Len(q) <= Len(P) /\ P \in Seq(Nat)
      /\ \A k \in 1..Len(q) : P[k] = q[k]
  BY LenProperties DEF Bytes, Starts
<1>2. ASSUME n # 0
      PROVE  \E f, m : /\ IsFrame(f, m) /\ c[1] = Len(f) /\ \A k \in 1..Len(f) : f[k] = P[k]
                       /\ c[1] \in Nat
                       /\ (x[1] = r /\ m = NULL) \/ (x[1] = r + 1 /\ m = S[r + 1])
  <2> DEFINE f == SubSeq(P, 1, c[1])
  <2>1. /\ c[1] \in 0..Len(P)
        /\ (x[1] = r /\ IsFrame(f, NULL)) \/ (x[1] = r + 1 /\ IsFrame(f, S[r + 1]))
    BY <1>2, FrameTaken
  <2> DEFINE e == c[1]
  <2>2. 0 \in 0..Len(P) /\ e \in 0..Len(P) /\ f = SubSeq(P, 0 + 1, e) /\ e - 0 = e /\ e \in Nat
    BY <1>1, <2>1
  <2> HIDE DEF f, e
  <2>3. Len(f) = e - 0 /\ \A k \in 1..(e - 0) : f[k] = P[0 + k]
    BY <1>1, <2>2, Slice
  <2>4. \A k \in 1..e : 0 + k = k
    BY <2>2
  <2>5. Len(f) = e /\ \A k \in 1..Len(f) : f[k] = P[k]
    BY <2>2, <2>3, <2>4
  <2>6. e = c[1]
    BY DEF e
  <2>7. CASE x[1] = r /\ IsFrame(f, NULL)
    BY <2>2, <2>5, <2>6, <2>7
  <2>8. CASE x[1] = r + 1 /\ IsFrame(f, S[r + 1])
    BY <2>2, <2>5, <2>6, <2>8, ZenonT(60)
  <2> QED BY <2>1, <2>7, <2>8
<1>3. ASSUME n = 0, Len(q) # 0
      PROVE  \E b, m : IsFrame(b, m) /\ Starts(q, b) /\ Len(q) < Len(b)
  <2>1. c[n] = 0
    BY <1>3 DEF InFrames
  <2>2. Drop(P, 0) = P
    BY <1>1, DropNothing
  <2>3. c[n] # Len(P)
    BY <1>1, <1>3, <2>1
  <2>4. PICK b, m : IsFrame(b, m) /\ Starts(P, b) /\ Len(P) < Len(b)
    BY <2>1, <2>2, <2>3 DEF Ends
  <2>5. Len(b) \in Nat
    BY <2>4, FrameSize
  <2>6. Starts(q, b) /\ Len(q) < Len(b)
    <3>1. Len(q) < Len(b)
      BY <1>1, <2>4, <2>5
    <3>2. ASSUME NEW k \in 1..Len(q) PROVE b[k] = q[k]
      <4>1. k \in 1..Len(P)
        BY <1>1
      <4> QED BY <1>1, <2>4, <4>1 DEF Starts
    <3> QED BY <1>1, <2>5, <3>1, <3>2 DEF Starts
  <2> QED BY <2>4, <2>6
<1>4. 0 < BUFSIZE
  <2>1. IsFrame(<<0>>, NULL)
    BY KeepaliveFrame
  <2>2. Len(<<0>>) \in Nat \ {0} /\ Len(<<0>>) <= BUFSIZE
    BY <2>1, FrameSize
  <2> QED BY <2>2, StreamAssumption
<1>5. CASE n # 0
  <2>1. PICK f, m : /\ IsFrame(f, m) /\ c[1] = Len(f) /\ \A k \in 1..Len(f) : f[k] = P[k]
                    /\ c[1] \in Nat
                    /\ (x[1] = r /\ m = NULL) \/ (x[1] = r + 1 /\ m = S[r + 1])
    BY <1>2, <1>5
  <2>2. Len(f) \in Nat \ {0} /\ Len(f) <= BUFSIZE
    BY <2>1, FrameSize
  <2>3. CASE c[1] <= Len(q)
    <3>1. Starts(f, q)
      <4>1. \A k \in 1..Len(f) : k \in 1..Len(q)
        BY <1>1, <2>1, <2>2, <2>3
      <4> QED BY <1>1, <2>1, <2>3, <4>1 DEF Starts
    <3>2. lsa_deserialise(q) = [ret |-> Len(f), lsa |-> m]
      BY <2>1, <3>1, FrameIsRead
    <3>3. c[1] \in 1..Len(q)
      BY <1>1, <2>1, <2>2, <2>3
    <3> QED BY <1>5, <2>1, <3>2, <3>3
  <2>4. CASE Len(q) < c[1]
    <3>1. Starts(q, f) /\ Len(q) < Len(f)
      <4>1. \A k \in 1..Len(q) : k \in 1..Len(f)
        BY <1>1, <2>1, <2>2, <2>4
      <4> QED BY <1>1, <2>1, <2>2, <2>4, <4>1 DEF Starts
    <3>2. lsa_deserialise(q) = [ret |-> 0, lsa |-> NULL]
      BY <2>1, <3>1, FrameIsAwaited
    <3>3. Len(q) < BUFSIZE
      BY <1>1, <2>2, <3>1, StreamAssumption
    <3> QED BY <2>4, <3>2, <3>3
  <2> QED BY <1>1, <2>1, <2>3, <2>4
<1>6. CASE n = 0
  <2>1. CASE Len(q) = 0
    BY <1>4, <1>6, <2>1
  <2>2. CASE Len(q) # 0
    <3>1. PICK b, m : IsFrame(b, m) /\ Starts(q, b) /\ Len(q) < Len(b)
      BY <1>3, <1>6, <2>2
    <3>2. lsa_deserialise(q) = [ret |-> 0, lsa |-> NULL]
      BY <3>1, FrameIsAwaited
    <3>3. Len(b) \in Nat /\ Len(b) <= BUFSIZE
      BY <3>1, FrameSize
    <3>4. Len(q) < BUFSIZE
      BY <1>1, <3>1, <3>3, StreamAssumption
    <3> QED BY <1>6, <3>2, <3>4
  <2> QED BY <2>1, <2>2
<1> QED BY <1>5, <1>6

---------------------------------------------------------------------------
(* The two ends of a session.                                              *)

(* The bytes written and not yet handed over: those of the buffer b behind *)
(* the offset o, and those under way, t.                                   *)
Unread(b, o, t) == Drop(b, IF o = NULL THEN 0 ELSE o) \o t

(* They are the frames of the messages of S after the first r, and         *)
(* whatever of a frame a failing write() left behind.  While the reader    *)
(* waits, its buffer does not hold the first of them.                      *)
Streaming(b, o, t, S, r, w) ==
    \E n, c, x : /\ InFrames(Unread(b, o, t), S, r, n, c, x)
                 /\ Ends(w, Unread(b, o, t), c[n])
                 /\ o = NULL /\ n # 0 => Len(b) < c[1]

(* A buffer and where the reader is in it. *)
IsAt(b, o) == b \in Bytes /\ (o = NULL \/ o \in 0..Len(b))

(* Three parts of a sequence of bytes. *)
LEMMA Regrouped ==
    ASSUME NEW s \in Seq(Nat), NEW t \in Seq(Nat), NEW u \in Seq(Nat)
    PROVE  (s \o t) \o u = s \o (t \o u)
BY ConcatAssociative, SMTT(30)

(* What Unread gives. *)
LEMMA UnreadType ==
    ASSUME NEW b, NEW o, IsAt(b, o), NEW t \in Bytes
    PROVE  /\ Unread(b, o, t) \in Seq(Nat)
           /\ Drop(b, IF o = NULL THEN 0 ELSE o) \in Seq(Nat)
           /\ Len(Unread(b, o, t)) = Len(Drop(b, IF o = NULL THEN 0 ELSE o)) + Len(t)
<1> DEFINE k == IF o = NULL THEN 0 ELSE o
           d == Drop(b, k)
<1>1. b \in Seq(Nat) /\ t \in Seq(Nat) /\ k \in 0..Len(b)
  BY LenProperties DEF IsAt, Bytes
<1> HIDE DEF k
<1>2. d \in Seq(Nat)
  BY <1>1, Rest
<1>3. Unread(b, o, t) = d \o t
  BY DEF Unread, d, k
<1> HIDE DEF d
<1>4. d \o t \in Seq(Nat) /\ Len(d \o t) = Len(d) + Len(t)
  BY <1>1, <1>2, Joined
<1> QED BY <1>2, <1>3, <1>4 DEF d, k

(* The reader waits. *)
LEMMA UnreadWaiting ==
    ASSUME NEW b \in Bytes, NEW t \in Bytes
    PROVE  Unread(b, NULL, t) = b \o t
BY DropNothing DEF Unread, Bytes

(* More is written. *)
LEMMA UnreadGrows ==
    ASSUME NEW b, NEW o, IsAt(b, o), NEW t \in Bytes, NEW f \in Bytes
    PROVE  Unread(b, o, t \o f) = Unread(b, o, t) \o f
<1> DEFINE d == Drop(b, IF o = NULL THEN 0 ELSE o)
<1>1. d \in Seq(Nat) /\ t \in Seq(Nat) /\ f \in Seq(Nat)
  BY UnreadType DEF Bytes
<1>2. Unread(b, o, t) = d \o t /\ Unread(b, o, t \o f) = d \o (t \o f)
  BY DEF Unread
<1> HIDE DEF d
<1>3. (d \o t) \o f = d \o (t \o f)
  BY <1>1, ConcatAssociative, SMTT(30)
<1> QED BY <1>2, <1>3

(* A new session. *)
LEMMA StreamBegins == Streaming(<<>>, NULL, <<>>, <<>>, 0, "open")
<1> DEFINE z == [j \in 0..0 |-> 0]
<1>1. Unread(<<>>, NULL, <<>>) = <<>>
  <2>1. <<>> \in Bytes /\ <<>> \in Seq(Nat)
    BY DEF Bytes
  <2>2. Unread(<<>>, NULL, <<>>) = <<>> \o <<>>
    BY <2>1, UnreadWaiting
  <2>3. <<>> \o <<>> = <<>>
    BY <2>1, ConcatEmptySeq
  <2> QED BY <2>2, <2>3
<1>2. /\ 0 \in Nat /\ z \in [0..0 -> Nat] /\ z[0] = 0 /\ Len(<<>>) = 0
      /\ \A j \in 0..0 : z[j] <= 0
      /\ \A j \in 0..(0 - 1) : FALSE
  OBVIOUS
<1> HIDE DEF z
<1>3. InFrames(<<>>, <<>>, 0, 0, z, z)
  BY <1>2 DEF InFrames
<1>4. Ends("open", <<>>, z[0])
  BY <1>2 DEF Ends
<1>5. /\ InFrames(Unread(<<>>, NULL, <<>>), <<>>, 0, 0, z, z)
      /\ Ends("open", Unread(<<>>, NULL, <<>>), z[0])
  BY <1>1, <1>3, <1>4
<1> QED BY <1>5 DEF Streaming

(* A frame is written whole. *)
LEMMA StreamWritten ==
    ASSUME NEW T, NEW b, NEW o, IsAt(b, o), NEW t \in Bytes, NEW S \in Seq(T), NEW R \in Seq(T), NEW r,
           Streaming(b, o, t, S, r, "open"), NEW f, NEW m, IsFrame(f, m),
           \/ R = S /\ m = NULL
           \/ Len(R) = Len(S) + 1 /\ Starts(S, R) /\ R[Len(S) + 1] = m
    PROVE  Streaming(b, o, t \o f, R, r, "open") /\ t \o f \in Bytes
<1> DEFINE P == Unread(b, o, t)
           Q == Unread(b, o, t \o f)
<1>1. f \in Bytes /\ Len(f) \in Nat \ {0}
  BY FrameSize
<1>2. P \in Bytes /\ Q = P \o f /\ t \o f \in Bytes /\ Q \in Bytes
  <2>1. P \in Bytes
    BY UnreadType DEF Bytes
  <2>2. Q = P \o f
    BY <1>1, UnreadGrows
  <2> HIDE DEF P, Q
  <2> QED BY <1>1, <2>1, <2>2, Joined DEF Bytes
<1>3. PICK n, c, x : /\ InFrames(P, S, r, n, c, x) /\ Ends("open", P, c[n])
                     /\ o = NULL /\ n # 0 => Len(b) < c[1]
  BY DEF Streaming
<1>4. c[n] = Len(P)
  BY <1>3 DEF Ends
<1>5. o = NULL /\ n = 0 => Len(b) = 0
  <2> SUFFICES ASSUME o = NULL, n = 0 PROVE Len(b) = 0
    OBVIOUS
  <2>1. c[0] = 0 /\ b \in Bytes
    BY <1>3 DEF InFrames, IsAt
  <2>2. P = b \o t /\ Len(P) = Len(b) + Len(t) /\ Len(b) \in Nat /\ Len(t) \in Nat
    BY <2>1, UnreadWaiting, Joined, LenProperties DEF Bytes
  <2> HIDE DEF P
  <2> QED BY <1>4, <2>1, <2>2
<1>6. Len(P) \in Nat /\ Len(Q) = Len(P) + Len(f)
  <2> HIDE DEF P, Q
  <2> QED BY <1>1, <1>2, Joined, LenProperties DEF Bytes
<1> HIDE DEF P, Q
<1>7. PICK d, y : /\ InFrames(Q, R, r, n + 1, d, y) /\ d[n + 1] = Len(Q)
                  /\ d[1] = IF n = 0 THEN Len(Q) ELSE c[1]
  BY <1>2, <1>3, <1>4, FrameAdded
<1>8. o = NULL => Len(b) < d[1]
  BY <1>1, <1>3, <1>5, <1>6, <1>7
<1>9. Ends("open", Q, d[n + 1])
  BY <1>7 DEF Ends
<1>10. Streaming(b, o, t \o f, R, r, "open")
  BY <1>7, <1>8, <1>9 DEF Streaming, Q
<1> QED BY <1>2, <1>10

(* A write() fails after the first k bytes of a frame. *)
LEMMA StreamCut ==
    ASSUME NEW T, NEW b, NEW o, IsAt(b, o), NEW t \in Bytes, NEW S \in Seq(T), NEW r,
           Streaming(b, o, t, S, r, "open"), NEW f, NEW m, IsFrame(f, m), NEW k \in Nat, k < Len(f)
    PROVE  /\ Streaming(b, o, t \o SubSeq(f, 1, k), S, r, "closed")
           /\ t \o SubSeq(f, 1, k) \in Bytes
<1> DEFINE P == Unread(b, o, t)
           g == SubSeq(f, 1, k)
           Q == Unread(b, o, t \o g)
<1>1. f \in Seq(Nat) /\ Len(f) \in Nat \ {0} /\ k \in 0..Len(f) /\ 0 \in 0..Len(f)
  BY FrameSize DEF Bytes
<1>2. g \in Seq(Nat) /\ Len(g) = k /\ \A i \in 1..k : g[i] = f[i]
  <2>1. k \in 0..Len(f) /\ g = SubSeq(f, 0 + 1, k) /\ k - 0 = k /\ \A i \in 1..k : 0 + i = i
    BY <1>1
  <2> HIDE DEF g
  <2>2. g \in Seq(Nat) /\ Len(g) = k - 0 /\ \A i \in 1..(k - 0) : g[i] = f[0 + i]
    BY <1>1, <2>1, Slice
  <2> QED BY <2>1, <2>2
<1> HIDE DEF g
<1>3. P \in Seq(Nat) /\ Q = P \o g /\ t \o g \in Seq(Nat)
  <2>1. P \in Seq(Nat) /\ Q = P \o g
    BY <1>2, UnreadType, UnreadGrows, ZenonT(60) DEF Bytes
  <2> HIDE DEF P, Q
  <2> QED BY <1>2, <2>1, Joined DEF Bytes
<1>4. PICK n, c, x : /\ InFrames(P, S, r, n, c, x) /\ Ends("open", P, c[n])
                     /\ o = NULL /\ n # 0 => Len(b) < c[1]
  BY DEF Streaming
<1>5. c[n] = Len(P)
  BY <1>4 DEF Ends
<1> HIDE DEF P, Q
<1>6. InFrames(Q, S, r, n, c, x)
  BY <1>2, <1>3, <1>4, FramesStay DEF Bytes
<1>7. Drop(Q, Len(P)) = g
  <2>1. Len(P) \in 0..Len(P) /\ Len(P) \in Nat
    BY <1>3, LenProperties
  <2>2. Drop(Q, Len(P)) = Drop(P, Len(P)) \o g
    BY <1>2, <1>3, <2>1, DropJoined
  <2>3. Drop(P, Len(P)) \in Seq(Nat) /\ Len(Drop(P, Len(P))) = 0
    BY <1>3, <2>1, Rest
  <2>4. Drop(P, Len(P)) = <<>>
    BY <2>3, EmptySeq
  <2> QED BY <1>2, <2>2, <2>4, ConcatEmptySeq
<1>8. Starts(g, f) /\ Len(g) < Len(f)
  BY <1>1, <1>2 DEF Starts
<1>9. Ends("closed", Q, c[n])
  BY <1>5, <1>7, <1>8 DEF Ends
<1>10. Streaming(b, o, t \o g, S, r, "closed")
  BY <1>4, <1>6, <1>9 DEF Streaming, Q
<1> QED BY <1>3, <1>10 DEF g, Bytes

(* read() takes the next k bytes. *)
LEMMA StreamRead ==
    ASSUME NEW b \in Bytes, NEW t \in Bytes, NEW k \in 0..Len(t), NEW S, NEW r, NEW w,
           Streaming(b, NULL, t, S, r, w)
    PROVE  LET B == b \o SubSeq(t, 1, k)
           IN  /\ Streaming(B, 0, Drop(t, k), S, r, w)
               /\ B \in Bytes /\ Len(B) = Len(b) + k /\ Drop(t, k) \in Bytes
<1> DEFINE g == SubSeq(t, 1, k)
           d == Drop(t, k)
           B == b \o g
<1>1. b \in Seq(Nat) /\ t \in Seq(Nat) /\ k \in 0..Len(t) /\ 0 \in 0..Len(t) /\ k \in Nat
  BY LenProperties DEF Bytes
<1>2. g \in Seq(Nat) /\ Len(g) = k
  <2>1. k \in 0..Len(t) /\ g = SubSeq(t, 0 + 1, k) /\ k - 0 = k
    BY <1>1
  <2> HIDE DEF g
  <2>2. g \in Seq(Nat) /\ Len(g) = k - 0
    BY <1>1, <2>1, Slice
  <2> QED BY <2>1, <2>2
<1>3. d \in Seq(Nat) /\ g \o d = t
  BY <1>1, Rest, CutInTwo
<1> HIDE DEF g, d
<1>4. B \in Seq(Nat) /\ Len(B) = Len(b) + k
  BY <1>1, <1>2, Joined
<1>5. Unread(B, 0, d) = b \o t
  <2>1. Drop(B, 0) = B
    <3> HIDE DEF B
    <3> QED BY <1>4, DropNothing
  <2>2. Unread(B, 0, d) = B \o d
    BY <2>1 DEF Unread
  <2>3. (b \o g) \o d = b \o (g \o d)
    <3>1. b \in Seq(Nat) /\ g \in Seq(Nat) /\ d \in Seq(Nat)
      BY <1>1, <1>2, <1>3
    <3> HIDE DEF B
    <3> QED BY <3>1, Regrouped
  <2> QED BY <1>3, <2>2, <2>3
<1>6. Unread(b, NULL, t) = b \o t
  BY UnreadWaiting
<1>7. 0 # NULL
  BY StreamAssumption
<1>8. Streaming(B, 0, d, S, r, w)
  <2> HIDE DEF B
  <2> QED BY <1>5, <1>6, <1>7 DEF Streaming
<1> QED BY <1>3, <1>4, <1>8 DEF g, d, Bytes

(* What the reader's loop gets, and what it leaves. *)
LEMMA StreamTurn ==
    ASSUME NEW T, NEW b \in Bytes, NEW o \in 0..Len(b), NEW t \in Bytes, NEW S \in Seq(T), NEW r, NEW w,
           Streaming(b, o, t, S, r, w),
           NEW a, a = IF o < Len(b) THEN lsa_deserialise(Drop(b, o)) ELSE Answer(0, NULL)
    PROVE  \/ /\ a.ret > 0 /\ o + a.ret \in 0..Len(b) /\ r \in Nat
              /\ \/ a.lsa = NULL /\ Streaming(b, o + a.ret, t, S, r, w)
                 \/ r + 1 <= Len(S) /\ a.lsa = S[r + 1] /\ Streaming(b, o + a.ret, t, S, r + 1, w)
           \/ /\ a.ret = 0 /\ Drop(b, o) \in Bytes /\ Len(Drop(b, o)) < BUFSIZE
              /\ Len(Drop(b, o)) = Len(b) - o
              /\ Streaming(Drop(b, o), NULL, t, S, r, w)
<1> DEFINE q == Drop(b, o)
           P == Unread(b, o, t)
<1>1. b \in Seq(Nat) /\ t \in Seq(Nat) /\ Len(b) \in Nat /\ o \in Nat /\ o # NULL
  BY LenProperties, StreamAssumption DEF Bytes
<1>2. q \in Seq(Nat) /\ Len(q) = Len(b) - o
  BY <1>1, Rest
<1>3. P = q \o t /\ P \in Seq(Nat) /\ Starts(q, P) /\ Len(q) <= Len(P) /\ Len(P) \in Nat
  <2>1. P = q \o t
    BY <1>1 DEF Unread
  <2> HIDE DEF P, q
  <2> QED BY <1>1, <1>2, <2>1, Joined, LenProperties DEF Starts
<1>4. PICK n, c, x : InFrames(P, S, r, n, c, x) /\ Ends(w, P, c[n])
  BY DEF Streaming
<1> HIDE DEF q, P
<1>5. q \in Bytes /\ P \in Bytes
  BY <1>2, <1>3 DEF Bytes
<1>6. \/ /\ n # 0 /\ c[1] \in 1..Len(q)
         /\ \/ x[1] = r /\ lsa_deserialise(q) = [ret |-> c[1], lsa |-> NULL]
            \/ x[1] = r + 1 /\ lsa_deserialise(q) = [ret |-> c[1], lsa |-> S[r + 1]]
      \/ /\ n # 0 => Len(q) < c[1]
         /\ Len(q) < BUFSIZE
         /\ Len(q) # 0 => lsa_deserialise(q) = [ret |-> 0, lsa |-> NULL]
  BY <1>3, <1>4, <1>5, NextIsRead
<1>7. CASE /\ n # 0 /\ c[1] \in 1..Len(q)
           /\ \/ x[1] = r /\ lsa_deserialise(q) = [ret |-> c[1], lsa |-> NULL]
              \/ x[1] = r + 1 /\ lsa_deserialise(q) = [ret |-> c[1], lsa |-> S[r + 1]]
  <2> DEFINE e == c[1]
             Q == Drop(P, e)
  <2>1. /\ e \in 0..Len(P) /\ c[n] \in e..Len(P) /\ r \in Nat /\ x[1] \in Nat /\ x[1] <= Len(S)
        /\ \E d, y : InFrames(Q, S, x[1], n - 1, d, y) /\ d[n - 1] = c[n] - e
    BY <1>4, <1>5, <1>7, FrameTaken
  <2>2. PICK d, y : InFrames(Q, S, x[1], n - 1, d, y) /\ d[n - 1] = c[n] - e
    BY <2>1
  <2> HIDE DEF Q
  <2>3. e \in 1..Len(q) /\ e \in 0..Len(q) /\ e \in Nat /\ o + e \in 0..Len(b) /\ o + e \in o..Len(b) /\ (o + e) - o = e
    <3>1. e \in 1..Len(q)
      BY <1>7
    <3> HIDE DEF e
    <3> QED BY <1>1, <1>2, <3>1
  <2>4. Unread(b, o + e, t) = Q
    <3>1. o + e # NULL
      BY <2>3, StreamAssumption
    <3>2. Unread(b, o + e, t) = Drop(b, o + e) \o t
      <4> HIDE DEF e
      <4> QED BY <3>1 DEF Unread
    <3>3. Drop(q, e) = Drop(b, o + e)
      <4> DEFINE i == o + e
      <4>1. i \in o..Len(b) /\ i - o = e
        BY <2>3
      <4> HIDE DEF i, e
      <4>2. Drop(Drop(b, o), i - o) = Drop(b, i)
        BY <1>1, <4>1, DropDrop
      <4> QED BY <4>1, <4>2 DEF q, i
    <3>4. Drop(q \o t, e) = Drop(q, e) \o t
      <4> HIDE DEF e
      <4> QED BY <1>1, <1>2, <2>3, DropJoined
    <3> HIDE DEF e
    <3> QED BY <1>3, <3>2, <3>3, <3>4 DEF Q
  <2>5. Ends(w, Q, d[n - 1])
    <3>1. Len(Q) = Len(P) - e
      <4> HIDE DEF e
      <4> QED BY <1>3, <2>1, Rest DEF Q
    <3>2. CASE c[n] = Len(P)
      BY <2>2, <3>1, <3>2 DEF Ends
    <3>3. CASE c[n] # Len(P)
      <4> DEFINE z == c[n]
      <4>1. Drop(Drop(P, e), z - e) = Drop(P, z)
        <5> HIDE DEF e, z
        <5>1. z \in e..Len(P) /\ e \in 0..Len(P)
          BY <2>1 DEF z
        <5> QED BY <1>3, <5>1, DropDrop
      <4>2. Drop(Q, d[n - 1]) = Drop(P, c[n])
        BY <2>2, <4>1 DEF Q
      <4> QED BY <1>4, <3>3, <4>2 DEF Ends
    <3> QED BY <3>2, <3>3
  <2>6. o + e # NULL
    BY <2>3, StreamAssumption
  <2>7. Streaming(b, o + e, t, S, x[1], w)
    <3> HIDE DEF e
    <3> QED BY <2>2, <2>4, <2>5, <2>6 DEF Streaming
  <2>8. o < Len(b)
    <3> HIDE DEF e
    <3> QED BY <1>1, <1>2, <2>3
  <2>9. a = lsa_deserialise(q)
    BY <2>8 DEF q
  <2>10. CASE x[1] = r /\ lsa_deserialise(q) = [ret |-> e, lsa |-> NULL]
    <3>1. a.ret = e /\ a.lsa = NULL
      BY <2>9, <2>10
    <3> HIDE DEF e
    <3> QED BY <2>1, <2>3, <2>7, <2>10, <3>1
  <2>11. CASE x[1] = r + 1 /\ lsa_deserialise(q) = [ret |-> e, lsa |-> S[r + 1]]
    <3>1. a.ret = e /\ a.lsa = S[r + 1]
      BY <2>9, <2>11
    <3> HIDE DEF e
    <3> QED BY <2>1, <2>3, <2>7, <2>11, <3>1
  <2> QED BY <1>7, <2>10, <2>11
<1>8. CASE /\ n # 0 => Len(q) < c[1]
           /\ Len(q) < BUFSIZE
           /\ Len(q) # 0 => lsa_deserialise(q) = [ret |-> 0, lsa |-> NULL]
  <2>1. a.ret = 0
    <3>1. CASE o < Len(b)
      <4>1. Len(q) # 0
        BY <1>1, <1>2, <3>1
      <4>2. a = lsa_deserialise(q)
        BY <3>1 DEF q
      <4> QED BY <1>8, <4>1, <4>2
    <3>2. CASE ~ (o < Len(b))
      BY <3>2, WireAssumption DEF Answer
    <3> QED BY <3>1, <3>2
  <2>2. Unread(q, NULL, t) = P
    BY <1>3, <1>5, UnreadWaiting
  <2>3. Streaming(q, NULL, t, S, r, w)
    BY <1>4, <1>8, <2>2 DEF Streaming
  <2> QED BY <1>2, <1>5, <1>8, <2>1, <2>3 DEF q
<1> QED BY <1>6, <1>7, <1>8

(* A waiting reader has space left, and when everything has been read it   *)
(* has everything.                                                         *)
LEMMA StreamWaits ==
    ASSUME NEW T, NEW b \in Bytes, NEW t \in Bytes, NEW S \in Seq(T), NEW r, NEW w,
           Streaming(b, NULL, t, S, r, w)
    PROVE  Len(b) < BUFSIZE /\ (t = <<>> => r = Len(S))
<1> DEFINE P == Unread(b, NULL, t)
<1>1. b \in Seq(Nat) /\ t \in Seq(Nat) /\ Len(b) \in Nat
  BY LenProperties DEF Bytes
<1>2. P = b \o t /\ P \in Seq(Nat) /\ Starts(b, P)
  <2>1. P = b \o t
    BY UnreadWaiting
  <2> HIDE DEF P
  <2> QED BY <1>1, <2>1, Joined
<1>3. PICK n, c, x : /\ InFrames(P, S, r, n, c, x) /\ Ends(w, P, c[n])
                     /\ n # 0 => Len(b) < c[1]
  BY DEF Streaming
<1> HIDE DEF P
<1>4. ~ (n # 0 /\ c[1] \in 1..Len(b))
  BY <1>1, <1>3
<1>5. Len(b) < BUFSIZE
  BY <1>2, <1>3, <1>4, NextIsRead DEF Bytes
<1>6. ASSUME t = <<>> PROVE r = Len(S)
  <2>1. P = b
    BY <1>1, <1>2, <1>6, ConcatEmptySeq
  <2>2. n = 0
    <3> SUFFICES ASSUME n # 0 PROVE FALSE
      OBVIOUS
    <3>1. c[1] \in 0..Len(P)
      BY <1>2, <1>3, FrameTaken DEF Bytes
    <3> QED BY <1>1, <1>3, <2>1, <3>1
  <2> QED BY <1>3, <2>2 DEF InFrames
<1> QED BY <1>5, <1>6

---------------------------------------------------------------------------
(* LSAs.                                                                   *)

(* The attributes of an LSA are finitely many. *)
AttrSet(A) == A \subseteq Attribute /\ IsFiniteSet(A)

(* What an attribute counts for. *)
LEMMA AttrSizeType ==
    ASSUME NEW a \in Attribute
    PROVE  lsa_attr_size(a) \in Nat
<1>1. Len(a.key) \in Nat /\ Len(a.data) \in Nat
  BY LenProperties DEF Attribute, Bytes
<1> DEFINE N == MAX_SERIALISED_INT_LEN
           u == Len(a.key)
           w == Len(a.data)
<1>2. N \in Nat /\ u \in Nat /\ w \in Nat
  BY <1>1, WireAssumption
<1>3. lsa_attr_size(a) = 3 * N + (IF a.key # <<>> THEN N + u ELSE 0) + (IF a.set THEN 0 ELSE w)
  BY DEF lsa_attr_size
<1> HIDE DEF N, u, w
<1>4. 3 * N \in Nat
  BY <1>2
<1> QED BY <1>2, <1>3, <1>4

(* What several count for. *)
LEMMA SizeType ==
    ASSUME NEW A, AttrSet(A)
    PROVE  AttrsSize(A) \in Nat /\ (A = {} => AttrsSize(A) = 0)
<1> DEFINE f == [a \in A |-> lsa_attr_size(a)]
           z == [a \in A |-> 0]
<1>1. IsFiniteSet(A) /\ f \in [A -> Int] /\ z \in [A -> Int]
  BY AttrSizeType DEF AttrSet
<1>2. \A a \in A : z[a] <= f[a]
  <2>1. ASSUME NEW a \in A PROVE z[a] <= f[a]
    <3>1. lsa_attr_size(a) \in Nat
      BY AttrSizeType DEF AttrSet
    <3> QED BY <3>1
  <2> QED BY <2>1
<1>3. Sum(z) = 0
  BY <1>1, SumOfZeroes
<1>4. AttrsSize(A) = Sum(f)
  BY DEF AttrsSize
<1> HIDE DEF f, z
<1>5. Sum(z) <= Sum(f)
  BY <1>1, <1>2, SumBound
<1>6. Sum(f) \in Int /\ (A = {} => Sum(f) = 0)
  BY <1>1, SumType
<1> QED BY <1>3, <1>4, <1>5, <1>6

(* What a part counts for, and the rest. *)
LEMMA SizeParts ==
    ASSUME NEW A, AttrSet(A), NEW G \in SUBSET A
    PROVE  /\ AttrSet(G) /\ AttrSet(A \ G)
           /\ AttrsSize(G) \in Nat /\ AttrsSize(A \ G) \in Nat
           /\ AttrsSize(A) = AttrsSize(G) + AttrsSize(A \ G)
<1> DEFINE f == [a \in A |-> lsa_attr_size(a)]
<1>1. IsFiniteSet(A) /\ f \in [A -> Int]
  BY AttrSizeType DEF AttrSet
<1>2. /\ AttrsSize(A) = Sum(f)
      /\ AttrsSize(G) = Sum([a \in G |-> f[a]])
      /\ AttrsSize(A \ G) = Sum([a \in A \ G |-> f[a]])
  <2>1. [a \in G |-> f[a]] = [a \in G |-> lsa_attr_size(a)]
    OBVIOUS
  <2>2. [a \in A \ G |-> f[a]] = [a \in A \ G |-> lsa_attr_size(a)]
    OBVIOUS
  <2> QED BY <2>1, <2>2 DEF AttrsSize
<1> HIDE DEF f
<1>3. Sum(f) = Sum([a \in G |-> f[a]]) + Sum([a \in A \ G |-> f[a]])
  BY <1>1, SumParts, ZenonT(60)
<1>4. AttrSet(G) /\ AttrSet(A \ G)
  BY FS_Subset DEF AttrSet
<1> QED BY <1>2, <1>3, <1>4, SizeType

(* What one more counts for. *)
LEMMA SizeAdd ==
    ASSUME NEW A, AttrSet(A), NEW a \in Attribute, a \notin A
    PROVE  /\ AttrSet(A \cup {a})
           /\ AttrsSize(A \cup {a}) = AttrsSize(A) + lsa_attr_size(a)
<1> DEFINE B == A \cup {a}
           f == [b \in B |-> lsa_attr_size(b)]
<1>1. AttrSet(B)
  BY FS_AddElement DEF AttrSet
<1>2. IsFiniteSet(B) /\ f \in [B -> Int] /\ a \in B /\ f[a] = lsa_attr_size(a)
  BY <1>1, AttrSizeType DEF AttrSet
<1>3. B \ {a} = A
  OBVIOUS
<1>4. [b \in B \ {a} |-> f[b]] = [b \in A |-> lsa_attr_size(b)]
  BY <1>3
<1>5. AttrsSize(B) = Sum(f) /\ AttrsSize(A) = Sum([b \in B \ {a} |-> f[b]])
  BY <1>4 DEF AttrsSize
<1>6. AttrsSize(A) \in Nat /\ lsa_attr_size(a) \in Nat
  BY SizeType, AttrSizeType
<1> HIDE DEF f, B
<1>7. Sum(f) = f[a] + Sum([b \in B \ {a} |-> f[b]])
  BY <1>2, SumSplit
<1>8. AttrsSize(B) = lsa_attr_size(a) + AttrsSize(A)
  BY <1>2, <1>5, <1>7
<1>9. AttrsSize(B) = AttrsSize(A) + lsa_attr_size(a)
  BY <1>6, <1>8
<1> QED BY <1>1, <1>9 DEF B

(* lsa->bytes bounds what lsa_attr_set_serialise_length() returns. *)
LEMMA LengthBound ==
    ASSUME NEW A, AttrSet(A)
    PROVE  /\ lsa_attr_set_serialise_length(A) \in Nat
           /\ lsa_attr_set_serialise_length(A) <= AttrsSize(A)
<1> DEFINE d == DataLengths(A)
           h(a) == HeadLength(a) + IntLen(d[a]) + (IF a.set THEN 0 ELSE Len(a.data))
           f == [a \in A |-> h(a)]
           g == [a \in A |-> lsa_attr_size(a)]
           z == [a \in A |-> 0]
<1>1. ASSUME NEW a \in A PROVE h(a) \in Nat /\ h(a) <= lsa_attr_size(a) /\ lsa_attr_size(a) \in Nat
  <2> DEFINE N == MAX_SERIALISED_INT_LEN
             i == IntLen(a.type)
             j == IntLen(AttrFlags(a))
             k == IntLen(Len(a.key))
             l == IntLen(d[a])
             u == Len(a.key)
             w == Len(a.data)
  <2>1. N \in Nat /\ u \in Nat /\ w \in Nat /\ lsa_attr_size(a) \in Nat
    BY LenProperties, WireAssumption, AttrSizeType DEF AttrSet, Attribute, Bytes
  <2>2. i \in 1..N /\ j \in 1..N /\ k \in 1..N /\ l \in 1..N
    BY IntLenType
  <2>3. h(a) = i + j + (IF a.key # <<>> THEN k + u ELSE 0) + l + (IF a.set THEN 0 ELSE w)
    BY DEF HeadLength
  <2>4. lsa_attr_size(a) = 3 * N + (IF a.key # <<>> THEN N + u ELSE 0) + (IF a.set THEN 0 ELSE w)
    BY DEF lsa_attr_size
  <2> HIDE DEF N, i, j, k, l, u, w, h
  <2>5. 3 * N = N + N + N
    BY <2>1
  <2> QED BY <2>1, <2>2, <2>3, <2>4, <2>5
<1>2. lsa_attr_set_serialise_length(A) = Sum(f) /\ AttrsSize(A) = Sum(g)
  BY DEF lsa_attr_set_serialise_length, AttrsSize
<1> HIDE DEF h
<1>3. IsFiniteSet(A) /\ f \in [A -> Int] /\ g \in [A -> Int] /\ z \in [A -> Int]
  BY <1>1 DEF AttrSet
<1>4. (\A a \in A : f[a] <= g[a]) /\ (\A a \in A : z[a] <= f[a])
  BY <1>1
<1>5. Sum(z) = 0
  BY <1>3, SumOfZeroes
<1> HIDE DEF f, g, z
<1>6. Sum(f) <= Sum(g) /\ Sum(z) <= Sum(f) /\ Sum(f) \in Int
  BY <1>3, <1>4, SumBound, SumType
<1> QED BY <1>2, <1>5, <1>6

(* What a new LSA with the attributes A looks like. *)
LEMMA FreshType ==
    ASSUME NEW id \in Bytes, NEW A, AttrSet(A)
    PROVE  LET l == FreshLsa(id, A)
           IN  /\ l = [refcount |-> 1, bytes |-> MAX_SERIALISED_INT_LEN + NODE_ID_LEN + AttrsSize(A),
                       id |-> id, attrs |-> A]
               /\ l.refcount = 1 /\ l.id = id /\ l.attrs = A
               /\ l.bytes = MAX_SERIALISED_INT_LEN + NODE_ID_LEN + AttrsSize(A) /\ l.bytes \in Nat
               /\ l \in Lsas /\ l # ABORT /\ l # NULL /\ l # ERROR
<1> DEFINE n == MAX_SERIALISED_INT_LEN + NODE_ID_LEN + AttrsSize(A)
           r == [refcount |-> 1, bytes |-> n, id |-> id, attrs |-> A]
<1>1. FreshLsa(id, A) = r
  <2>1. lsa_alloc(id).bytes = MAX_SERIALISED_INT_LEN + NODE_ID_LEN
    BY DEF lsa_alloc
  <2> QED BY <2>1 DEF FreshLsa
<1>2. n \in Nat
  BY SizeType, WireAssumption
<1> HIDE DEF n
<1>3. r.refcount = 1 /\ r.id = id /\ r.attrs = A /\ r.bytes = n
  OBVIOUS
<1>4. r \in Lsas
  <2>1. A \in SUBSET Attribute /\ 1 \in Nat /\ n \in Int
    BY <1>2 DEF AttrSet
  <2> QED BY <2>1 DEF Lsas
<1> HIDE DEF r
<1>5. r # ABORT /\ r # NULL /\ r # ERROR
  BY <1>4, WireAssumption
<1> QED BY <1>1, <1>2, <1>3, <1>4, <1>5 DEF n, r

(* lsa_add_attr() and the like. *)
LEMMA AddToFresh ==
    ASSUME NEW id \in Bytes, NEW A, AttrSet(A), NEW a \in Attribute,
           \A b \in A : ~ (b.at = a.at /\ b.type = a.type /\ b.key = a.key)
    PROVE  /\ AttrSet(A \cup {a})
           /\ AddAttr(FreshLsa(id, A), a) = FreshLsa(id, A \cup {a})
<1> DEFINE l == FreshLsa(id, A)
           n == MAX_SERIALISED_INT_LEN + NODE_ID_LEN
           B == A \cup {a}
<1>1. a \notin A
  OBVIOUS
<1>2. AttrSet(B) /\ AttrsSize(B) = AttrsSize(A) + lsa_attr_size(a)
  BY <1>1, SizeAdd
<1>3. l = [refcount |-> 1, bytes |-> n + AttrsSize(A), id |-> id, attrs |-> A] /\ l # ABORT
  BY FreshType
<1>4. FreshLsa(id, B) = [refcount |-> 1, bytes |-> n + AttrsSize(B), id |-> id, attrs |-> B]
  BY <1>2, FreshType, ZenonT(60)
<1>5. n \in Nat /\ AttrsSize(A) \in Nat /\ lsa_attr_size(a) \in Nat
  BY SizeType, AttrSizeType, WireAssumption
<1> HIDE DEF n, l
<1>6. l.refcount = 1 /\ lsa_attr_set_find_attr(l, a.at, a.type, a.key) = {}
  BY <1>3 DEF lsa_attr_set_find_attr
<1>7. AddAttr(l, a) = [l EXCEPT !.attrs = @ \cup {a}, !.bytes = @ + lsa_attr_size(a)]
  BY <1>3, <1>6 DEF AddAttr
<1>8. AddAttr(l, a) = [refcount |-> 1, bytes |-> (n + AttrsSize(A)) + lsa_attr_size(a), id |-> id, attrs |-> B]
  BY <1>3, <1>7
<1>9. (n + AttrsSize(A)) + lsa_attr_size(a) = n + AttrsSize(B)
  BY <1>2, <1>5
<1> QED BY <1>2, <1>4, <1>8, <1>9 DEF l

(* The attributes of A but one of the root and those inside it. *)
Without(A, t, k) == {b \in A : Where(b)[1] # <<t, k>>}

(* lsa_del_attr_bykey() *)
LEMMA DelFromFresh ==
    ASSUME NEW id \in Bytes, NEW A, AttrSet(A), NEW t, NEW k,
           NEW a \in A, a.at = <<>>, a.type = t, a.key = k
    PROVE  /\ AttrSet(Without(A, t, k))
           /\ lsa_del_attr_bykey(FreshLsa(id, A), t, k) = FreshLsa(id, Without(A, t, k))
<1> DEFINE l == FreshLsa(id, A)
           n == MAX_SERIALISED_INT_LEN + NODE_ID_LEN
           G == {b \in A : Where(b)[1] = <<t, k>>}
           R == {b \in A : Where(b)[1] # <<t, k>>}
<1>1. A \ G = R /\ G \in SUBSET A
  OBVIOUS
<1>2. AttrSet(R) /\ AttrsSize(G) \in Nat /\ AttrsSize(R) \in Nat /\ AttrsSize(A) = AttrsSize(G) + AttrsSize(R)
  <2> HIDE DEF G, R
  <2>1. AttrSet(A \ G) /\ AttrsSize(G) \in Nat /\ AttrsSize(A \ G) \in Nat
        /\ AttrsSize(A) = AttrsSize(G) + AttrsSize(A \ G)
    BY <1>1, SizeParts
  <2> QED BY <1>1, <2>1
<1>3. l = [refcount |-> 1, bytes |-> n + AttrsSize(A), id |-> id, attrs |-> A]
  BY FreshType
<1>4. FreshLsa(id, R) = [refcount |-> 1, bytes |-> n + AttrsSize(R), id |-> id, attrs |-> R]
  <2> HIDE DEF R
  <2> QED BY <1>2, FreshType
<1>5. n \in Nat
  BY WireAssumption
<1> HIDE DEF n, l
<1>6. l.refcount = 1 /\ l.attrs = A
  BY <1>3
<1>7. lsa_find_attr(l, t, k) # {}
  BY <1>6 DEF lsa_find_attr, lsa_attr_set_find_attr
<1>8. lsa_del_attr_bykey(l, t, k) = [l EXCEPT !.attrs = @ \ G, !.bytes = @ - AttrsSize(G)]
  BY <1>6, <1>7 DEF lsa_del_attr_bykey
<1> HIDE DEF G, R
<1>9. lsa_del_attr_bykey(l, t, k) = [refcount |-> 1, bytes |-> (n + AttrsSize(A)) - AttrsSize(G), id |-> id, attrs |-> R]
  BY <1>1, <1>3, <1>8
<1>10. (n + AttrsSize(A)) - AttrsSize(G) = n + AttrsSize(R)
  BY <1>2, <1>5
<1>11. R = Without(A, t, k)
  BY DEF R, Without
<1> QED BY <1>2, <1>4, <1>9, <1>10, <1>11 DEF l

---------------------------------------------------------------------------
(* The attributes of the own LSA.                                          *)

PathA(path) == Leaf(<<>>, LSA_ATTR_TYPE.ADV_PATH, FALSE, <<>>, path)
NameA == Leaf(<<>>, LSA_ATTR_TYPE.NODE_NAME, TRUE, <<>>, NodeName)
Names == IF NodeName = NULL THEN {} ELSE {NameA}
VersionA(v) == Leaf(<<>>, LSA_ATTR_TYPE.VERSION, TRUE, <<>>, <<v>>)
KeyA == Leaf(<<>>, LSA_ATTR_TYPE.PUBKEY, TRUE, <<>>, PubKey)
SignatureA(v) == Leaf(<<>>, LSA_ATTR_TYPE.SIGNATURE, FALSE, <<>>, <<v>>)
PeersOf(S) == UNION {{PeerAttr(p), MetricAttr(p), FlagsAttr(p)} : p \in S}

(* Those of the LSA while it is being changed: V holds its version, G its  *)
(* signature, if there are any.                                            *)
Own(V, G, S, path) == {PathA(path), KeyA} \cup Names \cup V \cup G \cup PeersOf(S)

(* When it is not being changed. *)
LEMMA OwnIs ==
    ASSUME NEW v, NEW S, NEW path
    PROVE  OwnAttrs(v, S, path) = Own({VersionA(v)}, {SignatureA(v)}, S, path)
BY DEF OwnAttrs, Own, PathA, Names, NameA, VersionA, KeyA, SignatureA, PeersOf

(* An attribute of the root: its place, type and key. *)
Top(a, t, k) ==
    /\ a \in Attribute /\ a.at = <<>> /\ a.type = t /\ a.key = k
    /\ Where(a) = <<<<t, k>>>>

(* Attributes with data in the root. *)
LEMMA LeafTop ==
    ASSUME NEW t \in Nat, NEW d \in Bytes, NEW s \in BOOLEAN, NEW a,
           a = [at |-> <<>>, type |-> t, key |-> <<>>, sign |-> s, set |-> FALSE, data |-> d]
    PROVE  Top(a, t, <<>>) /\ a.data = d /\ ~ a.set
<1>1. <<>> \in Seq(Nat \X Bytes) /\ <<>> \in Bytes
  BY DEF Bytes
<1>2. a \in Attribute
  BY <1>1 DEF Attribute
<1>3. a.at = <<>> /\ a.type = t /\ a.key = <<>> /\ a.data = d /\ ~ a.set
  OBVIOUS
<1>4. Where(a) = <<<<t, <<>>>>>>
  BY <1>3 DEF Where
<1> QED BY <1>2, <1>3, <1>4 DEF Top

(* The five of them. *)
LEMMA RootAttrs ==
    /\ \A d \in Bytes : Top(PathA(d), 1, <<>>) /\ ~ PathA(d).sign /\ PathA(d).data = d /\ ~ PathA(d).set
    /\ \A a \in Names : a = NameA /\ Top(a, 3, <<>>) /\ a.sign
    /\ \A v \in Nat : Top(VersionA(v), 4, <<>>) /\ VersionA(v).sign /\ VersionA(v).data = <<v>>
    /\ Top(KeyA, 5, <<>>) /\ KeyA.sign
    /\ \A v \in Nat : Top(SignatureA(v), 6, <<>>) /\ ~ SignatureA(v).sign /\ SignatureA(v).data = <<v>>
<1>1. /\ LSA_ATTR_TYPE.ADV_PATH = 1 /\ LSA_ATTR_TYPE.NODE_NAME = 3 /\ LSA_ATTR_TYPE.VERSION = 4
      /\ LSA_ATTR_TYPE.PUBKEY = 5 /\ LSA_ATTR_TYPE.SIGNATURE = 6
  BY DEF LSA_ATTR_TYPE
<1>2. /\ 1 \in Nat /\ 3 \in Nat /\ 4 \in Nat /\ 5 \in Nat /\ 6 \in Nat
      /\ PubKey \in Bytes /\ \A v \in Nat : <<v>> \in Bytes
  <2>1. PubKey \in Bytes
    BY NodeAssumption
  <2>2. \A v \in Nat : <<v>> \in Bytes
    BY DEF Bytes
  <2> QED BY <2>1, <2>2
<1>3. \A d \in Bytes : Top(PathA(d), 1, <<>>) /\ ~ PathA(d).sign /\ PathA(d).data = d /\ ~ PathA(d).set
  <2> SUFFICES ASSUME NEW d \in Bytes PROVE Top(PathA(d), 1, <<>>) /\ ~ PathA(d).sign /\ PathA(d).data = d /\ ~ PathA(d).set
    OBVIOUS
  <2>1. PathA(d) = [at |-> <<>>, type |-> 1, key |-> <<>>, sign |-> FALSE, set |-> FALSE, data |-> d]
    BY <1>1 DEF PathA, Leaf
  <2>2. ~ PathA(d).sign
    BY <2>1
  <2>3. Top(PathA(d), 1, <<>>) /\ PathA(d).data = d /\ ~ PathA(d).set
    BY <1>2, <2>1, LeafTop, ZenonT(60)
  <2> QED BY <2>2, <2>3
<1>4. \A a \in Names : a = NameA /\ Top(a, 3, <<>>) /\ a.sign
  <2>0. NodeName # NULL => NodeName \in Bytes
    BY NodeAssumption
  <2> SUFFICES ASSUME NodeName \in Bytes PROVE Top(NameA, 3, <<>>) /\ NameA.sign
    BY <2>0 DEF Names
  <2>1. NameA = [at |-> <<>>, type |-> 3, key |-> <<>>, sign |-> TRUE, set |-> FALSE, data |-> NodeName]
    BY <1>1 DEF NameA, Leaf
  <2>2. NameA.sign
    BY <2>1
  <2>3. Top(NameA, 3, <<>>) /\ NameA.data = NodeName /\ ~ NameA.set
    BY <1>2, <2>1, LeafTop
  <2> QED BY <2>2, <2>3
<1>5. \A v \in Nat : Top(VersionA(v), 4, <<>>) /\ VersionA(v).sign /\ VersionA(v).data = <<v>>
  <2> SUFFICES ASSUME NEW v \in Nat PROVE Top(VersionA(v), 4, <<>>) /\ VersionA(v).sign /\ VersionA(v).data = <<v>>
    OBVIOUS
  <2>1. VersionA(v) = [at |-> <<>>, type |-> 4, key |-> <<>>, sign |-> TRUE, set |-> FALSE, data |-> <<v>>]
    BY <1>1 DEF VersionA, Leaf
  <2>2. VersionA(v).sign
    BY <2>1
  <2>3. Top(VersionA(v), 4, <<>>) /\ VersionA(v).data = <<v>> /\ ~ VersionA(v).set
    BY <1>2, <2>1, LeafTop, ZenonT(60)
  <2> QED BY <2>2, <2>3
<1>6. Top(KeyA, 5, <<>>) /\ KeyA.sign
  <2>1. KeyA = [at |-> <<>>, type |-> 5, key |-> <<>>, sign |-> TRUE, set |-> FALSE, data |-> PubKey]
    BY <1>1 DEF KeyA, Leaf
  <2>2. KeyA.sign
    BY <2>1
  <2>3. Top(KeyA, 5, <<>>) /\ KeyA.data = PubKey /\ ~ KeyA.set
    BY <1>2, <2>1, LeafTop
  <2> QED BY <2>2, <2>3
<1>7. \A v \in Nat : Top(SignatureA(v), 6, <<>>) /\ ~ SignatureA(v).sign /\ SignatureA(v).data = <<v>>
  <2> SUFFICES ASSUME NEW v \in Nat PROVE Top(SignatureA(v), 6, <<>>) /\ ~ SignatureA(v).sign /\ SignatureA(v).data = <<v>>
    OBVIOUS
  <2>1. SignatureA(v) = [at |-> <<>>, type |-> 6, key |-> <<>>, sign |-> FALSE, set |-> FALSE, data |-> <<v>>]
    BY <1>1 DEF SignatureA, Leaf
  <2>2. ~ SignatureA(v).sign
    BY <2>1
  <2>3. Top(SignatureA(v), 6, <<>>) /\ SignatureA(v).data = <<v>> /\ ~ SignatureA(v).set
    BY <1>2, <2>1, LeafTop
  <2> QED BY <2>2, <2>3
<1> QED BY <1>3, <1>4, <1>5, <1>6, <1>7

(* The attributes of a peer. *)
LEMMA PeerAttrs ==
    ASSUME NEW p \in Peers
    PROVE  /\ Top(PeerAttr(p), 2, p) /\ PeerAttr(p).sign /\ PeerAttr(p).set
           /\ MetricAttr(p) \in Attribute /\ MetricAttr(p).at = <<<<2, p>>>> /\ MetricAttr(p).type = 1
           /\ FlagsAttr(p) \in Attribute /\ FlagsAttr(p).at = <<<<2, p>>>> /\ FlagsAttr(p).type = 2
           /\ Where(MetricAttr(p))[1] = <<2, p>> /\ Where(FlagsAttr(p))[1] = <<2, p>>
           /\ Where(PeerAttr(p))[1] = <<2, p>>
<1>1. LSA_ATTR_TYPE.PEER = 2 /\ LSA_PEER_ATTR_TYPE.METRIC = 1 /\ LSA_PEER_ATTR_TYPE.PEER_FLAGS = 2
  BY DEF LSA_ATTR_TYPE, LSA_PEER_ATTR_TYPE
<1>2. p \in Bytes /\ Metric[p] \in Bytes /\ PeerFlags[p] \in Bytes /\ <<>> \in Bytes
  BY NodeAssumption DEF Bytes
<1>3. PeerAttr(p) = [at |-> <<>>, type |-> 2, key |-> p, sign |-> TRUE, set |-> TRUE, data |-> <<>>]
  BY <1>1 DEF PeerAttr, Node
<1>4. Where(PeerAttr(p)) = <<<<2, p>>>>
  BY <1>3 DEF Where
<1>5. <<>> \in Seq(Nat \X Bytes) /\ <<2, p>> \in Nat \X Bytes /\ <<<<2, p>>>> \in Seq(Nat \X Bytes)
  BY <1>2
<1>6. PeerAttr(p) \in Attribute
  BY <1>2, <1>3, <1>5 DEF Attribute
<1>7. /\ MetricAttr(p) = [at |-> <<<<2, p>>>>, type |-> 1, key |-> <<>>, sign |-> TRUE, set |-> FALSE, data |-> Metric[p]]
      /\ FlagsAttr(p) = [at |-> <<<<2, p>>>>, type |-> 2, key |-> <<>>, sign |-> TRUE, set |-> FALSE, data |-> PeerFlags[p]]
  BY <1>1, <1>4 DEF MetricAttr, FlagsAttr, Leaf
<1>8. MetricAttr(p) \in Attribute /\ FlagsAttr(p) \in Attribute
  BY <1>2, <1>5, <1>7 DEF Attribute
<1>9. Where(MetricAttr(p))[1] = <<2, p>> /\ Where(FlagsAttr(p))[1] = <<2, p>>
  BY <1>7 DEF Where
<1>10. PeerAttr(p).at = <<>> /\ PeerAttr(p).type = 2 /\ PeerAttr(p).key = p /\ PeerAttr(p).sign
       /\ PeerAttr(p).set
  BY <1>3
<1>11. /\ MetricAttr(p).at = <<<<2, p>>>> /\ MetricAttr(p).type = 1
       /\ FlagsAttr(p).at = <<<<2, p>>>> /\ FlagsAttr(p).type = 2
  BY <1>7
<1>12. Top(PeerAttr(p), 2, p) /\ PeerAttr(p).sign
  BY <1>4, <1>6, <1>10 DEF Top
<1>13. Where(PeerAttr(p))[1] = <<2, p>>
  BY <1>4
<1> QED BY <1>8, <1>9, <1>10, <1>11, <1>12, <1>13

(* What V, G, S and path may be. *)
IsOwn(V, G, S, path) ==
    /\ V = {} \/ \E v \in Nat : V = {VersionA(v)}
    /\ G = {} \/ \E v \in Nat : G = {SignatureA(v)}
    /\ S \subseteq Peers /\ path \in Bytes

(* Attributes of a peer of S. *)
LEMMA InPeersOf ==
    ASSUME NEW S, NEW a
    PROVE  a \in PeersOf(S) <=> \E p \in S : a \in {PeerAttr(p), MetricAttr(p), FlagsAttr(p)}
BY DEF PeersOf

(* The attributes one by one. *)
LEMMA OwnCases ==
    ASSUME NEW V, NEW G, NEW S, NEW path, IsOwn(V, G, S, path), NEW a \in Own(V, G, S, path)
    PROVE  \/ a = PathA(path) /\ Top(a, 1, <<>>) /\ ~ a.sign
           \/ a \in Names /\ Top(a, 3, <<>>) /\ a.sign
           \/ a = KeyA /\ Top(a, 5, <<>>) /\ a.sign
           \/ a \in V /\ Top(a, 4, <<>>) /\ a.sign
           \/ a \in G /\ Top(a, 6, <<>>) /\ ~ a.sign
           \/ \E p \in S : a = PeerAttr(p) /\ Top(a, 2, p) /\ a.sign /\ a.set
           \/ \E p \in S : /\ a \in {MetricAttr(p), FlagsAttr(p)} /\ a \in Attribute
                           /\ a.at # <<>> /\ Where(a)[1] = <<2, p>>
<1>1. \/ a \in {PathA(path), KeyA} \cup Names \/ a \in V \/ a \in G \/ a \in PeersOf(S)
  BY DEF Own
<1>2. CASE a \in {PathA(path), KeyA} \cup Names
  BY <1>2, RootAttrs DEF IsOwn
<1>3. CASE a \in V
  <2>1. PICK v \in Nat : V = {VersionA(v)}
    BY <1>3 DEF IsOwn
  <2> QED BY <1>3, <2>1, RootAttrs
<1>4. CASE a \in G
  <2>1. PICK v \in Nat : G = {SignatureA(v)}
    BY <1>4 DEF IsOwn
  <2> QED BY <1>4, <2>1, RootAttrs
<1>5. CASE a \in PeersOf(S)
  <2>1. PICK p \in S : a \in {PeerAttr(p), MetricAttr(p), FlagsAttr(p)}
    BY <1>5, InPeersOf
  <2>2. p \in Peers
    BY DEF IsOwn
  <2>3. CASE a = PeerAttr(p)
    BY <2>2, <2>3, PeerAttrs
  <2>4. CASE a \in {MetricAttr(p), FlagsAttr(p)}
    <3>1. <<<<2, p>>>> # <<>>
      OBVIOUS
    <3>2. a \in Attribute /\ a.at # <<>> /\ Where(a)[1] = <<2, p>>
      BY <2>2, <2>4, <3>1, PeerAttrs
    <3> QED BY <2>4, <3>2
  <2> QED BY <2>1, <2>3, <2>4
<1> QED BY <1>1, <1>2, <1>3, <1>4, <1>5

(* They are finitely many. *)
LEMMA OwnSet ==
    ASSUME NEW V, NEW G, NEW S, NEW path, IsOwn(V, G, S, path)
    PROVE  AttrSet(Own(V, G, S, path))
<1> DEFINE B == {s \in SUBSET Peers : IsFiniteSet(PeersOf(s))}
<1>1. ASSUME NEW s \in SUBSET Peers, \A t \in SUBSET s : t # s => t \in B
      PROVE  s \in B
  <2>1. CASE s = {}
    <3>1. PeersOf(s) = {}
      BY <2>1, InPeersOf
    <3> QED BY <3>1, FS_EmptySet
  <2>2. CASE s # {}
    <3>1. PICK p \in s : TRUE
      BY <2>2
    <3> DEFINE t == s \ {p}
               u == PeersOf(t)
    <3>2. IsFiniteSet(u)
      BY <1>1
    <3>3. PeersOf(s) = ((u \cup {PeerAttr(p)}) \cup {MetricAttr(p)}) \cup {FlagsAttr(p)}
      BY InPeersOf
    <3> HIDE DEF u
    <3>4. IsFiniteSet(((u \cup {PeerAttr(p)}) \cup {MetricAttr(p)}) \cup {FlagsAttr(p)})
      <4> DEFINE u1 == u \cup {PeerAttr(p)}
                 u2 == u1 \cup {MetricAttr(p)}
      <4>1. IsFiniteSet(u1)
        BY <3>2, FS_AddElement
      <4>2. IsFiniteSet(u2)
        <5> HIDE DEF u1
        <5> QED BY <4>1, FS_AddElement
      <4>3. IsFiniteSet(u2 \cup {FlagsAttr(p)})
        <5> HIDE DEF u2
        <5> QED BY <4>2, FS_AddElement
      <4> QED BY <4>3
    <3> QED BY <3>3, <3>4
  <2> QED BY <2>1, <2>2
<1>2. SUBSET Peers \subseteq B
  <2>1. IsFiniteSet(Peers)
    BY NodeAssumption
  <2> HIDE DEF B
  <2> QED BY <1>1, <2>1, SubsetInduction
<1>3. IsFiniteSet(PeersOf(S))
  BY <1>2 DEF IsOwn
<1>4. IsFiniteSet(V) /\ IsFiniteSet(G) /\ IsFiniteSet({PathA(path), KeyA} \cup Names)
  <2>1. {PathA(path), KeyA} \cup Names = (Names \cup {PathA(path)}) \cup {KeyA}
    OBVIOUS
  <2>2. IsFiniteSet(Names)
    <3>1. Names = {} \/ Names = {NameA}
      BY DEF Names
    <3>2. IsFiniteSet({NameA})
      BY FS_Singleton
    <3> QED BY <3>1, <3>2, FS_EmptySet
  <2>3. IsFiniteSet(Names \cup {PathA(path)})
    BY <2>2, FS_AddElement
  <2>4. IsFiniteSet((Names \cup {PathA(path)}) \cup {KeyA})
    BY <2>3, FS_AddElement
  <2>5. IsFiniteSet(V)
    BY FS_EmptySet, FS_Singleton, ZenonT(60) DEF IsOwn
  <2>6. IsFiniteSet(G)
    BY FS_EmptySet, FS_Singleton, ZenonT(60) DEF IsOwn
  <2> QED BY <2>1, <2>4, <2>5, <2>6
<1>5. IsFiniteSet(Own(V, G, S, path))
  <2> DEFINE R == {PathA(path), KeyA} \cup Names
  <2>1. IsFiniteSet(R \cup V)
    BY <1>4, FS_Union
  <2>2. IsFiniteSet(R \cup V \cup G)
    <3> HIDE DEF R
    <3> QED BY <1>4, <2>1, FS_Union
  <2>3. IsFiniteSet((R \cup V \cup G) \cup PeersOf(S))
    <3> HIDE DEF R
    <3> QED BY <1>3, <2>2, FS_Union
  <2> QED BY <2>3 DEF Own
<1>6. Own(V, G, S, path) \subseteq Attribute
  BY OwnCases DEF Top
<1> QED BY <1>5, <1>6 DEF AttrSet

(* Where they are, for short. *)
LEMMA OwnFirst ==
    ASSUME NEW V, NEW G, NEW S, NEW path, IsOwn(V, G, S, path), NEW a \in Own(V, G, S, path)
    PROVE  /\ Where(a)[1] = <<4, <<>>>> <=> a \in V
           /\ Where(a)[1] = <<6, <<>>>> <=> a \in G
           /\ \A p : Where(a)[1] = <<2, p>> <=> p \in S /\ a \in {PeerAttr(p), MetricAttr(p), FlagsAttr(p)}
<1>1. ASSUME NEW t, NEW k, Top(a, t, k) PROVE Where(a)[1] = <<t, k>>
  BY <1>1 DEF Top
<1>2. CASE a \in V
  <2>1. PICK v \in Nat : V = {VersionA(v)}
    BY <1>2 DEF IsOwn
  <2>2. Where(a)[1] = <<4, <<>>>>
    BY <1>1, <1>2, <2>1, RootAttrs
  <2>3. a \notin G
    BY <1>2, <2>1, RootAttrs DEF IsOwn, Top
  <2>4. ASSUME NEW p \in S PROVE a \notin {PeerAttr(p), MetricAttr(p), FlagsAttr(p)}
    <3>1. p \in Peers
      BY DEF IsOwn
    <3>2. /\ Where(PeerAttr(p))[1] = <<2, p>> /\ Where(MetricAttr(p))[1] = <<2, p>>
          /\ Where(FlagsAttr(p))[1] = <<2, p>>
      BY <3>1, PeerAttrs
    <3> QED BY <2>2, <3>2
  <2> QED BY <1>2, <2>2, <2>3, <2>4
<1>3. CASE a \in G
  <2>1. PICK v \in Nat : G = {SignatureA(v)}
    BY <1>3 DEF IsOwn
  <2>2. Where(a)[1] = <<6, <<>>>>
    BY <1>1, <1>3, <2>1, RootAttrs
  <2>3. a \notin V
    BY <1>3, <2>1, RootAttrs DEF IsOwn, Top
  <2>4. ASSUME NEW p \in S PROVE a \notin {PeerAttr(p), MetricAttr(p), FlagsAttr(p)}
    <3>1. p \in Peers
      BY DEF IsOwn
    <3>2. /\ Where(PeerAttr(p))[1] = <<2, p>> /\ Where(MetricAttr(p))[1] = <<2, p>>
          /\ Where(FlagsAttr(p))[1] = <<2, p>>
      BY <3>1, PeerAttrs
    <3> QED BY <2>2, <3>2
  <2> QED BY <1>3, <2>2, <2>3, <2>4
<1>4. CASE a \notin V /\ a \notin G
  <2>1. ASSUME NEW p \in S, a \in {PeerAttr(p), MetricAttr(p), FlagsAttr(p)} PROVE Where(a)[1] = <<2, p>>
    <3>1. p \in Peers
      BY DEF IsOwn
    <3>2. /\ Where(PeerAttr(p))[1] = <<2, p>> /\ Where(MetricAttr(p))[1] = <<2, p>>
          /\ Where(FlagsAttr(p))[1] = <<2, p>>
      BY <3>1, PeerAttrs
    <3> QED BY <2>1, <3>2
  <2>2. CASE \E t \in {1, 3, 5} : Where(a)[1] = <<t, <<>>>>
    BY <1>4, <2>1, <2>2
  <2>3. CASE \E p \in S : a \in {PeerAttr(p), MetricAttr(p), FlagsAttr(p)}
    BY <1>4, <2>1, <2>3
  <2>4. \/ Top(a, 1, <<>>) \/ Top(a, 3, <<>>) \/ Top(a, 5, <<>>)
        \/ \E p \in S : a \in {PeerAttr(p), MetricAttr(p), FlagsAttr(p)}
    <3>1. a \in {PathA(path), KeyA} \cup Names \/ a \in PeersOf(S)
      BY <1>4 DEF Own
    <3> QED BY <3>1, InPeersOf, RootAttrs DEF IsOwn
  <2> QED BY <1>1, <2>2, <2>3, <2>4
<1> QED BY <1>2, <1>3, <1>4

(* Attributes of the root found by type and key. *)
LEMMA OwnFind ==
    ASSUME NEW V, NEW G, NEW S, NEW path, IsOwn(V, G, S, path), NEW l, l.attrs = Own(V, G, S, path)
    PROVE  /\ lsa_find_attr(l, 1, <<>>) = {PathA(path)}
           /\ lsa_find_attr(l, 4, <<>>) = V
           /\ lsa_find_attr(l, 6, <<>>) = G
           /\ \A p : lsa_find_attr(l, 2, p) = IF p \in S THEN {PeerAttr(p)} ELSE {}
<1> DEFINE A == Own(V, G, S, path)
<1>1. \A t, k : lsa_find_attr(l, t, k) = {a \in A : a.at = <<>> /\ a.type = t /\ a.key = k}
  BY DEF lsa_find_attr, lsa_attr_set_find_attr
<1>2. \A a \in A : \/ a = PathA(path) /\ a.at = <<>> /\ a.type = 1 /\ a.key = <<>>
                   \/ a.type \in {3, 5} /\ a.at = <<>>
                   \/ a \in V /\ a.at = <<>> /\ a.type = 4 /\ a.key = <<>>
                   \/ a \in G /\ a.at = <<>> /\ a.type = 6 /\ a.key = <<>>
                   \/ \E p \in S : a = PeerAttr(p) /\ a.at = <<>> /\ a.type = 2 /\ a.key = p
                   \/ a.at # <<>>
  <2>1. ASSUME NEW a \in A
        PROVE  \/ a = PathA(path) /\ a.at = <<>> /\ a.type = 1 /\ a.key = <<>>
               \/ a.type \in {3, 5} /\ a.at = <<>>
               \/ a \in V /\ a.at = <<>> /\ a.type = 4 /\ a.key = <<>>
               \/ a \in G /\ a.at = <<>> /\ a.type = 6 /\ a.key = <<>>
               \/ \E p \in S : a = PeerAttr(p) /\ a.at = <<>> /\ a.type = 2 /\ a.key = p
               \/ a.at # <<>>
    <3>2. \/ a = PathA(path) /\ Top(a, 1, <<>>)
          \/ Top(a, 3, <<>>) \/ Top(a, 5, <<>>)
          \/ a \in V /\ Top(a, 4, <<>>)
          \/ a \in G /\ Top(a, 6, <<>>)
          \/ \E p \in S : a = PeerAttr(p) /\ Top(a, 2, p)
          \/ a.at # <<>>
      <4> HIDE DEF A
      <4>1. a \in Own(V, G, S, path)
        BY DEF A
      <4> QED BY <4>1, OwnCases
    <3>3. CASE \E p \in S : a = PeerAttr(p) /\ Top(a, 2, p)
      BY <3>3 DEF Top
    <3> QED BY <3>2, <3>3 DEF Top
  <2> QED BY <2>1
<1>3. PathA(path) \in A /\ V \subseteq A /\ G \subseteq A /\ \A p \in S : PeerAttr(p) \in A
  BY InPeersOf DEF Own
<1>4. /\ PathA(path).at = <<>> /\ PathA(path).type = 1 /\ PathA(path).key = <<>>
      /\ \A a \in V : a.at = <<>> /\ a.type = 4 /\ a.key = <<>>
      /\ \A a \in G : a.at = <<>> /\ a.type = 6 /\ a.key = <<>>
      /\ \A p \in S : PeerAttr(p).at = <<>> /\ PeerAttr(p).type = 2 /\ PeerAttr(p).key = p
  <2>1. PathA(path).at = <<>> /\ PathA(path).type = 1 /\ PathA(path).key = <<>>
    BY RootAttrs DEF Top, IsOwn
  <2>2. \A a \in V : a.at = <<>> /\ a.type = 4 /\ a.key = <<>>
    BY RootAttrs DEF Top, IsOwn
  <2>3. \A a \in G : a.at = <<>> /\ a.type = 6 /\ a.key = <<>>
    BY RootAttrs DEF Top, IsOwn
  <2>4. ASSUME NEW p \in S PROVE PeerAttr(p).at = <<>> /\ PeerAttr(p).type = 2 /\ PeerAttr(p).key = p
    <3>1. p \in Peers
      BY DEF IsOwn
    <3> QED BY <3>1, PeerAttrs DEF Top
  <2> QED BY <2>1, <2>2, <2>3, <2>4
<1> HIDE DEF A
<1>5. lsa_find_attr(l, 1, <<>>) = {PathA(path)}
  BY <1>1, <1>2, <1>3, <1>4
<1>6. lsa_find_attr(l, 4, <<>>) = V
  <2>1. ASSUME NEW a \in lsa_find_attr(l, 4, <<>>) PROVE a \in V
    <3>1. a \in A /\ a.at = <<>> /\ a.type = 4
      BY <1>1
    <3> QED BY <1>2, <3>1
  <2>2. ASSUME NEW a \in V PROVE a \in lsa_find_attr(l, 4, <<>>)
    BY <1>1, <1>3, <1>4
  <2> QED BY <2>1, <2>2
<1>7. lsa_find_attr(l, 6, <<>>) = G
  <2>1. ASSUME NEW a \in lsa_find_attr(l, 6, <<>>) PROVE a \in G
    <3>1. a \in A /\ a.at = <<>> /\ a.type = 6
      BY <1>1
    <3> QED BY <1>2, <3>1
  <2>2. ASSUME NEW a \in G PROVE a \in lsa_find_attr(l, 6, <<>>)
    BY <1>1, <1>3, <1>4
  <2> QED BY <2>1, <2>2
<1>8. ASSUME NEW p PROVE lsa_find_attr(l, 2, p) = IF p \in S THEN {PeerAttr(p)} ELSE {}
  BY <1>1, <1>2, <1>3, <1>4
<1> QED BY <1>5, <1>6, <1>7, <1>8

(* The own attributes without those under one of the root. *)
LEMMA OwnMinus ==
    ASSUME NEW V, NEW G, NEW S, NEW path, IsOwn(V, G, S, path)
    PROVE  /\ Without(Own(V, G, S, path), 4, <<>>) = Own({}, G, S, path)
           /\ Without(Own(V, G, S, path), 6, <<>>) = Own(V, {}, S, path)
           /\ \A p : Without(Own(V, G, S, path), 2, p) = Own(V, G, S \ {p}, path)
           /\ IsOwn({}, G, S, path) /\ IsOwn(V, {}, S, path) /\ \A p : IsOwn(V, G, S \ {p}, path)
<1> DEFINE A == Own(V, G, S, path)
<1>1. IsOwn({}, G, S, path) /\ IsOwn(V, {}, S, path) /\ \A p : IsOwn(V, G, S \ {p}, path)
  BY DEF IsOwn
<1>2. \A b \in A : /\ Where(b)[1] = <<4, <<>>>> <=> b \in V
                   /\ Where(b)[1] = <<6, <<>>>> <=> b \in G
                   /\ \A p : Where(b)[1] = <<2, p>> <=> p \in S /\ b \in {PeerAttr(p), MetricAttr(p), FlagsAttr(p)}
  BY OwnFirst
<1>3. Without(A, 4, <<>>) = Own({}, G, S, path)
  <2>1. \A b \in Own({}, G, S, path) : Where(b)[1] # <<4, <<>>>>
    BY <1>1, OwnFirst
  <2>2. Own({}, G, S, path) \subseteq A /\ A \subseteq Own({}, G, S, path) \cup V
    BY DEF Own
  <2> HIDE DEF A
  <2> QED BY <1>2, <2>1, <2>2 DEF Without
<1>4. Without(A, 6, <<>>) = Own(V, {}, S, path)
  <2>1. \A b \in Own(V, {}, S, path) : Where(b)[1] # <<6, <<>>>>
    BY <1>1, OwnFirst
  <2>2. Own(V, {}, S, path) \subseteq A /\ A \subseteq Own(V, {}, S, path) \cup G
    BY DEF Own
  <2> HIDE DEF A
  <2> QED BY <1>2, <2>1, <2>2 DEF Without
<1>5. ASSUME NEW p PROVE Without(A, 2, p) = Own(V, G, S \ {p}, path)
  <2>1. \A b \in Own(V, G, S \ {p}, path) : Where(b)[1] # <<2, p>>
    <3> DEFINE Z == S \ {p}
    <3>1. IsOwn(V, G, Z, path) /\ p \notin Z
      BY <1>1
    <3> HIDE DEF Z
    <3>2. \A b \in Own(V, G, Z, path) : Where(b)[1] # <<2, p>>
      BY <3>1, OwnFirst
    <3> QED BY <3>2 DEF Z
  <2>2. PeersOf(S \ {p}) \subseteq PeersOf(S)
    BY InPeersOf
  <2>3. \A b \in PeersOf(S) : b \in PeersOf(S \ {p}) \/ (p \in S /\ b \in {PeerAttr(p), MetricAttr(p), FlagsAttr(p)})
    BY InPeersOf
  <2>4. Own(V, G, S \ {p}, path) \subseteq A
    BY <2>2 DEF Own
  <2>5. \A b \in A : b \in Own(V, G, S \ {p}, path) \/ (p \in S /\ b \in {PeerAttr(p), MetricAttr(p), FlagsAttr(p)})
    BY <2>3 DEF Own
  <2> HIDE DEF A
  <2> QED BY <1>2, <2>1, <2>4, <2>5 DEF Without
<1> QED BY <1>1, <1>3, <1>4, <1>5

(* The LSA itself. *)
OwnLsa(V, G, S, path) == FreshLsa(Me, Own(V, G, S, path))

(* Its version and its signature are taken out and put in. *)
LEMMA OwnDel ==
    ASSUME NEW V, NEW G, NEW S, NEW path, IsOwn(V, G, S, path)
    PROVE  /\ V # {} => lsa_del_attr_bykey(OwnLsa(V, G, S, path), 4, <<>>) = OwnLsa({}, G, S, path)
           /\ G # {} => lsa_del_attr_bykey(OwnLsa(V, G, S, path), 6, <<>>) = OwnLsa(V, {}, S, path)
           /\ \A p \in S : lsa_del_attr_bykey(OwnLsa(V, G, S, path), 2, p) = OwnLsa(V, G, S \ {p}, path)
<1> DEFINE A == Own(V, G, S, path)
<1>1. AttrSet(A) /\ Me \in Bytes
  BY OwnSet, NodeAssumption
<1>2. PathA(path) \in A /\ V \subseteq A /\ G \subseteq A /\ \A p \in S : PeerAttr(p) \in A
  BY InPeersOf DEF Own
<1>3. OwnLsa(V, G, S, path) = FreshLsa(Me, A)
  BY DEF OwnLsa
<1>4. ASSUME V # {} PROVE lsa_del_attr_bykey(OwnLsa(V, G, S, path), 4, <<>>) = OwnLsa({}, G, S, path)
  <2>1. PICK a \in V : a.at = <<>> /\ a.type = 4 /\ a.key = <<>>
    BY <1>4, RootAttrs DEF IsOwn, Top
  <2>2. Without(A, 4, <<>>) = Own({}, G, S, path)
    BY OwnMinus
  <2> HIDE DEF A
  <2>3. a \in A
    BY <1>2
  <2>4. lsa_del_attr_bykey(FreshLsa(Me, A), 4, <<>>) = FreshLsa(Me, Without(A, 4, <<>>))
    BY <1>1, <2>1, <2>3, DelFromFresh
  <2> QED BY <1>3, <2>2, <2>4 DEF OwnLsa
<1>5. ASSUME G # {} PROVE lsa_del_attr_bykey(OwnLsa(V, G, S, path), 6, <<>>) = OwnLsa(V, {}, S, path)
  <2>1. PICK a \in G : a.at = <<>> /\ a.type = 6 /\ a.key = <<>>
    BY <1>5, RootAttrs DEF IsOwn, Top
  <2>2. Without(A, 6, <<>>) = Own(V, {}, S, path)
    BY OwnMinus
  <2> HIDE DEF A
  <2>3. a \in A
    BY <1>2
  <2>4. lsa_del_attr_bykey(FreshLsa(Me, A), 6, <<>>) = FreshLsa(Me, Without(A, 6, <<>>))
    BY <1>1, <2>1, <2>3, DelFromFresh
  <2> QED BY <1>3, <2>2, <2>4 DEF OwnLsa
<1>6. ASSUME NEW p \in S
      PROVE  lsa_del_attr_bykey(OwnLsa(V, G, S, path), 2, p) = OwnLsa(V, G, S \ {p}, path)
  <2>1. p \in Peers /\ PeerAttr(p) \in A
    BY <1>2 DEF IsOwn
  <2>2. PeerAttr(p).at = <<>> /\ PeerAttr(p).type = 2 /\ PeerAttr(p).key = p
    BY <2>1, PeerAttrs DEF Top
  <2>3. Without(A, 2, p) = Own(V, G, S \ {p}, path)
    <3>1. \A q : Without(A, 2, q) = Own(V, G, S \ {q}, path)
      BY OwnMinus
    <3> QED BY <3>1
  <2> HIDE DEF A
  <2>4. lsa_del_attr_bykey(FreshLsa(Me, A), 2, p) = FreshLsa(Me, Without(A, 2, p))
    <3> DEFINE a == PeerAttr(p)
    <3>1. a \in A /\ a.at = <<>> /\ a.type = 2 /\ a.key = p
      BY <2>1, <2>2
    <3> HIDE DEF a
    <3> QED BY <1>1, <3>1, DelFromFresh
  <2> QED BY <1>3, <2>3, <2>4 DEF OwnLsa
<1> QED BY <1>4, <1>5, <1>6

(* What is put in is not there yet. *)
LEMMA OwnAdd ==
    ASSUME NEW V, NEW G, NEW S, NEW path, IsOwn(V, G, S, path)
    PROVE  /\ V = {} => \A v \in Nat :
                AddAttr(OwnLsa(V, G, S, path), VersionA(v)) = OwnLsa({VersionA(v)}, G, S, path)
           /\ G = {} => \A v \in Nat :
                AddAttr(OwnLsa(V, G, S, path), SignatureA(v)) = OwnLsa(V, {SignatureA(v)}, S, path)
           /\ \A p \in Peers \ S : WithPeer(OwnLsa(V, G, S, path), p) = OwnLsa(V, G, S \cup {p}, path)
<1> DEFINE A == Own(V, G, S, path)
           l == FreshLsa(Me, A)
<1>1. AttrSet(A) /\ Me \in Bytes
  BY OwnSet, NodeAssumption
<1>2. l.attrs = A
  <2> HIDE DEF A
  <2> QED BY <1>1, FreshType
<1>3. /\ lsa_find_attr(l, 4, <<>>) = V /\ lsa_find_attr(l, 6, <<>>) = G
      /\ \A p : lsa_find_attr(l, 2, p) = IF p \in S THEN {PeerAttr(p)} ELSE {}
  <2> HIDE DEF l
  <2> QED BY <1>2, OwnFind
<1>4. OwnLsa(V, G, S, path) = l
  BY DEF OwnLsa
<1>5. \A t, k : lsa_find_attr(l, t, k) = {a \in A : a.at = <<>> /\ a.type = t /\ a.key = k}
  <2> HIDE DEF l
  <2> QED BY <1>2 DEF lsa_find_attr, lsa_attr_set_find_attr
<1>6. ASSUME V = {}, NEW v \in Nat
      PROVE  AddAttr(l, VersionA(v)) = OwnLsa({VersionA(v)}, G, S, path)
  <2> DEFINE a == VersionA(v)
  <2>1. a \in Attribute /\ a.at = <<>> /\ a.type = 4 /\ a.key = <<>>
    BY RootAttrs DEF Top
  <2>2. A \cup {a} = Own({a}, G, S, path)
    BY <1>6 DEF Own
  <2> HIDE DEF A, a, l
  <2>3. \A b \in A : ~ (b.at = a.at /\ b.type = a.type /\ b.key = a.key)
    <3>1. lsa_find_attr(l, 4, <<>>) = {}
      BY <1>3, <1>6
    <3>2. {b \in A : b.at = <<>> /\ b.type = 4 /\ b.key = <<>>} = {}
      BY <1>5, <3>1
    <3> QED BY <2>1, <3>2
  <2>4. AddAttr(FreshLsa(Me, A), a) = FreshLsa(Me, A \cup {a})
    BY <1>1, <2>1, <2>3, AddToFresh
  <2> QED BY <2>2, <2>4 DEF a, l, OwnLsa
<1>7. ASSUME G = {}, NEW v \in Nat
      PROVE  AddAttr(l, SignatureA(v)) = OwnLsa(V, {SignatureA(v)}, S, path)
  <2> DEFINE a == SignatureA(v)
  <2>1. a \in Attribute /\ a.at = <<>> /\ a.type = 6 /\ a.key = <<>>
    BY RootAttrs DEF Top
  <2>2. A \cup {a} = Own(V, {a}, S, path)
    BY <1>7 DEF Own
  <2> HIDE DEF A, a, l
  <2>3. \A b \in A : ~ (b.at = a.at /\ b.type = a.type /\ b.key = a.key)
    <3>1. lsa_find_attr(l, 6, <<>>) = {}
      BY <1>3, <1>7
    <3>2. {b \in A : b.at = <<>> /\ b.type = 6 /\ b.key = <<>>} = {}
      BY <1>5, <3>1
    <3> QED BY <2>1, <3>2
  <2>4. AddAttr(FreshLsa(Me, A), a) = FreshLsa(Me, A \cup {a})
    BY <1>1, <2>1, <2>3, AddToFresh
  <2> QED BY <2>2, <2>4 DEF a, l, OwnLsa
<1>8. ASSUME NEW p \in Peers \ S
      PROVE  WithPeer(l, p) = OwnLsa(V, G, S \cup {p}, path)
  <2> DEFINE a == PeerAttr(p)
             m == MetricAttr(p)
             f == FlagsAttr(p)
             at == <<<<2, p>>>>
             A1 == A \cup {a}
             A2 == A1 \cup {m}
             A3 == A2 \cup {f}
  <2>1. /\ a \in Attribute /\ a.at = <<>> /\ a.type = 2 /\ a.key = p
        /\ m \in Attribute /\ m.at = at /\ m.type = 1
        /\ f \in Attribute /\ f.at = at /\ f.type = 2
    BY PeerAttrs DEF Top
  <2>2. at # <<>>
    OBVIOUS
  <2>3. \A b \in A : b.at # at
    <3> SUFFICES ASSUME NEW b \in A, b.at = at PROVE FALSE
      OBVIOUS
    <3>1. Where(b)[1] = <<2, p>>
      BY DEF Where
    <3>2. \A q : Where(b)[1] = <<2, q>> => q \in S
      BY OwnFirst
    <3> QED BY <3>1, <3>2
  <2>4. A3 = Own(V, G, S \cup {p}, path)
    <3>1. PeersOf(S \cup {p}) = PeersOf(S) \cup {a, m, f}
      BY InPeersOf
    <3> QED BY <3>1 DEF Own
  <2> HIDE DEF A, a, m, f, l, at
  <2>5. AttrSet(A1) /\ AddAttr(l, a) = FreshLsa(Me, A1)
    <3>1. \A b \in A : ~ (b.at = a.at /\ b.type = a.type /\ b.key = a.key)
      <4>1. lsa_find_attr(l, 2, p) = {}
        BY <1>3
      <4>2. {b \in A : b.at = <<>> /\ b.type = 2 /\ b.key = p} = {}
        BY <1>5, <4>1
      <4> QED BY <2>1, <4>2
    <3> QED BY <1>1, <2>1, <3>1, AddToFresh DEF l
  <2>6. \A b \in A1 : b.at # at
    BY <2>1, <2>2, <2>3
  <2>7. AttrSet(A2) /\ AddAttr(FreshLsa(Me, A1), m) = FreshLsa(Me, A2)
    <3> HIDE DEF A1
    <3>1. \A b \in A1 : ~ (b.at = m.at /\ b.type = m.type /\ b.key = m.key)
      BY <2>1, <2>6
    <3> QED BY <1>1, <2>1, <2>5, <3>1, AddToFresh
  <2>8. AttrSet(A3) /\ AddAttr(FreshLsa(Me, A2), f) = FreshLsa(Me, A3)
    <3>1. \A b \in A2 : ~ (b.at = f.at /\ b.type = f.type /\ b.key = f.key)
      <4> HIDE DEF A1
      <4> QED BY <2>1, <2>6
    <3> HIDE DEF A2
    <3> QED BY <1>1, <2>1, <2>7, <3>1, AddToFresh
  <2>9. WithPeer(l, p) = AddAttr(AddAttr(AddAttr(l, a), m), f)
    BY DEF WithPeer, a, m, f
  <2> HIDE DEF A1, A2, A3
  <2> QED BY <2>4, <2>5, <2>7, <2>8, <2>9 DEF OwnLsa
<1> HIDE DEF l
<1> QED BY <1>4, <1>6, <1>7, <1>8

(* lsa_find_attr() and what is read with it. *)
LEMMA OwnData ==
    ASSUME NEW V, NEW G, NEW S, NEW path, IsOwn(V, G, S, path), NEW l, l.attrs = Own(V, G, S, path)
    PROVE  /\ Has(l, LSA_ATTR_TYPE.ADV_PATH) /\ Path(l) = path
           /\ \A v \in Nat : V = {VersionA(v)} => Version(l) = v
           /\ \A v \in Nat : G = {SignatureA(v)} => Signature(l) = <<v>>
           /\ Has(l, LSA_ATTR_TYPE.SIGNATURE) <=> G # {}
<1>1. LSA_ATTR_TYPE.ADV_PATH = 1 /\ LSA_ATTR_TYPE.VERSION = 4 /\ LSA_ATTR_TYPE.SIGNATURE = 6
  BY DEF LSA_ATTR_TYPE
<1>2. /\ lsa_find_attr(l, 1, <<>>) = {PathA(path)}
      /\ lsa_find_attr(l, 4, <<>>) = V /\ lsa_find_attr(l, 6, <<>>) = G
  BY OwnFind
<1>3. \A x : (CHOOSE a \in {x} : TRUE) = x
  OBVIOUS
<1>4. Has(l, LSA_ATTR_TYPE.ADV_PATH) /\ Path(l) = path
  <2>1. PathA(path).data = path
    BY RootAttrs DEF IsOwn
  <2>2. Path(l) = (CHOOSE a \in {PathA(path)} : TRUE).data
    BY <1>1, <1>2 DEF Path, Data
  <2>3. Has(l, LSA_ATTR_TYPE.ADV_PATH)
    BY <1>1, <1>2 DEF Has
  <2> QED BY <1>3, <2>1, <2>2, <2>3
<1>5. ASSUME NEW v \in Nat, V = {VersionA(v)} PROVE Version(l) = v
  <2>1. VersionA(v).data = <<v>>
    BY RootAttrs
  <2>2. Version(l) = (CHOOSE a \in {VersionA(v)} : TRUE).data[1]
    BY <1>1, <1>2, <1>5 DEF Version, Data
  <2>3. Version(l) = <<v>>[1]
    BY <1>3, <2>1, <2>2
  <2> QED BY <2>3
<1>6. ASSUME NEW v \in Nat, G = {SignatureA(v)} PROVE Signature(l) = <<v>>
  <2>1. SignatureA(v).data = <<v>>
    BY RootAttrs
  <2>2. Signature(l) = (CHOOSE a \in {SignatureA(v)} : TRUE).data
    BY <1>1, <1>2, <1>6 DEF Signature, Data
  <2> QED BY <1>3, <2>1, <2>2
<1>7. Has(l, LSA_ATTR_TYPE.SIGNATURE) <=> G # {}
  BY <1>1, <1>2 DEF Has
<1> QED BY <1>4, <1>5, <1>6, <1>7

---------------------------------------------------------------------------
(* The own LSA on the wire.                                                *)

(* The own attributes but the path. *)
Bare(V, G, S) == {KeyA} \cup Names \cup V \cup G \cup PeersOf(S)

(* The path and the rest. *)
LEMMA OwnBare ==
    ASSUME NEW V, NEW G, NEW S, NEW path, IsOwn(V, G, S, path)
    PROVE  /\ Own(V, G, S, path) = Bare(V, G, S) \cup {PathA(path)}
           /\ AttrSet(Bare(V, G, S))
           /\ \A a \in Bare(V, G, S) : ~ (a.at = <<>> /\ a.type = 1)
           /\ PathA(path) \in Attribute /\ PathA(path) \notin Bare(V, G, S)
<1>1. Own(V, G, S, path) = Bare(V, G, S) \cup {PathA(path)}
  BY DEF Own, Bare
<1>2. \A a \in Bare(V, G, S) : ~ (a.at = <<>> /\ a.type = 1)
  <2> SUFFICES ASSUME NEW a \in Bare(V, G, S) PROVE a.at # <<>> \/ a.type # 1
    OBVIOUS
  <2>1. CASE a \in {KeyA} \cup Names
    BY <2>1, RootAttrs DEF Top
  <2>2. CASE a \in V
    BY <2>2, RootAttrs DEF Top, IsOwn
  <2>3. CASE a \in G
    BY <2>3, RootAttrs DEF Top, IsOwn
  <2>4. CASE a \in PeersOf(S)
    <3>1. PICK p \in S : a \in {PeerAttr(p), MetricAttr(p), FlagsAttr(p)}
      BY <2>4, InPeersOf
    <3>2. p \in Peers /\ <<<<2, p>>>> # <<>>
      BY DEF IsOwn
    <3> DEFINE at == <<<<2, p>>>>
    <3>3. /\ PeerAttr(p).type = 2
          /\ MetricAttr(p).at = at /\ FlagsAttr(p).at = at
      BY <3>2, PeerAttrs DEF Top
    <3>4. at # <<>>
      BY <3>2
    <3> HIDE DEF at
    <3>5. CASE a = PeerAttr(p)
      BY <3>3, <3>5
    <3>6. CASE a = MetricAttr(p)
      BY <3>3, <3>4, <3>6
    <3>7. CASE a = FlagsAttr(p)
      BY <3>3, <3>4, <3>7
    <3> QED BY <3>1, <3>5, <3>6, <3>7
  <2> QED BY <2>1, <2>2, <2>3, <2>4 DEF Bare
<1>3. PathA(path) \in Attribute /\ PathA(path).at = <<>> /\ PathA(path).type = 1
  BY RootAttrs DEF Top, IsOwn
<1>4. AttrSet(Bare(V, G, S))
  <2>1. AttrSet(Own(V, G, S, path))
    BY OwnSet
  <2>2. Bare(V, G, S) \in SUBSET Own(V, G, S, path)
    BY <1>1
  <2> QED BY <2>1, <2>2, SizeParts
<1> QED BY <1>1, <1>2, <1>3, <1>4

(* An id put in front of the path, and what the LSA then counts for. *)
LEMMA OwnPrepended ==
    ASSUME NEW V, NEW G, NEW S, NEW path, IsOwn(V, G, S, path), NEW i \in Bytes
    PROVE  /\ IsOwn(V, G, S, i \o path)
           /\ Prepended(Own(V, G, S, path), i) = Own(V, G, S, i \o path)
           /\ AttrsSize(Own(V, G, S, i \o path)) = AttrsSize(Own(V, G, S, path)) + Len(i)
<1> DEFINE B == Bare(V, G, S)
           q == i \o path
           N == MAX_SERIALISED_INT_LEN
<1>1. path \in Bytes /\ q \in Bytes /\ Len(q) = Len(i) + Len(path) /\ Len(i) \in Nat /\ Len(path) \in Nat
  <2>1. path \in Seq(Nat) /\ i \in Seq(Nat)
    BY DEF IsOwn, Bytes
  <2> QED BY <2>1, Joined, LenProperties DEF Bytes
<1>2. IsOwn(V, G, S, q)
  BY <1>1 DEF IsOwn
<1> HIDE DEF q
<1>3. /\ Own(V, G, S, path) = B \cup {PathA(path)} /\ Own(V, G, S, q) = B \cup {PathA(q)}
      /\ AttrSet(B) /\ \A a \in B : ~ (a.at = <<>> /\ a.type = 1)
      /\ PathA(path) \in Attribute /\ PathA(path) \notin B
      /\ PathA(q) \in Attribute /\ PathA(q) \notin B
  BY <1>2, OwnBare
<1>4. \A a \in B : ~ IsPath(a)
  BY <1>3 DEF IsPath, LSA_ATTR_TYPE
<1>5. IsPath(PathA(path)) /\ [PathA(path) EXCEPT !.data = i \o @] = PathA(q)
  <2>1. IsPath(PathA(path))
    BY <1>1, RootAttrs DEF Top, IsPath, LSA_ATTR_TYPE
  <2>2. [PathA(path) EXCEPT !.data = i \o @] = PathA(q)
    <3> DEFINE t == LSA_ATTR_TYPE.ADV_PATH
               f == FALSE
               R(d) == [at |-> <<>>, type |-> t, key |-> <<>>, sign |-> f, set |-> f, data |-> d]
    <3>1. \A d : PathA(d) = R(d)
      BY DEF PathA, Leaf
    <3> HIDE DEF t, f
    <3>2. R(path).data = path
      OBVIOUS
    <3>3. \A d : [R(path) EXCEPT !.data = d] = R(d)
      OBVIOUS
    <3> HIDE DEF R
    <3>4. PathA(path) = R(path) /\ PathA(q) = R(q)
      BY <3>1
    <3>5. [R(path) EXCEPT !.data = i \o @] = R(q)
      BY <3>2, <3>3 DEF q
    <3> QED BY <3>4, <3>5
  <2> QED BY <2>1, <2>2
<1>6. Prepended(Own(V, G, S, path), i) = B \cup {PathA(q)}
  <2> HIDE DEF B
  <2> DEFINE F(a) == IF IsPath(a) THEN [a EXCEPT !.data = i \o @] ELSE a
  <2>1. \A a \in B : F(a) = a
    BY <1>4
  <2>2. F(PathA(path)) = PathA(q)
    BY <1>5
  <2>3. Prepended(Own(V, G, S, path), i) = {F(a) : a \in B \cup {PathA(path)}}
    BY <1>3 DEF Prepended
  <2> HIDE DEF F
  <2> QED BY <2>1, <2>2, <2>3
<1>7. /\ AttrsSize(B \cup {PathA(path)}) = AttrsSize(B) + lsa_attr_size(PathA(path))
      /\ AttrsSize(B \cup {PathA(q)}) = AttrsSize(B) + lsa_attr_size(PathA(q))
      /\ AttrsSize(B) \in Nat
  BY <1>3, SizeAdd, SizeType
<1>8. \A d \in Bytes : lsa_attr_size(PathA(d)) = 3 * N + Len(d)
  <2> SUFFICES ASSUME NEW d \in Bytes PROVE lsa_attr_size(PathA(d)) = 3 * N + Len(d)
    OBVIOUS
  <2>1. PathA(d).key = <<>> /\ PathA(d).data = d /\ ~ PathA(d).set
    BY RootAttrs DEF Top
  <2>2. lsa_attr_size(PathA(d)) = 3 * N + 0 + Len(d)
    BY <2>1 DEF lsa_attr_size
  <2>3. N \in Nat /\ 3 * N \in Nat
    BY WireAssumption
  <2> HIDE DEF N
  <2> QED BY <2>2, <2>3
<1>9. N \in Nat
  BY WireAssumption
<1>10. AttrsSize(Own(V, G, S, q)) = AttrsSize(Own(V, G, S, path)) + Len(i)
  <2>1. lsa_attr_size(PathA(path)) = 3 * N + Len(path) /\ lsa_attr_size(PathA(q)) = 3 * N + (Len(i) + Len(path))
    BY <1>1, <1>8
  <2>2. /\ AttrsSize(Own(V, G, S, path)) = AttrsSize(B) + (3 * N + Len(path))
        /\ AttrsSize(Own(V, G, S, q)) = AttrsSize(B) + (3 * N + (Len(i) + Len(path)))
    BY <1>3, <1>7, <2>1
  <2>3. 3 * N \in Nat
    BY <1>9
  <2> HIDE DEF N, B
  <2> QED BY <1>1, <1>7, <2>2, <2>3
<1> QED BY <1>2, <1>3, <1>6, <1>10 DEF q

(* With nothing put in front, nothing changes. *)
LEMMA PrependNothing ==
    ASSUME NEW A, A \subseteq Attribute
    PROVE  Prepended(A, <<>>) = A
<1> DEFINE F(a) == IF IsPath(a) THEN [a EXCEPT !.data = <<>> \o @] ELSE a
<1>1. \A a \in A : F(a) = a
  <2> SUFFICES ASSUME NEW a \in A PROVE [a EXCEPT !.data = <<>> \o @] = a
    OBVIOUS
  <2>1. a \in Attribute /\ a.data \in Seq(Nat)
    BY DEF Attribute, Bytes
  <2>2. <<>> \o a.data = a.data
    BY <2>1, ConcatEmptySeq
  <2>3. [a EXCEPT !.data = a.data] = a
    BY <2>1 DEF Attribute
  <2> QED BY <2>2, <2>3
<1>2. Prepended(A, <<>>) = {F(a) : a \in A}
  BY DEF Prepended
<1> HIDE DEF F
<1> QED BY <1>1, <1>2

(* What is not signed does not matter for the signed part. *)
LEMMA OwnSignedPart ==
    ASSUME NEW V, NEW G, NEW S, NEW path, IsOwn(V, G, S, path)
    PROVE  /\ Visible(Own(V, G, S, path), FALSE) = Own(V, G, S, path)
           /\ Visible(Own(V, G, S, path), TRUE) = Visible(Own(V, G, S, <<>>), TRUE)
           /\ Visible(Own(V, G, S, path), TRUE) \subseteq Own(V, G, S, path)
<1> DEFINE B == Bare(V, G, S)
           W == <<<<1, <<>>>>>>
           Sees(b, a) == IsPrefix(Where(b), Where(a)) => b.sign
           C == {a \in B : (\A b \in B : Sees(b, a)) /\ ~ IsPrefix(W, Where(a))}
<1>1. <<>> \in Bytes
  BY DEF Bytes
<1>2. ASSUME NEW d \in Bytes
      PROVE  Visible(Own(V, G, S, d), TRUE) = C
  <2>1. IsOwn(V, G, S, d)
    BY DEF IsOwn
  <2>2. Own(V, G, S, d) = B \cup {PathA(d)}
    BY <2>1, OwnBare
  <2>3. Where(PathA(d)) = W /\ ~ PathA(d).sign
    BY RootAttrs DEF Top
  <2>4. IsPrefix(W, W)
    BY DEF IsPrefix
  <2>5. Visible(Own(V, G, S, d), TRUE) = {a \in B \cup {PathA(d)} : \A b \in B \cup {PathA(d)} : Sees(b, a)}
    BY <2>2 DEF Visible
  <2>6. \A a : Sees(PathA(d), a) <=> ~ IsPrefix(W, Where(a))
    BY <2>3
  <2>7. ~ Sees(PathA(d), PathA(d))
    BY <2>3, <2>4
  <2> HIDE DEF Sees, B, W
  <2> QED BY <2>5, <2>6, <2>7
<1>3. Visible(Own(V, G, S, path), TRUE) = Visible(Own(V, G, S, <<>>), TRUE)
  <2>1. path \in Bytes
    BY DEF IsOwn
  <2> HIDE DEF C
  <2> QED BY <1>1, <1>2, <2>1
<1>4. Visible(Own(V, G, S, path), FALSE) = Own(V, G, S, path)
  BY DEF Visible
<1>5. Visible(Own(V, G, S, path), TRUE) \subseteq Own(V, G, S, path)
  BY DEF Visible
<1> QED BY <1>3, <1>4, <1>5

(* An LSA with the attributes A, written as lsa_serialise() writes it, is  *)
(* a frame.                                                                *)
LEMMA WrittenFrame ==
    ASSUME NEW A, AttrSet(A), NEW a \in Bytes, Len(a) = lsa_attr_set_serialise_length(A),
           NODE_ID_LEN + Len(a) <= MAX_SERLEN,
           lsa_deserialise_attr_set(lsa_alloc(Me), a) = FreshLsa(Me, A)
    PROVE  IsFrame(WriteInt(NODE_ID_LEN + lsa_attr_set_serialise_length(A)) \o Me \o a, FreshLsa(Me, A))
<1> DEFINE body == Me \o a
           W == WriteInt(NODE_ID_LEN + Len(a))
<1>1. Me \in Seq(Nat) /\ Len(Me) = NODE_ID_LEN /\ a \in Seq(Nat) /\ NODE_ID_LEN \in Nat \ {0} /\ Len(a) \in Nat
  BY NodeAssumption, WireAssumption, LenProperties DEF Bytes
<1>2. body \in Seq(Nat) /\ Len(body) = NODE_ID_LEN + Len(a)
  BY <1>1, Joined
<1>3. Len(body) \in 0..(UINT_RANGE - 1) /\ Len(body) <= MAX_SERLEN /\ Len(body) >= NODE_ID_LEN
  BY <1>1, <1>2, StreamAssumption, WireAssumption
<1>4. SubSeq(body, 1, NODE_ID_LEN) = Me
  <2>1. 1 \in 1..Len(Me) /\ NODE_ID_LEN \in 1..Len(Me)
    BY <1>1
  <2>2. SubSeq(Me \o a, 1, NODE_ID_LEN) = SubSeq(Me, 1, NODE_ID_LEN)
    BY <1>1, <2>1, SubSeqOfConcat1
  <2>3. SubSeq(Me, 1, Len(Me)) = Me
    BY <1>1, SubSeqFull
  <2> QED BY <1>1, <2>2, <2>3
<1>5. Drop(body, NODE_ID_LEN) = a
  <2>1. NODE_ID_LEN \in 0..Len(Me)
    BY <1>1
  <2>2. Drop(Me \o a, NODE_ID_LEN) = Drop(Me, NODE_ID_LEN) \o a
    BY <1>1, <2>1, DropJoined
  <2>3. Drop(Me, NODE_ID_LEN) = <<>>
    <3>1. Len(Me) < NODE_ID_LEN + 1 /\ NODE_ID_LEN + 1 \in Int /\ Len(Me) \in Int
      BY <1>1
    <3>2. SubSeq(Me, NODE_ID_LEN + 1, Len(Me)) = <<>>
      BY <3>1, SubSeqEmpty
    <3> QED BY <3>2 DEF Drop
  <2>4. <<>> \o a = a
    BY <1>1, ConcatEmptySeq
  <2> QED BY <2>2, <2>3, <2>4
<1>6. W \in Seq(Nat)
  <2>1. WriteInt(Len(body)) \in Bytes
    <3> HIDE DEF body
    <3> QED BY <1>3, WriteIntProps
  <2> QED BY <1>2, <2>1 DEF Bytes
<1>7. (W \o Me) \o a = WriteInt(Len(body)) \o body
  <2>1. (W \o Me) \o a = W \o body
    <3> HIDE DEF W
    <3> QED BY <1>1, <1>6, Regrouped
  <2> QED BY <1>2, <2>1
<1>8. FreshLsa(Me, A) # ERROR
  BY FreshType, NodeAssumption
<1> DEFINE b == (W \o Me) \o a
           m == FreshLsa(Me, A)
<1>9. m = lsa_deserialise_attr_set(lsa_alloc(SubSeq(body, 1, NODE_ID_LEN)), Drop(body, NODE_ID_LEN))
  BY <1>4, <1>5
<1>10. body \in Bytes
  BY <1>2 DEF Bytes
<1>11. b = WriteInt(NODE_ID_LEN + lsa_attr_set_serialise_length(A)) \o Me \o a
  OBVIOUS
<1>12. b = WriteInt(Len(body)) \o body
  BY <1>7
<1> HIDE DEF b, m, body, W
<1>13. m # ERROR
  BY <1>8 DEF m
<1>14. IsFrame(b, m)
  BY <1>3, <1>9, <1>10, <1>12, <1>13 DEF IsFrame
<1> QED BY <1>11, <1>14 DEF m

(* The own LSA of version v, signed. *)
Made(v, S, path) == OwnLsa({VersionA(v)}, {SignatureA(v)}, S, path)

(* What it looks like. *)
LEMMA MadeType ==
    ASSUME NEW v \in Nat, NEW S \in SUBSET Peers, NEW path \in Bytes
    PROVE  /\ IsOwn({VersionA(v)}, {SignatureA(v)}, S, path)
           /\ Made(v, S, path) = FreshLsa(Me, OwnAttrs(v, S, path))
           /\ AttrSet(OwnAttrs(v, S, path)) /\ AttrsSize(OwnAttrs(v, S, path)) \in Nat
           /\ Made(v, S, path) \in Lsas /\ Made(v, S, path) \notin {ABORT, NULL, ERROR}
           /\ Made(v, S, path).attrs = Own({VersionA(v)}, {SignatureA(v)}, S, path)
           /\ Made(v, S, path).attrs = OwnAttrs(v, S, path)
           /\ Made(v, S, path).id = Me /\ Made(v, S, path).refcount = 1
           /\ Made(v, S, path).bytes = MAX_SERIALISED_INT_LEN + NODE_ID_LEN + AttrsSize(OwnAttrs(v, S, path))
<1>1. IsOwn({VersionA(v)}, {SignatureA(v)}, S, path)
  BY DEF IsOwn
<1> DEFINE A == Own({VersionA(v)}, {SignatureA(v)}, S, path)
<1>2. OwnAttrs(v, S, path) = A
  BY OwnIs
<1>3. AttrSet(A) /\ Me \in Bytes
  BY <1>1, OwnSet, NodeAssumption
<1>4. Made(v, S, path) = FreshLsa(Me, A)
  BY DEF Made, OwnLsa
<1> HIDE DEF A
<1>5. AttrsSize(A) \in Nat
  BY <1>3, SizeType
<1> DEFINE l == FreshLsa(Me, A)
<1>6. /\ l.refcount = 1 /\ l.id = Me /\ l.attrs = A
      /\ l.bytes = MAX_SERIALISED_INT_LEN + NODE_ID_LEN + AttrsSize(A)
      /\ l \in Lsas /\ l # ABORT /\ l # NULL /\ l # ERROR
  BY <1>3, FreshType
<1> HIDE DEF l
<1>7. Made(v, S, path) = l
  BY <1>4 DEF l
<1> QED BY <1>1, <1>2, <1>3, <1>5, <1>6, <1>7, <1>4 DEF A

(* What dgp_writer_output_lsa() writes of an LSA under the id i: the       *)
(* attributes, the length it checks, and the bytes.                        *)
OutAttrs(l, i) == Written(l, FALSE, i)
OutLength(l, i) == lsa_serialise_length(l, FALSE, i)
OutBytes(l, i) == lsa_serialise(l, FALSE, i)

(* What the own LSA takes on the wire under the id of the next node. *)
LEMMA MadeLength ==
    ASSUME NEW v \in Nat, NEW S \in SUBSET Peers, NEW path \in Bytes, NEW i \in Bytes,
           NEW l, l.attrs = Made(v, S, path).attrs
    PROVE  /\ Prepended(l.attrs, i) = OwnAttrs(v, S, i \o path)
           /\ OutAttrs(l, i) = OwnAttrs(v, S, i \o path)
           /\ OutLength(l, i) = NODE_ID_LEN + lsa_attr_set_serialise_length(OwnAttrs(v, S, i \o path))
           /\ OutLength(l, i) \in Nat
           /\ IntLen(OutLength(l, i)) + OutLength(l, i) <= Made(v, S, path).bytes + Len(i)
           /\ AttrsSize(OwnAttrs(v, S, i \o path)) <= Made(v, S, path).bytes + Len(i)
           /\ OutLength(l, i) <= Made(v, S, path).bytes + Len(i)
<1> DEFINE V == {VersionA(v)}
           G == {SignatureA(v)}
           q == i \o path
           A == OwnAttrs(v, S, path)
           B == OwnAttrs(v, S, q)
           N == MAX_SERIALISED_INT_LEN
           n == OutLength(l, i)
           m == lsa_attr_set_serialise_length(B)
<1>1. IsOwn(V, G, S, path) /\ l.attrs = Own(V, G, S, path) /\ AttrsSize(A) \in Nat
      /\ Made(v, S, path).bytes = N + NODE_ID_LEN + AttrsSize(A)
  BY MadeType
<1>2. q \in Bytes /\ Len(i) \in Nat
  BY Joined, LenProperties DEF Bytes
<1>3. B = Own(V, G, S, q) /\ A = Own(V, G, S, path)
  BY OwnIs
<1>4. Visible(Own(V, G, S, path), FALSE) = Own(V, G, S, path)
  BY DEF Visible
<1>5. /\ Prepended(Own(V, G, S, path), i) = Own(V, G, S, q)
      /\ AttrsSize(Own(V, G, S, q)) = AttrsSize(Own(V, G, S, path)) + Len(i)
  BY <1>1, OwnPrepended
<1>6. AttrSet(B)
  <2> HIDE DEF q
  <2> QED BY <1>2, MadeType
<1> HIDE DEF V, G, q, A, B
<1>7. Prepended(l.attrs, i) = B /\ OutAttrs(l, i) = B
  BY <1>1, <1>3, <1>4, <1>5 DEF Written, OutAttrs
<1>8. n = NODE_ID_LEN + m
  BY <1>7 DEF OutLength, OutAttrs, lsa_serialise_length
<1>9. m \in Nat /\ m <= AttrsSize(B)
  BY <1>6, LengthBound
<1>10. IntLen(n) \in 1..N /\ N \in Nat /\ NODE_ID_LEN \in Nat
  BY IntLenType, WireAssumption
<1>11. AttrsSize(B) = AttrsSize(A) + Len(i)
  BY <1>3, <1>5
<1> HIDE DEF n, m, N
<1>12. /\ n \in Nat /\ IntLen(n) + n <= Made(v, S, path).bytes + Len(i)
       /\ AttrsSize(B) <= Made(v, S, path).bytes + Len(i)
       /\ n <= Made(v, S, path).bytes + Len(i)
  <2>1. AttrsSize(A) \in Nat /\ Made(v, S, path).bytes = N + NODE_ID_LEN + AttrsSize(A)
    BY <1>1
  <2>2. Len(i) \in Nat
    BY <1>2
  <2> QED BY <2>1, <2>2, <1>8, <1>9, <1>10, <1>11
<1> QED BY <1>7, <1>8, <1>12 DEF n, m, B, q

(* What is signed of the attributes A. *)
SignedOf(A) == Visible(A, TRUE)

(* What signing looks at. *)
LEMMA SignedBytes ==
    ASSUME NEW l, l.attrs \subseteq Attribute
    PROVE  /\ SignedOf(l.attrs) \subseteq l.attrs
           /\ SignedData(l) = WriteInt(NODE_ID_LEN + lsa_attr_set_serialise_length(SignedOf(l.attrs)))
                                 \o l.id \o lsa_attrs_serialise(SignedOf(l.attrs))
<1>1. SignedOf(l.attrs) \subseteq l.attrs
  BY DEF SignedOf, Visible
<1> DEFINE W == SignedOf(l.attrs)
<1>2. Prepended(W, <<>>) = W
  <2>1. W \subseteq Attribute
    BY <1>1
  <2> HIDE DEF W
  <2> QED BY <2>1, PrependNothing
<1>3. SignedData(l) = WriteInt(NODE_ID_LEN + lsa_attr_set_serialise_length(Prepended(W, <<>>)))
                                 \o l.id \o lsa_attrs_serialise(Prepended(W, <<>>))
  BY DEF SignedData, lsa_serialise, lsa_serialise_length, Written, SignedOf
<1> HIDE DEF W
<1>4. SignedData(l) = WriteInt(NODE_ID_LEN + lsa_attr_set_serialise_length(W))
                                 \o l.id \o lsa_attrs_serialise(W)
  BY <1>2, <1>3
<1> QED BY <1>1, <1>4 DEF W

(* The path and where an LSA has been do not matter for it. *)
LEMMA MadeSigned ==
    ASSUME NEW v \in Nat, NEW S \in SUBSET Peers, NEW path \in Bytes,
           NEW l, l.id = Me, l.attrs = Made(v, S, path).attrs
    PROVE  /\ SignedData(l) = SignedData(Made(v, S, <<>>))
           /\ Signature(l) = <<v>> /\ Version(l) = v
           /\ Has(l, LSA_ATTR_TYPE.SIGNATURE) /\ Has(l, LSA_ATTR_TYPE.ADV_PATH) /\ Path(l) = path
<1> DEFINE V == {VersionA(v)}
           G == {SignatureA(v)}
           A == Own(V, G, S, path)
           B == Own(V, G, S, <<>>)
           m == Made(v, S, <<>>)
<1>1. <<>> \in Bytes
  BY DEF Bytes
<1>2. IsOwn(V, G, S, path) /\ l.attrs = A
  BY MadeType
<1>3. IsOwn(V, G, S, <<>>) /\ m.attrs = B /\ m.id = Me
  BY <1>1, MadeType
<1>4. SignedOf(A) = SignedOf(B)
  <2>1. Visible(A, TRUE) = Visible(B, TRUE)
    BY <1>2, OwnSignedPart
  <2> QED BY <2>1 DEF SignedOf
<1>5. A \subseteq Attribute /\ B \subseteq Attribute
  <2>1. AttrSet(A) /\ AttrSet(B)
    BY <1>2, <1>3, OwnSet
  <2> QED BY <2>1 DEF AttrSet
<1>6. G # {}
  OBVIOUS
<1>7. /\ Has(l, LSA_ATTR_TYPE.ADV_PATH) /\ Path(l) = path
      /\ Has(l, LSA_ATTR_TYPE.SIGNATURE)
  <2> HIDE DEF G, V
  <2> QED BY <1>2, <1>6, OwnData
<1>8. Version(l) = v /\ Signature(l) = <<v>>
  <2>1. l.attrs = Own(V, G, S, path)
    BY <1>2
  <2> HIDE DEF A
  <2> QED BY <1>2, <2>1, OwnData
<1> HIDE DEF A, B, m
<1>9. SignedData(l) = WriteInt(NODE_ID_LEN + lsa_attr_set_serialise_length(SignedOf(A)))
                                 \o Me \o lsa_attrs_serialise(SignedOf(A))
  <2>1. l.attrs \subseteq Attribute
    BY <1>2, <1>5
  <2>2. SignedData(l) = WriteInt(NODE_ID_LEN + lsa_attr_set_serialise_length(SignedOf(l.attrs)))
                                 \o l.id \o lsa_attrs_serialise(SignedOf(l.attrs))
    BY <2>1, SignedBytes
  <2> QED BY <1>2, <2>2
<1>10. SignedData(m) = WriteInt(NODE_ID_LEN + lsa_attr_set_serialise_length(SignedOf(B)))
                                 \o Me \o lsa_attrs_serialise(SignedOf(B))
  <2>1. m.attrs \subseteq Attribute
    BY <1>3, <1>5
  <2>2. SignedData(m) = WriteInt(NODE_ID_LEN + lsa_attr_set_serialise_length(SignedOf(m.attrs)))
                                 \o m.id \o lsa_attrs_serialise(SignedOf(m.attrs))
    BY <2>1, SignedBytes
  <2> QED BY <1>3, <2>2
<1> QED BY <1>4, <1>7, <1>8, <1>9, <1>10 DEF m

(* The length lsa_sign() looks at. *)
SignedLength(l) == lsa_serialise_length(l, TRUE, <<>>)

(* lsa_sign() *)
LEMMA OwnSign ==
    ASSUME NEW v \in Nat, NEW G, NEW S \in SUBSET Peers, G = {} \/ \E w \in Nat : G = {SignatureA(w)},
           Made(v, S, <<>>).bytes <= MAX_SERLEN
    PROVE  lsa_sign(OwnLsa({VersionA(v)}, G, S, <<>>)) = Made(v, S, <<>>)
<1> DEFINE V == {VersionA(v)}
           l == OwnLsa(V, G, S, <<>>)
           b == OwnLsa(V, {}, S, <<>>)
           A == Own(V, {}, S, <<>>)
           M == OwnAttrs(v, S, <<>>)
<1>1. <<>> \in Bytes /\ LSA_ATTR_TYPE.SIGNATURE = 6
  BY DEF Bytes, LSA_ATTR_TYPE
<1>2. IsOwn(V, G, S, <<>>) /\ IsOwn(V, {}, S, <<>>)
  BY <1>1 DEF IsOwn
<1>3. AttrSet(Own(V, G, S, <<>>)) /\ AttrSet(A) /\ Me \in Bytes
  BY <1>2, OwnSet, NodeAssumption
<1>4. l.attrs = Own(V, G, S, <<>>) /\ l # ABORT
  <2> DEFINE B == Own(V, G, S, <<>>)
  <2>1. l = FreshLsa(Me, B)
    BY DEF OwnLsa
  <2> HIDE DEF B, l
  <2>2. FreshLsa(Me, B).attrs = B /\ FreshLsa(Me, B) # ABORT
    BY <1>3, FreshType DEF B
  <2> QED BY <2>1, <2>2 DEF B
<1>5. b.attrs = A
  <2>1. b = FreshLsa(Me, A)
    BY DEF OwnLsa
  <2> HIDE DEF A, b
  <2> QED BY <1>3, <2>1, FreshType
<1>6. Version(l) = v /\ (Has(l, LSA_ATTR_TYPE.SIGNATURE) <=> G # {})
  <2>1. l.attrs = Own(V, G, S, <<>>)
    BY <1>4
  <2> HIDE DEF l
  <2> QED BY <1>2, <2>1, OwnData
<1>7. b = IF Has(l, LSA_ATTR_TYPE.SIGNATURE)
          THEN lsa_del_attr_bykey(l, LSA_ATTR_TYPE.SIGNATURE, <<>>) ELSE l
  <2>1. CASE G = {}
    <3>1. l = b
      BY <2>1
    <3> HIDE DEF l, b
    <3> QED BY <1>6, <2>1, <3>1
  <2>2. CASE G # {}
    <3>1. lsa_del_attr_bykey(l, 6, <<>>) = b
      BY <1>2, <2>2, OwnDel
    <3> HIDE DEF l, b
    <3> QED BY <1>1, <1>6, <2>2, <3>1
  <2> QED BY <2>1, <2>2
<1>8. SignedLength(b) \in Nat /\ SignedLength(b) <= MAX_SERLEN
  <2> DEFINE W == SignedOf(A)
             n == lsa_attr_set_serialise_length(W)
  <2>1. W \subseteq A /\ A \subseteq Attribute
    <3>1. A \subseteq Attribute
      BY <1>3 DEF AttrSet
    <3> HIDE DEF A
    <3> QED BY <3>1 DEF SignedOf, Visible
  <2>2. Prepended(W, <<>>) = W
    <3>1. W \subseteq Attribute
      BY <2>1
    <3> HIDE DEF W
    <3> QED BY <3>1, PrependNothing
  <2>3. SignedLength(b) = NODE_ID_LEN + lsa_attr_set_serialise_length(Prepended(W, <<>>))
    <3> HIDE DEF b, A
    <3> QED BY <1>5 DEF SignedLength, lsa_serialise_length, Written, SignedOf
  <2>4. SignedLength(b) = NODE_ID_LEN + n
    <3> HIDE DEF b, W
    <3> QED BY <2>2, <2>3
  <2>5. AttrSet(M) /\ AttrsSize(M) \in Nat
        /\ Made(v, S, <<>>).bytes = MAX_SERIALISED_INT_LEN + NODE_ID_LEN + AttrsSize(M)
    BY <1>1, MadeType
  <2>6. W \in SUBSET M
    <3>1. M = Own(V, {SignatureA(v)}, S, <<>>)
      BY OwnIs
    <3>2. A \subseteq M
      <4> HIDE DEF M
      <4> QED BY <3>1 DEF Own
    <3> HIDE DEF A, M, W
    <3> QED BY <2>1, <3>2
  <2> HIDE DEF W, M
  <2>7. AttrSet(W) /\ AttrsSize(W) \in Nat /\ AttrsSize(M \ W) \in Nat
        /\ AttrsSize(M) = AttrsSize(W) + AttrsSize(M \ W)
    BY <2>5, <2>6, SizeParts
  <2>8. n \in Nat /\ n <= AttrsSize(W)
    BY <2>7, LengthBound
  <2>9. NODE_ID_LEN + n <= Made(v, S, <<>>).bytes
    <3>1. MAX_SERIALISED_INT_LEN \in Nat /\ NODE_ID_LEN \in Nat
      BY WireAssumption
    <3> HIDE DEF n
    <3> QED BY <2>5, <2>7, <2>8, <3>1
  <2>10. NODE_ID_LEN + n \in Nat /\ Made(v, S, <<>>).bytes \in Nat /\ MAX_SERLEN \in Nat
    BY <2>5, <2>8, WireAssumption, StreamAssumption
  <2> HIDE DEF n, b
  <2> QED BY <2>4, <2>9, <2>10
<1>9. lsa_add_attr(b, LSA_ATTR_TYPE.SIGNATURE, FALSE, <<>>, <<v>>) = AddAttr(b, SignatureA(v))
  BY DEF lsa_add_attr, SignatureA
<1>10. AddAttr(b, SignatureA(v)) = Made(v, S, <<>>)
  BY <1>2, OwnAdd DEF Made
<1>11. ~ (SignedLength(b) > MAX_SERLEN)
  <2> HIDE DEF b
  <2> QED BY <1>8, StreamAssumption
<1> DEFINE bare == IF Has(l, LSA_ATTR_TYPE.SIGNATURE)
                   THEN lsa_del_attr_bykey(l, LSA_ATTR_TYPE.SIGNATURE, <<>>) ELSE l
<1>12. lsa_sign(l) = IF SignedLength(bare) > MAX_SERLEN THEN ABORT
             ELSE lsa_add_attr(bare, LSA_ATTR_TYPE.SIGNATURE, FALSE, <<>>, <<Version(l)>>)
  <2> HIDE DEF l
  <2> QED BY <1>4 DEF lsa_sign, SignedLength
<1>13. b = bare
  BY <1>7
<1> HIDE DEF b, bare, l
<1>14. lsa_sign(l) = lsa_add_attr(b, LSA_ATTR_TYPE.SIGNATURE, FALSE, <<>>, <<v>>)
  BY <1>6, <1>11, <1>12, <1>13
<1> QED BY <1>9, <1>10, <1>14 DEF l

(* The version lsa_update_version() chooses at the time t. *)
NextVersion(u, t) == IF t * VERSIONS_PER_SECOND <= u THEN u + 1 ELSE t * VERSIONS_PER_SECOND

(* lsa_update_version() *)
LEMMA OwnUpdate ==
    ASSUME NEW u \in Nat, NEW G, NEW S \in SUBSET Peers, G = {} \/ \E w \in Nat : G = {SignatureA(w)},
           now \in Nat
    PROVE  /\ NextVersion(u, now) \in Nat
           /\ lsa_update_version(OwnLsa({VersionA(u)}, G, S, <<>>))
                = OwnLsa({VersionA(NextVersion(u, now))}, G, S, <<>>)
<1> DEFINE V == {VersionA(u)}
           w == NextVersion(u, now)
           l == OwnLsa(V, G, S, <<>>)
           b == OwnLsa({}, G, S, <<>>)
<1>1. <<>> \in Bytes /\ LSA_ATTR_TYPE.VERSION = 4 /\ V # {}
  BY DEF Bytes, LSA_ATTR_TYPE
<1>2. IsOwn(V, G, S, <<>>) /\ IsOwn({}, G, S, <<>>)
  BY <1>1 DEF IsOwn
<1>3. w \in Nat
  <2>1. VERSIONS_PER_SECOND \in Nat
    BY StreamAssumption
  <2>2. now * VERSIONS_PER_SECOND \in Nat
    BY <2>1
  <2> QED BY <2>2 DEF NextVersion
<1>4. l.attrs = Own(V, G, S, <<>>) /\ l # ABORT
  <2> DEFINE B == Own(V, G, S, <<>>)
  <2>1. l = FreshLsa(Me, B) /\ AttrSet(B) /\ Me \in Bytes
    BY <1>2, OwnSet, NodeAssumption DEF OwnLsa
  <2> HIDE DEF B, l
  <2>2. FreshLsa(Me, B).attrs = B /\ FreshLsa(Me, B) # ABORT
    BY <2>1, FreshType
  <2> QED BY <2>1, <2>2 DEF B
<1>5. Version(l) = u
  <2>1. l.attrs = Own(V, G, S, <<>>)
    BY <1>4
  <2> HIDE DEF l
  <2> QED BY <1>2, <2>1, OwnData
<1>6. lsa_del_attr_bykey(l, LSA_ATTR_TYPE.VERSION, <<>>) = b
  <2>1. lsa_del_attr_bykey(l, 4, <<>>) = b
    <3> HIDE DEF V
    <3> QED BY <1>1, <1>2, OwnDel
  <2> HIDE DEF l, b
  <2> QED BY <1>1, <2>1
<1>7. AddAttr(b, VersionA(w)) = OwnLsa({VersionA(w)}, G, S, <<>>)
  <2> HIDE DEF w
  <2> QED BY <1>2, <1>3, OwnAdd
<1>8. lsa_add_version(b, w) = AddAttr(b, VersionA(w))
  BY DEF lsa_add_version, lsa_add_attr, VersionA
<1>9. lsa_update_version(l) = lsa_add_version(lsa_del_attr_bykey(l, LSA_ATTR_TYPE.VERSION, <<>>), w)
  <2>1. lsa_update_version(l) =
          lsa_add_version(lsa_del_attr_bykey(l, LSA_ATTR_TYPE.VERSION, <<>>),
                          IF now * VERSIONS_PER_SECOND <= Version(l) THEN Version(l) + 1
                          ELSE now * VERSIONS_PER_SECOND)
    <3> HIDE DEF l
    <3> QED BY <1>4 DEF lsa_update_version
  <2> HIDE DEF l
  <2> QED BY <1>5, <2>1 DEF NextVersion
<1> HIDE DEF l, b, w
<1>10. lsa_update_version(l) = OwnLsa({VersionA(w)}, G, S, <<>>)
  BY <1>6, <1>7, <1>8, <1>9
<1> QED BY <1>3, <1>10 DEF l, w

(* The LSA dvpn() begins with. *)
LEMMA OwnBegins ==
    ASSUME NEW t \in Nat, Made((t + 1) * VERSIONS_PER_SECOND, {}, <<>>).bytes <= MAX_SERLEN
    PROVE  /\ (t + 1) * VERSIONS_PER_SECOND \in Nat
           /\ FirstLsa(t) = Made((t + 1) * VERSIONS_PER_SECOND, {}, <<>>)
<1> DEFINE v == (t + 1) * VERSIONS_PER_SECOND
           a1 == PathA(<<>>)
           a3 == VersionA(v)
           a4 == KeyA
           A1 == {a1}
           A2 == {a1} \cup Names
           A3 == A2 \cup {a3}
           A4 == A3 \cup {a4}
<1>1. v \in Nat
  <2>1. VERSIONS_PER_SECOND \in Nat /\ t + 1 \in Nat
    BY StreamAssumption
  <2> QED BY <2>1
<1>2. FirstLsa(t) = lsa_sign(AddAttr(AddAttr(IF NodeName = NULL THEN AddAttr(lsa_alloc(Me), a1)
                                             ELSE AddAttr(AddAttr(lsa_alloc(Me), a1), NameA), a3), a4))
  BY DEF FirstLsa, lsa_initial_version, lsa_add_version, lsa_add_attr, PathA, NameA, VersionA, KeyA
<1>3. v = (t + 1) * VERSIONS_PER_SECOND
  OBVIOUS
<1> HIDE DEF v
<1>4. <<>> \in Bytes /\ Me \in Bytes
  BY NodeAssumption DEF Bytes
<1>5. /\ a1 \in Attribute /\ a1.at = <<>> /\ a1.type = 1
      /\ \A a \in Names : a = NameA /\ a \in Attribute /\ a.at = <<>> /\ a.type = 3
      /\ a3 \in Attribute /\ a3.at = <<>> /\ a3.type = 4
      /\ a4 \in Attribute /\ a4.at = <<>> /\ a4.type = 5
  BY <1>1, <1>4, RootAttrs DEF Top
<1>6. A4 = Own({a3}, {}, {}, <<>>)
  <2>1. PeersOf({}) = {}
    BY InPeersOf
  <2> QED BY <2>1 DEF Own
<1>7. AttrSet({}) /\ lsa_alloc(Me) = FreshLsa(Me, {})
  <2>1. AttrSet({})
    BY FS_EmptySet DEF AttrSet
  <2>2. AttrsSize({}) = 0
    BY <2>1, SizeType
  <2>3. FreshLsa(Me, {}) = [refcount |-> 1, bytes |-> MAX_SERIALISED_INT_LEN + NODE_ID_LEN + AttrsSize({}),
                            id |-> Me, attrs |-> {}]
    BY <1>4, <2>1, FreshType
  <2>4. MAX_SERIALISED_INT_LEN + NODE_ID_LEN + 0 = MAX_SERIALISED_INT_LEN + NODE_ID_LEN
    BY WireAssumption
  <2>5. lsa_alloc(Me) = [refcount |-> 1, bytes |-> MAX_SERIALISED_INT_LEN + NODE_ID_LEN, id |-> Me, attrs |-> {}]
    BY DEF lsa_alloc
  <2> QED BY <2>1, <2>2, <2>3, <2>4, <2>5
<1> HIDE DEF a1, a3, a4
<1>8. AttrSet(A1) /\ AddAttr(FreshLsa(Me, {}), a1) = FreshLsa(Me, A1)
  <2>1. \A b \in {} : ~ (b.at = a1.at /\ b.type = a1.type /\ b.key = a1.key)
    OBVIOUS
  <2>2. {} \cup {a1} = A1
    OBVIOUS
  <2> HIDE DEF A1
  <2>3. AttrSet({} \cup {a1}) /\ AddAttr(FreshLsa(Me, {}), a1) = FreshLsa(Me, {} \cup {a1})
    BY <1>4, <1>5, <1>7, <2>1, AddToFresh
  <2> QED BY <2>2, <2>3
<1>9. AttrSet(A2) /\ (IF NodeName = NULL THEN FreshLsa(Me, A1) ELSE AddAttr(FreshLsa(Me, A1), NameA)) = FreshLsa(Me, A2)
  <2>1. CASE NodeName = NULL
    <3>1. A2 = A1
      BY <2>1 DEF Names
    <3> HIDE DEF A1, A2
    <3> QED BY <1>8, <2>1, <3>1
  <2>2. CASE NodeName # NULL
    <3>1. Names = {NameA}
      BY <2>2 DEF Names
    <3>2. NameA \in Attribute /\ \A b \in A1 : ~ (b.at = NameA.at /\ b.type = NameA.type /\ b.key = NameA.key)
      BY <1>5, <3>1
    <3>3. A1 \cup {NameA} = A2
      BY <3>1
    <3> HIDE DEF A1, A2
    <3>4. AttrSet(A1 \cup {NameA}) /\ AddAttr(FreshLsa(Me, A1), NameA) = FreshLsa(Me, A1 \cup {NameA})
      BY <1>4, <1>8, <3>2, AddToFresh
    <3> QED BY <2>2, <3>3, <3>4
  <2> QED BY <2>1, <2>2
<1>10. AttrSet(A3) /\ AddAttr(FreshLsa(Me, A2), a3) = FreshLsa(Me, A3)
  <2>1. \A b \in A2 : ~ (b.at = a3.at /\ b.type = a3.type /\ b.key = a3.key)
    BY <1>5
  <2>2. A2 \cup {a3} = A3
    OBVIOUS
  <2> HIDE DEF A2, A3
  <2>3. AttrSet(A2 \cup {a3}) /\ AddAttr(FreshLsa(Me, A2), a3) = FreshLsa(Me, A2 \cup {a3})
    BY <1>4, <1>5, <1>9, <2>1, AddToFresh
  <2> QED BY <2>2, <2>3
<1>11. AttrSet(A4) /\ AddAttr(FreshLsa(Me, A3), a4) = FreshLsa(Me, A4)
  <2>1. \A b \in A3 : ~ (b.at = a4.at /\ b.type = a4.type /\ b.key = a4.key)
    BY <1>5
  <2>2. A3 \cup {a4} = A4
    OBVIOUS
  <2> HIDE DEF A3, A4
  <2>3. AttrSet(A3 \cup {a4}) /\ AddAttr(FreshLsa(Me, A3), a4) = FreshLsa(Me, A3 \cup {a4})
    BY <1>4, <1>5, <1>10, <2>1, AddToFresh
  <2> QED BY <2>2, <2>3
<1> HIDE DEF A1, A2, A3, A4
<1>12. FirstLsa(t) = lsa_sign(FreshLsa(Me, A4))
  BY <1>2, <1>7, <1>8, <1>9, <1>10, <1>11
<1>13. FirstLsa(t) = lsa_sign(OwnLsa({VersionA(v)}, {}, {}, <<>>))
  BY <1>6, <1>12 DEF OwnLsa, a3
<1>14. lsa_sign(OwnLsa({VersionA(v)}, {}, {}, <<>>)) = Made(v, {}, <<>>)
  <2>1. {} \in SUBSET Peers /\ Made(v, {}, <<>>).bytes <= MAX_SERLEN
    BY <1>3
  <2> DEFINE g == {}
  <2>2. g \in SUBSET Peers /\ (g = {} \/ \E w \in Nat : g = {SignatureA(w)}) /\ Made(v, g, <<>>).bytes <= MAX_SERLEN
    BY <2>1
  <2> HIDE DEF g
  <2>3. lsa_sign(OwnLsa({VersionA(v)}, g, g, <<>>)) = Made(v, g, <<>>)
    BY <1>1, <2>2, OwnSign
  <2> QED BY <2>3 DEF g
<1>15. FirstLsa(t) = Made(v, {}, <<>>)
  BY <1>13, <1>14
<1> QED BY <1>1, <1>3, <1>15

(* The own LSA fits, with the id of its sender. *)
LEMMA OwnFits ==
    ASSUME NEW v \in Versions, NEW S \in SUBSET Peers
    PROVE  /\ v \in Nat /\ Made(v, S, <<>>).bytes \in Nat
           /\ Made(v, S, <<>>).bytes + NODE_ID_LEN <= MAX_SERLEN
           /\ Made(v, S, <<>>).bytes <= MAX_SERLEN
<1>1. v \in Nat /\ <<>> \in Bytes
  BY DEF Versions, Bytes
<1>2. Made(v, S, <<>>) = FreshLsa(Me, OwnAttrs(v, S, <<>>))
  BY <1>1, MadeType
<1>3. AttrsSize(OwnAttrs(v, S, <<>>)) \in Nat
      /\ Made(v, S, <<>>).bytes = MAX_SERIALISED_INT_LEN + NODE_ID_LEN + AttrsSize(OwnAttrs(v, S, <<>>))
  BY <1>1, MadeType
<1>4. Made(v, S, <<>>).bytes + NODE_ID_LEN <= MAX_SERLEN
  BY <1>2, OwnFitsAssumption
<1>5. Made(v, S, <<>>).bytes \in Nat /\ NODE_ID_LEN \in Nat /\ MAX_SERLEN \in Nat
  BY <1>3, WireAssumption, StreamAssumption
<1> QED BY <1>1, <1>4, <1>5

(* The LSA the loc_rib holds. *)
LEMMA HeldType ==
    ASSUME NEW v \in Nat, NEW S \in SUBSET Peers
    PROVE  LET l == Held(Made(v, S, <<>>))
           IN  /\ l # ABORT /\ l.id = Me /\ l.bytes = Made(v, S, <<>>).bytes
               /\ l.attrs = Made(v, S, <<>>).attrs
               /\ l.attrs = Own({VersionA(v)}, {SignatureA(v)}, S, <<>>)
               /\ lsa_clone(l) = Made(v, S, <<>>)
               /\ Version(l) = v
               /\ \A p : lsa_find_attr(l, LSA_ATTR_TYPE.PEER, p) # {} <=> p \in S
<1> DEFINE m == Made(v, S, <<>>)
           l == Held(m)
           A == Own({VersionA(v)}, {SignatureA(v)}, S, <<>>)
<1>1. <<>> \in Bytes
  BY DEF Bytes
<1>2. /\ m \in Lsas /\ m # ABORT /\ m.id = Me /\ m.attrs = A /\ m = FreshLsa(Me, A)
      /\ IsOwn({VersionA(v)}, {SignatureA(v)}, S, <<>>)
  <2>1. m = FreshLsa(Me, A)
    BY DEF Made, OwnLsa
  <2> HIDE DEF m
  <2> QED BY <1>1, <2>1, MadeType DEF m
<1> HIDE DEF m, A
<1>3. l = [m EXCEPT !.refcount = @ + 1]
  BY <1>2 DEF Held
<1>4. l \in Lsas /\ l.id = m.id /\ l.attrs = m.attrs /\ l.bytes = m.bytes
  BY <1>2, <1>3 DEF Lsas
<1> HIDE DEF l
<1>5. l # ABORT
  BY <1>4, WireAssumption
<1>6. lsa_clone(l) = m
  BY <1>2, <1>4 DEF lsa_clone
<1>7. Version(l) = v
  <2>1. l.id = Me /\ l.attrs = Made(v, S, <<>>).attrs
    BY <1>2, <1>4 DEF m
  <2> QED BY <1>1, <2>1, MadeSigned
<1>8. \A p : lsa_find_attr(l, LSA_ATTR_TYPE.PEER, p) # {} <=> p \in S
  <2>1. l.attrs = Own({VersionA(v)}, {SignatureA(v)}, S, <<>>)
    BY <1>2, <1>4 DEF A
  <2>2. \A p : lsa_find_attr(l, 2, p) = IF p \in S THEN {PeerAttr(p)} ELSE {}
    BY <1>2, <2>1, OwnFind
  <2>3. LSA_ATTR_TYPE.PEER = 2
    BY DEF LSA_ATTR_TYPE
  <2> QED BY <2>2, <2>3
<1>9. l = Held(Made(v, S, <<>>)) /\ m = Made(v, S, <<>>) /\ A = Own({VersionA(v)}, {SignatureA(v)}, S, <<>>)
  BY DEF l, m, A
<1> QED BY <1>2, <1>4, <1>5, <1>6, <1>7, <1>8, <1>9

(* How high a version can be at the time n, in a daemon that was started   *)
(* at the time b and has changed its LSA u times in this second.           *)
Limit(n, b, u) ==
    IF n = b THEN (n + 1) * VERSIONS_PER_SECOND + u ELSE n * VERSIONS_PER_SECOND + MaxUpdates + u

(* Seconds and versions. *)
LEMMA Scaled ==
    ASSUME NEW s \in Nat, NEW t \in Nat, s <= t
    PROVE  /\ s * VERSIONS_PER_SECOND \in Nat /\ t * VERSIONS_PER_SECOND \in Nat
           /\ s * VERSIONS_PER_SECOND <= t * VERSIONS_PER_SECOND
           /\ (t + 1) * VERSIONS_PER_SECOND = t * VERSIONS_PER_SECOND + VERSIONS_PER_SECOND
<1> DEFINE k == VERSIONS_PER_SECOND
<1>1. k \in Nat
  BY StreamAssumption
<1> HIDE DEF k
<1>2. t = s + (t - s) /\ t - s \in Nat
  OBVIOUS
<1>3. \A x, y \in Nat : x * k \in Nat /\ (x + y) * k = x * k + y * k
  BY <1>1
<1>4. t * k = s * k + (t - s) * k
  BY <1>2, <1>3
<1>5. s * k \in Nat /\ t * k \in Nat /\ (t - s) * k \in Nat
  BY <1>2, <1>3
<1>6. s * k <= t * k
  BY <1>4, <1>5
<1>7. (t + 1) * k = t * k + 1 * k /\ 1 * k = k
  BY <1>1, <1>3
<1> QED BY <1>5, <1>6, <1>7 DEF k

(* The limit in a second, from the first version of that second. *)
LEMMA LimitValue ==
    ASSUME NEW n \in 0..MaxTime, NEW b \in 0..n
    PROVE  /\ n * VERSIONS_PER_SECOND \in Nat
           /\ \A u \in Nat : Limit(n, b, u) = IF n = b THEN n * VERSIONS_PER_SECOND + VERSIONS_PER_SECOND + u
                                                     ELSE n * VERSIONS_PER_SECOND + MaxUpdates + u
<1>1. n \in Nat /\ n <= n
  BY StreamAssumption
<1>2. n * VERSIONS_PER_SECOND \in Nat /\ (n + 1) * VERSIONS_PER_SECOND = n * VERSIONS_PER_SECOND + VERSIONS_PER_SECOND
  BY <1>1, Scaled
<1> QED BY <1>2 DEF Limit

(* The limits in a second, from its first version x and that of the last.  *)
LEMMA LimitIs ==
    ASSUME NEW n \in 0..MaxTime, NEW b \in 0..n
    PROVE  \E x, z \in Nat :
               /\ x + VERSIONS_PER_SECOND <= z /\ Versions = 0..(z + MaxUpdates)
               /\ n * VERSIONS_PER_SECOND = x
               /\ (n + 1) * VERSIONS_PER_SECOND = x + VERSIONS_PER_SECOND
               /\ \A u \in Nat : Limit(n, b, u) =
                      IF n = b THEN x + VERSIONS_PER_SECOND + u ELSE x + MaxUpdates + u
<1> DEFINE k == VERSIONS_PER_SECOND
           x == n * k
           z == (MaxTime + 1) * k
<1>1. n \in Nat /\ n + 1 \in Nat /\ MaxTime + 1 \in Nat /\ n <= n /\ n + 1 <= MaxTime + 1
  BY StreamAssumption
<1>2. x \in Nat /\ (n + 1) * k = x + k
  BY <1>1, Scaled
<1>3. z \in Nat /\ (n + 1) * k <= z
  BY <1>1, Scaled
<1>4. Versions = 0..(z + MaxUpdates)
  BY DEF Versions
<1>5. \A u \in Nat : Limit(n, b, u) = IF n = b THEN x + k + u ELSE x + MaxUpdates + u
  BY <1>2 DEF Limit
<1> HIDE DEF z
<1> QED BY <1>2, <1>3, <1>4, <1>5

(* They are numbers. *)
LEMMA LimitNat ==
    ASSUME NEW n \in 0..MaxTime, NEW b \in 0..n, NEW u \in Nat
    PROVE  Limit(n, b, u) \in Nat
<1> DEFINE k == VERSIONS_PER_SECOND
<1>1. k \in Nat /\ MaxUpdates \in Nat
  BY StreamAssumption
<1>2. PICK x \in Nat : \A w \in Nat : Limit(n, b, w) = IF n = b THEN x + k + w ELSE x + MaxUpdates + w
  BY LimitIs
<1> HIDE DEF k
<1> QED BY <1>1, <1>2

(* A change of the LSA: its version stays within them. *)
LEMMA LimitUpdate ==
    ASSUME NEW n \in 0..MaxTime, NEW b \in 0..n, NEW u \in Nat, u < MaxUpdates, NEW v \in Nat, v <= Limit(n, b, u)
    PROVE  /\ NextVersion(v, n) \in Versions /\ NextVersion(v, n) > v
           /\ NextVersion(v, n) <= Limit(n, b, u + 1)
<1> DEFINE k == VERSIONS_PER_SECOND
<1>1. k \in Nat /\ MaxUpdates \in Nat /\ 2 * MaxUpdates < k
  BY StreamAssumption
<1>2. PICK x, z \in Nat :
          /\ x + k <= z /\ Versions = 0..(z + MaxUpdates) /\ n * k = x
          /\ \A w \in Nat : Limit(n, b, w) = IF n = b THEN x + k + w ELSE x + MaxUpdates + w
  BY LimitIs
<1>3. NextVersion(v, n) = IF x <= v THEN v + 1 ELSE x
  BY <1>2 DEF NextVersion
<1>4. /\ Limit(n, b, u) = IF n = b THEN x + k + u ELSE x + MaxUpdates + u
      /\ Limit(n, b, u + 1) = IF n = b THEN x + k + (u + 1) ELSE x + MaxUpdates + (u + 1)
  BY <1>2
<1>5. x + k <= z /\ Versions = 0..(z + MaxUpdates)
  BY <1>2
<1> HIDE DEF k
<1> QED BY <1>1, <1>3, <1>4, <1>5

(* A start of the daemon: its first version is higher than what an earlier *)
(* second has left.                                                        *)
LEMMA LimitRestart ==
    ASSUME NEW n \in 0..MaxTime
    PROVE  /\ (n + 1) * VERSIONS_PER_SECOND \in Versions
           /\ (n + 1) * VERSIONS_PER_SECOND <= Limit(n, n, 0)
           /\ (n + 1) * VERSIONS_PER_SECOND <= Limit(n, n, MaxUpdates)
           /\ \A b \in 0..n : Limit(n, b, MaxUpdates) <= Limit(n, n, MaxUpdates)
           /\ \A b \in 0..n : n > b => Limit(n, b, MaxUpdates) < (n + 1) * VERSIONS_PER_SECOND
           /\ \A b \in 0..n, u \in 0..MaxUpdates : Limit(n, b, u) <= Limit(n, b, MaxUpdates)
<1> DEFINE k == VERSIONS_PER_SECOND
<1>1. k \in Nat /\ MaxUpdates \in Nat /\ 2 * MaxUpdates < k /\ n \in 0..n
  BY StreamAssumption
<1>2. PICK x, z \in Nat :
          /\ x + k <= z /\ Versions = 0..(z + MaxUpdates) /\ n * k = x /\ (n + 1) * k = x + k
          /\ \A u \in Nat : Limit(n, n, u) = IF n = n THEN x + k + u ELSE x + MaxUpdates + u
  BY <1>1, LimitIs
<1>3. Limit(n, n, 0) = x + k /\ Limit(n, n, MaxUpdates) = x + k + MaxUpdates
  BY <1>1, <1>2
<1>4. ASSUME NEW b \in 0..n
      PROVE  \A u \in Nat : Limit(n, b, u) = IF n = b THEN x + k + u ELSE x + MaxUpdates + u
  <2>1. \A u \in Nat : Limit(n, b, u) = IF n = b THEN n * k + k + u ELSE n * k + MaxUpdates + u
    BY LimitValue
  <2>2. n * k = x
    BY <1>2
  <2> HIDE DEF k
  <2> QED BY <2>1, <2>2
<1>5. \A b \in 0..n : Limit(n, b, MaxUpdates) <= Limit(n, n, MaxUpdates)
  BY <1>1, <1>3, <1>4
<1>6. (n + 1) * k = x + k /\ x + k <= z /\ Versions = 0..(z + MaxUpdates)
  BY <1>2
<1> HIDE DEF k
<1>7. \A b \in 0..n : n > b => Limit(n, b, MaxUpdates) < x + k
  BY <1>1, <1>4
<1>8. \A b \in 0..n, u \in 0..MaxUpdates : Limit(n, b, u) <= Limit(n, b, MaxUpdates)
  BY <1>1, <1>4
<1>9. x + k \in Versions /\ x + k <= Limit(n, n, 0) /\ x + k <= Limit(n, n, MaxUpdates)
  BY <1>1, <1>3, <1>6
<1> QED BY <1>5, <1>6, <1>7, <1>8, <1>9 DEF k

(* The next second has room for what this one has left. *)
LEMMA LimitTick ==
    ASSUME NEW n \in 0..MaxTime, n < MaxTime, NEW b \in 0..n, NEW u \in 0..MaxUpdates
    PROVE  /\ Limit(n, b, u) \in Nat /\ Limit(n + 1, b, 0) \in Nat /\ Limit(n + 1, b, MaxUpdates) \in Nat
           /\ Limit(n, b, u) <= Limit(n + 1, b, 0) /\ Limit(n, b, u) <= Limit(n + 1, b, MaxUpdates)
<1> DEFINE k == VERSIONS_PER_SECOND
<1>1. k \in Nat /\ MaxUpdates \in Nat /\ 2 * MaxUpdates < k /\ n + 1 \in 0..MaxTime /\ b \in 0..(n + 1)
      /\ n + 1 # b /\ u \in Nat /\ u <= MaxUpdates
  BY StreamAssumption
<1>2. PICK x \in Nat : /\ (n + 1) * k = x + k
                       /\ \A w \in Nat : Limit(n, b, w) = IF n = b THEN x + k + w ELSE x + MaxUpdates + w
  BY LimitIs
<1>3. \A w \in Nat : Limit(n + 1, b, w) = IF n + 1 = b THEN (n + 1) * k + k + w ELSE (n + 1) * k + MaxUpdates + w
  BY <1>1, LimitValue
<1>4. (n + 1) * k = x + k
  BY <1>2
<1>5. Limit(n, b, u) = IF n = b THEN x + k + u ELSE x + MaxUpdates + u
  BY <1>1, <1>2
<1> HIDE DEF k
<1>6. Limit(n + 1, b, 0) = x + k + MaxUpdates + 0 /\ Limit(n + 1, b, MaxUpdates) = x + k + MaxUpdates + MaxUpdates
  BY <1>1, <1>3, <1>4
<1> QED BY <1>1, <1>5, <1>6

(* The own LSA is the signed one of some version and some peers. *)
IsMine(v, S, n, b, u, l, sg) ==
    /\ v \in Versions /\ S \in SUBSET Peers
    /\ l = Held(Made(v, S, <<>>))
    /\ v <= Limit(n, b, u)
    /\ <<<<v>>, SignedData(Made(v, S, <<>>))>> \in sg

(* It is, unless the daemon is aborting.  No version signed is beyond the  *)
(* limit of this second, nor, unless this run has started in the second of *)
(* another, beyond the version of the LSA.                                 *)
NodeInv ==
    /\ now \in 0..MaxTime /\ boot \in 0..now /\ updates \in 0..MaxUpdates /\ rushed \in BOOLEAN
    /\ me # ABORT => \E v, S : IsMine(v, S, now, boot, updates, me, signed)
    /\ \A s \in signed : s[1][1] \in Nat /\ s[1][1] <= Limit(now, boot, MaxUpdates)
    /\ ~ rushed /\ me # ABORT => \A s \in signed : s[1][1] <= Version(me)

(* What VersionsGrow asks of a step. *)
Grows == me' # me /\ me' # ABORT /\ ~ rushed' => \A s \in signed : s[1][1] < Version(me')

(* The LSA of version v becomes one of a new version, with the peers T. *)
LEMMA OwnPublish ==
    ASSUME NEW v, NEW S, NEW T \in SUBSET Peers, NEW l, l = OwnLsa({VersionA(v)}, {SignatureA(v)}, T, <<>>),
           NodeInv, me # ABORT, IsMine(v, S, now, boot, updates, me, signed),
           Publish(l)
    PROVE  NodeInv' /\ me' # ABORT /\ Grows /\ signed \subseteq signed'
<1> DEFINE w == NextVersion(v, now)
           m == lsa_sign(lsa_update_version(l))
           high == Limit(now, boot, MaxUpdates)
<1>0. now \in 0..MaxTime /\ boot \in 0..now /\ updates \in 0..MaxUpdates /\ rushed \in BOOLEAN
  BY DEF NodeInv
<1>1. v \in Nat /\ v \in Versions /\ now \in Nat /\ <<>> \in Bytes
  BY <1>0, OwnFits DEF IsMine, Bytes
<1>2. updates < MaxUpdates /\ updates \in Nat /\ updates + 1 \in 0..MaxUpdates
  BY <1>0, StreamAssumption DEF Publish
<1>3. w \in Versions /\ w > v /\ w <= Limit(now, boot, updates + 1) /\ w \in Nat
  <2>1. w \in Versions /\ w > v /\ w <= Limit(now, boot, updates + 1)
    BY <1>0, <1>1, <1>2, LimitUpdate DEF IsMine
  <2> HIDE DEF w
  <2> QED BY <2>1, OwnFits
<1>4. m = Made(w, T, <<>>)
  <2>1. lsa_update_version(l) = OwnLsa({VersionA(w)}, {SignatureA(v)}, T, <<>>)
    BY <1>1, OwnUpdate
  <2>2. Made(w, T, <<>>).bytes <= MAX_SERLEN
    <3> HIDE DEF w
    <3> QED BY <1>3, OwnFits
  <2>3. lsa_sign(OwnLsa({VersionA(w)}, {SignatureA(v)}, T, <<>>)) = Made(w, T, <<>>)
    <3> HIDE DEF w
    <3> QED BY <1>1, <1>3, <2>2, OwnSign
  <2> QED BY <2>1, <2>3
<1>5. /\ me' = Held(m) /\ updates' = updates + 1 /\ now' = now /\ boot' = boot /\ rushed' = rushed
      /\ signed' = IF m = ABORT THEN signed ELSE signed \cup {<<Signature(m), SignedData(m)>>}
  BY DEF Publish, m
<1> HIDE DEF w, m
<1>6. m # ABORT
  BY <1>1, <1>3, <1>4, MadeType
<1>7. Signature(m) = <<w>>
  <2>1. m.id = Me /\ m.attrs = Made(w, T, <<>>).attrs
    BY <1>1, <1>3, <1>4, MadeType
  <2> QED BY <1>1, <1>3, <2>1, MadeSigned
<1>8. signed' = signed \cup {<<<<w>>, SignedData(Made(w, T, <<>>))>>}
  BY <1>4, <1>5, <1>6, <1>7
<1>9. IsMine(w, T, now', boot', updates', me', signed')
  BY <1>3, <1>4, <1>5, <1>8 DEF IsMine
<1>10. me' # ABORT /\ Version(me') = w /\ Version(me) = v
  <2>1. me' = Held(Made(w, T, <<>>)) /\ me = Held(Made(v, S, <<>>)) /\ S \in SUBSET Peers
    BY <1>4, <1>5 DEF IsMine
  <2>2. Held(Made(w, T, <<>>)) # ABORT /\ Version(Held(Made(w, T, <<>>))) = w
    BY <1>3, HeldType
  <2>3. Version(Held(Made(v, S, <<>>))) = v
    BY <1>1, <2>1, HeldType
  <2>4. Version(me') = Version(Held(Made(w, T, <<>>)))
    BY <2>1
  <2> QED BY <2>1, <2>2, <2>3, <2>4
<1>11. \A s \in signed : s[1][1] \in Nat /\ s[1][1] <= high /\ (~ rushed => s[1][1] <= v)
  BY <1>10 DEF NodeInv
<1>12. w <= high /\ Limit(now', boot', MaxUpdates) = high
  <2>1. Limit(now, boot, updates + 1) <= high
    BY <1>0, <1>2, LimitRestart
  <2>2. high \in Nat /\ Limit(now, boot, updates + 1) \in Nat
    <3>1. MaxUpdates \in Nat /\ updates + 1 \in Nat
      BY <1>2, StreamAssumption
    <3> QED BY <1>0, <3>1, LimitNat
  <2>3. Limit(now', boot', MaxUpdates) = high
    BY <1>5
  <2> HIDE DEF high
  <2> QED BY <1>3, <2>1, <2>2, <2>3
<1> HIDE DEF high
<1>13. \A s \in signed' : s[1][1] \in Nat /\ s[1][1] <= high /\ (~ rushed => s[1][1] <= w)
  <2> SUFFICES ASSUME NEW s \in signed'
               PROVE  s[1][1] \in Nat /\ s[1][1] <= high /\ (~ rushed => s[1][1] <= w)
    OBVIOUS
  <2>1. CASE s \in signed
    BY <1>1, <1>3, <1>11, <2>1
  <2>2. CASE s = <<<<w>>, SignedData(Made(w, T, <<>>))>>
    <3>1. s[1][1] = w
      BY <2>2
    <3> QED BY <1>3, <1>12, <3>1
  <2> QED BY <1>8, <2>1, <2>2
<1>14. Grows
  BY <1>1, <1>3, <1>5, <1>10, <1>11 DEF Grows
<1>15. NodeInv'
  <2>1. now' \in 0..MaxTime /\ boot' \in 0..now' /\ updates' \in 0..MaxUpdates /\ rushed' \in BOOLEAN
    BY <1>0, <1>2, <1>5
  <2>2. \A s \in signed' : s[1][1] \in Nat /\ s[1][1] <= Limit(now', boot', MaxUpdates)
    BY <1>12, <1>13
  <2>3. ~ rushed' => \A s \in signed' : s[1][1] <= Version(me')
    BY <1>5, <1>10, <1>13
  <2> QED BY <1>9, <2>1, <2>2, <2>3 DEF NodeInv
<1> QED BY <1>8, <1>10, <1>14, <1>15

(* Nothing is added to an LSA that is not there, nor is it signed. *)
LEMMA Aborted ==
    ASSUME NEW l, NEW a, NEW b, NEW c, AddAttr(l, a) = ABORT
    PROVE  /\ AddAttr(AddAttr(AddAttr(l, a), b), c) = ABORT
           /\ Held(lsa_sign(lsa_update_version(ABORT))) = ABORT /\ lsa_sign(lsa_update_version(ABORT)) = ABORT
<1>1. \A x : AddAttr(ABORT, x) = ABORT
  BY DEF AddAttr
<1>2. AddAttr(AddAttr(l, a), b) = ABORT
  BY <1>1
<1>3. AddAttr(AddAttr(AddAttr(l, a), b), c) = ABORT
  BY <1>1, <1>2
<1>4. lsa_update_version(ABORT) = ABORT
  BY DEF lsa_update_version
<1>5. lsa_sign(ABORT) = ABORT
  BY DEF lsa_sign
<1>6. Held(ABORT) = ABORT
  BY DEF Held
<1> QED BY <1>3, <1>4, <1>5, <1>6

(* mylsa_add_peer() and mylsa_del_peer() *)
LEMMA NodeChanges ==
    ASSUME NodeInv, NEW p \in Peers, mylsa_add_peer(p) \/ mylsa_del_peer(p)
    PROVE  /\ NodeInv' /\ Grows /\ signed \subseteq signed'
           /\ me # ABORT /\ (me' = ABORT => IsPeer(p) /\ mylsa_add_peer(p))
           /\ UNCHANGED session
<1>0. me # ABORT
  BY DEF mylsa_add_peer, mylsa_del_peer
<1>1. PICK v, S : IsMine(v, S, now, boot, updates, me, signed)
  BY <1>0 DEF NodeInv
<1>2. v \in Nat /\ S \in SUBSET Peers /\ <<>> \in Bytes /\ me = Held(Made(v, S, <<>>))
  BY <1>1, OwnFits DEF IsMine, Bytes
<1>3. lsa_clone(me) = Made(v, S, <<>>) /\ (IsPeer(p) <=> p \in S)
  BY <1>2, HeldType DEF IsPeer
<1> DEFINE V == {VersionA(v)}
           G == {SignatureA(v)}
<1>4. IsOwn(V, G, S, <<>>) /\ Made(v, S, <<>>) = OwnLsa(V, G, S, <<>>)
  <2>1. IsOwn(V, G, S, <<>>)
    BY <1>2, MadeType
  <2> QED BY <2>1 DEF Made
<1>5. now \in 0..MaxTime /\ boot \in 0..now /\ updates \in 0..MaxUpdates
  BY DEF NodeInv
<1>6. CASE mylsa_add_peer(p) /\ p \notin S
  <2>1. Publish(WithPeer(lsa_clone(me), p))
    BY <1>6 DEF mylsa_add_peer
  <2>2. WithPeer(OwnLsa(V, G, S, <<>>), p) = OwnLsa(V, G, S \cup {p}, <<>>)
    <3> HIDE DEF V, G
    <3> QED BY <1>4, <1>6, OwnAdd
  <2> DEFINE T == S \cup {p}
             l == WithPeer(lsa_clone(me), p)
  <2>3. T \in SUBSET Peers /\ l = OwnLsa(V, G, T, <<>>)
    BY <1>2, <1>3, <1>4, <2>2
  <2>4. Publish(l)
    BY <2>1
  <2>5. UNCHANGED session
    BY <2>1 DEF Publish
  <2> HIDE DEF T, l
  <2> QED BY <1>0, <1>1, <2>3, <2>4, <2>5, OwnPublish
<1>7. CASE mylsa_add_peer(p) /\ p \in S
  <2> DEFINE m == Made(v, S, <<>>)
  <2>1. Publish(WithPeer(m, p))
    BY <1>3, <1>7 DEF mylsa_add_peer
  <2>2. m # ABORT /\ m.attrs = Own(V, G, S, <<>>)
    BY <1>2, MadeType
  <2> HIDE DEF m
  <2>3. lsa_find_attr(m, 2, p) # {}
    <3>1. \A q : lsa_find_attr(m, 2, q) = IF q \in S THEN {PeerAttr(q)} ELSE {}
      <4> HIDE DEF V, G
      <4> QED BY <1>4, <2>2, OwnFind
    <3> QED BY <1>7, <3>1
  <2>4. PeerAttr(p).at = <<>> /\ PeerAttr(p).type = 2 /\ PeerAttr(p).key = p
    BY PeerAttrs DEF Top
  <2> DEFINE a == PeerAttr(p)
  <2>5. AddAttr(m, a) = ABORT
    <3>1. lsa_attr_set_find_attr(m, a.at, a.type, a.key) # {}
      <4> HIDE DEF a
      <4> QED BY <2>3, <2>4 DEF lsa_find_attr, a
    <3> HIDE DEF a
    <3> QED BY <2>2, <3>1 DEF AddAttr
  <2>6. WithPeer(m, p) = ABORT
    BY <2>5, Aborted DEF WithPeer
  <2>7. Publish(ABORT)
    BY <2>1, <2>6
  <2>8. /\ me' = ABORT /\ signed' = signed /\ updates < MaxUpdates /\ updates' = updates + 1
        /\ now' = now /\ boot' = boot /\ rushed' = rushed /\ UNCHANGED session
    <3>1. lsa_sign(lsa_update_version(ABORT)) = ABORT /\ Held(lsa_sign(lsa_update_version(ABORT))) = ABORT
      BY <2>5, Aborted
    <3> QED BY <2>7, <3>1 DEF Publish
  <2>9. NodeInv'
    <3>1. updates' \in 0..MaxUpdates
      BY <1>5, <2>8, StreamAssumption
    <3> QED BY <2>8, <3>1 DEF NodeInv
  <2> QED BY <1>0, <1>3, <1>7, <2>8, <2>9 DEF Grows
<1>8. CASE mylsa_del_peer(p)
  <2>1. p \in S /\ Publish(WithoutPeer(lsa_clone(me), p))
    BY <1>3, <1>8 DEF mylsa_del_peer
  <2>2. WithoutPeer(OwnLsa(V, G, S, <<>>), p) = OwnLsa(V, G, S \ {p}, <<>>)
    <3>1. lsa_del_attr_bykey(OwnLsa(V, G, S, <<>>), 2, p) = OwnLsa(V, G, S \ {p}, <<>>)
      <4> HIDE DEF V, G
      <4> QED BY <1>4, <2>1, OwnDel
    <3>2. LSA_ATTR_TYPE.PEER = 2
      BY DEF LSA_ATTR_TYPE
    <3> HIDE DEF V, G
    <3> QED BY <3>1, <3>2 DEF WithoutPeer
  <2> DEFINE T == S \ {p}
             l == WithoutPeer(lsa_clone(me), p)
  <2>3. T \in SUBSET Peers /\ l = OwnLsa(V, G, T, <<>>)
    BY <1>2, <1>3, <1>4, <2>2
  <2>4. Publish(l)
    BY <2>1
  <2>5. UNCHANGED session
    BY <2>1 DEF Publish
  <2> HIDE DEF T, l
  <2> QED BY <1>0, <1>1, <2>3, <2>4, <2>5, OwnPublish
<1> QED BY <1>6, <1>7, <1>8

(* The LSA of a daemon that is being started. *)
LEMMA NodeStarts ==
    ASSUME NEW n \in 0..MaxTime
    PROVE  /\ Signature(FirstLsa(n)) = <<(n + 1) * VERSIONS_PER_SECOND>>
           /\ Version(Held(FirstLsa(n))) = (n + 1) * VERSIONS_PER_SECOND
           /\ Held(FirstLsa(n)) # ABORT
           /\ \A sg : <<Signature(FirstLsa(n)), SignedData(FirstLsa(n))>> \in sg =>
                IsMine((n + 1) * VERSIONS_PER_SECOND, {}, n, n, 0, Held(FirstLsa(n)), sg)
<1> DEFINE v == (n + 1) * VERSIONS_PER_SECOND
<1>1. v \in Versions /\ v <= Limit(n, n, 0)
  BY LimitRestart
<1>2. n \in Nat /\ {} \in SUBSET Peers /\ <<>> \in Bytes
  BY DEF Bytes
<1>3. FirstLsa(n) = Made(v, {}, <<>>) /\ v \in Nat
  <2>1. Made(v, {}, <<>>).bytes <= MAX_SERLEN
    <3> HIDE DEF v
    <3> QED BY <1>1, <1>2, OwnFits
  <2> QED BY <1>2, <2>1, OwnBegins
<1>4. v = (n + 1) * VERSIONS_PER_SECOND
  OBVIOUS
<1> HIDE DEF v
<1> DEFINE m == FirstLsa(n)
<1>5. Signature(m) = <<v>>
  <2> DEFINE e == {}
  <2>1. m = Made(v, e, <<>>) /\ e \in SUBSET Peers
    BY <1>2, <1>3
  <2> HIDE DEF e, m
  <2>2. m.id = Me /\ m.attrs = Made(v, e, <<>>).attrs
    BY <1>2, <1>3, <2>1, MadeType
  <2> QED BY <1>2, <1>3, <2>1, <2>2, MadeSigned
<1>6. Held(m) # ABORT /\ Version(Held(m)) = v
  <2>1. Held(Made(v, {}, <<>>)) # ABORT /\ Version(Held(Made(v, {}, <<>>))) = v
    <3> DEFINE e == {}
    <3>1. e \in SUBSET Peers
      OBVIOUS
    <3> HIDE DEF e
    <3>2. Held(Made(v, e, <<>>)) # ABORT /\ Version(Held(Made(v, e, <<>>))) = v
      BY <1>3, <3>1, HeldType
    <3> QED BY <3>2 DEF e
  <2> QED BY <1>3, <2>1
<1>7. ASSUME NEW sg, <<Signature(m), SignedData(m)>> \in sg
      PROVE  IsMine(v, {}, n, n, 0, Held(m), sg)
  BY <1>1, <1>2, <1>3, <1>5, <1>7 DEF IsMine
<1> QED BY <1>4, <1>5, <1>6, <1>7

(* The daemon is started again. *)
LEMMA NodeRestarts ==
    ASSUME NodeInv, Restart
    PROVE  NodeInv' /\ me' # ABORT /\ Grows /\ signed \subseteq signed'
<1>1. now \in 0..MaxTime /\ boot \in 0..now /\ updates \in 0..MaxUpdates /\ rushed \in BOOLEAN
  BY DEF NodeInv
<1>2. /\ boot' = now /\ now' = now /\ updates' = 0 /\ me' = Held(FirstLsa(now)) /\ rushed' = (now = boot)
      /\ signed' = signed \cup {<<Signature(FirstLsa(now)), SignedData(FirstLsa(now))>>}
  BY DEF Restart
<1> DEFINE w == (now + 1) * VERSIONS_PER_SECOND
           m == FirstLsa(now)
           high == Limit(now, boot, MaxUpdates)
           next == Limit(now, now, MaxUpdates)
<1>3. Version(Held(m)) = w /\ Held(m) # ABORT /\ Signature(m) = <<w>>
  BY <1>1, NodeStarts
<1>4. IsMine(w, {}, now, now, 0, Held(m), signed')
  <2> DEFINE sg == signed'
  <2>1. <<Signature(m), SignedData(m)>> \in sg
    BY <1>2
  <2> HIDE DEF sg
  <2>2. IsMine(w, {}, now, now, 0, Held(m), sg)
    BY <1>1, <2>1, NodeStarts
  <2> QED BY <2>2 DEF sg
<1>5. w \in Versions /\ w <= next /\ high <= next /\ (now > boot => high < w)
  BY <1>1, LimitRestart
<1>6. high \in Nat /\ next \in Nat
  <2>1. MaxUpdates \in Nat /\ now \in 0..now
    BY <1>1, StreamAssumption
  <2> QED BY <1>1, <2>1, LimitNat
<1>7. w \in Nat
  <2> HIDE DEF w
  <2> QED BY <1>5 DEF Versions
<1>8. \A s \in signed : s[1][1] \in Nat /\ s[1][1] <= high
  BY DEF NodeInv
<1>9. Version(me') = w /\ me' # ABORT /\ Limit(now', boot', MaxUpdates) = next
  BY <1>2, <1>3
<1>10. rushed' \in BOOLEAN /\ (~ rushed' => now > boot)
  <2>1. rushed' = (now = boot)
    BY <1>2
  <2>2. rushed' \in BOOLEAN
    BY <2>1
  <2>3. ~ rushed' => now # boot
    BY <2>1
  <2>4. now # boot => now > boot
    BY <1>1
  <2> QED BY <2>2, <2>3, <2>4
<1>11. signed' = signed \cup {<<<<w>>, SignedData(m)>>}
  BY <1>2, <1>3
<1> HIDE DEF w, m, high, next
<1>12. \A s \in signed : ~ rushed' => s[1][1] < w
  BY <1>5, <1>6, <1>7, <1>8, <1>10
<1>13. \A s \in signed' : s[1][1] \in Nat /\ s[1][1] <= next /\ (~ rushed' => s[1][1] <= w)
  <2> SUFFICES ASSUME NEW s \in signed'
               PROVE  s[1][1] \in Nat /\ s[1][1] <= next /\ (~ rushed' => s[1][1] <= w)
    OBVIOUS
  <2>1. CASE s \in signed
    BY <1>5, <1>6, <1>7, <1>8, <1>12, <2>1
  <2>2. CASE s = <<<<w>>, SignedData(m)>>
    <3>1. s[1][1] = w
      BY <2>2
    <3> QED BY <1>5, <1>7, <3>1
  <2> QED BY <1>11, <2>1, <2>2
<1>14. NodeInv'
  <2>1. IsMine(w, {}, now', boot', updates', me', signed')
    BY <1>2, <1>4 DEF m
  <2>2. now' \in 0..MaxTime /\ boot' \in 0..now' /\ updates' \in 0..MaxUpdates
    BY <1>1, <1>2, StreamAssumption
  <2> QED BY <1>9, <1>10, <1>13, <2>1, <2>2 DEF NodeInv
<1>15. Grows
  BY <1>9, <1>12 DEF Grows
<1> QED BY <1>9, <1>11, <1>14, <1>15

(* The time passes, or nothing happens to the node. *)
LEMMA NodeWaits ==
    ASSUME NodeInv, Tick \/ UNCHANGED node
    PROVE  NodeInv' /\ UNCHANGED <<me, signed>>
<1>1. CASE Tick
  <2>1. /\ now' = now + 1 /\ now < MaxTime /\ me' = me /\ boot' = boot /\ updates' = 0 /\ signed' = signed
        /\ rushed' = rushed
        /\ now \in 0..MaxTime /\ boot \in 0..now /\ updates \in 0..MaxUpdates /\ rushed \in BOOLEAN
    BY <1>1 DEF Tick, NodeInv
  <2> DEFINE high == Limit(now, boot, MaxUpdates)
             next == Limit(now', boot, MaxUpdates)
  <2>2. Limit(now, boot, updates) <= Limit(now', boot, 0)
        /\ Limit(now, boot, updates) \in Nat /\ Limit(now', boot, 0) \in Nat
    BY <2>1, LimitTick
  <2>3. high \in Nat /\ next \in Nat /\ high <= next
    <3>1. MaxUpdates \in 0..MaxUpdates
      BY StreamAssumption
    <3> QED BY <2>1, <3>1, LimitTick
  <2>4. ASSUME me # ABORT
        PROVE  \E v, S : IsMine(v, S, now', boot', updates', me', signed')
    <3>1. PICK v, S : IsMine(v, S, now, boot, updates, me, signed)
      BY <2>4 DEF NodeInv
    <3>2. v \in Nat /\ v <= Limit(now, boot, updates)
      BY <3>1, OwnFits DEF IsMine
    <3>3. v <= Limit(now', boot, 0)
      BY <2>2, <3>2
    <3>4. IsMine(v, S, now', boot', updates', me', signed')
      BY <2>1, <3>1, <3>3 DEF IsMine
    <3> QED BY <3>4
  <2>5. \A s \in signed : s[1][1] \in Nat /\ s[1][1] <= next
    <3>1. \A s \in signed : s[1][1] \in Nat /\ s[1][1] <= high
      BY DEF NodeInv
    <3> HIDE DEF high, next
    <3> QED BY <2>3, <3>1
  <2>6. now' \in 0..MaxTime /\ boot' \in 0..now' /\ updates' \in 0..MaxUpdates
    BY <2>1, StreamAssumption
  <2>7. ~ rushed /\ me # ABORT => \A s \in signed : s[1][1] <= Version(me)
    BY DEF NodeInv
  <2> QED BY <2>1, <2>4, <2>5, <2>6, <2>7 DEF NodeInv
<1>2. CASE UNCHANGED node
  <2>1. now' = now /\ me' = me /\ boot' = boot /\ updates' = updates /\ signed' = signed /\ rushed' = rushed
    BY <1>2 DEF node
  <2> QED BY <2>1 DEF NodeInv
<1> QED BY <1>1, <1>2

---------------------------------------------------------------------------
(* What is written.                                                        *)

(* A message: the withdrawal of the node, or an LSA it has signed, as it   *)
(* has come by some path.                                                  *)
IsMsg(l, sg) ==
    \/ l = FreshLsa(Me, {})
    \/ \E v \in Versions, S \in SUBSET Peers, p \in Paths :
          l = Made(v, S, p) /\ <<<<v>>, SignedData(Made(v, S, <<>>))>> \in sg

(* An LSA that can be written under the id i: it is not too long, its      *)
(* bytes are a frame, and what they hold is a message again.               *)
Sendable(l, i, sg) ==
    /\ OutLength(l, i) \in Nat /\ OutLength(l, i) <= MAX_SERLEN
    /\ IsFrame(OutBytes(l, i), Forwarded(l, i))
    /\ Forwarded(l, i) \in Lsas /\ IsMsg(Forwarded(l, i), sg)

(* The wire format of the attributes. *)
LEMMA CodecUsed ==
    ASSUME NEW v \in Versions, NEW S \in SUBSET Peers, NEW p \in Paths,
           AttrsSize(OwnAttrs(v, S, p)) <= MAX_SERLEN
    PROVE  LET A == OwnAttrs(v, S, p)
           IN  /\ lsa_attrs_serialise(A) \in Bytes
               /\ Len(lsa_attrs_serialise(A)) = lsa_attr_set_serialise_length(A)
               /\ lsa_deserialise_attr_set(lsa_alloc(Me), lsa_attrs_serialise(A)) = FreshLsa(Me, A)
<1> DEFINE A == OwnAttrs(v, S, p)
<1>1. A \in {{}} \cup {OwnAttrs(w, T, q) : w \in Versions, T \in SUBSET Peers, q \in Paths}
  OBVIOUS
<1>2. AttrsSize(A) <= MAX_SERLEN
  OBVIOUS
<1> HIDE DEF A
<1>3. /\ lsa_attrs_serialise(A) \in Bytes
      /\ Len(lsa_attrs_serialise(A)) = lsa_attr_set_serialise_length(A)
      /\ lsa_deserialise_attr_set(lsa_alloc(Me), lsa_attrs_serialise(A)) = FreshLsa(Me, A)
  BY <1>1, <1>2, CodecAssumption
<1> QED BY <1>3 DEF A

(* An LSA the node has signed, at any node. *)
LEMMA MadeSendable ==
    ASSUME NEW v \in Versions, NEW S \in SUBSET Peers, NEW p \in Paths,
           NEW i \in Bytes, Len(i) = NODE_ID_LEN, i \o p \in Paths,
           Made(v, S, p).bytes + NODE_ID_LEN <= MAX_SERLEN,
           NEW l, l.id = Me, l.attrs = Made(v, S, p).attrs,
           NEW sg, <<<<v>>, SignedData(Made(v, S, <<>>))>> \in sg
    PROVE  Sendable(l, i, sg)
<1> DEFINE q == i \o p
           A == OwnAttrs(v, S, q)
           n == OutLength(l, i)
           m == Made(v, S, p).bytes
           a == lsa_attrs_serialise(A)
<1>1. v \in Nat /\ p \in Bytes /\ q \in Paths /\ q \in Bytes
  BY OwnFits, PathsAssumption
<1>2. /\ Prepended(l.attrs, i) = A /\ OutAttrs(l, i) = A
      /\ n = NODE_ID_LEN + lsa_attr_set_serialise_length(A)
      /\ n \in Nat /\ AttrsSize(A) <= m + Len(i) /\ n <= m + Len(i)
  BY <1>1, MadeLength
<1> HIDE DEF q
<1>3. AttrSet(A) /\ AttrsSize(A) \in Nat /\ Made(v, S, q) = FreshLsa(Me, A) /\ Made(v, S, q) \in Lsas
  BY <1>1, MadeType
<1>4. m \in Nat /\ MAX_SERLEN \in Nat /\ NODE_ID_LEN \in Nat
  <2>1. m = MAX_SERIALISED_INT_LEN + NODE_ID_LEN + AttrsSize(OwnAttrs(v, S, p))
        /\ AttrsSize(OwnAttrs(v, S, p)) \in Nat
    BY <1>1, MadeType
  <2> QED BY <2>1, WireAssumption, StreamAssumption
<1> HIDE DEF A, m, n
<1>5. AttrsSize(A) <= MAX_SERLEN /\ n <= MAX_SERLEN
  <2>1. m + NODE_ID_LEN <= MAX_SERLEN
    BY DEF m
  <2> QED BY <1>2, <1>3, <1>4, <2>1
<1>6. /\ a \in Bytes /\ Len(a) = lsa_attr_set_serialise_length(A)
      /\ lsa_deserialise_attr_set(lsa_alloc(Me), a) = FreshLsa(Me, A)
  <2>1. AttrsSize(OwnAttrs(v, S, q)) <= MAX_SERLEN
    BY <1>5 DEF A
  <2> QED BY <1>1, <2>1, CodecUsed DEF A
<1>7. OutBytes(l, i) = WriteInt(n) \o Me \o lsa_attrs_serialise(OutAttrs(l, i))
  BY DEF OutBytes, OutAttrs, lsa_serialise, n, OutLength
<1>8. OutBytes(l, i) = WriteInt(NODE_ID_LEN + lsa_attr_set_serialise_length(A)) \o Me \o a
  BY <1>2, <1>7
<1> HIDE DEF a
<1>9. IsFrame(OutBytes(l, i), FreshLsa(Me, A))
  <2>1. NODE_ID_LEN + Len(a) <= MAX_SERLEN
    BY <1>2, <1>5, <1>6
  <2>2. IsFrame(WriteInt(NODE_ID_LEN + lsa_attr_set_serialise_length(A)) \o Me \o a, FreshLsa(Me, A))
    BY <1>3, <1>6, <2>1, WrittenFrame
  <2> QED BY <1>8, <2>2
<1>10. Forwarded(l, i) = Made(v, S, q)
  BY <1>2, <1>3 DEF Forwarded
<1>11. IsMsg(Made(v, S, q), sg)
  BY <1>1 DEF IsMsg
<1> QED BY <1>2, <1>3, <1>5, <1>9, <1>10, <1>11 DEF Sendable, n

(* The withdrawal. *)
LEMMA WithdrawalSendable ==
    ASSUME NEW sg
    PROVE  Sendable(Withdrawal(Me), Me, sg)
<1> DEFINE l == Withdrawal(Me)
           n == OutLength(l, Me)
           a == lsa_attrs_serialise({})
           k == lsa_attr_set_serialise_length({})
<1>1. Me \in Bytes /\ AttrSet({})
  BY NodeAssumption, FS_EmptySet DEF AttrSet
<1>2. AttrsSize({}) = 0
  BY <1>1, SizeType
<1>3. l.id = Me /\ l.attrs = {}
  BY DEF Withdrawal, lsa_alloc
<1>4. Prepended({}, Me) = {} /\ Written(l, FALSE, Me) = {}
  <2>1. Prepended({}, Me) = {}
    BY DEF Prepended
  <2>2. Visible({}, FALSE) = {}
    BY DEF Visible
  <2> HIDE DEF l
  <2>3. Visible(l.attrs, FALSE) = {}
    BY <1>3 DEF Visible
  <2>4. Written(l, FALSE, Me) = Prepended(Visible(l.attrs, FALSE), Me)
    BY DEF Written
  <2>5. Prepended(Visible(l.attrs, FALSE), Me) = {}
    BY <1>3 DEF Prepended, Visible
  <2> QED BY <2>1, <2>4, <2>5
<1> HIDE DEF l
<1>5. k \in Nat /\ k <= 0
  BY <1>1, <1>2, LengthBound
<1>6. n = NODE_ID_LEN + k /\ OutBytes(l, Me) = WriteInt(n) \o Me \o a
  BY <1>3, <1>4 DEF OutLength, OutBytes, lsa_serialise, lsa_serialise_length
<1>7. /\ a \in Bytes /\ Len(a) = k
      /\ lsa_deserialise_attr_set(lsa_alloc(Me), a) = FreshLsa(Me, {})
  <2>1. {} \in {{}} \cup {OwnAttrs(w, T, q) : w \in Versions, T \in SUBSET Peers, q \in Paths}
    OBVIOUS
  <2>2. AttrsSize({}) <= MAX_SERLEN
    BY <1>2, StreamAssumption
  <2> QED BY <2>1, <2>2, CodecAssumption
<1>8. NODE_ID_LEN <= MAX_SERLEN /\ NODE_ID_LEN \in Nat /\ MAX_SERLEN \in Nat
  <2>1. 0 \in Versions
    <3>1. MaxTime \in Nat /\ MaxUpdates \in Nat /\ VERSIONS_PER_SECOND \in Nat
      BY StreamAssumption
    <3>2. (MaxTime + 1) * VERSIONS_PER_SECOND \in Nat
      BY <3>1
    <3> QED BY <3>1, <3>2 DEF Versions
  <2> DEFINE e == {}
  <2>2. e \in SUBSET Peers
    OBVIOUS
  <2> HIDE DEF e
  <2>3. Made(0, e, <<>>).bytes \in Nat /\ Made(0, e, <<>>).bytes + NODE_ID_LEN <= MAX_SERLEN
    BY <2>1, <2>2, OwnFits
  <2> QED BY <2>3, WireAssumption, StreamAssumption
<1>9. n \in Nat /\ n <= MAX_SERLEN /\ NODE_ID_LEN + Len(a) <= MAX_SERLEN
  BY <1>5, <1>6, <1>7, <1>8
<1>10. IsFrame(OutBytes(l, Me), FreshLsa(Me, {}))
  <2> DEFINE e == {}
  <2>1. /\ AttrSet(e) /\ Len(a) = lsa_attr_set_serialise_length(e)
        /\ lsa_deserialise_attr_set(lsa_alloc(Me), a) = FreshLsa(Me, e)
    BY <1>1, <1>7
  <2>2. OutBytes(l, Me) = WriteInt(NODE_ID_LEN + lsa_attr_set_serialise_length(e)) \o Me \o a
    BY <1>6
  <2> HIDE DEF e, a
  <2>3. IsFrame(WriteInt(NODE_ID_LEN + lsa_attr_set_serialise_length(e)) \o Me \o a, FreshLsa(Me, e))
    BY <1>7, <1>9, <2>1, WrittenFrame
  <2> QED BY <2>2, <2>3 DEF e
<1>11. Forwarded(l, Me) = FreshLsa(Me, {})
  BY <1>3, <1>4 DEF Forwarded
<1>12. FreshLsa(Me, {}) \in Lsas /\ IsMsg(FreshLsa(Me, {}), sg)
  <2> DEFINE e == {}
  <2>1. AttrSet(e)
    BY <1>1
  <2> HIDE DEF e
  <2>2. FreshLsa(Me, e) \in Lsas
    BY <1>1, <2>1, FreshType
  <2> QED BY <2>2 DEF e, IsMsg
<1> QED BY <1>9, <1>10, <1>11, <1>12 DEF Sendable, l

(* What the node writes of its own. *)
LEMMA MineSendable ==
    ASSUME NodeInv, me # ABORT
    PROVE  Sendable(me, Me, signed)
<1>1. PICK v, S : IsMine(v, S, now, boot, updates, me, signed)
  BY DEF NodeInv
<1>2. /\ v \in Versions /\ S \in SUBSET Peers /\ me = Held(Made(v, S, <<>>))
      /\ <<<<v>>, SignedData(Made(v, S, <<>>))>> \in signed
  BY <1>1 DEF IsMine
<1>3. v \in Nat /\ Made(v, S, <<>>).bytes + NODE_ID_LEN <= MAX_SERLEN
  BY <1>2, OwnFits
<1>4. me.id = Me /\ me.attrs = Made(v, S, <<>>).attrs
  BY <1>2, <1>3, HeldType
<1>5. Me \in Bytes /\ Len(Me) = NODE_ID_LEN /\ <<>> \in Paths /\ Me \in Paths
  BY NodeAssumption, PathsAssumption
<1>6. Me \o <<>> = Me
  BY <1>5, ConcatEmptySeq DEF Bytes
<1>7. Me \o <<>> \in Paths
  BY <1>5, <1>6
<1> QED BY <1>2, <1>3, <1>4, <1>5, <1>7, MadeSendable

(* What the next node writes of what it has received. *)
LEMMA ReceivedSendable ==
    ASSUME NEW l, NEW sg, IsMsg(l, sg), NEW i \in Others, Usable(l, i)
    PROVE  Sendable(l, i, sg)
<1>1. l # FreshLsa(Me, {})
  <2> DEFINE e == {}
             m == FreshLsa(Me, e)
  <2>1. AttrSet(e) /\ Me \in Bytes
    BY FS_EmptySet, NodeAssumption DEF AttrSet
  <2>2. m.attrs = {}
    <3> HIDE DEF e
    <3>1. FreshLsa(Me, e).attrs = e
      BY <2>1, FreshType
    <3> QED BY <3>1 DEF e
  <2> HIDE DEF m
  <2>3. ~ Has(m, LSA_ATTR_TYPE.ADV_PATH)
    BY <2>2 DEF Has, lsa_find_attr, lsa_attr_set_find_attr
  <2>4. Has(l, LSA_ATTR_TYPE.ADV_PATH)
    BY DEF Usable
  <2> QED BY <2>3, <2>4 DEF m
<1>2. PICK v \in Versions, S \in SUBSET Peers, p \in Paths :
        l = Made(v, S, p) /\ <<<<v>>, SignedData(Made(v, S, <<>>))>> \in sg
  BY <1>1 DEF IsMsg
<1>3. v \in Nat /\ p \in Bytes /\ i \in Bytes /\ Len(i) = NODE_ID_LEN
  BY OwnFits, PathsAssumption, NodeAssumption
<1>4. l.id = Me /\ l.attrs = Made(v, S, p).attrs
  BY <1>2, <1>3, MadeType
<1>5. Path(l) = p
  BY <1>3, <1>4, MadeSigned
<1>6. i \o p \in Paths
  BY <1>5, PathsAssumption DEF Usable
<1>7. Made(v, S, p).bytes + NODE_ID_LEN <= MAX_SERLEN
  <2>1. l.bytes + NODE_ID_LEN <= LSA_MAX_BYTES
    BY DEF Usable
  <2>2. Made(v, S, p).bytes = MAX_SERIALISED_INT_LEN + NODE_ID_LEN + AttrsSize(OwnAttrs(v, S, p))
        /\ AttrsSize(OwnAttrs(v, S, p)) \in Nat
    BY <1>3, MadeType
  <2>3. l.bytes \in Nat /\ l.bytes = Made(v, S, p).bytes
    BY <1>2, <2>2, WireAssumption
  <2> QED BY <2>1, <2>3, WireAssumption, StreamAssumption
<1> QED BY <1>2, <1>3, <1>4, <1>6, <1>7, MadeSendable

---------------------------------------------------------------------------
(* The session.                                                            *)

SessionInv ==
    /\ wr \in {"open", "closed"} /\ rd \in {"open", "closed", "failed"}
    /\ net \in Bytes /\ IsAt(buf, off) /\ Len(buf) <= BUFSIZE
    /\ sent \in Seq(Lsas) /\ rcvd \in Seq(Lsas) /\ Starts(rcvd, sent)
    /\ rd = "closed" => wr = "closed"
    /\ rd # "open" => off = NULL
    /\ rd = "open" => Streaming(buf, off, net, sent, Len(rcvd), wr)

(* What was written are messages. *)
MessagesInv == \A k \in 1..Len(sent) : IsMsg(sent[k], signed)

ChannelStep == [Channel!Next]_(Channel!vars)

(* One element more. *)
LEMMA OneMore ==
    ASSUME NEW T, NEW s \in Seq(T), NEW m \in T
    PROVE  /\ Append(s, m) \in Seq(T) /\ Len(Append(s, m)) = Len(s) + 1
           /\ Starts(s, Append(s, m)) /\ Append(s, m)[Len(s) + 1] = m
           /\ \A k \in 1..Len(s) : Append(s, m)[k] = s[k]
<1>1. Len(s) \in Nat
  BY LenProperties
<1>2. /\ Append(s, m) \in Seq(T) /\ Len(Append(s, m)) = Len(s) + 1
      /\ \A k \in 1..Len(s) : Append(s, m)[k] = s[k]
      /\ Append(s, m)[Len(s) + 1] = m
  BY AppendProperties
<1> QED BY <1>1, <1>2 DEF Starts

(* Starts is IsPrefix, the form MsgChannel has it in. *)
LEMMA StartsIsPrefix ==
    ASSUME NEW T, NEW s \in Seq(T), NEW t \in Seq(T), Starts(s, t)
    PROVE  Channel!IsPrefix(s, t)
<1>1. Len(s) \in Nat /\ Len(t) \in Nat /\ Len(s) <= Len(t) /\ \A k \in 1..Len(s) : t[k] = s[k]
  BY LenProperties DEF Starts
<1> DEFINE u == SubSeq(t, 1, Len(s))
<1>2. SubSeq(s, 1, Len(s)) = s
  BY SubSeqFull
<1>3. u \in Seq(T) /\ Len(u) = Len(s) /\ \A k \in 1..Len(s) : u[k] = t[k]
  <2>1. 0 \in 0..Len(t) /\ Len(s) \in 0..Len(t) /\ 0 + 1 = 1 /\ Len(s) - 0 = Len(s)
    BY <1>1
  <2>2. SubSeq(t, 0 + 1, Len(s)) \in Seq(T) /\ Len(SubSeq(t, 0 + 1, Len(s))) = Len(s) - 0
        /\ \A k \in 1..(Len(s) - 0) : SubSeq(t, 0 + 1, Len(s))[k] = t[0 + k]
    BY <2>1, Slice
  <2>3. \A k \in 1..Len(s) : 0 + k = k
    BY <1>1
  <2> QED BY <2>1, <2>2, <2>3
<1> HIDE DEF u
<1>4. s = u
  BY <1>1, <1>3, SeqEqual
<1> QED BY <1>1, <1>2, <1>4 DEF Channel!IsPrefix, u

(* What is left at the front stays there. *)
LEMMA StartsStarts ==
    ASSUME NEW T, NEW s \in Seq(T), NEW t \in Seq(T), NEW u \in Seq(T), Starts(s, t), Starts(t, u)
    PROVE  Starts(s, u)
<1>1. Len(s) \in Nat /\ Len(t) \in Nat /\ Len(u) \in Nat
  BY LenProperties
<1> QED BY <1>1 DEF Starts

(* dgp_writer_output_lsa() *)
LEMMA SessionOutput ==
    ASSUME SessionInv, MessagesInv, NEW l, NEW i, Sendable(l, i, signed), Output(l, i)
    PROVE  SessionInv' /\ MessagesInv' /\ ChannelStep /\ me' = me
<1> DEFINE b == OutBytes(l, i)
           m == Forwarded(l, i)
<1>1. m \in Lsas /\ IsFrame(b, m) /\ IsMsg(m, signed) /\ OutLength(l, i) \in Nat /\ OutLength(l, i) <= MAX_SERLEN
  BY DEF Sendable
<1>2. ~ (OutLength(l, i) > MAX_SERLEN)
  BY <1>1, StreamAssumption
<1>3. wr = "open" /\ UNCHANGED <<now, boot, updates, signed, wr, rd, buf, off, rcvd>>
  BY DEF Output
<1>4. net' = net \o b /\ sent' = Append(sent, m) /\ me' = me
  BY <1>2 DEF Output, OutLength, OutBytes
<1> HIDE DEF b, m
<1>5. /\ net \in Bytes /\ IsAt(buf, off) /\ sent \in Seq(Lsas) /\ rcvd \in Seq(Lsas) /\ Starts(rcvd, sent)
      /\ rd \in {"open", "failed"} /\ Len(buf) <= BUFSIZE
      /\ rd = "open" => Streaming(buf, off, net, sent, Len(rcvd), "open")
      /\ rd = "failed" => off = NULL
  BY <1>3 DEF SessionInv
<1>6. /\ sent' \in Seq(Lsas) /\ Len(sent') = Len(sent) + 1 /\ Starts(sent, sent') /\ sent'[Len(sent) + 1] = m
      /\ \A k \in 1..Len(sent) : sent'[k] = sent[k]
  <2>1. /\ Append(sent, m) \in Seq(Lsas) /\ Len(Append(sent, m)) = Len(sent) + 1
        /\ Starts(sent, Append(sent, m)) /\ Append(sent, m)[Len(sent) + 1] = m
        /\ \A k \in 1..Len(sent) : Append(sent, m)[k] = sent[k]
    BY <1>1, <1>5, OneMore
  <2> QED BY <1>4, <2>1
<1>7. net' \in Bytes
  BY <1>1, <1>4, <1>5, FrameSize, Joined DEF Bytes
<1>8. ASSUME rd = "open" PROVE Streaming(buf, off, net', sent', Len(rcvd), "open")
  <2> DEFINE R == sent'
             r == Len(rcvd)
  <2>1. R \in Seq(Lsas) /\ Len(R) = Len(sent) + 1 /\ Starts(sent, R) /\ R[Len(sent) + 1] = m
    BY <1>6
  <2> HIDE DEF R, r
  <2>2. Streaming(buf, off, net, sent, r, "open")
    BY <1>5, <1>8 DEF r
  <2>3. Streaming(buf, off, net \o b, R, r, "open")
    BY <1>1, <1>5, <2>1, <2>2, StreamWritten
  <2> QED BY <1>4, <2>3 DEF R, r
<1>9. Starts(rcvd, sent')
  <2> DEFINE R == sent'
  <2>1. R \in Seq(Lsas) /\ Starts(sent, R)
    BY <1>6
  <2> HIDE DEF R
  <2>2. Starts(rcvd, R)
    BY <1>5, <2>1, StartsStarts
  <2> QED BY <2>2 DEF R
<1>10. SessionInv'
  <2>1. rd' = rd /\ wr' = "open" /\ buf' = buf /\ off' = off /\ rcvd' = rcvd
    BY <1>3, <1>5
  <2> QED BY <1>5, <1>6, <1>7, <1>8, <1>9, <2>1 DEF SessionInv
<1>11. MessagesInv'
  <2>1. signed' = signed /\ Len(sent) \in Nat
    BY <1>3, <1>5, LenProperties
  <2> SUFFICES ASSUME NEW k \in 1..(Len(sent) + 1) PROVE IsMsg(sent'[k], signed)
    BY <1>6, <2>1 DEF MessagesInv
  <2>2. CASE k = Len(sent) + 1
    BY <1>1, <1>6, <2>2
  <2>3. CASE k \in 1..Len(sent)
    BY <1>6, <2>3 DEF MessagesInv
  <2> QED BY <2>1, <2>2, <2>3
<1>12. ChannelStep
  <2>1. Channel!IsPrefix(sent, sent')
    <3> DEFINE R == sent'
    <3>1. R \in Seq(Lsas) /\ Starts(sent, R)
      BY <1>6
    <3> HIDE DEF R
    <3>2. Channel!IsPrefix(sent, R)
      BY <1>5, <3>1, StartsIsPrefix
    <3> QED BY <3>2 DEF R
  <2>2. Channel!Write
    BY <1>3, <1>6, <2>1 DEF Channel!Write
  <2> QED BY <2>2 DEF ChannelStep, Channel!Next
<1> QED BY <1>4, <1>10, <1>11, <1>12

(* A write() that fails. *)
LEMMA SessionFails ==
    ASSUME SessionInv, MessagesInv, \A o \in Outgoing \cup {<<Withdrawal(Me), Me>>} : Sendable(o[1], o[2], signed),
           WriteFails
    PROVE  SessionInv' /\ MessagesInv' /\ ChannelStep
<1>1. PICK o \in Outgoing \cup {<<Withdrawal(Me), Me>>} :
        /\ wr = "open"
        /\ \E n \in WriteSizes : n < Len(OutBytes(o[1], o[2])) /\ net' = net \o SubSeq(OutBytes(o[1], o[2]), 1, n)
        /\ wr' = "closed"
        /\ UNCHANGED <<node, rd, buf, off, sent, rcvd>>
  BY DEF WriteFails, OutBytes
<1> DEFINE b == OutBytes(o[1], o[2])
           m == Forwarded(o[1], o[2])
<1>2. IsFrame(b, m)
  BY DEF Sendable
<1>3. PICK n \in WriteSizes : n < Len(b) /\ net' = net \o SubSeq(b, 1, n)
  BY <1>1
<1> HIDE DEF b, m
<1>4. /\ net \in Bytes /\ IsAt(buf, off) /\ sent \in Seq(Lsas) /\ rcvd \in Seq(Lsas) /\ Starts(rcvd, sent)
      /\ rd \in {"open", "failed"} /\ Len(buf) <= BUFSIZE
      /\ rd = "open" => Streaming(buf, off, net, sent, Len(rcvd), "open")
      /\ rd = "failed" => off = NULL
  BY <1>1 DEF SessionInv
<1>5. n \in Nat
  BY StreamAssumption
<1>6. net' \in Bytes
  <2>1. b \in Seq(Nat) /\ n \in 0..Len(b) /\ 0 \in 0..Len(b) /\ 0 + 1 = 1
    <3>1. b \in Bytes /\ Len(b) \in Nat
      BY <1>2, FrameSize
    <3> QED BY <1>3, <1>5, <3>1 DEF Bytes
  <2>2. SubSeq(b, 0 + 1, n) \in Seq(Nat)
    BY <1>5, <2>1, Slice
  <2>3. SubSeq(b, 1, n) \in Seq(Nat)
    BY <2>1, <2>2
  <2> QED BY <1>3, <1>4, <2>3, Joined DEF Bytes
<1>7. ASSUME rd = "open" PROVE Streaming(buf, off, net', sent, Len(rcvd), "closed")
  <2> DEFINE r == Len(rcvd)
  <2>1. Streaming(buf, off, net, sent, r, "open")
    BY <1>4, <1>7
  <2> HIDE DEF r
  <2>2. Streaming(buf, off, net \o SubSeq(b, 1, n), sent, r, "closed")
    BY <1>2, <1>3, <1>4, <1>5, <2>1, StreamCut
  <2> QED BY <1>3, <2>2 DEF r
<1>8. rd' = rd /\ wr' = "closed" /\ buf' = buf /\ off' = off /\ rcvd' = rcvd /\ sent' = sent /\ signed' = signed
  BY <1>1, <1>4 DEF node
<1>9. SessionInv'
  BY <1>4, <1>6, <1>7, <1>8 DEF SessionInv
<1>10. MessagesInv'
  BY <1>8 DEF MessagesInv
<1>11. Channel!CloseWriter
  BY <1>1, <1>4, <1>8 DEF Channel!CloseWriter
<1> QED BY <1>9, <1>10, <1>11 DEF ChannelStep, Channel!Next

(* A daemon that called abort(): its end is closed. *)
LEMMA SessionExits ==
    ASSUME SessionInv, MessagesInv, Exit
    PROVE  SessionInv' /\ MessagesInv' /\ ChannelStep
<1>1. /\ wr = "open" /\ wr' = "closed" /\ net' = net /\ rd' = rd /\ buf' = buf /\ off' = off
      /\ sent' = sent /\ rcvd' = rcvd /\ signed' = signed
  BY DEF Exit, node
<1>2. /\ net \in Bytes /\ IsAt(buf, off) /\ sent \in Seq(Lsas) /\ rcvd \in Seq(Lsas) /\ Starts(rcvd, sent)
      /\ rd \in {"open", "failed"} /\ Len(buf) <= BUFSIZE
      /\ rd = "open" => Streaming(buf, off, net, sent, Len(rcvd), "open")
      /\ rd = "failed" => off = NULL
  BY <1>1 DEF SessionInv
<1>3. rd = "open" => Streaming(buf, off, net, sent, Len(rcvd), "closed")
  BY <1>2 DEF Streaming, Ends
<1>4. SessionInv'
  BY <1>1, <1>2, <1>3 DEF SessionInv
<1>5. MessagesInv'
  BY <1>1 DEF MessagesInv
<1>6. Channel!CloseWriter
  BY <1>1 DEF Channel!CloseWriter
<1> QED BY <1>4, <1>5, <1>6 DEF ChannelStep, Channel!Next

(* A keepalive. *)
LEMMA SessionKeepalive ==
    ASSUME SessionInv, MessagesInv, dgp_writer_send_keepalive
    PROVE  SessionInv' /\ MessagesInv' /\ ChannelStep
<1>1. /\ wr = "open" /\ net' = Append(net, 0) /\ wr' = wr /\ rd' = rd /\ buf' = buf /\ off' = off
      /\ sent' = sent /\ rcvd' = rcvd /\ signed' = signed
  BY DEF dgp_writer_send_keepalive, node
<1>2. /\ net \in Bytes /\ IsAt(buf, off) /\ sent \in Seq(Lsas) /\ rcvd \in Seq(Lsas) /\ Starts(rcvd, sent)
      /\ rd \in {"open", "failed"} /\ Len(buf) <= BUFSIZE
      /\ rd = "open" => Streaming(buf, off, net, sent, Len(rcvd), "open")
      /\ rd = "failed" => off = NULL
  BY <1>1 DEF SessionInv
<1>3. net' = net \o <<0>>
  <2>1. net \in Seq(Nat) /\ 0 \in Nat
    BY <1>2 DEF Bytes
  <2>2. Append(net, 0) = net \o <<0>>
    BY <2>1, AppendIsConcat
  <2> QED BY <1>1, <2>2
<1>4. net' \in Bytes
  <2>1. IsFrame(<<0>>, NULL)
    BY KeepaliveFrame
  <2>2. <<0>> \in Bytes
    BY <2>1, FrameSize
  <2> QED BY <1>2, <1>3, <2>2, Joined DEF Bytes
<1>5. ASSUME rd = "open" PROVE Streaming(buf, off, net', sent, Len(rcvd), "open")
  <2> DEFINE r == Len(rcvd)
             f == <<0>>
  <2>1. Streaming(buf, off, net, sent, r, "open") /\ IsFrame(f, NULL)
    BY <1>2, <1>5, KeepaliveFrame
  <2> HIDE DEF r, f
  <2>2. Streaming(buf, off, net \o f, sent, r, "open")
    BY <1>2, <2>1, StreamWritten
  <2> QED BY <1>3, <2>2 DEF r, f
<1>6. SessionInv'
  BY <1>1, <1>2, <1>4, <1>5 DEF SessionInv
<1>7. MessagesInv'
  BY <1>1 DEF MessagesInv
<1>8. UNCHANGED Channel!vars
  BY <1>1 DEF Channel!vars
<1> QED BY <1>6, <1>7, <1>8 DEF ChannelStep

(* A session begins, or the node goes down. *)
LEMMA SessionBegins ==
    ASSUME wr' = rd', wr' \in {"open", "closed"}, net' = <<>>, buf' = <<>>, off' = NULL, sent' = <<>>, rcvd' = <<>>
    PROVE  SessionInv' /\ MessagesInv'
<1>1. <<>> \in Bytes /\ <<>> \in Seq(Lsas) /\ Len(<<>>) = 0 /\ 0 <= BUFSIZE
  BY StreamAssumption DEF Bytes
<1>2. Starts(<<>>, <<>>)
  BY <1>1 DEF Starts
<1>3. IsAt(<<>>, NULL)
  BY <1>1 DEF IsAt
<1>4. Streaming(buf', off', net', sent', Len(rcvd'), "open")
  BY <1>1, StreamBegins
<1>5. SessionInv'
  BY <1>1, <1>2, <1>3, <1>4 DEF SessionInv
<1>6. MessagesInv'
  BY DEF MessagesInv
<1> QED BY <1>5, <1>6

(* dgp_reader_register() *)
LEMMA SessionOpens ==
    ASSUME Open
    PROVE  SessionInv' /\ MessagesInv' /\ ChannelStep
<1>1. /\ wr' = rd' /\ wr' \in {"open", "closed"} /\ net' = <<>> /\ buf' = <<>> /\ off' = NULL
      /\ sent' = <<>> /\ rcvd' = <<>>
  BY DEF Open
<1>2. Channel!Open
  BY DEF Open, Channel!Open
<1> QED BY <1>1, <1>2, SessionBegins DEF ChannelStep, Channel!Next

(* The session is lost with the node. *)
LEMMA SessionLost ==
    ASSUME Restart
    PROVE  SessionInv' /\ MessagesInv' /\ ChannelStep
<1>1. /\ wr' = rd' /\ wr' \in {"open", "closed"} /\ net' = <<>> /\ buf' = <<>> /\ off' = NULL
      /\ sent' = <<>> /\ rcvd' = <<>>
  BY DEF Restart
<1>2. Channel!Reset
  BY DEF Restart, Channel!Reset
<1> QED BY <1>1, <1>2, SessionBegins DEF ChannelStep, Channel!Next

(* dgp_reader_read() *)
LEMMA SessionReads ==
    ASSUME SessionInv, MessagesInv, NEW k, k \in Nat, dgp_reader_read(k)
    PROVE  SessionInv' /\ MessagesInv' /\ ChannelStep
<1>1. /\ rd = "open" /\ off = NULL /\ k <= Available /\ net' = Drop(net, k) /\ buf' = buf \o SubSeq(net, 1, k)
      /\ off' = 0 /\ wr' = wr /\ rd' = rd /\ sent' = sent /\ rcvd' = rcvd /\ signed' = signed
  BY DEF dgp_reader_read, node
<1>2. /\ net \in Bytes /\ buf \in Bytes /\ sent \in Seq(Lsas) /\ rcvd \in Seq(Lsas) /\ Starts(rcvd, sent)
      /\ Streaming(buf, NULL, net, sent, Len(rcvd), wr) /\ Len(buf) <= BUFSIZE /\ wr \in {"open", "closed"}
  BY <1>1 DEF SessionInv, IsAt
<1>3. Len(net) \in Nat /\ Len(buf) \in Nat /\ BUFSIZE \in Nat /\ BUFSIZE - Len(buf) \in Nat
  BY <1>2, LenProperties, StreamAssumption DEF Bytes
<1>4. k <= Len(net) /\ k <= BUFSIZE - Len(buf)
  <2>1. Available \in Nat /\ Available <= Len(net) /\ Available <= BUFSIZE - Len(buf)
    <3> DEFINE x == Len(net)
               y == BUFSIZE - Len(buf)
    <3>1. x \in Nat /\ y \in Nat
      BY <1>3
    <3>2. Available = Min({x, y})
      BY DEF Available
    <3> HIDE DEF x, y
    <3>3. {x, y} \subseteq Nat /\ {x, y} # {} /\ x \in {x, y} /\ y \in {x, y}
      BY <3>1
    <3> DEFINE Z == {x, y}
    <3>4. Z \subseteq Nat /\ x \in Z /\ y \in Z /\ Available = Min(Z)
      BY <3>2, <3>3
    <3> HIDE DEF Z
    <3>5. Min(Z) \in Z /\ \A z \in Z : Min(Z) <= z
      BY <3>4, MinProps
    <3>6. Available \in Nat /\ Available <= x /\ Available <= y
      BY <3>4, <3>5
    <3> QED BY <3>6 DEF x, y
  <2> QED BY <1>1, <1>3, <2>1
<1> DEFINE B == buf \o SubSeq(net, 1, k)
           D == Drop(net, k)
           r == Len(rcvd)
<1>5. Streaming(B, 0, D, sent, r, wr) /\ B \in Bytes /\ Len(B) = Len(buf) + k /\ D \in Bytes
  <2>1. k \in 0..Len(net)
    BY <1>3, <1>4
  <2>2. Streaming(buf, NULL, net, sent, r, wr)
    BY <1>2
  <2> HIDE DEF r
  <2> QED BY <1>2, <2>1, <2>2, StreamRead
<1> HIDE DEF B, D
<1>6. buf' = B /\ net' = D
  BY <1>1 DEF B, D
<1>7. IsAt(B, 0) /\ Len(B) <= BUFSIZE
  <2>1. 0 \in 0..Len(B)
    BY <1>3, <1>5
  <2> QED BY <1>3, <1>4, <1>5, <2>1 DEF IsAt
<1>8. SessionInv'
  BY <1>1, <1>2, <1>5, <1>6, <1>7 DEF SessionInv, r
<1>9. MessagesInv'
  BY <1>1 DEF MessagesInv
<1>10. UNCHANGED Channel!vars
  BY <1>1 DEF Channel!vars
<1> QED BY <1>8, <1>9, <1>10 DEF ChannelStep

(* A turn of the reader's loop, or its end. *)
LEMMA SessionTurns ==
    ASSUME SessionInv, MessagesInv, Loop
    PROVE  SessionInv' /\ MessagesInv' /\ ChannelStep
<1> DEFINE a == NextLsa
           r == Len(rcvd)
<1>1. /\ off # NULL /\ wr' = wr /\ net' = net /\ sent' = sent /\ signed' = signed
  BY DEF Loop, node
<1>2. /\ rd = "open" /\ net \in Bytes /\ buf \in Bytes /\ off \in 0..Len(buf) /\ Len(buf) <= BUFSIZE
      /\ sent \in Seq(Lsas) /\ rcvd \in Seq(Lsas) /\ Starts(rcvd, sent) /\ wr \in {"open", "closed"}
      /\ Streaming(buf, off, net, sent, r, wr)
  BY <1>1 DEF SessionInv, IsAt
<1>3. r \in Nat /\ Len(sent) \in Nat /\ Len(buf) \in Nat /\ BUFSIZE \in Nat /\ r <= Len(sent)
  BY <1>2, LenProperties, StreamAssumption DEF Bytes, Starts
<1>4. a = IF off < Len(buf) THEN lsa_deserialise(Drop(buf, off)) ELSE Answer(0, NULL)
  BY DEF NextLsa
<1>5. /\ a.ret > 0 => off' = off + a.ret /\ HandOver(a.lsa) /\ buf' = buf /\ rd' = rd
      /\ ~ (a.ret > 0) => /\ off' = NULL /\ buf' = Drop(buf, off) /\ rcvd' = rcvd
                          /\ rd' = IF off < Len(buf) /\ (a.ret < 0 \/ (a.ret = 0 /\ off = 0 /\ Len(buf) = BUFSIZE))
                                   THEN "closed" ELSE rd
  BY DEF Loop, Refused
<1> HIDE DEF a
<1>6. \/ /\ a.ret > 0 /\ off + a.ret \in 0..Len(buf)
         /\ \/ a.lsa = NULL /\ Streaming(buf, off + a.ret, net, sent, r, wr)
            \/ r + 1 <= Len(sent) /\ a.lsa = sent[r + 1] /\ Streaming(buf, off + a.ret, net, sent, r + 1, wr)
      \/ /\ a.ret = 0 /\ Drop(buf, off) \in Bytes /\ Len(Drop(buf, off)) < BUFSIZE
         /\ Len(Drop(buf, off)) = Len(buf) - off
         /\ Streaming(Drop(buf, off), NULL, net, sent, r, wr)
  <2> HIDE DEF r
  <2> QED BY <1>2, <1>4, StreamTurn
<1>7. MessagesInv'
  BY <1>1 DEF MessagesInv
<1>8. CASE a.ret > 0 /\ off + a.ret \in 0..Len(buf) /\ a.lsa = NULL /\ Streaming(buf, off + a.ret, net, sent, r, wr)
  <2>1. off' = off + a.ret /\ rcvd' = rcvd /\ buf' = buf /\ rd' = rd
    BY <1>5, <1>8 DEF HandOver
  <2>2. IsAt(buf', off')
    BY <1>2, <1>8, <2>1 DEF IsAt
  <2>3. Streaming(buf', off', net', sent', Len(rcvd'), wr')
    BY <1>1, <1>8, <2>1 DEF r
  <2>4. SessionInv'
    BY <1>1, <1>2, <2>1, <2>2, <2>3 DEF SessionInv
  <2>5. UNCHANGED Channel!vars
    BY <1>1, <2>1 DEF Channel!vars
  <2> QED BY <1>7, <2>4, <2>5 DEF ChannelStep
<1>9. CASE /\ a.ret > 0 /\ off + a.ret \in 0..Len(buf) /\ r + 1 <= Len(sent) /\ a.lsa = sent[r + 1]
           /\ Streaming(buf, off + a.ret, net, sent, r + 1, wr)
  <2>1. sent[r + 1] \in Lsas
    <3>1. r + 1 \in 1..Len(sent)
      BY <1>3, <1>9
    <3> HIDE DEF r
    <3> QED BY <1>2, <3>1, ElementOfSeq
  <2> DEFINE m == sent[r + 1]
             R == Append(rcvd, m)
  <2>2. off' = off + a.ret /\ rcvd' = R /\ buf' = buf /\ rd' = rd
    <3>1. m # NULL
      BY <2>1, WireAssumption
    <3> HIDE DEF m
    <3>2. a.lsa = m
      BY <1>9 DEF m
    <3> QED BY <1>5, <1>9, <3>1, <3>2 DEF HandOver
  <2>3. /\ R \in Seq(Lsas) /\ Len(R) = r + 1 /\ Starts(rcvd, R) /\ R[r + 1] = m
        /\ \A k \in 1..r : R[k] = rcvd[k]
    <3> HIDE DEF m
    <3> QED BY <1>2, <2>1, OneMore DEF m
  <2>4. Starts(R, sent)
    <3>1. \A k \in 1..r : sent[k] = rcvd[k]
      BY <1>2 DEF Starts
    <3> HIDE DEF R, r
    <3>2. \A k \in 1..(r + 1) : sent[k] = R[k]
      <4> SUFFICES ASSUME NEW k \in 1..(r + 1) PROVE sent[k] = R[k]
        OBVIOUS
      <4>1. CASE k = r + 1
        BY <2>3, <4>1
      <4>2. CASE k \in 1..r
        BY <2>3, <3>1, <4>2
      <4> QED BY <1>3, <4>1, <4>2
    <3> QED BY <1>9, <2>3, <3>2 DEF Starts
  <2> HIDE DEF R
  <2>5. IsAt(buf', off')
    BY <1>2, <1>9, <2>2 DEF IsAt
  <2>6. Streaming(buf', off', net', sent', Len(rcvd'), wr')
    BY <1>1, <1>9, <2>2, <2>3
  <2>7. SessionInv'
    BY <1>1, <1>2, <2>2, <2>3, <2>4, <2>5, <2>6 DEF SessionInv
  <2>8. Channel!Deliver
    <3>1. Channel!IsPrefix(rcvd, R) /\ Channel!IsPrefix(R, sent)
      BY <1>2, <2>3, <2>4, StartsIsPrefix
    <3> QED BY <1>1, <1>2, <2>2, <3>1 DEF Channel!Deliver
  <2> QED BY <1>7, <2>7, <2>8 DEF ChannelStep, Channel!Next
<1>10. CASE /\ a.ret = 0 /\ Drop(buf, off) \in Bytes /\ Len(Drop(buf, off)) < BUFSIZE
            /\ Len(Drop(buf, off)) = Len(buf) - off
            /\ Streaming(Drop(buf, off), NULL, net, sent, r, wr)
  <2> DEFINE D == Drop(buf, off)
  <2>1. ~ (off = 0 /\ Len(buf) = BUFSIZE)
    BY <1>3, <1>10
  <2>2. off' = NULL /\ buf' = D /\ rcvd' = rcvd /\ rd' = rd
    BY <1>5, <1>10, <2>1
  <2>3. D \in Bytes /\ Streaming(D, NULL, net, sent, r, wr) /\ Len(D) <= BUFSIZE
    <3>1. Len(D) \in Nat /\ Len(D) < BUFSIZE
      BY <1>2, <1>3, <1>10
    <3> QED BY <1>3, <1>10, <3>1
  <2> HIDE DEF D
  <2>4. SessionInv'
    BY <1>1, <1>2, <2>2, <2>3 DEF SessionInv, IsAt
  <2>5. UNCHANGED Channel!vars
    BY <1>1, <2>2 DEF Channel!vars
  <2> QED BY <1>7, <2>4, <2>5 DEF ChannelStep
<1> QED BY <1>6, <1>8, <1>9, <1>10

(* The reader comes to the end. *)
LEMMA SessionEnds ==
    ASSUME SessionInv, MessagesInv, ReadEof
    PROVE  SessionInv' /\ MessagesInv' /\ ChannelStep
<1>1. /\ rd = "open" /\ off = NULL /\ ((net = <<>> /\ wr = "closed") \/ Len(buf) = BUFSIZE) /\ rd' = "closed"
      /\ wr' = wr /\ net' = net /\ buf' = buf /\ off' = off /\ sent' = sent /\ rcvd' = rcvd /\ signed' = signed
  BY DEF ReadEof, node
<1> DEFINE r == Len(rcvd)
<1>2. /\ net \in Bytes /\ buf \in Bytes /\ sent \in Seq(Lsas) /\ rcvd \in Seq(Lsas) /\ Starts(rcvd, sent)
      /\ Streaming(buf, NULL, net, sent, r, wr)
  BY <1>1 DEF SessionInv, IsAt
<1>3. Len(buf) < BUFSIZE /\ (net = <<>> => r = Len(sent)) /\ Len(buf) \in Nat /\ BUFSIZE \in Nat
  <2> HIDE DEF r
  <2>1. Len(buf) < BUFSIZE /\ (net = <<>> => r = Len(sent))
    BY <1>2, StreamWaits
  <2> QED BY <1>2, <2>1, LenProperties, StreamAssumption DEF Bytes
<1>4. net = <<>> /\ wr = "closed"
  BY <1>1, <1>3
<1>5. rcvd = sent
  <2>1. Len(rcvd) = Len(sent) /\ \A k \in 1..Len(rcvd) : rcvd[k] = sent[k]
    BY <1>2, <1>3, <1>4 DEF Starts
  <2> QED BY <1>2, <2>1, SeqEqual
<1>6. SessionInv'
  BY <1>1, <1>4 DEF SessionInv
<1>7. MessagesInv'
  BY <1>1 DEF MessagesInv
<1>8. Channel!CloseReader
  BY <1>1, <1>4, <1>5 DEF Channel!CloseReader
<1> QED BY <1>6, <1>7, <1>8 DEF ChannelStep, Channel!Next

(* The reader gives up. *)
LEMMA SessionReadFails ==
    ASSUME SessionInv, MessagesInv, ReadFails
    PROVE  SessionInv' /\ MessagesInv' /\ ChannelStep
<1>1. /\ rd = "open" /\ off = NULL /\ rd' = "failed" /\ net' = <<>> /\ buf' = <<>>
      /\ wr' = wr /\ off' = off /\ sent' = sent /\ rcvd' = rcvd /\ signed' = signed
  BY DEF ReadFails, node
<1>2. <<>> \in Bytes /\ Len(<<>>) = 0 /\ 0 <= BUFSIZE
  BY StreamAssumption DEF Bytes
<1>3. IsAt(<<>>, NULL)
  BY <1>2 DEF IsAt
<1>4. SessionInv'
  BY <1>1, <1>2, <1>3 DEF SessionInv
<1>5. MessagesInv'
  BY <1>1 DEF MessagesInv
<1>6. Channel!Fail
  BY <1>1 DEF Channel!Fail
<1> QED BY <1>4, <1>5, <1>6 DEF ChannelStep, Channel!Next

(* Nothing happens to the session. *)
LEMMA SessionWaits ==
    ASSUME SessionInv, MessagesInv, UNCHANGED session, signed \subseteq signed'
    PROVE  SessionInv' /\ MessagesInv' /\ ChannelStep
<1>1. /\ wr' = wr /\ rd' = rd /\ net' = net /\ buf' = buf /\ off' = off /\ sent' = sent /\ rcvd' = rcvd
  BY DEF session
<1>2. SessionInv'
  BY <1>1 DEF SessionInv
<1>3. MessagesInv'
  <2> SUFFICES ASSUME NEW k \in 1..Len(sent) PROVE IsMsg(sent[k], signed')
    BY <1>1 DEF MessagesInv
  <2> DEFINE l == sent[k]
             sg == signed'
  <2>1. IsMsg(l, signed) /\ signed \subseteq sg
    BY DEF MessagesInv
  <2> HIDE DEF l, sg
  <2>2. IsMsg(l, sg)
    BY <2>1 DEF IsMsg
  <2> QED BY <2>2 DEF l, sg
<1>4. UNCHANGED Channel!vars
  BY <1>1 DEF Channel!vars
<1> QED BY <1>2, <1>3, <1>4 DEF ChannelStep

---------------------------------------------------------------------------
(* The whole.                                                              *)

Inv == NodeInv /\ SessionInv /\ MessagesInv

(* Whatever the node or the next one writes can be written. *)
LEMMA OutgoingSendable ==
    ASSUME Inv, me # ABORT
    PROVE  \A o \in Outgoing \cup {<<Withdrawal(Me), Me>>} : Sendable(o[1], o[2], signed)
<1> SUFFICES ASSUME NEW o \in Outgoing \cup {<<Withdrawal(Me), Me>>} PROVE Sendable(o[1], o[2], signed)
  OBVIOUS
<1>1. CASE o = <<me, Me>>
  BY <1>1, MineSendable DEF Inv
<1>2. CASE o = <<Withdrawal(Me), Me>>
  BY <1>2, WithdrawalSendable
<1>3. CASE o \in {u \in {rcvd[k] : k \in DOMAIN rcvd} \X Others : Usable(u[1], u[2])}
  <2>1. o[1] \in {rcvd[k] : k \in DOMAIN rcvd} /\ o[2] \in Others /\ Usable(o[1], o[2])
    BY <1>3
  <2>2. PICK k \in DOMAIN rcvd : o[1] = rcvd[k]
    BY <2>1
  <2>3. sent \in Seq(Lsas) /\ rcvd \in Seq(Lsas) /\ Starts(rcvd, sent)
    BY DEF Inv, SessionInv
  <2>4. k \in 1..Len(rcvd) /\ k \in 1..Len(sent) /\ rcvd[k] = sent[k]
    BY <2>2, <2>3, LenProperties DEF Starts
  <2> DEFINE l == o[1]
             i == o[2]
  <2>5. IsMsg(l, signed) /\ i \in Others /\ Usable(l, i)
    BY <2>1, <2>2, <2>4 DEF Inv, MessagesInv
  <2> HIDE DEF l, i
  <2>6. Sendable(l, i, signed)
    BY <2>5, ReceivedSendable
  <2> QED BY <2>6 DEF l, i
<1> QED BY <1>1, <1>2, <1>3 DEF Outgoing

(* How much can be read. *)
LEMMA AvailableType ==
    ASSUME SessionInv
    PROVE  Available \in Nat
<1> DEFINE x == Len(net)
           y == BUFSIZE - Len(buf)
           Z == {x, y}
<1>1. x \in Nat /\ y \in Nat
  BY LenProperties, StreamAssumption DEF SessionInv, IsAt, Bytes
<1>2. Available = Min(Z)
  BY DEF Available
<1> HIDE DEF x, y
<1>3. Z \subseteq Nat /\ x \in Z
  BY <1>1
<1> HIDE DEF Z
<1>4. Min(Z) \in Z
  BY <1>3, MinProps
<1> QED BY <1>2, <1>3, <1>4

(* What AbortsOnlyOnDuplicate asks of a step. *)
Duplicates ==
    me' = ABORT /\ (me # ABORT \/ Restart)
        => me # ABORT /\ \E p \in Peers : IsPeer(p) /\ mylsa_add_peer(p)

(* A step that leaves the own LSA alone. *)
LEMMA MineStays ==
    ASSUME NodeInv, me' = me
    PROVE  Duplicates /\ Grows
<1>1. Restart => me' # ABORT
  BY NodeRestarts
<1> QED BY <1>1 DEF Duplicates, Grows

(* Every step keeps the invariant, is one of the channel or leaves it      *)
(* alone, and changes the own LSA as it should.                            *)
LEMMA Step ==
    ASSUME Inv, [Next]_vars
    PROVE  Inv' /\ ChannelStep /\ Duplicates /\ Grows
<1>1. NodeInv /\ SessionInv /\ MessagesInv
  BY DEF Inv
<1>2. ASSUME NEW p \in Peers, mylsa_add_peer(p) \/ mylsa_del_peer(p)
      PROVE  Inv' /\ ChannelStep /\ Duplicates /\ Grows
  <2>1. /\ NodeInv' /\ Grows /\ signed \subseteq signed' /\ UNCHANGED session
        /\ me # ABORT /\ (me' = ABORT => IsPeer(p) /\ mylsa_add_peer(p))
    BY <1>1, <1>2, NodeChanges
  <2>2. Duplicates
    BY <2>1 DEF Duplicates
  <2>3. SessionInv' /\ MessagesInv' /\ ChannelStep
    BY <1>1, <2>1, SessionWaits
  <2> QED BY <2>1, <2>2, <2>3 DEF Inv
<1>3. CASE Tick
  <2>1. NodeInv' /\ me' = me /\ signed' = signed
    BY <1>1, <1>3, NodeWaits
  <2>2. UNCHANGED session
    BY <1>3 DEF Tick
  <2> QED BY <1>1, <2>1, <2>2, SessionWaits, MineStays DEF Inv
<1>4. CASE Restart
  <2>1. NodeInv' /\ me' # ABORT /\ Grows
    BY <1>1, <1>4, NodeRestarts
  <2>2. SessionInv' /\ MessagesInv' /\ ChannelStep
    BY <1>4, SessionLost
  <2> QED BY <2>1, <2>2 DEF Inv, Duplicates
<1>5. ASSUME UNCHANGED node
      PROVE  NodeInv' /\ Duplicates /\ Grows
  <2>1. NodeInv' /\ me' = me
    BY <1>1, <1>5, NodeWaits
  <2> QED BY <1>1, <2>1, MineStays
<1>6. CASE Exit
  <2>1. UNCHANGED node
    BY <1>6 DEF Exit
  <2> QED BY <1>1, <1>5, <1>6, <2>1, SessionExits DEF Inv
<1>7. CASE Open
  <2>1. UNCHANGED node
    BY <1>7 DEF Open
  <2> QED BY <1>5, <1>7, <2>1, SessionOpens DEF Inv
<1>8. ASSUME NEW l, NEW i, Output(l, i), Sendable(l, i, signed)
      PROVE  Inv' /\ ChannelStep /\ Duplicates /\ Grows
  <2>1. SessionInv' /\ MessagesInv' /\ ChannelStep /\ me' = me
    BY <1>1, <1>8, SessionOutput
  <2>2. UNCHANGED node
    BY <1>8, <2>1 DEF Output, node
  <2> QED BY <1>5, <2>1, <2>2 DEF Inv
<1>9. CASE OutputLsa
  <2>1. PICK o \in Outgoing : Output(o[1], o[2])
    BY <1>9 DEF OutputLsa
  <2>2. me # ABORT
    BY <2>1 DEF Output
  <2>3. Sendable(o[1], o[2], signed)
    BY <2>2, OutgoingSendable
  <2> QED BY <1>8, <2>1, <2>3
<1>10. CASE OutputWithdrawal
  <2>1. Output(Withdrawal(Me), Me)
    BY <1>10 DEF OutputWithdrawal
  <2>2. Sendable(Withdrawal(Me), Me, signed)
    BY WithdrawalSendable
  <2> QED BY <1>8, <2>1, <2>2
<1>11. CASE dgp_writer_send_keepalive
  <2>1. UNCHANGED node
    BY <1>11 DEF dgp_writer_send_keepalive
  <2> QED BY <1>1, <1>5, <1>11, <2>1, SessionKeepalive DEF Inv
<1>12. CASE WriteFails
  <2>1. UNCHANGED node /\ me # ABORT
    BY <1>12 DEF WriteFails
  <2>2. SessionInv' /\ MessagesInv' /\ ChannelStep
    BY <1>1, <1>12, <2>1, OutgoingSendable, SessionFails
  <2> QED BY <1>5, <2>1, <2>2 DEF Inv
<1>13. CASE ReadSome
  <2>1. PICK k \in ReadSizes \cup {Available} : dgp_reader_read(k)
    BY <1>13 DEF ReadSome
  <2>2. k \in Nat
    BY <1>1, AvailableType, StreamAssumption
  <2>3. UNCHANGED node
    BY <2>1 DEF dgp_reader_read
  <2> QED BY <1>1, <1>5, <2>1, <2>2, <2>3, SessionReads DEF Inv
<1>14. CASE Loop
  <2>1. UNCHANGED node
    BY <1>14 DEF Loop
  <2> QED BY <1>1, <1>5, <1>14, <2>1, SessionTurns DEF Inv
<1>15. CASE ReadEof
  <2>1. UNCHANGED node
    BY <1>15 DEF ReadEof
  <2> QED BY <1>1, <1>5, <1>15, <2>1, SessionEnds DEF Inv
<1>16. CASE ReadFails
  <2>1. UNCHANGED node
    BY <1>16 DEF ReadFails
  <2> QED BY <1>1, <1>5, <1>16, <2>1, SessionReadFails DEF Inv
<1>17. CASE UNCHANGED vars
  <2>1. UNCHANGED node /\ UNCHANGED session /\ signed \subseteq signed'
    BY <1>17 DEF vars, node, session
  <2> QED BY <1>1, <1>5, <2>1, SessionWaits DEF Inv
<1> QED BY <1>2, <1>3, <1>4, <1>6, <1>7, <1>9, <1>10, <1>11, <1>12, <1>13, <1>14, <1>15, <1>16, <1>17 DEF Next

(* It holds at the beginning. *)
LEMMA Start ==
    ASSUME Init
    PROVE  Inv /\ Channel!Init
<1>1. /\ now = 0 /\ boot = 0 /\ updates = 0 /\ rushed = FALSE /\ me = Held(FirstLsa(0))
      /\ signed = {<<Signature(FirstLsa(0)), SignedData(FirstLsa(0))>>}
      /\ wr = "closed" /\ rd = "closed"
      /\ net = <<>> /\ buf = <<>> /\ off = NULL /\ sent = <<>> /\ rcvd = <<>>
  BY DEF Init
<1>2. NodeInv
  <2>1. 0 \in 0..MaxTime /\ 0 \in 0..0 /\ 0 \in 0..MaxUpdates
    BY StreamAssumption
  <2>2. IsMine((0 + 1) * VERSIONS_PER_SECOND, {}, 0, 0, 0, Held(FirstLsa(0)), signed)
    BY <1>1, <2>1, NodeStarts
  <2>3. IsMine((0 + 1) * VERSIONS_PER_SECOND, {}, now, boot, updates, me, signed)
    BY <1>1, <2>2
  <2> DEFINE w == (0 + 1) * VERSIONS_PER_SECOND
             x == SignedData(FirstLsa(0))
             high == Limit(0, 0, MaxUpdates)
  <2>4. Signature(FirstLsa(0)) = <<w>> /\ Version(me) = w /\ w <= high /\ w \in Versions
    BY <1>1, <2>1, NodeStarts, LimitRestart
  <2>5. signed = {<<<<w>>, x>>} /\ high = Limit(now, boot, MaxUpdates)
    BY <1>1, <2>4
  <2> HIDE DEF w, x, high
  <2>6. \A s \in signed : s[1][1] = w
    BY <2>5
  <2>7. w \in Nat /\ w <= w
    BY <2>4 DEF Versions
  <2> QED BY <1>1, <2>1, <2>3, <2>4, <2>5, <2>6, <2>7 DEF NodeInv
<1>3. SessionInv /\ MessagesInv
  <2>1. <<>> \in Bytes /\ <<>> \in Seq(Lsas) /\ Len(<<>>) = 0 /\ 0 <= BUFSIZE
    BY StreamAssumption DEF Bytes
  <2>2. Starts(<<>>, <<>>)
    BY <2>1 DEF Starts
  <2>3. IsAt(<<>>, NULL)
    BY <2>1 DEF IsAt
  <2>4. SessionInv
    BY <1>1, <2>1, <2>2, <2>3 DEF SessionInv
  <2>5. MessagesInv
    BY <1>1, <2>1 DEF MessagesInv
  <2> QED BY <2>4, <2>5
<1>4. Channel!Init
  BY <1>1 DEF Channel!Init
<1> QED BY <1>2, <1>3, <1>4 DEF Inv

---------------------------------------------------------------------------
(* What follows.                                                           *)

(* The length of a withdrawal. *)
LEMMA EmptyLength ==
    ASSUME NEW l, l.attrs = {}, NEW i
    PROVE  /\ OutLength(l, i) \in Nat
           /\ IntLen(OutLength(l, i)) + OutLength(l, i) <= MAX_SERIALISED_INT_LEN + NODE_ID_LEN
<1> DEFINE n == OutLength(l, i)
           k == lsa_attr_set_serialise_length({})
<1>1. AttrSet({})
  BY FS_EmptySet DEF AttrSet
<1>2. k \in Nat /\ k <= 0
  <2> DEFINE e == {}
  <2>1. AttrSet(e) /\ AttrsSize(e) = 0
    BY <1>1, SizeType
  <2> HIDE DEF e
  <2>2. lsa_attr_set_serialise_length(e) \in Nat /\ lsa_attr_set_serialise_length(e) <= 0
    BY <2>1, LengthBound
  <2> QED BY <2>2 DEF e
<1>3. n = NODE_ID_LEN + k
  <2>1. Prepended(Visible(l.attrs, FALSE), i) = {}
    BY DEF Prepended, Visible
  <2> QED BY <2>1 DEF OutLength, lsa_serialise_length, Written
<1>4. IntLen(n) \in 1..MAX_SERIALISED_INT_LEN /\ MAX_SERIALISED_INT_LEN \in Nat /\ NODE_ID_LEN \in Nat
  BY IntLenType, WireAssumption
<1> HIDE DEF n, k
<1>5. n \in Nat /\ IntLen(n) + n <= MAX_SERIALISED_INT_LEN + NODE_ID_LEN
  BY <1>2, <1>3, <1>4
<1> QED BY <1>5 DEF n

(* bytes and lengths of one LSA. *)
Counted(l) ==
    /\ l.bytes = FreshLsa(l.id, l.attrs).bytes
    /\ \A i \in Others : IntLen(OutLength(l, i)) + OutLength(l, i) <= l.bytes + NODE_ID_LEN

(* One the node has signed. *)
LEMMA MadeCounted ==
    ASSUME NEW v \in Nat, NEW S \in SUBSET Peers, NEW p \in Bytes,
           NEW l, l.id = Me, l.attrs = Made(v, S, p).attrs, l.bytes = Made(v, S, p).bytes
    PROVE  Counted(l)
<1>1. Made(v, S, p) = FreshLsa(Me, OwnAttrs(v, S, p)) /\ Made(v, S, p).attrs = OwnAttrs(v, S, p)
  BY MadeType
<1>2. l.bytes = FreshLsa(l.id, l.attrs).bytes
  BY <1>1
<1>3. ASSUME NEW i \in Others PROVE IntLen(OutLength(l, i)) + OutLength(l, i) <= l.bytes + NODE_ID_LEN
  <2>1. i \in Bytes /\ Len(i) = NODE_ID_LEN
    BY NodeAssumption
  <2>2. IntLen(OutLength(l, i)) + OutLength(l, i) <= Made(v, S, p).bytes + Len(i)
    BY <2>1, MadeLength
  <2> QED BY <2>1, <2>2
<1> QED BY <1>2, <1>3 DEF Counted

(* Any message. *)
LEMMA MsgCounted ==
    ASSUME NEW l, NEW sg, IsMsg(l, sg)
    PROVE  Counted(l)
<1>1. CASE l = FreshLsa(Me, {})
  <2> DEFINE e == {}
  <2>1. AttrSet(e) /\ Me \in Bytes /\ l = FreshLsa(Me, e) /\ AttrsSize(e) = 0
    <3>1. AttrSet({})
      BY FS_EmptySet DEF AttrSet
    <3> QED BY <1>1, <3>1, NodeAssumption, SizeType
  <2> HIDE DEF e
  <2>2. l.id = Me /\ l.attrs = e /\ l.bytes = MAX_SERIALISED_INT_LEN + NODE_ID_LEN + AttrsSize(e)
    BY <2>1, FreshType
  <2>3. l.bytes = MAX_SERIALISED_INT_LEN + NODE_ID_LEN
    BY <2>1, <2>2, WireAssumption
  <2>4. l.bytes = FreshLsa(l.id, l.attrs).bytes
    BY <2>1, <2>2
  <2>5. ASSUME NEW i \in Others PROVE IntLen(OutLength(l, i)) + OutLength(l, i) <= l.bytes + NODE_ID_LEN
    <3>1. OutLength(l, i) \in Nat
          /\ IntLen(OutLength(l, i)) + OutLength(l, i) <= MAX_SERIALISED_INT_LEN + NODE_ID_LEN
      BY <2>2, EmptyLength DEF e
    <3>2. IntLen(OutLength(l, i)) \in Nat
      BY IntLenType, WireAssumption
    <3> QED BY <2>3, <3>1, <3>2, WireAssumption
  <2> QED BY <2>4, <2>5 DEF Counted
<1>2. CASE \E v \in Versions, S \in SUBSET Peers, p \in Paths : l = Made(v, S, p)
  <2>1. PICK v \in Versions, S \in SUBSET Peers, p \in Paths : l = Made(v, S, p)
    BY <1>2
  <2>2. v \in Nat /\ p \in Bytes
    BY OwnFits, PathsAssumption
  <2>3. l.id = Me
    BY <2>1, <2>2, MadeType
  <2> QED BY <2>1, <2>2, <2>3, MadeCounted
<1> QED BY <1>1, <1>2 DEF IsMsg

(* What the reader has handed over are messages. *)
LEMMA ReceivedIsMsg ==
    ASSUME Inv, NEW k \in DOMAIN rcvd
    PROVE  IsMsg(rcvd[k], signed) /\ rcvd[k] # ABORT
<1>1. sent \in Seq(Lsas) /\ rcvd \in Seq(Lsas) /\ Starts(rcvd, sent)
  BY DEF Inv, SessionInv
<1>2. k \in 1..Len(rcvd) /\ k \in 1..Len(sent) /\ rcvd[k] = sent[k]
  BY <1>1, LenProperties DEF Starts
<1>3. rcvd[k] \in Lsas
  BY <1>1, <1>2, ElementOfSeq
<1> QED BY <1>2, <1>3, WireAssumption DEF Inv, MessagesInv

(* The own LSA. *)
LEMMA MineIs ==
    ASSUME Inv, me # ABORT
    PROVE  Counted(me)
<1>1. PICK v, S : IsMine(v, S, now, boot, updates, me, signed)
  BY DEF Inv, NodeInv
<1>2. v \in Nat /\ S \in SUBSET Peers /\ me = Held(Made(v, S, <<>>)) /\ <<>> \in Bytes
  BY <1>1, OwnFits DEF IsMine, Bytes
<1>3. me # ABORT /\ me.id = Me /\ me.attrs = Made(v, S, <<>>).attrs /\ me.bytes = Made(v, S, <<>>).bytes
  BY <1>2, HeldType
<1> QED BY <1>2, <1>3, MadeCounted

(* Inv says what the runs check. *)
LEMMA InvSays ==
    ASSUME Inv
    PROVE  (\A k \in DOMAIN rcvd : rcvd[k] # ABORT) /\ BytesBoundLength /\ SignaturesVerify
<1>1. \A k \in DOMAIN rcvd : rcvd[k] # ABORT
  BY ReceivedIsMsg
<1>2. BytesBoundLength
  <2>1. \A l \in LsasAround \ {ABORT} : Counted(l)
    BY MineIs, ReceivedIsMsg, MsgCounted DEF LsasAround
  <2> QED BY <2>1 DEF BytesBoundLength, Counted, OutLength
<1>3. SignaturesVerify
  <2> SUFFICES ASSUME NEW k \in DOMAIN rcvd, Has(rcvd[k], LSA_ATTR_TYPE.SIGNATURE)
               PROVE  <<Signature(rcvd[k]), SignedData(rcvd[k])>> \in signed
    BY DEF SignaturesVerify
  <2> DEFINE l == rcvd[k]
  <2>1. IsMsg(l, signed) /\ Has(l, LSA_ATTR_TYPE.SIGNATURE)
    BY ReceivedIsMsg
  <2> HIDE DEF l
  <2>2. l # FreshLsa(Me, {})
    <3> DEFINE e == {}
    <3>1. AttrSet(e) /\ Me \in Bytes
      BY FS_EmptySet, NodeAssumption DEF AttrSet
    <3> HIDE DEF e
    <3>2. FreshLsa(Me, e).attrs = e
      BY <3>1, FreshType
    <3> DEFINE m == FreshLsa(Me, e)
    <3>3. m.attrs = {}
      BY <3>2 DEF e
    <3> HIDE DEF m
    <3>4. ~ Has(m, LSA_ATTR_TYPE.SIGNATURE)
      BY <3>3 DEF Has, lsa_find_attr, lsa_attr_set_find_attr
    <3> QED BY <2>1, <3>4 DEF m, e
  <2>3. PICK v \in Versions, S \in SUBSET Peers, p \in Paths :
          l = Made(v, S, p) /\ <<<<v>>, SignedData(Made(v, S, <<>>))>> \in signed
    BY <2>1, <2>2 DEF IsMsg
  <2>4. v \in Nat /\ p \in Bytes
    BY OwnFits, PathsAssumption
  <2>5. l.id = Me /\ l.attrs = Made(v, S, p).attrs
    BY <2>3, <2>4, MadeType
  <2>6. SignedData(l) = SignedData(Made(v, S, <<>>)) /\ Signature(l) = <<v>>
    BY <2>4, <2>5, MadeSigned
  <2>7. <<Signature(l), SignedData(l)>> \in signed
    BY <2>3, <2>6
  <2> QED BY <2>7 DEF l
<1> QED BY <1>1, <1>2, <1>3

(* Inv is an invariant. *)
LEMMA Invariance == Spec => []Inv
<1>1. Init => Inv
  BY Start
<1>2. Inv /\ [Next]_vars => Inv'
  BY Step
<1> QED BY <1>1, <1>2, PTL DEF Spec

(* The LSAs handed over are LSAs. *)
HandedOver == \A k \in DOMAIN rcvd : rcvd[k] # ABORT

(* Whatever peers come and go, however often the daemon is started and     *)
(* wherever the connection cuts its bytes, one abort() only is reached,    *)
(* that of lsa_attr_set_add_attr_set() when mylsa_add_peer() is called for *)
(* a peer the LSA has: dvpn() makes an LSA at every start, also after      *)
(* that, mylsa_del_peer() changes only an object of its own, and           *)
(* dgp_writer_output_lsa() is never given an LSA that is too long for it.  *)
THEOREM NoOtherAbort == Spec => AbortsOnlyOnDuplicate
<1>1. Init => Inv /\ me # ABORT
  <2>1. Init => me # ABORT
    <3> SUFFICES ASSUME Init PROVE me # ABORT
      OBVIOUS
    <3>1. 0 \in 0..MaxTime /\ me = Held(FirstLsa(0))
      BY StreamAssumption DEF Init
    <3> QED BY <3>1, NodeStarts
  <2> QED BY <2>1, Start
<1>2. Inv /\ [Next]_vars => Inv' /\ Duplicates
  BY Step
<1>3. Inv => HandedOver
  BY InvSays DEF HandedOver
<1>4. Inv /\ [Next]_vars /\ HandedOver' =>
        [/\ me' = ABORT /\ (me # ABORT \/ Restart)
                => me # ABORT /\ \E p \in Peers : IsPeer(p) /\ mylsa_add_peer(p)
         /\ \A k \in DOMAIN rcvd' : rcvd'[k] # ABORT]_vars
  BY <1>2 DEF Duplicates, HandedOver
<1> QED BY <1>1, <1>3, <1>4, Invariance, PTL DEF Spec, AbortsOnlyOnDuplicate

(* lsa->bytes is what the attributes amount to after every sequence of     *)
(* lsa_add_attr() and lsa_del_attr_bykey(), and bounds what                *)
(* lsa_serialise_length() returns at the next node.                        *)
THEOREM BytesExact == Spec => []BytesBoundLength
<1>1. Inv => BytesBoundLength
  BY InvSays
<1> QED BY <1>1, Invariance, PTL

(* Every LSA a reader hands over carries a signature of exactly the bytes  *)
(* lsa_verify() sees, after any number of hops.                            *)
THEOREM SignaturesHold == Spec => []SignaturesVerify
<1>1. Inv => SignaturesVerify
  BY InvSays
<1> QED BY <1>1, Invariance, PTL

(* lsa_update_version() and lsa_initial_version() make versions that grow, *)
(* over any number of changes and of restarts of the daemon, as long as    *)
(* there are not too many changes in one second: only a run that starts in *)
(* the second in which another has started can repeat its versions.        *)
THEOREM VersionsIncrease == Spec => VersionsGrow
<1>1. Inv /\ [Next]_vars =>
        [me' # me /\ me' # ABORT /\ ~ rushed' => \A s \in signed : s[1][1] < Version(me')]_vars
  BY Step DEF Grows
<1> QED BY <1>1, Invariance, PTL DEF Spec, VersionsGrow

(* However read() and write() cut the bytes, dgp_reader_read() hands over  *)
(* what dgp_writer_output_lsa() wrote: the session is a channel.           *)
THEOREM StreamIsChannel == Spec => ImplementsChannel
<1>1. Init => Inv /\ Channel!Init
  BY Start
<1>2. Inv /\ [Next]_vars => Inv' /\ [Channel!Next]_(Channel!vars)
  BY Step DEF ChannelStep
<1> QED BY <1>1, <1>2, PTL DEF Spec, ImplementsChannel, Channel!Spec
=============================================================================
