------------------------------ MODULE SumProofs ------------------------------
(***************************************************************************)
(* Facts about Sum, which adds up the sizes of the attributes of an LSA    *)
(* and of the LSAs of an adj_rib_in, and the metrics of a path.  They are  *)
(* proved by induction over finite sets, as the absence of a smallest      *)
(* counterexample.                                                         *)
(***************************************************************************)
EXTENDS Sums, FiniteSetTheorems, WellFoundedInduction, TLAPS

(* The element the fold takes out of a set. *)
Pick(s) == CHOOSE x \in s : TRUE

(* g[s] is the sum of f over s, for the sets s of C. *)
SumsOn(C, f, g) ==
    g = [s \in C |-> IF s = {} THEN 0 ELSE f[Pick(s)] + g[s \ {Pick(s)}]]

(* The sums of f over the subsets of T. *)
SubsetSums(f, T) == CHOOSE g : SumsOn(SUBSET T, f, g)

(* The fold in terms of these. *)
LEMMA SumUnfolds ==
    ASSUME NEW f
    PROVE  Sum(f) = SubsetSums(f, DOMAIN f)[DOMAIN f]
BY DEF Sum, MapThenSumSet, MapThenFoldSet, SubsetSums, SumsOn, Pick

(* The element taken out is one of the set. *)
LEMMA PickIn ==
    ASSUME NEW s, s # {}
    PROVE  Pick(s) \in s
BY DEF Pick

(* A property of sets that each set has if its proper subsets have it is   *)
(* one of every subset of a finite set.                                    *)
LEMMA SubsetInduction ==
    ASSUME NEW D, IsFiniteSet(D), NEW B,
           \A s \in SUBSET D : (\A t \in SUBSET s : t # s => t \in B) => s \in B
    PROVE  SUBSET D \subseteq B
<1> DEFINE R == StrictSubsetOrdering(D)
           C == (SUBSET D) \ B
<1> SUFFICES ASSUME C # {} PROVE FALSE
  OBVIOUS
<1>1. C \subseteq FiniteSubsetsOf(D)
  BY FS_Subset DEF FiniteSubsetsOf
<1>2. PICK s \in C : \A t \in C : ~ (<<t, s>> \in R)
  <2>1. IsWellFoundedOn(R, FiniteSubsetsOf(D))
    BY FS_StrictSubsetOrderingWellFounded
  <2> HIDE DEF R, C
  <2> QED BY <1>1, <2>1, WFMin
<1>3. ASSUME NEW t \in SUBSET s, t # s
      PROVE  t \in B
  <2>1. <<t, s>> \in R
    BY <1>3 DEF StrictSubsetOrdering
  <2> QED BY <1>2, <2>1
<1> QED BY <1>3

(* What SumsOn says of one set. *)
LEMMA SumsAt ==
    ASSUME NEW C, NEW f, NEW g, SumsOn(C, f, g), NEW s, s \in C, s # {}
    PROVE  g[s] = f[Pick(s)] + g[s \ {Pick(s)}]
BY DEF SumsOn

(* And of the empty one. *)
LEMMA SumsAtEmpty ==
    ASSUME NEW C, NEW f, NEW g, SumsOn(C, f, g), {} \in C
    PROVE  g[{}] = 0
BY DEF SumsOn

(* Equal functions have equal sums, whatever larger domains they have. *)
LEMMA SumsAgree ==
    ASSUME NEW D, IsFiniteSet(D), NEW C1, NEW C2, SUBSET D \subseteq C1, SUBSET D \subseteq C2,
           NEW f1, NEW f2, \A x \in D : f1[x] = f2[x],
           NEW g1, NEW g2, SumsOn(C1, f1, g1), SumsOn(C2, f2, g2)
    PROVE  \A s \in SUBSET D : g1[s] = g2[s]
<1> DEFINE B == {s \in SUBSET D : g1[s] = g2[s]}
<1>1. ASSUME NEW s \in SUBSET D, \A t \in SUBSET s : t # s => t \in B
      PROVE  s \in B
  <2>1. CASE s = {}
    <3>1. g1[s] = 0
      BY <2>1, SumsAtEmpty
    <3>2. g2[s] = 0
      BY <2>1, SumsAtEmpty
    <3> QED BY <3>1, <3>2
  <2>2. CASE s # {}
    <3> DEFINE t == s \ {Pick(s)}
    <3>1. Pick(s) \in s
      BY <2>2, PickIn
    <3>2. t \in B
      BY <1>1, <3>1
    <3>3. g1[s] = f1[Pick(s)] + g1[t] /\ g2[s] = f2[Pick(s)] + g2[t]
      BY <2>2, SumsAt
    <3> QED BY <3>1, <3>2, <3>3
  <2> QED BY <2>1, <2>2
<1>2. SUBSET D \subseteq B
  <2> HIDE DEF B
  <2> QED BY <1>1, SubsetInduction
<1> QED BY <1>2

(* There is a function that sums up f over all subsets of a finite set. *)
LEMMA SumsExist ==
    ASSUME NEW D, IsFiniteSet(D), NEW f
    PROVE  SumsOn(SUBSET D, f, SubsetSums(f, D))
<1> DEFINE B == {t \in SUBSET D : SumsOn(SUBSET t, f, SubsetSums(f, t))}
<1>1. ASSUME NEW T \in SUBSET D, \A t \in SUBSET T : t # T => t \in B
      PROVE  T \in B
  <2> DEFINE h == [s \in SUBSET T |-> IF s = {} THEN 0
                                      ELSE f[Pick(s)] + SubsetSums(f, s \ {Pick(s)})[s \ {Pick(s)}]]
  <2>1. ASSUME NEW s \in SUBSET T, s # T
        PROVE  h[s] = SubsetSums(f, s)[s]
    <3>1. SumsOn(SUBSET s, f, SubsetSums(f, s)) /\ IsFiniteSet(s)
      BY <1>1, <2>1, FS_Subset
    <3>2. CASE s = {}
      BY <3>1, <3>2, SumsAtEmpty
    <3>3. CASE s # {}
      <4> DEFINE t == s \ {Pick(s)}
      <4>1. Pick(s) \in s
        BY <3>3, PickIn
      <4>2. t \in SUBSET T /\ t # T
        BY <4>1
      <4>3. SumsOn(SUBSET t, f, SubsetSums(f, t)) /\ IsFiniteSet(t)
        BY <1>1, <4>2, FS_Subset
      <4>4. SUBSET t \subseteq SUBSET s
        OBVIOUS
      <4>5. \A u \in SUBSET t : SubsetSums(f, s)[u] = SubsetSums(f, t)[u]
        <5>1. \A x \in t : f[x] = f[x]
          OBVIOUS
        <5>2. SUBSET t \subseteq SUBSET t
          OBVIOUS
        <5> HIDE DEF t
        <5> QED BY <3>1, <4>3, <4>4, <5>1, <5>2, SumsAgree
      <4>6. SubsetSums(f, s)[t] = SubsetSums(f, t)[t]
        BY <4>5
      <4>7. SubsetSums(f, s)[s] = f[Pick(s)] + SubsetSums(f, s)[t]
        BY <3>1, <3>3, SumsAt
      <4>8. h[s] = f[Pick(s)] + SubsetSums(f, t)[t]
        BY <3>3
      <4> QED BY <4>6, <4>7, <4>8
    <3> QED BY <3>2, <3>3
  <2>2. ASSUME NEW s \in SUBSET T
        PROVE  h[s] = IF s = {} THEN 0 ELSE f[Pick(s)] + h[s \ {Pick(s)}]
    <3>1. CASE s # {}
      <4> DEFINE t == s \ {Pick(s)}
      <4>1. t \in SUBSET T /\ t # T
        BY <3>1, PickIn
      <4>2. h[t] = SubsetSums(f, t)[t]
        BY <2>1, <4>1
      <4>3. h[s] = f[Pick(s)] + SubsetSums(f, t)[t]
        BY <3>1
      <4> QED BY <3>1, <4>2, <4>3
    <3>2. CASE s = {}
      BY <3>2
    <3> QED BY <3>1, <3>2
  <2>3. h = [s \in SUBSET T |-> h[s]]
    OBVIOUS
  <2>4. SumsOn(SUBSET T, f, h)
    <3> HIDE DEF h
    <3> QED BY <2>2, <2>3 DEF SumsOn
  <2>5. SumsOn(SUBSET T, f, SubsetSums(f, T))
    <3> HIDE DEF h
    <3> QED BY <2>4 DEF SubsetSums
  <2> QED BY <2>5
<1>2. SUBSET D \subseteq B
  <2> HIDE DEF B
  <2> QED BY <1>1, SubsetInduction
<1>3. D \in B
  BY <1>2
<1> QED BY <1>3

(* The two together. *)
LEMMA SumsStep ==
    ASSUME NEW D, IsFiniteSet(D), NEW f
    PROVE  /\ SubsetSums(f, D)[{}] = 0
           /\ \A s \in SUBSET D :
                s # {} => SubsetSums(f, D)[s] = f[Pick(s)] + SubsetSums(f, D)[s \ {Pick(s)}]
<1> DEFINE g == SubsetSums(f, D)
<1>1. SumsOn(SUBSET D, f, g)
  BY SumsExist
<1> HIDE DEF g
<1>2. g[{}] = 0
  BY <1>1, SumsAtEmpty
<1>3. ASSUME NEW s \in SUBSET D, s # {}
      PROVE  g[s] = f[Pick(s)] + g[s \ {Pick(s)}]
  BY <1>1, <1>3, SumsAt
<1> QED BY <1>2, <1>3 DEF g

(* Sums of integers are integers. *)
LEMMA SumsType ==
    ASSUME NEW D, IsFiniteSet(D), NEW f \in [D -> Int]
    PROVE  \A s \in SUBSET D : SubsetSums(f, D)[s] \in Int
<1> DEFINE g == SubsetSums(f, D)
           B == {s \in SUBSET D : g[s] \in Int}
<1>1. /\ g[{}] = 0
      /\ \A s \in SUBSET D : s # {} => g[s] = f[Pick(s)] + g[s \ {Pick(s)}]
  BY SumsStep
<1> HIDE DEF g
<1>2. ASSUME NEW s \in SUBSET D, \A t \in SUBSET s : t # s => t \in B
      PROVE  s \in B
  <2>1. CASE s = {}
    BY <1>1, <2>1
  <2>2. CASE s # {}
    <3> DEFINE t == s \ {Pick(s)}
    <3>1. Pick(s) \in s
      BY <2>2, PickIn
    <3>2. t \in B
      BY <1>2, <3>1
    <3>3. g[s] = f[Pick(s)] + g[t]
      BY <1>1, <2>2
    <3> QED BY <3>1, <3>2, <3>3
  <2> QED BY <2>1, <2>2
<1>3. SUBSET D \subseteq B
  <2> HIDE DEF B
  <2> QED BY <1>2, SubsetInduction
<1> QED BY <1>3 DEF g

(* Sums of zeroes are zero. *)
LEMMA SumOfZeroes ==
    ASSUME NEW D, IsFiniteSet(D)
    PROVE  Sum([x \in D |-> 0]) = 0
<1> DEFINE f == [x \in D |-> 0]
           g == SubsetSums(f, D)
           B == {s \in SUBSET D : g[s] = 0}
<1>1. /\ g[{}] = 0
      /\ \A s \in SUBSET D : s # {} => g[s] = f[Pick(s)] + g[s \ {Pick(s)}]
  BY SumsStep
<1>2. \A x \in D : f[x] = 0
  OBVIOUS
<1> HIDE DEF f, g
<1>3. ASSUME NEW s \in SUBSET D, \A t \in SUBSET s : t # s => t \in B
      PROVE  s \in B
  <2>1. CASE s = {}
    BY <1>1, <2>1
  <2>2. CASE s # {}
    <3> DEFINE t == s \ {Pick(s)}
    <3>1. Pick(s) \in s
      BY <2>2, PickIn
    <3>2. t \in B
      BY <1>3, <3>1
    <3>3. g[s] = f[Pick(s)] + g[t]
      BY <1>1, <2>2
    <3>4. f[Pick(s)] = 0
      BY <1>2, <3>1
    <3> HIDE DEF t
    <3> QED BY <3>2, <3>3, <3>4
  <2> QED BY <2>1, <2>2
<1>4. SUBSET D \subseteq B
  <2> HIDE DEF B
  <2> QED BY <1>3, SubsetInduction
<1>5. Sum(f) = g[D]
  BY SumUnfolds DEF f, g
<1> QED BY <1>4, <1>5 DEF f

(* Any element may be taken out first. *)
LEMMA SumsSplit ==
    ASSUME NEW D, IsFiniteSet(D), NEW f \in [D -> Int]
    PROVE  \A s \in SUBSET D : \A x \in s : SubsetSums(f, D)[s] = f[x] + SubsetSums(f, D)[s \ {x}]
<1> DEFINE g == SubsetSums(f, D)
           B == {s \in SUBSET D : \A x \in s : g[s] = f[x] + g[s \ {x}]}
<1>1. /\ \A s \in SUBSET D : s # {} => g[s] = f[Pick(s)] + g[s \ {Pick(s)}]
      /\ \A s \in SUBSET D : g[s] \in Int
  BY SumsStep, SumsType
<1> HIDE DEF g
<1>2. ASSUME NEW s \in SUBSET D, \A t \in SUBSET s : t # s => t \in B
      PROVE  s \in B
  <2>1. ASSUME NEW x \in s
        PROVE  g[s] = f[x] + g[s \ {x}]
    <3> DEFINE y == Pick(s)
    <3>1. y \in s
      BY PickIn
    <3>2. g[s] = f[y] + g[s \ {y}]
      <4>1. s # {}
        OBVIOUS
      <4> QED BY <1>1, <4>1
    <3>3. CASE y = x
      BY <3>2, <3>3
    <3>4. CASE y # x
      <4> HIDE DEF y
      <4>1. s \ {y} \in B /\ s \ {x} \in B
        BY <1>2, <3>1
      <4>2. g[s \ {y}] = f[x] + g[(s \ {y}) \ {x}]
        BY <3>4, <4>1
      <4>3. g[s \ {x}] = f[y] + g[(s \ {x}) \ {y}]
        BY <3>1, <3>4, <4>1
      <4>4. (s \ {x}) \ {y} = (s \ {y}) \ {x}
        OBVIOUS
      <4>5. f[x] \in Int /\ f[y] \in Int /\ g[(s \ {y}) \ {x}] \in Int
        BY <1>1, <3>1
      <4>6. g[s] = f[y] + (f[x] + g[(s \ {y}) \ {x}])
        BY <3>2, <4>2
      <4>7. g[s \ {x}] = f[y] + g[(s \ {y}) \ {x}]
        BY <4>3, <4>4
      <4>8. f[y] + (f[x] + g[(s \ {y}) \ {x}]) = f[x] + (f[y] + g[(s \ {y}) \ {x}])
        <5> DEFINE a == f[x]
                   b == f[y]
                   c == g[(s \ {y}) \ {x}]
        <5> SUFFICES b + (a + c) = a + (b + c)
          OBVIOUS
        <5>1. a \in Int /\ b \in Int /\ c \in Int
          BY <4>5
        <5> HIDE DEF a, b, c
        <5> QED BY <5>1
      <4> QED BY <4>6, <4>7, <4>8
    <3> QED BY <3>3, <3>4
  <2> QED BY <2>1
<1>3. SUBSET D \subseteq B
  <2> HIDE DEF B
  <2> QED BY <1>2, SubsetInduction
<1> QED BY <1>3 DEF g

(* The sum of a function is the value at any point and the sum of the rest.*)
LEMMA SumSplit ==
    ASSUME NEW D, IsFiniteSet(D), NEW f \in [D -> Int], NEW x \in D
    PROVE  /\ Sum(f) = f[x] + Sum([y \in D \ {x} |-> f[y]])
           /\ Sum([y \in D \ {x} |-> f[y]]) \in Int
<1> DEFINE E == D \ {x}
           r == [y \in E |-> f[y]]
<1>1. IsFiniteSet(E) /\ SUBSET E \subseteq SUBSET D /\ SUBSET E \subseteq SUBSET E
  BY FS_Subset
<1>2. Sum(f) = SubsetSums(f, D)[D]
  BY SumUnfolds
<1>3. Sum(r) = SubsetSums(r, E)[E]
  BY SumUnfolds
<1>4. SubsetSums(f, D)[D] = f[x] + SubsetSums(f, D)[E]
  BY SumsSplit
<1>5. SubsetSums(f, D)[E] = SubsetSums(r, E)[E] /\ SubsetSums(f, D)[E] \in Int
  <2>1. \A y \in E : f[y] = r[y]
    OBVIOUS
  <2>2. SumsOn(SUBSET D, f, SubsetSums(f, D))
    BY SumsExist
  <2>3. SumsOn(SUBSET E, r, SubsetSums(r, E))
    BY <1>1, SumsExist
  <2>4. SubsetSums(f, D)[E] \in Int
    BY SumsType
  <2> HIDE DEF r, E
  <2>5. \A s \in SUBSET E : SubsetSums(f, D)[s] = SubsetSums(r, E)[s]
    BY <1>1, <2>1, <2>2, <2>3, SumsAgree
  <2> QED BY <2>4, <2>5
<1> QED BY <1>2, <1>3, <1>4, <1>5

(* Changing one value changes the sum by the difference. *)
LEMMA SumChange ==
    ASSUME NEW D, IsFiniteSet(D), NEW f \in [D -> Int], NEW x \in D, NEW v \in Int
    PROVE  Sum([f EXCEPT ![x] = v]) = Sum(f) - f[x] + v /\ Sum(f) \in Int
<1> DEFINE h == [f EXCEPT ![x] = v]
           r == [y \in D \ {x} |-> f[y]]
<1>1. h \in [D -> Int] /\ h[x] = v /\ f[x] \in Int
  OBVIOUS
<1>2. [y \in D \ {x} |-> h[y]] = r
  OBVIOUS
<1> HIDE DEF h
<1>3. Sum(h) = v + Sum(r)
  BY <1>1, <1>2, SumSplit
<1>4. Sum(f) = f[x] + Sum(r) /\ Sum(r) \in Int
  BY SumSplit
<1>5. Sum(h) = Sum(f) - f[x] + v /\ Sum(f) \in Int
  <2> HIDE DEF r
  <2> QED BY <1>1, <1>3, <1>4
<1> QED BY <1>5 DEF h

(* A sum of integers is one, of none it is zero. *)
LEMMA SumType ==
    ASSUME NEW D, IsFiniteSet(D), NEW f \in [D -> Int]
    PROVE  Sum(f) \in Int /\ (D = {} => Sum(f) = 0)
<1>1. Sum(f) = SubsetSums(f, D)[D]
  BY SumUnfolds
<1>2. SubsetSums(f, D)[D] \in Int
  BY SumsType
<1>3. SubsetSums(f, D)[{}] = 0
  BY SumsStep
<1> QED BY <1>1, <1>2, <1>3

(* What is nowhere larger has no larger sum. *)
LEMMA SumBound ==
    ASSUME NEW D, IsFiniteSet(D), NEW f \in [D -> Int], NEW g \in [D -> Int], \A x \in D : f[x] <= g[x]
    PROVE  Sum(f) <= Sum(g)
<1> DEFINE F == SubsetSums(f, D)
           G == SubsetSums(g, D)
           B == {s \in SUBSET D : F[s] <= G[s]}
<1>1. /\ F[{}] = 0 /\ G[{}] = 0
      /\ \A s \in SUBSET D : s # {} => F[s] = f[Pick(s)] + F[s \ {Pick(s)}]
      /\ \A s \in SUBSET D : s # {} => G[s] = g[Pick(s)] + G[s \ {Pick(s)}]
  BY SumsStep
<1>2. \A s \in SUBSET D : F[s] \in Int /\ G[s] \in Int
  BY SumsType
<1>3. Sum(f) = F[D] /\ Sum(g) = G[D]
  BY SumUnfolds
<1> HIDE DEF F, G
<1>4. ASSUME NEW s \in SUBSET D, \A t \in SUBSET s : t # s => t \in B
      PROVE  s \in B
  <2>1. CASE s = {}
    BY <1>1, <2>1
  <2>2. CASE s # {}
    <3> DEFINE x == Pick(s)
               t == s \ {x}
    <3>1. x \in s /\ x \in D
      BY <2>2, PickIn
    <3>2. t \in B /\ F[t] \in Int /\ G[t] \in Int /\ F[t] <= G[t]
      BY <1>2, <1>4, <3>1
    <3>3. F[s] = f[x] + F[t] /\ G[s] = g[x] + G[t]
      BY <1>1, <2>2
    <3>4. f[x] \in Int /\ g[x] \in Int /\ f[x] <= g[x]
      BY <3>1
    <3> HIDE DEF x, t
    <3>5. F[s] <= G[s]
      BY <3>2, <3>3, <3>4
    <3> QED BY <3>5
  <2> QED BY <2>1, <2>2
<1>5. SUBSET D \subseteq B
  <2> HIDE DEF B
  <2> QED BY <1>4, SubsetInduction
<1> QED BY <1>3, <1>5

(* The sum over a set is that over a part and that over the rest. *)
LEMMA SumParts ==
    ASSUME NEW D, IsFiniteSet(D), NEW f \in [D -> Int], NEW E \in SUBSET D
    PROVE  /\ Sum(f) = Sum([x \in E |-> f[x]]) + Sum([x \in D \ E |-> f[x]])
           /\ Sum([x \in E |-> f[x]]) \in Int /\ Sum([x \in D \ E |-> f[x]]) \in Int
<1> DEFINE On(s) == Sum([x \in s |-> f[x]])
           B == {s \in SUBSET E : Sum(f) = On(s) + On(D \ s)}
<1>1. ASSUME NEW s \in SUBSET D PROVE IsFiniteSet(s) /\ On(s) \in Int /\ (s = {} => On(s) = 0)
  <2>1. IsFiniteSet(s) /\ [x \in s |-> f[x]] \in [s -> Int]
    BY FS_Subset
  <2> QED BY <2>1, SumType
<1>2. ASSUME NEW s \in SUBSET D, NEW y \in s PROVE On(s) = f[y] + On(s \ {y})
  <2> DEFINE g == [x \in s |-> f[x]]
  <2>1. IsFiniteSet(s) /\ g \in [s -> Int] /\ g[y] = f[y] /\ [x \in s \ {y} |-> g[x]] = [x \in s \ {y} |-> f[x]]
    BY <1>1
  <2> HIDE DEF g
  <2>2. Sum(g) = g[y] + Sum([x \in s \ {y} |-> g[x]])
    <3>1. IsFiniteSet(s) /\ g \in [s -> Int] /\ y \in s
      BY <2>1
    <3> QED BY <3>1, SumSplit
  <2> QED BY <2>1, <2>2 DEF g
<1>3. On(D) = Sum(f)
  <2>1. [x \in D |-> f[x]] = f
    OBVIOUS
  <2> QED BY <2>1
<1> HIDE DEF On
<1>4. ASSUME NEW s \in SUBSET E, \A t \in SUBSET s : t # s => t \in B
      PROVE  s \in B
  <2>1. CASE s = {}
    <3>1. On(s) = 0 /\ D \ s = D /\ On(D) \in Int
      BY <1>1, <2>1
    <3>2. On(D \ s) = Sum(f)
      BY <1>3, <3>1, Zenon
    <3>3. Sum(f) \in Int
      BY SumType
    <3>4. Sum(f) = On(s) + On(D \ s)
      BY <3>1, <3>2, <3>3
    <3> QED BY <3>4
  <2>2. CASE s # {}
    <3>1. PICK y \in s : TRUE
      BY <2>2
    <3> DEFINE t == s \ {y}
    <3>2. t \in B
      BY <1>4
    <3>3. On(s) = f[y] + On(t)
      BY <1>2
    <3>4. y \in D \ t /\ (D \ t) \ {y} = D \ s /\ t \in SUBSET D /\ D \ t \in SUBSET D /\ s \in SUBSET D
      OBVIOUS
    <3> HIDE DEF t
    <3>5. On(D \ t) = f[y] + On(D \ s)
      <4>1. On(D \ t) = f[y] + On((D \ t) \ {y})
        BY <1>2, <3>4
      <4> QED BY <3>4, <4>1
    <3>6. Sum(f) = On(t) + On(D \ t)
      BY <3>2
    <3>7. On(t) \in Int /\ On(D \ s) \in Int /\ f[y] \in Int
      BY <1>1, <3>4
    <3>8. Sum(f) = On(s) + On(D \ s)
      BY <3>3, <3>5, <3>6, <3>7
    <3> QED BY <3>8
  <2> QED BY <2>1, <2>2
<1>5. IsFiniteSet(E)
  BY FS_Subset
<1>6. SUBSET E \subseteq B
  <2> HIDE DEF B
  <2> QED BY <1>4, <1>5, SubsetInduction
<1>7. Sum(f) = On(E) + On(D \ E) /\ On(E) \in Int /\ On(D \ E) \in Int
  BY <1>1, <1>6
<1> QED BY <1>7 DEF On
=============================================================================
