----------------------------- MODULE CoderProofs -----------------------------
(***************************************************************************)
(* Lemmas about the Coder's operations, for every field in which the laws  *)
(* of FieldLaws hold, and about the algebra they rest on: induction over   *)
(* finite sets and recursive functions, XOR sums, the field, rows times    *)
(* columns, matrices of rows, Gauss-Jordan elimination, Cauchy matrices;   *)
(* then what an accepted call has checked, where a coefficient is in the   *)
(* tables, and that the coefficients of a decode plan turn the planned     *)
(* survivors of a stripe into the shards to rebuild; doubling and binary   *)
(* numerals; and last the two Vandermonde constructions: which selections  *)
(* of their rows can be inverted.                                          *)
(* The library's induction theorems take an operator, which the provers    *)
(* cannot instantiate; SetInduction takes a family of sets in its place,   *)
(* and rests on the well-foundedness of strict inclusion.                  *)
(***************************************************************************)
EXTENDS Coder, FiniteSetTheorems, WellFoundedInduction, TLAPS

(* A family of subsets of a finite set that has the empty set, and with a  *)
(* set also that set and one element more, has the whole set.              *)
LEMMA SetInduction ==
  ASSUME NEW S, IsFiniteSet(S), NEW F, {} \in F,
         \A T \in SUBSET S : \A x \in S \ T : T \in F => T \cup {x} \in F
  PROVE  S \in F
  <1> DEFINE Outside == {T \in SUBSET S : T \notin F}
  <1>1. SUFFICES ASSUME Outside # {} PROVE FALSE
    BY DEF Outside
  <1>2. IsWellFoundedOn(StrictSubsetOrdering(S), FiniteSubsetsOf(S))
    BY FS_StrictSubsetOrderingWellFounded
  <1>3. Outside \subseteq FiniteSubsetsOf(S)
    BY FS_FiniteSubsetsOfFinite
  <1>4. PICK T \in Outside : \A U \in Outside : ~(<<U, T>> \in StrictSubsetOrdering(S))
    <2> HIDE DEF Outside
    <2>1. QED
      BY <1>1, <1>2, <1>3, WFMin
  <1>5. PICK x \in T : TRUE
    <2>1. T # {}
      BY <1>4
    <2>2. QED
      BY <2>1
  <1>6. T \ {x} \in SUBSET S /\ T \ {x} # T /\ T \ {x} \subseteq T /\ x \in S
    BY <1>5
  <1>7. T \ {x} \in F
    <2>1. <<T \ {x}, T>> \in StrictSubsetOrdering(S)
      BY <1>6 DEF StrictSubsetOrdering
    <2>2. T \ {x} \notin Outside
      BY <1>4, <2>1
    <2>3. QED
      BY <1>6, <2>2
  <1>8. (T \ {x}) \cup {x} = T
    BY <1>5
  <1>9. T \in F
    BY <1>6, <1>7, <1>8
  <1>10. QED
    BY <1>4, <1>9

LEMMA UptoFinite ==
  ASSUME NEW n \in Nat
  PROVE  IsFiniteSet(Upto(n)) /\ Cardinality(Upto(n)) = n
  <1>1. n - 1 \in Int /\ (0 > n - 1 <=> n = 0) /\ (n - 1) - 0 + 1 = n
    OBVIOUS
  <1>2. IsFiniteSet(0..(n - 1))
        /\ Cardinality(0..(n - 1)) = IF 0 > n - 1 THEN 0 ELSE (n - 1) - 0 + 1
    BY FS_Interval, <1>1
  <1>3. QED
    BY <1>1, <1>2 DEF Upto

LEMMA UptoCardinality ==
  ASSUME NEW n \in Nat
  PROVE  Cardinality(Upto(n)) = n
  <1>1. 0 \in Int /\ n - 1 \in Int
    OBVIOUS
  <1>2. Cardinality(0..(n - 1)) = IF 0 > n - 1 THEN 0 ELSE (n - 1) - 0 + 1
    BY <1>1, FS_Interval
  <1>3. QED
    BY <1>2 DEF Upto

LEMMA MinIn ==
  ASSUME NEW S \in SUBSET Int, IsFiniteSet(S), S # {}
  PROVE  Min(S) \in S /\ \A y \in S : Min(S) <= y
  <1> DEFINE F == {T \in SUBSET S : T = {} \/ \E x \in T : \A y \in T : x <= y}
  <1>1. {} \in F
    OBVIOUS
  <1>2. ASSUME NEW T \in SUBSET S, NEW z \in S \ T, T \in F
        PROVE  T \cup {z} \in F
    <2>1. CASE T = {}
      BY <2>1
    <2>2. CASE T # {}
      <3>1. PICK x \in T : \A y \in T : x <= y
        BY <1>2, <2>2
      <3>2. CASE x <= z
        BY <3>1, <3>2
      <3>3. CASE ~(x <= z)
        <4>1. \A y \in T \cup {z} : z <= y
          BY <3>1, <3>3
        <4>2. QED
          BY <4>1
      <3>4. QED
        BY <3>2, <3>3
    <2>3. QED
      BY <2>1, <2>2
  <1> HIDE DEF F
  <1>3. S \in F
    BY <1>1, <1>2, SetInduction
  <1>4. \E x \in S : \A y \in S : x <= y
    BY <1>3 DEF F
  <1>5. QED
    BY <1>4 DEF Min

LEMMA MaxIn ==
  ASSUME NEW S \in SUBSET Int, IsFiniteSet(S), S # {}
  PROVE  Max(S) \in S /\ \A y \in S : Max(S) >= y
  <1> DEFINE F == {T \in SUBSET S : T = {} \/ \E x \in T : \A y \in T : x >= y}
  <1>1. {} \in F
    OBVIOUS
  <1>2. ASSUME NEW T \in SUBSET S, NEW z \in S \ T, T \in F
        PROVE  T \cup {z} \in F
    <2>1. CASE T = {}
      BY <2>1
    <2>2. CASE T # {}
      <3>1. PICK x \in T : \A y \in T : x >= y
        BY <1>2, <2>2
      <3>2. CASE x >= z
        BY <3>1, <3>2
      <3>3. CASE ~(x >= z)
        <4>1. \A y \in T \cup {z} : z >= y
          BY <3>1, <3>3
        <4>2. QED
          BY <4>1
      <3>4. QED
        BY <3>2, <3>3
    <2>3. QED
      BY <2>1, <2>2
  <1> HIDE DEF F
  <1>3. S \in F
    BY <1>1, <1>2, SetInduction
  <1>4. \E x \in S : \A y \in S : x >= y
    BY <1>3 DEF F
  <1>5. QED
    BY <1>4 DEF Max

(* Induction up to n, over a set in place of a predicate.                  *)
LEMMA UpInduction ==
  ASSUME NEW n \in Nat, NEW G, 0 \in G,
         \A i \in Upto(n) : i \in G => i + 1 \in G
  PROVE  \A i \in 0..n : i \in G
  <1> DEFINE B == {i \in 0..n : i \notin G}
  <1>1. SUFFICES ASSUME B # {} PROVE FALSE
    OBVIOUS
  <1>2. IsFiniteSet(B) /\ B \in SUBSET Int
    <2>1. IsFiniteSet(0..n)
      BY FS_Interval
    <2>2. QED
      BY <2>1, FS_Subset
  <1>3. Min(B) \in B /\ \A y \in B : Min(B) <= y
    <2> HIDE DEF B
    <2>1. QED
      BY <1>1, <1>2, MinIn
  <1>4. PICK m \in 0..n : m = Min(B) /\ m \notin G /\ m # 0
    BY <1>3
  <1>5. m - 1 \in Upto(n) /\ (m - 1) + 1 = m
    BY <1>4 DEF Upto
  <1>6. m - 1 \in G
    <2>1. ~(Min(B) <= m - 1)
      BY <1>4
    <2>2. m - 1 \notin B
      BY <1>3, <2>1
    <2>3. QED
      BY <1>5, <2>2 DEF Upto
  <1>7. QED
    BY <1>4, <1>5, <1>6

(* A recursive function on 0..n, as a LET of the code's loops defines it,  *)
(* exists and keeps to S.                                                  *)
Steps(step, n, S) == \A i \in Upto(n) : \A x \in S : step[i][x] \in S

Follows(f, base, step, n) ==
  f[0] = base /\ \A i \in Upto(n) : f[i + 1] = step[i][f[i]]

LEMMA RecursionExists ==
  ASSUME NEW n \in Nat, NEW S, NEW base \in S, NEW step, Steps(step, n, S)
  PROVE  \E f \in [0..n -> S] : Follows(f, base, step, n)
  <1> USE DEF Steps, Follows
  <1> DEFINE Runs(f, m) == Follows(f, base, step, m)
             G == {m \in 0..n : \E f \in [0..m -> S] : Runs(f, m)}
  <1>1. 0 \in G
    <2> DEFINE f == [i \in 0..0 |-> base]
    <2>1. f \in [0..0 -> S] /\ Runs(f, 0)
      BY DEF Upto
    <2>2. QED
      BY <2>1
  <1>2. ASSUME NEW m \in Upto(n), m \in G
        PROVE  m + 1 \in G
    <2>1. PICK f \in [0..m -> S] : Runs(f, m)
      BY <1>2
    <2> DEFINE g == [i \in 0..(m + 1) |-> IF i <= m THEN f[i] ELSE step[m][f[m]]]
    <2>2. m \in 0..m /\ m \in Nat /\ m + 1 \in 0..n
      BY DEF Upto
    <2>3. g \in [0..(m + 1) -> S]
      BY <2>2
    <2>4. g[0] = base
      BY <2>1, <2>2
    <2>5. ASSUME NEW i \in Upto(m + 1)
          PROVE  g[i + 1] = step[i][g[i]]
      <3>1. i \in 0..m
        BY <2>2 DEF Upto
      <3>2. CASE i = m
        BY <2>2, <3>2
      <3>3. CASE i # m
        <4>1. i \in Upto(m) /\ i + 1 <= m /\ i + 1 \in 0..(m + 1) /\ i \in 0..(m + 1)
          BY <2>2, <3>1, <3>3 DEF Upto
        <4>2. f[i + 1] = step[i][f[i]]
          BY <2>1, <4>1
        <4>3. QED
          BY <4>1, <4>2
      <3>4. QED
        BY <3>2, <3>3
    <2> HIDE DEF g
    <2>6. Runs(g, m + 1)
      BY <2>4, <2>5
    <2>7. QED
      BY <2>2, <2>3, <2>6
  <1> HIDE DEF G
  <1>3. n \in G
    BY <1>1, <1>2, UpInduction
  <1>4. QED
    BY <1>3 DEF G

(* A finite set of numbers has a member with t smaller ones, for every t   *)
(* below its cardinality.                                                  *)
Below(S, i) == {s \in S : s < i}

LEMMA RankExists ==
  ASSUME NEW S \in SUBSET Nat, IsFiniteSet(S), NEW t \in Upto(Cardinality(S))
  PROVE  \E i \in S : Cardinality(Below(S, i)) = t
  <1> DEFINE n == Cardinality(S)
             G == {m \in Nat : m < n => \E i \in S : Cardinality(Below(S, i)) = m}
  <1>1. n \in Nat /\ \A s \in S : s \in Nat
    BY FS_CardinalityType
  <1>2. 0 \in G
    <2>1. SUFFICES ASSUME 0 < n PROVE \E i \in S : Cardinality(Below(S, i)) = 0
      OBVIOUS
    <2>2. S # {}
      BY <2>1, FS_EmptySet
    <2>3. Min(S) \in S /\ \A y \in S : Min(S) <= y
      BY <2>2, MinIn
    <2>4. PICK i \in S : \A y \in S : i <= y
      BY <2>3
    <2>5. Below(S, i) = {}
      <3>1. ASSUME NEW s \in S, s < i PROVE FALSE
        BY <1>1, <2>4, <3>1
      <3>2. QED
        BY <3>1 DEF Below
    <2>6. Cardinality(Below(S, i)) = 0
      BY <2>5, FS_EmptySet
    <2>7. QED
      BY <2>6
  <1>3. ASSUME NEW m \in Upto(n), m \in G
        PROVE  m + 1 \in G
    <2>1. m \in Nat /\ m < n
      BY <1>1 DEF Upto
    <2>2. SUFFICES ASSUME m + 1 < n
                   PROVE  \E i \in S : Cardinality(Below(S, i)) = m + 1
      BY <2>1
    <2>3. PICK i \in S : Cardinality(Below(S, i)) = m
      BY <1>3, <2>1
    <2> DEFINE upto  == Below(S, i) \cup {i}
               above == S \ upto
    <2>4. /\ IsFiniteSet(Below(S, i)) /\ i \notin Below(S, i)
          /\ Below(S, i) \in SUBSET S
      <3>1. Below(S, i) \in SUBSET S /\ i \notin Below(S, i)
        BY DEF Below
      <3>2. QED
        BY <3>1, FS_Subset
    <2>5. Cardinality(upto) = m + 1
      BY <2>3, <2>4, FS_AddElement
    <2>6. above # {}
      <3>1. upto # S
        <4> HIDE DEF upto
        <4>1. QED
          BY <2>1, <2>2, <2>5
      <3>2. QED
        BY <2>4, <3>1
    <2>7. IsFiniteSet(above) /\ above \in SUBSET Int
      <3>1. above \in SUBSET S
        OBVIOUS
      <3>2. \A x \in above : x \in Int
        BY <1>1, <3>1
      <3> HIDE DEF above
      <3>3. QED
        BY <3>1, <3>2, FS_Subset
    <2>8. Min(above) \in above /\ \A y \in above : Min(above) <= y
      <3> HIDE DEF above
      <3>1. QED
        BY <2>6, <2>7, MinIn
    <2>9. PICK j \in above : \A y \in above : j <= y
      BY <2>8
    <2>10. i < j
      BY <1>1, <2>9 DEF Below
    <2>11. Below(S, j) = upto
      <3>1. ASSUME NEW s \in S
            PROVE  s < j <=> s < i \/ s = i
        <4>1. s \in Below(S, i) <=> s < i
          BY DEF Below
        <4>2. s \in Nat /\ i \in Nat /\ j \in Nat
          BY <1>1, <2>9
        <4>3. s \notin Below(S, i) /\ s # i => j <= s
          BY <2>9
        <4>4. QED
          BY <2>10, <4>1, <4>2, <4>3
      <3>2. QED
        BY <3>1 DEF Below
    <2>12. QED
      BY <2>5, <2>9, <2>11
  <1> HIDE DEF G
  <1>4. \A m \in 0..n : m \in G
    BY <1>1, <1>2, <1>3, UpInduction
  <1>5. t \in 0..n /\ t < n
    BY <1>1 DEF Upto
  <1>6. QED
    BY <1>1, <1>4, <1>5 DEF G
-----------------------------------------------------------------------------
(* XOR.                                                                    *)

LEMMA XorCases ==
  ASSUME NEW a, NEW b, NEW e
  PROVE  e \in XOR(a, b) <=> ((e \in a) # (e \in b))
  BY DEF XOR, SymDiff

LEMMA XorByte ==
  ASSUME NEW x \in Byte, NEW y \in Byte
  PROVE  XOR(x, y) \in Byte
  BY DEF XOR, SymDiff, Byte

LEMMA XorZero ==
  ASSUME NEW x
  PROVE  XOR(x, {}) = x /\ XOR({}, x) = x /\ XOR(x, x) = {}
  BY DEF XOR, SymDiff

LEMMA XorCommutes ==
  ASSUME NEW x, NEW y
  PROVE  XOR(x, y) = XOR(y, x)
  BY DEF XOR, SymDiff

LEMMA XorAssociates ==
  ASSUME NEW x, NEW y, NEW z
  PROVE  XOR(XOR(x, y), z) = XOR(x, XOR(y, z))
  BY DEF XOR, SymDiff

(* Two pairs added crosswise.                                              *)
LEMMA XorExchange ==
  ASSUME NEW w, NEW x, NEW y, NEW z
  PROVE  XOR(XOR(w, x), XOR(y, z)) = XOR(XOR(w, y), XOR(x, z))
  BY DEF XOR, SymDiff
-----------------------------------------------------------------------------
(* Sums over sets.                                                         *)

LEMMA XorAllByte ==
  ASSUME NEW S, NEW t
  PROVE  XorAll(S, t) \in Byte
  BY DEF XorAll, Byte

(* The terms of a sum that have bit b.                                     *)
Having(S, t, b) == {j \in S : b \in t[j]}

(* A sum has bit b when an odd number of its terms have it.                *)
LEMMA XorAllHas ==
  ASSUME NEW S, NEW t, NEW b \in Bit
  PROVE  b \in XorAll(S, t) <=> Cardinality(Having(S, t, b)) % 2 = 1
  BY DEF XorAll, Having

(* Only the terms matter.                                                  *)
LEMMA XorAllSame ==
  ASSUME NEW S, NEW t, NEW u, \A j \in S : t[j] = u[j]
  PROVE  XorAll(S, t) = XorAll(S, u)
  <1>1. \A b \in Bit : Having(S, t, b) = Having(S, u, b)
    BY DEF Having
  <1>2. \A b \in Bit : b \in XorAll(S, t) <=> b \in XorAll(S, u)
    BY <1>1, XorAllHas
  <1>3. QED
    BY <1>2 DEF XorAll

(* An XOR sum of zeros is zero.                                            *)
LEMMA XorAllZero ==
  ASSUME NEW S, NEW t, \A j \in S : t[j] = {}
  PROVE  XorAll(S, t) = {}
  <1>1. ASSUME NEW b \in Bit
        PROVE  b \notin XorAll(S, t)
    <2>1. {j \in S : b \in t[j]} = {}
      OBVIOUS
    <2>2. Cardinality({j \in S : b \in t[j]}) = 0
      BY <2>1, FS_EmptySet
    <2>3. QED
      BY <2>2 DEF XorAll
  <1>2. QED
    BY <1>1 DEF XorAll

(* One term more.                                                          *)
LEMMA XorAllInsert ==
  ASSUME NEW S, IsFiniteSet(S), NEW x, x \notin S, NEW t, t[x] \in Byte
  PROVE  XorAll(S \cup {x}, t) = XOR(XorAll(S, t), t[x])
  <1>1. ASSUME NEW b \in Bit
        PROVE  b \in XorAll(S \cup {x}, t) <=> b \in XOR(XorAll(S, t), t[x])
    <2> DEFINE H == Having(S, t, b)
               G == Having(S \cup {x}, t, b)
    <2>1. IsFiniteSet(H) /\ Cardinality(H) \in Nat /\ x \notin H
      <3>1. H \in SUBSET S
        BY DEF Having
      <3>2. QED
        BY <3>1, FS_Subset, FS_CardinalityType
    <2>2. b \in XOR(XorAll(S, t), t[x]) <=> ((b \in XorAll(S, t)) # (b \in t[x]))
      BY XorCases
    <2>3. CASE b \in t[x]
      <3>1. G = H \cup {x}
        BY <2>3 DEF Having
      <3>2. Cardinality(G) = Cardinality(H) + 1
        BY <2>1, <3>1, FS_AddElement
      <3>3. (Cardinality(G) % 2 = 1) <=> ~(Cardinality(H) % 2 = 1)
        BY <2>1, <3>2
      <3> HIDE DEF G, H
      <3>4. b \in XorAll(S \cup {x}, t) <=> ~(b \in XorAll(S, t))
        BY <3>3, XorAllHas DEF G, H
      <3>5. QED
        BY <2>2, <2>3, <3>4
    <2>4. CASE b \notin t[x]
      <3>1. G = H
        BY <2>4 DEF Having
      <3>2. b \in XorAll(S \cup {x}, t) <=> b \in XorAll(S, t)
        BY <3>1, XorAllHas
      <3>3. QED
        BY <2>2, <2>4, <3>2
    <2>5. QED
      BY <2>3, <2>4
  <1>2. XorAll(S \cup {x}, t) \subseteq Bit /\ XOR(XorAll(S, t), t[x]) \subseteq Bit
    BY DEF XorAll, XOR, SymDiff, Byte
  <1>3. QED
    BY <1>1, <1>2

(* Adding d to one term adds d to the sum.                                 *)
LEMMA XorAllUpdate ==
  ASSUME NEW S, IsFiniteSet(S), NEW i \in S,
         NEW t, NEW u, NEW d \in Byte, t[i] \in Byte,
         \A j \in S \ {i} : u[j] = t[j],
         u[i] = XOR(t[i], d)
  PROVE  XorAll(S, u) = XOR(XorAll(S, t), d)
  <1> DEFINE R == S \ {i}
  <1>1. IsFiniteSet(R) /\ i \notin R /\ R \cup {i} = S
    BY FS_RemoveElement
  <1>2. XorAll(R, t) = XorAll(R, u)
    BY XorAllSame
  <1>3. u[i] \in Byte
    BY XorByte
  <1> HIDE DEF R
  <1>4. XorAll(S, t) = XOR(XorAll(R, t), t[i]) /\ XorAll(S, u) = XOR(XorAll(R, u), u[i])
    BY <1>1, <1>3, XorAllInsert
  <1>5. QED
    BY <1>2, <1>4, XorAssociates

(* The sum whose only term is b.                                           *)
LEMMA XorAllOne ==
  ASSUME NEW S, IsFiniteSet(S), NEW i \in S, NEW t, t[i] \in Byte,
         \A j \in S \ {i} : t[j] = {}
  PROVE  XorAll(S, t) = t[i]
  <1> DEFINE R == S \ {i}
  <1>1. IsFiniteSet(R) /\ i \notin R /\ R \cup {i} = S
    BY FS_RemoveElement
  <1>2. XorAll(R, t) = {}
    BY XorAllZero
  <1> HIDE DEF R
  <1>3. XorAll(S, t) = XOR(XorAll(R, t), t[i])
    BY <1>1, XorAllInsert
  <1>4. QED
    BY <1>2, <1>3, XorZero

(* The sum of sums.                                                        *)
LEMMA XorAllXor ==
  ASSUME NEW S, IsFiniteSet(S), NEW t, NEW u, NEW v,
         \A j \in S : t[j] \in Byte /\ u[j] \in Byte /\ v[j] = XOR(t[j], u[j])
  PROVE  XorAll(S, v) = XOR(XorAll(S, t), XorAll(S, u))
  <1> DEFINE F == {T \in SUBSET S : XorAll(T, v) = XOR(XorAll(T, t), XorAll(T, u))}
  <1>1. {} \in F
    <2>1. XorAll({}, v) = {} /\ XorAll({}, t) = {} /\ XorAll({}, u) = {}
      BY XorAllZero
    <2>2. QED
      BY <2>1, XorZero
  <1>2. ASSUME NEW T \in SUBSET S, NEW x \in S \ T, T \in F
        PROVE  T \cup {x} \in F
    <2>1. IsFiniteSet(T)
      BY FS_Subset
    <2>2. t[x] \in Byte /\ u[x] \in Byte /\ v[x] \in Byte
      BY XorByte
    <2>3. /\ XorAll(T \cup {x}, t) = XOR(XorAll(T, t), t[x])
          /\ XorAll(T \cup {x}, u) = XOR(XorAll(T, u), u[x])
          /\ XorAll(T \cup {x}, v) = XOR(XorAll(T, v), v[x])
      BY <2>1, <2>2, XorAllInsert
    <2>4. XorAll(T, v) = XOR(XorAll(T, t), XorAll(T, u))
      BY <1>2
    <2>5. v[x] = XOR(t[x], u[x])
      OBVIOUS
    <2>6. XorAll(T \cup {x}, v) = XOR(XorAll(T \cup {x}, t), XorAll(T \cup {x}, u))
      BY <2>3, <2>4, <2>5, XorExchange
    <2>7. QED
      BY <2>6
  <1> HIDE DEF F
  <1>3. S \in F
    BY <1>1, <1>2, SetInduction
  <1>4. QED
    BY <1>3 DEF F

(* A map that is additive on bytes.                                        *)
Additive(f) ==
  /\ f \in [Byte -> Byte]
  /\ \A x, y \in Byte : f[XOR(x, y)] = XOR(f[x], f[y])

LEMMA AdditiveZero ==
  ASSUME NEW f, Additive(f)
  PROVE  f[{}] = {}
  <1>1. {} \in Byte
    BY DEF Byte
  <1>2. f[XOR({}, {})] = XOR(f[{}], f[{}])
    BY <1>1 DEF Additive
  <1>3. QED
    BY <1>2, XorZero

(* It may be applied to a sum or to its terms.                             *)
LEMMA XorAllMapped ==
  ASSUME NEW S, IsFiniteSet(S), NEW f, Additive(f), NEW t, NEW u,
         \A j \in S : t[j] \in Byte /\ u[j] = f[t[j]]
  PROVE  XorAll(S, u) = f[XorAll(S, t)]
  <1> DEFINE F == {T \in SUBSET S : XorAll(T, u) = f[XorAll(T, t)]}
  <1>1. {} \in F
    <2>1. XorAll({}, t) = {} /\ XorAll({}, u) = {}
      BY XorAllZero
    <2>2. QED
      BY <2>1, AdditiveZero
  <1>2. ASSUME NEW T \in SUBSET S, NEW x \in S \ T, T \in F
        PROVE  T \cup {x} \in F
    <2>1. IsFiniteSet(T)
      BY FS_Subset
    <2>2. t[x] \in Byte /\ u[x] = f[t[x]] /\ u[x] \in Byte
      BY DEF Additive
    <2>8. x \notin T
      OBVIOUS
    <2> HIDE DEF F
    <2>9. XorAll(T \cup {x}, t) = XOR(XorAll(T, t), t[x])
      BY ONLY <2>1, <2>2, <2>8, XorAllInsert
    <2>3. XorAll(T \cup {x}, u) = XOR(XorAll(T, u), u[x])
      BY ONLY <2>1, <2>2, <2>8, XorAllInsert
    <2>4. XorAll(T, t) \in Byte
      BY XorAllByte
    <2>5. f[XOR(XorAll(T, t), t[x])] = XOR(f[XorAll(T, t)], f[t[x]])
      BY <2>2, <2>4 DEF Additive
    <2>6. XorAll(T, u) = f[XorAll(T, t)]
      BY <1>2 DEF F
    <2>7. XorAll(T \cup {x}, u) = f[XorAll(T \cup {x}, t)]
      BY <2>2, <2>9, <2>3, <2>5, <2>6
    <2>10. QED
      BY <2>7 DEF F
  <1> HIDE DEF F
  <1>3. S \in F
    BY <1>1, <1>2, SetInduction
  <1>4. QED
    BY <1>3 DEF F

(* A grid of bytes and its transpose; the sums of its rows.                *)
Grid(I, J, x, z) ==
  \A i \in I, j \in J : x[i][j] \in Byte /\ z[j][i] = x[i][j]

RowSums(I, J, x, rows) == \A i \in I : rows[i] = XorAll(J, x[i])

(* Rows or columns first.                                                  *)
LEMMA XorAllSwap ==
  ASSUME NEW I, IsFiniteSet(I), NEW J, IsFiniteSet(J), NEW x, NEW z,
         Grid(I, J, x, z),
         NEW rows, RowSums(I, J, x, rows),
         NEW cols, RowSums(J, I, z, cols)
  PROVE  XorAll(I, rows) = XorAll(J, cols)
  <1> DEFINE col(T) == [j \in J |-> XorAll(T, z[j])]
             F == {T \in SUBSET I : XorAll(T, rows) = XorAll(J, col(T))}
  <1>1. {} \in F
    <2>1. XorAll({}, rows) = {}
      BY XorAllZero
    <2>2. \A j \in J : col({})[j] = {}
      BY XorAllZero
    <2>3. XorAll(J, col({})) = {}
      BY <2>2, XorAllZero
    <2>4. QED
      BY <2>1, <2>3
  <1>2. ASSUME NEW T \in SUBSET I, NEW k \in I \ T, T \in F
        PROVE  T \cup {k} \in F
    <2> DEFINE before == col(T)
               after  == col(T \cup {k})
    <2>0. IsFiniteSet(T) /\ k \notin T
      BY FS_Subset
    <2>1. XorAll(T, rows) = XorAll(J, before)
      BY <1>2
    <2>2. rows[k] = XorAll(J, x[k]) /\ rows[k] \in Byte
      BY XorAllByte DEF RowSums
    <2>3. XorAll(T \cup {k}, rows) = XOR(XorAll(T, rows), rows[k])
      BY <2>0, <2>2, XorAllInsert
    <2>4. ASSUME NEW j \in J
          PROVE  /\ before[j] \in Byte /\ x[k][j] \in Byte
                 /\ after[j] = XOR(before[j], x[k][j])
      <3>1. XorAll(T \cup {k}, z[j]) = XOR(XorAll(T, z[j]), z[j][k])
        <4>1. z[j][k] \in Byte
          BY DEF Grid
        <4>2. QED
          BY <2>0, <4>1, XorAllInsert
      <3>2. z[j][k] = x[k][j] /\ x[k][j] \in Byte
        BY DEF Grid
      <3>3. QED
        BY <3>1, <3>2, XorAllByte
    <2>5. XorAll(J, after) = XOR(XorAll(J, before), XorAll(J, x[k]))
      <3> HIDE DEF before, after
      <3>1. QED
        BY <2>4, XorAllXor
    <2>6. XorAll(T \cup {k}, rows) = XorAll(J, after)
      BY <2>1, <2>2, <2>3, <2>5
    <2>7. QED
      BY <2>6
  <1> HIDE DEF F
  <1>3. I \in F
    BY <1>1, <1>2, SetInduction
  <1> DEFINE colI == col(I)
  <1>4. XorAll(I, rows) = XorAll(J, colI)
    BY <1>3 DEF F
  <1>5. \A j \in J : colI[j] = cols[j]
    BY DEF RowSums
  <1> HIDE DEF colI
  <1>6. XorAll(J, colI) = XorAll(J, cols)
    BY <1>5, XorAllSame
  <1>7. QED
    BY <1>4, <1>6

(* A sum over part of a set: the other terms may as well be zero.          *)
LEMMA XorAllWithin ==
  ASSUME NEW S, NEW T \in SUBSET S, NEW t
  PROVE  XorAll(T, t) = XorAll(S, [j \in S |-> IF j \in T THEN t[j] ELSE {}])
  <1> DEFINE u == [j \in S |-> IF j \in T THEN t[j] ELSE {}]
  <1>1. \A b \in Bit : Having(T, t, b) = Having(S, u, b)
    BY DEF Having
  <1> HIDE DEF u
  <1>2. \A b \in Bit : b \in XorAll(T, t) <=> b \in XorAll(S, u)
    BY <1>1, XorAllHas
  <1>3. XorAll(T, t) = XorAll(S, u)
    BY <1>2 DEF XorAll
  <1>4. QED
    BY <1>3 DEF u

(* Sums over two sets: what is in both cancels.                            *)
LEMMA XorAllSymDiff ==
  ASSUME NEW S, IsFiniteSet(S), NEW x \in SUBSET S, NEW y \in SUBSET S, NEW t,
         \A j \in S : t[j] \in Byte
  PROVE  XorAll(XOR(x, y), t) = XOR(XorAll(x, t), XorAll(y, t))
  <1> DEFINE within(T) == [j \in S |-> IF j \in T THEN t[j] ELSE {}]
             z == XOR(x, y)
  <1>1. z \in SUBSET S
    BY DEF XOR, SymDiff
  <1>2. /\ XorAll(x, t) = XorAll(S, within(x))
        /\ XorAll(y, t) = XorAll(S, within(y))
        /\ XorAll(z, t) = XorAll(S, within(z))
    <2> HIDE DEF z
    <2>1. QED
      BY <1>1, XorAllWithin
  <1>3. \A j \in S : /\ within(x)[j] \in Byte
                     /\ within(y)[j] \in Byte
                     /\ within(z)[j] = XOR(within(x)[j], within(y)[j])
    <2>1. {} \in Byte
      BY DEF Byte
    <2>2. ASSUME NEW j \in S
          PROVE  within(z)[j] = XOR(within(x)[j], within(y)[j])
      <3>1. j \in z <=> ((j \in x) # (j \in y))
        BY XorCases
      <3> HIDE DEF z
      <3>2. QED
        BY <3>1, XorZero
    <2>3. QED
      BY <2>1, <2>2
  <1>4. XorAll(S, within(z)) = XOR(XorAll(S, within(x)), XorAll(S, within(y)))
    <2> DEFINE wx == within(x)
               wy == within(y)
               wz == within(z)
    <2>1. \A j \in S : wx[j] \in Byte /\ wy[j] \in Byte /\ wz[j] = XOR(wx[j], wy[j])
      BY <1>3
    <2> HIDE DEF wx, wy, wz
    <2>2. XorAll(S, wz) = XOR(XorAll(S, wx), XorAll(S, wy))
      BY <2>1, XorAllXor
    <2>3. QED
      BY <2>2 DEF wx, wy, wz
  <1>5. QED
    BY <1>2, <1>4
-----------------------------------------------------------------------------
(* The field.                                                              *)

LEMMA BitFinite == IsFiniteSet(Bit)
  <1>1. 0 \in Int /\ Bits - 1 \in Int
    BY FieldAssumption
  <1>2. QED
    BY <1>1, FS_Interval DEF Bit

LEMMA ByteFacts ==
  /\ {} \in Byte
  /\ {0} \in Byte
  /\ \A b \in Bit : {b} \in Byte
  /\ \A x \in Byte : IsFiniteSet(x)
  <1>1. 0 \in Bit
    BY FieldAssumption DEF Bit
  <1>2. \A x \in Byte : IsFiniteSet(x)
    BY BitFinite, FS_Subset DEF Byte
  <1>3. QED
    BY <1>1, <1>2 DEF Byte

LEMMA MulByte ==
  ASSUME NEW a \in Byte, NEW x \in Byte
  PROVE  mul(a, x) \in Byte /\ mul(a, x) = mul(x, a)
  BY FieldLaws

LEMMA MulZero ==
  ASSUME NEW a
  PROVE  mul(a, {}) = {} /\ mul({}, a) = {}
  BY DEF mul

LEMMA MulOne ==
  ASSUME NEW a \in Byte
  PROVE  mul({0}, a) = a /\ mul(a, {0}) = a
  BY FieldLaws, ByteFacts

LEMMA MulInverse ==
  ASSUME NEW a \in Byte, a # {}
  PROVE  inv(a) \in Byte /\ mul(a, inv(a)) = {0}
  BY FieldLaws

LEMMA MulDistributes ==
  ASSUME NEW a \in Byte, NEW x \in Byte, NEW y \in Byte
  PROVE  /\ mul(a, XOR(x, y)) = XOR(mul(a, x), mul(a, y))
         /\ mul(XOR(x, y), a) = XOR(mul(x, a), mul(y, a))
  <1> DEFINE t == [b \in Bit |-> mul(a, {b})]
  <1>1. \A b \in Bit : t[b] \in Byte
    BY MulByte, ByteFacts
  <1>2. ASSUME NEW z \in Byte
        PROVE  mul(a, z) = XorAll(z, t)
    <2>1. mul(a, z) = XorAll(z, [b \in z |-> mul(a, {b})])
      BY FieldLaws
    <2>2. \A b \in z : t[b] = [c \in z |-> mul(a, {c})][b]
      BY DEF Byte
    <2> HIDE DEF t
    <2>3. XorAll(z, t) = XorAll(z, [c \in z |-> mul(a, {c})])
      BY <2>2, XorAllSame
    <2>4. QED
      BY <2>1, <2>3
  <1>3. XOR(x, y) \in Byte /\ x \in SUBSET Bit /\ y \in SUBSET Bit
    BY XorByte DEF Byte
  <1> HIDE DEF t
  <1>4. XorAll(XOR(x, y), t) = XOR(XorAll(x, t), XorAll(y, t))
    BY <1>1, <1>3, BitFinite, XorAllSymDiff
  <1>5. mul(a, XOR(x, y)) = XOR(mul(a, x), mul(a, y))
    BY <1>2, <1>3, <1>4
  <1>6. QED
    BY <1>3, <1>5, MulByte

LEMMA MulAdditive ==
  ASSUME NEW a \in Byte
  PROVE  Additive([x \in Byte |-> mul(a, x)])
  <1> DEFINE f == [x \in Byte |-> mul(a, x)]
  <1>1. f \in [Byte -> Byte]
    BY MulByte
  <1>2. ASSUME NEW v \in Byte, NEW w \in Byte
        PROVE  f[XOR(v, w)] = XOR(f[v], f[w])
    BY MulByte, MulDistributes, XorByte
  <1> HIDE DEF f
  <1>3. Additive(f)
    BY <1>1, <1>2 DEF Additive
  <1>4. QED
    BY <1>3 DEF f

(* Additive maps that agree on single bits agree.                          *)
LEMMA AdditiveAgree ==
  ASSUME NEW f, NEW g, Additive(f), Additive(g), \A b \in Bit : f[{b}] = g[{b}],
         NEW x \in Byte
  PROVE  f[x] = g[x]
  <1> DEFINE t == [b \in x |-> {b}]
             u == [b \in x |-> f[{b}]]
  <1>1. IsFiniteSet(x) /\ x \subseteq Bit
    BY ByteFacts DEF Byte
  <1>2. \A b \in x : t[b] \in Byte /\ u[b] = f[t[b]] /\ u[b] = g[t[b]]
    BY <1>1, ByteFacts
  <1>3. XorAll(x, t) = x
    <2>1. ASSUME NEW b \in Bit
          PROVE  b \in XorAll(x, t) <=> b \in x
      <3>1. CASE b \in x
        <4>1. Having(x, t, b) = {b}
          BY <3>1 DEF Having
        <4>2. Cardinality(Having(x, t, b)) = 1
          BY <4>1, FS_Singleton
        <4>3. QED
          BY <3>1, <4>2, XorAllHas
      <3>2. CASE b \notin x
        <4>1. Having(x, t, b) = {}
          BY <3>2 DEF Having
        <4>2. Cardinality(Having(x, t, b)) = 0
          BY <4>1, FS_EmptySet
        <4>3. QED
          BY <3>2, <4>2, XorAllHas
      <3>3. QED
        BY <3>1, <3>2
    <2>2. QED
      BY <1>1, <2>1 DEF XorAll
  <1> HIDE DEF t, u
  <1>4. XorAll(x, u) = f[x] /\ XorAll(x, u) = g[x]
    BY <1>1, <1>2, <1>3, XorAllMapped
  <1>5. QED
    BY <1>4

LEMMA MulAssociates ==
  ASSUME NEW x \in Byte, NEW y \in Byte, NEW z \in Byte
  PROVE  mul(mul(x, y), z) = mul(x, mul(y, z))
  <1>1. ASSUME NEW b \in Bit, NEW c \in Bit
        PROVE  mul(mul({b}, {c}), z) = mul({b}, mul({c}, z))
    <2> DEFINE f == [w \in Byte |-> mul(mul({b}, {c}), w)]
               g == [w \in Byte |-> mul({b}, mul({c}, w))]
    <2>1. {b} \in Byte /\ {c} \in Byte /\ mul({b}, {c}) \in Byte
      BY ByteFacts, MulByte
    <2>2. Additive(f)
      BY <2>1, MulAdditive
    <2>3. Additive(g)
      <3>1. g \in [Byte -> Byte]
        BY <2>1, MulByte
      <3>2. ASSUME NEW v \in Byte, NEW w \in Byte
            PROVE  g[XOR(v, w)] = XOR(g[v], g[w])
        BY <2>1, MulByte, MulDistributes, XorByte
      <3> HIDE DEF g
      <3>3. QED
        BY <3>1, <3>2 DEF Additive
    <2>4. ASSUME NEW d \in Bit PROVE f[{d}] = g[{d}]
      <3>1. {d} \in Byte /\ f[{d}] = mul(mul({b}, {c}), {d}) /\ g[{d}] = mul({b}, mul({c}, {d}))
        BY ByteFacts
      <3>2. mul(mul({b}, {c}), {d}) = mul({b}, mul({c}, {d}))
        BY FieldLaws
      <3>3. QED
        BY <3>1, <3>2
    <2> HIDE DEF f, g
    <2>5. f[z] = g[z]
      BY <2>2, <2>3, <2>4, AdditiveAgree
    <2>6. QED
      BY <2>5 DEF f, g
  <1>2. ASSUME NEW b \in Bit
        PROVE  mul(mul({b}, y), z) = mul({b}, mul(y, z))
    <2> DEFINE f == [w \in Byte |-> mul(mul({b}, w), z)]
               g == [w \in Byte |-> mul({b}, mul(w, z))]
    <2>1. {b} \in Byte
      BY ByteFacts
    <2>2. Additive(f)
      <3>1. f \in [Byte -> Byte]
        BY <2>1, MulByte
      <3>2. ASSUME NEW v \in Byte, NEW w \in Byte
            PROVE  f[XOR(v, w)] = XOR(f[v], f[w])
        BY <2>1, MulByte, MulDistributes, XorByte
      <3> HIDE DEF f
      <3>3. QED
        BY <3>1, <3>2 DEF Additive
    <2>3. Additive(g)
      <3>1. g \in [Byte -> Byte]
        BY <2>1, MulByte
      <3>2. ASSUME NEW v \in Byte, NEW w \in Byte
            PROVE  g[XOR(v, w)] = XOR(g[v], g[w])
        BY <2>1, MulByte, MulDistributes, XorByte
      <3> HIDE DEF g
      <3>3. QED
        BY <3>1, <3>2 DEF Additive
    <2>4. \A c \in Bit : f[{c}] = g[{c}]
      BY ByteFacts, <1>1
    <2> HIDE DEF f, g
    <2>5. f[y] = g[y]
      BY <2>2, <2>3, <2>4, AdditiveAgree
    <2>6. QED
      BY <2>5 DEF f, g
  <1> DEFINE f == [w \in Byte |-> mul(mul(w, y), z)]
             g == [w \in Byte |-> mul(w, mul(y, z))]
  <1>3. Additive(f)
    <2>1. f \in [Byte -> Byte]
      BY MulByte
    <2>2. ASSUME NEW v \in Byte, NEW w \in Byte
          PROVE  f[XOR(v, w)] = XOR(f[v], f[w])
      BY MulByte, MulDistributes, XorByte
    <2> HIDE DEF f
    <2>3. QED
      BY <2>1, <2>2 DEF Additive
  <1>4. Additive(g)
    <2>1. mul(y, z) \in Byte
      BY MulByte
    <2>2. g \in [Byte -> Byte]
      BY <2>1, MulByte
    <2>3. ASSUME NEW v \in Byte, NEW w \in Byte
          PROVE  g[XOR(v, w)] = XOR(g[v], g[w])
      BY <2>1, MulDistributes, XorByte
    <2> HIDE DEF g
    <2>4. QED
      BY <2>2, <2>3 DEF Additive
  <1>5. \A b \in Bit : f[{b}] = g[{b}]
    BY ByteFacts, <1>2
  <1> HIDE DEF f, g
  <1>6. f[x] = g[x]
    BY <1>3, <1>4, <1>5, AdditiveAgree
  <1>7. QED
    BY <1>6 DEF f, g

(* A factor may be taken out of a sum, on either side.                     *)
LEMMA XorAllTimes ==
  ASSUME NEW S, IsFiniteSet(S), NEW a \in Byte, NEW t, NEW u,
         \A j \in S : t[j] \in Byte /\ u[j] = mul(a, t[j])
  PROVE  XorAll(S, u) = mul(a, XorAll(S, t))
  <1> DEFINE f == [x \in Byte |-> mul(a, x)]
  <1>1. Additive(f)
    BY MulAdditive
  <1>2. \A j \in S : t[j] \in Byte /\ u[j] = f[t[j]]
    OBVIOUS
  <1>3. f[XorAll(S, t)] = mul(a, XorAll(S, t))
    BY XorAllByte
  <1> HIDE DEF f
  <1>4. XorAll(S, u) = f[XorAll(S, t)]
    BY <1>1, <1>2, XorAllMapped
  <1>5. QED
    BY <1>3, <1>4
-----------------------------------------------------------------------------
(* Rows times columns.                                                     *)

Dot(I, u, x) == XorAll(I, [t \in I |-> mul(u[t], x[t])])

LEMMA DotByte ==
  ASSUME NEW I, NEW u, NEW x
  PROVE  Dot(I, u, x) \in Byte
  BY XorAllByte DEF Dot

(* Only the terms matter.                                                  *)
LEMMA DotSame ==
  ASSUME NEW I, NEW u, NEW v, NEW x, NEW y,
         \A t \in I : u[t] = v[t] /\ x[t] = y[t]
  PROVE  Dot(I, u, x) = Dot(I, v, y)
  BY DEF Dot

LEMMA DotZero ==
  ASSUME NEW I, NEW u, NEW x, \A t \in I : u[t] = {} \/ x[t] = {}
  PROVE  Dot(I, u, x) = {}
  <1> DEFINE p == [t \in I |-> mul(u[t], x[t])]
  <1>1. \A t \in I : p[t] = {}
    BY MulZero
  <1> HIDE DEF p
  <1>2. XorAll(I, p) = {}
    BY <1>1, XorAllZero
  <1>3. QED
    BY <1>2 DEF p, Dot

(* A row scaled.                                                           *)
LEMMA DotScaled ==
  ASSUME NEW I, IsFiniteSet(I), NEW s \in Byte, NEW u, NEW v, NEW x,
         \A t \in I : u[t] \in Byte /\ x[t] \in Byte /\ v[t] = mul(u[t], s)
  PROVE  Dot(I, v, x) = mul(Dot(I, u, x), s)
  <1> DEFINE p == [t \in I |-> mul(u[t], x[t])]
             q == [t \in I |-> mul(v[t], x[t])]
  <1>1. ASSUME NEW t \in I
        PROVE  p[t] \in Byte /\ q[t] = mul(s, p[t])
    <2>1. p[t] \in Byte
      BY MulByte
    <2>2. v[t] = mul(s, u[t])
      BY MulByte
    <2>3. q[t] = mul(s, mul(u[t], x[t]))
      BY <2>2, MulAssociates
    <2>4. QED
      BY <2>1, <2>3
  <1> HIDE DEF p, q
  <1>2. XorAll(I, q) = mul(s, XorAll(I, p))
    BY <1>1, XorAllTimes
  <1>3. XorAll(I, q) = mul(XorAll(I, p), s)
    BY <1>2, XorAllByte, MulByte
  <1>4. QED
    BY <1>3 DEF p, q, Dot

(* A row to which a multiple of another is added.                          *)
LEMMA DotCombined ==
  ASSUME NEW I, IsFiniteSet(I), NEW f \in Byte, NEW u, NEW v, NEW w, NEW x,
         \A t \in I : /\ u[t] \in Byte /\ v[t] \in Byte /\ x[t] \in Byte
                      /\ w[t] = XOR(u[t], mul(f, v[t]))
  PROVE  Dot(I, w, x) = XOR(Dot(I, u, x), mul(f, Dot(I, v, x)))
  <1> DEFINE p == [t \in I |-> mul(u[t], x[t])]
             q == [t \in I |-> mul(v[t], x[t])]
             r == [t \in I |-> mul(w[t], x[t])]
             fq == [t \in I |-> mul(f, q[t])]
  <1>1. ASSUME NEW t \in I
        PROVE  /\ p[t] \in Byte /\ q[t] \in Byte /\ fq[t] \in Byte
               /\ fq[t] = mul(f, q[t]) /\ r[t] = XOR(p[t], fq[t])
    <2>1. mul(f, v[t]) \in Byte /\ p[t] \in Byte /\ q[t] \in Byte
      BY MulByte
    <2>2. fq[t] \in Byte
      BY <2>1, MulByte
    <2>3. mul(w[t], x[t]) = XOR(mul(u[t], x[t]), mul(mul(f, v[t]), x[t]))
      BY <2>1, MulDistributes
    <2>4. mul(mul(f, v[t]), x[t]) = mul(f, mul(v[t], x[t]))
      BY MulAssociates
    <2>5. QED
      BY <2>1, <2>2, <2>3, <2>4
  <1> HIDE DEF p, q, r, fq
  <1>2. XorAll(I, r) = XOR(XorAll(I, p), XorAll(I, fq))
    BY <1>1, XorAllXor
  <1>3. XorAll(I, fq) = mul(f, XorAll(I, q))
    BY <1>1, XorAllTimes
  <1>4. QED
    BY <1>2, <1>3 DEF p, q, r, Dot

(* A row of the identity.                                                  *)
LEMMA DotUnit ==
  ASSUME NEW I, IsFiniteSet(I), NEW r \in I, NEW u, NEW x,
         \A t \in I : x[t] \in Byte /\ u[t] = Delta(r, t)
  PROVE  Dot(I, u, x) = x[r]
  <1> DEFINE p == [t \in I |-> mul(u[t], x[t])]
  <1>1. p[r] = x[r]
    BY MulOne DEF Delta
  <1>2. \A t \in I \ {r} : p[t] = {}
    BY MulZero DEF Delta
  <1> HIDE DEF p
  <1>3. XorAll(I, p) = x[r]
    BY <1>1, <1>2, XorAllOne
  <1>4. QED
    BY <1>3 DEF p, Dot

(* A row times a matrix times a column: m[t] is row t of the matrix, and   *)
(* mt[j] its column j.                                                     *)
Bytes(I, u) == \A t \in I : u[t] \in Byte
Entries(T, J, m) == \A t \in T, j \in J : m[t][j] \in Byte
Applied(T, J, m, x, mx) == \A t \in T : mx[t] = Dot(J, m[t], x)
Transposed(T, J, m, mt) == \A t \in T, j \in J : mt[j][t] = m[t][j]

LEMMA DotAssociates ==
  ASSUME NEW T, IsFiniteSet(T), NEW J, IsFiniteSet(J),
         NEW u, Bytes(T, u), NEW m, Entries(T, J, m), NEW x, Bytes(J, x),
         NEW mt, Transposed(T, J, m, mt),
         NEW mx, Applied(T, J, m, x, mx),
         NEW um, \A j \in J : um[j] = Dot(T, u, mt[j])
  PROVE  Dot(T, u, mx) = Dot(J, um, x)
  <1> USE DEF Bytes, Entries, Applied, Transposed
  <1> DEFINE y == [t \in T |-> [j \in J |-> mul(mul(u[t], m[t][j]), x[j])]]
             z == [j \in J |-> [t \in T |-> mul(mul(u[t], m[t][j]), x[j])]]
             rows == [t \in T |-> mul(u[t], mx[t])]
             cols == [j \in J |-> mul(um[j], x[j])]
  <1>1. Grid(T, J, y, z)
    BY MulByte DEF Grid
  <1>2. ASSUME NEW t \in T
        PROVE  rows[t] = XorAll(J, y[t])
    <2> DEFINE p == [j \in J |-> mul(m[t][j], x[j])]
               q == y[t]
    <2>1. ASSUME NEW j \in J
          PROVE  p[j] \in Byte /\ q[j] = mul(u[t], p[j])
      <3>1. u[t] \in Byte /\ m[t][j] \in Byte /\ x[j] \in Byte
        OBVIOUS
      <3>2. mul(mul(u[t], m[t][j]), x[j]) = mul(u[t], mul(m[t][j], x[j]))
        BY <3>1, MulAssociates
      <3>3. QED
        BY <3>1, <3>2, MulByte
    <2>2. mx[t] = XorAll(J, p)
      BY DEF Dot
    <2> HIDE DEF p, q
    <2>3. XorAll(J, q) = mul(u[t], XorAll(J, p))
      BY <2>1, XorAllTimes
    <2>4. QED
      BY <2>2, <2>3 DEF q
  <1>3. ASSUME NEW j \in J
        PROVE  cols[j] = XorAll(T, z[j])
    <2> DEFINE p == [t \in T |-> mul(u[t], mt[j][t])]
               q == z[j]
    <2>1. \A t \in T : p[t] \in Byte /\ q[t] = mul(x[j], p[t])
      BY MulByte
    <2>2. um[j] = XorAll(T, p)
      BY DEF Dot
    <2> HIDE DEF p, q
    <2>3. XorAll(T, q) = mul(x[j], XorAll(T, p))
      BY <2>1, XorAllTimes
    <2>4. XorAll(T, q) = mul(XorAll(T, p), x[j])
      BY <2>3, XorAllByte, MulByte
    <2>5. QED
      BY <2>2, <2>4 DEF q
  <1>4. Dot(T, u, mx) = XorAll(T, rows) /\ Dot(J, um, x) = XorAll(J, cols)
    BY DEF Dot
  <1> HIDE DEF y, z, rows, cols
  <1>5. RowSums(T, J, y, rows) /\ RowSums(J, T, z, cols)
    BY <1>2, <1>3 DEF RowSums
  <1>6. XorAll(T, rows) = XorAll(J, cols)
    BY <1>1, <1>5, XorAllSwap
  <1>7. QED
    BY <1>4, <1>6
-----------------------------------------------------------------------------
(* Square matrices and the row operations of the inversion.                *)

Mat(n) == [Upto(n) -> [Upto(n) -> Byte]]

(* Column c, the product, and the columns before i in their final form.    *)
Column(A, n, c) == [t \in Upto(n) |-> A[t][c]]

Times(B, A, n) ==
  [r \in Upto(n) |-> [c \in Upto(n) |-> Dot(Upto(n), B[r], Column(A, n, c))]]

Reduced(a, n, i) == \A r \in Upto(n), c \in Upto(i) : a[r][c] = Delta(r, c)

LEMMA DeltaByte ==
  ASSUME NEW r, NEW c
  PROVE  Delta(r, c) \in Byte
  BY ByteFacts DEF Delta

LEMMA IdentityMat ==
  ASSUME NEW n
  PROVE  /\ Identity(n).at \in Mat(n)
         /\ Identity(n).rows = n /\ Identity(n).cols = n
         /\ \A r, c \in Upto(n) : Identity(n).at[r][c] = Delta(r, c)
  BY DeltaByte DEF Identity, Matrix, Mat

LEMMA MatByte ==
  ASSUME NEW n, NEW A \in Mat(n)
  PROVE  \A r, c \in Upto(n) : A[r][c] \in Byte
  BY DEF Mat

LEMMA ColumnByte ==
  ASSUME NEW n, NEW A \in Mat(n), NEW c \in Upto(n)
  PROVE  /\ Column(A, n, c) \in [Upto(n) -> Byte]
         /\ \A t \in Upto(n) : Column(A, n, c)[t] = A[t][c]
  BY DEF Column, Mat

LEMMA TimesMat ==
  ASSUME NEW n, NEW A, NEW B
  PROVE  /\ Times(B, A, n) \in Mat(n)
         /\ \A r, c \in Upto(n) :
              Times(B, A, n)[r][c] = Dot(Upto(n), B[r], Column(A, n, c))
  BY DotByte DEF Times, Mat

LEMMA MatEqual ==
  ASSUME NEW n, NEW A \in Mat(n), NEW B \in Mat(n),
         \A r, c \in Upto(n) : A[r][c] = B[r][c]
  PROVE  A = B
  BY DEF Mat

(* The identity times a matrix.                                            *)
LEMMA IdentityTimes ==
  ASSUME NEW n \in Nat, NEW A \in Mat(n)
  PROVE  Times(Identity(n).at, A, n) = A
  <1> DEFINE E == Identity(n).at
  <1>1. ASSUME NEW r \in Upto(n), NEW c \in Upto(n)
        PROVE  Times(E, A, n)[r][c] = A[r][c]
    <2> DEFINE u == E[r]
               x == Column(A, n, c)
    <2>1. \A t \in Upto(n) : x[t] \in Byte /\ u[t] = Delta(r, t)
      BY IdentityMat, ColumnByte
    <2>2. x[r] = A[r][c]
      BY ColumnByte
    <2>3. Times(E, A, n)[r][c] = Dot(Upto(n), u, x)
      BY TimesMat
    <2> HIDE DEF u, x
    <2>4. Dot(Upto(n), u, x) = x[r]
      BY <2>1, UptoFinite, DotUnit
    <2>5. QED
      BY <2>2, <2>3, <2>4
  <1> HIDE DEF E
  <1>2. QED
    BY <1>1, TimesMat, MatEqual DEF E

(* Swapping rows.                                                          *)
LEMMA SwapFacts ==
  ASSUME NEW n, NEW A \in Mat(n), NEW i \in Upto(n), NEW j \in Upto(n)
  PROVE  /\ SwapRows(A, i, j) \in Mat(n)
         /\ SwapRows(A, i, j)[i] = A[j]
         /\ SwapRows(A, i, j)[j] = A[i]
         /\ \A r \in Upto(n) \ {i, j} : SwapRows(A, i, j)[r] = A[r]
  BY DEF SwapRows, Mat

LEMMA SwapTimes ==
  ASSUME NEW n \in Nat, NEW A \in Mat(n), NEW B \in Mat(n),
         NEW i \in Upto(n), NEW j \in Upto(n)
  PROVE  Times(SwapRows(B, i, j), A, n) = SwapRows(Times(B, A, n), i, j)
  <1> DEFINE S == SwapRows(B, i, j)
             T == Times(B, A, n)
  <1>1. T \in Mat(n)
    BY TimesMat
  <1>2. ASSUME NEW r \in Upto(n), NEW c \in Upto(n)
        PROVE  Times(S, A, n)[r][c] = SwapRows(T, i, j)[r][c]
    <2>1. PICK s \in Upto(n) : S[r] = B[s] /\ SwapRows(T, i, j)[r] = T[s]
      <3>1. CASE r = i
        BY <1>1, <3>1, SwapFacts
      <3>2. CASE r = j
        BY <1>1, <3>2, SwapFacts
      <3>3. CASE r \notin {i, j}
        BY <1>1, <3>3, SwapFacts
      <3>4. QED
        BY <3>1, <3>2, <3>3
    <2>2. Times(S, A, n)[r][c] = Dot(Upto(n), S[r], Column(A, n, c))
      BY TimesMat
    <2>3. T[s][c] = Dot(Upto(n), B[s], Column(A, n, c))
      BY TimesMat
    <2>4. QED
      BY <2>1, <2>2, <2>3
  <1>3. SwapRows(T, i, j) \in Mat(n)
    BY <1>1, SwapFacts
  <1> HIDE DEF S, T
  <1>4. QED
    BY <1>2, <1>3, TimesMat, MatEqual DEF S, T

(* Scaling a row.                                                          *)
LEMMA ScaleFacts ==
  ASSUME NEW n, NEW A \in Mat(n), NEW i \in Upto(n), NEW s \in Byte
  PROVE  /\ ScaleRow(A, i, s) \in Mat(n)
         /\ \A c \in Upto(n) : ScaleRow(A, i, s)[i][c] = mul(A[i][c], s)
         /\ \A r \in Upto(n) \ {i} : ScaleRow(A, i, s)[r] = A[r]
  <1>1. \A c \in Upto(n) : A[i][c] \in Byte /\ mul(A[i][c], s) \in Byte
    BY MulByte DEF Mat
  <1>2. A \in [Upto(n) -> [Upto(n) -> Byte]] /\ DOMAIN A[i] = Upto(n)
    BY DEF Mat
  <1>3. QED
    BY <1>1, <1>2 DEF ScaleRow, Mat

LEMMA ScaleTimes ==
  ASSUME NEW n \in Nat, NEW A \in Mat(n), NEW B \in Mat(n),
         NEW i \in Upto(n), NEW s \in Byte
  PROVE  Times(ScaleRow(B, i, s), A, n) = ScaleRow(Times(B, A, n), i, s)
  <1> DEFINE S == ScaleRow(B, i, s)
             T == Times(B, A, n)
  <1>1. T \in Mat(n)
    BY TimesMat
  <1>2. ASSUME NEW r \in Upto(n), NEW c \in Upto(n)
        PROVE  Times(S, A, n)[r][c] = ScaleRow(T, i, s)[r][c]
    <2> DEFINE x == Column(A, n, c)
    <2>1. Times(S, A, n)[r][c] = Dot(Upto(n), S[r], x) /\ T[r][c] = Dot(Upto(n), B[r], x)
      BY TimesMat
    <2>2. CASE r = i
      <3>1. \A t \in Upto(n) :
              B[i][t] \in Byte /\ x[t] \in Byte /\ S[i][t] = mul(B[i][t], s)
        BY ScaleFacts, ColumnByte, MatByte
      <3> HIDE DEF x, S, T
      <3>2. Dot(Upto(n), S[i], x) = mul(Dot(Upto(n), B[i], x), s)
        BY <3>1, UptoFinite, DotScaled
      <3>3. ScaleRow(T, i, s)[i][c] = mul(T[i][c], s)
        BY <1>1, ScaleFacts
      <3>4. QED
        BY <2>1, <2>2, <3>2, <3>3
    <2>3. CASE r # i
      BY <1>1, <2>1, <2>3, ScaleFacts
    <2>4. QED
      BY <2>2, <2>3
  <1>3. ScaleRow(T, i, s) \in Mat(n)
    BY <1>1, ScaleFacts
  <1> HIDE DEF S, T
  <1>4. QED
    BY <1>2, <1>3, TimesMat, MatEqual DEF S, T

(* Eliminating a column: each row but i loses a multiple of row i.         *)
LEMMA EliminateFacts ==
  ASSUME NEW n, NEW A \in Mat(n), NEW i \in Upto(n), NEW f \in [Upto(n) -> Byte]
  PROVE  /\ EliminateRows(A, i, f) \in Mat(n)
         /\ EliminateRows(A, i, f)[i] = A[i]
         /\ \A r \in Upto(n) \ {i}, c \in Upto(n) :
              EliminateRows(A, i, f)[r][c] = XOR(A[r][c], mul(f[r], A[i][c]))
  <1>1. \A r, c \in Upto(n) : XOR(A[r][c], mul(f[r], A[i][c])) \in Byte
    BY MulByte, XorByte DEF Mat
  <1>2. A \in [Upto(n) -> [Upto(n) -> Byte]] /\ \A r \in Upto(n) : DOMAIN A[r] = Upto(n)
    BY DEF Mat
  <1>3. QED
    BY <1>1, <1>2 DEF EliminateRows, Mat

LEMMA EliminateTimes ==
  ASSUME NEW n \in Nat, NEW A \in Mat(n), NEW B \in Mat(n),
         NEW i \in Upto(n), NEW f \in [Upto(n) -> Byte]
  PROVE  Times(EliminateRows(B, i, f), A, n) = EliminateRows(Times(B, A, n), i, f)
  <1> DEFINE S == EliminateRows(B, i, f)
             T == Times(B, A, n)
  <1>1. T \in Mat(n)
    BY TimesMat
  <1>2. ASSUME NEW r \in Upto(n), NEW c \in Upto(n)
        PROVE  Times(S, A, n)[r][c] = EliminateRows(T, i, f)[r][c]
    <2> DEFINE x == Column(A, n, c)
    <2>1. /\ Times(S, A, n)[r][c] = Dot(Upto(n), S[r], x)
          /\ T[r][c] = Dot(Upto(n), B[r], x)
          /\ T[i][c] = Dot(Upto(n), B[i], x)
      BY TimesMat
    <2>2. CASE r = i
      BY <1>1, <2>1, <2>2, EliminateFacts
    <2>3. CASE r # i
      <3>1. \A t \in Upto(n) : S[r][t] = XOR(B[r][t], mul(f[r], B[i][t]))
        BY <2>3, EliminateFacts
      <3>2. \A t \in Upto(n) : B[r][t] \in Byte /\ B[i][t] \in Byte /\ x[t] \in Byte
        BY ColumnByte, MatByte
      <3> HIDE DEF x, S, T
      <3>3. Dot(Upto(n), S[r], x)
              = XOR(Dot(Upto(n), B[r], x), mul(f[r], Dot(Upto(n), B[i], x)))
        BY <3>1, <3>2, UptoFinite, DotCombined
      <3>4. EliminateRows(T, i, f)[r][c] = XOR(T[r][c], mul(f[r], T[i][c]))
        BY <1>1, <2>3, EliminateFacts
      <3>5. QED
        BY <2>1, <3>3, <3>4
    <2>4. QED
      BY <2>2, <2>3
  <1>3. EliminateRows(T, i, f) \in Mat(n)
    BY <1>1, EliminateFacts
  <1> HIDE DEF S, T
  <1>4. QED
    BY <1>2, <1>3, TimesMat, MatEqual DEF S, T
-----------------------------------------------------------------------------
(* The inversion of A: out times A is a, whose first i columns are done.   *)

Halfway(a, out, A, n, i) ==
  /\ a \in Mat(n) /\ out \in Mat(n)
  /\ Times(out, A, n) = a
  /\ Reduced(a, n, i)

LEMMA HalfwayStart ==
  ASSUME NEW n \in Nat, NEW A \in Mat(n)
  PROVE  Halfway(A, Identity(n).at, A, n, 0)
  BY IdentityMat, IdentityTimes DEF Halfway, Reduced, Upto

LEMMA PivotRowFound ==
  ASSUME NEW n \in Nat, NEW a \in Mat(n), NEW i \in Upto(n), PivotRows(a, i) # {}
  PROVE  /\ Min(PivotRows(a, i)) \in Upto(n)
         /\ Min(PivotRows(a, i)) > i
         /\ a[Min(PivotRows(a, i))][i] # {}
  <1> DEFINE S == PivotRows(a, i)
  <1>1. S = {j \in Upto(n) : j > i /\ a[j][i] # {}}
    BY DEF PivotRows, Mat
  <1>2. S \in SUBSET Upto(n) /\ S \in SUBSET Int
    BY <1>1 DEF Upto
  <1>3. IsFiniteSet(S)
    BY <1>2, UptoFinite, FS_Subset
  <1> HIDE DEF S
  <1>4. Min(S) \in S
    BY <1>2, <1>3, MinIn DEF S
  <1>5. QED
    BY <1>1, <1>4 DEF S

LEMMA HalfwaySwap ==
  ASSUME NEW n \in Nat, NEW A \in Mat(n), NEW a, NEW out,
         NEW i \in Upto(n), NEW j \in Upto(n), j > i,
         Halfway(a, out, A, n, i)
  PROVE  /\ Halfway(SwapRows(a, i, j), SwapRows(out, i, j), A, n, i)
         /\ SwapRows(a, i, j)[i][i] = a[j][i]
  <1>1. a \in Mat(n) /\ out \in Mat(n) /\ Times(out, A, n) = a
    BY DEF Halfway
  <1>2. SwapRows(a, i, j) \in Mat(n) /\ SwapRows(out, i, j) \in Mat(n)
    BY <1>1, SwapFacts
  <1>3. Times(SwapRows(out, i, j), A, n) = SwapRows(a, i, j)
    BY <1>1, SwapTimes
  <1>4. ASSUME NEW r \in Upto(n), NEW c \in Upto(i)
        PROVE  SwapRows(a, i, j)[r][c] = Delta(r, c)
    <2>1. c \in Upto(n) /\ c # i /\ c # j
      BY DEF Upto
    <2>2. \A s \in Upto(n) : a[s][c] = Delta(s, c)
      BY DEF Halfway, Reduced
    <2>3. a[i][c] = {} /\ a[j][c] = {}
      BY <2>1, <2>2 DEF Delta
    <2>4. /\ SwapRows(a, i, j)[i] = a[j]
          /\ SwapRows(a, i, j)[j] = a[i]
          /\ r \notin {i, j} => SwapRows(a, i, j)[r] = a[r]
      BY <1>1, SwapFacts
    <2>5. Delta(i, c) = {} /\ Delta(j, c) = {}
      BY <2>1 DEF Delta
    <2>6. CASE r \notin {i, j}
      BY <2>2, <2>4, <2>6
    <2>7. CASE r = i
      BY <2>3, <2>4, <2>5, <2>7
    <2>8. CASE r = j
      BY <2>3, <2>4, <2>5, <2>8
    <2>9. QED
      BY <2>6, <2>7, <2>8
  <1>5. SwapRows(a, i, j)[i][i] = a[j][i]
    BY <1>1, SwapFacts
  <1>6. Reduced(SwapRows(a, i, j), n, i)
    BY <1>4 DEF Reduced
  <1>7. QED
    BY <1>2, <1>3, <1>5, <1>6 DEF Halfway

LEMMA HalfwayScale ==
  ASSUME NEW n \in Nat, NEW A \in Mat(n), NEW a, NEW out, NEW i \in Upto(n),
         Halfway(a, out, A, n, i), a[i][i] # {},
         NEW s, s = inv(a[i][i])
  PROVE  /\ Halfway(ScaleRow(a, i, s), ScaleRow(out, i, s), A, n, i)
         /\ ScaleRow(a, i, s)[i][i] = {0}
  <1>1. a \in Mat(n) /\ out \in Mat(n) /\ Times(out, A, n) = a
    BY DEF Halfway
  <1>2. s \in Byte /\ mul(a[i][i], s) = {0}
    BY <1>1, MatByte, MulInverse
  <1>3. ScaleRow(a, i, s) \in Mat(n) /\ ScaleRow(out, i, s) \in Mat(n)
    BY <1>1, <1>2, ScaleFacts
  <1>4. Times(ScaleRow(out, i, s), A, n) = ScaleRow(a, i, s)
    BY <1>1, <1>2, ScaleTimes
  <1>5. ScaleRow(a, i, s)[i][i] = {0}
    BY <1>1, <1>2, ScaleFacts
  <1>6. ASSUME NEW r \in Upto(n), NEW c \in Upto(i)
        PROVE  ScaleRow(a, i, s)[r][c] = Delta(r, c)
    <2>1. c \in Upto(n) /\ c # i
      BY DEF Upto
    <2>2. a[r][c] = Delta(r, c)
      BY DEF Halfway, Reduced
    <2>3. CASE r = i
      <3>1. ScaleRow(a, i, s)[i][c] = mul(a[i][c], s)
        BY <1>1, <1>2, <2>1, ScaleFacts
      <3>2. QED
        BY <2>1, <2>2, <2>3, <3>1, MulZero DEF Delta
    <2>4. CASE r # i
      BY <1>1, <1>2, <2>2, <2>4, ScaleFacts
    <2>5. QED
      BY <2>3, <2>4
  <1>7. QED
    BY <1>3, <1>4, <1>5, <1>6 DEF Halfway, Reduced

LEMMA HalfwayEliminate ==
  ASSUME NEW n \in Nat, NEW A \in Mat(n), NEW a, NEW out, NEW i \in Upto(n),
         Halfway(a, out, A, n, i), a[i][i] = {0},
         NEW f, f = ColumnOf(a, i)
  PROVE  Halfway(EliminateRows(a, i, f), EliminateRows(out, i, f), A, n, i + 1)
  <1>1. a \in Mat(n) /\ out \in Mat(n) /\ Times(out, A, n) = a
    BY DEF Halfway
  <1>2. f \in [Upto(n) -> Byte] /\ \A r \in Upto(n) : f[r] = a[r][i]
    BY <1>1 DEF ColumnOf, Mat
  <1>3. EliminateRows(a, i, f) \in Mat(n) /\ EliminateRows(out, i, f) \in Mat(n)
    BY <1>1, <1>2, EliminateFacts
  <1>4. Times(EliminateRows(out, i, f), A, n) = EliminateRows(a, i, f)
    BY <1>1, <1>2, EliminateTimes
  <1>5. ASSUME NEW r \in Upto(n), NEW c \in Upto(i + 1)
        PROVE  EliminateRows(a, i, f)[r][c] = Delta(r, c)
    <2>1. c \in Upto(n) /\ (c = i \/ (c \in Upto(i) /\ c # i))
      <3>1. i \in Nat /\ i < n /\ c \in Nat /\ c < i + 1
        BY DEF Upto
      <3>2. QED
        BY <3>1 DEF Upto
    <2>2. CASE r = i
      <3>1. EliminateRows(a, i, f)[i] = a[i]
        BY <1>1, <1>2, EliminateFacts
      <3>2. CASE c = i
        BY <2>2, <3>1, <3>2 DEF Delta
      <3>3. CASE c \in Upto(i)
        BY <2>2, <3>1, <3>3 DEF Halfway, Reduced
      <3>4. QED
        BY <2>1, <3>2, <3>3
    <2>3. CASE r # i
      <3>1. EliminateRows(a, i, f)[r][c] = XOR(a[r][c], mul(f[r], a[i][c]))
        BY <1>1, <1>2, <2>1, <2>3, EliminateFacts
      <3>2. CASE c = i
        <4>1. mul(f[r], a[i][c]) = a[r][c]
          BY <1>1, <1>2, <3>2, MatByte, MulOne
        <4>2. QED
          BY <2>3, <3>1, <3>2, <4>1, XorZero DEF Delta
      <3>3. CASE c \in Upto(i) /\ c # i
        <4>1. a[r][c] = Delta(r, c) /\ a[i][c] = {}
          BY <3>3 DEF Halfway, Reduced, Delta
        <4>2. mul(f[r], a[i][c]) = {}
          BY <4>1, MulZero
        <4>3. QED
          BY <3>1, <4>1, <4>2, XorZero
      <3>4. QED
        BY <2>1, <3>2, <3>3
    <2>4. QED
      BY <2>2, <2>3
  <1>6. QED
    BY <1>3, <1>4, <1>5 DEF Halfway, Reduced

LEMMA HalfwayEnd ==
  ASSUME NEW n \in Nat, NEW A \in Mat(n), NEW a, NEW out, Halfway(a, out, A, n, n)
  PROVE  out \in Mat(n) /\ Times(out, A, n) = Identity(n).at
  BY IdentityMat, MatEqual DEF Halfway, Reduced
-----------------------------------------------------------------------------
(* The function invert.                                                    *)

States(n) == [a : Mat(n), out : Mat(n), singular : BOOLEAN]

LEMMA PivotReduced ==
  ASSUME NEW n \in Nat, NEW A \in Mat(n), NEW i \in Upto(n), NEW s \in States(n)
  PROVE  /\ Pivot(s, i) \in States(n)
         /\ s.singular => Pivot(s, i).singular
         /\ Halfway(s.a, s.out, A, n, i) => Halfway(Pivot(s, i).a, Pivot(s, i).out, A, n, i)
         /\ ~Pivot(s, i).singular => Pivot(s, i).a[i][i] # {}
  <1> DEFINE p == Pivot(s, i)
             j == Min(PivotRows(s.a, i))
  <1>0. s.a \in Mat(n) /\ s.out \in Mat(n) /\ s.singular \in BOOLEAN
    BY DEF States
  <1>1. CASE s.a[i][i] # {}
    BY <1>1 DEF Pivot
  <1>2. CASE s.a[i][i] = {} /\ PivotRows(s.a, i) = {}
    BY <1>2 DEF Pivot, States
  <1>3. CASE s.a[i][i] = {} /\ PivotRows(s.a, i) # {}
    <2>1. j \in Upto(n) /\ j > i /\ s.a[j][i] # {}
      BY <1>0, <1>3, PivotRowFound
    <2>2. p = [s EXCEPT !.a = SwapRows(s.a, i, j), !.out = SwapRows(s.out, i, j)]
      BY <1>3 DEF Pivot
    <2> HIDE DEF j, p
    <2>3. /\ p.a = SwapRows(s.a, i, j)
          /\ p.out = SwapRows(s.out, i, j)
          /\ p.singular = s.singular
      BY <2>2 DEF States
    <2>4. SwapRows(s.a, i, j) \in Mat(n) /\ SwapRows(s.out, i, j) \in Mat(n)
      BY <1>0, <2>1, SwapFacts
    <2>5. p \in States(n)
      BY <2>2, <2>4 DEF States
    <2>6. Halfway(s.a, s.out, A, n, i) => Halfway(p.a, p.out, A, n, i)
      BY <2>1, <2>3, HalfwaySwap
    <2>7. p.a[i][i] # {}
      <3>1. SwapRows(s.a, i, j)[i] = s.a[j]
        BY <1>0, <2>1, SwapFacts
      <3>2. QED
        BY <2>1, <2>3, <3>1
    <2>8. QED
      BY <2>3, <2>5, <2>6, <2>7 DEF p
  <1>4. QED
    BY <1>1, <1>2, <1>3

LEMMA ColumnReduced ==
  ASSUME NEW n \in Nat, NEW A \in Mat(n), NEW i \in Upto(n), NEW s \in States(n)
  PROVE  /\ ReduceColumn(s, i) \in States(n)
         /\ s.singular => ReduceColumn(s, i).singular
         /\ Halfway(s.a, s.out, A, n, i) /\ ~ReduceColumn(s, i).singular
              => Halfway(ReduceColumn(s, i).a, ReduceColumn(s, i).out, A, n, i + 1)
  <1> DEFINE p == Pivot(s, i)
  <1>1. /\ p \in States(n)
        /\ s.singular => p.singular
        /\ Halfway(s.a, s.out, A, n, i) => Halfway(p.a, p.out, A, n, i)
        /\ ~p.singular => p.a[i][i] # {}
    BY PivotReduced
  <1>2. CASE s.singular \/ p.singular
    BY <1>1, <1>2 DEF ReduceColumn
  <1>3. CASE ~s.singular /\ ~p.singular
    <2> DEFINE scale == inv(p.a[i][i])
               q == Scale(p, i)
               f == ColumnOf(q.a, i)
               r == Eliminate(q, i)
    <2>1. r = ReduceColumn(s, i)
      BY <1>3 DEF ReduceColumn
    <2>2. p.a \in Mat(n) /\ p.out \in Mat(n) /\ p.a[i][i] # {} /\ p.singular = FALSE
      BY <1>1, <1>3 DEF States
    <2> HIDE DEF p
    <2>3. /\ q.a = ScaleRow(p.a, i, scale)
          /\ q.out = ScaleRow(p.out, i, scale)
          /\ q.singular = FALSE
          /\ q = [p EXCEPT !.a = ScaleRow(p.a, i, scale), !.out = ScaleRow(p.out, i, scale)]
      BY <1>1, <2>2 DEF Scale, States
    <2>4. scale \in Byte
      BY <2>2, MatByte, MulInverse
    <2> HIDE DEF scale, q
    <2>5. q.a \in Mat(n) /\ q.out \in Mat(n)
      BY <2>2, <2>3, <2>4, ScaleFacts
    <2>6. q \in States(n)
      BY <1>1, <2>3, <2>5 DEF States
    <2>7. /\ r.a = EliminateRows(q.a, i, f)
          /\ r.out = EliminateRows(q.out, i, f)
          /\ r.singular = FALSE
          /\ r = [q EXCEPT !.a = EliminateRows(q.a, i, f), !.out = EliminateRows(q.out, i, f)]
      BY <2>3, <2>6 DEF Eliminate, States
    <2>8. f \in [Upto(n) -> Byte]
      BY <2>5 DEF ColumnOf, Mat
    <2> HIDE DEF f, r
    <2>9. r \in States(n)
      <3>1. EliminateRows(q.a, i, f) \in Mat(n) /\ EliminateRows(q.out, i, f) \in Mat(n)
        BY <2>5, <2>8, EliminateFacts
      <3>2. QED
        BY <2>6, <2>7, <3>1 DEF States
    <2>10. ASSUME Halfway(p.a, p.out, A, n, i)
           PROVE  Halfway(r.a, r.out, A, n, i + 1)
      <3>1. Halfway(q.a, q.out, A, n, i) /\ q.a[i][i] = {0}
        BY <2>2, <2>3, <2>10, HalfwayScale DEF scale
      <3>2. QED
        BY <2>7, <3>1, HalfwayEliminate DEF f
    <2>11. ~s.singular
      BY <1>1, <2>2
    <2>12. QED
      BY <1>1, <2>1, <2>7, <2>9, <2>10, <2>11
  <1>4. QED
    BY <1>2, <1>3

Start(A, n) == [a |-> A, out |-> Identity(n).at, singular |-> FALSE]

(* The states the function goes through.                                   *)
LEMMA InvertRuns ==
  ASSUME NEW n \in Nat, NEW A \in Mat(n)
  PROVE  \E f \in [0..n -> States(n)] :
           /\ f[0] = Start(A, n)
           /\ \A i \in Upto(n) : f[i + 1] = ReduceColumn(f[i], i)
           /\ invert_gauss_jordan(A, n) = f[n]
  <1> DEFINE step == [i \in Upto(n) |-> [s \in States(n) |-> ReduceColumn(s, i)]]
             Is(f) == f = [i \in 0..n |-> IF i = 0
                             THEN [a |-> A, out |-> Identity(n).at, singular |-> FALSE]
                             ELSE ReduceColumn(f[i - 1], i - 1)]
             h == CHOOSE f : Is(f)
  <1>1. invert_gauss_jordan(A, n) = h[n]
    BY DEF invert_gauss_jordan
  <1>2. Start(A, n) \in States(n)
    BY IdentityMat DEF Start, States
  <1>3. Steps(step, n, States(n))
    BY ColumnReduced DEF Steps
  <1>4. \A i \in Upto(n) : \A s \in States(n) : step[i][s] = ReduceColumn(s, i)
    OBVIOUS
  <1>5. \A i \in 0..n : i # 0 => i - 1 \in Upto(n) /\ i - 1 \in 0..n
    BY DEF Upto
  <1>6. \E g : Is(g)
    <2> HIDE DEF step
    <2>1. PICK g \in [0..n -> States(n)] :
            Follows(g, Start(A, n), step, n)
      BY <1>2, <1>3, RecursionExists
    <2>2. ASSUME NEW i \in 0..n
          PROVE  g[i] = IF i = 0 THEN [a |-> A, out |-> Identity(n).at, singular |-> FALSE]
                        ELSE ReduceColumn(g[i - 1], i - 1)
      <3>1. CASE i = 0
        BY <2>1, <3>1 DEF Start, Follows
      <3>2. CASE i # 0
        <4>1. i - 1 \in Upto(n) /\ (i - 1) + 1 = i /\ g[i - 1] \in States(n)
          BY <1>5, <3>2
        <4>2. g[(i - 1) + 1] = step[i - 1][g[i - 1]]
          BY <2>1, <4>1 DEF Follows
        <4>3. QED
          BY <1>4, <3>2, <4>1, <4>2
      <3>3. QED
        BY <3>1, <3>2
    <2>3. Is(g)
      BY <2>1, <2>2
    <2>4. QED
      BY <2>3
  <1> HIDE DEF Is
  <1>7. Is(h)
    BY <1>6
  <1> HIDE DEF h
  <1>8. h[0] = Start(A, n)
    BY <1>7 DEF Is, Start
  <1>9. \A i \in Upto(n) : h[i + 1] = ReduceColumn(h[i], i)
    <2>1. \A i \in Upto(n) : i + 1 \in 0..n /\ i + 1 # 0 /\ (i + 1) - 1 = i
      BY DEF Upto
    <2>2. QED
      BY <1>7, <2>1 DEF Is
  <1>10. \A i \in 0..n : h[i] \in States(n)
    <2> DEFINE G == {i \in 0..n : h[i] \in States(n)}
    <2>1. 0 \in G
      BY <1>2, <1>8
    <2>2. ASSUME NEW i \in Upto(n), i \in G
          PROVE  i + 1 \in G
      <3>1. i + 1 \in 0..n
        BY DEF Upto
      <3>2. ReduceColumn(h[i], i) \in States(n)
        BY <2>2, ColumnReduced
      <3>3. QED
        BY <1>9, <3>1, <3>2
    <2> HIDE DEF G
    <2>3. \A i \in 0..n : i \in G
      BY <2>1, <2>2, UpInduction
    <2>4. QED
      BY <2>3 DEF G
  <1>11. h \in [0..n -> States(n)]
    BY <1>7, <1>10 DEF Is
  <1>12. QED
    BY <1>1, <1>8, <1>9, <1>11

(* What invert returns, when it does, inverts its argument from the left.  *)
(* A run that did not stop has reduced the work to the identity, and has   *)
(* in out the matrix that does it.                                         *)
LEMMA RunReduces ==
  ASSUME NEW n \in Nat, NEW A \in Mat(n), ~invert_gauss_jordan(A, n).singular
  PROVE  Halfway(invert_gauss_jordan(A, n).a, invert_gauss_jordan(A, n).out, A, n, n)
  <1> DEFINE s == invert_gauss_jordan(A, n)
  <1>1. PICK f \in [0..n -> States(n)] :
          /\ f[0] = Start(A, n)
          /\ \A i \in Upto(n) : f[i + 1] = ReduceColumn(f[i], i)
          /\ s = f[n]
    BY InvertRuns
  <1> DEFINE G == {i \in 0..n : f[i].singular \/ Halfway(f[i].a, f[i].out, A, n, i)}
  <1>2. 0 \in G
    BY <1>1, HalfwayStart DEF Start
  <1>3. ASSUME NEW i \in Upto(n), i \in G
        PROVE  i + 1 \in G
    <2>1. i + 1 \in 0..n /\ i \in 0..n /\ f[i] \in States(n)
      BY DEF Upto
    <2>2. f[i + 1] = ReduceColumn(f[i], i)
      BY <1>1
    <2>3. f[i].singular => f[i + 1].singular
      BY <2>1, <2>2, ColumnReduced
    <2>4. ~f[i + 1].singular => Halfway(f[i + 1].a, f[i + 1].out, A, n, i + 1)
      BY <1>3, <2>1, <2>2, <2>3, ColumnReduced
    <2>5. QED
      BY <2>1, <2>4
  <1> HIDE DEF G, s
  <1>4. n \in G
    BY <1>2, <1>3, UpInduction
  <1>5. ~s.singular
    BY DEF s
  <1>6. Halfway(s.a, s.out, A, n, n)
    BY <1>1, <1>4, <1>5 DEF G
  <1>7. QED
    BY <1>6 DEF s

LEMMA InvertInverts ==
  ASSUME NEW n \in Nat, NEW A, A.rows = n, A.cols = n, A.at \in Mat(n), IsOk(invert(A))
  PROVE  /\ invert(A).ok.rows = n /\ invert(A).ok.cols = n
         /\ invert(A).ok.at \in Mat(n)
         /\ Times(invert(A).ok.at, A.at, n) = Identity(n).at
  <1> DEFINE s == invert_gauss_jordan(A.at, n)
  <1>1. ~s.singular /\ invert(A) = Ok([rows |-> n, cols |-> n, at |-> s.out])
    BY DEF invert, Ok, Err, IsOk
  <1>2. Halfway(s.a, s.out, A.at, n, n)
    BY <1>1, RunReduces
  <1> HIDE DEF s
  <1>3. s.out \in Mat(n) /\ Times(s.out, A.at, n) = Identity(n).at
    BY <1>2, HalfwayEnd
  <1>4. QED
    BY <1>1, <1>3 DEF Ok
-----------------------------------------------------------------------------
(* When an inversion succeeds.                                             *)

(* What a matrix sends to zero; and a matrix that sends to zero only what  *)
(* another does.  Row operations can be undone, so they keep to that.      *)
Kills(m, n, v) == \A r \in Upto(n) : Dot(Upto(n), m[r], v) = {}

Faithful(m, A, n) ==
  \A v \in [Upto(n) -> Byte] : Kills(m, n, v) => Kills(A, n, v)

LEMMA MulZeroFactor ==
  ASSUME NEW a \in Byte, NEW x \in Byte, mul(a, x) = {}, a # {}
  PROVE  x = {}
  <1>1. inv(a) \in Byte /\ mul(a, inv(a)) = {0}
    BY MulInverse
  <1>2. mul(inv(a), mul(a, x)) = mul(mul(inv(a), a), x)
    BY <1>1, MulAssociates
  <1>3. mul(inv(a), a) = {0}
    BY <1>1, MulByte
  <1>4. mul({0}, x) = {}
    BY <1>2, <1>3, MulZero
  <1>5. QED
    BY <1>4, MulOne

LEMMA FaithfulSwap ==
  ASSUME NEW n \in Nat, NEW m \in Mat(n), NEW A, Faithful(m, A, n),
         NEW i \in Upto(n), NEW j \in Upto(n)
  PROVE  Faithful(SwapRows(m, i, j), A, n)
  <1> SUFFICES ASSUME NEW v \in [Upto(n) -> Byte], Kills(SwapRows(m, i, j), n, v)
      PROVE  Kills(A, n, v)
    BY DEF Faithful
  <1>1. ASSUME NEW r \in Upto(n)
        PROVE  \E s \in Upto(n) : m[r] = SwapRows(m, i, j)[s]
    <2>1. /\ SwapRows(m, i, j)[i] = m[j] /\ SwapRows(m, i, j)[j] = m[i]
          /\ r \notin {i, j} => SwapRows(m, i, j)[r] = m[r]
      BY SwapFacts
    <2>2. QED
      BY <2>1
  <1>2. Kills(m, n, v)
    BY <1>1 DEF Kills
  <1>3. QED
    BY <1>2 DEF Faithful

LEMMA FaithfulScale ==
  ASSUME NEW n \in Nat, NEW m \in Mat(n), NEW A, Faithful(m, A, n),
         NEW i \in Upto(n), NEW s \in Byte, s # {}
  PROVE  Faithful(ScaleRow(m, i, s), A, n)
  <1> DEFINE S == ScaleRow(m, i, s)
  <1> SUFFICES ASSUME NEW v \in [Upto(n) -> Byte], Kills(S, n, v)
      PROVE  Kills(A, n, v)
    BY DEF Faithful
  <1>1. ASSUME NEW r \in Upto(n)
        PROVE  Dot(Upto(n), m[r], v) = {}
    <2>1. Dot(Upto(n), S[r], v) = {}
      BY DEF Kills
    <2>2. CASE r # i
      BY <2>1, <2>2, ScaleFacts
    <2>3. CASE r = i
      <3>1. \A t \in Upto(n) : m[i][t] \in Byte /\ v[t] \in Byte
                             /\ S[i][t] = mul(m[i][t], s)
        BY MatByte, ScaleFacts
      <3> DEFINE u == m[i]
                 w == S[i]
      <3> HIDE DEF u, w
      <3>2. Dot(Upto(n), w, v) = mul(Dot(Upto(n), u, v), s)
        BY <3>1, UptoFinite, DotScaled DEF u, w
      <3>3. mul(s, Dot(Upto(n), u, v)) = {}
        BY <2>1, <2>3, <3>2, DotByte, MulByte DEF w
      <3>4. QED
        BY <2>3, <3>3, DotByte, MulZeroFactor DEF u
    <2>4. QED
      BY <2>2, <2>3
  <1>2. Kills(m, n, v)
    BY <1>1 DEF Kills
  <1>3. QED
    BY <1>2 DEF Faithful

LEMMA FaithfulEliminate ==
  ASSUME NEW n \in Nat, NEW m \in Mat(n), NEW A, Faithful(m, A, n),
         NEW i \in Upto(n), NEW f \in [Upto(n) -> Byte]
  PROVE  Faithful(EliminateRows(m, i, f), A, n)
  <1> DEFINE S == EliminateRows(m, i, f)
  <1> SUFFICES ASSUME NEW v \in [Upto(n) -> Byte], Kills(S, n, v)
      PROVE  Kills(A, n, v)
    BY DEF Faithful
  <1>1. Dot(Upto(n), m[i], v) = {}
    <2>1. S[i] = m[i]
      BY EliminateFacts
    <2>2. QED
      BY <2>1 DEF Kills
  <1>2. ASSUME NEW r \in Upto(n)
        PROVE  Dot(Upto(n), m[r], v) = {}
    <2>1. Dot(Upto(n), S[r], v) = {}
      BY DEF Kills
    <2>2. CASE r = i
      BY <1>1, <2>2
    <2>3. CASE r # i
      <3> DEFINE u == m[r]
                 x == m[i]
                 w == S[r]
      <3>1. f[r] \in Byte /\ \A t \in Upto(n) :
              /\ u[t] \in Byte /\ x[t] \in Byte /\ v[t] \in Byte
              /\ w[t] = XOR(u[t], mul(f[r], x[t]))
        BY <2>3, MatByte, EliminateFacts
      <3> HIDE DEF u, x, w
      <3>2. Dot(Upto(n), w, v) = XOR(Dot(Upto(n), u, v), mul(f[r], Dot(Upto(n), x, v)))
        BY <3>1, UptoFinite, DotCombined
      <3>3. Dot(Upto(n), u, v) = {}
        BY <1>1, <2>1, <3>2, MulZero, XorZero DEF x, w
      <3>4. QED
        BY <3>3 DEF u
    <2>4. QED
      BY <2>2, <2>3
  <1>3. Kills(m, n, v)
    BY <1>2 DEF Kills
  <1>4. QED
    BY <1>3 DEF Faithful

(* A column without a pivot gives a vector that is sent to zero.           *)
KernelVector(a, n, i) ==
  [c \in Upto(n) |-> IF c < i THEN a[c][i] ELSE Delta(c, i)]

LEMMA PivotlessKills ==
  ASSUME NEW n \in Nat, NEW a \in Mat(n), NEW i \in Upto(n), Reduced(a, n, i),
         a[i][i] = {}, PivotRows(a, i) = {}
  PROVE  /\ KernelVector(a, n, i) \in [Upto(n) -> Byte]
         /\ KernelVector(a, n, i)[i] = {0}
         /\ Kills(a, n, KernelVector(a, n, i))
  <1> DEFINE v == KernelVector(a, n, i)
  <1>1. v \in [Upto(n) -> Byte]
    BY MatByte, DeltaByte DEF KernelVector
  <1>2. v[i] = {0}
    <2>1. i \in Nat /\ ~(i < i)
      BY DEF Upto
    <2>2. QED
      BY <2>1 DEF KernelVector, Delta
  <1>3. ASSUME NEW r \in Upto(n)
        PROVE  Dot(Upto(n), a[r], v) = {}
    <2> DEFINE p == [t \in Upto(n) |-> mul(a[r][t], v[t])]
    <2>1. Dot(Upto(n), a[r], v) = XorAll(Upto(n), p)
      BY DEF Dot
    <2>2. p[i] = a[r][i] /\ p[i] \in Byte
      <3>1. a[r][i] \in Byte /\ p[i] = mul(a[r][i], v[i])
        BY MatByte
      <3>2. QED
        BY <1>2, <3>1, MulOne
    <2>3. ASSUME NEW t \in Upto(n), t # i, t # r
          PROVE  p[t] = {}
      <3>1. CASE t < i
        <4>1. t \in Upto(i)
          BY <3>1 DEF Upto
        <4>2. a[r][t] = {}
          BY <2>3, <4>1 DEF Reduced, Delta
        <4>3. QED
          BY <4>2, MulZero
      <3>2. CASE ~(t < i)
        <4>1. v[t] = {}
          BY <2>3, <3>2 DEF KernelVector, Delta
        <4>2. QED
          BY <4>1, MulZero
      <3>3. QED
        BY <3>1, <3>2
    <2>4. CASE r < i
      <3>1. r \in Upto(i)
        BY <2>4 DEF Upto
      <3>2. p[r] = a[r][i]
        <4>1. a[r][r] = {0} /\ v[r] = a[r][i]
          BY <2>4, <3>1 DEF Reduced, Delta, KernelVector
        <4>2. QED
          BY <4>1, MatByte, MulOne
      <3>3. XorAll(Upto(n), p) = XOR(a[r][i], a[r][i])
        <4> DEFINE q == [t \in Upto(n) |-> IF t = i THEN a[r][i] ELSE {}]
        <4>1. a[r][i] \in Byte /\ {} \in Byte
          BY MatByte, ByteFacts
        <4>3. \A t \in Upto(n) \ {r} : p[t] = q[t]
          BY <2>2, <2>3
        <4>4. r # i
          BY <2>4 DEF Upto
        <4>5. q[r] = {} /\ q[i] = a[r][i] /\ \A t \in Upto(n) \ {i} : q[t] = {}
          BY <4>4
        <4>6. p[r] = XOR(q[r], a[r][i])
          BY <3>2, <4>5, XorZero
        <4> HIDE DEF p, q
        <4>2. XorAll(Upto(n), q) = q[i]
          BY <4>1, <4>5, UptoFinite, XorAllOne
        <4>7. XorAll(Upto(n), p) = XOR(XorAll(Upto(n), q), a[r][i])
          BY <4>1, <4>3, <4>5, <4>6, UptoFinite, XorAllUpdate
        <4>8. QED
          BY <4>2, <4>5, <4>7
      <3>4. QED
        BY <2>1, <3>3, XorZero
    <2>5. CASE ~(r < i)
      <3>1. a[r][i] = {}
        <4>1. CASE r = i
          BY <4>1
        <4>2. CASE r # i
          <5>1. r > i /\ r \in DOMAIN a
            BY <2>5, <4>2 DEF Upto, Mat
          <5>2. QED
            BY <5>1 DEF PivotRows
        <4>3. QED
          BY <4>1, <4>2
      <3>2. ASSUME r # i PROVE v[r] = {}
        BY <2>5, <3>2 DEF KernelVector, Delta
      <3>3. \A t \in Upto(n) : p[t] = {}
        BY <2>2, <2>3, <3>1, <3>2, MulZero
      <3> HIDE DEF p
      <3>4. QED
        BY <2>1, <3>3, XorAllZero
    <2>6. QED
      BY <2>4, <2>5
  <1> HIDE DEF v
  <1>4. QED
    BY <1>1, <1>2, <1>3 DEF v, Kills


(* No vector but zero is sent to zero.                                     *)
Cancels(m, n) ==
  \A v \in [Upto(n) -> Byte] : Kills(m, n, v) => \A c \in Upto(n) : v[c] = {}

LEMMA PivotFaithful ==
  ASSUME NEW n \in Nat, NEW A \in Mat(n), NEW i \in Upto(n), NEW s \in States(n),
         Reduced(s.a, n, i), Faithful(s.a, A, n), ~s.singular, Cancels(A, n)
  PROVE  ~Pivot(s, i).singular /\ Faithful(Pivot(s, i).a, A, n)
  <1>1. s.a \in Mat(n) /\ s.out \in Mat(n)
    BY DEF States
  <1>2. CASE s.a[i][i] # {}
    BY <1>2 DEF Pivot
  <1>3. CASE s.a[i][i] = {} /\ PivotRows(s.a, i) = {}
    <2> DEFINE v == KernelVector(s.a, n, i)
    <2>1. v \in [Upto(n) -> Byte] /\ v[i] = {0} /\ Kills(s.a, n, v)
      BY <1>1, <1>3, PivotlessKills
    <2> HIDE DEF v
    <2>2. v[i] = {}
      BY <2>1 DEF Faithful, Cancels
    <2>3. QED
      BY <2>1, <2>2
  <1>4. CASE s.a[i][i] = {} /\ PivotRows(s.a, i) # {}
    <2> DEFINE j == Min(PivotRows(s.a, i))
    <2>1. j \in Upto(n)
      BY <1>1, <1>4, PivotRowFound
    <2>2. Pivot(s, i) = [s EXCEPT !.a = SwapRows(s.a, i, j), !.out = SwapRows(s.out, i, j)]
      BY <1>4 DEF Pivot
    <2> HIDE DEF j
    <2>3. Pivot(s, i).a = SwapRows(s.a, i, j) /\ Pivot(s, i).singular = s.singular
      BY <2>2 DEF States
    <2>4. QED
      BY <1>1, <2>1, <2>3, FaithfulSwap
  <1>5. QED
    BY <1>2, <1>3, <1>4

LEMMA ColumnFaithful ==
  ASSUME NEW n \in Nat, NEW A \in Mat(n), NEW i \in Upto(n), NEW s \in States(n),
         Reduced(s.a, n, i), Faithful(s.a, A, n), ~s.singular, Cancels(A, n)
  PROVE  ~ReduceColumn(s, i).singular /\ Faithful(ReduceColumn(s, i).a, A, n)
  <1> DEFINE p == Pivot(s, i)
             scale == inv(p.a[i][i])
             q == Scale(p, i)
             f == ColumnOf(q.a, i)
             r == Eliminate(q, i)
  <1>1. p \in States(n) /\ ~p.singular /\ p.a[i][i] # {} /\ Faithful(p.a, A, n)
    BY PivotFaithful, PivotReduced
  <1>2. r = ReduceColumn(s, i)
    BY <1>1 DEF ReduceColumn
  <1> HIDE DEF p
  <1>3. p.a \in Mat(n) /\ scale \in Byte /\ scale # {}
    <2>1. p.a \in Mat(n) /\ p.a[i][i] \in Byte
      BY <1>1, MatByte DEF States
    <2>2. scale \in Byte /\ mul(p.a[i][i], scale) = {0}
      BY <1>1, <2>1, MulInverse
    <2> HIDE DEF scale
    <2>3. QED
      BY <2>1, <2>2, MulZero
  <1>4. q.a = ScaleRow(p.a, i, scale) /\ q.singular = p.singular
    BY <1>1 DEF Scale, States
  <1> HIDE DEF scale
  <1>5. q.a \in Mat(n) /\ Faithful(q.a, A, n)
    BY <1>1, <1>3, <1>4, ScaleFacts, FaithfulScale
  <1>6. r.a = EliminateRows(q.a, i, f) /\ r.singular = q.singular
    <2>1. q = [p EXCEPT !.a = q.a, !.out = q.out]
      BY <1>1 DEF Scale, States
    <2>2. QED
      BY <1>1, <2>1 DEF Eliminate, States
  <1> HIDE DEF q
  <1>7. f \in [Upto(n) -> Byte]
    BY <1>5 DEF ColumnOf, Mat
  <1> HIDE DEF f, r
  <1>8. QED
    BY <1>1, <1>2, <1>4, <1>5, <1>6, <1>7, FaithfulEliminate

(* A matrix that sends nothing but zero to zero is inverted.               *)
LEMMA CancelsInverts ==
  ASSUME NEW n \in Nat, NEW A, A.rows = n, A.cols = n, A.at \in Mat(n), Cancels(A.at, n)
  PROVE  IsOk(invert(A))
  <1> DEFINE s == invert_gauss_jordan(A.at, n)
  <1>1. PICK f \in [0..n -> States(n)] :
          /\ f[0] = Start(A.at, n)
          /\ \A i \in Upto(n) : f[i + 1] = ReduceColumn(f[i], i)
          /\ s = f[n]
    BY InvertRuns
  <1> DEFINE G == {i \in 0..n : /\ ~f[i].singular
                                /\ Faithful(f[i].a, A.at, n)
                                /\ Halfway(f[i].a, f[i].out, A.at, n, i)}
  <1>2. 0 \in G
    BY <1>1, HalfwayStart DEF Start, Faithful
  <1>3. ASSUME NEW i \in Upto(n), i \in G
        PROVE  i + 1 \in G
    <2>1. i + 1 \in 0..n /\ i \in 0..n /\ f[i] \in States(n)
      BY DEF Upto
    <2>2. f[i + 1] = ReduceColumn(f[i], i)
      BY <1>1
    <2>3. ~f[i + 1].singular /\ Faithful(f[i + 1].a, A.at, n)
      BY <1>3, <2>1, <2>2, ColumnFaithful DEF Halfway
    <2>4. Halfway(f[i + 1].a, f[i + 1].out, A.at, n, i + 1)
      BY <1>3, <2>1, <2>2, <2>3, ColumnReduced
    <2>5. QED
      BY <2>1, <2>3, <2>4
  <1> HIDE DEF G, s
  <1>4. n \in G
    BY <1>2, <1>3, UpInduction
  <1>5. ~s.singular
    BY <1>1, <1>4 DEF G
  <1>6. QED
    BY <1>5 DEF invert, IsOk, Ok, s
-----------------------------------------------------------------------------
(* Cauchy matrices.                                                        *)

LEMMA XorDiffers ==
  ASSUME NEW a, NEW b, a # b
  PROVE  XOR(a, b) # {}
  BY DEF XOR, SymDiff

LEMMA XorThrough ==
  ASSUME NEW a, NEW b, NEW c
  PROVE  XOR(XOR(a, b), XOR(b, c)) = XOR(a, c)
  BY DEF XOR, SymDiff

LEMMA InverseNonzero ==
  ASSUME NEW a \in Byte, a # {}
  PROVE  inv(a) \in Byte /\ inv(a) # {}
  <1>1. inv(a) \in Byte /\ mul(a, inv(a)) = {0}
    BY MulInverse
  <1>2. QED
    BY <1>1, MulZero

(* (a + h) / a + (b + h) / b = (a + b) h / (a b).                          *)
LEMMA CauchyIdentity ==
  ASSUME NEW a \in Byte, NEW b \in Byte, NEW h \in Byte, a # {}, b # {}
  PROVE  XOR(mul(XOR(a, h), inv(a)), mul(XOR(b, h), inv(b)))
           = mul(XOR(a, b), mul(mul(inv(a), inv(b)), h))
  <1> DEFINE p == inv(a)
             q == inv(b)
             pq == mul(p, q)
             ab == XOR(a, b)
  <1>1. p \in Byte /\ q \in Byte /\ mul(a, p) = {0} /\ mul(b, q) = {0}
    BY MulInverse
  <1>12. p \in Byte /\ q \in Byte
    BY <1>1
  <1> HIDE DEF p, q
  <1>2. mul(XOR(a, h), p) = XOR({0}, mul(h, p))
    <2>1. mul(XOR(a, h), p) = XOR(mul(a, p), mul(h, p))
      BY <1>12, MulDistributes
    <2>2. QED
      BY <1>1, <2>1
  <1>11. mul(XOR(b, h), q) = XOR({0}, mul(h, q))
    <2>1. mul(XOR(b, h), q) = XOR(mul(b, q), mul(h, q))
      BY <1>12, MulDistributes
    <2>2. QED
      BY <1>1, <2>1
  <1>3. XOR(mul(XOR(a, h), p), mul(XOR(b, h), q)) = XOR(mul(h, p), mul(h, q))
    <2>1. XOR(XOR({0}, mul(h, p)), XOR({0}, mul(h, q)))
            = XOR(XOR({0}, {0}), XOR(mul(h, p), mul(h, q)))
      BY XorExchange
    <2>2. QED
      BY <1>2, <1>11, <2>1, XorZero
  <1>4. XOR(mul(h, p), mul(h, q)) = mul(h, XOR(p, q))
    BY <1>12, MulDistributes
  <1>5. pq \in Byte /\ ab \in Byte
    BY <1>1, MulByte, XorByte
  <1>6. mul(a, pq) = q
    <2>1. mul(a, mul(p, q)) = mul(mul(a, p), q)
      BY <1>12, MulAssociates
    <2>2. mul({0}, q) = q
      BY <1>12, MulOne
    <2>3. QED
      BY <1>1, <2>1, <2>2
  <1>7. mul(b, pq) = p
    <2>1. mul(b, mul(q, p)) = mul(mul(b, q), p)
      BY <1>12, MulAssociates
    <2>2. mul(q, p) = pq
      BY <1>12, MulByte
    <2>3. mul({0}, p) = p
      BY <1>12, MulOne
    <2>4. QED
      BY <1>1, <2>1, <2>2, <2>3
  <1> HIDE DEF pq
  <1>8. mul(ab, pq) = XOR(p, q)
    <2>1. mul(ab, pq) = XOR(mul(a, pq), mul(b, pq))
      BY <1>5, MulDistributes
    <2>2. QED
      BY <1>6, <1>7, <2>1, XorCommutes
  <1> HIDE DEF ab
  <1>9. mul(h, XOR(p, q)) = mul(ab, mul(pq, h))
    <2>1. mul(h, mul(ab, pq)) = mul(mul(ab, pq), h)
      BY <1>5, MulByte
    <2>2. mul(mul(ab, pq), h) = mul(ab, mul(pq, h))
      BY <1>5, MulAssociates
    <2>3. QED
      BY <1>8, <2>1, <2>2
  <1>10. QED
    BY <1>3, <1>4, <1>9 DEF p, q, pq, ab

(* The same, times v.                                                      *)
LEMMA CauchyTerm ==
  ASSUME NEW a \in Byte, NEW b \in Byte, NEW h \in Byte, NEW v \in Byte, a # {}, b # {}
  PROVE  XOR(mul(XOR(a, h), mul(inv(a), v)), mul(XOR(b, h), mul(inv(b), v)))
           = mul(XOR(a, b), mul(inv(b), mul(inv(a), mul(v, h))))
  <1> DEFINE p == inv(a)
             q == inv(b)
             ah == XOR(a, h)
             bh == XOR(b, h)
             ab == XOR(a, b)
  <1>1. p \in Byte /\ q \in Byte /\ ah \in Byte /\ bh \in Byte /\ ab \in Byte
    BY MulInverse, XorByte
  <1>2. XOR(mul(ah, p), mul(bh, q)) = mul(ab, mul(mul(p, q), h))
    BY CauchyIdentity
  <1> HIDE DEF p, q, ah, bh, ab
  <1>3. mul(ah, p) \in Byte /\ mul(bh, q) \in Byte /\ mul(p, q) \in Byte
        /\ mul(mul(p, q), h) \in Byte /\ mul(h, v) \in Byte /\ mul(v, h) \in Byte
    BY <1>1, MulByte
  <1>4. mul(ah, mul(p, v)) = mul(mul(ah, p), v) /\ mul(bh, mul(q, v)) = mul(mul(bh, q), v)
    BY <1>1, MulAssociates
  <1>5. XOR(mul(mul(ah, p), v), mul(mul(bh, q), v)) = mul(XOR(mul(ah, p), mul(bh, q)), v)
    BY <1>3, MulDistributes
  <1>6. mul(mul(ab, mul(mul(p, q), h)), v) = mul(ab, mul(mul(mul(p, q), h), v))
    BY <1>1, <1>3, MulAssociates
  <1>7. mul(mul(mul(p, q), h), v) = mul(mul(p, q), mul(v, h))
    <2>1. mul(mul(mul(p, q), h), v) = mul(mul(p, q), mul(h, v))
      BY <1>3, MulAssociates
    <2>2. mul(h, v) = mul(v, h)
      BY MulByte
    <2>3. QED
      BY <2>1, <2>2
  <1>8. mul(mul(p, q), mul(v, h)) = mul(q, mul(p, mul(v, h)))
    <2>1. mul(p, q) = mul(q, p)
      BY <1>1, MulByte
    <2>2. mul(mul(q, p), mul(v, h)) = mul(q, mul(p, mul(v, h)))
      BY <1>1, <1>3, MulAssociates
    <2>3. QED
      BY <2>1, <2>2
  <1>9. QED
    BY <1>2, <1>4, <1>5, <1>6, <1>7, <1>8 DEF p, q, ah, bh, ab

(* Row i of the Cauchy matrix of the field elements x, over columns J; and *)
(* that the rows I have only zero in common.                               *)
CauchyRow(x, i, J) == [j \in J |-> inv(XOR(x[i], x[j]))]

OnlyZero(I, J, x) ==
  \A v \in [J -> Byte] :
    (\A i \in I : Dot(J, CauchyRow(x, i, J), v) = {}) => \A j \in J : v[j] = {}

LEMMA CauchySmaller ==
  ASSUME NEW Z, NEW x \in [Z -> Byte], \A i, j \in Z : i # j => x[i] # x[j],
         NEW J \in SUBSET Z, IsFiniteSet(J), NEW m \in Z \ J, NEW i \in Z \ J, i # m,
         NEW c \in J, NEW v \in [J -> Byte],
         Dot(J, CauchyRow(x, m, J), v) = {}, Dot(J, CauchyRow(x, i, J), v) = {},
         NEW w,
         \A j \in J \ {c} : w[j] = mul(inv(XOR(x[m], x[j])), mul(v[j], XOR(x[j], x[c])))
  PROVE  Dot(J \ {c}, CauchyRow(x, i, J \ {c}), w) = {}
  <1> DEFINE d(s, t) == XOR(x[s], x[t])
             e == [j \in J |-> mul(inv(d(m, j)), v[j])]
             f == [j \in J |-> mul(inv(d(i, j)), v[j])]
             g == [j \in J |-> mul(inv(d(i, j)), mul(inv(d(m, j)), mul(v[j], d(j, c))))]
             de == [j \in J |-> mul(d(m, c), e[j])]
             df == [j \in J |-> mul(d(i, c), f[j])]
             dg == [j \in J |-> mul(d(m, i), g[j])]
  <1>0. \A s, t \in Z : d(s, t) \in Byte /\ (s # t => d(s, t) # {})
    BY XorByte, XorDiffers
  <1>1. ASSUME NEW j \in J
        PROVE  /\ inv(d(m, j)) \in Byte /\ inv(d(i, j)) \in Byte
               /\ d(m, j) \in Byte /\ d(i, j) \in Byte /\ d(j, c) \in Byte
               /\ d(m, j) # {} /\ d(i, j) # {} /\ d(m, c) \in Byte /\ d(i, c) \in Byte
               /\ d(m, i) \in Byte /\ v[j] \in Byte
    <2>1. j \in Z /\ c \in Z /\ m \in Z /\ i \in Z /\ m # j /\ i # j
      OBVIOUS
    <2>2. /\ d(m, j) \in Byte /\ d(i, j) \in Byte /\ d(j, c) \in Byte
          /\ d(m, j) # {} /\ d(i, j) # {} /\ d(m, c) \in Byte /\ d(i, c) \in Byte
          /\ d(m, i) \in Byte /\ v[j] \in Byte
      BY <1>0, <2>1
    <2> HIDE DEF d
    <2>3. QED
      BY <2>2, InverseNonzero
  <1>2. ASSUME NEW j \in J
        PROVE  /\ d(m, c) = XOR(d(m, j), d(j, c)) /\ d(i, c) = XOR(d(i, j), d(j, c))
               /\ d(m, i) = XOR(d(m, j), d(i, j))
    <2>1. d(i, j) = d(j, i)
      BY XorCommutes
    <2>2. QED
      BY <2>1, XorThrough
  <1> HIDE DEF d
  <1>3. ASSUME NEW j \in J
        PROVE  /\ e[j] \in Byte /\ f[j] \in Byte /\ g[j] \in Byte
               /\ de[j] \in Byte /\ df[j] \in Byte /\ dg[j] \in Byte
    <2>1. e[j] \in Byte /\ f[j] \in Byte /\ mul(v[j], d(j, c)) \in Byte
      BY <1>1, MulByte
    <2>2. mul(inv(d(m, j)), mul(v[j], d(j, c))) \in Byte
      BY <1>1, <2>1, MulByte
    <2>3. mul(inv(d(i, j)), mul(inv(d(m, j)), mul(v[j], d(j, c)))) \in Byte
      BY <1>1, <2>2, MulByte
    <2>4. g[j] \in Byte
      BY <2>3
    <2> HIDE DEF e, f, g
    <2>5. QED
      BY <1>1, <2>1, <2>4, MulByte
  <1>4. ASSUME NEW j \in J
        PROVE  dg[j] = XOR(de[j], df[j])
    <2> DEFINE a == d(m, j)
               b == d(i, j)
               h == d(j, c)
               y == v[j]
    <2>1. a \in Byte /\ b \in Byte /\ h \in Byte /\ y \in Byte /\ a # {} /\ b # {}
      BY <1>1
    <2>2. d(m, c) = XOR(a, h) /\ d(i, c) = XOR(b, h) /\ d(m, i) = XOR(a, b)
      BY <1>2
    <2>3. /\ de[j] = mul(d(m, c), mul(inv(a), y)) /\ df[j] = mul(d(i, c), mul(inv(b), y))
          /\ dg[j] = mul(d(m, i), mul(inv(b), mul(inv(a), mul(y, h))))
      OBVIOUS
    <2> HIDE DEF a, b, h, y, e, f, g, de, df, dg
    <2>4. XOR(mul(XOR(a, h), mul(inv(a), y)), mul(XOR(b, h), mul(inv(b), y)))
            = mul(XOR(a, b), mul(inv(b), mul(inv(a), mul(y, h))))
      BY <2>1, CauchyTerm
    <2>5. QED
      BY <2>2, <2>3, <2>4
  <1>5. XorAll(J, e) = {} /\ XorAll(J, f) = {}
    <2> DEFINE em == [j \in J |-> mul(CauchyRow(x, m, J)[j], v[j])]
               fi == [j \in J |-> mul(CauchyRow(x, i, J)[j], v[j])]
    <2>1. \A j \in J : em[j] = e[j] /\ fi[j] = f[j]
      BY DEF CauchyRow, d
    <2>2. XorAll(J, em) = {} /\ XorAll(J, fi) = {}
      BY DEF Dot
    <2> HIDE DEF em, fi, e, f
    <2>3. QED
      BY <2>1, <2>2, XorAllSame
  <1>6. \A j \in J : de[j] = mul(d(m, c), e[j]) /\ df[j] = mul(d(i, c), f[j])
                     /\ dg[j] = mul(d(m, i), g[j])
    <2> HIDE DEF e, f, g
    <2>1. QED
      OBVIOUS
  <1>7. c \in J /\ d(m, c) \in Byte /\ d(i, c) \in Byte /\ d(m, i) \in Byte
    BY <1>1
  <1>8. g[c] = {}
    <2>1. d(c, c) = {}
      BY XorZero DEF d
    <2>2. mul(v[c], d(c, c)) = {}
      BY <1>7, <2>1, MulZero
    <2>3. mul(inv(d(m, c)), mul(v[c], d(c, c))) = {}
      BY <1>1, <1>7, <2>2, MulZero
    <2>4. g[c] = mul(inv(d(i, c)), mul(inv(d(m, c)), mul(v[c], d(c, c))))
      BY <1>7
    <2> HIDE DEF e, f, g, de, df, dg
    <2>5. QED
      BY <1>1, <1>7, <2>3, <2>4, MulZero
  <1>9. d(m, i) # {}
    BY XorDiffers DEF d
  <1>10. \A j \in J \ {c} : g[j] = mul(inv(d(i, j)), w[j])
    BY DEF d
  <1> HIDE DEF e, f, g, de, df, dg
  <1>11. XorAll(J, de) = {} /\ XorAll(J, df) = {}
    <2>1. XorAll(J, de) = mul(d(m, c), XorAll(J, e)) /\ XorAll(J, df) = mul(d(i, c), XorAll(J, f))
      BY <1>3, <1>6, <1>7, XorAllTimes
    <2>2. QED
      BY <1>5, <2>1, MulZero
  <1>12. XorAll(J, dg) = {}
    <2>1. XorAll(J, dg) = XOR(XorAll(J, de), XorAll(J, df))
      BY <1>3, <1>4, XorAllXor
    <2>2. QED
      BY <1>11, <2>1, XorZero
  <1>13. mul(d(m, i), XorAll(J, g)) = {}
    <2>1. XorAll(J, dg) = mul(d(m, i), XorAll(J, g))
      BY <1>3, <1>6, <1>7, XorAllTimes
    <2>2. QED
      BY <1>12, <2>1
  <1>14. XorAll(J, g) = {}
    BY <1>7, <1>9, <1>13, XorAllByte, MulZeroFactor
  <1> DEFINE R == J \ {c}
             h == [j \in R |-> mul(CauchyRow(x, i, R)[j], w[j])]
  <1>15. \A j \in R : h[j] = g[j]
    BY <1>10 DEF CauchyRow, d
  <1>16. IsFiniteSet(R) /\ c \notin R /\ R \cup {c} = J
    BY <1>7, FS_RemoveElement
  <1>17. Dot(R, CauchyRow(x, i, R), w) = XorAll(R, h)
    BY DEF Dot
  <1> HIDE DEF R, h
  <1>18. XorAll(J, g) = XOR(XorAll(R, g), g[c])
    BY <1>3, <1>7, <1>16, XorAllInsert
  <1>19. XorAll(R, h) = XorAll(R, g)
    BY <1>15, XorAllSame
  <1>20. QED
    BY <1>8, <1>14, <1>17, <1>18, <1>19, XorZero DEF R

LEMMA CauchyOnlyZero ==
  ASSUME NEW Z, IsFiniteSet(Z), NEW x \in [Z -> Byte],
         \A i, j \in Z : i # j => x[i] # x[j],
         NEW I \in SUBSET Z, NEW J \in SUBSET (Z \ I), Cardinality(J) = Cardinality(I)
  PROVE  OnlyZero(I, J, x)
  <1> DEFINE Zero(T) == \A L \in SUBSET (Z \ T) :
                          Cardinality(L) = Cardinality(T) => OnlyZero(T, L, x)
             F == {T \in SUBSET I : Zero(T)}
  <1>1. {} \in F
    <2> SUFFICES ASSUME NEW L \in SUBSET Z, Cardinality(L) = Cardinality({})
                 PROVE  OnlyZero({}, L, x)
      OBVIOUS
    <2>1. IsFiniteSet(L)
      BY FS_Subset
    <2>2. L = {}
      BY <2>1, FS_EmptySet
    <2>3. QED
      BY <2>2 DEF OnlyZero
  <1>2. ASSUME NEW T \in SUBSET I, NEW m \in I \ T, T \in F
        PROVE  T \cup {m} \in F
    <2> SUFFICES ASSUME NEW L \in SUBSET (Z \ (T \cup {m})),
                        Cardinality(L) = Cardinality(T \cup {m}),
                        NEW v \in [L -> Byte],
                        \A i \in T \cup {m} : Dot(L, CauchyRow(x, i, L), v) = {}
                 PROVE  \A j \in L : v[j] = {}
      BY DEF OnlyZero
    <2>1. IsFiniteSet(T) /\ IsFiniteSet(L) /\ Cardinality(T) \in Nat
      BY FS_Subset, FS_CardinalityType
    <2>2. Cardinality(L) = Cardinality(T) + 1
      BY <2>1, FS_AddElement
    <2>3. PICK c \in L : TRUE
      BY <2>1, <2>2, FS_EmptySet
    <2> DEFINE R == L \ {c}
               w == [j \in R |-> mul(inv(XOR(x[m], x[j])), mul(v[j], XOR(x[j], x[c])))]
    <2>4. IsFiniteSet(R) /\ Cardinality(R) = Cardinality(T)
      <3>1. IsFiniteSet(R) /\ Cardinality(R) = Cardinality(L) - 1
        BY <2>1, <2>3, FS_RemoveElement
      <3> HIDE DEF R
      <3>2. QED
        BY <2>1, <2>2, <3>1
    <2>5. ASSUME NEW j \in L
          PROVE  /\ XOR(x[m], x[j]) \in Byte /\ XOR(x[m], x[j]) # {}
                 /\ inv(XOR(x[m], x[j])) \in Byte /\ inv(XOR(x[m], x[j])) # {}
      <3>1. x[m] \in Byte /\ x[j] \in Byte /\ x[m] # x[j]
        OBVIOUS
      <3>2. XOR(x[m], x[j]) \in Byte /\ XOR(x[m], x[j]) # {}
        BY <3>1, XorByte, XorDiffers
      <3>3. QED
        BY <3>2, InverseNonzero
    <2>6. ASSUME NEW j \in R
          PROVE  /\ v[j] \in Byte
                 /\ XOR(x[j], x[c]) \in Byte /\ XOR(x[j], x[c]) # {}
                 /\ mul(v[j], XOR(x[j], x[c])) \in Byte /\ w[j] \in Byte
      <3>1. x[c] \in Byte /\ x[j] \in Byte /\ x[c] # x[j] /\ v[j] \in Byte /\ j \in L
        BY <2>3
      <3>2. XOR(x[j], x[c]) \in Byte /\ XOR(x[j], x[c]) # {}
        BY <3>1, XorByte, XorDiffers
      <3>3. mul(v[j], XOR(x[j], x[c])) \in Byte
        BY <3>1, <3>2, MulByte
      <3>4. QED
        BY <2>5, <3>1, <3>2, <3>3, MulByte
    <2>7. w \in [R -> Byte]
      BY <2>6
    <2>8. ASSUME NEW i \in T
          PROVE  Dot(R, CauchyRow(x, i, R), w) = {}
      <3>1. L \in SUBSET Z /\ m \in Z \ L /\ i \in Z \ L /\ i # m
            /\ Dot(L, CauchyRow(x, m, L), v) = {} /\ Dot(L, CauchyRow(x, i, L), v) = {}
        OBVIOUS
      <3>2. \A j \in L \ {c} : w[j] = mul(inv(XOR(x[m], x[j])), mul(v[j], XOR(x[j], x[c])))
        OBVIOUS
      <3> HIDE DEF w
      <3>3. \A s, t \in Z : s # t => x[s] # x[t]
        OBVIOUS
      <3>4. QED
        BY <2>1, <3>1, <3>2, <3>3, CauchySmaller
    <2>9. OnlyZero(T, R, x)
      <3>1. R \in SUBSET (Z \ T)
        OBVIOUS
      <3>2. QED
        BY <1>2, <2>4, <3>1
    <2> HIDE DEF w, R
    <2>10. ASSUME NEW j \in R
           PROVE  v[j] = {}
      <3> DEFINE a == inv(XOR(x[m], x[j]))
                 b == XOR(x[j], x[c])
      <3>1. w[j] = {} /\ w[j] = mul(a, mul(v[j], b)) /\ j \in L
        BY <2>7, <2>8, <2>9 DEF OnlyZero, w, R
      <3>2. a \in Byte /\ a # {} /\ b \in Byte /\ b # {} /\ v[j] \in Byte /\ mul(v[j], b) \in Byte
        BY <2>5, <2>6, <3>1
      <3> HIDE DEF a, b
      <3>3. mul(v[j], b) = {}
        BY <3>1, <3>2, MulZeroFactor
      <3>4. mul(b, v[j]) = {}
        BY <3>2, <3>3, MulByte
      <3>5. QED
        BY <3>2, <3>4, MulZeroFactor
    <2>11. v[c] = {}
      <3> DEFINE p == [j \in L |-> mul(CauchyRow(x, m, L)[j], v[j])]
      <3>1. XorAll(L, p) = {}
        BY DEF Dot
      <3>2. \A j \in L \ {c} : p[j] = {}
        BY <2>10, MulZero DEF R
      <3>3. p[c] = mul(inv(XOR(x[m], x[c])), v[c]) /\ v[c] \in Byte
        BY <2>3 DEF CauchyRow
      <3>4. p[c] \in Byte
        BY <2>3, <2>5, <3>3, MulByte
      <3> HIDE DEF p
      <3>5. XorAll(L, p) = p[c]
        BY <2>1, <2>3, <3>2, <3>4, XorAllOne
      <3>6. mul(inv(XOR(x[m], x[c])), v[c]) = {}
        BY <3>1, <3>3, <3>5
      <3>7. QED
        BY <2>3, <2>5, <3>3, <3>6, MulZeroFactor
    <2>12. QED
      BY <2>10, <2>11 DEF R
  <1> HIDE DEF F
  <1>3. IsFiniteSet(I)
    BY FS_Subset
  <1>4. I \in F
    BY <1>1, <1>2, <1>3, SetInduction
  <1>5. QED
    BY <1>4 DEF F

-----------------------------------------------------------------------------
(* Lists and verdicts.                                                     *)

LEMMA CountOf ==
  ASSUME NEW n \in Nat, NEW list, DOMAIN list = Upto(n)
  PROVE  Count(list) = n
  BY UptoCardinality DEF Count

LEMMA SameUpto ==
  ASSUME NEW m \in Nat, NEW n \in Nat, Upto(m) = Upto(n)
  PROVE  m = n
  BY UptoCardinality

(* A call whose verdict is Fine passed every one of its checks.            *)
LEMMA FinePasses ==
  ASSUME NEW n \in Nat, NEW checks, DOMAIN checks = 1..n,
         \A i \in 1..n : \A e \in checks[i] : e.kind # "Ok",
         Verdict(checks) = Fine
  PROVE  \A i \in 1..n : checks[i] = {}
  <1> DEFINE failed == {i \in DOMAIN checks : checks[i] # {}}
  <1>1. SUFFICES ASSUME failed # {} PROVE FALSE
    OBVIOUS
  <1>2. failed \in SUBSET Int /\ IsFiniteSet(failed)
    <2>1. failed \in SUBSET (1..n) /\ IsFiniteSet(1..n)
      BY FS_Interval
    <2>2. QED
      BY <2>1, FS_Subset
  <1>3. Min(failed) \in failed
    <2> HIDE DEF failed
    <2>1. QED
      BY <1>1, <1>2, MinIn
  <1>4. checks[Min(failed)] # {}
    BY <1>3
  <1>5. PICK e \in checks[Min(failed)] : Fine = e
    BY <1>1, <1>4 DEF Verdict
  <1>6. QED
    BY <1>3, <1>5 DEF Fine

LEMMA ShardLengthPasses ==
  ASSUME NEW list, NEW len, NEW base, ShardLength(list, len, base) = {}
  PROVE  \A x \in DOMAIN list : Count(list[x]) = len
  BY DEF ShardLength, Raise

LEMMA CheckKinds ==
  ASSUME NEW list, NEW len, NEW base
  PROVE  /\ \A e \in ShardLength(list, len, base) : e.kind # "Ok"
         /\ \A e \in ShardCount(list, len) : e.kind # "Ok"
         /\ \A e \in Raise("ShardIndex", len) : e.kind # "Ok"
  BY DEF ShardLength, ShardCount, Raise
-----------------------------------------------------------------------------
(* Tables: row l, source j is at l * k + j.                                *)

LEMMA PositionOf ==
  ASSUME NEW k \in Nat \ {0}, NEW n \in Nat, NEW l \in Upto(n), NEW j \in Upto(k)
  PROVE  /\ l * k + j \in Upto(n * k)
         /\ (l * k + j) \div k = l
         /\ (l * k + j) % k = j
  <1>1. l \in Nat /\ j \in Nat /\ l <= n - 1 /\ j <= k - 1
    BY DEF Upto
  <1>2. l * k \in Nat /\ n * k \in Nat /\ (n - 1) * k = n * k - k
    BY <1>1
  <1>3. l * k <= (n - 1) * k
    BY <1>1, <1>2
  <1>4. l * k + j \in Upto(n * k)
    BY <1>1, <1>2, <1>3 DEF Upto
  <1>5. (l * k + j) \div k = l /\ (l * k + j) % k = j
    BY <1>1, <1>2
  <1>6. QED
    BY <1>4, <1>5
-----------------------------------------------------------------------------
(* Binary numerals.                                                        *)

LEMMA PowerNat ==
  ASSUME NEW n \in Nat, Powers(n)
  PROVE  \A i \in 0..n : 2^i \in Nat \ {0}
  <1> DEFINE G == {i \in 0..n : 2^i \in Nat \ {0}}
  <1>1. 0 \in G
    BY DEF Powers
  <1>2. ASSUME NEW i \in Upto(n), i \in G
        PROVE  i + 1 \in G
    <2>1. 2^(i + 1) = 2 * 2^i /\ i + 1 \in 0..n
      BY DEF Upto, Powers
    <2>2. QED
      BY <1>2, <2>1
  <1> HIDE DEF G
  <1>3. \A i \in 0..n : i \in G
    BY <1>1, <1>2, UpInduction
  <1>4. QED
    BY <1>3 DEF G

(* What bit i adds to a number.                                            *)
Digit(w, i) == IF i \in w THEN 2^i ELSE 0

LEMMA DigitNat ==
  ASSUME NEW n \in Nat, Powers(n), NEW w, NEW i \in Upto(n)
  PROVE  Digit(w, i) \in Nat /\ Digit(w, i) <= 2^i /\ 2^i \in Nat \ {0}
         /\ 2^(i + 1) = 2 * 2^i
  <1>1. 2^i \in Nat \ {0} /\ 2^(i + 1) = 2 * 2^i
    BY PowerNat DEF Upto, Powers
  <1>2. QED
    BY <1>1 DEF Digit

(* The function that Numeral builds.                                       *)
Counts(f, w, n) ==
  f[0] = 0 /\ \A i \in Upto(n) : f[i + 1] = f[i] + Digit(w, i)

LEMMA NumeralCounts ==
  ASSUME NEW n \in Nat, Powers(n), NEW w
  PROVE  \E f \in [0..n -> Nat] : Counts(f, w, n) /\ \A m \in 0..n : Numeral(w, m) = f[m]
  <1> DEFINE step == [i \in Upto(n) |-> [x \in Nat |-> x + Digit(w, i)]]
  <1>1. Steps(step, n, Nat)
    BY DigitNat DEF Steps
  <1>2. PICK f \in [0..n -> Nat] : Follows(f, 0, step, n)
    BY <1>1, RecursionExists
  <1>3. ASSUME NEW i \in Upto(n)
        PROVE  f[i + 1] = f[i] + Digit(w, i)
    <2>1. i \in 0..n
      BY DEF Upto
    <2>2. f[i + 1] = step[i][f[i]] /\ f[i] \in Nat
      BY <1>2, <2>1 DEF Follows
    <2>3. QED
      BY <2>2
  <1>4. Counts(f, w, n)
    BY <1>2, <1>3 DEF Counts, Follows
  <1>5. ASSUME NEW m \in 0..n
        PROVE  Numeral(w, m) = f[m]
    <2> DEFINE Is(g) == g = [i \in 0..m |->
                               IF i = 0 THEN 0
                               ELSE g[i - 1] + (IF i - 1 \in w THEN 2^(i - 1) ELSE 0)]
               h == CHOOSE g : Is(g)
               g0 == [i \in 0..m |-> f[i]]
    <2>1. Numeral(w, m) = h[m]
      BY DEF Numeral
    <2>2. m \in Nat /\ \A i \in 0..m : i \in 0..n
      OBVIOUS
    <2>3. Is(g0)
      <3>1. ASSUME NEW i \in 0..m, i # 0
            PROVE  f[i] = g0[i - 1] + (IF i - 1 \in w THEN 2^(i - 1) ELSE 0)
        <4>1. i - 1 \in Upto(n) /\ (i - 1) + 1 = i /\ i - 1 \in 0..m
          BY <3>1 DEF Upto
        <4>2. g0[i - 1] = f[i - 1]
          BY <4>1
        <4>3. f[i] = f[i - 1] + Digit(w, i - 1)
          BY <1>3, <4>1
        <4>4. QED
          BY <4>2, <4>3 DEF Digit
      <3>2. f[0] = 0
        BY <1>4 DEF Counts
      <3>3. QED
        BY <3>1, <3>2
    <2> HIDE DEF Is
    <2>4. Is(h)
      BY <2>3
    <2> HIDE DEF h
    <2>5. \A i \in 0..m :
            h[i] = IF i = 0 THEN 0
                   ELSE h[i - 1] + (IF i - 1 \in w THEN 2^(i - 1) ELSE 0)
      BY <2>4 DEF Is
    <2> DEFINE G == {i \in 0..m : h[i] = f[i]}
    <2>6. 0 \in G
      BY <1>4, <2>2, <2>5 DEF Counts
    <2>7. ASSUME NEW i \in Upto(m), i \in G
          PROVE  i + 1 \in G
      <3>1. i + 1 \in 0..m /\ i + 1 # 0 /\ (i + 1) - 1 = i /\ i \in Upto(n)
        BY DEF Upto
      <3>2. h[i + 1] = h[i] + (IF i \in w THEN 2^i ELSE 0)
        BY <2>5, <3>1
      <3>3. f[i + 1] = f[i] + Digit(w, i)
        BY <1>3, <3>1
      <3>4. QED
        BY <2>7, <3>1, <3>2, <3>3 DEF Digit
    <2> HIDE DEF G
    <2>8. \A i \in 0..m : i \in G
      BY <2>2, <2>6, <2>7, UpInduction
    <2>9. QED
      BY <2>1, <2>2, <2>8 DEF G
  <1>6. QED
    BY <1>4, <1>5

(* Bit by bit.                                                             *)
LEMMA NumeralStep ==
  ASSUME NEW n \in Nat, Powers(n), NEW w
  PROVE  /\ Numeral(w, 0) = 0
         /\ \A m \in 0..n : Numeral(w, m) \in Nat
         /\ \A m \in Upto(n) : Numeral(w, m + 1) = Numeral(w, m) + Digit(w, m)
  <1>1. PICK f \in [0..n -> Nat] : Counts(f, w, n) /\ \A m \in 0..n : Numeral(w, m) = f[m]
    BY NumeralCounts
  <1>2. \A m \in Upto(n) : m \in 0..n /\ m + 1 \in 0..n
    BY DEF Upto
  <1>3. 0 \in 0..n
    OBVIOUS
  <1>4. QED
    BY <1>1, <1>2, <1>3 DEF Counts

LEMMA NumeralBelow ==
  ASSUME NEW n \in Nat, Powers(n), NEW w, NEW m \in 0..n
  PROVE  Numeral(w, m) < 2^m
  <1> DEFINE G == {i \in 0..n : Numeral(w, i) < 2^i}
  <1>1. 0 \in G
    BY NumeralStep DEF Powers
  <1>2. ASSUME NEW i \in Upto(n), i \in G
        PROVE  i + 1 \in G
    <2>1. i \in 0..n /\ i + 1 \in 0..n
      BY DEF Upto
    <2>2. /\ Numeral(w, i) \in Nat
          /\ Numeral(w, i + 1) = Numeral(w, i) + Digit(w, i)
      BY <2>1, NumeralStep
    <2>3. QED
      BY <1>2, <2>1, <2>2, DigitNat
  <1> HIDE DEF G
  <1>3. \A i \in 0..n : i \in G
    BY <1>1, <1>2, UpInduction
  <1>4. QED
    BY <1>3 DEF G

(* The bits from b on make a multiple of 2^b.                              *)
LEMMA NumeralAbove ==
  ASSUME NEW n \in Nat, Powers(n), NEW w, NEW b \in 0..n, NEW m \in b..n
  PROVE  \E q \in Nat : Numeral(w, m) = Numeral(w, b) + q * 2^b /\ q * 2^b \in Nat
  <1>1. 2^b \in Nat \ {0}
    BY PowerNat
  <1> DEFINE d == 2^b
             Multiple(x) == \E q \in Nat : x = q * d
  <1>13. d \in Nat
    BY <1>1
  <1> HIDE DEF d
  <1>2. ASSUME NEW x \in Nat, NEW y \in Nat, Multiple(x), Multiple(y)
        PROVE  Multiple(x + y)
    <2>1. PICK i \in Nat, j \in Nat : x = i * d /\ y = j * d
      BY <1>2
    <2>2. (i + j) * d = i * d + j * d /\ i + j \in Nat
      BY <1>13
    <2>3. QED
      BY <2>1, <2>2
  <1>3. \A x \in Nat : Multiple(x) => Multiple(2 * x)
    <2> SUFFICES ASSUME NEW x \in Nat, Multiple(x) PROVE Multiple(x + x)
      OBVIOUS
    <2>1. QED
      BY <1>2
  <1>4. Multiple(0) /\ Multiple(2^b)
    <2>1. 0 = 0 * d /\ d = 1 * d
      BY <1>13
    <2>2. QED
      BY <2>1 DEF d
  <1> HIDE DEF Multiple
  <1> DEFINE G == {k \in 0..(n - b) : Multiple(2^(b + k))}
             H == {k \in 0..(n - b) : Numeral(w, b + k) - Numeral(w, b) \in Nat
                                      /\ Multiple(Numeral(w, b + k) - Numeral(w, b))}
  <1>5. n - b \in Nat /\ b \in Nat
    OBVIOUS
  <1>6. \A k \in 0..(n - b) : k \in G
    <2>1. 0 \in G
      BY <1>4, <1>5
    <2>2. ASSUME NEW k \in Upto(n - b), k \in G
          PROVE  k + 1 \in G
      <3>1. b + k \in Upto(n) /\ b + (k + 1) = (b + k) + 1 /\ k + 1 \in 0..(n - b)
        BY <1>5 DEF Upto
      <3>2. 2^(b + k) \in Nat /\ 2^((b + k) + 1) = 2 * 2^(b + k)
        BY <3>1, DigitNat
      <3>3. QED
        BY <1>3, <2>2, <3>1, <3>2
    <2> HIDE DEF G
    <2>3. QED
      BY <1>5, <2>1, <2>2, UpInduction
  <1>7. \A k \in 0..(n - b) : k \in H
    <2>1. 0 \in H
      <3>1. Numeral(w, b) \in Nat /\ b + 0 = b
        BY <1>5, NumeralStep
      <3>2. QED
        BY <1>4, <1>5, <3>1
    <2>2. ASSUME NEW k \in Upto(n - b), k \in H
          PROVE  k + 1 \in H
      <3> DEFINE i == b + k
                 x == Numeral(w, i) - Numeral(w, b)
      <3>1. i \in Upto(n) /\ b + (k + 1) = i + 1 /\ k + 1 \in 0..(n - b) /\ k \in 0..(n - b)
            /\ i \in 0..n
        BY <1>5 DEF Upto
      <3>2. x \in Nat /\ Multiple(x)
        BY <2>2
      <3>3. Digit(w, i) \in Nat /\ Multiple(Digit(w, i))
        BY <1>4, <1>6, <3>1, DigitNat DEF Digit
      <3>4. Numeral(w, i) \in Nat /\ Numeral(w, b) \in Nat
            /\ Numeral(w, i + 1) = Numeral(w, i) + Digit(w, i)
        BY <3>1, NumeralStep
      <3> HIDE DEF i
      <3>5. Numeral(w, i + 1) - Numeral(w, b) = x + Digit(w, i)
        BY <3>3, <3>4
      <3> HIDE DEF x
      <3>6. QED
        BY <1>2, <3>1, <3>2, <3>3, <3>5
    <2> HIDE DEF H
    <2>3. QED
      BY <1>5, <2>1, <2>2, UpInduction
  <1>8. m - b \in 0..(n - b) /\ b + (m - b) = m
    OBVIOUS
  <1>9. Numeral(w, m) - Numeral(w, b) \in Nat /\ Multiple(Numeral(w, m) - Numeral(w, b))
    BY <1>7, <1>8
  <1> DEFINE x == Numeral(w, m) - Numeral(w, b)
  <1>10. PICK q \in Nat : x = q * d
    BY <1>9 DEF Multiple
  <1>11. Numeral(w, b) \in Nat /\ Numeral(w, m) \in Nat /\ x \in Nat
    BY <1>9, NumeralStep
  <1>12. Numeral(w, m) = Numeral(w, b) + x
    BY <1>11
  <1> HIDE DEF x
  <1>14. Numeral(w, m) = Numeral(w, b) + q * 2^b /\ q * 2^b \in Nat
    BY <1>10, <1>11, <1>12 DEF d
  <1>15. QED
    BY <1>14

(* Bit b of a number is read off by two divisions.                         *)
LEMMA NumeralBit ==
  ASSUME NEW n \in Nat, Powers(n), NEW w, NEW b \in Upto(n)
  PROVE  (Numeral(w, n) \div 2^b) % 2 = 1 <=> b \in w
  <1>1. b + 1 \in 0..n /\ n \in (b + 1)..n /\ b \in 0..n /\ b \in Nat
    BY DEF Upto
  <1>2. PICK q \in Nat : /\ Numeral(w, n) = Numeral(w, b + 1) + q * 2^(b + 1)
                         /\ q * 2^(b + 1) \in Nat
    BY <1>1, NumeralAbove
  <1>3. /\ Numeral(w, b) \in Nat /\ Numeral(w, b) < 2^b
        /\ Numeral(w, b + 1) = Numeral(w, b) + Digit(w, b)
    BY <1>1, NumeralStep, NumeralBelow
  <1>4. 2^b \in Nat \ {0} /\ 2^(b + 1) = 2 * 2^b
    BY DigitNat
  <1> DEFINE d == 2^b
             r == Numeral(w, b)
             bit == IF b \in w THEN 1 ELSE 0
  <1>5. d \in Nat \ {0} /\ r \in Nat /\ r < d
    BY <1>3, <1>4
  <1>6. Digit(w, b) = bit * d
    BY <1>4 DEF Digit
  <1> HIDE DEF r, d
  <1>7. q * (2 * d) = (2 * q) * d /\ (2 * q) * d + bit * d = (2 * q + bit) * d
    BY <1>5
  <1>8. Numeral(w, n) = (2 * q + bit) * d + r
    <2>1. q * (2 * d) \in Nat /\ bit * d \in Nat
      BY <1>5
    <2>2. Numeral(w, n) = (r + bit * d) + q * (2 * d)
      BY <1>2, <1>3, <1>4, <1>6 DEF d, r
    <2>3. QED
      BY <1>5, <1>7, <2>1, <2>2
  <1>9. 2 * q + bit \in Upto(2 * q + 2) /\ r \in Upto(d) /\ 2 * q + 2 \in Nat
    BY <1>5 DEF Upto
  <1> DEFINE a == 2 * q + bit
  <1>10. a % 2 = 1 <=> b \in w
    OBVIOUS
  <1>11. a \in Upto(2 * q + 2)
    BY <1>9
  <1>12. Numeral(w, n) = a * d + r
    BY <1>8
  <1> HIDE DEF a
  <1>13. (a * d + r) \div d = a
    BY <1>5, <1>9, <1>11, PositionOf
  <1>14. QED
    BY <1>10, <1>12, <1>13 DEF d

(* Every number below 2^n is the numeral of its own bits.                  *)
BitsOf(m, n) == {b \in Upto(n) : (m \div 2^b) % 2 = 1}

LEMMA DivisionTwice ==
  ASSUME NEW m \in Nat, NEW d \in Nat \ {0}
  PROVE  m % (2 * d) = (m % d) + (IF (m \div d) % 2 = 1 THEN d ELSE 0)
  <1> DEFINE q == m \div d
             r == m % d
             k == q \div 2
             bit == q % 2
  <1>1. m = q * d + r /\ q \in Nat /\ r \in Nat /\ r < d
    OBVIOUS
  <1> HIDE DEF q, r
  <1>2. q = 2 * k + bit /\ k \in Nat /\ bit \in {0, 1}
    BY <1>1
  <1> HIDE DEF k, bit
  <1> DEFINE s == bit * d + r
  <1>3. s \in Nat /\ s < 2 * d /\ s = r + (IF bit = 1 THEN d ELSE 0)
    BY <1>1, <1>2
  <1>4. q * d = k * (2 * d) + bit * d
    <2>1. (2 * k + bit) * d = (2 * k) * d + bit * d /\ (2 * k) * d = k * (2 * d)
      BY <1>2
    <2>2. QED
      BY <1>2, <2>1
  <1>5. m = k * (2 * d) + s
    <2>1. k * (2 * d) \in Nat /\ bit * d \in Nat
      BY <1>2
    <2>2. QED
      BY <1>1, <1>4, <2>1
  <1> HIDE DEF s
  <1>6. (k * (2 * d) + s) % (2 * d) = s
    <2>1. k \in Upto(k + 1) /\ s \in Upto(2 * d) /\ k + 1 \in Nat /\ 2 * d \in Nat \ {0}
      BY <1>2, <1>3 DEF Upto
    <2>2. QED
      BY <2>1, PositionOf
  <1>7. QED
    BY <1>3, <1>5, <1>6 DEF bit, q, r

LEMMA NumeralOfBits ==
  ASSUME NEW n \in Nat, Powers(n), NEW m \in Nat, m < 2^n
  PROVE  Numeral(BitsOf(m, n), n) = m
  <1> DEFINE w == BitsOf(m, n)
             G == {i \in 0..n : Numeral(w, i) = m % 2^i}
  <1>1. 0 \in G
    <2>1. m % 1 = 0
      OBVIOUS
    <2>2. 2^0 = 1 /\ Numeral(w, 0) = 0
      BY NumeralStep DEF Powers
    <2>3. QED
      BY <2>1, <2>2
  <1>2. ASSUME NEW i \in Upto(n), i \in G
        PROVE  i + 1 \in G
    <2>1. i + 1 \in 0..n /\ Numeral(w, i + 1) = Numeral(w, i) + Digit(w, i)
      BY NumeralStep DEF Upto
    <2>2. 2^i \in Nat \ {0} /\ 2^(i + 1) = 2 * 2^i
      BY DigitNat
    <2>3. Digit(w, i) = IF (m \div 2^i) % 2 = 1 THEN 2^i ELSE 0
      BY DEF Digit, BitsOf
    <2>4. m % (2 * 2^i) = (m % 2^i) + (IF (m \div 2^i) % 2 = 1 THEN 2^i ELSE 0)
      BY <2>2, DivisionTwice
    <2>5. QED
      BY <1>2, <2>1, <2>2, <2>3, <2>4
  <1> HIDE DEF G
  <1>3. \A i \in 0..n : i \in G
    BY <1>1, <1>2, UpInduction
  <1>4. n \in 0..n /\ 2^n \in Nat \ {0}
    BY PowerNat
  <1>5. m % 2^n = m
    BY <1>4
  <1>6. QED
    BY <1>3, <1>4, <1>5 DEF G

(* The numbers 0 to Order are written as different bytes, and every byte   *)
(* is written by its number.                                               *)
LEMMA OrderIs == Order \in Nat /\ 2^Bits = Order + 1 /\ Bits \in Nat
  <1>1. Bits \in Nat /\ Powers(Bits)
    BY FieldAssumption, PowersOfBits
  <1>2. 2^Bits \in Nat \ {0}
    BY <1>1, PowerNat
  <1>3. QED
    BY <1>1, <1>2 DEF Order

LEMMA NumberLaws ==
  /\ Order \in Nat
  /\ \A m, n \in 0..Order : OfNat(m) = OfNat(n) => m = n
  <1>1. \A m \in 0..Order : OfNat(m) = BitsOf(m, Bits)
    BY DEF OfNat, BitsOf, Bit, Upto
  <1>2. \A m \in 0..Order : m \in Nat /\ m < 2^Bits
    BY OrderIs
  <1>3. \A m \in 0..Order : Numeral(BitsOf(m, Bits), Bits) = m
    BY <1>2, OrderIs, PowersOfBits, NumeralOfBits
  <1>4. QED
    BY <1>1, <1>3, OrderIs

LEMMA ByteNumber ==
  ASSUME NEW x \in Byte
  PROVE  /\ Numeral(x, Bits) \in 0..Order /\ OfNat(Numeral(x, Bits)) = x
         /\ x \in Index /\ ToNat[x] = Numeral(x, Bits)
  <1>1. Powers(Bits) /\ Bits \in Nat /\ Bits \in 0..Bits
    BY OrderIs, PowersOfBits
  <1>2. Numeral(x, Bits) \in Nat /\ Numeral(x, Bits) < 2^Bits
    BY <1>1, NumeralStep, NumeralBelow
  <1>3. Numeral(x, Bits) \in 0..Order
    BY <1>2, OrderIs
  <1>4. \A b \in Bit : (Numeral(x, Bits) \div 2^b) % 2 = 1 <=> b \in x
    BY <1>1, NumeralBit DEF Bit, Upto
  <1>5. OfNat(Numeral(x, Bits)) = x
    BY <1>4 DEF OfNat, Byte
  <1>6. x \in Index
    BY <1>3, <1>5 DEF Index
  <1>7. QED
    BY <1>3, <1>5, <1>6 DEF ToNat

(* Two numerals whose digits add up to those of a third.                   *)
LEMMA NumeralSum ==
  ASSUME NEW n \in Nat, Powers(n), NEW u, NEW v, NEW w,
         \A i \in Upto(n) : Digit(w, i) = Digit(u, i) + Digit(v, i)
  PROVE  Numeral(w, n) = Numeral(u, n) + Numeral(v, n)
  <1> DEFINE G == {i \in 0..n : Numeral(w, i) = Numeral(u, i) + Numeral(v, i)}
  <1>1. 0 \in G
    BY NumeralStep
  <1>2. ASSUME NEW i \in Upto(n), i \in G
        PROVE  i + 1 \in G
    <2>1. i \in 0..n /\ i + 1 \in 0..n
      BY DEF Upto
    <2>2. /\ Numeral(w, i + 1) = Numeral(w, i) + Digit(w, i)
          /\ Numeral(u, i + 1) = Numeral(u, i) + Digit(u, i)
          /\ Numeral(v, i + 1) = Numeral(v, i) + Digit(v, i)
          /\ Numeral(u, i) \in Nat /\ Numeral(v, i) \in Nat
      BY <2>1, NumeralStep
    <2>3. Digit(w, i) = Digit(u, i) + Digit(v, i) /\ Digit(u, i) \in Nat /\ Digit(v, i) \in Nat
      BY DigitNat
    <2>4. Numeral(w, i) = Numeral(u, i) + Numeral(v, i)
      BY <1>2
    <2>5. QED
      BY <2>1, <2>2, <2>3, <2>4
  <1> HIDE DEF G
  <1>3. \A i \in 0..n : i \in G
    BY <1>1, <1>2, UpInduction
  <1>4. n \in 0..n
    OBVIOUS
  <1>5. QED
    BY <1>3, <1>4 DEF G

(* The bits below h only.                                                  *)
LEMMA NumeralLow ==
  ASSUME NEW n \in Nat, Powers(n), NEW w, NEW h \in 0..n
  PROVE  Numeral({b \in w : b \in Upto(h)}, n) = Numeral(w, h)
  <1> DEFINE u == {b \in w : b \in Upto(h)}
             Is(i) == Numeral(u, i) = Numeral(w, IF i <= h THEN i ELSE h)
             G == {i \in 0..n : Is(i)}
  <1>1. 0 \in G
    BY NumeralStep
  <1>2. ASSUME NEW i \in Upto(n), i \in G
        PROVE  i + 1 \in G
    <2>1. i \in 0..n /\ i + 1 \in 0..n /\ i \in Nat /\ h \in Nat
      BY DEF Upto
    <2>2. /\ Numeral(u, i + 1) = Numeral(u, i) + Digit(u, i)
          /\ Numeral(w, i + 1) = Numeral(w, i) + Digit(w, i)
          /\ Numeral(u, i) \in Nat
      BY <2>1, NumeralStep
    <2>3. CASE i < h
      <3>1. Digit(u, i) = Digit(w, i)
        BY <2>1, <2>3 DEF Digit, Upto
      <3>2. Numeral(u, i) = Numeral(w, i) /\ i + 1 <= h
        BY <1>2, <2>1, <2>3
      <3>3. QED
        BY <2>1, <2>2, <3>1, <3>2
    <2>4. CASE ~(i < h)
      <3>1. Digit(u, i) = 0
        BY <2>1, <2>4 DEF Digit, Upto
      <3>2. Numeral(u, i) = Numeral(w, h) /\ ~(i + 1 <= h)
        <4>1. CASE i = h
          BY <1>2, <2>1, <4>1
        <4>2. CASE i # h
          BY <1>2, <2>1, <2>4, <4>2
        <4>3. QED
          BY <2>1, <2>4, <4>1, <4>2
      <3>3. Numeral(u, i + 1) = Numeral(w, h)
        BY <2>2, <3>1, <3>2
      <3>4. QED
        BY <2>1, <3>2, <3>3
    <2>5. QED
      BY <2>3, <2>4
  <1>6. n \in Nat /\ n \in 0..n
    OBVIOUS
  <1>5. Is(n) => Numeral(u, n) = Numeral(w, h)
    <2>1. n <= h => n = h
      OBVIOUS
    <2>2. QED
      BY <2>1
  <1> HIDE DEF G
  <1>3. \A i \in 0..n : i \in G
    BY <1>1, <1>2, UpInduction
  <1>4. Is(n)
    BY <1>3, <1>6 DEF G
  <1>7. QED
    BY <1>4, <1>5

LEMMA PowerSum ==
  ASSUME NEW n \in Nat, Powers(n), NEW i \in Nat, NEW j \in Nat, i + j <= n
  PROVE  2^(i + j) = 2^i * 2^j
  <1>1. 2^i \in Nat
    BY PowerNat
  <1> DEFINE d == 2^i
             G == {k \in Nat : i + k <= n => 2^(i + k) = d * 2^k}
  <1>2. 0 \in G
    BY <1>1 DEF Powers
  <1>3. ASSUME NEW k \in Upto(j), k \in G
        PROVE  k + 1 \in G
    <2>1. k \in Nat /\ i + (k + 1) <= n /\ i + (k + 1) = (i + k) + 1
          /\ i + k \in Upto(n) /\ k \in Upto(n) /\ i + k <= n
      BY DEF Upto
    <2>2. 2^((i + k) + 1) = 2 * 2^(i + k) /\ 2^(k + 1) = 2 * 2^k /\ 2^k \in Nat
      BY <2>1, DigitNat
    <2>3. 2^(i + k) = d * 2^k
      BY <1>3, <2>1
    <2> DEFINE e == 2^k
    <2>4. e \in Nat /\ d \in Nat
      BY <1>1, <2>2
    <2> HIDE DEF d, e
    <2>5. 2 * (d * e) = d * (2 * e)
      BY <2>4
    <2>6. 2^(i + (k + 1)) = d * 2^(k + 1)
      BY <2>1, <2>2, <2>3, <2>5 DEF e
    <2>7. QED
      BY <2>1, <2>6 DEF d
  <1> HIDE DEF G
  <1>4. \A k \in 0..j : k \in G
    BY <1>2, <1>3, UpInduction
  <1>5. QED
    BY <1>4 DEF G
-----------------------------------------------------------------------------
(* Stripes: the encode matrix A has n rows, k columns and the identity on  *)
(* top, and byte q of shard i is row i times the k source bytes.           *)

Systematic(A, n, k) ==
  /\ A.rows = n /\ A.cols = k
  /\ \A i \in Upto(n), j \in Upto(k) : A.at[i][j] \in Byte
  /\ \A i, j \in Upto(k) : A.at[i][j] = Delta(i, j)

(* Byte q of each shard.                                                   *)
Across(shards, I, q) == [i \in I |-> shards[i][q]]

Stripe(shards, A, n, k, len) ==
  /\ DOMAIN shards = Upto(n)
  /\ \A i \in Upto(n) : shards[i] \in [Upto(len) -> Byte]
  /\ \A i \in Upto(n), q \in Upto(len) :
       shards[i][q] = Dot(Upto(k), A.at[i], Across(shards, Upto(k), q))

(* The encoding of k sources of one length is such a stripe.               *)
Assembled(message, parity, n, k) ==
  [i \in Upto(n) |-> IF i < k THEN message[i] ELSE parity[i - k]]

LEMMA EncodedByte ==
  ASSUME NEW k \in Nat \ {0}, NEW p \in Nat, NEW A, Systematic(A, k + p, k),
         NEW c, c.matrix = A, c.gftbls.coeffs = parity_bytes(A),
         NEW message, DOMAIN message = Upto(k),
         NEW blank, NEW l \in DOMAIN blank, l \in Upto(p), NEW q \in DOMAIN blank[l]
  PROVE  encode(c, message, blank)[l][q]
           = Dot(Upto(k), A.at[k + l], Across(message, Upto(k), q))
  <1> DEFINE t == [j \in Upto(k) |-> Term(c.gftbls, k, l, j, message[j][q])]
             x == Across(message, Upto(k), q)
             u == [j \in Upto(k) |-> mul(A.at[k + l][j], x[j])]
  <1>1. Count(message) = k
    BY CountOf
  <1>2. encode(c, message, blank)[l][q] = XorAll(Upto(k), t)
    BY <1>1 DEF encode, KernelEncode
  <1>3. ASSUME NEW j \in Upto(k)
        PROVE  t[j] = u[j]
    <2>1. /\ l * k + j \in Upto(p * k)
          /\ (l * k + j) \div k = l
          /\ (l * k + j) % k = j
      BY PositionOf
    <2>2. (k + p) - k = p
      OBVIOUS
    <2>3. parity_bytes(A) = [e \in Upto(p * k) |-> A.at[k + (e \div k)][e % k]]
      BY <2>2 DEF parity_bytes, Flat, Systematic
    <2>4. c.gftbls.coeffs[l * k + j] = A.at[k + l][j]
      BY <2>1, <2>3
    <2>5. QED
      BY <2>4 DEF Term, Across
  <1>4. Dot(Upto(k), A.at[k + l], x) = XorAll(Upto(k), u)
    BY DEF Dot
  <1> HIDE DEF t, u, x
  <1>5. XorAll(Upto(k), t) = XorAll(Upto(k), u)
    BY <1>3, XorAllSame
  <1>6. QED
    BY <1>2, <1>4, <1>5 DEF x

LEMMA EncodedStripe ==
  ASSUME NEW k \in Nat \ {0}, NEW p \in Nat, NEW A, Systematic(A, k + p, k),
         NEW c, c.matrix = A, c.gftbls.coeffs = parity_bytes(A),
         NEW len \in Nat, NEW message \in [Upto(k) -> [Upto(len) -> Byte]],
         NEW blank, DOMAIN blank = Upto(p),
         \A l \in Upto(p) : DOMAIN blank[l] = Upto(len),
         NEW shards, shards = Assembled(message, encode(c, message, blank), k + p, k)
  PROVE  Stripe(shards, A, k + p, k, len)
  <1> DEFINE n == k + p
             parity == encode(c, message, blank)
  <1>1. DOMAIN shards = Upto(n) /\ Upto(k) \subseteq Upto(n)
    BY DEF Assembled, Upto
  <1>2. \A i \in Upto(n) : i < k => i \in Upto(k) /\ shards[i] = message[i]
    BY DEF Assembled, Upto
  <1>3. \A i \in Upto(n) : ~(i < k) =>
          i - k \in Upto(p) /\ k + (i - k) = i /\ shards[i] = parity[i - k]
    BY DEF Assembled, Upto
  <1>4. \A i \in Upto(k) : i < k /\ i \in Upto(n)
    BY DEF Upto
  <1>5. ASSUME NEW q
        PROVE  Across(shards, Upto(k), q) = Across(message, Upto(k), q)
    BY <1>2, <1>4 DEF Across
  <1>6. ASSUME NEW i \in Upto(n)
        PROVE  /\ shards[i] \in [Upto(len) -> Byte]
               /\ \A q \in Upto(len) :
                    shards[i][q] = Dot(Upto(k), A.at[i], Across(shards, Upto(k), q))
    <2>1. CASE i < k
      <3>1. i \in Upto(k) /\ shards[i] = message[i]
        BY <1>2, <2>1
      <3>2. ASSUME NEW q \in Upto(len)
            PROVE  shards[i][q] = Dot(Upto(k), A.at[i], Across(shards, Upto(k), q))
        <4> DEFINE x == Across(message, Upto(k), q)
                   u == A.at[i]
        <4>1. \A t \in Upto(k) : x[t] \in Byte /\ u[t] = Delta(i, t)
          BY <3>1 DEF Across, Systematic
        <4>2. x[i] = message[i][q]
          BY <3>1 DEF Across
        <4> HIDE DEF x, u
        <4>3. Dot(Upto(k), u, x) = x[i]
          BY <3>1, <4>1, UptoFinite, DotUnit
        <4>4. QED
          BY <1>5, <3>1, <4>2, <4>3 DEF x, u
      <3>3. QED
        BY <3>1, <3>2
    <2>2. CASE ~(i < k)
      <3> DEFINE l == i - k
      <3>1. l \in Upto(p) /\ k + l = i /\ shards[i] = parity[l]
        BY <1>3, <2>2
      <3>2. DOMAIN parity[l] = Upto(len)
        BY <3>1 DEF encode, KernelEncode
      <3>3. ASSUME NEW q \in Upto(len)
            PROVE  parity[l][q] = Dot(Upto(k), A.at[i], Across(message, Upto(k), q))
        BY <3>1, EncodedByte
      <3>4. parity[l] = [q \in Upto(len) |-> parity[l][q]]
        BY <3>1, <3>2 DEF encode, KernelEncode
      <3>5. parity[l] \in [Upto(len) -> Byte]
        BY <3>3, <3>4, DotByte
      <3>6. QED
        BY <1>5, <3>1, <3>3, <3>5
    <2>3. QED
      BY <2>1, <2>2
  <1>7. QED
    BY <1>1, <1>6 DEF Stripe
-----------------------------------------------------------------------------
(* Decoding: D is a left inverse of the survivors' rows of A.              *)

Inverts(D, A, k, survivors) ==
  /\ D \in Mat(k)
  /\ Times(D, select_rows(A, k, survivors).at, k) = Identity(k).at

LEMMA SelectedRows ==
  ASSUME NEW k \in Nat, NEW n \in Nat, NEW A, Systematic(A, n, k),
         NEW survivors \in [Upto(k) -> Upto(n)]
  PROVE  /\ select_rows(A, k, survivors).rows = k
         /\ select_rows(A, k, survivors).cols = k
         /\ select_rows(A, k, survivors).at \in Mat(k)
         /\ \A t, j \in Upto(k) :
              select_rows(A, k, survivors).at[t][j] = A.at[survivors[t]][j]
  BY DEF select_rows, Matrix, Mat, Systematic

LEMMA DecodeMatrixInverts ==
  ASSUME NEW k \in Nat, NEW n \in Nat, NEW A, Systematic(A, n, k),
         NEW c, c.matrix = A,
         NEW survivors \in [Upto(k) -> Upto(n)], IsOk(DecodeMatrix(c, survivors))
  PROVE  Inverts(DecodeMatrix(c, survivors).ok.at, A, k, survivors)
  <1> DEFINE S == select_rows(A, k, survivors)
  <1>1. DecodeMatrix(c, survivors) = invert(S)
    BY DEF DecodeMatrix, CoderK, Systematic
  <1>2. S.rows = k /\ S.cols = k /\ S.at \in Mat(k)
    BY SelectedRows
  <1> HIDE DEF S
  <1>3. invert(S).ok.at \in Mat(k) /\ Times(invert(S).ok.at, S.at, k) = Identity(k).at
    BY <1>1, <1>2, InvertInverts
  <1>4. QED
    BY <1>1, <1>3 DEF Inverts, S

(* A left inverse applied to the survivors' bytes gives the source bytes.  *)
LEMMA SourcesFrom ==
  ASSUME NEW k \in Nat, NEW M \in Mat(k), NEW D \in Mat(k),
         Times(D, M, k) = Identity(k).at,
         NEW x, \A j \in Upto(k) : x[j] \in Byte,
         NEW y, \A t \in Upto(k) : y[t] = Dot(Upto(k), M[t], x),
         NEW i \in Upto(k)
  PROVE  Dot(Upto(k), D[i], y) = x[i]
  <1> DEFINE um == Identity(k).at[i]
             mt == [j \in Upto(k) |-> Column(M, k, j)]
             u == D[i]
  <1>1. \A t, j \in Upto(k) : u[t] \in Byte /\ M[t][j] \in Byte
    BY MatByte
  <1>2. \A j \in Upto(k) : um[j] = Dot(Upto(k), u, mt[j])
    BY TimesMat
  <1>3. \A t, j \in Upto(k) : mt[j][t] = M[t][j]
    BY DEF Column
  <1>4. \A j \in Upto(k) : um[j] = Delta(i, j)
    BY IdentityMat
  <1> HIDE DEF um, mt, u
  <1>5. Dot(Upto(k), u, y) = Dot(Upto(k), um, x)
    <2>1. Bytes(Upto(k), u) /\ Bytes(Upto(k), x) /\ Entries(Upto(k), Upto(k), M)
      BY <1>1 DEF Bytes, Entries
    <2>2. Transposed(Upto(k), Upto(k), M, mt) /\ Applied(Upto(k), Upto(k), M, x, y)
      BY <1>3 DEF Transposed, Applied
    <2>3. QED
      BY <1>2, <2>1, <2>2, UptoFinite, DotAssociates
  <1>6. Dot(Upto(k), um, x) = x[i]
    BY <1>4, UptoFinite, DotUnit
  <1>7. QED
    BY <1>5, <1>6 DEF u

(* The coefficient row of a plan for shard i.                              *)
DecodeRow(A, D, k, i) ==
  [t \in Upto(k) |-> IF i < k THEN D[i][t] ELSE Dot(Upto(k), A.at[i], Column(D, k, t))]

(* At byte q, y is the survivors' bytes; row is the coefficient row.       *)
Gathered(y, shards, survivors, k, q) ==
  \A t \in Upto(k) : y[t] = shards[survivors[t]][q]

IsRow(row, A, D, k, i) == \A t \in Upto(k) : row[t] = DecodeRow(A, D, k, i)[t]

LEMMA RowRebuilds ==
  ASSUME NEW k \in Nat, NEW n \in Nat, k <= n, NEW A, Systematic(A, n, k),
         NEW survivors \in [Upto(k) -> Upto(n)], NEW D, Inverts(D, A, k, survivors),
         NEW len \in Nat, NEW shards, Stripe(shards, A, n, k, len),
         NEW i \in Upto(n), NEW q \in Upto(len),
         NEW y, Gathered(y, shards, survivors, k, q),
         NEW row, IsRow(row, A, D, k, i)
  PROVE  Dot(Upto(k), row, y) = shards[i][q]
  <1> USE DEF Gathered, IsRow
  <1> DEFINE x == Across(shards, Upto(k), q)
             M == select_rows(A, k, survivors).at
  <1>1. Upto(k) \subseteq Upto(n)
    BY DEF Upto
  <1>2. \A j \in Upto(k) : x[j] \in Byte /\ x[j] = shards[j][q]
    BY <1>1 DEF Across, Stripe
  <1>3. M \in Mat(k) /\ D \in Mat(k) /\ Times(D, M, k) = Identity(k).at
    BY SelectedRows DEF Inverts
  <1>4. ASSUME NEW t \in Upto(k)
        PROVE  y[t] = Dot(Upto(k), M[t], x)
    <2>1. survivors[t] \in Upto(n)
      OBVIOUS
    <2>2. y[t] = Dot(Upto(k), A.at[survivors[t]], x)
      BY <2>1 DEF Stripe
    <2>3. \A j \in Upto(k) : M[t][j] = A.at[survivors[t]][j]
      BY SelectedRows
    <2> HIDE DEF M, x
    <2>4. QED
      BY <2>2, <2>3, DotSame
  <1>5. \A s \in Upto(k) : Dot(Upto(k), D[s], y) = x[s]
    <2> HIDE DEF M, x
    <2>1. QED
      BY <1>2, <1>3, <1>4, SourcesFrom
  <1>6. CASE i < k
    <2>1. i \in Upto(k)
      BY <1>6 DEF Upto
    <2>2. \A t \in Upto(k) : row[t] = D[i][t]
      BY <1>6 DEF DecodeRow
    <2>3. Dot(Upto(k), row, y) = Dot(Upto(k), D[i], y)
      BY <2>2, DotSame
    <2>4. QED
      BY <1>2, <1>5, <2>1, <2>3
  <1>7. CASE ~(i < k)
    <2> DEFINE u == A.at[i]
               mt == [t \in Upto(k) |-> Column(D, k, t)]
    <2>1. \A t \in Upto(k) : row[t] = Dot(Upto(k), u, mt[t])
      BY <1>7 DEF DecodeRow
    <2>2. \A s, t \in Upto(k) : mt[t][s] = D[s][t] /\ D[s][t] \in Byte /\ u[s] \in Byte
      BY <1>3, ColumnByte, MatByte DEF Systematic
    <2>3. \A t \in Upto(k) : y[t] \in Byte
      BY <1>4, DotByte
    <2>4. shards[i][q] = Dot(Upto(k), u, x)
      BY DEF Stripe
    <2> HIDE DEF u, mt, x
    <2>5. Dot(Upto(k), u, x) = Dot(Upto(k), row, y)
      <3>1. Bytes(Upto(k), u) /\ Bytes(Upto(k), y) /\ Entries(Upto(k), Upto(k), D)
        BY <2>2, <2>3 DEF Bytes, Entries
      <3>2. Transposed(Upto(k), Upto(k), D, mt) /\ Applied(Upto(k), Upto(k), D, y, x)
        BY <1>5, <2>2 DEF Transposed, Applied
      <3>3. QED
        BY <2>1, <3>1, <3>2, UptoFinite, DotAssociates
    <2>6. QED
      BY <2>4, <2>5
  <1>8. QED
    BY <1>6, <1>7
-----------------------------------------------------------------------------
(* Plans.                                                                  *)

LEMMA SmallestIn ==
  ASSUME NEW S \in SUBSET Nat, IsFiniteSet(S), NEW k \in Nat, k <= Cardinality(S)
  PROVE  Smallest(S, k) \in [Upto(k) -> S]
  <1>1. ASSUME NEW t \in Upto(k)
        PROVE  Smallest(S, k)[t] \in S
    <2>1. t \in Upto(Cardinality(S))
      BY FS_CardinalityType DEF Upto
    <2>2. \E i \in S : Cardinality({s \in S : s < i}) = t
      BY <2>1, RankExists DEF Below
    <2>3. QED
      BY <2>2 DEF Smallest
  <1>2. QED
    BY <1>1 DEF Smallest

(* The plan's row for target r is the decode row of that shard.            *)
PlannedRows(plan, A, D, k) ==
  \A r \in DOMAIN plan.rebuild, t \in Upto(k) :
    plan.gftbls.coeffs[r * k + t] = DecodeRow(A, D, k, plan.rebuild[r])[t]

Serves(plan, A, n, k) ==
  /\ plan.survivors \in [Upto(k) -> Upto(n)]
  /\ \A r \in DOMAIN plan.rebuild : plan.rebuild[r] \in Upto(n)
  /\ \E D : Inverts(D, A, k, plan.survivors) /\ PlannedRows(plan, A, D, k)

LEMMA CoeffsAreRows ==
  ASSUME NEW k \in Nat \ {0}, NEW n \in Nat, NEW A, Systematic(A, n, k),
         NEW c, c.matrix = A,
         NEW survivors \in [Upto(k) -> Upto(n)], IsOk(DecodeMatrix(c, survivors)),
         NEW m \in Nat, NEW rebuild \in [Upto(m) -> Upto(n)],
         NEW r \in Upto(m), NEW t \in Upto(k)
  PROVE  DecodeCoeffs(c, survivors, rebuild)[r * k + t]
           = DecodeRow(A, DecodeMatrix(c, survivors).ok.at, k, rebuild[r])[t]
  <1> DEFINE d == DecodeMatrix(c, survivors).ok
             D == d.at
             i == rebuild[r]
             composed == multiply(A, d)
             u == [s \in Upto(k) |-> mul(A.at[i][s], D[s][t])]
             v == [s \in Upto(k) |-> mul(A.at[i][s], Column(D, k, t)[s])]
  <1>1. CoderK(c) = k /\ Count(rebuild) = m
    BY CountOf DEF CoderK, Systematic
  <1>2. d.cols = k
    <2> DEFINE S == select_rows(A, k, survivors)
    <2>1. DecodeMatrix(c, survivors) = invert(S)
      BY DEF DecodeMatrix, CoderK, Systematic
    <2>2. S.rows = k /\ S.cols = k /\ S.at \in Mat(k)
      BY SelectedRows
    <2> HIDE DEF S
    <2>3. QED
      BY <2>1, <2>2, InvertInverts
  <1>3. composed.at[i][t] = Dot(Upto(k), A.at[i], Column(D, k, t))
    <2>1. A.rows = n /\ A.cols = k
      BY DEF Systematic
    <2>2. i \in Upto(n)
      OBVIOUS
    <2> HIDE DEF d
    <2>3. composed.at[i][t] = XorAll(Upto(k), u)
      BY <1>2, <2>1, <2>2 DEF multiply, Matrix
    <2>4. Dot(Upto(k), A.at[i], Column(D, k, t)) = XorAll(Upto(k), v)
      BY DEF Dot
    <2>5. \A s \in Upto(k) : u[s] = v[s]
      BY DEF Column
    <2> HIDE DEF u, v
    <2>6. XorAll(Upto(k), u) = XorAll(Upto(k), v)
      BY <2>5, XorAllSame
    <2>7. QED
      BY <2>3, <2>4, <2>6
  <1>4. /\ r * k + t \in Upto(m * k)
        /\ (r * k + t) \div k = r
        /\ (r * k + t) % k = t
    BY PositionOf
  <1>5. DecodeCoeffs(c, survivors, rebuild)
          = [e \in Upto(m * k) |->
               IF rebuild[e \div k] < k THEN D[rebuild[e \div k]][e % k]
               ELSE composed.at[rebuild[e \div k]][e % k]]
    BY <1>1 DEF DecodeCoeffs, Flat
  <1> HIDE DEF d, composed
  <1>6. DecodeCoeffs(c, survivors, rebuild)[r * k + t]
          = IF i < k THEN D[i][t] ELSE composed.at[i][t]
    BY <1>4, <1>5
  <1>7. QED
    BY <1>3, <1>6 DEF DecodeRow, d

LEMMA PlanServes ==
  ASSUME NEW k \in Nat \ {0}, NEW n \in Nat, NEW A, Systematic(A, n, k),
         NEW c, c.matrix = A, NEW present, NEW there \in SUBSET Upto(n),
         there = {i \in DOMAIN present : present[i]}, k <= Cardinality(there),
         IsOk(DecodeMatrix(c, Smallest(there, k))),
         NEW m \in Nat, NEW rebuild \in [Upto(m) -> Upto(n)]
  PROVE  /\ Serves(decode_plan(c, present, rebuild), A, n, k)
         /\ decode_plan(c, present, rebuild).rebuild = rebuild
         /\ decode_plan(c, present, rebuild).survivors \in [Upto(k) -> there]
  <1> DEFINE survivors == Smallest(there, k)
             plan == decode_plan(c, present, rebuild)
             D == DecodeMatrix(c, survivors).ok.at
  <1>1. there \in SUBSET Nat /\ IsFiniteSet(there)
    <2>1. Upto(n) \in SUBSET Nat
      BY DEF Upto
    <2>2. QED
      BY <2>1, UptoFinite, FS_Subset
  <1>2. survivors \in [Upto(k) -> there] /\ survivors \in [Upto(k) -> Upto(n)]
    <2>1. survivors \in [Upto(k) -> there]
      BY <1>1, SmallestIn
    <2>2. QED
      BY <2>1
  <1>3. CoderK(c) = k
    BY DEF CoderK, Systematic
  <1>4. /\ plan.survivors = survivors /\ plan.rebuild = rebuild
        /\ plan.gftbls.coeffs = DecodeCoeffs(c, survivors, rebuild)
    BY <1>3 DEF decode_plan, init
  <1>5. Inverts(D, A, k, survivors)
    BY <1>2, DecodeMatrixInverts
  <1>6. PlannedRows(plan, A, D, k)
    <2> HIDE DEF survivors, plan
    <2>1. DOMAIN plan.rebuild = Upto(m)
      BY <1>4
    <2>2. QED
      BY <1>2, <1>4, <2>1, CoeffsAreRows DEF PlannedRows, survivors
  <1> HIDE DEF plan, survivors, D
  <1>7. QED
    BY <1>2, <1>4, <1>5, <1>6 DEF Serves, plan

(* A plan applied to its survivors' bytes returns the shards to rebuild.   *)
LEMMA PlanRebuilds ==
  ASSUME NEW k \in Nat \ {0}, NEW n \in Nat, k <= n, NEW A, Systematic(A, n, k),
         NEW len \in Nat, NEW shards, Stripe(shards, A, n, k, len),
         NEW plan, Serves(plan, A, n, k),
         NEW slots, \A t \in Upto(k) : slots[plan.survivors[t]] = shards[plan.survivors[t]],
         NEW out, DOMAIN out = DOMAIN plan.rebuild,
         \A r \in DOMAIN out : DOMAIN out[r] = Upto(len)
  PROVE  recover_with(plan, slots, out)
           = [r \in DOMAIN plan.rebuild |-> shards[plan.rebuild[r]]]
  <1> DEFINE src == PlannedSources(plan, slots)
             got == recover_with(plan, slots, out)
  <1>1. DOMAIN src = Upto(k) /\ \A t \in Upto(k) : src[t] = shards[plan.survivors[t]]
    BY DEF PlannedSources, Serves
  <1>2. Count(src) = k
    BY <1>1, CountOf
  <1>3. PICK D : Inverts(D, A, k, plan.survivors) /\ PlannedRows(plan, A, D, k)
    BY DEF Serves
  <1>4. ASSUME NEW r \in DOMAIN out
        PROVE  got[r] = shards[plan.rebuild[r]]
    <2> DEFINE i == plan.rebuild[r]
               coeffs == plan.gftbls.coeffs
    <2>1. i \in Upto(n)
      BY DEF Serves
    <2>2. got[r] = [q \in Upto(len) |->
                      XorAll(Upto(k), [t \in Upto(k) |->
                        mul(coeffs[r * k + t], src[t][q])])]
      BY <1>2 DEF recover_with, KernelEncode, Term
    <2>3. ASSUME NEW q \in Upto(len)
          PROVE  got[r][q] = shards[i][q]
      <3> DEFINE row == [t \in Upto(k) |-> coeffs[r * k + t]]
                 y == [t \in Upto(k) |-> src[t][q]]
                 v == [t \in Upto(k) |-> mul(coeffs[r * k + t], src[t][q])]
                 w == [t \in Upto(k) |-> mul(row[t], y[t])]
      <3>1. \A t \in Upto(k) : v[t] = w[t]
        OBVIOUS
      <3>2. got[r][q] = XorAll(Upto(k), v)
        BY <2>2
      <3>3. Dot(Upto(k), row, y) = XorAll(Upto(k), w)
        BY DEF Dot
      <3>4. IsRow(row, A, D, k, i)
        BY <1>3 DEF PlannedRows, IsRow
      <3>5. Gathered(y, shards, plan.survivors, k, q)
        BY <1>1 DEF Gathered
      <3>6. plan.survivors \in [Upto(k) -> Upto(n)]
        BY DEF Serves
      <3> HIDE DEF v, w, row, y, i, src, got
      <3>7. XorAll(Upto(k), v) = XorAll(Upto(k), w)
        BY <3>1, XorAllSame
      <3>8. Dot(Upto(k), row, y) = shards[i][q]
        BY <1>3, <2>1, <3>4, <3>5, <3>6, RowRebuilds
      <3>9. QED
        BY <3>2, <3>3, <3>7, <3>8
    <2>4. shards[i] \in [Upto(len) -> Byte]
      BY <2>1 DEF Stripe
    <2>5. DOMAIN got[r] = Upto(len) /\ got[r] = [q \in Upto(len) |-> got[r][q]]
      BY <2>2
    <2> HIDE DEF got, i
    <2>6. got[r] = shards[i]
      BY <2>3, <2>4, <2>5
    <2>7. QED
      BY <2>6 DEF i
  <1>5. got = [r \in DOMAIN out |-> got[r]]
    BY DEF recover_with, KernelEncode
  <1> HIDE DEF got
  <1>6. QED
    BY <1>4, <1>5 DEF got
-----------------------------------------------------------------------------
(* What an accepted recovery has checked.                                  *)

LEMMA MoreKinds ==
  ASSUME NEW c, NEW s, NEW t, NEW u, NEW x, NEW y
  PROVE  /\ \A e \in IndexCheck(s, x) : e.kind # "Ok"
         /\ \A e \in MissingCheck(c, s) : e.kind # "Ok"
         /\ \A e \in SingularCheck(c, s) : e.kind # "Ok"
         /\ \A e \in SurvivorCheck(s, t, x) : e.kind # "Ok"
         /\ \A e \in KernelAsserts(s, t, u, x) : e.kind # "Ok"
         /\ Raise("ShardLength", y) # {} /\ \A e \in Raise("ShardLength", y) : e.kind # "Ok"
  BY DEF IndexCheck, MissingCheck, SingularCheck, SurvivorCheck, KernelAsserts, Raise

LEMMA FineOne ==
  ASSUME NEW a, \A e \in a : e.kind # "Ok", Verdict(<<a>>) = Fine
  PROVE  a = {}
  <1> DEFINE checks == <<a>>
  <1>1. DOMAIN checks = 1..1 /\ checks[1] = a
    OBVIOUS
  <1>2. /\ Verdict(checks) = Fine
        /\ \A i \in 1..1 : \A e \in checks[i] : e.kind # "Ok"
    OBVIOUS
  <1> HIDE DEF checks
  <1>3. \A i \in 1..1 : checks[i] = {}
    BY <1>1, <1>2, FinePasses
  <1>4. QED
    BY <1>1, <1>3

LEMMA FineTwo ==
  ASSUME NEW a, NEW b, \A e \in a : e.kind # "Ok", \A e \in b : e.kind # "Ok",
         Verdict(<<a, b>>) = Fine
  PROVE  a = {} /\ b = {}
  <1> DEFINE checks == <<a, b>>
  <1>1. DOMAIN checks = 1..2 /\ checks[1] = a /\ checks[2] = b
    OBVIOUS
  <1>2. /\ Verdict(checks) = Fine
        /\ \A i \in 1..2 : \A e \in checks[i] : e.kind # "Ok"
    OBVIOUS
  <1> HIDE DEF checks
  <1>3. \A i \in 1..2 : checks[i] = {}
    BY <1>1, <1>2, FinePasses
  <1>4. QED
    BY <1>1, <1>3

LEMMA FineThree ==
  ASSUME NEW a, NEW b, NEW c, \A e \in a : e.kind # "Ok", \A e \in b : e.kind # "Ok",
         \A e \in c : e.kind # "Ok", Verdict(<<a, b, c>>) = Fine
  PROVE  a = {} /\ b = {} /\ c = {}
  <1> DEFINE checks == <<a, b, c>>
  <1>1. DOMAIN checks = 1..3 /\ checks[1] = a /\ checks[2] = b /\ checks[3] = c
    OBVIOUS
  <1>2. /\ Verdict(checks) = Fine
        /\ \A i \in 1..3 : \A e \in checks[i] : e.kind # "Ok"
    OBVIOUS
  <1> HIDE DEF checks
  <1>3. \A i \in 1..3 : checks[i] = {}
    BY <1>1, <1>2, FinePasses
  <1>4. QED
    BY <1>1, <1>3

LEMMA FineFour ==
  ASSUME NEW a, NEW b, NEW c, NEW d,
         \A e \in a : e.kind # "Ok", \A e \in b : e.kind # "Ok",
         \A e \in c : e.kind # "Ok", \A e \in d : e.kind # "Ok",
         Verdict(<<a, b, c, d>>) = Fine
  PROVE  a = {} /\ b = {} /\ c = {} /\ d = {}
  <1> DEFINE checks == <<a, b, c, d>>
  <1>1. /\ DOMAIN checks = 1..4 /\ checks[1] = a /\ checks[2] = b
        /\ checks[3] = c /\ checks[4] = d
    OBVIOUS
  <1>2. /\ Verdict(checks) = Fine
        /\ \A i \in 1..4 : \A e \in checks[i] : e.kind # "Ok"
    OBVIOUS
  <1> HIDE DEF checks
  <1>3. \A i \in 1..4 : checks[i] = {}
    BY <1>1, <1>2, FinePasses
  <1>4. QED
    BY <1>1, <1>3

LEMMA IndexPasses ==
  ASSUME NEW rebuild, NEW n, IndexCheck(rebuild, n) = {}
  PROVE  \A r \in DOMAIN rebuild : ~(rebuild[r] >= n)
  BY DEF IndexCheck, Raise

LEMMA PlanAccepted ==
  ASSUME NEW c, NEW present, NEW rebuild, NEW there,
         there = {i \in DOMAIN present : present[i]},
         decode_plan_verdict(c, present, rebuild) = Fine
  PROVE  /\ \A r \in DOMAIN rebuild : ~(rebuild[r] >= c.matrix.rows)
         /\ Cardinality(there) >= CoderK(c)
         /\ IsOk(DecodeMatrix(c, Smallest(there, CoderK(c))))
  <1> DEFINE counted == ShardCount(present, c.matrix.rows)
             indexed == IndexCheck(rebuild, c.matrix.rows)
             enough == MissingCheck(c, there)
             regular == SingularCheck(c, Smallest(there, CoderK(c)))
  <1>1. Verdict(<<counted, indexed, enough>>) = Fine /\ Verdict(<<regular>>) = Fine
    BY DEF decode_plan_verdict
  <1>2. /\ \A e \in counted : e.kind # "Ok"
        /\ \A e \in indexed : e.kind # "Ok"
        /\ \A e \in enough : e.kind # "Ok"
        /\ \A e \in regular : e.kind # "Ok"
    BY CheckKinds, MoreKinds
  <1> HIDE DEF counted, indexed, enough, regular
  <1>3. indexed = {} /\ enough = {} /\ regular = {}
    BY <1>1, <1>2, FineOne, FineThree
  <1>4. QED
    BY <1>3, IndexPasses DEF indexed, enough, regular, MissingCheck, SingularCheck, Raise

LEMMA ApplicationAccepted ==
  ASSUME NEW c, NEW plan, NEW slots, NEW out,
         recover_with_verdict(c, plan, slots, out) = Fine
  PROVE  /\ Count(out) = Count(plan.rebuild)
         /\ \A t \in DOMAIN plan.survivors :
              /\ slots[plan.survivors[t]] # Lost
              /\ Count(slots[plan.survivors[t]]) = FirstLen(out)
         /\ \A r \in DOMAIN out : Count(out[r]) = FirstLen(out)
  <1> DEFINE shards == ShardCount(slots, plan.n)
             outs == ShardCount(out, Count(plan.rebuild))
             len == FirstLen(out)
             looked == SurvivorCheck(plan, slots, len)
             uneven == \E r \in DOMAIN out : Count(out[r]) # len
             even == IF uneven THEN Raise("ShardLength", 0) ELSE {}
  <1>1. Verdict(<<shards, outs>>) = Fine /\ Verdict(<<looked, even>>) = Fine
    BY DEF recover_with_verdict
  <1>2. /\ \A e \in shards : e.kind # "Ok"
        /\ \A e \in outs : e.kind # "Ok"
        /\ \A e \in looked : e.kind # "Ok"
        /\ \A e \in even : e.kind # "Ok"
    BY CheckKinds, MoreKinds
  <1> HIDE DEF shards, outs, looked, even
  <1>3. outs = {} /\ looked = {} /\ even = {}
    BY <1>1, <1>2, FineTwo
  <1>4. ~uneven
    BY <1>3, MoreKinds DEF even
  <1>5. \A t \in DOMAIN plan.survivors :
          slots[plan.survivors[t]] # Lost /\ Count(slots[plan.survivors[t]]) = len
    <2> DEFINE src == PlannedSources(plan, slots)
               bad == {t \in DOMAIN src : src[t] = Lost \/ Count(src[t]) # len}
    <2>1. bad = {}
      BY <1>3 DEF looked, SurvivorCheck, Raise
    <2>2. QED
      BY <2>1 DEF PlannedSources
  <1>6. QED
    BY <1>3, <1>4, <1>5 DEF outs, ShardCount, Raise

PresentIn(slots) == {i \in DOMAIN slots : slots[i] # Lost}

LEMMA RecoverAccepted ==
  ASSUME NEW c, NEW slots, NEW rebuild, NEW out,
         recover_verdict(c, slots, rebuild, out) = Fine
  PROVE  /\ Count(out) = Count(rebuild)
         /\ \A r \in DOMAIN rebuild : ~(rebuild[r] >= c.matrix.rows)
         /\ Cardinality(PresentIn(slots)) >= CoderK(c)
         /\ IsOk(DecodeMatrix(c, Smallest(PresentIn(slots), CoderK(c))))
         /\ \A r \in DOMAIN out :
              Count(out[r]) = Count(slots[Smallest(PresentIn(slots), CoderK(c))[0]])
  <1> DEFINE there == PresentIn(slots)
             n == c.matrix.rows
             survivors == Smallest(there, CoderK(c))
             len == Count(slots[survivors[0]])
             wrong == {r \in DOMAIN out : Count(out[r]) # len}
             shards == ShardCount(slots, n)
             outs == ShardCount(out, Count(rebuild))
             indexed == IndexCheck(rebuild, n)
             enough == MissingCheck(c, there)
             lengths == ShardLength([i \in there |-> slots[i]], len, 0)
             even == IF wrong = {} THEN {} ELSE Raise("ShardLength", rebuild[Min(wrong)])
             regular == SingularCheck(c, survivors)
  <1>1. /\ Verdict(<<shards, outs, indexed, enough>>) = Fine
        /\ Verdict(<<lengths, even, regular>>) = Fine
    BY DEF recover_verdict, PresentIn
  <1>2. /\ \A e \in shards : e.kind # "Ok"
        /\ \A e \in outs : e.kind # "Ok"
        /\ \A e \in indexed : e.kind # "Ok"
        /\ \A e \in enough : e.kind # "Ok"
        /\ \A e \in lengths : e.kind # "Ok"
        /\ \A e \in even : e.kind # "Ok"
        /\ \A e \in regular : e.kind # "Ok"
    BY CheckKinds, MoreKinds
  <1> HIDE DEF shards, outs, indexed, enough, lengths, even, regular
  <1>3. outs = {} /\ indexed = {} /\ enough = {} /\ even = {} /\ regular = {}
    BY <1>1, <1>2, FineThree, FineFour
  <1>4. wrong = {}
    BY <1>3, MoreKinds DEF even
  <1>5. QED
    BY <1>3, <1>4, IndexPasses
       DEF outs, enough, regular, indexed, ShardCount, MissingCheck, SingularCheck, Raise

(***************************************************************************)
(* Codes any k of whose rows suffice.                                      *)
(***************************************************************************)

(* A code that separates: over A, with k columns and p parity rows, a      *)
(* vector that is zero outside J is zero once as many parity rows as J has *)
(* members send it to zero.                                                *)
ParityRows(k, p) == k..(k + p - 1)

Separates(A, k, p) ==
  \A I \in SUBSET ParityRows(k, p), J \in SUBSET Upto(k) :
    Cardinality(I) = Cardinality(J) =>
      \A v \in [Upto(k) -> Byte] :
        /\ \A j \in Upto(k) \ J : v[j] = {}
        /\ \A i \in I : Dot(Upto(k), A.at[i], v) = {}
        => \A j \in J : v[j] = {}

(* Terms that are zero may be left out.                                    *)
LEMMA DotWithin ==
  ASSUME NEW S, NEW T \in SUBSET S, NEW u, NEW w, NEW x, NEW y,
         \A t \in S \ T : x[t] = {}, \A t \in T : u[t] = w[t] /\ x[t] = y[t]
  PROVE  Dot(T, w, y) = Dot(S, u, x)
  <1> DEFINE p == [t \in S |-> mul(u[t], x[t])]
             q == [t \in T |-> mul(w[t], y[t])]
             r == [t \in S |-> IF t \in T THEN q[t] ELSE {}]
  <1>1. \A t \in S : p[t] = r[t]
    BY MulZero
  <1> HIDE DEF p, q
  <1>2. XorAll(T, q) = XorAll(S, r)
    BY XorAllWithin
  <1> HIDE DEF r
  <1>3. XorAll(S, p) = XorAll(S, r)
    BY <1>1, XorAllSame
  <1>4. QED
    BY <1>2, <1>3 DEF p, q, Dot

LEMMA CauchyShape ==
  ASSUME NEW k \in Nat, NEW p \in Nat, check_dims(k, p)
  PROVE  /\ Systematic(cauchy(k, p).ok, k + p, k)
         /\ \A i \in ParityRows(k, p), j \in Upto(k) :
              cauchy(k, p).ok.at[i][j] = inv(XOR(OfNat(i), OfNat(j)))
  <1> DEFINE A == cauchy(k, p).ok
  <1>1. /\ A.rows = k + p /\ A.cols = k
        /\ \A r \in Upto(k + p), c \in Upto(k) :
             A.at[r][c] = IF r < k THEN Delta(r, c) ELSE inv(XOR(OfNat(r), OfNat(c)))
    BY DEF cauchy, Ok, Matrix
  <1> HIDE DEF A
  <1>2. ASSUME NEW r \in Upto(k + p), NEW c \in Upto(k), ~(r < k)
        PROVE  inv(XOR(OfNat(r), OfNat(c))) \in Byte
    <2>1. r \in 0..Order /\ c \in 0..Order /\ r # c
      BY <1>2, NumberLaws DEF check_dims, Upto
    <2>2. OfNat(r) \in Byte /\ OfNat(c) \in Byte /\ OfNat(r) # OfNat(c)
      BY <2>1, NumberLaws DEF OfNat, Byte
    <2>3. QED
      BY <2>2, XorByte, XorDiffers, InverseNonzero
  <1>3. ASSUME NEW r \in Upto(k + p), NEW c \in Upto(k)
        PROVE  A.at[r][c] \in Byte
    BY <1>1, <1>2, DeltaByte
  <1>4. \A i, j \in Upto(k) : i \in Upto(k + p) /\ i < k
    BY DEF Upto
  <1>5. \A i \in ParityRows(k, p) : i \in Upto(k + p) /\ ~(i < k)
    BY DEF ParityRows, Upto
  <1>6. QED
    BY <1>1, <1>3, <1>4, <1>5 DEF Systematic, A

LEMMA CauchySeparates ==
  ASSUME NEW k \in Nat, NEW p \in Nat, check_dims(k, p)
  PROVE  Separates(cauchy(k, p).ok, k, p)
  <1> DEFINE A == cauchy(k, p).ok
             Z == Upto(k + p)
             x == [n \in Z |-> OfNat(n)]
  <1>1. IsFiniteSet(Z)
    BY UptoFinite
  <1>2. x \in [Z -> Byte] /\ \A i, j \in Z : i # j => x[i] # x[j]
    <2>1. \A n \in Z : OfNat(n) \in Byte
      BY DEF OfNat, Byte
    <2>2. Z \subseteq 0..Order
      BY NumberLaws DEF check_dims, Upto
    <2>3. QED
      BY <2>1, <2>2, NumberLaws
  <1>3. \A i \in ParityRows(k, p), j \in Upto(k) :
          A.at[i][j] = inv(XOR(OfNat(i), OfNat(j))) /\ i \in Z /\ j \in Z /\ i \notin Upto(k)
    BY CauchyShape DEF ParityRows, Upto
  <1> HIDE DEF A
  <1>4. SUFFICES ASSUME NEW I \in SUBSET ParityRows(k, p), NEW J \in SUBSET Upto(k),
                        Cardinality(I) = Cardinality(J), NEW v \in [Upto(k) -> Byte],
                        \A j \in Upto(k) \ J : v[j] = {},
                        \A i \in I : Dot(Upto(k), A.at[i], v) = {}
                 PROVE  \A j \in J : v[j] = {}
    BY DEF Separates, A
  <1> DEFINE w == [j \in J |-> v[j]]
  <1>5. I \in SUBSET Z /\ J \in SUBSET (Z \ I)
    <2>1. \A i \in ParityRows(k, p) : i \in Z /\ i \notin Upto(k)
      BY DEF ParityRows, Upto
    <2>2. \A j \in Upto(k) : j \in Z
      BY DEF Upto
    <2> HIDE DEF Z
    <2>3. QED
      BY <2>1, <2>2
  <1>6. ASSUME NEW i \in I
        PROVE  Dot(J, CauchyRow(x, i, J), w) = {}
    <2> DEFINE y == CauchyRow(x, i, J)
    <2>1. \A j \in J : A.at[i][j] = y[j] /\ v[j] = w[j]
      BY <1>3, <1>5 DEF CauchyRow
    <2> HIDE DEF y, w, x
    <2>2. Dot(J, y, w) = Dot(Upto(k), A.at[i], v)
      BY <1>4, <2>1, DotWithin
    <2>3. QED
      BY <1>4, <2>2 DEF y
  <1>7. w \in [J -> Byte]
    BY <1>4
  <1> HIDE DEF x, Z
  <1>8. OnlyZero(I, J, x)
    BY <1>1, <1>2, <1>4, <1>5, CauchyOnlyZero
  <1>9. \A j \in J : w[j] = {}
    BY <1>6, <1>7, <1>8 DEF OnlyZero
  <1>10. QED
    BY <1>9

(* Any k rows of a matrix that separates are inverted.                     *)
LEMMA SelectionInverts ==
  ASSUME NEW k \in Nat, NEW p \in Nat, NEW A, Systematic(A, k + p, k), Separates(A, k, p),
         NEW f \in [Upto(k) -> Upto(k + p)], \A t, u \in Upto(k) : t # u => f[t] # f[u]
  PROVE  IsOk(invert(select_rows(A, k, f)))
  <1> DEFINE S == select_rows(A, k, f)
             R == {f[t] : t \in Upto(k)}
             I == R \cap ParityRows(k, p)
             H == R \cap Upto(k)
             J == Upto(k) \ R
  <1>1. S.rows = k /\ S.cols = k /\ S.at \in Mat(k)
        /\ \A t, j \in Upto(k) : S.at[t][j] = A.at[f[t]][j]
    BY SelectedRows
  <1> HIDE DEF S
  <1>2. Cardinality(I) = Cardinality(J)
    <2>1. IsFiniteSet(Upto(k)) /\ Cardinality(Upto(k)) = k /\ IsFiniteSet(Upto(k + p))
      BY UptoFinite
    <2>2. f \in Bijection(Upto(k), R)
      BY DEF Bijection, Injection, Surjection, IsInjective
    <2>3. IsFiniteSet(R) /\ Cardinality(R) = k
      BY <2>1, <2>2, FS_Bijection DEF ExistsBijection
    <2>4. R \ H = I
      BY DEF ParityRows, Upto
    <2>5. R \cap H = H /\ Upto(k) \cap R = H
      OBVIOUS
    <2> HIDE DEF R, H, I
    <2>6. Cardinality(R \ H) = Cardinality(R) - Cardinality(R \cap H)
      BY <2>3, FS_Difference
    <2>7. Cardinality(Upto(k) \ R) = Cardinality(Upto(k)) - Cardinality(Upto(k) \cap R)
      BY <2>1, FS_Difference
    <2>8. QED
      BY <2>1, <2>3, <2>4, <2>5, <2>6, <2>7
  <1>3. ASSUME NEW v \in [Upto(k) -> Byte], Kills(S.at, k, v)
        PROVE  \A c \in Upto(k) : v[c] = {}
    <2>1. ASSUME NEW t \in Upto(k)
          PROVE  Dot(Upto(k), A.at[f[t]], v) = {}
      <3>1. Dot(Upto(k), S.at[t], v) = {}
        BY <1>3 DEF Kills
      <3>2. Dot(Upto(k), S.at[t], v) = Dot(Upto(k), A.at[f[t]], v)
        BY <1>1, DotSame
      <3>3. QED
        BY <3>1, <3>2
    <2>2. ASSUME NEW c \in H
          PROVE  v[c] = {}
      <3>1. c \in Upto(k) /\ \A t \in Upto(k) : v[t] \in Byte /\ A.at[c][t] = Delta(c, t)
        BY DEF Systematic
      <3> DEFINE u == A.at[c]
      <3> HIDE DEF u
      <3>2. Dot(Upto(k), u, v) = v[c]
        BY <3>1, UptoFinite, DotUnit DEF u
      <3>3. PICK t \in Upto(k) : f[t] = c
        OBVIOUS
      <3>4. QED
        BY <2>1, <3>2, <3>3 DEF u
    <2>3. /\ I \in SUBSET ParityRows(k, p) /\ J \in SUBSET Upto(k)
          /\ \A j \in Upto(k) \ J : v[j] = {}
          /\ \A i \in I : Dot(Upto(k), A.at[i], v) = {}
      BY <2>1, <2>2
    <2> HIDE DEF I, J
    <2>4. \A j \in J : v[j] = {}
      BY <1>2, <2>3 DEF Separates
    <2>5. QED
      BY <2>3, <2>4
  <1>4. Cancels(S.at, k)
    BY <1>3 DEF Cancels
  <1>5. QED
    BY <1>1, <1>4, CancelsInverts DEF S

LEMMA SmallestDiffer ==
  ASSUME NEW S \in SUBSET Nat, IsFiniteSet(S), NEW k \in Nat, k <= Cardinality(S),
         NEW t \in Upto(k), NEW u \in Upto(k), t # u
  PROVE  Smallest(S, k)[t] # Smallest(S, k)[u]
  <1>1. ASSUME NEW s \in Upto(k)
        PROVE  Cardinality(Below(S, Smallest(S, k)[s])) = s
    <2>1. s \in Upto(Cardinality(S))
      BY FS_CardinalityType DEF Upto
    <2>2. \E i \in S : Cardinality({x \in S : x < i}) = s
      BY <2>1, RankExists DEF Below
    <2>3. QED
      BY <2>2 DEF Smallest, Below
  <1>2. QED
    BY <1>1
-----------------------------------------------------------------------------
(* Doubling, the generator's powers, and the recurrence of pq_gen.         *)

LEMMA DoubleByte ==
  ASSUME NEW x \in Byte
  PROVE  double(x) \in Byte
  <1>1. {b + 1 : b \in x \ {Bits - 1}} \in Byte
    BY FieldAssumption DEF Byte, Bit
  <1>2. (IF Bits - 1 \in x THEN Poly ELSE {}) \in Byte
    BY FieldAssumption DEF Byte, Bit
  <1>3. QED
    BY <1>1, <1>2, XorByte DEF double

LEMMA DoubleIsTimes ==
  ASSUME NEW x \in Byte
  PROVE  double(x) = mul(double({0}), x)
  <1>1. {0} \in Byte
    BY ByteFacts
  <1>2. mul(double({0}), x) = double(mul({0}, x))
    BY <1>1, DoublingLaw
  <1>3. QED
    BY <1>2, MulOne

(* Doubling is additive, on bytes and on sums.                             *)
LEMMA DoubleAdditive == Additive([x \in Byte |-> double(x)])
  <1> DEFINE d == double({0})
  <1>1. d \in Byte
    BY ByteFacts, DoubleByte
  <1>2. \A x \in Byte : double(x) = mul(d, x)
    BY DoubleIsTimes
  <1> HIDE DEF d
  <1>3. [x \in Byte |-> double(x)] = [x \in Byte |-> mul(d, x)]
    BY <1>2
  <1>4. QED
    BY <1>1, <1>3, MulAdditive

LEMMA DoubleSum ==
  ASSUME NEW S, IsFiniteSet(S), NEW t, NEW u,
         \A j \in S : t[j] \in Byte /\ u[j] = double(t[j])
  PROVE  XorAll(S, u) = double(XorAll(S, t))
  <1> DEFINE f == [x \in Byte |-> double(x)]
  <1>1. \A j \in S : t[j] \in Byte /\ u[j] = f[t[j]]
    OBVIOUS
  <1>2. f[XorAll(S, t)] = double(XorAll(S, t))
    BY XorAllByte
  <1>3. Additive(f)
    BY DoubleAdditive
  <1> HIDE DEF f
  <1>4. QED
    BY <1>1, <1>2, <1>3, XorAllMapped

(* 2^n, for every n.                                                       *)
Weight(n) == EXP[n % Order]

LEMMA OrderPositive == Order \in Nat \ {0}
  BY GeneratorLaws

LEMMA WeightFacts ==
  ASSUME NEW n \in Nat
  PROVE  /\ Weight(n) \in Byte /\ Weight(n) # {}
         /\ n < Order => Weight(n) = EXP[n]
  <1>1. n % Order \in 0..(Order - 1)
    BY OrderPositive
  <1>2. n < Order => n % Order = n
    BY OrderPositive
  <1>3. QED
    BY <1>1, <1>2, GeneratorLaws DEF Weight

LEMMA WeightZero == Weight(0) = {0}
  <1>1. 0 % Order = 0
    BY OrderPositive
  <1>2. QED
    BY <1>1, GeneratorLaws DEF Weight

LEMMA NextRemainder ==
  ASSUME NEW n \in Nat, NEW m \in Nat \ {0}
  PROVE  ((n % m) + 1) % m = (n + 1) % m
  <1> DEFINE q == n \div m
             r == n % m
  <1>1. n = q * m + r /\ q \in Nat /\ r \in Nat /\ r < m
    OBVIOUS
  <1> HIDE DEF q, r
  <1>2. CASE r + 1 < m
    <2>1. q \in Upto(q + 1) /\ r + 1 \in Upto(m) /\ q + 1 \in Nat
      BY <1>1, <1>2 DEF Upto
    <2>2. (q * m + (r + 1)) % m = r + 1
      BY <2>1, PositionOf
    <2>3. n + 1 = q * m + (r + 1) /\ (r + 1) % m = r + 1
      BY <1>1, <1>2
    <2>4. QED
      BY <2>2, <2>3 DEF r
  <1>3. CASE r + 1 = m
    <2>1. q + 1 \in Upto(q + 2) /\ 0 \in Upto(m) /\ q + 2 \in Nat
      BY <1>1 DEF Upto
    <2>2. ((q + 1) * m + 0) % m = 0
      BY <2>1, PositionOf
    <2>3. (q + 1) * m = q * m + m
      BY <1>1
    <2>4. n + 1 = (q + 1) * m + 0 /\ (r + 1) % m = 0
      BY <1>1, <1>3, <2>3
    <2>5. QED
      BY <2>2, <2>4 DEF r
  <1>4. QED
    BY <1>1, <1>2, <1>3

LEMMA WeightNext ==
  ASSUME NEW n \in Nat
  PROVE  double(Weight(n)) = Weight(n + 1)
  <1>1. n % Order \in 0..(Order - 1)
    BY OrderPositive
  <1>2. double(EXP[n % Order]) = EXP[((n % Order) + 1) % Order]
    BY <1>1, GeneratorLaws
  <1>3. ((n % Order) + 1) % Order = (n + 1) % Order
    BY OrderPositive, NextRemainder
  <1>4. QED
    BY <1>2, <1>3 DEF Weight

(* The sum of source m times 2^(m - j), for the sources from j on.         *)
Weighed(t, j, n) ==
  XorAll(j..(n - 1), [m \in j..(n - 1) |-> mul(Weight(m - j), t[m])])

LEMMA WeighedStep ==
  ASSUME NEW n \in Nat, NEW j \in Nat, j < n, NEW t,
         \A m \in j..(n - 1) : t[m] \in Byte
  PROVE  Weighed(t, j, n) = XOR(t[j], double(Weighed(t, j + 1, n)))
  <1> DEFINE S == (j + 1)..(n - 1)
             u == [m \in j..(n - 1) |-> mul(Weight(m - j), t[m])]
             w == [m \in S |-> mul(Weight(m - (j + 1)), t[m])]
  <1>1. IsFiniteSet(S) /\ j \notin S /\ S \cup {j} = j..(n - 1)
    <2>1. IsFiniteSet(S)
      BY FS_Interval
    <2>2. QED
      BY <2>1
  <1>2. \A m \in S : w[m] \in Byte /\ u[m] = double(w[m])
    <2> SUFFICES ASSUME NEW m \in S
                 PROVE  mul(Weight(m - (j + 1)), t[m]) \in Byte
                        /\ mul(Weight(m - j), t[m]) = double(mul(Weight(m - (j + 1)), t[m]))
      OBVIOUS
    <2>1. m - (j + 1) \in Nat /\ (m - (j + 1)) + 1 = m - j /\ t[m] \in Byte
      OBVIOUS
    <2> DEFINE a == Weight(m - (j + 1))
    <2>2. a \in Byte /\ double(a) = Weight(m - j)
      BY <2>1, WeightFacts, WeightNext
    <2> HIDE DEF a
    <2>3. mul(double(a), t[m]) = double(mul(a, t[m])) /\ mul(a, t[m]) \in Byte
      BY <2>1, <2>2, DoublingLaw, MulByte
    <2>4. QED
      BY <2>2, <2>3 DEF a
  <1>3. u[j] = t[j] /\ t[j] \in Byte
    <2>1. j - j = 0 /\ j \in j..(n - 1)
      OBVIOUS
    <2>2. u[j] = mul(Weight(0), t[j])
      BY <2>1
    <2>3. QED
      BY <2>1, <2>2, WeightZero, MulOne
  <1>4. Weighed(t, j, n) = XorAll(S \cup {j}, u) /\ Weighed(t, j + 1, n) = XorAll(S, w)
    BY <1>1 DEF Weighed
  <1> HIDE DEF S, u, w
  <1>5. XorAll(S \cup {j}, u) = XOR(XorAll(S, u), u[j])
    BY <1>1, <1>3, XorAllInsert
  <1>6. XorAll(S, u) = double(XorAll(S, w))
    BY <1>1, <1>2, DoubleSum
  <1>7. QED
    BY <1>3, <1>4, <1>5, <1>6, XorCommutes

LEMMA WeighedLast ==
  ASSUME NEW n \in Nat \ {0}, NEW t, t[n - 1] \in Byte
  PROVE  Weighed(t, n - 1, n) = t[n - 1]
  <1>1. (n - 1)..(n - 1) = {n - 1} /\ (n - 1) - (n - 1) = 0 /\ IsFiniteSet({n - 1})
    <2>1. IsFiniteSet({n - 1})
      BY FS_Singleton
    <2>2. QED
      BY <2>1
  <1> DEFINE u == [m \in (n - 1)..(n - 1) |-> mul(Weight(m - (n - 1)), t[m])]
  <1>2. u[n - 1] = t[n - 1]
    BY <1>1, WeightZero, MulOne
  <1>3. Weighed(t, n - 1, n) = XorAll({n - 1}, u)
    BY <1>1 DEF Weighed
  <1> HIDE DEF u
  <1>4. XorAll({n - 1}, u) = u[n - 1]
    BY <1>1, <1>2, XorAllOne
  <1>5. QED
    BY <1>2, <1>3, <1>4

(* The recurrence, from the last source down to j.                         *)
LEMMA RecurrenceWeighs ==
  ASSUME NEW n \in Nat \ {0}, NEW t, \A m \in Upto(n) : t[m] \in Byte, NEW h,
         \A j \in Upto(n) :
           h[j] = IF j = n - 1 THEN t[j] ELSE XOR(t[j], double(h[j + 1]))
  PROVE  \A j \in Upto(n) : h[j] = Weighed(t, j, n)
  <1> DEFINE G == {d \in Nat : d < n => h[n - 1 - d] = Weighed(t, n - 1 - d, n)}
  <1>1. 0 \in G
    <2>1. n - 1 \in Upto(n) /\ n - 1 - 0 = n - 1
      BY DEF Upto
    <2>2. QED
      BY <2>1, WeighedLast
  <1>2. ASSUME NEW d \in Upto(n - 1), d \in G
        PROVE  d + 1 \in G
    <2>1. d \in Nat /\ d + 1 < n
      BY DEF Upto
    <2> DEFINE j == n - 1 - (d + 1)
    <2>2. j \in Nat /\ j < n /\ j # n - 1 /\ j \in Upto(n) /\ j + 1 = n - 1 - d
      BY <2>1 DEF Upto
    <2> HIDE DEF j
    <2>3. h[j + 1] = Weighed(t, j + 1, n)
      BY <1>2, <2>1, <2>2
    <2>4. \A m \in j..(n - 1) : t[m] \in Byte
      BY <2>2 DEF Upto
    <2>5. Weighed(t, j, n) = XOR(t[j], double(Weighed(t, j + 1, n)))
      BY <2>2, <2>4, WeighedStep
    <2>6. h[j] = Weighed(t, j, n)
      BY <2>2, <2>3, <2>5
    <2>7. QED
      BY <2>1, <2>6 DEF j
  <1> HIDE DEF G
  <1>3. n - 1 \in Nat
    OBVIOUS
  <1>4. \A d \in 0..(n - 1) : d \in G
    BY <1>1, <1>2, <1>3, UpInduction
  <1>5. ASSUME NEW j \in Upto(n)
        PROVE  h[j] = Weighed(t, j, n)
    <2>1. n - 1 - j \in 0..(n - 1) /\ n - 1 - (n - 1 - j) = j /\ n - 1 - j < n
      BY DEF Upto
    <2>2. n - 1 - j \in G
      BY <1>4, <2>1
    <2>3. QED
      BY <2>1, <2>2 DEF G
  <1>6. QED
    BY <1>5

(* A recurrence from the last source down is a function that satisfies its *)
(* equation.                                                               *)
LEMMA RecurrenceExists ==
  ASSUME NEW n \in Nat \ {0}, NEW t, \A m \in Upto(n) : t[m] \in Byte
  PROVE  \E f : f = [j \in Upto(n) |->
                       IF j = n - 1 THEN t[j] ELSE XOR(t[j], double(f[j + 1]))]
  <1> DEFINE f == [j \in Upto(n) |-> Weighed(t, j, n)]
  <1>1. ASSUME NEW j \in Upto(n)
        PROVE  Weighed(t, j, n) = IF j = n - 1 THEN t[j] ELSE XOR(t[j], double(f[j + 1]))
    <2>1. CASE j = n - 1
      BY <2>1, WeighedLast
    <2>2. CASE j # n - 1
      <3>1. j \in Nat /\ j < n /\ j + 1 \in Upto(n) /\ \A m \in j..(n - 1) : m \in Upto(n)
        BY <2>2 DEF Upto
      <3>2. f[j + 1] = Weighed(t, j + 1, n)
        BY <3>1
      <3>3. QED
        BY <2>2, <3>1, <3>2, WeighedStep
    <2>3. QED
      BY <2>1, <2>2
  <1>2. QED
    BY <1>1

(* The terms of a sum under other names: f takes S onto T, one to one.     *)
LEMMA XorAllRenamed ==
  ASSUME NEW S, IsFiniteSet(S), NEW T, NEW f \in [S -> T],
         \A i, j \in S : f[i] = f[j] => i = j,
         \A y \in T : \E i \in S : f[i] = y,
         NEW t, NEW u, \A i \in S : t[i] = u[f[i]]
  PROVE  XorAll(T, u) = XorAll(S, t)
  <1>1. ASSUME NEW b \in Bit
        PROVE  Cardinality(Having(T, u, b)) = Cardinality(Having(S, t, b))
    <2> DEFINE H == Having(S, t, b)
               G == Having(T, u, b)
               g == [i \in H |-> f[i]]
    <2>1. H \subseteq S /\ G \subseteq T /\ \A i \in S : i \in H <=> f[i] \in G
      BY DEF Having
    <2>2. IsFiniteSet(H)
      BY <2>1, FS_Subset
    <2> HIDE DEF H, G
    <2>3. g \in Bijection(H, G)
      <3>1. g \in [H -> G]
        BY <2>1
      <3>2. \A i, j \in H : g[i] = g[j] => i = j
        BY <2>1
      <3>3. \A y \in G : \E i \in H : g[i] = y
        BY <2>1
      <3>4. QED
        BY <3>1, <3>2, <3>3 DEF Bijection, Injection, Surjection, IsInjective
    <2>4. Cardinality(H) = Cardinality(G)
      BY <2>2, <2>3, FS_Bijection DEF ExistsBijection
    <2>5. QED
      BY <2>4 DEF H, G
  <1>2. \A b \in Bit : b \in XorAll(T, u) <=> b \in XorAll(S, t)
    BY <1>1, XorAllHas
  <1>3. QED
    BY <1>2 DEF XorAll
-----------------------------------------------------------------------------
(* Powers.                                                                 *)

(* A list that starts with 1 and is multiplied by g from entry to entry.   *)
PowersUpTo(f, g, n) ==
  \A i \in Upto(n) : f[i] \in Byte /\ f[i] = IF i = 0 THEN {0} ELSE mul(f[i - 1], g)

LEMMA PowersAgree ==
  ASSUME NEW g, NEW m \in Nat, NEW n \in Nat, NEW f, PowersUpTo(f, g, m), NEW h, PowersUpTo(h, g, n),
         NEW i \in Upto(m), i \in Upto(n)
  PROVE  f[i] = h[i]
  <1> DEFINE G == {x \in 0..i : f[x] = h[x]}
  <1>1. i \in Nat /\ \A x \in 0..i : x \in Upto(m) /\ x \in Upto(n)
    BY DEF Upto
  <1>2. 0 \in G
    BY <1>1 DEF PowersUpTo
  <1>3. ASSUME NEW x \in Upto(i), x \in G
        PROVE  x + 1 \in G
    <2>1. x \in Nat /\ x + 1 \in 0..i /\ x + 1 # 0 /\ (x + 1) - 1 = x
      BY <1>1 DEF Upto
    <2>2. f[x + 1] = mul(f[x], g) /\ h[x + 1] = mul(h[x], g)
      BY <1>1, <2>1 DEF PowersUpTo
    <2>3. QED
      BY <1>3, <2>1, <2>2
  <1> HIDE DEF G
  <1>4. i \in G
    BY <1>1, <1>2, <1>3, UpInduction
  <1>5. QED
    BY <1>4 DEF G

LEMMA PowersExist ==
  ASSUME NEW g \in Byte, NEW n \in Nat
  PROVE  \E f : f = [i \in 0..n |-> IF i = 0 THEN {0} ELSE mul(f[i - 1], g)]
                /\ \A i \in 0..n : f[i] \in Byte
  <1> DEFINE step == [i \in Upto(n) |-> [x \in Byte |-> mul(x, g)]]
  <1>1. Steps(step, n, Byte)
    BY MulByte DEF Steps
  <1>2. \A i \in Upto(n) : \A x \in Byte : step[i][x] = mul(x, g)
    OBVIOUS
  <1> HIDE DEF step
  <1>3. PICK f \in [0..n -> Byte] : Follows(f, {0}, step, n)
    BY <1>1, ByteFacts, RecursionExists
  <1>4. ASSUME NEW i \in 0..n PROVE f[i] = IF i = 0 THEN {0} ELSE mul(f[i - 1], g)
    <2>1. CASE i = 0
      BY <1>3, <2>1 DEF Follows
    <2>2. CASE i # 0
      <3>1. i - 1 \in Upto(n) /\ (i - 1) + 1 = i /\ i - 1 \in 0..n
        BY <2>2 DEF Upto
      <3>2. f[(i - 1) + 1] = step[i - 1][f[i - 1]] /\ f[i - 1] \in Byte
        BY <1>3, <3>1 DEF Follows
      <3>3. QED
        BY <1>2, <2>2, <3>1, <3>2
    <2>3. QED
      BY <2>1, <2>2
  <1>5. f = [i \in 0..n |-> IF i = 0 THEN {0} ELSE mul(f[i - 1], g)]
    BY <1>3, <1>4
  <1>6. QED
    BY <1>3, <1>5

LEMMA PowerIs ==
  ASSUME NEW g \in Byte, NEW n \in Nat, NEW i \in Upto(n), NEW f, PowersUpTo(f, g, n)
  PROVE  Power(g, i) = f[i] /\ Power(g, i) \in Byte
  <1>1. i \in Nat /\ i \in Upto(i + 1)
    BY DEF Upto
  <1> DEFINE Is(h) == h = [x \in 0..i |-> IF x = 0 THEN {0} ELSE mul(h[x - 1], g)]
             h == CHOOSE h : Is(h)
  <1>2. Power(g, i) = h[i]
    BY DEF Power
  <1>3. PICK e : Is(e) /\ \A x \in 0..i : e[x] \in Byte
    BY <1>1, PowersExist
  <1> HIDE DEF Is
  <1>4. Is(h)
    BY <1>3
  <1> HIDE DEF h
  <1>5. \A x \in 0..i : h[x] = (IF x = 0 THEN {0} ELSE mul(h[x - 1], g))
    BY <1>4 DEF Is
  <1>6. \A x \in 0..i : h[x] \in Byte
    <2> DEFINE G == {x \in 0..i : h[x] \in Byte}
    <2>1. 0 \in G
      BY <1>1, <1>5, ByteFacts
    <2>2. ASSUME NEW x \in Upto(i), x \in G PROVE x + 1 \in G
      <3>1. x \in Nat /\ x + 1 \in 0..i /\ x + 1 # 0 /\ (x + 1) - 1 = x
        BY <1>1 DEF Upto
      <3>2. h[x + 1] = mul(h[x], g) /\ h[x] \in Byte
        BY <1>5, <2>2, <3>1
      <3>3. QED
        BY <3>1, <3>2, MulByte
    <2>3. \A x \in 0..i : x \in G
      <3> HIDE DEF G
      <3>1. QED
        BY <1>1, <2>1, <2>2, UpInduction
    <2>4. QED
      BY <2>3
  <1>7. PowersUpTo(h, g, i + 1)
    <2>1. \A x \in Upto(i + 1) : x \in 0..i
      BY <1>1 DEF Upto
    <2>2. QED
      BY <1>5, <1>6, <2>1 DEF PowersUpTo
  <1>8. i + 1 \in Nat
    BY <1>1
  <1>9. h[i] = f[i]
    BY <1>1, <1>7, <1>8, PowersAgree
  <1>10. h[i] \in Byte
    BY <1>1, <1>6
  <1>11. QED
    BY <1>2, <1>9, <1>10

(* The powers of 2 multiply by adding their exponents.                     *)
LEMMA WeightTimes ==
  ASSUME NEW m \in Nat, NEW n \in Nat
  PROVE  mul(Weight(m), Weight(n)) = Weight(m + n)
  <1> DEFINE G == {x \in 0..n : mul(Weight(m), Weight(x)) = Weight(m + x)}
  <1>1. 0 \in G
    <2>1. Weight(m) \in Byte /\ m + 0 = m
      BY WeightFacts
    <2>2. QED
      BY <2>1, WeightZero, MulOne
  <1>2. ASSUME NEW x \in Upto(n), x \in G
        PROVE  x + 1 \in G
    <2>1. x \in Nat /\ x + 1 \in 0..n /\ m + x \in Nat /\ (m + x) + 1 = m + (x + 1)
      BY DEF Upto
    <2>2. Weight(m) \in Byte /\ Weight(x) \in Byte /\ Weight(x + 1) \in Byte
      BY <2>1, WeightFacts
    <2>3. Weight(x + 1) = double(Weight(x)) /\ Weight((m + x) + 1) = double(Weight(m + x))
      BY <2>1, WeightNext
    <2>4. mul(Weight(m), Weight(x + 1)) = mul(Weight(x + 1), Weight(m))
      BY <2>2, MulByte
    <2>5. mul(double(Weight(x)), Weight(m)) = double(mul(Weight(x), Weight(m)))
      BY <2>2, DoublingLaw
    <2>6. mul(Weight(x), Weight(m)) = mul(Weight(m), Weight(x))
      BY <2>2, MulByte
    <2>7. mul(Weight(m), Weight(x)) = Weight(m + x)
      BY <1>2
    <2>8. QED
      BY <2>1, <2>3, <2>4, <2>5, <2>6, <2>7
  <1> HIDE DEF G
  <1>3. n \in G
    BY <1>1, <1>2, UpInduction
  <1>4. QED
    BY <1>3 DEF G

LEMMA PowerOfWeight ==
  ASSUME NEW n \in Nat, NEW i \in Nat
  PROVE  Power(Weight(n), i) = Weight(n * i)
  <1> DEFINE f == [x \in Upto(i + 1) |-> Weight(n * x)]
  <1>1. ASSUME NEW x \in Upto(i + 1)
        PROVE  f[x] \in Byte /\ f[x] = IF x = 0 THEN {0} ELSE mul(f[x - 1], Weight(n))
    <2>1. x \in Nat /\ n * x \in Nat /\ f[x] = Weight(n * x)
      BY DEF Upto
    <2>2. f[x] \in Byte
      BY <2>1, WeightFacts
    <2>3. CASE x = 0
      <3>1. n * x = 0
        BY <2>3
      <3>2. QED
        BY <2>1, <2>2, <2>3, <3>1, WeightZero
    <2>4. CASE x # 0
      <3>1. x - 1 \in Upto(i + 1) /\ x - 1 \in Nat /\ n * (x - 1) \in Nat
        BY <2>1, <2>4 DEF Upto
      <3>2. f[x - 1] = Weight(n * (x - 1))
        BY <3>1
      <3>3. mul(Weight(n * (x - 1)), Weight(n)) = Weight(n * (x - 1) + n)
        BY <3>1, WeightTimes
      <3>4. n * (x - 1) + n = n * x
        BY <2>1
      <3>5. QED
        BY <2>1, <2>2, <2>4, <3>2, <3>3, <3>4
    <2>5. QED
      BY <2>3, <2>4
  <1>2. i \in Upto(i + 1) /\ i + 1 \in Nat
    BY DEF Upto
  <1>3. f[i] = Weight(n * i)
    BY <1>2
  <1> HIDE DEF f
  <1>4. PowersUpTo(f, Weight(n), i + 1)
    BY <1>1 DEF PowersUpTo
  <1>5. Weight(n) \in Byte
    BY WeightFacts
  <1>6. QED
    BY <1>2, <1>3, <1>4, <1>5, PowerIs

(* The number 2 is the generator, in any field with room for a code.       *)
LEMMA TwoIsWeight ==
  ASSUME Order >= 2
  PROVE  OfNat(2) = Weight(1)
  <1>1. Bits \in Nat \ {0} /\ Powers(Bits) /\ 2^Bits = Order + 1 /\ Order \in Nat
    BY OrderIs, FieldAssumption, PowersOfBits
  <1>2. 2^0 = 1 /\ 2^(0 + 1) = 2 * 2^0
    <2>1. 0 \in 0..(Bits - 1)
      BY <1>1
    <2>2. QED
      BY <1>1, <2>1 DEF Powers
  <1>3. 2^1 = 2
    BY <1>2
  <1>4. Bits >= 2
    <2>1. ASSUME Bits = 1 PROVE FALSE
      <3>1. 2^Bits = 2^1
        BY <2>1
      <3>2. Order + 1 = 2
        BY <1>1, <1>3, <3>1
      <3>3. QED
        BY <1>1, <3>2
    <2>2. QED
      BY <1>1, <2>1
  <1>5. ASSUME NEW b \in Bit
        PROVE  (2 \div 2^b) % 2 = 1 <=> b = 1
    <2>1. CASE b = 0
      <3>1. (2 \div 1) % 2 = 0
        OBVIOUS
      <3>2. QED
        BY <2>1, <3>1, <1>2
    <2>2. CASE b = 1
      <3>1. (2 \div 2) % 2 = 1
        OBVIOUS
      <3>2. QED
        BY <2>2, <3>1, <1>3
    <2>3. CASE b # 0 /\ b # 1
      <3>1. b - 2 \in Nat /\ 2 \in Nat /\ (b - 2) + 2 = b /\ (b - 2) + 2 <= Bits /\ Bits \in Nat
        BY <1>1, <2>3 DEF Bit
      <3>2. 2^((b - 2) + 2) = 2^(b - 2) * 2^2
        BY <1>1, <3>1, PowerSum
      <3>3. 2^(1 + 1) = 2 * 2^1
        <4>1. 1 \in 0..(Bits - 1)
          BY <1>1, <1>4
        <4>2. QED
          BY <1>1, <4>1 DEF Powers
      <3>4. 2^2 = 4
        BY <1>3, <3>3
      <3>5. 2^(b - 2) \in Nat \ {0}
        <4>1. b - 2 \in 0..Bits
          BY <3>1
        <4>2. QED
          BY <1>1, <3>1, <4>1, PowerNat
      <3> DEFINE h == 2^(b - 2)
                 g == 2^b
      <3>6. g = h * 4 /\ h \in Nat \ {0}
        BY <3>1, <3>2, <3>4, <3>5
      <3> HIDE DEF h, g
      <3>7. g \in Nat /\ g > 2
        BY <3>6
      <3>8. 2 \div g = 0
        BY <3>7
      <3>9. QED
        BY <2>3, <3>8 DEF g
    <2>4. QED
      BY <2>1, <2>2, <2>3
  <1>6. 1 \in Bit
    BY <1>1, <1>4 DEF Bit
  <1>7. OfNat(2) = {1}
    BY <1>5, <1>6 DEF OfNat
  <1>8. double({0}) = {1}
    <2>1. Bits - 1 \notin {0} /\ {b + 1 : b \in {0} \ {Bits - 1}} = {1}
      BY <1>1, <1>4
    <2>2. QED
      BY <2>1, XorZero DEF double
  <1>9. Weight(0 + 1) = double(Weight(0))
    BY WeightNext
  <1>10. QED
    BY <1>7, <1>8, <1>9, WeightZero

(* The entries of a Vandermonde matrix are powers of 2.                    *)
LEMMA VandermondeShape ==
  ASSUME NEW k \in Nat, NEW p \in Nat, check_dims(k, p)
  PROVE  /\ Systematic(vandermonde(k, p), k + p, k)
         /\ \A i \in ParityRows(k, p), j \in Upto(k) :
              vandermonde(k, p).at[i][j] = Weight((i - k) * j)
  <1> DEFINE A == vandermonde(k, p)
  <1>1. /\ A.rows = k + p /\ A.cols = k
        /\ \A r \in Upto(k + p), c \in Upto(k) :
             A.at[r][c] = IF r < k THEN Delta(r, c) ELSE Power(Power(OfNat(2), r - k), c)
    BY DEF vandermonde, Matrix
  <1> HIDE DEF A
  <1>2. Order >= 2
    BY OrderIs DEF check_dims
  <1>3. ASSUME NEW r \in Upto(k + p), NEW c \in Upto(k), ~(r < k)
        PROVE  A.at[r][c] = Weight((r - k) * c) /\ Weight((r - k) * c) \in Byte
    <2>1. r - k \in Nat /\ c \in Nat /\ 1 \in Nat
      BY <1>3 DEF Upto
    <2>2. (r - k) * c \in Nat /\ 1 * (r - k) = r - k
      BY <2>1
    <2>3. Power(Weight(1), r - k) = Weight(1 * (r - k))
      BY <2>1, PowerOfWeight
    <2>4. Power(Weight(r - k), c) = Weight((r - k) * c)
      BY <2>1, PowerOfWeight
    <2>5. A.at[r][c] = Power(Power(OfNat(2), r - k), c)
      BY <1>1, <1>3
    <2>6. Weight((r - k) * c) \in Byte
      BY <2>2, WeightFacts
    <2>7. QED
      BY <1>2, <2>2, <2>3, <2>4, <2>5, <2>6, TwoIsWeight
  <1>4. ASSUME NEW r \in Upto(k + p), NEW c \in Upto(k)
        PROVE  A.at[r][c] \in Byte
    BY <1>1, <1>3, DeltaByte
  <1>5. \A i, j \in Upto(k) : i \in Upto(k + p) /\ i < k
    BY DEF Upto
  <1>6. \A i \in ParityRows(k, p) : i \in Upto(k + p) /\ ~(i < k)
    BY DEF ParityRows, Upto
  <1>7. QED
    BY <1>1, <1>3, <1>4, <1>5, <1>6 DEF Systematic, A

-----------------------------------------------------------------------------
(* Square systems: only zero is sent to zero by all the rows; and every    *)
(* right-hand side has a solution.                                         *)
OnlyZeroSolves(I, J, m) ==
  \A v \in [J -> Byte] : (\A i \in I : Dot(J, m[i], v) = {}) => \A j \in J : v[j] = {}

AllSolved(I, J, m) ==
  \A y \in [I -> Byte] : \E v \in [J -> Byte] : \A i \in I : Dot(J, m[i], v) = y[i]

LEMMA SameWhenZero ==
  ASSUME NEW x, NEW y, XOR(x, y) = {}
  PROVE  x = y
  BY DEF XOR, SymDiff

LEMMA MulSwaps ==
  ASSUME NEW a \in Byte, NEW b \in Byte, NEW x \in Byte
  PROVE  mul(a, mul(b, x)) = mul(b, mul(a, x))
  <1>1. mul(mul(a, b), x) = mul(a, mul(b, x)) /\ mul(mul(b, a), x) = mul(b, mul(a, x))
    BY MulAssociates
  <1>2. mul(a, b) = mul(b, a)
    BY MulByte
  <1>3. QED
    BY <1>1, <1>2

(* A square system that only zero solves has a solution for every right-   *)
(* hand side: bytes are finite, and a linear map that is one to one is     *)
(* onto.                                                                   *)
LEMMA VectorsFinite ==
  ASSUME NEW J, IsFiniteSet(J)
  PROVE  IsFiniteSet([J -> Byte])
  <1> DEFINE V == [J -> Byte]
             e == [v \in V |-> {s \in J \X Bit : s[2] \in v[s[1]]}]
  <1>1. e \in [V -> SUBSET (J \X Bit)]
    OBVIOUS
  <1>2. ASSUME NEW v \in V, NEW w \in V, e[v] = e[w]
        PROVE  v = w
    <2>1. ASSUME NEW j \in J
          PROVE  v[j] = w[j]
      <3>1. v[j] \subseteq Bit /\ w[j] \subseteq Bit
        BY DEF Byte
      <3>2. \A b \in Bit : <<j, b>> \in e[v] <=> b \in v[j]
        OBVIOUS
      <3>3. \A b \in Bit : <<j, b>> \in e[w] <=> b \in w[j]
        OBVIOUS
      <3> HIDE DEF e
      <3>4. QED
        BY <1>2, <3>1, <3>2, <3>3
    <2>2. QED
      BY <2>1
  <1>3. IsFiniteSet(SUBSET (J \X Bit))
    <2>1. IsFiniteSet(J \X Bit)
      BY BitFinite, FS_Product
    <2>2. QED
      BY <2>1, FS_SUBSET
  <1> HIDE DEF e
  <1>4. e \in Injection(V, SUBSET (J \X Bit))
    BY <1>1, <1>2 DEF Injection, IsInjective
  <1> HIDE DEF V
  <1>5. IsFiniteSet(V)
    BY <1>3, <1>4, FS_Injection
  <1>6. QED
    BY <1>5 DEF V

LEMMA VectorsAsMany ==
  ASSUME NEW I, IsFiniteSet(I), NEW J, IsFiniteSet(J), Cardinality(I) = Cardinality(J)
  PROVE  IsFiniteSet([I -> Byte]) /\ Cardinality([I -> Byte]) = Cardinality([J -> Byte])
  <1>1. PICK f : f \in Bijection(I, J)
    BY FS_SameCardinalityBij DEF ExistsBijection
  <1>2. /\ f \in [I -> J]
        /\ \A i, l \in I : f[i] = f[l] => i = l
        /\ \A j \in J : \E i \in I : f[i] = j
    BY <1>1 DEF Bijection, Injection, Surjection, IsInjective
  <1> DEFINE V == [J -> Byte]
             U == [I -> Byte]
             e == [v \in V |-> [i \in I |-> v[f[i]]]]
  <1>3. e \in [V -> U]
    BY <1>2
  <1>4. ASSUME NEW v \in V, NEW w \in V, e[v] = e[w]
        PROVE  v = w
    <2>1. ASSUME NEW j \in J
          PROVE  v[j] = w[j]
      <3>1. PICK i \in I : f[i] = j
        BY <1>2
      <3>2. e[v][i] = v[j] /\ e[w][i] = w[j]
        BY <3>1
      <3> HIDE DEF e
      <3>3. QED
        BY <1>4, <3>2
    <2>2. QED
      BY <2>1
  <1>5. ASSUME NEW u \in U
        PROVE  \E v \in V : e[v] = u
    <2> DEFINE g == [j \in J |-> CHOOSE i \in I : f[i] = j]
               v == [j \in J |-> u[g[j]]]
    <2>1. \A j \in J : g[j] \in I /\ f[g[j]] = j
      BY <1>2
    <2>2. \A i \in I : g[f[i]] = i
      BY <1>2, <2>1
    <2> HIDE DEF g
    <2>3. v \in V
      BY <2>1
    <2>4. \A i \in I : v[f[i]] = u[i]
      BY <1>2, <2>2
    <2>5. e[v] = [i \in I |-> v[f[i]]]
      BY <2>3
    <2> HIDE DEF v, e
    <2>6. [i \in I |-> v[f[i]]] = u
      BY <2>4
    <2>7. QED
      BY <2>3, <2>5, <2>6
  <1>6. IsFiniteSet(V)
    BY VectorsFinite
  <1> HIDE DEF e
  <1>7. e \in Bijection(V, U)
    BY <1>3, <1>4, <1>5 DEF Bijection, Injection, Surjection, IsInjective
  <1>8. ExistsBijection(V, U)
    BY <1>7 DEF ExistsBijection
  <1> HIDE DEF V, U
  <1>9. IsFiniteSet(U) /\ Cardinality(U) = Cardinality(V)
    BY <1>6, <1>8, FS_Bijection
  <1>10. QED
    BY <1>9 DEF V, U

LEMMA DotXor ==
  ASSUME NEW J, IsFiniteSet(J), NEW u, Bytes(J, u), NEW v, Bytes(J, v), NEW w, Bytes(J, w),
         NEW x, \A j \in J : x[j] = XOR(v[j], w[j])
  PROVE  Dot(J, u, x) = XOR(Dot(J, u, v), Dot(J, u, w))
  <1> DEFINE a == [j \in J |-> mul(u[j], v[j])]
             b == [j \in J |-> mul(u[j], w[j])]
             c == [j \in J |-> mul(u[j], x[j])]
  <1>1. ASSUME NEW j \in J
        PROVE  a[j] \in Byte /\ b[j] \in Byte /\ c[j] = XOR(a[j], b[j])
    <2>1. u[j] \in Byte /\ v[j] \in Byte /\ w[j] \in Byte
      BY DEF Bytes
    <2>2. a[j] = mul(u[j], v[j]) /\ b[j] = mul(u[j], w[j]) /\ c[j] = mul(u[j], XOR(v[j], w[j]))
      OBVIOUS
    <2>3. mul(u[j], XOR(v[j], w[j])) = XOR(mul(u[j], v[j]), mul(u[j], w[j]))
      <3>1. XOR(v[j], w[j]) \in Byte
        BY <2>1, XorByte
      <3>2. mul(XOR(v[j], w[j]), u[j]) = XOR(mul(v[j], u[j]), mul(w[j], u[j]))
        BY <2>1, MulDistributes
      <3>3. /\ mul(u[j], XOR(v[j], w[j])) = mul(XOR(v[j], w[j]), u[j])
            /\ mul(u[j], v[j]) = mul(v[j], u[j])
            /\ mul(u[j], w[j]) = mul(w[j], u[j])
        BY <2>1, <3>1, MulByte
      <3>4. QED
        BY <3>2, <3>3
    <2>4. mul(u[j], v[j]) \in Byte /\ mul(u[j], w[j]) \in Byte
      BY <2>1, MulByte
    <2> HIDE DEF a, b, c
    <2>5. QED
      BY <2>2, <2>3, <2>4
  <1> HIDE DEF a, b, c
  <1>2. XorAll(J, c) = XOR(XorAll(J, a), XorAll(J, b))
    BY <1>1, XorAllXor
  <1>3. QED
    BY <1>2 DEF a, b, c, Dot

LEMMA InjectiveIsOnto ==
  ASSUME NEW I, IsFiniteSet(I), NEW J, IsFiniteSet(J), Cardinality(I) = Cardinality(J),
         NEW m, Entries(I, J, m), OnlyZeroSolves(I, J, m)
  PROVE  AllSolved(I, J, m)
  <1> DEFINE V == [J -> Byte]
             U == [I -> Byte]
             F == [v \in V |-> [i \in I |-> Dot(J, m[i], v)]]
  <1>1. \A v \in V : \A i \in I : F[v][i] = Dot(J, m[i], v)
    OBVIOUS
  <1>2. F \in [V -> U]
    <2>1. \A v \in V, i \in I : Dot(J, m[i], v) \in Byte
      BY DotByte
    <2>2. QED
      BY <2>1
  <1> HIDE DEF F
  <1>3. ASSUME NEW v \in V, NEW w \in V, F[v] = F[w]
        PROVE  v = w
    <2> DEFINE x == [j \in J |-> XOR(v[j], w[j])]
    <2>1. x \in V
      BY XorByte
    <2>2. \A j \in J : x[j] = XOR(v[j], w[j])
      OBVIOUS
    <2> HIDE DEF x
    <2>3. ASSUME NEW i \in I
          PROVE  Dot(J, m[i], x) = {}
      <3>1. Bytes(J, m[i]) /\ Bytes(J, v) /\ Bytes(J, w)
        BY DEF Bytes, Entries
      <3>2. Dot(J, m[i], x) = XOR(Dot(J, m[i], v), Dot(J, m[i], w))
        BY <2>2, <3>1, DotXor
      <3>3. Dot(J, m[i], v) = Dot(J, m[i], w)
        BY <1>1, <1>3
      <3>4. QED
        BY <3>2, <3>3, XorZero
    <2>4. \A j \in J : XOR(v[j], w[j]) = {}
      BY <2>1, <2>2, <2>3 DEF OnlyZeroSolves
    <2>5. \A j \in J : v[j] = w[j]
      BY <2>4, SameWhenZero
    <2>6. QED
      BY <2>5
  <1>4. F \in Injection(V, U)
    BY <1>2, <1>3 DEF Injection, IsInjective
  <1>5. IsFiniteSet(U) /\ Cardinality(V) = Cardinality(U)
    BY VectorsAsMany
  <1> HIDE DEF V, U
  <1>6. F \in Surjection(V, U)
    BY <1>4, <1>5, FS_Injection
  <1>7. \A y \in U : \E v \in V : F[v] = y
    BY <1>6 DEF Surjection
  <1>8. QED
    BY <1>1, <1>7 DEF V, U, AllSolved

Collected(T, J, u, mt, um) == \A j \in J : um[j] = Dot(T, u, mt[j])

LEMMA DotExchanged ==
  ASSUME NEW T, IsFiniteSet(T), NEW J, IsFiniteSet(J),
         NEW u, Bytes(T, u), NEW m, Entries(T, J, m), NEW x, Bytes(J, x),
         NEW mt, Transposed(T, J, m, mt), NEW mx, Applied(T, J, m, x, mx),
         NEW um, Collected(T, J, u, mt, um)
  PROVE  Dot(T, u, mx) = Dot(J, um, x)
  <1>1. \A j \in J : um[j] = Dot(T, u, mt[j])
    BY DEF Collected
  <1>2. QED
    BY <1>1, DotAssociates

(* So rows and columns may be exchanged.                                   *)
LEMMA SolvesTransposed ==
  ASSUME NEW I, IsFiniteSet(I), NEW J, IsFiniteSet(J), Cardinality(I) = Cardinality(J),
         NEW m, Entries(I, J, m), OnlyZeroSolves(I, J, m),
         NEW mt, Entries(J, I, mt), Transposed(I, J, m, mt)
  PROVE  OnlyZeroSolves(J, I, mt)
  <1>1. AllSolved(I, J, m)
    BY InjectiveIsOnto
  <1> SUFFICES ASSUME NEW u \in [I -> Byte], \A j \in J : Dot(I, mt[j], u) = {}, NEW l \in I
               PROVE  u[l] = {}
    BY DEF OnlyZeroSolves
  <1> DEFINE y == [i \in I |-> IF i = l THEN {0} ELSE {}]
             um == [j \in J |-> Dot(I, u, mt[j])]
  <1>2. y \in [I -> Byte] /\ \A i \in I : y[i] = IF i = l THEN {0} ELSE {}
    BY ByteFacts
  <1>3. \A j \in J : um[j] = Dot(I, u, mt[j])
    OBVIOUS
  <1>4. Collected(I, J, u, mt, um)
    BY <1>3 DEF Collected
  <1> HIDE DEF y, um
  <1>5. PICK v \in [J -> Byte] : \A i \in I : Dot(J, m[i], v) = y[i]
    BY <1>1, <1>2 DEF AllSolved
  <1>6. Applied(I, J, m, v, y)
    BY <1>5 DEF Applied
  <1>7. Bytes(I, u) /\ Bytes(J, v)
    BY DEF Bytes
  <1>8. Dot(I, u, y) = Dot(J, um, v)
    BY <1>6, <1>7, <1>4, DotExchanged
  <1>9. \A j \in J : um[j] = {}
    <2>1. ASSUME NEW j \in J
          PROVE  Dot(I, u, mt[j]) = Dot(I, mt[j], u)
      <3>1. \A i \in I : mul(u[i], mt[j][i]) = mul(mt[j][i], u[i])
        BY MulByte DEF Entries
      <3>2. [i \in I |-> mul(u[i], mt[j][i])] = [i \in I |-> mul(mt[j][i], u[i])]
        BY <3>1
      <3>3. QED
        BY <3>2 DEF Dot
    <2>2. QED
      BY <1>3, <2>1
  <1>10. Dot(J, um, v) = {}
    <2> DEFINE t == [j \in J |-> mul(um[j], v[j])]
    <2>1. \A j \in J : t[j] = {}
      BY <1>9, MulZero
    <2> HIDE DEF t
    <2>2. XorAll(J, t) = {}
      BY <2>1, XorAllZero
    <2>3. QED
      BY <2>2 DEF t, Dot
  <1>11. Dot(I, u, y) = u[l]
    <2> DEFINE t == [i \in I |-> mul(u[i], y[i])]
    <2>1. t[l] = u[l] /\ u[l] \in Byte /\ \A i \in I \ {l} : t[i] = {}
      BY <1>2, MulOne, MulZero
    <2> HIDE DEF t
    <2>2. l \in I /\ t[l] \in Byte /\ \A i \in I \ {l} : t[i] = {}
      BY <2>1
    <2>4. XorAll(I, t) = t[l]
      BY <2>2, XorAllOne
    <2>3. QED
      BY <2>1, <2>4 DEF t, Dot
  <1>12. QED
    BY <1>8, <1>10, <1>11

(* Columns with different nodes g[j], each row g[j] times the row before:  *)
(* only zero solves them.                                                  *)
NodeRows(h, g, n, J) ==
  \A j \in J :
    /\ g[j] \in Byte /\ h[0][j] # {}
    /\ \A r \in Upto(n) :
         /\ h[r][j] \in Byte
         /\ r + 1 \in Upto(n) => h[r + 1][j] = mul(g[j], h[r][j])

RowStep(J, g, p, q) == \A j \in J : g[j] \in Byte /\ p[j] \in Byte /\ q[j] = mul(g[j], p[j])

Shrunk(T, g, c, v, w) == \A j \in T : w[j] = mul(XOR(g[c], g[j]), v[j])

(* A row times the node of column c, and the row after it: column c is     *)
(* gone.                                                                   *)
LEMMA ColumnGone ==
  ASSUME NEW T, IsFiniteSet(T), NEW c, c \notin T, NEW v \in [T \cup {c} -> Byte], NEW g, NEW p, NEW q,
         RowStep(T \cup {c}, g, p, q), Dot(T \cup {c}, p, v) = {}, Dot(T \cup {c}, q, v) = {}, NEW w, Shrunk(T, g, c, v, w)
  PROVE  Dot(T, p, w) = {}
  <1> DEFINE L == T \cup {c}
             h(j) == XOR(g[c], g[j])
             a == [j \in L |-> mul(p[j], v[j])]
             b == [j \in L |-> mul(q[j], v[j])]
             ga == [j \in L |-> mul(g[c], a[j])]
             z == [j \in L |-> XOR(ga[j], b[j])]
             y == [j \in T |-> mul(p[j], w[j])]
  <1>1. IsFiniteSet(L) /\ c \in L
    BY FS_AddElement
  <1>2. XorAll(L, a) = {} /\ XorAll(L, b) = {}
    BY DEF Dot
  <1>3. ASSUME NEW j \in L
        PROVE  /\ g[j] \in Byte /\ g[c] \in Byte /\ h(j) \in Byte /\ p[j] \in Byte
               /\ v[j] \in Byte /\ a[j] \in Byte /\ b[j] = mul(g[j], a[j])
               /\ ga[j] = mul(g[c], a[j])
    <2>1. g[j] \in Byte /\ g[c] \in Byte /\ p[j] \in Byte /\ v[j] \in Byte /\ q[j] = mul(g[j], p[j])
      BY <1>1 DEF RowStep
    <2>2. mul(mul(g[j], p[j]), v[j]) = mul(g[j], mul(p[j], v[j]))
      BY <2>1, MulAssociates
    <2>3. a[j] = mul(p[j], v[j]) /\ b[j] = mul(q[j], v[j]) /\ ga[j] = mul(g[c], a[j])
      OBVIOUS
    <2> HIDE DEF a, b, ga
    <2>4. QED
      BY <2>1, <2>2, <2>3, MulByte, XorByte
  <1>4. \A j \in L : z[j] = XOR(ga[j], b[j])
    OBVIOUS
  <1>5. \A j \in T : y[j] = mul(p[j], mul(h(j), v[j])) /\ a[j] = mul(p[j], v[j])
    BY DEF Shrunk
  <1>6. h(c) = {}
    BY XorZero
  <1>7. h(c) = {} /\ \A j \in L : h(j) = XOR(g[c], g[j])
    BY <1>6
  <1> HIDE DEF a, b, ga, z, y, h
  <1>8. ASSUME NEW j \in L
        PROVE  ga[j] \in Byte /\ b[j] \in Byte /\ z[j] = mul(h(j), a[j]) /\ z[j] \in Byte
    <2> DEFINE e == g[c]
               f == g[j]
               x == a[j]
    <2>1. e \in Byte /\ f \in Byte /\ x \in Byte /\ h(j) = XOR(e, f)
          /\ ga[j] = mul(e, x) /\ b[j] = mul(f, x) /\ z[j] = XOR(ga[j], b[j])
      BY <1>3, <1>4, <1>7
    <2> HIDE DEF e, f, x
    <2>2. mul(XOR(e, f), x) = XOR(mul(e, x), mul(f, x))
      BY <2>1, MulDistributes
    <2>3. ga[j] \in Byte /\ b[j] \in Byte
      BY <2>1, MulByte
    <2>4. QED
      BY <2>1, <2>2, <2>3, XorByte DEF x
  <1>9. XorAll(L, ga) = {}
    <2> DEFINE e == g[c]
    <2>1. \A j \in L : a[j] \in Byte /\ ga[j] = mul(e, a[j])
      BY <1>3
    <2>2. e \in Byte
      BY <1>1, <1>3
    <2> HIDE DEF e
    <2>3. XorAll(L, ga) = mul(e, XorAll(L, a))
      BY <1>1, <2>1, <2>2, XorAllTimes
    <2>4. QED
      BY <1>2, <2>3, MulZero
  <1>10. XorAll(L, z) = {}
    <2>1. \A j \in L : ga[j] \in Byte /\ b[j] \in Byte /\ z[j] = XOR(ga[j], b[j])
      BY <1>4, <1>8
    <2>2. XorAll(L, z) = XOR(XorAll(L, ga), XorAll(L, b))
      BY <1>1, <2>1, XorAllXor
    <2>3. QED
      BY <1>2, <1>9, <2>2, XorZero
  <1>11. z[c] = {}
    BY <1>1, <1>7, <1>8, MulZero
  <1>12. XorAll(L, z) = XOR(XorAll(T, z), z[c])
    BY <1>1, <1>8, XorAllInsert DEF L
  <1>13. ASSUME NEW j \in T
         PROVE  z[j] = y[j]
    <2>1. j \in L
      BY DEF L
    <2>2. mul(p[j], mul(h(j), v[j])) = mul(h(j), mul(p[j], v[j]))
      BY <1>3, <2>1, MulSwaps
    <2>3. QED
      BY <1>5, <1>8, <2>1, <2>2
  <1>14. XorAll(T, z) = XorAll(T, y)
    BY <1>13, XorAllSame
  <1>15. XorAll(T, y) = {}
    BY <1>10, <1>11, <1>12, <1>14, XorZero
  <1>16. QED
    BY <1>15 DEF y, Dot

LEMMA NodesVanish ==
  ASSUME NEW J, IsFiniteSet(J), NEW g, \A j, l \in J : j # l => g[j] # g[l],
         NEW h, NodeRows(h, g, Cardinality(J), J)
  PROVE  OnlyZeroSolves(Upto(Cardinality(J)), J, h)
  <1> DEFINE F == {T \in SUBSET J : OnlyZeroSolves(Upto(Cardinality(T)), T, h)}
  <1>1. {} \in F
    BY DEF OnlyZeroSolves
  <1>2. ASSUME NEW T \in SUBSET J, NEW c \in J \ T, T \in F
        PROVE  T \cup {c} \in F
    <2> DEFINE L == T \cup {c}
               n == Cardinality(T)
    <2>1. IsFiniteSet(T) /\ n \in Nat /\ Cardinality(L) = n + 1 /\ IsFiniteSet(L)
      BY FS_Subset, FS_AddElement, FS_CardinalityType
    <2>2. Cardinality(J) \in Nat /\ n + 1 <= Cardinality(J)
      <3>1. L \in SUBSET J
        OBVIOUS
      <3>2. QED
        BY <2>1, <3>1, FS_Subset, FS_CardinalityType
    <2> HIDE DEF n
    <2>3. ASSUME NEW r \in Upto(n + 1)
          PROVE  r \in Nat /\ r \in Upto(Cardinality(J)) /\ (r \in Upto(n) => r + 1 \in Upto(n + 1) /\ r + 1 \in Upto(Cardinality(J)))
      BY <2>1, <2>2 DEF Upto
    <2> SUFFICES ASSUME NEW v \in [L -> Byte], \A r \in Upto(n + 1) : Dot(L, h[r], v) = {}
                 PROVE  \A j \in L : v[j] = {}
      BY <2>1 DEF OnlyZeroSolves
    <2> DEFINE d == [j \in T |-> XOR(g[c], g[j])]
               u == [j \in T |-> mul(d[j], v[j])]
    <2>4. ASSUME NEW j \in T
          PROVE  d[j] \in Byte /\ d[j] # {} /\ v[j] \in Byte /\ u[j] \in Byte /\ u[j] = mul(d[j], v[j])
      <3>1. j \in J /\ j # c /\ j \in L /\ v[j] \in Byte
        OBVIOUS
      <3>2. g[c] \in Byte /\ g[j] \in Byte /\ g[c] # g[j]
        BY <3>1 DEF NodeRows
      <3>3. d[j] \in Byte /\ d[j] # {} /\ u[j] = mul(d[j], v[j])
        BY <3>1, <3>2, XorByte, XorDiffers
      <3> HIDE DEF d, u
      <3>4. QED
        BY <3>1, <3>3, MulByte
    <2>5. Shrunk(T, g, c, v, u)
      BY DEF Shrunk
    <2>6. u \in [T -> Byte]
      BY <2>4
    <2> HIDE DEF d, u
    <2>7. ASSUME NEW r \in Upto(n)
          PROVE  Dot(T, h[r], u) = {}
      <3>1. r \in Upto(n + 1)
        BY <2>1 DEF Upto
      <3> DEFINE p == h[r]
                 q == h[r + 1]
      <3>2. RowStep(L, g, p, q)
        BY <2>3, <3>1 DEF NodeRows, RowStep
      <3>3. Dot(L, p, v) = {} /\ Dot(L, q, v) = {}
        BY <2>3, <3>1
      <3> HIDE DEF p, q
      <3>4. Dot(T, p, u) = {}
        BY <2>1, <2>5, <3>2, <3>3, ColumnGone
      <3>5. QED
        BY <3>4 DEF p
    <2>8. OnlyZeroSolves(Upto(n), T, h)
      BY <1>2 DEF n
    <2>9. \A j \in T : u[j] = {}
      BY <2>6, <2>7, <2>8 DEF OnlyZeroSolves
    <2>10. \A j \in T : v[j] = {}
      BY <2>4, <2>9, MulZeroFactor
    <2> DEFINE y == [j \in L |-> mul(h[0][j], v[j])]
    <2>11. XorAll(L, y) = {}
      <3>1. 0 \in Upto(n + 1)
        BY <2>1 DEF Upto
      <3>2. Dot(L, h[0], v) = {}
        BY <3>1
      <3>3. QED
        BY <3>2 DEF Dot
    <2>12. c \in L /\ v[c] \in Byte /\ h[0][c] \in Byte /\ h[0][c] # {} /\ y[c] = mul(h[0][c], v[c])
      <3>1. 0 \in Upto(Cardinality(J))
        BY <2>1, <2>2 DEF Upto
      <3>2. c \in J /\ c \in L
        OBVIOUS
      <3>3. QED
        BY <3>1, <3>2 DEF NodeRows
    <2>13. \A j \in L \ {c} : y[j] = {}
      BY <2>10, MulZero
    <2> HIDE DEF y
    <2>14. y[c] \in Byte
      BY <2>12, MulByte
    <2>15. XorAll(L, y) = y[c]
      BY <2>1, <2>12, <2>13, <2>14, XorAllOne
    <2>16. v[c] = {}
      BY <2>11, <2>12, <2>15, MulZeroFactor
    <2>17. QED
      BY <2>10, <2>16
  <1> HIDE DEF F
  <1>3. J \in F
    BY <1>1, <1>2, SetInduction
  <1>4. QED
    BY <1>3 DEF F

-----------------------------------------------------------------------------
(* Rows and columns of powers of 2.  Row i over the columns J sends v to   *)
(* zero; and only zero is sent to zero by all the rows I.                  *)
Sends(i, J, v) == XorAll(J, [j \in J |-> mul(Weight(i * j), v[j])]) = {}

Vanishes(I, J) ==
  \A v \in [J -> Byte] : (\A i \in I : Sends(i, J, v)) => \A j \in J : v[j] = {}

WeightRows(I, J) == [i \in I |-> [j \in J |-> Weight(i * j)]]

LEMMA SendsRow ==
  ASSUME NEW I, NEW J, NEW i \in I, NEW v
  PROVE  Sends(i, J, v) <=> Dot(J, WeightRows(I, J)[i], v) = {}
  <1> DEFINE m == WeightRows(I, J)
  <1>1. \A j \in J : mul(m[i][j], v[j]) = mul(Weight(i * j), v[j])
    BY DEF WeightRows
  <1>2. [j \in J |-> mul(m[i][j], v[j])] = [j \in J |-> mul(Weight(i * j), v[j])]
    BY <1>1
  <1> HIDE DEF m
  <1>3. QED
    BY <1>2 DEF Sends, Dot, m

LEMMA VanishesRows ==
  ASSUME NEW I, NEW J
  PROVE  Vanishes(I, J) <=> OnlyZeroSolves(I, J, WeightRows(I, J))
  BY SendsRow DEF Vanishes, OnlyZeroSolves

LEMMA VanishesTransposed ==
  ASSUME NEW I \in SUBSET Nat, IsFiniteSet(I), NEW J \in SUBSET Nat, IsFiniteSet(J),
         Cardinality(I) = Cardinality(J), Vanishes(I, J)
  PROVE  Vanishes(J, I)
  <1> DEFINE m == WeightRows(I, J)
             mt == WeightRows(J, I)
  <1>1. ASSUME NEW i \in I, NEW j \in J
        PROVE  m[i][j] \in Byte /\ mt[j][i] = m[i][j]
    <2>1. i * j \in Nat /\ j * i = i * j
      OBVIOUS
    <2>2. m[i][j] = Weight(i * j) /\ mt[j][i] = Weight(j * i)
      BY DEF WeightRows
    <2>3. QED
      BY <2>1, <2>2, WeightFacts
  <1> HIDE DEF m, mt
  <1>2. Entries(I, J, m) /\ Entries(J, I, mt) /\ Transposed(I, J, m, mt)
    BY <1>1 DEF Entries, Transposed
  <1>3. OnlyZeroSolves(I, J, m)
    BY VanishesRows DEF m
  <1>4. OnlyZeroSolves(J, I, mt)
    BY <1>2, <1>3, SolvesTransposed
  <1>5. QED
    BY <1>4, VanishesRows DEF mt

(* Rows i, i + d, i + 2d, ..., as many as columns, have the nodes 2^(d j). *)
Progression(i, d, n) == {i + r * d : r \in Upto(n)}

LEMMA ProgressionVanishes ==
  ASSUME NEW J \in SUBSET Nat, IsFiniteSet(J), NEW i \in Nat, NEW d \in Nat,
         \A j, l \in J : j # l => Weight(d * j) # Weight(d * l)
  PROVE  Vanishes(Progression(i, d, Cardinality(J)), J)
  <1> DEFINE n == Cardinality(J)
             g == [j \in J |-> Weight(d * j)]
             h == [r \in Upto(n) |-> [j \in J |-> Weight((i + r * d) * j)]]
  <1>1. n \in Nat
    BY FS_CardinalityType
  <1> HIDE DEF n
  <1>2. ASSUME NEW r \in Upto(n)
        PROVE  r \in Nat /\ i + r * d \in Nat /\ i + r * d \in Progression(i, d, n)
    <2>1. i + r * d \in Progression(i, d, n)
      BY DEF Progression
    <2>2. QED
      BY <2>1 DEF Upto
  <1>3. ASSUME NEW r \in Upto(n), NEW j \in J
        PROVE  /\ g[j] \in Byte /\ h[r][j] = Weight((i + r * d) * j) /\ h[r][j] \in Byte /\ h[r][j] # {}
               /\ r + 1 \in Upto(n) => h[r + 1][j] = mul(g[j], h[r][j])
    <2> DEFINE s == i + r * d
    <2>1. s \in Nat /\ s * j \in Nat /\ d * j \in Nat /\ (i + (r + 1) * d) * j = d * j + s * j
      BY <1>2
    <2>2. g[j] = Weight(d * j) /\ h[r][j] = Weight(s * j)
      OBVIOUS
    <2>3. r + 1 \in Upto(n) => h[r + 1][j] = Weight((i + (r + 1) * d) * j)
      OBVIOUS
    <2> HIDE DEF s, g, h
    <2>4. mul(Weight(d * j), Weight(s * j)) = Weight(d * j + s * j)
      BY <2>1, WeightTimes
    <2>5. g[j] \in Byte /\ h[r][j] \in Byte /\ h[r][j] # {}
      BY <2>1, <2>2, WeightFacts
    <2>6. QED
      BY <2>1, <2>2, <2>3, <2>4, <2>5 DEF s
  <1>4. \A j, l \in J : j # l => g[j] # g[l]
    OBVIOUS
  <1>5. ASSUME NEW v \in [J -> Byte], \A x \in Progression(i, d, n) : Sends(x, J, v), NEW r \in Upto(n)
        PROVE  Dot(J, h[r], v) = {}
    <2> DEFINE x == i + r * d
    <2>1. Sends(x, J, v)
      BY <1>2, <1>5
    <2>2. \A j \in J : mul(h[r][j], v[j]) = mul(Weight(x * j), v[j])
      BY <1>3
    <2> HIDE DEF h, g, x
    <2>3. [j \in J |-> mul(h[r][j], v[j])] = [j \in J |-> mul(Weight(x * j), v[j])]
      BY <2>2
    <2>4. QED
      BY <2>1, <2>3 DEF Sends, Dot
  <1> HIDE DEF g, h
  <1>6. CASE n = 0
    <2>1. J = {}
      BY <1>6, FS_EmptySet DEF n
    <2>2. QED
      BY <2>1 DEF Vanishes
  <1>7. CASE n # 0
    <2>1. 0 \in Upto(n)
      BY <1>1, <1>7 DEF Upto
    <2>2. NodeRows(h, g, n, J)
      BY <1>3, <2>1 DEF NodeRows
    <2>3. OnlyZeroSolves(Upto(n), J, h)
      BY <1>4, <2>2, NodesVanish DEF n
    <2>4. QED
      BY <1>5, <2>3 DEF OnlyZeroSolves, Vanishes, n
  <1>8. QED
    BY <1>6, <1>7

-----------------------------------------------------------------------------
(* Small sets.                                                             *)
LEMMA TwoElements ==
  ASSUME NEW S, IsFiniteSet(S), Cardinality(S) = 2
  PROVE  \E a \in S, b \in S : S = {a, b}
  <1>1. S # {}
    BY FS_EmptySet
  <1>2. PICK a \in S : TRUE
    BY <1>1
  <1> DEFINE T == S \ {a}
  <1>3. IsFiniteSet(T) /\ Cardinality(T) = 1
    BY <1>2, FS_RemoveElement
  <1> HIDE DEF T
  <1>7. \E b : T = {b}
    BY <1>3, FS_Singleton
  <1>4. PICK b : T = {b}
    BY <1>7
  <1> USE DEF T
  <1>5. b \in S /\ S = {a, b}
    BY <1>2, <1>4
  <1>6. QED
    BY <1>2, <1>5

Distinct(a, b, c) == a # b /\ a # c /\ b # c

LEMMA TwoInOrder ==
  ASSUME NEW S \in SUBSET Nat, IsFiniteSet(S), Cardinality(S) = 2
  PROVE  \E a \in S, b \in S : a < b /\ S = {a, b}
  <1>1. PICK a \in S, b \in S : S = {a, b}
    BY TwoElements
  <1>2. a # b
    <2>1. ASSUME a = b PROVE FALSE
      <3>1. S = {a}
        BY <1>1, <2>1
      <3>2. Cardinality({a}) = 1
        BY FS_Singleton
      <3>3. QED
        BY <3>1, <3>2
    <2>2. QED
      BY <2>1
  <1>3. CASE a < b
    BY <1>1, <1>3
  <1>4. CASE b < a
    <2>1. S = {b, a}
      BY <1>1
    <2>2. QED
      BY <1>4, <2>1
  <1>5. QED
    BY <1>2, <1>3, <1>4

LEMMA ThreeElements ==
  ASSUME NEW S, IsFiniteSet(S), Cardinality(S) = 3
  PROVE  \E a \in S, b \in S, c \in S : Distinct(a, b, c) /\ S = {a, b, c}
  <1>1. S # {}
    BY FS_EmptySet
  <1>2. PICK c \in S : TRUE
    BY <1>1
  <1> DEFINE T == S \ {c}
  <1>3. IsFiniteSet(T) /\ Cardinality(T) = 2
    BY <1>2, FS_RemoveElement
  <1> HIDE DEF T
  <1>4. PICK a \in T, b \in T : T = {a, b}
    BY <1>3, TwoElements
  <1>5. a # b
    <2>1. ASSUME a = b PROVE FALSE
      <3>1. T = {a}
        BY <1>4, <2>1
      <3>2. Cardinality({a}) = 1
        BY FS_Singleton
      <3>3. QED
        BY <1>3, <3>1, <3>2
    <2>2. QED
      BY <2>1
  <1> USE DEF T
  <1>6. a \in S /\ b \in S /\ S = {a, b, c} /\ a # c /\ b # c
    BY <1>2, <1>4
  <1>7. QED
    BY <1>2, <1>5, <1>6 DEF Distinct

-----------------------------------------------------------------------------
(* The safe region: any selection of up to four rows, or columns.          *)

(* Rows in arithmetic progression, and the few that are not.               *)
LEMMA ProgressionSize ==
  ASSUME NEW i \in Nat, NEW d \in 1..3, NEW n \in Nat
  PROVE  /\ Progression(i, d, n) \in SUBSET Nat
         /\ IsFiniteSet(Progression(i, d, n)) /\ Cardinality(Progression(i, d, n)) = n
  <1> DEFINE f == [r \in Upto(n) |-> i + r * d]
             R == Progression(i, d, n)
  <1>1. \A r \in Upto(n) : r \in Nat /\ i + r * d \in Nat
    BY DEF Upto
  <1>2. f \in [Upto(n) -> R] /\ \A r \in Upto(n) : f[r] = i + r * d
    BY DEF Progression
  <1>3. ASSUME NEW r \in Upto(n), NEW s \in Upto(n), f[r] = f[s]
        PROVE  r = s
    <2>1. r \in Nat /\ s \in Nat /\ i + r * d = i + s * d
      BY <1>1, <1>2, <1>3
    <2>2. CASE d = 1
      BY <2>1, <2>2
    <2>3. CASE d = 2
      BY <2>1, <2>3
    <2>4. CASE d = 3
      BY <2>1, <2>4
    <2>5. QED
      BY <2>2, <2>3, <2>4
  <1>4. ASSUME NEW x \in R
        PROVE  \E r \in Upto(n) : f[r] = x
    BY <1>2 DEF Progression
  <1>5. R \in SUBSET Nat
    BY <1>1 DEF Progression
  <1> HIDE DEF f, R
  <1>6. f \in Bijection(Upto(n), R)
    BY <1>2, <1>3, <1>4 DEF Bijection, Injection, Surjection, IsInjective
  <1>7. ExistsBijection(Upto(n), R)
    BY <1>6 DEF ExistsBijection
  <1>8. IsFiniteSet(Upto(n)) /\ Cardinality(Upto(n)) = n
    BY UptoFinite
  <1>9. IsFiniteSet(R) /\ Cardinality(R) = n
    BY <1>7, <1>8, FS_Bijection
  <1>10. QED
    BY <1>5, <1>9 DEF R

LEMMA ShortProgressions ==
  ASSUME NEW i \in Nat, NEW d \in Nat
  PROVE  /\ Progression(i, d, 0) = {}
         /\ Progression(i, d, 1) = {i}
         /\ Progression(i, d, 2) = {i, i + d}
         /\ Progression(i, d, 3) = {i, i + d, i + 2 * d}
         /\ Progression(i, d, 4) = {i, i + d, i + 2 * d, i + 3 * d}
  <1>1. /\ Upto(0) = {} /\ Upto(1) = {0} /\ Upto(2) = {0, 1} /\ Upto(3) = {0, 1, 2}
        /\ Upto(4) = {0, 1, 2, 3}
    BY DEF Upto
  <1>2. i + 0 * d = i /\ i + 1 * d = i + d
    OBVIOUS
  <1>3. Progression(i, d, 0) = {}
    BY <1>1 DEF Progression
  <1>4. Progression(i, d, 1) = {i}
    BY <1>1, <1>2 DEF Progression
  <1>5. Progression(i, d, 2) = {i, i + d}
    BY <1>1, <1>2 DEF Progression
  <1>6. Progression(i, d, 3) = {i, i + d, i + 2 * d}
    BY <1>1, <1>2 DEF Progression
  <1>7. Progression(i, d, 4) = {i, i + d, i + 2 * d, i + 3 * d}
    BY <1>1, <1>2 DEF Progression
  <1>8. QED
    BY <1>3, <1>4, <1>5, <1>6, <1>7

LEMMA RowSets ==
  ASSUME NEW I \in SUBSET (0..3)
  PROVE  I \in {{}, {0}, {1}, {2}, {0, 1}, {0, 2}, {1, 2}, {0, 1, 2},
                {3}, {0, 3}, {1, 3}, {2, 3}, {0, 1, 3}, {0, 2, 3}, {1, 2, 3}, {0, 1, 2, 3}}
  <1>1. \A x \in I : x = 0 \/ x = 1 \/ x = 2 \/ x = 3
    OBVIOUS
  <1> DEFINE B == I \cap {0, 1}
             T == I \cap {2, 3}
  <1>2. B \in {{}, {0}, {1}, {0, 1}}
    OBVIOUS
  <1>3. T \in {{}, {2}, {3}, {2, 3}}
    OBVIOUS
  <1>4. I = B \cup T
    BY <1>1
  <1> HIDE DEF B, T
  <1>5. CASE T = {}
    BY <1>2, <1>4, <1>5
  <1>6. CASE T = {2}
    <2>1. CASE B = {}
      BY <1>4, <1>6, <2>1
    <2>2. CASE B = {0}
      BY <1>4, <1>6, <2>2
    <2>3. CASE B = {1}
      BY <1>4, <1>6, <2>3
    <2>4. CASE B = {0, 1}
      BY <1>4, <1>6, <2>4
    <2>5. QED
      BY <1>2, <2>1, <2>2, <2>3, <2>4
  <1>7. CASE T = {3}
    <2>1. CASE B = {}
      BY <1>4, <1>7, <2>1
    <2>2. CASE B = {0}
      BY <1>4, <1>7, <2>2
    <2>3. CASE B = {1}
      BY <1>4, <1>7, <2>3
    <2>4. CASE B = {0, 1}
      BY <1>4, <1>7, <2>4
    <2>5. QED
      BY <1>2, <2>1, <2>2, <2>3, <2>4
  <1>8. CASE T = {2, 3}
    <2>1. CASE B = {}
      BY <1>4, <1>8, <2>1
    <2>2. CASE B = {0}
      BY <1>4, <1>8, <2>2
    <2>3. CASE B = {1}
      BY <1>4, <1>8, <2>3
    <2>4. CASE B = {0, 1}
      BY <1>4, <1>8, <2>4
    <2>5. QED
      BY <1>2, <2>1, <2>2, <2>3, <2>4
  <1>9. QED
    BY <1>3, <1>5, <1>6, <1>7, <1>8

(* Of four rows, all selections are progressions but two.                  *)
EvenlySpaced(I) ==
  \E i \in 0..3, d \in 1..3, n \in Nat : I = Progression(i, d, n) /\ (3 \notin I => d <= 2)

LEMMA FourRows ==
  ASSUME NEW I \in SUBSET (0..3)
  PROVE  I = {0, 1, 3} \/ I = {0, 2, 3} \/ EvenlySpaced(I)
  <1>1. ASSUME NEW i \in 0..3
        PROVE  EvenlySpaced({i})
    <2>1. {i} = Progression(i, 1, 1) /\ 1 \in 1..3 /\ 1 \in Nat
      BY ShortProgressions
    <2>2. QED
      BY <2>1 DEF EvenlySpaced
  <1>2. ASSUME NEW i \in 0..3, NEW d \in 1..3, i + d = 3 \/ d <= 2
        PROVE  EvenlySpaced({i, i + d})
    <2>1. {i, i + d} = Progression(i, d, 2) /\ 2 \in Nat
      BY ShortProgressions
    <2>2. 3 \notin {i, i + d} => d <= 2
      BY <1>2
    <2>3. QED
      BY <2>1, <2>2 DEF EvenlySpaced
  <1>3. EvenlySpaced({})
    <2>1. {} = Progression(0, 1, 0) /\ 0 \in 0..3 /\ 1 \in 1..3 /\ 0 \in Nat
      BY ShortProgressions
    <2>2. QED
      BY <2>1 DEF EvenlySpaced
  <1>4. ASSUME NEW i \in 0..3
        PROVE  EvenlySpaced({i, i + 1, i + 2})
    <2>1. {i, i + 1, i + 2 * 1} = Progression(i, 1, 3) /\ i + 2 * 1 = i + 2 /\ 1 \in 1..3 /\ 3 \in Nat
      BY ShortProgressions
    <2>2. QED
      BY <2>1 DEF EvenlySpaced
  <1>5. EvenlySpaced({0, 1, 2, 3})
    <2>1. {0, 0 + 1, 0 + 2 * 1, 0 + 3 * 1} = Progression(0, 1, 4)
      BY ShortProgressions
    <2>2. 0 + 1 = 1 /\ 0 + 2 * 1 = 2 /\ 0 + 3 * 1 = 3 /\ 0 \in 0..3 /\ 1 \in 1..3 /\ 4 \in Nat
      OBVIOUS
    <2>3. QED
      BY <2>1, <2>2 DEF EvenlySpaced
  <1>6. EvenlySpaced({0}) /\ EvenlySpaced({1}) /\ EvenlySpaced({2}) /\ EvenlySpaced({3})
    BY <1>1
  <1>7. EvenlySpaced({0, 1}) /\ EvenlySpaced({0, 2}) /\ EvenlySpaced({0, 3})
    <2>1. EvenlySpaced({0, 0 + 1}) /\ EvenlySpaced({0, 0 + 2}) /\ EvenlySpaced({0, 0 + 3})
      BY <1>2
    <2>2. QED
      BY <2>1
  <1>8. EvenlySpaced({1, 2}) /\ EvenlySpaced({1, 3}) /\ EvenlySpaced({2, 3})
    <2>1. EvenlySpaced({1, 1 + 1}) /\ EvenlySpaced({1, 1 + 2}) /\ EvenlySpaced({2, 2 + 1})
      BY <1>2
    <2>2. QED
      BY <2>1
  <1>9. EvenlySpaced({0, 1, 2}) /\ EvenlySpaced({1, 2, 3})
    <2>1. EvenlySpaced({0, 0 + 1, 0 + 2}) /\ EvenlySpaced({1, 1 + 1, 1 + 2})
      BY <1>4
    <2>2. QED
      BY <2>1
  <1>10. \/ I \in {{}, {0}, {1}, {2}, {3}}
         \/ I \in {{0, 1}, {0, 2}, {1, 2}, {0, 3}, {1, 3}, {2, 3}}
         \/ I \in {{0, 1, 2}, {1, 2, 3}, {0, 1, 2, 3}}
         \/ I = {0, 1, 3} \/ I = {0, 2, 3}
    BY RowSets, Zenon
  <1>11. QED
    BY <1>3, <1>5, <1>6, <1>7, <1>8, <1>9, <1>10

(* The nodes of a progression differ.                                      *)
LEMMA SquaresDiffer ==
  ASSUME NEW a \in Byte, NEW b \in Byte, a # b
  PROVE  mul(a, a) # mul(b, b)
  <1> SUFFICES ASSUME mul(a, a) = mul(b, b) PROVE FALSE
    OBVIOUS
  <1> DEFINE s == XOR(a, b)
  <1>1. s \in Byte /\ s # {}
    BY XorByte, XorDiffers
  <1>2. mul(s, s) = XOR(mul(s, a), mul(s, b))
    BY <1>1, MulDistributes
  <1>3. mul(s, a) = XOR(mul(a, a), mul(b, a)) /\ mul(s, b) = XOR(mul(a, b), mul(b, b))
    BY MulDistributes
  <1>4. mul(a, b) = mul(b, a)
    BY MulByte
  <1>5. mul(s, s) = {}
    BY <1>2, <1>3, <1>4, XorThrough, XorZero
  <1> HIDE DEF s
  <1>6. s = {}
    BY <1>1, <1>5, MulZeroFactor
  <1>7. QED
    BY <1>1, <1>6

LEMMA NodesDiffer ==
  ASSUME NEW n \in Nat, n <= Order, NEW d \in 1..3, d <= 2 \/ Gaps(n),
         NEW j \in 0..(n - 1), NEW l \in 0..(n - 1), j # l
  PROVE  Weight(d * j) # Weight(d * l)
  <1>1. j \in Nat /\ l \in Nat /\ j < Order /\ l < Order /\ Order \in Nat
    BY OrderPositive
  <1>2. Weight(j) = EXP[j] /\ Weight(l) = EXP[l] /\ Weight(j) \in Byte /\ Weight(l) \in Byte
    BY <1>1, WeightFacts
  <1>3. Weight(j) # Weight(l)
    BY <1>1, <1>2, GeneratorLaws
  <1>4. CASE d = 1
    BY <1>1, <1>3, <1>4
  <1>5. CASE d = 2
    <2>1. 2 * j = j + j /\ 2 * l = l + l
      BY <1>1
    <2>2. mul(Weight(j), Weight(j)) = Weight(j + j) /\ mul(Weight(l), Weight(l)) = Weight(l + l)
      BY <1>1, WeightTimes
    <2>3. mul(Weight(j), Weight(j)) # mul(Weight(l), Weight(l))
      BY <1>2, <1>3, SquaresDiffer
    <2>4. QED
      BY <1>5, <2>1, <2>2, <2>3
  <1>6. CASE d = 3
    <2>1. 3 * j \in Nat /\ 3 * l \in Nat /\ 3 * j < Order /\ 3 * l < Order /\ 3 * j # 3 * l
      BY <1>1, <1>6 DEF Gaps
    <2>2. Weight(3 * j) = EXP[3 * j] /\ Weight(3 * l) = EXP[3 * l]
      BY <2>1, WeightFacts
    <2>3. 3 * j \in 0..(Order - 1) /\ 3 * l \in 0..(Order - 1)
      BY <1>1, <2>1
    <2>4. EXP[3 * j] # EXP[3 * l]
      BY <2>1, <2>3, GeneratorLaws
    <2>5. QED
      BY <1>6, <2>2, <2>4
  <1>7. QED
    BY <1>4, <1>5, <1>6

(* The cubic with the roots a, b and c.                                    *)
Cubic(x, e, f, g) ==
  mul(mul(x, x), x) = XOR(XOR(mul(e, mul(x, x)), mul(f, x)), g)

SumOne(a, b, c) == XOR(XOR(a, b), c)
SumTwo(a, b, c) == XOR(XOR(mul(a, b), mul(a, c)), mul(b, c))
SumThree(a, b, c) == mul(mul(a, b), c)

LEMMA SumBytes ==
  ASSUME NEW a \in Byte, NEW b \in Byte, NEW c \in Byte
  PROVE  SumOne(a, b, c) \in Byte /\ SumTwo(a, b, c) \in Byte /\ SumThree(a, b, c) \in Byte
  BY MulByte, XorByte DEF SumOne, SumTwo, SumThree

LEMMA SumsTurn ==
  ASSUME NEW a \in Byte, NEW b \in Byte, NEW c \in Byte
  PROVE  SumOne(b, c, a) = SumOne(a, b, c) /\ SumTwo(b, c, a) = SumTwo(a, b, c)
         /\ SumThree(b, c, a) = SumThree(a, b, c)
  <1>1. SumOne(b, c, a) = SumOne(a, b, c)
    BY DEF SumOne, XOR, SymDiff
  <1>2. SumTwo(b, c, a) = SumTwo(a, b, c)
    <2>1. mul(b, a) = mul(a, b) /\ mul(c, a) = mul(a, c)
      BY MulByte
    <2>2. \A x, y, z : XOR(XOR(x, y), z) = XOR(XOR(y, z), x)
      BY DEF XOR, SymDiff
    <2>3. XOR(XOR(mul(b, c), mul(a, b)), mul(a, c)) = XOR(XOR(mul(a, b), mul(a, c)), mul(b, c))
      BY <2>2
    <2>4. QED
      BY <2>1, <2>3 DEF SumTwo
  <1>3. SumThree(b, c, a) = SumThree(a, b, c)
    <2>1. mul(mul(a, b), c) = mul(a, mul(b, c)) /\ mul(b, c) \in Byte
      BY MulAssociates, MulByte
    <2>2. mul(mul(b, c), a) = mul(a, mul(b, c))
      BY <2>1, MulByte
    <2>3. QED
      BY <2>1, <2>2 DEF SumThree
  <1>4. QED
    BY <1>1, <1>2, <1>3

LEMMA RootOfCubic ==
  ASSUME NEW a \in Byte, NEW b \in Byte, NEW c \in Byte
  PROVE  Cubic(a, SumOne(a, b, c), SumTwo(a, b, c), SumThree(a, b, c))
  <1> DEFINE s == mul(a, a)
             p == mul(s, a)
             q == mul(mul(a, b), a)
             r == mul(mul(a, c), a)
             t == mul(mul(a, b), c)
  <1>1. s \in Byte /\ mul(a, b) \in Byte /\ mul(a, c) \in Byte /\ mul(b, c) \in Byte
    BY MulByte
  <1>2. mul(SumOne(a, b, c), s) = XOR(XOR(mul(a, s), mul(b, s)), mul(c, s))
    <2>1. mul(XOR(XOR(a, b), c), s) = XOR(mul(XOR(a, b), s), mul(c, s))
      BY <1>1, XorByte, MulDistributes
    <2>2. mul(XOR(a, b), s) = XOR(mul(a, s), mul(b, s))
      BY <1>1, MulDistributes
    <2>3. QED
      BY <2>1, <2>2 DEF SumOne
  <1>3. mul(SumTwo(a, b, c), a) = XOR(XOR(q, r), mul(mul(b, c), a))
    <2>1. XOR(mul(a, b), mul(a, c)) \in Byte
      BY <1>1, XorByte
    <2>2. mul(XOR(XOR(mul(a, b), mul(a, c)), mul(b, c)), a)
            = XOR(mul(XOR(mul(a, b), mul(a, c)), a), mul(mul(b, c), a))
      BY <1>1, <2>1, MulDistributes
    <2>3. mul(XOR(mul(a, b), mul(a, c)), a) = XOR(q, r)
      BY <1>1, MulDistributes
    <2>4. QED
      BY <2>2, <2>3 DEF SumTwo
  <1>4. mul(a, s) = p
    BY <1>1, MulByte
  <1>5. mul(b, s) = q
    <2>1. mul(mul(b, a), a) = mul(b, s) /\ mul(b, a) = mul(a, b)
      BY MulAssociates, MulByte
    <2>2. QED
      BY <2>1
  <1>6. mul(c, s) = r
    <2>1. mul(mul(c, a), a) = mul(c, s) /\ mul(c, a) = mul(a, c)
      BY MulAssociates, MulByte
    <2>2. QED
      BY <2>1
  <1>7. mul(mul(b, c), a) = t
    BY SumsTurn DEF SumThree
  <1>8. \A x, y, z, w : x = XOR(XOR(XOR(XOR(x, y), z), XOR(XOR(y, z), w)), w)
    BY DEF XOR, SymDiff
  <1> HIDE DEF s, p, q, r, t
  <1>9. p = XOR(XOR(XOR(XOR(p, q), r), XOR(XOR(q, r), t)), t)
    BY <1>8
  <1>10. p = XOR(XOR(mul(SumOne(a, b, c), s), mul(SumTwo(a, b, c), a)), t)
    BY <1>2, <1>3, <1>4, <1>5, <1>6, <1>7, <1>9
  <1>11. QED
    BY <1>10 DEF Cubic, s, p, t, SumThree

(* Terms that are the sums, or the multiples, of others.                   *)
TermsAdded(J, t, u, w) == \A j \in J : t[j] \in Byte /\ u[j] \in Byte /\ w[j] = XOR(t[j], u[j])
TermsScaled(J, a, t, u) == \A j \in J : t[j] \in Byte /\ u[j] = mul(a, t[j])

LEMMA AddedSum ==
  ASSUME NEW J, IsFiniteSet(J), NEW t, NEW u, NEW w, TermsAdded(J, t, u, w)
  PROVE  XorAll(J, w) = XOR(XorAll(J, t), XorAll(J, u))
  BY XorAllXor DEF TermsAdded

LEMMA ScaledSum ==
  ASSUME NEW J, IsFiniteSet(J), NEW a \in Byte, NEW t, NEW u, TermsScaled(J, a, t, u)
  PROVE  XorAll(J, u) = mul(a, XorAll(J, t))
  BY XorAllTimes DEF TermsScaled

(* When the nodes of the columns are roots of x^3 + e x^2 + f x + g, row 3 *)
(* is made of the three rows before it.                                    *)
Roots(J, e, f, g) == \A j \in J : Cubic(Weight(j), e, f, g)

RowSum(i, J, v) == XorAll(J, [j \in J |-> mul(Weight(i * j), v[j])])

LEMMA CubicRows ==
  ASSUME NEW J \in SUBSET Nat, IsFiniteSet(J), NEW e \in Byte, NEW f \in Byte, NEW g \in Byte,
         Roots(J, e, f, g), NEW v \in [J -> Byte]
  PROVE  RowSum(3, J, v)
           = XOR(XOR(mul(e, RowSum(2, J, v)), mul(f, RowSum(1, J, v))), mul(g, RowSum(0, J, v)))
  <1> DEFINE t0 == [j \in J |-> mul(Weight(0 * j), v[j])]
             t1 == [j \in J |-> mul(Weight(1 * j), v[j])]
             t2 == [j \in J |-> mul(Weight(2 * j), v[j])]
             t3 == [j \in J |-> mul(Weight(3 * j), v[j])]
             u0 == [j \in J |-> mul(g, t0[j])]
             u1 == [j \in J |-> mul(f, t1[j])]
             u2 == [j \in J |-> mul(e, t2[j])]
             w == [j \in J |-> XOR(u2[j], u1[j])]
  <1>1. /\ RowSum(0, J, v) = XorAll(J, t0) /\ RowSum(1, J, v) = XorAll(J, t1)
        /\ RowSum(2, J, v) = XorAll(J, t2) /\ RowSum(3, J, v) = XorAll(J, t3)
    BY DEF RowSum
  <1>2. /\ \A j \in J : u0[j] = mul(g, t0[j]) /\ u1[j] = mul(f, t1[j]) /\ u2[j] = mul(e, t2[j])
        /\ \A j \in J : w[j] = XOR(u2[j], u1[j])
    OBVIOUS
  <1>3. ASSUME NEW j \in J
        PROVE  /\ t0[j] \in Byte /\ t1[j] \in Byte /\ t2[j] \in Byte
               /\ u0[j] \in Byte /\ u1[j] \in Byte /\ u2[j] \in Byte /\ w[j] \in Byte
               /\ t3[j] = XOR(w[j], u0[j])
    <2> DEFINE x == Weight(j)
               s == mul(x, x)
               y == v[j]
    <2>1. /\ j \in Nat /\ 0 * j = 0 /\ 1 * j = j /\ 2 * j = j + j /\ 3 * j = (j + j) + j /\ j + j \in Nat
          /\ y \in Byte
      OBVIOUS
    <2>2. x \in Byte /\ Weight(0 * j) = {0} /\ Weight(1 * j) = x /\ {0} \in Byte
      BY <2>1, WeightFacts, WeightZero, ByteFacts
    <2>3. Weight(2 * j) = s
      BY <2>1, WeightTimes
    <2>4. Weight(3 * j) = mul(s, x)
      BY <2>1, <2>3, WeightTimes
    <2>5. mul(s, x) = XOR(XOR(mul(e, s), mul(f, x)), g)
      BY DEF Cubic, Roots
    <2>6. t0[j] = y /\ t1[j] = mul(x, y) /\ t2[j] = mul(s, y) /\ t3[j] = mul(mul(s, x), y)
      BY <2>1, <2>2, <2>3, <2>4, MulOne
    <2>7. u0[j] = mul(g, t0[j]) /\ u1[j] = mul(f, t1[j]) /\ u2[j] = mul(e, t2[j]) /\ w[j] = XOR(u2[j], u1[j])
      BY <1>2
    <2> HIDE DEF t0, t1, t2, t3, u0, u1, u2, w, x, y
    <2>8. s \in Byte
      BY <2>2, MulByte
    <2> HIDE DEF s
    <2>9. mul(x, y) \in Byte /\ mul(s, y) \in Byte /\ mul(e, s) \in Byte /\ mul(f, x) \in Byte
      BY <2>1, <2>2, <2>8, MulByte
    <2>10. t0[j] \in Byte /\ t1[j] \in Byte /\ t2[j] \in Byte
      BY <2>1, <2>6, <2>9
    <2>11. u0[j] \in Byte /\ u1[j] \in Byte /\ u2[j] \in Byte
      BY <2>7, <2>10, MulByte
    <2>12. w[j] \in Byte
      BY <2>7, <2>11, XorByte
    <2>13. mul(XOR(XOR(mul(e, s), mul(f, x)), g), y)
             = XOR(XOR(mul(mul(e, s), y), mul(mul(f, x), y)), mul(g, y))
      <3>1. XOR(mul(e, s), mul(f, x)) \in Byte
        BY <2>9, XorByte
      <3>2. mul(XOR(XOR(mul(e, s), mul(f, x)), g), y)
              = XOR(mul(XOR(mul(e, s), mul(f, x)), y), mul(g, y))
        BY <2>1, <3>1, MulDistributes
      <3>3. mul(XOR(mul(e, s), mul(f, x)), y) = XOR(mul(mul(e, s), y), mul(mul(f, x), y))
        BY <2>1, <2>9, MulDistributes
      <3>4. QED
        BY <3>2, <3>3
    <2>14. mul(mul(e, s), y) = u2[j]
      <3>1. mul(mul(e, s), y) = mul(e, mul(s, y))
        BY <2>1, <2>8, MulAssociates
      <3>2. QED
        BY <2>6, <2>7, <3>1
    <2>15. mul(mul(f, x), y) = u1[j]
      <3>1. mul(mul(f, x), y) = mul(f, mul(x, y))
        BY <2>1, <2>2, MulAssociates
      <3>2. QED
        BY <2>6, <2>7, <3>1
    <2>16. t3[j] = XOR(XOR(u2[j], u1[j]), u0[j])
      BY <2>5, <2>6, <2>7, <2>13, <2>14, <2>15
    <2>17. QED
      BY <2>7, <2>10, <2>11, <2>12, <2>16
  <1> HIDE DEF t0, t1, t2, t3, u0, u1, u2, w
  <1>4. XorAll(J, t3) = XOR(XorAll(J, w), XorAll(J, u0))
    <2>1. TermsAdded(J, w, u0, t3)
      BY <1>3 DEF TermsAdded
    <2>2. QED
      BY <2>1, AddedSum
  <1>5. XorAll(J, w) = XOR(XorAll(J, u2), XorAll(J, u1))
    <2>1. TermsAdded(J, u2, u1, w)
      BY <1>2, <1>3 DEF TermsAdded
    <2>2. QED
      BY <2>1, AddedSum
  <1>6. XorAll(J, u0) = mul(g, XorAll(J, t0))
    <2>1. TermsScaled(J, g, t0, u0)
      BY <1>2, <1>3 DEF TermsScaled
    <2>2. QED
      BY <2>1, ScaledSum
  <1>7. XorAll(J, u1) = mul(f, XorAll(J, t1))
    <2>1. TermsScaled(J, f, t1, u1)
      BY <1>2, <1>3 DEF TermsScaled
    <2>2. QED
      BY <2>1, ScaledSum
  <1>8. XorAll(J, u2) = mul(e, XorAll(J, t2))
    <2>1. TermsScaled(J, e, t2, u2)
      BY <1>2, <1>3 DEF TermsScaled
    <2>2. QED
      BY <2>1, ScaledSum
  <1>9. QED
    BY <1>1, <1>4, <1>5, <1>6, <1>7, <1>8

(* A row and the rows 0, 1 and 2: the selections {0, 1, 3} and {0, 2, 3}.  *)
LEMMA GapSum ==
  ASSUME NEW n \in Nat, Gaps(n), NEW m \in Nat, NEW d \in 1..(n - 1), NEW e \in 1..(n - 1)
  PROVE  XOR(XOR(Weight(m), Weight(m + d)), Weight(m + e)) # {}
  <1> SUFFICES ASSUME XOR(XOR(Weight(m), Weight(m + d)), Weight(m + e)) = {} PROVE FALSE
    OBVIOUS
  <1>1. Weight(m) \in Byte /\ Weight(d) \in Byte /\ Weight(e) \in Byte /\ Weight(m) # {} /\ {0} \in Byte
    BY WeightFacts, ByteFacts
  <1>2. mul(Weight(m), Weight(d)) = Weight(m + d) /\ mul(Weight(m), Weight(e)) = Weight(m + e)
        /\ mul(Weight(m), {0}) = Weight(m)
    BY <1>1, WeightTimes, MulOne
  <1> DEFINE s == XOR({0}, Weight(d))
  <1>3. s \in Byte /\ mul(Weight(m), s) = XOR(Weight(m), Weight(m + d))
    BY <1>1, <1>2, XorByte, MulDistributes
  <1>4. s # Weight(e)
    <2>1. d \in Nat /\ e \in Nat /\ d < Order /\ e < Order
      BY OrderPositive DEF Gaps
    <2>2. Weight(d) = EXP[d] /\ Weight(e) = EXP[e]
      BY <2>1, WeightFacts
    <2>3. QED
      BY <2>2 DEF Gaps
  <1> HIDE DEF s
  <1>5. mul(Weight(m), XOR(s, Weight(e))) = {}
    BY <1>1, <1>2, <1>3, MulDistributes
  <1>6. XOR(s, Weight(e)) \in Byte
    BY <1>1, <1>3, XorByte
  <1>7. XOR(s, Weight(e)) = {}
    BY <1>1, <1>5, <1>6, MulZeroFactor
  <1>8. QED
    BY <1>4, <1>7, SameWhenZero

LEMMA ThreeCounted ==
  ASSUME NEW a, NEW b, NEW c, Distinct(a, b, c)
  PROVE  Cardinality({a, b, c}) = 3
  <1>1. b \notin {a} /\ c \notin {a, b}
    BY DEF Distinct
  <1>2. IsFiniteSet({a}) /\ Cardinality({a}) = 1
    BY FS_Singleton
  <1> DEFINE S == {a} \cup {b}
  <1>3. IsFiniteSet(S) /\ Cardinality(S) = Cardinality({a}) + 1
    BY <1>1, <1>2, FS_AddElement
  <1>4. S = {a, b}
    OBVIOUS
  <1> HIDE DEF S
  <1>5. Cardinality(S \cup {c}) = Cardinality(S) + 1
    BY <1>1, <1>3, <1>4, FS_AddElement
  <1>6. S \cup {c} = {a, b, c}
    BY <1>4
  <1>7. QED
    BY <1>2, <1>3, <1>5, <1>6

LEMMA ThreeInOrder ==
  ASSUME NEW S \in SUBSET Nat, IsFiniteSet(S), Cardinality(S) = 3
  PROVE  \E a \in S, b \in S, c \in S : a < b /\ b < c /\ S = {a, b, c}
  <1>1. PICK x \in S, y \in S, z \in S : Distinct(x, y, z) /\ S = {x, y, z}
    BY ThreeElements
  <1>2. x \in Nat /\ y \in Nat /\ z \in Nat /\ x # y /\ x # z /\ y # z
    BY <1>1 DEF Distinct
  <1>3. /\ {x, y, z} = {x, z, y} /\ {x, y, z} = {y, x, z} /\ {x, y, z} = {y, z, x}
        /\ {x, y, z} = {z, x, y} /\ {x, y, z} = {z, y, x}
    OBVIOUS
  <1>4. CASE x < y /\ y < z
    BY <1>1, <1>4
  <1>5. CASE x < z /\ z < y
    BY <1>1, <1>3, <1>5
  <1>6. CASE y < x /\ x < z
    BY <1>1, <1>3, <1>6
  <1>7. CASE y < z /\ z < x
    BY <1>1, <1>3, <1>7
  <1>8. CASE z < x /\ x < y
    BY <1>1, <1>3, <1>8
  <1>9. CASE z < y /\ y < x
    BY <1>1, <1>3, <1>9
  <1>10. QED
    BY <1>2, <1>4, <1>5, <1>6, <1>7, <1>8, <1>9

LEMMA SkewVanishes ==
  ASSUME NEW n \in Nat, n <= Order, Gaps(n), NEW J \in SUBSET (0..(n - 1)),
         IsFiniteSet(J), Cardinality(J) = 3, NEW I \in {{0, 1, 3}, {0, 2, 3}}
  PROVE  Vanishes(I, J)
  <1>1. J \in SUBSET Nat
    OBVIOUS
  <1>2. PICK a \in J, b \in J, c \in J : a < b /\ b < c /\ J = {a, b, c}
    BY <1>1, ThreeInOrder
  <1> DEFINE x == Weight(a)
             y == Weight(b)
             z == Weight(c)
             e == SumOne(x, y, z)
             f == SumTwo(x, y, z)
             g == SumThree(x, y, z)
  <1>3. a \in Nat /\ b \in Nat /\ c \in Nat /\ c <= n - 1
    BY <1>2
  <1>4. x \in Byte /\ y \in Byte /\ z \in Byte
    BY <1>3, WeightFacts
  <1>5. e \in Byte /\ f \in Byte /\ g \in Byte
    BY <1>4, SumBytes
  <1>6. e # {}
    <2>1. b - a \in 1..(n - 1) /\ c - a \in 1..(n - 1) /\ a + (b - a) = b /\ a + (c - a) = c
      BY <1>2, <1>3
    <2>2. XOR(XOR(Weight(a), Weight(a + (b - a))), Weight(a + (c - a))) # {}
      BY <1>3, <2>1, GapSum
    <2>3. QED
      BY <2>1, <2>2 DEF SumOne
  <1>7. f # {}
    <2>1. /\ c - b \in 1..(n - 1) /\ c - a \in 1..(n - 1) /\ a + b \in Nat
          /\ (a + b) + (c - b) = a + c /\ (a + b) + (c - a) = b + c
      BY <1>2, <1>3
    <2>2. XOR(XOR(Weight(a + b), Weight((a + b) + (c - b))), Weight((a + b) + (c - a))) # {}
      BY <2>1, GapSum
    <2>3. mul(x, y) = Weight(a + b) /\ mul(x, z) = Weight(a + c) /\ mul(y, z) = Weight(b + c)
      BY <1>3, WeightTimes
    <2>4. QED
      BY <2>1, <2>2, <2>3 DEF SumTwo
  <1>8. Roots(J, e, f, g)
    <2>1. Cubic(x, e, f, g)
      BY <1>4, RootOfCubic
    <2>2. Cubic(y, SumOne(y, z, x), SumTwo(y, z, x), SumThree(y, z, x))
      BY <1>4, RootOfCubic
    <2>3. Cubic(z, SumOne(z, x, y), SumTwo(z, x, y), SumThree(z, x, y))
      BY <1>4, RootOfCubic
    <2>4. SumOne(y, z, x) = e /\ SumTwo(y, z, x) = f /\ SumThree(y, z, x) = g
      BY <1>4, SumsTurn
    <2>5. SumOne(z, x, y) = e /\ SumTwo(z, x, y) = f /\ SumThree(z, x, y) = g
      BY <1>4, <2>4, SumsTurn
    <2> HIDE DEF e, f, g
    <2>6. QED
      BY <1>2, <2>1, <2>2, <2>3, <2>4, <2>5 DEF Roots
  <1> HIDE DEF e, f, g, x, y, z
  <1> SUFFICES ASSUME NEW v \in [J -> Byte], \A i \in I : Sends(i, J, v)
               PROVE  \A j \in J : v[j] = {}
    BY DEF Vanishes
  <1>9. \A i \in Nat : (Sends(i, J, v) <=> RowSum(i, J, v) = {}) /\ RowSum(i, J, v) \in Byte
    BY XorAllByte DEF Sends, RowSum
  <1>10. RowSum(3, J, v)
           = XOR(XOR(mul(e, RowSum(2, J, v)), mul(f, RowSum(1, J, v))), mul(g, RowSum(0, J, v)))
    BY <1>1, <1>5, <1>8, CubicRows
  <1>11. RowSum(0, J, v) = {} /\ RowSum(3, J, v) = {}
    BY <1>9
  <1> DEFINE r1 == RowSum(1, J, v)
             r2 == RowSum(2, J, v)
  <1>12. r1 \in Byte /\ r2 \in Byte
    BY <1>9
  <1>13. XOR(mul(e, r2), mul(f, r1)) = {}
    <2>1. mul(g, {}) = {} /\ XOR(XOR(mul(e, r2), mul(f, r1)), {}) = XOR(mul(e, r2), mul(f, r1))
      BY MulZero, XorZero
    <2>2. QED
      BY <1>10, <1>11, <2>1
  <1> HIDE DEF r1, r2
  <1>14. r1 = {} /\ r2 = {}
    <2>1. CASE I = {0, 1, 3}
      <3>1. r1 = {}
        BY <1>9, <2>1 DEF r1
      <3>2. mul(e, r2) = {}
        BY <1>13, <3>1, MulZero, XorZero
      <3>3. r2 = {}
        BY <1>5, <1>6, <1>12, <3>2, MulZeroFactor
      <3>4. QED
        BY <3>1, <3>3
    <2>2. CASE I = {0, 2, 3}
      <3>1. r2 = {}
        BY <1>9, <2>2 DEF r2
      <3>2. mul(f, r1) = {}
        BY <1>13, <3>1, MulZero, XorZero
      <3>3. r1 = {}
        BY <1>5, <1>7, <1>12, <3>2, MulZeroFactor
      <3>4. QED
        BY <3>1, <3>3
    <2>3. QED
      BY <2>1, <2>2
  <1>15. Vanishes(Progression(0, 1, 3), J)
    <2>1. \A j, l \in J : j # l => Weight(1 * j) # Weight(1 * l)
      BY NodesDiffer
    <2>2. QED
      BY <1>1, <2>1, ProgressionVanishes
  <1>16. Progression(0, 1, 3) = {0, 1, 2}
    BY ShortProgressions
  <1>17. Sends(0, J, v) /\ Sends(1, J, v) /\ Sends(2, J, v)
    BY <1>9, <1>11, <1>14 DEF r1, r2
  <1>18. QED
    BY <1>15, <1>16, <1>17 DEF Vanishes

(* Any of four rows, over as many columns.                                 *)
LEMMA FourRowsVanish ==
  ASSUME NEW n \in Nat, n <= Order, NEW I \in SUBSET (0..3), NEW J \in SUBSET (0..(n - 1)),
         Cardinality(I) = Cardinality(J), 3 \in I => Gaps(n)
  PROVE  Vanishes(I, J)
  <1>1. J \in SUBSET Nat /\ IsFiniteSet(J)
    <2>1. 0 \in Int /\ n - 1 \in Int
      OBVIOUS
    <2>2. IsFiniteSet(0..(n - 1))
      BY <2>1, FS_Interval
    <2>3. IsFiniteSet(J)
      BY <2>2, FS_Subset
    <2>4. QED
      BY <2>3
  <1>2. CASE I \in {{0, 1, 3}, {0, 2, 3}}
    <2>1. Cardinality(I) = 3
      <3>1. Distinct(0, 1, 3) /\ Distinct(0, 2, 3)
        BY DEF Distinct
      <3>2. Cardinality({0, 1, 3}) = 3 /\ Cardinality({0, 2, 3}) = 3
        BY <3>1, ThreeCounted
      <3>3. QED
        BY <1>2, <3>2
    <2>2. 3 \in I
      BY <1>2
    <2>3. QED
      BY <1>1, <1>2, <2>1, <2>2, SkewVanishes
  <1>3. CASE EvenlySpaced(I)
    <2>1. PICK i \in 0..3, d \in 1..3, l \in Nat : I = Progression(i, d, l) /\ (3 \notin I => d <= 2)
      BY <1>3 DEF EvenlySpaced
    <2>2. Cardinality(I) = l
      BY <2>1, ProgressionSize
    <2>3. d <= 2 \/ Gaps(n)
      BY <2>1
    <2>4. \A j, r \in J : j # r => Weight(d * j) # Weight(d * r)
      BY <2>3, NodesDiffer
    <2>5. i \in Nat /\ d \in Nat
      OBVIOUS
    <2>6. Vanishes(Progression(i, d, Cardinality(J)), J)
      BY <1>1, <2>4, <2>5, ProgressionVanishes
    <2>7. QED
      BY <2>1, <2>2, <2>6
  <1>4. QED
    BY <1>2, <1>3, FourRows

(* The shapes for which every selection of a Vandermonde matrix separates: *)
(* few rows or few columns, and with four of one not too many of the other.*)
SafeShape(k, p) ==
  \/ k <= 3 \/ p <= 3
  \/ k = 4 /\ Gaps(p)
  \/ p = 4 /\ Gaps(k)

(* What reed_solomon does not refuse, when 21 nodes have their gaps, is of *)
(* one of these shapes, or five sources with five parity rows.             *)
LEMMA SafeShapes ==
  ASSUME Gaps(21), NEW k \in Nat, NEW p \in Nat, check_dims(k, p), vandermonde_safe(k, k + p)
  PROVE  SafeShape(k, p) \/ (k = 5 /\ p = 5)
  <1>1. ASSUME NEW n \in Nat, n <= 21
        PROVE  Gaps(n)
    <2>1. Order \in Nat
      BY OrderIs
    <2>2. 3 * (n - 1) < Order /\ 1..(n - 1) \subseteq 1..20
      BY <1>1, <2>1 DEF Gaps
    <2>3. 21 - 1 = 20
      OBVIOUS
    <2>4. \A d, e \in 1..20 : XOR({0}, EXP[d]) # EXP[e]
      BY <2>3 DEF Gaps
    <2>5. QED
      BY <2>2, <2>4 DEF Gaps
  <1>2. \/ k <= 3 \/ p <= 3
        \/ k = 4 /\ p <= 21
        \/ k = 5 /\ p <= 5
        \/ k <= 21 /\ p = 4
    BY DEF vandermonde_safe
  <1>3. k = 4 /\ p <= 21 => SafeShape(k, p)
    BY <1>1 DEF SafeShape
  <1>4. k <= 21 /\ p = 4 => SafeShape(k, p)
    BY <1>1 DEF SafeShape
  <1>5. k = 5 /\ p <= 5 => SafeShape(k, p) \/ (k = 5 /\ p = 5)
    <2>1. k = 5 /\ p <= 5 => p <= 3 \/ (k <= 21 /\ p = 4) \/ (k = 5 /\ p = 5)
      OBVIOUS
    <2>2. p <= 3 => SafeShape(k, p)
      BY DEF SafeShape
    <2>3. QED
      BY <1>4, <2>1, <2>2
  <1>6. QED
    BY <1>2, <1>3, <1>4, <1>5 DEF SafeShape

LEMMA VandermondeSeparates ==
  ASSUME NEW k \in Nat, NEW p \in Nat, check_dims(k, p), SafeShape(k, p)
  PROVE  Separates(vandermonde(k, p), k, p)
  <1> DEFINE A == vandermonde(k, p)
  <1>1. \A i \in ParityRows(k, p), j \in Upto(k) : A.at[i][j] = Weight((i - k) * j)
    BY VandermondeShape
  <1> HIDE DEF A
  <1>2. SUFFICES ASSUME NEW I \in SUBSET ParityRows(k, p), NEW J \in SUBSET Upto(k),
                        Cardinality(I) = Cardinality(J), NEW v \in [Upto(k) -> Byte],
                        \A j \in Upto(k) \ J : v[j] = {},
                        \A i \in I : Dot(Upto(k), A.at[i], v) = {}
                 PROVE  \A j \in J : v[j] = {}
    BY DEF Separates, A
  <1>3. k # 0 /\ p # 0 /\ k + p <= Order /\ Order \in Nat /\ k <= Order /\ p <= Order
    BY OrderIs DEF check_dims
  <1> DEFINE f == [i \in I |-> i - k]
             R == {i - k : i \in I}
             w == [j \in J |-> v[j]]
  <1>4. ASSUME NEW i \in I
        PROVE  i \in Nat /\ i - k \in 0..(p - 1) /\ Sends(i - k, J, w)
    <2>1. i \in Nat /\ i - k \in Nat /\ i - k \in 0..(p - 1) /\ i \in ParityRows(k, p)
      BY <1>3 DEF ParityRows
    <2> DEFINE c == [j \in J |-> Weight((i - k) * j)]
               t == [j \in J |-> mul(c[j], v[j])]
               u == [j \in J |-> mul(Weight((i - k) * j), w[j])]
    <2>2. \A j \in J : A.at[i][j] = c[j] /\ v[j] = v[j]
      BY <1>1, <2>1
    <2>3. t = u
      OBVIOUS
    <2>4. Dot(J, c, v) = XorAll(J, t)
      BY DEF Dot
    <2> HIDE DEF c, t, u
    <2>5. Dot(J, c, v) = Dot(Upto(k), A.at[i], v)
      BY <1>2, <2>2, DotWithin
    <2>6. XorAll(J, u) = {}
      BY <1>2, <2>3, <2>4, <2>5
    <2>7. QED
      BY <2>1, <2>6 DEF Sends, u
  <1>5. /\ IsFiniteSet(I) /\ IsFiniteSet(J)
    <2>1. k \in Int /\ k + p - 1 \in Int
      BY <1>3
    <2>2. IsFiniteSet(k..(k + p - 1))
      BY <2>1, FS_Interval
    <2>3. IsFiniteSet(ParityRows(k, p)) /\ IsFiniteSet(Upto(k))
      BY <2>2, UptoFinite DEF ParityRows
    <2>4. QED
      BY <2>3, FS_Subset
  <1>6. R \in SUBSET (0..(p - 1)) /\ J \in SUBSET (0..(k - 1))
    BY <1>3, <1>4 DEF Upto
  <1>7. w \in [J -> Byte] /\ \A j \in J : w[j] = v[j]
    BY <1>6 DEF Upto
  <1>8. \A x \in R : Sends(x, J, w)
    BY <1>4
  <1>9. IsFiniteSet(R) /\ Cardinality(R) = Cardinality(I)
    <2>1. f \in [I -> R] /\ \A i \in I : f[i] = i - k
      OBVIOUS
    <2>2. ASSUME NEW i \in I, NEW l \in I, f[i] = f[l]
          PROVE  i = l
      <3>1. i \in Nat /\ l \in Nat /\ k \in Nat
        BY <1>4
      <3>2. i - k = l - k
        BY <2>1, <2>2
      <3>3. QED
        BY <3>1, <3>2
    <2>3. \A x \in R : \E i \in I : f[i] = x
      BY <2>1
    <2> HIDE DEF f, R
    <2>4. f \in Bijection(I, R)
      BY <2>1, <2>2, <2>3 DEF Bijection, Injection, Surjection, IsInjective
    <2>5. ExistsBijection(I, R)
      BY <2>4 DEF ExistsBijection
    <2>6. IsFiniteSet(R) /\ Cardinality(I) = Cardinality(R)
      BY <1>5, <2>5, FS_Bijection
    <2>7. QED
      BY <2>6
  <1> HIDE DEF f, R, w
  <1>10. R \in SUBSET Nat /\ J \in SUBSET Nat
    BY <1>6
  <1>11. ASSUME p <= 3 \/ (p = 4 /\ Gaps(k))
         PROVE  Vanishes(R, J)
    <2>1. R \in SUBSET (0..3)
      BY <1>3, <1>6, <1>11
    <2>2. 3 \in R => Gaps(k)
      BY <1>6, <1>11
    <2>3. QED
      BY <1>2, <1>3, <1>6, <1>9, <2>1, <2>2, FourRowsVanish
  <1>12. ASSUME k <= 3 \/ (k = 4 /\ Gaps(p))
         PROVE  Vanishes(R, J)
    <2>1. J \in SUBSET (0..3)
      BY <1>3, <1>6, <1>12
    <2>2. 3 \in J => Gaps(p)
      BY <1>6, <1>12
    <2>3. Cardinality(J) = Cardinality(R)
      BY <1>2, <1>9
    <2>4. Vanishes(J, R)
      BY <1>3, <1>6, <2>1, <2>2, <2>3, FourRowsVanish
    <2>5. QED
      BY <1>5, <1>9, <1>10, <2>3, <2>4, VanishesTransposed
  <1>13. Vanishes(R, J)
    BY <1>11, <1>12 DEF SafeShape
  <1>14. \A j \in J : w[j] = {}
    BY <1>7, <1>8, <1>13 DEF Vanishes
  <1>15. QED
    BY <1>7, <1>14

(***************************************************************************)
(* The matrix of the reed-solomon-erasure crate: a Vandermonde matrix with *)
(* the nodes 0, 1, 2, ..., times the inverse of its top.                   *)
(***************************************************************************)
LEMMA PowerNext ==
  ASSUME NEW g \in Byte, NEW n \in Nat
  PROVE  Power(g, 0) = {0} /\ Power(g, n) \in Byte /\ Power(g, n + 1) = mul(g, Power(g, n))
  <1> DEFINE h == [x \in Upto(n + 2) |-> Power(g, x)]
             m == n + 1
  <1>0. m \in Nat
    OBVIOUS
  <1> HIDE DEF m
  <1>1. PICK f : /\ f = [x \in 0..m |-> IF x = 0 THEN {0} ELSE mul(f[x - 1], g)]
                 /\ \A x \in 0..m : f[x] \in Byte
    BY <1>0, PowersExist
  <1> USE DEF m
  <1>2. \A x \in 0..(n + 1) : f[x] = IF x = 0 THEN {0} ELSE mul(f[x - 1], g)
    BY <1>1
  <1>3. PowersUpTo(f, g, n + 2)
    BY <1>1, <1>2 DEF PowersUpTo, Upto
  <1>4. \A x \in Upto(n + 2) : Power(g, x) = f[x] /\ Power(g, x) \in Byte
    BY <1>3, PowerIs
  <1>5. 0 \in Upto(n + 2) /\ n \in Upto(n + 2) /\ n + 1 \in Upto(n + 2) /\ n + 1 # 0 /\ (n + 1) - 1 = n
    BY DEF Upto
  <1>6. Power(g, 0) = {0}
    BY <1>2, <1>4, <1>5
  <1>7. Power(g, n + 1) = mul(Power(g, n), g)
    BY <1>2, <1>4, <1>5
  <1>8. QED
    BY <1>4, <1>5, <1>6, <1>7, MulByte

LEMMA PowersOfRowsShape ==
  ASSUME NEW n \in Nat, NEW k \in Nat, k # 0, k <= n, n <= Order + 1
  PROVE  LET V == powers_of_rows(n, k).ok
         IN  /\ V.rows = n /\ V.cols = k
             /\ \A r \in Upto(n), c \in Upto(k) :
                  V.at[r][c] = Power(OfNat(r), c) /\ V.at[r][c] \in Byte
  <1> DEFINE V == powers_of_rows(n, k).ok
             data == [e \in Upto(n * k) |-> Power(OfNat(e \div k), e % k)]
  <1>1. Order \in Nat /\ n \in 1..(Order + 1) /\ k \in 1..(Order + 1) /\ DOMAIN data = Upto(n * k)
    BY OrderIs
  <1>2. powers_of_rows(n, k) = from_bytes(n, k, data)
    BY DEF powers_of_rows
  <1> HIDE DEF data
  <1>3. from_bytes(n, k, data) = Ok(Matrix(n, k, LAMBDA r, c : data[r * k + c]))
    BY <1>1 DEF from_bytes
  <1>4. /\ V.rows = n /\ V.cols = k
        /\ \A r \in Upto(n), c \in Upto(k) : V.at[r][c] = data[r * k + c]
    BY <1>2, <1>3 DEF Ok, Matrix
  <1> HIDE DEF V
  <1>5. ASSUME NEW r \in Upto(n), NEW c \in Upto(k)
        PROVE  V.at[r][c] = Power(OfNat(r), c) /\ V.at[r][c] \in Byte
    <2>1. r * k + c \in Upto(n * k) /\ (r * k + c) \div k = r /\ (r * k + c) % k = c
      BY PositionOf
    <2>2. data[r * k + c] = Power(OfNat((r * k + c) \div k), (r * k + c) % k)
      BY <2>1 DEF data
    <2>3. V.at[r][c] = Power(OfNat(r), c)
      BY <1>4, <2>1, <2>2
    <2>4. OfNat(r) \in Byte /\ c \in Nat
      BY DEF OfNat, Byte, Upto
    <2>5. QED
      BY <2>3, <2>4, PowerNext
  <1>6. QED
    BY <1>4, <1>5 DEF V

(* Any k of its rows are a Vandermonde system with different nodes.        *)
RowsOfPowers(R, k) == [r \in R |-> [c \in Upto(k) |-> Power(OfNat(r), c)]]

LEMMA RowsOfPowersSolve ==
  ASSUME NEW k \in Nat, k # 0, NEW R \in SUBSET (0..Order), IsFiniteSet(R), Cardinality(R) = k
  PROVE  OnlyZeroSolves(R, Upto(k), RowsOfPowers(R, k))
  <1> DEFINE m == RowsOfPowers(R, k)
             h == [c \in Upto(k) |-> [r \in R |-> Power(OfNat(r), c)]]
             g == [r \in R |-> OfNat(r)]
  <1>1. \A r \in R : g[r] \in Byte
    BY DEF OfNat, Byte
  <1>2. \A r, s \in R : r # s => g[r] # g[s]
    BY NumberLaws
  <1>3. ASSUME NEW r \in R, NEW c \in Upto(k)
        PROVE  /\ h[c][r] \in Byte /\ m[r][c] = h[c][r]
               /\ c = 0 => h[c][r] # {}
               /\ c + 1 \in Upto(k) => h[c + 1][r] = mul(g[r], h[c][r])
    <2> DEFINE a == OfNat(r)
    <2>1. c \in Nat /\ a \in Byte
      BY DEF Upto, OfNat, Byte
    <2>2. h[c][r] = Power(a, c) /\ m[r][c] = Power(a, c) /\ g[r] = a
      BY DEF RowsOfPowers
    <2>3. c + 1 \in Upto(k) => h[c + 1][r] = Power(a, c + 1)
      OBVIOUS
    <2> HIDE DEF a, h, m, g
    <2>4. Power(a, c) \in Byte /\ Power(a, 0) = {0} /\ Power(a, c + 1) = mul(a, Power(a, c))
      BY <2>1, PowerNext
    <2>5. QED
      BY <2>2, <2>3, <2>4
  <1> HIDE DEF h, g, m
  <1>4. 0 \in Upto(k)
    BY DEF Upto
  <1>5. NodeRows(h, g, k, R)
    BY <1>1, <1>3, <1>4 DEF NodeRows
  <1>6. OnlyZeroSolves(Upto(k), R, h)
    BY <1>2, <1>5, NodesVanish
  <1>7. Entries(Upto(k), R, h) /\ Entries(R, Upto(k), m) /\ Transposed(Upto(k), R, h, m)
    BY <1>3 DEF Entries, Transposed
  <1>8. IsFiniteSet(Upto(k)) /\ Cardinality(Upto(k)) = Cardinality(R)
    BY UptoFinite
  <1>9. OnlyZeroSolves(R, Upto(k), m)
    BY <1>6, <1>7, <1>8, SolvesTransposed
  <1>10. QED
    BY <1>9 DEF m

(* The vector v times T.                                                   *)
Turned(T, k, v) == [j \in Upto(k) |-> Dot(Upto(k), T[j], v)]

LEMMA TurnedRow ==
  ASSUME NEW k \in Nat, NEW u, Bytes(Upto(k), u), NEW T \in Mat(k),
         NEW a, \A c \in Upto(k) : a[c] = Dot(Upto(k), u, Column(T, k, c)),
         NEW v \in [Upto(k) -> Byte]
  PROVE  Dot(Upto(k), a, v) = Dot(Upto(k), u, Turned(T, k, v))
  <1> DEFINE I == Upto(k)
             mt == [c \in I |-> Column(T, k, c)]
             w == Turned(T, k, v)
  <1>1. IsFiniteSet(I) /\ Bytes(I, v)
    BY UptoFinite DEF Bytes
  <1>2. Entries(I, I, T)
    BY DEF Entries, Mat
  <1>3. Transposed(I, I, T, mt)
    BY DEF Transposed, Column
  <1>4. Applied(I, I, T, v, w)
    BY DEF Applied, Turned
  <1>5. Collected(I, I, u, mt, a)
    BY DEF Collected
  <1> HIDE DEF mt, w, I
  <1>6. Dot(I, u, w) = Dot(I, a, v)
    BY <1>1, <1>2, <1>3, <1>4, <1>5, DotExchanged DEF I
  <1>7. QED
    BY <1>6 DEF I, w

(* A left inverse of a matrix is one from the right as well.               *)
LEMMA LeftIsRight ==
  ASSUME NEW k \in Nat, NEW A \in Mat(k), NEW T \in Mat(k), Times(T, A, k) = Identity(k).at,
         Cancels(A, k)
  PROVE  \A i, c \in Upto(k) : Dot(Upto(k), A[i], Column(T, k, c)) = Delta(i, c)
  <1> DEFINE I == Upto(k)
  <1>1. IsFiniteSet(I) /\ Entries(I, I, A)
    BY UptoFinite DEF Entries, Mat
  <1>2. OnlyZeroSolves(I, I, A)
    BY DEF OnlyZeroSolves, Cancels, Kills
  <1>3. AllSolved(I, I, A)
    BY <1>1, <1>2, InjectiveIsOnto
  <1> SUFFICES ASSUME NEW c \in Upto(k)
               PROVE  \A i \in Upto(k) : Dot(Upto(k), A[i], Column(T, k, c)) = Delta(i, c)
    OBVIOUS
  <1> DEFINE y == [i \in I |-> Delta(i, c)]
  <1>4. y \in [I -> Byte] /\ \A i \in I : y[i] = Delta(i, c)
    BY DeltaByte
  <1> HIDE DEF y
  <1>5. PICK v \in [I -> Byte] : \A i \in I : Dot(I, A[i], v) = y[i]
    BY <1>3, <1>4 DEF AllSolved
  <1> DEFINE w == Turned(A, k, v)
  <1>6. \A i \in I : w[i] = y[i]
    BY <1>5 DEF Turned
  <1>7. ASSUME NEW j \in I
        PROVE  v[j] = T[j][c]
    <2> DEFINE u == T[j]
               a == Identity(k).at[j]
    <2>1. Bytes(I, u) /\ \A t \in I : a[t] = Delta(j, t)
      BY IdentityMat DEF Bytes, Mat
    <2>2. \A t \in I : a[t] = Dot(I, u, Column(A, k, t))
      <3>1. \A t \in I : Times(T, A, k)[j][t] = Dot(I, u, Column(A, k, t))
        BY DEF Times
      <3>2. QED
        BY <3>1
    <2> HIDE DEF u, a
    <2>3. Dot(I, a, v) = Dot(I, u, w)
      BY <2>1, <2>2, TurnedRow
    <2>4. Dot(I, a, v) = v[j]
      BY <1>1, <2>1, DotUnit
    <2>5. \A t \in I : u[t] = u[t] /\ w[t] = y[t]
      BY <1>6
    <2> HIDE DEF w
    <2>6. Dot(I, u, w) = Dot(I, u, y)
      BY <2>5, DotSame
    <2>7. Dot(I, u, y) = Dot(I, y, u)
      <3>1. \A t \in I : mul(u[t], y[t]) = mul(y[t], u[t])
        BY <1>4, <2>1, MulByte DEF Bytes
      <3>2. [t \in I |-> mul(u[t], y[t])] = [t \in I |-> mul(y[t], u[t])]
        BY <3>1
      <3>3. QED
        BY <3>2 DEF Dot
    <2>8. Dot(I, y, u) = u[c]
      <3>1. \A t \in I : u[t] \in Byte /\ y[t] = Delta(c, t)
        BY <1>4, <2>1 DEF Delta, Bytes
      <3>2. QED
        BY <1>1, <3>1, DotUnit
    <2>9. QED
      BY <2>3, <2>4, <2>6, <2>7, <2>8 DEF u
  <1>8. \A j \in I : v[j] = Column(T, k, c)[j]
    BY <1>7 DEF Column
  <1>9. ASSUME NEW i \in I
        PROVE  Dot(I, A[i], Column(T, k, c)) = Delta(i, c)
    <2> DEFINE x == Column(T, k, c)
               u == A[i]
    <2>1. \A t \in I : u[t] = u[t] /\ v[t] = x[t]
      BY <1>8
    <2> HIDE DEF x, u
    <2>2. Dot(I, u, v) = Dot(I, u, x)
      BY <2>1, DotSame
    <2>3. QED
      BY <1>4, <1>5, <2>2 DEF x, u
  <1>10. QED
    BY <1>9

LEMMA CompatShape ==
  ASSUME NEW k \in Nat, NEW p \in Nat, k # 0, p # 0, k + p <= Order + 1
  PROVE  LET A == reed_solomon_erasure_matrix(k, p).ok
         IN  /\ IsOk(reed_solomon_erasure_matrix(k, p))
             /\ Systematic(A, k + p, k)
             /\ \A f \in [Upto(k) -> Upto(k + p)] :
                  (\A t, u \in Upto(k) : t # u => f[t] # f[u]) =>
                    IsOk(invert(select_rows(A, k, f)))
  <1> DEFINE V == powers_of_rows(k + p, k).ok
             first == [i \in Upto(k) |-> i]
             S == select_rows(V, k, first)
             R == invert(S)
             T == R.ok.at
             A == reed_solomon_erasure_matrix(k, p).ok
             n == k + p
             I == Upto(k)
  <1>1. k # 0 /\ n <= Order + 1 /\ n \in Nat /\ k <= n /\ Order \in Nat
    BY OrderIs
  <1>2. reed_solomon_erasure_matrix(k, p) = IF IsOk(R) THEN Ok(multiply(V, R.ok)) ELSE R
    <2>1. ~(k = 0 \/ p = 0 \/ k + p > Order + 1)
      BY OrderIs
    <2>2. QED
      BY <2>1 DEF reed_solomon_erasure_matrix
  <1>3. /\ V.rows = n /\ V.cols = k
        /\ \A r \in Upto(n), c \in I : V.at[r][c] = Power(OfNat(r), c) /\ V.at[r][c] \in Byte
    BY <1>1, PowersOfRowsShape
  <1> HIDE DEF V
  <1>4. /\ S.rows = k /\ S.cols = k /\ S.at \in Mat(k)
        /\ \A t, j \in I : S.at[t][j] = V.at[t][j]
    <2>1. \A t \in I : first[t] = t /\ t \in Upto(n)
      BY <1>1 DEF Upto
    <2> HIDE DEF first
    <2>2. QED
      BY <1>3, <2>1 DEF select_rows, Matrix, Mat
  <1> HIDE DEF S
  <1>5. ASSUME NEW f \in [I -> Upto(n)], \A t, u \in I : t # u => f[t] # f[u],
               NEW v \in [I -> Byte], \A t \in I : Dot(I, V.at[f[t]], v) = {}
        PROVE  \A c \in I : v[c] = {}
    <2> DEFINE J == {f[t] : t \in I}
               m == RowsOfPowers(J, k)
    <2>1. J \in SUBSET (0..Order)
      BY <1>1 DEF Upto
    <2>2. f \in Bijection(I, J)
      BY <1>5 DEF Bijection, Injection, Surjection, IsInjective
    <2>3. IsFiniteSet(J) /\ Cardinality(J) = k
      BY <2>2, UptoFinite, FS_Bijection DEF ExistsBijection
    <2>4. ASSUME NEW r \in J
          PROVE  Dot(I, m[r], v) = {}
      <3>1. PICK t \in I : r = f[t]
        OBVIOUS
      <3>2. \A c \in I : m[r][c] = V.at[r][c] /\ v[c] = v[c]
        BY <1>3, <3>1 DEF RowsOfPowers
      <3> HIDE DEF m
      <3>3. Dot(I, m[r], v) = Dot(I, V.at[r], v)
        BY <3>2, DotSame
      <3>4. QED
        BY <1>5, <3>1, <3>3
    <2> HIDE DEF J
    <2>5. OnlyZeroSolves(J, I, m)
      BY <1>1, <2>1, <2>3, RowsOfPowersSolve
    <2>6. QED
      BY <2>4, <2>5 DEF OnlyZeroSolves
  <1>6. Cancels(S.at, k)
    <2> SUFFICES ASSUME NEW v \in [I -> Byte], Kills(S.at, k, v)
                 PROVE  \A c \in I : v[c] = {}
      BY DEF Cancels
    <2>1. first \in [I -> Upto(n)] /\ \A t \in I : first[t] = t
      BY <1>1 DEF Upto
    <2>2. ASSUME NEW t \in I
          PROVE  Dot(I, V.at[first[t]], v) = {}
      <3>1. \A c \in I : S.at[t][c] = V.at[t][c] /\ v[c] = v[c]
        BY <1>4
      <3>2. Dot(I, S.at[t], v) = Dot(I, V.at[t], v)
        BY <3>1, DotSame
      <3>3. QED
        BY <2>1, <3>2 DEF Kills
    <2>3. \A t, u \in I : t # u => first[t] # first[u]
      BY <2>1
    <2> HIDE DEF first
    <2>4. QED
      BY <1>5, <2>1, <2>2, <2>3
  <1>7. IsOk(R)
    BY <1>4, <1>6, CancelsInverts
  <1>8. R.ok.rows = k /\ R.ok.cols = k /\ T \in Mat(k) /\ Times(T, S.at, k) = Identity(k).at
    BY <1>4, <1>7, InvertInverts
  <1>9. IsOk(reed_solomon_erasure_matrix(k, p)) /\ A = multiply(V, R.ok)
    BY <1>2, <1>7 DEF Ok, IsOk
  <1> HIDE DEF R, S
  <1>10. \A i, c \in I : Dot(I, S.at[i], Column(T, k, c)) = Delta(i, c)
    BY <1>4, <1>6, <1>8, LeftIsRight
  <1>11. /\ A.rows = n /\ A.cols = k
        /\ \A r \in Upto(n), c \in I : A.at[r][c] = Dot(I, V.at[r], Column(T, k, c))
    <2>1. ASSUME NEW r \in Upto(n), NEW c \in I
          PROVE  A.at[r][c] = Dot(I, V.at[r], Column(T, k, c))
      <3>1. A.at[r][c] = XorAll(I, [t \in I |-> mul(V.at[r][t], T[t][c])])
        BY <1>9, <1>3, <1>8 DEF multiply, Matrix
      <3>2. \A t \in I : Column(T, k, c)[t] = T[t][c]
        BY DEF Column
      <3>3. [t \in I |-> mul(V.at[r][t], T[t][c])] = [t \in I |-> mul(V.at[r][t], Column(T, k, c)[t])]
        BY <3>2
      <3>4. QED
        BY <3>1, <3>3 DEF Dot
    <2>2. A.rows = n /\ A.cols = k
      BY <1>9, <1>3, <1>8 DEF multiply, Matrix
    <2>3. QED
      BY <2>1, <2>2
  <1> HIDE DEF A
  <1>12. Systematic(A, n, k)
    <2>1. \A r \in Upto(n), c \in I : A.at[r][c] \in Byte
      BY <1>11, DotByte
    <2>2. ASSUME NEW r \in I, NEW c \in I
          PROVE  A.at[r][c] = Delta(r, c)
      <3>1. r \in Upto(n)
        BY <1>1 DEF Upto
      <3>2. \A t \in I : S.at[r][t] = V.at[r][t] /\ Column(T, k, c)[t] = Column(T, k, c)[t]
        BY <1>4
      <3>3. Dot(I, S.at[r], Column(T, k, c)) = Dot(I, V.at[r], Column(T, k, c))
        BY <3>2, DotSame
      <3>4. QED
        BY <1>10, <1>11, <3>1, <3>3
    <2>3. QED
      BY <1>11, <2>1, <2>2 DEF Systematic
  <1>13. ASSUME NEW v \in [I -> Byte], NEW r \in Upto(n)
         PROVE  Dot(I, A.at[r], v) = Dot(I, V.at[r], Turned(T, k, v))
    <2> DEFINE u == V.at[r]
               a == A.at[r]
    <2>1. Bytes(I, u) /\ \A c \in I : a[c] = Dot(I, u, Column(T, k, c))
      BY <1>3, <1>11 DEF Bytes
    <2> HIDE DEF u, a
    <2>2. Dot(I, a, v) = Dot(I, u, Turned(T, k, v))
      BY <1>8, <2>1, TurnedRow
    <2>3. QED
      BY <2>2 DEF u, a
  <1>14. ASSUME NEW f \in [I -> Upto(n)], \A t, u \in I : t # u => f[t] # f[u]
         PROVE  IsOk(invert(select_rows(A, k, f)))
    <2> DEFINE B == select_rows(A, k, f)
    <2>1. B.rows = k /\ B.cols = k /\ B.at \in Mat(k)
          /\ \A t, j \in I : B.at[t][j] = A.at[f[t]][j]
      BY <1>1, <1>12, SelectedRows
    <2> HIDE DEF B
    <2>2. ASSUME NEW v \in [I -> Byte], Kills(B.at, k, v), NEW c \in I
          PROVE  v[c] = {}
      <3> DEFINE w == Turned(T, k, v)
      <3>1. w \in [I -> Byte]
        BY DotByte DEF Turned
      <3>2. ASSUME NEW t \in I
            PROVE  Dot(I, V.at[f[t]], w) = {}
        <4>1. \A j \in I : B.at[t][j] = A.at[f[t]][j] /\ v[j] = v[j]
          BY <2>1
        <4>2. Dot(I, B.at[t], v) = Dot(I, A.at[f[t]], v)
          BY <4>1, DotSame
        <4>3. Dot(I, A.at[f[t]], v) = Dot(I, V.at[f[t]], w)
          BY <1>13
        <4>4. QED
          BY <2>2, <4>2, <4>3 DEF Kills
      <3> HIDE DEF w
      <3>3. \A j \in I : w[j] = {}
        BY <1>5, <1>14, <3>1, <3>2
      <3>4. Dot(I, V.at[c], w) = {}
        BY <3>3, DotZero
      <3>5. c \in Upto(n)
        BY <1>1 DEF Upto
      <3>6. Dot(I, A.at[c], v) = {}
        BY <1>13, <3>4, <3>5 DEF w
      <3> DEFINE a == A.at[c]
      <3>7. \A t \in I : v[t] \in Byte /\ a[t] = Delta(c, t)
        BY <1>12 DEF Systematic
      <3> HIDE DEF a
      <3>8. Dot(I, a, v) = v[c]
        BY <3>7, UptoFinite, DotUnit
      <3>9. QED
        BY <3>6, <3>8 DEF a
    <2>3. Cancels(B.at, k)
      BY <2>2 DEF Cancels
    <2>4. QED
      BY <2>1, <2>3, CancelsInverts DEF B
  <1>15. QED
    BY <1>12, <1>14, <1>9 DEF A

(* A matrix all of whose selections are inverted separates.                *)
LEMMA InvertedSeparates ==
  ASSUME NEW k \in Nat, NEW p \in Nat, NEW A, Systematic(A, k + p, k),
         \A f \in [Upto(k) -> Upto(k + p)] :
           (\A t, u \in Upto(k) : t # u => f[t] # f[u]) => IsOk(invert(select_rows(A, k, f)))
  PROVE  Separates(A, k, p)
  <1> SUFFICES ASSUME NEW I \in SUBSET ParityRows(k, p), NEW J \in SUBSET Upto(k),
                      Cardinality(I) = Cardinality(J), NEW v \in [Upto(k) -> Byte],
                      \A j \in Upto(k) \ J : v[j] = {},
                      \A i \in I : Dot(Upto(k), A.at[i], v) = {},
                      NEW c \in Upto(k)
               PROVE  v[c] = {}
    BY DEF Separates
  <1> DEFINE H == Upto(k) \ J
             S == I \cup H
             f == Smallest(S, k)
             B == select_rows(A, k, f)
             D == invert(B).ok.at
  <1>1. IsFiniteSet(S) /\ Cardinality(S) = k /\ S \in SUBSET Upto(k + p)
    <2>1. IsFiniteSet(Upto(k)) /\ Cardinality(Upto(k)) = k /\ IsFiniteSet(Upto(k + p))
      BY UptoFinite
    <2>2. I \in SUBSET Upto(k + p) /\ H \in SUBSET Upto(k + p) /\ I \cap H = {}
      BY DEF ParityRows, Upto
    <2>3. IsFiniteSet(I) /\ IsFiniteSet(H) /\ IsFiniteSet(J) /\ Upto(k) \cap J = J
      BY <2>1, <2>2, FS_Subset
    <2>4. Cardinality(H) = k - Cardinality(J)
      <3>1. Cardinality(H) = Cardinality(Upto(k)) - Cardinality(Upto(k) \cap J)
        BY <2>1, FS_Difference
      <3>2. Cardinality(Upto(k) \cap J) = Cardinality(J)
        BY <2>3
      <3>3. QED
        BY <2>1, <3>1, <3>2
    <2>5. Cardinality(I) \in Nat /\ Cardinality(J) \in Nat /\ Cardinality(H) \in Nat
      BY <2>3, FS_CardinalityType
    <2> HIDE DEF H
    <2>6. IsFiniteSet(S) /\ Cardinality(S) = Cardinality(I) + Cardinality(H) - Cardinality(I \cap H)
      BY <2>3, FS_Union
    <2>7. Cardinality(I \cap H) = 0
      BY <2>2, FS_EmptySet
    <2>8. Cardinality(S) = k
      BY <2>1, <2>3, <2>4, <2>5, <2>6, <2>7
    <2>9. QED
      BY <2>2, <2>6, <2>8
  <1>2. ASSUME NEW r \in S
        PROVE  Dot(Upto(k), A.at[r], v) = {}
    <2>1. CASE r \in I
      BY <2>1
    <2>2. CASE r \in H
      <3> DEFINE a == A.at[r]
      <3>1. r \in Upto(k) /\ v[r] = {} /\ \A t \in Upto(k) : v[t] \in Byte /\ a[t] = Delta(r, t)
        BY <2>2 DEF Systematic
      <3> HIDE DEF a
      <3>2. Dot(Upto(k), a, v) = v[r]
        BY <3>1, UptoFinite, DotUnit
      <3>3. QED
        BY <3>1, <3>2 DEF a
    <2>3. QED
      BY <2>1, <2>2
  <1> HIDE DEF S
  <1>3. S \in SUBSET Nat
    BY <1>1 DEF Upto
  <1>4. f \in [Upto(k) -> S] /\ \A t, u \in Upto(k) : t # u => f[t] # f[u]
    <2>1. k <= Cardinality(S)
      BY <1>1
    <2>2. f \in [Upto(k) -> S]
      BY <1>1, <1>3, <2>1, SmallestIn
    <2>3. \A t, u \in Upto(k) : t # u => f[t] # f[u]
      BY <1>1, <1>3, <2>1, SmallestDiffer
    <2>4. QED
      BY <2>2, <2>3
  <1> HIDE DEF f
  <1>5. f \in [Upto(k) -> Upto(k + p)]
    BY <1>1, <1>4
  <1>6. /\ B.rows = k /\ B.cols = k /\ B.at \in Mat(k)
        /\ \A t, j \in Upto(k) : B.at[t][j] = A.at[f[t]][j]
    BY <1>5, SelectedRows
  <1>7. IsOk(invert(B))
    BY <1>4, <1>5
  <1> HIDE DEF B
  <1>8. D \in Mat(k) /\ Times(D, B.at, k) = Identity(k).at
    BY <1>6, <1>7, InvertInverts
  <1> HIDE DEF D
  <1> DEFINE u == D[c]
             a == Identity(k).at[c]
             w == Turned(B.at, k, v)
  <1>9. \A t \in Upto(k) : w[t] = {}
    <2> SUFFICES ASSUME NEW t \in Upto(k) PROVE w[t] = {}
      OBVIOUS
    <2>1. \A j \in Upto(k) : B.at[t][j] = A.at[f[t]][j] /\ v[j] = v[j]
      BY <1>6
    <2>2. Dot(Upto(k), B.at[t], v) = Dot(Upto(k), A.at[f[t]], v)
      BY <2>1, DotSame
    <2>3. QED
      BY <1>2, <1>4, <2>2 DEF Turned
  <1>10. Bytes(Upto(k), u) /\ \A t \in Upto(k) : v[t] \in Byte /\ a[t] = Delta(c, t)
    BY <1>8, IdentityMat DEF Bytes, Mat
  <1>11. \A t \in Upto(k) : a[t] = Dot(Upto(k), u, Column(B.at, k, t))
    <2>1. \A t \in Upto(k) : Times(D, B.at, k)[c][t] = Dot(Upto(k), u, Column(B.at, k, t))
      BY DEF Times
    <2>2. QED
      BY <1>8, <2>1
  <1> DEFINE m == B.at
  <1>14. m \in Mat(k) /\ \A t \in Upto(k) : a[t] = Dot(Upto(k), u, Column(m, k, t))
    BY <1>6, <1>11
  <1> HIDE DEF u, a
  <1>12. Dot(Upto(k), a, v) = Dot(Upto(k), u, w)
    <2> HIDE DEF m
    <2>1. Dot(Upto(k), a, v) = Dot(Upto(k), u, Turned(m, k, v))
      BY <1>10, <1>14, TurnedRow
    <2>2. QED
      BY <2>1 DEF m
  <1> HIDE DEF w
  <1>13. Dot(Upto(k), u, w) = {}
    BY <1>9, DotZero
  <1>15. Dot(Upto(k), a, v) = v[c]
    BY <1>10, UptoFinite, DotUnit
  <1>16. QED
    BY <1>12, <1>13, <1>15

LEMMA CompatSeparates ==
  ASSUME NEW k \in Nat, NEW p \in Nat, k # 0, p # 0, k + p <= Order + 1
  PROVE  LET A == reed_solomon_erasure_matrix(k, p).ok
         IN  Systematic(A, k + p, k) /\ Separates(A, k, p)
  <1> DEFINE A == reed_solomon_erasure_matrix(k, p).ok
  <1>1. /\ Systematic(A, k + p, k)
        /\ \A f \in [Upto(k) -> Upto(k + p)] :
             (\A t, u \in Upto(k) : t # u => f[t] # f[u]) => IsOk(invert(select_rows(A, k, f)))
    BY CompatShape
  <1> HIDE DEF A
  <1>2. Separates(A, k, p)
    BY <1>1, InvertedSeparates
  <1>3. QED
    BY <1>1, <1>2 DEF A

=============================================================================
