----------------------------- MODULE IsalProofs -----------------------------
(***************************************************************************)
(* Proofs about the client of the ISA-L layer, for any number of sources,  *)
(* parity rows and skipped rows, any buffers and any lengths.              *)
(*                                                                         *)
(* The invariant says of each of the client's buffers what it holds: the   *)
(* matrix buffer the typed matrix generated into it last (MatrixInv), the  *)
(* table buffer, as far as it reaches, the coefficients of the matrix each *)
(* row was last made from (TablesInv), and a parity row the sum over the   *)
(* sources of those coefficients times what its history says was folded    *)
(* in (BooksInv).  RowsTrackFolds alone is not inductive: an update reads  *)
(* the tables, and the tables are made from the matrix buffer.             *)
(* Entries of buffers are named by Place(row, column): the product in it   *)
(* is opened only where it is computed with.                               *)
(***************************************************************************)
EXTENDS Isal, CoderProofs

(* The powers a Vandermonde row is made of.                                *)

LEMMA GeometricIs ==
  ASSUME NEW g \in Byte, NEW n \in Nat, n # 0
  PROVE  /\ PowersUpTo(Geometric(g, n), g, n)
         /\ \A i \in Upto(n) : Geometric(g, n)[i] = Power(g, i) /\ Power(g, i) \in Byte
  <1> DEFINE Is(h) == h = [x \in Upto(n) |-> IF x = 0 THEN {0} ELSE mul(h[x - 1], g)]
             h == CHOOSE h : Is(h)
  <1>1. Geometric(g, n) = h
    BY DEF Geometric
  <1>2. n - 1 \in Nat /\ Upto(n) = 0..(n - 1)
    BY DEF Upto
  <1>3. PICK e : Is(e) /\ \A x \in Upto(n) : e[x] \in Byte
    BY <1>2, PowersExist
  <1> HIDE DEF Is
  <1>4. Is(h)
    BY <1>3
  <1> HIDE DEF h
  <1>5. \A x \in Upto(n) : h[x] = (IF x = 0 THEN {0} ELSE mul(h[x - 1], g))
    BY <1>4 DEF Is
  <1>6. \A x \in Upto(n) : h[x] \in Byte
    <2> DEFINE G == {x \in Upto(n) : h[x] \in Byte}
    <2>1. 0 \in G
      BY <1>2, <1>5, ByteFacts
    <2>2. ASSUME NEW x \in Upto(n - 1), x \in G PROVE x + 1 \in G
      <3>1. x \in Nat /\ x + 1 \in Upto(n) /\ x + 1 # 0 /\ (x + 1) - 1 = x
        BY <1>2, <2>2 DEF Upto
      <3>2. h[x + 1] = mul(h[x], g) /\ h[x] \in Byte
        BY <1>5, <2>2, <3>1
      <3>3. QED
        BY <3>1, <3>2, MulByte
    <2>3. \A x \in 0..(n - 1) : x \in G
      <3> HIDE DEF G
      <3>1. QED
        BY <1>2, <2>1, <2>2, UpInduction
    <2>4. QED
      BY <1>2, <2>3
  <1>7. PowersUpTo(h, g, n)
    BY <1>5, <1>6 DEF PowersUpTo
  <1>8. \A i \in Upto(n) : h[i] = Power(g, i) /\ Power(g, i) \in Byte
    BY <1>7, PowerIs
  <1>9. QED
    BY <1>1, <1>7, <1>8

-----------------------------------------------------------------------------
(* The matrix buffer: what the generators write is the typed matrix.       *)

Typed(c) == IF c = "rs" THEN TypedRs ELSE TypedCauchy

LEMMA SizesAre ==
  /\ K \in Nat \ {0} /\ P \in Nat \ {0} /\ Skip \in Nat /\ M \in Nat /\ M = K + (Skip + P)
  /\ Skip + P \in Nat \ {0} /\ M * K \in Nat /\ P * K \in Nat /\ check_dims(K, Skip + P)
  /\ K <= M /\ K + Skip \in Nat /\ Skip + P <= M
  BY StripeAssumption, NumberLaws DEF M, check_dims

LEMMA NumberByte ==
  ASSUME NEW n
  PROVE  OfNat(n) \in Byte
  BY DEF OfNat, Byte

LEMMA RowsAre ==
  /\ \A l \in Row : l \in Nat /\ K + Skip + l \in Upto(M) /\ K + Skip + l = (K + Skip) + l
  /\ 0 \in Row
  BY SizesAre DEF Row, Upto

LEMMA TypedRsIs ==
  /\ TypedRs.rows = M /\ TypedRs.cols = K
  /\ \A r \in Upto(M), c \in Upto(K) :
       TypedRs.at[r][c] = IF r < K THEN Delta(r, c)
                          ELSE Power(Power(OfNat(2), r - K), c)
  BY SizesAre DEF TypedRs, vandermonde, Matrix

LEMMA RowGenerator ==
  ASSUME NEW r \in Upto(M), ~(r < K)
  PROVE  /\ r - K \in Upto(M - K) /\ M - K \in Nat \ {0} /\ r \in K..(M - 1)
         /\ Power(OfNat(2), r - K) \in Byte
         /\ Geometric(OfNat(2), M - K)[r - K] = Power(OfNat(2), r - K)
  <1>1. r - K \in Upto(M - K) /\ M - K \in Nat \ {0} /\ r \in K..(M - 1)
    BY SizesAre DEF Upto
  <1>2. OfNat(2) \in Byte
    BY NumberByte
  <1>3. QED
    BY <1>1, <1>2, GeometricIs

LEMMA TypedSystematic ==
  ASSUME NEW c \in {"rs", "cauchy"}
  PROVE  Systematic(Typed(c), M, K)
  <1>1. CASE c = "rs"
    <2>1. ASSUME NEW i \in Upto(M), NEW j \in Upto(K)
          PROVE  TypedRs.at[i][j] \in Byte
      <3>1. CASE i < K
        BY <3>1, TypedRsIs, DeltaByte
      <3>2. CASE ~(i < K)
        <4>1. Power(Power(OfNat(2), i - K), j) \in Byte
          BY <3>2, RowGenerator, GeometricIs, SizesAre
        <4>2. QED
          BY <3>2, <4>1, TypedRsIs
      <3>3. QED
        BY <3>1, <3>2
    <2>2. \A i, j \in Upto(K) : TypedRs.at[i][j] = Delta(i, j)
      <3>1. \A i \in Upto(K) : i \in Upto(M) /\ i < K
        BY SizesAre DEF Upto
      <3>2. QED
        BY <3>1, TypedRsIs
    <2>3. Typed(c) = TypedRs
      BY <1>1 DEF Typed
    <2>4. QED
      BY <2>1, <2>2, <2>3, TypedRsIs DEF Systematic
  <1>2. CASE c = "cauchy"
    <2>1. Typed(c) = cauchy(K, Skip + P).ok
      BY <1>2 DEF Typed, TypedCauchy
    <2>2. K + (Skip + P) = M /\ K \in Nat /\ Skip + P \in Nat /\ check_dims(K, Skip + P)
      BY SizesAre
    <2>3. Systematic(cauchy(K, Skip + P).ok, M, K)
      BY <2>2, CauchyShape
    <2>4. QED
      BY <2>1, <2>3
  <1>3. QED
    BY <1>1, <1>2

(* Where a matrix of K columns keeps row r, column j.                      *)
Place(r, j) == r * K + j
Cells == Upto(M * K)

(* What each generator writes is the typed matrix, row by row.             *)
Generated(c, buf) ==
  IF c = "rs" THEN gf_gen_rs_matrix(buf, M, K) ELSE gf_gen_cauchy1_matrix(buf, M, K)

LEMMA FilledIs ==
  ASSUME NEW buf, DOMAIN buf = Cells, NEW coeff, NEW r \in Upto(M), NEW j \in Upto(K)
  PROVE  /\ DOMAIN Filled(buf, M, K, coeff) = Cells
         /\ Filled(buf, M, K, coeff)[Place(r, j)] = IF r < K THEN Delta(r, j) ELSE coeff[r][j]
  <1> DEFINE e == Place(r, j)
  <1>1. e \in Upto(M * K) /\ e \div K = r /\ e % K = j
    BY SizesAre, PositionOf DEF Place
  <1>2. ~(e >= M * K)
    BY <1>1, SizesAre DEF Upto
  <1> HIDE DEF e
  <1>3. Filled(buf, M, K, coeff)[e] = IF r < K THEN Delta(r, j) ELSE coeff[r][j]
    BY <1>1, <1>2 DEF Filled, Cells
  <1>4. QED
    BY <1>3 DEF Filled, e, Cells

LEMMA GeneratedIs ==
  ASSUME NEW buf, DOMAIN buf = Cells, NEW c \in {"rs", "cauchy"},
         NEW r \in Upto(M), NEW j \in Upto(K)
  PROVE  /\ DOMAIN Generated(c, buf) = Cells
         /\ Generated(c, buf)[Place(r, j)] = Typed(c).at[r][j]
  <1>1. CASE c = "rs"
    <2> DEFINE gen == Geometric(OfNat(2), M - K)
               coeff == [i \in K..(M - 1) |-> Geometric(gen[i - K], K)]
    <2>1. Generated(c, buf) = Filled(buf, M, K, coeff)
      BY <1>1 DEF Generated, gf_gen_rs_matrix
    <2>2. ~(r < K) => coeff[r][j] = Power(Power(OfNat(2), r - K), j)
      <3>1. SUFFICES ASSUME ~(r < K) PROVE coeff[r][j] = Power(Power(OfNat(2), r - K), j)
        OBVIOUS
      <3>2. coeff[r] = Geometric(Power(OfNat(2), r - K), K) /\ Power(OfNat(2), r - K) \in Byte
        BY <3>1, RowGenerator
      <3> HIDE DEF coeff
      <3>3. QED
        BY <3>2, GeometricIs, SizesAre
    <2> HIDE DEF coeff
    <2>3. Typed(c) = TypedRs
      BY <1>1 DEF Typed
    <2>4. /\ DOMAIN Filled(buf, M, K, coeff) = Cells
          /\ Filled(buf, M, K, coeff)[Place(r, j)] = IF r < K THEN Delta(r, j) ELSE coeff[r][j]
      BY FilledIs
    <2>5. TypedRs.at[r][j] = IF r < K THEN Delta(r, j) ELSE Power(Power(OfNat(2), r - K), j)
      BY TypedRsIs
    <2>6. QED
      BY <2>1, <2>2, <2>3, <2>4, <2>5
  <1>2. CASE c = "cauchy"
    <2> DEFINE coeff == [i \in K..(M - 1) |-> [x \in Upto(K) |-> inv(XOR(OfNat(i), OfNat(x)))]]
    <2>1. Generated(c, buf) = Filled(buf, M, K, coeff)
      BY <1>2 DEF Generated, gf_gen_cauchy1_matrix
    <2>2. Typed(c) = cauchy(K, Skip + P).ok
      BY <1>2 DEF Typed, TypedCauchy
    <2>3. /\ Systematic(Typed(c), M, K)
          /\ \A i \in ParityRows(K, Skip + P), x \in Upto(K) :
               Typed(c).at[i][x] = inv(XOR(OfNat(i), OfNat(x)))
      BY <2>2, SizesAre, CauchyShape
    <2>4. r < K => Typed(c).at[r][j] = Delta(r, j)
      <3>1. r < K => r \in Upto(K)
        BY SizesAre DEF Upto
      <3>2. QED
        BY <2>3, <3>1 DEF Systematic
    <2>5. ~(r < K) => coeff[r][j] = Typed(c).at[r][j]
      <3>1. ~(r < K) => r \in K..(M - 1) /\ r \in ParityRows(K, Skip + P)
        BY SizesAre DEF Upto, ParityRows
      <3>2. QED
        BY <2>3, <3>1
    <2> HIDE DEF coeff
    <2>6. /\ DOMAIN Filled(buf, M, K, coeff) = Cells
          /\ Filled(buf, M, K, coeff)[Place(r, j)] = IF r < K THEN Delta(r, j) ELSE coeff[r][j]
      BY FilledIs
    <2>7. QED
      BY <2>1, <2>4, <2>5, <2>6
  <1>3. QED
    BY <1>1, <1>2

-----------------------------------------------------------------------------
(* A row and its history.                                                  *)

Constructions == {None, "rs", "cauchy"}

(* The coefficients of parity row l in the matrix of construction c.       *)
CoefRow(c, l) ==
  [j \in Upto(K) |-> IF c = None THEN {} ELSE Typed(c).at[K + Skip + l][j]]

LEMMA CoefBytes ==
  ASSUME NEW c \in Constructions, NEW l \in Row, NEW j \in Upto(K)
  PROVE  CoefRow(c, l)[j] \in Byte
  <1>1. CASE c = None
    BY <1>1, ByteFacts DEF CoefRow
  <1>2. CASE c # None
    <2>1. c \in {"rs", "cauchy"} /\ K + Skip + l \in Upto(M)
      BY <1>2, RowsAre DEF Constructions
    <2>2. Typed(c).at[K + Skip + l][j] \in Byte
      BY <2>1, TypedSystematic DEF Systematic
    <2>3. QED
      BY <1>2, <2>2 DEF CoefRow
  <1>3. QED
    BY <1>1, <1>2

(* A row of n bytes is the sum over the sources of its coefficients times  *)
(* what its history says was folded into it.                               *)
Account(row, hist, coefs, n) ==
  /\ row \in [Upto(n) -> Byte]
  /\ hist \in [Upto(K) -> [Upto(n) -> Byte]]
  /\ \A q \in Upto(n) : row[q] = Dot(Upto(K), coefs, Across(hist, Upto(K), q))

CoefVector(coefs) == \A j \in Upto(K) : coefs[j] \in Byte

LEMMA ZeroedAccount ==
  ASSUME NEW n \in Nat, NEW row, DOMAIN row = Upto(n), NEW coefs
  PROVE  Account(Zeroed(row), NothingFolded(row), coefs, n)
  <1>1. Zeroed(row) \in [Upto(n) -> Byte] /\ \A q \in Upto(n) : Zeroed(row)[q] = {}
    BY ByteFacts DEF Zeroed
  <1>2. NothingFolded(row) \in [Upto(K) -> [Upto(n) -> Byte]]
    BY <1>1 DEF NothingFolded
  <1>3. ASSUME NEW q \in Upto(n)
        PROVE  Dot(Upto(K), coefs, Across(NothingFolded(row), Upto(K), q)) = {}
    <2>1. \A j \in Upto(K) : Across(NothingFolded(row), Upto(K), q)[j] = {}
      BY <1>1 DEF Across, NothingFolded
    <2>2. QED
      BY <2>1, DotZero
  <1>4. QED
    BY <1>1, <1>2, <1>3 DEF Account

(* What a call that overwrites the first len bytes, and one that folds     *)
(* into them, leave in a row.                                              *)
Replaced(row, coefs, data, len) ==
  [q \in DOMAIN row |->
     IF q < len THEN Dot(Upto(K), coefs, Across(data, Upto(K), q)) ELSE row[q]]

FoldedIn(row, coef, src, len) ==
  [q \in DOMAIN row |-> IF q < len THEN XOR(row[q], mul(coef, src[q])) ELSE row[q]]

ReplacedHistory(row, hist, data, len) ==
  [j \in Upto(K) |-> [q \in DOMAIN row |-> IF q < len THEN data[j][q] ELSE hist[j][q]]]

FoldedHistory(row, hist, i, src, len) ==
  [hist EXCEPT ![i] = [q \in DOMAIN row |->
     IF q < len THEN XOR(hist[i][q], src[q]) ELSE hist[i][q]]]

(* Buffers of a length of at least len.                                    *)
Covers(src, len) == \A q \in Nat : q < len => src[q] \in Byte

LEMMA ReplacedAccount ==
  ASSUME NEW n \in Nat, NEW row, NEW hist, NEW coefs, Account(row, hist, coefs, n),
         NEW len \in Nat, NEW data, \A j \in Upto(K) : Covers(data[j], len)
  PROVE  Account(Replaced(row, coefs, data, len), ReplacedHistory(row, hist, data, len),
                 coefs, n)
  <1> DEFINE row2  == Replaced(row, coefs, data, len)
             hist2 == ReplacedHistory(row, hist, data, len)
  <1>1. DOMAIN row = Upto(n) /\ \A q \in Upto(n) : q \in Nat
    BY DEF Account, Upto
  <1>2. row2 \in [Upto(n) -> Byte]
    <2>1. \A q \in Upto(n) : row[q] \in Byte
                             /\ Dot(Upto(K), coefs, Across(data, Upto(K), q)) \in Byte
      BY DotByte DEF Account
    <2>2. QED
      BY <1>1, <2>1 DEF Replaced
  <1>3. /\ hist2 \in [Upto(K) -> [Upto(n) -> Byte]]
        /\ \A j \in Upto(K), q \in Upto(n) :
             hist2[j][q] = IF q < len THEN data[j][q] ELSE hist[j][q]
    <2>1. \A j \in Upto(K), q \in Upto(n) : hist[j][q] \in Byte
      BY DEF Account
    <2>2. \A j \in Upto(K), q \in Upto(n) : q < len => data[j][q] \in Byte
      BY <1>1 DEF Covers
    <2>3. QED
      BY <1>1, <2>1, <2>2 DEF ReplacedHistory
  <1>4. ASSUME NEW q \in Upto(n)
        PROVE  row2[q] = Dot(Upto(K), coefs, Across(hist2, Upto(K), q))
    <2>1. CASE q < len
      <3>1. row2[q] = Dot(Upto(K), coefs, Across(data, Upto(K), q))
        BY <1>1, <2>1 DEF Replaced
      <3> HIDE DEF hist2, row2
      <3>2. \A j \in Upto(K) : Across(hist2, Upto(K), q)[j] = Across(data, Upto(K), q)[j]
        BY <1>3, <2>1 DEF Across
      <3>3. QED
        BY <3>1, <3>2, DotSame
    <2>2. CASE ~(q < len)
      <3>1. row2[q] = Dot(Upto(K), coefs, Across(hist, Upto(K), q))
        BY <1>1, <2>2 DEF Replaced, Account
      <3> HIDE DEF hist2, row2
      <3>2. \A j \in Upto(K) : Across(hist2, Upto(K), q)[j] = Across(hist, Upto(K), q)[j]
        BY <1>3, <2>2 DEF Across
      <3>3. QED
        BY <3>1, <3>2, DotSame
    <2>3. QED
      BY <2>1, <2>2
  <1> HIDE DEF row2, hist2
  <1>5. Account(row2, hist2, coefs, n)
    BY <1>2, <1>3, <1>4 DEF Account
  <1>6. QED
    BY <1>5 DEF row2, hist2

LEMMA FoldedAccount ==
  ASSUME NEW n \in Nat, NEW row, NEW hist, NEW coefs, CoefVector(coefs),
         Account(row, hist, coefs, n), NEW i \in Upto(K),
         NEW len \in Nat, NEW src, Covers(src, len)
  PROVE  Account(FoldedIn(row, coefs[i], src, len), FoldedHistory(row, hist, i, src, len),
                 coefs, n)
  <1> DEFINE row2  == FoldedIn(row, coefs[i], src, len)
             hist2 == FoldedHistory(row, hist, i, src, len)
  <1>1. /\ DOMAIN row = Upto(n) /\ \A q \in Upto(n) : q \in Nat
        /\ IsFiniteSet(Upto(K))
    BY SizesAre, UptoFinite DEF Account, Upto
  <1>2. /\ \A q \in Upto(n) : row[q] \in Byte
        /\ \A j \in Upto(K), q \in Upto(n) : hist[j][q] \in Byte
        /\ \A q \in Upto(n) : q < len => src[q] \in Byte
    BY <1>1 DEF Account, Covers
  <1>3. coefs[i] \in Byte
    BY DEF CoefVector
  <1>4. row2 \in [Upto(n) -> Byte]
    <2>1. \A q \in Upto(n) : q < len => XOR(row[q], mul(coefs[i], src[q])) \in Byte
      BY <1>2, <1>3, MulByte, XorByte
    <2>2. QED
      BY <1>1, <1>2, <2>1 DEF FoldedIn
  <1>5. /\ hist2 \in [Upto(K) -> [Upto(n) -> Byte]]
        /\ \A j \in Upto(K) \ {i} : hist2[j] = hist[j]
        /\ \A q \in Upto(n) :
             hist2[i][q] = IF q < len THEN XOR(hist[i][q], src[q]) ELSE hist[i][q]
    <2>1. \A q \in Upto(n) : q < len => XOR(hist[i][q], src[q]) \in Byte
      BY <1>2, XorByte
    <2>2. hist \in [Upto(K) -> [Upto(n) -> Byte]]
      BY DEF Account
    <2>3. QED
      BY <1>1, <1>2, <2>1, <2>2 DEF FoldedHistory
  <1>6. ASSUME NEW q \in Upto(n)
        PROVE  row2[q] = Dot(Upto(K), coefs, Across(hist2, Upto(K), q))
    <2> DEFINE t == [j \in Upto(K) |-> mul(coefs[j], Across(hist, Upto(K), q)[j])]
               u == [j \in Upto(K) |-> mul(coefs[j], Across(hist2, Upto(K), q)[j])]
    <2>1. /\ row[q] = XorAll(Upto(K), t)
          /\ Dot(Upto(K), coefs, Across(hist2, Upto(K), q)) = XorAll(Upto(K), u)
      BY DEF Account, Dot
    <2>2. \A j \in Upto(K) : t[j] = mul(coefs[j], hist[j][q]) /\ u[j] = mul(coefs[j], hist2[j][q])
      BY DEF Across
    <2> HIDE DEF t, u, hist2, row2
    <2>3. CASE q < len
      <3>1. row2[q] = XOR(row[q], mul(coefs[i], src[q]))
        BY <1>1, <2>3 DEF FoldedIn, row2
      <3>2. \A j \in Upto(K) \ {i} : u[j] = t[j]
        BY <1>5, <2>2
      <3>3. hist[i][q] \in Byte /\ src[q] \in Byte
        BY <1>2, <2>3
      <3>4. u[i] = XOR(t[i], mul(coefs[i], src[q]))
        BY <1>3, <1>5, <2>2, <2>3, <3>3, MulDistributes
      <3>5. t[i] \in Byte /\ mul(coefs[i], src[q]) \in Byte
        BY <1>3, <2>2, <3>3, MulByte
      <3>6. XorAll(Upto(K), u) = XOR(XorAll(Upto(K), t), mul(coefs[i], src[q]))
        BY <1>1, <3>2, <3>4, <3>5, XorAllUpdate
      <3>7. QED
        BY <2>1, <3>1, <3>6
    <2>4. CASE ~(q < len)
      <3>1. row2[q] = row[q]
        BY <1>1, <2>4 DEF FoldedIn, row2
      <3>2. \A j \in Upto(K) : u[j] = t[j]
        BY <1>5, <2>2, <2>4
      <3>3. XorAll(Upto(K), u) = XorAll(Upto(K), t)
        BY <3>2, XorAllSame
      <3>4. QED
        BY <2>1, <3>1, <3>3
    <2>5. QED
      BY <2>3, <2>4
  <1> HIDE DEF row2, hist2
  <1>7. Account(row2, hist2, coefs, n)
    BY <1>4, <1>5, <1>6 DEF Account
  <1>8. QED
    BY <1>7 DEF row2, hist2

LEMMA BufferCovers ==
  ASSUME NEW src, IsBuffer(src), NEW len \in Nat, Count(src) >= len
  PROVE  Covers(src, len) /\ \A q \in Nat : q < len => q \in DOMAIN src
  <1>1. Count(src) \in Nat /\ src \in [Upto(Count(src)) -> Byte]
    BY DEF IsBuffer
  <1>2. \A q \in Nat : q < len => q \in Upto(Count(src))
    BY <1>1 DEF Upto
  <1>3. QED
    BY <1>1, <1>2 DEF Covers

LEMMA OnlySourceSum ==
  ASSUME NEW coefs, CoefVector(coefs), NEW i \in Upto(K), NEW src,
         NEW q \in DOMAIN src, src[q] \in Byte
  PROVE  Dot(Upto(K), coefs, Across(OnlySource(i, src), Upto(K), q)) = mul(coefs[i], src[q])
  <1> DEFINE t == [j \in Upto(K) |-> mul(coefs[j], Across(OnlySource(i, src), Upto(K), q)[j])]
  <1>1. \A j \in Upto(K) : t[j] = mul(coefs[j], IF j = i THEN src[q] ELSE {})
    BY DEF Across, OnlySource
  <1>2. IsFiniteSet(Upto(K)) /\ coefs[i] \in Byte
    BY SizesAre, UptoFinite DEF CoefVector
  <1>3. Dot(Upto(K), coefs, Across(OnlySource(i, src), Upto(K), q)) = XorAll(Upto(K), t)
    BY DEF Dot
  <1> HIDE DEF t
  <1>4. t[i] = mul(coefs[i], src[q]) /\ t[i] \in Byte
    BY <1>1, <1>2, MulByte
  <1>5. \A j \in Upto(K) \ {i} : t[j] = {}
    BY <1>1, MulZero
  <1>6. XorAll(Upto(K), t) = t[i]
    BY <1>2, <1>4, <1>5, XorAllOne
  <1>7. QED
    BY <1>3, <1>4, <1>6

LEMMA OnlySourceCovers ==
  ASSUME NEW i \in Upto(K), NEW src, IsBuffer(src), NEW len \in Nat, Count(src) >= len
  PROVE  \A j \in Upto(K) : Covers(OnlySource(i, src)[j], len)
  <1>1. Covers(src, len) /\ \A q \in Nat : q < len => q \in DOMAIN src
    BY BufferCovers
  <1>2. ASSUME NEW j \in Upto(K), NEW q \in Nat, q < len
        PROVE  OnlySource(i, src)[j][q] \in Byte
    <2>1. q \in DOMAIN src /\ src[q] \in Byte
      BY <1>1, <1>2 DEF Covers
    <2>2. OnlySource(i, src)[j][q] = IF j = i THEN src[q] ELSE {}
      BY <2>1 DEF OnlySource
    <2>3. QED
      BY <2>1, <2>2, ByteFacts
  <1>3. QED
    BY <1>2 DEF Covers
-----------------------------------------------------------------------------
(* Checks.                                                                 *)

LEMMA AtLeastPasses ==
  ASSUME NEW list, NEW len, NEW base, AtLeast(list, len, base) = {}
  PROVE  \A x \in DOMAIN list : ~(Count(list[x]) < len)
  BY DEF AtLeast, Raise

LEMMA RaiseKinds ==
  ASSUME NEW list, NEW len, NEW base
  PROVE  /\ \A e \in AtLeast(list, len, base) : e.kind # "Ok"
         /\ \A e \in Raise("ShardLength", len) : e.kind # "Ok"
         /\ \A e \in Raise("ShardCount", len) : e.kind # "Ok"
         /\ \A e \in Raise("ShardIndex", len) : e.kind # "Ok"
         /\ \A e \in Raise("Dimensions", len) : e.kind # "Ok"
         /\ Raise("ShardLength", len) # {} /\ Raise("ShardCount", len) # {}
         /\ Raise("ShardIndex", len) # {} /\ Raise("Dimensions", len) # {}
  BY DEF AtLeast, Raise

LEMMA ShardCountPasses ==
  ASSUME NEW list, NEW n, ShardCount(list, n) = {}
  PROVE  Count(list) = n
  BY DEF ShardCount, Raise

LEMMA FineFive ==
  ASSUME NEW a1, NEW a2, NEW a3, NEW a4, NEW a5,
         \A e \in a1 : e.kind # "Ok", \A e \in a2 : e.kind # "Ok",
         \A e \in a3 : e.kind # "Ok", \A e \in a4 : e.kind # "Ok",
         \A e \in a5 : e.kind # "Ok",
         Verdict(<<a1, a2, a3, a4, a5>>) = Fine
  PROVE  a1 = {} /\ a2 = {} /\ a3 = {} /\ a4 = {} /\ a5 = {}
  <1> DEFINE checks == <<a1, a2, a3, a4, a5>>
  <1>1. DOMAIN checks = 1..5
    OBVIOUS
  <1>2. /\ checks[1] = a1 /\ checks[2] = a2 /\ checks[3] = a3
        /\ checks[4] = a4 /\ checks[5] = a5
    OBVIOUS
  <1>3. Verdict(checks) = Fine
    OBVIOUS
  <1>4. 1..5 = {1, 2, 3, 4, 5} /\ 5 \in Nat
    OBVIOUS
  <1> HIDE DEF checks
  <1>5. \A i \in 1..5 : \A e \in checks[i] : e.kind # "Ok"
    BY <1>2, <1>4
  <1>6. \A i \in 1..5 : checks[i] = {}
    BY <1>1, <1>3, <1>4, <1>5, FinePasses
  <1>7. QED
    BY <1>2, <1>4, <1>6
-----------------------------------------------------------------------------
(* Table buffers.                                                          *)

IsTables(tbl, n) ==
  /\ tbl = [format |-> "nibble", coeffs |-> tbl.coeffs]
  /\ DOMAIN tbl.coeffs = Upto(n)

LEMMA MinOfTwo ==
  ASSUME NEW x \in Nat, NEW y \in Nat
  PROVE  Min({x, y}) = IF x <= y THEN x ELSE y
  BY DEF Min

(* What the caller gets that slices the tables at x, past the end or not.  *)
LEMMA SlicedTables ==
  ASSUME NEW n \in Nat, NEW tbl, IsTables(tbl, n), NEW x \in Nat
  PROVE  LET cut == TablesFrom(tbl, Min({x, n}))
             held == IF x <= n THEN n - x ELSE 0
         IN  /\ IsTables(cut, held) /\ Count(cut.coeffs) = held /\ held \in Nat
             /\ \A e \in Upto(held) : /\ x + e \in Upto(n)
                                      /\ cut.coeffs[e] = tbl.coeffs[x + e]
  <1> DEFINE s == Min({x, n})
             cut == TablesFrom(tbl, s)
             held == IF x <= n THEN n - x ELSE 0
  <1>1. s = (IF x <= n THEN x ELSE n)
    BY MinOfTwo
  <1>2. Count(tbl.coeffs) = n
    BY CountOf DEF IsTables
  <1>3. n - s = held /\ held \in Nat
    BY <1>1
  <1> HIDE DEF s
  <1>4. cut = [format |-> "nibble", coeffs |-> [e \in Upto(held) |-> tbl.coeffs[s + e]]]
    BY <1>2, <1>3 DEF TablesFrom, IsTables
  <1> HIDE DEF cut
  <1>5. IsTables(cut, held)
    BY <1>4 DEF IsTables
  <1>6. Count(cut.coeffs) = held
    BY <1>3, <1>5, CountOf DEF IsTables
  <1>7. ASSUME NEW e \in Upto(held)
        PROVE  x + e \in Upto(n) /\ cut.coeffs[e] = tbl.coeffs[x + e]
    <2>1. x <= n /\ s = x /\ x + e \in Upto(n)
      BY <1>1 DEF Upto
    <2>2. QED
      BY <1>4, <2>1
  <1>8. QED
    BY <1>3, <1>5, <1>6, <1>7 DEF cut, s

(* A set of rows that has every row before one of its own is a prefix.     *)
LEMMA PrefixOf ==
  ASSUME NEW n \in Nat, NEW S \in SUBSET Upto(n),
         \A l \in S, h \in Upto(n) : h < l => h \in S
  PROVE  S = Upto(Cardinality(S)) /\ Cardinality(S) \in Nat /\ Cardinality(S) <= n
  <1>1. IsFiniteSet(S) /\ S \in SUBSET Int
    <2>1. IsFiniteSet(S)
      BY UptoFinite, FS_Subset
    <2>2. QED
      BY <2>1 DEF Upto
  <1>2. CASE S = {}
    <2>1. Cardinality(S) = 0
      BY <1>2, FS_EmptySet
    <2>2. Upto(0) = {}
      BY DEF Upto
    <2>3. QED
      BY <1>2, <2>1, <2>2
  <1>3. CASE S # {}
    <2>1. PICK m \in S : \A y \in S : m >= y
      BY <1>1, <1>3, MaxIn
    <2>2. m \in Nat /\ m + 1 \in Nat /\ m + 1 <= n
      BY <2>1 DEF Upto
    <2>3. S = Upto(m + 1)
      <3>1. ASSUME NEW y \in Upto(m + 1) PROVE y \in S
        BY <2>1, <2>2 DEF Upto
      <3>2. ASSUME NEW y \in S PROVE y \in Upto(m + 1)
        BY <2>1, <2>2 DEF Upto
      <3>3. QED
        BY <3>1, <3>2
    <2>4. Cardinality(S) = m + 1
      BY <2>2, <2>3, UptoFinite
    <2>5. QED
      BY <2>2, <2>3, <2>4
  <1>4. QED
    BY <1>2, <1>3

-----------------------------------------------------------------------------
(* What the kernels and the trimmed loops write.                           *)

OwnCoefs(coefs, tbl, l) == \A j \in Upto(K) : coefs[j] = tbl.coeffs[Place(l, j)]

(* The kernel and the trimmed loop write the same.                         *)
LEMMA EncodeWrites ==
  ASSUME NEW rows \in Nat, NEW n \in Nat, NEW tbl, IsTables(tbl, n),
         NEW data, DOMAIN data = Upto(K),
         NEW out, DOMAIN out = Upto(rows), \A x \in Upto(rows) : IsBuffer(out[x]),
         NEW len \in Nat, NEW l \in Upto(rows), NEW coefs, OwnCoefs(coefs, tbl, l)
  PROVE  ec_encode_data(len, K, rows, tbl, data, out)[l] = Replaced(out[l], coefs, data, len)
  <1> DEFINE cut == FirstTables(tbl, rows * K)
  <1>1. Count(data) = K
    BY SizesAre, CountOf
  <1>2. \A j \in Upto(K) : Place(l, j) \in Upto(rows * K)
    BY SizesAre, PositionOf DEF Place
  <1>3. \A j \in Upto(K) : cut.coeffs[Place(l, j)] = coefs[j]
    <2>1. cut = [format |-> "nibble", coeffs |-> Slice(tbl.coeffs, rows * K)]
      BY DEF FirstTables, IsTables
    <2>2. \A j \in Upto(K) : Slice(tbl.coeffs, rows * K)[Place(l, j)] = tbl.coeffs[Place(l, j)]
      BY <1>2 DEF Slice
    <2> HIDE DEF cut
    <2>3. QED
      BY <2>1, <2>2 DEF OwnCoefs
  <1>4. CASE Exact(data, len) /\ Exact(out, len)
    <2>1. ec_encode_data(len, K, rows, tbl, data, out) = KernelEncode(cut, data, out)
      BY <1>4 DEF ec_encode_data
    <2> HIDE DEF cut
    <2>2. \A q \in DOMAIN out[l] : q < len
      <3>1. Count(out[l]) = len /\ IsBuffer(out[l])
        BY <1>4 DEF Exact
      <3>2. QED
        BY <3>1 DEF IsBuffer, Upto
    <2>3. KernelEncode(cut, data, out)[l]
            = [q \in DOMAIN out[l] |->
                 XorAll(Upto(K), [j \in Upto(K) |-> Term(cut, K, l, j, data[j][q])])]
      BY <1>1 DEF KernelEncode
    <2>4. ASSUME NEW q \in DOMAIN out[l]
          PROVE  XorAll(Upto(K), [j \in Upto(K) |-> Term(cut, K, l, j, data[j][q])])
                   = Dot(Upto(K), coefs, Across(data, Upto(K), q))
      <3> DEFINE t == [j \in Upto(K) |-> Term(cut, K, l, j, data[j][q])]
                 u == [j \in Upto(K) |-> mul(coefs[j], Across(data, Upto(K), q)[j])]
      <3>1. \A j \in Upto(K) : t[j] = u[j]
        BY <1>3 DEF Term, Across, Place
      <3>2. Dot(Upto(K), coefs, Across(data, Upto(K), q)) = XorAll(Upto(K), u)
        BY DEF Dot
      <3> HIDE DEF t, u
      <3>3. XorAll(Upto(K), t) = XorAll(Upto(K), u)
        BY <3>1, XorAllSame
      <3>4. QED
        BY <3>2, <3>3 DEF t
    <2>5. QED
      BY <2>1, <2>2, <2>3, <2>4 DEF Replaced
  <1>5. CASE ~(Exact(data, len) /\ Exact(out, len))
    <2>1. ec_encode_data(len, K, rows, tbl, data, out)[l]
            = [q \in DOMAIN out[l] |->
                 IF q >= len THEN out[l][q]
                 ELSE XorAll(Upto(K), [j \in Upto(K) |-> Term(tbl, K, l, j, data[j][q])])]
      BY <1>1, <1>5 DEF ec_encode_data, TrimmedEncode
    <2>2. ASSUME NEW q \in DOMAIN out[l]
          PROVE  XorAll(Upto(K), [j \in Upto(K) |-> Term(tbl, K, l, j, data[j][q])])
                   = Dot(Upto(K), coefs, Across(data, Upto(K), q))
      <3> DEFINE t == [j \in Upto(K) |-> Term(tbl, K, l, j, data[j][q])]
                 u == [j \in Upto(K) |-> mul(coefs[j], Across(data, Upto(K), q)[j])]
      <3>1. \A j \in Upto(K) : t[j] = u[j]
        BY DEF Term, Across, Place, OwnCoefs
      <3>2. Dot(Upto(K), coefs, Across(data, Upto(K), q)) = XorAll(Upto(K), u)
        BY DEF Dot
      <3> HIDE DEF t, u
      <3>3. XorAll(Upto(K), t) = XorAll(Upto(K), u)
        BY <3>1, XorAllSame
      <3>4. QED
        BY <3>2, <3>3 DEF t
    <2>3. \A q \in DOMAIN out[l] : q \in Nat /\ (q >= len <=> ~(q < len))
      BY DEF IsBuffer, Upto
    <2>4. QED
      BY <2>1, <2>2, <2>3 DEF Replaced
  <1>6. QED
    BY <1>4, <1>5

(* The rows an update finds tables for are the first ones.                 *)
LEMMA FoundIs ==
  ASSUME NEW rows \in Nat, NEW n \in Nat, NEW tbl, IsTables(tbl, n), NEW i \in Nat
  PROVE  /\ TablesFound(tbl, K, i, rows) \in Nat /\ TablesFound(tbl, K, i, rows) <= rows
         /\ \A l \in Upto(TablesFound(tbl, K, i, rows)) : Place(l, i) < n
  <1> DEFINE S == {l \in Upto(rows) : \A h \in 0..l : h * K + i < Count(tbl.coeffs)}
  <1>1. TablesFound(tbl, K, i, rows) = Cardinality(S)
    BY DEF TablesFound
  <1>2. Count(tbl.coeffs) = n
    BY CountOf DEF IsTables
  <1>3. S \in SUBSET Upto(rows) /\ \A l \in S : l * K + i < n
    <2>1. \A l \in Upto(rows) : l \in 0..l
      BY DEF Upto
    <2>2. QED
      BY <1>2, <2>1
  <1>4. \A l \in S, h \in Upto(rows) : h < l => h \in S
    <2>1. \A l \in Upto(rows), h \in Upto(rows) : h < l => \A g \in 0..h : g \in 0..l
      BY DEF Upto
    <2>2. QED
      BY <2>1
  <1> HIDE DEF S
  <1>5. S = Upto(Cardinality(S)) /\ Cardinality(S) \in Nat /\ Cardinality(S) <= rows
    BY <1>3, <1>4, PrefixOf
  <1>6. QED
    BY <1>1, <1>3, <1>5 DEF Place

LEMMA UpdateWrites ==
  ASSUME NEW rows \in Nat, NEW n \in Nat, NEW tbl, IsTables(tbl, n), NEW i \in Nat,
         NEW src, NEW out, DOMAIN out = Upto(rows), \A x \in Upto(rows) : IsBuffer(out[x]),
         NEW len \in Nat, NEW l \in Upto(rows)
  PROVE  ec_encode_data_update(len, K, rows, i, tbl, src, out)[l]
           = IF l < TablesFound(tbl, K, i, rows)
             THEN FoldedIn(out[l], tbl.coeffs[Place(l, i)], src, len)
             ELSE out[l]
  <1> DEFINE found == TablesFound(tbl, K, i, rows)
             last == (IF rows = 0 THEN 0 ELSE rows - 1) * K + i
             folds == IF Count(src) = len /\ Exact(out, len) /\ Count(tbl.coeffs) > last
                      THEN KernelUpdate(tbl, K, i, src, out)
                      ELSE TrimmedUpdate(tbl, K, i, src, len, Slice(out, found))
  <1>1. ec_encode_data_update(len, K, rows, i, tbl, src, out)[l]
          = IF l < found THEN folds[l] ELSE out[l]
    BY DEF ec_encode_data_update
  <1>2. found \in Nat
    BY FoundIs
  <1>3. ASSUME l < found
        PROVE  folds[l] = FoldedIn(out[l], tbl.coeffs[Place(l, i)], src, len)
    <2>1. \A q \in DOMAIN out[l] : q \in Nat /\ (q >= len <=> ~(q < len))
      BY DEF IsBuffer, Upto
    <2>2. CASE Count(src) = len /\ Exact(out, len) /\ Count(tbl.coeffs) > last
      <3>1. folds = KernelUpdate(tbl, K, i, src, out)
        BY <2>2
      <3> HIDE DEF folds
      <3>2. folds[l] = [q \in DOMAIN out[l] |-> XOR(out[l][q], mul(tbl.coeffs[Place(l, i)], src[q]))]
        BY <3>1 DEF KernelUpdate, Term, Place
      <3>3. \A q \in DOMAIN out[l] : q < len
        <4>1. Count(out[l]) = len /\ IsBuffer(out[l])
          BY <2>2 DEF Exact
        <4>2. QED
          BY <4>1 DEF IsBuffer, Upto
      <3>4. QED
        BY <3>2, <3>3 DEF FoldedIn
    <2>3. CASE ~(Count(src) = len /\ Exact(out, len) /\ Count(tbl.coeffs) > last)
      <3>1. folds = TrimmedUpdate(tbl, K, i, src, len, Slice(out, found))
        BY <2>3
      <3> HIDE DEF folds, found
      <3>2. l \in Upto(found)
        BY <1>2, <1>3 DEF Upto
      <3>3. Slice(out, found)[l] = out[l] /\ l \in DOMAIN Slice(out, found)
        BY <3>2 DEF Slice
      <3>4. folds[l] = [q \in DOMAIN out[l] |->
                          IF q >= len THEN out[l][q]
                          ELSE XOR(out[l][q], mul(tbl.coeffs[Place(l, i)], src[q]))]
        BY <3>1, <3>3 DEF TrimmedUpdate, Term, Place
      <3>5. QED
        BY <2>1, <3>4 DEF FoldedIn
    <2>4. QED
      BY <2>2, <2>3
  <1> HIDE DEF found, folds
  <1>4. QED
    BY <1>1, <1>3 DEF found

-----------------------------------------------------------------------------
(* The inductive invariant, and the calls that change the matrix buffer.   *)

(* The matrix buffer holds what was generated into it last.                *)
MatrixInv ==
  /\ kind \in Constructions
  /\ DOMAIN a = Cells
  /\ kind # None => \A r \in Upto(M), j \in Upto(K) : a[Place(r, j)] = Typed(kind).at[r][j]

(* A row's tables are those of the construction they were made from, as    *)
(* far as the table buffer has room for them.                              *)
RowTablesAre(tbl, makes, held) ==
  /\ IsTables(tbl, held)
  /\ \A l \in Row, j \in Upto(K) :
       Place(l, j) < held => tbl.coeffs[Place(l, j)] = CoefRow(makes[l], l)[j]

TablesInv ==
  /\ made \in [Row -> Constructions]
  /\ \E held \in Nat : RowTablesAre(gftbls, made, held)

(* Every row agrees with its history.                                      *)
Ledger(rows, hists, makes, n) ==
  /\ rows \in [Row -> [Upto(n) -> Byte]]
  /\ hists \in [Row -> [Upto(K) -> [Upto(n) -> Byte]]]
  /\ \A l \in Row : Account(rows[l], hists[l], CoefRow(makes[l], l), n)

BooksInv == \E n \in Nat : Ledger(coding, folded, made, n)

IInv == MatrixInv /\ TablesInv /\ BooksInv

LEMMA LensAreNat ==
  ASSUME NEW len \in Lens
  PROVE  len \in Nat
  BY BufferAssumption

LEMMA ListsAre ==
  ASSUME NEW data \in DataLists
  PROVE  /\ Count(data) \in Nat /\ DOMAIN data = Upto(Count(data))
         /\ \A j \in DOMAIN data : IsBuffer(data[j])
  BY BufferAssumption

LEMMA AccountBuffer ==
  ASSUME NEW n \in Nat, NEW row \in [Upto(n) -> Byte]
  PROVE  IsBuffer(row) /\ Count(row) = n /\ DOMAIN row = Upto(n)
  <1>1. Count(row) = n
    BY CountOf
  <1>2. QED
    BY <1>1 DEF IsBuffer

LEMMA MadeVector ==
  ASSUME NEW c \in Constructions, NEW l \in Row
  PROVE  CoefVector(CoefRow(c, l))
  BY CoefBytes DEF CoefVector

(* Rows written to one by one.                                             *)
LEMMA LedgerKept ==
  ASSUME NEW n \in Nat, NEW makes,
         NEW rows, rows = [l \in Row |-> rows[l]],
         NEW hists, hists = [l \in Row |-> hists[l]],
         \A l \in Row : Account(rows[l], hists[l], CoefRow(makes[l], l), n)
  PROVE  Ledger(rows, hists, makes, n)
  <1>1. \A l \in Row : rows[l] \in [Upto(n) -> Byte] /\ hists[l] \in [Upto(K) -> [Upto(n) -> Byte]]
    BY DEF Account
  <1>2. rows \in [Row -> [Upto(n) -> Byte]]
    BY <1>1
  <1>3. hists \in [Row -> [Upto(K) -> [Upto(n) -> Byte]]]
    BY <1>1
  <1>4. QED
    BY <1>2, <1>3 DEF Ledger

LEMMA PlaceNat ==
  ASSUME NEW l \in Row, NEW j \in Upto(K)
  PROVE  Place(l, j) \in Nat
  BY SizesAre, RowsAre, PositionOf DEF Place, Row, Upto

LEMMA InitKeeps ==
  ASSUME Init
  PROVE  IInv
  <1>1. PICK shape \in Shapes :
          /\ gftbls = [format |-> "nibble", coeffs |-> [e \in Upto(shape[1]) |-> {}]]
          /\ coding = [l \in Row |-> [q \in Upto(shape[2]) |-> {}]]
    BY DEF Init
  <1>2. shape[1] \in Nat /\ shape[2] \in Nat
    BY BufferAssumption
  <1>3. /\ made = [l \in Row |-> None] /\ kind = None
        /\ a = [e \in Upto(M * K) |-> {}]
        /\ folded = [l \in Row |-> NothingFolded(coding[l])]
    BY DEF Init
  <1>4. MatrixInv
    BY <1>3 DEF MatrixInv, Constructions, Cells
  <1>5. made \in [Row -> Constructions]
    BY <1>3 DEF Constructions
  <1>6. RowTablesAre(gftbls, made, shape[1])
    <2>1. IsTables(gftbls, shape[1])
      BY <1>1 DEF IsTables
    <2>2. ASSUME NEW l \in Row, NEW j \in Upto(K), Place(l, j) < shape[1]
          PROVE  gftbls.coeffs[Place(l, j)] = {}
      <3>1. Place(l, j) \in Nat
        BY PlaceNat
      <3>2. Place(l, j) \in Upto(shape[1])
        BY <1>2, <2>2, <3>1 DEF Upto
      <3>3. QED
        BY <1>1, <3>2
    <2>3. \A l \in Row, j \in Upto(K) : CoefRow(made[l], l)[j] = {}
      BY <1>3 DEF CoefRow
    <2>4. QED
      BY <2>1, <2>2, <2>3 DEF RowTablesAre
  <1>7. Ledger(coding, folded, made, shape[2])
    <2>1. ASSUME NEW l \in Row
          PROVE  Account(coding[l], folded[l], CoefRow(made[l], l), shape[2])
      <3>1. DOMAIN coding[l] = Upto(shape[2]) /\ coding[l] = Zeroed(coding[l])
        BY <1>1 DEF Zeroed
      <3>2. Account(Zeroed(coding[l]), NothingFolded(coding[l]), CoefRow(made[l], l), shape[2])
        BY <1>2, <3>1, ZeroedAccount
      <3>3. QED
        BY <1>3, <3>1, <3>2
    <2>2. QED
      BY <1>1, <1>2, <1>3, <2>1, LedgerKept
  <1>8. QED
    BY <1>2, <1>4, <1>5, <1>6, <1>7 DEF IInv, TablesInv, BooksInv

LEMMA GenerateKeeps ==
  ASSUME IInv, NEW construction \in {"rs", "cauchy"}, NEW m \in {K - 1, M, M + 1},
         Generate(construction, m, K)
  PROVE  IInv'
  <1> DEFINE checks == gf_gen_checks(a, m, K)
  <1>1. UNCHANGED <<gftbls, made, coding, folded>>
    BY DEF Generate, Untouched
  <1>2. TablesInv' /\ BooksInv'
    <2>1. TablesInv /\ BooksInv
      BY DEF IInv
    <2>2. QED
      BY <1>1, <2>1 DEF TablesInv, BooksInv
  <1>3. CASE Verdict(checks) # Fine
    <2>1. UNCHANGED <<a, kind>>
      BY <1>3 DEF Generate
    <2>2. QED
      BY <1>2, <2>1 DEF IInv, MatrixInv
  <1>4. CASE Verdict(checks) = Fine
    <2>1. m = M
      <3> DEFINE first  == IF K # 0 /\ m >= K /\ Count(a) >= K * m THEN {} ELSE Raise("Dimensions", K)
                 second == IF m <= Order THEN {} ELSE Raise("Dimensions", K)
      <3>1. checks = <<first, second>>
        BY DEF gf_gen_checks, check_matrix_buf
      <3>2. (\A e \in first : e.kind # "Ok") /\ (\A e \in second : e.kind # "Ok")
        BY RaiseKinds
      <3>3. first = {}
        <4> HIDE DEF first, second, checks
        <4>1. QED
          BY <1>4, <3>1, <3>2, FineTwo
      <3>4. m >= K /\ Count(a) >= K * m
        BY <3>3, RaiseKinds
      <3>5. Count(a) = M * K
        BY SizesAre, CountOf DEF IInv, MatrixInv, Cells
      <3>6. m # K - 1
        BY <3>4, SizesAre
      <3>7. m # M + 1
        <4>1. K * (M + 1) = M * K + K
          BY SizesAre
        <4>2. QED
          BY <3>4, <3>5, <4>1, SizesAre
      <3>8. QED
        BY <3>6, <3>7
    <2>2. kind' = construction /\ a' = Generated(construction, a)
      BY <1>4, <2>1 DEF Generate, Generated
    <2>3. DOMAIN a = Cells
      BY DEF IInv, MatrixInv
    <2>4. \A r \in Upto(M), j \in Upto(K) :
            /\ DOMAIN Generated(construction, a) = Cells
            /\ Generated(construction, a)[Place(r, j)] = Typed(construction).at[r][j]
      BY <2>3, GeneratedIs
    <2>5. 0 \in Upto(M) /\ 0 \in Upto(K)
      BY SizesAre DEF Upto
    <2>6. MatrixInv'
      BY <2>2, <2>4, <2>5 DEF MatrixInv, Constructions
    <2>7. QED
      BY <1>2, <2>6 DEF IInv
  <1>5. QED
    BY <1>3, <1>4

-----------------------------------------------------------------------------
(* Tables remade, rows zeroed.                                             *)

(* ec_init_tables accepted: there is a row of the matrix for each row of   *)
(* tables, and room for it.                                                *)
LEMMA TablesAccepted ==
  ASSUME NEW rows \in Nat, NEW block, DOMAIN block = Upto(P * K),
         NEW held \in Nat, NEW tbl, IsTables(tbl, held),
         Verdict(ec_init_tables_checks(K, rows, block, tbl)) = Fine
  PROVE  rows <= P /\ K * rows <= held
  <1> DEFINE first  == IF Count(block) >= K * rows THEN {}
                       ELSE Raise("ShardCount", Count(block))
             second == IF Count(tbl.coeffs) >= K * rows THEN {} ELSE Raise("ShardLength", 0)
  <1>1. Verdict(<<first, second>>) = Fine
    BY DEF ec_init_tables_checks
  <1>2. (\A e \in first : e.kind # "Ok") /\ (\A e \in second : e.kind # "Ok")
    BY RaiseKinds
  <1>3. first = {} /\ second = {}
    <2> HIDE DEF first, second
    <2>1. QED
      BY <1>1, <1>2, FineTwo
  <1>4. Count(block) >= K * rows /\ Count(tbl.coeffs) >= K * rows
    BY <1>3, RaiseKinds
  <1>5. Count(block) = P * K /\ Count(tbl.coeffs) = held
    BY SizesAre, CountOf DEF IsTables
  <1>6. rows <= P
    <2>1. SUFFICES ASSUME rows > P PROVE FALSE
      BY SizesAre
    <2>2. PICK x \in Nat : rows = P + 1 + x
      <3>1. rows - P - 1 \in Nat
        BY <2>1, SizesAre
      <3>2. QED
        BY <3>1, SizesAre
    <2>3. K * rows = P * K + K + K * x
      BY <2>2, SizesAre
    <2>4. K * x \in Nat
      BY SizesAre
    <2>5. QED
      BY <1>4, <1>5, <2>3, <2>4, SizesAre
  <1>7. QED
    BY <1>4, <1>5, <1>6, SizesAre

LEMMA InitTablesKeeps ==
  ASSUME IInv, NEW rows \in 1..(P + 1), InitTables(rows)
  PROVE  IInv'
  <1> DEFINE block == ParityBlock(a)
             verdict == Verdict(ec_init_tables_checks(K, rows, block, gftbls))
             remade == {l \in Row : l < rows /\ made[l] # kind}
  <1>1. UNCHANGED <<a, kind>> /\ kind # None /\ kind \in Constructions /\ rows \in Nat
    BY DEF InitTables, IInv, MatrixInv
  <1>2. MatrixInv'
    BY <1>1 DEF IInv, MatrixInv
  <1>3. CASE verdict # Fine
    <2>1. UNCHANGED <<gftbls, made, coding, folded>>
      BY <1>3 DEF InitTables, Untouched
    <2>2. QED
      BY <1>2, <2>1 DEF IInv, TablesInv, BooksInv
  <1>4. CASE verdict = Fine
    <2>1. /\ gftbls' = ec_init_tables(K, rows, block, gftbls)
          /\ made' = [l \in Row |-> IF l \in remade THEN kind ELSE made[l]]
          /\ coding' = [l \in Row |-> IF l \in remade THEN Zeroed(coding[l]) ELSE coding[l]]
          /\ folded' = [l \in Row |-> IF l \in remade THEN NothingFolded(coding[l])
                                      ELSE folded[l]]
      BY <1>4 DEF InitTables
    <2>2. PICK held \in Nat : RowTablesAre(gftbls, made, held)
      BY DEF IInv, TablesInv
    <2>3. made \in [Row -> Constructions]
      BY DEF IInv, TablesInv
    <2>4. DOMAIN block = Upto(P * K)
      BY DEF ParityBlock
    <2>5. rows <= P /\ K * rows <= held
      <3>1. IsTables(gftbls, held)
        BY <2>2 DEF RowTablesAre
      <3> HIDE DEF block
      <3>2. QED
        BY <1>1, <1>4, <2>4, <3>1, TablesAccepted
    <2>6. made' \in [Row -> Constructions] /\ \A l \in Row : l < rows => made'[l] = kind
      BY <1>1, <2>1, <2>3
    <2>7. \A l \in Row : ~(l < rows) => made'[l] = made[l]
      BY <2>1
    <2>8. /\ IsTables(gftbls', held)
          /\ \A e \in Upto(held) : gftbls'.coeffs[e] = IF e < K * rows THEN block[e]
                                                       ELSE gftbls.coeffs[e]
      <3>1. IsTables(gftbls, held)
        BY <2>2 DEF RowTablesAre
      <3> HIDE DEF block
      <3>2. gftbls' = [format |-> "nibble",
                       coeffs |-> [e \in Upto(held) |-> IF e < K * rows THEN block[e]
                                                        ELSE gftbls.coeffs[e]]]
        BY <2>1, <3>1 DEF ec_init_tables, IsTables
      <3>3. QED
        BY <3>2 DEF IsTables
    <2>9. ASSUME NEW l \in Row, NEW j \in Upto(K), Place(l, j) < held
          PROVE  gftbls'.coeffs[Place(l, j)] = CoefRow(made'[l], l)[j]
      <3>1. Place(l, j) \in Nat
        BY PlaceNat
      <3>2. Place(l, j) \in Upto(held) /\ l \in Nat
        BY <2>9, <3>1, RowsAre DEF Upto
      <3>3. CASE l < rows
        <4>1. Place(l, j) < K * rows
          <5>1. l \in Upto(rows)
            BY <1>1, <3>2, <3>3 DEF Upto
          <5>2. Place(l, j) \in Upto(rows * K)
            BY <1>1, <5>1, SizesAre, PositionOf DEF Place
          <5>3. K * rows = rows * K /\ rows * K \in Nat
            BY <1>1, SizesAre
          <5>4. QED
            BY <5>2, <5>3 DEF Upto
        <4>2. block[Place(l, j)] = a[Place(K + Skip + l, j)]
          <5>1. Place(l, j) \in Upto(P * K)
            BY SizesAre, PositionOf DEF Place, Row
          <5>2. block[Place(l, j)] = a[(K + Skip) * K + Place(l, j)]
            BY <5>1 DEF ParityBlock
          <5>3. (K + Skip) * K + Place(l, j) = Place(K + Skip + l, j)
            <6>1. j \in Nat
              BY SizesAre DEF Upto
            <6>2. QED
              BY <3>2, <6>1, SizesAre DEF Place
          <5>4. QED
            BY <5>2, <5>3
        <4>3. K + Skip + l \in Upto(M)
          BY RowsAre
        <4>4. a[Place(K + Skip + l, j)] = Typed(kind).at[K + Skip + l][j]
          BY <1>1, <4>3 DEF IInv, MatrixInv
        <4>5. CoefRow(kind, l)[j] = Typed(kind).at[K + Skip + l][j]
          BY <1>1 DEF CoefRow
        <4> HIDE DEF block
        <4>6. gftbls'.coeffs[Place(l, j)] = block[Place(l, j)]
          BY <2>8, <3>2, <4>1
        <4>7. QED
          BY <2>6, <3>3, <4>2, <4>4, <4>5, <4>6
      <3>4. CASE ~(l < rows)
        <4>1. ~(Place(l, j) < K * rows)
          <5>1. PICK x \in Nat : l = rows + x
            <6>1. l - rows \in Nat
              BY <1>1, <3>2, <3>4
            <6>2. QED
              BY <1>1, <3>2, <6>1
          <5>2. l * K = K * rows + x * K /\ x * K \in Nat /\ K * rows \in Nat
            BY <1>1, <5>1, SizesAre
          <5>3. j \in Nat
            BY SizesAre DEF Upto
          <5>4. QED
            BY <5>2, <5>3, SizesAre DEF Place
        <4> HIDE DEF block
        <4>2. gftbls'.coeffs[Place(l, j)] = gftbls.coeffs[Place(l, j)]
          BY <2>8, <3>2, <4>1
        <4>3. QED
          BY <2>2, <2>7, <2>9, <3>4, <4>2 DEF RowTablesAre
      <3>5. QED
        BY <3>3, <3>4
    <2>10. TablesInv'
      BY <2>6, <2>8, <2>9 DEF TablesInv, RowTablesAre
    <2>11. PICK n \in Nat : Ledger(coding, folded, made, n)
      BY DEF IInv, BooksInv
    <2>12. ASSUME NEW l \in Row
           PROVE  Account(coding'[l], folded'[l], CoefRow(made'[l], l), n)
      <3>1. CASE l \in remade
        <4>1. coding'[l] = Zeroed(coding[l]) /\ folded'[l] = NothingFolded(coding[l])
          BY <2>1, <3>1
        <4>2. DOMAIN coding[l] = Upto(n)
          BY <2>11 DEF Ledger
        <4>3. QED
          BY <4>1, <4>2, ZeroedAccount
      <3>2. CASE l \notin remade
        <4>1. coding'[l] = coding[l] /\ folded'[l] = folded[l] /\ made'[l] = made[l]
          BY <2>1, <3>2
        <4>2. QED
          BY <2>11, <4>1 DEF Ledger
      <3>3. QED
        BY <3>1, <3>2
    <2>13. coding' = [l \in Row |-> coding'[l]] /\ folded' = [l \in Row |-> folded'[l]]
      BY <2>1
    <2>14. Ledger(coding', folded', made', n)
      BY <2>12, <2>13, LedgerKept
    <2>15. BooksInv'
      BY <2>14 DEF BooksInv
    <2>16. QED
      BY <1>2, <2>10, <2>15 DEF IInv
  <1>5. QED
    BY <1>3, <1>4

(* A step that writes to rows only.                                        *)
LEMMA RowsWritten ==
  ASSUME IInv, UNCHANGED Buffer, NEW n \in Nat,
         coding' = [l \in Row |-> coding'[l]], folded' = [l \in Row |-> folded'[l]],
         \A l \in Row : Account(coding'[l], folded'[l], CoefRow(made[l], l), n)
  PROVE  IInv'
  <1>1. UNCHANGED <<a, kind, gftbls, made>>
    BY DEF Buffer
  <1>2. MatrixInv'
    BY <1>1 DEF IInv, MatrixInv
  <1>3. TablesInv'
    BY <1>1 DEF IInv, TablesInv
  <1>4. Ledger(coding', folded', made', n)
    BY <1>1, LedgerKept
  <1>5. QED
    BY <1>2, <1>3, <1>4 DEF IInv, BooksInv

LEMMA NothingWritten ==
  ASSUME IInv, UNCHANGED Buffer, UNCHANGED Untouched
  PROVE  IInv'
  <1>1. UNCHANGED <<a, kind, gftbls, made, coding, folded>>
    BY DEF Buffer, Untouched
  <1>2. QED
    BY <1>1 DEF IInv, MatrixInv, TablesInv, BooksInv

LEMMA ZeroKeeps ==
  ASSUME IInv, Zero
  PROVE  IInv'
  <1>1. PICK n \in Nat : Ledger(coding, folded, made, n)
    BY DEF IInv, BooksInv
  <1>2. /\ coding' = [l \in Row |-> Zeroed(coding[l])]
        /\ folded' = [l \in Row |-> NothingFolded(coding[l])]
        /\ UNCHANGED Buffer
    BY DEF Zero
  <1>3. ASSUME NEW l \in Row
        PROVE  Account(coding'[l], folded'[l], CoefRow(made[l], l), n)
    <2>1. DOMAIN coding[l] = Upto(n)
      BY <1>1 DEF Ledger
    <2>2. QED
      BY <1>2, <2>1, ZeroedAccount
  <1>4. coding' = [l \in Row |-> coding'[l]] /\ folded' = [l \in Row |-> folded'[l]]
    BY <1>2
  <1>5. QED
    BY <1>2, <1>3, <1>4, RowsWritten

-----------------------------------------------------------------------------
(* Encode and update.                                                      *)

LEMMA SliceIs ==
  ASSUME NEW held \in Nat, NEW rows, NEW hists, NEW makes, Ledger(rows, hists, makes, held),
         NEW n \in 0..P
  PROVE  /\ DOMAIN Slice(rows, n) = Upto(n) /\ Count(Slice(rows, n)) = n
         /\ \A l \in Upto(n) : /\ l \in Row /\ Slice(rows, n)[l] = rows[l]
                               /\ IsBuffer(Slice(rows, n)[l])
  <1>1. n \in Nat /\ \A l \in Upto(n) : l \in Row
    BY SizesAre DEF Upto, Row
  <1>2. DOMAIN Slice(rows, n) = Upto(n)
    BY DEF Slice
  <1>3. \A l \in Upto(n) : Slice(rows, n)[l] = rows[l]
    BY DEF Slice
  <1>4. \A l \in Row : IsBuffer(rows[l])
    BY AccountBuffer DEF Ledger
  <1>5. QED
    BY <1>1, <1>2, <1>3, <1>4, CountOf

LEMMA EncodeAccepted ==
  ASSUME NEW len \in Lens, NEW rows \in Nat, NEW held \in Nat, NEW tbl, IsTables(tbl, held),
         NEW data \in DataLists, NEW out,
         ec_encode_data_verdict(len, K, rows, tbl, data, out) = Fine
  PROVE  /\ DOMAIN data = Upto(K) /\ \A j \in Upto(K) : Covers(data[j], len)
         /\ Count(out) = rows /\ rows * K <= held
  <1> DEFINE room == IF Count(tbl.coeffs) >= rows * K THEN {} ELSE Raise("ShardLength", 0)
             one == ShardCount(data, K)
             two == AtLeast(data, len, 0)
             three == ShardCount(out, rows)
             four == AtLeast(out, len, K)
  <1>1. Verdict(<<one, two, three, four, room>>) = Fine
    BY DEF ec_encode_data_verdict
  <1>2. /\ \A e \in one : e.kind # "Ok"
        /\ \A e \in two : e.kind # "Ok"
        /\ \A e \in three : e.kind # "Ok"
        /\ \A e \in four : e.kind # "Ok"
        /\ \A e \in room : e.kind # "Ok"
    BY CheckKinds, RaiseKinds
  <1>3. one = {} /\ two = {} /\ three = {} /\ four = {} /\ room = {}
    <2> HIDE DEF one, two, three, four, room
    <2>1. QED
      BY <1>1, <1>2, FineFive
  <1>4. Count(data) = K /\ Count(out) = rows
    BY <1>3, ShardCountPasses
  <1>5. DOMAIN data = Upto(K) /\ \A j \in Upto(K) : IsBuffer(data[j])
    BY <1>4, ListsAre
  <1>6. \A j \in Upto(K) : ~(Count(data[j]) < len)
    BY <1>3, <1>5, AtLeastPasses
  <1>7. \A j \in Upto(K) : Covers(data[j], len)
    <2>1. ASSUME NEW j \in Upto(K) PROVE Covers(data[j], len)
      <3>1. IsBuffer(data[j]) /\ Count(data[j]) \in Nat /\ len \in Nat
        BY <1>5, LensAreNat DEF IsBuffer
      <3>2. Count(data[j]) >= len
        BY <1>6, <3>1
      <3>3. QED
        BY <3>1, <3>2, BufferCovers
    <2>2. QED
      BY <2>1
  <1>8. Count(tbl.coeffs) = held
    BY CountOf DEF IsTables
  <1>9. rows * K <= held
    <2>1. Count(tbl.coeffs) >= rows * K
      BY <1>3, RaiseKinds
    <2>2. rows * K \in Nat
      BY SizesAre
    <2>3. QED
      BY <1>8, <2>1, <2>2
  <1>10. QED
    BY <1>4, <1>5, <1>7, <1>9

LEMMA EncodeDataKeeps ==
  ASSUME IInv, NEW n \in 0..P, NEW rows \in {n, P}, NEW len \in Lens, NEW data \in DataLists,
         EncodeData(len, K, rows, data, n)
  PROVE  IInv'
  <1> DEFINE out == Slice(coding, n)
             verdict == ec_encode_data_verdict(len, K, rows, gftbls, data, out)
             written == ec_encode_data(len, K, rows, gftbls, data, out)
  <1>1. UNCHANGED Buffer
    BY DEF EncodeData
  <1>2. CASE verdict # Fine
    <2>1. UNCHANGED Untouched
      BY <1>2 DEF EncodeData
    <2>2. QED
      BY <1>1, <2>1, NothingWritten
  <1>3. CASE verdict = Fine
    <2>1. /\ coding' = [l \in Row |-> IF l < n THEN written[l] ELSE coding[l]]
          /\ folded' = [l \in Row |-> IF l < n THEN Overwritten(l, data, len) ELSE folded[l]]
      BY <1>3 DEF EncodeData
    <2>2. PICK size \in Nat : Ledger(coding, folded, made, size)
      BY DEF IInv, BooksInv
    <2>3. PICK held \in Nat : RowTablesAre(gftbls, made, held)
      BY DEF IInv, TablesInv
    <2>4. IsTables(gftbls, held) /\ len \in Nat /\ n \in Nat /\ rows \in Nat
      BY <2>3, LensAreNat, SizesAre DEF RowTablesAre
    <2>5. /\ DOMAIN out = Upto(n) /\ Count(out) = n
          /\ \A l \in Upto(n) : l \in Row /\ out[l] = coding[l] /\ IsBuffer(out[l])
      BY <2>2, SliceIs
    <2>6. /\ DOMAIN data = Upto(K) /\ \A j \in Upto(K) : Covers(data[j], len)
          /\ rows = n /\ rows * K <= held
      <3> HIDE DEF out
      <3>1. /\ DOMAIN data = Upto(K) /\ \A j \in Upto(K) : Covers(data[j], len)
            /\ Count(out) = rows /\ rows * K <= held
        BY <1>3, <2>4, EncodeAccepted
      <3>2. QED
        BY <2>5, <3>1
    <2> HIDE DEF out
    <2>7. ASSUME NEW l \in Row, l < n
          PROVE  written[l] = Replaced(coding[l], CoefRow(made[l], l), data, len)
      <3>1. l \in Upto(n)
        BY <2>4, <2>7, RowsAre DEF Upto
      <3>2. OwnCoefs(CoefRow(made[l], l), gftbls, l)
        <4>1. ASSUME NEW j \in Upto(K)
              PROVE  CoefRow(made[l], l)[j] = gftbls.coeffs[Place(l, j)]
          <5>1. Place(l, j) \in Upto(rows * K)
            BY <2>4, <2>6, <3>1, SizesAre, PositionOf DEF Place
          <5>2. rows * K \in Nat
            BY <2>4, SizesAre
          <5>3. Place(l, j) < held
            BY <2>6, <5>1, <5>2 DEF Upto
          <5>4. QED
            BY <2>3, <5>3 DEF RowTablesAre
        <4>2. QED
          BY <4>1 DEF OwnCoefs
      <3>3. written[l] = Replaced(out[l], CoefRow(made[l], l), data, len)
        BY <2>4, <2>5, <2>6, <3>1, <3>2, EncodeWrites
      <3>4. QED
        BY <2>5, <3>1, <3>3
    <2> HIDE DEF written
    <2>8. ASSUME NEW l \in Row
          PROVE  Account(coding'[l], folded'[l], CoefRow(made[l], l), size)
      <3>1. Account(coding[l], folded[l], CoefRow(made[l], l), size)
        BY <2>2 DEF Ledger
      <3>2. CASE l < n
        <4>1. coding'[l] = Replaced(coding[l], CoefRow(made[l], l), data, len)
          BY <2>1, <2>7, <3>2
        <4>2. folded'[l] = ReplacedHistory(coding[l], folded[l], data, len)
          BY <2>1, <3>2 DEF Overwritten, ReplacedHistory
        <4>3. QED
          BY <2>4, <2>6, <3>1, <4>1, <4>2, ReplacedAccount
      <3>3. CASE ~(l < n)
        BY <2>1, <3>1, <3>3
      <3>4. QED
        BY <3>2, <3>3
    <2>9. coding' = [l \in Row |-> coding'[l]] /\ folded' = [l \in Row |-> folded'[l]]
      BY <2>1
    <2>10. QED
      BY <1>1, <2>8, <2>9, RowsWritten
  <1>4. QED
    BY <1>2, <1>3

(* An update folds its source into the rows it finds tables for.           *)
UpdateFolds(n, i, src, len, found) ==
  /\ found \in Nat /\ found <= n
  /\ i \in Upto(K) /\ Covers(src, len) /\ Count(src) >= len
  /\ coding' = [l \in Row |-> IF l < found
                              THEN FoldedIn(coding[l], CoefRow(made[l], l)[i], src, len)
                              ELSE coding[l]]
  /\ folded' = [l \in Row |-> IF l < found
                              THEN FoldedHistory(coding[l], folded[l], i, src, len)
                              ELSE folded[l]]

UpdateChecks(len, rows, i, src, n) ==
  Verdict(ec_encode_data_update_checks(len, K, rows, i, src, Slice(coding, n)))

LEMMA UpdateDoes ==
  ASSUME IInv, NEW n \in 0..P, NEW rows \in {n, P}, NEW len \in Lens,
         NEW src \in Sources, NEW i \in 0..K, UpdateData(len, rows, i, src, n)
  PROVE  /\ UNCHANGED Buffer
         /\ UpdateChecks(len, rows, i, src, n) # Fine => UNCHANGED Untouched
         /\ UpdateChecks(len, rows, i, src, n) = Fine =>
              /\ rows = n
              /\ UpdateFolds(n, i, src, len, TablesFound(gftbls, K, i, rows))
              /\ failed' => TablesFound(gftbls, K, i, rows) # rows
  <1> DEFINE out == Slice(coding, n)
             checks == ec_encode_data_update_checks(len, K, rows, i, src, out)
             found == TablesFound(gftbls, K, i, rows)
             written == ec_encode_data_update(len, K, rows, i, gftbls, src, out)
  <1>1. UNCHANGED Buffer
    BY DEF UpdateData
  <1>2. UpdateChecks(len, rows, i, src, n) = Verdict(checks)
    BY DEF UpdateChecks
  <1>3. CASE Verdict(checks) # Fine
    <2>1. UNCHANGED Untouched
      BY <1>3 DEF UpdateData
    <2>2. QED
      BY <1>1, <1>2, <1>3, <2>1
  <1>4. CASE Verdict(checks) = Fine
    <2>1. /\ coding' = [l \in Row |-> IF l < n THEN written[l] ELSE coding[l]]
          /\ folded' = [l \in Row |-> IF l < found THEN Added(l, i, src, len) ELSE folded[l]]
      BY <1>4 DEF UpdateData
    <2>2. failed' => found # rows
      <3>1. failed' = (ec_encode_data_update_verdict(len, K, rows, i, gftbls, src, out) # Fine)
        BY DEF UpdateData, Returns
      <3>2. found = rows =>
              ec_encode_data_update_verdict(len, K, rows, i, gftbls, src, out) = Fine
        BY <1>4 DEF ec_encode_data_update_verdict
      <3>3. QED
        BY <3>1, <3>2
    <2>3. PICK size \in Nat : Ledger(coding, folded, made, size)
      BY DEF IInv, BooksInv
    <2>4. PICK held \in Nat : RowTablesAre(gftbls, made, held)
      BY DEF IInv, TablesInv
    <2>5. /\ IsTables(gftbls, held) /\ len \in Nat /\ n \in Nat /\ rows \in Nat
          /\ i \in Nat /\ IsBuffer(src)
      BY <2>4, LensAreNat, SizesAre, BufferAssumption DEF RowTablesAre
    <2>6. /\ DOMAIN out = Upto(n) /\ Count(out) = n
          /\ \A l \in Upto(n) : l \in Row /\ out[l] = coding[l] /\ IsBuffer(out[l])
      BY <2>3, SliceIs
    <2>7. rows = n /\ i < K /\ Count(src) >= len
      <3> DEFINE one == IF i < K THEN {} ELSE Raise("ShardIndex", i)
                 two == IF Count(src) >= len THEN {} ELSE Raise("ShardLength", i)
                 three == ShardCount(out, rows)
                 four == AtLeast(out, len, K)
      <3>1. Verdict(<<one, two, three, four>>) = Fine
        BY <1>4 DEF ec_encode_data_update_checks
      <3>2. /\ \A e \in one : e.kind # "Ok"
            /\ \A e \in two : e.kind # "Ok"
            /\ \A e \in three : e.kind # "Ok"
            /\ \A e \in four : e.kind # "Ok"
        BY CheckKinds, RaiseKinds
      <3>3. one = {} /\ two = {} /\ three = {}
        <4> HIDE DEF one, two, three, four
        <4>1. QED
          BY <3>1, <3>2, FineFour
      <3>4. Count(out) = rows
        BY <3>3, ShardCountPasses
      <3>5. QED
        BY <2>6, <3>3, <3>4, RaiseKinds
    <2>8. found \in Nat /\ found <= rows /\ \A l \in Upto(found) : Place(l, i) < held
      BY <2>5, FoundIs
    <2>9. i \in Upto(K) /\ Covers(src, len)
      BY <2>5, <2>7, SizesAre, BufferCovers DEF Upto
    <2> HIDE DEF out, found
    <2>10. ASSUME NEW l \in Row
           PROVE  coding'[l] = IF l < found
                               THEN FoldedIn(coding[l], CoefRow(made[l], l)[i], src, len)
                               ELSE coding[l]
      <3>1. CASE l < n
        <4>1. l \in Upto(n)
          BY <2>5, <3>1, RowsAre DEF Upto
        <4>2. written[l] = IF l < found
                           THEN FoldedIn(out[l], gftbls.coeffs[Place(l, i)], src, len)
                           ELSE out[l]
          BY <2>5, <2>6, <2>7, <4>1, UpdateWrites DEF found
        <4>3. l < found => gftbls.coeffs[Place(l, i)] = CoefRow(made[l], l)[i]
          <5>1. l < found => l \in Upto(found)
            BY <2>8, RowsAre DEF Upto
          <5>2. QED
            BY <2>4, <2>8, <2>9, <5>1 DEF RowTablesAre
        <4>4. coding'[l] = written[l] /\ out[l] = coding[l]
          BY <2>1, <2>6, <3>1, <4>1
        <4> HIDE DEF written
        <4>5. QED
          BY <4>2, <4>3, <4>4
      <3>2. CASE ~(l < n)
        <4>1. ~(l < found)
          BY <2>5, <2>7, <2>8, <3>2, RowsAre
        <4>2. QED
          BY <2>1, <3>2, <4>1
      <3>3. QED
        BY <3>1, <3>2
    <2> HIDE DEF written
    <2>11. coding' = [l \in Row |-> coding'[l]]
      BY <2>1
    <2>12. coding' = [l \in Row |-> IF l < found
                                    THEN FoldedIn(coding[l], CoefRow(made[l], l)[i], src, len)
                                    ELSE coding[l]]
      BY <2>10, <2>11
    <2>13. folded' = [l \in Row |-> IF l < found
                                    THEN FoldedHistory(coding[l], folded[l], i, src, len)
                                    ELSE folded[l]]
      BY <2>1 DEF Added, FoldedHistory
    <2>14. UpdateFolds(n, i, src, len, found)
      BY <2>7, <2>8, <2>9, <2>12, <2>13 DEF UpdateFolds
    <2>15. QED
      BY <1>1, <1>2, <1>4, <2>2, <2>7, <2>14 DEF found
  <1>5. QED
    BY <1>3, <1>4

LEMMA UpdateDataKeeps ==
  ASSUME IInv, NEW n \in 0..P, NEW rows \in {n, P}, NEW len \in Lens,
         NEW src \in Sources, NEW i \in 0..K, UpdateData(len, rows, i, src, n)
  PROVE  IInv'
  <1>1. UNCHANGED Buffer
    BY UpdateDoes
  <1>2. CASE UpdateChecks(len, rows, i, src, n) # Fine
    <2>1. UNCHANGED Untouched
      BY <1>2, UpdateDoes
    <2>2. QED
      BY <1>1, <2>1, NothingWritten
  <1>3. CASE UpdateChecks(len, rows, i, src, n) = Fine
    <2>1. PICK found : UpdateFolds(n, i, src, len, found)
      BY <1>3, UpdateDoes
    <2>2. PICK size \in Nat : Ledger(coding, folded, made, size)
      BY DEF IInv, BooksInv
    <2>3. ASSUME NEW l \in Row
          PROVE  Account(coding'[l], folded'[l], CoefRow(made[l], l), size)
      <3>1. Account(coding[l], folded[l], CoefRow(made[l], l), size)
        BY <2>2 DEF Ledger
      <3>2. CASE l < found
        <4>1. /\ coding'[l] = FoldedIn(coding[l], CoefRow(made[l], l)[i], src, len)
              /\ folded'[l] = FoldedHistory(coding[l], folded[l], i, src, len)
          BY <2>1, <3>2 DEF UpdateFolds
        <4>2. CoefVector(CoefRow(made[l], l)) /\ i \in Upto(K) /\ Covers(src, len) /\ len \in Nat
          BY <2>1, MadeVector, LensAreNat DEF UpdateFolds, IInv, TablesInv
        <4>3. QED
          BY <3>1, <4>1, <4>2, FoldedAccount
      <3>3. CASE ~(l < found)
        BY <2>1, <3>1, <3>3 DEF UpdateFolds
      <3>4. QED
        BY <3>2, <3>3
    <2>4. coding' = [l \in Row |-> coding'[l]] /\ folded' = [l \in Row |-> folded'[l]]
      BY <2>1 DEF UpdateFolds
    <2>5. QED
      BY <1>1, <2>3, <2>4, RowsWritten
  <1>4. QED
    BY <1>2, <1>3

-----------------------------------------------------------------------------
(* The calls on one row.                                                   *)

LEMMA RowKept ==
  ASSUME IInv, NEW l \in Row, NEW verdict, NEW row, NEW history,
         WriteRow(l, verdict, row, history),
         verdict = Fine => \A n \in Nat :
           Account(coding[l], folded[l], CoefRow(made[l], l), n)
             => Account(row, history, CoefRow(made[l], l), n)
  PROVE  IInv'
  <1>1. UNCHANGED Buffer
    BY DEF WriteRow
  <1>2. CASE verdict # Fine
    <2>1. UNCHANGED Untouched
      BY <1>2 DEF WriteRow
    <2>2. QED
      BY <1>1, <2>1, NothingWritten
  <1>3. CASE verdict = Fine
    <2>1. coding' = [coding EXCEPT ![l] = row] /\ folded' = [folded EXCEPT ![l] = history]
      BY <1>3 DEF WriteRow
    <2>2. PICK n \in Nat : Ledger(coding, folded, made, n)
      BY DEF IInv, BooksInv
    <2>3. coding = [x \in Row |-> coding[x]] /\ folded = [x \in Row |-> folded[x]]
      BY <2>2 DEF Ledger
    <2>4. \A x \in Row : /\ coding'[x] = IF x = l THEN row ELSE coding[x]
                         /\ folded'[x] = IF x = l THEN history ELSE folded[x]
      BY <2>1, <2>3
    <2>5. coding' = [x \in Row |-> coding'[x]] /\ folded' = [x \in Row |-> folded'[x]]
      BY <2>1, <2>3
    <2>6. \A x \in Row : Account(coding'[x], folded'[x], CoefRow(made[x], x), n)
      BY <1>3, <2>2, <2>4 DEF Ledger
    <2>7. QED
      BY <1>1, <2>5, <2>6, RowsWritten
  <1>4. QED
    BY <1>2, <1>3

(* What the tables of a row look like from an offset into them on.         *)
LEMMA RowTablesAt ==
  ASSUME IInv, NEW l \in Row
  PROVE  \E m \in Nat :
           /\ IsTables(RowTables(l), m) /\ Count(RowTables(l).coeffs) = m
           /\ \A j \in Upto(K) : j < m => RowTables(l).coeffs[j] = CoefRow(made[l], l)[j]
           /\ \A j \in Upto(K) : Place(l, j) < Count(gftbls.coeffs) => j < m
  <1>1. PICK held \in Nat : RowTablesAre(gftbls, made, held)
    BY DEF IInv, TablesInv
  <1>2. IsTables(gftbls, held) /\ Count(gftbls.coeffs) = held
    BY <1>1, CountOf DEF RowTablesAre, IsTables
  <1> DEFINE x == Place(l, 0)
             m == IF x <= held THEN held - x ELSE 0
  <1>3. x \in Nat /\ l * K = x
    BY SizesAre, RowsAre, PlaceNat DEF Place, Upto
  <1>4. \A j \in Upto(K) : j \in Nat /\ Place(l, j) = x + j
    BY SizesAre, RowsAre DEF Place, Upto
  <1> HIDE DEF x
  <1>5. RowTables(l) = TablesFrom(gftbls, Min({x, held}))
    BY <1>2, <1>3 DEF RowTables
  <1>6. /\ IsTables(RowTables(l), m) /\ Count(RowTables(l).coeffs) = m /\ m \in Nat
        /\ \A e \in Upto(m) : /\ x + e \in Upto(held)
                              /\ RowTables(l).coeffs[e] = gftbls.coeffs[x + e]
    BY <1>2, <1>3, <1>5, SlicedTables
  <1>7. ASSUME NEW j \in Upto(K), j < m
        PROVE  RowTables(l).coeffs[j] = CoefRow(made[l], l)[j]
    <2>1. j \in Upto(m)
      BY <1>4, <1>6, <1>7 DEF Upto
    <2>2. Place(l, j) < held /\ RowTables(l).coeffs[j] = gftbls.coeffs[Place(l, j)]
      BY <1>4, <1>6, <2>1 DEF Upto
    <2>3. QED
      BY <1>1, <2>2 DEF RowTablesAre
  <1>8. ASSUME NEW j \in Upto(K), Place(l, j) < held
        PROVE  j < m
    BY <1>3, <1>4, <1>8
  <1>9. QED
    BY <1>2, <1>6, <1>7, <1>8

(* The same from table j of row l on.                                      *)
LEMMA SourceTableAt ==
  ASSUME IInv, NEW l \in Row, NEW j \in Upto(K), NEW cut,
         cut = TablesFrom(gftbls, Min({l * K + j, Count(gftbls.coeffs)})),
         Count(cut.coeffs) > 0
  PROVE  cut.coeffs[0] = CoefRow(made[l], l)[j]
  <1>1. PICK held \in Nat : RowTablesAre(gftbls, made, held)
    BY DEF IInv, TablesInv
  <1>2. IsTables(gftbls, held) /\ Count(gftbls.coeffs) = held
    BY <1>1, CountOf DEF RowTablesAre, IsTables
  <1> DEFINE x == Place(l, j)
             m == IF x <= held THEN held - x ELSE 0
  <1>3. x \in Nat /\ l * K + j = x
    BY PlaceNat DEF Place
  <1> HIDE DEF x
  <1>4. cut = TablesFrom(gftbls, Min({x, held}))
    BY <1>2, <1>3
  <1>5. /\ Count(cut.coeffs) = m /\ m \in Nat
        /\ \A e \in Upto(m) : x + e \in Upto(held) /\ cut.coeffs[e] = gftbls.coeffs[x + e]
    BY <1>2, <1>3, <1>4, SlicedTables
  <1>6. 0 \in Upto(m)
    BY <1>5 DEF Upto
  <1>7. x + 0 = x /\ x < held
    BY <1>3, <1>5, <1>6 DEF Upto
  <1>8. cut.coeffs[0] = gftbls.coeffs[Place(l, j)] /\ Place(l, j) < held
    BY <1>5, <1>6, <1>7 DEF x
  <1>9. QED
    BY <1>1, <1>8 DEF RowTablesAre

LEMMA DataCovers ==
  ASSUME NEW len \in Nat, NEW data \in DataLists, Count(data) = K,
         \A j \in DOMAIN data : ~(Count(data[j]) < len)
  PROVE  DOMAIN data = Upto(K) /\ \A j \in Upto(K) : Covers(data[j], len)
  <1>1. DOMAIN data = Upto(K) /\ \A j \in Upto(K) : IsBuffer(data[j])
    BY ListsAre
  <1>2. ASSUME NEW j \in Upto(K) PROVE Covers(data[j], len)
    <2>1. IsBuffer(data[j]) /\ Count(data[j]) \in Nat
      BY <1>1 DEF IsBuffer
    <2>2. Count(data[j]) >= len
      BY <1>1, <2>1
    <2>3. QED
      BY <2>1, <2>2, BufferCovers
  <1>3. QED
    BY <1>1, <1>2

LEMMA DotProdKeeps ==
  ASSUME IInv, NEW l \in Row, NEW len \in Lens, NEW data \in DataLists, DotProd(l, len, data)
  PROVE  IInv'
  <1> DEFINE coefs == CoefRow(made[l], l)
             tbl == RowTables(l)
             verdict == gf_vect_dot_prod_verdict(len, K, tbl, data, coding[l])
             row == gf_vect_dot_prod(len, K, tbl, data, coding[l])
             history == Overwritten(l, data, len)
  <1>1. WriteRow(l, verdict, row, history)
    BY DEF DotProd
  <1>2. len \in Nat
    BY LensAreNat
  <1>3. ASSUME verdict = Fine, NEW n \in Nat, Account(coding[l], folded[l], coefs, n)
        PROVE  Account(row, history, coefs, n)
    <2> DEFINE one == ShardCount(data, K)
               two == AtLeast(data, len, 0)
               three == IF Count(coding[l]) >= len THEN {} ELSE Raise("ShardLength", 0)
               four == IF Count(tbl.coeffs) >= K THEN {}
                       ELSE Raise("ShardCount", Count(tbl.coeffs))
    <2>1. Verdict(<<one, two, three, four>>) = Fine
      BY <1>3 DEF gf_vect_dot_prod_verdict
    <2>2. /\ \A e \in one : e.kind # "Ok"
          /\ \A e \in two : e.kind # "Ok"
          /\ \A e \in three : e.kind # "Ok"
          /\ \A e \in four : e.kind # "Ok"
      BY CheckKinds, RaiseKinds
    <2>3. one = {} /\ two = {} /\ four = {}
      <3> HIDE DEF one, two, three, four
      <3>1. QED
        BY <2>1, <2>2, FineFour
    <2>4. Count(data) = K /\ (\A j \in DOMAIN data : ~(Count(data[j]) < len))
          /\ Count(tbl.coeffs) >= K
      BY <2>3, ShardCountPasses, AtLeastPasses, RaiseKinds
    <2>5. DOMAIN data = Upto(K) /\ \A j \in Upto(K) : Covers(data[j], len)
      BY <1>2, <2>4, DataCovers
    <2> HIDE DEF tbl
    <2>6. PICK m \in Nat : /\ IsTables(tbl, m) /\ Count(tbl.coeffs) = m
                           /\ \A j \in Upto(K) : j < m => tbl.coeffs[j] = coefs[j]
      BY RowTablesAt DEF tbl
    <2>7. OwnCoefs(coefs, tbl, 0)
      <3>1. ASSUME NEW j \in Upto(K) PROVE Place(0, j) = j /\ j < m
        BY <2>4, <2>6, SizesAre DEF Place, Upto
      <3> HIDE DEF coefs
      <3>2. QED
        BY <2>6, <3>1 DEF OwnCoefs
    <2> DEFINE out == [x \in {0} |-> coding[l]]
    <2>8. DOMAIN out = Upto(1) /\ \A x \in Upto(1) : IsBuffer(out[x])
      <3>1. Upto(1) = {0}
        BY DEF Upto
      <3>2. IsBuffer(coding[l])
        BY <1>3, AccountBuffer DEF Account
      <3>3. QED
        BY <3>1, <3>2
    <2>9. row = ec_encode_data(len, K, 1, tbl, data, out)[0] /\ out[0] = coding[l]
      BY DEF gf_vect_dot_prod
    <2>10. 1 \in Nat /\ 0 \in Upto(1)
      BY DEF Upto
    <2> HIDE DEF out, coefs, row
    <2>11. row = Replaced(coding[l], coefs, data, len)
      BY <1>2, <2>5, <2>6, <2>7, <2>8, <2>9, <2>10, EncodeWrites
    <2>12. history = ReplacedHistory(coding[l], folded[l], data, len)
      BY DEF Overwritten, ReplacedHistory
    <2> HIDE DEF history
    <2>13. QED
      BY <1>2, <1>3, <2>5, <2>11, <2>12, ReplacedAccount
  <1> HIDE DEF verdict, row, history
  <1>4. QED
    BY <1>1, <1>3, RowKept

LEMMA MadKeeps ==
  ASSUME IInv, NEW l \in Row, NEW len \in Lens, NEW src \in Sources, NEW i \in Upto(K),
         Mad(l, len, i, src)
  PROVE  IInv'
  <1> DEFINE coefs == CoefRow(made[l], l)
             tbl == RowTables(l)
             verdict == gf_vect_mad_verdict(len, K, i, tbl, src, coding[l])
             row == gf_vect_mad(len, i, tbl, src, coding[l])
             history == Added(l, i, src, len)
  <1>1. WriteRow(l, verdict, row, history)
    BY DEF Mad
  <1>2. len \in Nat /\ IsBuffer(src) /\ CoefVector(coefs)
    BY LensAreNat, BufferAssumption, MadeVector DEF IInv, TablesInv
  <1>3. ASSUME verdict = Fine, NEW n \in Nat, Account(coding[l], folded[l], coefs, n)
        PROVE  Account(row, history, coefs, n)
    <2> DEFINE one == IF i < K THEN {} ELSE Raise("ShardIndex", i)
               two == IF Count(src) >= len /\ Count(coding[l]) >= len THEN {}
                      ELSE Raise("ShardLength", i)
               three == IF i < Count(tbl.coeffs) THEN {} ELSE Raise("ShardCount", i + 1)
    <2>1. Verdict(<<one, two, three>>) = Fine
      BY <1>3 DEF gf_vect_mad_verdict
    <2>2. /\ \A e \in one : e.kind # "Ok"
          /\ \A e \in two : e.kind # "Ok"
          /\ \A e \in three : e.kind # "Ok"
      BY RaiseKinds
    <2>3. two = {} /\ three = {}
      <3> HIDE DEF one, two, three
      <3>1. QED
        BY <2>1, <2>2, FineThree
    <2>4. Count(src) >= len /\ i < Count(tbl.coeffs)
      BY <2>3, RaiseKinds
    <2>5. Covers(src, len)
      BY <1>2, <2>4, BufferCovers
    <2>6. tbl.coeffs[i] = coefs[i]
      BY <2>4, RowTablesAt
    <2>7. row = FoldedIn(coding[l], coefs[i], src, len)
      <3>1. \A q \in DOMAIN coding[l] : q \in Nat /\ (q >= len <=> ~(q < len))
        BY <1>2, <1>3 DEF Account, Upto
      <3> HIDE DEF tbl, coefs
      <3>2. QED
        BY <2>6, <3>1 DEF gf_vect_mad, FoldedIn
    <2>8. history = FoldedHistory(coding[l], folded[l], i, src, len)
      BY DEF Added, FoldedHistory
    <2> HIDE DEF history, row, coefs
    <2>9. QED
      BY <1>2, <1>3, <2>5, <2>7, <2>8, FoldedAccount
  <1> HIDE DEF verdict, row, history
  <1>4. QED
    BY <1>1, <1>3, RowKept

(* A row that holds the product of one source.                             *)
LEMMA ProductAccount ==
  ASSUME NEW n \in Nat, NEW old, NEW hist, NEW coefs, CoefVector(coefs),
         Account(old, hist, coefs, n), NEW i \in Upto(K), NEW src, IsBuffer(src),
         NEW len \in Nat, Count(src) >= len,
         NEW row, row = [q \in DOMAIN old |-> IF q < len THEN mul(coefs[i], src[q]) ELSE old[q]]
  PROVE  Account(row, ReplacedHistory(old, hist, OnlySource(i, src), len), coefs, n)
  <1>1. \A j \in Upto(K) : Covers(OnlySource(i, src)[j], len)
    BY OnlySourceCovers
  <1>2. DOMAIN old = Upto(n) /\ \A q \in Upto(n) : q \in Nat
    BY DEF Account, Upto
  <1>3. ASSUME NEW q \in Upto(n), q < len
        PROVE  mul(coefs[i], src[q])
                 = Dot(Upto(K), coefs, Across(OnlySource(i, src), Upto(K), q))
    <2>1. q \in DOMAIN src /\ src[q] \in Byte
      BY <1>2, <1>3, BufferCovers DEF Covers
    <2>2. QED
      BY <2>1, OnlySourceSum
  <1>4. row = Replaced(old, coefs, OnlySource(i, src), len)
    BY <1>2, <1>3 DEF Replaced
  <1>5. QED
    BY <1>1, <1>4, ReplacedAccount

LEMMA MulKeeps ==
  ASSUME IInv, NEW l \in Row, NEW len \in Lens, NEW src \in Sources, NEW i \in Upto(K),
         Mul(l, len, i, src)
  PROVE  IInv'
  <1> DEFINE coefs == CoefRow(made[l], l)
             tbl == TablesFrom(gftbls, Min({l * K + i, Count(gftbls.coeffs)}))
             verdict == gf_vect_mul_verdict(len, tbl, src, coding[l])
             row == gf_vect_mul(len, tbl, src, coding[l])
             history == Overwritten(l, OnlySource(i, src), len)
  <1>1. WriteRow(l, verdict, row, history)
    BY DEF Mul
  <1>2. len \in Nat /\ IsBuffer(src) /\ CoefVector(coefs)
    BY LensAreNat, BufferAssumption, MadeVector DEF IInv, TablesInv
  <1>3. ASSUME verdict = Fine, NEW n \in Nat, Account(coding[l], folded[l], coefs, n)
        PROVE  Account(row, history, coefs, n)
    <2> DEFINE one == IF len % Unit = 0 THEN {} ELSE Raise("ShardLength", 0)
               two == IF Count(src) >= len /\ Count(coding[l]) >= len THEN {}
                      ELSE Raise("ShardLength", 0)
               three == IF Count(tbl.coeffs) > 0 THEN {} ELSE Raise("ShardCount", 1)
    <2>1. Verdict(<<one, two, three>>) = Fine
      BY <1>3 DEF gf_vect_mul_verdict
    <2>2. /\ \A e \in one : e.kind # "Ok"
          /\ \A e \in two : e.kind # "Ok"
          /\ \A e \in three : e.kind # "Ok"
      BY RaiseKinds
    <2>3. two = {} /\ three = {}
      <3> HIDE DEF one, two, three
      <3>1. QED
        BY <2>1, <2>2, FineThree
    <2>4. Count(src) >= len /\ Count(tbl.coeffs) > 0
      BY <2>3, RaiseKinds
    <2>5. tbl.coeffs[0] = coefs[i]
      BY <2>4, SourceTableAt
    <2>6. row = [q \in DOMAIN coding[l] |->
                   IF q < len THEN mul(coefs[i], src[q]) ELSE coding[l][q]]
      <3>1. \A q \in DOMAIN coding[l] : q \in Nat /\ (q >= len <=> ~(q < len))
        BY <1>2, <1>3 DEF Account, Upto
      <3> HIDE DEF tbl, coefs
      <3>2. QED
        BY <2>5, <3>1 DEF gf_vect_mul
    <2>7. history = ReplacedHistory(coding[l], folded[l], OnlySource(i, src), len)
      BY DEF Overwritten, ReplacedHistory
    <2> HIDE DEF history, row, coefs
    <2>8. QED
      BY <1>2, <1>3, <2>4, <2>6, <2>7, ProductAccount
  <1> HIDE DEF verdict, row, history
  <1>4. QED
    BY <1>1, <1>3, RowKept

LEMMA VectDotProdKeeps ==
  ASSUME IInv, NEW l \in Row, NEW data \in DataLists, VectDotProd(l, data)
  PROVE  IInv'
  <1> DEFINE coefs == CoefRow(made[l], l)
             tbl == FirstTables(RowTables(l), K)
             verdict == Verdict(vect_dot_prod_checks(coding[l], tbl, data))
             row == vect_dot_prod(coding[l], tbl, data)
             history == Overwritten(l, data, Whole(l))
  <1>1. WriteRow(l, verdict, row, history) /\ (l + 1) * K <= Count(gftbls.coeffs)
    BY DEF VectDotProd
  <1>2. PICK m \in Nat :
          /\ IsTables(RowTables(l), m)
          /\ \A j \in Upto(K) : j < m => RowTables(l).coeffs[j] = coefs[j]
          /\ \A j \in Upto(K) : Place(l, j) < Count(gftbls.coeffs) => j < m
    BY RowTablesAt
  <1>3. ASSUME NEW j \in Upto(K) PROVE j < m
    <2>1. PICK held \in Nat : RowTablesAre(gftbls, made, held)
      BY DEF IInv, TablesInv
    <2>2. Count(gftbls.coeffs) = held
      BY <2>1, CountOf DEF RowTablesAre, IsTables
    <2>3. l + 1 \in Nat /\ l \in Upto(l + 1) /\ (l + 1) * K \in Nat
      BY RowsAre, SizesAre DEF Upto
    <2>4. Place(l, j) \in Upto((l + 1) * K)
      BY <2>3, SizesAre, PositionOf DEF Place
    <2>5. Place(l, j) < Count(gftbls.coeffs)
      BY <1>1, <2>2, <2>3, <2>4 DEF Upto
    <2>6. QED
      BY <1>2, <2>5
  <1>4. DOMAIN tbl.coeffs = Upto(K) /\ \A j \in Upto(K) : tbl.coeffs[j] = coefs[j]
    <2> HIDE DEF coefs
    <2>1. tbl = [format |-> "nibble", coeffs |-> Slice(RowTables(l).coeffs, K)]
      BY <1>2 DEF FirstTables, IsTables
    <2> HIDE DEF tbl
    <2>2. QED
      BY <1>2, <1>3, <2>1 DEF Slice
  <1> HIDE DEF tbl
  <1>5. ASSUME verdict = Fine, NEW n \in Nat, Account(coding[l], folded[l], coefs, n)
        PROVE  Account(row, history, coefs, n)
    <2> DEFINE one == ShardCount(tbl.coeffs, Count(data))
               two == ShardLength(data, Count(coding[l]), 0)
    <2>1. Verdict(<<one, two>>) = Fine
      BY <1>5 DEF vect_dot_prod_checks
    <2>2. (\A e \in one : e.kind # "Ok") /\ (\A e \in two : e.kind # "Ok")
      BY CheckKinds
    <2>3. one = {} /\ two = {}
      <3> HIDE DEF one, two
      <3>1. QED
        BY <2>1, <2>2, FineTwo
    <2>4. Count(data) = K
      BY <1>4, <2>3, SizesAre, CountOf, ShardCountPasses
    <2>5. Whole(l) = n /\ DOMAIN coding[l] = Upto(n)
      BY <1>5, AccountBuffer DEF Account, Whole
    <2>6. DOMAIN data = Upto(K) /\ \A j \in Upto(K) : Covers(data[j], n)
      <3>1. \A j \in DOMAIN data : Count(data[j]) = n
        BY <2>3, <2>5, ShardLengthPasses DEF Whole
      <3>2. \A j \in DOMAIN data : ~(Count(data[j]) < n)
        BY <3>1
      <3>3. QED
        BY <2>4, <3>2, DataCovers
    <2>7. ASSUME NEW q \in Upto(n)
          PROVE  XorAll(Upto(K), [j \in Upto(K) |-> Term(tbl, K, 0, j, data[j][q])])
                   = Dot(Upto(K), coefs, Across(data, Upto(K), q))
      <3> DEFINE t == [j \in Upto(K) |-> Term(tbl, K, 0, j, data[j][q])]
                 u == [j \in Upto(K) |-> mul(coefs[j], Across(data, Upto(K), q)[j])]
      <3>1. \A j \in Upto(K) : 0 * K + j = j
        BY SizesAre DEF Upto
      <3>2. \A j \in Upto(K) : t[j] = u[j]
        BY <1>4, <3>1 DEF Term, Across
      <3>3. Dot(Upto(K), coefs, Across(data, Upto(K), q)) = XorAll(Upto(K), u)
        BY DEF Dot
      <3> HIDE DEF t, u, coefs
      <3>4. XorAll(Upto(K), t) = XorAll(Upto(K), u)
        BY <3>2, XorAllSame
      <3>5. QED
        BY <3>3, <3>4 DEF t
    <2>8. row = Replaced(coding[l], coefs, data, n)
      <3>1. row = [q \in Upto(n) |->
                     XorAll(Upto(K), [j \in Upto(K) |-> Term(tbl, K, 0, j, data[j][q])])]
        BY <2>4, <2>5 DEF vect_dot_prod, KernelEncode
      <3>2. \A q \in Upto(n) : q < n
        BY DEF Upto
      <3> HIDE DEF row, coefs
      <3>3. QED
        BY <2>5, <2>7, <3>1, <3>2 DEF Replaced
    <2>9. history = ReplacedHistory(coding[l], folded[l], data, n)
      BY <2>5 DEF Overwritten, ReplacedHistory
    <2> HIDE DEF history, row, coefs
    <2>10. QED
      BY <1>5, <2>6, <2>8, <2>9, ReplacedAccount
  <1> HIDE DEF verdict, row, history
  <1>6. QED
    BY <1>1, <1>5, RowKept

LEMMA SameLengthPasses ==
  ASSUME NEW x, NEW y, Verdict(<<SameLength(x, y)>>) = Fine
  PROVE  Count(x) = Count(y)
  <1>1. \A e \in SameLength(x, y) : e.kind # "Ok"
    BY DEF SameLength, Raise
  <1>2. SameLength(x, y) = {}
    BY <1>1, FineOne
  <1>3. QED
    BY <1>2 DEF SameLength, Raise

LEMMA TableOfSource ==
  ASSUME IInv, NEW l \in Row, NEW i \in Upto(K), l * K + i < Count(gftbls.coeffs)
  PROVE  RowTables(l).coeffs[i] = CoefRow(made[l], l)[i]
  <1>1. Place(l, i) < Count(gftbls.coeffs)
    BY DEF Place
  <1>2. QED
    BY <1>1, RowTablesAt

LEMMA VectMadKeeps ==
  ASSUME IInv, NEW l \in Row, NEW src \in Sources, NEW i \in Upto(K), VectMad(l, i, src)
  PROVE  IInv'
  <1> DEFINE coefs == CoefRow(made[l], l)
             verdict == Verdict(<<SameLength(src, coding[l])>>)
             row == vect_mad(coding[l], RowTables(l).coeffs[i], src)
             history == Added(l, i, src, Whole(l))
  <1>1. WriteRow(l, verdict, row, history) /\ RowTables(l).coeffs[i] = coefs[i]
    BY TableOfSource DEF VectMad
  <1>2. IsBuffer(src) /\ CoefVector(coefs)
    BY BufferAssumption, MadeVector DEF IInv, TablesInv
  <1>3. ASSUME verdict = Fine, NEW n \in Nat, Account(coding[l], folded[l], coefs, n)
        PROVE  Account(row, history, coefs, n)
    <2>1. Whole(l) = n /\ DOMAIN coding[l] = Upto(n)
      BY <1>3, AccountBuffer DEF Account, Whole
    <2>2. Count(src) = n
      BY <1>3, <2>1, SameLengthPasses DEF Whole
    <2>3. Covers(src, n)
      BY <1>2, <2>2, BufferCovers
    <2>4. \A q \in Upto(n) : q < n
      BY DEF Upto
    <2>5. row = FoldedIn(coding[l], coefs[i], src, n)
      <3> HIDE DEF coefs
      <3>1. QED
        BY <1>1, <2>1, <2>4 DEF vect_mad, FoldedIn
    <2>6. history = FoldedHistory(coding[l], folded[l], i, src, n)
      BY <2>1 DEF Added, FoldedHistory
    <2> HIDE DEF history, row, coefs
    <2>7. QED
      BY <1>2, <1>3, <2>3, <2>5, <2>6, FoldedAccount
  <1> HIDE DEF verdict, row, history
  <1>4. QED
    BY <1>1, <1>3, RowKept

LEMMA VectMulKeeps ==
  ASSUME IInv, NEW l \in Row, NEW src \in Sources, NEW i \in Upto(K), VectMul(l, i, src)
  PROVE  IInv'
  <1> DEFINE coefs == CoefRow(made[l], l)
             verdict == Verdict(<<SameLength(src, coding[l])>>)
             row == vect_mul(coding[l], RowTables(l).coeffs[i], src)
             history == Overwritten(l, OnlySource(i, src), Whole(l))
  <1>1. WriteRow(l, verdict, row, history) /\ RowTables(l).coeffs[i] = coefs[i]
    BY TableOfSource DEF VectMul
  <1>2. IsBuffer(src) /\ CoefVector(coefs)
    BY BufferAssumption, MadeVector DEF IInv, TablesInv
  <1>3. ASSUME verdict = Fine, NEW n \in Nat, Account(coding[l], folded[l], coefs, n)
        PROVE  Account(row, history, coefs, n)
    <2>1. Whole(l) = n /\ DOMAIN coding[l] = Upto(n) /\ DOMAIN src = Upto(n)
      <3>1. Whole(l) = n /\ DOMAIN coding[l] = Upto(n)
        BY <1>3, AccountBuffer DEF Account, Whole
      <3>2. Count(src) = n
        BY <1>3, <3>1, SameLengthPasses DEF Whole
      <3>3. QED
        BY <1>2, <3>1, <3>2 DEF IsBuffer
    <2>2. Count(src) >= n
      BY <2>1, CountOf
    <2>3. \A q \in Upto(n) : q < n
      BY DEF Upto
    <2>4. row = [q \in DOMAIN coding[l] |->
                   IF q < n THEN mul(coefs[i], src[q]) ELSE coding[l][q]]
      <3> HIDE DEF coefs
      <3>1. QED
        BY <1>1, <2>1, <2>3 DEF vect_mul
    <2>5. history = ReplacedHistory(coding[l], folded[l], OnlySource(i, src), n)
      BY <2>1 DEF Overwritten, ReplacedHistory
    <2> HIDE DEF history, row, coefs
    <2>6. QED
      BY <1>2, <1>3, <2>2, <2>4, <2>5, ProductAccount
  <1> HIDE DEF verdict, row, history
  <1>4. QED
    BY <1>1, <1>3, RowKept
-----------------------------------------------------------------------------
(* All calls.                                                              *)

LEMMA NextKeeps ==
  ASSUME IInv, [Next]_vars
  PROVE  IInv'
  <1>1. CASE UNCHANGED vars
    BY <1>1 DEF vars, IInv, MatrixInv, TablesInv, BooksInv
  <1>2. CASE \E construction \in {"rs", "cauchy"}, m \in {K - 1, M, M + 1} :
               Generate(construction, m, K)
    BY <1>2, GenerateKeeps
  <1>3. CASE \E rows \in 1..(P + 1) : InitTables(rows)
    BY <1>3, InitTablesKeeps
  <1>4. CASE Zero
    BY <1>4, ZeroKeeps
  <1>5. CASE \E n \in 0..P : \E rows \in {n, P}, len \in Lens : \E data \in DataLists :
               EncodeData(len, K, rows, data, n)
    BY <1>5, EncodeDataKeeps
  <1>6. CASE \E n \in 0..P : \E rows \in {n, P}, len \in Lens :
               \E src \in Sources, i \in 0..K : UpdateData(len, rows, i, src, n)
    BY <1>6, UpdateDataKeeps
  <1>7. CASE \E l \in Row, len \in Lens, data \in DataLists : DotProd(l, len, data)
    BY <1>7, DotProdKeeps
  <1>8. CASE \E l \in Row, len \in Lens, src \in Sources, i \in Upto(K) :
               Mad(l, len, i, src) \/ Mul(l, len, i, src)
    BY <1>8, MadKeeps, MulKeeps
  <1>9. CASE \E l \in Row, data \in DataLists : VectDotProd(l, data)
    BY <1>9, VectDotProdKeeps
  <1>10. CASE \E l \in Row, src \in Sources, i \in Upto(K) :
                VectMad(l, i, src) \/ VectMul(l, i, src)
    BY <1>10, VectMadKeeps, VectMulKeeps
  <1>11. QED
    BY <1>1, <1>2, <1>3, <1>4, <1>5, <1>6, <1>7, <1>8, <1>9, <1>10 DEF Next

LEMMA InvariantHolds == Spec => []IInv
  BY InitKeeps, NextKeeps, PTL DEF Spec

LEMMA LedgerTracks ==
  ASSUME IInv
  PROVE  RowsTrackFolds
  <1>1. PICK n \in Nat : Ledger(coding, folded, made, n)
    BY DEF IInv, BooksInv
  <1>2. ASSUME NEW l \in Row, NEW q \in DOMAIN coding[l]
        PROVE  coding[l][q] = XorAll(Upto(K),
                 [j \in Upto(K) |-> mul(Coefficient(l, j), folded[l][j][q])])
    <2> DEFINE t == [j \in Upto(K) |-> mul(Coefficient(l, j), folded[l][j][q])]
               u == [j \in Upto(K) |-> mul(CoefRow(made[l], l)[j],
                                           Across(folded[l], Upto(K), q)[j])]
    <2>1. coding[l][q] = XorAll(Upto(K), u)
      BY <1>1 DEF Ledger, Account, Dot
    <2>2. \A j \in Upto(K) : Coefficient(l, j) = CoefRow(made[l], l)[j]
      BY DEF Coefficient, CoefRow, Typed
    <2>3. \A j \in Upto(K) : t[j] = u[j]
      BY <2>2 DEF Across
    <2> HIDE DEF t, u
    <2>4. XorAll(Upto(K), t) = XorAll(Upto(K), u)
      BY <2>3, XorAllSame
    <2>5. QED
      BY <2>1, <2>4 DEF t
  <1>3. QED
    BY <1>2 DEF RowsTrackFolds

(* Whatever the order of the calls, the matrices and tables remade between *)
(* them, the buffers too long and the updates cut short: a row of parity is*)
(* what the typed coder of its construction gives for what was folded in.  *)
THEOREM TracksRows == Spec => []RowsTrackFolds
  BY InvariantHolds, LedgerTracks, PTL

-----------------------------------------------------------------------------
(* Calls that fail.                                                        *)

(* What ErrorFoldsPrefix asks of a step that failed.                       *)
PrefixFolded ==
  \E n \in Row :
    /\ \A l \in Row : l >= n => coding'[l] = coding[l]
    /\ n > 0 => \E i \in Upto(K), len \in Lens, src \in Sources :
         \A l \in Row : l < n =>
           coding'[l] = [q \in DOMAIN coding[l] |->
             IF q >= Min({len, Count(src)}) THEN coding[l][q]
             ELSE XOR(coding[l][q], mul(Coefficient(l, i), src[q]))]

LEMMA NothingFails ==
  ASSUME coding' = coding
  PROVE  PrefixFolded
  <1>1. 0 \in Row /\ ~(0 > 0)
    BY RowsAre
  <1>2. QED
    BY <1>1 DEF PrefixFolded

LEMMA UpdateFails ==
  ASSUME IInv, NEW n \in 0..P, NEW rows \in {n, P}, NEW len \in Lens,
         NEW src \in Sources, NEW i \in 0..K, UpdateData(len, rows, i, src, n), failed'
  PROVE  PrefixFolded
  <1>1. CASE UpdateChecks(len, rows, i, src, n) # Fine
    <2>1. coding' = coding
      BY <1>1, UpdateDoes DEF Untouched
    <2>2. QED
      BY <2>1, NothingFails
  <1>2. CASE UpdateChecks(len, rows, i, src, n) = Fine
    <2> DEFINE found == TablesFound(gftbls, K, i, rows)
    <2>1. UpdateFolds(n, i, src, len, found) /\ found # rows /\ rows = n
      BY <1>2, UpdateDoes
    <2> HIDE DEF found
    <2>2. found \in Row
      <3>1. found \in Nat /\ found <= n /\ found # n /\ n <= P /\ n \in Nat /\ P \in Nat
        BY <2>1, SizesAre DEF UpdateFolds
      <3>2. QED
        BY <3>1 DEF Row, Upto
    <2>3. \A l \in Row : l >= found => coding'[l] = coding[l]
      <3>1. \A l \in Row : l >= found => ~(l < found)
        BY <2>2, RowsAre
      <3>2. QED
        BY <2>1, <3>1 DEF UpdateFolds
    <2>4. ASSUME NEW l \in Row, l < found
          PROVE  coding'[l] = [q \in DOMAIN coding[l] |->
                   IF q >= Min({len, Count(src)}) THEN coding[l][q]
                   ELSE XOR(coding[l][q], mul(Coefficient(l, i), src[q]))]
      <3>1. coding'[l] = FoldedIn(coding[l], CoefRow(made[l], l)[i], src, len)
        BY <2>1, <2>4 DEF UpdateFolds
      <3>2. Min({len, Count(src)}) = len
        <4>1. len \in Nat /\ Count(src) \in Nat /\ Count(src) >= len
          BY <2>1, LensAreNat, BufferAssumption DEF UpdateFolds, IsBuffer
        <4>2. QED
          BY <4>1, MinOfTwo
      <3>3. \A q \in DOMAIN coding[l] : q >= len <=> ~(q < len)
        <4>1. PICK size \in Nat : Ledger(coding, folded, made, size)
          BY DEF IInv, BooksInv
        <4>2. DOMAIN coding[l] = Upto(size) /\ len \in Nat
          BY <4>1, LensAreNat DEF Ledger
        <4>3. QED
          BY <4>2 DEF Upto
      <3>4. CoefRow(made[l], l)[i] = Coefficient(l, i)
        BY <2>1 DEF UpdateFolds, CoefRow, Coefficient, Typed
      <3>5. QED
        BY <3>1, <3>2, <3>3, <3>4 DEF FoldedIn
    <2>5. i \in Upto(K)
      BY <2>1 DEF UpdateFolds
    <2>6. \E source \in Upto(K), width \in Lens, from \in Sources :
            \A l \in Row : l < found =>
              coding'[l] = [q \in DOMAIN coding[l] |->
                IF q >= Min({width, Count(from)}) THEN coding[l][q]
                ELSE XOR(coding[l][q], mul(Coefficient(l, source), from[q]))]
      BY <2>4, <2>5
    <2>7. QED
      BY <2>2, <2>3, <2>6 DEF PrefixFolded
  <1>3. QED
    BY <1>1, <1>2

LEMMA RowFails ==
  ASSUME NEW l, NEW verdict, NEW row, NEW history, WriteRow(l, verdict, row, history), failed'
  PROVE  PrefixFolded
  <1>1. verdict # Fine
    BY DEF WriteRow, Returns
  <1>2. coding' = coding
    BY <1>1 DEF WriteRow, Untouched
  <1>3. QED
    BY <1>2, NothingFails

LEMMA FailureFoldsPrefix ==
  ASSUME IInv, [Next]_vars
  PROVE  [failed' => PrefixFolded]_vars
  <1>1. SUFFICES ASSUME vars' # vars, failed' PROVE PrefixFolded
    OBVIOUS
  <1>2. CASE \E construction \in {"rs", "cauchy"}, m \in {K - 1, M, M + 1} :
               Generate(construction, m, K)
    <2>1. coding' = coding
      BY <1>2 DEF Generate, Untouched
    <2>2. QED
      BY <2>1, NothingFails
  <1>3. CASE \E rows \in 1..(P + 1) : InitTables(rows)
    <2>1. PICK rows \in 1..(P + 1) : InitTables(rows)
      BY <1>3
    <2>2. Verdict(ec_init_tables_checks(K, rows, ParityBlock(a), gftbls)) # Fine
      BY <1>1, <2>1 DEF InitTables, Returns
    <2>3. coding' = coding
      BY <2>1, <2>2 DEF InitTables, Untouched
    <2>4. QED
      BY <2>3, NothingFails
  <1>4. CASE Zero
    BY <1>1, <1>4 DEF Zero
  <1>5. CASE \E n \in 0..P : \E rows \in {n, P}, len \in Lens : \E data \in DataLists :
               EncodeData(len, K, rows, data, n)
    <2>1. PICK n \in 0..P : \E rows \in {n, P}, len \in Lens : \E data \in DataLists :
            EncodeData(len, K, rows, data, n)
      BY <1>5
    <2>2. PICK rows, len, data : EncodeData(len, K, rows, data, n)
      BY <2>1
    <2>3. ec_encode_data_verdict(len, K, rows, gftbls, data, Slice(coding, n)) # Fine
      BY <1>1, <2>2 DEF EncodeData, Returns
    <2>4. coding' = coding
      BY <2>2, <2>3 DEF EncodeData, Untouched
    <2>5. QED
      BY <2>4, NothingFails
  <1>6. CASE \E n \in 0..P : \E rows \in {n, P}, len \in Lens :
               \E src \in Sources, i \in 0..K : UpdateData(len, rows, i, src, n)
    BY <1>1, <1>6, UpdateFails
  <1>7. CASE \E l \in Row, len \in Lens, data \in DataLists : DotProd(l, len, data)
    BY <1>1, <1>7, RowFails DEF DotProd
  <1>8. CASE \E l \in Row, len \in Lens, src \in Sources, i \in Upto(K) : Mad(l, len, i, src)
    BY <1>1, <1>8, RowFails DEF Mad
  <1>9. CASE \E l \in Row, len \in Lens, src \in Sources, i \in Upto(K) : Mul(l, len, i, src)
    BY <1>1, <1>9, RowFails DEF Mul
  <1>10. CASE \E l \in Row, data \in DataLists : VectDotProd(l, data)
    BY <1>1, <1>10, RowFails DEF VectDotProd
  <1>11. CASE \E l \in Row, src \in Sources, i \in Upto(K) : VectMad(l, i, src)
    BY <1>1, <1>11, RowFails DEF VectMad
  <1>12. CASE \E l \in Row, src \in Sources, i \in Upto(K) : VectMul(l, i, src)
    BY <1>1, <1>12, RowFails DEF VectMul
  <1>13. QED
    BY <1>1, <1>2, <1>3, <1>4, <1>5, <1>6, <1>7, <1>8, <1>9, <1>10, <1>11, <1>12 DEF Next

(* A call that failed left every parity row as it was, or is an update that*)
(* folded its source into the rows before the one it has no table for.     *)
THEOREM ErrorsFoldPrefix == Spec => ErrorFoldsPrefix
  <1>1. IInv /\ [Next]_vars => [failed' => PrefixFolded]_vars
    BY FailureFoldsPrefix
  <1>2. Spec => [][failed' => PrefixFolded]_vars
    BY <1>1, InvariantHolds, PTL DEF Spec
  <1>3. QED
    BY <1>2 DEF ErrorFoldsPrefix, PrefixFolded

-----------------------------------------------------------------------------
(* Repair.                                                                 *)

(* Any K of the rows a client of this layer keeps can be inverted.         *)
KeptRegular(A) ==
  \A f \in [Upto(K) -> Kept] :
    (\A t, u \in Upto(K) : t # u => f[t] # f[u]) => IsOk(invert(select_rows(A, K, f)))

LEMMA KeptIs ==
  /\ Kept \in SUBSET Upto(M) /\ IsFiniteSet(Kept) /\ Cardinality(Kept) = K + P
  /\ \A s \in Kept : s < K \/ s - K - Skip \in Row
  <1> DEFINE Gap == K..(K + Skip - 1)
  <1>1. IsFiniteSet(Upto(M)) /\ Cardinality(Upto(M)) = M
    BY SizesAre, UptoFinite
  <1>2. Cardinality(Gap) = Skip
    <2>1. K \in Int /\ K + Skip - 1 \in Int
      BY SizesAre
    <2>2. Cardinality(Gap) = IF K > K + Skip - 1 THEN 0 ELSE (K + Skip - 1) - K + 1
      BY <2>1, FS_Interval
    <2>3. QED
      BY <2>2, SizesAre
  <1>3. Upto(M) \cap Gap = Gap
    <2>1. \A e \in Gap : e \in Upto(M)
      BY SizesAre DEF Upto
    <2>2. QED
      BY <2>1
  <1>4. Kept = Upto(M) \ Gap
    BY DEF Kept
  <1>5. \A s \in Kept : s < K \/ s - K - Skip \in Row
    BY <1>4, SizesAre DEF Upto, Row
  <1> HIDE DEF Gap
  <1>6. IsFiniteSet(Upto(M) \ Gap) /\ Cardinality(Upto(M) \ Gap) = M - Skip
    BY <1>1, <1>2, <1>3, FS_Difference
  <1>7. QED
    BY <1>4, <1>5, <1>6, SizesAre

(* K rows are left of those kept when P are lost.                          *)
LEMMA SurvivorsAre ==
  ASSUME NEW lost \in kSubset(P, Kept)
  PROVE  /\ Smallest(Kept \ lost, K) \in [Upto(K) -> Kept]
         /\ \A t, u \in Upto(K) :
              t # u => Smallest(Kept \ lost, K)[t] # Smallest(Kept \ lost, K)[u]
  <1>1. lost \in SUBSET Kept /\ Cardinality(lost) = P
    BY DEF kSubset
  <1>2. Kept \cap lost = lost
    BY <1>1
  <1>3. IsFiniteSet(Kept \ lost) /\ Cardinality(Kept \ lost) = K
    BY <1>1, <1>2, KeptIs, FS_Difference, SizesAre
  <1>4. Kept \ lost \in SUBSET Nat
    <2>1. \A s \in Kept : s \in Upto(M)
      BY KeptIs
    <2>2. QED
      BY <2>1 DEF Upto
  <1>5. K \in Nat /\ K <= Cardinality(Kept \ lost)
    BY <1>3, SizesAre
  <1>6. Smallest(Kept \ lost, K) \in [Upto(K) -> Kept \ lost]
    BY <1>3, <1>4, <1>5, SmallestIn
  <1>7. \A t, u \in Upto(K) :
          t # u => Smallest(Kept \ lost, K)[t] # Smallest(Kept \ lost, K)[u]
    BY <1>3, <1>4, <1>5, SmallestDiffer
  <1>8. QED
    BY <1>6, <1>7

LEMMA SplitPosition ==
  ASSUME NEW n \in Nat, NEW e \in Upto(n * n)
  PROVE  e \div n \in Upto(n) /\ e % n \in Upto(n)
  <1>1. n * n \in Nat /\ e \in Nat /\ e < n * n
    BY DEF Upto
  <1>2. n # 0
    BY <1>1
  <1>3. e \div n \in Nat /\ e % n \in 0..(n - 1) /\ e = n * (e \div n) + (e % n)
    BY <1>1, <1>2
  <1>4. ASSUME e \div n >= n PROVE FALSE
    <2>1. PICK x \in Nat : e \div n = n + x
      <3> DEFINE d == e \div n
      <3>1. d \in Nat /\ d >= n
        BY <1>3, <1>4
      <3> HIDE DEF d
      <3>2. d - n \in Nat /\ d = n + (d - n)
        BY <3>1
      <3>3. QED
        BY <3>2 DEF d
    <2>2. n * (n + x) = n * n + n * x /\ n * x \in Nat
      BY <2>1
    <2>3. QED
      BY <1>1, <1>3, <2>1, <2>2
  <1>5. QED
    BY <1>3, <1>4 DEF Upto

(* What gf_invert_matrix leaves in a buffer of rows that can be inverted,  *)
(* and in the other one.                                                   *)
Packed(m) == [e \in Upto(K * K) |-> m[e \div K][e % K]]

LEMMA PackedAt ==
  ASSUME NEW m, NEW r \in Upto(K), NEW c \in Upto(K)
  PROVE  Packed(m)[Place(r, c)] = m[r][c]
  <1> DEFINE e == Place(r, c)
  <1>1. e \in Upto(K * K) /\ e \div K = r /\ e % K = c
    BY SizesAre, PositionOf DEF Place
  <1> HIDE DEF e
  <1>2. Packed(m)[e] = m[e \div K][e % K]
    BY <1>1 DEF Packed
  <1>3. QED
    BY <1>1, <1>2 DEF e

Diagonal == [e \in Upto(K * K) |-> Delta(e \div K, e % K)]

LEMMA NoErrorIsFine ==
  ASSUME NEW checks, \A i \in DOMAIN checks : checks[i] = {}
  PROVE  Verdict(checks) = Fine
  BY DEF Verdict

Blank == Flat(K, K, LAMBDA r, c : {})

LEMMA BelowEnd ==
  ASSUME NEW n \in Nat
  PROVE  \A e \in Upto(n) : e < n
  BY DEF Upto

(* A buffer of just the right size is written over as a whole.             *)
LEMMA WrittenWhole ==
  ASSUME NEW buf, DOMAIN buf = Upto(K * K), NEW m, K * K \in Nat
  PROVE  [e \in DOMAIN buf |-> IF e < K * K THEN m[e \div K][e % K] ELSE buf[e]] = Packed(m)
  <1>1. \A e \in Upto(K * K) : e < K * K
    BY BelowEnd
  <1>2. QED
    BY <1>1 DEF Packed

LEMMA BufferInverts ==
  ASSUME NEW A \in Mat(K), NEW in, DOMAIN in = Upto(K * K),
         \A r, c \in Upto(K) : in[Place(r, c)] = A[r][c],
         ~invert_gauss_jordan(A, K).singular
  PROVE  LET d == gf_invert_matrix(in, Blank, K)
         IN  /\ d.verdict = Fine
             /\ d.in = Diagonal
             /\ \E D \in Mat(K) : /\ Times(D, A, K) = Identity(K).at
                                  /\ \A r, c \in Upto(K) : d.out[Place(r, c)] = D[r][c]
  <1> DEFINE at == [r \in Upto(K) |-> [c \in Upto(K) |-> in[r * K + c]]]
             s == invert_gauss_jordan(A, K)
             d == gf_invert_matrix(in, Blank, K)
             checks == gf_invert_matrix_checks(in, Blank, K)
             Left(buf, m) ==
               [e \in DOMAIN buf |-> IF e < K * K THEN m[e \div K][e % K] ELSE buf[e]]
  <1>1. at = A
    BY DEF Place, Mat
  <1>2. DOMAIN in = Upto(K * K) /\ DOMAIN Blank = Upto(K * K) /\ K * K \in Nat
    BY SizesAre DEF Blank, Flat
  <1>3. Verdict(checks) = Fine
    <2>1. Count(in) = K * K /\ Count(Blank) = K * K
      BY <1>2, CountOf
    <2>2. checks = <<{}, {}>>
      BY <1>2, <2>1, SizesAre DEF gf_invert_matrix_checks
    <2> HIDE DEF checks
    <2>3. \A i \in DOMAIN checks : checks[i] = {}
      BY <2>2
    <2>4. QED
      BY <2>3, NoErrorIsFine
  <1>4. Left(in, s.a) = Packed(s.a) /\ Left(Blank, s.out) = Packed(s.out)
    BY <1>2, WrittenWhole
  <1>5. d = [verdict |-> Fine, in |-> Packed(s.a), out |-> Packed(s.out)]
    <2>1. d = IF Verdict(checks) # Fine
              THEN [verdict |-> Verdict(checks), in |-> in, out |-> Blank]
              ELSE [verdict |-> IF s.singular THEN Verdict(<<Raise("Singular", 0)>>) ELSE Fine,
                    in |-> Left(in, s.a), out |-> Left(Blank, s.out)]
      BY <1>1 DEF gf_invert_matrix
    <2> HIDE DEF checks, d, Left
    <2>2. ~s.singular
      OBVIOUS
    <2> HIDE DEF s
    <2>3. QED
      BY <1>3, <1>4, <2>1, <2>2
  <1>6. Halfway(s.a, s.out, A, K, K)
    BY SizesAre, RunReduces
  <1> HIDE DEF s
  <1>7. s.out \in Mat(K) /\ Times(s.out, A, K) = Identity(K).at
    BY <1>6, SizesAre, HalfwayEnd
  <1>8. Packed(s.a) = Diagonal
    <2>1. ASSUME NEW e \in Upto(K * K)
          PROVE  s.a[e \div K][e % K] = Delta(e \div K, e % K)
      <3>1. e \div K \in Upto(K) /\ e % K \in Upto(K)
        BY SizesAre, SplitPosition
      <3>2. QED
        BY <1>6, <3>1 DEF Halfway, Reduced
    <2>2. QED
      BY <2>1 DEF Packed, Diagonal
  <1>9. \A r, c \in Upto(K) : Packed(s.out)[Place(r, c)] = s.out[r][c]
    BY PackedAt
  <1> HIDE DEF d
  <1>10. QED
    BY <1>5, <1>7, <1>8, <1>9 DEF d

(* Byte q of the stripe the rows in step hold, and of its shards.          *)
LEMMA ShardIs ==
  ASSUME IInv, kind # None, InStep, \A l \in Row : made[l] = kind,
         NEW n \in Nat, Ledger(coding, folded, made, n), NEW s \in Kept, NEW q \in Upto(n)
  PROVE  /\ Shard(s) \in [Upto(n) -> Byte]
         /\ Shard(s)[q] = Dot(Upto(K), Typed(kind).at[s], Across(folded[0], Upto(K), q))
  <1>1. kind \in {"rs", "cauchy"} /\ s \in Upto(M) /\ s \in Nat /\ IsFiniteSet(Upto(K))
    <2>1. kind \in {"rs", "cauchy"} /\ s \in Upto(M) /\ IsFiniteSet(Upto(K))
      BY KeptIs, SizesAre, UptoFinite DEF IInv, MatrixInv, Constructions
    <2>2. QED
      BY <2>1 DEF Upto
  <1>2. Systematic(Typed(kind), M, K)
    BY <1>1, TypedSystematic
  <1>3. folded[0] \in [Upto(K) -> [Upto(n) -> Byte]]
    BY RowsAre DEF Ledger
  <1>4. CASE s < K
    <2>1. Shard(s) = folded[0][s] /\ s \in Upto(K)
      BY <1>1, <1>4, SizesAre DEF Shard, Upto
    <2>2. \A t \in Upto(K) : /\ Across(folded[0], Upto(K), q)[t] = folded[0][t][q]
                             /\ folded[0][t][q] \in Byte
                             /\ Typed(kind).at[s][t] = Delta(s, t)
      BY <1>2, <1>3, <2>1 DEF Across, Systematic
    <2> DEFINE u == Typed(kind).at[s]
               x == Across(folded[0], Upto(K), q)
    <2>3. Dot(Upto(K), u, x) = x[s]
      <3>1. \A t \in Upto(K) : x[t] \in Byte /\ u[t] = Delta(s, t)
        BY <2>2
      <3>2. s \in Upto(K) /\ IsFiniteSet(Upto(K))
        BY <1>1, <2>1
      <3> HIDE DEF u, x
      <3>3. QED
        BY <3>1, <3>2, DotUnit
    <2>4. QED
      BY <1>3, <2>1, <2>2, <2>3
  <1>5. CASE ~(s < K)
    <2> DEFINE l == s - K - Skip
    <2>1. l \in Row /\ Shard(s) = coding[l] /\ K + Skip + l = s
      BY <1>1, <1>5, KeptIs, SizesAre DEF Shard
    <2> HIDE DEF l
    <2>2. /\ coding[l] \in [Upto(n) -> Byte]
          /\ coding[l][q] = Dot(Upto(K), CoefRow(kind, l), Across(folded[0], Upto(K), q))
      BY <2>1 DEF Ledger, Account, InStep
    <2>3. \A t \in Upto(K) : CoefRow(kind, l)[t] = Typed(kind).at[s][t]
      BY <2>1 DEF CoefRow
    <2>4. Dot(Upto(K), CoefRow(kind, l), Across(folded[0], Upto(K), q))
            = Dot(Upto(K), Typed(kind).at[s], Across(folded[0], Upto(K), q))
      BY <2>3, DotSame
    <2>5. QED
      BY <2>1, <2>2, <2>4
  <1>6. QED
    BY <1>4, <1>5

LEMMA RowOfTables == \A c \in Upto(K) : c < K * 1
  <1>1. K \in Nat /\ K * 1 = K
    BY SizesAre
  <1>2. QED
    BY <1>1, BelowEnd

LEMMA DecodesFrom ==
  ASSUME IInv, kind # None, InStep, \A l \in Row : made[l] = kind,
         NEW survivors \in [Upto(K) -> Kept],
         IsOk(invert(select_rows(Typed(kind), K, survivors))),
         NEW b, DOMAIN b = Upto(K * K),
         \A r, c \in Upto(K) : b[Place(r, c)] = a[Place(survivors[r], c)],
         NEW d, d = gf_invert_matrix(b, Blank, K)
  PROVE  /\ d.verdict = Fine
         /\ d.in = Diagonal
         /\ \A r \in Upto(K) :
              LET row == [c \in Upto(K) |-> d.out[r * K + c]]
                  tbl == ec_init_tables(K, 1, row, FirstTables(gftbls, K))
              IN  gf_vect_dot_prod(Count(coding[0]), K, tbl,
                    [t \in Upto(K) |-> Shard(survivors[t])], Zeroed(coding[0]))
                    = folded[0][r]
  <1> DEFINE A == select_rows(Typed(kind), K, survivors).at
  <1>1. kind \in {"rs", "cauchy"} /\ survivors \in [Upto(K) -> Upto(M)]
    BY KeptIs DEF IInv, MatrixInv, Constructions
  <1>2. /\ A \in Mat(K)
        /\ \A t, j \in Upto(K) : A[t][j] = Typed(kind).at[survivors[t]][j]
        /\ select_rows(Typed(kind), K, survivors).rows = K
        /\ select_rows(Typed(kind), K, survivors).cols = K
    BY <1>1, TypedSystematic, SizesAre, SelectedRows
  <1>3. ~invert_gauss_jordan(A, K).singular
    BY <1>2 DEF invert, IsOk, Err
  <1> HIDE DEF A
  <1>4. ASSUME NEW r \in Upto(K), NEW c \in Upto(K)
        PROVE  b[Place(r, c)] = A[r][c]
    <2>1. b[Place(r, c)] = a[Place(survivors[r], c)]
      OBVIOUS
    <2>2. survivors[r] \in Upto(M)
      BY <1>1
    <2>3. a[Place(survivors[r], c)] = Typed(kind).at[survivors[r]][c]
      BY <2>2 DEF IInv, MatrixInv
    <2>4. QED
      BY <1>2, <2>1, <2>3
  <1>5. /\ d.verdict = Fine
        /\ d.in = Diagonal
        /\ \E D \in Mat(K) : /\ Times(D, A, K) = Identity(K).at
                             /\ \A r, c \in Upto(K) : d.out[Place(r, c)] = D[r][c]
    BY <1>2, <1>3, <1>4, BufferInverts
  <1>6. PICK D \in Mat(K) : /\ Times(D, A, K) = Identity(K).at
                            /\ \A r, c \in Upto(K) : d.out[Place(r, c)] = D[r][c]
    BY <1>5
  <1>7. PICK n \in Nat : Ledger(coding, folded, made, n)
    BY DEF IInv, BooksInv
  <1>8. /\ DOMAIN coding[0] = Upto(n) /\ Count(coding[0]) = n
        /\ coding[0] \in [Upto(n) -> Byte]
        /\ folded[0] \in [Upto(K) -> [Upto(n) -> Byte]]
    BY <1>7, RowsAre, AccountBuffer DEF Ledger
  <1>9. ASSUME NEW r \in Upto(K)
        PROVE  LET row == [c \in Upto(K) |-> d.out[r * K + c]]
                   tbl == ec_init_tables(K, 1, row, FirstTables(gftbls, K))
               IN  gf_vect_dot_prod(Count(coding[0]), K, tbl,
                     [t \in Upto(K) |-> Shard(survivors[t])], Zeroed(coding[0]))
                     = folded[0][r]
    <2> DEFINE row == [c \in Upto(K) |-> d.out[r * K + c]]
               tbl == ec_init_tables(K, 1, row, FirstTables(gftbls, K))
               data == [t \in Upto(K) |-> Shard(survivors[t])]
               blank == Zeroed(coding[0])
               out == [x \in {0} |-> blank]
    <2>1. \A c \in Upto(K) : row[c] = D[r][c]
      BY <1>6 DEF Place
    <2>2. IsTables(tbl, K) /\ \A c \in Upto(K) : tbl.coeffs[c] = row[c]
      <3> HIDE DEF row
      <3>1. PICK held \in Nat : IsTables(gftbls, held)
        BY DEF IInv, TablesInv, RowTablesAre
      <3>2. FirstTables(gftbls, K)
              = [format |-> "nibble", coeffs |-> Slice(gftbls.coeffs, K)]
        BY <3>1 DEF FirstTables, IsTables
      <3>3. DOMAIN Slice(gftbls.coeffs, K) = Upto(K)
        BY DEF Slice
      <3>4. \A c \in Upto(K) : c < K * 1
        BY RowOfTables
      <3>5. tbl = [format |-> "nibble",
                   coeffs |-> [e \in Upto(K) |-> IF e < K * 1 THEN row[e]
                                                 ELSE Slice(gftbls.coeffs, K)[e]]]
        BY <3>2, <3>3 DEF ec_init_tables
      <3> HIDE DEF tbl
      <3>6. QED
        BY <3>4, <3>5 DEF IsTables
    <2>3. blank \in [Upto(n) -> Byte] /\ IsBuffer(blank)
      <3>1. blank \in [Upto(n) -> Byte]
        BY <1>8, ByteFacts DEF Zeroed
      <3> HIDE DEF blank
      <3>2. QED
        BY <3>1, AccountBuffer
    <2>4. /\ DOMAIN out = Upto(1) /\ 0 \in Upto(1) /\ 1 \in Nat /\ out[0] = blank
          /\ \A x \in Upto(1) : IsBuffer(out[x])
      <3>1. Upto(1) = {0}
        BY DEF Upto
      <3> HIDE DEF blank
      <3>2. QED
        BY <2>3, <3>1
    <2>5. gf_vect_dot_prod(n, K, tbl, data, blank) = ec_encode_data(n, K, 1, tbl, data, out)[0]
      BY DEF gf_vect_dot_prod
    <2>6. DOMAIN data = Upto(K)
      OBVIOUS
    <2> HIDE DEF row, tbl, blank, out
    <2>7. OwnCoefs(row, tbl, 0)
      <3>1. \A j \in Upto(K) : Place(0, j) = j
        BY SizesAre DEF Place, Upto
      <3>2. QED
        BY <2>2, <3>1 DEF OwnCoefs
    <2>8. ec_encode_data(n, K, 1, tbl, data, out)[0] = Replaced(blank, row, data, n)
      <3> HIDE DEF data
      <3>1. K \in Nat
        BY SizesAre
      <3>2. ec_encode_data(n, K, 1, tbl, data, out)[0] = Replaced(out[0], row, data, n)
        BY <2>2, <2>4, <2>6, <2>7, <3>1, EncodeWrites
      <3>3. QED
        BY <2>4, <3>2
    <2>9. ASSUME NEW q \in Upto(n)
          PROVE  Dot(Upto(K), row, Across(data, Upto(K), q)) = folded[0][r][q]
      <3> DEFINE x == Across(folded[0], Upto(K), q)
                 y == Across(data, Upto(K), q)
      <3>1. \A j \in Upto(K) : x[j] \in Byte /\ x[r] = folded[0][r][q]
        BY <1>8 DEF Across
      <3>2. ASSUME NEW t \in Upto(K) PROVE y[t] = Dot(Upto(K), A[t], x)
        <4>1. survivors[t] \in Kept
          OBVIOUS
        <4>2. y[t] = Shard(survivors[t])[q]
          BY DEF Across
        <4>3. Shard(survivors[t])[q] = Dot(Upto(K), Typed(kind).at[survivors[t]], x)
          BY <1>7, <4>1, ShardIs
        <4> HIDE DEF x, y
        <4>4. Dot(Upto(K), Typed(kind).at[survivors[t]], x) = Dot(Upto(K), A[t], x)
          BY <1>2, DotSame
        <4>5. QED
          BY <4>2, <4>3, <4>4
      <3> HIDE DEF x, y
      <3>3. Dot(Upto(K), D[r], y) = x[r]
        <4>1. K \in Nat /\ A \in Mat(K) /\ Times(D, A, K) = Identity(K).at
          BY <1>2, <1>6, SizesAre
        <4>2. \A j \in Upto(K) : x[j] \in Byte
          BY <3>1
        <4> HIDE DEF A
        <4>3. QED
          BY <3>2, <4>1, <4>2, SourcesFrom
      <3>4. Dot(Upto(K), row, y) = Dot(Upto(K), D[r], y)
        BY <2>1, DotSame
      <3>5. QED
        BY <3>1, <3>3, <3>4 DEF y
    <2>10. Replaced(blank, row, data, n) = folded[0][r]
      <3>1. DOMAIN blank = Upto(n) /\ \A q \in Upto(n) : q < n
        BY <2>3 DEF Upto
      <3>2. folded[0][r] = [q \in Upto(n) |-> folded[0][r][q]]
        BY <1>8
      <3> HIDE DEF data
      <3>3. QED
        BY <2>9, <3>1, <3>2 DEF Replaced
    <2>11. gf_vect_dot_prod(Count(coding[0]), K, tbl, data, blank) = folded[0][r]
      BY <1>8, <2>5, <2>8, <2>10
    <2>12. QED
      BY <2>11 DEF row, tbl, blank
  <1>10. QED
    BY <1>5, <1>9

LEMMA RegularDecodes ==
  ASSUME IInv, kind # None => KeptRegular(Typed(kind))
  PROVE  DecodeReturnsSources
  <1> SUFFICES ASSUME kind # None, InStep, \A l \in Row : made[l] = kind,
                      NEW lost \in kSubset(P, Kept)
               PROVE  LET survivors == Smallest(Kept \ lost, K)
                          b   == Flat(K, K, LAMBDA r, c : a[survivors[r] * K + c])
                          d   == gf_invert_matrix(b, Blank, K)
                          len == Count(coding[0])
                      IN  /\ d.verdict = Fine
                          /\ d.in = Flat(K, K, Delta)
                          /\ \A r \in Upto(K) :
                               LET row == [c \in Upto(K) |-> d.out[r * K + c]]
                                   tbl == ec_init_tables(K, 1, row, FirstTables(gftbls, K))
                               IN  gf_vect_dot_prod(len, K, tbl,
                                     [t \in Upto(K) |-> Shard(survivors[t])],
                                     Zeroed(coding[0]))
                                     = folded[0][r]
    BY DEF DecodeReturnsSources, Blank
  <1> DEFINE survivors == Smallest(Kept \ lost, K)
  <1>1. /\ survivors \in [Upto(K) -> Kept]
        /\ \A t, u \in Upto(K) : t # u => survivors[t] # survivors[u]
    BY SurvivorsAre
  <1> HIDE DEF survivors
  <1>2. IsOk(invert(select_rows(Typed(kind), K, survivors)))
    BY <1>1 DEF KeptRegular
  <1> DEFINE b == Flat(K, K, LAMBDA r, c : a[survivors[r] * K + c])
             d == gf_invert_matrix(b, Blank, K)
  <1>3. DOMAIN b = Upto(K * K) /\ \A r, c \in Upto(K) : b[Place(r, c)] = a[Place(survivors[r], c)]
    <2>1. ASSUME NEW r \in Upto(K), NEW c \in Upto(K)
          PROVE  b[Place(r, c)] = a[Place(survivors[r], c)]
      <3>1. b = Packed([x \in Upto(K) |-> [y \in Upto(K) |-> a[Place(survivors[x], y)]]])
        <4>1. \A e \in Upto(K * K) : e \div K \in Upto(K) /\ e % K \in Upto(K)
          BY SizesAre, SplitPosition
        <4>2. QED
          BY <4>1 DEF Packed, Flat, Place
      <3> HIDE DEF b
      <3>2. QED
        BY <3>1, PackedAt
    <2>2. DOMAIN b = Upto(K * K)
      BY DEF Flat
    <2>3. QED
      BY <2>1, <2>2
  <1>4. Diagonal = Flat(K, K, Delta)
    BY DEF Diagonal, Flat
  <1> HIDE DEF b
  <1>5. /\ d.verdict = Fine
        /\ d.in = Diagonal
        /\ \A r \in Upto(K) :
             LET row == [c \in Upto(K) |-> d.out[r * K + c]]
                 tbl == ec_init_tables(K, 1, row, FirstTables(gftbls, K))
             IN  gf_vect_dot_prod(Count(coding[0]), K, tbl,
                   [t \in Upto(K) |-> Shard(survivors[t])], Zeroed(coding[0]))
                   = folded[0][r]
    BY <1>1, <1>2, <1>3, DecodesFrom
  <1>6. QED
    BY <1>4, <1>5 DEF survivors, b

LEMMA CauchyIsRegular == KeptRegular(TypedCauchy)
  <1> SUFFICES ASSUME NEW f \in [Upto(K) -> Kept],
                      \A t, u \in Upto(K) : t # u => f[t] # f[u]
               PROVE  IsOk(invert(select_rows(TypedCauchy, K, f)))
    BY DEF KeptRegular
  <1>1. f \in [Upto(K) -> Upto(M)]
    BY KeptIs
  <1>2. /\ Systematic(TypedCauchy, K + (Skip + P), K)
        /\ Separates(TypedCauchy, K, Skip + P)
    BY SizesAre, CauchyShape, CauchySeparates DEF TypedCauchy
  <1>3. K \in Nat /\ Skip + P \in Nat /\ M = K + (Skip + P)
    BY SizesAre
  <1>4. QED
    BY <1>1, <1>2, <1>3, SelectionInverts

(* Stripes in step are repaired through this layer from any K of the rows  *)
(* kept, as long as those rows of the Vandermonde matrix can be inverted   *)
(* (the Cauchy rows always can).                                           *)
THEOREM RegularStripesDecode ==
  ASSUME KeptRegular(TypedRs)
  PROVE  Spec => []DecodeReturnsSources
  <1>1. IInv => DecodeReturnsSources
    <2>1. SUFFICES ASSUME IInv PROVE DecodeReturnsSources
      OBVIOUS
    <2>2. kind # None => KeptRegular(Typed(kind))
      BY <2>1, CauchyIsRegular DEF IInv, MatrixInv, Constructions, Typed
    <2>3. QED
      BY <2>1, <2>2, RegularDecodes
  <1>2. QED
    BY <1>1, InvariantHolds, PTL

(* The rows kept of a Vandermonde matrix of a safe shape always can.       *)
LEMMA RsIsRegular ==
  ASSUME SafeShape(K, Skip + P)
  PROVE  KeptRegular(TypedRs)
  <1> SUFFICES ASSUME NEW f \in [Upto(K) -> Kept],
                      \A t, u \in Upto(K) : t # u => f[t] # f[u]
               PROVE  IsOk(invert(select_rows(TypedRs, K, f)))
    BY DEF KeptRegular
  <1>1. f \in [Upto(K) -> Upto(M)]
    BY KeptIs
  <1>2. K \in Nat /\ Skip + P \in Nat /\ M = K + (Skip + P) /\ check_dims(K, Skip + P)
    BY SizesAre
  <1>3. Systematic(TypedRs, K + (Skip + P), K) /\ Separates(TypedRs, K, Skip + P)
    BY <1>2, VandermondeShape, VandermondeSeparates DEF TypedRs
  <1>4. QED
    BY <1>1, <1>2, <1>3, SelectionInverts

(* Stripes of either construction are repaired, from any K of the rows     *)
(* kept, whenever the shape of the matrix is a safe one.                   *)
THEOREM SafeStripesDecode ==
  ASSUME SafeShape(K, Skip + P)
  PROVE  Spec => []DecodeReturnsSources
  BY RsIsRegular, RegularStripesDecode

(* With the Cauchy construction they are repaired without a condition: for *)
(* every K, P and Skip the field has room for.                             *)
THEOREM CauchyStripesDecode == Spec => [](kind = "cauchy" => DecodeReturnsSources)
  <1>1. IInv => (kind = "cauchy" => DecodeReturnsSources)
    <2>1. SUFFICES ASSUME IInv, kind = "cauchy" PROVE DecodeReturnsSources
      OBVIOUS
    <2>2. KeptRegular(Typed(kind))
      BY <2>1, CauchyIsRegular DEF Typed
    <2>3. QED
      BY <2>1, <2>2, RegularDecodes
  <1>2. QED
    BY <1>1, InvariantHolds, PTL

=============================================================================
