------------------------------- MODULE Matrix -------------------------------
(***************************************************************************)
(* Coding matrices (core/src/matrix.rs): the two encode-matrix             *)
(* constructions, row selection, product and Gauss-Jordan inversion; and   *)
(* the third construction, which the facade makes of them.                 *)
(*                                                                         *)
(* A matrix is [rows, cols, at], at[r][c] the coefficient; its dimensions  *)
(* are at least 1, which the constructors of the code guarantee.  An       *)
(* operation that can fail returns Ok(value) or Err(kind).                 *)
(*                                                                         *)
(* What select_rows, multiply and invert_gauss_jordan refuse is left out:  *)
(* every caller picks existing rows, multiplies matrices that match, and   *)
(* inverts the n * n coefficients of a matrix.                             *)
(***************************************************************************)
EXTENDS GF

Ok(v)      == [ok |-> v]
Err(kind)  == [err |-> kind]
IsOk(r)    == "ok" \in DOMAIN r

Upto(n) == 0..(n - 1)

(* What the proofs use of the field: the product commutes, is determined   *)
(* by the products with the bits of a byte, associates on bits, has a unit *)
(* and inverses.                                                           *)
ASSUME FieldLaws ==
  /\ \A a, x \in Byte :
       /\ mul(a, x) \in Byte
       /\ mul(a, x) = mul(x, a)
       /\ mul(a, x) = XorAll(x, [b \in x |-> mul(a, {b})])
  /\ \A b, c, d \in Bit : mul(mul({b}, {c}), {d}) = mul({b}, mul({c}, {d}))
  /\ \A a \in Byte :
       /\ mul({0}, a) = a
       /\ a # {} => inv(a) \in Byte /\ mul(a, inv(a)) = {0}

(* What the proofs about the safe region use, for n rows or columns next   *)
(* to four of the other: 1, 2^d and 2^e never sum to zero for d and e      *)
(* below n, and no third power of a node comes round to another's.  Every  *)
(* n up to 21 has it in the code's field.                                  *)
Gaps(n) ==
  /\ 3 * (n - 1) < Order
  /\ \A d, e \in 1..(n - 1) : XOR({0}, EXP[d]) # EXP[e]

Matrix(rows, cols, coeff(_, _)) ==
  [rows |-> rows, cols |-> cols,
   at |-> [r \in Upto(rows) |-> [c \in Upto(cols) |-> coeff(r, c)]]]

Delta(r, c) == IF r = c THEN {0} ELSE {}
Identity(n) == Matrix(n, n, Delta)

is_identity(A) == A.rows = A.cols /\ A = Identity(A.rows)

(* k + p rows must be distinct field elements: at most 255.                *)
check_dims(k, p) == k # 0 /\ p # 0 /\ k + p <= Order

(* Mutant: one row too many for five sources.                              *)
vandermonde_safe_off_by_one(k, m) ==
  \/ k <= 3
  \/ k = 4 /\ m <= 25
  \/ k = 5 /\ m <= 11
  \/ k <= 21 /\ m - k = 4
  \/ m - k <= 3

(* ISA-L's safe region of the Vandermonde construction, m = k + p rows.    *)
vandermonde_safe(k, m) ==
  \/ k <= 3
  \/ k = 4 /\ m <= 25
  \/ k = 5 /\ m <= 10
  \/ k <= 21 /\ m - k = 4
  \/ m - k <= 3

(* g multiplied by itself n times, from 1.                                 *)
Power(g, n) ==
  LET power[i \in 0..n] == IF i = 0 THEN {0} ELSE mul(power[i - 1], g)
  IN  power[n]

(* Parity row i is generated by 2^(i - k): 1, gen, gen^2, ...              *)
vandermonde(k, p) ==
  Matrix(k + p, k, LAMBDA r, c :
    IF r < k THEN Delta(r, c) ELSE Power(Power(OfNat(2), r - k), c))

reed_solomon(k, p) ==
  IF ~check_dims(k, p) THEN Err("Dimensions")
  ELSE IF ~vandermonde_safe(k, k + p) THEN Err("VandermondeUnsafe")
  ELSE Ok(vandermonde(k, p))

(* Parity row i, column j is the inverse of i ^ j.                         *)
cauchy(k, p) ==
  IF ~check_dims(k, p) THEN Err("Dimensions")
  ELSE Ok(Matrix(k + p, k, LAMBDA r, c :
            IF r < k THEN Delta(r, c) ELSE inv(XOR(OfNat(r), OfNat(c)))))

(* The dimensions fit 1..=256; data lists the bytes row by row.            *)
from_bytes(rows, cols, data) ==
  IF \/ rows \notin 1..(Order + 1) \/ cols \notin 1..(Order + 1)
     \/ DOMAIN data # Upto(rows * cols)
  THEN Err("Dimensions")
  ELSE Ok(Matrix(rows, cols, LAMBDA r, c : data[r * cols + c]))

(* The rows picked, in the order given: picked is a function on Upto(n).   *)
select_rows(A, n, picked) ==
  Matrix(n, A.cols, LAMBDA r, c : A.at[picked[r]][c])

multiply(A, B) ==
  Matrix(A.rows, B.cols, LAMBDA r, c :
    XorAll(Upto(A.cols), [t \in Upto(A.cols) |-> mul(A.at[r][t], B.at[t][c])]))
-----------------------------------------------------------------------------
(* Gauss-Jordan elimination on a (reduced in place) and out (which becomes *)
(* the inverse), both functions of rows; one column is pivoted, scaled and *)
(* eliminated at a time (invert_gauss_jordan).                             *)

(* Mutants: every other row is searched; the next row is missed.           *)
PivotRowsAnywhere(a, i) == {j \in DOMAIN a : j # i /\ a[j][i] # {}}
PivotRowsSkippingNext(a, i) == {j \in DOMAIN a : j > i + 1 /\ a[j][i] # {}}

(* The rows below i that could replace a zero pivot.                       *)
PivotRows(a, i) == {j \in DOMAIN a : j > i /\ a[j][i] # {}}

SwapRows(m, i, j) == [m EXCEPT ![i] = m[j], ![j] = m[i]]

ScaleRow(m, i, scale) ==
  [m EXCEPT ![i] = [c \in DOMAIN m[i] |-> mul(m[i][c], scale)]]

(* Mutant: the rows above the pivot are left alone.                        *)
EliminateRowsBelow(m, i, f) ==
  [j \in DOMAIN m |->
     IF j <= i THEN m[j]
     ELSE [c \in DOMAIN m[j] |-> XOR(m[j][c], mul(f[j], m[i][c]))]]

(* Row j of m loses f[j] times row i, for every j but i.                   *)
EliminateRows(m, i, f) ==
  [j \in DOMAIN m |->
     IF j = i THEN m[i]
     ELSE [c \in DOMAIN m[j] |-> XOR(m[j][c], mul(f[j], m[i][c]))]]

ColumnOf(m, i) == [j \in DOMAIN m |-> m[j][i]]

(* Mutant: the inverse keeps its rows.                                     *)
PivotWorkOnly(s, i) ==
  IF s.a[i][i] # {} THEN s
  ELSE IF PivotRows(s.a, i) = {} THEN [s EXCEPT !.singular = TRUE]
  ELSE [s EXCEPT !.a = SwapRows(s.a, i, Min(PivotRows(s.a, i)))]

Pivot(s, i) ==
  IF s.a[i][i] # {} THEN s
  ELSE IF PivotRows(s.a, i) = {} THEN [s EXCEPT !.singular = TRUE]
  ELSE LET j == Min(PivotRows(s.a, i))
       IN  [s EXCEPT !.a = SwapRows(s.a, i, j), !.out = SwapRows(s.out, i, j)]

Scale(s, i) ==
  LET scale == inv(s.a[i][i])
  IN  [s EXCEPT !.a = ScaleRow(s.a, i, scale), !.out = ScaleRow(s.out, i, scale)]

Eliminate(s, i) ==
  LET f == ColumnOf(s.a, i)
  IN  [s EXCEPT !.a = EliminateRows(s.a, i, f), !.out = EliminateRows(s.out, i, f)]

(* Column i from end to end.  A column without a pivot ends the inversion: *)
(* later ones are left as they are.                                        *)
ReduceColumn(s, i) ==
  IF s.singular THEN s
  ELSE LET pivoted == Pivot(s, i)
       IN  IF pivoted.singular THEN pivoted ELSE Eliminate(Scale(pivoted, i), i)

invert_gauss_jordan(at, n) ==
  LET reduced[i \in 0..n] ==
        IF i = 0 THEN [a |-> at, out |-> Identity(n).at, singular |-> FALSE]
        ELSE ReduceColumn(reduced[i - 1], i - 1)
  IN  reduced[n]

invert(A) ==
  IF A.rows # A.cols THEN Err("Dimensions")
  ELSE LET s == invert_gauss_jordan(A.at, A.rows)
       IN  IF s.singular THEN Err("Singular")
           ELSE Ok([rows |-> A.rows, cols |-> A.rows, at |-> s.out])
-----------------------------------------------------------------------------
(* The matrix of the reed-solomon-erasure crate (facade/src/lib.rs):       *)
(* V(n, k) times the inverse of its top, where V[r][c] = r^c.              *)
powers_of_rows(n, k) ==
  from_bytes(n, k, [e \in Upto(n * k) |-> Power(OfNat(e \div k), e % k)])

reed_solomon_erasure_matrix(k, p) ==
  IF k = 0 \/ p = 0 \/ k + p > Order + 1 THEN Err("Dimensions")
  ELSE LET vand == powers_of_rows(k + p, k).ok
           top  == invert(select_rows(vand, k, [i \in Upto(k) |-> i]))
       IN  IF IsOk(top) THEN Ok(multiply(vand, top.ok)) ELSE top

=============================================================================
