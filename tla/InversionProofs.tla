--------------------------- MODULE InversionProofs ---------------------------
(***************************************************************************)
(* One call of the inversion, for every field in which the laws of         *)
(* FieldLaws hold, every set of square input matrices and every set of     *)
(* encode shapes: the partial inverse tracks the reduced matrix, passed    *)
(* columns stay reduced, and the call ends as the function Matrix::invert  *)
(* of the decode path does; Singular means a kernel, and is never said of  *)
(* a selection inside the safe region.                                     *)
(***************************************************************************)
EXTENDS Inversion, CoderProofs

-----------------------------------------------------------------------------
(* The matrices of Init are square matrices of field elements.             *)

LEMMA SurvivorsTyped ==
  ASSUME NEW m \in Survivors
  PROVE  \E n \in Nat \ {0} : m \in Mat(n)
  <1>1. PICK s \in Shapes :
          IsOk(reed_solomon(s[1], s[2])) /\ m \in Selections(reed_solomon(s[1], s[2]).ok)
    BY DEF Survivors
  <1> DEFINE k == s[1]
             p == s[2]
             A == vandermonde(k, p)
  <1>2. k \in Nat /\ p \in Nat
    BY InputAssumption
  <1>3. k # 0 /\ reed_solomon(k, p).ok = A
    BY <1>1 DEF reed_solomon, IsOk, Ok, Err, check_dims
  <1>4. A.rows = k + p /\ A.cols = k
    BY DEF vandermonde, Matrix
  <1>5. \A r \in Upto(k + p), c \in Upto(k) : A.at[r][c] \in Byte
    <2> TAKE r \in Upto(k + p), c \in Upto(k)
    <2>1. A.at[r][c] = IF r < k THEN Delta(r, c) ELSE Power(Power(OfNat(2), r - k), c)
      BY DEF vandermonde, Matrix
    <2>2. CASE r < k
      BY <2>1, <2>2, DeltaByte
    <2>3. CASE ~(r < k)
      <3>1. r - k \in Nat /\ c \in Nat
        BY <1>2, <2>3 DEF Upto
      <3>2. OfNat(2) \in Byte
        BY DEF OfNat, Byte
      <3>3. Power(Power(OfNat(2), r - k), c) \in Byte
        BY <3>1, <3>2, PowerNext
      <3>4. QED
        BY <2>1, <2>3, <3>3
    <2>4. QED
      BY <2>2, <2>3
  <1> HIDE DEF A
  <1>6. PICK at \in [Upto(k) -> Upto(k + p)] : m = select_rows(A, k, at).at
    BY <1>1, <1>3, <1>4 DEF Selections
  <1>7. m \in Mat(k)
    BY <1>4, <1>5, <1>6 DEF select_rows, Matrix, Mat
  <1>8. QED
    BY <1>2, <1>3, <1>7
-----------------------------------------------------------------------------
(* The invariant: work is input half reduced and inverse what reduced it.  *)
(* Between the phases of one column, the pivot is known.                   *)

Typed ==
  /\ Size \in Nat \ {0}
  /\ input \in Mat(Size)

Where ==
  /\ phase \in {"pivot", "scale", "eliminate", "done", "singular"}
  /\ phase = "done" => column = Size
  /\ phase # "done" => column \in Upto(Size)
  /\ phase = "scale" => work[column][column] # {}
  /\ phase = "eliminate" => work[column][column] = {0}

IInv == Typed /\ Where /\ Halfway(work, inverse, input, Size, column)

LEMMA InitTyped ==
  ASSUME Init
  PROVE  Typed
  <1>1. \E n \in Nat \ {0} : input \in Mat(n)
    <2>1. CASE input \in Inputs
      BY <2>1, InputAssumption DEF Mat
    <2>2. CASE input \in Survivors
      BY <2>2, SurvivorsTyped
    <2>3. QED
      BY <2>1, <2>2 DEF Init
  <1>2. PICK n \in Nat \ {0} : input \in Mat(n)
    BY <1>1
  <1>3. DOMAIN input = Upto(n)
    BY <1>2 DEF Mat
  <1>4. Size = n
    BY <1>3, UptoCardinality DEF Size
  <1>5. QED
    BY <1>2, <1>4 DEF Typed

LEMMA InitHolds ==
  ASSUME Init
  PROVE  IInv
  <1>1. Typed
    BY InitTyped
  <1>2. Where
    BY <1>1 DEF Init, Where, Typed, Upto
  <1>3. Halfway(work, inverse, input, Size, column)
    BY <1>1, HalfwayStart DEF Init, Typed
  <1>4. QED
    BY <1>1, <1>2, <1>3 DEF IInv

LEMMA StepKeeps ==
  ASSUME IInv, [Next]_vars
  PROVE  IInv'
  <1> USE DEF IInv
  <1>1. CASE UNCHANGED vars
    <2>1. /\ input' = input /\ work' = work /\ inverse' = inverse
          /\ column' = column /\ phase' = phase
      BY <1>1 DEF vars
    <2>2. QED
      BY <2>1 DEF Typed, Where, Size
  <1>2. CASE Next
    <2>1. input' = input
      BY <1>2 DEF Next, KeepRow, SwapPivot, ReportSingular, ScalePivotRow, EliminateColumn
    <2>2. Size' = Size /\ Typed' /\ Size \in Nat
      BY <2>1 DEF Size, Typed
    <2> DEFINE i == column
               n == Size
    <2>3. CASE KeepRow \/ ReportSingular
      BY <2>2, <2>3 DEF KeepRow, ReportSingular, Where
    <2>4. CASE SwapPivot
      <3> DEFINE j == Min(PivotRows(work, column))
      <3>1. i \in Upto(n) /\ PivotRows(work, i) # {} /\ work \in Mat(n)
        BY <2>4 DEF SwapPivot, Where, Halfway
      <3>2. j \in Upto(n) /\ j > i /\ work[j][i] # {}
        BY <2>2, <3>1, PivotRowFound
      <3>3. /\ work' = SwapRows(work, i, j)
            /\ inverse' = SwapRows(inverse, i, j)
            /\ column' = column /\ phase' = "scale"
        BY <2>4 DEF SwapPivot
      <3> HIDE DEF j
      <3>4. /\ Halfway(work', inverse', input, n, i)
            /\ work'[i][i] # {}
        BY <2>2, <3>1, <3>2, <3>3, HalfwaySwap DEF Typed
      <3>5. QED
        BY <2>1, <2>2, <3>1, <3>3, <3>4 DEF Where
    <2>5. CASE ScalePivotRow
      <3> DEFINE s == inv(work[column][column])
      <3>1. i \in Upto(n) /\ work[i][i] # {}
        BY <2>5 DEF ScalePivotRow, Where
      <3>2. /\ work' = ScaleRow(work, i, s)
            /\ inverse' = ScaleRow(inverse, i, s)
            /\ column' = column /\ phase' = "eliminate"
        BY <2>5 DEF ScalePivotRow
      <3>3. /\ Halfway(work', inverse', input, n, i)
            /\ work'[i][i] = {0}
        BY <2>2, <3>1, <3>2, HalfwayScale DEF Typed
      <3>4. QED
        BY <2>1, <2>2, <3>1, <3>2, <3>3 DEF Where
    <2>6. CASE EliminateColumn
      <3> DEFINE f == ColumnOf(work, column)
      <3>1. i \in Upto(n) /\ work[i][i] = {0}
        BY <2>6 DEF EliminateColumn, Where
      <3>2. /\ work' = EliminateRows(work, i, f)
            /\ inverse' = EliminateRows(inverse, i, f)
            /\ column' = i + 1
            /\ phase' = IF i + 1 = n THEN "done" ELSE "pivot"
        BY <2>6 DEF EliminateColumn
      <3>3. Halfway(work', inverse', input, n, i + 1)
        BY <2>2, <3>1, <3>2, HalfwayEliminate DEF Typed
      <3>4. i + 1 # n => i + 1 \in Upto(n)
        BY <2>2, <3>1 DEF Upto
      <3>5. QED
        BY <2>1, <2>2, <3>2, <3>3, <3>4 DEF Where
    <2>7. QED
      BY <1>2, <2>3, <2>4, <2>5, <2>6 DEF Next
  <1>3. QED
    BY <1>1, <1>2

THEOREM Inductive == Spec => []IInv
  <1>1. Init => IInv
    BY InitHolds
  <1>2. IInv /\ [Next]_vars => IInv'
    BY StepKeeps
  <1>3. QED
    BY <1>1, <1>2, PTL DEF Spec

(* The product of the code is the product of the proofs.                   *)
LEMMA ProductIsTimes ==
  ASSUME NEW B, NEW A
  PROVE  Product(B, A) = Times(B, A, Size)
  <1> DEFINE I == Upto(Size)
             P == Product(B, A)
  <1>1. P = [r \in I |-> [c \in I |->
              XorAll(I, [t \in I |-> mul(B[r][t], A[t][c])])]]
    BY DEF Product, multiply, Matrix, Square
  <1>2. ASSUME NEW r \in I, NEW c \in I
        PROVE  P[r][c] = Times(B, A, Size)[r][c]
    <2> DEFINE u == [t \in I |-> mul(B[r][t], A[t][c])]
               v == [t \in I |-> mul(B[r][t], Column(A, Size, c)[t])]
    <2>1. \A t \in I : u[t] = v[t]
      BY DEF Column
    <2>2. P[r][c] = XorAll(I, u) /\ Times(B, A, Size)[r][c] = XorAll(I, v)
      BY <1>1 DEF Times, Dot
    <2> HIDE DEF u, v
    <2>3. QED
      BY <2>1, <2>2, XorAllSame
  <1>3. P \in Mat(Size)
    BY <1>1, XorAllByte DEF Mat
  <1> HIDE DEF P
  <1>4. QED
    BY <1>2, <1>3, TimesMat, MatEqual DEF P

(* Row swaps, scalings and eliminations are applied to both matrices: the  *)
(* partial inverse times the matrix of the call is the reduced matrix, at  *)
(* every step of every call.                                               *)
THEOREM TracksWork == Spec => []InverseTracksWork
  <1>1. IInv => InverseTracksWork
    BY ProductIsTimes DEF IInv, Halfway, InverseTracksWork
  <1>2. QED
    BY <1>1, Inductive, PTL

(* No later swap, scaling or elimination disturbs a column that is done.   *)
THEOREM ColumnsStayReduced == Spec => []PassedColumnsReduced
  <1>1. IInv => PassedColumnsReduced
    BY DEF IInv, Halfway, Reduced, PassedColumnsReduced, UnitColumn
  <1>2. QED
    BY <1>1, Inductive, PTL
-----------------------------------------------------------------------------
(* The call and the function: f is the states invert goes through.         *)

Through(f) ==
  /\ f \in [0..Size -> States(Size)]
  /\ f[0] = Start(input, Size)
  /\ \A i \in Upto(Size) : f[i + 1] = ReduceColumn(f[i], i)

Regular(a, out) == [a |-> a, out |-> out, singular |-> FALSE]

Now == Regular(work, inverse)

Along(f) ==
  /\ phase \in {"pivot", "done"} => f[column] = Now
  /\ phase = "scale" => Pivot(f[column], column) = Now
  /\ phase = "eliminate" => Scale(Pivot(f[column], column), column) = Now
  /\ phase = "singular" => Pivot(f[column], column).singular

InStep == \A f : Through(f) => Along(f)

LEMMA ScaleRegular ==
  ASSUME NEW a, NEW out, NEW i, NEW s, s = inv(a[i][i])
  PROVE  Scale(Regular(a, out), i) = Regular(ScaleRow(a, i, s), ScaleRow(out, i, s))
  <1> DEFINE r == Regular(a, out)
  <1>1. r.a = a /\ r.out = out
    BY DEF Regular
  <1> HIDE DEF r
  <1>2. Scale(r, i) = [r EXCEPT !.a = ScaleRow(a, i, s), !.out = ScaleRow(out, i, s)]
    BY <1>1 DEF Scale
  <1>3. QED
    BY <1>2 DEF r, Regular

LEMMA EliminateRegular ==
  ASSUME NEW a, NEW out, NEW i, NEW f, f = ColumnOf(a, i)
  PROVE  Eliminate(Regular(a, out), i)
           = Regular(EliminateRows(a, i, f), EliminateRows(out, i, f))
  <1> DEFINE r == Regular(a, out)
  <1>1. r.a = a /\ r.out = out
    BY DEF Regular
  <1> HIDE DEF r
  <1>2. Eliminate(r, i)
          = [r EXCEPT !.a = EliminateRows(a, i, f), !.out = EliminateRows(out, i, f)]
    BY <1>1 DEF Eliminate
  <1>3. QED
    BY <1>2 DEF r, Regular

LEMMA InitInStep ==
  ASSUME Init
  PROVE  InStep
  BY DEF Init, InStep, Through, Along, Start, Now, Regular

LEMMA StepInStep ==
  ASSUME IInv, InStep, [Next]_vars
  PROVE  InStep'
  <1>1. input' = input /\ Size' = Size
    BY DEF Next, KeepRow, SwapPivot, ReportSingular, ScalePivotRow,
           EliminateColumn, Size, vars
  <1>2. ASSUME NEW f, Through(f)
        PROVE  Along(f)'
    <2> DEFINE i == column
               n == Size
               p == Pivot(f[i], i)
    <2>1. Along(f)
      BY <1>2 DEF InStep
    <2>2. CASE UNCHANGED vars
      BY <2>1, <2>2 DEF vars, Along, Now
    <2>3. CASE KeepRow
      <3>1. f[i] = Now /\ work[i][i] # {}
        BY <2>1, <2>3 DEF Along, KeepRow
      <3>2. Pivot(Now, i) = Now
        BY <3>1 DEF Pivot, Now, Regular
      <3>3. Now' = Now /\ column' = i /\ phase' = "scale"
        BY <2>3 DEF KeepRow, Now
      <3>4. QED
        BY <3>1, <3>2, <3>3 DEF Along
    <2>4. CASE ReportSingular
      <3>1. f[i] = Now /\ work[i][i] = {} /\ PivotRows(work, i) = {}
        BY <2>1, <2>4 DEF Along, ReportSingular
      <3>2. Pivot(Now, i).singular
        BY <3>1 DEF Pivot, Now, Regular
      <3>3. column' = i /\ phase' = "singular"
        BY <2>4 DEF ReportSingular
      <3>4. QED
        BY <3>1, <3>2, <3>3 DEF Along
    <2>5. CASE SwapPivot
      <3> DEFINE j == Min(PivotRows(work, i))
      <3>1. f[i] = Now /\ work[i][i] = {} /\ PivotRows(work, i) # {}
        BY <2>1, <2>5 DEF Along, SwapPivot
      <3>2. Pivot(Now, i) = Regular(SwapRows(work, i, j), SwapRows(inverse, i, j))
        BY <3>1 DEF Pivot, Now, Regular
      <3>3. /\ work' = SwapRows(work, i, j) /\ inverse' = SwapRows(inverse, i, j)
            /\ column' = i /\ phase' = "scale"
        BY <2>5 DEF SwapPivot
      <3>4. QED
        BY <3>1, <3>2, <3>3 DEF Along, Now
    <2>6. CASE ScalePivotRow
      <3> DEFINE s == inv(work[i][i])
      <3>1. p = Now
        BY <2>1, <2>6 DEF Along, ScalePivotRow
      <3>2. Scale(Now, i) = Regular(ScaleRow(work, i, s), ScaleRow(inverse, i, s))
        BY ScaleRegular DEF Now
      <3>3. /\ work' = ScaleRow(work, i, s) /\ inverse' = ScaleRow(inverse, i, s)
            /\ column' = i /\ phase' = "eliminate"
        BY <2>6 DEF ScalePivotRow
      <3>4. QED
        BY <3>1, <3>2, <3>3 DEF Along, Now
    <2>7. CASE EliminateColumn
      <3> DEFINE c == ColumnOf(work, i)
      <3>1. Scale(p, i) = Now /\ i \in Upto(n)
        BY <2>1, <2>7 DEF Along, EliminateColumn, IInv, Where
      <3>2. Eliminate(Now, i) = Regular(EliminateRows(work, i, c), EliminateRows(inverse, i, c))
        BY EliminateRegular DEF Now
      <3>3. /\ work' = EliminateRows(work, i, c) /\ inverse' = EliminateRows(inverse, i, c)
            /\ column' = i + 1 /\ phase' \in {"pivot", "done"}
        BY <2>7 DEF EliminateColumn
      <3>4. ~p.singular /\ ~f[i].singular
        <4>1. n \in Nat /\ input \in Mat(n) /\ f[i] \in States(n)
          BY <1>2, <3>1 DEF Through, Upto, IInv, Typed
        <4>2. p \in States(n) /\ (f[i].singular => p.singular)
          BY <3>1, <4>1, PivotReduced
        <4> HIDE DEF p
        <4>3. Scale(p, i).singular = p.singular
          BY <4>2 DEF Scale, States
        <4>4. Now.singular = FALSE
          BY DEF Now, Regular
        <4>5. QED
          BY <3>1, <4>2, <4>3, <4>4 DEF p
      <3>5. f[i + 1] = Eliminate(Scale(p, i), i)
        BY <1>2, <3>1, <3>4 DEF Through, ReduceColumn
      <3>6. QED
        BY <3>1, <3>2, <3>3, <3>5 DEF Along, Now
    <2>8. QED
      BY <2>2, <2>3, <2>4, <2>5, <2>6, <2>7 DEF Next
  <1>3. ASSUME NEW f
        PROVE  Through(f)' <=> Through(f)
    BY <1>1 DEF Through
  <1>4. QED
    BY <1>2, <1>3 DEF InStep

LEMMA EndAgrees ==
  ASSUME IInv, InStep
  PROVE  CallAgrees
  <1> DEFINE n == Size
             i == column
             s == invert_gauss_jordan(input, n)
  <1>1. n \in Nat \ {0} /\ input \in Mat(n)
    BY DEF IInv, Typed
  <1>2. PICK f : Through(f) /\ s = f[n]
    BY <1>1, InvertRuns DEF Through
  <1>3. Along(f)
    BY <1>2 DEF InStep
  <1>4. /\ Square(input).rows = n /\ Square(input).cols = n /\ Square(input).at = input
        /\ Square(inverse) = [rows |-> n, cols |-> n, at |-> inverse]
    BY DEF Square
  <1>5. CASE phase = "done"
    <2>1. s = Now
      BY <1>2, <1>3, <1>5 DEF Along, IInv, Where
    <2>2. s.singular = FALSE /\ s.out = inverse
      BY <2>1 DEF Now, Regular
    <2>3. QED
      BY <1>4, <1>5, <2>2 DEF CallAgrees, invert
  <1>6. CASE phase = "singular"
    <2> DEFINE G == {m \in 0..n : m > i => f[m].singular}
    <2>1. i \in Upto(n) /\ Pivot(f[i], i).singular
      BY <1>3, <1>6 DEF Along, IInv, Where
    <2>2. f[i + 1].singular
      BY <1>2, <2>1 DEF Through, ReduceColumn
    <2>3. 0 \in G
      BY <1>1, <2>1 DEF Upto
    <2>4. ASSUME NEW m \in Upto(n), m \in G
          PROVE  m + 1 \in G
      <3>1. m + 1 \in 0..n /\ f[m] \in States(n) /\ m \in Nat /\ i \in Nat
        BY <1>1, <1>2, <2>1 DEF Through, Upto
      <3>2. CASE m > i
        <4>1. f[m].singular
          BY <2>4, <3>2
        <4>2. ReduceColumn(f[m], m).singular
          BY <1>1, <3>1, <4>1, ColumnReduced
        <4>3. QED
          BY <1>2, <3>1, <4>2 DEF Through
      <3>3. CASE ~(m > i)
        <4>1. m + 1 > i => m = i
          BY <3>1, <3>3
        <4>2. QED
          BY <2>2, <3>1, <4>1
      <3>4. QED
        BY <3>2, <3>3
    <2> HIDE DEF G
    <2>5. n \in G
      BY <1>1, <2>3, <2>4, UpInduction
    <2>6. s.singular
      BY <1>1, <1>2, <2>1, <2>5 DEF G, Upto
    <2>7. QED
      BY <1>4, <1>6, <2>6 DEF CallAgrees, invert
  <1>7. QED
    BY <1>5, <1>6 DEF CallAgrees

(* The inverse, or the verdict Singular, that the phases of the call end   *)
(* with is what Matrix::invert returns to the decode path.                 *)
THEOREM CallIsFunction == Spec => []CallAgrees
  <1>1. Init => IInv /\ InStep
    BY InitHolds, InitInStep
  <1>2. IInv /\ InStep /\ [Next]_vars => IInv' /\ InStep'
    BY StepKeeps, StepInStep
  <1>3. IInv /\ InStep => CallAgrees
    BY EndAgrees
  <1>4. QED
    BY <1>1, <1>2, <1>3, PTL DEF Spec

-----------------------------------------------------------------------------
(* What Singular means.  No row operation makes a vector the work sends to *)
(* zero one the input does not, and the column without a pivot gives one;  *)
(* its coefficients are from the subfield those of the input are from.     *)

Subfield(S) ==
  /\ {} \in S /\ {0} \in S /\ S \subseteq Byte
  /\ \A x, y \in S : XOR(x, y) \in S /\ mul(x, y) \in S
  /\ \A x \in S : x # {} => inv(x) \in S

Over(S, m, n) == \A r, c \in Upto(n) : m[r][c] \in S

LEMMA ScalarsSubfield ==
  ASSUME NEW m
  PROVE  Subfield(ScalarsOf(m))
  <1>1. Subfield(Scalars)
    BY ScalarAssumption DEF Subfield
  <1>2. Subfield(Byte)
    BY ByteFacts, XorByte, MulByte, MulInverse DEF Subfield
  <1>3. QED
    BY <1>1, <1>2 DEF ScalarsOf

LEMMA SwapOver ==
  ASSUME NEW n \in Nat, NEW S, NEW m \in Mat(n), Over(S, m, n),
         NEW i \in Upto(n), NEW j \in Upto(n)
  PROVE  Over(S, SwapRows(m, i, j), n)
  BY DEF Over, SwapRows, Mat

LEMMA ScaleOver ==
  ASSUME NEW n \in Nat, NEW S, Subfield(S), NEW m \in Mat(n), Over(S, m, n),
         NEW i \in Upto(n), NEW s \in S
  PROVE  Over(S, ScaleRow(m, i, s), n)
  BY DEF Over, ScaleRow, Mat, Subfield

LEMMA EliminateOver ==
  ASSUME NEW n \in Nat, NEW S, Subfield(S), NEW m \in Mat(n), Over(S, m, n),
         NEW i \in Upto(n), NEW f \in [Upto(n) -> S]
  PROVE  Over(S, EliminateRows(m, i, f), n)
  BY DEF Over, EliminateRows, Mat, Subfield

Pivotless ==
  phase = "singular" => work[column][column] = {} /\ PivotRows(work, column) = {}

KInv ==
  /\ Faithful(work, input, Size)
  /\ Over(ScalarsOf(input), work, Size)
  /\ Pivotless

LEMMA InitKInv ==
  ASSUME Init
  PROVE  KInv
  <1>1. input \in Mat(Size) /\ work = input
    BY InitTyped DEF Typed, Init
  <1>2. Over(ScalarsOf(input), input, Size)
    <2>1. DOMAIN input = Upto(Size) /\ \A r, c \in Upto(Size) : input[r][c] \in Byte
      BY <1>1 DEF Mat
    <2>2. QED
      BY <2>1 DEF Over, ScalarsOf
  <1>3. QED
    BY <1>1, <1>2 DEF KInv, Faithful, Pivotless, Init

LEMMA StepKInv ==
  ASSUME IInv, KInv, [Next]_vars
  PROVE  KInv'
  <1> DEFINE n == Size
             i == column
             S == ScalarsOf(input)
  <1>1. input' = input /\ Size' = Size /\ n \in Nat /\ S' = S
    BY DEF Next, KeepRow, SwapPivot, ReportSingular, ScalePivotRow, EliminateColumn,
           vars, Size, IInv, Typed, ScalarsOf
  <1>2. work \in Mat(n) /\ Faithful(work, input, n) /\ Over(S, work, n) /\ Subfield(S)
    BY ScalarsSubfield DEF IInv, Halfway, KInv
  <1>3. CASE UNCHANGED vars
    BY <1>1, <1>3 DEF vars, KInv, Pivotless
  <1>4. CASE KeepRow
    BY <1>1, <1>4 DEF KeepRow, KInv, Pivotless
  <1>5. CASE ReportSingular
    BY <1>1, <1>5 DEF ReportSingular, KInv, Pivotless
  <1> HIDE DEF S
  <1>6. CASE SwapPivot
    <2> DEFINE j == Min(PivotRows(work, column))
    <2>1. i \in Upto(n) /\ PivotRows(work, i) # {}
      BY <1>6 DEF SwapPivot, IInv, Where
    <2>2. j \in Upto(n)
      BY <1>1, <1>2, <2>1, PivotRowFound
    <2>3. work' = SwapRows(work, i, j) /\ phase' = "scale"
      BY <1>6 DEF SwapPivot
    <2> HIDE DEF j
    <2>4. Faithful(work', input, n) /\ Over(S, work', n)
      BY <1>1, <1>2, <2>1, <2>2, <2>3, FaithfulSwap, SwapOver
    <2>5. QED
      BY <1>1, <2>3, <2>4 DEF KInv, Pivotless, S
  <1>7. CASE ScalePivotRow
    <2> DEFINE s == inv(work[column][column])
    <2>1. i \in Upto(n) /\ work[i][i] # {} /\ work[i][i] \in Byte /\ work[i][i] \in S
      BY <1>2, <1>7, MatByte DEF ScalePivotRow, IInv, Where, Over
    <2>2. s \in S /\ s \in Byte /\ s # {}
      BY <1>2, <2>1, InverseNonzero DEF Subfield
    <2>3. work' = ScaleRow(work, i, s) /\ phase' = "eliminate"
      BY <1>7 DEF ScalePivotRow
    <2> HIDE DEF s
    <2>4. Faithful(work', input, n) /\ Over(S, work', n)
      BY <1>1, <1>2, <2>1, <2>2, <2>3, FaithfulScale, ScaleOver
    <2>5. QED
      BY <1>1, <2>3, <2>4 DEF KInv, Pivotless, S
  <1>8. CASE EliminateColumn
    <2> DEFINE f == ColumnOf(work, column)
    <2>1. i \in Upto(n)
      BY <1>8 DEF EliminateColumn, IInv, Where
    <2>2. f \in [Upto(n) -> S] /\ f \in [Upto(n) -> Byte]
      BY <1>2, <2>1 DEF ColumnOf, Mat, Over
    <2>3. work' = EliminateRows(work, i, f) /\ phase' # "singular"
      BY <1>8 DEF EliminateColumn
    <2> HIDE DEF f
    <2>4. Faithful(work', input, n) /\ Over(S, work', n)
      BY <1>1, <1>2, <2>1, <2>2, <2>3, FaithfulEliminate, EliminateOver
    <2>5. QED
      BY <1>1, <2>3, <2>4 DEF KInv, Pivotless, S
  <1>9. QED
    BY <1>3, <1>4, <1>5, <1>6, <1>7, <1>8 DEF Next

LEMMA KernelExists ==
  ASSUME IInv, KInv
  PROVE  SingularHasKernel
  <1> DEFINE n == Size
             i == column
             S == ScalarsOf(input)
             v == KernelVector(work, n, i)
  <1>1. SUFFICES ASSUME phase = "singular"
                 PROVE  \E w \in [Upto(n) -> S] :
                          /\ \E c \in Upto(n) : w[c] # {}
                          /\ \A r \in Upto(n) :
                               XorAll(Upto(n), [c \in Upto(n) |-> mul(input[r][c], w[c])]) = {}
    BY DEF SingularHasKernel
  <1>2. /\ n \in Nat /\ work \in Mat(n) /\ i \in Upto(n) /\ Reduced(work, n, i)
        /\ work[i][i] = {} /\ PivotRows(work, i) = {}
    BY <1>1 DEF IInv, Typed, Halfway, Where, KInv, Pivotless
  <1>3. v \in [Upto(n) -> Byte] /\ v[i] = {0} /\ Kills(work, n, v)
    BY <1>2, PivotlessKills
  <1>4. v \in [Upto(n) -> S]
    <2>1. Subfield(S) /\ Over(S, work, n)
      BY ScalarsSubfield DEF KInv
    <2> HIDE DEF S
    <2>2. ASSUME NEW c \in Upto(n)
          PROVE  (IF c < i THEN work[c][i] ELSE Delta(c, i)) \in S
      BY <1>2, <2>1 DEF Subfield, Over, Delta
    <2>3. QED
      BY <2>2 DEF KernelVector
  <1> HIDE DEF v, S
  <1>5. Kills(input, n, v)
    BY <1>3 DEF KInv, Faithful
  <1>6. QED
    BY <1>2, <1>3, <1>4, <1>5 DEF Kills, Dot

(* The call reports Singular only of matrices that send some nonzero       *)
(* vector to zero, and so have no inverse.                                 *)
THEOREM SingularIsSingular == Spec => []SingularHasKernel
  <1>1. Init => IInv /\ KInv
    BY InitHolds, InitKInv
  <1>2. IInv /\ KInv /\ [Next]_vars => (IInv /\ KInv)'
    BY StepKeeps, StepKInv
  <1>3. IInv /\ KInv => SingularHasKernel
    BY KernelExists
  <1>4. QED
    BY <1>1, <1>2, <1>3, PTL DEF Spec

-----------------------------------------------------------------------------
(* The safe region.  A selection takes rows in order, so none twice.       *)

LEMMA SelectionsDiffer ==
  ASSUME NEW k \in Nat, NEW f \in [Upto(k) -> Nat], \A i \in Upto(k - 1) : f[i] < f[i + 1],
         NEW t \in Upto(k), NEW u \in Upto(k), t # u
  PROVE  f[t] # f[u]
  <1>1. ASSUME NEW a \in Upto(k), NEW b \in Upto(k), a < b
        PROVE  f[a] < f[b]
    <2> DEFINE G == {x \in 0..b : x > a => f[a] < f[x]}
    <2>1. a \in Nat /\ b \in Nat /\ b < k
      BY DEF Upto
    <2>2. 0 \in G
      BY <2>1
    <2>3. ASSUME NEW x \in Upto(b), x \in G
          PROVE  x + 1 \in G
      <3>1. x \in Nat /\ x + 1 \in 0..b /\ x \in Upto(k - 1) /\ x \in Upto(k) /\ x + 1 \in Upto(k)
        BY <2>1 DEF Upto
      <3>2. f[x] < f[x + 1] /\ f[x] \in Nat /\ f[x + 1] \in Nat /\ f[a] \in Nat
        BY <3>1
      <3>3. CASE x > a
        BY <2>3, <3>1, <3>2, <3>3
      <3>4. CASE ~(x > a)
        <4>1. x + 1 > a => x = a
          BY <2>1, <3>1, <3>4
        <4>2. QED
          BY <3>1, <3>2, <4>1
      <3>5. QED
        BY <3>3, <3>4
    <2> HIDE DEF G
    <2>4. b \in G
      BY <2>1, <2>2, <2>3, UpInduction
    <2>5. QED
      BY <1>1, <2>1, <2>4 DEF G
  <1>2. t \in Nat /\ u \in Nat /\ f[t] \in Nat /\ f[u] \in Nat
    BY DEF Upto
  <1>3. CASE t < u
    BY <1>1, <1>2, <1>3
  <1>4. CASE u < t
    BY <1>1, <1>2, <1>4
  <1>5. QED
    BY <1>2, <1>3, <1>4

(* Every selection of a matrix of a safe shape has an inverse.             *)
LEMMA SafeSelectionInverts ==
  ASSUME NEW k \in Nat, NEW p \in Nat, check_dims(k, p), SafeShape(k, p),
         NEW m \in Selections(vandermonde(k, p))
  PROVE  m \in Mat(k) /\ IsOk(invert([rows |-> k, cols |-> k, at |-> m]))
  <1> DEFINE A == vandermonde(k, p)
  <1>1. Systematic(A, k + p, k) /\ Separates(A, k, p)
    BY VandermondeShape, VandermondeSeparates
  <1>2. A.rows = k + p /\ A.cols = k
    BY <1>1 DEF Systematic
  <1> HIDE DEF A
  <1>3. PICK f \in [Upto(k) -> Upto(k + p)] :
          (\A i \in Upto(k - 1) : f[i] < f[i + 1]) /\ m = select_rows(A, k, f).at
    BY <1>2 DEF Selections, A
  <1>4. f \in [Upto(k) -> Nat]
    BY DEF Upto
  <1>5. \A t, u \in Upto(k) : t # u => f[t] # f[u]
    BY <1>3, <1>4, SelectionsDiffer
  <1>6. IsOk(invert(select_rows(A, k, f)))
    BY <1>1, <1>5, SelectionInverts
  <1>7. select_rows(A, k, f) = [rows |-> k, cols |-> k, at |-> m]
    BY <1>2, <1>3 DEF select_rows, Matrix
  <1>8. m \in Mat(k)
    BY <1>1, <1>3, <1>7, SelectedRows
  <1>9. QED
    BY <1>6, <1>7, <1>8

(* What the call says of such a selection.                                 *)
LEMMA InvertibleNotSingular ==
  ASSUME CallAgrees, NEW k \in Nat, input \in Mat(k),
         IsOk(invert([rows |-> k, cols |-> k, at |-> input]))
  PROVE  phase # "singular"
  <1>1. DOMAIN input = Upto(k)
    BY DEF Mat
  <1>2. Size = k
    BY <1>1, UptoCardinality DEF Size
  <1>3. Square(input) = [rows |-> k, cols |-> k, at |-> input]
    BY <1>2 DEF Square
  <1>4. IsOk(invert(Square(input)))
    BY <1>3
  <1>5. ~IsOk(Err("Singular"))
    BY DEF IsOk, Err
  <1>6. QED
    BY <1>4, <1>5 DEF CallAgrees

(* The five by five selections, which the run on the code's field goes     *)
(* through one by one.                                                     *)
FiveByFive ==
  \A m \in Selections(vandermonde(5, 5)) :
    IsOk(invert([rows |-> 5, cols |-> 5, at |-> m]))

LEMMA RegionIsSafe ==
  ASSUME Gaps(21), FiveByFive, CallAgrees
  PROVE  SafeRegionHolds
  <1> SUFFICES ASSUME input \in Survivors PROVE phase # "singular"
    BY DEF SafeRegionHolds
  <1>1. PICK s \in Shapes :
          IsOk(reed_solomon(s[1], s[2])) /\ input \in Selections(reed_solomon(s[1], s[2]).ok)
    BY DEF Survivors
  <1> DEFINE k == s[1]
             p == s[2]
  <1>2. k \in Nat /\ p \in Nat
    BY InputAssumption
  <1>3. /\ check_dims(k, p) /\ vandermonde_safe(k, k + p)
        /\ reed_solomon(k, p).ok = vandermonde(k, p)
    BY <1>1 DEF reed_solomon, IsOk, Ok, Err
  <1> HIDE DEF k, p
  <1>4. input \in Selections(vandermonde(k, p))
    BY <1>1, <1>3 DEF k, p
  <1>5. CASE SafeShape(k, p)
    <2>1. input \in Mat(k) /\ IsOk(invert([rows |-> k, cols |-> k, at |-> input]))
      BY <1>2, <1>3, <1>4, <1>5, SafeSelectionInverts
    <2>2. QED
      BY <1>2, <2>1, InvertibleNotSingular
  <1>6. CASE k = 5 /\ p = 5
    <2>1. IsOk(invert([rows |-> 5, cols |-> 5, at |-> input]))
      BY <1>4, <1>6 DEF FiveByFive
    <2>2. input \in Mat(5)
      <3>1. Systematic(vandermonde(k, p), k + p, k)
        BY <1>2, <1>3, VandermondeShape
      <3>2. PICK f \in [Upto(k) -> Upto(k + p)] : input = select_rows(vandermonde(k, p), k, f).at
        BY <1>4, <3>1 DEF Selections, Systematic
      <3>3. input \in Mat(k)
        BY <1>2, <3>1, <3>2, SelectedRows
      <3>4. QED
        BY <1>6, <3>3
    <2>3. QED
      BY <2>1, <2>2, InvertibleNotSingular
  <1>7. QED
    BY <1>2, <1>3, <1>5, <1>6, SafeShapes

(* Whatever shapes are asked for: no selection of rows of a matrix that    *)
(* reed_solomon does not refuse is found singular, in a field where the    *)
(* nodes have their gaps and the selections of the one shape out of        *)
(* reach, five by five, are inverted.                                      *)
THEOREM SafeRegion ==
  ASSUME Gaps(21), FiveByFive
  PROVE  Spec => []SafeRegionHolds
  <1>1. CallAgrees => SafeRegionHolds
    BY RegionIsSafe
  <1>2. QED
    BY <1>1, CallIsFunction, PTL

=============================================================================
