------------------------------ MODULE Inversion ------------------------------
(***************************************************************************)
(* One call of invert_gauss_jordan (core/src/matrix.rs), phase by phase:   *)
(* on matrices of the client's, and on every selection of K rows of the    *)
(* Vandermonde matrices that reed_solomon hands out.  The invariants are   *)
(* the ones the recovery path needs of the inverse it multiplies survivors *)
(* with.                                                                   *)
(***************************************************************************)
EXTENDS Matrix

CONSTANTS
  Inputs,   (* square matrices, as row functions, the call may be given    *)
  Scalars,  (* a subfield their coefficients are from                      *)
  Shapes    (* <<k, p>> of the encode matrices asked of reed_solomon       *)

(* The matrices are square, of at least one row, and of field elements.    *)
ASSUME InputAssumption ==
  /\ \A m \in Inputs :
       LET n == Cardinality(DOMAIN m)
       IN  n \in Nat \ {0} /\ m \in [Upto(n) -> [Upto(n) -> Byte]]
  /\ Shapes \subseteq Nat \X Nat

(* Scalars is a subfield.                                                  *)
ASSUME ScalarAssumption ==
  /\ {{}, {0}} \subseteq Scalars /\ Scalars \subseteq Byte
  /\ \A x, y \in Scalars : XOR(x, y) \in Scalars /\ mul(x, y) \in Scalars
  /\ \A x \in Scalars \ {{}} : inv(x) \in Scalars

VARIABLES
  input,      (* the matrix at the call, kept by Matrix::invert            *)
  work,       (* a, reduced in place                                       *)
  inverse,    (* out                                                       *)
  column,     (* i                                                         *)
  phase       (* where in the body of the loop over i; or how it ended     *)

vars == <<input, work, inverse, column, phase>>

Size == Cardinality(DOMAIN input)   (* n: the matrix is n x n            *)

(* The rows, in order, that k survivors have in an encode matrix.          *)
Selections(A) ==
  {select_rows(A, A.cols, at).at :
     at \in {f \in [Upto(A.cols) -> Upto(A.rows)] :
               \A i \in Upto(A.cols - 1) : f[i] < f[i + 1]}}

Survivors ==
  UNION {Selections(r.ok) : r \in {q \in {reed_solomon(s[1], s[2]) : s \in Shapes} : IsOk(q)}}

Init ==
  /\ input \in Inputs \cup Survivors
  /\ work = input
  /\ inverse = Identity(Size).at
  /\ column = 0
  /\ phase = "pivot"

(* a[i][i] is not zero: no row moves.                                      *)
KeepRow ==
  /\ phase = "pivot"
  /\ work[column][column] # {}
  /\ phase' = "scale"
  /\ UNCHANGED <<input, work, inverse, column>>

(* Mutant: the inverse keeps its rows.                                     *)
SwapPivotOfWorkOnly ==
  /\ phase = "pivot"
  /\ work[column][column] = {}
  /\ PivotRows(work, column) # {}
  /\ work' = SwapRows(work, column, Min(PivotRows(work, column)))
  /\ phase' = "scale"
  /\ UNCHANGED <<input, inverse, column>>

(* The first lower row with a non-zero entry in this column comes up.      *)
SwapPivot ==
  /\ phase = "pivot"
  /\ work[column][column] = {}
  /\ PivotRows(work, column) # {}
  /\ LET j == Min(PivotRows(work, column))
     IN  /\ work' = SwapRows(work, column, j)
         /\ inverse' = SwapRows(inverse, column, j)
  /\ phase' = "scale"
  /\ UNCHANGED <<input, column>>

ReportSingular ==
  /\ phase = "pivot"
  /\ work[column][column] = {}
  /\ PivotRows(work, column) = {}
  /\ phase' = "singular"
  /\ UNCHANGED <<input, work, inverse, column>>

ScalePivotRow ==
  /\ phase = "scale"
  /\ LET scale == inv(work[column][column])
     IN  /\ work' = ScaleRow(work, column, scale)
         /\ inverse' = ScaleRow(inverse, column, scale)
  /\ phase' = "eliminate"
  /\ UNCHANGED <<input, column>>

EliminateColumn ==
  /\ phase = "eliminate"
  /\ LET f == ColumnOf(work, column)
     IN  /\ work' = EliminateRows(work, column, f)
         /\ inverse' = EliminateRows(inverse, column, f)
  /\ column' = column + 1
  /\ phase' = IF column + 1 = Size THEN "done" ELSE "pivot"
  /\ UNCHANGED input

Next ==
  \/ KeepRow
  \/ SwapPivot
  \/ ReportSingular
  \/ ScalePivotRow
  \/ EliminateColumn

Spec == Init /\ [][Next]_vars
-----------------------------------------------------------------------------
Square(rows) == [rows |-> Size, cols |-> Size, at |-> rows]

Product(left, right) == multiply(Square(left), Square(right)).at

(* The columns in which both matrices have their final, unit form.         *)
UnitColumn(m, c) == \A r \in Upto(Size) : m[r][c] = Delta(r, c)

(* Every row operation is applied to both matrices: at each step the       *)
(* partial inverse times the original matrix is the reduced matrix.        *)
InverseTracksWork == Product(inverse, input) = work

(* Columns already passed stay unit columns: a later swap or elimination   *)
(* never disturbs them.                                                    *)
PassedColumnsReduced == \A c \in Upto(column) : UnitColumn(work, c)

(* A field the coefficients of m are from.                                 *)
ScalarsOf(m) ==
  IF \A r, c \in DOMAIN m : m[r][c] \in Scalars THEN Scalars ELSE Byte

(* Singular is only reported of a matrix that has no inverse: some nonzero *)
(* vector is mapped to zero.                                               *)
SingularHasKernel ==
  phase = "singular" =>
    \E v \in [Upto(Size) -> ScalarsOf(input)] :
      /\ \E c \in Upto(Size) : v[c] # {}
      /\ \A r \in Upto(Size) :
           XorAll(Upto(Size), [c \in Upto(Size) |-> mul(input[r][c], v[c])]) = {}

(* The function Matrix::invert the decode path calls returns what this     *)
(* call ends with.                                                         *)
CallAgrees ==
  /\ phase = "done" => invert(Square(input)) = Ok(Square(inverse))
  /\ phase = "singular" => invert(Square(input)) = Err("Singular")

(* A Vandermonde matrix that reed_solomon does not refuse recovers from    *)
(* any loss: no selection of its rows is found singular.  (matrix.rs:28    *)
(* "inside it every recovery submatrix is invertible".)                    *)
SafeRegionHolds == phase = "singular" => input \notin Survivors

=============================================================================
