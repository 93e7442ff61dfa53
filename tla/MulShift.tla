------------------------------ MODULE MulShift ------------------------------
(***************************************************************************)
(* The loop of gf::mul_shift, the table-free multiplication the code keeps *)
(* as an oracle for the EXP/LOG tables: one step per iteration, for every  *)
(* pair of operands.  The expanded tables the kernels multiply with        *)
(* (Tables) are compared with mul on the same pairs.                       *)
(***************************************************************************)
EXTENDS Tables

VARIABLES
  lhs, rhs,          (* the operands of the call: a and b                  *)
  shifted, rest,     (* the loop's a and b                                 *)
  sum                (* the loop's r                                       *)

mulShiftVars == <<lhs, rhs, shifted, rest, sum>>

MulShiftInit ==
  /\ lhs \in Byte
  /\ rhs \in Byte
  /\ shifted = lhs
  /\ rest = rhs
  /\ sum = {}

(* Mutant: the addend is doubled before it is added.                       *)
IterateDoublingFirst ==
  /\ rest # {}
  /\ sum' = IF 0 \in rest THEN XOR(sum, double(shifted)) ELSE sum
  /\ shifted' = double(shifted)
  /\ rest' = {i - 1 : i \in rest \ {0}}
  /\ UNCHANGED <<lhs, rhs>>

(* while b != 0 { if b & 1 { r ^= a }  a = double(a);  b >>= 1 }           *)
Iterate ==
  /\ rest # {}
  /\ sum' = IF 0 \in rest THEN XOR(sum, shifted) ELSE sum
  /\ shifted' = double(shifted)
  /\ rest' = {i - 1 : i \in rest \ {0}}
  /\ UNCHANGED <<lhs, rhs>>

MulShiftNext == Iterate

MulShiftSpec == MulShiftInit /\ [][MulShiftNext]_mulShiftVars
-----------------------------------------------------------------------------
(* The sum so far plus what is left to multiply is the table product of    *)
(* the operands: the two independent definitions of the product, EXP/LOG   *)
(* lookup (gf.rs mul) and shift-and-fold (mul_shift), agree at every step. *)
LoopMatchesTables == XOR(sum, mul(shifted, rest)) = mul(lhs, rhs)

(* Before the first iteration, once for every pair of operands: where the  *)
(* properties of the tables are evaluated.                                 *)
AtCall == shifted = lhs /\ rest = rhs

(* An operand times its inverse is 1, the inverse of 0 is 0 (gf.rs inv),   *)
(* and dividing a product by one factor gives the other back: EXP and LOG  *)
(* really enumerate the multiplicative group.                              *)
DivisionUndoesProduct ==
  AtCall =>
    /\ inv({}) = {}
    /\ lhs # {} =>
         /\ mul(lhs, inv(lhs)) = {0}
         /\ mul(mul(lhs, rhs), inv(lhs)) = rhs

(* The two nibble tables of a coefficient (tables.rs mul_table32), read    *)
(* back by the rule of the nibble kernels (table_mul), multiply like mul.  *)
NibbleTableMultiplies ==
  AtCall => table_mul(mul_table32(lhs), rhs) = mul(lhs, rhs)

(* So does the affine bit matrix of the coefficient (build_affine), read   *)
(* by the GF2P8AFFINEQB rule of the GFNI kernels; and the coefficient that *)
(* the kernels' scalar tail recovers from the matrix (coeff_from_affine)   *)
(* is the one it was built for.                                            *)
AffineMatrixMultiplies ==
  AtCall =>
    /\ affine_mul(build_affine(lhs), rhs) = mul(lhs, rhs)
    /\ coeff_from_affine(build_affine(lhs)) = lhs

=============================================================================
