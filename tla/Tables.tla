------------------------------- MODULE Tables -------------------------------
(***************************************************************************)
(* The two expanded forms of a coefficient that the kernel sets multiply   *)
(* with (core/src/tables.rs): the pair of nibble tables of the scalar,     *)
(* SSSE3, AVX2, NEON and SIMD128 sets, and the GF(2) matrix of the GFNI    *)
(* set.  Bits is even: a byte is two nibbles.                              *)
(***************************************************************************)
EXTENDS GF

ASSUME NibbleAssumption == Bits % 2 = 0

Nibbles    == 2^(Bits \div 2)    (* values of a nibble: 16                *)
TABLE_BYTES == 2 * Nibbles       (* bytes per coefficient, nibble format   *)

(* Mutant: the second table forgets the shift of the high nibble.          *)
mul_table32_unshifted(c) ==
  [j \in 0..(TABLE_BYTES - 1) |-> mul(c, OfNat(j % Nibbles))]

(* {c*0, ..., c*15} followed by {c*0x00, c*0x10, ..., c*0xf0}.             *)
mul_table32(c) ==
  [j \in 0..(TABLE_BYTES - 1) |->
     mul(c, OfNat(IF j < Nibbles THEN j ELSE (j - Nibbles) * Nibbles))]

table_mul(tbl, x) ==
  XOR(tbl[ToNat[x] % Nibbles], tbl[Nibbles + (ToNat[x] \div Nibbles)])

(* Mutant: rows stored in the order of the bits.                           *)
build_affine_unreversed(c) ==
  [at \in Bit |-> {i \in Bit : at \in mul(c, {i})}]

(* Byte 7 - j of the matrix is row j, whose bit i is bit j of c * 2^i.     *)
build_affine(c) ==
  [at \in Bit |-> {i \in Bit : Bits - 1 - at \in mul(c, {i})}]

(* GF2P8AFFINEQB: output bit j is the parity of row j AND the input byte.  *)
affine_mul(m, x) ==
  {j \in Bit : Cardinality(m[Bits - 1 - j] \cap x) % 2 = 1}

coeff_from_affine(m) == {j \in Bit : 0 \in m[Bits - 1 - j]}

=============================================================================
