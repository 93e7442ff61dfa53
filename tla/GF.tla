--------------------------------- MODULE GF ---------------------------------
(***************************************************************************)
(* The finite field the whole code computes in (core/src/gf.rs).           *)
(*                                                                         *)
(* A byte is the set of its 1 bits, so XOR is symmetric difference and     *)
(* zero is the empty set.  The code's field is Bits = 8 and the reduction  *)
(* byte 0x1d, Poly = {0, 2, 3, 4}; the smaller fields the other modules    *)
(* are checked in (GF(4): 2 and {0, 1}; GF(8): 3 and {0, 1}; GF(16): 4 and *)
(* {0, 1}) are the same definitions at another width.                      *)
(***************************************************************************)
EXTENDS Integers, FiniteSets, FiniteSetsExt

CONSTANTS
  Bits,   (* Width of a field element; 8 in the code.                      *)
  Poly    (* Bits folded back when a doubling overflows: POLY_REDUCTION.   *)

ASSUME FieldAssumption ==
  /\ Bits \in Nat \ {0}
  /\ Poly \subseteq 0..(Bits - 1)

(* What the proofs know of 2^i, for i up to n.                             *)
Powers(n) == 2^0 = 1 /\ \A i \in 0..(n - 1) : 2^(i + 1) = 2 * 2^i

ASSUME PowersOfBits == Powers(Bits)

Bit   == 0..(Bits - 1)
Byte  == SUBSET Bit
Order == 2^Bits - 1         (* size of the multiplicative group: 255 *)

XOR(a, b) == SymDiff(a, b)

(* The XOR of t[j] for j in S: a bit is set iff an odd number of terms     *)
(* have it.  The code's loops  s ^= ...  over an index range compute it.   *)
XorAll(S, t) == {b \in Bit : Cardinality({j \in S : b \in t[j]}) % 2 = 1}

(* The number whose 1 bits below bit n are those in w.                     *)
Numeral(w, n) ==
  LET value[i \in 0..n] ==
        IF i = 0 THEN 0
        ELSE value[i - 1] + (IF i - 1 \in w THEN 2^(i - 1) ELSE 0)
  IN  value[n]

(* The byte written n, the 256 indices of a table in that order, and the   *)
(* number a byte is written as.                                            *)
OfNat(n) == {b \in Bit : (n \div 2^b) % 2 = 1}
Index    == {OfNat(n) : n \in 0..Order}
ToNat    == [x \in Index |-> Numeral(x, Bits)]

(* x << 1, with the overflowing bit folded back.                           *)
double(x) ==
  XOR({b + 1 : b \in x \ {Bits - 1}}, IF Bits - 1 \in x THEN Poly ELSE {})

(* x doubled n times, halving n to keep the recursion shallow.             *)
Doubled[n \in Nat, x \in Byte] ==
  CASE n = 0 -> x
    [] n = 1 -> double(x)
    [] n > 1 -> Doubled[n - (n \div 2), Doubled[n \div 2, x]]

(* build_exp writes the i-th doubling of 1 at i and at i + 255.            *)
EXP == [i \in 0..(2 * Order - 1) |-> Doubled[i % Order, {0}]]

(* build_log scans i upward, so the last i with EXP[i] = x stays; an x the *)
(* scan never meets (zero) keeps the 0 of the freshly zeroed table.        *)
LOG == [x \in Index |->
          LET met == {i \in 0..(Order - 1) : EXP[i] = x}
          IN  IF met = {} THEN 0 ELSE Max(met)]

mul(a, b) == IF a = {} \/ b = {} THEN {} ELSE EXP[LOG[a] + LOG[b]]

(* Mutant: the inverse exponent one short.                                 *)
inv_short(a) == IF a = {} THEN {} ELSE EXP[Order - 1 - LOG[a]]

inv(a) == IF a = {} THEN {} ELSE EXP[Order - LOG[a]]

(* What the proofs about the RAID recurrence and mul_shift use: doubling   *)
(* one factor doubles the product, and EXP runs, by doubling, through      *)
(* Order different bytes from 1 back to 1.                                 *)
ASSUME DoublingLaw ==
  \A a, x \in Byte : mul(double(a), x) = double(mul(a, x))

ASSUME GeneratorLaws ==
  /\ Order \in Nat \ {0}
  /\ EXP[0] = {0}
  /\ \A i \in 0..(Order - 1) :
       /\ EXP[i] \in Byte /\ EXP[i] # {}
       /\ double(EXP[i]) = EXP[(i + 1) % Order]
       /\ \A j \in 0..(Order - 1) : EXP[i] = EXP[j] => i = j

=============================================================================
