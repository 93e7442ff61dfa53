------------------------------ MODULE RaidFold ------------------------------
(***************************************************************************)
(* The recurrence of pq_gen and pq_check (core/src/raid.rs) on one machine *)
(* word of several byte lanes: the sources are folded from the last to the *)
(* first, and all lanes of Q are doubled at once with shifts, masks and a  *)
(* subtraction that wraps.  A word is the set of its 1 bits.               *)
(***************************************************************************)
EXTENDS GF

CONSTANTS
  LaneCount,   (* bytes in a word: 8 in the code                           *)
  SourceCount, (* number of sources                                        *)
  Inputs       (* the words of the sources: functions on 0..Last           *)

Last     == SourceCount - 1
WordBits == LaneCount * Bits
WordBit  == 0..(WordBits - 1)
Word     == SUBSET WordBit

ASSUME FoldAssumption ==
  /\ LaneCount \in Nat \ {0}
  /\ SourceCount \in Nat \ {0, 1}
  /\ Inputs \subseteq [0..Last -> Word]

ASSUME PowersOfWordBits == Powers(WordBits)

NOTBIT0 == {b \in WordBit : b % Bits # 0}
BIT7    == {b \in WordBit : b % Bits = Bits - 1}
GF8POLY == {b \in WordBit : b % Bits \in Poly}

Number(w) == Numeral(w, WordBits)
WordOf(n) == {b \in WordBit : (n \div 2^b) % 2 = 1}

ShiftLeft(w)     == {b + 1 : b \in w \ {WordBits - 1}}
ShiftRight(w, n) == {b - n : b \in {c \in w : c >= n}}

WrappingSub(u, v) == WordOf((Number(u) - Number(v)) % 2^WordBits)

(* Mutant: a lane's top bit moves into the next lane.                      *)
mul2_leaking(w) ==
  LET m == w \cap BIT7
  IN  XOR(ShiftLeft(w),
          WrappingSub(ShiftLeft(m), ShiftRight(m, Bits - 1)) \cap GF8POLY)

(* ((q << 1) & NOTBIT0) ^ ((m << 1).wrapping_sub(m >> 7) & GF8POLY)        *)
gf2_mul2_lanes(w) ==
  LET m == w \cap BIT7
  IN  XOR(ShiftLeft(w) \cap NOTBIT0,
          WrappingSub(ShiftLeft(m), ShiftRight(m, Bits - 1)) \cap GF8POLY)

VARIABLES
  sources,   (* the word of each source                                    *)
  pending,   (* the source to be folded next, -1 at the end: the loop's j   *)
  pw, qw     (* the parity words                                           *)

foldVars == <<sources, pending, pw, qw>>

FoldInit ==
  /\ sources \in Inputs
  /\ pending = Last - 1
  /\ pw = sources[Last]
  /\ qw = sources[Last]

(* One source into both parities.                                          *)
Fold ==
  /\ pending >= 0
  /\ pw' = XOR(pw, sources[pending])
  /\ qw' = XOR(sources[pending], gf2_mul2_lanes(qw))
  /\ pending' = pending - 1
  /\ UNCHANGED sources

FoldNext == Fold

FoldSpec == FoldInit /\ [][FoldNext]_foldVars
-----------------------------------------------------------------------------
LaneOf(w, n) == {b \in Bit : n * Bits + b \in w}

Folded == (pending + 1)..Last

(* In every lane P is the sum of the sources folded so far and Q the sum   *)
(* of 2^i times the i-th of them: nothing crosses from lane to lane, and   *)
(* the borrow of the subtraction ends in the lane it began in.             *)
LanesIndependent ==
  \A n \in 0..(LaneCount - 1) :
    /\ LaneOf(pw, n) = XorAll(Folded, [i \in Folded |-> LaneOf(sources[i], n)])
    /\ LaneOf(qw, n) =
         XorAll(Folded,
                [i \in Folded |-> mul(EXP[(i - pending - 1) % Order], LaneOf(sources[i], n))])

=============================================================================
