-------------------------------- MODULE Raid --------------------------------
(***************************************************************************)
(* A client that keeps the P and Q parity of one stripe (core/src/raid.rs) *)
(* and asks pq_check and xor_check whether it is still whole, after bytes  *)
(* of any of its vectors were overwritten or rotted, and after xor_gen     *)
(* renewed P and left Q behind.  It may pass a single source, or a single  *)
(* vector to xor_check; its vectors are equally long, so that no call      *)
(* returns ShardLength (RaidWalk has calls whose vectors are not).         *)
(*                                                                         *)
(* RaidWalk has shown how the vectors are walked, RaidFold what a word of  *)
(* lanes gives; here a parity byte is the recurrence on one byte.          *)
(***************************************************************************)
EXTENDS GF

CONSTANTS
  N,           (* number of sources                                        *)
  Length,      (* bytes in a vector                                        *)
  WordBytes,   (* bytes the checks compare at once: 8 in the code          *)
  Values,      (* the bytes a write or rot may leave                       *)
  Starts,      (* the sources at the beginning                             *)
  MaxWrites    (* bound on the writes                                      *)

P == N
Q == N + 1
SourceIds == 0..(N - 1)
VectorIds == 0..(N + 1)
Position == 0..(Length - 1)
Vector   == [Position -> Byte]

(* Up to the order of the generator 2, the powers of 2 that weigh the      *)
(* sources are different.                                                  *)
ASSUME RaidAssumption ==
  /\ N \in 2..Order
  /\ Length \in Nat /\ WordBytes \in Nat \ {0} /\ MaxWrites \in Nat
  /\ Values \subseteq Byte
  /\ Starts \subseteq [SourceIds -> Vector]

VARIABLES
  vectors,   (* 0..N-1 the sources, N is P, N+1 is Q                       *)
  whole,     (* history: the stripe the last pq_gen left                   *)
  writes,    (* number of writes so far                                    *)
  last       (* the last call and what it returned                         *)

stripeVars == <<vectors, whole, writes, last>>

(* The recurrence on byte x, from the last source to the first.            *)
PByte(v, x) == XorAll(SourceIds, [j \in SourceIds |-> v[j][x]])

QByte(v, x) ==
  LET h[j \in SourceIds] ==
        IF j = N - 1 THEN v[j][x] ELSE XOR(v[j][x], double(h[j + 1]))
  IN  h[0]

WithP(v)  == [v EXCEPT ![P] = [x \in Position |-> PByte(v, x)]]

pq_gen(v) == [WithP(v) EXCEPT ![Q] = [x \in Position |-> QByte(v, x)]]

xor_gen(v) == WithP(v)
-----------------------------------------------------------------------------
(* The bytes of word i, and what is left after the last whole word.        *)
WordAt(i) == (i * WordBytes)..((i + 1) * WordBytes - 1)
WordCount == Length \div WordBytes
Rest      == (WordCount * WordBytes)..(Length - 1)

NoMismatch == [index |-> -1, parity |-> P]

(* Mutant: Q is examined first.                                            *)
byte_scan_q_first(v, range) ==
  LET wrong == {x \in range : v[P][x] # PByte(v, x) \/ v[Q][x] # QByte(v, x)}
      x == Min(wrong)
  IN  IF wrong = {} THEN NoMismatch
      ELSE [index |-> x, parity |-> IF v[Q][x] # QByte(v, x) THEN Q ELSE P]

byte_scan(v, range) ==
  LET wrong == {x \in range : v[P][x] # PByte(v, x) \/ v[Q][x] # QByte(v, x)}
      x == Min(wrong)
  IN  IF wrong = {} THEN NoMismatch
      ELSE [index |-> x, parity |-> IF v[P][x] # PByte(v, x) THEN P ELSE Q]

(* Word by word; a word that disagrees is scanned byte by byte.            *)
pq_check(v) ==
  LET odd == {i \in 0..(WordCount - 1) :
                \E x \in WordAt(i) : v[P][x] # PByte(v, x) \/ v[Q][x] # QByte(v, x)}
  IN  IF odd # {} THEN byte_scan(v, WordAt(Min(odd))) ELSE byte_scan(v, Rest)

(* Mutant: the bytes after the last word are ignored.                      *)
xor_check_words(v) ==
  \A i \in 0..(WordCount - 1) : \A x \in WordAt(i) : v[P][x] = PByte(v, x)

(* The sum of the sources and P is zero.                                   *)
xor_check(v) ==
  /\ \A i \in 0..(WordCount - 1) : \A x \in WordAt(i) : v[P][x] = PByte(v, x)
  /\ \A x \in Rest : v[P][x] = PByte(v, x)
-----------------------------------------------------------------------------
Called(op, verdict, answer) == [op |-> op, verdict |-> verdict, answer |-> answer]

NoCall == Called("none", "Ok", NoMismatch)

StripeInit ==
  /\ \E s \in Starts :
       vectors = pq_gen([i \in VectorIds |->
                           IF i \in SourceIds THEN s[i] ELSE [x \in Position |-> {}]])
  /\ whole = vectors
  /\ writes = 0
  /\ last = NoCall

(* A byte of a source or of a parity vector changes behind the checks.     *)
Write(i, x, b) ==
  /\ writes < MaxWrites
  /\ vectors[i][x] # b
  /\ vectors' = [vectors EXCEPT ![i][x] = b]
  /\ writes' = writes + 1
  /\ last' = NoCall
  /\ UNCHANGED whole

CallPqGen(n) ==
  /\ vectors' = IF n >= 2 THEN pq_gen(vectors) ELSE vectors
  /\ whole' = IF n >= 2 THEN vectors' ELSE whole
  /\ last' = Called("pq_gen", IF n >= 2 THEN "Ok" ELSE "ShardCount", NoMismatch)
  /\ UNCHANGED writes

CallXorGen(n) ==
  /\ vectors' = IF n >= 2 THEN xor_gen(vectors) ELSE vectors
  /\ last' = Called("xor_gen", IF n >= 2 THEN "Ok" ELSE "ShardCount", NoMismatch)
  /\ UNCHANGED <<whole, writes>>

CallPqCheck(n) ==
  /\ last' = IF n >= 2 THEN Called("pq_check", "Ok", pq_check(vectors))
             ELSE Called("pq_check", "ShardCount", NoMismatch)
  /\ UNCHANGED <<vectors, whole, writes>>

(* xor_check is given n vectors: the sources and P, or P alone.            *)
CallXorCheck(n) ==
  /\ last' = IF n >= 2 THEN Called("xor_check", "Ok", xor_check(vectors))
             ELSE Called("xor_check", "ShardCount", FALSE)
  /\ UNCHANGED <<vectors, whole, writes>>

StripeNext ==
  \/ \E i \in VectorIds, x \in Position, b \in Values : Write(i, x, b)
  \/ \E n \in {1, N} : CallPqGen(n) \/ CallXorGen(n) \/ CallPqCheck(n)
  \/ \E n \in {1, N + 1} : CallXorCheck(n)

StripeSpec == StripeInit /\ [][StripeNext]_stripeVars
-----------------------------------------------------------------------------
(* The vectors that differ at x from those the last pq_gen left.           *)
Damaged(x) == {i \in VectorIds : vectors[i][x] # whole[i][x]}

(* No set of one or two damaged bytes at a position hides from pq_check,   *)
(* wherever in a word or after the last word they are: it names a position *)
(* before which nothing, or at least three vectors, are damaged.  Q is     *)
(* only named when P agrees: damage to one source, or to P alone, is       *)
(* reported as P.                                                          *)
PqCheckNamesDamage ==
  last.op = "pq_check" /\ last.verdict = "Ok" =>
    LET end == IF last.answer = NoMismatch THEN Length ELSE last.answer.index
    IN  /\ \A x \in 0..(end - 1) : Cardinality(Damaged(x)) \notin {1, 2}
        /\ end < Length =>
             /\ Damaged(end) # {}
             /\ last.answer.parity = Q =>
                  Damaged(end) = {Q} \/ Cardinality(Damaged(end)) > 1
             /\ last.answer.parity = P => Damaged(end) # {Q}

(* xor_check sees every stripe with one damaged vector among the sources   *)
(* and P at some position, and only damage makes it answer no.             *)
XorCheckSeesDamage ==
  last.op = "xor_check" /\ last.verdict = "Ok" =>
    LET seen(x) == Damaged(x) \ {Q}
    IN  /\ last.answer => \A x \in Position : Cardinality(seen(x)) # 1
        /\ ~last.answer => \E x \in Position : seen(x) # {}

=============================================================================
