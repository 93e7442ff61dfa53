---------------------------- MODULE ParityProofs ----------------------------
(***************************************************************************)
(* Proofs about Parity: for every field, matrix, length and number of      *)
(* shards, parity is the encoding of what was folded into it; and over the *)
(* matrices of the code's three constructions, verify tells parity that is *)
(* stale.                                                                  *)
(***************************************************************************)
EXTENDS Parity, CoderProofs

-----------------------------------------------------------------------------
(* The shapes of the state.                                                *)

LEMMA SourceShape ==
  ASSUME NEW src \in Sources
  PROVE  /\ Count(src) \in Nat
         /\ src \in [Upto(Count(src)) -> Byte]
  BY CodingAssumption

LEMMA BufferShape ==
  ASSUME NEW b \in Buffers(Lens)
  PROVE  /\ Count(b) \in Lens
         /\ Count(b) \in Nat
         /\ b \in [Upto(Count(b)) -> Byte]
  <1>1. PICK n \in Lens : b \in [Upto(n) -> Byte]
    BY DEF Buffers
  <1>2. n \in Nat
    BY CodingAssumption
  <1>3. Count(b) = n
    BY <1>1, <1>2, CountOf
  <1>4. QED
    BY <1>1, <1>2, <1>3

LEMMA ShapeBuffer ==
  ASSUME NEW n \in Lens, NEW b \in [Upto(n) -> Byte]
  PROVE  b \in Buffers(Lens)
  BY DEF Buffers

(* The parity is a list of P buffers; its first has the call's length.     *)
LEMMA ParityShape ==
  ASSUME NEW out \in [Upto(P) -> Buffers(Lens)]
  PROVE  /\ Count(out) = P
         /\ 0 \in Upto(P)
         /\ FirstLen(out) = Count(out[0])
         /\ FirstLen(out) \in Lens
  <1>1. P \in Nat \ {0}
    BY CodingAssumption
  <1>2. Count(out) = P
    BY <1>1, CountOf
  <1>3. 0 \in Upto(P)
    BY <1>1 DEF Upto
  <1>4. QED
    BY <1>1, <1>2, <1>3, BufferShape DEF FirstLen

(* A slice of the whole is the whole.                                      *)
LEMMA SliceShape ==
  ASSUME NEW list, NEW N \in Nat, DOMAIN list = Upto(N),
         list = [x \in Upto(N) |-> list[x]],
         NEW n \in 0..N
  PROVE  /\ Count(Slice(list, n)) = n
         /\ n = N => Slice(list, n) = list
  BY CountOf DEF Slice
-----------------------------------------------------------------------------
(* What an accepted call has checked.                                      *)

LEMMA UpdateAccepted ==
  ASSUME parity \in [Upto(P) -> Buffers(Lens)],
         NEW i \in 0..K, NEW src \in Sources, NEW n \in 0..P,
         update_verdict(Coding, i, src, Slice(parity, n)) = Fine
  PROVE  /\ i \in Upto(K)
         /\ \A l \in Upto(P) : Count(parity[l]) = Count(src)
  <1> DEFINE sliced == Slice(parity, n)
             c1 == IF i < K THEN {} ELSE Raise("ShardIndex", i)
             c2 == ShardCount(sliced, P)
             c3 == ShardLength(sliced, Count(src), K)
  <1>1. Verdict(<<c1, c2, c3>>) = Fine
    BY DEF update_verdict, K, P
  <1>2. \A x \in 1..3 : \A e \in (<<c1, c2, c3>>)[x] : e.kind # "Ok"
    <2>1. /\ \A e \in c1 : e.kind # "Ok"
          /\ \A e \in c2 : e.kind # "Ok"
          /\ \A e \in c3 : e.kind # "Ok"
      BY CheckKinds
    <2> HIDE DEF c1, c2, c3
    <2>2. QED
      BY <2>1
  <1>3. c1 = {} /\ c2 = {} /\ c3 = {}
    <2> HIDE DEF c1, c2, c3
    <2>1. 3 \in 0..4 /\ DOMAIN <<c1, c2, c3>> = 1..3
      OBVIOUS
    <2>2. \A x \in 1..3 : (<<c1, c2, c3>>)[x] = {}
      BY <1>1, <1>2, <2>1, FinePasses
    <2>3. QED
      BY <2>2
  <1>4. K \in Nat /\ P \in Nat
    BY CodingAssumption
  <1>5. i \in Upto(K)
    <2>1. Raise("ShardIndex", i) # {}
      BY DEF Raise
    <2>2. i < K
      BY <1>3, <2>1
    <2>3. QED
      BY <1>4, <2>2 DEF Upto
  <1>6. n = P
    <2>1. Count(sliced) = P
      BY <1>3 DEF ShardCount, Raise
    <2>2. QED
      BY <1>4, <2>1, SliceShape
  <1>7. sliced = parity
    BY <1>4, <1>6, SliceShape
  <1>8. QED
    BY <1>3, <1>5, <1>7, ShardLengthPasses

LEMMA EncodeAccepted ==
  ASSUME parity \in [Upto(P) -> Buffers(Lens)],
         data \in [Upto(K) -> Sources],
         NEW d \in 0..K, NEW n \in 0..P,
         encode_verdict(Coding, Slice(data, d), Slice(parity, n)) = Fine
  PROVE  /\ \A l \in Upto(P) : Count(parity[l]) = FirstLen(parity)
         /\ \A j \in Upto(K) : Count(data[j]) = FirstLen(parity)
  <1> DEFINE out == Slice(parity, n)
             src == Slice(data, d)
             c1 == ShardCount(out, P)
             c2 == ShardLength(out, FirstLen(out), K)
             c3 == ShardCount(src, K)
             c4 == ShardLength(src, FirstLen(out), 0)
             checked == Verdict(<<c1, c2, c3, c4>>)
  <1>1. checked = Fine
    BY DEF encode_verdict, encode_checks, K, P
  <1>2. \A x \in 1..4 : \A e \in (<<c1, c2, c3, c4>>)[x] : e.kind # "Ok"
    <2>1. /\ \A e \in c1 : e.kind # "Ok"
          /\ \A e \in c2 : e.kind # "Ok"
          /\ \A e \in c3 : e.kind # "Ok"
          /\ \A e \in c4 : e.kind # "Ok"
      BY CheckKinds
    <2> HIDE DEF c1, c2, c3, c4
    <2>2. QED
      BY <2>1
  <1>3. c1 = {} /\ c2 = {} /\ c3 = {} /\ c4 = {}
    <2> HIDE DEF c1, c2, c3, c4
    <2>1. 4 \in 0..4 /\ DOMAIN <<c1, c2, c3, c4>> = 1..4
      OBVIOUS
    <2>2. \A x \in 1..4 : (<<c1, c2, c3, c4>>)[x] = {}
      BY <1>1, <1>2, <2>1, FinePasses
    <2>3. QED
      BY <2>2
  <1>4. K \in Nat /\ P \in Nat
    BY CodingAssumption
  <1>5. n = P /\ d = K
    <2>1. Count(out) = P /\ Count(src) = K
      BY <1>3 DEF ShardCount, Raise
    <2>2. QED
      BY <1>4, <2>1, SliceShape
  <1>6. out = parity /\ src = data
    BY <1>4, <1>5, SliceShape
  <1>7. QED
    BY <1>3, <1>6, ShardLengthPasses
-----------------------------------------------------------------------------
(* The encoding, term by term.                                             *)

Terms(f, l, q) == [j \in Upto(K) |-> Term(Coding.gftbls, K, l, j, f[j][q])]

LEMMA EncodeIs ==
  ASSUME NEW f, DOMAIN f = Upto(K),
         NEW out \in [Upto(P) -> Buffers(Lens)]
  PROVE  encode(Coding, f, out)
           = [l \in Upto(P) |-> [q \in DOMAIN out[l] |->
                XorAll(Upto(K), Terms(f, l, q))]]
  <1>1. Count(f) = K
    BY CountOf, CodingAssumption
  <1>2. DOMAIN out = Upto(P)
    OBVIOUS
  <1>3. QED
    BY <1>1, <1>2 DEF encode, KernelEncode, Terms

(* Every coefficient a row and a source name is in the tables.             *)
LEMMA CoefficientByte ==
  ASSUME NEW l \in Upto(P), NEW j \in Upto(K)
  PROVE  Coding.gftbls.coeffs[l * K + j] \in Byte
  <1>1. K \in Nat /\ P \in Nat /\ l \in Nat /\ j \in Nat /\ l <= P - 1 /\ j <= K - 1
    BY CodingAssumption DEF Upto
  <1>2. l * K \in Nat /\ P * K \in Nat /\ (P - 1) * K = P * K - K
    BY <1>1
  <1>3. l * K <= (P - 1) * K
    BY <1>1, <1>2
  <1>4. l * K + j \in Upto(P * K)
    BY <1>1, <1>2, <1>3 DEF Upto
  <1>5. QED
    BY <1>4, CodingAssumption

LEMMA TermLinear ==
  ASSUME NEW l \in Upto(P), NEW j \in Upto(K), NEW x \in Byte, NEW y \in Byte
  PROVE  /\ Term(Coding.gftbls, K, l, j, x) \in Byte
         /\ Term(Coding.gftbls, K, l, j, XOR(x, y))
              = XOR(Term(Coding.gftbls, K, l, j, x), Term(Coding.gftbls, K, l, j, y))
         /\ Term(Coding.gftbls, K, l, j, {}) = {}
  <1> DEFINE c == Coding.gftbls.coeffs[l * K + j]
  <1>1. c \in Byte
    BY CoefficientByte
  <1> HIDE DEF c
  <1>2. /\ mul(c, x) \in Byte
        /\ mul(c, XOR(x, y)) = XOR(mul(c, x), mul(c, y))
        /\ mul(c, {}) = {}
    BY <1>1, MulByte, MulZero, MulDistributes
  <1>3. QED
    BY <1>2 DEF Term, c

(* At byte q, g is f with x folded into source i.                          *)
FoldsInto(f, g, i, q, x) ==
  /\ f[i][q] \in Byte
  /\ \A j \in Upto(K) \ {i} : g[j][q] = f[j][q]
  /\ g[i][q] = XOR(f[i][q], x)

(* Folding a buffer into one source adds its product to the encoding.      *)
LEMMA FoldOne ==
  ASSUME NEW f, NEW g, NEW i \in Upto(K), NEW l \in Upto(P), NEW q, NEW x \in Byte,
         FoldsInto(f, g, i, q, x)
  PROVE  XorAll(Upto(K), Terms(g, l, q))
           = XOR(XorAll(Upto(K), Terms(f, l, q)), Term(Coding.gftbls, K, l, i, x))
  <1> DEFINE t == Terms(f, l, q)
             u == Terms(g, l, q)
             p == Term(Coding.gftbls, K, l, i, x)
  <1>1. IsFiniteSet(Upto(K))
    BY UptoFinite, CodingAssumption
  <1>2. p \in Byte
    BY TermLinear
  <1>3. \A j \in Upto(K) \ {i} : u[j] = t[j]
    BY DEF Terms, FoldsInto
  <1>4. u[i] = XOR(t[i], p)
    <2>1. Term(Coding.gftbls, K, l, i, XOR(f[i][q], x))
            = XOR(Term(Coding.gftbls, K, l, i, f[i][q]), p)
      BY TermLinear DEF FoldsInto
    <2>2. QED
      BY <2>1 DEF Terms, FoldsInto
  <1>5. t[i] \in Byte
    BY TermLinear DEF Terms, FoldsInto
  <1> HIDE DEF t, u, p
  <1>6. XorAll(Upto(K), u) = XOR(XorAll(Upto(K), t), p)
    BY <1>1, <1>2, <1>3, <1>4, <1>5, XorAllUpdate
  <1>7. QED
    BY <1>6 DEF t, u, p

(* The encoding of zeros is zero.                                          *)
LEMMA FoldNone ==
  ASSUME NEW f, NEW l \in Upto(P), NEW q, \A j \in Upto(K) : f[j][q] = {}
  PROVE  XorAll(Upto(K), Terms(f, l, q)) = {}
  <1>1. \A j \in Upto(K) : Terms(f, l, q)[j] = {}
    BY DEF Terms, Term, mul
  <1>2. QED
    BY <1>1, XorAllZero
-----------------------------------------------------------------------------
(* TypeOK is not inductive alone: an accepted update reads src wherever    *)
(* folded has a byte, so folded must have the length of the parity.        *)
FoldedLengths == \A j \in Upto(K) : DOMAIN folded[j] = Upto(FirstLen(parity))

IInv == TypeOK /\ FoldedLengths /\ ParityTracksFolds

LEMMA FreshShape ==
  ASSUME NEW out \in [Upto(P) -> Buffers(Lens)]
  PROVE  /\ FreshParity(FirstLen(out)) \in [Upto(K) -> Buffers(Lens)]
         /\ \A j \in Upto(K) :
              DOMAIN FreshParity(FirstLen(out))[j] = Upto(FirstLen(out))
  <1> DEFINE len == FirstLen(out)
  <1>1. len \in Lens
    BY ParityShape
  <1> HIDE DEF len
  <1>2. [q \in Upto(len) |-> {}] \in [Upto(len) -> Byte]
    BY DEF Byte
  <1>3. [q \in Upto(len) |-> {}] \in Buffers(Lens)
    BY <1>1, <1>2, ShapeBuffer
  <1>4. QED
    BY <1>3 DEF FreshParity, len

(* Zeroed parity is the encoding of nothing folded.                        *)
LEMMA FreshTracks ==
  ASSUME NEW out \in [Upto(P) -> Buffers(Lens)],
         \A l \in Upto(P) : out[l] = [q \in DOMAIN out[l] |-> {}],
         \A l \in Upto(P) : Count(out[l]) = FirstLen(out)
  PROVE  out = encode(Coding, FreshParity(FirstLen(out)), out)
  <1> DEFINE f == FreshParity(FirstLen(out))
  <1>1. DOMAIN f = Upto(K)
    BY DEF FreshParity
  <1>2. ASSUME NEW l \in Upto(P), NEW q \in DOMAIN out[l]
        PROVE  XorAll(Upto(K), Terms(f, l, q)) = {}
    <2>1. q \in Upto(FirstLen(out))
      BY BufferShape
    <2>2. \A j \in Upto(K) : f[j][q] = {}
      BY <2>1 DEF FreshParity
    <2> HIDE DEF f
    <2>3. QED
      BY <2>2, FoldNone
  <1>3. encode(Coding, f, out)
          = [l \in Upto(P) |-> [q \in DOMAIN out[l] |->
               XorAll(Upto(K), Terms(f, l, q))]]
    <2> HIDE DEF f
    <2>1. QED
      BY <1>1, EncodeIs
  <1> HIDE DEF f
  <1>4. encode(Coding, f, out)
          = [l \in Upto(P) |-> [q \in DOMAIN out[l] |-> {}]]
    BY <1>2, <1>3
  <1>5. out = [l \in Upto(P) |-> [q \in DOMAIN out[l] |-> {}]]
    OBVIOUS
  <1>6. QED
    BY <1>4, <1>5 DEF f

LEMMA InitIInv == Init => IInv
  <1> SUFFICES ASSUME Init PROVE IInv
    OBVIOUS
  <1>1. PICK len \in [Upto(P) -> Lens] :
          parity = [l \in Upto(P) |-> [q \in Upto(len[l]) |-> {}]]
    BY DEF Init
  <1>2. \A l \in Upto(P) : parity[l] \in [Upto(len[l]) -> Byte]
    BY <1>1 DEF Byte
  <1>3. parity \in [Upto(P) -> Buffers(Lens)]
    <2>1. \A l \in Upto(P) : parity[l] \in Buffers(Lens)
      BY <1>2, ShapeBuffer
    <2>2. QED
      BY <1>1, <2>1
  <1>4. folded = FreshParity(FirstLen(parity))
    BY DEF Init
  <1>5. TypeOK
    BY <1>3, <1>4, FreshShape DEF Init, TypeOK, Called
  <1>6. FoldedLengths
    BY <1>3, <1>4, FreshShape DEF FoldedLengths
  <1>7. ParityTracksFolds
    <2>1. \A l \in Upto(P) : parity[l] = [q \in DOMAIN parity[l] |-> {}]
      BY <1>1
    <2>2. QED
      BY <1>3, <1>4, <2>1, FreshTracks DEF ParityTracksFolds, Uniform
  <1>8. QED
    BY <1>5, <1>6, <1>7 DEF IInv

LEMMA ZeroParityIInv == IInv /\ ZeroParity => IInv'
  <1> SUFFICES ASSUME IInv, ZeroParity PROVE IInv'
    OBVIOUS
  <1> USE DEF IInv
  <1>1. parity \in [Upto(P) -> Buffers(Lens)]
    BY DEF TypeOK
  <1>2. \A l \in Upto(P) : /\ parity'[l] = [q \in DOMAIN parity[l] |-> {}]
                           /\ DOMAIN parity'[l] = DOMAIN parity[l]
                           /\ Count(parity'[l]) = Count(parity[l])
    BY <1>1 DEF ZeroParity, Zeroed, Count
  <1>3. parity' \in [Upto(P) -> Buffers(Lens)]
    <2>1. ASSUME NEW l \in Upto(P) PROVE parity'[l] \in Buffers(Lens)
      <3>1. Count(parity[l]) \in Lens /\ DOMAIN parity[l] = Upto(Count(parity[l]))
        BY <1>1, BufferShape
      <3>2. parity'[l] \in [Upto(Count(parity[l])) -> Byte]
        BY <1>2, <3>1 DEF Byte
      <3>3. QED
        BY <3>1, <3>2, ShapeBuffer
    <2>2. QED
      BY <2>1 DEF ZeroParity
  <1>4. FirstLen(parity') = FirstLen(parity)
    BY <1>1, <1>2, <1>3, ParityShape
  <1>5. folded' = FreshParity(FirstLen(parity'))
    BY <1>4 DEF ZeroParity
  <1>6. TypeOK'
    BY <1>3, <1>5, FreshShape DEF ZeroParity, TypeOK, Called
  <1>7. FoldedLengths'
    BY <1>3, <1>5, FreshShape DEF FoldedLengths
  <1>8. ParityTracksFolds'
    <2>1. \A l \in Upto(P) : parity'[l] = [q \in DOMAIN parity'[l] |-> {}]
      BY <1>2
    <2>2. QED
      BY <1>3, <1>5, <2>1, FreshTracks DEF ParityTracksFolds, Uniform
  <1>9. QED
    BY <1>6, <1>7, <1>8

(* Steps that leave the parity and what was folded alone.                  *)
LEMMA UntouchedIInv ==
  ASSUME IInv, UNCHANGED <<parity, folded>>, TypeOK'
  PROVE  IInv'
  BY DEF IInv, FoldedLengths, ParityTracksFolds, Uniform

LEMMA OverwriteIInv ==
  ASSUME IInv, NEW i \in Upto(K), NEW buffer \in Sources, Overwrite(i, buffer)
  PROVE  IInv'
  <1>1. TypeOK'
    BY DEF IInv, TypeOK, Overwrite, Called
  <1>2. QED
    BY <1>1, UntouchedIInv DEF Overwrite

LEMMA CallVerifyIInv ==
  ASSUME IInv, NEW d \in 0..K, NEW n \in 0..P, CallVerify(d, n)
  PROVE  IInv'
  <1>1. (verify(Coding, data, parity)) \in BOOLEAN
    BY DEF verify
  <1>2. TypeOK'
    BY <1>1 DEF IInv, TypeOK, CallVerify, Called
  <1>3. QED
    BY <1>2, UntouchedIInv DEF CallVerify

(* Parity the kernel wrote row by row, byte by byte, has kept its shape.   *)
LEMMA RowsShape ==
  ASSUME NEW out \in [Upto(P) -> Buffers(Lens)], NEW new,
         DOMAIN new = Upto(P), new = [l \in Upto(P) |-> new[l]],
         \A l \in Upto(P) : new[l] \in [DOMAIN out[l] -> Byte]
  PROVE  /\ new \in [Upto(P) -> Buffers(Lens)]
         /\ FirstLen(new) = FirstLen(out)
         /\ \A l \in Upto(P) : Count(new[l]) = Count(out[l])
  <1>1. ASSUME NEW l \in Upto(P)
        PROVE  new[l] \in Buffers(Lens) /\ Count(new[l]) = Count(out[l])
    <2>1. Count(out[l]) \in Lens /\ DOMAIN out[l] = Upto(Count(out[l]))
      BY BufferShape
    <2>2. new[l] \in Buffers(Lens)
      BY <2>1, ShapeBuffer
    <2>3. QED
      BY <2>2 DEF Count
  <1>2. new \in [Upto(P) -> Buffers(Lens)]
    BY <1>1
  <1>3. FirstLen(new) = FirstLen(out)
    BY <1>1, <1>2, ParityShape
  <1>4. QED
    BY <1>1, <1>2, <1>3

(* An encode overwrites the parity with the encoding of the sources.       *)
LEMMA CallEncodeIInv ==
  ASSUME IInv, NEW d \in 0..K, NEW n \in 0..P, CallEncode(d, n)
  PROVE  IInv'
  <1> DEFINE verdict == encode_verdict(Coding, Slice(data, d), Slice(parity, n))
  <1>1. /\ parity \in [Upto(P) -> Buffers(Lens)]
        /\ data \in [Upto(K) -> Sources]
    BY DEF IInv, TypeOK
  <1>2. CASE verdict # Fine
    <2>1. UNCHANGED <<data, parity, folded>> /\ last' = Called("encode", verdict, FALSE)
      BY <1>2 DEF CallEncode
    <2>2. TypeOK'
      BY <2>1 DEF IInv, TypeOK, Called
    <2>3. QED
      BY <2>1, <2>2, UntouchedIInv
  <1>3. CASE verdict = Fine
    <2>1. /\ parity' = encode(Coding, data, parity)
          /\ folded' = data
          /\ data' = data
          /\ last' = Called("encode", verdict, FALSE)
      BY <1>3 DEF CallEncode
    <2>2. /\ \A l \in Upto(P) : Count(parity[l]) = FirstLen(parity)
          /\ \A j \in Upto(K) : Count(data[j]) = FirstLen(parity)
      BY <1>1, <1>3, EncodeAccepted
    <2>3. parity' = [l \in Upto(P) |-> [q \in DOMAIN parity[l] |->
                       XorAll(Upto(K), Terms(data, l, q))]]
      BY <1>1, <2>1, EncodeIs
    <2>4. \A l \in Upto(P) : parity'[l] \in [DOMAIN parity[l] -> Byte]
      BY <2>3, XorAllByte
    <2>5. /\ parity' \in [Upto(P) -> Buffers(Lens)]
          /\ FirstLen(parity') = FirstLen(parity)
      <3>1. DOMAIN parity' = Upto(P) /\ parity' = [l \in Upto(P) |-> parity'[l]]
        BY <2>3
      <3>2. QED
        BY <1>1, <2>4, <3>1, RowsShape
    <2>6. ASSUME NEW j \in Upto(K)
          PROVE  /\ DOMAIN data[j] = Upto(FirstLen(parity))
                 /\ data[j] \in Buffers(Lens)
      <3>1. data[j] \in [Upto(FirstLen(parity)) -> Byte]
        BY <1>1, <2>2, SourceShape
      <3>2. QED
        BY <1>1, <3>1, ParityShape, ShapeBuffer
    <2>7. TypeOK'
      BY <1>1, <2>1, <2>5, <2>6 DEF IInv, TypeOK, Called
    <2>8. FoldedLengths'
      BY <2>1, <2>5, <2>6 DEF FoldedLengths
    <2>9. ParityTracksFolds'
      <3>1. encode(Coding, data, parity')
              = [l \in Upto(P) |-> [q \in DOMAIN parity'[l] |->
                  XorAll(Upto(K), Terms(data, l, q))]]
        BY <1>1, <2>5, EncodeIs
      <3>2. \A l \in Upto(P) : DOMAIN parity'[l] = DOMAIN parity[l]
        BY <2>3
      <3>3. QED
        BY <2>1, <2>3, <3>1, <3>2 DEF ParityTracksFolds
    <2>10. QED
      BY <2>7, <2>8, <2>9 DEF IInv
  <1>4. QED
    BY <1>2, <1>3

(* An update adds one product to every byte of every row, which is the     *)
(* encoding of the sources with src added to what was folded for i.        *)
LEMMA CallUpdateIInv ==
  ASSUME IInv, NEW i \in 0..K, NEW src \in Sources, NEW n \in 0..P,
         CallUpdate(i, src, n)
  PROVE  IInv'
  <1> DEFINE verdict == update_verdict(Coding, i, src, Slice(parity, n))
             Product(l, q) == Term(Coding.gftbls, K, l, i, src[q])
  <1>1. /\ parity \in [Upto(P) -> Buffers(Lens)]
        /\ folded \in [Upto(K) -> Buffers(Lens)]
        /\ FoldedLengths
        /\ ParityTracksFolds
    BY DEF IInv, TypeOK
  <1>2. CASE verdict # Fine
    <2>1. UNCHANGED <<data, parity, folded>> /\ last' = Called("update", verdict, FALSE)
      BY <1>2 DEF CallUpdate
    <2>2. TypeOK'
      BY <2>1 DEF IInv, TypeOK, Called
    <2>3. QED
      BY <2>1, <2>2, UntouchedIInv
  <1>3. CASE verdict = Fine
    <2>1. /\ parity' = update(Coding, i, src, parity)
          /\ folded' = [folded EXCEPT ![i] =
                          [q \in DOMAIN folded[i] |-> XOR(folded[i][q], src[q])]]
          /\ data' = data
          /\ last' = Called("update", verdict, FALSE)
      BY <1>3 DEF CallUpdate
    <2>2. /\ i \in Upto(K)
          /\ \A l \in Upto(P) : Count(parity[l]) = Count(src)
      BY <1>1, <1>3, UpdateAccepted
    <2>3. /\ \A l \in Upto(P) : Count(parity[l]) = FirstLen(parity)
          /\ FirstLen(parity) = Count(src)
          /\ FirstLen(parity) \in Lens
      BY <1>1, <2>2, ParityShape
    <2>4. /\ src \in [Upto(FirstLen(parity)) -> Byte]
          /\ \A l \in Upto(P) : parity[l] \in [Upto(FirstLen(parity)) -> Byte]
          /\ \A j \in Upto(K) : folded[j] \in [Upto(FirstLen(parity)) -> Byte]
      <3>1. src \in [Upto(FirstLen(parity)) -> Byte]
        BY <2>3, SourceShape
      <3>2. \A l \in Upto(P) : parity[l] \in [Upto(FirstLen(parity)) -> Byte]
        BY <1>1, <2>3, BufferShape
      <3>3. \A j \in Upto(K) : folded[j] \in [Upto(FirstLen(parity)) -> Byte]
        BY <1>1, BufferShape DEF FoldedLengths
      <3>4. QED
        BY <3>1, <3>2, <3>3
    <2>5. parity' = [l \in Upto(P) |-> [q \in DOMAIN parity[l] |->
                       XOR(parity[l][q], Product(l, q))]]
      BY <1>1, <2>1 DEF update, KernelUpdate, K
    <2>6. ASSUME NEW l \in Upto(P)
          PROVE  parity'[l] \in [DOMAIN parity[l] -> Byte]
      <3>1. ASSUME NEW q \in DOMAIN parity[l]
            PROVE  XOR(parity[l][q], Product(l, q)) \in Byte
        <4>1. parity[l][q] \in Byte /\ src[q] \in Byte
          BY <2>4
        <4>2. Product(l, q) \in Byte
          BY <2>2, <4>1, TermLinear
        <4>3. QED
          BY <4>1, <4>2, XorByte
      <3> HIDE DEF Product
      <3>2. QED
        BY <2>5, <3>1
    <2>7. /\ parity' \in [Upto(P) -> Buffers(Lens)]
          /\ FirstLen(parity') = FirstLen(parity)
      <3>1. DOMAIN parity' = Upto(P) /\ parity' = [l \in Upto(P) |-> parity'[l]]
        BY <2>5
      <3>2. QED
        BY <1>1, <2>6, <3>1, RowsShape
    <2>8. /\ folded' \in [Upto(K) -> Buffers(Lens)]
          /\ \A j \in Upto(K) : DOMAIN folded'[j] = Upto(FirstLen(parity))
      <3>1. \A q \in Upto(FirstLen(parity)) : XOR(folded[i][q], src[q]) \in Byte
        BY <2>2, <2>4, XorByte
      <3>2. [q \in DOMAIN folded[i] |-> XOR(folded[i][q], src[q])]
              \in [Upto(FirstLen(parity)) -> Byte]
        BY <2>2, <2>4, <3>1
      <3>3. [q \in DOMAIN folded[i] |-> XOR(folded[i][q], src[q])] \in Buffers(Lens)
        BY <2>3, <3>2, ShapeBuffer
      <3>4. QED
        BY <1>1, <2>1, <2>2, <2>4, <3>2, <3>3
    <2>9. TypeOK'
      BY <2>1, <2>7, <2>8 DEF IInv, TypeOK, Called
    <2>10. FoldedLengths'
      BY <2>7, <2>8 DEF FoldedLengths
    <2>11. ASSUME NEW l \in Upto(P), NEW q \in DOMAIN parity[l]
           PROVE  parity'[l][q] = XorAll(Upto(K), Terms(folded', l, q))
      <3>1. q \in Upto(FirstLen(parity)) /\ folded[i][q] \in Byte /\ src[q] \in Byte
        BY <2>2, <2>4
      <3>2. /\ \A j \in Upto(K) \ {i} : folded'[j][q] = folded[j][q]
            /\ folded'[i][q] = XOR(folded[i][q], src[q])
        BY <1>1, <2>1, <2>2, <2>4, <3>1
      <3>3. XorAll(Upto(K), Terms(folded', l, q))
              = XOR(XorAll(Upto(K), Terms(folded, l, q)), Product(l, q))
        <4> DEFINE x == src[q]
                   g == folded'
        <4>1. /\ i \in Upto(K) /\ l \in Upto(P) /\ x \in Byte
              /\ FoldsInto(folded, g, i, q, x)
          BY <2>2, <3>1, <3>2 DEF FoldsInto
        <4> HIDE DEF x, g
        <4>2. XorAll(Upto(K), Terms(g, l, q))
                = XOR(XorAll(Upto(K), Terms(folded, l, q)),
                      Term(Coding.gftbls, K, l, i, x))
          BY <4>1, FoldOne
        <4>3. QED
          BY <4>2 DEF x, g
      <3>4. parity[l][q] = XorAll(Upto(K), Terms(folded, l, q))
        <4>1. parity = encode(Coding, folded, parity)
          BY <1>1, <2>3 DEF ParityTracksFolds, Uniform
        <4>2. encode(Coding, folded, parity)
                = [m \in Upto(P) |-> [s \in DOMAIN parity[m] |->
                     XorAll(Upto(K), Terms(folded, m, s))]]
          BY <1>1, EncodeIs
        <4>3. encode(Coding, folded, parity)[l][q]
                = XorAll(Upto(K), Terms(folded, l, q))
          BY <4>2
        <4>4. QED
          BY <4>1, <4>3
      <3> HIDE DEF Product
      <3>5. parity'[l][q] = XOR(parity[l][q], Product(l, q))
        BY <2>5
      <3>6. QED
        BY <3>3, <3>4, <3>5
    <2>12. ParityTracksFolds'
      <3>1. encode(Coding, folded', parity')
              = [l \in Upto(P) |-> [q \in DOMAIN parity'[l] |->
                   XorAll(Upto(K), Terms(folded', l, q))]]
        BY <2>7, <2>8, EncodeIs
      <3>2. \A l \in Upto(P) : DOMAIN parity'[l] = DOMAIN parity[l]
        BY <2>5
      <3>3. parity' = [l \in Upto(P) |-> [q \in DOMAIN parity'[l] |-> parity'[l][q]]]
        BY <2>6, <2>7
      <3>4. QED
        BY <2>11, <3>1, <3>2, <3>3 DEF ParityTracksFolds
    <2>13. QED
      BY <2>9, <2>10, <2>12 DEF IInv
  <1>4. QED
    BY <1>2, <1>3

LEMMA NextIInv == IInv /\ [Next]_vars => IInv'
  <1> SUFFICES ASSUME IInv, [Next]_vars PROVE IInv'
    OBVIOUS
  <1>1. CASE ZeroParity
    BY <1>1, ZeroParityIInv
  <1>2. CASE \E i \in Upto(K), buffer \in Sources : Overwrite(i, buffer)
    BY <1>2, OverwriteIInv
  <1>3. CASE \E d \in 0..K, n \in 0..P : CallEncode(d, n) \/ CallVerify(d, n)
    BY <1>3, CallEncodeIInv, CallVerifyIInv
  <1>4. CASE \E i \in 0..K, src \in Sources, n \in 0..P : CallUpdate(i, src, n)
    BY <1>4, CallUpdateIInv
  <1>5. CASE UNCHANGED vars
    BY <1>5 DEF vars, IInv, TypeOK, FoldedLengths, ParityTracksFolds, Uniform
  <1>6. QED
    BY <1>1, <1>2, <1>3, <1>4, <1>5 DEF Next

LEMMA Invariance == Spec => []IInv
  BY InitIInv, NextIInv, PTL DEF Spec

(* The buffers and the history keep their shape whatever the client calls. *)
THEOREM TypeCorrect == Spec => []TypeOK
  <1>1. IInv => TypeOK
    BY DEF IInv
  <1>2. QED
    BY <1>1, Invariance, PTL

(* For every field, coding matrix and stripe, in every order of updates,   *)
(* with repetitions, re-encodes and refused calls, the parity is the       *)
(* encoding of what was folded in.                                         *)
THEOREM TracksFolds == Spec => []ParityTracksFolds
  <1>1. IInv => ParityTracksFolds
    BY DEF IInv
  <1>2. QED
    BY <1>1, Invariance, PTL

-----------------------------------------------------------------------------
(* What verify answers, for a coder whose tables hold the parity rows of a *)
(* matrix that separates: parity that agrees with both the sources and     *)
(* what was folded makes their difference vanish under every parity row,   *)
(* and no difference of between one and P sources does.                    *)

TablesMatch ==
  \A l \in Upto(P), j \in Upto(K) :
    Coding.gftbls.coeffs[l * K + j] = Coding.matrix.at[K + l][j]

(* A call that is not an accepted verify says nothing of the parity.       *)
LEMMA OtherAnswers ==
  ASSUME last'.op # "verify"
  PROVE  VerifyAnswer'
  BY DEF VerifyAnswer

(* Both encodings give the parity, so their difference encodes to zero.    *)
LEMMA DifferenceVanishes ==
  ASSUME TablesMatch, NEW l \in Upto(P), NEW q,
         NEW f, NEW g, \A j \in Upto(K) : f[j][q] \in Byte /\ g[j][q] \in Byte,
         XorAll(Upto(K), Terms(f, l, q)) = XorAll(Upto(K), Terms(g, l, q))
  PROVE  Dot(Upto(K), Coding.matrix.at[K + l],
             [j \in Upto(K) |-> XOR(f[j][q], g[j][q])]) = {}
  <1> DEFINE t == Terms(f, l, q)
             u == Terms(g, l, q)
             row == Coding.matrix.at[K + l]
             v == [j \in Upto(K) |-> XOR(f[j][q], g[j][q])]
             p == [j \in Upto(K) |-> mul(row[j], v[j])]
  <1>1. IsFiniteSet(Upto(K))
    BY UptoFinite, CodingAssumption
  <1>2. ASSUME NEW j \in Upto(K)
        PROVE  t[j] \in Byte /\ u[j] \in Byte /\ p[j] = XOR(t[j], u[j])
    <2> DEFINE x == f[j][q]
               y == g[j][q]
    <2>1. x \in Byte /\ y \in Byte
      OBVIOUS
    <2>2. /\ t[j] = Term(Coding.gftbls, K, l, j, x)
          /\ u[j] = Term(Coding.gftbls, K, l, j, y)
      BY DEF Terms
    <2>3. p[j] = Term(Coding.gftbls, K, l, j, XOR(x, y))
      BY DEF TablesMatch, Term
    <2> HIDE DEF t, u, p, x, y
    <2>4. QED
      BY <2>1, <2>2, <2>3, TermLinear
  <1>3. XorAll(Upto(K), t) = XorAll(Upto(K), u)
    OBVIOUS
  <1> HIDE DEF t, u, p
  <1>4. XorAll(Upto(K), p) = XOR(XorAll(Upto(K), t), XorAll(Upto(K), u))
    BY <1>1, <1>2, XorAllXor
  <1>5. XorAll(Upto(K), p) = {}
    BY <1>3, <1>4, XorAllByte, XorZero
  <1>6. QED
    BY <1>5 DEF p, Dot

(* An answer of an accepted call, judged in the state it is given in.      *)
Judged(answer) ==
  /\ StaleSources = {} => answer
  /\ answer => StaleSources = {} \/ Cardinality(StaleSources) > P

LEMMA VerifyJudged ==
  ASSUME IInv, TablesMatch, Separates(Coding.matrix, K, P),
         NEW d \in 0..K, NEW n \in 0..P,
         encode_verdict(Coding, Slice(data, d), Slice(parity, n)) = Fine
  PROVE  Judged(verify(Coding, data, parity))
  <1> DEFINE len == FirstLen(parity)
  <1>1. /\ parity \in [Upto(P) -> Buffers(Lens)]
        /\ folded \in [Upto(K) -> Buffers(Lens)]
        /\ data \in [Upto(K) -> Sources]
        /\ FoldedLengths /\ ParityTracksFolds
    BY DEF IInv, TypeOK
  <1>2. /\ \A l \in Upto(P) : Count(parity[l]) = len
        /\ \A j \in Upto(K) : Count(data[j]) = len
    BY <1>1, EncodeAccepted
  <1>3. len \in Nat
    BY <1>1, ParityShape, CodingAssumption
  <1>4. \A j \in Upto(K) : data[j] \in [Upto(len) -> Byte] /\ folded[j] \in [Upto(len) -> Byte]
    <2>1. \A j \in Upto(K) : data[j] \in [Upto(len) -> Byte]
      BY <1>1, <1>2, SourceShape
    <2>2. \A j \in Upto(K) : folded[j] \in [Upto(len) -> Byte]
      BY <1>1, BufferShape DEF FoldedLengths
    <2>3. QED
      BY <2>1, <2>2
  <1>5. \A l \in Upto(P) : DOMAIN parity[l] = Upto(len)
    BY <1>1, <1>2, BufferShape
  <1>6. parity = encode(Coding, folded, parity)
    BY <1>1, <1>2 DEF ParityTracksFolds, Uniform
  <1>7. /\ encode(Coding, data, parity)
             = [l \in Upto(P) |-> [q \in DOMAIN parity[l] |-> XorAll(Upto(K), Terms(data, l, q))]]
        /\ encode(Coding, folded, parity)
             = [l \in Upto(P) |-> [q \in DOMAIN parity[l] |-> XorAll(Upto(K), Terms(folded, l, q))]]
    BY <1>1, EncodeIs
  <1> HIDE DEF len
  <1>8. StaleSources = {} => verify(Coding, data, parity)
    <2> SUFFICES ASSUME StaleSources = {} PROVE encode(Coding, data, parity) = parity
      BY DEF verify, encode
    <2>1. \A j \in Upto(K) : data[j] = folded[j]
      BY DEF StaleSources
    <2>2. \A l, q : Terms(data, l, q) = Terms(folded, l, q)
      BY <2>1 DEF Terms
    <2>3. QED
      BY <1>6, <1>7, <2>2
  <1>9. ASSUME verify(Coding, data, parity), StaleSources # {},
               ~(Cardinality(StaleSources) > P)
        PROVE  FALSE
    <2>1. PICK i \in Upto(K) : data[i] # folded[i]
      BY <1>9 DEF StaleSources
    <2>2. PICK q \in Upto(len) : data[i][q] # folded[i][q]
      BY <1>4, <2>1
    <2>3. len # 0
      BY <1>3, <2>2 DEF Upto
    <2>4. encode(Coding, data, parity) = parity
      BY <1>9, <2>3 DEF verify, encode, len
    <2> DEFINE v == [j \in Upto(K) |-> XOR(data[j][q], folded[j][q])]
               m == Cardinality(StaleSources)
               I == K..(K + m - 1)
    <2>5. K \in Nat /\ P \in Nat
      BY CodingAssumption
    <2>6. m \in Nat /\ m <= P
      <3>1. IsFiniteSet(StaleSources)
        BY <2>5, UptoFinite, FS_Subset DEF StaleSources
      <3>2. QED
        BY <1>9, <2>5, <3>1, FS_CardinalityType
    <2>7. I \in SUBSET ParityRows(K, P) /\ Cardinality(I) = m
      <3>1. I \in SUBSET ParityRows(K, P)
        BY <2>5, <2>6 DEF ParityRows
      <3>2. Cardinality(I) = m
        <4>1. K \in Int /\ K + m - 1 \in Int
          BY <2>5, <2>6
        <4>2. Cardinality(K..(K + m - 1)) = IF K > K + m - 1 THEN 0 ELSE (K + m - 1) - K + 1
          BY <4>1, FS_Interval
        <4>3. QED
          BY <2>5, <2>6, <4>2
      <3>3. QED
        BY <3>1, <3>2
    <2>8. v \in [Upto(K) -> Byte]
      BY <1>4, XorByte
    <2>9. \A j \in Upto(K) \ StaleSources : v[j] = {}
      <3>1. ASSUME NEW j \in Upto(K) \ StaleSources
            PROVE  XOR(data[j][q], folded[j][q]) = {}
        <4>1. data[j] = folded[j]
          BY DEF StaleSources
        <4>2. folded[j][q] \in Byte
          BY <1>4
        <4>3. QED
          BY <4>1, <4>2, XorZero
      <3>2. QED
        BY <3>1
    <2>10. ASSUME NEW r \in ParityRows(K, P)
           PROVE  Dot(Upto(K), Coding.matrix.at[r], v) = {}
      <3>1. r - K \in Upto(P) /\ K + (r - K) = r
        BY <2>5 DEF ParityRows, Upto
      <3>2. XorAll(Upto(K), Terms(data, r - K, q)) = XorAll(Upto(K), Terms(folded, r - K, q))
        BY <1>5, <1>6, <1>7, <2>4, <3>1
      <3>3. \A j \in Upto(K) : data[j][q] \in Byte /\ folded[j][q] \in Byte
        BY <1>4
      <3>4. Dot(Upto(K), Coding.matrix.at[K + (r - K)], v) = {}
        BY <3>1, <3>2, <3>3, DifferenceVanishes
      <3>5. QED
        BY <3>1, <3>4
    <2>11. StaleSources \in SUBSET Upto(K) /\ i \in StaleSources
      BY <2>1 DEF StaleSources
    <2> HIDE DEF I, v
    <2>12. v[i] = {}
      BY <2>7, <2>8, <2>9, <2>10, <2>11 DEF Separates
    <2>13. XOR(data[i][q], folded[i][q]) # {}
      BY <2>2, XorDiffers
    <2>14. QED
      BY <2>12, <2>13 DEF v
  <1>10. QED
    BY <1>8, <1>9 DEF Judged

LEMMA VerifyStep ==
  ASSUME IInv, VerifyAnswer, TablesMatch, Separates(Coding.matrix, K, P), [Next]_vars
  PROVE  VerifyAnswer'
  <1>1. CASE ZeroParity
    BY <1>1, OtherAnswers DEF ZeroParity, Called
  <1>2. CASE \E i \in Upto(K), buffer \in Sources : Overwrite(i, buffer)
    BY <1>2, OtherAnswers DEF Overwrite, Called
  <1>3. ASSUME NEW d \in 0..K, NEW n \in 0..P, CallEncode(d, n)
        PROVE  VerifyAnswer'
    BY <1>3, OtherAnswers DEF CallEncode, Called
  <1>4. ASSUME NEW d \in 0..K, NEW n \in 0..P, CallVerify(d, n)
        PROVE  VerifyAnswer'
    <2> DEFINE verdict == encode_verdict(Coding, Slice(data, d), Slice(parity, n))
    <2>1. /\ StaleSources' = StaleSources
          /\ last'.verdict = verdict
          /\ verdict = Fine => last'.answer = verify(Coding, data, parity)
      <3>1. last' = Called("verify", verdict, verdict = Fine /\ verify(Coding, data, parity))
        BY <1>4 DEF CallVerify
      <3>2. verify(Coding, data, parity) \in BOOLEAN
        BY DEF verify
      <3> HIDE DEF verdict
      <3>3. last'.verdict = verdict
        BY <3>1 DEF Called
      <3>4. last'.answer = (verdict = Fine /\ verify(Coding, data, parity))
        BY <3>1 DEF Called
      <3>5. verdict = Fine => last'.answer = verify(Coding, data, parity)
        BY <3>2, <3>4
      <3>6. StaleSources' = StaleSources
        BY <1>4 DEF CallVerify, StaleSources
      <3>7. QED
        BY <3>3, <3>5, <3>6
    <2>2. verdict = Fine => Judged(verify(Coding, data, parity))
      BY VerifyJudged
    <2> HIDE DEF verdict
    <2>3. QED
      BY <2>1, <2>2 DEF VerifyAnswer, Judged
  <1>5. CASE \E i \in 0..K, src \in Sources, n \in 0..P : CallUpdate(i, src, n)
    BY <1>5, OtherAnswers DEF CallUpdate, Called
  <1>6. CASE UNCHANGED vars
    BY <1>6 DEF vars, VerifyAnswer, StaleSources
  <1>7. QED
    BY <1>1, <1>2, <1>3, <1>4, <1>5, <1>6 DEF Next

LEMMA VerifyHolds ==
  ASSUME TablesMatch, Separates(Coding.matrix, K, P)
  PROVE  Spec => []VerifyAnswer
  <1>1. Init => VerifyAnswer
    BY DEF Init, VerifyAnswer, Called
  <1>2. IInv /\ VerifyAnswer /\ [Next]_vars => VerifyAnswer'
    BY VerifyStep
  <1>3. Spec => []IInv
    BY Invariance
  <1>4. QED
    BY <1>1, <1>2, <1>3, PTL DEF Spec

(* The tables a coder expands are the coefficients of its matrix.          *)
LEMMA TablesAreRows ==
  ASSUME NEW k \in Nat \ {0}, NEW p \in Nat \ {0}, NEW A, Systematic(A, k + p, k),
         NEW kernels, Coding = with_kernels(A, kernels).ok
  PROVE  Coding.matrix = A /\ K = k /\ P = p /\ TablesMatch
  <1>1. A.rows = k + p /\ A.cols = k
    BY DEF Systematic
  <1>2. Coding.matrix = A /\ Coding.gftbls.coeffs = parity_bytes(A)
    BY <1>1 DEF with_kernels, Ok, init
  <1>3. K = k /\ P = p
    BY <1>1, <1>2 DEF K, P, CoderK, CoderP
  <1>4. TablesMatch
    <2> SUFFICES ASSUME NEW l \in Upto(p), NEW j \in Upto(k)
                 PROVE  parity_bytes(A)[l * k + j] = A.at[k + l][j]
      BY <1>2, <1>3 DEF TablesMatch
    <2>1. /\ l * k + j \in Upto(p * k)
          /\ (l * k + j) \div k = l
          /\ (l * k + j) % k = j
      BY PositionOf
    <2>2. A.rows - A.cols = p
      BY <1>1
    <2>3. parity_bytes(A) = [e \in Upto(p * k) |-> A.at[k + (e \div k)][e % k]]
      BY <1>1, <2>2 DEF parity_bytes, Flat
    <2>4. QED
      BY <2>1, <2>3
  <1>5. QED
    BY <1>2, <1>3, <1>4

LEMMA SeparatingVerifies ==
  ASSUME NEW k \in Nat \ {0}, NEW p \in Nat \ {0}, NEW A, Systematic(A, k + p, k),
         Separates(A, k, p), NEW kernels, Coding = with_kernels(A, kernels).ok
  PROVE  Spec => []VerifyAnswer
  <1>1. Coding.matrix = A /\ K = k /\ P = p /\ TablesMatch
    BY TablesAreRows
  <1>2. QED
    BY <1>1, VerifyHolds

(* A coder built on the Cauchy matrix of any dimensions the field has room *)
(* for, on any kernel set: verify accepts parity that is up to date, and   *)
(* rejects it while between one and P sources are stale, whatever calls    *)
(* led there.                                                              *)
THEOREM VerifyTellsStale ==
  ASSUME NEW k \in Nat, NEW p \in Nat, NEW kernels, IsOk(cauchy(k, p)),
         Coding = with_kernels(cauchy(k, p).ok, kernels).ok
  PROVE  Spec => []VerifyAnswer
  <1> DEFINE A == cauchy(k, p).ok
  <1>1. check_dims(k, p) /\ k # 0 /\ p # 0
    BY DEF cauchy, IsOk, Ok, Err, check_dims
  <1>2. Systematic(A, k + p, k) /\ Separates(A, k, p)
    BY <1>1, CauchyShape, CauchySeparates
  <1> HIDE DEF A
  <1>3. Coding = with_kernels(A, kernels).ok
    BY DEF A
  <1>4. QED
    BY <1>1, <1>2, <1>3, SeparatingVerifies

(* So does a coder built on the matrix of the reed-solomon-erasure crate.  *)
THEOREM VerifyTellsStaleOfCompat ==
  ASSUME NEW k \in Nat, NEW p \in Nat, NEW kernels, IsOk(reed_solomon_erasure_matrix(k, p)),
         Coding = with_kernels(reed_solomon_erasure_matrix(k, p).ok, kernels).ok
  PROVE  Spec => []VerifyAnswer
  <1> DEFINE A == reed_solomon_erasure_matrix(k, p).ok
  <1>1. k # 0 /\ p # 0 /\ k + p <= Order + 1
    BY OrderIs DEF reed_solomon_erasure_matrix, IsOk, Err
  <1>2. Systematic(A, k + p, k) /\ Separates(A, k, p)
    BY <1>1, CompatSeparates
  <1> HIDE DEF A
  <1>3. Coding = with_kernels(A, kernels).ok
    BY DEF A
  <1>4. QED
    BY <1>1, <1>2, <1>3, SeparatingVerifies

(* And one built on a Vandermonde matrix of a safe shape.                  *)
THEOREM VerifyTellsStaleOfVandermonde ==
  ASSUME NEW k \in Nat, NEW p \in Nat, SafeShape(k, p), NEW kernels, IsOk(reed_solomon(k, p)),
         Coding = with_kernels(reed_solomon(k, p).ok, kernels).ok
  PROVE  Spec => []VerifyAnswer
  <1> DEFINE A == vandermonde(k, p)
  <1>1. check_dims(k, p) /\ reed_solomon(k, p).ok = A
    BY DEF reed_solomon, IsOk, Ok, Err
  <1>2. k # 0 /\ p # 0
    BY <1>1 DEF check_dims
  <1> HIDE DEF A
  <1>3. Systematic(A, k + p, k) /\ Separates(A, k, p)
    BY <1>1, VandermondeShape, VandermondeSeparates DEF A
  <1>4. Coding = with_kernels(A, kernels).ok
    BY <1>1
  <1>5. QED
    BY <1>2, <1>3, <1>4, SeparatingVerifies

=============================================================================
