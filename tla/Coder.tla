-------------------------------- MODULE Coder --------------------------------
(***************************************************************************)
(* The Coder's operations as functions of their arguments                  *)
(* (core/src/encode.rs) over the contract of a kernel set (core/src/       *)
(* kernel.rs).  Parity and Recovery put them in the hands of clients.      *)
(*                                                                         *)
(* A list of n things - bytes of a buffer, shards, indices - is a function *)
(* on 0..n-1, as the code indexes it.  A call is described by its verdict  *)
(* (the record Fine, the error it returns, or a panic) and, when that is   *)
(* Fine, by what it writes.                                                *)
(***************************************************************************)
EXTENDS Matrix

CONSTANT Lost     (* The None of an Option<&[u8]> shard slot.              *)

Count(list) == Cardinality(DOMAIN list)

(* Buffers whose length is one of lens.                                    *)
Buffers(lens) == UNION {[Upto(n) -> Byte] : n \in lens}

Zeroed(buffer) == [q \in DOMAIN buffer |-> {}]
-----------------------------------------------------------------------------
(* Verdicts.  A check is the set of errors it raises, empty when it        *)
(* passes; a call makes its checks in order and returns the first error.   *)

Fine == [kind |-> "Ok", detail |-> 0]

Raise(kind, detail) == {[kind |-> kind, detail |-> detail]}

Verdict(checks) ==
  LET failed == {i \in DOMAIN checks : checks[i] # {}}
  IN  IF failed = {} THEN Fine ELSE CHOOSE e \in checks[Min(failed)] : TRUE

ShardCount(list, expected) ==
  IF Count(list) = expected THEN {} ELSE Raise("ShardCount", Count(list))

(* The first buffer of the wrong length, reported at base + its index.     *)
ShardLength(list, len, base) ==
  LET wrong == {i \in DOMAIN list : Count(list[i]) # len}
  IN  IF wrong = {} THEN {} ELSE Raise("ShardLength", base + Min(wrong))

(* The length a call takes from its first output buffer, 0 if it has none. *)
FirstLen(list) == IF Count(list) = 0 THEN 0 ELSE Count(list[0])
-----------------------------------------------------------------------------
(* Kernel sets.  Tables are kernel-private: 32 bytes a coefficient in the  *)
(* nibble format, 8 in the affine one.                                     *)

Kernels(format, simd) == [format |-> format, simd |-> simd]
Scalar == Kernels("nibble", FALSE)

TableBytes(format) == IF format = "nibble" THEN 32 ELSE 8

init(kernels, coeffs) == [format |-> kernels.format, coeffs |-> coeffs]

(* A kernel of k sources finds the tables of row l, source j at l*k + j.   *)
Term(tbl, k, l, j, byte) == mul(tbl.coeffs[l * k + j], byte)

(* encode: out[l] = XOR_j c[l][j] * data[j], whatever out held before.     *)
KernelEncode(tbl, data, out) ==
  LET k == Count(data)
  IN  [l \in DOMAIN out |->
         [q \in DOMAIN out[l] |->
            XorAll(Upto(k), [j \in Upto(k) |-> Term(tbl, k, l, j, data[j][q])])]]

(* Mutants: the product replaces the byte; it lands one byte further on.   *)
KernelUpdateOverwriting(tbl, k, i, src, out) ==
  [l \in DOMAIN out |-> [q \in DOMAIN out[l] |-> Term(tbl, k, l, i, src[q])]]

KernelUpdateShifted(tbl, k, i, src, out) ==
  [l \in DOMAIN out |->
     [q \in 1..Count(out[l]) |->
        XOR(out[l][q - 1], Term(tbl, k, l, i, src[q - 1]))]]

(* update: out[l] ^= c[l][i] * src.                                        *)
KernelUpdate(tbl, k, i, src, out) ==
  [l \in DOMAIN out |->
     [q \in DOMAIN out[l] |-> XOR(out[l][q], Term(tbl, k, l, i, src[q]))]]

(* What the wrappers assert on entry to an encode.  A SIMD set requires    *)
(* every source and output to have the length of the first output and the  *)
(* tables to be long enough; the scalar set slices the tables row by row,  *)
(* so it needs the same of the tables and nothing of the lengths.          *)
KernelAsserts(kernels, tbl, data, out) ==
  LET needed == Count(out) * Count(data) * TableBytes(kernels.format)
      held   == Count(tbl.coeffs) * TableBytes(tbl.format)
      len    == FirstLen(out)
      uneven == \/ \E j \in DOMAIN data : Count(data[j]) # len
                \/ \E l \in DOMAIN out : Count(out[l]) # len
  IN  IF held < needed \/ (kernels.simd /\ uneven) THEN Raise("panic", 0) ELSE {}
-----------------------------------------------------------------------------
(* Construction: the parity rows are expanded once.                        *)

Flat(rows, cols, at(_, _)) ==
  [e \in Upto(rows * cols) |-> at(e \div cols, e % cols)]

parity_bytes(matrix) ==
  Flat(matrix.rows - matrix.cols, matrix.cols,
       LAMBDA l, j : matrix.at[matrix.cols + l][j])

with_kernels(matrix, kernels) ==
  IF matrix.rows <= matrix.cols THEN Err("Dimensions")
  ELSE Ok([matrix  |-> matrix,
           gftbls  |-> init(kernels, parity_bytes(matrix)),
           kernels |-> kernels])

CoderK(c) == c.matrix.cols
CoderP(c) == c.matrix.rows - c.matrix.cols
-----------------------------------------------------------------------------
(* Encode, update, verify.                                                 *)

encode_checks(c, data, parity) ==
  <<ShardCount(parity, CoderP(c)),
    ShardLength(parity, FirstLen(parity), CoderK(c)),
    ShardCount(data, CoderK(c)),
    ShardLength(data, FirstLen(parity), 0)>>

encode_verdict(c, data, parity) ==
  LET checked == Verdict(encode_checks(c, data, parity))
  IN  IF checked # Fine THEN checked
      ELSE Verdict(<<KernelAsserts(c.kernels, c.gftbls, data, parity)>>)

encode(c, data, parity) == KernelEncode(c.gftbls, data, parity)

update_verdict(c, i, src, parity) ==
  Verdict(<<IF i < CoderK(c) THEN {} ELSE Raise("ShardIndex", i),
            ShardCount(parity, CoderP(c)),
            ShardLength(parity, Count(src), CoderK(c))>>)

update(c, i, src, parity) == KernelUpdate(c.gftbls, CoderK(c), i, src, parity)

(* Mutant: only the first parity row is compared.                          *)
verify_first_row(c, data, parity) ==
  FirstLen(parity) = 0 \/ KernelEncode(c.gftbls, data, parity)[0] = parity[0]

(* verify's checks are encode's; a zero-length stripe is consistent.       *)
verify(c, data, parity) ==
  FirstLen(parity) = 0 \/ KernelEncode(c.gftbls, data, parity) = parity
-----------------------------------------------------------------------------
(* Recovery.                                                               *)

(* The n smallest members of S, in order.                                  *)
Smallest(S, n) ==
  [t \in Upto(n) |-> CHOOSE i \in S : Cardinality({s \in S : s < i}) = t]

IndexCheck(rebuild, n) ==
  LET wrong == {r \in DOMAIN rebuild : rebuild[r] >= n}
  IN  IF wrong = {} THEN {} ELSE Raise("ShardIndex", rebuild[Min(wrong)])

(* Mutant: k shards are not enough.                                        *)
MissingCheckStrict(c, present) ==
  IF Cardinality(present) > CoderK(c) THEN {}
  ELSE Raise("TooManyMissing", c.matrix.rows - Cardinality(present))

(* Fewer than k shards are left: reported with how many are missing.       *)
MissingCheck(c, present) ==
  IF Cardinality(present) >= CoderK(c) THEN {}
  ELSE Raise("TooManyMissing", c.matrix.rows - Cardinality(present))

(* The inverse of the survivors' rows: maps survivor shards to sources.    *)
DecodeMatrix(c, survivors) ==
  invert(select_rows(c.matrix, CoderK(c), survivors))

SingularCheck(c, survivors) ==
  IF IsOk(DecodeMatrix(c, survivors)) THEN {} ELSE Raise("Singular", 0)

(* Mutants: a parity target gets a row of the inverse; the inverse is read *)
(* by columns.                                                             *)
DecodeCoeffsUncomposed(c, survivors, rebuild) ==
  Flat(Count(rebuild), CoderK(c),
       LAMBDA r, t : DecodeMatrix(c, survivors).ok.at[rebuild[r] % CoderK(c)][t])

DecodeCoeffsTransposed(c, survivors, rebuild) ==
  LET k == CoderK(c)
      d == DecodeMatrix(c, survivors).ok
      composed == multiply(c.matrix, d)
  IN  Flat(Count(rebuild), k,
           LAMBDA r, t : IF rebuild[r] < k THEN d.at[t][rebuild[r]]
                         ELSE composed.at[rebuild[r]][t])

(* One coefficient row per target: a row of the inverse for a source, the  *)
(* parity row composed with the inverse for a parity shard.                *)
DecodeCoeffs(c, survivors, rebuild) ==
  LET k == CoderK(c)
      d == DecodeMatrix(c, survivors).ok
      composed == multiply(c.matrix, d)
  IN  Flat(Count(rebuild), k,
           LAMBDA r, t : IF rebuild[r] < k THEN d.at[rebuild[r]][t]
                         ELSE composed.at[rebuild[r]][t])

decode_plan_verdict(c, present, rebuild) ==
  LET n == c.matrix.rows
      there == {i \in DOMAIN present : present[i]}
      checked == Verdict(<<ShardCount(present, n),
                           IndexCheck(rebuild, n),
                           MissingCheck(c, there)>>)
  IN  IF checked # Fine THEN checked
      ELSE Verdict(<<SingularCheck(c, Smallest(there, CoderK(c)))>>)

decode_plan(c, present, rebuild) ==
  LET survivors == Smallest({i \in DOMAIN present : present[i]}, CoderK(c))
  IN  [gftbls    |-> init(c.kernels, DecodeCoeffs(c, survivors, rebuild)),
       survivors |-> survivors,
       rebuild   |-> rebuild,
       n         |-> c.matrix.rows]

PlannedSources(plan, shards) ==
  [t \in DOMAIN plan.survivors |-> shards[plan.survivors[t]]]

(* Mutant: any lost shard ends the call.                                   *)
SurvivorCheckOfAll(plan, shards, len) ==
  IF \E i \in DOMAIN shards : shards[i] = Lost THEN Raise("TooManyMissing", 1)
  ELSE {}

(* The planned survivors are looked up in order; the first that is gone or *)
(* of another length than the first output ends the call.                  *)
SurvivorCheck(plan, shards, len) ==
  LET src == PlannedSources(plan, shards)
      bad == {t \in DOMAIN src : src[t] = Lost \/ Count(src[t]) # len}
  IN  IF bad = {} THEN {}
      ELSE IF src[Min(bad)] = Lost THEN Raise("TooManyMissing", 1)
      ELSE Raise("ShardLength", plan.survivors[Min(bad)])

recover_with_verdict(c, plan, shards, out) ==
  LET counted == Verdict(<<ShardCount(shards, plan.n),
                           ShardCount(out, Count(plan.rebuild))>>)
      len == FirstLen(out)
      uneven == \E r \in DOMAIN out : Count(out[r]) # len
      looked == Verdict(<<SurvivorCheck(plan, shards, len),
                          IF uneven THEN Raise("ShardLength", 0) ELSE {}>>)
  IN  IF counted # Fine THEN counted
      ELSE IF looked # Fine THEN looked
      ELSE Verdict(<<KernelAsserts(c.kernels, plan.gftbls,
                                   PlannedSources(plan, shards), out)>>)

recover_with(plan, shards, out) ==
  KernelEncode(plan.gftbls, PlannedSources(plan, shards), out)

(* recover: the one-shot form.  Its survivors are those of a plan made for *)
(* the shards of the call; every present shard must have their length.     *)
Present(shards) == [i \in DOMAIN shards |-> shards[i] # Lost]

recover_verdict(c, shards, rebuild, out) ==
  LET n == c.matrix.rows
      there == {i \in DOMAIN shards : shards[i] # Lost}
      counted == Verdict(<<ShardCount(shards, n),
                           ShardCount(out, Count(rebuild)),
                           IndexCheck(rebuild, n),
                           MissingCheck(c, there)>>)
      survivors == Smallest(there, CoderK(c))
      len == Count(shards[survivors[0]])
      wrong == {r \in DOMAIN out : Count(out[r]) # len}
      measured == Verdict(<<ShardLength([i \in there |-> shards[i]], len, 0),
                            IF wrong = {} THEN {}
                            ELSE Raise("ShardLength", rebuild[Min(wrong)]),
                            SingularCheck(c, survivors)>>)
  IN  IF counted # Fine THEN counted
      ELSE IF measured # Fine THEN measured
      ELSE Verdict(<<KernelAsserts(c.kernels,
                       init(c.kernels, DecodeCoeffs(c, survivors, rebuild)),
                       [t \in DOMAIN survivors |-> shards[survivors[t]]], out)>>)

recover(c, shards, rebuild, out) ==
  recover_with(decode_plan(c, Present(shards), rebuild), shards, out)

=============================================================================
