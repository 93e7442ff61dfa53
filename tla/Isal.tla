-------------------------------- MODULE Isal --------------------------------
(***************************************************************************)
(* A client of the ISA-L compatibility layer (facade/src/isal.rs) and of   *)
(* the calls on one vector of core/src/kernel.rs.  It keeps itself what a  *)
(* Coder would keep for it: a matrix buffer, a table buffer that may be    *)
(* too short, and parity buffers that may be longer than the stripe.       *)
(* Nothing ties them together but the arguments of each call.              *)
(* Tables are of the nibble format: gftbls.coeffs lists the coefficients   *)
(* whose 32 bytes fit the buffer (MulShift shows that a table multiplies   *)
(* as its coefficient does).  k * rows * 32 fits a machine word.           *)
(***************************************************************************)
EXTENDS Coder

CONSTANTS
  K, P,       (* sources and parity rows of the stripe                     *)
  Skip,       (* the parity rows of the matrix that come before them       *)
  Unit,       (* gf_vect_mul wants a multiple of it: 32 in the code        *)
  Lens,       (* the values of len a call is given                         *)
  Sources,    (* the source buffers                                        *)
  DataLists,  (* the lists of them an encode is given                      *)
  Shapes,     (* <<tables the table buffer holds, bytes of a parity row>>  *)
  KernelSet,  (* what nibble_kernels() returns                             *)
  None        (* no matrix                                                 *)

ASSUME StripeAssumption == K \in Nat \ {0} /\ P \in Nat \ {0} /\ Skip \in Nat /\ K + Skip + P <= Order

ASSUME NibbleAssumption == KernelSet.format = "nibble"

(* Buffers are lists of bytes, and lists of them are lists.                *)
IsBuffer(b) == Count(b) \in Nat /\ b \in [Upto(Count(b)) -> Byte]

ASSUME BufferAssumption ==
  /\ Lens \subseteq Nat
  /\ \A src \in Sources : IsBuffer(src)
  /\ \A data \in DataLists : /\ Count(data) \in Nat /\ DOMAIN data = Upto(Count(data))
                            /\ \A j \in DOMAIN data : IsBuffer(data[j])
  /\ \A shape \in Shapes : shape[1] \in Nat /\ shape[2] \in Nat
  /\ None \notin {"rs", "cauchy"}

VARIABLES
  a, kind,    (* the matrix buffer; history: the matrix generated into it  *)
  gftbls,     (* the table buffer                                          *)
  made,       (* history: the matrix the tables of a row were made from    *)
  coding,     (* the parity rows                                           *)
  folded,     (* history: for each row what has been folded into it of     *)
              (* each source since it was zeroed, or last encoded          *)
  failed      (* the last call returned an error, or panicked              *)

vars == <<a, kind, gftbls, made, coding, folded, failed>>

M == K + Skip + P
Row == Upto(P)
Untouched == <<coding, folded>>

NothingFolded(row) == [j \in Upto(K) |-> Zeroed(row)]

Init ==
  /\ a = [e \in Upto(M * K) |-> {}]
  /\ kind = None
  /\ made = [l \in Row |-> None]
  /\ \E shape \in Shapes :
       /\ gftbls = [format |-> "nibble", coeffs |-> [e \in Upto(shape[1]) |-> {}]]
       /\ coding = [l \in Row |-> [q \in Upto(shape[2]) |-> {}]]
  /\ folded = [l \in Row |-> NothingFolded(coding[l])]
  /\ failed = FALSE

Returns(verdict) == failed' = (verdict # Fine)
-----------------------------------------------------------------------------
(* Matrix generation, inversion, table expansion.                          *)

check_matrix_buf(buf, m, k) ==
  IF k # 0 /\ m >= k /\ Count(buf) >= k * m THEN {} ELSE Raise("Dimensions", k)

(* Both generators also refuse more than 255 rows.                         *)
gf_gen_checks(buf, m, k) ==
  <<check_matrix_buf(buf, m, k), IF m <= Order THEN {} ELSE Raise("Dimensions", k)>>

(* The first m * k bytes of buf become the rows of a matrix.               *)
Filled(buf, m, k, coeff) ==
  [e \in DOMAIN buf |->
     IF e >= m * k THEN buf[e]
     ELSE IF e \div k < k THEN Delta(e \div k, e % k)
     ELSE coeff[e \div k][e % k]]

(* 1, gen, gen^2, ...: the first n of them.                                *)
Geometric(gen, n) ==
  LET coeff[j \in Upto(n)] == IF j = 0 THEN {0} ELSE mul(coeff[j - 1], gen)
  IN  coeff

(* Row i is generated by row_gen, doubled from row to row.                 *)
gf_gen_rs_matrix(buf, m, k) ==
  LET row_gen == Geometric(OfNat(2), m - k)
  IN  Filled(buf, m, k, [i \in k..(m - 1) |-> Geometric(row_gen[i - k], k)])

gf_gen_cauchy1_matrix(buf, m, k) ==
  Filled(buf, m, k,
         [i \in k..(m - 1) |-> [j \in Upto(k) |-> inv(XOR(OfNat(i), OfNat(j)))]])

gf_invert_matrix_checks(in, out, n) ==
  <<IF Count(in) >= n * n /\ Count(out) >= n * n THEN {} ELSE Raise("Dimensions", n),
    IF n # 0 THEN {} ELSE Raise("Dimensions", n)>>

(* What it returns and leaves in the two buffers.  in is destroyed: it     *)
(* holds what the elimination leaves of it.                                *)
gf_invert_matrix(in, out, n) ==
  LET checked == Verdict(gf_invert_matrix_checks(in, out, n))
      s == invert_gauss_jordan([r \in Upto(n) |-> [c \in Upto(n) |-> in[r * n + c]]], n)
      Written(buf, m) ==
        [e \in DOMAIN buf |-> IF e < n * n THEN m[e \div n][e % n] ELSE buf[e]]
  IN  IF checked # Fine THEN [verdict |-> checked, in |-> in, out |-> out]
      ELSE [verdict |-> IF s.singular THEN Verdict(<<Raise("Singular", 0)>>) ELSE Fine,
            in  |-> Written(in, s.a),
            out |-> Written(out, s.out)]

ec_init_tables_checks(k, rows, coeffs, tbl) ==
  <<IF Count(coeffs) >= k * rows THEN {} ELSE Raise("ShardCount", Count(coeffs)),
    IF Count(tbl.coeffs) >= k * rows THEN {} ELSE Raise("ShardLength", 0)>>

(* Mutant: the tables are laid out by columns.                             *)
ec_init_tables_by_column(k, rows, coeffs, tbl) ==
  [tbl EXCEPT !.coeffs = [e \in DOMAIN tbl.coeffs |->
     IF e < k * rows THEN coeffs[(e % rows) * k + e \div rows] ELSE tbl.coeffs[e]]]

ec_init_tables(k, rows, coeffs, tbl) ==
  [tbl EXCEPT !.coeffs = [e \in DOMAIN tbl.coeffs |->
     IF e < k * rows THEN coeffs[e] ELSE tbl.coeffs[e]]]

(* gf_gen_rs_matrix(&mut a, m, k) or gf_gen_cauchy1_matrix(&mut a, m, k)   *)
Generate(construction, m, k) ==
  LET verdict == Verdict(gf_gen_checks(a, m, k))
  IN  /\ Returns(verdict)
      /\ IF verdict # Fine THEN UNCHANGED <<a, kind>>
         ELSE /\ kind' = construction
              /\ a' = IF construction = "rs" THEN gf_gen_rs_matrix(a, m, k)
                      ELSE gf_gen_cauchy1_matrix(a, m, k)
      /\ UNCHANGED <<gftbls, made, Untouched>>

ParityBlock(buf) == [e \in Upto(P * K) |-> buf[(K + Skip) * K + e]]

(* ec_init_tables(k, rows, &a[(k + skip) * k..], &mut gftbls): rows past   *)
(* those made keep the tables of another time.  The client starts over     *)
(* with a row whose tables change.                                         *)
InitTables(rows) ==
  LET block == ParityBlock(a)
      verdict == Verdict(ec_init_tables_checks(K, rows, block, gftbls))
      remade == {l \in Row : l < rows /\ made[l] # kind}
  IN  /\ kind # None
      /\ Returns(verdict)
      /\ IF verdict # Fine THEN UNCHANGED <<gftbls, made, Untouched>>
         ELSE /\ gftbls' = ec_init_tables(K, rows, block, gftbls)
              /\ made' = [l \in Row |-> IF l \in remade THEN kind ELSE made[l]]
              /\ coding' = [l \in Row |-> IF l \in remade THEN Zeroed(coding[l])
                                           ELSE coding[l]]
              /\ folded' = [l \in Row |-> IF l \in remade THEN NothingFolded(coding[l])
                                           ELSE folded[l]]
      /\ UNCHANGED <<a, kind>>
-----------------------------------------------------------------------------
(* Encode, update and the single-vector calls.                             *)

(* The first buffer shorter than len, reported at base + its index.        *)
AtLeast(list, len, base) ==
  LET short == {i \in DOMAIN list : Count(list[i]) < len}
  IN  IF short = {} THEN {} ELSE Raise("ShardLength", base + Min(short))

Exact(list, len) == \A i \in DOMAIN list : Count(list[i]) = len

Slice(list, n) == [i \in Upto(n) |-> list[i]]

(* &gftbls[n * 32..]                                                       *)
TablesFrom(tbl, n) ==
  [tbl EXCEPT !.coeffs = [e \in Upto(Count(tbl.coeffs) - n) |-> tbl.coeffs[n + e]]]

FirstTables(tbl, n) == [tbl EXCEPT !.coeffs = Slice(tbl.coeffs, n)]

(* The loops over buffers longer than len: zero and fold, or fold.  Mutant: *)
(* the whole buffer is zeroed.                                             *)
TrimmedEncodeZeroingAll(tbl, data, len, out) ==
  [l \in DOMAIN out |-> [q \in DOMAIN out[l] |->
     IF q >= len THEN {}
     ELSE XorAll(DOMAIN data,
                 [j \in DOMAIN data |-> Term(tbl, Count(data), l, j, data[j][q])])]]

TrimmedEncode(tbl, data, len, out) ==
  [l \in DOMAIN out |-> [q \in DOMAIN out[l] |->
     IF q >= len THEN out[l][q]
     ELSE XorAll(DOMAIN data,
                 [j \in DOMAIN data |-> Term(tbl, Count(data), l, j, data[j][q])])]]

(* Mutant: the product replaces the row.                                   *)
TrimmedUpdateOverwriting(tbl, k, i, src, len, out) ==
  [l \in DOMAIN out |-> [q \in DOMAIN out[l] |->
     IF q >= len THEN out[l][q] ELSE Term(tbl, k, l, i, src[q])]]

TrimmedUpdate(tbl, k, i, src, len, out) ==
  [l \in DOMAIN out |-> [q \in DOMAIN out[l] |->
     IF q >= len THEN out[l][q]
     ELSE XOR(out[l][q], Term(tbl, k, l, i, src[q]))]]

ec_encode_data_verdict(len, k, rows, tbl, data, out) ==
  LET checked == Verdict(<<ShardCount(data, k), AtLeast(data, len, 0),
                           ShardCount(out, rows), AtLeast(out, len, k),
                           IF Count(tbl.coeffs) >= rows * k THEN {}
                           ELSE Raise("ShardLength", 0)>>)
  IN  IF checked # Fine \/ ~(Exact(data, len) /\ Exact(out, len)) THEN checked
      ELSE Verdict(<<KernelAsserts(KernelSet, FirstTables(tbl, rows * k), data, out)>>)

ec_encode_data(len, k, rows, tbl, data, out) ==
  IF Exact(data, len) /\ Exact(out, len)
  THEN KernelEncode(FirstTables(tbl, rows * k), data, out)
  ELSE TrimmedEncode(tbl, data, len, out)

(* The rows an update folds before tbl_at finds no table for the next.     *)
TablesFound(tbl, k, i, rows) ==
  Cardinality({l \in Upto(rows) : \A h \in 0..l : h * k + i < Count(tbl.coeffs)})

ec_encode_data_update_checks(len, k, rows, i, src, out) ==
  <<IF i < k THEN {} ELSE Raise("ShardIndex", i),
    IF Count(src) >= len THEN {} ELSE Raise("ShardLength", i),
    ShardCount(out, rows), AtLeast(out, len, k)>>

ec_encode_data_update_verdict(len, k, rows, i, tbl, src, out) ==
  LET checked == Verdict(ec_encode_data_update_checks(len, k, rows, i, src, out))
      found == TablesFound(tbl, k, i, rows)
  IN  IF checked # Fine \/ found = rows THEN checked
      ELSE Verdict(<<Raise("ShardCount", found * k + i + 1)>>)

(* Exact buffers with tables up to the last row's go to the kernel.  The   *)
(* others are folded row by row, as far as tables are found.               *)
ec_encode_data_update(len, k, rows, i, tbl, src, out) ==
  LET last_table == (IF rows = 0 THEN 0 ELSE rows - 1) * k + i
      found == TablesFound(tbl, k, i, rows)
      folds == IF Count(src) = len /\ Exact(out, len) /\ Count(tbl.coeffs) > last_table
               THEN KernelUpdate(tbl, k, i, src, out)
               ELSE TrimmedUpdate(tbl, k, i, src, len, Slice(out, found))
  IN  [l \in DOMAIN out |-> IF l < found THEN folds[l] ELSE out[l]]

gf_vect_dot_prod_verdict(len, vlen, tbl, src, dest) ==
  LET checked == Verdict(<<ShardCount(src, vlen), AtLeast(src, len, 0),
                           IF Count(dest) >= len THEN {} ELSE Raise("ShardLength", 0),
                           IF Count(tbl.coeffs) >= vlen THEN {}
                           ELSE Raise("ShardCount", Count(tbl.coeffs))>>)
  IN  checked

gf_vect_dot_prod(len, vlen, tbl, src, dest) ==
  ec_encode_data(len, vlen, 1, tbl, src, [l \in {0} |-> dest])[0]

gf_vect_mad_verdict(len, vec, i, tbl, src, dest) ==
  Verdict(<<IF i < vec THEN {} ELSE Raise("ShardIndex", i),
            IF Count(src) >= len /\ Count(dest) >= len THEN {}
            ELSE Raise("ShardLength", i),
            IF i < Count(tbl.coeffs) THEN {} ELSE Raise("ShardCount", i + 1)>>)

gf_vect_mad(len, i, tbl, src, dest) ==
  [q \in DOMAIN dest |->
     IF q >= len THEN dest[q] ELSE XOR(dest[q], mul(tbl.coeffs[i], src[q]))]

gf_vect_mul_verdict(len, tbl, src, dest) ==
  Verdict(<<IF len % Unit = 0 THEN {} ELSE Raise("ShardLength", 0),
            IF Count(src) >= len /\ Count(dest) >= len THEN {}
            ELSE Raise("ShardLength", 0),
            IF Count(tbl.coeffs) > 0 THEN {} ELSE Raise("ShardCount", 1)>>)

gf_vect_mul(len, tbl, src, dest) ==
  [q \in DOMAIN dest |-> IF q >= len THEN dest[q] ELSE mul(tbl.coeffs[0], src[q])]

(* The core's own calls on one vector (core/src/kernel.rs) want exact      *)
(* lengths, and a table for each source.                                   *)
SameLength(src, dest) ==
  IF Count(src) = Count(dest) THEN {} ELSE Raise("ShardLength", 0)

vect_dot_prod_checks(dest, tbl, srcs) ==
  <<ShardCount(tbl.coeffs, Count(srcs)), ShardLength(srcs, Count(dest), 0)>>

vect_dot_prod(dest, tbl, srcs) == KernelEncode(tbl, srcs, [l \in {0} |-> dest])[0]

vect_mad(dest, c, src) == [q \in DOMAIN dest |-> XOR(dest[q], mul(c, src[q]))]

vect_mul(dest, c, src) == [q \in DOMAIN dest |-> mul(c, src[q])]
-----------------------------------------------------------------------------
(* The history of a row that was overwritten, up to len, by the sum over   *)
(* the sources of data; of one into which src was folded as source i.      *)
Overwritten(l, data, len) ==
  [j \in Upto(K) |-> [q \in DOMAIN coding[l] |->
     IF q < len THEN data[j][q] ELSE folded[l][j][q]]]

Added(l, i, src, len) ==
  [folded[l] EXCEPT ![i] = [q \in DOMAIN coding[l] |->
     IF q < len THEN XOR(folded[l][i][q], src[q]) ELSE folded[l][i][q]]]

OnlySource(i, src) ==
  [j \in Upto(K) |-> IF j = i THEN src ELSE [q \in DOMAIN src |-> {}]]

Buffer == <<a, kind, gftbls, made>>

(* The client zeroes its parity.                                           *)
Zero ==
  /\ coding' = [l \in Row |-> Zeroed(coding[l])]
  /\ folded' = [l \in Row |-> NothingFolded(coding[l])]
  /\ failed' = FALSE
  /\ UNCHANGED Buffer

(* ec_encode_data(len, k, rows, &gftbls, data, &mut coding[..n])           *)
EncodeData(len, k, rows, data, n) ==
  LET out == Slice(coding, n)
      verdict == ec_encode_data_verdict(len, k, rows, gftbls, data, out)
      written == ec_encode_data(len, k, rows, gftbls, data, out)
  IN  /\ Returns(verdict)
      /\ IF verdict # Fine THEN UNCHANGED Untouched
         ELSE /\ coding' = [l \in Row |-> IF l < n THEN written[l] ELSE coding[l]]
              /\ folded' = [l \in Row |-> IF l < n THEN Overwritten(l, data, len)
                                          ELSE folded[l]]
      /\ UNCHANGED Buffer

(* ec_encode_data_update(len, k, rows, i, &gftbls, src, &mut coding[..n])  *)
UpdateData(len, rows, i, src, n) ==
  LET out == Slice(coding, n)
      checked == Verdict(ec_encode_data_update_checks(len, K, rows, i, src, out))
      verdict == ec_encode_data_update_verdict(len, K, rows, i, gftbls, src, out)
      written == ec_encode_data_update(len, K, rows, i, gftbls, src, out)
      found   == TablesFound(gftbls, K, i, rows)
  IN  /\ Returns(verdict)
      /\ IF checked # Fine THEN UNCHANGED Untouched
         ELSE /\ coding' = [l \in Row |-> IF l < n THEN written[l] ELSE coding[l]]
              /\ folded' = [l \in Row |-> IF l < found THEN Added(l, i, src, len)
                                          ELSE folded[l]]
      /\ UNCHANGED Buffer

(* The three calls on one row, with the tables from the row's first on.    *)
RowTables(l) == TablesFrom(gftbls, Min({l * K, Count(gftbls.coeffs)}))

WriteRow(l, verdict, row, history) ==
  /\ Returns(verdict)
  /\ IF verdict # Fine THEN UNCHANGED Untouched
     ELSE /\ coding' = [coding EXCEPT ![l] = row]
          /\ folded' = [folded EXCEPT ![l] = history]
  /\ UNCHANGED Buffer

DotProd(l, len, data) ==
  WriteRow(l,
    gf_vect_dot_prod_verdict(len, K, RowTables(l), data, coding[l]),
    gf_vect_dot_prod(len, K, RowTables(l), data, coding[l]),
    Overwritten(l, data, len))

Mad(l, len, i, src) ==
  WriteRow(l,
    gf_vect_mad_verdict(len, K, i, RowTables(l), src, coding[l]),
    gf_vect_mad(len, i, RowTables(l), src, coding[l]),
    Added(l, i, src, len))

Mul(l, len, i, src) ==
  LET tbl == TablesFrom(gftbls, Min({l * K + i, Count(gftbls.coeffs)}))
  IN  WriteRow(l, gf_vect_mul_verdict(len, tbl, src, coding[l]),
               gf_vect_mul(len, tbl, src, coding[l]),
               Overwritten(l, OnlySource(i, src), len))

(* The same calls through the core; the client passes tables it has.       *)
Whole(l) == Count(coding[l])

VectDotProd(l, data) ==
  LET tbl == FirstTables(RowTables(l), K)
  IN  /\ (l + 1) * K <= Count(gftbls.coeffs)
      /\ WriteRow(l, Verdict(vect_dot_prod_checks(coding[l], tbl, data)),
                  vect_dot_prod(coding[l], tbl, data), Overwritten(l, data, Whole(l)))

VectMad(l, i, src) ==
  /\ l * K + i < Count(gftbls.coeffs)
  /\ WriteRow(l, Verdict(<<SameLength(src, coding[l])>>),
              vect_mad(coding[l], RowTables(l).coeffs[i], src), Added(l, i, src, Whole(l)))

VectMul(l, i, src) ==
  /\ l * K + i < Count(gftbls.coeffs)
  /\ WriteRow(l, Verdict(<<SameLength(src, coding[l])>>),
              vect_mul(coding[l], RowTables(l).coeffs[i], src),
              Overwritten(l, OnlySource(i, src), Whole(l)))

Next ==
  \/ \E construction \in {"rs", "cauchy"}, m \in {K - 1, M, M + 1} :
       Generate(construction, m, K)
  \/ \E rows \in 1..(P + 1) : InitTables(rows)
  \/ Zero
  \/ \E n \in 0..P : \E rows \in {n, P}, len \in Lens :
       \/ \E data \in DataLists : EncodeData(len, K, rows, data, n)
       \/ \E src \in Sources, i \in 0..K : UpdateData(len, rows, i, src, n)
  \/ \E l \in Row, len \in Lens, data \in DataLists : DotProd(l, len, data)
  \/ \E l \in Row, len \in Lens, src \in Sources, i \in Upto(K) :
       Mad(l, len, i, src) \/ Mul(l, len, i, src)
  \/ \E l \in Row, data \in DataLists : VectDotProd(l, data)
  \/ \E l \in Row, src \in Sources, i \in Upto(K) : VectMad(l, i, src) \/ VectMul(l, i, src)

Spec == Init /\ [][Next]_vars
-----------------------------------------------------------------------------
(* The coding matrix of the typed API for the construction a row's tables  *)
(* were made from.                                                         *)
TypedRs     == vandermonde(K, Skip + P)
TypedCauchy == cauchy(K, Skip + P).ok

Coefficient(l, j) ==
  IF made[l] = None THEN {}
  ELSE (IF made[l] = "rs" THEN TypedRs ELSE TypedCauchy).at[K + Skip + l][j]

(* Through any sequence of calls - matrices regenerated, tables remade for *)
(* some rows, updates in any order and of any number of rows, calls that   *)
(* failed half way, buffers longer than the stripe - each byte of each row *)
(* is what the typed coder over the same construction gives for what has   *)
(* been folded into that byte: the kernels and the trimmed loops agree,    *)
(* and bytes past len are never touched.  (isal.rs:14 "exactly len bytes   *)
(* are processed".)                                                        *)
RowsTrackFolds ==
  \A l \in Row :
    \A q \in DOMAIN coding[l] :
      coding[l][q] = XorAll(Upto(K),
        [j \in Upto(K) |-> mul(Coefficient(l, j), folded[l][j][q])])

(* A call that returns an error, or panics, has changed no buffer, except  *)
(* an update that ran out of tables: that one has folded its source into   *)
(* the first rows, stopped, and left the others as they were.  (The `?` in *)
(* the loop of ec_encode_data_update.)                                     *)
ErrorFoldsPrefix ==
  [][failed' =>
       \E n \in Row :
         /\ \A l \in Row : l >= n => coding'[l] = coding[l]
         /\ n > 0 => \E i \in Upto(K), len \in Lens, src \in Sources :
              \A l \in Row : l < n =>
                coding'[l] = [q \in DOMAIN coding[l] |->
                  IF q >= Min({len, Count(src)}) THEN coding[l][q]
                  ELSE XOR(coding[l][q], mul(Coefficient(l, i), src[q]))]]_vars

(* Stripes whose rows hold the same folds can be repaired through this     *)
(* layer: for any K survivors, inverting their rows with gf_invert_matrix, *)
(* expanding a row of the inverse with ec_init_tables and applying it with *)
(* gf_vect_dot_prod gives back what was folded in for that source; the     *)
(* inversion returns no error, and leaves the identity in its input.       *)
InStep == \A l \in Row : folded[l] = folded[0]

Kept == Upto(M) \ K..(K + Skip - 1)

Shard(s) == IF s < K THEN folded[0][s] ELSE coding[s - K - Skip]

DecodeReturnsSources ==
  kind # None /\ InStep /\ (\A l \in Row : made[l] = kind) =>
    \A lost \in kSubset(P, Kept) :
      LET survivors == Smallest(Kept \ lost, K)
          b   == Flat(K, K, LAMBDA r, c : a[survivors[r] * K + c])
          d   == gf_invert_matrix(b, Flat(K, K, LAMBDA r, c : {}), K)
          len == Count(coding[0])
      IN  /\ d.verdict = Fine
          /\ d.in = Flat(K, K, Delta)
          /\ \A r \in Upto(K) :
               LET row == [c \in Upto(K) |-> d.out[r * K + c]]
                   tbl == ec_init_tables(K, 1, row, FirstTables(gftbls, K))
               IN  gf_vect_dot_prod(len, K, tbl,
                     [t \in Upto(K) |-> Shard(survivors[t])], Zeroed(coding[0]))
                     = folded[0][r]

=============================================================================
