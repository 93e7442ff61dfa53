----------------------------- MODULE KernelWalk -----------------------------
(***************************************************************************)
(* One call of a SIMD kernel set: encode, update or mad (accel/src/x86.rs; *)
(* aarch64.rs and wasm.rs have the nibble walk again).  The safe wrapper   *)
(* asserts the shape of its arguments, then cuts the output rows into      *)
(* groups; a group walks the stripe in chunks of several vectors, then of  *)
(* fewer, and ends with a scalar tail.  The loads, stores and table reads  *)
(* of a chunk are unchecked pointer accesses.                              *)
(*                                                                         *)
(* What matters of a byte is what was added up in it: a set of terms, each *)
(* a table, a source and a position in it; adding a term again removes it. *)
(* MulShift has shown what one table and one byte give.                    *)
(***************************************************************************)
EXTENDS Integers, FiniteSetsExt

CONSTANTS
  Lane,    (* bytes in a vector: 32 for AVX2 and GFNI, 16 for the others   *)
  Calls    (* the calls: records of the operation, the table format, the   *)
           (* number k of sources, the updated source i, the number of     *)
           (* rows, the length of each source and row, the tables held     *)

(* The sources a call reads.                                               *)
Used(c) == IF c.op = "encode" THEN 0..(c.k - 1) ELSE {c.i}

Rows(c) == 0..(c.rows - 1)

ASSUME WalkAssumption ==
  /\ Lane \in Nat \ {0}
  /\ \A c \in Calls :
       /\ c.op \in {"encode", "update", "mad"}
       /\ c.affine \in BOOLEAN
       /\ c.k \in Nat /\ c.i \in Nat /\ c.rows \in Nat /\ c.tables \in Nat
       /\ c.srcLen \in [Used(c) -> Nat]
       /\ c.outLen \in [Rows(c) -> Nat]
       /\ c.op = "mad" => c.k = 1 /\ c.i = 0 /\ c.rows = 1

VARIABLES
  call,    (* the call's arguments                                         *)
  phase,   (* called, groups, chunks, done or panic                        *)
  row,     (* the first row of the group                                   *)
  width,   (* vectors in a chunk of the current loop, 0 in the tail        *)
  at,      (* the loop's i: bytes of the group done                        *)
  out      (* the output rows                                              *)

vars == <<call, phase, row, width, at, out>>

Was == <<-1, -1, -1>>     (* what a byte held before the call *)

Init ==
  /\ call \in Calls
  /\ phase = "called"
  /\ row = 0
  /\ width = 0
  /\ at = 0
  /\ out = [l \in Rows(call) |-> [q \in 0..(call.outLen[l] - 1) |-> {Was}]]
-----------------------------------------------------------------------------
(* The wrappers' assertions.  Mutant: the sources' lengths are not asserted. *)
check_encode_unmeasured(c) ==
  LET len == IF c.rows = 0 THEN 0 ELSE c.outLen[0]
  IN  /\ c.tables >= c.rows * c.k
      /\ \A l \in Rows(c) : c.outLen[l] = len

check_encode(c) ==
  LET len == IF c.rows = 0 THEN 0 ELSE c.outLen[0]
  IN  /\ c.tables >= c.rows * c.k
      /\ \A j \in Used(c) : c.srcLen[j] = len
      /\ \A l \in Rows(c) : c.outLen[l] = len

check_update(c) ==
  /\ c.i < c.k
  /\ c.tables >= (IF c.rows = 0 THEN 0 ELSE c.rows - 1) * c.k + c.i + 1
  /\ \A l \in Rows(c) : c.outLen[l] = c.srcLen[c.i]

check_mad(c) == c.tables = 1 /\ c.srcLen[0] = c.outLen[0]

Accepted(c) ==
  \/ c.op = "encode" /\ check_encode(c)
  \/ c.op = "update" /\ check_update(c)
  \/ c.op = "mad" /\ check_mad(c)

Validate ==
  /\ phase = "called"
  /\ phase' = IF Accepted(call) THEN "groups" ELSE "panic"
  /\ UNCHANGED <<call, row, width, at, out>>
-----------------------------------------------------------------------------
(* Row groups.  GFNI encodes of one to four sources keep a whole group's   *)
(* matrices in eight registers, so those groups have two rows.             *)
InRegisters(c) == c.op = "encode" /\ c.affine /\ c.k \in 1..4

(* Mutant: those groups are as large as the others.                        *)
RowCapUniform(c) == IF c.affine THEN 8 ELSE 4

RowCap(c) == IF InRegisters(c) THEN 2 ELSE IF c.affine THEN 8 ELSE 4

Group == Min({call.rows - row, RowCap(call)})

(* The rows the kernel instantiated for a group of g works on: the match   *)
(* on g has an arm for 2 up to the cap and one for the rest.               *)
Fused(c, g) == IF g \in 2..RowCap(c) THEN g ELSE 1

(* Vectors per chunk of a group's main loop.                               *)
MainWidth(c, g) ==
  CASE c.op # "encode"                           -> 1
    [] c.op = "encode" /\ ~c.affine              -> 2
    [] InRegisters(c)                            -> 1
    [] c.op = "encode" /\ c.affine /\ ~InRegisters(c) ->
         IF g >= 5 THEN 1 ELSE IF g >= 3 THEN 2 ELSE 4

BeginGroup ==
  /\ phase = "groups"
  /\ row < call.rows
  /\ phase' = "chunks"
  /\ width' = MainWidth(call, Group)
  /\ at' = 0
  /\ UNCHANGED <<call, row, out>>

Return ==
  /\ phase = "groups"
  /\ row >= call.rows
  /\ phase' = "done"
  /\ UNCHANGED <<call, row, width, at, out>>
-----------------------------------------------------------------------------
(* The table for row l and source j.  An encode group is handed the slice  *)
(* of the tables that begins at its first row.  Mutant: the whole buffer.  *)
TableUnsliced(l, j) == (l - row) * call.k + j

Table(l, j) ==
  IF call.op = "encode" THEN row * call.k + ((l - row) * call.k + j)
  ELSE l * call.k + j

Product(l, j, q) == <<Table(l, j), j, q>>

(* What a kernel leaves in byte q of row l: an encode the sum of the       *)
(* products, the others what was there plus one product.                   *)
Stored(l, q) ==
  IF call.op = "encode" THEN {Product(l, j, q) : j \in Used(call)}
  ELSE SymDiff(out[l][q], {Product(l, call.i, q)})

(* The first n rows of the group are stored from at up to byte to.         *)
Store(n, to) ==
  [l \in Rows(call) |->
     [q \in 0..(call.outLen[l] - 1) |->
        IF l \in row..(row + n - 1) /\ q \in at..(to[l] - 1)
        THEN Stored(l, q) ELSE out[l][q]]]

(* The length a group walks: an update its source's, the others that of    *)
(* the first row.                                                          *)
Length == IF call.op = "update" THEN call.srcLen[call.i] ELSE call.outLen[row]

Fits == at + width * Lane <= Length

(* Mutant: a chunk of several vectors counts as one.                       *)
ChunkCountedOne ==
  /\ phase = "chunks"
  /\ width > 0
  /\ Fits
  /\ out' = Store(Fused(call, Group), [l \in Rows(call) |-> at + width * Lane])
  /\ at' = at + Lane
  /\ width' = IF width = MainWidth(call, Group) THEN width ELSE width \div 2
  /\ UNCHANGED <<call, phase, row>>

(* One chunk; only the main loop repeats.                                  *)
Chunk ==
  /\ phase = "chunks"
  /\ width > 0
  /\ Fits
  /\ out' = Store(Fused(call, Group), [l \in Rows(call) |-> at + width * Lane])
  /\ at' = at + width * Lane
  /\ width' = IF width = MainWidth(call, Group) THEN width ELSE width \div 2
  /\ UNCHANGED <<call, phase, row>>

NextLoop ==
  /\ phase = "chunks"
  /\ width > 0
  /\ ~Fits
  /\ width' = width \div 2
  /\ UNCHANGED <<call, phase, row, at, out>>

(* Mutants: the next group begins a full group further on; the row index   *)
(* is not advanced.                                                        *)
TailByCap ==
  /\ phase = "chunks"
  /\ width = 0
  /\ out' = Store(Group, call.outLen)
  /\ row' = row + RowCap(call)
  /\ phase' = "groups"
  /\ UNCHANGED <<call, width, at>>

TailAgain ==
  /\ phase = "chunks"
  /\ width = 0
  /\ out' = Store(Group, call.outLen)
  /\ phase' = "groups"
  /\ UNCHANGED <<call, row, width, at>>

(* The scalar tail, and on to the next group.                              *)
Tail ==
  /\ phase = "chunks"
  /\ width = 0
  /\ out' = Store(Group, call.outLen)
  /\ row' = row + Group
  /\ phase' = "groups"
  /\ UNCHANGED <<call, width, at>>

Next == Validate \/ BeginGroup \/ Return \/ Chunk \/ NextLoop \/ Tail

Spec == Init /\ [][Next]_vars /\ WF_vars(Next)
-----------------------------------------------------------------------------
(* Groups never pass the last row and chunks are of 1, 2 or 4 vectors.     *)
TypeOK ==
  /\ phase \in {"called", "groups", "chunks", "done", "panic"}
  /\ row \in 0..call.rows
  /\ width \in {0, 1, 2, 4}
  /\ at \in Nat
  /\ \A l \in Rows(call) : DOMAIN out[l] = 0..(call.outLen[l] - 1)

(* Every pointer access of the chunk about to run is inside its slice, for *)
(* every source, row and table, also of a call that broke the contract;    *)
(* the kernel chosen works on the rows of its group, and the registers set *)
(* aside for its matrices hold them.  (The SAFETY comments in x86.rs.)     *)
AccessesInBounds ==
  phase = "chunks" /\ width > 0 =>
    /\ Fits => /\ \A j \in Used(call) : at + width * Lane <= call.srcLen[j]
               /\ \A l \in row..(row + Group - 1) :
                    at + width * Lane <= call.outLen[l]
    /\ \A l \in row..(row + Group - 1), j \in Used(call) :
         Table(l, j) \in 0..(call.tables - 1)
    /\ Fused(call, Group) = Group
    /\ InRegisters(call) => call.k * Group <= 8

(* The kernel contract (kernel.rs) for byte q of row l.                    *)
Contract(l, q) ==
  IF call.op = "encode" THEN {<<l * call.k + j, j, q>> : j \in Used(call)}
  ELSE {Was, <<l * call.k + call.i, call.i, q>>}

Written(l, q) == l < row \/ (phase = "chunks" /\ l < row + Group /\ q < at)

(* Group by group and chunk by chunk, every byte so far passed has been    *)
(* stored exactly once and no other byte has been touched.                 *)
StoredOnce ==
  \A l \in Rows(call) : \A q \in DOMAIN out[l] :
    out[l][q] = IF Written(l, q) THEN Contract(l, q) ELSE {Was}

(* A call that returns has met the contract on every byte of every row; a  *)
(* call that panics has changed nothing.                                   *)
ContractMet ==
  \A l \in Rows(call) : \A q \in DOMAIN out[l] :
    /\ phase = "done" => out[l][q] = Contract(l, q)
    /\ phase = "panic" => out[l][q] = {Was}

(* Every call ends.                                                        *)
Returns == <>(phase \in {"done", "panic"})

=============================================================================
