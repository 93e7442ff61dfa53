# A TLA+ model of rusty_erasure

rusty_erasure is a Reed-Solomon erasure coder over GF(2^8) in Rust: a safe core,
SIMD kernels that must give the same bytes, RAID P+Q parity, and layers that
look like other libraries. This directory holds TLA+ modules of it, the TLC
configurations that check them on small instances, and theorems about them
checked by TLAPS. Paths below are relative to the repository; `core`, `accel`,
`facade` and `cli` stand for `crates/rusty_erasure-core/src`,
`crates/rusty_erasure-accel/src`, `crates/rusty_erasure/src` and
`crates/rusty_erasure-cli/src`.

- [Inventory](#inventory) - the system's parts and what makes each correct
- [Modules](#modules) - which module models which part, and how
- [Runs](#runs) - what each run checks, its bounds and why they are enough
- [Proofs](#proofs) - what is proved, from what, and along which argument
- [Findings](#findings) - where the code and its documentation disagree
- [Not modelled](#not-modelled)
- [Plan](#plan) - what could come next

## Inventory

| Part | State it keeps | Operations | Correct when |
|---|---|---|---|
| GF(2^8) `core/gf.rs` | none; constant EXP/LOG tables | `mul`, `inv`, `double`, `mul_shift` | the tables are the field's |
| Expanded tables `core/tables.rs` | none; constant AFFINE table | `mul_table32`, `init_tables`, `build_affine` | a table multiplies as its coefficient does |
| Matrices `core/matrix.rs`, `facade/lib.rs` compat | a byte matrix | `reed_solomon`, `cauchy`, `from_bytes`, `reed_solomon_erasure_matrix`, `select_rows`, `multiply`, `invert` | every selection of k rows is invertible and its inverse is one |
| Coder `core/encode.rs` | matrix, kernel set, tables; a `DecodePlan` is a value of the client's | `encode`, `update`, `verify`, `decode_plan`, `recover_with`, `recover` | parity is the encoding of what went in; what is rebuilt is what was lost; misuse is an error |
| Kernel sets `core/kernel.rs` | - | `encode`, `update`, `mad`, `init`, the functions on one vector | every set meets one contract |
| SIMD kernels `accel/{x86,aarch64,wasm,tail}.rs` | the buffers during a call | the same | every byte is written once, nothing outside the slices is touched |
| RAID parity `core/raid.rs` and its kernels | none | `xor_gen`, `pq_gen`, `xor_check`, `pq_check` | damage is found and named in order |
| Dispatch `accel/lib.rs`, `accel/x86.rs`, `facade/lib.rs` | `OnceLock`s holding a function of the CPU | `kernels`, `kernels_nibble`, `kernels_named`, `raid_kernels` | the CPU can run what is chosen, and what is chosen reads its callers' tables |
| Facade `facade/lib.rs` | none | constructors, `raid`, `census::read` | its guards imply the kernels' assertions |
| ISA-L layer `facade/isal.rs` | none; matrix, table and parity buffers are the caller's | `gf_gen_*`, `gf_invert_matrix`, `ec_init_tables`, `ec_encode_data`, `..._update`, `gf_vect_*` | it gives the bytes of the typed coder, and an error leaves a state one can name |
| Census `core/census64.rs` | two counters, shared by all threads | add, read | no count is lost; a sample is one the counters passed |
| CLI `cli/main.rs` | worker threads of the striped benchmark | census, bench | every stripe is encoded once per round; DEFECT means a defect; it ends |

A client calls the facade or the core; the coder builds its matrix and tables
once, checks the arguments of every call and hands slices to its kernel set
through function pointers. Every kernel first adds its source bytes to the
census counter of its family. Nothing is persisted and nothing calls back. A
coder is immutable and may be shared between threads; the counters of the census
and the `OnceLock`s of the dispatch are the only mutable shared state. The only
threads the repository starts are those of the tool's benchmark.

What is hard here is

- **sequences of calls** by a client that keeps plans, parity, table buffers and
  rebuilt shards over time: retries, reordered and partial updates, plans that
  outlive the loss they were made for or come from another coder, repairs made
  from repairs, tables made from a matrix that has been overwritten;
- **arithmetic identities** that a wrong index breaks for few inputs only: row
  swaps in the inversion, bit orders of the affine format, borrows between the
  lanes of a word, singular selections of survivors;
- **chunked walks** with unchecked pointers: row groups, loops of four, two and
  one vectors, and a tail, for every length;
- **guards in layers**: typed errors in the core, assertions in the kernels, the
  facade's own look at the arguments, the ISA-L layer's checks row by row;
- **shared counters** read one after the other while other threads add to them.

`PROJECT.json` lists each hazard at its line with the properties that would
catch it going wrong.

## Modules

```
GF -- Tables -- MulShift ----------------.
 |--- Matrix -- Inversion ---------------|--------- InversionProofs
 |       `----- Coder -- CoderProofs ----|
 |                |----- Parity ---------|--------- ParityProofs
 |                |----- Recovery -------|--------- RecoveryProofs
 |                |       (implements ErasureStore)
 |                `----- Isal -----------|--------- IsalProofs
 |       KernelWalk ---------------------|--------- KernelProofs
 `------ Raid, RaidFold, RaidWalk -------'--------- RaidProofs
Dispatch -- Pool ---------------------------------- PoolProofs
```

`CoderProofs` is extended by every other proof module but `PoolProofs`. A module
that is proved about together with another one has names of its own for its
specification: `MulShiftSpec`, `FoldSpec`, `StripeSpec`.

A byte is the set of its 1 bits, so XOR is symmetric difference, a sum is a
parity count, and a field of any size is given by its number of `Bits` and its
reduction polynomial `Poly`. `MulShift`, `Inversion` and `RaidFold` run on the
code's own field, GF(2^8) with 0x11d. The others are parameterised by the
field: their subject is the algebra of rows and shards, which is the same in
GF(4) and GF(8), where TLC can go through every value. A buffer of n bytes is a
function on 0..n-1.

**GF** (`core/gf.rs`): `double`, `EXP`, `LOG`, `mul`, `inv`, built the way the code builds
its tables. `Poly = {0, 2, 3, 4}` is 0x1d.

**Tables** (`core/tables.rs`, and the coefficient recovery in `accel/x86.rs`): both
expanded formats, the 32-byte nibble tables and the 8-byte bit matrix of
GF2P8AFFINEQB. The instruction itself is external, modelled from how the
kernels use it.

**MulShift** (`gf::mul_shift`): the loop as a state machine, one iteration a step, from
every pair of operands.

**Matrix** (`core/matrix.rs`, and `compat` of `facade/lib.rs`): the three
constructions with their dimension checks, `from_bytes`, selection, product, and
the inversion as a function built from `Pivot`, `Scale` and `Eliminate`; a column without a pivot ends it.
**Inversion** is one call of `invert_gauss_jordan`, phase by phase: `KeepRow`,
`SwapPivot`, `ReportSingular`, `ScalePivotRow`, `EliminateColumn`. It starts
from matrices of the client's and from every selection of survivors' rows of the
encode matrices `reed_solomon` does not refuse. It shares its row operators with
`Matrix`, and `CallAgrees` ties the two together.

**Coder** (`core/encode.rs` over the contract in `core/kernel.rs`): each operation is a
verdict - its checks in the order of the code, the first failing one wins - and what it writes when
the verdict is fine. A kernel set is a table format and whether it is one of
the SIMD sets, whose wrappers assert (panic) on what the contract demands.

**Parity**: a client of `encode`, `update` and `verify`. The history variable
`folded` is what has been folded into the parity for each source since it was
zeroed. The client may overwrite sources, fold in any order, fold twice, fold a
difference, pass too few buffers, or buffers of uneven lengths.

**Recovery**: a client that holds a stripe in slots, loses shards, plans,
recovers and puts the result back. It composes `decode_plan`, `recover_with`
and `recover`; a plan is kept across losses, repairs and stripes, and may come
from a coder of the same matrix on another kernel set. `EncodeMatrix` is any
matrix that passes its sources through. The variable `coders` never changes: a
coder is built once.
**ErasureStore** is what the recovery path promises, with no field or plan in it:
asked for shards, it returns the truth or refuses. `Recovery!KeepsPromise` is the refinement:
`value <- stripe`, `held <- slots`, `answer <-` the output of a recovery that
succeeded.

**Isal** (`facade/isal.rs`, and the functions on one vector in `core/kernel.rs`):
a client of the ISA-L layer that keeps the matrix, table and parity buffers
itself. It regenerates the matrix, remakes the tables of some rows, encodes,
updates and folds, with a table buffer that may be too short and parity rows
that may be longer than `len`. Buffers of exactly the stripe's length go to a
kernel, longer ones to the layer's own loop. The history variables say which
matrix a row's tables were made from and what has been folded into the row. Recovery by hand goes through
`gf_invert_matrix`, which checks its buffers and returns a verdict and what it leaves in both.

**KernelWalk** (`accel/x86.rs`, `aarch64.rs`, `wasm.rs`, `tail.rs`): one call of
an encode, update or mad kernel: `Validate` (the wrapper's assertions), then for each row group
`BeginGroup`, `Chunk` (a chunk of 4, 2 or 1 vectors), `NextLoop`, `Tail`. The
data of a byte is the set of the products added to it, each named by table,
source and position; a product added twice cancels, as it does in the field. So `StoredOnce` sees a wrong
table index, a wrong source, a byte skipped and a byte folded twice. The
architectures differ in `Lane`, in the sizes of groups, and in the widths of
their loops, all of which are in the model.

**RaidFold** (`gf2_mul2_lanes` and the recurrence of `pq_gen`): one word of
lanes, one source a step, with the shift, the masks and the subtraction that
wraps. **RaidWalk**: one generation through the facade, the core or a kernel itself
- `Dispatch`, `CheckInCore`, `AssertInKernel`, then `Chunk`, `NextLoop`,
`ScalarTail` - with a byte as the set of `<<source, doublings, position>>`.
**Raid**: a client that overwrites sources or parity behind the library's back,
renews P alone or both, and checks; it may pass too few vectors, its vectors are equally long. The two checks go word by word and then
byte by byte.

**Dispatch** (`accel/lib.rs`, `accel/x86.rs`, `facade/lib.rs`): every way to
choose a kernel set, as a function of the machine: its architecture, its CPU
features, whether the SIMD code is compiled in and whether it has 64-bit
atomics. A `OnceLock` keeps what such a function returned and is left out.

**Pool** (`cli/main.rs`, `core/census64.rs`, `facade/lib.rs` census): one
process on one machine with one command line. The main thread parses nothing but
does everything else of the census and bench verbs: `Start` chooses the set,
`Spawn` starts a thread per chunk of stripes, `Join` waits for them, `Conclude`,
`Load` and `Report` read the census and give the exit code. A call of a kernel is
two steps, `Begin` (the bytes are counted) and `Finish` (the work is done). Two
threads an embedding application may have share the counters: an observer that
reads the census, and a guest that makes one call through the ISA-L layer. The tool's
binary has neither - its census verb runs on one thread - so the model has more
behaviours than it; the tool's own are those in which both stay idle.

`MC*.tla` hold the values of the constants for TLC. Operators under a comment
that begins "Mutant" are plausible mistakes in the operator below them; no
specification uses them. `PROJECT.json` says which property each one violates.

## Runs

| Run | Question | States |
|---|---|---|
| `mul_shift` | Do the loop, EXP/LOG, the nibble tables and the bit matrices describe one product? All pairs of bytes | 524,544 |
| `inversion` | Does elimination invert? Every pattern of zero pivots and every rank; and is no selection of survivors singular inside the safe region? | 238,914 |
| `parity_shapes` | Is parity what was folded in, through every shape of call? | 3,513 |
| `recovery` | Is what is rebuilt the truth, for all selections of survivors, kept and foreign plans, shapes of buffers and lists? | 42,935 |
| `isal` | Does the ISA-L layer give the typed coder's bytes, through every history of its buffers? | 7,792 |
| `kernel_walk` | Is every byte stored once and inside its slice? | 8,201 |
| `raid_walk` | The same for RAID generation, and do the facade's guards suffice? | 6,247 |
| `raid_fold` | Do the lanes of a word stay apart? All 65,536 words | 196,608 |
| `raid` | Which damage do the checks find, and what do they name? | 724,986 |
| `pool` | Do the threads do their work, and does the census tell the truth, on every machine? | 319,262 |
| `empty_rebuild`, `stale_plan_report` | violations, see [Findings](#findings) | |

What the properties say, and why they could fail:

- `LoopMatchesTables`, `NibbleTableMultiplies`, `AffineMatrixMultiplies`: four independent
  definitions of the product agree; the last one also finds the coefficient back
  in its matrix, as the tail of the GFNI kernels does. `DivisionUndoesProduct`: EXP and LOG
  enumerate the group.
- `InverseTracksWork` (partial inverse times input = reduced matrix),
  `PassedColumnsReduced`, `SingularHasKernel`
  (an error only for a matrix that maps some vector to zero), `CallAgrees`.
  `SafeRegionHolds`: `vandermonde_safe` lets no matrix through that has a
  singular selection.
- `ParityTracksFolds`: whatever the order, repetition and pieces of updates, the
  parity is the encoding of what was folded in. `VerifyAnswer`: yes for current
  parity, and never with 1 to P stale sources; more may cancel (with the two sources of
  the run there are never more than P; the theorems are for any number).
- `SlotsTruthful`, `RecoveredIsOriginal`: no wrong byte is ever returned or
  planted. `AnyKSuffice`: any K shards recover everything, fewer are reported with their
  number. `PlanNeedsItsSurvivors`: a plan works exactly as long as its survivors
  are there; one with tables of a shorter format panics and writes nothing. `KeepsPromise`: all of it as a refinement.
- `RowsTrackFolds`: every byte of every row is what the typed coder gives for
  what was folded into that byte, through either path, and bytes past `len` stay.
  `ErrorFoldsPrefix`: a call that returns an error has changed nothing, except
  the update that runs out of tables, which has folded exactly the rows before.
  `DecodeReturnsSources`: recovery by hand - select, invert, expand, multiply -
  returns the sources for every loss.
- `AccessesInBounds`, `StoredOnce`, `ContractMet`: as above, also for calls that break the
  contract by a byte or a table: they panic before the first store.
- `NeverPanicsFromFacade`: misuse of the facade's RAID calls is an error.
- `LanesIndependent`: in each lane, Q is the sum of 2^j times source j.
- `PqCheckNamesDamage`: one or two damaged vectors at a position never hide;
  the first damaged position is named, and Q only when P agrees.
  `XorCheckSeesDamage`: one damaged vector at a position never hides.
- `CountsExact`: no addition is lost, and none goes to the wrong family, under any interleaving.
  `SampleBracketed`: what a reader gets lies between the counters at the start
  and at the end of its read - the pair itself may never have existed.
  `DefectIsReal`: exit code 1 only if bytes did take scalar kernels, 0 with live
  counters only if none had. `StripesOnce`: chunks of `div_ceil` give every stripe to
  one worker, `--reps` times. `SetsFit`: no way to choose a set leads to an instruction
  the CPU lacks, or to tables the set misreads. `Finishes`: the tool exits.

**Bounds.**

- Fields. The code needs k + p different nonzero elements
  (`check_dims`), so two sources with two parity shards need GF(8)
  (`parity_shapes`, `isal`). The matrix of `reed_solomon_erasure_matrix` is allowed one
  shard more than that: `recovery` runs at that limit, four shards in GF(4),
  where a selection would first be singular.
- `inversion`. 3x3 matrices whose coefficients are in a subfield of four elements, every
  second one 0 or 1: they reach every branch at every column. The safe region's edges
  taken are (k, p) = (4, 21) and (5, 5), with (4, 22) and (5, 6), which the code
  refuses. The edge at 21 sources has 12,650 selections of 21 rows and is not
  enumerated; nor are the shapes with at most three parity rows or three sources,
  of which there are many. These are proved (`SafeRegion`), and what is proved leaves just
  the (5, 5) this run goes through.
- `Length` 0 and 1 for stripes: bytes of a stripe are independent in the coder. Where position
  matters (`Isal`, `KernelWalk`, `RaidWalk`, `Raid`) buffers are longer. In the walks `Lane = 2`
  stands for 16 or 32 bytes: lengths reach just below, at and above one chunk
  of every loop, so each loop runs zero times, once and, all but the widest of
  `KernelWalk`, several times. Row
  counts reach one above the largest group of 8; sources cover both sides of the
  register limit of 4.
- `isal`. `Unit = 2` stands for the 32 bytes `gf_vect_mul` wants a multiple of;
  buffers of two and three bytes are on both sides of it. `Skip = 1` takes the
  second and third parity row: the first of a Vandermonde matrix is all ones,
  and the first two of a Cauchy matrix are symmetric, which hides a transposed index.
- `MaxWrites = 3` is the number of damages at which a
  mismatch may first hide from `pq_check`; words of two bytes in vectors of
  three leave one byte for the tail. `N` of `Raid` may be at most the order of the generator 2 (255 in
  the code): beyond it the powers of 2 repeat and two damaged sources can cancel
  in P and in Q, in the code as in the model.
- `pool`. Up to `MaxWorkers = 3` threads and three stripes: even, uneven and too few chunks,
  none at all. `CensusCalls = 3` stands for the 200 encodes and the recovery of the
  census verb, which are alike to the counters. The guest makes one call of one byte: it is enough
  to make a sample torn or a set look defective. Machines: every subset
  of the x86 features, a build without SIMD, aarch64, wasm32 with and without
  simd128, and one without 64-bit atomics.

**Fairness.** `MulShift`, `Inversion`, `RaidFold`, `Parity`, `Recovery`, `Isal` and `Raid` assume
none: a client may stop at any time, and no liveness is claimed. `KernelWalk` and `RaidWalk` are a
single call that runs to its end without waiting for anything: `WF_vars(Next)`
says that the thread running it is scheduled. Under it every call `Returns`: each loop
moves its position. In `Pool` the system schedules the main thread and every worker
(`WF` of `Main` and of each `Work(t)`): only `Join` waits, for workers that
wait for nothing. The observer and the guest may stop anywhere. Modules of a single
call or process stop when it has ended, hence `CHECK_DEADLOCK FALSE` there.

## Proofs

Assumed of the constants:

| Assumption | Says | Where TLC evaluates it |
|---|---|---|
| `FieldAssumption`, `FieldLaws` | the product commutes, is determined by the products with single bits, associates on single bits, has a unit and inverses | GF(4), GF(8) and the code's GF(2^8) |
| `DoublingLaw`, `GeneratorLaws` | doubling commutes with the product; EXP enumerates the nonzero bytes by doubling, each once | the same |
| `Gaps(21)`, of `SafeRegion` and of nothing else | no 1 + 2^d + 2^e is 0 for d and e up to 20, and the exponents of third powers of 21 nodes do not wrap | `inversion` (`NodesHaveGaps`) |
| `PowersOfBits`, `PowersOfWordBits` | 2^0 = 1 and 2^(i+1) = 2 * 2^i as far as a byte, or a word, goes (the provers do not know `^`) | the same; `raid_fold` |
| `CodingAssumption` | dimensions are positive; one coefficient per row and source | `parity_shapes` |
| `InputAssumption`, `ScalarAssumption` | the matrices are square, of field elements; `Scalars` is a subfield | `inversion` |
| `MatrixAssumption`, `ClientAssumption`, `PlannerAssumption` | the encode matrix has the identity on top; a stripe's sources have one length; a set on the affine format has plans from that format | `recovery` |
| `StripeAssumption`, `NibbleAssumption`, `BufferAssumption` | the dimensions fit the field; the layer's set reads nibble tables; buffers are lists of bytes and lengths are natural | `isal` |
| `WalkAssumption`, `RaidWalkAssumption` | lengths and numbers are natural | the walks |
| `RaidAssumption` | at least two and at most `Order` sources; initial stripes are lists of bytes; a word has a byte | `raid` |
| `FoldAssumption` | at least two sources, words of at least one lane | `raid_fold` |
| `BoundAssumption` | bounds and the numbers of a command line are natural, and it asks for at most `MaxWorkers` threads; a machine has one of four architectures | `pool` |

**CoderProofs** is the ground of all the others but `PoolProofs`. Its first part is algebra: XOR
sums over finite sets (how they grow, split, exchange and distribute), the
field, rows times columns, matrices, and `InvertInverts`: what `invert` returns
inverts its argument, for every size. The library's induction theorems take an
operator as a parameter, which the provers cannot instantiate, so `SetInduction`
and `UpInduction` take a set in its place - the sets, or the numbers, for which
a fact holds - and rest on the well-foundedness of strict inclusion.
`RecursionExists` shows that the recursive functions of the model, which mirror
the code's loops, are what they say.

Then come the matrices no selection of whose rows is singular. `Separates(A, k, p)`
says that a vector sent to zero by as many parity rows as it has nonzero
entries is zero. `CauchySeparates` proves it of the Cauchy matrix of every size the field
has room for, without determinants: row i times x_i + x_c, less row m times x_m + x_c,
has no column c and is a multiple of a Cauchy row, so what is left is a Cauchy
system with one row and one column less. `CancelsInverts` shows that the inversion only
stops at a matrix with a kernel vector, and `SelectionInverts` puts the two
together: any k different rows of [I; Cauchy] can be inverted.

`CompatSeparates` is the same of `reed_solomon_erasure_matrix`, for every size it takes. All nodes of
its Vandermonde matrix are different, so `NodesVanish` eliminates them one by one, as in the Cauchy case;
times the inverse of its top, any k rows still have no kernel (`CompatShape`, which also shows that the
top can be inverted, so that the constructor never returns `Singular`).

`VandermondeSeparates` is the same of `reed_solomon`, for the shapes of `SafeShape`: at most three sources or
parity rows, or four of one and not too many of the other. Rows of a
selection that are evenly spaced are again a Vandermonde system, in other nodes (`ProgressionVanishes`), and
every selection of the rows 0 to 3 is, except {0, 1, 3} and {0, 2, 3}. There a solution would make
three nodes the roots of a cubic with a coefficient missing (`CubicRows`), so that their sum, or that of
their inverses, is zero: this is what `Gaps` excludes. A shape with few sources is the
transpose of one with few rows: over finite vectors, a square system with a kernel has a transpose with one
(`SolvesTransposed`, by counting). `SafeShapes` shows that `vandermonde_safe` lets one more shape
through, five by five.

Next is what an accepted call has checked, where a coefficient is in the tables, and
`PlanRebuilds`: the coefficient row of a target times the survivors' rows is the
target's row of the encode matrix, for a source (a row of the inverse) and for a
parity shard (a row composed with it), so the survivors' bytes give the target's byte.
The last two parts serve the loops on bits. Doubling: `Weight(d)` is 1 doubled d
times, `Weighed` the sum of terms with those weights. Binary numerals: the number of
a set of bits, what halving, remainders and sums do to it (`DivisionTwice`, `NumeralLow`,
`NumeralSum`), and `NumberLaws`: the numbers below 2^Bits are different bytes, which
the matrices' constructors rely on.

**InversionProofs**: `InverseTracksWork`, `PassedColumnsReduced` and `CallAgrees`,
for every size, field and input. The invariant is

    IInv == the matrices are square /\ inverse * input = work /\ passed columns are unit columns

with, in the phase between, what is known of the pivot. Each row operation is a
product from the left, so it keeps the equation on both sides; it keeps a passed
column because the pivot row is zero there. For `CallAgrees` the invariant
`InStep` says that the call and the function go through the same states.
`SingularHasKernel` is for the error: a vector that the passed columns and the pivotless one give is killed by the
reduced matrix; the invariant `Faithful` says that what the reduced matrix kills
the input kills too, since each row operation can be undone, and `Subfield` that
elimination stays in the subfield of the input, where TLC looks for the vector.
`SafeRegion` is `SafeRegionHolds` for whatever shapes are asked for, from the two parts above: a selection
takes rows in order, so none twice, and has an inverse; by `CallAgrees` the call
does not end in `Singular`. The selections of the shape that remains are its hypothesis `FiveByFive`.

**RecoveryProofs**: for every field, encode matrix with the identity on top,
kernel set, stripe, rebuild list and history, the invariant is

    IInv == CodersBuilt /\ stripe is a stripe of the matrix /\ SlotsTrueOrLost
              /\ PlanServesAll /\ AnswerTrue

`SlotsTruthful` alone is not inductive: what a recovery returns depends on
a plan made long before. `PlanServesAll` says of the plan what does not change with
slots and stripes: its coefficients are rows that rebuild, from its survivors'
rows, the rows of its targets. From `IInv` follow `SlotsTruthful`,
`RecoveredIsOriginal` and `KeepsPromise`, the refinement of `ErasureStore`, step by step.
With what is known of a plan's tables, `PlanNeedsItsSurvivors` is inductive too.
`AnyKSuffice` is proved of matrices no selection of whose rows is singular
(`Recoverable`): the checks of `recover` then refuse exactly the calls with fewer than
K shards. That hypothesis is proved of all three constructions: of `cauchy` (`AnyKSufficeOfCauchy`) and of the
`reed-solomon-erasure` matrix (`AnyKSufficeOfCompat`, which covers the matrix of the run) in every
size, and of `reed_solomon` in the shapes of `SafeShape` (`AnyKSufficeOfVandermonde`).

**ParityProofs**: `TypeOK` and `ParityTracksFolds`, for every field, coder,
buffer set and length. The invariant is

    IInv == TypeOK /\ FoldedLengths /\ ParityTracksFolds

`ParityTracksFolds` alone is not inductive: an update whose verdict is fine
reads its source wherever `folded` has a byte, so `folded` must have the length
of the parity. The heart is `FoldOne`: adding d to one term of an XOR sum adds d to the
sum, which with the product's linearity makes an update the difference of two encodings.
`VerifyAnswer` is proved of coders over each construction (`VerifyTellsStale` and its two
companions): the difference between what was folded in and the sources is a nonzero
vector with at most P entries, and some parity row does not send it to zero.

**KernelProofs** has three parts. The first is `KernelWalk`: `TypeOK`,
`AccessesInBounds`, `StoredOnce` and `ContractMet`, for every vector size and every call,
also one that breaks the contract. The invariant is

    IInv == call \in Calls /\ TypeOK /\ Passed /\ StoredOnce

where `Passed` is what the assertions leave true from `Validate` on: lengths agree, tables suffice, and the
group that runs is not empty. Memory safety then follows from `Passed` and the
loops' own condition, the contract from `StoredOnce` when no row is left.

The second is `MulShift`, for every field with the laws above instead of the pairs of
bytes TLC goes through. `ShiftAndFoldIsMul`: `LoopMatchesTables` with the types is
inductive, since an iteration halves `rest` and doubles `shifted`, and
the doubling that overflows folds the polynomial in. `NibbleTablesMultiply`: a byte is the
sum of its low and its high nibble, by the numerals of the two. `AffineMultiplies`: row i of the
matrix picks the bits b of x for which c times 2^b has bit i, which is the field's product
summed over the bits of x.

The third, `KernelsKeepContract`, joins two levels of the model. Each product in
`KernelWalk` is read as the byte that a nibble table or an affine matrix of its
coefficient gives; then a call that returns leaves what `Coder` says a kernel set computes
(`KernelEncode`, `KernelUpdate`), and an encode panics exactly when `Coder` expects it
(`KernelAsserts`). So what is proved of `Parity` and `Recovery` over the contract is
proved over the kernels.

**RaidProofs** has three parts too. `RaidWalk`: `TypeOK`, `AccessesInBounds`,
`NeverPanicsFromFacade`, `StoredOnce` and `ContractMet`, for every set
of chunk loops, lane, number of sources and lengths. `Passed` here also says
how a call got to a kernel: directly, or because `facade_accepts` held, which implies every assertion.
`HornerIsContract` gives the recurrence a closed form, by a descent from
the last source: at source j it holds source m doubled m - j times for every m from j on.

`Raid`: `PqCheckSound` and `XorCheckSound`, for every number of sources up to the order of
the generator and every length and word. The invariant `StripeInv` keeps that `whole` is a stripe that
matches and that the last answer is the check of the stripe as it is. What the damage does to P
is the sum of the changes, to Q the sum weighted by powers of 2; one or two changed vectors cannot vanish
from both because two weights differ (`GeneratorLaws`), and words and tail go through the
positions in order, so the first mismatch is the same however it is looked for.
`WalkGeneratesParity` joins the levels: what `RaidWalk` stores, read as bytes, is the parity
`Raid` checks.

`RaidFold`: `LanesStayIndependent`, for every lane and word size. `FoldInv` says of each lane that it
holds the sum and the weighted sum of the sources taken so far. The step that could disturb a
neighbour is the subtraction that wraps: the proof follows the borrow bit by bit and shows that what
is left to borrow before bit i is 2^i inside a lane whose top bit is set, and nothing
elsewhere, so that the difference fills exactly those lanes.

**PoolProofs**: all five safety properties, for any number of workers, jobs and
machines. `SampleBracketed`: the
counters only grow; the invariant keeps, for each reader and each number it has
loaded, that it is not below what it noted at the start and not above the counter.
`DefectIsReal` adds `Control` (what the main thread knows at each place) and
`Judged` (how the exit code came from the sample). `SetsFit` rests on
`SetInv`: the set in use is one that some way of choosing finds on this machine; the rest is a case
split over architectures, features and names. For `CountsExact` the invariant `Exact` says that
a counter is the sum over the threads of the sums over their calls begun: a
`Begin` changes one term of one sum. `StripesOnce` is integer division: `PerFacts`
and `ChunkPlaces` show that chunks of `div_ceil` partition the stripes into no
more chunks than threads, `Progress` that a worker at call number c has encoded stripe s of
its chunk as often as calls of that stripe have passed.

**IsalProofs**: the three properties of `Isal`, for any number of sources, parity rows and
skipped rows, any buffers and lengths. The invariant is

    IInv == MatrixInv /\ TablesInv /\ BooksInv

the matrix buffer holds the typed matrix generated into it last; the table buffer, as far as it
reaches, the coefficients of the matrix each row was made from; and a parity row
the sum over the sources of those coefficients times its `folded`.
`RowsTrackFolds` alone is not inductive, since an update reads tables and tables are made
from the matrix. `ErrorFoldsPrefix` goes through the checks of each call in their
order: only `ec_encode_data_update` writes before it looks at the tables of a later row.
`DecodeReturnsSources` is proved without a condition for Cauchy stripes
(`CauchyStripesDecode`) and for Vandermonde stripes under `KeptRegular`: any K of
the rows kept can be inverted (`RegularStripesDecode`). That is false of large
Vandermonde matrices, which this layer does not refuse, and true of those of a safe shape
(`SafeStripesDecode`, which covers the shape of the run).

**Only model-checked.** Liveness (`Returns`, `Finishes`), which is out of the
provers' reach, and the 252 selections of the five by five Vandermonde matrix (`FiveByFive`):
that none is singular is a fact about the numbers of one field, as is `Gaps(21)`. TLC goes through
both.

## Findings

- `empty_rebuild`: `recover` with an empty rebuild list and no output passes every
  check; a SIMD wrapper takes the length 0 from its outputs, asserts that every
  source has it (`accel/x86.rs:121`) and panics, where the scalar set returns `Ok`.
  `core/error.rs:4-7` says no entry point panics. `ec_encode_data` with no rows and
  sources of exactly the stripe's length reaches the same assertion (`facade/isal.rs:211`).
- `stale_plan_report`: `recover_with` reports `TooManyMissing` when one survivor
  of the plan is gone (`core/encode.rs:320`), also when the stripe can still be repaired;
  `core/error.rs:111` documents it as more missing "than the code can repair".

`recovery` has empty rebuild lists and sees them panic; its properties are
about the others.

Seen while modelling, with no document to contradict: the benchmark with
`--stripes 0 --threads 2` panics (`chunks_mut` of 0, which `StripesOnce` names as the one case);
with several stripes it ignores `--op`; `--op update --reps 0` reports a divergence;
the census verb does not consult `CENSUS_LIVE`, so that on a target
without 64-bit atomics its success says nothing.

## Not modelled

- Coders over matrices that do not pass their sources through (`MatrixAssumption`):
  `with_kernels` accepts them and `from_bytes` lets a caller bring one; the constructors do not make them.
- Wrong bytes from a foreign plan that does not panic (tables of the nibble format on an
  affine set, or another matrix of the same size): `PlannerAssumption` leaves them
  out, `core/kernel.rs:43-47` makes them the caller's duty.
- Errors no caller can get: of `select_rows` and `multiply`, whose callers pick existing rows and multiply
  matrices that match, and of `invert_gauss_jordan` for buffers that are not n * n bytes,
  which the ISA-L layer checks before it (that check is modelled). In `Raid` the length errors of the
  checks; in `RaidWalk` which of two errors it was.
- Overflow of `usize` in products of lengths and table sizes: it takes more buffers than
  fit in memory, in the core and, behind its own checks, in the ISA-L layer (`facade/isal.rs:142`). A census
  counter at 2^64 bytes.
- The CPU: an instruction is what it does to a byte. That memory is not shared
  during a call is Rust's `&mut`.
- The accessors of `Matrix`, which only read; wording of errors.
- The command line: parsing of flags, the content of stripes, timing and printing.
  Its verbs encode, recover and verify only print a message.
- The demo, the allocator crate, the bare-metal image, the fuzzers, corpora and oracles,
  and the Kani harnesses: drivers and tests of what is modelled.

## Plan

Every safety property of the runs is proved, so what is left are the boundaries of the model: foreign
plans that do not panic, coders over matrices that do not pass their sources through, and the
five by five selections without enumeration.
