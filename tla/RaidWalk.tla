------------------------------ MODULE RaidWalk ------------------------------
(***************************************************************************)
(* One generation of RAID parity: xor_gen or pq_gen, called through the    *)
(* facade (rusty_erasure/src/lib.rs raid), in the core (core/src/raid.rs)  *)
(* or on a SIMD kernel directly (accel/src/x86.rs, aarch64.rs, wasm.rs).   *)
(* Each implementation checks its arguments in its own way and then walks  *)
(* the vectors in loops of wide chunks, ending byte by byte.               *)
(*                                                                         *)
(* What matters of a parity byte is the sum it holds: a set of terms       *)
(* <<source, doublings, position>>, in which a term added again vanishes.  *)
(***************************************************************************)
EXTENDS Integers, Sequences, FiniteSetsExt

CONSTANTS
  Lane,    (* bytes in a vector, or in a word of the core                  *)
  Calls    (* the calls: records of the operation, the entry, whether the  *)
           (* machine has SIMD kernels, the chunk loops of the             *)
           (* implementation that will run, and the vectors' lengths       *)

Sources(c) == DOMAIN c.srcLen

ASSUME RaidWalkAssumption ==
  /\ Lane \in Nat \ {0}
  /\ \A c \in Calls :
       /\ c.op \in {"xor", "pq"}
       /\ c.entry \in {"facade", "core", "kernel"}
       /\ c.simd \in BOOLEAN
       /\ c.loops \in Seq(Nat \ {0})
       /\ c.sources \in Nat
       /\ c.srcLen \in [0..(c.sources - 1) -> Nat]
       /\ c.pLen \in Nat /\ c.qLen \in Nat

VARIABLES
  call,    (* the call's arguments                                         *)
  phase,   (* where it is checked, walking, or how it ended                *)
  loop,    (* the chunk loop running, one past the last in the tail        *)
  at,      (* the loop's i: bytes done                                     *)
  p, q     (* the parity vectors                                           *)

vars == <<call, phase, loop, at, p, q>>

Was == {<<-1, -1, -1>>}     (* what a parity byte held before the call *)

Init ==
  /\ call \in Calls
  /\ phase = call.entry
  /\ loop = 1
  /\ at = 0
  /\ p = [x \in 0..(call.pLen - 1) |-> Was]
  /\ q = [x \in 0..(call.qLen - 1) |-> Was]
-----------------------------------------------------------------------------
(* Mutant: the facade lets parity vectors of two lengths through.          *)
facade_accepts_uneven(c) ==
  /\ c.simd
  /\ c.sources >= 2
  /\ \A j \in Sources(c) : c.srcLen[j] = c.pLen

(* What the facade looks at before it calls a SIMD kernel.                 *)
facade_accepts(c) ==
  /\ c.simd
  /\ c.sources >= 2
  /\ \A j \in Sources(c) : c.srcLen[j] = c.pLen
  /\ c.op = "pq" => c.pLen = c.qLen

(* The core's typed errors, too few sources or a vector of another length, *)
(* end a call alike: which of the two it was is not kept.                  *)
check_lens(c) ==
  /\ c.op = "pq" => c.qLen = c.pLen
  /\ c.sources >= 2
  /\ \A j \in Sources(c) : c.srcLen[j] = c.pLen

(* Mutant: the sources' lengths are not asserted.                          *)
kernel_asserts_parity_only(c) ==
  /\ c.op = "pq" => c.pLen = c.qLen
  /\ c.sources >= 2

(* The SIMD kernels' assertions.                                           *)
kernel_asserts(c) ==
  /\ c.op = "pq" => c.pLen = c.qLen
  /\ \A j \in Sources(c) : c.srcLen[j] = c.pLen
  /\ c.sources >= 2

Dispatch ==
  /\ phase = "facade"
  /\ phase' = IF facade_accepts(call) THEN "kernel" ELSE "core"
  /\ UNCHANGED <<call, loop, at, p, q>>

CheckInCore ==
  /\ phase = "core"
  /\ phase' = IF check_lens(call) THEN "walk" ELSE "error"
  /\ UNCHANGED <<call, loop, at, p, q>>

AssertInKernel ==
  /\ phase = "kernel"
  /\ phase' = IF kernel_asserts(call) THEN "walk" ELSE "panic"
  /\ UNCHANGED <<call, loop, at, p, q>>
-----------------------------------------------------------------------------
(* The sum of all sources at x.                                            *)
XorTerms(x) == {<<j, 0, x>> : j \in Sources(call)}

Twice(sum) == {<<t[1], t[2] + 1, t[3]>> : t \in sum}

(* Mutant: the sources are folded from the first to the last.              *)
HornerForward(x) ==
  LET h[j \in Sources(call)] ==
        IF j = 0 THEN {<<0, 0, x>>}
        ELSE SymDiff({<<j, 0, x>>}, Twice(h[j - 1]))
  IN  h[call.sources - 1]

(* The last source, then for each one before it: q = s ^ 2 * q.            *)
Horner(x) ==
  LET h[j \in Sources(call)] ==
        IF j = call.sources - 1 THEN {<<j, 0, x>>}
        ELSE SymDiff({<<j, 0, x>>}, Twice(h[j + 1]))
  IN  h[0]

Width == call.loops[loop] * Lane

Fits == at + Width <= call.pLen

StoreP(to) ==
  [x \in DOMAIN p |-> IF x \in at..(to - 1) THEN XorTerms(x) ELSE p[x]]

StoreQ(to) ==
  [x \in DOMAIN q |->
     IF call.op = "pq" /\ x \in at..(to - 1) THEN Horner(x) ELSE q[x]]

(* Mutant: the position does not move.                                     *)
ChunkInPlace ==
  /\ phase = "walk"
  /\ loop <= Len(call.loops)
  /\ Fits
  /\ p' = StoreP(at + Width)
  /\ q' = StoreQ(at + Width)
  /\ UNCHANGED <<call, phase, loop, at>>

Chunk ==
  /\ phase = "walk"
  /\ loop <= Len(call.loops)
  /\ Fits
  /\ p' = StoreP(at + Width)
  /\ q' = StoreQ(at + Width)
  /\ at' = at + Width
  /\ UNCHANGED <<call, phase, loop>>

NextLoop ==
  /\ phase = "walk"
  /\ loop <= Len(call.loops)
  /\ ~Fits
  /\ loop' = loop + 1
  /\ UNCHANGED <<call, phase, at, p, q>>

(* Mutants: what is left after the chunks is skipped; the position ends    *)
(* one byte further on.                                                    *)
TailSkipped ==
  /\ phase = "walk"
  /\ loop > Len(call.loops)
  /\ phase' = "done"
  /\ UNCHANGED <<call, loop, at, p, q>>

TailPastEnd ==
  /\ phase = "walk"
  /\ loop > Len(call.loops)
  /\ p' = StoreP(call.pLen)
  /\ q' = StoreQ(call.pLen)
  /\ at' = call.pLen + 1
  /\ phase' = "done"
  /\ UNCHANGED <<call, loop>>

(* for x in i..n                                                           *)
ScalarTail ==
  /\ phase = "walk"
  /\ loop > Len(call.loops)
  /\ p' = StoreP(call.pLen)
  /\ q' = StoreQ(call.pLen)
  /\ at' = call.pLen
  /\ phase' = "done"
  /\ UNCHANGED <<call, loop>>

Next ==
  \/ Dispatch
  \/ CheckInCore
  \/ AssertInKernel
  \/ Chunk
  \/ NextLoop
  \/ ScalarTail

Spec == Init /\ [][Next]_vars /\ WF_vars(Next)
-----------------------------------------------------------------------------
(* The walk stays within the parity vector and its loops.                  *)
TypeOK ==
  /\ phase \in {"facade", "core", "kernel", "walk", "done", "error", "panic"}
  /\ loop \in 1..(Len(call.loops) + 1)
  /\ at \in 0..call.pLen
  /\ DOMAIN p = 0..(call.pLen - 1)
  /\ DOMAIN q = 0..(call.qLen - 1)

(* Every pointer access of the chunk about to run is inside its vector,    *)
(* for the sources and for both parities, also when the kernel was called  *)
(* directly with vectors of different lengths.  The recurrence has a last  *)
(* source to begin with.                                                   *)
AccessesInBounds ==
  phase = "walk" =>
    /\ call.sources > 0
    /\ loop <= Len(call.loops) /\ Fits =>
         /\ \A j \in Sources(call) : at + Width <= call.srcLen[j]
         /\ call.op = "pq" => at + Width <= call.qLen

(* P = the sum of the sources, Q = the sum of the sources with source j    *)
(* doubled j times (raid.rs header).                                       *)
ContractP(x) == {<<j, 0, x>> : j \in Sources(call)}
ContractQ(x) ==
  IF call.op = "pq" THEN {<<j, j, x>> : j \in Sources(call)} ELSE Was

(* Whatever the widths of the loops, the bytes so far passed hold their    *)
(* parity, the others what they held.                                      *)
StoredOnce ==
  /\ \A x \in DOMAIN p : p[x] = IF x < at THEN ContractP(x) ELSE Was
  /\ \A x \in DOMAIN q : q[x] = IF x < at THEN ContractQ(x) ELSE Was

(* A generation that returns has written every byte of both vectors, the   *)
(* ones after the last full chunk included; one that is refused, none.     *)
ContractMet ==
  /\ phase = "done" =>
       /\ \A x \in DOMAIN p : p[x] = ContractP(x)
       /\ \A x \in DOMAIN q : q[x] = ContractQ(x)
  /\ phase \in {"error", "panic"} =>
       /\ \A x \in DOMAIN p : p[x] = Was
       /\ \A x \in DOMAIN q : q[x] = Was

(* The facade's look at the arguments is never weaker than the kernel's    *)
(* assertions: through it, or in the core, misuse is an error.             *)
NeverPanicsFromFacade == phase = "panic" => call.entry = "kernel"

(* Every call ends.                                                        *)
Returns == <>(phase \in {"done", "error", "panic"})

=============================================================================
