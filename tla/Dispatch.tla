------------------------------ MODULE Dispatch ------------------------------
(***************************************************************************)
(* Which kernels a process runs (accel/src/lib.rs, x86.rs, aarch64.rs,     *)
(* wasm.rs and facade/src/lib.rs).  A machine is                           *)
(*   arch   "x86_64", "aarch64", "wasm32" or "other"                       *)
(*   cpu    its features; "simd128" is one the build assumes               *)
(*   accel  whether the accel feature is compiled in                       *)
(*   live   whether it has 64-bit atomics (CENSUS_LIVE)                    *)
(* A kernel set is named by its level, the coder's set of scalar kernels   *)
(* "scalar".  The OnceLocks keep the answer of a closure that depends on   *)
(* the machine alone: they are not modelled.                               *)
(***************************************************************************)
EXTENDS Naturals

NoKernels == "none"

(* a.or_else(|| b)                                                         *)
OrElse(a, b) == IF a = NoKernels THEN b ELSE a

(* The features the kernels of a level are compiled with (target_feature). *)
Needs(level) ==
  CASE level = "gfni"    -> {"gfni", "avx2"}
    [] level = "avx2"    -> {"avx2"}
    [] level = "ssse3"   -> {"ssse3"}
    [] level = "simd128" -> {"simd128"}
    [] level \in {"sse2", "neon", "scalar"} -> {}

Affine(level) == level = "gfni"

(* Mutant: GFNI is taken to imply AVX2.                                    *)
kernels_at_gfni_alone(m, level) ==
  IF m.arch = "x86_64" /\ level \in {"gfni", "avx2", "ssse3"} /\ level \in m.cpu
  THEN level ELSE NoKernels

kernels_at(m, level) ==
  IF m.arch # "x86_64" THEN NoKernels
  ELSE CASE level = "gfni" /\ "gfni" \in m.cpu /\ "avx2" \in m.cpu -> "gfni"
         [] level = "avx2" /\ "avx2" \in m.cpu                     -> "avx2"
         [] level = "ssse3" /\ "ssse3" \in m.cpu                   -> "ssse3"
         [] OTHER -> NoKernels

neon(m)    == IF m.arch = "aarch64" THEN "neon" ELSE NoKernels
simd128(m) == IF m.arch = "wasm32" /\ "simd128" \in m.cpu THEN "simd128" ELSE NoKernels

kernels(m) ==
  CASE m.arch = "x86_64"  -> OrElse(kernels_at(m, "gfni"),
                                    OrElse(kernels_at(m, "avx2"), kernels_at(m, "ssse3")))
    [] m.arch = "aarch64" -> neon(m)
    [] m.arch = "wasm32"  -> simd128(m)
    [] m.arch = "other"   -> NoKernels

kernels_nibble(m) ==
  IF m.arch = "x86_64" THEN OrElse(kernels_at(m, "avx2"), kernels_at(m, "ssse3"))
  ELSE kernels(m)

(* The RAID pair: the levels of its XOR and of its P+Q kernel.             *)
NoPair == <<NoKernels, NoKernels>>

raid_kernels_at(m, level) ==
  IF m.arch # "x86_64" THEN NoPair
  ELSE CASE level = "gfni" /\ "gfni" \in m.cpu /\ "avx2" \in m.cpu -> <<"avx2", "gfni">>
         [] level = "avx2" /\ "avx2" \in m.cpu                     -> <<"avx2", "avx2">>
         [] level = "ssse3"                                        -> <<"sse2", "sse2">>
         [] OTHER -> NoPair

raid_kernels(m) ==
  CASE m.arch = "x86_64" ->
         raid_kernels_at(m, IF {"avx2", "gfni"} \subseteq m.cpu THEN "gfni"
                            ELSE IF "avx2" \in m.cpu THEN "avx2" ELSE "ssse3")
    [] m.arch = "aarch64" -> <<"neon", "neon">>
    [] m.arch = "wasm32"  -> <<simd128(m), simd128(m)>>
    [] m.arch = "other"   -> NoPair

(* The facade: without the accel feature none of the above is compiled in. *)
best_kernels(m) == IF m.accel THEN OrElse(kernels(m), "scalar") ELSE "scalar"

kernels_named(m, name) ==
  CASE name = "auto"   -> best_kernels(m)
    [] name = "scalar" -> "scalar"
    [] ~m.accel        -> NoKernels
    [] m.accel /\ name \in {"ssse3", "avx2", "gfni"} -> kernels_at(m, name)
    [] m.accel /\ name = "neon"    -> neon(m)
    [] m.accel /\ name = "simd128" -> simd128(m)
    [] OTHER -> NoKernels

(* The set the ISA-L layer hands its callers' tables to.                   *)
nibble_kernels(m) == IF m.accel THEN OrElse(kernels_nibble(m), "scalar") ELSE "scalar"

(* The facade's raid module: its SIMD pair, or the core's scalar loops.    *)
raid_dispatch(m) ==
  IF m.accel /\ raid_kernels(m) # NoPair THEN raid_kernels(m) ELSE <<"scalar", "scalar">>

=============================================================================
