------------------------------- MODULE MCPool -------------------------------
(* Machines and command lines of a run.                                    *)
EXTENDS Pool

On(arch, cpu, accel, live) == [arch |-> arch, cpu |-> cpu, accel |-> accel, live |-> live]

(* x86 CPUs with every set of features (a hypervisor may mask any), a      *)
(* build without SIMD, the other architectures, one without 64-bit         *)
(* atomics.                                                                *)
AllMachines ==
  {On("x86_64", cpu, TRUE, TRUE) : cpu \in SUBSET {"ssse3", "avx2", "gfni"}}
    \cup {On("x86_64", {"ssse3", "avx2"}, FALSE, TRUE), On("aarch64", {}, TRUE, TRUE),
          On("wasm32", {}, TRUE, TRUE), On("wasm32", {"simd128"}, TRUE, TRUE),
          On("other", {}, TRUE, FALSE)}

Job(verb, op, set, reps, stripes, threads) ==
  [verb |-> verb, op |-> op, kernels |-> set, k |-> 2, p |-> 1, len |-> 1,
   reps |-> reps, stripes |-> stripes, threads |-> threads, losses |-> 1]

(* The census; each operation, with each kernel set; arguments that fail;  *)
(* stripes split evenly, unevenly, among too many threads, and none.       *)
AllJobs ==
  {Job("census", "encode", "auto", 1, 1, 1)}
    \cup {Job("bench", "encode", set, 1, 1, 1) :
            set \in {"auto", "scalar", "ssse3", "avx2", "gfni", "neon", "simd128", "?"}}
    \cup {Job("bench", op, "auto", 2, 1, 1) : op \in {"recover", "update", "xor", "pq", "?"}}
    \cup {[Job("bench", "recover", "auto", 1, 1, 1) EXCEPT !.losses = n] : n \in {0, 2}}
    \cup {[Job("bench", "xor", "auto", n, 1, 1) EXCEPT !.k = 1] : n \in {0, 1}}
    \cup {Job("bench", "update", "auto", 0, 1, 1)}
    \cup {[Job("bench", "encode", "auto", 1, 1, 1) EXCEPT !.p = n] : n \in {0, 253, 254}}
    \cup {Job("bench", "encode", "auto", n[1], n[2], n[3]) :
            n \in {<<2, 2, 2>>, <<1, 3, 2>>, <<1, 3, 3>>, <<1, 2, 3>>, <<1, 1, 2>>,
                   <<0, 2, 1>>, <<1, 2, 0>>, <<1, 0, 2>>, <<1, 0, 1>>}}

=============================================================================
