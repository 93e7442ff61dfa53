----------------------------- MODULE MCRaidWalk -----------------------------
(* The calls of the run: every implementation's loops, called through each *)
(* entry, with vectors of one length or one vector a byte off.             *)
EXTENDS RaidWalk

CONSTANTS SourceCounts, Lengths

(* The chunk loops, in vectors: xor_gen of the SIMD sets and of the core   *)
(* (which passes over the vector source by source, byte by byte); pq_gen   *)
(* of AVX2, GFNI, NEON and SIMD128, of SSE2, and of the core.              *)
SimdLoops(op) == IF op = "xor" THEN {<<2>>} ELSE {<<4, 1>>, <<1>>}
CoreLoops(op) == IF op = "xor" THEN {<<>>} ELSE {<<4>>}

(* The implementation that runs: entry and whether there are SIMD kernels. *)
Ways == {<<"facade", TRUE>>, <<"kernel", TRUE>>, <<"facade", FALSE>>, <<"core", FALSE>>}

(* A vector whose length is off by one: none, a source, P, Q.              *)
None == -1
OfP  == -2
OfQ  == -3
Slips == {<<None, 0>>} \cup ({0, 1, OfP, OfQ} \X {-1, 1})

Off(slip, vector, len) == IF slip[1] = vector THEN len + slip[2] ELSE len

Call(op, way, loops, n, len, slip) ==
  [op |-> op, entry |-> way[1], simd |-> way[2], loops |-> loops, sources |-> n,
   srcLen |-> [j \in 0..(n - 1) |-> Off(slip, j, len)],
   pLen |-> Off(slip, OfP, len), qLen |-> Off(slip, OfQ, len)]

AllCalls ==
  {c \in UNION {{Call(op, way, loops, n, len, slip) :
                   loops \in IF way[2] THEN SimdLoops(op) ELSE CoreLoops(op),
                   n \in SourceCounts, len \in Lengths, slip \in Slips} :
                op \in {"xor", "pq"}, way \in Ways} :
     c.pLen >= 0 /\ c.qLen >= 0 /\ \A j \in 0..(c.sources - 1) : c.srcLen[j] >= 0}

=============================================================================
