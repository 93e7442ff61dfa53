-------------------------------- MODULE Pool --------------------------------
(***************************************************************************)
(* One process: the command line tool (cli/src/main.rs) on its main        *)
(* thread, the worker threads of its striped benchmark, and two threads an *)
(* application embedding the library may have: an observer that reads the  *)
(* census and a guest that makes one call through the ISA-L layer.  The    *)
(* tool has neither: its own behaviours are those in which both stay idle. *)
(* What the threads share is the pair of census counters.                  *)
(*                                                                         *)
(* A call of a kernel adds its source bytes to the counter of its family   *)
(* first and does its work afterwards; a step ends at each.  The counters  *)
(* stay below 2^64.                                                        *)
(***************************************************************************)
EXTENDS Dispatch, FiniteSetsExt

CONSTANTS
  Machines,    (* the machines of the run: see Dispatch                    *)
  Jobs,        (* the command lines: [verb, op, kernels, k, p, len, reps,  *)
               (* stripes, threads, losses]                                *)
  MaxWorkers,  (* bound on the threads a job asks for                      *)
  Warmups,     (* untimed encodes of bench: 3 in the code                  *)
  CensusCalls, (* calls of the census verb: 200 encodes and a recovery     *)
  GuestBytes   (* source bytes of the guest's call                         *)

ASSUME BoundAssumption ==
  /\ MaxWorkers \in Nat \ {0} /\ Warmups \in Nat /\ CensusCalls \in Nat /\ GuestBytes \in Nat
  /\ \A j \in Jobs : /\ j.k \in Nat /\ j.p \in Nat /\ j.len \in Nat /\ j.reps \in Nat
                     /\ j.stripes \in Nat /\ j.threads \in 0..MaxWorkers
  /\ \A m \in Machines : m.arch \in {"x86_64", "aarch64", "wasm32", "other"}

VARIABLES
  machine, job, (* chosen at the start                                     *)
  kern,         (* the kernel set of the coder                             *)
  pc, made,     (* of the main thread (0) and the workers: where it is and *)
                (* how many of its calls have returned                     *)
  encoded,      (* how often each stripe has been encoded                  *)
  counts,       (* SCALAR_CENSUS_BYTES and ACCEL_CENSUS_BYTES              *)
  seen, before, (* the pair a reader has read; history: the counters when  *)
                (* it began                                                *)
  watch, guest, (* the observer and the guest                              *)
  exit          (* the exit code                                           *)

vars == <<machine, job, kern, pc, made, encoded, counts, seen, before, watch, guest, exit>>

Worker == 1..MaxWorkers
Thread == 0..MaxWorkers
Families == {"scalar", "accel"}
Readers == {"main", "observer"}
Zero == [f \in Families |-> 0]

Init ==
  /\ machine \in Machines
  /\ job \in Jobs
  /\ kern = NoKernels
  /\ pc = [t \in Thread |-> IF t = 0 THEN "start" ELSE "idle"]
  /\ made = [t \in Thread |-> 0]
  /\ encoded = [s \in 0..(job.stripes - 1) |-> 0]
  /\ counts = Zero
  /\ seen = [r \in Readers |-> Zero]
  /\ before = [r \in Readers |-> Zero]
  /\ watch = "idle"
  /\ guest = "idle"
  /\ exit = "none"

Chosen == <<machine, job>>
Watching == <<seen, before, watch>>
-----------------------------------------------------------------------------
(* The census: one relaxed add per call, discarded by the stub.            *)

(* Mutant: the counter is set to the bytes of the call.                    *)
fetch_add_as_store(f, n) == IF machine.live THEN [counts EXCEPT ![f] = n] ELSE counts

fetch_add(f, n) == IF machine.live THEN [counts EXCEPT ![f] = @ + n] ELSE counts

(* census::read, for a reader: the scalar counter ...  Mutant: and resets  *)
(* it.                                                                     *)
LoadScalarResetting(r) ==
  /\ before' = [before EXCEPT ![r] = counts]
  /\ seen' = [seen EXCEPT ![r] = [Zero EXCEPT !["scalar"] = counts["scalar"]]]
  /\ counts' = [counts EXCEPT !["scalar"] = 0]

LoadScalar(r) ==
  /\ before' = [before EXCEPT ![r] = counts]
  /\ seen' = [seen EXCEPT ![r] = [Zero EXCEPT !["scalar"] = counts["scalar"]]]
  /\ UNCHANGED counts

(* ... and then the accel counter, where there is one.                     *)
LoadAccel(r) ==
  /\ seen' = [seen EXCEPT ![r]["accel"] = IF machine.accel THEN counts["accel"] ELSE 0]
  /\ UNCHANGED <<before, counts>>
-----------------------------------------------------------------------------
(* The calls of a thread.                                                  *)

Striped == job.verb = "bench" /\ (job.stripes > 1 \/ job.threads > 1)

(* The bench operations that fail after the first encode; an update of no  *)
(* round leaves zeroes, which are not the parity of the stripe.            *)
BadOp ==
  /\ job.verb = "bench" /\ ~Striped
  /\ \/ job.op = "recover" /\ (job.losses = 0 \/ job.losses > job.p)
     \/ job.op \in {"xor", "pq"} /\ job.reps > 0 /\ job.k < 2
     \/ job.op = "update" /\ job.reps = 0 /\ job.len > 0
     \/ job.op \notin {"encode", "recover", "update", "xor", "pq"}

MainCalls ==
  CASE job.verb = "census"                        -> CensusCalls
    [] job.verb = "bench" /\ job.op = "encode"    -> Warmups + job.reps
    [] job.verb = "bench" /\ BadOp                -> 1
    [] job.verb = "bench" /\ job.op = "update"    -> 1 + job.reps * job.k
    [] OTHER                                      -> 1 + job.reps

(* Mutant: the stripes per thread are rounded down.                        *)
per_rounded_down == job.stripes \div Max({1, job.threads})

(* stripes.div_ceil(threads), with threads.max(1)                          *)
per == LET n == Max({1, job.threads}) IN (job.stripes + n - 1) \div n

(* chunks_mut(per): the stripes of worker t.                               *)
Chunk(t) == {s \in DOMAIN encoded : (t - 1) * per <= s /\ s < t * per}

Calls(t) == IF t = 0 THEN MainCalls ELSE Cardinality(Chunk(t)) * job.reps

Family(set) == IF set = "scalar" THEN "scalar" ELSE "accel"

(* Call i of thread t: its family and its source bytes.                    *)
CallFamily(t, i) ==
  IF t = 0 /\ job.verb = "bench" /\ job.op \in {"xor", "pq"} /\ i > 0
  THEN Family(raid_dispatch(machine)[1]) ELSE Family(kern)

CallBytes(t, i) ==
  IF t = 0 /\ job.verb = "bench" /\ job.op = "update" /\ i > 0
  THEN job.len ELSE job.k * job.len

(* A call is begun: lengths are asserted, bytes counted.                   *)
Begin(t) ==
  /\ pc[t] = "call" /\ made[t] < Calls(t)
  /\ pc' = [pc EXCEPT ![t] = "inside"]
  /\ counts' = fetch_add(CallFamily(t, made[t]), CallBytes(t, made[t]))
  /\ UNCHANGED <<Chosen, kern, made, encoded, Watching, guest, exit>>

(* It returns; a worker encodes each stripe of its chunk reps times.       *)
Finish(t) ==
  /\ pc[t] = "inside"
  /\ pc' = [pc EXCEPT ![t] = "call"]
  /\ made' = [made EXCEPT ![t] = @ + 1]
  /\ encoded' = IF t = 0 THEN encoded
                ELSE [encoded EXCEPT ![(t - 1) * per + made[t] \div job.reps] = @ + 1]
  /\ UNCHANGED <<Chosen, kern, counts, Watching, guest, exit>>
-----------------------------------------------------------------------------
(* The main thread.                                                        *)

Exit(code) == pc' = [pc EXCEPT ![0] = "done"] /\ exit' = code
Goto(label) == pc' = [pc EXCEPT ![0] = label] /\ UNCHANGED exit

Idle == UNCHANGED <<Chosen, made, encoded, Watching, guest>>

(* Matrix::cauchy(k, p), then kernels_named(--kernels); or coder(matrix).  *)
Start ==
  /\ pc[0] = "start"
  /\ kern' = IF job.verb = "census" THEN best_kernels(machine)
             ELSE IF job.k = 0 \/ job.p = 0 \/ job.k + job.p > 255 THEN NoKernels
             ELSE kernels_named(machine, job.kernels)
  /\ IF kern' = NoKernels THEN Exit("2") ELSE Goto(IF Striped THEN "spawn" ELSE "call")
  /\ UNCHANGED counts
  /\ Idle

(* for chunk in all.chunks_mut(per) { s.spawn(...) }                       *)
Spawn ==
  /\ pc[0] = "spawn"
  /\ IF per = 0 THEN Exit("panic")
     ELSE \/ \E t \in Worker :
               /\ pc[t] = "idle" /\ Chunk(t) # {}
               /\ t = 1 \/ pc[t - 1] # "idle"
               /\ pc' = [pc EXCEPT ![t] = "call"]
               /\ UNCHANGED exit
          \/ /\ \A t \in Worker : pc[t] = "idle" => Chunk(t) = {}
             /\ Goto("join")
  /\ UNCHANGED <<kern, counts>>
  /\ Idle

Leave(t) ==
  /\ t # 0 /\ pc[t] = "call" /\ made[t] = Calls(t)
  /\ pc' = [pc EXCEPT ![t] = "done"]
  /\ UNCHANGED <<kern, counts, exit>>
  /\ Idle

(* The end of the scope.  Mutant: a thread is awaited for each of          *)
(* --threads.                                                              *)
JoinAll ==
  /\ pc[0] = "join"
  /\ \A t \in 1..job.threads : pc[t] = "done"
  /\ Exit("0")
  /\ UNCHANGED <<kern, counts>>
  /\ Idle

Join ==
  /\ pc[0] = "join"
  /\ \A t \in Worker : pc[t] \in {"idle", "done"}
  /\ Exit("0")
  /\ UNCHANGED <<kern, counts>>
  /\ Idle

(* Only the census verb and the encode benchmark read the census.          *)
Conclude ==
  /\ pc[0] = "call" /\ made[0] = MainCalls
  /\ IF BadOp THEN Exit("2")
     ELSE IF job.verb = "census" \/ job.op = "encode" THEN Goto("load")
     ELSE Exit("0")
  /\ UNCHANGED <<kern, counts>>
  /\ Idle

Load ==
  /\ \/ pc[0] = "load" /\ LoadScalar("main") /\ Goto("load2")
     \/ pc[0] = "load2" /\ LoadAccel("main") /\ Goto("report")
  /\ UNCHANGED <<Chosen, kern, made, encoded, watch, guest>>

(* Mutant: any scalar byte is a defect.                                    *)
defect_any == seen["main"]["scalar"] > 0

defect == kern # "scalar" /\ seen["main"]["scalar"] > 0

Report ==
  /\ pc[0] = "report"
  /\ Exit(IF job.verb = "census" /\ defect THEN "1" ELSE "0")
  /\ UNCHANGED <<kern, counts>>
  /\ Idle

Main == Start \/ Spawn \/ Begin(0) \/ Finish(0) \/ Join \/ Conclude \/ Load \/ Report

Work(t) == Begin(t) \/ Finish(t) \/ Leave(t)
-----------------------------------------------------------------------------
(* The embedding application.                                              *)

Observe ==
  /\ \/ watch = "idle" /\ LoadScalar("observer") /\ watch' = "half"
     \/ watch = "half" /\ LoadAccel("observer") /\ watch' = "done"
  /\ UNCHANGED <<Chosen, kern, pc, made, encoded, guest, exit>>

(* ec_encode_data with buffers of the stripe's length or longer ones.      *)
GuestCall(buffers) ==
  /\ guest = "idle"
  /\ guest' = buffers
  /\ counts' = fetch_add(IF buffers = "exact" THEN Family(nibble_kernels(machine))
                         ELSE "scalar", GuestBytes)
  /\ UNCHANGED <<Chosen, kern, pc, made, encoded, Watching, exit>>

Next ==
  \/ Main
  \/ \E t \in Worker : Work(t)
  \/ Observe
  \/ \E buffers \in {"exact", "long"} : GuestCall(buffers)

(* The system runs every thread of the tool; the application's threads     *)
(* may stop anywhere.                                                      *)
Fairness == WF_vars(Main) /\ \A t \in Worker : WF_vars(Work(t))

Spec == Init /\ [][Next]_vars /\ Fairness
-----------------------------------------------------------------------------
Begun(t) == made[t] + (IF pc[t] = "inside" THEN 1 ELSE 0)

Share(t, i, f) == IF CallFamily(t, i) = f THEN CallBytes(t, i) ELSE 0

BytesBegun(t, f) == SumFunction([i \in 0..(Begun(t) - 1) |-> Share(t, i, f)])

GuestCounted(f) ==
  IF guest = "idle" THEN 0
  ELSE IF f = (IF guest = "exact" THEN Family(nibble_kernels(machine)) ELSE "scalar")
  THEN GuestBytes ELSE 0

(* Whatever the interleaving of threads and calls, no addition is lost and *)
(* none goes to the wrong family: each counter is the sum of the bytes of  *)
(* the calls begun on its kernels.  A stub counts nothing.                 *)
CountsExact ==
  \A f \in Families :
    counts[f] = IF ~machine.live THEN 0
                ELSE GuestCounted(f) + SumFunction([t \in Thread |-> BytesBegun(t, f)])

(* The pair a reader gets need never have been the value of the counters   *)
(* at one time, but each number lies between its counter's values at the   *)
(* start and at the end of the read, and so does their sum, of which       *)
(* accel_percent is a share.  (facade census::read: two relaxed loads.)    *)
SampleBracketed ==
  \A r \in Readers : \A f \in Families :
    /\ seen[r][f] <= counts[f]
    /\ (IF r = "main" THEN pc[0] \in {"report", "done"} ELSE watch = "done")
       /\ machine.accel => before[r][f] <= seen[r][f]

(* The census verb says DEFECT only when a SIMD set was selected and       *)
(* somebody's bytes really took scalar kernels - its own never do - and    *)
(* says success with live counters only if none had when it began to read. *)
(* (USAGE: "exits 1 if a SIMD set was selected but did not carry 100%".)   *)
DefectIsReal ==
  job.verb = "census" /\ pc[0] = "done" =>
    /\ exit = "1" => kern # "scalar" /\ GuestCounted("scalar") > 0
    /\ exit = "0" /\ kern # "scalar" => before["main"]["scalar"] = 0

(* The striped benchmark starts at most --threads workers, gives every     *)
(* stripe to one of them and returns when each has been encoded --reps     *)
(* times.  It only panics if there is no stripe.  (chunks_mut refuses 0.)  *)
StripesOnce ==
  Striped =>
    /\ \A t \in Worker : pc[t] # "idle" => t <= Max({1, job.threads})
    /\ \A s \in DOMAIN encoded : \A t, u \in Worker :
         {t, u} \subseteq {w \in Worker : pc[w] # "idle"} /\ s \in Chunk(t) \cap Chunk(u)
           => t = u
    /\ exit = "0" => \A s \in DOMAIN encoded : encoded[s] = job.reps
    /\ exit = "panic" => job.stripes = 0

(* Every kernel the process can come to run is one its CPU has the         *)
(* features for; the ISA-L layer's set reads the tables its callers make;  *)
(* automatic choice finds a SIMD set if a name does, and then SIMD RAID.   *)
SetsFit ==
  /\ kern # NoKernels => Needs(kern) \subseteq machine.cpu
  /\ Needs(nibble_kernels(machine)) \subseteq machine.cpu
  /\ ~Affine(nibble_kernels(machine))
  /\ \A i \in {1, 2} : Needs(raid_dispatch(machine)[i]) \subseteq machine.cpu
  /\ \A name \in {"ssse3", "avx2", "gfni", "neon", "simd128"} :
       kernels_named(machine, name) # NoKernels =>
         /\ best_kernels(machine) # "scalar"
         /\ nibble_kernels(machine) # "scalar"
         /\ "scalar" \notin {raid_dispatch(machine)[1], raid_dispatch(machine)[2]}

(* The tool exits, if the system keeps running its threads.                *)
Finishes == <>(exit # "none")

=============================================================================
