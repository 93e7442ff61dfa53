------------------------------ MODULE Recovery ------------------------------
(***************************************************************************)
(* A client that keeps one stripe of shards in slots, loses some, and      *)
(* rebuilds them with decode_plan / recover_with or with recover           *)
(* (core/src/encode.rs).  A plan is made once and used for as long as the  *)
(* client likes: after further losses, after repairs, for other stripes.   *)
(* Rebuilt shards go back into the slots and serve later recoveries.       *)
(***************************************************************************)
EXTENDS Coder

CONSTANTS
  K, P,         (* sources and parity shards of a stripe                   *)
  EncodeMatrix, (* the encode matrix of the coders                         *)
  KernelSet,    (* the set the stripes are encoded and recovered with:     *)
                (* "scalar", or a SIMD set of "nibble" or "affine" tables  *)
  PlannerSets,  (* the sets of the coders plans may come from              *)
  Messages,     (* the source lists of the stripes: K equal-length buffers *)
  RebuildLists, (* the rebuild lists a call may be given                   *)
  OutShapes,    (* the lengths of the output buffers a call may be given   *)
  NoPlan        (* the client holds no plan                                *)

N == K + P

(* A set that reads tables of its own format, or shorter ones: it either   *)
(* multiplies with the coefficients or finds too few bytes.                *)
ASSUME PlannerAssumption ==
  /\ {KernelSet} \cup PlannerSets \subseteq {"scalar", "nibble", "affine"}
  /\ KernelSet = "affine" => PlannerSets = {"affine"}

(* The encode matrix passes sources through, as those of the constructors  *)
(* do.                                                                     *)
ASSUME MatrixAssumption ==
  /\ K \in Nat \ {0} /\ P \in Nat \ {0}
  /\ LET A == EncodeMatrix
     IN  /\ A.rows = N /\ A.cols = K
         /\ \A i \in Upto(N), j \in Upto(K) : A.at[i][j] \in Byte
         /\ \A i, j \in Upto(K) : A.at[i][j] = Delta(i, j)

(* The stripes' sources have one length; lists are lists of numbers.       *)
ASSUME ClientAssumption ==
  /\ \A m \in Messages :
       Count(m[0]) \in Nat /\ m \in [Upto(K) -> [Upto(Count(m[0])) -> Byte]]
  /\ \A list \in RebuildLists \cup OutShapes :
       Count(list) \in Nat /\ list \in [Upto(Count(list)) -> Nat]

(* Coder::with_kernels(matrix, set)                                        *)
CoderOn(set) ==
  with_kernels(EncodeMatrix, IF set = "scalar" THEN Scalar ELSE Kernels(set, TRUE)).ok

VARIABLES
  coders,       (* the coder on each set; they never change                *)
  stripe,       (* the N shards as encoded                                 *)
  slots,        (* what the client still has of them                       *)
  plan,         (* the decode plan it keeps                                *)
  out,          (* the output buffers of the last recovery that succeeded  *)
  last          (* the last call                                           *)

vars == <<coders, stripe, slots, plan, out, last>>

Coding == coders[KernelSet]

(* A call: its name, verdict and rebuild list, and whether its arguments   *)
(* fit the stripe (targets in range, one buffer of the stripe's length for *)
(* each).                                                                  *)
Called(op, verdict, rebuild, fits) ==
  [op |-> op, verdict |-> verdict, rebuild |-> rebuild, fits |-> fits]

NoList == [r \in {} |-> 0]
NoCall == Called("none", Fine, NoList, FALSE)

(* Sources pass through; parity follows them.                              *)
Encoded(message) ==
  LET blank  == [l \in Upto(P) |-> message[0]]
      parity == encode(Coding, message, blank)
  IN  [i \in Upto(N) |-> IF i < K THEN message[i] ELSE parity[i - K]]

Stripes == {Encoded(message) : message \in Messages}

StripeLen == Count(stripe[0])

Blank(lens) == [r \in DOMAIN lens |-> [q \in Upto(lens[r]) |-> {}]]

Fits(rebuild, lens) ==
  /\ Count(rebuild) = Count(lens)
  /\ \A r \in DOMAIN rebuild : rebuild[r] < N /\ lens[r] = StripeLen

Init ==
  /\ coders = [set \in {KernelSet} \cup PlannerSets |-> CoderOn(set)]
  /\ stripe \in Stripes
  /\ slots = stripe
  /\ plan = NoPlan
  /\ out = NoList
  /\ last = NoCall

LoseShard(i) ==
  /\ slots[i] # Lost
  /\ slots' = [slots EXCEPT ![i] = Lost]
  /\ out' = NoList
  /\ last' = NoCall
  /\ UNCHANGED <<coders, stripe, plan>>

(* Another stripe from the same devices: the same slots are lost.          *)
NextStripe ==
  /\ stripe' \in Stripes
  /\ slots' = [i \in Upto(N) |-> IF slots[i] = Lost THEN Lost ELSE stripe'[i]]
  /\ out' = NoList
  /\ last' = NoCall
  /\ UNCHANGED <<coders, plan>>

(* plan = c.decode_plan(&present[..n], rebuild)?, c the coder on a set     *)
CallDecodePlan(set, n, rebuild) ==
  LET c       == coders[set]
      present == [i \in Upto(n) |-> slots[i] # Lost]
      verdict == decode_plan_verdict(c, present, rebuild)
  IN  /\ plan' = IF verdict = Fine THEN decode_plan(c, present, rebuild) ELSE plan
      /\ last' = Called("decode_plan", verdict, rebuild, FALSE)
      /\ out' = NoList
      /\ UNCHANGED <<coders, stripe, slots>>

(* coder.recover_with(&plan, &slots, &mut out)                             *)
CallRecoverWith(lens) ==
  /\ plan # NoPlan
  /\ LET verdict == recover_with_verdict(Coding, plan, slots, Blank(lens))
     IN  /\ out' = IF verdict = Fine THEN recover_with(plan, slots, Blank(lens))
                   ELSE NoList
         /\ last' = Called("recover_with", verdict, plan.rebuild,
                           Fits(plan.rebuild, lens))
  /\ UNCHANGED <<coders, stripe, slots, plan>>

(* coder.recover(&slots, rebuild, &mut out)                                *)
CallRecover(rebuild, lens) ==
  /\ LET verdict == recover_verdict(Coding, slots, rebuild, Blank(lens))
     IN  /\ out' = IF verdict = Fine
                   THEN recover(Coding, slots, rebuild, Blank(lens))
                   ELSE NoList
         /\ last' = Called("recover", verdict, rebuild, Fits(rebuild, lens))
  /\ UNCHANGED <<coders, stripe, slots, plan>>

(* The client puts what a recovery returned back into the slots.           *)
Install ==
  /\ last.op \in {"recover", "recover_with"}
  /\ last.verdict = Fine
  /\ slots' = [i \in Upto(N) |->
                 LET at == {r \in DOMAIN out : last.rebuild[r] = i}
                 IN  IF at = {} THEN slots[i] ELSE out[Max(at)]]
  /\ out' = NoList
  /\ last' = NoCall
  /\ UNCHANGED <<coders, stripe, plan>>

Next ==
  \/ \E i \in Upto(N) : LoseShard(i)
  \/ NextStripe
  \/ \E set \in PlannerSets, n \in {N - 1, N}, rebuild \in RebuildLists :
       CallDecodePlan(set, n, rebuild)
  \/ \E lens \in OutShapes : CallRecoverWith(lens)
  \/ \E rebuild \in RebuildLists, lens \in OutShapes : CallRecover(rebuild, lens)
  \/ Install

Spec == Init /\ [][Next]_vars
-----------------------------------------------------------------------------
Here == {i \in Upto(N) : slots[i] # Lost}

Recovering == last.op \in {"recover", "recover_with"}

(* Every shard in a slot is the one that was encoded there, through any    *)
(* sequence of losses and rebuilds from rebuilt shards: a recovery never   *)
(* plants wrong bytes.                                                     *)
SlotsTruthful == \A i \in Here : slots[i] = stripe[i]

(* A recovery that succeeds returns the shards that were encoded, sources  *)
(* and parity alike, whatever happened since its plan was made.            *)
RecoveredIsOriginal ==
  Recovering /\ last.verdict = Fine =>
    \A r \in DOMAIN out : out[r] = stripe[last.rebuild[r]]

(* The one-shot recovery of well-formed arguments succeeds with any K of   *)
(* the shards - no survivor selection is singular - and with fewer it says *)
(* exactly how many are missing.  (An empty rebuild list is the subject of *)
(* NeverPanics.)                                                           *)
AnyKSuffice ==
  last.op = "recover" /\ last.fits /\ last.rebuild # NoList =>
    last.verdict = IF Cardinality(Here) >= K THEN Fine
                   ELSE [kind |-> "TooManyMissing", detail |-> N - Cardinality(Here)]

(* A plan serves every stripe that still has the survivors it was made of, *)
(* and is refused, never misapplied, once one of them is gone.  One with   *)
(* tables shorter than the coder reads is never applied either: the kernel *)
(* asserts.                                                                *)
PlanNeedsItsSurvivors ==
  last.op = "recover_with" /\ last.fits /\ last.rebuild # NoList =>
    last.verdict.kind =
      IF \E t \in Upto(K) : plan.survivors[t] \notin Here THEN "TooManyMissing"
      ELSE IF plan.gftbls.format # Coding.kernels.format THEN "panic"
      ELSE "Ok"

(* The promise of ErasureStore, with the buffers a successful recovery     *)
(* wrote as the answer.                                                    *)
Store == INSTANCE ErasureStore WITH
  Written <- [Upto(N) -> Buffers({Count(m[0]) : m \in Messages})],
  Targets <- {list \in RebuildLists : \A r \in DOMAIN list : list[r] < N},
  Missing <- Lost,
  Refused <- NoPlan,
  value   <- stripe,
  held    <- slots,
  answer  <- IF Recovering /\ last.verdict = Fine THEN out ELSE NoPlan

KeepsPromise == Store!Spec
-----------------------------------------------------------------------------
(* error.rs:4-7 of every public entry point: it "checks its inputs and     *)
(* returns one of these errors instead of reading out of bounds or         *)
(* panicking".                                                             *)
NeverPanics == last.verdict.kind # "panic"

(* error.rs:111 of TooManyMissing: "More shards are missing than the code  *)
(* can repair".                                                            *)
TooManyMeansTooMany ==
  last.verdict.kind = "TooManyMissing" => N - Cardinality(Here) > N - K

=============================================================================
