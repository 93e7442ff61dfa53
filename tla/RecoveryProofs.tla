--------------------------- MODULE RecoveryProofs ---------------------------
(***************************************************************************)
(* Recovery, for every field in which the laws of FieldLaws hold, every    *)
(* encode matrix with the identity on top, every stripe, every list of     *)
(* shards to rebuild and every history of losses, plans, repairs and       *)
(* changes of stripe: a recovery that succeeds returns what was encoded, a *)
(* plan serves as long as its survivors do, ErasureStore's promise is      *)
(* kept, and over a matrix of regular selections any K shards suffice.     *)
(***************************************************************************)
EXTENDS Recovery, CoderProofs

-----------------------------------------------------------------------------
(* The inductive invariant.  A slot is lost or true; the plan, if there is *)
(* one, serves every stripe; an answer is the truth of the stripe at hand. *)

CodersBuilt ==
  \A set \in {KernelSet} \cup PlannerSets :
    /\ coders[set].matrix = EncodeMatrix
    /\ coders[set].gftbls.coeffs = parity_bytes(EncodeMatrix)

IsStripe == \E len \in Nat : Stripe(stripe, EncodeMatrix, N, K, len)

WrittenStripes == [Upto(N) -> Buffers({Count(m[0]) : m \in Messages})]

SlotsTrueOrLost ==
  /\ DOMAIN slots = Upto(N)
  /\ \A i \in Upto(N) : slots[i] = Lost \/ slots[i] = stripe[i]

InTargets(list) == list \in RebuildLists /\ \A r \in DOMAIN list : list[r] < N

PlanServesAll ==
  plan # NoPlan => Serves(plan, EncodeMatrix, N, K) /\ InTargets(plan.rebuild)

Truth(list) == [r \in DOMAIN list |-> stripe[list[r]]]

AnswerTrue ==
  Recovering /\ last.verdict = Fine =>
    InTargets(last.rebuild) /\ out = Truth(last.rebuild)

IInv ==
  /\ CodersBuilt
  /\ IsStripe /\ stripe \in WrittenStripes
  /\ SlotsTrueOrLost
  /\ PlanServesAll
  /\ AnswerTrue

LEMMA Sizes ==
  /\ K \in Nat \ {0} /\ P \in Nat \ {0} /\ N \in Nat /\ K <= N /\ N = K + P
  /\ Systematic(EncodeMatrix, N, K)
  BY MatrixAssumption DEF N, Systematic

LEMMA TargetShape ==
  ASSUME NEW list, InTargets(list)
  PROVE  list \in [Upto(Count(list)) -> Upto(N)] /\ Count(list) \in Nat
  <1>1. Count(list) \in Nat /\ list \in [Upto(Count(list)) -> Nat]
    BY ClientAssumption DEF InTargets
  <1>2. \A r \in DOMAIN list : list[r] \in Upto(N)
    BY <1>1, Sizes DEF InTargets, Upto
  <1>3. QED
    BY <1>1, <1>2

LEMMA BlankShape ==
  ASSUME NEW lens \in OutShapes
  PROVE  /\ Count(lens) \in Nat
         /\ DOMAIN Blank(lens) = Upto(Count(lens))
         /\ Count(Blank(lens)) = Count(lens)
         /\ \A r \in DOMAIN Blank(lens) :
              /\ Count(Blank(lens)[r]) \in Nat
              /\ DOMAIN Blank(lens)[r] = Upto(Count(Blank(lens)[r]))
  <1>1. Count(lens) \in Nat /\ lens \in [Upto(Count(lens)) -> Nat]
    BY ClientAssumption
  <1>2. DOMAIN Blank(lens) = Upto(Count(lens))
    BY <1>1 DEF Blank
  <1>3. ASSUME NEW r \in DOMAIN Blank(lens)
        PROVE  /\ Count(Blank(lens)[r]) \in Nat
               /\ DOMAIN Blank(lens)[r] = Upto(Count(Blank(lens)[r]))
    <2>1. DOMAIN Blank(lens)[r] = Upto(lens[r]) /\ lens[r] \in Nat
      BY <1>1, <1>3 DEF Blank
    <2>2. Count(Blank(lens)[r]) = lens[r]
      BY <2>1, CountOf
    <2>3. QED
      BY <2>1, <2>2
  <1>4. QED
    BY <1>1, <1>2, <1>3, CountOf

(* Every stripe the clients write is a stripe of the matrix.               *)
LEMMA StripesAreStripes ==
  ASSUME CodersBuilt, NEW s \in Stripes
  PROVE  /\ \E len \in Nat : Stripe(s, EncodeMatrix, N, K, len)
         /\ s \in WrittenStripes
  <1>1. PICK m \in Messages : s = Encoded(m)
    BY DEF Stripes
  <1> DEFINE len == Count(m[0])
             blank == [l \in Upto(P) |-> m[0]]
  <1>2. len \in Nat /\ m \in [Upto(K) -> [Upto(len) -> Byte]]
    BY ClientAssumption
  <1>3. DOMAIN blank = Upto(P) /\ \A l \in Upto(P) : DOMAIN blank[l] = Upto(len)
    BY <1>2, Sizes DEF Upto
  <1>4. s = Assembled(m, encode(Coding, m, blank), K + P, K)
    BY <1>1 DEF Encoded, Assembled, N
  <1>5. Coding.matrix = EncodeMatrix /\ Coding.gftbls.coeffs = parity_bytes(EncodeMatrix)
    BY DEF CodersBuilt, Coding
  <1> HIDE DEF len, blank
  <1>6. Stripe(s, EncodeMatrix, K + P, K, len)
    BY <1>2, <1>3, <1>4, <1>5, Sizes, EncodedStripe
  <1>7. Stripe(s, EncodeMatrix, N, K, len)
    BY <1>6, Sizes
  <1>8. s \in WrittenStripes
    <2>1. \A i \in Upto(N) : s[i] \in Buffers({Count(w[0]) : w \in Messages})
      BY <1>7 DEF Stripe, Buffers, len
    <2>2. s = [i \in Upto(N) |-> s[i]]
      BY <1>1 DEF Encoded
    <2>3. QED
      BY <2>1, <2>2 DEF WrittenStripes
  <1>9. QED
    BY <1>2, <1>7, <1>8

LEMMA InitHolds == Init => IInv
  <1> SUFFICES ASSUME Init PROVE IInv
    OBVIOUS
  <1>1. CodersBuilt
    <2>1. ASSUME NEW set \in {KernelSet} \cup PlannerSets
          PROVE  coders[set] = CoderOn(set)
      BY DEF Init
    <2>2. \A set : /\ CoderOn(set).matrix = EncodeMatrix
                   /\ CoderOn(set).gftbls.coeffs = parity_bytes(EncodeMatrix)
      <3>1. ~(EncodeMatrix.rows <= EncodeMatrix.cols)
        BY Sizes DEF Systematic
      <3>2. QED
        BY <3>1 DEF CoderOn, with_kernels, Ok, init
    <2>3. QED
      BY <2>1, <2>2 DEF CodersBuilt
  <1>2. IsStripe /\ stripe \in WrittenStripes
    BY <1>1, StripesAreStripes DEF Init, IsStripe
  <1>3. SlotsTrueOrLost
    BY <1>2 DEF Init, SlotsTrueOrLost, WrittenStripes
  <1>4. PlanServesAll /\ AnswerTrue
    BY DEF Init, PlanServesAll, AnswerTrue, Recovering, NoCall, Called
  <1>5. QED
    BY <1>1, <1>2, <1>3, <1>4 DEF IInv
-----------------------------------------------------------------------------
(* A recovery that is not refused tells the truth.                         *)

LEMMA SlotLength ==
  ASSUME NEW len \in Nat, Stripe(stripe, EncodeMatrix, N, K, len), SlotsTrueOrLost,
         NEW i \in Upto(N), slots[i] # Lost
  PROVE  slots[i] = stripe[i] /\ Count(slots[i]) = len
  <1>1. slots[i] = stripe[i] /\ DOMAIN stripe[i] = Upto(len)
    BY DEF SlotsTrueOrLost, Stripe
  <1>2. QED
    BY <1>1, CountOf

LEMMA PlanTellsTruth ==
  ASSUME IInv, plan # NoPlan, NEW lens \in OutShapes,
         recover_with_verdict(Coding, plan, slots, Blank(lens)) = Fine
  PROVE  InTargets(plan.rebuild)
         /\ recover_with(plan, slots, Blank(lens)) = Truth(plan.rebuild)
  <1> DEFINE bufs == Blank(lens)
  <1>1. PICK len \in Nat : Stripe(stripe, EncodeMatrix, N, K, len)
    BY DEF IInv, IsStripe
  <1>2. InTargets(plan.rebuild) /\ Serves(plan, EncodeMatrix, N, K)
    BY DEF IInv, PlanServesAll
  <1>3. plan.survivors \in [Upto(K) -> Upto(N)]
    BY <1>2 DEF Serves
  <1>4. /\ Count(bufs) = Count(plan.rebuild)
        /\ \A t \in Upto(K) :
             /\ slots[plan.survivors[t]] # Lost
             /\ Count(slots[plan.survivors[t]]) = FirstLen(bufs)
        /\ \A r \in DOMAIN bufs : Count(bufs[r]) = FirstLen(bufs)
    BY <1>3, ApplicationAccepted
  <1>5. \A t \in Upto(K) :
          /\ slots[plan.survivors[t]] = stripe[plan.survivors[t]]
          /\ Count(slots[plan.survivors[t]]) = len
    BY <1>1, <1>3, <1>4, SlotLength DEF IInv
  <1>6. 0 \in Upto(K)
    BY Sizes DEF Upto
  <1>7. FirstLen(bufs) = len
    BY <1>4, <1>5, <1>6
  <1>8. DOMAIN bufs = DOMAIN plan.rebuild
    BY <1>2, <1>4, TargetShape, BlankShape
  <1>9. \A r \in DOMAIN bufs : DOMAIN bufs[r] = Upto(len)
    BY <1>4, <1>7, BlankShape
  <1> HIDE DEF bufs
  <1>10. recover_with(plan, slots, bufs)
           = [r \in DOMAIN plan.rebuild |-> stripe[plan.rebuild[r]]]
    BY <1>1, <1>2, <1>5, <1>8, <1>9, Sizes, PlanRebuilds
  <1>11. QED
    BY <1>2, <1>10 DEF Truth, bufs

(* The plan a call makes serves, from then on, every stripe.               *)
LEMMA PlanMadeServes ==
  ASSUME NEW c, c.matrix = EncodeMatrix, NEW present, NEW rebuild \in RebuildLists,
         NEW there \in SUBSET Upto(N), there = {i \in DOMAIN present : present[i]},
         \A r \in DOMAIN rebuild : ~(rebuild[r] >= c.matrix.rows),
         Cardinality(there) >= CoderK(c),
         IsOk(DecodeMatrix(c, Smallest(there, CoderK(c))))
  PROVE  /\ InTargets(rebuild)
         /\ Serves(decode_plan(c, present, rebuild), EncodeMatrix, N, K)
         /\ decode_plan(c, present, rebuild).rebuild = rebuild
         /\ decode_plan(c, present, rebuild).survivors \in [Upto(K) -> there]
  <1>1. CoderK(c) = K /\ c.matrix.rows = N
    BY Sizes DEF CoderK, Systematic
  <1>2. IsFiniteSet(there)
    BY Sizes, UptoFinite, FS_Subset
  <1>3. K <= Cardinality(there)
    BY <1>1, <1>2, Sizes, FS_CardinalityType
  <1>4. InTargets(rebuild)
    <2>1. rebuild \in [Upto(Count(rebuild)) -> Nat]
      BY ClientAssumption
    <2>2. QED
      BY <1>1, <2>1, Sizes DEF InTargets
  <1>5. Count(rebuild) \in Nat /\ rebuild \in [Upto(Count(rebuild)) -> Upto(N)]
    BY <1>4, TargetShape
  <1>6. IsOk(DecodeMatrix(c, Smallest(there, K)))
    BY <1>1
  <1>7. QED
    BY <1>3, <1>4, <1>5, <1>6, Sizes, PlanServes

LEMMA RecoverTellsTruth ==
  ASSUME IInv, NEW rebuild \in RebuildLists, NEW lens \in OutShapes,
         recover_verdict(Coding, slots, rebuild, Blank(lens)) = Fine
  PROVE  InTargets(rebuild)
         /\ recover(Coding, slots, rebuild, Blank(lens)) = Truth(rebuild)
  <1> DEFINE bufs == Blank(lens)
             there == PresentIn(slots)
             present == Present(slots)
             made == decode_plan(Coding, present, rebuild)
  <1>1. PICK len \in Nat : Stripe(stripe, EncodeMatrix, N, K, len)
    BY DEF IInv, IsStripe
  <1>2. Coding.matrix = EncodeMatrix /\ CoderK(Coding) = K
    BY Sizes DEF IInv, CodersBuilt, Coding, CoderK, Systematic
  <1>3. DOMAIN slots = Upto(N)
    BY DEF IInv, SlotsTrueOrLost
  <1>4. there = {i \in DOMAIN present : present[i]} /\ there \in SUBSET Upto(N)
    BY <1>3 DEF Present, PresentIn
  <1>5. /\ Count(bufs) = Count(rebuild)
        /\ \A r \in DOMAIN rebuild : ~(rebuild[r] >= Coding.matrix.rows)
        /\ Cardinality(there) >= CoderK(Coding)
        /\ IsOk(DecodeMatrix(Coding, Smallest(there, CoderK(Coding))))
        /\ \A r \in DOMAIN bufs :
             Count(bufs[r]) = Count(slots[Smallest(there, CoderK(Coding))[0]])
    BY RecoverAccepted
  <1>6. /\ InTargets(rebuild)
        /\ Serves(made, EncodeMatrix, N, K)
        /\ made.rebuild = rebuild
        /\ made.survivors \in [Upto(K) -> there]
    <2> HIDE DEF there, present, made, bufs
    <2>1. QED
      BY <1>2, <1>4, <1>5, PlanMadeServes DEF made
  <1>7. \A t \in Upto(K) : slots[made.survivors[t]] = stripe[made.survivors[t]]
    BY <1>1, <1>3, <1>6, SlotLength DEF IInv, PresentIn
  <1>8. Smallest(there, K)[0] \in there
    <2>1. IsFiniteSet(there) /\ there \in SUBSET Nat
      <3>1. Upto(N) \in SUBSET Nat
        BY DEF Upto
      <3>2. QED
        BY <1>4, <3>1, Sizes, UptoFinite, FS_Subset
    <2>2. K <= Cardinality(there) /\ 0 \in Upto(K)
      BY <1>2, <1>5, <2>1, Sizes, FS_CardinalityType DEF Upto
    <2> HIDE DEF there
    <2>3. Smallest(there, K) \in [Upto(K) -> there]
      BY <2>1, <2>2, Sizes, SmallestIn
    <2>4. QED
      BY <2>2, <2>3
  <1>9. \A r \in DOMAIN bufs : Count(bufs[r]) = len
    <2>1. Count(slots[Smallest(there, K)[0]]) = len
      BY <1>1, <1>3, <1>8, SlotLength DEF IInv, PresentIn
    <2>2. QED
      BY <1>2, <1>5, <2>1
  <1>10. DOMAIN bufs = DOMAIN rebuild /\ \A r \in DOMAIN bufs : DOMAIN bufs[r] = Upto(len)
    BY <1>5, <1>6, <1>9, TargetShape, BlankShape
  <1>11. recover(Coding, slots, rebuild, bufs) = recover_with(made, slots, bufs)
    BY DEF recover
  <1> HIDE DEF bufs, made, there, present
  <1>12. recover_with(made, slots, bufs)
           = [r \in DOMAIN made.rebuild |-> stripe[made.rebuild[r]]]
    BY <1>1, <1>6, <1>7, <1>10, Sizes, PlanRebuilds
  <1>13. QED
    BY <1>6, <1>11, <1>12 DEF Truth, bufs
-----------------------------------------------------------------------------
(* Every step keeps the invariant.                                         *)

LEMMA MaxAt ==
  ASSUME NEW n \in Nat, NEW at \in SUBSET Upto(n), at # {}
  PROVE  Max(at) \in at
  <1>1. Upto(n) \in SUBSET Int
    BY DEF Upto
  <1>2. IsFiniteSet(at) /\ at \in SUBSET Int
    BY <1>1, UptoFinite, FS_Subset
  <1>3. QED
    BY <1>2, MaxIn

(* What Install puts back is what was there.                               *)
LEMMA InstalledIsTrue ==
  ASSUME IInv, Install
  PROVE  /\ InTargets(last.rebuild)
         /\ slots' = [i \in Upto(N) |->
                        IF \E r \in DOMAIN last.rebuild : last.rebuild[r] = i
                        THEN stripe[i] ELSE slots[i]]
  <1>1. InTargets(last.rebuild) /\ out = Truth(last.rebuild)
    BY DEF IInv, AnswerTrue, Install, Recovering
  <1>2. DOMAIN out = DOMAIN last.rebuild
    BY <1>1 DEF Truth
  <1> DEFINE Found(i) == {r \in DOMAIN last.rebuild : last.rebuild[r] = i}
  <1>3. slots' = [i \in Upto(N) |->
                    IF Found(i) = {} THEN slots[i] ELSE out[Max(Found(i))]]
    BY <1>2 DEF Install
  <1>4. ASSUME NEW i \in Upto(N)
        PROVE  (IF Found(i) = {} THEN slots[i] ELSE out[Max(Found(i))])
                 = IF \E r \in DOMAIN last.rebuild : last.rebuild[r] = i
                   THEN stripe[i] ELSE slots[i]
    <2>1. CASE Found(i) = {}
      BY <2>1
    <2>2. CASE Found(i) # {}
      <3>1. Max(Found(i)) \in Found(i)
        <4> DEFINE at == Found(i)
        <4>1. /\ at \in SUBSET Upto(Count(last.rebuild)) /\ at # {}
              /\ Count(last.rebuild) \in Nat
          BY <1>1, <2>2, TargetShape
        <4> HIDE DEF at
        <4>2. Max(at) \in at
          BY <4>1, MaxAt
        <4>3. QED
          BY <4>2 DEF at
      <3> DEFINE r == Max(Found(i))
      <3> HIDE DEF r
      <3>2. r \in DOMAIN last.rebuild /\ last.rebuild[r] = i
        BY <3>1 DEF r
      <3>3. out[r] = stripe[i]
        BY <1>1, <3>2 DEF Truth
      <3>4. QED
        BY <2>2, <3>2, <3>3 DEF r
    <2>3. QED
      BY <2>1, <2>2
  <1> HIDE DEF Found
  <1>5. QED
    BY <1>1, <1>3, <1>4

LEMMA LoseShardHolds ==
  ASSUME IInv, NEW i \in Upto(N), LoseShard(i)
  PROVE  IInv'
  <1>1. SlotsTrueOrLost'
    BY DEF IInv, SlotsTrueOrLost, LoseShard
  <1>2. AnswerTrue'
    BY DEF AnswerTrue, Recovering, LoseShard, NoCall, Called
  <1>3. QED
    BY <1>1, <1>2 DEF IInv, CodersBuilt, IsStripe, PlanServesAll, LoseShard

LEMMA NextStripeHolds ==
  ASSUME IInv, NextStripe
  PROVE  IInv'
  <1>1. stripe' \in Stripes /\ coders' = coders
    BY DEF NextStripe
  <1>2. CodersBuilt /\ CodersBuilt'
    BY <1>1 DEF IInv, CodersBuilt
  <1>3. (\E len \in Nat : Stripe(stripe', EncodeMatrix, N, K, len))
        /\ stripe' \in WrittenStripes
    BY <1>1, <1>2, StripesAreStripes
  <1>4. IsStripe'
    BY <1>3 DEF IsStripe
  <1>5. SlotsTrueOrLost'
    BY DEF IInv, SlotsTrueOrLost, NextStripe
  <1>6. AnswerTrue'
    BY DEF AnswerTrue, Recovering, NextStripe, NoCall, Called
  <1>7. PlanServesAll'
    BY DEF IInv, PlanServesAll, NextStripe
  <1>8. QED
    BY <1>2, <1>3, <1>4, <1>5, <1>6, <1>7 DEF IInv

LEMMA CallDecodePlanHolds ==
  ASSUME IInv, NEW set \in PlannerSets, NEW n \in {N - 1, N},
         NEW rebuild \in RebuildLists, CallDecodePlan(set, n, rebuild)
  PROVE  IInv'
  <1> DEFINE c == coders[set]
             present == [i \in Upto(n) |-> slots[i] # Lost]
             there == {i \in DOMAIN present : present[i]}
  <1>1. /\ plan' = IF decode_plan_verdict(c, present, rebuild) = Fine
                   THEN decode_plan(c, present, rebuild) ELSE plan
        /\ last'.op = "decode_plan"
        /\ UNCHANGED <<coders, stripe, slots>>
    BY DEF CallDecodePlan, Called
  <1>2. c.matrix = EncodeMatrix
    BY DEF IInv, CodersBuilt
  <1>3. there \in SUBSET Upto(N)
    BY Sizes DEF Upto
  <1>4. PlanServesAll'
    <2>1. CASE decode_plan_verdict(c, present, rebuild) = Fine
      <3>1. there = {i \in DOMAIN present : present[i]}
        OBVIOUS
      <3> HIDE DEF c, present, there
      <3>2. /\ \A r \in DOMAIN rebuild : ~(rebuild[r] >= c.matrix.rows)
            /\ Cardinality(there) >= CoderK(c)
            /\ IsOk(DecodeMatrix(c, Smallest(there, CoderK(c))))
        BY <2>1, <3>1, PlanAccepted
      <3>3. /\ InTargets(rebuild)
            /\ Serves(decode_plan(c, present, rebuild), EncodeMatrix, N, K)
            /\ decode_plan(c, present, rebuild).rebuild = rebuild
        BY <1>2, <1>3, <3>1, <3>2, PlanMadeServes
      <3>4. plan' = decode_plan(c, present, rebuild)
        BY <1>1, <2>1
      <3>5. QED
        BY <3>3, <3>4 DEF PlanServesAll, InTargets
    <2>2. CASE decode_plan_verdict(c, present, rebuild) # Fine
      BY <1>1, <2>2 DEF IInv, PlanServesAll
    <2>3. QED
      BY <2>1, <2>2
  <1>5. AnswerTrue'
    BY <1>1 DEF AnswerTrue, Recovering
  <1> HIDE DEF c, present, there
  <1>6. QED
    BY <1>1, <1>4, <1>5 DEF IInv, CodersBuilt, IsStripe, SlotsTrueOrLost

LEMMA CallRecoverWithHolds ==
  ASSUME IInv, NEW lens \in OutShapes, CallRecoverWith(lens)
  PROVE  IInv'
  <1> DEFINE verdict == recover_with_verdict(Coding, plan, slots, Blank(lens))
  <1>1. /\ plan # NoPlan
        /\ verdict = Fine => out' = recover_with(plan, slots, Blank(lens))
        /\ last'.verdict = verdict /\ last'.rebuild = plan.rebuild
        /\ UNCHANGED <<coders, stripe, slots, plan>>
    BY DEF CallRecoverWith, Called
  <1>2. ASSUME verdict = Fine
        PROVE  InTargets(plan.rebuild) /\ out' = Truth(plan.rebuild)
    BY <1>1, <1>2, PlanTellsTruth
  <1> HIDE DEF verdict
  <1>3. AnswerTrue'
    BY <1>1, <1>2 DEF AnswerTrue, Truth, InTargets
  <1>4. QED
    BY <1>1, <1>3 DEF IInv, CodersBuilt, IsStripe, SlotsTrueOrLost, PlanServesAll

LEMMA CallRecoverHolds ==
  ASSUME IInv, NEW rebuild \in RebuildLists, NEW lens \in OutShapes,
         CallRecover(rebuild, lens)
  PROVE  IInv'
  <1> DEFINE verdict == recover_verdict(Coding, slots, rebuild, Blank(lens))
  <1>1. /\ verdict = Fine => out' = recover(Coding, slots, rebuild, Blank(lens))
        /\ last'.verdict = verdict /\ last'.rebuild = rebuild
        /\ UNCHANGED <<coders, stripe, slots, plan>>
    BY DEF CallRecover, Called
  <1>2. ASSUME verdict = Fine
        PROVE  InTargets(rebuild) /\ out' = Truth(rebuild)
    BY <1>1, <1>2, RecoverTellsTruth
  <1> HIDE DEF verdict
  <1>3. AnswerTrue'
    BY <1>1, <1>2 DEF AnswerTrue, Truth, InTargets
  <1>4. QED
    BY <1>1, <1>3 DEF IInv, CodersBuilt, IsStripe, SlotsTrueOrLost, PlanServesAll

LEMMA InstallHolds ==
  ASSUME IInv, Install
  PROVE  IInv'
  <1>1. slots' = [i \in Upto(N) |->
                    IF \E r \in DOMAIN last.rebuild : last.rebuild[r] = i
                    THEN stripe[i] ELSE slots[i]]
    BY InstalledIsTrue
  <1>2. UNCHANGED <<coders, stripe, plan>> /\ last' = NoCall
    BY DEF Install
  <1>3. SlotsTrueOrLost'
    BY <1>1, <1>2 DEF IInv, SlotsTrueOrLost
  <1>4. AnswerTrue'
    BY <1>2 DEF AnswerTrue, Recovering, NoCall, Called
  <1>5. QED
    BY <1>2, <1>3, <1>4 DEF IInv, CodersBuilt, IsStripe, PlanServesAll

LEMMA StepHolds == IInv /\ [Next]_vars => IInv'
  <1> SUFFICES ASSUME IInv, [Next]_vars PROVE IInv'
    OBVIOUS
  <1>1. CASE UNCHANGED vars
    BY <1>1 DEF vars, IInv, CodersBuilt, IsStripe, SlotsTrueOrLost, PlanServesAll,
                AnswerTrue, Recovering, Truth
  <1>2. CASE \E i \in Upto(N) : LoseShard(i)
    BY <1>2, LoseShardHolds
  <1>3. CASE NextStripe
    BY <1>3, NextStripeHolds
  <1>4. CASE \E set \in PlannerSets, n \in {N - 1, N}, rebuild \in RebuildLists :
               CallDecodePlan(set, n, rebuild)
    BY <1>4, CallDecodePlanHolds
  <1>5. CASE \E lens \in OutShapes : CallRecoverWith(lens)
    BY <1>5, CallRecoverWithHolds
  <1>6. CASE \E rebuild \in RebuildLists, lens \in OutShapes : CallRecover(rebuild, lens)
    BY <1>6, CallRecoverHolds
  <1>7. CASE Install
    BY <1>7, InstallHolds
  <1>8. QED
    BY <1>1, <1>2, <1>3, <1>4, <1>5, <1>6, <1>7 DEF Next

THEOREM Inductive == Spec => []IInv
  BY InitHolds, StepHolds, PTL DEF Spec

(* Whatever is lost, planned, rebuilt and rebuilt again from rebuilt       *)
(* shards, a slot never holds bytes other than the encoded ones.           *)
THEOREM SlotsStayTruthful == Spec => []SlotsTruthful
  <1>1. IInv => SlotsTruthful
    BY DEF IInv, SlotsTrueOrLost, SlotsTruthful, Here
  <1>2. QED
    BY <1>1, Inductive, PTL

(* A recover or recover_with that returns Ok returns the encoded shards,   *)
(* however old its plan is.                                                *)
THEOREM RecoveryIsExact == Spec => []RecoveredIsOriginal
  <1>1. IInv => RecoveredIsOriginal
    BY DEF IInv, AnswerTrue, RecoveredIsOriginal, Truth
  <1>2. QED
    BY <1>1, Inductive, PTL
-----------------------------------------------------------------------------
(* When a plan is refused, and how.  Its tables are in the format of the   *)
(* set it was made with, one for each target and survivor.                 *)

FormatOf(set) == IF set = "affine" THEN "affine" ELSE "nibble"

CodersOn == \A set \in {KernelSet} \cup PlannerSets : coders[set].kernels.format = FormatOf(set)

PlanFits ==
  plan # NoPlan =>
    /\ plan.n = N
    /\ Count(plan.gftbls.coeffs) = Count(plan.rebuild) * K
    /\ \E set \in PlannerSets : plan.gftbls.format = FormatOf(set)

PInv == IInv /\ CodersOn /\ PlanFits /\ PlanNeedsItsSurvivors

(* The first check that raises an error decides.                           *)
LEMMA FirstError ==
  ASSUME NEW n \in Nat, NEW checks, DOMAIN checks = 1..n, 1 \in 1..n,
         NEW kind, kind # "Ok", NEW detail, checks[1] = Raise(kind, detail)
  PROVE  Verdict(checks) # Fine /\ Verdict(checks).kind = kind
  <1> DEFINE failed == {i \in DOMAIN checks : checks[i] # {}}
  <1>1. failed \in SUBSET Int /\ IsFiniteSet(failed) /\ failed \in SUBSET (1..n)
    <2>1. failed \in SUBSET (1..n) /\ IsFiniteSet(1..n)
      BY FS_Interval
    <2>2. QED
      BY <2>1, FS_Subset
  <1>2. 1 \in failed
    BY DEF Raise
  <1> HIDE DEF failed
  <1>3. Min(failed) \in failed /\ \A y \in failed : Min(failed) <= y
    BY <1>1, <1>2, MinIn
  <1>4. Min(failed) = 1
    <2>1. Min(failed) \in 1..n /\ Min(failed) <= 1
      BY <1>1, <1>2, <1>3
    <2>2. QED
      BY <2>1
  <1>5. Verdict(checks) = CHOOSE e \in checks[1] : TRUE
    BY <1>2, <1>4 DEF Verdict, failed
  <1>6. checks[1] = {[kind |-> kind, detail |-> detail]}
    BY DEF Raise
  <1>7. Verdict(checks) = [kind |-> kind, detail |-> detail]
    BY <1>5, <1>6
  <1>8. QED
    BY <1>7 DEF Fine

LEMMA ErrorOfOne ==
  ASSUME NEW a, NEW kind, kind # "Ok", NEW detail, a = Raise(kind, detail)
  PROVE  Verdict(<<a>>) # Fine /\ Verdict(<<a>>).kind = kind
  <1> DEFINE checks == <<a>>
  <1>1. DOMAIN checks = 1..1 /\ checks[1] = Raise(kind, detail) /\ 1 \in 1..1
    OBVIOUS
  <1> HIDE DEF checks
  <1>2. Verdict(checks) # Fine /\ Verdict(checks).kind = kind
    BY <1>1, FirstError
  <1>3. QED
    BY <1>2 DEF checks

LEMMA ErrorOfTwo ==
  ASSUME NEW a, NEW b, NEW kind, kind # "Ok", NEW detail, a = Raise(kind, detail)
  PROVE  Verdict(<<a, b>>) # Fine /\ Verdict(<<a, b>>).kind = kind
  <1> DEFINE checks == <<a, b>>
  <1>1. DOMAIN checks = 1..2 /\ checks[1] = Raise(kind, detail) /\ 1 \in 1..2
    OBVIOUS
  <1> HIDE DEF checks
  <1>2. Verdict(checks) # Fine /\ Verdict(checks).kind = kind
    BY <1>1, FirstError
  <1>3. QED
    BY <1>2 DEF checks

LEMMA NoError ==
  /\ Verdict(<<{}>>) = Fine
  /\ Verdict(<<{}, {}>>) = Fine
  <1>1. {i \in DOMAIN <<{}>> : <<{}>>[i] # {}} = {}
    OBVIOUS
  <1>2. {i \in DOMAIN <<{}, {}>> : <<{}, {}>>[i] # {}} = {}
    OBVIOUS
  <1>3. QED
    BY <1>1, <1>2 DEF Verdict

(* Buffers that fit the stripe have the length of each of its shards.      *)
LEMMA FittingBuffers ==
  ASSUME NEW len \in Nat, Stripe(stripe, EncodeMatrix, N, K, len),
         NEW list, InTargets(list), list # NoList, NEW lens \in OutShapes, Fits(list, lens)
  PROVE  /\ Count(Blank(lens)) = Count(list) /\ Count(list) \in Nat \ {0}
         /\ FirstLen(Blank(lens)) = len
         /\ \A r \in DOMAIN Blank(lens) : Count(Blank(lens)[r]) = len
  <1>1. Count(list) \in Nat /\ DOMAIN list = Upto(Count(list))
    BY TargetShape
  <1>2. /\ Count(Blank(lens)) = Count(lens) /\ Count(lens) = Count(list)
        /\ DOMAIN Blank(lens) = DOMAIN list /\ DOMAIN lens = DOMAIN list
    BY <1>1, BlankShape, ClientAssumption DEF Fits
  <1>3. StripeLen = len
    <2>1. DOMAIN stripe[0] = Upto(len)
      BY Sizes DEF Stripe, Upto
    <2>2. QED
      BY <2>1, CountOf DEF StripeLen
  <1>4. \A r \in DOMAIN Blank(lens) : Count(Blank(lens)[r]) = len
    <2> SUFFICES ASSUME NEW r \in DOMAIN Blank(lens) PROVE Count(Blank(lens)[r]) = len
      OBVIOUS
    <2>1. lens[r] = len
      BY <1>2, <1>3 DEF Fits
    <2>2. DOMAIN Blank(lens)[r] = Upto(len)
      BY <2>1 DEF Blank
    <2>3. QED
      BY <2>2, CountOf
  <1>5. Count(list) # 0
    <2>1. SUFFICES ASSUME Count(list) = 0 PROVE FALSE
      OBVIOUS
    <2>2. DOMAIN list = {}
      BY <1>1, <2>1 DEF Upto
    <2>3. list = [r \in DOMAIN list |-> list[r]]
      BY TargetShape
    <2>4. list = NoList
      BY <2>2, <2>3 DEF NoList
    <2>5. QED
      BY <2>4
  <1>6. 0 \in DOMAIN Blank(lens)
    BY <1>1, <1>2, <1>5 DEF Upto
  <1>7. FirstLen(Blank(lens)) = len
    BY <1>2, <1>4, <1>5, <1>6 DEF FirstLen
  <1>8. QED
    BY <1>1, <1>2, <1>4, <1>5, <1>7

(* The look at the survivors, when those that are there have the length.   *)
LEMMA SurvivorsJudged ==
  ASSUME NEW len \in Nat, NEW survivors \in [Upto(K) -> Upto(N)], plan.survivors = survivors,
         \A t \in Upto(K) : slots[survivors[t]] # Lost => Count(slots[survivors[t]]) = len
  PROVE  SurvivorCheck(plan, slots, len) =
           IF \E t \in Upto(K) : slots[survivors[t]] = Lost
           THEN Raise("TooManyMissing", 1) ELSE {}
  <1> DEFINE src == PlannedSources(plan, slots)
             bad == {t \in DOMAIN src : src[t] = Lost \/ Count(src[t]) # len}
             gone == {t \in Upto(K) : slots[survivors[t]] = Lost}
  <1>1. DOMAIN src = Upto(K) /\ \A t \in Upto(K) : src[t] = slots[survivors[t]]
    BY DEF PlannedSources
  <1>2. bad = gone
    BY <1>1
  <1>3. SurvivorCheck(plan, slots, len) =
          IF bad = {} THEN {}
          ELSE IF src[Min(bad)] = Lost THEN Raise("TooManyMissing", 1)
          ELSE Raise("ShardLength", plan.survivors[Min(bad)])
    BY DEF SurvivorCheck
  <1>4. CASE gone = {}
    BY <1>2, <1>3, <1>4
  <1>5. CASE gone # {}
    <2>1. Upto(K) \in SUBSET Int
      BY DEF Upto
    <2>2. IsFiniteSet(gone) /\ gone \in SUBSET Int
      BY <2>1, Sizes, UptoFinite, FS_Subset
    <2>3. Min(gone) \in gone
      <3> HIDE DEF gone
      <3>1. QED
        BY <1>5, <2>2, MinIn
    <2>4. src[Min(bad)] = Lost
      BY <1>1, <1>2, <2>3
    <2> HIDE DEF src, bad
    <2>5. SurvivorCheck(plan, slots, len) = Raise("TooManyMissing", 1)
      BY <1>2, <1>3, <1>5, <2>4
    <2>6. QED
      BY <1>5, <2>5
  <1>6. QED
    BY <1>4, <1>5

(* The kernel's assertions, when every buffer has the length: the tables   *)
(* are long enough exactly if they are in the format the coder reads.      *)
LEMMA TablesJudged ==
  ASSUME CodersOn, PlanFits, plan # NoPlan, NEW len \in Nat,
         NEW m \in Nat \ {0}, Count(plan.rebuild) = m,
         NEW src, DOMAIN src = Upto(K), \A t \in Upto(K) : Count(src[t]) = len,
         NEW bufs, Count(bufs) = m, FirstLen(bufs) = len,
         \A r \in DOMAIN bufs : Count(bufs[r]) = len
  PROVE  KernelAsserts(Coding.kernels, plan.gftbls, src, bufs) =
           IF plan.gftbls.format # Coding.kernels.format THEN Raise("panic", 0) ELSE {}
  <1> DEFINE e == m * K
             reads == Coding.kernels.format
             has == plan.gftbls.format
  <1>1. e \in Nat /\ e >= 1
    <2>1. m \in Nat /\ m >= 1 /\ K \in Nat /\ K >= 1
      BY Sizes
    <2> HIDE DEF e
    <2>2. QED
      BY <2>1 DEF e
  <1>2. Count(src) = K /\ Count(plan.gftbls.coeffs) = e
    BY Sizes, CountOf DEF PlanFits
  <1>3. KernelAsserts(Coding.kernels, plan.gftbls, src, bufs) =
          IF e * TableBytes(has) < e * TableBytes(reads) THEN Raise("panic", 0) ELSE {}
    BY <1>2 DEF KernelAsserts
  <1>4. PICK set \in PlannerSets : has = FormatOf(set)
    BY DEF PlanFits
  <1>5. reads = FormatOf(KernelSet)
    BY DEF CodersOn, Coding
  <1>6. KernelSet = "affine" => set = "affine"
    BY <1>4, PlannerAssumption
  <1> HIDE DEF e, reads, has
  <1>7. CASE has = reads
    <2>1. TableBytes(has) \in Nat
      BY DEF TableBytes
    <2>2. e * TableBytes(has) \in Nat
      BY <1>1, <2>1
    <2>3. ~(e * TableBytes(has) < e * TableBytes(reads))
      BY <1>7, <2>2
    <2>4. QED
      BY <1>3, <1>7, <2>3 DEF has, reads
  <1>8. CASE has # reads
    <2>1. has = "affine" /\ reads = "nibble"
      BY <1>4, <1>5, <1>6, <1>8 DEF FormatOf
    <2>2. TableBytes(has) = 8 /\ TableBytes(reads) = 32
      BY <2>1 DEF TableBytes
    <2>3. e * 8 < e * 32
      BY <1>1
    <2>4. QED
      BY <1>3, <1>8, <2>2, <2>3 DEF has, reads
  <1>9. QED
    BY <1>7, <1>8

LEMMA PlanCallJudged ==
  ASSUME IInv, CodersOn, PlanFits, plan # NoPlan, NEW lens \in OutShapes,
         Fits(plan.rebuild, lens), plan.rebuild # NoList
  PROVE  recover_with_verdict(Coding, plan, slots, Blank(lens)).kind =
           IF \E t \in Upto(K) : plan.survivors[t] \notin Here THEN "TooManyMissing"
           ELSE IF plan.gftbls.format # Coding.kernels.format THEN "panic"
           ELSE "Ok"
  <1> DEFINE bufs == Blank(lens)
             src == PlannedSources(plan, slots)
             shards == ShardCount(slots, plan.n)
             outs == ShardCount(bufs, Count(plan.rebuild))
             looked == SurvivorCheck(plan, slots, FirstLen(bufs))
             uneven == \E r \in DOMAIN bufs : Count(bufs[r]) # FirstLen(bufs)
             even == IF uneven THEN Raise("ShardLength", 0) ELSE {}
             asserts == KernelAsserts(Coding.kernels, plan.gftbls, src, bufs)
             gone == \E t \in Upto(K) : slots[plan.survivors[t]] = Lost
  <1>1. PICK len \in Nat : Stripe(stripe, EncodeMatrix, N, K, len)
    BY DEF IInv, IsStripe
  <1>2. InTargets(plan.rebuild) /\ plan.survivors \in [Upto(K) -> Upto(N)]
    BY DEF IInv, PlanServesAll, Serves
  <1>3. /\ Count(bufs) = Count(plan.rebuild) /\ Count(plan.rebuild) \in Nat \ {0}
        /\ FirstLen(bufs) = len
        /\ \A r \in DOMAIN bufs : Count(bufs[r]) = len
    BY <1>1, <1>2, FittingBuffers
  <1>4. \A t \in Upto(K) : slots[plan.survivors[t]] # Lost =>
          Count(slots[plan.survivors[t]]) = len
    BY <1>1, <1>2, SlotLength DEF IInv
  <1>5. gone <=> \E t \in Upto(K) : plan.survivors[t] \notin Here
    BY <1>2 DEF Here
  <1>6. recover_with_verdict(Coding, plan, slots, bufs) =
          IF Verdict(<<shards, outs>>) # Fine THEN Verdict(<<shards, outs>>)
          ELSE IF Verdict(<<looked, even>>) # Fine THEN Verdict(<<looked, even>>)
          ELSE Verdict(<<asserts>>)
    BY DEF recover_with_verdict
  <1>7. shards = {} /\ outs = {}
    <2>1. DOMAIN slots = Upto(N)
      BY DEF IInv, SlotsTrueOrLost
    <2>2. Count(slots) = plan.n
      BY <2>1, Sizes, CountOf DEF PlanFits
    <2>3. QED
      BY <1>3, <2>2 DEF ShardCount
  <1>8. even = {}
    BY <1>3
  <1>9. looked = IF gone THEN Raise("TooManyMissing", 1) ELSE {}
    BY <1>2, <1>3, <1>4, SurvivorsJudged
  <1>10. ~gone => asserts = IF plan.gftbls.format # Coding.kernels.format
                            THEN Raise("panic", 0) ELSE {}
    <2> SUFFICES ASSUME ~gone
                 PROVE  asserts = IF plan.gftbls.format # Coding.kernels.format
                                  THEN Raise("panic", 0) ELSE {}
      OBVIOUS
    <2>1. DOMAIN src = Upto(K) /\ \A t \in Upto(K) : Count(src[t]) = len
      BY <1>2, <1>4 DEF PlannedSources
    <2> HIDE DEF src, bufs
    <2>2. QED
      BY <1>3, <2>1, TablesJudged
  <1> HIDE DEF shards, outs, looked, even, asserts, gone
  <1>11. CASE gone
    <2>1. looked = Raise("TooManyMissing", 1)
      BY <1>9, <1>11
    <2>2. /\ Verdict(<<looked, even>>) # Fine
          /\ Verdict(<<looked, even>>).kind = "TooManyMissing"
      BY <2>1, ErrorOfTwo
    <2>3. QED
      BY <1>5, <1>6, <1>7, <1>11, <2>2, NoError
  <1>12. CASE ~gone
    <2>1. looked = {}
      BY <1>9, <1>12
    <2>2. recover_with_verdict(Coding, plan, slots, bufs) = Verdict(<<asserts>>)
      BY <1>6, <1>7, <1>8, <2>1, NoError
    <2>3. CASE plan.gftbls.format # Coding.kernels.format
      <3>1. asserts = Raise("panic", 0)
        BY <1>10, <1>12, <2>3
      <3>2. Verdict(<<asserts>>).kind = "panic"
        BY <3>1, ErrorOfOne
      <3>3. QED
        BY <1>5, <1>12, <2>2, <2>3, <3>2
    <2>4. CASE plan.gftbls.format = Coding.kernels.format
      <3>1. asserts = {}
        BY <1>10, <1>12, <2>4
      <3>2. Verdict(<<asserts>>).kind = "Ok"
        BY <3>1, NoError DEF Fine
      <3>3. QED
        BY <1>5, <1>12, <2>2, <2>4, <3>2
    <2>5. QED
      BY <2>3, <2>4
  <1>13. QED
    BY <1>11, <1>12

LEMMA PInvInit == Init => PInv
  <1> SUFFICES ASSUME Init PROVE PInv
    OBVIOUS
  <1>1. CodersOn
    <2>1. ASSUME NEW set \in {KernelSet} \cup PlannerSets
          PROVE  coders[set].kernels.format = FormatOf(set)
      <3>1. coders[set] = CoderOn(set)
        BY DEF Init
      <3>2. ~(EncodeMatrix.rows <= EncodeMatrix.cols)
        BY Sizes DEF Systematic
      <3>3. CoderOn(set).kernels = IF set = "scalar" THEN Scalar ELSE Kernels(set, TRUE)
        BY <3>2 DEF CoderOn, with_kernels, Ok
      <3>4. set \in {"scalar", "nibble", "affine"}
        BY PlannerAssumption
      <3>5. QED
        BY <3>1, <3>3, <3>4 DEF FormatOf, Scalar, Kernels
    <2>2. QED
      BY <2>1 DEF CodersOn
  <1>2. PlanFits /\ PlanNeedsItsSurvivors
    BY DEF Init, PlanFits, PlanNeedsItsSurvivors, NoCall, Called
  <1>3. QED
    BY <1>1, <1>2, InitHolds DEF PInv

(* A plan that was made has a table for each target and survivor.          *)
LEMMA PlanMadeFits ==
  ASSUME IInv, CodersOn, NEW set \in PlannerSets, NEW present, NEW rebuild,
         NEW m \in Nat, Count(rebuild) = m
  PROVE  LET made == decode_plan(coders[set], present, rebuild)
         IN  /\ made.n = N
             /\ Count(made.gftbls.coeffs) = Count(made.rebuild) * K
             /\ made.gftbls.format = FormatOf(set)
  <1> DEFINE c == coders[set]
             made == decode_plan(c, present, rebuild)
             survivors == Smallest({i \in DOMAIN present : present[i]}, CoderK(c))
  <1>1. c.matrix = EncodeMatrix /\ c.kernels.format = FormatOf(set)
    BY DEF IInv, CodersBuilt, CodersOn
  <1>2. CoderK(c) = K /\ c.matrix.rows = N
    BY <1>1, Sizes DEF CoderK, Systematic
  <1>3. /\ made.n = c.matrix.rows /\ made.rebuild = rebuild
        /\ made.gftbls.format = c.kernels.format
        /\ made.gftbls.coeffs = DecodeCoeffs(c, survivors, rebuild)
    BY DEF decode_plan, init
  <1>4. DOMAIN DecodeCoeffs(c, survivors, rebuild) = Upto(m * K)
    BY <1>2 DEF DecodeCoeffs, Flat
  <1>5. m * K \in Nat
    BY Sizes
  <1>6. Count(DecodeCoeffs(c, survivors, rebuild)) = m * K
    BY <1>4, <1>5, CountOf
  <1>7. QED
    BY <1>1, <1>2, <1>3, <1>6

LEMMA PInvStep == PInv /\ [Next]_vars => PInv'
  <1> SUFFICES ASSUME PInv, [Next]_vars PROVE PInv'
    OBVIOUS
  <1>1. IInv /\ IInv'
    BY StepHolds DEF PInv
  <1>2. ASSUME coders' = coders, plan' = plan, last'.op # "recover_with"
        PROVE  PInv'
    BY <1>1, <1>2 DEF PInv, CodersOn, PlanFits, PlanNeedsItsSurvivors
  <1>3. CASE UNCHANGED vars
    BY <1>1, <1>3 DEF vars, PInv, CodersOn, PlanFits, PlanNeedsItsSurvivors, Here, Coding
  <1>4. CASE (\E i \in Upto(N) : LoseShard(i)) \/ NextStripe \/ Install
    <2>1. coders' = coders /\ plan' = plan /\ last'.op # "recover_with"
      BY <1>4 DEF LoseShard, NextStripe, Install, NoCall, Called
    <2>2. QED
      BY <1>2, <2>1
  <1>5. CASE \E rebuild \in RebuildLists, lens \in OutShapes : CallRecover(rebuild, lens)
    <2>1. coders' = coders /\ plan' = plan /\ last'.op # "recover_with"
      BY <1>5 DEF CallRecover, Called
    <2>2. QED
      BY <1>2, <2>1
  <1>6. ASSUME NEW set \in PlannerSets, NEW n \in {N - 1, N}, NEW rebuild \in RebuildLists,
               CallDecodePlan(set, n, rebuild)
        PROVE  PInv'
    <2> DEFINE c == coders[set]
               present == [i \in Upto(n) |-> slots[i] # Lost]
    <2>1. /\ plan' = plan \/ plan' = decode_plan(c, present, rebuild)
          /\ last'.op = "decode_plan" /\ coders' = coders
      BY <1>6 DEF CallDecodePlan, Called
    <2> HIDE DEF present
    <2>2. Count(rebuild) \in Nat
      BY ClientAssumption
    <2>3. PlanFits'
      <3>1. CASE plan' = plan
        BY <3>1 DEF PInv, PlanFits
      <3>2. CASE plan' = decode_plan(c, present, rebuild)
        BY <1>1, <2>2, <3>2, PlanMadeFits DEF PInv, PlanFits
      <3>3. QED
        BY <2>1, <3>1, <3>2
    <2>4. CodersOn' /\ PlanNeedsItsSurvivors'
      BY <2>1 DEF PInv, CodersOn, PlanNeedsItsSurvivors
    <2>5. QED
      BY <1>1, <2>3, <2>4 DEF PInv
  <1>7. ASSUME NEW lens \in OutShapes, CallRecoverWith(lens)
        PROVE  PInv'
    <2> DEFINE verdict == recover_with_verdict(Coding, plan, slots, Blank(lens))
    <2>1. /\ plan # NoPlan /\ coders' = coders /\ plan' = plan /\ slots' = slots
          /\ last'.verdict = verdict /\ last'.rebuild = plan.rebuild
          /\ last'.fits = Fits(plan.rebuild, lens)
      BY <1>7 DEF CallRecoverWith, Called
    <2>2. Fits(plan.rebuild, lens) /\ plan.rebuild # NoList =>
            verdict.kind =
              IF \E t \in Upto(K) : plan.survivors[t] \notin Here THEN "TooManyMissing"
              ELSE IF plan.gftbls.format # Coding.kernels.format THEN "panic"
              ELSE "Ok"
      BY <1>1, <2>1, PlanCallJudged DEF PInv
    <2> HIDE DEF verdict
    <2>3. Here' = Here /\ Coding' = Coding /\ NoList' = NoList
      BY <2>1 DEF Here, Coding, NoList
    <2>4. PlanNeedsItsSurvivors'
      BY <2>1, <2>2, <2>3 DEF PlanNeedsItsSurvivors
    <2>5. CodersOn' /\ PlanFits'
      BY <2>1 DEF PInv, CodersOn, PlanFits
    <2>6. QED
      BY <1>1, <2>4, <2>5 DEF PInv
  <1>8. QED
    BY <1>3, <1>4, <1>5, <1>6, <1>7 DEF Next

(* A plan works exactly as long as the survivors it was made of are there  *)
(* and its tables are in the coder's format: otherwise the call is refused *)
(* or panics, and is never misapplied.                                     *)
THEOREM PlanServesWhileSurvivorsDo == Spec => []PlanNeedsItsSurvivors
  <1>1. Spec => []PInv
    BY PInvInit, PInvStep, PTL DEF Spec
  <1>2. PInv => PlanNeedsItsSurvivors
    BY DEF PInv
  <1>3. QED
    BY <1>1, <1>2, PTL

-----------------------------------------------------------------------------
(* The one-shot recovery, over a matrix no selection of whose rows is      *)
(* singular.                                                               *)

Recoverable ==
  \A there \in SUBSET Upto(N) :
    Cardinality(there) >= K =>
      IsOk(invert(select_rows(EncodeMatrix, K, Smallest(there, K))))

RInv == IInv /\ AnyKSuffice

LEMMA FourthError ==
  ASSUME NEW kind, NEW detail
  PROVE  /\ Verdict(<<{}, {}, {}, Raise(kind, detail)>>) = [kind |-> kind, detail |-> detail]
         /\ Verdict(<<{}, {}, {}, {}>>) = Fine
         /\ Verdict(<<{}, {}, {}>>) = Fine
  <1> DEFINE e == [kind |-> kind, detail |-> detail]
             checks == <<{}, {}, {}, {e}>>
             failed == {i \in DOMAIN checks : checks[i] # {}}
  <1>1. failed = {4} /\ checks[4] = {e}
    <2>1. /\ DOMAIN checks = 1..4 /\ checks[1] = {} /\ checks[2] = {}
          /\ checks[3] = {} /\ checks[4] = {e}
      OBVIOUS
    <2> HIDE DEF checks, e
    <2>2. QED
      BY <2>1
  <1>2. IsFiniteSet({4})
    BY FS_Singleton
  <1>3. Min({4}) = 4
    <2>1. {4} \in SUBSET Int /\ {4} # {}
      OBVIOUS
    <2>2. Min({4}) \in {4}
      BY <1>2, <2>1, MinIn
    <2>3. QED
      BY <2>2
  <1>4. Verdict(checks) = CHOOSE x \in checks[Min(failed)] : TRUE
    <2>1. failed # {}
      BY <1>1
    <2> HIDE DEF checks
    <2>2. QED
      BY <2>1 DEF Verdict
  <1>5. Verdict(checks) = e
    BY <1>1, <1>3, <1>4
  <1>6. {i \in DOMAIN <<{}, {}, {}, {}>> : <<{}, {}, {}, {}>>[i] # {}} = {}
    OBVIOUS
  <1>7. {i \in DOMAIN <<{}, {}, {}>> : <<{}, {}, {}>>[i] # {}} = {}
    OBVIOUS
  <1>8. QED
    BY <1>5, <1>6, <1>7 DEF Verdict, Raise

LEMMA RecoverJudged ==
  ASSUME IInv, Recoverable, NEW rebuild \in RebuildLists, NEW lens \in OutShapes,
         Fits(rebuild, lens), rebuild # NoList
  PROVE  recover_verdict(Coding, slots, rebuild, Blank(lens)) =
           IF Cardinality(Here) >= K THEN Fine
           ELSE [kind |-> "TooManyMissing", detail |-> N - Cardinality(Here)]
  <1> DEFINE bufs == Blank(lens)
             there == {i \in DOMAIN slots : slots[i] # Lost}
             n == Coding.matrix.rows
             survivors == Smallest(there, CoderK(Coding))
             l0 == Count(slots[survivors[0]])
             shards == ShardCount(slots, n)
             outs == ShardCount(bufs, Count(rebuild))
             indexed == IndexCheck(rebuild, n)
             enough == MissingCheck(Coding, there)
             lengths == ShardLength([i \in there |-> slots[i]], l0, 0)
             wrong == {r \in DOMAIN bufs : Count(bufs[r]) # l0}
             even == IF wrong = {} THEN {} ELSE Raise("ShardLength", rebuild[Min(wrong)])
             regular == SingularCheck(Coding, survivors)
             tbl == init(Coding.kernels, DecodeCoeffs(Coding, survivors, rebuild))
             src == [t \in DOMAIN survivors |-> slots[survivors[t]]]
             asserts == KernelAsserts(Coding.kernels, tbl, src, bufs)
  <1>1. PICK len \in Nat : Stripe(stripe, EncodeMatrix, N, K, len)
    BY DEF IInv, IsStripe
  <1>2. Coding.matrix = EncodeMatrix /\ CoderK(Coding) = K /\ n = N
    BY Sizes DEF IInv, CodersBuilt, Coding, CoderK, Systematic
  <1>3. DOMAIN slots = Upto(N) /\ there = Here
    BY DEF IInv, SlotsTrueOrLost, Here
  <1>4. there \in SUBSET Upto(N) /\ there \in SUBSET Nat /\ IsFiniteSet(there)
        /\ Cardinality(there) \in Nat
    <2>1. there \in SUBSET Upto(N) /\ Upto(N) \in SUBSET Nat
      BY <1>3 DEF Upto
    <2> HIDE DEF there
    <2>2. QED
      BY <2>1, Sizes, UptoFinite, FS_Subset, FS_CardinalityType
  <1>5. InTargets(rebuild)
    BY DEF InTargets, Fits
  <1>6. /\ Count(bufs) = Count(rebuild) /\ Count(rebuild) \in Nat \ {0}
        /\ FirstLen(bufs) = len
        /\ \A r \in DOMAIN bufs : Count(bufs[r]) = len
    BY <1>1, <1>5, FittingBuffers
  <1>7. recover_verdict(Coding, slots, rebuild, bufs) =
          IF Verdict(<<shards, outs, indexed, enough>>) # Fine
          THEN Verdict(<<shards, outs, indexed, enough>>)
          ELSE IF Verdict(<<lengths, even, regular>>) # Fine
          THEN Verdict(<<lengths, even, regular>>)
          ELSE Verdict(<<asserts>>)
    BY DEF recover_verdict
  <1>8. shards = {} /\ outs = {} /\ indexed = {}
    <2>1. Count(slots) = N
      BY <1>3, Sizes, CountOf
    <2>2. {r \in DOMAIN rebuild : rebuild[r] >= n} = {}
      BY <1>2, <1>5, Sizes, ClientAssumption DEF InTargets
    <2>3. QED
      BY <1>2, <1>6, <2>1, <2>2 DEF ShardCount, IndexCheck
  <1>9. enough = IF Cardinality(Here) >= K THEN {}
                 ELSE Raise("TooManyMissing", N - Cardinality(Here))
    BY <1>2, <1>3 DEF MissingCheck
  <1>10. CASE ~(Cardinality(Here) >= K)
    <2> HIDE DEF shards, outs, indexed, enough, lengths, even, regular, asserts
    <2>1. Verdict(<<shards, outs, indexed, enough>>)
            = [kind |-> "TooManyMissing", detail |-> N - Cardinality(Here)]
      BY <1>8, <1>9, <1>10, FourthError
    <2>2. QED
      BY <1>7, <1>10, <2>1 DEF Fine
  <1>11. CASE Cardinality(Here) >= K
    <2>1. survivors \in [Upto(K) -> there] /\ 0 \in Upto(K)
      <3>1. 0 \in Upto(K)
        BY Sizes DEF Upto
      <3> HIDE DEF there
      <3>2. K <= Cardinality(there)
        BY <1>3, <1>4, <1>11, Sizes
      <3>3. Smallest(there, K) \in [Upto(K) -> there]
        BY <1>4, <3>2, Sizes, SmallestIn
      <3>4. QED
        BY <1>2, <3>1, <3>3
    <2>2. \A i \in there : Count(slots[i]) = len
      BY <1>1, <1>3, <1>4, SlotLength DEF IInv
    <2>3. l0 = len
      BY <2>1, <2>2
    <2>4. lengths = {} /\ even = {}
      <3>1. {i \in there : Count([x \in there |-> slots[x]][i]) # l0} = {}
        BY <2>2, <2>3
      <3>2. wrong = {}
        BY <1>6, <2>3
      <3>3. QED
        BY <3>1, <3>2 DEF ShardLength
    <2>5. regular = {}
      <3>1. IsOk(DecodeMatrix(Coding, survivors))
        BY <1>2, <1>3, <1>4, <1>11 DEF DecodeMatrix, Recoverable
      <3> HIDE DEF survivors
      <3>2. QED
        BY <3>1 DEF SingularCheck
    <2>6. asserts = {}
      <3> DEFINE m == Count(rebuild)
                 held == Count(tbl.coeffs) * TableBytes(tbl.format)
      <3>1. m * K \in Nat
        BY <1>6, Sizes
      <3>2. DOMAIN DecodeCoeffs(Coding, survivors, rebuild) = Upto(m * K)
        BY <1>2 DEF DecodeCoeffs, Flat
      <3>3. Count(tbl.coeffs) = m * K /\ tbl.format = Coding.kernels.format
        BY <3>1, <3>2, CountOf DEF init
      <3>4. DOMAIN src = Upto(K) /\ \A t \in Upto(K) : Count(src[t]) = len
        BY <2>1, <2>2
      <3>5. Count(src) = K
        BY <3>4, Sizes, CountOf
      <3>6. TableBytes(tbl.format) \in Nat
        BY DEF TableBytes
      <3> HIDE DEF src, tbl, bufs, m
      <3>7. held \in Nat /\ held = (m * K) * TableBytes(Coding.kernels.format)
        BY <3>1, <3>3, <3>6
      <3>8. KernelAsserts(Coding.kernels, tbl, src, bufs) =
              IF held < (m * K) * TableBytes(Coding.kernels.format)
              THEN Raise("panic", 0) ELSE {}
        BY <1>6, <3>4, <3>5 DEF KernelAsserts, m
      <3>9. QED
        BY <3>7, <3>8 DEF src, tbl, bufs
    <2> HIDE DEF shards, outs, indexed, enough, lengths, even, regular, asserts
    <2>7. /\ Verdict(<<shards, outs, indexed, enough>>) = Fine
          /\ Verdict(<<lengths, even, regular>>) = Fine
          /\ Verdict(<<asserts>>) = Fine
      BY <1>8, <1>9, <1>11, <2>4, <2>5, <2>6, FourthError, NoError
    <2>8. QED
      BY <1>7, <1>11, <2>7
  <1>12. QED
    BY <1>10, <1>11

LEMMA RInvStep ==
  ASSUME Recoverable, RInv, [Next]_vars
  PROVE  RInv'
  <1>1. IInv /\ IInv'
    BY StepHolds DEF RInv
  <1>2. ASSUME last'.op # "recover"
        PROVE  RInv'
    BY <1>1, <1>2 DEF RInv, AnyKSuffice
  <1>3. CASE UNCHANGED vars
    BY <1>1, <1>3 DEF vars, RInv, AnyKSuffice, Here
  <1>4. CASE \/ (\E i \in Upto(N) : LoseShard(i)) \/ NextStripe \/ Install
             \/ \E set \in PlannerSets, n \in {N - 1, N}, rebuild \in RebuildLists :
                  CallDecodePlan(set, n, rebuild)
             \/ \E lens \in OutShapes : CallRecoverWith(lens)
    <2>1. CASE (\E i \in Upto(N) : LoseShard(i)) \/ NextStripe \/ Install
      <3>1. last'.op # "recover"
        BY <2>1 DEF LoseShard, NextStripe, Install, NoCall, Called
      <3>2. QED
        BY <1>2, <3>1
    <2>2. CASE \E set \in PlannerSets, n \in {N - 1, N}, rebuild \in RebuildLists :
                 CallDecodePlan(set, n, rebuild)
      <3>1. PICK set \in PlannerSets, n \in {N - 1, N}, rebuild \in RebuildLists :
               CallDecodePlan(set, n, rebuild)
        BY <2>2
      <3>2. last'.op = "decode_plan"
        BY <3>1 DEF CallDecodePlan, Called
      <3>3. QED
        BY <1>2, <3>2
    <2>3. CASE \E lens \in OutShapes : CallRecoverWith(lens)
      <3>1. last'.op = "recover_with"
        BY <2>3 DEF CallRecoverWith, Called
      <3>2. QED
        BY <1>2, <3>1
    <2>4. QED
      BY <1>4, <2>1, <2>2, <2>3
  <1>5. ASSUME NEW rebuild \in RebuildLists, NEW lens \in OutShapes,
               CallRecover(rebuild, lens)
        PROVE  RInv'
    <2> DEFINE verdict == recover_verdict(Coding, slots, rebuild, Blank(lens))
    <2>1. /\ slots' = slots /\ last'.verdict = verdict /\ last'.rebuild = rebuild
          /\ last'.fits = Fits(rebuild, lens)
      BY <1>5 DEF CallRecover, Called
    <2>2. Fits(rebuild, lens) /\ rebuild # NoList =>
            verdict = IF Cardinality(Here) >= K THEN Fine
                      ELSE [kind |-> "TooManyMissing", detail |-> N - Cardinality(Here)]
      BY <1>1, RecoverJudged
    <2> HIDE DEF verdict
    <2>3. Here' = Here /\ NoList' = NoList
      BY <2>1 DEF Here, NoList
    <2>4. AnyKSuffice'
      BY <2>1, <2>2, <2>3 DEF AnyKSuffice
    <2>5. QED
      BY <1>1, <2>4 DEF RInv
  <1>6. QED
    BY <1>3, <1>4, <1>5 DEF Next

(* Over a matrix whose selections are all regular, the one-shot recovery   *)
(* never fails while K shards are left, and says exactly how many are      *)
(* missing when fewer are.                                                 *)
THEOREM AnyKSufficeIfRegular ==
  ASSUME Recoverable
  PROVE  Spec => []AnyKSuffice
  <1>1. Init => RInv
    <2>1. Init => AnyKSuffice
      BY DEF Init, AnyKSuffice, NoCall, Called
    <2>2. QED
      BY <2>1, InitHolds DEF RInv
  <1>2. RInv /\ [Next]_vars => RInv'
    BY RInvStep
  <1>3. RInv => AnyKSuffice
    BY DEF RInv
  <1>4. QED
    BY <1>1, <1>2, <1>3, PTL DEF Spec

(* A matrix that separates has regular selections.                         *)
LEMMA SeparatingIsRecoverable ==
  ASSUME Separates(EncodeMatrix, K, P)
  PROVE  Recoverable
  <1> SUFFICES ASSUME NEW there \in SUBSET Upto(N), Cardinality(there) >= K
               PROVE  IsOk(invert(select_rows(EncodeMatrix, K, Smallest(there, K))))
    BY DEF Recoverable
  <1> DEFINE f == Smallest(there, K)
  <1>1. IsFiniteSet(there) /\ there \in SUBSET Nat /\ K \in Nat /\ K <= Cardinality(there)
    <2>1. IsFiniteSet(there)
      BY Sizes, UptoFinite, FS_Subset
    <2>2. Cardinality(there) \in Nat /\ there \in SUBSET Nat
      BY <2>1, FS_CardinalityType DEF Upto
    <2>3. QED
      BY <2>1, <2>2, Sizes
  <1>2. f \in [Upto(K) -> Upto(N)]
    <2>1. f \in [Upto(K) -> there]
      BY <1>1, SmallestIn
    <2>2. QED
      BY <2>1
  <1>3. \A t, u \in Upto(K) : t # u => f[t] # f[u]
    BY <1>1, SmallestDiffer
  <1> HIDE DEF f
  <1>4. Systematic(EncodeMatrix, K + P, K) /\ K \in Nat /\ P \in Nat
        /\ f \in [Upto(K) -> Upto(K + P)]
    BY <1>2, Sizes
  <1>5. IsOk(invert(select_rows(EncodeMatrix, K, f)))
    BY <1>3, <1>4, SelectionInverts
  <1>6. QED
    BY <1>5 DEF f

(* The default code: with the Cauchy matrix of any K and P the field has   *)
(* room for, K shards always suffice, whichever are lost.                  *)
THEOREM AnyKSufficeOfCauchy ==
  ASSUME IsOk(cauchy(K, P)), EncodeMatrix = cauchy(K, P).ok
  PROVE  Spec => []AnyKSuffice
  <1>1. check_dims(K, P)
    BY DEF cauchy, IsOk, Ok, Err
  <1>2. K \in Nat /\ P \in Nat
    BY Sizes
  <1>3. Separates(EncodeMatrix, K, P)
    BY <1>1, <1>2, CauchySeparates
  <1>4. QED
    BY <1>3, SeparatingIsRecoverable, AnyKSufficeIfRegular

(* The matrix of the reed-solomon-erasure crate, for every K and P it      *)
(* takes: K shards always suffice.                                         *)
THEOREM AnyKSufficeOfCompat ==
  ASSUME IsOk(reed_solomon_erasure_matrix(K, P)),
         EncodeMatrix = reed_solomon_erasure_matrix(K, P).ok
  PROVE  Spec => []AnyKSuffice
  <1>1. K # 0 /\ P # 0 /\ K + P <= Order + 1
    BY Sizes, OrderIs DEF reed_solomon_erasure_matrix, IsOk, Err
  <1>2. K \in Nat /\ P \in Nat
    BY Sizes
  <1>3. Separates(EncodeMatrix, K, P)
    BY <1>1, <1>2, CompatSeparates
  <1>4. QED
    BY <1>3, SeparatingIsRecoverable, AnyKSufficeIfRegular

(* The Vandermonde matrices of reed_solomon, for every safe shape (in the  *)
(* code's field all that it accepts but five by five, see SafeShapes): K   *)
(* shards always suffice.                                                  *)
THEOREM AnyKSufficeOfVandermonde ==
  ASSUME SafeShape(K, P), IsOk(reed_solomon(K, P)), EncodeMatrix = reed_solomon(K, P).ok
  PROVE  Spec => []AnyKSuffice
  <1>1. check_dims(K, P) /\ EncodeMatrix = vandermonde(K, P)
    BY DEF reed_solomon, IsOk, Ok, Err
  <1>2. K \in Nat /\ P \in Nat
    BY Sizes
  <1>3. Separates(EncodeMatrix, K, P)
    BY <1>1, <1>2, VandermondeSeparates
  <1>4. QED
    BY <1>3, SeparatingIsRecoverable, AnyKSufficeIfRegular

-----------------------------------------------------------------------------
(* The refinement: each step is a step of ErasureStore, or none.           *)

LEMMA StoreInit == Init => Store!Init
  <1> SUFFICES ASSUME Init PROVE Store!Init
    OBVIOUS
  <1>1. stripe \in WrittenStripes
    BY InitHolds DEF IInv
  <1>2. ~Recovering
    BY DEF Init, Recovering, NoCall, Called
  <1>3. QED
    BY <1>1, <1>2 DEF Store!Init, WrittenStripes, Init

LEMMA StoreStep == IInv /\ IInv' /\ [Next]_vars => [Store!Next]_(Store!storeVars)
  <1> SUFFICES ASSUME IInv, IInv', [Next]_vars
               PROVE  [Store!Next]_(Store!storeVars)
    OBVIOUS
  <1>1. CASE UNCHANGED vars
    BY <1>1 DEF vars, Store!storeVars, Recovering
  <1>2. ASSUME NEW i \in Upto(N), LoseShard(i)
        PROVE  Store!Lose
    <2>1. i \in DOMAIN slots
      BY DEF IInv, SlotsTrueOrLost
    <2>2. ~Recovering'
      BY <1>2 DEF LoseShard, Recovering, NoCall, Called
    <2>3. QED
      BY <1>2, <2>1, <2>2 DEF LoseShard, Store!Lose
  <1>3. CASE NextStripe
    <2>1. ~Recovering'
      BY <1>3 DEF NextStripe, Recovering, NoCall, Called
    <2>2. DOMAIN slots = Upto(N) /\ stripe' \in WrittenStripes
      BY DEF IInv, SlotsTrueOrLost
    <2>3. Store!Switch
      BY <1>3, <2>1, <2>2 DEF NextStripe, Store!Switch, WrittenStripes
    <2>4. QED
      BY <2>3 DEF Store!Next
  <1>4. ASSUME UNCHANGED <<stripe, slots>>,
               Recovering' /\ last'.verdict = Fine =>
                 InTargets(last'.rebuild) /\ out' = Truth(last'.rebuild)
        PROVE  Store!Rebuild
    <2>1. CASE Recovering' /\ last'.verdict = Fine
      <3>1. last'.rebuild \in {list \in RebuildLists : \A r \in DOMAIN list : list[r] < N}
        BY <1>4, <2>1 DEF InTargets
      <3>2. out' = [r \in DOMAIN last'.rebuild |-> stripe[last'.rebuild[r]]]
        BY <1>4, <2>1 DEF Truth
      <3>3. QED
        BY <1>4, <2>1, <3>1, <3>2 DEF Store!Rebuild
    <2>2. CASE ~(Recovering' /\ last'.verdict = Fine)
      BY <1>4, <2>2 DEF Store!Rebuild
    <2>3. QED
      BY <2>1, <2>2
  <1>5. AnswerTrue'
    BY DEF IInv
  <1>6. ASSUME UNCHANGED <<stripe, slots>>
        PROVE  Store!Next
    <2>1. Recovering' /\ last'.verdict = Fine =>
            InTargets(last'.rebuild) /\ out' = Truth(last'.rebuild)
      BY <1>5, <1>6 DEF AnswerTrue, Truth, InTargets
    <2>2. QED
      BY <1>4, <1>6, <2>1 DEF Store!Next
  <1>7. CASE \E set \in PlannerSets, n \in {N - 1, N}, rebuild \in RebuildLists :
               CallDecodePlan(set, n, rebuild)
    BY <1>6, <1>7 DEF CallDecodePlan
  <1>8. CASE \E lens \in OutShapes : CallRecoverWith(lens)
    BY <1>6, <1>8 DEF CallRecoverWith
  <1>9. CASE \E rebuild \in RebuildLists, lens \in OutShapes : CallRecover(rebuild, lens)
    BY <1>6, <1>9 DEF CallRecover
  <1>10. CASE Install
    <2>1. ~Recovering' /\ UNCHANGED stripe
      BY <1>10 DEF Install, Recovering, NoCall, Called
    <2>2. /\ last.rebuild \in {list \in RebuildLists : \A r \in DOMAIN list : list[r] < N}
          /\ slots' = [i \in Upto(N) |->
                         IF \E r \in DOMAIN last.rebuild : last.rebuild[r] = i
                         THEN stripe[i] ELSE slots[i]]
      BY <1>10, InstalledIsTrue DEF InTargets
    <2>3. DOMAIN slots = Upto(N)
      BY DEF IInv, SlotsTrueOrLost
    <2>4. Store!Restore
      BY <2>1, <2>2, <2>3 DEF Store!Restore
    <2>5. QED
      BY <2>4 DEF Store!Next
  <1>11. QED
    BY <1>1, <1>2, <1>3, <1>7, <1>8, <1>9, <1>10 DEF Next, Store!Next

(* Encoding, losing, planning and rebuilding keep the promise of           *)
(* ErasureStore: refused, or exactly what was written.                     *)
THEOREM PromiseKept == Spec => KeepsPromise
  <1>1. Spec => []IInv
    BY Inductive
  <1>2. QED
    BY <1>1, StoreInit, StoreStep, PTL DEF Spec, KeepsPromise, Store!Spec

=============================================================================
