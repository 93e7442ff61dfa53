----------------------------- MODULE RaidProofs -----------------------------
(***************************************************************************)
(* Proofs about RaidWalk: for every implementation (vector width and chunk *)
(* loops), number of sources and lengths, the unchecked accesses stay in   *)
(* bounds, the facade never lets a call through to an assertion that       *)
(* fails, and each byte passed holds the sum the contract asks for.        *)
(*                                                                         *)
(* Proofs about Raid: what pq_check and xor_check answer about a damaged   *)
(* stripe, for every number of sources, length and width of word.          *)
(*                                                                         *)
(* Proofs about RaidFold: a word of byte lanes doubles each of its lanes.  *)
(***************************************************************************)
EXTENDS RaidWalk, Raid, RaidFold, CoderProofs

(* The vectors have one length once the arguments were let through.        *)
Even(c) ==
  /\ c.sources >= 2
  /\ \A j \in Sources(c) : c.srcLen[j] = c.pLen
  /\ c.op = "pq" => c.qLen = c.pLen

Passed ==
  /\ phase \in {"walk", "done"} => Even(call)
  /\ phase = "kernel" => call.entry = "kernel" \/ facade_accepts(call)
  /\ phase = "panic" => call.entry = "kernel"

IInv == call \in Calls /\ TypeOK /\ Passed

LEMMA CallShape ==
  ASSUME NEW c \in Calls
  PROVE  /\ c.op \in {"xor", "pq"}
         /\ c.entry \in {"facade", "core", "kernel"}
         /\ c.loops \in Seq(Nat \ {0})
         /\ c.sources \in Nat
         /\ c.srcLen \in [0..(c.sources - 1) -> Nat]
         /\ c.pLen \in Nat /\ c.qLen \in Nat
         /\ Lane \in Nat \ {0}
  BY RaidWalkAssumption

LEMMA InitIInv == Init => IInv
  <1> SUFFICES ASSUME Init PROVE IInv
    OBVIOUS
  <1>1. call \in Calls
    BY DEF Init
  <1>2. /\ phase \in {"facade", "core", "kernel"} /\ phase = call.entry
        /\ Len(call.loops) \in Nat /\ call.pLen \in Nat
    BY <1>1, CallShape DEF Init
  <1>3. TypeOK
    BY <1>2 DEF Init, TypeOK
  <1>4. Passed
    BY <1>2 DEF Passed
  <1>5. QED
    BY <1>1, <1>3, <1>4 DEF IInv

(* A chunk in the walk is a positive whole number of bytes.                *)
LEMMA WidthNat ==
  ASSUME IInv, loop <= Len(call.loops)
  PROVE  Width \in Nat
  <1>1. call.loops \in Seq(Nat \ {0}) /\ Lane \in Nat
    BY CallShape DEF IInv
  <1>2. loop \in 1..Len(call.loops)
    BY <1>1 DEF IInv, TypeOK
  <1>3. call.loops[loop] \in Nat
    BY <1>1, <1>2
  <1>4. QED
    BY <1>1, <1>3 DEF Width

LEMMA CheckIInv == IInv /\ (Dispatch \/ CheckInCore \/ AssertInKernel) => IInv'
  <1> SUFFICES ASSUME IInv, Dispatch \/ CheckInCore \/ AssertInKernel PROVE IInv'
    OBVIOUS
  <1>1. UNCHANGED <<call, loop, at, p, q>>
    BY DEF Dispatch, CheckInCore, AssertInKernel
  <1>2. phase' \in {"core", "kernel", "walk", "error", "panic"}
    BY DEF Dispatch, CheckInCore, AssertInKernel
  <1>3. TypeOK'
    BY <1>1, <1>2 DEF IInv, TypeOK
  <1>4. Passed'
    <2>1. CASE Dispatch
      BY <1>1, <2>1 DEF Dispatch, Passed, facade_accepts, Sources
    <2>2. CASE CheckInCore
      BY <1>1, <2>2 DEF CheckInCore, check_lens, Passed, Even, Sources
    <2>3. CASE AssertInKernel
      <3>1. CASE kernel_asserts(call)
        BY <1>1, <2>3, <3>1 DEF AssertInKernel, kernel_asserts, Passed, Even, Sources
      <3>2. CASE ~kernel_asserts(call)
        <4>1. phase = "kernel" /\ phase' = "panic"
          BY <2>3, <3>2 DEF AssertInKernel
        <4>2. ~facade_accepts(call)
          BY <3>2 DEF facade_accepts, kernel_asserts
        <4>3. QED
          BY <1>1, <4>1, <4>2 DEF IInv, Passed
      <3>3. QED
        BY <3>1, <3>2
    <2>4. QED
      BY <2>1, <2>2, <2>3
  <1>5. QED
    BY <1>1, <1>3, <1>4 DEF IInv

LEMMA ChunkIInv == IInv /\ Chunk => IInv'
  <1> SUFFICES ASSUME IInv, Chunk PROVE IInv'
    OBVIOUS
  <1>1. UNCHANGED <<call, phase, loop>> /\ at' = at + Width /\ Fits
    BY DEF Chunk
  <1>2. Width \in Nat
    BY WidthNat DEF Chunk
  <1>3. at \in Nat /\ call.pLen \in Nat
    BY CallShape DEF IInv, TypeOK
  <1>4. at' \in 0..call.pLen
    BY <1>1, <1>2, <1>3 DEF Fits
  <1>5. DOMAIN p' = DOMAIN p /\ DOMAIN q' = DOMAIN q
    BY DEF Chunk, StoreP, StoreQ
  <1>6. TypeOK'
    BY <1>1, <1>4, <1>5 DEF IInv, TypeOK
  <1>7. QED
    BY <1>1, <1>6 DEF IInv, Passed

LEMMA NextLoopIInv == IInv /\ NextLoop => IInv'
  <1> SUFFICES ASSUME IInv, NextLoop PROVE IInv'
    OBVIOUS
  <1>1. UNCHANGED <<call, phase, at, p, q>> /\ loop' = loop + 1 /\ loop <= Len(call.loops)
    BY DEF NextLoop
  <1>2. Len(call.loops) \in Nat
    BY CallShape DEF IInv
  <1>3. loop' \in 1..(Len(call.loops) + 1)
    BY <1>1, <1>2 DEF IInv, TypeOK
  <1>4. TypeOK'
    BY <1>1, <1>3 DEF IInv, TypeOK
  <1>5. QED
    BY <1>1, <1>4 DEF IInv, Passed

LEMMA ScalarTailIInv == IInv /\ ScalarTail => IInv'
  <1> SUFFICES ASSUME IInv, ScalarTail PROVE IInv'
    OBVIOUS
  <1>1. UNCHANGED <<call, loop>> /\ at' = call.pLen /\ phase = "walk" /\ phase' = "done"
    BY DEF ScalarTail
  <1>2. call.pLen \in Nat
    BY CallShape DEF IInv
  <1>3. DOMAIN p' = DOMAIN p /\ DOMAIN q' = DOMAIN q
    BY DEF ScalarTail, StoreP, StoreQ
  <1>4. TypeOK'
    BY <1>1, <1>2, <1>3 DEF IInv, TypeOK
  <1>5. QED
    BY <1>1, <1>4 DEF IInv, Passed

LEMMA StepIInv == IInv /\ [Next]_vars => IInv'
  <1> SUFFICES ASSUME IInv, [Next]_vars PROVE IInv'
    OBVIOUS
  <1>1. CASE Dispatch \/ CheckInCore \/ AssertInKernel
    BY <1>1, CheckIInv
  <1>2. CASE Chunk
    BY <1>2, ChunkIInv
  <1>3. CASE NextLoop
    BY <1>3, NextLoopIInv
  <1>4. CASE ScalarTail
    BY <1>4, ScalarTailIInv
  <1>5. CASE UNCHANGED vars
    BY <1>5 DEF vars, IInv, TypeOK, Passed
  <1>6. QED
    BY <1>1, <1>2, <1>3, <1>4, <1>5 DEF Next

(* The three facts the invariant is for.                                   *)
LEMMA BoundsOfIInv == IInv => AccessesInBounds
  <1> SUFFICES ASSUME IInv, phase = "walk"
               PROVE  /\ call.sources > 0
                      /\ loop <= Len(call.loops) /\ Fits =>
                           /\ \A j \in Sources(call) : at + Width <= call.srcLen[j]
                           /\ call.op = "pq" => at + Width <= call.qLen
    BY DEF AccessesInBounds
  <1>1. Even(call) /\ call.sources \in Nat
    BY CallShape DEF IInv, Passed
  <1>2. QED
    BY <1>1 DEF Even, Fits

LEMMA AlwaysIInv == Spec => []IInv
  BY InitIInv, StepIInv, PTL DEF Spec

(* The walk stays within the vectors and its loops, for every call.        *)
THEOREM TypeCorrect == Spec => []TypeOK
  <1>1. IInv => TypeOK
    BY DEF IInv
  <1>2. QED
    BY <1>1, AlwaysIInv, PTL

(* No chunk of a RAID kernel reads or writes outside a vector, whatever    *)
(* lengths a caller passes, to the facade or to the kernel itself.         *)
THEOREM MemorySafe == Spec => []AccessesInBounds
  BY BoundsOfIInv, AlwaysIInv, PTL

(* Misuse of the facade's RAID calls is an error, never a panic: what the  *)
(* facade looks at implies every assertion of the kernels.                 *)
THEOREM FacadeSafe == Spec => []NeverPanicsFromFacade
  <1>1. IInv => NeverPanicsFromFacade
    BY DEF IInv, Passed, NeverPanicsFromFacade
  <1>2. QED
    BY <1>1, AlwaysIInv, PTL

-----------------------------------------------------------------------------
(* What the bytes hold.  The recurrence runs from the last source down, so *)
(* its value at source j is known in closed form: source m doubled m - j   *)
(* times, for every m from j on.                                           *)
From(j, n, x) == {<<m, m - j, x>> : m \in j..(n - 1)}

LEMMA FromStep ==
  ASSUME NEW n \in Nat, NEW j \in Nat, j + 1 < n, NEW x
  PROVE  SymDiff({<<j, 0, x>>}, Twice(From(j + 1, n, x))) = From(j, n, x)
  <1>1. Twice(From(j + 1, n, x)) = {<<m, m - j, x>> : m \in (j + 1)..(n - 1)}
    <2>1. ASSUME NEW m \in (j + 1)..(n - 1)
          PROVE  (m - (j + 1)) + 1 = m - j
      OBVIOUS
    <2> DEFINE S == (j + 1)..(n - 1)
               term(m) == <<m, m - (j + 1), x>>
               next(t) == <<t[1], t[2] + 1, t[3]>>
    <2>2. \A m \in S : next(term(m)) = <<m, m - j, x>>
      BY <2>1
    <2>3. Twice(From(j + 1, n, x)) = {next(t) : t \in {term(m) : m \in S}}
      BY DEF Twice, From
    <2> HIDE DEF next, term
    <2>4. {next(t) : t \in {term(m) : m \in S}} = {next(term(m)) : m \in S}
      OBVIOUS
    <2>5. {next(term(m)) : m \in S} = {<<m, m - j, x>> : m \in S}
      BY <2>2
    <2>6. QED
      BY <2>3, <2>4, <2>5
  <1>2. j..(n - 1) = {j} \cup (j + 1)..(n - 1) /\ j \notin (j + 1)..(n - 1) /\ j - j = 0
    OBVIOUS
  <1> DEFINE rest == {<<m, m - j, x>> : m \in (j + 1)..(n - 1)}
  <1>3. <<j, 0, x>> \notin rest
    BY <1>2
  <1>4. From(j, n, x) = {<<j, 0, x>>} \cup rest
    BY <1>2 DEF From
  <1> HIDE DEF rest
  <1>5. SymDiff({<<j, 0, x>>}, rest) = {<<j, 0, x>>} \cup rest
    BY <1>3 DEF SymDiff
  <1>6. QED
    BY <1>1, <1>4, <1>5 DEF rest

LEMMA FromLast ==
  ASSUME NEW n \in Nat \ {0}, NEW x
  PROVE  From(n - 1, n, x) = {<<n - 1, 0, x>>}
  <1>1. (n - 1)..(n - 1) = {n - 1} /\ (n - 1) - (n - 1) = 0
    OBVIOUS
  <1>2. QED
    BY <1>1 DEF From

LEMMA HornerIsFrom ==
  ASSUME call \in Calls, call.sources >= 2, NEW x
  PROVE  Horner(x) = From(0, call.sources, x)
  <1> DEFINE n == call.sources
             Is(f) == f = [j \in Sources(call) |->
                             IF j = n - 1 THEN {<<j, 0, x>>}
                             ELSE SymDiff({<<j, 0, x>>}, Twice(f[j + 1]))]
             h == CHOOSE f : Is(f)
             w == [j \in 0..(n - 1) |-> From(j, n, x)]
  <1>1. Horner(x) = h[0]
    BY DEF Horner
  <1>2. n \in Nat /\ n >= 2 /\ Sources(call) = 0..(n - 1)
    BY CallShape DEF Sources
  <1> HIDE DEF n
  <1>3. Is(w)
    <2>1. ASSUME NEW j \in 0..(n - 1)
          PROVE  From(j, n, x) = IF j = n - 1 THEN {<<j, 0, x>>}
                                 ELSE SymDiff({<<j, 0, x>>}, Twice(w[j + 1]))
      <3>1. CASE j = n - 1
        BY <1>2, <3>1, FromLast
      <3>2. CASE j # n - 1
        <4>1. j \in Nat /\ j + 1 < n /\ j + 1 \in 0..(n - 1)
          BY <1>2, <3>2
        <4>2. w[j + 1] = From(j + 1, n, x)
          BY <4>1
        <4>3. QED
          BY <1>2, <3>2, <4>1, <4>2, FromStep
      <3>3. QED
        BY <3>1, <3>2
    <2>2. QED
      BY <1>2, <2>1
  <1> HIDE DEF Is
  <1>4. Is(h)
    BY <1>3
  <1> HIDE DEF h
  <1>5. \A j \in 0..(n - 1) :
          h[j] = IF j = n - 1 THEN {<<j, 0, x>>}
                 ELSE SymDiff({<<j, 0, x>>}, Twice(h[j + 1]))
    BY <1>2, <1>4 DEF Is
  <1> DEFINE Wrong == {d \in Nat : d < n /\ h[n - 1 - d] # From(n - 1 - d, n, x)}
  <1>6. Wrong = {}
    <2>1. SUFFICES ASSUME Wrong # {} PROVE FALSE
      OBVIOUS
    <2> HIDE DEF Wrong
    <2>2. PICK d \in Wrong : \A e \in Wrong : ~(<<e, d>> \in OpToRel(<, Nat))
      <3>1. Wrong \subseteq Nat
        BY DEF Wrong
      <3>2. QED
        BY <2>1, <3>1, NatLessThanWellFounded, WFMin
    <2>3. d \in Nat /\ d < n /\ h[n - 1 - d] # From(n - 1 - d, n, x)
      BY DEF Wrong
    <2>4. CASE d = 0
      <3>1. n - 1 - d = n - 1 /\ n - 1 \in 0..(n - 1) /\ n \in Nat \ {0}
        BY <1>2, <2>4
      <3>2. h[n - 1] = {<<n - 1, 0, x>>}
        BY <1>5, <3>1
      <3>3. QED
        BY <2>3, <3>1, <3>2, FromLast
    <2>5. CASE d # 0
      <3> DEFINE j == n - 1 - d
      <3>1. d - 1 \in Nat /\ d - 1 < d /\ d - 1 < n /\ n - 1 - (d - 1) = j + 1
        BY <1>2, <2>3, <2>5
      <3>2. <<d - 1, d>> \in OpToRel(<, Nat)
        BY <2>3, <3>1 DEF OpToRel
      <3>3. h[j + 1] = From(j + 1, n, x)
        BY <2>2, <3>1, <3>2 DEF Wrong
      <3>4. j \in Nat /\ j \in 0..(n - 1) /\ j # n - 1 /\ j + 1 < n
        BY <1>2, <2>3, <2>5
      <3>5. h[j] = SymDiff({<<j, 0, x>>}, Twice(From(j + 1, n, x)))
        BY <1>5, <3>3, <3>4
      <3>6. h[j] = From(j, n, x)
        BY <1>2, <3>4, <3>5, FromStep
      <3>7. QED
        BY <2>3, <3>6
    <2>6. QED
      BY <2>4, <2>5
  <1>7. n - 1 \in Nat /\ n - 1 < n /\ n - 1 - (n - 1) = 0
    BY <1>2
  <1>8. h[0] = From(0, n, x)
    BY <1>6, <1>7
  <1>9. QED
    BY <1>1, <1>8 DEF n

(* The recurrence is the contract's sum: source j doubled j times.         *)
LEMMA HornerIsContract ==
  ASSUME call \in Calls, call.sources >= 2, call.op = "pq", NEW x
  PROVE  Horner(x) = ContractQ(x)
  <1>1. Sources(call) = 0..(call.sources - 1) /\ call.sources \in Nat
    BY CallShape DEF Sources
  <1>2. \A j \in 0..(call.sources - 1) : j - 0 = j
    BY <1>1
  <1>3. From(0, call.sources, x) = {<<j, j, x>> : j \in Sources(call)}
    BY <1>1, <1>2 DEF From
  <1>4. QED
    BY <1>3, HornerIsFrom DEF ContractQ

(* The walk starts at 0 and ends at the end.                               *)
Positions ==
  /\ phase \notin {"walk", "done"} => at = 0
  /\ phase = "done" => at = call.pLen

SInv == IInv /\ Positions /\ StoredOnce

LEMMA InitSInv == Init => SInv
  <1> SUFFICES ASSUME Init PROVE SInv
    OBVIOUS
  <1>1. IInv
    BY InitIInv
  <1>2. Positions
    BY <1>1, CallShape DEF Init, Positions, IInv
  <1>3. StoredOnce
    BY DEF Init, StoredOnce
  <1>4. QED
    BY <1>1, <1>2, <1>3 DEF SInv

(* Storing from the position on to a later one keeps the bytes in step.    *)
LEMMA StoreKeeps ==
  ASSUME SInv, phase = "walk", NEW to \in Nat, at <= to, to <= call.pLen,
         call' = call, at' = to, p' = StoreP(to), q' = StoreQ(to)
  PROVE  StoredOnce'
  <1>1. /\ at \in Nat /\ call \in Calls /\ call.pLen \in Nat /\ call.qLen \in Nat
        /\ DOMAIN p = 0..(call.pLen - 1) /\ DOMAIN q = 0..(call.qLen - 1)
        /\ Even(call) /\ call.sources \in Nat
    BY CallShape DEF SInv, IInv, TypeOK, Passed
  <1>2. \A x : ContractP(x)' = ContractP(x) /\ ContractQ(x)' = ContractQ(x)
    BY DEF ContractP, ContractQ, Sources
  <1>3. \A x \in DOMAIN p' : p'[x] = IF x < to THEN ContractP(x) ELSE Was
    <2> SUFFICES ASSUME NEW x \in DOMAIN p
                 PROVE  StoreP(to)[x] = IF x < to THEN ContractP(x) ELSE Was
      BY DEF StoreP
    <2>1. x \in Nat /\ p[x] = IF x < at THEN ContractP(x) ELSE Was
      BY <1>1 DEF SInv, StoredOnce
    <2>2. StoreP(to)[x] = IF x \in at..(to - 1) THEN XorTerms(x) ELSE p[x]
      BY DEF StoreP
    <2>3. XorTerms(x) = ContractP(x)
      BY DEF XorTerms, ContractP
    <2>4. x \in at..(to - 1) <=> at <= x /\ x < to
      BY <1>1, <2>1
    <2>5. QED
      BY <1>1, <2>1, <2>2, <2>3, <2>4
  <1>4. \A x \in DOMAIN q' : q'[x] = IF x < to THEN ContractQ(x) ELSE Was
    <2> SUFFICES ASSUME NEW x \in DOMAIN q
                 PROVE  StoreQ(to)[x] = IF x < to THEN ContractQ(x) ELSE Was
      BY DEF StoreQ
    <2>1. x \in Nat /\ q[x] = IF x < at THEN ContractQ(x) ELSE Was
      BY <1>1 DEF SInv, StoredOnce
    <2>2. StoreQ(to)[x]
            = IF call.op = "pq" /\ x \in at..(to - 1) THEN Horner(x) ELSE q[x]
      BY DEF StoreQ
    <2>3. x \in at..(to - 1) <=> at <= x /\ x < to
      BY <1>1, <2>1
    <2>4. CASE call.op = "pq"
      <3>1. Horner(x) = ContractQ(x)
        BY <1>1, <2>4, HornerIsContract DEF Even
      <3>2. QED
        BY <1>1, <2>1, <2>2, <2>3, <2>4, <3>1
    <2>5. CASE call.op # "pq"
      BY <2>1, <2>2, <2>5 DEF ContractQ
    <2>6. QED
      BY <2>4, <2>5
  <1>5. QED
    BY <1>2, <1>3, <1>4 DEF StoredOnce

LEMMA StepSInv == SInv /\ [Next]_vars => SInv'
  <1> SUFFICES ASSUME SInv, [Next]_vars PROVE SInv'
    OBVIOUS
  <1>1. IInv /\ IInv'
    BY StepIInv DEF SInv
  <1>2. at \in Nat /\ call \in Calls /\ call.pLen \in Nat /\ at <= call.pLen
    BY <1>1, CallShape DEF IInv, TypeOK
  <1>3. ASSUME call' = call, at' = at, p' = p, q' = q,
               phase' = phase \/ (phase' # "done" /\ at = 0)
        PROVE  SInv'
    <2>1. Positions'
      BY <1>3 DEF SInv, Positions
    <2>2. StoredOnce'
      BY <1>3 DEF SInv, StoredOnce, ContractP, ContractQ, Sources
    <2>3. QED
      BY <1>1, <2>1, <2>2 DEF SInv
  <1>4. CASE Dispatch \/ CheckInCore \/ AssertInKernel
    <2>1. at = 0
      BY <1>4 DEF SInv, Positions, Dispatch, CheckInCore, AssertInKernel
    <2>2. call' = call /\ at' = at /\ p' = p /\ q' = q /\ phase' # "done"
      BY <1>4 DEF Dispatch, CheckInCore, AssertInKernel
    <2>3. QED
      BY <1>3, <2>1, <2>2
  <1>5. CASE Chunk
    <2>1. Width \in Nat
      BY <1>1, <1>5, WidthNat DEF Chunk
    <2>2. /\ phase = "walk" /\ UNCHANGED <<call, phase>> /\ at' = at + Width
          /\ p' = StoreP(at + Width) /\ q' = StoreQ(at + Width)
      BY <1>5 DEF Chunk
    <2>3. at + Width \in Nat /\ at <= at + Width /\ at + Width <= call.pLen
      BY <1>2, <1>5, <2>1 DEF Chunk, Fits
    <2> DEFINE to == at + Width
    <2>4. to \in Nat /\ at <= to /\ to <= call.pLen /\ at' = to
          /\ p' = StoreP(to) /\ q' = StoreQ(to)
      BY <2>2, <2>3
    <2> HIDE DEF to
    <2>5. StoredOnce'
      BY <2>2, <2>4, StoreKeeps
    <2>6. Positions'
      BY <2>2 DEF Positions
    <2>7. QED
      BY <1>1, <2>5, <2>6 DEF SInv
  <1>6. CASE NextLoop
    BY <1>3, <1>6 DEF NextLoop
  <1>7. CASE ScalarTail
    <2>1. /\ phase = "walk" /\ call' = call /\ phase' = "done" /\ at' = call.pLen
          /\ p' = StoreP(call.pLen) /\ q' = StoreQ(call.pLen)
      BY <1>7 DEF ScalarTail
    <2>2. StoredOnce'
      BY <1>2, <2>1, StoreKeeps
    <2>3. Positions'
      BY <2>1 DEF Positions
    <2>4. QED
      BY <1>1, <2>2, <2>3 DEF SInv
  <1>8. CASE UNCHANGED vars
    BY <1>3, <1>8 DEF vars
  <1>9. QED
    BY <1>4, <1>5, <1>6, <1>7, <1>8 DEF Next

LEMMA ContractOfSInv == SInv => ContractMet
  <1> SUFFICES ASSUME SInv PROVE ContractMet
    OBVIOUS
  <1>1. /\ call \in Calls /\ call.pLen \in Nat /\ call.qLen \in Nat
        /\ DOMAIN p = 0..(call.pLen - 1) /\ DOMAIN q = 0..(call.qLen - 1)
    BY CallShape DEF SInv, IInv, TypeOK
  <1>2. ASSUME phase = "done"
        PROVE  /\ \A x \in DOMAIN p : p[x] = ContractP(x)
               /\ \A x \in DOMAIN q : q[x] = ContractQ(x)
    <2>1. at = call.pLen /\ Even(call)
      BY <1>2 DEF SInv, IInv, Passed, Positions
    <2>2. \A x \in DOMAIN p : x < at
      BY <1>1, <2>1
    <2>3. \A x \in DOMAIN q : call.op = "pq" => x < at
      BY <1>1, <2>1 DEF Even
    <2>4. call.op # "pq" => \A x : ContractQ(x) = Was
      BY DEF ContractQ
    <2>5. QED
      BY <2>2, <2>3, <2>4 DEF SInv, StoredOnce
  <1>3. ASSUME phase \in {"error", "panic"}
        PROVE  /\ \A x \in DOMAIN p : p[x] = Was
               /\ \A x \in DOMAIN q : q[x] = Was
    <2>1. at = 0
      BY <1>3 DEF SInv, Positions
    <2>2. \A x \in DOMAIN p : ~(x < at)
      BY <1>1, <2>1
    <2>3. \A x \in DOMAIN q : ~(x < at)
      BY <1>1, <2>1
    <2>4. QED
      BY <2>2, <2>3 DEF SInv, StoredOnce
  <1>4. QED
    BY <1>2, <1>3 DEF ContractMet

LEMMA AlwaysSInv == Spec => []SInv
  BY InitSInv, StepSInv, PTL DEF Spec

(* The bytes a generation has passed hold their parity and no other byte   *)
(* is touched, for every vector width, every loop structure and every      *)
(* number of sources.                                                      *)
THEOREM EveryByteOnce == Spec => []StoredOnce
  <1>1. SInv => StoredOnce
    BY DEF SInv
  <1>2. QED
    BY <1>1, AlwaysSInv, PTL

(* A generation that returns has written every byte of both vectors with   *)
(* P, the sum of the sources, and Q, the sum of source j doubled j times;  *)
(* one that is refused has written none.                                   *)
THEOREM MeetsContract == Spec => []ContractMet
  BY ContractOfSInv, AlwaysSInv, PTL
-----------------------------------------------------------------------------
(* A stripe: its vectors, byte by byte.                                    *)
Vectors == [VectorIds -> Vector]

(* The bytes at x of the sources.                                          *)
At(v, x) == [i \in SourceIds |-> v[i][x]]

LEMMA RaidShape ==
  /\ N \in Nat /\ N >= 2 /\ N <= Order /\ Length \in Nat /\ WordBytes \in Nat \ {0}
  /\ SourceIds = Upto(N) /\ IsFiniteSet(SourceIds)
  /\ SourceIds \subseteq VectorIds /\ P \in VectorIds /\ Q \in VectorIds
  /\ P \notin SourceIds /\ Q \notin SourceIds /\ P # Q
  /\ VectorIds = SourceIds \cup {P, Q}
  <1>1. N \in Nat /\ N >= 2 /\ N <= Order /\ Length \in Nat /\ WordBytes \in Nat \ {0}
    BY OrderPositive, RaidAssumption
  <1>2. SourceIds = Upto(N)
    BY DEF SourceIds, Upto
  <1>3. IsFiniteSet(SourceIds)
    BY <1>1, <1>2, UptoFinite
  <1>4. QED
    BY <1>1, <1>2, <1>3 DEF SourceIds, VectorIds, P, Q

LEMMA SourceByte ==
  ASSUME NEW v \in Vectors, NEW x \in Position
  PROVE  /\ \A i \in VectorIds : v[i][x] \in Byte
         /\ \A i \in SourceIds : At(v, x)[i] = v[i][x] /\ v[i][x] \in Byte
  BY RaidShape DEF Vectors, Vector, At

LEMMA PByteIs ==
  ASSUME NEW v, NEW x
  PROVE  PByte(v, x) = XorAll(SourceIds, At(v, x))
  BY DEF PByte, At

(* The recurrence read as a sum: source i times 2^i.                       *)
Weighted(t) == [i \in SourceIds |-> mul(EXP[i], t[i])]

LEMMA WeightOfSource ==
  ASSUME NEW i \in SourceIds
  PROVE  /\ i \in 0..(Order - 1) /\ EXP[i] \in Byte /\ EXP[i] # {}
         /\ Weight(i - 0) = EXP[i]
  <1>1. i \in Nat /\ i < Order /\ i - 0 = i
    <2>1. i \in 0..(N - 1) /\ N \in Nat /\ N <= Order /\ Order \in Nat
      BY RaidShape, OrderPositive DEF SourceIds
    <2>2. QED
      BY <2>1
  <1>2. i \in 0..(Order - 1)
    BY <1>1, OrderPositive
  <1>3. QED
    BY <1>1, <1>2, WeightFacts, GeneratorLaws

LEMMA QByteIs ==
  ASSUME NEW v, NEW x, \A i \in SourceIds : v[i][x] \in Byte
  PROVE  QByte(v, x) = XorAll(SourceIds, Weighted(At(v, x)))
  <1> DEFINE t == At(v, x)
             Is(f) == f = [j \in SourceIds |->
                             IF j = N - 1 THEN v[j][x] ELSE XOR(v[j][x], double(f[j + 1]))]
             h == CHOOSE f : Is(f)
  <1>1. QByte(v, x) = h[0]
    BY DEF QByte
  <1>2. /\ N \in Nat \ {0} /\ SourceIds = Upto(N) /\ 0 \in Upto(N)
        /\ \A m \in Upto(N) : t[m] \in Byte /\ t[m] = v[m][x]
    BY RaidShape DEF At, Upto
  <1> HIDE DEF t
  <1>3. \E f : f = [j \in Upto(N) |->
                     IF j = N - 1 THEN t[j] ELSE XOR(t[j], double(f[j + 1]))]
    BY <1>2, RecurrenceExists
  <1>4. \E f : Is(f)
    <2>1. PICK f : f = [j \in Upto(N) |->
                         IF j = N - 1 THEN t[j] ELSE XOR(t[j], double(f[j + 1]))]
      BY <1>3
    <2>2. f = [j \in SourceIds |->
                 IF j = N - 1 THEN v[j][x] ELSE XOR(v[j][x], double(f[j + 1]))]
      BY <1>2, <2>1
    <2>3. QED
      BY <2>2
  <1> HIDE DEF Is
  <1>5. Is(h)
    BY <1>4
  <1> HIDE DEF h
  <1>6. \A j \in Upto(N) :
          h[j] = IF j = N - 1 THEN t[j] ELSE XOR(t[j], double(h[j + 1]))
    BY <1>2, <1>5 DEF Is
  <1>7. h[0] = Weighed(t, 0, N)
    BY <1>2, <1>6, RecurrenceWeighs
  <1>8. Weighed(t, 0, N) = XorAll(SourceIds, Weighted(t))
    <2>1. 0..(N - 1) = SourceIds
      BY DEF SourceIds
    <2> DEFINE w == [m \in SourceIds |-> mul(Weight(m - 0), t[m])]
    <2>2. \A m \in SourceIds : w[m] = Weighted(t)[m]
      BY WeightOfSource DEF Weighted
    <2> HIDE DEF w
    <2>3. XorAll(SourceIds, w) = XorAll(SourceIds, Weighted(t))
      BY <2>2, XorAllSame
    <2>4. QED
      BY <2>1, <2>3 DEF Weighed, w
  <1>9. QED
    BY <1>1, <1>7, <1>8 DEF t
-----------------------------------------------------------------------------
(* Two stripes at one position: how they differ, and what the checks see.  *)
Change(v, w, x) == [i \in VectorIds |-> XOR(v[i][x], w[i][x])]

MatchP(v, x) == v[P][x] = PByte(v, x)
MatchQ(v, x) == v[Q][x] = QByte(v, x)

Damage(v, w, x) == {i \in VectorIds : v[i][x] # w[i][x]}

LEMMA ChangeFacts ==
  ASSUME NEW v \in Vectors, NEW w \in Vectors, NEW x \in Position, NEW i \in VectorIds
  PROVE  /\ Change(v, w, x)[i] = XOR(v[i][x], w[i][x])
         /\ Change(v, w, x)[i] \in Byte
         /\ i \in Damage(v, w, x) <=> Change(v, w, x)[i] # {}
  <1>1. v[i][x] \in Byte /\ w[i][x] \in Byte
    BY SourceByte
  <1>2. Change(v, w, x)[i] = XOR(v[i][x], w[i][x])
    BY DEF Change
  <1>3. XOR(v[i][x], w[i][x]) \in Byte
    BY <1>1, XorByte
  <1>4. v[i][x] # w[i][x] <=> XOR(v[i][x], w[i][x]) # {}
    BY XorDiffers, XorZero
  <1>5. QED
    BY <1>2, <1>3, <1>4 DEF Damage

(* Equal after a change on both sides.                                     *)
LEMMA XorMatch ==
  ASSUME NEW a, NEW b, NEW c, NEW d, b = d
  PROVE  a = c <=> XOR(a, b) = XOR(c, d)
  BY DEF XOR, SymDiff

(* Against a whole stripe, P matches when P changed by the sum of the      *)
(* sources' changes, and Q when it changed by the weighted sum.            *)
LEMMA MatchPIs ==
  ASSUME NEW v \in Vectors, NEW w \in Vectors, NEW x \in Position, MatchP(w, x)
  PROVE  MatchP(v, x) <=> Change(v, w, x)[P] = XorAll(SourceIds, Change(v, w, x))
  <1> DEFINE e == Change(v, w, x)
  <1>1. \A i \in SourceIds : /\ At(v, x)[i] \in Byte /\ At(w, x)[i] \in Byte
                             /\ e[i] = XOR(At(v, x)[i], At(w, x)[i])
    BY RaidShape, SourceByte DEF Change
  <1>2. e[P] = XOR(v[P][x], w[P][x])
    BY RaidShape DEF Change
  <1> HIDE DEF e
  <1>3. XorAll(SourceIds, e) = XOR(XorAll(SourceIds, At(v, x)), XorAll(SourceIds, At(w, x)))
    BY <1>1, RaidShape, XorAllXor
  <1>4. XorAll(SourceIds, e) = XOR(PByte(v, x), PByte(w, x))
    BY <1>3, PByteIs
  <1>5. QED
    BY <1>2, <1>4, XorMatch DEF MatchP, e

LEMMA MatchQIs ==
  ASSUME NEW v \in Vectors, NEW w \in Vectors, NEW x \in Position, MatchQ(w, x)
  PROVE  MatchQ(v, x) <=> Change(v, w, x)[Q] = XorAll(SourceIds, Weighted(Change(v, w, x)))
  <1> DEFINE e == Change(v, w, x)
  <1>1. ASSUME NEW i \in SourceIds
        PROVE  /\ Weighted(At(v, x))[i] \in Byte /\ Weighted(At(w, x))[i] \in Byte
               /\ Weighted(e)[i] = XOR(Weighted(At(v, x))[i], Weighted(At(w, x))[i])
    <2>1. /\ EXP[i] \in Byte /\ At(v, x)[i] \in Byte /\ At(w, x)[i] \in Byte
          /\ e[i] = XOR(At(v, x)[i], At(w, x)[i])
      BY RaidShape, SourceByte, WeightOfSource DEF Change
    <2> HIDE DEF e
    <2>2. /\ Weighted(At(v, x))[i] = mul(EXP[i], At(v, x)[i])
          /\ Weighted(At(w, x))[i] = mul(EXP[i], At(w, x)[i])
          /\ Weighted(e)[i] = mul(EXP[i], e[i])
      BY DEF Weighted
    <2> DEFINE a == EXP[i]
               y == At(v, x)[i]
               z == At(w, x)[i]
    <2>3. a \in Byte /\ y \in Byte /\ z \in Byte
      BY <2>1
    <2> HIDE DEF a, y, z
    <2>4. mul(a, y) \in Byte /\ mul(a, z) \in Byte
      BY <2>3, MulByte
    <2>5. mul(a, XOR(y, z)) = XOR(mul(a, y), mul(a, z))
      BY <2>3, MulDistributes
    <2>6. QED
      BY <2>1, <2>2, <2>4, <2>5 DEF a, y, z
  <1>2. e[Q] = XOR(v[Q][x], w[Q][x])
    BY RaidShape DEF Change
  <1> HIDE DEF e
  <1>3. XorAll(SourceIds, Weighted(e))
          = XOR(XorAll(SourceIds, Weighted(At(v, x))), XorAll(SourceIds, Weighted(At(w, x))))
    BY <1>1, RaidShape, XorAllXor
  <1>4. /\ QByte(v, x) = XorAll(SourceIds, Weighted(At(v, x)))
        /\ QByte(w, x) = XorAll(SourceIds, Weighted(At(w, x)))
    BY SourceByte, QByteIs
  <1>5. XorAll(SourceIds, Weighted(e)) = XOR(QByte(v, x), QByte(w, x))
    BY <1>3, <1>4
  <1>6. QED
    BY <1>2, <1>5, XorMatch DEF MatchQ, e
-----------------------------------------------------------------------------
(* The changes of the sources, e, by how many of them changed.             *)
LEMMA WeightedZero ==
  ASSUME NEW e, NEW i \in SourceIds, e[i] = {}
  PROVE  Weighted(e)[i] = {}
  BY MulZero DEF Weighted

LEMMA NoSource ==
  ASSUME NEW e, \A i \in SourceIds : e[i] = {}
  PROVE  XorAll(SourceIds, e) = {} /\ XorAll(SourceIds, Weighted(e)) = {}
  BY WeightedZero, XorAllZero

LEMMA OneSource ==
  ASSUME NEW e, \A i \in SourceIds : e[i] \in Byte,
         NEW a \in SourceIds, e[a] # {}, \A i \in SourceIds \ {a} : e[i] = {}
  PROVE  XorAll(SourceIds, e) # {} /\ XorAll(SourceIds, Weighted(e)) # {}
  <1>1. XorAll(SourceIds, e) = e[a]
    BY RaidShape, XorAllOne
  <1>2. Weighted(e)[a] \in Byte /\ Weighted(e)[a] # {}
    <2>1. Weighted(e)[a] = mul(EXP[a], e[a]) /\ e[a] \in Byte
      BY DEF Weighted
    <2>2. EXP[a] \in Byte /\ EXP[a] # {}
      BY WeightOfSource
    <2>3. QED
      BY <2>1, <2>2, MulByte, MulZeroFactor
  <1>3. XorAll(SourceIds, Weighted(e)) = Weighted(e)[a]
    BY <1>2, RaidShape, WeightedZero, XorAllOne
  <1>4. QED
    BY <1>1, <1>2, <1>3

(* The sum of two terms.                                                   *)
LEMMA SumOfTwo ==
  ASSUME NEW t, NEW a \in SourceIds, NEW b \in SourceIds, a # b,
         t[a] \in Byte, t[b] \in Byte,
         \A i \in SourceIds \ {a, b} : t[i] = {}
  PROVE  XorAll(SourceIds, t) = XOR(t[a], t[b])
  <1> DEFINE R == SourceIds \ {b}
  <1>1. IsFiniteSet(R) /\ b \notin R /\ R \cup {b} = SourceIds /\ a \in R
    BY RaidShape, FS_RemoveElement
  <1>2. \A i \in R \ {a} : t[i] = {}
    OBVIOUS
  <1> HIDE DEF R
  <1>3. XorAll(R, t) = t[a]
    BY <1>1, <1>2, XorAllOne
  <1>4. QED
    BY <1>1, <1>3, XorAllInsert

(* Two changed sources do not vanish from both sums: their weights differ. *)
LEMMA TwoSources ==
  ASSUME NEW e, \A i \in SourceIds : e[i] \in Byte,
         NEW a \in SourceIds, NEW b \in SourceIds, a # b, e[a] # {}, e[b] # {},
         \A i \in SourceIds \ {a, b} : e[i] = {}
  PROVE  XorAll(SourceIds, e) # {} \/ XorAll(SourceIds, Weighted(e)) # {}
  <1> SUFFICES ASSUME XorAll(SourceIds, e) = {} PROVE XorAll(SourceIds, Weighted(e)) # {}
    OBVIOUS
  <1>1. XOR(e[a], e[b]) = {}
    BY SumOfTwo
  <1>2. e[a] = e[b]
    BY <1>1, XorDiffers
  <1>3. /\ EXP[a] \in Byte /\ EXP[b] \in Byte /\ EXP[a] # EXP[b]
        /\ Weighted(e)[a] = mul(EXP[a], e[a]) /\ Weighted(e)[b] = mul(EXP[b], e[a])
    BY <1>2, WeightOfSource, GeneratorLaws DEF Weighted
  <1>4. Weighted(e)[a] \in Byte /\ Weighted(e)[b] \in Byte
    BY <1>3, MulByte
  <1>5. XorAll(SourceIds, Weighted(e)) = XOR(Weighted(e)[a], Weighted(e)[b])
    BY <1>4, WeightedZero, SumOfTwo
  <1>6. XOR(Weighted(e)[a], Weighted(e)[b]) = mul(XOR(EXP[a], EXP[b]), e[a])
    BY <1>3, MulDistributes
  <1>7. XOR(EXP[a], EXP[b]) \in Byte /\ XOR(EXP[a], EXP[b]) # {}
    BY <1>3, XorByte, XorDiffers
  <1>8. mul(XOR(EXP[a], EXP[b]), e[a]) # {}
    BY <1>7, MulZeroFactor
  <1>9. QED
    BY <1>5, <1>6, <1>8

(* What matching says about the damage.                                    *)
LEMMA MatchesBoth ==
  ASSUME NEW v \in Vectors, NEW w \in Vectors, NEW x \in Position,
         MatchP(w, x), MatchQ(w, x), MatchP(v, x), MatchQ(v, x)
  PROVE  Cardinality(Damage(v, w, x)) \notin {1, 2}
  <1> DEFINE e == Change(v, w, x)
             D == Damage(v, w, x)
  <1>1. \A i \in VectorIds : e[i] \in Byte /\ (i \in D <=> e[i] # {})
    BY ChangeFacts
  <1>2. e[P] = XorAll(SourceIds, e) /\ e[Q] = XorAll(SourceIds, Weighted(e))
    BY MatchPIs, MatchQIs
  <1>3. D \subseteq VectorIds
    BY DEF Damage
  <1> HIDE DEF e, D
  <1>4. ASSUME NEW a \in D, NEW b \in D, D = {a, b}
        PROVE  FALSE
    <2>1. CASE a \notin SourceIds /\ b \notin SourceIds
      <3>1. \A i \in SourceIds : e[i] = {}
        BY <1>1, <1>4, <2>1, RaidShape
      <3>2. e[P] = {} /\ e[Q] = {}
        BY <1>2, <3>1, NoSource
      <3>3. P \notin D /\ Q \notin D
        BY <1>1, <3>2, RaidShape
      <3>4. QED
        BY <1>3, <2>1, <3>3, RaidShape
    <2>2. ASSUME NEW c \in SourceIds, NEW d \in D, D = {c, d}, c \in D,
                 d \notin SourceIds \/ d = c
          PROVE  FALSE
      <3>1. /\ \A i \in SourceIds : e[i] \in Byte
            /\ e[c] # {} /\ \A i \in SourceIds \ {c} : e[i] = {}
        BY <1>1, <2>2, RaidShape
      <3>2. e[P] # {} /\ e[Q] # {}
        BY <1>2, <3>1, OneSource
      <3>3. P \in D /\ Q \in D
        BY <1>1, <3>2, RaidShape
      <3>4. QED
        BY <2>2, <3>3, RaidShape
    <2>3. CASE a \in SourceIds /\ b \in SourceIds /\ a # b
      <3>1. /\ \A i \in SourceIds : e[i] \in Byte
            /\ e[a] # {} /\ e[b] # {} /\ \A i \in SourceIds \ {a, b} : e[i] = {}
        BY <1>1, <1>4, <2>3, RaidShape
      <3>2. e[P] # {} \/ e[Q] # {}
        BY <1>2, <2>3, <3>1, TwoSources
      <3>3. P \in D \/ Q \in D
        BY <1>1, <3>2, RaidShape
      <3>4. QED
        BY <1>4, <2>3, <3>3, RaidShape
    <2>4. QED
      BY <1>4, <2>1, <2>2, <2>3
  <1>5. IsFiniteSet(D)
    <2>1. IsFiniteSet(VectorIds)
      BY RaidShape, FS_Interval DEF VectorIds
    <2>2. QED
      BY <1>3, <2>1, FS_Subset
  <1>6. Cardinality(D) # 1
    <2> SUFFICES ASSUME Cardinality(D) = 1 PROVE FALSE
      OBVIOUS
    <2>1. PICK a \in D : D = {a}
      BY <1>5, FS_Singleton
    <2>2. D = {a, a}
      BY <2>1
    <2>3. QED
      BY <1>4, <2>1, <2>2
  <1>7. Cardinality(D) # 2
    <2> SUFFICES ASSUME Cardinality(D) = 2 PROVE FALSE
      OBVIOUS
    <2>1. PICK a \in D, b \in D : D = {a, b}
      BY <1>5, TwoElements
    <2>2. QED
      BY <1>4, <2>1
  <1>8. QED
    BY <1>6, <1>7 DEF D

(* Undamaged, both match; damage to one source or to P is seen by P.       *)
LEMMA MatchOfNone ==
  ASSUME NEW v \in Vectors, NEW w \in Vectors, NEW x \in Position,
         MatchP(w, x), Damage(v, w, x) \subseteq {Q}
  PROVE  MatchP(v, x)
  <1> DEFINE e == Change(v, w, x)
  <1>1. \A i \in SourceIds \cup {P} : e[i] = {}
    BY ChangeFacts, RaidShape
  <1> HIDE DEF e
  <1>2. XorAll(SourceIds, e) = {} /\ e[P] = {}
    BY <1>1, NoSource
  <1>3. QED
    BY <1>2, MatchPIs DEF e

LEMMA MatchQOfNone ==
  ASSUME NEW v \in Vectors, NEW w \in Vectors, NEW x \in Position,
         MatchQ(w, x), Damage(v, w, x) = {}
  PROVE  MatchQ(v, x)
  <1> DEFINE e == Change(v, w, x)
  <1>1. \A i \in SourceIds \cup {Q} : e[i] = {}
    BY ChangeFacts, RaidShape
  <1> HIDE DEF e
  <1>2. XorAll(SourceIds, Weighted(e)) = {} /\ e[Q] = {}
    BY <1>1, NoSource
  <1>3. QED
    BY <1>2, MatchQIs DEF e

LEMMA MatchPOfOne ==
  ASSUME NEW v \in Vectors, NEW w \in Vectors, NEW x \in Position,
         MatchP(w, x), NEW a \in SourceIds \cup {P}, Damage(v, w, x) \ {Q} = {a}
  PROVE  ~MatchP(v, x)
  <1> DEFINE e == Change(v, w, x)
             D == Damage(v, w, x)
  <1>1. \A i \in VectorIds : e[i] \in Byte /\ (i \in D <=> e[i] # {})
    BY ChangeFacts
  <1>2. MatchP(v, x) <=> e[P] = XorAll(SourceIds, e)
    BY MatchPIs
  <1>3. \A i \in VectorIds \ {Q} : i \in D <=> i = a
    BY RaidShape
  <1> HIDE DEF e, D
  <1>4. CASE a = P
    <2>1. \A i \in SourceIds : e[i] = {}
      BY <1>1, <1>3, <1>4, RaidShape
    <2>2. e[P] # {} /\ XorAll(SourceIds, e) = {}
      BY <1>1, <1>3, <1>4, <2>1, NoSource, RaidShape
    <2>3. QED
      BY <1>2, <2>2
  <1>5. CASE a \in SourceIds
    <2>1. e[P] = {}
      BY <1>1, <1>3, <1>5, RaidShape
    <2>2. /\ \A i \in SourceIds : e[i] \in Byte
          /\ e[a] # {} /\ \A i \in SourceIds \ {a} : e[i] = {}
      BY <1>1, <1>3, <1>5, RaidShape
    <2>3. XorAll(SourceIds, e) # {}
      BY <1>5, <2>2, OneSource
    <2>4. QED
      BY <1>2, <2>1, <2>3
  <1>6. QED
    BY <1>4, <1>5
(* What a scan of the positions in range answers: no mismatch when there   *)
(* is none, otherwise the first, P when P is wrong there.                  *)
Names(v, range, answer) ==
  IF \A x \in range : MatchP(v, x) /\ MatchQ(v, x) THEN answer = NoMismatch
  ELSE /\ answer # NoMismatch
       /\ answer.index \in range
       /\ \A x \in range : x < answer.index => MatchP(v, x) /\ MatchQ(v, x)
       /\ \/ answer.parity = P /\ ~MatchP(v, answer.index)
          \/ answer.parity = Q /\ MatchP(v, answer.index) /\ ~MatchQ(v, answer.index)

LEMMA ScanNames ==
  ASSUME NEW v, NEW range \in SUBSET Position
  PROVE  Names(v, range, byte_scan(v, range))
  <1> DEFINE wrong == {x \in range : v[P][x] # PByte(v, x) \/ v[Q][x] # QByte(v, x)}
             y == Min(wrong)
  <1>1. byte_scan(v, range) =
          IF wrong = {} THEN NoMismatch
          ELSE [index |-> y, parity |-> IF v[P][y] # PByte(v, y) THEN P ELSE Q]
    BY DEF byte_scan
  <1>2. \A x \in range : x \in wrong <=> ~(MatchP(v, x) /\ MatchQ(v, x))
    BY DEF MatchP, MatchQ
  <1>3. wrong \in SUBSET range /\ range \in SUBSET Int /\ range \in SUBSET Nat
    BY RaidShape DEF Position
  <1>4. IsFiniteSet(wrong)
    <2>1. IsFiniteSet(Position)
      BY RaidShape, FS_Interval DEF Position
    <2>2. wrong \in SUBSET Position
      BY <1>3
    <2>3. QED
      BY <2>1, <2>2, FS_Subset
  <1> HIDE DEF wrong
  <1>5. CASE wrong = {}
    BY <1>1, <1>2, <1>5 DEF Names
  <1>6. CASE wrong # {}
    <2>1. y \in wrong /\ \A x \in wrong : y <= x
      BY <1>3, <1>4, <1>6, MinIn
    <2>2. y \in range /\ y \in Nat /\ ~(MatchP(v, y) /\ MatchQ(v, y))
      BY <1>2, <1>3, <2>1
    <2> HIDE DEF y
    <2> DEFINE r == byte_scan(v, range)
    <2>3. r.index = y /\ r.parity = IF v[P][y] # PByte(v, y) THEN P ELSE Q
      BY <1>1, <1>6
    <2>4. r # NoMismatch
      BY <2>2, <2>3 DEF NoMismatch
    <2>5. \A x \in range : x < y => MatchP(v, x) /\ MatchQ(v, x)
      BY <1>2, <1>3, <2>1, <2>2
    <2>6. \/ r.parity = P /\ ~MatchP(v, y)
          \/ r.parity = Q /\ MatchP(v, y) /\ ~MatchQ(v, y)
      BY <2>2, <2>3 DEF MatchP
    <2> HIDE DEF r
    <2>7. QED
      BY <2>2, <2>3, <2>4, <2>5, <2>6 DEF Names, r
  <1>7. QED
    BY <1>5, <1>6

(* The words and the rest are the positions, in order.                     *)
LEMMA TimesUp ==
  ASSUME NEW m \in Nat, NEW n \in Nat, NEW w \in Nat, m <= n
  PROVE  m * w <= n * w /\ m * w \in Nat /\ (m + 1) * w = m * w + w
  OBVIOUS

LEMMA WordFacts ==
  /\ WordCount \in Nat /\ WordBytes \in Nat \ {0} /\ Length \in Nat
  /\ WordCount * WordBytes \in Nat /\ WordCount * WordBytes <= Length
  <1>1. WordBytes \in Nat \ {0} /\ Length \in Nat
    BY RaidShape
  <1>2. \A m \in Nat, w \in Nat \ {0} : m \div w \in Nat /\ (m \div w) * w \in Nat /\ (m \div w) * w <= m
    OBVIOUS
  <1>3. QED
    BY <1>1, <1>2 DEF WordCount

LEMMA WordInside ==
  ASSUME NEW i \in 0..(WordCount - 1)
  PROVE  WordAt(i) \in SUBSET Position
  <1>1. i \in Nat /\ i + 1 \in Nat /\ i + 1 <= WordCount
    BY WordFacts
  <1>2. (i + 1) * WordBytes <= WordCount * WordBytes /\ i * WordBytes \in Nat
        /\ (i + 1) * WordBytes \in Nat
    BY <1>1, WordFacts, TimesUp
  <1> DEFINE lo == i * WordBytes
             hi == (i + 1) * WordBytes
  <1>3. lo \in Nat /\ hi \in Nat /\ hi <= Length /\ Length \in Nat
    BY <1>2, WordFacts
  <1> HIDE DEF lo, hi
  <1>4. lo..(hi - 1) \in SUBSET (0..(Length - 1))
    BY <1>3
  <1>5. QED
    BY <1>4 DEF WordAt, Position, lo, hi

LEMMA RestInside == Rest \in SUBSET Position
  BY WordFacts DEF Rest, Position

LEMMA InWordOrRest ==
  ASSUME NEW x \in Position
  PROVE  \/ x \in Rest
         \/ \E i \in 0..(WordCount - 1) : x \in WordAt(i)
  <1> DEFINE i == x \div WordBytes
             end == WordCount * WordBytes
  <1>1. x \in Nat /\ x < Length /\ end \in Nat
    BY WordFacts DEF Position
  <1>2. i \in Nat /\ i * WordBytes <= x /\ x < i * WordBytes + WordBytes
    BY <1>1, WordFacts
  <1>3. CASE end <= x
    BY <1>1, <1>3, WordFacts DEF Rest
  <1>4. CASE x < end
    <2> HIDE DEF i
    <2>1. i < WordCount
      <3> SUFFICES ASSUME WordCount <= i PROVE FALSE
        BY <1>2, WordFacts
      <3>1. end <= i * WordBytes
        BY <1>2, WordFacts, TimesUp
      <3>2. QED
        BY <1>1, <1>2, <1>4, <3>1, WordFacts
    <2>2. i \in 0..(WordCount - 1)
      BY <1>2, <2>1, WordFacts
    <2>3. (i + 1) * WordBytes = i * WordBytes + WordBytes /\ i * WordBytes \in Nat
      BY <1>2, WordFacts, TimesUp
    <2>4. x \in WordAt(i)
      BY <1>1, <1>2, <2>3, WordFacts DEF WordAt
    <2>5. QED
      BY <2>2, <2>4
  <1>5. QED
    BY <1>1, <1>3, <1>4

LEMMA WordsInOrder ==
  ASSUME NEW i \in 0..(WordCount - 1), NEW j \in 0..(WordCount - 1),
         NEW x \in WordAt(i), NEW y \in WordAt(j), y < x
  PROVE  j <= i
  <1>1. i \in Nat /\ j \in Nat
    BY WordFacts
  <1> SUFFICES ASSUME i + 1 <= j PROVE FALSE
    BY <1>1
  <1>2. (i + 1) * WordBytes <= j * WordBytes
    BY <1>1, WordFacts, TimesUp
  <1>3. (i + 1) * WordBytes \in Nat /\ j * WordBytes \in Nat
    BY <1>1, WordFacts, TimesUp
  <1> DEFINE lo == j * WordBytes
             hi == (i + 1) * WordBytes
             low == i * WordBytes
             high == (j + 1) * WordBytes
  <1>4. hi <= lo /\ hi \in Nat /\ lo \in Nat /\ low \in Nat /\ high \in Nat
    BY <1>1, <1>2, <1>3, WordFacts, TimesUp
  <1>5. x \in low..(hi - 1) /\ y \in lo..(high - 1)
    BY DEF WordAt
  <1> HIDE DEF lo, hi, low, high
  <1>6. x < y
    BY <1>4, <1>5
  <1>7. QED
    BY <1>4, <1>5, <1>6

LEMMA RestLast ==
  ASSUME NEW i \in 0..(WordCount - 1), NEW x \in WordAt(i), NEW y \in Rest
  PROVE  x < y
  <1>1. i \in Nat /\ i + 1 <= WordCount
    BY WordFacts
  <1> DEFINE hi == (i + 1) * WordBytes
             end == WordCount * WordBytes
             low == i * WordBytes
  <1>2. hi <= end /\ hi \in Nat /\ end \in Nat /\ low \in Nat
    BY <1>1, WordFacts, TimesUp
  <1>3. x \in low..(hi - 1) /\ y \in end..(Length - 1)
    BY DEF WordAt, Rest
  <1> HIDE DEF hi, end, low
  <1>4. QED
    BY <1>2, <1>3, WordFacts

(* Word by word or byte by byte, the first mismatch is the same.           *)
LEMMA CheckNames ==
  ASSUME NEW v
  PROVE  Names(v, Position, pq_check(v))
  <1> DEFINE Good(x) == MatchP(v, x) /\ MatchQ(v, x)
             odd == {i \in 0..(WordCount - 1) :
                       \E x \in WordAt(i) : v[P][x] # PByte(v, x) \/ v[Q][x] # QByte(v, x)}
  <1>1. pq_check(v) = IF odd # {} THEN byte_scan(v, WordAt(Min(odd))) ELSE byte_scan(v, Rest)
    BY DEF pq_check
  <1>2. \A i \in 0..(WordCount - 1) : i \in odd <=> \E x \in WordAt(i) : ~Good(x)
    BY DEF MatchP, MatchQ
  <1>3. odd \in SUBSET (0..(WordCount - 1)) /\ odd \in SUBSET Int /\ IsFiniteSet(odd)
    <2>1. IsFiniteSet(0..(WordCount - 1))
      BY WordFacts, FS_Interval
    <2>2. odd \in SUBSET (0..(WordCount - 1))
      OBVIOUS
    <2>3. 0..(WordCount - 1) \in SUBSET Int
      OBVIOUS
    <2> HIDE DEF odd
    <2>4. QED
      BY <2>1, <2>2, <2>3, FS_Subset
  <1> HIDE DEF odd
  <1> DEFINE r == pq_check(v)
  <1>4. CASE odd = {}
    <2>1. Names(v, Rest, r)
      BY <1>1, <1>4, RestInside, ScanNames
    <2>2. \A x \in Position : x \in Rest \/ Good(x)
      BY <1>2, <1>4, InWordOrRest
    <2>3. Rest \subseteq Position
      BY RestInside
    <2> HIDE DEF r
    <2>4. CASE \A x \in Rest : Good(x)
      BY <2>1, <2>2, <2>3, <2>4 DEF Names, r
    <2>5. CASE ~\A x \in Rest : Good(x)
      <3>1. /\ r # NoMismatch
            /\ r.index \in Rest
            /\ \A x \in Rest : x < r.index => Good(x)
            /\ \/ r.parity = P /\ ~MatchP(v, r.index)
               \/ r.parity = Q /\ MatchP(v, r.index) /\ ~MatchQ(v, r.index)
        BY <2>1, <2>5 DEF Names
      <3>2. r.index \in Position /\ ~\A x \in Position : Good(x)
        BY <2>3, <2>5, <3>1
      <3>3. \A x \in Position : x < r.index => Good(x)
        BY <2>2, <3>1
      <3>4. QED
        BY <3>1, <3>2, <3>3 DEF Names, r
    <2>6. QED
      BY <2>4, <2>5
  <1>5. CASE odd # {}
    <2> DEFINE i == Min(odd)
    <2>1. i \in odd /\ \A j \in odd : i <= j
      BY <1>3, <1>5, MinIn
    <2>2. i \in 0..(WordCount - 1) /\ ~\A x \in WordAt(i) : Good(x)
      BY <1>2, <1>3, <2>1
    <2>3. Names(v, WordAt(i), r)
      BY <1>1, <1>5, <2>2, WordInside, ScanNames
    <2> HIDE DEF i, r
    <2>4. /\ r # NoMismatch
          /\ r.index \in WordAt(i)
          /\ \A x \in WordAt(i) : x < r.index => Good(x)
          /\ \/ r.parity = P /\ ~MatchP(v, r.index)
             \/ r.parity = Q /\ MatchP(v, r.index) /\ ~MatchQ(v, r.index)
      BY <2>2, <2>3 DEF Names
    <2>5. r.index \in Position /\ ~\A x \in Position : Good(x)
      BY <2>2, <2>4, WordInside
    <2>6. ASSUME NEW x \in Position, x < r.index
          PROVE  Good(x)
      <3>1. CASE x \in Rest
        <4>1. r.index < x
          BY <2>2, <2>4, <3>1, RestLast
        <4>2. x \in Int /\ r.index \in Int
          BY <2>5 DEF Position
        <4>3. QED
          BY <2>6, <4>1, <4>2
      <3>2. CASE \E j \in 0..(WordCount - 1) : x \in WordAt(j)
        <4>1. PICK j \in 0..(WordCount - 1) : x \in WordAt(j)
          BY <3>2
        <4>2. j <= i
          BY <2>2, <2>4, <2>6, <4>1, WordsInOrder
        <4>3. CASE j = i
          BY <2>4, <2>6, <4>1, <4>3
        <4>4. CASE j # i
          <5>1. j \notin odd
            BY <2>1, <2>2, <4>2, <4>4
          <5>2. QED
            BY <1>2, <4>1, <5>1
        <4>5. QED
          BY <4>3, <4>4
      <3>3. QED
        BY <3>1, <3>2, InWordOrRest
    <2>7. QED
      BY <2>4, <2>5, <2>6 DEF Names, r
  <1>6. QED
    BY <1>4, <1>5

LEMMA XorCheckIs ==
  ASSUME NEW v
  PROVE  xor_check(v) <=> \A x \in Position : MatchP(v, x)
  <1>1. ASSUME xor_check(v), NEW x \in Position
        PROVE  MatchP(v, x)
    BY <1>1, InWordOrRest DEF xor_check, MatchP
  <1>2. ASSUME \A x \in Position : MatchP(v, x)
        PROVE  xor_check(v)
    BY <1>2, WordInside, RestInside DEF xor_check, MatchP
  <1>3. QED
    BY <1>1, <1>2
-----------------------------------------------------------------------------
(* The vectors are bytes, the last generation's stripe is whole, and what  *)
(* was answered is the check of the stripe as it is.                       *)
Whole(w) == \A x \in Position : MatchP(w, x) /\ MatchQ(w, x)

Answered ==
  /\ last.op = "pq_check" /\ last.verdict = "Ok" => last.answer = pq_check(vectors)
  /\ last.op = "xor_check" /\ last.verdict = "Ok" => last.answer = xor_check(vectors)

StripeInv ==
  /\ vectors \in Vectors
  /\ whole \in Vectors
  /\ Whole(whole)
  /\ Answered

LEMMA SameSources ==
  ASSUME NEW v \in Vectors, NEW w, NEW x \in Position, \A i \in SourceIds : w[i] = v[i]
  PROVE  /\ PByte(w, x) = PByte(v, x) /\ QByte(w, x) = QByte(v, x)
         /\ PByte(v, x) \in Byte /\ QByte(v, x) \in Byte
  <1>1. At(w, x) = At(v, x)
    BY DEF At
  <1>2. \A i \in SourceIds : v[i][x] \in Byte /\ w[i][x] \in Byte
    BY SourceByte
  <1>3. /\ QByte(v, x) = XorAll(SourceIds, Weighted(At(v, x)))
        /\ QByte(w, x) = XorAll(SourceIds, Weighted(At(w, x)))
    BY <1>2, QByteIs
  <1>4. QED
    BY <1>1, <1>3, PByteIs, XorAllByte

LEMMA WithPStripe ==
  ASSUME NEW v \in Vectors
  PROVE  /\ WithP(v) \in Vectors
         /\ \A i \in VectorIds \ {P} : WithP(v)[i] = v[i]
         /\ \A x \in Position : WithP(v)[P][x] = PByte(v, x)
  <1>1. [x \in Position |-> PByte(v, x)] \in Vector
    BY SameSources DEF Vector
  <1>2. QED
    BY <1>1, RaidShape DEF WithP, Vectors

LEMMA GenStripe ==
  ASSUME NEW v \in Vectors
  PROVE  pq_gen(v) \in Vectors /\ Whole(pq_gen(v))
  <1> DEFINE u == WithP(v)
             w == pq_gen(v)
  <1>1. [x \in Position |-> QByte(v, x)] \in Vector
    BY SameSources DEF Vector
  <1>2. /\ u \in Vectors /\ \A i \in VectorIds \ {P} : u[i] = v[i]
        /\ \A x \in Position : u[P][x] = PByte(v, x)
    BY WithPStripe
  <1>3. w = [u EXCEPT ![Q] = [x \in Position |-> QByte(v, x)]]
    BY DEF pq_gen
  <1> HIDE DEF u, w
  <1>4. /\ w \in Vectors
        /\ \A i \in VectorIds \ {Q} : w[i] = u[i]
        /\ \A x \in Position : w[Q][x] = QByte(v, x)
    BY <1>1, <1>2, <1>3, RaidShape DEF Vectors
  <1>5. \A i \in SourceIds : w[i] = v[i]
    BY <1>2, <1>4, RaidShape
  <1>6. \A x \in Position : w[P][x] = PByte(v, x)
    BY <1>2, <1>4, RaidShape
  <1>7. Whole(w)
    BY <1>4, <1>5, <1>6, SameSources DEF Whole, MatchP, MatchQ
  <1>8. QED
    BY <1>4, <1>7 DEF w

LEMMA InitStripeInv == StripeInit => StripeInv
  <1> SUFFICES ASSUME StripeInit PROVE StripeInv
    OBVIOUS
  <1>1. PICK s \in Starts :
          vectors = pq_gen([i \in VectorIds |->
                              IF i \in SourceIds THEN s[i] ELSE [x \in Position |-> {}]])
    BY DEF StripeInit
  <1> DEFINE v == [i \in VectorIds |->
                     IF i \in SourceIds THEN s[i] ELSE [x \in Position |-> {}]]
  <1>2. v \in Vectors
    <2>1. s \in [SourceIds -> Vector]
      BY RaidAssumption
    <2>2. [x \in Position |-> {}] \in Vector
      BY ByteFacts DEF Vector
    <2>3. QED
      BY <2>1, <2>2 DEF Vectors
  <1> HIDE DEF v
  <1>3. vectors \in Vectors /\ Whole(vectors)
    BY <1>1, <1>2, GenStripe DEF v
  <1>4. whole = vectors /\ last = NoCall
    BY DEF StripeInit
  <1>5. Answered
    BY <1>4 DEF Answered, NoCall, Called
  <1>6. QED
    BY <1>3, <1>4, <1>5 DEF StripeInv

LEMMA WriteStripeInv ==
  ASSUME StripeInv, NEW i \in VectorIds, NEW x \in Position, NEW b \in Values,
         Write(i, x, b)
  PROVE  StripeInv'
  <1>1. b \in Byte
    BY RaidAssumption
  <1>2. vectors' = [vectors EXCEPT ![i][x] = b] /\ whole' = whole /\ last' = NoCall
    BY DEF Write
  <1>3. vectors' \in Vectors
    BY <1>1, <1>2 DEF StripeInv, Vectors, Vector
  <1>4. Answered'
    BY <1>2 DEF Answered, NoCall, Called
  <1>5. QED
    BY <1>2, <1>3, <1>4 DEF StripeInv

LEMMA CallStripeInv ==
  ASSUME StripeInv, NEW n \in {1, N},
         \/ CallPqGen(n) \/ CallXorGen(n) \/ CallPqCheck(n)
         \/ \E m \in {1, N + 1} : CallXorCheck(m)
  PROVE  StripeInv'
  <1>1. CASE CallPqGen(n)
    <2>1. vectors' \in Vectors /\ whole' \in Vectors /\ Whole(whole')
      BY <1>1, GenStripe DEF CallPqGen, StripeInv
    <2>2. last'.op = "pq_gen"
      BY <1>1 DEF CallPqGen, Called
    <2>3. Answered'
      BY <2>2 DEF Answered
    <2>4. QED
      BY <2>1, <2>3 DEF StripeInv
  <1>2. CASE CallXorGen(n)
    <2>1. vectors' \in Vectors /\ whole' = whole
      BY <1>2, WithPStripe DEF CallXorGen, StripeInv, xor_gen
    <2>2. last'.op = "xor_gen"
      BY <1>2 DEF CallXorGen, Called
    <2>3. Answered'
      BY <2>2 DEF Answered
    <2>4. QED
      BY <2>1, <2>3 DEF StripeInv
  <1>3. CASE CallPqCheck(n)
    <2>1. /\ vectors' = vectors /\ whole' = whole
          /\ last'.op = "pq_check"
          /\ last'.verdict = "Ok" => last'.answer = pq_check(vectors)
      BY <1>3 DEF CallPqCheck, Called
    <2>2. Answered'
      BY <2>1 DEF Answered
    <2>3. QED
      BY <2>1, <2>2 DEF StripeInv
  <1>4. CASE \E m \in {1, N + 1} : CallXorCheck(m)
    <2>1. /\ vectors' = vectors /\ whole' = whole
          /\ last'.op = "xor_check"
          /\ last'.verdict = "Ok" => last'.answer = xor_check(vectors)
      BY <1>4 DEF CallXorCheck, Called
    <2>2. Answered'
      BY <2>1 DEF Answered
    <2>3. QED
      BY <2>1, <2>2 DEF StripeInv
  <1>5. QED
    BY <1>1, <1>2, <1>3, <1>4

LEMMA StepStripeInv == StripeInv /\ [StripeNext]_stripeVars => StripeInv'
  <1> SUFFICES ASSUME StripeInv, [StripeNext]_stripeVars PROVE StripeInv'
    OBVIOUS
  <1>1. CASE \E i \in VectorIds, x \in Position, b \in Values : Write(i, x, b)
    BY <1>1, WriteStripeInv
  <1>2. CASE \E n \in {1, N} : CallPqGen(n) \/ CallXorGen(n) \/ CallPqCheck(n)
    BY <1>2, CallStripeInv
  <1>3. CASE \E n \in {1, N + 1} : CallXorCheck(n)
    BY <1>3, CallStripeInv
  <1>4. CASE UNCHANGED stripeVars
    BY <1>4 DEF stripeVars, StripeInv, Answered
  <1>5. QED
    BY <1>1, <1>2, <1>3, <1>4 DEF StripeNext

LEMMA AlwaysStripeInv == StripeSpec => []StripeInv
  BY InitStripeInv, StepStripeInv, PTL DEF StripeSpec

LEMMA DamagedIs ==
  ASSUME NEW x
  PROVE  Damaged(x) = Damage(vectors, whole, x)
  BY DEF Damaged, Damage

LEMMA DamageNamed == StripeInv => PqCheckNamesDamage
  <1> SUFFICES ASSUME StripeInv, last.op = "pq_check", last.verdict = "Ok"
               PROVE  LET end == IF last.answer = NoMismatch THEN Length ELSE last.answer.index
                      IN  /\ \A x \in 0..(end - 1) : Cardinality(Damaged(x)) \notin {1, 2}
                          /\ end < Length =>
                               /\ Damaged(end) # {}
                               /\ last.answer.parity = Q =>
                                    Damaged(end) = {Q} \/ Cardinality(Damaged(end)) > 1
                               /\ last.answer.parity = P => Damaged(end) # {Q}
    BY DEF PqCheckNamesDamage
  <1> DEFINE r == last.answer
             end == IF r = NoMismatch THEN Length ELSE r.index
  <1>1. /\ vectors \in Vectors /\ whole \in Vectors
        /\ \A x \in Position : MatchP(whole, x) /\ MatchQ(whole, x)
    BY DEF StripeInv, Whole
  <1>2. Names(vectors, Position, r)
    BY CheckNames DEF StripeInv, Answered
  <1> HIDE DEF r
  <1>3. end \in Nat /\ end <= Length /\ Length \in Nat
    BY <1>2, RaidShape DEF Names, Position
  <1>4. ASSUME NEW x \in 0..(end - 1)
        PROVE  Cardinality(Damaged(x)) \notin {1, 2}
    <2>1. x \in Position
      BY <1>3 DEF Position
    <2>2. MatchP(vectors, x) /\ MatchQ(vectors, x)
      BY <1>2, <1>3, <1>4, <2>1 DEF Names
    <2>3. QED
      BY <1>1, <2>1, <2>2, MatchesBoth, DamagedIs
  <1>5. ASSUME end < Length
        PROVE  /\ Damaged(end) # {}
               /\ r.parity = Q => Damaged(end) = {Q} \/ Cardinality(Damaged(end)) > 1
               /\ r.parity = P => Damaged(end) # {Q}
    <2> DEFINE D == Damage(vectors, whole, end)
    <2>1. /\ end \in Position /\ r.index = end
          /\ \/ r.parity = P /\ ~MatchP(vectors, end)
             \/ r.parity = Q /\ MatchP(vectors, end) /\ ~MatchQ(vectors, end)
      BY <1>2, <1>5, <1>3 DEF Names, Position
    <2>2. Damaged(end) = D
      BY DamagedIs
    <2>3. D # {}
      BY <1>1, <2>1, MatchOfNone, MatchQOfNone
    <2>4. ASSUME r.parity = P PROVE D # {Q}
      BY <1>1, <2>1, <2>4, MatchOfNone, RaidShape
    <2>5. ASSUME r.parity = Q, D # {Q} PROVE Cardinality(D) > 1
      <3>1. MatchP(vectors, end)
        BY <2>1, <2>5, RaidShape
      <3>2. IsFiniteSet(D) /\ D \subseteq VectorIds
        <4>1. IsFiniteSet(VectorIds)
          BY RaidShape, FS_Interval DEF VectorIds
        <4>2. D \in SUBSET VectorIds
          BY DEF Damage
        <4>3. QED
          BY <4>1, <4>2, FS_Subset
      <3> HIDE DEF D
      <3>3. Cardinality(D) # 1
        <4> SUFFICES ASSUME Cardinality(D) = 1 PROVE FALSE
          OBVIOUS
        <4>1. PICK a : D = {a}
          BY <3>2, FS_Singleton
        <4>2. a \in SourceIds \cup {P} /\ D \ {Q} = {a}
          BY <2>5, <3>2, <4>1, RaidShape
        <4>3. ~MatchP(vectors, end)
          BY <1>1, <2>1, <4>2, MatchPOfOne DEF D
        <4>4. QED
          BY <3>1, <4>3
      <3>4. Cardinality(D) # 0 /\ Cardinality(D) \in Nat
        BY <2>3, <3>2, FS_EmptySet, FS_CardinalityType
      <3>5. QED
        BY <3>3, <3>4
    <2>6. QED
      BY <2>2, <2>3, <2>4, <2>5
  <1>6. QED
    BY <1>4, <1>5 DEF r

LEMMA DamageSeen == StripeInv => XorCheckSeesDamage
  <1> SUFFICES ASSUME StripeInv, last.op = "xor_check", last.verdict = "Ok"
               PROVE  /\ last.answer => \A x \in Position : Cardinality(Damaged(x) \ {Q}) # 1
                      /\ ~last.answer => \E x \in Position : Damaged(x) \ {Q} # {}
    BY DEF XorCheckSeesDamage
  <1>1. /\ vectors \in Vectors /\ whole \in Vectors
        /\ \A x \in Position : MatchP(whole, x) /\ MatchQ(whole, x)
    BY DEF StripeInv, Whole
  <1>2. last.answer = xor_check(vectors)
    BY DEF StripeInv, Answered
  <1>3. ASSUME xor_check(vectors), NEW x \in Position
        PROVE  Cardinality(Damaged(x) \ {Q}) # 1
    <2> SUFFICES ASSUME Cardinality(Damaged(x) \ {Q}) = 1 PROVE FALSE
      OBVIOUS
    <2> DEFINE D == Damage(vectors, whole, x) \ {Q}
    <2>1. D \in SUBSET VectorIds /\ IsFiniteSet(VectorIds)
      BY RaidShape, FS_Interval DEF VectorIds, Damage
    <2>2. IsFiniteSet(D) /\ Cardinality(D) = 1
      BY <2>1, FS_Subset, DamagedIs
    <2> HIDE DEF D
    <2>3. PICK a : D = {a}
      BY <2>2, FS_Singleton
    <2>4. a \in SourceIds \cup {P}
      BY <2>1, <2>3, RaidShape DEF D
    <2>5. ~MatchP(vectors, x)
      BY <1>1, <2>3, <2>4, MatchPOfOne DEF D
    <2>6. QED
      BY <1>3, <2>5, XorCheckIs
  <1>4. ASSUME ~xor_check(vectors)
        PROVE  \E x \in Position : Damaged(x) \ {Q} # {}
    <2>1. PICK x \in Position : ~MatchP(vectors, x)
      BY <1>4, XorCheckIs
    <2>2. ~(Damage(vectors, whole, x) \subseteq {Q})
      BY <1>1, <2>1, MatchOfNone
    <2>3. QED
      BY <2>2, DamagedIs
  <1>5. QED
    BY <1>2, <1>3, <1>4

(* pq_check names damage: for every number of sources up to the order of   *)
(* the generator, every length and every width of its words, no set of one *)
(* or two damaged vectors at a position goes unnoticed before the position *)
(* it answers, and what it answers is damaged, Q only when P agrees.       *)
THEOREM PqCheckSound == StripeSpec => []PqCheckNamesDamage
  BY DamageNamed, AlwaysStripeInv, PTL

(* xor_check sees every stripe with one damaged vector among the sources   *)
(* and P, and only damage makes it answer no.                              *)
THEOREM XorCheckSound == StripeSpec => []XorCheckSeesDamage
  BY DamageSeen, AlwaysStripeInv, PTL
-----------------------------------------------------------------------------
(* The walk and the recurrence on bytes: a term of a sum, read in the      *)
(* sources v, is a byte of its source, doubled as often as the term says.  *)
Read(v, sum) ==
  XorAll(sum, [t \in sum |-> mul(Weight(t[2]), v[t[1]][t[3]])])

Terms(d, x) == {<<i, d[i], x>> : i \in SourceIds}

LEMMA ReadTerms ==
  ASSUME NEW v, NEW x, NEW d \in [SourceIds -> Nat],
         NEW t, \A i \in SourceIds : t[i] = mul(Weight(d[i]), v[i][x])
  PROVE  Read(v, Terms(d, x)) = XorAll(SourceIds, t)
  <1> DEFINE T == {<<i, d[i], x>> : i \in SourceIds}
             f == [i \in SourceIds |-> <<i, d[i], x>>]
             u == [y \in T |-> mul(Weight(y[2]), v[y[1]][y[3]])]
  <1>1. f \in [SourceIds -> T]
    OBVIOUS
  <1>2. \A i, j \in SourceIds : f[i] = f[j] => i = j
    OBVIOUS
  <1>3. \A y \in T : \E i \in SourceIds : f[i] = y
    OBVIOUS
  <1>4. \A i \in SourceIds : t[i] = u[f[i]]
    OBVIOUS
  <1>5. Read(v, T) = XorAll(T, u)
    BY DEF Read
  <1> HIDE DEF T, f, u
  <1>6. XorAll(T, u) = XorAll(SourceIds, t)
    BY <1>1, <1>2, <1>3, <1>4, RaidShape, XorAllRenamed
  <1>7. QED
    BY <1>5, <1>6 DEF T, Terms

ParityOfSources ==
  phase = "done" /\ call.sources = N =>
    \A v \in [SourceIds -> [DOMAIN p -> Byte]] : \A x \in DOMAIN p :
      /\ Read(v, p[x]) = PByte(v, x)
      /\ call.op = "pq" => Read(v, q[x]) = QByte(v, x)

LEMMA ParityOfSInv == SInv => ParityOfSources
  <1> SUFFICES ASSUME SInv, phase = "done", call.sources = N,
                      NEW v \in [SourceIds -> [DOMAIN p -> Byte]], NEW x \in DOMAIN p
               PROVE  /\ Read(v, p[x]) = PByte(v, x)
                      /\ call.op = "pq" => Read(v, q[x]) = QByte(v, x)
    BY DEF ParityOfSources
  <1>1. /\ Sources(call) = SourceIds
        /\ call.op = "pq" => DOMAIN q = DOMAIN p
    BY CallShape DEF SInv, IInv, TypeOK, Passed, Even, Sources, SourceIds
  <1>2. /\ p[x] = ContractP(x)
        /\ call.op = "pq" => q[x] = ContractQ(x)
    BY <1>1, ContractOfSInv DEF ContractMet
  <1>3. \A i \in SourceIds : v[i][x] \in Byte
    OBVIOUS
  <1>4. Read(v, p[x]) = PByte(v, x)
    <2> DEFINE d == [i \in SourceIds |-> 0]
    <2>1. d \in [SourceIds -> Nat] /\ \A i \in SourceIds : d[i] = 0
      OBVIOUS
    <2>2. p[x] = Terms(d, x)
      BY <1>1, <1>2, <2>1 DEF ContractP, Terms
    <2> HIDE DEF d
    <2>3. \A i \in SourceIds : At(v, x)[i] = mul(Weight(d[i]), v[i][x])
      BY <1>3, <2>1, WeightZero, MulOne DEF At
    <2>4. Read(v, Terms(d, x)) = XorAll(SourceIds, At(v, x))
      BY <2>1, <2>3, ReadTerms
    <2>5. QED
      BY <2>2, <2>4, PByteIs
  <1>5. ASSUME call.op = "pq" PROVE Read(v, q[x]) = QByte(v, x)
    <2> DEFINE d == [i \in SourceIds |-> i]
    <2>1. d \in [SourceIds -> Nat] /\ \A i \in SourceIds : d[i] = i /\ i - 0 = i
      BY DEF SourceIds
    <2>2. q[x] = Terms(d, x)
      BY <1>1, <1>2, <1>5, <2>1 DEF ContractQ, Terms
    <2> HIDE DEF d
    <2>3. \A i \in SourceIds : Weighted(At(v, x))[i] = mul(Weight(d[i]), v[i][x])
      BY <2>1, WeightOfSource DEF At, Weighted
    <2>4. Read(v, Terms(d, x)) = XorAll(SourceIds, Weighted(At(v, x)))
      BY <2>1, <2>3, ReadTerms
    <2>5. QED
      BY <1>3, <2>2, <2>4, QByteIs
  <1>6. QED
    BY <1>4, <1>5

(* What the walk stores is what Raid's pq_gen and xor_gen store: read in   *)
(* the sources of the call, the sums of every implementation are the       *)
(* parity bytes of the recurrence.                                         *)
THEOREM WalkGeneratesParity == Spec => []ParityOfSources
  BY ParityOfSInv, AlwaysSInv, PTL
-----------------------------------------------------------------------------
(* Lanes of a word (RaidFold).                                             *)

LEMMA InLane ==
  ASSUME NEW l \in Nat, NEW r \in Bit
  PROVE  /\ l * Bits + r \in Nat
         /\ (l * Bits + r) \div Bits = l /\ (l * Bits + r) % Bits = r
         /\ l * Bits + r \in WordBit <=> l \in Upto(LaneCount)
  <1>1. /\ Bits \in Nat \ {0} /\ r \in Upto(Bits) /\ LaneCount \in Nat \ {0}
        /\ r \in Nat /\ r <= Bits - 1
    BY FieldAssumption, FoldAssumption DEF Bit, Upto
  <1>2. l \in Upto(l + 1) /\ l + 1 \in Nat
    BY DEF Upto
  <1>3. (l * Bits + r) \div Bits = l /\ (l * Bits + r) % Bits = r
        /\ l * Bits + r \in Upto((l + 1) * Bits)
    BY <1>1, <1>2, PositionOf
  <1>4. l * Bits + r \in Nat /\ l * Bits \in Nat
    BY <1>1
  <1>5. WordBits \in Nat /\ WordBit = Upto(WordBits)
    BY <1>1 DEF WordBits, WordBit, Upto
  <1>6. ASSUME l \in Upto(LaneCount)
        PROVE  l * Bits + r \in WordBit
    BY <1>1, <1>5, <1>6, PositionOf DEF WordBits
  <1>7. ASSUME l \notin Upto(LaneCount)
        PROVE  l * Bits + r \notin WordBit
    <2>1. LaneCount <= l
      BY <1>1, <1>7 DEF Upto
    <2>2. LaneCount * Bits <= l * Bits
      BY <1>1, <2>1
    <2>3. QED
      BY <1>1, <1>4, <1>5, <2>2 DEF WordBits, Upto
  <1>8. QED
    BY <1>3, <1>4, <1>6, <1>7

(* Every bit of a word is a bit of one of its lanes.                       *)
LEMMA LaneOfBit ==
  ASSUME NEW i \in WordBit
  PROVE  \E l \in Upto(LaneCount), r \in Bit : i = l * Bits + r
  <1> DEFINE l == i \div Bits
             r == i % Bits
  <1>1. Bits \in Nat \ {0} /\ i \in Nat
    BY FieldAssumption DEF WordBit
  <1>2. l \in Nat /\ r \in Bit /\ i = l * Bits + r
    BY <1>1 DEF Bit
  <1> HIDE DEF l, r
  <1>3. l \in Upto(LaneCount)
    BY <1>2, InLane
  <1>4. QED
    BY <1>2, <1>3

(* The bits of w doubled, less those of w, is all ones from each bit of w  *)
(* up: here F is all ones from a bit of V up to the bit below one of U.    *)
(* What is left to borrow before bit i is 2^i when bit i - 1 is in F.      *)
Borrowing(F, i) == i # 0 /\ i - 1 \in F

LEMMA BorrowTracked ==
  ASSUME NEW n \in Nat, Powers(n), NEW U, NEW V, NEW F,
         \A i \in Upto(n) :
           \/ i \notin U /\ i \notin V /\ (i \in F <=> Borrowing(F, i))
           \/ (i \in V <=> i \in F) /\ (i \in U <=> Borrowing(F, i))
  PROVE  Numeral(F, n) + Numeral(V, n)
           = Numeral(U, n) + (IF Borrowing(F, n) THEN 2^n ELSE 0)
  <1> DEFINE Is(i) == Numeral(F, i) + Numeral(V, i)
                        = Numeral(U, i) + (IF Borrowing(F, i) THEN 2^i ELSE 0)
             G == {i \in 0..n : Is(i)}
  <1>1. 0 \in G
    BY NumeralStep DEF Borrowing
  <1>2. ASSUME NEW i \in Upto(n), i \in G
        PROVE  i + 1 \in G
    <2>1. i \in 0..n /\ i + 1 \in 0..n /\ i \in Nat /\ Is(i)
      BY <1>2 DEF Upto
    <2>2. /\ Numeral(F, i + 1) = Numeral(F, i) + Digit(F, i)
          /\ Numeral(U, i + 1) = Numeral(U, i) + Digit(U, i)
          /\ Numeral(V, i + 1) = Numeral(V, i) + Digit(V, i)
          /\ Numeral(F, i) \in Nat /\ Numeral(U, i) \in Nat /\ Numeral(V, i) \in Nat
      BY <2>1, NumeralStep
    <2>3. 2^i \in Nat /\ 2^(i + 1) = 2 * 2^i
      BY DigitNat
    <2>4. Borrowing(F, i + 1) <=> i \in F
      BY <2>1 DEF Borrowing
    <2>5. Digit(F, i) + Digit(V, i) + (IF Borrowing(F, i) THEN 2^i ELSE 0)
            = Digit(U, i) + (IF i \in F THEN 2 * 2^i ELSE 0)
      BY <2>3 DEF Digit
    <2>6. Digit(F, i) \in Nat /\ Digit(U, i) \in Nat /\ Digit(V, i) \in Nat
      BY DigitNat
    <2> DEFINE e == 2^i
    <2> HIDE DEF e
    <2>7. (IF Borrowing(F, i + 1) THEN 2^(i + 1) ELSE 0) = (IF i \in F THEN 2 * e ELSE 0)
      BY <2>3, <2>4 DEF e
    <2>8. e \in Nat
      BY <2>3 DEF e
    <2>9. Numeral(F, i) + Numeral(V, i)
            = Numeral(U, i) + (IF Borrowing(F, i) THEN e ELSE 0)
      BY <2>1 DEF e
    <2>10. Digit(F, i) + Digit(V, i) + (IF Borrowing(F, i) THEN e ELSE 0)
             = Digit(U, i) + (IF i \in F THEN 2 * e ELSE 0)
      BY <2>5 DEF e
    <2>11. Is(i + 1)
      BY <2>2, <2>6, <2>7, <2>8, <2>9, <2>10
    <2>12. QED
      BY <2>1, <2>11
  <1> HIDE DEF Is
  <1>3. \A i \in 0..n : i \in G
    <2> HIDE DEF G
    <2>1. QED
      BY <1>1, <1>2, UpInduction
  <1>4. n \in 0..n
    OBVIOUS
  <1>5. QED
    BY <1>3, <1>4 DEF Is

(* The lanes whose top bit is set, and all the bits of those lanes.        *)
Topped(w) == {l \in Upto(LaneCount) : l * Bits + (Bits - 1) \in w}
Filled(w) == {b \in WordBit : b \div Bits \in Topped(w)}

LEMMA LaneBits ==
  ASSUME NEW w \in Word, NEW i \in WordBit
  PROVE  LET m == w \cap BIT7
             U == ShiftLeft(m)
             V == ShiftRight(m, Bits - 1)
             F == Filled(w)
         IN  \/ i \notin U /\ i \notin V /\ (i \in F <=> Borrowing(F, i))
             \/ (i \in V <=> i \in F) /\ (i \in U <=> Borrowing(F, i))
  <1> DEFINE m == w \cap BIT7
             F == Filled(w)
             top == Bits - 1
  <1>1. PICK l \in Upto(LaneCount), r \in Bit : i = l * Bits + r
    BY LaneOfBit
  <1>2. /\ Bits \in Nat \ {0} /\ top \in Bit /\ LaneCount \in Nat \ {0}
        /\ l \in Nat /\ l < LaneCount /\ r \in Nat /\ r <= top /\ i \in Nat
        /\ WordBits \in Nat /\ i < WordBits
    BY <1>1, FieldAssumption, FoldAssumption DEF Bit, Upto, WordBit, WordBits
  <1>3. i \in ShiftLeft(m) <=> i - 1 \in m
    <2>1. i - 1 # WordBits - 1 /\ (i - 1) + 1 = i
      BY <1>2
    <2>2. \A b \in m : b \in Int
      BY DEF BIT7, WordBit
    <2> HIDE DEF m
    <2>3. QED
      BY <2>1, <2>2 DEF ShiftLeft
  <1>4. i \in ShiftRight(m, top) <=> i + top \in m
    <2>1. i + top >= top /\ (i + top) - top = i
      BY <1>2
    <2>2. \A b \in m : b \in Int
      BY DEF BIT7, WordBit
    <2> HIDE DEF m
    <2>3. \A b \in m : b - top = i => b = i + top
      BY <1>2, <2>2
    <2> HIDE DEF top
    <2>4. QED
      BY <2>1, <2>3 DEF ShiftRight
  <1>5. i \in F <=> l \in Topped(w)
    BY <1>1, <1>2, InLane DEF Filled
  <1>6. \A b \in m : b \in WordBit /\ b % Bits = top
    BY DEF BIT7
  <1>7. \A x \in Upto(LaneCount) : x * Bits + top \in m <=> x \in Topped(w)
    <2> SUFFICES ASSUME NEW x \in Upto(LaneCount)
                 PROVE  x * Bits + top \in m <=> x \in Topped(w)
      OBVIOUS
    <2>1. x \in Nat
      BY <1>2 DEF Upto
    <2>2. x * Bits + top \in WordBit /\ (x * Bits + top) % Bits = top
      BY <1>2, <2>1, InLane
    <2>3. QED
      BY <2>2 DEF BIT7, Topped
  <1> HIDE DEF m, top
  <1>8. CASE r = 0
    <2>1. i + top = l * Bits + top
      BY <1>1, <1>2, <1>8
    <2>2. i + top \in m <=> i \in F
      BY <1>1, <1>5, <1>7, <2>1
    <2>3. i - 1 \in m <=> Borrowing(F, i)
      <3>1. CASE l = 0
        <4>1. i = 0
          BY <1>1, <1>2, <1>8, <3>1
        <4>2. i - 1 \notin WordBit
          BY <4>1 DEF WordBit
        <4>3. QED
          BY <1>6, <4>1, <4>2 DEF Borrowing
      <3>2. CASE l # 0
        <4>1. /\ l - 1 \in Upto(LaneCount) /\ l - 1 \in Nat
              /\ i - 1 = (l - 1) * Bits + top /\ i # 0
          <5>1. l - 1 \in Upto(LaneCount) /\ l - 1 \in Nat
            BY <1>2, <3>2 DEF Upto
          <5>2. (l - 1) * Bits = l * Bits - Bits
            BY <1>2
          <5>3. l * Bits \in Nat
            BY <1>2
          <5>4. i - 1 = (l - 1) * Bits + top
            BY <1>1, <1>2, <1>8, <5>2, <5>3 DEF top
          <5>5. (l - 1) * Bits \in Nat
            BY <1>2, <5>1
          <5>6. QED
            BY <1>2, <5>1, <5>4, <5>5
        <4>2. (i - 1) \div Bits = l - 1 /\ i - 1 \in WordBit
          BY <1>2, <4>1, InLane
        <4>3. i - 1 \in F <=> l - 1 \in Topped(w)
          BY <4>2 DEF Filled
        <4>4. QED
          BY <1>7, <4>1, <4>3 DEF Borrowing
      <3>3. QED
        BY <3>1, <3>2
    <2>4. QED
      BY <1>3, <1>4, <2>2, <2>3 DEF m, top
  <1>9. CASE r # 0
    <2>1. r - 1 \in Bit /\ r - 1 \in Nat /\ r - 1 # top
      BY <1>2, <1>9 DEF Bit, top
    <2>2. i - 1 = l * Bits + (r - 1) /\ i # 0
      <3>1. l * Bits \in Nat
        BY <1>2
      <3>2. QED
        BY <1>1, <1>2, <1>9, <3>1
    <2>3. /\ (i - 1) \div Bits = l /\ (i - 1) % Bits = r - 1 /\ i - 1 \in WordBit
      BY <1>1, <1>2, <2>1, <2>2, InLane
    <2>4. i - 1 \notin m
      BY <1>6, <2>1, <2>3
    <2>5. i \in F <=> Borrowing(F, i)
      BY <1>5, <2>2, <2>3 DEF Borrowing, Filled
    <2>6. i + top \notin m
      <3>1. (l + 1) * Bits = l * Bits + Bits /\ l * Bits \in Nat
        BY <1>2
      <3>2. i + top = (l + 1) * Bits + (r - 1)
        BY <1>1, <1>2, <3>1 DEF top
      <3>3. (i + top) % Bits = r - 1
        <4>1. l + 1 \in Nat
          BY <1>2
        <4>2. ((l + 1) * Bits + (r - 1)) % Bits = r - 1
          BY <2>1, <4>1, InLane
        <4>3. QED
          BY <3>2, <4>2
      <3>4. QED
        BY <1>6, <2>1, <3>3
    <2>7. QED
      BY <1>3, <1>4, <2>4, <2>5, <2>6 DEF m, top
  <1>10. QED
    BY <1>8, <1>9

(* The subtraction fills the lanes whose top bit is set, and no other bit. *)
LEMMA SubtractionFills ==
  ASSUME NEW w \in Word
  PROVE  WrappingSub(ShiftLeft(w \cap BIT7), ShiftRight(w \cap BIT7, Bits - 1)) = Filled(w)
  <1> DEFINE n == WordBits
             U == ShiftLeft(w \cap BIT7)
             V == ShiftRight(w \cap BIT7, Bits - 1)
             F == Filled(w)
             d == 2^n
             c == IF Borrowing(F, n) THEN 1 ELSE 0
  <1>1. n \in Nat /\ Powers(n) /\ WordBit = Upto(n) /\ n \in 0..n
    BY PowersOfWordBits, FieldAssumption, FoldAssumption DEF WordBits, WordBit, Upto
  <1>2. \A i \in Upto(n) :
          \/ i \notin U /\ i \notin V /\ (i \in F <=> Borrowing(F, i))
          \/ (i \in V <=> i \in F) /\ (i \in U <=> Borrowing(F, i))
    BY <1>1, LaneBits
  <1> HIDE DEF n, U, V, F
  <1>3. Numeral(F, n) + Numeral(V, n) = Numeral(U, n) + (IF Borrowing(F, n) THEN d ELSE 0)
    BY <1>1, <1>2, BorrowTracked
  <1>4. /\ Numeral(F, n) \in Nat /\ Numeral(U, n) \in Nat /\ Numeral(V, n) \in Nat
        /\ d \in Nat \ {0} /\ Numeral(F, n) < d
    BY <1>1, NumeralStep, NumeralBelow, PowerNat
  <1> HIDE DEF d
  <1>5. \/ Numeral(U, n) - Numeral(V, n) = Numeral(F, n)
        \/ Numeral(U, n) - Numeral(V, n) = Numeral(F, n) - d
    BY <1>3, <1>4
  <1>6. (Numeral(U, n) - Numeral(V, n)) % d = Numeral(F, n)
    <2>1. \A x \in Nat : x < d => x % d = x /\ (x - d) % d = x
      BY <1>4
    <2>2. QED
      BY <1>4, <1>5, <2>1
  <1>7. WrappingSub(U, V) = {b \in WordBit : (Numeral(F, n) \div 2^b) % 2 = 1}
    BY <1>6 DEF WrappingSub, WordOf, Number, n, d
  <1>8. \A b \in Upto(n) : (Numeral(F, n) \div 2^b) % 2 = 1 <=> b \in F
    BY <1>1, NumeralBit
  <1>9. F \subseteq WordBit
    BY DEF F, Filled
  <1>10. WrappingSub(U, V) = F
    BY <1>1, <1>7, <1>8, <1>9
  <1>11. QED
    BY <1>10 DEF U, V, F

LEMMA FoldedWords ==
  ASSUME NEW u \in Word, NEW v \in Word
  PROVE  XOR(u, v) \in Word /\ gf2_mul2_lanes(u) \in Word
  <1> DEFINE shifted == ShiftLeft(u) \cap NOTBIT0
             folded == Filled(u) \cap GF8POLY
  <1>1. XOR(u, v) \in Word
    BY DEF Word, XOR, SymDiff
  <1>2. shifted \subseteq WordBit /\ folded \subseteq WordBit
    BY DEF NOTBIT0, GF8POLY
  <1>3. gf2_mul2_lanes(u) = XOR(shifted, folded)
    BY SubtractionFills DEF gf2_mul2_lanes
  <1> HIDE DEF shifted, folded
  <1>4. XOR(shifted, folded) \in Word
    BY <1>2 DEF Word, XOR, SymDiff
  <1>5. QED
    BY <1>1, <1>3, <1>4

LEMMA LaneFacts ==
  ASSUME NEW n \in Upto(LaneCount), NEW u, NEW v
  PROVE  LaneOf(u, n) \in Byte /\ LaneOf(XOR(u, v), n) = XOR(LaneOf(u, n), LaneOf(v, n))
  BY DEF LaneOf, Byte, XOR, SymDiff

(* Every lane of the doubled word is the lane, doubled.                    *)
LEMMA LaneDoubled ==
  ASSUME NEW w \in Word, NEW n \in Upto(LaneCount)
  PROVE  LaneOf(gf2_mul2_lanes(w), n) = double(LaneOf(w, n))
  <1> DEFINE x == LaneOf(w, n)
             shifted == ShiftLeft(w) \cap NOTBIT0
             folded == Filled(w) \cap GF8POLY
  <1>1. gf2_mul2_lanes(w) = XOR(shifted, folded)
    BY SubtractionFills DEF gf2_mul2_lanes
  <1>2. /\ n \in Nat /\ Bits \in Nat \ {0} /\ Bits - 1 \in Bit
        /\ \A b \in Bit : b \in Nat /\ b <= Bits - 1
    BY FieldAssumption, FoldAssumption DEF Bit, Upto
  <1>3. \A b \in Bit : /\ (n * Bits + b) \div Bits = n /\ (n * Bits + b) % Bits = b
                       /\ n * Bits + b \in WordBit
    BY <1>2, InLane
  <1>4. LaneOf(folded, n) = IF Bits - 1 \in x THEN Poly ELSE {}
    <2>1. \A b \in Bit : n * Bits + b \in folded <=> (n \in Topped(w) /\ b \in Poly)
      BY <1>3 DEF Filled, GF8POLY
    <2>2. n \in Topped(w) <=> Bits - 1 \in x
      BY <1>2 DEF Topped, LaneOf
    <2>3. Poly \subseteq Bit
      BY FieldAssumption DEF Bit
    <2> HIDE DEF folded, x
    <2>4. QED
      BY <2>1, <2>2, <2>3 DEF LaneOf
  <1>5. LaneOf(shifted, n) = {b + 1 : b \in x \ {Bits - 1}}
    <2>1. ASSUME NEW b \in Bit, b # 0
          PROVE  n * Bits + b \in shifted <=> b - 1 \in x
      <3>1. b - 1 \in Bit /\ b - 1 \in Nat /\ n * Bits \in Nat /\ b \in Nat
        BY <1>2, <2>1 DEF Bit
      <3>2. n * Bits + b \in NOTBIT0
        BY <1>3, <2>1 DEF NOTBIT0
      <3>3. n * Bits + b \in WordBit /\ WordBits \in Int
        BY <1>3, <1>2, FoldAssumption DEF WordBits
      <3> DEFINE i == n * Bits + b
      <3>4. i - 1 = n * Bits + (b - 1) /\ i \in Nat
        BY <3>1
      <3>5. i - 1 # WordBits - 1
        BY <3>3 DEF WordBit
      <3>6. \A y \in w : y \in Int
        BY DEF Word, WordBit
      <3>7. n * Bits + (b - 1) \in w <=> b - 1 \in x
        BY <3>1 DEF LaneOf
      <3> HIDE DEF i, x
      <3>8. i \in ShiftLeft(w) <=> i - 1 \in w
        BY <3>4, <3>5, <3>6 DEF ShiftLeft
      <3>9. QED
        BY <3>2, <3>4, <3>7, <3>8 DEF i
    <2>2. n * Bits + 0 \notin shifted /\ 0 \in Bit
      <3>1. 0 \in Bit
        BY <1>2 DEF Bit
      <3>2. QED
        BY <1>3, <3>1 DEF NOTBIT0
    <2>3. x \subseteq Bit
      BY DEF LaneOf
    <2> HIDE DEF shifted, x
    <2>4. \A b \in Bit : b \in LaneOf(shifted, n) <=> (b # 0 /\ b - 1 \in x)
      BY <2>1, <2>2 DEF LaneOf
    <2>5. \A b : b \in {y + 1 : y \in x \ {Bits - 1}} <=> (b \in Bit /\ b # 0 /\ b - 1 \in x)
      <3>1. \A y \in x : y \in Nat /\ y <= Bits - 1 /\ y + 1 # 0 /\ (y + 1) - 1 = y
                         /\ (y # Bits - 1 => y + 1 \in Bit)
        BY <1>2, <2>3 DEF Bit
      <3>2. \A b \in Bit : b # 0 => (b - 1) + 1 = b /\ b - 1 # Bits - 1
        BY <1>2
      <3>3. QED
        BY <3>1, <3>2
    <2>6. \A b : b \in LaneOf(shifted, n) => b \in Bit
      BY DEF LaneOf
    <2>7. QED
      BY <2>4, <2>5, <2>6
  <1>6. LaneOf(XOR(shifted, folded), n) = XOR(LaneOf(shifted, n), LaneOf(folded, n))
    BY LaneFacts
  <1>7. QED
    BY <1>1, <1>4, <1>5, <1>6 DEF double
-----------------------------------------------------------------------------
(* The fold.                                                               *)
Lanes(n) == [i \in Upto(SourceCount) |-> LaneOf(sources[i], n)]

FoldedLane(n) ==
  /\ LaneOf(pw, n) = XorAll((pending + 1)..Last, Lanes(n))
  /\ LaneOf(qw, n) = Weighed(Lanes(n), pending + 1, SourceCount)

FoldInv ==
  /\ sources \in Inputs
  /\ pending \in -1..(Last - 1)
  /\ pw \in Word /\ qw \in Word
  /\ \A n \in Upto(LaneCount) : FoldedLane(n)

LEMMA FoldShape ==
  /\ SourceCount \in Nat \ {0} /\ SourceCount >= 2 /\ Last = SourceCount - 1
  /\ Upto(SourceCount) = 0..Last
  /\ sources \in Inputs => \A i \in Upto(SourceCount) : sources[i] \in Word
  BY FoldAssumption DEF Last, Upto

LEMMA LanesBytes ==
  ASSUME NEW n
  PROVE  \A i \in Upto(SourceCount) : Lanes(n)[i] = LaneOf(sources[i], n) /\ Lanes(n)[i] \in Byte
  BY DEF Lanes, LaneOf, Byte

LEMMA FoldInvInit == FoldInit => FoldInv
  <1> SUFFICES ASSUME FoldInit PROVE FoldInv
    OBVIOUS
  <1>1. /\ sources \in Inputs /\ pending = Last - 1 /\ pending + 1 = Last
        /\ pw = sources[Last] /\ qw = sources[Last] /\ Last \in Upto(SourceCount)
        /\ pending \in -1..(Last - 1)
    BY FoldShape DEF FoldInit, Upto
  <1>2. pw \in Word /\ qw \in Word
    BY <1>1, FoldShape
  <1>3. ASSUME NEW n \in Upto(LaneCount)
        PROVE  FoldedLane(n)
    <2> DEFINE t == Lanes(n)
    <2>1. t[Last] = LaneOf(pw, n) /\ t[Last] = LaneOf(qw, n) /\ t[Last] \in Byte
      BY <1>1, LanesBytes
    <2> HIDE DEF t
    <2>2. Last..Last = {Last} /\ IsFiniteSet({Last})
      <3>1. IsFiniteSet({Last})
        BY FS_Singleton
      <3>2. QED
        BY <3>1, FoldShape
    <2>3. XorAll({Last}, t) = t[Last]
      BY <2>1, <2>2, XorAllOne
    <2>4. Weighed(t, Last, SourceCount) = t[Last]
      BY <2>1, FoldShape, WeighedLast
    <2>5. QED
      BY <1>1, <2>1, <2>2, <2>3, <2>4 DEF FoldedLane, t
  <1>4. QED
    BY <1>1, <1>2, <1>3 DEF FoldInv

LEMMA FoldInvStep == FoldInv /\ Fold => FoldInv'
  <1> SUFFICES ASSUME FoldInv, Fold PROVE FoldInv'
    OBVIOUS
  <1> DEFINE j == pending
  <1>1. /\ sources \in Inputs /\ j \in -1..(Last - 1) /\ j >= 0
        /\ pw \in Word /\ qw \in Word
        /\ pw' = XOR(pw, sources[j]) /\ qw' = XOR(sources[j], gf2_mul2_lanes(qw))
        /\ pending' = j - 1 /\ sources' = sources
    BY DEF FoldInv, Fold
  <1>2. /\ j \in Nat /\ j < SourceCount /\ j \in Upto(SourceCount)
        /\ pending' \in -1..(Last - 1) /\ pending' + 1 = j
        /\ j..Last = ((j + 1)..Last) \cup {j} /\ j \notin (j + 1)..Last
        /\ (j + 1)..Last \subseteq Upto(SourceCount)
        /\ \A m \in j..(SourceCount - 1) : m \in Upto(SourceCount)
    BY <1>1, FoldShape
  <1>3. sources[j] \in Word
    BY <1>1, <1>2, FoldShape
  <1>4. pw' \in Word /\ qw' \in Word
    <2>1. XOR(pw, sources[j]) \in Word /\ gf2_mul2_lanes(qw) \in Word
      BY <1>1, <1>3, FoldedWords
    <2>2. XOR(sources[j], gf2_mul2_lanes(qw)) \in Word
      BY <1>3, <2>1, FoldedWords
    <2>3. QED
      BY <1>1, <2>1, <2>2
  <1>5. ASSUME NEW n \in Upto(LaneCount)
        PROVE  FoldedLane(n)'
    <2> DEFINE t == Lanes(n)
    <2>1. \A m \in Upto(SourceCount) : t[m] = LaneOf(sources[m], n) /\ t[m] \in Byte
      BY LanesBytes
    <2>2. Lanes(n)' = t
      BY <1>1 DEF Lanes
    <2>3. /\ LaneOf(pw, n) = XorAll((j + 1)..Last, t)
          /\ LaneOf(qw, n) = Weighed(t, j + 1, SourceCount)
      BY DEF FoldInv, FoldedLane
    <2> HIDE DEF t, j
    <2>4. LaneOf(pw', n) = XorAll(j..Last, t)
      <3>1. LaneOf(pw', n) = XOR(LaneOf(pw, n), LaneOf(sources[j], n))
        BY <1>1, LaneFacts
      <3>2. IsFiniteSet((j + 1)..Last)
        BY <1>2, FoldShape, FS_Interval
      <3>3. XorAll(((j + 1)..Last) \cup {j}, t) = XOR(XorAll((j + 1)..Last, t), t[j])
        BY <1>2, <2>1, <3>2, XorAllInsert
      <3>4. QED
        BY <1>2, <2>1, <2>3, <3>1, <3>3
    <2>5. LaneOf(qw', n) = Weighed(t, j, SourceCount)
      <3>1. LaneOf(qw', n) = XOR(LaneOf(sources[j], n), LaneOf(gf2_mul2_lanes(qw), n))
        BY <1>1, LaneFacts
      <3>2. LaneOf(gf2_mul2_lanes(qw), n) = double(LaneOf(qw, n))
        BY <1>1, LaneDoubled
      <3>3. \A m \in j..(SourceCount - 1) : t[m] \in Byte
        BY <1>2, <2>1
      <3>4. Weighed(t, j, SourceCount) = XOR(t[j], double(Weighed(t, j + 1, SourceCount)))
        BY <1>2, <3>3, FoldShape, WeighedStep
      <3>5. QED
        BY <1>2, <2>1, <2>3, <3>1, <3>2, <3>4
    <2>6. LaneOf(pw, n)' = LaneOf(pw', n) /\ LaneOf(qw, n)' = LaneOf(qw', n)
      BY DEF LaneOf
    <2>7. FoldedLane(n)' <=> /\ LaneOf(pw', n) = XorAll((pending' + 1)..Last, t)
                             /\ LaneOf(qw', n) = Weighed(t, pending' + 1, SourceCount)
      BY <2>2, <2>6 DEF FoldedLane, Weighed
    <2>8. QED
      BY <1>2, <2>4, <2>5, <2>7
  <1>6. QED
    BY <1>1, <1>2, <1>4, <1>5 DEF FoldInv

LEMMA LanesFollow == FoldInv => LanesIndependent
  <1> SUFFICES ASSUME FoldInv, NEW n \in 0..(LaneCount - 1)
               PROVE  /\ LaneOf(pw, n) = XorAll(Folded, [i \in Folded |-> LaneOf(sources[i], n)])
                      /\ LaneOf(qw, n) =
                           XorAll(Folded, [i \in Folded |->
                             mul(EXP[(i - pending - 1) % Order], LaneOf(sources[i], n))])
    BY DEF LanesIndependent
  <1> DEFINE t == Lanes(n)
             w == [m \in (pending + 1)..(SourceCount - 1) |-> mul(Weight(m - (pending + 1)), t[m])]
             g == [i \in Folded |-> LaneOf(sources[i], n)]
             h == [i \in Folded |-> mul(EXP[(i - pending - 1) % Order], LaneOf(sources[i], n))]
  <1>1. /\ pending \in -1..(Last - 1) /\ Folded = (pending + 1)..Last
        /\ Folded = (pending + 1)..(SourceCount - 1) /\ Folded \subseteq Upto(SourceCount)
    BY FoldShape DEF FoldInv, Folded
  <1>2. \A i \in Folded : t[i] = LaneOf(sources[i], n)
    BY <1>1, LanesBytes
  <1>3. /\ LaneOf(pw, n) = XorAll(Folded, t)
        /\ LaneOf(qw, n) = XorAll(Folded, w)
    BY <1>1 DEF FoldInv, FoldedLane, Weighed, Upto
  <1>4. \A i \in Folded : t[i] = g[i]
    BY <1>2
  <1>5. \A i \in Folded : w[i] = h[i]
    <2> SUFFICES ASSUME NEW i \in Folded PROVE w[i] = h[i]
      OBVIOUS
    <2>1. i - (pending + 1) = i - pending - 1
      BY <1>1
    <2>2. w[i] = mul(Weight(i - (pending + 1)), t[i])
      BY <1>1
    <2>3. h[i] = mul(EXP[(i - pending - 1) % Order], LaneOf(sources[i], n))
      OBVIOUS
    <2> HIDE DEF w, h, t
    <2>4. QED
      BY <1>2, <2>1, <2>2, <2>3 DEF Weight
  <1> HIDE DEF t, w, g, h
  <1>6. XorAll(Folded, t) = XorAll(Folded, g) /\ XorAll(Folded, w) = XorAll(Folded, h)
    BY <1>4, <1>5, XorAllSame
  <1>7. QED
    BY <1>3, <1>6 DEF g, h

(* For every width of word, number of lanes and sources: the lanes of the  *)
(* parity words (core/src/raid.rs pq_gen) never disturb one another, and   *)
(* each holds the sums the doubling recurrence is meant to build.          *)
THEOREM LanesStayIndependent == FoldSpec => []LanesIndependent
  <1>1. FoldInv /\ UNCHANGED foldVars => FoldInv'
    BY DEF FoldInv, FoldedLane, Lanes, foldVars
  <1>2. FoldInv /\ [FoldNext]_foldVars => FoldInv'
    BY <1>1, FoldInvStep DEF FoldNext
  <1>3. FoldSpec => []FoldInv
    BY <1>2, FoldInvInit, PTL DEF FoldSpec
  <1>4. QED
    BY <1>3, LanesFollow, PTL

=============================================================================
