---------------------------- MODULE KernelProofs ----------------------------
(***************************************************************************)
(* Proofs about the kernels.  KernelWalk: for every vector width, number   *)
(* of sources and rows, length and table buffer, the unchecked accesses    *)
(* stay in bounds and the call meets its contract.  MulShift: for every    *)
(* field with the laws assumed of it, the loop of mul_shift, the nibble    *)
(* tables and the affine matrices multiply as EXP and LOG do.  Together: a *)
(* SIMD call computes what the Coder takes a kernel set to compute.        *)
(***************************************************************************)
EXTENDS KernelWalk, MulShift, CoderProofs

(* StoredOnce says what chunks and groups have left behind; it is inductive *)
(* once the wrapper's assertions are carried along with it.                 *)
Passed ==
  /\ phase \in {"groups", "chunks", "done"} => Accepted(call)
  /\ phase = "panic" => ~Accepted(call)
  /\ phase \in {"called", "panic"} => row = 0
  /\ phase = "chunks" => row < call.rows
  /\ phase = "done" => row = call.rows

IInv == call \in Calls /\ TypeOK /\ Passed /\ StoredOnce

LEMMA CallShape ==
  ASSUME call \in Calls
  PROVE  /\ call.op \in {"encode", "update", "mad"}
         /\ call.affine \in BOOLEAN
         /\ call.k \in Nat /\ call.i \in Nat /\ call.rows \in Nat /\ call.tables \in Nat
         /\ call.srcLen \in [Used(call) -> Nat]
         /\ call.outLen \in [Rows(call) -> Nat]
         /\ call.op = "mad" => call.k = 1 /\ call.i = 0 /\ call.rows = 1
         /\ Lane \in Nat \ {0}
  BY WalkAssumption

LEMMA MinOfTwo ==
  ASSUME NEW m \in Int, NEW n \in Int
  PROVE  Min({m, n}) = IF m <= n THEN m ELSE n
  <1>1. \E x \in {m, n} : \A y \in {m, n} : x <= y
    OBVIOUS
  <1>2. /\ Min({m, n}) \in {m, n}
        /\ \A y \in {m, n} : Min({m, n}) <= y
    BY <1>1 DEF Min
  <1>3. QED
    BY <1>2

(* A group is not empty, not past the last row, and not too large for the  *)
(* kernel that is chosen for it.                                           *)
LEMMA GroupShape ==
  ASSUME call \in Calls, row \in Nat, row < call.rows
  PROVE  /\ Group \in Nat \ {0}
         /\ row + Group <= call.rows
         /\ Group <= RowCap(call)
         /\ Fused(call, Group) = Group
         /\ MainWidth(call, Group) \in {1, 2, 4}
  <1>1. call.rows \in Nat /\ call.op \in {"encode", "update", "mad"} /\ call.affine \in BOOLEAN
    BY CallShape
  <1>2. RowCap(call) \in {2, 4, 8}
    BY DEF RowCap
  <1>3. call.rows - row \in Int /\ call.rows - row >= 1
    BY <1>1
  <1>4. Group = IF call.rows - row <= RowCap(call) THEN call.rows - row ELSE RowCap(call)
    BY <1>2, <1>3, MinOfTwo DEF Group
  <1>5. Group \in Nat \ {0} /\ row + Group <= call.rows /\ Group <= RowCap(call)
    BY <1>1, <1>2, <1>3, <1>4
  <1>6. Fused(call, Group) = Group
    <2> DEFINE g == Group
    <2>1. g \in Nat \ {0} /\ g <= RowCap(call)
      BY <1>5
    <2> HIDE DEF g
    <2>2. (IF g \in 2..RowCap(call) THEN g ELSE 1) = g
      BY <1>2, <2>1
    <2>3. QED
      BY <2>2 DEF Fused, g
  <1>7. MainWidth(call, Group) \in {1, 2, 4}
    BY <1>1 DEF MainWidth, InRegisters
  <1>8. QED
    BY <1>5, <1>6, <1>7

(* The table of a row and source, wherever the group's slice begins.       *)
LEMMA TableIs ==
  ASSUME call \in Calls, row \in Nat, NEW l \in Nat, NEW j \in Nat
  PROVE  Table(l, j) = l * call.k + j
  <1>1. call.k \in Nat
    BY CallShape
  <1>2. \A k \in Nat : row * k + ((l - row) * k + j) = l * k + j
    OBVIOUS
  <1>3. QED
    BY <1>1, <1>2 DEF Table

LEMMA UsedNat ==
  ASSUME call \in Calls, NEW j \in Used(call)
  PROVE  j \in Nat
  BY CallShape DEF Used

(* A byte not yet written is left as the contract says.                    *)
LEMMA StoredIsContract ==
  ASSUME call \in Calls, row \in Nat, NEW l \in Nat, NEW q \in Nat,
         out[l][q] = {Was}
  PROVE  Stored(l, q) = Contract(l, q)
  <1>1. \A j \in Used(call) : Product(l, j, q) = <<l * call.k + j, j, q>>
    BY TableIs, UsedNat DEF Product
  <1>2. CASE call.op = "encode"
    BY <1>1, <1>2 DEF Stored, Contract
  <1>3. CASE call.op # "encode"
    <2>1. call.i \in Nat /\ call.i \in Used(call)
      BY <1>3, CallShape DEF Used
    <2>2. Product(l, call.i, q) = <<l * call.k + call.i, call.i, q>>
      BY <1>1, <2>1
    <2>3. Product(l, call.i, q) # Was
      BY <2>1, <2>2 DEF Was
    <2>4. SymDiff({Was}, {Product(l, call.i, q)}) = {Was, Product(l, call.i, q)}
      BY <2>3 DEF SymDiff
    <2>5. QED
      BY <1>3, <2>2, <2>4 DEF Stored, Contract
  <1>4. QED
    BY <1>2, <1>3

LEMMA InitIInv == Init => IInv
  <1> SUFFICES ASSUME Init PROVE IInv
    OBVIOUS
  <1>1. call.rows \in Nat
    BY CallShape DEF Init
  <1>2. TypeOK
    BY <1>1 DEF Init, TypeOK
  <1>3. ASSUME NEW l \in Rows(call), NEW q \in DOMAIN out[l]
        PROVE  out[l][q] = {Was} /\ ~Written(l, q)
    <2>1. out[l] = [x \in 0..(call.outLen[l] - 1) |-> {Was}]
      BY DEF Init
    <2>2. ~(l < row)
      BY <1>1 DEF Init, Rows
    <2>3. QED
      BY <2>1, <2>2 DEF Init, Written
  <1>4. StoredOnce
    BY <1>3 DEF StoredOnce
  <1>5. QED
    BY <1>2, <1>4 DEF Init, IInv, Passed

(* What a store leaves: the contract on the bytes it covers, the others    *)
(* untouched.                                                              *)
LEMMA StoreKeeps ==
  ASSUME IInv, phase = "chunks", NEW to, out' = Store(Group, to),
         call' = call, NEW l \in Rows(call), NEW q \in DOMAIN out[l]
  PROVE  /\ DOMAIN out'[l] = DOMAIN out[l]
         /\ out'[l][q] = IF l < row \/ (l < row + Group /\ (q < at \/ q \in at..(to[l] - 1)))
                         THEN Contract(l, q) ELSE {Was}
  <1>1. /\ row \in Nat /\ row < call.rows /\ at \in Nat
        /\ DOMAIN out[l] = 0..(call.outLen[l] - 1)
        /\ call.outLen[l] \in Nat
        /\ call.rows \in Nat
        /\ Group \in Nat
    BY CallShape, GroupShape DEF IInv, TypeOK, Passed
  <1>2. l \in Nat /\ q \in Nat
    BY <1>1 DEF Rows
  <1>3. /\ DOMAIN out'[l] = DOMAIN out[l]
        /\ out'[l][q] = IF l \in row..(row + Group - 1) /\ q \in at..(to[l] - 1)
                        THEN Stored(l, q) ELSE out[l][q]
    BY <1>1 DEF Store
  <1>4. out[l][q] = IF l < row \/ (l < row + Group /\ q < at)
                    THEN Contract(l, q) ELSE {Was}
    BY DEF IInv, StoredOnce, Written
  <1>5. CASE l \in row..(row + Group - 1) /\ q \in at..(to[l] - 1)
    <2>1. ~(l < row) /\ l < row + Group /\ ~(q < at)
      BY <1>1, <1>2, <1>5
    <2>2. out[l][q] = {Was}
      BY <1>4, <2>1
    <2>3. Stored(l, q) = Contract(l, q)
      BY <1>1, <1>2, <2>2, StoredIsContract DEF IInv
    <2>4. QED
      BY <1>3, <1>5, <2>1, <2>3
  <1>6. CASE ~(l \in row..(row + Group - 1) /\ q \in at..(to[l] - 1))
    <2>1. (l < row \/ (l < row + Group /\ (q < at \/ q \in at..(to[l] - 1))))
            <=> (l < row \/ (l < row + Group /\ q < at))
      BY <1>1, <1>2, <1>6
    <2>2. QED
      BY <1>3, <1>4, <1>6, <2>1
  <1>7. QED
    BY <1>5, <1>6
-----------------------------------------------------------------------------
(* A step that stores nothing, and counts nothing more as written.         *)
LEMMA SameStored ==
  ASSUME StoredOnce, UNCHANGED <<call, out>>,
         \A l \in Rows(call) : \A q \in DOMAIN out[l] :
           Written(l, q)' <=> Written(l, q)
  PROVE  StoredOnce'
  <1>1. ASSUME NEW l \in Rows(call), NEW q \in DOMAIN out[l]
        PROVE  out'[l][q] = IF Written(l, q)' THEN Contract(l, q) ELSE {Was}
    <2>1. out[l][q] = IF Written(l, q) THEN Contract(l, q) ELSE {Was}
      BY DEF StoredOnce
    <2>2. Written(l, q)' <=> Written(l, q)
      OBVIOUS
    <2>3. CASE Written(l, q)
      BY <2>1, <2>2, <2>3
    <2>4. CASE ~Written(l, q)
      BY <2>1, <2>2, <2>4
    <2>5. QED
      BY <2>3, <2>4
  <1>2. \A l, q : Contract(l, q)' = Contract(l, q)
    BY DEF Contract, Used
  <1>3. QED
    BY <1>1, <1>2 DEF StoredOnce

(* A step that stores: what it takes byte by byte.                         *)
LEMMA BytesStored ==
  ASSUME call' = call,
         \A l \in Rows(call) : DOMAIN out'[l] = DOMAIN out[l],
         \A l \in Rows(call) : \A q \in DOMAIN out[l] :
           out'[l][q] = IF Written(l, q)' THEN Contract(l, q) ELSE {Was}
  PROVE  StoredOnce'
  <1>1. Rows(call)' = Rows(call)
    OBVIOUS
  <1>2. ASSUME NEW l \in Rows(call), NEW q \in DOMAIN out'[l]
        PROVE  out'[l][q] = (IF Written(l, q) THEN Contract(l, q) ELSE {Was})'
    <2>1. q \in DOMAIN out[l]
      BY <1>2
    <2>2. Contract(l, q)' = Contract(l, q)
      BY DEF Contract
    <2>3. QED
      BY <2>1, <2>2
  <1>3. QED
    BY <1>1, <1>2 DEF StoredOnce

LEMMA ValidateIInv == IInv /\ Validate => IInv'
  <1> SUFFICES ASSUME IInv, Validate PROVE IInv'
    OBVIOUS
  <1>1. /\ phase = "called" /\ UNCHANGED <<call, row, width, at, out>>
        /\ phase' = IF Accepted(call) THEN "groups" ELSE "panic"
    BY DEF Validate
  <1>2. \A l, q : Written(l, q)' <=> Written(l, q)
    BY <1>1 DEF Written
  <1>3. StoredOnce'
    BY <1>1, <1>2, SameStored DEF IInv
  <1>4. TypeOK'
    BY <1>1 DEF IInv, TypeOK
  <1>5. Passed'
    BY <1>1 DEF IInv, Passed
  <1>6. QED
    BY <1>1, <1>3, <1>4, <1>5 DEF IInv

LEMMA BeginGroupIInv == IInv /\ BeginGroup => IInv'
  <1> SUFFICES ASSUME IInv, BeginGroup PROVE IInv'
    OBVIOUS
  <1>1. /\ phase = "groups" /\ phase' = "chunks" /\ row < call.rows
        /\ at' = 0 /\ UNCHANGED <<call, row, out>>
        /\ width' = MainWidth(call, Group)
    BY DEF BeginGroup
  <1>2. row \in Nat /\ call.rows \in Nat
    BY CallShape DEF IInv, TypeOK
  <1>3. ASSUME NEW l \in Rows(call), NEW q \in DOMAIN out[l]
        PROVE  Written(l, q)' <=> Written(l, q)
    <2>1. call.outLen[l] \in Nat /\ q \in Nat
      BY CallShape DEF IInv, TypeOK
    <2>2. ~(q < 0)
      BY <2>1
    <2>3. QED
      BY <1>1, <2>2 DEF Written
  <1>4. StoredOnce'
    BY <1>1, <1>3, SameStored DEF IInv
  <1>5. TypeOK'
    <2>1. width' \in {0, 1, 2, 4}
      BY <1>1, <1>2, GroupShape DEF IInv
    <2>2. QED
      BY <1>1, <2>1 DEF IInv, TypeOK
  <1>6. Passed'
    BY <1>1 DEF IInv, Passed
  <1>7. QED
    BY <1>1, <1>4, <1>5, <1>6 DEF IInv

LEMMA ReturnIInv == IInv /\ Return => IInv'
  <1> SUFFICES ASSUME IInv, Return PROVE IInv'
    OBVIOUS
  <1>1. /\ phase = "groups" /\ phase' = "done" /\ row >= call.rows
        /\ UNCHANGED <<call, row, width, at, out>>
    BY DEF Return
  <1>2. row = call.rows
    BY <1>1, CallShape DEF IInv, TypeOK
  <1>3. \A l, q : Written(l, q)' <=> Written(l, q)
    BY <1>1 DEF Written
  <1>4. StoredOnce'
    BY <1>1, <1>3, SameStored DEF IInv
  <1>5. TypeOK'
    BY <1>1 DEF IInv, TypeOK
  <1>6. Passed'
    BY <1>1, <1>2 DEF IInv, Passed
  <1>7. QED
    BY <1>1, <1>4, <1>5, <1>6 DEF IInv

LEMMA ChunkIInv == IInv /\ Chunk => IInv'
  <1> SUFFICES ASSUME IInv, Chunk PROVE IInv'
    OBVIOUS
  <1> DEFINE end == at + width * Lane
             to == [l \in Rows(call) |-> end]
  <1>1. /\ phase = "chunks" /\ row < call.rows
        /\ UNCHANGED <<call, phase, row>>
        /\ at' = end
        /\ width' = IF width = MainWidth(call, Group) THEN width ELSE width \div 2
        /\ out' = Store(Fused(call, Group), to)
    BY DEF Chunk, IInv, Passed
  <1>2. /\ row \in Nat /\ call.rows \in Nat /\ at \in Nat
        /\ width \in {0, 1, 2, 4} /\ Lane \in Nat
    BY CallShape DEF IInv, TypeOK
  <1>3. Group \in Nat /\ Fused(call, Group) = Group
    BY <1>1, <1>2, GroupShape DEF IInv
  <1>4. end \in Nat /\ end >= at
    BY <1>2
  <1>5. out' = Store(Group, to)
    BY <1>1, <1>3
  <1>6. ASSUME NEW l \in Rows(call)
        PROVE  DOMAIN out'[l] = DOMAIN out[l]
    <2>1. out'[l] = [q \in 0..(call.outLen[l] - 1) |->
             IF l \in row..(row + Group - 1) /\ q \in at..(to[l] - 1)
             THEN Stored(l, q) ELSE out[l][q]]
      BY <1>5 DEF Store
    <2>2. QED
      BY <2>1 DEF IInv, TypeOK
  <1>7. ASSUME NEW l \in Rows(call), NEW q \in DOMAIN out[l]
        PROVE  out'[l][q] = IF Written(l, q)' THEN Contract(l, q) ELSE {Was}
    <2>1. out'[l][q] = IF l < row \/ (l < row + Group /\ (q < at \/ q \in at..(to[l] - 1)))
                       THEN Contract(l, q) ELSE {Was}
      <3>1. phase = "chunks" /\ call' = call
        BY <1>1
      <3>2. out' = Store(Group, to)
        BY <1>5
      <3> HIDE DEF to
      <3>3. QED
        BY <3>1, <3>2, StoreKeeps
    <2>2. q \in Nat
      BY CallShape DEF IInv, TypeOK
    <2>3. (q < at \/ q \in at..(to[l] - 1)) <=> q < end
      BY <1>2, <1>4, <2>2
    <2>4. Group' = Group
      BY <1>1 DEF Group, RowCap, InRegisters
    <2>5. Written(l, q)' <=> (l < row \/ (l < row + Group /\ q < end))
      BY <1>1, <2>4 DEF Written
    <2>6. QED
      BY <2>1, <2>3, <2>5
  <1>8. StoredOnce'
    BY <1>1, <1>6, <1>7, BytesStored
  <1>9. TypeOK'
    <2>1. width' \in {0, 1, 2, 4}
      BY <1>1, <1>2
    <2>2. QED
      BY <1>1, <1>4, <1>6, <2>1 DEF IInv, TypeOK
  <1>10. Passed'
    BY <1>1 DEF IInv, Passed
  <1>11. QED
    BY <1>1, <1>8, <1>9, <1>10 DEF IInv

LEMMA NextLoopIInv == IInv /\ NextLoop => IInv'
  <1> SUFFICES ASSUME IInv, NextLoop PROVE IInv'
    OBVIOUS
  <1>1. /\ phase = "chunks" /\ UNCHANGED <<call, phase, row, at, out>>
        /\ width' = width \div 2
    BY DEF NextLoop
  <1>2. Group' = Group
    BY <1>1 DEF Group, RowCap, InRegisters
  <1>3. \A l, q : Written(l, q)' <=> Written(l, q)
    BY <1>1, <1>2 DEF Written
  <1>4. StoredOnce'
    BY <1>1, <1>3, SameStored DEF IInv
  <1>5. width' \in {0, 1, 2, 4}
    BY <1>1 DEF IInv, TypeOK
  <1>6. TypeOK'
    BY <1>1, <1>5 DEF IInv, TypeOK
  <1>7. Passed'
    BY <1>1 DEF IInv, Passed
  <1>8. QED
    BY <1>1, <1>4, <1>6, <1>7 DEF IInv

LEMMA TailIInv == IInv /\ Tail => IInv'
  <1> SUFFICES ASSUME IInv, Tail PROVE IInv'
    OBVIOUS
  <1> DEFINE to == call.outLen
  <1>1. /\ phase = "chunks" /\ phase' = "groups" /\ row < call.rows
        /\ UNCHANGED <<call, width, at>>
        /\ row' = row + Group
        /\ out' = Store(Group, to)
    BY DEF Tail, IInv, Passed
  <1>2. row \in Nat /\ call.rows \in Nat /\ at \in Nat
    BY CallShape DEF IInv, TypeOK
  <1>3. Group \in Nat /\ row + Group <= call.rows
    BY <1>1, <1>2, GroupShape DEF IInv
  <1>4. ASSUME NEW l \in Rows(call)
        PROVE  DOMAIN out'[l] = DOMAIN out[l]
    <2>1. out'[l] = [q \in 0..(call.outLen[l] - 1) |->
             IF l \in row..(row + Group - 1) /\ q \in at..(to[l] - 1)
             THEN Stored(l, q) ELSE out[l][q]]
      BY <1>1 DEF Store
    <2>2. QED
      BY <2>1 DEF IInv, TypeOK
  <1>5. ASSUME NEW l \in Rows(call), NEW q \in DOMAIN out[l]
        PROVE  out'[l][q] = IF Written(l, q)' THEN Contract(l, q) ELSE {Was}
    <2>1. out'[l][q] = IF l < row \/ (l < row + Group /\ (q < at \/ q \in at..(to[l] - 1)))
                       THEN Contract(l, q) ELSE {Was}
      BY <1>1, StoreKeeps
    <2>2. q \in 0..(call.outLen[l] - 1) /\ call.outLen[l] \in Nat /\ l \in Nat
      <3>1. DOMAIN out[l] = 0..(call.outLen[l] - 1) /\ call.outLen[l] \in Nat
        BY CallShape DEF IInv, TypeOK
      <3>2. l \in Nat
        BY <1>2 DEF Rows
      <3>3. QED
        BY <3>1, <3>2
    <2>3. q < at \/ q \in at..(to[l] - 1)
      BY <1>2, <2>2
    <2>4. (l < row \/ l < row + Group) <=> l < row + Group
      BY <1>2, <1>3, <2>2
    <2>5. Written(l, q)' <=> l < row + Group
      BY <1>1 DEF Written
    <2>6. QED
      BY <2>1, <2>3, <2>4, <2>5
  <1>6. StoredOnce'
    BY <1>1, <1>4, <1>5, BytesStored
  <1>7. TypeOK'
    BY <1>1, <1>2, <1>3, <1>4 DEF IInv, TypeOK
  <1>8. Passed'
    BY <1>1 DEF IInv, Passed
  <1>9. QED
    BY <1>1, <1>6, <1>7, <1>8 DEF IInv

LEMMA NextIInv == IInv /\ [Next]_vars => IInv'
  <1>1. IInv /\ UNCHANGED vars => IInv'
    <2> SUFFICES ASSUME IInv, UNCHANGED vars PROVE IInv'
      OBVIOUS
    <2>1. UNCHANGED <<call, phase, row, width, at, out>>
      BY DEF vars
    <2>2. Group' = Group
      BY <2>1 DEF Group, RowCap, InRegisters
    <2>3. \A l, q : Written(l, q)' <=> Written(l, q)
      BY <2>1, <2>2 DEF Written
    <2>4. StoredOnce'
      BY <2>1, <2>3, SameStored DEF IInv
    <2>5. TypeOK' /\ Passed'
      BY <2>1 DEF IInv, TypeOK, Passed
    <2>6. QED
      BY <2>1, <2>4, <2>5 DEF IInv
  <1>2. QED
    BY <1>1, ValidateIInv, BeginGroupIInv, ReturnIInv, ChunkIInv, NextLoopIInv,
       TailIInv DEF Next

LEMMA Invariance == Spec => []IInv
  BY InitIInv, NextIInv, PTL DEF Spec
-----------------------------------------------------------------------------
(* The table of every row and source of a checked call is held.            *)
LEMMA TableHeld ==
  ASSUME call \in Calls, Accepted(call),
         NEW l \in Rows(call), NEW j \in Used(call)
  PROVE  l * call.k + j \in 0..(call.tables - 1)
  <1>1. /\ call.k \in Nat /\ call.i \in Nat /\ call.rows \in Nat /\ call.tables \in Nat
        /\ l \in Nat /\ l <= call.rows - 1 /\ j \in Nat
    BY CallShape, UsedNat DEF Rows
  <1>2. \A m, n, k \in Nat : m <= n => m * k <= n * k /\ m * k \in Nat
    OBVIOUS
  <1>3. /\ l * call.k <= (call.rows - 1) * call.k
        /\ l * call.k \in Nat
        /\ (call.rows - 1) * call.k = call.rows * call.k - call.k
        /\ call.rows - 1 \in Nat
    BY <1>1, <1>2
  <1>4. CASE call.op = "encode"
    <2>1. call.tables >= call.rows * call.k
      BY <1>4 DEF Accepted, check_encode
    <2>2. j <= call.k - 1
      BY <1>1, <1>4 DEF Used
    <2>3. QED
      BY <1>1, <1>3, <2>1, <2>2
  <1>5. CASE call.op = "update"
    <2>1. call.tables >= (call.rows - 1) * call.k + call.i + 1
      BY <1>1, <1>5 DEF Accepted, check_update
    <2>2. j = call.i
      BY <1>5 DEF Used
    <2>3. QED
      BY <1>1, <1>3, <2>1, <2>2
  <1>6. CASE call.op = "mad"
    <2>1. call.tables = 1 /\ call.k = 1 /\ call.i = 0 /\ call.rows = 1
      BY <1>6, CallShape DEF Accepted, check_mad
    <2>2. j = 0 /\ l = 0
      BY <1>1, <1>6, <2>1 DEF Used
    <2>3. QED
      BY <2>1, <2>2
  <1>7. QED
    BY <1>4, <1>5, <1>6, CallShape

(* Sources and rows of a checked call have the length the group walks.     *)
LEMMA LengthsAgree ==
  ASSUME call \in Calls, Accepted(call), row \in Nat, row < call.rows
  PROVE  /\ \A j \in Used(call) : call.srcLen[j] = Length
         /\ \A l \in Rows(call) : call.outLen[l] = Length
  <1>1. call.rows \in Nat /\ row \in Rows(call) /\ call.rows # 0
    BY CallShape DEF Rows
  <1>2. CASE call.op = "encode"
    BY <1>1, <1>2 DEF Accepted, check_encode, Length
  <1>3. CASE call.op = "update"
    BY <1>1, <1>3 DEF Accepted, check_update, Length, Used
  <1>4. CASE call.op = "mad"
    <2>1. call.i = 0 /\ call.rows = 1
      BY <1>4, CallShape
    <2>2. Rows(call) = {0} /\ Used(call) = {0}
      BY <1>4, <2>1 DEF Rows, Used
    <2>3. QED
      BY <1>4, <2>1, <2>2 DEF Accepted, check_mad, Length
  <1>5. QED
    BY <1>2, <1>3, <1>4, CallShape

LEMMA AccessesFollow == IInv => AccessesInBounds
  <1> SUFFICES ASSUME IInv, phase = "chunks", width > 0
               PROVE  /\ Fits => /\ \A j \in Used(call) : at + width * Lane <= call.srcLen[j]
                                 /\ \A l \in row..(row + Group - 1) :
                                      at + width * Lane <= call.outLen[l]
                      /\ \A l \in row..(row + Group - 1), j \in Used(call) :
                           Table(l, j) \in 0..(call.tables - 1)
                      /\ Fused(call, Group) = Group
                      /\ InRegisters(call) => call.k * Group <= 8
    BY DEF AccessesInBounds
  <1>1. /\ call \in Calls /\ Accepted(call) /\ row \in Nat /\ row < call.rows
        /\ call.rows \in Nat
    BY CallShape DEF IInv, TypeOK, Passed
  <1>2. /\ Group \in Nat \ {0} /\ row + Group <= call.rows /\ Group <= RowCap(call)
        /\ Fused(call, Group) = Group
    BY <1>1, GroupShape
  <1>3. \A l \in row..(row + Group - 1) : l \in Rows(call) /\ l \in Nat
    BY <1>1, <1>2 DEF Rows
  <1>4. Fits => /\ \A j \in Used(call) : at + width * Lane <= call.srcLen[j]
                /\ \A l \in row..(row + Group - 1) :
                     at + width * Lane <= call.outLen[l]
    BY <1>1, <1>3, LengthsAgree DEF Fits
  <1>5. ASSUME NEW l \in row..(row + Group - 1), NEW j \in Used(call)
        PROVE  Table(l, j) \in 0..(call.tables - 1)
    <2>1. Table(l, j) = l * call.k + j
      BY <1>1, <1>3, UsedNat, TableIs
    <2>2. QED
      BY <1>1, <1>3, <2>1, TableHeld
  <1>6. InRegisters(call) => call.k * Group <= 8
    <2> SUFFICES ASSUME InRegisters(call) PROVE call.k * Group <= 8
      OBVIOUS
    <2>1. call.k \in {1, 2, 3, 4}
      BY DEF InRegisters
    <2>2. Group \in {1, 2}
      BY <1>2 DEF RowCap
    <2>3. QED
      BY <2>1, <2>2
  <1>7. QED
    BY <1>2, <1>4, <1>5, <1>6

LEMMA ContractFollows == IInv => ContractMet
  <1> SUFFICES ASSUME IInv, NEW l \in Rows(call), NEW q \in DOMAIN out[l]
               PROVE  /\ phase = "done" => out[l][q] = Contract(l, q)
                      /\ phase = "panic" => out[l][q] = {Was}
    BY DEF ContractMet
  <1>1. out[l][q] = IF Written(l, q) THEN Contract(l, q) ELSE {Was}
    BY DEF IInv, StoredOnce
  <1>2. l \in Nat /\ l < call.rows
    BY CallShape DEF IInv, Rows
  <1>3. phase = "done" => Written(l, q)
    BY <1>2 DEF IInv, Passed, Written
  <1>4. phase = "panic" => ~Written(l, q)
    BY <1>2 DEF IInv, Passed, Written
  <1>5. QED
    BY <1>1, <1>3, <1>4

(* Rows, chunk widths and buffer lengths stay what they are.               *)
THEOREM TypeCorrect == Spec => []TypeOK
  <1>1. IInv => TypeOK
    BY DEF IInv
  <1>2. QED
    BY <1>1, Invariance, PTL

(* The unchecked pointer accesses of every kernel are in bounds, whatever  *)
(* arguments the safe wrapper is given.                                    *)
THEOREM MemorySafe == Spec => []AccessesInBounds
  BY AccessesFollow, Invariance, PTL

(* No byte of any row is skipped or stored twice, at any length.           *)
THEOREM EveryByteOnce == Spec => []StoredOnce
  <1>1. IInv => StoredOnce
    BY DEF IInv
  <1>2. QED
    BY <1>1, Invariance, PTL

(* A call that returns has met the kernel contract on every byte, and one  *)
(* that panics has changed none.                                           *)
THEOREM MeetsContract == Spec => []ContractMet
  BY ContractFollows, Invariance, PTL
-----------------------------------------------------------------------------
(* What is kept by an iteration of mul_shift.                              *)
LoopInv ==
  /\ lhs \in Byte /\ rhs \in Byte
  /\ shifted \in Byte /\ rest \in Byte /\ sum \in Byte
  /\ LoopMatchesTables

(* Halving undoes a doubling that does not overflow.                       *)
LEMMA HalfDoubled ==
  ASSUME NEW x \in Byte
  PROVE  /\ {i - 1 : i \in x \ {0}} \in Byte
         /\ double({i - 1 : i \in x \ {0}}) = x \ {0}
  <1> DEFINE half == {i - 1 : i \in x \ {0}}
  <1>1. Bits \in Nat \ {0} /\ \A i \in x : i \in Int /\ 0 <= i /\ i <= Bits - 1
    BY FieldAssumption DEF Byte, Bit
  <1>2. \A i \in x \ {0} : i - 1 \in 0..(Bits - 1) /\ i - 1 # Bits - 1 /\ (i - 1) + 1 = i
    BY <1>1
  <1>3. half \in Byte
    BY <1>2 DEF Byte, Bit
  <1>4. Bits - 1 \notin half
    BY <1>2
  <1>5. {b + 1 : b \in half} = x \ {0}
    BY <1>2
  <1>6. double(half) = XOR({b + 1 : b \in half}, {})
    <2> HIDE DEF half
    <2>1. half \ {Bits - 1} = half
      BY <1>4
    <2>2. QED
      BY <1>4, <2>1 DEF double
  <1> HIDE DEF half
  <1>7. double(half) = x \ {0}
    BY <1>5, <1>6, XorZero
  <1>8. QED
    BY <1>3, <1>7 DEF half

LEMMA LoopInvInit == MulShiftInit => LoopInv
  <1> SUFFICES ASSUME MulShiftInit PROVE LoopInv
    OBVIOUS
  <1>1. XOR({}, mul(lhs, rhs)) = mul(lhs, rhs)
    BY XorZero
  <1>2. {} \in Byte
    BY DEF Byte
  <1>3. QED
    BY <1>1, <1>2 DEF MulShiftInit, LoopInv, LoopMatchesTables

LEMMA LoopInvStep == LoopInv /\ Iterate => LoopInv'
  <1> SUFFICES ASSUME LoopInv, Iterate PROVE LoopInv'
    OBVIOUS
  <1> DEFINE half == {i - 1 : i \in rest \ {0}}
             high == rest \ {0}
             addend == IF 0 \in rest THEN shifted ELSE {}
  <1>1. /\ lhs \in Byte /\ rhs \in Byte /\ shifted \in Byte /\ rest \in Byte /\ sum \in Byte
        /\ XOR(sum, mul(shifted, rest)) = mul(lhs, rhs)
    BY DEF LoopInv, LoopMatchesTables
  <1>2. /\ sum' = IF 0 \in rest THEN XOR(sum, shifted) ELSE sum
        /\ shifted' = double(shifted) /\ rest' = half
        /\ UNCHANGED <<lhs, rhs>>
    BY DEF Iterate
  <1>3. half \in Byte /\ double(half) = high
    BY <1>1, HalfDoubled
  <1>4. high \in Byte /\ {0} \in Byte /\ {} \in Byte
    BY <1>1, FieldAssumption DEF Byte, Bit
  <1>5. sum' = XOR(sum, addend)
    BY <1>2, XorZero
  <1> HIDE DEF half
  <1>6. mul(double(shifted), half) = mul(shifted, high)
    <2>1. mul(double(shifted), half) = double(mul(shifted, half))
      BY <1>1, <1>3, DoublingLaw
    <2>2. mul(shifted, half) = mul(half, shifted)
      BY <1>1, <1>3, MulByte
    <2>3. double(mul(half, shifted)) = mul(double(half), shifted)
      BY <1>1, <1>3, DoublingLaw
    <2>4. mul(double(half), shifted) = mul(shifted, high)
      BY <1>1, <1>3, <1>4, MulByte
    <2>5. QED
      BY <2>1, <2>2, <2>3, <2>4
  <1>7. mul(shifted, rest) = XOR(addend, mul(shifted, high))
    <2>1. CASE 0 \in rest
      <3>1. XOR({0}, high) = rest
        BY <2>1 DEF XOR, SymDiff
      <3>2. mul(shifted, XOR({0}, high)) = XOR(mul(shifted, {0}), mul(shifted, high))
        BY <1>1, <1>4, MulDistributes
      <3>3. mul(shifted, {0}) = shifted
        BY <1>1, MulOne
      <3>4. QED
        BY <2>1, <3>1, <3>2, <3>3
    <2>2. CASE 0 \notin rest
      <3>1. high = rest
        BY <2>2
      <3>2. QED
        BY <2>2, <3>1, XorZero
    <2>3. QED
      BY <2>1, <2>2
  <1>8. XOR(sum', mul(shifted', rest')) = mul(lhs, rhs)
    BY <1>1, <1>2, <1>5, <1>6, <1>7, XorAssociates
  <1>9. sum' \in Byte /\ shifted' \in Byte /\ rest' \in Byte
    BY <1>1, <1>2, <1>3, <1>4, <1>5, XorByte, DoubleByte
  <1>10. QED
    BY <1>1, <1>2, <1>8, <1>9 DEF LoopInv, LoopMatchesTables

LEMMA LoopInvAlways == MulShiftSpec => []LoopInv
  <1>1. LoopInv /\ [MulShiftNext]_mulShiftVars => LoopInv'
    <2>1. LoopInv /\ UNCHANGED mulShiftVars => LoopInv'
      BY DEF LoopInv, LoopMatchesTables, mulShiftVars
    <2>2. QED
      BY <2>1, LoopInvStep DEF MulShiftNext
  <1>2. QED
    BY <1>1, LoopInvInit, PTL DEF MulShiftSpec

(* mul_shift and the EXP/LOG tables agree at every iteration, for every    *)
(* pair of operands and every field with FieldLaws and DoublingLaw.        *)
THEOREM ShiftAndFoldIsMul == MulShiftSpec => []LoopMatchesTables
  <1>1. LoopInv => LoopMatchesTables
    BY DEF LoopInv
  <1>2. QED
    BY <1>1, LoopInvAlways, PTL
-----------------------------------------------------------------------------
(* Division.                                                               *)
THEOREM DivisionIsInverse == MulShiftSpec => []DivisionUndoesProduct
  <1>1. LoopInv => DivisionUndoesProduct
    <2> SUFFICES ASSUME LoopInv PROVE DivisionUndoesProduct
      OBVIOUS
    <2>1. lhs \in Byte /\ rhs \in Byte
      BY DEF LoopInv
    <2>2. inv({}) = {}
      BY DEF inv
    <2>3. ASSUME lhs # {}
          PROVE  mul(lhs, inv(lhs)) = {0} /\ mul(mul(lhs, rhs), inv(lhs)) = rhs
      <3>1. inv(lhs) \in Byte /\ mul(lhs, inv(lhs)) = {0}
        BY <2>1, <2>3, MulInverse
      <3>2. mul(mul(lhs, rhs), inv(lhs)) = mul(mul(rhs, lhs), inv(lhs))
        BY <2>1, MulByte
      <3>3. mul(mul(rhs, lhs), inv(lhs)) = mul(rhs, mul(lhs, inv(lhs)))
        BY <2>1, <3>1, MulAssociates
      <3>4. mul(rhs, {0}) = rhs
        BY <2>1, MulOne
      <3>5. QED
        BY <3>1, <3>2, <3>3, <3>4
    <2>4. QED
      BY <2>2, <2>3 DEF DivisionUndoesProduct
  <1>2. QED
    BY <1>1, LoopInvAlways, PTL
-----------------------------------------------------------------------------
(* The affine matrix of a coefficient multiplies by it.                    *)
LEMMA AffineIsMul ==
  ASSUME NEW c \in Byte, NEW x \in Byte
  PROVE  /\ affine_mul(build_affine(c), x) = mul(c, x)
         /\ coeff_from_affine(build_affine(c)) = c
  <1>1. \A j \in Bit : Bits - 1 - j \in Bit /\ Bits - 1 - (Bits - 1 - j) = j
    BY FieldAssumption DEF Bit
  <1>2. \A j \in Bit : build_affine(c)[Bits - 1 - j] = {i \in Bit : j \in mul(c, {i})}
    BY <1>1 DEF build_affine
  <1> DEFINE t == [b \in x |-> mul(c, {b})]
  <1>3. mul(c, x) = XorAll(x, t)
    BY FieldLaws
  <1>4. ASSUME NEW j \in Bit
        PROVE  build_affine(c)[Bits - 1 - j] \cap x = {b \in x : j \in t[b]}
    BY <1>2 DEF Byte
  <1>5. affine_mul(build_affine(c), x) = XorAll(x, t)
    <2> HIDE DEF t
    <2>1. QED
      BY <1>4 DEF affine_mul, XorAll
  <1>6. 0 \in Bit
    BY FieldAssumption DEF Bit
  <1>7. coeff_from_affine(build_affine(c)) = {j \in Bit : j \in mul(c, {0})}
    BY <1>2, <1>6 DEF coeff_from_affine
  <1>8. mul(c, {0}) = c
    BY MulOne
  <1>9. QED
    BY <1>3, <1>5, <1>7, <1>8 DEF Byte

THEOREM AffineMultiplies == MulShiftSpec => []AffineMatrixMultiplies
  <1>1. LoopInv => AffineMatrixMultiplies
    BY AffineIsMul DEF LoopInv, AffineMatrixMultiplies
  <1>2. QED
    BY <1>1, LoopInvAlways, PTL
-----------------------------------------------------------------------------
(* The two nibble tables of a coefficient multiply by it: a byte is the sum *)
(* of its nibbles, and the number it is written as splits where they do.   *)
LEMMA NibbleShape ==
  /\ Bits \div 2 \in 0..Bits /\ Bits \in (Bits \div 2)..Bits
  /\ Nibbles \in Nat \ {0} /\ 2^Bits = Nibbles * Nibbles
  <1> DEFINE h == Bits \div 2
  <1>1. h \in Nat /\ h + h = Bits /\ Bits \in Nat /\ h <= Bits
    BY FieldAssumption, NibbleAssumption
  <1>2. 2^h \in Nat \ {0}
    BY <1>1, PowersOfBits, PowerNat
  <1>3. 2^(h + h) = 2^h * 2^h
    BY <1>1, PowersOfBits, PowerSum
  <1>4. QED
    BY <1>1, <1>2, <1>3 DEF Nibbles

LEMMA NibblesSplit ==
  ASSUME NEW x \in Byte
  PROVE  \E low \in Byte, high \in Byte, p \in Upto(Nibbles), q \in Upto(Nibbles) :
           /\ XOR(low, high) = x
           /\ Numeral(low, Bits) = p /\ Numeral(high, Bits) = q * Nibbles
           /\ ToNat[x] % Nibbles = p /\ ToNat[x] \div Nibbles = q
  <1> DEFINE h == Bits \div 2
             low == {b \in x : b \in Upto(h)}
             high == {b \in x : b \notin Upto(h)}
             p == Numeral(x, h)
             d == Nibbles
  <1>1. low \in Byte /\ high \in Byte /\ XOR(low, high) = x
    BY DEF Byte, XOR, SymDiff
  <1>2. /\ Powers(Bits) /\ Bits \in Nat /\ h \in 0..Bits /\ Bits \in h..Bits
        /\ d \in Nat \ {0} /\ 2^Bits = d * d /\ d = 2^h
    BY NibbleShape, OrderIs, PowersOfBits DEF Nibbles
  <1> HIDE DEF h, d
  <1>3. Numeral(low, Bits) = p /\ p \in Nat /\ p < d
    BY <1>2, NumeralLow, NumeralStep, NumeralBelow
  <1>4. PICK q \in Nat : Numeral(x, Bits) = p + q * 2^h /\ q * 2^h \in Nat
    BY <1>2, NumeralAbove
  <1>5. Numeral(high, Bits) = q * d
    <2>1. ASSUME NEW i \in Upto(Bits)
          PROVE  Digit(x, i) = Digit(low, i) + Digit(high, i)
      <3>1. Digit(x, i) \in Nat
        BY <1>2, DigitNat
      <3>2. 2^i \in Nat
        BY <1>2, DigitNat
      <3>3. QED
        BY <3>2 DEF Digit
    <2> HIDE DEF low, high
    <2>2. Numeral(x, Bits) = Numeral(low, Bits) + Numeral(high, Bits)
      BY <1>2, <2>1, NumeralSum
    <2>3. Numeral(high, Bits) \in Nat
      BY <1>2, NumeralStep
    <2>4. QED
      BY <1>2, <1>3, <1>4, <2>2, <2>3
  <1> HIDE DEF p
  <1>6. q < d
    <2>1. q * d \in Nat /\ q * d <= Numeral(x, Bits) /\ Numeral(x, Bits) < d * d
      BY <1>2, <1>3, <1>4, ByteNumber, OrderIs
    <2>2. q * d < d * d
      BY <1>2, <2>1, <1>3, <1>4
    <2>3. d <= q => d * d <= q * d
      BY <1>2
    <2>4. QED
      BY <1>2, <2>1, <2>2, <2>3
  <1>7. ToNat[x] = q * d + p
    BY <1>2, <1>3, <1>4, ByteNumber
  <1>8. p \in Upto(d) /\ q \in Upto(d)
    BY <1>2, <1>3, <1>6 DEF Upto
  <1>9. (q * d + p) % d = p /\ (q * d + p) \div d = q
    BY <1>2, <1>8, PositionOf
  <1> HIDE DEF low, high
  <1>10. QED
    BY <1>1, <1>3, <1>5, <1>7, <1>8, <1>9 DEF d

LEMMA NibbleIsMul ==
  ASSUME NEW c \in Byte, NEW x \in Byte
  PROVE  table_mul(mul_table32(c), x) = mul(c, x)
  <1> DEFINE d == Nibbles
             tbl == mul_table32(c)
  <1>1. PICK low \in Byte, high \in Byte, p \in Upto(d), q \in Upto(d) :
           /\ XOR(low, high) = x
           /\ Numeral(low, Bits) = p /\ Numeral(high, Bits) = q * d
           /\ ToNat[x] % d = p /\ ToNat[x] \div d = q
    BY NibblesSplit
  <1>2. d \in Nat \ {0} /\ TABLE_BYTES = 2 * d
    BY NibbleShape DEF TABLE_BYTES
  <1>3. OfNat(p) = low /\ OfNat(q * d) = high
    BY <1>1, ByteNumber
  <1> HIDE DEF d
  <1>4. /\ p \in 0..(2 * d - 1) /\ p < d
        /\ d + q \in 0..(2 * d - 1) /\ ~(d + q < d) /\ (d + q) - d = q
    BY <1>2 DEF Upto
  <1>5. tbl = [j \in 0..(2 * d - 1) |-> mul(c, OfNat(IF j < d THEN j ELSE (j - d) * d))]
    BY <1>2 DEF mul_table32, d
  <1>6. tbl[p] = mul(c, low)
    BY <1>3, <1>4, <1>5
  <1>7. tbl[d + q] = mul(c, high)
    BY <1>3, <1>4, <1>5
  <1>8. table_mul(tbl, x) = XOR(tbl[p], tbl[d + q])
    <2> HIDE DEF tbl
    <2>1. QED
      BY <1>1 DEF table_mul, d
  <1>9. XOR(mul(c, low), mul(c, high)) = mul(c, x)
    BY <1>1, MulDistributes
  <1>10. QED
    BY <1>6, <1>7, <1>8, <1>9

THEOREM NibbleTablesMultiply == MulShiftSpec => []NibbleTableMultiplies
  <1>1. LoopInv => NibbleTableMultiplies
    BY NibbleIsMul DEF LoopInv, NibbleTableMultiplies
  <1>2. QED
    BY <1>1, LoopInvAlways, PTL
-----------------------------------------------------------------------------
(* What a call leaves, read as bytes: a term stands for the product that   *)
(* the kernel looks up in the expanded table of its coefficient, or for    *)
(* what the byte held before the call.                                     *)
Looked(affine, c, x) ==
  IF affine THEN affine_mul(build_affine(c), x) ELSE table_mul(mul_table32(c), x)

ByteOf(coeffs, data, old, term) ==
  IF term = Was THEN old ELSE Looked(call.affine, coeffs[term[1]], data[term[2]][term[3]])

SumOf(coeffs, data, old, terms) ==
  XorAll(terms, [term \in terms |-> ByteOf(coeffs, data, old, term)])

RowBytes(l) == 0..(call.outLen[l] - 1)

ReadOut(coeffs, data, old) ==
  [l \in Rows(call) |->
     [q \in RowBytes(l) |-> SumOf(coeffs, data, old[l][q], out[l][q])]]

(* Coefficients, sources and rows of the sizes the call is made with.      *)
Given(coeffs, data, old) ==
  /\ coeffs \in [Upto(call.tables) -> Byte]
  /\ DOMAIN data = Used(call)
  /\ \A j \in Used(call) : data[j] \in [Upto(call.srcLen[j]) -> Byte]
  /\ DOMAIN old = Rows(call)
  /\ \A l \in Rows(call) : old[l] \in [RowBytes(l) -> Byte]

(* A SIMD set's tables.                                                    *)
SimdKernels == Kernels(IF call.affine THEN "affine" ELSE "nibble", TRUE)

(* A call that returns leaves in the rows what the Coder takes a kernel    *)
(* set to compute (KernelEncode, KernelUpdate).                            *)
ComputesContract ==
  phase = "done" =>
    \A coeffs, data, old : Given(coeffs, data, old) =>
      ReadOut(coeffs, data, old) =
        IF call.op = "encode" THEN KernelEncode(init(SimdKernels, coeffs), data, old)
        ELSE KernelUpdate(init(SimdKernels, coeffs), call.k, call.i, data[call.i], old)

(* An encode panics exactly when the Coder expects it to (KernelAsserts).  *)
PanicsAsExpected ==
  call.op = "encode" /\ phase \in {"done", "panic"} =>
    \A coeffs, data, old : Given(coeffs, data, old) =>
      (phase = "panic" <=>
         KernelAsserts(SimdKernels, init(SimdKernels, coeffs), data, old) # {})

LEMMA LookedIsMul ==
  ASSUME NEW affine, NEW c \in Byte, NEW x \in Byte
  PROVE  Looked(affine, c, x) = mul(c, x)
  BY AffineIsMul, NibbleIsMul DEF Looked

(* The lengths an accepted call has checked.                               *)
LEMMA AcceptedLengths ==
  ASSUME call \in Calls, Accepted(call), NEW l \in Rows(call), NEW j \in Used(call)
  PROVE  call.srcLen[j] = call.outLen[l]
  <1>1. CASE call.op = "encode"
    BY <1>1 DEF Accepted, check_encode
  <1>2. CASE call.op = "update"
    BY <1>2 DEF Accepted, check_update, Used
  <1>3. CASE call.op = "mad"
    <2>1. l = 0 /\ j = 0
      BY <1>3, CallShape DEF Rows, Used
    <2>2. QED
      BY <1>3, <2>1 DEF Accepted, check_mad
  <1>4. QED
    BY <1>1, <1>2, <1>3, CallShape

(* The products of a checked call are of bytes.                            *)
LEMMA ProductRead ==
  ASSUME call \in Calls, Accepted(call), NEW coeffs, NEW data, NEW old, NEW was,
         Given(coeffs, data, old),
         NEW l \in Rows(call), NEW j \in Used(call), NEW q \in RowBytes(l)
  PROVE  /\ coeffs[l * call.k + j] \in Byte /\ data[j][q] \in Byte
         /\ ByteOf(coeffs, data, was, <<l * call.k + j, j, q>>)
              = mul(coeffs[l * call.k + j], data[j][q])
         /\ <<l * call.k + j, j, q>> # Was
  <1>1. l * call.k + j \in Upto(call.tables)
    BY TableHeld DEF Upto
  <1>2. q \in Upto(call.srcLen[j])
    BY AcceptedLengths DEF RowBytes, Upto
  <1>3. coeffs[l * call.k + j] \in Byte /\ data[j][q] \in Byte
    BY <1>1, <1>2 DEF Given
  <1>4. <<l * call.k + j, j, q>> # Was
    BY UsedNat DEF Was
  <1>5. QED
    BY <1>3, <1>4, LookedIsMul DEF ByteOf

LEMMA ReadsEncode ==
  ASSUME call \in Calls, Accepted(call), call.op = "encode",
         NEW coeffs, NEW data, NEW old, NEW was, Given(coeffs, data, old),
         NEW l \in Rows(call), NEW q \in RowBytes(l)
  PROVE  SumOf(coeffs, data, was, Contract(l, q))
           = XorAll(Upto(call.k), [j \in Upto(call.k) |->
               mul(coeffs[l * call.k + j], data[j][q])])
  <1> DEFINE S == Upto(call.k)
             f == [j \in S |-> <<l * call.k + j, j, q>>]
             T == Contract(l, q)
             t == [j \in S |-> mul(coeffs[l * call.k + j], data[j][q])]
             u == [term \in T |-> ByteOf(coeffs, data, was, term)]
  <1>1. Used(call) = S /\ IsFiniteSet(S)
    BY CallShape, UptoFinite DEF Used, Upto
  <1>2. T = {<<l * call.k + j, j, q>> : j \in S}
    BY <1>1 DEF Contract
  <1>3. f \in [S -> T] /\ \A y \in T : \E i \in S : f[i] = y
    <2> HIDE DEF S, T
    <2>1. QED
      BY <1>2
  <1>4. \A i, j \in S : f[i] = f[j] => i = j
    <2> HIDE DEF S
    <2>1. QED
      OBVIOUS
  <1>5. ASSUME NEW j \in S
        PROVE  t[j] = u[f[j]]
    <2>1. f[j] = <<l * call.k + j, j, q>> /\ f[j] \in T
      BY <1>2
    <2>2. u[f[j]] = ByteOf(coeffs, data, was, <<l * call.k + j, j, q>>)
      <3> HIDE DEF T, f
      <3>1. QED
        BY <2>1
    <2>3. t[j] = mul(coeffs[l * call.k + j], data[j][q])
      <3> HIDE DEF S
      <3>1. QED
        OBVIOUS
    <2>4. ByteOf(coeffs, data, was, <<l * call.k + j, j, q>>)
            = mul(coeffs[l * call.k + j], data[j][q])
      BY <1>1, ProductRead
    <2> HIDE DEF t, u, f
    <2>5. QED
      BY <2>2, <2>3, <2>4
  <1> HIDE DEF f, t, u, S, T
  <1>6. XorAll(T, u) = XorAll(S, t)
    BY <1>1, <1>3, <1>4, <1>5, XorAllRenamed
  <1>7. QED
    BY <1>6 DEF S, T, t, u, SumOf

LEMMA ReadsUpdate ==
  ASSUME call \in Calls, Accepted(call), call.op # "encode",
         NEW coeffs, NEW data, NEW old, NEW was \in Byte, Given(coeffs, data, old),
         NEW l \in Rows(call), NEW q \in RowBytes(l)
  PROVE  SumOf(coeffs, data, was, Contract(l, q))
           = XOR(was, mul(coeffs[l * call.k + call.i], data[call.i][q]))
  <1> DEFINE term == <<l * call.k + call.i, call.i, q>>
             T == Contract(l, q)
             u == [x \in T |-> ByteOf(coeffs, data, was, x)]
  <1>1. call.i \in Used(call)
    BY DEF Used
  <1>2. /\ ByteOf(coeffs, data, was, term) = mul(coeffs[l * call.k + call.i], data[call.i][q])
        /\ mul(coeffs[l * call.k + call.i], data[call.i][q]) \in Byte
        /\ term # Was
    <2>1. /\ coeffs[l * call.k + call.i] \in Byte /\ data[call.i][q] \in Byte
          /\ ByteOf(coeffs, data, was, <<l * call.k + call.i, call.i, q>>)
               = mul(coeffs[l * call.k + call.i], data[call.i][q])
          /\ <<l * call.k + call.i, call.i, q>> # Was
      <3>1. \A j \in Used(call) :
              /\ coeffs[l * call.k + j] \in Byte /\ data[j][q] \in Byte
              /\ ByteOf(coeffs, data, was, <<l * call.k + j, j, q>>)
                   = mul(coeffs[l * call.k + j], data[j][q])
              /\ <<l * call.k + j, j, q>> # Was
        BY ProductRead
      <3>2. QED
        BY <1>1, <3>1
    <2>2. mul(coeffs[l * call.k + call.i], data[call.i][q]) \in Byte
      BY <2>1, MulByte
    <2>3. QED
      BY <2>1, <2>2
  <1>3. T = {Was} \cup {term}
    BY DEF Contract
  <1> HIDE DEF term, T
  <1>4. u[Was] = was /\ u[term] = mul(coeffs[l * call.k + call.i], data[call.i][q])
    BY <1>2, <1>3 DEF ByteOf
  <1> HIDE DEF u
  <1>5. IsFiniteSet({Was})
    BY FS_Singleton
  <1>6. XorAll({Was}, u) = u[Was]
    BY <1>4, <1>5, XorAllOne
  <1>7. XorAll({Was} \cup {term}, u) = XOR(XorAll({Was}, u), u[term])
    BY <1>2, <1>4, <1>5, XorAllInsert
  <1>8. QED
    BY <1>3, <1>4, <1>6, <1>7 DEF T, u, SumOf

LEMMA ContractRead == IInv => ComputesContract
  <1> SUFFICES ASSUME IInv, phase = "done", NEW coeffs, NEW data, NEW old,
                      Given(coeffs, data, old)
               PROVE  ReadOut(coeffs, data, old) =
                        IF call.op = "encode"
                        THEN KernelEncode(init(SimdKernels, coeffs), data, old)
                        ELSE KernelUpdate(init(SimdKernels, coeffs), call.k, call.i,
                                          data[call.i], old)
    BY DEF ComputesContract
  <1>1. call \in Calls /\ Accepted(call) /\ ContractMet
    BY ContractFollows DEF IInv, Passed
  <1>2. \A l \in Rows(call) : \A q \in RowBytes(l) : out[l][q] = Contract(l, q)
    BY <1>1 DEF IInv, TypeOK, ContractMet, RowBytes
  <1>3. DOMAIN old = Rows(call) /\ \A l \in Rows(call) : DOMAIN old[l] = RowBytes(l)
    BY DEF Given
  <1>4. init(SimdKernels, coeffs).coeffs = coeffs
    BY DEF init
  <1>5. CASE call.op = "encode"
    <2>1. Count(data) = call.k
      BY <1>5, CallShape, <1>1, UptoCardinality DEF Given, Used, Count, Upto
    <2>2. KernelEncode(init(SimdKernels, coeffs), data, old)
            = [l \in Rows(call) |-> [q \in RowBytes(l) |->
                 XorAll(Upto(call.k), [j \in Upto(call.k) |->
                   mul(coeffs[l * call.k + j], data[j][q])])]]
      BY <1>3, <1>4, <2>1 DEF KernelEncode, Term
    <2>3. \A l \in Rows(call) : \A q \in RowBytes(l) :
            SumOf(coeffs, data, old[l][q], out[l][q])
              = XorAll(Upto(call.k), [j \in Upto(call.k) |->
                   mul(coeffs[l * call.k + j], data[j][q])])
      BY <1>1, <1>2, <1>5, ReadsEncode
    <2>4. QED
      BY <1>5, <2>2, <2>3 DEF ReadOut
  <1>6. CASE call.op # "encode"
    <2>1. KernelUpdate(init(SimdKernels, coeffs), call.k, call.i, data[call.i], old)
            = [l \in Rows(call) |-> [q \in RowBytes(l) |->
                 XOR(old[l][q], mul(coeffs[l * call.k + call.i], data[call.i][q]))]]
      BY <1>3, <1>4 DEF KernelUpdate, Term
    <2>2. ASSUME NEW l \in Rows(call), NEW q \in RowBytes(l)
          PROVE  SumOf(coeffs, data, old[l][q], out[l][q])
                   = XOR(old[l][q], mul(coeffs[l * call.k + call.i], data[call.i][q]))
      <3>1. old[l][q] \in Byte
        BY DEF Given
      <3>2. out[l][q] = Contract(l, q)
        BY <1>2
      <3>3. QED
        BY <1>1, <1>6, <3>1, <3>2, ReadsUpdate
    <2>3. QED
      BY <1>6, <2>1, <2>2 DEF ReadOut
  <1>7. QED
    BY <1>5, <1>6

LEMMA PanicRead == IInv => PanicsAsExpected
  <1> SUFFICES ASSUME IInv, call.op = "encode", phase \in {"done", "panic"},
                      NEW coeffs, NEW data, NEW old, Given(coeffs, data, old)
               PROVE  phase = "panic" <=>
                        KernelAsserts(SimdKernels, init(SimdKernels, coeffs), data, old) # {}
    BY DEF PanicsAsExpected
  <1> DEFINE tbl == init(SimdKernels, coeffs)
             bytes == TableBytes(SimdKernels.format)
             short == Count(tbl.coeffs) * TableBytes(tbl.format)
                        < Count(old) * Count(data) * bytes
             uneven == \/ \E j \in DOMAIN data : Count(data[j]) # FirstLen(old)
                       \/ \E l \in DOMAIN old : Count(old[l]) # FirstLen(old)
  <1>1. /\ call.k \in Nat /\ call.rows \in Nat /\ call.tables \in Nat
        /\ \A j \in Used(call) : call.srcLen[j] \in Nat
        /\ \A l \in Rows(call) : call.outLen[l] \in Nat
    BY CallShape DEF IInv
  <1>2. /\ Count(data) = call.k /\ Count(old) = call.rows /\ Count(tbl.coeffs) = call.tables
        /\ \A j \in Used(call) : Count(data[j]) = call.srcLen[j]
        /\ \A l \in Rows(call) : Count(old[l]) = call.outLen[l]
    <2>1. DOMAIN data = Upto(call.k) /\ DOMAIN old = Upto(call.rows)
          /\ DOMAIN tbl.coeffs = Upto(call.tables)
      BY DEF Given, Used, Rows, Upto, init
    <2>2. /\ \A j \in Used(call) : DOMAIN data[j] = Upto(call.srcLen[j])
          /\ \A l \in Rows(call) : DOMAIN old[l] = Upto(call.outLen[l])
      BY DEF Given, RowBytes, Upto
    <2> HIDE DEF tbl
    <2>3. QED
      BY <1>1, <2>1, <2>2, UptoCardinality DEF Count
  <1>3. FirstLen(old) = IF call.rows = 0 THEN 0 ELSE call.outLen[0]
    <2>1. call.rows # 0 => 0 \in Rows(call)
      BY <1>1 DEF Rows
    <2>2. QED
      BY <1>2, <2>1 DEF FirstLen
  <1>4. uneven <=> ~(/\ \A j \in Used(call) : call.srcLen[j] = FirstLen(old)
                     /\ \A l \in Rows(call) : call.outLen[l] = FirstLen(old))
    BY <1>2 DEF Given
  <1>5. bytes \in {8, 32} /\ TableBytes(tbl.format) = bytes
    BY DEF TableBytes, init, SimdKernels, Kernels
  <1>6. short <=> ~(call.tables >= call.rows * call.k)
    <2>1. \A m, n \in Nat, b \in {8, 32} : m * b < n * b <=> ~(m >= n)
      OBVIOUS
    <2>2. call.rows * call.k \in Nat
      BY <1>1
    <2> HIDE DEF bytes
    <2>3. QED
      BY <1>1, <1>2, <1>5, <2>1, <2>2
  <1>7. KernelAsserts(SimdKernels, tbl, data, old) # {} <=> (short \/ uneven)
    <2>1. SimdKernels.simd
      BY DEF SimdKernels, Kernels
    <2> HIDE DEF tbl
    <2>2. QED
      BY <2>1 DEF KernelAsserts, Raise
  <1>8. (short \/ uneven) <=> ~check_encode(call)
    <2> HIDE DEF short, uneven
    <2>1. QED
      BY <1>3, <1>4, <1>6 DEF check_encode
  <1>9. Accepted(call) <=> check_encode(call)
    BY DEF Accepted
  <1>10. phase = "panic" <=> ~Accepted(call)
    BY DEF IInv, Passed
  <1>11. QED
    BY <1>7, <1>8, <1>9, <1>10

(* The contract in which Parity and Recovery are modelled is the one the   *)
(* SIMD kernels keep, for every shape of call, with the products read from *)
(* the nibble tables or the affine matrices of the coefficients.           *)
THEOREM KernelsKeepContract == Spec => [](ComputesContract /\ PanicsAsExpected)
  BY Invariance, ContractRead, PanicRead, PTL

=============================================================================
