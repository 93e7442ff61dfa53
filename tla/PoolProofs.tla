----------------------------- MODULE PoolProofs -----------------------------
(***************************************************************************)
(* For any number of workers, any jobs and any machines: a reader of the   *)
(* census gets numbers its counters really had while it read; the counters *)
(* are sums of the calls begun; the verdict of the census verb is true;    *)
(* the striped benchmark does its work once; the kernels fit the CPU.      *)
(***************************************************************************)
EXTENDS Pool, FiniteSetTheorems, WellFoundedInduction, TLAPS

(* The sum of a function over a finite set, term by term.                  *)

(* Among sets of subsets of a finite set one has a least member.           *)
LEMMA SmallestSubset ==
  ASSUME NEW S, IsFiniteSet(S), NEW Bad \in SUBSET (SUBSET S), Bad # {}
  PROVE  \E T \in Bad : \A U \in Bad : U \subseteq T => U = T
  <1>1. IsWellFoundedOn(StrictSubsetOrdering(S), FiniteSubsetsOf(S))
    BY FS_StrictSubsetOrderingWellFounded
  <1>2. Bad \subseteq FiniteSubsetsOf(S)
    BY FS_FiniteSubsetsOfFinite
  <1>3. PICK T \in Bad : \A U \in Bad : ~(<<U, T>> \in StrictSubsetOrdering(S))
    BY <1>1, <1>2, WFMin
  <1>4. QED
    BY <1>3 DEF StrictSubsetOrdering

(* it sums f over the subsets of S, whichever element comes first; there   *)
(* is such a function, any two agree, and SumFunction is one.              *)
Sums(it, f, S) ==
  /\ it \in [SUBSET S -> Nat]
  /\ it[{}] = 0
  /\ \A U \in SUBSET S : \A y \in U : it[U] = f[y] + it[U \ {y}]

LEMMA SumsExist ==
  ASSUME NEW S, IsFiniteSet(S), NEW f, \A x \in S : f[x] \in Nat
  PROVE  \E it : Sums(it, f, S)
  <1> DEFINE Bad == {T \in SUBSET S : ~\E it : Sums(it, f, T)}
  <1>1. SUFFICES ASSUME Bad # {} PROVE FALSE
    BY DEF Bad
  <1>2. PICK T \in Bad : \A U \in Bad : U \subseteq T => U = T
    <2>1. Bad \in SUBSET (SUBSET S)
      OBVIOUS
    <2> HIDE DEF Bad
    <2>2. QED
      BY <1>1, <2>1, SmallestSubset
  <1>3. CASE T = {}
    <2> DEFINE it == [U \in SUBSET {} |-> 0]
    <2>1. Sums(it, f, {})
      BY DEF Sums
    <2>2. QED
      BY <1>2, <1>3, <2>1
  <1>4. CASE T # {}
    <2>1. PICK x \in T : TRUE
      BY <1>4
    <2> DEFINE R == T \ {x}
    <2>2. PICK it : Sums(it, f, R)
      <3>1. R \in SUBSET S /\ R \subseteq T /\ R # T
        BY <2>1
      <3>2. R \notin Bad
        BY <1>2, <3>1
      <3>3. QED
        BY <3>1, <3>2
    <2> DEFINE jt == [U \in SUBSET T |-> IF x \in U THEN f[x] + it[U \ {x}] ELSE it[U]]
    <2>3. \A U \in SUBSET T : U \ {x} \in SUBSET R /\ (x \notin U => U \in SUBSET R)
      OBVIOUS
    <2>4. f[x] \in Nat /\ \A U \in SUBSET R : it[U] \in Nat
      BY <2>2 DEF Sums
    <2> HIDE DEF R
    <2>5. jt \in [SUBSET T -> Nat]
      BY <2>3, <2>4
    <2>6. jt[{}] = 0
      BY <2>2 DEF Sums
    <2>7. ASSUME NEW U \in SUBSET T, NEW y \in U
          PROVE  jt[U] = f[y] + jt[U \ {y}]
      <3>1. CASE x \notin U
        <4>1. U \in SUBSET R /\ jt[U] = it[U] /\ jt[U \ {y}] = it[U \ {y}]
          BY <2>3, <3>1
        <4>2. QED
          BY <2>2, <4>1 DEF Sums
      <3>2. CASE x \in U /\ y = x
        BY <3>2
      <3>3. CASE x \in U /\ y # x
        <4> DEFINE V == U \ {x}
        <4>1. V \in SUBSET R /\ y \in V /\ V \ {y} \in SUBSET R /\ (U \ {y}) \ {x} = V \ {y}
          BY <2>3, <3>3
        <4>2. jt[U] = f[x] + it[V]
          BY <3>3
        <4>3. jt[U \ {y}] = f[x] + it[V \ {y}]
          BY <3>3, <4>1
        <4>4. it[V] = f[y] + it[V \ {y}]
          BY <2>2, <4>1 DEF Sums
        <4>5. f[y] \in Nat /\ it[V \ {y}] \in Nat
          BY <2>4, <4>1
        <4>6. QED
          BY <2>4, <4>2, <4>3, <4>4, <4>5
      <3>4. QED
        BY <3>1, <3>2, <3>3
    <2> HIDE DEF jt
    <2>8. Sums(jt, f, T)
      BY <2>5, <2>6, <2>7 DEF Sums
    <2>9. QED
      BY <1>2, <2>8
  <1>5. QED
    BY <1>3, <1>4

LEMMA SumsAgree ==
  ASSUME NEW S, IsFiniteSet(S), NEW f, NEW it, Sums(it, f, S),
         NEW T, S \subseteq T, NEW g, NEW jt, Sums(jt, g, T), \A x \in S : f[x] = g[x]
  PROVE  it[S] = jt[S]
  <1> DEFINE Bad == {U \in SUBSET S : it[U] # jt[U]}
  <1>1. SUFFICES ASSUME Bad # {} PROVE FALSE
    BY DEF Bad
  <1>2. PICK U \in Bad : \A V \in Bad : V \subseteq U => V = U
    <2>1. Bad \in SUBSET (SUBSET S)
      OBVIOUS
    <2> HIDE DEF Bad
    <2>2. QED
      BY <1>1, <2>1, SmallestSubset
  <1>3. U # {}
    BY <1>2 DEF Sums
  <1>4. PICK x \in U : TRUE
    BY <1>3
  <1>5. U \ {x} \in SUBSET S /\ U \ {x} \subseteq U /\ U \ {x} # U
    BY <1>4
  <1>6. it[U \ {x}] = jt[U \ {x}]
    BY <1>2, <1>5
  <1>7. it[U] = f[x] + it[U \ {x}] /\ jt[U] = g[x] + jt[U \ {x}] /\ f[x] = g[x]
    BY <1>4 DEF Sums
  <1>8. QED
    BY <1>2, <1>6, <1>7

LEMMA SumIs ==
  ASSUME NEW S, IsFiniteSet(S), NEW f, \A x \in S : f[x] \in Nat,
         NEW it, Sums(it, f, S)
  PROVE  SumFunctionOnSet(f, S) = it[S]
  <1> DEFINE Is(h) == h = [s \in SUBSET S |->
                             IF s = {} THEN 0
                             ELSE f[CHOOSE x \in s : TRUE] + h[s \ {CHOOSE x \in s : TRUE}]]
             h == CHOOSE h : Is(h)
  <1>1. SumFunctionOnSet(f, S) = h[S]
    BY DEF SumFunctionOnSet, FoldFunctionOnSet, MapThenFoldSet
  <1>2. \A s \in SUBSET S : s # {} => (CHOOSE x \in s : TRUE) \in s
    OBVIOUS
  <1>3. Is(it)
    BY <1>2 DEF Sums
  <1> HIDE DEF Is
  <1>4. Is(h)
    BY <1>3
  <1> HIDE DEF h
  <1> DEFINE Bad == {U \in SUBSET S : it[U] # h[U]}
  <1>5. SUFFICES ASSUME Bad # {} PROVE FALSE
    BY <1>1 DEF Bad
  <1>6. PICK U \in Bad : \A V \in Bad : V \subseteq U => V = U
    <2>1. Bad \in SUBSET (SUBSET S)
      OBVIOUS
    <2> HIDE DEF Bad
    <2>2. QED
      BY <1>5, <2>1, SmallestSubset
  <1>7. U # {}
    <2>1. {} \in SUBSET S
      OBVIOUS
    <2>2. h[{}] = 0
      BY <1>4, <2>1 DEF Is
    <2>3. QED
      BY <1>6, <2>2 DEF Sums
  <1> DEFINE x == CHOOSE x \in U : TRUE
  <1>8. x \in U /\ U \in SUBSET S /\ U \ {x} \in SUBSET S /\ U \ {x} # U
    BY <1>2, <1>7
  <1>9. h[U] = f[x] + h[U \ {x}]
    BY <1>4, <1>7, <1>8 DEF Is
  <1> HIDE DEF x
  <1>10. it[U \ {x}] = h[U \ {x}]
    BY <1>6, <1>8
  <1>11. it[U] = f[x] + it[U \ {x}]
    BY <1>8 DEF Sums
  <1>12. QED
    BY <1>6, <1>9, <1>10, <1>11

(* A sum of naturals is one.                                               *)
LEMMA SumNat ==
  ASSUME NEW S, IsFiniteSet(S), NEW f, DOMAIN f = S, \A y \in S : f[y] \in Nat
  PROVE  SumFunction(f) \in Nat
  <1>1. PICK it : Sums(it, f, S)
    BY SumsExist
  <1>2. SumFunction(f) = it[S]
    BY <1>1, SumIs DEF SumFunction
  <1>3. QED
    BY <1>1, <1>2 DEF Sums

(* A sum with one term more, and with one term changed.                    *)
LEMMA SumMore ==
  ASSUME NEW S, IsFiniteSet(S), NEW x, x \notin S, NEW f, NEW g,
         DOMAIN f = S, DOMAIN g = S \cup {x},
         \A y \in S \cup {x} : g[y] \in Nat, \A y \in S : f[y] = g[y]
  PROVE  SumFunction(g) = g[x] + SumFunction(f) /\ SumFunction(f) \in Nat
  <1> DEFINE T == S \cup {x}
  <1>1. IsFiniteSet(T) /\ S \subseteq T
    BY FS_AddElement
  <1>2. PICK it : Sums(it, f, S)
    BY SumsExist
  <1>3. PICK jt : Sums(jt, g, T)
    BY <1>1, SumsExist
  <1>4. SumFunction(f) = it[S]
    BY <1>2, SumIs DEF SumFunction
  <1>5. SumFunction(g) = jt[T]
    BY <1>1, <1>3, SumIs DEF SumFunction
  <1>6. it[S] = jt[S]
    BY <1>1, <1>2, <1>3, SumsAgree
  <1>7. jt[T] = g[x] + jt[T \ {x}] /\ T \ {x} = S
    BY <1>3 DEF Sums
  <1>8. it[S] \in Nat
    BY <1>2 DEF Sums
  <1>9. QED
    BY <1>4, <1>5, <1>6, <1>7, <1>8

LEMMA SumChanged ==
  ASSUME NEW S, IsFiniteSet(S), NEW x \in S, NEW f, NEW g,
         DOMAIN f = S, DOMAIN g = S, \A y \in S : f[y] \in Nat /\ g[y] \in Nat,
         \A y \in S \ {x} : f[y] = g[y], NEW d \in Nat, g[x] = f[x] + d
  PROVE  SumFunction(g) = SumFunction(f) + d
  <1>1. PICK it : Sums(it, f, S)
    BY SumsExist
  <1>2. PICK jt : Sums(jt, g, S)
    BY SumsExist
  <1>3. SumFunction(f) = it[S] /\ SumFunction(g) = jt[S]
    BY <1>1, <1>2, SumIs DEF SumFunction
  <1> DEFINE R == S \ {x}
  <1>4. R \subseteq S /\ IsFiniteSet(R) /\ R \in SUBSET S
    BY FS_Subset
  <1>5. PICK kt : Sums(kt, f, R)
    BY <1>4, SumsExist
  <1>6. kt[R] = it[R]
    BY <1>1, <1>4, <1>5, SumsAgree
  <1>7. kt[R] = jt[R]
    BY <1>2, <1>4, <1>5, SumsAgree
  <1>8. it[S] = f[x] + it[R] /\ jt[S] = g[x] + jt[R] /\ it[R] \in Nat
    BY <1>1, <1>2, <1>4 DEF Sums
  <1>9. f[x] \in Nat
    OBVIOUS
  <1> HIDE DEF R
  <1>10. jt[R] = it[R]
    BY <1>6, <1>7
  <1>11. jt[S] = it[S] + d
    BY <1>8, <1>9, <1>10
  <1>12. QED
    BY <1>3, <1>11

(* A sum of zeroes.                                                        *)
LEMMA SumZero ==
  ASSUME NEW S, IsFiniteSet(S), NEW f, DOMAIN f = S, \A y \in S : f[y] = 0
  PROVE  SumFunction(f) = 0
  <1> DEFINE it == [U \in SUBSET S |-> 0]
  <1>1. Sums(it, f, S)
    BY DEF Sums
  <1>2. it[S] = 0
    OBVIOUS
  <1> HIDE DEF it
  <1>3. QED
    BY <1>1, <1>2, SumIs DEF SumFunction
-----------------------------------------------------------------------------
(* The main thread has begun, or has ended, its read.                      *)
Reading == pc[0] \in {"load2", "report", "done"}

Pairs == [Families -> Nat]

Shape ==
  /\ job \in Jobs
  /\ counts \in Pairs
  /\ seen \in [Readers -> Pairs]
  /\ before \in [Readers -> Pairs]
  /\ pc = [t \in Thread |-> pc[t]]
  /\ watch \in {"idle", "half", "done"}

(* What a reader has loaded, or noted, is not above the counters, which    *)
(* only grow; the scalar number, once loaded, and the other, once the read *)
(* has ended, is not below what was noted.  A main thread that has not     *)
(* read yet has noted nothing, so it may exit from anywhere.               *)
Bracketed(r, half, full) ==
  /\ \A f \in Families : seen[r][f] <= counts[f] /\ before[r][f] <= counts[f]
  /\ half => before[r]["scalar"] <= seen[r]["scalar"]
  /\ full /\ machine.accel => before[r]["accel"] <= seen[r]["accel"]

IInv ==
  /\ Shape
  /\ ~Reading => before["main"] = Zero /\ seen["main"] = Zero
  /\ Bracketed("main", Reading, pc[0] \in {"report", "done"})
  /\ Bracketed("observer", watch # "idle", watch = "done")

LEMMA Bytes ==
  ASSUME job \in Jobs, NEW t, NEW i
  PROVE  CallBytes(t, i) \in Nat /\ CallFamily(t, i) \in Families
<1>1. job.k \in Nat /\ job.len \in Nat
  BY BoundAssumption
<1>2. job.k * job.len \in Nat
  BY <1>1
<1> QED
  BY <1>1, <1>2 DEF CallBytes, CallFamily, Family, Families

(* An addition raises the counters, whatever they belong to.               *)
Grown == counts' \in Pairs /\ \A f \in Families : counts[f] <= counts'[f]

LEMMA AddGrows ==
  ASSUME counts \in Pairs, NEW f \in Families, NEW n \in Nat,
         counts' = fetch_add(f, n)
  PROVE  Grown
BY DEF fetch_add, Grown, Pairs, Families

LEMMA InitIInv == Init => IInv
  <1> SUFFICES ASSUME Init PROVE IInv
    OBVIOUS
  <1>1. Shape
    BY BoundAssumption DEF Init, Shape, Pairs, Zero, Families, Readers, Thread
  <1>2. 0 \in Thread
    BY BoundAssumption DEF Thread
  <1>3. ~Reading
    BY <1>2 DEF Init, Reading
  <1>4. \A r \in Readers : seen[r] = Zero /\ before[r] = Zero
    BY DEF Init
  <1>5. \A f \in Families : counts[f] = 0 /\ Zero[f] = 0
    BY DEF Init, Zero
  <1>6. QED
    BY <1>1, <1>3, <1>4, <1>5 DEF IInv, Bracketed, Reading, Init, Readers, Families

(* A step that reads nothing: counters may grow, and the main thread stays *)
(* where it is, has not read, or leaves its report.                        *)
Onward ==
  /\ UNCHANGED <<machine, job, seen, before, watch>>
  /\ pc' = [t \in Thread |-> pc'[t]]
  /\ \/ ~Reading
     \/ pc'[0] = pc[0]
     \/ pc[0] = "report" /\ pc'[0] = "done"

LEMMA OnwardKeeps ==
  ASSUME IInv, Grown, Onward
  PROVE  IInv'
  <1>1. Shape'
    BY DEF IInv, Shape, Grown, Onward
  <1>2. ASSUME NEW r \in Readers, NEW f \in Families,
               seen[r][f] <= counts[f], before[r][f] <= counts[f]
        PROVE  seen'[r][f] <= counts'[f] /\ before'[r][f] <= counts'[f]
    <2>1. /\ seen[r][f] \in Nat /\ before[r][f] \in Nat
          /\ counts[f] \in Nat /\ counts'[f] \in Nat
      BY DEF IInv, Shape, Grown, Pairs
    <2>2. counts[f] <= counts'[f] /\ seen' = seen /\ before' = before
      BY DEF Grown, Onward
    <2>3. QED
      BY <1>2, <2>1, <2>2
  <1>3. Bracketed("observer", watch # "idle", watch = "done")'
    <2>1. \A f \in Families : seen'["observer"][f] <= counts'[f]
                            /\ before'["observer"][f] <= counts'[f]
      BY <1>2 DEF IInv, Bracketed, Readers
    <2>2. QED
      BY <2>1 DEF IInv, Bracketed, Onward
  <1>4. ~Reading' => before'["main"] = Zero /\ seen'["main"] = Zero
    BY DEF IInv, Onward, Reading
  <1>5. Bracketed("main", Reading, pc[0] \in {"report", "done"})'
    <2>1. \A f \in Families : seen'["main"][f] <= counts'[f]
                            /\ before'["main"][f] <= counts'[f]
      BY <1>2 DEF IInv, Bracketed, Readers
    <2>2. CASE ~Reading
      <3>1. before'["main"] = Zero /\ seen'["main"] = Zero
        BY <2>2 DEF IInv, Onward
      <3>2. Zero["scalar"] = 0 /\ Zero["accel"] = 0
        BY DEF Zero, Families
      <3>3. QED
        BY <2>1, <3>1, <3>2 DEF Bracketed
    <2>3. CASE Reading
      <3>1. /\ seen' = seen /\ before' = before /\ machine' = machine
            /\ pc'[0] \in {"report", "done"} => pc[0] \in {"report", "done"}
        BY <2>3 DEF Onward
      <3>2. QED
        BY <2>1, <2>3, <3>1 DEF IInv, Bracketed
    <2>4. QED
      BY <2>2, <2>3
  <1>6. QED
    BY <1>1, <1>3, <1>4, <1>5 DEF IInv

(* Counters a step leaves alone have grown, by nothing.                    *)
LEMMA Unchanged ==
  ASSUME IInv, UNCHANGED counts
  PROVE  Grown
  <1>1. counts \in [Families -> Nat]
    BY DEF IInv, Shape, Pairs
  <1>2. \A f \in Families : counts[f] <= counts[f]
    BY <1>1
  <1>3. QED
    BY <1>1, <1>2 DEF Grown, Pairs

LEMMA GotoMoves ==
  ASSUME IInv, NEW label, pc' = [pc EXCEPT ![0] = label]
  PROVE  pc' = [t \in Thread |-> pc'[t]] /\ pc'[0] = label
  <1>1. 0 \in Thread
    BY BoundAssumption DEF Thread
  <1>2. QED
    BY <1>1 DEF IInv, Shape

(* The steps of the main thread outside its read and its calls.            *)
LEMMA MainOnward ==
  ASSUME IInv, Start \/ Join \/ Conclude \/ Report
  PROVE  Onward /\ Grown
  <1>1. UNCHANGED <<machine, job, seen, before, watch, counts>>
    BY DEF Start, Join, Conclude, Report, Idle, Chosen, Watching
  <1>2. PICK label : pc' = [pc EXCEPT ![0] = label]
    BY DEF Start, Join, Conclude, Report, Exit, Goto
  <1>3. pc'[0] = label /\ pc' = [t \in Thread |-> pc'[t]]
    BY <1>2, GotoMoves
  <1>4. ~Reading \/ (pc[0] = "report" /\ pc'[0] = "done")
    <2>1. CASE Report
      <3>1. pc[0] = "report" /\ \E code : pc' = [pc EXCEPT ![0] = "done"]
        BY <2>1 DEF Report, Exit
      <3>2. QED
        BY <3>1, GotoMoves
    <2>2. CASE Start \/ Join \/ Conclude
      BY <2>2 DEF Start, Join, Conclude, Reading
    <2>3. QED
      BY <2>1, <2>2
  <1>5. QED
    BY <1>1, <1>3, <1>4, Unchanged DEF Onward

LEMMA SpawnOnward ==
  ASSUME IInv, Spawn
  PROVE  Onward /\ Grown
  <1>1. UNCHANGED <<machine, job, seen, before, watch, counts>> /\ ~Reading
    BY DEF Spawn, Idle, Chosen, Watching, Reading
  <1>2. PICK t, label : pc' = [pc EXCEPT ![t] = label]
    BY DEF Spawn, Exit, Goto
  <1>3. pc' = [u \in Thread |-> pc'[u]]
    BY <1>2 DEF IInv, Shape
  <1>4. QED
    BY <1>1, <1>3, Unchanged DEF Onward

(* A thread moves among its calls; the main thread is not reading then.    *)
LEMMA WorkOnward ==
  ASSUME IInv, NEW t \in Thread, Begin(t) \/ Finish(t) \/ Leave(t)
  PROVE  Onward /\ Grown
  <1>1. UNCHANGED <<machine, job, seen, before, watch>>
    BY DEF Begin, Finish, Leave, Idle, Chosen, Watching
  <1>2. PICK label : pc' = [pc EXCEPT ![t] = label]
    BY DEF Begin, Finish, Leave
  <1>3. pc' = [u \in Thread |-> pc'[u]]
    BY <1>2 DEF IInv, Shape
  <1>4. ~Reading \/ pc'[0] = pc[0]
    <2>1. CASE t = 0
      BY <2>1 DEF Begin, Finish, Leave, Reading
    <2>2. CASE t # 0
      <3>1. 0 \in Thread
        BY BoundAssumption DEF Thread
      <3>2. QED
        BY <1>2, <2>2, <3>1 DEF IInv, Shape
    <2>3. QED
      BY <2>1, <2>2
  <1>5. Grown
    <2>1. CASE Begin(t)
      <3>1. counts' = fetch_add(CallFamily(t, made[t]), CallBytes(t, made[t]))
        BY <2>1 DEF Begin
      <3>2. counts \in Pairs /\ job \in Jobs
        BY DEF IInv, Shape
      <3>3. QED
        BY <3>1, <3>2, Bytes, AddGrows
    <2>2. CASE Finish(t) \/ Leave(t)
      BY <2>2, Unchanged DEF Finish, Leave
    <2>3. QED
      BY <2>1, <2>2
  <1>6. QED
    BY <1>1, <1>3, <1>4, <1>5 DEF Onward

LEMMA GuestOnward ==
  ASSUME IInv, NEW buffers, GuestCall(buffers)
  PROVE  Onward /\ Grown
  <1>1. UNCHANGED <<machine, job, seen, before, watch, pc>>
    BY DEF GuestCall, Chosen, Watching
  <1>2. Grown
    <2>1. PICK f \in Families : counts' = fetch_add(f, GuestBytes)
      BY DEF GuestCall, Family, Families
    <2>2. counts \in Pairs /\ GuestBytes \in Nat
      BY BoundAssumption DEF IInv, Shape
    <2>3. QED
      BY <2>1, <2>2, AddGrows
  <1>3. QED
    BY <1>1, <1>2 DEF IInv, Shape, Onward

(* The two steps of the main thread's read ...                             *)
LEMMA LoadKeeps ==
  ASSUME IInv, Load
  PROVE  IInv'
  <1>1. UNCHANGED <<machine, job, watch, counts>>
    BY DEF Load, LoadScalar, LoadAccel, Chosen
  <1>2. PICK label : pc' = [pc EXCEPT ![0] = label]
    BY DEF Load, Goto
  <1>3. \A f \in Families : counts[f] \in Nat
    BY DEF IInv, Shape, Pairs
  <1>4. "main" \in Readers /\ "observer" \in Readers
    BY DEF Readers
  <1>5. pc' = [t \in Thread |-> pc'[t]] /\ pc'[0] = label
    BY <1>2, GotoMoves
  <1>6. CASE pc[0] = "load"
    <2>1. LoadScalar("main") /\ pc' = [pc EXCEPT ![0] = "load2"]
      BY <1>6 DEF Load, Goto
    <2>2. pc'[0] = "load2"
      BY <2>1, GotoMoves
    <2>3. seen' \in [Readers -> Pairs] /\ before' \in [Readers -> Pairs]
      BY <1>3, <2>1 DEF IInv, Shape, LoadScalar, Pairs, Zero, Families
    <2>4. /\ before'["main"] = counts
          /\ seen'["main"] = [Zero EXCEPT !["scalar"] = counts["scalar"]]
          /\ before'["observer"] = before["observer"]
          /\ seen'["observer"] = seen["observer"]
      BY <1>4, <2>1 DEF IInv, Shape, LoadScalar
    <2>5. \A f \in Families : seen'["main"][f] <= counts[f] /\ before'["main"][f] <= counts[f]
      BY <1>3, <2>4 DEF Zero, Families
    <2>6. before'["main"]["scalar"] <= seen'["main"]["scalar"]
      BY <1>3, <2>4 DEF Zero, Families
    <2>7. Bracketed("main", Reading, pc[0] \in {"report", "done"})'
      BY <1>1, <2>2, <2>5, <2>6 DEF Bracketed
    <2>8. Bracketed("observer", watch # "idle", watch = "done")'
      BY <1>1, <2>4 DEF IInv, Bracketed
    <2>9. Shape' /\ Reading'
      BY <1>1, <1>5, <2>2, <2>3 DEF IInv, Shape, Reading
    <2>10. QED
      BY <2>7, <2>8, <2>9 DEF IInv
  <1>7. CASE pc[0] = "load2"
    <2>1. LoadAccel("main") /\ pc' = [pc EXCEPT ![0] = "report"]
      BY <1>7 DEF Load, Goto
    <2>2. pc'[0] = "report"
      BY <2>1, GotoMoves
    <2>3. seen' \in [Readers -> Pairs] /\ before' = before
      BY <1>3, <2>1 DEF IInv, Shape, LoadAccel, Pairs, Families
    <2>4. /\ seen'["main"]["scalar"] = seen["main"]["scalar"]
          /\ seen'["main"]["accel"] = IF machine.accel THEN counts["accel"] ELSE 0
          /\ seen'["observer"] = seen["observer"]
      BY <1>4, <2>1 DEF IInv, Shape, LoadAccel, Pairs, Families
    <2>5. Bracketed("main", TRUE, FALSE)
      BY <1>7 DEF IInv, Reading, Bracketed
    <2>6. \A f \in Families : seen'["main"][f] <= counts[f] /\ before'["main"][f] <= counts[f]
      BY <1>3, <2>3, <2>4, <2>5 DEF Bracketed, Families
    <2>7. Bracketed("main", Reading, pc[0] \in {"report", "done"})'
      BY <1>1, <2>3, <2>4, <2>5, <2>6 DEF Bracketed, Families
    <2>8. Bracketed("observer", watch # "idle", watch = "done")'
      BY <1>1, <2>3, <2>4 DEF IInv, Bracketed
    <2>9. Shape' /\ Reading'
      BY <1>1, <1>5, <2>2, <2>3 DEF IInv, Shape, Reading
    <2>10. QED
      BY <2>7, <2>8, <2>9 DEF IInv
  <1>8. QED
    BY <1>6, <1>7 DEF Load

(* ... and the observer's.                                                 *)
LEMMA ObserveKeeps ==
  ASSUME IInv, Observe
  PROVE  IInv'
  <1>1. UNCHANGED <<machine, job, pc, counts>>
    BY DEF Observe, LoadScalar, LoadAccel, Chosen
  <1>2. \A f \in Families : counts[f] \in Nat
    BY DEF IInv, Shape, Pairs
  <1>3. "main" \in Readers /\ "observer" \in Readers
    BY DEF Readers
  <1>4. CASE watch = "idle"
    <2>1. LoadScalar("observer") /\ watch' = "half"
      BY <1>4 DEF Observe
    <2>2. seen' \in [Readers -> Pairs] /\ before' \in [Readers -> Pairs]
      BY <1>2, <2>1 DEF IInv, Shape, LoadScalar, Pairs, Zero, Families
    <2>3. /\ before'["observer"] = counts
          /\ seen'["observer"] = [Zero EXCEPT !["scalar"] = counts["scalar"]]
          /\ before'["main"] = before["main"]
          /\ seen'["main"] = seen["main"]
      BY <1>3, <2>1 DEF IInv, Shape, LoadScalar
    <2>4. Bracketed("observer", watch # "idle", watch = "done")'
      BY <1>1, <1>2, <2>1, <2>3 DEF Bracketed, Zero, Families
    <2>5. Bracketed("main", Reading, pc[0] \in {"report", "done"})'
      BY <1>1, <2>3 DEF IInv, Bracketed, Reading
    <2>6. Shape' /\ (~Reading' => before'["main"] = Zero /\ seen'["main"] = Zero)
      BY <1>1, <2>1, <2>2, <2>3 DEF IInv, Shape, Reading
    <2>7. QED
      BY <2>4, <2>5, <2>6 DEF IInv
  <1>5. CASE watch = "half"
    <2>1. LoadAccel("observer") /\ watch' = "done"
      BY <1>5 DEF Observe
    <2>2. seen' \in [Readers -> Pairs] /\ before' = before
      BY <1>2, <2>1 DEF IInv, Shape, LoadAccel, Pairs, Families
    <2>3. /\ seen'["observer"]["scalar"] = seen["observer"]["scalar"]
          /\ seen'["observer"]["accel"] = IF machine.accel THEN counts["accel"] ELSE 0
          /\ seen'["main"] = seen["main"]
      BY <1>3, <2>1 DEF IInv, Shape, LoadAccel, Pairs, Families
    <2>4. Bracketed("observer", TRUE, FALSE)
      BY <1>5 DEF IInv, Bracketed
    <2>5. Bracketed("observer", watch # "idle", watch = "done")'
      BY <1>1, <1>2, <2>1, <2>2, <2>3, <2>4 DEF Bracketed, Families
    <2>6. Bracketed("main", Reading, pc[0] \in {"report", "done"})'
      BY <1>1, <2>2, <2>3 DEF IInv, Bracketed, Reading
    <2>7. Shape' /\ (~Reading' => before'["main"] = Zero /\ seen'["main"] = Zero)
      BY <1>1, <2>1, <2>2, <2>3 DEF IInv, Shape, Reading
    <2>8. QED
      BY <2>5, <2>6, <2>7 DEF IInv
  <1>6. QED
    BY <1>4, <1>5 DEF Observe

LEMMA NextIInv ==
  ASSUME IInv, [Next]_vars
  PROVE  IInv'
  <1>1. CASE Start \/ Join \/ Conclude \/ Report
    BY <1>1, MainOnward, OnwardKeeps
  <1>2. CASE Spawn
    BY <1>2, SpawnOnward, OnwardKeeps
  <1>3. CASE Begin(0) \/ Finish(0)
    <2>1. 0 \in Thread
      BY BoundAssumption DEF Thread
    <2>2. QED
      BY <1>3, <2>1, WorkOnward, OnwardKeeps
  <1>4. CASE Load
    BY <1>4, LoadKeeps
  <1>5. ASSUME NEW t \in Worker, Work(t)
        PROVE  IInv'
    <2>1. t \in Thread
      BY BoundAssumption DEF Thread, Worker
    <2>2. QED
      BY <1>5, <2>1, WorkOnward, OnwardKeeps DEF Work
  <1>6. CASE Observe
    BY <1>6, ObserveKeeps
  <1>7. ASSUME NEW buffers \in {"exact", "long"}, GuestCall(buffers)
        PROVE  IInv'
    BY <1>7, GuestOnward, OnwardKeeps
  <1>8. CASE UNCHANGED vars
    BY <1>8 DEF vars, IInv, Shape, Bracketed, Reading
  <1>9. QED
    BY <1>1, <1>2, <1>3, <1>4, <1>5, <1>6, <1>7, <1>8 DEF Next, Main

LEMMA IInvBrackets == IInv => SampleBracketed
  <1> SUFFICES ASSUME IInv, NEW r \in Readers, NEW f \in Families
      PROVE  /\ seen[r][f] <= counts[f]
             /\ (IF r = "main" THEN pc[0] \in {"report", "done"} ELSE watch = "done")
                /\ machine.accel => before[r][f] <= seen[r][f]
    BY DEF SampleBracketed
  <1>1. CASE r = "main"
    BY <1>1 DEF IInv, Bracketed, Reading, Families
  <1>2. CASE r = "observer"
    BY <1>2 DEF IInv, Bracketed, Families
  <1>3. QED
    BY <1>1, <1>2 DEF Readers

(* However many threads count into the census while it is read, whatever   *)
(* the jobs and the machine: the pair census::read returns is, number by   *)
(* number, between the counters at its start and at its end.               *)
THEOREM SampleBracketedHolds == Spec => []SampleBracketed
  <1>1. IInv /\ [Next]_vars => IInv'
    BY NextIInv
  <1>2. QED
    BY InitIInv, <1>1, IInvBrackets, PTL DEF Spec
-----------------------------------------------------------------------------
(* What the detection finds on a machine, and what that needs.             *)
LEMMA NeedsAre ==
  /\ Needs("gfni") = {"gfni", "avx2"} /\ Needs("avx2") = {"avx2"} /\ Needs("ssse3") = {"ssse3"}
  /\ Needs("simd128") = {"simd128"}
  /\ Needs("sse2") = {} /\ Needs("neon") = {} /\ Needs("scalar") = {}
  BY DEF Needs

LEMMA AtLevelFits ==
  ASSUME NEW m, NEW level
  PROVE  /\ kernels_at(m, level) # NoKernels => m.arch = "x86_64"
         /\ \/ kernels_at(m, level) = NoKernels
            \/ kernels_at(m, level) = "gfni" /\ {"gfni", "avx2"} \subseteq m.cpu
            \/ kernels_at(m, level) = "avx2" /\ "avx2" \in m.cpu
            \/ kernels_at(m, level) = "ssse3" /\ "ssse3" \in m.cpu
  BY DEF kernels_at, NoKernels

(* The set chosen on machine m, if any: its level and its features.        *)
Found(m, set) ==
  \/ set = "gfni" /\ {"gfni", "avx2"} \subseteq m.cpu
  \/ set = "avx2" /\ "avx2" \in m.cpu
  \/ set = "ssse3" /\ "ssse3" \in m.cpu
  \/ set = "simd128" /\ "simd128" \in m.cpu
  \/ set = "neon"
  \/ set = "scalar"

LEMMA FoundFits ==
  ASSUME NEW m, NEW set, Found(m, set)
  PROVE  Needs(set) \subseteq m.cpu /\ set # NoKernels
  BY NeedsAre DEF Found, NoKernels

LEMMA ChoicesFound ==
  ASSUME NEW m, m.arch \in {"x86_64", "aarch64", "wasm32", "other"}, NEW name
  PROVE  /\ Found(m, best_kernels(m))
         /\ kernels_named(m, name) = NoKernels \/ Found(m, kernels_named(m, name))
         /\ Found(m, nibble_kernels(m)) /\ nibble_kernels(m) # "gfni"
  <1>1. kernels(m) = NoKernels \/ Found(m, kernels(m))
    BY AtLevelFits DEF kernels, OrElse, neon, simd128, Found, NoKernels
  <1>2. kernels_nibble(m) = NoKernels \/ (Found(m, kernels_nibble(m)) /\ kernels_nibble(m) # "gfni")
    <2>1. CASE m.arch = "x86_64"
      BY <2>1 DEF kernels_nibble, kernels_at, OrElse, Found, NoKernels
    <2>2. CASE m.arch # "x86_64"
      BY <1>1, <2>2 DEF kernels_nibble, kernels, neon, simd128, NoKernels
    <2>3. QED
      BY <2>1, <2>2
  <1>3. Found(m, best_kernels(m))
    BY <1>1 DEF best_kernels, OrElse, Found
  <1>4. kernels_named(m, name) = NoKernels \/ Found(m, kernels_named(m, name))
    <2>1. \A level : kernels_at(m, level) = NoKernels \/ Found(m, kernels_at(m, level))
      BY AtLevelFits DEF Found
    <2>2. neon(m) = NoKernels \/ Found(m, neon(m))
      BY DEF neon, Found
    <2>3. simd128(m) = NoKernels \/ Found(m, simd128(m))
      BY DEF simd128, Found
    <2>4. Found(m, "scalar")
      BY DEF Found
    <2>5. QED
      BY <1>3, <2>1, <2>2, <2>3, <2>4 DEF kernels_named
  <1>5. Found(m, nibble_kernels(m)) /\ nibble_kernels(m) # "gfni"
    BY <1>2 DEF nibble_kernels, OrElse, Found
  <1>6. QED
    BY <1>3, <1>4, <1>5

(* The RAID pair.  "sse2" needs nothing an x86_64 lacks.                   *)
LEMMA RaidFits ==
  ASSUME NEW m, m.arch \in {"x86_64", "aarch64", "wasm32", "other"}, NEW i \in {1, 2}
  PROVE  Needs(raid_dispatch(m)[i]) \subseteq m.cpu
  <1>1. CASE m.accel /\ raid_kernels(m) # NoPair
    <2>1. CASE m.arch = "x86_64"
      <3>1. raid_kernels(m) \in {NoPair, <<"avx2", "gfni">>, <<"avx2", "avx2">>, <<"sse2", "sse2">>}
        BY <2>1 DEF raid_kernels, raid_kernels_at
      <3>2. raid_kernels(m) = <<"avx2", "gfni">> => {"gfni", "avx2"} \subseteq m.cpu
        BY <2>1 DEF raid_kernels, raid_kernels_at, NoPair, NoKernels
      <3>3. raid_kernels(m) = <<"avx2", "avx2">> => {"avx2"} \subseteq m.cpu
        BY <2>1 DEF raid_kernels, raid_kernels_at, NoPair, NoKernels
      <3>4. raid_dispatch(m) = raid_kernels(m)
        BY <1>1 DEF raid_dispatch
      <3>5. QED
        BY <1>1, <3>1, <3>2, <3>3, <3>4, NeedsAre
    <2>2. CASE m.arch = "aarch64"
      BY <1>1, <2>2, NeedsAre DEF raid_kernels, raid_dispatch
    <2>3. CASE m.arch = "wasm32"
      <3>1. raid_dispatch(m) = <<simd128(m), simd128(m)>> /\ simd128(m) # NoKernels
        BY <1>1, <2>3 DEF raid_kernels, raid_dispatch, NoPair
      <3>2. simd128(m) = "simd128" /\ "simd128" \in m.cpu
        BY <3>1 DEF simd128
      <3>3. QED
        BY <3>1, <3>2, NeedsAre
    <2>4. CASE m.arch = "other"
      BY <1>1, <2>4 DEF raid_kernels
    <2>5. QED
      BY <2>1, <2>2, <2>3, <2>4
  <1>2. CASE ~(m.accel /\ raid_kernels(m) # NoPair)
    BY <1>2, NeedsAre DEF raid_dispatch
  <1>3. QED
    BY <1>1, <1>2

(* What a name finds, the automatic choice finds too.                      *)
LEMMA AutoFinds ==
  ASSUME NEW m, m.arch \in {"x86_64", "aarch64", "wasm32", "other"},
         NEW name \in {"ssse3", "avx2", "gfni", "neon", "simd128"},
         kernels_named(m, name) # NoKernels
  PROVE  /\ best_kernels(m) # "scalar"
         /\ nibble_kernels(m) # "scalar"
         /\ "scalar" \notin {raid_dispatch(m)[1], raid_dispatch(m)[2]}
  <1>1. m.accel
    BY DEF kernels_named
  <1>2. CASE m.arch = "x86_64"
    <2>1. kernels_at(m, name) # NoKernels
      BY <1>1, <1>2 DEF kernels_named, neon, simd128, NoKernels
    <2>2. "ssse3" \in m.cpu \/ "avx2" \in m.cpu
      BY <2>1, AtLevelFits
    <2>3. /\ kernels_at(m, "avx2") \in {"avx2", NoKernels}
          /\ kernels_at(m, "ssse3") \in {"ssse3", NoKernels}
          /\ kernels_at(m, "gfni") \in {"gfni", NoKernels}
      BY <1>2 DEF kernels_at
    <2>4. kernels_at(m, "avx2") = "avx2" \/ kernels_at(m, "ssse3") = "ssse3"
      BY <1>2, <2>2 DEF kernels_at
    <2>5. best_kernels(m) # "scalar" /\ nibble_kernels(m) # "scalar"
      BY <1>1, <1>2, <2>3, <2>4 DEF best_kernels, nibble_kernels, kernels, kernels_nibble, OrElse,
         NoKernels
    <2>6. raid_kernels(m) \in {<<"avx2", "gfni">>, <<"avx2", "avx2">>, <<"sse2", "sse2">>}
      BY <1>2 DEF raid_kernels, raid_kernels_at
    <2>7. raid_dispatch(m) = raid_kernels(m)
      BY <1>1, <2>6 DEF raid_dispatch, NoPair, NoKernels
    <2>8. QED
      BY <2>5, <2>6, <2>7
  <1>3. CASE m.arch = "aarch64"
    BY <1>1, <1>3 DEF best_kernels, nibble_kernels, kernels, kernels_nibble, OrElse, neon,
       NoKernels, raid_dispatch, raid_kernels, NoPair
  <1>4. CASE m.arch = "wasm32"
    <2>1. simd128(m) = "simd128"
      BY <1>1, <1>4 DEF kernels_named, kernels_at, neon, simd128, NoKernels
    <2>2. best_kernels(m) # "scalar" /\ nibble_kernels(m) # "scalar"
      BY <1>1, <1>4, <2>1 DEF best_kernels, nibble_kernels, kernels, kernels_nibble, OrElse,
         NoKernels
    <2>3. raid_dispatch(m) = <<"simd128", "simd128">>
      BY <1>1, <1>4, <2>1 DEF raid_dispatch, raid_kernels, NoPair, NoKernels
    <2>4. QED
      BY <2>2, <2>3
  <1>5. CASE m.arch = "other"
    BY <1>1, <1>5 DEF kernels_named, kernels_at, neon, simd128, NoKernels
  <1>6. QED
    BY <1>2, <1>3, <1>4, <1>5

(* The machine is one of those, and so is what was found on it.            *)
SetInv ==
  /\ machine \in Machines
  /\ kern = NoKernels \/ Found(machine, kern)

(* On every machine, with whatever subset of the features its CPU shows:   *)
(* no kernel the process can come to run needs a feature the CPU lacks,    *)
(* the ISA-L layer never hands nibble tables to an affine kernel, and the  *)
(* automatic choice is as good as any name.                                *)
THEOREM DispatchFits == Spec => []SetsFit
  <1>1. Init => SetInv
    BY DEF Init, SetInv
  <1>2. SetInv /\ [Next]_vars => SetInv'
    <2> SUFFICES ASSUME SetInv, [Next]_vars PROVE SetInv'
      OBVIOUS
    <2>1. CASE Start
      <3>1. machine' = machine
        BY <2>1 DEF Start, Idle, Chosen
      <3>2. machine.arch \in {"x86_64", "aarch64", "wasm32", "other"}
        BY BoundAssumption DEF SetInv
      <3>3. kern' = NoKernels \/ Found(machine, kern')
        BY <2>1, <3>2, ChoicesFound DEF Start
      <3>4. QED
        BY <3>1, <3>3 DEF SetInv
    <2>2. CASE ~Start
      <3>1. UNCHANGED <<machine, kern>>
        BY <2>2 DEF Next, Main, Spawn, Begin, Finish, Join, Conclude, Load, Report, Work, Leave,
           Observe, GuestCall, Idle, Chosen, vars
      <3>2. QED
        BY <3>1 DEF SetInv
    <2>3. QED
      BY <2>1, <2>2
  <1>3. SetInv => SetsFit
    <2> SUFFICES ASSUME SetInv PROVE SetsFit
      OBVIOUS
    <2>1. machine.arch \in {"x86_64", "aarch64", "wasm32", "other"}
      BY BoundAssumption DEF SetInv
    <2>2. kern # NoKernels => Needs(kern) \subseteq machine.cpu
      BY FoundFits DEF SetInv
    <2>3. /\ Needs(nibble_kernels(machine)) \subseteq machine.cpu
          /\ ~Affine(nibble_kernels(machine))
      BY <2>1, ChoicesFound, FoundFits DEF Affine
    <2>4. \A i \in {1, 2} : Needs(raid_dispatch(machine)[i]) \subseteq machine.cpu
      BY <2>1, RaidFits
    <2>5. QED
      BY <2>1, <2>2, <2>3, <2>4, AutoFinds DEF SetsFit
  <1>4. QED
    BY <1>1, <1>2, <1>3, PTL DEF Spec
-----------------------------------------------------------------------------
(* Where the threads may be.  The main thread of a striped benchmark       *)
(* spawns and joins, any other calls and reports; nobody has called before *)
(* the start, nor the main thread of a striped benchmark ever.             *)
Control ==
  /\ pc = [t \in Thread |-> pc[t]]
  /\ made \in [Thread -> Nat]
  /\ pc[0] = "start" => kern = NoKernels /\ \A t \in Worker : pc[t] = "idle"
  /\ \A t \in Worker : pc[t] = "idle" => made[t] = 0
  /\ pc[0] \in {"start", "spawn", "join"} => made[0] = 0
  /\ Striped => pc[0] \in {"start", "spawn", "join", "done"}
  /\ ~Striped => pc[0] \notin {"spawn", "join"}
  /\ exit # "none" => pc[0] = "done"

LEMMA ThreadsAre ==
  /\ 0 \in Thread /\ 0 \notin Worker
  /\ \A t \in Worker : t \in Thread /\ t # 0 /\ t \in Nat
  /\ \A t \in Thread : t = 0 \/ t \in Worker
  BY BoundAssumption DEF Thread, Worker

LEMMA InitControl == Init => Control
  BY ThreadsAre, BoundAssumption DEF Init, Control, Thread, Worker

(* The main thread moves and no other does.                                *)
Moved(label) ==
  /\ pc' = [t \in Thread |-> pc'[t]]
  /\ pc'[0] = label
  /\ \A t \in Worker : pc'[t] = pc[t]

LEMMA MovedIs ==
  ASSUME Control, NEW label, pc' = [pc EXCEPT ![0] = label]
  PROVE  Moved(label)
  BY ThreadsAre DEF Control, Moved

LEMMA MainControl ==
  ASSUME Control, Start \/ Join \/ Conclude \/ Load \/ Report
  PROVE  Control'
  <1>1. UNCHANGED <<job, made>>
    BY DEF Start, Join, Conclude, Load, Report, Idle, Chosen
  <1>2. PICK label : pc' = [pc EXCEPT ![0] = label]
    BY DEF Start, Join, Conclude, Load, Report, Exit, Goto
  <1>3. Moved(label)
    BY <1>2, MovedIs
  <1>4. Striped' <=> Striped
    BY <1>1 DEF Striped
  <1>5. /\ label # "start"
        /\ label \in {"spawn", "join"} => pc[0] = "start" /\ Striped
        /\ Striped => label \in {"spawn", "done"}
        /\ exit' # "none" => label = "done"
    <2>1. CASE Start
      <3>1. \/ label = "done"
            \/ exit' = exit /\ label = IF Striped THEN "spawn" ELSE "call"
        BY <1>2, <1>3, <2>1, MovedIs DEF Start, Exit, Goto, Moved
      <3>2. exit = "none" /\ pc[0] = "start"
        BY <2>1 DEF Start, Control
      <3>3. QED
        BY <3>1, <3>2
    <2>2. CASE Join \/ Report
      <3>1. label = "done"
        BY <1>3, <2>2, MovedIs DEF Join, Report, Exit, Moved
      <3>2. QED
        BY <3>1
    <2>3. CASE Conclude \/ Load
      <3>1. ~Striped /\ exit = "none"
        BY <2>3 DEF Conclude, Load, Control
      <3>2. label = "done" \/ (label \in {"load", "load2", "report"} /\ exit' = exit)
        BY <1>3, <2>3, MovedIs DEF Conclude, Load, Exit, Goto, Moved
      <3>3. QED
        BY <3>1, <3>2
    <2>4. QED
      BY <2>1, <2>2, <2>3
  <1>6. QED
    BY <1>1, <1>3, <1>4, <1>5 DEF Control, Moved

LEMMA SpawnControl ==
  ASSUME Control, Spawn
  PROVE  Control'
  <1>1. UNCHANGED <<job, made, kern>> /\ pc[0] = "spawn" /\ Striped
    BY DEF Spawn, Idle, Chosen, Control
  <1>2. Striped'
    BY <1>1 DEF Striped
  <1>3. CASE \E label, code : label \in {"done", "join"} /\ pc' = [pc EXCEPT ![0] = label]
                              /\ (exit' = exit \/ label = "done")
    BY <1>1, <1>2, <1>3, MovedIs DEF Control, Moved
  <1>4. CASE exit' = exit /\ \E t \in Worker : pc' = [pc EXCEPT ![t] = "call"]
    BY <1>1, <1>2, <1>4, ThreadsAre DEF Control
  <1>5. QED
    BY <1>3, <1>4 DEF Spawn, Exit, Goto

LEMMA WorkControl ==
  ASSUME Control, NEW t \in Thread, Begin(t) \/ Finish(t) \/ Leave(t)
  PROVE  Control'
  <1>1. UNCHANGED <<job, kern, exit>> /\ pc[t] \in {"call", "inside"}
    BY DEF Begin, Finish, Leave, Idle, Chosen
  <1>2. Striped' <=> Striped
    BY <1>1 DEF Striped
  <1>3. PICK label : pc' = [pc EXCEPT ![t] = label] /\ label \in {"call", "inside", "done"}
                     /\ (t = 0 => label # "done")
    BY DEF Begin, Finish, Leave
  <1>4. made' \in [Thread -> Nat] /\ \A u \in Thread : u # t => made'[u] = made[u]
    BY DEF Begin, Finish, Leave, Idle, Control
  <1>5. CASE t = 0
    BY <1>1, <1>2, <1>3, <1>4, <1>5, ThreadsAre DEF Control
  <1>6. CASE t # 0
    BY <1>1, <1>2, <1>3, <1>4, <1>6, ThreadsAre DEF Control
  <1>7. QED
    BY <1>5, <1>6

LEMMA NextControl ==
  ASSUME Control, [Next]_vars
  PROVE  Control'
  <1>1. CASE Start \/ Join \/ Conclude \/ Load \/ Report
    BY <1>1, MainControl
  <1>2. CASE Spawn
    BY <1>2, SpawnControl
  <1>3. CASE Begin(0) \/ Finish(0)
    BY <1>3, ThreadsAre, WorkControl
  <1>4. ASSUME NEW t \in Worker, Work(t)
        PROVE  Control'
    BY <1>4, ThreadsAre, WorkControl DEF Work
  <1>5. CASE Observe \/ (\E buffers \in {"exact", "long"} : GuestCall(buffers)) \/ UNCHANGED vars
    BY <1>5 DEF Control, Striped, Observe, GuestCall, Chosen, vars
  <1>6. QED
    BY <1>1, <1>2, <1>3, <1>4, <1>5 DEF Next, Main

(* A step that calls nothing.                                              *)
Quiet ==
  /\ UNCHANGED <<machine, job, made, encoded, counts, guest>>
  /\ pc' = [t \in Thread |-> pc'[t]]
  /\ \A t \in Thread : pc'[t] = "inside" <=> pc[t] = "inside"

LEMMA StepIs ==
  ASSUME Control, [Next]_vars
  PROVE  \/ Quiet /\ (Start \/ UNCHANGED kern)
         \/ \E t \in Thread : Begin(t) \/ Finish(t)
         \/ \E buffers \in {"exact", "long"} : GuestCall(buffers)
  <1>1. CASE Start \/ Join \/ Conclude \/ Load \/ Report
    <2>1. UNCHANGED <<machine, job, made, encoded, counts, guest>> /\ (Start \/ UNCHANGED kern)
      BY <1>1 DEF Start, Join, Conclude, Load, LoadScalar, LoadAccel, Report, Idle, Chosen
    <2>2. PICK label : pc' = [pc EXCEPT ![0] = label] /\ label # "inside"
      BY <1>1 DEF Start, Join, Conclude, Load, Report, Exit, Goto
    <2>3. pc[0] # "inside"
      BY <1>1 DEF Start, Join, Conclude, Load, Report
    <2>4. Quiet
      BY <2>1, <2>2, <2>3, ThreadsAre DEF Quiet, Control
    <2>5. QED
      BY <2>1, <2>4
  <1>2. CASE Spawn
    <2>1. UNCHANGED <<machine, job, made, encoded, counts, guest>> /\ UNCHANGED kern
      BY <1>2 DEF Spawn, Idle, Chosen
    <2>2. PICK t, label : /\ pc' = [pc EXCEPT ![t] = label] /\ label # "inside"
                          /\ pc[t] # "inside"
      BY <1>2 DEF Spawn, Exit, Goto
    <2>3. Quiet
      BY <2>1, <2>2, ThreadsAre DEF Quiet, Control
    <2>4. QED
      BY <2>1, <2>3
  <1>3. ASSUME NEW t \in Worker, Leave(t)
        PROVE  Quiet /\ UNCHANGED kern
    BY <1>3, ThreadsAre DEF Leave, Idle, Chosen, Quiet, Control
  <1>4. CASE Observe \/ UNCHANGED vars
    BY <1>4 DEF Observe, LoadScalar, LoadAccel, Chosen, vars, Quiet, Control
  <1>5. QED
    BY <1>1, <1>2, <1>3, <1>4, ThreadsAre DEF Next, Main, Work
-----------------------------------------------------------------------------
(* The verdict of the census verb: what it rests on at each point.         *)
Verdict ==
  /\ job.verb = "census" /\ kern # "scalar" /\ counts["scalar"] > 0 => GuestCounted("scalar") > 0
  /\ exit = "1" => kern # "scalar" /\ seen["main"]["scalar"] > 0
  /\ exit = "0" /\ job.verb = "census" /\ kern # "scalar" => seen["main"]["scalar"] = 0

Judged == IInv /\ Control /\ Verdict

LEMMA InitJudged == Init => Judged
  <1> SUFFICES ASSUME Init PROVE Judged
    OBVIOUS
  <1>1. counts["scalar"] = 0
    BY DEF Init, Zero, Families
  <1>2. QED
    BY <1>1, InitIInv, InitControl DEF Init, Judged, Verdict

LEMMA NextJudged ==
  ASSUME Judged, [Next]_vars
  PROVE  Judged'
  <1>1. IInv' /\ Control'
    BY NextIInv, NextControl DEF Judged
  <1>2. UNCHANGED <<machine, job>>
    BY DEF Next, Main, Start, Spawn, Begin, Finish, Join, Conclude, Load, Report, Work, Leave,
       Observe, GuestCall, Idle, Chosen, vars
  <1>3. /\ counts \in Pairs /\ job \in Jobs /\ counts["scalar"] \in Nat
        /\ seen["main"]["scalar"] \in Nat
    BY DEF Judged, IInv, Shape, Pairs, Families, Readers
  <1>4. Control /\ Verdict
    BY DEF Judged
  <1>5. SUFFICES Verdict'
    BY <1>1 DEF Judged
  <1>6. CASE Start
    <2>1. /\ UNCHANGED <<counts, guest, seen>> /\ kern = NoKernels
          /\ exit = "none" /\ exit' \in {"2", "none"}
      BY <1>4, <1>6 DEF Start, Idle, Watching, Control, Exit, Goto
    <2>2. GuestCounted("scalar")' = GuestCounted("scalar")
      BY <1>2, <2>1 DEF GuestCounted
    <2>3. QED
      BY <1>2, <1>4, <2>1, <2>2 DEF Verdict, NoKernels
  <1>7. CASE Join \/ Spawn \/ Conclude
    <2>1. UNCHANGED <<counts, guest, seen, kern>> /\ exit = "none"
      BY <1>4, <1>7 DEF Join, Spawn, Conclude, Idle, Watching, Control
    <2>2. GuestCounted("scalar")' = GuestCounted("scalar")
      BY <1>2, <2>1 DEF GuestCounted
    <2>3. exit' # "1" /\ (exit' = "0" => job.verb # "census")
      BY <1>4, <1>7, <2>1 DEF Join, Spawn, Conclude, Control, Exit, Goto, Striped, BadOp
    <2>4. QED
      BY <1>2, <1>4, <2>1, <2>2, <2>3 DEF Verdict
  <1>8. CASE Load
    <2>1. UNCHANGED <<counts, guest, kern, exit>> /\ exit = "none"
      BY <1>4, <1>8 DEF Load, LoadScalar, LoadAccel, Control, Goto
    <2>2. GuestCounted("scalar")' = GuestCounted("scalar")
      BY <1>2, <2>1 DEF GuestCounted
    <2>3. QED
      BY <1>2, <1>4, <2>1, <2>2 DEF Verdict
  <1>9. CASE Report
    <2>1. UNCHANGED <<counts, guest, seen, kern>>
      BY <1>9 DEF Report, Idle, Watching
    <2>2. GuestCounted("scalar")' = GuestCounted("scalar")
      BY <1>2, <2>1 DEF GuestCounted
    <2>3. exit' = IF job.verb = "census" /\ defect THEN "1" ELSE "0"
      BY <1>9 DEF Report, Exit
    <2>4. QED
      BY <1>2, <1>3, <1>4, <2>1, <2>2, <2>3 DEF Verdict, defect
  <1>10. ASSUME NEW t \in Thread, Begin(t)
         PROVE  Verdict'
    <2>1. UNCHANGED <<guest, seen, kern, exit>>
      BY <1>10 DEF Begin, Watching
    <2>2. GuestCounted("scalar")' = GuestCounted("scalar")
      BY <1>2, <2>1 DEF GuestCounted
    <2>3. job.verb = "census" /\ kern # "scalar" => CallFamily(t, made[t]) = "accel"
      BY DEF CallFamily, Family
    <2>4. job.verb = "census" /\ kern # "scalar" => counts'["scalar"] = counts["scalar"]
      BY <1>3, <1>10, <2>3 DEF Begin, fetch_add, Pairs, Families
    <2>5. QED
      BY <1>2, <1>4, <2>1, <2>2, <2>4 DEF Verdict
  <1>11. ASSUME NEW t, Finish(t) \/ Leave(t)
         PROVE  Verdict'
    <2>1. UNCHANGED <<counts, guest, seen, kern, exit>>
      BY <1>11 DEF Finish, Leave, Idle, Watching
    <2>2. GuestCounted("scalar")' = GuestCounted("scalar")
      BY <1>2, <2>1 DEF GuestCounted
    <2>3. QED
      BY <1>2, <1>4, <2>1, <2>2 DEF Verdict
  <1>12. CASE Observe
    <2>1. UNCHANGED <<counts, guest, kern, exit>> /\ seen'["main"] = seen["main"]
      BY <1>12 DEF Observe, LoadScalar, LoadAccel, Judged, IInv, Shape, Readers
    <2>2. GuestCounted("scalar")' = GuestCounted("scalar")
      BY <1>2, <2>1 DEF GuestCounted
    <2>3. QED
      BY <1>2, <1>4, <2>1, <2>2 DEF Verdict
  <1>13. ASSUME NEW buffers \in {"exact", "long"}, GuestCall(buffers)
         PROVE  Verdict'
    <2> DEFINE F == IF buffers = "exact" THEN Family(nibble_kernels(machine)) ELSE "scalar"
    <2>1. UNCHANGED <<seen, kern, exit>> /\ guest = "idle" /\ guest' = buffers
      BY <1>13 DEF GuestCall, Watching
    <2>2. counts' = fetch_add(F, GuestBytes) /\ F \in Families /\ GuestBytes \in Nat
      BY <1>13, BoundAssumption DEF GuestCall, Family, Families
    <2>3. GuestCounted("scalar") = 0
      BY <2>1 DEF GuestCounted
    <2>4. GuestCounted("scalar")' = IF F = "scalar" THEN GuestBytes ELSE 0
      BY <1>2, <2>1 DEF GuestCounted
    <2> HIDE DEF F
    <2>5. counts'["scalar"] \in {counts["scalar"],
                                 counts["scalar"] + (IF F = "scalar" THEN GuestBytes ELSE 0)}
      BY <1>3, <2>2 DEF fetch_add, Pairs, Families
    <2>6. job.verb = "census" /\ kern # "scalar" => counts["scalar"] = 0
      BY <1>3, <1>4, <2>3 DEF Verdict
    <2>7. job.verb = "census" /\ kern # "scalar" /\ counts'["scalar"] > 0
            => GuestCounted("scalar")' > 0
      BY <2>2, <2>4, <2>5, <2>6
    <2>8. QED
      BY <1>2, <1>4, <2>1, <2>7 DEF Verdict
  <1>14. CASE UNCHANGED vars
    BY <1>4, <1>14 DEF vars, Verdict, GuestCounted
  <1>15. QED
    BY <1>6, <1>7, <1>8, <1>9, <1>10, <1>11, <1>12, <1>13, <1>14, ThreadsAre DEF Next, Main, Work

LEMMA JudgedIsReal == Judged => DefectIsReal
  <1> SUFFICES ASSUME Judged, job.verb = "census", pc[0] = "done"
      PROVE  /\ exit = "1" => kern # "scalar" /\ GuestCounted("scalar") > 0
             /\ exit = "0" /\ kern # "scalar" => before["main"]["scalar"] = 0
    BY DEF DefectIsReal
  <1>1. /\ seen["main"]["scalar"] \in Nat /\ before["main"]["scalar"] \in Nat
        /\ counts["scalar"] \in Nat
    BY DEF Judged, IInv, Shape, Pairs, Families, Readers
  <1>2. /\ seen["main"]["scalar"] <= counts["scalar"]
        /\ before["main"]["scalar"] <= seen["main"]["scalar"]
    BY DEF Judged, IInv, Bracketed, Reading, Families
  <1>3. QED
    BY <1>1, <1>2 DEF Judged, Verdict

(* Whatever an embedding application's calls put into the counters while   *)
(* the census verb runs, its exit code is true: DEFECT only of scalar      *)
(* bytes the verb did not cause, success only without any.                 *)
THEOREM DefectIsRealHolds == Spec => []DefectIsReal
  <1>1. Judged /\ [Next]_vars => Judged'
    BY NextJudged
  <1>2. QED
    BY InitJudged, <1>1, JudgedIsReal, PTL DEF Spec
-----------------------------------------------------------------------------
(* The terms of the sums: what a thread has added, per call, is a number.  *)
LEMMA Shares ==
  ASSUME job \in Jobs, NEW t, NEW i, NEW f
  PROVE  Share(t, i, f) \in Nat
  BY Bytes DEF Share

LEMMA BytesAre ==
  ASSUME job \in Jobs, NEW t \in Thread, made[t] \in Nat, NEW f
  PROVE  BytesBegun(t, f) \in Nat /\ Begun(t) \in Nat
  <1> DEFINE n == Begun(t)
             g == [i \in 0..(n - 1) |-> Share(t, i, f)]
  <1>1. n \in Nat
    BY DEF Begun
  <1> HIDE DEF n
  <1>2. IsFiniteSet(0..(n - 1))
    BY <1>1, FS_Interval
  <1>3. DOMAIN g = 0..(n - 1) /\ \A i \in 0..(n - 1) : g[i] \in Nat
    BY Shares
  <1> HIDE DEF g
  <1>4. SumFunction(g) \in Nat
    BY <1>2, <1>3, SumNat
  <1>5. QED
    BY <1>1, <1>4 DEF BytesBegun, g, n

(* A call begun adds its share to its thread's sum, and no other's.        *)
LEMMA BegunMore ==
  ASSUME job \in Jobs, NEW t \in Thread, made[t] \in Nat, NEW f,
         Begun(t)' = Begun(t) + 1, UNCHANGED <<machine, job, kern>>
  PROVE  BytesBegun(t, f)' = BytesBegun(t, f) + Share(t, Begun(t), f)
  <1> DEFINE n == Begun(t)
             g == [i \in 0..(n - 1) |-> Share(t, i, f)]
             h == [i \in 0..n |-> Share(t, i, f)]
  <1>1. n \in Nat /\ (n + 1) - 1 = n
    BY DEF Begun
  <1>2. \A i : Share(t, i, f)' = Share(t, i, f)
    BY DEF Share, CallFamily, CallBytes
  <1>3. BytesBegun(t, f)' = SumFunction(h)
    <2>1. BytesBegun(t, f)' = SumFunction([i \in 0..(Begun(t)' - 1) |-> Share(t, i, f)'])
      BY DEF BytesBegun
    <2>2. Begun(t)' - 1 = n
      BY <1>1
    <2>3. [i \in 0..(Begun(t)' - 1) |-> Share(t, i, f)'] = h
      BY <1>2, <2>2
    <2>4. QED
      BY <2>1, <2>3
  <1>4. BytesBegun(t, f) = SumFunction(g)
    BY DEF BytesBegun
  <1>5. Share(t, n, f) = h[n]
    BY <1>1
  <1> HIDE DEF n
  <1>6. IsFiniteSet(0..(n - 1))
    BY <1>1, FS_Interval
  <1>7. n \notin 0..(n - 1) /\ 0..n = (0..(n - 1)) \cup {n}
    BY <1>1
  <1>8. /\ \A i \in (0..(n - 1)) \cup {n} : h[i] \in Nat
        /\ \A i \in 0..(n - 1) : g[i] = h[i]
        /\ DOMAIN g = 0..(n - 1) /\ DOMAIN h = (0..(n - 1)) \cup {n}
    BY <1>1, <1>7, Shares
  <1> HIDE DEF g, h
  <1>9. SumFunction(h) = h[n] + SumFunction(g) /\ SumFunction(g) \in Nat
    <2> DEFINE R == 0..(n - 1)
    <2>1. /\ IsFiniteSet(R) /\ n \notin R /\ DOMAIN g = R /\ DOMAIN h = R \cup {n}
          /\ \A i \in R \cup {n} : h[i] \in Nat
          /\ \A i \in R : g[i] = h[i]
      BY <1>6, <1>7, <1>8
    <2> HIDE DEF R
    <2>2. QED
      BY <2>1, SumMore
  <1>10. h[n] \in Nat
    BY <1>8
  <1> DEFINE a == SumFunction(h)
             b == SumFunction(g)
             c == h[n]
  <1>11. a = c + b /\ b \in Nat /\ c \in Nat
    BY <1>9, <1>10
  <1> HIDE DEF a, b, c
  <1>12. a = b + c
    BY <1>11
  <1>13. QED
    BY <1>3, <1>4, <1>5, <1>12 DEF a, b, c, n

LEMMA BegunSame ==
  ASSUME NEW t, NEW f, Begun(t)' = Begun(t),
         UNCHANGED <<machine, job>> /\ (UNCHANGED kern \/ Begun(t) = 0)
  PROVE  BytesBegun(t, f)' = BytesBegun(t, f)
  <1>1. BytesBegun(t, f)' = SumFunction([i \in 0..(Begun(t)' - 1) |-> Share(t, i, f)'])
    BY DEF BytesBegun
  <1>2. [i \in 0..(Begun(t)' - 1) |-> Share(t, i, f)']
          = [i \in 0..(Begun(t) - 1) |-> Share(t, i, f)]
    <2>1. CASE UNCHANGED kern
      <3>1. \A i : Share(t, i, f)' = Share(t, i, f)
        BY <2>1 DEF Share, CallFamily, CallBytes
      <3>2. QED
        BY <3>1
    <2>2. CASE Begun(t) = 0
      <3>1. 0..(Begun(t)' - 1) = {} /\ 0..(Begun(t) - 1) = {}
        BY <2>2
      <3>2. QED
        BY <3>1
    <2>3. QED
      BY <2>1, <2>2
  <1>3. QED
    BY <1>1, <1>2 DEF BytesBegun

(* What all threads have added.                                            *)
Total(f) == SumFunction([t \in Thread |-> BytesBegun(t, f)])

LEMMA ThreadFinite == IsFiniteSet(Thread)
  <1>1. 0 \in Int /\ MaxWorkers \in Int
    BY BoundAssumption
  <1>2. QED
    BY <1>1, FS_Interval DEF Thread

(* What CountsExact rests on.                                              *)
Exact == /\ job \in Jobs /\ counts \in Pairs /\ Control /\ CountsExact

LEMMA TotalSame ==
  ASSUME NEW f, \A t \in Thread : BytesBegun(t, f)' = BytesBegun(t, f)
  PROVE  Total(f)' = Total(f)
  BY DEF Total

LEMMA TotalMore ==
  ASSUME job \in Jobs, NEW f, NEW t \in Thread, NEW d \in Nat,
         \A u \in Thread : made[u] \in Nat,
         \A u \in Thread \ {t} : BytesBegun(u, f)' = BytesBegun(u, f),
         BytesBegun(t, f)' = BytesBegun(t, f) + d
  PROVE  Total(f)' = Total(f) + d
  <1> DEFINE g == [u \in Thread |-> BytesBegun(u, f)]
             h == [u \in Thread |-> BytesBegun(u, f)']
  <1>1. Total(f) = SumFunction(g) /\ Total(f)' = SumFunction(h)
    BY DEF Total
  <1>2. \A u \in Thread : BytesBegun(u, f) \in Nat
    BY BytesAre
  <1>3. BytesBegun(t, f) + d \in Nat
    BY <1>2
  <1>4. \A u \in Thread : g[u] \in Nat /\ h[u] \in Nat
    BY <1>2, <1>3
  <1>5. /\ DOMAIN g = Thread /\ DOMAIN h = Thread
        /\ \A u \in Thread \ {t} : g[u] = h[u]
        /\ h[t] = g[t] + d
    OBVIOUS
  <1> HIDE DEF g, h
  <1>6. SumFunction(h) = SumFunction(g) + d
    BY <1>4, <1>5, ThreadFinite, SumChanged
  <1>7. QED
    BY <1>1, <1>6

LEMMA TotalIs ==
  ASSUME job \in Jobs, \A u \in Thread : made[u] \in Nat, NEW f
  PROVE  Total(f) \in Nat
  <1> DEFINE g == [u \in Thread |-> BytesBegun(u, f)]
  <1>1. DOMAIN g = Thread /\ \A u \in Thread : g[u] \in Nat
    BY BytesAre
  <1> HIDE DEF g
  <1>2. SumFunction(g) \in Nat
    BY <1>1, ThreadFinite, SumNat
  <1>3. QED
    BY <1>2 DEF Total, g

LEMMA InitExact == Init => Exact
  <1> SUFFICES ASSUME Init PROVE Exact
    OBVIOUS
  <1>1. job \in Jobs /\ counts \in Pairs /\ Control
    BY InitControl DEF Init, Pairs, Zero, Families
  <1>2. ASSUME NEW f \in Families PROVE Total(f) = 0 /\ counts[f] = 0 /\ GuestCounted(f) = 0
    <2>1. ASSUME NEW t \in Thread PROVE BytesBegun(t, f) = 0
      <3>1. Begun(t) = 0
        BY DEF Init, Begun
      <3> DEFINE g == [i \in 0..(Begun(t) - 1) |-> Share(t, i, f)]
      <3>2. DOMAIN g = {} /\ IsFiniteSet({})
        BY <3>1, FS_EmptySet
      <3>3. \A i \in {} : g[i] = 0
        OBVIOUS
      <3>4. BytesBegun(t, f) = SumFunction(g)
        BY DEF BytesBegun
      <3> HIDE DEF g
      <3>5. QED
        BY <3>2, <3>3, <3>4, SumZero
    <2> DEFINE h == [t \in Thread |-> BytesBegun(t, f)]
    <2>2. DOMAIN h = Thread /\ \A t \in Thread : h[t] = 0
      BY <2>1
    <2>3. Total(f) = SumFunction(h)
      BY DEF Total
    <2> HIDE DEF h
    <2>4. Total(f) = 0
      BY <2>2, <2>3, ThreadFinite, SumZero
    <2>5. QED
      BY <2>4 DEF Init, Zero, GuestCounted
  <1>3. CountsExact
    <2>1. \A f \in Families :
            counts[f] = IF ~machine.live THEN 0 ELSE GuestCounted(f) + Total(f)
      BY <1>2
    <2>2. QED
      BY <2>1 DEF CountsExact, Total
  <1>4. QED
    BY <1>1, <1>3 DEF Exact

LEMMA NextExact ==
  ASSUME Exact, [Next]_vars
  PROVE  Exact'
  <1>1. Control'
    BY NextControl DEF Exact
  <1>2. UNCHANGED <<machine, job>>
    BY DEF Next, Main, Start, Spawn, Begin, Finish, Join, Conclude, Load, Report, Work, Leave,
       Observe, GuestCall, Idle, Chosen, vars
  <1>3. /\ \A u \in Thread : made[u] \in Nat
        /\ \A f \in Families : counts[f] \in Nat
        /\ job \in Jobs /\ counts \in Pairs
    BY DEF Exact, Control, Pairs
  <1>4. \A f \in Families :
          counts[f] = IF ~machine.live THEN 0 ELSE GuestCounted(f) + Total(f)
    BY DEF Exact, CountsExact, Total
  <1>5. \A f \in Families : Total(f) \in Nat /\ GuestCounted(f) \in Nat
    BY <1>3, TotalIs, BoundAssumption DEF GuestCounted
  <1> DEFINE Goal == /\ counts' \in Pairs
                     /\ \A f \in Families :
                          counts'[f] = IF ~machine.live THEN 0
                                       ELSE GuestCounted(f)' + Total(f)'
  <1>6. SUFFICES Goal
    BY <1>1, <1>2, <1>3 DEF Exact, CountsExact, Total
  <1>7. CASE Quiet /\ (Start \/ UNCHANGED kern)
    <2>1. \A t \in Thread : Begun(t)' = Begun(t)
      BY <1>7 DEF Begun, Quiet
    <2>2. \A t \in Thread : Begun(t) = 0 \/ UNCHANGED kern
      <3>1. ASSUME Start, NEW t \in Thread PROVE Begun(t) = 0
        <4>1. pc[t] # "inside" /\ made[t] = 0
          BY <3>1, ThreadsAre DEF Start, Exact, Control
        <4>2. QED
          BY <4>1 DEF Begun
      <3>2. QED
        BY <1>7, <3>1
    <2>3. \A f : \A t \in Thread : BytesBegun(t, f)' = BytesBegun(t, f)
      BY <1>2, <2>1, <2>2, BegunSame
    <2>4. \A f : Total(f)' = Total(f)
      BY <2>3, TotalSame
    <2>5. \A f : GuestCounted(f)' = GuestCounted(f)
      BY <1>2, <1>7 DEF Quiet, GuestCounted
    <2>6. counts' = counts
      BY <1>7 DEF Quiet
    <2> HIDE DEF Total
    <2>7. QED
      BY <1>3, <1>4, <2>4, <2>5, <2>6
  <1>8. ASSUME NEW t \in Thread, Finish(t)
        PROVE  Goal
    <2>1. \A u \in Thread : Begun(u)' = Begun(u)
      <3>1. \A u \in Thread : u # t => pc'[u] = pc[u] /\ made'[u] = made[u]
        BY <1>8 DEF Finish, Exact, Control
      <3>2. pc'[t] = "call" /\ made'[t] = made[t] + 1 /\ pc[t] = "inside"
        BY <1>8 DEF Finish, Exact, Control
      <3>3. QED
        BY <1>3, <3>1, <3>2 DEF Begun
    <2>2. UNCHANGED <<kern, counts, guest>>
      BY <1>8 DEF Finish
    <2>3. \A f : \A u \in Thread : BytesBegun(u, f)' = BytesBegun(u, f)
      BY <1>2, <2>1, <2>2, BegunSame
    <2>4. \A f : Total(f)' = Total(f)
      BY <2>3, TotalSame
    <2>5. \A f : GuestCounted(f)' = GuestCounted(f)
      BY <1>2, <2>2 DEF GuestCounted
    <2>6. QED
      BY <1>3, <1>4, <2>2, <2>4, <2>5
  <1>9. ASSUME NEW t \in Thread, Begin(t)
        PROVE  Goal
    <2>1. \A u \in Thread \ {t} : Begun(u)' = Begun(u)
      BY <1>9 DEF Begin, Begun, Exact, Control
    <2>2. Begun(t) = made[t] /\ Begun(t)' = Begun(t) + 1
      BY <1>3, <1>9 DEF Begin, Begun, Exact, Control
    <2>3. UNCHANGED <<kern, guest>>
      BY <1>9 DEF Begin
    <2>4. counts' = fetch_add(CallFamily(t, made[t]), CallBytes(t, made[t]))
      BY <1>9 DEF Begin
    <2> DEFINE F == CallFamily(t, made[t])
               N == CallBytes(t, made[t])
    <2>5. F \in Families /\ N \in Nat
      BY <1>3, Bytes
    <2>6. counts' \in Pairs
      <3>1. Grown
        BY <1>3, <2>4, <2>5, AddGrows
      <3>2. QED
        BY <3>1 DEF Grown
    <2>7. ASSUME NEW f \in Families
          PROVE  counts'[f] = IF ~machine.live THEN 0 ELSE GuestCounted(f)' + Total(f)'
      <3> DEFINE d == Share(t, made[t], f)
      <3>1. d \in Nat /\ d = IF F = f THEN N ELSE 0
        BY <1>3, Shares DEF Share
      <3>2. BytesBegun(t, f)' = BytesBegun(t, f) + d
        BY <1>2, <1>3, <2>2, <2>3, BegunMore
      <3>3. \A u \in Thread \ {t} : BytesBegun(u, f)' = BytesBegun(u, f)
        BY <1>2, <2>1, <2>3, BegunSame
      <3> HIDE DEF d, F, N
      <3>4. Total(f)' = Total(f) + d
        BY <1>3, <3>1, <3>2, <3>3, TotalMore
      <3>5. GuestCounted(f)' = GuestCounted(f)
        BY <1>2, <2>3 DEF GuestCounted
      <3>6. counts' = IF machine.live THEN [counts EXCEPT ![F] = @ + N] ELSE counts
        BY <2>4 DEF fetch_add, F, N
      <3>7. counts'[f] = IF machine.live THEN counts[f] + d ELSE counts[f]
        BY <1>3, <2>5, <3>1, <3>6 DEF Pairs
      <3> DEFINE a == counts[f]
                 b == Total(f)
                 c == GuestCounted(f)
      <3>8. a \in Nat /\ b \in Nat /\ c \in Nat /\ a = IF ~machine.live THEN 0 ELSE c + b
        BY <1>3, <1>4, <1>5
      <3> HIDE DEF a, b, c
      <3>9. (IF machine.live THEN a + d ELSE a) = IF ~machine.live THEN 0 ELSE c + (b + d)
        BY <3>1, <3>8
      <3>10. QED
        BY <3>4, <3>5, <3>7, <3>9 DEF a, b, c
    <2>8. QED
      BY <2>6, <2>7
  <1>10. ASSUME NEW buffers \in {"exact", "long"}, GuestCall(buffers)
         PROVE  Goal
    <2> DEFINE F == IF buffers = "exact" THEN Family(nibble_kernels(machine)) ELSE "scalar"
    <2>1. UNCHANGED <<kern, made, pc>> /\ guest = "idle" /\ guest' = buffers
      BY <1>10 DEF GuestCall
    <2>2. counts' = fetch_add(F, GuestBytes) /\ F \in Families /\ GuestBytes \in Nat
      BY <1>10, BoundAssumption DEF GuestCall, Family, Families
    <2>3. counts' \in Pairs
      <3>1. Grown
        BY <1>3, <2>2, AddGrows
      <3>2. QED
        BY <3>1 DEF Grown
    <2>4. \A u \in Thread : Begun(u)' = Begun(u)
      BY <2>1 DEF Begun
    <2>5. \A f : \A u \in Thread : BytesBegun(u, f)' = BytesBegun(u, f)
      BY <1>2, <2>1, <2>4, BegunSame
    <2>6. ASSUME NEW f \in Families
          PROVE  counts'[f] = IF ~machine.live THEN 0 ELSE GuestCounted(f)' + Total(f)'
      <3>1. Total(f)' = Total(f)
        BY <2>5, TotalSame
      <3>2. GuestCounted(f) = 0
        BY <2>1 DEF GuestCounted
      <3>3. GuestCounted(f)' = IF f = F THEN GuestBytes ELSE 0
        BY <1>2, <2>1 DEF GuestCounted
      <3> HIDE DEF F
      <3>4. counts'[f] = IF machine.live THEN counts[f] + (IF f = F THEN GuestBytes ELSE 0)
                         ELSE counts[f]
        BY <1>3, <2>2 DEF fetch_add, Pairs
      <3> DEFINE a == counts[f]
                 b == Total(f)
                 d == IF f = F THEN GuestBytes ELSE 0
      <3>5. a \in Nat /\ b \in Nat /\ d \in Nat /\ a = IF ~machine.live THEN 0 ELSE 0 + b
        BY <1>3, <1>4, <1>5, <2>2, <3>2
      <3> HIDE DEF a, b, d
      <3>6. (IF machine.live THEN a + d ELSE a) = IF ~machine.live THEN 0 ELSE d + b
        BY <3>5
      <3>7. QED
        BY <3>1, <3>3, <3>4, <3>6 DEF a, b, d
    <2>7. QED
      BY <2>3, <2>6
  <1>11. QED
    BY <1>7, <1>8, <1>9, <1>10, StepIs DEF Exact

(* However many threads begin calls, in whatever order: no relaxed add is  *)
(* lost and none goes to the other family, so each counter is at all times *)
(* the sum of the bytes of the calls begun on its kernels.                 *)
THEOREM CountsExactHolds == Spec => []CountsExact
  <1>1. Exact /\ [Next]_vars => Exact'
    BY NextExact
  <1>2. Exact => CountsExact
    BY DEF Exact
  <1>3. QED
    BY InitExact, <1>1, <1>2, PTL DEF Spec
-----------------------------------------------------------------------------
(* The workers the job asks for; they have room for its stripes.           *)
Team == Max({1, job.threads})

LEMMA PerFacts ==
  ASSUME job \in Jobs
  PROVE  /\ Team \in 1..MaxWorkers /\ per \in Nat
         /\ job.stripes <= per * Team
         /\ job.stripes \in Nat /\ job.reps \in Nat
         /\ per = 0 => job.stripes = 0
  <1>1. /\ job.stripes \in Nat /\ job.reps \in Nat /\ job.threads \in 0..MaxWorkers
        /\ MaxWorkers \in Nat \ {0}
    BY BoundAssumption
  <1>2. Team \in 1..MaxWorkers
    <2>1. CASE job.threads <= 1
      <3>1. 1 \in {1, job.threads} /\ \A y \in {1, job.threads} : 1 >= y
        BY <1>1, <2>1
      <3>2. \A x \in {1, job.threads} : (\A y \in {1, job.threads} : x >= y) => x = 1
        BY <1>1, <2>1
      <3>3. Team = 1
        BY <3>1, <3>2 DEF Team, Max
      <3>4. QED
        BY <1>1, <3>3
    <2>2. CASE job.threads > 1
      <3>1. job.threads \in {1, job.threads} /\ \A y \in {1, job.threads} : job.threads >= y
        BY <1>1, <2>2
      <3>2. \A x \in {1, job.threads} : (\A y \in {1, job.threads} : x >= y) => x = job.threads
        BY <1>1, <2>2
      <3>3. Team = job.threads
        BY <3>1, <3>2 DEF Team, Max
      <3>4. QED
        BY <1>1, <2>2, <3>3
    <2>3. QED
      BY <1>1, <2>1, <2>2
  <1>3. Team \in Nat \ {0}
    BY <1>1, <1>2
  <1> DEFINE a == job.stripes + Team - 1
             q == a \div Team
             r == a % Team
  <1>4. per = q
    BY DEF per, Team
  <1>5. a \in Nat
    BY <1>1, <1>3
  <1> HIDE DEF a
  <1>6. q \in Nat /\ r \in Nat /\ r < Team /\ a = Team * q + r
    BY <1>3, <1>5
  <1> HIDE DEF q, r
  <1>7. Team * q = q * Team /\ q * Team \in Nat
    BY <1>3, <1>6
  <1>8. job.stripes <= q * Team
    BY <1>1, <1>3, <1>6, <1>7 DEF a
  <1>9. q = 0 => job.stripes = 0
    BY <1>1, <1>3, <1>8
  <1>10. QED
    BY <1>1, <1>2, <1>4, <1>6, <1>8, <1>9

(* The stripes of worker t are an interval.                                *)
First(t) == (t - 1) * per
Beyond(t) == IF t * per < job.stripes THEN t * per ELSE job.stripes

LEMMA Quotient ==
  ASSUME NEW a \in Nat, NEW b \in Nat \ {0}
  PROVE  /\ a \div b \in Nat /\ a % b \in Nat /\ a % b < b
         /\ a = b * (a \div b) + (a % b)
  OBVIOUS

LEMMA Grows ==
  ASSUME NEW a \in Nat, NEW b \in Nat, NEW c \in Nat, a <= b
  PROVE  a * c <= b * c /\ a * c \in Nat /\ b * c \in Nat
  <1>1. PICK d \in Nat : b = a + d
    <2>1. b - a \in Nat /\ b = a + (b - a)
      OBVIOUS
    <2>2. QED
      BY <2>1
  <1>2. a * c \in Nat /\ b * c \in Nat /\ d * c \in Nat /\ b * c = a * c + d * c
    BY <1>1
  <1>3. QED
    BY <1>2

LEMMA ChunkIs ==
  ASSUME job \in Jobs, DOMAIN encoded = 0..(job.stripes - 1), NEW t \in Worker
  PROVE  /\ Chunk(t) = First(t)..(Beyond(t) - 1)
         /\ First(t) \in Nat /\ Beyond(t) \in Nat
         /\ Cardinality(Chunk(t)) \in Nat
         /\ Chunk(t) # {} => Cardinality(Chunk(t)) = Beyond(t) - First(t)
         /\ Chunk(t) = {} => Cardinality(Chunk(t)) = 0
  <1>1. /\ t \in Nat /\ t - 1 \in Nat /\ per \in Nat /\ job.stripes \in Nat
    BY PerFacts, BoundAssumption DEF Worker
  <1> DEFINE a == (t - 1) * per
             b == t * per
  <1>2. a \in Nat /\ b \in Nat
    BY <1>1
  <1>3. Chunk(t) = {s \in 0..(job.stripes - 1) : a <= s /\ s < b}
    BY DEF Chunk
  <1>4. First(t) = a /\ Beyond(t) = IF b < job.stripes THEN b ELSE job.stripes
    BY DEF First, Beyond
  <1> HIDE DEF a, b
  <1>5. Chunk(t) = First(t)..(Beyond(t) - 1)
    BY <1>1, <1>2, <1>3, <1>4
  <1>6. First(t) \in Nat /\ Beyond(t) \in Nat
    BY <1>1, <1>2, <1>4
  <1> DEFINE f == First(t)
             b1 == Beyond(t) - 1
             n == Cardinality(Chunk(t))
  <1>8. f \in Int /\ f >= 0 /\ b1 \in Int /\ Chunk(t) = f..b1 /\ Beyond(t) = b1 + 1
    BY <1>5, <1>6
  <1> HIDE DEF f, b1
  <1>9. n = IF f > b1 THEN 0 ELSE b1 - f + 1
    <2>1. Cardinality(f..b1) = IF f > b1 THEN 0 ELSE b1 - f + 1
      BY <1>8, FS_Interval
    <2>2. QED
      BY <1>8, <2>1
  <1>10. Chunk(t) # {} <=> f <= b1
    <2>1. f <= b1 => f \in f..b1
      BY <1>8
    <2>2. \A s \in f..b1 : f <= b1
      BY <1>8
    <2>3. QED
      BY <1>8, <2>1, <2>2
  <1> HIDE DEF n
  <1>11. /\ n \in Nat
         /\ Chunk(t) # {} => n = (b1 + 1) - f
         /\ Chunk(t) = {} => n = 0
    BY <1>8, <1>9, <1>10
  <1>12. QED
    BY <1>5, <1>6, <1>8, <1>11 DEF f, n

(* No stripe belongs to two workers, and the team's workers have them all. *)
LEMMA ChunksDisjoint ==
  ASSUME job \in Jobs, DOMAIN encoded = 0..(job.stripes - 1),
         NEW t \in Worker, NEW u \in Worker, NEW s \in Chunk(t) \cap Chunk(u)
  PROVE  t = u
  <1>1. t \in Nat /\ u \in Nat /\ t - 1 \in Nat /\ u - 1 \in Nat /\ per \in Nat
    BY PerFacts, BoundAssumption DEF Worker
  <1> DEFINE a == (t - 1) * per
             b == t * per
             c == (u - 1) * per
             d == u * per
  <1>2. a <= s /\ s < b /\ c <= s /\ s < d /\ s \in 0..(job.stripes - 1)
    BY DEF Chunk
  <1>3. a \in Nat /\ b \in Nat /\ c \in Nat /\ d \in Nat /\ s \in Int
    BY <1>1, <1>2
  <1>7. (t < u => b <= c) /\ (u < t => d <= a)
    <2>1. CASE t < u
      BY <1>1, <2>1, Grows
    <2>2. CASE u < t
      BY <1>1, <2>2, Grows
    <2>3. QED
      BY <1>1, <2>1, <2>2
  <1> HIDE DEF a, b, c, d
  <1>4. ~(t < u)
    BY <1>2, <1>3, <1>7
  <1>5. ~(u < t)
    BY <1>2, <1>3, <1>7
  <1>6. QED
    BY <1>1, <1>4, <1>5

LEMMA ChunkInTeam ==
  ASSUME job \in Jobs, DOMAIN encoded = 0..(job.stripes - 1), NEW t \in Worker, Chunk(t) # {}
  PROVE  t <= Team
  <1>1. /\ t \in Nat /\ t - 1 \in Nat /\ per \in Nat /\ Team \in Nat
        /\ job.stripes \in Nat /\ job.stripes <= per * Team
    BY PerFacts, BoundAssumption DEF Worker
  <1>2. (t - 1) * per < job.stripes /\ (t - 1) * per \in Nat
    BY <1>1, ChunkIs DEF First, Beyond
  <1>3. SUFFICES ASSUME Team <= t - 1 PROVE FALSE
    BY <1>1
  <1>4. Team * per <= (t - 1) * per /\ Team * per = per * Team /\ Team * per \in Nat
    BY <1>1, <1>3, Grows
  <1>5. QED
    BY <1>1, <1>2, <1>4

LEMMA ChunkFound ==
  ASSUME job \in Jobs, DOMAIN encoded = 0..(job.stripes - 1), NEW s \in DOMAIN encoded
  PROVE  \E t \in Worker : s \in Chunk(t)
  <1>1. /\ per \in Nat /\ Team \in 1..MaxWorkers /\ MaxWorkers \in Nat /\ Team \in Nat
        /\ job.stripes \in Nat /\ job.stripes <= per * Team
        /\ s \in Nat /\ s < job.stripes
    BY PerFacts, BoundAssumption
  <1>2. per # 0
    BY <1>1, PerFacts
  <1> DEFINE q == s \div per
  <1>3. q \in Nat /\ s = per * q + (s % per) /\ s % per \in Nat /\ s % per < per
    BY <1>1, <1>2, Quotient
  <1> DEFINE r == s % per
  <1> HIDE DEF q, r
  <1>4. per * q = q * per /\ q * per \in Nat /\ (q + 1) * per = q * per + per
    BY <1>1, <1>3
  <1>5. q * per <= s /\ s < (q + 1) * per
    <2> DEFINE x == q * per
               y == (q + 1) * per
    <2>1. x \in Nat /\ y = x + per /\ s = x + r /\ r \in Nat /\ r < per /\ per \in Nat
      BY <1>1, <1>3, <1>4 DEF r
    <2> HIDE DEF x, y
    <2>2. x <= s /\ s < y
      BY <2>1
    <2>3. QED
      BY <2>2 DEF x, y
  <1>6. q < Team
    <2>1. SUFFICES ASSUME Team <= q PROVE FALSE
      BY <1>1, <1>3
    <2>2. Team * per <= q * per /\ Team * per = per * Team /\ Team * per \in Nat
      BY <1>1, <1>3, <2>1, Grows
    <2>3. QED
      BY <1>1, <1>4, <1>5, <2>2
  <1>7. q + 1 \in Worker /\ (q + 1) - 1 = q
    BY <1>1, <1>3, <1>6 DEF Worker
  <1>8. s \in Chunk(q + 1)
    BY <1>5, <1>7 DEF Chunk
  <1>9. QED
    BY <1>7, <1>8

(* What m calls in a row make of the stripe at place j, each stripe taking *)
(* r of them.                                                              *)
Progress(m, j, r) == IF m <= j * r THEN 0 ELSE IF m >= (j + 1) * r THEN r ELSE m - j * r

LEMMA ProgressStep ==
  ASSUME NEW m \in Nat, NEW r \in Nat \ {0}, NEW i \in Nat
  PROVE  Progress(m + 1, i, r) = Progress(m, i, r) + (IF i = m \div r THEN 1 ELSE 0)
  <1> DEFINE j == m \div r
  <1>1. j \in Nat /\ m = r * j + (m % r) /\ m % r \in Nat /\ m % r < r
    OBVIOUS
  <1>2. i = m \div r <=> i = j
    OBVIOUS
  <1> HIDE DEF j
  <1>3. /\ r * j = j * r /\ j * r \in Nat /\ (j + 1) * r = j * r + r
        /\ i * r \in Nat /\ (i + 1) * r = i * r + r
    BY <1>1
  <1>4. j * r <= m /\ m < j * r + r
    BY <1>1, <1>3
  <1>5. CASE i = j
    BY <1>2, <1>3, <1>4, <1>5 DEF Progress
  <1>6. CASE i < j
    <2>1. (i + 1) * r <= j * r
      BY <1>1, <1>6, Grows
    <2>2. ~(m <= i * r) /\ m >= (i + 1) * r
      BY <1>3, <1>4, <2>1
    <2>3. ~(m + 1 <= i * r) /\ m + 1 >= (i + 1) * r
      BY <1>3, <2>2
    <2>4. QED
      BY <1>2, <1>6, <2>2, <2>3, <1>1 DEF Progress
  <1>7. CASE j < i
    <2>1. (j + 1) * r <= i * r
      BY <1>1, <1>7, Grows
    <2>2. m <= i * r /\ m + 1 <= i * r
      BY <1>3, <1>4, <2>1
    <2>3. QED
      BY <1>1, <1>2, <1>7, <2>2 DEF Progress
  <1>8. QED
    BY <1>1, <1>5, <1>6, <1>7

LEMMA PlaceOf ==
  ASSUME NEW m \in Nat, NEW r \in Nat, NEW c \in Nat, m < c * r
  PROVE  r # 0 /\ m \div r \in 0..(c - 1)
  <1>1. r # 0
    OBVIOUS
  <1> DEFINE j == m \div r
  <1>2. j \in Nat /\ m = r * j + (m % r) /\ m % r \in Nat
    BY <1>1
  <1> HIDE DEF j
  <1>3. SUFFICES ASSUME c <= j PROVE FALSE
    BY <1>1, <1>2 DEF j
  <1>4. c * r <= j * r /\ j * r = r * j /\ r * j \in Nat /\ c * r \in Nat
    BY <1>2, <1>3, Grows
  <1>5. QED
    BY <1>2, <1>4

LEMMA ProgressEnds ==
  ASSUME NEW r \in Nat, NEW j \in Nat, NEW c \in Nat
  PROVE  /\ Progress(0, j, r) = 0
         /\ j < c => Progress(c * r, j, r) = r
  <1>1. j * r \in Nat /\ (j + 1) * r = j * r + r /\ c * r \in Nat
    OBVIOUS
  <1>2. j < c => (j + 1) * r <= c * r
    BY Grows
  <1>3. QED
    BY <1>1, <1>2 DEF Progress
-----------------------------------------------------------------------------
(* The work of the striped benchmark: each stripe of a worker's chunk has  *)
(* been encoded as often as the calls it has made say.                     *)
Counted(t) ==
  /\ pc[t] \in {"idle", "call", "inside", "done"}
  /\ pc[t] # "idle" => Chunk(t) # {}
  /\ made[t] <= Calls(t)
  /\ pc[t] = "inside" => made[t] < Calls(t)
  /\ pc[t] = "done" => made[t] = Calls(t)
  /\ \A s \in Chunk(t) : encoded[s] = Progress(made[t], s - First(t), job.reps)

Division ==
  /\ job \in Jobs
  /\ encoded = [s \in 0..(job.stripes - 1) |-> encoded[s]]
  /\ Control
  /\ \A t \in Worker : Counted(t)
  /\ pc[0] = "join" \/ (Striped /\ exit = "0")
       => \A t \in Worker : pc[t] = "idle" => Chunk(t) = {}
  /\ Striped /\ exit = "0" => \A t \in Worker : pc[t] \in {"idle", "done"}
  /\ exit = "panic" => per = 0

LEMMA ChunkPlaces ==
  ASSUME job \in Jobs, DOMAIN encoded = 0..(job.stripes - 1), NEW t \in Worker, NEW s \in Chunk(t)
  PROVE  /\ s - First(t) \in Nat /\ s - First(t) < Cardinality(Chunk(t))
         /\ s = First(t) + (s - First(t))
  <1>1. /\ Chunk(t) = First(t)..(Beyond(t) - 1) /\ First(t) \in Nat /\ Beyond(t) \in Nat
        /\ Cardinality(Chunk(t)) = Beyond(t) - First(t)
    BY ChunkIs
  <1>2. s \in First(t)..(Beyond(t) - 1)
    BY <1>1
  <1>3. QED
    BY <1>1, <1>2

LEMMA CallsAre ==
  ASSUME job \in Jobs, DOMAIN encoded = 0..(job.stripes - 1), NEW t \in Worker
  PROVE  Calls(t) = Cardinality(Chunk(t)) * job.reps /\ Calls(t) \in Nat /\ job.reps \in Nat
         /\ Cardinality(Chunk(t)) \in Nat
  <1>1. Calls(t) = Cardinality(Chunk(t)) * job.reps
    BY ThreadsAre DEF Calls
  <1>2. job.reps \in Nat /\ Cardinality(Chunk(t)) \in Nat
    BY PerFacts, ChunkIs
  <1>3. QED
    BY <1>1, <1>2

LEMMA InitDivision == Init => Division
  <1> SUFFICES ASSUME Init PROVE Division
    OBVIOUS
  <1>1. job \in Jobs /\ encoded = [s \in 0..(job.stripes - 1) |-> 0] /\ exit = "none"
    BY DEF Init
  <1>2. DOMAIN encoded = 0..(job.stripes - 1)
    BY <1>1
  <1>3. Control
    BY InitControl
  <1>4. ASSUME NEW t \in Worker PROVE Counted(t)
    <2>1. pc[t] = "idle" /\ made[t] = 0
      BY ThreadsAre DEF Init
    <2>2. made[t] <= Calls(t)
      BY <1>1, <1>2, <2>1, CallsAre
    <2>3. ASSUME NEW s \in Chunk(t)
          PROVE  encoded[s] = Progress(made[t], s - First(t), job.reps)
      <3>1. encoded[s] = 0
        BY <1>1 DEF Chunk
      <3>2. s - First(t) \in Nat /\ job.reps \in Nat
        BY <1>1, <1>2, ChunkPlaces, CallsAre
      <3>3. Progress(0, s - First(t), job.reps) = 0
        BY <3>2, ProgressEnds
      <3>4. QED
        BY <2>1, <3>1, <3>3
    <2>4. QED
      BY <2>1, <2>2, <2>3 DEF Counted
  <1>5. pc[0] = "start"
    BY ThreadsAre DEF Init
  <1>6. QED
    BY <1>1, <1>3, <1>4, <1>5 DEF Division

LEMMA ChunkKept ==
  ASSUME NEW t, UNCHANGED job, DOMAIN encoded' = DOMAIN encoded
  PROVE  Chunk(t)' = Chunk(t) /\ per' = per /\ First(t)' = First(t)
         /\ (Striped' <=> Striped) /\ (t # 0 => Calls(t)' = Calls(t))
  BY DEF Chunk, per, First, Striped, Calls

(* A worker that neither moves nor works keeps its account.                *)
LEMMA CountedKept ==
  ASSUME Division, NEW t \in Worker, UNCHANGED job, DOMAIN encoded' = DOMAIN encoded,
         \A s \in Chunk(t) : encoded'[s] = encoded[s], made'[t] = made[t],
         \/ pc'[t] = pc[t]
         \/ pc[t] = "idle" /\ pc'[t] = "call" /\ Chunk(t) # {}
         \/ pc'[t] = "done" /\ pc[t] = "call" /\ made[t] = Calls(t)
         \/ pc'[t] = "inside" /\ pc[t] = "call" /\ made[t] < Calls(t)
  PROVE  Counted(t)'
  <1>1. Counted(t)
    BY DEF Division
  <1>2. Chunk(t)' = Chunk(t) /\ First(t)' = First(t) /\ Calls(t)' = Calls(t)
    BY ChunkKept, ThreadsAre
  <1>3. \A s \in Chunk(t)' : encoded'[s] = Progress(made[t]', s - First(t)', job'.reps)
    BY <1>1, <1>2 DEF Counted
  <1>4. QED
    BY <1>1, <1>2, <1>3 DEF Counted

(* A call of a worker returns: one of its stripes is done once more.       *)
LEMMA FinishCounts ==
  ASSUME Division, NEW t \in Worker, Finish(t)
  PROVE  /\ encoded' = [s \in 0..(job.stripes - 1) |-> encoded'[s]]
         /\ \A u \in Worker : Counted(u)'
  <1>1. /\ job \in Jobs /\ DOMAIN encoded = 0..(job.stripes - 1) /\ made \in [Thread -> Nat]
        /\ pc = [u \in Thread |-> pc[u]]
    BY DEF Division, Control
  <1>2. UNCHANGED job /\ pc[t] = "inside" /\ t # 0 /\ t \in Thread
    BY ThreadsAre DEF Finish, Chosen
  <1> DEFINE j == made[t] \div job.reps
             x == (t - 1) * per + j
  <1>3. encoded' = [encoded EXCEPT ![x] = @ + 1]
    BY <1>2 DEF Finish
  <1>4. pc'[t] = "call" /\ made'[t] = made[t] + 1 /\ made[t] \in Nat
        /\ \A u \in Worker : u # t => pc'[u] = pc[u] /\ made'[u] = made[u]
    BY <1>1, <1>2, ThreadsAre DEF Finish
  <1>5. made[t] < Cardinality(Chunk(t)) * job.reps /\ job.reps \in Nat
        /\ Cardinality(Chunk(t)) \in Nat
    BY <1>1, <1>2, CallsAre DEF Division, Counted
  <1>6. job.reps # 0 /\ j \in 0..(Cardinality(Chunk(t)) - 1)
    BY <1>4, <1>5, PlaceOf
  <1>7. x = First(t) + j
    BY DEF First
  <1> HIDE DEF x
  <1>8. DOMAIN encoded' = DOMAIN encoded
    BY <1>3
  <1>9. x \in Chunk(t)
    <2>1. Chunk(t) # {}
      BY <1>2 DEF Division, Counted
    <2> DEFINE f == First(t)
               b == Beyond(t)
               n == Cardinality(Chunk(t))
    <2>2. Chunk(t) = f..(b - 1) /\ f \in Nat /\ b \in Nat /\ n = b - f
      BY <1>1, <2>1, ChunkIs
    <2>3. x = f + j /\ j \in 0..(n - 1)
      BY <1>6, <1>7
    <2> HIDE DEF f, b, n, j
    <2>4. x \in f..(b - 1)
      BY <2>2, <2>3
    <2>5. QED
      BY <2>2, <2>4
  <1>10. encoded' = [s \in 0..(job.stripes - 1) |-> encoded'[s]]
    BY <1>3 DEF Division
  <1>11. ASSUME NEW u \in Worker, u # t
         PROVE  Counted(u)'
    <2>1. x \notin Chunk(u)
      BY <1>1, <1>9, <1>11, ChunksDisjoint
    <2>2. \A s \in Chunk(u) : encoded'[s] = encoded[s]
      BY <1>3, <2>1 DEF Chunk
    <2>3. QED
      BY <1>2, <1>4, <1>8, <1>11, <2>2, CountedKept
  <1>12. Counted(t)'
    <2>1. Chunk(t)' = Chunk(t) /\ First(t)' = First(t) /\ Calls(t)' = Calls(t)
      BY <1>2, <1>8, ChunkKept
    <2>2. made[t] + 1 <= Calls(t) /\ Calls(t) \in Nat
      BY <1>1, <1>4, <1>5, CallsAre
    <2>3. ASSUME NEW s \in Chunk(t)
          PROVE  encoded'[s] = Progress(made[t] + 1, s - First(t), job.reps)
      <3> DEFINE i == s - First(t)
      <3>1. i \in Nat /\ s = First(t) + i
        BY <1>1, ChunkPlaces
      <3>2. encoded[s] = Progress(made[t], i, job.reps)
        BY DEF Division, Counted
      <3>3. Progress(made[t] + 1, i, job.reps)
              = Progress(made[t], i, job.reps) + (IF i = j THEN 1 ELSE 0)
        BY <1>4, <1>5, <1>6, <3>1, ProgressStep
      <3>4. s = x <=> i = j
        <4>1. First(t) \in Nat /\ j \in Int
          BY <1>1, <1>6, ChunkIs
        <4> HIDE DEF i, j
        <4>2. QED
          BY <1>7, <3>1, <4>1
      <3>5. encoded'[s] = IF s = x THEN encoded[s] + 1 ELSE encoded[s]
        BY <1>3 DEF Chunk
      <3>6. Progress(made[t], i, job.reps) \in Int
        <4>1. i * job.reps \in Nat
          BY <1>5, <3>1
        <4>2. QED
          BY <1>4, <1>5, <4>1 DEF Progress
      <3> HIDE DEF i, j
      <3>7. QED
        BY <3>2, <3>3, <3>4, <3>5, <3>6 DEF i
    <2>4. Chunk(t) # {}
      BY <1>9
    <2>5. /\ pc'[t] \in {"idle", "call", "inside", "done"} /\ pc'[t] # "inside" /\ pc'[t] # "done"
          /\ made'[t] <= Calls(t)'
          /\ \A s \in Chunk(t)' : encoded'[s] = Progress(made'[t], s - First(t)', job'.reps)
      BY <1>2, <1>4, <2>1, <2>2, <2>3
    <2>6. QED
      BY <2>1, <2>4, <2>5 DEF Counted
  <1>13. QED
    BY <1>10, <1>11, <1>12

LEMMA NextDivision ==
  ASSUME Division, [Next]_vars
  PROVE  Division'
  <1>1. Control' /\ Control
    BY NextControl DEF Division
  <1>2. UNCHANGED <<machine, job>> /\ job \in Jobs
    BY DEF Next, Main, Start, Spawn, Begin, Finish, Join, Conclude, Load, Report, Work, Leave,
       Observe, GuestCall, Idle, Chosen, vars, Division
  <1>3. encoded = [s \in 0..(job.stripes - 1) |-> encoded[s]]
        /\ DOMAIN encoded = 0..(job.stripes - 1)
    BY DEF Division
  <1>4. ASSUME UNCHANGED encoded
        PROVE  /\ per' = per /\ (Striped' <=> Striped)
               /\ \A t \in Worker : Chunk(t)' = Chunk(t)
    BY <1>2, <1>4, ChunkKept
  <1>5. CASE Start \/ Conclude \/ Load \/ Report
    <2>1. UNCHANGED <<made, encoded>>
      BY <1>5 DEF Start, Conclude, Load, Report, Idle
    <2>2. PICK label : pc' = [pc EXCEPT ![0] = label] /\ label # "join"
      BY <1>5 DEF Start, Conclude, Load, Report, Exit, Goto
    <2>3. Moved(label)
      BY <1>1, <2>2, MovedIs
    <2>4. \A t \in Worker : Counted(t)'
      BY <1>2, <2>1, <2>3, CountedKept DEF Moved
    <2>5. (exit' = "0" => ~Striped) /\ exit' # "panic"
      BY <1>1, <1>5 DEF Start, Conclude, Load, Report, Exit, Goto, Control
    <2>6. pc'[0] # "join"
      BY <2>2, <2>3 DEF Moved
    <2>7. QED
      BY <1>1, <1>2, <1>3, <1>4, <2>1, <2>4, <2>5, <2>6 DEF Division
  <1>6. CASE Join
    <2>1. UNCHANGED <<made, encoded>> /\ exit' = "0" /\ pc' = [pc EXCEPT ![0] = "done"]
          /\ pc[0] = "join" /\ \A t \in Worker : pc[t] \in {"idle", "done"}
      BY <1>6 DEF Join, Idle, Exit
    <2>2. Moved("done")
      BY <1>1, <2>1, MovedIs
    <2>3. \A t \in Worker : Counted(t)'
      BY <1>2, <2>1, <2>2, CountedKept DEF Moved
    <2>4. \A t \in Worker : pc'[t] = "idle" => Chunk(t)' = {}
      BY <1>4, <2>1, <2>2 DEF Division, Moved
    <2>5. \A t \in Worker : pc'[t] \in {"idle", "done"}
      BY <2>1, <2>2 DEF Moved
    <2>6. QED
      BY <1>1, <1>2, <1>3, <2>1, <2>3, <2>4, <2>5 DEF Division
  <1>7. CASE Spawn
    <2>1. UNCHANGED <<made, encoded, kern>> /\ pc[0] = "spawn" /\ exit = "none"
      BY <1>1, <1>7 DEF Spawn, Idle, Control
    <2>2. CASE per = 0 /\ Exit("panic")
      <3>1. Moved("done") /\ exit' = "panic"
        BY <1>1, <2>2, MovedIs DEF Exit
      <3>2. \A t \in Worker : Counted(t)'
        BY <1>2, <2>1, <3>1, CountedKept DEF Moved
      <3>3. QED
        BY <1>1, <1>2, <1>3, <1>4, <2>1, <2>2, <3>1, <3>2 DEF Division, Moved
    <2>3. ASSUME NEW t \in Worker, pc[t] = "idle", Chunk(t) # {},
                 pc' = [pc EXCEPT ![t] = "call"], UNCHANGED exit
          PROVE  Division'
      <3>1. pc'[0] = pc[0] /\ pc'[t] = "call" /\ \A u \in Worker : u # t => pc'[u] = pc[u]
        BY <1>1, <2>3, ThreadsAre DEF Control
      <3>2. \A u \in Worker : Counted(u)'
        <4>1. \A u \in Worker : u # t => Counted(u)'
          BY <1>2, <2>1, <3>1, CountedKept
        <4>2. Counted(t)'
          BY <1>2, <2>1, <2>3, <3>1, CountedKept
        <4>3. QED
          BY <4>1, <4>2
      <3>3. QED
        BY <1>1, <1>2, <1>3, <2>1, <2>3, <3>1, <3>2 DEF Division
    <2>4. CASE (\A t \in Worker : pc[t] = "idle" => Chunk(t) = {}) /\ Goto("join")
      <3>1. Moved("join") /\ UNCHANGED exit
        BY <1>1, <2>4, MovedIs DEF Goto
      <3>2. \A t \in Worker : Counted(t)'
        BY <1>2, <2>1, <3>1, CountedKept DEF Moved
      <3>3. \A t \in Worker : pc'[t] = "idle" => Chunk(t)' = {}
        BY <1>4, <2>1, <2>4, <3>1 DEF Moved
      <3>4. QED
        BY <1>1, <1>2, <1>3, <2>1, <3>1, <3>2, <3>3 DEF Division
    <2>5. QED
      BY <1>7, <2>2, <2>3, <2>4 DEF Spawn
  <1>8. ASSUME NEW t \in Worker, Work(t)
        PROVE  Division'
    <2>1. UNCHANGED exit /\ pc[t] \in {"call", "inside"}
      BY <1>8 DEF Work, Begin, Finish, Leave, Idle
    <2>2. PICK label : pc' = [pc EXCEPT ![t] = label] /\ label # "idle"
      BY <1>8 DEF Work, Begin, Finish, Leave
    <2>3. pc'[0] = pc[0] /\ pc'[t] = label /\ \A u \in Worker : u # t => pc'[u] = pc[u]
      BY <1>1, <2>2, ThreadsAre DEF Control
    <2>4. encoded' = [s \in 0..(job.stripes - 1) |-> encoded'[s]] /\ \A u \in Worker : Counted(u)'
      <3>1. CASE Finish(t)
        BY <3>1, FinishCounts
      <3>2. CASE Begin(t) \/ Leave(t)
        <4>1. UNCHANGED <<made, encoded>>
          BY <3>2 DEF Begin, Leave, Idle
        <4>2. \/ label = "done" /\ pc[t] = "call" /\ made[t] = Calls(t)
              \/ label = "inside" /\ pc[t] = "call" /\ made[t] < Calls(t)
          BY <1>1, <2>2, <2>3, <3>2, ThreadsAre DEF Begin, Leave, Control
        <4>3. \A u \in Worker : u # t => Counted(u)'
          BY <1>2, <2>3, <4>1, CountedKept
        <4>4. Counted(t)'
          BY <1>2, <2>3, <4>1, <4>2, CountedKept
        <4>5. QED
          BY <1>3, <4>1, <4>3, <4>4
      <3>3. QED
        BY <1>8, <3>1, <3>2 DEF Work
    <2>5. DOMAIN encoded' = DOMAIN encoded
      BY <1>3, <2>4
    <2>6. /\ per' = per /\ (Striped' <=> Striped)
          /\ \A u \in Worker : Chunk(u)' = Chunk(u)
      BY <1>2, <2>5, ChunkKept
    <2>7. ~(Striped /\ exit = "0")
      BY <2>1 DEF Division
    <2>8. \A u \in Worker : pc'[u] = "idle" => pc[u] = "idle"
      BY <2>2, <2>3
    <2>9. QED
      BY <1>1, <1>2, <2>1, <2>3, <2>4, <2>6, <2>7, <2>8 DEF Division
  <1>9. CASE Begin(0) \/ Finish(0) \/ Observe \/ UNCHANGED vars
             \/ \E buffers \in {"exact", "long"} : GuestCall(buffers)
    <2>1. UNCHANGED <<encoded, exit>>
      BY <1>9 DEF Begin, Finish, Observe, GuestCall, vars
    <2>2. \A t \in Worker : pc'[t] = pc[t] /\ made'[t] = made[t]
      BY <1>1, <1>9, ThreadsAre DEF Begin, Finish, Observe, GuestCall, vars, Control
    <2>3. pc'[0] = "join" => pc[0] = "join"
      BY <1>1, <1>9, ThreadsAre DEF Begin, Finish, Observe, GuestCall, vars, Control
    <2>4. \A t \in Worker : Counted(t)'
      BY <1>2, <2>1, <2>2, CountedKept
    <2>5. QED
      BY <1>1, <1>2, <1>3, <1>4, <2>1, <2>2, <2>3, <2>4 DEF Division
  <1>10. QED
    BY <1>5, <1>6, <1>7, <1>8, <1>9 DEF Next, Main

LEMMA DivisionServes == Division => StripesOnce
  <1> SUFFICES ASSUME Division, Striped
      PROVE  /\ \A t \in Worker : pc[t] # "idle" => t <= Max({1, job.threads})
             /\ \A s \in DOMAIN encoded : \A t, u \in Worker :
                  {t, u} \subseteq {w \in Worker : pc[w] # "idle"} /\ s \in Chunk(t) \cap Chunk(u)
                    => t = u
             /\ exit = "0" => \A s \in DOMAIN encoded : encoded[s] = job.reps
             /\ exit = "panic" => job.stripes = 0
    BY DEF StripesOnce
  <1>1. job \in Jobs /\ DOMAIN encoded = 0..(job.stripes - 1) /\ \A t \in Worker : Counted(t)
    BY DEF Division
  <1>2. \A t \in Worker : pc[t] # "idle" => t <= Max({1, job.threads})
    BY <1>1, ChunkInTeam DEF Team, Counted
  <1>3. \A s \in DOMAIN encoded : \A t, u \in Worker : s \in Chunk(t) \cap Chunk(u) => t = u
    BY <1>1, ChunksDisjoint
  <1>4. ASSUME exit = "0", NEW s \in DOMAIN encoded
        PROVE  encoded[s] = job.reps
    <2>1. PICK t \in Worker : s \in Chunk(t)
      BY <1>1, ChunkFound
    <2>2. pc[t] = "done"
      BY <1>4, <2>1 DEF Division
    <2>3. made[t] = Cardinality(Chunk(t)) * job.reps /\ job.reps \in Nat
          /\ Cardinality(Chunk(t)) \in Nat
      BY <1>1, <2>2, CallsAre DEF Counted
    <2>4. s - First(t) \in Nat /\ s - First(t) < Cardinality(Chunk(t))
      BY <1>1, <2>1, ChunkPlaces
    <2>5. Progress(Cardinality(Chunk(t)) * job.reps, s - First(t), job.reps) = job.reps
      BY <2>3, <2>4, ProgressEnds
    <2>6. QED
      BY <1>1, <2>1, <2>3, <2>5 DEF Counted
  <1>5. exit = "panic" => job.stripes = 0
    BY <1>1, PerFacts DEF Division
  <1>6. QED
    BY <1>2, <1>3, <1>4, <1>5

(* For any numbers of stripes, threads and repetitions: chunks_mut gives   *)
(* each stripe to exactly one worker, at most --threads of them start, and *)
(* the scope ends only after each stripe was encoded --reps times.         *)
THEOREM StripesOnceHolds == Spec => []StripesOnce
  <1>1. Division /\ [Next]_vars => Division'
    BY NextDivision
  <1>2. QED
    BY InitDivision, <1>1, DivisionServes, PTL DEF Spec

=============================================================================
