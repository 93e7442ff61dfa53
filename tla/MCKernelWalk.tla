---------------------------- MODULE MCKernelWalk ----------------------------
(* The calls of the run: well formed ones of every shape, and smaller ones *)
(* that break the contract by one byte of a length or by one table.        *)
EXTENDS KernelWalk

CONSTANTS
  Ks, RowCounts, Lengths,                (* the well formed calls' shapes  *)
  SlipKs, SlipRowCounts, SlipLengths     (* the others'                    *)

Shape(op, affine, k, i, rows, len, slip, tables) ==
  LET used == IF op = "encode" THEN 0..(k - 1) ELSE {i}
  IN  [op |-> op, affine |-> affine, k |-> k, i |-> i, rows |-> rows,
       srcLen |-> [j \in used |-> IF slip[1] = j THEN len + slip[2] ELSE len],
       outLen |-> [l \in 0..(rows - 1) |->
                     IF slip[1] = -2 /\ l = 1 THEN len + slip[2] ELSE len],
       tables |-> tables]

Shapes(ks, rowCounts, lengths, slips, shortages) ==
  {Shape("encode", affine, k, 0, rows, len, s, rows * k - t) :
     affine \in BOOLEAN, k \in ks, rows \in rowCounts, len \in lengths,
     s \in slips, t \in shortages}
  \cup
  {Shape("update", affine, k, i, rows, len, s, rows * k - t) :
     affine \in BOOLEAN, k \in ks, i \in {0, 1}, rows \in rowCounts,
     len \in lengths, s \in slips, t \in shortages}
  \cup
  {Shape("mad", affine, 1, 0, 1, len, s, 1 - t) :
     affine \in BOOLEAN, len \in lengths, s \in slips, t \in shortages}

NoSlip == <<-1, 0>>
Slips == {NoSlip} \cup ({-2, 0, 1} \X {-1, 1})

AllCalls ==
  {c \in Shapes(Ks, RowCounts, Lengths, {NoSlip}, {0})
            \cup Shapes(SlipKs, SlipRowCounts, SlipLengths, Slips, {0, 1}) :
     c.tables >= 0}

=============================================================================
