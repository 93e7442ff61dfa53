---------------------------- MODULE MCInversion ----------------------------
(* The matrices of the run, on the code's own field.  3 x 3 matrices over  *)
(* its subfield of four elements, every second coefficient 0 or 1: among   *)
(* them are all of 0s and 1s, with every pattern of zero pivots and every  *)
(* rank, and pivots that have to be scaled.  And the encode matrices at    *)
(* the edge of the safe region for four and five sources, with the first   *)
(* ones outside it.                                                        *)
EXTENDS Inversion

Bit01 == {{}, {0}}

Row(r) ==
  {v \in [Upto(3) -> Scalars] : \A c \in Upto(3) : (r + c) % 2 = 0 => v[c] \in Bit01}

MCInputs ==
  {[r \in Upto(3) |-> CASE r = 0 -> a [] r = 1 -> b [] r = 2 -> c] :
     a \in Row(0), b \in Row(1), c \in Row(2)}

EdgeShapes == {<<4, 21>>, <<4, 22>>, <<5, 5>>, <<5, 6>>}

(* What the proof about the safe region asks of the field.                 *)
ASSUME NodesHaveGaps == Gaps(21)

=============================================================================
