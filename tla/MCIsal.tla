------------------------------- MODULE MCIsal -------------------------------
(* Buffers of a run: sources of two and three bytes.                       *)
EXTENDS Isal

Two   == [q \in Upto(2) |-> IF q = 0 THEN {0} ELSE {}]
Three == [q \in Upto(3) |-> IF q = 1 THEN {} ELSE {0}]

TwoOrThree == {Two, Three}

(* Lists of K buffers and one of K - 1.                                    *)
SomeLists == {[j \in Upto(K) |-> Two],
              [j \in Upto(K) |-> IF j = 0 THEN Three ELSE Two],
              [j \in Upto(K - 1) |-> Two]}

(* Room for all tables and rows of three bytes; or for one table less and  *)
(* rows of two.                                                            *)
TwoShapes == {<<K * P, 3>>, <<K * P - 1, 2>>}

NibbleSimd == Kernels("nibble", TRUE)

=============================================================================
