------------------------------- MODULE MCRaid -------------------------------
(* Stripes of the run: one of zeros, one whose bytes differ.               *)
EXTENDS Raid

Zeros  == [i \in SourceIds |-> [x \in Position |-> {}]]
Spread == [i \in SourceIds |-> [x \in Position |-> IF i = x % N THEN {0} ELSE {1}]]

MCStarts == {Zeros, Spread}

=============================================================================
