----------------------------- MODULE MCRaidFold -----------------------------
(* Every word for the last source, whose lanes are doubled most often; one *)
(* word, with both lanes' top bits set, for the others.                    *)
EXTENDS RaidFold

CONSTANT Other

MCInputs == {[i \in 0..Last |-> IF i = Last THEN w ELSE Other] : w \in Word}

=============================================================================
