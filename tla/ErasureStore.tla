---------------------------- MODULE ErasureStore ----------------------------
(***************************************************************************)
(* What the recovery path promises a client, with no field, matrix, table  *)
(* or plan in it: a stripe of shards, some of which are lost; asked to     *)
(* rebuild shards, the coder either refuses or returns exactly the shards  *)
(* that were written, and what is put back in a slot is what was there.    *)
(***************************************************************************)
EXTENDS Integers

CONSTANTS
  Written,   (* the stripes a client may write: functions on the slots     *)
  Targets,   (* the lists of slots a client may ask for                    *)
  Missing,   (* a slot with no shard                                       *)
  Refused    (* no answer                                                  *)

VARIABLES
  value,     (* the stripe as it was written                               *)
  held,      (* what is left of it: each slot its shard, or Missing        *)
  answer     (* the shards last rebuilt, or Refused                        *)

storeVars == <<value, held, answer>>

Init ==
  /\ value \in Written
  /\ held = value
  /\ answer = Refused

(* A shard is lost; nothing else changes.                                  *)
Lose ==
  /\ \E i \in DOMAIN held : held' = [held EXCEPT ![i] = Missing]
  /\ UNCHANGED value
  /\ answer' = Refused

(* Another stripe with the same slots missing.                             *)
Switch ==
  /\ value' \in Written
  /\ held' = [i \in DOMAIN held |->
                IF held[i] = Missing THEN Missing ELSE value'[i]]
  /\ answer' = Refused

(* A rebuild: the truth, or no answer.                                     *)
Rebuild ==
  /\ \/ answer' = Refused
     \/ \E wanted \in Targets :
          answer' = [r \in DOMAIN wanted |-> value[wanted[r]]]
  /\ UNCHANGED <<value, held>>

(* Rebuilt shards go back into their slots.                                *)
Restore ==
  /\ \E wanted \in Targets :
       held' = [i \in DOMAIN held |->
                  IF \E r \in DOMAIN wanted : wanted[r] = i
                  THEN value[i] ELSE held[i]]
  /\ answer' = Refused
  /\ UNCHANGED value

Next == Lose \/ Switch \/ Rebuild \/ Restore

Spec == Init /\ [][Next]_storeVars

=============================================================================
