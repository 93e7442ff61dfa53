----------------------------- MODULE MCRecovery -----------------------------
(* Stripes, rebuild lists and buffer shapes of the runs.                   *)
EXTENDS Recovery, Sequences

Compat      == reed_solomon_erasure_matrix(K, P).ok
Cauchy      == cauchy(K, P).ok
Vandermonde == reed_solomon(K, P).ok

(* Stripes of no byte and of one byte.                                     *)
Bytes(b) == [q \in {0} |-> b]
Message(first, others) ==
  [i \in Upto(K) |-> Bytes(IF i = 0 THEN first ELSE others)]
EmptyMessage == [i \in Upto(K) |-> [q \in {} |-> {}]]
FewMessages  == {Message({0}, {1}), Message({0, 1}, {}), EmptyMessage}
TwoMessages  == {Message({0}, {1}), Message({0, 1}, {0})}

List(s) == [i \in Upto(Len(s)) |-> s[i + 1]]

(* Rebuild lists: nothing, a source, a parity shard with a source, and one *)
(* out of range.                                                           *)
SomeLists == {List(<<>>), List(<<0>>), List(<<K, 1>>), List(<<N>>)}
NonEmptyLists == SomeLists \ {List(<<>>)}

SomeShapes == {List(<<>>), List(<<1>>), List(<<0>>), List(<<1, 1>>), List(<<1, 0>>)}
FullShapes == {List(<<>>), List(<<1>>), List(<<1, 1>>)}

=============================================================================
