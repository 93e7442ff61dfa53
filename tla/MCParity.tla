------------------------------ MODULE MCParity ------------------------------
(* The coder of a run: a construction, its dimensions and its kernel set.  *)
EXTENDS Parity

CONSTANTS Sourced, Redundant, Values

CauchyCoder == with_kernels(cauchy(Sourced, Redundant).ok, Scalar).ok
OneByte      == [Upto(1) -> Values]
UpToOneByte  == [Upto(0) -> Values] \cup OneByte

=============================================================================
