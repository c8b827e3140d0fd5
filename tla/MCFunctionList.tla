--------------------------- MODULE MCFunctionList ---------------------------
(* Instances of FunctionList for TLC.                                      *)
EXTENDS FunctionList, TLC

\* The holder of the blocks is one of the threads, so only blocks are permuted.
Symmetry == Permutations(Blocks)

=============================================================================
