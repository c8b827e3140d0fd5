-------------------------- MODULE MCAsyncInductive --------------------------
(* The inductive invariant and the refinement, on an instance for TLC.     *)
EXTENDS AsyncFunctionsProofs, TLC

\* Blocks are interchangeable, and neither tells them apart.
Symmetry == Permutations(Blocks)

=============================================================================
