-------------------------- MODULE MCAsyncFunctions --------------------------
(* Instances of AsyncFunctions for TLC.                                    *)
EXTENDS AsyncFunctions, TLC

\* Blocks are interchangeable, and no property tells them apart.
Symmetry == Permutations(Blocks)


=============================================================================
