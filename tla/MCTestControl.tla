--------------------------- MODULE MCTestControl ---------------------------
(* Instances of TestControl for TLC. *)
EXTENDS TestControl, TLC

\* API requests are interchangeable.
RequestSymmetry == Permutations(Requests)
=============================================================================
