------------------------ MODULE MCConnectionCounters ------------------------
(* Model values and symmetry for checking ConnectionCounters.              *)
EXTENDS ConnectionCounters, TLC

UpdaterSymmetry == Permutations(Updaters)
=============================================================================
