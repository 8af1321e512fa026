-------------------------- MODULE MCModelLifecycle --------------------------
(* A small instance of ModelLifecycle for TLC.  Worker processes, tasks    *)
(* and samples are interchangeable, and no property is temporal.           *)
EXTENDS ModelLifecycle

Symmetry == Permutations(Process) \union Permutations(Task) \union Permutations(Sample)
=============================================================================
