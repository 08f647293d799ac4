--------------------------- MODULE MCWorktreeApply ---------------------------
(* Two processes, two candidates of a group, two files.                    *)
EXTENDS WorktreeApply, TLC

Symmetry == Permutations(Procs) \cup Permutations(Trees)
==============================================================================
