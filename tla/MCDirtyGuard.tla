----------------------------- MODULE MCDirtyGuard -----------------------------
(* Model values of DirtyGuard; the two files are interchangeable.          *)
EXTENDS DirtyGuard, TLC

CONSTANTS f1, f2

TwoFiles == {f1, f2}
BothTools == {"write", "bash"}
WriteOnly == {"write"}

\* Nothing, a write, a revert, a commit; a write that is committed, and one that
\* is committed and taken back.
SixOutcomes ==
  {[disk |-> d, git |-> "git"] : d \in {"disk", "own", "git"}}
  \cup {[disk |-> "disk", git |-> g] : g \in {"disk", "own"}}
  \cup {[disk |-> "own", git |-> "own"]}

FileSymmetry == Permutations(TwoFiles)
=============================================================================
