--------------------------- MODULE MCWorkerRuntime ---------------------------
(* Workloads for WorkerRuntime: the ids of each call and their groups.     *)
EXTENDS WorkerRuntime, TLC

CONSTANTS w1, w2, w3, w4, g1, b1, b2

\* spawn_group of a normal (w1) and two urgent jobs, and spawn of an urgent one.
MixedWorkers == {w1, w2, w3, w4}
MixedMembers == b1 :> <<w1, w2, w3>> @@ b2 :> <<w4>>
MixedGroups == w1 :> g1 @@ w2 :> g1 @@ w3 :> g1 @@ w4 :> NoGroup

\* One call of spawn_group.
PairWorkers == {w1, w2}
PairMembers == b1 :> <<w1, w2>>
PairGroups == w1 :> g1 @@ w2 :> g1

\* Two calls of spawn.
SingleWorkers == {w1, w2}
SingleMembers == b1 :> <<w1>> @@ b2 :> <<w2>>
SingleGroups == w1 :> NoGroup @@ w2 :> NoGroup
=============================================================================
