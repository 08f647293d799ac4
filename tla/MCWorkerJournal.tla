--------------------------- MODULE MCWorkerJournal ---------------------------
(* A call of spawn_group with two members and a call of spawn.             *)
EXTENDS WorkerJournal, TLC

CONSTANTS w1, w2, w3, c1, c2

CallMembers == c1 :> <<w1, w2>> @@ c2 :> <<w3>>
CallPolicy == w1 :> "Discard" @@ w2 :> "Fail" @@ w3 :> "Adoptable"

\* One call of spawn.
OneMembers == c2 :> <<w3>>
OnePolicy == w3 :> "Adoptable"

\* One call of spawn_group.
PairMembers == c1 :> <<w1, w2>>
PairPolicy == w1 :> "Discard" @@ w2 :> "Adoptable"
=============================================================================
