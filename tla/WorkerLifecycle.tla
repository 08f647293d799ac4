--------------------------- MODULE WorkerLifecycle ---------------------------
(***************************************************************************)
(* What crates/iris-subagent-runtime promises of each worker, without      *)
(* threads, queues or channels: it is accepted once, starts at most once,  *)
(* and is settled at most once, for good; a worker that never started can  *)
(* only be settled as Cancelled (model.rs: WorkerStatus::is_terminal, "no  *)
(* further execution transition is expected"; WorkerEventKind::Completed,  *)
(* "Worker reached its single terminal state.").                           *)
(***************************************************************************)
CONSTANTS Workers, None

VARIABLES
  phase,     \* absent, queued, active or settled
  outcome    \* the status a settled worker ended in

Results == {"Completed", "Failed", "Cancelled"}

Init ==
  /\ phase = [w \in Workers |-> "absent"]
  /\ outcome = [w \in Workers |-> None]

\* A call of spawn or spawn_group makes its workers visible together.
Accept(S) ==
  /\ \A w \in S : phase[w] = "absent"
  /\ phase' = [w \in Workers |-> IF w \in S THEN "queued" ELSE phase[w]]
  /\ UNCHANGED outcome

Start(w) ==
  /\ phase[w] = "queued"
  /\ phase' = [phase EXCEPT ![w] = "active"]
  /\ UNCHANGED outcome

Settle(w, r) ==
  /\ phase[w] = "active" \/ (phase[w] = "queued" /\ r = "Cancelled")
  /\ phase' = [phase EXCEPT ![w] = "settled"]
  /\ outcome' = [outcome EXCEPT ![w] = r]

Next ==
  \/ \E S \in SUBSET Workers : Accept(S)
  \/ \E w \in Workers : Start(w) \/ \E r \in Results : Settle(w, r)

Spec == Init /\ [][Next]_<<phase, outcome>>
=============================================================================
