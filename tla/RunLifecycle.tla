---------------------------- MODULE RunLifecycle ----------------------------
(***************************************************************************)
(* What GET /runs promises, with no lock, thread, directory or restart in  *)
(* it: at most one run is unfinished at any moment, a run goes from        *)
(* pending to running to a verdict, it may be interrupted at any point of  *)
(* that, and a verdict is final.                                           *)
(***************************************************************************)
CONSTANTS Runs

VARIABLES status

Ongoing  == {"pending", "running"}
Verdicts == {"success", "failed", "cancelled", "interrupted"}

Init == status = [r \in Runs |-> "none"]

Idle == \A r \in Runs : status[r] \notin Ongoing

\* A launch is accepted only when nothing else is going.
Accept(r) ==
  /\ Idle
  /\ status[r] = "none"
  /\ status' = [status EXCEPT ![r] = "pending"]

Begin(r) ==
  /\ status[r] = "pending"
  /\ status' = [status EXCEPT ![r] = "running"]

\* The end of a run that really ran.
Conclude(r) ==
  /\ status[r] = "running"
  /\ \E verdict \in Verdicts : status' = [status EXCEPT ![r] = verdict]

\* The end of a run the service lost.
Lose(r) ==
  /\ status[r] \in Ongoing
  /\ status' = [status EXCEPT ![r] = "interrupted"]

Next == \E r \in Runs : Accept(r) \/ Begin(r) \/ Conclude(r) \/ Lose(r)

Spec == Init /\ [][Next]_status
=============================================================================
