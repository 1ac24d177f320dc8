---------------------------- MODULE RunLifecycle ----------------------------
(***************************************************************************)
(* What the run history promises of a runbook run, whatever the processes  *)
(* do: a run is submitted, may wait for the approval of an operator other  *)
(* than the one who asked for it, runs, and gets one final status; a       *)
(* restart of the backend ends whatever was not finished.                  *)
(***************************************************************************)
CONSTANTS
    Runs,       \* run ids
    Users,      \* operators
    NoUser,     \* nobody: no authentication, or started by a schedule
    Requester,  \* who asked for a run
    NeedsApproval   \* the runs that must be approved

VARIABLES
    status,     \* the status column of a run's row, "none" before it exists
    approvedBy  \* the operator whose approval let it run

Final == {"ok", "partial", "failed", "interrupted"}
Pending == {"running", "awaiting_approval"}

Init ==
    /\ status = [r \in Runs |-> "none"]
    /\ approvedBy = [r \in Runs |-> NoUser]

Submit(r) ==
    /\ status[r] = "none"
    /\ status' = [status EXCEPT ![r] = IF r \in NeedsApproval
                                       THEN "awaiting_approval" ELSE "running"]
    /\ UNCHANGED approvedBy

Approve(r, u) ==
    /\ status[r] = "awaiting_approval"
    /\ u # Requester[r]
    /\ status' = [status EXCEPT ![r] = "running"]
    /\ approvedBy' = [approvedBy EXCEPT ![r] = u]

\* A run that was never approved can only end as failed.
End(r) ==
    /\ status[r] \in Pending
    /\ \E s \in Final \ {"interrupted"} :
          /\ status[r] = "awaiting_approval" => s = "failed"
          /\ status' = [status EXCEPT ![r] = s]
    /\ UNCHANGED approvedBy

\* Boot recovery: everything pending died with the previous process.
Restart ==
    /\ \E r \in Runs : status[r] \in Pending
    /\ status' = [r \in Runs |-> IF status[r] \in Pending THEN "interrupted" ELSE status[r]]
    /\ UNCHANGED approvedBy

Next ==
    \/ \E r \in Runs : Submit(r) \/ End(r) \/ \E u \in Users : Approve(r, u)
    \/ Restart

Spec == Init /\ [][Next]_<<status, approvedBy>>
=============================================================================
