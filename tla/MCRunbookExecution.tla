------------------------ MODULE MCRunbookExecution ------------------------
(***************************************************************************)
(* Instances of RunbookExecution for TLC.                                  *)
(***************************************************************************)
EXTENDS RunbookExecution, TLC

\* Runs that need an approval, and runs that need none.
GatedRequests == {[approval_required |-> TRUE, dry_run |-> FALSE, alert_id |-> FALSE]}
FreeRequests == {[approval_required |-> FALSE, dry_run |-> FALSE, alert_id |-> FALSE]}

\* A gated run for an alert, and a dry run of a gated runbook.
MixedRequests ==
    {[approval_required |-> TRUE, dry_run |-> FALSE, alert_id |-> TRUE],
     [approval_required |-> TRUE, dry_run |-> TRUE,  alert_id |-> FALSE]}

\* Users deciding about the same rows, theirs or a trigger's.
DecisionOperations == {"execute", "trigger", "approve", "reject", "cancel"}
\* Administrators overriding the breaker while runs end.
OverrideOperations == {"schedule", "open", "close"}
\* Rows that wait in the queue, or for an approval that can be overdue.
BatchOperations == {"schedule", "retry", "test", "approve"}

ClientSymmetry == Permutations(Clients)

=============================================================================
