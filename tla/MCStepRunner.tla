---------------------------- MODULE MCStepRunner ----------------------------
(***************************************************************************)
(* Instances of StepRunner for TLC.                                        *)
(***************************************************************************)
EXTENDS StepRunner, TLC

Simple == [command |-> "sent", retry_count |-> 0, continue_on_fail |-> FALSE,
           rollback |-> "sent", needs |-> 0]

\* A first step that is retried and may fail, one that must not fail, or one that
\* is skipped; a second that may be broken or conditional, and may have a rollback
\* (then its failure is no matter); a third that may depend on the second.
FirstSteps ==
    {[Simple EXCEPT !.retry_count = MaxRetries, !.continue_on_fail = TRUE], Simple,
     [Simple EXCEPT !.command = "none"]}

SecondSteps ==
    {[Simple EXCEPT !.command = c, !.needs = n,
                    !.rollback = IF undoable THEN "sent" ELSE "none",
                    !.continue_on_fail = undoable] :
        c \in {"sent"}, n \in {0, 1}, undoable \in BOOLEAN}
    \cup {[Simple EXCEPT !.command = "broken", !.continue_on_fail = b] : b \in BOOLEAN}

ThirdSteps == {Simple, [Simple EXCEPT !.needs = 2, !.rollback = "broken"]}

PlansOfThree == {<<a, b, c>> : a \in FirstSteps, b \in SecondSteps, c \in ThirdSteps}

MixedJobs ==
    {[plan |-> s, protocol |-> p, dry_run |-> FALSE] : s \in PlansOfThree, p \in Protocols}
    \cup
    {[plan |-> s, protocol |-> "ssh", dry_run |-> TRUE] : s \in PlansOfThree}

\* Two steps that can be rolled back, over SSH.
SSHJobs == {[plan |-> <<Simple, Simple>>, protocol |-> "ssh", dry_run |-> FALSE]}

=============================================================================
