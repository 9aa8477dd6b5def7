------------------------- MODULE ExecutionPromise -------------------------
(***************************************************************************)
(* What the execution subsystem promises about a runbook execution, with   *)
(* no rows, sessions or worker: its commands are sent only after it was    *)
(* cleared (by an approval, or because none was needed), executions are    *)
(* carried out one at a time, and what is done is never taken up again.    *)
(* Only the death of the process sends an execution back from "active" to  *)
(* "cleared", and so lets it be carried out a second time.                 *)
(***************************************************************************)
EXTENDS Naturals

CONSTANT Executions

VARIABLES
    phase,      \* [Executions -> Phases]
    deaths      \* how often the process died with its work unfinished

vars == <<phase, deaths>>

Phases == {"absent", "held", "cleared", "active", "done"}

Moves ==
    {<<"absent", "held">>, <<"absent", "cleared">>,
     <<"held", "cleared">>, <<"held", "done">>,
     <<"cleared", "active">>, <<"cleared", "done">>, <<"active", "done">>}

PhaseOK == phase \in [Executions -> Phases] /\ deaths \in Nat

OneAtATime == \A e, f \in Executions : phase[e] = "active" /\ phase[f] = "active" => e = f

Init ==
    /\ phase = [e \in Executions |-> "absent"]
    /\ deaths = 0

Move(e) ==
    \/ phase'[e] = phase[e]
    \/ <<phase[e], phase'[e]>> \in Moves
    \/ deaths' = deaths + 1 /\ <<phase[e], phase'[e]>> = <<"active", "cleared">>

Next ==
    /\ \A e \in Executions : Move(e)
    /\ deaths' \in {deaths, deaths + 1}
    /\ OneAtATime'

Spec == Init /\ [][Next]_vars

=============================================================================
