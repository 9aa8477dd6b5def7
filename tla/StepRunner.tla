----------------------------- MODULE StepRunner -----------------------------
(***************************************************************************)
(* One run of a runbook by RunbookExecutor.execute_runbook: the step loop, *)
(* the retries of a step, the verdict and the rollback, over the executor  *)
(* of the target server.  RunbookExecution has this run as StartRun ...    *)
(* CommitVerdict and knows neither attempts nor connections; RefinesCore   *)
(* says that it is right about the rest.                                   *)
(*                                                                         *)
(* ExecutorFactory.get_executor hands every caller the same executor       *)
(* object for the same server, and an executor holds one connection.  The  *)
(* run shares it with the handlers of routers/servers.py that test a       *)
(* server or execute a command on it (the Testers): each enters the        *)
(* executor, which replaces the connection, and leaves it, which closes    *)
(* whatever connection it then holds.                                      *)
(***************************************************************************)
EXTENDS Integers, SequencesExt

CONSTANTS
    Steps,          \* steps of the runbook
    MaxRetries,     \* bound: the largest retry_count of a step
    Jobs,           \* the runs of an instance: [plan, protocol, dry_run]
    Testers         \* handlers that use the same server, once each

ASSUME StepRunnerAssumption ==
    /\ Steps \in Nat \ {0}
    /\ MaxRetries \in Nat
    /\ {"run", "none"} \cap Testers = {}

StepIndex == 1 .. Steps

Protocols == {"ssh", "winrm", "api"}

\* What the run needs to know of a RunbookStep.  `command` is "none" when the step
\* does not apply to the server's system or has no command for it, "broken" when
\* its template does not render; likewise `rollback`.  `needs` is the step whose
\* output_variable is this one's run_if_variable, 0 when it has no condition.
StepPlan == [command : {"sent", "none", "broken"}, retry_count : 0 .. MaxRetries,
             continue_on_fail : BOOLEAN, rollback : {"sent", "none", "broken"},
             needs : 0 .. Steps]

Job == [plan : [StepIndex -> StepPlan], protocol : Protocols, dry_run : BOOLEAN]

ASSUME JobsAssumption == Jobs \subseteq Job

Users == Testers \cup {"run"}

---------------------------------------------------------------------------
VARIABLES
    job,            \* the run's constants
    conn,           \* the executor's connection, named after who opened it
    live,           \* connections that are open
    tester,         \* where each handler is
    pc,             \* where the run is
    i,              \* index of the step, Steps + 1 after the loop
    attempt,        \* retry_attempt
    via,            \* the connection the command in flight went through
    status,         \* StepExecution.status, "none" before the step
    steps_completed, steps_failed,
    all_success,
    completed_steps,\* the steps that succeeded and are not rolled back
    outcome,        \* final status of the execution
    tried           \* history: each command the executor was given and its fate

connVars == <<conn, live>>
resultVars == <<status, steps_completed, steps_failed, all_success, completed_steps>>
vars == <<job, connVars, tester, pc, i, attempt, via, resultVars, outcome, tried>>

plan == job.plan
ssh == job.protocol = "ssh"

\* "refused": there was no connection to send it through; "open": no result yet;
\* "answered": the host reported an exit code or an HTTP status; "garbled": it did,
\* with output that could not be read; "left": given up at the time-out or lost with
\* the connection, and the host may still execute it.
Fates == {"refused", "open", "answered", "garbled", "left"}

Command == [kind : {"step", "rollback"}, step : StepIndex, attempt : 0 .. MaxRetries,
            fate : Fates]

TypeOK ==
    /\ job \in Jobs
    /\ conn \in Users \cup {"none"}
    /\ live \subseteq Users
    /\ tester \in [Testers -> {"idle", "using", "closing", "done"}]
    /\ pc \in {"connect", "step", "attempt", "waiting", "closing", "left",
               "undo", "undoing", "done"}
    /\ i \in 1 .. (Steps + 1)
    /\ attempt \in 0 .. MaxRetries
    /\ via \in Users \cup {"none"}
    /\ status \in [StepIndex -> {"none", "running", "success", "failed", "skipped"}]
    /\ steps_completed \in 0 .. Steps /\ steps_failed \in 0 .. Steps
    /\ all_success \in BOOLEAN
    /\ completed_steps \in Seq(StepIndex)
    /\ outcome \in {"running", "success", "failed"}
    /\ tried \in Seq(Command)

Init ==
    /\ job \in Jobs
    /\ conn = "none" /\ live = {}
    /\ tester = [t \in Testers |-> "idle"]
    /\ pc = "connect" /\ i = 1 /\ attempt = 0 /\ via = "none"
    /\ status = [s \in StepIndex |-> "none"]
    /\ steps_completed = 0 /\ steps_failed = 0
    /\ all_success = TRUE
    /\ completed_steps = <<>>
    /\ outcome = "running"
    /\ tried = <<>>

---------------------------------------------------------------------------
(* The shared executor                                                     *)

\* connect() puts a new connection in the place of the one the executor has.
Open(u) ==
    /\ conn' = u
    /\ live' = live \cup {u}

\* disconnect() closes the connection of the executor, whoever opened it, and
\* forgets after an await.  A WinRM session is only forgotten, and at once.
BeginClose ==
    /\ IF job.protocol = "winrm"
       THEN conn' = "none" /\ UNCHANGED live
       ELSE live' = live \ {conn} /\ UNCHANGED conn

Awaits == job.protocol # "winrm" /\ conn # "none"

EndClose ==
    /\ conn' = "none"
    /\ UNCHANGED live

\* What execute() finds: no connection (SSH), a connection closed behind its back,
\* or one to send through.  WinRM and API executors open one when they have none.
NotConnected == ssh /\ conn = "none"
Reopens == ~ssh /\ conn = "none"
Closed == conn # "none" /\ conn \notin live /\ job.protocol # "winrm"

Through(u) ==
    /\ ~NotConnected /\ ~Closed
    /\ IF Reopens THEN Open(u) ELSE UNCHANGED connVars

---------------------------------------------------------------------------
(* Results of a command                                                    *)

\* success and retryable are the executor's, expected is _check_step_success.
Result == [success : BOOLEAN, expected : BOOLEAN, retryable : BOOLEAN]

\* The host answers, legibly.  A command step may expect a nonzero code or a pattern; an
\* API step expects what the executor calls success, and may want a pattern besides.
Answers ==
    IF job.protocol = "api"
    THEN {r \in Result : r.expected => r.success}
    ELSE {r \in Result : ~r.retryable}

TimedOut == [success |-> FALSE, expected |-> FALSE, retryable |-> TRUE]

\* WinRM decodes the output inside the try of execute(): the answer of a host that
\* does not write UTF-8 is lost in the exception, as that of a lost connection.
Undecodable == [success |-> FALSE, expected |-> FALSE, retryable |-> TRUE]

\* The connection ends before the answer: an exception, except that SSH may report
\* a command without exit status, which `exit_status or 0` shows to the check as 0.
LostResults ==
    {r \in Result : /\ ~r.success
                    /\ r.expected => ssh /\ ~r.retryable
                    /\ job.protocol = "winrm" => r.retryable}

\* Sent on a connection that had been closed: an exception, and no retryable one
\* for an HTTP client.
ClosedResults ==
    {r \in Result : /\ ~r.success /\ ~r.expected
                    /\ job.protocol = "api" => ~r.retryable}

NotConnectedResult == TimedOut

Try(kind, s, fate) ==
    tried' = Append(tried, [kind |-> kind, step |-> s,
                            attempt |-> IF kind = "step" THEN attempt ELSE 0,
                            fate |-> fate])

Settle(fate) == tried' = [tried EXCEPT ![Len(tried)].fate = fate]

---------------------------------------------------------------------------
(* The step loop                                                           *)

\* async with executor: the connection, or any other error before the first step.
Connect ==
    /\ pc = "connect"
    /\ Open("run")
    /\ pc' = "step"
    /\ UNCHANGED <<job, tester, i, attempt, via, resultVars, outcome, tried>>

ConnectFails ==
    /\ pc = "connect"
    /\ outcome' = "failed"
    /\ pc' = "done"
    /\ UNCHANGED <<job, connVars, tester, i, attempt, via, resultVars, tried>>

\* Variant: any earlier step that is over counts, run or not.
CapturedAlsoSkipped == {s \in StepIndex : status[s] \in {"success", "failed", "skipped"}}

\* The steps whose output variables are set: those that were given to the executor,
\* whether they succeeded or not.
Captured ==
    {s \in StepIndex : status[s] \in {"success", "failed"} /\ plan[s].command = "sent"}

\* Variant: a failing step never ends the loop.
AfterFailureOfAny(s) == s + 1

AfterFailure(s) == IF plan[s].continue_on_fail THEN s + 1 ELSE Steps + 1

\* The system or the condition does not match, or there is no command.  A variable
\* that is set may or may not have the value the step wants.
SkipStep ==
    /\ pc = "step" /\ i <= Steps
    /\ plan[i].command = "none" \/ plan[i].needs # 0
    /\ status' = [status EXCEPT ![i] = "skipped"]
    /\ i' = i + 1
    /\ UNCHANGED <<job, connVars, tester, pc, attempt, via, steps_completed, steps_failed,
                   all_success, completed_steps, outcome, tried>>

Applies == plan[i].needs = 0 \/ plan[i].needs \in Captured

\* steps_failed stays as it is.
RenderingFails ==
    /\ pc = "step" /\ i <= Steps
    /\ Applies /\ plan[i].command = "broken"
    /\ status' = [status EXCEPT ![i] = "failed"]
    /\ all_success' = FALSE
    /\ i' = AfterFailure(i)
    /\ UNCHANGED <<job, connVars, tester, pc, attempt, via, steps_completed, steps_failed,
                   completed_steps, outcome, tried>>

BeginStep ==
    /\ pc = "step" /\ i <= Steps
    /\ Applies /\ plan[i].command = "sent"
    /\ status' = [status EXCEPT ![i] = "running"]
    /\ attempt' = 0
    /\ pc' = "attempt"
    /\ UNCHANGED <<job, connVars, tester, i, via, steps_completed, steps_failed, all_success,
                   completed_steps, outcome, tried>>

---------------------------------------------------------------------------
(* The attempts of a step                                                  *)

Send ==
    /\ pc = "attempt" /\ ~job.dry_run
    /\ Through("run")
    /\ via' = conn'
    /\ Try("step", i, "open")
    /\ pc' = "waiting"
    /\ UNCHANGED <<job, tester, i, attempt, resultVars, outcome>>

\* Variants: without end; whatever the failure.
RetriesForever(r) == ~r.success /\ r.retryable
RetriesAnyFailure(r) == ~r.success /\ attempt < plan[i].retry_count
Retries(r) == ~r.success /\ r.retryable /\ attempt < plan[i].retry_count

NextAttempt == attempt + 1

\* Variant: the last step decides.
EndStepLastWins(expected) ==
    /\ status' = [status EXCEPT ![i] = IF expected THEN "success" ELSE "failed"]
    /\ steps_completed' = IF expected THEN steps_completed + 1 ELSE steps_completed
    /\ steps_failed' = IF expected THEN steps_failed ELSE steps_failed + 1
    /\ all_success' = expected
    /\ completed_steps' = IF expected THEN Append(completed_steps, i) ELSE completed_steps
    /\ i' = IF expected THEN i + 1 ELSE AfterFailure(i)

\* The result is stored, the counters and the step are committed.
EndStep(expected) ==
    /\ status' = [status EXCEPT ![i] = IF expected THEN "success" ELSE "failed"]
    /\ steps_completed' = IF expected THEN steps_completed + 1 ELSE steps_completed
    /\ steps_failed' = IF expected THEN steps_failed ELSE steps_failed + 1
    /\ all_success' = (all_success /\ expected)
    /\ completed_steps' = IF expected THEN Append(completed_steps, i) ELSE completed_steps
    /\ i' = IF expected THEN i + 1 ELSE AfterFailure(i)

\* What _execute_with_retries and the loop make of a result.
Conclude(r) ==
    /\ via' = "none"
    /\ \/ /\ Retries(r)
          /\ attempt' = NextAttempt
          /\ pc' = "attempt"
          /\ UNCHANGED <<i, resultVars>>
       \/ /\ ~Retries(r)
          /\ EndStep(r.expected)
          /\ pc' = "step"
          /\ UNCHANGED attempt
    /\ UNCHANGED <<job, tester, outcome>>

\* The result of a dry run is exit code 0 and a fixed text, which the step's check
\* may refuse.
DryRunStep ==
    /\ pc = "attempt" /\ job.dry_run
    /\ \E expected \in BOOLEAN :
        Conclude([success |-> TRUE, expected |-> expected, retryable |-> FALSE])
    /\ UNCHANGED <<connVars, tried>>

RefuseStep ==
    /\ pc = "attempt" /\ ~job.dry_run
    /\ \/ NotConnected /\ Conclude(NotConnectedResult)
       \/ Closed /\ \E r \in ClosedResults : Conclude(r)
    /\ Try("step", i, "refused")
    /\ UNCHANGED connVars

InFlight == job.protocol = "winrm" \/ via \in live

Answer ==
    /\ pc = "waiting" /\ InFlight
    /\ \E r \in Answers : Conclude(r)
    /\ Settle("answered")
    /\ UNCHANGED connVars

AnswerGarbled ==
    /\ pc = "waiting" /\ job.protocol = "winrm"
    /\ Conclude(Undecodable)
    /\ Settle("garbled")
    /\ UNCHANGED connVars

TimeOut ==
    /\ pc = "waiting"
    /\ Conclude(TimedOut)
    /\ Settle("left")
    /\ UNCHANGED connVars

\* The network, or a handler's disconnect, ends the connection.
Lose ==
    /\ pc = "waiting"
    /\ \E r \in LostResults : Conclude(r)
    /\ Settle("left")
    /\ live' = IF ssh THEN live \ {via} ELSE live
    /\ UNCHANGED conn

---------------------------------------------------------------------------
(* The end of the loop and the rollback                                    *)

LeaveExecutor ==
    /\ pc = "step" /\ i = Steps + 1
    /\ BeginClose
    /\ pc' = IF Awaits THEN "closing" ELSE "left"
    /\ UNCHANGED <<job, tester, i, attempt, via, resultVars, outcome, tried>>

ExecutorLeft ==
    /\ pc = "closing"
    /\ EndClose
    /\ pc' = "left"
    /\ UNCHANGED <<job, tester, i, attempt, via, resultVars, outcome, tried>>

\* Variant: no regard to dry_run.
RollsBackDryRunsToo == ~all_success /\ completed_steps # <<>>

\* Only a failed run with something to undo, and no dry run, rolls back.
RollsBack == ~all_success /\ completed_steps # <<>> /\ ~job.dry_run

EndOfSteps ==
    /\ pc = "left" /\ ~RollsBack
    /\ outcome' = IF all_success THEN "success" ELSE "failed"
    /\ pc' = "done"
    /\ UNCHANGED <<job, connVars, tester, i, attempt, via, resultVars, tried>>

StartRollback ==
    /\ pc = "left" /\ RollsBack
    /\ outcome' = "failed"
    /\ pc' = "undo"
    /\ UNCHANGED <<job, connVars, tester, i, attempt, via, resultVars, tried>>

\* Variant: in the order the steps ran.
NextUndoneFirst == Head(completed_steps)
NextUndone == Last(completed_steps)

Undone ==
    /\ completed_steps' = Front(completed_steps)
    /\ UNCHANGED <<job, tester, i, attempt, status, steps_completed, steps_failed, all_success,
                   outcome>>

\* Variant: a step without a rollback command is not passed over.
SkipUndoBrokenOnly ==
    /\ pc = "undo" /\ completed_steps # <<>>
    /\ plan[NextUndone].rollback = "broken"
    /\ Undone
    /\ UNCHANGED <<connVars, pc, via, tried>>

\* No rollback command, or one that does not render (or, for an API, is no request).
SkipUndo ==
    /\ pc = "undo" /\ completed_steps # <<>>
    /\ plan[NextUndone].rollback # "sent"
    /\ Undone
    /\ UNCHANGED <<connVars, pc, via, tried>>

RefuseUndo ==
    /\ pc = "undo" /\ completed_steps # <<>>
    /\ plan[NextUndone].rollback = "sent"
    /\ NotConnected \/ Closed
    /\ Try("rollback", NextUndone, "refused")
    /\ Undone
    /\ UNCHANGED <<connVars, pc, via>>

SendUndo ==
    /\ pc = "undo" /\ completed_steps # <<>>
    /\ plan[NextUndone].rollback = "sent"
    /\ Through("run")
    /\ via' = conn'
    /\ Try("rollback", NextUndone, "open")
    /\ pc' = "undoing"
    /\ UNCHANGED <<job, tester, i, attempt, resultVars, outcome>>

\* Whatever the result, the next one follows.
EndUndo ==
    /\ pc = "undoing"
    /\ Undone
    /\ via' = "none"
    /\ \/ InFlight /\ Settle("answered") /\ UNCHANGED live
       \/ job.protocol = "winrm" /\ Settle("garbled") /\ UNCHANGED live
       \/ Settle("left") /\ live' \in {live, IF ssh THEN live \ {via} ELSE live}
    /\ pc' = "undo"
    /\ UNCHANGED conn

EndRollback ==
    /\ pc = "undo" /\ completed_steps = <<>>
    /\ pc' = "done"
    /\ UNCHANGED <<job, connVars, tester, i, attempt, via, resultVars, outcome, tried>>

---------------------------------------------------------------------------
(* The handlers that use the same executor                                 *)

TesterEnters(t) ==
    /\ tester[t] = "idle"
    /\ Open(t)
    /\ tester' = [tester EXCEPT ![t] = "using"]

\* A command of the handler finds the executor without connection.
TesterReopens(t) ==
    /\ tester[t] = "using" /\ Reopens
    /\ Open(t)
    /\ UNCHANGED tester

TesterLeaves(t) ==
    /\ tester[t] = "using"
    /\ BeginClose
    /\ tester' = [tester EXCEPT ![t] = IF Awaits THEN "closing" ELSE "done"]

TesterLeft(t) ==
    /\ tester[t] = "closing"
    /\ EndClose
    /\ tester' = [tester EXCEPT ![t] = "done"]

TesterStep ==
    /\ \E t \in Testers :
        TesterEnters(t) \/ TesterReopens(t) \/ TesterLeaves(t) \/ TesterLeft(t)
    /\ UNCHANGED <<job, pc, i, attempt, via, resultVars, outcome, tried>>

---------------------------------------------------------------------------
RunStep ==
    \/ Connect \/ ConnectFails \/ SkipStep \/ RenderingFails \/ BeginStep
    \/ DryRunStep \/ Send \/ RefuseStep \/ Answer \/ AnswerGarbled
    \/ TimeOut \/ Lose
    \/ LeaveExecutor \/ ExecutorLeft \/ EndOfSteps
    \/ StartRollback \/ SkipUndo \/ RefuseUndo \/ SendUndo \/ EndUndo \/ EndRollback

Next == RunStep \/ TesterStep

Spec == Init /\ [][Next]_vars

\* Every await of the run is bounded by a time-out.
FairSpec == Spec /\ WF_vars(RunStep)

---------------------------------------------------------------------------
(* Properties                                                              *)

Given(kind) == {k \in DOMAIN tried : tried[k].kind = kind}

\* The executor is given the commands of the steps in their order, the attempts of
\* a step one by one and within its retry_count, then the rollbacks in the reverse
\* order, one per step; a dry run gives it nothing.
HostFollowsThePlan ==
    /\ \A k, l \in DOMAIN tried :
        LET c == tried[k]
            d == tried[l]
        IN  k < l =>
                \/ c.kind = "step" /\ d.kind = "rollback"
                \/ c.kind = "step" /\ d.kind = "step" /\ c.step < d.step
                \/ c.kind = "step" /\ d.kind = "step" /\ c.step = d.step /\ c.attempt < d.attempt
                \/ c.kind = "rollback" /\ d.kind = "rollback" /\ c.step > d.step
    /\ \A k \in Given("step") : tried[k].attempt <= plan[tried[k].step].retry_count
    /\ job.dry_run => tried = <<>>

\* After a step that failed and has no continue_on_fail, no later step is touched,
\* be it skipped, failed in rendering or sent.
NothingAfterFatalFailure ==
    \A s, t \in StepIndex :
        s < t /\ status[s] = "failed" /\ ~plan[s].continue_on_fail => status[t] = "none"

\* A command step whose answer has been read is never sent to the host again: the
\* retries are for time-outs and connections.  They are also for a WinRM answer that
\* is not UTF-8 ("garbled"): the command ran and is sent again.
AnsweredIsNotResent ==
    job.protocol # "api" =>
        \A k, l \in Given("step") :
            k < l /\ tried[k].fate = "answered" => tried[k].step # tried[l].step

\* A conditional step is given to the executor only when the step it depends on was,
\* along any chain of conditions.
ConditionsHold ==
    \A k \in Given("step") :
        LET needed == plan[tried[k].step].needs
        IN  needed # 0 =>
                \E l \in Given("step") : l < k /\ tried[l].step = needed /\ tried[l].fate # "open"

\* At the end the verdict is what the steps say: success when every step succeeded
\* or was skipped, failed when one failed or the executor could not be entered; the
\* counters are those of the steps, without the ones that did not render.
VerdictMatchesSteps ==
    pc = "done" =>
        /\ \A s \in StepIndex : status[s] # "running"
        /\ outcome = "success" => \A s \in StepIndex : status[s] \in {"success", "skipped"}
        /\ outcome = "failed" =>
            \/ \E s \in StepIndex : status[s] = "failed"
            \/ \A s \in StepIndex : status[s] = "none"
        /\ steps_completed = Cardinality({s \in StepIndex : status[s] = "success"})
        /\ steps_failed =
            Cardinality({s \in StepIndex : status[s] = "failed" /\ plan[s].command = "sent"})

\* At the end of a run the rollbacks that were tried are those of its successful
\* steps if it failed (dry runs aside), and none if it did not.
RollsBackItsSuccesses ==
    pc = "done" =>
        {tried[k].step : k \in Given("rollback")} =
            IF outcome = "failed" /\ ~job.dry_run
            THEN {s \in StepIndex : status[s] = "success" /\ plan[s].rollback = "sent"}
            ELSE {}

\* A run comes to an end, whatever the handlers do to its connection.
RunEnds == <>(pc = "done")

\* The run is what RunbookExecution says of it: each step is one of the core's
\* worker or nothing to it.
coreRow ==
    [status |-> "running", completed_at |-> FALSE, approval_expires_at |-> "none",
     approval_required |-> FALSE, dry_run |-> job.dry_run, alert_id |-> FALSE,
     steps_completed |-> steps_completed, steps_failed |-> steps_failed]

corePc ==
    CASE pc \in {"connect", "step", "closing", "left"} -> "step"
      [] pc \in {"attempt", "waiting"} -> "command"
      [] pc \in {"undo", "undoing"} -> "rollback"
      [] pc = "done" -> "verdict"

ClosedCoreBreaker == [state |-> "closed", failure_count |-> 0, success_count |-> 0]

Core == INSTANCE RunbookExecution WITH
    MaxExecutions <- 1, Clients <- {}, Operations <- {}, Requests <- {}, BatchLimit <- 1,
    FailureThreshold <- 1, MaxCrashes <- 0, MaxStops <- 0,
    db <- <<coreRow>>, cb <- ClosedCoreBreaker, resolved <- {}, req <- <<>>,
    pc <- corePc, batch <- {1}, session <- <<coreRow>>, current <- 1, step <- i,
    completed_steps <- \E s \in StepIndex : status[s] = "success",
    outcome <- IF outcome = "running" THEN "none" ELSE outcome,
    cb_seen <- ClosedCoreBreaker, overdue <- {}, authorised <- {1}, runs <- <<1>>,
    failures <- 0, crashes <- 0, stops <- 0

RefinesCore == [][Core!WorkerStep]_(Core!vars)

\* What _execute_rollback says it does: "Execute rollback commands for completed
\* steps in reverse order".  It runs when the executor has been left, and an SSH
\* executor that was left has no connection.
RollbackReachesHost ==
    \A k \in Given("rollback") : tried[k].fate # "refused"

\* What get_executor says it does: "Create an executor for the given server".  A run
\* that had one of its own would never find it without connection in the loop.
RunKeepsItsConnection == ~(pc = "attempt" /\ NotConnected)

=============================================================================
